----------------------------- MODULE ScriptProofs ------------------------------
(* What ScriptHook keeps in every step, for any number of threads, scripts *)
(* and base addresses, and any choice of faults and refusals.              *)
EXTENDS ScriptHook, DumpProofs, FiniteSetTheorems

ScriptTypes ==
  /\ image \in [Bases -> {"none", "mapped", "created", "ready"}]
  /\ loadedAs \in [Bases -> {"exact", "other"}]
  /\ patched \subseteq Bases /\ failLogged \subseteq Bases
  /\ EngineTypeOK
  /\ original \in Bases \cup {NoBase} /\ parser \in Bases \cup {NoBase}
  /\ at \in [Callers -> Bases \cup {NoBase}]
  /\ loads \in 0 .. MaxLoads
  /\ compiles \in [Callers -> 0 .. MaxCompiles]
  /\ undumped \in BOOLEAN /\ shared \in BOOLEAN
  /\ engine \in {"vbscript", "jscript"}
  /\ phase \in {"running", "unhooking", "unhooked", "released", "gone"}

(* WriteText writes all or, at the first try, nothing.                     *)
AtOneGo == \A t \in Callers : job[t].done = 0 \/ job[t].done = Len(job[t].data)

(* The one pointer to the original follows the image hooked last, and      *)
(* another image that is still hooked was loaded at the time.              *)
PointerFollows ==
  Running =>
    /\ \A b \in patched : image[b] = "ready"
    /\ \A t \in Callers : at[t] # NoBase => at[t] \in patched
    /\ ~shared => \A b \in Bases : image[b] = "created" \/ b \in patched => original = b

IInv ==
  /\ DumpInv /\ AtOneGo
  /\ ScriptTypes /\ IsFiniteSet(Live)
  /\ PointerFollows
  /\ UnhookedIsReported

LEMMA InitInv == Init => IInv
  <1> SUFFICES ASSUME Init PROVE IInv
    OBVIOUS
  <1>1. DumpInv
    BY DumpInvInit DEF Init
  <1>2. AtOneGo
    BY DEF Init, DumpInit, NoJob, AtOneGo
  <1>3. 0 \in 0 .. MaxLoads /\ 0 \in 0 .. MaxCompiles
    BY BoundAssumption
  <1>4. EngineTypeOK
    BY DEF Init, MH_Initialize, EngineTypeOK
  <1>5. ScriptTypes
    BY <1>3, <1>4 DEF Init, ScriptTypes
  <1>6. Live = {}
    BY DEF Init, Live
  <1>7. PointerFollows /\ UnhookedIsReported
    BY DEF Init, PointerFollows, UnhookedIsReported
  <1>. QED BY <1>1, <1>2, <1>5, <1>6, <1>7, FS_EmptySet DEF IInv

-----------------------------------------------------------------------------
(* The part of the state that DumpFile knows                               *)

LEMMA TerminateDump ==
  ASSUME DumpInv, AtOneGo, NEW S, Terminate(S)
  PROVE  DumpInv' /\ AtOneGo'
  <1>1. \A t \in Callers : job[t] \in Jobs
    BY DEF DumpInv, DumpTypeOK
  <1>2. \A t \in Callers : job'[t].done = job[t].done /\ job'[t].data = job[t].data
    BY <1>1 DEF Terminate, Jobs
  <1>. QED BY <1>2, TerminateStep DEF AtOneGo

LEMMA StepDump == IInv /\ [Next]_vars => DumpInv' /\ AtOneGo'
  <1> SUFFICES ASSUME DumpInv, AtOneGo, [Next]_vars PROVE DumpInv' /\ AtOneGo'
    BY DEF IInv
  <1>0. job \in [Callers -> Jobs]
    BY DEF DumpInv, DumpTypeOK
  <1>1. ASSUME UNCHANGED dumpVars PROVE DumpInv' /\ AtOneGo'
    BY <1>1, DumpUnchanged DEF AtOneGo, dumpVars
  <1>2. ASSUME NEW b \in Bases, LoadEngine(b) \/ CallbackStep(b) \/ UnloadEngine(b)
        PROVE  DumpInv' /\ AtOneGo'
    <2>1. CASE SearchFaults(b)
      BY <2>1, TerminateDump DEF SearchFaults
    <2>2. CASE LoadEngine(b)
      BY <1>1, <2>2 DEF LoadEngine
    <2>3. CASE IgnoreImage(b)
      BY <1>1, <2>3 DEF IgnoreImage
    <2>4. CASE CreateHook(b)
      BY <1>1, <2>4 DEF CreateHook, CreateHookWith
    <2>5. CASE EnableHook(b)
      BY <1>1, <2>5 DEF EnableHook
    <2>6. CASE UnloadEngine(b)
      BY <1>1, <2>6 DEF UnloadEngine
    <2>. QED BY <1>2, <2>1, <2>2, <2>3, <2>4, <2>5, <2>6 DEF CallbackStep
  <1>3. ASSUME NEW t \in Callers, NEW b \in Bases, Compile(t, b) PROVE DumpInv' /\ AtOneGo'
    <2>1. CASE UNCHANGED dumpVars
      BY <1>1, <2>1
    <2>2. ASSUME NEW d \in Payloads, TakeName(t, d) PROVE DumpInv' /\ AtOneGo'
      <3>1. AtOneGo'
        BY <1>0, <2>2 DEF TakeName, AtOneGo
      <3>. QED BY <2>2, <3>1, TakeNameStep
    <2>. QED BY <1>3, <2>1, <2>2 DEF Compile
  <1>4. ASSUME NEW t \in Callers, CreateDump(t) \/ CloseDump(t) \/ LogDump(t)
        PROVE  DumpInv' /\ AtOneGo'
    <2>1. DumpInv'
      <3>1. CASE CreateDump(t)
        BY <3>1, CreateStep
      <3>2. CASE CloseDump(t)
        BY <3>2, CloseStep
      <3>3. CASE LogDump(t)
        BY <3>3, LogStep
      <3>. QED BY <1>4, <3>1, <3>2, <3>3
    <2>2. ASSUME NEW s, job' = [job EXCEPT ![t].step = s] PROVE AtOneGo'
      BY <1>0, <2>2 DEF AtOneGo, Jobs
    <2>3. \/ job' = [job EXCEPT ![t].step = "writing"] \/ job' = [job EXCEPT ![t].step = "refused"]
          \/ job' = [job EXCEPT ![t].step = "closed"]  \/ job' = [job EXCEPT ![t].step = "logged"]
          \/ job' = [job EXCEPT ![t].step = "failed"]
      BY <1>4 DEF CreateDump, CloseDump, LogDump
    <2>. QED BY <2>1, <2>2, <2>3
  <1>5. ASSUME NEW t \in Callers, WriteText(t) PROVE DumpInv' /\ AtOneGo'
    <2>1. DumpInv'
      BY <1>5, WriteTextStep DEF AtOneGo
    <2>2. job[t].data \in Payloads /\ Len(Converted(job[t].data)) = Len(job[t].data)
      BY <1>5, ConvertedText DEF WriteText, DumpInv
    <2>3. /\ job'[t].data = job[t].data /\ job'[t].done = Len(job[t].data)
          /\ \A u \in Callers \ {t} : job'[u] = job[u]
      BY <1>0, <1>5, <2>2 DEF WriteText, Jobs
    <2>. QED BY <2>1, <2>3 DEF AtOneGo
  <1>6. ASSUME NEW t \in Callers, CallOriginal(t) PROVE DumpInv' /\ AtOneGo'
    <2>1. DumpInv'
      BY <1>6, ForgetStep DEF CallOriginal
    <2>2. AtOneGo'
      BY <1>0, <1>6 DEF CallOriginal, AtOneGo, NoJob
    <2>. QED BY <2>1, <2>2
  <1>7. ASSUME NEW t \in Callers, JumpIntoUnloadedImage(t) \/ Exit(t)
        PROVE  DumpInv' /\ AtOneGo'
    BY <1>7, TerminateDump DEF JumpIntoUnloadedImage, Exit
  <1>8. CASE UnhookForScript \/ Uninitialize
    BY <1>1, <1>8 DEF UnhookForScript, Uninitialize
  <1>9. CASE ProcessEnds
    BY <1>9, TerminateDump DEF ProcessEnds
  <1>10. CASE Tick
    BY <1>10, ClockStep DEF Tick, ClockMoves, AtOneGo
  <1>11. CASE UNCHANGED vars
    BY <1>1, <1>11 DEF vars
  <1>. QED BY <1>2, <1>3, <1>4, <1>5, <1>6, <1>7, <1>8, <1>9, <1>10, <1>11
           DEF Next, DetourStep, DumpStep

-----------------------------------------------------------------------------
(* The part of the state that is ScriptHook's own                          *)

LEMMA EngineStep ==
  ASSUME EngineTypeOK, NEW f \in Functions, NEW st,
         MH_CreateHook(f, st) \/ MH_EnableHook(f, st) \/ MH_DisableHook(f, st)
  PROVE  EngineTypeOK'
  BY DEF EngineTypeOK, MH_CreateHook, MH_EnableHook, MH_DisableHook, SetEntry

LEMMA EngineDown ==
  ASSUME EngineTypeOK, NEW st, MH_Uninitialize(st)
  PROVE  EngineTypeOK'
  BY DEF EngineTypeOK, MH_Uninitialize, mhVars

LEMMA StepTypes == IInv /\ [Next]_vars => ScriptTypes'
  <1> SUFFICES ASSUME ScriptTypes, [Next]_vars PROVE ScriptTypes'
    BY DEF IInv
  <1> USE BoundAssumption DEF ScriptTypes
  <1>a. Bases \subseteq Functions /\ GetProcAddr \in Functions
    BY FunctionAssumption
  <1>b. UNCHANGED mhVars => EngineTypeOK'
    BY DEF EngineTypeOK, mhVars
  <1>1. ASSUME UNCHANGED <<engineVars, hookVars, callVars, loads, phase>> PROVE ScriptTypes'
    BY <1>1, <1>b DEF engineVars, hookVars, callVars
  <1>2. ASSUME NEW b \in Bases, LoadEngine(b) PROVE ScriptTypes'
    <2>1. loads' \in 0 .. MaxLoads
      BY <1>2 DEF LoadEngine
    <2>2. PICK n \in Spellings : loadedAs' = [loadedAs EXCEPT ![b] = n]
      BY <1>2 DEF LoadEngine
    <2>3. n \in {"exact", "other"}
      BY SpellingAssumption
    <2>. QED BY <1>2, <1>b, <2>1, <2>2, <2>3 DEF LoadEngine, hookVars, callVars
  <1>3. ASSUME NEW b \in Bases, IgnoreImage(b) PROVE ScriptTypes'
    BY <1>3, <1>b DEF IgnoreImage, hookVars, callVars
  <1>4. ASSUME NEW b \in Bases, CreateHook(b) PROVE ScriptTypes'
    <2>1. PICK st : /\ MH_CreateHook(b, st)
                    /\ image' = [image EXCEPT ![b] = IF st = "OK" THEN "created" ELSE "ready"]
                    /\ original' = IF st = "OK" THEN b ELSE original
                    /\ failLogged' = IF st = "OK" THEN failLogged ELSE failLogged \cup {b}
      BY <1>4 DEF CreateHook, CreateHookWith
    <2>2. EngineTypeOK'
      BY <1>a, <2>1, EngineStep
    <2>3. shared' \in BOOLEAN /\ parser' \in Bases \cup {NoBase}
      BY <1>4 DEF CreateHook, CreateHookWith
    <2>. QED BY <1>4, <2>1, <2>2, <2>3 DEF CreateHook, CreateHookWith, callVars
  <1>5. ASSUME NEW b \in Bases, EnableHook(b) PROVE ScriptTypes'
    <2>1. PICK st : /\ MH_EnableHook(b, st)
                    /\ patched' = IF st = "OK" THEN patched \cup {b} ELSE patched
                    /\ failLogged' = IF st = "OK" THEN failLogged ELSE failLogged \cup {b}
      BY <1>5 DEF EnableHook
    <2>2. EngineTypeOK'
      BY <1>a, <2>1, EngineStep
    <2>. QED BY <1>5, <2>1, <2>2 DEF EnableHook, callVars
  <1>6. ASSUME NEW b \in Bases, SearchFaults(b) PROVE ScriptTypes'
    BY <1>6, <1>b DEF SearchFaults, engineVars, hookVars, callVars
  <1>7. ASSUME NEW b \in Bases, UnloadEngine(b) PROVE ScriptTypes'
    BY <1>7, <1>b DEF UnloadEngine, hookVars, callVars
  <1>8. ASSUME NEW t \in Callers, NEW b \in Bases, Compile(t, b) PROVE ScriptTypes'
    <2>1. compiles' \in [Callers -> 0 .. MaxCompiles]
      BY <1>8 DEF Compile
    <2>. QED BY <1>8, <1>b, <2>1 DEF Compile, engineVars, hookVars
  <1>9. ASSUME NEW t \in Callers, DumpStep(t) PROVE ScriptTypes'
    BY <1>1, <1>9 DEF DumpStep
  <1>10. ASSUME NEW t \in Callers, CallOriginal(t) PROVE ScriptTypes'
    BY <1>10, <1>b DEF CallOriginal, engineVars, hookVars
  <1>11. ASSUME NEW t \in Callers, JumpIntoUnloadedImage(t) \/ Exit(t) PROVE ScriptTypes'
    BY <1>11, <1>b DEF JumpIntoUnloadedImage, Exit, engineVars, hookVars, callVars
  <1>12. CASE UnhookForScript
    <2> DEFINE f == IF engine = "vbscript" THEN GetProcAddr ELSE parser
    <2>1. \/ UNCHANGED <<mhVars, patched>>
          \/ \E st : /\ f \in Functions /\ MH_DisableHook(f, st)
                     /\ patched' = IF st = "OK" THEN patched \ {f} ELSE patched
      BY <1>a, <1>12 DEF UnhookForScript
    <2>2. EngineTypeOK' /\ patched' \subseteq Bases
      BY <1>b, <2>1, EngineStep
    <2>. QED BY <1>12, <2>2 DEF UnhookForScript, callVars
  <1>13. CASE Uninitialize
    <2>1. EngineTypeOK' /\ patched' \subseteq patched
      BY <1>b, <1>13, EngineDown DEF Uninitialize
    <2>. QED BY <1>13, <2>1 DEF Uninitialize, callVars
  <1>14. CASE ProcessEnds
    BY <1>14, <1>b DEF ProcessEnds, engineVars, hookVars, callVars
  <1>15. CASE Tick
    BY <1>1, <1>15 DEF Tick
  <1>16. CASE UNCHANGED vars
    BY <1>1, <1>16 DEF vars
  <1>. QED BY <1>2, <1>3, <1>4, <1>5, <1>6, <1>7, <1>8, <1>9, <1>10, <1>11, <1>12, <1>13, <1>14,
              <1>15, <1>16 DEF Next, CallbackStep, DetourStep

(* Two images that are loaded are counted as two.                          *)
LEMMA TwoLive ==
  ASSUME IsFiniteSet(Live), NEW b \in Live, NEW c \in Live, b # c
  PROVE  Cardinality(Live) > 1
  <1>1. IsFiniteSet({c}) /\ Cardinality({c}) = 1
    BY FS_Singleton
  <1>2. Cardinality({c} \cup {b}) = 2
    BY <1>1, FS_AddElement
  <1>3. Cardinality({c} \cup {b}) <= Cardinality(Live)
    BY FS_Subset
  <1>. QED BY <1>2, <1>3, FS_CardinalityType

LEMMA StepLive == IInv /\ [Next]_vars => IsFiniteSet(Live)'
  <1> SUFFICES ASSUME ScriptTypes, IsFiniteSet(Live), [Next]_vars PROVE IsFiniteSet(Live)'
    BY DEF IInv
  <1>1. \/ image' = image
        \/ \E b \in Bases, s \in {"none", "mapped", "created", "ready"} :
             image' = [image EXCEPT ![b] = s]
    <2>1. ASSUME NEW b \in Bases, CreateHook(b)
          PROVE  \E s \in {"created", "ready"} : image' = [image EXCEPT ![b] = s]
      BY <2>1 DEF CreateHook, CreateHookWith
    <2>. QED BY <2>1 DEF Next, CallbackStep, DetourStep, DumpStep, vars, engineVars, LoadEngine,
         IgnoreImage, EnableHook, SearchFaults, UnloadEngine, Compile, CallOriginal,
         JumpIntoUnloadedImage, Exit, UnhookForScript, Uninitialize, ProcessEnds, Tick
  <1>2. CASE image' = image
    BY <1>2 DEF Live
  <1>3. ASSUME NEW b \in Bases, NEW s, image' = [image EXCEPT ![b] = s]
        PROVE  IsFiniteSet(Live)'
    <2>1. Live' \subseteq Live \cup {b}
      BY <1>3 DEF Live, ScriptTypes
    <2>2. IsFiniteSet(Live \cup {b})
      BY FS_AddElement
    <2>. QED BY <2>1, <2>2, FS_Subset
  <1>. QED BY <1>1, <1>2, <1>3

(* The process once it is ending says nothing more of its hooks.           *)
LEMMA StepHooks == IInv /\ [Next]_vars => PointerFollows' /\ UnhookedIsReported'
  <1> SUFFICES ASSUME ScriptTypes, IsFiniteSet(Live), PointerFollows, UnhookedIsReported,
                      [Next]_vars, Running, Running'
               PROVE  PointerFollows' /\ UnhookedIsReported'
    <2>1. ~Running' => PointerFollows' /\ UnhookedIsReported'
      BY DEF PointerFollows, UnhookedIsReported
    <2>2. [Next]_vars /\ Running' => Running
      BY DEF Next, CallbackStep, DetourStep, DumpStep, vars, engineVars, LoadEngine, IgnoreImage,
         CreateHook, CreateHookWith, EnableHook, SearchFaults, UnloadEngine, Compile, CallOriginal,
         JumpIntoUnloadedImage, Exit, UnhookForScript, Uninitialize, ProcessEnds, Tick, Running
    <2>. QED BY <2>1, <2>2 DEF IInv
  <1> USE DEF PointerFollows, UnhookedIsReported, ScriptTypes
  <1>1. ASSUME UNCHANGED <<engineVars, original, at>> PROVE PointerFollows' /\ UnhookedIsReported'
    BY <1>1 DEF engineVars
  <1>2. ASSUME NEW b \in Bases, LoadEngine(b) PROVE PointerFollows' /\ UnhookedIsReported'
    <2>1. PICK n \in Spellings : loadedAs' = [loadedAs EXCEPT ![b] = n]
      BY <1>2 DEF LoadEngine
    <2>2. b \notin patched
      BY <1>2 DEF LoadEngine
    <2>. QED BY <1>2, <2>1, <2>2 DEF LoadEngine, hookVars, callVars
  <1>3. ASSUME NEW b \in Bases, IgnoreImage(b) PROVE PointerFollows' /\ UnhookedIsReported'
    BY <1>3 DEF IgnoreImage, hookVars, callVars
  <1>4. ASSUME NEW b \in Bases, CreateHook(b) PROVE PointerFollows' /\ UnhookedIsReported'
    <2>1. PICK st : /\ image' = [image EXCEPT ![b] = IF st = "OK" THEN "created" ELSE "ready"]
                    /\ original' = IF st = "OK" THEN b ELSE original
                    /\ failLogged' = IF st = "OK" THEN failLogged ELSE failLogged \cup {b}
      BY <1>4 DEF CreateHook, CreateHookWith
    <2>2. /\ image[b] = "mapped" /\ b \notin patched /\ b \in Live
          /\ shared' = (shared \/ Cardinality(Live) > 1)
          /\ UNCHANGED <<loadedAs, patched, at>>
      BY <1>4 DEF CreateHook, CreateHookWith, Live, callVars
    <2>3. ASSUME ~shared', NEW c \in Bases, image[c] = "created" \/ c \in patched PROVE FALSE
      <3>1. c \in Live /\ c # b
        BY <2>2, <2>3 DEF Live
      <3>. QED BY <2>2, <2>3, <3>1, TwoLive
    <2>4. ASSUME ~shared', NEW c \in Bases, image'[c] = "created" \/ c \in patched'
          PROVE  original' = c
      BY <2>1, <2>2, <2>3, <2>4
    <2>5. \A c \in patched' : image'[c] = "ready"
      BY <2>1, <2>2
    <2>6. UnhookedIsReported'
      BY <2>1, <2>2
    <2>. QED BY <2>2, <2>4, <2>5, <2>6
  <1>5. ASSUME NEW b \in Bases, EnableHook(b) PROVE PointerFollows' /\ UnhookedIsReported'
    <2>1. PICK st : /\ patched' = IF st = "OK" THEN patched \cup {b} ELSE patched
                    /\ failLogged' = IF st = "OK" THEN failLogged ELSE failLogged \cup {b}
      BY <1>5 DEF EnableHook
    <2>. QED BY <1>5, <2>1 DEF EnableHook, callVars
  <1>6. ASSUME NEW b \in Bases, UnloadEngine(b) PROVE PointerFollows' /\ UnhookedIsReported'
    BY <1>6, BaseAssumption DEF UnloadEngine, hookVars, callVars
  <1>7. ASSUME NEW t \in Callers, NEW b \in Bases, Compile(t, b)
        PROVE  PointerFollows' /\ UnhookedIsReported'
    BY <1>7 DEF Compile, engineVars, hookVars
  <1>8. ASSUME NEW t \in Callers, CallOriginal(t) PROVE PointerFollows' /\ UnhookedIsReported'
    BY <1>8, BaseAssumption DEF CallOriginal, engineVars, hookVars
  <1>9. ASSUME NEW t \in Callers, DumpStep(t) PROVE PointerFollows' /\ UnhookedIsReported'
    BY <1>1, <1>9 DEF DumpStep, hookVars, callVars
  <1>10. CASE Tick
    BY <1>1, <1>10 DEF Tick, hookVars, callVars
  <1>11. CASE UNCHANGED vars
    BY <1>1, <1>11 DEF vars, hookVars, callVars
  <1>12. ASSUME NEW b \in Bases, SearchFaults(b) PROVE FALSE
    BY <1>12 DEF SearchFaults, Running
  <1>13. ASSUME NEW t \in Callers, JumpIntoUnloadedImage(t) \/ Exit(t) PROVE FALSE
    BY <1>13 DEF JumpIntoUnloadedImage, Exit, Running
  <1>14. ~(UnhookForScript \/ Uninitialize \/ ProcessEnds)
    BY DEF UnhookForScript, Uninitialize, ProcessEnds, Running
  <1>. QED BY <1>2, <1>3, <1>4, <1>5, <1>6, <1>7, <1>8, <1>9, <1>10, <1>11, <1>12, <1>13, <1>14
           DEF Next, CallbackStep, DetourStep

LEMMA Invariance == Spec => []IInv
  <1>1. IInv /\ [Next]_vars => IInv'
    BY StepDump, StepTypes, StepLive, StepHooks DEF IInv
  <1>. QED BY InitInv, <1>1, PTL DEF Spec

-----------------------------------------------------------------------------
(* Types are kept by the loader, the callback, MinHook and the detour.     *)
THEOREM TypeCorrect == Spec => []TypeOK
  <1>1. IInv => TypeOK
    BY DEF IInv, ScriptTypes, DumpInv, TypeOK
  <1>. QED BY Invariance, <1>1, PTL

(* compileHooked and parserHooked: what the log reports as written is in   *)
(* the file, whole, for scripts of characters that sprintf can convert.    *)
THEOREM LoggedIsWhole ==
  ASSUME AllNarrow
  PROVE  Spec => []LoggedDumpWhole
  <1>1. IInv => LoggedDumpWhole
    BY DumpInvWhole DEF IInv
  <1>. QED BY Invariance, <1>1, PTL

(* The script detours leave no file behind that is neither reported nor    *)
(* cut off by the end of the process.                                      *)
THEOREM FilesAccounted == Spec => []EveryFileAccounted
  <1>1. IInv => EveryFileAccounted
    BY DEF IInv, DumpInv
  <1>. QED BY Invariance, <1>1, PTL

(* originalCompile and originalParseSource: a thread in the detour goes    *)
(* back into the image it was called in, as long as no image was hooked    *)
(* beside another.                                                         *)
THEOREM DetourInItsImage == Spec => []DetourKeepsItsImage
  <1>1. IInv => DetourKeepsItsImage
    BY BaseAssumption DEF IInv, ScriptTypes, PointerFollows, DetourKeepsItsImage
  <1>. QED BY Invariance, <1>1, PTL

(* HookVbScript and HookJScript: an image that is not hooked is one the    *)
(* callback does not know by name, or one the log reports.                 *)
THEOREM UnhookedReported == Spec => []UnhookedIsReported
  <1>1. IInv => UnhookedIsReported
    BY DEF IInv
  <1>. QED BY Invariance, <1>1, PTL
-----------------------------------------------------------------------------
(* Steps of the detours, the callback and the end of the process, seen as  *)
(* steps of the archive.                                                   *)
LEMMA StepArchive == IInv /\ FreshInv /\ [Next]_vars => ArchiveStep
  <1> SUFFICES ASSUME DumpInv, AtOneGo, FreshInv, [Next]_vars PROVE ArchiveStep
    BY DEF IInv
  <1>1. ASSUME UNCHANGED dumpVars PROVE ArchiveStep
    BY <1>1, UnchangedArchive
  <1>2. ASSUME NEW S, Terminate(S) PROVE ArchiveStep
    BY <1>2, TerminateArchive
  <1>3. ASSUME NEW b \in Bases, LoadEngine(b) \/ CallbackStep(b) \/ UnloadEngine(b)
        PROVE  ArchiveStep
    <2>1. CASE SearchFaults(b)
      BY <1>2, <2>1 DEF SearchFaults
    <2>2. CASE ~SearchFaults(b)
      BY <1>1, <1>3, <2>2 DEF CallbackStep, LoadEngine, IgnoreImage, CreateHook, CreateHookWith,
                              EnableHook, UnloadEngine
    <2>. QED BY <2>1, <2>2
  <1>4. ASSUME NEW t \in Callers, NEW b \in Bases, Compile(t, b) PROVE ArchiveStep
    <2>1. CASE UNCHANGED dumpVars
      BY <1>1, <2>1
    <2>2. CASE \E d \in Payloads : TakeName(t, d)
      BY <2>2, TakeNameArchive
    <2>. QED BY <1>4, <2>1, <2>2 DEF Compile
  <1>5. ASSUME NEW t \in Callers, DumpStep(t) PROVE ArchiveStep
    <2>1. CASE CreateDump(t)
      BY <2>1, CreateArchive
    <2>2. CASE WriteText(t)
      BY <2>2, WriteTextArchive DEF AtOneGo
    <2>3. CASE CloseDump(t)
      BY <2>3, CloseArchive
    <2>4. CASE LogDump(t)
      BY <2>4, LogArchive
    <2>. QED BY <1>5, <2>1, <2>2, <2>3, <2>4 DEF DumpStep
  <1>6. ASSUME NEW t \in Callers, CallOriginal(t) PROVE ArchiveStep
    BY <1>6, ForgetArchive DEF CallOriginal
  <1>7. ASSUME NEW t \in Callers, JumpIntoUnloadedImage(t) \/ Exit(t) PROVE ArchiveStep
    BY <1>2, <1>7 DEF JumpIntoUnloadedImage, Exit
  <1>8. CASE UnhookForScript \/ Uninitialize
    BY <1>1, <1>8 DEF UnhookForScript, Uninitialize
  <1>9. CASE ProcessEnds
    BY <1>2, <1>9 DEF ProcessEnds
  <1>10. CASE Tick
    BY <1>10, UnchangedArchive DEF Tick
  <1>11. CASE UNCHANGED vars
    BY <1>1, <1>11 DEF vars
  <1>. QED BY <1>3, <1>4, <1>5, <1>6, <1>7, <1>8, <1>9, <1>10, <1>11 DEF Next, DetourStep

LEMMA Freshness == Spec => []FreshInv
  <1>1. Init => FreshInv
    BY FreshInit DEF Init
  <1>2. IInv /\ FreshInv /\ [Next]_vars => FreshInv'
    BY StepArchive DEF ArchiveStep
  <1>. QED BY Invariance, <1>1, <1>2, PTL DEF Spec

(* The dumps of compileHooked and parserHooked are an archive: each a new  *)
(* file that only grows until it is reported, with the script in it.       *)
THEOREM DumpsAreAnArchive == Spec => ImplementsArchive
  <1>1. Init => Archive!Init
    BY FreshInit DEF Init
  <1>2. IInv /\ FreshInv /\ [Next]_vars => [Archive!Next]_(Archive!vars)
    BY StepArchive DEF ArchiveStep
  <1>. QED BY Invariance, Freshness, <1>1, <1>2, PTL DEF Spec, ImplementsArchive, Archive!Spec

(* No later script gets into the file of a dump that the log reports.      *)
THEOREM ReportedDumpsAreFinal == Spec => ReportedIsFinal
  <1>1. IInv /\ FreshInv /\ [Next]_vars => [Archive!Stays]_(Archive!vars)
    BY StepArchive, ArchiveIsFinal DEF IInv
  <1>. QED BY Invariance, Freshness, <1>1, PTL DEF Spec, ReportedIsFinal, Archive!Final
=============================================================================
