------------------------------ MODULE ScriptHook -------------------------------
(***************************************************************************)
(* The modes -vbscript and -jscript (VBScriptHook.cpp, JScriptHook.cpp,    *)
(* DllLoadCallback.cpp) once the DLL-load callback is registered.  The     *)
(* target loads and unloads the script engine, at one base address or      *)
(* another; the callback patches its compile function through MinHook      *)
(* (HookEngine); the detour dumps the script and calls the original        *)
(* through one pointer.                                                    *)
(*                                                                         *)
(* The engine is one file, so its compile function is at a fixed distance  *)
(* from the base and a base stands for the address hooked.  The loader     *)
(* lock is held from the mapping of an image until its callback is over.   *)
(***************************************************************************)
EXTENDS DumpFile, HookEngine

CONSTANTS
  Bases,        \* addresses the engine may be loaded at
  NoBase,       \* no address: a null pointer
  GetProcAddr,  \* the function GetProcAddress, which these modes do not hook
  Spellings,    \* of the engine's name when it is loaded: "exact", "other"
  MaxCopies,    \* images of the engine loaded at a time
  MaxLoads,     \* bound: loads of the engine
  MaxCompiles   \* bound: scripts compiled by each thread

ASSUME BaseAssumption == NoBase \notin Bases
ASSUME FunctionAssumption == Functions = Bases \cup {GetProcAddr}
ASSUME SpellingAssumption == Spellings \subseteq {"exact", "other"}
ASSUME BoundAssumption == MaxCopies \in Nat /\ MaxLoads \in Nat /\ MaxCompiles \in Nat

VARIABLES
  engine,     \* the mode: "vbscript" or "jscript", for the whole run
  image,      \* each base: "none", "mapped", "created" or "ready"
  loadedAs,   \* how the name was spelled that the image was loaded under
  patched,    \* bases whose compile function begins with a jump to the detour
  failLogged, \* bases whose callback logged that it could not hook
  original,   \* originalCompile or originalParseSource: the trampoline of a base
  parser,     \* _parserAddress of JScript; VBScript has a local of that kind
  at,         \* the base whose compile function each thread is in
  loads, compiles,  \* counters
  shared,     \* history: two images were hooked while both were loaded
  undumped,   \* history: a script was compiled that was not dumped
  phase       \* "running", "unhooking", "unhooked", "released" or "gone"

engineVars == <<engine, shared, image, loadedAs, patched, failLogged>>
hookVars   == <<mhVars, original, parser>>
callVars   == <<at, compiles, undumped>>
vars == <<dumpVars, engineVars, hookVars, callVars, loads, phase>>

Init ==
  /\ DumpInit
  /\ engine \in {"vbscript", "jscript"}
  /\ shared = FALSE
  /\ image = [b \in Bases |-> "none"]
  /\ loadedAs = [b \in Bases |-> "exact"]
  /\ patched = {}
  /\ failLogged = {}
  /\ MH_Initialize
  /\ original = NoBase
  /\ parser = NoBase
  /\ at = [t \in Callers |-> NoBase]
  /\ loads = 0
  /\ compiles = [t \in Callers |-> 0]
  /\ undumped = FALSE
  /\ phase = "running"

Live == {b \in Bases : image[b] # "none"}
LoaderFree == \A b \in Bases : image[b] \in {"none", "ready"}
Running == phase = "running"

-----------------------------------------------------------------------------
(* The loader and the callback                                             *)

LoadEngine(b) ==
  /\ Running /\ LoaderFree
  /\ image[b] = "none"
  /\ Cardinality(Live) < MaxCopies
  /\ loads < MaxLoads
  /\ loads' = loads + 1
  /\ image' = [image EXCEPT ![b] = "mapped"]
  /\ \E n \in Spellings : loadedAs' = [loadedAs EXCEPT ![b] = n]
  /\ UNCHANGED <<dumpVars, engine, shared, patched, failLogged, hookVars, callVars, phase>>

(* lstrcmpA tells "VBScript.dll" from "vbscript.dll", and nothing is done: *)
(* an image loaded under another spelling is silently left alone.          *)
IgnoreImage(b) ==
  /\ Running
  /\ image[b] = "mapped"
  /\ loadedAs[b] # "exact"
  /\ image' = [image EXCEPT ![b] = "ready"]
  /\ UNCHANGED <<dumpVars, engine, shared, loadedAs, patched, failLogged, hookVars, callVars, loads, phase>>

(* The callback asks MinHook for a hook of the function.  The pointer to   *)
(* the original is written when there is one, JScript's global address     *)
(* before; a refusal is logged, and that is all.                           *)
CreateHookWith(b, newOriginal, report) ==
  /\ Running
  /\ image[b] = "mapped"
  /\ loadedAs[b] = "exact"
  /\ shared' = (shared \/ Cardinality(Live) > 1)
  /\ parser' = IF engine = "jscript" THEN b ELSE parser
  /\ \E st \in Answers(CreateDue(b)) :
       /\ MH_CreateHook(b, st)
       /\ image' = [image EXCEPT ![b] = IF st = "OK" THEN "created" ELSE "ready"]
       /\ original' = IF st = "OK" THEN newOriginal ELSE original
       /\ failLogged' = IF st = "OK" THEN failLogged ELSE failLogged \cup report
  /\ UNCHANGED <<dumpVars, engine, loadedAs, patched, callVars, loads, phase>>
CreateHookOnce(b) == CreateHookWith(b, IF original = NoBase THEN b ELSE original, {b})
CreateHookSilent(b) == CreateHookWith(b, b, {})
CreateHook(b) == CreateHookWith(b, b, {b})

(* FindDataInDLL or FindData returns -1 for a version without the byte     *)
(* pattern; the result is used as an address, and the process faults.  A   *)
(* version that was hooked once has the pattern.                           *)
SearchFaults(b) ==
  /\ Running
  /\ "unknownVersion" \in Faults
  /\ \A c \in Bases : entry[c] = "none"
  /\ image[b] = "mapped"
  /\ loadedAs[b] = "exact"
  /\ phase' = "gone"
  /\ Terminate({})
  /\ UNCHANGED <<engineVars, hookVars, callVars, loads>>

(* MH_EnableHook patches the code, then the loader goes on.                *)
EnableHook(b) ==
  /\ Running
  /\ image[b] = "created"
  /\ image' = [image EXCEPT ![b] = "ready"]
  /\ \E st \in Answers(EnableDue(b)) :
       /\ MH_EnableHook(b, st)
       /\ patched' = IF st = "OK" THEN patched \cup {b} ELSE patched
       /\ failLogged' = IF st = "OK" THEN failLogged ELSE failLogged \cup {b}
  /\ UNCHANGED <<dumpVars, engine, shared, loadedAs, original, parser, callVars, loads, phase>>

(* The last object of the engine is released and COM unloads it: its code  *)
(* is gone, with the patch.  The notification is of another reason than    *)
(* LOADED and does nothing.                                                *)
UnloadEngine(b) ==
  /\ Running /\ LoaderFree
  /\ image[b] = "ready"
  /\ \A t \in Callers : at[t] # b
  /\ image' = [image EXCEPT ![b] = "none"]
  /\ patched' = patched \ {b}
  /\ failLogged' = failLogged \ {b}
  /\ loadedAs' = [loadedAs EXCEPT ![b] = "exact"]
  /\ UNCHANGED <<dumpVars, engine, shared, hookVars, callVars, loads, phase>>

-----------------------------------------------------------------------------
(* A script is compiled                                                    *)

(* Thread t compiles a script in the image at b: the detour begins if the  *)
(* function is patched, the engine runs alone if it is not.                *)
Compile(t, b) ==
  /\ Running
  /\ at[t] = NoBase
  /\ image[b] = "ready"
  /\ compiles[t] < MaxCompiles
  /\ compiles' = [compiles EXCEPT ![t] = @ + 1]
  /\ IF b \in patched
     THEN /\ at' = [at EXCEPT ![t] = b]
          /\ \E d \in Payloads : TakeName(t, d)
          /\ UNCHANGED undumped
     ELSE /\ undumped' = TRUE
          /\ UNCHANGED <<dumpVars, at>>
  /\ UNCHANGED <<engineVars, hookVars, loads, phase>>

DumpStep(t) ==
  /\ Running
  /\ CreateDump(t) \/ WriteText(t) \/ CloseDump(t) \/ LogDump(t)
  /\ UNCHANGED <<engineVars, hookVars, callVars, loads, phase>>

(* return original...(...): the pointer is read here.  The trampoline      *)
(* jumps back into the image it was made for, which must be there still.   *)
CallOriginalIfDumped(t) ==
  /\ Running
  /\ job[t].step = "logged"
  /\ job' = [job EXCEPT ![t] = NoJob]
  /\ at' = [at EXCEPT ![t] = NoBase]
  /\ UNCHANGED undumped
  /\ UNCHANGED <<clock, dir, content, logged, engineVars, hookVars, compiles, loads, phase>>
CallOriginal(t) ==
  /\ Running
  /\ DumpDone(t)
  /\ image[original] # "none"
  /\ undumped' = (undumped \/ job[t].step = "failed")
  /\ job' = [job EXCEPT ![t] = NoJob]
  /\ at' = [at EXCEPT ![t] = NoBase]
  /\ UNCHANGED <<clock, dir, content, logged, engineVars, hookVars, compiles, loads, phase>>

JumpIntoUnloadedImage(t) ==
  /\ Running
  /\ DumpDone(t)
  /\ image[original] = "none"
  /\ phase' = "gone"
  /\ Terminate({})
  /\ UNCHANGED <<engineVars, hookVars, callVars, loads>>

-----------------------------------------------------------------------------
(* The end of the process                                                  *)

(* ExitProcess by a thread outside of the detour.                          *)
Exit(t) ==
  /\ Running /\ LoaderFree
  /\ at[t] = NoBase
  /\ phase' = "unhooking"
  /\ Terminate({t})
  /\ UNCHANGED <<engineVars, hookVars, callVars, loads>>

(* UnhookForVBScript disables a hook of GetProcAddress that this mode does *)
(* not have; UnhookForJScript disables the last one it asked for, and with *)
(* a null pointer, MH_ALL_HOOKS, the none there are.  Both log that the    *)
(* hook is disabled.  The engine cannot write to an image that is gone.    *)
UnhookForScript ==
  LET f == IF engine = "vbscript" THEN GetProcAddr ELSE parser
  IN  /\ phase = "unhooking"
      /\ phase' = "unhooked"
      /\ IF f = NoBase \/ (f \in Bases /\ image[f] = "none")
         THEN UNCHANGED <<mhVars, patched>>
         ELSE \E st \in Answers(DisableDue(f)) :
                /\ MH_DisableHook(f, st)
                /\ patched' = IF st = "OK" THEN patched \ {f} ELSE patched
      /\ UNCHANGED <<dumpVars, engine, shared, image, loadedAs, failLogged, original, parser,
                     callVars, loads>>

(* MH_Uninitialize stops at a hook that it cannot disable.                 *)
Uninitialize ==
  /\ phase = "unhooked"
  /\ phase' = "released"
  /\ IF \E b \in Bases : entry[b] = "enabled" /\ image[b] = "none"
     THEN patched' \in SUBSET patched /\ UNCHANGED mhVars
     ELSE \E st \in Answers(IF engineUp THEN "OK" ELSE "NOT_INITIALIZED") :
            /\ MH_Uninitialize(st)
            /\ patched' \in IF st = "OK" THEN {{}} ELSE SUBSET patched
  /\ UNCHANGED <<dumpVars, engine, shared, image, loadedAs, failLogged, original, parser,
                 callVars, loads>>

(* The rest of the process, or a kill at any moment.                       *)
ProcessEnds ==
  /\ phase # "gone"
  /\ phase' = "gone"
  /\ Terminate({})
  /\ UNCHANGED <<engineVars, hookVars, callVars, loads>>

Tick ==
  /\ Running
  /\ ClockMoves
  /\ UNCHANGED <<engineVars, hookVars, callVars, loads, phase>>

CallbackStep(b) == IgnoreImage(b) \/ CreateHook(b) \/ EnableHook(b) \/ SearchFaults(b)
DetourStep(t) == DumpStep(t) \/ CallOriginal(t) \/ JumpIntoUnloadedImage(t)

Next ==
  \/ \E b \in Bases : LoadEngine(b) \/ CallbackStep(b) \/ UnloadEngine(b)
  \/ \E t \in Callers :
       \/ \E b \in Bases : Compile(t, b)
       \/ DetourStep(t)
       \/ Exit(t)
  \/ UnhookForScript
  \/ Uninitialize
  \/ ProcessEnds
  \/ Tick

Spec == Init /\ [][Next]_vars

(* A thread in the detour runs on.                                         *)
FairSpec == Spec /\ \A t \in Callers : WF_vars(DetourStep(t))

-----------------------------------------------------------------------------
(* Properties                                                              *)

(* Every variable holds a value of its kind.                               *)
TypeOK ==
  /\ DumpTypeOK
  /\ image \in [Bases -> {"none", "mapped", "created", "ready"}]
  /\ loadedAs \in [Bases -> {"exact", "other"}]
  /\ patched \subseteq Bases /\ failLogged \subseteq Bases
  /\ EngineTypeOK
  /\ original \in Bases \cup {NoBase} /\ parser \in Bases \cup {NoBase}
  /\ at \in [Callers -> Bases \cup {NoBase}]
  /\ loads \in 0 .. MaxLoads
  /\ compiles \in [Callers -> 0 .. MaxCompiles]
  /\ undumped \in BOOLEAN /\ shared \in BOOLEAN
  /\ engine \in {"vbscript", "jscript"}
  /\ phase \in {"running", "unhooking", "unhooked", "released", "gone"}

(* A thread in the detour goes on in the image it has called, though the   *)
(* one pointer to the original is overwritten by every load and the        *)
(* entries of unloaded images stay: at least as long as no image was       *)
(* hooked with another one loaded.                                         *)
DetourKeepsItsImage ==
  Running /\ ~shared =>
    \A t \in Callers : at[t] # NoBase => original = at[t] /\ at[t] \in patched

(* An engine image under the name the callback knows is hooked, or the log *)
(* says that it could not be.                                              *)
UnhookedIsReported ==
  Running => \A b \in Bases :
    image[b] = "ready" /\ loadedAs[b] = "exact" /\ b \notin patched => b \in failLogged

(* The detour comes back to the engine, whether or not the script could be *)
(* dumped, unless the process ends.                                        *)
DetourReturns ==
  \A t \in Callers : at[t] # NoBase ~> at[t] = NoBase \/ ~Running

(* README: "ClrDumper can also dump scripts at every stage, like eval or   *)
(* Execute".                                                               *)
EveryStageDumped == ~undumped
=============================================================================
