------------------------------ MODULE AmsiProofs -------------------------------
(* What AmsiHook keeps in every step, for any number of threads, any       *)
(* assemblies and any choice of faults.                                    *)
EXTENDS AmsiHook, DumpProofs

AmsiTypes ==
  /\ mode \in {"asmload", "powershell"}
  /\ isAmsiIntializeCalled \in BOOLEAN
  /\ asked \subseteq Callers
  /\ scanFn \in [Callers -> {"none", "fake", "real"}]
  /\ scans \in [Callers -> 0 .. MaxScans]
  /\ phase \in {"running", "detaching", "gone"}

(* The flag remembers that somebody has asked.                             *)
FlagStays == asked # {} => isAmsiIntializeCalled

IInv == DumpInv /\ AmsiTypes /\ FlagStays

LEMMA InitInv == Init => IInv
  <1> SUFFICES ASSUME Init PROVE IInv
    OBVIOUS
  <1>1. DumpInv
    BY DumpInvInit DEF Init
  <1>2. AmsiTypes
    <2>1. 0 \in 0 .. MaxScans
      BY ScansAssumption
    <2>. QED BY <2>1 DEF Init, AmsiTypes
  <1>3. FlagStays
    BY DEF Init, FlagStays
  <1>. QED BY <1>1, <1>2, <1>3 DEF IInv

(* The part of the state that DumpFile knows.                              *)
LEMMA StepDump == IInv /\ [Next]_vars => DumpInv'
  <1> SUFFICES ASSUME IInv, [Next]_vars PROVE DumpInv'
    OBVIOUS
  <1> USE DEF IInv
  <1>1. ASSUME UNCHANGED dumpVars PROVE DumpInv'
    BY <1>1, DumpUnchanged
  <1>2. ASSUME NEW S, Terminate(S) PROVE DumpInv'
    BY <1>2, TerminateStep
  <1>3. ASSUME NEW t \in Callers, LookUpInitialize(t) PROVE DumpInv'
    BY <1>1, <1>3 DEF LookUpInitialize
  <1>4. ASSUME NEW t \in Callers, LookUpScanBuffer(t) PROVE DumpInv'
    BY <1>1, <1>4 DEF LookUpScanBuffer
  <1>5. ASSUME NEW t \in Callers, Scan(t) PROVE DumpInv'
    <2>1. PICK d \in Payloads : TakeName(t, d)
      BY <1>5 DEF Scan
    <2>. QED BY <1>5, <2>1, TakeNameStep
  <1>6. ASSUME NEW t \in Callers, DumpStep(t) PROVE DumpInv'
    <2>1. CASE CreateDump(t)
      BY <1>6, <2>1, CreateStep
    <2>2. CASE WriteByte(t)
      BY <1>6, <2>2, WriteByteStep
    <2>3. CASE CloseDump(t)
      BY <1>6, <2>3, CloseStep
    <2>4. CASE LogDump(t)
      BY <1>6, <2>4, LogStep
    <2>. QED BY <1>6, <2>1, <2>2, <2>3, <2>4 DEF DumpStep
  <1>7. ASSUME NEW t \in Callers, EndScan(t) PROVE DumpInv'
    <2>1. CASE ExitsAfterDump
      BY <1>2, <1>7, <2>1 DEF EndScan
    <2>2. CASE ~ExitsAfterDump
      BY <1>7, <2>2, ForgetStep DEF EndScan
    <2>. QED BY <2>1, <2>2
  <1>8. ASSUME NEW t \in Callers, HostExits(t) PROVE DumpInv'
    BY <1>2, <1>8 DEF HostExits
  <1>9. CASE ProcessEnds
    BY <1>2, <1>9 DEF ProcessEnds
  <1>10. CASE Tick
    BY <1>10, ClockStep DEF Tick
  <1>11. CASE UNCHANGED vars
    BY <1>1, <1>11 DEF vars
  <1>. QED BY <1>3, <1>4, <1>5, <1>6, <1>7, <1>8, <1>9, <1>10, <1>11 DEF Next, ThreadStep

(* The part of the state that is AmsiHook's own.                           *)
LEMMA StepAmsi == IInv /\ [Next]_vars => AmsiTypes' /\ FlagStays'
  <1> SUFFICES ASSUME AmsiTypes, FlagStays, [Next]_vars PROVE AmsiTypes' /\ FlagStays'
    BY DEF IInv
  <1> USE ScansAssumption DEF AmsiTypes, FlagStays
  <1>1. ASSUME UNCHANGED amsiVars PROVE AmsiTypes' /\ FlagStays'
    BY <1>1 DEF amsiVars
  <1>2. ASSUME NEW t \in Callers, LookUpInitialize(t) PROVE AmsiTypes' /\ FlagStays'
    BY <1>2 DEF LookUpInitialize
  <1>3. ASSUME NEW t \in Callers, LookUpScanBuffer(t) PROVE AmsiTypes' /\ FlagStays'
    BY <1>3 DEF LookUpScanBuffer
  <1>4. ASSUME NEW t \in Callers, Scan(t) PROVE AmsiTypes' /\ FlagStays'
    BY <1>4 DEF Scan
  <1>5. ASSUME NEW t \in Callers, DumpStep(t) PROVE AmsiTypes' /\ FlagStays'
    BY <1>1, <1>5 DEF DumpStep
  <1>6. ASSUME NEW t \in Callers, EndScan(t) PROVE AmsiTypes' /\ FlagStays'
    BY <1>6 DEF EndScan
  <1>7. ASSUME NEW t \in Callers, HostExits(t) PROVE AmsiTypes' /\ FlagStays'
    BY <1>7 DEF HostExits
  <1>8. CASE ProcessEnds
    BY <1>8 DEF ProcessEnds
  <1>9. CASE Tick
    BY <1>1, <1>9 DEF Tick
  <1>10. CASE UNCHANGED vars
    BY <1>1, <1>10 DEF vars
  <1>. QED BY <1>2, <1>3, <1>4, <1>5, <1>6, <1>7, <1>8, <1>9, <1>10 DEF Next, ThreadStep

LEMMA Invariance == Spec => []IInv
  <1>1. IInv /\ [Next]_vars => IInv'
    BY StepDump, StepAmsi DEF IInv
  <1>. QED BY InitInv, <1>1, PTL DEF Spec

(* Types are kept by every lookup, scan, dump and end of the process.      *)
THEOREM TypeCorrect == Spec => []TypeOK
  <1>1. IInv => TypeOK
    BY DEF IInv, AmsiTypes, DumpInv, TypeOK
  <1>. QED BY Invariance, <1>1, PTL

(* AmsiScanBuffer's dump: what the log reports as written is in the file,  *)
(* whole but for failed writes, in both GetProcAddress modes.              *)
THEOREM LoggedIsWhole == Spec => []LoggedDumpWhole
  <1>1. IInv => LoggedDumpWhole
    BY BytesAssumption, DumpInvWhole DEF IInv, AllNarrow, Narrow
  <1>. QED BY Invariance, <1>1, PTL

(* AmsiScanBuffer leaves no file behind that is neither reported nor cut   *)
(* off by the end of the process.                                          *)
THEOREM FilesAccounted == Spec => []EveryFileAccounted
  <1>1. IInv => EveryFileAccounted
    BY DEF IInv, DumpInv
  <1>. QED BY Invariance, <1>1, PTL

(* HookedGetProcAddress: who asked for AmsiInitialize and then for         *)
(* AmsiScanBuffer has the fake, however many threads share the flag.       *)
THEOREM FakeForInitialiser == Spec => InitialiserGetsFake
  <1>1. ASSUME IInv, [Next]_vars, NEW t \in Callers, t \in asked, scanFn'[t] # scanFn[t]
        PROVE  scanFn'[t] = "fake"
    <2>1. isAmsiIntializeCalled /\ scanFn \in [Callers -> {"none", "fake", "real"}]
      BY <1>1 DEF IInv, FlagStays, AmsiTypes
    <2>2. ASSUME NEW u \in Callers, LookUpScanBuffer(u) PROVE scanFn'[t] = "fake"
      BY <1>1, <2>1, <2>2 DEF LookUpScanBuffer
    <2>3. ASSUME UNCHANGED scanFn PROVE FALSE
      BY <1>1, <2>3
    <2>. QED BY <1>1, <2>2, <2>3 DEF Next, ThreadStep, LookUpInitialize, Scan, DumpStep, EndScan,
                                HostExits, ProcessEnds, Tick, vars, amsiVars
  <1>2. IInv /\ [Next]_vars =>
          [\A t \in Callers : t \in asked /\ scanFn'[t] # scanFn[t] => scanFn'[t] = "fake"]_vars
    BY <1>1
  <1>. QED BY Invariance, <1>2, PTL DEF Spec, InitialiserGetsFake
(* Steps of AmsiScanBuffer, lookups and ends, seen as steps of the archive. *)
LEMMA StepArchive == IInv /\ FreshInv /\ [Next]_vars => ArchiveStep
  <1> SUFFICES ASSUME DumpInv, FreshInv, [Next]_vars PROVE ArchiveStep
    BY DEF IInv
  <1>1. ASSUME UNCHANGED dumpVars PROVE ArchiveStep
    BY <1>1, UnchangedArchive
  <1>2. ASSUME NEW S, Terminate(S) PROVE ArchiveStep
    BY <1>2, TerminateArchive
  <1>3. ASSUME NEW t \in Callers, LookUpInitialize(t) \/ LookUpScanBuffer(t) PROVE ArchiveStep
    BY <1>1, <1>3 DEF LookUpInitialize, LookUpScanBuffer
  <1>4. ASSUME NEW t \in Callers, Scan(t) PROVE ArchiveStep
    <2>1. PICK d \in Payloads : TakeName(t, d)
      BY <1>4 DEF Scan
    <2>. QED BY <2>1, TakeNameArchive
  <1>5. ASSUME NEW t \in Callers, DumpStep(t) PROVE ArchiveStep
    <2>1. CASE CreateDump(t)
      BY <2>1, CreateArchive
    <2>2. CASE WriteByte(t)
      BY <2>2, WriteByteArchive
    <2>3. CASE CloseDump(t)
      BY <2>3, CloseArchive
    <2>4. CASE LogDump(t)
      BY <2>4, LogArchive
    <2>. QED BY <1>5, <2>1, <2>2, <2>3, <2>4 DEF DumpStep
  <1>6. ASSUME NEW t \in Callers, EndScan(t) PROVE ArchiveStep
    <2>1. CASE ExitsAfterDump
      BY <1>2, <1>6, <2>1 DEF EndScan
    <2>2. CASE ~ExitsAfterDump
      BY <1>6, <2>2, ForgetArchive DEF EndScan
    <2>. QED BY <2>1, <2>2
  <1>7. ASSUME NEW t \in Callers, HostExits(t) PROVE ArchiveStep
    BY <1>2, <1>7 DEF HostExits
  <1>8. CASE ProcessEnds
    BY <1>2, <1>8 DEF ProcessEnds
  <1>9. CASE Tick
    BY <1>9, UnchangedArchive DEF Tick
  <1>10. CASE UNCHANGED vars
    BY <1>1, <1>10 DEF vars
  <1>. QED BY <1>3, <1>4, <1>5, <1>6, <1>7, <1>8, <1>9, <1>10 DEF Next, ThreadStep

LEMMA Freshness == Spec => []FreshInv
  <1>1. Init => FreshInv
    BY FreshInit DEF Init
  <1>2. IInv /\ FreshInv /\ [Next]_vars => FreshInv'
    BY StepArchive DEF ArchiveStep
  <1>. QED BY Invariance, <1>1, <1>2, PTL DEF Spec

(* The dumps of AmsiScanBuffer are an archive: each a new file that only   *)
(* grows until it is reported, with what was scanned in it.                *)
THEOREM DumpsAreAnArchive == Spec => ImplementsArchive
  <1>1. Init => Archive!Init
    BY FreshInit DEF Init
  <1>2. IInv /\ FreshInv /\ [Next]_vars => [Archive!Next]_(Archive!vars)
    BY StepArchive DEF ArchiveStep
  <1>. QED BY Invariance, Freshness, <1>1, <1>2, PTL DEF Spec, ImplementsArchive, Archive!Spec

(* No later scan gets into the file of a dump that the log reports.        *)
THEOREM ReportedDumpsAreFinal == Spec => ReportedIsFinal
  <1>1. IInv /\ FreshInv /\ [Next]_vars => [Archive!Stays]_(Archive!vars)
    BY StepArchive, ArchiveIsFinal DEF IInv
  <1>. QED BY Invariance, Freshness, <1>1, PTL DEF Spec, ReportedIsFinal, Archive!Final
=============================================================================
