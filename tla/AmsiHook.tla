------------------------------- MODULE AmsiHook --------------------------------
(***************************************************************************)
(* The modes -asmload and -powershell (AssemblyLoadHook.cpp,               *)
(* PowershellHook.cpp) once GetProcAddress is hooked: whoever initialises  *)
(* AMSI is handed a function of HookClr.dll for AmsiScanBuffer, which      *)
(* dumps what it is given.  In -asmload it then ends the process, in       *)
(* -powershell it returns.                                                 *)
(*                                                                         *)
(* A lookup of any other name, or by ordinal, goes to the original         *)
(* GetProcAddress and changes nothing.                                     *)
(***************************************************************************)
EXTENDS DumpFile

CONSTANT MaxScans   \* bound: scans by each thread

ASSUME ScansAssumption == MaxScans \in Nat

(* What is scanned is bytes.                                               *)
ASSUME BytesAssumption == WideChars = {}

VARIABLES
  mode,     \* "asmload" or "powershell", for the whole run
  isAmsiIntializeCalled,  \* the flag, as the code spells it
  asked,    \* history: who has looked up AmsiInitialize
  scanFn,   \* the AmsiScanBuffer each thread has: "none", "fake" or "real"
  scans,    \* scans made by each thread
  phase     \* the process: "running", "detaching" or "gone"

amsiVars == <<mode, isAmsiIntializeCalled, asked, scanFn, scans, phase>>
vars == <<dumpVars, amsiVars>>

Init ==
  /\ DumpInit
  /\ mode \in {"asmload", "powershell"}
  /\ isAmsiIntializeCalled = FALSE
  /\ asked = {}
  /\ scanFn = [t \in Callers |-> "none"]
  /\ scans = [t \in Callers |-> 0]
  /\ phase = "running"

-----------------------------------------------------------------------------
(* ExitProcess(0) after the dump is commented out in PowershellHook.cpp.   *)
ExitsAfterDump == mode = "asmload"

(* A thread outside of the detour, in the target's own code.               *)
Free(t) == phase = "running" /\ job[t].step = "idle"

(* HookedGetProcAddress(..., "AmsiInitialize")                             *)
LookUpInitialize(t) ==
  /\ Free(t)
  /\ isAmsiIntializeCalled' = TRUE
  /\ asked' = asked \cup {t}
  /\ UNCHANGED <<dumpVars, mode, scanFn, scans, phase>>

(* HookedGetProcAddress(..., "AmsiScanBuffer")                             *)
LookUpScanBufferOnce(t) ==
  /\ Free(t)
  /\ scanFn' = [scanFn EXCEPT ![t] = IF isAmsiIntializeCalled THEN "fake" ELSE "real"]
  /\ isAmsiIntializeCalled' = FALSE
  /\ UNCHANGED <<dumpVars, mode, asked, scans, phase>>
LookUpScanBuffer(t) ==
  /\ Free(t)
  /\ scanFn' = [scanFn EXCEPT ![t] = IF isAmsiIntializeCalled THEN "fake" ELSE "real"]
  /\ UNCHANGED <<dumpVars, mode, isAmsiIntializeCalled, asked, scans, phase>>

(* A call of the fake AmsiScanBuffer begins.                               *)
Scan(t) ==
  /\ Free(t)
  /\ scanFn[t] = "fake"
  /\ scans[t] < MaxScans
  /\ scans' = [scans EXCEPT ![t] = @ + 1]
  /\ \E d \in Payloads : TakeName(t, d)
  /\ UNCHANGED <<mode, isAmsiIntializeCalled, asked, scanFn, phase>>

DumpStep(t) ==
  /\ phase = "running"
  /\ CreateDump(t) \/ WriteByte(t) \/ CloseDump(t) \/ LogDump(t)
  /\ UNCHANGED amsiVars

(* The end of the fake: ExitProcess(0), or return S_OK.                    *)
EndScanReturns(t) ==
  /\ phase = "running"
  /\ DumpDone(t)
  /\ job' = [job EXCEPT ![t] = NoJob]
  /\ UNCHANGED <<clock, dir, content, logged, phase>>
  /\ UNCHANGED <<mode, isAmsiIntializeCalled, asked, scanFn, scans>>
EndScan(t) ==
  /\ phase = "running"
  /\ DumpDone(t)
  /\ IF ExitsAfterDump
     THEN phase' = "detaching" /\ Terminate({t})
     ELSE /\ job' = [job EXCEPT ![t] = NoJob]
          /\ UNCHANGED <<clock, dir, content, logged, phase>>
  /\ UNCHANGED <<mode, isAmsiIntializeCalled, asked, scanFn, scans>>

(* The target itself calls ExitProcess.                                    *)
HostExits(t) ==
  /\ Free(t)
  /\ phase' = "detaching"
  /\ Terminate({t})
  /\ UNCHANGED <<mode, isAmsiIntializeCalled, asked, scanFn, scans>>

(* DLL_PROCESS_DETACH in the thread that exits, then the process is gone;  *)
(* it is gone at once when it is killed.                                   *)
ProcessEnds ==
  /\ phase \in {"running", "detaching"}
  /\ phase' = "gone"
  /\ Terminate({})
  /\ UNCHANGED <<mode, isAmsiIntializeCalled, asked, scanFn, scans>>

Tick ==
  /\ phase = "running"
  /\ ClockMoves
  /\ UNCHANGED amsiVars

ThreadStep(t) == DumpStep(t) \/ EndScan(t)

Next ==
  \/ \E t \in Callers :
       \/ LookUpInitialize(t) \/ LookUpScanBuffer(t) \/ Scan(t)
       \/ ThreadStep(t) \/ HostExits(t)
  \/ ProcessEnds
  \/ Tick

Spec == Init /\ [][Next]_vars

(* A thread inside the detour is scheduled until it is out of it.  Nothing *)
(* is assumed of the target, of its end or of the clock.                   *)
FairSpec == Spec /\ \A t \in Callers : WF_vars(ThreadStep(t))

-----------------------------------------------------------------------------
(* Properties                                                              *)

(* Every variable holds a value of its kind.                               *)
TypeOK ==
  /\ DumpTypeOK
  /\ mode \in {"asmload", "powershell"}
  /\ isAmsiIntializeCalled \in BOOLEAN
  /\ asked \subseteq Callers
  /\ scanFn \in [Callers -> {"none", "fake", "real"}]
  /\ scans \in [Callers -> 0 .. MaxScans]
  /\ phase \in {"running", "detaching", "gone"}

(* A thread that looks up AmsiInitialize before AmsiScanBuffer gets the    *)
(* fake, whatever other threads look up in between: the unsynchronised     *)
(* flag never goes back.                                                   *)
InitialiserGetsFake ==
  [][\A t \in Callers : t \in asked /\ scanFn'[t] # scanFn[t] => scanFn'[t] = "fake"]_vars

(* A call of the fake comes to its end, whether or not the dump could be   *)
(* written: in -powershell it returns to the caller, in -asmload the       *)
(* process ends and never runs what was loaded.                            *)
ScanEnds ==
  \A t \in Callers :
    job[t].step = "named" ~>
      phase # "running" \/ (~ExitsAfterDump /\ job[t].step = "idle")
=============================================================================
