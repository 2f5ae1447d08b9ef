------------------------------ MODULE HookEngine -------------------------------
(***************************************************************************)
(* MinHook as HookClr.dll uses it (MinHook.h): an engine that is up or     *)
(* down, and at most one entry for a function, which lives until the       *)
(* engine goes down.  A call answers with the status that its own rules    *)
(* ask for, and where they are content it may still refuse.                *)
(*                                                                         *)
(* The jump in the code of the function is kept by the module that knows   *)
(* whether the code is still there (ScriptHook).                           *)
(***************************************************************************)
EXTENDS FiniteSets

CONSTANTS
  Functions,   \* the functions that calls of the engine name
  Refusals     \* failures the engine may answer with

Failures == {"NOT_EXECUTABLE", "UNSUPPORTED_FUNCTION", "MEMORY_ALLOC", "MEMORY_PROTECT"}

ASSUME RefusalsAssumption == Refusals \subseteq Failures

VARIABLES
  engineUp,  \* between MH_Initialize and MH_Uninitialize
  entry      \* each function: "none", "created" or "enabled"

mhVars == <<engineUp, entry>>

(* After MH_Initialize, whose failure is logged and otherwise ignored.     *)
MH_Initialize ==
  /\ engineUp \in {TRUE, "MEMORY_ALLOC" \notin Refusals}
  /\ entry = [f \in Functions |-> "none"]

Answers(due) == IF due = "OK" THEN {"OK"} \cup Refusals ELSE {due}

CreateDue(f) ==
  IF ~engineUp THEN "NOT_INITIALIZED"
  ELSE IF entry[f] # "none" THEN "ALREADY_CREATED"
  ELSE "OK"

EnableDue(f) ==
  IF ~engineUp THEN "NOT_INITIALIZED"
  ELSE IF entry[f] = "none" THEN "NOT_CREATED"
  ELSE IF entry[f] = "enabled" THEN "ENABLED"
  ELSE "OK"

DisableDue(f) ==
  IF ~engineUp THEN "NOT_INITIALIZED"
  ELSE IF entry[f] = "none" THEN "NOT_CREATED"
  ELSE IF entry[f] = "created" THEN "DISABLED"
  ELSE "OK"

SetEntry(f, st, to) ==
  /\ entry' = IF st = "OK" THEN [entry EXCEPT ![f] = to] ELSE entry
  /\ UNCHANGED engineUp

MH_CreateHook(f, st)  == st \in Answers(CreateDue(f))  /\ SetEntry(f, st, "created")
MH_EnableHook(f, st)  == st \in Answers(EnableDue(f))  /\ SetEntry(f, st, "enabled")
MH_DisableHook(f, st) == st \in Answers(DisableDue(f)) /\ SetEntry(f, st, "created")

(* All hooks are disabled, and the table is given up, unless one of them   *)
(* could not be.                                                           *)
MH_Uninitialize(st) ==
  /\ st \in Answers(IF engineUp THEN "OK" ELSE "NOT_INITIALIZED")
  /\ IF st = "OK"
     THEN engineUp' = FALSE /\ entry' = [f \in Functions |-> "none"]
     ELSE UNCHANGED mhVars

EngineTypeOK ==
  /\ engineUp \in BOOLEAN
  /\ entry \in [Functions -> {"none", "created", "enabled"}]
=============================================================================
