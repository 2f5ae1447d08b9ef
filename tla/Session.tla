-------------------------------- MODULE Session --------------------------------
(***************************************************************************)
(* What one run of ClrDumper promises to the person at its console, with   *)
(* no pipes, threads or program counters: the target is held until the     *)
(* hooks are in place, what the hooks report arrives whole and in order,   *)
(* and a report is lost only together with the process that was to write   *)
(* or to read it.  Injection implements this.                              *)
(***************************************************************************)
EXTENDS Naturals, Sequences

CONSTANT Reports   \* what the DLL may tell the dumper

VARIABLES
  target,     \* "none", "held", "free", "leaving" or "ended"
  hooksDone,  \* the DLL has finished its work in DllMain
  watching,   \* the dumper is there
  pending,    \* reports on their way
  delivered   \* reports the dumper has acted upon, in order

vars == <<target, hooksDone, watching, pending, delivered>>

Init ==
  /\ target = "none"
  /\ hooksDone = FALSE
  /\ watching = TRUE
  /\ pending = <<>>
  /\ delivered = <<>>

(* CreateProcess with CREATE_SUSPENDED                                     *)
Launch ==
  /\ watching
  /\ target = "none"
  /\ target' = "held"
  /\ UNCHANGED <<hooksDone, watching, pending, delivered>>

FinishHooks ==
  /\ target = "held"
  /\ ~hooksDone
  /\ hooksDone' = TRUE
  /\ UNCHANGED <<target, watching, pending, delivered>>

(* The first instruction of the target's own code.                         *)
Release ==
  /\ target = "held"
  /\ hooksDone
  /\ target' = "free"
  /\ UNCHANGED <<hooksDone, watching, pending, delivered>>

Post(m) ==
  /\ watching
  /\ target \in {"held", "free", "leaving"}
  /\ pending' = Append(pending, m)
  /\ UNCHANGED <<target, hooksDone, watching, delivered>>

Deliver ==
  /\ watching
  /\ pending # <<>>
  /\ delivered' = Append(delivered, Head(pending))
  /\ pending' = Tail(pending)
  /\ UNCHANGED <<target, hooksDone, watching>>

(* The target exits or is killed.  Its threads are stopped where they are, *)
(* and a report that one of them had not yet handed over is withdrawn.     *)
EndTarget ==
  /\ \/ target = "free" /\ target' = "leaving"
     \/ target \in {"held", "free", "leaving"} /\ target' = "ended"
  /\ \E kept \in 0 .. Len(pending) : pending' = SubSeq(pending, 1, kept)
  /\ UNCHANGED <<hooksDone, watching, delivered>>

EndDumper ==
  /\ watching
  /\ watching' = FALSE
  /\ pending' = <<>>
  /\ UNCHANGED <<target, hooksDone, delivered>>

Next ==
  \/ Launch \/ FinishHooks \/ Release
  \/ \E m \in Reports : Post(m)
  \/ Deliver \/ EndTarget \/ EndDumper

Spec == Init /\ [][Next]_vars
=============================================================================
