------------------------------ MODULE RecordPipe -------------------------------
(***************************************************************************)
(* The pipe of log messages and requests as PipeLink and Injection see it: *)
(* a message is one thing, which is in the pipe, then in the buffer of     *)
(* NamedPipeLoop, then acted upon.  No bytes, no sizes, no left-overs.     *)
(* What the bytes do show is that a message of the greatest length comes   *)
(* out twice and may come out a byte longer.  PipeCodec implements this.   *)
(***************************************************************************)
EXTENDS Naturals, Sequences, SequencesExt

CONSTANTS
  Messages,  \* what may be written, with its kind and text
  Longest    \* those that fill the buffer

VARIABLES
  writing, \* the target is there
  up,      \* the message that is written and not read
  again,   \* the message that will be read once more
  buf,     \* the message in the loop's buffer
  served   \* what the loop has acted upon

vars == <<writing, up, again, buf, served>>

Init == writing = TRUE /\ up = <<>> /\ again = <<>> /\ buf = <<>> /\ served = <<>>

(* WriteFile, which returns when nothing of the message is in the pipe.    *)
Post ==
  /\ writing
  /\ up = <<>> /\ again = <<>>
  /\ Len(up') = 1 /\ up'[1] \in Messages
  /\ UNCHANGED <<writing, again, buf, served>>

Take ==
  /\ buf = <<>>
  /\ \/ /\ up # <<>>
        /\ buf' = up
        /\ up' = <<>>
        /\ again' = IF up[1] \in Longest THEN up ELSE <<>>
     \/ /\ again # <<>>
        /\ buf' = again
        /\ again' = <<>>
        /\ UNCHANGED up
  /\ UNCHANGED <<writing, served>>

(* What the loop takes message m for.                                      *)
Meant(a, m) ==
  /\ a.kind = m.kind
  /\ IF m \in Longest THEN IsPrefix(m.text, a.text) /\ Len(a.text) <= Len(m.text) + 1
     ELSE a.text = m.text

Serve ==
  /\ buf # <<>>
  /\ Len(served') = Len(served) + 1
  /\ IsPrefix(served, served')
  /\ Meant(served'[Len(served')], buf[1])
  /\ buf' = <<>>
  /\ UNCHANGED <<writing, up, again>>

(* The target ends, and what is unread of its write is withdrawn.          *)
Withdraw ==
  /\ writing
  /\ writing' = FALSE
  /\ up' = <<>> /\ again' = <<>>
  /\ UNCHANGED <<buf, served>>

Next == Post \/ Take \/ Serve \/ Withdraw

Spec == Init /\ [][Next]_vars
=============================================================================
