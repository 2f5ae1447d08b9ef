------------------------------- MODULE PipeLink -------------------------------
(***************************************************************************)
(* The pair of one-way byte pipes between ClrDumper.exe (the server) and   *)
(* the injected HookClr.dll (the client), with the calls either side makes *)
(* on it.  The kernel object is external; what is modelled is the object   *)
(* the two programs create and use: byte type, one instance, no buffers    *)
(* ("no outbound buffer", "no inbound buffer"), synchronous handles.       *)
(*                                                                         *)
(*   "up"    the target writes, the dumper reads:   \\.\pipe\dumper_writer_pipe *)
(*   "down"  the dumper writes, the target reads:   \\.\pipe\dumper_reader_pipe *)
(*                                                                         *)
(* A message is a record; how it is laid out in bytes is not modelled      *)
(* here.  Byte type shows in one place: a read takes everything that is    *)
(* queued, so two queued messages are returned by one read.                *)
(***************************************************************************)
EXTENDS Naturals, Sequences

CONSTANTS Threads,    \* threads of the target that may call WriteFile
          NoThread    \* no thread is inside WriteFile

ASSUME NoThreadAssumption == NoThread \notin Threads

VARIABLES
  srv,      \* the server's two handles: "unmade", "open" or "closed"
  cli,      \* the client's handle of each pipe
  up,       \* written by the target, not yet read by the dumper
  down,     \* written by the dumper, not yet read by the target
  writer,   \* the thread inside WriteFile on "up", or NoThread
  sent      \* history: the messages written to "up" and not withdrawn

linkVars == <<srv, cli, up, down, writer, sent>>

Pipes == {"up", "down"}

LinkInit ==
  /\ srv = "unmade"
  /\ cli = [p \in Pipes |-> "unopened"]
  /\ up = <<>>
  /\ down = <<>>
  /\ writer = NoThread
  /\ sent = <<>>

-----------------------------------------------------------------------------
(* Messages that may stay unread while the writer already runs on.  The    *)
(* pipes are created with buffers of size 0: a write returns when its      *)
(* bytes have been read.                                                   *)
BufferedPipe == 1
PipeBuffer == 0

Usable(p) == srv = "open" /\ cli[p] = "open"

(* CreateFile on the pipe's name: it finds the listening instance, or      *)
(* fails because there is none any more.                                   *)
OpenClient(p) ==
  /\ cli' = [cli EXCEPT ![p] = IF srv = "open" THEN "open" ELSE "invalid"]
  /\ UNCHANGED <<srv, up, down, writer, sent>>

(* WriteFile on "up" by thread t.  The handle is synchronous: one thread   *)
(* at a time is inside the call, others wait for it.  On a dead or invalid *)
(* handle the call fails at once, which no caller looks at.                *)
BeginWrite(t, m) ==
  /\ writer = NoThread
  /\ IF Usable("up")
     THEN /\ up' = Append(up, m)
          /\ sent' = Append(sent, m)
          /\ writer' = t
     ELSE UNCHANGED <<up, sent, writer>>
  /\ UNCHANGED <<srv, cli, down>>

(* The write returns: its bytes have been taken, or the server is gone.    *)
WriteReturns ==
  /\ writer # NoThread
  /\ Len(up) <= PipeBuffer \/ ~Usable("up")
  /\ writer' = NoThread
  /\ UNCHANGED <<srv, cli, up, down, sent>>

(* A write whose thread is terminated is cancelled: what was not read is   *)
(* withdrawn from the pipe.                                                *)
CancelWrite ==
  /\ up' = <<>>
  /\ sent' = SubSeq(sent, 1, Len(sent) - Len(up))
  /\ writer' = NoThread

(* The client process ends: its handles are closed, its write cancelled.   *)
DropClient ==
  /\ CancelWrite
  /\ down' = <<>>
  /\ cli' = [p \in Pipes |-> IF cli[p] = "open" THEN "closed" ELSE cli[p]]
  /\ UNCHANGED srv

(* The server process ends: its handles are closed, and both directions    *)
(* are broken from now on.                                                 *)
DropServer ==
  /\ srv' = "closed"
  /\ up' = <<>>
  /\ down' = <<>>
  /\ UNCHANGED <<cli, writer, sent>>
=============================================================================
