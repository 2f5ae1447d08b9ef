------------------------------ MODULE TwoDumpers -------------------------------
(***************************************************************************)
(* Several runs of ClrDumper.exe at a time, each with a target of its own. *)
(* The two pipe names are the same for all and allow one instance, whoever *)
(* makes it; CreateNamedPipe, ConnectNamedPipe and CreateFile fail without *)
(* anybody looking.  A session that finds the names taken goes on without  *)
(* pipes, and its DLL may end up at another dumper, or at two.             *)
(*                                                                         *)
(* The conversation is that of Injection with less detail: a session d is  *)
(* the dumper d and the DLL d in its target, and the pipes made by dumper  *)
(* d are pipe[d].  "down" is the first one made and opened, "up" carries   *)
(* the requests.                                                           *)
(***************************************************************************)
EXTENDS Naturals

CONSTANTS Sessions, Nobody

ASSUME NobodyAssumption == Nobody \notin Sessions \cup {"path", "mode", "log", "garbage"}

VARIABLES
  dpc,      \* main of each dumper, "killed" also where it gave up
  loop,     \* NamedPipeLoop of each dumper: "none", "read", "reply" or "done"
  pipe,     \* what each dumper made: "none", "invalid", "listening", "connected",
            \* "left" by its client, or "closed" by the dumper
  replying, \* the question that the loop is answering
  rpc,      \* the DLL of each session, in DllMain and after; "gone" also if it never came
  handle,   \* the dumper whose pipe each DLL has opened, or Nobody
  request,  \* what each DLL is writing, or Nobody
  got,      \* where the DLL's path and mode came from
  resumed,  \* sessions whose target was resumed
  overlap   \* history: a dumper has started next to another session

vars == <<dpc, loop, pipe, replying, rpc, handle, request, got, resumed, overlap>>

Pipes == {"down", "up"}
Questions == {"path", "mode"}

Init ==
  /\ dpc = [d \in Sessions |-> "start"]
  /\ loop = [d \in Sessions |-> "none"]
  /\ pipe = [d \in Sessions |-> [p \in Pipes |-> "none"]]
  /\ replying = [d \in Sessions |-> "path"]
  /\ rpc = [d \in Sessions |-> "none"]
  /\ handle = [d \in Sessions |-> [p \in Pipes |-> Nobody]]
  /\ request = [d \in Sessions |-> Nobody]
  /\ got = [d \in Sessions |-> [k \in Questions |-> Nobody]]
  /\ resumed = {}
  /\ overlap = FALSE

Alive(d) == dpc[d] \notin {"start", "ended", "killed"}
Active(d) == Alive(d) \/ rpc[d] \notin {"none", "gone"}
Made(d, p) == pipe[d][p] \in {"listening", "connected", "left"}
Talks(c, p) == handle[c][p] # Nobody /\ pipe[handle[c][p]][p] = "connected"

-----------------------------------------------------------------------------
(* The dumper                                                              *)

MainGoes(d, from, to) == dpc[d] = from /\ dpc' = [dpc EXCEPT ![d] = to]

(* CreateNamedPipe.  While a DLL keeps its end of a pipe whose dumper has  *)
(* gone, the kernel may or may not count the instance.                     *)
CreatePipe(d, p) ==
  /\ pipe' \in
       {[pipe EXCEPT ![d][p] = s] : s \in
          IF \E e \in Sessions : Made(e, p) THEN {"invalid"}
          ELSE IF \E c \in Sessions : handle[c][p] # Nobody THEN {"invalid", "listening"}
          ELSE {"listening"}}
  /\ UNCHANGED <<loop, replying, rpc, handle, request, got, resumed>>

CreateDown(d) ==
  /\ MainGoes(d, "start", "madeDown")
  /\ CreatePipe(d, "down")
  /\ overlap' = (overlap \/ \E e \in Sessions \ {d} : Active(e))

CreateUp(d) ==
  /\ MainGoes(d, "madeDown", "made")
  /\ CreatePipe(d, "up")
  /\ UNCHANGED overlap

(* Where CreateRemoteThread or the LoadLibraryA it calls fails, the target *)
(* has no DLL, now or later, and main goes on as if it had.                *)
LaunchTarget(d) ==
  /\ MainGoes(d, "made", "connectDown")
  /\ \E dll \in {"openDown", "gone"} : rpc' = [rpc EXCEPT ![d] = dll]
  /\ UNCHANGED <<loop, pipe, replying, handle, request, got, resumed, overlap>>

(* ConnectNamedPipe waits for a client of a pipe that was made; it returns *)
(* at once if there has been one, or if the handle is invalid.             *)
ConnectsAnyway(d, p) == TRUE
ConnectsIfConnected(d, p) == pipe[d][p] = "connected"
Connects(d, p) == pipe[d][p] # "listening"

WaitForConnection(d) ==
  /\ \/ MainGoes(d, "connectDown", "connectUp") /\ Connects(d, "down")
     \/ MainGoes(d, "connectUp", "spawn") /\ Connects(d, "up")
  /\ UNCHANGED <<loop, pipe, replying, rpc, handle, request, got, resumed, overlap>>

SpawnLoop(d) ==
  /\ MainGoes(d, "spawn", "remote")
  /\ loop' = [loop EXCEPT ![d] = "read"]
  /\ UNCHANGED <<pipe, replying, rpc, handle, request, got, resumed, overlap>>

(* The wait for the remote thread has a timeout, then the target runs.     *)
ResumeAfterRemote(d) ==
  /\ MainGoes(d, "remote", "wait")
  /\ rpc[d] \in {"run", "gone"}
  /\ resumed' = resumed \cup {d}
  /\ UNCHANGED <<loop, pipe, replying, rpc, handle, request, got, overlap>>
ResumeTarget(d) ==
  /\ MainGoes(d, "remote", "wait")
  /\ resumed' = resumed \cup {d}
  /\ UNCHANGED <<loop, pipe, replying, rpc, handle, request, got, overlap>>

DumperEnds(d, how) ==
  /\ dpc' = [dpc EXCEPT ![d] = how]
  /\ loop' = [loop EXCEPT ![d] = "done"]
  /\ pipe' = [pipe EXCEPT ![d] = [p \in Pipes |-> IF Made(d, p) THEN "closed" ELSE @[p]]]
  /\ UNCHANGED <<replying, rpc, handle, request, got, resumed, overlap>>

(* main returns early: there is no target, or no memory in it, or no       *)
(* thread for the loop.                                                    *)
GiveUp(d) ==
  /\ dpc[d] \in {"made", "spawn"}
  /\ DumperEnds(d, "killed")

WaitLoop(d) ==
  /\ dpc[d] = "wait" /\ loop[d] = "done"
  /\ DumperEnds(d, "ended")

KillDumper(d) == Alive(d) /\ DumperEnds(d, "killed")

(* ReadFile fails: the handle is invalid, or its client has gone.          *)
LoopEnds(d) ==
  /\ loop[d] = "read"
  /\ pipe[d]["up"] # "connected"
  /\ loop' = [loop EXCEPT ![d] = "done"]
  /\ UNCHANGED <<dpc, pipe, replying, rpc, handle, request, got, resumed, overlap>>

AfterWrite == [path |-> "getPath", mode |-> "getMode", log |-> "run"]

(* The loop reads a message, and its writer goes on.  The answer goes to   *)
(* the loop's own pipe, whoever has opened that.                           *)
LoopServes(d, c) ==
  /\ loop[d] = "read"
  /\ Talks(c, "up") /\ handle[c]["up"] = d
  /\ request[c] # Nobody
  /\ request' = [request EXCEPT ![c] = Nobody]
  /\ rpc' = [rpc EXCEPT ![c] = AfterWrite[request[c]]]
  /\ IF request[c] \in Questions /\ pipe[d]["down"] = "connected"
     THEN /\ loop' = [loop EXCEPT ![d] = "reply"]
          /\ replying' = [replying EXCEPT ![d] = request[c]]
     ELSE UNCHANGED <<loop, replying>>
  /\ UNCHANGED <<dpc, pipe, handle, got, resumed, overlap>>

ReplyFails(d) ==
  /\ loop[d] = "reply"
  /\ pipe[d]["down"] # "connected"
  /\ loop' = [loop EXCEPT ![d] = "read"]
  /\ UNCHANGED <<dpc, pipe, replying, rpc, handle, request, got, resumed, overlap>>

-----------------------------------------------------------------------------
(* The DLL                                                                 *)

(* CreateFile finds the instance that listens, or fails.                   *)
OpensShared(p) ==
  IF \E d \in Sessions : Made(d, p) THEN CHOOSE d \in Sessions : Made(d, p) ELSE Nobody
Opens(p) ==
  IF \E d \in Sessions : pipe[d][p] = "listening"
  THEN CHOOSE d \in Sessions : pipe[d][p] = "listening"
  ELSE Nobody

OpenPipe(c, p, from, to) ==
  LET d == Opens(p)
  IN  /\ rpc[c] = from
      /\ rpc' = [rpc EXCEPT ![c] = to]
      /\ handle' = [handle EXCEPT ![c][p] = d]
      /\ pipe' = IF d = Nobody THEN pipe ELSE [pipe EXCEPT ![d][p] = "connected"]
      /\ UNCHANGED <<dpc, loop, replying, request, got, resumed, overlap>>

(* WriteFile: it waits for the loop, or fails at once.                     *)
Write(c, from, m) ==
  /\ rpc[c] = from
  /\ request[c] = Nobody
  /\ Talks(c, "up")
  /\ request' = [request EXCEPT ![c] = m]
  /\ UNCHANGED <<dpc, loop, pipe, replying, rpc, handle, got, resumed, overlap>>

WriteFails(c, from, m) ==
  /\ rpc[c] = from
  /\ ~Talks(c, "up")
  /\ request' = [request EXCEPT ![c] = Nobody]
  /\ rpc' = [rpc EXCEPT ![c] = AfterWrite[m]]
  /\ UNCHANGED <<dpc, loop, pipe, replying, handle, got, resumed, overlap>>

(* ReadFile takes the answer under way, or fails and leaves garbage.       *)
ReadAnswer(c, k, from, to) ==
  LET d == handle[c]["down"]
  IN  /\ rpc[c] = from
      /\ Talks(c, "down")
      /\ loop[d] = "reply"
      /\ loop' = [loop EXCEPT ![d] = "read"]
      /\ got' = [got EXCEPT ![c][k] = d]
      /\ rpc' = [rpc EXCEPT ![c] = to]
      /\ UNCHANGED <<dpc, pipe, replying, handle, request, resumed, overlap>>

ReadFailsEarly(c, k, from, to) ==
  /\ rpc[c] = from
  /\ got' = [got EXCEPT ![c][k] = "garbage"]
  /\ rpc' = [rpc EXCEPT ![c] = to]
  /\ UNCHANGED <<dpc, loop, pipe, replying, handle, request, resumed, overlap>>
ReadAsksAgain(c, k, from, to) ==
  /\ rpc[c] = from
  /\ ~Talks(c, "down")
  /\ rpc' = [rpc EXCEPT ![c] = IF k = "path" THEN "askPath" ELSE "askMode"]
  /\ UNCHANGED <<dpc, loop, pipe, replying, handle, request, got, resumed, overlap>>
ReadFails(c, k, from, to) ==
  /\ rpc[c] = from
  /\ ~Talks(c, "down")
  /\ got' = [got EXCEPT ![c][k] = "garbage"]
  /\ rpc' = [rpc EXCEPT ![c] = to]
  /\ UNCHANGED <<dpc, loop, pipe, replying, handle, request, resumed, overlap>>

DllStep(c) ==
  \/ OpenPipe(c, "down", "openDown", "openUp") \/ OpenPipe(c, "up", "openUp", "askPath")
  \/ \E m \in {<<"askPath", "path">>, <<"askMode", "mode">>, <<"log", "log">>} :
       Write(c, m[1], m[2]) \/ WriteFails(c, m[1], m[2])
  \/ \E m \in {<<"path", "getPath", "askMode">>, <<"mode", "getMode", "log">>} :
       ReadAnswer(c, m[1], m[2], m[3]) \/ ReadFails(c, m[1], m[2], m[3])

TargetEnds(c) ==
  /\ rpc' = [rpc EXCEPT ![c] = "gone"]
  /\ request' = [request EXCEPT ![c] = Nobody]
  /\ handle' = [handle EXCEPT ![c] = [p \in Pipes |-> Nobody]]
  /\ pipe' = [d \in Sessions |-> [p \in Pipes |->
                IF handle[c][p] = d /\ pipe[d][p] = "connected" THEN "left" ELSE pipe[d][p]]]
  /\ UNCHANGED <<dpc, loop, replying, got, resumed, overlap>>

ExitTarget(c) ==
  /\ rpc[c] = "run" /\ c \in resumed
  /\ TargetEnds(c)

KillTarget(c) ==
  /\ rpc[c] \notin {"none", "gone"}
  /\ TargetEnds(c)

MainStep(d) ==
  \/ CreateUp(d) \/ LaunchTarget(d) \/ WaitForConnection(d) \/ SpawnLoop(d)
  \/ GiveUp(d) \/ ResumeTarget(d) \/ WaitLoop(d)
LoopStep(d) == LoopEnds(d) \/ ReplyFails(d) \/ \E c \in Sessions : LoopServes(d, c)

Next ==
  \E d \in Sessions :
    \/ CreateDown(d) \/ MainStep(d) \/ LoopStep(d) \/ DllStep(d)
    \/ ExitTarget(d) \/ KillDumper(d) \/ KillTarget(d)

Spec == Init /\ [][Next]_vars

(* Every thread is scheduled; nobody has to start a dumper, and a target   *)
(* need not end.                                                           *)
FairSpec ==
  Spec /\ \A d \in Sessions : WF_vars(MainStep(d)) /\ WF_vars(LoopStep(d)) /\ WF_vars(DllStep(d))

-----------------------------------------------------------------------------
(* Properties                                                              *)

DumperStates == {"start", "madeDown", "made", "connectDown", "connectUp", "spawn",
                 "remote", "wait", "ended", "killed"}
LoopStates == {"none", "read", "reply", "done"}
PipeStates == {"none", "invalid", "listening", "connected", "left", "closed"}
DllStates  == {"none", "openDown", "openUp", "askPath", "getPath", "askMode", "getMode",
               "log", "run", "gone"}

OneClient ==
  \A b, c \in Sessions : \A p \in Pipes : Talks(b, p) /\ handle[b][p] = handle[c][p] => b = c

(* Every variable holds a value of its kind, and a pipe has one client.    *)
TypeOK ==
  /\ dpc \in [Sessions -> DumperStates]
  /\ loop \in [Sessions -> LoopStates]
  /\ pipe \in [Sessions -> [Pipes -> PipeStates]]
  /\ replying \in [Sessions -> Questions]
  /\ rpc \in [Sessions -> DllStates]
  /\ handle \in [Sessions -> [Pipes -> Sessions \cup {Nobody}]]
  /\ request \in [Sessions -> Questions \cup {"log", Nobody}]
  /\ got \in [Sessions -> [Questions -> Sessions \cup {Nobody, "garbage"}]]
  /\ resumed \subseteq Sessions
  /\ overlap \in BOOLEAN
  /\ OneClient

(* Runs one after another do not disturb each other: a DLL never has the   *)
(* settings of another dumper, and garbage only if its own gave up or was  *)
(* killed.                                                                 *)
SequentialRunsAreRight ==
  ~overlap => \A c \in Sessions : \A k \in Questions :
    got[c][k] \in {c, Nobody} \/ (got[c][k] = "garbage" /\ dpc[c] = "killed")

(* An answer is read as an answer to the question it belongs to, even when *)
(* it was another DLL that asked: a mode is never taken for a path.        *)
AnswersInStep ==
  \A d, c \in Sessions :
    loop[d] = "reply" /\ Talks(c, "down") /\ handle[c]["down"] = d =>
      \/ replying[d] = "path" /\ rpc[c] \in {"openUp", "askPath", "getPath"}
      \/ replying[d] = "mode" /\ rpc[c] \in {"askMode", "getMode"}

(* A dumper whose target has no DLL, or was killed early, waits for ever   *)
(* for a client.                                                           *)
Abandoned(d) == dpc[d] \in {"connectDown", "connectUp"} /\ rpc[d] = "gone"

(* The DLL gets through DllMain, at whichever dumpers its handles are:     *)
(* crossed pipes do not make the sessions wait for each other for ever,    *)
(* unless one of the dumpers is abandoned.                                 *)
DllMainReturns ==
  \A c \in Sessions :
    rpc[c] = "openDown" ~> rpc[c] \in {"run", "gone"} \/ \E d \in Sessions : Abandoned(d)

(* The pipes being shared does not keep a dumper in ConnectNamedPipe: it   *)
(* stays there only if the DLL of its own target is missing or killed.     *)
ConnectReturns ==
  \A d \in Sessions :
    dpc[d] = "connectDown" ~> dpc[d] \in {"spawn", "killed"} \/ Abandoned(d)

(* What each thread waits for: the guards of the actions, without primes.  *)
(* ConnectNamedPipe, the wait for the loop, ReadFile and WriteFile wait.   *)
MainMayStep(d) ==
  \/ dpc[d] \in {"madeDown", "made", "spawn", "remote"}
  \/ dpc[d] = "connectDown" /\ Connects(d, "down")
  \/ dpc[d] = "connectUp" /\ Connects(d, "up")
  \/ dpc[d] = "wait" /\ loop[d] = "done"
WritesTo(c, d) == Talks(c, "up") /\ handle[c]["up"] = d /\ request[c] # Nobody
LoopMayStep(d) ==
  \/ /\ loop[d] = "read"
     /\ pipe[d]["up"] # "connected" \/ \E c \in Sessions : WritesTo(c, d)
  \/ loop[d] = "reply" /\ pipe[d]["down"] # "connected"
DllMayStep(c) ==
  \/ rpc[c] \in {"openDown", "openUp"}
  \/ rpc[c] \in {"askPath", "askMode", "log"} /\ (request[c] = Nobody \/ ~Talks(c, "up"))
  \/ /\ rpc[c] \in {"getPath", "getMode"}
     /\ ~Talks(c, "down") \/ loop[handle[c]["down"]] = "reply"
MayStep(s) == MainMayStep(s) \/ LoopMayStep(s) \/ DllMayStep(s)

(* The sessions come to a standstill only around abandoned dumpers: when   *)
(* no thread of any of them can go on, a dumper in ConnectNamedPipe is     *)
(* abandoned, a DLL inside DllMain has opened a pipe of one that is, and   *)
(* a dumper that waits for its loop has the pipe of a target that runs.    *)
(* No circle of dumpers and DLLs with crossed pipes waits for itself.      *)
StandsStill == \A s \in Sessions : ~MayStep(s)
StuckOnlyAtAbandoned ==
  StandsStill => \A s \in Sessions :
    /\ dpc[s] \in {"connectDown", "connectUp"} => Abandoned(s)
    /\ rpc[s] \notin {"none", "run", "gone"} =>
         \E d \in Sessions : Abandoned(d) /\ \E p \in Pipes : handle[s][p] = d
    /\ dpc[s] = "wait" =>
         \E c \in Sessions : Talks(c, "up") /\ handle[c]["up"] = s /\ rpc[c] = "run"

(* A session only ever gets further.  No step sets main of a dumper or a   *)
(* DLL back, and one that advances neither brings a loop nearer to its     *)
(* end: sessions cannot keep each other busy for ever.                     *)
MainLeft == [start |-> 9, madeDown |-> 8, made |-> 7, connectDown |-> 6, connectUp |-> 5,
             spawn |-> 4, remote |-> 3, wait |-> 2, ended |-> 0, killed |-> 0]
DllLeft  == [none |-> 18, openDown |-> 16, openUp |-> 14, askPath |-> 12, getPath |-> 10,
             askMode |-> 8, getMode |-> 6, log |-> 4, run |-> 2, gone |-> 0]
LoopLeft == [none |-> 0, reply |-> 2, read |-> 1, done |-> 0]
Left(s) == MainLeft[dpc[s]] + DllLeft[rpc[s]] + (IF request[s] = Nobody THEN 1 ELSE 0)
RunsDown ==
  /\ \A s \in Sessions : Left(s)' <= Left(s)
  /\ \/ \E s \in Sessions : Left(s)' < Left(s)
     \/ \E d \in Sessions : /\ LoopLeft[loop'[d]] < LoopLeft[loop[d]]
                            /\ \A e \in Sessions \ {d} : loop'[e] = loop[e]
SessionsRunDown == [][RunsDown]_vars
=============================================================================
