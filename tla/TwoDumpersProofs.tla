--------------------------- MODULE TwoDumpersProofs ---------------------------
(* Theorems about TwoDumpers, for any number of sessions.                  *)
EXTENDS TwoDumpers, TLAPS

-----------------------------------------------------------------------------
(* One client per pipe.  What makes it hold is that only a listening pipe  *)
(* is opened, that nobody has a handle of one that listens, and that a     *)
(* pipe listens once.                                                      *)

OpenedOnce ==
  \A c \in Sessions : \A p \in Pipes :
    handle[c][p] # Nobody => pipe[handle[c][p]][p] \in {"connected", "left", "closed"}

MadeOnce ==
  \A d \in Sessions :
    /\ dpc[d] = "start" => pipe[d]["down"] = "none"
    /\ dpc[d] \in {"start", "madeDown"} => pipe[d]["up"] = "none"

LinksInv == OneClient /\ OpenedOnce /\ MadeOnce
TypeInv == TypeOK /\ LinksInv

(* What CreateFile finds is a pipe that listens.                           *)
LEMMA OpensListening ==
  ASSUME NEW p
  PROVE  /\ Opens(p) \in Sessions \cup {Nobody}
         /\ Opens(p) # Nobody => pipe[Opens(p)][p] = "listening"
         /\ (\E d \in Sessions : pipe[d][p] = "listening") => Opens(p) # Nobody
  BY NobodyAssumption DEF Opens

LEMMA OpenPipeOpens ==
  ASSUME NEW c, NEW p, NEW from, NEW to, OpenPipe(c, p, from, to)
  PROVE  \/ handle' = [handle EXCEPT ![c][p] = Nobody] /\ UNCHANGED pipe
         \/ \E d \in Sessions :
              /\ pipe[d][p] = "listening"
              /\ handle' = [handle EXCEPT ![c][p] = d]
              /\ pipe' = [pipe EXCEPT ![d][p] = "connected"]
  BY OpensListening DEF OpenPipe

LEMMA CreatePipeMakes ==
  ASSUME NEW d \in Sessions, NEW p \in Pipes, CreatePipe(d, p)
  PROVE  /\ \E s \in {"invalid", "listening"} : pipe' = [pipe EXCEPT ![d][p] = s]
         /\ UNCHANGED <<loop, replying, rpc, handle, request, got, resumed>>
  BY DEF CreatePipe

LEMMA AfterWriteType ==
  \A m \in {"path", "mode", "log"} : AfterWrite[m] \in {"getPath", "getMode", "run"}
  BY DEF AfterWrite

(* Steps that open no pipe: handles are only dropped, and a pipe that was  *)
(* opened stays connected or breaks for good.                              *)
LEMMA ClientsKept ==
  ASSUME TypeOK, LinksInv,
         \A c \in Sessions : \A p \in Pipes : handle'[c][p] \in {handle[c][p], Nobody},
         \A d \in Sessions : \A p \in Pipes : pipe[d][p] \in {"connected", "left", "closed"} =>
           pipe'[d][p] \in {pipe[d][p], "left", "closed"}
  PROVE  OneClient' /\ OpenedOnce'
  <1>1. ASSUME NEW c \in Sessions, NEW p \in Pipes, handle'[c][p] # Nobody
        PROVE  /\ handle'[c][p] = handle[c][p] /\ handle[c][p] \in Sessions
               /\ pipe[handle[c][p]][p] \in {"connected", "left", "closed"}
               /\ pipe'[handle[c][p]][p] \in {pipe[handle[c][p]][p], "left", "closed"}
    <2>1. handle'[c][p] = handle[c][p]
      BY <1>1
    <2>2. handle[c][p] \in Sessions
      BY <1>1, <2>1 DEF TypeOK
    <2>3. pipe[handle[c][p]][p] \in {"connected", "left", "closed"}
      BY <1>1, <2>1 DEF LinksInv, OpenedOnce
    <2>. QED BY <2>1, <2>2, <2>3
  <1>2. OpenedOnce'
    <2> SUFFICES ASSUME NEW c \in Sessions, NEW p \in Pipes, handle'[c][p] # Nobody
                 PROVE  pipe'[handle'[c][p]][p] \in {"connected", "left", "closed"}
      BY DEF OpenedOnce
    <2>. QED BY <1>1
  <1>3. OneClient'
    <2> SUFFICES ASSUME NEW b \in Sessions, NEW c \in Sessions, NEW p \in Pipes,
                        Talks(b, p)', handle'[b][p] = handle'[c][p]
                 PROVE  b = c
      BY DEF OneClient
    <2>1. handle'[b][p] # Nobody /\ pipe'[handle'[b][p]][p] = "connected"
      BY DEF Talks
    <2>2. handle[b][p] = handle[c][p] /\ handle[b][p] # Nobody
      BY <1>1, <2>1
    <2>3. pipe[handle[b][p]][p] = "connected"
      BY <1>1, <2>1
    <2>. QED BY <2>2, <2>3 DEF LinksInv, OneClient, Talks
  <1>. QED BY <1>2, <1>3

(* Steps that leave the pipes and the handles alone.                       *)
LEMMA LinksKept ==
  ASSUME LinksInv, UNCHANGED <<pipe, handle>>,
         \A d \in Sessions : /\ dpc'[d] = "start" => dpc[d] = "start"
                             /\ dpc'[d] = "madeDown" => dpc[d] = "madeDown"
  PROVE  LinksInv'
  BY DEF LinksInv, OneClient, OpenedOnce, MadeOnce, Talks

LEMMA TypeInit == Init => TypeInv
  <1> SUFFICES ASSUME Init PROVE TypeInv
    OBVIOUS
  <1>1. TypeOK
    BY NobodyAssumption DEF Init, TypeOK, OneClient, Talks, Pipes, Questions, DumperStates,
       LoopStates, PipeStates, DllStates
  <1>2. LinksInv
    BY NobodyAssumption DEF Init, LinksInv, OneClient, OpenedOnce, MadeOnce, Talks, Pipes
  <1>. QED BY <1>1, <1>2 DEF TypeInv

LEMMA TypeCreate ==
  ASSUME TypeInv, NEW d \in Sessions, CreateDown(d) \/ CreateUp(d)
  PROVE  TypeInv'
  <1>1. PICK p \in Pipes :
          /\ CreatePipe(d, p) /\ pipe[d][p] = "none"
          /\ \/ dpc[d] = "start" /\ dpc' = [dpc EXCEPT ![d] = "madeDown"] /\ p = "down"
             \/ dpc[d] = "madeDown" /\ dpc' = [dpc EXCEPT ![d] = "made"]
          /\ overlap' \in BOOLEAN
    BY DEF CreateDown, CreateUp, MainGoes, TypeInv, TypeOK, LinksInv, MadeOnce, Pipes
  <1>2. PICK s \in {"invalid", "listening"} : pipe' = [pipe EXCEPT ![d][p] = s]
    BY <1>1, CreatePipeMakes
  <1>3. UNCHANGED <<loop, replying, rpc, handle, request, got, resumed>>
    BY <1>1, CreatePipeMakes
  <1>4. pipe' \in [Sessions -> [Pipes -> PipeStates]] /\ dpc' \in [Sessions -> DumperStates]
    BY <1>1, <1>2 DEF TypeInv, TypeOK, PipeStates, DumperStates
  <1>5. \A e \in Sessions : \A q \in Pipes : e # d \/ q # p => pipe'[e][q] = pipe[e][q]
    BY <1>2 DEF TypeInv, TypeOK
  <1>6. pipe[d][p] = "none" /\ pipe'[d][p] \in {"invalid", "listening"}
    BY <1>1, <1>2 DEF TypeInv, TypeOK
  <1>7. OneClient' /\ OpenedOnce'
    BY <1>3, <1>5, <1>6, ClientsKept DEF TypeInv
  <1>8. MadeOnce'
    BY <1>1, <1>5 DEF TypeInv, TypeOK, LinksInv, MadeOnce, Pipes
  <1>. QED BY <1>1, <1>3, <1>4, <1>7, <1>8 DEF TypeInv, TypeOK, LinksInv

(* A dumper that gives up ends as one that is killed.                      *)
LEMMA GiveUpEnds ==
  ASSUME NEW d \in Sessions, GiveUp(d)
  PROVE  KillDumper(d)
  BY DEF GiveUp, KillDumper, Alive

LEMMA TypeMain ==
  ASSUME TypeInv, NEW d \in Sessions,
         LaunchTarget(d) \/ WaitForConnection(d) \/ SpawnLoop(d) \/ ResumeTarget(d)
  PROVE  TypeInv'
  <1>1. /\ dpc' \in [Sessions -> DumperStates]
        /\ loop' \in [Sessions -> LoopStates]
        /\ rpc' \in [Sessions -> DllStates]
        /\ resumed' \subseteq Sessions
        /\ UNCHANGED <<pipe, handle, replying, request, got, overlap>>
    <2> USE DEF TypeInv, TypeOK, MainGoes, DumperStates, LoopStates, DllStates
    <2>1. CASE LaunchTarget(d)
      BY <2>1 DEF LaunchTarget
    <2>2. CASE WaitForConnection(d)
      BY <2>2 DEF WaitForConnection
    <2>3. CASE SpawnLoop(d)
      BY <2>3 DEF SpawnLoop
    <2>4. CASE ResumeTarget(d)
      BY <2>4 DEF ResumeTarget
    <2>. QED BY <2>1, <2>2, <2>3, <2>4
  <1>2. \A e \in Sessions : dpc'[e] = dpc[e] \/ dpc'[e] \notin {"start", "madeDown"}
    BY DEF TypeInv, TypeOK, MainGoes, LaunchTarget, WaitForConnection, SpawnLoop, ResumeTarget
  <1>3. LinksInv'
    BY <1>1, <1>2, LinksKept DEF TypeInv
  <1>. QED BY <1>1, <1>3 DEF TypeInv, TypeOK, LinksInv

LEMMA TypeEnds ==
  ASSUME TypeInv, NEW d \in Sessions, WaitLoop(d) \/ KillDumper(d)
  PROVE  TypeInv'
  <1>1. PICK how \in {"ended", "killed"} : DumperEnds(d, how) /\ dpc[d] # "start"
    BY DEF WaitLoop, KillDumper, Alive
  <1>2. \A e \in Sessions : \A p \in Pipes :
          \/ pipe'[e][p] = pipe[e][p]
          \/ pipe'[e][p] = "closed" /\ e = d /\ pipe[e][p] # "none"
    BY <1>1 DEF DumperEnds, Made, TypeInv, TypeOK
  <1>3. /\ dpc' \in [Sessions -> DumperStates]
        /\ loop' \in [Sessions -> LoopStates]
        /\ pipe' \in [Sessions -> [Pipes -> PipeStates]]
        /\ UNCHANGED <<handle, rpc, replying, request, got, resumed, overlap>>
        /\ \A e \in Sessions : dpc'[e] = dpc[e] \/ dpc'[e] \notin {"start", "madeDown"}
    BY <1>1 DEF DumperEnds, TypeInv, TypeOK, DumperStates, LoopStates, PipeStates
  <1>4. OneClient' /\ OpenedOnce'
    BY <1>2, <1>3, ClientsKept DEF TypeInv
  <1>5. MadeOnce'
    BY <1>2, <1>3 DEF TypeInv, LinksInv, MadeOnce, Pipes
  <1>. QED BY <1>3, <1>4, <1>5 DEF TypeInv, TypeOK, LinksInv

LEMMA TypeLoop ==
  ASSUME TypeInv, NEW d \in Sessions, LoopStep(d)
  PROVE  TypeInv'
  <1>0. UNCHANGED <<dpc, pipe, handle, got, resumed, overlap>>
    BY DEF LoopStep, LoopEnds, LoopServes, ReplyFails
  <1>1. loop' \in [Sessions -> LoopStates]
    BY DEF LoopStep, LoopEnds, LoopServes, ReplyFails, TypeInv, TypeOK, LoopStates
  <1>2. /\ rpc' \in [Sessions -> DllStates]
        /\ request' \in [Sessions -> Questions \cup {"log", Nobody}]
        /\ replying' \in [Sessions -> Questions]
    <2>1. CASE LoopEnds(d) \/ ReplyFails(d)
      BY <2>1 DEF LoopEnds, ReplyFails, TypeInv, TypeOK
    <2>2. ASSUME NEW c \in Sessions, LoopServes(d, c)
          PROVE  /\ rpc' \in [Sessions -> DllStates]
                 /\ request' \in [Sessions -> Questions \cup {"log", Nobody}]
                 /\ replying' \in [Sessions -> Questions]
      <3>1. request[c] \in {"path", "mode", "log"}
        BY <2>2 DEF LoopServes, TypeInv, TypeOK, Questions
      <3>2. AfterWrite[request[c]] \in DllStates
        BY <3>1, AfterWriteType DEF DllStates
      <3>. QED BY <2>2, <3>2 DEF LoopServes, TypeInv, TypeOK
    <2>. QED BY <2>1, <2>2 DEF LoopStep
  <1>3. LinksInv'
    BY <1>0, LinksKept DEF TypeInv
  <1>. QED BY <1>0, <1>1, <1>2, <1>3 DEF TypeInv, TypeOK, LinksInv

LEMMA TypeOpen ==
  ASSUME TypeInv, NEW c \in Sessions, NEW p \in Pipes, NEW from, NEW to \in DllStates,
         OpenPipe(c, p, from, to)
  PROVE  TypeInv'
  <1>1. /\ rpc' \in [Sessions -> DllStates]
        /\ UNCHANGED <<dpc, loop, replying, request, got, resumed, overlap>>
    BY DEF OpenPipe, TypeInv, TypeOK
  <1>2. CASE handle' = [handle EXCEPT ![c][p] = Nobody] /\ UNCHANGED pipe
    <2>1. /\ handle' \in [Sessions -> [Pipes -> Sessions \cup {Nobody}]]
          /\ \A b \in Sessions : \A q \in Pipes : handle'[b][q] \in {handle[b][q], Nobody}
      BY <1>2 DEF TypeInv, TypeOK
    <2>2. OneClient' /\ OpenedOnce'
      BY <1>2, <2>1, ClientsKept DEF TypeInv
    <2>3. MadeOnce'
      BY <1>1, <1>2 DEF TypeInv, LinksInv, MadeOnce
    <2>. QED BY <1>1, <1>2, <2>1, <2>2, <2>3 DEF TypeInv, TypeOK, LinksInv
  <1>3. ASSUME NEW d \in Sessions,
               pipe[d][p] = "listening",
               handle' = [handle EXCEPT ![c][p] = d],
               pipe' = [pipe EXCEPT ![d][p] = "connected"]
        PROVE  TypeInv'
    <2>1. /\ handle' \in [Sessions -> [Pipes -> Sessions \cup {Nobody}]]
          /\ pipe' \in [Sessions -> [Pipes -> PipeStates]]
      BY <1>3 DEF TypeInv, TypeOK, PipeStates
    <2>2. /\ \A b \in Sessions : \A q \in Pipes :
               handle'[b][q] = IF b = c /\ q = p THEN d ELSE handle[b][q]
          /\ \A e \in Sessions : \A q \in Pipes :
               pipe'[e][q] = IF e = d /\ q = p THEN "connected" ELSE pipe[e][q]
      BY <1>3 DEF TypeInv, TypeOK
    <2>3. \A b \in Sessions : handle[b][p] # d
      BY <1>3, NobodyAssumption DEF TypeInv, LinksInv, OpenedOnce
    <2>4. OpenedOnce'
      <3> SUFFICES ASSUME NEW b \in Sessions, NEW q \in Pipes, handle'[b][q] # Nobody
                   PROVE  pipe'[handle'[b][q]][q] \in {"connected", "left", "closed"}
        BY DEF OpenedOnce
      <3>1. CASE b = c /\ q = p
        BY <2>2, <3>1
      <3>2. CASE ~(b = c /\ q = p)
        <4>1. handle'[b][q] = handle[b][q] /\ handle[b][q] \in Sessions
          BY <2>2, <3>2 DEF TypeInv, TypeOK
        <4>2. pipe[handle[b][q]][q] \in {"connected", "left", "closed"}
          BY <4>1, NobodyAssumption DEF TypeInv, LinksInv, OpenedOnce
        <4>. QED BY <2>2, <4>1, <4>2
      <3>. QED BY <3>1, <3>2
    <2>6. OneClient'
      <3> SUFFICES ASSUME NEW b \in Sessions, NEW e \in Sessions, NEW q \in Pipes,
                          Talks(b, q)', handle'[b][q] = handle'[e][q], b # e
                   PROVE  FALSE
        BY DEF OneClient
      <3>1. handle'[b][q] \in Sessions /\ pipe'[handle'[b][q]][q] = "connected"
        BY <2>1 DEF Talks
      <3>2. CASE q = p /\ (b = c \/ e = c)
        BY <2>2, <2>3, <3>2
      <3>3. CASE ~(q = p /\ (b = c \/ e = c))
        <4>1. handle[b][q] = handle'[b][q] /\ handle[e][q] = handle'[b][q]
          BY <2>2, <3>3
        <4>2. ~(handle'[b][q] = d /\ q = p)
          BY <2>3, <4>1
        <4>3. pipe[handle[b][q]][q] = "connected"
          BY <2>2, <3>1, <4>1, <4>2
        <4>. QED BY <3>1, <4>1, <4>3, NobodyAssumption DEF TypeInv, LinksInv, OneClient, Talks
      <3>. QED BY <3>2, <3>3
    <2>5. MadeOnce'
      BY <1>1, <1>3, <2>2 DEF TypeInv, LinksInv, MadeOnce, Pipes
    <2>. QED BY <1>1, <2>1, <2>4, <2>5, <2>6 DEF TypeInv, TypeOK, LinksInv
  <1>. QED BY <1>2, <1>3, OpenPipeOpens

LEMMA TypeDll ==
  ASSUME TypeInv, NEW c \in Sessions, DllStep(c)
  PROVE  TypeInv'
  <1>1. CASE OpenPipe(c, "down", "openDown", "openUp") \/ OpenPipe(c, "up", "openUp", "askPath")
    BY <1>1, TypeOpen DEF Pipes, DllStates
  <1>2. ASSUME NEW from, NEW m \in {"path", "mode", "log"}, Write(c, from, m) \/ WriteFails(c, from, m)
        PROVE  TypeInv'
    <2>1. AfterWrite[m] \in DllStates
      BY AfterWriteType DEF DllStates
    <2>2. /\ rpc' \in [Sessions -> DllStates]
          /\ request' \in [Sessions -> Questions \cup {"log", Nobody}]
          /\ UNCHANGED <<dpc, loop, pipe, replying, handle, got, resumed, overlap>>
      BY <1>2, <2>1 DEF Write, WriteFails, TypeInv, TypeOK, Questions
    <2>3. LinksInv'
      BY <2>2, LinksKept DEF TypeInv
    <2>. QED BY <2>2, <2>3 DEF TypeInv, TypeOK, LinksInv
  <1>3. ASSUME NEW k \in Questions, NEW from, NEW to \in {"askMode", "log"},
               ReadAnswer(c, k, from, to) \/ ReadFails(c, k, from, to)
        PROVE  TypeInv'
    <2>1. /\ rpc' \in [Sessions -> DllStates]
          /\ UNCHANGED <<dpc, pipe, replying, handle, request, resumed, overlap>>
      BY <1>3 DEF ReadAnswer, ReadFails, TypeInv, TypeOK, DllStates
    <2>2. loop' \in [Sessions -> LoopStates]
      BY <1>3 DEF ReadAnswer, ReadFails, TypeInv, TypeOK, LoopStates
    <2>3. PICK v \in Sessions \cup {Nobody, "garbage"} : got' = [got EXCEPT ![c][k] = v]
      <3>1. handle[c]["down"] \in Sessions \cup {Nobody}
        BY DEF TypeInv, TypeOK, Pipes
      <3>. QED BY <1>3, <3>1 DEF ReadAnswer, ReadFails
    <2>4. got' \in [Sessions -> [Questions -> Sessions \cup {Nobody, "garbage"}]]
      BY <2>3 DEF TypeInv, TypeOK
    <2>5. LinksInv'
      BY <2>1, LinksKept DEF TypeInv
    <2>. QED BY <2>1, <2>2, <2>4, <2>5 DEF TypeInv, TypeOK, LinksInv
  <1>. QED BY <1>1, <1>2, <1>3 DEF DllStep, Questions

LEMMA TypeTargetEnds ==
  ASSUME TypeInv, NEW c \in Sessions, TargetEnds(c)
  PROVE  TypeInv'
  <1>1. /\ rpc' \in [Sessions -> DllStates]
        /\ request' \in [Sessions -> Questions \cup {"log", Nobody}]
        /\ UNCHANGED <<dpc, loop, replying, got, resumed, overlap>>
    BY DEF TargetEnds, TypeInv, TypeOK, DllStates
  <1>2. /\ pipe' \in [Sessions -> [Pipes -> PipeStates]]
        /\ \A d \in Sessions : \A p \in Pipes :
             pipe'[d][p] = IF handle[c][p] = d /\ pipe[d][p] = "connected" THEN "left" ELSE pipe[d][p]
    BY DEF TargetEnds, TypeInv, TypeOK, PipeStates
  <1>3. /\ handle' \in [Sessions -> [Pipes -> Sessions \cup {Nobody}]]
        /\ \A b \in Sessions : \A p \in Pipes :
             handle'[b][p] = IF b = c THEN Nobody ELSE handle[b][p]
    BY DEF TargetEnds, TypeInv, TypeOK
  <1>4. OneClient' /\ OpenedOnce'
    BY <1>2, <1>3, ClientsKept DEF TypeInv
  <1>5. MadeOnce'
    BY <1>1, <1>2 DEF TypeInv, LinksInv, MadeOnce, Pipes
  <1>. QED BY <1>1, <1>2, <1>3, <1>4, <1>5 DEF TypeInv, TypeOK, LinksInv

LEMMA TypeInvariant == Spec => []TypeInv
  <1>1. TypeInv /\ [Next]_vars => TypeInv'
    <2> SUFFICES ASSUME TypeInv, [Next]_vars PROVE TypeInv'
      OBVIOUS
    <2>1. CASE UNCHANGED vars
      BY <2>1 DEF vars, TypeInv, TypeOK, LinksInv, OneClient, OpenedOnce, MadeOnce, Talks
    <2>. QED
      BY <2>1, TypeCreate, TypeMain, TypeEnds, GiveUpEnds, TypeLoop, TypeDll, TypeTargetEnds
         DEF Next, MainStep, ExitTarget, KillTarget
  <1>. QED BY <1>1, TypeInit, PTL DEF Spec

(* Type correctness, one client per pipe included, for any number of       *)
(* dumpers, DLLs and crashes.                                              *)
THEOREM TypeCorrect == Spec => []TypeOK
  <1>1. TypeInv => TypeOK
    BY DEF TypeInv
  <1>. QED BY <1>1, TypeInvariant, PTL

-----------------------------------------------------------------------------
(* The order in which things are done within a session                     *)

BeforeLaunch == {"start", "madeDown", "made"}
BeforeLoop == BeforeLaunch \cup {"connectDown", "connectUp", "spawn"}
FirstPhase == {"openUp", "askPath", "getPath"}
SecondPhase == {"askMode", "getMode"}
LastPhase == {"log", "run"}

DumperOrder ==
  \A d \in Sessions :
    /\ dpc[d] \in BeforeLaunch => rpc[d] = "none"
    /\ dpc[d] \in BeforeLoop => loop[d] = "none"
    /\ dpc[d] \in {"connectUp", "spawn"} \/ loop[d] \in {"read", "reply"} =>
         pipe[d]["down"] # "listening"
    /\ dpc[d] = "spawn" \/ loop[d] \in {"read", "reply"} => pipe[d]["up"] # "listening"

AskedWith == [path |-> "askPath", mode |-> "askMode", log |-> "log"]

DllOrder ==
  \A c \in Sessions :
    /\ rpc[c] \in {"none", "openDown", "gone"} => handle[c]["down"] = Nobody
    /\ rpc[c] \in {"none", "openDown", "openUp", "gone"} => handle[c]["up"] = Nobody
    /\ request[c] # Nobody => rpc[c] = AskedWith[request[c]]

OrderInv == DumperOrder /\ DllOrder

LEMMA OrderInit == Init => OrderInv
  BY NobodyAssumption DEF Init, OrderInv, DumperOrder, DllOrder, BeforeLaunch, BeforeLoop,
     SecondPhase, Pipes

(* What an early step of main leaves of it.                                *)
LEMMA OrderCreate ==
  ASSUME TypeInv, OrderInv, NEW d \in Sessions, CreateDown(d) \/ CreateUp(d)
  PROVE  OrderInv'
  <1>1. PICK p \in Pipes :
          /\ CreatePipe(d, p)
          /\ dpc[d] \in BeforeLaunch
          /\ \E to \in {"madeDown", "made"} : dpc' = [dpc EXCEPT ![d] = to]
    BY DEF CreateDown, CreateUp, MainGoes, Pipes, BeforeLaunch
  <1>2. PICK s \in {"invalid", "listening"} : pipe' = [pipe EXCEPT ![d][p] = s]
    BY <1>1, CreatePipeMakes
  <1>3. UNCHANGED <<loop, replying, rpc, handle, request, got, resumed>>
    BY <1>1, CreatePipeMakes
  <1>4. \A e \in Sessions \ {d} : dpc'[e] = dpc[e] /\ pipe'[e] = pipe[e]
    BY <1>1, <1>2 DEF TypeInv, TypeOK
  <1>5. rpc[d] = "none" /\ loop[d] = "none" /\ dpc'[d] \in {"madeDown", "made"}
    BY <1>1 DEF TypeInv, TypeOK, OrderInv, DumperOrder, BeforeLaunch, BeforeLoop
  <1>6. DumperOrder'
    BY <1>3, <1>4, <1>5 DEF OrderInv, DumperOrder
  <1>7. DllOrder'
    BY <1>3 DEF OrderInv, DllOrder
  <1>. QED BY <1>6, <1>7 DEF OrderInv

LEMMA OrderMain ==
  ASSUME TypeInv, OrderInv, NEW d \in Sessions,
         LaunchTarget(d) \/ WaitForConnection(d) \/ SpawnLoop(d) \/ ResumeTarget(d)
  PROVE  OrderInv'
  <1> USE DEF TypeInv, TypeOK, OrderInv, DumperOrder, DllOrder, MainGoes, BeforeLaunch,
          BeforeLoop, SecondPhase
  <1>1. CASE LaunchTarget(d)
    <2>1. rpc[d] = "none"
      BY <1>1 DEF LaunchTarget
    <2>2. DumperOrder'
      BY <1>1, <2>1 DEF LaunchTarget
    <2>3. DllOrder'
      BY <1>1, <2>1, NobodyAssumption DEF LaunchTarget, AskedWith, Questions
    <2>. QED BY <2>2, <2>3
  <1>2. CASE WaitForConnection(d)
    BY <1>2 DEF WaitForConnection, Connects
  <1>3. CASE SpawnLoop(d)
    BY <1>3 DEF SpawnLoop
  <1>4. CASE ResumeTarget(d)
    BY <1>4 DEF ResumeTarget
  <1>. QED BY <1>1, <1>2, <1>3, <1>4

LEMMA OrderEnds ==
  ASSUME TypeInv, OrderInv, NEW d \in Sessions, WaitLoop(d) \/ KillDumper(d)
  PROVE  OrderInv'
  <1>1. PICK how \in {"ended", "killed"} : DumperEnds(d, how)
    BY DEF WaitLoop, KillDumper
  <1>2. DumperOrder'
    BY <1>1 DEF DumperEnds, TypeInv, TypeOK, OrderInv, DumperOrder, BeforeLaunch, BeforeLoop, Made
  <1>3. DllOrder'
    BY <1>1 DEF DumperEnds, OrderInv, DllOrder
  <1>. QED BY <1>2, <1>3 DEF OrderInv

LEMMA OrderLoop ==
  ASSUME TypeInv, OrderInv, NEW d \in Sessions, LoopStep(d)
  PROVE  OrderInv'
  <1>1. /\ UNCHANGED <<dpc, pipe, handle, got>>
        /\ \A e \in Sessions : \/ loop'[e] = loop[e]
                               \/ loop[e] \in {"read", "reply"} /\ loop'[e] # "none"
    BY DEF LoopStep, LoopEnds, LoopServes, ReplyFails, TypeInv, TypeOK
  <1>2. \/ UNCHANGED <<rpc, request>>
        \/ \E c \in Sessions : /\ request[c] # Nobody
                               /\ request' = [request EXCEPT ![c] = Nobody]
                               /\ rpc' = [rpc EXCEPT ![c] = AfterWrite[request[c]]]
    BY DEF LoopStep, LoopEnds, LoopServes, ReplyFails
  <1>3. CASE UNCHANGED <<rpc, request>>
    BY <1>1, <1>3 DEF TypeInv, TypeOK, OrderInv, DumperOrder, DllOrder, BeforeLoop, BeforeLaunch
  <1>4. ASSUME NEW c \in Sessions, request[c] # Nobody,
               request' = [request EXCEPT ![c] = Nobody],
               rpc' = [rpc EXCEPT ![c] = AfterWrite[request[c]]]
        PROVE  OrderInv'
    <2>1. request[c] \in {"path", "mode", "log"}
      BY <1>4 DEF TypeInv, TypeOK, Questions
    <2>2. /\ rpc[c] \in {"askPath", "askMode", "log"}
          /\ rpc'[c] \in {"getPath", "getMode", "run"}
      BY <1>4, <2>1 DEF OrderInv, DllOrder, AskedWith, AfterWrite, TypeInv, TypeOK
    <2>3. \A b \in Sessions \ {c} : rpc'[b] = rpc[b] /\ request'[b] = request[b]
      BY <1>4 DEF TypeInv, TypeOK
    <2>4. request'[c] = Nobody
      BY <1>4 DEF TypeInv, TypeOK
    <2>5. DumperOrder'
      BY <1>1, <2>2, <2>3 DEF TypeInv, TypeOK, OrderInv, DumperOrder, BeforeLoop, BeforeLaunch
    <2>6. DllOrder'
      BY <1>1, <2>2, <2>3, <2>4 DEF OrderInv, DllOrder, SecondPhase
    <2>. QED BY <2>5, <2>6 DEF OrderInv
  <1>. QED BY <1>2, <1>3, <1>4

LEMMA OrderOpen ==
  ASSUME TypeInv, OrderInv, NEW c \in Sessions,
         \/ OpenPipe(c, "down", "openDown", "openUp")
         \/ OpenPipe(c, "up", "openUp", "askPath")
  PROVE  OrderInv'
  <1>1. PICK p \in Pipes, from \in DllStates, to \in DllStates :
          /\ <<p, from, to>> \in {<<"down", "openDown", "openUp">>, <<"up", "openUp", "askPath">>}
          /\ OpenPipe(c, p, from, to)
    BY DEF Pipes, DllStates
  <1>2. /\ rpc[c] = from /\ rpc' = [rpc EXCEPT ![c] = to]
        /\ UNCHANGED <<dpc, loop, replying, request, got, resumed, overlap>>
    BY <1>1 DEF OpenPipe
  <1>3. /\ \A b \in Sessions : \A q \in Pipes :
             handle'[b][q] = handle[b][q] \/ (b = c /\ q = p)
        /\ \A e \in Sessions : \A q \in Pipes : pipe'[e][q] \in {pipe[e][q], "connected"}
    <2>1. CASE handle' = [handle EXCEPT ![c][p] = Nobody] /\ UNCHANGED pipe
      BY <2>1 DEF TypeInv, TypeOK
    <2>2. ASSUME NEW d \in Sessions,
                 handle' = [handle EXCEPT ![c][p] = d],
                 pipe' = [pipe EXCEPT ![d][p] = "connected"]
          PROVE  /\ \A b \in Sessions : \A q \in Pipes :
                      handle'[b][q] = handle[b][q] \/ (b = c /\ q = p)
                 /\ \A e \in Sessions : \A q \in Pipes : pipe'[e][q] \in {pipe[e][q], "connected"}
      BY <2>2 DEF TypeInv, TypeOK
    <2>. QED BY <1>1, <2>1, <2>2, OpenPipeOpens
  <1>4. DumperOrder'
    BY <1>1, <1>2, <1>3 DEF TypeInv, TypeOK, OrderInv, DumperOrder, BeforeLaunch, Pipes
  <1>5. DllOrder'
    <2>1. request[c] = Nobody
      <3>1. request[c] \in {"path", "mode", "log", Nobody}
        BY DEF TypeInv, TypeOK, Questions
      <3>. QED BY <1>1, <1>2, <3>1 DEF OrderInv, DllOrder, AskedWith
    <2>. QED BY <1>1, <1>2, <1>3, <2>1 DEF TypeInv, TypeOK, OrderInv, DllOrder, SecondPhase, Pipes
  <1>. QED BY <1>4, <1>5 DEF OrderInv

LEMMA OrderDll ==
  ASSUME TypeInv, OrderInv, NEW c \in Sessions, DllStep(c)
  PROVE  OrderInv'
  <1>1. CASE OpenPipe(c, "down", "openDown", "openUp") \/ OpenPipe(c, "up", "openUp", "askPath")
    BY <1>1, OrderOpen
  <1>2. ASSUME NEW m \in {<<"askPath", "path">>, <<"askMode", "mode">>, <<"log", "log">>},
               Write(c, m[1], m[2]) \/ WriteFails(c, m[1], m[2])
        PROVE  OrderInv'
    <2>1. /\ rpc[c] = AskedWith[m[2]] /\ rpc[c] \in {"askPath", "askMode", "log"}
          /\ UNCHANGED <<dpc, loop, pipe, handle, got>>
      BY <1>2 DEF Write, WriteFails, AskedWith
    <2>2. CASE Write(c, m[1], m[2])
      BY <2>1, <2>2 DEF Write, TypeInv, TypeOK, OrderInv, DumperOrder, DllOrder
    <2>3. CASE WriteFails(c, m[1], m[2])
      <3>1. /\ rpc' = [rpc EXCEPT ![c] = AfterWrite[m[2]]]
            /\ request' = [request EXCEPT ![c] = Nobody]
        BY <2>3 DEF WriteFails
      <3>2. /\ AfterWrite[m[2]] \in {"getPath", "getMode", "run"}
        BY <2>1 DEF AskedWith, AfterWrite
      <3>3. /\ rpc'[c] \in {"getPath", "getMode", "run"} /\ request'[c] = Nobody
              /\ \A b \in Sessions \ {c} : rpc'[b] = rpc[b] /\ request'[b] = request[b]
        BY <3>1, <3>2 DEF TypeInv, TypeOK
      <3>4. DumperOrder'
        BY <2>1, <3>3 DEF OrderInv, DumperOrder
      <3>5. DllOrder'
        BY <2>1, <3>3 DEF OrderInv, DllOrder, SecondPhase
      <3>. QED BY <3>4, <3>5 DEF OrderInv
    <2>. QED BY <1>2, <2>2, <2>3
  <1>3. ASSUME NEW m \in {<<"path", "getPath", "askMode">>, <<"mode", "getMode", "log">>},
               ReadAnswer(c, m[1], m[2], m[3]) \/ ReadFails(c, m[1], m[2], m[3])
        PROVE  OrderInv'
    <2>1. /\ rpc[c] \in {"getPath", "getMode"} /\ rpc'[c] \in {"askMode", "log"}
          /\ \A b \in Sessions \ {c} : rpc'[b] = rpc[b]
          /\ UNCHANGED <<dpc, pipe, handle, request>>
      BY <1>3 DEF ReadAnswer, ReadFails, TypeInv, TypeOK
    <2>2. \A e \in Sessions : loop'[e] = loop[e] \/ (loop[e] = "reply" /\ loop'[e] = "read")
      BY <1>3 DEF ReadAnswer, ReadFails, TypeInv, TypeOK
    <2>3. request[c] = Nobody
      <3>1. request[c] \in {"path", "mode", "log", Nobody}
        BY DEF TypeInv, TypeOK, Questions
      <3>. QED BY <2>1, <3>1 DEF OrderInv, DllOrder, AskedWith
    <2>4. DumperOrder'
      BY <2>1, <2>2 DEF OrderInv, DumperOrder, BeforeLaunch, BeforeLoop
    <2>5. DllOrder'
      BY <2>1, <2>3 DEF OrderInv, DllOrder
    <2>. QED BY <2>4, <2>5 DEF OrderInv
  <1>. QED BY <1>1, <1>2, <1>3 DEF DllStep

LEMMA OrderTargetEnds ==
  ASSUME TypeInv, OrderInv, NEW c \in Sessions, TargetEnds(c), rpc[c] \notin {"none", "gone"}
  PROVE  OrderInv'
  <1>1. /\ rpc'[c] = "gone" /\ request'[c] = Nobody
        /\ \A p \in Pipes : handle'[c][p] = Nobody
        /\ \A b \in Sessions \ {c} :
             rpc'[b] = rpc[b] /\ request'[b] = request[b] /\ handle'[b] = handle[b]
        /\ \A e \in Sessions : \A p \in Pipes : pipe'[e][p] \in {pipe[e][p], "left"}
        /\ UNCHANGED <<dpc, loop, got>>
    BY DEF TargetEnds, TypeInv, TypeOK
  <1>2. DumperOrder'
    BY <1>1 DEF OrderInv, DumperOrder, Pipes, BeforeLaunch
  <1>3. DllOrder'
    BY <1>1 DEF OrderInv, DllOrder, SecondPhase, Pipes
  <1>. QED BY <1>2, <1>3 DEF OrderInv

LEMMA OrderInvariant == Spec => [](TypeInv /\ OrderInv)
  <1>1. TypeInv /\ OrderInv /\ [Next]_vars => OrderInv'
    <2> SUFFICES ASSUME TypeInv, OrderInv, [Next]_vars PROVE OrderInv'
      OBVIOUS
    <2>1. CASE UNCHANGED vars
      BY <2>1 DEF vars, OrderInv, DumperOrder, DllOrder
    <2>2. ASSUME NEW c \in Sessions, ExitTarget(c) PROVE OrderInv'
      BY <2>2, OrderTargetEnds DEF ExitTarget
    <2>. QED
      BY <2>1, <2>2, OrderCreate, OrderMain, OrderEnds, GiveUpEnds, OrderLoop, OrderDll, OrderTargetEnds
         DEF Next, MainStep, KillTarget
  <1>. QED BY <1>1, OrderInit, TypeInvariant, PTL DEF Spec

-----------------------------------------------------------------------------
(* Answers in step                                                         *)

Asker(e, d) == Talks(e, "up") /\ handle[e]["up"] = d
Reader(c, d) == Talks(c, "down") /\ handle[c]["down"] = d

AskerPhase ==
  \A d, e \in Sessions : Asker(e, d) =>
    /\ loop[d] = "none" => rpc[e] = "askPath"
    /\ loop[d] = "reply" =>
         \/ replying[d] = "path" /\ rpc[e] \in {"getPath", "askMode"}
         \/ replying[d] = "mode" /\ rpc[e] \in {"getMode", "log"}

ReaderPhase ==
  \A d, c \in Sessions : Reader(c, d) =>
    /\ loop[d] = "none" => rpc[c] \in FirstPhase
    /\ loop[d] = "reply" =>
         \/ replying[d] = "path" /\ rpc[c] \in FirstPhase
         \/ replying[d] = "mode" /\ rpc[c] \in SecondPhase

TogetherPhase ==
  \A d, c, e \in Sessions : loop[d] = "read" /\ Reader(c, d) /\ Asker(e, d) =>
    /\ rpc[e] = "askPath" => rpc[c] \in FirstPhase
    /\ rpc[e] \in {"getPath", "askMode"} => rpc[c] \in SecondPhase
    /\ rpc[e] \in {"getMode", "log", "run"} => rpc[c] \in LastPhase

StepInv == AskerPhase /\ ReaderPhase /\ TogetherPhase

LEMMA StepInit == Init => StepInv
  BY DEF Init, StepInv, AskerPhase, ReaderPhase, TogetherPhase, Asker, Reader, Talks, Pipes

LEMMA OneAskerOneReader ==
  ASSUME TypeInv, NEW d \in Sessions, NEW b \in Sessions, NEW c \in Sessions
  PROVE  /\ Asker(b, d) /\ Asker(c, d) => b = c
         /\ Reader(b, d) /\ Reader(c, d) => b = c
  BY DEF TypeInv, LinksInv, OneClient, Asker, Reader, Pipes

(* Steps that open no pipe make nobody an asker or a reader.               *)
LEMMA PartiesKept ==
  ASSUME \A c \in Sessions : \A p \in Pipes : handle'[c][p] \in {handle[c][p], Nobody},
         \A d \in Sessions : \A p \in Pipes : pipe'[d][p] = "connected" => pipe[d][p] = "connected"
  PROVE  \A c, d \in Sessions :
           /\ Asker(c, d)' => Asker(c, d)
           /\ Reader(c, d)' => Reader(c, d)
  BY DEF Asker, Reader, Talks, Pipes

(* Steps that move no asker and no reader, whatever else they do: a loop   *)
(* begins, ends, or gives up an answer that has no reader.                 *)
LEMMA StepKept ==
  ASSUME StepInv, UNCHANGED replying,
         \A c, d \in Sessions :
           /\ Asker(c, d)' => Asker(c, d) /\ rpc'[c] = rpc[c]
           /\ Reader(c, d)' => Reader(c, d) /\ rpc'[c] = rpc[c],
         \A d \in Sessions :
           \/ loop'[d] \in {loop[d], "done"}
           \/ loop[d] = "none" /\ loop'[d] = "read"
           \/ loop[d] = "reply" /\ loop'[d] = "read" /\ \A c \in Sessions : ~Reader(c, d)
  PROVE  StepInv'
  <1>1. AskerPhase'
    BY DEF StepInv, AskerPhase
  <1>2. ReaderPhase'
    BY DEF StepInv, ReaderPhase
  <1>3. TogetherPhase'
    <2> SUFFICES ASSUME NEW d \in Sessions, NEW c \in Sessions, NEW e \in Sessions,
                        loop'[d] = "read", Reader(c, d)', Asker(e, d)'
                 PROVE  /\ rpc'[e] = "askPath" => rpc'[c] \in FirstPhase
                        /\ rpc'[e] \in {"getPath", "askMode"} => rpc'[c] \in SecondPhase
                        /\ rpc'[e] \in {"getMode", "log", "run"} => rpc'[c] \in LastPhase
      BY DEF TogetherPhase
    <2>1. /\ Reader(c, d) /\ Asker(e, d) /\ rpc'[e] = rpc[e] /\ rpc'[c] = rpc[c]
          /\ loop[d] \in {"read", "none"}
      OBVIOUS
    <2>2. CASE loop[d] = "read"
      BY <2>1, <2>2 DEF StepInv, TogetherPhase
    <2>3. CASE loop[d] = "none"
      BY <2>1, <2>3 DEF StepInv, AskerPhase, ReaderPhase
    <2>. QED BY <2>1, <2>2, <2>3
  <1>. QED BY <1>1, <1>2, <1>3 DEF StepInv

LEMMA StepCreate ==
  ASSUME TypeInv, StepInv, NEW d \in Sessions, CreateDown(d) \/ CreateUp(d)
  PROVE  StepInv'
  <1>1. PICK p \in Pipes : CreatePipe(d, p)
    BY DEF CreateDown, CreateUp, Pipes
  <1>2. PICK s \in {"invalid", "listening"} : pipe' = [pipe EXCEPT ![d][p] = s]
    BY <1>1, CreatePipeMakes
  <1>3. UNCHANGED <<loop, replying, rpc, handle, request, got, resumed>>
    BY <1>1, CreatePipeMakes
  <1>4. \A e \in Sessions : \A q \in Pipes : pipe'[e][q] = "connected" => pipe[e][q] = "connected"
    BY <1>2 DEF TypeInv, TypeOK
  <1>. QED BY <1>3, <1>4, PartiesKept, StepKept

LEMMA StepMain ==
  ASSUME TypeInv, OrderInv, StepInv, NEW d \in Sessions,
         LaunchTarget(d) \/ WaitForConnection(d) \/ SpawnLoop(d) \/ ResumeTarget(d)
  PROVE  StepInv'
  <1>1. UNCHANGED <<pipe, handle, replying>>
    BY DEF LaunchTarget, WaitForConnection, SpawnLoop, ResumeTarget
  <1>2. \A c \in Sessions :
          rpc'[c] = rpc[c] \/ (handle[c]["down"] = Nobody /\ handle[c]["up"] = Nobody)
    BY DEF LaunchTarget, WaitForConnection, SpawnLoop, ResumeTarget, TypeInv, TypeOK,
       OrderInv, DumperOrder, DllOrder, MainGoes, BeforeLaunch
  <1>3. \A e \in Sessions : loop'[e] = loop[e] \/ (loop[e] = "none" /\ loop'[e] = "read")
    BY DEF LaunchTarget, WaitForConnection, SpawnLoop, ResumeTarget, TypeInv, TypeOK,
       OrderInv, DumperOrder, MainGoes, BeforeLoop
  <1>4. \A c, e \in Sessions :
          /\ Asker(c, e)' => Asker(c, e) /\ rpc'[c] = rpc[c]
          /\ Reader(c, e)' => Reader(c, e) /\ rpc'[c] = rpc[c]
    BY <1>1, <1>2 DEF Asker, Reader, Talks
  <1>. QED BY <1>1, <1>3, <1>4, StepKept

LEMMA StepEnds ==
  ASSUME TypeInv, StepInv, NEW d \in Sessions, WaitLoop(d) \/ KillDumper(d)
  PROVE  StepInv'
  <1>1. PICK how \in {"ended", "killed"} : DumperEnds(d, how)
    BY DEF WaitLoop, KillDumper
  <1>2. UNCHANGED <<handle, rpc, replying>>
    BY <1>1 DEF DumperEnds
  <1>3. \A e \in Sessions : loop'[e] \in {loop[e], "done"}
    BY <1>1 DEF DumperEnds, TypeInv, TypeOK
  <1>4. \A e \in Sessions : \A q \in Pipes : pipe'[e][q] = "connected" => pipe[e][q] = "connected"
    BY <1>1 DEF DumperEnds, TypeInv, TypeOK
  <1>. QED BY <1>2, <1>3, <1>4, PartiesKept, StepKept

LEMMA StepTargetEnds ==
  ASSUME TypeInv, StepInv, NEW c \in Sessions, TargetEnds(c)
  PROVE  StepInv'
  <1>1. UNCHANGED <<loop, replying>>
    BY DEF TargetEnds
  <1>2. /\ \A p \in Pipes : handle'[c][p] = Nobody
        /\ \A b \in Sessions \ {c} : rpc'[b] = rpc[b] /\ handle'[b] = handle[b]
    BY DEF TargetEnds, TypeInv, TypeOK
  <1>3. \A e \in Sessions : \A q \in Pipes : pipe'[e][q] = "connected" => pipe[e][q] = "connected"
    BY DEF TargetEnds
  <1>4. \A b, e \in Sessions :
          /\ Asker(b, e)' => Asker(b, e) /\ b # c
          /\ Reader(b, e)' => Reader(b, e) /\ b # c
    BY <1>2, <1>3 DEF Asker, Reader, Talks, Pipes
  <1>. QED BY <1>1, <1>2, <1>4, StepKept

(* The loop takes a question from its asker: the reader, if it has one, is *)
(* in the phase of the question.                                           *)
LEMMA StepServes ==
  ASSUME TypeInv, OrderInv, StepInv, NEW d \in Sessions, NEW c \in Sessions, LoopServes(d, c)
  PROVE  StepInv'
  <1>1. /\ loop[d] = "read" /\ Asker(c, d)
        /\ UNCHANGED <<pipe, handle>>
        /\ \A b, e \in Sessions : /\ Asker(b, e)' <=> Asker(b, e)
                                  /\ Reader(b, e)' <=> Reader(b, e)
    BY DEF LoopServes, Asker, Reader, Talks
  <1>2. request[c] \in {"path", "mode", "log"}
    BY DEF LoopServes, TypeInv, TypeOK, Questions
  <1>3. /\ \A b \in Sessions \ {c} : rpc'[b] = rpc[b]
        /\ \A e \in Sessions \ {d} : loop'[e] = loop[e] /\ replying'[e] = replying[e]
    BY DEF LoopServes, TypeInv, TypeOK
  <1>4. /\ request[c] = "path" => rpc[c] = "askPath" /\ rpc'[c] = "getPath"
        /\ request[c] = "mode" => rpc[c] = "askMode" /\ rpc'[c] = "getMode"
        /\ request[c] = "log" => rpc[c] = "log" /\ rpc'[c] = "run"
    BY <1>2 DEF LoopServes, AfterWrite, AskedWith, OrderInv, DllOrder, TypeInv, TypeOK
  <1>5. \/ loop'[d] = "reply" /\ replying'[d] = request[c] /\ request[c] \in {"path", "mode"}
        \/ /\ loop'[d] = "read" /\ replying'[d] = replying[d]
           /\ request[c] = "log" \/ \A b \in Sessions : ~Reader(b, d)
    BY <1>1, <1>2 DEF LoopServes, TypeInv, TypeOK, Questions, Reader, Talks
  <1>6. AskerPhase'
    <2> SUFFICES ASSUME NEW g \in Sessions, NEW e \in Sessions, Asker(e, g)
                 PROVE  /\ loop'[g] = "none" => rpc'[e] = "askPath"
                        /\ loop'[g] = "reply" =>
                             \/ replying'[g] = "path" /\ rpc'[e] \in {"getPath", "askMode"}
                             \/ replying'[g] = "mode" /\ rpc'[e] \in {"getMode", "log"}
      BY <1>1 DEF AskerPhase
    <2>1. CASE g = d
      <3>1. e = c
        BY <1>1, <2>1, OneAskerOneReader
      <3>. QED BY <1>4, <1>5, <2>1, <3>1
    <2>2. CASE g # d
      <3>1. e # c
        BY <1>1, <2>2 DEF Asker
      <3>. QED BY <1>3, <2>2, <3>1 DEF StepInv, AskerPhase
    <2>. QED BY <2>1, <2>2
  <1>7. ReaderPhase'
    <2> SUFFICES ASSUME NEW g \in Sessions, NEW b \in Sessions, Reader(b, g)
                 PROVE  /\ loop'[g] = "none" => rpc'[b] \in FirstPhase
                        /\ loop'[g] = "reply" =>
                             \/ replying'[g] = "path" /\ rpc'[b] \in FirstPhase
                             \/ replying'[g] = "mode" /\ rpc'[b] \in SecondPhase
      BY <1>1 DEF ReaderPhase
    <2>0. /\ rpc[b] \in FirstPhase => rpc'[b] \in FirstPhase
          /\ rpc[b] \in SecondPhase => rpc'[b] \in SecondPhase
          /\ rpc[b] \in LastPhase => rpc'[b] \in LastPhase
      BY <1>2, <1>3, <1>4 DEF FirstPhase, SecondPhase, LastPhase
    <2>1. CASE g = d
      <3>1. /\ rpc[c] = "askPath" => rpc[b] \in FirstPhase
            /\ rpc[c] = "askMode" => rpc[b] \in SecondPhase
        BY <1>1, <2>1 DEF StepInv, TogetherPhase
      <3>. QED BY <1>4, <1>5, <2>0, <2>1, <3>1
    <2>2. CASE g # d
      BY <1>3, <2>0, <2>2 DEF StepInv, ReaderPhase
    <2>. QED BY <2>1, <2>2
  <1>8. TogetherPhase'
    <2> SUFFICES ASSUME NEW g \in Sessions, NEW b \in Sessions, NEW e \in Sessions,
                        loop'[g] = "read", Reader(b, g), Asker(e, g)
                 PROVE  /\ rpc'[e] = "askPath" => rpc'[b] \in FirstPhase
                        /\ rpc'[e] \in {"getPath", "askMode"} => rpc'[b] \in SecondPhase
                        /\ rpc'[e] \in {"getMode", "log", "run"} => rpc'[b] \in LastPhase
      BY <1>1 DEF TogetherPhase
    <2>0. /\ rpc[b] \in FirstPhase => rpc'[b] \in FirstPhase
          /\ rpc[b] \in SecondPhase => rpc'[b] \in SecondPhase
          /\ rpc[b] \in LastPhase => rpc'[b] \in LastPhase
      BY <1>2, <1>3, <1>4 DEF FirstPhase, SecondPhase, LastPhase
    <2>1. CASE g = d
      <3>1. e = c /\ request[c] = "log"
        BY <1>1, <1>5, <2>1, OneAskerOneReader
      <3>2. rpc[c] = "log" /\ rpc'[c] = "run"
        BY <1>4, <3>1
      <3>3. rpc[b] \in LastPhase
        BY <1>1, <2>1, <3>1, <3>2 DEF StepInv, TogetherPhase
      <3>. QED BY <2>0, <3>1, <3>2, <3>3
    <2>2. CASE g # d
      <3>1. e # c
        BY <1>1, <2>2 DEF Asker
      <3>. QED BY <1>3, <2>0, <2>2, <3>1 DEF StepInv, TogetherPhase
    <2>. QED BY <2>1, <2>2
  <1>. QED BY <1>6, <1>7, <1>8 DEF StepInv

LEMMA StepLoop ==
  ASSUME TypeInv, OrderInv, StepInv, NEW d \in Sessions, LoopStep(d)
  PROVE  StepInv'
  <1>1. CASE LoopEnds(d) \/ ReplyFails(d)
    <2>1. UNCHANGED <<pipe, handle, rpc, replying>>
      BY <1>1 DEF LoopEnds, ReplyFails
    <2>2. \A e \in Sessions :
            \/ loop'[e] \in {loop[e], "done"}
            \/ loop[e] = "reply" /\ loop'[e] = "read" /\ pipe[e]["down"] # "connected"
      BY <1>1 DEF LoopEnds, ReplyFails, TypeInv, TypeOK
    <2>3. \A e, c \in Sessions : pipe[e]["down"] # "connected" => ~Reader(c, e)
      BY DEF Reader, Talks
    <2>4. \A c, e \in Sessions : /\ Asker(c, e)' => Asker(c, e)
                                 /\ Reader(c, e)' => Reader(c, e)
      BY <2>1 DEF Asker, Reader, Talks
    <2>. QED BY <2>1, <2>2, <2>3, <2>4, StepKept
  <1>. QED BY <1>1, StepServes DEF LoopStep

(* Opening a pipe makes its opener a client of a pipe that listened.       *)
LEMMA OpenMakesParty ==
  ASSUME TypeInv, NEW c \in Sessions, NEW p \in Pipes, NEW from, NEW to, OpenPipe(c, p, from, to),
         NEW b \in Sessions, NEW q \in Pipes, NEW e \in Sessions,
         Talks(b, q)', handle'[b][q] = e
  PROVE  \/ Talks(b, q) /\ handle[b][q] = e
         \/ b = c /\ q = p /\ pipe[e][p] = "listening"
  <1>1. CASE handle' = [handle EXCEPT ![c][p] = Nobody] /\ UNCHANGED pipe
    BY <1>1, NobodyAssumption DEF TypeInv, TypeOK, Talks
  <1>2. ASSUME NEW d \in Sessions,
               pipe[d][p] = "listening",
               handle' = [handle EXCEPT ![c][p] = d],
               pipe' = [pipe EXCEPT ![d][p] = "connected"]
        PROVE  \/ Talks(b, q) /\ handle[b][q] = e
               \/ b = c /\ q = p /\ pipe[e][p] = "listening"
    <2>1. /\ handle'[b][q] = IF b = c /\ q = p THEN d ELSE handle[b][q]
          /\ pipe'[e][q] = IF e = d /\ q = p THEN "connected" ELSE pipe[e][q]
      BY <1>2 DEF TypeInv, TypeOK
    <2>2. handle[b][p] # d
      BY <1>2, NobodyAssumption DEF TypeInv, LinksInv, OpenedOnce
    <2>3. handle'[b][q] # Nobody /\ pipe'[e][q] = "connected"
      BY DEF Talks
    <2>4. CASE b = c /\ q = p
      BY <1>2, <2>1, <2>4
    <2>5. CASE ~(b = c /\ q = p)
      <3>1. handle[b][q] = e /\ e # Nobody
        BY <2>1, <2>3, <2>5
      <3>2. pipe[e][q] = "connected"
        BY <2>1, <2>2, <2>3, <3>1
      <3>. QED BY <3>1, <3>2 DEF Talks
    <2>. QED BY <2>4, <2>5
  <1>3. \/ handle' = [handle EXCEPT ![c][p] = Nobody] /\ UNCHANGED pipe
        \/ \E d \in Sessions :
             /\ pipe[d][p] = "listening"
             /\ handle' = [handle EXCEPT ![c][p] = d]
             /\ pipe' = [pipe EXCEPT ![d][p] = "connected"]
    BY OpenPipeOpens
  <1>. QED BY <1>1, <1>2, <1>3

(* A pipe that is opened still listens, so the loop at its other end has   *)
(* not begun.                                                              *)
LEMMA StepOpen ==
  ASSUME TypeInv, OrderInv, StepInv, NEW c \in Sessions,
         \/ OpenPipe(c, "down", "openDown", "openUp")
         \/ OpenPipe(c, "up", "openUp", "askPath")
  PROVE  StepInv'
  <1>1. PICK p \in Pipes, from \in DllStates, to \in DllStates :
          /\ \/ p = "down" /\ from = "openDown" /\ to = "openUp"
             \/ p = "up" /\ from = "openUp" /\ to = "askPath"
          /\ OpenPipe(c, p, from, to)
    BY DEF Pipes, DllStates
  <1>2. /\ rpc[c] = from /\ rpc'[c] = to /\ to \in FirstPhase
        /\ \A b \in Sessions \ {c} : rpc'[b] = rpc[b]
        /\ UNCHANGED <<loop, replying>>
    BY <1>1 DEF OpenPipe, TypeInv, TypeOK, FirstPhase
  <1>3. \A e \in Sessions : /\ ~Asker(c, e)
                            /\ Reader(c, e) => rpc[c] \in FirstPhase
    BY <1>1, <1>2 DEF Asker, Reader, Talks, OrderInv, DllOrder, FirstPhase
  <1>4. ASSUME NEW b \in Sessions, NEW e \in Sessions, Asker(b, e)'
        PROVE  \/ Asker(b, e) /\ rpc'[b] = rpc[b]
               \/ b = c /\ rpc'[b] = "askPath" /\ loop[e] \notin {"read", "reply"}
    <2>1. Asker(b, e) \/ (b = c /\ p = "up" /\ pipe[e]["up"] = "listening")
      BY <1>1, <1>4, OpenMakesParty DEF Asker, Pipes
    <2>. QED BY <1>1, <1>2, <1>3, <2>1 DEF OrderInv, DumperOrder
  <1>5. ASSUME NEW b \in Sessions, NEW e \in Sessions, Reader(b, e)'
        PROVE  \/ Reader(b, e) /\ (rpc'[b] = rpc[b] \/ (b = c /\ rpc[b] \in FirstPhase))
               \/ b = c /\ loop[e] \notin {"read", "reply"}
    <2>1. Reader(b, e) \/ (b = c /\ p = "down" /\ pipe[e]["down"] = "listening")
      BY <1>1, <1>5, OpenMakesParty DEF Reader, Pipes
    <2>. QED BY <1>1, <1>2, <1>3, <2>1 DEF OrderInv, DumperOrder
  <1>6. AskerPhase'
    BY <1>2, <1>4 DEF StepInv, AskerPhase
  <1>7. ReaderPhase'
    <2> SUFFICES ASSUME NEW d \in Sessions, NEW b \in Sessions, Reader(b, d)'
                 PROVE  /\ loop[d] = "none" => rpc'[b] \in FirstPhase
                        /\ loop[d] = "reply" =>
                             \/ replying[d] = "path" /\ rpc'[b] \in FirstPhase
                             \/ replying[d] = "mode" /\ rpc'[b] \in SecondPhase
      BY <1>2 DEF ReaderPhase
    <2>1. CASE Reader(b, d) /\ rpc'[b] = rpc[b]
      BY <2>1 DEF StepInv, ReaderPhase
    <2>2. CASE Reader(b, d) /\ b = c /\ rpc[b] \in FirstPhase
      BY <1>2, <2>2 DEF StepInv, ReaderPhase, FirstPhase, SecondPhase
    <2>. QED BY <1>2, <1>5, <2>1, <2>2
  <1>8. TogetherPhase'
    <2> SUFFICES ASSUME NEW d \in Sessions, NEW b \in Sessions, NEW e \in Sessions,
                        loop[d] = "read", Reader(b, d)', Asker(e, d)'
                 PROVE  /\ rpc'[e] = "askPath" => rpc'[b] \in FirstPhase
                        /\ rpc'[e] \in {"getPath", "askMode"} => rpc'[b] \in SecondPhase
                        /\ rpc'[e] \in {"getMode", "log", "run"} => rpc'[b] \in LastPhase
      BY <1>2 DEF TogetherPhase
    <2>1. Asker(e, d) /\ rpc'[e] = rpc[e]
      BY <1>4
    <2>2. Reader(b, d) /\ (rpc'[b] = rpc[b] \/ (b = c /\ rpc[b] \in FirstPhase))
      BY <1>5
    <2>3. /\ rpc[e] = "askPath" => rpc[b] \in FirstPhase
          /\ rpc[e] \in {"getPath", "askMode"} => rpc[b] \in SecondPhase
          /\ rpc[e] \in {"getMode", "log", "run"} => rpc[b] \in LastPhase
      BY <2>1, <2>2 DEF StepInv, TogetherPhase
    <2>. QED BY <1>2, <2>1, <2>2, <2>3 DEF FirstPhase, SecondPhase, LastPhase
  <1>. QED BY <1>6, <1>7, <1>8 DEF StepInv

(* A write that fails has no loop to ask, and stays in its phase.          *)
LEMMA StepWrite ==
  ASSUME TypeInv, OrderInv, StepInv, NEW c \in Sessions,
         NEW m \in {<<"askPath", "path">>, <<"askMode", "mode">>, <<"log", "log">>},
         Write(c, m[1], m[2]) \/ WriteFails(c, m[1], m[2])
  PROVE  StepInv'
  <1>1. UNCHANGED <<pipe, handle, loop, replying>>
    BY DEF Write, WriteFails
  <1>2. \A b, e \in Sessions : /\ Asker(b, e)' <=> Asker(b, e)
                               /\ Reader(b, e)' <=> Reader(b, e)
    BY <1>1 DEF Asker, Reader, Talks
  <1>3. CASE Write(c, m[1], m[2])
    BY <1>1, <1>2, <1>3, StepKept DEF Write
  <1>4. CASE WriteFails(c, m[1], m[2])
    <2>1. /\ \A b \in Sessions \ {c} : rpc'[b] = rpc[b]
          /\ \/ rpc[c] = "askPath" /\ rpc'[c] = "getPath"
             \/ rpc[c] = "askMode" /\ rpc'[c] = "getMode"
             \/ rpc[c] = "log" /\ rpc'[c] = "run"
      BY <1>4 DEF WriteFails, AfterWrite, TypeInv, TypeOK
    <2>2. \A e, d \in Sessions : Asker(e, d) => rpc'[e] = rpc[e]
      BY <1>4, <2>1 DEF WriteFails, Asker
    <2>3. \A b \in Sessions : /\ rpc[b] \in FirstPhase => rpc'[b] \in FirstPhase
                              /\ rpc[b] \in SecondPhase => rpc'[b] \in SecondPhase
                              /\ rpc[b] \in LastPhase => rpc'[b] \in LastPhase
      BY <2>1 DEF FirstPhase, SecondPhase, LastPhase
    <2>4. AskerPhase' /\ ReaderPhase'
      BY <1>1, <1>2, <2>2, <2>3 DEF StepInv, AskerPhase, ReaderPhase
    <2>5. TogetherPhase'
      <3> SUFFICES ASSUME NEW d \in Sessions, NEW b \in Sessions, NEW e \in Sessions,
                          loop[d] = "read", Reader(b, d), Asker(e, d)
                   PROVE  /\ rpc'[e] = "askPath" => rpc'[b] \in FirstPhase
                          /\ rpc'[e] \in {"getPath", "askMode"} => rpc'[b] \in SecondPhase
                          /\ rpc'[e] \in {"getMode", "log", "run"} => rpc'[b] \in LastPhase
        BY <1>1, <1>2 DEF TogetherPhase
      <3>. QED BY <2>2, <2>3 DEF StepInv, TogetherPhase
    <2>. QED BY <2>4, <2>5 DEF StepInv
  <1>. QED BY <1>3, <1>4

(* The reader takes the answer to the question of its phase.               *)
LEMMA StepRead ==
  ASSUME TypeInv, OrderInv, StepInv, NEW c \in Sessions,
         NEW m \in {<<"path", "getPath", "askMode">>, <<"mode", "getMode", "log">>},
         ReadAnswer(c, m[1], m[2], m[3]) \/ ReadFails(c, m[1], m[2], m[3])
  PROVE  StepInv'
  <1>1. /\ UNCHANGED <<pipe, handle, replying>>
        /\ \A b \in Sessions \ {c} : rpc'[b] = rpc[b]
        /\ \/ rpc[c] = "getPath" /\ rpc'[c] = "askMode"
           \/ rpc[c] = "getMode" /\ rpc'[c] = "log"
    BY DEF ReadAnswer, ReadFails, TypeInv, TypeOK
  <1>2. \A b, e \in Sessions : /\ Asker(b, e)' <=> Asker(b, e)
                               /\ Reader(b, e)' <=> Reader(b, e)
    BY <1>1 DEF Asker, Reader, Talks
  <1>3. /\ \A e \in Sessions : Reader(c, e) => loop[e] = "reply" /\ loop'[e] = "read"
        /\ \A e \in Sessions : ~Reader(c, e) => loop'[e] = loop[e]
    <2>1. handle[c]["down"] \in Sessions \cup {Nobody}
      BY DEF TypeInv, TypeOK, Pipes
    <2>. QED BY <2>1 DEF ReadAnswer, ReadFails, Reader, Talks, TypeInv, TypeOK
  <1>4. AskerPhase'
    <2> SUFFICES ASSUME NEW d \in Sessions, NEW e \in Sessions, Asker(e, d)
                 PROVE  /\ loop'[d] = "none" => rpc'[e] = "askPath"
                        /\ loop'[d] = "reply" =>
                             \/ replying[d] = "path" /\ rpc'[e] \in {"getPath", "askMode"}
                             \/ replying[d] = "mode" /\ rpc'[e] \in {"getMode", "log"}
      BY <1>1, <1>2 DEF AskerPhase
    <2>. QED BY <1>1, <1>3 DEF StepInv, AskerPhase
  <1>5. ReaderPhase'
    <2> SUFFICES ASSUME NEW d \in Sessions, NEW b \in Sessions, Reader(b, d)
                 PROVE  /\ loop'[d] = "none" => rpc'[b] \in FirstPhase
                        /\ loop'[d] = "reply" =>
                             \/ replying[d] = "path" /\ rpc'[b] \in FirstPhase
                             \/ replying[d] = "mode" /\ rpc'[b] \in SecondPhase
      BY <1>1, <1>2 DEF ReaderPhase
    <2>1. CASE b = c
      BY <1>3, <2>1
    <2>2. CASE b # c
      <3>1. ~Reader(c, d)
        BY <2>2, OneAskerOneReader
      <3>. QED BY <1>1, <1>3, <2>2, <3>1 DEF StepInv, ReaderPhase
    <2>. QED BY <2>1, <2>2
  <1>6. TogetherPhase'
    <2> SUFFICES ASSUME NEW d \in Sessions, NEW b \in Sessions, NEW e \in Sessions,
                        loop'[d] = "read", Reader(b, d), Asker(e, d)
                 PROVE  /\ rpc'[e] = "askPath" => rpc'[b] \in FirstPhase
                        /\ rpc'[e] \in {"getPath", "askMode"} => rpc'[b] \in SecondPhase
                        /\ rpc'[e] \in {"getMode", "log", "run"} => rpc'[b] \in LastPhase
      BY <1>2 DEF TogetherPhase
    <2>1. CASE b = c
      <3>1. \/ replying[d] = "path" /\ rpc[c] \in FirstPhase
            \/ replying[d] = "mode" /\ rpc[c] \in SecondPhase
        BY <1>3, <2>1 DEF StepInv, ReaderPhase
      <3>2. \/ replying[d] = "path" /\ rpc[e] \in {"getPath", "askMode"}
            \/ replying[d] = "mode" /\ rpc[e] \in {"getMode", "log"}
        BY <1>3, <2>1 DEF StepInv, AskerPhase
      <3>3. \/ replying[d] = "path" /\ rpc'[c] \in SecondPhase
            \/ replying[d] = "mode" /\ rpc'[c] = "log"
        BY <1>1, <3>1 DEF FirstPhase, SecondPhase, LastPhase
      <3>. QED BY <1>1, <2>1, <3>2, <3>3 DEF LastPhase
    <2>2. CASE b # c
      <3>1. ~Reader(c, d)
        BY <2>2, OneAskerOneReader
      <3>2. /\ loop[d] = "read" /\ rpc'[b] = rpc[b]
            /\ rpc[e] = "askPath" => rpc[b] \in FirstPhase
            /\ rpc[e] \in {"getPath", "askMode"} => rpc[b] \in SecondPhase
            /\ rpc[e] \in {"getMode", "log", "run"} => rpc[b] \in LastPhase
        BY <1>1, <1>3, <2>2, <3>1 DEF StepInv, TogetherPhase
      <3>. QED BY <1>1, <3>2
    <2>. QED BY <2>1, <2>2
  <1>. QED BY <1>4, <1>5, <1>6 DEF StepInv

LEMMA StepInvariant == Spec => [](TypeInv /\ OrderInv /\ StepInv)
  <1>1. TypeInv /\ OrderInv /\ StepInv /\ [Next]_vars => StepInv'
    <2> SUFFICES ASSUME TypeInv, OrderInv, StepInv, [Next]_vars PROVE StepInv'
      OBVIOUS
    <2>1. CASE UNCHANGED vars
      BY <2>1 DEF vars, StepInv, AskerPhase, ReaderPhase, TogetherPhase, Asker, Reader, Talks
    <2>2. ASSUME NEW c \in Sessions, DllStep(c) PROVE StepInv'
      BY <2>2, StepOpen, StepWrite, StepRead DEF DllStep
    <2>. QED
      BY <2>1, <2>2, StepCreate, StepMain, StepEnds, GiveUpEnds, StepLoop, StepTargetEnds
         DEF Next, MainStep, ExitTarget, KillTarget
  <1>. QED BY <1>1, StepInit, OrderInvariant, PTL DEF Spec

(* An answer is read as one to the question it was given to, by whichever  *)
(* DLL reads it and however many sessions have crossed pipes.              *)
THEOREM AnswersAreInStep == Spec => []AnswersInStep
  <1>1. StepInv => AnswersInStep
    BY DEF StepInv, ReaderPhase, Reader, AnswersInStep, FirstPhase, SecondPhase
  <1>. QED BY <1>1, StepInvariant, PTL

-----------------------------------------------------------------------------
(* Runs one after another.  What the user sees, SequentialRunsAreRight,    *)
(* says nothing of pipes; it holds because a session that runs alone has   *)
(* its own two pipes, from the first CreateNamedPipe to the end.           *)

Attached == {"openUp", "askPath", "getPath", "askMode", "getMode", "log", "run"}

LivingInv ==
  \A d \in Sessions :
    /\ \A p \in Pipes : Made(d, p) => Alive(d)
    /\ loop[d] \in {"read", "reply"} => dpc[d] \in {"remote", "wait"}
    /\ Alive(d) /\ dpc[d] \notin BeforeLaunch => rpc[d] # "none"

OwnPipes(c) ==
  /\ \A p \in Pipes : handle[c][p] \in {c, Nobody}
  /\ Alive(c) /\ rpc[c] \in {"none", "openDown"} => pipe[c]["down"] = "listening"
  /\ Alive(c) /\ dpc[c] # "madeDown" /\ rpc[c] \in {"none", "openDown", "openUp"} =>
       pipe[c]["up"] = "listening"
  /\ Alive(c) /\ rpc[c] \in Attached => pipe[c]["down"] = "connected" /\ handle[c]["down"] = c
  /\ Alive(c) /\ rpc[c] \in Attached \ {"openUp"} =>
       pipe[c]["up"] = "connected" /\ handle[c]["up"] = c

OwnEnd(c) ==
  /\ Alive(c) /\ loop[c] = "done" => rpc[c] = "gone"
  /\ dpc[c] = "ended" => rpc[c] = "gone"

OwnSettings(c) ==
  \A k \in Questions :
    got[c][k] \in {c, Nobody} \/ (got[c][k] = "garbage" /\ dpc[c] = "killed")

Own(c) == OwnPipes(c) /\ OwnEnd(c) /\ OwnSettings(c)
OneAtATime == \A c, d \in Sessions : Active(c) /\ Active(d) => c = d
AloneInv == ~overlap => OneAtATime /\ \A c \in Sessions : Own(c)

LEMMA LivingInit == Init => LivingInv
  <1> SUFFICES ASSUME Init, NEW d \in Sessions
               PROVE  /\ \A p \in Pipes : Made(d, p) => Alive(d)
                      /\ loop[d] \in {"read", "reply"} => dpc[d] \in {"remote", "wait"}
                      /\ Alive(d) /\ dpc[d] \notin BeforeLaunch => rpc[d] # "none"
    BY DEF LivingInv
  <1>. QED BY DEF Init, Made, Alive

LEMMA LivingCreate ==
  ASSUME TypeInv, LivingInv, NEW d \in Sessions, CreateDown(d) \/ CreateUp(d)
  PROVE  LivingInv'
  <1>1. PICK p \in Pipes : CreatePipe(d, p)
    BY DEF CreateDown, CreateUp, Pipes
  <1>2. PICK s \in {"invalid", "listening"} : pipe' = [pipe EXCEPT ![d][p] = s]
    BY <1>1, CreatePipeMakes
  <1>3. UNCHANGED <<loop, replying, rpc, handle, request, got, resumed>>
    BY <1>1, CreatePipeMakes
  <1>4. dpc[d] \in {"start", "madeDown"} /\ dpc'[d] \in {"madeDown", "made"}
    BY DEF CreateDown, CreateUp, MainGoes, TypeInv, TypeOK
  <1>5. \A e \in Sessions \ {d} : dpc'[e] = dpc[e] /\ pipe'[e] = pipe[e]
    BY <1>2 DEF CreateDown, CreateUp, MainGoes, TypeInv, TypeOK
  <1>. QED BY <1>3, <1>4, <1>5 DEF LivingInv, Made, Alive, BeforeLaunch

LEMMA LivingMain ==
  ASSUME TypeInv, LivingInv, NEW d \in Sessions,
         LaunchTarget(d) \/ WaitForConnection(d) \/ SpawnLoop(d) \/ ResumeTarget(d)
  PROVE  LivingInv'
  BY DEF LaunchTarget, WaitForConnection, SpawnLoop, ResumeTarget, MainGoes, TypeInv, TypeOK,
     LivingInv, Made, Alive, BeforeLaunch

LEMMA LivingEnds ==
  ASSUME TypeInv, LivingInv, NEW d \in Sessions, WaitLoop(d) \/ KillDumper(d)
  PROVE  LivingInv'
  <1>1. PICK how \in {"ended", "killed"} : DumperEnds(d, how)
    BY DEF WaitLoop, KillDumper
  <1>2. /\ dpc'[d] = how /\ loop'[d] = "done"
        /\ \A p \in Pipes : ~Made(d, p)'
        /\ \A e \in Sessions \ {d} : dpc'[e] = dpc[e] /\ loop'[e] = loop[e] /\ pipe'[e] = pipe[e]
        /\ UNCHANGED rpc
    BY <1>1 DEF DumperEnds, Made, TypeInv, TypeOK
  <1>. QED BY <1>2 DEF LivingInv, Made, Alive

(* No step of a loop or a DLL makes a pipe or closes one.                  *)
LEMMA MadeKept ==
  ASSUME TypeInv, NEW d \in Sessions, LoopStep(d) \/ DllStep(d) \/ TargetEnds(d)
  PROVE  \A e \in Sessions : \A p \in Pipes : Made(e, p)' <=> Made(e, p)
  <1>1. CASE LoopStep(d)
    BY <1>1 DEF LoopStep, LoopEnds, LoopServes, ReplyFails, Made
  <1>2. ASSUME NEW p \in Pipes, NEW from, NEW to, OpenPipe(d, p, from, to)
        PROVE  \A e \in Sessions : \A q \in Pipes : Made(e, q)' <=> Made(e, q)
    <2>1. CASE UNCHANGED pipe
      BY <2>1 DEF Made
    <2>2. ASSUME NEW e \in Sessions, pipe[e][p] = "listening",
                 pipe' = [pipe EXCEPT ![e][p] = "connected"]
          PROVE  \A b \in Sessions : \A q \in Pipes : Made(b, q)' <=> Made(b, q)
      BY <2>2 DEF Made, TypeInv, TypeOK
    <2>3. \/ UNCHANGED pipe
          \/ \E e \in Sessions : /\ pipe[e][p] = "listening"
                                 /\ pipe' = [pipe EXCEPT ![e][p] = "connected"]
      BY <1>2, OpenPipeOpens
    <2>. QED BY <2>1, <2>2, <2>3
  <1>3. CASE DllStep(d)
    BY <1>2, <1>3 DEF DllStep, Write, WriteFails, ReadAnswer, ReadFails, Made, Pipes
  <1>4. CASE TargetEnds(d)
    BY <1>4 DEF TargetEnds, Made
  <1>. QED BY <1>1, <1>3, <1>4

LEMMA LivingOthers ==
  ASSUME TypeInv, LivingInv, OrderInv, NEW d \in Sessions,
         LoopStep(d) \/ DllStep(d) \/ TargetEnds(d)
  PROVE  LivingInv'
  <1>1. UNCHANGED dpc
    BY DEF LoopStep, LoopEnds, LoopServes, ReplyFails, DllStep, OpenPipe, Write, WriteFails,
       ReadAnswer, ReadFails, TargetEnds
  <1>2. \A e \in Sessions : loop'[e] \in {"read", "reply"} => loop[e] \in {"read", "reply"}
    <2>1. CASE LoopStep(d)
      BY <2>1 DEF LoopStep, LoopEnds, LoopServes, ReplyFails, TypeInv, TypeOK
    <2>2. CASE DllStep(d)
      <3>1. handle[d]["down"] \in Sessions \cup {Nobody}
        BY DEF TypeInv, TypeOK, Pipes
      <3>. QED BY <2>2, <3>1 DEF DllStep, OpenPipe, Write, WriteFails, ReadAnswer, ReadFails,
                  TypeInv, TypeOK
    <2>3. CASE TargetEnds(d)
      BY <2>3 DEF TargetEnds
    <2>. QED BY <2>1, <2>2, <2>3
  <1>3. \A e \in Sessions : rpc'[e] = "none" => rpc[e] = "none"
    <2>1. CASE LoopStep(d)
      <3>1. ASSUME NEW c \in Sessions, LoopServes(d, c)
            PROVE  \A e \in Sessions : rpc'[e] = "none" => rpc[e] = "none"
        <4>1. request[c] \in {"path", "mode", "log"}
          BY <3>1 DEF LoopServes, TypeInv, TypeOK, Questions
        <4>. QED BY <3>1, <4>1, AfterWriteType DEF LoopServes, TypeInv, TypeOK
      <3>. QED BY <2>1, <3>1 DEF LoopStep, LoopEnds, ReplyFails
    <2>2. CASE DllStep(d)
      BY <2>2, AfterWriteType DEF DllStep, OpenPipe, Write, WriteFails, ReadAnswer, ReadFails,
         TypeInv, TypeOK
    <2>3. CASE TargetEnds(d)
      BY <2>3 DEF TargetEnds, TypeInv, TypeOK
    <2>. QED BY <2>1, <2>2, <2>3
  <1>4. \A e \in Sessions : \A p \in Pipes : Made(e, p)' => Made(e, p)
    BY MadeKept
  <1>. QED BY <1>1, <1>2, <1>3, <1>4 DEF LivingInv, Alive

LEMMA LivingInvariant == Spec => [](TypeInv /\ OrderInv /\ LivingInv)
  <1>1. TypeInv /\ OrderInv /\ LivingInv /\ [Next]_vars => LivingInv'
    <2> SUFFICES ASSUME TypeInv, OrderInv, LivingInv, [Next]_vars PROVE LivingInv'
      OBVIOUS
    <2>1. CASE UNCHANGED vars
      BY <2>1 DEF vars, LivingInv, Made, Alive
    <2>. QED
      BY <2>1, LivingCreate, LivingMain, LivingEnds, GiveUpEnds, LivingOthers
         DEF Next, MainStep, ExitTarget, KillTarget
  <1>. QED BY <1>1, LivingInit, OrderInvariant, PTL DEF Spec

-----------------------------------------------------------------------------
(* While there is no overlap a step of a session touches only what is its  *)
(* own, so the others keep what they have.                                 *)

Known == TypeInv /\ OrderInv /\ LivingInv

OnlyTouches(c) ==
  \A b \in Sessions \ {c} :
    /\ dpc'[b] = dpc[b] /\ loop'[b] = loop[b] /\ pipe'[b] = pipe[b]
    /\ rpc'[b] = rpc[b] /\ handle'[b] = handle[b] /\ got'[b] = got[b]

LEMMA OthersKeep ==
  ASSUME NEW c \in Sessions, OnlyTouches(c), AloneInv, ~overlap,
         Own(c)', Active(c)' => Active(c)
  PROVE  AloneInv'
  <1>1. \A b \in Sessions : Own(b)'
    BY DEF OnlyTouches, AloneInv, Own, OwnPipes, OwnEnd, OwnSettings, Alive
  <1>2. OneAtATime'
    BY DEF OnlyTouches, AloneInv, OneAtATime, Active, Alive
  <1>. QED BY <1>1, <1>2 DEF AloneInv

LEMMA AloneInit == Init => AloneInv
  BY DEF Init, AloneInv, OneAtATime, Own, OwnPipes, OwnEnd, OwnSettings, Active, Alive,
     Attached, Pipes, Questions

(* The names are free for the only session.                                *)
LEMMA AloneMakes ==
  ASSUME Known, NEW d \in Sessions, NEW p \in Pipes, CreatePipe(d, p),
         pipe[d][p] = "none", rpc[d] = "none",
         \A e \in Sessions \ {d} : ~Active(e)
  PROVE  pipe' = [pipe EXCEPT ![d][p] = "listening"]
  <1>1. \A e \in Sessions : ~Made(e, p)
    BY DEF Known, LivingInv, Active, Made
  <1>2. \A c \in Sessions : handle[c][p] = Nobody
    BY DEF Known, OrderInv, DllOrder, Active, Pipes
  <1>. QED BY <1>1, <1>2 DEF CreatePipe

LEMMA AloneCreate ==
  ASSUME Known, AloneInv, ~overlap', NEW d \in Sessions, CreateDown(d) \/ CreateUp(d)
  PROVE  AloneInv'
  <1>1. ~overlap /\ \A e \in Sessions \ {d} : ~Active(e)
    <2>1. CASE CreateDown(d)
      BY <2>1 DEF CreateDown
    <2>2. CASE CreateUp(d)
      <3>1. ~overlap /\ Active(d)
        BY <2>2 DEF CreateUp, MainGoes, Active, Alive
      <3>. QED BY <3>1 DEF AloneInv, OneAtATime
    <2>. QED BY <2>1, <2>2
  <1>2. PICK p \in Pipes :
          /\ CreatePipe(d, p) /\ pipe[d][p] = "none"
          /\ \/ dpc[d] = "start" /\ dpc' = [dpc EXCEPT ![d] = "madeDown"] /\ p = "down"
             \/ dpc[d] = "madeDown" /\ dpc' = [dpc EXCEPT ![d] = "made"] /\ p = "up"
    BY DEF CreateDown, CreateUp, MainGoes, Known, TypeInv, LinksInv, MadeOnce, Pipes
  <1>3. rpc[d] = "none"
    BY <1>2 DEF Known, OrderInv, DumperOrder, BeforeLaunch
  <1>4. pipe' = [pipe EXCEPT ![d][p] = "listening"]
    BY <1>1, <1>2, <1>3, AloneMakes
  <1>5. UNCHANGED <<loop, replying, rpc, handle, request, got, resumed>>
    BY <1>2, CreatePipeMakes
  <1>6. OnlyTouches(d)
    BY <1>2, <1>4, <1>5 DEF OnlyTouches, Known, TypeInv, TypeOK
  <1>7. /\ pipe'[d][p] = "listening" /\ dpc'[d] = IF p = "down" THEN "madeDown" ELSE "made"
        /\ \A q \in Pipes \ {p} : pipe'[d][q] = pipe[d][q]
    BY <1>2, <1>4 DEF Known, TypeInv, TypeOK
  <1>8. loop[d] = "none"
    BY <1>2 DEF Known, OrderInv, DumperOrder, BeforeLoop, BeforeLaunch
  <1>9. Own(d)'
    BY <1>1, <1>2, <1>3, <1>5, <1>7, <1>8
       DEF AloneInv, Own, OwnPipes, OwnEnd, OwnSettings, Alive, Attached, Pipes
  <1>10. \A b \in Sessions : Own(b)'
    BY <1>1, <1>6, <1>9 DEF OnlyTouches, AloneInv, Own, OwnPipes, OwnEnd, OwnSettings, Alive
  <1>11. OneAtATime'
    BY <1>1, <1>6 DEF OnlyTouches, OneAtATime, Active, Alive
  <1>. QED BY <1>10, <1>11 DEF AloneInv

LEMMA AloneMain ==
  ASSUME Known, AloneInv, ~overlap, NEW d \in Sessions,
         LaunchTarget(d) \/ WaitForConnection(d) \/ SpawnLoop(d) \/ ResumeTarget(d)
  PROVE  AloneInv'
  <1>1. /\ OnlyTouches(d)
        /\ pipe'[d] = pipe[d] /\ handle'[d] = handle[d] /\ got'[d] = got[d]
        /\ loop'[d] = loop[d] \/ loop'[d] = "read"
        /\ dpc[d] \notin {"start", "madeDown", "ended", "killed"}
        /\ dpc'[d] \notin {"start", "madeDown", "ended", "killed"}
        /\ rpc'[d] = rpc[d] \/ (rpc[d] = "none" /\ rpc'[d] \in {"openDown", "gone"})
    BY DEF OnlyTouches, LaunchTarget, WaitForConnection, SpawnLoop, ResumeTarget, MainGoes,
       Known, TypeInv, TypeOK, OrderInv, DumperOrder, BeforeLaunch
  <1>2. Own(d)
    BY DEF AloneInv
  <1>3. loop'[d] = "done" => rpc'[d] = "gone"
    BY <1>1, <1>2 DEF Own, OwnEnd, Alive
  <1>4. Own(d)'
    BY <1>1, <1>2, <1>3 DEF Own, OwnPipes, OwnEnd, OwnSettings, Alive, Attached
  <1>. QED BY <1>1, <1>4, OthersKeep DEF Active, Alive

LEMMA AloneEnds ==
  ASSUME Known, AloneInv, ~overlap, NEW d \in Sessions, WaitLoop(d) \/ KillDumper(d)
  PROVE  AloneInv'
  <1>1. PICK how \in {"ended", "killed"} :
          /\ DumperEnds(d, how) /\ Alive(d)
          /\ how = "ended" => loop[d] = "done"
    BY DEF WaitLoop, KillDumper, Alive
  <1>2. /\ OnlyTouches(d)
        /\ dpc'[d] = how
        /\ rpc'[d] = rpc[d] /\ handle'[d] = handle[d] /\ got'[d] = got[d]
    BY <1>1 DEF OnlyTouches, DumperEnds, Known, TypeInv, TypeOK
  <1>3. Own(d)
    BY DEF AloneInv
  <1>4. Own(d)'
    BY <1>1, <1>2, <1>3 DEF Own, OwnPipes, OwnEnd, OwnSettings, Alive
  <1>. QED BY <1>1, <1>2, <1>4, OthersKeep DEF Active, Alive

(* The loop ends when its own DLL, which alone could open its pipe, has    *)
(* gone.                                                                   *)
LEMMA AloneLoop ==
  ASSUME Known, AloneInv, ~overlap, NEW d \in Sessions, LoopStep(d)
  PROVE  AloneInv'
  <1>0. Own(d) /\ loop[d] \in {"read", "reply"} /\ Alive(d)
    BY DEF AloneInv, LoopStep, LoopEnds, LoopServes, ReplyFails, Known, LivingInv, Alive
  <1>1. CASE LoopEnds(d)
    <2>1. /\ OnlyTouches(d)
          /\ UNCHANGED <<dpc, pipe, rpc, handle, got>>
      BY <1>1 DEF OnlyTouches, LoopEnds, Known, TypeInv, TypeOK
    <2>2. dpc[d] \in {"remote", "wait"} /\ rpc[d] # "none" /\ pipe[d]["up"] \notin {"listening", "connected"}
      BY <1>0, <1>1 DEF LoopEnds, Known, LivingInv, OrderInv, DumperOrder, BeforeLaunch
    <2>3. rpc[d] = "gone"
      <3>1. rpc[d] \in DllStates
        BY DEF Known, TypeInv, TypeOK
      <3>. QED BY <1>0, <2>2, <3>1 DEF Own, OwnPipes, DllStates, Attached
    <2>4. Own(d)'
      BY <1>0, <2>1, <2>3 DEF Own, OwnPipes, OwnEnd, OwnSettings, Alive
    <2>. QED BY <2>1, <2>4, OthersKeep DEF Active, Alive
  <1>2. CASE ReplyFails(d)
    <2>1. /\ OnlyTouches(d)
          /\ UNCHANGED <<dpc, pipe, rpc, handle, got>>
          /\ loop'[d] # "done"
      BY <1>2 DEF OnlyTouches, ReplyFails, Known, TypeInv, TypeOK
    <2>2. Own(d)'
      BY <1>0, <2>1 DEF Own, OwnPipes, OwnEnd, OwnSettings, Alive
    <2>. QED BY <2>1, <2>2, OthersKeep DEF Active, Alive
  <1>3. ASSUME NEW c \in Sessions, LoopServes(d, c) PROVE AloneInv'
    <2>1. c = d
      <3>1. handle[c]["up"] = d
        BY <1>3 DEF LoopServes
      <3>2. Own(c)
        BY DEF AloneInv
      <3>. QED BY <3>1, <3>2, NobodyAssumption DEF Own, OwnPipes, Pipes
    <2>2. /\ OnlyTouches(d)
          /\ UNCHANGED <<dpc, pipe, handle, got>>
          /\ loop'[d] # "done"
      BY <1>3, <2>1 DEF OnlyTouches, LoopServes, Known, TypeInv, TypeOK
    <2>3. rpc[d] \in Attached \ {"openUp"} /\ rpc'[d] \in Attached \ {"openUp"}
      <3>1. request[d] \in {"path", "mode", "log"}
        BY <1>3, <2>1 DEF LoopServes, Known, TypeInv, TypeOK, Questions
      <3>2. rpc[d] \in {"askPath", "askMode", "log"}
        BY <1>3, <2>1, <3>1 DEF LoopServes, Known, OrderInv, DllOrder, AskedWith
      <3>3. rpc'[d] \in {"getPath", "getMode", "run"}
        BY <1>3, <2>1, <3>1, AfterWriteType DEF LoopServes, Known, TypeInv, TypeOK
      <3>. QED BY <3>2, <3>3 DEF Attached
    <2>4. Own(d)'
      BY <1>0, <2>2, <2>3 DEF Own, OwnPipes, OwnEnd, OwnSettings, Alive, Attached
    <2>. QED BY <1>0, <2>2, <2>4, OthersKeep DEF Active
  <1>. QED BY <1>1, <1>2, <1>3 DEF LoopStep

(* CreateFile finds the session's own pipe, or none if its dumper is gone. *)
LEMMA AloneOpens ==
  ASSUME Known, AloneInv, ~overlap, NEW c \in Sessions, NEW p \in Pipes,
         \/ p = "down" /\ rpc[c] = "openDown"
         \/ p = "up" /\ rpc[c] = "openUp"
  PROVE  /\ Alive(c) => Opens(p) = c
         /\ ~Alive(c) => Opens(p) = Nobody
  <1>1. Own(c) /\ Active(c) /\ dpc[c] # "madeDown"
    BY DEF AloneInv, Active, Known, OrderInv, DumperOrder, BeforeLaunch
  <1>2. \A e \in Sessions : pipe[e][p] = "listening" => e = c /\ Alive(c)
    BY <1>1 DEF Known, LivingInv, Made, AloneInv, OneAtATime, Active
  <1>3. Alive(c) => pipe[c][p] = "listening"
    BY <1>1 DEF Own, OwnPipes
  <1>. QED BY <1>2, <1>3, OpensListening

LEMMA AloneOpen ==
  ASSUME Known, AloneInv, ~overlap, NEW c \in Sessions,
         \/ OpenPipe(c, "down", "openDown", "openUp")
         \/ OpenPipe(c, "up", "openUp", "askPath")
  PROVE  AloneInv'
  <1>1. PICK p \in Pipes, from \in DllStates, to \in DllStates :
          /\ \/ p = "down" /\ from = "openDown" /\ to = "openUp"
             \/ p = "up" /\ from = "openUp" /\ to = "askPath"
          /\ OpenPipe(c, p, from, to)
    BY DEF Pipes, DllStates
  <1>2. /\ rpc[c] = from /\ rpc' = [rpc EXCEPT ![c] = to]
        /\ handle' = [handle EXCEPT ![c][p] = Opens(p)]
        /\ pipe' = IF Opens(p) = Nobody THEN pipe ELSE [pipe EXCEPT ![Opens(p)][p] = "connected"]
        /\ UNCHANGED <<dpc, loop, replying, request, got, resumed, overlap>>
    BY <1>1 DEF OpenPipe
  <1>3. Own(c) /\ dpc[c] # "madeDown" /\ Active(c)
    BY <1>1, <1>2 DEF AloneInv, Known, OrderInv, DumperOrder, BeforeLaunch, Active
  <1>4. rpc'[c] = to /\ \A b \in Sessions \ {c} : rpc'[b] = rpc[b]
    BY <1>2 DEF Known, TypeInv, TypeOK
  <1>5. CASE Alive(c)
    <2>1. Opens(p) = c
      BY <1>1, <1>2, <1>5, AloneOpens
    <2>2. /\ \A b \in Sessions \ {c} : pipe'[b] = pipe[b] /\ handle'[b] = handle[b]
          /\ pipe'[c][p] = "connected" /\ handle'[c][p] = c
          /\ \A q \in Pipes \ {p} : pipe'[c][q] = pipe[c][q] /\ handle'[c][q] = handle[c][q]
      BY <1>2, <2>1, NobodyAssumption DEF Known, TypeInv, TypeOK
    <2>3. OnlyTouches(c)
      BY <1>2, <1>4, <2>2 DEF OnlyTouches
    <2>4. Own(c)'
      BY <1>1, <1>2, <1>3, <1>4, <1>5, <2>2
         DEF Own, OwnPipes, OwnEnd, OwnSettings, Alive, Attached, Pipes
    <2>. QED BY <1>3, <2>3, <2>4, OthersKeep
  <1>6. CASE ~Alive(c)
    <2>1. Opens(p) = Nobody
      BY <1>1, <1>2, <1>6, AloneOpens
    <2>2. /\ UNCHANGED pipe
          /\ \A b \in Sessions \ {c} : handle'[b] = handle[b]
          /\ \A q \in Pipes : handle'[c][q] \in {handle[c][q], Nobody}
      BY <1>2, <2>1 DEF Known, TypeInv, TypeOK
    <2>3. OnlyTouches(c)
      BY <1>2, <1>4, <2>2 DEF OnlyTouches
    <2>4. Own(c)'
      BY <1>1, <1>2, <1>3, <1>6, <2>2 DEF Own, OwnPipes, OwnEnd, OwnSettings, Alive
    <2>. QED BY <1>3, <2>3, <2>4, OthersKeep
  <1>. QED BY <1>5, <1>6

(* What the DLL does with its handles.                                     *)
LEMMA AloneDll ==
  ASSUME Known, AloneInv, ~overlap, NEW c \in Sessions, DllStep(c)
  PROVE  AloneInv'
  <1>0. Own(c)
    BY DEF AloneInv
  <1>1. CASE OpenPipe(c, "down", "openDown", "openUp") \/ OpenPipe(c, "up", "openUp", "askPath")
    BY <1>1, AloneOpen
  <1>2. ASSUME NEW m \in {<<"askPath", "path">>, <<"askMode", "mode">>, <<"log", "log">>},
               Write(c, m[1], m[2]) \/ WriteFails(c, m[1], m[2])
        PROVE  AloneInv'
    <2>1. /\ UNCHANGED <<dpc, loop, pipe, handle, got>>
          /\ rpc[c] \in Attached \ {"openUp"} /\ rpc'[c] \in Attached \ {"openUp"}
          /\ \A b \in Sessions \ {c} : rpc'[b] = rpc[b]
      BY <1>2 DEF Write, WriteFails, AfterWrite, Attached, Known, TypeInv, TypeOK
    <2>2. Own(c)'
      BY <1>0, <2>1 DEF Own, OwnPipes, OwnEnd, OwnSettings, Alive, Attached
    <2>. QED BY <2>1, <2>2, OthersKeep DEF OnlyTouches, Active, Attached
  <1>3. ASSUME NEW m \in {<<"path", "getPath", "askMode">>, <<"mode", "getMode", "log">>},
               ReadAnswer(c, m[1], m[2], m[3]) \/ ReadFails(c, m[1], m[2], m[3])
        PROVE  AloneInv'
    <2>1. /\ UNCHANGED <<dpc, pipe, handle>>
          /\ rpc[c] \in Attached \ {"openUp"} /\ rpc'[c] \in Attached \ {"openUp"}
          /\ \A b \in Sessions \ {c} : rpc'[b] = rpc[b] /\ got'[b] = got[b]
      BY <1>3 DEF ReadAnswer, ReadFails, Attached, Known, TypeInv, TypeOK
    <2>2. /\ \A b \in Sessions \ {c} : loop'[b] = loop[b]
          /\ loop'[c] = loop[c] \/ loop'[c] = "read"
          /\ \A k \in Questions :
               \/ got'[c][k] \in {got[c][k], c}
               \/ got'[c][k] = "garbage" /\ ~Talks(c, "down")
      <3>1. CASE ReadAnswer(c, m[1], m[2], m[3])
        <4>1. handle[c]["down"] = c
          BY <1>0, <3>1 DEF ReadAnswer, Talks, Own, OwnPipes, Pipes
        <4>2. loop' = [loop EXCEPT ![c] = "read"] /\ got' = [got EXCEPT ![c][m[1]] = c]
          BY <3>1, <4>1 DEF ReadAnswer
        <4>. QED BY <4>2 DEF Known, TypeInv, TypeOK
      <3>2. CASE ReadFails(c, m[1], m[2], m[3])
        BY <3>2 DEF ReadFails, Known, TypeInv, TypeOK
      <3>. QED BY <1>3, <3>1, <3>2
    <2>3. ~Talks(c, "down") => dpc[c] = "killed"
      <3> SUFFICES ASSUME ~Talks(c, "down") PROVE dpc[c] = "killed"
        OBVIOUS
      <3>1. ~Alive(c)
        BY <1>0, <2>1, NobodyAssumption DEF Own, OwnPipes, Talks
      <3>2. dpc[c] # "start"
        BY <2>1 DEF Known, OrderInv, DumperOrder, BeforeLaunch, Attached
      <3>3. dpc[c] # "ended"
        BY <1>0, <2>1 DEF Own, OwnEnd, Attached
      <3>. QED BY <3>1, <3>2, <3>3 DEF Alive
    <2>4. Own(c)'
      <3>1. OwnPipes(c)' /\ OwnEnd(c)'
        BY <1>0, <2>1, <2>2 DEF Own, OwnPipes, OwnEnd, Alive, Attached
      <3>2. OwnSettings(c)'
        BY <1>0, <2>1, <2>2, <2>3 DEF Own, OwnSettings
      <3>. QED BY <3>1, <3>2 DEF Own
    <2>. QED BY <2>1, <2>2, <2>4, OthersKeep DEF OnlyTouches, Active, Attached
  <1>. QED BY <1>1, <1>2, <1>3 DEF DllStep

LEMMA AloneTargetEnds ==
  ASSUME Known, AloneInv, ~overlap, NEW c \in Sessions, TargetEnds(c), rpc[c] \notin {"none", "gone"}
  PROVE  AloneInv'
  <1>0. Own(c)
    BY DEF AloneInv
  <1>1. /\ UNCHANGED <<dpc, loop, got>>
        /\ rpc'[c] = "gone" /\ \A p \in Pipes : handle'[c][p] = Nobody
        /\ \A b \in Sessions \ {c} : rpc'[b] = rpc[b] /\ handle'[b] = handle[b]
    BY DEF TargetEnds, Known, TypeInv, TypeOK
  <1>2. \A b \in Sessions \ {c} : pipe'[b] = pipe[b]
    <2> SUFFICES ASSUME NEW b \in Sessions \ {c} PROVE pipe'[b] = pipe[b]
      OBVIOUS
    <2>1. \A p \in Pipes : handle[c][p] # b
      BY <1>0, NobodyAssumption DEF Own, OwnPipes
    <2>2. pipe'[b] = [p \in Pipes |-> pipe[b][p]]
      BY <2>1 DEF TargetEnds
    <2>. QED BY <2>2 DEF Known, TypeInv, TypeOK
  <1>3. OnlyTouches(c)
    BY <1>1, <1>2 DEF OnlyTouches
  <1>4. Own(c)'
    BY <1>0, <1>1 DEF Own, OwnPipes, OwnEnd, OwnSettings, Alive, Attached
  <1>. QED BY <1>1, <1>3, <1>4, OthersKeep DEF Active, Alive

LEMMA AloneInvariant == Spec => [](Known /\ AloneInv)
  <1>1. Known /\ AloneInv /\ [Next]_vars => AloneInv'
    <2> SUFFICES ASSUME Known, AloneInv, [Next]_vars, ~overlap' PROVE AloneInv'
      BY DEF AloneInv
    <2>1. ~overlap
      BY DEF Next, CreateDown, MainStep, CreateUp, LaunchTarget, WaitForConnection, SpawnLoop,
         ResumeTarget, WaitLoop, LoopStep, LoopEnds, ReplyFails, LoopServes, DllStep, OpenPipe,
         Write, WriteFails, ReadAnswer, ReadFails, ExitTarget, KillTarget, TargetEnds,
         GiveUp, KillDumper, DumperEnds, vars
    <2>2. CASE UNCHANGED vars
      BY <2>2 DEF vars, AloneInv, OneAtATime, Own, OwnPipes, OwnEnd, OwnSettings, Active, Alive
    <2>3. ASSUME NEW c \in Sessions, ExitTarget(c) PROVE AloneInv'
      BY <2>1, <2>3, AloneTargetEnds DEF ExitTarget
    <2>4. ASSUME NEW c \in Sessions, KillTarget(c) PROVE AloneInv'
      BY <2>1, <2>4, AloneTargetEnds DEF KillTarget
    <2>. QED
      BY <2>1, <2>2, <2>3, <2>4, AloneCreate, AloneMain, AloneEnds, GiveUpEnds, AloneLoop, AloneDll
         DEF Next, MainStep
  <1>. QED BY <1>1, AloneInit, LivingInvariant, PTL DEF Spec, Known

(* However many sessions there have been: as long as each was over before  *)
(* the next began, a DLL has the settings of its own dumper, or garbage    *)
(* because that dumper gave up or was killed.                              *)
THEOREM SequentialRunsAreIsolated == Spec => []SequentialRunsAreRight
  <1>1. AloneInv => SequentialRunsAreRight
    BY DEF AloneInv, Own, OwnSettings, SequentialRunsAreRight
  <1>. QED BY <1>1, AloneInvariant, PTL

-----------------------------------------------------------------------------
(* Crossed pipes do not lock the sessions up.  There is one instance of a  *)
(* name at a time, a connected pipe has a client, and a pipe listens only  *)
(* until the DLL of its own session has come to open it, or is missing or  *)
(* killed.                                                                 *)

OneInstance == \A p \in Pipes : \A d, e \in Sessions : Made(d, p) /\ Made(e, p) => d = e

ClientKnown ==
  \A d \in Sessions : \A p \in Pipes :
    pipe[d][p] = "connected" => \E c \in Sessions : handle[c][p] = d

Awaited ==
  \A d \in Sessions :
    /\ pipe[d]["down"] = "listening" => rpc[d] \in {"none", "openDown", "gone"}
    /\ pipe[d]["up"] = "listening" => rpc[d] \in {"none", "openDown", "openUp", "gone"}

LoopRuns ==
  \A d \in Sessions :
    /\ dpc[d] \in {"remote", "wait"} => loop[d] # "none"
    /\ loop[d] = "reply" => Made(d, "up")

CrossInv == OneInstance /\ ClientKnown /\ Awaited /\ LoopRuns

LEMMA CrossInit == Init => CrossInv
  <1> SUFFICES ASSUME Init PROVE CrossInv
    OBVIOUS
  <1>1. \A d \in Sessions : /\ \A p \in Pipes : pipe[d][p] = "none"
                            /\ dpc[d] = "start" /\ loop[d] = "none"
    BY DEF Init
  <1>. QED BY <1>1 DEF CrossInv, OneInstance, ClientKnown, Awaited, LoopRuns, Made, Pipes

LEMMA CrossCreate ==
  ASSUME Known, CrossInv, NEW d \in Sessions, CreateDown(d) \/ CreateUp(d)
  PROVE  CrossInv'
  <1>1. PICK p \in Pipes :
          /\ CreatePipe(d, p) /\ dpc[d] \in BeforeLaunch
          /\ dpc' = [dpc EXCEPT ![d] = IF p = "down" THEN "madeDown" ELSE "made"]
    BY DEF CreateDown, CreateUp, MainGoes, BeforeLaunch, Pipes
  <1>2. UNCHANGED <<loop, replying, rpc, handle, request, got, resumed>>
    BY <1>1, CreatePipeMakes
  <1>3. PICK s \in {"invalid", "listening"} :
          /\ pipe' = [pipe EXCEPT ![d][p] = s]
          /\ s = "listening" => \A e \in Sessions : ~Made(e, p)
    BY <1>1 DEF CreatePipe
  <1>4. \A e \in Sessions : \A q \in Pipes :
          pipe'[e][q] = IF e = d /\ q = p THEN s ELSE pipe[e][q]
    BY <1>3 DEF Known, TypeInv, TypeOK
  <1>5. rpc[d] = "none" /\ loop[d] = "none"
    BY <1>1 DEF Known, OrderInv, DumperOrder, BeforeLoop
  <1>6. OneInstance'
    BY <1>3, <1>4 DEF CrossInv, OneInstance, Made
  <1>7. ClientKnown'
    BY <1>2, <1>4 DEF CrossInv, ClientKnown
  <1>8. Awaited'
    BY <1>2, <1>4, <1>5 DEF CrossInv, Awaited, Pipes
  <1>9. LoopRuns'
    BY <1>1, <1>2, <1>4, <1>5 DEF CrossInv, LoopRuns, Made, Pipes, Known, TypeInv, TypeOK
  <1>. QED BY <1>6, <1>7, <1>8, <1>9 DEF CrossInv

LEMMA CrossMain ==
  ASSUME Known, CrossInv, NEW d \in Sessions,
         LaunchTarget(d) \/ WaitForConnection(d) \/ SpawnLoop(d) \/ ResumeTarget(d)
  PROVE  CrossInv'
  <1>1. UNCHANGED <<pipe, handle>>
    BY DEF LaunchTarget, WaitForConnection, SpawnLoop, ResumeTarget
  <1>2. \A e \in Sessions : rpc'[e] = rpc[e] \/ (rpc'[e] \in {"openDown", "gone"} /\ rpc[e] = "none")
    <2>1. CASE LaunchTarget(d)
      <3>1. rpc[d] = "none"
        BY <2>1 DEF LaunchTarget, MainGoes, Known, OrderInv, DumperOrder, BeforeLaunch
      <3>. QED BY <2>1, <3>1 DEF LaunchTarget, Known, TypeInv, TypeOK
    <2>. QED BY <2>1 DEF WaitForConnection, SpawnLoop, ResumeTarget
  <1>3. \A e \in Sessions :
          /\ loop'[e] = loop[e] \/ loop'[e] = "read"
          /\ dpc'[e] = "remote" => loop'[e] = "read" \/ dpc[e] = "remote"
          /\ dpc'[e] = "wait" => dpc[e] \in {"remote", "wait"}
    BY DEF LaunchTarget, WaitForConnection, SpawnLoop, ResumeTarget, MainGoes, Known, TypeInv, TypeOK
  <1>. QED BY <1>1, <1>2, <1>3 DEF CrossInv, OneInstance, ClientKnown, Awaited, LoopRuns, Made

LEMMA CrossEnds ==
  ASSUME Known, CrossInv, NEW d \in Sessions, WaitLoop(d) \/ KillDumper(d)
  PROVE  CrossInv'
  <1>1. PICK how \in {"ended", "killed"} : DumperEnds(d, how)
    BY DEF WaitLoop, KillDumper
  <1>2. /\ UNCHANGED <<rpc, handle>>
        /\ dpc'[d] = how /\ loop'[d] = "done" /\ \A p \in Pipes : pipe'[d][p] \notin {"listening", "connected", "left"}
        /\ \A e \in Sessions \ {d} : dpc'[e] = dpc[e] /\ loop'[e] = loop[e] /\ pipe'[e] = pipe[e]
    BY <1>1 DEF DumperEnds, Made, Known, TypeInv, TypeOK
  <1>. QED BY <1>2 DEF CrossInv, OneInstance, ClientKnown, Awaited, LoopRuns, Made, Pipes

(* Steps of a loop or a DLL that open no pipe and drop none: a DLL that    *)
(* moves has opened both, so neither of its own dumper listens.            *)
LEMMA CrossTalk ==
  ASSUME Known, CrossInv, UNCHANGED <<dpc, pipe, handle>>,
         \A c \in Sessions : rpc'[c] = rpc[c]
                             \/ rpc[c] \notin {"none", "openDown", "openUp", "gone"},
         \A d \in Sessions : \/ loop'[d] = loop[d]
                             \/ loop'[d] \in {"read", "done"}
                             \/ loop'[d] = "reply" /\ pipe[d]["up"] = "connected"
  PROVE  CrossInv'
  <1>1. OneInstance' /\ ClientKnown'
    BY DEF CrossInv, OneInstance, ClientKnown, Made
  <1>2. Awaited'
    BY DEF CrossInv, Awaited
  <1>3. LoopRuns'
    BY DEF CrossInv, LoopRuns, Made
  <1>. QED BY <1>1, <1>2, <1>3 DEF CrossInv

LEMMA CrossLoop ==
  ASSUME Known, CrossInv, NEW d \in Sessions, LoopStep(d)
  PROVE  CrossInv'
  <1>1. CASE LoopEnds(d) \/ ReplyFails(d)
    <2>1. /\ UNCHANGED <<dpc, pipe, handle, rpc>>
          /\ \A e \in Sessions : loop'[e] = loop[e] \/ loop'[e] \in {"read", "done"}
      BY <1>1 DEF LoopEnds, ReplyFails, Known, TypeInv, TypeOK
    <2>. QED BY <2>1, CrossTalk
  <1>2. ASSUME NEW c \in Sessions, LoopServes(d, c) PROVE CrossInv'
    <2>1. UNCHANGED <<dpc, pipe, handle>> /\ pipe[d]["up"] = "connected"
      BY <1>2 DEF LoopServes, Talks
    <2>2. \A e \in Sessions : loop'[e] = loop[e] \/ (e = d /\ loop'[e] = "reply")
      BY <1>2 DEF LoopServes, Known, TypeInv, TypeOK
    <2>3. request[c] \in {"path", "mode", "log"}
      BY <1>2 DEF LoopServes, Known, TypeInv, TypeOK, Questions
    <2>4. rpc[c] \in {"askPath", "askMode", "log"}
      BY <1>2, <2>3 DEF LoopServes, Known, OrderInv, DllOrder, AskedWith
    <2>5. \A b \in Sessions \ {c} : rpc'[b] = rpc[b]
      BY <1>2 DEF LoopServes, Known, TypeInv, TypeOK
    <2>. QED BY <2>1, <2>2, <2>4, <2>5, CrossTalk
  <1>. QED BY <1>1, <1>2 DEF LoopStep

LEMMA CrossOpen ==
  ASSUME Known, CrossInv, NEW c \in Sessions,
         \/ OpenPipe(c, "down", "openDown", "openUp")
         \/ OpenPipe(c, "up", "openUp", "askPath")
  PROVE  CrossInv'
  <1>1. PICK p \in Pipes, from \in DllStates, to \in DllStates :
          /\ \/ p = "down" /\ from = "openDown" /\ to = "openUp"
             \/ p = "up" /\ from = "openUp" /\ to = "askPath"
          /\ OpenPipe(c, p, from, to)
    BY DEF Pipes, DllStates
  <1>2. /\ rpc[c] = from /\ rpc'[c] = to /\ \A b \in Sessions \ {c} : rpc'[b] = rpc[b]
        /\ UNCHANGED <<dpc, loop>> /\ handle[c][p] = Nobody
    BY <1>1 DEF OpenPipe, Known, TypeInv, TypeOK, OrderInv, DllOrder
  <1>3. OneInstance'
    BY <1>1, MadeKept DEF DllStep, CrossInv, OneInstance, Known
  <1>4. LoopRuns'
    <2>1. \A e \in Sessions : Made(e, "up")' <=> Made(e, "up")
      BY MadeKept DEF DllStep, Known, Pipes
    <2>. QED BY <1>2, <2>1 DEF CrossInv, LoopRuns
  <1>5. ClientKnown' /\ Awaited'
    <2>1. CASE handle' = [handle EXCEPT ![c][p] = Nobody] /\ UNCHANGED pipe
      <3>1. \A d \in Sessions : pipe[d][p] # "listening"
        BY <1>1, <2>1, OpensListening, NobodyAssumption DEF OpenPipe, Known, TypeInv, TypeOK
      <3>2. \A b \in Sessions : \A q \in Pipes : handle'[b][q] = handle[b][q]
        BY <1>2, <2>1 DEF Known, TypeInv, TypeOK
      <3>3. ClientKnown'
        BY <2>1, <3>2 DEF CrossInv, ClientKnown
      <3>4. Awaited'
        BY <1>1, <1>2, <2>1, <3>1 DEF CrossInv, Awaited
      <3>. QED BY <3>3, <3>4
    <2>2. ASSUME NEW d \in Sessions, pipe[d][p] = "listening",
                 handle' = [handle EXCEPT ![c][p] = d],
                 pipe' = [pipe EXCEPT ![d][p] = "connected"]
          PROVE  ClientKnown' /\ Awaited'
      <3>1. /\ \A b \in Sessions : \A q \in Pipes :
                 handle'[b][q] = IF b = c /\ q = p THEN d ELSE handle[b][q]
            /\ \A e \in Sessions : \A q \in Pipes :
                 pipe'[e][q] = IF e = d /\ q = p THEN "connected" ELSE pipe[e][q]
        BY <2>2 DEF Known, TypeInv, TypeOK
      <3>2. pipe[c][p] = "listening" => c = d
        BY <2>2 DEF CrossInv, OneInstance, Made
      <3>3. ClientKnown'
        <4> SUFFICES ASSUME NEW e \in Sessions, NEW q \in Pipes, pipe'[e][q] = "connected"
                     PROVE  \E b \in Sessions : handle'[b][q] = e
          BY DEF ClientKnown
        <4>1. CASE e = d /\ q = p
          BY <3>1, <4>1
        <4>2. CASE ~(e = d /\ q = p)
          <5>1. PICK b \in Sessions : handle[b][q] = e
            BY <3>1, <4>2 DEF CrossInv, ClientKnown
          <5>2. ~(b = c /\ q = p)
            BY <1>2, <5>1, NobodyAssumption
          <5>. QED BY <3>1, <5>1, <5>2
        <4>. QED BY <4>1, <4>2
      <3>4. Awaited'
        BY <1>1, <1>2, <3>1, <3>2 DEF CrossInv, Awaited, Pipes
      <3>. QED BY <3>3, <3>4
    <2>. QED BY <1>1, <2>1, <2>2, OpenPipeOpens
  <1>. QED BY <1>3, <1>4, <1>5 DEF CrossInv

LEMMA CrossDll ==
  ASSUME Known, CrossInv, NEW c \in Sessions, DllStep(c)
  PROVE  CrossInv'
  <1>1. CASE OpenPipe(c, "down", "openDown", "openUp") \/ OpenPipe(c, "up", "openUp", "askPath")
    BY <1>1, CrossOpen
  <1>2. ASSUME NEW m \in {<<"askPath", "path">>, <<"askMode", "mode">>, <<"log", "log">>},
               Write(c, m[1], m[2]) \/ WriteFails(c, m[1], m[2])
        PROVE  CrossInv'
    <2>1. /\ UNCHANGED <<dpc, loop, pipe, handle>>
          /\ rpc[c] \in {"askPath", "askMode", "log"}
          /\ \A b \in Sessions \ {c} : rpc'[b] = rpc[b]
      BY <1>2 DEF Write, WriteFails, Known, TypeInv, TypeOK
    <2>. QED BY <2>1, CrossTalk
  <1>3. ASSUME NEW m \in {<<"path", "getPath", "askMode">>, <<"mode", "getMode", "log">>},
               ReadAnswer(c, m[1], m[2], m[3]) \/ ReadFails(c, m[1], m[2], m[3])
        PROVE  CrossInv'
    <2>1. /\ UNCHANGED <<dpc, pipe, handle>>
          /\ rpc[c] \in {"getPath", "getMode"}
          /\ \A b \in Sessions \ {c} : rpc'[b] = rpc[b]
          /\ \A e \in Sessions : loop'[e] = loop[e] \/ loop'[e] = "read"
      BY <1>3 DEF ReadAnswer, ReadFails, Known, TypeInv, TypeOK
    <2>. QED BY <2>1, CrossTalk
  <1>. QED BY <1>1, <1>2, <1>3 DEF DllStep

LEMMA CrossTargetEnds ==
  ASSUME Known, CrossInv, NEW c \in Sessions, TargetEnds(c)
  PROVE  CrossInv'
  <1>1. /\ UNCHANGED <<dpc, loop>>
        /\ rpc'[c] = "gone" /\ \A b \in Sessions \ {c} : rpc'[b] = rpc[b] /\ handle'[b] = handle[b]
    BY DEF TargetEnds, Known, TypeInv, TypeOK
  <1>2. \A d \in Sessions : \A p \in Pipes :
          pipe'[d][p] = IF handle[c][p] = d /\ pipe[d][p] = "connected" THEN "left" ELSE pipe[d][p]
    BY DEF TargetEnds
  <1>3. OneInstance'
    BY MadeKept DEF CrossInv, OneInstance, Known
  <1>4. LoopRuns'
    <2>1. \A e \in Sessions : Made(e, "up")' <=> Made(e, "up")
      BY MadeKept DEF Known, Pipes
    <2>. QED BY <1>1, <2>1 DEF CrossInv, LoopRuns
  <1>5. ClientKnown'
    <2> SUFFICES ASSUME NEW e \in Sessions, NEW q \in Pipes, pipe'[e][q] = "connected"
                 PROVE  \E b \in Sessions : handle'[b][q] = e
      BY DEF ClientKnown
    <2>1. pipe[e][q] = "connected" /\ handle[c][q] # e
      BY <1>2
    <2>2. PICK b \in Sessions : handle[b][q] = e
      BY <2>1 DEF CrossInv, ClientKnown
    <2>. QED BY <1>1, <2>1, <2>2
  <1>6. Awaited'
    BY <1>1, <1>2 DEF CrossInv, Awaited, Pipes
  <1>. QED BY <1>3, <1>4, <1>5, <1>6 DEF CrossInv

LEMMA CrossInvariant == Spec => [](Known /\ StepInv /\ CrossInv)
  <1>1. Known /\ CrossInv /\ [Next]_vars => CrossInv'
    <2> SUFFICES ASSUME Known, CrossInv, [Next]_vars PROVE CrossInv'
      OBVIOUS
    <2>1. CASE UNCHANGED vars
      BY <2>1 DEF vars, CrossInv, OneInstance, ClientKnown, Awaited, LoopRuns, Made
    <2>. QED
      BY <2>1, CrossCreate, CrossMain, CrossEnds, GiveUpEnds, CrossLoop, CrossDll, CrossTargetEnds
         DEF Next, MainStep, ExitTarget, KillTarget
  <1>. QED BY <1>1, CrossInit, StepInvariant, LivingInvariant, PTL DEF Spec, Known

(* Who is at the pipes of dumper d.                                        *)
LEMMA AskerIs ==
  ASSUME Known, CrossInv, NEW d \in Sessions, Made(d, "up"),
         NEW c \in Sessions, Talks(c, "up")
  PROVE  handle[c]["up"] = d /\ Asker(c, d)
  <1>1. handle[c]["up"] \in Sessions /\ Made(handle[c]["up"], "up")
    BY DEF Talks, Made, Known, TypeInv, TypeOK, Pipes
  <1>2. handle[c]["up"] = d
    BY <1>1 DEF CrossInv, OneInstance, Pipes
  <1>. QED BY <1>2 DEF Asker

LEMMA ReaderIs ==
  ASSUME Known, CrossInv, NEW d \in Sessions, Made(d, "down"),
         NEW c \in Sessions, Talks(c, "down")
  PROVE  handle[c]["down"] = d /\ Reader(c, d)
  <1>1. handle[c]["down"] \in Sessions /\ Made(handle[c]["down"], "down")
    BY DEF Talks, Made, Known, TypeInv, TypeOK, Pipes
  <1>2. handle[c]["down"] = d
    BY <1>1 DEF CrossInv, OneInstance, Pipes
  <1>. QED BY <1>2 DEF Reader

LEMMA ClientOf ==
  ASSUME CrossInv, NEW d \in Sessions, d # Nobody, NEW p \in Pipes, pipe[d][p] = "connected"
  PROVE  \E c \in Sessions : Talks(c, p) /\ handle[c][p] = d
  BY DEF CrossInv, ClientKnown, Talks

(* ConnectNamedPipe of d waits for the DLL of d, which opens both pipes    *)
(* without waiting for anything: only its death keeps d there.             *)
LEMMA ConnectWaitsForOwn ==
  ASSUME Known, CrossInv, NEW d \in Sessions, dpc[d] \in {"connectDown", "connectUp"}, ~MayStep(d)
  PROVE  Abandoned(d)
  <1>1. pipe[d]["down"] = "listening" \/ pipe[d]["up"] = "listening"
    BY DEF MayStep, MainMayStep, Connects
  <1>2. rpc[d] \in {"none", "openDown", "openUp", "gone"}
    BY <1>1 DEF CrossInv, Awaited
  <1>3. rpc[d] # "none"
    BY DEF Known, LivingInv, Alive, BeforeLaunch
  <1>. QED BY <1>2, <1>3 DEF MayStep, DllMayStep, Abandoned

(* Nobody can give an answer in vain: the DLL it is for is on its way to   *)
(* the ReadFile that takes it, because the question it would have to ask   *)
(* before that is the one being answered.                                  *)
LEMMA AnswersAreTaken ==
  ASSUME Known, StepInv, CrossInv, StandsStill, NEW d \in Sessions
  PROVE  loop[d] # "reply"
  <1> SUFFICES ASSUME loop[d] = "reply" PROVE FALSE
    OBVIOUS
  <1>1. pipe[d]["down"] = "connected"
    BY DEF StandsStill, MayStep, LoopMayStep
  <1>2. PICK c \in Sessions : Reader(c, d)
    BY <1>1, ClientOf, NobodyAssumption DEF Reader, Pipes
  <1>3. rpc[c] \in {"askPath", "askMode"}
    <2>1. rpc[c] \in FirstPhase \cup SecondPhase
      BY <1>2 DEF StepInv, ReaderPhase
    <2>2. rpc[c] \notin {"getPath", "getMode"}
      BY <1>2 DEF StandsStill, MayStep, DllMayStep, Reader
    <2>. QED BY <2>1, <2>2 DEF StandsStill, MayStep, DllMayStep, FirstPhase, SecondPhase
  <1>4. Asker(c, d)
    <2>1. Talks(c, "up")
      BY <1>3 DEF StandsStill, MayStep, DllMayStep
    <2>2. Made(d, "up")
      BY DEF CrossInv, LoopRuns
    <2>. QED BY <2>1, <2>2, AskerIs
  <1>5. \/ replying[d] = "path" /\ rpc[c] \in FirstPhase \cap {"getPath", "askMode"}
        \/ replying[d] = "mode" /\ rpc[c] \in SecondPhase \cap {"getMode", "log"}
    BY <1>2, <1>4 DEF StepInv, AskerPhase, ReaderPhase
  <1>. QED BY <1>3, <1>5 DEF FirstPhase, SecondPhase

(* A dumper whose pipe somebody has open is abandoned, or its loop reads.  *)
LEMMA MadeMeansReads ==
  ASSUME Known, StepInv, CrossInv, StandsStill, NEW d \in Sessions, NEW p \in Pipes, Made(d, p)
  PROVE  Abandoned(d) \/ (dpc[d] = "wait" /\ loop[d] = "read")
  <1>1. Alive(d)
    BY DEF Known, LivingInv
  <1>2. dpc[d] \in {"connectDown", "connectUp", "wait"}
    BY <1>1 DEF StandsStill, MayStep, MainMayStep, Alive, Known, TypeInv, TypeOK, DumperStates
  <1>3. CASE dpc[d] \in {"connectDown", "connectUp"}
    BY <1>3, ConnectWaitsForOwn DEF StandsStill
  <1>4. CASE dpc[d] = "wait"
    <2>1. loop[d] \in {"none", "read", "reply", "done"}
      BY DEF Known, TypeInv, TypeOK, LoopStates
    <2>2. loop[d] # "none"
      BY <1>4 DEF CrossInv, LoopRuns
    <2>3. loop[d] # "done"
      BY <1>4 DEF StandsStill, MayStep, MainMayStep
    <2>. QED BY <1>4, <2>1, <2>2, <2>3, AnswersAreTaken
  <1>. QED BY <1>2, <1>3, <1>4

(* A loop that reads has a client with nothing to say.                     *)
LEMMA QuietAsker ==
  ASSUME Known, CrossInv, StandsStill, NEW d \in Sessions, loop[d] = "read"
  PROVE  /\ Made(d, "up")
         /\ \E e \in Sessions : Asker(e, d) /\ rpc[e] \in {"getPath", "getMode", "run"}
  <1>1. pipe[d]["up"] = "connected" /\ \A c \in Sessions : ~WritesTo(c, d)
    BY DEF StandsStill, MayStep, LoopMayStep
  <1>2. PICK e \in Sessions : Asker(e, d)
    BY <1>1, ClientOf, NobodyAssumption DEF Asker, Pipes
  <1>3. request[e] = Nobody
    BY <1>1, <1>2 DEF WritesTo, Asker
  <1>4. rpc[e] \notin {"none", "openDown", "openUp", "gone"}
    BY <1>2, NobodyAssumption DEF Known, OrderInv, DllOrder, Asker, Talks
  <1>5. rpc[e] \in {"getPath", "getMode", "run"}
    BY <1>3, <1>4 DEF StandsStill, MayStep, DllMayStep, Known, TypeInv, TypeOK, DllStates
  <1>. QED BY <1>1, <1>2, <1>5 DEF Made

(* The pipe that a loop reads has the handle of a target that runs, and    *)
(* the loop's answers have no reader left in DllMain.                      *)
LEMMA ReadingIsDone ==
  ASSUME Known, StepInv, CrossInv, StandsStill, NEW d \in Sessions, loop[d] = "read"
  PROVE  /\ \E e \in Sessions : Asker(e, d) /\ rpc[e] = "run"
         /\ \A c \in Sessions : Reader(c, d) => rpc[c] \in LastPhase
  <1>1. PICK e \in Sessions : Asker(e, d) /\ rpc[e] \in {"getPath", "getMode", "run"}
    BY QuietAsker
  <1>2. Made(d, "up")
    BY QuietAsker
  <1>3. rpc[e] \notin {"getPath", "getMode"}
    <2> SUFFICES ASSUME rpc[e] \in {"getPath", "getMode"} PROVE FALSE
      OBVIOUS
    <2>1. Talks(e, "down") /\ handle[e]["down"] \in Sessions
      BY DEF StandsStill, MayStep, DllMayStep, Talks, Known, TypeInv, TypeOK, Pipes
    <2>2. PICK g \in Sessions : Reader(e, g) /\ Made(g, "down")
      BY <2>1 DEF Reader, Talks, Made
    <2>3. CASE g = d
      <3>1. rpc[e] \in SecondPhase \cup LastPhase /\ (rpc[e] = "getMode" => rpc[e] \in LastPhase)
        BY <1>1, <2>2, <2>3 DEF StepInv, TogetherPhase
      <3>. QED BY <3>1 DEF SecondPhase, LastPhase
    <2>4. CASE g # d
      <3>1. \/ Abandoned(g)
            \/ loop[g] = "read"
        BY <2>2, MadeMeansReads DEF Pipes
      <3>2. ~Made(g, "up")
        BY <1>2, <2>4 DEF CrossInv, OneInstance, Pipes
      <3>3. loop[g] # "read"
        BY <3>2, QuietAsker
      <3>4. dpc[g] = "connectDown"
        <4>1. dpc[g] = "connectUp" => pipe[g]["up"] = "listening"
          BY DEF StandsStill, MayStep, MainMayStep, Connects
        <4>. QED BY <3>1, <3>2, <3>3, <4>1 DEF Abandoned, Made
      <3>5. pipe[g]["down"] = "listening"
        BY <3>4 DEF StandsStill, MayStep, MainMayStep, Connects
      <3>. QED BY <2>2, <3>5 DEF Reader, Talks
    <2>. QED BY <2>3, <2>4
  <1>. QED BY <1>1, <1>3 DEF StepInv, TogetherPhase

(* However many sessions there are and however their pipes are crossed,    *)
(* only abandoned dumpers hold anybody up.                                 *)
THEOREM NoCircleOfSessions == Spec => []StuckOnlyAtAbandoned
  <1>1. Known /\ StepInv /\ CrossInv => StuckOnlyAtAbandoned
    <2> SUFFICES ASSUME Known, StepInv, CrossInv, StandsStill, NEW s \in Sessions
                 PROVE  /\ dpc[s] \in {"connectDown", "connectUp"} => Abandoned(s)
                        /\ rpc[s] \notin {"none", "run", "gone"} =>
                             \E d \in Sessions : Abandoned(d) /\ \E p \in Pipes : handle[s][p] = d
                        /\ dpc[s] = "wait" =>
                             \E c \in Sessions :
                               Talks(c, "up") /\ handle[c]["up"] = s /\ rpc[c] = "run"
      BY DEF StuckOnlyAtAbandoned
    <2>1. dpc[s] \in {"connectDown", "connectUp"} => Abandoned(s)
      BY ConnectWaitsForOwn DEF StandsStill
    <2>2. ASSUME rpc[s] \notin {"none", "run", "gone"}
          PROVE  \E d \in Sessions : Abandoned(d) /\ \E p \in Pipes : handle[s][p] = d
      <3>1. rpc[s] \in {"askPath", "getPath", "askMode", "getMode", "log"}
        BY <2>2 DEF StandsStill, MayStep, DllMayStep, Known, TypeInv, TypeOK, DllStates
      <3>2. CASE rpc[s] \in {"askPath", "askMode", "log"}
        <4>1. Talks(s, "up") /\ request[s] # Nobody
          BY <3>2 DEF StandsStill, MayStep, DllMayStep
        <4>2. PICK d \in Sessions : WritesTo(s, d) /\ handle[s]["up"] = d /\ Made(d, "up")
          <5>1. handle[s]["up"] \in Sessions
            BY <4>1 DEF Talks, Known, TypeInv, TypeOK, Pipes
          <5>. QED BY <4>1, <5>1 DEF WritesTo, Talks, Made
        <4>3. loop[d] # "read"
          BY <4>2 DEF StandsStill, MayStep, LoopMayStep
        <4>4. Abandoned(d)
          BY <4>2, <4>3, MadeMeansReads DEF Pipes
        <4>. QED BY <4>2, <4>4 DEF Pipes
      <3>3. CASE rpc[s] \in {"getPath", "getMode"}
        <4>1. Talks(s, "down")
          BY <3>3 DEF StandsStill, MayStep, DllMayStep
        <4>2. PICK d \in Sessions : Reader(s, d) /\ Made(d, "down")
          <5>1. handle[s]["down"] \in Sessions
            BY <4>1 DEF Talks, Known, TypeInv, TypeOK, Pipes
          <5>. QED BY <4>1, <5>1 DEF Reader, Talks, Made
        <4>3. loop[d] # "read"
          BY <3>3, <4>2, ReadingIsDone DEF LastPhase
        <4>4. Abandoned(d)
          BY <4>2, <4>3, MadeMeansReads DEF Pipes
        <4>. QED BY <4>2, <4>4 DEF Reader, Pipes
      <3>. QED BY <3>1, <3>2, <3>3
    <2>3. ASSUME dpc[s] = "wait"
          PROVE  \E c \in Sessions : Talks(c, "up") /\ handle[c]["up"] = s /\ rpc[c] = "run"
      <3>1. loop[s] = "read"
        <4>1. loop[s] \in {"none", "read", "reply", "done"}
          BY DEF Known, TypeInv, TypeOK, LoopStates
        <4>2. loop[s] # "none" /\ loop[s] # "done"
          BY <2>3 DEF CrossInv, LoopRuns, StandsStill, MayStep, MainMayStep
        <4>. QED BY <4>1, <4>2, AnswersAreTaken
      <3>. QED BY <3>1, ReadingIsDone DEF Asker
    <2>. QED BY <2>1, <2>2, <2>3
  <1>. QED BY <1>1, CrossInvariant, PTL

-----------------------------------------------------------------------------
(* Sessions run down.                                                      *)

LEMMA LeftIsNat ==
  ASSUME TypeInv, NEW s \in Sessions
  PROVE  Left(s) \in Nat
  <1>1. dpc[s] \in DumperStates /\ rpc[s] \in DllStates
    BY DEF TypeInv, TypeOK
  <1>2. MainLeft[dpc[s]] \in Nat
    BY <1>1 DEF MainLeft, DumperStates
  <1>3. DllLeft[rpc[s]] \in Nat
    BY <1>1 DEF DllLeft, DllStates
  <1>. QED BY <1>2, <1>3 DEF Left

LEMMA OneGetsFurther ==
  ASSUME TypeInv, NEW c \in Sessions, Left(c)' \in Nat, Left(c)' < Left(c),
         \A b \in Sessions \ {c} : dpc'[b] = dpc[b] /\ rpc'[b] = rpc[b] /\ request'[b] = request[b]
  PROVE  RunsDown
  <1>1. \A b \in Sessions : Left(b)' <= Left(b)
    <2> SUFFICES ASSUME NEW b \in Sessions PROVE Left(b)' <= Left(b)
      OBVIOUS
    <2>1. CASE b = c
      <3>1. Left(c) \in Nat
        BY LeftIsNat
      <3>. QED BY <2>1, <3>1
    <2>2. CASE b # c
      <3>1. Left(b)' = Left(b)
        BY <2>2 DEF Left
      <3>. QED BY <3>1, LeftIsNat
    <2>. QED BY <2>1, <2>2
  <1>. QED BY <1>1 DEF RunsDown

(* main gets further.                                                      *)
LEMMA MainGetsFurther ==
  ASSUME TypeInv, OrderInv, NEW d \in Sessions,
         CreateDown(d) \/ MainStep(d) \/ KillDumper(d)
  PROVE  RunsDown
  <1> USE DEF TypeInv, TypeOK
  <1>1. UNCHANGED request /\ \A b \in Sessions \ {d} : dpc'[b] = dpc[b] /\ rpc'[b] = rpc[b]
    BY DEF MainStep, CreateDown, CreateUp, CreatePipe, LaunchTarget, WaitForConnection, SpawnLoop,
       ResumeTarget, WaitLoop, GiveUp, KillDumper, DumperEnds, MainGoes
  <1>2. rpc'[d] = rpc[d] \/ (rpc[d] = "none" /\ rpc'[d] \in {"openDown", "gone"})
    BY DEF MainStep, CreateDown, CreateUp, CreatePipe, LaunchTarget, WaitForConnection, SpawnLoop,
       ResumeTarget, WaitLoop, GiveUp, KillDumper, DumperEnds, MainGoes, OrderInv, DumperOrder, BeforeLaunch
  <1>3. <<dpc[d], dpc'[d]>> \in
          {<<"start", "madeDown">>, <<"madeDown", "made">>, <<"made", "connectDown">>,
           <<"connectDown", "connectUp">>, <<"connectUp", "spawn">>, <<"spawn", "remote">>,
           <<"remote", "wait">>, <<"wait", "ended">>}
        \/ (dpc[d] \notin {"start", "ended", "killed"} /\ dpc'[d] = "killed")
    BY DEF MainStep, CreateDown, CreateUp, LaunchTarget, WaitForConnection, SpawnLoop,
       ResumeTarget, WaitLoop, GiveUp, KillDumper, DumperEnds, MainGoes, Alive
  <1>4. MainLeft[dpc'[d]] < MainLeft[dpc[d]] /\ MainLeft[dpc'[d]] \in Nat /\ MainLeft[dpc[d]] \in Nat
    <2>1. dpc[d] \in DumperStates
      OBVIOUS
    <2>. QED BY <1>3, <2>1 DEF MainLeft, DumperStates
  <1>5. DllLeft[rpc'[d]] <= DllLeft[rpc[d]] /\ DllLeft[rpc'[d]] \in Nat /\ DllLeft[rpc[d]] \in Nat
    <2>1. rpc[d] \in DllStates
      OBVIOUS
    <2>. QED BY <1>2, <2>1 DEF DllLeft, DllStates
  <1>6. Left(d)' \in Nat /\ Left(d)' < Left(d)
    BY <1>1, <1>4, <1>5 DEF Left
  <1>. QED BY <1>1, <1>6, OneGetsFurther

(* A DLL gets further: past a call, or into a WriteFile.                   *)
DllSteps ==
  {<<"openDown", "openUp">>, <<"openUp", "askPath">>, <<"askPath", "getPath">>,
   <<"getPath", "askMode">>, <<"askMode", "getMode">>, <<"getMode", "log">>, <<"log", "run">>}

LEMMA DllGetsFurther ==
  ASSUME TypeInv, NEW c \in Sessions, UNCHANGED dpc,
         \A b \in Sessions \ {c} : rpc'[b] = rpc[b] /\ request'[b] = request[b],
         \/ <<rpc[c], rpc'[c]>> \in DllSteps
         \/ rpc[c] \notin {"none", "gone"} /\ rpc'[c] = "gone"
         \/ rpc'[c] = rpc[c] /\ request[c] = Nobody /\ request'[c] # Nobody
  PROVE  RunsDown
  <1>1. MainLeft[dpc[c]] \in Nat
    BY DEF TypeInv, TypeOK, MainLeft, DumperStates
  <1>2. rpc[c] \in DllStates /\ DllLeft[rpc[c]] \in Nat
    BY DEF TypeInv, TypeOK, DllLeft, DllStates
  <1>3. CASE <<rpc[c], rpc'[c]>> \in DllSteps \/ (rpc[c] \notin {"none", "gone"} /\ rpc'[c] = "gone")
    <2>1. DllLeft[rpc'[c]] \in Nat /\ DllLeft[rpc'[c]] + 2 <= DllLeft[rpc[c]]
      BY <1>2, <1>3 DEF DllLeft, DllStates, DllSteps
    <2>2. Left(c)' \in Nat /\ Left(c)' < Left(c)
      BY <1>1, <1>2, <2>1 DEF Left
    <2>. QED BY <2>2, OneGetsFurther
  <1>4. CASE rpc'[c] = rpc[c] /\ request[c] = Nobody /\ request'[c] # Nobody
    <2>1. Left(c)' \in Nat /\ Left(c)' < Left(c)
      BY <1>1, <1>2, <1>4 DEF Left
    <2>. QED BY <1>4, <2>1, OneGetsFurther
  <1>. QED BY <1>3, <1>4

LEMMA DllRunsDown ==
  ASSUME TypeInv, NEW c \in Sessions, DllStep(c)
  PROVE  RunsDown
  <1>1. UNCHANGED dpc /\ \A b \in Sessions \ {c} : rpc'[b] = rpc[b] /\ request'[b] = request[b]
    BY DEF DllStep, OpenPipe, Write, WriteFails, ReadAnswer, ReadFails, TypeInv, TypeOK
  <1>2. CASE OpenPipe(c, "down", "openDown", "openUp") \/ OpenPipe(c, "up", "openUp", "askPath")
    <2>1. <<rpc[c], rpc'[c]>> \in DllSteps
      BY <1>2 DEF OpenPipe, DllSteps, TypeInv, TypeOK
    <2>. QED BY <1>1, <2>1, DllGetsFurther
  <1>3. ASSUME NEW m \in {<<"askPath", "path">>, <<"askMode", "mode">>, <<"log", "log">>},
               Write(c, m[1], m[2])
        PROVE  RunsDown
    <2>1. rpc'[c] = rpc[c] /\ request[c] = Nobody /\ request'[c] # Nobody
      BY <1>3, NobodyAssumption DEF Write, TypeInv, TypeOK
    <2>. QED BY <1>1, <2>1, DllGetsFurther
  <1>4. ASSUME NEW m \in {<<"askPath", "path">>, <<"askMode", "mode">>, <<"log", "log">>},
               WriteFails(c, m[1], m[2])
        PROVE  RunsDown
    <2>1. <<rpc[c], rpc'[c]>> \in DllSteps
      BY <1>4 DEF WriteFails, AfterWrite, DllSteps, TypeInv, TypeOK
    <2>. QED BY <1>1, <2>1, DllGetsFurther
  <1>5. ASSUME NEW m \in {<<"path", "getPath", "askMode">>, <<"mode", "getMode", "log">>},
               ReadAnswer(c, m[1], m[2], m[3]) \/ ReadFails(c, m[1], m[2], m[3])
        PROVE  RunsDown
    <2>1. <<rpc[c], rpc'[c]>> \in DllSteps
      BY <1>5 DEF ReadAnswer, ReadFails, DllSteps, TypeInv, TypeOK
    <2>. QED BY <1>1, <2>1, DllGetsFurther
  <1>. QED BY <1>2, <1>3, <1>4, <1>5 DEF DllStep

LEMMA LoopRunsDown ==
  ASSUME TypeInv, OrderInv, NEW d \in Sessions, LoopStep(d)
  PROVE  RunsDown
  <1>1. CASE LoopEnds(d) \/ ReplyFails(d)
    <2>1. /\ UNCHANGED <<dpc, rpc, request>>
          /\ LoopLeft[loop'[d]] < LoopLeft[loop[d]]
          /\ \A e \in Sessions \ {d} : loop'[e] = loop[e]
      BY <1>1 DEF LoopEnds, ReplyFails, LoopLeft, TypeInv, TypeOK
    <2>2. \A s \in Sessions : Left(s)' <= Left(s)
      <3> SUFFICES ASSUME NEW s \in Sessions PROVE Left(s)' <= Left(s)
        OBVIOUS
      <3>1. Left(s)' = Left(s)
        BY <2>1 DEF Left
      <3>. QED BY <3>1, LeftIsNat
    <2>. QED BY <2>1, <2>2 DEF RunsDown
  <1>2. ASSUME NEW c \in Sessions, LoopServes(d, c) PROVE RunsDown
    <2>1. UNCHANGED dpc /\ \A b \in Sessions \ {c} : rpc'[b] = rpc[b] /\ request'[b] = request[b]
      BY <1>2 DEF LoopServes, TypeInv, TypeOK
    <2>2. request[c] \in {"path", "mode", "log"}
      BY <1>2 DEF LoopServes, TypeInv, TypeOK, Questions
    <2>3. <<rpc[c], rpc'[c]>> \in DllSteps
      BY <1>2, <2>2 DEF LoopServes, OrderInv, DllOrder, AskedWith, AfterWrite, DllSteps, TypeInv, TypeOK
    <2>. QED BY <2>1, <2>3, DllGetsFurther
  <1>. QED BY <1>1, <1>2 DEF LoopStep

(* Every step of any number of sessions, crashes included, uses up some of *)
(* what they have left to do.                                              *)
THEOREM SessionsEndInTime == Spec => SessionsRunDown
  <1>1. TypeInv /\ OrderInv /\ [Next]_vars => [RunsDown]_vars
    <2> SUFFICES ASSUME TypeInv, OrderInv, Next PROVE RunsDown
      OBVIOUS
    <2>1. ASSUME NEW c \in Sessions, ExitTarget(c) \/ KillTarget(c) PROVE RunsDown
      <3>1. /\ UNCHANGED dpc /\ \A b \in Sessions \ {c} : rpc'[b] = rpc[b] /\ request'[b] = request[b]
            /\ rpc[c] \notin {"none", "gone"} /\ rpc'[c] = "gone"
        BY <2>1 DEF ExitTarget, KillTarget, TargetEnds, TypeInv, TypeOK
      <3>. QED BY <3>1, DllGetsFurther
    <2>. QED BY <2>1, MainGetsFurther, DllRunsDown, LoopRunsDown DEF Next
  <1>. QED BY <1>1, OrderInvariant, PTL DEF Spec, SessionsRunDown
=============================================================================
