--------------------------- MODULE InjectionProofs ----------------------------
(* Theorems about Injection, for every set of threads and every bound.     *)
EXTENDS Injection, SequenceTheorems, TLAPS

(* Every reply the loop makes to a request it can receive is well typed.   *)
LEMMA ReplyType ==
  ASSUME arg \in Modes, NEW m \in Messages
  PROVE  Reply(m) \in Replies
  BY DEF Reply, StringValue, IntValue, Replies, Modes, ScriptModes, ApiModes

(* Withdrawing the unread tail of the written messages leaves messages.    *)
LEMMA WithdrawType ==
  ASSUME sent \in Seq(Messages), up \in Seq(Messages)
  PROVE  SubSeq(sent, 1, Len(sent) - Len(up)) \in Seq(Messages)
  <1>1. Len(sent) \in Nat /\ Len(up) \in Nat
    BY LenProperties
  <1>2. CASE Len(sent) - Len(up) < 1
    BY <1>1, <1>2, SubSeqProperties
  <1>3. CASE Len(sent) - Len(up) >= 1
    BY <1>1, <1>3, SubSeqProperties
  <1>. QED BY <1>1, <1>2, <1>3

-----------------------------------------------------------------------------
(* Type correctness                                                        *)

(* The dumper runs with a valid mode once its arguments are parsed.        *)
ArgValid == dpc \notin {"parse", "exited"} => arg \in Modes
LoopHasArg == spc \notin {"none", "dead", "done"} => dpc \in {"waitRemote", "resume", "waitLoop"}
BufferFull == spc = "dispatch" => buf # <<>>
TypeInv == TypeOK /\ ArgValid /\ LoopHasArg /\ BufferFull

LEMMA TypeInit == Init => TypeInv
  BY EmptySeq, HostLogsAssumption DEF Init, LinkInit, TypeInv, TypeOK, ArgValid, LoopHasArg, BufferFull, Pipes, Modes, ScriptModes, ApiModes, DumperStates,
         LoopStates, TargetStates, RemoteStates, Paths, HookTypes

LEMMA TypeDumperExits == TypeInv /\ DumperExits /\ UNCHANGED targetVars => TypeInv'
  BY EmptySeq DEF TypeInv, TypeOK, ArgValid, LoopHasArg, BufferFull, DumperExits, DropServer,
         targetVars, DumperStates, LoopStates

LEMMA TypeMain == TypeInv /\ MainStep => TypeInv'
  <1> SUFFICES ASSUME TypeInv, MainStep PROVE TypeInv'
    OBVIOUS
  <1> USE DEF TypeInv, TypeOK, ArgValid, LoopHasArg, BufferFull, DumperStates, LoopStates,
          MainMoves, linkVars, targetVars
  <1>0. CASE DumperExits /\ UNCHANGED targetVars
    BY <1>0, TypeDumperExits
  <1>1. CASE ParseArguments
    BY <1>0, <1>1 DEF ParseArguments
  <1>2. CASE InitNamedPipe
    BY <1>2 DEF InitNamedPipe
  <1>3. CASE FindSpoofProcess
    BY <1>0, <1>3 DEF FindSpoofProcess
  <1>4. CASE CreateTarget
    BY <1>0, <1>4 DEF CreateTarget, TargetStates
  <1>5. CASE AllocInTarget
    BY <1>0, <1>5 DEF AllocInTarget
  <1>6. CASE InjectThread
    BY <1>6 DEF InjectThread, RemoteStates
  <1>7. CASE WaitForConnection
    BY <1>7 DEF WaitForConnection
  <1>8. CASE SpawnLoop
    BY <1>0, <1>8 DEF SpawnLoop
  <1>9. CASE WaitRemote
    BY <1>9 DEF WaitRemote
  <1>10. CASE ResumeTarget
    BY <1>10 DEF ResumeTarget, TargetStates
  <1>11. CASE WaitLoop
    BY <1>0, <1>11 DEF WaitLoop
  <1>. QED
    BY <1>1, <1>2, <1>3, <1>4, <1>5, <1>6, <1>7, <1>8, <1>9, <1>10, <1>11 DEF MainStep

LEMMA TypeLoop == TypeInv /\ LoopStep => TypeInv'
  <1> SUFFICES ASSUME TypeInv, LoopStep PROVE TypeInv'
    OBVIOUS
  <1> USE DEF TypeInv, TypeOK, ArgValid, LoopHasArg, BufferFull, LoopStates, targetVars
  <1>1. CASE LoopRead
    BY <1>1, EmptySeq DEF LoopRead
  <1>2. CASE LoopDispatch
    <2>1. arg \in Modes /\ Head(buf) \in Messages
      BY <1>2, HeadTailProperties DEF LoopDispatch
    <2>2. Reply(Head(buf)) \in Replies
      BY <2>1, ReplyType
    <2>3. Append(handled, Head(buf)) \in Seq(Messages) /\ Append(down, Reply(Head(buf))) \in Seq(Replies)
      BY <2>1, <2>2, AppendProperties
    <2>. QED BY <1>2, <2>3, EmptySeq DEF LoopDispatch
  <1>3. CASE ReplyReturns
    BY <1>3 DEF ReplyReturns, linkVars
  <1>. QED BY <1>1, <1>2, <1>3 DEF LoopStep

(* The calls on the pipes keep the pipes' variables typed.                 *)
LinkTyped ==
  /\ srv \in {"unmade", "open", "closed"}
  /\ cli \in [Pipes -> {"unopened", "open", "invalid", "closed"}]
  /\ up \in Seq(Messages) /\ sent \in Seq(Messages)
  /\ down \in Seq(Replies)
  /\ writer \in Threads \cup {NoThread}

LEMMA BeginWriteType ==
  ASSUME LinkTyped, NEW t \in Threads, NEW m \in Messages, BeginWrite(t, m)
  PROVE  LinkTyped'
  <1>1. Append(up, m) \in Seq(Messages) /\ Append(sent, m) \in Seq(Messages)
    BY AppendProperties DEF LinkTyped
  <1>. QED BY <1>1 DEF LinkTyped, BeginWrite

LEMMA CancelWriteType ==
  ASSUME LinkTyped, CancelWrite
  PROVE  up' \in Seq(Messages) /\ sent' \in Seq(Messages) /\ writer' = NoThread
  BY WithdrawType, EmptySeq DEF LinkTyped, CancelWrite

LEMMA DropClientType ==
  ASSUME LinkTyped, DropClient
  PROVE  LinkTyped'
  BY CancelWriteType, EmptySeq DEF LinkTyped, DropClient

LEMMA MessageKinds ==
  /\ AskString \in Messages
  /\ AskInt \in Messages
  /\ \A b \in LogBodies : LogMsg(b) \in Messages
  BY DEF Messages

LEMMA NamedThreads == "remote" \in Threads /\ "detach" \in Threads /\ HostThreads \subseteq Threads
  BY ThreadAssumption

LEMMA TypeRemote == TypeInv /\ RemoteStep => TypeInv'
  <1> SUFFICES ASSUME TypeInv, RemoteStep PROVE TypeInv'
    OBVIOUS
  <1> DEFINE Local == /\ dumpPath \in Paths /\ hookType \in HookTypes
                      /\ engine \in {"uninit", "ok", "failed"}
                      /\ hook \in {"none", "callback", "created", "enabled"}
  <1>1. UNCHANGED <<dumperVars, tstate, hostLogs>>
    BY DEF RemoteStep, LoadLibrary, OpenPipes, SendRequest, GetStringResult, GetIntResult,
           AttachLog, InitEngine, CreateHook, RegisterCallback,
           CreateApiHook, CreateNativeHook, EnableHook, DllMainReturns
  <1>2. rpc' \in RemoteStates
    BY DEF RemoteStep, LoadLibrary, OpenPipes, SendRequest, GetStringResult, GetIntResult,
           AttachLog, InitEngine, CreateHook,
           RegisterCallback, CreateApiHook, CreateNativeHook, EnableHook, DllMainReturns, RemoteMoves,
           RemoteStates, Attaching
  <1>3. LinkTyped /\ Local
    BY DEF TypeInv, TypeOK, LinkTyped
  <1>5. LinkTyped' /\ Local'
    <2>1. CASE LoadLibrary
      BY <1>3, <2>1 DEF LoadLibrary, LinkTyped, linkVars
    <2>2. CASE OpenPipes
      BY <1>3, <2>2 DEF OpenPipes, OpenClient, LinkTyped
    <2>3. CASE SendRequest
      <3>1. BeginWrite("remote", AskString) \/ BeginWrite("remote", AskInt)
        BY <2>3 DEF SendRequest
      <3>2. LinkTyped'
        BY <1>3, <3>1, BeginWriteType, MessageKinds, NamedThreads
      <3>. QED BY <1>3, <2>3, <3>2 DEF SendRequest
    <2>4. CASE GetStringResult
      <3>1. down' \in Seq(Replies)
        BY <1>3, <2>4, HeadTailProperties DEF GetStringResult, ReadsReply, LinkTyped
      <3>2. dumpPath' \in Paths
        <4>1. CASE ReadsReply
          <5>1. Head(down) \in Replies
            BY <1>3, <4>1, HeadTailProperties DEF ReadsReply, LinkTyped
          <5>. QED BY <2>4, <4>1, <5>1 DEF GetStringResult, Replies, Paths, ReadFails, ReadsReply
        <4>. QED BY <2>4, <4>1 DEF GetStringResult, Paths
      <3>. QED BY <1>3, <2>4, <3>1, <3>2 DEF GetStringResult, LinkTyped
    <2>5. CASE GetIntResult
      <3>1. down' \in Seq(Replies)
        BY <1>3, <2>5, HeadTailProperties DEF GetIntResult, ReadsReply, LinkTyped
      <3>2. hookType' \in HookTypes
        <4>1. CASE ReadsReply
          <5>1. Head(down) \in Replies
            BY <1>3, <4>1, HeadTailProperties DEF ReadsReply, LinkTyped
          <5>. QED BY <2>5, <4>1, <5>1 DEF GetIntResult, Replies, HookTypes, ReadFails, ReadsReply
        <4>. QED BY <2>5, <4>1 DEF GetIntResult, HookTypes
      <3>. QED BY <1>3, <2>5, <3>1, <3>2 DEF GetIntResult, LinkTyped
    <2>6. CASE AttachLog
      <3>1. \/ UNCHANGED linkVars
            \/ \E b \in LogBodies : BeginWrite("remote", LogMsg(b))
        BY <2>6 DEF AttachLog, LogBodies
      <3>2. LinkTyped'
        <4>1. CASE UNCHANGED linkVars
          BY <1>3, <4>1 DEF LinkTyped, linkVars
        <4>. QED BY <1>3, <3>1, <4>1, BeginWriteType, MessageKinds, NamedThreads
      <3>. QED BY <1>3, <2>6, <3>2 DEF AttachLog
    <2>7. CASE InitEngine
      BY <1>3, <2>7 DEF InitEngine, LinkTyped, linkVars
    <2>8. CASE CreateHook
      BY <1>3, <2>8 DEF CreateHook,
           RegisterCallback, CreateApiHook, CreateNativeHook, LinkTyped, linkVars
    <2>9. CASE EnableHook
      BY <1>3, <2>9 DEF EnableHook, LinkTyped, linkVars
    <2>10. CASE DllMainReturns
      BY <1>3, <2>10 DEF DllMainReturns, LinkTyped, linkVars
    <2>. QED BY <2>1, <2>2, <2>3, <2>4, <2>5, <2>6, <2>7, <2>8, <2>9, <2>10 DEF RemoteStep
  <1>. QED
    BY <1>1, <1>2, <1>5 DEF TypeInv, TypeOK, ArgValid, LoopHasArg, BufferFull, LinkTyped, dumperVars

LEMMA TypeTarget ==
  TypeInv /\ (TargetStarts \/ \E t \in HostThreads : HostLog(t) \/ ExitTarget(t)) => TypeInv'
  <1> SUFFICES ASSUME TypeInv, TargetStarts \/ \E t \in HostThreads : HostLog(t) \/ ExitTarget(t)
               PROVE TypeInv'
    OBVIOUS
  <1> USE DEF TypeInv, TypeOK, ArgValid, LoopHasArg, BufferFull, dumperVars
  <1>0. LinkTyped
    BY DEF LinkTyped
  <1>1. CASE TargetStarts
    BY <1>1 DEF TargetStarts, TargetStates, linkVars
  <1>2. ASSUME NEW t \in HostThreads, HostLog(t) PROVE TypeInv'
    <2>1. LinkTyped'
      BY <1>0, <1>2, BeginWriteType, MessageKinds, NamedThreads DEF HostLog, LogBodies
    <2>2. hostLogs' \in [HostThreads -> 0 .. MaxHostLogs]
      BY <1>2, HostLogsAssumption DEF HostLog
    <2>. QED BY <1>2, <2>1, <2>2 DEF HostLog, LinkTyped
  <1>3. ASSUME NEW t \in HostThreads, ExitTarget(t) PROVE TypeInv'
    <2>1. LinkTyped'
      BY <1>0, <1>3, CancelWriteType, DropClientType DEF ExitTarget, LinkTyped
    <2>2. rpc' \in RemoteStates /\ tstate' \in TargetStates
      BY <1>3 DEF ExitTarget, RemoteStates, TargetStates
    <2>. QED BY <1>3, <2>1, <2>2 DEF ExitTarget, LinkTyped
  <1>. QED BY <1>1, <1>2, <1>3

LEMMA TypeDetach == TypeInv /\ DetachStep => TypeInv'
  <1> SUFFICES ASSUME TypeInv, DetachStep PROVE TypeInv'
    OBVIOUS
  <1> USE DEF TypeInv, TypeOK, ArgValid, LoopHasArg, BufferFull, dumperVars
  <1>0. LinkTyped
    BY DEF LinkTyped
  <1>1. CASE UnhookFunctions
    <2>1. UNCHANGED linkVars \/ BeginWrite("detach", LogMsg("disabled"))
      BY <1>1 DEF UnhookFunctions
    <2>2. LinkTyped'
      <3>1. CASE UNCHANGED linkVars
        BY <1>0, <3>1 DEF LinkTyped, linkVars
      <3>. QED BY <1>0, <2>1, <3>1, BeginWriteType, MessageKinds, NamedThreads DEF LogBodies
    <2>. QED BY <1>1, <2>2 DEF UnhookFunctions, LinkTyped, TargetStates
  <1>2. CASE DeInitNamedPipe
    <2>1. LinkTyped'
      <3>1. CASE tstate = "closeDown"
        BY <1>0, <1>2, <3>1, EmptySeq DEF DeInitNamedPipe, LinkTyped
      <3>2. CASE tstate = "closeUp"
        BY <1>0, <1>2, <3>2, DropClientType DEF DeInitNamedPipe
      <3>. QED BY <1>2, <3>1, <3>2 DEF DeInitNamedPipe
    <2>. QED BY <1>2, <2>1 DEF DeInitNamedPipe, LinkTyped, TargetStates
  <1>. QED BY <1>1, <1>2 DEF DetachStep

LEMMA TypeKill == TypeInv /\ (KillTarget \/ KillDumper \/ WriteStep) => TypeInv'
  <1> SUFFICES ASSUME TypeInv, KillTarget \/ KillDumper \/ WriteStep PROVE TypeInv'
    OBVIOUS
  <1>1. CASE KillTarget
    <2>1. LinkTyped
      BY DEF TypeInv, TypeOK, LinkTyped
    <2>2. LinkTyped'
      BY <1>1, <2>1, DropClientType DEF KillTarget
    <2>. QED BY <1>1, <2>2 DEF KillTarget, TypeInv, TypeOK, ArgValid, LoopHasArg, BufferFull,
                               LinkTyped, dumperVars, TargetStates, RemoteStates
  <1>2. CASE KillDumper
    BY <1>2, TypeDumperExits DEF KillDumper
  <1>3. CASE WriteStep
    BY <1>3 DEF WriteStep, WriteReturns, TypeInv, TypeOK, ArgValid, LoopHasArg, BufferFull,
                dumperVars, targetVars
  <1>. QED BY <1>1, <1>2, <1>3

LEMMA TypeInvariant == Spec => []TypeInv
  <1>1. TypeInv /\ [Next]_vars => TypeInv'
    <2>1. CASE UNCHANGED vars
      BY <2>1 DEF vars, linkVars, dumperVars, targetVars, TypeInv, TypeOK, ArgValid,
                  LoopHasArg, BufferFull
    <2>. QED BY <2>1, TypeMain, TypeLoop, TypeRemote, TypeTarget, TypeDetach, TypeKill DEF Next
  <1>. QED BY <1>1, TypeInit, PTL DEF Spec

(* Type correctness: every variable keeps its kind, for any set of target  *)
(* threads and any number of log messages.                                 *)
THEOREM TypeCorrect == Spec => []TypeOK
  <1>1. TypeInv => TypeOK
    BY DEF TypeInv
  <1>. QED BY <1>1, TypeInvariant, PTL

-----------------------------------------------------------------------------
(* Hooks before the target's code.  HooksBeforeTargetCode is not           *)
(* inductive: that the target waits for the loader lock is of no use       *)
(* unless the remote thread has taken it.  The missing link is the         *)
(* connection: main resumes the target only after ConnectNamedPipe has     *)
(* returned, and only DllMain opens the pipe.                              *)

Unattached == {"none", "loading", "loadFailed", "openDown", "openUp"}

HookInv ==
  /\ dpc \in {"parse", "initPipe", "spoof", "create"} => tstate = "absent"
  /\ dpc \in {"parse", "initPipe", "spoof", "create", "alloc", "inject"} =>
       rpc = "none" /\ cli["up"] = "unopened"
  /\ dpc \in {"spawn", "waitRemote", "resume", "waitLoop"} => Connected("up")
  /\ tstate = "resumed" \/ InTargetCode => Connected("up")
  /\ Connected("up") => rpc \notin Unattached
  /\ rpc = "dead" => tstate = "gone"
  /\ HooksBeforeTargetCode

LEMMA HookInit == Init => HookInv
  BY DEF Init, LinkInit, HookInv, Connected, InTargetCode, HooksBeforeTargetCode, Pipes

LEMMA HookMain == TypeOK /\ HookInv /\ MainStep => HookInv'
  <1> SUFFICES ASSUME TypeOK, HookInv, MainStep PROVE HookInv'
    OBVIOUS
  <1> USE DEF HookInv, Connected, InTargetCode, HooksBeforeTargetCode, Unattached,
          MainMoves, linkVars, targetVars
  <1>0. CASE DumperExits /\ UNCHANGED targetVars
    BY <1>0 DEF DumperExits, DropServer
  <1>1. CASE ParseArguments
    BY <1>0, <1>1 DEF ParseArguments
  <1>2. CASE InitNamedPipe
    BY <1>2 DEF InitNamedPipe
  <1>3. CASE FindSpoofProcess
    BY <1>0, <1>3 DEF FindSpoofProcess
  <1>4. CASE CreateTarget
    BY <1>0, <1>4 DEF CreateTarget
  <1>5. CASE AllocInTarget
    BY <1>0, <1>5 DEF AllocInTarget
  <1>6. CASE InjectThread
    BY <1>6 DEF InjectThread
  <1>7. CASE WaitForConnection
    BY <1>7 DEF WaitForConnection
  <1>8. CASE SpawnLoop
    BY <1>0, <1>8 DEF SpawnLoop
  <1>9. CASE WaitRemote
    BY <1>9 DEF WaitRemote
  <1>10. CASE ResumeTarget
    BY <1>10 DEF ResumeTarget
  <1>11. CASE WaitLoop
    BY <1>0, <1>11 DEF WaitLoop
  <1>. QED
    BY <1>1, <1>2, <1>3, <1>4, <1>5, <1>6, <1>7, <1>8, <1>9, <1>10, <1>11 DEF MainStep

LEMMA HookRemote == TypeOK /\ HookInv /\ RemoteStep => HookInv'
  <1> SUFFICES ASSUME TypeOK, HookInv, RemoteStep PROVE HookInv'
    OBVIOUS
  <1> USE DEF HookInv, Connected, InTargetCode, HooksBeforeTargetCode, Unattached,
          RemoteMoves, linkVars, dumperVars, Attaching
  <1>1. CASE LoadLibrary
    BY <1>1 DEF LoadLibrary
  <1>2. CASE OpenPipes
    BY <1>2 DEF OpenPipes, OpenClient, TypeOK, Pipes
  <1>3. CASE SendRequest
    BY <1>3 DEF SendRequest, BeginWrite
  <1>4. CASE GetStringResult \/ GetIntResult
    BY <1>4 DEF GetStringResult, GetIntResult
  <1>5. CASE AttachLog
    BY <1>5 DEF AttachLog, BeginWrite
  <1>6. CASE InitEngine
    BY <1>6 DEF InitEngine
  <1>7. CASE CreateHook \/ EnableHook
    BY <1>7 DEF CreateHook, RegisterCallback, CreateApiHook, CreateNativeHook, EnableHook
  <1>8. CASE DllMainReturns
    BY <1>8 DEF DllMainReturns
  <1>. QED
    BY <1>1, <1>2, <1>3, <1>4, <1>5, <1>6, <1>7, <1>8 DEF RemoteStep

LEMMA HookOthers ==
  TypeOK /\ HookInv /\ [Next]_vars /\ ~MainStep /\ ~RemoteStep => HookInv'
  <1> SUFFICES ASSUME TypeOK, HookInv, [Next]_vars, ~MainStep, ~RemoteStep PROVE HookInv'
    OBVIOUS
  <1> USE DEF HookInv, Connected, InTargetCode, HooksBeforeTargetCode, Unattached,
          linkVars, dumperVars, targetVars
  <1>1. CASE LoopStep
    BY <1>1 DEF LoopStep, LoopRead, LoopDispatch, ReplyReturns
  <1>2. CASE WriteStep
    BY <1>2 DEF WriteStep, WriteReturns
  <1>3. CASE TargetStarts
    <2>1. rpc = "finished"
      BY <1>3 DEF TargetStarts, LoaderLockHeld, TypeOK, RemoteStates
    <2>. QED BY <1>3, <2>1 DEF TargetStarts
  <1>4. CASE \E t \in HostThreads : HostLog(t)
    BY <1>4 DEF HostLog, BeginWrite
  <1>5. CASE \E t \in HostThreads : ExitTarget(t)
    BY <1>5 DEF ExitTarget, CancelWrite
  <1>6. CASE UnhookFunctions
    BY <1>6 DEF UnhookFunctions, BeginWrite
  <1>7. CASE DeInitNamedPipe
    BY <1>7 DEF DeInitNamedPipe, DropClient, TypeOK, Pipes
  <1>8. CASE KillTarget
    BY <1>8 DEF KillTarget, DropClient, RemoteEnded, TypeOK, Pipes
  <1>9. CASE KillDumper
    BY <1>9 DEF KillDumper, DumperExits, DropServer
  <1>10. CASE UNCHANGED vars
    BY <1>10 DEF vars
  <1>. QED
    BY <1>1, <1>2, <1>3, <1>4, <1>5, <1>6, <1>7, <1>8, <1>9, <1>10 DEF Next, DetachStep

LEMMA HookInvariant == Spec => []HookInv
  <1>1. TypeOK /\ HookInv /\ [Next]_vars => HookInv'
    BY HookMain, HookRemote, HookOthers
  <1>. QED BY <1>1, HookInit, TypeCorrect, PTL DEF Spec

(* No instruction of the target runs before HookFunctions has returned,    *)
(* whatever fails and whoever is killed, and even when the 60 s wait times *)
(* out.                                                                    *)
THEOREM HooksFirst == Spec => []HooksBeforeTargetCode
  <1>1. HookInv => HooksBeforeTargetCode
    BY DEF HookInv
  <1>. QED BY <1>1, HookInvariant, PTL

-----------------------------------------------------------------------------
(* No message is lost.  The pipes being unbuffered, a writer stays inside  *)
(* WriteFile until its message is read, so there is never a second message *)
(* for a read to swallow.                                                  *)

Short(q) == q = <<>> \/ \E m \in Messages : q = <<m>>

LinkInv ==
  /\ Short(up) /\ Short(buf)
  /\ up # <<>> => Usable("up") /\ writer # NoThread
  /\ buf # <<>> => spc = "dispatch"
  /\ spc \notin {"none", "dead"} => Connected("up")
  /\ spc = "done" => cli["up"] # "open"
  /\ spc = "dead" => dpc = "exited"
  /\ NoMessageLost

(* Dropping the unread tail leaves what was written before it.             *)
LEMMA WithdrawTail ==
  ASSUME NEW q \in Seq(Messages), NEW r \in Seq(Messages)
  PROVE  SubSeq(q \o r, 1, Len(q \o r) - Len(r)) = q
  <1>1. Len(q) \in Nat /\ Len(r) \in Nat /\ Len(q \o r) = Len(q) + Len(r)
    BY LenProperties, ConcatProperties
  <1>2. CASE Len(q) = 0
    BY <1>1, <1>2, EmptySeq, SubSeqEmpty
  <1>3. CASE Len(q) # 0
    BY <1>1, <1>3, SubSeqOfConcat1, SubSeqFull
  <1>. QED BY <1>2, <1>3

LEMMA AppendToTail ==
  ASSUME NEW q \in Seq(Messages), NEW m \in Messages
  PROVE  Append(q \o <<>>, m) = q \o Append(<<>>, m) /\ Append(<<>>, m) = <<m>>
  BY ConcatEmptySeq, EmptySeq, AppendIsConcat

LEMMA BeginWriteKeeps ==
  ASSUME TypeOK, LinkInv, NEW t \in Threads, NEW m \in Messages, BeginWrite(t, m),
         UNCHANGED <<dpc, spc, buf, handled>>
  PROVE  LinkInv'
  <1>1. CASE Usable("up")
    <2>1. up = <<>>
      BY DEF BeginWrite, LinkInv
    <2>2. up' = <<m>> /\ writer' # NoThread
      BY <1>1, <2>1, AppendToTail, EmptySeq, NoThreadAssumption DEF BeginWrite
    <2>3. handled \o buf \in Seq(Messages)
      BY ConcatProperties DEF TypeOK
    <2>4. NoMessageLost'
      BY <1>1, <2>1, <2>3, AppendToTail DEF BeginWrite, LinkInv, NoMessageLost
    <2>. QED BY <1>1, <2>2, <2>4 DEF BeginWrite, LinkInv, Short, Usable, Connected
  <1>2. CASE ~Usable("up")
    BY <1>2 DEF BeginWrite, LinkInv, Short, Usable, Connected, NoMessageLost
  <1>. QED BY <1>1, <1>2

LEMMA CancelWriteKeeps ==
  ASSUME TypeOK, LinkInv, CancelWrite, UNCHANGED <<dpc, spc, buf, handled>>,
         cli' \in [Pipes -> {"unopened", "open", "invalid", "closed"}],
         Connected("up") => Connected("up")', cli'["up"] = "open" => cli["up"] = "open"
  PROVE  LinkInv'
  <1>1. handled \o buf \in Seq(Messages)
    BY ConcatProperties DEF TypeOK
  <1>2. NoMessageLost'
    <2>1. CASE spc # "dead"
      <3>1. sent' = handled \o buf
        BY <1>1, <2>1, WithdrawTail DEF CancelWrite, LinkInv, NoMessageLost, TypeOK
      <3>2. handled \o buf \o <<>> = handled \o buf
        BY <1>1, ConcatEmptySeq
      <3>. QED BY <3>1, <3>2 DEF CancelWrite, NoMessageLost
    <2>. QED BY <2>1 DEF NoMessageLost
  <1>. QED BY <1>2 DEF CancelWrite, LinkInv, Short, Usable, Connected

LEMMA DropClientKeeps ==
  ASSUME TypeOK, LinkInv, DropClient, UNCHANGED <<dpc, spc, buf, handled>>
  PROVE  LinkInv'
  BY CancelWriteKeeps DEF DropClient, TypeOK, Connected, Pipes

LEMMA LinkInit1 == Init => LinkInv
  <1>1. <<>> \in Seq(Messages)
    BY EmptySeq
  <1>2. Init => sent = handled \o buf \o up
    BY <1>1, ConcatEmptySeq DEF Init, LinkInit
  <1>. QED BY <1>2 DEF Init, LinkInit, LinkInv, Short, NoMessageLost

LEMMA LinkDumperExits == TypeOK /\ LinkInv /\ DumperExits => LinkInv'
  BY DEF DumperExits, DropServer, LinkInv, Short, NoMessageLost, Connected, Usable

LEMMA LinkMain == TypeInv /\ HookInv /\ LinkInv /\ MainStep => LinkInv'
  <1> SUFFICES ASSUME TypeInv, HookInv, LinkInv, MainStep PROVE LinkInv'
    OBVIOUS
  <1>0. CASE DumperExits
    BY <1>0, LinkDumperExits DEF TypeInv
  <1>1. CASE InitNamedPipe
    BY <1>1 DEF InitNamedPipe, LinkInv, Short, Usable, Connected, NoMessageLost
  <1>2. CASE SpawnLoop
    BY <1>0, <1>2 DEF SpawnLoop, HookInv, TypeInv, LoopHasArg, LinkInv, Usable, Connected,
       NoMessageLost, linkVars
  <1>3. ASSUME NEW from, NEW to, MainMoves(from, to), from # "exited" PROVE LinkInv'
    BY <1>3 DEF MainMoves, LinkInv, Short, Usable, Connected, NoMessageLost, linkVars
  <1>4. CASE ParseArguments \/ FindSpoofProcess \/ CreateTarget \/ AllocInTarget \/ WaitLoop
    BY <1>0, <1>3, <1>4 DEF ParseArguments, FindSpoofProcess, CreateTarget, AllocInTarget,
       WaitLoop
  <1>5. CASE InjectThread \/ WaitForConnection \/ WaitRemote \/ ResumeTarget
    BY <1>3, <1>5 DEF InjectThread, WaitForConnection, WaitRemote, ResumeTarget
  <1>. QED BY <1>1, <1>2, <1>4, <1>5 DEF MainStep

LEMMA LinkLoop == TypeInv /\ LinkInv /\ LoopStep => LinkInv'
  <1> SUFFICES ASSUME TypeInv, LinkInv, LoopStep PROVE LinkInv'
    OBVIOUS
  <1>0. up \in Seq(Messages) /\ buf \in Seq(Messages) /\ handled \in Seq(Messages)
        /\ <<>> \in Seq(Messages)
    BY EmptySeq DEF TypeInv, TypeOK
  <1>1. CASE LoopRead
    <2>1. buf = <<>>
      BY <1>1 DEF LoopRead, LinkInv
    <2>2. handled \o <<>> \o up = handled \o up \o <<>>
      BY <1>0, ConcatEmptySeq, ConcatProperties
    <2>3. NoMessageLost'
      BY <1>1, <2>1, <2>2 DEF LoopRead, LinkInv, NoMessageLost
    <2>. QED BY <1>1, <2>1, <2>3 DEF LoopRead, LinkInv, Short, Usable, Connected
  <1>2. CASE LoopDispatch
    <2>1. buf # <<>> /\ Short(buf) /\ spc = "dispatch"
      BY <1>2 DEF LoopDispatch, LinkInv, TypeInv, BufferFull
    <2>2. PICK m \in Messages : buf = <<m>>
      BY <2>1 DEF Short
    <2>3. handled' = Append(handled, m)
      BY <1>2, <2>2 DEF LoopDispatch
    <2>4. handled \o buf = handled' \o <<>>
      BY <1>0, <2>2, <2>3, AppendIsConcat, AppendProperties, ConcatEmptySeq
    <2>5. NoMessageLost'
      BY <1>2, <2>1, <2>4 DEF LoopDispatch, LinkInv, NoMessageLost
    <2>. QED BY <1>2, <2>1, <2>5 DEF LoopDispatch, LinkInv, Short, Usable, Connected
  <1>3. CASE ReplyReturns
    BY <1>3 DEF ReplyReturns, linkVars, LinkInv, Short, Usable, Connected, NoMessageLost
  <1>. QED BY <1>1, <1>2, <1>3 DEF LoopStep

LEMMA LinkTarget ==
  TypeInv /\ HookInv /\ LinkInv /\ Next /\ ~MainStep /\ ~LoopStep => LinkInv'
  <1> SUFFICES ASSUME TypeInv, HookInv, LinkInv, Next, ~MainStep, ~LoopStep PROVE LinkInv'
    OBVIOUS
  <1>0. TypeOK
    BY DEF TypeInv
  <1>1. CASE UNCHANGED <<linkVars, dpc, spc, buf, handled>>
    BY <1>1 DEF linkVars, LinkInv, Short, Usable, Connected, NoMessageLost
  <1>2. ASSUME NEW t \in Threads, NEW m \in Messages, BeginWrite(t, m),
               UNCHANGED <<dpc, spc, buf, handled>>
        PROVE  LinkInv'
    BY <1>0, <1>2, BeginWriteKeeps
  <1>3. CASE RemoteStep
    <2>1. UNCHANGED <<dpc, spc, buf, handled>>
      BY <1>3 DEF RemoteStep, LoadLibrary, OpenPipes, SendRequest, GetStringResult,
         GetIntResult, AttachLog, InitEngine, CreateHook,
           RegisterCallback, CreateApiHook, CreateNativeHook, EnableHook, DllMainReturns, dumperVars
    <2>2. CASE OpenPipes
      BY <1>0, <2>1, <2>2 DEF OpenPipes, OpenClient, LinkInv, HookInv, Short, Usable, Connected,
         NoMessageLost, Unattached, RemoteMoves, TypeOK, Pipes
    <2>3. CASE SendRequest
      BY <1>2, <2>1, <2>3, MessageKinds, NamedThreads DEF SendRequest
    <2>4. CASE GetStringResult \/ GetIntResult
      BY <2>1, <2>4 DEF GetStringResult, GetIntResult, LinkInv, Short, Usable, Connected,
         NoMessageLost
    <2>5. CASE AttachLog
      BY <1>1, <1>2, <2>1, <2>5, MessageKinds, NamedThreads DEF AttachLog, LogBodies
    <2>6. CASE LoadLibrary \/ InitEngine \/ CreateHook \/ EnableHook \/ DllMainReturns
      BY <1>1, <2>1, <2>6 DEF LoadLibrary, InitEngine, CreateHook, RegisterCallback,
           CreateApiHook, CreateNativeHook, EnableHook, DllMainReturns
    <2>. QED BY <1>3, <2>2, <2>3, <2>4, <2>5, <2>6 DEF RemoteStep
  <1>4. CASE WriteStep
    <2>1. \A m \in Messages : Len(<<m>>) = 1
      OBVIOUS
    <2>. QED BY <1>4, <2>1 DEF WriteStep, WriteReturns, PipeBuffer, dumperVars, LinkInv, Short,
                Usable, Connected, NoMessageLost
  <1>5. CASE TargetStarts
    BY <1>1, <1>5 DEF TargetStarts, dumperVars
  <1>6. ASSUME NEW t \in HostThreads, HostLog(t) PROVE LinkInv'
    BY <1>2, <1>6, MessageKinds, NamedThreads DEF HostLog, LogBodies, dumperVars
  <1>7. ASSUME NEW t \in HostThreads, ExitTarget(t) PROVE LinkInv'
    <2>1. UNCHANGED <<dpc, spc, buf, handled>>
      BY <1>7 DEF ExitTarget, dumperVars
    <2>2. CASE CancelWrite /\ UNCHANGED cli
      BY <1>0, <2>1, <2>2, CancelWriteKeeps DEF TypeOK, Connected
    <2>. QED BY <1>0, <1>7, <2>1, <2>2, DropClientKeeps DEF ExitTarget
  <1>8. CASE UnhookFunctions
    BY <1>1, <1>2, <1>8, MessageKinds, NamedThreads DEF UnhookFunctions, LogBodies, dumperVars
  <1>9. CASE DeInitNamedPipe
    <2>1. CASE tstate = "closeDown"
      BY <1>0, <1>9, <2>1 DEF DeInitNamedPipe, dumperVars, LinkInv, Short, Usable, Connected,
         NoMessageLost, TypeOK, Pipes
    <2>2. CASE tstate = "closeUp"
      BY <1>0, <1>9, <2>2, DropClientKeeps DEF DeInitNamedPipe, dumperVars
    <2>. QED BY <1>9, <2>1, <2>2 DEF DeInitNamedPipe
  <1>10. CASE KillTarget
    BY <1>0, <1>10, DropClientKeeps DEF KillTarget, dumperVars
  <1>11. CASE KillDumper
    BY <1>0, <1>11, LinkDumperExits DEF KillDumper
  <1>. QED
    BY <1>3, <1>4, <1>5, <1>6, <1>7, <1>8, <1>9, <1>10, <1>11 DEF Next, DetachStep

LEMMA LinkInvariant == Spec => []LinkInv
  <1>1. TypeInv /\ HookInv /\ LinkInv /\ [Next]_vars => LinkInv'
    <2>1. CASE UNCHANGED vars
      BY <2>1 DEF vars, linkVars, dumperVars, LinkInv, Short, Usable, Connected, NoMessageLost
    <2>. QED BY <2>1, LinkMain, LinkLoop, LinkTarget
  <1>. QED BY <1>1, LinkInit1, TypeInvariant, HookInvariant, PTL DEF Spec

(* While the pipe thread lives, the messages written by all the threads of *)
(* the target are those it has served followed by the one on its way: none *)
(* is lost, merged or reordered, whatever the number of threads.           *)
THEOREM NothingLost == Spec => []NoMessageLost
  <1>1. LinkInv => NoMessageLost
    BY DEF LinkInv
  <1>. QED BY <1>1, LinkInvariant, PTL

-----------------------------------------------------------------------------
(* The settings.  GetString and GetInt take whatever comes up the reader   *)
(* pipe, or nothing, for their answer.  What makes them right is that at   *)
(* most one request or reply is under way, that it is the one the remote   *)
(* thread waits for, and that the pipe is whole as long as the dumper is.  *)

Asked(q) == q # <<>> /\ Head(q).type # "LOG_MSG"
Awaits(q) == IF Head(q) = AskString THEN "readPath" ELSE "readType"

ConversationInv ==
  /\ dpc \notin {"parse", "initPipe", "exited"} => srv = "open"
  /\ dpc = "exited" => srv = "closed"
  /\ rpc \in Attaching \ {"openDown"} /\ dpc # "exited" => cli["down"] = "open"
  /\ rpc = "dead" => cli["down"] # "open"
  /\ Asked(up) => down = <<>> /\ ~Asked(buf) /\ rpc = Awaits(up)
  /\ Asked(buf) => down = <<>> /\ rpc \in {Awaits(buf), "dead"}
  /\ down # <<>> => \/ rpc = "readPath" /\ down = <<[kind |-> "string", val |-> "dumperDir"]>>
                    \/ rpc = "readType" /\ down = <<[kind |-> "int", val |-> arg]>>
  /\ SettingsFaithful

Known == TypeInv /\ HookInv /\ LinkInv /\ ConversationInv

LEMMA ConversationStart == Init => ConversationInv
  BY DEF Init, LinkInit, ConversationInv, Asked, SettingsFaithful, Attaching

(* A write puts its message alone into an empty pipe, or does nothing.     *)
LEMMA WriteAlone ==
  ASSUME Known, NEW t \in Threads, NEW m \in Messages, BeginWrite(t, m)
  PROVE  up = <<>> /\ (up' = <<>> \/ up' = <<m>>) /\ UNCHANGED <<srv, cli, down>>
  BY AppendToTail, EmptySeq DEF Known, LinkInv, BeginWrite

LEMMA LogWriteKeeps ==
  ASSUME Known, NEW t \in Threads, NEW b \in LogBodies, BeginWrite(t, LogMsg(b)),
         UNCHANGED <<dpc, buf, arg, hookType, dumpPath>>,
         Asked(buf) \/ down # <<>> => rpc' = rpc,
         rpc' \in Attaching \ {"openDown"} => rpc \in Attaching \ {"openDown"},
         rpc' = "dead" => rpc = "dead"
  PROVE  ConversationInv'
  <1>1. ~Asked(up')
    <2>1. up' = <<>> \/ up' = <<LogMsg(b)>>
      BY WriteAlone, MessageKinds
    <2>. QED BY <2>1 DEF Asked, LogMsg
  <1>2. UNCHANGED <<srv, cli, down>>
    BY WriteAlone, MessageKinds
  <1>. QED BY <1>1, <1>2 DEF Known, ConversationInv, SettingsFaithful, Asked, Awaits

LEMMA SettingsMain == Known /\ MainStep => ConversationInv'
  <1> SUFFICES ASSUME Known, MainStep PROVE ConversationInv'
    OBVIOUS
  <1> USE DEF Known, ConversationInv, SettingsFaithful
  <1>0. CASE DumperExits /\ UNCHANGED targetVars
    BY <1>0 DEF DumperExits, DropServer, targetVars, Asked
  <1>1. CASE InitNamedPipe
    BY <1>1 DEF InitNamedPipe, targetVars, Asked, Awaits
  <1>2. CASE SpawnLoop
    BY <1>0, <1>2 DEF SpawnLoop, linkVars, targetVars, Asked, Awaits
  <1>3. ASSUME NEW from, NEW to, MainMoves(from, to),
               from \notin {"initPipe", "exited"}, to # "exited",
               from # "parse" \/ to = "initPipe",
               UNCHANGED <<rpc, dumpPath, hookType>>
        PROVE  ConversationInv'
    BY <1>3 DEF MainMoves, linkVars, Asked, Awaits
  <1>4. CASE InjectThread
    BY <1>4 DEF InjectThread, MainMoves, linkVars, Asked, Awaits, HookInv, Attaching
  <1>5. CASE ParseArguments \/ FindSpoofProcess \/ CreateTarget \/ AllocInTarget \/ WaitLoop
    BY <1>0, <1>3, <1>5 DEF ParseArguments, FindSpoofProcess, CreateTarget, AllocInTarget,
       WaitLoop, targetVars
  <1>6. CASE WaitForConnection \/ WaitRemote \/ ResumeTarget
    BY <1>3, <1>6 DEF WaitForConnection, WaitRemote, ResumeTarget, targetVars
  <1>. QED BY <1>1, <1>2, <1>4, <1>5, <1>6 DEF MainStep

LEMMA SettingsLoop == Known /\ LoopStep => ConversationInv'
  <1> SUFFICES ASSUME Known, LoopStep PROVE ConversationInv'
    OBVIOUS
  <1> USE DEF Known, ConversationInv, SettingsFaithful, targetVars
  <1>1. CASE LoopRead
    <2>1. buf = <<>>
      BY <1>1 DEF LoopRead, LinkInv
    <2>. QED BY <1>1, <2>1 DEF LoopRead, Asked, Awaits
  <1>2. CASE LoopDispatch
    <2>1. PICK m \in Messages : buf = <<m>>
      BY <1>2 DEF LoopDispatch, LinkInv, Short, TypeInv, BufferFull
    <2>2. CASE m.type # "LOG_MSG" /\ Usable("down")
      <3>1. m \in {AskString, AskInt}
        BY <2>2 DEF Messages, LogMsg
      <3>2. down = <<>> /\ rpc = Awaits(buf) /\ ~Asked(up)
        BY <2>1, <2>2 DEF Asked, Usable
      <3>3. down' = <<Reply(m)>> /\ buf' = <<>> /\ up' = up
        BY <1>2, <2>1, <2>2, <3>2 DEF LoopDispatch
      <3>4. CASE m = AskString
        <4>1. Reply(m) = [kind |-> "string", val |-> "dumperDir"] /\ rpc = "readPath"
          BY <2>1, <3>2, <3>4 DEF Reply, StringValue, AskString, Awaits
        <4>. QED BY <1>2, <3>2, <3>3, <4>1 DEF LoopDispatch, Asked
      <3>5. CASE m = AskInt
        <4>1. Reply(m) = [kind |-> "int", val |-> arg] /\ rpc = "readType"
          BY <2>1, <3>2, <3>5 DEF Reply, IntValue, AskInt, AskString, Awaits
        <4>. QED BY <1>2, <3>2, <3>3, <4>1 DEF LoopDispatch, Asked
      <3>. QED BY <3>1, <3>4, <3>5
    <2>3. CASE ~(m.type # "LOG_MSG" /\ Usable("down"))
      BY <1>2, <2>1, <2>3 DEF LoopDispatch, Asked, Awaits
    <2>. QED BY <2>2, <2>3
  <1>3. CASE ReplyReturns
    BY <1>3 DEF ReplyReturns, linkVars, Asked, Awaits
  <1>. QED BY <1>1, <1>2, <1>3 DEF LoopStep

LEMMA SettingsRemote == Known /\ RemoteStep => ConversationInv'
  <1> SUFFICES ASSUME Known, RemoteStep PROVE ConversationInv'
    OBVIOUS
  <1> USE DEF RemoteMoves, dumperVars
  <1>0. ConversationInv /\ SettingsFaithful
    BY DEF Known, ConversationInv
  <1>1. ASSUME UNCHANGED <<linkVars, dpc, buf, arg, hookType, dumpPath>>,
               ~Asked(buf), down = <<>>, rpc' # "dead", ~Asked(up),
               rpc' \in Attaching \ {"openDown"} => rpc \in Attaching \ {"openDown"}
        PROVE  ConversationInv'
    BY <1>0, <1>1 DEF ConversationInv, SettingsFaithful, Asked, Awaits, linkVars
  <1>2. ASSUME rpc \notin {"readPath", "readType", "dead"}
        PROVE  ~Asked(buf) /\ ~Asked(up) /\ down = <<>>
    BY <1>0, <1>2 DEF ConversationInv, Awaits
  <1>3. CASE LoadLibrary
    BY <1>1, <1>2, <1>3 DEF LoadLibrary, Attaching
  <1>4. CASE OpenPipes
    <2>1. ~Asked(buf) /\ ~Asked(up) /\ down = <<>>
      BY <1>2, <1>4 DEF OpenPipes
    <2>2. dpc # "exited" => srv = "open"
      BY <1>4 DEF OpenPipes, Known, HookInv, ConversationInv
    <2>. QED BY <1>0, <1>4, <2>1, <2>2 DEF OpenPipes, OpenClient, ConversationInv,
                SettingsFaithful, Asked, Attaching, Known, TypeInv, TypeOK, Pipes
  <1>5. CASE SendRequest
    <2>1. ~Asked(buf) /\ ~Asked(up) /\ down = <<>> /\ rpc \in Attaching \ {"openDown"}
      BY <1>2, <1>5 DEF SendRequest, Attaching
    <2>2. CASE BeginWrite("remote", AskString) /\ rpc' = "readPath"
      <3>1. (up' = <<>> \/ up' = <<AskString>>) /\ UNCHANGED <<srv, cli, down>>
        BY <2>2, WriteAlone, MessageKinds, NamedThreads
      <3>. QED BY <1>0, <1>5, <2>1, <2>2, <3>1 DEF SendRequest, ConversationInv,
                  SettingsFaithful, Asked, Awaits, AskString
    <2>3. CASE BeginWrite("remote", AskInt) /\ rpc' = "readType"
      <3>1. (up' = <<>> \/ up' = <<AskInt>>) /\ UNCHANGED <<srv, cli, down>>
        BY <2>3, WriteAlone, MessageKinds, NamedThreads
      <3>. QED BY <1>0, <1>5, <2>1, <2>3, <3>1 DEF SendRequest, ConversationInv,
                  SettingsFaithful, Asked, Awaits, AskInt, AskString
    <2>. QED BY <1>5, <2>2, <2>3 DEF SendRequest
  <1>6. CASE GetStringResult
    <2>1. rpc = "readPath" /\ rpc' # "readPath" /\ rpc' \in Attaching \ {"openDown", "readPath", "readType"}
          /\ UNCHANGED <<srv, cli, up, dpc, buf, arg, hookType>>
      BY <1>6 DEF GetStringResult, Attaching
    <2>2. CASE ReadsReply
      <3>1. down = <<[kind |-> "string", val |-> "dumperDir"]>> /\ ~Asked(up) /\ ~Asked(buf)
        BY <1>0, <2>1, <2>2 DEF ReadsReply, ConversationInv
      <3>2. dumpPath' = "dumperDir" /\ down' = <<>>
        BY <1>6, <2>2, <3>1 DEF GetStringResult, ReadFails, ReadsReply
      <3>. QED BY <1>0, <2>1, <3>1, <3>2 DEF ConversationInv, SettingsFaithful, Asked, Attaching
    <2>3. CASE ReadFails
      <3>1. dpc = "exited"
        BY <1>0, <2>1, <2>3 DEF ReadFails, Usable, Known, HookInv, ConversationInv, Attaching
      <3>2. up = <<>> /\ buf = <<>>
        BY <1>0, <3>1 DEF Known, LinkInv, TypeInv, LoopHasArg, Usable, ConversationInv
      <3>. QED BY <1>0, <1>6, <2>1, <2>3, <3>1, <3>2
               DEF GetStringResult, ReadFails, ReadsReply, ConversationInv, SettingsFaithful, Asked, Awaits
    <2>. QED BY <1>6, <2>2, <2>3 DEF GetStringResult
  <1>7. CASE GetIntResult
    <2>1. rpc = "readType" /\ rpc' # "readType" /\ rpc' \in Attaching \ {"openDown", "readPath", "readType"}
          /\ UNCHANGED <<srv, cli, up, dpc, buf, arg, dumpPath>>
      BY <1>7 DEF GetIntResult, Attaching
    <2>2. CASE ReadsReply
      <3>1. down = <<[kind |-> "int", val |-> arg]>> /\ ~Asked(up) /\ ~Asked(buf)
        BY <1>0, <2>1, <2>2 DEF ReadsReply, ConversationInv
      <3>2. hookType' = arg /\ down' = <<>>
        BY <1>7, <2>2, <3>1 DEF GetIntResult, ReadFails, ReadsReply
      <3>. QED BY <1>0, <2>1, <3>1, <3>2 DEF ConversationInv, SettingsFaithful, Asked, Attaching
    <2>3. CASE ReadFails
      <3>1. dpc = "exited"
        BY <1>0, <2>1, <2>3 DEF ReadFails, Usable, Known, HookInv, ConversationInv, Attaching
      <3>2. up = <<>> /\ buf = <<>>
        BY <1>0, <3>1 DEF Known, LinkInv, TypeInv, LoopHasArg, Usable, ConversationInv
      <3>. QED BY <1>0, <1>7, <2>1, <2>3, <3>1, <3>2
               DEF GetIntResult, ReadFails, ReadsReply, ConversationInv, SettingsFaithful, Asked, Awaits
    <2>. QED BY <1>7, <2>2, <2>3 DEF GetIntResult
  <1>8. CASE AttachLog
    <2>1. ~Asked(buf) /\ ~Asked(up) /\ down = <<>> /\ rpc \in Attaching \ {"openDown"}
          /\ rpc' # "dead"
      BY <1>2, <1>8 DEF AttachLog, Attaching
    <2>2. UNCHANGED <<dpc, buf, arg, hookType, dumpPath>>
      BY <1>8 DEF AttachLog
    <2>3. UNCHANGED linkVars \/ \E b \in LogBodies : BeginWrite("remote", LogMsg(b))
      BY <1>8 DEF AttachLog, LogBodies
    <2>. QED BY <1>1, <2>1, <2>2, <2>3, LogWriteKeeps, NamedThreads
  <1>9. CASE InitEngine \/ CreateHook \/ EnableHook \/ DllMainReturns
    <2>1. rpc \in Attaching \ {"openDown", "readPath", "readType"} /\ rpc' # "dead"
          /\ UNCHANGED <<linkVars, dpc, buf, arg, hookType, dumpPath>>
      BY <1>9 DEF InitEngine, CreateHook,
           RegisterCallback, CreateApiHook, CreateNativeHook, EnableHook, DllMainReturns, Attaching
    <2>. QED BY <1>1, <1>2, <2>1 DEF Attaching
  <1>. QED
    BY <1>3, <1>4, <1>5, <1>6, <1>7, <1>8, <1>9 DEF RemoteStep

LEMMA SettingsOthers ==
  Known /\ Next /\ ~MainStep /\ ~LoopStep /\ ~RemoteStep => ConversationInv'
  <1> SUFFICES ASSUME Known, Next, ~MainStep, ~LoopStep, ~RemoteStep PROVE ConversationInv'
    OBVIOUS
  <1> USE DEF dumperVars
  <1>0. ConversationInv /\ SettingsFaithful
    BY DEF Known, ConversationInv
  <1>1. CASE WriteStep
    BY <1>0, <1>1 DEF WriteStep, WriteReturns, targetVars, ConversationInv, SettingsFaithful,
       Asked, Awaits
  <1>2. CASE TargetStarts
    BY <1>0, <1>2 DEF TargetStarts, linkVars, ConversationInv, SettingsFaithful, Asked, Awaits
  <1>3. ASSUME NEW t \in HostThreads, HostLog(t) PROVE ConversationInv'
    BY <1>3, LogWriteKeeps, NamedThreads DEF HostLog, LogBodies
  <1>4. ASSUME DropClient, UNCHANGED <<dpc, buf, arg, hookType, dumpPath>>,
               Asked(buf) => rpc' = "dead", rpc' \notin Attaching
        PROVE  ConversationInv'
    <2>1. cli'["down"] # "open" /\ up' = <<>> /\ down' = <<>> /\ srv' = srv
      BY <1>4 DEF DropClient, CancelWrite, Known, TypeInv, TypeOK, Pipes
    <2>. QED BY <1>0, <1>4, <2>1 DEF ConversationInv, SettingsFaithful, Asked, Awaits
  <1>5. ASSUME NEW t \in HostThreads, ExitTarget(t) PROVE ConversationInv'
    <2>1. rpc = "finished"
      BY <1>5 DEF ExitTarget, Known, HookInv, HooksBeforeTargetCode, InTargetCode
    <2>. QED BY <1>0, <1>5, <2>1 DEF ExitTarget, CancelWrite, ConversationInv,
                SettingsFaithful, Asked, Awaits
  <1>6. CASE UnhookFunctions
    <2>1. rpc = "finished" /\ UNCHANGED <<rpc, dpc, buf, arg, hookType, dumpPath>>
      BY <1>6 DEF UnhookFunctions, Known, HookInv, HooksBeforeTargetCode, InTargetCode
    <2>2. UNCHANGED linkVars \/ BeginWrite("detach", LogMsg("disabled"))
      BY <1>6 DEF UnhookFunctions
    <2>3. CASE UNCHANGED linkVars
      BY <1>0, <2>1, <2>3 DEF linkVars, ConversationInv, SettingsFaithful, Asked, Awaits
    <2>. QED BY <2>1, <2>2, <2>3, LogWriteKeeps, NamedThreads DEF LogBodies
  <1>7. CASE DeInitNamedPipe
    <2>1. rpc = "finished" /\ UNCHANGED <<rpc, dpc, buf, arg, hookType, dumpPath>>
      BY <1>7 DEF DeInitNamedPipe, Known, HookInv, HooksBeforeTargetCode, InTargetCode
    <2>2. ~Asked(buf) /\ ~Asked(up) /\ rpc \notin Attaching
      BY <1>0, <2>1 DEF ConversationInv, Awaits, Attaching
    <2>3. CASE DropClient
      BY <1>4, <2>1, <2>2, <2>3
    <2>4. CASE UNCHANGED <<srv, up>> /\ down' = <<>>
      BY <1>0, <2>1, <2>2, <2>4 DEF ConversationInv, SettingsFaithful, Asked
    <2>. QED BY <1>7, <2>3, <2>4 DEF DeInitNamedPipe
  <1>8. CASE KillTarget
    <2>1. Asked(buf) => rpc' = "dead"
      BY <1>0, <1>8 DEF KillTarget, RemoteEnded, ConversationInv, Awaits
    <2>2. rpc' \notin Attaching
      BY <1>8 DEF KillTarget, RemoteEnded, Attaching
    <2>. QED BY <1>4, <1>8, <2>1, <2>2 DEF KillTarget
  <1>9. CASE KillDumper
    BY <1>0, <1>9 DEF KillDumper, DumperExits, DropServer, targetVars, ConversationInv,
       SettingsFaithful, Asked
  <1>. QED
    BY <1>1, <1>2, <1>3, <1>5, <1>6, <1>7, <1>8, <1>9 DEF Next, DetachStep

LEMMA KnownInvariant == Spec => []Known
  <1>1. Known /\ [Next]_vars => ConversationInv'
    <2>1. CASE UNCHANGED vars
      BY <2>1 DEF vars, linkVars, dumperVars, targetVars, Known, ConversationInv,
         SettingsFaithful, Asked, Awaits
    <2>. QED BY <2>1, SettingsMain, SettingsLoop, SettingsRemote, SettingsOthers
  <1>. QED
    BY <1>1, ConversationStart, TypeInvariant, HookInvariant, LinkInvariant, PTL
       DEF Spec, Known

(* As long as the dumper runs, the DLL hooks for the mode and dumps to the *)
(* directory of this command line: no log message of another thread, no    *)
(* late or missing reply is ever taken for one of its settings.            *)
THEOREM SettingsAreFaithful == Spec => []SettingsFaithful
  <1>1. Known => SettingsFaithful
    BY DEF Known, ConversationInv
  <1>. QED BY <1>1, KnownInvariant, PTL

-----------------------------------------------------------------------------
(* Injection implements Session.  What the mapping needs besides Known:    *)
(* the DLL works only in a target that exists and has not ended.           *)

AtWork == rpc \in Attaching \cup {"loading"}

LifeInv ==
  /\ AtWork => tstate \in {"suspended", "resumed"}
  /\ tstate = "absent" => dpc \in {"parse", "initPipe", "spoof", "create", "exited"}

LEMMA LifeMain == Known /\ LifeInv /\ MainStep => LifeInv'
  <1> SUFFICES ASSUME Known, LifeInv, MainStep PROVE LifeInv'
    OBVIOUS
  <1> USE DEF LifeInv, AtWork, MainMoves, targetVars
  <1>0. CASE DumperExits /\ UNCHANGED targetVars
    BY <1>0 DEF DumperExits
  <1>1. CASE ParseArguments \/ FindSpoofProcess \/ AllocInTarget \/ SpawnLoop \/ WaitLoop
    BY <1>0, <1>1 DEF ParseArguments, FindSpoofProcess, AllocInTarget, SpawnLoop, WaitLoop
  <1>2. CASE InitNamedPipe
    BY <1>2 DEF InitNamedPipe
  <1>3. CASE CreateTarget
    BY <1>0, <1>3 DEF CreateTarget
  <1>4. CASE InjectThread
    BY <1>4 DEF InjectThread, Known, TypeInv, TypeOK, TargetStates, HookInv,
       HooksBeforeTargetCode, InTargetCode, Attaching
  <1>5. CASE WaitForConnection \/ WaitRemote \/ ResumeTarget
    BY <1>5 DEF WaitForConnection, WaitRemote, ResumeTarget
  <1>. QED BY <1>1, <1>2, <1>3, <1>4, <1>5 DEF MainStep

LEMMA LifeRemote == Known /\ LifeInv /\ RemoteStep => LifeInv'
  BY DEF LifeInv, AtWork, RemoteStep, LoadLibrary, OpenPipes, SendRequest, GetStringResult,
     GetIntResult, AttachLog, InitEngine, CreateHook, RegisterCallback, CreateApiHook,
     CreateNativeHook, EnableHook, DllMainReturns, RemoteMoves, dumperVars, Attaching

LEMMA LifeOthers ==
  Known /\ LifeInv /\ [Next]_vars /\ ~MainStep /\ ~RemoteStep => LifeInv'
  <1> SUFFICES ASSUME Known, LifeInv, [Next]_vars, ~MainStep, ~RemoteStep PROVE LifeInv'
    OBVIOUS
  <1> USE DEF LifeInv, AtWork, dumperVars, targetVars
  <1>1. CASE LoopStep \/ WriteStep \/ UNCHANGED vars
    BY <1>1 DEF LoopStep, LoopRead, LoopDispatch, ReplyReturns, WriteStep, vars
  <1>2. CASE TargetStarts
    BY <1>2 DEF TargetStarts, LoaderLockHeld, Known, HookInv, Unattached
  <1>3. CASE \E t \in HostThreads : HostLog(t) \/ ExitTarget(t)
    BY <1>3 DEF HostLog, ExitTarget, RemoteEnded, Attaching
  <1>4. CASE DetachStep
    BY <1>4 DEF DetachStep, UnhookFunctions, DeInitNamedPipe
  <1>5. CASE KillTarget \/ KillDumper
    BY <1>5 DEF KillTarget, KillDumper, DumperExits, RemoteEnded, Attaching
  <1>. QED BY <1>1, <1>2, <1>3, <1>4, <1>5 DEF Next

LEMMA LifeInvariant == Spec => [](Known /\ LifeInv)
  <1>1. Init => LifeInv
    BY DEF Init, LifeInv, AtWork, Attaching
  <1>2. Known /\ LifeInv /\ [Next]_vars => LifeInv'
    BY LifeMain, LifeRemote, LifeOthers
  <1>. QED BY <1>1, <1>2, KnownInvariant, PTL DEF Spec

-----------------------------------------------------------------------------
(* Where a run can stop.  Every wait of one thread must be on something    *)
(* another thread is still going to do.  What is needed besides Known and  *)
(* LifeInv: how far the connection is at each step of the remote thread,   *)
(* that a thread inside WriteFile has a connection, that main waits for a  *)
(* loop that runs and a target that was let go, and that a remote thread   *)
(* waiting for an answer has its question, and nothing else, on the way.   *)

Asking == {"readPath", "readType"}

ConnectionInv ==
  /\ writer # NoThread => Connected("up")
  /\ Connected("up") \/ rpc = "openUp" => Connected("down")
  /\ rpc \notin Unattached \cup {"dead"} => Connected("up")
  /\ tstate = "gone" => cli["up"] # "open"

WaitInv ==
  /\ dpc \in {"waitRemote", "resume", "waitLoop"} =>
       spc \in {"reading", "dispatch", "replying", "done"}
  /\ dpc = "waitLoop" => tstate \notin {"absent", "suspended"}

AnswerInv ==
  /\ down # <<>> => cli["down"] = "open"
  /\ rpc \notin Unattached \cup {"dead", "finished"} /\ dpc # "exited" => cli["up"] = "open"
  /\ rpc \in {"askPath", "askType"} => up = <<>> /\ buf = <<>>
  /\ rpc \in Asking => \A q \in {up, buf} : q # <<>> => Asked(q)
  /\ rpc \in Asking /\ dpc # "exited" /\ down = <<>> => up # <<>> \/ buf # <<>>

StopInv == ConnectionInv /\ WaitInv /\ AnswerInv

(* The connection.                                                         *)
LEMMA ConnectionRemote ==
  Known /\ LifeInv /\ ConnectionInv /\ RemoteStep => ConnectionInv'
  <1> SUFFICES ASSUME Known, LifeInv, ConnectionInv, RemoteStep PROVE ConnectionInv'
    OBVIOUS
  <1> USE DEF ConnectionInv, Connected, Unattached, RemoteMoves
  <1>0. /\ cli \in [Pipes -> {"unopened", "open", "invalid", "closed"}]
        /\ rpc \in Attaching \cup {"loading"}
        /\ tstate # "gone" /\ tstate' = tstate
    BY DEF Known, TypeInv, TypeOK, LifeInv, AtWork, RemoteStep, LoadLibrary, OpenPipes,
       SendRequest, GetStringResult, GetIntResult, AttachLog, InitEngine, CreateHook,
       RegisterCallback, CreateApiHook, CreateNativeHook, EnableHook, DllMainReturns, Attaching
  <1>1. CASE LoadLibrary
    BY <1>0, <1>1 DEF LoadLibrary, linkVars
  <1>2. CASE OpenPipes
    BY <1>0, <1>2 DEF OpenPipes, OpenClient, Pipes
  <1>3. CASE SendRequest
    BY <1>0, <1>3 DEF SendRequest, BeginWrite, Usable
  <1>4. CASE GetStringResult \/ GetIntResult
    BY <1>0, <1>4 DEF GetStringResult, GetIntResult
  <1>5. CASE AttachLog
    BY <1>0, <1>5 DEF AttachLog, BeginWrite, Usable, linkVars
  <1>6. CASE InitEngine \/ CreateHook \/ EnableHook \/ DllMainReturns
    BY <1>0, <1>6 DEF InitEngine, CreateHook, RegisterCallback, CreateApiHook,
       CreateNativeHook, EnableHook, DllMainReturns, linkVars
  <1>. QED BY <1>1, <1>2, <1>3, <1>4, <1>5, <1>6 DEF RemoteStep

LEMMA ConnectionMain ==
  Known /\ LifeInv /\ ConnectionInv /\ MainStep => ConnectionInv'
  <1> SUFFICES ASSUME Known, LifeInv, ConnectionInv, MainStep PROVE ConnectionInv'
    OBVIOUS
  <1> USE DEF ConnectionInv, Connected, Unattached
  <1>1. UNCHANGED <<cli, writer>>
    BY DEF MainStep, ParseArguments, InitNamedPipe, FindSpoofProcess, CreateTarget,
       AllocInTarget, InjectThread, WaitForConnection, SpawnLoop, WaitRemote, ResumeTarget,
       WaitLoop, DumperExits, DropServer, MainMoves, linkVars
  <1>2. CASE CreateTarget
    BY <1>1, <1>2 DEF CreateTarget, targetVars
  <1>3. CASE InjectThread
    BY <1>1, <1>3 DEF InjectThread
  <1>4. CASE ResumeTarget
    BY <1>1, <1>4 DEF ResumeTarget
  <1>5. CASE UNCHANGED targetVars
    BY <1>1, <1>5 DEF targetVars
  <1>. QED
    BY <1>2, <1>3, <1>4, <1>5 DEF MainStep, ParseArguments, InitNamedPipe, FindSpoofProcess,
       AllocInTarget, WaitForConnection, SpawnLoop, WaitRemote, WaitLoop

LEMMA ConnectionOthers ==
  /\ Known /\ LifeInv /\ ConnectionInv
  /\ [Next]_vars /\ ~MainStep /\ ~RemoteStep
  => ConnectionInv'
  <1> SUFFICES ASSUME Known, LifeInv, ConnectionInv, [Next]_vars, ~MainStep, ~RemoteStep
               PROVE  ConnectionInv'
    OBVIOUS
  <1> USE DEF ConnectionInv, Connected, Unattached, dumperVars, targetVars
  <1>0. cli \in [Pipes -> {"unopened", "open", "invalid", "closed"}]
    BY DEF Known, TypeInv, TypeOK
  <1>1. CASE LoopStep \/ UNCHANGED vars
    BY <1>1 DEF LoopStep, LoopRead, LoopDispatch, ReplyReturns, vars, linkVars
  <1>2. CASE WriteStep
    BY <1>2 DEF WriteStep, WriteReturns
  <1>3. CASE TargetStarts
    BY <1>3 DEF TargetStarts, linkVars
  <1>4. ASSUME NEW t \in HostThreads, HostLog(t) PROVE ConnectionInv'
    BY <1>4 DEF HostLog, BeginWrite, Usable
  <1>5. ASSUME DropClient
        PROVE  /\ writer' = NoThread
               /\ cli'["up"] # "open"
               /\ \A p \in Pipes : cli'[p] = "unopened" <=> cli[p] = "unopened"
    BY <1>0, <1>5 DEF DropClient, CancelWrite, Pipes
  <1>6. ASSUME NEW t \in HostThreads, ExitTarget(t) PROVE ConnectionInv'
    <2>1. CASE rpc = "finished"
      BY <1>6, <2>1 DEF ExitTarget, CancelWrite
    <2>2. CASE rpc # "finished"
      BY <1>5, <1>6, <2>2 DEF ExitTarget, RemoteEnded, Pipes
    <2>. QED BY <2>1, <2>2
  <1>7. CASE UnhookFunctions
    BY <1>7 DEF UnhookFunctions, BeginWrite, Usable, linkVars
  <1>8. CASE DeInitNamedPipe
    BY <1>0, <1>5, <1>8 DEF DeInitNamedPipe, Pipes
  <1>9. CASE KillTarget
    BY <1>5, <1>9 DEF KillTarget, RemoteEnded, Pipes
  <1>10. CASE KillDumper
    BY <1>10 DEF KillDumper, DumperExits, DropServer
  <1>. QED
    BY <1>1, <1>2, <1>3, <1>4, <1>6, <1>7, <1>8, <1>9, <1>10 DEF Next, DetachStep

(* What main waits for.                                                    *)
LEMMA WaitKeeps == Known /\ LifeInv /\ WaitInv /\ [Next]_vars => WaitInv'
  <1> SUFFICES ASSUME Known, LifeInv, WaitInv, [Next]_vars PROVE WaitInv'
    OBVIOUS
  <1> USE DEF WaitInv, dumperVars, targetVars
  <1>0. CASE DumperExits
    BY <1>0 DEF DumperExits
  <1>1. CASE ParseArguments \/ FindSpoofProcess \/ AllocInTarget \/ SpawnLoop \/ WaitLoop
    BY <1>0, <1>1 DEF ParseArguments, FindSpoofProcess, AllocInTarget, SpawnLoop, WaitLoop,
       MainMoves
  <1>2. CASE InitNamedPipe \/ CreateTarget \/ InjectThread \/ WaitForConnection \/ WaitRemote
    BY <1>0, <1>2 DEF InitNamedPipe, CreateTarget, InjectThread, WaitForConnection, WaitRemote,
       MainMoves
  <1>3. CASE ResumeTarget
    BY <1>3 DEF ResumeTarget, MainMoves, LifeInv
  <1>4. CASE LoopStep
    BY <1>4 DEF LoopStep, LoopRead, LoopDispatch, ReplyReturns
  <1>5. CASE RemoteStep
    BY <1>5 DEF RemoteStep, LoadLibrary, OpenPipes, SendRequest, GetStringResult,
       GetIntResult, AttachLog, InitEngine, CreateHook, EnableHook, DllMainReturns
  <1>6. CASE WriteStep \/ UNCHANGED vars
    BY <1>6 DEF WriteStep, vars
  <1>7. CASE TargetStarts \/ DetachStep \/ \E t \in HostThreads : HostLog(t) \/ ExitTarget(t)
    BY <1>7 DEF TargetStarts, DetachStep, UnhookFunctions, DeInitNamedPipe, HostLog, ExitTarget
  <1>8. CASE KillTarget \/ KillDumper
    BY <1>0, <1>8 DEF KillTarget, KillDumper
  <1>. QED
    BY <1>1, <1>2, <1>3, <1>4, <1>5, <1>6, <1>7, <1>8 DEF Next, MainStep

(* A run can stop only where Stopped says: whatever one thread waits for,  *)
(* another is about to do, unless the DLL will never connect.              *)
LEMMA NobodyWaitsInVain ==
  ASSUME Known, LifeInv, StopInv, ~MayStep, tstate # "running"
  PROVE  Stopped
  <1> USE DEF StopInv
  <1>1. /\ dpc \in DumperStates /\ spc \in LoopStates /\ tstate \in TargetStates
        /\ rpc \in RemoteStates
    BY DEF Known, TypeInv, TypeOK
  <1>2. ~MainMayStep /\ ~LoopMayStep /\ ~RemoteMayStep
        /\ ~WriteMayReturn /\ ~TargetMayStart /\ ~DetachMayStep
    BY DEF MayStep
  <1>3. dpc \in {"connectDown", "connectUp", "waitLoop", "exited"}
    BY <1>1, <1>2 DEF MainMayStep, DumperStates
  <1>4. CASE dpc = "connectDown"
    <2>1. ~Connected("down") /\ ~Connected("up") /\ rpc # "openUp"
      BY <1>2, <1>4 DEF MainMayStep, ConnectionInv
    <2>2. rpc \in Unattached \cup {"dead"} /\ writer = NoThread
      BY <2>1 DEF ConnectionInv
    <2>3. rpc \notin {"loading", "openDown"}
      BY <1>2, <2>2, NoThreadAssumption, NamedThreads DEF RemoteMayStep
    <2>. QED BY <1>4, <2>1, <2>2, <2>3 DEF Unattached, Stopped, InjectionHang
  <1>5. CASE dpc = "connectUp"
    <2>1. ~Connected("up")
      BY <1>2, <1>5 DEF MainMayStep
    <2>2. rpc \in Unattached \cup {"dead"} /\ writer = NoThread
      BY <2>1 DEF ConnectionInv
    <2>3. rpc \notin {"loading", "openDown", "openUp"}
      BY <1>2, <2>2, NoThreadAssumption, NamedThreads DEF RemoteMayStep
    <2>. QED BY <1>5, <2>1, <2>2, <2>3 DEF Unattached, Stopped, InjectionHang
  <1>6. CASE dpc = "waitLoop"
    <2>1. spc \in {"reading", "replying"}
      BY <1>2, <1>6 DEF MainMayStep, LoopMayStep, WaitInv
    <2>2. Connected("up") /\ rpc \notin Unattached
      BY <1>6 DEF Known, HookInv
    (* The loop in WriteFile: the reader of the reply is there to read it. *)
    <2>3. ASSUME spc = "replying" PROVE FALSE
      <3>1. down # <<>> /\ cli["down"] = "open"
        BY <1>2, <2>3 DEF LoopMayStep, Usable
      <3>2. rpc \in Asking
        BY <3>1 DEF Known, ConversationInv, Asking
      <3>3. up = <<>>
        BY <3>1, <3>2 DEF AnswerInv, Known, ConversationInv
      <3>4. writer = NoThread
        BY <1>2, <3>3 DEF WriteMayReturn
      <3>. QED BY <1>2, <3>1, <3>2, <3>4, NoThreadAssumption, NamedThreads
               DEF RemoteMayStep, ReadsReply, Asking
    (* The loop in ReadFile: nobody is left to write, so the client closes.*)
    <2>4. ASSUME spc = "reading" PROVE FALSE
      <3>1. up = <<>> /\ cli["up"] = "open" /\ buf = <<>>
        BY <1>2, <2>4 DEF LoopMayStep, Known, LinkInv
      <3>2. writer = NoThread /\ tstate # "gone" /\ rpc # "dead"
        BY <1>2, <3>1 DEF WriteMayReturn, ConnectionInv, Known, HookInv
      <3>3. tstate = "resumed"
        BY <1>1, <1>2, <1>6, <3>2, NoThreadAssumption, NamedThreads
           DEF TargetStates, WaitInv, DetachMayStep
      <3>4. rpc \in Attaching
        BY <1>2, <3>3 DEF TargetMayStart, LoaderLockHeld
      <3>5. rpc \in Asking
        BY <1>2, <3>2, <3>4, NoThreadAssumption, NamedThreads
           DEF RemoteMayStep, Attaching, Asking
      <3>6. down # <<>>
        BY <1>6, <3>1, <3>5 DEF AnswerInv
      <3>. QED BY <1>2, <3>2, <3>5, <3>6, NoThreadAssumption, NamedThreads
               DEF RemoteMayStep, ReadsReply, Asking, AnswerInv
    <2>. QED BY <2>1, <2>3, <2>4
  <1>7. CASE dpc = "exited"
    <2>1. \A p \in Pipes : ~Usable(p)
      BY <1>7 DEF Known, ConversationInv, Usable
    <2>2. writer = NoThread
      BY <1>2, <2>1 DEF WriteMayReturn, Pipes
    <2>3. rpc \notin Attaching
      <3>1. rpc \in Asking => ReadsReply \/ ReadFails
        BY <2>1 DEF ReadsReply, ReadFails, AnswerInv, Pipes
      <3>. QED BY <1>2, <2>2, <3>1, NoThreadAssumption, NamedThreads
               DEF RemoteMayStep, Attaching, Asking
    <2>4. tstate \in {"absent", "suspended", "gone"}
      BY <1>1, <1>2, <2>2, <2>3, NoThreadAssumption, NamedThreads
         DEF TargetStates, TargetMayStart, LoaderLockHeld, DetachMayStep
    <2>. QED BY <1>7, <2>4 DEF Stopped
  <1>. QED BY <1>3, <1>4, <1>5, <1>6, <1>7

(* The question and its answer.                                            *)
LEMMA AnswerMain == Known /\ AnswerInv /\ MainStep => AnswerInv'
  <1> SUFFICES ASSUME Known, AnswerInv, MainStep PROVE AnswerInv'
    OBVIOUS
  <1> USE DEF AnswerInv, Asked, Asking, targetVars
  <1>0. CASE DumperExits /\ UNCHANGED targetVars
    BY <1>0 DEF DumperExits, DropServer
  <1>1. CASE InitNamedPipe
    BY <1>1 DEF InitNamedPipe, Known, HookInv, Unattached
  <1>2. CASE SpawnLoop
    BY <1>0, <1>2 DEF SpawnLoop, linkVars
  <1>3. ASSUME NEW from, NEW to, MainMoves(from, to), from # "exited", UNCHANGED rpc
        PROVE  AnswerInv'
    BY <1>3 DEF MainMoves, linkVars
  <1>4. CASE InjectThread
    BY <1>4 DEF InjectThread, MainMoves, linkVars, Unattached
  <1>5. CASE ParseArguments \/ FindSpoofProcess \/ CreateTarget \/ AllocInTarget \/ WaitLoop
    BY <1>0, <1>3, <1>5 DEF ParseArguments, FindSpoofProcess, CreateTarget, AllocInTarget,
       WaitLoop
  <1>6. CASE WaitForConnection \/ WaitRemote \/ ResumeTarget
    BY <1>3, <1>6 DEF WaitForConnection, WaitRemote, ResumeTarget
  <1>. QED BY <1>1, <1>2, <1>4, <1>5, <1>6 DEF MainStep

LEMMA AnswerLoop == Known /\ AnswerInv /\ LoopStep => AnswerInv'
  <1> SUFFICES ASSUME Known, AnswerInv, LoopStep PROVE AnswerInv'
    OBVIOUS
  <1> USE DEF AnswerInv, Asking, targetVars
  <1>1. CASE LoopRead
    <2>1. buf = <<>>
      BY <1>1 DEF LoopRead, Known, LinkInv
    <2>. QED BY <1>1, <2>1 DEF LoopRead, Asked
  <1>2. CASE LoopDispatch
    <2>1. PICK m \in Messages : buf = <<m>>
      BY <1>2 DEF LoopDispatch, Known, LinkInv, Short, TypeInv, BufferFull
    <2>2. /\ UNCHANGED <<cli, up, rpc, dpc>> /\ buf' = <<>>
          /\ down \in Seq(Replies)
      BY <1>2 DEF LoopDispatch, Known, TypeInv, TypeOK
    <2>3. CASE m.type # "LOG_MSG" /\ Usable("down")
      <3>1. down' # <<>> /\ cli["down"] = "open"
        <4>1. Reply(m) \in Replies
          BY <1>2, ReplyType DEF LoopDispatch, Known, TypeInv, ArgValid, LoopHasArg
        <4>2. down' = Append(down, Reply(m))
          BY <1>2, <2>1, <2>3 DEF LoopDispatch
        <4>3. Append(down, Reply(m)) # <<>>
          BY <2>2, <4>1, AppendProperties
        <4>. QED BY <2>3, <4>2, <4>3 DEF Usable
      <3>. QED BY <2>2, <3>1 DEF Asked
    <2>4. CASE ~(m.type # "LOG_MSG" /\ Usable("down"))
      <3>1. down' = down
        BY <1>2, <2>1, <2>4 DEF LoopDispatch
      <3>2. ASSUME rpc \in Asking, dpc # "exited" PROVE FALSE
        <4>1. m.type # "LOG_MSG"
          BY <2>1, <3>2 DEF Asked
        <4>2. Usable("down")
          BY <3>2 DEF Usable, Known, ConversationInv, HookInv, Attaching
        <4>. QED BY <2>4, <4>1, <4>2
      <3>. QED BY <2>2, <3>1, <3>2 DEF Asked
    <2>. QED BY <2>3, <2>4
  <1>3. CASE ReplyReturns
    BY <1>3 DEF ReplyReturns, linkVars, Asked
  <1>. QED BY <1>1, <1>2, <1>3 DEF LoopStep

LEMMA AnswerRemote == Known /\ LifeInv /\ AnswerInv /\ RemoteStep => AnswerInv'
  <1> SUFFICES ASSUME Known, LifeInv, AnswerInv, RemoteStep PROVE AnswerInv'
    OBVIOUS
  <1> USE DEF AnswerInv, RemoteMoves, dumperVars
  <1>0. /\ cli \in [Pipes -> {"unopened", "open", "invalid", "closed"}]
        /\ rpc \notin Asking \cup {"dead"} => down = <<>> /\ ~Asked(up) /\ ~Asked(buf)
        /\ rpc # "none" /\ dpc # "exited" => srv = "open"
    BY DEF Known, TypeInv, TypeOK, ConversationInv, HookInv, Awaits, Asking
  <1>1. CASE LoadLibrary
    BY <1>1 DEF LoadLibrary, linkVars, Unattached, Asking
  <1>2. CASE OpenPipes
    <2>1. up = <<>> /\ buf = <<>>
      BY <1>2 DEF OpenPipes, Known, HookInv, LinkInv, Connected, Usable, Unattached
    <2>. QED BY <1>0, <1>2, <2>1 DEF OpenPipes, OpenClient, Unattached, Asking, Pipes
  <1>3. ASSUME NEW m \in {AskString, AskInt}, BeginWrite("remote", m), SendRequest
        PROVE  AnswerInv'
    <2>1. rpc \notin Asking \cup Unattached \cup {"dead", "finished"} /\ rpc' \in Asking
      BY <1>3 DEF SendRequest, Asking, Unattached
    <2>2. /\ UNCHANGED <<srv, cli, down, buf, dpc>>
          /\ up' = <<>> \/ up' = <<m>>
      BY <1>3, WriteAlone, MessageKinds, NamedThreads DEF SendRequest
    <2>3. dpc # "exited" => up' = <<m>>
      <3>1. dpc # "exited" => Usable("up")
        BY <1>0, <2>1 DEF Usable, Unattached
      <3>2. up = <<>>
        BY <1>3, WriteAlone, MessageKinds, NamedThreads
      <3>. QED BY <1>3, <3>1, <3>2, AppendToTail, MessageKinds, EmptySeq DEF BeginWrite
    <2>4. buf = <<>>
      BY <1>3 DEF SendRequest
    <2>. QED BY <2>1, <2>2, <2>3, <2>4 DEF Asked, Asking, AskString, AskInt
  <1>4. CASE SendRequest
    BY <1>3, <1>4 DEF SendRequest
  <1>5. CASE GetStringResult
    <2>1. rpc = "readPath" /\ rpc' = "askType" /\ UNCHANGED <<cli, up, buf, dpc>>
      BY <1>5 DEF GetStringResult
    <2>2. CASE ReadsReply
      <3>1. Len(down) = 1 /\ down' = Tail(down) /\ ~Asked(up) /\ ~Asked(buf)
        BY <1>5, <2>1, <2>2 DEF GetStringResult, ReadsReply, ReadFails, Known, ConversationInv
      <3>2. up = <<>> /\ buf = <<>>
        BY <2>1, <3>1 DEF Asking
      <3>. QED BY <2>1, <2>2, <3>2 DEF Asking, Unattached, ReadsReply
    <2>3. CASE ReadFails
      <3>1. dpc = "exited" /\ UNCHANGED down
        BY <1>0, <1>5, <2>1, <2>3 DEF GetStringResult, ReadFails, ReadsReply, Usable, Known,
           ConversationInv, Attaching
      <3>2. up = <<>> /\ buf = <<>>
        BY <3>1 DEF Known, LinkInv, TypeInv, LoopHasArg, Usable, ConversationInv
      <3>. QED BY <2>1, <2>3, <3>1, <3>2 DEF Asking, Unattached
    <2>. QED BY <1>5, <2>2, <2>3 DEF GetStringResult
  <1>6. CASE GetIntResult
    BY <1>6 DEF GetIntResult, ReadsReply, ReadFails, Asking, Unattached
  <1>7. CASE AttachLog
    <2>1. rpc \notin Asking \cup Unattached \cup {"dead", "finished"}
          /\ rpc' \notin Asking \cup {"askPath", "askType"} /\ UNCHANGED <<cli, down, dpc>>
      BY <1>7 DEF AttachLog, BeginWrite, linkVars, Asking, Unattached
    <2>. QED BY <1>0, <2>1
  <1>8. CASE InitEngine \/ CreateHook \/ EnableHook \/ DllMainReturns
    <2>1. rpc \notin Asking \cup Unattached \cup {"dead", "finished"}
          /\ rpc' \notin Asking \cup {"askPath", "askType"} /\ UNCHANGED <<cli, down, dpc>>
      BY <1>8 DEF InitEngine, CreateHook, RegisterCallback, CreateApiHook, CreateNativeHook,
         EnableHook, DllMainReturns, linkVars, Asking, Unattached
    <2>. QED BY <1>0, <2>1
  <1>. QED
    BY <1>1, <1>2, <1>4, <1>5, <1>6, <1>7, <1>8 DEF RemoteStep

LEMMA AnswerOthers ==
  /\ Known /\ LifeInv /\ AnswerInv
  /\ [Next]_vars /\ ~MainStep /\ ~LoopStep /\ ~RemoteStep
  => AnswerInv'
  <1> SUFFICES ASSUME Known, LifeInv, AnswerInv, [Next]_vars,
                      ~MainStep, ~LoopStep, ~RemoteStep
               PROVE  AnswerInv'
    OBVIOUS
  <1> USE DEF AnswerInv, dumperVars, targetVars
  <1>0. ASSUME rpc \in {"none", "loadFailed", "finished", "dead"},
               rpc' \in {"none", "loadFailed", "finished", "dead"},
               down' # <<>> => down # <<>> /\ cli'["down"] = cli["down"]
        PROVE  AnswerInv'
    BY <1>0 DEF Asking, Unattached
  <1>1. CASE UNCHANGED vars
    BY <1>1 DEF vars, linkVars, Asked
  <1>2. CASE WriteStep
    BY <1>2 DEF WriteStep, WriteReturns, Asked
  <1>3. CASE TargetStarts
    BY <1>3 DEF TargetStarts, linkVars, Asked
  <1>4. InTargetCode => rpc = "finished"
    BY DEF Known, HookInv, HooksBeforeTargetCode
  <1>5. ASSUME NEW t \in HostThreads, HostLog(t) \/ ExitTarget(t) PROVE AnswerInv'
    BY <1>0, <1>4, <1>5 DEF HostLog, ExitTarget, BeginWrite, CancelWrite, InTargetCode
  <1>6. CASE DetachStep
    BY <1>0, <1>4, <1>6 DEF DetachStep, UnhookFunctions, DeInitNamedPipe, BeginWrite,
       DropClient, linkVars, InTargetCode
  <1>7. CASE KillTarget
    BY <1>7 DEF KillTarget, DropClient, RemoteEnded, Asking, Unattached
  <1>8. CASE KillDumper
    BY <1>8 DEF KillDumper, DumperExits, DropServer, Asked
  <1>. QED BY <1>1, <1>2, <1>3, <1>5, <1>6, <1>7, <1>8 DEF Next

LEMMA StopInvariant == Spec => [](Known /\ LifeInv /\ StopInv)
  <1>1. Init => StopInv
    BY DEF Init, LinkInit, StopInv, ConnectionInv, WaitInv, AnswerInv, Connected, Unattached,
       Asking, Pipes
  <1>2. Known /\ LifeInv /\ StopInv /\ [Next]_vars => StopInv'
    BY ConnectionMain, ConnectionRemote, ConnectionOthers, WaitKeeps, AnswerMain, AnswerLoop,
       AnswerRemote, AnswerOthers DEF StopInv
  <1>. QED BY <1>1, <1>2, LifeInvariant, PTL DEF Spec

(* No deadlock: as long as the target has not ended or been left suspended *)
(* by a dumper that is gone, and the DLL can still connect, one of the     *)
(* threads of the two programs has a step to take; they never all wait for *)
(* each other, whoever is killed and whatever call fails.                  *)
THEOREM NoDeadlock == Spec => []StopsOnlyWhen
  <1>1. Known /\ LifeInv /\ StopInv => StopsOnlyWhen
    BY NobodyWaitsInVain DEF StopsOnlyWhen
  <1>. QED BY <1>1, StopInvariant, PTL

-----------------------------------------------------------------------------
(* How the calls on the pipe look from the console                         *)

Stutters == UNCHANGED <<SessionTarget, rpc = "finished", dpc # "exited", buf \o up, handled>>

LEMMA MapUnchanged == Stutters => UNCHANGED S!vars
  BY DEF Stutters, S!vars

(* A write posts its message, or finds nobody to post it to.               *)
LEMMA WritePosts ==
  ASSUME Known, NEW t \in Threads, NEW m \in Messages, BeginWrite(t, m),
         UNCHANGED <<SessionTarget, rpc = "finished", dpc, buf, handled>>,
         SessionTarget \in {"held", "free", "leaving"}
  PROVE  S!Post(m) \/ UNCHANGED S!vars
  <1>1. CASE Usable("up")
    <2>1. dpc # "exited"
      BY <1>1 DEF Known, ConversationInv, Usable
    <2>2. buf \o Append(up, m) = Append(buf \o up, m)
      BY AppendProperties, AppendIsConcat, ConcatAssociative, ConcatProperties
         DEF Known, TypeInv, TypeOK
    <2>. QED BY <1>1, <2>1, <2>2 DEF BeginWrite, S!Post
  <1>2. CASE ~Usable("up")
    BY <1>2 DEF BeginWrite, S!vars
  <1>. QED BY <1>1, <1>2

(* What is withdrawn is the tail of what is pending.                       *)
LEMMA CancelKeepsPrefix ==
  ASSUME Known, CancelWrite, UNCHANGED buf
  PROVE  \E kept \in 0 .. Len(buf \o up) : (buf \o up)' = SubSeq(buf \o up, 1, kept)
  <1>1. buf \in Seq(Messages) /\ up \in Seq(Messages)
    BY DEF Known, TypeInv, TypeOK
  <1>2. Len(buf \o up) - Len(up) \in 0 .. Len(buf \o up)
    BY <1>1, ConcatProperties, LenProperties
  <1>3. SubSeq(buf \o up, 1, Len(buf \o up) - Len(up)) = buf
    BY <1>1, WithdrawTail
  <1>4. (buf \o up)' = buf
    BY <1>1, ConcatEmptySeq DEF CancelWrite
  <1>. QED BY <1>2, <1>3, <1>4

LEMMA EndingEnds ==
  ASSUME Known, CancelWrite, UNCHANGED <<rpc = "finished", dpc, buf, handled>>,
         \/ SessionTarget = "free" /\ SessionTarget' = "leaving"
         \/ SessionTarget \in {"held", "free", "leaving"} /\ SessionTarget' = "ended"
  PROVE  S!EndTarget
  BY CancelKeepsPrefix DEF S!EndTarget

LEMMA ExitEnds ==
  ASSUME Known, DumperExits, UNCHANGED targetVars, dpc # "exited"
  PROVE  S!EndDumper
  <1>1. (buf \o up)' = <<>>
    BY EmptySeq, ConcatEmptySeq DEF DumperExits, DropServer
  <1>. QED BY <1>1 DEF DumperExits, S!EndDumper, SessionTarget, targetVars

-----------------------------------------------------------------------------
(* Every step is a step of Session or none                                 *)

SessionStep == [S!Next]_(S!vars)

LEMMA MapMain == Known /\ LifeInv /\ MainStep => SessionStep
  <1> SUFFICES ASSUME Known, LifeInv, MainStep PROVE SessionStep
    OBVIOUS
  <1> USE DEF SessionStep
  <1>0. CASE DumperExits /\ UNCHANGED targetVars /\ dpc # "exited"
    BY <1>0, ExitEnds DEF S!Next
  <1>1. ASSUME NEW from, NEW to, MainMoves(from, to), from # "exited", to # "exited",
               UNCHANGED <<SessionTarget, rpc = "finished">>
        PROVE  SessionStep
    BY <1>1, MapUnchanged DEF Stutters, MainMoves, linkVars
  <1>2. CASE InitNamedPipe \/ SpawnLoop
    BY <1>0, <1>2, MapUnchanged DEF InitNamedPipe, SpawnLoop, Stutters, SessionTarget,
       targetVars, linkVars
  <1>3. CASE CreateTarget
    <2>1. CASE DumperExits /\ UNCHANGED targetVars
      BY <1>0, <1>3, <2>1 DEF CreateTarget, MainMoves
    <2>2. CASE MainMoves("create", "alloc") /\ tstate' = "suspended" /\ rpc' = rpc
      <3>1. tstate = "absent"
        BY <2>2 DEF MainMoves, Known, HookInv
      <3>2. S!Launch
        BY <2>2, <3>1 DEF S!Launch, SessionTarget, MainMoves, linkVars
      <3>. QED BY <3>2 DEF S!Next
    <2>. QED BY <1>3, <2>1, <2>2 DEF CreateTarget
  <1>4. CASE InjectThread
    BY <1>1, <1>4 DEF InjectThread, SessionTarget, Known, HookInv, MainMoves
  <1>5. CASE ResumeTarget
    BY <1>1, <1>5 DEF ResumeTarget, SessionTarget
  <1>6. CASE ParseArguments \/ FindSpoofProcess \/ AllocInTarget \/ WaitForConnection
             \/ WaitRemote \/ WaitLoop
    BY <1>0, <1>1, <1>6 DEF ParseArguments, FindSpoofProcess, AllocInTarget,
       WaitForConnection, WaitRemote, WaitLoop, SessionTarget, targetVars
  <1>. QED BY <1>2, <1>3, <1>4, <1>5, <1>6 DEF MainStep

LEMMA MapLoop == Known /\ LoopStep => SessionStep
  <1> SUFFICES ASSUME Known, LoopStep PROVE SessionStep
    OBVIOUS
  <1> USE DEF SessionStep
  <1>0. /\ up \in Seq(Messages) /\ <<>> \in Seq(Messages)
        /\ <<>> \o up = up /\ up \o <<>> = up
    BY EmptySeq, ConcatEmptySeq DEF Known, TypeInv, TypeOK
  <1>1. UNCHANGED <<SessionTarget, rpc = "finished", dpc>>
    BY DEF LoopStep, LoopRead, LoopDispatch, ReplyReturns, SessionTarget, targetVars
  <1>2. CASE LoopRead
    <2>1. buf = <<>>
      BY <1>2 DEF LoopRead, Known, LinkInv
    <2>. QED BY <1>0, <1>1, <1>2, <2>1, MapUnchanged DEF LoopRead, Stutters
  <1>3. CASE LoopDispatch
    <2>1. PICK m \in Messages : buf = <<m>>
      BY <1>3 DEF LoopDispatch, Known, LinkInv, Short, TypeInv, BufferFull
    <2>2. <<m>> \o up # <<>> /\ Head(<<m>> \o up) = m /\ Tail(<<m>> \o up) = up
      <3>1. <<m>> \in Seq(Messages) /\ Len(<<m>>) = 1
        OBVIOUS
      <3>2. /\ <<m>> \o up \in Seq(Messages)
            /\ Len(<<m>> \o up) = 1 + Len(up)
            /\ (<<m>> \o up)[1] = m
            /\ \A k \in 1 .. Len(up) : (<<m>> \o up)[k + 1] = up[k]
        BY <1>0, <3>1, ConcatProperties, LenProperties
      <3>3. <<m>> \o up # <<>>
        BY <1>0, <3>2, EmptySeq, LenProperties
      <3>4. /\ Head(<<m>> \o up) = m /\ Tail(<<m>> \o up) \in Seq(Messages)
            /\ Len(Tail(<<m>> \o up)) = Len(up)
            /\ \A k \in 1 .. Len(up) : Tail(<<m>> \o up)[k] = up[k]
        BY <1>0, <3>2, <3>3, HeadTailProperties, LenProperties
      <3>5. Tail(<<m>> \o up) = up
        BY <1>0, <3>4, SeqEqual
      <3>. QED BY <3>3, <3>4, <3>5
    <2>3. dpc # "exited"
      BY <1>3 DEF LoopDispatch, Known, TypeInv, LoopHasArg
    <2>4. /\ handled' = Append(handled, m)
          /\ (buf \o up)' = up
      BY <1>0, <1>3, <2>1 DEF LoopDispatch
    <2>5. S!Deliver
      BY <1>1, <2>1, <2>2, <2>3, <2>4 DEF S!Deliver
    <2>. QED BY <2>5 DEF S!Next
  <1>4. CASE ReplyReturns
    BY <1>1, <1>4, MapUnchanged DEF ReplyReturns, Stutters, linkVars
  <1>. QED BY <1>2, <1>3, <1>4 DEF LoopStep

LEMMA MapRemote == Known /\ LifeInv /\ RemoteStep => SessionStep
  <1> SUFFICES ASSUME Known, LifeInv, RemoteStep PROVE SessionStep
    OBVIOUS
  <1> USE DEF SessionStep
  <1>1. AtWork /\ SessionTarget = "held"
    BY DEF LifeInv, AtWork, SessionTarget, RemoteStep, LoadLibrary, OpenPipes, SendRequest,
       GetStringResult, GetIntResult, AttachLog, InitEngine, CreateHook, RegisterCallback,
       CreateApiHook, CreateNativeHook, EnableHook, DllMainReturns, RemoteMoves, Attaching
  <1>2. UNCHANGED <<tstate, dpc, buf, handled>> /\ SessionTarget' = SessionTarget
    BY DEF RemoteStep, LoadLibrary, OpenPipes, SendRequest, GetStringResult, GetIntResult,
       AttachLog, InitEngine, CreateHook, EnableHook, DllMainReturns, dumperVars, SessionTarget
  <1>3. CASE DllMainReturns
    <2>1. S!FinishHooks
      BY <1>1, <1>2, <1>3 DEF DllMainReturns, S!FinishHooks, RemoteMoves, linkVars
    <2>. QED BY <2>1 DEF S!Next
  <1>4. CASE ~DllMainReturns
    <2>1. UNCHANGED (rpc = "finished")
      BY <1>4 DEF RemoteStep, LoadLibrary, OpenPipes, SendRequest, GetStringResult,
         GetIntResult, AttachLog, InitEngine, CreateHook, RegisterCallback, CreateApiHook,
         CreateNativeHook, EnableHook, RemoteMoves
    <2>2. \/ up' = up
          \/ \E m \in Messages : BeginWrite("remote", m)
      BY <1>4, MessageKinds DEF RemoteStep, LoadLibrary, OpenPipes, OpenClient, SendRequest,
         GetStringResult, GetIntResult, AttachLog, InitEngine, CreateHook, EnableHook,
         LogBodies, linkVars
    <2>3. CASE up' = up
      BY <1>2, <2>1, <2>3, MapUnchanged DEF Stutters
    <2>4. ASSUME NEW m \in Messages, BeginWrite("remote", m) PROVE SessionStep
      BY <1>1, <1>2, <2>1, <2>4, WritePosts, NamedThreads DEF S!Next
    <2>. QED BY <2>2, <2>3, <2>4
  <1>. QED BY <1>3, <1>4

LEMMA MapOthers ==
  Known /\ LifeInv /\ Next /\ ~MainStep /\ ~LoopStep /\ ~RemoteStep => SessionStep
  <1> SUFFICES ASSUME Known, LifeInv, Next, ~MainStep, ~LoopStep, ~RemoteStep
               PROVE  SessionStep
    OBVIOUS
  <1> USE DEF SessionStep, dumperVars
  <1>0. InTargetCode => rpc = "finished"
    BY DEF Known, HookInv, HooksBeforeTargetCode
  <1>1. CASE WriteStep
    BY <1>1, MapUnchanged DEF WriteStep, WriteReturns, Stutters, SessionTarget, targetVars
  <1>2. CASE TargetStarts
    <2>1. rpc = "finished" /\ rpc' = rpc
      BY <1>2 DEF TargetStarts, LoaderLockHeld, Known, HookInv, Unattached, TypeInv, TypeOK,
         RemoteStates
    <2>2. S!Release
      BY <1>2, <2>1 DEF TargetStarts, S!Release, SessionTarget, linkVars
    <2>. QED BY <2>2 DEF S!Next
  <1>3. ASSUME NEW t \in HostThreads, HostLog(t) PROVE SessionStep
    <2>1. SessionTarget = "free" /\ UNCHANGED <<SessionTarget, rpc = "finished", dpc, buf, handled>>
      BY <1>3 DEF HostLog, SessionTarget
    <2>. QED BY <1>3, <2>1, WritePosts, MessageKinds, NamedThreads DEF HostLog, LogBodies, S!Next
  <1>4. ASSUME NEW t \in HostThreads, ExitTarget(t) PROVE SessionStep
    <2>1. /\ CancelWrite /\ UNCHANGED <<rpc = "finished", dpc, buf, handled>>
          /\ SessionTarget = "free" /\ SessionTarget' = "leaving"
      BY <1>0, <1>4 DEF ExitTarget, InTargetCode, SessionTarget
    <2>. QED BY <2>1, EndingEnds DEF S!Next
  <1>5. CASE UnhookFunctions
    <2>1. /\ UNCHANGED <<SessionTarget, rpc = "finished", dpc, buf, handled>>
          /\ SessionTarget = "leaving"
          /\ UNCHANGED linkVars \/ BeginWrite("detach", LogMsg("disabled"))
      BY <1>5 DEF UnhookFunctions, SessionTarget
    <2>2. CASE UNCHANGED linkVars
      BY <2>1, <2>2, MapUnchanged DEF Stutters, linkVars
    <2>. QED BY <2>1, <2>2, WritePosts, MessageKinds, NamedThreads DEF LogBodies, S!Next
  <1>6. CASE DeInitNamedPipe
    <2>1. CASE tstate = "closeDown"
      BY <1>6, <2>1, MapUnchanged DEF DeInitNamedPipe, Stutters, SessionTarget
    <2>2. CASE tstate = "closeUp"
      <3>1. /\ CancelWrite /\ UNCHANGED <<rpc = "finished", dpc, buf, handled>>
            /\ SessionTarget = "leaving" /\ SessionTarget' = "ended"
        BY <1>6, <2>2 DEF DeInitNamedPipe, DropClient, SessionTarget
      <3>. QED BY <3>1, EndingEnds DEF S!Next
    <2>. QED BY <1>6, <2>1, <2>2 DEF DeInitNamedPipe
  <1>7. CASE KillTarget
    <2>1. /\ CancelWrite /\ UNCHANGED <<rpc = "finished", dpc, buf, handled>>
          /\ SessionTarget \in {"held", "free", "leaving"} /\ SessionTarget' = "ended"
      BY <1>7 DEF KillTarget, DropClient, SessionTarget, RemoteEnded
    <2>. QED BY <2>1, EndingEnds DEF S!Next
  <1>8. CASE KillDumper
    BY <1>8, ExitEnds DEF KillDumper, S!Next
  <1>. QED
    BY <1>1, <1>2, <1>3, <1>4, <1>5, <1>6, <1>7, <1>8 DEF Next, DetachStep

(* A run of the dumper and the DLL is a Session: hooks before the target's *)
(* code, reports whole, in order and lost only with their process, for any *)
(* number of target threads and log messages.                              *)
THEOREM InjectionImplementsSession == Spec => ImplementsSession
  <1>1. Init => S!Init
    BY EmptySeq, ConcatEmptySeq DEF Init, LinkInit, S!Init, SessionTarget
  <1>2. Known /\ LifeInv /\ [Next]_vars => [S!Next]_(S!vars)
    <2>1. Known /\ LifeInv /\ Next => SessionStep
      BY MapMain, MapLoop, MapRemote, MapOthers
    <2>2. UNCHANGED vars => UNCHANGED S!vars
      BY MapUnchanged DEF vars, linkVars, dumperVars, targetVars, Stutters, SessionTarget
    <2>. QED BY <2>1, <2>2 DEF SessionStep
  <1>. QED BY <1>1, <1>2, LifeInvariant, PTL DEF Spec, ImplementsSession, S!Spec

-----------------------------------------------------------------------------
(* The programs run down                                                   *)

LEMMA TablesTyped ==
  /\ \A x \in DumperStates : MainLeft[x] \in Nat
  /\ \A x \in LoopStates : LoopLeft[x] \in Nat
  /\ \A x \in RemoteStates : RemoteLeft[x] \in Nat
  /\ \A x \in TargetStates : TargetLeft[x] \in Nat
  <1>1. \A x \in DumperStates : MainLeft[x] \in Nat
    BY DEF MainLeft, DumperStates
  <1>2. \A x \in LoopStates : LoopLeft[x] \in Nat
    BY DEF LoopLeft, LoopStates
  <1>3. \A x \in RemoteStates : RemoteLeft[x] \in Nat
    BY DEF RemoteLeft, RemoteStates, Attaching
  <1>4. \A x \in TargetStates : TargetLeft[x] \in Nat
    BY DEF TargetLeft, TargetStates
  <1>. QED BY <1>1, <1>2, <1>3, <1>4

LEMMA LeftTyped ==
  ASSUME TypeOK
  PROVE  /\ MainLeft[dpc] \in Nat /\ RemoteLeft[rpc] \in Nat /\ TargetLeft[tstate] \in Nat
         /\ LoopLeft[spc] \in Nat /\ Len(up) \in Nat
         /\ CallsLeft \in Nat /\ PipeLeft \in Nat
  <1>1. Len(up) \in Nat
    BY LenProperties DEF TypeOK
  <1>2. dpc \in DumperStates /\ rpc \in RemoteStates /\ tstate \in TargetStates /\ spc \in LoopStates
    BY DEF TypeOK
  <1>3. /\ MainLeft[dpc] \in Nat /\ RemoteLeft[rpc] \in Nat
        /\ TargetLeft[tstate] \in Nat /\ LoopLeft[spc] \in Nat
    BY <1>2, TablesTyped
  <1>4. CallsLeft \in Nat
    BY <1>3 DEF CallsLeft
  <1>5. PipeLeft \in Nat
    BY <1>1, <1>3 DEF PipeLeft
  <1>. QED BY <1>1, <1>3, <1>4, <1>5

LEMMA LeftTypedNext ==
  ASSUME TypeOK'
  PROVE  /\ MainLeft[dpc'] \in Nat /\ RemoteLeft[rpc'] \in Nat /\ TargetLeft[tstate'] \in Nat
         /\ LoopLeft[spc'] \in Nat /\ Len(up') \in Nat
         /\ CallsLeft' \in Nat /\ PipeLeft' \in Nat
  <1>1. Len(up') \in Nat
    BY LenProperties DEF TypeOK
  <1>2. dpc' \in DumperStates /\ rpc' \in RemoteStates /\ tstate' \in TargetStates /\ spc' \in LoopStates
    BY DEF TypeOK
  <1>3. /\ MainLeft[dpc'] \in Nat /\ RemoteLeft[rpc'] \in Nat
        /\ TargetLeft[tstate'] \in Nat /\ LoopLeft[spc'] \in Nat
    BY <1>2, TablesTyped
  <1>4. CallsLeft' \in Nat
    BY <1>3 DEF CallsLeft
  <1>5. PipeLeft' \in Nat
    BY <1>1, <1>3 DEF PipeLeft
  <1>. QED BY <1>1, <1>3, <1>4, <1>5

(* A call that returns outweighs what it put on the pipe.                  *)
LEMMA CallUsesWork ==
  ASSUME TypeOK, TypeOK', CallsLeft' < CallsLeft, PipeLeft' <= PipeLeft + 6
  PROVE  Work' < Work
  BY LeftTyped, LeftTypedNext DEF Work

LEMMA PipeUsesWork ==
  ASSUME TypeOK, TypeOK', UNCHANGED <<dpc, rpc, tstate>>, PipeLeft' < PipeLeft
  PROVE  Work' < Work
  <1>1. CallsLeft' = CallsLeft
    BY DEF CallsLeft
  <1>. QED BY <1>1, LeftTyped, LeftTypedNext DEF Work

LEMMA WriteAddsLittle ==
  ASSUME TypeOK, NEW t, NEW m \in Messages, BeginWrite(t, m), UNCHANGED spc
  PROVE  PipeLeft' <= PipeLeft + 6
  <1>1. Len(Append(up, m)) = Len(up) + 1
    BY AppendProperties DEF TypeOK
  <1>2. up' = up \/ up' = Append(up, m)
    BY DEF BeginWrite
  <1>3. Len(up') <= Len(up) + 1 /\ Len(up') \in Nat
    BY <1>1, <1>2, LeftTyped
  <1>. QED BY <1>3, LeftTyped DEF PipeLeft

LEMMA EmptiedAddsNothing ==
  ASSUME TypeOK, TypeOK', up' = <<>>, LoopLeft[spc'] <= LoopLeft[spc],
         writer' \in {writer, NoThread}
  PROVE  PipeLeft' <= PipeLeft
  <1>1. Len(up') = 0
    BY EmptySeq
  <1>. QED BY <1>1, LeftTyped, LeftTypedNext DEF PipeLeft

(* A thread that is terminated has nothing left to do.                     *)
LEMMA LoopCanEnd ==
  /\ LoopLeft["reading"] = 1
  /\ \A x \in LoopStates : LoopLeft["dead"] <= LoopLeft[x]
  BY DEF LoopLeft, LoopStates

LEMMA RemoteCanEnd == \A x \in RemoteStates : RemoteLeft["dead"] <= RemoteLeft[x]
  BY DEF RemoteLeft, RemoteStates, Attaching

(* main                                                                    *)
LEMMA MainRunsDown ==
  ASSUME TypeOK, TypeOK', HookInv, MainStep \/ KillDumper
  PROVE  Work' < Work
  <1>1. /\ <<dpc, dpc'>> \in
             {<<"parse", "initPipe">>, <<"initPipe", "spoof">>, <<"spoof", "create">>,
              <<"create", "alloc">>, <<"alloc", "inject">>, <<"inject", "connectDown">>,
              <<"connectDown", "connectUp">>, <<"connectUp", "spawn">>, <<"spawn", "waitRemote">>,
              <<"waitRemote", "resume">>, <<"resume", "waitLoop">>}
           \/ (dpc # "exited" /\ dpc' = "exited")
    BY DEF MainStep, ParseArguments, InitNamedPipe, FindSpoofProcess, CreateTarget, AllocInTarget,
       InjectThread, WaitForConnection, SpawnLoop, WaitRemote, ResumeTarget, WaitLoop, KillDumper,
       MainMoves, DumperExits
  <1>2. MainLeft[dpc'] < MainLeft[dpc]
    <2>1. dpc \in DumperStates
      BY DEF TypeOK
    <2>. QED BY <1>1, <2>1 DEF MainLeft, DumperStates
  <1>3. RemoteLeft[rpc'] <= RemoteLeft[rpc]
    <2>1. rpc' = rpc \/ (dpc = "inject" /\ rpc' \in {"loading", "none"})
      BY DEF MainStep, ParseArguments, InitNamedPipe, FindSpoofProcess, CreateTarget, AllocInTarget,
         InjectThread, WaitForConnection, SpawnLoop, WaitRemote, ResumeTarget, WaitLoop, KillDumper,
         MainMoves, targetVars
    <2>2. rpc' = rpc \/ (rpc = "none" /\ rpc' = "loading")
      BY <2>1 DEF HookInv
    <2>3. RemoteLeft["loading"] <= RemoteLeft["none"]
      BY DEF RemoteLeft
    <2>. QED BY <2>2, <2>3, LeftTyped
  <1>4. TargetLeft[tstate'] <= TargetLeft[tstate]
    <2>1. \/ tstate' = tstate
          \/ dpc = "create" /\ tstate' = "suspended"
          \/ tstate = "suspended" /\ tstate' = "resumed"
      BY DEF MainStep, ParseArguments, InitNamedPipe, FindSpoofProcess, CreateTarget, AllocInTarget,
         InjectThread, WaitForConnection, SpawnLoop, WaitRemote, ResumeTarget, WaitLoop, KillDumper,
         MainMoves, targetVars
    <2>2. \/ tstate' = tstate
          \/ tstate = "absent" /\ tstate' = "suspended"
          \/ tstate = "suspended" /\ tstate' = "resumed"
      BY <2>1 DEF HookInv
    <2>3. /\ TargetLeft["suspended"] <= TargetLeft["absent"]
          /\ TargetLeft["resumed"] <= TargetLeft["suspended"]
      BY DEF TargetLeft
    <2>. QED BY <2>2, <2>3, LeftTyped
  <1>5. CallsLeft' < CallsLeft
    <2>1. CallsLeft' = MainLeft[dpc'] + RemoteLeft[rpc'] + TargetLeft[tstate']
      BY DEF CallsLeft
    <2>2. CallsLeft = MainLeft[dpc] + RemoteLeft[rpc] + TargetLeft[tstate]
      BY DEF CallsLeft
    <2>3. /\ MainLeft[dpc] \in Nat /\ RemoteLeft[rpc] \in Nat /\ TargetLeft[tstate] \in Nat
          /\ MainLeft[dpc'] \in Nat /\ RemoteLeft[rpc'] \in Nat /\ TargetLeft[tstate'] \in Nat
      BY LeftTyped, LeftTypedNext
    <2>. QED BY <1>2, <1>3, <1>4, <2>1, <2>2, <2>3
  <1>6. PipeLeft' <= PipeLeft + 6
    <2>1. CASE DumperExits
      <3>1. LoopLeft[spc'] <= LoopLeft[spc]
        <4>1. spc' = spc \/ spc' = "dead"
          BY <2>1 DEF DumperExits
        <4>2. spc \in LoopStates
          BY DEF TypeOK
        <4>. QED BY <4>1, <4>2, LoopCanEnd, LeftTyped
      <3>. QED BY <2>1, <3>1, EmptiedAddsNothing, LeftTyped, LeftTypedNext DEF DumperExits, DropServer
    <2>2. CASE UNCHANGED <<up, writer>> /\ spc' \in {spc, "reading"}
      <3>1. LoopLeft[spc'] <= LoopLeft[spc] + 1
        BY <2>2, LeftTyped, LoopCanEnd
      <3>2. PipeLeft' = 5 * Len(up) + LoopLeft[spc'] + (IF writer = NoThread THEN 0 ELSE 1)
        BY <2>2 DEF PipeLeft
      <3>3. PipeLeft = 5 * Len(up) + LoopLeft[spc] + (IF writer = NoThread THEN 0 ELSE 1)
        BY DEF PipeLeft
      <3>4. LoopLeft[spc] \in Nat /\ LoopLeft[spc'] \in Nat /\ Len(up) \in Nat
        BY LeftTyped, LeftTypedNext
      <3>. QED BY <3>1, <3>2, <3>3, <3>4
    <2>. QED BY <2>1, <2>2
           DEF MainStep, ParseArguments, InitNamedPipe, FindSpoofProcess, CreateTarget, AllocInTarget,
               InjectThread, WaitForConnection, SpawnLoop, WaitRemote, ResumeTarget, WaitLoop,
               KillDumper, MainMoves, linkVars
  <1>. QED BY <1>5, <1>6, CallUsesWork

(* The pipe thread                                                         *)
LEMMA LoopRunsDown ==
  ASSUME TypeOK, TypeOK', LoopStep
  PROVE  Work' < Work
  <1>1. CASE LoopRead
    <2>1. CASE up # <<>> /\ up' = <<>> /\ spc = "reading" /\ spc' = "dispatch"
      <3>1. Len(up') = 0 /\ Len(up) >= 1
        BY <2>1, EmptySeq, LeftTyped DEF TypeOK
      <3>2. PipeLeft' < PipeLeft
        BY <1>1, <2>1, <3>1, LeftTyped DEF LoopRead, PipeLeft, LoopLeft
      <3>. QED BY <1>1, <3>2, PipeUsesWork DEF LoopRead, targetVars
    <2>2. CASE UNCHANGED up /\ spc = "reading" /\ spc' = "done"
      <3>1. PipeLeft' < PipeLeft
        BY <1>1, <2>2, LeftTyped DEF LoopRead, PipeLeft, LoopLeft
      <3>. QED BY <1>1, <3>1, PipeUsesWork DEF LoopRead, targetVars
    <2>. QED BY <1>1, <2>1, <2>2 DEF LoopRead
  <1>2. CASE LoopDispatch \/ ReplyReturns
    <2>1. /\ UNCHANGED <<up, writer, dpc, rpc, tstate>>
          /\ \/ spc = "dispatch" /\ spc' \in {"replying", "reading"}
             \/ spc = "replying" /\ spc' = "reading"
      BY <1>2 DEF LoopDispatch, ReplyReturns, linkVars, targetVars
    <2>2. LoopLeft[spc'] < LoopLeft[spc]
      BY <2>1 DEF LoopLeft
    <2>3. PipeLeft' < PipeLeft
      BY <2>1, <2>2, LeftTyped, LeftTypedNext DEF PipeLeft
    <2>. QED BY <2>1, <2>3, PipeUsesWork
  <1>. QED BY <1>1, <1>2 DEF LoopStep

(* The remote thread                                                       *)
LEMMA RemoteRunsDown ==
  ASSUME TypeOK, TypeOK', RemoteStep
  PROVE  Work' < Work
  <1> USE DEF RemoteMoves
  <1>1. <<rpc, rpc'>> \in
          {<<"loading", "openDown">>, <<"loading", "loadFailed">>, <<"openDown", "openUp">>,
           <<"openUp", "askPath">>, <<"askPath", "readPath">>, <<"readPath", "askType">>,
           <<"askType", "readType">>, <<"readType", "logInjected">>, <<"logInjected", "mhInit">>,
           <<"mhInit", "logHooking">>, <<"mhInit", "logEngine">>, <<"logEngine", "logHooking">>,
           <<"logHooking", "createHook">>, <<"logHooking", "returning">>,
           <<"createHook", "returning">>, <<"createHook", "enableHook">>,
           <<"createHook", "logNotHooked">>, <<"enableHook", "logHooked">>,
           <<"enableHook", "logNotHooked">>, <<"logHooked", "returning">>,
           <<"logNotHooked", "returning">>, <<"returning", "finished">>}
    BY DEF RemoteStep, LoadLibrary, OpenPipes, SendRequest, GetStringResult, GetIntResult,
       AttachLog, InitEngine, CreateHook, RegisterCallback, CreateApiHook, CreateNativeHook,
       EnableHook, DllMainReturns
  <1>2. RemoteLeft[rpc'] < RemoteLeft[rpc]
    BY <1>1 DEF RemoteLeft
  <1>3. UNCHANGED <<dpc, spc, tstate>>
    BY DEF RemoteStep, LoadLibrary, OpenPipes, SendRequest, GetStringResult, GetIntResult,
       AttachLog, InitEngine, CreateHook, EnableHook, DllMainReturns, dumperVars
  <1>4. CallsLeft' < CallsLeft
    BY <1>2, <1>3, LeftTyped, LeftTypedNext DEF CallsLeft
  <1>5. UNCHANGED <<up, writer>> \/ \E m \in Messages : BeginWrite("remote", m)
    <2>1. CASE SendRequest \/ AttachLog
      BY <2>1, MessageKinds DEF SendRequest, AttachLog, linkVars, LogBodies
    <2>. QED BY <2>1 DEF RemoteStep, LoadLibrary, OpenPipes, OpenClient, GetStringResult,
             GetIntResult, InitEngine, CreateHook, EnableHook, DllMainReturns, linkVars
  <1>6. PipeLeft' <= PipeLeft + 6
    <2>1. CASE UNCHANGED <<up, writer>>
      <3>1. PipeLeft' = PipeLeft
        BY <1>3, <2>1 DEF PipeLeft
      <3>. QED BY <3>1, LeftTyped
    <2>. QED BY <1>3, <1>5, <2>1, WriteAddsLittle
  <1>. QED BY <1>4, <1>6, CallUsesWork

(* The target and its end                                                  *)
LEMMA TargetRunsDown ==
  ASSUME TypeOK, TypeOK',
         \/ TargetStarts \/ DetachStep \/ KillTarget
         \/ \E t \in HostThreads : ExitTarget(t)
  PROVE  Work' < Work
  <1>1. /\ <<tstate, tstate'>> \in
             {<<"resumed", "running">>, <<"running", "unhooking">>, <<"unhooking", "uninit">>,
              <<"uninit", "closeDown">>, <<"closeDown", "closeUp">>}
           \/ (tstate \notin {"absent", "gone"} /\ tstate' = "gone")
        /\ rpc' \in {rpc, "dead"} /\ UNCHANGED <<dpc, spc>>
    BY DEF TargetStarts, DetachStep, UnhookFunctions, DeInitNamedPipe, KillTarget, ExitTarget,
       dumperVars
  <1>2. TargetLeft[tstate'] < TargetLeft[tstate]
    <2>1. tstate \in TargetStates
      BY DEF TypeOK
    <2>. QED BY <1>1, <2>1 DEF TargetLeft, TargetStates
  <1>3. RemoteLeft[rpc'] <= RemoteLeft[rpc]
    <2>1. rpc \in RemoteStates
      BY DEF TypeOK
    <2>. QED BY <1>1, <2>1, LeftTyped, RemoteCanEnd
  <1>4. CallsLeft' < CallsLeft
    BY <1>1, <1>2, <1>3, LeftTyped, LeftTypedNext DEF CallsLeft
  <1>5. \/ UNCHANGED <<up, writer>>
        \/ up' = <<>> /\ writer' = NoThread
        \/ \E m \in Messages : BeginWrite("detach", m)
    BY MessageKinds DEF TargetStarts, DetachStep, UnhookFunctions, DeInitNamedPipe, KillTarget,
       ExitTarget, DropClient, CancelWrite, linkVars, LogBodies
  <1>6. PipeLeft' <= PipeLeft + 6
    <2>1. CASE UNCHANGED <<up, writer>>
      <3>1. PipeLeft' = PipeLeft
        BY <1>1, <2>1 DEF PipeLeft
      <3>. QED BY <3>1, LeftTyped
    <2>2. CASE up' = <<>> /\ writer' = NoThread
      <3>1. LoopLeft[spc'] <= LoopLeft[spc]
        BY <1>1, LeftTyped
      <3>2. PipeLeft' <= PipeLeft
        BY <2>2, <3>1, EmptiedAddsNothing
      <3>. QED BY <3>2, LeftTyped, LeftTypedNext
    <2>. QED BY <1>1, <1>5, <2>1, <2>2, WriteAddsLittle
  <1>. QED BY <1>4, <1>6, CallUsesWork

LEMMA WriteRunsDown ==
  ASSUME TypeOK, TypeOK', WriteStep
  PROVE  Work' < Work
  <1>1. UNCHANGED <<up, spc, dpc, rpc, tstate>> /\ writer # NoThread /\ writer' = NoThread
    BY DEF WriteStep, WriteReturns, dumperVars, targetVars
  <1>2. PipeLeft' < PipeLeft
    BY <1>1, LeftTyped DEF PipeLeft
  <1>. QED BY <1>1, <1>2, PipeUsesWork

(* For any number of threads: but for the messages that the target's own   *)
(* code logs, a run of the two programs has only so many steps.            *)
THEOREM RunsAreFinite == Spec => WorkRunsOut
  <1>1. TypeInv /\ TypeInv' /\ HookInv /\ [Next]_vars => [(\E t \in HostThreads : HostLog(t)) \/ Work' < Work]_vars
    <2> SUFFICES ASSUME TypeOK, TypeOK', HookInv, Next, ~ \E t \in HostThreads : HostLog(t)
                 PROVE  Work' < Work
      BY DEF TypeInv
    <2>. QED BY MainRunsDown, LoopRunsDown, RemoteRunsDown, TargetRunsDown, WriteRunsDown DEF Next
  <1>. QED BY <1>1, TypeInvariant, HookInvariant, PTL DEF Spec, WorkRunsOut
=============================================================================
