------------------------------ MODULE Injection -------------------------------
(***************************************************************************)
(* One run of ClrDumper: the dumper's main thread launches a target        *)
(* suspended, makes a remote thread load HookClr.dll into it, waits for    *)
(* the DLL to connect, starts the thread that serves the pipes, waits for  *)
(* the remote thread, lets the target go and waits for the pipe to close.  *)
(*                                                                         *)
(* Actors: the dumper's main thread (dpc), its pipe thread (spc), the      *)
(* remote thread that runs LoadLibraryA and DllMain (rpc), the target's    *)
(* own threads (HostThreads) and the environment, which may make a call    *)
(* fail and may kill either process at any moment.                         *)
(***************************************************************************)
EXTENDS PipeLink

CONSTANTS HostThreads,   \* the target's own threads
          MaxHostLogs    \* bound: log messages per host thread

ASSUME ThreadAssumption ==
  /\ Threads = HostThreads \cup {"remote", "detach"}
  /\ HostThreads \cap {"remote", "detach"} = {}
ASSUME HostLogsAssumption == MaxHostLogs \in Nat

VARIABLES
  arg,       \* the mode on the command line
  dpc,       \* dumper, main thread
  spc,       \* dumper, thread of NamedPipeLoop
  buf,       \* what the last ReadFile of NamedPipeLoop returned
  handled,   \* history: the messages NamedPipeLoop parsed and served
  tstate,    \* the target process
  rpc,       \* the remote thread
  dumpPath,  \* DumpPath as HookFunctions got it
  hookType,  \* _hookType
  engine,    \* MinHook in the target
  hook,      \* what HookFunctions installed
  hostLogs   \* log messages written by each host thread

dumperVars == <<arg, dpc, spc, buf, handled>>
targetVars == <<tstate, rpc, dumpPath, hookType, engine, hook, hostLogs>>
vars == <<linkVars, dumperVars, targetVars>>

-----------------------------------------------------------------------------
ScriptModes == {"vbscript", "jscript"}
ApiModes    == {"asmload", "powershell"}
Modes       == ScriptModes \cup ApiModes \cup {"nativeclr"}

(* _stringKeyMap is filled before "\HookClr.dll" is appended to the path;  *)
(* operator[] returns an empty value for a key that is not there.          *)
IntFromStringMap(key) == IF key = "HOOK_TYPE" THEN "empty" ELSE "other"
StringValue(key) == IF key = "DUMP_PATH" THEN "dumperDir" ELSE "empty"
IntValue(key)    == IF key = "HOOK_TYPE" THEN arg ELSE "other"

AskString == [type |-> "GET_KEY_STRING", body |-> "DUMP_PATH"]
AskInt    == [type |-> "GET_KEY_INT", body |-> "HOOK_TYPE"]
LogMsg(b) == [type |-> "LOG_MSG", body |-> b]

LogBodies == {"injected", "engineFailed", "hooking", "hooked", "notHooked",
              "disabled", "host"}
Messages  == {AskString, AskInt} \cup {LogMsg(b) : b \in LogBodies}

Paths     == {"unset", "garbage", "dumperDir", "empty"}
HookTypes == Modes \cup {"unset", "other"}
Replies   == [kind : {"string"}, val : {"dumperDir", "empty"}]
             \cup [kind : {"int"}, val : Modes \cup {"other"}]

(* The remote thread inside DllMain: it holds the target's loader lock.    *)
Attaching == {"openDown", "openUp", "askPath", "readPath", "askType",
              "readType", "logInjected", "mhInit", "logEngine", "logHooking",
              "createHook", "enableHook", "logHooked", "logNotHooked",
              "returning"}
RemoteStates == Attaching \cup {"none", "loading", "loadFailed", "finished", "dead"}

RemoteEnded == rpc \in {"loadFailed", "finished", "dead"}

(* Threads that start or exit run loader code, which waits for the lock.   *)
HooksOutsideDllMain == FALSE
LoaderLockHeld == rpc \in Attaching

DumperStates == {"parse", "initPipe", "spoof", "create", "alloc", "inject",
                 "connectDown", "connectUp", "spawn", "waitRemote", "resume",
                 "waitLoop", "exited"}
LoopStates   == {"none", "reading", "dispatch", "replying", "done", "dead"}
TargetStates == {"absent", "suspended", "resumed", "running", "unhooking",
                 "uninit", "closeDown", "closeUp", "gone"}

Init ==
  /\ LinkInit
  /\ arg \in Modes \cup {"invalid"}
  /\ dpc = "parse"
  /\ spc = "none"
  /\ buf = <<>>
  /\ handled = <<>>
  /\ tstate = "absent"
  /\ rpc = "none"
  /\ dumpPath = "unset"
  /\ hookType = "unset"
  /\ engine = "uninit"
  /\ hook = "none"
  /\ hostLogs = [t \in HostThreads |-> 0]

-----------------------------------------------------------------------------
(* The dumper's main thread                                                *)

(* The process ends: the pipe thread dies with it unless it had returned.  *)
DumperExits ==
  /\ dpc' = "exited"
  /\ spc' = IF spc = "done" THEN "done" ELSE "dead"
  /\ buf' = <<>>
  /\ DropServer
  /\ UNCHANGED <<arg, handled>>

(* A step of main that touches nothing but its own program counter.        *)
MainMoves(from, to) ==
  /\ dpc = from
  /\ dpc' = to
  /\ UNCHANGED <<linkVars, arg, spc, buf, handled>>

ParseArguments ==
  \/ /\ arg \in Modes
     /\ MainMoves("parse", "initPipe")
     /\ UNCHANGED targetVars
  \/ /\ dpc = "parse"
     /\ arg = "invalid"
     /\ DumperExits
     /\ UNCHANGED targetVars

(* Both pipes are made here, by the only instance of the dumper.           *)
InitNamedPipe ==
  /\ dpc = "initPipe"
  /\ srv' = "open"
  /\ dpc' = "spoof"
  /\ UNCHANGED <<cli, up, down, writer, sent, arg, spc, buf, handled, targetVars>>

(* explorer.exe is looked up to be named as the parent.                    *)
FindSpoofProcess ==
  \/ MainMoves("spoof", "create") /\ UNCHANGED targetVars
  \/ dpc = "spoof" /\ DumperExits /\ UNCHANGED targetVars

CreateTarget ==
  \/ /\ MainMoves("create", "alloc")
     /\ tstate' = "suspended"
     /\ UNCHANGED <<rpc, dumpPath, hookType, engine, hook, hostLogs>>
  \/ dpc = "create" /\ DumperExits /\ UNCHANGED targetVars

(* VirtualAllocEx in the target; when it fails main ends and leaves the    *)
(* target as it is (TerminateProcess is commented out).                    *)
AllocInTarget ==
  \/ /\ tstate # "gone"
     /\ MainMoves("alloc", "inject")
     /\ UNCHANGED targetVars
  \/ dpc = "alloc" /\ DumperExits /\ UNCHANGED targetVars

(* CreateRemoteThread; a failure is printed and main goes on all the same. *)
InjectThread ==
  /\ MainMoves("inject", "connectDown")
  /\ \/ tstate # "gone" /\ rpc' = "loading"
     \/ rpc' = "none"
  /\ UNCHANGED <<tstate, dumpPath, hookType, engine, hook, hostLogs>>

(* ConnectNamedPipe, first on the writer and then on the reader: each      *)
(* blocks, without a timeout, until a client has opened that pipe.         *)
ConnectsAtOnce(p) == TRUE
Connected(p) == cli[p] # "unopened"

WaitForConnection ==
  \/ /\ Connected("down")
     /\ MainMoves("connectDown", "connectUp")
     /\ UNCHANGED targetVars
  \/ /\ Connected("up")
     /\ MainMoves("connectUp", "spawn")
     /\ UNCHANGED targetVars

SpawnLoop ==
  \/ /\ dpc = "spawn"
     /\ dpc' = "waitRemote"
     /\ spc' = "reading"
     /\ UNCHANGED <<linkVars, arg, buf, handled, targetVars>>
  \/ dpc = "spawn" /\ DumperExits /\ UNCHANGED targetVars

(* WaitForSingleObjectEx(threadHandle, 60000).  Main goes on when the      *)
(* thread has ended and, after a message, when it has not (WAIT_TIMEOUT):  *)
(* the step has no guard.                                                  *)
WaitRemote ==
  /\ MainMoves("waitRemote", "resume")
  /\ UNCHANGED targetVars

ResumeForgotten ==
  /\ MainMoves("resume", "waitLoop")
  /\ UNCHANGED targetVars
ResumeTarget ==
  /\ MainMoves("resume", "waitLoop")
  /\ tstate' = IF tstate = "suspended" THEN "resumed" ELSE tstate
  /\ UNCHANGED <<rpc, dumpPath, hookType, engine, hook, hostLogs>>

WaitLoop ==
  /\ dpc = "waitLoop"
  /\ spc = "done"
  /\ DumperExits
  /\ UNCHANGED targetVars

MainStep ==
  \/ ParseArguments \/ InitNamedPipe \/ FindSpoofProcess \/ CreateTarget
  \/ AllocInTarget \/ InjectThread \/ WaitForConnection \/ SpawnLoop
  \/ WaitRemote \/ ResumeTarget \/ WaitLoop

-----------------------------------------------------------------------------
(* The dumper's pipe thread: NamedPipeLoop                                 *)

(* ReadFile: everything queued, or 0 bytes once the client has closed.     *)
LoopReadSpins ==
  /\ spc = "reading"
  /\ up # <<>>
  /\ buf' = up
  /\ up' = <<>>
  /\ spc' = "dispatch"
  /\ UNCHANGED <<srv, cli, down, writer, sent, arg, dpc, handled, targetVars>>
LoopReadPeeks ==
  /\ spc = "reading"
  /\ \/ /\ up # <<>>
        /\ buf' = up
        /\ spc' = "dispatch"
        /\ UNCHANGED up
     \/ /\ up = <<>>
        /\ cli["up"] # "open"
        /\ spc' = "done"
        /\ UNCHANGED <<up, buf>>
  /\ UNCHANGED <<srv, cli, down, writer, sent, arg, dpc, handled, targetVars>>
LoopRead ==
  /\ spc = "reading"
  /\ \/ /\ up # <<>>
        /\ buf' = up
        /\ up' = <<>>
        /\ spc' = "dispatch"
     \/ /\ up = <<>>
        /\ cli["up"] # "open"
        /\ spc' = "done"
        /\ UNCHANGED <<up, buf>>
  /\ UNCHANGED <<srv, cli, down, writer, sent, arg, dpc, handled, targetVars>>

(* sscanf parses the first message of the buffer, the rest is not looked   *)
(* at; the switch replies to a request and prints a log message.           *)
Reply(m) ==
  IF m.type = "GET_KEY_STRING"
  THEN [kind |-> "string", val |-> StringValue(m.body)]
  ELSE [kind |-> "int", val |-> IntValue(m.body)]

LoopDispatchNoIntReply ==
  /\ spc = "dispatch"
  /\ LET m == Head(buf) IN
       /\ handled' = Append(handled, m)
       /\ IF m.type = "GET_KEY_STRING" /\ Usable("down")
          THEN down' = Append(down, Reply(m)) /\ spc' = "replying"
          ELSE spc' = "reading" /\ UNCHANGED down
  /\ buf' = <<>>
  /\ UNCHANGED <<srv, cli, up, writer, sent, arg, dpc, targetVars>>
LoopDispatch ==
  /\ spc = "dispatch"
  /\ LET m == Head(buf) IN
       /\ handled' = Append(handled, m)
       /\ IF m.type # "LOG_MSG" /\ Usable("down")
          THEN down' = Append(down, Reply(m)) /\ spc' = "replying"
          ELSE spc' = "reading" /\ UNCHANGED down
  /\ buf' = <<>>
  /\ UNCHANGED <<srv, cli, up, writer, sent, arg, dpc, targetVars>>

(* WriteFile of the reply returns when the target has read it or is gone.  *)
ReplyReturns ==
  /\ spc = "replying"
  /\ down = <<>> \/ ~Usable("down")
  /\ spc' = "reading"
  /\ UNCHANGED <<linkVars, arg, dpc, buf, handled, targetVars>>

LoopStep == LoopRead \/ LoopDispatch \/ ReplyReturns

-----------------------------------------------------------------------------
(* The remote thread: LoadLibraryA, then DllMain(DLL_PROCESS_ATTACH)       *)

RemoteMoves(from, to) == rpc = from /\ writer # "remote" /\ rpc' = to

LoadLibrary ==
  /\ \/ RemoteMoves("loading", "openDown")
     \/ RemoteMoves("loading", "loadFailed")      \* no HookClr.dll to load
  /\ UNCHANGED <<linkVars, dumperVars, tstate, dumpPath, hookType, engine, hook, hostLogs>>

(* InitNamedPipe of the client: reader pipe first, then writer pipe.       *)
OpenPipes ==
  /\ \/ RemoteMoves("openDown", "openUp") /\ OpenClient("down")
     \/ RemoteMoves("openUp", "askPath") /\ OpenClient("up")
  /\ UNCHANGED <<dumperVars, tstate, dumpPath, hookType, engine, hook, hostLogs>>

(* GetString and GetInt: write the request, then block in ReadFile.  A     *)
(* failed read leaves the caller's variable as it was: uninitialized.      *)
SendRequest ==
  /\ \/ RemoteMoves("askPath", "readPath") /\ BeginWrite("remote", AskString)
     \/ RemoteMoves("askType", "readType") /\ BeginWrite("remote", AskInt)
  /\ UNCHANGED <<dumperVars, tstate, dumpPath, hookType, engine, hook, hostLogs>>

ReadFailsEarly == down = <<>>
ReadsReply == down # <<>> /\ cli["down"] = "open"
ReadFails  == down = <<>> /\ ~Usable("down")

GetStringResult ==
  /\ RemoteMoves("readPath", "askType")
  /\ \/ /\ ReadsReply
        /\ dumpPath' = IF Head(down).kind = "string" THEN Head(down).val ELSE "garbage"
        /\ down' = Tail(down)
     \/ /\ ReadFails
        /\ dumpPath' = "garbage"
        /\ UNCHANGED down
  /\ UNCHANGED <<srv, cli, up, writer, sent, dumperVars, tstate, hookType, engine, hook, hostLogs>>

GetIntResult ==
  /\ RemoteMoves("readType", "logInjected")
  /\ \/ /\ ReadsReply
        /\ \/ Head(down).kind = "int" /\ hookType' = Head(down).val
           \/ Head(down).kind # "int" /\ hookType' \in Modes \cup {"other"}
        /\ down' = Tail(down)
     \/ /\ ReadFails
        /\ hookType' \in Modes \cup {"other"}
        /\ UNCHANGED down
  /\ UNCHANGED <<srv, cli, up, writer, sent, dumperVars, tstate, dumpPath, engine, hook, hostLogs>>

(* Log(...) inside HookFunctions and the Hook... function it calls.        *)
AttachLog ==
  /\ \/ RemoteMoves("logInjected", "mhInit") /\ BeginWrite("remote", LogMsg("injected"))
     \/ RemoteMoves("logEngine", "logHooking") /\ BeginWrite("remote", LogMsg("engineFailed"))
     \/ /\ hookType \in Modes
        /\ RemoteMoves("logHooking", "createHook")
        /\ BeginWrite("remote", LogMsg("hooking"))
     \/ /\ hookType \notin Modes                         \* default: break
        /\ RemoteMoves("logHooking", "returning")
        /\ UNCHANGED linkVars
     \/ RemoteMoves("logHooked", "returning") /\ BeginWrite("remote", LogMsg("hooked"))
     \/ RemoteMoves("logNotHooked", "returning") /\ BeginWrite("remote", LogMsg("notHooked"))
  /\ UNCHANGED <<dumperVars, tstate, dumpPath, hookType, engine, hook, hostLogs>>

(* MH_Initialize; a failure is logged and hooking is tried all the same.   *)
InitEngine ==
  /\ \/ RemoteMoves("mhInit", "logHooking") /\ engine' = "ok"
     \/ RemoteMoves("mhInit", "logEngine") /\ engine' = "failed"
  /\ UNCHANGED <<linkVars, dumperVars, tstate, dumpPath, hookType, hook, hostLogs>>

(* HookForVBScript and HookForJScript register the DLL-load callback.       *)
(* Nobody looks at the status of LdrRegisterDllNotification: when it fails *)
(* the target runs unhooked and nothing is logged.                         *)
RegisterCallback ==
  /\ hookType \in ScriptModes
  /\ RemoteMoves("createHook", "returning")
  /\ hook' \in {"callback", "none"}

(* -asmload and -powershell hook GetProcAddress.                           *)
CreateApiHook ==
  /\ hookType \in ApiModes
  /\ \/ /\ engine = "ok"
        /\ RemoteMoves("createHook", "enableHook")
        /\ hook' = "created"
     \/ RemoteMoves("createHook", "logNotHooked") /\ UNCHANGED hook

(* -nativeclr passes the address of its pointer variable in the place of   *)
(* the pointer, which MinHook refuses: data is not executable.             *)
CreateNativeHook ==
  /\ hookType = "nativeclr"
  /\ RemoteMoves("createHook", "logNotHooked")
  /\ UNCHANGED hook

CreateHook ==
  /\ RegisterCallback \/ CreateApiHook \/ CreateNativeHook
  /\ UNCHANGED <<linkVars, dumperVars, tstate, dumpPath, hookType, engine, hostLogs>>

EnableHook ==
  /\ \/ RemoteMoves("enableHook", "logHooked") /\ hook' = "enabled"
     \/ RemoteMoves("enableHook", "logNotHooked") /\ UNCHANGED hook
  /\ UNCHANGED <<linkVars, dumperVars, tstate, dumpPath, hookType, engine, hostLogs>>

DllMainReturns ==
  /\ RemoteMoves("returning", "finished")
  /\ UNCHANGED <<linkVars, dumperVars, tstate, dumpPath, hookType, engine, hook, hostLogs>>

RemoteStep ==
  \/ LoadLibrary \/ OpenPipes \/ SendRequest \/ GetStringResult \/ GetIntResult
  \/ AttachLog \/ InitEngine \/ CreateHook \/ EnableHook \/ DllMainReturns

-----------------------------------------------------------------------------
(* The target's own threads                                                *)

(* The resumed main thread gets past the loader and runs the target's code. *)
TargetStarts ==
  /\ tstate = "resumed"
  /\ ~LoaderLockHeld
  /\ tstate' = "running"
  /\ UNCHANGED <<linkVars, dumperVars, rpc, dumpPath, hookType, engine, hook, hostLogs>>

(* A detour or the DLL-load callback runs in thread t and logs a message.  *)
HostLog(t) ==
  /\ tstate = "running"
  /\ hook \in {"callback", "enabled"}
  /\ hostLogs[t] < MaxHostLogs
  /\ BeginWrite(t, LogMsg("host"))
  /\ hostLogs' = [hostLogs EXCEPT ![t] = @ + 1]
  /\ UNCHANGED <<dumperVars, tstate, rpc, dumpPath, hookType, engine, hook>>

(* ExitProcess by thread t: it takes the loader lock, every other thread   *)
(* is terminated, and DLL_PROCESS_DETACH runs in t if the DLL is loaded.   *)
ExitTarget(t) ==
  /\ tstate = "running"
  /\ ~LoaderLockHeld
  /\ writer # t
  /\ IF rpc = "finished"
     THEN /\ tstate' = "unhooking"
          /\ CancelWrite
          /\ UNCHANGED <<srv, cli, down, rpc>>
     ELSE /\ tstate' = "gone"
          /\ rpc' = IF RemoteEnded THEN rpc ELSE "dead"
          /\ DropClient
  /\ UNCHANGED <<dumperVars, dumpPath, hookType, engine, hook, hostLogs>>

(* UnhookFunctions: the mode's Unhook function logs, then disables.        *)
UnhookFunctions ==
  /\ \/ /\ tstate = "unhooking"
        /\ tstate' = "uninit"
        /\ IF hookType \in Modes
           THEN BeginWrite("detach", LogMsg("disabled"))
           ELSE UNCHANGED linkVars
        /\ UNCHANGED <<hook, engine>>
     \/ /\ tstate = "uninit"
        /\ writer # "detach"
        /\ tstate' = "closeDown"
        /\ hook' = "none"
        /\ engine' = "uninit"
        /\ UNCHANGED linkVars
  /\ UNCHANGED <<dumperVars, rpc, dumpPath, hookType, hostLogs>>

(* DeInitNamedPipe, then the process ends.                                 *)
DeInitNamedPipe ==
  /\ \/ /\ tstate = "closeDown"
        /\ tstate' = "closeUp"
        /\ cli' = [cli EXCEPT !["down"] = "closed"]
        /\ down' = <<>>
        /\ UNCHANGED <<srv, up, writer, sent>>
     \/ /\ tstate = "closeUp"
        /\ tstate' = "gone"
        /\ DropClient
  /\ UNCHANGED <<dumperVars, rpc, dumpPath, hookType, engine, hook, hostLogs>>

DetachStep == UnhookFunctions \/ DeInitNamedPipe

-----------------------------------------------------------------------------
(* The environment: either process may be killed or crash at any moment.   *)

KillTarget ==
  /\ tstate \notin {"absent", "gone"}
  /\ tstate' = "gone"
  /\ rpc' = IF RemoteEnded \/ rpc = "none" THEN rpc ELSE "dead"
  /\ DropClient
  /\ UNCHANGED <<dumperVars, dumpPath, hookType, engine, hook, hostLogs>>

KillDumper ==
  /\ dpc # "exited"
  /\ DumperExits
  /\ UNCHANGED targetVars

WriteStep == WriteReturns /\ UNCHANGED <<dumperVars, targetVars>>

Next ==
  \/ MainStep
  \/ LoopStep
  \/ RemoteStep
  \/ WriteStep
  \/ TargetStarts
  \/ \E t \in HostThreads : HostLog(t) \/ ExitTarget(t)
  \/ DetachStep
  \/ KillTarget
  \/ KillDumper

Spec == Init /\ [][Next]_vars

(* Each thread that can take a step is scheduled eventually.  Nothing is   *)
(* assumed of what the target does, of ExitProcess or of a kill.           *)
Fairness ==
  /\ WF_vars(MainStep)
  /\ WF_vars(LoopStep)
  /\ WF_vars(RemoteStep)
  /\ WF_vars(WriteStep)
  /\ WF_vars(TargetStarts)
  /\ WF_vars(DetachStep)

FairSpec == Spec /\ Fairness

-----------------------------------------------------------------------------
(* Properties                                                              *)

(* Every variable holds a value of its kind.                               *)
TypeOK ==
  /\ srv \in {"unmade", "open", "closed"}
  /\ cli \in [Pipes -> {"unopened", "open", "invalid", "closed"}]
  /\ up \in Seq(Messages) /\ buf \in Seq(Messages)
  /\ sent \in Seq(Messages) /\ handled \in Seq(Messages)
  /\ down \in Seq(Replies)
  /\ writer \in Threads \cup {NoThread}
  /\ arg \in Modes \cup {"invalid"}
  /\ dpc \in DumperStates /\ spc \in LoopStates
  /\ tstate \in TargetStates /\ rpc \in RemoteStates
  /\ dumpPath \in Paths /\ hookType \in HookTypes
  /\ engine \in {"uninit", "ok", "failed"}
  /\ hook \in {"none", "callback", "created", "enabled"}
  /\ hostLogs \in [HostThreads -> 0 .. MaxHostLogs]

(* No instruction of the target's own code runs before HookFunctions has   *)
(* returned in the remote thread, even when the 60 s wait timed out and    *)
(* the target was resumed early (ClrDumper/Source.cpp:272-294): by the     *)
(* time main waits, the connection has put the remote thread in DllMain.   *)
InTargetCode == tstate \in {"running", "unhooking", "uninit", "closeDown", "closeUp"}
HooksBeforeTargetCode == InTargetCode => rpc = "finished"

(* The DLL works with the mode and the directory of the command line; it   *)
(* gets anything else only when the dumper is already gone (GetString and  *)
(* GetInt do not look at the result of ReadFile).                          *)
SettingsFaithful ==
  dpc # "exited" => /\ hookType \in {"unset", arg}
                    /\ dumpPath \in {"unset", "dumperDir"}

(* While the pipe thread is alive no message written by any thread of the  *)
(* target is lost, merged with another or served out of order: what was    *)
(* written is what was served followed by what is on its way.              *)
NoMessageLost == spc # "dead" => sent = handled \o buf \o up

(* The README lists "Native Clr Loaders" first among what is dumped: with  *)
(* MinHook up and the dumper there, -nativeclr hooks.                      *)
NativeClrHooks ==
  rpc = "finished" /\ arg = "nativeclr" /\ engine = "ok" /\ dpc # "exited"
    => hook = "enabled"

(* DllMain always returns: the request/reply conversation over two pipes   *)
(* without buffers never blocks the remote thread for good, whoever dies.  *)
DllMainTerminates == rpc = "openDown" ~> RemoteEnded

(* Once the DLL has connected, the target's own code eventually runs,      *)
(* unless one of the two processes dies first or CreateThread fails.       *)
AttachedTargetRuns ==
  cli["up"] = "open" ~> (tstate \in {"running", "gone"} \/ dpc = "exited")

(* Once a connected target is gone, ClrDumper notices and ends.            *)
DumperFollowsTarget == (tstate = "gone" /\ Connected("up")) ~> dpc = "exited"

(* Seen from the console, a run is a Session: SettingsFaithful apart, all  *)
(* that the two processes promise a user.  A report is pending from        *)
(* WriteFile until the switch in NamedPipeLoop has dealt with it.          *)
SessionTarget ==
  IF tstate = "absent" THEN "none"
  ELSE IF tstate \in {"suspended", "resumed"} THEN "held"
  ELSE IF tstate = "running" THEN "free"
  ELSE IF tstate = "gone" THEN "ended"
  ELSE "leaving"

S == INSTANCE Session WITH
       Reports   <- Messages,
       target    <- SessionTarget,
       hooksDone <- rpc = "finished",
       watching  <- dpc # "exited",
       pending   <- buf \o up,
       delivered <- handled

ImplementsSession == S!Spec

(* What each thread waits for: the guards of the actions, without primes,  *)
(* so that the prover can reason about a standstill.  ConnectNamedPipe,    *)
(* WaitForSingleObject on the loop, ReadFile, WriteFile and the loader     *)
(* lock are the only waits of the two programs; every other call returns.  *)
MainMayStep ==
  \/ dpc \in {"parse", "initPipe", "spoof", "create", "alloc", "inject", "spawn",
              "waitRemote", "resume"}
  \/ dpc = "connectDown" /\ Connected("down")
  \/ dpc = "connectUp" /\ Connected("up")
  \/ dpc = "waitLoop" /\ spc = "done"
LoopMayStep ==
  \/ spc = "reading" /\ (up # <<>> \/ cli["up"] # "open")
  \/ spc = "dispatch"
  \/ spc = "replying" /\ (down = <<>> \/ ~Usable("down"))
RemoteMayStep ==
  \/ /\ rpc \in {"loading", "openDown", "openUp", "mhInit", "createHook", "enableHook",
                 "returning"}
     /\ writer # "remote"
  \/ /\ rpc \in {"askPath", "askType", "logInjected", "logEngine", "logHooking",
                 "logHooked", "logNotHooked"}
     /\ writer = NoThread
  \/ /\ rpc \in {"readPath", "readType"}
     /\ writer # "remote"
     /\ ReadsReply \/ ReadFails
WriteMayReturn  == writer # NoThread /\ (up = <<>> \/ ~Usable("up"))
TargetMayStart  == tstate = "resumed" /\ ~LoaderLockHeld
DetachMayStep ==
  \/ tstate = "unhooking" /\ (hookType \in Modes => writer = NoThread)
  \/ tstate = "uninit" /\ writer # "detach"
  \/ tstate \in {"closeDown", "closeUp"}
MayStep == \/ MainMayStep \/ LoopMayStep \/ RemoteMayStep
           \/ WriteMayReturn \/ TargetMayStart \/ DetachMayStep

(* The only states in which nothing more can happen but a kill: the dumper *)
(* has ended, with the target gone or left suspended for ever; or it waits *)
(* in ConnectNamedPipe for a DLL that will never connect.  A target that   *)
(* runs is free to do nothing.                                             *)
InjectionHang == dpc \in {"connectDown", "connectUp"} /\ ~Connected("up")
                 /\ rpc \in {"none", "loadFailed", "dead"}
Stopped == \/ dpc = "exited" /\ tstate \in {"absent", "suspended", "gone"}
           \/ InjectionHang
StopsOnlyWhen == ~MayStep => Stopped \/ tstate = "running"

(* What is left to do, by thread: more for a step that is further from the *)
(* end.  A message on its way is worth what serving it takes.              *)
MainLeft == [parse |-> 12, initPipe |-> 11, spoof |-> 10, create |-> 9, alloc |-> 8,
             inject |-> 7, connectDown |-> 6, connectUp |-> 5, spawn |-> 4,
             waitRemote |-> 3, resume |-> 2, waitLoop |-> 1, exited |-> 0]
LoopLeft == [none |-> 0, reading |-> 1, replying |-> 2, dispatch |-> 5, done |-> 0, dead |-> 0]
RemoteLeft ==
  [none |-> 17, loading |-> 16, openDown |-> 15, openUp |-> 14, askPath |-> 13,
   readPath |-> 12, askType |-> 11, readType |-> 10, logInjected |-> 9, mhInit |-> 8,
   logEngine |-> 7, logHooking |-> 6, createHook |-> 5, enableHook |-> 4, logHooked |-> 3,
   logNotHooked |-> 3, returning |-> 2, loadFailed |-> 0, finished |-> 0, dead |-> 0]
TargetLeft == [absent |-> 8, suspended |-> 7, resumed |-> 6, running |-> 5, unhooking |-> 4,
               uninit |-> 3, closeDown |-> 2, closeUp |-> 1, gone |-> 0]
CallsLeft == MainLeft[dpc] + RemoteLeft[rpc] + TargetLeft[tstate]
PipeLeft  == 5 * Len(up) + LoopLeft[spc] + (IF writer = NoThread THEN 0 ELSE 1)
Work      == 10 * CallsLeft + PipeLeft

(* The two programs run down: whatever fails or is killed, every step but  *)
(* a log message of the target's own code uses up work, so that no retry   *)
(* and no ping-pong over the pipes keeps them busy.  With StopsOnlyWhen    *)
(* this is why a started DllMain returns and an ended target ends main.    *)
WorkRunsOut == [][(\E t \in HostThreads : HostLog(t)) \/ Work' < Work]_vars
=============================================================================
