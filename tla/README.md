# ClrDumper: specifications, model checking and proofs

ClrDumper runs a program with its DLL `HookClr.dll` inside, so that the .NET
assemblies and scripts the program loads are written to disk.  This directory
holds TLA+ specifications of its parts, the TLC configurations that check them
and TLAPS proofs of their main properties.

## 1. Inventory

| Part | State | Operations | Correct when |
|---|---|---|---|
| dumper main thread (`ClrDumper/Source.cpp`) | where `main` is; the target's and the remote thread's handles | parse arguments, create pipes, create the target suspended, allocate, inject a remote thread, wait for the connection, start the pipe thread, wait 60 s, resume, wait for the pipe thread | the target runs only behind its hooks, and does run; the dumper ends when the target does |
| pipe thread (`NamedPipeLoop`) | last buffer read | read, parse one message, reply or print | each message is served once and in order |
| pipe pair (`NamedPipeIO.cpp`, both sides) | two kernel pipes without buffers, one handle per end | open, write, read, close, death of either side | nothing lost, nobody blocked for good |
| DLL attach and detach (`HookClr/Source.cpp`) | `_hookType`, `dumpPath`, the MinHook engine | `DllMain`, `HookFunctions`, `UnhookFunctions` | works with the settings of the command line; always returns |
| script hooks (`VBScriptHook.cpp`, `JScriptHook.cpp`, `DllLoadCallback.cpp`) | `_callback`, `originalCompile`, MinHook table, loaded engine images | DLL-load callback, hook, detour, unhook | every compiled script is dumped and then really compiled |
| GetProcAddress hooks (`AssemblyLoadHook.cpp`, `PowershellHook.cpp`) | `isAmsiIntializeCalled`, `originalGetProcAddress` | hooked lookup, fake `AmsiScanBuffer` | the fake is handed to whoever initialised AMSI; the dump of the thread that exits is whole |
| native CLR hook (`NativeClrHook.cpp`) | `_safeArrayUnaccessData` | hook, detour, unhook | (the hook is never installed) |
| dump files (`utility.cpp` and the detours) | files, local time | name, create new, write, close | a file holds one dump; a logged dump is whole |
| byte search (`kmp.cpp`) | table, two indices | `computeLPSArray`, `KMPSearch` and the `Wild` pair | first occurrence, or -1 |
| section search (`MemoryUtils.cpp`, and its use in the script hooks) | section index, the addresses computed | `FindDataInDLL`, `FindData`, call displacements | the function hooked is one the engine calls; nothing is hooked that was not found |

Interaction: the dumper's main thread creates the pipes and the target and makes
a *remote thread* of the target run `LoadLibraryA("HookClr.dll")`.  `DllMain`
runs there under the target's loader lock; it opens both pipes, asks for the
dump directory and the mode (a request on one pipe, a reply on the other, served
by the dumper's second thread), installs the hooks and returns.  Later any thread
of the target writes log messages on the same pipe.  When the target exits, its
pipe ends close, `NamedPipeLoop` reads 0 bytes and both threads of the dumper end.

Hard behaviour: two processes with two and more threads, synchronous unbuffered
pipes shared by all threads of the target, the loader lock, `ExitProcess` killing
threads in the middle of a write, a timeout whose handling is to go on, error
paths that go on as well, and the death of either process at any point.

Each hazard is listed, at its line, under `hazards` in `PROJECT.json`.

## 2. Modules

| Module | Models | Lines of code behind it |
|---|---|---|
| `PipeLink` | the pair of pipes and the calls made on it | `CreateNamedPipe`, `CreateFile`, `WriteFile`, `ReadFile`, handle closing |
| `Injection` (uses `PipeLink`) | one whole session: both threads of the dumper, the remote thread, the target's own threads, kills | `ClrDumper/Source.cpp`, `HookClr/Source.cpp`, `HookClr/NamedPipeIO.cpp`, the `HookFor...` functions |
| `Session` | the abstract specification that `Injection` implements | the same, seen from the console |
| `InjectionProofs` | theorems about `Injection`, and that it implements `Session` | |
| `PipeCodec` | one message in bytes: `sprintf`, `WriteFile`, `ReadFile` into an old buffer, `sscanf` | `HookClr/NamedPipeIO.cpp`, `NamedPipeLoop` |
| `RecordPipe` | the abstract specification that `PipeCodec` implements | the same pipe with whole messages, as `PipeLink` has it |
| `PipeCodecProofs` | theorems about `PipeCodec`, and that it implements `RecordPipe` | |
| `TwoDumpers` | several sessions and the one pair of pipe names | as `Injection`, with less detail |
| `TwoDumpersProofs` | theorems about `TwoDumpers` | |
| `KmpSearch` | `computeLPSArray`, `KMPSearch` and their `Wild` variants, one action per loop branch | `HookClr/kmp.cpp` |
| `KmpProofs` | theorems about `KmpSearch` | |
| `FindHook` | the search for the function to hook, from the sections of the image to the address handed to MinHook | `MemoryUtils.cpp`, `HookVbScript`, `HookJScript` |
| `FindHookProofs` | theorems about `FindHook` | |
| `DumpFile` | what every detour does with a script or an assembly: name, create, write, close, log | `utility.cpp` and the bodies of the four detours that run |
| `DumpArchive` | the abstract specification that `AmsiHook` and `ScriptHook` implement | the dump directory and the log, seen from outside |
| `HookEngine` | MinHook's table and the status each call answers with | `MinHook.h` |
| `AmsiHook` (uses `DumpFile`) | lookups through the hooked `GetProcAddress`, the fake `AmsiScanBuffer`, the end of the process | `AssemblyLoadHook.cpp`, `PowershellHook.cpp` |
| `ScriptHook` (uses `DumpFile`, `HookEngine`) | loads and unloads of the script engine, the DLL-load callback, the detour and the pointer to the original, unhooking | `VBScriptHook.cpp`, `JScriptHook.cpp`, `DllLoadCallback.cpp` |
| `DumpProofs`, `AmsiProofs`, `ScriptProofs` | lemmas about `DumpFile`, theorems about the two systems that use it | |
| `MC...` | instances for TLC | |

### PipeLink and Injection

`up` is what the target wrote on `\\.\pipe\dumper_writer_pipe` and the dumper has
not read, `down` the opposite pipe; `srv` and `cli` are the states of the handles.
`WriteFile` takes two actions: `BeginWrite` puts the message in the pipe,
`WriteReturns` is enabled when it has been read or the reader is gone, because
the pipes are created with buffers of size 0.  `writer` is the thread inside the
call: the handle is synchronous, so the kernel lets in one thread at a time.
`sent` is a history variable.

`dpc` is where `main` is, `spc` where `NamedPipeLoop` is, `rpc` where the remote
thread is; `tstate` is the life of the target: `suspended`, `resumed` (the
loader has not let it go yet), `running`, then the steps of
`DLL_PROCESS_DETACH`, then `gone`.  One action stands for one call that can
fail, block or be seen by another actor.  The model keeps every early return of
`main` (they lead to `DumperExits`, after which the target stays as it is), every
ignored result (`GetString`/`GetInt` leave garbage, `CreateRemoteThread` failing
leads to `ConnectNamedPipe` all the same, `WAIT_TIMEOUT` is printed and `main`
goes on, so `WaitRemote` has no guard), and lets the environment kill either
process in any state.  `KillTarget` also stands for a crash.

Abstracted: the text of messages (a request is known by its kind and key, a log
message by the place that writes it), the command line built for `wscript.exe`
and `powershell.exe`, the file mapping `Dumper_Arg` that nobody reads.  A log
message of the target's own threads stands for any message of a detour or of
the DLL-load callback.

External: the loader lock (a thread that starts, or `ExitProcess`, waits while
`DllMain` runs in another thread), the cancelling of a terminated thread's
pending write, and the fact that data is not executable, so that
`MH_CreateHook(&_safeArrayUnaccessData, ...)` fails.

`Session` has five variables and no program counters: the target is `none`, `held`,
`free`, `leaving` or `ended`, reports are `pending` and then `delivered`.
`ImplementsSession` maps them: a target that is suspended, or resumed but not yet let
go by the loader, is `held`; the DLL is done when `rpc = "finished"`; pending is what is
in the loop's buffer and in the pipe; delivered is `handled`.  What `Session` forbids,
and `Injection` therefore never does: to release a target whose hooks are not in place;
to drop, reorder or invent a report while both processes live; to take back more than
the newest reports when the target ends; to deliver after the dumper has ended.

### PipeCodec

The other side of the abstraction in `PipeLink`, in which a message is a record.  A
message is one digit, the text and a NUL.  `Encoded` is what `sprintf` and
`strlen + 2` make of it, `ReadPiece` what one `ReadFile` takes, at most `MAX_BUFFER`
bytes into a buffer that keeps its older contents, `Sscanf` what
`sscanf(buffer, "%d%256[^\n]", &type, msg)` makes of that; conversions that fail leave
`type` and `msg` as they were.  The longest log text makes one byte more than
`MAX_BUFFER`: its NUL is read alone, over the old buffer, and the message is
acted upon twice.  Only log texts are that long, which is why no request is answered
twice.  As in `PipeLink` a write is over when its last byte is read.

The same text is a byte too long for the arrays on both sides: `SendLog`'s `sprintf` puts
its NUL behind `buffer[256]`, and `sscanf`, where the byte behind the loop's buffer is none,
stores a 256th character and puts the NUL behind `msg[256]` (`StoreNul`).  `overrun` remembers
on whose stack that has happened.  What the NUL hits is up to the compiler, which keeps arrays
above plain variables: the other array (so `buffer[1]` may become NUL, which the next read
overwrites), padding, or the cookie that is looked at when the function returns and ends the
process (`ReadEnds` may end `crashed`; in the target it is one of the ends `EndTarget` stands
for).

`RecordPipe` is that pipe without bytes, sizes and left-over buffers: one message is
`up`, then in `buf`, then `served`.  It is what `PipeLink` and `Injection` take for granted (`up`, `buf` and
`handled` there), with one addition: a message of the greatest length is also in `again`, for
the second time it is taken.  In the mapping a message is `up` while all of it is on the wire and `again`
when only its NUL is.

### TwoDumpers

`Injection` has the pipe names for itself.  `TwoDumpers` has a set of sessions and lets
the names be taken: `CreateNamedPipe`, `ConnectNamedPipe` and `CreateFile` fail without
anybody looking, so a dumper may have both pipes, one or none, and a DLL may be
connected to its own dumper, another one, or two.  A dumper may give up before
or after it has a target (`GiveUp`: no process, no memory in it, no thread for the loop), the DLL
may never come (`LaunchTarget` with a failing `CreateRemoteThread` or `LoadLibraryA`), either process
may be killed, and the wait for the remote thread may time out.

### FindHook

In the script modes the function to hook is found by its bytes.  `FoundInSection`,
`NextSection` and `NotInSections` are the loop of `FindDataInDLL`; `FollowCompileCall`
reads the displacement behind the pattern and computes the callee in unsigned arithmetic
(`Plus` is addition modulo `Space`); JScript goes on with `FindData` in a window of 0x180
bytes and a second call.  Nothing is compared with -1, so `NotInSections` goes on
with `MinusOne`; a read of an address that nothing is mapped to is `ReadFaults`, the end of
the target.  The image, an initial state, is any contents of the sections of a layout,
whose pages may have `room` behind the section.  `KMPSearch` is its first occurrence,
the meaning `KmpProofs` proves of a search whose table is not disturbed.  A call is known by its opcode
alone, in the code and in the model: `IsCall` takes a byte `E8` inside another instruction
for one, so no property here tells a wrong match from a right one.

### KmpSearch

The two pairs of functions differ in one comparison each; `Wildcards` is `{}`
for `KMPSearch` and `{WILDCARD}` for `KMPSearchWild`.  One action is one
iteration of a loop, split by the branch it takes; the scan's two tests, the
second of which sees the indices the first has advanced, are one action as they
are one iteration.  The initial states are all patterns and texts.  An entry of
`lps` not yet written is `Unset`, which is outside every array, so that using one
would show as an index error.

`malloc(M)` gives M bytes, and the table is M ints: `Behind` says which entries lie
outside the block, for `IntSize` 4 all but the first quarter.  Writing one and reading it back gives
what was written, unless somebody else who uses that memory (another block's owner or the heap
itself) has changed it or has noticed.  `HeapIsUsed` is that event, possible from the first write on
until the search returns, and the search is `undefined` from then on.  What is said of the table and
the result is said of searches that are not `undefined`; that this condition cannot be dropped is
`TableLeavesBlock`.

### DumpFile, AmsiHook and ScriptHook

These describe the target after attaching, from the point where `Injection` lets its
threads run and calls what they do `HostLog`.

`DumpFile` has no specification of its own: `AmsiHook` and `ScriptHook` put its
actions between theirs.  `job[t]` is the dump thread `t` is at; `dir` the names taken
in the dump directory (`OldFiles` are there from earlier runs), `content` what
the files of this run hold.  A name is the time of day, and the clock moves to any
time at any moment: it stands still for a millisecond, comes round every day, and is
set.  The buffer `GetDumpName` returns is dead when it is read, so a name may also be
`Garbled`.  A character is wide when it has no byte in the "C" locale; `HeapByte` is
memory that was never written.  `Faults` names what the environment makes fail in an
instance: creating a file, writing to a full disk, MinHook's calls, the byte search,
the dead buffer.  The log message is a record in `logged`; its way to the dumper is
`PipeLink`.

`DumpArchive` has the files, those being written and those reported, and no threads, names of
the clock or steps of a detour.  Its `files` are the entries of `content` that
are not from earlier runs, its `open` the files of jobs from `CREATE_NEW` to the
log message.  What it forbids: to write into a file that was there before, to shorten or
rewrite what is in a file, to write after the report, to report a dump that is not in
its file, or one that is not open.  Letting a file go unreported (`Abandon`) is what
`Terminate` does to the threads it ends.  `Final`, a consequence of it, says to whoever
reads the log that the file of a reported dump stays as it is.

`AmsiHook` covers both modes (`mode`): `ExitsAfterDump` is the `ExitProcess(0)` of -asmload, which
is commented out in -powershell.  A call of the hooked `GetProcAddress` touches the flag
once, so a lookup is one action.  `ExitProcess` ends the other threads wherever they are in their
dumps (`Terminate`).

`ScriptHook` covers both engines (`engine`), which differ in unhooking
(`UnhookForVBScript` disables a hook of `GetProcAddress`, which the mode does not have).  A base address stands for the
address of the function hooked, as the file is always the same.  `entry` is MinHook's
table (in `HookEngine`), `patched` the live code: an unloaded image takes its patch with
it and leaves its entry.  `HookEngine` gives each call the status its own rules ask for
(`ALREADY_CREATED`, `NOT_CREATED`, ... of `MH_STATUS`), or, where these are content, one of
the `Refusals` of the instance; an engine that could not be initialized answers
`NOT_INITIALIZED` from then on.  The loader lock is `LoaderFree`; the callback's two MinHook calls are two
actions, since threads in the detour of another image see what is between them.  The
detour reads `original` in its last step.

External here: the loader and its notification, COM unloading an engine that nobody
is in, the inside of MinHook, and the real AMSI.

## 3. Runs

| Run | Instance | Question |
|---|---|---|
| `injection` | 2 target threads, at most 2 log messages each, with fairness | Can target code run unhooked?  Can the DLL work with wrong settings while the dumper lives?  Is a message lost or merged?  Where can everything come to a stop?  Do the two programs run down?  Does attaching end, does an attached target run, does the dumper follow its target?  Is all of it a `Session`? |
| `kmp` | all patterns of 1 to 5 and texts of 0 to 7 bytes over 2 values | Is the first occurrence returned, is the table right, where does it lie, does the search end? |
| `kmp_wildcard` (violation) | patterns up to 3, texts up to 4 over 2 values and `?` | Does the wildcard search find what matches? |
| `injection_nativeclr` (violation) | 1 target thread | Does -nativeclr hook?  No. |
| `amsi` | both modes, 2 threads, 1 scan each, 2 times, one name taken; names garbled, creations and writes failing | Is every file on disk accounted for, when a thread ends the process under another's dump?  Are the dumps an archive?  Does one who initialises AMSI always get the fake?  Does a scan end, and in -asmload the target with it? |
| `script` | both modes, 2 threads, 1 compile each, 3 loads at 2 bases, 2 images at a time, 2 times; writes, MinHook and the search failing | Is a logged dump whole; does a detour go on in the image it was called in, and come back; is an engine that could not be hooked reported? |
| `script_collision`, `script_reload` (violations) | no faults | Is every script dumped?  Not two of one name, not in an engine that was reloaded. |
| `script_wide` (violation) | a script with a wide character | Is a logged dump the script?  No. |
| `pipe_codec` | `MAX_BUFFER` 4, two letters, 3 messages of any kind and of every length | Is what the loop acts upon what was written, whatever is left in its buffer and its variables?  Is it a pipe of whole messages, each served once and in order?  Which messages leave the arrays? |
| `find_hook` | 3 byte values, 2-byte words, 16 addresses, two layouts of two sections, patterns of 3 and 2 bytes, a window of 4 | Is the function that gets hooked one the engine calls?  Can an image of the known version fault? |
| `two_dumpers` | 2 sessions, with fairness | Do runs one after another disturb each other?  Is an answer ever taken for that to another question?  Where can the sessions come to a standstill, and do crossed pipes end in a deadlock?  Do the sessions run down? |

Bounds.  Two threads of the target are enough to be inside `WriteFile` and waiting
for it at once, to exit while the other writes, and to write while the remote
thread converses; more threads only repeat this (the theorems hold for any
set).  `MaxHostLogs` bounds the log messages of a thread; two let a thread log
again after a message has been served.  For the search, patterns of 5 bytes
contain chains of borders (`aaaab`), and 7 bytes of text leave room to fall back
and match later; two byte values tell matches from mismatches.  Two threads, two
names and payloads of two characters are enough for two dumps to want one
name, to be cut short, and to be told apart.  Three loads at two bases contain the
reload at the same base, at another one, and the return to the first.

In `pipe_codec` the buffer is scaled from 256 to 4 bytes, with which a text can be of
the greatest length, shorter, or one byte; three messages put a short one after a
long one with a request on either side.  In `find_hook` a 32-bit address is scaled to 4 bits, so
that displacements wrap round and -1 + 8 lies in unmapped memory as in the program; one
section is too small for anything but the pattern, so that the displacement behind it is
in the room of the page, in the next section or unmapped.  Two sessions are enough for
the pipes to be taken, left over by a killed dumper, and crossed.

`LoggedDumpWhole`, `EveryFileAccounted` and `ImplementsArchive` say one thing of two systems that share
`DumpFile`.  All three are proved of both (`AmsiProofs`, `ScriptProofs`), so that TLC checks each in one of
the two runs only.

Deadlock checking is off (`CHECK_DEADLOCK FALSE`) because each of these systems
may really stop: the processes end.  What may be a stopped state of a session is the
invariant `StopsOnlyWhen`: the dumper has ended and the target is gone *or still
suspended*, or `ConnectNamedPipe` waits for a DLL that will never come, or the target runs and is free
to do nothing.  The two bad
endings, a target left suspended for ever and a dumper that hangs, are what the
code does; the run shows that there is no other.  `MayStep` says what each thread
waits for: it repeats the guards of the actions without their primes, for the prover, which
cannot reason about `ENABLED`, and is true to the actions by the way it is written.
In `TwoDumpers` the invariant
`StuckOnlyAtAbandoned` says that several sessions come to a standstill only around a dumper whose
target has no DLL or was killed before it connected, or a target that runs.

`WorkRunsOut` gives each state of a session an amount of work, by how far each thread is and what lies in
the pipe: every step uses some of it up, but the log messages of the target's own code, which may bring more.
Together with `StopsOnlyWhen` this is why attaching ends; the mutant `LoopReadPeeks`, a loop that leaves in the pipe
what it reads, serves one message for ever.  `SessionsRunDown` is the same of several sessions; its mutant
`ReadAsksAgain` is a DLL that asks again when a read fails.

`TypeOK` of `KmpSearch` says that indices stay in the pattern, in the text and among the M entries the
table is meant to have, and that none is used before it is written; it does not say that they stay in
the block.  `TableLeavesBlock` says where the entries are: every search, whatever its pattern, has entries
behind the block before it scans, and all of them are written.  The mutant of both leaves an
entry unwritten.

`OverrunStartsInTarget` says that what the dumper parses never harms its stack, over any old
buffer and any byte behind it, unless the DLL has sent a text with which it has overrun its own.
The mutant `ReadSizeLeavesRoom`, the customary `MAX_BUFFER - 1` in `ReadFile`, breaks that: the byte it
saves leaves no NUL in a full buffer.

Fairness.  Weak fairness of `MainStep`, `LoopStep`, `RemoteStep`, `WriteStep`,
`TargetStarts` and `DetachStep`: each stands for a thread that Windows schedules
as long as it can run, or for a kernel call that returns.  Nothing is assumed of
what the target does (it may run for ever and log nothing), of `ExitProcess` or of
kills.  In `two_dumpers` weak fairness of each dumper's `MainStep` and `LoopStep`
and of each `DllStep` stands for the same; nobody has to start a dumper and no target has
to end.  The wait for the remote thread has no guard there either: with
`WaitForSingleObjectEx` without a timeout (the mutant `ResumeAfterRemote`) two sessions with
crossed pipes wait for each other for ever.  Two endings limit the promises: `AttachedTargetRuns` excuses the death of
either process and a failing `CreateThread`, all three real.

In `AmsiHook` and `ScriptHook` weak fairness of the detour's steps stands for a
scheduled thread in calls that return; the target, its exit and the clock are free.

`LoggedDumpWhole` excuses the bytes of a `WriteFile` that failed, which the code does
not notice and reports as written, and is checked with scripts of narrow characters;
`script_wide` shows why.  `DetourKeepsItsImage` is about behaviours in which no image
was hooked with another one loaded (`shared`); otherwise the one pointer sends a thread
into the other image or, when that one has been unloaded, into nothing
(`JumpIntoUnloadedImage`).

`DllMainReturns` and `ConnectReturns` excuse sessions with an abandoned dumper: one whose
target has no DLL or was killed before it connected, which `ConnectNamedPipe` then waits for without a
timeout.  `AnswersInStep` holds for crossed pipes too; that the answer then comes from the wrong
dumper is what `SequentialRunsAreRight` excludes for runs that do not overlap, and
no line of the repository promises more.

`FaultsOnlyOnOtherVersions` names what the patterns assume of an engine: an
operand that is readable behind each of them, and the second call within the window.
`HookedIsCallee` does not need that: whatever the image, the unchecked -1 ends in a fault and not
in a hook, as the low addresses are not mapped.

Findings (`findings` in `PROJECT.json`): the wildcard search misses occurrences;
-nativeclr never hooks; of two dumps of one name the second is dropped; a reloaded
engine stays unhooked; after a wide character a dump holds heap contents.

## 4. Proofs

All theorems hold for every value of the constants that the named assumptions allow;
each is evaluated by TLC in the runs of its module.

- `Injection`: thread names are distinct, the bound is a natural number.
- `KmpSearch`: `WildcardAssumption`, `SizeAssumption`.
- `DumpFile`, `AmsiHook`, `ScriptHook`: old files have names of the clock, the garbled
  name is none of them, payloads are sequences, the bounds are natural numbers; in
  `AmsiHook` there are no wide characters, since assemblies and AMSI buffers are written byte by byte
  (`BytesAssumption`).
- `TwoDumpers`: `Nobody` is not a session, nor one of the four values a request or an answer may have in
  the place of a session.
- `PipeCodec`: the bytes of texts are neither NUL nor digits of a kind, keys fit in the buffer with
  their digit and NUL, and the buffer has more than 2 bytes.
- `FindHook`: words are addresses, both patterns end with the opcode of a call, and
  nothing is mapped to the lowest addresses, as on Windows.

`InjectionProofs`

- `TypeCorrect`: the inductive invariant is `TypeInv`, `TypeOK` with three facts
  it needs: a session past its arguments has a valid mode, the loop runs only
  while `main` is past `CreateThread`, and a buffer to be parsed is not empty.
- `HooksFirst`: `HooksBeforeTargetCode` alone is not inductive.  The loader lock
  only helps if the remote thread already holds it when the target is resumed.
  `HookInv` adds the link: `main` is past `WaitForConnection` only if the client has
  opened its pipe, only `DllMain` opens it, so from then on the remote thread
  is in `DllMain` (holding the lock), has finished, or died with the target.
- `NothingLost`: `LinkInv` says that a message in the pipe has its writer still
  inside `WriteFile`, so there is at most one, and one more in the loop's
  buffer.  Only the size 0 of the buffers gives this.
- `SettingsAreFaithful`: `ConversationInv` says that at most one request or reply
  is under way over both pipes and the buffer, that it is the one the remote
  thread waits for, and that the pipes are whole as long as the dumper lives.

- `InjectionImplementsSession`: `Spec => S!Spec`.  The mapping needs the invariants
  above (`Known`) and `LifeInv`: the DLL works only in a target that exists and
  is still held, and `main` is before `CreateProcess` as long as there is none.  Then each step is
  one of `Session` or leaves its variables alone: writing is `Post` (`WritePosts`),
  parsing is `Deliver`, the end of a process is `EndTarget` or `EndDumper`, where a cancelled
  write takes back the newest message and no other (`CancelKeepsPrefix`); everything else,
  `LoopRead` included, stutters.
- `NoDeadlock`: `Spec => []StopsOnlyWhen`.  `StopsOnlyWhen` is not inductive: that nobody is
  stuck depends on how far the others are.  `ConnectionInv` says who can write or read only with
  the pipes connected, `WaitInv` that `main` waits for a loop that was started and for a target that was let go, and
  `AnswerInv` that a remote thread that waits for an answer has its question in the pipe or in the
  loop's buffer, or the answer in the other pipe.  `NobodyWaitsInVain` then goes through the places where
  somebody may wait and finds in each case another thread that may step: a writer waits for the
  loop, the loop for the remote thread only with an answer this thread reads next, the loader lock for
  the remote thread, and `main` for the loop.
- `RunsAreFinite`: `Spec => WorkRunsOut`.  A call that returns weighs ten times what it can put on the pipe
  (`CallUsesWork`), a step of the loop or of a write takes from the pipe (`PipeUsesWork`).  That no
  thread starts again needs `HookInv`: `CreateProcess` finds no target and `CreateRemoteThread` no remote thread.

`KmpProofs`

- `SearchTyped`, `SearchProgresses`, `BlockIsLeft`: for any `Wildcards`.  The third is the limit of the others,
  and of the two that follow: what they say of a search ends where `HeapIsUsed`, and by `BlockIsLeft` no search
  is out of its reach.
- `TableIsCorrect`: three lemmas on borders (a border of a border is a border; of two
  borders the shorter is one of the longer; a border of the next prefix extends one
  of this prefix), and the loop invariant that no border longer than `len` can be
  extended.
- `SearchIsCorrect`: the scan invariant `Aligned` (the bytes before `i` match the
  pattern's first `j`, and no occurrence starts before them); `ShiftAligned` shows
  that the table skips no occurrence.  Both need `Wildcards = {}`: with wildcards they
  are false, as `kmp_wildcard` shows.

`DumpProofs`, `AmsiProofs`, `ScriptProofs`

- `DumpInv`, in `DumpProofs`, is the invariant behind both `LoggedIsWhole`: from
  `CREATE_NEW` to its log message a dump owns its file alone, the file holds what the
  job has written, and a file that was logged has no owner any more, so that nobody
  writes to it again.  `LoggedDumpWhole` alone says nothing of dumps under way.
  One lemma per action of `DumpFile`; each system then only says which of its steps are which.
- `DumpsAreAnArchive` and `ReportedDumpsAreFinal`, in both systems.  `DumpInv` does not say that a dump is in a
  file of this run, nor that no two reports name one file: `FreshInv` does.  Under both
  each action of `DumpFile` is a step of `DumpArchive` or a stutter (`CreateArchive`, `WriteByteArchive`,
  `LogArchive`, ...), also with wide characters and garbled names; `ArchiveIsFinal` shows of the steps of the
  archive itself that they leave reported files alone.  The second follows from the first and has no run
  of its own.
- `AmsiProofs`: `TypeCorrect`, `LoggedIsWhole`, `FilesAccounted`, and
  `FakeForInitialiser`, an action property that needs `FlagStays`: once a thread has asked for
  `AmsiInitialize` the shared flag stays set.
- `ScriptProofs`: `TypeCorrect`, `FilesAccounted`, `UnhookedReported`; `LoggedIsWhole` for scripts
  of characters that can be converted (`AllNarrow`; without it the statement is
  false, see `script_wide`); and `DetourInItsImage`: as long as no image was hooked beside
  another, the pointer is that of every patched image (`PointerFollows`), and a thread in
  a detour keeps its image loaded.

`FindHookProofs`

- `TypeCorrect`, `HookIsCallee`, `FaultIsOtherVersion`.  The invariant `Left` says for each place in
  the code what the search has established, -1 included.  The arithmetic of displacements
  rests on lemmas about the remainder (`ModPlus`, `PlusPlus`, `PlusMinusOne`), and the two
  ways out of an unchecked -1 on `MissedIsUnreadable`: the address it leads to is one of the
  lowest.

`PipeCodecProofs`

- `BytesAreMessages`: `Spec => P!Spec`, with `CodecInv` as invariant.  `ReadFile` is `Take`: a write that is
  `Whole` leaves its NUL in the pipe exactly when the message does not fit, which is what `again` stands for (`TakeMaps`); parsing is `Serve`
  of the message read last, because `CodecInv` holds of the act it adds (`ServeMaps`).  So the messages of
  `PipeLink` stand for the bytes.
- `TargetOverrunsFirst`: a text of 256 characters needs a buffer without a NUL, which by `CodecInv` only a
  message that does not fit leaves there; the read after it begins with its own NUL and converts nothing.
- `TypeCorrect`, `ActsFaithful`, `ServedOnce`, for every `MAX_BUFFER`.  `ServedOnceInOrder` has no run of its own: `ImplementsRecordPipe`, which
  `pipe_codec` checks, leaves no room for anything else.  `CodecInv` says what is on the
  wire (all of the last message, or its NUL alone after a read that filled the buffer), that a
  buffer to be parsed holds the message read last or a NUL over one that was acted
  upon already (`Once`), and which message was acted upon last.  `ScanHeld` is the step that matters:
  `sscanf` of a buffer that holds a message over older bytes takes that message, because
  its NUL is in the buffer, or it fills the buffer to the end.

`TwoDumpersProofs`, for any number of sessions

- `TypeCorrect`: with `OneClient`, `OpenedOnce` and `MadeOnce`, without which a step could
  give a pipe a second client.
- `AnswersAreInStep`: with crossed pipes the dumper that reads a question, the DLL that
  asked it and the DLL that reads the answer may be of three sessions.  `OrderInv` ties
  the states of pipes and threads together; `StepInv` compares the phases of whoever asks
  and whoever reads on the pipes of one loop: while the loop reads, the two are in
  matching phases (`TogetherPhase`), and a question under way or an answer being written fixes the
  phase of either (`AskerPhase`, `ReaderPhase`).
- `SequentialRunsAreIsolated`: `AloneInv`, as long as no two sessions overlapped, is that at
  most one is active and that each has its own pipes and no others, which is what keeps
  its answers its own.
- `NoCircleOfSessions`: `Spec => []StuckOnlyAtAbandoned`.  A DLL may wait for the loop of another
  dumper, and this one for a DLL of a third session, so that a circle could close.  `CrossInv` is what
  rules it out: a pipe name has one instance at a time (`OneInstance`), a connected pipe has a
  client (`ClientKnown`), a pipe listens only until the DLL of its own session has come
  to open it (`Awaited`), and a dumper that waits for its loop has started it (`LoopRuns`).  In a
  standstill no loop is giving an answer, because its reader is on its way to take it (`AnswersAreTaken`).  A
  loop that reads has a client that waits for an answer or runs target code (`QuietAsker`); were it the former,
  the other pipe would be of the same dumper, and `TogetherPhase` has client and reader in matching phases,
  or of a dumper that has only that one, and that is still listening on it
  (`ReadingIsDone`).  So whoever else waits in `DllMain` waits for a dumper without a loop.
- `SessionsEndInTime`: `Spec => SessionsRunDown`.  No step of any session sets the `main` of a dumper or a
  DLL back, and a step that advances none of them advances one loop (`OneGetsFurther`, `DllGetsFurther`).

Why attaching ends, for any number of threads and sessions.  The prover cannot combine steps with
fairness, but what it proves leaves only that to do: no run has infinitely many
steps without log messages of the target's code (`RunsAreFinite`, `SessionsEndInTime`); a run that stops does so where
`StopsOnlyWhen` and `StuckOnlyAtAbandoned` say (`NoDeadlock`, `NoCircleOfSessions`); and a thread that
may step does, which is the fairness assumed, since `MayStep` repeats the guards of the steps
under fairness.

Only model-checked: the liveness properties, since liveness under fairness is beyond
the prover.

## 5. Plan

In this order, each with its instance, properties and mutants:

1. `PipeLink`, `Injection` and their proofs (done).
2. `KmpSearch` and its proofs (done).
3. `DumpFile`, `AmsiHook`, `ScriptHook` with `HookEngine`, and their proofs (done).
4. `Session`, refined by `Injection`, as a PROPERTY for TLC and as a theorem (done).
5. `FindHook` and its proofs (done).
6. `PipeCodec` and `TwoDumpers`, and their proofs (done).
7. `DumpArchive`, implemented by `AmsiHook` and `ScriptHook`, as PROPERTIES and as theorems (done).
8. `RecordPipe`, implemented by `PipeCodec`, as a PROPERTY and as a theorem (done).

Open: `TwoDumpers` as an implementation of a set of `Session`s where the sessions do not overlap.

## 6. Not modelled

- 4226 of the 5759 lines of `src/` that count as implementation are vendored declarations: the
  CLR's `corinfo.h`, `corjit.h`, `cordebuginfo.h` and MinHook's `MinHook.h`.  The first three
  hold nothing that is executed; of `MinHook.h` the statuses and the five calls that change something are
  in `HookEngine`.  What is modelled can therefore not come near a third of all lines, however
  complete it is.
- The hook of the JIT compiler in `PowershellHook.cpp`, before line 113: it is commented out.  The `Wild` functions
  are not called either, but are modelled with the search.
- `HookedUnAccess` in `NativeClrHook.cpp`: its hook is never made (`injection_nativeclr`), so it
  cannot run.
- `TestInjection`, a message box used by hand.
- Unregistering the DLL-load callback (`DllLoadCallback.cpp:49-60`) and `FindStringInDLL`: called by
  nothing.
- The arithmetic of path strings, a text longer than `Log`'s own `char log[256]` (up to that size the arrays
  of the pipe's two sides are in `PipeCodec`), and calling conventions are below these models; where they
  matter they are listed as hazards.
