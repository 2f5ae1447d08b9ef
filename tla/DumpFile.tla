------------------------------- MODULE DumpFile --------------------------------
(***************************************************************************)
(* What every detour of HookClr.dll does with the assembly or script it    *)
(* was given: take a name from the clock (utility.cpp), create the file    *)
(* with CREATE_NEW, write, close, log.  One action is one call that other  *)
(* threads can see or that can fail.  AmsiHook and ScriptHook compose      *)
(* these actions with the code around them.                                *)
(*                                                                         *)
(* A log message is only recorded here; the pipe it takes is PipeLink.     *)
(***************************************************************************)
EXTENDS Naturals, Sequences

CONSTANTS
  Callers,     \* threads of the target that run detours
  Times,       \* times of day, to the millisecond
  Garbled,     \* a name that is not the one GetDumpName wrote
  OldFiles,    \* dumps of earlier runs in the dump directory
  Payloads,    \* what there is to dump: sequences of characters or bytes
  WideChars,   \* characters that have no byte in the "C" locale
  HeapByte,    \* a byte of malloc'ed memory that was never written
  Faults       \* what the environment makes go wrong

ASSUME OldFilesAssumption == OldFiles \subseteq Times
ASSUME GarbledAssumption == Garbled \notin Times

Characters == UNION {{d[k] : k \in DOMAIN d} : d \in Payloads}

ASSUME PayloadsAssumption == Payloads \subseteq Seq(Characters)

VARIABLES
  clock,     \* GetLocalTime
  dir,       \* the names taken in the dump directory
  content,   \* what each file of this run holds
  job,       \* the dump each thread is at; lost is the history of failed writes
  logged     \* history: the dumps reported as written

dumpVars == <<clock, dir, content, job, logged>>

Names == Times \cup {Garbled}

NoJob == [step |-> "idle", name |-> Garbled, data |-> <<>>, done |-> 0, lost |-> 0]

DumpInit ==
  /\ clock \in Times
  /\ dir = OldFiles
  /\ content = [n \in Names |-> <<>>]
  /\ job = [t \in Callers |-> NoJob]
  /\ logged = {}

-----------------------------------------------------------------------------
(* The name is the time of day, so the clock comes back to it every day,   *)
(* and it stands still for a millisecond.                                  *)
ClockMoves ==
  /\ clock' \in Times \ {clock}
  /\ UNCHANGED <<dir, content, job, logged>>

(* GetDumpName returns its own dead stack frame, read by lstrcatA: the     *)
(* name is the one of the clock, or something was written over it.         *)
TakeName(t, d) ==
  /\ job[t].step = "idle"
  /\ \E n \in {clock} \cup {g \in {Garbled} : "garbledName" \in Faults} :
       job' = [job EXCEPT ![t] = [step |-> "named", name |-> n, data |-> d, done |-> 0, lost |-> 0]]
  /\ UNCHANGED <<clock, dir, content, logged>>

(* CreateFileA(path, ..., CREATE_NEW, ...)                                 *)
CreateAlways(t) ==
  /\ job[t].step = "named"
  /\ dir' = dir \cup {job[t].name}
  /\ content' = [content EXCEPT ![job[t].name] = <<>>]
  /\ job' = [job EXCEPT ![t].step = "writing"]
  /\ UNCHANGED <<clock, logged>>
CreateDump(t) ==
  /\ job[t].step = "named"
  /\ \/ /\ job[t].name \notin dir
        /\ dir' = dir \cup {job[t].name}
        /\ job' = [job EXCEPT ![t].step = "writing"]
     \/ /\ job[t].name \in dir \/ "createFails" \in Faults
        /\ job' = [job EXCEPT ![t].step = "refused"]
        /\ UNCHANGED dir
  /\ UNCHANGED <<clock, content, logged>>

(* The detours of GetProcAddress write the buffer byte by byte, without a  *)
(* look at what WriteFile returns.                                         *)
WriteByteCountsTwice(t) ==
  LET n == job[t].name
      k == job[t].done + 1
  IN  /\ job[t].step = "writing"
      /\ k <= Len(job[t].data)
      /\ content' = [content EXCEPT ![n] = Append(@, job[t].data[k])]
      /\ job' = [job EXCEPT ![t].done = k + 1]
      /\ UNCHANGED <<clock, dir, logged>>
WriteByte(t) ==
  LET n == job[t].name
      k == job[t].done + 1
  IN  /\ job[t].step = "writing"
      /\ k <= Len(job[t].data)
      /\ \/ /\ content' = [content EXCEPT ![n] = Append(@, job[t].data[k])]
            /\ job' = [job EXCEPT ![t].done = k]
         \/ /\ "diskFull" \in Faults
            /\ job' = [job EXCEPT ![t].done = k, ![t].lost = @ + 1]
            /\ UNCHANGED content
      /\ UNCHANGED <<clock, dir, logged>>

(* sprintf(buffer, "%S", script) in the "C" locale gives up at the first   *)
(* character that has no byte; wcslen(script) bytes are written all the    *)
(* same.                                                                   *)
Converted(d) ==
  [k \in 1 .. Len(d) |-> IF \E n \in 1 .. k : d[n] \in WideChars THEN HeapByte ELSE d[k]]

(* The script detours write the whole buffer at once.                      *)
WriteTextWithNul(t) ==
  LET n == job[t].name
      text == Append(Converted(job[t].data), HeapByte)
  IN  /\ job[t].step = "writing"
      /\ job[t].done < Len(text)
      /\ content' = [content EXCEPT ![n] = text]
      /\ job' = [job EXCEPT ![t].done = Len(text)]
      /\ UNCHANGED <<clock, dir, logged>>
WriteText(t) ==
  LET n == job[t].name
      text == Converted(job[t].data)
  IN  /\ job[t].step = "writing"
      /\ job[t].done < Len(text)
      /\ \/ /\ content' = [content EXCEPT ![n] = text]
            /\ job' = [job EXCEPT ![t].done = Len(text)]
         \/ /\ "diskFull" \in Faults
            /\ job' = [job EXCEPT ![t].done = Len(text), ![t].lost = Len(text)]
            /\ UNCHANGED content
      /\ UNCHANGED <<clock, dir, logged>>

CloseDump(t) ==
  /\ job[t].step = "writing"
  /\ job[t].done = Len(job[t].data)
  /\ job' = [job EXCEPT ![t].step = "closed"]
  /\ UNCHANGED <<clock, dir, content, logged>>

(* Log("[+] Dump written to %s") or Log("[-] Could not create dump file!") *)
LogNothing(t) ==
  /\ job[t].step \in {"closed", "refused"}
  /\ job' = [job EXCEPT ![t].step = IF job[t].step = "closed" THEN "logged" ELSE "failed"]
  /\ UNCHANGED <<clock, dir, content, logged>>
LogDump(t) ==
  /\ \/ /\ job[t].step = "closed"
        /\ job' = [job EXCEPT ![t].step = "logged"]
        /\ logged' = logged \cup {[name |-> job[t].name, data |-> job[t].data,
                                lost |-> job[t].lost]}
     \/ /\ job[t].step = "refused"
        /\ job' = [job EXCEPT ![t].step = "failed"]
        /\ UNCHANGED logged
  /\ UNCHANGED <<clock, dir, content>>

DumpDone(t) == job[t].step \in {"logged", "failed"}

(* The process ends in thread t, or by no thread of its own: every other   *)
(* thread is terminated where it is, its file stays as far as it got.      *)
Terminate(survivors) ==
  /\ job' = [t \in Callers |->
               IF t \in survivors \/ job[t].step = "idle" THEN job[t]
               ELSE [job[t] EXCEPT !.step = "dead"]]
  /\ UNCHANGED <<clock, dir, content, logged>>

-----------------------------------------------------------------------------
(* Properties of any system composed of these actions                      *)

Jobs ==
  [step : {"idle", "named", "writing", "refused", "closed", "logged", "failed", "dead"},
   name : Names, data : Payloads \cup {<<>>}, done : Nat, lost : Nat]

DumpTypeOK ==
  /\ clock \in Times
  /\ dir \subseteq Names
  /\ content \in [Names -> Seq(Characters \cup {HeapByte})]
  /\ job \in [Callers -> Jobs]
  /\ \A t \in Callers : job[t].lost <= job[t].done /\ job[t].done <= Len(job[t].data)
  /\ logged \subseteq [name : Names, data : Payloads, lost : Nat]

(* A dump that the log reports as written is there, and stays: unless a    *)
(* WriteFile failed, its file holds all of what was to be dumped and       *)
(* nothing of another thread's dump, though two threads may dump in the    *)
(* same millisecond; the bytes missing are those of failed writes.         *)
LoggedDumpWhole ==
  \A r \in logged :
    /\ r.name \in dir
    /\ Len(content[r.name]) + r.lost = Len(r.data)
    /\ r.lost = 0 => content[r.name] = r.data

(* A file that the log does not report is from an earlier run, is being    *)
(* written, or its writer was terminated: no detour leaves a file behind   *)
(* in silence.                                                             *)
EveryFileAccounted ==
  \A n \in dir :
    \/ n \in OldFiles
    \/ \E r \in logged : r.name = n
    \/ \E t \in Callers : job[t].name = n /\ job[t].step \in {"writing", "closed", "dead"}

(* The dump directory and the log, seen from outside, are a DumpArchive:   *)
(* whatever the threads, the clock and the faults do, a dump is written    *)
(* into a new file of its own and only grows until it is reported.         *)
Archive == INSTANCE DumpArchive WITH
             Files    <- Names,
             Kept     <- OldFiles,
             Data     <- Payloads,
             Lossy    <- WideChars,
             files    <- [n \in dir \ OldFiles |-> content[n]],
             open     <- {n \in dir : \E t \in Callers :
                            job[t].name = n /\ job[t].step \in {"writing", "closed"}},
             reported <- logged

ImplementsArchive == Archive!Spec

(* A dump that the log reports is never touched again: no later dump, in   *)
(* the same millisecond or the same time the next day, gets into its file. *)
ReportedIsFinal == Archive!Final
=============================================================================
