------------------------------ MODULE DumpProofs -------------------------------
(* Lemmas about the actions of DumpFile, for the systems composed of them. *)
EXTENDS DumpFile, SequenceTheorems, TLAPS

(* Every character of d has a byte: the conversion is the identity.        *)
Narrow(d) == \A k \in DOMAIN d : d[k] \notin WideChars

(* The file n holds the first k characters of d, but for l that were lost. *)
Holds(n, d, k, l) ==
  /\ Len(content[n]) + l = k
  /\ l = 0 /\ Narrow(d) => \A m \in 1 .. k : content[n][m] = d[m]

OwnsFile(t) == job[t].step \in {"writing", "closed"}

(* A job owns its file alone from the creation to the log message, and a   *)
(* file that was logged has no owner any more.                             *)
DumpInv ==
  /\ DumpTypeOK
  /\ \A t \in Callers :
       /\ job[t].step # "idle" => job[t].data \in Payloads
       /\ job[t].step = "named" => job[t].done = 0 /\ job[t].lost = 0
       /\ job[t].step = "closed" => job[t].done = Len(job[t].data)
       /\ OwnsFile(t) =>
            /\ job[t].name \in dir
            /\ \A r \in logged : r.name # job[t].name
            /\ \A u \in Callers \ {t} : OwnsFile(u) => job[u].name # job[t].name
            /\ Holds(job[t].name, job[t].data, job[t].done, job[t].lost)
  /\ \A n \in Names : n \notin dir => content[n] = <<>>
  /\ \A r \in logged : r.name \in dir /\ Holds(r.name, r.data, Len(r.data), r.lost)
  /\ EveryFileAccounted

AllNarrow == \A d \in Payloads : Narrow(d)

LEMMA PayloadIsSeq ==
  ASSUME NEW d \in Payloads \cup {<<>>}
  PROVE  /\ d \in Seq(Characters) /\ Len(d) \in Nat /\ DOMAIN d = 1 .. Len(d)
         /\ \A k \in 1 .. Len(d) : d[k] \in Characters \cup {HeapByte}
  <1>1. d \in Seq(Characters)
    BY PayloadsAssumption, EmptySeq
  <1>. QED BY <1>1, LenProperties

(* The invariant says what the runs check.                                 *)
LEMMA DumpInvWhole == DumpInv /\ AllNarrow => LoggedDumpWhole
  <1> SUFFICES ASSUME DumpInv, AllNarrow, NEW r \in logged
               PROVE  /\ r.name \in dir
                      /\ Len(content[r.name]) + r.lost = Len(r.data)
                      /\ r.lost = 0 => content[r.name] = r.data
    BY DEF LoggedDumpWhole
  <1> DEFINE S == Characters \cup {HeapByte}
  <1>1. r.name \in Names /\ r.data \in Payloads /\ content[r.name] \in Seq(S)
    BY DEF DumpInv, DumpTypeOK
  <1>2. /\ r.name \in dir
        /\ Len(content[r.name]) + r.lost = Len(r.data)
        /\ r.lost = 0 => \A m \in 1 .. Len(r.data) : content[r.name][m] = r.data[m]
    BY <1>1 DEF DumpInv, Holds, AllNarrow
  <1>3. r.data \in Seq(Characters)
    BY <1>1, PayloadIsSeq
  <1>4. r.data \in Seq(S)
    BY <1>3, SeqMonotonic
  <1>5. ASSUME r.lost = 0 PROVE content[r.name] = r.data
    <2>1. Len(content[r.name]) = Len(r.data)
      BY <1>1, <1>2, <1>3, <1>5, LenProperties
    <2>. QED BY <1>1, <1>2, <1>4, <1>5, <2>1, SeqEqual
  <1>. QED BY <1>2, <1>5

LEMMA DumpInvInit == DumpInit => DumpInv
  <1> SUFFICES ASSUME DumpInit PROVE DumpInv
    OBVIOUS
  <1> USE OldFilesAssumption DEF DumpInit, Names, NoJob
  <1>1. <<>> \in Seq(Characters \cup {HeapByte}) /\ Len(<<>>) = 0
    BY EmptySeq
  <1>2. DumpTypeOK
    BY <1>1 DEF DumpTypeOK, Jobs
  <1>. QED BY <1>2 DEF DumpInv, OwnsFile, Holds, EveryFileAccounted

-----------------------------------------------------------------------------
(* Steps that touch no file                                                *)

LEMMA ClockStep == DumpInv /\ ClockMoves => DumpInv'
  <1> SUFFICES ASSUME DumpInv, ClockMoves PROVE DumpInv'
    OBVIOUS
  <1>. QED BY DEF DumpInv, ClockMoves, DumpTypeOK, OwnsFile, Holds, EveryFileAccounted

LEMMA DumpUnchanged == DumpInv /\ UNCHANGED dumpVars => DumpInv'
  <1> SUFFICES ASSUME DumpInv, UNCHANGED dumpVars PROVE DumpInv'
    OBVIOUS
  <1>. QED BY DEF DumpInv, dumpVars, DumpTypeOK, OwnsFile, Holds, EveryFileAccounted

(* A step of thread t that creates, writes and logs nothing, and neither   *)
(* takes a file nor lets one go.                                           *)
LEMMA JobStep ==
  ASSUME DumpInv, NEW t \in Callers, NEW j \in Jobs,
         job' = [job EXCEPT ![t] = j], UNCHANGED <<clock, dir, content, logged>>,
         j.lost <= j.done, j.done <= Len(j.data),
         j.step # "idle" => j.data \in Payloads,
         j.step = "named" => j.done = 0 /\ j.lost = 0,
         j.step = "closed" => j.done = Len(j.data),
         j.step \in {"writing", "closed"} => OwnsFile(t) /\ j.name = job[t].name
                                   /\ j.data = job[t].data
                                   /\ j.done = job[t].done /\ j.lost = job[t].lost,
         OwnsFile(t) \/ job[t].step = "dead" =>
           j.step \in {"writing", "closed", "dead"} /\ j.name = job[t].name
  PROVE  DumpInv'
  <1>1. /\ job' \in [Callers -> Jobs]
        /\ job'[t] = j
        /\ \A u \in Callers \ {t} : job'[u] = job[u]
    BY DEF DumpInv, DumpTypeOK
  <1>2. DumpTypeOK'
    BY <1>1 DEF DumpInv, DumpTypeOK
  <1>3. \A u \in Callers : OwnsFile(u)' => OwnsFile(u) /\ job'[u].name = job[u].name
                                    /\ job'[u].data = job[u].data
                                    /\ job'[u].done = job[u].done /\ job'[u].lost = job[u].lost
    BY <1>1 DEF OwnsFile
  <1>4. ASSUME NEW u \in Callers
        PROVE  /\ job'[u].step # "idle" => job'[u].data \in Payloads
               /\ job'[u].step = "named" => job'[u].done = 0 /\ job'[u].lost = 0
               /\ job'[u].step = "closed" => job'[u].done = Len(job'[u].data)
    BY <1>1 DEF DumpInv
  <1>5. ASSUME NEW u \in Callers, OwnsFile(u)'
        PROVE  /\ job'[u].name \in dir'
               /\ \A r \in logged' : r.name # job'[u].name
               /\ \A v \in Callers \ {u} : OwnsFile(v)' => job'[v].name # job'[u].name
               /\ Holds(job[u].name, job[u].data, job[u].done, job[u].lost)'
    BY <1>3, <1>5 DEF DumpInv, Holds
  <1>6. EveryFileAccounted'
    <2> SUFFICES ASSUME NEW n \in dir, n \notin OldFiles, \A r \in logged : r.name # n
                 PROVE  \E u \in Callers : job'[u].name = n
                                           /\ job'[u].step \in {"writing", "closed", "dead"}
      BY DEF EveryFileAccounted
    <2>1. PICK u \in Callers : job[u].name = n /\ job[u].step \in {"writing", "closed", "dead"}
      BY DEF DumpInv, EveryFileAccounted
    <2>. QED BY <1>1, <2>1 DEF OwnsFile
  <1>7. (\A n \in Names : n \notin dir => content[n] = <<>>)'
    BY DEF DumpInv
  <1>8. (\A r \in logged : r.name \in dir /\ Holds(r.name, r.data, Len(r.data), r.lost))'
    BY DEF DumpInv, Holds
  <1>. QED BY <1>2, <1>3, <1>4, <1>5, <1>6, <1>7, <1>8 DEF DumpInv, OwnsFile, Holds

LEMMA TakeNameStep ==
  ASSUME DumpInv, NEW t \in Callers, NEW d \in Payloads, TakeName(t, d)
  PROVE  DumpInv'
  <1>1. PICK n \in Names :
          job' = [job EXCEPT ![t] =
                    [step |-> "named", name |-> n, data |-> d, done |-> 0, lost |-> 0]]
    BY DEF TakeName, Names, DumpInv, DumpTypeOK
  <1> DEFINE j == [step |-> "named", name |-> n, data |-> d, done |-> 0, lost |-> 0]
  <1>2. j \in Jobs /\ j.lost <= j.done /\ j.done <= Len(j.data) /\ ~OwnsFile(t)
    BY PayloadIsSeq DEF Jobs, TakeName, OwnsFile
  <1>. QED BY <1>1, <1>2, JobStep DEF TakeName

(* A job that is done is forgotten.                                        *)
LEMMA ForgetStep ==
  ASSUME DumpInv, NEW t \in Callers, DumpDone(t),
         job' = [job EXCEPT ![t] = NoJob], UNCHANGED <<clock, dir, content, logged>>
  PROVE  DumpInv'
  <1>1. NoJob \in Jobs /\ NoJob.lost <= NoJob.done /\ NoJob.done <= Len(NoJob.data)
    BY EmptySeq DEF NoJob, Jobs, Names
  <1>2. NoJob.step = "idle" /\ ~OwnsFile(t) /\ job[t].step # "dead"
    BY DEF NoJob, OwnsFile, DumpDone
  <1>. QED BY <1>1, <1>2, JobStep

LEMMA CloseStep ==
  ASSUME DumpInv, NEW t \in Callers, CloseDump(t)
  PROVE  DumpInv'
  <1> DEFINE j == [job[t] EXCEPT !.step = "closed"]
  <1>1. job[t] \in Jobs /\ j \in Jobs /\ job' = [job EXCEPT ![t] = j]
    BY DEF DumpInv, DumpTypeOK, Jobs, CloseDump
  <1>2. /\ j.step = "closed" /\ j.name = job[t].name /\ j.data = job[t].data
        /\ j.done = job[t].done /\ j.lost = job[t].lost
        /\ OwnsFile(t) /\ j.done = Len(j.data) /\ j.data \in Payloads
    BY <1>1 DEF CloseDump, OwnsFile, DumpInv, Jobs
  <1>3. j.lost <= j.done /\ j.done <= Len(j.data)
    BY <1>2 DEF DumpInv, DumpTypeOK
  <1>. QED BY <1>1, <1>2, <1>3, JobStep DEF CloseDump

(* Threads are terminated wherever they are.                               *)
LEMMA TerminateStep ==
  ASSUME DumpInv, NEW survivors, Terminate(survivors)
  PROVE  DumpInv'
  <1>1. \A t \in Callers :
          \/ job'[t] = job[t]
          \/ job'[t] = [job[t] EXCEPT !.step = "dead"] /\ job[t].step # "idle"
    BY DEF Terminate
  <1>2. \A t \in Callers :
          /\ job'[t] \in Jobs
          /\ job'[t].name = job[t].name /\ job'[t].data = job[t].data
          /\ job'[t].done = job[t].done /\ job'[t].lost = job[t].lost
          /\ job'[t].step = job[t].step \/ (job'[t].step = "dead" /\ job[t].step # "idle")
    <2> SUFFICES ASSUME NEW t \in Callers
                 PROVE  /\ job'[t] \in Jobs
                        /\ job'[t].name = job[t].name /\ job'[t].data = job[t].data
                        /\ job'[t].done = job[t].done /\ job'[t].lost = job[t].lost
                        /\ job'[t].step = job[t].step
                             \/ (job'[t].step = "dead" /\ job[t].step # "idle")
      OBVIOUS
    <2>1. job[t] \in Jobs
      BY DEF DumpInv, DumpTypeOK
    <2>2. CASE job'[t] = job[t]
      BY <2>1, <2>2
    <2>3. CASE job'[t] = [job[t] EXCEPT !.step = "dead"] /\ job[t].step # "idle"
      BY <2>1, <2>3 DEF Jobs
    <2>. QED BY <1>1, <2>2, <2>3
  <1>3. DumpTypeOK'
    <2>1. job' \in [Callers -> Jobs]
      BY <1>2 DEF Terminate
    <2>. QED BY <1>2, <2>1 DEF DumpInv, DumpTypeOK, Terminate
  <1>4. EveryFileAccounted'
    BY <1>2 DEF DumpInv, EveryFileAccounted, Terminate
  <1>5. \A t \in Callers : OwnsFile(t)' => OwnsFile(t)
    BY <1>2 DEF OwnsFile
  <1>6. ASSUME NEW t \in Callers, OwnsFile(t)'
        PROVE  /\ job'[t].name \in dir'
               /\ \A r \in logged' : r.name # job'[t].name
               /\ \A u \in Callers \ {t} : OwnsFile(u)' => job'[u].name # job'[t].name
               /\ Holds(job[t].name, job[t].data, job[t].done, job[t].lost)'
    BY <1>2, <1>5, <1>6 DEF DumpInv, Terminate, Holds
  <1>7. \A t \in Callers :
          /\ job'[t].step # "idle" => job'[t].data \in Payloads
          /\ job'[t].step = "named" => job'[t].done = 0 /\ job'[t].lost = 0
          /\ job'[t].step = "closed" => job'[t].done = Len(job'[t].data)
    BY <1>2 DEF DumpInv
  <1>8. /\ (\A n \in Names : n \notin dir => content[n] = <<>>)'
        /\ (\A r \in logged : r.name \in dir /\ Holds(r.name, r.data, Len(r.data), r.lost))'
    BY DEF DumpInv, Terminate, Holds
  <1>. QED BY <1>3, <1>4, <1>6, <1>7, <1>8 DEF DumpInv, OwnsFile

-----------------------------------------------------------------------------
(* Steps that touch a file                                                 *)

LEMMA CreateStep ==
  ASSUME DumpInv, NEW t \in Callers, CreateDump(t)
  PROVE  DumpInv'
  <1> DEFINE n == job[t].name
  <1>0. job[t] \in Jobs /\ n \in Names /\ job[t].data \in Payloads
        /\ job[t].done = 0 /\ job[t].lost = 0 /\ 0 <= Len(job[t].data) /\ ~OwnsFile(t)
    BY PayloadIsSeq DEF DumpInv, DumpTypeOK, Jobs, CreateDump, OwnsFile
  <1>1. CASE job' = [job EXCEPT ![t].step = "refused"] /\ UNCHANGED dir
    <2> DEFINE j == [job[t] EXCEPT !.step = "refused"]
    <2>1. job' = [job EXCEPT ![t] = j] /\ j \in Jobs /\ j.data \in Payloads
          /\ j.lost <= j.done /\ j.done <= Len(j.data) /\ j.step = "refused"
      BY <1>0, <1>1 DEF Jobs, DumpInv, DumpTypeOK
    <2>. QED BY <1>0, <1>1, <2>1, JobStep DEF CreateDump
  <1>2. CASE n \notin dir /\ dir' = dir \cup {n} /\ job' = [job EXCEPT ![t].step = "writing"]
    <2>1. /\ job'[t].step = "writing" /\ job'[t].name = n /\ job'[t].data = job[t].data
          /\ job'[t].done = 0 /\ job'[t].lost = 0
          /\ \A u \in Callers \ {t} : job'[u] = job[u]
          /\ job' \in [Callers -> Jobs]
      BY <1>0, <1>2 DEF DumpInv, DumpTypeOK, Jobs
    <2>2. DumpTypeOK'
      BY <1>0, <1>2, <2>1 DEF DumpInv, DumpTypeOK, CreateDump
    <2>3. content[n] = <<>> /\ Len(<<>>) = 0 /\ content' = content /\ logged' = logged
      BY <1>0, <1>2, EmptySeq DEF DumpInv, CreateDump
    <2>4. Len(content'[n]) + 0 = 0
      BY <2>3
    <2>5. \A u \in Callers : OwnsFile(u) => job[u].name # n
      BY <1>2 DEF DumpInv
    <2>6. ASSUME NEW u \in Callers, OwnsFile(u)'
          PROVE  /\ job'[u].name \in dir'
                 /\ \A r \in logged' : r.name # job'[u].name
                 /\ \A v \in Callers \ {u} : OwnsFile(v)' => job'[v].name # job'[u].name
                 /\ Len(content'[job'[u].name]) + job'[u].lost = job'[u].done
                 /\ job'[u].lost = 0 /\ Narrow(job'[u].data) =>
                      \A m \in 1 .. job'[u].done : content'[job'[u].name][m] = job'[u].data[m]
      <3>1. CASE u = t
        BY <1>2, <2>1, <2>3, <2>4, <2>5, <3>1 DEF DumpInv, OwnsFile
      <3>2. CASE u # t
        BY <1>2, <2>1, <2>3, <2>5, <2>6, <3>2 DEF DumpInv, OwnsFile, Holds
      <3>. QED BY <3>1, <3>2
    <2>7. EveryFileAccounted'
      BY <1>2, <2>1, <2>3 DEF DumpInv, EveryFileAccounted, CreateDump
    <2>8. \A u \in Callers :
            /\ job'[u].step # "idle" => job'[u].data \in Payloads
            /\ job'[u].step = "named" => job'[u].done = 0 /\ job'[u].lost = 0
            /\ job'[u].step = "closed" => job'[u].done = Len(job'[u].data)
      BY <1>0, <2>1 DEF DumpInv
    <2>9. /\ (\A m \in Names : m \notin dir => content[m] = <<>>)'
          /\ (\A r \in logged : r.name \in dir /\ Holds(r.name, r.data, Len(r.data), r.lost))'
      BY <1>2, <2>3 DEF DumpInv, Holds
    <2>. QED BY <2>2, <2>6, <2>7, <2>8, <2>9 DEF DumpInv, OwnsFile, Holds
  <1>. QED BY <1>1, <1>2 DEF CreateDump

(* Thread t, in its file, comes to k characters of which l are lost.       *)
LEMMA WriteStep ==
  ASSUME DumpInv, NEW t \in Callers, NEW k \in Nat, NEW l \in Nat,
         NEW text \in Seq(Characters \cup {HeapByte}),
         job[t].step = "writing", l <= k, k <= Len(job[t].data),
         job' = [job EXCEPT ![t] = [job[t] EXCEPT !.done = k, !.lost = l]],
         content' = [content EXCEPT ![job[t].name] = text],
         UNCHANGED <<clock, dir, logged>>,
         Len(text) + l = k,
         l = 0 /\ Narrow(job[t].data) => \A m \in 1 .. k : text[m] = job[t].data[m]
  PROVE  DumpInv'
  <1> DEFINE n == job[t].name
  <1>1. job[t] \in Jobs /\ n \in Names /\ n \in dir /\ OwnsFile(t)
    BY DEF DumpInv, DumpTypeOK, Jobs, OwnsFile
  <1>2. /\ job'[t].step = "writing" /\ job'[t].name = n /\ job'[t].data = job[t].data
        /\ job'[t].done = k /\ job'[t].lost = l
        /\ \A u \in Callers \ {t} : job'[u] = job[u]
        /\ job' \in [Callers -> Jobs]
        /\ content'[n] = text
        /\ \A m \in Names \ {n} : content'[m] = content[m]
        /\ content' \in [Names -> Seq(Characters \cup {HeapByte})]
    BY <1>1 DEF DumpInv, DumpTypeOK, Jobs
  <1>3. DumpTypeOK'
    BY <1>1, <1>2 DEF DumpInv, DumpTypeOK
  <1>4. \A u \in Callers : OwnsFile(u)' => OwnsFile(u) /\ job'[u].name = job[u].name
                                          /\ job[u].name \in Names
    BY <1>1, <1>2 DEF OwnsFile, DumpInv, DumpTypeOK, Jobs
  <1>5. ASSUME NEW u \in Callers, OwnsFile(u)'
        PROVE  /\ job'[u].name \in dir'
               /\ \A r \in logged' : r.name # job'[u].name
               /\ \A v \in Callers \ {u} : OwnsFile(v)' => job'[v].name # job'[u].name
               /\ Len(content'[job'[u].name]) + job'[u].lost = job'[u].done
               /\ job'[u].lost = 0 /\ Narrow(job'[u].data) =>
                    \A m \in 1 .. job'[u].done : content'[job'[u].name][m] = job'[u].data[m]
    <2>1. /\ job'[u].name \in dir'
          /\ \A r \in logged' : r.name # job'[u].name
          /\ \A v \in Callers \ {u} : OwnsFile(v)' => job'[v].name # job'[u].name
      BY <1>4, <1>5 DEF DumpInv
    <2>2. CASE u = t
      BY <1>2, <2>1, <2>2
    <2>3. CASE u # t
      <3>1. job[u].name \in Names \ {n}
        BY <1>1, <1>4, <1>5, <2>3 DEF DumpInv
      <3>. QED BY <1>2, <1>4, <1>5, <2>1, <2>3, <3>1 DEF DumpInv, Holds
    <2>. QED BY <2>2, <2>3
  <1>6. EveryFileAccounted'
    <2> SUFFICES ASSUME NEW m \in dir, m \notin OldFiles, \A r \in logged : r.name # m
                 PROVE  \E u \in Callers : job'[u].name = m
                                           /\ job'[u].step \in {"writing", "closed", "dead"}
      BY DEF EveryFileAccounted
    <2>1. PICK u \in Callers : job[u].name = m /\ job[u].step \in {"writing", "closed", "dead"}
      BY DEF DumpInv, EveryFileAccounted
    <2>. QED BY <1>2, <2>1
  <1>7. \A u \in Callers :
          /\ job'[u].step # "idle" => job'[u].data \in Payloads
          /\ job'[u].step = "named" => job'[u].done = 0 /\ job'[u].lost = 0
          /\ job'[u].step = "closed" => job'[u].done = Len(job'[u].data)
    BY <1>2 DEF DumpInv
  <1>8. \A m \in Names : m \notin dir' => content'[m] = <<>>
    BY <1>1, <1>2 DEF DumpInv
  <1>9. \A r \in logged' :
          /\ r.name \in dir'
          /\ Len(content'[r.name]) + r.lost = Len(r.data)
          /\ r.lost = 0 /\ Narrow(r.data) =>
               \A m \in 1 .. Len(r.data) : content'[r.name][m] = r.data[m]
    <2> SUFFICES ASSUME NEW r \in logged
                 PROVE  r.name \in Names \ {n} /\ r.name \in dir
                        /\ Holds(r.name, r.data, Len(r.data), r.lost)
      BY <1>2 DEF Holds
    <2>. QED BY <1>1 DEF DumpInv, DumpTypeOK
  <1>. QED BY <1>3, <1>5, <1>6, <1>7, <1>8, <1>9 DEF DumpInv, OwnsFile, Holds

(* What WriteStep needs to know of a job that is writing.                  *)
LEMMA Writing ==
  ASSUME DumpInv, NEW t \in Callers, job[t].step = "writing"
  PROVE  /\ job[t] \in Jobs /\ job[t].name \in Names /\ job[t].data \in Payloads
         /\ job[t].done \in Nat /\ job[t].lost \in Nat /\ job[t].lost <= job[t].done
         /\ content[job[t].name] \in Seq(Characters \cup {HeapByte})
         /\ Len(content[job[t].name]) \in Nat
         /\ Holds(job[t].name, job[t].data, job[t].done, job[t].lost)
         /\ content = [content EXCEPT ![job[t].name] = content[job[t].name]]
  <1>1. job[t] \in Jobs
    BY DEF DumpInv, DumpTypeOK
  <1>2. job[t].name \in Names /\ job[t].done \in Nat /\ job[t].lost \in Nat
    BY <1>1 DEF Jobs
  <1>3. job[t].data \in Payloads /\ Holds(job[t].name, job[t].data, job[t].done, job[t].lost)
    BY DEF DumpInv, OwnsFile
  <1>4. content[job[t].name] \in Seq(Characters \cup {HeapByte})
    BY <1>2 DEF DumpInv, DumpTypeOK
  <1>5. Len(content[job[t].name]) \in Nat
    BY <1>4, LenProperties
  <1>. QED BY <1>1, <1>2, <1>3, <1>4, <1>5 DEF DumpInv, DumpTypeOK

LEMMA OneMore ==
  ASSUME NEW a \in Nat, NEW b \in Nat, NEW k \in Nat, a + b = k
  PROVE  /\ (a + 1) + b = k + 1 /\ a + (b + 1) = k + 1
         /\ b + 1 \in Nat /\ b + 1 <= k + 1 /\ b + 1 # 0
         /\ b <= k + 1
         /\ b = 0 => a = k
         /\ k = 0 => a = 0 /\ b = 0
  OBVIOUS

LEMMA WriteByteStep ==
  ASSUME DumpInv, NEW t \in Callers, WriteByte(t)
  PROVE  DumpInv'
  <1> DEFINE n == job[t].name
             k == job[t].done + 1
             c == job[t].data[k]
             S == Characters \cup {HeapByte}
  <1>1. job[t].step = "writing" /\ k <= Len(job[t].data) /\ UNCHANGED <<clock, dir, logged>>
    BY DEF WriteByte
  <1>2. /\ job[t] \in Jobs /\ n \in Names /\ job[t].data \in Payloads
        /\ job[t].done \in Nat /\ job[t].lost \in Nat /\ job[t].lost <= job[t].done
        /\ content[n] \in Seq(S) /\ Len(content[n]) \in Nat
        /\ Holds(n, job[t].data, job[t].done, job[t].lost)
        /\ content = [content EXCEPT ![n] = content[n]]
    BY <1>1, Writing
  <1>3. k \in Nat /\ k \in 1 .. Len(job[t].data) /\ Len(job[t].data) \in Nat
    BY <1>1, <1>2, PayloadIsSeq
  <1>4. c \in S
    BY <1>2, <1>3, PayloadIsSeq
  <1>a. /\ Len(content[n]) \in Nat /\ job[t].lost \in Nat /\ job[t].done \in Nat
        /\ Len(content[n]) + job[t].lost = job[t].done
    BY <1>2 DEF Holds
  <1>b. /\ (Len(content[n]) + 1) + job[t].lost = k
        /\ Len(content[n]) + (job[t].lost + 1) = k
        /\ job[t].lost + 1 \in Nat /\ job[t].lost + 1 <= k /\ job[t].lost + 1 # 0
        /\ job[t].lost <= k
        /\ job[t].lost = 0 => Len(content[n]) = job[t].done
    <2> DEFINE a == Len(content[n])
               b == job[t].lost
               j == job[t].done
    <2>1. a \in Nat /\ b \in Nat /\ j \in Nat /\ a + b = j
      BY <1>a
    <2> HIDE DEF a, b, j
    <2>2. /\ (a + 1) + b = j + 1 /\ a + (b + 1) = j + 1
          /\ b + 1 \in Nat /\ b + 1 <= j + 1 /\ b + 1 # 0
          /\ b <= j + 1
          /\ b = 0 => a = j
      BY <2>1, OneMore
    <2>. QED BY <2>2 DEF a, b, j
  <1>5. CASE /\ content' = [content EXCEPT ![n] = Append(@, c)]
             /\ job' = [job EXCEPT ![t].done = k]
    <2>1. /\ Append(content[n], c) \in Seq(S)
          /\ Len(Append(content[n], c)) = Len(content[n]) + 1
          /\ \A m \in 1 .. Len(content[n]) : Append(content[n], c)[m] = content[n][m]
          /\ Append(content[n], c)[Len(content[n]) + 1] = c
      BY <1>2, <1>4, AppendProperties
    <2>2. Len(Append(content[n], c)) + job[t].lost = k
      BY <1>b, <2>1
    <2>3. ASSUME job[t].lost = 0, Narrow(job[t].data), NEW m \in 1 .. k
          PROVE  Append(content[n], c)[m] = job[t].data[m]
      <3>1. Len(content[n]) = job[t].done
        BY <1>b, <2>3
      <3>2. CASE m = k
        BY <2>1, <3>1, <3>2
      <3>3. CASE m # k
        <4>1. m \in 1 .. job[t].done
          BY <1>2, <2>3, <3>3
        <4>2. content[n][m] = job[t].data[m]
          BY <1>2, <2>3, <4>1 DEF Holds
        <4>. QED BY <2>1, <3>1, <4>1, <4>2
      <3>. QED BY <3>2, <3>3
    <2>4. /\ job' = [job EXCEPT ![t] = [job[t] EXCEPT !.done = k, !.lost = job[t].lost]]
          /\ content' = [content EXCEPT ![n] = Append(content[n], c)]
      BY <1>2, <1>5 DEF Jobs
    <2>. QED BY <1>1, <1>2, <1>3, <1>b, <2>1, <2>2, <2>3, <2>4, WriteStep
  <1>6. CASE job' = [job EXCEPT ![t].done = k, ![t].lost = @ + 1] /\ UNCHANGED content
    <2>1. job' = [job EXCEPT ![t] = [job[t] EXCEPT !.done = k, !.lost = job[t].lost + 1]]
      BY <1>2, <1>6 DEF Jobs, DumpInv, DumpTypeOK
    <2>2. content' = [content EXCEPT ![n] = content[n]]
      BY <1>2, <1>6
    <2>. QED BY <1>1, <1>2, <1>3, <1>b, <2>1, <2>2, WriteStep
  <1>. QED BY <1>5, <1>6 DEF WriteByte

(* The conversion keeps the length, and the text if it is narrow.          *)
LEMMA ConvertedText ==
  ASSUME NEW d \in Payloads
  PROVE  /\ Converted(d) \in Seq(Characters \cup {HeapByte}) /\ Len(Converted(d)) = Len(d)
         /\ Narrow(d) => \A m \in 1 .. Len(d) : Converted(d)[m] = d[m]
  <1>1. /\ Len(d) \in Nat /\ DOMAIN d = 1 .. Len(d)
        /\ \A k \in 1 .. Len(d) : d[k] \in Characters \cup {HeapByte}
    BY PayloadIsSeq
  <1> DEFINE Char(k) == IF \E n \in 1 .. k : d[n] \in WideChars THEN HeapByte ELSE d[k]
  <1>2. Converted(d) = [k \in 1 .. Len(d) |-> Char(k)]
    BY DEF Converted
  <1>3. \A k \in 1 .. Len(d) : Char(k) \in Characters \cup {HeapByte}
    BY <1>1
  <1>4. ASSUME Narrow(d), NEW m \in 1 .. Len(d) PROVE Char(m) = d[m]
    BY <1>1, <1>4 DEF Narrow
  <1> HIDE DEF Char
  <1>5. Converted(d) \in Seq(Characters \cup {HeapByte})
    BY <1>1, <1>2, <1>3
  <1>. QED BY <1>1, <1>2, <1>4, <1>5, LenProperties

(* The scripts are written at one go.                                      *)
LEMMA WriteTextStep ==
  ASSUME DumpInv, NEW t \in Callers, job[t].done = 0 \/ job[t].done = Len(job[t].data),
         WriteText(t)
  PROVE  DumpInv'
  <1> DEFINE n == job[t].name
             d == job[t].data
             text == Converted(d)
             S == Characters \cup {HeapByte}
  <1>1. job[t].step = "writing" /\ UNCHANGED <<clock, dir, logged>>
    BY DEF WriteText
  <1>2. /\ job[t] \in Jobs /\ n \in Names /\ d \in Payloads
        /\ job[t].done \in Nat /\ job[t].lost \in Nat /\ job[t].lost <= job[t].done
        /\ content[n] \in Seq(S) /\ Len(content[n]) \in Nat
        /\ Holds(n, d, job[t].done, job[t].lost)
        /\ content = [content EXCEPT ![n] = content[n]]
    BY <1>1, Writing
  <1>3. Len(d) \in Nat
    BY <1>2, PayloadIsSeq
  <1>4. /\ text \in Seq(S) /\ Len(text) = Len(d)
        /\ Narrow(d) => \A m \in 1 .. Len(d) : text[m] = d[m]
    BY <1>2, ConvertedText
  <1>5. job[t].done = 0 /\ Len(d) # 0
    BY <1>2, <1>3, <1>4 DEF WriteText
  <1>a. /\ Len(content[n]) \in Nat /\ job[t].lost \in Nat /\ job[t].done \in Nat
        /\ Len(content[n]) + job[t].lost = job[t].done
    BY <1>2 DEF Holds
  <1>b. Len(content[n]) = 0 /\ job[t].lost = 0
    BY <1>5, <1>a, OneMore
  <1>6. CASE content' = [content EXCEPT ![n] = text] /\ job' = [job EXCEPT ![t].done = Len(text)]
    <2>1. job' = [job EXCEPT ![t] = [job[t] EXCEPT !.done = Len(d), !.lost = 0]]
      BY <1>2, <1>4, <1>b, <1>6 DEF Jobs
    <2>2. Len(text) + 0 = Len(d) /\ 0 <= Len(d) /\ Len(d) <= Len(d) /\ 0 \in Nat
      BY <1>3, <1>4
    <2> HIDE DEF text
    <2>. QED BY <1>1, <1>3, <1>4, <1>6, <2>1, <2>2, WriteStep
  <1>7. CASE job' = [job EXCEPT ![t].done = Len(text), ![t].lost = Len(text)] /\ UNCHANGED content
    <2>1. job' = [job EXCEPT ![t] = [job[t] EXCEPT !.done = Len(d), !.lost = Len(d)]]
      BY <1>2, <1>4, <1>7 DEF Jobs, DumpInv, DumpTypeOK
    <2>2. Len(content[n]) + Len(d) = Len(d)
      BY <1>3, <1>b
    <2>3. content' = [content EXCEPT ![n] = content[n]]
      BY <1>2, <1>7
    <2>4. Len(d) \in Nat /\ Len(d) <= Len(d) /\ Len(d) # 0 /\ content[n] \in Seq(S)
      BY <1>2, <1>3, <1>5
    <2>5. Len(d) = 0 => \A m \in 1 .. Len(d) : content[n][m] = d[m]
      BY <2>4
    <2>. QED BY <1>1, <2>1, <2>2, <2>3, <2>4, <2>5, WriteStep
  <1>. QED BY <1>6, <1>7 DEF WriteText

LEMMA LogStep ==
  ASSUME DumpInv, NEW t \in Callers, LogDump(t)
  PROVE  DumpInv'
  <1> DEFINE n == job[t].name
  <1>0. job[t] \in Jobs /\ n \in Names /\ job[t].lost \in Nat
    BY DEF DumpInv, DumpTypeOK, Jobs
  <1>1. CASE job[t].step = "refused" /\ job' = [job EXCEPT ![t].step = "failed"]
             /\ UNCHANGED logged
    <2> DEFINE j == [job[t] EXCEPT !.step = "failed"]
    <2>1. job' = [job EXCEPT ![t] = j] /\ j \in Jobs /\ j.data \in Payloads
          /\ j.lost <= j.done /\ j.done <= Len(j.data) /\ j.step = "failed" /\ ~OwnsFile(t)
      BY <1>0, <1>1 DEF Jobs, DumpInv, DumpTypeOK, OwnsFile
    <2>. QED BY <1>0, <1>1, <2>1, JobStep DEF LogDump
  <1>2. CASE /\ job[t].step = "closed"
             /\ job' = [job EXCEPT ![t].step = "logged"]
             /\ logged' = logged \cup {[name |-> job[t].name, data |-> job[t].data,
                                       lost |-> job[t].lost]}
    <2> DEFINE new == [name |-> job[t].name, data |-> job[t].data, lost |-> job[t].lost]
    <2>1. /\ job'[t].step = "logged" /\ job'[t].name = n /\ job'[t].data = job[t].data
          /\ job'[t].done = job[t].done /\ job'[t].lost = job[t].lost
          /\ \A u \in Callers \ {t} : job'[u] = job[u]
          /\ job' \in [Callers -> Jobs]
      BY <1>0, <1>2 DEF DumpInv, DumpTypeOK, Jobs
    <2>2. /\ OwnsFile(t) /\ job[t].data \in Payloads /\ job[t].done = Len(job[t].data)
          /\ n \in dir /\ Holds(n, job[t].data, job[t].done, job[t].lost)
          /\ content' = content /\ dir' = dir
      BY <1>2 DEF DumpInv, OwnsFile, LogDump
    <2>3. new \in [name : Names, data : Payloads, lost : Nat]
      BY <1>0, <2>2
    <2>4. DumpTypeOK'
      BY <1>2, <2>1, <2>3 DEF DumpInv, DumpTypeOK, LogDump
    <2>5. ASSUME NEW u \in Callers, OwnsFile(u)'
          PROVE  /\ job'[u].name \in dir'
                 /\ \A r \in logged' : r.name # job'[u].name
                 /\ \A v \in Callers \ {u} : OwnsFile(v)' => job'[v].name # job'[u].name
                 /\ Len(content'[job'[u].name]) + job'[u].lost = job'[u].done
                 /\ job'[u].lost = 0 /\ Narrow(job'[u].data) =>
                      \A m \in 1 .. job'[u].done : content'[job'[u].name][m] = job'[u].data[m]
      <3>1. u # t /\ OwnsFile(u)
        BY <2>1, <2>5 DEF OwnsFile
      <3>2. job[u].name # new.name
        BY <2>2, <3>1 DEF DumpInv
      <3>. QED BY <1>2, <2>1, <2>2, <2>5, <3>1, <3>2 DEF DumpInv, OwnsFile, Holds
    <2>6. EveryFileAccounted'
      <3> SUFFICES ASSUME NEW m \in dir, m \notin OldFiles, \A r \in logged' : r.name # m
                   PROVE  \E u \in Callers : job'[u].name = m
                                             /\ job'[u].step \in {"writing", "closed", "dead"}
        BY <2>2 DEF EveryFileAccounted
      <3>1. new.name # m /\ \A r \in logged : r.name # m
        BY <1>2
      <3>2. PICK u \in Callers : job[u].name = m /\ job[u].step \in {"writing", "closed", "dead"}
        BY <3>1 DEF DumpInv, EveryFileAccounted
      <3>. QED BY <2>1, <3>1, <3>2
    <2>7. \A u \in Callers :
            /\ job'[u].step # "idle" => job'[u].data \in Payloads
            /\ job'[u].step = "named" => job'[u].done = 0 /\ job'[u].lost = 0
            /\ job'[u].step = "closed" => job'[u].done = Len(job'[u].data)
      BY <2>1, <2>2 DEF DumpInv
    <2>8. (\A m \in Names : m \notin dir => content[m] = <<>>)'
      BY <2>2 DEF DumpInv
    <2>9. \A r \in logged' :
            /\ r.name \in dir'
            /\ Len(content'[r.name]) + r.lost = Len(r.data)
            /\ r.lost = 0 /\ Narrow(r.data) =>
               \A m \in 1 .. Len(r.data) : content'[r.name][m] = r.data[m]
      <3>1. CASE ~(\A r \in logged' : r = new \/ r \in logged)
        BY <1>2, <3>1
      <3>2. Len(content[new.name]) + new.lost = Len(new.data)
            /\ (new.lost = 0 /\ Narrow(new.data) =>
                  \A m \in 1 .. Len(new.data) : content[new.name][m] = new.data[m])
        BY <2>2 DEF Holds
      <3>. QED BY <2>2, <3>1, <3>2 DEF DumpInv, Holds
    <2>. QED BY <2>4, <2>5, <2>6, <2>7, <2>8, <2>9 DEF DumpInv, OwnsFile, Holds
  <1>. QED BY <1>1, <1>2 DEF LogDump
-----------------------------------------------------------------------------
(* The archive.  A dump is in a file that was not there before, and no two *)
(* of those reported are in the same file.                                 *)

FreshInv ==
  /\ OldFiles \subseteq dir
  /\ \A t \in Callers : OwnsFile(t) => job[t].name \notin OldFiles
  /\ \A r \in logged : r.name \notin OldFiles
  /\ \A r, s \in logged : r.name = s.name => r = s

(* What each step of a system of dumps does for the archive.               *)
ArchiveStep == FreshInv' /\ [Archive!Next]_(Archive!vars)

LEMMA FreshInit == DumpInit => FreshInv /\ Archive!Init
  <1> SUFFICES ASSUME DumpInit PROVE FreshInv /\ Archive!Init
    OBVIOUS
  <1>1. FreshInv
    BY DEF DumpInit, FreshInv, OwnsFile, NoJob
  <1>2. [n \in dir \ OldFiles |-> content[n]] = [n \in {} |-> <<>>]
    BY DEF DumpInit
  <1>3. \A t \in Callers : job[t].step \notin {"writing", "closed"}
    BY DEF DumpInit, NoJob
  <1>. QED BY <1>1, <1>2, <1>3 DEF Archive!Init, DumpInit

(* A step that creates, writes and reports nothing, and takes no file.     *)
LEMMA QuietArchive ==
  ASSUME FreshInv, UNCHANGED <<dir, content, logged>>,
         \A t \in Callers : OwnsFile(t)' => OwnsFile(t) /\ job'[t].name = job[t].name
  PROVE  ArchiveStep
  <1>1. FreshInv'
    BY DEF FreshInv
  <1>2. Archive!Abandon
    BY DEF Archive!Abandon, OwnsFile
  <1>. QED BY <1>1, <1>2 DEF ArchiveStep, Archive!Next

LEMMA UnchangedArchive ==
  ASSUME FreshInv, UNCHANGED dumpVars \/ ClockMoves
  PROVE  ArchiveStep
  BY QuietArchive DEF dumpVars, ClockMoves, OwnsFile

LEMMA TakeNameArchive ==
  ASSUME DumpInv, FreshInv, NEW t \in Callers, NEW d \in Payloads, TakeName(t, d)
  PROVE  ArchiveStep
  <1>1. \A u \in Callers : OwnsFile(u)' => OwnsFile(u) /\ job'[u].name = job[u].name
    BY DEF TakeName, OwnsFile, DumpInv, DumpTypeOK
  <1>. QED BY <1>1, QuietArchive DEF TakeName

LEMMA ForgetArchive ==
  ASSUME DumpInv, FreshInv, NEW t \in Callers,
         job' = [job EXCEPT ![t] = NoJob], UNCHANGED <<clock, dir, content, logged>>
  PROVE  ArchiveStep
  <1>1. \A u \in Callers : OwnsFile(u)' => OwnsFile(u) /\ job'[u].name = job[u].name
    BY DEF NoJob, OwnsFile, DumpInv, DumpTypeOK
  <1>. QED BY <1>1, QuietArchive

LEMMA CloseArchive ==
  ASSUME DumpInv, FreshInv, NEW t \in Callers, CloseDump(t)
  PROVE  ArchiveStep
  <1>1. \A u \in Callers : OwnsFile(u)' => OwnsFile(u) /\ job'[u].name = job[u].name
    BY DEF CloseDump, OwnsFile, DumpInv, DumpTypeOK, Jobs
  <1>. QED BY <1>1, QuietArchive DEF CloseDump

LEMMA TerminateArchive ==
  ASSUME DumpInv, FreshInv, NEW survivors, Terminate(survivors)
  PROVE  ArchiveStep
  <1>1. ASSUME NEW u \in Callers, OwnsFile(u)' PROVE OwnsFile(u) /\ job'[u].name = job[u].name
    <2>1. job[u] \in Jobs
      BY DEF DumpInv, DumpTypeOK
    <2>2. job'[u] = job[u] \/ job'[u] = [job[u] EXCEPT !.step = "dead"]
      BY DEF Terminate
    <2>3. job'[u] = job[u]
      BY <1>1, <2>1, <2>2 DEF OwnsFile, Jobs
    <2>. QED BY <1>1, <2>3 DEF OwnsFile
  <1>. QED BY <1>1, QuietArchive DEF Terminate

LEMMA CreateArchive ==
  ASSUME DumpInv, FreshInv, NEW t \in Callers, CreateDump(t)
  PROVE  ArchiveStep
  <1>0. job[t] \in Jobs /\ job[t].step = "named" /\ job \in [Callers -> Jobs]
    BY DEF DumpInv, DumpTypeOK, Jobs, CreateDump
  <1> PICK n \in Names : n = job[t].name
    BY <1>0 DEF Jobs
  <1>1. CASE job' = [job EXCEPT ![t].step = "refused"] /\ UNCHANGED dir
    <2>1. \A u \in Callers : OwnsFile(u)' => OwnsFile(u) /\ job'[u].name = job[u].name
      BY <1>0, <1>1 DEF OwnsFile, Jobs
    <2>. QED BY <1>1, <2>1, QuietArchive DEF CreateDump
  <1>2. CASE n \notin dir /\ dir' = dir \cup {n} /\ job' = [job EXCEPT ![t].step = "writing"]
    <2>1. /\ job'[t].step = "writing" /\ job'[t].name = n
          /\ \A u \in Callers \ {t} : job'[u] = job[u]
      BY <1>0, <1>2 DEF Jobs
    <2>2. content' = content /\ logged' = logged /\ content[n] = <<>>
      BY <1>0, <1>2 DEF CreateDump, DumpInv
    <2>3. FreshInv'
      BY <1>0, <1>2, <2>1, <2>2 DEF FreshInv, OwnsFile
    <2>4. Archive!Create(n)
      <3>1. n \notin OldFiles \cup DOMAIN [m \in dir \ OldFiles |-> content[m]]
        BY <1>2 DEF FreshInv
      <3>2. dir' \ OldFiles = (dir \ OldFiles) \cup {n}
        BY <1>2 DEF FreshInv
      <3>3. {m \in dir' : \E u \in Callers : job'[u].name = m
                                             /\ job'[u].step \in {"writing", "closed"}}
            = {m \in dir : \E u \in Callers : job[u].name = m
                                              /\ job[u].step \in {"writing", "closed"}} \cup {n}
        BY <1>0, <1>2, <2>1
      <3>4. [m \in dir' \ OldFiles |-> content'[m]]
            = [m \in DOMAIN [k \in dir \ OldFiles |-> content[k]] \cup {n} |->
                 IF m = n THEN <<>> ELSE [k \in dir \ OldFiles |-> content[k]][m]]
        <4>1. (dir \ OldFiles) \cup {n} = DOMAIN [k \in dir \ OldFiles |-> content[k]] \cup {n}
          OBVIOUS
        <4>2. \A m \in (dir \ OldFiles) \cup {n} :
                content'[m] = IF m = n THEN <<>> ELSE [k \in dir \ OldFiles |-> content[k]][m]
          BY <2>2
        <4>. QED BY <3>2, <4>1, <4>2
      <3>. QED BY <2>2, <3>1, <3>3, <3>4 DEF Archive!Create
    <2>. QED BY <2>3, <2>4 DEF ArchiveStep, Archive!Next
  <1>. QED BY <1>1, <1>2 DEF CreateDump

(* Thread t puts a longer text into its file.                              *)
LEMMA WriteArchive ==
  ASSUME DumpInv, FreshInv, NEW t \in Callers, NEW text,
         job[t].step = "writing", job'[t].step = "writing", job'[t].name = job[t].name,
         \A u \in Callers \ {t} : job'[u] = job[u],
         content' = [content EXCEPT ![job[t].name] = text],
         Archive!Extends(text, content[job[t].name]),
         UNCHANGED <<clock, dir, logged>>
  PROVE  ArchiveStep
  <1> PICK n \in Names : n = job[t].name
    BY DEF DumpInv, DumpTypeOK, Jobs
  <1>1. n \in dir \ OldFiles /\ content \in [Names -> Seq(Characters \cup {HeapByte})]
    BY DEF DumpInv, DumpTypeOK, Jobs, FreshInv, OwnsFile
  <1>2. \A u \in Callers : job'[u].name = job[u].name /\ (OwnsFile(u)' <=> OwnsFile(u))
    BY DEF OwnsFile
  <1>3. FreshInv'
    BY <1>2 DEF FreshInv
  <1>4. Archive!Write(n)
    <2>1. n \in {m \in dir : \E u \in Callers : job[u].name = m
                                               /\ job[u].step \in {"writing", "closed"}}
      BY <1>1
    <2>2. {m \in dir' : \E u \in Callers : job'[u].name = m
                                           /\ job'[u].step \in {"writing", "closed"}}
          = {m \in dir : \E u \in Callers : job[u].name = m
                                            /\ job[u].step \in {"writing", "closed"}}
      BY <1>2 DEF OwnsFile
    <2>3. content'[n] = text /\ \A m \in Names \ {n} : content'[m] = content[m]
      BY <1>1
    <2>4. dir \subseteq Names
      BY DEF DumpInv, DumpTypeOK
    <2>5. DOMAIN [m \in dir' \ OldFiles |-> content'[m]] = dir \ OldFiles
          /\ DOMAIN [m \in dir \ OldFiles |-> content[m]] = dir \ OldFiles
      OBVIOUS
    <2>6. \A m \in (dir \ OldFiles) \ {n} :
            [k \in dir' \ OldFiles |-> content'[k]][m] = [k \in dir \ OldFiles |-> content[k]][m]
      BY <2>3, <2>4
    <2>7. Archive!Extends([k \in dir' \ OldFiles |-> content'[k]][n],
                          [k \in dir \ OldFiles |-> content[k]][n])
      BY <1>1, <2>3
    <2>. QED BY <1>1, <2>1, <2>2, <2>5, <2>6, <2>7 DEF Archive!Write
  <1>. QED BY <1>3, <1>4 DEF ArchiveStep, Archive!Next

LEMMA ExtendsItself == ASSUME NEW text \in Seq(Characters \cup {HeapByte})
                       PROVE  Archive!Extends(text, text)
  <1>1. Len(text) \in Nat
    BY LenProperties
  <1>. QED BY <1>1 DEF Archive!Extends

LEMMA WriteByteArchive ==
  ASSUME DumpInv, FreshInv, NEW t \in Callers, WriteByte(t)
  PROVE  ArchiveStep
  <1> DEFINE n == job[t].name
             c == job[t].data[job[t].done + 1]
             S == Characters \cup {HeapByte}
  <1>1. /\ job[t].step = "writing" /\ job[t] \in Jobs /\ job \in [Callers -> Jobs]
        /\ content[n] \in Seq(S) /\ Len(content[n]) \in Nat
        /\ content = [content EXCEPT ![n] = content[n]]
    BY Writing DEF WriteByte, DumpInv, DumpTypeOK
  <1>2. /\ job'[t].step = "writing" /\ job'[t].name = n
        /\ \A u \in Callers \ {t} : job'[u] = job[u]
    BY <1>1 DEF WriteByte, Jobs
  <1>3. CASE content' = [content EXCEPT ![n] = Append(@, c)]
    <2>1. c \in S
      <3>1. job[t].data \in Payloads /\ job[t].done \in Nat
        BY <1>1, Writing
      <3>. QED BY <3>1, PayloadIsSeq DEF WriteByte
    <2>2. Archive!Extends(Append(content[n], c), content[n])
      BY <1>1, <2>1, AppendProperties DEF Archive!Extends
    <2>3. content' = [content EXCEPT ![n] = Append(content[n], c)]
      BY <1>1, <1>3
    <2>. QED BY <1>1, <1>2, <2>2, <2>3, WriteArchive DEF WriteByte
  <1>4. CASE UNCHANGED content
    BY <1>1, <1>2, <1>4, ExtendsItself, WriteArchive DEF WriteByte
  <1>. QED BY <1>3, <1>4 DEF WriteByte

LEMMA WriteTextArchive ==
  ASSUME DumpInv, FreshInv, NEW t \in Callers, job[t].done = 0 \/ job[t].done = Len(job[t].data),
         WriteText(t)
  PROVE  ArchiveStep
  <1> DEFINE n == job[t].name
             text == Converted(job[t].data)
  <1>1. /\ job[t].step = "writing" /\ job[t] \in Jobs /\ job \in [Callers -> Jobs]
        /\ job[t].data \in Payloads
        /\ content[n] \in Seq(Characters \cup {HeapByte})
        /\ content = [content EXCEPT ![n] = content[n]]
    BY Writing DEF WriteText, DumpInv, DumpTypeOK
  <1>2. /\ job'[t].step = "writing" /\ job'[t].name = n
        /\ \A u \in Callers \ {t} : job'[u] = job[u]
    BY <1>1 DEF WriteText, Jobs
  <1>3. CASE content' = [content EXCEPT ![n] = text]
    <2>1. Len(text) = Len(job[t].data) /\ Len(text) \in Nat
      BY <1>1, ConvertedText, PayloadIsSeq
    <2>2. job[t].done = 0
      BY <2>1 DEF WriteText
    <2>3. /\ Len(content[n]) \in Nat /\ job[t].lost \in Nat
          /\ Len(content[n]) + job[t].lost = 0
      BY <1>1, <2>2, Writing DEF Holds
    <2>4. Len(content[n]) = 0
      BY <2>3
    <2>5. Archive!Extends(text, content[n])
      BY <2>1, <2>4 DEF Archive!Extends
    <2>. QED BY <1>1, <1>2, <1>3, <2>5, WriteArchive DEF WriteText
  <1>4. CASE UNCHANGED content
    BY <1>1, <1>2, <1>4, ExtendsItself, WriteArchive DEF WriteText
  <1>. QED BY <1>3, <1>4 DEF WriteText

LEMMA LogArchive ==
  ASSUME DumpInv, FreshInv, NEW t \in Callers, LogDump(t)
  PROVE  ArchiveStep
  <1>0. job[t] \in Jobs /\ job \in [Callers -> Jobs]
    BY DEF DumpInv, DumpTypeOK
  <1> PICK n \in Names : n = job[t].name
    BY <1>0 DEF Jobs
  <1> PICK d : d = job[t].data
    OBVIOUS
  <1> PICK lost \in Nat : lost = job[t].lost
    BY <1>0 DEF Jobs
  <1> DEFINE new == [name |-> n, data |-> d, lost |-> lost]
  <1>1. CASE job[t].step = "refused" /\ job' = [job EXCEPT ![t].step = "failed"]
             /\ UNCHANGED logged
    <2>1. \A u \in Callers : OwnsFile(u)' => OwnsFile(u) /\ job'[u].name = job[u].name
      BY <1>0, <1>1 DEF OwnsFile, Jobs
    <2>. QED BY <1>1, <2>1, QuietArchive DEF LogDump
  <1>2. CASE /\ job[t].step = "closed"
             /\ job' = [job EXCEPT ![t].step = "logged"]
             /\ logged' = logged \cup {new}
    <2>1. /\ job'[t].step = "logged"
          /\ \A u \in Callers \ {t} : job'[u] = job[u]
      BY <1>0, <1>2 DEF Jobs
    <2>2. /\ n \in dir \ OldFiles /\ d \in Payloads /\ job[t].done = Len(d)
          /\ lost \in Nat /\ lost <= Len(d) /\ Len(d) \in Nat
          /\ \A r \in logged : r.name # n
          /\ \A u \in Callers \ {t} : OwnsFile(u) => job[u].name # n
          /\ Holds(n, d, Len(d), lost)
          /\ content' = content /\ dir' = dir
      BY <1>0, <1>2, PayloadIsSeq DEF DumpInv, DumpTypeOK, FreshInv, OwnsFile, LogDump, Jobs
    <2>3. FreshInv'
      BY <1>0, <1>2, <2>1, <2>2 DEF FreshInv, OwnsFile
    <2>4. Archive!Report(n, d, lost)
      <3>1. n \in {m \in dir : \E u \in Callers : job[u].name = m
                                                 /\ job[u].step \in {"writing", "closed"}}
        BY <1>2, <2>2
      <3>2. {m \in dir' : \E u \in Callers : job'[u].name = m
                                             /\ job'[u].step \in {"writing", "closed"}}
            = {m \in dir : \E u \in Callers : job[u].name = m
                                              /\ job[u].step \in {"writing", "closed"}} \ {n}
        BY <1>2, <2>1, <2>2 DEF OwnsFile
      <3>3. DOMAIN d = 1 .. Len(d)
        BY <2>2, PayloadIsSeq
      <3>. QED BY <1>2, <2>2, <3>1, <3>2, <3>3 DEF Archive!Report, Holds, Narrow
    <2>5. lost \in 0 .. Len(d)
      BY <2>2
    <2>. QED BY <2>2, <2>3, <2>4, <2>5 DEF ArchiveStep, Archive!Next
  <1>. QED BY <1>1, <1>2 DEF LogDump

(* An archive that is kept like that is final.                             *)
LEMMA ArchiveIsFinal ==
  ASSUME DumpInv, FreshInv, ArchiveStep
  PROVE  [Archive!Stays]_(Archive!vars)
  <1> DEFINE F == [n \in dir \ OldFiles |-> content[n]]
             O == {n \in dir : \E t \in Callers :
                     job[t].name = n /\ job[t].step \in {"writing", "closed"}}
  <1>1. SUFFICES ASSUME Archive!Next, NEW r \in logged
                 PROVE  /\ r \in logged'
                        /\ r.name \in DOMAIN F' /\ F'[r.name] = F[r.name]
                        /\ \A s \in logged' : s.name = r.name => s = r
    BY DEF ArchiveStep, Archive!Stays
  <1>2. r.name \in DOMAIN F /\ r.name \notin O
    BY DEF FreshInv, DumpInv, OwnsFile
  <1>3. \A s \in logged : s.name = r.name => s = r
    BY DEF FreshInv
  <1>4. /\ \A n : Archive!Create(n) => /\ F' = [m \in DOMAIN F \cup {n} |-> IF m = n THEN <<>> ELSE F[m]]
                                       /\ n \notin DOMAIN F /\ logged' = logged
        /\ \A n : Archive!Write(n) => /\ n \in O /\ DOMAIN F' = DOMAIN F
                                      /\ \A m \in DOMAIN F \ {n} : F'[m] = F[m]
                                      /\ logged' = logged
        /\ \A n, d, lost : Archive!Report(n, d, lost) =>
             /\ n \in O /\ F' = F
             /\ logged' = logged \cup {[name |-> n, data |-> d, lost |-> lost]}
        /\ Archive!Abandon => F' = F /\ logged' = logged
    BY DEF Archive!Create, Archive!Write, Archive!Report, Archive!Abandon
  <1> HIDE DEF F, O
  <1>5. ASSUME NEW n, Archive!Create(n) PROVE r.name \in DOMAIN F' /\ F'[r.name] = F[r.name]
    BY <1>2, <1>4, <1>5
  <1>6. ASSUME NEW n, Archive!Write(n) PROVE r.name \in DOMAIN F' /\ F'[r.name] = F[r.name]
    BY <1>2, <1>4, <1>6
  <1>7. ASSUME NEW n, NEW d, NEW lost, Archive!Report(n, d, lost)
        PROVE  /\ r \in logged'
               /\ r.name \in DOMAIN F' /\ F'[r.name] = F[r.name]
               /\ \A s \in logged' : s.name = r.name => s = r
    BY <1>2, <1>3, <1>4, <1>7
  <1>8. CASE \E n \in Names : Archive!Create(n)
    BY <1>3, <1>4, <1>5, <1>8
  <1>9. CASE \E n \in Names : Archive!Write(n)
    BY <1>3, <1>4, <1>6, <1>9
  <1>10. CASE Archive!Abandon
    BY <1>2, <1>3, <1>4, <1>10
  <1>. QED BY <1>1, <1>7, <1>8, <1>9, <1>10 DEF Archive!Next
=============================================================================
