------------------------------ MODULE DumpArchive -------------------------------
(***************************************************************************)
(* What whoever reads the dump directory and the log may rely on, with no  *)
(* threads, clock or steps of a detour: a dump is a new file, it only      *)
(* grows, and once it is reported it holds what was to be dumped and is    *)
(* never touched again.  DumpFile implements this in both of the hooks     *)
(* that are composed with it.                                              *)
(***************************************************************************)
EXTENDS Naturals, Sequences

CONSTANTS
  Files,  \* names of files
  Kept,   \* the files of earlier runs
  Data,   \* what may be dumped
  Lossy   \* characters that a file cannot hold

VARIABLES
  files,    \* the content of each dump, by its name
  open,     \* dumps that are being written
  reported  \* the dumps that the log tells of

vars == <<files, open, reported>>

Init ==
  /\ files = [n \in {} |-> <<>>]
  /\ open = {}
  /\ reported = {}

Create(n) ==
  /\ n \notin Kept \cup DOMAIN files
  /\ files' = [m \in DOMAIN files \cup {n} |-> IF m = n THEN <<>> ELSE files[m]]
  /\ open' = open \cup {n}
  /\ UNCHANGED reported

Extends(longer, text) ==
  /\ Len(text) <= Len(longer)
  /\ \A k \in 1 .. Len(text) : longer[k] = text[k]

Write(n) ==
  /\ n \in open
  /\ DOMAIN files' = DOMAIN files
  /\ \A m \in DOMAIN files \ {n} : files'[m] = files[m]
  /\ Extends(files'[n], files[n])
  /\ UNCHANGED <<open, reported>>

(* What is missing of a reported dump was lost on the way to the disk.     *)
Report(n, d, lost) ==
  /\ n \in open
  /\ Len(files[n]) + lost = Len(d)
  /\ lost = 0 /\ (\A k \in 1 .. Len(d) : d[k] \notin Lossy) =>
       \A k \in 1 .. Len(d) : files[n][k] = d[k]
  /\ open' = open \ {n}
  /\ reported' = reported \cup {[name |-> n, data |-> d, lost |-> lost]}
  /\ UNCHANGED files

(* The writers die, and nobody reports what they wrote.                    *)
Abandon ==
  /\ open' \subseteq open
  /\ UNCHANGED <<files, reported>>

Next ==
  \/ \E n \in Files : Create(n) \/ Write(n)
  \/ \E n \in Files, d \in Data : \E lost \in 0 .. Len(d) : Report(n, d, lost)
  \/ Abandon

Spec == Init /\ [][Next]_vars

(* A dump that was reported is never changed, taken back or reported again *)
(* as something else.                                                      *)
Stays ==
  \A r \in reported :
    /\ r \in reported'
    /\ r.name \in DOMAIN files' /\ files'[r.name] = files[r.name]
    /\ \A s \in reported' : s.name = r.name => s = r
Final == [][Stays]_vars
=============================================================================
