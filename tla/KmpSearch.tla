------------------------------ MODULE KmpSearch -------------------------------
(***************************************************************************)
(* The byte search with which HookClr.dll finds the function to hook       *)
(* inside vbscript.dll and jscript.dll (HookClr/kmp.cpp).  KMPSearch and   *)
(* KMPSearchWild are the same two loops up to the comparison of two bytes, *)
(* so they are one specification: Wildcards is {} for the former and       *)
(* {WILDCARD} for the latter.                                              *)
(*                                                                         *)
(* Patterns and texts are functions from 0, like the arrays of the code.   *)
(* malloc(M) gives the table M bytes, and computeLPSArray writes M ints:   *)
(* lps has all M entries, Behind says which of them lie behind the block.  *)
(* Whose memory that is nobody knows.  While it is left alone the entries  *)
(* keep their values; once another thread of the target has used it, or    *)
(* the heap has looked at it, the search is in no defined state.           *)
(***************************************************************************)
EXTENDS Integers

CONSTANTS Byte,        \* the bytes that occur
          Wildcards,   \* the bytes that stand for any byte in a pattern
          MaxPat,      \* bound: bytes in a pattern
          MaxTxt       \* bound: bytes in a text

ASSUME WildcardAssumption == Wildcards \subseteq Byte
ASSUME SizeAssumption == MaxPat \in Nat \ {0} /\ MaxTxt \in Nat

VARIABLES
  pat, M,   \* the pattern and its length; every caller has one of 2 or 8 bytes
  txt, N,   \* the text and its length; a section may be empty
  pc,       \* "table" (computeLPSArray), "scan" (KMPSearch), "done" or "undefined"
  lps,      \* the table of borders, behind its block as well as in it
  len,      \* local of computeLPSArray
  i, j,     \* locals of both functions
  result    \* the value returned

vars == <<pat, M, txt, N, pc, lps, len, i, j, result>>
input == <<pat, M, txt, N>>

Unset == -1      \* an entry of the malloc'ed table that was not written
NotFound == -1
IntSize == 4     \* sizeof(int)

(* Entry k does not lie within the M bytes that were asked for.            *)
Behind(k) == IntSize * (k + 1) > M

Init ==
  /\ M \in 1 .. MaxPat
  /\ N \in 0 .. MaxTxt
  /\ pat \in [0 .. M - 1 -> Byte]
  /\ txt \in [0 .. N - 1 -> Byte]
  /\ pc = "table"
  /\ lps = [k \in 0 .. M - 1 |-> IF k = 0 THEN 0 ELSE Unset]
  /\ len = 0
  /\ i = 1
  /\ j = 0
  /\ result = NotFound

(* The comparison of two bytes of the pattern, and of the pattern with the *)
(* text, as the first test of each loop makes it.                          *)
SameInPattern(a, b) == a = b \/ a \in Wildcards \/ b \in Wildcards
SameAsText(a, b)    == a = b \/ a \in Wildcards

-----------------------------------------------------------------------------
(* One iteration of the loop of computeLPSArray                            *)

ExtendBorder ==
  /\ pc = "table" /\ i < M
  /\ SameInPattern(pat[i], pat[len])
  /\ len' = len + 1
  /\ lps' = [lps EXCEPT ![i] = len + 1]
  /\ i' = i + 1
  /\ UNCHANGED <<input, pc, j, result>>

ShortenBorderByOne ==
  /\ pc = "table" /\ i < M
  /\ ~SameInPattern(pat[i], pat[len])
  /\ len # 0
  /\ len' = len - 1
  /\ UNCHANGED <<input, pc, lps, i, j, result>>
ShortenBorder ==
  /\ pc = "table" /\ i < M
  /\ ~SameInPattern(pat[i], pat[len])
  /\ len # 0
  /\ len' = lps[len - 1]
  /\ UNCHANGED <<input, pc, lps, i, j, result>>

NoBorderUnset ==
  /\ pc = "table" /\ i < M
  /\ ~SameInPattern(pat[i], pat[len])
  /\ len = 0
  /\ i' = i + 1
  /\ UNCHANGED <<input, pc, lps, len, j, result>>
NoBorder ==
  /\ pc = "table" /\ i < M
  /\ ~SameInPattern(pat[i], pat[len])
  /\ len = 0
  /\ lps' = [lps EXCEPT ![i] = 0]
  /\ i' = i + 1
  /\ UNCHANGED <<input, pc, len, j, result>>

TableDone ==
  /\ pc = "table" /\ i >= M
  /\ pc' = "scan"
  /\ i' = 0
  /\ UNCHANGED <<input, lps, len, j, result>>

-----------------------------------------------------------------------------
(* One iteration of the loop of KMPSearch: the first test may advance both *)
(* indices, and the second looks at the indices so advanced.               *)

Hit   == SameAsText(pat[j], txt[i])
NextI == IF Hit THEN i + 1 ELSE i
NextJ == IF Hit THEN j + 1 ELSE j
Clash == NextI < N /\ pat[NextJ] # txt[NextI]

Scanning == pc = "scan" /\ i < N

ReturnMatch ==
  /\ Scanning
  /\ NextJ = M
  /\ result' = NextI - NextJ
  /\ pc' = "done"
  /\ i' = NextI
  /\ j' = NextJ
  /\ UNCHANGED <<input, lps, len>>

Advance ==
  /\ Scanning
  /\ NextJ # M /\ ~Clash
  /\ i' = NextI
  /\ j' = NextJ
  /\ UNCHANGED <<input, pc, lps, len, result>>

ShiftPatternToZero ==
  /\ Scanning
  /\ NextJ # M /\ Clash
  /\ j' = 0
  /\ i' = IF NextJ # 0 THEN NextI ELSE NextI + 1
  /\ UNCHANGED <<input, pc, lps, len, result>>
ShiftPatternStays ==
  /\ Scanning
  /\ NextJ # M /\ Clash
  /\ j' = IF NextJ # 0 THEN lps[NextJ - 1] ELSE NextJ
  /\ i' = NextI
  /\ UNCHANGED <<input, pc, lps, len, result>>
ShiftPatternRestarts ==
  /\ Scanning
  /\ NextJ # M /\ Clash
  /\ j' = 0
  /\ i' = NextI - NextJ + 1
  /\ UNCHANGED <<input, pc, lps, len, result>>
ShiftPattern ==
  /\ Scanning
  /\ NextJ # M /\ Clash
  /\ IF NextJ # 0
     THEN j' = lps[NextJ - 1] /\ i' = NextI
     ELSE j' = NextJ /\ i' = NextI + 1
  /\ UNCHANGED <<input, pc, lps, len, result>>

ReturnNotFound ==
  /\ pc = "scan" /\ i >= N
  /\ pc' = "done"
  /\ result' = NotFound
  /\ UNCHANGED <<input, lps, len, i, j>>

-----------------------------------------------------------------------------
(* Somebody else uses the heap where the search has written behind its     *)
(* block: the entries change under it, or the process ends.                *)
HeapIsUsed ==
  /\ pc \in {"table", "scan"}
  /\ \E k \in 0 .. M - 1 : lps[k] # Unset /\ Behind(k)
  /\ pc' = "undefined"
  /\ UNCHANGED <<input, lps, len, i, j, result>>

Step ==
  \/ ExtendBorder \/ ShortenBorder \/ NoBorder \/ TableDone
  \/ ReturnMatch \/ Advance \/ ShiftPattern \/ ReturnNotFound

Next == Step \/ HeapIsUsed

Spec == Init /\ [][Next]_vars
FairSpec == Spec /\ WF_vars(Step)

-----------------------------------------------------------------------------
(* Reference definitions                                                   *)

Occurs(p) == \A k \in 0 .. M - 1 : SameAsText(pat[k], txt[p + k])

(* The first b of the first n bytes of f are also the last b of those n.   *)
Border(f, n, b) == \A k \in 0 .. b - 1 : f[k] = f[n - b + k]
LongestBorder(f, n, b) ==
  /\ b \in 0 .. n - 1
  /\ Border(f, n, b)
  /\ \A c \in b + 1 .. n - 1 : ~Border(f, n, c)

-----------------------------------------------------------------------------
(* Properties                                                              *)

(* The indices stay in the pattern, in the text and among the M entries    *)
(* that the table is meant to have, and every entry read has been written. *)
(* It does not say that these entries lie in the table's block, which      *)
(* TableLeavesBlock denies.                                                *)
TypeOK ==
  /\ M \in 1 .. MaxPat /\ N \in 0 .. MaxTxt
  /\ pat \in [0 .. M - 1 -> Byte] /\ txt \in [0 .. N - 1 -> Byte]
  /\ pc \in {"table", "scan", "done", "undefined"}
  /\ lps \in [0 .. M - 1 -> Unset .. M - 1]
  /\ len \in 0 .. M - 1
  /\ i \in 0 .. M \cup 0 .. N
  /\ j \in 0 .. M
  /\ result \in NotFound .. N

(* What computeLPSArray has filled in is, for each prefix of the pattern,  *)
(* the length of its longest proper border.                                *)
TableCorrect ==
  LET filled == IF pc = "table" THEN i ELSE M
  IN  pc # "undefined" => \A k \in 0 .. filled - 1 : LongestBorder(pat, k + 1, lps[k])

(* The whole part of the table that is behind its block is written before  *)
(* the scan begins, whatever the pattern: all but a quarter of it.  So no  *)
(* search has a scan that another user of the heap could not disturb, and  *)
(* no pattern is short enough or of a kind to stay within its block.       *)
TableLeavesBlock ==
  pc \in {"scan", "done"} =>
    /\ \A k \in 0 .. M - 1 : Behind(k) => lps[k] # Unset
    /\ \E k \in 0 .. M - 1 : Behind(k)

(* KMPSearch returns the offset of the first occurrence, and -1 when there *)
(* is none: HookVbScript and HookJScript patch the target of the call      *)
(* found there, so an earlier or a false match patches other code.         *)
ResultIsFirst ==
  pc = "done" =>
    IF result = NotFound
    THEN \A p \in 0 .. N - M : ~Occurs(p)
    ELSE /\ result \in 0 .. N - M
         /\ Occurs(result)
         /\ \A p \in 0 .. result - 1 : ~Occurs(p)

(* The comment on the second pair of functions: "wildcard kmp".            *)
WildcardSearch == ResultIsFirst

(* Every iteration of the scan makes progress: 2i - j grows, so that a     *)
(* section of N bytes takes at most 2N iterations.                         *)
ScanProgress == [][Scanning => 2 * i' - j' > 2 * i - j \/ pc' # "scan"]_vars

(* The search ends, in an answer or because somebody else used the heap.   *)
Terminates == <>(pc \in {"done", "undefined"})
=============================================================================
