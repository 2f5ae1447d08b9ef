------------------------------ MODULE KmpProofs -------------------------------
(* KMPSearch is correct, for every pattern and every text.                 *)
EXTENDS KmpSearch, TLAPS

-----------------------------------------------------------------------------
(* Borders                                                                 *)

(* A border of a border is a border.                                       *)
LEMMA BorderOfBorder ==
  ASSUME NEW f, NEW n \in Nat, NEW b \in 0 .. n, NEW c \in 0 .. b, Border(f, n, b), Border(f, b, c)
  PROVE  Border(f, n, c)
  <1> SUFFICES ASSUME NEW k \in 0 .. c - 1 PROVE f[k] = f[n - c + k]
    BY DEF Border
  <1>1. f[k] = f[b - c + k]
    BY DEF Border
  <1>2. b - c + k \in 0 .. b - 1 /\ n - b + (b - c + k) = n - c + k
    OBVIOUS
  <1>3. f[b - c + k] = f[n - b + (b - c + k)]
    BY <1>2 DEF Border
  <1>. QED BY <1>1, <1>2, <1>3

(* Of two borders of a prefix the shorter is a border of the longer.       *)
LEMMA BorderWithin ==
  ASSUME NEW f, NEW n \in Nat, NEW b \in 0 .. n, NEW c \in 0 .. b, Border(f, n, b), Border(f, n, c)
  PROVE  Border(f, b, c)
  <1> SUFFICES ASSUME NEW k \in 0 .. c - 1 PROVE f[k] = f[b - c + k]
    BY DEF Border
  <1>1. f[k] = f[n - c + k]
    BY DEF Border
  <1>2. b - c + k \in 0 .. b - 1 /\ n - b + (b - c + k) = n - c + k
    OBVIOUS
  <1>3. f[b - c + k] = f[n - b + (b - c + k)]
    BY <1>2 DEF Border
  <1>. QED BY <1>1, <1>2, <1>3

(* A border of the next prefix extends a border of this one by a byte.     *)
LEMMA BorderExtends ==
  ASSUME NEW f, NEW n \in Nat, NEW b \in 0 .. n
  PROVE  Border(f, n + 1, b + 1) <=> Border(f, n, b) /\ f[b] = f[n]
  <1>1. ASSUME Border(f, n + 1, b + 1) PROVE Border(f, n, b) /\ f[b] = f[n]
    <2>1. \A k \in 0 .. b : f[k] = f[(n + 1) - (b + 1) + k]
      BY <1>1 DEF Border
    <2>2. \A k \in 0 .. b : (n + 1) - (b + 1) + k = n - b + k
      OBVIOUS
    <2>3. \A k \in 0 .. b : f[k] = f[n - b + k]
      BY <2>1, <2>2
    <2>. QED BY <2>3 DEF Border
  <1>2. ASSUME Border(f, n, b), f[b] = f[n] PROVE Border(f, n + 1, b + 1)
    <2> SUFFICES ASSUME NEW k \in 0 .. (b + 1) - 1
                 PROVE  f[k] = f[(n + 1) - (b + 1) + k]
      BY DEF Border
    <2>1. (n + 1) - (b + 1) + k = n - b + k /\ (k \in 0 .. b - 1 \/ k = b)
      OBVIOUS
    <2>. QED BY <1>2, <2>1 DEF Border
  <1>. QED BY <1>1, <1>2

-----------------------------------------------------------------------------
(* Type correctness                                                        *)

Filled(n) == \A k \in 0 .. n - 1 : lps[k] \in 0 .. k

IndexInv ==
  /\ TypeOK
  /\ pc = "table" => i \in 1 .. M /\ len \in 0 .. i - 1 /\ Filled(i) /\ j = 0
  /\ pc = "scan"  => i \in 0 .. N /\ j \in 0 .. M - 1 /\ j <= i
  /\ pc \in {"scan", "done"} => Filled(M)

LEMMA IndexInit == Init => IndexInv
  BY SizeAssumption DEF Init, IndexInv, TypeOK, Filled, Unset, NotFound

LEMMA IndexStep == IndexInv /\ [Next]_vars => IndexInv'
  <1> SUFFICES ASSUME IndexInv, [Next]_vars PROVE IndexInv'
    OBVIOUS
  <1> USE SizeAssumption DEF IndexInv, TypeOK, Filled, Unset, NotFound, input
  <1>1. CASE ExtendBorder
    BY <1>1 DEF ExtendBorder
  <1>2. CASE ShortenBorder
    BY <1>2 DEF ShortenBorder
  <1>3. CASE NoBorder
    BY <1>3 DEF NoBorder
  <1>4. CASE TableDone
    BY <1>4 DEF TableDone
  <1>5. CASE ReturnMatch
    BY <1>5 DEF ReturnMatch, Scanning, NextI, NextJ
  <1>6. CASE Advance
    BY <1>6 DEF Advance, Scanning, NextI, NextJ
  <1>7. CASE ShiftPattern
    <2>1. NextJ \in 0 .. M - 1 /\ NextI \in 0 .. N - 1 /\ NextJ <= NextI
      BY <1>7 DEF ShiftPattern, Scanning, NextI, NextJ, Clash
    <2>2. CASE NextJ # 0
      <3>1. lps[NextJ - 1] \in 0 .. NextJ - 1
        BY <1>7, <2>1, <2>2 DEF ShiftPattern, Scanning
      <3>. QED BY <1>7, <2>1, <2>2, <3>1 DEF ShiftPattern, Scanning
    <2>3. CASE NextJ = 0
      BY <1>7, <2>1, <2>3 DEF ShiftPattern, Scanning
    <2>. QED BY <2>2, <2>3
  <1>8. CASE ReturnNotFound
    BY <1>8 DEF ReturnNotFound
  <1>9. CASE UNCHANGED vars
    BY <1>9 DEF vars
  <1>10. CASE HeapIsUsed
    BY <1>10 DEF HeapIsUsed
  <1>. QED
    BY <1>1, <1>2, <1>3, <1>4, <1>5, <1>6, <1>7, <1>8, <1>9, <1>10 DEF Next, Step

LEMMA IndexInvariant == Spec => []IndexInv
  BY IndexInit, IndexStep, PTL DEF Spec

(* The indices stay in the pattern, in the text and among the M entries of *)
(* the table, and no entry is read that was not written, with or without   *)
(* wildcards, as long as nobody uses what is behind the table's block.     *)
THEOREM SearchTyped == Spec => []TypeOK
  <1>1. IndexInv => TypeOK
    BY DEF IndexInv
  <1>. QED BY <1>1, IndexInvariant, PTL

(* Every table leaves the block malloc(M) gave it: it has entries behind   *)
(* it, and all of them are written before the scan begins.                 *)
THEOREM BlockIsLeft == Spec => []TableLeavesBlock
  <1>1. IndexInv => TableLeavesBlock
    <2> SUFFICES ASSUME IndexInv, pc \in {"scan", "done"}
                 PROVE  /\ \A k \in 0 .. M - 1 : lps[k] # Unset
                        /\ M - 1 \in 0 .. M - 1 /\ Behind(M - 1)
      BY DEF TableLeavesBlock
    <2>1. M \in Nat \ {0} /\ Filled(M)
      BY SizeAssumption DEF IndexInv, TypeOK
    <2>. QED BY <2>1 DEF Filled, Unset, Behind, IntSize
  <1>. QED BY <1>1, IndexInvariant, PTL

(* Each iteration of the scan makes progress.                              *)
THEOREM SearchProgresses == Spec => ScanProgress
  <1>1. IndexInv /\ [Next]_vars => [Scanning => 2 * i' - j' > 2 * i - j \/ pc' # "scan"]_vars
    <2> SUFFICES ASSUME IndexInv, Next, Scanning, pc' = "scan"
                 PROVE  2 * i' - j' > 2 * i - j
      OBVIOUS
    <2>1. i \in 0 .. N /\ N \in Nat /\ j \in 0 .. M - 1 /\ M \in Nat /\ j <= i /\ Filled(M)
      BY SizeAssumption DEF IndexInv, TypeOK, Scanning
    <2>2. CASE Advance
      <3>1. Hit
        BY <2>1, <2>2 DEF Advance, Clash, Hit, NextI, NextJ, SameAsText, Scanning
      <3>. QED BY <2>1, <2>2, <3>1 DEF Advance, NextI, NextJ
    <2>3. CASE ShiftPattern
      BY <2>1, <2>3 DEF ShiftPattern, NextI, NextJ, Filled
    <2>. QED BY <2>2, <2>3 DEF Next, Step, ExtendBorder, ShortenBorder, NoBorder, TableDone,
                ReturnMatch, ReturnNotFound, HeapIsUsed, Scanning
  <1>. QED BY <1>1, IndexInvariant, PTL DEF Spec, ScanProgress

-----------------------------------------------------------------------------
(* The table.  While entry i is computed, len is a border of the first i   *)
(* bytes and no longer border of them can be extended by byte i.           *)

Extendable(c) == Border(pat, i, c) /\ pat[c] = pat[i]

TableInv ==
  /\ TableCorrect
  /\ pc = "table" => /\ Border(pat, i, len)
                     /\ \A c \in 0 .. i - 1 : i < M /\ Extendable(c) => c <= len

LEMMA EmptyBorder == \A f, n : Border(f, n, 0)
  BY DEF Border

LEMMA TableStart == Wildcards = {} /\ Init => TableInv
  BY SizeAssumption, EmptyBorder DEF Init, TableInv, TableCorrect, LongestBorder, Border

(* Once entry i is final, its value is the length to extend next.          *)
LEMMA EntryFinal ==
  ASSUME NEW l \in Nat, len' = l, IndexInv, TableInv, pc = "table", pc' = "table", i < M, UNCHANGED <<pat, M>>,
         i' = i + 1, lps' = [lps EXCEPT ![i] = l], LongestBorder(pat, i + 1, l)
  PROVE  TableInv'
  <1>1. M \in Nat /\ i \in 1 .. M - 1 /\ lps \in [0 .. M - 1 -> Int]
    BY SizeAssumption DEF IndexInv, TypeOK, Unset
  <1>2. TableCorrect'
    <2> SUFFICES ASSUME NEW k \in 0 .. i PROVE LongestBorder(pat, k + 1, lps[k])'
      BY <1>1 DEF TableCorrect
    <2>1. CASE k = i
      BY <1>1, <2>1
    <2>2. CASE k # i
      <3>1. lps'[k] = lps[k] /\ k \in 0 .. i - 1
        BY <1>1, <2>2
      <3>2. LongestBorder(pat, k + 1, lps[k])
        BY <3>1 DEF TableInv, TableCorrect
      <3>. QED BY <3>1, <3>2
    <2>. QED BY <2>1, <2>2
  <1>3. Border(pat, i, len)'
    BY <1>1 DEF LongestBorder
  <1>4. ASSUME NEW c \in 0 .. i, Border(pat, i + 1, c) PROVE c <= l
    BY <1>1, <1>4 DEF LongestBorder
  <1>5. \A c \in 0 .. i' - 1 : (i < M)' /\ Extendable(c)' => c <= len'
    BY <1>1, <1>4 DEF Extendable
  <1>. QED BY <1>2, <1>3, <1>5 DEF TableInv

LEMMA TableStep == Wildcards = {} /\ IndexInv /\ TableInv /\ [Next]_vars => TableInv'
  <1> SUFFICES ASSUME Wildcards = {}, IndexInv, TableInv, [Next]_vars PROVE TableInv'
    OBVIOUS
  <1>1. M \in Nat \ {0} /\ i \in Nat
    BY SizeAssumption DEF IndexInv, TypeOK
  <1>2. CASE ExtendBorder
    <2>1. /\ i \in 1 .. M - 1 /\ len \in 0 .. i - 1
          /\ pat[i] = pat[len] /\ Border(pat, i, len)
          /\ \A c \in 0 .. i - 1 : Extendable(c) => c <= len
      BY <1>1, <1>2 DEF ExtendBorder, IndexInv, TableInv, SameInPattern
    <2>2. Border(pat, i + 1, len + 1)
      BY <2>1, BorderExtends
    <2>3. ASSUME NEW c \in len + 2 .. i, Border(pat, i + 1, c) PROVE FALSE
      <3> DEFINE d == c - 1
      <3>1. d \in 0 .. i - 1 /\ c = d + 1 /\ d > len
        BY <2>1
      <3>2. Border(pat, i, d) /\ pat[d] = pat[i]
        BY <2>1, <2>3, <3>1, BorderExtends
      <3> HIDE DEF d
      <3>. QED BY <2>1, <3>1, <3>2 DEF Extendable
    <2>4. LongestBorder(pat, i + 1, len + 1)
      BY <1>2, <2>1, <2>2, <2>3 DEF LongestBorder
    <2>5. /\ len + 1 \in Nat /\ len' = len + 1 /\ i' = i + 1 /\ i < M /\ UNCHANGED <<pat, M>>
          /\ lps' = [lps EXCEPT ![i] = len + 1] /\ pc = "table" /\ pc' = "table"
      BY <1>2, <2>1 DEF ExtendBorder, input
    <2>. QED BY <2>4, <2>5, EntryFinal
  <1>3. CASE ShortenBorder
    <2>1. /\ i \in 1 .. M - 1 /\ len \in 1 .. i - 1
          /\ pat[i] # pat[len] /\ Border(pat, i, len)
          /\ \A c \in 0 .. i - 1 : Extendable(c) => c <= len
      BY <1>1, <1>3 DEF ShortenBorder, IndexInv, TableInv, SameInPattern
    <2>2. PICK l \in 0 .. len - 1 : /\ len' = l /\ Border(pat, len, l)
                                    /\ \A c \in l + 1 .. len - 1 : ~Border(pat, len, c)
      <3>1. LongestBorder(pat, (len - 1) + 1, lps[len - 1]) /\ (len - 1) + 1 = len
        BY <2>1, <1>3 DEF TableInv, TableCorrect, ShortenBorder
      <3>. QED BY <1>3, <2>1, <3>1 DEF LongestBorder, ShortenBorder
    <2>4. Border(pat, i, l)
      BY <2>1, <2>2, BorderOfBorder
    <2>5. ASSUME NEW c \in 0 .. i - 1, Extendable(c) PROVE c <= l
      <3>1. c < len
        BY <2>1, <2>5 DEF Extendable
      <3>2. Border(pat, len, c)
        BY <2>1, <2>5, <3>1, BorderWithin DEF Extendable
      <3>. QED BY <2>1, <2>2, <2>5, <3>1, <3>2
    <2>6. TableCorrect'
      BY <1>3 DEF ShortenBorder, input, TableInv, TableCorrect
    <2>7. Border(pat, i, len)' /\ \A c \in 0 .. i' - 1 : Extendable(c)' => c <= len'
      BY <1>3, <2>2, <2>4, <2>5 DEF ShortenBorder, input, Extendable
    <2>. QED BY <2>6, <2>7 DEF TableInv
  <1>4. CASE NoBorder
    <2>1. /\ i \in 1 .. M - 1 /\ len = 0
          /\ pat[i] # pat[0]
          /\ \A c \in 0 .. i - 1 : Extendable(c) => c <= 0
      BY <1>1, <1>4 DEF NoBorder, IndexInv, TableInv, SameInPattern
    <2>2. ASSUME NEW c \in 1 .. i, Border(pat, i + 1, c) PROVE FALSE
      <3> DEFINE d == c - 1
      <3>1. d \in 0 .. i - 1 /\ c = d + 1
        BY <2>1
      <3>2. Border(pat, i, d) /\ pat[d] = pat[i]
        BY <2>1, <2>2, <3>1, BorderExtends
      <3> HIDE DEF d
      <3>. QED BY <2>1, <3>1, <3>2 DEF Extendable
    <2>3. LongestBorder(pat, i + 1, 0)
      BY <1>1, <2>2, EmptyBorder DEF LongestBorder
    <2>. QED BY <1>4, <2>1, <2>3, EntryFinal DEF NoBorder, input
  <1>5. CASE TableDone
    <2>1. i = M
      BY <1>1, <1>5 DEF TableDone, IndexInv
    <2>. QED BY <1>5, <2>1 DEF TableDone, input, TableInv, TableCorrect
  <1>6. CASE ReturnMatch \/ Advance \/ ShiftPattern \/ ReturnNotFound
    BY <1>6 DEF ReturnMatch, Advance, ShiftPattern, ReturnNotFound, Scanning,
       input, TableInv, TableCorrect
  <1>7. CASE UNCHANGED vars
    BY <1>7 DEF vars, TableInv, TableCorrect, Extendable
  <1>8. CASE HeapIsUsed
    BY <1>8 DEF HeapIsUsed, TableInv, TableCorrect
  <1>. QED BY <1>2, <1>3, <1>4, <1>5, <1>6, <1>7, <1>8 DEF Next, Step

(* computeLPSArray computes the longest border of every prefix.            *)
THEOREM TableIsCorrect ==
  ASSUME Wildcards = {}
  PROVE  Spec => []TableCorrect
  <1>1. Init => TableInv
    BY TableStart
  <1>2. IndexInv /\ TableInv /\ [Next]_vars => TableInv'
    BY TableStep
  <1>3. TableInv => TableCorrect
    BY DEF TableInv
  <1>. QED BY <1>1, <1>2, <1>3, IndexInvariant, PTL DEF Spec

-----------------------------------------------------------------------------
(* The scan.  The first j bytes of the pattern are the j bytes of the text *)
(* before i, and the pattern does not occur at any offset before them.     *)

Aligned(ti, pj) ==
  /\ \A k \in 0 .. pj - 1 : pat[k] = txt[ti - pj + k]
  /\ \A p \in 0 .. ti - pj - 1 : p <= N - M => ~Occurs(p)

ScanInv ==
  /\ pc = "scan" => Aligned(i, j)
  /\ ResultIsFirst

ScanTypes == /\ M \in Nat \ {0} /\ N \in Nat /\ i \in 0 .. N /\ j \in 0 .. M - 1 /\ j <= i
             /\ Filled(M) /\ Wildcards = {}

(* The first test of an iteration keeps the alignment.                     *)
LEMMA HitAligned ==
  ASSUME ScanTypes, i < N, Aligned(i, j)
  PROVE  Aligned(NextI, NextJ) /\ NextJ \in 0 .. M /\ NextI \in 0 .. N /\ NextJ <= NextI
  <1>1. CASE Hit
    <2>1. pat[j] = txt[i] /\ NextI = i + 1 /\ NextJ = j + 1
      BY <1>1 DEF Hit, SameAsText, ScanTypes, NextI, NextJ
    <2>2. (i + 1) - (j + 1) = i - j /\ i - j + j = i
      BY DEF ScanTypes
    <2>3. ASSUME NEW k \in 0 .. j PROVE pat[k] = txt[i - j + k]
      <3>1. CASE k = j
        BY <2>1, <2>2, <3>1
      <3>2. CASE k # j
        <4>1. k \in 0 .. j - 1
          BY <2>3, <3>2 DEF ScanTypes
        <4>. QED BY <4>1 DEF Aligned
      <3>. QED BY <3>1, <3>2
    <2>4. \A k \in 0 .. (j + 1) - 1 : pat[k] = txt[(i + 1) - (j + 1) + k]
      <3>1. (j + 1) - 1 = j
        BY DEF ScanTypes
      <3>. QED BY <2>2, <2>3, <3>1
    <2>5. Aligned(i + 1, j + 1)
      BY <2>2, <2>4 DEF Aligned
    <2>. QED BY <2>1, <2>5 DEF ScanTypes
  <1>2. CASE ~Hit
    BY <1>2 DEF ScanTypes, NextI, NextJ
  <1>. QED BY <1>1, <1>2

(* An occurrence that overlaps the aligned bytes makes a border of them.   *)
LEMMA OverlapIsBorder ==
  ASSUME ScanTypes, NEW ti \in 0 .. N, NEW pj \in 1 .. M - 1, pj <= ti, Aligned(ti, pj),
         NEW c \in 0 .. pj, Occurs(ti - c)
  PROVE  Border(pat, pj, c) /\ pat[c] = txt[ti]
  <1>1. ASSUME NEW k \in 0 .. c - 1 PROVE pat[k] = pat[pj - c + k]
    <2>1. k \in 0 .. M - 1 /\ pj - c + k \in 0 .. pj - 1
          /\ ti - pj + (pj - c + k) = (ti - c) + k
      BY <1>1 DEF ScanTypes
    <2>2. pat[k] = txt[(ti - c) + k]
      BY <2>1 DEF Occurs, SameAsText, ScanTypes
    <2>3. pat[pj - c + k] = txt[ti - pj + (pj - c + k)]
      BY <2>1 DEF Aligned
    <2>. QED BY <2>1, <2>2, <2>3
  <1>2. c \in 0 .. M - 1 /\ (ti - c) + c = ti
    BY DEF ScanTypes
  <1>3. pat[c] = txt[(ti - c) + c]
    BY <1>2 DEF Occurs, SameAsText, ScanTypes
  <1>. QED BY <1>1, <1>2, <1>3 DEF Border

(* Shifting the pattern by the table skips no occurrence.                  *)
LEMMA ShiftAligned ==
  ASSUME ScanTypes, NEW ti \in 0 .. N - 1, NEW pj \in 1 .. M - 1, pj <= ti, Aligned(ti, pj),
         pat[pj] # txt[ti], NEW l, LongestBorder(pat, pj, l)
  PROVE  Aligned(ti, l)
  <1>1. l \in 0 .. pj - 1 /\ Border(pat, pj, l)
        /\ \A c \in l + 1 .. pj - 1 : ~Border(pat, pj, c)
    BY DEF LongestBorder
  <1>2. ASSUME NEW k \in 0 .. l - 1 PROVE pat[k] = txt[ti - l + k]
    <2>1. k \in 0 .. pj - 1 /\ pj - l + k \in 0 .. pj - 1
          /\ ti - pj + (pj - l + k) = ti - l + k
      BY <1>1, <1>2 DEF ScanTypes
    <2>2. pat[k] = pat[pj - l + k]
      BY <1>1, <1>2 DEF Border
    <2>3. pat[pj - l + k] = txt[ti - pj + (pj - l + k)]
      BY <2>1 DEF Aligned
    <2>. QED BY <2>1, <2>2, <2>3
  <1>3. ASSUME NEW p \in 0 .. ti - l - 1, p <= N - M, Occurs(p) PROVE FALSE
    <2>1. CASE p <= ti - pj - 1
      <3>1. p \in 0 .. ti - pj - 1
        BY <1>3, <2>1
      <3>. QED BY <1>3, <3>1 DEF Aligned
    <2>2. CASE ~(p <= ti - pj - 1)
      <3>1. PICK c \in l + 1 .. pj : p = ti - c
        <4>1. ti - p \in l + 1 .. pj /\ p = ti - (ti - p)
          BY <1>1, <1>3, <2>2
        <4>. QED BY <4>1
      <3>2. c \in 0 .. pj
        BY <1>1, <3>1
      <3>3. Border(pat, pj, c) /\ pat[c] = txt[ti]
        <4>1. ti \in 0 .. N /\ Occurs(ti - c)
          BY <1>3, <3>1 DEF ScanTypes
        <4>. QED BY <3>2, <4>1, OverlapIsBorder
      <3>4. c \in l + 1 .. pj - 1
        BY <1>1, <3>1, <3>3
      <3>. QED BY <1>1, <3>3, <3>4
    <2>. QED BY <2>1, <2>2
  <1>. QED BY <1>2, <1>3 DEF Aligned

(* Nothing occurs where the first byte of the pattern does not.            *)
LEMMA SkipAligned ==
  ASSUME ScanTypes, NEW ti \in 0 .. N - 1, Aligned(ti, 0), pat[0] # txt[ti]
  PROVE  Aligned(ti + 1, 0)
  <1>1. ~Occurs(ti)
    BY DEF Occurs, SameAsText, ScanTypes
  <1>2. \A p \in 0 .. (ti + 1) - 0 - 1 : p = ti \/ p \in 0 .. ti - 0 - 1
    OBVIOUS
  <1>. QED BY <1>1, <1>2 DEF Aligned

LEMMA SameTexts ==
  ASSUME UNCHANGED input
  PROVE  /\ \A p : Occurs(p)' <=> Occurs(p)
         /\ \A ti, pj : Aligned(ti, pj)' <=> Aligned(ti, pj)
  BY DEF Occurs, Aligned, input

LEMMA ScanStart == Init => ScanInv
  BY DEF Init, ScanInv, ResultIsFirst

LEMMA ScanStep ==
  Wildcards = {} /\ IndexInv /\ TableInv /\ ScanInv /\ [Next]_vars => ScanInv'
  <1> SUFFICES ASSUME Wildcards = {}, IndexInv, TableInv, ScanInv, [Next]_vars PROVE ScanInv'
    OBVIOUS
  <1>0. pc = "scan" => ScanTypes /\ Aligned(i, j)
    BY SizeAssumption DEF IndexInv, TypeOK, ScanTypes, ScanInv
  <1>1. CASE ExtendBorder \/ ShortenBorder \/ NoBorder
    BY <1>1 DEF ExtendBorder, ShortenBorder, NoBorder, ScanInv, ResultIsFirst
  <1>2. CASE TableDone
    <2>1. Aligned(0, 0)
      BY DEF Aligned
    <2>2. i' = 0 /\ j' = 0 /\ pc' = "scan" /\ UNCHANGED input
      BY <1>2 DEF TableDone, IndexInv
    <2>3. Aligned(i, j)'
      BY <2>1, <2>2 DEF Aligned, input, Occurs
    <2>. QED BY <2>2, <2>3 DEF ScanInv, ResultIsFirst
  <1>3. CASE ReturnMatch
    <2>1. ScanTypes /\ i < N /\ NextJ = M /\ result' = NextI - M /\ UNCHANGED input
      BY <1>0, <1>3 DEF ReturnMatch, Scanning
    <2>2. Aligned(NextI, M) /\ NextI \in 0 .. N /\ M <= NextI
      BY <1>0, <1>3, <2>1, HitAligned DEF ReturnMatch, Scanning
    <2> DEFINE r == NextI - M
    <2>3. r \in 0 .. N - M /\ M \in Nat
      BY <2>1, <2>2 DEF ScanTypes
    <2>4. Occurs(r)
      BY <2>2 DEF Aligned, Occurs, SameAsText
    <2>5. \A p \in 0 .. r - 1 : ~Occurs(p)
      BY <2>1, <2>2, <2>3 DEF Aligned, ScanTypes
    <2> HIDE DEF r
    <2>6. pc' = "done" /\ result' = r /\ UNCHANGED input
      BY <1>3, <2>1 DEF ReturnMatch, r
    <2>7. Occurs(result)' /\ \A p : Occurs(p)' <=> Occurs(p)
      BY <2>4, <2>6, SameTexts DEF Occurs, input
    <2>8. (result \in 0 .. N - M)' /\ (result # NotFound)'
      BY <2>1, <2>3, <2>6 DEF NotFound, input, ScanTypes
    <2>9. \A p \in 0 .. result' - 1 : ~Occurs(p)'
      BY <2>5, <2>6, <2>7
    <2>. QED BY <2>6, <2>7, <2>8, <2>9 DEF ScanInv, ResultIsFirst
  <1>4. CASE Advance
    <2>1. ScanTypes /\ i < N /\ Aligned(i, j)
      BY <1>0, <1>4 DEF Advance, Scanning
    <2>2. Aligned(NextI, NextJ)
      BY <2>1, HitAligned
    <2>3. Aligned(i, j)'
      BY <1>4, <2>2 DEF Advance, Aligned, Occurs, input
    <2>. QED BY <1>4, <2>3 DEF Advance, Scanning, ScanInv, ResultIsFirst
  <1>5. CASE ShiftPattern
    <2>1. ScanTypes /\ i < N /\ Aligned(i, j)
      BY <1>0, <1>5 DEF ShiftPattern, Scanning
    <2>2. Aligned(NextI, NextJ) /\ NextJ \in 0 .. M - 1 /\ NextI \in 0 .. N - 1
          /\ NextJ <= NextI /\ pat[NextJ] # txt[NextI]
      BY <1>5, <2>1, HitAligned DEF ShiftPattern, Clash, ScanTypes
    <2>3. pc' = "scan" /\ UNCHANGED input
      BY <1>5 DEF ShiftPattern, Scanning
    <2>4. CASE NextJ # 0
      <3>1. LongestBorder(pat, (NextJ - 1) + 1, lps[NextJ - 1]) /\ (NextJ - 1) + 1 = NextJ
        BY <1>5, <2>1, <2>2, <2>4 DEF TableInv, TableCorrect, ShiftPattern, Scanning, ScanTypes
      <3>2. NextJ \in 1 .. M - 1
        BY <2>1, <2>2, <2>4 DEF ScanTypes
      <3>3. Aligned(NextI, lps[NextJ - 1])
        BY <2>1, <2>2, <3>1, <3>2, ShiftAligned
      <3>4. Aligned(i, j)'
        BY <1>5, <2>4, <3>3 DEF ShiftPattern, Aligned, Occurs, input
      <3>. QED BY <2>3, <3>4 DEF ScanInv, ResultIsFirst
    <2>5. CASE NextJ = 0
      <3>1. Aligned(NextI + 1, 0)
        BY <2>1, <2>2, <2>5, SkipAligned
      <3>2. Aligned(i, j)'
        BY <1>5, <2>5, <3>1 DEF ShiftPattern, Aligned, Occurs, input
      <3>. QED BY <2>3, <3>2 DEF ScanInv, ResultIsFirst
    <2>. QED BY <2>4, <2>5
  <1>6. CASE ReturnNotFound
    <2>1. ScanTypes /\ i = N /\ Aligned(i, j)
      BY <1>0, <1>6 DEF ReturnNotFound, ScanTypes
    <2>2. ASSUME NEW p \in 0 .. N - M PROVE ~Occurs(p)
      <3>1. p \in 0 .. i - j - 1 /\ p <= N - M
        BY <2>1, <2>2 DEF ScanTypes
      <3>. QED BY <2>1, <3>1 DEF Aligned
    <2>3. pc' = "done" /\ result' = NotFound /\ UNCHANGED input
      BY <1>6 DEF ReturnNotFound
    <2>4. \A p : Occurs(p)' <=> Occurs(p)
      BY <2>3, SameTexts
    <2>. QED BY <2>2, <2>3, <2>4 DEF ScanInv, ResultIsFirst, input
  <1>7. CASE UNCHANGED vars
    BY <1>7 DEF vars, ScanInv, ResultIsFirst, Aligned, Occurs
  <1>8. CASE HeapIsUsed
    BY <1>8 DEF HeapIsUsed, ScanInv, ResultIsFirst
  <1>. QED BY <1>1, <1>2, <1>3, <1>4, <1>5, <1>6, <1>7, <1>8 DEF Next, Step

(* KMPSearch finds the first occurrence of every pattern in every text.    *)
THEOREM SearchIsCorrect ==
  ASSUME Wildcards = {}
  PROVE  Spec => []ResultIsFirst
  <1>1. Init => TableInv /\ ScanInv
    BY TableStart, ScanStart
  <1>2. IndexInv /\ TableInv /\ ScanInv /\ [Next]_vars => TableInv' /\ ScanInv'
    BY TableStep, ScanStep
  <1>3. ScanInv => ResultIsFirst
    BY DEF ScanInv
  <1>. QED BY <1>1, <1>2, <1>3, IndexInvariant, PTL DEF Spec
=============================================================================
