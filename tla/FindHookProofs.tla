---------------------------- MODULE FindHookProofs -----------------------------
(* The function that is hooked is one the engine calls, for any widths,    *)
(* patterns, images and address spaces.                                    *)
EXTENDS FindHook, WellFoundedInduction, TLAPS

-----------------------------------------------------------------------------
(* Unsigned arithmetic                                                     *)

LEMMA TimesNext ==
  ASSUME NEW m \in Nat, NEW d \in Nat
  PROVE  m * d \in Nat /\ m * (d + 1) = m * d + m
  OBVIOUS

(* A multiple of m less than m is none.                                    *)
LEMMA Remainder ==
  ASSUME NEW m \in Nat \ {0}, NEW p \in Int, NEW q \in Int,
         NEW r \in 0 .. m - 1, NEW s \in 0 .. m - 1,
         m * p + r = m * q + s
  PROVE  r = s
  <1>1. ASSUME p < q PROVE FALSE
    <2>1. PICK d \in Nat : q = p + (d + 1)
      <3>1. q - p - 1 \in Nat /\ q = p + ((q - p - 1) + 1)
        BY <1>1
      <3>. QED BY <3>1
    <2>2. m * q = m * p + m * (d + 1)
      BY <2>1
    <2>. QED BY <2>2, TimesNext
  <1>2. ASSUME q < p PROVE FALSE
    <2>1. PICK d \in Nat : p = q + (d + 1)
      <3>1. p - q - 1 \in Nat /\ p = q + ((p - q - 1) + 1)
        BY <1>2
      <3>. QED BY <3>1
    <2>2. m * p = m * q + m * (d + 1)
      BY <2>1
    <2>. QED BY <2>2, TimesNext
  <1>3. p = q
    BY <1>1, <1>2
  <1>. QED BY <1>3

LEMMA ModOf ==
  ASSUME NEW m \in Nat \ {0}, NEW a \in Int
  PROVE  a % m \in 0 .. m - 1 /\ \E q \in Int : a = m * q + (a % m)
  <1>1. a % m \in 0 .. m - 1
    OBVIOUS
  <1>2. a = m * (a \div m) + (a % m) /\ a \div m \in Int
    OBVIOUS
  <1>3. \E q \in Int : a = m * q + (a % m)
    BY <1>2, Zenon
  <1>. QED BY <1>1, <1>3

LEMMA ModPlus ==
  ASSUME NEW m \in Nat \ {0}, NEW a \in Int, NEW b \in Int
  PROVE  ((a % m) + b) % m = (a + b) % m
  <1>1. PICK q \in Int : a = m * q + (a % m)
    BY ModOf
  <1> DEFINE r == a % m
  <1>2. r \in 0 .. m - 1
    BY ModOf
  <1>a. r + b \in Int /\ a + b \in Int
    BY <1>2
  <1>3. PICK p \in Int : r + b = m * p + ((r + b) % m)
    BY <1>a, ModOf, Zenon
  <1>4. PICK n \in Int : a + b = m * n + ((a + b) % m)
    BY <1>a, ModOf, Zenon
  <1>5. (r + b) % m \in 0 .. m - 1 /\ (a + b) % m \in 0 .. m - 1
    BY <1>2, ModOf
  <1> DEFINE u == (r + b) % m
             v == (a + b) % m
  <1>6. m * (q + p) + u = m * n + v
    <2>1. u \in Int /\ v \in Int /\ r \in Int /\ m * q \in Int /\ m * p \in Int
      BY <1>2, <1>5
    <2>2. m * (q + p) = m * q + m * p
      OBVIOUS
    <2>3. a = m * q + r /\ r + b = m * p + u /\ a + b = m * n + v
      BY <1>1, <1>3, <1>4
    <2> HIDE DEF r, u, v
    <2>4. a + b = (m * q + m * p) + u
      BY <2>1, <2>3
    <2>. QED BY <2>2, <2>3, <2>4
  <1> HIDE DEF r, u, v
  <1>7. u = v
    <2>1. u \in 0 .. m - 1 /\ v \in 0 .. m - 1 /\ q + p \in Int
      BY <1>5 DEF u, v
    <2>. QED BY <1>6, <2>1, Remainder
  <1>. QED BY <1>7 DEF u, v, r

LEMMA FirstIsFirst ==
  ASSUME NEW hits \in SUBSET Nat, hits # {}
  PROVE  First(hits) \in hits /\ \A l \in hits : First(hits) <= l
  <1>1. PICK k \in hits : \A l \in hits : ~(<<l, k>> \in OpToRel(<, Nat))
    BY WFMin, NatLessThanWellFounded
  <1>2. ASSUME NEW l \in hits PROVE k <= l
    <2>1. k \in Nat /\ l \in Nat
      OBVIOUS
    <2>2. ~(l < k)
      BY <1>1, <2>1, <1>2 DEF OpToRel
    <2>. QED BY <2>1, <2>2
  <1>. QED BY <1>2 DEF First

LEMMA PlusPlus ==
  ASSUME NEW a \in Int, NEW b \in Int, NEW c \in Int
  PROVE  Plus(a, b) \in Address /\ Plus(Plus(a, b), c) = Plus(a, b + c)
  <1>1. Space \in Nat \ {0} /\ a + b \in Int
    BY WordAssumption
  <1>2. (a + b) % Space \in 0 .. Space - 1
    BY <1>1, ModOf
  <1>3. (((a + b) % Space) + c) % Space = ((a + b) + c) % Space
    BY <1>1, ModPlus
  <1>4. (a + b) + c = a + (b + c)
    OBVIOUS
  <1>. QED BY <1>2, <1>3, <1>4 DEF Plus, Address

(* - 1 is the last address, and what is behind it begins at 0.             *)
LEMMA PlusMinusOne ==
  ASSUME NEW k \in 1 .. Space
  PROVE  Plus(MinusOne, k) = k - 1 /\ MinusOne \in Address
  <1>1. Space \in Nat \ {0} /\ k - 1 \in 0 .. Space - 1
    BY WordAssumption
  <1> DEFINE x == Space - 1 + k
  <1>a. x \in Int
    BY <1>1
  <1>2. PICK q \in Int : x = Space * q + (x % Space)
    BY <1>1, <1>a, ModOf, Zenon
  <1>3. x % Space \in 0 .. Space - 1
    BY <1>1, <1>a, ModOf
  <1>4. Space * 1 + (k - 1) = x
    BY <1>1
  <1> DEFINE y == x % Space
             z == k - 1
  <1> HIDE DEF x, y, z
  <1>b. y \in 0 .. Space - 1 /\ z \in 0 .. Space - 1 /\ Space * 1 + z = Space * q + y
    BY <1>1, <1>2, <1>3, <1>4 DEF y, z
  <1>c. z = y
    BY <1>1, <1>b, Remainder
  <1>5. k - 1 = x % Space
    BY <1>c DEF y, z
  <1>. QED BY <1>1, <1>5 DEF x, Plus, MinusOne, Address

-----------------------------------------------------------------------------
(* The invariant                                                           *)

MemoryOK == \A a \in Address : a \notin Mapped(layout) => memory[a] = Unmapped

LeastHit(n) == n \in HitSections /\ \A k \in HitSections : n <= k

SectionHits(n) == Hits(Pattern, layout[n].first, layout[n].size)
ParserHits(a) == Hits(ParserCall, a, Window)

(* a is the callee of the call that the pattern marks, and of b so.        *)
CalleeAt(a) == \E c \in CompileCalls : IsCall(c) /\ a = CallTarget(c)
ParserAt(a, b) ==
  \E k \in 0 .. Window - 1 : LET d == Plus(a, k) IN IsCall(d) /\ b = CallTarget(d)

OtherVersion ==
  \A c \in CompileCalls :
    IsCall(c) =>
      /\ engine = "jscript"
      /\ \A k \in 0 .. Window - Len(ParserCall) :
           /\ Occurs(ParserCall, CallTarget(c), Window, k)
           /\ Readable(CallTarget(c), k)
           => \E l \in 0 .. k : /\ Occurs(ParserCall, CallTarget(c), Window, l)
                                /\ ~IsCall(Plus(CallTarget(c), l + Len(ParserCall) - 1))

(* What each step of the search leaves for the next, with its results.     *)
Left(pc, n, x, a, b) ==
  /\ pc = "sections" => \A k \in HitSections : n <= k
  /\ pc = "compile" =>
       \/ HitSections = {} /\ x = MinusOne
       \/ \E k \in DOMAIN layout :
            LeastHit(k) /\ x = Plus(layout[k].first, First(SectionHits(k)))
  /\ pc \in {"window", "parser", "hook"} => CalleeAt(a)
  /\ pc \in {"window", "parser"} => engine = "jscript"
  /\ pc = "parser" =>
       \/ ParserHits(a) = {} /\ x = MinusOne
       \/ ParserHits(a) # {} /\ x = Plus(a, First(ParserHits(a)))
  /\ pc = "hook" /\ engine = "jscript" => ParserAt(a, b)
  /\ pc = "fault" => OtherVersion

SearchInv ==
  TypeOK /\ MemoryOK /\ Left(at, i, index, compileAddress, parserAddress)

-----------------------------------------------------------------------------
(* Facts about a state                                                     *)

Patterns == {Pattern, ParserCall}

LEMMA PatternFacts ==
  ASSUME NEW p \in Patterns
  PROVE  Len(p) \in Nat /\ Len(p) \in 1 .. Space /\ Len(p) - 1 \in Nat
         /\ p[Len(p)] = CallOpcode /\ Len(p) \in 1 .. Len(p)
  <1>1. Len(p) \in Nat
    BY PatternAssumption DEF Patterns
  <1>. QED BY <1>1, PatternAssumption, WordAssumption DEF Patterns

LEMMA ElementIn ==
  ASSUME NEW S, NEW s \in Seq(S), NEW n \in DOMAIN s
  PROVE  s[n] \in S
  OBVIOUS

LEMMA SectionFacts ==
  ASSUME TypeOK, NEW n \in DOMAIN layout
  PROVE  layout[n].first \in Address /\ layout[n].size \in Nat
  <1>1. layout \in Seq([first : Address, size : Nat, room : Nat])
    BY LayoutAssumption DEF TypeOK
  <1>2. layout[n] \in [first : Address, size : Nat, room : Nat]
    BY <1>1, ElementIn, Zenon
  <1>. QED BY <1>2

LEMMA AddressInt == Address \subseteq Int /\ 0 \in Address
  BY WordAssumption DEF Address

(* The first hit of a pattern ends with a call opcode.                     *)
LEMMA HitFacts ==
  ASSUME NEW p \in Patterns, NEW a \in Address, NEW size \in Nat, Hits(p, a, size) # {}
  PROVE  LET k == First(Hits(p, a, size))
         IN  /\ k \in 0 .. size - 1 /\ Occurs(p, a, size, k)
             /\ \A l \in Hits(p, a, size) : k <= l
             /\ memory[Plus(a, k + Len(p) - 1)] = CallOpcode
  <1> DEFINE k == First(Hits(p, a, size))
  <1>1. Hits(p, a, size) \in SUBSET Nat
    BY DEF Hits
  <1>2. k \in Hits(p, a, size) /\ \A l \in Hits(p, a, size) : k <= l
    BY <1>1, FirstIsFirst
  <1> HIDE DEF k
  <1>3. k \in 0 .. size - 1 /\ Occurs(p, a, size, k)
    BY <1>2 DEF Hits
  <1>4. memory[Plus(a, k + Len(p) - 1)] = p[Len(p)]
    BY <1>3, PatternFacts DEF Occurs
  <1>. QED BY <1>2, <1>3, <1>4, PatternFacts DEF k

(* The opcode c of the pattern found at x, and the displacement behind it. *)
LEMMA Behind ==
  ASSUME NEW p \in Patterns, NEW a \in Address, NEW k \in Nat, index = Plus(a, k)
  PROVE  LET c == Plus(a, k + Len(p) - 1)
         IN  c \in Address /\ Plus(c, 1) = Plus(index, Len(p)) /\ Callee(Len(p)) = CallTarget(c)
  <1> DEFINE c == Plus(a, k + Len(p) - 1)
             e == Len(p)
  <1>0. WordSize \in Nat /\ a \in Int /\ e \in Nat
    BY AddressInt, PatternFacts, WordAssumption
  <1>1. c \in Address /\ Plus(c, 1) = Plus(a, (k + e - 1) + 1)
        /\ Plus(c, 1 + WordSize) = Plus(a, (k + e - 1) + (1 + WordSize))
    <2> DEFINE j == k + e - 1
               w == 1 + WordSize
    <2>1. j \in Int /\ w \in Int /\ 1 \in Int
      BY <1>0
    <2> HIDE DEF j, w
    <2>2. Plus(a, j) \in Address
      BY <1>0, <2>1, PlusPlus, Zenon
    <2>3. Plus(Plus(a, j), 1) = Plus(a, j + 1)
      BY <1>0, <2>1, PlusPlus, Zenon
    <2>4. Plus(Plus(a, j), w) = Plus(a, j + w)
      BY <1>0, <2>1, PlusPlus, Zenon
    <2>. QED BY <2>2, <2>3, <2>4 DEF j, w
  <1>2. Plus(index, e) = Plus(a, k + e)
        /\ Plus(index, e - 1 + 1 + WordSize) = Plus(a, k + (e - 1 + 1 + WordSize))
    BY <1>0, PlusPlus
  <1>3. (k + e - 1) + 1 = k + e
        /\ (k + e - 1) + (1 + WordSize) = k + (e - 1 + 1 + WordSize)
    BY <1>0
  <1>4. Plus(c, 1) = Plus(index, e)
        /\ Plus(c, 1 + WordSize) = Plus(index, e - 1 + 1 + WordSize)
    BY <1>1, <1>2, <1>3
  <1>. QED BY <1>1, <1>4 DEF Callee, CallTarget

(* Behind - 1 there is nothing to read.                                    *)
LEMMA MissedIsUnreadable ==
  ASSUME TypeOK, MemoryOK, NEW p \in Patterns
  PROVE  ~Readable(Plus(MinusOne, Len(p)), WordSize)
  <1> DEFINE e == Len(p)
  <1>1. Plus(MinusOne, e) = e - 1 /\ e \in Nat /\ e - 1 \in Address
    BY PatternFacts, PlusMinusOne, WordAssumption DEF Address
  <1>2. Plus(e - 1, 0) = e - 1
    <2>1. MinusOne \in Int /\ e + 0 = e
      BY <1>1, WordAssumption DEF MinusOne
    <2>. QED BY <1>1, <2>1, PlusPlus
  <1>3. e - 1 \in 0 .. Len(Pattern) + Len(ParserCall)
    BY <1>1, PatternFacts DEF Patterns
  <1>4. e - 1 \notin Mapped(layout)
    BY <1>3, LayoutAssumption DEF TypeOK
  <1>5. memory[e - 1] = Unmapped
    BY <1>1, <1>4 DEF MemoryOK
  <1>6. 0 \in 0 .. WordSize - 1
    BY WordAssumption
  <1>. QED BY <1>1, <1>2, <1>5, <1>6 DEF Readable

(* A word that can be read is an address, and so is the callee.            *)
LEMMA CalleeIsAddress ==
  ASSUME TypeOK, NEW length \in Nat, Readable(Plus(index, length), WordSize)
  PROVE  Callee(length) \in Address
  <1> DEFINE a == Plus(index, length)
  <1>1. a \in Address /\ index \in Int
    <2>1. index \in Int
      BY AddressInt DEF TypeOK
    <2>. QED BY <2>1, PlusPlus
  <1>2. ASSUME NEW k \in 0 .. WordSize - 1 PROVE memory[Plus(a, k)] \in Byte
    <2>1. Plus(a, k) \in Address
      BY <1>1, <1>2, AddressInt, PlusPlus, WordAssumption
    <2>. QED BY <2>1, <1>2 DEF TypeOK, Readable
  <1> HIDE DEF a
  <1>3. WordAt(a) \in Address
    BY <1>2, WordAssumption DEF WordAt
  <1>4. Plus(index, length - 1 + 1 + WordSize) \in Address
    BY <1>1, PlusPlus, WordAssumption
  <1>. QED BY <1>3, <1>4, AddressInt, PlusPlus DEF Callee, a

-----------------------------------------------------------------------------
(* Steps                                                                   *)

(* The image does not change, so that what is said of it stays.            *)
LEMMA ImageStays ==
  ASSUME UNCHANGED input
  PROVE  /\ MemoryOK' = MemoryOK
         /\ \A pc, n, x, a, b : Left(pc, n, x, a, b)' = Left(pc, n, x, a, b)
  <1>1. layout' = layout /\ memory' = memory /\ engine' = engine
    BY DEF input
  <1>2. HitSections' = HitSections /\ CompileCalls' = CompileCalls
    BY <1>1 DEF CompileCalls, HitSections, Hits, Occurs, First
  <1>3. MemoryOK' = MemoryOK
    BY <1>1 DEF MemoryOK, Mapped, Span
  <1>4. \A a : ParserHits(a)' = ParserHits(a)
    BY <1>1 DEF ParserHits, Hits, Occurs
  <1>5. \A k : SectionHits(k)' = SectionHits(k) /\ LeastHit(k)' = LeastHit(k)
    BY <1>1, <1>2 DEF SectionHits, LeastHit, Hits, Occurs
  <1>6. \A a, b : CalleeAt(a)' = CalleeAt(a) /\ ParserAt(a, b)' = ParserAt(a, b)
    BY <1>1, <1>2 DEF CalleeAt, ParserAt, IsCall, CallTarget, WordAt, Readable
  <1>7. OtherVersion' = OtherVersion
    BY <1>1, <1>2 DEF OtherVersion, IsCall, CallTarget, WordAt, Readable, Occurs
  <1>. QED BY <1>1, <1>2, <1>3, <1>4, <1>5, <1>6, <1>7 DEF Left

(* The calls that the pattern marks are those of one section.              *)
LEMMA OneCompileCall ==
  ASSUME TypeOK, NEW n, LeastHit(n)
  PROVE  /\ n \in DOMAIN layout /\ SectionHits(n) # {}
         /\ CompileCalls = {Plus(layout[n].first, First(SectionHits(n)) + Len(Pattern) - 1)}
  <1>1. n \in HitSections /\ \A k \in HitSections : n <= k
    BY DEF LeastHit
  <1>2. DOMAIN layout \subseteq Int
    BY LayoutAssumption DEF TypeOK
  <1>3. HitSections \subseteq Int
    BY <1>2 DEF HitSections
  <1>4. {m \in HitSections : \A k \in HitSections : m <= k} = {n}
    <2>1. ASSUME NEW m \in HitSections, \A k \in HitSections : m <= k PROVE m = n
      <3>1. m <= n /\ n <= m
        BY <1>1, <2>1
      <3>. QED BY <1>1, <1>3, <3>1
    <2>. QED BY <1>1, <2>1
  <1>. QED BY <1>1, <1>4 DEF CompileCalls, HitSections, SectionHits

LEMMA NoCompileCall == HitSections = {} => CompileCalls = {}
  BY DEF CompileCalls

(* At "compile": the call c that was found, and what Callee makes of it.   *)
FoundAt(n) == LeastHit(n) /\ index = Plus(layout[n].first, First(SectionHits(n)))
FoundCall(c) ==
  /\ CompileCalls = {c}
  /\ IsCall(c) <=> Readable(Plus(index, Len(Pattern)), WordSize)
  /\ Callee(Len(Pattern)) = CallTarget(c)

LEMMA CompileFound ==
  ASSUME TypeOK, NEW n, FoundAt(n)
  PROVE  \E c : FoundCall(c)
  <1> USE DEF FoundAt
  <1> DEFINE k == First(SectionHits(n))
             c == Plus(layout[n].first, k + Len(Pattern) - 1)
  <1>1. n \in DOMAIN layout /\ SectionHits(n) # {} /\ CompileCalls = {c}
    BY OneCompileCall
  <1>2. layout[n].first \in Address /\ layout[n].size \in Nat
    BY <1>1, SectionFacts
  <1>3. k \in Nat /\ memory[c] = CallOpcode
    BY <1>1, <1>2, HitFacts DEF SectionHits, Patterns
  <1>4. Plus(c, 1) = Plus(index, Len(Pattern)) /\ Callee(Len(Pattern)) = CallTarget(c)
    BY <1>2, <1>3, Behind DEF Patterns
  <1>. QED BY <1>1, <1>3, <1>4 DEF IsCall, FoundCall

(* At "parser": the call d in the compile function at a.                   *)
LEMMA ParserFound ==
  ASSUME NEW a \in Address, ParserHits(a) # {}, index = Plus(a, First(ParserHits(a)))
  PROVE  LET k == First(ParserHits(a))
             d == Plus(a, k + Len(ParserCall) - 1)
         IN  /\ k \in Nat /\ k <= Window - Len(ParserCall) /\ k + Len(ParserCall) - 1 \in 0 .. Window - 1
             /\ Occurs(ParserCall, a, Window, k)
             /\ \A l \in ParserHits(a) : k <= l
             /\ IsCall(d) <=> Readable(Plus(index, Len(ParserCall)), WordSize)
             /\ Callee(Len(ParserCall)) = CallTarget(d)
  <1> DEFINE k == First(ParserHits(a))
             d == Plus(a, k + Len(ParserCall) - 1)
  <1>1. Window \in Nat
    BY WindowAssumption
  <1>2. /\ k \in 0 .. Window - 1 /\ Occurs(ParserCall, a, Window, k) /\ memory[d] = CallOpcode
        /\ \A l \in ParserHits(a) : k <= l
    BY <1>1, HitFacts DEF ParserHits, Patterns
  <1>3. k \in Nat /\ Len(ParserCall) \in 1 .. Space /\ Len(ParserCall) \in Nat
    BY <1>2, PatternFacts DEF Patterns
  <1>4. k + Len(ParserCall) <= Window
    BY <1>2 DEF Occurs
  <1>5. Plus(d, 1) = Plus(index, Len(ParserCall)) /\ Callee(Len(ParserCall)) = CallTarget(d)
    BY <1>3, Behind DEF Patterns
  <1> HIDE DEF k
  <1>6. k <= Window - Len(ParserCall) /\ k + Len(ParserCall) - 1 \in 0 .. Window - 1
    BY <1>1, <1>3, <1>4
  <1>. QED BY <1>2, <1>3, <1>5, <1>6 DEF IsCall, k

-----------------------------------------------------------------------------
(* Steps                                                                   *)

LEMMA InitInv == Init => SearchInv
  <1> SUFFICES ASSUME Init PROVE SearchInv
    OBVIOUS
  <1>1. PICK image \in [Mapped(layout) -> Byte] :
          memory = [a \in Address |-> IF a \in Mapped(layout) THEN image[a] ELSE Unmapped]
    BY DEF Init
  <1>2. memory \in [Address -> Byte \cup {Unmapped}] /\ MemoryOK
    BY <1>1 DEF MemoryOK
  <1>3. layout \in Seq([first : Address, size : Nat, room : Nat])
    BY LayoutAssumption DEF Init
  <1>4. Len(layout) \in Nat /\ DOMAIN layout = 1 .. Len(layout)
    BY <1>3
  <1>5. TypeOK
    BY <1>2, <1>4, AddressInt DEF Init, TypeOK
  <1>6. Left(at, i, index, compileAddress, parserAddress)
    BY <1>4 DEF Init, Left, HitSections
  <1>. QED BY <1>2, <1>5, <1>6 DEF SearchInv

LEMMA StepFoundInSection == SearchInv /\ FoundInSection => SearchInv'
  <1> SUFFICES ASSUME SearchInv, FoundInSection PROVE SearchInv'
    OBVIOUS
  <1> USE DEF SearchInv
  <1>1. /\ at = "sections" /\ at' = "compile" /\ i <= Len(layout) /\ SectionHits(i) # {}
        /\ index' = Plus(layout[i].first, First(SectionHits(i)))
        /\ UNCHANGED <<input, i, compileAddress, parserAddress>>
    BY DEF FoundInSection, SearchSection, SectionHits
  <1>2. i \in DOMAIN layout
    BY <1>1, LayoutAssumption DEF TypeOK
  <1>3. LeastHit(i)
    BY <1>1, <1>2 DEF LeastHit, HitSections, SectionHits, Left
  <1>4. index' \in Address
    <2>1. layout[i].first \in Address /\ layout[i].size \in Nat
      BY <1>2, SectionFacts
    <2>2. First(SectionHits(i)) \in Int
      BY <1>1, <2>1, HitFacts DEF SectionHits, Patterns
    <2>. QED BY <1>1, <2>1, <2>2, AddressInt, PlusPlus
  <1>5. TypeOK'
    BY <1>1, <1>4 DEF TypeOK, input
  <1>6. Left(at', i', index', compileAddress', parserAddress')
    BY <1>1, <1>2, <1>3 DEF Left
  <1>. QED BY <1>1, <1>5, <1>6, ImageStays

LEMMA StepNextSection == SearchInv /\ NextSection => SearchInv'
  <1> SUFFICES ASSUME SearchInv, NextSection PROVE SearchInv'
    OBVIOUS
  <1> USE DEF SearchInv
  <1>1. /\ at = "sections" /\ at' = "sections" /\ i <= Len(layout) /\ i \notin HitSections
        /\ i' = i + 1
        /\ UNCHANGED <<input, index, compileAddress, parserAddress>>
    BY DEF NextSection, HitSections
  <1>2. layout \in Seq([first : Address, size : Nat, room : Nat]) /\ i \in 1 .. Len(layout) + 1
    BY LayoutAssumption DEF TypeOK
  <1>3. Len(layout) \in Nat /\ DOMAIN layout = 1 .. Len(layout)
    BY <1>2
  <1>4. \A k \in HitSections : k \in Nat /\ i <= k /\ k # i
    BY <1>1, <1>3 DEF Left, HitSections
  <1>5. \A k \in HitSections : i + 1 <= k
    BY <1>2, <1>3, <1>4
  <1>6. TypeOK'
    BY <1>1, <1>2, <1>3 DEF TypeOK, input
  <1>7. Left(at', i', index', compileAddress', parserAddress')
    BY <1>1, <1>5 DEF Left
  <1>. QED BY <1>1, <1>6, <1>7, ImageStays

LEMMA StepNotInSections == SearchInv /\ NotInSections => SearchInv'
  <1> SUFFICES ASSUME SearchInv, NotInSections PROVE SearchInv'
    OBVIOUS
  <1> USE DEF SearchInv
  <1>1. /\ at = "sections" /\ at' = "compile" /\ i > Len(layout) /\ index' = MinusOne
        /\ UNCHANGED <<input, i, compileAddress, parserAddress>>
    BY DEF NotInSections
  <1>2. layout \in Seq([first : Address, size : Nat, room : Nat]) /\ i \in 1 .. Len(layout) + 1
    BY LayoutAssumption DEF TypeOK
  <1>3. HitSections = {}
    <2>1. ASSUME NEW k \in HitSections PROVE FALSE
      <3>1. Len(layout) \in Nat /\ DOMAIN layout = 1 .. Len(layout)
        BY <1>2
      <3>2. i <= k /\ k \in DOMAIN layout
        BY <1>1 DEF Left, HitSections
      <3>. QED BY <1>1, <1>2, <3>1, <3>2
    <2>. QED BY <2>1
  <1>4. TypeOK'
    BY <1>1, WordAssumption DEF TypeOK, input, MinusOne, Address
  <1>5. Left(at', i', index', compileAddress', parserAddress')
    BY <1>1, <1>3 DEF Left
  <1>. QED BY <1>1, <1>4, <1>5, ImageStays

(* A call that could not be found cannot be followed.                      *)
LEMMA StepFollowCompileCall == SearchInv /\ FollowCompileCall => SearchInv'
  <1> SUFFICES ASSUME SearchInv, FollowCompileCall PROVE SearchInv'
    OBVIOUS
  <1> USE DEF SearchInv
  <1>1. /\ at = "compile" /\ Readable(Plus(index, Len(Pattern)), WordSize)
        /\ compileAddress' = Callee(Len(Pattern))
        /\ at' = IF engine = "vbscript" THEN "hook" ELSE "window"
        /\ UNCHANGED <<input, i, index, parserAddress>>
    BY DEF FollowCompileCall
  <1>2. index # MinusOne
    BY <1>1, MissedIsUnreadable DEF Patterns
  <1>3. PICK n : FoundAt(n)
    BY <1>1, <1>2 DEF Left, FoundAt
  <1>4. PICK c : FoundCall(c)
    BY <1>3, CompileFound
  <1>5. CalleeAt(compileAddress')
    BY <1>1, <1>4 DEF CalleeAt, FoundCall
  <1>6. compileAddress' \in Address
    BY <1>1, CalleeIsAddress, PatternFacts DEF Patterns
  <1>7. TypeOK'
    BY <1>1, <1>6 DEF TypeOK, input
  <1>8. Left(at', i', index', compileAddress', parserAddress')
    BY <1>1, <1>5 DEF Left, TypeOK
  <1>. QED BY <1>1, <1>7, <1>8, ImageStays

LEMMA StepWindow == SearchInv /\ (FoundInWindow \/ NotInWindow) => SearchInv'
  <1> SUFFICES ASSUME SearchInv, FoundInWindow \/ NotInWindow PROVE SearchInv'
    OBVIOUS
  <1> USE DEF SearchInv
  <1>1. /\ at = "window" /\ at' = "parser"
        /\ UNCHANGED <<input, i, compileAddress, parserAddress>>
        /\ \/ /\ ParserHits(compileAddress) # {}
              /\ index' = Plus(compileAddress, First(ParserHits(compileAddress)))
           \/ ParserHits(compileAddress) = {} /\ index' = MinusOne
    BY DEF FoundInWindow, NotInWindow, ParserHits
  <1>2. index' \in Address
    <2>1. CASE index' = MinusOne
      BY <2>1, WordAssumption DEF MinusOne, Address
    <2>2. CASE /\ ParserHits(compileAddress) # {}
               /\ index' = Plus(compileAddress, First(ParserHits(compileAddress)))
      <3>1. compileAddress \in Address
        BY DEF TypeOK
      <3>2. First(ParserHits(compileAddress)) \in Int
        BY <2>2, <3>1, HitFacts, WindowAssumption DEF ParserHits, Patterns
      <3>. QED BY <2>2, <3>1, <3>2, AddressInt, PlusPlus
    <2>. QED BY <1>1, <2>1, <2>2
  <1>3. TypeOK'
    BY <1>1, <1>2 DEF TypeOK, input
  <1>4. Left(at', i', index', compileAddress', parserAddress')
    BY <1>1 DEF Left
  <1>. QED BY <1>1, <1>3, <1>4, ImageStays

LEMMA StepFollowParserCall == SearchInv /\ FollowParserCall => SearchInv'
  <1> SUFFICES ASSUME SearchInv, FollowParserCall PROVE SearchInv'
    OBVIOUS
  <1> USE DEF SearchInv
  <1>1. /\ at = "parser" /\ Readable(Plus(index, Len(ParserCall)), WordSize)
        /\ parserAddress' = Callee(Len(ParserCall))
        /\ at' = "hook"
        /\ UNCHANGED <<input, i, index, compileAddress>>
    BY DEF FollowParserCall
  <1>2. index # MinusOne
    BY <1>1, MissedIsUnreadable DEF Patterns
  <1>3. /\ compileAddress \in Address /\ ParserHits(compileAddress) # {}
        /\ index = Plus(compileAddress, First(ParserHits(compileAddress)))
    BY <1>1, <1>2 DEF Left, TypeOK
  <1>4. ParserAt(compileAddress, parserAddress')
    BY <1>1, <1>3, ParserFound DEF ParserAt
  <1>5. parserAddress' \in Address
    BY <1>1, CalleeIsAddress, PatternFacts DEF Patterns
  <1>6. TypeOK'
    BY <1>1, <1>5 DEF TypeOK, input
  <1>7. Left(at', i', index', compileAddress', parserAddress')
    BY <1>1, <1>4 DEF Left
  <1>. QED BY <1>1, <1>6, <1>7, ImageStays

LEMMA UniqueCall ==
  ASSUME TypeOK, NEW c \in CompileCalls, NEW d \in CompileCalls
  PROVE  c = d
  <1>1. PICK n : LeastHit(n)
    BY DEF CompileCalls, LeastHit
  <1>. QED BY <1>1, OneCompileCall

(* The search ends the target: it is not one of the versions known.        *)
LEMMA StepReadFaults == SearchInv /\ ReadFaults => SearchInv'
  <1> SUFFICES ASSUME SearchInv, ReadFaults PROVE SearchInv'
    OBVIOUS
  <1> USE DEF SearchInv
  <1>1. at' = "fault" /\ UNCHANGED <<input, i, index, compileAddress, parserAddress>>
    BY DEF ReadFaults
  <1>2. CASE at = "compile" /\ ~Readable(Plus(index, Len(Pattern)), WordSize)
    <2>1. ASSUME HitSections = {} PROVE OtherVersion
      BY <2>1, NoCompileCall DEF OtherVersion
    <2>2. ASSUME NEW n, FoundAt(n) PROVE OtherVersion
      <3>1. PICK c : FoundCall(c)
        BY <2>2, CompileFound
      <3>. QED BY <1>2, <3>1 DEF OtherVersion, FoundCall
    <2>3. OtherVersion
      BY <1>2, <2>1, <2>2 DEF Left, FoundAt
    <2>. QED BY <1>1, <2>3, ImageStays DEF Left, TypeOK, input
  <1>3. ASSUME at \in {"window", "parser"},
               \A k \in ParserHits(compileAddress) :
                 Readable(compileAddress, k) =>
                   \E l \in 0 .. k :
                     /\ Occurs(ParserCall, compileAddress, Window, l)
                     /\ ~IsCall(Plus(compileAddress, l + Len(ParserCall) - 1))
        PROVE  SearchInv'
    <2>1. PICK c \in CompileCalls : compileAddress = CallTarget(c)
      BY <1>3 DEF Left, CalleeAt
    <2>2. engine = "jscript" /\ \A d \in CompileCalls : d = c
      BY <1>3, UniqueCall DEF Left
    <2>3. ASSUME NEW k \in 0 .. Window - Len(ParserCall),
                 Occurs(ParserCall, compileAddress, Window, k)
          PROVE  k \in ParserHits(compileAddress)
      <3>1. k \in 0 .. Window - 1
        BY <2>3, PatternFacts, WindowAssumption DEF Patterns
      <3>. QED BY <2>3, <3>1 DEF ParserHits, Hits
    <2>4. OtherVersion
      BY <1>3, <2>1, <2>2, <2>3 DEF OtherVersion
    <2>. QED BY <1>1, <2>4, ImageStays DEF Left, TypeOK, input
  <1>4. compileAddress \in Address
    BY DEF TypeOK
  <1>5. CASE /\ at = "window"
             /\ ~Readable(compileAddress, IF ParserHits(compileAddress) = {} THEN Window
                                          ELSE First(ParserHits(compileAddress)))
    <2>1. ASSUME NEW k \in ParserHits(compileAddress), Readable(compileAddress, k) PROVE FALSE
      <3>1. First(ParserHits(compileAddress)) <= k /\ First(ParserHits(compileAddress)) \in Nat
        BY <1>4, <2>1, HitFacts, WindowAssumption DEF ParserHits, Patterns
      <3>2. k \in Nat
        BY <2>1 DEF ParserHits, Hits
      <3>3. Readable(compileAddress, First(ParserHits(compileAddress)))
        BY <2>1, <3>1, <3>2 DEF Readable
      <3>. QED BY <1>5, <2>1, <3>3
    <2>. QED BY <1>3, <1>5, <2>1
  <1>6. CASE at = "parser" /\ ~Readable(Plus(index, Len(ParserCall)), WordSize)
    <2>1. ASSUME NEW k \in ParserHits(compileAddress)
          PROVE  \E l \in 0 .. k :
                   /\ Occurs(ParserCall, compileAddress, Window, l)
                   /\ ~IsCall(Plus(compileAddress, l + Len(ParserCall) - 1))
      <3> DEFINE l == First(ParserHits(compileAddress))
      <3>1. index = Plus(compileAddress, l)
        BY <1>6, <2>1 DEF Left
      <3>2. /\ l \in Nat /\ l <= k /\ Occurs(ParserCall, compileAddress, Window, l)
            /\ ~IsCall(Plus(compileAddress, l + Len(ParserCall) - 1))
        BY <1>4, <1>6, <2>1, <3>1, ParserFound
      <3>3. k \in Nat
        BY <2>1 DEF ParserHits, Hits
      <3> HIDE DEF l
      <3>. QED BY <3>2, <3>3
    <2>. QED BY <1>3, <1>6, <2>1
  <1>. QED BY <1>2, <1>5, <1>6 DEF ReadFaults, ParserHits

LEMMA Invariance == Spec => []SearchInv
  <1>1. ASSUME SearchInv, UNCHANGED vars PROVE SearchInv'
    BY <1>1, ImageStays DEF SearchInv, vars, TypeOK, input
  <1>2. SearchInv /\ [Next]_vars => SearchInv'
    BY <1>1, StepFoundInSection, StepNextSection, StepNotInSections, StepFollowCompileCall,
       StepWindow, StepFollowParserCall, StepReadFaults DEF Next
  <1>. QED BY InitInv, <1>2, PTL DEF Spec

(* The addresses of HookVbScript and HookJScript stay within the unsigned  *)
(* int they are computed in.                                               *)
THEOREM TypeCorrect == Spec => []TypeOK
  <1>1. SearchInv => TypeOK
    BY DEF SearchInv
  <1>. QED BY Invariance, <1>1, PTL

(* HookVbScript and HookJScript hook the callee of the call that the       *)
(* pattern marks: an unchecked -1 never leads to a hook.                   *)
THEOREM HookIsCallee == Spec => []HookedIsCallee
  <1>1. SearchInv => HookedIsCallee
    BY DEF SearchInv, Left, CalleeAt, ParserAt, HookedIsCallee
  <1>. QED BY Invariance, <1>1, PTL

(* A target that the search ends has an engine of another version.         *)
THEOREM FaultIsOtherVersion == Spec => []FaultsOnlyOnOtherVersions
  <1>1. SearchInv => FaultsOnlyOnOtherVersions
    BY DEF SearchInv, Left, OtherVersion, FaultsOnlyOnOtherVersions
  <1>. QED BY Invariance, <1>1, PTL
=============================================================================
