------------------------------- MODULE FindHook --------------------------------
(***************************************************************************)
(* How HookVbScript and HookJScript find the function they hook, in a      *)
(* 32-bit address space: FindDataInDLL looks for some bytes of code in the *)
(* sections of the image (MemoryUtils.cpp), these bytes end with the       *)
(* opcode of a call, and the address is computed from the displacement     *)
(* behind it.  JScript then looks for another call in the function found.  *)
(* No result is compared with -1.                                          *)
(*                                                                         *)
(* KMPSearch is its first occurrence, as proved in KmpProofs of searches   *)
(* that are not disturbed behind the block of their table.                 *)
(***************************************************************************)
EXTENDS Integers, Sequences

CONSTANTS
  Byte,        \* the bytes that occur
  WordSize,    \* bytes of an address or displacement: 4
  Space,       \* addresses: 2^32
  Word,        \* the unsigned int that WordSize bytes are, least byte first
  Unmapped,    \* what is at an address that nothing is mapped to
  Layouts,     \* images: sequences of sections, each of .size bytes from .first,
               \* in pages that have .room bytes
  Pattern,     \* pattern_COleScript_Compile
  ParserCall,  \* pattern_Parser_ParseSourceCall
  CallOpcode,  \* 0xE8
  Window       \* bytes of the compile function that are searched: 0x180

Address == 0 .. Space - 1
Span(s) == s.first .. s.first + s.room - 1
Mapped(layout) == UNION {Span(layout[n]) : n \in DOMAIN layout}

ASSUME WordAssumption ==
  /\ WordSize \in Nat \ {0} /\ Space \in Nat \ {0}
  /\ Word \in [[0 .. WordSize - 1 -> Byte] -> Address]
ASSUME ByteAssumption == Unmapped \notin Byte
ASSUME WindowAssumption == Window \in Nat
(* Both patterns end with the opcode of the call.                          *)
ASSUME PatternAssumption ==
  \A p \in {Pattern, ParserCall} :
    p \in Seq(Byte) /\ Len(p) > 0 /\ Len(p) < Space /\ p[Len(p)] = CallOpcode
(* Nothing is mapped to the lowest addresses.                              *)
ASSUME LayoutAssumption ==
  \A l \in Layouts :
    /\ l \in Seq([first : Address, size : Nat, room : Nat])
    /\ \A n \in DOMAIN l : l[n].size <= l[n].room
    /\ Mapped(l) \subseteq Address \ (0 .. Len(Pattern) + Len(ParserCall))

VARIABLES
  engine,          \* "vbscript" or "jscript"
  layout, memory,  \* the image
  i,               \* the section FindDataInDLL is at
  index,           \* the result of a search, as an unsigned number
  compileAddress, parserAddress,
  at               \* "sections", "compile", "window", "parser", "hook" or "fault"

input == <<engine, layout, memory>>
vars == <<input, i, index, compileAddress, parserAddress, at>>

Init ==
  /\ engine \in {"vbscript", "jscript"}
  /\ layout \in Layouts
  /\ \E image \in [Mapped(layout) -> Byte] :
       memory = [a \in Address |-> IF a \in Mapped(layout) THEN image[a] ELSE Unmapped]
  /\ i = 1
  /\ index = 0
  /\ compileAddress = 0
  /\ parserAddress = 0
  /\ at = "sections"

-----------------------------------------------------------------------------
(* unsigned int                                                            *)
Plus(a, b) == (a + b) % Space
MinusOne == Space - 1

Readable(a, size) == \A k \in 0 .. size - 1 : memory[Plus(a, k)] # Unmapped

(* *(unsigned int* ) a                                                     *)
WordAt(a) == Word[[k \in 0 .. WordSize - 1 |-> memory[Plus(a, k)]]]

(* The bytes p begin k bytes behind a, and end at most size bytes behind a. *)
Occurs(p, a, size, k) ==
  /\ k + Len(p) <= size
  /\ \A n \in 1 .. Len(p) : memory[Plus(a, k + n - 1)] = p[n]

Hits(p, a, size) == {k \in 0 .. size - 1 : Occurs(p, a, size, k)}
First(hits) == CHOOSE k \in hits : \A l \in hits : k <= l

-----------------------------------------------------------------------------
(* One iteration of the loop of FindDataInDLL                              *)
SearchSection(found) ==
  /\ at = "sections" /\ i <= Len(layout)
  /\ LET s == layout[i]
     IN  /\ Hits(Pattern, s.first, s.size) # {}
         /\ index' = found
  /\ at' = "compile"
  /\ UNCHANGED <<input, i, compileAddress, parserAddress>>
FoundInSectionUnbased ==
  SearchSection(First(Hits(Pattern, layout[i].first, layout[i].size)))
FoundInSection ==
  SearchSection(Plus(layout[i].first, First(Hits(Pattern, layout[i].first, layout[i].size))))

NextSection ==
  /\ at = "sections" /\ i <= Len(layout)
  /\ Hits(Pattern, layout[i].first, layout[i].size) = {}
  /\ i' = i + 1
  /\ UNCHANGED <<input, index, compileAddress, parserAddress, at>>

(* return -1                                                               *)
NotInSections ==
  /\ at = "sections" /\ i > Len(layout)
  /\ index' = MinusOne
  /\ at' = "compile"
  /\ UNCHANGED <<input, i, compileAddress, parserAddress>>

(* ( *(unsigned int* )(index + length)) + (index + (length - 1) + 5): the  *)
(* displacement counts from the end of the call.                           *)
CalleeUnwrapped(length) ==
  WordAt(Plus(index, length)) + Plus(index, length - 1 + 1 + WordSize)
CalleeOfOpcode(length) ==
  Plus(WordAt(Plus(index, length)), Plus(index, length - 1 + WordSize))
Callee(length) ==
  Plus(WordAt(Plus(index, length)), Plus(index, length - 1 + 1 + WordSize))

FollowCompileCall ==
  /\ at = "compile"
  /\ Readable(Plus(index, Len(Pattern)), WordSize)
  /\ compileAddress' = Callee(Len(Pattern))
  /\ at' = IF engine = "vbscript" THEN "hook" ELSE "window"
  /\ UNCHANGED <<input, i, index, parserAddress>>

(* FindData: the search reads on until its first occurrence is complete.   *)
FoundInWindow ==
  LET hits == Hits(ParserCall, compileAddress, Window)
  IN  /\ at = "window"
      /\ hits # {}
      /\ Readable(compileAddress, First(hits))
      /\ index' = Plus(compileAddress, First(hits))
      /\ at' = "parser"
      /\ UNCHANGED <<input, i, compileAddress, parserAddress>>

NotInWindow ==
  /\ at = "window"
  /\ Hits(ParserCall, compileAddress, Window) = {}
  /\ Readable(compileAddress, Window)
  /\ index' = MinusOne
  /\ at' = "parser"
  /\ UNCHANGED <<input, i, compileAddress, parserAddress>>

FollowParserCall ==
  /\ at = "parser"
  /\ Readable(Plus(index, Len(ParserCall)), WordSize)
  /\ parserAddress' = Callee(Len(ParserCall))
  /\ at' = "hook"
  /\ UNCHANGED <<input, i, index, compileAddress>>

(* A read of an address that nothing is mapped to ends the target.         *)
ReadFaults ==
  /\ \/ at = "compile" /\ ~Readable(Plus(index, Len(Pattern)), WordSize)
     \/ at = "parser" /\ ~Readable(Plus(index, Len(ParserCall)), WordSize)
     \/ /\ at = "window"
        /\ LET hits == Hits(ParserCall, compileAddress, Window)
           IN  ~Readable(compileAddress, IF hits = {} THEN Window ELSE First(hits))
  /\ at' = "fault"
  /\ UNCHANGED <<input, i, index, compileAddress, parserAddress>>

Next ==
  \/ FoundInSection \/ NextSection \/ NotInSections
  \/ FollowCompileCall
  \/ FoundInWindow \/ NotInWindow
  \/ FollowParserCall
  \/ ReadFaults

Spec == Init /\ [][Next]_vars

-----------------------------------------------------------------------------
(* Properties                                                              *)

(* Every variable holds a value of its kind.                               *)
TypeOK ==
  /\ engine \in {"vbscript", "jscript"}
  /\ layout \in Layouts
  /\ memory \in [Address -> Byte \cup {Unmapped}]
  /\ i \in 1 .. Len(layout) + 1
  /\ {index, compileAddress, parserAddress} \subseteq Address
  /\ at \in {"sections", "compile", "window", "parser", "hook", "fault"}

(* Where the processor goes from a call at c.  The code knows a call by    *)
(* its opcode alone, so IsCall takes any such byte for one.                *)
CallTarget(c) == Plus(WordAt(Plus(c, 1)), Plus(c, 1 + WordSize))
IsCall(c) == memory[c] = CallOpcode /\ Readable(Plus(c, 1), WordSize)

(* The call that the pattern ends with, in the first section that has it.  *)
HitSections == {n \in DOMAIN layout : Hits(Pattern, layout[n].first, layout[n].size) # {}}
CompileCalls ==
  {Plus(layout[n].first, First(Hits(Pattern, layout[n].first, layout[n].size))
                           + Len(Pattern) - 1) :
     n \in {n \in HitSections : \A k \in HitSections : n <= k}}

(* The function that is hooked is one that the engine calls: the callee of *)
(* the first call marked by the pattern, and for JScript the callee of a   *)
(* call within the first bytes of that one.  An image without the pattern  *)
(* gets no hook at all, for the unchecked -1 never leads to one.           *)
HookedIsCallee ==
  at = "hook" =>
    \E c \in CompileCalls :
      /\ IsCall(c)
      /\ compileAddress = CallTarget(c)
      /\ engine = "jscript" =>
           \E k \in 0 .. Window - 1 :
             LET d == Plus(compileAddress, k)
             IN  IsCall(d) /\ parserAddress = CallTarget(d)

(* The target is ended by the search only if the image is not one of the   *)
(* versions the patterns were taken from: the pattern or the displacement  *)
(* behind it is not there, or the second call is not in the window.        *)
FaultsOnlyOnOtherVersions ==
  at = "fault" =>
    \A c \in CompileCalls :
      IsCall(c) =>
        /\ engine = "jscript"
        /\ \A k \in 0 .. Window - Len(ParserCall) :
             /\ Occurs(ParserCall, CallTarget(c), Window, k)
             /\ Readable(CallTarget(c), k)
             => \E l \in 0 .. k : /\ Occurs(ParserCall, CallTarget(c), Window, l)
                                  /\ ~IsCall(Plus(CallTarget(c), l + Len(ParserCall) - 1))
=============================================================================
