------------------------------- MODULE PipeCodec -------------------------------
(***************************************************************************)
(* A message of PipeLink in bytes: what GetString, GetInt and SendLog      *)
(* write (HookClr/NamedPipeIO.cpp), and what NamedPipeLoop makes of it     *)
(* with ReadFile and sscanf (ClrDumper/Source.cpp).  The pipe is a stream: *)
(* a read takes what is there, up to MAX_BUFFER bytes, into a buffer that  *)
(* keeps its older bytes behind them.                                      *)
(*                                                                         *)
(* As in PipeLink one write is under way at a time, and it is over when    *)
(* its last byte is read.  A log text begins with "[" and a key with a     *)
(* letter, so that %d stops after one digit.  The newline that some log    *)
(* texts end with stops %[^\n] where their NUL would, and is left out.  A   *)
(* text longer than Log's own array is undefined before it gets here.      *)
(*                                                                         *)
(* The longest text, of 255 bytes, is one byte too long for either side.   *)
(* SendLog's sprintf puts its NUL behind buffer[256], and sscanf may find  *)
(* a 256th character and put the NUL behind msg[256].  overrun remembers   *)
(* whose stack that was.  The compiler keeps arrays above plain variables, *)
(* so the NUL lands in the other array, in padding, or in the cookie that  *)
(* is looked at when the function returns and then ends the process; in    *)
(* the DLL's build without cookies it may be what the return needs.        *)
(***************************************************************************)
EXTENDS Integers, Sequences, SequencesExt

CONSTANTS
  MaxBuffer,  \* MAX_BUFFER, on both sides, and the width in "%256[^\n]"
  Letters,    \* bytes of a text
  Keys,       \* what is asked for
  MaxPosts    \* bound: messages of the target

GET_KEY_STRING == 0
LOG_MSG == 1
GET_KEY_INT == 2
NUL == -1
Kinds == {GET_KEY_STRING, LOG_MSG, GET_KEY_INT}
Bytes == Letters \cup Kinds \cup {NUL}

ASSUME LettersAssumption == Letters \cap (Kinds \cup {NUL}) = {}
ASSUME SizeAssumption == MaxBuffer \in Nat /\ MaxBuffer > 2 /\ MaxPosts \in Nat
ASSUME KeysAssumption ==
  \A k \in Keys : k \in Seq(Letters) /\ Len(k) \in 1 .. MaxBuffer - 2

VARIABLES
  wire,      \* bytes of the write under way that are not read yet
  buffer,    \* NamedPipeLoop's buffer
  from,      \* history: the message whose bytes were read last
  type, msg, \* NamedPipeLoop's variables of that name
  loop,      \* NamedPipeLoop: "reading", "parsing", "done", or "crashed" in returning
  target,    \* the target: "up" or "gone"
  overrun,   \* history: on which sides a NUL was written behind an array
  posted,    \* history: the messages written
  acts       \* history: what NamedPipeLoop has acted upon

vars == <<wire, buffer, from, type, msg, loop, target, overrun, posted, acts>>

(* char log[256] holds this much of a text, and its NUL.                   *)
LogCapacity == MaxBuffer - 1

Init ==
  /\ wire = <<>>
  /\ \E junk \in Bytes : buffer = [i \in 1 .. MaxBuffer |-> junk]
  /\ from = 0
  /\ type \in Kinds
  /\ msg = <<>>
  /\ loop = "reading"
  /\ target = "up"
  /\ overrun = {}
  /\ posted = <<>>
  /\ acts = <<>>

-----------------------------------------------------------------------------
(* sprintf(buffer, "%d%s\0", ...), and strlen + 2 bytes of it: WriteFile   *)
(* takes the NUL along wherever it has been put.                           *)
EncodedNoNul(kind, text) == <<kind>> \o text
Encoded(kind, text) == <<kind>> \o text \o <<NUL>>

Post(kind, text) ==
  /\ target = "up"
  /\ wire = <<>>
  /\ Len(posted) < MaxPosts
  /\ wire' = Encoded(kind, text)
  /\ posted' = Append(posted, [kind |-> kind, text |-> text])
  /\ overrun' = IF Len(Encoded(kind, text)) > MaxBuffer THEN overrun \cup {"target"} ELSE overrun
  /\ UNCHANGED <<buffer, from, type, msg, loop, target, acts>>

GetString == \E k \in Keys : Post(GET_KEY_STRING, k)
GetInt    == \E k \in Keys : Post(GET_KEY_INT, k)
SendLog   == \E n \in 1 .. LogCapacity : \E s \in [1 .. n -> Letters] : Post(LOG_MSG, s)

(* The process ends, for whatever reason, a spoilt stack in SendLog being  *)
(* one; what is unread of its write is withdrawn.                          *)
EndTarget ==
  /\ target = "up"
  /\ target' = "gone"
  /\ wire' = <<>>
  /\ UNCHANGED <<buffer, from, type, msg, loop, overrun, posted, acts>>

(* ReadFile(_reader_pipe, buffer, MAX_BUFFER, &n, NULL)                    *)
ReadSizeHalf == MaxBuffer \div 2
ReadSizeLeavesRoom == MaxBuffer - 1
ReadSize == MaxBuffer

ReadPiece ==
  LET n == IF Len(wire) < ReadSize THEN Len(wire) ELSE ReadSize
  IN  /\ loop = "reading"
      /\ wire # <<>>
      /\ buffer' = [i \in 1 .. MaxBuffer |-> IF i <= n THEN wire[i] ELSE buffer[i]]
      /\ wire' = SubSeq(wire, n + 1, Len(wire))
      /\ from' = Len(posted)
      /\ loop' = "parsing"
      /\ UNCHANGED <<type, msg, target, overrun, posted, acts>>

(* ReadFile takes nothing, and NamedPipeLoop returns, if its stack lets it. *)
ReadEnds ==
  /\ loop = "reading"
  /\ target = "gone"
  /\ loop' = "done" \/ ("dumper" \in overrun /\ loop' = "crashed")
  /\ UNCHANGED <<wire, buffer, from, type, msg, target, overrun, posted, acts>>

(* What "%256[^\n]" takes from the second byte on.  Without a NUL in the   *)
(* buffer it goes on in the byte behind it, which may be anything.         *)
TextWithNul(bytes) == SubSeq(bytes, 2, Len(bytes))
Text(bytes) ==
  LET stop == CHOOSE i \in 2 .. Len(bytes) + 1 :
                /\ i = Len(bytes) + 1 \/ bytes[i] = NUL
                /\ \A k \in 2 .. i - 1 : bytes[k] # NUL
  IN  SubSeq(bytes, 2, stop - 1)

(* The NUL of a text that fills msg goes behind it, where buffer may be.   *)
StoreNul(text) ==
  IF Len(text) < MaxBuffer THEN UNCHANGED <<buffer, overrun>>
  ELSE /\ overrun' = overrun \cup {"dumper"}
       /\ buffer' \in {buffer, [buffer EXCEPT ![1] = NUL]}

(* sscanf(buffer, "%d%256[^\n]", &type, msg): where a conversion fails,    *)
(* the variables keep the values of the message before.                    *)
Sscanf ==
  \E behind \in Letters \cup {NUL} :
    LET text == Text(Append(buffer, behind))
    IN  IF buffer[1] \in Kinds
        THEN /\ type' = buffer[1]
             /\ msg' = IF text # <<>> THEN text ELSE msg
             /\ StoreNul(text)
        ELSE UNCHANGED <<type, msg, buffer, overrun>>

ParseAndAct ==
  /\ loop = "parsing"
  /\ Sscanf
  /\ acts' = Append(acts, [kind |-> type', text |-> msg', from |-> from])
  /\ loop' = "reading"
  /\ UNCHANGED <<wire, from, target, posted>>

Next == GetString \/ GetInt \/ SendLog \/ EndTarget \/ ReadPiece \/ ReadEnds \/ ParseAndAct

Spec == Init /\ [][Next]_vars

-----------------------------------------------------------------------------
(* Properties                                                              *)

Fits(m) == Len(m.text) <= MaxBuffer - 2

(* Every variable holds a value of its kind.  msg has its NUL behind its   *)
(* MaxBuffer bytes only where that is known to have happened.              *)
TypeOK ==
  /\ wire \in Seq(Bytes) /\ Len(wire) <= MaxBuffer + 1
  /\ buffer \in [1 .. MaxBuffer -> Bytes]
  /\ from \in 0 .. Len(posted)
  /\ type \in Kinds
  /\ msg \in Seq(Letters) /\ Len(msg) <= MaxBuffer
  /\ Len(msg) = MaxBuffer => "dumper" \in overrun
  /\ loop \in {"reading", "parsing", "done", "crashed"}
  /\ target \in {"up", "gone"}
  /\ overrun \subseteq {"target", "dumper"}
  /\ Len(posted) <= MaxPosts
  /\ \A m \in ToSet(posted) : m.kind \in Kinds /\ m.text \in Seq(Letters)

(* NamedPipeLoop's msg is left only by a text with which SendLog has left  *)
(* its own buffer: a DLL that stays within buffer[256] leaves the dumper's *)
(* stack alone, over whatever the loop's buffer has held and whatever is   *)
(* behind it, and does not bring the dumper down when it ends.             *)
OverrunStartsInTarget ==
  "dumper" \in overrun \/ loop = "crashed" =>
    "target" \in overrun /\ \E m \in ToSet(posted) : m.kind = LOG_MSG /\ ~Fits(m)

(* What NamedPipeLoop acts upon is what the DLL wrote: the same kind and   *)
(* the same text, although the buffer still holds the longer messages of   *)
(* before and type and msg may be left over; a log text of the greatest    *)
(* length may get a byte too many, and nothing else may happen to it.      *)
ActsAsPosted ==
  \A a \in ToSet(acts) :
    LET m == posted[a.from]
    IN  /\ a.from > 0
        /\ a.kind = m.kind
        /\ IF Fits(m) THEN a.text = m.text
           ELSE IsPrefix(m.text, a.text) /\ Len(a.text) <= Len(m.text) + 1

(* A message that fits is acted upon once, before any later one: a request *)
(* never gets two replies, of which the second would answer the next       *)
(* request.  A log text of the greatest length is printed at most twice.   *)
ServedOnceInOrder ==
  /\ \A i, k \in DOMAIN acts : i < k =>
       /\ acts[i].from <= acts[k].from
       /\ acts[i].from = acts[k].from => ~Fits(posted[acts[i].from]) /\ k = i + 1
  /\ loop = "reading" /\ wire = <<>> =>
       \A n \in 1 .. Len(posted) : target = "up" => \E a \in ToSet(acts) : a.from = n

(* Seen through ReadFile and sscanf the bytes are the pipe of records that *)
(* PipeLink takes for granted: messages are taken whole, one at a time, in *)
(* order, and none is dropped or invented while the target lives; all that *)
(* the bytes add is that the longest log text is printed twice.            *)
Posts    == [kind : Kinds, text : Seq(Letters)]
Unread   == IF wire # <<>> /\ from < Len(posted) THEN <<Last(posted)>> ELSE <<>>
LeftOver == IF wire # <<>> /\ from = Len(posted) THEN <<Last(posted)>> ELSE <<>>
Buffered == IF loop = "parsing" THEN <<posted[from]>> ELSE <<>>
P == INSTANCE RecordPipe WITH
       Messages <- Posts,
       Longest  <- {m \in Posts : ~Fits(m)},
       writing  <- target = "up",
       up       <- Unread,
       again    <- LeftOver,
       buf      <- Buffered,
       served   <- acts

ImplementsRecordPipe == P!Spec
=============================================================================
