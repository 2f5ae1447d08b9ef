---------------------------- MODULE PipeCodecProofs ----------------------------
(* Theorems about PipeCodec, for every size of the buffer.                 *)
EXTENDS PipeCodec, TLAPS

Acts == [kind : Kinds, text : Seq(Letters), from : Nat]

(* What GetString, GetInt and SendLog may write.                           *)
PostOK(m) ==
  /\ Len(m.text) \in 1 .. LogCapacity
  /\ m.kind # LOG_MSG => Fits(m)

Histories ==
  /\ posted \in Seq(Posts) /\ \A n \in 1 .. Len(posted) : PostOK(posted[n])
  /\ acts \in Seq(Acts) /\ \A i \in 1 .. Len(acts) : acts[i].from \in 1 .. from

(* What a message may be taken for.                                        *)
Reads(m, k, t) ==
  /\ k = m.kind
  /\ IF Fits(m) THEN t = m.text
     ELSE IsPrefix(m.text, t) /\ Len(t) <= Len(m.text) + 1

(* The write under way is all of the last message, or its NUL alone, when  *)
(* the rest filled the buffer.                                             *)
Whole ==
  /\ from < Len(posted)
  /\ wire = Encoded(posted[Len(posted)].kind, posted[Len(posted)].text)
Rest ==
  /\ from = Len(posted) /\ from > 0
  /\ ~Fits(posted[from])
  /\ wire = <<NUL>>

(* The buffer holds the message m, over what it held before.               *)
Held(m) ==
  /\ buffer[1] = m.kind
  /\ \A k \in 1 .. Len(m.text) : buffer[k + 1] = m.text[k]
  /\ Fits(m) => buffer[Len(m.text) + 2] = NUL

(* The message read last has not been acted upon, or once.                 *)
NotYet == \A i \in 1 .. Len(acts) : acts[i].from < from
Once ==
  /\ ~Fits(posted[from])
  /\ Reads(posted[from], type, msg)
  /\ Len(acts) > 0 /\ acts[Len(acts)].from = from
  /\ \A i \in 1 .. Len(acts) - 1 : acts[i].from < from

Acted(n) == \E i \in 1 .. Len(acts) : acts[i].from = n

CodecInv ==
  /\ TypeOK
  /\ Histories
  /\ wire # <<>> => Whole \/ Rest
  /\ loop = "parsing" =>
       /\ from > 0
       /\ \/ Held(posted[from]) /\ NotYet
          \/ buffer[1] = NUL /\ Once
  /\ Rest => IF loop = "parsing" THEN Held(posted[from]) ELSE Once
  /\ \A i \in 1 .. Len(acts) : Reads(posted[acts[i].from], acts[i].kind, acts[i].text)
  /\ \A i, k \in 1 .. Len(acts) : i < k =>
       /\ acts[i].from <= acts[k].from
       /\ acts[i].from = acts[k].from => ~Fits(posted[acts[i].from]) /\ k = i + 1
  /\ target = "up" => \A n \in 1 .. Len(posted) :
       Acted(n) \/ (loop = "parsing" /\ n = from) \/ (Whole /\ n = Len(posted))

-----------------------------------------------------------------------------
(* "%[^\n]" takes the bytes before the first NUL.                          *)
LEMMA TextStops ==
  ASSUME NEW bytes \in Seq(Bytes), NEW n \in Nat, n < Len(bytes),
         \A k \in 2 .. n + 1 : bytes[k] # NUL,
         n + 1 = Len(bytes) \/ bytes[n + 2] = NUL
  PROVE  Text(bytes) = SubSeq(bytes, 2, n + 1)
  <1> DEFINE Stop(i) == /\ i = Len(bytes) + 1 \/ bytes[i] = NUL
                        /\ \A k \in 2 .. i - 1 : bytes[k] # NUL
             stop == CHOOSE i \in 2 .. Len(bytes) + 1 : Stop(i)
  <1>1. n + 2 \in 2 .. Len(bytes) + 1 /\ Stop(n + 2)
    OBVIOUS
  <1>2. stop \in 2 .. Len(bytes) + 1 /\ Stop(stop)
    <2> HIDE DEF Stop
    <2>. QED BY <1>1
  <1>3. stop = n + 2
    <2>1. ~(stop < n + 2)
      BY <1>2
    <2>2. ~(n + 2 < stop)
      BY <1>2, <1>1
    <2>. QED BY <2>1, <2>2, <1>2
  <1>4. Text(bytes) = SubSeq(bytes, 2, stop - 1)
    BY DEF Text
  <1> HIDE DEF stop
  <1>. QED BY <1>3, <1>4

LEMMA InitInv == Init => CodecInv
  <1> SUFFICES ASSUME Init PROVE CodecInv
    OBVIOUS
  <1>1. TypeOK
    BY SizeAssumption DEF Init, TypeOK, Bytes, ToSet
  <1>2. Histories /\ ~Rest
    BY DEF Init, Histories, Rest
  <1>. QED BY <1>1, <1>2 DEF Init, CodecInv

LEMMA EncodedFacts ==
  ASSUME NEW kind \in Kinds, NEW text \in Seq(Letters)
  PROVE  /\ Encoded(kind, text) \in Seq(Bytes)
         /\ Len(Encoded(kind, text)) = Len(text) + 2
         /\ Encoded(kind, text)[1] = kind
         /\ \A k \in 1 .. Len(text) : Encoded(kind, text)[k + 1] = text[k]
         /\ Encoded(kind, text)[Len(text) + 2] = NUL
  BY DEF Encoded, Bytes

-----------------------------------------------------------------------------
(* The target                                                              *)

LEMMA PostStep ==
  ASSUME CodecInv, NEW kind \in Kinds, NEW text \in Seq(Letters),
         PostOK([kind |-> kind, text |-> text]),
         Post(kind, text)
  PROVE  CodecInv'
  <1> DEFINE m == [kind |-> kind, text |-> text]
  <1>0. /\ posted' = Append(posted, m) /\ m \in Posts /\ m.kind = kind /\ m.text = text
        /\ Len(posted') = Len(posted) + 1 /\ posted'[Len(posted')] = m
        /\ \A n \in 1 .. Len(posted) : posted'[n] = posted[n]
        /\ posted \in Seq(Posts) /\ posted' \in Seq(Posts)
    BY DEF Post, Posts, CodecInv, Histories
  <1>1. UNCHANGED <<buffer, from, type, msg, loop, target, acts>> /\ from \in 0 .. Len(posted)
    BY DEF Post, CodecInv, TypeOK
  <1>2. wire' = Encoded(kind, text) /\ overrun \subseteq overrun' /\ overrun' \subseteq overrun \cup {"target"}
    BY DEF Post
  <1>3. TypeOK'
    <2>1. wire' \in Seq(Bytes) /\ Len(wire') <= MaxBuffer + 1
      BY <1>2, EncodedFacts, SizeAssumption DEF PostOK, LogCapacity
    <2>2. Len(posted') <= MaxPosts
      BY <1>0, SizeAssumption DEF Post
    <2>3. \A p \in ToSet(posted)' : p.kind \in Kinds /\ p.text \in Seq(Letters)
      <3>1. \A p \in ToSet(posted)' : p \in Posts
        BY <1>0 DEF ToSet
      <3>. QED BY <3>1 DEF Posts
    <2>4. overrun' \subseteq {"target", "dumper"} /\ (Len(msg') = MaxBuffer => "dumper" \in overrun')
      BY <1>1, <1>2 DEF CodecInv, TypeOK
    <2>. QED BY <1>0, <1>1, <2>1, <2>2, <2>3, <2>4 DEF CodecInv, TypeOK
  <1>4. Histories'
    BY <1>0, <1>1 DEF CodecInv, Histories, PostOK, Fits
  <1>5. Whole' /\ ~Rest'
    BY <1>0, <1>1, <1>2 DEF Whole, Rest
  <1>6. from > 0 => posted'[from] = posted[from]
    BY <1>0, <1>1
  <1>7. from > 0 => /\ Held(posted[from]) => Held(posted[from])'
                    /\ Once => Once'
    BY <1>1, <1>6 DEF Held, Once, Reads, Fits
  <1>8. NotYet => NotYet'
    BY <1>1 DEF NotYet
  <1>9. \A k \in 1 .. Len(acts) : posted'[acts[k].from] = posted[acts[k].from]
    BY <1>0, <1>1 DEF CodecInv, Histories
  <1>10. \A k \in 1 .. Len(acts') : Reads(posted[acts[k].from], acts[k].kind, acts[k].text)'
    BY <1>1, <1>9 DEF CodecInv, Reads, Fits
  <1>11. \A n \in 1 .. Len(posted') : n = Len(posted') \/ n \in 1 .. Len(posted)
    BY <1>0
  <1>12. ~Whole
    <2> SUFFICES ASSUME Whole PROVE FALSE
      OBVIOUS
    <2>1. posted[Len(posted)] \in Posts
      BY <1>0, <1>1 DEF Whole
    <2>2. Len(wire) = Len(posted[Len(posted)].text) + 2 /\ posted[Len(posted)].text \in Seq(Letters)
      BY <2>1, EncodedFacts DEF Whole, Posts
    <2>. QED BY <2>2 DEF Post
  <1>13. target' = "up" => \A n \in 1 .. Len(posted') :
           Acted(n)' \/ (loop' = "parsing" /\ n = from') \/ (Whole' /\ n = Len(posted'))
    BY <1>1, <1>5, <1>11, <1>12 DEF CodecInv, Acted
  <1>14. \A j, k \in 1 .. Len(acts') : j < k =>
           /\ acts'[j].from <= acts'[k].from
           /\ acts'[j].from = acts'[k].from => ~Fits(posted[acts[j].from])' /\ k = j + 1
    BY <1>1, <1>9 DEF CodecInv, Fits
  <1>. QED BY <1>1, <1>3, <1>4, <1>5, <1>7, <1>8, <1>10, <1>13, <1>14 DEF CodecInv

LEMMA TargetPosts == CodecInv /\ (GetString \/ GetInt \/ SendLog) => CodecInv'
  <1> USE DEF Kinds, GET_KEY_STRING, GET_KEY_INT, LOG_MSG
  <1>1. ASSUME CodecInv, GetString \/ GetInt PROVE CodecInv'
    <2>1. PICK k \in Keys, kind \in {GET_KEY_STRING, GET_KEY_INT} : Post(kind, k)
      BY <1>1 DEF GetString, GetInt
    <2>2. k \in Seq(Letters) /\ PostOK([kind |-> kind, text |-> k])
      BY KeysAssumption, SizeAssumption DEF PostOK, Fits, LogCapacity
    <2>. QED BY <1>1, <2>1, <2>2, PostStep
  <1>2. ASSUME CodecInv, SendLog PROVE CodecInv'
    <2>1. PICK n \in 1 .. LogCapacity : \E t \in [1 .. n -> Letters] : Post(LOG_MSG, t)
      BY <1>2 DEF SendLog
    <2>2. PICK t \in [1 .. n -> Letters] : Post(LOG_MSG, t)
      BY <2>1
    <2>3. t \in Seq(Letters) /\ Len(t) = n
      BY SizeAssumption DEF LogCapacity
    <2>4. PostOK([kind |-> LOG_MSG, text |-> t])
      BY <2>3 DEF PostOK
    <2>. QED BY <1>2, <2>2, <2>3, <2>4, PostStep
  <1>. QED BY <1>1, <1>2

LEMMA EndStep == CodecInv /\ EndTarget => CodecInv'
  <1> SUFFICES ASSUME CodecInv, EndTarget PROVE CodecInv'
    OBVIOUS
  <1>1. wire' = <<>> /\ target' = "gone"
        /\ UNCHANGED <<buffer, from, type, msg, loop, overrun, posted, acts>>
    BY DEF EndTarget
  <1>2. TypeOK' /\ Histories'
    <2>1. wire' \in Seq(Bytes) /\ Len(wire') <= MaxBuffer + 1
      BY <1>1, SizeAssumption
    <2>2. ToSet(posted)' = ToSet(posted)
      BY <1>1
    <2>3. TypeOK'
      BY <1>1, <2>1, <2>2 DEF CodecInv, TypeOK
    <2>. QED BY <1>1, <2>3 DEF CodecInv, Histories, PostOK, Fits
  <1>3. ~Rest'
    BY <1>1 DEF Rest
  <1>4. loop = "parsing" => from > 0 /\ (\/ Held(posted[from])' /\ NotYet'
                                         \/ buffer'[1] = NUL /\ Once')
    BY <1>1 DEF CodecInv, Held, NotYet, Once, Reads, Fits
  <1>5. \A i \in 1 .. Len(acts') : Reads(posted[acts[i].from], acts[i].kind, acts[i].text)'
    BY <1>1 DEF CodecInv, Reads, Fits
  <1>6. \A i, k \in 1 .. Len(acts') : i < k =>
           /\ acts'[i].from <= acts'[k].from
           /\ acts'[i].from = acts'[k].from => ~Fits(posted[acts[i].from])' /\ k = i + 1
    BY <1>1 DEF CodecInv, Fits
  <1>. QED BY <1>1, <1>2, <1>3, <1>4, <1>5, <1>6 DEF CodecInv

-----------------------------------------------------------------------------
(* NamedPipeLoop                                                           *)

LEMMA ReadWhole == CodecInv /\ Whole /\ ReadPiece => CodecInv'
  <1> SUFFICES ASSUME CodecInv, Whole, ReadPiece PROVE CodecInv'
    OBVIOUS
  <1> DEFINE m == posted[Len(posted)]
             n == IF Len(wire) < MaxBuffer THEN Len(wire) ELSE MaxBuffer
  <1>1. /\ m \in Posts /\ PostOK(m) /\ Len(m.text) \in 1 .. MaxBuffer - 1
        /\ Len(posted) \in Nat \ {0} /\ from \in Nat /\ from < Len(posted)
    BY DEF Whole, CodecInv, TypeOK, Histories, PostOK, LogCapacity
  <1>2. /\ wire \in Seq(Bytes) /\ Len(wire) = Len(m.text) + 2 /\ wire[1] = m.kind
        /\ \A k \in 1 .. Len(m.text) : wire[k + 1] = m.text[k]
        /\ wire[Len(m.text) + 2] = NUL
    BY <1>1, EncodedFacts DEF Whole, Posts
  <1>3. /\ buffer' = [i \in 1 .. MaxBuffer |-> IF i <= n THEN wire[i] ELSE buffer[i]]
        /\ wire' = SubSeq(wire, n + 1, Len(wire))
        /\ from' = Len(posted) /\ loop = "reading" /\ loop' = "parsing"
        /\ UNCHANGED <<type, msg, target, overrun, posted, acts>>
    BY DEF ReadPiece, ReadSize
  <1>4. n \in 2 .. MaxBuffer /\ n <= Len(wire)
        /\ IF Fits(m) THEN n = Len(wire) ELSE n = MaxBuffer /\ Len(wire) = MaxBuffer + 1
    BY <1>1, <1>2, SizeAssumption DEF Fits, Posts
  <1>5. Held(m)'
    <2>1. posted'[Len(posted')] = m /\ m' = m
      BY <1>3
    <2>2. /\ buffer'[1] = m.kind
          /\ \A k \in 1 .. Len(m.text) : buffer'[k + 1] = m.text[k]
          /\ Fits(m) => buffer'[Len(m.text) + 2] = NUL
      BY <1>1, <1>2, <1>3, <1>4, SizeAssumption DEF Fits
    <2>. QED BY <2>1, <2>2 DEF Held, Fits
  <1>6. wire' = <<>> \/ Rest'
    <2>1. CASE Fits(m)
      BY <2>1, <1>2, <1>3, <1>4
    <2>2. CASE ~Fits(m)
      <3>1. wire' \in Seq(Bytes) /\ Len(wire') = 1 /\ wire'[1] = NUL
        BY <2>2, <1>1, <1>2, <1>3, <1>4, SizeAssumption
      <3>2. wire' = <<NUL>>
        BY <3>1
      <3>. QED BY <3>2, <2>2, <1>1, <1>3 DEF Rest, Fits
    <2>. QED BY <2>1, <2>2
  <1>7. TypeOK'
    <2>1. wire' \in Seq(Bytes) /\ Len(wire') <= MaxBuffer + 1
      <3>1. wire' = <<>> \/ wire' = <<NUL>>
        BY <1>6 DEF Rest
      <3>2. NUL \in Bytes
        BY DEF Bytes
      <3>3. <<>> \in Seq(Bytes) /\ <<NUL>> \in Seq(Bytes)
        BY <3>2
      <3>4. Len(<<>>) <= MaxBuffer + 1 /\ Len(<<NUL>>) <= MaxBuffer + 1
        BY SizeAssumption
      <3>. QED BY <3>1, <3>3, <3>4
    <2>2. buffer' \in [1 .. MaxBuffer -> Bytes]
      BY <1>2, <1>3, <1>4, SizeAssumption DEF CodecInv, TypeOK
    <2>3. from' \in 0 .. Len(posted)' /\ ToSet(posted)' = ToSet(posted)
      BY <1>1, <1>3
    <2>. QED BY <1>3, <2>1, <2>2, <2>3 DEF CodecInv, TypeOK
  <1>8. Histories' /\ NotYet'
    <2>1. \A i \in 1 .. Len(acts) : acts[i].from \in 1 .. from
      BY DEF CodecInv, Histories
    <2>2. \A i \in 1 .. Len(acts) : acts[i].from \in 1 .. from' /\ acts[i].from < from'
      BY <2>1, <1>1, <1>3
    <2>3. \A k \in 1 .. Len(posted') : PostOK(posted[k])'
      BY <1>3 DEF CodecInv, Histories, PostOK, Fits
    <2>. QED BY <1>3, <2>2, <2>3 DEF CodecInv, Histories, NotYet
  <1>9. \A i \in 1 .. Len(acts') : Reads(posted[acts[i].from], acts[i].kind, acts[i].text)'
    BY <1>3 DEF CodecInv, Reads, Fits
  <1>10. \A i, k \in 1 .. Len(acts') : i < k =>
           /\ acts'[i].from <= acts'[k].from
           /\ acts'[i].from = acts'[k].from => ~Fits(posted[acts[i].from])' /\ k = i + 1
    BY <1>3 DEF CodecInv, Fits
  <1>11. target' = "up" => \A k \in 1 .. Len(posted') : Acted(k)' \/ k = from'
    BY <1>3 DEF CodecInv, Acted
  <1>12. from' > 0 /\ Held(posted[from])'
    BY <1>1, <1>3, <1>5 DEF Held, Fits
  <1>. QED BY <1>3, <1>6, <1>7, <1>8, <1>9, <1>10, <1>11, <1>12 DEF CodecInv

LEMMA ReadRest == CodecInv /\ Rest /\ ReadPiece => CodecInv'
  <1> SUFFICES ASSUME CodecInv, Rest, ReadPiece PROVE CodecInv'
    OBVIOUS
  <1>1. Len(wire) = 1 /\ wire[1] = NUL /\ from = Len(posted) /\ from \in Nat \ {0}
    BY DEF Rest, CodecInv, TypeOK
  <1>2. /\ buffer' = [i \in 1 .. MaxBuffer |-> IF i <= 1 THEN wire[i] ELSE buffer[i]]
        /\ wire' = SubSeq(wire, 2, 1)
        /\ from' = from /\ loop = "reading" /\ loop' = "parsing"
        /\ UNCHANGED <<type, msg, target, overrun, posted, acts>>
    BY <1>1, SizeAssumption DEF ReadPiece, ReadSize
  <1>3. wire' = <<>> /\ buffer'[1] = NUL
    BY <1>1, <1>2, SizeAssumption
  <1>4. TypeOK'
    <2>1. buffer' \in [1 .. MaxBuffer -> Bytes]
      BY <1>1, <1>2, SizeAssumption DEF CodecInv, TypeOK, Bytes
    <2>2. ToSet(posted)' = ToSet(posted)
      BY <1>2
    <2>. QED BY <1>2, <1>3, <2>1, <2>2, SizeAssumption DEF CodecInv, TypeOK
  <1>5. Histories'
    BY <1>2 DEF CodecInv, Histories, PostOK, Fits
  <1>6. Once'
    BY <1>2 DEF CodecInv, Once, Reads, Fits
  <1>7. ~Rest' /\ from' > 0
    BY <1>1, <1>2, <1>3 DEF Rest
  <1>8. \A i \in 1 .. Len(acts') : Reads(posted[acts[i].from], acts[i].kind, acts[i].text)'
    BY <1>2 DEF CodecInv, Reads, Fits
  <1>9. \A i, k \in 1 .. Len(acts') : i < k =>
           /\ acts'[i].from <= acts'[k].from
           /\ acts'[i].from = acts'[k].from => ~Fits(posted[acts[i].from])' /\ k = i + 1
    BY <1>2 DEF CodecInv, Fits
  <1>10. target' = "up" => \A k \in 1 .. Len(posted') : Acted(k)' \/ k = from'
    BY <1>1, <1>2 DEF CodecInv, Acted, Whole
  <1>. QED BY <1>2, <1>3, <1>4, <1>5, <1>6, <1>7, <1>8, <1>9, <1>10 DEF CodecInv

LEMMA ReadEndsStep == CodecInv /\ ReadEnds => CodecInv'
  <1> SUFFICES ASSUME CodecInv, ReadEnds PROVE CodecInv'
    OBVIOUS
  <1>1. loop = "reading" /\ loop' \in {"done", "crashed"} /\ target = "gone"
        /\ UNCHANGED <<wire, buffer, from, type, msg, target, overrun, posted, acts>>
    BY DEF ReadEnds
  <1>2. TypeOK' /\ Histories'
    BY <1>1 DEF CodecInv, TypeOK, Histories, ToSet, PostOK, Fits
  <1>3. /\ Whole => Whole'
        /\ Rest => Rest'
        /\ Rest' => Rest
        /\ Once => Once'
    BY <1>1 DEF Whole, Rest, Once, Reads, Fits
  <1>4. \A i \in 1 .. Len(acts') : Reads(posted[acts[i].from], acts[i].kind, acts[i].text)'
    BY <1>1 DEF CodecInv, Reads, Fits
  <1>5. \A i, k \in 1 .. Len(acts') : i < k =>
           /\ acts'[i].from <= acts'[k].from
           /\ acts'[i].from = acts'[k].from => ~Fits(posted[acts[i].from])' /\ k = i + 1
    BY <1>1 DEF CodecInv, Fits
  <1>. QED BY <1>1, <1>2, <1>3, <1>4, <1>5 DEF CodecInv

(* Only of a message that fills the buffer is the NUL stored behind msg.   *)
Stored(m) ==
  /\ buffer' \in [1 .. MaxBuffer -> Bytes]
  /\ \/ overrun' = overrun /\ Len(msg') < MaxBuffer
     \/ overrun' = overrun \cup {"dumper"} /\ ~Fits(m)

(* sscanf of a buffer that holds the message m.                            *)
LEMMA ScanHeld ==
  ASSUME TypeOK, NEW m \in Posts, PostOK(m), Held(m), Sscanf
  PROVE  /\ Reads(m, type', msg')
         /\ type' \in Kinds
         /\ msg' \in Seq(Letters) /\ Len(msg') <= MaxBuffer
         /\ Stored(m)
  <1>1. PICK behind \in Letters \cup {NUL} :
          LET text == Text(Append(buffer, behind))
          IN  IF buffer[1] \in Kinds
              THEN /\ type' = buffer[1]
                   /\ msg' = IF text # <<>> THEN text ELSE msg
                   /\ StoreNul(text)
              ELSE UNCHANGED <<type, msg, buffer, overrun>>
    BY DEF Sscanf
  <1> DEFINE bytes == Append(buffer, behind)
             text == m.text
  <1>2. text \in Seq(Letters) /\ Len(text) \in 1 .. MaxBuffer - 1 /\ m.kind \in Kinds
    BY DEF Posts, PostOK, LogCapacity
  <1>3. /\ bytes \in Seq(Bytes) /\ Len(bytes) = MaxBuffer + 1
        /\ \A i \in 1 .. MaxBuffer : bytes[i] = buffer[i]
        /\ bytes[MaxBuffer + 1] = behind
    <2>1. buffer \in Seq(Bytes) /\ Len(buffer) = MaxBuffer
      BY SizeAssumption DEF TypeOK
    <2>2. behind \in Bytes
      BY DEF Bytes
    <2>. QED BY <2>1, <2>2, SizeAssumption
  <1>4. \A k \in 2 .. Len(text) + 1 : bytes[k] = text[k - 1] /\ bytes[k] # NUL
    <2> SUFFICES ASSUME NEW k \in 2 .. Len(text) + 1 PROVE bytes[k] = text[k - 1] /\ bytes[k] # NUL
      OBVIOUS
    <2>1. k - 1 \in 1 .. Len(text) /\ k \in 1 .. MaxBuffer
      BY <1>2, SizeAssumption
    <2>2. buffer[k] = text[k - 1]
      <3>1. buffer[(k - 1) + 1] = text[k - 1]
        BY <2>1 DEF Held
      <3>. QED BY <3>1, <2>1
    <2>3. text[k - 1] \in Letters
      BY <2>1, <1>2
    <2>. QED BY <2>1, <2>2, <2>3, <1>3, LettersAssumption
  <1>5. type' = m.kind /\ (Text(bytes) # <<>> => msg' = Text(bytes)) /\ StoreNul(Text(bytes))
    BY <1>1, <1>2 DEF Held
  <1> HIDE DEF bytes
  <1>6. CASE Len(text) + 1 = Len(bytes) \/ bytes[Len(text) + 2] = NUL
    <2>1. Text(bytes) = SubSeq(bytes, 2, Len(text) + 1)
      <3>1. Len(text) \in Nat /\ Len(text) < Len(bytes)
        BY <1>2, <1>3, SizeAssumption
      <3>2. \A k \in 2 .. Len(text) + 1 : bytes[k] # NUL
        BY <1>4
      <3>. QED BY <3>1, <3>2, <1>3, <1>6, TextStops
    <2>2. SubSeq(bytes, 2, Len(text) + 1) = text
      BY <1>2, <1>3, <1>4, SizeAssumption
    <2>3. text # <<>> /\ IsPrefix(text, text)
      BY <1>2 DEF IsPrefix
    <2>4. msg' = text
      BY <2>1, <2>2, <2>3, <1>5
    <2>5. Len(text) < MaxBuffer /\ UNCHANGED <<buffer, overrun>>
      BY <1>2, <1>5, <2>1, <2>2, SizeAssumption DEF StoreNul
    <2>6. Stored(m)
      BY <2>4, <2>5 DEF Stored, TypeOK
    <2>. QED BY <1>2, <1>5, <2>3, <2>4, <2>6, SizeAssumption DEF Reads
  <1>7. CASE ~(Len(text) + 1 = Len(bytes) \/ bytes[Len(text) + 2] = NUL)
    <2>1. ~Fits(m) /\ Len(text) = MaxBuffer - 1
      <3>1. ~Fits(m)
        <4> SUFFICES ASSUME Fits(m) PROVE FALSE
          OBVIOUS
        <4>1. Len(text) + 2 \in 1 .. MaxBuffer /\ buffer[Len(text) + 2] = NUL
          BY <1>2, SizeAssumption DEF Held, Fits
        <4>. QED BY <4>1, <1>3, <1>7
      <3>. QED BY <3>1, <1>2, SizeAssumption DEF Fits
    <2>2. behind # NUL /\ behind \in Letters
      BY <2>1, <1>3, <1>7, SizeAssumption
    <2>3. \A k \in 2 .. MaxBuffer + 1 : bytes[k] # NUL
      BY <2>1, <2>2, <1>3, <1>4, SizeAssumption
    <2>4. Text(bytes) = SubSeq(bytes, 2, MaxBuffer + 1)
      <3>1. MaxBuffer \in Nat /\ MaxBuffer < Len(bytes) /\ MaxBuffer + 1 = Len(bytes)
        BY <1>3, SizeAssumption
      <3>. QED BY <2>3, <3>1, <1>3, TextStops
    <2> DEFINE got == SubSeq(bytes, 2, MaxBuffer + 1)
    <2>5. /\ got \in Seq(Bytes) /\ Len(got) = MaxBuffer
          /\ \A k \in 1 .. MaxBuffer : got[k] = bytes[k + 1]
      BY <1>3, SizeAssumption
    <2> HIDE DEF got
    <2>6. \A k \in 1 .. MaxBuffer - 1 : got[k] = text[k]
      <3> SUFFICES ASSUME NEW k \in 1 .. MaxBuffer - 1 PROVE got[k] = text[k]
        OBVIOUS
      <3>1. k + 1 \in 2 .. Len(text) + 1 /\ (k + 1) - 1 = k /\ k \in 1 .. MaxBuffer
        BY <2>1, SizeAssumption
      <3>2. bytes[k + 1] = text[(k + 1) - 1]
        BY <3>1, <1>4
      <3>. QED BY <3>1, <3>2, <2>5
    <2>7. got[MaxBuffer] = behind
      BY <2>5, <1>3, SizeAssumption
    <2>8. \A k \in 1 .. MaxBuffer : got[k] \in Letters
      <3>1. \A k \in 1 .. MaxBuffer - 1 : text[k] \in Letters
        BY <2>1, <1>2
      <3>2. \A k \in 1 .. MaxBuffer : k \in 1 .. MaxBuffer - 1 \/ k = MaxBuffer
        BY SizeAssumption
      <3>. QED BY <3>1, <3>2, <2>2, <2>6, <2>7
    <2>9. got \in Seq(Letters)
      BY <2>5, <2>8, SizeAssumption
    <2>10. IsPrefix(text, got)
      <3>1. SubSeq(text, 1, Len(text)) = SubSeq(got, 1, Len(text))
        BY <2>1, <2>5, <2>6, <2>9, <1>2, SizeAssumption
      <3>. QED BY <3>1, <2>1, <2>5, SizeAssumption DEF IsPrefix
    <2>11. msg' = got
      <3>1. got # <<>>
        BY <2>5, SizeAssumption
      <3>. QED BY <3>1, <2>4, <1>5 DEF got
    <2>12. overrun' = overrun \cup {"dumper"} /\ buffer' \in {buffer, [buffer EXCEPT ![1] = NUL]}
      <3>1. Text(bytes) = got /\ ~(Len(got) < MaxBuffer)
        BY <2>4, <2>5, SizeAssumption DEF got
      <3>. QED BY <3>1, <1>5 DEF StoreNul
    <2>13. Stored(m)
      <3>1. buffer' \in [1 .. MaxBuffer -> Bytes]
        BY <2>12 DEF TypeOK, Bytes
      <3>. QED BY <2>1, <2>12, <3>1 DEF Stored
    <2>. QED BY <2>1, <2>5, <2>9, <2>10, <2>11, <2>13, <1>2, <1>5, SizeAssumption DEF Reads
  <1>. QED BY <1>6, <1>7

LEMMA ParseStep == CodecInv /\ ParseAndAct => CodecInv'
  <1> SUFFICES ASSUME CodecInv, ParseAndAct PROVE CodecInv'
    OBVIOUS
  <1> DEFINE m == posted[from]
             a == [kind |-> type', text |-> msg', from |-> from]
  <1>1. /\ loop = "parsing" /\ loop' = "reading" /\ Sscanf
        /\ acts' = Append(acts, a)
        /\ UNCHANGED <<wire, from, target, posted>>
    BY DEF ParseAndAct
  <1>2. from \in 1 .. Len(posted) /\ m \in Posts /\ PostOK(m)
    BY <1>1 DEF CodecInv, TypeOK, Histories
  <1>3. /\ Reads(m, type', msg')
        /\ type' \in Kinds /\ msg' \in Seq(Letters) /\ Len(msg') <= MaxBuffer
        /\ buffer' \in [1 .. MaxBuffer -> Bytes] /\ overrun' \subseteq {"target", "dumper"}
        /\ Len(msg') = MaxBuffer => "dumper" \in overrun'
    <2>1. CASE Held(m)
      <3>1. overrun \subseteq {"target", "dumper"}
        BY DEF CodecInv, TypeOK
      <3>2. /\ Reads(m, type', msg') /\ type' \in Kinds
            /\ msg' \in Seq(Letters) /\ Len(msg') <= MaxBuffer /\ Stored(m)
        BY <2>1, <1>1, <1>2, ScanHeld DEF CodecInv
      <3>3. /\ buffer' \in [1 .. MaxBuffer -> Bytes]
            /\ (overrun' = overrun /\ Len(msg') < MaxBuffer) \/ overrun' = overrun \cup {"dumper"}
        BY <3>2 DEF Stored
      <3>4. overrun' \subseteq {"target", "dumper"}
        BY <3>1, <3>3
      <3>5. Len(msg') = MaxBuffer => "dumper" \in overrun'
        BY <3>2, <3>3, SizeAssumption
      <3>. QED BY <3>2, <3>3, <3>4, <3>5
    <2>2. CASE buffer[1] = NUL /\ Once
      <3>1. NUL \notin Kinds
        BY DEF NUL, Kinds, GET_KEY_STRING, LOG_MSG, GET_KEY_INT
      <3>2. UNCHANGED <<type, msg, buffer, overrun>>
        BY <2>2, <3>1, <1>1 DEF Sscanf
      <3>. QED BY <2>2, <3>2 DEF Once, CodecInv, TypeOK
    <2>. QED BY <2>1, <2>2, <1>1 DEF CodecInv
  <1>4. acts \in Seq(Acts) /\ a \in Acts /\ Len(acts) \in Nat
    BY <1>2, <1>3 DEF CodecInv, Histories, Acts
  <1>5. /\ acts' \in Seq(Acts) /\ Len(acts') = Len(acts) + 1
        /\ \A i \in 1 .. Len(acts) : acts'[i] = acts[i]
        /\ acts'[Len(acts')] = a
        /\ \A i \in 1 .. Len(acts') : i \in 1 .. Len(acts) \/ i = Len(acts')
    BY <1>1, <1>4
  <1>6. a.from = from /\ a.kind = type' /\ a.text = msg'
    OBVIOUS
  <1> HIDE DEF a
  <1>7. TypeOK'
    BY <1>1, <1>3 DEF CodecInv, TypeOK, ToSet
  <1>8. Histories'
    <2>1. \A i \in 1 .. Len(acts') : acts'[i].from \in 1 .. from
      BY <1>2, <1>5, <1>6 DEF CodecInv, Histories
    <2>. QED BY <1>1, <1>5, <2>1 DEF CodecInv, Histories, PostOK, Fits
  <1>9. \A i \in 1 .. Len(acts') : Reads(posted[acts[i].from], acts[i].kind, acts[i].text)'
    <2>1. \A i \in 1 .. Len(acts) :
            Reads(posted[acts[i].from], acts[i].kind, acts[i].text)'
      BY <1>1, <1>5 DEF CodecInv, Reads, Fits
    <2>2. Reads(posted[acts[Len(acts)].from], acts[Len(acts)].kind, acts[Len(acts)].text)'
      BY <1>1, <1>3, <1>5, <1>6 DEF Reads, Fits
    <2>. QED BY <2>1, <2>2, <1>5
  (* The new act follows older messages, or its own first half.            *)
  <1>10. \A i \in 1 .. Len(acts) :
           /\ acts[i].from <= from
           /\ acts[i].from = from => ~Fits(m) /\ i = Len(acts)
    <2>1. \A i \in 1 .. Len(acts) : acts[i].from \in Nat
      <3>1. \A i \in 1 .. Len(acts) : acts[i] \in Acts
        BY <1>4
      <3>. QED BY <3>1 DEF Acts
    <2>2. CASE NotYet
      BY <2>1, <2>2, <1>2 DEF NotYet
    <2>3. CASE Once
      <3>1. \A i \in 1 .. Len(acts) : i \in 1 .. Len(acts) - 1 \/ i = Len(acts)
        BY <1>4
      <3>. QED BY <2>1, <2>3, <3>1, <1>2 DEF Once
    <2>. QED BY <2>2, <2>3, <1>1 DEF CodecInv
  <1>11. \A i, k \in 1 .. Len(acts') : i < k =>
           /\ acts'[i].from <= acts'[k].from
           /\ acts'[i].from = acts'[k].from => ~Fits(posted[acts[i].from])' /\ k = i + 1
    <2> SUFFICES ASSUME NEW i \in 1 .. Len(acts'), NEW k \in 1 .. Len(acts'), i < k
                 PROVE  /\ acts'[i].from <= acts'[k].from
                        /\ acts'[i].from = acts'[k].from =>
                             ~Fits(posted[acts'[i].from]) /\ k = i + 1
      BY <1>1 DEF Fits
    <2>1. i \in 1 .. Len(acts)
      BY <1>4, <1>5
    <2>2. CASE k \in 1 .. Len(acts)
      BY <2>1, <2>2, <1>5 DEF CodecInv
    <2>3. CASE k = Len(acts')
      BY <2>1, <2>3, <1>5, <1>6, <1>10
    <2>. QED BY <2>2, <2>3, <1>5
  <1>12. Rest' => Once'
    <2> SUFFICES ASSUME Rest' PROVE Once'
      OBVIOUS
    <2>1. Rest /\ Held(m)
      BY <1>1 DEF Rest, CodecInv, Fits
    <2>2. NotYet
      <3>1. m.kind \in Kinds /\ NUL \notin Kinds
        BY <1>2 DEF Posts, NUL, Kinds, GET_KEY_STRING, LOG_MSG, GET_KEY_INT
      <3>. QED BY <2>1, <3>1, <1>1 DEF CodecInv, Held
    <2>3. \A i \in 1 .. Len(acts') - 1 : acts'[i].from < from
      BY <2>2, <1>4, <1>5 DEF NotYet
    <2>. QED BY <2>1, <2>3, <1>1, <1>3, <1>4, <1>5, <1>6 DEF Once, Rest, Reads, Fits
  <1>13. (wire' # <<>> => Whole' \/ Rest') /\ (Whole => Whole')
    BY <1>1 DEF CodecInv, Whole, Rest, Fits
  <1>14. \A n \in Nat : Acted(n) \/ n = from => Acted(n)'
    <2>1. Len(acts') \in 1 .. Len(acts')
      BY <1>4, <1>5
    <2>2. Acted(from)'
      BY <2>1, <1>1, <1>5, <1>6 DEF Acted
    <2>3. ASSUME NEW n \in Nat, Acted(n) PROVE Acted(n)'
      <3>1. PICK i \in 1 .. Len(acts) : acts[i].from = n
        BY <2>3 DEF Acted
      <3>2. i \in 1 .. Len(acts') /\ acts'[i].from = n
        BY <3>1, <1>4, <1>5
      <3>. QED BY <3>2 DEF Acted
    <2>. QED BY <2>2, <2>3, <1>1 DEF Acted
  <1>15. target' = "up" => \A n \in 1 .. Len(posted') : Acted(n)' \/ (Whole' /\ n = Len(posted'))
    BY <1>1, <1>13, <1>14 DEF CodecInv
  <1>. QED BY <1>1, <1>7, <1>8, <1>9, <1>11, <1>12, <1>13, <1>15 DEF CodecInv

-----------------------------------------------------------------------------
LEMMA Invariance == Spec => []CodecInv
  <1>1. CodecInv /\ [Next]_vars => CodecInv'
    <2> SUFFICES ASSUME CodecInv, [Next]_vars PROVE CodecInv'
      OBVIOUS
    <2>1. CASE ReadPiece
      <3>1. wire # <<>>
        BY <2>1 DEF ReadPiece
      <3>. QED BY <2>1, <3>1, ReadWhole, ReadRest DEF CodecInv
    <2>2. CASE UNCHANGED vars
      <3>1. TypeOK' /\ Histories'
        BY <2>2 DEF vars, CodecInv, TypeOK, Histories, ToSet, PostOK, Fits
      <3>2. /\ UNCHANGED <<wire, loop, from, buffer, target, acts, posted>>
            /\ Whole' = Whole /\ Rest' = Rest /\ Once' = Once /\ NotYet' = NotYet
        BY <2>2 DEF vars, Whole, Rest, Once, NotYet, Reads, Fits
      <3>3. Held(posted[from])' = Held(posted[from]) /\ \A n : Acted(n)' = Acted(n)
        BY <2>2 DEF vars, Held, Acted, Fits
      <3>4. \A i \in 1 .. Len(acts') : Reads(posted[acts[i].from], acts[i].kind, acts[i].text)'
        BY <2>2 DEF vars, CodecInv, Reads, Fits
      <3>5. \A i, k \in 1 .. Len(acts') : i < k =>
              /\ acts'[i].from <= acts'[k].from
              /\ acts'[i].from = acts'[k].from => ~Fits(posted[acts[i].from])' /\ k = i + 1
        BY <2>2 DEF vars, CodecInv, Fits
      <3>. QED BY <3>1, <3>2, <3>3, <3>4, <3>5 DEF CodecInv
    <2>. QED BY <2>1, <2>2, TargetPosts, EndStep, ReadEndsStep, ParseStep DEF Next
  <1>. QED BY InitInv, <1>1, PTL DEF Spec

(* The buffer of NamedPipeLoop, type and msg keep their kinds and sizes.   *)
THEOREM TypeCorrect == Spec => []TypeOK
  <1>1. CodecInv => TypeOK
    BY DEF CodecInv
  <1>. QED BY Invariance, <1>1, PTL

(* sprintf in the DLL and sscanf in NamedPipeLoop: what is acted upon is   *)
(* what was written, whatever the buffer held, for every MAX_BUFFER.       *)
THEOREM ActsFaithful == Spec => []ActsAsPosted
  <1>1. CodecInv => ActsAsPosted
    <2> SUFFICES ASSUME CodecInv, NEW i \in 1 .. Len(acts)
                 PROVE  LET m == posted[acts[i].from]
                        IN  /\ acts[i].from > 0
                            /\ acts[i].kind = m.kind
                            /\ IF Fits(m) THEN acts[i].text = m.text
                               ELSE /\ IsPrefix(m.text, acts[i].text)
                                    /\ Len(acts[i].text) <= Len(m.text) + 1
      BY DEF ActsAsPosted, ToSet, CodecInv, Histories
    <2>1. acts[i].from > 0
      BY DEF CodecInv, Histories, TypeOK
    <2>. QED BY <2>1 DEF CodecInv, Reads
  <1>. QED BY Invariance, <1>1, PTL

-----------------------------------------------------------------------------
(* Whose stack is written behind an array: a message that does not fit has *)
(* done so in the target before it does so in the dumper.                  *)
OverrunInv ==
  /\ \A n \in 1 .. Len(posted) : ~Fits(posted[n]) => "target" \in overrun
  /\ "dumper" \in overrun => \E n \in 1 .. Len(posted) : ~Fits(posted[n])
  /\ loop = "crashed" => "dumper" \in overrun

LEMMA OverrunPost ==
  ASSUME CodecInv, OverrunInv, NEW kind \in Kinds, NEW text \in Seq(Letters), Post(kind, text)
  PROVE  OverrunInv'
  <1> DEFINE m == [kind |-> kind, text |-> text]
  <1>1. /\ posted' = Append(posted, m) /\ posted \in Seq(Posts) /\ m \in Posts /\ m.text = text
        /\ overrun' = IF Len(Encoded(kind, text)) > MaxBuffer THEN overrun \cup {"target"} ELSE overrun
        /\ UNCHANGED loop
    BY DEF Post, CodecInv, Histories, Posts
  <1>2. Len(posted') = Len(posted) + 1 /\ posted'[Len(posted')] = m
        /\ \A n \in 1 .. Len(posted) : posted'[n] = posted[n]
    BY <1>1
  <1>3. ~Fits(m) => "target" \in overrun'
    <2>1. Len(Encoded(kind, text)) = Len(text) + 2 /\ Len(text) \in Nat
      BY EncodedFacts
    <2>. QED BY <1>1, <2>1, SizeAssumption DEF Fits
  <1>4. overrun \subseteq overrun' /\ ("dumper" \in overrun' => "dumper" \in overrun)
    BY <1>1
  <1> HIDE DEF m
  <1>5. \A n \in 1 .. Len(posted') : n \in 1 .. Len(posted) \/ n = Len(posted')
    BY <1>1, <1>2
  <1>6. \A n \in 1 .. Len(posted') : ~Fits(posted'[n]) => "target" \in overrun'
    BY <1>2, <1>3, <1>4, <1>5 DEF OverrunInv
  <1>7. "dumper" \in overrun' => \E n \in 1 .. Len(posted') : ~Fits(posted'[n])
    <2> SUFFICES ASSUME "dumper" \in overrun' PROVE \E n \in 1 .. Len(posted') : ~Fits(posted'[n])
      OBVIOUS
    <2>1. PICK n \in 1 .. Len(posted) : ~Fits(posted[n])
      BY <1>4 DEF OverrunInv
    <2>2. n \in 1 .. Len(posted') /\ posted'[n] = posted[n]
      BY <1>1, <1>2
    <2>. QED BY <2>1, <2>2
  <1>. QED BY <1>1, <1>4, <1>6, <1>7 DEF OverrunInv, Fits

LEMMA OverrunParse == CodecInv /\ OverrunInv /\ ParseAndAct => OverrunInv'
  <1> SUFFICES ASSUME CodecInv, OverrunInv, ParseAndAct PROVE OverrunInv'
    OBVIOUS
  <1>1. loop = "parsing" /\ loop' = "reading" /\ Sscanf /\ UNCHANGED posted
    BY DEF ParseAndAct
  <1>2. from \in 1 .. Len(posted) /\ posted[from] \in Posts /\ PostOK(posted[from])
    BY <1>1 DEF CodecInv, TypeOK, Histories
  <1>3. overrun' = overrun \/ (overrun' = overrun \cup {"dumper"} /\ ~Fits(posted[from]))
    <2>1. CASE Held(posted[from])
      BY <2>1, <1>1, <1>2, ScanHeld DEF CodecInv, Stored
    <2>2. CASE buffer[1] = NUL
      BY <2>2, <1>1 DEF Sscanf, NUL, Kinds, GET_KEY_STRING, LOG_MSG, GET_KEY_INT
    <2>. QED BY <2>1, <2>2, <1>1 DEF CodecInv
  <1>. QED BY <1>1, <1>2, <1>3 DEF OverrunInv, Fits

LEMMA OverrunStep == CodecInv /\ OverrunInv /\ [Next]_vars => OverrunInv'
  <1> SUFFICES ASSUME CodecInv, OverrunInv, [Next]_vars PROVE OverrunInv'
    OBVIOUS
  <1>1. CASE GetString \/ GetInt \/ SendLog
    <2>1. PICK kind \in Kinds, text \in Seq(Letters) : Post(kind, text)
      BY <1>1, KeysAssumption DEF GetString, GetInt, SendLog, Kinds
    <2>. QED BY <2>1, OverrunPost
  <1>2. CASE EndTarget \/ ReadPiece \/ UNCHANGED vars
    BY <1>2 DEF EndTarget, ReadPiece, vars, OverrunInv, Fits
  <1>3. CASE ReadEnds
    BY <1>3 DEF ReadEnds, OverrunInv, Fits
  <1>. QED BY <1>1, <1>2, <1>3, OverrunParse DEF Next

(* For every MAX_BUFFER, nothing writes behind msg in the dumper but a log *)
(* text with which SendLog has written behind its buffer in the target.    *)
THEOREM TargetOverrunsFirst == Spec => []OverrunStartsInTarget
  <1>1. Init => OverrunInv
    BY DEF Init, OverrunInv
  <1>2. CodecInv /\ OverrunInv => OverrunStartsInTarget
    <2> SUFFICES ASSUME CodecInv, OverrunInv, "dumper" \in overrun
                 PROVE  "target" \in overrun /\ \E m \in ToSet(posted) : m.kind = LOG_MSG /\ ~Fits(m)
      BY DEF OverrunInv, OverrunStartsInTarget
    <2>1. PICK n \in 1 .. Len(posted) : ~Fits(posted[n])
      BY DEF OverrunInv
    <2>2. posted[n].kind = LOG_MSG /\ posted[n] \in ToSet(posted)
      BY <2>1 DEF CodecInv, Histories, PostOK, ToSet
    <2>. QED BY <2>1, <2>2 DEF OverrunInv
  <1>. QED BY <1>1, <1>2, OverrunStep, Invariance, PTL DEF Spec

(* NamedPipeLoop acts upon each message once and in order; only a log text *)
(* that fills the buffer is acted upon twice.                              *)
THEOREM ServedOnce == Spec => []ServedOnceInOrder
  <1>1. CodecInv => ServedOnceInOrder
    <2> SUFFICES ASSUME CodecInv PROVE ServedOnceInOrder
      OBVIOUS
    <2>1. DOMAIN acts = 1 .. Len(acts)
      BY DEF CodecInv, Histories
    <2>2. wire = <<>> => ~Whole
      <3> SUFFICES ASSUME wire = <<>>, Whole PROVE FALSE
        OBVIOUS
      <3>1. posted[Len(posted)] \in Posts
        BY DEF Whole, CodecInv, Histories, TypeOK
      <3>2. Len(wire) = Len(posted[Len(posted)].text) + 2 /\ posted[Len(posted)].text \in Seq(Letters)
        BY <3>1, EncodedFacts DEF Whole, Posts
      <3>. QED BY <3>2
    <2>3. ASSUME loop = "reading", wire = <<>>, target = "up", NEW n \in 1 .. Len(posted)
          PROVE  \E b \in ToSet(acts) : b.from = n
      <3>1. Acted(n)
        BY <2>2, <2>3 DEF CodecInv
      <3>. QED BY <3>1, <2>1 DEF Acted, ToSet
    <2>. QED BY <2>1, <2>3 DEF CodecInv, ServedOnceInOrder
  <1>. QED BY Invariance, <1>1, PTL

-----------------------------------------------------------------------------
(* PipeCodec implements RecordPipe.                                        *)

LEMMA PostMaps ==
  ASSUME CodecInv, NEW kind \in Kinds, NEW text \in Seq(Letters), Post(kind, text)
  PROVE  P!Post
  <1> DEFINE m == [kind |-> kind, text |-> text]
  <1>1. /\ wire = <<>> /\ target = "up" /\ wire' = Encoded(kind, text)
        /\ posted' = Append(posted, m)
        /\ UNCHANGED <<from, loop, target, acts>>
    BY DEF Post
  <1>2. /\ posted \in Seq(Posts) /\ m \in Posts /\ from \in 0 .. Len(posted)
        /\ loop = "parsing" => from > 0
    BY DEF CodecInv, Histories, TypeOK, Posts
  <1>3. /\ Len(posted') = Len(posted) + 1 /\ posted'[Len(posted')] = m
        /\ from' < Len(posted') /\ from' # Len(posted')
        /\ from > 0 => posted'[from] = posted[from]
    BY <1>1, <1>2
  <1>4. wire' # <<>>
    <2>1. Len(wire') = Len(text) + 2 /\ Len(text) \in Nat
      BY <1>1, EncodedFacts
    <2>. QED BY <2>1
  <1>5. Unread = <<>> /\ LeftOver = <<>> /\ LeftOver' = <<>>
    BY <1>1, <1>3 DEF Unread, LeftOver
  <1>6. Unread' = <<m>>
    BY <1>3, <1>4 DEF Unread, Last
  <1>7. Buffered' = Buffered
    BY <1>1, <1>2, <1>3 DEF Buffered
  <1>8. Len(<<m>>) = 1 /\ <<m>>[1] \in Posts
    BY <1>2
  <1> HIDE DEF m
  <1>. QED BY <1>1, <1>5, <1>6, <1>7, <1>8 DEF P!Post

LEMMA TakeMaps ==
  ASSUME CodecInv, ReadPiece
  PROVE  P!Take
  <1> DEFINE m == posted[Len(posted)]
             n == IF Len(wire) < MaxBuffer THEN Len(wire) ELSE MaxBuffer
  <1>1. /\ wire # <<>> /\ wire' = SubSeq(wire, n + 1, Len(wire))
        /\ loop = "reading" /\ loop' = "parsing" /\ from' = Len(posted)
        /\ UNCHANGED <<target, posted, acts>>
    BY DEF ReadPiece, ReadSize
  <1>2. Buffered = <<>> /\ Buffered' = <<m>>
    BY <1>1 DEF Buffered
  <1>3. Unread' = <<>>
    BY <1>1 DEF Unread, CodecInv, Histories
  <1>4. LeftOver' = IF wire' # <<>> THEN <<m>> ELSE <<>>
    BY <1>1 DEF LeftOver, Last
  <1>5. CASE Whole
    <2>1. /\ m \in Posts /\ PostOK(m) /\ Len(posted) \in Nat
          /\ from \in Nat /\ from < Len(posted)
      BY <1>5 DEF Whole, CodecInv, TypeOK, Histories
    <2>2. /\ wire \in Seq(Bytes) /\ Len(wire) = Len(m.text) + 2
          /\ Len(m.text) \in 1 .. MaxBuffer - 1
      BY <1>5, <2>1, EncodedFacts DEF Whole, Posts, PostOK, LogCapacity
    <2>3. Unread = <<m>> /\ LeftOver = <<>>
      BY <1>1, <2>1 DEF Unread, LeftOver, Last
    <2>4. Fits(m) => wire' = <<>>
      <3>1. Fits(m) => n = Len(wire)
        BY <2>2, SizeAssumption DEF Fits
      <3>. QED BY <1>1, <2>2, <3>1
    <2>5. ASSUME ~Fits(m) PROVE wire' # <<>>
      <3>1. n = MaxBuffer /\ Len(wire) = MaxBuffer + 1
        BY <2>2, <2>5, SizeAssumption DEF Fits
      <3>2. Len(wire') = 1
        BY <1>1, <2>2, <3>1, SizeAssumption
      <3>3. Len(<<>>) = 0
        OBVIOUS
      <3>. QED BY <3>2, <3>3
    <2>6. LeftOver' = IF m \in {x \in Posts : ~Fits(x)} THEN <<m>> ELSE <<>>
      BY <1>4, <2>1, <2>4, <2>5
    <2>7. <<m>> # <<>> /\ <<m>>[1] = m
      OBVIOUS
    <2> HIDE DEF m, n
    <2>. QED BY <1>1, <1>2, <1>3, <2>3, <2>6, <2>7 DEF P!Take
  <1>6. CASE Rest
    <2>1. Len(wire) = 1 /\ from = Len(posted) /\ Len(posted) \in Nat
      BY <1>6 DEF Rest, CodecInv, Histories
    <2>2. wire' = <<>>
      <3>1. n = 1 /\ wire \in Seq(Bytes)
        BY <2>1, SizeAssumption DEF CodecInv, TypeOK
      <3>. QED BY <1>1, <2>1, <3>1
    <2>3. Unread = <<>> /\ LeftOver = <<m>> /\ LeftOver' = <<>>
      BY <1>1, <1>4, <2>1, <2>2 DEF Unread, LeftOver, Last
    <2>4. <<m>> # <<>>
      OBVIOUS
    <2> HIDE DEF m, n
    <2>. QED BY <1>1, <1>2, <1>3, <2>3, <2>4 DEF P!Take
  <1>. QED BY <1>1, <1>5, <1>6 DEF CodecInv

LEMMA ServeMaps ==
  ASSUME CodecInv, CodecInv', ParseAndAct
  PROVE  P!Serve
  <1> DEFINE m == posted[from]
             a == [kind |-> type', text |-> msg', from |-> from]
  <1>1. /\ loop = "parsing" /\ loop' = "reading" /\ acts' = Append(acts, a)
        /\ UNCHANGED <<wire, from, target, posted>>
    BY DEF ParseAndAct
  <1>2. /\ acts \in Seq(Acts) /\ acts' \in Seq(Acts)
        /\ m \in Posts /\ Len(acts) \in Nat
    BY <1>1 DEF CodecInv, Histories, TypeOK
  <1>3. /\ Len(acts') = Len(acts) + 1 /\ acts'[Len(acts')] = a
        /\ \A i \in 1 .. Len(acts) : acts'[i] = acts[i]
    <2>1. a \in Acts
      BY <1>1, <1>2 DEF CodecInv, TypeOK, Histories, Acts
    <2> HIDE DEF a
    <2>. QED BY <1>1, <1>2, <2>1
  <1>4. IsPrefix(acts, acts')
    <2>1. SubSeq(acts, 1, Len(acts)) = SubSeq(acts', 1, Len(acts))
      BY <1>2, <1>3
    <2>. QED BY <1>2, <1>3, <2>1 DEF IsPrefix
  <1>5. /\ a.kind = m.kind
        /\ IF m \in {x \in Posts : ~Fits(x)}
           THEN IsPrefix(m.text, a.text) /\ Len(a.text) <= Len(m.text) + 1
           ELSE a.text = m.text
    <2>1. Len(acts') \in 1 .. Len(acts')
      BY <1>2, <1>3
    <2>2. Reads(posted[acts[Len(acts)].from], acts[Len(acts)].kind, acts[Len(acts)].text)'
      BY <2>1 DEF CodecInv
    <2>3. posted'[acts'[Len(acts')].from] = m
      BY <1>1, <1>3
    <2>4. Reads(m, a.kind, a.text)
      BY <1>3, <2>2, <2>3 DEF Reads, Fits
    <2>. QED BY <1>2, <2>4 DEF Reads
  <1>6. Buffered = <<m>> /\ Buffered' = <<>>
    BY <1>1 DEF Buffered
  <1>7. UNCHANGED <<Unread, LeftOver>>
    BY <1>1 DEF Unread, LeftOver, Last
  <1>8. <<m>> # <<>> /\ <<m>>[1] = m
    OBVIOUS
  <1> HIDE DEF m, a
  <1>. QED BY <1>1, <1>3, <1>4, <1>5, <1>6, <1>7, <1>8 DEF P!Serve, P!Meant, P!IsPrefix, IsPrefix

LEMMA WithdrawMaps == EndTarget => P!Withdraw
  BY DEF EndTarget, P!Withdraw, Unread, LeftOver, Buffered

(* Whatever the size of the buffer, the bytes that the DLL writes and the  *)
(* loop parses are a pipe of whole messages, as PipeLink takes them to be. *)
THEOREM BytesAreMessages == Spec => ImplementsRecordPipe
  <1>1. Init => P!Init
    BY DEF Init, P!Init, Unread, LeftOver, Buffered
  <1>2. CodecInv /\ CodecInv' /\ [Next]_vars => [P!Next]_(P!vars)
    <2> SUFFICES ASSUME CodecInv, CodecInv', [Next]_vars PROVE P!Next \/ UNCHANGED P!vars
      OBVIOUS
    <2>1. CASE GetString \/ GetInt \/ SendLog
      <3>1. PICK kind \in Kinds, text \in Seq(Letters) : Post(kind, text)
        BY <2>1, KeysAssumption DEF GetString, GetInt, SendLog, Kinds
      <3>. QED BY <3>1, PostMaps DEF P!Next
    <2>2. CASE ReadEnds \/ UNCHANGED vars
      BY <2>2 DEF ReadEnds, vars, P!vars, Unread, LeftOver, Buffered, Last
    <2>. QED BY <2>1, <2>2, TakeMaps, ServeMaps, WithdrawMaps DEF Next, P!Next
  <1>. QED BY <1>1, <1>2, Invariance, PTL DEF Spec, P!Spec, ImplementsRecordPipe
=============================================================================
