------------------------- MODULE EventStream_proofs -------------------------
(***************************************************************************)
(* Theorems about EventStream, for every body, every way to cut it into     *)
(* chunks and every limit of a frame, proved with TLAPS.                    *)
(***************************************************************************)
EXTENDS EventStream, SequenceTheorems, WellFoundedInduction, TLAPS

USE StreamAssumption DEF Header

(* Suffixes of a sequence of bytes. *)
LEMMA SuffixFacts ==
    ASSUME NEW s \in Seq(Bytes), NEW i \in 0..Len(s)
    PROVE  /\ Suffix(s, i) \in Seq(Bytes)
           /\ Len(Suffix(s, i)) = Len(s) - i
           /\ \A j \in 1..(Len(s) - i) : Suffix(s, i)[j] = s[i + j]
<1>1. i + 1 \in Int /\ Len(s) \in Int /\ \A j \in (i + 1)..Len(s) : s[j] \in Bytes
  BY LenProperties, ElementOfSeq
<1>2. /\ Suffix(s, i) \in Seq(Bytes)
      /\ Len(Suffix(s, i)) = IF i + 1 <= Len(s) THEN Len(s) - (i + 1) + 1 ELSE 0
      /\ \A j \in 1..(Len(s) - (i + 1) + 1) : Suffix(s, i)[j] = s[(i + 1) + j - 1]
  BY <1>1, SubSeqProperties DEF Suffix
<1> QED BY <1>1, <1>2

LEMMA SuffixExtend ==
    ASSUME NEW s \in Seq(Bytes), NEW t \in Seq(Bytes), NEW i \in 0..Len(s)
    PROVE  Suffix(s \o t, i) = Suffix(s, i) \o t
<1>1. /\ s \o t \in Seq(Bytes) /\ Len(s \o t) = Len(s) + Len(t)
      /\ \A j \in 1..(Len(s) + Len(t)) :
           (s \o t)[j] = IF j <= Len(s) THEN s[j] ELSE t[j - Len(s)]
  BY ConcatProperties
<1>2. Len(s) \in Nat /\ Len(t) \in Nat
  BY LenProperties
<1>3. /\ Suffix(s, i) \in Seq(Bytes) /\ Len(Suffix(s, i)) = Len(s) - i
      /\ \A j \in 1..(Len(s) - i) : Suffix(s, i)[j] = s[i + j]
  BY SuffixFacts
<1>4. /\ Suffix(s \o t, i) \in Seq(Bytes)
      /\ Len(Suffix(s \o t, i)) = Len(s) + Len(t) - i
      /\ \A j \in 1..(Len(s) + Len(t) - i) : Suffix(s \o t, i)[j] = (s \o t)[i + j]
  <2> DEFINE u == s \o t
  <2>1. u \in Seq(Bytes) /\ Len(u) = Len(s) + Len(t)
    BY <1>1
  <2> HIDE DEF u
  <2>2. i \in 0..Len(u)
    BY <1>2, <2>1
  <2>3. /\ Suffix(u, i) \in Seq(Bytes)
        /\ Len(Suffix(u, i)) = Len(u) - i
        /\ \A j \in 1..(Len(u) - i) : Suffix(u, i)[j] = u[i + j]
    BY <2>1, <2>2, SuffixFacts
  <2> QED BY <2>1, <2>3 DEF u
<1>5. /\ Suffix(s, i) \o t \in Seq(Bytes)
      /\ Len(Suffix(s, i) \o t) = Len(s) - i + Len(t)
      /\ \A j \in 1..(Len(s) - i + Len(t)) :
           (Suffix(s, i) \o t)[j] =
             IF j <= Len(s) - i THEN Suffix(s, i)[j] ELSE t[j - (Len(s) - i)]
  <2> DEFINE u == Suffix(s, i)
  <2>1. u \in Seq(Bytes) /\ Len(u) = Len(s) - i
    BY <1>3
  <2> HIDE DEF u
  <2>2. /\ u \o t \in Seq(Bytes) /\ Len(u \o t) = Len(u) + Len(t)
        /\ \A j \in 1..(Len(u) + Len(t)) :
             (u \o t)[j] = IF j <= Len(u) THEN u[j] ELSE t[j - Len(u)]
    BY <2>1, ConcatProperties
  <2> QED BY <2>1, <2>2 DEF u
<1> DEFINE left == Suffix(s \o t, i)
           right == Suffix(s, i) \o t
           u == Suffix(s, i)
           v == s \o t
<1> HIDE DEF left, right, u, v
<1>6. \A j \in 1..(Len(s) + Len(t) - i) : left[j] = right[j]
  <2>1. \A j \in 1..(Len(s) + Len(t) - i) :
           /\ left[j] = v[i + j]
           /\ right[j] = IF j <= Len(s) - i THEN u[j] ELSE t[j - (Len(s) - i)]
    BY <1>2, <1>4, <1>5 DEF left, right, u, v
  <2>2. \A j \in 1..(Len(s) + Len(t)) : v[j] = IF j <= Len(s) THEN s[j] ELSE t[j - Len(s)]
    BY <1>1 DEF v
  <2>3. \A j \in 1..(Len(s) - i) : u[j] = s[i + j]
    BY <1>3 DEF u
  <2> QED BY <1>2, <2>1, <2>2, <2>3
<1>7. left \in Seq(Bytes) /\ right \in Seq(Bytes) /\ Len(left) = Len(right)
      /\ Len(left) = Len(s) + Len(t) - i
  BY <1>2, <1>4, <1>5 DEF left, right
<1> QED BY <1>6, <1>7, SeqEqual DEF left, right

(* An envelope that is whole stays what it is when bytes follow. *)
LEMMA FrameFacts ==
    ASSUME NEW b \in Seq(Bytes), HasFrame(b)
    PROVE  /\ Flags(b) \in Nat /\ Length(b) \in Nat
           /\ Len(b) \in Nat /\ Len(b) >= Header + Length(b)
           /\ Payload(b) \in Seq(Bytes)
           /\ Len(Payload(b)) = Length(b)
           /\ \A j \in 1..Length(b) : Payload(b)[j] = b[Header + j]
<1>1. Len(b) \in Nat /\ Len(b) >= 2 /\ Len(b) >= Header + Length(b)
  BY LenProperties DEF HasFrame, HasHeader
<1>2. b[1] \in Bytes /\ b[2] \in Bytes
  BY <1>1, ElementOfSeq
<1>3. Length(b) \in Nat /\ Flags(b) \in Nat
  BY <1>2 DEF Length, Flags, Bytes
<1>4. \A j \in 3..(Length(b) + 2) : b[j] \in Bytes
  BY <1>1, <1>3, ElementOfSeq
<1>5. /\ SubSeq(b, 3, Length(b) + 2) \in Seq(Bytes)
      /\ Len(SubSeq(b, 3, Length(b) + 2)) =
           IF 3 <= Length(b) + 2 THEN Length(b) + 2 - 3 + 1 ELSE 0
      /\ \A j \in 1..(Length(b) + 2 - 3 + 1) : SubSeq(b, 3, Length(b) + 2)[j] = b[3 + j - 1]
  BY <1>3, <1>4, SubSeqProperties
<1>6. Payload(b) = SubSeq(b, 3, Length(b) + 2)
  BY <1>3 DEF Payload
<1>7. Len(Payload(b)) = Length(b)
  BY <1>3, <1>5, <1>6
<1>8. \A j \in 1..Length(b) : Payload(b)[j] = b[Header + j]
  BY <1>3, <1>5, <1>6
<1> QED BY <1>1, <1>3, <1>5, <1>6, <1>7, <1>8

LEMMA FrameExtend ==
    ASSUME NEW b \in Seq(Bytes), NEW t \in Seq(Bytes), HasFrame(b)
    PROVE  /\ HasFrame(b \o t)
           /\ Flags(b \o t) = Flags(b) /\ Length(b \o t) = Length(b)
           /\ Payload(b \o t) = Payload(b)
<1>1. /\ b \o t \in Seq(Bytes) /\ Len(b \o t) = Len(b) + Len(t)
      /\ \A j \in 1..(Len(b) + Len(t)) :
           (b \o t)[j] = IF j <= Len(b) THEN b[j] ELSE t[j - Len(b)]
  BY ConcatProperties
<1>2. Len(b) \in Nat /\ Len(t) \in Nat /\ Len(b) >= 2 /\ Length(b) \in Nat
      /\ Len(b) >= Header + Length(b)
  BY FrameFacts, LenProperties DEF HasFrame, HasHeader
<1>3. Flags(b \o t) = Flags(b) /\ Length(b \o t) = Length(b)
  BY <1>1, <1>2 DEF Flags, Length
<1>4. HasFrame(b \o t)
  BY <1>1, <1>2, <1>3 DEF HasFrame, HasHeader
<1>5. /\ Payload(b) \in Seq(Bytes) /\ Len(Payload(b)) = Length(b)
      /\ \A j \in 1..Length(b) : Payload(b)[j] = b[Header + j]
  BY FrameFacts
<1>6. /\ Payload(b \o t) \in Seq(Bytes) /\ Len(Payload(b \o t)) = Length(b)
      /\ \A j \in 1..Length(b) : Payload(b \o t)[j] = (b \o t)[Header + j]
  BY <1>1, <1>3, <1>4, FrameFacts
<1> DEFINE v == b \o t
           q == Payload(b \o t)
<1> HIDE DEF v, q
<1>7. \A j \in 1..Length(b) : q[j] = Payload(b)[j]
  <2>1. \A j \in 1..Length(b) : q[j] = v[Header + j]
    BY <1>6 DEF q, v
  <2>2. \A j \in 1..Len(b) : v[j] = b[j]
    BY <1>1, <1>2 DEF v
  <2> QED BY <1>2, <1>5, <2>1, <2>2
<1>8. q = Payload(b)
  BY <1>5, <1>6, <1>7, SeqEqual DEF q
<1> QED BY <1>3, <1>4, <1>8 DEF q

(* What is left after an envelope is a suffix again. *)
LEMMA RestIsSuffix ==
    ASSUME NEW s \in Seq(Bytes), NEW i \in 0..Len(s), HasFrame(Suffix(s, i))
    PROVE  /\ i + Header + Length(Suffix(s, i)) \in 0..Len(s)
           /\ Rest(Suffix(s, i)) = Suffix(s, i + Header + Length(Suffix(s, i)))
<1> DEFINE b == Suffix(s, i)
           n == i + Header + Length(b)
<1>1. /\ b \in Seq(Bytes) /\ Len(b) = Len(s) - i /\ Len(s) \in Nat
      /\ \A j \in 1..(Len(s) - i) : b[j] = s[i + j]
  BY SuffixFacts, LenProperties
<1>2. Length(b) \in Nat /\ Len(b) >= Header + Length(b)
  BY <1>1, FrameFacts
<1> HIDE DEF b
<1>3. n \in 0..Len(s)
  BY <1>1, <1>2
<1>4. Header + Length(b) \in 0..Len(b) /\ Rest(b) = Suffix(b, Header + Length(b))
  <2>1. Header + Length(b) + 1 = Length(b) + Header + 1
    BY <1>2
  <2> QED BY <1>1, <1>2, <2>1 DEF Rest, Suffix
<1>5. /\ Rest(b) \in Seq(Bytes) /\ Len(Rest(b)) = Len(s) - n
      /\ \A j \in 1..(Len(s) - n) : Rest(b)[j] = b[Header + Length(b) + j]
  <2>1. /\ Suffix(b, Header + Length(b)) \in Seq(Bytes)
        /\ Len(Suffix(b, Header + Length(b))) = Len(b) - (Header + Length(b))
        /\ \A j \in 1..(Len(b) - (Header + Length(b))) :
             Suffix(b, Header + Length(b))[j] = b[Header + Length(b) + j]
    BY <1>1, <1>4, SuffixFacts
  <2>2. Len(b) - (Header + Length(b)) = Len(s) - n
    BY <1>1, <1>2
  <2> HIDE DEF n
  <2> QED BY <1>4, <2>1, <2>2
<1>6. /\ Suffix(s, n) \in Seq(Bytes) /\ Len(Suffix(s, n)) = Len(s) - n
      /\ \A j \in 1..(Len(s) - n) : Suffix(s, n)[j] = s[n + j]
  BY <1>3, SuffixFacts
<1>7. \A j \in 1..(Len(s) - n) : Rest(b)[j] = Suffix(s, n)[j]
  <2> TAKE j \in 1..(Len(s) - n)
  <2>1. Header + Length(b) + j \in 1..(Len(s) - i) /\ i + (Header + Length(b) + j) = n + j
    BY <1>1, <1>2, <1>3
  <2>2. b[Header + Length(b) + j] = s[n + j]
    BY <1>1, <2>1
  <2> HIDE DEF n
  <2> QED BY <1>5, <1>6, <2>2
<1>8. Rest(b) = Suffix(s, n)
  BY <1>3, <1>5, <1>6, <1>7, SeqEqual
<1> QED BY <1>3, <1>8 DEF b

LEMMA InitInv ==
    ASSUME Init PROVE StreamInv
<1> USE DEF Init
<1>1. TypeOK
  <2>1. << >> \in Seq(Bytes) /\ << >> \in Seq(Seq(Bytes)) /\ <<0>> \in Seq(Nat)
    OBVIOUS
  <2> QED BY <2>1 DEF TypeOK
<1>2. Len(wire) = 0 /\ wire \in Seq(Bytes) /\ Len(cuts) = 1 /\ cuts[1] = 0
  BY <1>1
<1>3. EnvelopesFit
  BY <1>2 DEF EnvelopesFit
<1>4. BufferFits
  <2>1. Len(Suffix(wire, 0)) = 0 /\ Suffix(wire, 0) \in Seq(Bytes)
    <3>1. 0 \in 0..Len(wire)
      BY <1>2
    <3>2. Suffix(wire, 0) \in Seq(Bytes) /\ Len(Suffix(wire, 0)) = Len(wire) - 0
      BY <1>2, <3>1, SuffixFacts
    <3> QED BY <1>2, <3>2
  <2>2. Suffix(wire, 0) = << >>
    BY <2>1, EmptySeq
  <2> QED BY <1>2, <2>2 DEF BufferFits, Envelope, Running
<1>5. EndFits /\ EndIsWhole /\ NoEnvelopeWaits /\ OpenFits
  BY DEF EndFits, EndIsWhole, NoEnvelopeWaits, OpenFits
<1> QED BY <1>1, <1>3, <1>4, <1>5 DEF StreamInv

(* The positions of the envelopes lie within the body. *)
LEMMA CutsFacts ==
    ASSUME TypeOK, EnvelopesFit
    PROVE  /\ Len(cuts) \in Nat /\ Len(delivered) \in Nat /\ Len(wire) \in Nat
           /\ \A i \in 1..Len(cuts) : cuts[i] \in Nat
           /\ \A i \in 1..(Len(cuts) - 1) : cuts[i] \in 0..Len(wire)
<1>1. /\ Len(cuts) \in Nat /\ Len(delivered) \in Nat /\ Len(wire) \in Nat
      /\ \A i \in 1..Len(cuts) : cuts[i] \in Nat
  BY LenProperties, ElementOfSeq DEF TypeOK
<1>2. ASSUME NEW i \in 1..(Len(cuts) - 1) PROVE cuts[i] \in 0..Len(wire)
  <2>1. cuts[i] \in Nat
    BY <1>1
  <2>2. HasFrame(Suffix(wire, cuts[i]))
    BY <1>2 DEF EnvelopesFit, Envelope
  <2>3. Len(Suffix(wire, cuts[i])) >= 2
    BY <2>2 DEF HasFrame, HasHeader
  <2>4. CASE cuts[i] > Len(wire)
    <3>1. Suffix(wire, cuts[i]) = << >>
      BY <1>1, <2>1, <2>4, SubSeqEmpty DEF Suffix
    <3> QED BY <2>3, <3>1
  <2> QED BY <1>1, <2>1, <2>4
<1> QED BY <1>1, <1>2

(* Steps that leave the bytes, the positions and the messages alone. *)
LEMMA QuietInv ==
    ASSUME StreamInv, UNCHANGED <<buffer, ended, delivered, wire, cuts>>,
           at' \in {"unstarted"} \cup Running \cup Finals, open' \in BOOLEAN,
           at' \in Running => at \in {"unstarted"} \cup Running,
           at' \in {"decoding", "yielded"} => ~ended,
           at' \notin {"unstarted", "yielded"},
           at' = "returned" => at = "reading" /\ buffer = << >> /\ ended,
           at' = "reading" /\ ~ended =>
             ~HasFrame(buffer) /\ (HasHeader(buffer) => Length(buffer) <= MaxFrame),
           open' <=> at' \in Running \/ (at' = "closed" /\ wire = << >>)
    PROVE  StreamInv'
<1> USE DEF StreamInv
<1>1. TypeOK'
  BY DEF TypeOK
<1>2. EnvelopesFit'
  BY DEF EnvelopesFit, Envelope
<1>3. BufferFits'
  BY DEF BufferFits, Envelope, Running
<1>4. EndFits'
  BY DEF EndFits, Envelope, BufferFits, Running
<1>5. EndIsWhole'
  <2>1. SUFFICES ASSUME at' = "returned" PROVE EndIsWhole'
    BY DEF EndIsWhole
  <2>2. at = "reading" /\ buffer = << >> /\ ended
    BY <2>1
  <2> DEFINE i == Len(delivered) + 1
             envelope == Envelope(cuts[i])
  <2>3. HasFrame(envelope) /\ Flags(envelope) = 2 /\ EndKind(Payload(envelope)) = "object"
    BY <2>2 DEF EndFits, Running
  <2>4. /\ Len(cuts) = Len(delivered) + 2 /\ i \in 1..(Len(cuts) - 1)
        /\ Len(delivered) \in Nat /\ Len(wire) \in Nat
        /\ cuts[Len(cuts)] \in Nat /\ cuts[Len(cuts)] <= Len(wire)
        /\ Envelope(cuts[Len(cuts)]) = << >>
    BY <2>2, CutsFacts DEF BufferFits, Running
  <2>5. Len(Suffix(wire, cuts[Len(cuts)])) = Len(wire) - cuts[Len(cuts)]
    BY <2>4, SuffixFacts DEF TypeOK
  <2>6. cuts[Len(cuts)] = Len(wire)
    BY <2>4, <2>5 DEF Envelope
  <2>7. cuts[i + 1] = cuts[i] + Header + Length(envelope)
    BY <2>4 DEF EnvelopesFit
  <2>8. i + 1 = Len(cuts)
    BY <2>4
  <2> HIDE DEF envelope
  <2>9. cuts[i] + Header + Length(envelope) = Len(wire)
    BY <2>6, <2>7, <2>8
  <2> QED BY <2>1, <2>3, <2>9 DEF EndIsWhole, envelope, Envelope
<1>6. NoEnvelopeWaits' /\ OpenFits'
  BY DEF NoEnvelopeWaits, OpenFits
<1> QED BY <1>1, <1>2, <1>3, <1>4, <1>5, <1>6

(* More bytes follow what there was. *)
LEMMA ReceiveInv ==
    ASSUME StreamInv, NEW chunk \in Seq(Bytes), chunk # << >>, Receive(chunk)
    PROVE  StreamInv'
<1> USE DEF StreamInv
<1>1. /\ at = "reading" /\ wire' = wire \o chunk /\ open
      /\ UNCHANGED <<ended, delivered, cuts>>
      /\ at' = IF ended THEN "protocol" ELSE "decoding"
      /\ open' = ~ended
  BY DEF Receive, Finish, Running, TypeOK, OpenFits
<1>2. /\ wire \in Seq(Bytes) /\ wire' \in Seq(Bytes) /\ Len(wire') = Len(wire) + Len(chunk)
      /\ Len(wire) \in Nat /\ Len(chunk) \in Nat
  BY <1>1, ConcatProperties, LenProperties DEF TypeOK
<1>3. \A i \in 0..Len(wire) : Suffix(wire', i) = Suffix(wire, i) \o chunk
  BY <1>1, <1>2, SuffixExtend
<1>4. ASSUME NEW i \in 0..Len(wire), HasFrame(Envelope(i))
      PROVE  /\ HasFrame(Envelope(i)')
             /\ Flags(Envelope(i)') = Flags(Envelope(i))
             /\ Length(Envelope(i)') = Length(Envelope(i))
             /\ Payload(Envelope(i)') = Payload(Envelope(i))
  <2>1. Envelope(i)' = Envelope(i) \o chunk
    BY <1>3 DEF Envelope
  <2>2. Envelope(i) \in Seq(Bytes)
    BY <1>2, SuffixFacts DEF Envelope
  <2> QED BY <1>4, <2>1, <2>2, FrameExtend
<1>5. TypeOK'
  <2>1. buffer' \in Seq(Bytes)
    BY ConcatProperties DEF Receive, TypeOK
  <2> QED BY <1>1, <1>2, <2>1 DEF TypeOK, Running, Finals
<1>6. EnvelopesFit'
  <2>1. ASSUME NEW i \in 1..(Len(cuts) - 1)
        PROVE  /\ HasFrame(Envelope(cuts[i])')
               /\ Flags(Envelope(cuts[i])') = Flags(Envelope(cuts[i]))
               /\ Length(Envelope(cuts[i])') = Length(Envelope(cuts[i]))
               /\ Payload(Envelope(cuts[i])') = Payload(Envelope(cuts[i]))
    <3>1. cuts[i] \in 0..Len(wire) /\ HasFrame(Envelope(cuts[i])) /\ cuts'[i] = cuts[i]
      BY <1>1, CutsFacts DEF EnvelopesFit
    <3> DEFINE c == cuts[i]
    <3>2. /\ HasFrame(Suffix(wire', c)) /\ Flags(Suffix(wire', c)) = Flags(Suffix(wire, c))
          /\ Length(Suffix(wire', c)) = Length(Suffix(wire, c))
          /\ Payload(Suffix(wire', c)) = Payload(Suffix(wire, c))
      <4> HIDE DEF c
      <4>1. c \in 0..Len(wire) /\ HasFrame(Suffix(wire, c))
        BY <3>1 DEF c, Envelope
      <4>2. Suffix(wire', c) = Suffix(wire, c) \o chunk /\ Suffix(wire, c) \in Seq(Bytes)
        BY <1>2, <1>3, <4>1, SuffixFacts
      <4> QED BY <4>1, <4>2, FrameExtend
    <3> QED BY <1>1, <3>2 DEF Envelope
  <2> QED BY <1>1, <2>1, CutsFacts DEF EnvelopesFit
<1>7. BufferFits'
  <2>1. CASE ended
    BY <1>1, <2>1 DEF BufferFits, Running
  <2>2. CASE ~ended
    <3>1. /\ buffer' = buffer \o chunk /\ buffer = Suffix(wire, cuts[Len(cuts)])
          /\ Len(cuts) = Len(delivered) + 1
          /\ cuts[Len(cuts)] <= Len(wire)
      BY <1>1, <2>2 DEF Receive, BufferFits, Running, Envelope
    <3>2. cuts[Len(cuts)] \in 0..Len(wire)
      BY <1>2, <3>1, CutsFacts DEF EnvelopesFit
    <3>3. buffer' = Suffix(wire', cuts[Len(cuts)])
      BY <1>3, <3>1, <3>2
    <3>4. cuts[Len(cuts)] <= Len(wire')
      BY <1>2, <3>2
    <3> QED BY <1>1, <2>2, <3>1, <3>3, <3>4 DEF BufferFits, Envelope
  <2> QED BY <2>1, <2>2
<1>8. EndFits' /\ EndIsWhole' /\ NoEnvelopeWaits'
  BY <1>1 DEF EndFits, EndIsWhole, NoEnvelopeWaits, Running
<1>9. ~(wire' = << >>)
  <2>1. Len(chunk) # 0
    BY EmptySeq
  <2> QED BY <1>2, <2>1
<1>10. OpenFits'
  BY <1>1, <1>9 DEF OpenFits, Running
<1> QED BY <1>5, <1>6, <1>7, <1>8, <1>10

(* An envelope is taken from the buffer. *)
LEMMA TakeFacts ==
    ASSUME StreamInv, Decodable, TakeFrame, UNCHANGED wire
    PROVE  /\ at = "decoding" /\ ~ended /\ open
           /\ Len(cuts) = Len(delivered) + 1 /\ Len(delivered) \in Nat
           /\ cuts[Len(cuts)] \in 0..Len(wire)
           /\ buffer = Envelope(cuts[Len(cuts)])
           /\ HasFrame(buffer) /\ Length(buffer) <= MaxFrame /\ Length(buffer) \in Nat
           /\ Payload(buffer) \in Seq(Bytes)
           /\ cuts' \in Seq(Nat) /\ Len(cuts') = Len(cuts) + 1
           /\ \A i \in 1..Len(cuts) : cuts'[i] = cuts[i]
           /\ cuts'[Len(cuts) + 1] = cuts[Len(cuts)] + Header + Length(buffer)
           /\ cuts'[Len(cuts) + 1] \in 0..Len(wire)
           /\ buffer' = Suffix(wire, cuts'[Len(cuts) + 1]) /\ buffer' \in Seq(Bytes)
           /\ wire # << >>
<1> USE DEF StreamInv
<1>1. /\ at = "decoding" /\ ~ended /\ open /\ HasFrame(buffer) /\ Length(buffer) <= MaxFrame
      /\ Len(cuts) = Len(delivered) + 1 /\ buffer = Suffix(wire, cuts[Len(cuts)])
      /\ cuts[Len(cuts)] <= Len(wire)
  BY DEF Decodable, BufferFits, Running, Envelope, OpenFits
<1>2. Len(cuts) \in Nat /\ Len(cuts) >= 1 /\ Len(delivered) \in Nat /\ Len(wire) \in Nat
      /\ cuts[Len(cuts)] \in Nat
  BY CutsFacts DEF EnvelopesFit
<1>3. cuts[Len(cuts)] \in 0..Len(wire) /\ wire \in Seq(Bytes) /\ buffer \in Seq(Bytes)
      /\ cuts \in Seq(Nat)
  BY <1>1, <1>2 DEF TypeOK
<1>4. Length(buffer) \in Nat /\ Payload(buffer) \in Seq(Bytes) /\ Len(buffer) >= 2
  BY <1>1, <1>3, FrameFacts DEF HasFrame, HasHeader
<1> DEFINE n == Len(cuts)
           next == cuts[n] + Header + Length(buffer)
<1>5. next \in 0..Len(wire) /\ Rest(buffer) = Suffix(wire, next)
  <2> DEFINE c == cuts[n]
  <2> HIDE DEF c
  <2>1. c \in 0..Len(wire) /\ HasFrame(Suffix(wire, c)) /\ buffer = Suffix(wire, c)
    BY <1>1, <1>3 DEF c
  <2>2. /\ c + Header + Length(Suffix(wire, c)) \in 0..Len(wire)
        /\ Rest(Suffix(wire, c)) = Suffix(wire, c + Header + Length(Suffix(wire, c)))
    BY <1>3, <2>1, RestIsSuffix
  <2> QED BY <2>1, <2>2 DEF c
<1>6. cuts' = Append(cuts, next) /\ buffer' = Rest(buffer)
  BY DEF TakeFrame
<1>7. next \in Nat
  BY <1>5
<1> HIDE DEF next, n
<1>8. /\ cuts' \in Seq(Nat) /\ Len(cuts') = Len(cuts) + 1
      /\ \A i \in 1..Len(cuts) : cuts'[i] = cuts[i]
      /\ cuts'[Len(cuts) + 1] = next
  BY <1>3, <1>6, <1>7, AppendProperties
<1>9. buffer' \in Seq(Bytes)
  BY <1>3, <1>5, <1>6, SuffixFacts
<1>10. wire # << >>
  <2>1. Len(Suffix(wire, cuts[Len(cuts)])) = Len(wire) - cuts[Len(cuts)]
    BY <1>3, SuffixFacts
  <2> QED BY <1>1, <1>2, <1>3, <1>4, <2>1
<1> QED BY <1>1, <1>2, <1>3, <1>4, <1>5, <1>6, <1>8, <1>9, <1>10 DEF next, n, Envelope

(* Once an envelope is taken the positions fit, with the messages as they   *)
(* were or with its payload as one more.                                    *)
LEMMA TakeFits ==
    ASSUME StreamInv, Decodable, TakeFrame, UNCHANGED wire,
           \/ delivered' = delivered
           \/ /\ delivered' = Append(delivered, Payload(buffer))
              /\ Flags(buffer) = 0 /\ IsMessage(Payload(buffer))
    PROVE  EnvelopesFit' /\ delivered' \in Seq(Seq(Bytes))
<1>0. /\ Len(cuts) = Len(delivered) + 1 /\ Len(delivered) \in Nat
      /\ buffer = Suffix(wire, cuts[Len(cuts)])
      /\ HasFrame(buffer) /\ Length(buffer) <= MaxFrame /\ Payload(buffer) \in Seq(Bytes)
      /\ Len(cuts') = Len(cuts) + 1
      /\ \A i \in 1..Len(cuts) : cuts'[i] = cuts[i]
      /\ cuts'[Len(cuts) + 1] = cuts[Len(cuts)] + Header + Length(buffer)
      /\ wire' = wire
  BY TakeFacts DEF Envelope
<1>1. EnvelopesFit /\ delivered \in Seq(Seq(Bytes))
  BY DEF StreamInv, TypeOK
<1>2. Len(cuts) \in Nat /\ Len(cuts) >= 1 /\ Len(cuts) \in 1..Len(cuts)
  BY <1>0
<1> DEFINE n == Len(cuts)
<1>a. n \in Nat /\ n >= 1 /\ n = Len(delivered) + 1 /\ Len(cuts') = n + 1
  BY <1>0, <1>2
<1>b. cuts'[n] = cuts[n] /\ buffer = Suffix(wire, cuts'[n])
  BY <1>0, <1>2
<1>c. /\ HasFrame(Suffix(wire, cuts'[n])) /\ Length(Suffix(wire, cuts'[n])) <= MaxFrame
      /\ cuts'[n + 1] = cuts'[n] + Header + Length(Suffix(wire, cuts'[n]))
  BY <1>0, <1>b
<1>3. \A i \in 1..(Len(cuts') - 1) :
         /\ HasFrame(Suffix(wire, cuts'[i]))
         /\ Length(Suffix(wire, cuts'[i])) <= MaxFrame
         /\ cuts'[i + 1] = cuts'[i] + Header + Length(Suffix(wire, cuts'[i]))
  <2> TAKE i \in 1..(Len(cuts') - 1)
  <2>1. CASE i = n
    BY <1>c, <2>1
  <2>2. CASE i # n
    <3>1. i \in 1..(n - 1) /\ i \in 1..n /\ i + 1 \in 1..n
      BY <1>a, <2>2
    <3>2. cuts'[i] = cuts[i] /\ cuts'[i + 1] = cuts[i + 1]
      BY <1>0, <3>1
    <3>3. /\ HasFrame(Suffix(wire, cuts[i]))
          /\ Length(Suffix(wire, cuts[i])) <= MaxFrame
          /\ cuts[i + 1] = cuts[i] + Header + Length(Suffix(wire, cuts[i]))
      BY <1>1, <3>1 DEF EnvelopesFit, Envelope
    <3> QED BY <3>2, <3>3
  <2> QED BY <2>1, <2>2
<1>4. \A i \in 1..Len(delivered) :
         /\ Flags(Suffix(wire, cuts'[i])) = 0
         /\ delivered[i] = Payload(Suffix(wire, cuts'[i]))
         /\ IsMessage(delivered[i])
  <2> TAKE i \in 1..Len(delivered)
  <2>1. i \in 1..n
    BY <1>a
  <2>2. cuts'[i] = cuts[i]
    BY <1>0, <2>1
  <2>3. /\ Flags(Suffix(wire, cuts[i])) = 0 /\ delivered[i] = Payload(Suffix(wire, cuts[i]))
        /\ IsMessage(delivered[i])
    BY <1>1 DEF EnvelopesFit, Envelope
  <2> QED BY <2>2, <2>3
<1>5. /\ delivered' \in Seq(Seq(Bytes)) /\ Len(delivered') <= Len(cuts') - 1
      /\ \A i \in 1..Len(delivered') :
           /\ Flags(Suffix(wire, cuts'[i])) = 0
           /\ delivered'[i] = Payload(Suffix(wire, cuts'[i]))
           /\ IsMessage(delivered'[i])
  <2>1. CASE delivered' = delivered
    <3>1. Len(delivered) <= Len(cuts') - 1
      BY <1>0, <1>a
    <3> QED BY <1>1, <1>4, <2>1, <3>1
  <2>2. CASE /\ delivered' = Append(delivered, Payload(buffer))
             /\ Flags(buffer) = 0 /\ IsMessage(Payload(buffer))
    <3> DEFINE payload == Payload(buffer)
    <3>1. /\ payload \in Seq(Bytes) /\ delivered' = Append(delivered, payload)
          /\ IsMessage(payload)
      BY <1>0, <2>2
    <3>a. payload = Payload(Suffix(wire, cuts'[n])) /\ Flags(Suffix(wire, cuts'[n])) = 0
      BY <1>b, <2>2
    <3> HIDE DEF payload
    <3>2. /\ delivered' \in Seq(Seq(Bytes)) /\ Len(delivered') = Len(delivered) + 1
          /\ \A i \in 1..Len(delivered) : delivered'[i] = delivered[i]
          /\ delivered'[Len(delivered) + 1] = payload
      BY <1>1, <3>1, AppendProperties
    <3>3. ASSUME NEW i \in 1..Len(delivered')
          PROVE  /\ Flags(Suffix(wire, cuts'[i])) = 0
                 /\ delivered'[i] = Payload(Suffix(wire, cuts'[i]))
                 /\ IsMessage(delivered'[i])
      <4>1. CASE i = n
        <5>1. delivered'[i] = payload
          BY <1>a, <3>2, <4>1
        <5> QED BY <3>1, <3>a, <4>1, <5>1
      <4>2. CASE i # n
        <5>1. i \in 1..Len(delivered)
          BY <1>0, <1>a, <3>2, <4>2
        <5> QED BY <1>4, <3>2, <5>1
      <4> QED BY <4>1, <4>2
    <3>4. Len(delivered') <= Len(cuts') - 1
      BY <1>a, <3>2
    <3> QED BY <3>2, <3>3, <3>4
  <2> QED BY <2>1, <2>2
<1>6. cuts'[1] = 0
  <2>1. 1 \in 1..n /\ cuts[1] = 0
    BY <1>1, <1>a DEF EnvelopesFit
  <2> QED BY <1>0, <2>1
<1>7. Len(cuts') >= 1
  BY <1>a
<1> QED BY <1>0, <1>3, <1>5, <1>6, <1>7 DEF EnvelopesFit, Envelope

LEMMA MessageInv ==
    ASSUME StreamInv, Message PROVE StreamInv'
<1>1. /\ Decodable /\ TakeFrame /\ UNCHANGED <<ended, open, wire>>
      /\ Flags(buffer) = 0 /\ IsMessage(Payload(buffer))
      /\ delivered' = Append(delivered, Payload(buffer))
      /\ at' = "yielded"
  BY DEF Message
<1>2. EnvelopesFit' /\ delivered' \in Seq(Seq(Bytes))
  BY <1>1, TakeFits
<1>3. Len(delivered') = Len(delivered) + 1
  <2> DEFINE payload == Payload(buffer)
  <2>1. payload \in Seq(Bytes) /\ delivered' = Append(delivered, payload)
        /\ delivered \in Seq(Seq(Bytes))
    BY <1>1, TakeFacts DEF StreamInv, TypeOK
  <2> HIDE DEF payload
  <2> QED BY <2>1, AppendProperties
<1>4. /\ ~ended /\ open /\ Len(cuts') = Len(delivered') + 1 /\ wire # << >>
      /\ cuts' \in Seq(Nat) /\ buffer' \in Seq(Bytes)
      /\ cuts'[Len(cuts')] <= Len(wire') /\ buffer' = Suffix(wire', cuts'[Len(cuts')])
  <2>1. /\ Len(cuts) = Len(delivered) + 1 /\ Len(cuts') = Len(cuts) + 1
        /\ cuts'[Len(cuts) + 1] \in 0..Len(wire)
        /\ buffer' = Suffix(wire, cuts'[Len(cuts) + 1])
        /\ ~ended /\ open /\ wire # << >> /\ cuts' \in Seq(Nat) /\ buffer' \in Seq(Bytes)
    BY <1>1, TakeFacts
  <2>2. cuts'[Len(cuts')] \in 0..Len(wire) /\ buffer' = Suffix(wire, cuts'[Len(cuts')])
    BY <2>1
  <2> QED BY <1>1, <1>3, <2>1, <2>2
<1>5. TypeOK'
  BY <1>1, <1>2, <1>4 DEF StreamInv, TypeOK, Running
<1>6. BufferFits'
  BY <1>1, <1>4 DEF BufferFits, Envelope
<1>7. EndFits' /\ EndIsWhole' /\ NoEnvelopeWaits' /\ OpenFits'
  BY <1>1, <1>4 DEF EndFits, EndIsWhole, NoEnvelopeWaits, OpenFits, Running
<1> QED BY <1>2, <1>5, <1>6, <1>7 DEF StreamInv

LEMMA EndInv ==
    ASSUME StreamInv, End PROVE StreamInv'
<1>1. /\ Decodable /\ TakeFrame /\ UNCHANGED <<delivered, open, wire>>
      /\ Flags(buffer) = 2 /\ EndKind(Payload(buffer)) = "object"
      /\ buffer' = << >> /\ ended' = TRUE /\ at' = "reading"
  BY DEF End, TakeFrame
<1>2. EnvelopesFit'
  BY <1>1, TakeFits
<1>3. TypeOK'
  BY <1>1, TakeFacts DEF StreamInv, TypeOK, Running
<1>4. BufferFits'
  <2>1. /\ Len(cuts) = Len(delivered) + 1 /\ Len(cuts') = Len(cuts) + 1
        /\ Len(delivered) \in Nat
        /\ cuts'[Len(cuts) + 1] \in 0..Len(wire)
        /\ buffer' = Suffix(wire, cuts'[Len(cuts) + 1])
    BY <1>1, TakeFacts
  <2>2. /\ Len(cuts') = Len(delivered') + 2
        /\ cuts'[Len(cuts')] <= Len(wire') /\ buffer' = Suffix(wire', cuts'[Len(cuts')])
    BY <1>1, <2>1
  <2> QED BY <1>1, <2>2 DEF BufferFits, Envelope
<1>5. EndFits'
  <2>1. cuts'[Len(delivered') + 1] = cuts[Len(cuts)] /\ buffer = Suffix(wire, cuts[Len(cuts)])
    <3>1. /\ Len(cuts) = Len(delivered) + 1 /\ Len(delivered) \in Nat
          /\ \A i \in 1..Len(cuts) : cuts'[i] = cuts[i]
          /\ buffer = Suffix(wire, cuts[Len(cuts)])
      BY <1>1, TakeFacts DEF Envelope
    <3>2. Len(cuts) \in 1..Len(cuts)
      BY <3>1
    <3> QED BY <1>1, <3>1, <3>2
  <2>2. HasFrame(buffer) /\ wire' = wire
    BY <1>1, TakeFacts
  <2>3. Envelope(cuts[Len(delivered) + 1])' = buffer
    BY <2>1, <2>2 DEF Envelope
  <2> QED BY <1>1, <2>2, <2>3 DEF EndFits
<1>6. EndIsWhole' /\ NoEnvelopeWaits' /\ OpenFits'
  <2>1. open
    BY <1>1, TakeFacts
  <2> QED BY <1>1, <2>1 DEF EndIsWhole, NoEnvelopeWaits, OpenFits, Running
<1> QED BY <1>2, <1>3, <1>4, <1>5, <1>6 DEF StreamInv

LEMMA RefusalInv ==
    ASSUME StreamInv, ServerError \/ Refuse PROVE StreamInv'
<1>1. /\ Decodable /\ TakeFrame /\ UNCHANGED <<ended, delivered, wire>>
      /\ at' \in {"server_error", "protocol"} /\ open' = FALSE
  BY DEF ServerError, Refuse, Finish
<1>2. EnvelopesFit'
  BY <1>1, TakeFits
<1>3. TypeOK'
  BY <1>1, TakeFacts DEF StreamInv, TypeOK, Finals
<1>4. BufferFits' /\ EndFits' /\ EndIsWhole' /\ NoEnvelopeWaits'
  BY <1>1 DEF BufferFits, EndFits, EndIsWhole, NoEnvelopeWaits, Running
<1>5. OpenFits'
  BY <1>1 DEF OpenFits, Running
<1> QED BY <1>2, <1>3, <1>4, <1>5 DEF StreamInv

LEMMA StepInv ==
    ASSUME StreamInv, [Next]_vars PROVE StreamInv'
<1>1. TypeOK /\ BufferFits /\ OpenFits
  BY DEF StreamInv
<1>a. StreamInv
  OBVIOUS
<1>2. CASE Start \/ NeedMore \/ Resume
  <2>1. UNCHANGED <<buffer, ended, delivered, wire, cuts, open>>
        /\ at' \in {"reading", "decoding"} /\ at \in {"unstarted", "decoding", "yielded"}
    BY <1>2 DEF Start, NeedMore, Resume
  <2>2. ~ended /\ open /\ open' \in BOOLEAN
    BY <1>1, <2>1 DEF BufferFits, OpenFits, Running, TypeOK
  <2>3. CASE Start
    <3>1. Len(buffer) = 0
      <4>1. at = "unstarted" /\ wire = << >> /\ Len(wire) = 0
        BY <1>1, <2>3 DEF Start, OpenFits
      <4>2. /\ buffer = Suffix(wire, cuts[Len(cuts)]) /\ cuts[Len(cuts)] \in 0..Len(wire)
        BY <1>1, <1>a, <4>1, CutsFacts DEF BufferFits, Envelope, StreamInv, EnvelopesFit
      <4> QED BY <1>1, <4>1, <4>2, SuffixFacts DEF TypeOK
    <3>2. ~HasFrame(buffer) /\ ~HasHeader(buffer)
      BY <3>1 DEF HasFrame, HasHeader
    <3> QED BY <1>a, <2>1, <2>2, <3>2, QuietInv DEF Running
  <2>4. CASE NeedMore
    BY <1>a, <2>1, <2>2, <2>4, QuietInv DEF Running, NeedMore
  <2>5. CASE Resume
    BY <1>a, <2>1, <2>2, <2>5, QuietInv DEF Running, Resume
  <2> QED BY <1>2, <2>3, <2>4, <2>5
<1>3. CASE EndOfBody \/ Break \/ Oversize
  <2>1. UNCHANGED <<buffer, ended, delivered, wire, cuts>> /\ open' = FALSE
        /\ at' \in {"returned", "protocol", "transport"}
        /\ (at' = "returned" => at = "reading" /\ buffer = << >> /\ ended)
    BY <1>1, <1>3 DEF EndOfBody, Break, Oversize, Finish, TypeOK
  <2> QED BY <1>a, <2>1, QuietInv DEF Running, Finals
<1>4. CASE Close
  <2>1. /\ UNCHANGED <<buffer, ended, delivered, wire, cuts>> /\ at' = "closed"
        /\ open' \in BOOLEAN /\ (open' <=> wire = << >>)
    BY <1>1, <1>4 DEF Close, OpenFits
  <2> QED BY <1>a, <2>1, QuietInv DEF Running, Finals
<1>5. ASSUME NEW chunk \in Chunks, Receive(chunk) PROVE StreamInv'
  <2>1. chunk \in Seq(Bytes) /\ chunk # << >>
    BY DEF Chunks
  <2> QED BY <1>5, <2>1, ReceiveInv
<1>6. CASE UNCHANGED vars
  BY <1>6 DEF vars, StreamInv, TypeOK, EnvelopesFit, BufferFits, EndFits, EndIsWhole,
       NoEnvelopeWaits, OpenFits, Envelope
<1> QED BY <1>2, <1>3, <1>4, <1>5, <1>6, MessageInv, EndInv, RefusalInv DEF Next

(* The inductive invariant of the decoder. *)
THEOREM StreamInvariant == Spec => []StreamInv
  BY InitInv, StepInv, PTL DEF Spec

(* The consumer sees the end of the stream only if the body was whole. *)
THEOREM EndsAreWhole == Spec => []EndIsWhole
<1>1. StreamInv => EndIsWhole
  BY DEF StreamInv
<1> QED BY <1>1, StreamInvariant, PTL

----------------------------------------------------------------------------
(* Reading, the meaning of a body that arrived as a whole.  It is defined   *)
(* by recursion over a shorter body each time, so that there is such a      *)
(* function has to be proved: by the least length for which there is none.  *)

(* Every nonempty set of natural numbers has a least element. *)
LEMMA LeastNatural ==
    ASSUME NEW T, T \subseteq Nat, T # {}
    PROVE  \E n \in T : \A m \in T : n <= m
<1>1. PICK n \in T : \A m \in T : ~ (<<m, n>> \in OpToRel(<, Nat))
  BY NatLessThanWellFounded, WFMin
<1>2. \A m \in T : ~ (m < n)
  BY <1>1 DEF OpToRel
<1> QED BY <1>2

(* What is left of the bytes after an envelope is shorter. *)
LEMMA RestIsShorter ==
    ASSUME NEW b \in Seq(Bytes), HasFrame(b)
    PROVE  Rest(b) \in Seq(Bytes) /\ Len(Rest(b)) < Len(b)
<1>1. Length(b) \in Nat /\ Len(b) \in Nat /\ Len(b) >= Header + Length(b)
  BY FrameFacts
<1> DEFINE n == Header + Length(b)
<1>2. n \in 0..Len(b) /\ n >= 2 /\ Header + Length(b) + 1 = n + 1
  BY <1>1
<1>a. Rest(b) = Suffix(b, n)
  BY <1>2 DEF Rest, Suffix
<1> HIDE DEF n
<1>3. Suffix(b, n) \in Seq(Bytes) /\ Len(Suffix(b, n)) = Len(b) - n
  BY <1>2, SuffixFacts
<1> QED BY <1>1, <1>2, <1>3, <1>a

(* One step of Reading, by a function f for what comes after the envelope. *)
ReadStep(f, b) ==
    IF HasHeader(b) /\ Length(b) > MaxFrame THEN Verdict(<< >>, "protocol")
    ELSE IF ~HasFrame(b) THEN Verdict(<< >>, "partial")
    ELSE IF Flags(b) = 0 /\ IsMessage(Payload(b))
         THEN Verdict(<<Payload(b)>> \o f[Rest(b)].messages, f[Rest(b)].how)
    ELSE IF Flags(b) = 2 /\ EndKind(Payload(b)) = "error" THEN Verdict(<< >>, "server_error")
    ELSE IF Flags(b) = 2 /\ EndKind(Payload(b)) = "object" /\ Rest(b) = << >>
         THEN Verdict(<< >>, "returned")
    ELSE Verdict(<< >>, "protocol")

(* The bodies of fewer than n bytes, and that f reads them. *)
Short(n) == {b \in Seq(Bytes) : Len(b) < n}
Reads(f, n) == f = [b \in Short(n) |-> ReadStep(f, b)]

LEMMA ReadStepLocal ==
    ASSUME NEW f, NEW g, NEW b \in Seq(Bytes), HasFrame(b) => f[Rest(b)] = g[Rest(b)]
    PROVE  ReadStep(f, b) = ReadStep(g, b)
BY DEF ReadStep

LEMMA ReadsValue ==
    ASSUME NEW f, NEW n \in Nat, Reads(f, n), NEW b \in Short(n)
    PROVE  f[b] = ReadStep(f, b)
BY DEF Reads

(* Two readings agree on every body that both read. *)
LEMMA ReadsAgree ==
    ASSUME NEW f, NEW g, NEW n \in Nat, NEW m \in Nat, n <= m, Reads(f, n), Reads(g, m)
    PROVE  \A b \in Short(n) : f[b] = g[b]
<1> DEFINE Bad == {b \in Short(n) : f[b] # g[b]}
           T == {Len(b) : b \in Bad}
<1> SUFFICES ASSUME Bad # {} PROVE FALSE
  OBVIOUS
<1>1. T \subseteq Nat /\ T # {}
  <2>1. \A b \in Bad : Len(b) \in Nat
    BY LenProperties DEF Short
  <2> HIDE DEF Bad
  <2> QED BY <2>1
<1>2. PICK k \in T : \A j \in T : k <= j
  BY <1>1, LeastNatural
<1>3. PICK b \in Bad : k = Len(b)
  OBVIOUS
<1>4. b \in Short(n) /\ b \in Short(m) /\ b \in Seq(Bytes) /\ Len(b) \in Nat /\ Len(b) < n
  BY LenProperties DEF Short
<1>5. HasFrame(b) => f[Rest(b)] = g[Rest(b)]
  <2> SUFFICES ASSUME HasFrame(b) PROVE f[Rest(b)] = g[Rest(b)]
    OBVIOUS
  <2>1. Rest(b) \in Seq(Bytes) /\ Len(Rest(b)) < Len(b) /\ Len(Rest(b)) \in Nat
    BY <1>4, RestIsShorter, LenProperties
  <2>2. Rest(b) \in Short(n)
    BY <1>4, <2>1 DEF Short
  <2>3. Rest(b) \notin Bad
    BY <1>2, <1>3, <2>1, <1>4
  <2> QED BY <2>2, <2>3
<1>6. f[b] = ReadStep(f, b) /\ g[b] = ReadStep(g, b)
  BY <1>4, ReadsValue
<1>7. f[b] = g[b]
  BY <1>4, <1>5, <1>6, ReadStepLocal
<1> QED BY <1>7

(* There is a reading of the bodies of every length. *)
LEMMA ReadsExists == \A n \in Nat : \E f : Reads(f, n)
<1> DEFINE T == {n \in Nat : ~ \E f : Reads(f, n)}
<1> SUFFICES ASSUME T # {} PROVE FALSE
  OBVIOUS
<1>1. PICK n \in T : \A m \in T : n <= m
  <2>1. T \subseteq Nat
    OBVIOUS
  <2> HIDE DEF T
  <2> QED BY <2>1, LeastNatural
<1>2. CASE n = 0
  <2> DEFINE f == [b \in {} |-> 0]
  <2>1. Short(0) = {}
    BY LenProperties DEF Short
  <2>2. Reads(f, 0)
    BY <2>1 DEF Reads
  <2> QED BY <1>2, <2>2
<1>3. CASE n # 0
  <2>1. n - 1 \in Nat /\ n - 1 \notin T
    BY <1>1, <1>3
  <2>2. PICK f : Reads(f, n - 1)
    BY <2>1
  <2> DEFINE g == [b \in Short(n) |-> ReadStep(f, b)]
  <2>3. ASSUME NEW b \in Short(n) PROVE ReadStep(f, b) = ReadStep(g, b)
    <3>1. b \in Seq(Bytes) /\ Len(b) \in Nat /\ Len(b) < n
      BY LenProperties DEF Short
    <3>2. HasFrame(b) => f[Rest(b)] = g[Rest(b)]
      <4> SUFFICES ASSUME HasFrame(b) PROVE f[Rest(b)] = g[Rest(b)]
        OBVIOUS
      <4>1. Rest(b) \in Seq(Bytes) /\ Len(Rest(b)) < Len(b) /\ Len(Rest(b)) \in Nat
        BY <3>1, RestIsShorter, LenProperties
      <4>2. Rest(b) \in Short(n - 1) /\ Rest(b) \in Short(n)
        BY <3>1, <4>1 DEF Short
      <4>3. f[Rest(b)] = ReadStep(f, Rest(b))
        BY <2>1, <2>2, <4>2, ReadsValue
      <4> QED BY <4>2, <4>3
    <3> HIDE DEF g
    <3> QED BY <3>1, <3>2, ReadStepLocal
  <2>4. Reads(g, n)
    BY <2>3 DEF Reads
  <2> QED BY <2>4
<1> QED BY <1>2, <1>3

(* Reading is what its definition says. *)
LEMMA ReadingExists == \E f : f = [b \in Seq(Bytes) |-> ReadStep(f, b)]
<1> DEFINE Approx(n) == CHOOSE f : Reads(f, n)
           F == [b \in Seq(Bytes) |-> Approx(Len(b) + 1)[b]]
<1>1. \A n \in Nat : Reads(Approx(n), n)
  BY ReadsExists
<1> HIDE DEF Approx
<1>2. ASSUME NEW b \in Seq(Bytes) PROVE F[b] = ReadStep(F, b)
  <2> DEFINE n == Len(b) + 1
             f == Approx(n)
  <2>1. n \in Nat /\ b \in Short(n) /\ Len(b) \in Nat
    BY LenProperties DEF Short
  <2>2. F[b] = ReadStep(f, b)
    BY <1>1, <2>1, ReadsValue
  <2>3. HasFrame(b) => f[Rest(b)] = F[Rest(b)]
    <3> SUFFICES ASSUME HasFrame(b) PROVE f[Rest(b)] = F[Rest(b)]
      OBVIOUS
    <3> DEFINE r == Rest(b)
               m == Len(r) + 1
    <3>1. r \in Seq(Bytes) /\ Len(r) < Len(b) /\ Len(r) \in Nat
      BY RestIsShorter, LenProperties
    <3> HIDE DEF r
    <3>2. m \in Nat /\ m <= n /\ r \in Short(m)
      BY <2>1, <3>1 DEF Short
    <3>3. Approx(m)[r] = Approx(n)[r]
      BY <1>1, <2>1, <3>2, ReadsAgree
    <3>4. F[r] = Approx(m)[r]
      BY <3>1
    <3> QED BY <3>3, <3>4 DEF r
  <2> HIDE DEF F, f
  <2> QED BY <2>2, <2>3, ReadStepLocal
<1>3. F = [b \in Seq(Bytes) |-> ReadStep(F, b)]
  <2> HIDE DEF Approx
  <2> DEFINE G == [b \in Seq(Bytes) |-> ReadStep(F, b)]
  <2>1. \A b \in Seq(Bytes) : F[b] = G[b]
    BY <1>2
  <2>2. F = [b \in Seq(Bytes) |-> F[b]] /\ G = [b \in Seq(Bytes) |-> G[b]]
    OBVIOUS
  <2> HIDE DEF F, G
  <2>3. F = G
    BY <2>1, <2>2
  <2> QED BY <2>3 DEF G
<1> QED BY <1>3

LEMMA ReadingUnfolds == ASSUME NEW b \in Seq(Bytes) PROVE Reading[b] = ReadStep(Reading, b)
<1>1. Reading = CHOOSE f : f = [c \in Seq(Bytes) |-> ReadStep(f, c)]
  BY DEF Reading, ReadStep
<1>2. Reading = [c \in Seq(Bytes) |-> ReadStep(Reading, c)]
  BY <1>1, ReadingExists
<1> QED BY <1>2

(* What Reading returns. *)
Outcomes == {"partial", "protocol", "server_error", "returned"}
Verdicts == [messages : Seq(Seq(Bytes)), how : Outcomes]

LEMMA ReadingType == \A b \in Seq(Bytes) : Reading[b] \in Verdicts
<1> DEFINE Bad == {b \in Seq(Bytes) : Reading[b] \notin Verdicts}
           T == {Len(b) : b \in Bad}
<1> SUFFICES ASSUME Bad # {} PROVE FALSE
  OBVIOUS
<1>1. T \subseteq Nat /\ T # {}
  <2>1. \A b \in Bad : Len(b) \in Nat
    BY LenProperties
  <2> HIDE DEF Bad
  <2> QED BY <2>1
<1>2. PICK k \in T : \A j \in T : k <= j
  BY <1>1, LeastNatural
<1>3. PICK b \in Bad : k = Len(b)
  OBVIOUS
<1>4. b \in Seq(Bytes) /\ Len(b) \in Nat
  BY LenProperties
<1>5. HasFrame(b) => Reading[Rest(b)] \in Verdicts /\ Payload(b) \in Seq(Bytes)
  <2> SUFFICES ASSUME HasFrame(b)
               PROVE  Reading[Rest(b)] \in Verdicts /\ Payload(b) \in Seq(Bytes)
    OBVIOUS
  <2>1. Rest(b) \in Seq(Bytes) /\ Len(Rest(b)) < Len(b) /\ Len(Rest(b)) \in Nat
    BY <1>4, RestIsShorter, LenProperties
  <2>2. Rest(b) \notin Bad
    BY <1>2, <1>3, <1>4, <2>1
  <2>3. Payload(b) \in Seq(Bytes)
    BY <1>4, FrameFacts
  <2> QED BY <2>1, <2>2, <2>3
<1>6. \A how \in Outcomes : Verdict(<< >>, how) \in Verdicts
  <2> DEFINE none == << >>
  <2>1. none \in Seq(Seq(Bytes))
    OBVIOUS
  <2> HIDE DEF none
  <2>2. \A how \in Outcomes : Verdict(none, how) \in Verdicts
    BY <2>1 DEF Verdict, Verdicts
  <2> QED BY <2>2 DEF none
<1>a. /\ Verdict(<< >>, "protocol") \in Verdicts /\ Verdict(<< >>, "partial") \in Verdicts
      /\ Verdict(<< >>, "server_error") \in Verdicts /\ Verdict(<< >>, "returned") \in Verdicts
  BY <1>6 DEF Outcomes
<1>7. ASSUME HasFrame(b)
      PROVE  Verdict(<<Payload(b)>> \o Reading[Rest(b)].messages, Reading[Rest(b)].how)
               \in Verdicts
  <2> DEFINE p == Payload(b)
             r == Reading[Rest(b)]
  <2>1. p \in Seq(Bytes) /\ r.messages \in Seq(Seq(Bytes)) /\ r.how \in Outcomes
    BY <1>5, <1>7 DEF Verdicts
  <2> HIDE DEF p, r
  <2>2. <<p>> \in Seq(Seq(Bytes))
    BY <2>1
  <2>3. <<p>> \o r.messages \in Seq(Seq(Bytes))
    BY <2>1, <2>2, ConcatProperties
  <2>4. Verdict(<<p>> \o r.messages, r.how) \in Verdicts
    BY <2>1, <2>3 DEF Verdict, Verdicts
  <2> QED BY <2>4 DEF p, r
<1>8. Reading[b] = ReadStep(Reading, b)
  BY <1>4, ReadingUnfolds
<1>9. Reading[b] \in Verdicts
  BY <1>7, <1>8, <1>a DEF ReadStep
<1> QED BY <1>9

(* What Reading returns for bytes that begin with an envelope, and for      *)
(* others.                                                                  *)
LEMMA ReadingMessage ==
    ASSUME NEW b \in Seq(Bytes), HasFrame(b), Length(b) <= MaxFrame, Flags(b) = 0,
           IsMessage(Payload(b))
    PROVE  /\ Reading[b].messages = <<Payload(b)>> \o Reading[Rest(b)].messages
           /\ Reading[b].how = Reading[Rest(b)].how
<1>1. Length(b) \in Nat /\ ~(Length(b) > MaxFrame)
  BY FrameFacts
<1>2. Reading[b] = Verdict(<<Payload(b)>> \o Reading[Rest(b)].messages, Reading[Rest(b)].how)
  BY <1>1, ReadingUnfolds DEF ReadStep
<1> QED BY <1>2 DEF Verdict

LEMMA ReadingPartial ==
    ASSUME NEW b \in Seq(Bytes), HasHeader(b) => Length(b) <= MaxFrame, ~HasFrame(b)
    PROVE  Reading[b] = Verdict(<< >>, "partial")
<1>1. HasHeader(b) => Length(b) \in Nat
  <2>1. HasHeader(b) => b[2] \in Bytes
    BY LenProperties, ElementOfSeq DEF HasHeader
  <2> QED BY <2>1 DEF Length, Bytes
<1>2. ~(HasHeader(b) /\ Length(b) > MaxFrame)
  BY <1>1
<1>3. Reading[b] = ReadStep(Reading, b)
  BY ReadingUnfolds
<1> QED BY <1>2, <1>3 DEF ReadStep

LEMMA ReadingOversize ==
    ASSUME NEW b \in Seq(Bytes), HasHeader(b), Length(b) > MaxFrame
    PROVE  Reading[b] = Verdict(<< >>, "protocol")
BY ReadingUnfolds DEF ReadStep

LEMMA ReadingEnd ==
    ASSUME NEW b \in Seq(Bytes), HasFrame(b), Length(b) <= MaxFrame,
           ~(Flags(b) = 0 /\ IsMessage(Payload(b)))
    PROVE  Reading[b] = Verdict(<< >>,
             IF Flags(b) = 2 /\ EndKind(Payload(b)) = "error" THEN "server_error"
             ELSE IF Flags(b) = 2 /\ EndKind(Payload(b)) = "object" /\ Rest(b) = << >>
                  THEN "returned" ELSE "protocol")
<1>1. Length(b) \in Nat /\ ~(Length(b) > MaxFrame)
  BY FrameFacts
<1> QED BY <1>1, ReadingUnfolds DEF ReadStep

----------------------------------------------------------------------------
(* What the generator has done, in terms of Reading. *)

LEMMA ConcatOne ==
    ASSUME NEW S, NEW s \in Seq(S), NEW e \in S, NEW t \in Seq(S)
    PROVE  (s \o <<e>>) \o t = s \o (<<e>> \o t)
<1> DEFINE one == <<e>>
<1>1. one \in Seq(S)
  OBVIOUS
<1> HIDE DEF one
<1>2. (s \o one) \o t = s \o (one \o t)
  BY <1>1, ConcatAssociative
<1> QED BY <1>2 DEF one

(* Envelopes with the messages d lie end to end in w, from positions c on.  *)
MessagesAt(w, d, c) ==
    \A i \in 1..Len(d) :
      /\ c[i] \in Nat /\ c[i] <= Len(w)
      /\ HasFrame(Suffix(w, c[i]))
      /\ Length(Suffix(w, c[i])) <= MaxFrame
      /\ Flags(Suffix(w, c[i])) = 0
      /\ d[i] = Payload(Suffix(w, c[i]))
      /\ IsMessage(d[i])
      /\ c[i + 1] = c[i] + Header + Length(Suffix(w, c[i]))

(* After messages d, the envelopes of which lie at positions c, a body is   *)
(* read as d followed by what comes after them.                             *)
LEMMA ReadingFollows ==
    ASSUME NEW w \in Seq(Bytes), NEW d \in Seq(Seq(Bytes)), NEW c,
           c[1] = 0, MessagesAt(w, d, c)
    PROVE  /\ c[Len(d) + 1] \in 0..Len(w)
           /\ Reading[w].messages = d \o Reading[Suffix(w, c[Len(d) + 1])].messages
           /\ Reading[w].how = Reading[Suffix(w, c[Len(d) + 1])].how
<1> DEFINE After(k) == Suffix(w, c[k + 1])
           Good(k) == /\ c[k + 1] \in 0..Len(w)
                      /\ Reading[w].messages = SubSeq(d, 1, k) \o Reading[After(k)].messages
                      /\ Reading[w].how = Reading[After(k)].how
           T == {k \in 0..Len(d) : ~Good(k)}
<1>1. Len(d) \in Nat /\ Len(w) \in Nat /\ SubSeq(d, 1, Len(d)) = d
  BY LenProperties, SubSeqFull
<1>2. Good(0)
  <2>1. 0 \in 0..Len(w)
    BY <1>1
  <2>2. Suffix(w, 0) = w
    BY <1>1, SubSeqFull DEF Suffix
  <2>3. Reading[w].messages \in Seq(Seq(Bytes))
    BY ReadingType DEF Verdicts
  <2>4. SubSeq(d, 1, 0) = << >>
    BY SubSeqEmpty
  <2>5. SubSeq(d, 1, 0) \o Reading[w].messages = Reading[w].messages
    BY <2>3, <2>4, ConcatEmptySeq
  <2> QED BY <2>1, <2>2, <2>5
<1>3. ASSUME NEW k \in 0..(Len(d) - 1), Good(k) PROVE Good(k + 1)
  <2> DEFINE b == After(k)
             i == k + 1
  <2>1. i \in 1..Len(d) /\ k \in Nat /\ i \in Nat
    BY <1>1
  <2>2. /\ c[i] \in 0..Len(w) /\ HasFrame(b) /\ Length(b) <= MaxFrame /\ Flags(b) = 0
        /\ d[i] = Payload(b) /\ IsMessage(d[i]) /\ c[i + 1] = c[i] + Header + Length(b)
    BY <1>1, <2>1 DEF MessagesAt
  <2>3. b \in Seq(Bytes) /\ c[i + 1] \in 0..Len(w) /\ Rest(b) = After(i)
    BY <2>2, SuffixFacts, RestIsSuffix
  <2> DEFINE r == Reading[After(i)].messages
             front == SubSeq(d, 1, k)
             payload == d[i]
  <2>4. /\ Reading[b].messages = <<payload>> \o r
        /\ Reading[b].how = Reading[After(i)].how
    BY <2>2, <2>3, ReadingMessage
  <2>5. /\ Reading[w].messages = front \o Reading[b].messages
        /\ Reading[w].how = Reading[b].how
    BY <1>3
  <2>6. r \in Seq(Seq(Bytes))
    <3>1. Rest(b) \in Seq(Bytes)
      BY <2>2, <2>3, RestIsShorter
    <3> QED BY <2>3, <3>1, ReadingType DEF Verdicts
  <2>7. payload \in Seq(Bytes) /\ front \in Seq(Seq(Bytes))
    <3>1. \A j \in 1..Len(d) : d[j] \in Seq(Bytes)
      BY ElementOfSeq
    <3>2. \A j \in 1..k : d[j] \in Seq(Bytes)
      BY <1>1, <2>1, <3>1
    <3> QED BY <2>1, <3>1, <3>2, SubSeqProperties
  <2>8. SubSeq(d, 1, i) = front \o <<payload>>
    <3>1. 1 \in 1..Len(d) /\ i \in 1..Len(d) /\ i - 1 = k
      BY <1>1, <2>1
    <3>2. SubSeq(d, 1, i) = SubSeq(d, 1, i - 1) \o <<d[i]>>
      BY <3>1, SubSeqRecursiveSecond
    <3> HIDE DEF i
    <3> QED BY <3>1, <3>2
  <2> HIDE DEF r, front, payload, b, After
  <2>9. SubSeq(d, 1, i) \o r = front \o (<<payload>> \o r)
    <3> DEFINE S == Seq(Bytes)
    <3>1. front \in Seq(S) /\ payload \in S /\ r \in Seq(S)
      BY <2>6, <2>7
    <3> HIDE DEF S
    <3>2. (front \o <<payload>>) \o r = front \o (<<payload>> \o r)
      BY <3>1, ConcatOne
    <3> QED BY <2>8, <3>2
  <2>10. Reading[w].messages = SubSeq(d, 1, i) \o r
    BY <2>4, <2>5, <2>9
  <2>11. Reading[w].how = Reading[After(i)].how
    BY <2>4, <2>5
  <2> QED BY <2>3, <2>10, <2>11 DEF r
<1>4. T = {}
  <2> SUFFICES ASSUME T # {} PROVE FALSE
    OBVIOUS
  <2>1. T \subseteq Nat
    OBVIOUS
  <2> HIDE DEF Good
  <2>2. PICK k \in T : \A j \in T : k <= j
    <3> HIDE DEF T
    <3> QED BY <2>1, LeastNatural
  <2>3. k # 0
    BY <1>2
  <2>4. k - 1 \in 0..(Len(d) - 1) /\ k - 1 \notin T /\ k \in Nat
    BY <1>1, <2>2, <2>3
  <2>5. Good(k - 1)
    BY <1>1, <2>4
  <2>6. Good((k - 1) + 1)
    BY <1>3, <2>4, <2>5
  <2> QED BY <2>4, <2>6
<1>5. Good(Len(d))
  <2>1. Len(d) \in 0..Len(d)
    BY <1>1
  <2> HIDE DEF Good
  <2> QED BY <1>4, <2>1
<1> QED BY <1>1, <1>5

(* In every state the messages yielded are the first ones of the body, and  *)
(* what the body means after them is what follows in it.                    *)
LEMMA WholeFollows ==
    ASSUME StreamInv
    PROVE  LET c == cuts[Len(delivered) + 1] IN
           /\ c \in 0..Len(wire)
           /\ Envelope(c) \in Seq(Bytes)
           /\ Reading[Envelope(c)].messages \in Seq(Seq(Bytes))
           /\ Reading[wire].messages = delivered \o Reading[Envelope(c)].messages
           /\ Reading[wire].how = Reading[Envelope(c)].how
<1>1. /\ wire \in Seq(Bytes) /\ delivered \in Seq(Seq(Bytes)) /\ cuts[1] = 0
      /\ Len(delivered) <= Len(cuts) - 1
      /\ Len(cuts) \in Nat /\ Len(delivered) \in Nat /\ Len(wire) \in Nat
  BY CutsFacts DEF StreamInv, TypeOK, EnvelopesFit
<1>2. MessagesAt(wire, delivered, cuts)
  <2> SUFFICES ASSUME NEW i \in 1..Len(delivered)
               PROVE  /\ cuts[i] \in Nat /\ cuts[i] <= Len(wire)
                      /\ HasFrame(Suffix(wire, cuts[i]))
                      /\ Length(Suffix(wire, cuts[i])) <= MaxFrame
                      /\ Flags(Suffix(wire, cuts[i])) = 0
                      /\ delivered[i] = Payload(Suffix(wire, cuts[i]))
                      /\ IsMessage(delivered[i])
                      /\ cuts[i + 1] = cuts[i] + Header + Length(Suffix(wire, cuts[i]))
    BY DEF MessagesAt
  <2>1. i \in 1..(Len(cuts) - 1)
    BY <1>1
  <2>2. cuts[i] \in 0..Len(wire)
    BY <2>1, CutsFacts DEF StreamInv
  <2> QED BY <1>1, <2>1, <2>2 DEF StreamInv, EnvelopesFit, Envelope
<1> DEFINE c == cuts[Len(delivered) + 1]
<1>3. /\ c \in 0..Len(wire)
      /\ Reading[wire].messages = delivered \o Reading[Suffix(wire, c)].messages
      /\ Reading[wire].how = Reading[Suffix(wire, c)].how
  BY <1>1, <1>2, ReadingFollows
<1> HIDE DEF c
<1>4. Suffix(wire, c) \in Seq(Bytes)
  BY <1>1, <1>3, SuffixFacts
<1>5. Reading[Suffix(wire, c)].messages \in Seq(Seq(Bytes))
  BY <1>4, ReadingType DEF Verdicts
<1> QED BY <1>3, <1>4, <1>5 DEF c, Envelope

LEMMA WholeEnds ==
    ASSUME StreamInv, NEW how,
           Reading[Envelope(cuts[Len(delivered) + 1])] = Verdict(<< >>, how)
    PROVE  Reading[wire].messages = delivered /\ Reading[wire].how = how
<1> DEFINE r == Reading[Envelope(cuts[Len(delivered) + 1])]
<1>1. r.messages = << >> /\ r.how = how
  BY DEF Verdict
<1>2. Reading[wire].messages = delivered \o r.messages /\ Reading[wire].how = r.how
  BY WholeFollows
<1> HIDE DEF r
<1>3. delivered \o << >> = delivered
  BY ConcatEmptySeq DEF StreamInv, TypeOK
<1> QED BY <1>1, <1>2, <1>3

LEMMA BufferIsNext ==
    ASSUME StreamInv, at \in Running, ~ended
    PROVE  buffer = Envelope(cuts[Len(delivered) + 1]) /\ buffer \in Seq(Bytes)
BY DEF StreamInv, TypeOK, BufferFits

(* No message lies in the buffer while the generator waits for bytes.       *)
LEMMA WaitsForPart == ASSUME StreamInv PROVE NoMessageWaits
<1> SUFFICES ASSUME at = "reading" PROVE delivered = Reading[wire].messages
  BY DEF NoMessageWaits
<1>1. CASE ~ended
  <2>1. ~HasFrame(buffer) /\ (HasHeader(buffer) => Length(buffer) <= MaxFrame)
    BY <1>1 DEF StreamInv, NoEnvelopeWaits
  <2>2. Reading[buffer] = Verdict(<< >>, "partial")
    BY <1>1, <2>1, BufferIsNext, ReadingPartial DEF Running
  <2> QED BY <1>1, <2>2, BufferIsNext, WholeEnds DEF Running
<1>2. CASE ended
  <2> DEFINE envelope == Envelope(cuts[Len(delivered) + 1])
  <2>1. /\ HasFrame(envelope) /\ Flags(envelope) = 2
        /\ EndKind(Payload(envelope)) = "object" /\ envelope \in Seq(Bytes)
    BY <1>2, WholeFollows DEF StreamInv, EndFits, Running
  <2>2. Length(envelope) <= MaxFrame
    <3>1. Len(delivered) + 1 \in 1..(Len(cuts) - 1)
      BY <1>2, CutsFacts DEF StreamInv, BufferFits, Running
    <3> QED BY <3>1 DEF StreamInv, EnvelopesFit
  <2>3. \E how : Reading[envelope] = Verdict(<< >>, how)
    <3> HIDE DEF envelope
    <3> QED BY <2>1, <2>2, ReadingEnd
  <2> QED BY <2>3, WholeEnds
<1> QED BY <1>1, <1>2

(* The end of the generator is the end of the body as a whole.              *)
EndsAsWhole ==
    at \in {"returned", "server_error", "protocol"} =>
        /\ delivered = Reading[wire].messages
        /\ at = IF Reading[wire].how = "partial" THEN "protocol" ELSE Reading[wire].how

LEMMA AfterTheEnd ==
    ASSUME StreamInv, NEW chunk \in Seq(Bytes), chunk # << >>, Receive(chunk), ended
    PROVE  EndsAsWhole'
<1> DEFINE c == cuts[Len(delivered) + 1]
           e == Suffix(wire, c)
<1>1. /\ at = "reading" /\ at' = "protocol" /\ wire' = wire \o chunk
      /\ delivered' = delivered /\ cuts' = cuts
  BY DEF Receive, Finish
<1>2. /\ HasFrame(e) /\ Flags(e) = 2 /\ EndKind(Payload(e)) = "object"
      /\ e \in Seq(Bytes) /\ c \in 0..Len(wire)
  BY <1>1, WholeFollows DEF StreamInv, EndFits, Running, Envelope
<1>3. /\ Len(delivered) \in Nat /\ Len(cuts) = Len(delivered) + 2
      /\ Len(delivered) + 1 \in 1..(Len(cuts) - 1)
  BY <1>1, CutsFacts DEF StreamInv, BufferFits, Running
<1>4. Length(e) <= MaxFrame /\ cuts[Len(cuts)] = c + Header + Length(e)
  <2>1. Len(delivered) + 1 + 1 = Len(cuts)
    BY <1>3
  <2>2. cuts[Len(delivered) + 1 + 1] = c + Header + Length(e) /\ Length(e) <= MaxFrame
    BY <1>3 DEF StreamInv, EnvelopesFit, Envelope
  <2> HIDE DEF c, e
  <2> QED BY <2>1, <2>2
<1> HIDE DEF c
<1> DEFINE f == Suffix(wire', c)
<1>5. wire \in Seq(Bytes) /\ wire' \in Seq(Bytes) /\ Len(wire) \in Nat /\ Len(chunk) \in Nat
      /\ Len(wire') = Len(wire) + Len(chunk) /\ Len(chunk) # 0
  BY <1>1, ConcatProperties, LenProperties, EmptySeq DEF StreamInv, TypeOK
<1>6. f = e \o chunk /\ c \in 0..Len(wire')
  BY <1>1, <1>2, <1>5, SuffixExtend
<1>7. /\ HasFrame(f) /\ Flags(f) = 2 /\ EndKind(Payload(f)) = "object"
      /\ Length(f) = Length(e) /\ f \in Seq(Bytes)
  <2> HIDE DEF e, f
  <2> QED BY <1>2, <1>6, FrameExtend, ConcatProperties
<1>8. Rest(f) # << >>
  <2> DEFINE n == c + Header + Length(f)
  <2>1. n \in 0..Len(wire') /\ Rest(f) = Suffix(wire', n)
    BY <1>5, <1>6, <1>7, RestIsSuffix
  <2>2. n <= Len(wire)
    <3>1. cuts[Len(cuts)] <= Len(wire)
      BY <1>1 DEF StreamInv, BufferFits, Running
    <3> HIDE DEF e, f
    <3> QED BY <1>4, <1>7, <3>1
  <2> HIDE DEF n
  <2>3. Len(Suffix(wire', n)) = Len(wire') - n
    BY <1>5, <2>1, SuffixFacts
  <2>4. Len(Suffix(wire', n)) # 0
    BY <1>5, <2>1, <2>2, <2>3
  <2> QED BY <2>1, <2>4
<1>9. Reading[f] = Verdict(<< >>, "protocol")
  <2> HIDE DEF f
  <2> QED BY <1>4, <1>7, <1>8, ReadingEnd
<1>10. Reading[wire'].messages = delivered /\ Reading[wire'].how = "protocol"
  <2>1. StreamInv'
    BY ReceiveInv
  <2>2. /\ Reading[wire'].messages = delivered' \o Reading[Suffix(wire', c)].messages
        /\ Reading[wire'].how = Reading[Suffix(wire', c)].how
    <3>1. MessagesAt(wire', delivered', cuts')
      <4> SUFFICES ASSUME NEW i \in 1..Len(delivered')
                   PROVE  /\ cuts'[i] \in Nat /\ cuts'[i] <= Len(wire')
                          /\ HasFrame(Suffix(wire', cuts'[i]))
                          /\ Length(Suffix(wire', cuts'[i])) <= MaxFrame
                          /\ Flags(Suffix(wire', cuts'[i])) = 0
                          /\ delivered'[i] = Payload(Suffix(wire', cuts'[i]))
                          /\ IsMessage(delivered'[i])
                          /\ cuts'[i + 1] = cuts'[i] + Header + Length(Suffix(wire', cuts'[i]))
        BY DEF MessagesAt
      <4>1. i \in 1..(Len(cuts') - 1) /\ i \in 1..(Len(cuts) - 1)
        BY <1>1, <1>3
      <4>2. cuts'[i] \in Nat /\ cuts'[i] <= Len(wire')
        <5>1. cuts[i] \in 0..Len(wire)
          BY <4>1, CutsFacts DEF StreamInv
        <5> QED BY <1>1, <1>5, <5>1
      <4> QED BY <2>1, <4>1, <4>2 DEF StreamInv, EnvelopesFit, Envelope
    <3>2. /\ delivered' \in Seq(Seq(Bytes)) /\ cuts'[1] = 0
          /\ cuts'[Len(delivered') + 1] = c
      BY <1>1, <2>1 DEF StreamInv, TypeOK, EnvelopesFit, c
    <3> QED BY <1>5, <3>1, <3>2, ReadingFollows
  <2>3. delivered \o << >> = delivered
    BY ConcatEmptySeq DEF StreamInv, TypeOK
  <2> QED BY <1>1, <1>9, <2>2, <2>3 DEF Verdict
<1> QED BY <1>1, <1>10 DEF EndsAsWhole

LEMMA StepEndsAsWhole ==
    ASSUME StreamInv, EndsAsWhole, [Next]_vars PROVE EndsAsWhole'
<1>1. ASSUME NEW chunk \in Chunks, Receive(chunk) PROVE EndsAsWhole'
  <2>1. chunk \in Seq(Bytes) /\ chunk # << >>
    BY DEF Chunks
  <2>2. CASE ended
    BY <1>1, <2>1, <2>2, AfterTheEnd
  <2>3. CASE ~ended
    BY <1>1, <2>3 DEF Receive, EndsAsWhole
  <2> QED BY <2>2, <2>3
<1>2. CASE EndOfBody
  <2>1. /\ at = "reading" /\ UNCHANGED <<delivered, wire>>
        /\ at' = IF buffer # << >> \/ ~ended THEN "protocol" ELSE "returned"
    BY <1>2 DEF EndOfBody, Finish
  <2>2. CASE ~ended
    <3>1. ~HasFrame(buffer) /\ (HasHeader(buffer) => Length(buffer) <= MaxFrame)
      BY <2>1, <2>2 DEF StreamInv, NoEnvelopeWaits
    <3>2. Reading[buffer] = Verdict(<< >>, "partial")
      BY <2>1, <2>2, <3>1, BufferIsNext, ReadingPartial DEF Running
    <3>3. Reading[wire].messages = delivered /\ Reading[wire].how = "partial"
      BY <2>1, <2>2, <3>2, BufferIsNext, WholeEnds DEF Running
    <3> QED BY <2>1, <2>2, <3>3 DEF EndsAsWhole
  <2>3. CASE ended
    <3> DEFINE c == cuts[Len(delivered) + 1]
               e == Envelope(c)
    <3>1. /\ HasFrame(e) /\ Flags(e) = 2 /\ EndKind(Payload(e)) = "object"
          /\ e \in Seq(Bytes) /\ c \in 0..Len(wire) /\ buffer = << >>
      BY <2>1, <2>3, WholeFollows DEF StreamInv, EndFits, BufferFits, Running
    <3>2. /\ Len(delivered) + 1 \in 1..(Len(cuts) - 1)
          /\ Len(delivered) + 1 + 1 = Len(cuts)
      BY <2>1, <2>3, CutsFacts DEF StreamInv, BufferFits, Running
    <3>3. /\ Length(e) <= MaxFrame
          /\ cuts[Len(delivered) + 1 + 1] = c + Header + Length(e)
      BY <3>2 DEF StreamInv, EnvelopesFit
    <3>4. Rest(e) = << >>
      <4>1. Rest(e) = Suffix(wire, c + Header + Length(e))
        BY <3>1, RestIsSuffix DEF StreamInv, TypeOK, Envelope
      <4>2. << >> = Suffix(wire, cuts[Len(cuts)])
        BY <2>1, <3>1 DEF StreamInv, BufferFits, Running, Envelope
      <4> HIDE DEF e, c
      <4> QED BY <3>2, <3>3, <4>1, <4>2
    <3>5. Reading[e] = Verdict(<< >>, "returned")
      <4> HIDE DEF e
      <4> QED BY <3>1, <3>3, <3>4, ReadingEnd
    <3>6. Reading[wire].messages = delivered /\ Reading[wire].how = "returned"
      BY <3>5, WholeEnds
    <3> QED BY <2>1, <2>3, <3>1, <3>6 DEF EndsAsWhole
  <2> QED BY <2>2, <2>3
<1>3. CASE Oversize
  <2>1. /\ at = "decoding" /\ UNCHANGED <<delivered, wire>> /\ at' = "protocol"
        /\ HasHeader(buffer) /\ Length(buffer) > MaxFrame
    BY <1>3 DEF Oversize, Finish
  <2>2. ~ended
    BY <2>1 DEF StreamInv, BufferFits, Running
  <2>3. Reading[buffer] = Verdict(<< >>, "protocol")
    BY <2>1, <2>2, BufferIsNext, ReadingOversize DEF Running
  <2>4. Reading[wire].messages = delivered /\ Reading[wire].how = "protocol"
    BY <2>1, <2>2, <2>3, BufferIsNext, WholeEnds DEF Running
  <2> QED BY <2>1, <2>4 DEF EndsAsWhole
<1>4. CASE ServerError \/ Refuse
  <2>1. /\ Decodable /\ UNCHANGED <<delivered, wire>>
        /\ at = "decoding" /\ HasFrame(buffer) /\ Length(buffer) <= MaxFrame
        /\ ~(Flags(buffer) = 0 /\ IsMessage(Payload(buffer)))
        /\ at' = IF Flags(buffer) = 2 /\ EndKind(Payload(buffer)) = "error"
                 THEN "server_error" ELSE "protocol"
        /\ ~(/\ Flags(buffer) = 2 /\ EndKind(Payload(buffer)) = "object"
             /\ Rest(buffer) = << >>)
    BY <1>4 DEF ServerError, Refuse, Decodable, Finish
  <2>2. ~ended
    BY <2>1 DEF StreamInv, BufferFits, Running
  <2>3. Reading[buffer] = Verdict(<< >>, at')
    BY <2>1, <2>2, BufferIsNext, ReadingEnd DEF Running
  <2>4. Reading[wire].messages = delivered /\ Reading[wire].how = at'
    BY <2>1, <2>2, <2>3, BufferIsNext, WholeEnds DEF Running
  <2> QED BY <2>1, <2>4 DEF EndsAsWhole
<1>5. CASE Start \/ Resume \/ Close \/ Break \/ NeedMore \/ Message \/ End
  BY <1>5 DEF Start, Resume, Close, Break, NeedMore, Message, End, Finish, EndsAsWhole
<1>6. CASE UNCHANGED vars
  BY <1>6 DEF vars, EndsAsWhole
<1> QED BY <1>1, <1>2, <1>3, <1>4, <1>5, <1>6 DEF Next

LEMMA DecodesInState == ASSUME StreamInv, EndsAsWhole PROVE DecodesAsWhole
<1> DEFINE m == Reading[Envelope(cuts[Len(delivered) + 1])].messages
           whole == Reading[wire].messages
<1>1. /\ m \in Seq(Seq(Bytes)) /\ whole = delivered \o m /\ delivered \in Seq(Seq(Bytes))
  BY WholeFollows DEF StreamInv, TypeOK
<1> HIDE DEF m, whole
<1>2. Len(delivered) <= Len(whole)
  <2>1. Len(delivered) \in Nat /\ Len(m) \in Nat /\ Len(whole) = Len(delivered) + Len(m)
    BY <1>1, ConcatProperties, LenProperties
  <2> QED BY <2>1
<1>3. delivered = SubSeq(whole, 1, Len(delivered))
  BY <1>1, SubSeqOfConcat1
<1> QED BY <1>2, <1>3 DEF DecodesAsWhole, EndsAsWhole, whole

(* What the consumer has read, and how the stream ended for it, is what the *)
(* body read as a whole says, however it was cut into chunks (the buffer of *)
(* _decode_stream, client.py:426-498).                                      *)
THEOREM DecodingIsWhole == Spec => []DecodesAsWhole
<1>1. Init => EndsAsWhole
  BY DEF Init, EndsAsWhole
<1>2. Spec => []EndsAsWhole
  BY <1>1, StepEndsAsWhole, StreamInvariant, PTL DEF Spec
<1> QED BY <1>2, DecodesInState, StreamInvariant, PTL

(* While the generator waits for the next chunk, which on a quiet channel   *)
(* does not come, no message lies whole in the buffer: the inner loop       *)
(* (client.py:438) goes on as long as there is one.                         *)
THEOREM MessagesDoNotWait == Spec => []NoMessageWaits
BY WaitsForPart, StreamInvariant, PTL
=============================================================================
