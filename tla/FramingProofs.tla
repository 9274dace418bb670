--------------------------- MODULE FramingProofs ---------------------------
(***************************************************************************)
(* Length-prefixed frames implement a channel, for all messages, all sizes *)
(* of headers and payloads, and every way in which the stream is cut into  *)
(* pieces or breaks.                                                       *)
(***************************************************************************)
EXTENDS Framing, Integers, SequenceTheorems, TLAPS

Byte == Message \X Nat \X Nat

Size(m) == HeaderSize + PayloadSize[m]

FramingTypeOK ==
  /\ written \in Seq(Message) /\ received \in Seq(Message)
  /\ wire \in Seq(Byte) /\ buffer \in Seq(Byte)
  /\ length \in Nat
  /\ link \in {"up", "cut", "eof"}
  /\ ended \in BOOLEAN

\* What has been read is what was written first.
ReadInOrder ==
  /\ Len(received) <= Len(written)
  /\ \A i \in 1..Len(received) : received[i] = written[i]

\* The frame of message k of w follows the byte start[k] of the stream.
Starts(w, start) ==
  /\ start \in [1..(Len(w) + 1) -> Nat]
  /\ start[1] = 0
  /\ \A k \in 1..Len(w) : start[k + 1] = start[k] + Size(w[k])
  /\ \A k \in 1..Len(w), l \in 1..(Len(w) + 1) : k < l => start[k + 1] <= start[l]

\* The byte b is the one that the writer put at place p of the stream.
ByteAt(w, start, p, b) ==
  \E k \in 1..Len(w) :
    /\ start[k] < p /\ p <= start[k + 1]
    /\ b = <<w[k], k, p - start[k]>>

\* The bytes of s are those of the stream behind place p.
Carries(w, start, p, s) == \A j \in 1..Len(s) : ByteAt(w, start, p + j, s[j])

\* How much of the stream has been read.
Position(start) ==
  start[Len(received) + 1] + (IF length = 0 THEN 0 ELSE HeaderSize)

\* The bytes that arrived, and those under way, continue what has been read;
\* while the link stands, up to the last byte written.
InPlace(start) ==
  /\ Carries(written, start, Position(start), buffer)
  /\ Carries(written, start, Position(start) + Len(buffer), wire)
  /\ link = "up" =>
       Position(start) + Len(buffer) + Len(wire) = start[Len(written) + 1]

\* A length that was read is that of the next message.
LengthFits ==
  length # 0 =>
    /\ Len(received) < Len(written)
    /\ length = PayloadSize[written[Len(received) + 1]]

\* The reader leaves when the stream has ended, or at a message that is longer
\* than what it takes; it is never lost between two frames.
EndsForAReason ==
  ended =>
    \/ link = "eof"
    \/ /\ Len(received) < Len(written)
       /\ PayloadSize[written[Len(received) + 1]] > MaxPayload

FramingInv ==
  /\ FramingTypeOK
  /\ ReadInOrder
  /\ EndsForAReason
  /\ ~ended => LengthFits /\ \E start : Starts(written, start) /\ InPlace(start)

-----------------------------------------------------------------------------
(* Frames and their places in the stream. *)

LEMMA FrameIsSequence ==
  ASSUME NEW m \in Message, NEW k \in Nat
  PROVE  /\ Frame(m, k) \in Seq(Byte)
         /\ Len(Frame(m, k)) = Size(m)
         /\ Size(m) \in Nat /\ PayloadSize[m] \in Nat \ {0}
         /\ \A i \in 1..Size(m) : Frame(m, k)[i] = <<m, k, i>>
<1>1. PayloadSize[m] \in Nat \ {0} /\ HeaderSize \in Nat \ {0}
  BY FramingAssumption
<1>2. Size(m) \in Nat
  BY <1>1 DEF Size
<1>3. Frame(m, k) = [i \in 1..Size(m) |-> <<m, k, i>>]
  BY DEF Frame, Size
<1>4. \A i \in 1..Size(m) : <<m, k, i>> \in Byte
  BY <1>2 DEF Byte
<1>5. QED
  BY <1>1, <1>2, <1>3, <1>4

\* A place p in the frame from a to b is in no other one, from x to y.
LEMMA PlaceIsInOneFrame ==
  ASSUME NEW a \in Nat, NEW b \in Nat, NEW x \in Nat, NEW y \in Nat,
         NEW i \in Nat, NEW p, p = a + i, x < p, p <= y
  PROVE  /\ i # 0 => ~(y <= a)
         /\ a + i <= b => ~(b <= x)
         /\ p - a = i
OBVIOUS

\* A byte in the middle of a frame belongs to that frame.
LEMMA ByteOfFrame ==
  ASSUME NEW w \in Seq(Message), NEW start, Starts(w, start),
         NEW n \in 1..Len(w), NEW i \in Nat, NEW b,
         NEW p, p = start[n] + i, ByteAt(w, start, p, b),
         i # 0, i <= Size(w[n])
  PROVE  b = <<w[n], n, i>>
<1>1. Len(w) \in Nat
  OBVIOUS
<1>2. PICK k \in 1..Len(w) : /\ start[k] < p /\ p <= start[k + 1]
                             /\ b = <<w[k], k, p - start[k]>>
  BY DEF ByteAt
<1>3. /\ k \in 1..(Len(w) + 1) /\ k + 1 \in 1..(Len(w) + 1)
      /\ n \in 1..(Len(w) + 1) /\ n + 1 \in 1..(Len(w) + 1)
  BY <1>1
<1>4. start[k] \in Nat /\ start[k + 1] \in Nat /\ start[n] \in Nat /\ start[n + 1] \in Nat
  BY <1>3 DEF Starts
<1>5. start[n] + i <= start[n + 1]
  <2>1. start[n + 1] = start[n] + Size(w[n])
    BY <1>3 DEF Starts
  <2>2. Size(w[n]) \in Nat
    BY FrameIsSequence
  <2>3. QED
    BY <2>1, <2>2, <1>4
<1>6. start[k] < p /\ p <= start[k + 1]
  BY <1>2
<1>7. /\ ~(start[k + 1] <= start[n])
      /\ ~(start[n + 1] <= start[k])
      /\ p - start[n] = i
  <2>1. PICK a, c, x, y :
          a = start[n] /\ c = start[n + 1] /\ x = start[k] /\ y = start[k + 1]
    OBVIOUS
  <2>2. /\ a \in Nat /\ c \in Nat /\ x \in Nat /\ y \in Nat
        /\ p = a + i /\ x < p /\ p <= y /\ a + i <= c
    BY <2>1, <1>4, <1>5, <1>6
  <2>3. ~(y <= a) /\ ~(c <= x) /\ p - a = i
    BY <2>2, PlaceIsInOneFrame
  <2>4. QED
    BY <2>1, <2>3
<1>8. ~(k < n) /\ ~(n < k)
  BY <1>3, <1>7 DEF Starts
<1>9. k = n
  BY <1>8, <1>3
<1>10. QED
  BY <1>2, <1>7, <1>9

\* There is no byte behind the last frame.
LEMMA ByteHasFrame ==
  ASSUME NEW w \in Seq(Message), NEW start, Starts(w, start),
         NEW n \in 1..(Len(w) + 1), NEW i \in Nat, NEW b,
         NEW p, p = start[n] + i, ByteAt(w, start, p, b), i # 0
  PROVE  n \in 1..Len(w)
<1>1. Len(w) \in Nat
  OBVIOUS
<1>2. PICK k \in 1..Len(w) : start[k] < p /\ p <= start[k + 1]
  BY DEF ByteAt
<1>3. k \in 1..(Len(w) + 1) /\ k + 1 \in 1..(Len(w) + 1)
  BY <1>1
<1>4. start[k] \in Nat /\ start[k + 1] \in Nat /\ start[n] \in Nat
  BY <1>3 DEF Starts
<1>5. ~(k < n)
  <2>1. SUFFICES ASSUME k < n PROVE FALSE
    OBVIOUS
  <2>2. start[k + 1] <= start[n]
    BY <2>1 DEF Starts
  <2>3. ~(start[k + 1] <= start[n])
    BY <1>2, <1>4, PlaceIsInOneFrame
  <2>4. QED
    BY <2>2, <2>3
<1>6. QED
  BY <1>5, <1>1

\* Bytes in the stream may be cut in two, joined, and cut off at the end.
LEMMA CarriesPrefix ==
  ASSUME NEW w, NEW start, NEW p, NEW s \in Seq(Byte), NEW n \in 0..Len(s),
         Carries(w, start, p, s)
  PROVE  /\ SubSeq(s, 1, n) \in Seq(Byte) /\ Len(SubSeq(s, 1, n)) = n
         /\ \A i \in 1..n : SubSeq(s, 1, n)[i] = s[i]
         /\ Carries(w, start, p, SubSeq(s, 1, n))
<1>1. /\ SubSeq(s, 1, n) \in Seq(Byte) /\ Len(SubSeq(s, 1, n)) = n
      /\ \A i \in 1..n : SubSeq(s, 1, n)[i] = s[i]
  BY SubSeqProperties
<1>2. QED
  BY <1>1 DEF Carries

LEMMA CarriesSuffix ==
  ASSUME NEW w, NEW start, NEW p \in Nat, NEW s \in Seq(Byte), NEW n \in 0..Len(s),
         Carries(w, start, p, s)
  PROVE  /\ SubSeq(s, n + 1, Len(s)) \in Seq(Byte)
         /\ Len(SubSeq(s, n + 1, Len(s))) = Len(s) - n
         /\ Carries(w, start, p + n, SubSeq(s, n + 1, Len(s)))
<1>1. /\ SubSeq(s, n + 1, Len(s)) \in Seq(Byte)
      /\ Len(SubSeq(s, n + 1, Len(s))) = Len(s) - n
      /\ \A i \in 1..(Len(s) - n) : SubSeq(s, n + 1, Len(s))[i] = s[n + i]
  BY SubSeqProperties
<1>2. ASSUME NEW i \in 1..(Len(s) - n)
      PROVE  ByteAt(w, start, p + n + i, SubSeq(s, n + 1, Len(s))[i])
  <2>1. n + i \in 1..Len(s) /\ p + (n + i) = p + n + i
    OBVIOUS
  <2>2. ByteAt(w, start, p + (n + i), s[n + i])
    BY <2>1 DEF Carries
  <2>3. QED
    BY <2>1, <2>2, <1>1
<1>3. QED
  BY <1>1, <1>2 DEF Carries

LEMMA CarriesConcat ==
  ASSUME NEW w, NEW start, NEW p \in Nat, NEW s \in Seq(Byte), NEW t \in Seq(Byte),
         Carries(w, start, p, s), Carries(w, start, p + Len(s), t)
  PROVE  /\ s \o t \in Seq(Byte) /\ Len(s \o t) = Len(s) + Len(t)
         /\ Carries(w, start, p, s \o t)
<1>1. /\ s \o t \in Seq(Byte) /\ Len(s \o t) = Len(s) + Len(t)
      /\ \A i \in 1..(Len(s) + Len(t)) :
           (s \o t)[i] = IF i <= Len(s) THEN s[i] ELSE t[i - Len(s)]
  BY ConcatProperties
<1>2. ASSUME NEW i \in 1..(Len(s) + Len(t))
      PROVE  ByteAt(w, start, p + i, (s \o t)[i])
  <2>1. CASE i <= Len(s)
    BY <2>1, <1>1 DEF Carries
  <2>2. CASE ~(i <= Len(s))
    <3>1. i - Len(s) \in 1..Len(t) /\ p + Len(s) + (i - Len(s)) = p + i
      BY <2>2
    <3>2. ByteAt(w, start, p + Len(s) + (i - Len(s)), t[i - Len(s)])
      BY <3>1 DEF Carries
    <3>3. QED
      BY <3>1, <3>2, <2>2, <1>1
  <2>3. QED
    BY <2>1, <2>2
<1>3. QED
  BY <1>1, <1>2 DEF Carries

\* The stream that carries one message more, and where its frames are.
LEMMA WrittenGrows ==
  ASSUME NEW w \in Seq(Message), NEW m \in Message, NEW v, v = Append(w, m)
  PROVE  /\ v \in Seq(Message) /\ Len(v) = Len(w) + 1 /\ Len(w) \in Nat
         /\ v[Len(w) + 1] = m
         /\ \A k \in 1..Len(w) : v[k] = w[k]
OBVIOUS

Grown(w, m, start) ==
  [k \in 1..(Len(w) + 2) |->
     IF k = Len(w) + 2 THEN start[Len(w) + 1] + Size(m) ELSE start[k]]

LEMMA GrownAgrees ==
  ASSUME NEW w \in Seq(Message), NEW m \in Message, NEW start, Starts(w, start),
         NEW grown, grown = Grown(w, m, start)
  PROVE  /\ \A k \in 1..(Len(w) + 1) : grown[k] = start[k] /\ start[k] \in Nat
         /\ grown[Len(w) + 2] = start[Len(w) + 1] + Size(m)
         /\ grown[Len(w) + 2] \in Nat
<1>1. Len(w) \in Nat
  OBVIOUS
<1>2. \A k \in 1..(Len(w) + 1) : start[k] \in Nat
  BY DEF Starts
<1>3. Len(w) + 1 \in 1..(Len(w) + 1)
  BY <1>1
<1>4. Size(m) \in Nat
  BY FrameIsSequence, <1>1
<1>5. \A k \in 1..(Len(w) + 1) : grown[k] = start[k]
  BY <1>1 DEF Grown
<1>6. grown[Len(w) + 2] = start[Len(w) + 1] + Size(m)
  BY <1>1 DEF Grown
<1>7. grown[Len(w) + 2] \in Nat
  BY <1>2, <1>3, <1>4, <1>6
<1>8. QED
  BY <1>2, <1>5, <1>6, <1>7

LEMMA GrownStarts ==
  ASSUME NEW w \in Seq(Message), NEW m \in Message, NEW start, Starts(w, start),
         NEW v, v = Append(w, m), NEW grown, grown = Grown(w, m, start)
  PROVE  Starts(v, grown)
<1>1. /\ Len(v) = Len(w) + 1 /\ Len(w) \in Nat
      /\ v[Len(w) + 1] = m
      /\ \A k \in 1..Len(w) : v[k] = w[k]
  BY WrittenGrows
<1>2. /\ \A k \in 1..(Len(w) + 1) : grown[k] = start[k] /\ start[k] \in Nat
      /\ grown[Len(w) + 2] = start[Len(w) + 1] + Size(m)
      /\ grown[Len(w) + 2] \in Nat
  BY GrownAgrees
<1>3. Size(m) \in Nat
  BY FrameIsSequence, <1>1
<1>4. grown \in [1..(Len(v) + 1) -> Nat]
  <2>1. Len(v) + 1 = Len(w) + 2
    BY <1>1
  <2>2. \A k \in 1..(Len(w) + 2) : k \in 1..(Len(w) + 1) \/ k = Len(w) + 2
    BY <1>1
  <2>3. \A k \in 1..(Len(w) + 2) : grown[k] \in Nat
    BY <2>2, <1>2
  <2>4. QED
    BY <2>1, <2>3 DEF Grown
<1>5. grown[1] = 0
  BY <1>1, <1>2 DEF Starts
<1>6. ASSUME NEW k \in 1..Len(v)
      PROVE  grown[k + 1] = grown[k] + Size(v[k])
  <2>1. CASE k = Len(w) + 1
    <3>1. k + 1 = Len(w) + 2 /\ k \in 1..(Len(w) + 1)
      BY <2>1, <1>1
    <3>2. QED
      BY <3>1, <2>1, <1>1, <1>2
  <2>2. CASE k # Len(w) + 1
    <3>1. k \in 1..Len(w) /\ k \in 1..(Len(w) + 1) /\ k + 1 \in 1..(Len(w) + 1)
      BY <2>2, <1>1
    <3>2. start[k + 1] = start[k] + Size(w[k])
      BY <3>1 DEF Starts
    <3>3. QED
      BY <3>1, <3>2, <1>1, <1>2
  <2>3. QED
    BY <2>1, <2>2
<1>7. ASSUME NEW k \in 1..Len(v), NEW l \in 1..(Len(v) + 1), k < l
      PROVE  grown[k + 1] <= grown[l]
  <2>1. k \in 1..(Len(w) + 1) /\ l \in 1..(Len(w) + 2)
    BY <1>1
  <2>2. CASE l # Len(w) + 2
    <3>1. k \in 1..Len(w) /\ l \in 1..(Len(w) + 1) /\ k + 1 \in 1..(Len(w) + 1)
      BY <2>2, <2>1, <1>1, <1>7
    <3>2. start[k + 1] <= start[l]
      BY <3>1, <1>7 DEF Starts
    <3>3. QED
      BY <3>1, <3>2, <1>2
  <2>3. CASE l = Len(w) + 2 /\ k = Len(w) + 1
    <3>1. k + 1 = l
      BY <2>3, <1>1
    <3>2. QED
      BY <3>1, <2>3, <1>2
  <2>4. CASE l = Len(w) + 2 /\ k # Len(w) + 1
    <3>1. /\ k \in 1..Len(w) /\ Len(w) + 1 \in 1..(Len(w) + 1)
          /\ k + 1 \in 1..(Len(w) + 1) /\ k < Len(w) + 1
      BY <2>4, <2>1, <1>1
    <3>2. start[k + 1] <= start[Len(w) + 1]
      BY <3>1 DEF Starts
    <3>3. start[k + 1] \in Nat /\ start[Len(w) + 1] \in Nat
      BY <3>1, <1>2
    <3>4. grown[l] = start[Len(w) + 1] + Size(m) /\ grown[k + 1] = start[k + 1]
      BY <3>1, <1>2, <2>4
    <3>5. QED
      BY <3>2, <3>3, <3>4, <1>3
  <2>5. QED
    BY <2>2, <2>3, <2>4
<1>8. QED
  BY <1>4, <1>5, <1>6, <1>7 DEF Starts

\* The bytes of the earlier frames stay where they are.
LEMMA GrownCarries ==
  ASSUME NEW w \in Seq(Message), NEW m \in Message, NEW start, Starts(w, start),
         NEW v, v = Append(w, m), NEW grown, grown = Grown(w, m, start),
         NEW p, NEW s, Carries(w, start, p, s)
  PROVE  Carries(v, grown, p, s)
<1>1. Len(v) = Len(w) + 1 /\ Len(w) \in Nat /\ \A k \in 1..Len(w) : v[k] = w[k]
  BY WrittenGrows
<1>2. \A k \in 1..(Len(w) + 1) : grown[k] = start[k]
  BY GrownAgrees
<1>3. ASSUME NEW q, NEW b, ByteAt(w, start, q, b)
      PROVE  ByteAt(v, grown, q, b)
  <2>1. PICK k \in 1..Len(w) : /\ start[k] < q /\ q <= start[k + 1]
                               /\ b = <<w[k], k, q - start[k]>>
    BY <1>3 DEF ByteAt
  <2>2. k \in 1..Len(v) /\ k \in 1..(Len(w) + 1) /\ k + 1 \in 1..(Len(w) + 1)
    BY <1>1
  <2>3. grown[k] = start[k] /\ grown[k + 1] = start[k + 1] /\ v[k] = w[k]
    BY <2>2, <1>1, <1>2
  <2>4. QED
    BY <2>1, <2>2, <2>3 DEF ByteAt
<1>4. QED
  BY <1>3 DEF Carries

\* The new frame is the end of the stream.
LEMMA NewFrameIsCarried ==
  ASSUME NEW w \in Seq(Message), NEW m \in Message, NEW start, Starts(w, start),
         NEW v, v = Append(w, m), NEW grown, grown = Grown(w, m, start)
  PROVE  /\ Frame(m, Len(w) + 1) \in Seq(Byte)
         /\ Len(Frame(m, Len(w) + 1)) = Size(m)
         /\ Carries(v, grown, start[Len(w) + 1], Frame(m, Len(w) + 1))
<1>1. Len(v) = Len(w) + 1 /\ Len(w) \in Nat /\ v[Len(w) + 1] = m
  BY WrittenGrows
<1>2. Len(w) + 1 \in 1..Len(v) /\ Len(w) + 1 \in 1..(Len(w) + 1) /\ Len(w) + 1 \in Nat
  BY <1>1
<1>3. /\ grown[Len(w) + 1] = start[Len(w) + 1] /\ start[Len(w) + 1] \in Nat
      /\ grown[Len(w) + 2] = start[Len(w) + 1] + Size(m)
  BY <1>2, GrownAgrees
<1>4. /\ Frame(m, Len(w) + 1) \in Seq(Byte)
      /\ Len(Frame(m, Len(w) + 1)) = Size(m) /\ Size(m) \in Nat
      /\ \A i \in 1..Size(m) : Frame(m, Len(w) + 1)[i] = <<m, Len(w) + 1, i>>
  BY <1>2, FrameIsSequence
<1>5. ASSUME NEW i \in 1..Size(m), NEW p, p = start[Len(w) + 1] + i
      PROVE  ByteAt(v, grown, p, <<m, Len(w) + 1, i>>)
  <2>1. PICK k : k = Len(w) + 1
    OBVIOUS
  <2>2. k + 1 = Len(w) + 2
    BY <2>1, <1>1
  <2>3. grown[k] < p
    BY <2>1, <1>3, <1>4, <1>5
  <2>4. p <= grown[k + 1]
    BY <2>2, <1>3, <1>4, <1>5
  <2>5. p - grown[k] = i
    BY <2>1, <1>3, <1>4, <1>5
  <2>6. k \in 1..Len(v) /\ v[k] = m
    BY <2>1, <1>1, <1>2
  <2>7. QED
    BY <2>1, <2>3, <2>4, <2>5, <2>6 DEF ByteAt
<1>6. QED
  BY <1>4, <1>5 DEF Carries

-----------------------------------------------------------------------------
(* The writer and the network. *)

LEMMA InitFrames ==
  ASSUME Init PROVE FramingInv
<1>1. FramingTypeOK
  <2>1. <<>> \in Seq(Message) /\ <<>> \in Seq(Byte)
    OBVIOUS
  <2>2. QED
    BY <2>1 DEF Init, FramingTypeOK
<1>2. ReadInOrder /\ LengthFits /\ EndsForAReason
  BY DEF Init, ReadInOrder, LengthFits, EndsForAReason
<1>3. PICK start : start = [k \in 1..1 |-> 0]
  OBVIOUS
<1>4. Starts(written, start)
  BY <1>3 DEF Init, Starts
<1>5. InPlace(start)
  BY <1>3 DEF Init, InPlace, Position, Carries
<1>6. QED
  BY <1>1, <1>2, <1>4, <1>5 DEF FramingInv

LEMMA Places ==
  ASSUME FramingTypeOK, ReadInOrder, NEW start, Starts(written, start)
  PROVE  /\ Len(written) \in Nat /\ Len(received) \in Nat
         /\ Len(wire) \in Nat /\ Len(buffer) \in Nat
         /\ Len(received) + 1 \in 1..(Len(written) + 1)
         /\ start[Len(received) + 1] \in Nat /\ start[Len(written) + 1] \in Nat
         /\ Position(start) \in Nat /\ Position(start) + Len(buffer) \in Nat
<1>1. /\ Len(written) \in Nat /\ Len(received) \in Nat
      /\ Len(wire) \in Nat /\ Len(buffer) \in Nat
  BY DEF FramingTypeOK
<1>2. Len(received) + 1 \in 1..(Len(written) + 1)
  BY <1>1 DEF ReadInOrder
<1>3. start[Len(received) + 1] \in Nat /\ start[Len(written) + 1] \in Nat
  BY <1>1, <1>2 DEF Starts
<1>4. Position(start) \in Nat
  BY <1>3, FramingAssumption DEF Position
<1>5. QED
  BY <1>1, <1>2, <1>3, <1>4

LEMMA WriteKeeps ==
  ASSUME FramingInv, NEW m \in Message, WriteMessage(m)
  PROVE  FramingInv'
<1> USE DEF FramingInv
<1>1. written' = Append(written, m) /\ written \in Seq(Message)
  BY DEF WriteMessage, FramingTypeOK
<1>2. /\ written' \in Seq(Message) /\ Len(written') = Len(written) + 1
      /\ Len(written) \in Nat
      /\ \A k \in 1..Len(written) : written'[k] = written[k]
  BY <1>1, WrittenGrows
<1>3. UNCHANGED <<buffer, length, received, ended, link>>
  BY DEF WriteMessage, readerVars
<1>4. FramingTypeOK'
  <2>1. Frame(m, Len(written) + 1) \in Seq(Byte)
    BY <1>2, FrameIsSequence
  <2>2. wire' = wire \/ wire' = wire \o Frame(m, Len(written) + 1)
    BY DEF WriteMessage
  <2>3. wire' \in Seq(Byte)
    BY <2>1, <2>2, ConcatProperties DEF FramingTypeOK
  <2>4. QED
    BY <2>3, <1>2, <1>3 DEF FramingTypeOK
<1>5. Len(received) \in Nat
  BY DEF FramingTypeOK
<1>6. ReadInOrder'
  <2>1. Len(received) <= Len(written')
    BY <1>2, <1>5 DEF ReadInOrder
  <2>2. \A i \in 1..Len(received) : received[i] = written'[i]
    BY <1>2, <1>5 DEF ReadInOrder
  <2>3. QED
    BY <2>1, <2>2, <1>3 DEF ReadInOrder
<1>7. EndsForAReason'
  <2>1. CASE ended /\ link # "eof"
    <3>1. /\ Len(received) < Len(written)
          /\ PayloadSize[written[Len(received) + 1]] > MaxPayload
      BY <2>1 DEF EndsForAReason
    <3>2. Len(received) + 1 \in 1..Len(written) /\ Len(received) < Len(written')
      BY <3>1, <1>2, <1>5
    <3>3. QED
      BY <3>1, <3>2, <1>2, <1>3 DEF EndsForAReason
  <2>2. CASE ~ended \/ link = "eof"
    BY <2>2, <1>3 DEF EndsForAReason
  <2>3. QED
    BY <2>1, <2>2
<1>8. SUFFICES ASSUME ~ended
               PROVE  LengthFits' /\ \E start : Starts(written', start) /\ InPlace(start)'
  BY <1>3, <1>4, <1>6, <1>7
<1>9. LengthFits'
  <2>1. CASE length = 0
    BY <2>1, <1>3 DEF LengthFits
  <2>2. CASE length # 0
    <3>1. /\ Len(received) < Len(written)
          /\ length = PayloadSize[written[Len(received) + 1]]
      BY <2>2, <1>8 DEF LengthFits
    <3>2. Len(received) + 1 \in 1..Len(written) /\ Len(received) < Len(written')
      BY <3>1, <1>2, <1>5
    <3>3. QED
      BY <3>1, <3>2, <1>2, <1>3 DEF LengthFits
  <2>3. QED
    BY <2>1, <2>2
<1>10. PICK start : Starts(written, start) /\ InPlace(start)
  BY <1>8
<1>11. PICK grown : grown = Grown(written, m, start)
  OBVIOUS
<1>12. Starts(written', grown)
  BY <1>1, <1>10, <1>11, GrownStarts
<1>13. /\ Len(wire) \in Nat /\ Len(buffer) \in Nat
       /\ Len(received) + 1 \in 1..(Len(written) + 1)
       /\ start[Len(written) + 1] \in Nat
       /\ Position(start) \in Nat /\ Position(start) + Len(buffer) \in Nat
  BY <1>10, Places
<1>14. /\ \A k \in 1..(Len(written) + 1) : grown[k] = start[k]
       /\ grown[Len(written) + 2] = start[Len(written) + 1] + Size(m)
  BY <1>1, <1>10, <1>11, GrownAgrees
<1>15. Position(grown)' = Position(start)
  BY <1>3, <1>13, <1>14 DEF Position
<1>16. /\ Carries(written', grown, Position(start), buffer)
       /\ Carries(written', grown, Position(start) + Len(buffer), wire)
  <2>1. /\ Carries(written, start, Position(start), buffer)
        /\ Carries(written, start, Position(start) + Len(buffer), wire)
    BY <1>10 DEF InPlace
  <2>2. \A p, s : Carries(written, start, p, s) => Carries(written', grown, p, s)
    BY <1>1, <1>10, <1>11, GrownCarries
  <2>3. QED
    BY <2>1, <2>2
<1>17. /\ Carries(written', grown, Position(start) + Len(buffer), wire')
       /\ link = "up" =>
            Position(start) + Len(buffer) + Len(wire') = grown[Len(written') + 1]
  <2>1. CASE link # "up"
    BY <2>1, <1>16 DEF WriteMessage
  <2>2. CASE link = "up"
    <3>1. wire' = wire \o Frame(m, Len(written) + 1)
      BY <2>2 DEF WriteMessage
    <3>2. /\ Frame(m, Len(written) + 1) \in Seq(Byte)
          /\ Len(Frame(m, Len(written) + 1)) = Size(m)
          /\ Carries(written', grown, start[Len(written) + 1], Frame(m, Len(written) + 1))
      BY <1>1, <1>10, <1>11, NewFrameIsCarried
    <3>3. Position(start) + Len(buffer) + Len(wire) = start[Len(written) + 1]
      BY <2>2, <1>10 DEF InPlace
    <3>4. Carries(written', grown, Position(start) + Len(buffer) + Len(wire),
                  Frame(m, Len(written) + 1))
      BY <3>2, <3>3
    <3>5. wire \in Seq(Byte)
      BY DEF FramingTypeOK
    <3>6. /\ Len(wire') = Len(wire) + Size(m)
          /\ Carries(written', grown, Position(start) + Len(buffer), wire')
      <4>1. PICK p, f : /\ p = Position(start) + Len(buffer)
                        /\ f = Frame(m, Len(written) + 1)
        OBVIOUS
      <4>2. /\ p \in Nat /\ f \in Seq(Byte) /\ Carries(written', grown, p, wire)
            /\ Carries(written', grown, p + Len(wire), f)
        BY <4>1, <3>2, <3>4, <1>13, <1>16
      <4>3. /\ Len(wire \o f) = Len(wire) + Len(f)
            /\ Carries(written', grown, p, wire \o f)
        BY <4>2, <3>5, CarriesConcat
      <4>4. QED
        BY <4>1, <4>3, <3>1, <3>2
    <3>7. Size(m) \in Nat
      BY <1>2, FrameIsSequence
    <3>8. Len(written') + 1 = Len(written) + 2
      BY <1>2
    <3>9. Position(start) + Len(buffer) + Len(wire') = grown[Len(written') + 1]
      <4>1. Position(start) + Len(buffer) + Len(wire')
              = Position(start) + Len(buffer) + Len(wire) + Size(m)
        BY <3>7, <3>6, <1>13
      <4>2. grown[Len(written') + 1] = start[Len(written) + 1] + Size(m)
        BY <3>8, <1>14
      <4>3. QED
        BY <4>1, <4>2, <3>3
    <3>10. QED
      BY <3>6, <3>9
  <2>3. QED
    BY <2>1, <2>2
<1>18. InPlace(grown)'
  BY <1>3, <1>15, <1>16, <1>17 DEF InPlace
<1>19. QED
  BY <1>9, <1>12, <1>18

\* What the network does to the bytes under way moves none that arrive.
LEMMA NetworkKeeps ==
  ASSUME FramingInv, Deliver \/ Cut \/ EndOfStream
  PROVE  FramingInv'
<1> USE DEF FramingInv
<1>1. UNCHANGED <<written, length, received, ended>>
  BY DEF Deliver, Cut, EndOfStream, readerVars
<1>2. ReadInOrder' /\ (LengthFits => LengthFits') /\ EndsForAReason'
  <2>1. link = "eof" => link' = "eof"
    BY DEF Deliver, Cut, EndOfStream
  <2>2. QED
    BY <2>1, <1>1 DEF ReadInOrder, LengthFits, EndsForAReason
<1>3. \A start : Position(start)' = Position(start)
  BY <1>1 DEF Position
<1>4. link' \in {"up", "cut", "eof"}
  BY DEF Deliver, Cut, EndOfStream, FramingTypeOK
<1>5. wire \in Seq(Byte) /\ buffer \in Seq(Byte)
  BY DEF FramingTypeOK
<1>6. CASE Deliver
  <2>1. PICK n \in 1..Len(wire) : /\ buffer' = buffer \o SubSeq(wire, 1, n)
                                  /\ wire' = SubSeq(wire, n + 1, Len(wire))
                                  /\ link' = link
    BY <1>6 DEF Deliver
  <2>2. n \in 0..Len(wire)
    OBVIOUS
  <2>3. /\ SubSeq(wire, 1, n) \in Seq(Byte) /\ Len(SubSeq(wire, 1, n)) = n
        /\ wire' \in Seq(Byte) /\ Len(wire') = Len(wire) - n
    BY <2>1, <2>2, <1>5, SubSeqProperties
  <2>4. buffer' \in Seq(Byte) /\ Len(buffer') = Len(buffer) + n
    BY <2>1, <2>3, <1>5, ConcatProperties
  <2>5. FramingTypeOK'
    BY <2>3, <2>4, <1>1, <1>4 DEF FramingTypeOK
  <2>6. ASSUME ~ended, NEW start, Starts(written, start), InPlace(start)
        PROVE  InPlace(start)'
    <3>1. /\ Position(start) \in Nat /\ Position(start) + Len(buffer) \in Nat
          /\ Len(buffer) \in Nat /\ Len(wire) \in Nat
      BY <2>6, Places
    <3>2. /\ Carries(written, start, Position(start), buffer)
          /\ Carries(written, start, Position(start) + Len(buffer), wire)
      BY <2>6 DEF InPlace
    <3>3. /\ Carries(written, start, Position(start) + Len(buffer), SubSeq(wire, 1, n))
          /\ Carries(written, start, Position(start) + Len(buffer) + n, wire')
      BY <3>1, <3>2, <2>1, <2>2, <1>5, CarriesPrefix, CarriesSuffix
    <3>4. Carries(written, start, Position(start), buffer')
      BY <3>1, <3>2, <3>3, <2>1, <2>3, <1>5, CarriesConcat
    <3>5. Position(start) + Len(buffer') = Position(start) + Len(buffer) + n
      BY <3>1, <2>4
    <3>6. Position(start) + Len(buffer') + Len(wire')
            = Position(start) + Len(buffer) + Len(wire)
      BY <3>1, <2>3, <2>4
    <3>7. link' = "up" =>
            Position(start) + Len(buffer') + Len(wire') = start[Len(written) + 1]
      BY <3>6, <2>1, <2>6 DEF InPlace
    <3>8. QED
      BY <3>3, <3>4, <3>5, <3>7, <1>1, <1>3 DEF InPlace
  <2>7. QED
    BY <2>5, <2>6, <1>1, <1>2
<1>7. CASE Cut
  <2>1. PICK n \in 0..Len(wire) : wire' = SubSeq(wire, 1, n)
    BY <1>7 DEF Cut
  <2>2. buffer' = buffer /\ link' = "cut"
    BY <1>7 DEF Cut, readerVars
  <2>3. wire' \in Seq(Byte)
    BY <2>1, <1>5, SubSeqProperties
  <2>4. FramingTypeOK'
    BY <2>2, <2>3, <1>1, <1>4 DEF FramingTypeOK
  <2>5. ASSUME ~ended, NEW start, Starts(written, start), InPlace(start)
        PROVE  InPlace(start)'
    <3>1. Carries(written, start, Position(start) + Len(buffer), wire')
      BY <2>1, <2>5, <1>5, CarriesPrefix DEF InPlace
    <3>2. QED
      BY <3>1, <2>2, <2>5, <1>1, <1>3 DEF InPlace
  <2>6. QED
    BY <2>4, <2>5, <1>1, <1>2
<1>8. CASE EndOfStream
  <2>1. buffer' = buffer /\ link' = "eof" /\ wire' = wire
    BY <1>8 DEF EndOfStream, readerVars
  <2>2. FramingTypeOK'
    BY <2>1, <1>1, <1>4 DEF FramingTypeOK
  <2>3. ASSUME NEW start, InPlace(start)
        PROVE  InPlace(start)'
    BY <2>1, <2>3, <1>1, <1>3 DEF InPlace
  <2>4. QED
    BY <2>2, <2>3, <1>1, <1>2
<1>9. QED
  BY <1>6, <1>7, <1>8

-----------------------------------------------------------------------------
(* The reader. *)

\* Where a header is awaited, the next message's header comes.
LEMMA HeaderIsNext ==
  ASSUME FramingInv, length = 0, Has(HeaderSize)
  PROVE  /\ Len(received) + 1 \in 1..Len(written)
         /\ LET m == written[Len(received) + 1]
            IN  Announced = IF PayloadSize[m] <= MaxPayload THEN PayloadSize[m] ELSE 0
<1>1. PICK start : Starts(written, start) /\ InPlace(start)
  BY DEF FramingInv, Has
<1>2. PICK n : n = Len(received) + 1
  OBVIOUS
<1>3. /\ n \in 1..(Len(written) + 1) /\ start[n] \in Nat /\ Len(buffer) \in Nat
      /\ Len(written) \in Nat
  BY <1>1, <1>2, Places DEF FramingInv
<1>4. written \in Seq(Message) /\ buffer \in Seq(Byte)
  BY DEF FramingInv, FramingTypeOK
<1>5. HeaderSize \in Nat \ {0} /\ HeaderSize <= Len(buffer) /\ MaxPayload \in Nat
  BY FramingAssumption, <1>3 DEF Has
<1>6. ASSUME NEW i \in 1..HeaderSize
      PROVE  ByteAt(written, start, start[n] + i, buffer[i])
  <2>1. Position(start) = start[n]
    BY <1>2, <1>3 DEF Position
  <2>2. i \in 1..Len(buffer)
    BY <1>3, <1>5
  <2>3. QED
    BY <2>1, <2>2, <1>1 DEF InPlace, Carries
<1>7. n \in 1..Len(written)
  <2>1. 1 \in 1..HeaderSize
    BY <1>5
  <2>2. ByteAt(written, start, start[n] + 1, buffer[1])
    BY <2>1, <1>6
  <2>3. QED
    BY <2>2, <1>1, <1>3, <1>4, ByteHasFrame
<1>8. PICK m : m = written[n]
  OBVIOUS
<1>9. m \in Message
  BY <1>4, <1>7, <1>8
<1>10. /\ Frame(m, n) \in Seq(Byte) /\ Len(Frame(m, n)) = Size(m)
       /\ Size(m) \in Nat /\ PayloadSize[m] \in Nat \ {0}
       /\ \A i \in 1..Size(m) : Frame(m, n)[i] = <<m, n, i>>
  BY <1>3, <1>9, FrameIsSequence
<1>11. HeaderSize <= Size(m)
  BY <1>5, <1>10 DEF Size
<1>12. \A i \in 1..HeaderSize : buffer[i] = <<m, n, i>>
  <2>1. TAKE i \in 1..HeaderSize
  <2>2. i \in Nat /\ i # 0 /\ i <= Size(written[n])
    BY <1>5, <1>8, <1>10, <1>11
  <2>3. QED
    BY <2>2, <1>1, <1>4, <1>6, <1>7, <1>8, ByteOfFrame
<1>13. /\ Header \in Seq(Byte) /\ Len(Header) = HeaderSize
       /\ \A i \in 1..HeaderSize : Header[i] = <<m, n, i>>
  BY <1>4, <1>5, <1>12, SubSeqProperties DEF Header
<1>14. Header[1] = <<m, n, 1>>
  BY <1>13, <1>5
<1>15. Header[1][1] = m /\ Header[1][2] = n
  BY <1>14
<1>16. Header = SubSeq(Frame(m, n), 1, HeaderSize)
  <2>1. PICK f : f = SubSeq(Frame(m, n), 1, HeaderSize)
    OBVIOUS
  <2>2. PICK g : g = Frame(m, n)
    OBVIOUS
  <2>3. /\ f \in Seq(Byte) /\ Len(f) = HeaderSize
        /\ \A i \in 1..HeaderSize : f[i] = g[i]
    BY <2>1, <2>2, <1>5, <1>10, <1>11, SubSeqProperties
  <2>4. \A i \in 1..HeaderSize : f[i] = Header[i]
    <3>1. \A i \in 1..HeaderSize : i \in 1..Size(m)
      BY <1>5, <1>10, <1>11
    <3>2. QED
      BY <3>1, <2>2, <2>3, <1>10, <1>13
  <2>5. f = Header
    BY <2>3, <2>4, <1>13, SeqEqual
  <2>6. QED
    BY <2>1, <2>5
<1>17. Announced = IF PayloadSize[m] <= MaxPayload THEN PayloadSize[m] ELSE 0
  BY <1>15, <1>16 DEF Announced
<1>18. QED
  BY <1>2, <1>7, <1>8, <1>17

\* Where a payload is awaited, the next message's payload comes, and nothing else
\* is read with it.
LEMMA PayloadIsNext ==
  ASSUME FramingInv, length # 0, Has(length)
  PROVE  /\ Len(received) + 1 \in 1..Len(written)
         /\ buffer[1][1] = written[Len(received) + 1]
         /\ buffer[1][2] = Len(received) + 1
         /\ LET m == buffer[1][1]
            IN  SubSeq(buffer, 1, length)
                  = SubSeq(Frame(m, buffer[1][2]), HeaderSize + 1,
                           HeaderSize + PayloadSize[m])
<1>1. PICK start : Starts(written, start) /\ InPlace(start)
  BY DEF FramingInv, Has
<1>2. PICK n : n = Len(received) + 1
  OBVIOUS
<1>3. /\ n \in 1..(Len(written) + 1) /\ start[n] \in Nat /\ Len(buffer) \in Nat
      /\ Len(written) \in Nat /\ Len(received) \in Nat
  BY <1>1, <1>2, Places DEF FramingInv
<1>4. written \in Seq(Message) /\ buffer \in Seq(Byte) /\ length \in Nat \ {0}
  BY DEF FramingInv, FramingTypeOK
<1>5. n \in 1..Len(written) /\ length = PayloadSize[written[n]]
  BY <1>2, <1>3 DEF FramingInv, LengthFits, Has
<1>6. PICK m : m = written[n]
  OBVIOUS
<1>7. m \in Message
  BY <1>4, <1>5, <1>6
<1>8. /\ Frame(m, n) \in Seq(Byte) /\ Len(Frame(m, n)) = Size(m) /\ Size(m) \in Nat
      /\ \A i \in 1..Size(m) : Frame(m, n)[i] = <<m, n, i>>
  BY <1>3, <1>7, FrameIsSequence
<1>9. HeaderSize \in Nat \ {0} /\ Size(m) = HeaderSize + length /\ length <= Len(buffer)
  BY FramingAssumption, <1>3, <1>4, <1>5, <1>6 DEF Size, Has
<1>10. \A i \in 1..length : buffer[i] = <<m, n, HeaderSize + i>>
  <2>1. TAKE i \in 1..length
  <2>2. Position(start) = start[n] + HeaderSize
    BY <1>2 DEF Position
  <2>3. i \in 1..Len(buffer)
    BY <1>3, <1>4, <1>9
  <2>4. ByteAt(written, start, Position(start) + i, buffer[i])
    BY <2>3, <1>1 DEF InPlace, Carries
  <2>5. Position(start) + i = start[n] + (HeaderSize + i)
    BY <2>2, <1>3, <1>9
  <2>6. /\ HeaderSize + i \in Nat /\ HeaderSize + i # 0
        /\ HeaderSize + i <= Size(written[n])
    BY <1>4, <1>6, <1>9
  <2>7. QED
    BY <2>4, <2>5, <2>6, <1>1, <1>4, <1>5, <1>6, ByteOfFrame
<1>11. buffer[1] = <<m, n, HeaderSize + 1>>
  BY <1>10, <1>4
<1>12. buffer[1][1] = m /\ buffer[1][2] = n
  BY <1>11
<1>13. SubSeq(buffer, 1, length)
         = SubSeq(Frame(m, n), HeaderSize + 1, HeaderSize + length)
  <2>1. PICK f, g, h : /\ f = SubSeq(buffer, 1, length)
                       /\ g = SubSeq(Frame(m, n), HeaderSize + 1, HeaderSize + length)
                       /\ h = Frame(m, n)
    OBVIOUS
  <2>2. f \in Seq(Byte) /\ Len(f) = length /\ \A i \in 1..length : f[i] = buffer[i]
    BY <2>1, <1>4, <1>9, SubSeqProperties
  <2>3. /\ g \in Seq(Byte) /\ Len(g) = length
        /\ \A i \in 1..length : g[i] = h[HeaderSize + i]
    <3>1. /\ h \in Seq(Byte) /\ Len(h) = HeaderSize + length
          /\ g = SubSeq(h, HeaderSize + 1, HeaderSize + length)
      BY <2>1, <1>8, <1>9
    <3>2. HeaderSize + 1 \in 1..(Len(h) + 1) /\ HeaderSize + length \in 0..Len(h)
      BY <3>1, <1>4, <1>9
    <3>3. /\ g \in Seq(Byte)
          /\ Len(g) = HeaderSize + length - (HeaderSize + 1) + 1
          /\ \A i \in 1..Len(g) : g[i] = h[HeaderSize + 1 + i - 1]
      BY <3>1, <3>2, <1>4, <1>9, SubSeqProperties
    <3>4. Len(g) = length
      BY <3>3, <1>4, <1>9
    <3>5. \A i \in 1..length : HeaderSize + 1 + i - 1 = HeaderSize + i
      BY <1>4, <1>9
    <3>6. QED
      BY <3>3, <3>4, <3>5
  <2>4. ASSUME NEW i \in 1..length
        PROVE  f[i] = g[i]
    <3>1. HeaderSize + i \in 1..Size(m)
      BY <1>4, <1>9
    <3>2. h[HeaderSize + i] = <<m, n, HeaderSize + i>>
      BY <3>1, <2>1, <1>8
    <3>3. QED
      BY <3>2, <2>2, <2>3, <1>10
  <2>5. f = g
    BY <2>2, <2>3, <2>4, SeqEqual
  <2>6. QED
    BY <2>1, <2>5
<1>14. QED
  BY <1>2, <1>5, <1>6, <1>12, <1>13

LEMMA ReadHeaderKeeps ==
  ASSUME FramingInv, ReadHeader
  PROVE  FramingInv'
<1>1. PICK n, m : n = Len(received) + 1 /\ m = written[n]
  OBVIOUS
<1>2. length = 0 /\ Has(HeaderSize) /\ length' = Announced /\ ended' = (length' = 0)
  BY DEF ReadHeader
<1>3. /\ n \in 1..Len(written)
      /\ length' = IF PayloadSize[m] <= MaxPayload THEN PayloadSize[m] ELSE 0
  BY <1>1, <1>2, HeaderIsNext
<1>4. /\ written \in Seq(Message) /\ received \in Seq(Message)
      /\ wire \in Seq(Byte) /\ buffer \in Seq(Byte)
  BY DEF FramingInv, FramingTypeOK
<1>5. UNCHANGED <<written, wire, received, link>>
  BY DEF ReadHeader
<1>6. m \in Message /\ PayloadSize[m] \in Nat \ {0} /\ HeaderSize \in Nat \ {0}
      /\ MaxPayload \in Nat
  BY <1>1, <1>3, <1>4, FramingAssumption
<1>7. PICK start : Starts(written, start) /\ InPlace(start)
  BY <1>2 DEF FramingInv, Has
<1>8. /\ start[n] \in Nat /\ Len(buffer) \in Nat /\ Len(wire) \in Nat
      /\ Len(received) \in Nat /\ Len(written) \in Nat
  BY <1>1, <1>7, Places DEF FramingInv
<1>9. HeaderSize \in 0..Len(buffer)
  BY <1>2, <1>6, <1>8 DEF Has
<1>10. Position(start) = start[n]
  BY <1>1, <1>2, <1>8 DEF Position
<1>11. /\ buffer' \in Seq(Byte) /\ Len(buffer') = Len(buffer) - HeaderSize
       /\ Carries(written, start, start[n] + HeaderSize, buffer')
  <2>1. Carries(written, start, start[n], buffer)
    BY <1>7, <1>10 DEF InPlace
  <2>2. buffer' = SubSeq(buffer, HeaderSize + 1, Len(buffer))
    BY DEF ReadHeader
  <2>3. PICK p : p = start[n]
    OBVIOUS
  <2>4. QED
    BY <2>1, <2>2, <2>3, <1>4, <1>8, <1>9, CarriesSuffix
<1>12. FramingTypeOK'
  <2>1. length' \in Nat
    BY <1>3, <1>6
  <2>2. ended' \in BOOLEAN
    BY <1>2
  <2>3. QED
    BY <2>1, <2>2, <1>4, <1>5, <1>11 DEF FramingInv, FramingTypeOK
<1>13. ReadInOrder'
  BY <1>5 DEF FramingInv, ReadInOrder
<1>14. EndsForAReason'
  <2>1. SUFFICES ASSUME ended' PROVE PayloadSize[m] > MaxPayload /\ Len(received) < Len(written)
    BY <1>1, <1>5 DEF EndsForAReason
  <2>2. length' = 0
    BY <2>1, <1>2
  <2>3. QED
    BY <2>2, <1>1, <1>3, <1>6, <1>8
<1>15. ASSUME ~ended'
       PROVE  LengthFits' /\ InPlace(start)'
  <2>1. length' # 0 /\ length' = PayloadSize[m]
    BY <1>15, <1>2, <1>3
  <2>2. LengthFits'
    BY <2>1, <1>1, <1>3, <1>5, <1>8 DEF LengthFits
  <2>3. Position(start)' = start[n] + HeaderSize
    BY <2>1, <1>1, <1>5 DEF Position
  <2>4. start[n] + HeaderSize + Len(buffer') = start[n] + Len(buffer)
    BY <1>6, <1>8, <1>11
  <2>5. /\ Carries(written, start, start[n] + Len(buffer), wire)
        /\ link = "up" => start[n] + Len(buffer) + Len(wire) = start[Len(written) + 1]
    BY <1>7, <1>10 DEF InPlace
  <2>6. QED
    BY <2>2, <2>3, <2>4, <2>5, <1>5, <1>11 DEF InPlace
<1>16. QED
  BY <1>5, <1>7, <1>12, <1>13, <1>14, <1>15 DEF FramingInv

LEMMA ReadPayloadReads ==
  ASSUME FramingInv, ReadPayload
  PROVE  /\ Len(received) + 1 \in 1..Len(written)
         /\ received' = Append(received, written[Len(received) + 1])
         /\ ended = FALSE /\ ended' = FALSE
<1>1. length # 0 /\ Has(length)
  BY DEF ReadPayload
<1>2. PICK m : m = buffer[1][1]
  OBVIOUS
<1>3. /\ Len(received) + 1 \in 1..Len(written)
      /\ m = written[Len(received) + 1]
      /\ SubSeq(buffer, 1, length)
           = SubSeq(Frame(m, buffer[1][2]), HeaderSize + 1, HeaderSize + PayloadSize[m])
  BY <1>1, <1>2, PayloadIsNext
<1>4. received' = Append(received, m) /\ ended' = FALSE
  BY <1>2, <1>3, Zenon DEF ReadPayload
<1>5. ended = FALSE
  BY <1>1 DEF Has, FramingInv, FramingTypeOK
<1>6. QED
  BY <1>3, <1>4, <1>5

LEMMA ReadPayloadKeeps ==
  ASSUME FramingInv, ReadPayload
  PROVE  FramingInv'
<1>1. PICK n, m : n = Len(received) + 1 /\ m = written[n]
  OBVIOUS
<1>2. length # 0 /\ Has(length) /\ length' = 0
  BY DEF ReadPayload
<1>3. /\ n \in 1..Len(written) /\ received' = Append(received, m)
      /\ ended = FALSE /\ ended' = FALSE
  BY <1>1, ReadPayloadReads
<1>4. /\ written \in Seq(Message) /\ received \in Seq(Message)
      /\ wire \in Seq(Byte) /\ buffer \in Seq(Byte) /\ length \in Nat
  BY DEF FramingInv, FramingTypeOK
<1>5. UNCHANGED <<written, wire, link>>
  BY DEF ReadPayload
<1>6. m \in Message /\ PayloadSize[m] \in Nat \ {0} /\ HeaderSize \in Nat \ {0}
  BY <1>1, <1>3, <1>4, FramingAssumption
<1>7. PICK start : Starts(written, start) /\ InPlace(start)
  BY <1>2 DEF FramingInv, Has
<1>8. /\ start[n] \in Nat /\ Len(buffer) \in Nat /\ Len(wire) \in Nat
      /\ Len(received) \in Nat /\ Len(written) \in Nat
  BY <1>1, <1>7, Places DEF FramingInv
<1>9. length = PayloadSize[m] /\ length \in 0..Len(buffer)
  <2>1. length = PayloadSize[m]
    BY <1>1, <1>2, <1>3 DEF FramingInv, LengthFits
  <2>2. length \in 0..Len(buffer)
    BY <1>2, <1>4, <1>8 DEF Has
  <2>3. QED
    BY <2>1, <2>2
<1>10. Position(start) = start[n] + HeaderSize
  BY <1>1, <1>2 DEF Position
<1>11. start[n + 1] = start[n] + HeaderSize + length
  <2>1. start[n + 1] = start[n] + Size(m)
    BY <1>1, <1>3, <1>7 DEF Starts
  <2>2. QED
    BY <2>1, <1>6, <1>8, <1>9 DEF Size
<1>12. /\ buffer' \in Seq(Byte) /\ Len(buffer') = Len(buffer) - length
       /\ Carries(written, start, start[n + 1], buffer')
  <2>1. PICK p : p = start[n] + HeaderSize
    OBVIOUS
  <2>2. Carries(written, start, p, buffer) /\ p \in Nat
    BY <2>1, <1>6, <1>7, <1>8, <1>10 DEF InPlace
  <2>3. buffer' = SubSeq(buffer, length + 1, Len(buffer))
    BY DEF ReadPayload
  <2>4. /\ buffer' \in Seq(Byte) /\ Len(buffer') = Len(buffer) - length
        /\ Carries(written, start, p + length, buffer')
    <3>1. PICK s, k : s = buffer /\ k = length
      OBVIOUS
    <3>2. p \in Nat /\ s \in Seq(Byte) /\ k \in 0..Len(s) /\ Carries(written, start, p, s)
      BY <3>1, <2>2, <1>4, <1>9
    <3>3. /\ SubSeq(s, k + 1, Len(s)) \in Seq(Byte)
          /\ Len(SubSeq(s, k + 1, Len(s))) = Len(s) - k
          /\ Carries(written, start, p + k, SubSeq(s, k + 1, Len(s)))
      BY <3>2, CarriesSuffix
    <3>4. QED
      BY <3>1, <3>3, <2>3
  <2>5. QED
    BY <2>1, <2>4, <1>11
<1>13. received' \in Seq(Message) /\ Len(received') = n
       /\ \A i \in 1..n : received'[i] = written[i]
  <2>1. /\ received' \in Seq(Message) /\ Len(received') = Len(received) + 1
        /\ received'[Len(received) + 1] = m
        /\ \A i \in 1..Len(received) : received'[i] = received[i]
    BY <1>3, <1>4, <1>6, WrittenGrows
  <2>2. \A i \in 1..Len(received) : received[i] = written[i]
    BY DEF FramingInv, ReadInOrder
  <2>3. \A i \in 1..n : i = n \/ i \in 1..Len(received)
    BY <1>1, <1>8
  <2>4. QED
    BY <2>1, <2>2, <2>3, <1>1
<1>14. FramingTypeOK'
  <2>1. length' \in Nat /\ ended' \in BOOLEAN
    BY <1>2, <1>3
  <2>2. QED
    BY <2>1, <1>4, <1>5, <1>12, <1>13 DEF FramingInv, FramingTypeOK
<1>15. ReadInOrder'
  BY <1>3, <1>5, <1>8, <1>13 DEF ReadInOrder
<1>16. EndsForAReason' /\ LengthFits'
  BY <1>2, <1>3 DEF EndsForAReason, LengthFits
<1>17. InPlace(start)'
  <2>1. Position(start)' = start[n + 1]
    <3>1. start[n + 1] \in Nat
      BY <1>4, <1>6, <1>8, <1>11
    <3>2. QED
      BY <3>1, <1>2, <1>13 DEF Position
  <2>2. start[n + 1] + Len(buffer') = start[n] + HeaderSize + Len(buffer)
    BY <1>4, <1>6, <1>8, <1>11, <1>12
  <2>3. /\ Carries(written, start, start[n] + HeaderSize + Len(buffer), wire)
        /\ link = "up" =>
             start[n] + HeaderSize + Len(buffer) + Len(wire) = start[Len(written) + 1]
    BY <1>7, <1>10 DEF InPlace
  <2>4. QED
    BY <2>1, <2>2, <2>3, <1>5, <1>12 DEF InPlace
<1>18. QED
  BY <1>5, <1>7, <1>14, <1>15, <1>16, <1>17 DEF FramingInv

LEMMA IncompleteReadKeeps ==
  ASSUME FramingInv, IncompleteRead
  PROVE  FramingInv'
<1>1. /\ UNCHANGED <<written, wire, buffer, length, received, link>>
      /\ ended' = TRUE /\ link = "eof"
  BY DEF IncompleteRead
<1>2. FramingTypeOK'
  BY <1>1 DEF FramingInv, FramingTypeOK
<1>3. ReadInOrder' /\ EndsForAReason'
  BY <1>1 DEF FramingInv, ReadInOrder, EndsForAReason
<1>4. QED
  BY <1>1, <1>2, <1>3 DEF FramingInv

LEMMA StutterKeepsFrames ==
  ASSUME FramingInv, UNCHANGED vars
  PROVE  FramingInv'
<1>1. \A start : Position(start)' = Position(start)
  BY DEF vars, Position
<1>2. \A start : InPlace(start) => InPlace(start)'
  BY <1>1 DEF vars, InPlace
<1>3. FramingTypeOK' /\ ReadInOrder' /\ EndsForAReason' /\ (LengthFits => LengthFits')
  BY DEF FramingInv, FramingTypeOK, ReadInOrder, EndsForAReason, LengthFits, vars
<1>4. QED
  BY <1>2, <1>3 DEF FramingInv, vars

-----------------------------------------------------------------------------
(* The inductive invariant: whatever has arrived or is under way is the    *)
(* stream from the place up to which it was read, and that place is the    *)
(* beginning of a frame or of its payload (read_message and write_message  *)
(* in protocol.py).                                                        *)
THEOREM FramingInvariant == FramingSpec => []FramingInv
<1>1. Init => FramingInv
  BY InitFrames
<1>2. FramingInv /\ [Next]_vars => FramingInv'
  <2>1. SUFFICES ASSUME FramingInv, [Next]_vars
                 PROVE  FramingInv'
    OBVIOUS
  <2>2. ASSUME NEW m \in Message, WriteMessage(m)
        PROVE  FramingInv'
    BY <2>1, <2>2, WriteKeeps
  <2>3. CASE Deliver \/ Cut \/ EndOfStream
    BY <2>1, <2>3, NetworkKeeps
  <2>4. CASE ReadHeader
    BY <2>1, <2>4, ReadHeaderKeeps
  <2>5. CASE ReadPayload
    BY <2>1, <2>5, ReadPayloadKeeps
  <2>6. CASE IncompleteRead
    BY <2>1, <2>6, IncompleteReadKeeps
  <2>7. CASE UNCHANGED vars
    BY <2>1, <2>7, StutterKeepsFrames
  <2>8. QED
    BY <2>1, <2>2, <2>3, <2>4, <2>5, <2>6, <2>7 DEF Next, ReadMessage
<1>3. QED
  BY <1>1, <1>2, PTL DEF FramingSpec

\* The reader leaves a connection only when the stream has ended, or at a message
\* longer than it takes: it never loses its place and never misreads a frame (the
\* errors of read_message in protocol.py).
THEOREM EndsForAReasonCorrect == FramingSpec => []EndsForAReason
<1>1. FramingInv => EndsForAReason
  BY DEF FramingInv
<1>2. QED
  BY <1>1, FramingInvariant, PTL

\* The property ImplementsChannel: read_message returns what write_message was
\* given, whole, in order and without gaps, up to where the connection ends.
THEOREM ImplementsChannelCorrect == FramingSpec => ImplementsChannel
<1>1. Init => Stream!Init
  BY DEF Init, Stream!Init
<1>2. FramingInv /\ [Next]_vars => [Stream!Next]_<<written, received, ended>>
  <2>1. SUFFICES ASSUME FramingInv, [Next]_vars
                 PROVE  \/ Stream!Next
                        \/ UNCHANGED <<written, received, ended>>
    OBVIOUS
  <2>2. ASSUME NEW m \in Message, WriteMessage(m)
        PROVE  Stream!Write(m)
    BY <2>2 DEF WriteMessage, readerVars, Stream!Write
  <2>3. CASE Deliver \/ Cut \/ EndOfStream
    BY <2>3 DEF Deliver, Cut, EndOfStream, readerVars
  <2>4. ended \in BOOLEAN
    BY <2>1 DEF FramingInv, FramingTypeOK
  <2>5. CASE ReadHeader
    <3>1. ended = FALSE /\ ended' \in BOOLEAN /\ UNCHANGED <<written, received>>
      BY <2>4, <2>5 DEF ReadHeader, Has
    <3>2. QED
      BY <3>1 DEF Stream!Next, Stream!End
  <2>6. CASE ReadPayload
    <3>1. /\ Len(received) + 1 \in 1..Len(written)
          /\ received' = Append(received, written[Len(received) + 1])
          /\ ended = FALSE /\ ended' = FALSE
      BY <2>1, <2>6, ReadPayloadReads
    <3>2. written' = written
      BY <2>6 DEF ReadPayload
    <3>3. Len(received) < Len(written)
      BY <3>1, <2>1 DEF FramingInv, FramingTypeOK
    <3>4. QED
      BY <3>1, <3>2, <3>3 DEF Stream!Next, Stream!Read
  <2>7. CASE IncompleteRead
    BY <2>7 DEF IncompleteRead, Stream!Next, Stream!End
  <2>8. CASE UNCHANGED vars
    BY <2>8 DEF vars
  <2>9. QED
    BY <2>1, <2>2, <2>3, <2>5, <2>6, <2>7, <2>8 DEF Next, ReadMessage, Stream!Next
<1>3. QED
  BY <1>1, <1>2, FramingInvariant, PTL
     DEF FramingSpec, ImplementsChannel, Stream!ChannelSpec
=============================================================================
