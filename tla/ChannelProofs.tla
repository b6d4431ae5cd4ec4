---------------------------- MODULE ChannelProofs ----------------------------
(***************************************************************************)
(* The two parsers implement the safety part of Channel.                   *)
(*                                                                         *)
(* TcpFrames: for every byte size, every set of bodies and every way the   *)
(* stream is cut, dispTcp hands the scripts the bodies that were sent, in  *)
(* order, and never leaves a whole frame waiting.                          *)
(*                                                                         *)
(* WebSock, as W: for any messages, however they are cut into frames and   *)
(* whatever control frames and stray continuations come between them,      *)
(* dispWebSock hands over the messages of the client, in order.            *)
(***************************************************************************)
EXTENDS TcpFrames, SequenceTheorems, TLAPS

\* Division by the number of values of a byte.
LEMMA DivMod ==
  ASSUME NEW n \in Nat
  PROVE  /\ n \div Base \in Nat
         /\ n % Base \in Byte
         /\ n = (n \div Base) * Base + (n % Base)
BY BaseAssumption DEF Byte

\* A quotient is below k when the dividend is below k times the divisor.
LEMMA DivBound ==
  ASSUME NEW n \in Nat, NEW k \in Nat, n < k * Base
  PROVE  n \div Base < k
<1> DEFINE q == n \div Base
           r == n % Base
<1>1. q \in Nat /\ r \in 0 .. Base - 1 /\ n = q * Base + r  BY DivMod DEF Byte
<1> HIDE DEF q, r
<1>2. ASSUME q >= k PROVE FALSE
  <2>1. q * Base >= k * Base  BY <1>1, <1>2, BaseAssumption
  <2>2. QED  BY <2>1, <1>1, BaseAssumption
<1>3. QED  BY <1>1, <1>2 DEF q

\* parseHead reads from createHead's bytes the length that was written, and the
\* head it skips is the head that was written.
LEMMA HeadRoundTrip ==
  ASSUME NEW n \in Nat, n < Base * Base * Base * Base
  PROVE  /\ createHead(n) \in Seq(Byte)
         /\ createHead(n)[1] <= Short + 2
         /\ Len(createHead(n)) = HeadLens(createHead(n))
         /\ BufLens(createHead(n)) = n
         /\ NeedReadLens(createHead(n)) \in 1 .. HeadLens(createHead(n))
<1>1. CASE n <= Short
  BY <1>1, BaseAssumption DEF createHead, HeadLens, BufLens, NeedReadLens, Byte
<1>2. CASE ~(n <= Short) /\ n < Base * Base
  <2> DEFINE q == n \div Base
             r == n % Base
  <2>1. q \in Nat /\ r \in Byte /\ n = q * Base + r  BY DivMod
  <2>2. q \in Byte  BY <2>1, <1>2, DivBound, BaseAssumption DEF Byte
  <2>3. createHead(n) = << Short + 1, q, r >>  BY <1>2 DEF createHead
  <2> HIDE DEF q, r
  <2>4. HeadLens(createHead(n)) = 3 /\ NeedReadLens(createHead(n)) = 3
    BY <2>3, BaseAssumption DEF HeadLens, NeedReadLens
  <2>5. BufLens(createHead(n)) = n  BY <2>1, <2>3, BaseAssumption DEF BufLens
  <2>6. createHead(n) \in Seq(Byte)
    <3>1. Short + 1 \in Byte  BY BaseAssumption DEF Byte
    <3>2. r \in Byte  BY <2>1
    <3>3. << Short + 1, q, r >> \in Seq(Byte)  BY <3>1, <3>2, <2>2
    <3>4. QED  BY <2>3, <3>3
  <2>7. QED  BY <2>3, <2>4, <2>5, <2>6, BaseAssumption
<1>3. CASE ~(n <= Short) /\ ~(n < Base * Base)
  <2> DEFINE q1 == n \div Base
             q2 == q1 \div Base
             q3 == q2 \div Base
  <2>1. q1 \in Nat /\ n % Base \in Byte /\ n = q1 * Base + (n % Base)  BY DivMod
  <2>2. q2 \in Nat /\ q1 % Base \in Byte /\ q1 = q2 * Base + (q1 % Base)
    BY <2>1, DivMod
  <2>3. q3 \in Nat /\ q2 % Base \in Byte /\ q2 = q3 * Base + (q2 % Base)
    BY <2>2, DivMod
  <2>4. q1 < Base * Base * Base  BY <2>1, DivBound, BaseAssumption
  <2>5. q2 < Base * Base  BY <2>2, <2>4, DivBound, BaseAssumption
  <2>6. q3 < Base  BY <2>3, <2>5, DivBound, BaseAssumption
  <2>7. q3 % Base = q3 /\ q3 \in Byte  BY <2>3, <2>6, BaseAssumption DEF Byte
  <2>8. createHead(n) =
          << Short + 2, q3, q2 % Base, q1 % Base, n % Base, 0, 0, 0, 0 >>
    BY <1>3, <2>7 DEF createHead
  <2> HIDE DEF q1, q2, q3
  <2>9. HeadLens(createHead(n)) = 9 /\ NeedReadLens(createHead(n)) = 5
    BY <2>8, BaseAssumption DEF HeadLens, NeedReadLens
  <2>10. BufLens(createHead(n))
           = ((q3 * Base + (q2 % Base)) * Base + (q1 % Base)) * Base + (n % Base)
    BY <2>8, BaseAssumption DEF BufLens
  <2>11. BufLens(createHead(n)) = n  BY <2>10, <2>1, <2>2, <2>3
  <2>12. createHead(n) \in Seq(Byte)
    BY <2>8, <2>1, <2>2, <2>3, <2>7, BaseAssumption DEF Byte
  <2>13. QED  BY <2>8, <2>9, <2>11, <2>12, BaseAssumption
<1>4. QED  BY <1>1, <1>2, <1>3

\* A frame is its head followed by the body.
LEMMA FrameProperties ==
  ASSUME NEW m \in Msgs
  PROVE  /\ Frame(m) \in Seq(Byte)
         /\ Len(Frame(m)) = HeadLens(createHead(Len(m))) + Len(m)
         /\ \A k \in 1 .. Len(Frame(m)) : Frame(m)[k] =
               IF k <= Len(createHead(Len(m))) THEN createHead(Len(m))[k]
               ELSE m[k - Len(createHead(Len(m)))]
<1>1. m \in Seq(Byte) /\ Len(m) \in Nat /\ Len(m) < Base * Base * Base * Base
  BY MsgsAssumption
<1>2. createHead(Len(m)) \in Seq(Byte)
      /\ Len(createHead(Len(m))) = HeadLens(createHead(Len(m)))
  BY <1>1, HeadRoundTrip
<1>3. QED  BY Zenon, <1>1, <1>2, ConcatProperties DEF Frame

\* parsePack on a buffer that begins like the frame of m: it returns a message
\* exactly when the whole frame is there, and the message is m.
LEMMA ParseFrame ==
  ASSUME NEW m \in Msgs, NEW b \in Seq(Byte),
         \A k \in 1 .. Len(b) : k <= Len(Frame(m)) => b[k] = Frame(m)[k]
  PROVE  /\ Parsed(b) <=> Len(b) >= Len(Frame(m))
         /\ Parsed(b) => ParsedLens(b) = Len(Frame(m)) /\ Body(b) = m
<1> DEFINE h == createHead(Len(m))
           F == Frame(m)
<1>1. m \in Seq(Byte) /\ Len(m) \in Nat /\ Len(m) < Base * Base * Base * Base
  BY MsgsAssumption
<1>2. /\ h \in Seq(Byte) /\ h[1] <= Short + 2 /\ Len(h) = HeadLens(h)
      /\ BufLens(h) = Len(m) /\ NeedReadLens(h) \in 1 .. HeadLens(h)
  BY <1>1, HeadRoundTrip
<1>3. /\ F \in Seq(Byte) /\ Len(F) = Len(h) + Len(m)
      /\ \A k \in 1 .. Len(F) :
            F[k] = IF k <= Len(h) THEN h[k] ELSE m[k - Len(h)]
  BY <1>2, FrameProperties
<1>4. HeadLens(h) \in 1 .. 9  BY DEF HeadLens
<1>5. \A k \in 1 .. Len(b) : k <= Len(h) => b[k] = h[k]
  BY <1>1, <1>2, <1>3
<1> HIDE DEF h, F
<1>6. CASE b = << >>
  BY <1>6, <1>1, <1>2, <1>3, <1>4 DEF Parsed, F
<1>7. CASE b # << >>
  <2>1. Len(b) >= 1  BY <1>7
  <2>2. b[1] = h[1]  BY <2>1, <1>2, <1>4, <1>5
  <2>3. HeadLens(b) = HeadLens(h) /\ NeedReadLens(b) = NeedReadLens(h)
    BY <2>2 DEF HeadLens, NeedReadLens
  <2>4. CASE Len(b) < NeedReadLens(h)
    BY <2>4, <2>3, <1>1, <1>2, <1>3, <1>4 DEF Parsed, F
  <2>5. CASE Len(b) >= NeedReadLens(h)
    <3>1. BufLens(b) = BufLens(h)
      <4>1. CASE h[1] = Short + 1
        <5>1. NeedReadLens(h) = 3  BY <4>1, BaseAssumption DEF NeedReadLens
        <5>2. b[2] = h[2] /\ b[3] = h[3]
          BY <5>1, <2>5, <1>2, <1>5
        <5>3. QED  BY <4>1, <5>2, <2>2 DEF BufLens
      <4>2. CASE h[1] = Short + 2
        <5>1. NeedReadLens(h) = 5  BY <4>2, BaseAssumption DEF NeedReadLens
        <5>2. b[2] = h[2] /\ b[3] = h[3] /\ b[4] = h[4] /\ b[5] = h[5]
          BY <5>1, <2>5, <1>2, <1>5
        <5>3. QED  BY <4>2, <5>2, <2>2, BaseAssumption DEF BufLens
      <4>3. CASE h[1] # Short + 1 /\ h[1] # Short + 2
        BY <4>3, <2>2 DEF BufLens
      <4>4. QED  BY <4>1, <4>2, <4>3
    <3>2. ParsedLens(b) = Len(F)
      BY <3>1, <2>3, <1>2, <1>3 DEF ParsedLens
    <3>3. Parsed(b) <=> Len(b) >= Len(F)
      BY <3>2, <2>1, <2>2, <2>3, <2>5, <1>2, <1>7 DEF Parsed, ParsedLens
    <3>4. ASSUME Len(b) >= Len(F) PROVE Body(b) = m
      <4>1. Body(b) = SubSeq(b, Len(h) + 1, Len(F))
        BY <3>2, <2>3, <1>2 DEF Body
      <4>2. \A i \in Len(h) + 1 .. Len(F) : b[i] \in Byte
        BY <3>4, <1>2, <1>3, <1>1
      <4>3. /\ Body(b) \in Seq(Byte) /\ Len(Body(b)) = Len(m)
            /\ \A i \in 1 .. Len(m) : Body(b)[i] = b[Len(h) + i]
        <5> DEFINE lo == Len(h) + 1
                   hi == Len(F)
                   B == SubSeq(b, lo, hi)
        <5>1. lo \in Int /\ hi \in Int  BY <1>1, <1>2, <1>3, <1>4
        <5>2. hi - lo + 1 = Len(m)  BY <1>1, <1>2, <1>3, <1>4
        <5>3. (IF lo <= hi THEN hi - lo + 1 ELSE 0) = Len(m)  BY <1>1, <5>1, <5>2
        <5>4. \A i \in 1 .. Len(m) : lo + i - 1 = Len(h) + i  BY <1>1, <1>2, <1>4
        <5> HIDE DEF lo, hi
        <5>5. \A i \in lo .. hi : b[i] \in Byte  BY <4>2 DEF lo, hi
        <5>6. /\ B \in Seq(Byte)
              /\ Len(B) = IF lo <= hi THEN hi - lo + 1 ELSE 0
              /\ \A i \in 1 .. hi - lo + 1 : B[i] = b[lo + i - 1]
          BY <5>1, <5>5, SubSeqProperties
        <5>7. Body(b) = B  BY <4>1 DEF lo, hi
        <5> HIDE DEF B
        <5>8. QED  BY <5>2, <5>3, <5>4, <5>6, <5>7
      <4>4. \A i \in 1 .. Len(m) : b[Len(h) + i] = m[i]
        <5>1. TAKE i \in 1 .. Len(m)
        <5>2. Len(h) + i \in 1 .. Len(F) /\ Len(h) + i \in 1 .. Len(b)
              /\ ~(Len(h) + i <= Len(h)) /\ (Len(h) + i) - Len(h) = i
          BY <3>4, <1>1, <1>2, <1>3, <1>4
        <5>3. F[Len(h) + i] = m[i]  BY <5>2, <1>3
        <5>4. b[Len(h) + i] = F[Len(h) + i]  BY <5>2 DEF F
        <5>5. QED  BY <5>3, <5>4
      <4>5. QED  BY <4>3, <4>4, <1>1, SeqEqual
    <3>5. QED  BY <3>2, <3>3, <3>4 DEF F
  <2>6. QED  BY <2>4, <2>5, <2>3, <1>2, <1>4
<1>8. QED  BY <1>6, <1>7

------------------------------------------------------------------------------
\* The stream is the frames of the sent bodies, one after the other, and starts
\* tells where they lie.
Framed ==
  /\ Len(starts) = Len(sent) + 1
  /\ starts[Len(sent) + 1] = Len(stream)
  /\ \A i \in 1 .. Len(sent) :
       /\ starts[i + 1] = starts[i] + Len(Frame(sent[i]))
       /\ \A k \in 1 .. Len(Frame(sent[i])) :
            stream[starts[i] + k] = Frame(sent[i])[k]

\* A session's input buffer starts at the frame of the next body to deliver.
AtFrame ==
  /\ open => drained = starts[Len(got) + 1]
  /\ reading => open

IInv == TypeOK /\ Framed /\ AtFrame /\ InOrder /\ NoneWaits

\* The buffer's bytes are the stream's.
LEMMA BufferProperties ==
  ASSUME TypeOK
  PROVE  /\ buffer \in Seq(Byte)
         /\ Len(buffer) = arrived - drained
         /\ \A k \in 1 .. Len(buffer) : buffer[k] = stream[drained + k]
<1>1. /\ stream \in Seq(Byte) /\ arrived \in Nat /\ drained \in Nat
      /\ drained <= arrived /\ arrived <= Len(stream)
  BY DEF TypeOK
<1>2. \A i \in drained + 1 .. arrived : stream[i] \in Byte  BY <1>1
<1>3. drained + 1 \in Int /\ arrived \in Int  BY <1>1
<1>4. QED
  BY <1>1, <1>2, <1>3, SubSeqProperties DEF buffer

\* While messages are outstanding, the next one is parsed exactly when its whole
\* frame has arrived.
LEMMA NextFrame ==
  ASSUME IInv, open, Len(got) < Len(sent)
  PROVE  /\ Parsed(buffer) <=> arrived >= starts[Len(got) + 2]
         /\ Parsed(buffer) => /\ Body(buffer) = sent[Len(got) + 1]
                              /\ drained + ParsedLens(buffer) = starts[Len(got) + 2]
<1> DEFINE n == Len(got) + 1
           m == sent[n]
<1>1. /\ n \in 1 .. Len(sent) /\ m \in Msgs /\ n + 1 = Len(got) + 2
      /\ Len(got) \in Nat /\ Len(sent) \in Nat
  BY DEF IInv, TypeOK
<1>2. /\ buffer \in Seq(Byte) /\ Len(buffer) = arrived - drained
      /\ \A k \in 1 .. Len(buffer) : buffer[k] = stream[drained + k]
  BY BufferProperties DEF IInv
<1>3. drained = starts[n] /\ drained \in Nat /\ arrived \in Nat
  BY DEF IInv, AtFrame, TypeOK
<1>4. /\ starts[n + 1] = drained + Len(Frame(m))
      /\ \A k \in 1 .. Len(Frame(m)) : stream[drained + k] = Frame(m)[k]
  BY Zenon, <1>1, <1>3 DEF IInv, Framed
<1>5. Len(Frame(m)) \in Nat  BY <1>1, FrameProperties
<1> HIDE DEF n, m
<1>6. \A k \in 1 .. Len(buffer) : k <= Len(Frame(m)) => buffer[k] = Frame(m)[k]
  BY <1>2, <1>4, <1>5
<1>7. /\ Parsed(buffer) <=> Len(buffer) >= Len(Frame(m))
      /\ Parsed(buffer) => ParsedLens(buffer) = Len(Frame(m)) /\ Body(buffer) = m
  BY <1>1, <1>2, <1>6, ParseFrame
<1>8. Len(buffer) >= Len(Frame(m)) <=> arrived >= starts[n + 1]
  BY <1>2, <1>3, <1>4, <1>5
<1>9. QED  BY <1>1, <1>3, <1>4, <1>7, <1>8 DEF n, m

\* When every sent body has been delivered the buffer is empty.
LEMMA NothingLeft ==
  ASSUME IInv, open, Parsed(buffer)
  PROVE  Len(got) < Len(sent)
<1>1. SUFFICES ASSUME Len(got) = Len(sent) PROVE FALSE
  BY DEF IInv, InOrder, TypeOK
<1>2. drained = Len(stream)  BY <1>1 DEF IInv, AtFrame, Framed
<1>3. Len(buffer) = 0 /\ buffer \in Seq(Byte)
  BY <1>2, BufferProperties DEF IInv, TypeOK
<1>4. QED  BY <1>3 DEF Parsed

------------------------------------------------------------------------------
\* Nothing has been sent, received or delivered at first.
LEMMA InitIInv == Init => IInv
<1> SUFFICES ASSUME Init PROVE IInv
  OBVIOUS
<1>1. TypeOK
  <2>1. << >> \in Seq(Byte) /\ << >> \in Seq(Msgs) /\ << >> \in Seq(Seq(Byte))
    OBVIOUS
  <2>2. starts \in Seq(0 .. Len(stream))
    <3>1. Len(stream) = 0  BY DEF Init
    <3>2. 0 \in 0 .. Len(stream)  BY <3>1
    <3>3. QED  BY <3>2 DEF Init
  <2>3. /\ arrived \in 0 .. Len(stream) /\ drained \in 0 .. arrived
    BY DEF Init
  <2>4. reading \in BOOLEAN /\ open \in BOOLEAN  BY Zenon DEF Init
  <2>5. QED  BY <2>1, <2>2, <2>3, <2>4 DEF Init, TypeOK
<1>2. Framed /\ AtFrame /\ InOrder /\ NoneWaits
  BY DEF Init, Framed, AtFrame, InOrder, NoneWaits
<1>3. QED  BY <1>1, <1>2 DEF IInv

\* A send only lengthens the stream, by the frame of the new body.
LEMMA SendStep ==
  ASSUME IInv, NEW m \in Msgs, sendTcp(m)
  PROVE  IInv'
<1> DEFINE F == Frame(m)
<1>1. F \in Seq(Byte) /\ Len(F) \in Nat  BY FrameProperties
<1>2. /\ stream \in Seq(Byte) /\ sent \in Seq(Msgs) /\ Len(stream) \in Nat
      /\ Len(sent) \in Nat /\ arrived \in Nat /\ drained \in Nat
      /\ got \in Seq(Seq(Byte)) /\ Len(got) \in Nat
      /\ starts \in Seq(0 .. Len(stream)) /\ Len(starts) = Len(sent) + 1
  BY DEF IInv, TypeOK, Framed
<1>3. /\ stream' = stream \o F /\ sent' = Append(sent, m)
      /\ starts' = Append(starts, Len(stream) + Len(F))
      /\ UNCHANGED <<arrived, drained, reading, open, got>>
  BY DEF sendTcp
<1> HIDE DEF F
<1>4. /\ stream' \in Seq(Byte) /\ Len(stream') = Len(stream) + Len(F)
      /\ \A k \in 1 .. Len(stream) : stream'[k] = stream[k]
      /\ \A k \in 1 .. Len(F) : stream'[Len(stream) + k] = F[k]
  <2>1. /\ stream \o F \in Seq(Byte)
        /\ Len(stream \o F) = Len(stream) + Len(F)
        /\ \A i \in 1 .. Len(stream) + Len(F) : (stream \o F)[i] =
              IF i <= Len(stream) THEN stream[i] ELSE F[i - Len(stream)]
    BY <1>1, <1>2, ConcatProperties
  <2>2. \A k \in 1 .. Len(F) : (stream \o F)[Len(stream) + k] = F[k]
    <3>1. TAKE k \in 1 .. Len(F)
    <3>2. /\ Len(stream) + k \in 1 .. Len(stream) + Len(F)
          /\ ~(Len(stream) + k <= Len(stream))
          /\ (Len(stream) + k) - Len(stream) = k
      BY <1>1, <1>2
    <3>3. QED  BY <2>1, <3>2
  <2>3. QED  BY <2>1, <2>2, <1>1, <1>2, <1>3
<1>5. /\ sent' \in Seq(Msgs) /\ Len(sent') = Len(sent) + 1
      /\ sent'[Len(sent) + 1] = m
      /\ \A i \in 1 .. Len(sent) : sent'[i] = sent[i]
  BY <1>2, <1>3
<1>6. /\ Len(starts') = Len(sent) + 2
      /\ starts'[Len(sent) + 2] = Len(stream) + Len(F)
      /\ \A i \in 1 .. Len(sent) + 1 : starts'[i] = starts[i]
  BY <1>2, <1>3
<1>7. starts' \in Seq(0 .. Len(stream'))
  <2>1. starts \in Seq(0 .. Len(stream'))
    <3>1. 0 .. Len(stream) \subseteq 0 .. Len(stream')  BY <1>1, <1>2, <1>4
    <3>2. QED  BY Zenon, <3>1, <1>2, SeqMonotonic
  <2>2. Len(stream) + Len(F) \in 0 .. Len(stream')  BY <1>1, <1>2, <1>4
  <2>3. QED  BY <2>1, <2>2, <1>3
<1>8. TypeOK'
  BY <1>1, <1>2, <1>3, <1>4, <1>5, <1>7 DEF IInv, TypeOK
<1>9. Framed'
  <2>1. Len(starts') = Len(sent') + 1 /\ starts'[Len(sent') + 1] = Len(stream')
    BY <1>2, <1>4, <1>5, <1>6
  <2>2. ASSUME NEW i \in 1 .. Len(sent')
        PROVE  /\ starts'[i + 1] = starts'[i] + Len(Frame(sent'[i]))
               /\ \A k \in 1 .. Len(Frame(sent'[i])) :
                    stream'[starts'[i] + k] = Frame(sent'[i])[k]
    <3>1. CASE i = Len(sent) + 1
      <4>1. starts'[i] = Len(stream) /\ sent'[i] = m
        BY <3>1, <1>2, <1>5, <1>6 DEF IInv, Framed
      <4>2. starts'[i + 1] = Len(stream) + Len(F)  BY <3>1, <1>2, <1>6
      <4>3. QED  BY <4>1, <4>2, <1>4 DEF F
    <3>2. CASE i \in 1 .. Len(sent)
      <4>1. /\ starts'[i] = starts[i] /\ starts'[i + 1] = starts[i + 1]
            /\ sent'[i] = sent[i]
        BY <3>2, <1>2, <1>5, <1>6
      <4>2. /\ starts[i + 1] = starts[i] + Len(Frame(sent[i]))
            /\ \A k \in 1 .. Len(Frame(sent[i])) :
                 stream[starts[i] + k] = Frame(sent[i])[k]
        BY <3>2 DEF IInv, Framed
      <4>3. /\ starts[i] \in 0 .. Len(stream) /\ starts[i + 1] \in 0 .. Len(stream)
            /\ Len(Frame(sent[i])) \in Nat
        <5>1. i \in 1 .. Len(starts) /\ i + 1 \in 1 .. Len(starts)  BY <3>2, <1>2
        <5>2. sent[i] \in Msgs  BY <3>2, <1>2
        <5>3. Frame(sent[i]) \in Seq(Byte)  BY <5>2, FrameProperties
        <5>4. Len(Frame(sent[i])) \in Nat  BY <5>3
        <5>5. starts[i] \in 0 .. Len(stream)  BY <5>1, <1>2
        <5>6. starts[i + 1] \in 0 .. Len(stream)  BY <5>1, <1>2
        <5>7. QED  BY <5>4, <5>5, <5>6
      <4>4. \A k \in 1 .. Len(Frame(sent[i])) : starts[i] + k \in 1 .. Len(stream)
        <5>1. TAKE k \in 1 .. Len(Frame(sent[i]))
        <5>2. k \in Nat /\ k >= 1 /\ k <= Len(Frame(sent[i]))  BY <4>3
        <5>3. starts[i] + k <= starts[i + 1]  BY <5>2, <4>2, <4>3
        <5>4. Len(stream) \in Nat  BY <1>2
        <5>5. starts[i] \in Nat /\ starts[i + 1] \in Nat
              /\ starts[i + 1] <= Len(stream)
          BY <4>3, <5>4
        <5>6. QED  BY <5>2, <5>3, <5>4, <5>5
      <4>5. QED  BY <4>1, <4>2, <4>4, <1>4
    <3>3. QED  BY <3>1, <3>2, <1>2, <1>5
  <2>3. QED  BY <2>1, <2>2 DEF Framed
<1>10. Len(got) <= Len(sent)  BY DEF IInv, InOrder
<1>11. AtFrame'
  <2>1. Len(got) + 1 \in 1 .. Len(sent) + 1  BY <1>2, <1>10
  <2>2. QED  BY <1>3, <1>6, <2>1 DEF IInv, AtFrame
<1>12. InOrder'  BY <1>2, <1>3, <1>5, <1>10 DEF IInv, InOrder
<1>13. NoneWaits'
  <2>1. CASE Len(got) < Len(sent)
    <3>1. /\ starts'[Len(got) + 2] = starts[Len(got) + 2]
          /\ sent'[Len(got) + 1] = sent[Len(got) + 1]
      <4>1. Len(got) + 2 \in 1 .. Len(sent) + 1 /\ Len(got) + 1 \in 1 .. Len(sent)
        BY <2>1, <1>2
      <4>2. QED  BY <4>1, <1>5, <1>6
    <3>2. QED  BY Zenon, <2>1, <3>1, <1>3 DEF IInv, NoneWaits
  <2>2. CASE Len(got) = Len(sent)
    <3>1. CASE Len(F) = 0
      BY <3>1, FrameProperties, HeadRoundTrip, MsgsAssumption DEF F, HeadLens
    <3>2. CASE Len(F) > 0
      <4>1. starts'[Len(got) + 2] = Len(stream) + Len(F)  BY <2>2, <1>6
      <4>2. arrived' < starts'[Len(got) + 2]
        BY <4>1, <3>2, <1>1, <1>2, <1>3 DEF IInv, TypeOK
      <4>3. QED  BY Zenon, <4>2, <1>3 DEF NoneWaits
    <3>3. QED  BY <3>1, <3>2, <1>1
  <2>3. QED  BY <2>1, <2>2, <1>2, <1>10
<1>14. QED  BY <1>8, <1>9, <1>11, <1>12, <1>13 DEF IInv

\* An arrival moves more of the stream into the buffer.
LEMMA ReadStep ==
  ASSUME IInv, workThreadReadCB
  PROVE  IInv'
<1>1. /\ arrived' \in arrived + 1 .. Len(stream) /\ open /\ reading' = TRUE
      /\ UNCHANGED <<stream, drained, open, sent, got, starts>>
  BY DEF workThreadReadCB
<1>2. TypeOK'
  <2>1. arrived' \in 0 .. Len(stream') /\ drained' \in 0 .. arrived'
    BY <1>1 DEF IInv, TypeOK
  <2>2. reading' \in BOOLEAN /\ open' \in BOOLEAN  BY <1>1, Zenon DEF IInv, TypeOK
  <2>3. QED  BY <1>1, <2>1, <2>2 DEF IInv, TypeOK
<1>3. Framed' /\ InOrder'  BY <1>1 DEF IInv, Framed, InOrder
<1>4. AtFrame'  BY <1>1 DEF IInv, AtFrame
<1>5. NoneWaits'  BY <1>1 DEF NoneWaits
<1>6. QED  BY <1>2, <1>3, <1>4, <1>5 DEF IInv

\* Leaving the loop: no whole frame is there, or the next body is refused.
LEMMA ReturnStep ==
  ASSUME IInv, dispTcpReturns
  PROVE  IInv'
<1>1. /\ reading /\ reading' = FALSE /\ (Parsed(buffer) => Body(buffer) \in Refused)
      /\ UNCHANGED <<stream, arrived, drained, open, sent, got, starts>>
  BY DEF dispTcpReturns
<1>2. TypeOK'
  <2>1. reading' \in BOOLEAN /\ open' \in BOOLEAN  BY <1>1, Zenon DEF IInv, TypeOK
  <2>2. QED  BY <1>1, <2>1 DEF IInv, TypeOK
<1>3. Framed' /\ InOrder'  BY <1>1 DEF IInv, Framed, InOrder
<1>4. AtFrame'  BY <1>1 DEF IInv, AtFrame
<1>5. NoneWaits'
  <2>1. SUFFICES ASSUME open, Len(got) < Len(sent)
                 PROVE  \/ arrived < starts[Len(got) + 2]
                        \/ sent[Len(got) + 1] \in Refused
    BY <1>1 DEF NoneWaits
  <2>2. CASE Parsed(buffer)  BY <2>1, <2>2, <1>1, NextFrame
  <2>3. CASE ~Parsed(buffer)
    <3>1. ~(arrived >= starts[Len(got) + 2])  BY <2>1, <2>3, NextFrame
    <3>2. arrived \in Int /\ starts[Len(got) + 2] \in Int
      <4>1. Len(got) + 2 \in 1 .. Len(starts)
        BY <2>1 DEF IInv, TypeOK, Framed
      <4>2. QED  BY <4>1 DEF IInv, TypeOK
    <3>3. QED  BY <3>1, <3>2
  <2>4. QED  BY <2>2, <2>3
<1>6. QED  BY <1>2, <1>3, <1>4, <1>5 DEF IInv

\* Delivering a frame hands over the next body and drains exactly its frame.
LEMMA DispStep ==
  ASSUME IInv, NEW closes \in BOOLEAN, dispTcp(closes)
  PROVE  /\ IInv'
         /\ open /\ Len(got) < Len(sent) /\ sent[Len(got) + 1] \notin Refused
         /\ got' = Append(got, sent[Len(got) + 1])
<1>1. /\ reading /\ Parsed(buffer) /\ Body(buffer) \notin Refused
      /\ got' = Append(got, Body(buffer))
      /\ UNCHANGED <<stream, arrived, sent, starts>>
  BY DEF dispTcp
<1>2. open  BY <1>1 DEF IInv, AtFrame
<1>3. Len(got) < Len(sent)  BY <1>1, <1>2, NothingLeft
<1>4. /\ Body(buffer) = sent[Len(got) + 1]
      /\ drained + ParsedLens(buffer) = starts[Len(got) + 2]
      /\ arrived >= starts[Len(got) + 2]
  BY <1>1, <1>2, <1>3, NextFrame
<1>5. /\ Len(got) \in Nat /\ Len(sent) \in Nat /\ got \in Seq(Seq(Byte))
      /\ sent[Len(got) + 1] \in Seq(Byte)
      /\ starts[Len(got) + 2] \in 0 .. Len(stream)
  <2>1. Len(got) \in Nat /\ Len(sent) \in Nat /\ got \in Seq(Seq(Byte))
    BY DEF IInv, TypeOK
  <2>2. Len(got) + 1 \in 1 .. Len(sent) /\ Len(got) + 2 \in 1 .. Len(starts)
    BY <2>1, <1>3 DEF IInv, Framed
  <2>3. sent[Len(got) + 1] \in Msgs  BY <2>2 DEF IInv, TypeOK
  <2>4. sent[Len(got) + 1] \in Seq(Byte)  BY <2>3, MsgsAssumption
  <2>5. starts \in Seq(0 .. Len(stream))  BY DEF IInv, TypeOK
  <2>6. starts[Len(got) + 2] \in 0 .. Len(stream)  BY <2>2, <2>5
  <2>7. QED  BY <2>1, <2>4, <2>6
<1>6. /\ Len(got') = Len(got) + 1 /\ got' \in Seq(Seq(Byte))
      /\ got'[Len(got) + 1] = sent[Len(got) + 1]
      /\ \A i \in 1 .. Len(got) : got'[i] = got[i]
  BY <1>1, <1>4, <1>5
<1>7. InOrder'
  <2>1. ASSUME NEW i \in 1 .. Len(got')
        PROVE  got'[i] = sent'[i] /\ sent'[i] \notin Refused
    <3>1. CASE i = Len(got) + 1  BY <3>1, <1>1, <1>4, <1>6
    <3>2. CASE i \in 1 .. Len(got)  BY <3>2, <1>1, <1>6 DEF IInv, InOrder
    <3>3. QED  BY <3>1, <3>2, <1>5, <1>6
  <2>2. QED  BY <2>1, <1>1, <1>3, <1>5, <1>6 DEF InOrder
<1>8. Framed'  BY <1>1 DEF IInv, Framed
<1>9. CASE closes
  <2>1. drained' = drained /\ open' = FALSE /\ reading' = FALSE
    BY Zenon, <1>9 DEF dispTcp
  <2>2. reading' \in BOOLEAN /\ open' \in BOOLEAN  BY Zenon, <2>1
  <2>3. TypeOK'  BY <1>1, <1>6, <2>1, <2>2 DEF IInv, TypeOK
  <2>4. AtFrame' /\ NoneWaits'  BY <2>1 DEF AtFrame, NoneWaits
  <2>5. QED  BY <2>3, <2>4, <1>1, <1>2, <1>3, <1>4, <1>7, <1>8 DEF IInv
<1>10. CASE ~closes
  <2>1. drained' = starts[Len(got) + 2] /\ open' = TRUE /\ reading' = TRUE
    BY Zenon, <1>10, <1>4 DEF dispTcp
  <2>2. reading' \in BOOLEAN /\ open' \in BOOLEAN  BY <2>1
  <2>3. drained' \in 0 .. arrived'
    BY <2>1, <1>1, <1>4, <1>5 DEF IInv, TypeOK
  <2>4. TypeOK'  BY <1>1, <1>6, <2>2, <2>3 DEF IInv, TypeOK
  <2>5. Len(got') + 1 = Len(got) + 2  BY <1>5, <1>6
  <2>6. AtFrame' /\ NoneWaits'  BY <2>1, <2>5, <1>1 DEF AtFrame, NoneWaits
  <2>7. QED  BY <2>4, <2>6, <1>1, <1>2, <1>3, <1>4, <1>7, <1>8 DEF IInv
<1>11. QED  BY <1>9, <1>10

\* Closing the link leaves the stream and what was delivered as they are.
LEMMA CloseStep ==
  ASSUME IInv, workThreadEventCB
  PROVE  IInv'
<1>1. /\ open' = FALSE /\ ~reading
      /\ UNCHANGED <<stream, arrived, drained, reading, sent, got, starts>>
  BY DEF workThreadEventCB
<1>2. TypeOK'
  <2>1. reading' \in BOOLEAN /\ open' \in BOOLEAN  BY <1>1, Zenon DEF IInv, TypeOK
  <2>2. QED  BY <1>1, <2>1 DEF IInv, TypeOK
<1>3. Framed' /\ InOrder'  BY <1>1 DEF IInv, Framed, InOrder
<1>4. AtFrame' /\ NoneWaits'  BY <1>1 DEF AtFrame, NoneWaits
<1>5. QED  BY <1>2, <1>3, <1>4 DEF IInv

\* Every step keeps the inductive invariant.
LEMMA NextIInv == IInv /\ [Next]_vars => IInv'
<1> SUFFICES ASSUME IInv, [Next]_vars PROVE IInv'
  OBVIOUS
<1>1. ASSUME NEW m \in Msgs, sendTcp(m) PROVE IInv'  BY <1>1, SendStep
<1>2. CASE workThreadReadCB  BY <1>2, ReadStep
<1>3. CASE dispTcpReturns  BY <1>3, ReturnStep
<1>4. ASSUME NEW closes \in BOOLEAN, dispTcp(closes) PROVE IInv'
  BY <1>4, DispStep
<1>5. CASE workThreadEventCB  BY <1>5, CloseStep
<1>6. CASE UNCHANGED vars
  BY <1>6 DEF vars, IInv, TypeOK, Framed, AtFrame, InOrder, NoneWaits
<1>7. QED  BY <1>1, <1>2, <1>3, <1>4, <1>5, <1>6 DEF Next

\* In every behaviour the variables stay in their ranges; delBuffer never takes out
\* more than has arrived.
THEOREM TypeCorrect == Spec => []TypeOK
<1>1. IInv => TypeOK  BY DEF IInv
<1>2. QED  BY <1>1, InitIInv, NextIInv, PTL DEF Spec

\* In every behaviour dispTcp has handed over a prefix of what sendTcp was given,
\* and none of it after a refused body.
THEOREM DeliveredInOrder == Spec => []InOrder
<1>1. IInv => InOrder  BY DEF IInv
<1>2. QED  BY <1>1, InitIInv, NextIInv, PTL DEF Spec

\* In every behaviour a read callback that has ended left no whole frame behind
\* that could have been delivered.
THEOREM NoFrameWaits == Spec => []NoneWaits
<1>1. IInv => NoneWaits  BY DEF IInv
<1>2. QED  BY <1>1, InitIInv, NextIInv, PTL DEF Spec

\* Every behaviour of the byte stream is one of the abstract channel, as far as
\* safety goes: each step is a step of Channel or leaves its variables alone.
THEOREM ImplementsChannel == Spec => C!Init /\ [][C!Next]_(C!vars)
<1>1. Init => C!Init  BY DEF Init, C!Init
<1>2. IInv /\ [Next]_vars => [C!Next]_(C!vars)
  <2> SUFFICES ASSUME IInv, [Next]_vars PROVE [C!Next]_(C!vars)
    OBVIOUS
  <2>1. ASSUME NEW m \in Msgs, sendTcp(m) PROVE C!Next
    BY <2>1 DEF sendTcp, C!Next, C!Send
  <2>2. ASSUME NEW closes \in BOOLEAN, dispTcp(closes) PROVE C!Next
    <3>1. /\ open /\ Len(got) < Len(sent) /\ sent[Len(got) + 1] \notin Refused
          /\ got' = Append(got, sent[Len(got) + 1])
      BY <2>2, DispStep
    <3>2. open' \in {TRUE, FALSE} /\ UNCHANGED sent
      BY Zenon, <2>2 DEF dispTcp
    <3>3. QED  BY Zenon, <3>1, <3>2 DEF C!Next, C!Deliver
  <2>3. CASE workThreadEventCB
    BY <2>3 DEF workThreadEventCB, C!Next, C!Close
  <2>4. CASE workThreadReadCB \/ dispTcpReturns \/ UNCHANGED vars
    BY <2>4 DEF workThreadReadCB, dispTcpReturns, vars, C!vars
  <2>5. QED  BY <2>1, <2>2, <2>3, <2>4 DEF Next
<1>3. QED  BY <1>1, <1>2, InitIInv, NextIInv, PTL DEF Spec

------------------------------------------------------------------------------
(***************************************************************************)
(* The websocket.  Before frame k + 1 of its stream, M[k] messages have    *)
(* been sent whole and F[k] fragments of the next one.                     *)
(***************************************************************************)

CONSTANTS Texts, Bad, Garbage, Stray, NoFrags, MaxFrames

VARIABLES status, unmasked, kept, pongs, msg, rest, spoiled

\* Its messages are Texts; stream, arrived, drained, reading, sent and got are here
\* the variables of that name in WebSock.
W == INSTANCE WebSock WITH Msgs <- Texts

\* Message i: sent, or the one under way.
Full(snt, ms, i) == IF i <= Len(snt) THEN snt[i] ELSE ms

\* A frame that belongs to no message, behind j fragments.
Idle(f, j) ==
  \/ f.op \notin W!Data
  \/ f.op = "CONTINUATION" /\ f.fin /\ f.data = Stray /\ j = 0

\* The frame of fragment j + 1 of w.
Piece(f, j, w) ==
  /\ f.op = IF j = 0 THEN "TEXT" ELSE "CONTINUATION"
  /\ j + 1 <= Len(w) /\ f.data = w[j + 1] /\ f.fin = (j + 1 = Len(w))

\* Message m + 1 has been sent or is under way.
Begun(m, snt, rs) == m < Len(snt) \/ (m = Len(snt) /\ rs # << >>)

FrameAt(M, F, k, str, snt, ms, rs) ==
  \/ Idle(str[k], F[k - 1]) /\ M[k] = M[k - 1] /\ F[k] = F[k - 1]
  \/ /\ Piece(str[k], F[k - 1], Full(snt, ms, M[k - 1] + 1))
     /\ IF str[k].fin
        THEN M[k - 1] < Len(snt) /\ M[k] = M[k - 1] + 1 /\ F[k] = 0
        ELSE /\ Begun(M[k - 1], snt, rs)
             /\ M[k] = M[k - 1] /\ F[k] = F[k - 1] + 1

Layout(M, F, str, snt, ms, rs) ==
  /\ M[0] = 0 /\ F[0] = 0
  /\ M[Len(str)] = Len(snt)
  /\ F[Len(str)] = IF rs = << >> THEN 0 ELSE Len(ms) - Len(rs)
  /\ \A k \in 0 .. Len(str) : F[k] > 0 => Begun(M[k], snt, rs)
  /\ \A k \in 1 .. Len(str) : FrameAt(M, F, k, str, snt, ms, rs)

------------------------------------------------------------------------------
(* The inductive invariant.                                                *)

Frames ==
  [op : {"HELLO"} \cup W!Data \cup W!Control, fin : BOOLEAN,
   data : W!Payloads \cup {Stray}]

WsTyped ==
  /\ status \in {"CONNECT", "LINKED", "CLOSED"}
  /\ stream \in Seq(Frames)
  /\ arrived \in 0 .. 2 * Len(stream) /\ drained \in 0 .. Len(stream)
  /\ sent \in Seq(Texts) /\ rest \in Seq(W!Payloads)
  /\ status = "CONNECT" =>
       /\ drained = 0 /\ rest = << >>
       /\ stream # << >> => stream[1].op = "HELLO"

\* The fragments to come are the last ones of the message under way.
Client ==
  rest # << >> =>
    /\ msg \in Texts /\ Len(rest) < Len(msg)
    /\ \A i \in 1 .. Len(rest) : rest[i] = msg[Len(msg) - Len(rest) + i]

\* What dispWebSock has handed over and kept is what it has drained.
WsAtFrame(M, F) ==
  /\ got \in Seq(Seq(W!Payloads)) /\ Len(got) = M[drained]
  /\ F[drained] = 0 => kept \in {NoFrags, << >>}
  /\ F[drained] > 0 =>
       /\ kept \in Seq(W!Payloads) /\ Len(kept) = F[drained]
       /\ \A i \in 1 .. Len(kept) :
            kept[i] = Full(sent, msg, M[drained] + 1)[i] /\ kept[i] \notin Bad

Told(M, F) ==
  /\ Layout(M, F, stream, sent, msg, rest)
  /\ status # "CLOSED" /\ ~spoiled => WsAtFrame(M, F)

WsInv ==
  /\ WsTyped /\ Client
  /\ \E M, F \in [0 .. Len(stream) -> Nat] : Told(M, F)

------------------------------------------------------------------------------
(* What the client sends.                                                  *)

\* Messages sent and the one under way are messages.
LEMMA FullIs ==
  ASSUME W!Assumptions, WsTyped, Client, NEW m \in Nat, Begun(m, sent, rest)
  PROVE  /\ Full(sent, msg, m + 1) \in Texts
         /\ Full(sent, msg, m + 1) \in Seq(W!Payloads)
<1>1. CASE m < Len(sent)
  <2>1. m + 1 \in 1 .. Len(sent)  BY <1>1 DEF WsTyped
  <2>2. sent[m + 1] \in Texts  BY <2>1 DEF WsTyped
  <2>3. QED  BY <2>1, <2>2 DEF Full, W!Assumptions
<1>2. CASE m = Len(sent) /\ rest # << >>
  BY <1>2 DEF Full, Client, W!Assumptions, WsTyped
<1>3. QED  BY <1>1, <1>2 DEF Begun

\* The places up to the next one.
LEMMA UpTo == \A n \in Nat : \A k \in 0 .. n + 1 : k \in 0 .. n \/ k = n + 1
OBVIOUS

\* N is M with a place added behind the last one.
Added(N, M, n, x) ==
  /\ N \in [0 .. n + 1 -> Nat]
  /\ N[n + 1] = x /\ \A k \in 0 .. n : N[k] = M[k]

LEMMA OneMore ==
  ASSUME NEW n \in Nat, NEW M \in [0 .. n -> Nat], NEW x \in Nat
  PROVE  \E N : Added(N, M, n, x)
<1> DEFINE N == [k \in 0 .. n + 1 |-> IF k = n + 1 THEN x ELSE M[k]]
<1>1. N \in [0 .. n + 1 -> Nat]  OBVIOUS
<1>2. N[n + 1] = x /\ \A k \in 0 .. n : N[k] = M[k]  OBVIOUS
<1>3. QED  BY <1>1, <1>2 DEF Added

\* What is sent, or under way, stays so when the client goes on.
Onward(snt, ms, rs, snt2, ms2, rs2) ==
  /\ Len(snt) <= Len(snt2)
  /\ \A i \in 1 .. Len(snt) : snt2[i] = snt[i]
  /\ rs # << >> =>
       /\ ms2 = ms
       /\ Len(snt) < Len(snt2) => snt2[Len(snt) + 1] = ms
       /\ Len(snt) = Len(snt2) => rs2 # << >>

LEMMA OnwardFull ==
  ASSUME NEW snt, NEW ms, NEW rs, NEW snt2, NEW ms2, NEW rs2, NEW m \in Nat,
         Len(snt) \in Nat, Len(snt2) \in Nat,
         Onward(snt, ms, rs, snt2, ms2, rs2), Begun(m, snt, rs)
  PROVE  /\ Full(snt2, ms2, m + 1) = Full(snt, ms, m + 1)
         /\ Begun(m, snt2, rs2)
         /\ m < Len(snt) => m < Len(snt2)
<1>1. CASE m < Len(snt)  BY <1>1 DEF Onward, Begun, Full
<1>2. CASE m = Len(snt) /\ rs # << >>
  <2>1. CASE Len(snt) < Len(snt2)  BY <1>2, <2>1 DEF Onward, Begun, Full
  <2>2. CASE Len(snt) = Len(snt2)  BY <1>2, <2>2 DEF Onward, Begun, Full
  <2>3. QED  BY <2>1, <2>2 DEF Onward
<1>3. QED  BY <1>1, <1>2 DEF Begun

\* Fragments of the message under way that have been sent.
Sent(ms, rs) == IF rs = << >> THEN 0 ELSE Len(ms) - Len(rs)

\* Frame f is the next one of the message under way, or of none.
FrameSent(f, snt, ms, rs, snt2, ms2, rs2) ==
  \/ /\ Idle(f, Sent(ms, rs))
     /\ Len(snt2) = Len(snt) /\ Sent(ms2, rs2) = Sent(ms, rs)
  \/ /\ Piece(f, Sent(ms, rs), Full(snt2, ms2, Len(snt) + 1))
     /\ IF f.fin
        THEN Len(snt2) = Len(snt) + 1 /\ Sent(ms2, rs2) = 0
        ELSE /\ Begun(Len(snt), snt2, rs2)
             /\ Len(snt2) = Len(snt) /\ Sent(ms2, rs2) = Sent(ms, rs) + 1

\* N and G are M and F with a place for frame f behind str.
Longer(M, F, N, G, str, f, str2, snt2, ms2, rs2) ==
  /\ Len(str) \in Nat /\ Len(str2) = Len(str) + 1 /\ str2[Len(str) + 1] = f
  /\ \A k \in 1 .. Len(str) : str2[k] = str[k]
  /\ M \in [0 .. Len(str) -> Nat] /\ F \in [0 .. Len(str) -> Nat]
  /\ N \in [0 .. Len(str) + 1 -> Nat] /\ G \in [0 .. Len(str) + 1 -> Nat]
  /\ \A k \in 0 .. Len(str) : N[k] = M[k] /\ G[k] = F[k]
  /\ N[Len(str) + 1] = Len(snt2) /\ G[Len(str) + 1] = Sent(ms2, rs2)

\* A frame behind the others: they keep their places and it gets its own.
LEMMA LayoutSend ==
  ASSUME NEW M, NEW F, NEW N, NEW G, NEW str, NEW f, NEW str2,
         NEW snt, NEW ms, NEW rs, NEW snt2, NEW ms2, NEW rs2,
         Longer(M, F, N, G, str, f, str2, snt2, ms2, rs2),
         Layout(M, F, str, snt, ms, rs), Onward(snt, ms, rs, snt2, ms2, rs2),
         FrameSent(f, snt, ms, rs, snt2, ms2, rs2),
         Len(snt) \in Nat, Len(snt2) \in Nat
  PROVE  Layout(N, G, str2, snt2, ms2, rs2)
<1> DEFINE n == Len(str)
<1>a. /\ n \in Nat /\ Len(str2) = n + 1 /\ str2[n + 1] = f
      /\ M \in [0 .. n -> Nat] /\ F \in [0 .. n -> Nat]
      /\ N \in [0 .. n + 1 -> Nat] /\ G \in [0 .. n + 1 -> Nat]
      /\ N[n + 1] = Len(snt2) /\ G[n + 1] = Sent(ms2, rs2)
  BY DEF Longer
<1>b. /\ \A k \in 1 .. n : str2[k] = str[k]
      /\ \A k \in 0 .. n : N[k] = M[k] /\ G[k] = F[k]
  BY DEF Longer
<1>c. n \in Nat  BY <1>a
<1> HIDE DEF n
<1>1. N[0] = 0 /\ G[0] = 0 /\ M[n] = Len(snt) /\ F[n] = Sent(ms, rs)
  <2>1. N[0] = M[0] /\ G[0] = F[0]  BY <1>b, <1>c
  <2>2. QED  BY <2>1 DEF Layout, Sent, n
<1>2. ASSUME NEW k \in 0 .. n + 1, G[k] > 0 PROVE Begun(N[k], snt2, rs2)
  <2>1. CASE k \in 0 .. n
    <3>1. Begun(M[k], snt, rs) /\ M[k] \in Nat /\ N[k] = M[k]
      BY Zenon, <2>1, <1>2, <1>a, <1>b DEF Layout, n
    <3>2. QED  BY <3>1, OnwardFull
  <2>2. CASE k = n + 1  BY <2>2, <1>2, <1>a DEF Begun, Sent
  <2>3. k \in 0 .. n \/ k = n + 1  BY ZenonT(30), <1>c, UpTo
  <2>4. QED  BY Zenon, <2>1, <2>2, <2>3
<1>3. ASSUME NEW k \in 1 .. n PROVE FrameAt(N, G, k, str2, snt2, ms2, rs2)
  <2>1. /\ FrameAt(M, F, k, str, snt, ms, rs) /\ str2[k] = str[k]
        /\ N[k] = M[k] /\ G[k] = F[k] /\ N[k - 1] = M[k - 1] /\ G[k - 1] = F[k - 1]
        /\ M[k - 1] \in Nat
    <3>1. k - 1 \in 0 .. n /\ k \in 0 .. n  BY <1>c
    <3>2. FrameAt(M, F, k, str, snt, ms, rs)  BY Zenon DEF Layout, n
    <3>3. M[k - 1] \in Nat  BY Zenon, <3>1, <1>a
    <3>4. N[k - 1] = M[k - 1] /\ G[k - 1] = F[k - 1]  BY Zenon, <3>1, <1>b
    <3>5. N[k] = M[k] /\ G[k] = F[k] /\ str2[k] = str[k]  BY Zenon, <3>1, <1>b
    <3>6. QED  BY Zenon, <3>2, <3>3, <3>4, <3>5
  <2>2. CASE Idle(str[k], F[k - 1]) /\ M[k] = M[k - 1] /\ F[k] = F[k - 1]
    BY Zenon, <2>1, <2>2 DEF FrameAt
  <2>3. CASE /\ Piece(str[k], F[k - 1], Full(snt, ms, M[k - 1] + 1))
             /\ IF str[k].fin
                THEN M[k - 1] < Len(snt) /\ M[k] = M[k - 1] + 1 /\ F[k] = 0
                ELSE /\ Begun(M[k - 1], snt, rs)
                     /\ M[k] = M[k - 1] /\ F[k] = F[k - 1] + 1
    <3>1. Begun(M[k - 1], snt, rs)  BY <2>3 DEF Begun
    <3>2. /\ Full(snt2, ms2, M[k - 1] + 1) = Full(snt, ms, M[k - 1] + 1)
          /\ Begun(M[k - 1], snt2, rs2)
          /\ M[k - 1] < Len(snt) => M[k - 1] < Len(snt2)
      <4>1. M[k - 1] \in Nat  BY <2>1
      <4> DEFINE m == M[k - 1]
      <4> HIDE DEF m
      <4>2. m \in Nat /\ Begun(m, snt, rs)  BY Zenon, <4>1, <3>1 DEF m
      <4>3. /\ Full(snt2, ms2, m + 1) = Full(snt, ms, m + 1) /\ Begun(m, snt2, rs2)
            /\ m < Len(snt) => m < Len(snt2)
        BY <4>2, OnwardFull
      <4>4. QED  BY Zenon, <4>3 DEF m
    <3>3. QED  BY Zenon, <2>1, <2>3, <3>2 DEF FrameAt
  <2>4. QED  BY <2>1, <2>2, <2>3 DEF FrameAt
<1>4. FrameAt(N, G, n + 1, str2, snt2, ms2, rs2)
  <2>1. /\ N[(n + 1) - 1] = Len(snt) /\ G[(n + 1) - 1] = Sent(ms, rs)
    <3>1. (n + 1) - 1 = n /\ n \in 0 .. n  BY <1>c
    <3>2. QED  BY Zenon, <3>1, <1>1, <1>b
  <2>2. CASE /\ Idle(f, Sent(ms, rs))
             /\ Len(snt2) = Len(snt) /\ Sent(ms2, rs2) = Sent(ms, rs)
    BY Zenon, <2>1, <2>2, <1>a DEF FrameAt
  <2>3. CASE /\ Piece(f, Sent(ms, rs), Full(snt2, ms2, Len(snt) + 1))
             /\ IF f.fin
                THEN Len(snt2) = Len(snt) + 1 /\ Sent(ms2, rs2) = 0
                ELSE /\ Begun(Len(snt), snt2, rs2)
                     /\ Len(snt2) = Len(snt) /\ Sent(ms2, rs2) = Sent(ms, rs) + 1
    <3>1. Len(snt2) = Len(snt) + 1 => Len(snt) < Len(snt2)  OBVIOUS
    <3>2. QED  BY Zenon, <2>1, <2>3, <3>1, <1>a DEF FrameAt
  <2>4. QED  BY <2>2, <2>3 DEF FrameSent
<1>5. \A k \in 1 .. n + 1 : FrameAt(N, G, k, str2, snt2, ms2, rs2)
  <2>1. ASSUME NEW k \in 1 .. n + 1 PROVE k \in 1 .. n \/ k = n + 1  BY <1>c
  <2>2. QED  BY <2>1, <1>3, <1>4
<1>6. QED  BY Zenon, <1>1, <1>2, <1>5, <1>a DEF Layout, Sent

\* The invariant after a frame has been sent.
LEMMA SendKeeps ==
  ASSUME W!Assumptions, WsInv, WsTyped', Client',
         NEW f \in Frames, stream' = Append(stream, f),
         UNCHANGED <<status, spoiled, got, kept, drained>>,
         Onward(sent, msg, rest, sent', msg', rest'),
         FrameSent(f, sent, msg, rest, sent', msg', rest'),
         Sent(msg', rest') \in Nat
  PROVE  WsInv'
<1>1. PICK M \in [0 .. Len(stream) -> Nat], F \in [0 .. Len(stream) -> Nat] :
        Told(M, F)
  BY DEF WsInv
<1> DEFINE n == Len(stream)
<1>2. /\ n \in Nat /\ Len(stream') = n + 1 /\ stream'[n + 1] = f
      /\ \A k \in 1 .. n : stream'[k] = stream[k]
  BY DEF WsInv, WsTyped
<1>3. /\ Len(sent) \in Nat /\ Len(sent') \in Nat /\ drained \in 0 .. n
      /\ M[drained] \in Nat
  <2>1. Len(sent) \in Nat /\ drained \in 0 .. n  BY DEF WsInv, WsTyped
  <2>2. Len(sent') \in Nat  BY DEF WsTyped
  <2>3. QED  BY <2>1, <2>2
<1>a. M \in [0 .. n -> Nat] /\ F \in [0 .. n -> Nat]  OBVIOUS
<1> HIDE DEF n
<1>b. PICK N : Added(N, M, n, Len(sent'))  BY <1>2, <1>3, <1>a, OneMore, Zenon
<1>c. PICK G : Added(G, F, n, Sent(msg', rest'))  BY <1>2, <1>a, OneMore, Zenon
<1>4. /\ N \in [0 .. n + 1 -> Nat] /\ N[n + 1] = Len(sent')
      /\ \A k \in 0 .. n : N[k] = M[k]
  BY <1>b DEF Added
<1>5. /\ G \in [0 .. n + 1 -> Nat] /\ G[n + 1] = Sent(msg', rest')
      /\ \A k \in 0 .. n : G[k] = F[k]
  BY <1>c DEF Added
<1>6. Layout(M, F, stream, sent, msg, rest)  BY <1>1 DEF Told
<1>7. Layout(N, G, stream', sent', msg', rest')
  <2>1. \A k \in 0 .. n : N[k] = M[k] /\ G[k] = F[k]  BY <1>4, <1>5
  <2>2. Longer(M, F, N, G, stream, f, stream', sent', msg', rest')
    BY <1>2, <1>4, <1>5, <2>1 DEF Longer, n
  <2>3. Len(sent) \in Nat /\ Len(sent') \in Nat  BY <1>3
  <2>4. QED  BY <1>6, <2>2, <2>3, LayoutSend, Zenon
<1>8. ASSUME status # "CLOSED", ~spoiled PROVE WsAtFrame(N, G)'
  <2>1. WsAtFrame(M, F)  BY <1>1, <1>8 DEF Told
  <2>2. N[drained] = M[drained] /\ G[drained] = F[drained]
    BY <1>3, <1>4, <1>5
  <2>3. CASE F[drained] > 0
    <3>1. Begun(M[drained], sent, rest)  BY <2>3, <1>3, <1>6 DEF Layout, n
    <3>2. Full(sent', msg', M[drained] + 1) = Full(sent, msg, M[drained] + 1)
      BY <3>1, <1>3, OnwardFull
    <3>3. QED  BY <2>1, <2>2, <2>3, <3>2 DEF WsAtFrame
  <2>4. CASE ~(F[drained] > 0)  BY <2>1, <2>2, <2>4 DEF WsAtFrame
  <2>5. QED  BY <2>3, <2>4
<1>9. Told(N, G)'  BY <1>7, <1>8 DEF Told
<1>10. N \in [0 .. Len(stream') -> Nat] /\ G \in [0 .. Len(stream') -> Nat]
  BY <1>2, <1>4, <1>5
<1>11. QED  BY <1>9, <1>10 DEF WsInv

\* The tail of a list of fragments.
LEMMA TailIs ==
  ASSUME NEW S, NEW f \in Seq(S), Len(f) >= 1
  PROVE  /\ Head(f) = f[1] /\ Head(f) \in S
         /\ Tail(f) \in Seq(S) /\ Len(Tail(f)) = Len(f) - 1
         /\ \A i \in 1 .. Len(f) - 1 : Tail(f)[i] = f[i + 1]
         /\ Tail(f) = << >> <=> Len(f) = 1
<1>1. f # << >>  OBVIOUS
<1>2. /\ Head(f) = f[1] /\ Head(f) \in S
      /\ Tail(f) \in Seq(S) /\ Len(Tail(f)) = Len(f) - 1
  BY <1>1
<1>3. \A i \in 1 .. Len(f) - 1 : Tail(f)[i] = f[i + 1]  BY <1>1
<1>4. Tail(f) = << >> <=> Len(f) = 1  BY <1>2
<1>5. QED  BY <1>2, <1>3, <1>4

\* f is what is left to send of message m.
LEMMA FragmentKeeps ==
  ASSUME W!Assumptions, WsInv, NEW op, NEW m \in Texts,
         NEW f, f \in Seq(W!Payloads), Len(f) \in 1 .. Len(m),
         \A i \in 1 .. Len(f) : f[i] = m[Len(m) - Len(f) + i],
         Sent(msg, rest) = Len(m) - Len(f),
         op = IF Len(f) = Len(m) THEN "TEXT" ELSE "CONTINUATION",
         rest # << >> => msg = m,
         W!sendFragment(op, m, f)
  PROVE  WsInv'
<1> DEFINE h == W!Frame(op, Len(f) = 1, Head(f))
<1>1. /\ stream' = Append(stream, h) /\ msg' = m /\ rest' = Tail(f)
      /\ sent' = IF Len(f) = 1 THEN Append(sent, m) ELSE sent
      /\ UNCHANGED <<status, drained, kept, arrived, got, spoiled>>
      /\ status = "LINKED"
  BY DEF W!sendFragment, W!session
<1>2. m \in Seq(W!Payloads) /\ Len(m) \in Nat  BY DEF W!Assumptions
<1>3. /\ Head(f) = f[1] /\ Head(f) \in W!Payloads
      /\ Tail(f) \in Seq(W!Payloads) /\ Len(Tail(f)) = Len(f) - 1
      /\ \A i \in 1 .. Len(f) - 1 : Tail(f)[i] = f[i + 1]
      /\ Tail(f) = << >> <=> Len(f) = 1
  BY <1>2, TailIs
<1>4. h \in Frames /\ h.op = op /\ h.fin = (Len(f) = 1) /\ h.data = f[1]
  <2>1. op \in {"HELLO"} \cup W!Data \cup W!Control  BY DEF W!Data
  <2>2. QED  BY <2>1, <1>3 DEF W!Frame, Frames
<1> HIDE DEF h
<1>5. /\ sent \in Seq(Texts) /\ Len(sent) \in Nat /\ stream \in Seq(Frames)
      /\ Len(stream) \in Nat /\ Len(stream') = Len(stream) + 1
      /\ stream' \in Seq(Frames)
      /\ arrived \in 0 .. 2 * Len(stream) /\ drained \in 0 .. Len(stream)
  <2>1. /\ sent \in Seq(Texts) /\ stream \in Seq(Frames)
        /\ arrived \in 0 .. 2 * Len(stream) /\ drained \in 0 .. Len(stream)
    BY DEF WsInv, WsTyped
  <2>2. stream' \in Seq(Frames) /\ Len(stream') = Len(stream) + 1
    BY <1>1, <1>4, <2>1
  <2>3. Len(sent) \in Nat /\ Len(stream) \in Nat  BY <2>1
  <2>4. QED  BY <2>1, <2>2, <2>3
<1>6. sent' \in Seq(Texts)  BY <1>1, <1>5
<1>7. WsTyped'
  <2>1. arrived' \in 0 .. 2 * Len(stream') /\ drained' \in 0 .. Len(stream')
    BY <1>1, <1>5
  <2>2. QED  BY <1>1, <1>3, <1>5, <1>6, <2>1 DEF WsTyped
<1>8. Client'
  <2>1. CASE Len(f) = 1  BY <2>1, <1>1, <1>3 DEF Client
  <2>2. CASE Len(f) # 1
    <3>1. Len(Tail(f)) < Len(m)  BY <1>2, <1>3
    <3>2. ASSUME NEW i \in 1 .. Len(Tail(f))
          PROVE  Tail(f)[i] = m[Len(m) - Len(Tail(f)) + i]
      <4>1. i \in 1 .. Len(f) - 1 /\ i + 1 \in 1 .. Len(f)  BY <1>2, <1>3
      <4>2. Tail(f)[i] = m[Len(m) - Len(f) + (i + 1)]  BY SMTT(30), <4>1, <1>3
      <4>3. Len(m) - Len(f) + (i + 1) = Len(m) - Len(Tail(f)) + i
        BY <4>1, <1>2, <1>3
      <4>4. QED  BY Zenon, <4>2, <4>3
    <3>3. QED  BY Zenon, <3>1, <3>2, <1>1 DEF Client
  <2>3. QED  BY <2>1, <2>2
<1>9. /\ Sent(msg', rest') = IF Len(f) = 1 THEN 0 ELSE Len(m) - Len(f) + 1
      /\ Sent(msg', rest') \in Nat
  <2>1. CASE Len(f) = 1  BY <2>1, <1>1, <1>3 DEF Sent
  <2>2. CASE Len(f) # 1
    <3>1. Sent(msg', rest') = Len(m) - (Len(f) - 1)  BY <2>2, <1>1, <1>3 DEF Sent
    <3>2. Len(m) - (Len(f) - 1) = Len(m) - Len(f) + 1 /\ Len(m) - Len(f) + 1 \in Nat
      BY <1>2
    <3>3. QED  BY <2>2, <3>1, <3>2
  <2>3. QED  BY <2>1, <2>2
<1>10. Onward(sent, msg, rest, sent', msg', rest')
  <2>1. CASE Len(f) = 1
    <3>1. sent' = Append(sent, m)  BY <2>1, <1>1
    <3>2. /\ Len(sent') = Len(sent) + 1 /\ sent'[Len(sent) + 1] = m
          /\ \A i \in 1 .. Len(sent) : sent'[i] = sent[i]
      BY <3>1, <1>5
    <3>3. QED  BY <3>2, <1>1, <1>5 DEF Onward
  <2>2. CASE Len(f) # 1
    <3>1. sent' = sent /\ rest' # << >> /\ msg' = m  BY <2>2, <1>1, <1>3
    <3>2. QED  BY <3>1, <1>5 DEF Onward
  <2>3. QED  BY <2>1, <2>2
<1>11. Full(sent', msg', Len(sent) + 1) = m
  BY <1>1, <1>5 DEF Full
<1>12. Piece(h, Len(m) - Len(f), m)
  <2>1. /\ Len(m) - Len(f) + 1 <= Len(m)
        /\ (Len(m) - Len(f) + 1 = Len(m)) = (Len(f) = 1)
        /\ (Len(m) - Len(f) = 0) = (Len(f) = Len(m))
    <3>1. Len(m) \in Nat /\ Len(f) \in 1 .. Len(m)  BY <1>2
    <3> DEFINE a == Len(m)
               b == Len(f)
    <3> HIDE DEF a, b
    <3>2. a \in Nat /\ b \in 1 .. a  BY <3>1 DEF a, b
    <3>3. /\ a - b + 1 <= a /\ (a - b + 1 = a) = (b = 1)
          /\ (a - b = 0) = (b = a)
      BY <3>2
    <3>4. QED  BY <3>3 DEF a, b
  <2>2. f[1] = m[Len(m) - Len(f) + 1]  BY <1>2
  <2>3. QED  BY <2>1, <2>2, <1>4 DEF Piece
<1>13. FrameSent(h, sent, msg, rest, sent', msg', rest')
  <2>1. CASE Len(f) = 1
    <3>1. h.fin /\ Sent(msg', rest') = 0  BY ZenonT(30), <2>1, <1>4, <1>9
    <3>2. Len(sent') = Len(sent) + 1  BY SMTT(30), <2>1, <1>1, <1>5
    <3>3. QED  BY <3>1, <3>2, <1>11, <1>12 DEF FrameSent
  <2>2. CASE Len(f) # 1
    <3>1. /\ ~h.fin /\ Len(sent') = Len(sent) /\ rest' # << >>
          /\ Sent(msg', rest') = Sent(msg, rest) + 1
      BY ZenonT(30), <2>2, <1>1, <1>3, <1>4, <1>9
    <3>2. Begun(Len(sent), sent', rest')  BY <3>1 DEF Begun
    <3>3. QED  BY <3>1, <3>2, <1>11, <1>12 DEF FrameSent
  <2>3. QED  BY SMTT(30), <2>1, <2>2
<1>14. QED  BY Zenon, <1>1, <1>4, <1>7, <1>8, <1>9, <1>10, <1>13, SendKeeps

\* The first frame of a message, or the next one of the message under way.
LEMMA MessageKeeps ==
  ASSUME W!Assumptions, WsInv, NEW m \in Texts, W!sendMessage(m)
  PROVE  WsInv'
<1>1. rest = << >> /\ W!sendFragment("TEXT", m, m)  BY DEF W!sendMessage
<1>2. m \in Seq(W!Payloads) /\ Len(m) \in 1 .. Len(m)
  BY DEF W!Assumptions
<1>3. /\ Sent(msg, rest) = Len(m) - Len(m)
      /\ \A i \in 1 .. Len(m) : m[i] = m[Len(m) - Len(m) + i]
  BY <1>1, <1>2 DEF Sent
<1>4. QED  BY <1>1, <1>2, <1>3, FragmentKeeps

LEMMA ContinuationKeeps ==
  ASSUME W!Assumptions, WsInv, W!sendContinuation
  PROVE  WsInv'
<1>1. rest # << >> /\ W!sendFragment("CONTINUATION", msg, rest)
  BY DEF W!sendContinuation
<1>2. /\ rest \in Seq(W!Payloads) /\ msg \in Texts /\ Len(rest) < Len(msg)
      /\ \A i \in 1 .. Len(rest) : rest[i] = msg[Len(msg) - Len(rest) + i]
  BY <1>1 DEF WsInv, WsTyped, Client
<1>3. Len(msg) \in Nat  BY <1>2 DEF W!Assumptions
<1>4. Len(rest) \in 1 .. Len(msg)  BY <1>1, <1>2, <1>3
<1>5. Sent(msg, rest) = Len(msg) - Len(rest)  BY <1>1 DEF Sent
<1>6. "CONTINUATION" = IF Len(rest) = Len(msg) THEN "TEXT" ELSE "CONTINUATION"
  BY <1>2, <1>3, <1>4
<1>7. QED  BY <1>1, <1>2, <1>4, <1>5, <1>6, FragmentKeeps

\* A frame of no message leaves the client where it is.
LEMMA IdleKeeps ==
  ASSUME W!Assumptions, WsInv, WsTyped', NEW f \in Frames,
         stream' = Append(stream, f), Idle(f, Sent(msg, rest)),
         UNCHANGED <<status, spoiled, got, kept, drained, sent, msg, rest>>
  PROVE  WsInv'
<1>1. Client'  BY DEF WsInv, Client
<1>2. Onward(sent, msg, rest, sent', msg', rest')
  BY DEF Onward, WsInv, WsTyped
<1>3. FrameSent(f, sent, msg, rest, sent', msg', rest')  BY DEF FrameSent
<1>4. Sent(msg', rest') \in Nat
  <2>1. CASE rest = << >>  BY <2>1 DEF Sent
  <2>2. CASE rest # << >>
    <3>1. Len(rest) \in Nat /\ Len(rest) < Len(msg) /\ msg \in Texts
      BY <2>2 DEF WsInv, WsTyped, Client
    <3>2. Len(msg) \in Nat  BY <3>1 DEF W!Assumptions
    <3>3. QED  BY <3>1, <3>2, <2>2 DEF Sent
  <2>3. QED  BY <2>1, <2>2
<1>5. QED  BY <1>1, <1>2, <1>3, <1>4, SendKeeps

\* The request of the handshake.
LEMMA ShakeKeeps ==
  ASSUME W!Assumptions, WsInv, NEW valid \in BOOLEAN, W!sendShakeHands(valid)
  PROVE  WsInv'
<1> DEFINE h == W!Frame("HELLO", valid, Stray)
<1>1. /\ stream = << >> /\ status = "CONNECT" /\ stream' = << h >>
      /\ UNCHANGED <<status, spoiled, got, kept, drained, arrived, sent, msg, rest>>
  BY DEF W!sendShakeHands, W!session
<1>2. h \in Frames /\ h.op = "HELLO"
  BY DEF W!Frame, Frames
<1>3. Idle(h, Sent(msg, rest))  BY <1>2 DEF Idle, W!Data
<1> HIDE DEF h
<1>4. stream' = Append(stream, h)  BY <1>1
<1>5. WsTyped'
  <2>1. stream' \in Seq(Frames) /\ Len(stream') = 1 /\ stream'[1] = h
    BY <1>1, <1>2
  <2>2. arrived = 0 /\ drained = 0  BY <1>1 DEF WsInv, WsTyped
  <2>3. arrived' \in 0 .. 2 * Len(stream') /\ drained' \in 0 .. Len(stream')
    BY <1>1, <2>1, <2>2
  <2>4. QED  BY <1>1, <1>2, <2>1, <2>2, <2>3 DEF WsInv, WsTyped
<1>6. QED  BY <1>1, <1>2, <1>3, <1>4, <1>5, IdleKeeps

\* A control frame, or a continuation outside a message.
LEMMA ControlKeeps ==
  ASSUME W!Assumptions, WsInv, NEW op \in W!Control \cup {"CONTINUATION"},
         W!sendControl(op)
  PROVE  WsInv'
<1> DEFINE h == W!Frame(op, TRUE, Stray)
<1>1. /\ status = "LINKED"
      /\ op = "CONTINUATION" => rest = << >>
      /\ stream' = Append(stream, h)
      /\ UNCHANGED <<status, spoiled, got, kept, drained, arrived, sent, msg, rest>>
  BY DEF W!sendControl, W!session
<1>2. h \in Frames /\ h.op = op /\ h.fin = TRUE /\ h.data = Stray
  BY DEF W!Frame, Frames, W!Data
<1>3. Idle(h, Sent(msg, rest))
  <2>1. CASE op = "CONTINUATION"  BY Zenon, <2>1, <1>1, <1>2 DEF Idle, Sent
  <2>2. CASE op \in W!Control  BY Zenon, <2>2, <1>2 DEF Idle, W!Data, W!Control
  <2>3. QED  BY Zenon, <2>1, <2>2
<1> HIDE DEF h
<1>4. WsTyped'
  <2>1. /\ stream \in Seq(Frames)
        /\ arrived \in 0 .. 2 * Len(stream) /\ drained \in 0 .. Len(stream)
    BY DEF WsInv, WsTyped
  <2>2. stream' \in Seq(Frames) /\ Len(stream') = Len(stream) + 1
    BY <1>1, <1>2, <2>1
  <2>3. arrived' \in 0 .. 2 * Len(stream') /\ drained' \in 0 .. Len(stream')
    BY <1>1, <2>1, <2>2
  <2>4. QED  BY <1>1, <2>2, <2>3 DEF WsInv, WsTyped
<1>5. QED  BY <1>1, <1>2, <1>3, <1>4, IdleKeeps

------------------------------------------------------------------------------
(* What dispWebSock reads.                                                 *)

\* A step of the session only: the frames are where they were.
LEMMA SessionKeeps ==
  ASSUME WsInv, UNCHANGED <<stream, sent, msg, rest>>,
         status' \in {"CONNECT", "LINKED", "CLOSED"},
         arrived' \in 0 .. 2 * Len(stream), drained' \in 0 .. Len(stream),
         status' = "CONNECT" => status = "CONNECT" /\ drained' = drained,
         \A M, F \in [0 .. Len(stream) -> Nat] :
           Told(M, F) /\ status' # "CLOSED" /\ ~spoiled' => WsAtFrame(M, F)'
  PROVE  WsInv'
<1>1. PICK M \in [0 .. Len(stream) -> Nat], F \in [0 .. Len(stream) -> Nat] :
        Told(M, F)
  BY DEF WsInv
<1>2. WsTyped'  BY DEF WsInv, WsTyped
<1>3. Client'  BY DEF WsInv, Client
<1>4. Told(M, F)'
  <2>1. Layout(M, F, stream, sent, msg, rest)'  BY <1>1 DEF Told, Layout, FrameAt
  <2>2. QED  BY SMTT(30), <1>1, <2>1 DEF Told
<1>5. QED  BY <1>2, <1>3, <1>4 DEF WsInv

\* A session that goes on with nothing taken out or handed over.
LEMMA QuietKeeps ==
  ASSUME WsInv, UNCHANGED <<stream, sent, msg, rest, status, drained, kept, got, spoiled>>,
         arrived' \in 0 .. 2 * Len(stream)
  PROVE  WsInv'
<1>1. ASSUME NEW M \in [0 .. Len(stream) -> Nat], NEW F \in [0 .. Len(stream) -> Nat],
             Told(M, F), status' # "CLOSED", ~spoiled'
      PROVE  WsAtFrame(M, F)'
  BY <1>1 DEF Told, WsAtFrame
<1>2. /\ status' \in {"CONNECT", "LINKED", "CLOSED"} /\ drained' \in 0 .. Len(stream)
      /\ status' = "CONNECT" => status = "CONNECT" /\ drained' = drained
  BY DEF WsInv, WsTyped
<1>3. QED  BY <1>1, <1>2, SessionKeeps

\* A session that is closed.
LEMMA CloseKeeps ==
  ASSUME WsInv, W!CloseLink
  PROVE  WsInv'
<1>1. /\ status' = "CLOSED"
      /\ UNCHANGED <<stream, sent, msg, rest, drained, arrived>>
  BY DEF W!CloseLink, W!client
<1>2. arrived' \in 0 .. 2 * Len(stream) /\ drained' \in 0 .. Len(stream)
  BY <1>1 DEF WsInv, WsTyped
<1>3. QED  BY <1>1, <1>2, SessionKeeps

\* Where the first frame in the buffer is.
LEMMA FirstFrame ==
  ASSUME WsInv, W!WholeFrame,
         NEW M \in [0 .. Len(stream) -> Nat], NEW F \in [0 .. Len(stream) -> Nat],
         Told(M, F)
  PROVE  /\ drained \in 0 .. Len(stream) /\ drained + 1 \in 1 .. Len(stream)
         /\ M[drained] \in Nat /\ F[drained] \in Nat
         /\ W!first \in Frames
         /\ \/ /\ Idle(W!first, F[drained])
               /\ M[drained + 1] = M[drained] /\ F[drained + 1] = F[drained]
            \/ /\ Piece(W!first, F[drained], Full(sent, msg, M[drained] + 1))
               /\ Begun(M[drained], sent, rest)
               /\ IF W!first.fin
                  THEN /\ M[drained] < Len(sent)
                       /\ M[drained + 1] = M[drained] + 1 /\ F[drained + 1] = 0
                  ELSE /\ M[drained + 1] = M[drained]
                       /\ F[drained + 1] = F[drained] + 1
<1>1. /\ stream \in Seq(Frames) /\ drained \in 0 .. Len(stream)
      /\ arrived \in 0 .. 2 * Len(stream)
  BY DEF WsInv, WsTyped
<1>2. drained + 1 \in 1 .. Len(stream)
  <2> DEFINE n == Len(stream)
  <2>1. n \in Nat /\ drained \in 0 .. n /\ arrived \in 0 .. 2 * n
    BY <1>1
  <2>2. arrived >= 2 * (drained + 1)  BY DEF W!WholeFrame
  <2> HIDE DEF n
  <2>3. drained + 1 \in 1 .. n  BY <2>1, <2>2
  <2>4. QED  BY <2>3 DEF n
<1>3. M[drained] \in Nat /\ F[drained] \in Nat  BY <1>1
<1>4. W!first \in Frames  BY <1>1, <1>2 DEF W!first
<1>5. FrameAt(M, F, drained + 1, stream, sent, msg, rest)
  BY <1>2 DEF Told, Layout
<1>6. (drained + 1) - 1 = drained  BY <1>1
<1>7. \/ /\ Idle(W!first, F[drained])
         /\ M[drained + 1] = M[drained] /\ F[drained + 1] = F[drained]
      \/ /\ Piece(W!first, F[drained], Full(sent, msg, M[drained] + 1))
         /\ IF W!first.fin
            THEN /\ M[drained] < Len(sent)
                 /\ M[drained + 1] = M[drained] + 1 /\ F[drained + 1] = 0
            ELSE /\ Begun(M[drained], sent, rest)
                 /\ M[drained + 1] = M[drained] /\ F[drained + 1] = F[drained] + 1
  BY <1>5, <1>6 DEF FrameAt, W!first
<1>8. M[drained] < Len(sent) => Begun(M[drained], sent, rest)  BY DEF Begun
<1>9. QED  BY Zenon, <1>1, <1>2, <1>3, <1>4, <1>7, <1>8

\* What Decode makes of a payload that is not masked again.
LEMMA DecodeIs ==
  ASSUME ~unmasked, NEW d \in UNION W!Decode
  PROVE  d = W!first.data /\ d \notin Bad
BY DEF W!Decode

\* The last frame of a message completes the next message of the client.
LEMMA LastPiece ==
  ASSUME W!Assumptions, WsInv, W!WholeFrame, status # "CLOSED", ~spoiled,
         NEW M \in [0 .. Len(stream) -> Nat], NEW F \in [0 .. Len(stream) -> Nat],
         Told(M, F), W!first.op \in W!Data, W!first.fin,
         W!first.data # Stray, W!first.data \notin Bad
  PROVE  /\ Len(got) < Len(sent)
         /\ W!Joined(W!first.data) = sent[Len(got) + 1]
         /\ sent[Len(got) + 1] \notin W!BadMsgs
         /\ sent[Len(got) + 1] \in Seq(W!Payloads)
         /\ M[drained + 1] = Len(got) + 1 /\ F[drained + 1] = 0
         /\ W!first.op # "CONTINUATION" => kept \in {NoFrags, << >>}
<1> DEFINE j == F[drained]
           m == M[drained]
           w == sent[m + 1]
           d == W!first.data
<1>1. /\ j \in Nat /\ m \in Nat
      /\ \/ Idle(W!first, j)
         \/ /\ Piece(W!first, j, Full(sent, msg, m + 1))
            /\ Begun(m, sent, rest) /\ m < Len(sent)
            /\ M[drained + 1] = m + 1 /\ F[drained + 1] = 0
  BY FirstFrame, Zenon
<1>2. ~Idle(W!first, j)  BY DEF Idle
<1>3. WsAtFrame(M, F)  BY DEF Told
<1>4. Len(got) = m /\ Len(sent) \in Nat  BY <1>3 DEF WsAtFrame, WsInv, WsTyped
<1>5. /\ m < Len(sent) /\ Full(sent, msg, m + 1) = w
  BY <1>1, <1>2, <1>4 DEF Full
<1>6. w \in Seq(W!Payloads) /\ w \in Texts
  BY <1>1, <1>2, <1>5, FullIs DEF WsInv
<1>7. /\ W!first.op = IF j = 0 THEN "TEXT" ELSE "CONTINUATION"
      /\ d = w[j + 1] /\ j + 1 = Len(w)
  <2>1. Piece(W!first, j, w)  BY Zenon, <1>1, <1>2, <1>5
  <2> HIDE DEF j, w
  <2>2. QED  BY Zenon, <2>1 DEF Piece
<1> HIDE DEF j, m, w, d
<1>8. d \in W!Payloads
  <2>1. j + 1 \in 1 .. Len(w)
    <3>1. j \in Nat /\ j + 1 = Len(w)  BY <1>1, <1>7
    <3>2. QED  BY <3>1
  <2>2. w[j + 1] \in W!Payloads  BY <2>1, <1>6
  <2>3. QED  BY Zenon, <2>2, <1>7
<1>9. CASE j = 0
  <2>1. W!first.op # "CONTINUATION" /\ kept \in {NoFrags, << >>}
    BY <1>9, <1>7, <1>3 DEF WsAtFrame, j
  <2>2. W!Joined(d) = << d >>  BY <2>1 DEF W!Joined
  <2>3. << d >> = w  BY <1>6, <1>7, <1>9
  <2>4. w \notin W!BadMsgs
    <3>1. DOMAIN << d >> = {1} /\ << d >>[1] = d /\ d \notin Bad  BY DEF d
    <3> HIDE DEF d
    <3>2. \A i \in DOMAIN w : w[i] \notin Bad  BY ZenonT(30), <2>3, <3>1
    <3>3. QED  BY Zenon, <3>2 DEF W!BadMsgs
  <2>5. QED
    BY Zenon, <2>1, <2>2, <2>3, <2>4, <1>1, <1>2, <1>4, <1>5, <1>6 DEF w, d
<1>10. CASE j > 0
  <2>1. /\ W!first.op = "CONTINUATION"
        /\ kept \in Seq(W!Payloads) /\ Len(kept) = j
        /\ \A i \in 1 .. j : kept[i] = w[i] /\ kept[i] \notin Bad
    BY <1>10, <1>7, <1>3, <1>5 DEF WsAtFrame, j, m
  <2>2. W!Joined(d) = Append(kept, d)  BY <2>1 DEF W!Joined
  <2>3. /\ Append(kept, d) \in Seq(W!Payloads) /\ Len(Append(kept, d)) = j + 1
        /\ Append(kept, d)[j + 1] = d
        /\ \A i \in 1 .. j : Append(kept, d)[i] = kept[i]
    BY <2>1, <1>8
  <2>4. \A i \in 1 .. j + 1 : i \in 1 .. j \/ i = j + 1  BY <1>1
  <2>5. \A i \in 1 .. Len(w) : Append(kept, d)[i] = w[i] /\ w[i] \notin Bad
    <3>1. d \notin Bad  BY DEF d
    <3>2. ASSUME NEW i \in 1 .. j + 1
          PROVE  Append(kept, d)[i] = w[i] /\ w[i] \notin Bad
      <4>1. CASE i \in 1 .. j  BY <4>1, <2>1, <2>3
      <4>2. CASE i = j + 1  BY <4>2, <3>1, <2>3, <1>7
      <4>3. QED  BY Zenon, <2>4, <4>1, <4>2
    <3>3. QED  BY Zenon, <3>2, <1>7
  <2>6. Append(kept, d) = w
    <3> DEFINE a == Append(kept, d)
    <3>1. /\ a \in Seq(W!Payloads) /\ Len(a) = Len(w)
          /\ \A i \in 1 .. Len(w) : a[i] = w[i]
      BY Zenon, <2>3, <2>5, <1>7
    <3> HIDE DEF a
    <3>2. a = w  BY <3>1, <1>6
    <3>3. QED  BY <3>2 DEF a
  <2>7. w \notin W!BadMsgs
    <3>1. DOMAIN w = 1 .. Len(w)  BY <1>6
    <3>2. QED  BY Zenon, <3>1, <2>5 DEF W!BadMsgs
  <2>8. QED
    BY SMTT(30), <2>1, <2>2, <2>6, <2>7, <1>1, <1>2, <1>4, <1>5, <1>6 DEF w, d
<1>11. QED  BY <1>1, <1>9, <1>10

\* A frame is drained and the session stays linked.
LEMMA DrainKeeps ==
  ASSUME WsInv, W!WholeFrame, status = "LINKED", W!Drain,
         \A M, F \in [0 .. Len(stream) -> Nat] :
           Told(M, F) /\ ~spoiled' => WsAtFrame(M, F)'
  PROVE  WsInv'
<1>1. /\ drained' = drained + 1
      /\ UNCHANGED <<status, stream, sent, msg, rest, arrived>>
  BY DEF W!Drain, W!client
<1>2. arrived' \in 0 .. 2 * Len(stream)  BY <1>1 DEF WsInv, WsTyped
<1>3. drained + 1 \in 0 .. Len(stream)
  <2>1. PICK M \in [0 .. Len(stream) -> Nat], F \in [0 .. Len(stream) -> Nat] :
          Told(M, F)
    BY DEF WsInv
  <2>2. QED  BY <2>1, FirstFrame
<1>4. QED  BY <1>1, <1>2, <1>3, SessionKeeps

\* A frame that is not taken for a piece of a message.
LEMMA DropKeeps ==
  ASSUME WsInv, W!WholeFrame, status = "LINKED", W!Drain, UNCHANGED <<kept, got, spoiled>>,
         \A M, F \in [0 .. Len(stream) -> Nat] :
           Told(M, F) /\ ~spoiled => ~Piece(W!first, F[drained], Full(sent, msg, M[drained] + 1))
  PROVE  WsInv'
<1>1. ASSUME NEW M \in [0 .. Len(stream) -> Nat], NEW F \in [0 .. Len(stream) -> Nat],
             Told(M, F), ~spoiled'
      PROVE  WsAtFrame(M, F)'
  <2>1. ~spoiled /\ WsAtFrame(M, F)  BY <1>1 DEF Told
  <2>2. M[drained + 1] = M[drained] /\ F[drained + 1] = F[drained]
    BY <2>1, <1>1, FirstFrame
  <2>3. drained' = drained + 1 /\ UNCHANGED <<sent, msg>>  BY DEF W!Drain, W!client
  <2>4. QED  BY <2>1, <2>2, <2>3 DEF WsAtFrame
<1>2. QED  BY <1>1, DrainKeeps

\* PING and PONG.
LEMMA controlKeeps ==
  ASSUME WsInv, W!control
  PROVE  WsInv'
<1>1. /\ status = "LINKED" /\ W!WholeFrame /\ W!first.op \in {"PING", "PONG"}
      /\ W!Drain /\ UNCHANGED <<kept, got, spoiled>>
  BY DEF W!control
<1>2. \A j, w : ~Piece(W!first, j, w)  BY <1>1 DEF Piece
<1>3. QED  BY <1>1, <1>2, DropKeeps

\* A final continuation with no entry in the map: in a session that has taken
\* every payload for what it is, it belongs to no message.
LEMMA dropFinalKeeps ==
  ASSUME W!Assumptions, WsInv, W!dropFinal
  PROVE  WsInv'
<1>1. /\ status = "LINKED" /\ W!WholeFrame
      /\ W!first.op = "CONTINUATION" /\ W!first.fin /\ kept = NoFrags
      /\ W!Drain /\ UNCHANGED <<kept, got, spoiled>>
  BY DEF W!dropFinal
<1>2. ASSUME NEW M \in [0 .. Len(stream) -> Nat], NEW F \in [0 .. Len(stream) -> Nat],
             Told(M, F), ~spoiled
      PROVE  ~Piece(W!first, F[drained], Full(sent, msg, M[drained] + 1))
  <2>1. F[drained] \in Nat  BY <1>1, <1>2, FirstFrame
  <2>2. ~(F[drained] > 0)
    BY <1>1, <1>2 DEF Told, WsAtFrame, W!Assumptions
  <2>3. F[drained] = 0  BY <2>1, <2>2
  <2>4. QED  BY <2>3, <1>1 DEF Piece
<1>3. QED  BY <1>1, <1>2, DropKeeps

\* The last frame of a message.
LEMMA finalFrameKeeps ==
  ASSUME W!Assumptions, WsInv, NEW closes \in BOOLEAN, W!finalFrame(closes)
  PROVE  WsInv'
<1>1. CASE closes  BY <1>1, CloseKeeps DEF W!finalFrame
<1>2. CASE ~closes
  <2>1. /\ status = "LINKED" /\ W!WholeFrame /\ W!first.op \in W!Data /\ W!first.fin
        /\ W!Drain /\ kept' = IF W!first.op = "CONTINUATION" THEN << >> ELSE kept
    BY <1>2 DEF W!finalFrame
  <2>2. PICK d \in UNION W!Decode :
          /\ spoiled' = (spoiled \/ unmasked \/ d = Stray)
          /\ got' = IF spoiled' THEN got ELSE Append(got, W!Joined(d))
    BY Zenon DEF W!finalFrame
  <2>3. ASSUME NEW M \in [0 .. Len(stream) -> Nat], NEW F \in [0 .. Len(stream) -> Nat],
               Told(M, F), ~spoiled'
        PROVE  WsAtFrame(M, F)'
    <3>1. ~spoiled /\ ~unmasked /\ d # Stray  BY <2>2, <2>3
    <3>2. d = W!first.data /\ d \notin Bad  BY Zenon, <3>1, DecodeIs
    <3>3. got \in Seq(Seq(W!Payloads))  BY <3>1, <2>1, <2>3 DEF Told, WsAtFrame
    <3>4. /\ W!Joined(d) = sent[Len(got) + 1]
          /\ sent[Len(got) + 1] \in Seq(W!Payloads)
          /\ M[drained + 1] = Len(got) + 1 /\ F[drained + 1] = 0
          /\ W!first.op # "CONTINUATION" => kept \in {NoFrags, << >>}
      BY <3>1, <3>2, <2>1, <2>3, LastPiece
    <3>5. got' = Append(got, sent[Len(got) + 1])  BY <2>2, <2>3, <3>4
    <3>6. got' \in Seq(Seq(W!Payloads)) /\ Len(got') = Len(got) + 1
      BY <3>3, <3>4, <3>5
    <3>7. drained' = drained + 1 /\ kept' \in {NoFrags, << >>}
      BY <2>1, <3>4 DEF W!Drain
    <3>8. Len(got') = M[drained'] /\ F[drained'] = 0  BY <3>4, <3>6, <3>7
    <3>9. QED  BY <3>6, <3>7, <3>8 DEF WsAtFrame
  <2>4. QED  BY <2>1, <2>3, DrainKeeps
<1>3. QED  BY <1>1, <1>2

\* A frame without FIN: the kept fragments are the ones before the next.
LEMMA addContinuationKeeps ==
  ASSUME W!Assumptions, WsInv, W!addContinuation
  PROVE  WsInv'
<1>1. /\ status = "LINKED" /\ W!WholeFrame /\ W!first.op \in W!Data /\ ~W!first.fin
      /\ W!Drain /\ UNCHANGED got
  BY DEF W!addContinuation
<1>2. PICK d \in UNION W!Decode :
        /\ kept' = IF kept = NoFrags THEN << d >> ELSE Append(kept, d)
        /\ spoiled' = (spoiled \/ unmasked \/ d = Stray)
  BY Zenon DEF W!addContinuation
<1>3. ASSUME NEW M \in [0 .. Len(stream) -> Nat], NEW F \in [0 .. Len(stream) -> Nat],
             Told(M, F), ~spoiled'
      PROVE  WsAtFrame(M, F)'
  <2> DEFINE j == F[drained]
             m == M[drained]
             w == Full(sent, msg, m + 1)
  <2>1. ~spoiled /\ ~unmasked /\ d # Stray  BY Zenon, <1>2, <1>3
  <2>2. d = W!first.data /\ d \notin Bad  BY Zenon, <2>1, DecodeIs
  <2>3. ~Idle(W!first, j)  BY <1>1 DEF Idle
  <2>4. /\ j \in Nat /\ m \in Nat
        /\ Piece(W!first, j, w) /\ Begun(m, sent, rest)
        /\ M[drained + 1] = m /\ F[drained + 1] = j + 1
    BY <1>1, <1>3, <2>3, FirstFrame
  <2>5. w \in Seq(W!Payloads)  BY <2>4, FullIs DEF WsInv
  <2>6. d = w[j + 1] /\ j + 1 \in 1 .. Len(w)  BY <2>2, <2>4, <2>5 DEF Piece
  <2>7. d \in W!Payloads  BY <2>5, <2>6
  <2>8. WsAtFrame(M, F)  BY <1>1, <1>3, <2>1 DEF Told
  <2>9. /\ got \in Seq(Seq(W!Payloads)) /\ Len(got) = m
        /\ drained' = drained + 1 /\ UNCHANGED <<sent, msg>>
    BY <1>1, <2>8 DEF WsAtFrame, W!Drain, W!client
  <2>10. /\ kept' \in Seq(W!Payloads) /\ Len(kept') = j + 1
         /\ \A i \in 1 .. j + 1 : kept'[i] = w[i] /\ kept'[i] \notin Bad
    <3>1. CASE j = 0
      <4>1. kept \in {NoFrags, << >>}  BY <3>1, <2>8 DEF WsAtFrame
      <4>2. kept' = << d >>
        <5>1. Append(<< >>, d) = << d >>  OBVIOUS
        <5>2. QED  BY Zenon, <5>1, <4>1, <1>2
      <4>3. kept' \in Seq(W!Payloads) /\ Len(kept') = 1 /\ kept'[1] = d
        BY <4>2, <2>7
      <4>4. QED  BY <4>3, <3>1, <2>2, <2>6
    <3>2. CASE j > 0
      <4>1. /\ kept \in Seq(W!Payloads) /\ Len(kept) = j
            /\ \A i \in 1 .. j : kept[i] = w[i] /\ kept[i] \notin Bad
        BY <3>2, <2>8 DEF WsAtFrame
      <4>2. kept' = Append(kept, d)  BY <4>1, <1>2 DEF W!Assumptions
      <4>3. /\ kept' \in Seq(W!Payloads) /\ Len(kept') = j + 1 /\ kept'[j + 1] = d
            /\ \A i \in 1 .. j : kept'[i] = kept[i]
        BY <4>1, <4>2, <2>7
      <4>4. \A i \in 1 .. j + 1 : i \in 1 .. j \/ i = j + 1  BY <2>4
      <4>5. QED  BY Zenon, <4>1, <4>3, <4>4, <2>2, <2>6
    <3>3. j = 0 \/ j > 0  BY <2>4
    <3>4. QED  BY Zenon, <3>1, <3>2, <3>3
  <2> HIDE DEF j, m, w
  <2>11. w = Full(sent', msg', M[drained'] + 1)  BY <2>4, <2>9 DEF w
  <2>12. M[drained'] = m /\ F[drained'] = j + 1 /\ F[drained'] > 0  BY <2>4, <2>9
  <2>13. got' \in Seq(Seq(W!Payloads)) /\ Len(got') = M[drained']
    BY <1>1, <2>9, <2>12
  <2>14. QED  BY <2>10, <2>11, <2>12, <2>13 DEF WsAtFrame
<1>4. QED  BY <1>1, <1>3, DrainKeeps

\* The answer to the handshake: the request is drained and is no message.
LEMMA shakeHandsKeeps ==
  ASSUME WsInv, W!shakeHands
  PROVE  WsInv'
<1>1. CASE W!Return
  <2>1. UNCHANGED <<stream, sent, msg, rest, status, drained, kept, got, spoiled, arrived>>
    BY <1>1 DEF W!Return, W!client
  <2>2. arrived' \in 0 .. 2 * Len(stream)  BY <2>1 DEF WsInv, WsTyped
  <2>3. QED  BY <2>1, <2>2, QuietKeeps
<1>2. CASE W!CloseLink  BY <1>2, CloseKeeps
<1>3. CASE /\ W!WholeFrame /\ W!first.fin
           /\ status' = "LINKED" /\ drained' = 1 /\ reading' = FALSE
           /\ UNCHANGED <<kept, pongs, W!client, arrived, got, spoiled>>
  <2>1. UNCHANGED <<stream, sent, msg, rest, kept, got, spoiled, arrived>>
    BY <1>3 DEF W!client
  <2>2. status = "CONNECT"  BY DEF W!shakeHands
  <2>3. drained = 0 /\ rest = << >>  BY <2>2 DEF WsInv, WsTyped
  <2>4. PICK M \in [0 .. Len(stream) -> Nat], F \in [0 .. Len(stream) -> Nat] :
          Told(M, F)
    BY DEF WsInv
  <2>5. drained + 1 \in 1 .. Len(stream)  BY <2>4, <1>3, FirstFrame
  <2>6. 1 \in 1 .. Len(stream)  BY <2>3, <2>5
  <2>7. stream \in Seq(Frames)  BY DEF WsInv, WsTyped
  <2>8. W!first.op = "HELLO"
    <3>1. stream # << >>  BY <2>6, <2>7
    <3>2. stream[1].op = "HELLO"  BY <3>1, <2>2 DEF WsInv, WsTyped
    <3>3. QED  BY <3>2, <2>3 DEF W!first
  <2>9. \A j, w : ~Piece(W!first, j, w)  BY <2>8 DEF Piece
  <2>10. ASSUME NEW N \in [0 .. Len(stream) -> Nat],
                NEW G \in [0 .. Len(stream) -> Nat], Told(N, G), ~spoiled'
         PROVE  WsAtFrame(N, G)'
    <3>1. WsAtFrame(N, G)  BY <2>10, <2>1, <2>2 DEF Told
    <3>2. N[drained + 1] = N[drained] /\ G[drained + 1] = G[drained]
      BY Zenon, <2>9, <2>10, <1>3, FirstFrame
    <3>3. drained' = drained + 1  BY <1>3, <2>3
    <3>4. QED  BY <3>1, <3>2, <3>3, <2>1 DEF WsAtFrame
  <2>11. arrived' \in 0 .. 2 * Len(stream) /\ drained' \in 0 .. Len(stream)
    <3>1. arrived' \in 0 .. 2 * Len(stream)  BY <2>1 DEF WsInv, WsTyped
    <3>2. Len(stream) \in Nat  BY <2>7
    <3>3. QED  BY <3>1, <3>2, <2>6, <1>3
  <2>12. QED  BY <2>1, <2>10, <2>11, <1>3, SessionKeeps
<1>4. QED  BY Zenon, <1>1, <1>2, <1>3 DEF W!shakeHands

\* The steps that only start or end a callback.
LEMMA CallbackKeeps ==
  ASSUME WsInv, W!workThreadReadCB \/ W!noFrame \/ W!decodeFails \/ UNCHANGED W!vars
  PROVE  WsInv'
<1>1. UNCHANGED <<stream, sent, msg, rest, status, drained, kept, got, spoiled>>
  BY DEF W!workThreadReadCB, W!noFrame, W!decodeFails, W!Return, W!client, W!vars, W!session
<1>2. arrived' \in 0 .. 2 * Len(stream)
  <2>1. CASE W!workThreadReadCB
    <3>1. arrived \in Nat /\ Len(stream) \in Nat  BY DEF WsInv, WsTyped
    <3>2. arrived' \in arrived + 1 .. 2 * Len(stream)  BY <2>1 DEF W!workThreadReadCB
    <3>3. QED  BY <3>1, <3>2
  <2>2. CASE arrived' = arrived  BY <2>2 DEF WsInv, WsTyped
  <2>3. QED
    BY <2>1, <2>2 DEF W!noFrame, W!decodeFails, W!Return, W!vars
<1>3. QED  BY <1>1, <1>2, QuietKeeps

\* The steps that close the session outside a message.
LEMMA ClosedKeeps ==
  ASSUME WsInv, W!closeFrame \/ W!workThreadEventCB
  PROVE  WsInv'
BY CloseKeeps DEF W!closeFrame, W!workThreadEventCB

\* The invariant holds at first.
LEMMA WsInitInv ==
  ASSUME W!Assumptions, W!Init
  PROVE  WsInv
<1>1. /\ status = "CONNECT" /\ stream = << >> /\ arrived = 0 /\ drained = 0
      /\ kept = NoFrags /\ rest = << >> /\ sent = << >> /\ got = << >>
  BY DEF W!Init
<1>2. WsTyped  BY <1>1 DEF WsTyped
<1>3. Client  BY <1>1 DEF Client
<1> DEFINE Z == [k \in 0 .. Len(stream) |-> 0]
<1>4. Z \in [0 .. Len(stream) -> Nat] /\ Len(stream) = 0 /\ Z[0] = 0
  BY <1>1
<1> HIDE DEF Z
<1>5. Layout(Z, Z, stream, sent, msg, rest)  BY <1>1, <1>4 DEF Layout
<1>6. WsAtFrame(Z, Z)  BY <1>1, <1>4 DEF WsAtFrame
<1>7. Told(Z, Z)  BY <1>5, <1>6 DEF Told
<1>8. QED  BY <1>2, <1>3, <1>4, <1>7 DEF WsInv

\* Every step keeps it.
LEMMA WsNextInv ==
  ASSUME W!Assumptions, WsInv, [W!Next]_(W!vars)
  PROVE  WsInv'
<1>1. ASSUME NEW valid \in BOOLEAN, W!sendShakeHands(valid) PROVE WsInv'
  BY <1>1, ShakeKeeps
<1>2. ASSUME NEW m \in Texts, W!sendMessage(m) PROVE WsInv'  BY <1>2, MessageKeeps
<1>3. CASE W!sendContinuation  BY <1>3, ContinuationKeeps
<1>4. ASSUME NEW op \in W!Control \cup {"CONTINUATION"}, W!sendControl(op)
      PROVE  WsInv'
  BY <1>4, ControlKeeps
<1>5. CASE W!dispWebSock
  <2>1. ASSUME NEW closes \in BOOLEAN, W!finalFrame(closes) PROVE WsInv'
    BY <2>1, finalFrameKeeps
  <2>2. QED
    BY <2>1, <1>5, shakeHandsKeeps, CallbackKeeps, ClosedKeeps, controlKeeps,
       dropFinalKeeps, addContinuationKeeps DEF W!dispWebSock
<1>6. CASE W!workThreadReadCB \/ UNCHANGED W!vars  BY <1>6, CallbackKeeps
<1>7. CASE W!workThreadEventCB  BY <1>7, ClosedKeeps
<1>8. QED  BY <1>1, <1>2, <1>3, <1>4, <1>5, <1>6, <1>7 DEF W!Next

------------------------------------------------------------------------------
(* The refinement.                                                         *)

\* The channel's variables in a step of the client.
LEMMA SendImplements ==
  ASSUME NEW op, NEW m \in Texts, NEW f, W!sendFragment(op, m, f)
  PROVE  [W!C!Next]_(W!C!vars)
<1>1. /\ UNCHANGED <<got, status, spoiled>>
      /\ sent' = Append(sent, m) \/ sent' = sent
  BY DEF W!sendFragment, W!session
<1>2. CASE sent' = Append(sent, m)  BY <1>1, <1>2 DEF W!C!Next, W!C!Send
<1>3. CASE sent' = sent  BY <1>1, <1>3 DEF W!C!vars
<1>4. QED  BY <1>1, <1>2, <1>3

\* A session that is closed or spoiled without handing over a message.
LEMMA CloseImplements ==
  ASSUME UNCHANGED <<sent, got>>, status' = "CLOSED" \/ spoiled' = TRUE
  PROVE  [W!C!Next]_(W!C!vars)
<1>1. (status # "CLOSED" /\ ~spoiled)' = FALSE  OBVIOUS
<1>2. CASE status # "CLOSED" /\ ~spoiled  BY <1>1, <1>2 DEF W!C!Next, W!C!Close
<1>3. CASE ~(status # "CLOSED" /\ ~spoiled)  BY <1>1, <1>3 DEF W!C!vars
<1>4. QED  BY <1>2, <1>3

\* The last frame of a message hands the next message of the client over, unless
\* it spoils the session or finds it spoiled.
LEMMA FinalImplements ==
  ASSUME W!Assumptions, WsInv, NEW closes \in BOOLEAN, W!finalFrame(closes)
  PROVE  [W!C!Next]_(W!C!vars)
<1>1. /\ status = "LINKED" /\ W!WholeFrame /\ W!first.op \in W!Data /\ W!first.fin
      /\ UNCHANGED sent
  BY Zenon DEF W!finalFrame, W!CloseLink, W!Drain, W!client
<1>2. PICK d \in UNION W!Decode :
        /\ spoiled' = (spoiled \/ unmasked \/ d = Stray)
        /\ got' = IF spoiled' THEN got ELSE Append(got, W!Joined(d))
  BY Zenon DEF W!finalFrame
<1>3. CASE spoiled'  BY Zenon, <1>1, <1>2, <1>3, CloseImplements
<1>4. CASE ~spoiled'
  <2>1. ~spoiled /\ ~unmasked /\ d # Stray  BY Zenon, <1>2, <1>4
  <2>2. d = W!first.data /\ d \notin Bad  BY <2>1, DecodeIs
  <2>3. PICK M \in [0 .. Len(stream) -> Nat], F \in [0 .. Len(stream) -> Nat] :
          Told(M, F)
    BY DEF WsInv
  <2>4. /\ Len(got) < Len(sent)
        /\ W!Joined(d) = sent[Len(got) + 1]
        /\ sent[Len(got) + 1] \notin W!BadMsgs
    BY <1>1, <2>1, <2>2, <2>3, LastPiece
  <2>5. got' = Append(got, sent[Len(got) + 1])  BY <1>2, <1>4, <2>4
  <2>6. (status # "CLOSED" /\ ~spoiled)' \in {TRUE, FALSE}  OBVIOUS
  <2>7. W!C!Deliver  BY Zenon, <1>1, <2>1, <2>4, <2>5, <2>6 DEF W!C!Deliver
  <2>8. QED  BY <2>7 DEF W!C!Next
<1>5. QED  BY <1>3, <1>4

\* The other steps close the channel or leave it alone.
LEMMA QuietImplements ==
  ASSUME \/ \E valid \in BOOLEAN : W!sendShakeHands(valid)
         \/ \E op \in W!Control \cup {"CONTINUATION"} : W!sendControl(op)
         \/ W!workThreadReadCB \/ W!workThreadEventCB \/ UNCHANGED W!vars
         \/ W!shakeHands \/ W!noFrame \/ W!closeFrame \/ W!control \/ W!decodeFails
         \/ W!dropFinal \/ W!addContinuation
  PROVE  [W!C!Next]_(W!C!vars)
<1>1. UNCHANGED <<sent, got>>
  BY Zenon DEF W!sendShakeHands, W!sendControl, W!workThreadReadCB, W!workThreadEventCB,
         W!vars, W!client, W!shakeHands, W!noFrame, W!closeFrame, W!control,
         W!decodeFails, W!dropFinal, W!addContinuation, W!Return, W!CloseLink, W!Drain
<1>2. \/ status' = "CLOSED" \/ spoiled' = TRUE
      \/ (status # "CLOSED" /\ ~spoiled)' = (status # "CLOSED" /\ ~spoiled)
  <2>1. CASE W!closeFrame \/ W!workThreadEventCB
    BY <2>1 DEF W!closeFrame, W!workThreadEventCB, W!CloseLink
  <2>2. CASE W!shakeHands
    BY <2>2 DEF W!shakeHands, W!Return, W!CloseLink
  <2>3. CASE W!addContinuation
    BY Zenon, <2>3 DEF W!addContinuation, W!Drain
  <2>4. CASE UNCHANGED <<status, spoiled>>  BY <2>4
  <2>5. QED
    BY Zenon, <2>1, <2>2, <2>3, <2>4 DEF W!sendShakeHands, W!sendControl, W!workThreadReadCB,
         W!vars, W!session, W!noFrame, W!control, W!decodeFails, W!dropFinal,
         W!Return, W!Drain
<1>3. CASE status' = "CLOSED" \/ spoiled' = TRUE  BY Zenon, <1>1, <1>3, CloseImplements
<1>4. CASE (status # "CLOSED" /\ ~spoiled)' = (status # "CLOSED" /\ ~spoiled)
  BY <1>1, <1>4 DEF W!C!vars
<1>5. QED  BY Zenon, <1>2, <1>3, <1>4

\* Every behaviour of the websocket is one of the abstract channel, as far as safety
\* goes: whatever the fragments and the frames between them, dispWebSock hands the
\* scripts the next message of the client, whole, or leaves the channel alone.
THEOREM WebSockImplementsChannel ==
  ASSUME W!Assumptions PROVE W!Spec => W!ChannelSafe
<1>1. W!Init => W!C!Init /\ WsInv
  <2>1. ASSUME W!Init PROVE W!C!Init  BY <2>1 DEF W!Init, W!C!Init
  <2>2. QED  BY <2>1, WsInitInv
<1>2. WsInv /\ [W!Next]_(W!vars) => WsInv'  BY WsNextInv
<1>3. WsInv /\ [W!Next]_(W!vars) => [W!C!Next]_(W!C!vars)
  <2> SUFFICES ASSUME WsInv, [W!Next]_(W!vars) PROVE [W!C!Next]_(W!C!vars)
    OBVIOUS
  <2>1. ASSUME NEW m \in Texts, W!sendMessage(m) PROVE [W!C!Next]_(W!C!vars)
    BY <2>1, SendImplements DEF W!sendMessage
  <2>2. CASE W!sendContinuation
    <3>1. msg \in Texts  BY <2>2 DEF W!sendContinuation, WsInv, Client
    <3>2. QED  BY <3>1, <2>2, SendImplements DEF W!sendContinuation
  <2>3. ASSUME NEW closes \in BOOLEAN, W!finalFrame(closes)
        PROVE  [W!C!Next]_(W!C!vars)
    BY <2>3, FinalImplements
  <2>4. QED  BY <2>1, <2>2, <2>3, QuietImplements DEF W!Next, W!dispWebSock
<1>4. QED  BY <1>1, <1>2, <1>3, PTL DEF W!Spec, W!ChannelSafe, W!C!Safety
==============================================================================
