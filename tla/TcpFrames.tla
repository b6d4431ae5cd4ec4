------------------------------ MODULE TcpFrames ------------------------------
(***************************************************************************)
(* One direction of a TCP session: CSessionManager::sendTcp frames each    *)
(* message with CTcpParser::createHead and appends it to a byte stream;    *)
(* the stream reaches the peer's input buffer in pieces of any size; each  *)
(* arrival runs workThreadReadCB, whose dispTcp takes frames off the front *)
(* with CTcpParser::parsePack until what is left is not a whole frame.     *)
(*                                                                         *)
(* A byte is a number below Base (256 in the code); lengths up to Short    *)
(* (125) are their own head, the flag Short + 1 announces two length       *)
(* bytes, Short + 2 a size_t of eight.  The bytes themselves are modelled, *)
(* so that a body that looks like a head is told apart from a head only by *)
(* its position, as in the code.                                           *)
(***************************************************************************)
EXTENDS Integers, Sequences

CONSTANTS
  Base,      \* number of values of a byte
  Short,     \* TCPBUFLENS_125
  Msgs,      \* bodies a script may send: sequences of bytes
  Refused,   \* bodies the receiver's CCommEncrypt::Decode answers with NULL
  MaxSent    \* bound: messages sent in a behaviour

Byte == 0 .. Base - 1

ASSUME BaseAssumption == Base \in Nat /\ Short \in Nat /\ Short + 3 <= Base

\* A script's message has a 32 bit length (sendTcp's uiLens).
ASSUME MsgsAssumption ==
  /\ \A m \in Msgs : m \in Seq(Byte) /\ Len(m) < Base * Base * Base * Base
  /\ Refused \subseteq Msgs

ASSUME MaxSentAssumption == MaxSent \in Nat

VARIABLES
  stream,    \* every byte the sender has written
  arrived,   \* how many of them have reached the receiver's input buffer
  drained,   \* how many of those delBuffer has taken out of it again
  reading,   \* the receiver is inside workThreadReadCB
  open,      \* the receiver's session is not SESSSTATUS_CLOSED
  sent,      \* bodies sent
  got,       \* bodies handed to onSockRead / onDebug
  starts     \* history: where in the stream each frame starts, and the end

vars == <<stream, arrived, drained, reading, open, sent, got, starts>>

------------------------------------------------------------------------------
\* CTcpParser: the head written for a body of n bytes.  Both forms are in
\* network order.  ntohl works on 32 bits, so the long form is four digits
\* followed by the four zero bytes that widen them to a size_t.
createHead(n) ==
  IF n <= Short THEN << n >>
  ELSE IF n < Base * Base THEN << Short + 1, n \div Base, n % Base >>
  ELSE LET q1 == n \div Base
           q2 == q1 \div Base
           q3 == q2 \div Base
       IN  << Short + 2, q3 % Base, q2 % Base, q1 % Base, n % Base, 0, 0, 0, 0 >>

Frame(m) == createHead(Len(m)) \o m

\* parseHead on a buffer that is not empty: the bytes it wants to see before it
\* reads the length, the head's length and the length it reads.  For the long
\* form it asks for 1 + sizeof(unsigned int) bytes and skips 1 + sizeof(size_t).
NeedReadLens(b) ==
  CASE b[1] = Short + 1 -> 3
    [] b[1] = Short + 2 -> 5
    [] OTHER            -> 1

HeadLens(b) ==
  CASE b[1] = Short + 1 -> 3
    [] b[1] = Short + 2 -> 9
    [] OTHER            -> 1

BufLens(b) ==
  CASE b[1] = Short + 1 -> b[2] * Base + b[3]
    [] b[1] = Short + 2 -> ((b[2] * Base + b[3]) * Base + b[4]) * Base + b[5]
    [] OTHER            -> b[1]

\* parsePack does not return NULL.  A flag above Short + 2 is refused.
Parsed(b) ==
  /\ b # << >>
  /\ b[1] <= Short + 2
  /\ Len(b) >= NeedReadLens(b)
  /\ Len(b) >= HeadLens(b) + BufLens(b)

ParsedLens(b) == HeadLens(b) + BufLens(b)

Body(b) == SubSeq(b, HeadLens(b) + 1, ParsedLens(b))

\* The session's input evbuffer (CEventBuffer::getTotalLens, readBuffer).
buffer == SubSeq(stream, drained + 1, arrived)

------------------------------------------------------------------------------
Init ==
  /\ stream = << >> /\ arrived = 0 /\ drained = 0
  /\ reading = FALSE /\ open = TRUE
  /\ sent = << >> /\ got = << >> /\ starts = << 0 >>

\* A script of the peer sends: head and body go to its output buffer.
sendTcp(m) ==
  /\ Len(sent) < MaxSent
  /\ stream' = stream \o Frame(m)
  /\ sent' = Append(sent, m)
  /\ starts' = Append(starts, Len(stream) + Len(Frame(m)))
  /\ UNCHANGED <<arrived, drained, reading, open, got>>

\* The network delivers some more of the stream, and libevent runs the session's
\* read callback.
workThreadReadCB ==
  /\ open /\ ~reading
  /\ arrived' \in arrived + 1 .. Len(stream)
  /\ reading' = TRUE
  /\ UNCHANGED <<stream, drained, open, sent, got, starts>>

\* A turn of dispTcp's loop that ends it: no whole frame, or one that Decode
\* refuses, which stays in the buffer.
dispTcpReturns ==
  /\ reading
  /\ Parsed(buffer) => Body(buffer) \in Refused
  /\ reading' = FALSE
  /\ UNCHANGED <<stream, arrived, drained, open, sent, got, starts>>

\* Mutation: the frame is drained by the body's length, the head forgotten.
dispTcpBodyOnly(closes) ==
  /\ reading /\ Parsed(buffer) /\ Body(buffer) \notin Refused
  /\ got' = Append(got, Body(buffer))
  /\ drained' = IF closes THEN drained ELSE drained + BufLens(buffer)
  /\ open' = ~closes /\ reading' = ~closes
  /\ UNCHANGED <<stream, arrived, sent, starts>>

\* Mutation: dispTcp handles one frame per callback.
dispTcpOnce(closes) ==
  /\ reading /\ Parsed(buffer) /\ Body(buffer) \notin Refused
  /\ got' = Append(got, Body(buffer))
  /\ drained' = IF closes THEN drained ELSE drained + ParsedLens(buffer)
  /\ open' = ~closes /\ reading' = FALSE
  /\ UNCHANGED <<stream, arrived, sent, starts>>

\* Mutation: the script's close is not noticed after onSockRead.
dispTcpGoesOn(closes) ==
  /\ reading /\ Parsed(buffer) /\ Body(buffer) \notin Refused
  /\ got' = Append(got, Body(buffer))
  /\ drained' = drained + ParsedLens(buffer)
  /\ open' = (open /\ ~closes) /\ reading' = TRUE
  /\ UNCHANGED <<stream, arrived, sent, starts>>

\* A turn that hands a frame to the script.  If the script closed the session
\* meanwhile its buffer is gone and the loop ends; otherwise the frame is
\* drained and the loop goes on.
dispTcp(closes) ==
  /\ reading
  /\ Parsed(buffer)
  /\ Body(buffer) \notin Refused
  /\ got' = Append(got, Body(buffer))
  /\ drained' = IF closes THEN drained ELSE drained + ParsedLens(buffer)
  /\ open' = ~closes
  /\ reading' = ~closes
  /\ UNCHANGED <<stream, arrived, sent, starts>>

\* The connection ends or fails: the session goes with what it has not read.
workThreadEventCB ==
  /\ open /\ ~reading
  /\ open' = FALSE
  /\ UNCHANGED <<stream, arrived, drained, reading, sent, got, starts>>

Next ==
  \/ \E m \in Msgs : sendTcp(m)
  \/ workThreadReadCB
  \/ dispTcpReturns
  \/ \E closes \in BOOLEAN : dispTcp(closes)
  \/ workThreadEventCB

\* A callback runs to its end, and while bytes are under way more of them arrive.
Fairness ==
  /\ WF_vars(dispTcpReturns \/ \E closes \in BOOLEAN : dispTcp(closes))
  /\ WF_vars(workThreadReadCB)

Spec == Init /\ [][Next]_vars /\ Fairness

------------------------------------------------------------------------------
TypeOK ==
  /\ stream \in Seq(Byte)
  /\ arrived \in 0 .. Len(stream) /\ drained \in 0 .. arrived
  /\ reading \in BOOLEAN /\ open \in BOOLEAN
  /\ sent \in Seq(Msgs) /\ got \in Seq(Seq(Byte))
  /\ starts \in Seq(0 .. Len(stream))

\* What dispTcp hands to the scripts is what sendTcp was given: the same bodies
\* in the same order, however the stream was cut, and none after a body that
\* Decode refused.
InOrder ==
  /\ Len(got) <= Len(sent)
  /\ \A i \in 1 .. Len(got) : got[i] = sent[i] /\ sent[i] \notin Refused

\* dispTcp leaves the read callback only when no whole frame is waiting, or when
\* the one that waits is refused: no message sits in the buffer until the next
\* one happens to arrive.  drained stands at the start of the first frame that
\* has not been delivered.
NoneWaits ==
  (open /\ ~reading /\ Len(got) < Len(sent)) =>
    \/ arrived < starts[Len(got) + 2]
    \/ sent[Len(got) + 1] \in Refused

\* The byte stream implements the channel the scripts rely on, liveness
\* included: a message that is not refused and not behind a refused one is
\* delivered unless the session is closed (dispTcp with the scheduling of
\* Fairness).
C == INSTANCE Channel
ChannelSpec == C!Spec
==============================================================================
