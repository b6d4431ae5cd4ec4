------------------------------- MODULE WebSock -------------------------------
(***************************************************************************)
(* A websocket session as dispWebSock serves it: the handshake, then       *)
(* frames that arrive in pieces.  A message is a sequence of payloads, one *)
(* per frame: the first frame carries an opcode, the others are            *)
(* continuations, the last has FIN; control frames may come between them.  *)
(* The payloads before the last are kept in m_mapWebSockPack.              *)
(*                                                                         *)
(* The client is external: it waits for the handshake's answer before it   *)
(* sends frames, and sends the fragments of one message before those of    *)
(* the next.  Lengths and masks are abstracted to two arrivals per frame,  *)
(* the first head bytes and the rest, as parsePack only tells apart a head *)
(* it must refuse, a frame that is not whole and a whole one.  What stays  *)
(* of the mask is that parsePack undoes it in place: parsing the same      *)
(* frame again puts the mask back.                                         *)
(***************************************************************************)
EXTENDS Integers, Sequences

CONSTANTS
  Msgs,        \* messages: nonempty sequences of payloads
  Bad,         \* payloads CCommEncrypt::Decode answers with NULL
  Garbage,     \* what Decode may return for a payload that is masked again
  Stray,       \* payload of a final continuation that ends no message
  NoFrags,     \* no entry in m_mapWebSockPack
  MaxFrames    \* bound: frames sent, the handshake included

\* The payloads of the messages.
Payloads == UNION {{m[i] : i \in DOMAIN m} : m \in Msgs}

\* A message has a frame, and no entry in the map is none of the lists it can hold.
Assumptions ==
  /\ \A m \in Msgs : m \in Seq(Payloads) /\ Len(m) > 0
  /\ NoFrags \notin Seq(Payloads)

ASSUME WebSockAssumptions == Assumptions

VARIABLES
  status,      \* SessionStatus
  stream,      \* frames the client has sent
  arrived,     \* half frames that have reached the input buffer
  drained,     \* frames delBuffer has taken out of it
  unmasked,    \* the payload of the first frame in the buffer is unmasked
  reading,     \* inside workThreadReadCB
  kept,        \* m_mapWebSockPack of this socket
  pongs,       \* PONG frames written
  msg, rest,   \* client: the message under way and its fragments to come
  sent, got,   \* messages sent whole; messages handed to onSockRead, up to
  spoiled      \* history: a payload has been taken for what it is not: masked
               \* again when it was decoded, or a stray one

session == <<status, drained, unmasked, reading, kept, pongs>>
client == <<stream, msg, rest, sent>>
vars == <<session, client, arrived, got, spoiled>>

Data == {"TEXT", "CONTINUATION"}
Control == {"CLOSE", "PING", "PONG", "INVALID"}

\* The first frame left in the buffer.
first == stream[drained + 1]
WholeFrame == arrived >= 2 * (drained + 1)
HeadHere == arrived >= 2 * drained + 1

Frame(op, fin, data) == [op |-> op, fin |-> fin, data |-> data]

Init ==
  /\ status = "CONNECT" /\ stream = << >> /\ arrived = 0 /\ drained = 0
  /\ unmasked = FALSE /\ reading = FALSE /\ kept = NoFrags /\ pongs = 0
  /\ msg = << >> /\ rest = << >> /\ sent = << >> /\ got = << >>
  /\ spoiled = FALSE

------------------------------------------------------------------------------
\* The client.  A request without the fields parseShakeHands wants is not valid.
sendShakeHands(valid) ==
  /\ stream = << >> /\ status = "CONNECT"
  /\ stream' = << Frame("HELLO", valid, Stray) >>
  /\ UNCHANGED <<session, arrived, msg, rest, sent, got, spoiled>>

\* A frame of a message, fragments f to the last still to be sent.
sendFragment(op, m, f) ==
  /\ status = "LINKED" /\ Len(stream) < MaxFrames
  /\ stream' = Append(stream, Frame(op, Len(f) = 1, Head(f)))
  /\ msg' = m /\ rest' = Tail(f)
  /\ sent' = IF Len(f) = 1 THEN Append(sent, m) ELSE sent
  /\ UNCHANGED <<session, arrived, got, spoiled>>

sendMessage(m) == rest = << >> /\ sendFragment("TEXT", m, m)

sendContinuation == rest # << >> /\ sendFragment("CONTINUATION", msg, rest)

\* INVALID is a frame whose head breaks the protocol (reserved bits, no mask); a
\* final continuation outside a message breaks it too.
sendControl(op) ==
  /\ status = "LINKED" /\ Len(stream) < MaxFrames
  /\ op = "CONTINUATION" => rest = << >>
  /\ stream' = Append(stream, Frame(op, TRUE, Stray))
  /\ UNCHANGED <<session, arrived, msg, rest, sent, got, spoiled>>

------------------------------------------------------------------------------
\* More of the stream reaches the buffer and the read callback starts.
workThreadReadCB ==
  /\ status # "CLOSED" /\ ~reading
  /\ arrived' \in arrived + 1 .. 2 * Len(stream)
  /\ reading' = TRUE
  /\ UNCHANGED <<status, drained, unmasked, kept, pongs, client, got, spoiled>>

\* The callback ends and leaves the session as it is.
Return ==
  /\ reading' = FALSE
  /\ UNCHANGED <<status, drained, kept, pongs, client, arrived, got, spoiled>>

\* delContinuation and closeLinkByID.
CloseLink ==
  /\ status' = "CLOSED" /\ kept' = NoFrags /\ reading' = FALSE
  /\ UNCHANGED <<drained, unmasked, pongs, client, arrived>>

\* The status is CONNECT: wait for the end of the request, refuse it, or answer
\* and leave; frames that came with the request would wait for the next arrival.
shakeHands ==
  /\ reading /\ status = "CONNECT"
  /\ UNCHANGED unmasked
  /\ \/ ~WholeFrame /\ Return
     \/ /\ WholeFrame /\ ~first.fin
        /\ CloseLink /\ UNCHANGED <<got, spoiled>>
     \/ /\ WholeFrame /\ first.fin
        /\ status' = "LINKED" /\ drained' = 1 /\ reading' = FALSE
        /\ UNCHANGED <<kept, pongs, client, arrived, got, spoiled>>

\* parsePack sees no whole frame.
noFrame ==
  /\ reading /\ status = "LINKED"
  /\ ~WholeFrame /\ ~(HeadHere /\ first.op = "INVALID")
  /\ Return /\ UNCHANGED unmasked

\* parsePack refuses the head as soon as it is there, or a CLOSE frame is whole.
closeFrame ==
  /\ reading /\ status = "LINKED"
  /\ (HeadHere /\ first.op = "INVALID") \/ (WholeFrame /\ first.op = "CLOSE")
  /\ CloseLink /\ UNCHANGED <<got, spoiled>>

\* delBuffer: the frame leaves the buffer and the loop goes on.
Drain ==
  /\ drained' = drained + 1 /\ unmasked' = FALSE
  /\ UNCHANGED <<status, reading, client, arrived>>

\* Mutation: a PONG is not drained.
controlPongStays ==
  /\ reading /\ status = "LINKED" /\ WholeFrame /\ first.op \in {"PING", "PONG"}
  /\ pongs' = IF first.op = "PING" THEN pongs + 1 ELSE pongs
  /\ drained' = IF first.op = "PING" THEN drained + 1 ELSE drained
  /\ UNCHANGED <<status, unmasked, reading, client, arrived, kept, got, spoiled>>

\* A PING is answered; a PONG only sets the session's ping time.
control ==
  /\ reading /\ status = "LINKED" /\ WholeFrame /\ first.op \in {"PING", "PONG"}
  /\ pongs' = IF first.op = "PING" THEN pongs + 1 ELSE pongs
  /\ Drain /\ UNCHANGED <<kept, got, spoiled>>

------------------------------------------------------------------------------
\* A whole data frame has been parsed, which put its mask on or off: the results
\* Decode may give.  {} stands for NULL.
Decode ==
  IF unmasked THEN { {}, {Garbage} }
  ELSE IF first.data \in Bad THEN { {} } ELSE { {first.data} }

\* Decode returns NULL: dispWebSock returns with the frame still in the buffer.
decodeFails ==
  /\ reading /\ status = "LINKED" /\ WholeFrame /\ first.op \in Data
  /\ {} \in Decode
  /\ first.op # "CONTINUATION" \/ ~first.fin \/ kept # NoFrags
  /\ unmasked' = ~unmasked
  /\ Return

\* The message whose last payload is d.
Joined(d) == IF first.op = "CONTINUATION" THEN Append(kept, d) ELSE << d >>

\* Mutation: the kept pieces stay after the message has been handed over.
finalFrameNoClear(closes) ==
  /\ reading /\ status = "LINKED" /\ WholeFrame /\ first.op \in Data /\ first.fin
  /\ first.op = "CONTINUATION" => kept # NoFrags
  /\ \E d \in UNION Decode :
       /\ spoiled' = (spoiled \/ unmasked \/ d = Stray)
       /\ got' = IF spoiled' THEN got ELSE Append(got, Joined(d))
  /\ IF closes THEN CloseLink
     ELSE Drain /\ UNCHANGED <<kept, pongs>>

\* The last frame of a message: onSockRead gets it with what was kept.  If the
\* script closed the session the callback ends, otherwise the frame is drained
\* and the entry of the map is cleared, not erased.
finalFrame(closes) ==
  /\ reading /\ status = "LINKED" /\ WholeFrame /\ first.op \in Data /\ first.fin
  /\ first.op = "CONTINUATION" => kept # NoFrags
  /\ \E d \in UNION Decode :
       /\ spoiled' = (spoiled \/ unmasked \/ d = Stray)
       /\ got' = IF spoiled' THEN got ELSE Append(got, Joined(d))
  /\ IF closes THEN CloseLink
     ELSE Drain /\ pongs' = pongs /\
          kept' = IF first.op = "CONTINUATION" THEN << >> ELSE kept

\* A final continuation and no entry in the map: the frame is dropped.
dropFinal ==
  /\ reading /\ status = "LINKED" /\ WholeFrame
  /\ first.op = "CONTINUATION" /\ first.fin /\ kept = NoFrags
  /\ Drain /\ UNCHANGED <<kept, pongs, got, spoiled>>

\* addContinuation: a frame without FIN is appended to the entry or opens it.
addContinuation ==
  /\ reading /\ status = "LINKED" /\ WholeFrame /\ first.op \in Data /\ ~first.fin
  /\ \E d \in UNION Decode :
       /\ kept' = IF kept = NoFrags THEN << d >> ELSE Append(kept, d)
       /\ spoiled' = (spoiled \/ unmasked \/ d = Stray)
  /\ Drain /\ UNCHANGED <<pongs, got>>

\* The connection ends or fails.
workThreadEventCB ==
  /\ status # "CLOSED" /\ ~reading
  /\ CloseLink /\ UNCHANGED <<got, spoiled>>

dispWebSock ==
  \/ shakeHands \/ noFrame \/ closeFrame \/ control \/ decodeFails
  \/ \E closes \in BOOLEAN : finalFrame(closes)
  \/ dropFinal \/ addContinuation

Next ==
  \/ \E valid \in BOOLEAN : sendShakeHands(valid)
  \/ \E m \in Msgs : sendMessage(m)
  \/ sendContinuation
  \/ \E op \in Control \cup {"CONTINUATION"} : sendControl(op)
  \/ workThreadReadCB \/ dispWebSock \/ workThreadEventCB

\* A callback runs to its end; bytes under way arrive.
Spec ==
  Init /\ [][Next]_vars /\ WF_vars(dispWebSock) /\ WF_vars(workThreadReadCB)

------------------------------------------------------------------------------
BadMsgs == {m \in Msgs : \E i \in DOMAIN m : m[i] \in Bad}

\* Until a payload is taken for what it is not, the scripts get the messages of
\* the client: whole, once, in order, whatever the fragments and the control
\* frames between them (dispWebSock, addContinuation, getContinuation).
C == INSTANCE Channel
       WITH open <- status # "CLOSED" /\ ~spoiled, Refused <- BadMsgs
ChannelSafe == C!Safety

Pings(n) == Len(SelectSeq(SubSeq(stream, 1, n), LAMBDA f : f.op = "PING"))

\* Every frame that has no refused payload before it is served in the end, and
\* every PING answered, unless the session is closed first.
FramesServed ==
  \A n \in 1 .. MaxFrames :
    (Len(stream) >= n /\ \A i \in 1 .. n : stream[i].data \notin Bad)
      ~> \/ drained >= n /\ pongs >= Pings(n)
         \/ status = "CLOSED"
==============================================================================
