----------------------------- MODULE CommEncrypt -----------------------------
(***************************************************************************)
(* CCommEncrypt, and the sends and receipts that go through it.  A process *)
(* has one CCommEncrypt, and so one m_objBuffer, for all its sessions: the *)
(* result of Encode and of Decode lies in that buffer until the next call. *)
(*                                                                         *)
(* Two servers, A and B, and a client of A.  A has linked itself to B, so  *)
(* the session is a TCPCLIENT at A, which uses the types of                *)
(* SVLinkeEncrypt, and an ordinary TCP session at B, which uses those of   *)
(* ClientEncrypt.                                                          *)
(*                                                                         *)
(* A payload is a message and the layers around it, the outermost last; a  *)
(* cipher adds a layer, and takes off only one that it can undo.           *)
(***************************************************************************)
EXTENDS Naturals, Sequences, FiniteSetsExt

CONSTANTS
  Empty,     \* the message without a byte
  Null,      \* no result
  Garbage,   \* what AES makes of bytes that it has not encoded
  Lists,     \* the lists of types that may be configured
  MaxSent    \* messages sent in a behaviour

ASSUME MsgsAssumption ==
  Cardinality({Empty, Null, Garbage}) = 3 /\ {Empty, Null, Garbage} \cap Nat = {}
ASSUME MaxSentAssumption == MaxSent \in Nat
ASSUME ListsAssumption == \A l \in Lists : l \in Seq({"AES", "RSA", "ZLib"})

VARIABLES
  m_vcClinetType,  \* server -> types of ClientEncrypt
  m_vcSVLinkType,  \* server -> types of SVLinkeEncrypt
  m_objBuffer,     \* server -> what its buffer holds
  wire,            \* direction -> packets on their way
  handling,        \* server -> the packet its script is handling
  sent,            \* direction -> messages handed to the sender
  got              \* direction -> what was handed to the receiver

vars == <<m_vcClinetType, m_vcSVLinkType, m_objBuffer, wire, handling, sent, got>>

Servers == {"A", "B"}

\* <<sender, receiver>>
Wires == {<<"client", "A">>, <<"A", "client">>, <<"A", "B">>, <<"B", "A">>}

\* Messages with bytes are numbered in the order of sending.
Msgs == {Empty} \cup 1..MaxSent

Plain(m) == [msg |-> m, layers |-> << >>]

\* peer of a server whose worker is not in a handler.
Nobody == "nobody"

Waiting == [peer |-> Nobody, kept |-> FALSE, wrote |-> FALSE]

\* The two servers are configured alike for the link.
Init ==
  /\ \E c, l \in Lists :
       /\ m_vcClinetType = [s \in Servers |-> IF s = "A" THEN c ELSE l]
       /\ m_vcSVLinkType = [s \in Servers |-> IF s = "A" THEN l ELSE << >>]
  /\ m_objBuffer = [s \in Servers |-> Plain(Null)]
  /\ wire = [w \in Wires |-> << >>]
  /\ handling = [s \in Servers |-> Waiting]
  /\ sent = [w \in Wires |-> << >>]
  /\ got = [w \in Wires |-> << >>]

-----------------------------------------------------------------------------
(* The pipeline of ciphers.                                                *)

\* STYPE_TCPCLIENT == getType()
bSVLink(s, peer) == s = "A" /\ peer = "B"

Types(s, sv) == IF sv THEN m_vcSVLinkType[s] ELSE m_vcClinetType[s]

\* The layers that a list adds, RSA with the given key.
Layers(types, key) ==
  [i \in 1..Len(types) |-> IF types[i] = "RSA" THEN key ELSE types[i]]

Wrapped(types, key, p) == [p EXCEPT !.layers = @ \o Layers(types, key)]

Passes(s, p) == m_vcClinetType[s] = << >> \/ p.msg = Empty

\* Mutation: bFirst is false at the start in the branches of a server link, so that
\* the buffer is encoded, not the message.
EncodeLinkNotFirst(s, p, sv) ==
  IF Passes(s, p) THEN [out |-> p, buf |-> m_objBuffer[s]]
  ELSE LET q == IF sv THEN Wrapped(Types(s, sv), "RSApri", m_objBuffer[s])
                ELSE Wrapped(Types(s, sv), "RSApub", p)
       IN  [out |-> q, buf |-> q]

(***************************************************************************)
(* A list without a type leaves the buffer as an earlier call has left it, *)
(* and that is returned.                                                   *)
(***************************************************************************)
Encode(s, p, sv) ==
  IF Passes(s, p) THEN [out |-> p, buf |-> m_objBuffer[s]]
  ELSE LET q == IF Types(s, sv) = << >> THEN m_objBuffer[s]
                ELSE Wrapped(Types(s, sv), IF sv THEN "RSApri" ELSE "RSApub", p)
       IN  [out |-> q, buf |-> q]

\* How many types, from the last one, take off a layer of p each.
Undone(types, key, p) ==
  LET l == Layers(types, key)
      fits(k) == SubSeq(l, Len(l) - k + 1, Len(l)) =
                   SubSeq(p.layers, Len(p.layers) - k + 1, Len(p.layers))
  IN  Max({k \in 0..Len(l) : k <= Len(p.layers) /\ fits(k)})

Peeled(p, k) == [p EXCEPT !.layers = SubSeq(@, 1, Len(@) - k)]

\* Mutation: the types are gone through in the order of Encode.
DecodeForward(s, p, sv) ==
  LET t == Types(s, sv)
      types == [i \in 1..Len(t) |-> t[Len(t) + 1 - i]]
      k == Undone(types, "RSApri", p)
      q == IF k = 0 THEN m_objBuffer[s] ELSE Peeled(p, k)
  IN  IF Passes(s, p) THEN {[out |-> p, buf |-> m_objBuffer[s]]}
      ELSE IF k = Len(types) THEN {[out |-> q, buf |-> q]}
      ELSE {[out |-> Plain(Null), buf |-> q]}

(***************************************************************************)
(* RSA decrypts with the public key whatever the session.  A cipher whose  *)
(* layer is not there returns NULL, and what has been taken off before     *)
(* stays in the buffer; only AES may go on with what it has made of it.    *)
(***************************************************************************)
Decode(s, p, sv) ==
  LET types == Types(s, sv)
      k == Undone(types, "RSApri", p)
      q == IF k = 0 THEN m_objBuffer[s] ELSE Peeled(p, k)
      g == Plain(Garbage)
  IN  IF Passes(s, p) THEN {[out |-> p, buf |-> m_objBuffer[s]]}
      ELSE IF k = Len(types) THEN {[out |-> q, buf |-> q]}
      ELSE {[out |-> Plain(Null), buf |-> q]}
             \cup IF types[Len(types) - k] # "AES" THEN {}
                  ELSE {[out |-> g, buf |-> g], [out |-> Plain(Null), buf |-> g]}

-----------------------------------------------------------------------------
(* The servers.                                                            *)

Count == Cardinality(UNION {{w} \X DOMAIN sent[w] : w \in Wires})

\* What may be sent next.
New == IF Count < MaxSent THEN {Empty, Count + 1} ELSE {}

\* Inside the handler of a packet, or in a timer event.
sendTcp(s, peer, m) ==
  LET e == Encode(s, Plain(m), bSVLink(s, peer))
      w == <<s, peer>>
  IN  /\ m \in New
      /\ e.out.msg # Null
      /\ wire' = [wire EXCEPT ![w] = Append(@, e.out)]
      /\ sent' = [sent EXCEPT ![w] = Append(@, m)]
      /\ m_objBuffer' = [m_objBuffer EXCEPT ![s] = e.buf]
      /\ handling' = [handling EXCEPT ![s].wrote =
           @ \/ (handling[s].peer # Nobody /\ ~Passes(s, Plain(m)))]
      /\ UNCHANGED <<m_vcClinetType, m_vcSVLinkType, got>>

\* The script is given a pointer into the packet, or into m_objBuffer.
dispTcp(s, peer) ==
  LET w == <<peer, s>>
  IN  /\ handling[s] = Waiting
      /\ wire[w] # << >>
      /\ \E d \in Decode(s, Head(wire[w]), bSVLink(s, peer)) :
           /\ d.out.msg # Null
           /\ m_objBuffer' = [m_objBuffer EXCEPT ![s] = d.buf]
           /\ got' = [got EXCEPT ![w] = Append(@, d.out)]
      /\ handling' = [handling EXCEPT ![s] =
           [peer |-> peer, kept |-> ~Passes(s, Head(wire[w])), wrote |-> FALSE]]
      /\ UNCHANGED <<m_vcClinetType, m_vcSVLinkType, wire, sent>>

\* Mutation: another session is read while a script is handling a packet.
dispTcpNullNested(s, peer) ==
  LET w == <<peer, s>>
  IN  /\ wire[w] # << >>
      /\ \E d \in Decode(s, Head(wire[w]), bSVLink(s, peer)) :
           /\ d.out.msg = Null
           /\ m_objBuffer' = [m_objBuffer EXCEPT ![s] = d.buf]
      /\ UNCHANGED <<m_vcClinetType, m_vcSVLinkType, wire, handling, sent, got>>

\* Decode returns NULL: the packet stays where it is.
dispTcpNull(s, peer) ==
  LET w == <<peer, s>>
  IN  /\ handling[s] = Waiting
      /\ wire[w] # << >>
      /\ \E d \in Decode(s, Head(wire[w]), bSVLink(s, peer)) :
           /\ d.out.msg = Null
           /\ m_objBuffer' = [m_objBuffer EXCEPT ![s] = d.buf]
      /\ UNCHANGED <<m_vcClinetType, m_vcSVLinkType, wire, handling, sent, got>>

\* The script returns and the packet is deleted.
delBuffer(s) ==
  LET w == <<handling[s].peer, s>>
  IN  /\ handling[s] # Waiting
      /\ wire' = [wire EXCEPT ![w] = Tail(@)]
      /\ handling' = [handling EXCEPT ![s] = Waiting]
      /\ UNCHANGED <<m_vcClinetType, m_vcSVLinkType, m_objBuffer, sent, got>>

-----------------------------------------------------------------------------
(* The client, which uses the private key in both directions.              *)

clientSends(m) ==
  LET w == <<"client", "A">>
      p == IF m = Empty THEN Plain(m)
           ELSE Wrapped(m_vcClinetType["A"], "RSApri", Plain(m))
  IN  /\ m \in New
      /\ wire' = [wire EXCEPT ![w] = Append(@, p)]
      /\ sent' = [sent EXCEPT ![w] = Append(@, m)]
      /\ UNCHANGED <<m_vcClinetType, m_vcSVLinkType, m_objBuffer, handling, got>>

clientReads ==
  LET w == <<"A", "client">>
      p == Head(wire[w])
      k == Undone(m_vcClinetType["A"], "RSApub", p)
  IN  /\ wire[w] # << >>
      /\ p.msg = Empty \/ k = Len(m_vcClinetType["A"])
      /\ wire' = [wire EXCEPT ![w] = Tail(@)]
      /\ got' = [got EXCEPT ![w] = Append(@, IF p.msg = Empty THEN p ELSE Peeled(p, k))]
      /\ UNCHANGED <<m_vcClinetType, m_vcSVLinkType, m_objBuffer, handling, sent>>

Next ==
  \/ \E s \in Servers, peer \in {"client"} \cup Servers :
       /\ <<s, peer>> \in Wires
       /\ \/ \E m \in Msgs : sendTcp(s, peer, m)
          \/ dispTcp(s, peer)
          \/ dispTcpNull(s, peer)
  \/ \E s \in Servers : delBuffer(s)
  \/ \E m \in Msgs : clientSends(m)
  \/ clientReads

\* The worker goes on reading and scripts return; nobody has to send.
Fairness ==
  /\ WF_vars(dispTcp("A", "client")) /\ WF_vars(dispTcp("A", "B"))
  /\ WF_vars(dispTcp("B", "A"))
  /\ \A s \in Servers : WF_vars(delBuffer(s))
  /\ WF_vars(clientReads)

Spec == Init /\ [][Next]_vars /\ Fairness

-----------------------------------------------------------------------------
(* Properties.                                                             *)

\* The receiver of w was given the messages of the sender, in their order.
AsSent(w) ==
  /\ Len(got[w]) <= Len(sent[w])
  /\ \A i \in 1..Len(got[w]) : got[w][i] = Plain(sent[w][i])

\* Either both lists of A name a type or neither does.
BothOrNone == (m_vcClinetType["A"] = << >>) = (m_vcSVLinkType["A"] = << >>)

\* RSA is no part of the link's list.
NoRSA == \A i \in 1..Len(m_vcSVLinkType["A"]) : m_vcSVLinkType["A"][i] # "RSA"

\* Whatever is configured, and although all sessions of A share one buffer, A
\* and its client get each other's messages as they were sent; so do the servers,
\* provided that A's lists are both empty or both not.  With a client list alone
\* A sends its peer what an earlier call has left in the buffer; with a link list
\* alone it sends plain text, and B may take what AES makes of it for a message.
Understood ==
  /\ AsSent(<<"client", "A">>) /\ AsSent(<<"A", "client">>)
  /\ BothOrNone => AsSent(<<"A", "B">>) /\ AsSent(<<"B", "A">>)

Deref(s) == IF handling[s].kept THEN m_objBuffer[s] ELSE Head(wire[<<handling[s].peer, s>>])

\* What the script was given stays where it is while it handles it, unless it
\* sends something that is encoded: that overwrites the message it is reading.
StaysReadable ==
  \A s \in Servers :
    (handling[s].peer # Nobody /\ ~(handling[s].kept /\ handling[s].wrote)) =>
       LET g == got[<<handling[s].peer, s>>] IN Deref(s) = g[Len(g)]

\* Directions in which the receiver has the key that undoes the sender's.
Readable(w) ==
  CASE w = <<"A", "B">> -> BothOrNone
    [] w = <<"B", "A">> -> BothOrNone /\ NoRSA
    [] OTHER -> TRUE

\* Every message is handed over at last: as the senders stop after MaxSent, the
\* receivers catch up.  The answers of B on a link with RSA are the exception:
\* they are encrypted with the public key, A has only the public key's
\* decryption for them, and the first of them stays for ever at the head of the
\* session's buffer.
HandedOver == []<>(\A w \in Wires : Readable(w) => Len(got[w]) = Len(sent[w]))
==============================================================================
