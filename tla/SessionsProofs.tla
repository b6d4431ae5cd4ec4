---------------------------- MODULE SessionsProofs ----------------------------
(***************************************************************************)
(* Proofs about Sessions, for any descriptors, listeners, links, failures  *)
(* and any number of connections.                                          *)
(***************************************************************************)
EXTENDS Sessions, FiniteSetTheorems, TLAPS

\* The descriptors in a socket pair, and that each is in it once.
FdsOf(pair) == {pair[k].fd : k \in 1..Len(pair)}

Lone(pair) == \A j, k \in 1..Len(pair) : pair[j].fd = pair[k].fd => j = k

\* Every open descriptor belongs to a session or to a socket under way, and to one
\* only; the sockets of the link monitor are no accepted ones.
Owned ==
    ClosesOwn =>
        /\ \A fd \in DOMAIN session :
              fd \in DOMAIN open /\ open[fd] = session[fd].conn
        /\ FdsOf(mainPair) \cup FdsOf(assistPair) \subseteq DOMAIN open \ DOMAIN session
        /\ FdsOf(mainPair) \cap FdsOf(assistPair) = {}
        /\ Lone(mainPair) /\ Lone(assistPair)
        /\ \A fd \in FdsOf(assistPair) : open[fd].host # 0
        /\ \A fd \in DOMAIN open : open[fd].host = 0 =>
              fd \in DOMAIN session \cup FdsOf(mainPair) \cup FdsOf(assistPair)

\* The pool never has handed out fewer sessions than the map holds.
UsedCounts ==
    /\ Cardinality(DOMAIN session) <= used
    /\ ClosesOwn => used = Cardinality(DOMAIN session)

\* A card is that of the connection; only a DEBUG session has none.
Cards ==
    /\ \A fd \in DOMAIN session :
          session[fd].card =
              IF session[fd].type = "DEBUG" THEN NoCard ELSE session[fd].conn.id
    /\ \A r \in delayed : r.card \in {NoCard, r.of}

\* Fragments are those of a linked websocket session or of a connection that
\* realClose has closed, also on a descriptor that has no session now.
Fragments ==
    ClosesOwn =>
        \A fd \in DOMAIN contin : \A c \in contin[fd] :
            \/ c \in scripted
            \/ /\ fd \in DOMAIN session /\ c = session[fd].conn.id
               /\ session[fd].type = "WEBSOCK" /\ session[fd].status = "LINKED"

\* The inductive invariant.
IInv ==
    TypeOK /\ Owned /\ UsedCounts /\ Cards /\ RegisteredLive /\ Fragments

-----------------------------------------------------------------------------
(* The tables and the socket pairs.                                        *)

\* Put keeps the type of a table.
LEMMA PutType ==
  ASSUME NEW S, NEW f, f \in [DOMAIN f -> S], NEW x, NEW v \in S
  PROVE  Put(f, x, v) \in [DOMAIN Put(f, x, v) -> S]
  BY DEF Put

\* So does Without.
LEMMA WithoutType ==
  ASSUME NEW S, NEW f, f \in [DOMAIN f -> S], NEW x
  PROVE  Without(f, x) \in [DOMAIN Without(f, x) -> S]
  BY DEF Without, Restrict

\* A socket that is put into a pair it is not in is in it once ...
LEMMA PairAppend ==
  ASSUME NEW s \in Seq(TriggerSock), NEW m \in TriggerSock
  PROVE  /\ Append(s, m) \in Seq(TriggerSock)
         /\ FdsOf(Append(s, m)) = FdsOf(s) \cup {m.fd}
         /\ Lone(s) /\ m.fd \notin FdsOf(s) => Lone(Append(s, m))
<1> DEFINE r == Append(s, m)
           n == Len(s)
<1>1. /\ r \in Seq(TriggerSock) /\ n \in Nat /\ Len(r) = n + 1 /\ r[n + 1] = m
      /\ \A k \in 1..n : r[k] = s[k]
  OBVIOUS
<1> HIDE DEF r
<1>2. \A k \in 1..Len(r) : k \in 1..n \/ k = n + 1
  BY <1>1
<1>3. 1..n \subseteq 1..Len(r) /\ n + 1 \in 1..Len(r) /\ n + 1 \notin 1..n
  BY <1>1
<1> HIDE DEF n
<1>4. FdsOf(r) = FdsOf(s) \cup {m.fd}
  <2>1. ASSUME NEW fd \in FdsOf(r) PROVE fd \in FdsOf(s) \cup {m.fd}
    BY <1>1, <1>2, <2>1 DEF FdsOf, n
  <2>2. ASSUME NEW fd \in FdsOf(s) \cup {m.fd} PROVE fd \in FdsOf(r)
    BY <1>1, <1>3, <2>2 DEF FdsOf, n
  <2> QED
    BY <2>1, <2>2
<1>5. ASSUME Lone(s), m.fd \notin FdsOf(s) PROVE Lone(r)
  <2>1. \A k \in 1..n : s[k].fd # m.fd
    BY <1>5 DEF FdsOf, n
  <2> SUFFICES ASSUME NEW j \in 1..Len(r), NEW k \in 1..Len(r), r[j].fd = r[k].fd
               PROVE  j = k
    BY DEF Lone
  <2>2. CASE j \in 1..n /\ k \in 1..n
    BY <1>1, <1>5, <2>2 DEF Lone, n
  <2>3. CASE j = n + 1 \/ k = n + 1
    BY <1>1, <1>2, <2>1, <2>3
  <2> QED
    BY <1>2, <2>2, <2>3
<1> QED
  BY <1>1, <1>4, <1>5 DEF r

\* ... and one that is read leaves it.
LEMMA PairTail ==
  ASSUME NEW s \in Seq(TriggerSock), s # << >>
  PROVE  /\ Tail(s) \in Seq(TriggerSock)
         /\ Head(s) \in TriggerSock /\ Head(s).fd \in FdsOf(s)
         /\ FdsOf(Tail(s)) \subseteq FdsOf(s)
         /\ FdsOf(s) \subseteq FdsOf(Tail(s)) \cup {Head(s).fd}
         /\ Lone(s) => Lone(Tail(s)) /\ Head(s).fd \notin FdsOf(Tail(s))
<1> DEFINE r == Tail(s)
           n == Len(s)
<1>1. /\ r \in Seq(TriggerSock) /\ n \in Nat /\ n > 0 /\ Len(r) = n - 1
      /\ Head(s) = s[1] /\ Head(s) \in TriggerSock
      /\ \A k \in 1..n - 1 : r[k] = s[k + 1]
  OBVIOUS
<1> HIDE DEF r
<1>2. \A k \in 1..Len(r) : k + 1 \in 1..n /\ k + 1 # 1 /\ k \in Nat
  BY <1>1
<1>3. 1 \in 1..n /\ \A k \in 1..n : k = 1 \/ (k - 1 \in 1..Len(r) /\ k = (k - 1) + 1)
  BY <1>1
<1>4. \A k \in 1..Len(r) : r[k] = s[k + 1]
  BY <1>1
<1> HIDE DEF n
<1>5. Head(s).fd \in FdsOf(s)
  BY <1>1, <1>3 DEF FdsOf, n
<1>6. FdsOf(r) \subseteq FdsOf(s)
  BY <1>2, <1>4 DEF FdsOf, n
<1>7. ASSUME NEW fd \in FdsOf(s) PROVE fd \in FdsOf(r) \cup {Head(s).fd}
  <2>1. PICK k \in 1..n : s[k].fd = fd
    BY <1>7 DEF FdsOf, n
  <2>2. CASE k = 1
    BY <1>1, <2>1, <2>2
  <2>3. CASE k - 1 \in 1..Len(r) /\ k = (k - 1) + 1
    <3>1. r[k - 1].fd = fd
      BY <1>4, <2>1, <2>3
    <3> QED
      BY <2>3, <3>1 DEF FdsOf
  <2> QED
    BY <1>3, <2>2, <2>3
<1>8. ASSUME Lone(s) PROVE Lone(r) /\ Head(s).fd \notin FdsOf(r)
  <2>1. ASSUME NEW j \in 1..Len(r), NEW k \in 1..Len(r), r[j].fd = r[k].fd PROVE j = k
    <3>1. j + 1 = k + 1
      BY <1>2, <1>4, <1>8, <2>1 DEF Lone, n
    <3> QED
      BY <1>2, <3>1
  <2>2. \A k \in 1..Len(r) : r[k].fd # Head(s).fd
    BY <1>1, <1>2, <1>3, <1>4, <1>8 DEF Lone, n
  <2> QED
    BY <2>1, <2>2 DEF Lone, FdsOf
<1> QED
  BY <1>1, <1>5, <1>6, <1>7, <1>8 DEF r

-----------------------------------------------------------------------------
(* The steps.                                                              *)

\* The map is finite, as the descriptors are.
LEMMA MapFinite ==
  ASSUME TypeOK
  PROVE  IsFiniteSet(DOMAIN session) /\ Cardinality(DOMAIN session) \in Nat
  BY FdsAssumption, FS_Subset, FS_CardinalityType DEF TypeOK

\* setSockStatus changes the status of an entry, if anything.
LEMMA StatusType ==
  ASSUME TypeOK, NEW sock, NEW status \in {"CLOSED", "CONNECT", "LINKED"}
  PROVE  setSockStatus(sock, status) \in [Hosts -> LinkInfo]
<1>1. ASSUME NEW i PROVE [links EXCEPT ![i].status = status] \in [Hosts -> LinkInfo]
  BY Zenon DEF TypeOK, LinkInfo
<1> QED
  BY Zenon, <1>1 DEF TypeOK, setSockStatus

\* closeLinkByID takes the session out of the map, gives it back to the pool and
\* closes its descriptor; nothing registered is left of it.
LEMMA CloseLink ==
  ASSUME IInv, NEW fd \in DOMAIN session, closeLinkByID(fd),
         UNCHANGED <<mainPair, assistPair, cut>>
  PROVE  /\ DOMAIN open' \subseteq Fds /\ open' \in [DOMAIN open' -> Connection]
         /\ DOMAIN session' = DOMAIN session \ {fd}
         /\ \A g \in DOMAIN session' : session'[g] = session[g]
         /\ session' \in [DOMAIN session' -> Session]
         /\ used' \in Nat
         /\ links' \in [Hosts -> LinkInfo]
         /\ registered' \subseteq registered
         /\ Owned' /\ UsedCounts' /\ RegisteredLive'
<1>1. TypeOK /\ Owned /\ UsedCounts /\ RegisteredLive
  BY DEF IInv
<1>2. /\ DOMAIN open' = DOMAIN open \ {fd}
      /\ \A g \in DOMAIN open : g # fd => open'[g] = open[g]
      /\ DOMAIN open' \subseteq Fds /\ open' \in [DOMAIN open' -> Connection]
  <2>1. open' = Without(open, fd)
    BY DEF closeLinkByID
  <2>2. open' \in [DOMAIN open' -> Connection]
    BY <1>1, <2>1, WithoutType DEF TypeOK
  <2> QED
    BY <1>1, <2>1, <2>2 DEF TypeOK, Without, Restrict
<1>3. /\ DOMAIN session' = DOMAIN session \ {fd}
      /\ \A g \in DOMAIN session : g # fd => session'[g] = session[g]
      /\ session' \in [DOMAIN session' -> Session]
  <2>1. session' = Without(session, fd)
    BY DEF closeLinkByID, dellSession
  <2>2. session' \in [DOMAIN session' -> Session]
    BY <1>1, <2>1, WithoutType DEF TypeOK
  <2> QED
    BY <2>1, <2>2 DEF Without, Restrict
<1>4. Cardinality(DOMAIN session') = Cardinality(DOMAIN session) - 1
  BY <1>1, <1>3, MapFinite, FS_RemoveElement
<1>5. Cardinality(DOMAIN session) \in Nat /\ Cardinality(DOMAIN session) # 0
  BY <1>1, MapFinite, FS_EmptySet
<1>6. used' = used - 1 /\ used \in Nat
  BY <1>1 DEF TypeOK, closeLinkByID, dellSession
<1>7. used' \in Nat /\ UsedCounts'
  BY <1>1, <1>4, <1>5, <1>6 DEF UsedCounts, ClosesOwn
<1>8. links' \in [Hosts -> LinkInfo]
  BY <1>1, StatusType DEF TypeOK, closeLinkByID, linkClosed
<1>9. registered' = {r \in registered : r.card # session[fd].card}
  BY DEF closeLinkByID, onSockClose
<1>10. RegisteredLive'
  BY <1>1, <1>3, <1>9 DEF RegisteredLive, ClosesOwn
<1>11. Owned'
  <2>1. /\ FdsOf(mainPair)' = FdsOf(mainPair) /\ FdsOf(assistPair)' = FdsOf(assistPair)
        /\ Lone(mainPair)' = Lone(mainPair) /\ Lone(assistPair)' = Lone(assistPair)
    BY DEF FdsOf, Lone
  <2> QED
    BY <1>1, <1>2, <1>3, <2>1 DEF Owned, ClosesOwn
<1> QED
  BY <1>2, <1>3, <1>7, <1>8, <1>9, <1>10, <1>11

\* A session that is made for a socket from a pair is the only one on it.
LEMMA NewLink ==
  ASSUME IInv, NEW m \in TriggerSock, m.fd \in DOMAIN open, addSession(m.fd, m.type),
         UNCHANGED <<open, cut>>,
         ClosesOwn => m.fd \notin DOMAIN session
  PROVE  /\ DOMAIN session' = DOMAIN session \cup {m.fd}
         /\ session'[m.fd].conn = open[m.fd]
         /\ session'[m.fd].card =
               IF session'[m.fd].type = "DEBUG" THEN NoCard ELSE open[m.fd].id
         /\ \A g \in DOMAIN session : g # m.fd => session'[g] = session[g]
         /\ DOMAIN session' \subseteq Fds /\ session' \in [DOMAIN session' -> Session]
         /\ used' \in Nat
         /\ UsedCounts'
<1>1. TypeOK /\ UsedCounts
  BY DEF IInv
<1> DEFINE n == NewSession(m.type, open[m.fd])
<1>2. /\ n \in Session /\ n.conn = open[m.fd]
      /\ n.card = IF n.type = "DEBUG" THEN NoCard ELSE open[m.fd].id
  <2>1. open[m.fd] \in Connection /\ m.type \in SessionType
    BY <1>1 DEF TypeOK, TriggerSock
  <2>2. open[m.fd].id \in 0..MaxConns /\ NoCard \in 0..MaxConns
    BY <2>1, BoundsAssumption DEF Connection, NoCard
  <2> QED
    BY <2>1, <2>2 DEF NewSession, Session
<1> HIDE DEF n
<1>3. session' = Put(session, m.fd, n) /\ used' = used + 1
  BY DEF addSession, n
<1>4. /\ DOMAIN session' = DOMAIN session \cup {m.fd} /\ session'[m.fd] = n
      /\ \A g \in DOMAIN session : g # m.fd => session'[g] = session[g]
  BY <1>3 DEF Put
<1>5. DOMAIN session' \subseteq Fds /\ session' \in [DOMAIN session' -> Session]
  BY <1>1, <1>2, <1>3, <1>4, PutType DEF TypeOK, TriggerSock
<1>6. Cardinality(DOMAIN session') =
          IF m.fd \in DOMAIN session THEN Cardinality(DOMAIN session)
          ELSE Cardinality(DOMAIN session) + 1
  BY <1>1, <1>4, MapFinite, FS_AddElement
<1>7. used' \in Nat /\ UsedCounts'
  <2>1. used \in Nat /\ Cardinality(DOMAIN session) \in Nat
    BY <1>1, MapFinite DEF TypeOK
  <2>2. used' \in Nat /\ Cardinality(DOMAIN session') <= used'
    BY <1>1, <1>3, <1>6, <2>1 DEF UsedCounts
  <2>3. ClosesOwn' => used' = Cardinality(DOMAIN session')
    BY <1>1, <1>3, <1>6 DEF UsedCounts, ClosesOwn
  <2> QED
    BY <2>2, <2>3 DEF UsedCounts
<1> QED
  BY <1>2, <1>4, <1>5, <1>7

\* A new connection is nobody's but the socket's that is sent to the worker.
LEMMA AcceptStep ==
  ASSUME IInv, NEW fd \in Fds, NEW type \in Types, listenerAcceptCB(fd, type)
  PROVE  IInv'
<1>1. TypeOK /\ Owned
  BY DEF IInv
<1> DEFINE m == [type |-> type, fd |-> fd]
           c == [id |-> made + 1, host |-> 0]
<1>2. m \in TriggerSock /\ m.fd = fd /\ c \in Connection /\ c.host = 0
  BY <1>1, TypesAssumption, NHostsAssumption, BoundsAssumption
     DEF TriggerSock, SessionType, Connection, TypeOK, listenerAcceptCB
<1> HIDE DEF m, c
<1>3. open' = Put(open, fd, c) /\ mainPair' = Append(mainPair, m)
  BY DEF listenerAcceptCB, m, c
<1>4. /\ DOMAIN open' = DOMAIN open \cup {fd} /\ open'[fd] = c
      /\ \A g \in DOMAIN open : g # fd => open'[g] = open[g]
  BY <1>3 DEF Put
<1>5. DOMAIN open' \subseteq Fds /\ open' \in [DOMAIN open' -> Connection]
  BY <1>1, <1>2, <1>3, <1>4, PutType DEF TypeOK
<1>6. /\ mainPair' \in Seq(TriggerSock)
      /\ FdsOf(mainPair') = FdsOf(mainPair) \cup {fd}
      /\ Lone(mainPair) /\ fd \notin FdsOf(mainPair) => Lone(mainPair')
  BY <1>1, <1>2, <1>3, PairAppend DEF TypeOK
<1>7. /\ fd \notin DOMAIN open
      /\ UNCHANGED <<assistPair, session, used, contin, links, freeing, delayed,
                     registered, scripted, cut>>
      /\ made' \in 0..MaxConns
  BY <1>1, BoundsAssumption DEF TypeOK, listenerAcceptCB
<1>8. TypeOK'
  BY <1>1, <1>5, <1>6, <1>7 DEF TypeOK
<1>9. Owned'
  <2>1. FdsOf(assistPair') = FdsOf(assistPair) /\ Lone(assistPair') = Lone(assistPair)
    BY <1>7
  <2> QED
    BY <1>1, <1>2, <1>4, <1>6, <1>7, <2>1 DEF Owned, ClosesOwn
<1>10. UsedCounts' /\ Cards' /\ RegisteredLive' /\ Fragments'
  BY <1>7 DEF IInv, UsedCounts, Cards, RegisteredLive, Fragments, ClosesOwn
<1> QED
  BY <1>8, <1>9, <1>10 DEF IInv

\* A new outgoing connection likewise; its host is not 0.
LEMMA LinkStep ==
  ASSUME IInv, NEW fd \in Fds, NEW i \in Hosts, Link(i, fd)
  PROVE  IInv'
<1>1. TypeOK /\ Owned
  BY DEF IInv
<1> DEFINE m == [type |-> "TCPCLIENT", fd |-> fd]
           c == [id |-> made + 1, host |-> i]
<1>2. m \in TriggerSock /\ m.fd = fd /\ c \in Connection /\ c.host # 0
  BY <1>1, NHostsAssumption, BoundsAssumption
     DEF TriggerSock, SessionType, Connection, TypeOK, Hosts, Link
<1> HIDE DEF m, c
<1>3. open' = Put(open, fd, c) /\ assistPair' = Append(assistPair, m)
  BY DEF Link, m, c
<1>4. /\ DOMAIN open' = DOMAIN open \cup {fd} /\ open'[fd] = c
      /\ \A g \in DOMAIN open : g # fd => open'[g] = open[g]
  BY <1>3 DEF Put
<1>5. DOMAIN open' \subseteq Fds /\ open' \in [DOMAIN open' -> Connection]
  BY <1>1, <1>2, <1>3, <1>4, PutType DEF TypeOK
<1>6. /\ assistPair' \in Seq(TriggerSock)
      /\ FdsOf(assistPair') = FdsOf(assistPair) \cup {fd}
      /\ Lone(assistPair) /\ fd \notin FdsOf(assistPair) => Lone(assistPair')
  BY <1>1, <1>2, <1>3, PairAppend DEF TypeOK
<1>7. /\ fd \notin DOMAIN open
      /\ UNCHANGED <<mainPair, session, used, contin, freeing, delayed,
                     registered, scripted, cut>>
      /\ made' \in 0..MaxConns
  BY <1>1, BoundsAssumption DEF TypeOK, Link
<1>8. links' \in [Hosts -> LinkInfo]
  BY <1>1 DEF TypeOK, LinkInfo, Link
<1>9. TypeOK'
  BY <1>1, <1>5, <1>6, <1>7, <1>8 DEF TypeOK
<1>10. Owned'
  <2>1. FdsOf(mainPair') = FdsOf(mainPair) /\ Lone(mainPair') = Lone(mainPair)
    BY <1>7
  <2> QED
    BY <1>1, <1>2, <1>4, <1>6, <1>7, <2>1 DEF Owned, ClosesOwn
<1>11. UsedCounts' /\ Cards' /\ RegisteredLive' /\ Fragments'
  BY <1>7 DEF IInv, UsedCounts, Cards, RegisteredLive, Fragments, ClosesOwn
<1> QED
  BY <1>9, <1>10, <1>11 DEF IInv

\* A socket that is closed before it gets a session leaves nothing behind: what
\* dellSession does in these paths changes nothing.
LEMMA DropSock ==
  ASSUME IInv, NEW fd \in Fds, open' = Without(open, fd),
         session' = session \/ session' = Without(session, fd),
         ClosesOwn => fd \notin DOMAIN session,
         UNCHANGED <<used, contin, delayed, registered, scripted, cut>>
  PROVE  /\ DOMAIN open' = DOMAIN open \ {fd}
         /\ \A g \in DOMAIN open' : open'[g] = open[g]
         /\ DOMAIN open' \subseteq Fds /\ open' \in [DOMAIN open' -> Connection]
         /\ DOMAIN session' \subseteq DOMAIN session
         /\ ClosesOwn => DOMAIN session' = DOMAIN session
         /\ \A g \in DOMAIN session' : session'[g] = session[g]
         /\ session' \in [DOMAIN session' -> Session]
         /\ UsedCounts' /\ Cards' /\ RegisteredLive' /\ Fragments'
<1>1. TypeOK
  BY DEF IInv
<1>2. /\ DOMAIN open' = DOMAIN open \ {fd}
      /\ \A g \in DOMAIN open' : open'[g] = open[g]
  BY DEF Without, Restrict
<1>3. DOMAIN open' \subseteq Fds /\ open' \in [DOMAIN open' -> Connection]
  BY <1>1, <1>2, WithoutType DEF TypeOK
<1>4. /\ DOMAIN session' \subseteq DOMAIN session
      /\ ClosesOwn => DOMAIN session' = DOMAIN session
      /\ \A g \in DOMAIN session' : session'[g] = session[g]
  <2>1. CASE session' = session
    BY <2>1
  <2>2. CASE session' = Without(session, fd)
    BY <2>2 DEF Without, Restrict
  <2> QED
    BY <2>1, <2>2
<1>5. session' \in [DOMAIN session' -> Session]
  BY <1>1, WithoutType DEF TypeOK
<1>6. UsedCounts'
  <2>1. /\ Cardinality(DOMAIN session') <= Cardinality(DOMAIN session)
        /\ Cardinality(DOMAIN session') \in Nat /\ Cardinality(DOMAIN session) \in Nat
    BY <1>1, <1>4, MapFinite, FS_Subset, FS_CardinalityType
  <2>2. ClosesOwn' => used' = Cardinality(DOMAIN session')
    BY <1>4 DEF IInv, UsedCounts, ClosesOwn
  <2> QED
    BY <1>1, <2>1, <2>2 DEF IInv, UsedCounts, TypeOK
<1>7. Cards'
  BY <1>4 DEF IInv, Cards
<1>8. RegisteredLive'
  BY <1>4 DEF IInv, RegisteredLive, ClosesOwn
<1>9. Fragments'
  BY <1>4 DEF IInv, Fragments, ClosesOwn
<1> QED
  BY <1>2, <1>3, <1>4, <1>5, <1>6, <1>7, <1>8, <1>9

\* The socket that the worker reads from a pair was nobody else's.
LEMMA MainTaken ==
  ASSUME IInv, NextMain
  PROVE  LET m == Head(mainPair)
         IN  /\ m \in TriggerSock /\ mainPair' \in Seq(TriggerSock)
             /\ ClosesOwn =>
                   /\ m.fd \in DOMAIN open \ DOMAIN session
                   /\ m.fd \in FdsOf(mainPair) /\ m.fd \notin FdsOf(assistPair)
                   /\ FdsOf(mainPair') = FdsOf(mainPair) \ {m.fd}
                   /\ Lone(mainPair')
<1> DEFINE m == Head(mainPair)
<1>1. mainPair \in Seq(TriggerSock) /\ mainPair # << >> /\ mainPair' = Tail(mainPair)
  BY DEF IInv, TypeOK, NextMain
<1>2. /\ m \in TriggerSock /\ mainPair' \in Seq(TriggerSock) /\ m.fd \in FdsOf(mainPair)
      /\ FdsOf(mainPair') \subseteq FdsOf(mainPair)
      /\ FdsOf(mainPair) \subseteq FdsOf(mainPair') \cup {m.fd}
      /\ Lone(mainPair) => Lone(mainPair') /\ m.fd \notin FdsOf(mainPair')
  BY <1>1, PairTail
<1> QED
  BY <1>2 DEF IInv, Owned

\* The same for the other pair.
LEMMA AssistTaken ==
  ASSUME IInv, NextAssist
  PROVE  LET m == Head(assistPair)
         IN  /\ m \in TriggerSock /\ assistPair' \in Seq(TriggerSock)
             /\ ClosesOwn =>
                   /\ m.fd \in DOMAIN open \ DOMAIN session
                   /\ m.fd \in FdsOf(assistPair) /\ m.fd \notin FdsOf(mainPair)
                   /\ FdsOf(assistPair') = FdsOf(assistPair) \ {m.fd}
                   /\ Lone(assistPair')
<1> DEFINE m == Head(assistPair)
<1>1. assistPair \in Seq(TriggerSock) /\ assistPair # << >> /\ assistPair' = Tail(assistPair)
  BY DEF IInv, TypeOK, NextAssist
<1>2. /\ m \in TriggerSock /\ assistPair' \in Seq(TriggerSock) /\ m.fd \in FdsOf(assistPair)
      /\ FdsOf(assistPair') \subseteq FdsOf(assistPair)
      /\ FdsOf(assistPair) \subseteq FdsOf(assistPair') \cup {m.fd}
      /\ Lone(assistPair) => Lone(assistPair') /\ m.fd \notin FdsOf(assistPair')
  BY <1>1, PairTail
<1> QED
  BY <1>2 DEF IInv, Owned

\* It gets its session ...
LEMMA onMainReadStep ==
  ASSUME IInv, onMainRead
  PROVE  IInv'
<1> DEFINE m == Head(mainPair)
<1>1. TypeOK /\ Owned
  BY DEF IInv
<1>2. NextMain /\ m.fd \in DOMAIN open /\ addSession(m.fd, m.type)
  BY DEF onMainRead
<1>3. UNCHANGED <<open, assistPair, contin, links, freeing, delayed, registered,
                  made, scripted, cut>>
  BY DEF onMainRead
<1>4. /\ m \in TriggerSock /\ mainPair' \in Seq(TriggerSock)
      /\ ClosesOwn =>
            /\ m.fd \in DOMAIN open \ DOMAIN session
            /\ m.fd \in FdsOf(mainPair) /\ m.fd \notin FdsOf(assistPair)
            /\ FdsOf(mainPair') = FdsOf(mainPair) \ {m.fd}
            /\ Lone(mainPair')
  BY <1>2, MainTaken
<1> HIDE DEF m
<1>5. /\ DOMAIN session' = DOMAIN session \cup {m.fd}
      /\ session'[m.fd].conn = open[m.fd]
      /\ session'[m.fd].card =
            IF session'[m.fd].type = "DEBUG" THEN NoCard ELSE open[m.fd].id
      /\ \A g \in DOMAIN session : g # m.fd => session'[g] = session[g]
      /\ DOMAIN session' \subseteq Fds /\ session' \in [DOMAIN session' -> Session]
      /\ used' \in Nat
      /\ UsedCounts'
  BY Zenon, <1>2, <1>3, <1>4, NewLink
<1>6. TypeOK'
  BY <1>1, <1>3, <1>4, <1>5 DEF TypeOK
<1>7. Owned'
  <2>1. FdsOf(assistPair') = FdsOf(assistPair) /\ Lone(assistPair') = Lone(assistPair)
    BY <1>3
  <2> QED
    BY <1>1, <1>3, <1>4, <1>5, <2>1 DEF Owned, ClosesOwn
<1>8. Cards'
  BY <1>3, <1>5 DEF IInv, Cards
<1>9. RegisteredLive'
  BY <1>3, <1>4, <1>5 DEF IInv, RegisteredLive, ClosesOwn
<1>10. Fragments'
  BY <1>3, <1>4, <1>5 DEF IInv, Fragments, ClosesOwn
<1> QED
  BY <1>5, <1>6, <1>7, <1>8, <1>9, <1>10 DEF IInv

\* The same for a socket of the link monitor.
LEMMA onAssistReadStep ==
  ASSUME IInv, onAssistRead
  PROVE  IInv'
<1> DEFINE m == Head(assistPair)
<1>1. TypeOK /\ Owned
  BY DEF IInv
<1>2. NextAssist /\ m.fd \in DOMAIN open /\ addSession(m.fd, m.type)
  BY DEF onAssistRead
<1>3. UNCHANGED <<open, mainPair, contin, freeing, delayed, registered,
                  made, scripted, cut>>
  BY DEF onAssistRead
<1>4. /\ m \in TriggerSock /\ assistPair' \in Seq(TriggerSock)
      /\ ClosesOwn =>
            /\ m.fd \in DOMAIN open \ DOMAIN session
            /\ m.fd \in FdsOf(assistPair) /\ m.fd \notin FdsOf(mainPair)
            /\ FdsOf(assistPair') = FdsOf(assistPair) \ {m.fd}
            /\ Lone(assistPair')
  BY <1>2, AssistTaken
<1> HIDE DEF m
<1>5. /\ DOMAIN session' = DOMAIN session \cup {m.fd}
      /\ session'[m.fd].conn = open[m.fd]
      /\ session'[m.fd].card =
            IF session'[m.fd].type = "DEBUG" THEN NoCard ELSE open[m.fd].id
      /\ \A g \in DOMAIN session : g # m.fd => session'[g] = session[g]
      /\ DOMAIN session' \subseteq Fds /\ session' \in [DOMAIN session' -> Session]
      /\ used' \in Nat
      /\ UsedCounts'
  BY Zenon, <1>2, <1>3, <1>4, NewLink
<1>6. TypeOK'
  <2>1. links' \in [Hosts -> LinkInfo]
    BY <1>1, StatusType DEF onAssistRead
  <2> QED
    BY <1>1, <1>3, <1>4, <1>5, <2>1 DEF TypeOK
<1>7. Owned'
  <2>1. FdsOf(mainPair') = FdsOf(mainPair) /\ Lone(mainPair') = Lone(mainPair)
    BY <1>3
  <2> QED
    BY <1>1, <1>3, <1>4, <1>5, <2>1 DEF Owned, ClosesOwn
<1>8. Cards'
  BY <1>3, <1>5 DEF IInv, Cards
<1>9. RegisteredLive'
  BY <1>3, <1>4, <1>5 DEF IInv, RegisteredLive, ClosesOwn
<1>10. Fragments'
  BY <1>3, <1>4, <1>5 DEF IInv, Fragments, ClosesOwn
<1> QED
  BY <1>5, <1>6, <1>7, <1>8, <1>9, <1>10 DEF IInv

\* ... or is closed, or lost (an accepted one never is).
LEMMA onMainReadNoBevStep ==
  ASSUME IInv, onMainReadNoBev
  PROVE  IInv'
<1> DEFINE m == Head(mainPair)
<1>1. TypeOK /\ Owned
  BY DEF IInv
<1>2. /\ NextMain /\ open' = Without(open, m.fd)
      /\ session' = session \/ session' = Without(session, m.fd)
  BY DEF onMainReadNoBev
<1>3. UNCHANGED <<assistPair, used, contin, links, freeing, delayed, registered,
                  made, scripted, cut>>
  BY DEF onMainReadNoBev
<1>4. /\ m \in TriggerSock /\ mainPair' \in Seq(TriggerSock)
      /\ ClosesOwn =>
            /\ m.fd \in DOMAIN open \ DOMAIN session
            /\ m.fd \in FdsOf(mainPair) /\ m.fd \notin FdsOf(assistPair)
            /\ FdsOf(mainPair') = FdsOf(mainPair) \ {m.fd}
            /\ Lone(mainPair')
  BY <1>2, MainTaken
<1> HIDE DEF m
<1>5. /\ DOMAIN open' = DOMAIN open \ {m.fd}
      /\ \A g \in DOMAIN open' : open'[g] = open[g]
      /\ DOMAIN open' \subseteq Fds /\ open' \in [DOMAIN open' -> Connection]
      /\ DOMAIN session' \subseteq DOMAIN session
      /\ ClosesOwn => DOMAIN session' = DOMAIN session
      /\ \A g \in DOMAIN session' : session'[g] = session[g]
      /\ session' \in [DOMAIN session' -> Session]
      /\ UsedCounts' /\ Cards' /\ RegisteredLive' /\ Fragments'
  <2>1. m.fd \in Fds
    BY <1>4 DEF TriggerSock
  <2> QED
    BY Zenon, <1>2, <1>3, <1>4, <2>1, DropSock
<1>6. TypeOK'
  BY <1>1, <1>3, <1>4, <1>5 DEF TypeOK
<1>7. Owned'
  <2>1. FdsOf(assistPair') = FdsOf(assistPair) /\ Lone(assistPair') = Lone(assistPair)
    BY <1>3
  <2> QED
    BY <1>1, <1>3, <1>4, <1>5, <2>1 DEF Owned, ClosesOwn
<1> QED
  BY <1>5, <1>6, <1>7 DEF IInv

\* The first of the two closes of onMainRead.
LEMMA onMainReadCloseStep ==
  ASSUME IInv, onMainReadClose
  PROVE  IInv'
<1> DEFINE m == Head(mainPair)
<1>1. TypeOK /\ Owned
  BY DEF IInv
<1>2. /\ NextMain /\ open' = Without(open, m.fd)
      /\ session' = session \/ session' = Without(session, m.fd)
  BY DEF onMainReadClose
<1>3. UNCHANGED <<assistPair, used, contin, links, delayed, registered, made,
                  scripted, cut>>
  BY DEF onMainReadClose
<1>4. /\ m \in TriggerSock /\ mainPair' \in Seq(TriggerSock)
      /\ ClosesOwn =>
            /\ m.fd \in DOMAIN open \ DOMAIN session
            /\ m.fd \in FdsOf(mainPair) /\ m.fd \notin FdsOf(assistPair)
            /\ FdsOf(mainPair') = FdsOf(mainPair) \ {m.fd}
            /\ Lone(mainPair')
  BY <1>2, MainTaken
<1> HIDE DEF m
<1>5. /\ DOMAIN open' = DOMAIN open \ {m.fd}
      /\ \A g \in DOMAIN open' : open'[g] = open[g]
      /\ DOMAIN open' \subseteq Fds /\ open' \in [DOMAIN open' -> Connection]
      /\ DOMAIN session' \subseteq DOMAIN session
      /\ ClosesOwn => DOMAIN session' = DOMAIN session
      /\ \A g \in DOMAIN session' : session'[g] = session[g]
      /\ session' \in [DOMAIN session' -> Session]
      /\ UsedCounts' /\ Cards' /\ RegisteredLive' /\ Fragments'
  <2>1. m.fd \in Fds
    BY <1>4 DEF TriggerSock
  <2> QED
    BY Zenon, <1>2, <1>3, <1>4, <2>1, DropSock
<1>6. TypeOK'
  <2>1. freeing' \in SUBSET Fds
    BY <1>1, <1>4 DEF TypeOK, onMainReadClose, m, TriggerSock
  <2> QED
    BY <1>1, <1>3, <1>4, <1>5, <2>1 DEF TypeOK
<1>7. Owned'
  <2>1. FdsOf(assistPair') = FdsOf(assistPair) /\ Lone(assistPair') = Lone(assistPair)
    BY <1>3
  <2> QED
    BY <1>1, <1>3, <1>4, <1>5, <2>1 DEF Owned, ClosesOwn
<1> QED
  BY <1>5, <1>6, <1>7 DEF IInv

\* The close of onAssistRead, which is one.
LEMMA onAssistReadFreeStep ==
  ASSUME IInv, onAssistReadFree
  PROVE  IInv'
<1> DEFINE m == Head(assistPair)
<1>1. TypeOK /\ Owned
  BY DEF IInv
<1>2. /\ NextAssist /\ open' = Without(open, m.fd)
      /\ session' = session \/ session' = Without(session, m.fd)
  BY DEF onAssistReadFree
<1>3. UNCHANGED <<mainPair, used, contin, freeing, delayed, registered, made,
                  scripted, cut>>
  BY DEF onAssistReadFree
<1>4. /\ m \in TriggerSock /\ assistPair' \in Seq(TriggerSock)
      /\ ClosesOwn =>
            /\ m.fd \in DOMAIN open \ DOMAIN session
            /\ m.fd \in FdsOf(assistPair) /\ m.fd \notin FdsOf(mainPair)
            /\ FdsOf(assistPair') = FdsOf(assistPair) \ {m.fd}
            /\ Lone(assistPair')
  BY <1>2, AssistTaken
<1> HIDE DEF m
<1>5. /\ DOMAIN open' = DOMAIN open \ {m.fd}
      /\ \A g \in DOMAIN open' : open'[g] = open[g]
      /\ DOMAIN open' \subseteq Fds /\ open' \in [DOMAIN open' -> Connection]
      /\ DOMAIN session' \subseteq DOMAIN session
      /\ ClosesOwn => DOMAIN session' = DOMAIN session
      /\ \A g \in DOMAIN session' : session'[g] = session[g]
      /\ session' \in [DOMAIN session' -> Session]
      /\ UsedCounts' /\ Cards' /\ RegisteredLive' /\ Fragments'
  <2>1. m.fd \in Fds
    BY <1>4 DEF TriggerSock
  <2> QED
    BY Zenon, <1>2, <1>3, <1>4, <2>1, DropSock
<1>6. TypeOK'
  <2>1. links' \in [Hosts -> LinkInfo]
    BY <1>1, StatusType DEF onAssistReadFree
  <2> QED
    BY <1>1, <1>3, <1>4, <1>5, <2>1 DEF TypeOK
<1>7. Owned'
  <2>1. FdsOf(mainPair') = FdsOf(mainPair) /\ Lone(mainPair') = Lone(mainPair)
    BY <1>3
  <2> QED
    BY <1>1, <1>3, <1>4, <1>5, <2>1 DEF Owned, ClosesOwn
<1> QED
  BY <1>5, <1>6, <1>7 DEF IInv

\* onAssistRead drops a socket and leaves it open.
LEMMA onAssistReadNoBevStep ==
  ASSUME IInv, onAssistReadNoBev
  PROVE  IInv'
<1> DEFINE m == Head(assistPair)
<1>1. TypeOK /\ Owned
  BY DEF IInv
<1>2. /\ NextAssist
      /\ UNCHANGED <<open, mainPair, session, used, contin, freeing, delayed,
                     registered, made, scripted, cut>>
  BY DEF onAssistReadNoBev
<1>3. /\ assistPair' \in Seq(TriggerSock)
      /\ ClosesOwn =>
            /\ m.fd \in FdsOf(assistPair)
            /\ FdsOf(assistPair') = FdsOf(assistPair) \ {m.fd}
            /\ Lone(assistPair')
  BY <1>2, AssistTaken
<1> HIDE DEF m
<1>4. TypeOK'
  <2>1. links' \in [Hosts -> LinkInfo]
    BY <1>1, StatusType DEF onAssistReadNoBev
  <2> QED
    BY <1>1, <1>2, <1>3, <2>1 DEF TypeOK
<1>5. Owned'
  <2>1. FdsOf(mainPair') = FdsOf(mainPair) /\ Lone(mainPair') = Lone(mainPair)
    BY <1>2
  <2> QED
    BY <1>1, <1>2, <1>3, <2>1 DEF Owned, ClosesOwn
<1>6. UsedCounts' /\ Cards' /\ RegisteredLive' /\ Fragments'
  BY <1>2 DEF IInv, UsedCounts, Cards, RegisteredLive, Fragments, ClosesOwn
<1> QED
  BY <1>4, <1>5, <1>6 DEF IInv

\* The second close hits nobody, or cut says whom it has hit.
LEMMA onMainReadFreeStep ==
  ASSUME IInv, onMainReadFree
  PROVE  IInv'
<1>1. TypeOK
  BY DEF IInv
<1>2. UNCHANGED <<mainPair, assistPair, session, used, contin, links, delayed,
                  registered, made, scripted>>
  BY DEF onMainReadFree
<1>3. /\ open' = Restrict(open, DOMAIN open \ freeing)
      /\ cut' = cut \cup {open[fd].id : fd \in freeing \cap DOMAIN open}
      /\ freeing' = {}
  BY DEF onMainReadFree
<1>4. DOMAIN open' \subseteq Fds /\ open' \in [DOMAIN open' -> Connection]
  BY <1>1, <1>3 DEF TypeOK, Restrict
<1>5. cut' \in SUBSET (1..MaxConns)
  BY <1>1, <1>3 DEF TypeOK, Connection
<1>6. TypeOK'
  BY Zenon, <1>1, <1>2, <1>3, <1>4, <1>5 DEF TypeOK
<1>7. ASSUME ClosesOwn' PROVE ClosesOwn /\ open' = open
  <2>1. cut = {} /\ freeing \cap DOMAIN open = {}
    BY <1>3, <1>7 DEF ClosesOwn
  <2>2. open' = [fd \in DOMAIN open |-> open[fd]]
    BY <1>3, <2>1 DEF Restrict
  <2> QED
    BY <1>1, <2>1, <2>2 DEF TypeOK, ClosesOwn
<1>8. Owned'
  <2>1. /\ FdsOf(mainPair') = FdsOf(mainPair) /\ Lone(mainPair') = Lone(mainPair)
        /\ FdsOf(assistPair') = FdsOf(assistPair) /\ Lone(assistPair') = Lone(assistPair)
    BY <1>2
  <2> QED
    BY <1>2, <1>7, <2>1 DEF IInv, Owned
<1>9. UsedCounts' /\ Cards' /\ RegisteredLive' /\ Fragments'
  BY <1>2, <1>7 DEF IInv, UsedCounts, Cards, RegisteredLive, Fragments
<1> QED
  BY <1>6, <1>8, <1>9 DEF IInv

\* A close is sound when it erases the fragments, when there are none of this
\* connection, or when scripted says that there may be some.
LEMMA CloseStep ==
  ASSUME IInv, NEW fd \in DOMAIN session, closeLinkByID(fd),
         UNCHANGED <<mainPair, assistPair, freeing, made, cut>>,
         delayed' \subseteq delayed,
         scripted' = scripted \/ scripted' = scripted \cup {session[fd].conn.id},
         \/ contin' = Without(contin, fd)
         \/ /\ contin' = contin
            /\ \/ session[fd].type # "WEBSOCK" \/ session[fd].status # "LINKED"
               \/ session[fd].conn.id \in scripted'
  PROVE  IInv'
<1>1. TypeOK /\ Cards /\ Fragments
  BY DEF IInv
<1>2. /\ DOMAIN open' \subseteq Fds /\ open' \in [DOMAIN open' -> Connection]
      /\ DOMAIN session' = DOMAIN session \ {fd}
      /\ \A g \in DOMAIN session' : session'[g] = session[g]
      /\ session' \in [DOMAIN session' -> Session]
      /\ used' \in Nat
      /\ links' \in [Hosts -> LinkInfo]
      /\ registered' \subseteq registered
      /\ Owned' /\ UsedCounts' /\ RegisteredLive'
  BY CloseLink
<1>3. session[fd].conn.id \in 1..MaxConns
  BY <1>1 DEF TypeOK, Session, Connection
<1>4. /\ DOMAIN contin' \subseteq DOMAIN contin
      /\ \A g \in DOMAIN contin' : contin'[g] = contin[g]
      /\ contin' = contin \/ fd \notin DOMAIN contin'
      /\ contin' \in [DOMAIN contin' -> SUBSET (1..MaxConns)]
  <2>1. CASE contin' = contin
    BY <1>1, <2>1 DEF TypeOK
  <2>2. CASE contin' = Without(contin, fd)
    BY <1>1, <2>2 DEF TypeOK, Without, Restrict
  <2> QED
    BY <2>1, <2>2
<1>5. TypeOK'
  <2>1. scripted' \in SUBSET (1..MaxConns)
    BY <1>1, <1>3 DEF TypeOK
  <2> QED
    BY <1>1, <1>2, <1>4, <2>1 DEF TypeOK
<1>6. Cards'
  BY <1>1, <1>2 DEF Cards
<1>7. Fragments'
  <2> SUFFICES ASSUME ClosesOwn', NEW g \in DOMAIN contin', NEW c \in contin'[g]
               PROVE  \/ c \in scripted'
                      \/ /\ g \in DOMAIN session' /\ c = session'[g].conn.id
                         /\ session'[g].type = "WEBSOCK"
                         /\ session'[g].status = "LINKED"
    BY DEF Fragments
  <2>1. g \in DOMAIN contin /\ c \in contin[g] /\ ClosesOwn
    BY <1>4 DEF ClosesOwn
  <2>2. \/ c \in scripted
        \/ /\ g \in DOMAIN session /\ c = session[g].conn.id
           /\ session[g].type = "WEBSOCK" /\ session[g].status = "LINKED"
    BY <1>1, <2>1 DEF Fragments
  <2>3. CASE g = fd
    BY <1>4, <2>2, <2>3 DEF Without, Restrict
  <2>4. CASE g # fd
    BY <1>2, <2>2, <2>4
  <2> QED
    BY <2>3, <2>4
<1> QED
  BY <1>2, <1>5, <1>6, <1>7 DEF IInv

\* Events of the connection erase the fragments when there may be any.
LEMMA ClosersStep ==
  ASSUME IInv, NEW fd \in DOMAIN session,
         \/ workThreadEventCB(fd) \/ shakeHandsClose(fd) \/ closeFrame(fd)
         \/ closeCurLink(fd)
  PROVE  IInv'
<1>1. /\ closeLinkByID(fd)
      /\ UNCHANGED <<mainPair, assistPair, freeing, delayed, made, scripted, cut>>
  BY DEF workThreadEventCB, shakeHandsClose, closeFrame, closeCurLink
<1>2. \/ contin' = Without(contin, fd)
      \/ /\ contin' = contin
         /\ session[fd].type # "WEBSOCK" \/ session[fd].status # "LINKED"
  BY DEF workThreadEventCB, shakeHandsClose, closeFrame, closeCurLink, WebSock
<1> QED
  BY <1>1, <1>2, CloseStep

\* realClose leaves them, and scripted says so.
LEMMA RealCloseStep ==
  ASSUME IInv, NEW r \in delayed, realClose(r)
  PROVE  IInv'
<1>1. /\ r.fd \in DOMAIN session /\ closeLinkByID(r.fd)
      /\ delayed' \subseteq delayed
      /\ scripted' = scripted \cup {session[r.fd].conn.id}
      /\ UNCHANGED <<mainPair, assistPair, contin, freeing, made, cut>>
  BY DEF realClose
<1>2. session[r.fd].conn.id \in scripted'
  BY <1>1
<1> QED
  BY <1>1, <1>2, CloseStep

\* The handshake makes the session a linked one, which has no fragments yet.
LEMMA ShakeStep ==
  ASSUME IInv, NEW fd \in DOMAIN session, shakeHands(fd)
  PROVE  IInv'
<1>1. TypeOK
  BY DEF IInv
<1>2. /\ session' = [session EXCEPT ![fd].status = "LINKED"]
      /\ session[fd].status = "CONNECT"
      /\ UNCHANGED <<open, mainPair, assistPair, used, contin, links, freeing,
                     delayed, registered, made, scripted, cut>>
  BY DEF shakeHands
<1>3. /\ DOMAIN session' = DOMAIN session /\ session' \in [DOMAIN session' -> Session]
      /\ \A g \in DOMAIN session :
            /\ session'[g].conn = session[g].conn /\ session'[g].card = session[g].card
            /\ session'[g].type = session[g].type
            /\ g # fd => session'[g].status = session[g].status
  BY Zenon, <1>1, <1>2 DEF TypeOK, Session
<1>4. TypeOK'
  BY <1>1, <1>2, <1>3 DEF TypeOK
<1>5. Owned'
  <2>1. /\ FdsOf(mainPair') = FdsOf(mainPair) /\ Lone(mainPair') = Lone(mainPair)
        /\ FdsOf(assistPair') = FdsOf(assistPair) /\ Lone(assistPair') = Lone(assistPair)
    BY <1>2
  <2> QED
    BY <1>2, <1>3, <2>1 DEF IInv, Owned, ClosesOwn
<1>6. UsedCounts' /\ Cards'
  BY <1>2, <1>3 DEF IInv, UsedCounts, Cards, ClosesOwn
<1>7. RegisteredLive'
  BY <1>2, <1>3 DEF IInv, RegisteredLive, ClosesOwn
<1>8. Fragments'
  BY <1>2, <1>3 DEF IInv, Fragments, ClosesOwn
<1> QED
  BY <1>4, <1>5, <1>6, <1>7, <1>8 DEF IInv

\* The steps that leave the descriptors and the map alone.
LEMMA QuietOwned ==
  ASSUME IInv, UNCHANGED <<open, mainPair, assistPair, session, used, cut>>
  PROVE  Owned' /\ UsedCounts'
<1>1. /\ FdsOf(mainPair') = FdsOf(mainPair) /\ Lone(mainPair') = Lone(mainPair)
      /\ FdsOf(assistPair') = FdsOf(assistPair) /\ Lone(assistPair') = Lone(assistPair)
  OBVIOUS
<1>2. Owned'
  BY <1>1 DEF IInv, Owned, ClosesOwn
<1>3. UsedCounts'
  BY DEF IInv, UsedCounts, ClosesOwn
<1> QED
  BY <1>2, <1>3

\* Fragments are added and taken for the session that is read.
LEMMA FragmentStep ==
  ASSUME IInv, NEW fd \in DOMAIN session, addContinuation(fd) \/ lastFragment(fd)
  PROVE  IInv'
<1>1. TypeOK
  BY DEF IInv
<1>2. /\ session[fd].type = "WEBSOCK" /\ session[fd].status = "LINKED"
      /\ UNCHANGED <<open, mainPair, assistPair, session, used, links, freeing,
                     delayed, registered, made, scripted, cut>>
  BY DEF addContinuation, lastFragment, Reads, WebSock
<1>3. PICK S : /\ contin' = Put(contin, fd, S)
               /\ \A c \in S : \/ c = session[fd].conn.id
                               \/ fd \in DOMAIN contin /\ c \in contin[fd]
  <2>1. CASE addContinuation(fd)
    <3> DEFINE old == IF fd \in DOMAIN contin THEN contin[fd] ELSE {}
               new == old \cup {session[fd].conn.id}
    <3>1. contin' = Put(contin, fd, new)
      BY <2>1 DEF addContinuation
    <3>2. \A c \in new : \/ c = session[fd].conn.id
                         \/ fd \in DOMAIN contin /\ c \in contin[fd]
      OBVIOUS
    <3> HIDE DEF new
    <3> QED
      BY <3>1, <3>2
  <2>2. CASE lastFragment(fd)
    <3>1. contin' = Put(contin, fd, {})
      BY <2>2 DEF lastFragment
    <3> QED
      BY <3>1
  <2> QED
    BY <2>1, <2>2
<1>4. /\ DOMAIN contin' = DOMAIN contin \cup {fd} /\ contin'[fd] = S
      /\ \A g \in DOMAIN contin : g # fd => contin'[g] = contin[g]
  BY <1>3 DEF Put
<1>5. fd \in Fds /\ S \in SUBSET (1..MaxConns)
  <2>1. session[fd].conn.id \in 1..MaxConns
    BY <1>1 DEF TypeOK, Session, Connection
  <2>2. fd \in DOMAIN contin => contin[fd] \subseteq 1..MaxConns
    BY <1>1 DEF TypeOK
  <2> QED
    BY <1>1, <1>3, <2>1, <2>2 DEF TypeOK
<1>6. contin' \in [DOMAIN contin' -> SUBSET (1..MaxConns)]
  BY Zenon, <1>1, <1>3, <1>5, PutType DEF TypeOK
<1>7. TypeOK'
  BY <1>1, <1>2, <1>4, <1>5, <1>6 DEF TypeOK
<1>8. Fragments'
  BY <1>2, <1>3, <1>4 DEF IInv, Fragments, ClosesOwn
<1>9. Cards' /\ RegisteredLive'
  BY <1>2 DEF IInv, Cards, RegisteredLive, ClosesOwn
<1> QED
  BY <1>2, <1>7, <1>8, <1>9, QuietOwned DEF IInv

\* A session registers itself under its own card.
LEMMA RegisterStep ==
  ASSUME IInv, NEW fd \in DOMAIN session, regLinkedOther(fd)
  PROVE  IInv'
<1>1. TypeOK
  BY DEF IInv
<1> DEFINE n == [card |-> session[fd].card, fd |-> fd]
<1>2. /\ session[fd].type # "DEBUG"
      /\ registered' = {r \in registered : r.card # session[fd].card} \cup {n}
      /\ UNCHANGED <<open, mainPair, assistPair, session, used, contin, links,
                     freeing, delayed, made, scripted, cut>>
  BY DEF regLinkedOther
<1>3. n \in [card : 1..MaxConns, fd : Fds] /\ n.card = session[fd].card /\ n.fd = fd
  <2>1. fd \in Fds /\ session[fd].conn.id \in 1..MaxConns
    BY <1>1 DEF TypeOK, Session, Connection
  <2>2. session[fd].card = session[fd].conn.id
    BY <1>2 DEF IInv, Cards
  <2> QED
    BY <2>1, <2>2
<1> HIDE DEF n
<1>4. TypeOK'
  <2>1. registered' \subseteq [card : 1..MaxConns, fd : Fds]
    BY <1>1, <1>2, <1>3 DEF TypeOK
  <2> QED
    BY <1>1, <1>2, <2>1 DEF TypeOK
<1>5. RegisteredLive'
  BY <1>2, <1>3 DEF IInv, RegisteredLive, ClosesOwn
<1>6. Cards' /\ Fragments'
  BY <1>2 DEF IInv, Cards, Fragments, ClosesOwn
<1> QED
  BY <1>2, <1>4, <1>5, <1>6, QuietOwned DEF IInv

\* A delayed close is asked for with the card of the session, or dropped.
LEMMA DelayStep ==
  ASSUME IInv,
         \/ \E fd \in DOMAIN session : closeID(fd)
         \/ \E r \in delayed : realCloseSkips(r)
  PROVE  IInv'
<1>1. TypeOK /\ Cards
  BY DEF IInv
<1>2. UNCHANGED <<open, mainPair, assistPair, session, used, contin, links, freeing,
                  registered, made, scripted, cut>>
  BY DEF closeID, realCloseSkips
<1>3. \A r \in delayed' :
          \/ r \in delayed
          \/ \E fd \in DOMAIN session :
                r = [fd |-> fd, card |-> session[fd].card, of |-> session[fd].conn.id]
  BY DEF closeID, realCloseSkips
<1>4. ASSUME NEW fd \in DOMAIN session
      PROVE  /\ fd \in Fds /\ session[fd].conn.id \in 1..MaxConns
             /\ session[fd].card \in 0..MaxConns
             /\ session[fd].card \in {NoCard, session[fd].conn.id}
  BY <1>1 DEF TypeOK, Session, Connection, Cards
<1>5. \A r \in delayed' :
          /\ r \in [fd : Fds, card : 0..MaxConns, of : 1..MaxConns]
          /\ r.card \in {NoCard, r.of}
  BY <1>1, <1>3, <1>4 DEF TypeOK, Cards
<1>6. TypeOK' /\ Cards'
  BY <1>1, <1>2, <1>5 DEF TypeOK, Cards
<1>7. RegisteredLive' /\ Fragments'
  BY <1>2 DEF IInv, RegisteredLive, Fragments, ClosesOwn
<1> QED
  BY <1>2, <1>6, <1>7, QuietOwned DEF IInv

\* A step that changes nothing.
LEMMA StutterStep ==
  ASSUME IInv, UNCHANGED vars
  PROVE  IInv'
<1>1. UNCHANGED <<open, mainPair, assistPair, session, used, cut>>
  BY DEF vars
<1>2. TypeOK'
  BY DEF IInv, TypeOK, vars
<1>3. Cards' /\ RegisteredLive' /\ Fragments'
  BY DEF IInv, Cards, RegisteredLive, Fragments, ClosesOwn, vars
<1> QED
  BY <1>1, <1>2, <1>3, QuietOwned DEF IInv

-----------------------------------------------------------------------------
(* The theorems.                                                           *)

\* The inductive invariant holds at the start,
LEMMA InitIInv == Init => IInv
<1> SUFFICES ASSUME Init PROVE IInv
  OBVIOUS
<1>1. /\ DOMAIN open = {} /\ DOMAIN session = {} /\ DOMAIN contin = {}
      /\ Len(mainPair) = 0 /\ Len(assistPair) = 0
  BY DEF Init
<1>2. TypeOK
  <2>1. /\ open \in [DOMAIN open -> Connection]
        /\ session \in [DOMAIN session -> Session]
        /\ contin \in [DOMAIN contin -> SUBSET (1..MaxConns)]
    BY <1>1 DEF Init
  <2>2. mainPair \in Seq(TriggerSock) /\ assistPair \in Seq(TriggerSock)
    BY DEF Init
  <2>3. links \in [Hosts -> LinkInfo]
    BY DEF Init, LinkInfo
  <2>4. /\ used \in Nat /\ made \in 0..MaxConns
        /\ freeing = {} /\ delayed = {} /\ registered = {} /\ scripted = {} /\ cut = {}
    BY BoundsAssumption DEF Init
  <2> QED
    BY <1>1, <2>1, <2>2, <2>3, <2>4 DEF TypeOK
<1>3. FdsOf(mainPair) = {} /\ FdsOf(assistPair) = {} /\ Lone(mainPair) /\ Lone(assistPair)
  BY <1>1 DEF FdsOf, Lone
<1>4. Owned
  BY <1>1, <1>3 DEF Owned
<1>5. UsedCounts
  BY <1>1, FS_EmptySet DEF Init, UsedCounts
<1>6. Cards /\ RegisteredLive /\ Fragments
  BY <1>1 DEF Init, Cards, RegisteredLive, Fragments
<1> QED
  BY <1>2, <1>4, <1>5, <1>6 DEF IInv

\* every step keeps it,
LEMMA NextIInv ==
  ASSUME IInv, [Next]_vars
  PROVE  IInv'
<1>1. ASSUME NEW fd \in DOMAIN session, SessionEvent(fd) PROVE IInv'
  BY <1>1, ClosersStep, ShakeStep, FragmentStep, RegisterStep, DelayStep
     DEF SessionEvent
<1>2. ASSUME NEW r \in delayed, realCloseSkips(r) \/ realClose(r) PROVE IInv'
  BY <1>2, DelayStep, RealCloseStep
<1>3. CASE MainRead \/ onMainReadFree \/ AssistRead
  BY <1>3, onMainReadStep, onMainReadNoBevStep, onMainReadCloseStep,
     onMainReadFreeStep, onAssistReadStep, onAssistReadNoBevStep,
     onAssistReadFreeStep
     DEF MainRead, AssistRead
<1> QED
  BY <1>1, <1>2, <1>3, AcceptStep, LinkStep, StutterStep DEF Next

\* and so it holds always.
LEMMA Invariance == Spec => []IInv
  BY InitIInv, NextIInv, PTL DEF Spec

\* Every variable stays in its range; the pool's count never goes below zero,
\* also when a second close has hit a foreign connection.
THEOREM TypeCorrect == Spec => []TypeOK
<1>1. IInv => TypeOK
  BY DEF IInv
<1> QED
  BY <1>1, Invariance, PTL

\* Two sequences one after the other.
LEMMA Concat ==
  ASSUME NEW a \in Nat, NEW b \in Nat, NEW u \in [1..a -> Fds], NEW v \in [1..b -> Fds]
  PROVE  /\ DOMAIN (u \o v) = 1..(a + b)
         /\ \A k \in 1..a : (u \o v)[k] = u[k]
         /\ \A k \in 1..b : (u \o v)[a + k] = v[k]
<1>1. u \in Seq(Fds) /\ v \in Seq(Fds) /\ Len(u) = a /\ Len(v) = b
  OBVIOUS
<1>2. u \o v \in Seq(Fds) /\ Len(u \o v) = a + b
  BY <1>1
<1>3. DOMAIN (u \o v) = 1..(a + b)
  BY <1>2
<1>4. \A k \in 1..a : (u \o v)[k] = u[k]
  BY <1>1
<1>5. \A k \in 1..b : (u \o v)[a + k] = v[k]
  BY <1>1
<1> QED
  BY <1>3, <1>4, <1>5

\* The sockets under way are those of the two pairs.
LEMMA TravellingFds ==
  ASSUME TypeOK
  PROVE  /\ Range(Travelling) = FdsOf(mainPair) \cup FdsOf(assistPair)
         /\ /\ Lone(mainPair) /\ Lone(assistPair)
            /\ FdsOf(mainPair) \cap FdsOf(assistPair) = {}
            => IsInjective(Travelling)
<1> DEFINE a == Len(mainPair)
           b == Len(assistPair)
           T == Travelling
<1>1. a \in Nat /\ b \in Nat
  BY DEF TypeOK
<1>2. /\ DOMAIN T = 1..(a + b)
      /\ \A k \in 1..a : T[k] = mainPair[k].fd
      /\ \A k \in 1..b : T[a + k] = assistPair[k].fd
  <2> DEFINE u == [k \in 1..a |-> mainPair[k].fd]
             v == [k \in 1..b |-> assistPair[k].fd]
  <2>1. u \in [1..a -> Fds] /\ v \in [1..b -> Fds]
    <3>1. /\ \A k \in 1..a : mainPair[k] \in TriggerSock
          /\ \A k \in 1..b : assistPair[k] \in TriggerSock
      BY DEF TypeOK
    <3> QED
      BY <3>1 DEF TriggerSock
  <2>2. T = u \o v
    BY DEF Travelling
  <2>3. /\ \A k \in 1..a : u[k] = mainPair[k].fd
        /\ \A k \in 1..b : v[k] = assistPair[k].fd
    OBVIOUS
  <2> HIDE DEF u, v, T, a, b
  <2>4. /\ DOMAIN (u \o v) = 1..(a + b)
        /\ \A k \in 1..a : (u \o v)[k] = u[k]
        /\ \A k \in 1..b : (u \o v)[a + k] = v[k]
    BY Zenon, <1>1, <2>1, Concat
  <2>5. /\ DOMAIN T = 1..(a + b)
        /\ \A k \in 1..a : T[k] = u[k]
        /\ \A k \in 1..b : T[a + k] = v[k]
    BY <2>2, <2>4, Zenon
  <2> QED
    BY <2>3, <2>5
<1>3. /\ \A k \in 1..(a + b) : k \in 1..a \/ (k - a \in 1..b /\ k = a + (k - a))
      /\ \A k \in 1..a : k \in 1..(a + b)
      /\ \A k \in 1..b : a + k \in 1..(a + b)
  BY <1>1
<1> HIDE DEF T, a, b
<1>4. Range(T) = {T[k] : k \in 1..(a + b)}
  BY <1>2 DEF Range
<1>5. Range(T) = FdsOf(mainPair) \cup FdsOf(assistPair)
  <2>1. ASSUME NEW k \in 1..(a + b) PROVE T[k] \in FdsOf(mainPair) \cup FdsOf(assistPair)
    <3>1. CASE k \in 1..a
      BY <1>2, <3>1 DEF FdsOf, a
    <3>2. CASE k - a \in 1..b /\ k = a + (k - a)
      <4>1. T[k] = assistPair[k - a].fd
        BY <1>2, <3>2
      <4> QED
        BY <3>2, <4>1 DEF FdsOf, b
    <3> QED
      BY <1>3, <3>1, <3>2
  <2>2. ASSUME NEW fd \in FdsOf(mainPair) PROVE fd \in Range(T)
    BY <1>2, <1>3, <1>4, <2>2 DEF FdsOf, a
  <2>3. ASSUME NEW fd \in FdsOf(assistPair) PROVE fd \in Range(T)
    BY <1>2, <1>3, <1>4, <2>3 DEF FdsOf, b
  <2> QED
    BY <1>4, <2>1, <2>2, <2>3
<1>6. ASSUME Lone(mainPair), Lone(assistPair),
             FdsOf(mainPair) \cap FdsOf(assistPair) = {},
             NEW j \in 1..(a + b), NEW k \in 1..(a + b), T[j] = T[k]
      PROVE  j = k
  <2>1. \A i \in 1..a, h \in 1..b : mainPair[i].fd # assistPair[h].fd
    BY <1>6 DEF FdsOf, a, b
  <2>2. CASE j \in 1..a /\ k \in 1..a
    BY <1>2, <1>6, <2>2 DEF Lone, a
  <2>3. CASE j \in 1..a /\ k - a \in 1..b /\ k = a + (k - a)
    BY <1>2, <1>6, <2>1, <2>3
  <2>4. CASE j - a \in 1..b /\ j = a + (j - a) /\ k \in 1..a
    BY <1>2, <1>6, <2>1, <2>4
  <2>5. CASE j - a \in 1..b /\ j = a + (j - a) /\ k - a \in 1..b /\ k = a + (k - a)
    <3>1. j - a = k - a
      BY <1>2, <1>6, <2>5 DEF Lone, b
    <3> QED
      BY <2>5, <3>1
  <2> QED
    BY <1>3, <2>2, <2>3, <2>4, <2>5
<1> QED
  BY <1>2, <1>5, <1>6 DEF IsInjective, T

\* As long as no second close has hit somebody else's connection, every session is
\* on the connection it was made for, and a socket under way to the worker is open,
\* has no session and is under way once.
THEOREM SessionsOwn == Spec => []OneOwner
<1>1. IInv => OneOwner
  BY TravellingFds DEF IInv, Owned, OneOwner
<1> QED
  BY <1>1, Invariance, PTL

\* No way to close or to fail leaks an accepted socket or an object of the pool.
THEOREM NoLeak == Spec => []NothingLeaked
<1>1. IInv => NothingLeaked
  BY TravellingFds DEF IInv, Owned, UsedCounts, NothingLeaked
<1> QED
  BY <1>1, Invariance, PTL

\* What is registered in g_LinkedOther is a session that is there and registered
\* itself.
THEOREM RegisteredAreLive == Spec => []RegisteredLive
<1>1. IInv => RegisteredLive
  BY DEF IInv
<1> QED
  BY <1>1, Invariance, PTL

\* A session finds no fragments but its own and those that realClose has left.
THEOREM FragmentsKept == Spec => []FragmentsOwnOrScripted
<1>1. IInv => FragmentsOwnOrScripted
  BY DEF IInv, Fragments, FragmentsOwnOrScripted
<1> QED
  BY <1>1, Invariance, PTL

\* A delayed close ends the connection it was asked for or none, unless it was
\* asked for a DEBUG session; this does not depend on ClosesOwn.
THEOREM ClosesAsked == Spec => DelayedCloseOwn
<1>1. ASSUME IInv, [Next]_vars, NEW r \in delayed \ delayed'
      PROVE  \/ session' = session
             \/ r.card = NoCard
             \/ session[r.fd].conn.id = r.of
  <2>1. \E q \in delayed : q = r /\ (realCloseSkips(q) \/ realClose(q))
    BY Zenon, <1>1 DEF Next, vars, listenerAcceptCB, Link, MainRead, AssistRead,
       SessionEvent, onMainRead, onMainReadNoBev, onMainReadClose, onMainReadFree,
       onAssistRead, onAssistReadNoBev, onAssistReadFree, workThreadEventCB,
       shakeHands, shakeHandsClose, addContinuation, lastFragment, closeFrame,
       closeCurLink, regLinkedOther, closeID, realCloseSkips, realClose
  <2>2. CASE realCloseSkips(r)
    BY <2>2 DEF realCloseSkips
  <2>3. CASE realClose(r)
    BY <1>1, <2>3 DEF IInv, Cards, realClose
  <2> QED
    BY <2>1, <2>2, <2>3
<1>2. ASSUME IInv, [Next]_vars
      PROVE  [\A r \in delayed \ delayed' :
                 \/ session' = session
                 \/ r.card = NoCard
                 \/ session[r.fd].conn.id = r.of]_vars
  BY <1>1, <1>2
<1> QED
  BY <1>2, Invariance, PTL DEF Spec, DelayedCloseOwn

-----------------------------------------------------------------------------
(* The link table, with one outgoing link.                                 *)

\* The entry of a linked session is closed with it, as that session is a TCPCLIENT;
\* a socket under way from the link monitor is the one of the entry, which waits
\* for it.
Linked ==
    ClosesOwn =>
        /\ \A k \in 1..Len(assistPair) : assistPair[k].type = "TCPCLIENT"
        /\ \A i \in Hosts :
              /\ links[i].status = "LINKED" =>
                    /\ links[i].sock \in DOMAIN session
                    /\ session[links[i].sock].conn.host = i
                    /\ session[links[i].sock].type = "TCPCLIENT"
              /\ links[i].status = "CONNECT" => links[i].sock \in FdsOf(assistPair)
              /\ \A fd \in FdsOf(assistPair) :
                    links[i].status = "CONNECT" /\ links[i].sock = fd

\* With one entry setSockStatus finds it if it has the socket.
LEMMA StatusIs ==
  ASSUME TypeOK, NHosts <= 1, NEW sock, NEW status \in {"CLOSED", "CONNECT", "LINKED"},
         NEW i \in Hosts
  PROVE  /\ setSockStatus(sock, status)[i].sock = links[i].sock
         /\ setSockStatus(sock, status)[i].status =
               IF links[i].sock = sock THEN status ELSE links[i].status
<1> DEFINE E == {j \in Hosts : links[j].sock = sock}
<1>1. i = 1 /\ Hosts = {1}
  BY NHostsAssumption DEF Hosts
<1>2. links \in [Hosts -> LinkInfo]
  BY DEF TypeOK
<1>3. setSockStatus(sock, status) =
        IF E = {} THEN links ELSE [links EXCEPT ![Min(E)].status = status]
  BY Zenon DEF setSockStatus
<1>4. CASE links[i].sock = sock
  <2>1. E = {1}
    BY <1>1, <1>4
  <2>2. Min({1}) = 1
    BY DEF Min
  <2>3. setSockStatus(sock, status) = [links EXCEPT ![1].status = status]
    BY Zenon, <1>3, <2>1, <2>2
  <2> QED
    BY <1>1, <1>2, <1>4, <2>3 DEF LinkInfo
<1>5. CASE links[i].sock # sock
  <2>1. E = {}
    BY <1>1, <1>5
  <2> QED
    BY Zenon, <1>3, <1>5, <2>1
<1> QED
  BY <1>4, <1>5

\* Steps that touch neither the table nor the pair nor a session in the map.
LEMMA LinkedStays ==
  ASSUME Linked, UNCHANGED <<links, assistPair>>, ClosesOwn' => ClosesOwn,
         ClosesOwn => \A g \in DOMAIN session :
            /\ g \in DOMAIN session' /\ session'[g].conn = session[g].conn
            /\ session'[g].type = session[g].type
  PROVE  Linked'
<1> SUFFICES ASSUME ClosesOwn' PROVE Linked'
  BY DEF Linked
<1>1. FdsOf(assistPair') = FdsOf(assistPair)
  OBVIOUS
<1> QED
  BY <1>1 DEF Linked

\* The link monitor connects a closed entry.
LEMMA LinkLinked ==
  ASSUME IInv, Linked, NHosts <= 1, NEW fd \in Fds, NEW i \in Hosts, Link(i, fd)
  PROVE  Linked'
<1> SUFFICES ASSUME ClosesOwn PROVE Linked'
  BY DEF Linked, ClosesOwn, Link
<1> DEFINE m == [type |-> "TCPCLIENT", fd |-> fd]
<1>1. i = 1 /\ Hosts = {1}
  BY NHostsAssumption DEF Hosts
<1>2. m \in TriggerSock /\ m.fd = fd /\ m.type = "TCPCLIENT"
  BY DEF TriggerSock, SessionType
<1>3. /\ links[i].status = "CLOSED" /\ assistPair' = Append(assistPair, m)
      /\ links' = [links EXCEPT ![i] = [status |-> "CONNECT", sock |-> fd]]
      /\ session' = session
  BY DEF Link
<1>4. assistPair \in Seq(TriggerSock) /\ links \in [Hosts -> LinkInfo]
  BY DEF IInv, TypeOK
<1>5. FdsOf(assistPair) = {}
  BY Zenon, <1>3 DEF Linked
<1> HIDE DEF m
<1>6. FdsOf(assistPair') = {fd}
  BY <1>2, <1>3, <1>4, <1>5, PairAppend
<1>7. links'[i].status = "CONNECT" /\ links'[i].sock = fd
  BY <1>3, <1>4
<1>8. ASSUME NEW k \in 1..Len(assistPair') PROVE assistPair'[k].type = "TCPCLIENT"
  <2>1. \A j \in 1..Len(assistPair) : assistPair[j].type = "TCPCLIENT"
    BY DEF Linked
  <2>2. /\ Len(assistPair) \in Nat /\ Len(assistPair') = Len(assistPair) + 1
        /\ assistPair'[Len(assistPair) + 1] = m
        /\ \A j \in 1..Len(assistPair) : assistPair'[j] = assistPair[j]
    BY <1>2, <1>3, <1>4
  <2>3. k \in 1..Len(assistPair) \/ k = Len(assistPair) + 1
    BY <2>2
  <2> QED
    BY Zenon, <1>2, <2>1, <2>2, <2>3
<1> QED
  BY SMTT(30), <1>1, <1>6, <1>7, <1>8 DEF Linked

\* A closed session tells the table, if its entry is linked.
LEMMA CloseLinked ==
  ASSUME IInv, Linked, NHosts <= 1, NEW fd \in DOMAIN session, closeLinkByID(fd),
         UNCHANGED <<assistPair, cut>>
  PROVE  Linked'
<1> SUFFICES ASSUME ClosesOwn PROVE Linked'
  BY DEF Linked, ClosesOwn
<1>1. TypeOK
  BY DEF IInv
<1>2. /\ DOMAIN session' = DOMAIN session \ {fd}
      /\ \A g \in DOMAIN session : g # fd => session'[g] = session[g]
  BY DEF closeLinkByID, dellSession, Without, Restrict
<1>3. links' = IF session[fd].type = "TCPCLIENT" THEN setSockStatus(fd, "CLOSED") ELSE links
  BY DEF closeLinkByID, linkClosed
<1>4. FdsOf(assistPair') = FdsOf(assistPair) /\ fd \notin FdsOf(assistPair)
  BY DEF IInv, Owned
<1>5. ASSUME NEW i \in Hosts
      PROVE  /\ links'[i].sock = links[i].sock
             /\ links'[i].status = IF session[fd].type = "TCPCLIENT" /\ links[i].sock = fd
                                   THEN "CLOSED" ELSE links[i].status
  BY <1>1, <1>3, StatusIs
<1>6. ASSUME NEW i \in Hosts
      PROVE  /\ links'[i].status = "LINKED" =>
                   /\ links'[i].sock \in DOMAIN session'
                   /\ session'[links'[i].sock].conn.host = i
                   /\ session'[links'[i].sock].type = "TCPCLIENT"
             /\ links'[i].status = "CONNECT" => links'[i].sock \in FdsOf(assistPair)
             /\ \A g \in FdsOf(assistPair) :
                   links'[i].status = "CONNECT" /\ links'[i].sock = g
  <2>1. /\ links[i].status = "LINKED" =>
              /\ links[i].sock \in DOMAIN session
              /\ session[links[i].sock].conn.host = i
              /\ session[links[i].sock].type = "TCPCLIENT"
        /\ links[i].status = "CONNECT" => links[i].sock \in FdsOf(assistPair)
        /\ \A g \in FdsOf(assistPair) : links[i].status = "CONNECT" /\ links[i].sock = g
    BY DEF Linked
  <2> QED
    BY <1>2, <1>4, <1>5, <2>1
<1> QED
  BY <1>4, <1>6 DEF Linked

\* What the worker takes from the link monitor's pair was its only socket, and the
\* entry's.
LEMMA AssistLinked ==
  ASSUME IInv, Linked, ClosesOwn, NHosts <= 1, NextAssist
  PROVE  /\ FdsOf(assistPair') = {} /\ Len(assistPair') = 0
         /\ Head(assistPair).type = "TCPCLIENT"
         /\ \A i \in Hosts : /\ links[i].sock = Head(assistPair).fd
                             /\ open[Head(assistPair).fd].host = i
<1> DEFINE m == Head(assistPair)
<1>1. /\ m \in TriggerSock /\ assistPair' \in Seq(TriggerSock)
      /\ m.fd \in DOMAIN open \ DOMAIN session
      /\ m.fd \in FdsOf(assistPair)
      /\ FdsOf(assistPair') = FdsOf(assistPair) \ {m.fd}
  BY AssistTaken
<1>2. m.type = "TCPCLIENT"
  <2>1. assistPair \in Seq(TriggerSock) /\ assistPair # << >>
    BY DEF IInv, TypeOK, NextAssist
  <2>2. m = assistPair[1] /\ 1 \in 1..Len(assistPair)
    BY <2>1
  <2> QED
    BY <2>2 DEF Linked
<1>3. open[m.fd] \in Connection /\ open[m.fd].host # 0
  BY <1>1 DEF IInv, TypeOK, Owned
<1>4. open[m.fd].host \in 0..NHosts
  BY <1>3 DEF Connection
<1>5. open[m.fd].host = 1 /\ Hosts = {1}
  BY <1>3, <1>4, NHostsAssumption DEF Hosts
<1> HIDE DEF m
<1>6. \A fd \in FdsOf(assistPair) : links[1].sock = fd
  BY <1>5 DEF Linked
<1>7. FdsOf(assistPair') = {}
  BY <1>1, <1>6
<1>8. Len(assistPair') = 0
  <2>1. Len(assistPair') \in Nat
    BY <1>1
  <2>2. 1..Len(assistPair') = {}
    BY ZenonT(30), <1>7 DEF FdsOf
  <2> QED
    BY <2>1, <2>2
<1> QED
  BY <1>1, <1>2, <1>5, <1>6, <1>7, <1>8 DEF m

\* The worker makes a session of it, or closes the entry.
LEMMA AssistReadLinked ==
  ASSUME IInv, Linked, NHosts <= 1, AssistRead
  PROVE  Linked'
<1> DEFINE fd == Head(assistPair).fd
<1> SUFFICES ASSUME ClosesOwn PROVE Linked'
  BY DEF Linked, ClosesOwn, AssistRead, onAssistRead, onAssistReadNoBev, onAssistReadFree
<1>1. TypeOK /\ NextAssist
  BY DEF IInv, AssistRead, onAssistRead, onAssistReadNoBev, onAssistReadFree
<1>2. /\ FdsOf(assistPair') = {} /\ Len(assistPair') = 0
      /\ Head(assistPair).type = "TCPCLIENT"
      /\ \A i \in Hosts : links[i].sock = fd /\ open[fd].host = i
  BY <1>1, AssistLinked
<1>3. 1..Len(assistPair') = {}
  BY <1>2
<1> SUFFICES ASSUME NEW i \in Hosts
             PROVE  /\ links'[i].status = "LINKED" =>
                          /\ links'[i].sock \in DOMAIN session'
                          /\ session'[links'[i].sock].conn.host = i
                          /\ session'[links'[i].sock].type = "TCPCLIENT"
                    /\ links'[i].status # "CONNECT"
  BY <1>2, <1>3 DEF Linked
<1>4. CASE onAssistRead
  <2> DEFINE n == NewSession("TCPCLIENT", open[fd])
  <2>1. session' = Put(session, fd, n)
    BY Zenon, <1>2, <1>4 DEF onAssistRead, addSession
  <2>2. n.conn = open[fd] /\ n.type = "TCPCLIENT"
    BY SMTT(30) DEF NewSession
  <2>3. links'[i].sock = fd /\ links'[i].status = "LINKED"
    BY <1>1, <1>2, <1>4, StatusIs DEF onAssistRead
  <2> HIDE DEF n, fd
  <2>4. fd \in DOMAIN session' /\ session'[fd] = n
    BY <2>1 DEF Put
  <2>5. open[fd].host = i
    BY <1>2
  <2> QED
    BY <2>2, <2>3, <2>4, <2>5
<1>5. CASE onAssistReadNoBev \/ onAssistReadFree
  <2>1. links'[i].status = "CLOSED"
    BY <1>1, <1>2, <1>5, StatusIs DEF onAssistReadNoBev, onAssistReadFree
  <2> QED
    BY <2>1
<1> QED
  BY <1>4, <1>5 DEF AssistRead

\* What it reads from the other pair concerns no session in the map.
LEMMA MainReadLinked ==
  ASSUME IInv, Linked, MainRead
  PROVE  Linked'
<1> DEFINE fd == Head(mainPair).fd
<1>1. NextMain /\ UNCHANGED <<links, assistPair, cut>>
  BY DEF MainRead, onMainRead, onMainReadNoBev, onMainReadClose
<1>2. ClosesOwn => fd \notin DOMAIN session
  BY <1>1, MainTaken
<1>3. \/ session' = session \/ session' = Without(session, fd)
      \/ session' = Put(session, fd, NewSession(Head(mainPair).type, open[fd]))
  BY DEF MainRead, onMainRead, onMainReadNoBev, onMainReadClose, addSession
<1> HIDE DEF fd
<1>4. ClosesOwn => \A g \in DOMAIN session : g \in DOMAIN session' /\ session'[g] = session[g]
  BY <1>2, <1>3 DEF Put, Without, Restrict
<1>5. ClosesOwn' => ClosesOwn
  BY <1>1 DEF ClosesOwn
<1> QED
  BY <1>1, <1>4, <1>5, LinkedStays

\* Every step keeps Linked.
LEMMA NextLinked ==
  ASSUME IInv, Linked, NHosts <= 1, [Next]_vars
  PROVE  Linked'
<1>1. ASSUME UNCHANGED <<links, assistPair, session>>, cut \subseteq cut' PROVE Linked'
  BY <1>1, LinkedStays DEF ClosesOwn
<1>2. CASE UNCHANGED vars
  BY <1>1, <1>2 DEF vars
<1>3. ASSUME NEW fd \in Fds, NEW type \in Types, listenerAcceptCB(fd, type) PROVE Linked'
  BY <1>1, <1>3 DEF listenerAcceptCB
<1>4. ASSUME NEW fd \in DOMAIN session, SessionEvent(fd) PROVE Linked'
  <2>1. CASE workThreadEventCB(fd) \/ shakeHandsClose(fd) \/ closeFrame(fd) \/ closeCurLink(fd)
    <3>1. closeLinkByID(fd) /\ UNCHANGED <<assistPair, cut>>
      BY <2>1 DEF workThreadEventCB, shakeHandsClose, closeFrame, closeCurLink
    <3> QED
      BY <3>1, CloseLinked
  <2>2. CASE shakeHands(fd)
    <3>1. /\ session' = [session EXCEPT ![fd].status = "LINKED"]
          /\ UNCHANGED <<links, assistPair, cut>>
      BY <2>2 DEF shakeHands
    <3>2. session \in [DOMAIN session -> Session]
      BY DEF IInv, TypeOK
    <3>3. /\ DOMAIN session' = DOMAIN session
          /\ \A g \in DOMAIN session : /\ session'[g].conn = session[g].conn
                                       /\ session'[g].type = session[g].type
      BY SMTT(30), <3>1, <3>2 DEF Session
    <3> QED
      BY <3>1, <3>3, LinkedStays DEF ClosesOwn
  <2>3. CASE \/ addContinuation(fd) \/ lastFragment(fd) \/ regLinkedOther(fd) \/ closeID(fd)
    BY <1>1, <2>3 DEF addContinuation, lastFragment, regLinkedOther, closeID
  <2> QED
    BY <1>4, <2>1, <2>2, <2>3 DEF SessionEvent
<1>5. ASSUME NEW r \in delayed, realCloseSkips(r) PROVE Linked'
  BY <1>1, <1>5 DEF realCloseSkips
<1>6. ASSUME NEW r \in delayed, realClose(r) PROVE Linked'
  <2>1. r.fd \in DOMAIN session /\ closeLinkByID(r.fd) /\ UNCHANGED <<assistPair, cut>>
    BY <1>6 DEF realClose
  <2> QED
    BY <2>1, CloseLinked
<1>7. CASE onMainReadFree
  BY <1>1, <1>7 DEF onMainReadFree
<1> QED
  BY <1>2, <1>3, <1>4, <1>5, <1>6, <1>7, MainReadLinked, AssistReadLinked, LinkLinked DEF Next

\* With one outgoing link the table tells the truth, for any descriptors, failures
\* and number of connections: its entry is LINKED only with a session on a
\* connection to its host, and CONNECT only while the socket is on its way to the
\* worker.  With two links it is not so, see setSockStatus.
THEOREM OneLinkTruth ==
  ASSUME NHosts <= 1
  PROVE  Spec => []LinkTruth
<1>1. Init => Linked
  BY DEF Init, Linked, FdsOf
<1>2. IInv /\ Linked => LinkTruth
  BY TravellingFds DEF IInv, Linked, LinkTruth
<1>3. IInv /\ Linked /\ [Next]_vars => Linked'
  BY NextLinked
<1> QED
  BY <1>1, <1>2, <1>3, Invariance, PTL DEF Spec
=============================================================================
