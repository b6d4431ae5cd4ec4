-------------------------- MODULE SessionPoolProofs --------------------------
(***************************************************************************)
(* Proofs about SessionPool, for any number of descriptors, objects and    *)
(* connections.  PoolSound and MapSound carry each other; what CurrentOwn  *)
(* and AnswersOwn need beside them is Blank: while the worker runs an      *)
(* object has a bufferevent exactly when it is in use, and no two have the *)
(* same one.                                                               *)
(***************************************************************************)
EXTENDS SessionPool, FiniteSetTheorems, SequenceTheorems, TLAPS

Blank ==
  /\ running => \A o \in Objs : IF o \in m_lstUsed THEN bev[o] \in open ELSE bev[o] = 0
  /\ \A o, p \in Objs : bev[o] = bev[p] /\ bev[o] # 0 => o = p
  /\ \A o \in Objs : bev[o] <= made
  /\ \A c \in open : c <= made
  /\ ~running => handled = 0

IInv == TypeOK /\ PoolSound /\ MapSound /\ Blank /\ CurrentOwn /\ AnswersOwn

-----------------------------------------------------------------------------
(* The pool.                                                               *)

\* No object is twice in a queue.
Once(q) == \A i, j \in 1..Len(q) : q[i] = q[j] => i = j

\* A queue stays without repetition when an object that it lacks is added.
LEMMA AppendOnce ==
  ASSUME NEW q \in Seq(Objs), NEW o \in Objs, Once(q), \A i \in 1..Len(q) : q[i] # o
  PROVE  /\ Append(q, o) \in Seq(Objs)
         /\ Once(Append(q, o))
         /\ \A i \in 1..Len(Append(q, o)) :
               Append(q, o)[i] = o \/ \E j \in 1..Len(q) : Append(q, o)[i] = q[j]
  <1> DEFINE r == Append(q, o)
             n == Len(q)
  <1>1. r \in Seq(Objs) /\ Len(r) = n + 1 /\ n \in Nat
    OBVIOUS
  <1>2. \A i \in 1..n : r[i] = q[i]
    OBVIOUS
  <1>3. r[n + 1] = o
    OBVIOUS
  <1>4. \A i \in 1..n : q[i] # o
    OBVIOUS
  <1>5. \A i, j \in 1..n : q[i] = q[j] => i = j
    BY DEF Once
  <1> HIDE DEF r, n
  <1>6. \A i \in 1..Len(r) : i \in 1..n \/ i = n + 1
    BY <1>1
  <1>7. ASSUME NEW i \in 1..Len(r), NEW j \in 1..Len(r), r[i] = r[j] PROVE i = j
    <2>1. CASE i \in 1..n /\ j \in 1..n
      BY <2>1, <1>2, <1>5, <1>7
    <2>2. CASE i \in 1..n /\ j = n + 1
      BY <2>2, <1>2, <1>3, <1>4, <1>7
    <2>3. CASE i = n + 1 /\ j \in 1..n
      BY <2>3, <1>2, <1>3, <1>4, <1>7
    <2>4. CASE i = n + 1 /\ j = n + 1
      BY <2>4
    <2> QED BY <2>1, <2>2, <2>3, <2>4, <1>6
  <1>8. \A i \in 1..Len(r) : r[i] = o \/ \E j \in 1..n : r[i] = q[j]
    BY <1>2, <1>3, <1>6
  <1> QED BY <1>1, <1>7, <1>8 DEF r, n, Once

\* What Malloc returns is neither in use nor left in the queue.
LEMMA FetchedFresh ==
  ASSUME TypeOK, PoolSound, NEW o \in Objs, Fetched(o)
  PROVE  /\ o \notin m_lstUsed
         /\ Rest \in Seq(Objs)
         /\ Once(Rest)
         /\ \A i \in 1..Len(Rest) : Rest[i] # o /\ Rest[i] \notin m_lstUsed
  <1>1. CASE m_quFree = << >>
    BY <1>1 DEF Fetched, Rest, Once
  <1>2. CASE m_quFree # << >>
    <2>1. m_quFree \in Seq(Objs) /\ Rest = Tail(m_quFree) /\ o = m_quFree[1]
      BY <1>2 DEF TypeOK, Fetched, Rest
    <2>2. Rest \in Seq(Objs) /\ Len(Rest) = Len(m_quFree) - 1 /\ Len(m_quFree) >= 1
      BY <2>1, <1>2
    <2>3. \A i \in 1..Len(Rest) : Rest[i] = m_quFree[i + 1] /\ i + 1 \in 1..Len(m_quFree)
      BY <2>1, <2>2, <1>2
    <2>4. 1 \in 1..Len(m_quFree)
      BY <2>2
    <2>5. Once(Rest)
      <3> SUFFICES ASSUME NEW i \in 1..Len(Rest), NEW j \in 1..Len(Rest), Rest[i] = Rest[j]
                   PROVE  i = j
        BY DEF Once
      <3>1. m_quFree[i + 1] = m_quFree[j + 1]
        BY <2>3
      <3>2. i + 1 = j + 1
        BY <3>1, <2>3 DEF PoolSound
      <3> QED BY <3>2
    <2>6. ASSUME NEW i \in 1..Len(Rest) PROVE Rest[i] # o /\ Rest[i] \notin m_lstUsed
      <3>1. i + 1 # 1
        OBVIOUS
      <3> QED BY <3>1, <2>1, <2>3, <2>4 DEF PoolSound
    <2> QED BY <2>1, <2>2, <2>4, <2>5, <2>6 DEF PoolSound
  <1> QED BY <1>1, <1>2

\* The objects in use are finitely many.
LEMMA UsedFinite ==
  ASSUME TypeOK PROVE IsFiniteSet(m_lstUsed)
  BY ObjsAssumption, FS_Subset DEF TypeOK

-----------------------------------------------------------------------------
(* The steps.                                                              *)

\* The invariant holds when the process has started.
LEMMA InitIInv == Init => IInv
  <1> SUFFICES ASSUME Init PROVE IInv
    OBVIOUS
  <1> USE DEF Init
  <1>1. TypeOK
    BY FdsAssumption, InitFreeAssumption, MaxConnsAssumption DEF TypeOK
  <1>2. PoolSound
    BY InitFreeAssumption, FS_EmptySet DEF PoolSound
  <1>3. MapSound /\ Blank /\ CurrentOwn /\ AnswersOwn
    BY DEF MapSound, Blank, CurrentOwn, AnswersOwn
  <1> QED BY <1>1, <1>2, <1>3 DEF IInv

\* A new session gets an object that nobody has.
LEMMA AddStep ==
  ASSUME IInv, NEW fd \in Fds, NEW o \in Objs, addSession(fd, o)
  PROVE  IInv'
  <1> USE FdsAssumption, ObjsAssumption, MaxConnsAssumption
  <1>1. TypeOK /\ PoolSound /\ MapSound /\ Blank /\ CurrentOwn /\ AnswersOwn
    BY DEF IInv
  <1>2. Fetched(o)
    BY DEF addSession, Malloc
  <1>3. /\ o \notin m_lstUsed /\ Rest \in Seq(Objs) /\ Once(Rest)
        /\ \A i \in 1..Len(Rest) : Rest[i] # o /\ Rest[i] \notin m_lstUsed
    BY <1>1, <1>2, FetchedFresh
  <1>4. /\ m_quFree' = Rest /\ m_lstUsed' = m_lstUsed \cup {o} /\ m_uiCount' = m_uiCount + 1
        /\ made' = made + 1 /\ made < MaxConns /\ open' = open \cup {made + 1}
        /\ bev' = [bev EXCEPT ![o] = made + 1] /\ id' = [id EXCEPT ![o] = fd]
        /\ m_umapSession[fd] = NULL /\ m_umapSession' = [m_umapSession EXCEPT ![fd] = o]
        /\ m_pCurrent' = m_pCurrent /\ handled' = handled /\ answered' = answered
        /\ running' = running /\ running /\ handled = 0
    BY DEF addSession, Malloc, Idle
  <1>5. made + 1 \in 1..MaxConns
    BY <1>1, <1>4 DEF TypeOK
  <1>6. TypeOK'
    BY <1>1, <1>3, <1>4, <1>5 DEF TypeOK
  <1>7. PoolSound'
    <2>1. Cardinality(m_lstUsed') = Cardinality(m_lstUsed) + 1
      BY Zenon, <1>1, <1>3, <1>4, UsedFinite, FS_AddElement
    <2>2. /\ \A i, j \in 1..Len(m_quFree') : m_quFree'[i] = m_quFree'[j] => i = j
          /\ \A i \in 1..Len(m_quFree') : m_quFree'[i] \notin m_lstUsed'
      BY <1>3, <1>4 DEF Once
    <2> QED BY <2>1, <2>2, <1>1, <1>4 DEF PoolSound
  <1>8. MapSound'
    <2>1. ASSUME NEW g \in Fds, m_umapSession'[g] # NULL
          PROVE  m_umapSession'[g] \in m_lstUsed' /\ id'[m_umapSession'[g]] = g
      <3>1. CASE g = fd
        BY <3>1, <1>1, <1>4 DEF TypeOK
      <3>2. CASE g # fd
        BY <3>2, <2>1, <1>1, <1>3, <1>4 DEF TypeOK, MapSound
      <3> QED BY <3>1, <3>2
    <2>2. ASSUME NEW p \in m_lstUsed' PROVE \E g \in Fds : m_umapSession'[g] = p
      <3>1. CASE p = o
        BY <3>1, <1>1, <1>4 DEF TypeOK
      <3>2. CASE p # o
        <4>1. p \in m_lstUsed /\ p # NULL
          BY <3>2, <1>1, <1>4 DEF TypeOK
        <4>2. PICK g \in Fds : m_umapSession[g] = p
          BY <4>1, <1>1 DEF MapSound
        <4>3. m_umapSession'[g] = p
          BY <4>1, <4>2, <1>1, <1>4 DEF TypeOK
        <4> QED BY <4>3
      <3> QED BY <3>1, <3>2
    <2> QED BY <2>1, <2>2 DEF MapSound
  <1>9. Blank'
    <2>1. \A p \in Objs : bev'[p] = IF p = o THEN made + 1 ELSE bev[p]
      BY <1>1, <1>4 DEF TypeOK
    <2>2. \A p \in Objs : bev[p] \in Nat /\ bev[p] <= made
      BY <1>1 DEF Blank, TypeOK
    <2>3. made \in Nat
      BY <1>1 DEF TypeOK
    <2>4. \A p \in Objs : IF p \in m_lstUsed' THEN bev'[p] \in open' ELSE bev'[p] = 0
      BY <2>1, <1>1, <1>4 DEF Blank
    <2>5. \A p, r \in Objs : bev'[p] = bev'[r] /\ bev'[p] # 0 => p = r
      BY <2>1, <2>2, <2>3, <1>1 DEF Blank
    <2>6. \A p \in Objs : bev'[p] <= made'
      BY <2>1, <2>2, <2>3, <1>4
    <2>7. \A c \in open' : c <= made'
      <3>1. \A c \in open : c \in Nat /\ c <= made
        BY <1>1 DEF Blank, TypeOK
      <3> QED BY <3>1, <2>3, <1>4
    <2> QED BY <2>4, <2>5, <2>6, <2>7, <1>4 DEF Blank
  <1>10. CurrentOwn' /\ AnswersOwn'
    BY <1>1, <1>4 DEF CurrentOwn, AnswersOwn
  <1> QED BY <1>6, <1>7, <1>8, <1>9, <1>10 DEF IInv

\* An object that a failed set-up gives back was blank, and is last now.
LEMMA FailStep ==
  ASSUME IInv, NEW o \in Objs, addSessionFails(o)
  PROVE  IInv'
  <1> USE FdsAssumption, ObjsAssumption, MaxConnsAssumption
  <1>1. TypeOK /\ PoolSound /\ MapSound /\ Blank /\ CurrentOwn /\ AnswersOwn
    BY DEF IInv
  <1>2. /\ o \notin m_lstUsed /\ Rest \in Seq(Objs) /\ Once(Rest)
        /\ \A i \in 1..Len(Rest) : Rest[i] # o /\ Rest[i] \notin m_lstUsed
    BY <1>1, FetchedFresh DEF addSessionFails
  <1>3. /\ m_quFree' = Append(Rest, o) /\ id' = [id EXCEPT ![o] = NoSock]
        /\ bev' = [bev EXCEPT ![o] = 0] /\ running /\ handled = 0
        /\ UNCHANGED <<m_lstUsed, m_uiCount, m_umapSession, m_pCurrent, handled,
                       made, open, answered, running>>
    BY DEF addSessionFails, Clear, Idle
  <1>4. /\ m_quFree' \in Seq(Objs) /\ Once(m_quFree')
        /\ \A i \in 1..Len(m_quFree') :
              m_quFree'[i] = o \/ \E j \in 1..Len(Rest) : m_quFree'[i] = Rest[j]
    BY <1>2, <1>3, AppendOnce
  <1>5. bev' = bev
    <2>1. bev[o] = 0
      BY <1>1, <1>2, <1>3 DEF Blank
    <2> QED BY <2>1, <1>1, <1>3 DEF TypeOK
  <1>6. TypeOK'
    BY <1>1, <1>3, <1>4, <1>5 DEF TypeOK
  <1>7. PoolSound'
    BY <1>1, <1>2, <1>3, <1>4 DEF PoolSound, Once
  <1>8. MapSound'
    BY <1>1, <1>2, <1>3 DEF MapSound, TypeOK
  <1>9. Blank' /\ CurrentOwn' /\ AnswersOwn'
    BY <1>1, <1>3, <1>5 DEF Blank, CurrentOwn, AnswersOwn
  <1> QED BY <1>6, <1>7, <1>8, <1>9 DEF IInv

\* A close, whoever asks for it, gives back the object of its own entry, blank.
LEMMA CloseStep ==
  ASSUME IInv, running, NEW fd \in Fds, closeLink(fd),
         UNCHANGED <<m_pCurrent, handled, made, answered, running>>
  PROVE  IInv'
  <1> USE FdsAssumption, ObjsAssumption, MaxConnsAssumption
  <1> DEFINE o == m_umapSession[fd]
  <1>1. TypeOK /\ PoolSound /\ MapSound /\ Blank /\ CurrentOwn /\ AnswersOwn
    BY DEF IInv
  <1>2. o # NULL /\ o \in Objs /\ o \in m_lstUsed /\ id[o] = fd
    BY <1>1 DEF closeLink, MapSound, TypeOK
  <1>3. /\ m_lstUsed' = m_lstUsed \ {o} /\ m_quFree' = Append(m_quFree, o)
        /\ m_uiCount' = m_uiCount - 1 /\ open' = open \ {bev[o]}
        /\ id' = [id EXCEPT ![o] = NoSock] /\ bev' = [bev EXCEPT ![o] = 0]
        /\ m_umapSession' = [m_umapSession EXCEPT ![fd] = NULL]
        /\ m_pCurrent' = m_pCurrent /\ handled' = handled /\ made' = made
        /\ answered' = answered /\ running' = running
    BY <1>2 DEF closeLink, Clear, Free
  <1> HIDE DEF o
  <1>4. /\ m_quFree' \in Seq(Objs) /\ Once(m_quFree')
        /\ \A i \in 1..Len(m_quFree') :
              m_quFree'[i] = o \/ \E j \in 1..Len(m_quFree) : m_quFree'[i] = m_quFree[j]
    <2>1. m_quFree \in Seq(Objs) /\ Once(m_quFree) /\ \A i \in 1..Len(m_quFree) : m_quFree[i] # o
      BY <1>1, <1>2 DEF TypeOK, PoolSound, Once
    <2> QED BY <2>1, <1>2, <1>3, AppendOnce
  <1>5. m_uiCount' = Cardinality(m_lstUsed') /\ m_uiCount' \in Nat
    <2>1. IsFiniteSet(m_lstUsed)
      BY <1>1, UsedFinite
    <2>2. IsFiniteSet(m_lstUsed \ {o}) /\ Cardinality(m_lstUsed \ {o}) = Cardinality(m_lstUsed) - 1
      BY <2>1, <1>2, FS_RemoveElement
    <2>3. Cardinality(m_lstUsed \ {o}) \in Nat
      BY <2>2, FS_CardinalityType
    <2> QED BY <2>2, <2>3, <1>1, <1>3 DEF PoolSound
  <1>6. TypeOK'
    <2>1. /\ m_umapSession' \in [Fds -> Objs \cup {NULL}]
          /\ id' \in [Objs -> Fds \cup {NoSock}]
          /\ bev' \in [Objs -> 0..MaxConns]
      BY <1>1, <1>2, <1>3 DEF TypeOK
    <2>2. m_lstUsed' \in SUBSET Objs /\ open' \in SUBSET (1..MaxConns)
      BY Zenon, <1>1, <1>3 DEF TypeOK
    <2> QED BY <2>1, <2>2, <1>1, <1>3, <1>4, <1>5 DEF TypeOK
  <1>7. PoolSound'
    BY <1>1, <1>3, <1>4, <1>5 DEF PoolSound, Once
  <1>8. MapSound'
    <2>1. ASSUME NEW g \in Fds, m_umapSession'[g] # NULL
          PROVE  m_umapSession'[g] \in m_lstUsed' /\ id'[m_umapSession'[g]] = g
      <3>1. g # fd /\ m_umapSession'[g] = m_umapSession[g]
        BY <2>1, <1>1, <1>3 DEF TypeOK
      <3>2. m_umapSession[g] \in m_lstUsed /\ id[m_umapSession[g]] = g
        BY <2>1, <3>1, <1>1 DEF MapSound
      <3>3. m_umapSession[g] # o
        BY <3>1, <3>2, <1>2
      <3> QED BY <3>1, <3>2, <3>3, <1>1, <1>3 DEF TypeOK
    <2>2. ASSUME NEW p \in m_lstUsed' PROVE \E g \in Fds : m_umapSession'[g] = p
      <3>1. p \in m_lstUsed /\ p # o
        BY <1>3
      <3>2. PICK g \in Fds : m_umapSession[g] = p
        BY <3>1, <1>1 DEF MapSound
      <3>3. m_umapSession'[g] = p
        BY <3>1, <3>2, <1>1, <1>3 DEF TypeOK, o
      <3> QED BY <3>3
    <2> QED BY <2>1, <2>2 DEF MapSound
  <1>9. \A p \in Objs : bev'[p] = IF p = o THEN 0 ELSE bev[p]
    BY <1>1, <1>3 DEF TypeOK
  <1>10. Blank'
    <2>1. \A p \in Objs : p \in m_lstUsed => bev[p] \in open /\ bev[p] # 0
      BY <1>1 DEF Blank, TypeOK
    <2>2. \A p \in Objs : p \in m_lstUsed /\ p # o => bev[p] # bev[o]
      BY <2>1, <1>1, <1>2 DEF Blank
    <2>3. \A p \in Objs : IF p \in m_lstUsed' THEN bev'[p] \in open' ELSE bev'[p] = 0
      BY <2>1, <2>2, <1>1, <1>3, <1>9 DEF Blank
    <2>4. \A p, r \in Objs : bev'[p] = bev'[r] /\ bev'[p] # 0 => p = r
      BY <1>1, <1>9 DEF Blank
    <2>5. \A p \in Objs : bev'[p] <= made'
      BY <1>1, <1>3, <1>9 DEF Blank, TypeOK
    <2>6. \A c \in open' : c <= made'
      BY <1>1, <1>3 DEF Blank
    <2> QED BY <2>3, <2>4, <2>5, <2>6, <1>3, <1>1 DEF Blank
  <1>11. CurrentOwn' /\ AnswersOwn'
    BY <1>1, <1>3, <1>9 DEF CurrentOwn, AnswersOwn, TypeOK
  <1> QED BY <1>6, <1>7, <1>8, <1>10, <1>11 DEF IInv

\* A read callback starts with the object of its session as the current one.
LEMMA ReadStep ==
  ASSUME IInv, NEW fd \in Fds, workThreadReadCB(fd)
  PROVE  IInv'
  <1> USE FdsAssumption, ObjsAssumption, MaxConnsAssumption
  <1> DEFINE o == m_umapSession[fd]
  <1>1. TypeOK /\ PoolSound /\ MapSound /\ Blank /\ CurrentOwn /\ AnswersOwn
    BY DEF IInv
  <1>2. o \in Objs /\ o \in m_lstUsed /\ running
    BY <1>1 DEF workThreadReadCB, Idle, MapSound, TypeOK
  <1>3. /\ m_pCurrent' = o /\ handled' = bev[o]
        /\ UNCHANGED <<m_quFree, m_lstUsed, m_uiCount, m_umapSession, id, bev, made,
                       open, answered, running>>
    BY DEF workThreadReadCB
  <1> HIDE DEF o
  <1>4. bev[o] \in open /\ bev[o] \in 1..MaxConns
    BY <1>1, <1>2 DEF Blank, TypeOK
  <1>5. TypeOK'
    BY <1>1, <1>2, <1>3, <1>4 DEF TypeOK
  <1>6. PoolSound' /\ MapSound' /\ AnswersOwn'
    BY <1>1, <1>3 DEF PoolSound, MapSound, AnswersOwn
  <1>7. Blank'
    BY <1>1, <1>2, <1>3 DEF Blank
  <1>8. CurrentOwn'
    BY <1>2, <1>3, <1>4 DEF CurrentOwn
  <1> QED BY <1>5, <1>6, <1>7, <1>8 DEF IInv

\* When a read callback ends nothing is current.
LEMMA ReturnStep ==
  ASSUME IInv, readCBReturns
  PROVE  IInv'
  <1> USE DEF IInv, readCBReturns
  <1>1. TypeOK'
    BY MaxConnsAssumption DEF TypeOK
  <1>2. PoolSound' /\ MapSound' /\ AnswersOwn'
    BY DEF PoolSound, MapSound, AnswersOwn
  <1>3. Blank' /\ CurrentOwn'
    BY DEF Blank, CurrentOwn
  <1> QED BY <1>1, <1>2, <1>3

\* An answer goes to the connection that is handled, which is still open.
LEMMA SendStep ==
  ASSUME IInv, sendToCur
  PROVE  IInv'
  <1> USE FdsAssumption, ObjsAssumption, MaxConnsAssumption
  <1> DEFINE c == bev[m_pCurrent]
  <1>1. TypeOK /\ PoolSound /\ MapSound /\ Blank /\ CurrentOwn /\ AnswersOwn
    BY DEF IInv
  <1>2. /\ running /\ m_pCurrent \in Objs /\ c # 0
        /\ answered' = answered \cup {<<handled, c, c \in open>>}
        /\ UNCHANGED <<m_quFree, m_lstUsed, m_uiCount, m_umapSession, id, bev,
                       m_pCurrent, handled, made, open, running>>
    BY <1>1 DEF sendToCur, TypeOK
  <1>3. c = handled /\ c \in open /\ c \in 0..MaxConns
    BY <1>1, <1>2 DEF CurrentOwn, Blank, TypeOK
  <1> HIDE DEF c
  <1>4. answered' = answered \cup {<<handled, c, TRUE>>}
    BY <1>2, <1>3, Zenon
  <1>5. TypeOK'
    <2>1. handled \in 0..MaxConns /\ c \in 0..MaxConns /\ TRUE \in BOOLEAN
      BY <1>1, <1>3 DEF TypeOK
    <2>2. <<handled, c, TRUE>> \in (0..MaxConns) \X (0..MaxConns) \X BOOLEAN
      BY <2>1, Zenon
    <2>3. answered' \subseteq (0..MaxConns) \X (0..MaxConns) \X BOOLEAN
      BY <2>2, <1>1, <1>4, Zenon DEF TypeOK
    <2>4. (m_quFree \in Seq(Objs))' /\ (m_umapSession \in [Fds -> Objs \cup {NULL}])'
          /\ (m_lstUsed \in SUBSET Objs)' /\ (id \in [Objs -> Fds \cup {NoSock}])'
      BY <1>1, <1>2 DEF TypeOK
    <2>5. (bev \in [Objs -> 0..MaxConns])' /\ (m_pCurrent \in Objs \cup {NULL})'
          /\ (m_uiCount \in Nat)' /\ (handled \in 0..MaxConns)' /\ (made \in 0..MaxConns)'
          /\ (open \in SUBSET (1..MaxConns))' /\ (running \in BOOLEAN)'
      BY <1>1, <1>2 DEF TypeOK
    <2> QED BY <2>3, <2>4, <2>5 DEF TypeOK
  <1>6. AnswersOwn'
    <2> SUFFICES ASSUME NEW a \in answered' PROVE a[1] # 0 /\ a[2] = a[1] /\ a[3]
      BY DEF AnswersOwn
    <2>1. CASE a \in answered
      BY <2>1, <1>1 DEF AnswersOwn
    <2>2. CASE a = <<handled, c, TRUE>>
      <3>1. a[1] = handled /\ a[2] = c /\ a[3] = TRUE
        BY <2>2
      <3> QED BY <3>1, <1>2, <1>3
    <2> QED BY Zenon, <2>1, <2>2, <1>4
  <1>7. PoolSound' /\ MapSound' /\ Blank' /\ CurrentOwn'
    BY <1>1, <1>2 DEF PoolSound, MapSound, Blank, CurrentOwn
  <1> QED BY <1>5, <1>6, <1>7 DEF IInv

\* freeAllSession gives back all objects, each once.
LEMMA StopStep ==
  ASSUME IInv, freeAllSession
  PROVE  IInv'
  <1> USE FdsAssumption, ObjsAssumption, MaxConnsAssumption
  <1>1. TypeOK /\ PoolSound /\ MapSound /\ Blank /\ CurrentOwn /\ AnswersOwn
    BY DEF IInv
  <1>2. PICK order \in [1..m_uiCount -> m_lstUsed] :
              /\ \A i, j \in 1..m_uiCount : order[i] = order[j] => i = j
              /\ m_quFree' = m_quFree \o order
    BY Zenon DEF freeAllSession
  <1>3. /\ m_lstUsed' = {} /\ m_uiCount' = 0 /\ open' = {} /\ running' = FALSE
        /\ m_umapSession' = [fd \in Fds |-> NULL] /\ handled = 0
        /\ UNCHANGED <<id, bev, m_pCurrent, handled, made, answered>>
    BY DEF freeAllSession, Idle
  <1> DEFINE q == m_quFree
             n == Len(q)
             r == q \o order
  <1>4. order \in Seq(Objs) /\ Len(order) = m_uiCount /\ q \in Seq(Objs) /\ m_uiCount \in Nat
    <2>1. m_uiCount \in Nat /\ q \in Seq(Objs) /\ order \in [1..m_uiCount -> Objs]
      BY <1>1 DEF TypeOK
    <2>2. order \in Seq(Objs)
      BY <2>1, SeqDef
    <2>3. DOMAIN order = 1..m_uiCount /\ DOMAIN order = 1..Len(order) /\ Len(order) \in Nat
      BY <2>1, <2>2, LenProperties
    <2> QED BY <2>1, <2>2, <2>3
  <1>5. r \in Seq(Objs) /\ Len(r) = n + m_uiCount /\ n \in Nat
    BY <1>4
  <1>6. \A i \in 1..n : r[i] = q[i] /\ q[i] \notin m_lstUsed
    BY <1>1, <1>4 DEF PoolSound
  <1>7. \A i \in n + 1..n + m_uiCount :
           r[i] = order[i - n] /\ i - n \in 1..m_uiCount /\ order[i - n] \in m_lstUsed
    BY <1>4, <1>5
  <1>8. \A i, j \in 1..n : q[i] = q[j] => i = j
    BY <1>1 DEF PoolSound
  <1>9. m_quFree' = r
    BY <1>2
  <1> HIDE DEF q, n, r
  <1>10. \A i \in 1..Len(r) : i \in 1..n \/ i \in n + 1..n + m_uiCount
    BY <1>4, <1>5
  <1>11. ASSUME NEW i \in 1..Len(r), NEW j \in 1..Len(r), r[i] = r[j] PROVE i = j
    <2>1. CASE i \in 1..n /\ j \in 1..n
      BY <2>1, <1>6, <1>8, <1>11
    <2>2. CASE i \in n + 1..n + m_uiCount /\ j \in n + 1..n + m_uiCount
      <3>1. order[i - n] = order[j - n]
        BY <2>2, <1>7, <1>11
      <3>2. i - n = j - n
        BY <3>1, <2>2, <1>2, <1>7
      <3> QED BY <3>2, <2>2, <1>5
    <2>3. CASE i \in 1..n /\ j \in n + 1..n + m_uiCount
      BY <2>3, <1>6, <1>7, <1>11
    <2>4. CASE i \in n + 1..n + m_uiCount /\ j \in 1..n
      BY <2>4, <1>6, <1>7, <1>11
    <2> QED BY <2>1, <2>2, <2>3, <2>4, <1>10
  <1>12. TypeOK'
    BY Zenon, <1>1, <1>3, <1>5, <1>9 DEF TypeOK
  <1>13. PoolSound'
    BY <1>3, <1>9, <1>11, FS_EmptySet DEF PoolSound
  <1>14. MapSound' /\ Blank' /\ CurrentOwn' /\ AnswersOwn'
    BY <1>1, <1>3 DEF MapSound, Blank, CurrentOwn, AnswersOwn
  <1> QED BY <1>12, <1>13, <1>14 DEF IInv

\* Every step of the worker keeps the invariant.
LEMMA NextIInv == IInv /\ [Next]_vars => IInv'
  <1> SUFFICES ASSUME IInv, [Next]_vars PROVE IInv'
    OBVIOUS
  <1>1. ASSUME NEW fd \in Fds, NEW o \in Objs, addSession(fd, o) PROVE IInv'
    BY <1>1, AddStep
  <1>2. ASSUME NEW o \in Objs, addSessionFails(o) PROVE IInv'
    BY <1>2, FailStep
  <1>3. ASSUME NEW fd \in Fds, workThreadReadCB(fd) PROVE IInv'
    BY <1>3, ReadStep
  <1>4. ASSUME NEW fd \in Fds, workThreadEventCB(fd) PROVE IInv'
    BY <1>4, CloseStep DEF workThreadEventCB, Idle
  <1>5. ASSUME NEW fd \in Fds, closeLinkByID(fd) PROVE IInv'
    BY <1>5, CloseStep DEF closeLinkByID
  <1>6. ASSUME closeCurLink PROVE IInv'
    <2>1. id[m_pCurrent] \in Fds
      BY <1>6 DEF closeCurLink, IInv, TypeOK
    <2> QED BY <1>6, <2>1, CloseStep DEF closeCurLink
  <1>7. ASSUME UNCHANGED vars PROVE IInv'
    BY Zenon, <1>7 DEF vars, IInv, TypeOK, PoolSound, MapSound, Blank, CurrentOwn, AnswersOwn
  <1> QED
    BY <1>1, <1>2, <1>3, <1>4, <1>5, <1>6, <1>7, ReturnStep, SendStep, StopStep DEF Next

-----------------------------------------------------------------------------
\* Every variable stays in its range; m_uiCount does not go below zero.
THEOREM TypeCorrect == Spec => []TypeOK
  <1>1. IInv => TypeOK
    BY DEF IInv
  <1> QED BY <1>1, InitIInv, NextIInv, PTL DEF Spec

\* CObjPool never hands out an object that is in use, nor keeps one twice, however
\* connections, failures and closes follow on each other.
THEOREM PoolIsSound == Spec => []PoolSound
  <1>1. IInv => PoolSound
    BY DEF IInv
  <1> QED BY <1>1, InitIInv, NextIInv, PTL DEF Spec

\* Two sessions never share a CSession object and no close leaks one.
THEOREM MapIsSound == Spec => []MapSound
  <1>1. IInv => MapSound
    BY DEF IInv
  <1> QED BY <1>1, InitIInv, NextIInv, PTL DEF Spec

\* m_pCurrent never refers to a session other than the one being handled, even
\* after that has been closed and its object has gone back to the pool.
THEOREM CurrentIsOwn == Spec => []CurrentOwn
  <1>1. IInv => CurrentOwn
    BY DEF IInv
  <1> QED BY <1>1, InitIInv, NextIInv, PTL DEF Spec

\* sendToCur never sends to another connection or to a closed one.
THEOREM AnswersAreOwn == Spec => []AnswersOwn
  <1>1. IInv => AnswersOwn
    BY DEF IInv
  <1> QED BY <1>1, InitIInv, NextIInv, PTL DEF Spec
==============================================================================
