----------------------------- MODULE SessionPool -----------------------------
(***************************************************************************)
(* The objects behind the sessions: CObjPool, which hands out CSession     *)
(* objects and takes them back for the next connection, the map of         *)
(* CSessionManager from a descriptor to its object, and m_pCurrent, the    *)
(* object of the session whose data are being handled.                     *)
(*                                                                         *)
(* All of it runs in the worker thread, callback after callback.  What a   *)
(* script does in a callback is a step of its own here: it may send to or  *)
(* close the current session, or close any other, several times in the     *)
(* same callback, so that an object may go back to the pool while          *)
(* m_pCurrent still points to it.                                          *)
(***************************************************************************)
EXTENDS Naturals, Sequences, FiniteSets, Functions

CONSTANTS
  Fds,       \* descriptors of the process
  NoSock,    \* Q_INVALID_SOCK, Q_INVALID_ID
  Objs,      \* the CSession objects that new can make
  NULL,
  InitFree,  \* the objects that the constructor makes, in order
  MaxConns   \* connections made in a behaviour

ASSUME FdsAssumption == NoSock \notin Fds
ASSUME ObjsAssumption == IsFiniteSet(Objs) /\ NULL \notin Objs
ASSUME InitFreeAssumption ==
  InitFree \in Seq(Objs) /\ \A i, j \in 1..Len(InitFree) : InitFree[i] = InitFree[j] => i = j
ASSUME MaxConnsAssumption == MaxConns \in Nat

VARIABLES
  m_quFree,       \* the free objects, the next one first
  m_lstUsed,      \* the objects that are handed out
  m_uiCount,      \* how many they are
  m_umapSession,  \* descriptor -> object, NULL when there is no entry
  id,             \* object -> m_iSessionID
  bev,            \* object -> the connection of its bufferevent, or 0
  m_pCurrent,     \* object, or NULL
  handled,        \* the connection whose data a callback handles, or 0
  made,           \* connections made so far
  open,           \* those that are not closed
  answered,       \* <<handled, receiver, receiver was open>> of sendToCur
  running         \* freeAllSession has not been called

pool == <<m_quFree, m_lstUsed, m_uiCount>>

vars == <<m_quFree, m_lstUsed, m_uiCount, m_umapSession, id, bev, m_pCurrent,
          handled, made, open, answered, running>>

Init ==
  /\ m_quFree = InitFree
  /\ m_lstUsed = {}
  /\ m_uiCount = 0
  /\ m_umapSession = [fd \in Fds |-> NULL]
  /\ id = [o \in Objs |-> NoSock]
  /\ bev = [o \in Objs |-> 0]
  /\ m_pCurrent = NULL
  /\ handled = 0
  /\ made = 0
  /\ open = {}
  /\ answered = {}
  /\ running = TRUE

-----------------------------------------------------------------------------
(* CObjPool.                                                               *)

\* o is what Malloc returns: new is called when the queue is empty.
Fetched(o) == IF m_quFree = << >> THEN o \notin m_lstUsed ELSE o = Head(m_quFree)

\* The queue without it.
Rest == IF m_quFree = << >> THEN << >> ELSE Tail(m_quFree)

\* Mutation: the object is not taken off the queue.
MallocKeeps(o) ==
  /\ Fetched(o)
  /\ UNCHANGED m_quFree
  /\ m_lstUsed' = m_lstUsed \cup {o}
  /\ m_uiCount' = m_uiCount + 1

Malloc(o) ==
  /\ Fetched(o)
  /\ m_quFree' = Rest
  /\ m_lstUsed' = m_lstUsed \cup {o}
  /\ m_uiCount' = m_uiCount + 1

\* An object that is not in use is not put into the queue.
Free(o) ==
  IF o \in m_lstUsed
  THEN /\ m_lstUsed' = m_lstUsed \ {o}
       /\ m_quFree' = Append(m_quFree, o)
       /\ m_uiCount' = m_uiCount - 1
  ELSE UNCHANGED pool

\* Mutation: the buffer keeps the bufferevent.
ClearKeepsBuffer(o) ==
  /\ id' = [id EXCEPT ![o] = NoSock]
  /\ UNCHANGED bev

\* CSession::Clear; the other fields are not told apart here.
Clear(o) ==
  /\ id' = [id EXCEPT ![o] = NoSock]
  /\ bev' = [bev EXCEPT ![o] = 0]

-----------------------------------------------------------------------------
(* Sockets that arrive from the other threads.                             *)

Idle == running /\ handled = 0

addSession(fd, o) ==
  /\ Idle
  /\ made < MaxConns
  /\ m_umapSession[fd] = NULL
  /\ Malloc(o)
  /\ made' = made + 1
  /\ open' = open \cup {made'}
  /\ bev' = [bev EXCEPT ![o] = made']
  /\ id' = [id EXCEPT ![o] = fd]
  /\ m_umapSession' = [m_umapSession EXCEPT ![fd] = o]
  /\ UNCHANGED <<m_pCurrent, handled, answered, running>>

\* setBuffer or bufferevent_enable fails: the object goes back at once.
addSessionFails(o) ==
  /\ Idle
  /\ Fetched(o)
  /\ m_quFree' = Append(Rest, o)
  /\ Clear(o)
  /\ UNCHANGED <<m_lstUsed, m_uiCount, m_umapSession, m_pCurrent, handled,
                 made, open, answered, running>>

-----------------------------------------------------------------------------
(* Callbacks of a session.                                                 *)

\* Mutation: the entry of the map is left.
closeLinkKeepsEntry(fd) ==
  LET o == m_umapSession[fd]
  IN  /\ o # NULL
      /\ open' = open \ {bev[o]}
      /\ Clear(o)
      /\ Free(o)
      /\ UNCHANGED m_umapSession

\* What closeLinkByID, and dellSession before bufferevent_free, come to.
closeLink(fd) ==
  LET o == m_umapSession[fd]
  IN  /\ o # NULL
      /\ open' = open \ {bev[o]}
      /\ Clear(o)
      /\ Free(o)
      /\ m_umapSession' = [m_umapSession EXCEPT ![fd] = NULL]

workThreadReadCB(fd) ==
  /\ Idle
  /\ m_umapSession[fd] # NULL
  /\ m_pCurrent' = m_umapSession[fd]
  /\ handled' = bev[m_umapSession[fd]]
  /\ UNCHANGED <<m_quFree, m_lstUsed, m_uiCount, m_umapSession, id, bev, made,
                 open, answered, running>>

\* Mutation: setCurSession(NULL) is forgotten.
readCBReturnsKeeps ==
  /\ handled # 0
  /\ handled' = 0
  /\ UNCHANGED <<m_quFree, m_lstUsed, m_uiCount, m_umapSession, id, bev,
                 m_pCurrent, made, open, answered, running>>

\* setCurSession(NULL)
readCBReturns ==
  /\ handled # 0
  /\ handled' = 0
  /\ m_pCurrent' = NULL
  /\ UNCHANGED <<m_quFree, m_lstUsed, m_uiCount, m_umapSession, id, bev, made,
                 open, answered, running>>

workThreadEventCB(fd) ==
  /\ Idle
  /\ closeLink(fd)
  /\ UNCHANGED <<m_pCurrent, handled, made, answered, running>>

-----------------------------------------------------------------------------
(* Scripts, in a read callback or, with handled = 0, in a timer event.     *)

\* A cleared session has no buffer to write to.
sendToCur ==
  /\ running
  /\ m_pCurrent # NULL
  /\ bev[m_pCurrent] # 0
  /\ answered' = answered \cup {<<handled, bev[m_pCurrent], bev[m_pCurrent] \in open>>}
  /\ UNCHANGED <<m_quFree, m_lstUsed, m_uiCount, m_umapSession, id, bev, m_pCurrent,
                 handled, made, open, running>>

closeLinkByID(fd) ==
  /\ running
  /\ closeLink(fd)
  /\ UNCHANGED <<m_pCurrent, handled, made, answered, running>>

\* By the id, which is invalid once the session is cleared.
closeCurLink ==
  /\ running
  /\ m_pCurrent # NULL
  /\ id[m_pCurrent] # NoSock
  /\ closeLink(id[m_pCurrent])
  /\ UNCHANGED <<m_pCurrent, handled, made, answered, running>>

\* The worker has ended.  The map has no order, and no object is cleared.
freeAllSession ==
  /\ Idle
  /\ running' = FALSE
  /\ \E order \in [1..m_uiCount -> m_lstUsed] :
       /\ \A i, j \in 1..m_uiCount : order[i] = order[j] => i = j
       /\ m_quFree' = m_quFree \o order
  /\ m_lstUsed' = {}
  /\ m_uiCount' = 0
  /\ open' = {}
  /\ m_umapSession' = [fd \in Fds |-> NULL]
  /\ UNCHANGED <<id, bev, m_pCurrent, handled, made, answered>>

Next ==
  \/ \E fd \in Fds, o \in Objs : addSession(fd, o)
  \/ \E o \in Objs : addSessionFails(o)
  \/ \E fd \in Fds : workThreadReadCB(fd) \/ workThreadEventCB(fd) \/ closeLinkByID(fd)
  \/ readCBReturns \/ sendToCur \/ closeCurLink \/ freeAllSession

Spec == Init /\ [][Next]_vars

-----------------------------------------------------------------------------
(* Properties.                                                             *)

\* Every variable stays in its range.
TypeOK ==
  /\ m_quFree \in Seq(Objs)
  /\ m_lstUsed \in SUBSET Objs
  /\ m_uiCount \in Nat
  /\ m_umapSession \in [Fds -> Objs \cup {NULL}]
  /\ id \in [Objs -> Fds \cup {NoSock}]
  /\ bev \in [Objs -> 0..MaxConns]
  /\ m_pCurrent \in Objs \cup {NULL}
  /\ handled \in 0..MaxConns
  /\ made \in 0..MaxConns
  /\ open \in SUBSET (1..MaxConns)
  /\ answered \subseteq (0..MaxConns) \X (0..MaxConns) \X BOOLEAN
  /\ running \in BOOLEAN

\* An object is either in use or once in the queue of CObjPool, and m_uiCount
\* counts those in use.
PoolSound ==
  /\ \A i, j \in 1..Len(m_quFree) : m_quFree[i] = m_quFree[j] => i = j
  /\ \A i \in 1..Len(m_quFree) : m_quFree[i] \notin m_lstUsed
  /\ m_uiCount = Cardinality(m_lstUsed)

\* The objects in use are those of the map, and each has the descriptor of its
\* entry: two sessions never share a CSession, and none is leaked by a close.
MapSound ==
  /\ \A fd \in Fds :
       m_umapSession[fd] # NULL =>
          m_umapSession[fd] \in m_lstUsed /\ id[m_umapSession[fd]] = fd
  /\ \A o \in m_lstUsed : \E fd \in Fds : m_umapSession[fd] = o

\* While a read callback runs m_pCurrent is the session whose data it handles,
\* or that session has been closed and the object is blank; outside of a read
\* callback it is NULL.  So closeCurLink never closes somebody else.
CurrentOwn ==
  IF handled = 0 THEN m_pCurrent = NULL
  ELSE m_pCurrent # NULL /\ bev[m_pCurrent] \in {0, handled}

\* What sendToCur sends goes to the connection whose data are being handled, and
\* only while that is open.
AnswersOwn == \A a \in answered : a[1] # 0 /\ a[2] = a[1] /\ a[3]
==============================================================================
