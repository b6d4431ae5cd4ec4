------------------------------- MODULE Sessions -------------------------------
(***************************************************************************)
(* The connections of QService and the tables that are keyed by their      *)
(* descriptors: CSessionManager and its pool, the fragments kept by        *)
(* CWorkThreadEvent, the outgoing links of CLinkOther, and the delayed     *)
(* closes and the registrations kept by the scripts.                       *)
(*                                                                         *)
(* Three threads: the server thread accepts (listenerAcceptCB) and the     *)
(* link monitor connects (Link); each sends the descriptor through a       *)
(* socket pair to the worker, whose callbacks do everything else.  A       *)
(* callback is one step, except where onMainRead closes a descriptor twice *)
(* and another thread may be given it in between.                          *)
(*                                                                         *)
(* The operating system reuses a descriptor as soon as it is closed, so    *)
(* every connection has an id here that the program does not see.          *)
(***************************************************************************)
EXTENDS Naturals, Sequences, FiniteSets, FiniteSetsExt, Functions

CONSTANTS
    Fds,            \* descriptors of the process
    NoSock,         \* Q_INVALID_SOCK
    Types,          \* the kinds of listener that are configured
    NHosts,         \* configured outgoing links
    MaxConns,       \* connections made in a behaviour
    MaxDelayed,     \* delayed closes pending at a time
    Failures        \* which calls that set up a session may fail

ASSUME FdsAssumption == IsFiniteSet(Fds)
ASSUME NoSockAssumption == NoSock \notin Fds
ASSUME TypesAssumption == Types \subseteq {"TCP", "TCPCLIENT", "WEBSOCK", "DEBUG"}
ASSUME NHostsAssumption == NHosts \in Nat
ASSUME BoundsAssumption == MaxConns \in Nat /\ MaxDelayed \in Nat
ASSUME FailuresAssumption == Failures \subseteq {"new", "add", "enable"}

VARIABLES
    open,           \* open descriptor -> its connection
    mainPair,       \* accepted sockets on their way to the worker
    assistPair,     \* connected sockets on their way to the worker
    session,        \* m_umapSession: descriptor -> session
    used,           \* m_objSessionPool.m_uiCount
    contin,         \* m_mapWebSockPack: descriptor -> whose fragments it holds
    links,          \* m_vcLinkInfo, in the order of the vector
    freeing,        \* descriptor onMainRead has closed and will close again
    delayed,        \* registered calls of realClose
    registered,     \* g_LinkedOther
    made,           \* connections made so far
    scripted,       \* connections that realClose has closed
    cut             \* connections of others that a second close has closed

vars == <<open, mainPair, assistPair, session, used, contin, links, freeing,
          delayed, registered, made, scripted, cut>>

SessionType == {"TCP", "TCPCLIENT", "WEBSOCK", "DEBUG"}

Hosts == 1..NHosts

\* host 0 is a peer that connected to us.
Connection == [id : 1..MaxConns, host : 0..NHosts]

\* The card of a session the scripts have not given one (a DEBUG session).
NoCard == 0

Session == [type : SessionType, status : {"CONNECT", "LINKED"},
            conn : Connection, card : 0..MaxConns]

TriggerSock == [type : SessionType, fd : Fds]

LinkInfo == [status : {"CLOSED", "CONNECT", "LINKED"}, sock : Fds \cup {NoSock}]

Put(f, x, v) == [y \in DOMAIN f \cup {x} |-> IF y = x THEN v ELSE f[y]]

Without(f, x) == Restrict(f, DOMAIN f \ {x})

Init ==
    /\ open = << >>
    /\ mainPair = << >>
    /\ assistPair = << >>
    /\ session = << >>
    /\ used = 0
    /\ contin = << >>
    /\ links = [i \in Hosts |-> [status |-> "CLOSED", sock |-> NoSock]]
    /\ freeing = {}
    /\ delayed = {}
    /\ registered = {}
    /\ made = 0
    /\ scripted = {}
    /\ cut = {}

-----------------------------------------------------------------------------
(* The server thread and the link monitor.                                 *)

\* A socket the worker cannot be told of is closed at once, which is no step.
listenerAcceptCB(fd, type) ==
    /\ made < MaxConns
    /\ fd \notin DOMAIN open
    /\ made' = made + 1
    /\ open' = Put(open, fd, [id |-> made', host |-> 0])
    /\ mainPair' = Append(mainPair, [type |-> type, fd |-> fd])
    /\ UNCHANGED <<assistPair, session, used, contin, links, freeing,
                   delayed, registered, scripted, cut>>

(***************************************************************************)
(* One entry of the loop of Link().  The loop holds the mutex of the table *)
(* and a failed connect changes nothing, so a pass that links several      *)
(* entries has the effect of several passes that link one each.            *)
(***************************************************************************)
Link(i, fd) ==
    /\ links[i].status = "CLOSED"
    /\ made < MaxConns
    /\ fd \notin DOMAIN open
    /\ made' = made + 1
    /\ open' = Put(open, fd, [id |-> made', host |-> i])
    /\ assistPair' = Append(assistPair, [type |-> "TCPCLIENT", fd |-> fd])
    /\ links' = [links EXCEPT ![i] = [status |-> "CONNECT", sock |-> fd]]
    /\ UNCHANGED <<mainPair, session, used, contin, freeing, delayed,
                   registered, scripted, cut>>

-----------------------------------------------------------------------------
(* What the callbacks of the worker call.                                  *)

\* Only the first entry that has the socket is set.
setSockStatus(sock, status) ==
    LET entries == {i \in Hosts : links[i].sock = sock}
    IN  IF entries = {} THEN links
        ELSE [links EXCEPT ![Min(entries)].status = status]

\* setType, setStatus, and the card the scripts give in onConnected.
NewSession(type, conn) ==
    [type |-> type,
     status |-> IF type = "WEBSOCK" THEN "CONNECT" ELSE "LINKED",
     conn |-> conn,
     card |-> IF type = "DEBUG" THEN NoCard ELSE conn.id]

addSession(fd, type) ==
    /\ session' = Put(session, fd, NewSession(type, open[fd]))
    /\ used' = used + 1

\* Mutation: the entry of the map is not erased.
dellSession_KeepsEntry(fd) ==
    /\ UNCHANGED session
    /\ used' = used - 1

\* Mutation: the session is not given back to the pool.
dellSession_NoFree(fd) ==
    /\ session' = Without(session, fd)
    /\ UNCHANGED used

dellSession(fd) ==
    /\ session' = Without(session, fd)
    /\ used' = used - 1

\* Mutation: the scripts have no handler of the close event.
onSockClose_Ignored(fd) ==
    UNCHANGED registered

\* removeLinkedOther, the scripts' handler of the close event.
onSockClose(fd) ==
    registered' = {r \in registered : r.card # session[fd].card}

\* Mutation: the link table is not told.
linkClosed_Untold(fd) ==
    UNCHANGED links

linkClosed(fd) ==
    links' = IF session[fd].type = "TCPCLIENT"
             THEN setSockStatus(fd, "CLOSED") ELSE links

\* bufferevent_free closes the descriptor; the fragments are left alone.
closeLinkByID(fd) ==
    /\ onSockClose(fd)
    /\ linkClosed(fd)
    /\ dellSession(fd)
    /\ open' = Without(open, fd)

\* The worker is not between the two closes of onMainRead.
Idle == freeing = {}

\* The session at fd, whose bufferevent can still report something.
Live(fd) ==
    /\ fd \in DOMAIN session \cap DOMAIN open
    /\ open[fd] = session[fd].conn

-----------------------------------------------------------------------------
(* onMainRead: a socket from the server thread.                            *)

NextMain ==
    /\ Idle
    /\ mainPair # << >>
    /\ mainPair' = Tail(mainPair)

onMainRead ==
    /\ NextMain
    /\ LET m == Head(mainPair)
       IN  m.fd \in DOMAIN open /\ addSession(m.fd, m.type)
    /\ UNCHANGED <<open, assistPair, contin, links, freeing, delayed,
                   registered, made, scripted, cut>>

onMainReadNoBev ==
    /\ "new" \in Failures
    /\ NextMain
    /\ open' = Without(open, Head(mainPair).fd)
    /\ UNCHANGED <<assistPair, session, used, contin, links, freeing,
                   delayed, registered, made, scripted, cut>>

\* The first of the two closes, with dellSession when the session was added.
onMainReadClose ==
    /\ NextMain
    /\ LET fd == Head(mainPair).fd
       IN  /\ \/ "add" \in Failures /\ UNCHANGED session
              \/ /\ "enable" \in Failures \/ fd \notin DOMAIN open
                 /\ session' = Without(session, fd)
           /\ open' = Without(open, fd)
           /\ freeing' = {fd}
    /\ UNCHANGED <<assistPair, used, contin, links, delayed,
                   registered, made, scripted, cut>>

\* The second: bufferevent_free closes whatever has the descriptor by now.
onMainReadFree ==
    /\ ~Idle
    /\ freeing' = {}
    /\ open' = Restrict(open, DOMAIN open \ freeing)
    /\ cut' = cut \cup {open[fd].id : fd \in freeing \cap DOMAIN open}
    /\ UNCHANGED <<mainPair, assistPair, session, used, contin, links,
                   delayed, registered, made, scripted>>

-----------------------------------------------------------------------------
(* onAssistRead: a socket from the link monitor.                           *)

NextAssist ==
    /\ Idle
    /\ assistPair # << >>
    /\ assistPair' = Tail(assistPair)

onAssistRead ==
    /\ NextAssist
    /\ LET m == Head(assistPair)
       IN  /\ m.fd \in DOMAIN open
           /\ addSession(m.fd, m.type)
           /\ links' = setSockStatus(m.fd, "LINKED")
    /\ UNCHANGED <<open, mainPair, contin, freeing, delayed,
                   registered, made, scripted, cut>>

\* Mutation: the link table is not told of the failure.
onAssistReadNoBev_Untold ==
    /\ "new" \in Failures
    /\ NextAssist
    /\ UNCHANGED links
    /\ UNCHANGED <<open, mainPair, session, used, contin, freeing, delayed,
                   registered, made, scripted, cut>>

\* The socket is not closed.
onAssistReadNoBev ==
    /\ "new" \in Failures
    /\ NextAssist
    /\ links' = setSockStatus(Head(assistPair).fd, "CLOSED")
    /\ UNCHANGED <<open, mainPair, session, used, contin, freeing,
                   delayed, registered, made, scripted, cut>>

onAssistReadFree ==
    /\ NextAssist
    /\ LET fd == Head(assistPair).fd
       IN  /\ \/ "add" \in Failures /\ UNCHANGED session
              \/ /\ "enable" \in Failures \/ fd \notin DOMAIN open
                 /\ session' = Without(session, fd)
           /\ links' = setSockStatus(fd, "CLOSED")
           /\ open' = Without(open, fd)
    /\ UNCHANGED <<mainPair, used, contin, freeing, delayed,
                   registered, made, scripted, cut>>

-----------------------------------------------------------------------------
(* Events of a session.                                                    *)

\* A message is being handed to the scripts.
Reads(fd) ==
    /\ Idle
    /\ Live(fd)
    /\ session[fd].status = "LINKED"

WebSock(fd) == session[fd].type = "WEBSOCK"

\* Mutation: the fragments of a websocket session are kept.
workThreadEventCB_KeepsFragments(fd) ==
    /\ Idle
    /\ Live(fd)
    /\ closeLinkByID(fd)
    /\ UNCHANGED <<mainPair, assistPair, contin, freeing, delayed, made,
                   scripted, cut>>

workThreadEventCB(fd) ==
    /\ Idle
    /\ Live(fd)
    /\ closeLinkByID(fd)
    /\ contin' = IF WebSock(fd) THEN Without(contin, fd) ELSE contin
    /\ UNCHANGED <<mainPair, assistPair, freeing, delayed, made,
                   scripted, cut>>

shakeHands(fd) ==
    /\ Idle
    /\ Live(fd)
    /\ session[fd].status = "CONNECT"
    /\ session' = [session EXCEPT ![fd].status = "LINKED"]
    /\ UNCHANGED <<open, mainPair, assistPair, used, contin, links,
                   freeing, delayed, registered, made, scripted, cut>>

shakeHandsClose(fd) ==
    /\ Idle
    /\ Live(fd)
    /\ session[fd].status = "CONNECT"
    /\ closeLinkByID(fd)
    /\ UNCHANGED <<mainPair, assistPair, contin, freeing, delayed,
                   made, scripted, cut>>

\* A start or a middle fragment.
addContinuation(fd) ==
    /\ Reads(fd)
    /\ WebSock(fd)
    /\ LET kept == IF fd \in DOMAIN contin THEN contin[fd] ELSE {}
       IN  contin' = Put(contin, fd, kept \cup {session[fd].conn.id})
    /\ UNCHANGED <<open, mainPair, assistPair, session, used, links,
                   freeing, delayed, registered, made, scripted, cut>>

\* The last fragment: the buffer is delivered and emptied, not erased.
lastFragment(fd) ==
    /\ Reads(fd)
    /\ WebSock(fd)
    /\ fd \in DOMAIN contin
    /\ contin' = Put(contin, fd, {})
    /\ UNCHANGED <<open, mainPair, assistPair, session, used, links,
                   freeing, delayed, registered, made, scripted, cut>>

\* A frame that ends the connection, or a script that calls closeCurLink.
closeFrame(fd) ==
    /\ Reads(fd)
    /\ WebSock(fd)
    /\ closeLinkByID(fd)
    /\ contin' = Without(contin, fd)
    /\ UNCHANGED <<mainPair, assistPair, freeing, delayed, made,
                   scripted, cut>>

\* The script that handles a packet calls closeCurLink.
closeCurLink(fd) ==
    /\ Reads(fd)
    /\ ~WebSock(fd)
    /\ closeLinkByID(fd)
    /\ UNCHANGED <<mainPair, assistPair, contin, freeing, delayed,
                   made, scripted, cut>>

-----------------------------------------------------------------------------
(* Scripts, inside a callback of the worker.                               *)

regLinkedOther(fd) ==
    /\ Reads(fd)
    /\ session[fd].type # "DEBUG"
    /\ registered' = {r \in registered : r.card # session[fd].card}
                        \cup {[card |-> session[fd].card, fd |-> fd]}
    /\ UNCHANGED <<open, mainPair, assistPair, session, used, contin,
                   links, freeing, delayed, made, scripted, cut>>

\* closeCur and closeID; "of" is the connection that is meant.
closeID(fd) ==
    /\ Idle
    /\ fd \in DOMAIN session
    /\ Cardinality(delayed) < MaxDelayed
    /\ delayed' = delayed \cup {[fd |-> fd, card |-> session[fd].card,
                                 of |-> session[fd].conn.id]}
    /\ UNCHANGED <<open, mainPair, assistPair, session, used, contin,
                   links, freeing, registered, made, scripted, cut>>

\* The session is gone (a script error that is caught) or is another one.
realCloseSkips(r) ==
    /\ Idle
    /\ r.fd \in DOMAIN session => session[r.fd].card # r.card
    /\ delayed' = delayed \ {r}
    /\ UNCHANGED <<open, mainPair, assistPair, session, used, contin,
                   links, freeing, registered, made, scripted, cut>>

\* Mutation: the cards are not compared.
realClose_AnyCard(r) ==
    /\ Idle
    /\ r.fd \in DOMAIN session
    /\ closeLinkByID(r.fd)
    /\ delayed' = delayed \ {r}
    /\ scripted' = scripted \cup {session[r.fd].conn.id}
    /\ UNCHANGED <<mainPair, assistPair, contin, freeing, made, cut>>

realClose(r) ==
    /\ Idle
    /\ r.fd \in DOMAIN session
    /\ session[r.fd].card = r.card
    /\ closeLinkByID(r.fd)
    /\ delayed' = delayed \ {r}
    /\ scripted' = scripted \cup {session[r.fd].conn.id}
    /\ UNCHANGED <<mainPair, assistPair, contin, freeing, made, cut>>

-----------------------------------------------------------------------------
AssistRead == onAssistRead \/ onAssistReadNoBev \/ onAssistReadFree

MainRead == onMainRead \/ onMainReadNoBev \/ onMainReadClose

SessionEvent(fd) ==
    \/ workThreadEventCB(fd)
    \/ shakeHands(fd) \/ shakeHandsClose(fd)
    \/ addContinuation(fd) \/ lastFragment(fd) \/ closeFrame(fd)
    \/ closeCurLink(fd)
    \/ regLinkedOther(fd) \/ closeID(fd)

Next ==
    \/ \E fd \in Fds, type \in Types : listenerAcceptCB(fd, type)
    \/ \E fd \in Fds, i \in Hosts : Link(i, fd)
    \/ MainRead \/ onMainReadFree \/ AssistRead
    \/ \E fd \in DOMAIN session : SessionEvent(fd)
    \/ \E r \in delayed : realCloseSkips(r) \/ realClose(r)

Spec == Init /\ [][Next]_vars

\* The worker reads what its socket pairs hold; nobody has to connect or send.
FairSpec ==
    Spec /\ WF_vars(MainRead) /\ WF_vars(onMainReadFree) /\ WF_vars(AssistRead)

-----------------------------------------------------------------------------
(* Properties.                                                             *)

\* Every variable stays in its range.
TypeOK ==
    /\ DOMAIN open \subseteq Fds /\ open \in [DOMAIN open -> Connection]
    /\ mainPair \in Seq(TriggerSock) /\ assistPair \in Seq(TriggerSock)
    /\ DOMAIN session \subseteq Fds /\ session \in [DOMAIN session -> Session]
    /\ used \in Nat
    /\ DOMAIN contin \subseteq Fds
    /\ contin \in [DOMAIN contin -> SUBSET (1..MaxConns)]
    /\ links \in [Hosts -> LinkInfo]
    /\ freeing \in SUBSET Fds
    /\ delayed \subseteq [fd : Fds, card : 0..MaxConns, of : 1..MaxConns]
    /\ registered \subseteq [card : 1..MaxConns, fd : Fds]
    /\ made \in 0..MaxConns
    /\ scripted \in SUBSET (1..MaxConns)
    /\ cut \in SUBSET (1..MaxConns)

\* bufferevent_free in the error paths of onMainRead closes no connection but
\* its own, although the descriptor has been closed once already by then.
ClosesOwn == cut = {}

(***************************************************************************)
(* The invariants that say ClosesOwn => ... hold as long as no second      *)
(* close has hit somebody else's connection.                               *)
(***************************************************************************)

\* Sockets on their way to the worker.
Travelling == [k \in 1..Len(mainPair) |-> mainPair[k].fd]
                \o [k \in 1..Len(assistPair) |-> assistPair[k].fd]

\* Every session is on the connection it was made for, and a socket on its way
\* to the worker is open, has no session and is on its way once: no callback
\* ever works on a descriptor that belongs to somebody else.
OneOwner ==
    ClosesOwn =>
        /\ \A fd \in DOMAIN session :
              fd \in DOMAIN open /\ open[fd] = session[fd].conn
        /\ \A fd \in Range(Travelling) : fd \in DOMAIN open \ DOMAIN session
        /\ IsInjective(Travelling)

\* No close path leaks anything: every accepted socket that is open has a session
\* or will get one (onAssistRead does lose a socket it cannot make a bufferevent
\* for), and the pool has handed out exactly the sessions that are in the map.
NothingLeaked ==
    ClosesOwn =>
        /\ {fd \in DOMAIN open : open[fd].host = 0}
              \subseteq DOMAIN session \cup Range(Travelling)
        /\ used = Cardinality(DOMAIN session)

\* The link table tells the truth: a LINKED entry has a session on a connection
\* to its own host, and the socket of an entry in CONNECT is on its way to the
\* worker (which knows an entry by its descriptor only, see setSockStatus).
LinkTruth ==
    ClosesOwn =>
        \A i \in Hosts :
            /\ links[i].status = "LINKED" =>
                  /\ links[i].sock \in DOMAIN session
                  /\ session[links[i].sock].conn.host = i
            /\ links[i].status = "CONNECT" =>
                  links[i].sock \in Range(Travelling)

\* An id that getSockByName returns for a host, when it names a session at all,
\* names a session with that host: sendToName sends to it. TLC refutes it: the
\* entry of a closed link keeps a descriptor that an accepted client may have now.
NamedSession ==
    \A i \in Hosts :
        links[i].sock \in DOMAIN session =>
            session[links[i].sock].conn.host = i

\* What returnToName finds in g_LinkedOther is the session that registered.
RegisteredLive ==
    ClosesOwn =>
        \A r \in registered :
            r.fd \in DOMAIN session /\ session[r.fd].card = r.card

\* The fragments kept for a session were sent on its own connection, which is what
\* the comment in closeLinkByID takes for granted. TLC refutes it: realClose leaves
\* them to the next session on the descriptor.
FragmentsOwn ==
    \A fd \in DOMAIN session \cap DOMAIN contin :
        contin[fd] \subseteq {session[fd].conn.id}

\* Fragments of another connection can only be those of one that realClose
\* closed: every other way to lose a websocket session erases its fragments.
FragmentsOwnOrScripted ==
    ClosesOwn =>
        \A fd \in DOMAIN session \cap DOMAIN contin :
            contin[fd] \subseteq {session[fd].conn.id} \cup scripted

\* A delayed close ends only the connection it was asked for, although the
\* descriptor may have been closed and reused before it runs; a DEBUG session
\* has no card to be told apart by.
DelayedCloseOwn ==
    [][\A r \in delayed \ delayed' :
          \/ session' = session
          \/ r.card = NoCard
          \/ session[r.fd].conn.id = r.of]_vars

\* An entry does not stay in CONNECT, where Link() would never retry it.
ConnectSettles ==
    \A i \in Hosts : links[i].status = "CONNECT" ~> links[i].status # "CONNECT"
=============================================================================
