--------------------------------- MODULE Log ---------------------------------
(***************************************************************************)
(* The asynchronous sinks: any thread hands a record to CTxtLoger::        *)
(* writeLog or CDBLoger::writeDBLog, the worker hands a mail to            *)
(* CMailSender::sendMail; the record goes, framed by CTcpParser, through a *)
(* socket pair whose ends do not block, and a loop thread takes it out and *)
(* stores it in the file, the database or the mailer.  The signal handler  *)
(* SigHandEntry logs too, on whatever thread it interrupts.                *)
(*                                                                         *)
(* A record is a sequence of bytes short enough for the one byte head, the *)
(* byte being its length.  The head is built in the logger's own parser,   *)
(* which all threads share, before the mutex is taken.                     *)
(***************************************************************************)
EXTENDS Integers, Sequences

CONSTANTS
  Threads,     \* threads that log
  Worker,      \* the one of them that runs scripts, and sends mails
  Sig,         \* the signal handler, as a writer
  NoThread,
  Records,     \* records: sequences of bytes, a byte is a small number
  Cap,         \* bytes the socket pair holds
  MaxRecords   \* bound: records made

ASSUME ThreadsAssumption ==
  Worker \in Threads /\ Sig \notin Threads /\ NoThread \notin Threads \cup {Sig}
ASSUME RecordsAssumption == Records \subseteq Seq(Nat)
ASSUME CapAssumption == Cap \in Nat

VARIABLES
  kind,        \* which sink this is: "txt", "db" or "mail"
  phase,       \* the loop's side of the pair
  sock,        \* Loger::m_Sock is set (mail: getIsRun)
  pair, buf,   \* bytes in the socket pair, in the loop's evbuffer
  head,        \* m_objTcpParser.m_acHead
  lock,        \* m_objMutex
  pc, rec,     \* per writer: where it is, the record it is writing
  on,          \* the thread the signal handler runs on
  made,        \* records made so far, the handler's included
  accepted,    \* records in the order their heads were written
  out, stored, \* records the loop took out, records that reached the sink
  sinkOk,      \* m_pFile is open; the database link works
  raced,       \* history: a head was overwritten before it was written
  short        \* history: a write failed, or wrote only a part

writers == <<head, lock, pc, rec, on, made, accepted, raced>>
reader == <<buf, out, stored, sinkOk>>
vars == <<kind, phase, sock, pair, short, writers, reader>>

Writers == Threads \cup {Sig}

Init ==
  /\ kind \in {"txt", "db", "mail"}
  /\ phase = IF kind = "mail" THEN "reading" ELSE "none"
  /\ sock = (kind = "mail")
  /\ pair = << >> /\ buf = << >> /\ head = 0 /\ lock = NoThread
  /\ pc = [w \in Writers |-> IF w = Sig THEN "off" ELSE "idle"]
  /\ rec = [w \in Writers |-> << >>]
  /\ on = NoThread /\ made = 0 /\ accepted = << >>
  /\ out = << >> /\ stored = << >>
  /\ sinkOk \in IF kind = "txt" THEN BOOLEAN ELSE {TRUE}
  /\ raced = FALSE /\ short = FALSE

------------------------------------------------------------------------------
\* CLog::addLoger: the logger gets the writing end before the loop knows of the
\* pair.  If the message to the loop fails the pair is freed, the socket stays.
addLoger(ok) ==
  /\ phase = "none"
  /\ sock' = TRUE
  /\ phase' = IF ok THEN "added" ELSE "closed"
  /\ UNCHANGED <<kind, pair, short, writers, reader>>

\* CLog::onMainRead on the loop: the reading end gets its bufferevent, or the
\* pair is freed.
onMainRead(ok) ==
  /\ phase = "added"
  /\ phase' = IF ok THEN "reading" ELSE "closed"
  /\ pair' = IF ok THEN pair ELSE << >>
  /\ UNCHANGED <<kind, sock, short, writers, reader>>

------------------------------------------------------------------------------
\* A thread runs, unless the handler has interrupted it.
Runs(w) == w # on

\* Q_SockWrite on a non-blocking socket: send takes what fits, the next send
\* fails and so does the call.
Q_SockWrite(bytes) ==
  LET room == IF phase = "closed" THEN 0 ELSE Cap - Len(pair)
      n == IF room < Len(bytes) THEN room ELSE Len(bytes)
  IN  /\ pair' = pair \o SubSeq(bytes, 1, n)
      /\ short' = (short \/ n < Len(bytes))

\* The start of writeLog, writeDBLog and sendMail: no socket, no record;
\* otherwise createHead, in the parser all threads share.
createHead(w, r) ==
  /\ pc[w] = "idle" /\ Runs(w) /\ sock /\ (w = Sig \/ made < MaxRecords)
  /\ kind = "mail" => w = Worker /\ phase = "reading"
  /\ head' = Len(r)
  /\ rec' = [rec EXCEPT ![w] = r]
  /\ pc' = [pc EXCEPT ![w] = "built"]
  /\ made' = IF w = Sig THEN made ELSE made + 1
  /\ raced' = (raced \/ \E v \in Writers : pc[v] = "built" /\ Len(rec[v]) # Len(r))
  /\ UNCHANGED <<kind, phase, sock, pair, short, lock, on, accepted, reader>>

\* Mutation: the mutex is not taken.
writeHeadNoLock(w) ==
  /\ pc[w] = "built" /\ Runs(w) /\ kind # "mail"
  /\ Q_SockWrite(<< head >>)
  /\ accepted' = Append(accepted, rec[w])
  /\ pc' = [pc EXCEPT ![w] = "head"]
  /\ UNCHANGED <<kind, phase, sock, head, lock, rec, on, made, raced, reader>>

\* The loggers: Lock, then the head as it is now; the result is ignored.
writeHead(w) ==
  /\ pc[w] = "built" /\ Runs(w) /\ kind # "mail" /\ lock = NoThread
  /\ lock' = w
  /\ Q_SockWrite(<< head >>)
  /\ accepted' = Append(accepted, rec[w])
  /\ pc' = [pc EXCEPT ![w] = "head"]
  /\ UNCHANGED <<kind, phase, sock, head, rec, on, made, raced, reader>>

\* sendMail has no mutex; without its head the mail is given up.
mailHead(w) ==
  /\ pc[w] = "built" /\ Runs(w) /\ kind = "mail"
  /\ Q_SockWrite(<< head >>)
  /\ LET ok == pair' # pair IN
       /\ pc' = [pc EXCEPT ![w] = IF ok THEN "head" ELSE "idle"]
       /\ accepted' = IF ok THEN Append(accepted, rec[w]) ELSE accepted
  /\ UNCHANGED <<kind, phase, sock, head, lock, rec, on, made, raced, reader>>

\* Mutation: the mutex is not released when the write fails.
writeBodyKeepsLock(w) ==
  /\ pc[w] = "head" /\ Runs(w)
  /\ Q_SockWrite(rec[w])
  /\ lock' = IF short' THEN lock ELSE NoThread
  /\ pc' = [pc EXCEPT ![w] = IF w = Sig THEN "done" ELSE "idle"]
  /\ on' = IF w = Sig THEN NoThread ELSE on
  /\ rec' = [rec EXCEPT ![w] = << >>]
  /\ UNCHANGED <<kind, phase, sock, head, made, accepted, raced, reader>>

\* The body, its result ignored, and unLock.  The handler returns to the thread
\* it interrupted.
writeBody(w) ==
  /\ pc[w] = "head" /\ Runs(w)
  /\ Q_SockWrite(rec[w])
  /\ lock' = NoThread
  /\ pc' = [pc EXCEPT ![w] = IF w = Sig THEN "done" ELSE "idle"]
  /\ on' = IF w = Sig THEN NoThread ELSE on
  /\ rec' = [rec EXCEPT ![w] = << >>]
  /\ UNCHANGED <<kind, phase, sock, head, made, accepted, raced, reader>>

\* A signal is delivered to a thread, wherever it is, and the handler is about to
\* make the first of its Q_LOG calls.
SigHandEntry(t) ==
  /\ kind = "txt" /\ sock /\ pc[Sig] = "off" /\ made < MaxRecords
  /\ on' = t /\ made' = made + 1
  /\ pc' = [pc EXCEPT ![Sig] = "idle"]
  /\ UNCHANGED <<kind, phase, sock, pair, short, head, lock, rec, accepted, raced,
                 reader>>

------------------------------------------------------------------------------
\* The loop: bytes move to the evbuffer, and LogerReadCB (CMailSender::
\* onMainRead) takes records off it.
Arrive ==
  /\ phase = "reading" /\ pair # << >>
  /\ \E n \in 1 .. Len(pair) :
       /\ buf' = buf \o SubSeq(pair, 1, n)
       /\ pair' = SubSeq(pair, n + 1, Len(pair))
  /\ UNCHANGED <<kind, phase, sock, short, writers, out, stored, sinkOk>>

\* Mutation: a record is seen when a byte follows it.
WholeAndMore == Len(buf) > 1 /\ Len(buf) > 1 + buf[1]

\* parsePack finds a record.
Whole == Len(buf) >= 1 /\ Len(buf) >= 1 + buf[1]

\* Mutation: the file is opened again at the next record.
txtWriteReopens(stores) ==
  /\ kind = "txt"
  /\ sinkOk' \in BOOLEAN
  /\ stores => sinkOk \/ sinkOk'

\* CTxtLoger::Write: without a file nothing is written; when the file is due to
\* be changed it is closed, and stays so if the new one does not open.
txtWrite(stores) ==
  /\ kind = "txt"
  /\ stores => sinkOk
  /\ sinkOk' = stores

\* CDBLoger::Write: an insert that fails loses the record; if the link is down
\* as well it is opened again, or not.
dbWrite(stores) ==
  /\ kind = "db"
  /\ stores => sinkOk
  /\ sinkOk' \in IF sinkOk THEN {TRUE} ELSE BOOLEAN

\* CMailSender::onMainRead: a mail that does not parse is not sent.
mailWrite(stores) == kind = "mail" /\ UNCHANGED sinkOk

Write(stores) ==
  /\ phase = "reading" /\ Whole
  /\ LET r == SubSeq(buf, 2, 1 + buf[1]) IN
       /\ buf' = SubSeq(buf, 2 + buf[1], Len(buf))
       /\ out' = Append(out, r)
       /\ stored' = IF stores THEN Append(stored, r) ELSE stored
  /\ txtWrite(stores) \/ dbWrite(stores) \/ mailWrite(stores)
  /\ UNCHANGED <<kind, phase, sock, pair, short, writers>>

\* The database goes away.
dbLost ==
  /\ kind = "db" /\ sinkOk
  /\ sinkOk' = FALSE
  /\ UNCHANGED <<kind, phase, sock, pair, short, writers, buf, out, stored>>

\* The loop stops, between two callbacks.  CLog::onStop frees the pairs it knows
\* of, and a logger keeps its socket; the mailer's pair is only read no more, and
\* getIsRun turns false.
onStop ==
  LET freed == phase = "reading" /\ kind # "mail" IN
  /\ phase \in {"added", "reading"} /\ ~Whole
  /\ phase' = IF freed THEN "closed" ELSE "unread"
  /\ pair' = IF freed THEN << >> ELSE pair
  /\ buf' = IF freed THEN << >> ELSE buf
  /\ sock' = (kind # "mail")
  /\ UNCHANGED <<kind, short, writers, out, stored, sinkOk>>

WriterStep(w) ==
  \/ \E r \in Records : createHead(w, r)
  \/ writeHead(w) \/ mailHead(w) \/ writeBody(w)

Loop ==
  \/ \E ok \in BOOLEAN : onMainRead(ok)
  \/ Arrive
  \/ \E stores \in BOOLEAN : Write(stores)

Next ==
  \/ \E ok \in BOOLEAN : addLoger(ok)
  \/ \E w \in Writers : WriterStep(w)
  \/ \E t \in Threads : SigHandEntry(t)
  \/ Loop \/ dbLost \/ onStop

\* The loop serves its events; a thread that is inside a call goes on with it,
\* and gets the mutex when it is free.
Fairness ==
  /\ WF_vars(Loop)
  /\ \A w \in Writers : WF_vars(writeHead(w) \/ mailHead(w) \/ writeBody(w))
  /\ WF_vars(\E r \in Records : createHead(Sig, r))

Spec == Init /\ [][Next]_vars /\ Fairness

------------------------------------------------------------------------------
\* The loop takes out the records the writers wrote, whole and in the order they
\* took the mutex, as long as no thread rebuilt the shared head before another
\* had written its own and every write fitted into the pair (createHead before
\* Lock, ignored results of Q_SockWrite).
InOrder ==
  (~raced /\ ~short) =>
    /\ Len(out) <= Len(accepted)
    /\ \A i \in 1 .. Len(out) : out[i] = accepted[i]

\* A log file has no hole: once a record is lost because the file did not open
\* again every later one is lost too (CTxtLoger::Write with m_pFile NULL).
FileHasNoGap ==
  kind = "txt" =>
    /\ Len(stored) <= Len(out)
    /\ \A i \in 1 .. Len(stored) : stored[i] = out[i]

\* The handler interrupted the thread that holds the logger's mutex.
Stuck == on # NoThread /\ lock = on

\* No thread hangs in writeLog, writeDBLog or sendMail: a full pair or a stopped
\* loop costs the record, not the thread.  The signal handler comes to its end,
\* so that the service can stop.  The exception is a handler that runs on the
\* thread that was inside writeLog's critical section.
WritersReturn ==
  /\ \A t \in Threads : (pc[t] # "idle") ~> (pc[t] = "idle" \/ Stuck)
  /\ (on # NoThread) ~> (on = NoThread \/ Stuck)

\* Every record whose head was written is taken out, unless framing was lost,
\* the sink was stopped or failed to start, or the handler is stuck.
AllTaken ==
  \A n \in 1 .. MaxRecords :
    (Len(accepted) >= n) ~>
      (Len(out) >= n \/ raced \/ short \/ phase \in {"closed", "unread"} \/ Stuck)
==============================================================================
