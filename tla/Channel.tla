------------------------------- MODULE Channel -------------------------------
(***************************************************************************)
(* What a linked session promises to the scripts at its two ends, whatever *)
(* carries it: every message handed to the sender is handed to the         *)
(* receiver whole, once and in the order of sending, until the session is  *)
(* closed.  A message the receiver refuses (its Decode returns NULL) stays *)
(* at the head and blocks the ones behind it.  TcpFrames and WebSock are   *)
(* shown to implement this specification.                                  *)
(***************************************************************************)
EXTENDS Naturals, Sequences

CONSTANTS
  Msgs,      \* the messages a script may send
  Refused    \* those of them the receiver's Decode does not accept

VARIABLES
  sent,      \* messages handed to the sender, in order
  got,       \* messages handed to the receiving script, in order
  open       \* the receiver still has the session

vars == <<sent, got, open>>

Init == sent = << >> /\ got = << >> /\ open = TRUE

Send == \E m \in Msgs : sent' = Append(sent, m) /\ UNCHANGED <<got, open>>

\* The next message reaches the script, which may close the session while it
\* handles it.
Deliver ==
  /\ open
  /\ Len(got) < Len(sent)
  /\ sent[Len(got) + 1] \notin Refused
  /\ got' = Append(got, sent[Len(got) + 1])
  /\ open' \in {TRUE, FALSE}
  /\ UNCHANGED sent

Close == open /\ open' = FALSE /\ UNCHANGED <<sent, got>>

Next == Send \/ Deliver \/ Close

Safety == Init /\ [][Next]_vars

Spec == Safety /\ WF_vars(Deliver)
==============================================================================
