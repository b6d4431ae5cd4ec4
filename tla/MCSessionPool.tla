---------------------------- MODULE MCSessionPool ----------------------------
(* The pool starts with one object, so that it makes others when there is  *)
(* a second session, and hands them out again in another order.            *)
EXTENDS SessionPool

CONSTANT o1

MCInitFree == <<o1>>
==============================================================================
