----------------------------- MODULE MCTimeWheel -----------------------------
(***************************************************************************)
(* Small wheels for TLC.                                                   *)
(***************************************************************************)
EXTENDS TimeWheel, TLC

\* Two "seconds", three "minutes" and two "hours".
MCCount == <<2, 3, 2>>

\* The timers are interchangeable.
TimerSymmetry == Permutations(Timers)
=============================================================================
