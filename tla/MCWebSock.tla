------------------------------ MODULE MCWebSock ------------------------------
(***************************************************************************)
(* Messages of one, two and three frames, and one whose second frame does  *)
(* not decode.                                                             *)
(***************************************************************************)
EXTENDS WebSock

CONSTANTS a, b, bad
MCMsgs == { << a >>, << b, a >>, << a, b, b >>, << a, bad >> }
==============================================================================
