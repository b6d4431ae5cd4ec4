----------------------------- MODULE MCTcpFrames -----------------------------
(***************************************************************************)
(* Bytes have four values: lengths 0 and 1 have the one byte head, 2 to 15 *)
(* the three byte head, 16 and more the nine byte head.  The bodies repeat *)
(* the flag values, so a frame cut or drained at the wrong place parses as *)
(* something else.                                                         *)
(***************************************************************************)
EXTENDS TcpFrames

MCMsgs == { << >>, << 3 >>, << 2, 0 >>, [i \in 1 .. 16 |-> i % 4], << 3, 3, 3 >> }
MCRefused == { << 3, 3, 3 >> }
==============================================================================
