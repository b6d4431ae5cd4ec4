-------------------------------- MODULE MCLog --------------------------------
(***************************************************************************)
(* Two records of different lengths; the pair holds four bytes: the long    *)
(* record with its head, or the short one and part of another.             *)
(***************************************************************************)
EXTENDS Log

MCRecords == { << 1 >>, << 2, 0 >> }
==============================================================================
