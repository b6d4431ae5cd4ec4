---------------------------- MODULE MCCommEncrypt ----------------------------
(* Lists of up to two types, with RSA alone, first and absent.             *)
EXTENDS CommEncrypt

MCLists == {<< >>, <<"AES">>, <<"RSA">>, <<"ZLib", "AES">>, <<"RSA", "ZLib">>}
==============================================================================
