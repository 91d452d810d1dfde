---------------------------- MODULE MCOrderBook ----------------------------
(* FixedClobBook on small instances.                                       *)
EXTENDS MCFixedClob, FixedClobBook
==============================================================================
