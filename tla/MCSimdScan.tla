----------------------------- MODULE MCSimdScan -----------------------------
(* SimdScan on every short array and every start.                           *)
EXTENDS SimdScan
==============================================================================
