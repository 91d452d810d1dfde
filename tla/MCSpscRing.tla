----------------------------- MODULE MCSpscRing -----------------------------
(* SpscRing on small rings whose counters wrap after a few laps.            *)
EXTENDS SpscRing, TLC
==============================================================================
