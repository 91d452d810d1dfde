-------------------------- MODULE MCSpscRingCached --------------------------
(* SpscRingCached on small rings whose counters wrap after a few laps.      *)
EXTENDS SpscRingCached, TLC
==============================================================================
