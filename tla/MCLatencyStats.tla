--------------------------- MODULE MCLatencyStats ---------------------------
(* LatencyStats with the percentiles the report asks for, and the extremes.  *)
EXTENDS LatencyStats

MCPerMilles == {0, 500, 900, 990, 999, 1000}
==============================================================================
