---------------------------- MODULE LatencyStats ----------------------------
(***************************************************************************)
(* src/latency_stats.hpp: samples in order of arrival, and a sorted copy   *)
(* that percentile() and print() rebuild when it is out of date.           *)
(***************************************************************************)
EXTENDS Integers, Sequences, FiniteSets, Functions

CONSTANTS
  Samples,      \* latencies, in nanoseconds
  PerMilles,    \* p, in thousandths; the code passes 0.5, 0.9, 0.99, 0.999
  MaxSamples    \* bound: samples in a run

ASSUME StatsAssumption ==
  Samples \subseteq Nat /\ PerMilles \subseteq 0..1000 /\ MaxSamples \in Nat

VARIABLES
  samples, sorted_samples, sorted_dirty,   \* samples_, sorted_samples_, sorted_dirty_
  asked,   \* <<p>> of the last percentile(), until a sample is added; else <<>>
  ret      \* its result

stats_vars == <<samples, sorted_samples, sorted_dirty, asked, ret>>
------------------------------------------------------------------------------
SortedOnce == sorted_samples # <<>>        \* mutant: later samples do not count
UpToDate == ~sorted_dirty /\ Len(sorted_samples) = Len(samples)

\* std::sort: the elements in ascending order, each as often as it was there.
Ascending(s) ==
  LET Orders == {[k \in DOMAIN s |-> s[p[k]]] : p \in Bijection(DOMAIN s, DOMAIN s)}
  IN  CHOOSE t \in Orders : \A j, k \in DOMAIN s : j < k => t[j] <= t[k]

\* percentile_sorted(): the index is p * (size - 1) cut down to an integer.
\* In double precision that product is exact whenever it is an integer, for
\* each p that the code passes, so the rational one has the same floor.
PercentileSorted(s, p) == s[((p * (Len(s) - 1)) \div 1000) + 1]

StatsInit ==
  /\ samples = <<>> /\ sorted_samples = <<>> /\ sorted_dirty = TRUE
  /\ asked = <<>> /\ ret = 0

Add(ns) ==
  /\ Len(samples) < MaxSamples
  /\ samples' = Append(samples, ns)
  /\ sorted_dirty' = TRUE
  /\ asked' = <<>>
  /\ UNCHANGED <<sorted_samples, ret>>

EnsureSorted ==
  IF UpToDate THEN UNCHANGED <<sorted_samples, sorted_dirty>>
  ELSE sorted_samples' = Ascending(samples) /\ sorted_dirty' = FALSE

Percentile(p) ==
  /\ asked' = <<p>>
  /\ IF samples = <<>>
     THEN ret' = 0 /\ UNCHANGED <<sorted_samples, sorted_dirty>>
     ELSE EnsureSorted /\ ret' = PercentileSorted(sorted_samples', p)
  /\ UNCHANGED samples

\* What print() writes is left out, not that it sorts.
Report == samples # <<>> /\ EnsureSorted /\ UNCHANGED <<samples, asked, ret>>

StatsNext ==
  \/ \E ns \in Samples : Add(ns)
  \/ \E p \in PerMilles : Percentile(p)
  \/ Report

StatsSpec == StatsInit /\ [][StatsNext]_stats_vars
------------------------------------------------------------------------------
(* Properties                                                              *)

\* An answer is about every sample added before it, in whatever order they
\* came, and however often a percentile, this one or another, or the report was
\* asked for in between: it is a sample, with at most a share p of the others
\* below it, and so many at or below it that the next greater one would have
\* too many below.
PercentileExact ==
  asked # <<>> =>
    LET Below  == Cardinality({k \in DOMAIN samples : samples[k] < ret})
        UpTo   == Cardinality({k \in DOMAIN samples : samples[k] <= ret})
        others == Len(samples) - 1
    IN  IF samples = <<>> THEN ret = 0
        ELSE 1000 * Below <= asked[1] * others /\ 1000 * UpTo > asked[1] * others
==============================================================================
