------------------------------ MODULE SimdScan ------------------------------
(***************************************************************************)
(* src/simd_scan.hpp, avx2_find_next_nonzero: the first non-zero element   *)
(* at or after start, searched in blocks of NumBlocks vectors, then in     *)
(* single vectors, then element by element.  An action is one iteration of *)
(* one of the three loops, or the step to the next loop.                   *)
(***************************************************************************)
EXTENDS Integers

CONSTANTS
  Lanes,       \* elements per vector (8)
  NumBlocks,   \* template argument
  MaxLen       \* bound: longest array

ASSUME ScanAssumption ==
  Lanes \in Nat \ {0} /\ NumBlocks \in Nat \ {0} /\ MaxLen \in Nat

step == NumBlocks * Lanes
NoIndex == -1     \* std::nullopt

VARIABLES
  a, n, start,   \* the arguments; only which elements are zero matters
  i,             \* position of the scan
  loop,          \* the loop it is in: "block", "vector", "scalar", or "done"
  result

args == <<a, n, start>>
vars == <<a, n, start, i, loop, result>>
------------------------------------------------------------------------------
\* The mask of zero lanes of the `width' elements at i, and countr_one of it:
\* the first lane that is not in the mask.
ZeroMask(width) == {k \in 0..(width - 1) : a[i + k] = 0}
Full(width) == 0..(width - 1)
CountrOne(mask, width) ==
  CHOOSE k \in Full(width) : k \notin mask /\ \A j \in 0..(k - 1) : j \in mask

\* The loop condition, and the increment.
Fits(width) == i + width <= n
SkipsTail(width) == i + 2 * width        \* mutant: one vector too far
Advanced(width) == i + width

Init ==
  /\ n \in 0..MaxLen /\ start \in 0..(MaxLen + 1)
  /\ a \in [0..(n - 1) -> {0, 1}]
  /\ i = start /\ result = NoIndex
  /\ loop = IF start >= n THEN "done" ELSE "block"

\* One iteration over `width' elements: stop at a non-zero lane or go on.
Vectors(width) ==
  /\ Fits(width)
  /\ IF ZeroMask(width) # Full(width)
     THEN /\ result' = i + CountrOne(ZeroMask(width), width)
          /\ loop' = "done" /\ UNCHANGED i
     ELSE i' = Advanced(width) /\ UNCHANGED <<loop, result>>
  /\ UNCHANGED args

ScanBlock  == loop = "block" /\ Vectors(step)
ScanVector == loop = "vector" /\ Vectors(Lanes)
ScanScalar == loop = "scalar" /\ Vectors(1)

EndOfBlocks  == loop = "block" /\ ~Fits(step) /\ loop' = "vector" /\ UNCHANGED <<args, i, result>>
EndOfVectors == loop = "vector" /\ ~Fits(Lanes) /\ loop' = "scalar" /\ UNCHANGED <<args, i, result>>
EndOfScan    == loop = "scalar" /\ ~Fits(1) /\ loop' = "done" /\ UNCHANGED <<args, i, result>>

Next == ScanBlock \/ ScanVector \/ ScanScalar \/ EndOfBlocks \/ EndOfVectors \/ EndOfScan

Spec == Init /\ [][Next]_vars
------------------------------------------------------------------------------
(* Properties                                                              *)

\* Types, and the scan never leaves the array once it is in it.
ScanTypeOK ==
  /\ n \in 0..MaxLen /\ start \in 0..(MaxLen + 1)
  /\ a \in [0..(n - 1) -> {0, 1}]
  /\ i \in start..(IF start > n THEN start ELSE n)
  /\ loop \in {"block", "vector", "scalar", "done"}
  /\ result \in {NoIndex} \cup 0..(n - 1)

\* scalar_find_next_nonzero: what the tests compare with.
Nonzero == {j \in start..(n - 1) : a[j] # 0}
ScalarResult ==
  IF Nonzero = {} THEN NoIndex ELSE CHOOSE j \in Nonzero : \A k \in Nonzero : j <= k

\* Whatever the split of the range into blocks, vectors and a scalar tail, no
\* element is skipped or looked at in the wrong order: the answer is the
\* scalar loop's.
FindsFirst == loop = "done" => result = ScalarResult
==============================================================================
