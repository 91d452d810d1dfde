-------------------------- MODULE ExecutionBuffer --------------------------
(***************************************************************************)
(* src/execution_sink.hpp: the sinks a submit call reports into, as values *)
(* and the operations on them.  An ExecutionBuffer is a fixed array with a *)
(* count; emplace_back checks the count by an assertion only.  A           *)
(* NullExecutionSink keeps nothing.  std::vector<Execution>, which two of  *)
(* the callers use instead, grows by itself.                               *)
(***************************************************************************)
EXTENDS Integers, Sequences

Execution0 == [incoming_order_id |-> 0, resting_order_id |-> 0, price |-> 0, qty |-> 0]

Buffer == [kind |-> "buffer", data |-> <<>>, size |-> 0]
NullSink == [kind |-> "null", data |-> <<>>, size |-> 0]
Vector == [kind |-> "vector", data |-> <<>>, size |-> 0]

Replaced(sink, n) ==                     \* mutant: the old contents are not copied
  [sink EXCEPT !.data = [i \in 1..n |-> Execution0]]
\* A larger array takes over the first size_ executions; clear() keeps the array.
Reserve(sink, n) ==
  IF sink.kind # "buffer" \/ n <= Len(sink.data) THEN sink
  ELSE [sink EXCEPT !.data = [i \in 1..n |-> IF i <= sink.size THEN sink.data[i] ELSE Execution0]]
Clear(sink) == [sink EXCEPT !.size = 0, !.data = IF sink.kind = "vector" THEN <<>> ELSE @]

\* Past the reservation the write goes outside the array, and size_ grows.
EmplaceBack(sink, x) ==
  CASE sink.kind = "null"   -> sink
    [] sink.kind = "vector" -> [sink EXCEPT !.data = Append(@, x), !.size = @ + 1]
    [] sink.kind = "buffer" ->
         [sink EXCEPT !.data = [i \in DOMAIN sink.data |-> IF i = sink.size + 1 THEN x ELSE sink.data[i]],
                      !.size = @ + 1]

\* What the caller finds after the calls.
InBounds(sink) == sink.kind = "buffer" => sink.size <= Len(sink.data)
Contents(sink) == IF InBounds(sink) THEN SubSeq(sink.data, 1, sink.size) ELSE sink.data
============================================================================
