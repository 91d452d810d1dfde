-------------------------- MODULE PipelinePrograms --------------------------
(***************************************************************************)
(* The programs of bench/bench_pipeline.cpp and tools/                     *)
(* profile_pipeline_latency.cpp, one operator each: what travels through   *)
(* the ring, how many items the two loops ask for at a time, and whether   *)
(* the consumer applies the items to a book.  batch is BatchSize.          *)
(***************************************************************************)
EXTENDS Workload

Program(sent, push, pop) ==
  [commands |-> sent, items |-> sent, indexed |-> FALSE, applies |-> TRUE,
   push_size |-> push, pop_size |-> pop, reserved |-> 0, executions |-> <<>>, resting |-> 0]

\* The ring carries positions in the command array, from 0.
Positions(sent) == [i \in DOMAIN sent |-> [index |-> i - 1]]
Indexed(program) ==
  [program EXCEPT !.indexed = TRUE, !.items = Positions(program.commands)]
QueueOnly(program) == [program EXCEPT !.applies = FALSE]
Reserving(n, program) == [program EXCEPT !.reserved = n]

Fast_AddOnly_RawExec(n) == Reserving(n, Program(make_add_only_commands(n), 1, 1))
Fast_FullMatch_RawExec(n) == Reserving(n, Program(make_full_match_commands(n), 1, 1))
Fast_FullMatch_IndexQueue_RawExec(n) == Indexed(Fast_FullMatch_RawExec(n))
FullMatch_BatchPop_RawExec(n, batch) ==
  Reserving(n, Program(make_full_match_commands(n), 1, batch))
\* Pinning a thread changes when it runs, not what it does.
FullMatch_BatchPop_Pinned_RawExec(n, batch) == FullMatch_BatchPop_RawExec(n, batch)
FullMatch_BatchPushPop_RawExec(n, batch) ==
  Reserving(n, Program(make_full_match_commands(n), batch, batch))
FullMatch_QueueOnly(n, batch) ==
  QueueOnly(Program(make_full_match_commands(n), 1, batch))
FullMatch_IndexQueueOnly(n) ==
  QueueOnly(Indexed(Program(make_full_match_commands(n), 1, 1)))
Uint64_QueueOnly(n) ==
  QueueOnly([Program(<<>>, 1, 1) EXCEPT !.items = [i \in 1..n |-> [value |-> i]]])

\* The profiler, given commands and the number of executions it will insist on.
run_profile(sent, expected_executions) == Reserving(expected_executions, Program(sent, 1, 1))

(* What the programs are meant to end with: the executions in the buffer   *)
(* and the number of orders left in the book.                              *)
Ends(p, executed, left) == [p EXCEPT !.executions = executed, !.resting = left]
Trade(incoming, resting, price, qty) ==
  [incoming_order_id |-> incoming, resting_order_id |-> resting, price |-> price, qty |-> qty]
Matches(n, p) == Ends(p, [i \in 1..n |-> Trade(n + i, i, FullMatchPrice, OrderQty(i))], 0)
Rests(n, p)   == Ends(p, <<>>, n)

AddOnlyBenchmarks(n) == {Rests(n, Fast_AddOnly_RawExec(n))}
FullMatchBenchmarks(n, batch) ==
  {Matches(n, Fast_FullMatch_RawExec(n)),
   Matches(n, Fast_FullMatch_IndexQueue_RawExec(n)),
   Matches(n, FullMatch_BatchPop_RawExec(n, batch)),
   Matches(n, FullMatch_BatchPop_Pinned_RawExec(n, batch)),
   Matches(n, FullMatch_BatchPushPop_RawExec(n, batch)),
   Matches(n, run_profile(make_full_match_commands(n), n))}
QueueBenchmarks(n, batch) ==
  {FullMatch_QueueOnly(n, batch), FullMatch_IndexQueueOnly(n), Uint64_QueueOnly(2 * n)}
==============================================================================
