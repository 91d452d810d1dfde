--------------------------- MODULE DirectPrograms ---------------------------
(***************************************************************************)
(* The programs that drive one FixedClob from one thread, one operator     *)
(* each, as the calls they make: bench/bench_fixed_clob.cpp,               *)
(* bench/bench_matching.cpp, bench/bench_matching_hot.cpp and              *)
(* tools/profile_full_match*.cpp.  A "preload" call submits with a         *)
(* NullExecutionSink of its own, the others with the program's sink.       *)
(***************************************************************************)
EXTENDS Workload, ExecutionBuffer

Calls(op, commands) == [i \in DOMAIN commands |-> [op |-> op, command |-> commands[i]]]
Reserving(n) == <<[op |-> "reserve", count |-> n]>>
Clearing     == <<[op |-> "clear"]>>
Direct(sink, calls) == [sink |-> sink, calls |-> calls, executions |-> <<>>, resting |-> 0]

FixedClob_AddOnly(n) == Direct(NullSink, Calls("add", make_add_only_commands(n)))
FixedClob_AddThenCancel(n) ==
  Direct(NullSink, Calls("add", make_add_only_commands(n))
                     \o Calls("cancel", make_add_only_commands(n)))

run_matching_add_only(n) ==
  Direct(Buffer, Reserving(n) \o Calls("submit", make_add_only_commands(n)))
run_matching_full_match(n) ==
  Direct(Buffer, Reserving(n) \o Calls("submit", make_full_match_commands(n)))

\* One sell of 1 on each level, then one buy that takes them all.
Sweep(levels) == AddLimit(levels + 1, "Buy", 10000 + levels, levels)
OneAskPerLevel(levels) == [i \in 1..levels |-> AddLimit(i, "Sell", 10000 + i, 1)]
run_matching_sweep_ask_levels(levels) ==
  Direct(Buffer, Reserving(levels) \o Calls("submit", OneAskPerLevel(levels))
                   \o Calls("submit", <<Sweep(levels)>>))

run_matching_hot_add_only(n) ==
  Direct(Buffer, Reserving(n) \o Calls("submit", make_non_crossing_buys_commands(n)))
run_matching_hot_sweep_ask_levels(levels) ==
  Direct(Buffer, Reserving(levels) \o Calls("submit", OneAskPerLevel(levels))
                   \o Calls("submit", <<Sweep(levels)>>))

\* The sells go in before the sink that is measured exists.
Sells(n) == SubSeq(make_full_match_commands(n), 1, n)
Buys(n)  == SubSeq(make_full_match_commands(n), n + 1, 2 * n)
run_matching_hot_full_match(n, sink) ==
  Direct(sink, Calls("preload", Sells(n)) \o Reserving(n) \o Calls("submit", Buys(n)))

profile_full_match(n) ==
  Direct(Vector, Calls("preload", Sells(n)) \o Reserving(n) \o Calls("submit", Buys(n)))
profile_full_match_raw_exec(n) ==
  Direct(Buffer, Calls("preload", Sells(n)) \o Reserving(n) \o Calls("submit", Buys(n)))
profile_full_match_no_exec(n) ==
  Direct(NullSink, Calls("preload", Sells(n)) \o Reserving(n) \o Calls("submit", Buys(n)))

(* What the programs are meant to end with: the executions in the sink and *)
(* the number of orders left in the book.                                  *)
Ends(p, executed, left) == [p EXCEPT !.executions = executed, !.resting = left]
Trade(incoming, resting, price, qty) ==
  [incoming_order_id |-> incoming, resting_order_id |-> resting, price |-> price, qty |-> qty]
Matched(n) == [i \in 1..n |-> Trade(n + i, i, FullMatchPrice, OrderQty(i))]
Swept(n)   == [i \in 1..n |-> Trade(n + 1, i, FullMatchPrice + i, 1)]

Benchmarks(n) ==
  {Ends(FixedClob_AddOnly(n), <<>>, n),
   Ends(FixedClob_AddThenCancel(n), <<>>, 0),
   Ends(run_matching_add_only(n), <<>>, n),
   Ends(run_matching_full_match(n), Matched(n), 0),
   Ends(run_matching_sweep_ask_levels(n), Swept(n), 0),
   Ends(run_matching_hot_add_only(n), <<>>, n),
   Ends(run_matching_hot_sweep_ask_levels(n), Swept(n), 0),
   Ends(run_matching_hot_full_match(n, NullSink), <<>>, 0),
   Ends(run_matching_hot_full_match(n, Buffer), Matched(n), 0),
   Ends(run_matching_hot_full_match(n, Vector), Matched(n), 0),
   Ends(profile_full_match(n), Matched(n), 0),
   Ends(profile_full_match_raw_exec(n), Matched(n), 0),
   Ends(profile_full_match_no_exec(n), <<>>, 0)}
==============================================================================
