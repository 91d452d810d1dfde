----------------------------- MODULE MCPipeline -----------------------------
(* The programs of Pipeline on a few orders.                                 *)
EXTENDS Pipeline, PipelinePrograms

MCPrograms ==
  AddOnlyBenchmarks(3)
  \cup FullMatchBenchmarks(MaxOrders, MaxBatch)
  \cup QueueBenchmarks(MaxOrders, MaxBatch)
  \cup {\* The consumers' other branch, which no workload takes: a buy uses up
        \* the only sell, rests and is cancelled.
        Ends(run_profile(<<AddLimit(1, "Sell", 10000, 1), AddLimit(2, "Buy", 10000, 2), Cancel(2)>>, 1),
             <<Trade(2, 1, 10000, 1)>>, 0),
        \* A buy that meets a full pool takes the first of the asks, and what
        \* is left of it has only the slot of that ask to rest in.
        Ends(run_profile([i \in 1..MaxOrders |-> AddLimit(i, "Sell", 10000 + i, 1)]
                           \o <<AddLimit(MaxOrders + 1, "Buy", 10001, 2)>>, 1),
             <<Trade(MaxOrders + 1, 1, 10001, 1)>>, MaxOrders),
        \* The other generators, sent in batches.
        Rests(3, Program(make_resting_asks_commands(3), MaxBatch, MaxBatch)),
        Rests(3, Program(make_non_crossing_buys_commands(3), MaxBatch, MaxBatch))}
==============================================================================
