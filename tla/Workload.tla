------------------------------ MODULE Workload ------------------------------
(***************************************************************************)
(* src/workload.hpp: the command sequences the benchmarks and the profiler *)
(* send through the pipeline.  Commands are numbered from 1 here, so the   *)
(* loop variable of the source is i - 1.                                   *)
(***************************************************************************)
EXTENDS Integers, Sequences

base_bid == 10000
base_ask == 10001
FullMatchPrice == 10000

OrderQty(i)    == ((i - 1) % 100) + 1
LevelOffset(i) == ((i - 1) * 37) % 1024

AddLimit(id, side, price, qty) ==
  [order_id |-> id, price |-> price, qty |-> qty, type |-> "AddLimit", side |-> side]
Cancel(id) == [order_id |-> id, price |-> 0, qty |-> 0, type |-> "Cancel", side |-> "Buy"]
\* OrderCommand{}: what the ring's slots hold before the first push.
DefaultCommand == AddLimit(0, "Buy", 0, 0)

RestingAsk(i)     == AddLimit(i, "Sell", base_ask + LevelOffset(i), OrderQty(i))
NonCrossingBuy(i) == AddLimit(i, "Buy", base_bid - LevelOffset(i), OrderQty(i))

make_add_only_commands(n) ==
  [i \in 1..n |-> IF (i - 1) % 2 = 1 THEN NonCrossingBuy(i) ELSE RestingAsk(i)]
make_resting_asks_commands(n)      == [i \in 1..n |-> RestingAsk(i)]
make_non_crossing_buys_commands(n) == [i \in 1..n |-> NonCrossingBuy(i)]

\* n sells, then n buys of the same sizes in the same order.
BuyId(n, i)        == n + i
ShiftedBuyQty(i)   == OrderQty(i + 1)    \* mutant: the sizes are out of step
BuyQty(i)          == OrderQty(i)
make_full_match_commands(n) ==
  [i \in 1..n |-> AddLimit(i, "Sell", FullMatchPrice, OrderQty(i))]
    \o [i \in 1..n |-> AddLimit(BuyId(n, i), "Buy", FullMatchPrice, BuyQty(i))]
==============================================================================
