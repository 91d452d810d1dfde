------------------------------ MODULE LevelScan ------------------------------
(***************************************************************************)
(* fixed_clob.hpp, refresh_best_after_empty_level(): the loop that looks   *)
(* for the next best price after a level became empty, one action per      *)
(* iteration, on prices that are machine words and level arrays of the     *)
(* size the constructor computes.  FixedClob uses its result               *)
(* (RefreshedBest) as one operator.                                        *)
(***************************************************************************)
EXTENDS Integers

CONSTANTS
  PriceMod,   \* 2^64, the modulus of Price and std::size_t
  NoPrice     \* an empty std::optional<Price>

ASSUME RefreshAssumption == PriceMod \in Nat \ {0} /\ NoPrice \notin Int

Prices == 0..(PriceMod - 1)
Sides  == {"Buy", "Sell"}

VARIABLES
  min_price, max_price,   \* constructor arguments
  side,                   \* the side whose level was emptied
  filled,                 \* its level array: which elements have orders
  price,                  \* the loop's price, at first the emptied one
  best,                   \* best_bid_ or best_ask_
  pc

refresh_vars == <<min_price, max_price, side, filled, price, best, pc>>
------------------------------------------------------------------------------
RangeSize(min, max) == (max - min + 1) % PriceMod
range_size == RangeSize(min_price, max_price)
index(p) == (p - min_price) % PriceMod

\* !levels[index(p)].empty(); outside the array there is nothing to find.
HasOrders(p) == index(p) < range_size /\ filled[index(p)]
WithOrders == {p \in min_price..max_price : HasOrders(p)}

Better(p, q) == IF side = "Buy" THEN p > q ELSE p < q
Extreme(S) == IF S = {} THEN NoPrice ELSE CHOOSE p \in S : \A q \in S : p = q \/ Better(p, q)

\* The condition of the loop and the step it takes.
MoreTooFar == IF side = "Buy" THEN price >= min_price ELSE price <= max_price   \* mutant
More == IF side = "Buy" THEN price > min_price ELSE price < max_price
Upwards == (price + 1) % PriceMod                                               \* mutant
Following == (IF side = "Buy" THEN price - 1 ELSE price + 1) % PriceMod
------------------------------------------------------------------------------
\* The best price was the extreme one before the level at `price' emptied.
RefreshInit ==
  /\ \E min, max \in Prices :
       /\ min <= max /\ min_price = min /\ max_price = max
       /\ filled \in [0..(RangeSize(min, max) - 1) -> BOOLEAN]
       /\ price \in min..max
  /\ side \in Sides
  /\ ~HasOrders(price)
  /\ best = Extreme(WithOrders \cup {price})
  /\ pc = "entry"

\* The early return: another level is the best one.
Return ==
  /\ pc = "entry" /\ best # price
  /\ pc' = "done"
  /\ UNCHANGED <<min_price, max_price, side, filled, price, best>>

Enter ==
  /\ pc = "entry" /\ best = price
  /\ pc' = "loop"
  /\ UNCHANGED <<min_price, max_price, side, filled, price, best>>

Look ==
  /\ pc = "loop" /\ More
  /\ price' = Following
  /\ IF HasOrders(price')
     THEN best' = price' /\ pc' = "done"
     ELSE UNCHANGED <<best, pc>>
  /\ UNCHANGED <<min_price, max_price, side, filled>>

Reset ==
  /\ pc = "loop" /\ ~More
  /\ best' = NoPrice /\ pc' = "done"
  /\ UNCHANGED <<min_price, max_price, side, filled, price>>

RefreshNext == Return \/ Enter \/ Look \/ Reset

RefreshSpec == RefreshInit /\ [][RefreshNext]_refresh_vars
FairRefreshSpec == RefreshSpec /\ WF_refresh_vars(RefreshNext)
------------------------------------------------------------------------------
(* Properties                                                              *)

\* The loop neither leaves the range of prices nor wraps around the word, at
\* range ends 0 and 2^64 - 1 too, and every price has a level in the array:
\* unless the range is all of Price, the one size that range_size() cannot hold.
StaysInside ==
  /\ price \in min_price..max_price
  /\ index(price) < range_size <=> ~(min_price = 0 /\ max_price = PriceMod - 1)

\* The scan in one direction restores the extreme of the levels with orders.
RestoresBest == pc = "done" => best = Extreme(WithOrders)

\* The loop ends, for the range ends at the limits of the word as for others.
ScanEnds == <>(pc = "done")
==============================================================================
