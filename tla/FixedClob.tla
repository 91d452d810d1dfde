------------------------------ MODULE FixedClob ------------------------------
(***************************************************************************)
(* src/fixed_clob.hpp with the OrderPool it owns: a pool of order slots    *)
(* recycled through a LIFO free stack, a doubly linked FIFO of slots per   *)
(* side and price, the OrderId -> slot index, and the cached best bid and  *)
(* best ask.  add_order and cancel_order are one action each.  A           *)
(* submit_limit_order call is entered by one action, makes one step per    *)
(* test or iteration of its two nested loops (pc names the loop the call   *)
(* is at) and is left by one action.                                       *)
(*                                                                         *)
(* The index is a partial function here; module FixedOrderIndex shows that *)
(* the open-addressing table behaves as one of 2 * MaxOrders entries.      *)
(***************************************************************************)
EXTENDS Integers, Sequences, FiniteSets
FSX == INSTANCE FiniteSetsExt

CONSTANTS
  MaxOrders,              \* template argument: slots of the pool
  OrderIds,               \* identifiers callers use (never 0)
  MinPrice, MaxPrice,     \* constructor arguments
  InputPrices, InputQtys, \* arguments callers pass, valid or not
  QtyMod,                 \* 2^64, the modulus of Quantity
  NullIndex,              \* null_order_index
  NoPrice                 \* an empty std::optional<Price>

Idx    == 0..(MaxOrders - 1)
Prices == MinPrice..MaxPrice
Qtys   == 0..(QtyMod - 1)
Sides  == {"Buy", "Sell"}
Opposite(side) == IF side = "Buy" THEN "Sell" ELSE "Buy"

ASSUME ClobAssumption ==
  /\ MaxOrders \in Nat \ {0} /\ NullIndex \notin Idx
  /\ MinPrice \in Nat /\ MaxPrice \in Nat /\ MinPrice <= MaxPrice
  /\ NoPrice \notin Int
  /\ QtyMod \in Nat \ {0} /\ InputQtys \subseteq Qtys /\ InputPrices \subseteq Nat

VARIABLES
  orders,        \* pool_.orders_
  free_stack,    \* pool_.free_stack_[0 .. top_ - 1], top of stack last
  levels,        \* bid_levels_ and ask_levels_
  order_lookup,  \* order_lookup_: slot of each resting order
  best,          \* best_bid_ and best_ask_
  pc,            \* where the submit call in progress is
  call,          \* its arguments and the quantity still to match
  lvl,           \* price of the level match_at_level works on
  executions,    \* what the call in progress put into the sink
  ret            \* result of the last completed operation

store == <<orders, free_stack, levels, order_lookup, best>>
vars  == <<orders, free_stack, levels, order_lookup, best, pc, call, lvl, executions, ret>>

DefaultOrder == [order_id |-> 0, price |-> 0, qty |-> 0, side |-> "Buy",
                 next_idx |-> NullIndex, prev_idx |-> NullIndex]
EmptyLevel == [head_idx |-> NullIndex, tail_idx |-> NullIndex, total_qty |-> 0, order_count |-> 0]
NoCall == [order_id |-> 0, side |-> "Buy", price |-> 0, qty |-> 0, submitted |-> 0]
------------------------------------------------------------------------------
(* Helpers of the class                                                    *)

ValidPrice(price) == MinPrice <= price /\ price <= MaxPrice
Contains(id) == order_lookup[id] # NullIndex
IndexFull == Cardinality({id \in OrderIds : Contains(id)}) = 2 * MaxOrders

\* crosses(): the cached best of the other side against the limit.
CrossesAnyLimit(side, price) ==            \* mutant: the limit is not looked at
  best[Opposite(side)] # NoPrice
CrossesStrictly(side, price) ==            \* mutant: equal prices do not cross
  LET b == best[Opposite(side)]
  IN  b # NoPrice /\ IF side = "Buy" THEN b < price ELSE b > price
Crosses(side, price) ==
  LET b == best[Opposite(side)]
  IN  b # NoPrice /\ IF side = "Buy" THEN b <= price ELSE b >= price

Improves(side, price, b) == IF side = "Buy" THEN price > b ELSE price < b

\* OrderPool::allocate() and release(): top_ moves down, or up over the slot.
Top == free_stack[Len(free_stack)]
TopKept == free_stack                      \* mutant: top_ is not decremented
Allocated == SubSeq(free_stack, 1, Len(free_stack) - 1)
NotReleased(idx) == free_stack             \* mutant: the slot is not given back
Released(idx) == Append(free_stack, idx)

Erased(id) == [order_lookup EXCEPT ![id] = NullIndex]

\* `total -= qty' on an unsigned counter.
ClampedLess(total, qty) == IF qty > total THEN 0 ELSE total - qty   \* mutant: saturates
Less(total, qty) == (total - qty) % QtyMod

\* append_to_level(): the pool with a new order in slot idx, linked behind the
\* tail of its level (if any), and the level it joins.
BehindHead(l) == IF l.order_count = 0 THEN NullIndex ELSE l.head_idx   \* mutant: wrong end
Last(l) == IF l.order_count = 0 THEN NullIndex ELSE l.tail_idx
Appended(idx, id, side, price, qty) ==
  LET last == Last(levels[side][price])
  IN  [i \in Idx |->
         IF i = idx THEN [order_id |-> id, price |-> price, qty |-> qty, side |-> side,
                          next_idx |-> NullIndex, prev_idx |-> last]
         ELSE IF i = last THEN [orders[i] EXCEPT !.next_idx = idx]
         ELSE orders[i]]
LevelWith(l, idx, qty) ==
  [head_idx    |-> IF l.order_count = 0 THEN idx ELSE l.head_idx,
   tail_idx    |-> idx,
   total_qty   |-> (l.total_qty + qty) % QtyMod,
   order_count |-> l.order_count + 1]

\* unlink_from_level(): the pool and the level without the order in slot idx.
HalfUnlinked(idx) ==                       \* mutant: the successor keeps its prev_idx
  [i \in Idx |->
     IF i = idx THEN [orders[i] EXCEPT !.prev_idx = NullIndex, !.next_idx = NullIndex]
     ELSE IF i = orders[idx].prev_idx THEN [orders[i] EXCEPT !.next_idx = orders[idx].next_idx]
     ELSE orders[i]]
Unlinked(idx) ==
  [i \in Idx |->
     IF i = idx THEN [orders[i] EXCEPT !.prev_idx = NullIndex, !.next_idx = NullIndex]
     ELSE IF i = orders[idx].prev_idx THEN [orders[i] EXCEPT !.next_idx = orders[idx].next_idx]
     ELSE IF i = orders[idx].next_idx THEN [orders[i] EXCEPT !.prev_idx = orders[idx].prev_idx]
     ELSE orders[i]]
TailKept(l, o) ==                          \* mutant: the tail still names the order that left
  [head_idx    |-> IF o.prev_idx = NullIndex THEN o.next_idx ELSE l.head_idx,
   tail_idx    |-> l.tail_idx,
   total_qty   |-> Less(l.total_qty, o.qty),
   order_count |-> l.order_count - 1]
LevelWithout(l, o) ==
  [head_idx    |-> IF o.prev_idx = NullIndex THEN o.next_idx ELSE l.head_idx,
   tail_idx    |-> IF o.next_idx = NullIndex THEN o.prev_idx ELSE l.tail_idx,
   total_qty   |-> Less(l.total_qty, o.qty),
   order_count |-> l.order_count - 1]

\* update_best_after_add()
BestAfterAdd(side, price) ==
  IF best[side] = NoPrice \/ Improves(side, price, best[side]) THEN price ELSE best[side]

\* refresh_best_after_empty_level(): nothing to do unless the emptied level
\* was the best one; otherwise the scan moves away from the top of the book
\* and stops at the first non-empty level.
StaleBest(side, price) == best[side]       \* mutant: no refresh
AdjacentBest(side, price) ==               \* mutant: one step, without looking
  LET p == IF side = "Buy" THEN price - 1 ELSE price + 1
  IN  IF best[side] # price THEN best[side] ELSE IF p \in Prices THEN p ELSE NoPrice
RefreshedBest(side, price) ==
  LET Found == {p \in Prices : Improves(side, price, p) /\ levels[side][p].order_count > 0}
  IN  IF best[side] # price THEN best[side]
      ELSE IF Found = {} THEN NoPrice
      ELSE CHOOSE p \in Found : \A q \in Found : p = q \/ Improves(side, p, q)

\* remove_order_by_index(): unlink, erase, release, refresh when the level empties.
RemoveOrder(idx) ==
  LET o == orders[idx]
      l == LevelWithout(levels[o.side][o.price], o)
  IN  /\ orders' = Unlinked(idx)
      /\ levels' = [levels EXCEPT ![o.side][o.price] = l]
      /\ order_lookup' = Erased(o.order_id)
      /\ free_stack' = Released(idx)
      /\ best' = IF l.order_count = 0
                 THEN [best EXCEPT ![o.side] = RefreshedBest(o.side, o.price)]
                 ELSE best

\* The part of add_order() behind its early returns: allocate, index, fill the
\* slot, append, update the best price.
Place(id, side, price, qty) ==
  /\ free_stack' = Allocated
  /\ order_lookup' = [order_lookup EXCEPT ![id] = Top]
  /\ orders' = Appended(Top, id, side, price, qty)
  /\ levels' = [levels EXCEPT ![side][price] = LevelWith(@, Top, qty)]
  /\ best' = [best EXCEPT ![side] = BestAfterAdd(side, price)]

\* add_order().  When the index refuses the id the allocated slot goes back to
\* the top of the stack.
Rest(id, side, price, qty) ==
  IF qty = 0 \/ ~ValidPrice(price) \/ free_stack = <<>> \/ Contains(id) \/ IndexFull
  THEN ret' = FALSE /\ UNCHANGED store
  ELSE ret' = TRUE /\ Place(id, side, price, qty)
------------------------------------------------------------------------------
(* The read-only members: what callers see of the state between calls.     *)

BestLevel(side) ==                         \* best_bid(), best_ask()
  IF best[side] = NoPrice THEN <<>> ELSE <<best[side], levels[side][best[side]].total_qty>>
AtPrice(side, price) == IF ValidPrice(price) THEN levels[side][price] ELSE EmptyLevel
quantity_at(side, price)    == AtPrice(side, price).total_qty
order_count_at(side, price) == AtPrice(side, price).order_count
IdIn(idx) == IF idx = NullIndex THEN <<>> ELSE <<orders[idx].order_id>>
front_order_id(side, price) == IdIn(AtPrice(side, price).head_idx)
back_order_id(side, price)  == IdIn(AtPrice(side, price).tail_idx)
active_orders   == MaxOrders - Len(free_stack)
available_slots == Len(free_stack)
------------------------------------------------------------------------------
Init ==
  /\ orders = [i \in Idx |-> DefaultOrder]
  /\ free_stack = [n \in 1..MaxOrders |-> n - 1]
  /\ levels = [s \in Sides |-> [p \in Prices |-> EmptyLevel]]
  /\ order_lookup = [id \in OrderIds |-> NullIndex]
  /\ best = [s \in Sides |-> NoPrice]
  /\ pc = "idle" /\ call = NoCall /\ lvl = NoPrice /\ executions = <<>> /\ ret = TRUE

AddOrder(id, side, price, qty) ==
  /\ pc = "idle"
  /\ Rest(id, side, price, qty)
  /\ UNCHANGED <<pc, call, lvl, executions>>

CancelOrder(id) ==
  /\ pc = "idle"
  /\ IF Contains(id)
     THEN ret' = TRUE /\ RemoveOrder(order_lookup[id])
     ELSE ret' = FALSE /\ UNCHANGED store
  /\ UNCHANGED <<pc, call, lvl, executions>>

\* submit_limit_order(): the early returns, or the entry of match_order.
SubmitLimitOrder(id, side, price, qty) ==
  /\ pc = "idle"
  /\ IF qty = 0 \/ ~ValidPrice(price) \/ Contains(id)
     THEN ret' = FALSE /\ UNCHANGED <<pc, call>>
     ELSE /\ pc' = "match_order"
          /\ call' = [order_id |-> id, side |-> side, price |-> price,
                      qty |-> qty, submitted |-> qty]
          /\ UNCHANGED ret
  /\ UNCHANGED <<orders, free_stack, levels, order_lookup, best, lvl, executions>>

\* match_order(): the loop condition holds, take the best opposite level.
EnterLevel ==
  /\ pc = "match_order" /\ call.qty > 0 /\ Crosses(call.side, call.price)
  /\ lvl' = best[Opposite(call.side)]
  /\ pc' = "match_at_level"
  /\ UNCHANGED <<orders, free_stack, levels, order_lookup, best, call, executions, ret>>

\* The level held by match_at_level, and the order at its head.
WorkLevel == levels[Opposite(call.side)][lvl]
NewestMaker == WorkLevel.tail_idx          \* mutant: last in, first matched
Maker == WorkLevel.head_idx
UncappedExecution(qty) ==                  \* mutant: reports the incoming quantity
  [incoming_order_id |-> call.order_id, resting_order_id |-> orders[Maker].order_id,
   price |-> orders[Maker].price, qty |-> call.qty]
Execution(qty) ==
  [incoming_order_id |-> call.order_id, resting_order_id |-> orders[Maker].order_id,
   price |-> orders[Maker].price, qty |-> qty]
AtLevel == pc = "match_at_level" /\ call.qty > 0 /\ WorkLevel.order_count > 0

\* The incoming order is smaller than the head: reduce_order_quantity, break.
FillIncoming ==
  /\ AtLevel /\ call.qty < orders[Maker].qty
  /\ executions' = Append(executions, Execution(call.qty))
  /\ orders' = [orders EXCEPT ![Maker].qty = @ - call.qty]
  /\ levels' = [levels EXCEPT ![Opposite(call.side)][lvl].total_qty = Less(@, call.qty)]
  /\ call' = [call EXCEPT !.qty = 0]
  /\ pc' = "match_order" /\ lvl' = NoPrice
  /\ UNCHANGED <<free_stack, order_lookup, best, ret>>

\* The head is used up: execution, remove_order_by_index, next iteration.
FillResting ==
  /\ AtLevel /\ call.qty >= orders[Maker].qty
  /\ executions' = Append(executions, Execution(orders[Maker].qty))
  /\ call' = [call EXCEPT !.qty = @ - orders[Maker].qty]
  /\ RemoveOrder(Maker)
  /\ UNCHANGED <<pc, lvl, ret>>

\* The inner loop ends: the level is empty or nothing is left to match.
LeaveLevel ==
  /\ pc = "match_at_level" /\ ~(call.qty > 0 /\ WorkLevel.order_count > 0)
  /\ pc' = "match_order" /\ lvl' = NoPrice
  /\ UNCHANGED <<orders, free_stack, levels, order_lookup, best, call, executions, ret>>

\* The outer loop ends: what is left rests.  The caller keeps the executions;
\* the model forgets them with the rest of the finished call.
FinishSubmit ==
  /\ pc = "match_order" /\ ~(call.qty > 0 /\ Crosses(call.side, call.price))
  /\ IF call.qty = 0
     THEN ret' = TRUE /\ UNCHANGED store
     ELSE Rest(call.order_id, call.side, call.price, call.qty)
  /\ pc' = "idle" /\ call' = NoCall /\ executions' = <<>>
  /\ UNCHANGED lvl

Matching == EnterLevel \/ FillIncoming \/ FillResting \/ LeaveLevel \/ FinishSubmit

\* Callers that only submit and cancel, as the pipeline's consumer does.
ExchangeNext ==
  \/ \E id \in OrderIds, side \in Sides, price \in InputPrices, qty \in InputQtys :
       SubmitLimitOrder(id, side, price, qty)
  \/ \E id \in OrderIds : CancelOrder(id)
  \/ Matching

\* Callers that also place orders directly, as the unit tests do.
Next ==
  \/ ExchangeNext
  \/ \E id \in OrderIds, side \in Sides, price \in InputPrices, qty \in InputQtys :
       AddOrder(id, side, price, qty)

Spec         == Init /\ [][Next]_vars
ExchangeSpec == Init /\ [][ExchangeNext]_vars
------------------------------------------------------------------------------
(* Properties                                                              *)

FreeSlots == {free_stack[n] : n \in DOMAIN free_stack}
Live == Idx \ FreeSlots
LiveAt(side, price) == {i \in Live : orders[i].side = side /\ orders[i].price = price}
NonEmpty(side) == {p \in Prices : levels[side][p].order_count > 0}

Slot    == Idx \cup {NullIndex}
Order   == [order_id : OrderIds \cup {0}, price : Prices \cup {0}, qty : Qtys, side : Sides,
            next_idx : Slot, prev_idx : Slot]
Level   == [head_idx : Slot, tail_idx : Slot, total_qty : Qtys, order_count : 0..MaxOrders]
Call    == [order_id : OrderIds \cup {0}, side : Sides, price : Prices \cup {0},
            qty : Qtys, submitted : Qtys]
Execs   == [incoming_order_id : OrderIds, resting_order_id : OrderIds,
            price : Prices, qty : Qtys]

\* Every variable stays in the range of its C++ type; in particular no level
\* counter goes below zero and no slot index leaves the pool.
TypeOK ==
  /\ orders \in [Idx -> Order]
  /\ free_stack \in Seq(Idx)
  /\ levels \in [Sides -> [Prices -> Level]]
  /\ order_lookup \in [OrderIds -> Slot]
  /\ best \in [Sides -> Prices \cup {NoPrice}]
  /\ pc \in {"idle", "match_order", "match_at_level"}
  /\ call \in Call
  /\ lvl \in Prices \cup {NoPrice}
  /\ executions \in Seq(Execs)
  /\ ret \in BOOLEAN

\* No slot is leaked or freed twice: the free stack holds each free slot once,
\* and the index is a bijection between resting ids and the other slots, each
\* of which holds the order it is indexed under (allocate, release, insert,
\* erase across add_order, cancel_order and matching).
PoolPartition ==
  /\ \A m, n \in DOMAIN free_stack : free_stack[m] = free_stack[n] => m = n
  /\ \A id \in OrderIds : Contains(id) =>
       order_lookup[id] \in Live /\ orders[order_lookup[id]].order_id = id
  /\ \A i \in Live : orders[i].order_id \in OrderIds /\ order_lookup[orders[i].order_id] = i

\* The slots met from `start' on by following one kind of link, NullIndex once
\* the links have ended; MaxOrders + 1 of them, so that a cycle is a walk that
\* has not ended.
Walk(start, link) ==
  LET at[n \in 1..(MaxOrders + 1)] ==
        IF n = 1 THEN start ELSE IF at[n - 1] = NullIndex THEN NullIndex ELSE link[at[n - 1]]
  IN  at
Forward(l)  == Walk(l.head_idx, [i \in Idx |-> orders[i].next_idx])
Backward(l) == Walk(l.tail_idx, [i \in Idx |-> orders[i].prev_idx])

\* Each level's list, walked from either end, meets exactly the live orders of
\* that side and price, order_count of them, and then ends: append_to_level,
\* unlink_from_level and slot reuse never lose, share or cross-link an order.
LevelChains ==
  \A s \in Sides, p \in Prices :
    LET l == levels[s][p]
        n == l.order_count
        f == Forward(l)
        b == Backward(l)
    IN  /\ n = Cardinality(LiveAt(s, p))
        /\ {f[k] : k \in 1..n} = LiveAt(s, p)
        /\ \A k \in 1..n : b[k] = f[n + 1 - k]
        /\ \A k \in (n + 1)..(MaxOrders + 1) : f[k] = NullIndex /\ b[k] = NullIndex

\* total_qty is the sum of the quantities at the level, modulo the width of
\* Quantity: += on append and -= on fill and unlink never drift, even when the
\* sum wraps around.
LevelTotals ==
  \A s \in Sides, p \in Prices :
    levels[s][p].total_qty = FSX!MapThenSumSet(LAMBDA i : orders[i].qty, LiveAt(s, p)) % QtyMod

\* best_bid_ and best_ask_ are the highest bid and the lowest ask that have
\* orders, and are empty only for an empty side: the incremental update and
\* the one-directional rescan never leave a stale price.
BestIsExtreme ==
  \A s \in Sides :
    IF NonEmpty(s) = {} THEN best[s] = NoPrice
    ELSE best[s] \in NonEmpty(s) /\ \A p \in NonEmpty(s) : ~Improves(s, p, best[s])

\* With callers that only submit and cancel no bid ever meets an ask.
NotCrossed ==
  best["Buy"] # NoPrice /\ best["Sell"] # NoPrice => best["Buy"] < best["Sell"]

\* submit_limit_order discards add_order's reason: a false result after
\* match_order must still mean that nothing was traded and nothing changed,
\* although the pool may have been full when the call began.
SubmitAllOrNothing ==
  [][pc = "match_order" /\ pc' = "idle" /\ ret' = FALSE
       => call.qty = call.submitted /\ executions = <<>> /\ UNCHANGED store]_vars
==============================================================================
