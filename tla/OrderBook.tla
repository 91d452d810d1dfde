------------------------------ MODULE OrderBook ------------------------------
(***************************************************************************)
(* What the matching engine promises, without pool, links or levels: each  *)
(* side of the book is one sequence of resting orders, best price first    *)
(* and oldest first within a price.  A submitted order trades with the     *)
(* head of the opposite side while that head is acceptable, then rests     *)
(* behind every order that is at least as well priced.                     *)
(***************************************************************************)
EXTENDS Integers, Sequences
SX == INSTANCE SequencesExt

CONSTANTS
  MaxOrders,      \* how many orders can rest at once
  OrderIds,       \* identifiers callers use
  MinPrice, MaxPrice,
  InputPrices, InputQtys   \* arguments callers pass, valid or not

VARIABLES
  book,           \* book[side]: resting orders in priority order
  call,           \* the submit call in progress, or NoCall
  executions,     \* executions reported by the call in progress
  ret             \* result of the last completed call

vars == <<book, call, executions, ret>>

Sides == {"Buy", "Sell"}
Opposite(side) == IF side = "Buy" THEN "Sell" ELSE "Buy"
NoCall == [order_id |-> 0, side |-> "Buy", price |-> 0, qty |-> 0, submitted |-> 0]

\* Price p is at least as close to the top of `side' as price q.
AsGood(side, p, q) == IF side = "Buy" THEN p >= q ELSE p <= q

Resting == UNION {{book[s][i].order_id : i \in DOMAIN book[s]} : s \in Sides}
Full == Len(book["Buy"]) + Len(book["Sell"]) = MaxOrders
Acceptable(id, price, qty) ==
  qty # 0 /\ price \in MinPrice..MaxPrice /\ id \notin Resting

\* Position k of `side' is behind all orders at least as good as price, and ahead
\* of the others.
InLine(side, price, k) ==
  /\ \A n \in 1..(k - 1) : AsGood(side, book[side][n].price, price)
  /\ \A n \in k..Len(book[side]) : ~AsGood(side, book[side][n].price, price)

Rest(id, side, price, qty) ==
  IF Full
  THEN ret' = FALSE /\ UNCHANGED book
  ELSE /\ ret' = TRUE
       /\ \E k \in 1..(Len(book[side]) + 1) :
            /\ InLine(side, price, k)
            /\ book' = [book EXCEPT ![side] =
                          SX!InsertAt(@, k, [order_id |-> id, price |-> price, qty |-> qty])]
------------------------------------------------------------------------------
Init ==
  /\ book = [s \in Sides |-> <<>>]
  /\ call = NoCall /\ executions = <<>> /\ ret = TRUE

Reject(id, side, price, qty) ==
  /\ call = NoCall /\ ~Acceptable(id, price, qty)
  /\ ret' = FALSE
  /\ UNCHANGED <<book, call, executions>>

Submit(id, side, price, qty) ==
  /\ call = NoCall /\ Acceptable(id, price, qty)
  /\ call' = [order_id |-> id, side |-> side, price |-> price, qty |-> qty, submitted |-> qty]
  /\ UNCHANGED <<book, executions, ret>>

\* The first order in line on the opposite side, if the limit accepts it.
CanTrade ==
  LET line == book[Opposite(call.side)]
  IN  call.qty > 0 /\ line # <<>> /\ AsGood(call.side, call.price, Head(line).price)

Trade ==
  /\ call # NoCall /\ CanTrade
  /\ LET opp   == Opposite(call.side)
         maker == Head(book[opp])
         q     == IF call.qty < maker.qty THEN call.qty ELSE maker.qty
     IN  /\ executions' = Append(executions,
                [incoming_order_id |-> call.order_id, resting_order_id |-> maker.order_id,
                 price |-> maker.price, qty |-> q])
         /\ call' = [call EXCEPT !.qty = @ - q]
         /\ book' = [book EXCEPT ![opp] =
                       IF q = maker.qty THEN Tail(@) ELSE [@ EXCEPT ![1].qty = maker.qty - q]]
  /\ UNCHANGED ret

Finish ==
  /\ call # NoCall /\ ~CanTrade
  /\ call' = NoCall /\ executions' = <<>>
  /\ IF call.qty = 0
     THEN ret' = TRUE /\ UNCHANGED book
     ELSE Rest(call.order_id, call.side, call.price, call.qty)

\* add_order: rests without matching.
Add(id, side, price, qty) ==
  /\ call = NoCall
  /\ IF Acceptable(id, price, qty)
     THEN Rest(id, side, price, qty)
     ELSE ret' = FALSE /\ UNCHANGED book
  /\ UNCHANGED <<call, executions>>

Cancel(id) ==
  /\ call = NoCall
  /\ IF id \in Resting
     THEN /\ ret' = TRUE
          /\ \E s \in Sides : \E k \in DOMAIN book[s] :
               book[s][k].order_id = id /\ book' = [book EXCEPT ![s] = SX!RemoveAt(@, k)]
     ELSE ret' = FALSE /\ UNCHANGED book
  /\ UNCHANGED <<call, executions>>

Next ==
  \/ \E id \in OrderIds, side \in Sides, price \in InputPrices, qty \in InputQtys :
       \/ Reject(id, side, price, qty)
       \/ Submit(id, side, price, qty)
       \/ Add(id, side, price, qty)
  \/ \E id \in OrderIds : Cancel(id)
  \/ Trade
  \/ Finish

Spec == Init /\ [][Next]_vars
==============================================================================
