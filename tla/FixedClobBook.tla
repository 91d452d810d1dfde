--------------------------- MODULE FixedClobBook ---------------------------
(***************************************************************************)
(* The book as callers of FixedClob see it, and the claim that it is the   *)
(* book of OrderBook: one queue per side in price-time priority.           *)
(***************************************************************************)
EXTENDS FixedClobInv
SX == INSTANCE SequencesExt

VARIABLE book   \* Queues, kept so that TLC computes it once per state

LiveOn(side) == {i \in Live : orders[i].side = side}

\* q lists the live orders of a side, each once: better prices first, and within
\* a price from each order to the one its next_idx names.
Listing(side, q) ==
  /\ q \in Seq(LiveOn(side))
  /\ \A i \in LiveOn(side) : \E k \in DOMAIN q : q[k] = i
  /\ \A k, m \in DOMAIN q :
       k < m => q[k] # q[m] /\ ~Improves(side, orders[q[m]].price, orders[q[k]].price)
  /\ \A k \in DOMAIN q :
       orders[q[k]].next_idx = IF k < Len(q) /\ orders[q[k + 1]].price = orders[q[k]].price
                               THEN q[k + 1] ELSE NullIndex

Queue(side) ==
  LET S == LiveOn(side) IN CHOOSE q \in [1..Cardinality(S) -> S] : Listing(side, q)

\* What a resting order is to its caller.
Seen(i) == [order_id |-> orders[i].order_id, price |-> orders[i].price, qty |-> orders[i].qty]
Queues == [s \in Sides |-> [n \in DOMAIN Queue(s) |-> Seen(Queue(s)[n])]]

SpecWithBook == Init /\ book = Queues /\ [][Next /\ book' = Queues']_<<vars, book>>

\* The pooled, linked and cached book keeps strict price-time priority: every
\* call behaves as on a single priority-ordered queue per side.
Abstract == INSTANCE OrderBook
ImplementsOrderBook == Abstract!Spec

\* The places in line of the orders of a side at price p, and what the read-only
\* members should say of them.
PlacesAt(s, p) == {k \in DOMAIN book[s] : book[s][k].price = p}
Reported(s, p) ==
  LET line == PlacesAt(s, p)
  IN  /\ quantity_at(s, p) = FSX!MapThenSumSet(LAMBDA k : book[s][k].qty, line) % QtyMod
      /\ order_count_at(s, p) = Cardinality(line)
      /\ front_order_id(s, p) = IF line = {} THEN <<>> ELSE <<book[s][FSX!Min(line)].order_id>>
      /\ back_order_id(s, p) = IF line = {} THEN <<>> ELSE <<book[s][FSX!Max(line)].order_id>>

\* Between calls the read-only members (best_bid, quantity_at, front_order_id
\* and the others) report the queues callers reason about: the first price and
\* its quantity, each price's first and last order, count and sum, an invalid
\* price as an empty one, and how many orders rest.
ObserversAgree ==
  pc = "idle" =>
    /\ active_orders = Len(book["Buy"]) + Len(book["Sell"])
    /\ available_slots = MaxOrders - active_orders
    /\ \A s \in Sides :
         /\ BestLevel(s) = IF book[s] = <<>> THEN <<>>
                           ELSE <<book[s][1].price, quantity_at(s, book[s][1].price)>>
         /\ \A p \in InputPrices : Reported(s, p)
==============================================================================
