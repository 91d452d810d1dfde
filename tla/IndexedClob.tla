----------------------------- MODULE IndexedClob -----------------------------
(***************************************************************************)
(* src/fixed_clob.hpp with the index it really has: the book of FixedClob, *)
(* whose order_lookup_ is a FixedOrderIndex of 2 * MaxOrders slots, with   *)
(* its probes and the tombstones that no call ever clears away.  Each call *)
(* is written with the table operation it makes, and what it does to the   *)
(* rest of the book is FixedClob's.                                        *)
(***************************************************************************)
EXTENDS Integers, Sequences, FiniteSets

CONSTANTS
  MaxOrders, OrderIds, MinPrice, MaxPrice, InputPrices, InputQtys,
  QtyMod, NullIndex, NoPrice,      \* as in FixedClob
  Hash, Garbage, Junk              \* as in FixedOrderIndex

VARIABLES
  states, keys, values, size,      \* order_lookup_
  found,                           \* what its last insert or erase returned
  orders, free_stack, levels, best, pc, call, lvl, executions, ret   \* the rest

tablevars == <<states, keys, values, size, found>>
partvars  == <<orders, free_stack, levels, best>>
callvars  == <<pc, call, lvl, executions>>
vars == <<tablevars, partvars, callvars, ret>>

Table == INSTANCE FixedOrderIndex
           WITH Capacity <- 2 * MaxOrders, Values <- 0..(MaxOrders - 1),
                NoValue <- NullIndex, ret <- found
\* The map the table stands for, which is the index of the book in FixedClob.
order_lookup == [id \in OrderIds |-> Table!Entry(id)]
Book == INSTANCE FixedClob

ASSUME IndexedClobAssumption ==
  /\ Book!ClobAssumption
  /\ Hash \in [OrderIds -> Nat] /\ Garbage # {} /\ Junk # {}

\* find() and contains(): the slot stored at the first hit of the probe.
Lookup(id) == IF Table!Hits(id) = {} THEN NullIndex
              ELSE values[Table!At(id, Table!First(Table!Hits(id)))]
------------------------------------------------------------------------------
Init ==
  /\ Table!Init
  /\ orders = [i \in Book!Idx |-> Book!DefaultOrder]
  /\ free_stack = [n \in 1..MaxOrders |-> n - 1]
  /\ levels = [s \in Book!Sides |-> [p \in Book!Prices |-> Book!EmptyLevel]]
  /\ best = [s \in Book!Sides |-> NoPrice]
  /\ pc = "idle" /\ call = Book!NoCall /\ lvl = NoPrice /\ executions = <<>> /\ ret = TRUE

\* add_order(): the slot is allocated before the index is asked, and goes back
\* when the index refuses the id.
NotGivenBack == Book!Allocated             \* mutant: the slot is lost
GivenBack == free_stack
Rest(id, side, price, qty) ==
  IF qty = 0 \/ ~Book!ValidPrice(price) \/ free_stack = <<>>
  THEN ret' = FALSE /\ UNCHANGED <<tablevars, partvars>>
  ELSE /\ Table!Insert(id, Book!Top)
       /\ ret' = found'
       /\ IF found'
          THEN /\ free_stack' = Book!Allocated
               /\ orders' = Book!Appended(Book!Top, id, side, price, qty)
               /\ levels' = [levels EXCEPT ![side][price] = Book!LevelWith(@, Book!Top, qty)]
               /\ best' = [best EXCEPT ![side] = Book!BestAfterAdd(side, price)]
          ELSE free_stack' = GivenBack /\ UNCHANGED <<orders, levels, best>>

\* remove_order_by_index()
RemoveOrder(idx) ==
  LET o == orders[idx]
      l == Book!LevelWithout(levels[o.side][o.price], o)
  IN  /\ orders' = Book!Unlinked(idx)
      /\ levels' = [levels EXCEPT ![o.side][o.price] = l]
      /\ Table!Erase(o.order_id)
      /\ free_stack' = Book!Released(idx)
      /\ best' = IF l.order_count = 0
                 THEN [best EXCEPT ![o.side] = Book!RefreshedBest(o.side, o.price)]
                 ELSE best

AddOrder(id, side, price, qty) ==
  /\ pc = "idle"
  /\ Rest(id, side, price, qty)
  /\ UNCHANGED callvars

CancelOrder(id) ==
  /\ pc = "idle"
  /\ IF Lookup(id) = NullIndex
     THEN ret' = FALSE /\ UNCHANGED <<tablevars, partvars>>
     ELSE ret' = TRUE /\ RemoveOrder(Lookup(id))
  /\ UNCHANGED callvars

SubmitLimitOrder(id, side, price, qty) ==
  /\ pc = "idle"
  /\ IF qty = 0 \/ ~Book!ValidPrice(price) \/ Lookup(id) # NullIndex
     THEN ret' = FALSE /\ UNCHANGED <<pc, call>>
     ELSE /\ pc' = "match_order"
          /\ call' = [order_id |-> id, side |-> side, price |-> price,
                      qty |-> qty, submitted |-> qty]
          /\ UNCHANGED ret
  /\ UNCHANGED <<tablevars, partvars, lvl, executions>>

\* The steps of match_order and match_at_level that leave the index alone.
EnterLevel   == UNCHANGED tablevars /\ Book!EnterLevel
LeaveLevel   == UNCHANGED tablevars /\ Book!LeaveLevel
FillIncoming == UNCHANGED tablevars /\ Book!FillIncoming

FillResting ==
  /\ Book!AtLevel /\ call.qty >= orders[Book!Maker].qty
  /\ executions' = Append(executions, Book!Execution(orders[Book!Maker].qty))
  /\ call' = [call EXCEPT !.qty = @ - orders[Book!Maker].qty]
  /\ RemoveOrder(Book!Maker)
  /\ UNCHANGED <<pc, lvl, ret>>

FinishSubmit ==
  /\ pc = "match_order" /\ ~(call.qty > 0 /\ Book!Crosses(call.side, call.price))
  /\ IF call.qty = 0
     THEN ret' = TRUE /\ UNCHANGED <<tablevars, partvars>>
     ELSE Rest(call.order_id, call.side, call.price, call.qty)
  /\ pc' = "idle" /\ call' = Book!NoCall /\ executions' = <<>>
  /\ UNCHANGED lvl

Matching == EnterLevel \/ FillIncoming \/ FillResting \/ LeaveLevel \/ FinishSubmit

Next ==
  \/ \E id \in OrderIds, side \in Book!Sides, price \in InputPrices, qty \in InputQtys :
       SubmitLimitOrder(id, side, price, qty) \/ AddOrder(id, side, price, qty)
  \/ \E id \in OrderIds : CancelOrder(id)
  \/ Matching

Spec     == Init /\ [][Next]_vars
\* The thread that called submit_limit_order keeps running it.
FairSpec == Spec /\ WF_vars(Matching)
------------------------------------------------------------------------------
(* Properties                                                              *)

\* Table and pool describe the same orders after every step: every occupied
\* entry leads to a live slot that holds its id, and they are equally many.
\* Tombstones, however many have piled up, are invisible to the book.
TableMatchesPool ==
  /\ size = Book!active_orders
  /\ \A p \in Table!Occupied :
       values[p] \in Book!Live /\ orders[values[p]].order_id = keys[p]

\* With the real table the book does what it does with a map for an index: no
\* id is refused or lost because of tombstones, collisions or stale keys.
ImplementsFixedClob == Book!Spec

\* Both loops of a submit call end, whatever the book and the table.
SubmitReturns == pc # "idle" ~> pc = "idle"
==============================================================================
