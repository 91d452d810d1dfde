------------------------------- MODULE Ledger -------------------------------
(***************************************************************************)
(* FixedClob with a ledger beside it: what a caller knows of its open      *)
(* orders from its own submits and cancels, their results, and the         *)
(* executions put into the sink, without looking into the book.            *)
(***************************************************************************)
EXTENDS FixedClobInv

VARIABLE ledger   \* side, limit and unfilled quantity of each order thought open

NoEntry == [side |-> "Buy", price |-> 0, left |-> 0]
Open == {id \in OrderIds : ledger[id] # NoEntry}

\* q of order id are filled; an order filled to the end is closed.
Filled(entry, q) == IF entry.left = q THEN NoEntry ELSE [entry EXCEPT !.left = @ - q]

LedgerInit == Init /\ ledger = [id \in OrderIds |-> NoEntry]

SubmitH(id, side, price, qty) ==
  /\ SubmitLimitOrder(id, side, price, qty)
  /\ ledger' = IF pc' = "idle" THEN ledger
               ELSE [ledger EXCEPT ![id] = [side |-> side, price |-> price, left |-> qty]]
CancelH(id) ==
  /\ CancelOrder(id)
  /\ ledger' = IF ret' THEN [ledger EXCEPT ![id] = NoEntry] ELSE ledger
FillH ==
  /\ FillIncoming \/ FillResting
  /\ LET x == executions'[Len(executions')]
     IN  ledger' = [ledger EXCEPT ![x.incoming_order_id] = Filled(@, x.qty),
                                  ![x.resting_order_id] = Filled(@, x.qty)]
FinishH ==
  /\ FinishSubmit
  /\ ledger' = IF ret' THEN ledger ELSE [ledger EXCEPT ![call.order_id] = NoEntry]

LedgerNext ==
  \/ \E id \in OrderIds, side \in Sides, price \in InputPrices, qty \in InputQtys :
       SubmitH(id, side, price, qty)
  \/ \E id \in OrderIds : CancelH(id)
  \/ FillH \/ FinishH
  \/ (EnterLevel \/ LeaveLevel) /\ UNCHANGED ledger

LedgerSpec == LedgerInit /\ [][LedgerNext]_<<vars, ledger>>

\* Nothing is lost, doubled or traded unreported: the orders resting in the book
\* and the unfilled part of the call in progress are the caller's open orders,
\* with side, limit and quantity, after any sequence of fills (match_at_level),
\* cancels, refusals and slot reuse.
LedgerAgrees ==
  /\ \A id \in OrderIds : Contains(id) =>
       LET o == orders[order_lookup[id]]
       IN  ledger[id] = [side |-> o.side, price |-> o.price, left |-> o.qty]
  /\ pc # "idle" /\ call.qty > 0 =>
       ledger[call.order_id] = [side |-> call.side, price |-> call.price, left |-> call.qty]
  /\ Open = {id \in OrderIds : Contains(id)}
              \cup (IF pc # "idle" /\ call.qty > 0 THEN {call.order_id} ELSE {})

\* Every execution match_at_level reports trades a positive quantity between two
\* open orders of opposite sides, at the resting order's limit and at no worse a
\* price than the incoming order's.
TradesWithinLimits ==
  [][Len(executions') > Len(executions) =>
       LET x     == executions'[Len(executions')]
           taker == ledger[x.incoming_order_id]
           maker == ledger[x.resting_order_id]
       IN  /\ x.qty \in 1..taker.left /\ x.qty <= maker.left
           /\ maker.side = Opposite(taker.side) /\ x.price = maker.price
           /\ IF taker.side = "Buy" THEN x.price <= taker.price
              ELSE x.price >= taker.price]_<<vars, ledger>>
==============================================================================
