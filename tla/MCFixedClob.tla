----------------------------- MODULE MCFixedClob -----------------------------
(* FixedClob on small instances, and its refinement of OrderBook.          *)
EXTENDS FixedClobInv, TLC

MCSymmetry == Permutations(OrderIds)
\* Two states that differ only in what released slots still hold behave alike:
\* add_order overwrites every field before any of them is read.
MCView == <<[i \in Live |-> orders[i]], free_stack, levels, order_lookup, best,
            pc, call, lvl, executions, ret>>
==============================================================================
