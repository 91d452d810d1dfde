-------------------------- MODULE MCFixedOrderIndex --------------------------
(* FixedOrderIndex on a small table, with the hash function of the order    *)
(* book.                                                                    *)
EXTENDS FixedOrderIndex

\* FastOrderIdHash xors the upper half of the id into the lower one; the ids
\* used here are below 2^32, so the upper half is 0 and the hash is the id.
FastHash == [id \in OrderIds |-> id]

\* Values are only ever returned, so what a vacated slot still holds in values
\* and what the last call returned decide no step; stale keys stay in the state.
LookedAt == <<states, keys, [p \in Occupied |-> values[p]], size>>
==============================================================================
