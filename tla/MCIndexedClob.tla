---------------------------- MODULE MCIndexedClob ----------------------------
(* IndexedClob with ids that collide in the table.                           *)
EXTENDS IndexedClob

MCHash == [id \in OrderIds |-> id]
\* What vacated entries and released slots still hold is overwritten before it
\* is read, and no step depends on what the last calls returned.
MCView == <<states, [p \in Table!Occupied |-> <<keys[p], values[p]>>], size,
            [i \in Book!Live |-> orders[i]], free_stack, levels, best, callvars>>
==============================================================================
