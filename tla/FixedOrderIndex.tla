--------------------------- MODULE FixedOrderIndex ---------------------------
(***************************************************************************)
(* src/order_index.hpp: an open-addressing hash table with linear probing  *)
(* and tombstones.  Each operation is one action.  Its probe loop is       *)
(* described by the set of steps it reaches: the loop visits the steps     *)
(* 0, 1, ... in order and goes no further than the first empty slot, so    *)
(* step s is reached when no earlier step lands on an empty slot.          *)
(***************************************************************************)
EXTENDS Integers, FiniteSets

CONSTANTS
  Capacity,   \* template argument
  OrderIds,   \* keys callers use (never 0)
  Values,     \* pool slots callers store
  Hash,       \* template argument: a function of the id
  Garbage,    \* keys that uninitialised memory may hold
  Junk,       \* values that uninitialised memory may hold
  NoValue     \* std::nullopt

Pos   == 0..(Capacity - 1)
Steps == 0..(Capacity - 1)

ASSUME IndexAssumption ==
  /\ Capacity \in Nat \ {0, 1}
  /\ Hash \in [OrderIds -> Nat]
  /\ Garbage # {} /\ Junk # {}
  /\ NoValue \notin Values

VARIABLES
  states, keys, values,   \* states_, keys_ and values_
  size,                   \* size_
  ret                     \* result of the last operation

table == <<states, keys, values, size>>
vars  == <<states, keys, values, size, ret>>
------------------------------------------------------------------------------
\* The slot looked at in step s; `& mask()' is `% Capacity', a power of two.
At(id, s) == ((Hash[id] % Capacity) + s) % Capacity

Reached(id, s) == \A t \in 0..(s - 1) : states[At(id, t)] # "Empty"
Holds(p, id)   == states[p] = "Occupied" /\ keys[p] = id

\* Steps at which the loops of find, erase and insert meet the id, and steps
\* at which insert meets a slot it can take: a tombstone or the first empty one.
StaleHits(id) ==                         \* mutant: tombstones still match
  {s \in Steps : Reached(id, s) /\ states[At(id, s)] # "Empty" /\ keys[At(id, s)] = id}
Hits(id) == {s \in Steps : Reached(id, s) /\ Holds(At(id, s), id)}
HitsBeforeFree(id) ==                    \* mutant: insert stops looking at a tombstone
  {s \in Hits(id) : \A t \in 0..(s - 1) : states[At(id, t)] # "Deleted"}
Duplicates(id) == Hits(id)
Free(id) == {s \in Steps : Reached(id, s) /\ states[At(id, s)] # "Occupied"}
First(S) == CHOOSE s \in S : \A t \in S : s <= t
------------------------------------------------------------------------------
\* The constructor leaves keys_ and values_ uninitialised and clears states_.
Init ==
  /\ states = [p \in Pos |-> "Empty"]
  /\ keys \in [Pos -> Garbage]
  /\ values \in [Pos -> Junk]
  /\ size = 0
  /\ ret = TRUE

Insert(id, v) ==
  IF Duplicates(id) # {} \/ Free(id) = {}
  THEN ret' = FALSE /\ UNCHANGED table
  ELSE LET p == At(id, First(Free(id)))
       IN  /\ ret' = TRUE
           /\ keys' = [keys EXCEPT ![p] = id]
           /\ values' = [values EXCEPT ![p] = v]
           /\ states' = [states EXCEPT ![p] = "Occupied"]
           /\ size' = size + 1

\* find() and contains().
Find(id) ==
  /\ ret' = IF Hits(id) = {} THEN NoValue ELSE values[At(id, First(Hits(id)))]
  /\ UNCHANGED table

\* What erase leaves behind.
ErasedToEmpty == "Empty"                 \* mutant: a hole in the probes that pass by
Vacated == "Deleted"

Erase(id) ==
  IF Hits(id) = {}
  THEN ret' = FALSE /\ UNCHANGED table
  ELSE /\ ret' = TRUE
       /\ states' = [states EXCEPT ![At(id, First(Hits(id)))] = Vacated]
       /\ size' = size - 1
       /\ UNCHANGED <<keys, values>>

Clear ==
  /\ states' = [p \in Pos |-> "Empty"]
  /\ size' = 0
  /\ UNCHANGED <<keys, values, ret>>

Next ==
  \/ \E id \in OrderIds, v \in Values : Insert(id, v)
  \/ \E id \in OrderIds : Find(id) \/ Erase(id)
  \/ Clear

Spec == Init /\ [][Next]_vars
------------------------------------------------------------------------------
(* Properties                                                              *)

Occupied == {p \in Pos : states[p] = "Occupied"}

TableTypeOK ==
  /\ states \in [Pos -> {"Empty", "Occupied", "Deleted"}]
  /\ keys \in [Pos -> OrderIds \cup Garbage]
  /\ values \in [Pos -> Values \cup Junk]
  /\ size \in 0..Capacity
  /\ ret \in BOOLEAN \cup Values \cup {NoValue}
  /\ \A p \in Occupied : keys[p] \in OrderIds /\ values[p] \in Values

\* No id sits in two slots: insert, although it writes into the first
\* tombstone it meets, has first looked for the id in the rest of the probe.
KeysUnique == \A p, q \in Occupied : keys[p] = keys[q] => p = q

\* Every stored id is found from its home slot: no sequence of inserts and
\* erases opens an empty slot in the middle of a probe.
ProbesUnbroken ==
  \A id \in OrderIds, s \in Steps : Holds(At(id, s), id) => Reached(id, s)

\* size_ counts the occupied slots.
SizeCounts == size = Cardinality(Occupied)

\* The map the table stands for.
Entry(id) == IF \E p \in Pos : Holds(p, id)
             THEN values[CHOOSE p \in Pos : Holds(p, id)] ELSE NoValue
Map == INSTANCE OrderMap WITH entries <- [id \in OrderIds |-> Entry(id)]

\* Tombstones, probe order and slot reuse are invisible: every operation
\* returns and stores what it would on a plain map of Capacity entries.
ImplementsOrderMap == Map!Spec
==============================================================================
