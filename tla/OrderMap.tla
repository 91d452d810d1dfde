------------------------------- MODULE OrderMap -------------------------------
(***************************************************************************)
(* What FixedOrderIndex promises: a map from order ids to pool slots with  *)
(* room for Capacity entries.  FixedClob uses it in this form.             *)
(***************************************************************************)
EXTENDS Integers

CONSTANTS OrderIds, Values, Capacity, NoValue

VARIABLES
  entries,   \* entries[id]: the value stored for id, or NoValue
  size,      \* number of ids that have a value
  ret        \* result of the last operation

vars == <<entries, size, ret>>

Init ==
  /\ entries = [id \in OrderIds |-> NoValue]
  /\ size = 0
  /\ ret = TRUE

Insert(id, v) ==
  IF entries[id] # NoValue \/ size = Capacity
  THEN ret' = FALSE /\ UNCHANGED <<entries, size>>
  ELSE /\ ret' = TRUE
       /\ entries' = [entries EXCEPT ![id] = v]
       /\ size' = size + 1

Find(id) ==
  /\ ret' = entries[id]
  /\ UNCHANGED <<entries, size>>

Erase(id) ==
  /\ ret' = (entries[id] # NoValue)
  /\ entries' = [entries EXCEPT ![id] = NoValue]
  /\ size' = IF entries[id] # NoValue THEN size - 1 ELSE size

Clear ==
  /\ entries' = [id \in OrderIds |-> NoValue]
  /\ size' = 0
  /\ UNCHANGED ret

Next ==
  \/ \E id \in OrderIds, v \in Values : Insert(id, v)
  \/ \E id \in OrderIds : Find(id) \/ Erase(id)
  \/ Clear

Spec == Init /\ [][Next]_vars
==============================================================================
