------------------------ MODULE FixedOrderIndexProofs ------------------------
(***************************************************************************)
(* Proofs about FixedOrderIndex, for every capacity, hash function, set of *)
(* ids and initial memory: the table's invariants are inductive, and the   *)
(* table implements a plain map.                                           *)
(***************************************************************************)
EXTENDS FixedOrderIndex, NaturalFacts, FiniteSetTheorems, TLAPS

Inv == TableTypeOK /\ KeysUnique /\ ProbesUnbroken /\ SizeCounts
------------------------------------------------------------------------------
(* Probe sequences                                                         *)

\* The home slot and the slot of every step, without the second remainder.
LEMMA Slot ==
  ASSUME NEW id \in OrderIds
  PROVE  \E h \in Pos : \A s \in Steps :
           At(id, s) = IF h + s < Capacity THEN h + s ELSE h + s - Capacity
<1> USE IndexAssumption
<1>1. PICK h \in Pos : h = Hash[id] % Capacity
  BY DivMod DEF Pos
<1>2. \A s \in Steps : h + s \in 0..((2 * Capacity) - 1)
  BY DEF Pos, Steps
<1> QED BY <1>1, <1>2, ModOnce DEF At, Steps

\* A probe visits slots of the table only, every slot, and none twice.
LEMMA ProbeIsPermutation ==
  ASSUME NEW id \in OrderIds
  PROVE  /\ \A s \in Steps : At(id, s) \in Pos
         /\ \A s, t \in Steps : At(id, s) = At(id, t) => s = t
         /\ \A p \in Pos : \E s \in Steps : At(id, s) = p
<1> USE IndexAssumption
<1>1. PICK h \in Pos : \A s \in Steps :
           At(id, s) = IF h + s < Capacity THEN h + s ELSE h + s - Capacity
  BY Slot
<1>2. \A s \in Steps : At(id, s) \in Pos
  BY <1>1 DEF Pos, Steps
<1>3. ASSUME NEW s \in Steps, NEW t \in Steps, At(id, s) = At(id, t) PROVE s = t
  BY <1>1, <1>3 DEF Pos, Steps
<1>4. ASSUME NEW p \in Pos PROVE \E s \in Steps : At(id, s) = p
  <2> DEFINE s == IF p >= h THEN p - h ELSE p - h + Capacity
  <2>1. s \in Steps /\ (IF h + s < Capacity THEN h + s ELSE h + s - Capacity) = p
    BY DEF Pos, Steps
  <2> QED BY <1>1, <2>1
<1> QED BY <1>2, <1>3, <1>4

\* The first of a non-empty set of steps.
LEMMA FirstStep ==
  ASSUME NEW S \in SUBSET Steps, S # {}
  PROVE  First(S) \in S /\ \A t \in S : First(S) <= t
<1>1. \E s \in S : \A t \in S : s <= t
  BY LeastNatural, IndexAssumption DEF Steps
<1> QED BY <1>1 DEF First

\* A probe comes to a slot it can take unless every slot is occupied.
LEMMA FreeUnlessFull ==
  ASSUME NEW id \in OrderIds, NEW p \in Pos, states[p] # "Occupied"
  PROVE  Free(id) # {}
<1> DEFINE S == {s \in Steps : states[At(id, s)] # "Occupied"}
<1>1. S \in SUBSET Nat /\ S # {}
  BY ProbeIsPermutation, IndexAssumption DEF Steps
<1>2. PICK s \in S : \A t \in S : s <= t
  <2> HIDE DEF S
  <2> QED BY <1>1, LeastNatural
<1>3. Reached(id, s)
  BY <1>2, IndexAssumption DEF Reached, Steps
<1> QED BY <1>3 DEF Free

\* The probes find exactly the stored ids.
LEMMA HitsAreEntries ==
  ASSUME Inv, NEW id \in OrderIds
  PROVE  /\ Hits(id) # {} <=> \E p \in Pos : Holds(p, id)
         /\ Hits(id) # {} => LET p == At(id, First(Hits(id))) IN p \in Pos /\ Holds(p, id)
         /\ \A p, q \in Pos : Holds(p, id) /\ Holds(q, id) => p = q
<1>1. Hits(id) \in SUBSET Steps /\ \A s \in Hits(id) : At(id, s) \in Pos /\ Holds(At(id, s), id)
  BY ProbeIsPermutation DEF Hits
<1>2. ASSUME NEW p \in Pos, Holds(p, id) PROVE Hits(id) # {}
  BY <1>2, ProbeIsPermutation DEF Hits, Inv, ProbesUnbroken
<1>3. Hits(id) # {} => First(Hits(id)) \in Hits(id)
  BY <1>1, FirstStep
<1>4. \A p, q \in Pos : Holds(p, id) /\ Holds(q, id) => p = q
  BY DEF Holds, Inv, KeysUnique, Occupied
<1> QED BY <1>1, <1>2, <1>3, <1>4

\* The slots are a finite set, and so are the occupied ones.
LEMMA Slots ==
  /\ IsFiniteSet(Pos) /\ Cardinality(Pos) = Capacity
  /\ IsFiniteSet(Occupied) /\ Occupied \subseteq Pos
<1>1. Capacity - 1 >= 0 /\ 0 \in Int /\ Capacity - 1 \in Int
  BY IndexAssumption
<1>2. IsFiniteSet(Pos) /\ Cardinality(Pos) = Capacity
  BY <1>1, FS_Interval, IndexAssumption DEF Pos
<1> QED BY <1>2, FS_Subset DEF Occupied

\* insert() finds no room exactly when size_ has reached Capacity.
LEMMA FullMeansFull ==
  ASSUME Inv, NEW id \in OrderIds
  PROVE  Free(id) = {} <=> size = Capacity
<1>1. Free(id) = {} => Occupied = Pos
  BY FreeUnlessFull DEF Occupied
<1>2. ASSUME Occupied = Pos PROVE Free(id) = {}
  BY <1>2, ProbeIsPermutation DEF Free, Occupied
<1>3. Occupied = Pos <=> size = Capacity
  BY Slots, FS_Subset DEF Inv, SizeCounts
<1> QED BY <1>1, <1>2, <1>3
------------------------------------------------------------------------------
(* The invariant                                                           *)

\* An empty table satisfies the invariant whatever its memory holds: before
\* the first operation,
LEMMA InitInv == Init => Inv
<1> SUFFICES ASSUME Init PROVE Inv
  OBVIOUS
<1>1. Occupied = {}
  BY DEF Occupied, Init
<1>2. TableTypeOK
  BY <1>1, IndexAssumption DEF TableTypeOK, Init
<1>3. KeysUnique /\ SizeCounts
  BY <1>1, FS_EmptySet DEF KeysUnique, SizeCounts, Init
<1>4. ProbesUnbroken
  BY ProbeIsPermutation DEF ProbesUnbroken, Holds, Init
<1> QED BY <1>2, <1>3, <1>4 DEF Inv

\* and after clear().
LEMMA ClearInv == Inv /\ Clear => Inv'
<1> SUFFICES ASSUME Inv, Clear PROVE Inv'
  OBVIOUS
<1>1. Occupied' = {}
  BY DEF Occupied, Clear
<1>2. TableTypeOK'
  BY <1>1, IndexAssumption DEF TableTypeOK, Clear, Inv
<1>3. KeysUnique' /\ SizeCounts'
  BY <1>1, FS_EmptySet DEF KeysUnique, SizeCounts, Clear
<1>4. ProbesUnbroken'
  BY ProbeIsPermutation DEF ProbesUnbroken, Holds, Clear, At
<1> QED BY <1>2, <1>3, <1>4 DEF Inv

\* What a successful insert() writes: a free slot on the id's own probe.
LEMMA InsertSlot ==
  ASSUME Inv, NEW id \in OrderIds, NEW v \in Values, Insert(id, v), ret' # FALSE
  PROVE  \E s \in Steps : LET p == At(id, s) IN
           /\ p \in Pos /\ Reached(id, s) /\ states[p] # "Occupied"
           /\ Hits(id) = {} /\ Free(id) # {} /\ ret' = TRUE
           /\ keys' = [keys EXCEPT ![p] = id]
           /\ values' = [values EXCEPT ![p] = v]
           /\ states' = [states EXCEPT ![p] = "Occupied"]
           /\ size' = size + 1
<1>1. ~(Duplicates(id) # {} \/ Free(id) = {})
  BY DEF Insert
<1>2. Free(id) \in SUBSET Steps
  BY DEF Free
<1>3. First(Free(id)) \in Free(id)
  BY <1>1, <1>2, FirstStep
<1> QED BY <1>1, <1>3, ProbeIsPermutation DEF Insert, Free, Duplicates

\* A failed insert() changes nothing but the result.
LEMMA InsertFails ==
  ASSUME NEW id \in OrderIds, NEW v \in Values, Insert(id, v), ret' = FALSE
  PROVE  UNCHANGED table /\ (Hits(id) # {} \/ Free(id) = {})
BY DEF Insert, Duplicates

\* insert() preserves the invariant: only its own path can end at the new entry.
LEMMA InsertInv ==
  ASSUME Inv, NEW id \in OrderIds, NEW v \in Values, Insert(id, v)
  PROVE  Inv'
<1>1. CASE ret' = FALSE
  BY <1>1, InsertFails DEF table, Inv, TableTypeOK, KeysUnique, ProbesUnbroken, SizeCounts,
     Occupied, Holds, Reached, At
<1>2. CASE ret' # FALSE
  <2>1. PICK s \in Steps : LET p == At(id, s) IN
           /\ p \in Pos /\ Reached(id, s) /\ states[p] # "Occupied"
           /\ Hits(id) = {} /\ Free(id) # {} /\ ret' = TRUE
           /\ keys' = [keys EXCEPT ![p] = id]
           /\ values' = [values EXCEPT ![p] = v]
           /\ states' = [states EXCEPT ![p] = "Occupied"]
           /\ size' = size + 1
    BY <1>2, InsertSlot
  <2>2. PICK p \in Pos : p = At(id, s)
    BY <2>1
  <2>3. Occupied' = Occupied \cup {p} /\ p \notin Occupied
    BY <2>1, <2>2 DEF Occupied, Inv, TableTypeOK
  <2>4. SizeCounts' /\ size' \in 0..Capacity
    <3>1. Cardinality(Occupied') = Cardinality(Occupied) + 1
      BY <2>3, Slots, FS_AddElement
    <3>2. Cardinality(Occupied') <= Capacity
      <4>1. Occupied' \subseteq Pos
        BY <2>3, Slots
      <4> QED BY <4>1, Slots, FS_Subset
    <3> QED BY <3>1, <3>2, <2>1 DEF SizeCounts, Inv, TableTypeOK
  <2>5. TableTypeOK'
    BY <2>1, <2>2, <2>3, <2>4 DEF Inv, TableTypeOK, Occupied
  <2>6. KeysUnique'
    <3>1. \A q \in Occupied : keys[q] # id
      BY <2>1, HitsAreEntries DEF Occupied, Holds
    <3> QED BY <3>1, <2>1, <2>2, <2>3 DEF KeysUnique, Inv, TableTypeOK, Occupied
  <2>7. ProbesUnbroken'
    <3> SUFFICES ASSUME NEW i \in OrderIds, NEW t \in Steps, Holds(At(i, t), i)'
                 PROVE  Reached(i, t)'
      BY DEF ProbesUnbroken, At
    <3>1. Reached(i, t)
      <4>1. CASE At(i, t) = p
        <5>1. i = id /\ s = t
          BY <4>1, <2>1, <2>2, ProbeIsPermutation DEF Holds, Inv, TableTypeOK, At
        <5> QED BY <5>1, <2>1
      <4>2. CASE At(i, t) # p
        <5>1. Holds(At(i, t), i)
          BY <4>2, <2>1, <2>2, ProbeIsPermutation DEF Holds, Inv, TableTypeOK, At
        <5> QED BY <5>1 DEF Inv, ProbesUnbroken
      <4> QED BY <4>1, <4>2
    <3>2. \A u \in 0..(t - 1) : u \in Steps
      BY IndexAssumption DEF Steps
    <3> QED BY <3>1, <3>2, <2>1, <2>2, ProbeIsPermutation DEF Reached, Inv, TableTypeOK, At
  <2> QED BY <2>4, <2>5, <2>6, <2>7 DEF Inv
<1> QED BY <1>1, <1>2

\* erase() preserves the invariant: a tombstone still lets probes pass.
LEMMA EraseInv ==
  ASSUME Inv, NEW id \in OrderIds, Erase(id)
  PROVE  Inv'
<1>1. CASE Hits(id) = {}
  BY <1>1 DEF Erase, table, Inv, TableTypeOK, KeysUnique, ProbesUnbroken, SizeCounts,
     Occupied, Holds, Reached, At
<1>2. CASE Hits(id) # {}
  <2>1. PICK p \in Pos : p = At(id, First(Hits(id))) /\ Holds(p, id)
    BY <1>2, HitsAreEntries
  <2>2. /\ ret' = TRUE /\ states' = [states EXCEPT ![p] = "Deleted"]
        /\ size' = size - 1 /\ keys' = keys /\ values' = values
    BY <1>2, <2>1 DEF Erase, Vacated
  <2>3. Occupied' = Occupied \ {p} /\ p \in Occupied
    BY <2>1, <2>2 DEF Occupied, Holds, Inv, TableTypeOK
  <2>4. SizeCounts' /\ size' \in 0..Capacity
    <3>1. Cardinality(Occupied') = Cardinality(Occupied) - 1
      BY <2>3, Slots, FS_RemoveElement
    <3>2. Cardinality(Occupied') \in Nat
      <4>1. IsFiniteSet(Occupied')
        BY <2>3, Slots, FS_Subset
      <4> QED BY <4>1, FS_CardinalityType
    <3>3. Cardinality(Occupied) = size /\ size \in 0..Capacity /\ Capacity \in Nat
      BY IndexAssumption DEF SizeCounts, Inv, TableTypeOK
    <3>4. Cardinality(Occupied') = size'
      BY <3>1, <3>3, <2>2
    <3>5. size' \in 0..Capacity
      BY <3>2, <3>3, <3>4, <2>2
    <3> QED BY <3>4, <3>5 DEF SizeCounts
  <2>5. TableTypeOK'
    BY <2>2, <2>3, <2>4 DEF Inv, TableTypeOK
  <2>6. KeysUnique'
    BY <2>2, <2>3 DEF Inv, KeysUnique
  <2>7. ProbesUnbroken'
    <3> SUFFICES ASSUME NEW i \in OrderIds, NEW t \in Steps, Holds(At(i, t), i)'
                 PROVE  Reached(i, t)'
      BY DEF ProbesUnbroken, At
    <3>1. Holds(At(i, t), i)
      BY <2>2, ProbeIsPermutation DEF Holds, Inv, TableTypeOK, At
    <3>2. Reached(i, t)
      BY <3>1 DEF Inv, ProbesUnbroken
    <3>3. \A u \in 0..(t - 1) : u \in Steps
      BY IndexAssumption DEF Steps
    <3> QED BY <3>2, <3>3, <2>2, ProbeIsPermutation DEF Reached, Inv, TableTypeOK, At
  <2> QED BY <2>4, <2>5, <2>6, <2>7 DEF Inv
<1> QED BY <1>1, <1>2

\* find(), contains() and get() change nothing.
LEMMA FindInv ==
  ASSUME Inv, NEW id \in OrderIds, Find(id)
  PROVE  Inv'
<1>1. ret' \in Values \cup {NoValue}
  <2>1. CASE Hits(id) = {}
    BY <2>1 DEF Find
  <2>2. CASE Hits(id) # {}
    BY <2>2, HitsAreEntries DEF Find, Inv, TableTypeOK, Holds, Occupied
  <2> QED BY <2>1, <2>2
<1> QED BY <1>1 DEF Find, table, Inv, TableTypeOK, KeysUnique, ProbesUnbroken, SizeCounts,
       Occupied, Holds, Reached, At

\* Every step preserves the invariant.
LEMMA NextInv == Inv /\ [Next]_vars => Inv'
<1> SUFFICES ASSUME Inv, [Next]_vars PROVE Inv'
  OBVIOUS
<1>1. CASE UNCHANGED vars
  BY <1>1 DEF vars, Inv, TableTypeOK, KeysUnique, ProbesUnbroken, SizeCounts, Occupied, Holds,
     Reached, At
<1> QED BY <1>1, InsertInv, EraseInv, FindInv, ClearInv DEF Next

\* The table keeps its invariants: operations return values of the right
\* kinds and size_ stays within the capacity.
THEOREM TypeCorrect == Spec => []TableTypeOK
<1>1. Inv => TableTypeOK
  BY DEF Inv
<1> QED BY <1>1, InitInv, NextInv, PTL DEF Spec

\* No id is ever stored twice.
THEOREM NoDuplicates == Spec => []KeysUnique
<1>1. Inv => KeysUnique
  BY DEF Inv
<1> QED BY <1>1, InitInv, NextInv, PTL DEF Spec

\* Every stored id can be reached from its home slot.
THEOREM NeverLost == Spec => []ProbesUnbroken
<1>1. Inv => ProbesUnbroken
  BY DEF Inv
<1> QED BY <1>1, InitInv, NextInv, PTL DEF Spec

\* size() is the number of stored ids.
THEOREM SizeExact == Spec => []SizeCounts
<1>1. Inv => SizeCounts
  BY DEF Inv
<1> QED BY <1>1, InitInv, NextInv, PTL DEF Spec
------------------------------------------------------------------------------
(* The table implements a map                                              *)

\* The value stored for an id.
LEMMA EntryOf ==
  ASSUME Inv, NEW id \in OrderIds
  PROVE  /\ \A p \in Pos : Holds(p, id) => Entry(id) = values[p] /\ Entry(id) \in Values
         /\ (\A p \in Pos : ~Holds(p, id)) => Entry(id) = NoValue
         /\ Entry(id) # NoValue <=> Hits(id) # {}
<1>1. ASSUME NEW p \in Pos, Holds(p, id)
      PROVE  Entry(id) = values[p] /\ Entry(id) \in Values
  <2>1. (CHOOSE q \in Pos : Holds(q, id)) = p
    BY <1>1, HitsAreEntries
  <2> QED BY <2>1, <1>1 DEF Entry, Holds, Inv, TableTypeOK, Occupied
<1>2. (\A p \in Pos : ~Holds(p, id)) => Entry(id) = NoValue
  BY DEF Entry
<1> QED BY <1>1, <1>2, HitsAreEntries, IndexAssumption

\* insert() is the map's Insert.
LEMMA InsertRefines ==
  ASSUME Inv, Inv', NEW id \in OrderIds, NEW v \in Values, Insert(id, v)
  PROVE  Map!Insert(id, v)
<1>1. CASE ret' = FALSE
  <2>1. UNCHANGED table /\ (Entry(id) # NoValue \/ size = Capacity)
    BY <1>1, InsertFails, EntryOf, FullMeansFull
  <2> QED BY <1>1, <2>1 DEF Map!Insert, table, Entry, Holds
<1>2. CASE ret' # FALSE
  <2>1. PICK s \in Steps : LET p == At(id, s) IN
           /\ p \in Pos /\ Reached(id, s) /\ states[p] # "Occupied"
           /\ Hits(id) = {} /\ Free(id) # {} /\ ret' = TRUE
           /\ keys' = [keys EXCEPT ![p] = id]
           /\ values' = [values EXCEPT ![p] = v]
           /\ states' = [states EXCEPT ![p] = "Occupied"]
           /\ size' = size + 1
    BY <1>2, InsertSlot
  <2>2. PICK p \in Pos : p = At(id, s)
    BY <2>1
  <2>3. Entry(id) = NoValue /\ size # Capacity
    BY <2>1, EntryOf, FullMeansFull
  <2>4. Holds(p, id)' /\ Entry(id)' = v
    <3>1. \A q \in Pos : Holds(q, id)' <=> q = p
      BY <2>1, <2>2, HitsAreEntries DEF Holds, Inv, TableTypeOK
    <3>2. (CHOOSE q \in Pos : Holds(q, id)') = p
      BY <3>1
    <3> QED BY <3>1, <3>2, <2>1, <2>2 DEF Entry, Inv, TableTypeOK
  <2>5. ASSUME NEW i \in OrderIds, i # id PROVE Entry(i)' = Entry(i)
    <3>1. \A q \in Pos : Holds(q, i)' <=> Holds(q, i)
      BY <2>1, <2>2, <2>5 DEF Holds, Inv, TableTypeOK
    <3>2. \A q \in Pos : Holds(q, i) => values'[q] = values[q]
      BY <2>1, <2>2, <2>5 DEF Holds, Inv, TableTypeOK
    <3>3. (CHOOSE q \in Pos : Holds(q, i)') = (CHOOSE q \in Pos : Holds(q, i))
      BY <3>1
    <3> QED BY <3>1, <3>2, <3>3 DEF Entry
  <2>6. [i \in OrderIds |-> Entry(i)]' = [[i \in OrderIds |-> Entry(i)] EXCEPT ![id] = v]
    BY <2>4, <2>5
  <2> QED BY <2>1, <2>3, <2>6 DEF Map!Insert
<1> QED BY <1>1, <1>2

\* erase() is the map's Erase: the tombstone it leaves means no entry.
LEMMA EraseRefines ==
  ASSUME Inv, NEW id \in OrderIds, Erase(id)
  PROVE  Map!Erase(id)
<1>1. CASE Hits(id) = {}
  <2>1. Entry(id) = NoValue /\ UNCHANGED table /\ ret' = FALSE
    BY <1>1, EntryOf DEF Erase
  <2>2. [i \in OrderIds |-> Entry(i)]' = [i \in OrderIds |-> Entry(i)]
    BY <2>1 DEF table, Entry, Holds
  <2>3. [[i \in OrderIds |-> Entry(i)] EXCEPT ![id] = NoValue] = [i \in OrderIds |-> Entry(i)]
    BY <2>1
  <2> QED BY <2>1, <2>2, <2>3 DEF Map!Erase, table
<1>2. CASE Hits(id) # {}
  <2>1. PICK p \in Pos : p = At(id, First(Hits(id))) /\ Holds(p, id)
    BY <1>2, HitsAreEntries
  <2>2. /\ ret' = TRUE /\ states' = [states EXCEPT ![p] = "Deleted"]
        /\ size' = size - 1 /\ keys' = keys /\ values' = values
    BY <1>2, <2>1 DEF Erase, Vacated
  <2>3. Entry(id) # NoValue
    BY <1>2, EntryOf
  <2>4. Entry(id)' = NoValue
    <3>1. \A q \in Pos : ~Holds(q, id)'
      BY <2>1, <2>2, HitsAreEntries DEF Holds, Inv, TableTypeOK
    <3> QED BY <3>1 DEF Entry
  <2>5. ASSUME NEW i \in OrderIds, i # id PROVE Entry(i)' = Entry(i)
    <3>1. \A q \in Pos : Holds(q, i)' <=> Holds(q, i)
      BY <2>1, <2>2, <2>5 DEF Holds, Inv, TableTypeOK
    <3>2. (CHOOSE q \in Pos : Holds(q, i)') = (CHOOSE q \in Pos : Holds(q, i))
      BY <3>1
    <3> QED BY <3>1, <3>2, <2>2 DEF Entry
  <2>6. [i \in OrderIds |-> Entry(i)]' = [[i \in OrderIds |-> Entry(i)] EXCEPT ![id] = NoValue]
    BY <2>4, <2>5
  <2> QED BY <2>2, <2>3, <2>6 DEF Map!Erase
<1> QED BY <1>1, <1>2

\* find() is the map's Find.
LEMMA FindRefines ==
  ASSUME Inv, NEW id \in OrderIds, Find(id)
  PROVE  Map!Find(id)
<1>1. ret' = Entry(id)
  <2>1. CASE Hits(id) = {}
    BY <2>1, EntryOf DEF Find
  <2>2. CASE Hits(id) # {}
    BY <2>2, HitsAreEntries, EntryOf DEF Find
  <2> QED BY <2>1, <2>2
<1>2. [i \in OrderIds |-> Entry(i)]' = [i \in OrderIds |-> Entry(i)] /\ size' = size
  BY DEF Find, table, Entry, Holds
<1> QED BY <1>1, <1>2 DEF Map!Find

\* A table without occupied slots stands for the empty map.
LEMMA ClearRefines == Clear => Map!Clear
<1> SUFFICES ASSUME Clear PROVE Map!Clear
  OBVIOUS
<1>1. \A id \in OrderIds, q \in Pos : ~Holds(q, id)'
  BY DEF Clear, Holds
<1>2. \A id \in OrderIds : Entry(id)' = NoValue
  BY <1>1 DEF Entry
<1> QED BY <1>2 DEF Map!Clear, Clear

\* A new table, whatever its keys and values hold, is the empty map.
LEMMA InitRefines == Init => Map!Init
<1> SUFFICES ASSUME Init PROVE Map!Init
  OBVIOUS
<1>1. \A id \in OrderIds, q \in Pos : ~Holds(q, id)
  BY DEF Init, Holds
<1>2. \A id \in OrderIds : Entry(id) = NoValue
  BY <1>1 DEF Entry
<1> QED BY <1>2 DEF Map!Init, Init

\* Every operation on the table is the operation of the same name on a plain
\* map: probing, tombstones and slot reuse cannot be observed.
THEOREM ImplementsMap == Spec => ImplementsOrderMap
<1>1. Inv /\ Inv' /\ [Next]_vars => [Map!Next]_(Map!vars)
  <2> SUFFICES ASSUME Inv, Inv', [Next]_vars PROVE [Map!Next]_(Map!vars)
    OBVIOUS
  <2>1. CASE UNCHANGED vars
    BY <2>1 DEF vars, Map!vars, Entry, Holds
  <2>2. CASE Next
    BY <2>2, InsertRefines, EraseRefines, FindRefines, ClearRefines DEF Next, Map!Next
  <2> QED BY <2>1, <2>2
<1> QED BY <1>1, InitInv, NextInv, InitRefines, PTL DEF Spec, ImplementsOrderMap, Map!Spec
==============================================================================
