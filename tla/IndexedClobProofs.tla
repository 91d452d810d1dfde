-------------------------- MODULE IndexedClobProofs --------------------------
(***************************************************************************)
(* For every pool size, hash function, set of ids and initial memory, the  *)
(* book over its real hash table implements the book over a map, so every  *)
(* theorem of FixedClobProofs holds of it.  What the table does is cited   *)
(* from FixedOrderIndexProofs, what the book's invariant says from         *)
(* FixedClobProofs.                                                        *)
(***************************************************************************)
EXTENDS IndexedClob, FiniteSetTheorems, TLAPS

T == INSTANCE FixedOrderIndexProofs
       WITH Capacity <- 2 * MaxOrders, Values <- 0..(MaxOrders - 1),
            NoValue <- NullIndex, ret <- found
B == INSTANCE FixedClobProofs WITH book <- 0, ledger <- 0

Inv == T!Inv /\ B!IInv
------------------------------------------------------------------------------
(* The table                                                               *)

\* The constants are as both instances assume.
LEMMA Assumptions == B!ClobAssumption /\ T!IndexAssumption
<1>1. B!ClobAssumption
  BY IndexedClobAssumption DEF Book!ClobAssumption, B!ClobAssumption, Book!Idx, B!Idx, Book!Qtys, B!Qtys
<1>2. 2 * MaxOrders \in Nat \ {0, 1} /\ NullIndex \notin 0..(MaxOrders - 1)
  BY <1>1 DEF B!ClobAssumption, B!Idx
<1> QED BY <1>1, <1>2, IndexedClobAssumption DEF T!IndexAssumption

\* The table's entries, read through either instance.
LEMMA Entries ==
  /\ order_lookup = [id \in OrderIds |-> T!Entry(id)]
  /\ order_lookup' = [id \in OrderIds |-> T!Entry(id)]'
BY DEF order_lookup, Table!Entry, T!Entry, Table!Holds, T!Holds, Table!Pos, T!Pos

\* A table operation of IndexedClob is the one FixedOrderIndexProofs is about.
LEMMA TableSteps ==
  ASSUME NEW id
  PROVE  /\ \A v : Table!Insert(id, v) => T!Insert(id, v)
         /\ Table!Erase(id) => T!Erase(id)
         /\ Table!Hits(id) = T!Hits(id)
BY DEF Table!Insert, T!Insert, Table!Duplicates, T!Duplicates, Table!Hits, T!Hits, Table!Free, T!Free,
   Table!Reached, T!Reached, Table!Holds, T!Holds, Table!At, T!At, Table!Steps, T!Steps, Table!First, T!First,
   Table!table, T!table, Table!Erase, T!Erase, Table!Vacated, T!Vacated

\* A call that does not touch the table keeps its invariant and its entries.
LEMMA TableUntouched ==
  ASSUME UNCHANGED tablevars
  PROVE  order_lookup' = order_lookup /\ (T!Inv => T!Inv')
<1>1. order_lookup' = order_lookup
  BY DEF tablevars, order_lookup, Table!Entry, Table!Holds
<1>2. UNCHANGED T!vars
  BY DEF tablevars, T!vars
<1> QED BY <1>1, <1>2, Assumptions, T!NextInv

\* insert() on the map: it succeeds unless the id is there or the table full.
LEMMA InsertStep ==
  ASSUME T!Inv, NEW id \in OrderIds, NEW v \in 0..(MaxOrders - 1), Table!Insert(id, v)
  PROVE  /\ T!Inv'
         /\ IF order_lookup[id] # NullIndex \/ size = 2 * MaxOrders
            THEN found' = FALSE /\ order_lookup' = order_lookup
            ELSE found' = TRUE /\ order_lookup' = [order_lookup EXCEPT ![id] = v]
<1>1. T!Insert(id, v)
  BY TableSteps
<1>2. T!Inv'
  BY <1>1, Assumptions, T!InsertInv
<1>3. T!Map!Insert(id, v)
  BY <1>1, <1>2, Assumptions, T!InsertRefines
<1> QED BY <1>2, <1>3, Entries DEF T!Map!Insert

\* erase() on the map.
LEMMA EraseStep ==
  ASSUME T!Inv, NEW id \in OrderIds, Table!Erase(id)
  PROVE  T!Inv' /\ order_lookup' = [order_lookup EXCEPT ![id] = NullIndex]
<1>1. T!Erase(id)
  BY TableSteps
<1>2. T!Inv' /\ T!Map!Erase(id)
  BY <1>1, Assumptions, T!EraseInv, T!EraseRefines
<1> QED BY <1>2, Entries DEF T!Map!Erase

\* find() and contains() on the map.
LEMMA LookupIs ==
  ASSUME T!Inv, NEW id \in OrderIds
  PROVE  Lookup(id) = order_lookup[id]
<1>1. order_lookup[id] = T!Entry(id)
  BY Entries
<1>2. Table!Hits(id) = T!Hits(id) /\ Table!At(id, Table!First(T!Hits(id))) = T!At(id, T!First(T!Hits(id)))
  BY TableSteps DEF Table!At, T!At, Table!First, T!First
<1>3. CASE T!Hits(id) = {}
  BY <1>1, <1>2, <1>3, Assumptions, T!EntryOf DEF Lookup
<1>4. CASE T!Hits(id) # {}
  <2>1. T!At(id, T!First(T!Hits(id))) \in T!Pos /\ T!Holds(T!At(id, T!First(T!Hits(id))), id)
    BY <1>4, Assumptions, T!HitsAreEntries
  <2>2. T!Entry(id) = values[T!At(id, T!First(T!Hits(id)))]
    BY <2>1, Assumptions, T!EntryOf
  <2> QED BY <1>1, <1>2, <1>4, <2>2 DEF Lookup
<1> QED BY <1>3, <1>4

\* Each occupied entry leads to a live order.
LEMMA OccupiedLive ==
  ASSUME T!Inv, B!BookInv
  PROVE  \A p \in T!Occupied : /\ values[p] \in B!Live /\ orders[values[p]].order_id = keys[p]
                               /\ keys[p] \in OrderIds /\ order_lookup[keys[p]] = values[p]
<1> TAKE p \in T!Occupied
<1>1. p \in T!Pos /\ T!Holds(p, keys[p]) /\ keys[p] \in OrderIds
  BY DEF T!Occupied, T!Holds, T!Inv, T!TableTypeOK
<1>2. T!Entry(keys[p]) = values[p] /\ T!Entry(keys[p]) \in 0..(MaxOrders - 1)
  BY <1>1, Assumptions, T!EntryOf
<1>3. order_lookup[keys[p]] = values[p] /\ values[p] # NullIndex
  BY <1>1, <1>2, Entries, Assumptions DEF B!ClobAssumption, B!Idx
<1> QED BY <1>1, <1>3 DEF B!BookInv, B!StoreInv, B!PoolPartition, B!Contains

\* Occupied entries and live orders correspond one to one.
LEMMA SizeIsLive ==
  ASSUME T!Inv, B!BookInv
  PROVE  size = MaxOrders - Len(free_stack)
<1> DEFINE f == [p \in T!Occupied |-> values[p]]
<1>1. \A p, q \in T!Occupied : f[p] = f[q] => p = q
  BY OccupiedLive DEF T!Inv, T!KeysUnique
<1>2. \A i \in B!Live : \E p \in T!Occupied : f[p] = i
  <2> TAKE i \in B!Live
  <2> DEFINE id == orders[i].order_id
  <2>1. id \in OrderIds /\ order_lookup[id] = i /\ i # NullIndex
    BY Assumptions DEF B!BookInv, B!StoreInv, B!PoolPartition, B!Live, B!ClobAssumption
  <2>2. T!Entry(id) = i
    BY <2>1, Entries
  <2> HIDE DEF id
  <2>3. PICK p \in T!Pos : T!Holds(p, id) /\ values[p] = i
    BY <2>1, <2>2, Assumptions, T!EntryOf
  <2> QED BY <2>3 DEF T!Occupied, T!Holds
<1>3. f \in Bijection(T!Occupied, B!Live)
  BY <1>1, <1>2, OccupiedLive DEF Bijection, Injection, Surjection, IsInjective
<1>4. T!Occupied \subseteq T!Pos /\ IsFiniteSet(T!Pos)
  BY FS_Interval, Assumptions DEF T!Occupied, T!Pos, T!IndexAssumption
<1>5. Cardinality(B!Live) = Cardinality(T!Occupied)
  <2>1. ExistsBijection(T!Occupied, B!Live)
    BY <1>3 DEF ExistsBijection
  <2>2. IsFiniteSet(T!Occupied)
    BY <1>4, FS_Subset
  <2> QED BY <2>1, <2>2, FS_Bijection
<1>6. size = Cardinality(T!Occupied)
  BY DEF T!Inv, T!SizeCounts, T!Cardinality, Cardinality
<1>7. Cardinality(B!Live) = MaxOrders - Len(free_stack)
  BY B!LiveCount, Assumptions DEF B!BookInv, B!Cardinality, Cardinality
<1> HIDE DEF f
<1> QED BY <1>5, <1>6, <1>7

\* So the table is never more than half full.
LEMMA NeverFull ==
  ASSUME T!Inv, B!BookInv
  PROVE  size # 2 * MaxOrders
<1>1. free_stack \in Seq(B!Idx) /\ MaxOrders \in Nat \ {0}
  BY Assumptions DEF B!BookInv, B!StoreInv, B!SlotsOK, B!ClobAssumption
<1>2. Len(free_stack) \in Nat
  BY <1>1
<1> QED BY <1>1, <1>2, SizeIsLive
------------------------------------------------------------------------------
(* The book                                                                *)

\* The two instances of FixedClob name the same things.
LEMMA SameTerms ==
  /\ Book!Idx = B!Idx /\ Book!IndexFull = B!IndexFull /\ Book!Top = free_stack[Len(free_stack)]
  /\ Book!AtLevel = B!AtLevel /\ Book!Maker = B!Maker
  /\ \A id : Book!Contains(id) <=> order_lookup[id] # NullIndex
  /\ \A id : B!Contains(id) <=> order_lookup[id] # NullIndex
BY DEF Book!Idx, B!Idx, Book!IndexFull, B!IndexFull, Book!Contains, B!Contains, Book!Top,
   Book!Cardinality, B!Cardinality, Book!AtLevel, B!AtLevel, Book!Maker, B!Maker, Book!WorkLevel, B!WorkLevel, Book!Opposite, B!Opposite

\* The end of add_order: the table refuses an id exactly when a map would.
LEMMA RestStep ==
  ASSUME T!Inv, B!BookInv, NEW id \in OrderIds, NEW side, NEW price, NEW qty,
         Rest(id, side, price, qty)
  PROVE  T!Inv' /\ Book!Rest(id, side, price, qty)
<1>1. ~Book!IndexFull
  BY Assumptions, B!IndexNeverFull, SameTerms
<1>2. CASE qty = 0 \/ ~Book!ValidPrice(price) \/ free_stack = <<>>
  <2>1. ret' = FALSE /\ UNCHANGED <<tablevars, partvars>>
    BY <1>2 DEF Rest
  <2> QED BY <1>2, <2>1, TableUntouched DEF Book!Rest, Book!store, partvars
<1>3. CASE ~(qty = 0 \/ ~Book!ValidPrice(price) \/ free_stack = <<>>)
  <2>1. Book!Top \in 0..(MaxOrders - 1)
    <3>1. free_stack \in Seq(B!Idx) /\ Book!Top = free_stack[Len(free_stack)]
      BY SameTerms DEF B!BookInv, B!StoreInv, B!SlotsOK
    <3>2. Len(free_stack) \in 1..Len(free_stack)
      BY <1>3, <3>1
    <3>3. free_stack[Len(free_stack)] \in B!Idx
      BY <3>1, <3>2
    <3> QED BY <3>1, <3>3 DEF B!Idx
  <2>2. Table!Insert(id, Book!Top) /\ ret' = found'
    BY <1>3 DEF Rest
  <2>3. /\ T!Inv'
        /\ IF Book!Contains(id) THEN found' = FALSE /\ order_lookup' = order_lookup
           ELSE found' = TRUE /\ order_lookup' = [order_lookup EXCEPT ![id] = Book!Top]
    BY <2>1, <2>2, InsertStep, NeverFull, SameTerms
  <2>4. CASE Book!Contains(id)
    BY <1>3, <2>2, <2>3, <2>4 DEF Rest, GivenBack, Book!Rest, Book!store
  <2>5. CASE ~Book!Contains(id)
    BY <1>1, <1>3, <2>2, <2>3, <2>5 DEF Rest, Book!Rest, Book!Place
  <2> QED BY <2>3, <2>4, <2>5
<1> QED BY <1>2, <1>3

\* remove_order_by_index: the table forgets the id of the slot.
LEMMA RemoveStep ==
  ASSUME T!Inv, B!BookInv, NEW idx \in B!Live, RemoveOrder(idx)
  PROVE  T!Inv' /\ Book!RemoveOrder(idx)
<1>1. orders[idx].order_id \in OrderIds
  BY DEF B!BookInv, B!StoreInv, B!PoolPartition
<1>2. Table!Erase(orders[idx].order_id)
  BY DEF RemoveOrder
<1>3. T!Inv' /\ order_lookup' = Book!Erased(orders[idx].order_id)
  BY <1>1, <1>2, EraseStep DEF Book!Erased
<1> QED BY <1>3 DEF RemoveOrder, Book!RemoveOrder

\* add_order.
LEMMA AddOrderStep ==
  ASSUME Inv, NEW id \in OrderIds, NEW side, NEW price, NEW qty, AddOrder(id, side, price, qty)
  PROVE  T!Inv' /\ Book!AddOrder(id, side, price, qty)
BY RestStep DEF Inv, B!IInv, AddOrder, Book!AddOrder, callvars

\* cancel_order.
LEMMA CancelOrderStep ==
  ASSUME Inv, NEW id \in OrderIds, CancelOrder(id)
  PROVE  T!Inv' /\ Book!CancelOrder(id)
<1>1. T!Inv /\ B!BookInv /\ Lookup(id) = order_lookup[id]
  BY LookupIs DEF Inv, B!IInv
<1>2. CASE order_lookup[id] = NullIndex
  <2>1. ret' = FALSE /\ UNCHANGED <<tablevars, partvars, callvars>> /\ pc = "idle"
    BY <1>1, <1>2 DEF CancelOrder
  <2> QED BY <1>1, <1>2, <2>1, TableUntouched, SameTerms DEF Book!CancelOrder, Book!store, partvars, callvars
<1>3. CASE order_lookup[id] # NullIndex
  <2>1. ret' = TRUE /\ RemoveOrder(order_lookup[id]) /\ UNCHANGED callvars /\ pc = "idle"
    BY <1>1, <1>3 DEF CancelOrder
  <2>2. order_lookup[id] \in B!Live
    BY <1>1, <1>3, SameTerms DEF B!BookInv, B!StoreInv, B!PoolPartition
  <2>3. T!Inv' /\ Book!RemoveOrder(order_lookup[id])
    BY <1>1, <2>1, <2>2, RemoveStep
  <2> QED BY <1>3, <2>1, <2>3, SameTerms DEF Book!CancelOrder, callvars
<1> QED BY <1>2, <1>3

\* Entering submit_limit_order.
LEMMA SubmitStep ==
  ASSUME Inv, NEW id \in OrderIds, NEW side, NEW price, NEW qty, SubmitLimitOrder(id, side, price, qty)
  PROVE  T!Inv' /\ Book!SubmitLimitOrder(id, side, price, qty)
<1>1. T!Inv /\ (Lookup(id) # NullIndex <=> Book!Contains(id))
  BY LookupIs, SameTerms DEF Inv
<1>2. T!Inv' /\ order_lookup' = order_lookup
  BY <1>1, TableUntouched DEF SubmitLimitOrder
<1> QED BY <1>1, <1>2 DEF SubmitLimitOrder, Book!SubmitLimitOrder, partvars

\* The steps of match_order and match_at_level.
LEMMA MatchingStep ==
  ASSUME Inv, Matching
  PROVE  T!Inv' /\ Book!Matching
<1>1. T!Inv /\ B!BookInv /\ B!IInv
  BY DEF Inv, B!IInv
<1>2. CASE EnterLevel \/ LeaveLevel \/ FillIncoming
  BY <1>1, <1>2, TableUntouched DEF EnterLevel, LeaveLevel, FillIncoming, Book!Matching
<1>3. CASE FillResting
  <2>1. Book!AtLevel /\ RemoveOrder(Book!Maker)
    BY <1>3 DEF FillResting
  <2>2. Book!Maker \in B!Live
    BY <1>1, <2>1, Assumptions, B!MakerLive, SameTerms
  <2>3. T!Inv' /\ Book!RemoveOrder(Book!Maker)
    BY <1>1, <2>1, <2>2, RemoveStep
  <2> QED BY <1>3, <2>3 DEF FillResting, Book!FillResting, Book!Matching
<1>4. CASE FinishSubmit
  <2>1. CASE call.qty = 0
    <3>1. UNCHANGED <<tablevars, partvars>>
      BY <1>4, <2>1 DEF FinishSubmit
    <3> QED BY <1>1, <1>4, <2>1, <3>1, TableUntouched DEF FinishSubmit, Book!FinishSubmit, Book!Matching,
          Book!store, partvars
  <2>2. CASE call.qty # 0
    <3>1. Rest(call.order_id, call.side, call.price, call.qty) /\ pc = "match_order"
      BY <1>4, <2>2 DEF FinishSubmit
    <3>2. call.order_id \in OrderIds
      BY <1>1, <3>1 DEF B!IInv, B!CallInv
    <3>3. T!Inv' /\ Book!Rest(call.order_id, call.side, call.price, call.qty)
      BY <1>1, <3>1, <3>2, RestStep
    <3> QED BY <1>4, <2>2, <3>3 DEF FinishSubmit, Book!FinishSubmit, Book!Matching
  <2> QED BY <2>1, <2>2
<1> QED BY <1>2, <1>3, <1>4 DEF Matching
------------------------------------------------------------------------------
(* From one instance of FixedClob to the other                             *)

\* remove_order_by_index is the same in both.
LEMMA SameRemove ==
  ASSUME NEW idx
  PROVE  Book!RemoveOrder(idx) => B!RemoveOrder(idx)
BY DEF Book!RemoveOrder, B!RemoveOrder, Book!LevelWithout, B!LevelWithout, Book!Less, B!Less,
   Book!Unlinked, B!Unlinked, Book!Idx, B!Idx, Book!Erased, B!Erased, Book!Released, B!Released,
   Book!RefreshedBest, B!RefreshedBest, Book!Prices, B!Prices, Book!Improves, B!Improves

\* The end of add_order is the same in both.
LEMMA SameRest ==
  ASSUME NEW id, NEW side, NEW price, NEW qty
  PROVE  Book!Rest(id, side, price, qty) => B!Rest(id, side, price, qty)
<1>1. Book!Place(id, side, price, qty) => B!Place(id, side, price, qty)
  BY DEF Book!Place, B!Place, Book!Allocated, B!Allocated, Book!Top, B!Top, Book!Appended, B!Appended,
     Book!Last, B!Last, Book!Idx, B!Idx, Book!LevelWith, B!LevelWith, Book!BestAfterAdd, B!BestAfterAdd,
     Book!Improves, B!Improves
<1>2. Book!ValidPrice(price) = B!ValidPrice(price) /\ Book!Contains(id) = B!Contains(id)
      /\ Book!IndexFull = B!IndexFull
  BY SameTerms DEF Book!ValidPrice, B!ValidPrice, Book!Contains, B!Contains
<1> QED BY <1>1, <1>2 DEF Book!Rest, B!Rest, Book!store, B!store

\* So every step of one is a step of the other.
LEMMA SameNext == [Book!Next]_(Book!vars) => [B!Next]_(B!vars)
<1>1. ASSUME NEW id, NEW side, NEW price, NEW qty
      PROVE  /\ Book!AddOrder(id, side, price, qty) => B!AddOrder(id, side, price, qty)
             /\ Book!SubmitLimitOrder(id, side, price, qty) => B!SubmitLimitOrder(id, side, price, qty)
             /\ Book!CancelOrder(id) => B!CancelOrder(id)
  <2>1. Book!AddOrder(id, side, price, qty) => B!AddOrder(id, side, price, qty)
    BY SameRest DEF Book!AddOrder, B!AddOrder
  <2>2. Book!SubmitLimitOrder(id, side, price, qty) => B!SubmitLimitOrder(id, side, price, qty)
    BY DEF Book!SubmitLimitOrder, B!SubmitLimitOrder, Book!ValidPrice, B!ValidPrice, Book!Contains, B!Contains
  <2>3. Book!CancelOrder(id) => B!CancelOrder(id)
    BY SameRemove DEF Book!CancelOrder, B!CancelOrder, Book!Contains, B!Contains, Book!store, B!store
  <2> QED BY <2>1, <2>2, <2>3
<1>2. Book!Crosses(call.side, call.price) = B!Crosses(call.side, call.price)
  BY DEF Book!Crosses, B!Crosses, Book!Opposite, B!Opposite
<1>3. Book!EnterLevel => B!EnterLevel
  BY <1>2 DEF Book!EnterLevel, B!EnterLevel, Book!Opposite, B!Opposite
<1>4. Book!LeaveLevel => B!LeaveLevel
  BY DEF Book!LeaveLevel, B!LeaveLevel, Book!WorkLevel, B!WorkLevel, Book!Opposite, B!Opposite
<1>5. \A qty : Book!Execution(qty) = B!Execution(qty)
  BY SameTerms DEF Book!Execution, B!Execution
<1>6. Book!FillIncoming => B!FillIncoming
  BY <1>5, SameTerms DEF Book!FillIncoming, B!FillIncoming, Book!Less, B!Less, Book!Opposite, B!Opposite
<1>7. Book!FillResting => B!FillResting
  BY <1>5, SameTerms, SameRemove DEF Book!FillResting, B!FillResting
<1>8. Book!FinishSubmit => B!FinishSubmit
  BY <1>2, SameRest DEF Book!FinishSubmit, B!FinishSubmit, Book!NoCall, B!NoCall, Book!store, B!store
<1>9. Book!Matching => B!Matching
  BY <1>3, <1>4, <1>6, <1>7, <1>8 DEF Book!Matching, B!Matching
<1> QED BY <1>1, <1>9 DEF Book!Next, B!Next, Book!ExchangeNext, B!ExchangeNext, Book!Sides, B!Sides,
       Book!vars, B!vars

\* Table and book start out empty.
LEMMA InitStep == Init => Inv /\ Book!Init
<1> SUFFICES ASSUME Init PROVE Inv /\ Book!Init
  OBVIOUS
<1>1. T!Init
  BY DEF Init, Table!Init, T!Init, Table!Pos, T!Pos
<1>2. T!Inv /\ T!Map!Init
  BY <1>1, Assumptions, T!InitInv, T!InitRefines
<1>3. Book!Init
  BY <1>2, Entries DEF T!Map!Init, Init, Book!Init
<1>4. B!Init
  BY <1>3 DEF Book!Init, B!Init, Book!Idx, B!Idx, Book!DefaultOrder, B!DefaultOrder, Book!Sides, B!Sides,
     Book!Prices, B!Prices, Book!EmptyLevel, B!EmptyLevel, Book!NoCall, B!NoCall
<1>5. B!IInv
  BY <1>4, Assumptions, B!InitInv
<1> QED BY <1>2, <1>3, <1>5 DEF Inv

\* Every step keeps both invariants and is a step of the book over a map.
LEMMA NextStep == Inv /\ [Next]_vars => Inv' /\ [Book!Next]_(Book!vars)
<1> SUFFICES ASSUME Inv, [Next]_vars PROVE Inv' /\ [Book!Next]_(Book!vars)
  OBVIOUS
<1>1. T!Inv' /\ [Book!Next]_(Book!vars)
  <2>1. ASSUME NEW id \in OrderIds, NEW side \in Book!Sides, NEW price \in InputPrices, NEW qty \in InputQtys,
               SubmitLimitOrder(id, side, price, qty) \/ AddOrder(id, side, price, qty)
        PROVE  T!Inv' /\ Book!Next
    BY <2>1, SubmitStep, AddOrderStep DEF Book!Next, Book!ExchangeNext
  <2>2. ASSUME NEW id \in OrderIds, CancelOrder(id)
        PROVE  T!Inv' /\ Book!Next
    BY <2>2, CancelOrderStep DEF Book!Next, Book!ExchangeNext
  <2>3. CASE Matching
    BY <2>3, MatchingStep DEF Book!Next, Book!ExchangeNext
  <2>4. CASE UNCHANGED vars
    <3>1. order_lookup' = order_lookup /\ T!Inv'
      BY <2>4, TableUntouched DEF vars, Inv
    <3> QED BY <2>4, <3>1 DEF vars, partvars, callvars, Book!vars
  <2> QED BY <2>1, <2>2, <2>3, <2>4 DEF Next
<1>2. B!IInv'
  BY <1>1, SameNext, Assumptions, B!NextInv DEF Inv
<1> QED BY <1>1, <1>2 DEF Inv
------------------------------------------------------------------------------
(* Theorems                                                                *)

\* With the real hash table the book does what it does with a map for an index:
\* probes, tombstones and stale keys of FixedOrderIndex never refuse or lose an
\* order, for any hash function and however long the book runs.
THEOREM ImplementsBook == Spec => ImplementsFixedClob
<1> QED BY InitStep, NextStep, PTL DEF Spec, ImplementsFixedClob, Book!Spec

\* Table and pool describe the same orders after every step of a call: tombstones
\* and vacated entries never stand for one, and no live order is without entry.
THEOREM TableAgrees == Spec => []TableMatchesPool
<1>1. Inv => TableMatchesPool
  <2> SUFFICES ASSUME Inv PROVE TableMatchesPool
    OBVIOUS
  <2>1. T!Inv /\ B!BookInv
    BY DEF Inv, B!IInv
  <2>2. size = Book!active_orders
    BY <2>1, SizeIsLive DEF Book!active_orders
  <2>3. Table!Occupied = T!Occupied /\ Book!Live = B!Live
    BY DEF Table!Occupied, T!Occupied, Table!Pos, T!Pos, Book!Live, B!Live, Book!Idx, B!Idx,
       Book!FreeSlots, B!FreeSlots
  <2> QED BY <2>1, <2>2, <2>3, OccupiedLive DEF TableMatchesPool
<1> QED BY <1>1, InitStep, NextStep, PTL DEF Spec
==============================================================================
