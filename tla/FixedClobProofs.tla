--------------------------- MODULE FixedClobProofs ---------------------------
(***************************************************************************)
(* Proofs about FixedClob, for every pool size, price range, set of ids    *)
(* and width of Quantity.                                                  *)
(*                                                                         *)
(* First the structure.  The invariant is IInv of FixedClobInv.  The       *)
(* lemmas go along the code: allocate and release (LiveAfter...), then     *)
(* what Place (the body of add_order) and RemoveOrder do to the pool, the  *)
(* index, the levels, the links and the cached best prices, then one lemma *)
(* per action, then the theorems.                                          *)
(*                                                                         *)
(* Then what callers can rely on.  FixedClobBook: the book implements      *)
(* OrderBook.  Each side has exactly one Listing; placing an order inserts *)
(* it into its side's listing at the one position in line, removing one    *)
(* takes it out, a partial fill changes no listing; so the queues shown    *)
(* change as OrderBook's do.  The read-only members report those queues:   *)
(* the levels' counts, totals, head and tail are those of the places in    *)
(* line at their price.                                                    *)
(*                                                                         *)
(* Ledger: a caller's account of its open orders is right.  LedgerAgrees   *)
(* is looked at one id at a time (Agrees): a step disturbs at most the two *)
(* ids it is about.                                                        *)
(***************************************************************************)
EXTENDS FixedClobBook, Ledger, NaturalFacts, FiniteSetTheorems, TLAPS
------------------------------------------------------------------------------
\* allocate() hands out a slot that was not live, and only that one.
LEMMA LiveAfterAllocate ==
  ASSUME SlotsOK, PoolPartition, free_stack # <<>>, free_stack' = Allocated
  PROVE  /\ Top \in Idx /\ Top \notin Live
         /\ Live' = Live \cup {Top}
         /\ free_stack' \in Seq(Idx)
         /\ \A m, n \in DOMAIN free_stack' : free_stack'[m] = free_stack'[n] => m = n
<1> DEFINE L == Len(free_stack)
<1>1. L \in Nat \ {0} /\ DOMAIN free_stack = 1..L /\ free_stack \in [1..L -> Idx]
  BY DEF SlotsOK
<1>2. /\ free_stack' \in Seq(Idx) /\ Len(free_stack') = L - 1 /\ DOMAIN free_stack' = 1..(L - 1)
      /\ \A n \in 1..(L - 1) : free_stack'[n] = free_stack[n]
  BY <1>1 DEF Allocated, SlotsOK
<1>3. FreeSlots' = FreeSlots \ {Top}
  BY <1>1, <1>2 DEF FreeSlots, Top, PoolPartition
<1>4. Top \in FreeSlots /\ Top \in Idx
  BY <1>1 DEF FreeSlots, Top
<1>5. \A m, n \in DOMAIN free_stack' : free_stack'[m] = free_stack'[n] => m = n
  BY <1>1, <1>2 DEF PoolPartition
<1> QED BY <1>2, <1>3, <1>4, <1>5 DEF Live

\* release() of a live slot frees that slot and no other.
LEMMA LiveAfterRelease ==
  ASSUME SlotsOK, PoolPartition, NEW idx \in Live, free_stack' = Released(idx)
  PROVE  /\ Live' = Live \ {idx}
         /\ free_stack' \in Seq(Idx) /\ free_stack' # <<>>
         /\ \A m, n \in DOMAIN free_stack' : free_stack'[m] = free_stack'[n] => m = n
<1> DEFINE L == Len(free_stack)
<1>1. L \in Nat /\ DOMAIN free_stack = 1..L /\ free_stack \in [1..L -> Idx] /\ idx \in Idx
  BY DEF SlotsOK, Live
<1>2. /\ free_stack' \in Seq(Idx) /\ Len(free_stack') = L + 1 /\ DOMAIN free_stack' = 1..(L + 1)
      /\ \A n \in 1..L : free_stack'[n] = free_stack[n]
      /\ free_stack'[L + 1] = idx
  BY <1>1 DEF Released, SlotsOK
<1>3. FreeSlots' = FreeSlots \cup {idx}
  BY <1>1, <1>2 DEF FreeSlots
<1>4. \A n \in 1..L : free_stack[n] # idx
  BY <1>1 DEF Live, FreeSlots
<1>5. \A m, n \in DOMAIN free_stack' : free_stack'[m] = free_stack'[n] => m = n
  <2>1. SUFFICES ASSUME NEW m \in 1..(L + 1), NEW n \in 1..(L + 1), free_stack'[m] = free_stack'[n]
                 PROVE  m = n
    BY <1>2
  <2>2. CASE m \in 1..L /\ n \in 1..L
    BY <1>1, <1>2, <2>1, <2>2 DEF PoolPartition
  <2>3. CASE m = L + 1 \/ n = L + 1
    BY <1>1, <1>2, <1>4, <2>1, <2>3
  <2> QED BY <2>2, <2>3
<1>6. Live' = Live \ {idx}
  BY <1>1, <1>3 DEF Live
<1> QED BY <1>2, <1>5, <1>6

\* Sets of slots are finite and no larger than the pool.
LEMMA IdxFinite ==
  ASSUME NEW A \in SUBSET Idx
  PROVE  /\ IsFiniteSet(A) /\ Cardinality(A) \in 0..MaxOrders
         /\ Cardinality(A) = 0 <=> A = {}
<1>1. IsFiniteSet(Idx) /\ Cardinality(Idx) = MaxOrders
  BY FS_Interval, ClobAssumption DEF Idx
<1>2. IsFiniteSet(A) /\ Cardinality(A) <= MaxOrders
  BY <1>1, FS_Subset
<1> QED BY <1>2, FS_CardinalityType, FS_EmptySet, ClobAssumption

\* empty() of a level tells whether it has live orders.
LEMMA EmptyLevels ==
  ASSUME StoreInv, NEW s \in Sides, NEW p \in Prices
  PROVE  levels[s][p].order_count = 0 <=> LiveAt(s, p) = {}
<1>1. LiveAt(s, p) \in SUBSET Idx
  BY DEF LiveAt, Live
<1> QED BY <1>1, IdxFinite DEF StoreInv, LevelCounts

\* What Place is given once the early returns of add_order are behind it.
CanPlace(id, side, price, qty) ==
  /\ id \in OrderIds /\ side \in Sides /\ price \in Prices /\ qty \in Qtys /\ qty > 0
  /\ free_stack # <<>> /\ ~Contains(id)

\* The pool after add_order: one more live order, linked behind the tail of its
\* level; every other live order keeps its contents and its place.
LEMMA PlacePool ==
  ASSUME StoreInv, NEW id, NEW side, NEW price, NEW qty,
         CanPlace(id, side, price, qty), Place(id, side, price, qty)
  PROVE  /\ Top \in Idx /\ Top \notin Live
         /\ Live' = Live \cup {Top}
         /\ orders' \in [Idx -> Order]
         /\ orders'[Top].order_id = id /\ orders'[Top].side = side /\ orders'[Top].price = price
         /\ orders'[Top].qty = qty /\ orders'[Top].next_idx = NullIndex
         /\ orders'[Top].prev_idx = Last(levels[side][price])
         /\ \A i \in Live : /\ orders'[i].order_id = orders[i].order_id
                            /\ orders'[i].side = orders[i].side
                            /\ orders'[i].price = orders[i].price
                            /\ orders'[i].qty = orders[i].qty
                            /\ orders'[i].prev_idx = orders[i].prev_idx
                            /\ orders'[i].next_idx = IF i = Last(levels[side][price]) THEN Top
                                                     ELSE orders[i].next_idx
         /\ \A s \in Sides, p \in Prices :
              LiveAt(s, p)' = IF s = side /\ p = price THEN LiveAt(s, p) \cup {Top} ELSE LiveAt(s, p)
<1> DEFINE l == levels[side][price]
<1>1. /\ Top \in Idx /\ Top \notin Live /\ Live' = Live \cup {Top}
  BY LiveAfterAllocate DEF StoreInv, CanPlace, Place
<1>2. l \in Level /\ Last(l) \in Slot /\ NullIndex \notin Idx
  BY ClobAssumption DEF StoreInv, SlotsOK, CanPlace, Last, Slot, Level
<1>3. Last(l) # Top
  <2>1. CASE LiveAt(side, price) = {}
    BY <2>1, EmptyLevels, <1>1, ClobAssumption DEF CanPlace, Last, StoreInv
  <2>2. CASE LiveAt(side, price) # {}
    <3>1. l.tail_idx \in LiveAt(side, price)
      BY <2>2 DEF StoreInv, LevelsOrdered, LevelsOrderedBy, Ordered, Ends, CanPlace
    <3> QED BY <3>1, <1>1, <1>2, EmptyLevels DEF LiveAt, Live, Last, CanPlace
  <2> QED BY <2>1, <2>2
<1>4. orders' = Appended(Top, id, side, price, qty)
  BY DEF Place
<1>5. orders \in [Idx -> Order]
  BY DEF StoreInv, SlotsOK
<1>6. /\ orders'[Top] = [order_id |-> id, price |-> price, qty |-> qty, side |-> side,
                         next_idx |-> NullIndex, prev_idx |-> Last(l)]
      /\ \A i \in Idx : i # Top =>
           orders'[i] = IF i = Last(l) THEN [orders[i] EXCEPT !.next_idx = Top] ELSE orders[i]
  BY <1>1, <1>4 DEF Appended
<1>7. orders' \in [Idx -> Order]
  <2>1. orders' = [i \in Idx |-> orders'[i]]
    BY <1>4 DEF Appended
  <2>2. orders'[Top] \in Order
    <3>1. id \in OrderIds /\ price \in Prices /\ qty \in Qtys /\ side \in Sides
      BY DEF CanPlace
    <3> QED BY <3>1, <1>2, <1>6 DEF Order, Slot
  <2>3. ASSUME NEW i \in Idx, i # Top
        PROVE  orders'[i] \in Order
    <3>1. orders[i] \in Order /\ Top \in Slot
      BY <1>1, <1>5 DEF Slot
    <3>2. [orders[i] EXCEPT !.next_idx = Top] \in Order
      BY <3>1 DEF Order
    <3> QED BY <2>3, <3>1, <3>2, <1>6
  <2> QED BY <2>1, <2>2, <2>3
<1>8. Live \subseteq Idx
  BY DEF Live
<1>9. /\ orders'[Top].order_id = id /\ orders'[Top].side = side /\ orders'[Top].price = price
      /\ orders'[Top].qty = qty /\ orders'[Top].next_idx = NullIndex
      /\ orders'[Top].prev_idx = Last(l)
  BY <1>1, <1>6
<1>10. ASSUME NEW i \in Live
       PROVE  /\ orders'[i].order_id = orders[i].order_id
              /\ orders'[i].side = orders[i].side
              /\ orders'[i].price = orders[i].price
              /\ orders'[i].qty = orders[i].qty
              /\ orders'[i].prev_idx = orders[i].prev_idx
              /\ orders'[i].next_idx = IF i = Last(levels[side][price]) THEN Top
                                                     ELSE orders[i].next_idx
  <2>1. i \in Idx /\ i # Top /\ orders[i] \in Order
    BY <1>1, <1>8, <1>5
  <2> QED BY <2>1, <1>6 DEF Order
<1>11. \A s \in Sides, p \in Prices :
              LiveAt(s, p)' = IF s = side /\ p = price THEN LiveAt(s, p) \cup {Top} ELSE LiveAt(s, p)
  BY <1>1, <1>9, <1>10 DEF LiveAt
<1> QED BY <1>1, <1>7, <1>9, <1>10, <1>11

\* add_order keeps slots and index entries in step.
LEMMA PlaceIndex ==
  ASSUME StoreInv, NEW id, NEW side, NEW price, NEW qty,
         CanPlace(id, side, price, qty), Place(id, side, price, qty)
  PROVE  /\ PoolPartition' /\ LiveOrders'
         /\ free_stack' \in Seq(Idx) /\ order_lookup' \in [OrderIds -> Slot]
<1> USE DEF StoreInv
<1>1. /\ free_stack' \in Seq(Idx)
      /\ \A m, n \in DOMAIN free_stack' : free_stack'[m] = free_stack'[n] => m = n
  BY LiveAfterAllocate DEF CanPlace, Place
<1>2. /\ Top \in Idx /\ Top \notin Live /\ Live' = Live \cup {Top} /\ NullIndex \notin Idx
      /\ orders'[Top].order_id = id /\ orders'[Top].price = price /\ orders'[Top].qty = qty
      /\ \A i \in Live : orders'[i].order_id = orders[i].order_id
                         /\ orders'[i].price = orders[i].price /\ orders'[i].qty = orders[i].qty
  BY PlacePool, ClobAssumption
<1>3. /\ order_lookup' \in [OrderIds -> Slot]
      /\ \A x \in OrderIds : order_lookup'[x] = IF x = id THEN Top ELSE order_lookup[x]
  BY <1>2 DEF Place, CanPlace, SlotsOK, Slot
<1>4. ASSUME NEW x \in OrderIds, Contains(x)'
      PROVE  order_lookup'[x] \in Live' /\ orders'[order_lookup'[x]].order_id = x
  BY <1>2, <1>3, <1>4 DEF PoolPartition, Contains
<1>5. ASSUME NEW i \in Live'
      PROVE  orders'[i].order_id \in OrderIds /\ order_lookup'[orders'[i].order_id] = i
  <2>1. CASE i = Top
    BY <2>1, <1>2, <1>3 DEF CanPlace
  <2>2. CASE i \in Live
    <3>1. orders[i].order_id # id
      BY <2>2, <1>2 DEF CanPlace, Contains, PoolPartition, Live
    <3> QED BY <3>1, <2>2, <1>2, <1>3 DEF PoolPartition
  <2> QED BY <2>1, <2>2, <1>2, <1>5
<1>6. PoolPartition'
  BY <1>1, <1>4, <1>5 DEF PoolPartition
<1>7. LiveOrders'
  BY <1>2 DEF LiveOrders, CanPlace
<1> QED BY <1>1, <1>3, <1>6, <1>7

\* add_order counts the order in its level, and in no other.
LEMMA PlaceLevels ==
  ASSUME StoreInv, NEW id, NEW side, NEW price, NEW qty,
         CanPlace(id, side, price, qty), Place(id, side, price, qty)
  PROVE  /\ levels' \in [Sides -> [Prices -> Level]] /\ LevelCounts'
         /\ \A s \in Sides, p \in Prices :
              levels'[s][p] = IF s = side /\ p = price THEN LevelWith(levels[s][p], Top, qty)
                              ELSE levels[s][p]
<1> USE DEF StoreInv
<1> DEFINE A(s, p) == LiveAt(s, p)
<1>1. /\ Top \in Idx /\ Top \notin Live /\ side \in Sides /\ price \in Prices /\ qty \in Qtys
      /\ \A s \in Sides, p \in Prices :
           LiveAt(s, p)' = IF s = side /\ p = price THEN LiveAt(s, p) \cup {Top} ELSE LiveAt(s, p)
  BY PlacePool DEF CanPlace
<1>2. /\ levels \in [Sides -> [Prices -> Level]]
      /\ levels' = [levels EXCEPT ![side][price] = LevelWith(levels[side][price], Top, qty)]
  BY DEF SlotsOK, Place
<1>3. \A s \in Sides, p \in Prices :
           levels'[s][p] = IF s = side /\ p = price THEN LevelWith(levels[s][p], Top, qty)
                           ELSE levels[s][p]
  BY <1>1, <1>2
<1>4. /\ Top \notin LiveAt(side, price) /\ LiveAt(side, price) \subseteq Idx
      /\ LiveAt(side, price) \cup {Top} \subseteq Idx
  BY <1>1 DEF LiveAt, Live
<1>5. /\ Cardinality(LiveAt(side, price) \cup {Top}) = levels[side][price].order_count + 1
      /\ levels[side][price].order_count + 1 \in 0..MaxOrders
  <2>1. IsFiniteSet(LiveAt(side, price))
    BY <1>4, IdxFinite
  <2>2. Cardinality(LiveAt(side, price) \cup {Top}) = Cardinality(LiveAt(side, price)) + 1
    BY <1>4, <2>1, FS_AddElement
  <2>3. Cardinality(LiveAt(side, price) \cup {Top}) \in 0..MaxOrders
    BY <1>4, IdxFinite
  <2> QED BY <1>1, <2>2, <2>3 DEF LevelCounts
<1>6. LevelWith(levels[side][price], Top, qty) \in Level
  <2>1. levels[side][price] \in Level
    BY <1>1, <1>2
  <2>2. (levels[side][price].total_qty + qty) % QtyMod \in Qtys
    BY <1>1, <2>1, ClobAssumption DEF Level, Qtys
  <2> QED BY <1>1, <1>5, <2>1, <2>2 DEF LevelWith, Level, Slot
<1>7. levels' \in [Sides -> [Prices -> Level]]
  BY <1>1, <1>2, <1>6
<1>8. LevelWith(levels[side][price], Top, qty).order_count = levels[side][price].order_count + 1
  BY DEF LevelWith
<1>9. LevelCounts'
  <2>1. ASSUME NEW s \in Sides, NEW p \in Prices
        PROVE  levels'[s][p].order_count = Cardinality(LiveAt(s, p)')
    <3>1. CASE s = side /\ p = price
      BY <3>1, <1>1, <1>3, <1>5, <1>8
    <3>2. CASE ~(s = side /\ p = price)
      BY <3>2, <1>1, <1>3 DEF LevelCounts
    <3> QED BY <3>1, <3>2
  <2> QED BY <2>1 DEF LevelCounts
<1> QED BY <1>3, <1>7, <1>9

\* Ranks may as well be any natural numbers.
OrderedByNaturals == \E rank \in [Idx -> Nat] : LevelsOrderedBy(rank)

\* Counting the live slots of lower rank gives ranks that are slot numbers.
LEMMA Recounted ==
  ASSUME NEW rank \in [Idx -> Nat], NEW A \in SUBSET Idx,
         \A i, j \in A : rank[i] = rank[j] => i = j
  PROVE  \E low \in [Idx -> Idx] : \A i, j \in A : low[i] <= low[j] <=> rank[i] <= rank[j]
<1> DEFINE Below(i) == {j \in A : rank[j] < rank[i]}
           low == [i \in Idx |-> IF i \in A THEN Cardinality(Below(i)) ELSE 0]
<1>1. \A i \in A : /\ IsFiniteSet(Below(i)) /\ Cardinality(Below(i)) \in Nat
                   /\ Cardinality(Below(i)) < MaxOrders
  <2> SUFFICES ASSUME NEW i \in A
               PROVE  /\ IsFiniteSet(Below(i)) /\ Cardinality(Below(i)) \in Nat
                      /\ Cardinality(Below(i)) < MaxOrders
    OBVIOUS
  <2>1. Below(i) \in SUBSET Idx /\ A \in SUBSET Idx /\ Below(i) \subseteq A /\ i \in A \ Below(i)
    OBVIOUS
  <2> HIDE DEF Below
  <2>2. IsFiniteSet(Below(i)) /\ IsFiniteSet(A) /\ Cardinality(A) <= MaxOrders
        /\ Cardinality(A) \in Nat /\ Cardinality(Below(i)) \in Nat
    BY <2>1, IdxFinite
  <2>3. Cardinality(Below(i)) < Cardinality(A)
    BY <2>1, <2>2, FS_Subset
  <2> QED BY <2>2, <2>3, ClobAssumption
<1>2. low \in [Idx -> Idx]
  <2>1. \A i \in A : Cardinality(Below(i)) \in Idx
    <3> HIDE DEF Below
    <3> QED BY <1>1, ClobAssumption DEF Idx
  <2>2. 0 \in Idx
    BY ClobAssumption DEF Idx
  <2> HIDE DEF Below
  <2> QED BY <2>1, <2>2
<1>3. ASSUME NEW i \in A, NEW j \in A, rank[i] <= rank[j]
      PROVE  Cardinality(Below(i)) <= Cardinality(Below(j))
  <2>1. Below(i) \subseteq Below(j)
    BY <1>3
  <2> HIDE DEF Below
  <2> QED BY <1>1, <2>1, FS_Subset
<1>4. ASSUME NEW i \in A, NEW j \in A, ~(rank[i] <= rank[j])
      PROVE  Cardinality(Below(j)) < Cardinality(Below(i))
  <2>1. Below(j) \subseteq Below(i) /\ j \in Below(i) /\ j \notin Below(j)
    BY <1>4
  <2> HIDE DEF Below
  <2> QED BY <1>1, <2>1, FS_Subset
<1>5. \A i, j \in A : low[i] <= low[j] <=> rank[i] <= rank[j]
  <2> SUFFICES ASSUME NEW i \in A, NEW j \in A PROVE low[i] <= low[j] <=> rank[i] <= rank[j]
    OBVIOUS
  <2>1. low[i] = Cardinality(Below(i)) /\ low[j] = Cardinality(Below(j))
    OBVIOUS
  <2> HIDE DEF Below, low
  <2> QED BY <1>1, <1>3, <1>4, <2>1
<1> QED BY <1>2, <1>5

\* Follows and Precedes only compare ranks.
LEMMA SameComparisons ==
  ASSUME NEW rank, NEW low, NEW A, NEW i \in A, NEW k,
         \A x, y \in A : /\ low[x] <= low[y] <=> rank[x] <= rank[y]
                         /\ low[x] < low[y] <=> rank[x] < rank[y]
  PROVE  /\ Follows(rank, A, i, k) => Follows(low, A, i, k)
         /\ Precedes(rank, A, i, k) => Precedes(low, A, i, k)
BY DEF Follows, Precedes

\* Order by numbers of any size is order by numbers below MaxOrders.
LEMMA Reranked == OrderedByNaturals => LevelsOrdered
<1> SUFFICES ASSUME NEW rank \in [Idx -> Nat], LevelsOrderedBy(rank)
             PROVE  LevelsOrdered
  BY DEF OrderedByNaturals
<1>1. Live \in SUBSET Idx /\ \A i, j \in Live : rank[i] = rank[j] => i = j
  BY DEF Live, LevelsOrderedBy, Ranked
<1>2. PICK low \in [Idx -> Idx] : \A i, j \in Live : low[i] <= low[j] <=> rank[i] <= rank[j]
  BY <1>1, Recounted
<1>3. \A i, j \in Live : /\ low[i] < low[j] <=> rank[i] < rank[j]
                         /\ low[i] = low[j] => i = j
  <2>1. \A i \in Live : low[i] \in Nat /\ rank[i] \in Nat
    BY <1>1, <1>2, ClobAssumption DEF Idx
  <2> QED BY <1>1, <1>2, <2>1
<1>4. ASSUME NEW s \in Sides, NEW p \in Prices
      PROVE  Ordered(low, LiveAt(s, p), levels[s][p])
  <2>1. LiveAt(s, p) \subseteq Live /\ Ordered(rank, LiveAt(s, p), levels[s][p])
    BY DEF LiveAt, LevelsOrderedBy
  <2>2. Ends(low, LiveAt(s, p), levels[s][p])
    BY <1>2, <2>1 DEF Ordered, Ends
  <2>3. ASSUME NEW i \in LiveAt(s, p)
        PROVE  /\ Follows(low, LiveAt(s, p), i, orders[i].next_idx)
               /\ Precedes(low, LiveAt(s, p), i, orders[i].prev_idx)
    <3>1. Follows(rank, LiveAt(s, p), i, orders[i].next_idx) /\ Precedes(rank, LiveAt(s, p), i, orders[i].prev_idx)
      BY <2>1 DEF Ordered
    <3>2. \A x, y \in LiveAt(s, p) : /\ low[x] <= low[y] <=> rank[x] <= rank[y]
                                     /\ low[x] < low[y] <=> rank[x] < rank[y]
      BY <1>2, <1>3, <2>1
    <3> QED BY <3>1, <3>2, SameComparisons
  <2> QED BY <2>2, <2>3 DEF Ordered
<1>5. LevelsOrderedBy(low)
  <2>1. Ranked(low)
    BY <1>3 DEF Ranked
  <2> QED BY <1>4, <2>1 DEF LevelsOrderedBy
<1> QED BY <1>5 DEF LevelsOrdered

\* The same after a step.
LEMMA RerankedNext == OrderedByNaturals' => LevelsOrdered'
BY Reranked, PTL

\* append_to_level puts the order last in its level: it gets a rank above all
\* others, and every link is again to the neighbour in rank.
LEMMA PlaceOrder ==
  ASSUME StoreInv, NEW id, NEW side, NEW price, NEW qty,
         CanPlace(id, side, price, qty), Place(id, side, price, qty)
  PROVE  LevelsOrdered'
<1>1. PICK rank \in [Idx -> Idx] :
        /\ Ranked(rank)
        /\ \A s \in Sides, p \in Prices : Ordered(rank, LiveAt(s, p), levels[s][p])
  BY DEF StoreInv, LevelsOrdered, LevelsOrderedBy
<1>0. PICK new : new = [rank EXCEPT ![Top] = MaxOrders]
  OBVIOUS
<1> DEFINE last == Last(levels[side][price])
<1>2. /\ Top \in Idx /\ Top \notin Live /\ Live' = Live \cup {Top} /\ NullIndex \notin Idx
      /\ side \in Sides /\ price \in Prices
      /\ orders'[Top].next_idx = NullIndex /\ orders'[Top].prev_idx = last
      /\ \A i \in Live : /\ orders'[i].prev_idx = orders[i].prev_idx
                         /\ orders'[i].next_idx = IF i = last THEN Top ELSE orders[i].next_idx
      /\ \A s \in Sides, p \in Prices :
           LiveAt(s, p)' = IF s = side /\ p = price THEN LiveAt(s, p) \cup {Top} ELSE LiveAt(s, p)
  BY PlacePool, ClobAssumption DEF CanPlace
<1>3. /\ new \in [Idx -> Nat] /\ new[Top] = MaxOrders
      /\ \A i \in Live : new[i] = rank[i] /\ rank[i] < MaxOrders
      /\ \A i \in Live : rank[i] \in Nat
  <2>1. Top \in Idx /\ Top \notin Live /\ Live \subseteq Idx
    BY <1>2 DEF Live
  <2>2. MaxOrders \in Nat /\ \A i \in Idx : rank[i] \in Nat /\ rank[i] < MaxOrders
    BY ONLY rank \in [Idx -> Idx], ClobAssumption DEF Idx
  <2> QED BY ONLY <1>0, <2>1, <2>2, rank \in [Idx -> Idx]
<1>4. Ranked(new)'
  BY <1>1, <1>2, <1>3 DEF Ranked
<1>5. \A s \in Sides, p \in Prices :
        levels'[s][p] = IF s = side /\ p = price THEN LevelWith(levels[s][p], Top, qty)
                        ELSE levels[s][p]
  BY PlaceLevels
<1>6. last = NullIndex \/ last \in LiveAt(side, price)
  BY <1>1, <1>2, EmptyLevels DEF Last, Ordered, Ends
<1>7. ASSUME NEW s \in Sides, NEW p \in Prices
      PROVE  Ordered(new, LiveAt(s, p), levels[s][p])'
  <2> DEFINE A == LiveAt(s, p)
             l == levels[s][p]
  <2>1. A \subseteq Live /\ Ordered(rank, A, l)
    BY <1>1 DEF LiveAt
  <2>2. CASE ~(s = side /\ p = price)
    <3>1. LiveAt(s, p)' = A /\ levels'[s][p] = l
      BY <1>2, <1>5, <2>2
    <3>2. last \notin A
      BY <1>6, <2>2, <1>2, <2>1 DEF LiveAt, Live
    <3>3. \A i \in A : /\ orders'[i].prev_idx = orders[i].prev_idx
                       /\ orders'[i].next_idx = orders[i].next_idx
                       /\ new[i] = rank[i]
      BY <3>2, <2>1, <1>2, <1>3
    <3>4. Ends(new, A, l)
      BY <3>3, <2>1 DEF Ordered, Ends
    <3>5. ASSUME NEW i \in A
          PROVE  /\ Follows(new, A, i, orders'[i].next_idx)
                 /\ Precedes(new, A, i, orders'[i].prev_idx)
      BY <3>3, <2>1 DEF Ordered, Follows, Precedes
    <3> HIDE DEF A
    <3> QED BY <3>1, <3>4, <3>5 DEF Ordered
  <2>3. CASE s = side /\ p = price
    <3> DEFINE B == A \cup {Top}
               m == LevelWith(l, Top, qty)
    <3>1. LiveAt(s, p)' = B /\ levels'[s][p] = m
      BY <1>2, <1>5, <2>3
    <3>2. m.tail_idx = Top /\ m.head_idx = IF A = {} THEN Top ELSE l.head_idx
      BY EmptyLevels DEF LevelWith
    <3>3. last = IF A = {} THEN NullIndex ELSE l.tail_idx
      BY EmptyLevels, <2>3 DEF Last
    <3>4. Ends(new, B, m)
      BY <3>2, <2>1, <1>2, <1>3 DEF Ordered, Ends
    <3>5. Follows(new, B, Top, orders'[Top].next_idx)
      BY <1>2, <1>3, <2>1 DEF Follows
    <3>6. Precedes(new, B, Top, orders'[Top].prev_idx)
      BY <3>3, <1>2, <1>3, <2>1 DEF Precedes, Ordered, Ends
    <3>7. ASSUME NEW i \in A
          PROVE  Precedes(new, B, i, orders'[i].prev_idx)
      BY <1>2, <1>3, <2>1 DEF Precedes, Ordered
    <3>8. ASSUME NEW i \in A
          PROVE  Follows(new, B, i, orders'[i].next_idx)
      <4>1. last = l.tail_idx /\ last \in A /\ \A j \in A : rank[j] <= rank[last]
        BY <3>3, <2>1 DEF Ordered, Ends
      <4>2. CASE i = last
        BY <4>1, <4>2, <1>2, <1>3, <2>1 DEF Follows
      <4>3. CASE i # last
        <5>1. rank[i] # rank[last] /\ rank[i] <= rank[last]
          BY <4>1, <4>3, <1>1, <2>1 DEF Ranked
        <5>2. orders[i].next_idx # NullIndex
          BY <5>1, <4>1, <1>2, <1>3, <2>1 DEF Follows, Ordered, Live
        <5> QED BY <5>2, <4>3, <1>2, <1>3, <2>1 DEF Follows, Ordered
      <4> QED BY <4>2, <4>3
    <3> HIDE DEF A, m
    <3> QED BY <3>1, <3>4, <3>5, <3>6, <3>7, <3>8 DEF Ordered
  <2> QED BY <2>2, <2>3
<1> QED BY <1>3, <1>4, <1>7, RerankedNext DEF OrderedByNaturals, LevelsOrderedBy

\* update_best_after_add keeps the best price extreme.
LEMMA PlaceBest ==
  ASSUME StoreInv, BestIsExtreme, NEW id, NEW side, NEW price, NEW qty,
         CanPlace(id, side, price, qty), Place(id, side, price, qty)
  PROVE  BestIsExtreme' /\ best' \in [Sides -> Prices \cup {NoPrice}]
<1>1. /\ side \in Sides /\ price \in Prices /\ Prices \subseteq Int /\ NoPrice \notin Int
      /\ best \in [Sides -> Prices \cup {NoPrice}]
  BY ClobAssumption DEF CanPlace, Prices, StoreInv, SlotsOK
<1>2. /\ best' \in [Sides -> Prices \cup {NoPrice}]
      /\ \A s \in Sides : best'[s] = IF s = side THEN BestAfterAdd(side, price) ELSE best[s]
  BY <1>1 DEF Place, BestAfterAdd
<1>3. \A s \in Sides : NonEmpty(s)' = IF s = side THEN NonEmpty(s) \cup {price} ELSE NonEmpty(s)
  <2>1. \A s \in Sides, p \in Prices : levels[s][p].order_count \in Nat
    BY DEF StoreInv, SlotsOK, Level
  <2>2. ASSUME NEW s \in Sides, NEW p \in Prices
        PROVE  levels'[s][p].order_count =
                 IF s = side /\ p = price THEN levels[s][p].order_count + 1 ELSE levels[s][p].order_count
    <3>1. LevelWith(levels[s][p], Top, qty).order_count = levels[s][p].order_count + 1
      BY DEF LevelWith
    <3>2. levels'[s][p] = IF s = side /\ p = price THEN LevelWith(levels[s][p], Top, qty)
                          ELSE levels[s][p]
      BY PlaceLevels
    <3> QED BY <3>1, <3>2
  <2>3. ASSUME NEW s \in Sides
        PROVE  NonEmpty(s)' = IF s = side THEN NonEmpty(s) \cup {price} ELSE NonEmpty(s)
    <3>1. \A p \in Prices : levels'[s][p].order_count > 0 <=>
                             levels[s][p].order_count > 0 \/ (s = side /\ p = price)
      BY <2>1, <2>2
    <3> QED BY <1>1, <3>1 DEF NonEmpty
  <2> QED BY <2>3
<1>4. ASSUME NEW s \in Sides
      PROVE  IF NonEmpty(s)' = {} THEN best'[s] = NoPrice
             ELSE best'[s] \in NonEmpty(s)' /\ \A p \in NonEmpty(s)' : ~Improves(s, p, best'[s])
  <2>1. NonEmpty(s) \subseteq Int
    BY <1>1 DEF NonEmpty
  <2>2. CASE s # side
    BY <2>2, <1>2, <1>3 DEF BestIsExtreme
  <2>3. CASE s = side
    BY <2>1, <2>3, <1>1, <1>2, <1>3 DEF BestIsExtreme, BestAfterAdd, Improves
  <2> QED BY <2>2, <2>3
<1>5. BestIsExtreme'
  BY <1>4 DEF BestIsExtreme, Improves
<1> QED BY <1>2, <1>5

\* The pool after remove_order_by_index: the neighbours of the order are linked
\* to each other, and every other live order keeps its contents and its place.
LEMMA RemovePool ==
  ASSUME StoreInv, NEW idx \in Live, RemoveOrder(idx)
  PROVE  /\ Live' = Live \ {idx} /\ idx \in Idx
         /\ orders' \in [Idx -> Order]
         /\ free_stack' # <<>>
         /\ \A i \in Live \ {idx} :
              /\ orders'[i].order_id = orders[i].order_id
              /\ orders'[i].side = orders[i].side
              /\ orders'[i].price = orders[i].price
              /\ orders'[i].qty = orders[i].qty
              /\ orders'[i].next_idx = IF i = orders[idx].prev_idx THEN orders[idx].next_idx
                                       ELSE orders[i].next_idx
              /\ orders'[i].prev_idx = IF i = orders[idx].next_idx THEN orders[idx].prev_idx
                                       ELSE orders[i].prev_idx
         /\ \A s \in Sides, p \in Prices : LiveAt(s, p)' = LiveAt(s, p) \ {idx}
<1>1. Live' = Live \ {idx} /\ free_stack' # <<>> /\ idx \in Idx
  BY LiveAfterRelease DEF StoreInv, RemoveOrder, Live
<1>2. orders \in [Idx -> Order] /\ orders' = Unlinked(idx) /\ NullIndex \notin Idx
  BY ClobAssumption DEF StoreInv, SlotsOK, RemoveOrder
<1>3. ASSUME NEW i \in Idx
      PROVE  orders'[i] \in Order
  BY <1>1, <1>2 DEF Unlinked, Order, Slot
<1>4. orders' \in [Idx -> Order]
  <2>1. orders' = [i \in Idx |-> orders'[i]]
    BY <1>2 DEF Unlinked
  <2> QED BY <1>3, <2>1
<1>5. PICK rank \in [Idx -> Idx] : \A s \in Sides, p \in Prices : Ordered(rank, LiveAt(s, p), levels[s][p])
  BY DEF StoreInv, LevelsOrdered, LevelsOrderedBy
<1>6. orders[idx].prev_idx = orders[idx].next_idx => orders[idx].prev_idx = NullIndex
  <2>1. orders[idx].side \in Sides /\ orders[idx].price \in Prices
    BY <1>1, <1>2 DEF Order, StoreInv, LiveOrders
  <2>2. /\ idx \in LiveAt(orders[idx].side, orders[idx].price)
        /\ LiveAt(orders[idx].side, orders[idx].price) \subseteq Idx
    BY <1>1 DEF LiveAt, Live
  <2>3. /\ Follows(rank, LiveAt(orders[idx].side, orders[idx].price), idx, orders[idx].next_idx)
        /\ Precedes(rank, LiveAt(orders[idx].side, orders[idx].price), idx, orders[idx].prev_idx)
    BY <1>5, <2>1, <2>2 DEF Ordered
  <2>4. \A i \in Idx : rank[i] \in Nat
    BY ClobAssumption DEF Idx
  <2> QED BY <2>2, <2>3, <2>4, <1>1 DEF Follows, Precedes
<1>7. ASSUME NEW i \in Live \ {idx}
      PROVE  /\ orders'[i].order_id = orders[i].order_id
             /\ orders'[i].side = orders[i].side
             /\ orders'[i].price = orders[i].price
             /\ orders'[i].qty = orders[i].qty
             /\ orders'[i].next_idx = IF i = orders[idx].prev_idx THEN orders[idx].next_idx
                                       ELSE orders[i].next_idx
             /\ orders'[i].prev_idx = IF i = orders[idx].next_idx THEN orders[idx].prev_idx
                                       ELSE orders[i].prev_idx
  <2>1. i \in Idx /\ i # idx /\ i # NullIndex /\ orders[i] \in Order
    BY <1>2 DEF Live
  <2>2. orders'[i] = IF i = orders[idx].prev_idx THEN [orders[i] EXCEPT !.next_idx = orders[idx].next_idx]
                     ELSE IF i = orders[idx].next_idx THEN [orders[i] EXCEPT !.prev_idx = orders[idx].prev_idx]
                     ELSE orders[i]
    BY <1>2, <2>1 DEF Unlinked
  <2> QED BY <1>6, <2>1, <2>2 DEF Order
<1>8. \A s \in Sides, p \in Prices : LiveAt(s, p)' = LiveAt(s, p) \ {idx}
  BY <1>1, <1>7 DEF LiveAt
<1> QED BY <1>1, <1>4, <1>7, <1>8

\* remove_order_by_index keeps slots and index entries in step.
LEMMA RemoveIndex ==
  ASSUME StoreInv, NEW idx \in Live, RemoveOrder(idx)
  PROVE  /\ PoolPartition' /\ LiveOrders'
         /\ free_stack' \in Seq(Idx) /\ order_lookup' \in [OrderIds -> Slot]
         /\ \A x \in OrderIds : Contains(x)' => Contains(x)
<1> USE DEF StoreInv
<1>1. /\ free_stack' \in Seq(Idx)
      /\ \A m, n \in DOMAIN free_stack' : free_stack'[m] = free_stack'[n] => m = n
  BY LiveAfterRelease DEF RemoveOrder
<1>2. /\ Live' = Live \ {idx} /\ NullIndex \notin Idx /\ Live \subseteq Idx
      /\ \A i \in Live \ {idx} : /\ orders'[i].order_id = orders[i].order_id
                                 /\ orders'[i].price = orders[i].price
                                 /\ orders'[i].qty = orders[i].qty
  BY RemovePool, ClobAssumption DEF Live
<1>3. orders[idx].order_id \in OrderIds /\ order_lookup[orders[idx].order_id] = idx
  BY DEF PoolPartition
<1>4. /\ order_lookup' \in [OrderIds -> Slot]
      /\ \A x \in OrderIds :
           order_lookup'[x] = IF x = orders[idx].order_id THEN NullIndex ELSE order_lookup[x]
  BY <1>3 DEF RemoveOrder, Erased, SlotsOK, Slot
<1>5. ASSUME NEW x \in OrderIds, Contains(x)'
      PROVE  /\ order_lookup'[x] \in Live' /\ orders'[order_lookup'[x]].order_id = x
             /\ Contains(x)
  BY <1>2, <1>3, <1>4, <1>5 DEF PoolPartition, Contains
<1>6. ASSUME NEW i \in Live'
      PROVE  orders'[i].order_id \in OrderIds /\ order_lookup'[orders'[i].order_id] = i
  BY <1>2, <1>3, <1>4, <1>6 DEF PoolPartition
<1>7. PoolPartition'
  BY <1>1, <1>5, <1>6 DEF PoolPartition
<1>8. LiveOrders'
  BY <1>2 DEF LiveOrders
<1> QED BY <1>1, <1>4, <1>5, <1>7, <1>8

\* remove_order_by_index uncounts the order in its level, and in no other.
LEMMA RemoveLevels ==
  ASSUME StoreInv, NEW idx \in Live, RemoveOrder(idx)
  PROVE  /\ levels' \in [Sides -> [Prices -> Level]] /\ LevelCounts'
         /\ orders[idx].side \in Sides /\ orders[idx].price \in Prices
         /\ idx \in LiveAt(orders[idx].side, orders[idx].price)
         /\ \A s \in Sides, p \in Prices :
              levels'[s][p] = IF s = orders[idx].side /\ p = orders[idx].price
                              THEN LevelWithout(levels[s][p], orders[idx]) ELSE levels[s][p]
<1> USE DEF StoreInv
<1> DEFINE o == orders[idx]
           A == LiveAt(o.side, o.price)
           l == levels[o.side][o.price]
<1>1. /\ o \in Order /\ o.side \in Sides /\ o.price \in Prices /\ o.qty \in Qtys
      /\ o.next_idx \in Slot /\ o.prev_idx \in Slot /\ idx \in Idx
  BY DEF SlotsOK, LiveOrders, Live, Order
<1>2. idx \in A /\ A \subseteq Idx
  BY DEF LiveAt, Live
<1>3. \A s \in Sides, p \in Prices : LiveAt(s, p)' = LiveAt(s, p) \ {idx}
  BY RemovePool
<1>4. /\ levels \in [Sides -> [Prices -> Level]]
      /\ levels' = [levels EXCEPT ![o.side][o.price] = LevelWithout(l, o)]
  BY DEF SlotsOK, RemoveOrder
<1>5. \A s \in Sides, p \in Prices :
        levels'[s][p] = IF s = o.side /\ p = o.price THEN LevelWithout(levels[s][p], o)
                        ELSE levels[s][p]
  BY <1>1, <1>4
<1>6. /\ Cardinality(A \ {idx}) = l.order_count - 1
      /\ l.order_count - 1 \in 0..MaxOrders
  <2>1. IsFiniteSet(A)
    BY <1>2, IdxFinite
  <2>2. Cardinality(A \ {idx}) = Cardinality(A) - 1
    BY <1>2, <2>1, FS_RemoveElement
  <2>3. Cardinality(A \ {idx}) \in 0..MaxOrders
    BY <1>2, IdxFinite
  <2> QED BY <1>1, <2>2, <2>3 DEF LevelCounts
<1>7. LevelWithout(l, o) \in Level
  <2>1. l \in Level
    BY <1>1, <1>4
  <2>2. Less(l.total_qty, o.qty) \in Qtys
    BY <1>1, <2>1, ClobAssumption DEF Level, Qtys, Less
  <2> QED BY <1>1, <1>6, <2>1, <2>2 DEF LevelWithout, Level, Slot
<1>8. levels' \in [Sides -> [Prices -> Level]]
  BY <1>1, <1>4, <1>7
<1>9. LevelCounts'
  <2> SUFFICES ASSUME NEW s \in Sides, NEW p \in Prices
               PROVE  levels'[s][p].order_count = Cardinality(LiveAt(s, p)')
    BY DEF LevelCounts
  <2>1. CASE s = o.side /\ p = o.price
    <3>1. LevelWithout(l, o).order_count = l.order_count - 1
      BY DEF LevelWithout
    <3>2. LiveAt(s, p)' = A \ {idx} /\ levels'[s][p] = LevelWithout(l, o)
      BY <2>1, <1>3, <1>5
    <3> QED BY <3>1, <3>2, <1>6
  <2>2. CASE ~(s = o.side /\ p = o.price)
    <3>1. idx \notin LiveAt(s, p)
      BY <2>2 DEF LiveAt
    <3>2. LiveAt(s, p)' = LiveAt(s, p)
      BY <3>1, <1>3
    <3> QED BY <3>2, <2>2, <1>5 DEF LevelCounts
  <2> QED BY <2>1, <2>2
<1> QED BY <1>1, <1>2, <1>5, <1>8, <1>9

\* Without k, its predecessor i is followed by k's successor, and the other way
\* round.
LEMMA SkipNext ==
  ASSUME NEW rank, NEW A, \A j \in A : rank[j] \in Nat,
         \A j, k \in A : rank[j] = rank[k] => j = k,
         NEW i \in A, NEW k \in A, NEW nxt, NullIndex \notin A,
         Follows(rank, A, i, k), Follows(rank, A, k, nxt)
  PROVE  Follows(rank, A \ {k}, i, nxt)
<1>1. rank[i] < rank[k] /\ \A j \in A : rank[j] <= rank[i] \/ rank[k] <= rank[j]
  BY DEF Follows
<1>2. CASE nxt = NullIndex /\ \A j \in A : rank[j] <= rank[k]
  BY <1>1, <1>2 DEF Follows
<1>3. CASE nxt \in A /\ rank[k] < rank[nxt]
           /\ \A j \in A : rank[j] <= rank[k] \/ rank[nxt] <= rank[j]
  BY <1>1, <1>3 DEF Follows
<1> QED BY <1>2, <1>3 DEF Follows

\* Likewise backwards: when k is taken out, what preceded k comes next before i.
LEMMA SkipPrevious ==
  ASSUME NEW rank, NEW A, \A j \in A : rank[j] \in Nat,
         \A j, k \in A : rank[j] = rank[k] => j = k,
         NEW i \in A, NEW k \in A, NEW prv, NullIndex \notin A,
         Precedes(rank, A, i, k), Precedes(rank, A, k, prv)
  PROVE  Precedes(rank, A \ {k}, i, prv)
<1>1. rank[k] < rank[i] /\ \A j \in A : rank[i] <= rank[j] \/ rank[j] <= rank[k]
  BY DEF Precedes
<1>2. CASE prv = NullIndex /\ \A j \in A : rank[k] <= rank[j]
  BY <1>1, <1>2 DEF Precedes
<1>3. CASE prv \in A /\ rank[prv] < rank[k]
           /\ \A j \in A : rank[k] <= rank[j] \/ rank[j] <= rank[prv]
  BY <1>1, <1>3 DEF Precedes
<1> QED BY <1>2, <1>3 DEF Precedes

\* k follows i exactly when i precedes k.
LEMMA Neighbours ==
  ASSUME NEW rank, NEW A, NullIndex \notin A, \A j \in A : rank[j] \in Nat,
         \A j, k \in A : rank[j] = rank[k] => j = k,
         NEW i \in A, NEW k \in A, NEW nxt, NEW prv,
         Follows(rank, A, i, nxt), Precedes(rank, A, k, prv)
  PROVE  nxt = k <=> prv = i
<1>1. ASSUME nxt = k PROVE prv = i
  <2>1. rank[i] < rank[k] /\ rank[i] \in Nat /\ rank[k] \in Nat
    BY <1>1 DEF Follows
  <2>2. prv \in A /\ rank[prv] \in Nat /\ rank[prv] < rank[k] /\ rank[i] <= rank[prv]
    BY <2>1 DEF Precedes
  <2>3. rank[prv] <= rank[i]
    BY <1>1, <2>1, <2>2 DEF Follows
  <2> QED BY <2>1, <2>2, <2>3
<1>2. ASSUME prv = i PROVE nxt = k
  <2>1. rank[i] < rank[k] /\ rank[i] \in Nat /\ rank[k] \in Nat
    BY <1>2 DEF Precedes
  <2>2. nxt \in A /\ rank[nxt] \in Nat /\ rank[i] < rank[nxt] /\ rank[nxt] <= rank[k]
    BY <2>1 DEF Follows
  <2>3. rank[k] <= rank[nxt]
    BY <1>2, <2>1, <2>2 DEF Precedes
  <2> QED BY <2>1, <2>2, <2>3
<1> QED BY <1>1, <1>2

\* unlink_from_level leaves a queue, whether the order was first, last, in the
\* middle or alone: the same ranks order what is left.
LEMMA RemoveChain ==
  ASSUME StoreInv, NEW idx \in Live, RemoveOrder(idx)
  PROVE  LevelsOrdered'
<1>1. PICK rank \in [Idx -> Idx] :
        /\ Ranked(rank)
        /\ \A s \in Sides, p \in Prices : Ordered(rank, LiveAt(s, p), levels[s][p])
  BY DEF StoreInv, LevelsOrdered, LevelsOrderedBy
<1> DEFINE side  == orders[idx].side
           price == orders[idx].price
           nxt   == orders[idx].next_idx
           prv   == orders[idx].prev_idx
<1>2. /\ Live' = Live \ {idx} /\ Live \subseteq Idx /\ NullIndex \notin Idx
      /\ \A i \in Live \ {idx} :
           /\ orders'[i].next_idx = IF i = prv THEN nxt ELSE orders[i].next_idx
           /\ orders'[i].prev_idx = IF i = nxt THEN prv ELSE orders[i].prev_idx
      /\ \A s \in Sides, p \in Prices : LiveAt(s, p)' = LiveAt(s, p) \ {idx}
  BY RemovePool, ClobAssumption DEF Live
<1>3. /\ side \in Sides /\ price \in Prices /\ idx \in LiveAt(side, price)
      /\ \A s \in Sides, p \in Prices :
              levels'[s][p] = IF s = side /\ p = price
                              THEN LevelWithout(levels[s][p], orders[idx]) ELSE levels[s][p]
  BY RemoveLevels
<1>4. \A i \in Live : rank[i] \in Nat
  BY <1>1, <1>2, ClobAssumption DEF Idx
<1>5. Ranked(rank)'
  BY <1>1, <1>2 DEF Ranked
<1>6. /\ Follows(rank, LiveAt(side, price), idx, nxt)
      /\ Precedes(rank, LiveAt(side, price), idx, prv)
  BY <1>1, <1>3 DEF Ordered
<1>7. ASSUME NEW s \in Sides, NEW p \in Prices
      PROVE  Ordered(rank, LiveAt(s, p), levels[s][p])'
  <2> DEFINE A == LiveAt(s, p)
             l == levels[s][p]
  <2>1. A \subseteq Live /\ Ordered(rank, A, l)
    BY <1>1 DEF LiveAt
  <2>2. CASE ~(s = side /\ p = price)
    <3>1. idx \notin A
      BY <2>2 DEF LiveAt
    <3>2. LiveAt(s, p)' = A /\ levels'[s][p] = l
      <4>1. LiveAt(s, p)' = A \ {idx} /\ A \ {idx} = A
        BY <1>2, <3>1
      <4> QED BY <4>1, <1>3, <2>2
    <3>3. A \cap LiveAt(side, price) = {}
      BY <2>2 DEF LiveAt
    <3>4. \A i \in A : /\ orders'[i].prev_idx = orders[i].prev_idx
                       /\ orders'[i].next_idx = orders[i].next_idx
      BY <3>1, <3>3, <2>1, <1>2, <1>6 DEF Follows, Precedes
    <3>5. ASSUME NEW i \in A
          PROVE  /\ Follows(rank, A, i, orders'[i].next_idx)
                 /\ Precedes(rank, A, i, orders'[i].prev_idx)
      BY <3>4, <2>1 DEF Ordered
    <3>6. Ends(rank, A, l)
      BY <2>1 DEF Ordered
    <3> HIDE DEF A
    <3> QED BY <3>2, <3>5, <3>6 DEF Ordered
  <2>3. CASE s = side /\ p = price
    <3> DEFINE B == A \ {idx}
               m == LevelWithout(l, orders[idx])
    <3>1. LiveAt(s, p)' = B /\ levels'[s][p] = m /\ idx \in A
      BY <1>2, <1>3, <2>3
    <3>2. /\ m.head_idx = IF prv = NullIndex THEN nxt ELSE l.head_idx
          /\ m.tail_idx = IF nxt = NullIndex THEN prv ELSE l.tail_idx
      BY DEF LevelWithout
    <3>3. \A i, j \in A : rank[i] = rank[j] => i = j
      BY <1>1, <2>1 DEF Ranked
    <3>4. Follows(rank, A, idx, nxt) /\ Precedes(rank, A, idx, prv)
      BY <1>6, <2>3
    <3>5. Ends(rank, B, m)
      <4>1. Ends(rank, A, l) /\ A \subseteq Idx /\ A \subseteq Live
        BY <2>1, <1>2 DEF Ordered
      <4>2. prv = NullIndex <=> l.head_idx = idx
        BY <3>1, <3>3, <3>4, <4>1, <1>2, <1>4 DEF Ends, Precedes
      <4>3. nxt = NullIndex <=> l.tail_idx = idx
        BY <3>1, <3>3, <3>4, <4>1, <1>2, <1>4 DEF Ends, Follows
      <4>4. CASE prv = NullIndex /\ nxt = NullIndex
        <5>1. B = {}
          BY <4>4, <3>1, <3>3, <3>4, <4>1, <1>2, <1>4 DEF Follows, Precedes
        <5> QED BY <5>1, <3>2, <4>4 DEF Ends
      <4>5. CASE prv = NullIndex /\ nxt # NullIndex
        <5>1. nxt \in B /\ \A j \in B : rank[nxt] <= rank[j]
          BY <4>5, <4>1, <3>1, <3>3, <3>4, <1>2, <1>4 DEF Follows, Precedes
        <5>2. l.tail_idx \in B /\ \A j \in B : rank[j] <= rank[l.tail_idx]
          BY <4>5, <4>1, <4>3, <3>1, <1>4 DEF Ends
        <5> QED BY <4>5, <5>1, <5>2, <3>2 DEF Ends
      <4>6. CASE prv # NullIndex /\ nxt = NullIndex
        <5>1. prv \in B /\ \A j \in B : rank[j] <= rank[prv]
          BY <4>6, <4>1, <3>1, <3>3, <3>4, <1>2, <1>4 DEF Follows, Precedes
        <5>2. l.head_idx \in B /\ \A j \in B : rank[l.head_idx] <= rank[j]
          BY <4>6, <4>1, <4>2, <3>1, <1>4 DEF Ends
        <5> QED BY <4>6, <5>1, <5>2, <3>2 DEF Ends
      <4>7. CASE prv # NullIndex /\ nxt # NullIndex
        BY <4>7, <4>1, <4>2, <4>3, <3>1, <3>2, <3>4, <1>2, <1>4 DEF Ends, Follows, Precedes
      <4> QED BY <4>4, <4>5, <4>6, <4>7
    <3>6. ASSUME NEW i \in B
          PROVE  Follows(rank, B, i, orders'[i].next_idx)
      <4>1. Follows(rank, A, i, orders[i].next_idx) /\ i \in Live \ {idx} /\ A \subseteq Live
        BY <2>1 DEF Ordered
      <4>2. orders[i].next_idx = idx <=> i = prv
        <5>1. i \in A /\ idx \in A /\ NullIndex \notin A /\ \A j \in A : rank[j] \in Nat
          BY <4>1, <3>1, <1>2, <1>4
        <5> HIDE DEF A, B
        <5> QED BY <5>1, <4>1, <3>3, <3>4, Neighbours
      <4>3. CASE i = prv
        <5>1. /\ i \in A /\ idx \in A /\ NullIndex \notin A /\ \A j \in A : rank[j] \in Nat
              /\ Follows(rank, A, i, idx) /\ orders'[i].next_idx = nxt
          BY <4>1, <4>2, <4>3, <3>1, <1>2, <1>4
        <5>2. Follows(rank, A \ {idx}, i, nxt)
          <6> HIDE DEF A, B
          <6> QED BY <5>1, <3>3, <3>4, SkipNext
        <5> QED BY <5>1, <5>2
      <4>4. CASE i # prv
        BY <4>1, <4>2, <4>4, <3>1, <1>2, <1>4 DEF Follows
      <4> QED BY <4>3, <4>4
    <3>7. ASSUME NEW i \in B
          PROVE  Precedes(rank, B, i, orders'[i].prev_idx)
      <4>1. Precedes(rank, A, i, orders[i].prev_idx) /\ i \in Live \ {idx} /\ A \subseteq Live
        BY <2>1 DEF Ordered
      <4>2. orders[i].prev_idx = idx <=> i = nxt
        <5>1. i \in A /\ idx \in A /\ NullIndex \notin A /\ \A j \in A : rank[j] \in Nat
          BY <4>1, <3>1, <1>2, <1>4
        <5> HIDE DEF A, B
        <5> QED BY <5>1, <4>1, <3>3, <3>4, Neighbours
      <4>3. CASE i = nxt
        <5>1. /\ i \in A /\ idx \in A /\ NullIndex \notin A /\ \A j \in A : rank[j] \in Nat
              /\ Precedes(rank, A, i, idx) /\ orders'[i].prev_idx = prv
          BY <4>1, <4>2, <4>3, <3>1, <1>2, <1>4
        <5>2. Precedes(rank, A \ {idx}, i, prv)
          <6> HIDE DEF A, B
          <6> QED BY <5>1, <3>3, <3>4, SkipPrevious
        <5> QED BY <5>1, <5>2
      <4>4. CASE i # nxt
        BY <4>1, <4>2, <4>4, <3>1, <1>2, <1>4 DEF Precedes
      <4> QED BY <4>3, <4>4
    <3> HIDE DEF B, m
    <3> QED BY <3>1, <3>5, <3>6, <3>7 DEF Ordered
  <2> QED BY <2>2, <2>3
<1> QED BY <1>1, <1>5, <1>7 DEF LevelsOrdered, LevelsOrderedBy

\* Improves is a strict total order of the prices of a side.
LEMMA ImprovesOrders ==
  /\ Prices \subseteq Nat /\ NoPrice \notin Prices
  /\ \A s \in Sides, p, q \in Prices :
       /\ ~Improves(s, p, p)
       /\ p = q \/ Improves(s, p, q) \/ Improves(s, q, p)
       /\ Improves(s, p, q) => ~Improves(s, q, p)
<1>1. Prices \subseteq Nat /\ NoPrice \notin Prices
  BY ClobAssumption DEF Prices
<1> QED BY <1>1 DEF Improves

\* The scan of refresh_best_after_empty_level finds the extreme price.
LEMMA BestOf ==
  ASSUME NEW side \in Sides, NEW S \in SUBSET Prices, S # {}
  PROVE  \E p \in S : \A q \in S : p = q \/ Improves(side, p, q)
<1>1. S \in SUBSET Nat /\ MaxPrice \in Nat /\ \A p \in S : p <= MaxPrice
  BY ClobAssumption DEF Prices
<1>2. CASE side = "Buy"
  <2>1. PICK m \in S : \A q \in S : q <= m
    BY <1>1, Greatest
  <2> QED BY <2>1, <1>1, <1>2 DEF Improves
<1>3. CASE side # "Buy"
  <2>1. PICK m \in S : \A q \in S : m <= q
    BY <1>1, LeastNatural
  <2> QED BY <2>1, <1>1, <1>3 DEF Improves
<1> QED BY <1>2, <1>3

\* refresh_best_after_empty_level keeps the best price extreme, and moves it only
\* away from the other side.
LEMMA RemoveBest ==
  ASSUME StoreInv, BestIsExtreme, NEW idx \in Live, RemoveOrder(idx)
  PROVE  /\ BestIsExtreme' /\ best' \in [Sides -> Prices \cup {NoPrice}]
         /\ \A s \in Sides : best'[s] = best[s] \/ best'[s] = NoPrice
                             \/ (best[s] # NoPrice /\ Improves(s, best[s], best'[s]))
<1>0. PICK side \in Sides, price \in Prices : side = orders[idx].side /\ price = orders[idx].price
  BY RemoveLevels
<1> DEFINE l     == LevelWithout(levels[side][price], orders[idx])
           Found == {p \in Prices : Improves(side, price, p) /\ levels[side][p].order_count > 0}
<1>1. /\ best \in [Sides -> Prices \cup {NoPrice}] /\ Prices \subseteq Int /\ NoPrice \notin Int
      /\ levels \in [Sides -> [Prices -> Level]]
  BY ClobAssumption DEF Prices, StoreInv, SlotsOK
<1>2. /\ side \in Sides /\ price \in Prices /\ idx \in LiveAt(side, price)
      /\ levels' \in [Sides -> [Prices -> Level]]
      /\ \A s \in Sides, p \in Prices :
           levels'[s][p] = IF s = side /\ p = price THEN l ELSE levels[s][p]
  BY <1>0, RemoveLevels
<1>3. price \in NonEmpty(side)
  <2>1. levels[side][price].order_count \in Nat
    BY <1>1, <1>2 DEF Level
  <2> QED BY <2>1, <1>2, EmptyLevels DEF NonEmpty
<1>4. \A s \in Sides : best'[s] = IF s = side /\ l.order_count = 0 THEN RefreshedBest(side, price)
                                  ELSE best[s]
  BY <1>0, <1>1, <1>2 DEF RemoveOrder
<1>5. ASSUME NEW s \in Sides, s # side
      PROVE  NonEmpty(s)' = NonEmpty(s)
  BY <1>2, <1>5 DEF NonEmpty
<1>6. /\ l.order_count # 0 => NonEmpty(side)' = NonEmpty(side)
      /\ l.order_count = 0 => NonEmpty(side)' = NonEmpty(side) \ {price}
  <2>1. \A p \in Prices : levels'[side][p].order_count \in Nat
    BY <1>2 DEF Level
  <2>2. levels'[side][price] = l /\ \A p \in Prices : p # price => levels'[side][p] = levels[side][p]
    BY <1>2
  <2>3. l.order_count \in Nat
    BY <2>1, <2>2, <1>2
  <2> HIDE DEF l
  <2>4. CASE l.order_count = 0
    BY <2>4, <1>2, <2>2 DEF NonEmpty
  <2>5. CASE l.order_count # 0
    BY <2>5, <1>2, <1>3, <2>2, <2>3 DEF NonEmpty
  <2> QED BY <2>4, <2>5
<1>7. /\ best[side] \in NonEmpty(side) /\ \A p \in NonEmpty(side) : ~Improves(side, p, best[side])
      /\ NonEmpty(side) \subseteq Prices
  BY <1>2, <1>3 DEF BestIsExtreme, NonEmpty
<1>8. ASSUME l.order_count = 0, best[side] # price
      PROVE  /\ best'[side] = best[side] /\ best[side] \in NonEmpty(side)'
             /\ \A p \in NonEmpty(side)' : ~Improves(side, p, best[side])
  BY <1>2, <1>4, <1>6, <1>7, <1>8 DEF RefreshedBest
<1>9. ASSUME l.order_count = 0, best[side] = price
      PROVE  /\ Found = NonEmpty(side)'
             /\ IF Found = {} THEN best'[side] = NoPrice
                ELSE /\ best'[side] \in Found
                     /\ \A q \in Found : best'[side] = q \/ Improves(side, best'[side], q)
  <2>1. Found = NonEmpty(side) \ {price}
    <3>1. \A p \in NonEmpty(side) : p # price => Improves(side, price, p)
      BY <1>2, <1>7, <1>9, ImprovesOrders
    <3>2. ~Improves(side, price, price)
      BY <1>2, ImprovesOrders
    <3> QED BY <3>1, <3>2 DEF NonEmpty
  <2>2. best'[side] = IF Found = {} THEN NoPrice
                      ELSE CHOOSE p \in Found : \A q \in Found : p = q \/ Improves(side, p, q)
    BY <1>2, <1>4, <1>9 DEF RefreshedBest
  <2>3. Found # {} => \E p \in Found : \A q \in Found : p = q \/ Improves(side, p, q)
    <3>1. Found \in SUBSET Prices
      OBVIOUS
    <3> HIDE DEF Found
    <3> QED BY <3>1, <1>2, BestOf
  <2> HIDE DEF Found, l
  <2> QED BY <2>1, <2>2, <2>3, <1>6, <1>9
<1>10. \A s \in Sides :
         /\ best'[s] \in Prices \cup {NoPrice}
         /\ IF NonEmpty(s)' = {} THEN best'[s] = NoPrice
            ELSE best'[s] \in NonEmpty(s)' /\ \A p \in NonEmpty(s)' : ~Improves(s, p, best'[s])
         /\ best'[s] = best[s] \/ best'[s] = NoPrice
             \/ (best[s] # NoPrice /\ Improves(s, best[s], best'[s]))
  <2> SUFFICES ASSUME NEW s \in Sides
               PROVE  /\ best'[s] \in Prices \cup {NoPrice}
                      /\ IF NonEmpty(s)' = {} THEN best'[s] = NoPrice
                         ELSE best'[s] \in NonEmpty(s)' /\ \A p \in NonEmpty(s)' : ~Improves(s, p, best'[s])
                      /\ best'[s] = best[s] \/ best'[s] = NoPrice
                          \/ (best[s] # NoPrice /\ Improves(s, best[s], best'[s]))
    OBVIOUS
  <2>1. CASE s # side
    BY <2>1, <1>1, <1>4, <1>5 DEF BestIsExtreme
  <2>2. CASE s = side /\ l.order_count # 0
    BY <2>2, <1>1, <1>4, <1>6, <1>7
  <2>3. CASE s = side /\ l.order_count = 0 /\ best[side] # price
    BY <2>3, <1>1, <1>2, <1>8
  <2>4. CASE s = side /\ l.order_count = 0 /\ best[side] = price
    <3>1. Found \subseteq Prices /\ \A p \in Found : Improves(side, price, p)
      OBVIOUS
    <3>2. \A p, q \in Prices : p = q \/ Improves(side, p, q) => ~Improves(side, q, p)
      BY <1>2, ImprovesOrders
    <3> HIDE DEF Found
    <3> QED BY <2>4, <3>1, <3>2, <1>1, <1>2, <1>9
  <2> HIDE DEF l
  <2> QED BY <2>1, <2>2, <2>3, <2>4
<1>11. BestIsExtreme'
  BY <1>10 DEF BestIsExtreme
<1>12. best' \in [Sides -> Prices \cup {NoPrice}]
  <2>1. best' = [s \in Sides |-> best'[s]]
    BY <1>1 DEF RemoveOrder
  <2> QED BY <2>1, <1>10
<1> QED BY <1>10, <1>11, <1>12

\* The cached price of a side stays when the level of the order keeps orders.
LEMMA BestKept ==
  ASSUME StoreInv, NEW idx \in Live, RemoveOrder(idx),
         levels'[orders[idx].side][orders[idx].price].order_count > 0
  PROVE  best' = best
<1>1. levels'[orders[idx].side][orders[idx].price]
        = LevelWithout(levels[orders[idx].side][orders[idx].price], orders[idx])
  BY RemoveLevels
<1> QED BY <1>1 DEF RemoveOrder

\* add_order preserves the invariant of the book.
LEMMA PlaceBook ==
  ASSUME BookInv, NEW id, NEW side, NEW price, NEW qty,
         CanPlace(id, side, price, qty), Place(id, side, price, qty)
  PROVE  BookInv'
<1>1. SlotsOK'
  BY PlacePool, PlaceIndex, PlaceLevels, PlaceBest DEF BookInv, SlotsOK
<1> QED BY <1>1, PlaceIndex, PlaceLevels, PlaceOrder, PlaceBest DEF BookInv, StoreInv

\* remove_order_by_index preserves the invariant of the book.
LEMMA RemoveBook ==
  ASSUME BookInv, NEW idx \in Live, RemoveOrder(idx)
  PROVE  BookInv'
<1>1. SlotsOK'
  BY RemovePool, RemoveIndex, RemoveLevels, RemoveBest DEF BookInv, SlotsOK
<1> QED BY <1>1, RemoveIndex, RemoveLevels, RemoveChain, RemoveBest DEF BookInv, StoreInv

\* A partial fill changes one quantity and one total.
LEMMA ReduceBook ==
  ASSUME BookInv, NEW idx \in Live, NEW q \in Qtys, q < orders[idx].qty,
         NEW side \in Sides, NEW price \in Prices,
         orders' = [orders EXCEPT ![idx].qty = @ - q],
         levels' = [levels EXCEPT ![side][price].total_qty = Less(@, q)],
         UNCHANGED <<free_stack, order_lookup, best>>
  PROVE  BookInv'
<1> USE DEF BookInv, StoreInv
<1>1. /\ orders \in [Idx -> Order] /\ Live' = Live /\ Live \subseteq Idx /\ q \in Nat
      /\ levels \in [Sides -> [Prices -> Level]]
      /\ orders[idx].qty - q \in Qtys /\ orders[idx].qty - q > 0
  <2>1. orders[idx].qty \in Qtys
    BY DEF SlotsOK, Live, Order
  <2> QED BY <2>1, ClobAssumption DEF SlotsOK, Live, FreeSlots, Qtys
<1>2. /\ orders' \in [Idx -> Order]
      /\ \A i \in Idx : /\ orders'[i].order_id = orders[i].order_id
                        /\ orders'[i].side = orders[i].side
                        /\ orders'[i].price = orders[i].price
                        /\ orders'[i].next_idx = orders[i].next_idx
                        /\ orders'[i].prev_idx = orders[i].prev_idx
                        /\ orders'[i].qty = IF i = idx THEN orders[i].qty - q ELSE orders[i].qty
  BY <1>1 DEF Order
<1>3. /\ levels' \in [Sides -> [Prices -> Level]]
      /\ \A s \in Sides, p \in Prices :
           /\ levels'[s][p].head_idx = levels[s][p].head_idx
           /\ levels'[s][p].tail_idx = levels[s][p].tail_idx
           /\ levels'[s][p].order_count = levels[s][p].order_count
  <2>1. levels[side][price] \in Level
    BY <1>1
  <2>2. Less(levels[side][price].total_qty, q) \in Qtys
    BY <1>1, <2>1, ClobAssumption DEF Less, Qtys, Level
  <2> QED BY <1>1, <2>1, <2>2 DEF Level
<1>4. \A s \in Sides, p \in Prices : LiveAt(s, p)' = LiveAt(s, p) /\ LiveAt(s, p) \subseteq Idx
  BY <1>1, <1>2 DEF LiveAt
<1>5. SlotsOK'
  BY <1>2, <1>3 DEF SlotsOK
<1>6. PoolPartition'
  BY <1>1, <1>2 DEF PoolPartition, Contains
<1>7. LiveOrders'
  BY <1>1, <1>2 DEF LiveOrders
<1>8. LevelCounts'
  BY <1>3, <1>4 DEF LevelCounts
<1>9. LevelsOrdered'
  <2>1. PICK rank \in [Idx -> Idx] :
        /\ Ranked(rank)
        /\ \A s \in Sides, p \in Prices : Ordered(rank, LiveAt(s, p), levels[s][p])
    BY DEF LevelsOrdered, LevelsOrderedBy
  <2>2. Ranked(rank)'
    BY <2>1, <1>1 DEF Ranked
  <2>3. ASSUME NEW s \in Sides, NEW p \in Prices
        PROVE  Ordered(rank, LiveAt(s, p), levels[s][p])'
    <3>1. LiveAt(s, p)' = LiveAt(s, p) /\ LiveAt(s, p) \subseteq Idx /\ Ordered(rank, LiveAt(s, p), levels[s][p])
      BY <1>4, <2>1
    <3>2. Ends(rank, LiveAt(s, p), levels'[s][p])
      BY <3>1, <1>3 DEF Ordered, Ends
    <3>3. \A i \in LiveAt(s, p) : /\ Follows(rank, LiveAt(s, p), i, orders'[i].next_idx)
                       /\ Precedes(rank, LiveAt(s, p), i, orders'[i].prev_idx)
      BY <3>1, <1>2 DEF Ordered
    <3> QED BY <3>1, <3>2, <3>3 DEF Ordered
  <2> QED BY <2>1, <2>2, <2>3 DEF LevelsOrdered, LevelsOrderedBy
<1>10. BestIsExtreme'
  <2>1. \A s \in Sides : NonEmpty(s)' = NonEmpty(s)
    BY <1>3 DEF NonEmpty
  <2> QED BY <2>1 DEF BestIsExtreme, Improves
<1> QED BY <1>5, <1>6, <1>7, <1>8, <1>9, <1>10

\* The constructor establishes the invariant.
LEMMA InitInv == Init => IInv
<1> SUFFICES ASSUME Init PROVE IInv
  OBVIOUS
<1> USE ClobAssumption DEF Init
<1>1. free_stack \in Seq(Idx) /\ Len(free_stack) = MaxOrders /\ FreeSlots = Idx
  <2>1. \A n \in 1..MaxOrders : n - 1 \in Idx
    BY DEF Idx
  <2>2. free_stack \in Seq(Idx) /\ DOMAIN free_stack = 1..MaxOrders /\ Len(free_stack) = MaxOrders
    BY <2>1
  <2>3. \A i \in Idx : i + 1 \in 1..MaxOrders /\ free_stack[i + 1] = i
    BY DEF Idx
  <2> QED BY <2>1, <2>2, <2>3 DEF FreeSlots
<1>2. Live = {} /\ \A s \in Sides, p \in Prices : LiveAt(s, p) = {}
  BY <1>1 DEF Live, LiveAt
<1>3. SlotsOK
  <2>1. 0 \in Qtys /\ NullIndex \in Slot
    BY DEF Qtys, Slot
  <2>2. DefaultOrder \in Order
    BY <2>1 DEF DefaultOrder, Order, Sides
  <2>3. EmptyLevel \in Level
    BY <2>1 DEF EmptyLevel, Level
  <2> QED BY <1>1, <2>1, <2>2, <2>3 DEF SlotsOK
<1>4. PoolPartition
  BY <1>2 DEF PoolPartition, Contains
<1>5. LevelCounts /\ LiveOrders
  BY <1>2, FS_EmptySet DEF LevelCounts, LiveOrders, EmptyLevel
<1>6. LevelsOrdered
  <2>1. \A s \in Sides, p \in Prices : Ordered([i \in Idx |-> 0], LiveAt(s, p), levels[s][p])
    BY <1>2 DEF Ordered, Ends, EmptyLevel
  <2>2. Ranked([i \in Idx |-> 0])
    BY <1>2 DEF Ranked
  <2>3. [i \in Idx |-> 0] \in [Idx -> Idx]
    BY DEF Idx
  <2> QED BY <2>1, <2>2, <2>3 DEF LevelsOrdered, LevelsOrderedBy
<1>7. BestIsExtreme
  BY DEF BestIsExtreme, NonEmpty, EmptyLevel
<1>8. CallInv
  BY DEF CallInv, Call, NoCall, Sides, Qtys, Contains
<1> QED BY <1>3, <1>4, <1>5, <1>6, <1>7, <1>8 DEF IInv, BookInv, StoreInv

\* Nothing a step leaves alone can break the book.
LEMMA StoreUnchanged == BookInv /\ UNCHANGED store => BookInv'
<1> SUFFICES ASSUME BookInv, UNCHANGED store PROVE BookInv'
  OBVIOUS
<1>1. /\ orders' = orders /\ free_stack' = free_stack /\ levels' = levels
      /\ order_lookup' = order_lookup /\ best' = best
  BY DEF store
<1>2. SlotsOK' /\ PoolPartition' /\ LiveOrders' /\ LevelCounts' /\ BestIsExtreme'
  BY <1>1 DEF BookInv, StoreInv, SlotsOK, PoolPartition, LiveOrders, LevelCounts, BestIsExtreme,
              Contains, Live, FreeSlots, LiveAt, NonEmpty
<1>3. LevelsOrdered'
  BY <1>1 DEF BookInv, StoreInv, LevelsOrdered, LevelsOrderedBy, Ranked, Ordered, Ends, Follows, Precedes,
              LiveAt, Live, FreeSlots
<1> QED BY <1>2, <1>3 DEF BookInv, StoreInv

\* The index is never full while the pool is the bound: it has two entries per slot.
LEMMA IndexNeverFull == BookInv => ~IndexFull
<1> SUFFICES ASSUME BookInv PROVE ~IndexFull
  OBVIOUS
<1> DEFINE C == {id \in OrderIds : Contains(id)}
           f == [id \in C |-> order_lookup[id]]
<1>1. f \in [C -> Idx] /\ \A x, y \in C : f[x] = f[y] => x = y
  BY DEF BookInv, StoreInv, PoolPartition, Live
<1>2. IsFiniteSet(Idx) /\ Cardinality(Idx) = MaxOrders
  BY FS_Interval, ClobAssumption DEF Idx
<1>3. f \in Injection(C, Idx)
  BY <1>1 DEF Injection, IsInjective
<1>4. Cardinality(C) <= MaxOrders /\ Cardinality(C) \in Nat
  <2> HIDE DEF C, f
  <2> QED BY <1>2, <1>3, FS_Injection, FS_CardinalityType
<1> QED BY <1>4, ClobAssumption DEF IndexFull

\* add_order preserves the invariant of the book whichever way it returns.
LEMMA RestBook ==
  ASSUME BookInv, NEW id \in OrderIds, NEW side \in Sides, NEW price \in Nat, NEW qty \in Qtys,
         Rest(id, side, price, qty)
  PROVE  BookInv' /\ ret' \in BOOLEAN
<1>1. CASE qty = 0 \/ ~ValidPrice(price) \/ free_stack = <<>> \/ Contains(id) \/ IndexFull
  BY <1>1, StoreUnchanged DEF Rest
<1>2. CASE ~(qty = 0 \/ ~ValidPrice(price) \/ free_stack = <<>> \/ Contains(id) \/ IndexFull)
  <2>1. Place(id, side, price, qty) /\ ret' = TRUE
    BY <1>2 DEF Rest
  <2>2. CanPlace(id, side, price, qty)
    BY <1>2, ClobAssumption DEF CanPlace, ValidPrice, Prices, Qtys
  <2> QED BY <2>1, <2>2, PlaceBook
<1> QED BY <1>1, <1>2

\* The head of the level being matched is a live order of that level.
LEMMA MakerLive ==
  ASSUME IInv, AtLevel
  PROVE  /\ Opposite(call.side) \in Sides /\ lvl \in Prices
         /\ Maker \in Live /\ Maker \in Idx
         /\ orders[Maker].side = Opposite(call.side) /\ orders[Maker].price = lvl
         /\ orders[Maker].qty \in Qtys /\ orders[Maker].qty > 0
         /\ orders[Maker].order_id \in OrderIds
         /\ call \in Call /\ call.qty \in Qtys
<1> USE DEF IInv, BookInv, StoreInv
<1>1. call \in Call /\ call.qty \in Qtys /\ Opposite(call.side) \in Sides /\ lvl \in Prices
  BY DEF CallInv, AtLevel, Call, Opposite, Sides
<1>2. LiveAt(Opposite(call.side), lvl) # {}
  <2>1. WorkLevel.order_count # 0
    BY <1>1 DEF AtLevel, WorkLevel, SlotsOK, Level
  <2> QED BY <1>1, <2>1, EmptyLevels DEF WorkLevel
<1>3. Maker \in LiveAt(Opposite(call.side), lvl)
  BY <1>1, <1>2 DEF LevelsOrdered, LevelsOrderedBy, Ordered, Ends, Maker, WorkLevel
<1> QED BY <1>1, <1>3 DEF LiveAt, Live, PoolPartition, LiveOrders, SlotsOK, Order

\* Each action preserves the invariant: direct add_order calls,
LEMMA AddOrderInv ==
  ASSUME IInv, NEW id \in OrderIds, NEW side \in Sides, NEW price \in InputPrices,
         NEW qty \in InputQtys, AddOrder(id, side, price, qty)
  PROVE  IInv'
<1>1. price \in Nat /\ qty \in Qtys
  BY ClobAssumption
<1>2. BookInv' /\ ret' \in BOOLEAN
  BY <1>1, RestBook DEF AddOrder, IInv
<1>3. CallInv'
  BY <1>2 DEF IInv, CallInv, AddOrder
<1> QED BY <1>2, <1>3 DEF IInv

\* cancel_order,
LEMMA CancelOrderInv ==
  ASSUME IInv, NEW id \in OrderIds, CancelOrder(id)
  PROVE  IInv'
<1>1. BookInv'
  <2>1. CASE Contains(id)
    <3>1. order_lookup[id] \in Live
      BY <2>1 DEF IInv, BookInv, StoreInv, PoolPartition
    <3> QED BY <2>1, <3>1, RemoveBook DEF CancelOrder, IInv
  <2>2. CASE ~Contains(id)
    BY <2>2, StoreUnchanged DEF CancelOrder, IInv
  <2> QED BY <2>1, <2>2
<1>2. CallInv'
  BY DEF IInv, CallInv, CancelOrder
<1> QED BY <1>1, <1>2 DEF IInv

\* the entry of submit_limit_order,
LEMMA SubmitInv ==
  ASSUME IInv, NEW id \in OrderIds, NEW side \in Sides, NEW price \in InputPrices,
         NEW qty \in InputQtys, SubmitLimitOrder(id, side, price, qty)
  PROVE  IInv'
<1>1. UNCHANGED store
  BY DEF SubmitLimitOrder, store
<1>2. BookInv'
  BY <1>1, StoreUnchanged DEF IInv
<1>3. CASE qty = 0 \/ ~ValidPrice(price) \/ Contains(id)
  BY <1>2, <1>3 DEF IInv, CallInv, SubmitLimitOrder, Contains
<1>4. CASE ~(qty = 0 \/ ~ValidPrice(price) \/ Contains(id))
  <2>1. /\ pc' = "match_order" /\ lvl' = lvl /\ ret' = ret /\ executions' = <<>>
        /\ call' = [order_id |-> id, side |-> side, price |-> price, qty |-> qty, submitted |-> qty]
    BY <1>4 DEF SubmitLimitOrder, IInv, CallInv
  <2>2. price \in Prices /\ qty \in Qtys
    BY <1>4, ClobAssumption DEF ValidPrice, Prices
  <2>3. call' \in Call
    BY <2>1, <2>2 DEF Call
  <2>4. order_lookup'[id] = NullIndex
    BY <1>1, <1>4 DEF Contains, store
  <2>5. qty > 0
    BY <1>4, <2>2, ClobAssumption DEF Qtys
  <2>6. CallInv'
    BY <2>1, <2>2, <2>3, <2>4, <2>5 DEF IInv, CallInv, Contains
  <2> QED BY <1>2, <2>6 DEF IInv
<1> QED BY <1>3, <1>4

\* taking the best opposite level,
LEMMA EnterLevelInv == IInv /\ EnterLevel => IInv'
<1> SUFFICES ASSUME IInv, EnterLevel PROVE IInv'
  OBVIOUS
<1>1. BookInv'
  BY StoreUnchanged DEF EnterLevel, store, IInv
<1>2. lvl' \in Prices
  <2>1. best[Opposite(call.side)] # NoPrice /\ Opposite(call.side) \in Sides
    BY DEF EnterLevel, Crosses, Opposite, Sides
  <2> QED BY <2>1 DEF EnterLevel, IInv, BookInv, StoreInv, SlotsOK
<1>3. lvl' = best'[Opposite(call'.side)] /\ Crosses(call.side, call.price)'
  BY DEF EnterLevel, Crosses
<1>4. CallInv'
  BY <1>2, <1>3 DEF IInv, CallInv, EnterLevel, Contains
<1> QED BY <1>1, <1>4 DEF IInv

\* leaving it,
LEMMA LeaveLevelInv == IInv /\ LeaveLevel => IInv'
<1> SUFFICES ASSUME IInv, LeaveLevel PROVE IInv'
  OBVIOUS
<1>1. BookInv'
  BY StoreUnchanged DEF LeaveLevel, store, IInv
<1>2. CallInv'
  BY DEF IInv, CallInv, LeaveLevel, Contains
<1> QED BY <1>1, <1>2 DEF IInv

\* resting what is left,
LEMMA FinishSubmitInv == IInv /\ FinishSubmit => IInv'
<1> SUFFICES ASSUME IInv, FinishSubmit PROVE IInv'
  OBVIOUS
<1>1. /\ call.order_id \in OrderIds /\ call.side \in Sides /\ call.price \in Nat
      /\ call.qty \in Qtys
  BY ClobAssumption DEF IInv, CallInv, FinishSubmit, Call, Prices
<1>2. BookInv' /\ ret' \in BOOLEAN
  <2>1. CASE call.qty = 0
    BY <2>1, StoreUnchanged DEF FinishSubmit, IInv
  <2>2. CASE call.qty # 0
    BY <1>1, <2>2, RestBook DEF FinishSubmit, IInv
  <2> QED BY <2>1, <2>2
<1>3. NoCall \in Call
  BY ClobAssumption DEF NoCall, Call, Sides, Qtys
<1>4. CallInv'
  BY <1>2, <1>3 DEF IInv, CallInv, FinishSubmit
<1> QED BY <1>2, <1>4 DEF IInv

\* the fill that uses up the incoming order,
LEMMA FillIncomingInv == IInv /\ FillIncoming => IInv'
<1> SUFFICES ASSUME IInv, FillIncoming PROVE IInv'
  OBVIOUS
<1>1. /\ Opposite(call.side) \in Sides /\ lvl \in Prices /\ Maker \in Live
      /\ orders[Maker].price \in Prices /\ orders[Maker].order_id \in OrderIds
      /\ call \in Call /\ call.qty \in Qtys /\ call.order_id \in OrderIds
  BY MakerLive DEF FillIncoming, AtLevel, IInv, CallInv
<1>2. BookInv'
  BY <1>1, ReduceBook DEF FillIncoming, IInv
<1>3. executions' \in Seq(Execs)
  <2>1. Execution(call.qty) \in Execs
    BY <1>1 DEF Execution, Execs
  <2> QED BY <2>1 DEF FillIncoming, IInv, CallInv
<1>4. call' \in Call /\ call'.qty = 0 /\ call'.order_id = call.order_id /\ call'.price = call.price
  BY <1>1, ClobAssumption DEF FillIncoming, Call, Qtys
<1>5. CallInv'
  <2>1. call'.submitted = call.submitted /\ call.submitted > 0
    BY <1>1 DEF FillIncoming, AtLevel, Call, IInv, CallInv
  <2> QED BY <1>3, <1>4, <2>1 DEF IInv, CallInv, FillIncoming, AtLevel, Contains
<1> QED BY <1>2, <1>5 DEF IInv

\* and the fill that uses up a resting order.
LEMMA FillRestingInv == IInv /\ FillResting => IInv'
<1> SUFFICES ASSUME IInv, FillResting PROVE IInv'
  OBVIOUS
<1>1. /\ Opposite(call.side) \in Sides /\ lvl \in Prices /\ Maker \in Live
      /\ orders[Maker].price \in Prices /\ orders[Maker].order_id \in OrderIds
      /\ orders[Maker].qty \in Qtys
      /\ call \in Call /\ call.qty \in Qtys /\ call.order_id \in OrderIds
      /\ pc = "match_at_level" /\ call.price \in Prices /\ ~Contains(call.order_id)
  BY MakerLive DEF FillResting, AtLevel, IInv, CallInv
<1>2. RemoveOrder(Maker) /\ pc' = pc /\ lvl' = lvl /\ ret' = ret
  BY DEF FillResting
<1>3. BookInv'
  BY <1>1, <1>2, RemoveBook DEF IInv
<1>4. free_stack' # <<>> /\ order_lookup'[call.order_id] = NullIndex
  BY <1>1, <1>2, RemovePool, RemoveIndex DEF IInv, BookInv, Contains
<1>5. executions' \in Seq(Execs)
  <2>1. Execution(orders[Maker].qty) \in Execs
    BY <1>1 DEF Execution, Execs
  <2> QED BY <2>1 DEF FillResting, IInv, CallInv
<1>6. call' \in Call /\ call'.order_id = call.order_id /\ call'.price = call.price
  <2>1. call.qty - orders[Maker].qty \in Qtys
    BY <1>1, ClobAssumption DEF FillResting, Qtys
  <2> QED BY <1>1, <2>1 DEF FillResting, Call
<1>7. WorkLevel'.order_count > 0 => lvl' = best'[Opposite(call'.side)] /\ Crosses(call.side, call.price)'
  <2>1. call'.side = call.side
    BY <1>1 DEF FillResting, Call
  <2>2. /\ orders[Maker].side = Opposite(call.side) /\ orders[Maker].price = lvl
        /\ lvl = best[Opposite(call.side)] /\ Crosses(call.side, call.price)
    BY MakerLive DEF FillResting, AtLevel, IInv, CallInv
  <2>3. WorkLevel' = levels'[Opposite(call.side)][lvl]
    BY <2>1, <1>2 DEF WorkLevel
  <2>4. WorkLevel'.order_count > 0 => best' = best
    BY <1>1, <1>2, <2>2, <2>3, BestKept DEF IInv, BookInv
  <2> QED BY <1>2, <1>6, <2>1, <2>2, <2>4 DEF Crosses
<1>8. CallInv'
  <2>1. call'.submitted = call.submitted /\ call.submitted > 0
    BY <1>1 DEF FillResting, Call, IInv, CallInv
  <2> QED BY <1>1, <1>2, <1>4, <1>5, <1>6, <1>7, <2>1 DEF IInv, CallInv, Contains
<1> QED BY <1>3, <1>8 DEF IInv

\* Every step preserves the invariant.
LEMMA NextInv == IInv /\ [Next]_vars => IInv'
<1> SUFFICES ASSUME IInv, [Next]_vars PROVE IInv'
  OBVIOUS
<1>1. ASSUME NEW id \in OrderIds, NEW side \in Sides, NEW price \in InputPrices,
             NEW qty \in InputQtys,
             SubmitLimitOrder(id, side, price, qty) \/ AddOrder(id, side, price, qty)
      PROVE  IInv'
  BY <1>1, SubmitInv, AddOrderInv
<1>2. ASSUME NEW id \in OrderIds, CancelOrder(id)
      PROVE  IInv'
  BY <1>2, CancelOrderInv
<1>3. CASE Matching
  BY <1>3, EnterLevelInv, FillIncomingInv, FillRestingInv, LeaveLevelInv, FinishSubmitInv DEF Matching
<1>4. CASE UNCHANGED vars
  <2>1. UNCHANGED store
    BY <1>4 DEF vars, store
  <2>2. BookInv'
    BY <2>1, StoreUnchanged DEF IInv
  <2>3. CallInv'
    BY <1>4 DEF vars, IInv, CallInv, Contains, Crosses, WorkLevel
  <2> QED BY <2>2, <2>3 DEF IInv
<1> QED BY <1>1, <1>2, <1>3, <1>4 DEF Next, ExchangeNext

\* IInv holds in every reachable state, for every instance.
THEOREM Invariance == Spec => []IInv
<1> QED BY InitInv, NextInv, PTL DEF Spec

\* Every variable keeps its type: slot indices stay in the pool or null, level
\* counters stay between 0 and MaxOrders, fills never exceed a quantity.
THEOREM TypeCorrect == Spec => []TypeOK
<1>1. IInv => TypeOK
  BY DEF IInv, BookInv, StoreInv, SlotsOK, CallInv, TypeOK
<1> QED BY <1>1, Invariance, PTL

\* No slot is leaked, freed twice or shared: every slot is either once on the
\* free stack, or live and indexed under the id of the order it holds.
THEOREM SlotsPartitioned == Spec => []PoolPartition
<1>1. IInv => PoolPartition
  BY DEF IInv, BookInv, StoreInv
<1> QED BY <1>1, Invariance, PTL

\* The cached best bid and ask are those of the non-empty levels, after every
\* sequence of adds, cancels, fills and rescans.
THEOREM BestPricesExtreme == Spec => []BestIsExtreme
<1>1. IInv => BestIsExtreme
  BY DEF IInv, BookInv
<1> QED BY <1>1, Invariance, PTL

\* Each level is one doubly linked queue of exactly its live orders, and
\* order_count counts them.
THEOREM LevelsAreQueues == Spec => [](LevelsOrdered /\ LevelCounts)
<1>1. IInv => LevelsOrdered /\ LevelCounts
  BY DEF IInv, BookInv, StoreInv
<1> QED BY <1>1, Invariance, PTL

\* A submit call that returns false has traded nothing and changed nothing, even

\* when the pool is full: the first complete fill frees the slot that the rest
\* of the incoming order needs.
THEOREM AllOrNothing == Spec => SubmitAllOrNothing
<1> DEFINE A == pc = "match_order" /\ pc' = "idle" /\ ret' = FALSE
                  => call.qty = call.submitted /\ executions = <<>> /\ UNCHANGED store
<1>1. IInv /\ [Next]_vars => [A]_vars
  <2> SUFFICES ASSUME IInv, Next, pc = "match_order", pc' = "idle", ret' = FALSE
               PROVE  call.qty = call.submitted /\ executions = <<>> /\ UNCHANGED store
    OBVIOUS
  <2>1. FinishSubmit
    BY DEF Next, ExchangeNext, Matching, AddOrder, CancelOrder, SubmitLimitOrder, EnterLevel,
           FillIncoming, FillResting, AtLevel, LeaveLevel
  <2>2. call.qty # 0 /\ Rest(call.order_id, call.side, call.price, call.qty)
    BY <2>1 DEF FinishSubmit
  <2>3. ~Contains(call.order_id) /\ ~IndexFull /\ ValidPrice(call.price)
    BY <2>1, IndexNeverFull, ClobAssumption DEF IInv, CallInv, FinishSubmit, ValidPrice, Prices
  <2>4. UNCHANGED store /\ free_stack = <<>>
    BY <2>2, <2>3 DEF Rest
  <2> QED BY <2>2, <2>4 DEF IInv, CallInv
<1> QED BY <1>1, Invariance, PTL DEF Spec, SubmitAllOrNothing

\* Removing an order cannot make the book crossed.
LEMMA BestOnlyRecedes ==
  ASSUME IInv, NEW idx \in Live, RemoveOrder(idx), NotCrossed
  PROVE  NotCrossed'
<1>1. \A s \in Sides : best'[s] = best[s] \/ best'[s] = NoPrice
                       \/ (best[s] # NoPrice /\ Improves(s, best[s], best'[s]))
  BY RemoveBest DEF IInv, BookInv
<1>2. best \in [Sides -> Prices \cup {NoPrice}] /\ best' \in [Sides -> Prices \cup {NoPrice}]
      /\ Prices \subseteq Nat
  BY RemoveBest, ImprovesOrders DEF IInv, BookInv, StoreInv, SlotsOK
<1>3. /\ best["Buy"] = NoPrice \/ best["Buy"] \in Nat
      /\ best["Sell"] = NoPrice \/ best["Sell"] \in Nat
      /\ best'["Buy"] = NoPrice \/ best'["Buy"] \in Nat
      /\ best'["Sell"] = NoPrice \/ best'["Sell"] \in Nat
  BY <1>2 DEF Sides
<1>4. /\ best'["Buy"] # NoPrice => best["Buy"] # NoPrice /\ best'["Buy"] <= best["Buy"]
      /\ best'["Sell"] # NoPrice => best["Sell"] # NoPrice /\ best["Sell"] <= best'["Sell"]
  BY <1>1, <1>3 DEF Improves, Sides
<1> QED BY <1>3, <1>4 DEF NotCrossed

\* No step of a caller that only submits and cancels makes the book crossed.
LEMMA NotCrossedStep == IInv /\ NotCrossed /\ [ExchangeNext]_vars => NotCrossed'
<1> SUFFICES ASSUME IInv, NotCrossed, [ExchangeNext]_vars PROVE NotCrossed'
  OBVIOUS
<1>1. CASE UNCHANGED best
  BY <1>1 DEF NotCrossed
<1>2. ASSUME NEW id \in OrderIds, CancelOrder(id)
      PROVE  NotCrossed'
  <2>1. CASE Contains(id)
    <3>1. order_lookup[id] \in Live /\ RemoveOrder(order_lookup[id])
      BY <1>2, <2>1 DEF IInv, BookInv, StoreInv, PoolPartition, CancelOrder
    <3> QED BY <3>1, BestOnlyRecedes
  <2>2. CASE ~Contains(id)
    BY <1>1, <1>2, <2>2 DEF CancelOrder, store
  <2> QED BY <2>1, <2>2
<1>3. CASE FillResting
  <2>1. Maker \in Live /\ RemoveOrder(Maker)
    BY <1>3, MakerLive DEF FillResting
  <2> QED BY <2>1, BestOnlyRecedes
<1>4. CASE FinishSubmit
  <2>1. CASE UNCHANGED store
    BY <1>1, <2>1 DEF store
  <2>2. CASE ~UNCHANGED store
    <3>1. /\ call.qty > 0 /\ ~Crosses(call.side, call.price)
          /\ call.side \in Sides /\ call.price \in Prices
      BY <1>4, <2>2 DEF FinishSubmit, IInv, CallInv, Call, Qtys
    <3>2. best' = [best EXCEPT ![call.side] = BestAfterAdd(call.side, call.price)]
      BY <1>4, <2>2 DEF FinishSubmit, Rest, Place
    <3>3. /\ best["Buy"] = NoPrice \/ best["Buy"] \in Nat
          /\ best["Sell"] = NoPrice \/ best["Sell"] \in Nat
          /\ call.price \in Nat /\ NoPrice \notin Nat /\ DOMAIN best = Sides
      BY <3>1, ImprovesOrders, ClobAssumption DEF IInv, BookInv, StoreInv, SlotsOK, Sides
    <3>4. CASE call.side = "Buy"
      <4>1. best'["Sell"] = best["Sell"] /\ best'["Buy"] = BestAfterAdd("Buy", call.price)
        BY <3>2, <3>3, <3>4 DEF Sides
      <4>2. best["Sell"] = NoPrice \/ call.price < best["Sell"]
        BY <3>1, <3>3, <3>4 DEF Crosses, Opposite
      <4> QED BY <4>1, <4>2, <3>3 DEF NotCrossed, BestAfterAdd
    <3>5. CASE call.side = "Sell"
      <4>1. best'["Buy"] = best["Buy"] /\ best'["Sell"] = BestAfterAdd("Sell", call.price)
        BY <3>2, <3>3, <3>5 DEF Sides
      <4>2. best["Buy"] = NoPrice \/ best["Buy"] < call.price
        BY <3>1, <3>3, <3>5 DEF Crosses, Opposite
      <4> QED BY <4>1, <4>2, <3>3 DEF NotCrossed, BestAfterAdd
    <3> QED BY <3>1, <3>4, <3>5 DEF Sides
  <2> QED BY <2>1, <2>2
<1>5. CASE UNCHANGED vars
  BY <1>1, <1>5 DEF vars
<1> QED BY <1>1, <1>2, <1>3, <1>4, <1>5
        DEF ExchangeNext, Matching, SubmitLimitOrder, EnterLevel, FillIncoming, LeaveLevel

\* For callers that only submit and cancel, the best bid stays below the best ask.
THEOREM NeverCrossed == ExchangeSpec => []NotCrossed
<1>1. Init => IInv /\ NotCrossed
  BY InitInv DEF Init, NotCrossed, Sides
<1>2. IInv /\ NotCrossed /\ [ExchangeNext]_vars => IInv' /\ NotCrossed'
  BY NextInv, NotCrossedStep DEF Next
<1> QED BY <1>1, <1>2, PTL DEF ExchangeSpec
------------------------------------------------------------------------------
(* The level totals: what the fold of LevelTotals adds up to.              *)

\* The fold by which LevelTotals adds up, as a function of the subsets of S.
Any(s) == CHOOSE x \in s : TRUE
SumOn(o, f, s) == IF s = {} THEN 0 ELSE o[Any(s)].qty + f[s \ {Any(s)}]
Sums(o, S) == CHOOSE f : f = [s \in SUBSET S |-> SumOn(o, f, s)]
Sum(o, S) == Sums(o, S)[S]

\* What holds of the subsets of S when it holds of those smaller than s holds of s.
LEMMA LeastSubset ==
  ASSUME NEW S, IsFiniteSet(S), NEW B \in SUBSET (SUBSET S), B # {}
  PROVE  \E s \in B : \A t \in B : t \subseteq s => t = s
<1> DEFINE C == {Cardinality(s) : s \in B}
<1>1. \A s \in SUBSET S : IsFiniteSet(s) /\ Cardinality(s) \in Nat
  BY FS_Subset, FS_CardinalityType
<1>2. C \in SUBSET Nat /\ C # {}
  BY <1>1
<1>3. PICK m \in C : \A n \in C : m <= n
  <2> HIDE DEF C
  <2> QED BY <1>2, LeastNatural
<1>4. PICK s \in B : m = Cardinality(s)
  OBVIOUS
<1>5. ASSUME NEW t \in B, t \subseteq s PROVE t = s
  <2>1. Cardinality(s) <= Cardinality(t)
    BY <1>3, <1>4
  <2> QED BY <2>1, <1>1, <1>5, FS_Subset
<1> QED BY <1>5

\* The recursive definition of the fold has a solution.
LEMMA SumsExist ==
  ASSUME NEW o, NEW S, IsFiniteSet(S)
  PROVE  \E f : f = [s \in SUBSET S |-> SumOn(o, f, s)]
<1> DEFINE Solves(f, n) == f = [s \in {t \in SUBSET S : Cardinality(t) <= n} |-> SumOn(o, f, s)]
           Bad == {n \in Nat : ~\E f : Solves(f, n)}
<1>1. \A s \in SUBSET S : /\ IsFiniteSet(s) /\ Cardinality(s) \in Nat
                          /\ Cardinality(s) <= Cardinality(S)
                          /\ Cardinality(s) = 0 <=> s = {}
  BY FS_Subset, FS_CardinalityType, FS_EmptySet
<1>2. ASSUME NEW s \in SUBSET S, s # {}
      PROVE  Any(s) \in s /\ s \ {Any(s)} \in SUBSET S /\ Cardinality(s \ {Any(s)}) = Cardinality(s) - 1
  <2>1. Any(s) \in s
    BY <1>2 DEF Any
  <2> QED BY <2>1, <1>1, FS_RemoveElement
<1>3. Bad = {}
  <2> SUFFICES ASSUME Bad # {} PROVE FALSE
    OBVIOUS
  <2>1. PICK m \in Bad : \A n \in Bad : m <= n
    BY LeastNatural
  <2>2. m # 0
    <3> SUFFICES \E f : Solves(f, 0)
      <4>1. 0 \notin Bad
        OBVIOUS
      <4> HIDE DEF Bad
      <4> QED BY <2>1, <4>1
    <3> DEFINE f == [s \in {t \in SUBSET S : Cardinality(t) <= 0} |-> 0]
    <3>1. \A s \in {t \in SUBSET S : Cardinality(t) <= 0} : s = {}
      BY <1>1
    <3>2. f = [s \in {t \in SUBSET S : Cardinality(t) <= 0} |-> SumOn(o, f, s)]
      BY <3>1 DEF SumOn
    <3> QED BY <3>2
  <2>3. PICK f : Solves(f, m - 1)
    <3>1. m \in Nat /\ m - 1 \in Nat /\ m - 1 < m
      BY <2>2
    <3>2. m - 1 \notin Bad
      <4> HIDE DEF Bad
      <4> QED BY <2>1, <3>1
    <3> HIDE DEF Solves
    <3> QED BY <3>1, <3>2
  <2> DEFINE D == {t \in SUBSET S : Cardinality(t) <= m}
             g == [s \in D |-> SumOn(o, f, s)]
  <2>4. \A s \in D : SumOn(o, g, s) = SumOn(o, f, s)
    <3> SUFFICES ASSUME NEW s \in D, s # {} PROVE g[s \ {Any(s)}] = f[s \ {Any(s)}]
      <4> HIDE DEF D, g
      <4> QED BY DEF SumOn
    <3>1. s \ {Any(s)} \in SUBSET S /\ Cardinality(s \ {Any(s)}) <= m - 1
      BY <1>1, <1>2
    <3>2. s \ {Any(s)} \in D
      BY <1>1, <3>1
    <3> QED BY <2>3, <3>1, <3>2
  <2>5. g = [s \in D |-> SumOn(o, g, s)]
    BY <2>4
  <2> QED BY <2>1, <2>5
<1>4. PICK f : Solves(f, Cardinality(S))
  BY <1>1, <1>3
<1>5. {t \in SUBSET S : Cardinality(t) <= Cardinality(S)} = SUBSET S
  BY <1>1
<1> QED BY <1>4, <1>5

\* The fold satisfies its definition.
LEMMA SumsAre ==
  ASSUME NEW o, NEW S, IsFiniteSet(S), NEW s \in SUBSET S
  PROVE  Sums(o, S)[s] = SumOn(o, Sums(o, S), s)
<1>1. Sums(o, S) = [t \in SUBSET S |-> SumOn(o, Sums(o, S), t)]
  BY SumsExist DEF Sums
<1> QED BY <1>1

\* A sum depends only on the quantities of the slots that are summed.
LEMMA SumSame ==
  ASSUME NEW o, NEW p, NEW S, NEW T, IsFiniteSet(S), IsFiniteSet(T),
         \A x \in S : o[x].qty = p[x].qty
  PROVE  \A s \in SUBSET (S \cap T) : Sums(o, S)[s] = Sums(p, T)[s]
<1> DEFINE Bad == {s \in SUBSET (S \cap T) : Sums(o, S)[s] # Sums(p, T)[s]}
<1> SUFFICES ASSUME Bad # {} PROVE FALSE
  OBVIOUS
<1>1. PICK s \in Bad : \A t \in Bad : t \subseteq s => t = s
  <2>1. IsFiniteSet(S \cap T) /\ Bad \in SUBSET (SUBSET (S \cap T))
    BY FS_Intersection
  <2> HIDE DEF Bad
  <2> QED BY <2>1, LeastSubset
<1>2. /\ Sums(o, S)[s] = SumOn(o, Sums(o, S), s)
      /\ Sums(p, T)[s] = SumOn(p, Sums(p, T), s)
  BY SumsAre
<1>3. CASE s = {}
  BY <1>2, <1>3 DEF SumOn
<1>4. CASE s # {}
  <2>1. Any(s) \in s
    BY <1>4 DEF Any
  <2>2. s \ {Any(s)} \in SUBSET (S \cap T) /\ s \ {Any(s)} \notin Bad
    BY <1>1, <2>1
  <2>3. Sums(o, S)[s \ {Any(s)}] = Sums(p, T)[s \ {Any(s)}]
    BY <2>2
  <2> QED BY <1>2, <1>4, <2>1, <2>3 DEF SumOn
<1> QED BY <1>3, <1>4

\* A sum over subsets of S is a natural number, and any element can be taken
\* out first.
LEMMA SumsTake ==
  ASSUME NEW o, NEW S, IsFiniteSet(S), \A x \in S : o[x].qty \in Nat
  PROVE  \A s \in SUBSET S :
           /\ Sums(o, S)[s] \in Nat
           /\ \A x \in s : Sums(o, S)[s] = o[x].qty + Sums(o, S)[s \ {x}]
<1> DEFINE f == Sums(o, S)
           Good(s) == f[s] \in Nat /\ \A x \in s : f[s] = o[x].qty + f[s \ {x}]
           Bad == {s \in SUBSET S : ~Good(s)}
<1> SUFFICES ASSUME Bad # {} PROVE FALSE
  OBVIOUS
<1>1. PICK s \in Bad : \A t \in Bad : t \subseteq s => t = s
  <2>1. Bad \in SUBSET (SUBSET S)
    OBVIOUS
  <2> HIDE DEF Bad
  <2> QED BY <2>1, LeastSubset
<1>2. \A t \in SUBSET S : f[t] = SumOn(o, f, t)
  BY SumsAre
<1>3. \A t : t \subseteq s /\ t # s => Good(t)
  BY <1>1
<1>4. CASE s = {}
  <2>1. f[{}] = 0
    BY <1>2 DEF SumOn
  <2> QED BY <1>1, <1>4, <2>1
<1>5. CASE s # {}
  <2> DEFINE y == Any(s)
  <2>1. y \in s /\ o[y].qty \in Nat /\ f[s] = o[y].qty + f[s \ {y}]
    BY <1>2, <1>5 DEF Any, SumOn
  <2> HIDE DEF f, y
  <2>2. f[s] \in Nat
    BY <1>3, <2>1
  <2>3. ASSUME NEW x \in s, x # y PROVE f[s] = o[x].qty + f[s \ {x}]
    <3>1. f[s \ {y}] = o[x].qty + f[(s \ {y}) \ {x}]
      BY <1>3, <2>1, <2>3
    <3>2. f[s \ {x}] = o[y].qty + f[(s \ {x}) \ {y}]
      BY <1>3, <2>1, <2>3
    <3>3. (s \ {y}) \ {x} = (s \ {x}) \ {y}
      OBVIOUS
    <3>4. o[x].qty \in Nat /\ f[(s \ {x}) \ {y}] \in Nat
      <4>1. (s \ {x}) \ {y} \subseteq s /\ (s \ {x}) \ {y} # s
        BY <2>1
      <4> QED BY <1>3, <4>1
    <3>5. \A i, j, k \in Nat : i + (j + k) = j + (i + k)
      OBVIOUS
    <3> DEFINE b == f[(s \ {x}) \ {y}]
    <3>6. f[s] = o[y].qty + (o[x].qty + b) /\ f[s \ {x}] = o[y].qty + b
      BY <2>1, <3>1, <3>2, <3>3
    <3> QED BY <2>1, <3>4, <3>5, <3>6
  <2> QED BY <1>1, <2>1, <2>2, <2>3
<1> QED BY <1>4, <1>5

\* Any element can be taken out of a sum.
LEMMA SumWithout ==
  ASSUME NEW o, NEW S, IsFiniteSet(S), \A x \in S : o[x].qty \in Nat
  PROVE  /\ Sum(o, S) \in Nat
         /\ \A x \in S : Sum(o, S) = o[x].qty + Sum(o, S \ {x})
<1>1. ASSUME NEW x \in S PROVE Sums(o, S)[S \ {x}] = Sum(o, S \ {x})
  <2>1. IsFiniteSet(S \ {x}) /\ S \cap (S \ {x}) = S \ {x}
    BY FS_Subset
  <2> QED BY <2>1, SumSame DEF Sum
<1>2. S \in SUBSET S
  OBVIOUS
<1>3. Sums(o, S)[S] \in Nat /\ \A x \in S : Sums(o, S)[S] = o[x].qty + Sums(o, S)[S \ {x}]
  BY <1>2, SumsTake
<1> QED BY <1>1, <1>3 DEF Sum

\* Pools that agree on a set have the same sum over it.
LEMMA SumAgrees ==
  ASSUME NEW o, NEW p, NEW S, IsFiniteSet(S), \A x \in S : o[x].qty = p[x].qty
  PROVE  Sum(o, S) = Sum(p, S)
BY SumSame DEF Sum

\* The empty sum.
LEMMA SumOfNone == \A o : Sum(o, {}) = 0
<1>1. \A o : Sums(o, {})[{}] = SumOn(o, Sums(o, {}), {})
  BY SumsAre, FS_EmptySet
<1> QED BY <1>1 DEF Sum, SumOn

\* What a step can do to the book: nothing, place an order, remove one, or
\* reduce the one that is being matched.
LEMMA StoreSteps ==
  ASSUME IInv, [Next]_vars
  PROVE  \/ UNCHANGED store
         \/ \E id, side, price, qty : CanPlace(id, side, price, qty) /\ Place(id, side, price, qty)
         \/ \E idx \in Live : RemoveOrder(idx)
         \/ FillIncoming
<1>1. ASSUME NEW id \in OrderIds, NEW side \in Sides, NEW price \in Nat, NEW qty \in Qtys,
             Rest(id, side, price, qty)
      PROVE  UNCHANGED store \/ (CanPlace(id, side, price, qty) /\ Place(id, side, price, qty))
  BY <1>1, ClobAssumption DEF Rest, CanPlace, ValidPrice, Prices, Qtys
<1>2. ASSUME NEW id \in OrderIds, NEW side \in Sides, NEW price \in InputPrices, NEW qty \in InputQtys,
             AddOrder(id, side, price, qty)
      PROVE  UNCHANGED store \/ (CanPlace(id, side, price, qty) /\ Place(id, side, price, qty))
  <2>1. price \in Nat /\ qty \in Qtys
    BY ClobAssumption
  <2> QED BY <1>1, <1>2, <2>1 DEF AddOrder
<1>3. ASSUME NEW id \in OrderIds, CancelOrder(id)
      PROVE  UNCHANGED store \/ \E idx \in Live : RemoveOrder(idx)
  BY <1>3 DEF CancelOrder, IInv, BookInv, StoreInv, PoolPartition
<1>4. ASSUME FinishSubmit
      PROVE  UNCHANGED store \/ (CanPlace(call.order_id, call.side, call.price, call.qty)
                                  /\ Place(call.order_id, call.side, call.price, call.qty))
  <2>1. /\ call.order_id \in OrderIds /\ call.side \in Sides /\ call.price \in Nat
        /\ call.qty \in Qtys
    BY <1>4, ClobAssumption DEF IInv, CallInv, FinishSubmit, Call, Prices
  <2> QED BY <1>1, <1>4, <2>1 DEF FinishSubmit
<1>5. ASSUME FillResting PROVE \E idx \in Live : RemoveOrder(idx)
  BY <1>5, MakerLive DEF FillResting
<1> QED BY <1>2, <1>3, <1>4, <1>5 DEF Next, ExchangeNext, Matching, SubmitLimitOrder, EnterLevel, LeaveLevel, vars, store

\* A level's total with the fold named.
LEMMA TotalsAre ==
  /\ LevelTotals = \A s \in Sides, p \in Prices : levels[s][p].total_qty = Sum(orders, LiveAt(s, p)) % QtyMod
  /\ LevelTotals' = \A s \in Sides, p \in Prices :
                      levels'[s][p].total_qty = Sum(orders', LiveAt(s, p)') % QtyMod
BY DEF LevelTotals, FSX!MapThenSumSet, FSX!MapThenFoldSet, Sum, Sums, SumOn, Any

\* The orders of a level are finitely many and their quantities naturals.
LEMMA LevelSums ==
  ASSUME StoreInv, NEW s \in Sides, NEW p \in Prices
  PROVE  /\ LiveAt(s, p) \subseteq Idx /\ LiveAt(s, p) \subseteq Live /\ IsFiniteSet(LiveAt(s, p))
         /\ \A i \in LiveAt(s, p) : orders[i].qty \in Nat
         /\ Sum(orders, LiveAt(s, p)) \in Nat
<1>1. LiveAt(s, p) \in SUBSET Idx /\ LiveAt(s, p) \subseteq Live
  BY DEF LiveAt, Live
<1>2. IsFiniteSet(LiveAt(s, p))
  BY <1>1, IdxFinite
<1>3. \A i \in LiveAt(s, p) : orders[i].qty \in Nat
  BY <1>1, ClobAssumption DEF StoreInv, SlotsOK, Order, Qtys
<1> QED BY <1>1, <1>2, <1>3, SumWithout

\* append_to_level adds the order's quantity to its level's total.
LEMMA PlaceTotals ==
  ASSUME StoreInv, LevelTotals, NEW id, NEW side, NEW price, NEW qty,
         CanPlace(id, side, price, qty), Place(id, side, price, qty)
  PROVE  LevelTotals'
<1> SUFFICES ASSUME NEW s \in Sides, NEW p \in Prices
             PROVE  levels'[s][p].total_qty = Sum(orders', LiveAt(s, p)') % QtyMod
  BY TotalsAre
<1> DEFINE A == LiveAt(s, p)
           l == levels[s][p]
<1>1. /\ A \subseteq Live /\ IsFiniteSet(A) /\ Sum(orders, A) \in Nat
      /\ \A i \in A : orders[i].qty \in Nat
      /\ l.total_qty = Sum(orders, A) % QtyMod
  BY LevelSums, TotalsAre
<1>2. /\ Top \notin Live /\ orders'[Top].qty = qty /\ qty \in Nat
      /\ \A i \in Live : orders'[i].qty = orders[i].qty
      /\ LiveAt(s, p)' = IF s = side /\ p = price THEN A \cup {Top} ELSE A
  BY PlacePool, ClobAssumption DEF CanPlace, Qtys
<1>3. levels'[s][p] = IF s = side /\ p = price THEN LevelWith(l, Top, qty) ELSE l
  BY PlaceLevels
<1> HIDE DEF A, l
<1>4. Sum(orders', A) = Sum(orders, A)
  BY <1>1, <1>2, SumAgrees
<1>5. CASE s = side /\ p = price
  <2>1. IsFiniteSet(A \cup {Top}) /\ (A \cup {Top}) \ {Top} = A /\ \A i \in A \cup {Top} : orders'[i].qty \in Nat
    BY <1>1, <1>2, FS_AddElement
  <2>2. Sum(orders', A \cup {Top}) = qty + Sum(orders, A)
    BY <2>1, <1>2, <1>4, SumWithout
  <2>3. levels'[s][p].total_qty = (l.total_qty + qty) % QtyMod
    BY <1>3, <1>5 DEF LevelWith
  <2> QED BY <1>1, <1>2, <1>5, <2>2, <2>3, ModAdd, ClobAssumption
<1>6. CASE ~(s = side /\ p = price)
  BY <1>1, <1>2, <1>3, <1>4, <1>6
<1> QED BY <1>5, <1>6

\* unlink_from_level takes the order's quantity from its level's total.
LEMMA RemoveTotals ==
  ASSUME StoreInv, LevelTotals, NEW idx \in Live, RemoveOrder(idx)
  PROVE  LevelTotals'
<1> SUFFICES ASSUME NEW s \in Sides, NEW p \in Prices
             PROVE  levels'[s][p].total_qty = Sum(orders', LiveAt(s, p)') % QtyMod
  BY TotalsAre
<1> DEFINE A == LiveAt(s, p)
           l == levels[s][p]
           o == orders[idx]
<1>1. /\ A \subseteq Live /\ IsFiniteSet(A) /\ Sum(orders, A) \in Nat
      /\ \A i \in A : orders[i].qty \in Nat
      /\ l.total_qty = Sum(orders, A) % QtyMod
  BY LevelSums, TotalsAre
<1>2. /\ \A i \in Live \ {idx} : orders'[i].qty = orders[i].qty
      /\ LiveAt(s, p)' = A \ {idx}
  BY RemovePool
<1>3. /\ levels'[s][p] = IF s = o.side /\ p = o.price THEN LevelWithout(l, o) ELSE l
      /\ idx \in A <=> s = o.side /\ p = o.price
  BY RemoveLevels DEF LiveAt
<1> HIDE DEF A, l
<1>4. Sum(orders', A \ {idx}) = Sum(orders, A \ {idx})
  BY <1>1, <1>2, SumAgrees, FS_Subset
<1>5. CASE idx \in A
  <2>1. Sum(orders, A) = o.qty + Sum(orders, A \ {idx}) /\ o.qty \in Nat
    BY <1>1, <1>5, SumWithout
  <2>2. Sum(orders, A \ {idx}) \in Nat
    BY <1>1, SumWithout, FS_Subset
  <2>3. Sum(orders, A \ {idx}) = Sum(orders, A) + (0 - o.qty)
    BY <2>1, <2>2
  <2>4. levels'[s][p].total_qty = (l.total_qty + (0 - o.qty)) % QtyMod
    <3>1. l.total_qty \in Nat
      BY <1>1, DivMod, ClobAssumption
    <3>2. levels'[s][p] = LevelWithout(l, o)
      BY <1>3, <1>5
    <3>3. levels'[s][p].total_qty = (l.total_qty - o.qty) % QtyMod
      <4>1. LevelWithout(l, o).total_qty = Less(l.total_qty, o.qty)
        BY DEF LevelWithout
      <4> QED BY <3>2, <4>1 DEF Less
    <3>4. \A a, b \in Nat : a - b = a + (0 - b)
      OBVIOUS
    <3> QED BY <2>1, <3>1, <3>3, <3>4
  <2>5. 0 - o.qty \in Int
    BY <2>1
  <2>6. ((Sum(orders, A) % QtyMod) + (0 - o.qty)) % QtyMod = (Sum(orders, A) + (0 - o.qty)) % QtyMod
    <3> HIDE DEF o
    <3> QED BY <1>1, <2>5, ModAdd, ClobAssumption
  <2> QED BY <1>1, <1>2, <1>4, <2>3, <2>4, <2>6
<1>6. CASE idx \notin A
  <2>1. A \ {idx} = A
    BY <1>6
  <2> QED BY <1>1, <1>2, <1>3, <1>4, <1>6, <2>1
<1> QED BY <1>5, <1>6

\* A partial fill takes what it fills from the order and from the level.
LEMMA FillTotals ==
  ASSUME IInv, LevelTotals, FillIncoming
  PROVE  LevelTotals'
<1> SUFFICES ASSUME NEW s \in Sides, NEW p \in Prices
             PROVE  levels'[s][p].total_qty = Sum(orders', LiveAt(s, p)') % QtyMod
  BY TotalsAre
<1> DEFINE A == LiveAt(s, p)
           l == levels[s][p]
           q == call.qty
           m == Maker
<1>1. /\ A \subseteq Live /\ A \subseteq Idx /\ IsFiniteSet(A) /\ Sum(orders, A) \in Nat
      /\ \A i \in A : orders[i].qty \in Nat
      /\ l.total_qty = Sum(orders, A) % QtyMod
  BY LevelSums, TotalsAre DEF IInv, BookInv
<1>2. /\ Opposite(call.side) \in Sides /\ lvl \in Prices /\ m \in Idx /\ m \in Live
      /\ orders[m].side = Opposite(call.side) /\ orders[m].price = lvl
      /\ q \in Nat /\ orders[m].qty \in Nat /\ q < orders[m].qty
  BY MakerLive, ClobAssumption DEF FillIncoming, Qtys
<1>3. /\ orders \in [Idx -> Order] /\ levels \in [Sides -> [Prices -> Level]]
      /\ orders' = [orders EXCEPT ![m].qty = @ - q] /\ free_stack' = free_stack
      /\ levels' = [levels EXCEPT ![Opposite(call.side)][lvl].total_qty = Less(@, q)]
  BY DEF FillIncoming, IInv, BookInv, StoreInv, SlotsOK
<1>4. LiveAt(s, p)' = A
  BY <1>2, <1>3 DEF LiveAt, Live, FreeSlots, Order
<1>5. /\ orders'[m].qty = orders[m].qty - q
      /\ \A i \in A \ {m} : orders'[i].qty = orders[i].qty
  BY <1>1, <1>2, <1>3 DEF Order
<1>6. m \in A <=> s = Opposite(call.side) /\ p = lvl
  BY <1>2 DEF LiveAt
<1>7. levels'[s][p].total_qty = IF m \in A THEN Less(l.total_qty, q) ELSE l.total_qty
  BY <1>2, <1>3, <1>6 DEF Level
<1> HIDE DEF A, l, q, m
<1>8. Sum(orders', A \ {m}) = Sum(orders, A \ {m})
  BY <1>1, <1>5, SumAgrees, FS_Subset
<1>9. CASE m \in A
  <2>1. \A i \in A : orders'[i].qty \in Nat
    BY <1>1, <1>2, <1>5
  <2>2. /\ Sum(orders, A) = orders[m].qty + Sum(orders, A \ {m})
        /\ Sum(orders', A) = orders'[m].qty + Sum(orders', A \ {m})
    <3>1. Sum(orders, A) = orders[m].qty + Sum(orders, A \ {m})
      BY <1>1, <1>9, SumWithout
    <3>2. Sum(orders', A) = orders'[m].qty + Sum(orders', A \ {m})
      BY <1>1, <1>9, <2>1, SumWithout
    <3> QED BY <3>1, <3>2
  <2>3. Sum(orders, A \ {m}) \in Nat
    BY <1>1, SumWithout, FS_Subset
  <2>4. Sum(orders', A) = Sum(orders, A) + (0 - q)
    BY <1>2, <1>5, <1>8, <2>2, <2>3
  <2>5. Less(l.total_qty, q) = (l.total_qty + (0 - q)) % QtyMod
    <3>1. l.total_qty \in Nat
      BY <1>1, DivMod, ClobAssumption
    <3> QED BY <1>2, <3>1 DEF Less
  <2> QED BY <1>1, <1>2, <1>4, <1>7, <1>9, <2>4, <2>5, ModAdd, ClobAssumption
<1>10. CASE m \notin A
  <2>1. A \ {m} = A
    BY <1>10
  <2> QED BY <1>1, <1>4, <1>7, <1>8, <1>10, <2>1
<1> QED BY <1>9, <1>10

\* The slots that are not on the free stack are as many as it leaves out.
LEMMA LiveCount ==
  ASSUME StoreInv
  PROVE  IsFiniteSet(Live) /\ Cardinality(Live) = MaxOrders - Len(free_stack)
<1> DEFINE g == [n \in 1..Len(free_stack) |-> free_stack[n]]
<1>1. /\ free_stack \in Seq(Idx) /\ MaxOrders \in Nat \ {0}
      /\ \A m, n \in 1..Len(free_stack) : free_stack[m] = free_stack[n] => m = n
  BY ClobAssumption DEF StoreInv, SlotsOK, PoolPartition
<1>2. Len(free_stack) \in Nat /\ FreeSlots = {free_stack[n] : n \in 1..Len(free_stack)}
      /\ FreeSlots \subseteq Idx
  BY <1>1 DEF FreeSlots
<1>3. g \in Bijection(1..Len(free_stack), FreeSlots)
  BY <1>1, <1>2 DEF Bijection, Injection, Surjection, IsInjective
<1> HIDE DEF g
<1>4. Cardinality(FreeSlots) = Len(free_stack)
  <2>0. Len(free_stack) \in Nat
    BY <1>2
  <2>1. IsFiniteSet(1..Len(free_stack)) /\ Cardinality(1..Len(free_stack)) = Len(free_stack)
    BY ONLY <2>0, FS_Interval
  <2>2. ExistsBijection(1..Len(free_stack), FreeSlots)
    BY <1>3 DEF ExistsBijection
  <2> QED BY <2>1, <2>2, FS_Bijection
<1>5. IsFiniteSet(Idx) /\ Cardinality(Idx) = MaxOrders
  BY <1>1, FS_Interval DEF Idx
<1>6. Idx \cap FreeSlots = FreeSlots
  BY <1>2
<1>7. /\ IsFiniteSet(Idx \ FreeSlots)
      /\ Cardinality(Idx \ FreeSlots) = Cardinality(Idx) - Cardinality(Idx \cap FreeSlots)
  BY <1>5, FS_Difference
<1> QED BY <1>4, <1>5, <1>6, <1>7 DEF Live

\* The level totals start exact, and every step keeps them so.
LEMMA InitTotals == Init => LevelTotals
<1> SUFFICES ASSUME Init, NEW s \in Sides, NEW p \in Prices
             PROVE  levels[s][p].total_qty = Sum(orders, LiveAt(s, p)) % QtyMod
  BY TotalsAre
<1>1. IInv /\ levels[s][p] = EmptyLevel
  BY InitInv DEF Init
<1>2. LiveAt(s, p) = {}
  BY <1>1, EmptyLevels DEF IInv, BookInv, EmptyLevel
<1>3. 0 % QtyMod = 0
  BY ClobAssumption, SMT
<1> QED BY <1>1, <1>2, <1>3, SumOfNone DEF EmptyLevel

LEMMA NextTotals == IInv /\ LevelTotals /\ [Next]_vars => LevelTotals'
<1> SUFFICES ASSUME IInv, LevelTotals, [Next]_vars PROVE LevelTotals'
  OBVIOUS
<1>1. CASE UNCHANGED store
  <2>1. orders' = orders /\ levels' = levels /\ \A s, p : LiveAt(s, p)' = LiveAt(s, p)
    BY <1>1 DEF store, LiveAt, Live, FreeSlots
  <2> QED BY <2>1, TotalsAre
<1> QED BY <1>1, StoreSteps, PlaceTotals, RemoveTotals, FillTotals DEF IInv, BookInv

\* The level totals are exact, modulo the width of Quantity, in every reachable state.
THEOREM TotalsExact == Spec => []LevelTotals
BY InitTotals, NextTotals, Invariance, PTL DEF Spec
------------------------------------------------------------------------------
(* The level chains: walking the links meets the slots in rank order.       *)

\* What the n-th slot of a walk is, given those before it.
WalkStep(start, link, at, n) ==
  IF n = 1 THEN start ELSE IF at[n - 1] = NullIndex THEN NullIndex ELSE link[at[n - 1]]

\* The recursive definition of a walk has a solution.
LEMMA WalkExists ==
  ASSUME NEW start, NEW link
  PROVE  \A m \in Nat : \E f : f = [n \in 1..m |-> WalkStep(start, link, f, n)]
<1> DEFINE Solves(f, m) == f = [n \in 1..m |-> WalkStep(start, link, f, n)]
           Bad == {m \in Nat : ~\E f : Solves(f, m)}
<1> SUFFICES ASSUME Bad # {} PROVE FALSE
  OBVIOUS
<1>1. PICK m \in Bad : \A n \in Bad : m <= n
  <2>1. Bad \in SUBSET Nat
    OBVIOUS
  <2> HIDE DEF Bad
  <2> QED BY <2>1, LeastNatural
<1>2. m \in Nat /\ ~\E f : Solves(f, m)
  OBVIOUS
<1>3. m # 0
  <2> DEFINE f == [n \in 1..0 |-> 0]
  <2>1. Solves(f, 0)
    OBVIOUS
  <2> QED BY <1>2, <2>1
<1>4. PICK f : Solves(f, m - 1)
  <2>1. m - 1 \in Nat /\ ~(m <= m - 1)
    BY <1>2, <1>3
  <2>2. m - 1 \notin Bad
    <3> HIDE DEF Bad
    <3> QED BY <1>1, <2>1
  <2> HIDE DEF Solves
  <2> QED BY <2>1, <2>2
<1> DEFINE g == [n \in 1..m |-> WalkStep(start, link, f, n)]
<1>5. \A n \in 1..(m - 1) : g[n] = f[n]
  BY <1>2, <1>3, <1>4
<1>6. \A n \in 1..m : WalkStep(start, link, g, n) = WalkStep(start, link, f, n)
  <2> HIDE DEF g
  <2> QED BY <1>2, <1>5 DEF WalkStep
<1>7. Solves(g, m)
  BY <1>6
<1> QED BY <1>2, <1>7

\* A walk steps along the links.
LEMMA WalkIs ==
  ASSUME NEW start, NEW link
  PROVE  /\ Walk(start, link)[1] = start
         /\ \A n \in 1..MaxOrders :
              Walk(start, link)[n + 1] = IF Walk(start, link)[n] = NullIndex THEN NullIndex
                                         ELSE link[Walk(start, link)[n]]
<1>1. MaxOrders + 1 \in Nat
  BY ClobAssumption
<1>2. \E f : f = [n \in 1..(MaxOrders + 1) |-> WalkStep(start, link, f, n)]
  BY <1>1, WalkExists
<1>3. Walk(start, link) = [n \in 1..(MaxOrders + 1) |-> WalkStep(start, link, Walk(start, link), n)]
  BY <1>2 DEF Walk, WalkStep
<1>4. \A n \in 1..(MaxOrders + 1) : Walk(start, link)[n] = WalkStep(start, link, Walk(start, link), n)
  BY <1>3
<1>5. 1 \in 1..(MaxOrders + 1) /\ \A n \in 1..MaxOrders : n + 1 \in 1..(MaxOrders + 1) /\ n + 1 # 1 /\ (n + 1) - 1 = n
  BY ClobAssumption
<1> QED BY <1>4, <1>5 DEF WalkStep

\* The place of slot i of A when A is put in the order of rank.
Position(rank, A, i) == Cardinality({j \in A : rank[j] <= rank[i]})

\* What ranks must be like to put A in order.
Ranks(rank, A) ==
  /\ A \subseteq Idx
  /\ \A i \in A : rank[i] \in Nat
  /\ \A i, j \in A : rank[i] = rank[j] => i = j

\* A slot of lower rank has an earlier place.
LEMMA PositionsGrow ==
  ASSUME NEW rank, NEW A, Ranks(rank, A), NEW i \in A, NEW j \in A, rank[i] < rank[j]
  PROVE  /\ Position(rank, A, i) \in Nat /\ Position(rank, A, j) \in Nat
         /\ Position(rank, A, i) < Position(rank, A, j)
<1> DEFINE U == {k \in A : rank[k] <= rank[i]}
           V == {k \in A : rank[k] <= rank[j]}
<1>1. U \subseteq V /\ j \in V /\ j \notin U /\ U \in SUBSET Idx /\ V \in SUBSET Idx
  BY DEF Ranks
<1> HIDE DEF U, V
<1>2. IsFiniteSet(V) /\ Cardinality(U) \in Nat /\ Cardinality(V) \in Nat
  BY <1>1, IdxFinite
<1>3. Cardinality(U) < Cardinality(V)
  BY <1>1, <1>2, FS_Subset
<1> QED BY <1>2, <1>3 DEF Position, U, V

\* Places are numbered from 1, each taken by one slot; the next slot in order has
\* the next place.
LEMMA Places ==
  ASSUME NEW rank, NEW A, Ranks(rank, A)
  PROVE  /\ \A i \in A : Position(rank, A, i) \in 1..Cardinality(A)
         /\ \A k \in 1..Cardinality(A) : \E i \in A : Position(rank, A, i) = k
         /\ \A i, k \in A : Follows(rank, A, i, k) => Position(rank, A, k) = Position(rank, A, i) + 1
         /\ \A i \in A : (\A j \in A : rank[i] <= rank[j]) => Position(rank, A, i) = 1
         /\ \A i \in A : (\A j \in A : rank[j] <= rank[i]) => Position(rank, A, i) = Cardinality(A)
<1> DEFINE U(i) == {j \in A : rank[j] <= rank[i]}
<1>1. IsFiniteSet(A) /\ Cardinality(A) \in Nat /\ Cardinality(A) \in 0..MaxOrders
  BY IdxFinite, ClobAssumption DEF Ranks
<1>2. \A i \in A : /\ U(i) \subseteq A /\ i \in U(i) /\ IsFiniteSet(U(i))
                   /\ Cardinality(U(i)) \in 1..Cardinality(A)
  <2> SUFFICES ASSUME NEW i \in A
               PROVE  /\ U(i) \subseteq A /\ i \in U(i) /\ IsFiniteSet(U(i))
                      /\ Cardinality(U(i)) \in 1..Cardinality(A)
    OBVIOUS
  <2>1. U(i) \subseteq A /\ i \in U(i)
    BY DEF Ranks
  <2> HIDE DEF U
  <2>2. IsFiniteSet(U(i)) /\ Cardinality(U(i)) <= Cardinality(A) /\ Cardinality(U(i)) \in Nat
        /\ Cardinality(U(i)) # 0
    BY <1>1, <2>1, FS_Subset, FS_CardinalityType, FS_EmptySet
  <2> QED BY <1>1, <2>1, <2>2
<1>3. ASSUME NEW i \in A, NEW j \in A, rank[i] < rank[j]
      PROVE  Cardinality(U(i)) < Cardinality(U(j))
  BY <1>3, PositionsGrow DEF Position
<1>4. ASSUME NEW i \in A, NEW k \in A, Follows(rank, A, i, k), k # NullIndex
      PROVE  Cardinality(U(k)) = Cardinality(U(i)) + 1
  <2>1. rank[i] < rank[k] /\ \A j \in A : rank[j] <= rank[i] \/ rank[k] <= rank[j]
    BY <1>4 DEF Follows
  <2>2. U(k) = U(i) \cup {k} /\ k \notin U(i)
    BY <2>1 DEF Ranks
  <2>3. IsFiniteSet(U(i))
    BY <1>2
  <2> HIDE DEF U
  <2> QED BY <2>2, <2>3, FS_AddElement
<1>5. ASSUME NEW i \in A, \A j \in A : rank[i] <= rank[j]
      PROVE  Cardinality(U(i)) = 1
  <2>1. U(i) = {i}
    BY <1>5 DEF Ranks
  <2> HIDE DEF U
  <2> QED BY <2>1, FS_Singleton
<1>6. ASSUME NEW i \in A, \A j \in A : rank[j] <= rank[i]
      PROVE  Cardinality(U(i)) = Cardinality(A)
  <2>1. U(i) = A
    BY <1>6
  <2> HIDE DEF U
  <2> QED BY <2>1
<1>7. \A k \in 1..Cardinality(A) : \E i \in A : Cardinality(U(i)) = k
  <2> DEFINE c == [i \in A |-> Cardinality(U(i))]
             T == 1..Cardinality(A)
  <2>1. c \in [A -> T]
    <3> HIDE DEF U
    <3> QED BY <1>2
  <2>2. \A i, j \in A : i # j => c[i] # c[j]
    <3> SUFFICES ASSUME NEW i \in A, NEW j \in A, i # j PROVE Cardinality(U(i)) # Cardinality(U(j))
      OBVIOUS
    <3>1. rank[i] < rank[j] \/ rank[j] < rank[i]
      BY DEF Ranks
    <3>2. Cardinality(U(i)) \in Nat /\ Cardinality(U(j)) \in Nat
      <4> HIDE DEF U
      <4> QED BY <1>1, <1>2
    <3> HIDE DEF U
    <3> QED BY <1>3, <3>1, <3>2
  <2>3. IsFiniteSet(T) /\ Cardinality(T) = Cardinality(A)
    BY <1>1, FS_Interval
  <2> HIDE DEF c, T
  <2>4. c \in Injection(A, T)
    BY <2>1, <2>2 DEF Injection, IsInjective
  <2>5. c \in Surjection(A, T)
    BY <2>3, <2>4, FS_Injection
  <2>6. \A k \in T : \E i \in A : c[i] = k
    BY <2>5 DEF Surjection
  <2> USE DEF c, T
  <2> HIDE DEF U
  <2> QED BY <2>6
<1> QED BY <1>2, <1>4, <1>5, <1>6, <1>7, ClobAssumption DEF Position, Ranks

\* A walk from the first slot of A along links to the next slot meets the slots of
\* A in their order, and then ends.
LEMMA WalkVisits ==
  ASSUME NEW rank, NEW A, Ranks(rank, A), NEW start, NEW link,
         IF A = {} THEN start = NullIndex ELSE start \in A /\ \A j \in A : rank[start] <= rank[j],
         \A i \in A : Follows(rank, A, i, link[i])
  PROVE  /\ \A i \in A : Walk(start, link)[Position(rank, A, i)] = i
         /\ \A k \in (Cardinality(A) + 1)..(MaxOrders + 1) : Walk(start, link)[k] = NullIndex
<1> DEFINE w == Walk(start, link)
           n == Cardinality(A)
           pos(i) == Position(rank, A, i)
<1>1. n \in Nat /\ n <= MaxOrders /\ (n = 0 <=> A = {}) /\ MaxOrders \in Nat /\ NullIndex \notin A
  BY IdxFinite, ClobAssumption DEF Ranks
<1>2. /\ \A i \in A : pos(i) \in 1..n
      /\ \A k \in 1..n : \E i \in A : pos(i) = k
      /\ \A i, k \in A : Follows(rank, A, i, k) => pos(k) = pos(i) + 1
      /\ \A i \in A : (\A j \in A : rank[i] <= rank[j]) => pos(i) = 1
      /\ \A i \in A : (\A j \in A : rank[j] <= rank[i]) => pos(i) = n
  BY Places
<1>3. /\ w[1] = start
      /\ \A k \in 1..MaxOrders : w[k + 1] = IF w[k] = NullIndex THEN NullIndex ELSE link[w[k]]
  BY WalkIs
<1> HIDE DEF w, n, pos
<1> DEFINE Bad == {k \in 1..n : \E i \in A : pos(i) = k /\ w[k] # i}
<1>4. Bad = {}
  <2> SUFFICES ASSUME Bad # {} PROVE FALSE
    OBVIOUS
  <2>1. PICK k \in Bad : \A m \in Bad : k <= m
    <3>1. Bad \in SUBSET Nat
      BY <1>1
    <3> HIDE DEF Bad
    <3> QED BY <3>1, LeastNatural
  <2>2. PICK i \in A : pos(i) = k /\ w[k] # i
    OBVIOUS
  <2>3. k # 1
    <3> SUFFICES ASSUME k = 1 PROVE FALSE
      OBVIOUS
    <3>1. start \in A /\ \A j \in A : rank[start] <= rank[j]
      OBVIOUS
    <3>2. pos(start) = 1
      BY <3>1, <1>2
    <3>3. i # start
      BY <1>3, <2>2
    <3>4. rank[start] < rank[i]
      BY <3>1, <3>3 DEF Ranks
    <3>5. Position(rank, A, start) < Position(rank, A, i)
      BY <3>1, <3>4, PositionsGrow
    <3> QED BY <2>2, <3>2, <3>5 DEF pos
  <2>4. k - 1 \in 1..n /\ k - 1 \notin Bad
    <3>1. k \in 1..n /\ k - 1 \in 1..n /\ ~(k <= k - 1)
      BY <1>1, <2>3
    <3> HIDE DEF Bad
    <3> QED BY <3>1, <2>1
  <2>5. PICK j \in A : pos(j) = k - 1
    BY <1>2, <2>4
  <2>6. w[k - 1] = j
    BY <2>4, <2>5
  <2>7. Follows(rank, A, j, link[j])
    OBVIOUS
  <2>8. CASE link[j] = NullIndex
    <3>1. pos(j) = n
      BY <1>1, <1>2, <2>7, <2>8 DEF Follows
    <3> QED BY <1>1, <2>5, <3>1
  <2>9. CASE link[j] \in A
    <3>1. pos(link[j]) = k
      BY <1>1, <1>2, <2>4, <2>5, <2>7, <2>9
    <3>2. link[j] = i
      <4>1. rank[i] < rank[link[j]] \/ rank[link[j]] < rank[i] \/ i = link[j]
        BY <2>9 DEF Ranks
      <4> QED BY <2>2, <2>9, <3>1, <4>1, PositionsGrow DEF pos
    <3>3. w[k] = link[j]
      <4>1. k - 1 \in 1..MaxOrders /\ (k - 1) + 1 = k
        BY <1>1, <2>4
      <4> QED BY <1>1, <1>3, <2>6, <4>1
    <3> QED BY <2>2, <3>2, <3>3
  <2> QED BY <2>7, <2>8, <2>9 DEF Follows
<1>5. \A i \in A : w[pos(i)] = i
  BY <1>2, <1>4
<1>6. w[n + 1] = NullIndex
  <2>1. CASE A = {}
    BY <1>1, <1>3, <2>1
  <2>2. CASE A # {}
    <3>1. PICK i \in A : pos(i) = n
      BY <1>1, <1>2, <2>2
    <3>2. link[i] = NullIndex
      <4>1. Follows(rank, A, i, link[i])
        OBVIOUS
      <4>2. link[i] \in A => pos(link[i]) = n + 1 /\ pos(link[i]) \in 1..n
        BY <1>2, <3>1, <4>1
      <4> QED BY <1>1, <4>1, <4>2 DEF Follows
    <3>3. w[n] = i /\ n \in 1..MaxOrders
      BY <1>1, <1>5, <2>2, <3>1
    <3> QED BY <1>1, <1>3, <3>2, <3>3
  <2> QED BY <2>1, <2>2
<1> DEFINE Late == {k \in (n + 1)..(MaxOrders + 1) : w[k] # NullIndex}
<1>7. Late = {}
  <2> SUFFICES ASSUME Late # {} PROVE FALSE
    OBVIOUS
  <2>1. PICK k \in Late : \A m \in Late : k <= m
    <3>1. Late \in SUBSET Nat
      BY <1>1
    <3> HIDE DEF Late
    <3> QED BY <3>1, LeastNatural
  <2>2. k # n + 1 /\ k \in (n + 1)..(MaxOrders + 1)
    BY <1>6
  <2>3. k - 1 \in (n + 1)..(MaxOrders + 1) /\ ~(k <= k - 1) /\ k - 1 \in 1..MaxOrders /\ (k - 1) + 1 = k
    BY <1>1, <2>2
  <2>4. w[k - 1] = NullIndex
    BY <2>1, <2>3
  <2> QED BY <1>3, <2>1, <2>3, <2>4
<1> QED BY <1>5, <1>7 DEF w, n, pos

\* Ranks counted from the other end put A in the reverse order.
LEMMA Reversed ==
  ASSUME NEW rank \in [Idx -> Idx], NEW A, Ranks(rank, A)
  PROVE  LET rev == [i \in Idx |-> MaxOrders - rank[i]]
         IN  /\ Ranks(rev, A)
             /\ \A i, j \in A : rev[i] <= rev[j] <=> rank[j] <= rank[i]
             /\ \A i \in A : \A k : Precedes(rank, A, i, k) => Follows(rev, A, i, k)
             /\ \A i \in A : Position(rev, A, i) = Cardinality(A) + 1 - Position(rank, A, i)
<1> DEFINE rev == [i \in Idx |-> MaxOrders - rank[i]]
<1>1. \A i \in A : /\ rank[i] \in Nat /\ rank[i] < MaxOrders /\ rev[i] \in Nat
                   /\ rev[i] = MaxOrders - rank[i] /\ MaxOrders \in Nat
  <2> SUFFICES ASSUME NEW i \in A
               PROVE  /\ rank[i] \in Nat /\ rank[i] < MaxOrders /\ rev[i] \in Nat
                      /\ rev[i] = MaxOrders - rank[i] /\ MaxOrders \in Nat
    OBVIOUS
  <2>1. i \in Idx /\ rev[i] = MaxOrders - rank[i]
    BY DEF Ranks
  <2>2. rank[i] \in Idx /\ MaxOrders \in Nat
    BY <2>1, ClobAssumption
  <2> HIDE DEF rev
  <2> QED BY <2>1, <2>2 DEF Idx
<1> HIDE DEF rev
<1>2. \A i, j \in A : /\ rev[i] <= rev[j] <=> rank[j] <= rank[i]
                      /\ rev[i] < rev[j] <=> rank[j] < rank[i]
                      /\ rev[i] = rev[j] <=> rank[j] = rank[i]
  BY <1>1
<1>3. Ranks(rev, A)
  BY <1>1, <1>2 DEF Ranks
<1>4. \A i \in A : \A k : Precedes(rank, A, i, k) => Follows(rev, A, i, k)
  BY <1>2 DEF Precedes, Follows
<1>5. ASSUME NEW i \in A
      PROVE  Position(rev, A, i) = Cardinality(A) + 1 - Position(rank, A, i)
  <2> DEFINE U == {j \in A : rank[j] <= rank[i]}
             V == {j \in A : rev[j] <= rev[i]}
  <2>1. U \cup V = A /\ U \cap V = {i}
    BY <1>1, <1>2 DEF Ranks
  <2>2. U \in SUBSET Idx /\ V \in SUBSET Idx /\ A \in SUBSET Idx
    BY DEF Ranks
  <2> HIDE DEF U, V
  <2>3. IsFiniteSet(U) /\ IsFiniteSet(V) /\ Cardinality(U) \in Nat /\ Cardinality(V) \in Nat
    BY <2>2, IdxFinite
  <2>4. Cardinality(U \cup V) = Cardinality(U) + Cardinality(V) - Cardinality(U \cap V)
    BY <2>3, FS_Union
  <2>5. Cardinality(U \cap V) = 1
    BY <2>1, FS_Singleton
  <2>6. Cardinality(A) = Cardinality(U) + Cardinality(V) - 1
    BY <2>1, <2>4, <2>5
  <2>7. Cardinality(V) = Cardinality(A) + 1 - Cardinality(U)
    BY <2>3, <2>6
  <2> QED BY <2>7 DEF Position, U, V
<1> QED BY <1>2, <1>3, <1>4, <1>5 DEF rev

\* The links of each level, walked from either end, meet its live orders.
LEMMA ChainsFollow == StoreInv => LevelChains
<1> SUFFICES ASSUME StoreInv, NEW s \in Sides, NEW p \in Prices
             PROVE  LET l == levels[s][p]
                        n == l.order_count
                        f == Forward(l)
                        b == Backward(l)
                    IN  /\ n = Cardinality(LiveAt(s, p))
                        /\ {f[k] : k \in 1..n} = LiveAt(s, p)
                        /\ \A k \in 1..n : b[k] = f[n + 1 - k]
                        /\ \A k \in (n + 1)..(MaxOrders + 1) : f[k] = NullIndex /\ b[k] = NullIndex
  BY DEF LevelChains
<1> DEFINE A == LiveAt(s, p)
           l == levels[s][p]
           n == l.order_count
           next == [i \in Idx |-> orders[i].next_idx]
           prev == [i \in Idx |-> orders[i].prev_idx]
           f == Walk(l.head_idx, next)
           b == Walk(l.tail_idx, prev)
<1>1. PICK rank \in [Idx -> Idx] : LevelsOrderedBy(rank)
  BY DEF StoreInv, LevelsOrdered
<1> DEFINE rev == [i \in Idx |-> MaxOrders - rank[i]]
<1>2. Ordered(rank, A, l) /\ A \subseteq Idx /\ A \subseteq Live
  BY <1>1 DEF LevelsOrderedBy, LiveAt, Live
<1>3. Ranks(rank, A)
  <2>1. \A i \in Idx : rank[i] \in Nat
    BY ClobAssumption DEF Idx
  <2> QED BY <1>1, <1>2, <2>1 DEF LevelsOrderedBy, Ranked, Ranks
<1>4. n = Cardinality(A)
  BY DEF StoreInv, LevelCounts
<1>5. n \in Nat /\ n <= MaxOrders /\ MaxOrders \in Nat
  BY <1>2, <1>4, IdxFinite, ClobAssumption
<1>6. /\ Ranks(rev, A)
      /\ \A i, j \in A : rev[i] <= rev[j] <=> rank[j] <= rank[i]
      /\ \A i \in A : \A k : Precedes(rank, A, i, k) => Follows(rev, A, i, k)
      /\ \A i \in A : Position(rev, A, i) = Cardinality(A) + 1 - Position(rank, A, i)
  <2> HIDE DEF A
  <2> QED BY <1>3, Reversed
<1>7. /\ \A i \in A : f[Position(rank, A, i)] = i
      /\ \A k \in (n + 1)..(MaxOrders + 1) : f[k] = NullIndex
  <2>1. IF A = {} THEN l.head_idx = NullIndex
        ELSE l.head_idx \in A /\ \A j \in A : rank[l.head_idx] <= rank[j]
    BY <1>2 DEF Ordered, Ends
  <2>2. \A i \in A : Follows(rank, A, i, next[i])
    BY <1>2 DEF Ordered
  <2> HIDE DEF A, l, next, n
  <2> QED BY <1>3, <1>4, <2>1, <2>2, WalkVisits
<1>8. /\ \A i \in A : b[Position(rev, A, i)] = i
      /\ \A k \in (n + 1)..(MaxOrders + 1) : b[k] = NullIndex
  <2>1. IF A = {} THEN l.tail_idx = NullIndex
        ELSE l.tail_idx \in A /\ \A j \in A : rev[l.tail_idx] <= rev[j]
    <3> HIDE DEF rev
    <3> QED BY <1>2, <1>6 DEF Ordered, Ends
  <2>2. \A i \in A : Precedes(rank, A, i, prev[i])
    BY <1>2 DEF Ordered
  <2> HIDE DEF A, l, prev, n, rev
  <2> QED BY <1>4, <1>6, <2>1, <2>2, WalkVisits
<1>9. /\ \A i \in A : Position(rank, A, i) \in 1..n
      /\ \A k \in 1..n : \E i \in A : Position(rank, A, i) = k
  <2> HIDE DEF A, n
  <2> QED BY <1>3, <1>4, Places
<1> HIDE DEF A, n, f, b, rev
<1>10. {f[k] : k \in 1..n} = A
  BY <1>7, <1>9
<1>11. ASSUME NEW k \in 1..n
       PROVE  b[k] = f[n + 1 - k]
  <2>1. n + 1 - k \in 1..n
    BY <1>5
  <2>2. PICK i \in A : Position(rank, A, i) = n + 1 - k
    BY <1>9, <2>1
  <2>3. Position(rev, A, i) = k
    BY <1>4, <1>5, <1>6, <2>2
  <2> QED BY <1>7, <1>8, <2>2, <2>3
<1> QED BY <1>4, <1>7, <1>8, <1>10, <1>11 DEF Forward, Backward, A, n, f, b

\* Every level is one list of its live orders, in every reachable state.
THEOREM ChainsIntact == Spec => []LevelChains
<1>1. IInv => LevelChains
  BY ChainsFollow DEF IInv, BookInv
<1> QED BY <1>1, Invariance, PTL
------------------------------------------------------------------------------
(* Sequences: what InsertAt and RemoveAt return                            *)

\* What SubSeq keeps of the front and of the back of a sequence.
LEMMA Slices ==
  ASSUME NEW S, NEW q \in Seq(S), NEW k \in 1..(Len(q) + 1)
  PROVE  /\ SubSeq(q, 1, k - 1) \in Seq(S) /\ Len(SubSeq(q, 1, k - 1)) = k - 1
         /\ \A n \in 1..(k - 1) : SubSeq(q, 1, k - 1)[n] = q[n]
         /\ SubSeq(q, k, Len(q)) \in Seq(S) /\ Len(SubSeq(q, k, Len(q))) = Len(q) + 1 - k
         /\ \A n \in 1..(Len(q) + 1 - k) : SubSeq(q, k, Len(q))[n] = q[k + n - 1]
<1>1. Len(q) \in Nat /\ q \in [1..Len(q) -> S] /\ k \in Nat
  OBVIOUS
<1>2. /\ SubSeq(q, 1, k - 1) \in Seq(S) /\ Len(SubSeq(q, 1, k - 1)) = k - 1
      /\ \A n \in 1..(k - 1) : SubSeq(q, 1, k - 1)[n] = q[n]
  BY <1>1
<1>3. /\ SubSeq(q, k, Len(q)) \in Seq(S) /\ Len(SubSeq(q, k, Len(q))) = Len(q) + 1 - k
      /\ \A n \in 1..(Len(q) + 1 - k) : SubSeq(q, k, Len(q))[n] = q[k + n - 1]
  BY <1>1
<1> QED BY <1>2, <1>3

\* What joining two sequences gives.
LEMMA Joined ==
  ASSUME NEW S, NEW x \in Seq(S), NEW y \in Seq(S)
  PROVE  /\ x \o y \in Seq(S) /\ Len(x \o y) = Len(x) + Len(y)
         /\ \A n \in 1..(Len(x) + Len(y)) :
              (x \o y)[n] = IF n <= Len(x) THEN x[n] ELSE y[n - Len(x)]
OBVIOUS

\* r is q with e put in at position k; r is q without its element at position k.
IsInserted(r, q, k, e) ==
  /\ Len(r) = Len(q) + 1 /\ DOMAIN r = 1..(Len(q) + 1) /\ r[k] = e
  /\ \A n \in 1..(Len(q) + 1) : n < k => r[n] = q[n]
  /\ \A n \in 1..(Len(q) + 1) : k < n => r[n] = q[n - 1]
IsRemoved(r, q, k) ==
  /\ Len(r) = Len(q) - 1 /\ DOMAIN r = 1..(Len(q) - 1)
  /\ \A n \in 1..(Len(q) - 1) : r[n] = IF n < k THEN q[n] ELSE q[n + 1]

\* What InsertAt returns.
LEMMA InsertedAt ==
  ASSUME NEW S, NEW q \in Seq(S), NEW k \in 1..(Len(q) + 1), NEW e \in S
  PROVE  /\ SX!InsertAt(q, k, e) \in Seq(S)
         /\ IsInserted(SX!InsertAt(q, k, e), q, k, e)
<1> DEFINE x == SubSeq(q, 1, k - 1)
           y == x \o <<e>>
           z == SubSeq(q, k, Len(q))
<1>1. /\ x \in Seq(S) /\ Len(x) = k - 1 /\ \A n \in 1..(k - 1) : x[n] = q[n]
      /\ z \in Seq(S) /\ Len(z) = Len(q) + 1 - k
      /\ \A n \in 1..(Len(q) + 1 - k) : z[n] = q[k + n - 1]
  BY Slices
<1>2. SX!InsertAt(q, k, e) = y \o z /\ Len(q) \in Nat /\ k \in Nat
  BY DEF SX!InsertAt
<1> HIDE DEF x, z
<1>3. y \in Seq(S) /\ Len(y) = k /\ \A n \in 1..k : y[n] = IF n < k THEN x[n] ELSE e
  BY <1>1, <1>2
<1> HIDE DEF y
<1>4. /\ y \o z \in Seq(S) /\ Len(y \o z) = k + (Len(q) + 1 - k)
      /\ \A n \in 1..(k + (Len(q) + 1 - k)) :
           (y \o z)[n] = IF n <= k THEN y[n] ELSE z[n - k]
  BY <1>1, <1>3, Joined
<1> DEFINE r == y \o z
<1> HIDE DEF r
<1>5. \A n \in 1..(Len(q) + 1) : r[n] = IF n <= k THEN y[n] ELSE z[n - k]
  BY <1>2, <1>4 DEF r
<1>6. \A n \in 1..(Len(q) + 1) :
        r[n] = IF n < k THEN q[n] ELSE IF n = k THEN e ELSE q[n - 1]
  <2> SUFFICES ASSUME NEW n \in 1..(Len(q) + 1)
               PROVE  r[n] = IF n < k THEN q[n] ELSE IF n = k THEN e ELSE q[n - 1]
    OBVIOUS
  <2>1. CASE n <= k
    BY <1>1, <1>2, <1>3, <1>5, <2>1
  <2>2. CASE n > k
    <3>1. n - k \in 1..(Len(q) + 1 - k) /\ k + (n - k) - 1 = n - 1
      BY <1>2, <2>2
    <3>2. z[n - k] = q[n - 1]
      BY <1>1, <3>1
    <3> QED BY <1>2, <1>5, <2>2, <3>2
  <2> QED BY <1>2, <2>1, <2>2
<1>7. r \in Seq(S) /\ Len(r) = Len(q) + 1
  BY <1>2, <1>4 DEF r
<1>8. DOMAIN r = 1..(Len(q) + 1)
  BY <1>7
<1>9. IsInserted(r, q, k, e)
  BY <1>2, <1>6, <1>7, <1>8 DEF IsInserted
<1> QED BY <1>2, <1>7, <1>9 DEF r

\* What RemoveAt returns.
LEMMA RemovedAt ==
  ASSUME NEW S, NEW q \in Seq(S), NEW k \in 1..Len(q)
  PROVE  /\ SX!RemoveAt(q, k) \in Seq(S)
         /\ IsRemoved(SX!RemoveAt(q, k), q, k)
<1> DEFINE x == SubSeq(q, 1, k - 1)
           z == SubSeq(q, k + 1, Len(q))
<1>1. Len(q) \in Nat /\ k \in Nat /\ 1 <= k /\ k <= Len(q)
  OBVIOUS
<1>2. k \in 1..(Len(q) + 1) /\ k + 1 \in 1..(Len(q) + 1)
  BY <1>1
<1>3. x \in Seq(S) /\ Len(x) = k - 1 /\ \A n \in 1..(k - 1) : x[n] = q[n]
  BY <1>2, Slices
<1>4. /\ z \in Seq(S) /\ Len(z) = Len(q) + 1 - (k + 1)
      /\ \A n \in 1..(Len(q) + 1 - (k + 1)) : z[n] = q[(k + 1) + n - 1]
  BY <1>2, Slices
<1>5. SX!RemoveAt(q, k) = x \o z
  BY DEF SX!RemoveAt
<1> HIDE DEF x, z
<1>6. /\ x \o z \in Seq(S) /\ Len(x \o z) = Len(x) + Len(z)
      /\ \A n \in 1..(Len(x) + Len(z)) : (x \o z)[n] = IF n <= Len(x) THEN x[n] ELSE z[n - Len(x)]
  BY <1>3, <1>4, Joined
<1>7. Len(x) = k - 1 /\ Len(z) = Len(q) - k /\ Len(x) + Len(z) = Len(q) - 1
  BY <1>1, <1>3, <1>4
<1> DEFINE y == x \o z
<1> HIDE DEF y
<1>8. y \in Seq(S) /\ Len(y) = Len(q) - 1
  BY <1>6, <1>7 DEF y
<1>9. ASSUME NEW n \in 1..(Len(q) - 1)
      PROVE  y[n] = IF n < k THEN q[n] ELSE q[n + 1]
  <2>1. y[n] = IF n <= Len(x) THEN x[n] ELSE z[n - Len(x)]
    <3>1. n \in 1..(Len(x) + Len(z))
      BY <1>7
    <3> QED BY <1>6, <3>1 DEF y
  <2>2. CASE n < k
    BY <1>1, <1>3, <1>7, <2>1, <2>2
  <2>3. CASE ~(n < k)
    <3>1. /\ n - Len(x) \in 1..(Len(q) + 1 - (k + 1)) /\ ~(n <= Len(x))
          /\ (k + 1) + (n - Len(x)) - 1 = n + 1
      BY <1>1, <1>7, <2>3
    <3> QED BY <1>4, <2>1, <2>3, <3>1
  <2> QED BY <2>2, <2>3
<1>10. DOMAIN y = 1..(Len(q) - 1)
  BY <1>8
<1>11. IsRemoved(y, q, k)
  BY <1>8, <1>9, <1>10 DEF IsRemoved
<1> QED BY <1>5, <1>8, <1>11 DEF y

\* RemoveAt of position 1 is Tail.
LEMMA RemoveFirst ==
  ASSUME NEW S, NEW q \in Seq(S), 1 \in DOMAIN q
  PROVE  Abstract!SX!RemoveAt(q, 1) = Tail(q)
<1> DEFINE r == SX!RemoveAt(q, 1)
<1>1. Len(q) \in Nat /\ 1 \in 1..Len(q)
  OBVIOUS
<1>2. r \in Seq(S) /\ IsRemoved(r, q, 1)
  BY <1>1, RemovedAt
<1>3. Abstract!SX!RemoveAt(q, 1) = r
  BY DEF Abstract!SX!RemoveAt, SX!RemoveAt
<1> HIDE DEF r
<1>4. /\ Len(r) = Len(q) - 1 /\ \A n \in 1..(Len(q) - 1) : r[n] = q[n + 1]
  BY <1>1, <1>2 DEF IsRemoved
<1>5. /\ Tail(q) \in Seq(S) /\ Len(Tail(q)) = Len(q) - 1
      /\ \A n \in 1..(Len(q) - 1) : Tail(q)[n] = q[n + 1]
  BY <1>1
<1>6. r = Tail(q)
  BY <1>1, <1>2, <1>4, <1>5
<1> QED BY <1>3, <1>6

\* i is served before j.
Before(rank, side, i, j) ==
  \/ Improves(side, orders[i].price, orders[j].price)
  \/ orders[i].price = orders[j].price /\ rank[i] < rank[j]

\* The facts about live orders that the listings rest on.
LEMMA LiveFacts ==
  ASSUME StoreInv, NEW rank \in [Idx -> Idx], LevelsOrderedBy(rank), NEW s \in Sides
  PROVE  /\ LiveOn(s) \subseteq Live /\ LiveOn(s) \subseteq Idx /\ NullIndex \notin Idx
         /\ \A i \in LiveOn(s) : /\ rank[i] \in Nat
                                 /\ orders[i].price \in Prices /\ orders[i].price \in Nat
                                 /\ orders[i].side = s
                                 /\ i \in LiveAt(s, orders[i].price)
                                 /\ Follows(rank, LiveAt(s, orders[i].price), i, orders[i].next_idx)
                                 /\ Precedes(rank, LiveAt(s, orders[i].price), i, orders[i].prev_idx)
         /\ \A i, j \in LiveOn(s) : rank[i] = rank[j] => i = j
<1>1. LiveOn(s) \subseteq Live /\ Live \subseteq Idx /\ NullIndex \notin Idx
  BY ClobAssumption DEF LiveOn, Live
<1>2. \A i \in Idx : rank[i] \in Nat
  BY ClobAssumption DEF Idx
<1>3. \A i \in LiveOn(s) : orders[i].side = s /\ orders[i].price \in Prices /\ orders[i].price \in Nat
  BY <1>1, ImprovesOrders DEF LiveOn, StoreInv, LiveOrders
<1>4. \A i \in LiveOn(s) : i \in LiveAt(s, orders[i].price)
  BY <1>1, <1>3 DEF LiveAt
<1>5. \A i \in LiveOn(s) : /\ Follows(rank, LiveAt(s, orders[i].price), i, orders[i].next_idx)
                           /\ Precedes(rank, LiveAt(s, orders[i].price), i, orders[i].prev_idx)
  BY <1>3, <1>4 DEF LevelsOrderedBy, Ordered
<1>6. \A i, j \in LiveOn(s) : rank[i] = rank[j] => i = j
  BY <1>1 DEF LevelsOrderedBy, Ranked
<1> QED BY <1>1, <1>2, <1>3, <1>4, <1>5, <1>6

\* Orders of a side are served one after another, never the other way round.
LEMMA BeforeOrders ==
  ASSUME StoreInv, NEW rank \in [Idx -> Idx], LevelsOrderedBy(rank), NEW s \in Sides
  PROVE  /\ \A i, j, k \in LiveOn(s) :
              Before(rank, s, i, j) /\ Before(rank, s, j, k) => Before(rank, s, i, k)
         /\ \A i, j \in LiveOn(s) : ~(Before(rank, s, i, j) /\ Before(rank, s, j, i))
BY LiveFacts DEF Before, Improves

\* A listing is sorted: links within a price lead to later orders.
LEMMA ListingSorted ==
  ASSUME StoreInv, NEW rank \in [Idx -> Idx], LevelsOrderedBy(rank), NEW s \in Sides,
         NEW q, Listing(s, q)
  PROVE  \A k, m \in DOMAIN q : k < m => Before(rank, s, q[k], q[m])
<1>1. Len(q) \in Nat /\ DOMAIN q = 1..Len(q) /\ \A k \in 1..Len(q) : q[k] \in LiveOn(s)
  BY DEF Listing
<1>2. ASSUME NEW k \in 1..Len(q), k + 1 \in 1..Len(q)
      PROVE  Before(rank, s, q[k], q[k + 1])
  <2>1. q[k] \in LiveOn(s) /\ q[k + 1] \in LiveOn(s) /\ k < k + 1 /\ k < Len(q)
    BY <1>1, <1>2
  <2>2. ~Improves(s, orders[q[k + 1]].price, orders[q[k]].price)
    BY <1>1, <1>2, <2>1 DEF Listing
  <2>3. CASE orders[q[k]].price # orders[q[k + 1]].price
    BY <2>1, <2>2, <2>3, LiveFacts DEF Before, Improves
  <2>4. CASE orders[q[k]].price = orders[q[k + 1]].price
    <3>1. orders[q[k]].next_idx = q[k + 1]
      BY <1>1, <2>1, <2>4 DEF Listing
    <3>2. Follows(rank, LiveAt(s, orders[q[k]].price), q[k], q[k + 1]) /\ q[k + 1] # NullIndex
      BY <2>1, <3>1, LiveFacts
    <3> QED BY <2>4, <3>2 DEF Before, Follows
  <2> QED BY <2>3, <2>4
<1> SUFFICES ASSUME NEW k \in 1..Len(q)
             PROVE  \A m \in 1..Len(q) : k < m => Before(rank, s, q[k], q[m])
  BY <1>1
<1> DEFINE Bad == {m \in 1..Len(q) : k < m /\ ~Before(rank, s, q[k], q[m])}
<1> SUFFICES ASSUME Bad # {} PROVE FALSE
  OBVIOUS
<1>3. PICK m \in Bad : \A n \in Bad : m <= n
  <2>1. Bad \in SUBSET Nat
    OBVIOUS
  <2> HIDE DEF Bad
  <2> QED BY <2>1, LeastNatural
<1>4. m # k + 1
  BY <1>2, <1>3
<1>5. m - 1 \in 1..Len(q) /\ k < m - 1 /\ m - 1 \notin Bad /\ (m - 1) + 1 = m
  <2>1. m \in 1..Len(q) /\ k < m
    OBVIOUS
  <2>2. m - 1 \in 1..Len(q) /\ k < m - 1 /\ (m - 1) + 1 = m /\ ~(m <= m - 1)
    BY <1>1, <1>4, <2>1
  <2> HIDE DEF Bad
  <2> QED BY <1>3, <2>2
<1>6. Before(rank, s, q[k], q[m - 1]) /\ Before(rank, s, q[m - 1], q[m])
  BY <1>2, <1>5
<1>7. q[k] \in LiveOn(s) /\ q[m - 1] \in LiveOn(s) /\ q[m] \in LiveOn(s)
  BY <1>1, <1>5
<1> QED BY <1>6, <1>7, BeforeOrders

\* A side has one listing.
LEMMA ListingUnique ==
  ASSUME StoreInv, NEW s \in Sides, NEW q, NEW r, Listing(s, q), Listing(s, r)
  PROVE  q = r
<1>1. PICK rank \in [Idx -> Idx] : LevelsOrderedBy(rank)
  BY DEF StoreInv, LevelsOrdered
<1>2. /\ Len(q) \in Nat /\ DOMAIN q = 1..Len(q) /\ \A k \in 1..Len(q) : q[k] \in LiveOn(s)
      /\ Len(r) \in Nat /\ DOMAIN r = 1..Len(r) /\ \A k \in 1..Len(r) : r[k] \in LiveOn(s)
      /\ q \in Seq(LiveOn(s)) /\ r \in Seq(LiveOn(s))
  BY DEF Listing
<1>3. /\ \A i \in LiveOn(s) : \E k \in 1..Len(q) : q[k] = i
      /\ \A i \in LiveOn(s) : \E k \in 1..Len(r) : r[k] = i
      /\ \A k, m \in 1..Len(q) : k < m => q[k] # q[m] /\ Before(rank, s, q[k], q[m])
      /\ \A k, m \in 1..Len(r) : k < m => r[k] # r[m] /\ Before(rank, s, r[k], r[m])
  <2>1. /\ \A k, m \in DOMAIN q : k < m => Before(rank, s, q[k], q[m])
        /\ \A k, m \in DOMAIN r : k < m => Before(rank, s, r[k], r[m])
    BY <1>1, ListingSorted
  <2> QED BY <1>2, <2>1 DEF Listing
<1> DEFINE Bad == {k \in Nat \ {0} : \/ k \in 1..Len(q) /\ k \in 1..Len(r) /\ q[k] # r[k]
                                     \/ k \in 1..Len(q) /\ k \notin 1..Len(r)
                                     \/ k \notin 1..Len(q) /\ k \in 1..Len(r)}
<1>4. Bad = {}
  <2> SUFFICES ASSUME Bad # {} PROVE FALSE
    OBVIOUS
  <2>1. PICK k \in Bad : \A m \in Bad : k <= m
    <3>1. Bad \in SUBSET Nat
      OBVIOUS
    <3> HIDE DEF Bad
    <3> QED BY <3>1, LeastNatural
  <2>2. \A m \in 1..(k - 1) : m \in 1..Len(q) /\ m \in 1..Len(r) /\ q[m] = r[m]
    <3> SUFFICES ASSUME NEW m \in 1..(k - 1)
                 PROVE  m \in 1..Len(q) /\ m \in 1..Len(r) /\ q[m] = r[m]
      OBVIOUS
    <3>1. m \notin Bad /\ m \in Nat \ {0} /\ m < k
      <4>1. ~(k <= m) /\ m \in Nat \ {0} /\ m < k
        OBVIOUS
      <4> HIDE DEF Bad
      <4> QED BY <2>1, <4>1
    <3>2. k \in 1..Len(q) \/ k \in 1..Len(r)
      OBVIOUS
    <3> QED BY <1>2, <3>1, <3>2
  <2>3. ASSUME k \in 1..Len(q)
        PROVE  \E m \in 1..Len(r) : r[m] = q[k] /\ k <= m
    <3>1. PICK m \in 1..Len(r) : r[m] = q[k]
      BY <1>2, <1>3, <2>3
    <3>2. ~(m < k)
      BY <1>2, <1>3, <2>2, <2>3, <3>1
    <3> QED BY <1>2, <2>3, <3>1, <3>2
  <2>4. ASSUME k \in 1..Len(r)
        PROVE  \E m \in 1..Len(q) : q[m] = r[k] /\ k <= m
    <3>1. PICK m \in 1..Len(q) : q[m] = r[k]
      BY <1>2, <1>3, <2>4
    <3>2. ~(m < k)
      BY <1>2, <1>3, <2>2, <2>4, <3>1
    <3> QED BY <1>2, <2>4, <3>1, <3>2
  <2>5. CASE k \in 1..Len(q) /\ k \in 1..Len(r) /\ q[k] # r[k]
    <3>1. PICK m \in 1..Len(r) : r[m] = q[k] /\ k < m
      BY <1>2, <2>3, <2>5
    <3>2. PICK n \in 1..Len(q) : q[n] = r[k] /\ k < n
      BY <1>2, <2>4, <2>5
    <3>3. Before(rank, s, r[k], q[k]) /\ Before(rank, s, q[k], r[k])
      BY <1>3, <2>5, <3>1, <3>2
    <3> QED BY <1>1, <1>2, <2>5, <3>3, BeforeOrders
  <2>6. CASE k \in 1..Len(q) /\ k \notin 1..Len(r)
    BY <1>2, <2>3, <2>6
  <2>7. CASE k \notin 1..Len(q) /\ k \in 1..Len(r)
    BY <1>2, <2>4, <2>7
  <2> QED BY <2>5, <2>6, <2>7
<1>5. Len(q) = Len(r)
  <2>1. ~(Len(q) < Len(r))
    <3> SUFFICES ASSUME Len(q) < Len(r) PROVE FALSE
      OBVIOUS
    <3>1. Len(r) \in Bad
      BY <1>2
    <3> QED BY <1>4, <3>1
  <2>2. ~(Len(r) < Len(q))
    <3> SUFFICES ASSUME Len(r) < Len(q) PROVE FALSE
      OBVIOUS
    <3>1. Len(q) \in Bad
      BY <1>2
    <3> QED BY <1>4, <3>1
  <2>3. Len(q) \in Nat /\ Len(r) \in Nat
    BY <1>2
  <2> HIDE DEF Bad
  <2> QED BY <2>1, <2>2, <2>3
<1>6. \A k \in 1..Len(q) : q[k] = r[k]
  <2> SUFFICES ASSUME NEW k \in 1..Len(q), q[k] # r[k] PROVE FALSE
    OBVIOUS
  <2>1. k \in Bad
    BY <1>5
  <2> QED BY <1>4, <2>1
<1> QED BY <1>2, <1>5, <1>6

\* A listing is as long as its side has live orders.
LEMMA ListingLength ==
  ASSUME NEW s, NEW q, Listing(s, q)
  PROVE  Cardinality(LiveOn(s)) = Len(q) /\ q \in [1..Len(q) -> LiveOn(s)]
<1> DEFINE S == LiveOn(s)
<1>1. Len(q) \in Nat /\ q \in [1..Len(q) -> S] /\ DOMAIN q = 1..Len(q)
  BY DEF Listing
<1>2. \A k, m \in 1..Len(q) : k # m => q[k] # q[m]
  BY <1>1 DEF Listing
<1>3. q \in Bijection(1..Len(q), S)
  <2>1. \A i \in S : \E k \in 1..Len(q) : q[k] = i
    BY <1>1 DEF Listing
  <2> HIDE DEF S
  <2> QED BY <1>1, <1>2, <2>1 DEF Bijection, Injection, Surjection, IsInjective
<1>4. Cardinality(S) = Len(q)
  <2>1. IsFiniteSet(1..Len(q)) /\ Cardinality(1..Len(q)) = Len(q)
    BY <1>1, FS_Interval
  <2>2. ExistsBijection(1..Len(q), S)
    BY <1>3 DEF ExistsBijection
  <2> HIDE DEF S
  <2> QED BY <2>1, <2>2, FS_Bijection, FS_CardinalityType
<1> QED BY <1>1, <1>4

\* So Queue finds it.
QueueUnique == \A s \in Sides : \A q : Listing(s, q) => Queue(s) = q
LEMMA QueueIs == StoreInv => QueueUnique
<1> SUFFICES ASSUME StoreInv, NEW s \in Sides, NEW q, Listing(s, q)
             PROVE  Queue(s) = q
  BY DEF QueueUnique
<1> DEFINE S == LiveOn(s)
<1>1. S \subseteq Idx /\ IsFiniteSet(S)
  BY IdxFinite DEF LiveOn, Live
<1>2. q \in [1..Cardinality(S) -> S]
  BY <1>1, ListingLength
<1>3. Queue(s) \in [1..Cardinality(S) -> S] /\ Listing(s, Queue(s))
  BY <1>2 DEF Queue
<1> QED BY <1>3, ListingUnique

\* The same after a step.
LEMMA QueueIsNext == StoreInv' => QueueUnique'
BY QueueIs, PTL

\* A position in line: behind the orders that are at least as good.
LEMMA PositionInLine ==
  ASSUME StoreInv, NEW s \in Sides, NEW q, Listing(s, q), NEW price \in Prices
  PROVE  \E k \in 1..(Len(q) + 1) :
           /\ \A n \in 1..(k - 1) : ~Improves(s, price, orders[q[n]].price)
           /\ \A n \in k..Len(q) : Improves(s, price, orders[q[n]].price)
<1>1. Len(q) \in Nat /\ DOMAIN q = 1..Len(q) /\ \A n \in 1..Len(q) : orders[q[n]].price \in Prices
  BY DEF Listing, LiveOn, StoreInv, LiveOrders
<1> DEFINE C == {n \in 1..(Len(q) + 1) : n \in 1..Len(q) => Improves(s, price, orders[q[n]].price)}
<1>2. PICK k \in C : \A n \in C : k <= n
  <2>1. C \in SUBSET Nat /\ Len(q) + 1 \in C
    BY <1>1
  <2> HIDE DEF C
  <2> QED BY <2>1, LeastNatural
<1>3. ASSUME NEW n \in 1..(k - 1)
      PROVE  ~Improves(s, price, orders[q[n]].price)
  <2>1. n \in 1..(Len(q) + 1) /\ ~(k <= n)
    BY <1>1
  <2> QED BY <1>2, <2>1
<1>4. ASSUME NEW n \in k..Len(q)
      PROVE  Improves(s, price, orders[q[n]].price)
  <2>1. k \in 1..Len(q) /\ n \in 1..Len(q) /\ k \in Nat /\ n \in Nat /\ (k = n \/ k < n)
    BY <1>1
  <2>2. Improves(s, price, orders[q[k]].price)
    BY <2>1
  <2>3. k < n => ~Improves(s, orders[q[n]].price, orders[q[k]].price)
    BY <1>1, <2>1 DEF Listing
  <2>4. orders[q[k]].price \in Nat /\ orders[q[n]].price \in Nat /\ price \in Nat
    BY <1>1, <2>1, ImprovesOrders
  <2> QED BY <2>1, <2>2, <2>3, <2>4 DEF Improves
<1> QED BY <1>3, <1>4

\* The first order of a listing is the head of the side's best level.
LEMMA HeadIsBest ==
  ASSUME BookInv, NEW s \in Sides, NEW q, Listing(s, q)
  PROVE  /\ q = <<>> <=> best[s] = NoPrice
         /\ q # <<>> => /\ 1 \in DOMAIN q /\ Head(q) = q[1] /\ q[1] \in LiveOn(s)
                        /\ orders[q[1]].price = best[s]
                        /\ q[1] = levels[s][best[s]].head_idx
<1>1. PICK rank \in [Idx -> Idx] : LevelsOrderedBy(rank)
  BY DEF BookInv, StoreInv, LevelsOrdered
<1>2. /\ Len(q) \in Nat /\ DOMAIN q = 1..Len(q) /\ q \in Seq(LiveOn(s))
      /\ \A k \in 1..Len(q) : q[k] \in LiveOn(s)
  BY DEF Listing
<1>3. \A p \in Prices : p \in NonEmpty(s) <=> LiveAt(s, p) # {}
  <2>1. \A p \in Prices : levels[s][p].order_count \in Nat
    BY DEF BookInv, StoreInv, SlotsOK, Level
  <2> QED BY <2>1, EmptyLevels DEF BookInv, NonEmpty
<1>4. \A p \in Prices : LiveAt(s, p) \subseteq LiveOn(s)
  BY DEF LiveAt, LiveOn
<1>5. CASE q = <<>>
  <2>1. LiveOn(s) = {}
    BY <1>2, <1>5 DEF Listing
  <2>2. NonEmpty(s) = {}
    BY <1>3, <1>4, <2>1 DEF NonEmpty
  <2> QED BY <1>5, <2>2 DEF BookInv, BestIsExtreme
<1>6. CASE q # <<>>
  <2>1. 1 \in DOMAIN q /\ Head(q) = q[1] /\ q[1] \in LiveOn(s)
    BY <1>2, <1>6
  <2> DEFINE p == orders[q[1]].price
  <2>2. p \in Prices /\ q[1] \in LiveAt(s, p)
    BY <1>1, <2>1, LiveFacts DEF BookInv
  <2>3. p \in NonEmpty(s)
    BY <1>3, <2>2
  <2>4. best[s] \in Prices /\ best[s] \in NonEmpty(s) /\ ~Improves(s, p, best[s])
    BY <2>3 DEF BookInv, BestIsExtreme, NonEmpty
  <2> DEFINE A == LiveAt(s, best[s])
             h == levels[s][best[s]].head_idx
  <2>5. A # {} /\ A \subseteq LiveOn(s)
    BY <1>3, <1>4, <2>4
  <2>6. h \in A /\ \A j \in A : rank[h] <= rank[j]
    BY <1>1, <2>4, <2>5 DEF LevelsOrderedBy, Ordered, Ends
  <2>7. PICK k \in 1..Len(q) : q[k] = h
    BY <1>2, <2>5, <2>6 DEF Listing
  <2>8. orders[h].price = best[s]
    BY <2>6 DEF LiveAt
  <2>9. p = best[s]
    <3>1. k = 1 \/ 1 < k
      BY <1>2
    <3>2. k = 1 \/ ~Improves(s, orders[h].price, p)
      BY <1>2, <2>1, <2>7, <3>1 DEF Listing
    <3> QED BY <2>2, <2>4, <2>7, <2>8, <3>2, ImprovesOrders
  <2>10. q[1] = h
    <3>1. k = 1 \/ Before(rank, s, q[1], h)
      BY <1>1, <1>2, <2>1, <2>7, ListingSorted DEF BookInv
    <3>2. ~Improves(s, p, orders[h].price)
      BY <2>2, <2>8, <2>9, ImprovesOrders
    <3>3. rank[h] <= rank[q[1]]
      BY <2>2, <2>6, <2>9
    <3>4. rank[h] \in Nat /\ rank[q[1]] \in Nat
      BY <1>1, <2>1, <2>5, <2>6, LiveFacts DEF BookInv
    <3> QED BY <2>7, <3>1, <3>2, <3>3, <3>4 DEF Before
  <2>11. best[s] # NoPrice
    BY <2>4, ImprovesOrders
  <2> QED BY <1>6, <2>1, <2>9, <2>10, <2>11
<1> QED BY <1>5, <1>6

\* cancel_order and a full fill take one order out of its side's listing and leave
\* the other orders in line.
LEMMA RemoveListing ==
  ASSUME StoreInv, NEW idx \in Live, RemoveOrder(idx), NEW s \in Sides, NEW q, Listing(s, q),
         NEW r,
         \/ /\ orders[idx].side # s
            /\ r = q
         \/ /\ orders[idx].side = s
            /\ \E k \in DOMAIN q : q[k] = idx /\ r = SX!RemoveAt(q, k)
  PROVE  Listing(s, r)'
<1>1. PICK rank \in [Idx -> Idx] : LevelsOrderedBy(rank)
  BY DEF StoreInv, LevelsOrdered
<1> DEFINE nxt == orders[idx].next_idx
           prv == orders[idx].prev_idx
           A   == LiveAt(orders[idx].side, orders[idx].price)
<1>2. /\ Len(q) \in Nat /\ DOMAIN q = 1..Len(q) /\ q \in Seq(LiveOn(s))
      /\ \A n \in 1..Len(q) : q[n] \in LiveOn(s)
  BY DEF Listing
<1>3. /\ Live' = Live \ {idx} /\ NullIndex \notin Idx /\ Live \subseteq Idx
      /\ \A i \in Live \ {idx} :
           /\ orders'[i].side = orders[i].side
           /\ orders'[i].price = orders[i].price
           /\ orders'[i].next_idx = IF i = prv THEN nxt ELSE orders[i].next_idx
  BY RemovePool, ClobAssumption DEF Live
<1>4. LiveOn(s)' = LiveOn(s) \ {idx}
  BY <1>3 DEF LiveOn
<1>5. /\ orders[idx].side \in Sides /\ orders[idx].price \in Prices /\ idx \in A
      /\ A \subseteq LiveOn(orders[idx].side)
  BY RemoveLevels DEF LiveAt, LiveOn
<1>6. /\ prv = NullIndex \/ prv \in A
      /\ \A i \in A : orders[i].next_idx = idx <=> prv = i
  <2>1. /\ \A i \in A : Follows(rank, A, i, orders[i].next_idx)
        /\ Precedes(rank, A, idx, prv)
    BY <1>1, <1>5 DEF LevelsOrderedBy, Ordered
  <2>2. /\ NullIndex \notin A /\ \A j \in A : rank[j] \in Nat
        /\ \A j, k \in A : rank[j] = rank[k] => j = k
    BY <1>1, <1>3, <1>5, LiveFacts
  <2>3. \A i \in A : orders[i].next_idx = idx <=> prv = i
    BY <1>5, <2>1, <2>2, Neighbours
  <2> QED BY <2>1, <2>3 DEF Precedes
<1>7. CASE orders[idx].side # s
  <2>1. r = q /\ idx \notin LiveOn(s) /\ LiveOn(s)' = LiveOn(s) /\ prv \notin LiveOn(s)
    BY <1>3, <1>4, <1>5, <1>6, <1>7 DEF LiveOn
  <2>2. \A n \in 1..Len(q) : /\ orders'[q[n]].price = orders[q[n]].price
                             /\ orders'[q[n]].next_idx = orders[q[n]].next_idx
    BY <1>2, <1>3, <2>1 DEF LiveOn
  <2>3. /\ \A i \in LiveOn(s) : \E k \in DOMAIN q : q[k] = i
        /\ \A k, m \in DOMAIN q :
             k < m => q[k] # q[m] /\ ~Improves(s, orders'[q[m]].price, orders'[q[k]].price)
    BY <1>2, <2>2 DEF Listing
  <2>4. \A k \in DOMAIN q :
          orders'[q[k]].next_idx = IF k < Len(q) /\ orders'[q[k + 1]].price = orders'[q[k]].price
                                   THEN q[k + 1] ELSE NullIndex
    <3> SUFFICES ASSUME NEW k \in 1..Len(q)
                 PROVE  orders'[q[k]].next_idx =
                          IF k < Len(q) /\ orders'[q[k + 1]].price = orders'[q[k]].price
                          THEN q[k + 1] ELSE NullIndex
      BY <1>2
    <3>1. k < Len(q) => k + 1 \in 1..Len(q)
      BY <1>2
    <3> QED BY <1>2, <2>2, <3>1 DEF Listing
  <2> QED BY <1>2, <2>1, <2>3, <2>4 DEF Listing, Improves
<1>8. CASE orders[idx].side = s
  <2>1. PICK k \in 1..Len(q) : q[k] = idx /\ r = SX!RemoveAt(q, k)
    BY <1>2, <1>8
  <2>2. /\ r \in Seq(LiveOn(s)) /\ Len(r) = Len(q) - 1 /\ Len(r) \in Nat /\ DOMAIN r = 1..Len(r)
        /\ \A n \in 1..(Len(q) - 1) : r[n] = IF n < k THEN q[n] ELSE q[n + 1]
    <3>1. r \in Seq(LiveOn(s)) /\ IsRemoved(r, q, k)
      BY <1>2, <2>1, RemovedAt
    <3> QED BY <3>1 DEF IsRemoved
  <2> DEFINE at(n) == IF n < k THEN n ELSE n + 1
  <2>3. /\ \A n \in 1..Len(r) : at(n) \in 1..Len(q) /\ at(n) # k /\ r[n] = q[at(n)]
        /\ \A n, m \in 1..Len(r) : n < m => at(n) < at(m)
    BY <1>2, <2>1, <2>2
  <2>4. \A n \in 1..Len(q) : n # k => \E m \in 1..Len(r) : at(m) = n
    <3> SUFFICES ASSUME NEW n \in 1..Len(q), n # k
                 PROVE  \E m \in 1..Len(r) : at(m) = n
      OBVIOUS
    <3>1. CASE n < k
      BY <1>2, <2>1, <2>2, <3>1
    <3>2. CASE k < n
      <4>1. n - 1 \in 1..Len(r) /\ ~(n - 1 < k) /\ (n - 1) + 1 = n
        BY <1>2, <2>1, <2>2, <3>2
      <4> QED BY <4>1
    <3> QED BY <1>2, <2>1, <3>1, <3>2
  <2>5. \A m, n \in 1..Len(q) : m # n => q[m] # q[n]
    BY <1>2 DEF Listing
  <2>6. \A n \in 1..Len(r) : r[n] \in LiveOn(s) \ {idx} /\ r[n] \in Live \ {idx}
    <3> SUFFICES ASSUME NEW n \in 1..Len(r) PROVE r[n] \in LiveOn(s) /\ r[n] # idx
      BY DEF LiveOn
    <3>1. at(n) \in 1..Len(q) /\ at(n) # k /\ r[n] = q[at(n)]
      BY <2>3
    <3> HIDE DEF at
    <3> QED BY <1>2, <2>1, <2>5, <3>1
  <2>7. r \in Seq(LiveOn(s)')
    <3>1. \A n \in 1..Len(r) : r[n] \in LiveOn(s)'
      BY <1>4, <2>6
    <3> QED BY <2>2, <3>1
  <2>8. \A i \in LiveOn(s)' : \E n \in DOMAIN r : r[n] = i
    <3> SUFFICES ASSUME NEW i \in LiveOn(s), i # idx PROVE \E n \in 1..Len(r) : r[n] = i
      BY <1>4, <2>2
    <3>1. PICK m \in 1..Len(q) : q[m] = i
      BY <1>2 DEF Listing
    <3>2. PICK n \in 1..Len(r) : at(n) = m
      BY <2>1, <2>4, <3>1
    <3> HIDE DEF at
    <3> QED BY <2>3, <3>1, <3>2
  <2>9. \A n \in 1..Len(r) : orders'[r[n]].price = orders[r[n]].price
    BY <1>3, <2>6
  <2>10. \A n, m \in DOMAIN r :
           n < m => r[n] # r[m] /\ ~Improves(s, orders'[r[m]].price, orders'[r[n]].price)
    <3> SUFFICES ASSUME NEW n \in 1..Len(r), NEW m \in 1..Len(r), n < m
                 PROVE  r[n] # r[m] /\ ~Improves(s, orders'[r[m]].price, orders'[r[n]].price)
      BY <2>2
    <3>1. /\ at(n) \in 1..Len(q) /\ at(m) \in 1..Len(q) /\ at(n) < at(m)
          /\ r[n] = q[at(n)] /\ r[m] = q[at(m)]
      BY <2>3
    <3> HIDE DEF at
    <3>2. r[n] # r[m] /\ ~Improves(s, orders[r[m]].price, orders[r[n]].price)
      BY <1>2, <3>1 DEF Listing
    <3> QED BY <2>9, <3>2
  <2>11. ASSUME NEW n \in 1..Len(r)
         PROVE  orders'[r[n]].next_idx =
                  IF n < Len(r) /\ orders'[r[n + 1]].price = orders'[r[n]].price
                  THEN r[n + 1] ELSE NullIndex
    <3> DEFINE a == at(n)
               p == orders[r[n]].price
    <3>1. /\ a \in 1..Len(q) /\ r[n] = q[a] /\ r[n] \in Live /\ r[n] # idx /\ r[n] \in LiveOn(s)
          /\ n < Len(r) => n + 1 \in 1..Len(r)
      BY <2>2, <2>3, <2>6
    <3>2. orders[r[n]].next_idx = IF a < Len(q) /\ orders[q[a + 1]].price = p
                                  THEN q[a + 1] ELSE NullIndex
      BY <1>2, <3>1 DEF Listing
    <3>3. orders'[r[n]].next_idx = IF r[n] = prv THEN nxt ELSE orders[r[n]].next_idx
      BY <1>3, <3>1
    <3>4. orders'[r[n]].price = p /\ (n < Len(r) => orders'[r[n + 1]].price = orders[r[n + 1]].price)
      BY <2>9, <3>1
    <3>5. CASE n # k - 1
      <4>1. /\ n < Len(r) <=> a < Len(q)
            /\ n < Len(r) => r[n + 1] = q[a + 1] /\ a + 1 # k
        <5>1. /\ Len(r) = Len(q) - 1 /\ Len(q) \in Nat /\ k \in Nat /\ n \in Nat
              /\ k <= Len(q) /\ n <= Len(r) /\ (n < k - 1 \/ n >= k)
          BY <1>2, <2>1, <2>2, <3>5
        <5>2. n < Len(r) => at(n + 1) = a + 1 /\ r[n + 1] = q[at(n + 1)]
          BY <2>3, <3>1, <5>1
        <5>3. (n < Len(r) <=> a < Len(q)) /\ a + 1 # k
          BY <5>1
        <5> HIDE DEF at, a
        <5> QED BY <5>2, <5>3
      <4>2. r[n] # prv
        <5> SUFFICES ASSUME r[n] = prv PROVE FALSE
          OBVIOUS
        <5>1. orders[r[n]].next_idx = idx /\ idx # NullIndex
          BY <1>3, <1>6, <3>1
        <5>2. a < Len(q) /\ q[a + 1] = idx /\ a + 1 \in 1..Len(q)
          BY <1>2, <3>1, <3>2, <5>1
        <5> QED BY <2>1, <2>5, <4>1, <5>2
      <4> HIDE DEF a, at
      <4> QED BY <3>2, <3>3, <3>4, <4>1, <4>2
    <3>6. CASE n = k - 1
      <4>1. /\ a = k - 1 /\ a + 1 = k /\ a < Len(q) /\ k \in 1..Len(q)
            /\ n < Len(r) <=> k < Len(q)
            /\ n < Len(r) => r[n + 1] = q[k + 1] /\ k + 1 \in 1..Len(q)
        BY <1>2, <2>1, <2>2, <3>1, <3>6
      <4> HIDE DEF a, at
      <4>2. nxt = IF k < Len(q) /\ orders[q[k + 1]].price = orders[idx].price
                  THEN q[k + 1] ELSE NullIndex
        BY <1>2, <2>1 DEF Listing
      <4>3. CASE p = orders[idx].price
        <5>1. r[n] = prv
          <6>1. orders[r[n]].next_idx = idx
            BY <2>1, <3>2, <4>1, <4>3
          <6>2. r[n] \in A
            BY <1>8, <3>1, <4>3 DEF LiveAt, LiveOn
          <6> QED BY <1>6, <6>1, <6>2
        <5> QED BY <3>3, <3>4, <4>1, <4>2, <4>3, <5>1
      <4>4. CASE p # orders[idx].price
        <5>1. r[n] # prv
          BY <1>3, <1>6, <3>1, <4>4 DEF LiveAt
        <5>2. orders[r[n]].next_idx = NullIndex
          BY <2>1, <3>2, <4>1, <4>4
        <5>3. n < Len(r) => orders[r[n + 1]].price # p
          <6> SUFFICES ASSUME n < Len(r), orders[r[n + 1]].price = p PROVE FALSE
            OBVIOUS
          <6>1. /\ ~Improves(s, orders[idx].price, p)
                /\ ~Improves(s, orders[q[k + 1]].price, orders[idx].price)
            <7>1. a < k /\ k < k + 1 /\ k + 1 \in 1..Len(q)
              BY <4>1
            <7> QED BY <1>2, <2>1, <3>1, <7>1 DEF Listing
          <6>2. p \in Prices
            BY <3>1 DEF StoreInv, LiveOrders
          <6> QED BY <1>5, <4>1, <4>4, <6>1, <6>2, ImprovesOrders
        <5> QED BY <3>3, <3>4, <5>1, <5>2, <5>3
      <4> QED BY <4>3, <4>4
    <3> QED BY <3>5, <3>6
  <2> QED BY <2>2, <2>7, <2>8, <2>10, <2>11 DEF Listing, Improves
<1> QED BY <1>7, <1>8

\* A new order stands behind the orders of its side that are at least as good and
\* ahead of the others; the other side is as it was.
LEMMA PlaceListing ==
  ASSUME StoreInv, NEW id, NEW side, NEW price, NEW qty,
         CanPlace(id, side, price, qty), Place(id, side, price, qty),
         NEW s \in Sides, NEW q, Listing(s, q), NEW r,
         \/ /\ side # s
            /\ r = q
         \/ /\ side = s
            /\ \E k \in 1..(Len(q) + 1) :
                 /\ \A n \in 1..(k - 1) : ~Improves(s, price, orders[q[n]].price)
                 /\ \A n \in k..Len(q) : Improves(s, price, orders[q[n]].price)
                 /\ r = SX!InsertAt(q, k, Top)
  PROVE  Listing(s, r)'
<1>1. PICK rank \in [Idx -> Idx] : LevelsOrderedBy(rank)
  BY DEF StoreInv, LevelsOrdered
<1> DEFINE last == Last(levels[side][price])
           A    == LiveAt(side, price)
<1>2. /\ Len(q) \in Nat /\ DOMAIN q = 1..Len(q) /\ q \in Seq(LiveOn(s))
      /\ \A n \in 1..Len(q) : q[n] \in LiveOn(s)
  BY DEF Listing
<1>3. /\ side \in Sides /\ price \in Prices /\ price \in Nat
      /\ Top \in Idx /\ Top \notin Live /\ Live' = Live \cup {Top} /\ NullIndex \notin Idx
      /\ orders'[Top].side = side /\ orders'[Top].price = price /\ orders'[Top].next_idx = NullIndex
      /\ \A i \in Live : /\ orders'[i].side = orders[i].side
                         /\ orders'[i].price = orders[i].price
                         /\ orders'[i].next_idx = IF i = last THEN Top ELSE orders[i].next_idx
  BY PlacePool, ClobAssumption, ImprovesOrders DEF CanPlace
<1>4. LiveOn(s)' = IF side = s THEN LiveOn(s) \cup {Top} ELSE LiveOn(s)
  BY <1>3 DEF LiveOn
<1>5. /\ A \subseteq LiveOn(side) /\ A \subseteq Live /\ LiveOn(s) \subseteq Live
      /\ \A i \in LiveOn(s) : orders[i].price \in Prices /\ orders[i].price \in Nat
  BY LiveFacts, <1>1 DEF LiveAt, LiveOn
<1>6. \A i \in A : orders[i].next_idx = NullIndex <=> last = i
  <2>1. SUFFICES ASSUME NEW i \in A PROVE orders[i].next_idx = NullIndex <=> last = i
    OBVIOUS
  <2>2. last = levels[side][price].tail_idx
    BY <1>3, <2>1, EmptyLevels DEF Last
  <2>3. last \in A /\ \A j \in A : rank[j] <= rank[last]
    BY <1>1, <1>3, <2>1, <2>2 DEF LevelsOrderedBy, Ordered, Ends
  <2>4. /\ Follows(rank, A, i, orders[i].next_idx)
        /\ Follows(rank, A, last, orders[last].next_idx)
    BY <1>1, <1>3, <2>3 DEF LevelsOrderedBy, Ordered
  <2>5. /\ NullIndex \notin A /\ \A j \in A : rank[j] \in Nat
        /\ \A j, k \in A : rank[j] = rank[k] => j = k
    BY <1>1, <1>3, <1>5, LiveFacts
  <2>6. ASSUME orders[i].next_idx = NullIndex PROVE last = i
    <3>1. rank[last] <= rank[i]
      BY <2>3, <2>4, <2>5, <2>6 DEF Follows
    <3> QED BY <2>3, <2>5, <3>1
  <2>7. ASSUME last = i PROVE orders[i].next_idx = NullIndex
    BY <2>3, <2>4, <2>5, <2>7 DEF Follows
  <2> QED BY <2>6, <2>7
<1>7. last = NullIndex \/ last \in A
  <2>1. A # {} => last = levels[side][price].tail_idx /\ last \in A
    BY <1>1, <1>3, EmptyLevels DEF Last, LevelsOrderedBy, Ordered, Ends
  <2>2. A = {} => last = NullIndex
    BY <1>3, EmptyLevels DEF Last
  <2> QED BY <2>1, <2>2
<1>8. CASE side # s
  <2>1. r = q /\ LiveOn(s)' = LiveOn(s)
    BY <1>4, <1>8
  <2>2. \A n \in 1..Len(q) : /\ orders'[q[n]].price = orders[q[n]].price
                             /\ orders'[q[n]].next_idx = orders[q[n]].next_idx
    <3> SUFFICES ASSUME NEW n \in 1..Len(q)
                 PROVE  q[n] \in Live /\ q[n] # last
      BY <1>3
    <3>1. q[n] \in LiveOn(s) /\ q[n] \in Idx
      BY <1>2 DEF LiveOn, Live
    <3> QED BY <1>3, <1>5, <1>7, <1>8, <3>1 DEF LiveOn
  <2>3. /\ \A i \in LiveOn(s) : \E k \in DOMAIN q : q[k] = i
        /\ \A k, m \in DOMAIN q :
             k < m => q[k] # q[m] /\ ~Improves(s, orders'[q[m]].price, orders'[q[k]].price)
    BY <1>2, <2>2 DEF Listing
  <2>4. \A k \in DOMAIN q :
          orders'[q[k]].next_idx = IF k < Len(q) /\ orders'[q[k + 1]].price = orders'[q[k]].price
                                   THEN q[k + 1] ELSE NullIndex
    <3> SUFFICES ASSUME NEW k \in 1..Len(q)
                 PROVE  orders'[q[k]].next_idx =
                          IF k < Len(q) /\ orders'[q[k + 1]].price = orders'[q[k]].price
                          THEN q[k + 1] ELSE NullIndex
      BY <1>2
    <3>1. k < Len(q) => k + 1 \in 1..Len(q)
      BY <1>2
    <3> QED BY <1>2, <2>2, <3>1 DEF Listing
  <2> QED BY <1>2, <2>1, <2>3, <2>4 DEF Listing, Improves
<1>9. CASE side = s
  <2>1. PICK k \in 1..(Len(q) + 1) :
          /\ \A n \in 1..(k - 1) : ~Improves(s, price, orders[q[n]].price)
          /\ \A n \in k..Len(q) : Improves(s, price, orders[q[n]].price)
          /\ r = SX!InsertAt(q, k, Top)
    BY <1>9
  <2> DEFINE L == LiveOn(s) \cup {Top}
             at(n) == IF n < k THEN n ELSE n - 1
  <2>2. /\ r \in Seq(L) /\ Len(r) = Len(q) + 1 /\ Len(r) \in Nat /\ DOMAIN r = 1..Len(r)
        /\ \A n \in 1..(Len(q) + 1) : r[n] = IF n < k THEN q[n] ELSE IF n = k THEN Top ELSE q[n - 1]
    <3>1. q \in Seq(L) /\ Top \in L
      BY <1>2
    <3> HIDE DEF L
    <3>2. r \in Seq(L) /\ IsInserted(r, q, k, Top)
      BY <2>1, <3>1, InsertedAt
    <3> QED BY <1>2, <2>1, <3>2 DEF IsInserted
  <2>3. /\ \A n \in 1..Len(r) : n # k => at(n) \in 1..Len(q) /\ r[n] = q[at(n)]
        /\ \A n, m \in 1..Len(r) : n < m /\ n # k /\ m # k => at(n) < at(m)
        /\ k \in 1..Len(r) /\ r[k] = Top
    BY <1>2, <2>1, <2>2
  <2>4. \A n \in 1..Len(q) : orders[q[n]].price \in Nat /\ q[n] \in Live /\ q[n] # Top
    BY <1>2, <1>3, <1>5
  <2>5. r \in Seq(LiveOn(s)')
    BY <1>4, <1>9, <2>2
  <2>6. \A i \in LiveOn(s)' : \E n \in DOMAIN r : r[n] = i
    <3> SUFFICES ASSUME NEW i \in LiveOn(s) PROVE \E n \in 1..Len(r) : r[n] = i
      BY <1>4, <2>2, <2>3
    <3>1. PICK m \in 1..Len(q) : q[m] = i
      BY <1>2 DEF Listing
    <3>2. \E n \in 1..Len(r) : n # k /\ at(n) = m
      <4>1. CASE m < k
        BY <1>2, <2>1, <2>2, <4>1
      <4>2. CASE ~(m < k)
        <5>1. m + 1 \in 1..Len(r) /\ ~(m + 1 < k) /\ m + 1 # k /\ (m + 1) - 1 = m
          BY <1>2, <2>1, <2>2, <4>2
        <5> QED BY <5>1
      <4> QED BY <4>1, <4>2
    <3> HIDE DEF at
    <3> QED BY <2>3, <3>1, <3>2
  <2>7. \A n \in 1..Len(r) :
          orders'[r[n]].price = IF n = k THEN price ELSE orders[r[n]].price
    <3> HIDE DEF at
    <3> QED BY <1>3, <2>3, <2>4
  <2>8. \A n, m \in DOMAIN r :
          n < m => r[n] # r[m] /\ ~Improves(s, orders'[r[m]].price, orders'[r[n]].price)
    <3> SUFFICES ASSUME NEW n \in 1..Len(r), NEW m \in 1..Len(r), n < m
                 PROVE  r[n] # r[m] /\ ~Improves(s, orders'[r[m]].price, orders'[r[n]].price)
      BY <2>2
    <3>1. CASE n # k /\ m # k
      <4>1. /\ at(n) \in 1..Len(q) /\ at(m) \in 1..Len(q) /\ at(n) < at(m)
            /\ r[n] = q[at(n)] /\ r[m] = q[at(m)]
        BY <2>3, <3>1
      <4> HIDE DEF at
      <4>2. r[n] # r[m] /\ ~Improves(s, orders[r[m]].price, orders[r[n]].price)
        BY <1>2, <4>1 DEF Listing
      <4> QED BY <2>7, <3>1, <4>2
    <3>2. CASE m = k
      <4>1. n \in 1..(k - 1) /\ n \in 1..Len(q) /\ r[n] = q[n] /\ n # k
        BY <1>2, <2>1, <2>2, <3>2
      <4> QED BY <2>1, <2>3, <2>4, <2>7, <3>2, <4>1
    <3>3. CASE n = k
      <4>1. m - 1 \in k..Len(q) /\ m - 1 \in 1..Len(q) /\ r[m] = q[m - 1] /\ m # k
        BY <1>2, <2>1, <2>2, <3>3
      <4>2. Improves(s, price, orders[q[m - 1]].price)
        BY <2>1, <4>1
      <4> QED BY <1>3, <2>3, <2>4, <2>7, <3>3, <4>1, <4>2 DEF Improves
    <3> QED BY <3>1, <3>2, <3>3
  <2>9. \A n \in 1..Len(q) :
          orders[q[n]].price = price =>
            /\ q[n] \in A
            /\ orders[q[n]].next_idx = NullIndex <=> last = q[n]
            /\ n < k
    <3> SUFFICES ASSUME NEW n \in 1..Len(q), orders[q[n]].price = price
                 PROVE  /\ q[n] \in A
                        /\ orders[q[n]].next_idx = NullIndex <=> last = q[n]
                        /\ n < k
      OBVIOUS
    <3>1. q[n] \in A
      BY <1>2, <1>9 DEF LiveAt, LiveOn
    <3>2. ~(n \in k..Len(q))
      BY <1>3, <2>1 DEF Improves
    <3>3. n < k
      BY <1>2, <2>1, <3>2
    <3> QED BY <1>6, <3>1, <3>3
  <2>10. \A n \in 1..Len(q) : last = q[n] => orders[q[n]].price = price
    BY <1>3, <1>5, <1>7, <2>4 DEF LiveAt, Live
  <2>11. \A n \in 1..Len(q) :
           orders[q[n]].next_idx = IF n < Len(q) /\ orders[q[n + 1]].price = orders[q[n]].price
                                   THEN q[n + 1] ELSE NullIndex
    BY <1>2 DEF Listing
  <2>12. \A n \in 1..Len(q) :
           orders'[q[n]].next_idx = IF q[n] = last THEN Top ELSE orders[q[n]].next_idx
    BY <1>3, <2>4
  <2>13. ASSUME NEW n \in 1..Len(r)
         PROVE  orders'[r[n]].next_idx =
                  IF n < Len(r) /\ orders'[r[n + 1]].price = orders'[r[n]].price
                  THEN r[n + 1] ELSE NullIndex
    <3>1. n < Len(r) => n + 1 \in 1..Len(r)
      BY <2>2
    <3>2. CASE n = k
      <4>1. orders'[r[n]].next_idx = NullIndex /\ orders'[r[n]].price = price
        BY <1>3, <2>3, <3>2
      <4>2. n < Len(r) => orders'[r[n + 1]].price # price
        <5> SUFFICES ASSUME n < Len(r) PROVE orders'[r[n + 1]].price # price
          OBVIOUS
        <5>1. n \in k..Len(q) /\ n \in 1..Len(q) /\ r[n + 1] = q[n] /\ n + 1 # k
          BY <1>2, <2>1, <2>2, <3>2
        <5>2. Improves(s, price, orders[q[n]].price)
          BY <2>1, <5>1
        <5> QED BY <1>3, <2>4, <2>7, <3>1, <5>1, <5>2 DEF Improves
      <4> QED BY <4>1, <4>2
    <3>3. CASE n > k
      <4>1. /\ n - 1 \in 1..Len(q) /\ n - 1 \in k..Len(q) /\ r[n] = q[n - 1] /\ n # k
            /\ n < Len(r) <=> n - 1 < Len(q)
            /\ n < Len(r) => r[n + 1] = q[(n - 1) + 1] /\ n + 1 # k
        BY <1>2, <2>1, <2>2, <3>3
      <4>2. last # q[n - 1]
        BY <1>2, <2>1, <2>9, <2>10, <3>3, <4>1
      <4>3. orders'[r[n]].next_idx = orders[q[n - 1]].next_idx
        BY <2>12, <4>1, <4>2
      <4> QED BY <2>7, <2>11, <3>1, <4>1, <4>3
    <3>4. CASE n < k - 1
      <4>1. /\ n \in 1..Len(q) /\ n + 1 \in 1..Len(q) /\ r[n] = q[n] /\ r[n + 1] = q[n + 1]
            /\ n # k /\ n + 1 # k /\ n < Len(r) /\ n < Len(q) /\ n < n + 1 /\ n + 1 \in 1..(k - 1)
        BY <1>2, <2>1, <2>2, <3>4
      <4>2. last # q[n]
        <5> SUFFICES ASSUME last = q[n] PROVE FALSE
          OBVIOUS
        <5>1. orders[q[n]].price = price
          BY <2>10, <4>1
        <5>2. orders[q[n + 1]].price # price
          <6>1. q[n + 1] \in Live /\ NullIndex \notin Live
            BY <1>3, <2>4, <4>1 DEF Live
          <6> QED BY <2>9, <2>11, <4>1, <5>1, <6>1
        <5>3. ~Improves(s, price, orders[q[n + 1]].price) /\ ~Improves(s, orders[q[n + 1]].price, price)
          BY <1>2, <2>1, <4>1, <5>1 DEF Listing
        <5> QED BY <1>3, <2>4, <4>1, <5>2, <5>3 DEF Improves
      <4> QED BY <2>7, <2>11, <2>12, <3>1, <4>1, <4>2
    <3>5. CASE n = k - 1
      <4>1. /\ n \in 1..Len(q) /\ r[n] = q[n] /\ n + 1 = k /\ r[n + 1] = Top /\ n # k /\ n < Len(r)
            /\ n < Len(q) => n + 1 \in 1..Len(q) /\ n + 1 \in k..Len(q)
            /\ n \in 1..(k - 1) /\ n < n + 1
        BY <1>2, <2>1, <2>2, <3>5
      <4>2. orders'[r[n + 1]].price = price /\ orders'[r[n]].price = orders[q[n]].price
        BY <2>7, <3>1, <4>1
      <4>3. n < Len(q) => Improves(s, price, orders[q[n + 1]].price)
        BY <2>1, <4>1
      <4>4. orders[q[n]].next_idx = NullIndex
        <5>1. ~Improves(s, price, orders[q[n]].price)
          BY <2>1, <4>1
        <5>2. n < Len(q) => orders[q[n + 1]].price # orders[q[n]].price
          BY <4>3, <5>1
        <5> QED BY <2>11, <4>1, <5>2
      <4>5. orders'[r[n]].next_idx = IF orders[q[n]].price = price THEN Top ELSE NullIndex
        BY <2>9, <2>10, <2>12, <4>1, <4>4
      <4> QED BY <4>1, <4>2, <4>5
    <3> QED BY <1>2, <2>1, <2>2, <3>2, <3>3, <3>4, <3>5
  <2> QED BY <2>2, <2>5, <2>6, <2>8, <2>13 DEF Listing, Improves
<1> QED BY <1>8, <1>9

\* A partial fill changes a quantity and leaves every order in line.
LEMMA ReduceListing ==
  ASSUME SlotsOK, NEW idx \in Live, NEW q, orders' = [orders EXCEPT ![idx].qty = @ - q],
         UNCHANGED free_stack, NEW s, NEW r, Listing(s, r)
  PROVE  Listing(s, r)'
<1>1. Live' = Live /\ Live \subseteq Idx
  BY DEF Live, FreeSlots
<1>2. \A i \in Live : /\ orders'[i].side = orders[i].side
                      /\ orders'[i].price = orders[i].price
                      /\ orders'[i].next_idx = orders[i].next_idx
  BY <1>1 DEF SlotsOK, Order
<1>3. LiveOn(s)' = LiveOn(s)
  BY <1>1, <1>2 DEF LiveOn
<1>4. /\ r \in Seq(LiveOn(s)) /\ Len(r) \in Nat /\ DOMAIN r = 1..Len(r)
      /\ \A k \in 1..Len(r) : r[k] \in Live
      /\ \A k \in 1..Len(r) : k < Len(r) => k + 1 \in 1..Len(r)
  BY DEF Listing, LiveOn
<1>5. \A k, m \in DOMAIN r :
        k < m => r[k] # r[m] /\ ~Improves(s, orders'[r[m]].price, orders'[r[k]].price)
  BY <1>2, <1>4 DEF Listing
<1>6. \A k \in DOMAIN r :
        orders'[r[k]].next_idx = IF k < Len(r) /\ orders'[r[k + 1]].price = orders'[r[k]].price
                                 THEN r[k + 1] ELSE NullIndex
  BY <1>2, <1>4 DEF Listing
<1>7. \A i \in LiveOn(s) : \E k \in DOMAIN r : r[k] = i
  BY DEF Listing
<1> QED BY <1>3, <1>4, <1>5, <1>6, <1>7 DEF Listing, Improves

\* The empty book lists nothing.
LEMMA EmptyListing ==
  ASSUME Live = {}, NEW s
  PROVE  Listing(s, <<>>)
BY DEF Listing, LiveOn

------------------------------------------------------------------------------
(* The book of FixedClobBook and the queues of its sides                   *)

\* Every side has a listing, and the book shows it.
HasQueues == \A s \in Sides : Listing(s, Queue(s))
Shown == HasQueues /\ book = Queues

\* What a caller is shown of a resting order.
Entry == [order_id : OrderIds, price : Prices, qty : Qtys]

\* The book in terms of the queues.
LEMMA BookShows ==
  ASSUME BookInv, Shown
  PROVE  /\ book \in [Sides -> Seq(Entry)]
         /\ \A i \in Live : Seen(i) \in Entry
         /\ \A s \in Sides :
              /\ Queue(s) \in Seq(LiveOn(s)) /\ Len(Queue(s)) \in Nat
              /\ DOMAIN Queue(s) = 1..Len(Queue(s)) /\ DOMAIN book[s] = 1..Len(Queue(s))
              /\ Len(book[s]) = Len(Queue(s))
              /\ \A n \in 1..Len(Queue(s)) : /\ Queue(s)[n] \in LiveOn(s) /\ Queue(s)[n] \in Live
                                             /\ book[s][n] = Seen(Queue(s)[n])
<1>1. \A s \in Sides :
        /\ Queue(s) \in Seq(LiveOn(s)) /\ Len(Queue(s)) \in Nat
        /\ DOMAIN Queue(s) = 1..Len(Queue(s))
        /\ \A n \in 1..Len(Queue(s)) : Queue(s)[n] \in LiveOn(s) /\ Queue(s)[n] \in Live
  <2> SUFFICES ASSUME NEW s \in Sides
               PROVE  /\ Queue(s) \in Seq(LiveOn(s)) /\ Len(Queue(s)) \in Nat
                      /\ DOMAIN Queue(s) = 1..Len(Queue(s))
                      /\ \A n \in 1..Len(Queue(s)) : Queue(s)[n] \in LiveOn(s)
                      /\ LiveOn(s) \subseteq Live
    OBVIOUS
  <2>1. Queue(s) \in Seq(LiveOn(s)) /\ LiveOn(s) \subseteq Live
    BY DEF Shown, HasQueues, Listing, LiveOn
  <2> QED BY <2>1
<1>2. \A i \in Live : Seen(i) \in Entry
  <2> SUFFICES ASSUME NEW i \in Live PROVE Seen(i) \in Entry
    OBVIOUS
  <2>1. orders[i] \in Order /\ orders[i].qty \in Qtys
    BY DEF BookInv, StoreInv, SlotsOK, Live, Order
  <2>2. orders[i].price \in Prices /\ orders[i].order_id \in OrderIds
    BY DEF BookInv, StoreInv, LiveOrders, PoolPartition
  <2> QED BY <2>1, <2>2 DEF Seen, Entry
<1>3. ASSUME NEW s \in Sides
      PROVE  /\ book[s] \in Seq(Entry) /\ DOMAIN book[s] = 1..Len(Queue(s))
             /\ Len(book[s]) = Len(Queue(s))
             /\ \A n \in 1..Len(Queue(s)) : book[s][n] = Seen(Queue(s)[n])
  <2> DEFINE N == Len(Queue(s))
             b == [n \in 1..N |-> Seen(Queue(s)[n])]
  <2>1. book[s] = b /\ N \in Nat
    BY <1>1 DEF Shown, Queues
  <2>2. \A n \in 1..N : Seen(Queue(s)[n]) \in Entry
    BY <1>1, <1>2
  <2> HIDE DEF N
  <2>3. b \in Seq(Entry) /\ Len(b) = N /\ DOMAIN b = 1..N
    BY <2>1, <2>2
  <2> QED BY <2>1, <2>3 DEF N
<1>4. book = [s \in Sides |-> book[s]]
  BY DEF Shown, Queues
<1> QED BY <1>1, <1>2, <1>3, <1>4

\* An id rests in the book when the index contains it.
LEMMA RestingIds ==
  ASSUME BookInv, Shown, NEW id \in OrderIds
  PROVE  id \in Abstract!Resting <=> Contains(id)
<1>1. \A s \in Sides :
        /\ DOMAIN Queue(s) = 1..Len(Queue(s)) /\ DOMAIN book[s] = 1..Len(Queue(s))
        /\ \A n \in 1..Len(Queue(s)) : /\ Queue(s)[n] \in LiveOn(s) /\ Queue(s)[n] \in Live
                                       /\ book[s][n].order_id = orders[Queue(s)[n]].order_id
  <2> SUFFICES ASSUME NEW s \in Sides
               PROVE  /\ DOMAIN Queue(s) = 1..Len(Queue(s)) /\ DOMAIN book[s] = 1..Len(Queue(s))
                      /\ \A n \in 1..Len(Queue(s)) :
                           /\ Queue(s)[n] \in LiveOn(s) /\ Queue(s)[n] \in Live
                           /\ book[s][n].order_id = orders[Queue(s)[n]].order_id
    OBVIOUS
  <2>1. /\ DOMAIN Queue(s) = 1..Len(Queue(s)) /\ DOMAIN book[s] = 1..Len(Queue(s))
        /\ \A n \in 1..Len(Queue(s)) : /\ Queue(s)[n] \in LiveOn(s) /\ Queue(s)[n] \in Live
                                       /\ book[s][n] = Seen(Queue(s)[n])
    BY BookShows
  <2>2. \A i : Seen(i).order_id = orders[i].order_id
    BY DEF Seen
  <2> QED BY <2>1, <2>2
<1>2. ASSUME id \in Abstract!Resting PROVE Contains(id)
  <2>1. PICK s \in Sides : \E n \in DOMAIN book[s] : book[s][n].order_id = id
    BY <1>2 DEF Abstract!Resting, Abstract!Sides, Sides
  <2>2. PICK n \in 1..Len(Queue(s)) : orders[Queue(s)[n]].order_id = id /\ Queue(s)[n] \in Live
    BY <1>1, <2>1
  <2> QED BY <2>2, ClobAssumption DEF BookInv, StoreInv, PoolPartition, Contains, Live
<1>3. ASSUME Contains(id) PROVE id \in Abstract!Resting
  <2>1. order_lookup[id] \in Live /\ orders[order_lookup[id]].order_id = id
    BY <1>3 DEF BookInv, StoreInv, PoolPartition
  <2>2. PICK s \in Sides : order_lookup[id] \in LiveOn(s)
    BY <2>1 DEF LiveOn, BookInv, StoreInv, SlotsOK, Live, Order
  <2>3. PICK n \in 1..Len(Queue(s)) : Queue(s)[n] = order_lookup[id]
    BY <1>1, <2>2 DEF Shown, HasQueues, Listing
  <2> QED BY <1>1, <2>1, <2>3 DEF Abstract!Resting, Abstract!Sides, Sides
<1> QED BY <1>2, <1>3

\* The live orders are the buys and the sells.
LEMMA SidesCount ==
  ASSUME BookInv
  PROVE  /\ Live \subseteq Idx /\ IsFiniteSet(Live)
         /\ Cardinality(Live) = Cardinality(LiveOn("Buy")) + Cardinality(LiveOn("Sell"))
<1> DEFINE B == LiveOn("Buy")
           S == LiveOn("Sell")
<1>1. /\ B \subseteq Idx /\ S \subseteq Idx /\ B \cap S = {} /\ Live = B \cup S
  BY DEF LiveOn, Live, BookInv, StoreInv, SlotsOK, Order, Sides
<1>2. IsFiniteSet(Idx) /\ Cardinality(Idx) = MaxOrders /\ MaxOrders \in Nat
  BY FS_Interval, ClobAssumption DEF Idx
<1>3. /\ IsFiniteSet(B) /\ IsFiniteSet(S) /\ Cardinality(B) \in Nat /\ Cardinality(S) \in Nat
      /\ IsFiniteSet(Live)
  BY <1>1, <1>2, FS_Subset, FS_CardinalityType
<1>4. Cardinality(Live) = Cardinality(B) + Cardinality(S)
  <2> HIDE DEF B, S
  <2>1. Cardinality(B \cap S) = 0
    BY <1>1, FS_EmptySet
  <2>2. Cardinality(B \cup S) = Cardinality(B) + Cardinality(S) - Cardinality(B \cap S)
    BY <1>3, FS_Union
  <2> QED BY <1>1, <1>3, <2>1, <2>2
<1> QED BY <1>1, <1>3, <1>4

\* A full book is one with no free slot.
LEMMA FullPool ==
  ASSUME BookInv, Shown
  PROVE  Abstract!Full <=> free_stack = <<>>
<1>1. IsFiniteSet(Idx) /\ Cardinality(Idx) = MaxOrders /\ MaxOrders \in Nat
  BY FS_Interval, ClobAssumption DEF Idx
<1>2. \A s \in Sides : Len(book[s]) = Cardinality(LiveOn(s))
  <2> SUFFICES ASSUME NEW s \in Sides PROVE Len(Queue(s)) = Cardinality(LiveOn(s))
    BY BookShows
  <2>1. Listing(s, Queue(s)) /\ Len(Queue(s)) \in Nat
    BY BookShows DEF Shown, HasQueues
  <2> QED BY <2>1, ListingLength DEF BookInv
<1>3. Abstract!Full <=> Cardinality(Live) = MaxOrders
  BY <1>2, SidesCount DEF Abstract!Full, Sides
<1>4. Cardinality(Live) = MaxOrders <=> Live = Idx
  BY <1>1, FS_Subset, SidesCount
<1>5. Live = Idx <=> free_stack = <<>>
  <2>1. FreeSlots \subseteq Idx /\ (FreeSlots = {} <=> free_stack = <<>>)
    <3>1. /\ free_stack \in Seq(Idx) /\ Len(free_stack) \in Nat
          /\ DOMAIN free_stack = 1..Len(free_stack)
      BY DEF BookInv, StoreInv, SlotsOK
    <3>2. /\ free_stack # <<>> => 1 \in DOMAIN free_stack
          /\ free_stack = <<>> => DOMAIN free_stack = {}
      BY ONLY <3>1
    <3>3. \A n \in DOMAIN free_stack : free_stack[n] \in Idx
      BY ONLY <3>1
    <3>4. FreeSlots = {free_stack[n] : n \in DOMAIN free_stack}
      BY <3>1 DEF FreeSlots
    <3> QED BY ONLY <3>2, <3>3, <3>4
  <2> QED BY <2>1 DEF Live
<1> QED BY <1>3, <1>4, <1>5

\* A listing after a step is the queue after the step.
LEMMA QueueNext ==
  ASSUME BookInv', NEW s \in Sides, NEW q, Listing(s, q)'
  PROVE  Queue(s)' = q /\ Listing(s, Queue(s))'
BY QueueIsNext DEF BookInv, QueueUnique

\* Relabelling the elements of a sequence goes along with InsertAt and RemoveAt.
Relabels(f, r, y) == /\ DOMAIN y = DOMAIN r /\ y = [n \in DOMAIN y |-> y[n]]
                     /\ \A n \in DOMAIN r : y[n] = f[r[n]]
LEMMA RelabelInserted ==
  ASSUME NEW S, NEW T, NEW f, NEW q \in Seq(S), NEW x \in Seq(T), NEW i \in S, NEW e \in T,
         Len(x) = Len(q), \A n \in 1..Len(q) : x[n] = f[q[n]], f[i] = e,
         NEW k \in 1..(Len(q) + 1), NEW r, r = SX!InsertAt(q, k, i)
  PROVE  Relabels(f, r, SX!InsertAt(x, k, e))
<1> DEFINE y == SX!InsertAt(x, k, e)
<1>1. r \in Seq(S) /\ IsInserted(r, q, k, i) /\ y \in Seq(T) /\ IsInserted(y, x, k, e)
  BY InsertedAt
<1> HIDE DEF y
<1>2. Len(q) \in Nat /\ k \in Nat /\ DOMAIN r = 1..(Len(q) + 1) /\ y = [n \in DOMAIN r |-> y[n]]
  BY <1>1 DEF IsInserted
<1>3. ASSUME NEW n \in 1..(Len(q) + 1) PROVE y[n] = f[r[n]]
  <2>1. CASE n < k
    BY <1>1, <1>2, <2>1 DEF IsInserted
  <2>2. CASE n = k
    BY <1>1, <1>2, <2>2 DEF IsInserted
  <2>3. CASE k < n
    <3>1. n - 1 \in 1..Len(q)
      BY <1>2, <2>3
    <3>2. r[n] = q[n - 1] /\ y[n] = x[n - 1]
      BY <1>1, <2>3 DEF IsInserted
    <3> QED BY <3>1, <3>2
  <2> QED BY <1>2, <2>1, <2>2, <2>3
<1> QED BY <1>2, <1>3 DEF y, Relabels

\* The same for an element taken out.
LEMMA RelabelRemoved ==
  ASSUME NEW S, NEW T, NEW f, NEW q \in Seq(S), NEW x \in Seq(T), NEW k \in 1..Len(q),
         Len(x) = Len(q), \A n \in 1..Len(q) : n # k => x[n] = f[q[n]],
         NEW r, r = SX!RemoveAt(q, k)
  PROVE  Relabels(f, r, SX!RemoveAt(x, k))
<1> DEFINE y == SX!RemoveAt(x, k)
<1>1. r \in Seq(S) /\ IsRemoved(r, q, k) /\ y \in Seq(T) /\ IsRemoved(y, x, k)
  BY RemovedAt
<1> HIDE DEF y
<1>2. Len(q) \in Nat /\ k \in Nat /\ DOMAIN r = 1..(Len(q) - 1) /\ y = [n \in DOMAIN r |-> y[n]]
  BY <1>1 DEF IsRemoved
<1>3. ASSUME NEW n \in 1..(Len(q) - 1) PROVE y[n] = f[r[n]]
  <2>1. CASE n < k
    <3>1. n \in 1..Len(q) /\ n # k
      BY <1>2, <2>1
    <3> QED BY <1>1, <2>1, <3>1 DEF IsRemoved
  <2>2. CASE ~(n < k)
    <3>1. n + 1 \in 1..Len(q) /\ n + 1 # k
      BY <1>2, <2>2
    <3>2. r[n] = q[n + 1] /\ y[n] = x[n + 1]
      BY <1>1, <2>2 DEF IsRemoved
    <3> QED BY <3>1, <3>2
  <2> QED BY <2>1, <2>2
<1> QED BY <1>2, <1>3 DEF y, Relabels

\* add_order puts the order in line on its side.
LEMMA PlaceShown ==
  ASSUME BookInv, BookInv', Shown, book' = Queues', NEW id, NEW side, NEW price, NEW qty,
         CanPlace(id, side, price, qty), Place(id, side, price, qty)
  PROVE  /\ Shown'
         /\ \E k \in 1..(Len(book[side]) + 1) :
              /\ Abstract!InLine(side, price, k)
              /\ book' = [book EXCEPT ![side] =
                            Abstract!SX!InsertAt(@, k, [order_id |-> id, price |-> price, qty |-> qty])]
<1> DEFINE e == [order_id |-> id, price |-> price, qty |-> qty]
<1>0. PICK q : q = [s \in Sides |-> Queue(s)]
  OBVIOUS
<1>1. /\ side \in Sides /\ price \in Prices /\ price \in Nat /\ e \in Entry
      /\ \A s \in Sides : Listing(s, q[s])
  BY <1>0, ImprovesOrders DEF CanPlace, Entry, Shown, HasQueues
<1>2. /\ book \in [Sides -> Seq(Entry)]
      /\ \A s \in Sides :
           /\ q[s] \in Seq(LiveOn(s)) /\ Len(q[s]) \in Nat
           /\ DOMAIN q[s] = 1..Len(q[s]) /\ DOMAIN book[s] = 1..Len(q[s])
           /\ Len(book[s]) = Len(q[s])
           /\ \A n \in 1..Len(q[s]) : q[s][n] \in Live /\ book[s][n] = Seen(q[s][n])
  BY <1>0, BookShows
<1>3. PICK k \in 1..(Len(q[side]) + 1) :
        /\ \A n \in 1..(k - 1) : ~Improves(side, price, orders[q[side][n]].price)
        /\ \A n \in k..Len(q[side]) : Improves(side, price, orders[q[side][n]].price)
  BY <1>1, PositionInLine DEF BookInv
<1>4. PICK t, r : t = Top /\ r = SX!InsertAt(q[side], k, t)
  OBVIOUS
<1> DEFINE b == SX!InsertAt(book[side], k, e)
<1>5. Listing(side, r)' /\ \A s \in Sides : s # side => Listing(s, q[s])'
  <2>1. Listing(side, r)'
    BY <1>1, <1>3, <1>4, PlaceListing DEF BookInv
  <2>2. ASSUME NEW s \in Sides, s # side PROVE Listing(s, q[s])'
    BY <1>1, <2>2, PlaceListing DEF BookInv
  <2> QED BY <2>1, <2>2
<1>6. \A s \in Sides : /\ Queue(s)' = IF s = side THEN r ELSE q[s]
                       /\ Listing(s, Queue(s))'
  BY <1>5, QueueNext
<1>7. Shown'
  BY <1>6 DEF Shown, HasQueues
<1>8. PICK f : f = [i \in Idx |-> Seen(i)']
  OBVIOUS
<1>9. f[t] = e /\ t \in Idx /\ \A i \in Live : f[i] = Seen(i) /\ i \in Idx
  <2>1. /\ Top \in Idx
        /\ orders'[Top].order_id = id /\ orders'[Top].price = price /\ orders'[Top].qty = qty
        /\ \A i \in Live : /\ orders'[i].order_id = orders[i].order_id
                           /\ orders'[i].price = orders[i].price
                           /\ orders'[i].qty = orders[i].qty
    BY PlacePool DEF BookInv
  <2> QED BY <1>4, <1>8, <2>1 DEF Seen, Live
<1>10. \A s \in Sides : book'[s] = IF s = side THEN b ELSE book[s]
  <2> SUFFICES ASSUME NEW s \in Sides PROVE book'[s] = IF s = side THEN b ELSE book[s]
    OBVIOUS
  <2>0. LiveOn(s) \subseteq Idx
    BY DEF LiveOn, Live
  <2>1. CASE s # side
    <3>1. book'[s] = [n \in 1..Len(q[s]) |-> Seen(q[s][n])']
      BY <1>2, <1>6, <2>1 DEF Queues
    <3>2. book[s] = [n \in 1..Len(q[s]) |-> Seen(q[s][n])]
      BY <1>0, <1>2 DEF Shown, Queues
    <3>3. \A n \in 1..Len(q[s]) : Seen(q[s][n])' = Seen(q[s][n])
      BY <1>2, <1>8, <1>9
    <3> QED BY <2>1, <3>1, <3>2, <3>3
  <2>2. CASE s = side
    <3>1. /\ q[side] \in Seq(Idx) /\ book[side] \in Seq(Entry) /\ Len(book[side]) = Len(q[side])
          /\ \A n \in 1..Len(q[side]) : book[side][n] = f[q[side][n]]
      BY <1>1, <1>2, <1>9, <2>0, <2>2
    <3> HIDE DEF e
    <3>2. Relabels(f, r, b)
      <4>1. PICK x, u : x = book[side] /\ u = q[side]
        OBVIOUS
      <4>2. /\ u \in Seq(Idx) /\ x \in Seq(Entry) /\ t \in Idx /\ e \in Entry
            /\ Len(x) = Len(u) /\ \A n \in 1..Len(u) : x[n] = f[u[n]]
            /\ f[t] = e /\ k \in 1..(Len(u) + 1) /\ r = SX!InsertAt(u, k, t)
        BY <1>1, <1>3, <1>4, <1>9, <3>1, <4>1
      <4>3. Relabels(f, r, SX!InsertAt(x, k, e))
        BY ONLY <4>2, RelabelInserted
      <4> QED BY <4>1, <4>3
    <3> HIDE DEF b
    <3>4. \A n \in DOMAIN r : r[n] \in Idx
      <4>1. Listing(side, r)' /\ Live' \subseteq Idx
        BY <1>5 DEF Live
      <4> QED BY <4>1 DEF Listing, LiveOn
    <3>5. book'[side] = [n \in DOMAIN r |-> Seen(r[n])']
      BY <1>1, <1>6 DEF Queues
    <3> QED BY <1>8, <2>2, <3>2, <3>4, <3>5 DEF Relabels
  <2> QED BY <2>1, <2>2
<1>11. book' = [book EXCEPT ![side] = b]
  <2>1. book' = [s \in Sides |-> book'[s]] /\ book = [s \in Sides |-> book[s]]
    BY <1>2 DEF Queues
  <2> HIDE DEF b
  <2> QED BY <1>1, <1>10, <2>1
<1>12. Abstract!InLine(side, price, k)
  <2>1. ASSUME NEW n \in 1..Len(q[side])
        PROVE  /\ book[side][n].price = orders[q[side][n]].price
               /\ orders[q[side][n]].price \in Nat
    <3>1. q[side][n] \in Live /\ book[side][n] = Seen(q[side][n])
      BY <1>1, <1>2
    <3>2. orders[q[side][n]].price \in Prices
      BY <3>1 DEF BookInv, StoreInv, LiveOrders
    <3>3. Seen(q[side][n]).price = orders[q[side][n]].price
      BY DEF Seen
    <3> QED BY <3>1, <3>2, <3>3, ImprovesOrders
  <2>2. /\ Len(book[side]) = Len(q[side])
        /\ 1..(k - 1) \subseteq 1..Len(q[side]) /\ k..Len(q[side]) \subseteq 1..Len(q[side])
    BY <1>1, <1>2, <1>3
  <2>3. ASSUME NEW n \in 1..(k - 1) PROVE Abstract!AsGood(side, book[side][n].price, price)
    <3>1. /\ book[side][n].price = orders[q[side][n]].price /\ orders[q[side][n]].price \in Nat
          /\ ~Improves(side, price, orders[q[side][n]].price)
      BY <1>3, <2>1, <2>2
    <3> QED BY <1>1, <3>1 DEF Abstract!AsGood, Improves
  <2>4. ASSUME NEW n \in k..Len(book[side])
        PROVE  ~Abstract!AsGood(side, book[side][n].price, price)
    <3>1. /\ book[side][n].price = orders[q[side][n]].price /\ orders[q[side][n]].price \in Nat
          /\ Improves(side, price, orders[q[side][n]].price)
      BY <1>3, <2>1, <2>2
    <3> QED BY <1>1, <3>1 DEF Abstract!AsGood, Improves
  <2> QED BY <2>3, <2>4 DEF Abstract!InLine
<1>13. b = Abstract!SX!InsertAt(book[side], k, e) /\ k \in 1..(Len(book[side]) + 1)
  BY <1>1, <1>2 DEF Abstract!SX!InsertAt, SX!InsertAt
<1> QED BY <1>1, <1>2, <1>7, <1>11, <1>12, <1>13

\* cancel_order and a full fill take the order out of its side and keep the rest in
\* line.
LEMMA RemoveShown ==
  ASSUME BookInv, BookInv', Shown, book' = Queues', NEW idx \in Live, RemoveOrder(idx),
         NEW side \in Sides, NEW k \in DOMAIN Queue(side), Queue(side)[k] = idx
  PROVE  /\ Shown'
         /\ k \in DOMAIN book[side] /\ book[side][k] = Seen(idx)
         /\ book' = [book EXCEPT ![side] = Abstract!SX!RemoveAt(@, k)]
<1>0. PICK q : q = [s \in Sides |-> Queue(s)]
  OBVIOUS
<1>1. \A s \in Sides : Listing(s, q[s])
  BY <1>0 DEF Shown, HasQueues
<1>2. /\ book \in [Sides -> Seq(Entry)]
      /\ \A s \in Sides :
           /\ q[s] \in Seq(LiveOn(s)) /\ Len(q[s]) \in Nat
           /\ DOMAIN q[s] = 1..Len(q[s]) /\ DOMAIN book[s] = 1..Len(q[s])
           /\ Len(book[s]) = Len(q[s])
           /\ \A n \in 1..Len(q[s]) : /\ q[s][n] \in LiveOn(s) /\ q[s][n] \in Live
                                      /\ book[s][n] = Seen(q[s][n])
  BY <1>0, BookShows
<1>3. /\ k \in 1..Len(q[side]) /\ q[side][k] = idx /\ orders[idx].side = side
      /\ k \in DOMAIN book[side] /\ book[side][k] = Seen(idx)
  <2>1. q[side] = Queue(side)
    BY <1>0
  <2>2. k \in 1..Len(q[side]) /\ q[side][k] = idx /\ DOMAIN book[side] = 1..Len(q[side])
    BY <1>2, <2>1
  <2>3. idx \in LiveOn(side) /\ book[side][k] = Seen(idx)
    BY <1>2, <2>2
  <2> QED BY <2>2, <2>3 DEF LiveOn
<1>4. PICK r : r = SX!RemoveAt(q[side], k)
  OBVIOUS
<1> DEFINE b == SX!RemoveAt(book[side], k)
<1>5. Listing(side, r)' /\ \A s \in Sides : s # side => Listing(s, q[s])'
  <2>1. Listing(side, r)'
    BY <1>1, <1>2, <1>3, <1>4, RemoveListing DEF BookInv
  <2>2. ASSUME NEW s \in Sides, s # side PROVE Listing(s, q[s])'
    BY <1>1, <1>3, <2>2, RemoveListing DEF BookInv
  <2> QED BY <2>1, <2>2
<1>6. \A s \in Sides : /\ Queue(s)' = IF s = side THEN r ELSE q[s]
                       /\ Listing(s, Queue(s))'
  BY <1>5, QueueNext
<1>7. Shown'
  BY <1>6 DEF Shown, HasQueues
<1>8. PICK f : f = [i \in Idx |-> Seen(i)']
  OBVIOUS
<1>9. \A i \in Live : i # idx => f[i] = Seen(i) /\ i \in Idx
  <2>1. \A i \in Live \ {idx} : /\ orders'[i].order_id = orders[i].order_id
                                /\ orders'[i].price = orders[i].price
                                /\ orders'[i].qty = orders[i].qty
    BY RemovePool DEF BookInv
  <2> QED BY <1>8, <2>1 DEF Seen, Live
<1>10. \A s \in Sides : book'[s] = IF s = side THEN b ELSE book[s]
  <2> SUFFICES ASSUME NEW s \in Sides PROVE book'[s] = IF s = side THEN b ELSE book[s]
    OBVIOUS
  <2>0. LiveOn(s) \subseteq Idx
    BY DEF LiveOn, Live
  <2>1. CASE s # side
    <3>1. book'[s] = [n \in 1..Len(q[s]) |-> Seen(q[s][n])']
      BY <1>2, <1>6, <2>1 DEF Queues
    <3>2. book[s] = [n \in 1..Len(q[s]) |-> Seen(q[s][n])]
      BY <1>0, <1>2 DEF Shown, Queues
    <3>3. \A n \in 1..Len(q[s]) : q[s][n] \in Live /\ q[s][n] # idx
      BY <1>2, <1>3, <2>1 DEF LiveOn
    <3>4. \A n \in 1..Len(q[s]) : Seen(q[s][n])' = Seen(q[s][n])
      BY <1>8, <1>9, <3>3
    <3> QED BY <2>1, <3>1, <3>2, <3>4
  <2>2. CASE s = side
    <3>1. PICK x, u : x = book[side] /\ u = q[side]
      OBVIOUS
    <3>2. /\ u \in Seq(Idx) /\ x \in Seq(Entry) /\ Len(x) = Len(u) /\ k \in 1..Len(u)
          /\ r = SX!RemoveAt(u, k)
      BY <1>2, <1>3, <1>4, <2>0, <2>2, <3>1
    <3>3. \A n \in 1..Len(u) : n # k => x[n] = f[u[n]]
      <4> SUFFICES ASSUME NEW n \in 1..Len(u), n # k PROVE x[n] = f[u[n]]
        OBVIOUS
      <4>1. u[n] # idx
        <5>1. Listing(side, u) /\ u[k] = idx /\ DOMAIN u = 1..Len(u)
          BY <1>1, <1>3, <3>1, <3>2
        <5> QED BY <3>2, <5>1 DEF Listing
      <4> QED BY <1>2, <1>9, <3>1, <4>1
    <3>4. Relabels(f, r, SX!RemoveAt(x, k))
      BY ONLY <3>2, <3>3, RelabelRemoved
    <3>5. Relabels(f, r, b)
      BY <3>1, <3>4
    <3> HIDE DEF b
    <3>6. \A n \in DOMAIN r : r[n] \in Idx
      <4>1. Listing(side, r)' /\ Live' \subseteq Idx
        BY <1>5 DEF Live
      <4> QED BY <4>1 DEF Listing, LiveOn
    <3>7. book'[side] = [n \in DOMAIN r |-> Seen(r[n])']
      BY <1>6 DEF Queues
    <3> QED BY <1>8, <2>2, <3>5, <3>6, <3>7 DEF Relabels
  <2> QED BY <2>1, <2>2
<1>11. book' = [book EXCEPT ![side] = b]
  <2>1. book' = [s \in Sides |-> book'[s]] /\ book = [s \in Sides |-> book[s]]
    BY <1>2 DEF Queues
  <2> HIDE DEF b
  <2> QED BY <1>10, <2>1
<1>12. b = Abstract!SX!RemoveAt(book[side], k)
  BY DEF Abstract!SX!RemoveAt, SX!RemoveAt
<1> QED BY <1>3, <1>7, <1>11, <1>12

\* A partial fill takes its quantity off the first entry of the side.
LEMMA ReduceShown ==
  ASSUME BookInv, BookInv', Shown, book' = Queues', NEW idx \in Live, NEW amount,
         orders' = [orders EXCEPT ![idx].qty = @ - amount], UNCHANGED free_stack,
         NEW side \in Sides, 1 \in DOMAIN Queue(side), Queue(side)[1] = idx
  PROVE  /\ Shown'
         /\ book' = [book EXCEPT ![side] = [@ EXCEPT ![1].qty = orders[idx].qty - amount]]
<1>0. PICK q : q = [s \in Sides |-> Queue(s)]
  OBVIOUS
<1>1. \A s \in Sides : Listing(s, q[s])
  BY <1>0 DEF Shown, HasQueues
<1>2. /\ book \in [Sides -> Seq(Entry)]
      /\ \A s \in Sides :
           /\ q[s] \in Seq(LiveOn(s)) /\ Len(q[s]) \in Nat
           /\ DOMAIN q[s] = 1..Len(q[s]) /\ DOMAIN book[s] = 1..Len(q[s])
           /\ \A n \in 1..Len(q[s]) : /\ q[s][n] \in LiveOn(s) /\ q[s][n] \in Live
                                      /\ book[s][n] = Seen(q[s][n])
  BY <1>0, BookShows
<1>3. \A s \in Sides : Listing(s, q[s])'
  BY <1>1, ReduceListing DEF BookInv, StoreInv
<1>4. \A s \in Sides : Queue(s)' = q[s] /\ Listing(s, Queue(s))'
  BY <1>3, QueueNext
<1>5. Shown'
  BY <1>4 DEF Shown, HasQueues
<1>6. \A i \in Live : Seen(i)' = IF i = idx THEN [Seen(i) EXCEPT !.qty = orders[idx].qty - amount]
                                 ELSE Seen(i)
  <2>1. orders \in [Idx -> Order] /\ idx \in Idx /\ Live \subseteq Idx
    BY DEF BookInv, StoreInv, SlotsOK, Live
  <2>2. \A i \in Idx : orders'[i] = IF i = idx THEN [orders[i] EXCEPT !.qty = @ - amount] ELSE orders[i]
    BY <2>1
  <2>3. \A i \in Idx : orders[i] \in Order
    BY ONLY <2>1
  <2> QED BY ONLY <2>1, <2>2, <2>3 DEF Seen, Order
<1>7. \A s \in Sides : book'[s] = [n \in DOMAIN book[s] |-> Seen(q[s][n])']
  BY <1>2, <1>4 DEF Queues
<1>8. /\ 1 \in DOMAIN q[side] /\ q[side][1] = idx
      /\ \A s \in Sides : \A n \in DOMAIN q[s] : q[s][n] = idx => s = side /\ n = 1
  <2> SUFFICES ASSUME NEW s \in Sides, NEW n \in DOMAIN q[s], q[s][n] = idx
               PROVE  s = side /\ n = 1
    BY <1>0
  <2>1. 1 \in DOMAIN q[side] /\ q[side][1] = idx
    BY <1>0
  <2>2. s = side
    <3>1. idx \in LiveOn(s) /\ idx \in LiveOn(side)
      BY <1>2, <2>1
    <3> QED BY <3>1 DEF LiveOn
  <2>3. n = 1
    BY <1>1, <1>2, <2>1, <2>2 DEF Listing
  <2> QED BY <2>2, <2>3
<1>9. \A s \in Sides : s # side => book'[s] = book[s]
  <2> SUFFICES ASSUME NEW s \in Sides, s # side PROVE book'[s] = book[s]
    OBVIOUS
  <2>1. book[s] = [n \in DOMAIN book[s] |-> book[s][n]]
    BY <1>2
  <2> QED BY <1>2, <1>6, <1>7, <1>8, <2>1
<1>10. book'[side] = [book[side] EXCEPT ![1].qty = orders[idx].qty - amount]
  <2>1. /\ 1 \in DOMAIN book[side] /\ book[side][1] = Seen(idx)
        /\ \A n \in DOMAIN book[side] : n # 1 => Seen(q[side][n])' = book[side][n]
        /\ Seen(q[side][1])' = [Seen(idx) EXCEPT !.qty = orders[idx].qty - amount]
    <3>1. DOMAIN q[side] = DOMAIN book[side]
      BY <1>2
    <3>2. 1 \in DOMAIN book[side] /\ book[side][1] = Seen(idx)
      BY <1>2, <1>8
    <3>3. ASSUME NEW n \in DOMAIN book[side], n # 1 PROVE Seen(q[side][n])' = book[side][n]
      <4>1. q[side][n] \in Live /\ q[side][n] # idx /\ book[side][n] = Seen(q[side][n])
        BY <1>2, <1>8, <3>1, <3>3
      <4> QED BY <1>6, <4>1
    <3>4. Seen(q[side][1])' = [Seen(idx) EXCEPT !.qty = orders[idx].qty - amount]
      BY <1>6, <1>8
    <3> QED BY <3>2, <3>3, <3>4
  <2>2. book[side] = [n \in DOMAIN book[side] |-> book[side][n]]
    BY <1>2
  <2> QED BY <1>7, <2>1, <2>2
<1>11. book' = [book EXCEPT ![side] = [@ EXCEPT ![1].qty = orders[idx].qty - amount]]
  <2>1. book' = [s \in Sides |-> book'[s]] /\ book = [s \in Sides |-> book[s]]
    BY <1>2 DEF Queues
  <2> QED BY <1>9, <1>10, <2>1
<1> QED BY <1>5, <1>11

\* A step that leaves the store alone leaves the book alone.
LEMMA KeepQueues ==
  ASSUME BookInv', Shown, UNCHANGED store
  PROVE  HasQueues' /\ Queues' = book
<1>0. PICK q : q = [s \in Sides |-> Queue(s)]
  OBVIOUS
<1>1. ASSUME NEW s \in Sides PROVE Listing(s, q[s])'
  <2>1. Listing(s, q[s])
    BY <1>0 DEF Shown, HasQueues
  <2> QED BY <2>1 DEF Listing, LiveOn, Live, FreeSlots, store, Improves
<1>2. \A s \in Sides : Queue(s)' = q[s] /\ Listing(s, Queue(s))'
  BY <1>1, QueueNext
<1>3. Queues' = Queues
  BY <1>0, <1>2 DEF Queues, Seen, store
<1> QED BY <1>2, <1>3 DEF Shown, HasQueues

\* So the book shows the same queues.
LEMMA KeepShown ==
  ASSUME BookInv', Shown, book' = Queues', UNCHANGED store
  PROVE  Shown' /\ book' = book
BY KeepQueues DEF Shown

------------------------------------------------------------------------------
(* Each action is an action of OrderBook                                   *)

\* add_order behind its argument checks is Rest of the abstract book.
LEMMA RestRefines ==
  ASSUME BookInv, BookInv', Shown, book' = Queues', NEW id \in OrderIds, NEW side \in Sides,
         NEW price \in Prices, NEW qty \in Qtys, qty > 0, ~Contains(id),
         Rest(id, side, price, qty)
  PROVE  Shown' /\ Abstract!Rest(id, side, price, qty)
<1>1. ~(qty = 0 \/ ~ValidPrice(price) \/ Contains(id) \/ IndexFull)
  BY IndexNeverFull, ClobAssumption DEF ValidPrice, Prices, Qtys
<1>2. Abstract!Full <=> free_stack = <<>>
  BY FullPool
<1>3. CASE free_stack = <<>>
  <2>1. ret' = FALSE /\ UNCHANGED store
    BY <1>3 DEF Rest
  <2>2. Shown' /\ book' = book
    BY <2>1, KeepShown
  <2> QED BY <1>2, <1>3, <2>1, <2>2 DEF Abstract!Rest
<1>4. CASE free_stack # <<>>
  <2>1. ret' = TRUE /\ Place(id, side, price, qty)
    BY <1>1, <1>4 DEF Rest
  <2>2. CanPlace(id, side, price, qty)
    BY <1>4 DEF CanPlace
  <2>3. Shown' /\ \E k \in 1..(Len(book[side]) + 1) :
          /\ Abstract!InLine(side, price, k)
          /\ book' = [book EXCEPT ![side] =
                        Abstract!SX!InsertAt(@, k, [order_id |-> id, price |-> price, qty |-> qty])]
    BY <2>1, <2>2, PlaceShown
  <2> QED BY <1>2, <1>4, <2>1, <2>3 DEF Abstract!Rest
<1> QED BY <1>3, <1>4

\* The early returns test what the abstract book calls acceptable.
LEMMA AcceptableArguments ==
  ASSUME BookInv, Shown, NEW id \in OrderIds, NEW price \in Nat, NEW qty
  PROVE  Abstract!Acceptable(id, price, qty) <=> ~(qty = 0 \/ ~ValidPrice(price) \/ Contains(id))
<1>1. price \in MinPrice..MaxPrice <=> ValidPrice(price)
  BY ClobAssumption DEF ValidPrice
<1> QED BY <1>1, RestingIds DEF Abstract!Acceptable

\* A call is in progress when pc says so.
LEMMA CallInProgress ==
  ASSUME IInv
  PROVE  pc = "idle" <=> call = Abstract!NoCall
BY DEF IInv, CallInv, Abstract!NoCall, NoCall

\* Each action is one of the abstract book, or leaves it as it was: add_order,
LEMMA AddOrderRefines ==
  ASSUME IInv, IInv', Shown, book' = Queues', NEW id \in OrderIds, NEW side \in Sides,
         NEW price \in InputPrices, NEW qty \in InputQtys, AddOrder(id, side, price, qty)
  PROVE  Shown' /\ Abstract!Add(id, side, price, qty)
<1>1. /\ price \in Nat /\ qty \in Qtys /\ BookInv /\ BookInv'
      /\ call = Abstract!NoCall /\ UNCHANGED <<call, executions>> /\ Rest(id, side, price, qty)
  BY ClobAssumption, CallInProgress DEF IInv, AddOrder
<1>2. CASE qty = 0 \/ ~ValidPrice(price) \/ Contains(id)
  <2>1. ret' = FALSE /\ UNCHANGED store
    BY <1>1, <1>2 DEF Rest
  <2>2. Shown' /\ book' = book
    BY <1>1, <2>1, KeepShown
  <2>3. ~Abstract!Acceptable(id, price, qty)
    BY <1>1, <1>2, AcceptableArguments
  <2> QED BY <1>1, <2>1, <2>2, <2>3 DEF Abstract!Add
<1>3. CASE ~(qty = 0 \/ ~ValidPrice(price) \/ Contains(id))
  <2>1. price \in Prices /\ qty > 0
    BY <1>1, <1>3, ClobAssumption DEF ValidPrice, Prices, Qtys
  <2>2. Shown' /\ Abstract!Rest(id, side, price, qty)
    BY <1>1, <1>3, <2>1, RestRefines
  <2>3. Abstract!Acceptable(id, price, qty)
    BY <1>1, <1>3, AcceptableArguments
  <2> QED BY <1>1, <2>2, <2>3 DEF Abstract!Add
<1> QED BY <1>2, <1>3

\* cancel_order,
LEMMA CancelOrderRefines ==
  ASSUME IInv, IInv', Shown, book' = Queues', NEW id \in OrderIds, CancelOrder(id)
  PROVE  Shown' /\ Abstract!Cancel(id)
<1>1. /\ BookInv /\ BookInv' /\ call = Abstract!NoCall /\ UNCHANGED <<call, executions>>
      /\ id \in Abstract!Resting <=> Contains(id)
  BY CallInProgress, RestingIds DEF IInv, CancelOrder
<1>2. CASE ~Contains(id)
  <2>1. ret' = FALSE /\ UNCHANGED store
    BY <1>2 DEF CancelOrder
  <2>2. Shown' /\ book' = book
    BY <1>1, <2>1, KeepShown
  <2> QED BY <1>1, <1>2, <2>1, <2>2 DEF Abstract!Cancel
<1>3. CASE Contains(id)
  <2> DEFINE idx == order_lookup[id]
  <2>1. idx \in Live /\ orders[idx].order_id = id /\ ret' = TRUE /\ RemoveOrder(idx)
    BY <1>1, <1>3 DEF CancelOrder, BookInv, StoreInv, PoolPartition
  <2>2. PICK side \in Sides : idx \in LiveOn(side)
    BY <1>1, <2>1 DEF LiveOn, BookInv, StoreInv, SlotsOK, Live, Order
  <2>3. PICK k \in DOMAIN Queue(side) : Queue(side)[k] = idx
    BY <2>2 DEF Shown, HasQueues, Listing
  <2>4. /\ Shown'
        /\ k \in DOMAIN book[side] /\ book[side][k] = Seen(idx)
        /\ book' = [book EXCEPT ![side] = Abstract!SX!RemoveAt(@, k)]
    BY <1>1, <2>1, <2>3, RemoveShown
  <2>5. book[side][k].order_id = id
    BY <2>1, <2>4 DEF Seen
  <2> QED BY <1>1, <1>3, <2>1, <2>4, <2>5 DEF Abstract!Cancel, Abstract!Sides, Sides
<1> QED BY <1>2, <1>3

\* the entry of submit_limit_order,
LEMMA SubmitRefines ==
  ASSUME IInv, IInv', Shown, book' = Queues', NEW id \in OrderIds, NEW side \in Sides,
         NEW price \in InputPrices, NEW qty \in InputQtys, SubmitLimitOrder(id, side, price, qty)
  PROVE  Shown' /\ (Abstract!Submit(id, side, price, qty) \/ Abstract!Reject(id, side, price, qty))
<1>1. /\ price \in Nat /\ BookInv /\ BookInv' /\ call = Abstract!NoCall /\ UNCHANGED store
      /\ executions' = executions
  BY ClobAssumption, CallInProgress DEF IInv, SubmitLimitOrder, store
<1>2. Shown' /\ book' = book
  BY <1>1, KeepShown
<1>3. Abstract!Acceptable(id, price, qty) <=> ~(qty = 0 \/ ~ValidPrice(price) \/ Contains(id))
  BY <1>1, AcceptableArguments
<1> QED BY <1>1, <1>2, <1>3 DEF SubmitLimitOrder, Abstract!Submit, Abstract!Reject

\* The head of the opposite side, as the loop condition of match_order sees it.
LEMMA TradeCondition ==
  ASSUME IInv, Shown, pc # "idle"
  PROVE  /\ Abstract!Opposite(call.side) = Opposite(call.side) /\ Opposite(call.side) \in Sides
         /\ Abstract!CanTrade <=> call.qty > 0 /\ Crosses(call.side, call.price)
         /\ Abstract!CanTrade =>
              LET opp == Opposite(call.side)
              IN  /\ 1 \in DOMAIN Queue(opp) /\ 1 \in DOMAIN book[opp]
                  /\ Queue(opp)[1] = levels[opp][best[opp]].head_idx
                  /\ Head(book[opp]) = Seen(Queue(opp)[1])
<1> DEFINE opp == Opposite(call.side)
<1>1. opp \in Sides /\ Abstract!Opposite(call.side) = opp /\ BookInv /\ call.price \in Nat
  BY ImprovesOrders DEF Opposite, Sides, Abstract!Opposite, IInv, CallInv
<1>2. /\ Queue(opp) \in Seq(LiveOn(opp)) /\ Len(Queue(opp)) \in Nat
      /\ DOMAIN Queue(opp) = 1..Len(Queue(opp)) /\ DOMAIN book[opp] = 1..Len(Queue(opp))
      /\ book[opp] \in Seq(Entry) /\ Len(book[opp]) = Len(Queue(opp))
      /\ \A n \in 1..Len(Queue(opp)) : book[opp][n] = Seen(Queue(opp)[n])
  BY <1>1, BookShows
<1>3. Listing(opp, Queue(opp))
  BY <1>1 DEF Shown, HasQueues
<1>4. /\ Queue(opp) = <<>> <=> best[opp] = NoPrice
      /\ Queue(opp) # <<>> => /\ 1 \in DOMAIN Queue(opp) /\ Queue(opp)[1] \in LiveOn(opp)
                              /\ orders[Queue(opp)[1]].price = best[opp]
                              /\ Queue(opp)[1] = levels[opp][best[opp]].head_idx
  BY <1>1, <1>3, HeadIsBest
<1>5. book[opp] = <<>> <=> Queue(opp) = <<>>
  BY <1>2
<1>6. Queue(opp) # <<>> => /\ 1 \in DOMAIN book[opp] /\ Head(book[opp]) = Seen(Queue(opp)[1])
                           /\ Head(book[opp]).price = best[opp]
  <2> SUFFICES ASSUME Queue(opp) # <<>>
               PROVE  /\ 1 \in DOMAIN book[opp] /\ Head(book[opp]) = Seen(Queue(opp)[1])
                      /\ Head(book[opp]).price = best[opp]
    OBVIOUS
  <2>1. 1 \in DOMAIN book[opp] /\ Head(book[opp]) = book[opp][1] /\ book[opp][1] = Seen(Queue(opp)[1])
    BY <1>2, <1>4
  <2>2. Seen(Queue(opp)[1]).price = best[opp]
    BY <1>4 DEF Seen
  <2> QED BY <2>1, <2>2
<1>7. Abstract!CanTrade <=> call.qty > 0 /\ Crosses(call.side, call.price)
  <2>1. Abstract!CanTrade <=> /\ call.qty > 0 /\ book[opp] # <<>>
                              /\ Abstract!AsGood(call.side, call.price, Head(book[opp]).price)
    BY <1>1 DEF Abstract!CanTrade
  <2>2. best[opp] # NoPrice => best[opp] \in Nat
    BY <1>1, ImprovesOrders DEF BookInv, StoreInv, SlotsOK
  <2>3. CASE Queue(opp) = <<>>
    BY <1>4, <1>5, <2>1, <2>3 DEF Crosses
  <2>4. CASE Queue(opp) # <<>>
    BY <1>1, <1>4, <1>5, <1>6, <2>1, <2>2, <2>4 DEF Crosses, Abstract!AsGood
  <2> QED BY <2>3, <2>4
<1>8. Abstract!CanTrade => Queue(opp) # <<>>
  BY <1>1, <1>5 DEF Abstract!CanTrade
<1> QED BY <1>1, <1>4, <1>6, <1>7, <1>8

\* taking a level and leaving it, which the abstract book does not see,
LEMMA LevelSteps ==
  ASSUME IInv, IInv', Shown, book' = Queues', EnterLevel \/ LeaveLevel
  PROVE  Shown' /\ UNCHANGED Abstract!vars
<1>1. UNCHANGED store /\ UNCHANGED <<call, executions, ret>>
  BY DEF EnterLevel, LeaveLevel, store
<1>2. Shown' /\ book' = book
  BY <1>1, KeepShown DEF IInv
<1> QED BY <1>1, <1>2 DEF Abstract!vars

\* What both fills have in common: the order at the head of the level is the first of
\* its side, and the call trades with it.
LEMMA MakerIsHead ==
  ASSUME IInv, Shown, AtLevel
  PROVE  /\ Abstract!Opposite(call.side) = Opposite(call.side) /\ Opposite(call.side) \in Sides
         /\ call # Abstract!NoCall /\ Abstract!CanTrade
         /\ 1 \in DOMAIN Queue(Opposite(call.side)) /\ 1 \in DOMAIN book[Opposite(call.side)]
         /\ Queue(Opposite(call.side))[1] = Maker
         /\ Head(book[Opposite(call.side)]) = Seen(Maker)
<1>1. pc # "idle" /\ call # Abstract!NoCall
  BY CallInProgress DEF AtLevel
<1>2. lvl = best[Opposite(call.side)] /\ Crosses(call.side, call.price) /\ call.qty > 0
  BY DEF IInv, CallInv, AtLevel
<1> QED BY <1>1, <1>2, TradeCondition DEF Maker, WorkLevel

\* the fill that uses up the incoming order,
LEMMA FillIncomingRefines ==
  ASSUME IInv, IInv', Shown, book' = Queues', FillIncoming
  PROVE  Shown' /\ Abstract!Trade
<1> DEFINE opp == Opposite(call.side)
<1>1. /\ Abstract!Opposite(call.side) = opp /\ opp \in Sides
      /\ call # Abstract!NoCall /\ Abstract!CanTrade
      /\ 1 \in DOMAIN Queue(opp) /\ Queue(opp)[1] = Maker
      /\ Head(book[opp]) = Seen(Maker)
  BY MakerIsHead DEF FillIncoming
<1>2. Maker \in Live /\ call \in Call /\ call.qty \in Nat
  BY MakerLive, ClobAssumption DEF FillIncoming, Qtys
<1>3. /\ Shown'
      /\ book' = [book EXCEPT ![opp] = [@ EXCEPT ![1].qty = orders[Maker].qty - call.qty]]
  <2>1. PICK idx, amount : idx = Maker /\ amount = call.qty
    OBVIOUS
  <2>2. /\ orders' = [orders EXCEPT ![idx].qty = @ - amount] /\ UNCHANGED free_stack
        /\ idx \in Live /\ Queue(opp)[1] = idx
    BY <1>1, <1>2, <2>1 DEF FillIncoming
  <2>3. /\ Shown'
        /\ book' = [book EXCEPT ![opp] = [@ EXCEPT ![1].qty = orders[idx].qty - amount]]
    BY <1>1, <2>2, ReduceShown DEF IInv
  <2> QED BY <2>1, <2>3
<1>4. /\ Seen(Maker).order_id = orders[Maker].order_id /\ Seen(Maker).price = orders[Maker].price
      /\ Seen(Maker).qty = orders[Maker].qty
  BY DEF Seen
<1>5. /\ call.qty < orders[Maker].qty /\ executions' = Append(executions, Execution(call.qty))
      /\ call' = [call EXCEPT !.qty = @ - call.qty] /\ ret' = ret
  BY <1>2 DEF FillIncoming, Call
<1>6. call.qty # orders[Maker].qty
  BY <1>2, <1>5, MakerLive, ClobAssumption DEF FillIncoming, Qtys
<1> QED BY <1>1, <1>3, <1>4, <1>5, <1>6 DEF Abstract!Trade, Execution

\* the fill that uses up a resting order,
LEMMA FillRestingRefines ==
  ASSUME IInv, IInv', Shown, book' = Queues', FillResting
  PROVE  Shown' /\ Abstract!Trade
<1> DEFINE opp == Opposite(call.side)
<1>1. /\ Abstract!Opposite(call.side) = opp /\ opp \in Sides
      /\ call # Abstract!NoCall /\ Abstract!CanTrade
      /\ 1 \in DOMAIN Queue(opp) /\ Queue(opp)[1] = Maker /\ 1 \in DOMAIN book[opp]
      /\ Head(book[opp]) = Seen(Maker)
  BY MakerIsHead DEF FillResting
<1>2. /\ Maker \in Live /\ call.qty \in Nat /\ orders[Maker].qty \in Nat
      /\ RemoveOrder(Maker)
  BY MakerLive, ClobAssumption DEF FillResting, Qtys
<1>3. Shown' /\ book' = [book EXCEPT ![opp] = Abstract!SX!RemoveAt(@, 1)]
  BY <1>1, <1>2, RemoveShown DEF IInv
<1>4. book' = [book EXCEPT ![opp] = Tail(@)]
  <2>1. book[opp] \in Seq(Entry)
    BY <1>1, BookShows DEF IInv
  <2> QED BY <1>1, <1>3, <2>1, RemoveFirst
<1>5. /\ Seen(Maker).order_id = orders[Maker].order_id /\ Seen(Maker).price = orders[Maker].price
      /\ Seen(Maker).qty = orders[Maker].qty
  BY DEF Seen
<1>6. /\ ~(call.qty < orders[Maker].qty)
      /\ executions' = Append(executions, Execution(orders[Maker].qty))
      /\ call' = [call EXCEPT !.qty = @ - orders[Maker].qty] /\ ret' = ret
  BY <1>2 DEF FillResting
<1> QED BY <1>1, <1>3, <1>4, <1>5, <1>6 DEF Abstract!Trade, Execution

\* and resting what is left.
LEMMA FinishSubmitRefines ==
  ASSUME IInv, IInv', Shown, book' = Queues', FinishSubmit
  PROVE  Shown' /\ Abstract!Finish
<1>1. /\ call # Abstract!NoCall /\ ~Abstract!CanTrade
      /\ call' = Abstract!NoCall /\ executions' = <<>>
  BY CallInProgress, TradeCondition DEF FinishSubmit, NoCall, Abstract!NoCall
<1>2. CASE call.qty = 0
  <2>1. ret' = TRUE /\ UNCHANGED store
    BY <1>2 DEF FinishSubmit
  <2>2. Shown' /\ book' = book
    BY <2>1, KeepShown DEF IInv
  <2> QED BY <1>1, <1>2, <2>1, <2>2 DEF Abstract!Finish
<1>3. CASE call.qty # 0
  <2>1. /\ call.order_id \in OrderIds /\ call.side \in Sides /\ call.price \in Prices
        /\ call.qty \in Qtys /\ call.qty > 0 /\ ~Contains(call.order_id)
        /\ Rest(call.order_id, call.side, call.price, call.qty)
    BY <1>3, ClobAssumption DEF FinishSubmit, IInv, CallInv, Call, Qtys
  <2>2. Shown' /\ Abstract!Rest(call.order_id, call.side, call.price, call.qty)
    BY <2>1, RestRefines DEF IInv
  <2> QED BY <1>1, <1>3, <2>2 DEF Abstract!Finish
<1> QED BY <1>2, <1>3

\* Init is Init of the abstract book, every step one of its steps or a stutter.
LEMMA InitRefines == Init /\ book = Queues => Shown /\ Abstract!Init
<1> SUFFICES ASSUME Init, book = Queues PROVE Shown /\ Abstract!Init
  OBVIOUS
<1>1. IInv
  BY InitInv
<1>2. Live = {}
  <2> SUFFICES ASSUME NEW i \in Idx PROVE i \in FreeSlots
    BY DEF Live
  <2>1. i + 1 \in 1..MaxOrders /\ (i + 1) - 1 = i
    BY ClobAssumption DEF Idx
  <2>2. free_stack[i + 1] = i /\ i + 1 \in DOMAIN free_stack
    BY <2>1 DEF Init
  <2> QED BY <2>2 DEF FreeSlots
<1>3. \A s \in Sides : Listing(s, <<>>) /\ Queue(s) = <<>>
  BY <1>1, <1>2, EmptyListing, QueueIs DEF IInv, BookInv, QueueUnique
<1>4. book = [s \in Sides |-> <<>>]
  <2>1. \A s \in Sides : [n \in DOMAIN Queue(s) |-> Seen(Queue(s)[n])] = <<>>
    BY <1>3
  <2> QED BY <2>1 DEF Queues
<1> QED BY <1>3, <1>4 DEF Init, Shown, HasQueues, Abstract!Init, Abstract!Sides, Sides,
                          NoCall, Abstract!NoCall

\* Every step of the engine is a step of the abstract book or a stutter, and the
\* queues keep existing.
LEMMA NextRefines ==
  ASSUME IInv, IInv', Shown, [Next /\ book' = Queues']_<<vars, book>>
  PROVE  Shown' /\ [Abstract!Next]_(Abstract!vars)
<1>1. CASE UNCHANGED <<vars, book>>
  <2>1. UNCHANGED store /\ UNCHANGED <<call, executions, ret>> /\ book' = book
    BY <1>1 DEF vars, store
  <2>2. Shown'
    BY <2>1, KeepQueues DEF IInv, Shown
  <2> QED BY <2>1, <2>2 DEF Abstract!vars
<1>2. ASSUME Next, book' = Queues'
      PROVE  Shown' /\ (Abstract!Next \/ UNCHANGED Abstract!vars)
  <2>1. ASSUME NEW id \in OrderIds, NEW side \in Sides, NEW price \in InputPrices,
               NEW qty \in InputQtys,
               SubmitLimitOrder(id, side, price, qty) \/ AddOrder(id, side, price, qty)
        PROVE  /\ Shown'
               /\ \/ Abstract!Reject(id, side, price, qty) \/ Abstract!Submit(id, side, price, qty)
                  \/ Abstract!Add(id, side, price, qty)
    BY <1>2, <2>1, SubmitRefines, AddOrderRefines
  <2>2. ASSUME NEW id \in OrderIds, CancelOrder(id)
        PROVE  Shown' /\ Abstract!Cancel(id)
    BY <1>2, <2>2, CancelOrderRefines
  <2>3. CASE EnterLevel \/ LeaveLevel
    BY <1>2, <2>3, LevelSteps
  <2>4. CASE FillIncoming \/ FillResting
    BY <1>2, <2>4, FillIncomingRefines, FillRestingRefines DEF Abstract!Next
  <2>5. CASE FinishSubmit
    BY <1>2, <2>5, FinishSubmitRefines DEF Abstract!Next
  <2>6. CASE \E id \in OrderIds, side \in Sides, price \in InputPrices, qty \in InputQtys :
               SubmitLimitOrder(id, side, price, qty) \/ AddOrder(id, side, price, qty)
    BY <2>1, <2>6 DEF Abstract!Next, Abstract!Sides, Sides
  <2>7. CASE \E id \in OrderIds : CancelOrder(id)
    BY <2>2, <2>7 DEF Abstract!Next
  <2> QED BY <1>2, <2>3, <2>4, <2>5, <2>6, <2>7 DEF Next, ExchangeNext, Matching
<1> QED BY <1>1, <1>2

\* The matching engine keeps strict price-time priority: with whatever pool size,
\* prices and ids, every call on the pooled, linked and cached book of fixed_clob.hpp
\* does to the queues what it does on the abstract book.
THEOREM PriceTimePriority == SpecWithBook => ImplementsOrderBook
<1>1. Init /\ book = Queues => IInv /\ Shown /\ Abstract!Init
  BY InitInv, InitRefines
<1>2. IInv /\ [Next /\ book' = Queues']_<<vars, book>> => IInv'
  <2>1. [Next /\ book' = Queues']_<<vars, book>> => [Next]_vars
    BY DEF vars
  <2> QED BY <2>1, NextInv
<1>3. IInv /\ IInv' /\ Shown /\ [Next /\ book' = Queues']_<<vars, book>>
        => Shown' /\ [Abstract!Next]_(Abstract!vars)
  BY NextRefines
<1> QED BY <1>1, <1>2, <1>3, PTL DEF SpecWithBook, ImplementsOrderBook, Abstract!Spec
------------------------------------------------------------------------------
(* The read-only members: at each price the places in line hold the orders *)
(* of its level, one each, in rank order; SumMoved carries over the total. *)

\* Sums do not depend on what the elements are called.
LEMMA SumMoved ==
  ASSUME NEW o, NEW p, NEW S, NEW T, IsFiniteSet(S), IsFiniteSet(T), NEW h \in Bijection(S, T),
         \A x \in S : o[x].qty \in Nat /\ o[x].qty = p[h[x]].qty
  PROVE  Sum(o, S) = Sum(p, T)
<1> DEFINE Img(s) == {h[x] : x \in s}
           Bad == {s \in SUBSET S : Sums(o, S)[s] # Sums(p, T)[Img(s)]}
<1>1. /\ \A x \in S : h[x] \in T
      /\ \A x, y \in S : h[x] = h[y] => x = y
      /\ \A y \in T : \E x \in S : h[x] = y
  BY DEF Bijection, Injection, Surjection, IsInjective
<1>2. \A y \in T : p[y].qty \in Nat
  BY <1>1
<1>3. Img(S) = T
  BY <1>1
<1>4. Bad = {}
  <2> SUFFICES ASSUME Bad # {} PROVE FALSE
    OBVIOUS
  <2>1. PICK s \in Bad : \A t \in Bad : t \subseteq s => t = s
    <3>1. Bad \in SUBSET (SUBSET S)
      OBVIOUS
    <3> HIDE DEF Bad
    <3> QED BY <3>1, LeastSubset
  <2>2. s \in SUBSET S /\ Img(s) \in SUBSET T
    BY <1>1
  <2>3. CASE s = {}
    <3>1. Sums(o, S)[{}] = SumOn(o, Sums(o, S), {}) /\ Sums(p, T)[{}] = SumOn(p, Sums(p, T), {})
      BY SumsAre
    <3>2. Img(s) = {}
      BY <2>3
    <3> QED BY <2>3, <3>1, <3>2 DEF SumOn
  <2>4. CASE s # {}
    <3>1. PICK y \in s : TRUE
      BY <2>4
    <3>2. s \ {y} \in SUBSET S /\ s \ {y} \notin Bad
      BY <2>1, <2>2, <3>1
    <3>3. Sums(o, S)[s \ {y}] = Sums(p, T)[Img(s \ {y})]
      BY <3>2
    <3>4. Sums(o, S)[s] = o[y].qty + Sums(o, S)[s \ {y}]
      BY <2>2, <3>1, SumsTake
    <3>5. Sums(p, T)[Img(s)] = p[h[y]].qty + Sums(p, T)[Img(s) \ {h[y]}]
      <4>1. PICK t, z : t = Img(s) /\ z = h[y]
        OBVIOUS
      <4>2. t \in SUBSET T /\ z \in t
        BY <2>2, <3>1, <4>1
      <4>3. Sums(p, T)[t] = p[z].qty + Sums(p, T)[t \ {z}]
        BY <1>2, <4>2, SumsTake
      <4> HIDE DEF Img
      <4> QED BY <4>1, <4>3
    <3>6. Img(s) \ {h[y]} = Img(s \ {y})
      BY <1>1, <2>2, <3>1
    <3>7. o[y].qty = p[h[y]].qty
      BY <2>2, <3>1
    <3> HIDE DEF Img
    <3> QED BY <2>1, <3>3, <3>4, <3>5, <3>6, <3>7
  <2> QED BY <2>3, <2>4
<1>5. S \in SUBSET S /\ S \notin Bad
  BY <1>4
<1> QED BY <1>3, <1>5 DEF Sum

\* The places in line at a price hold the orders of its level, one each, in the order
\* of their ranks.
LEMMA PlacesOfLevel ==
  ASSUME BookInv, Shown, NEW s \in Sides, NEW p \in Nat,
         NEW rank \in [Idx -> Idx], LevelsOrderedBy(rank)
  PROVE  /\ PlacesAt(s, p) \subseteq 1..Len(Queue(s)) /\ Len(Queue(s)) \in Nat
         /\ p \notin Prices => PlacesAt(s, p) = {}
         /\ \A k \in PlacesAt(s, p) : /\ Queue(s)[k] \in LiveAt(s, p)
                                      /\ book[s][k] = Seen(Queue(s)[k])
         /\ \A i \in LiveAt(s, p) : \E k \in PlacesAt(s, p) : Queue(s)[k] = i
         /\ \A k, m \in PlacesAt(s, p) :
              k < m => /\ Queue(s)[k] # Queue(s)[m]
                       /\ rank[Queue(s)[k]] < rank[Queue(s)[m]]
<1> DEFINE q == Queue(s)
<1>1. /\ Listing(s, q) /\ Len(q) \in Nat /\ DOMAIN q = 1..Len(q) /\ DOMAIN book[s] = 1..Len(q)
      /\ \A n \in 1..Len(q) : q[n] \in LiveOn(s) /\ book[s][n] = Seen(q[n])
  BY BookShows DEF Shown, HasQueues
<1> HIDE DEF q
<1>2. \A n \in 1..Len(q) : book[s][n].price = orders[q[n]].price
  <2>1. \A i : Seen(i).price = orders[i].price
    BY DEF Seen
  <2> QED BY <1>1, <2>1
<1>3. \A n \in 1..Len(q) : orders[q[n]].price \in Prices /\ q[n] \in Live /\ orders[q[n]].side = s
  BY <1>1 DEF LiveOn, BookInv, StoreInv, LiveOrders
<1>4. PlacesAt(s, p) = {k \in 1..Len(q) : orders[q[k]].price = p}
  BY <1>1, <1>2 DEF PlacesAt
<1>5. \A k \in PlacesAt(s, p) : q[k] \in LiveAt(s, p) /\ book[s][k] = Seen(q[k])
  BY <1>1, <1>3, <1>4 DEF LiveAt
<1>6. ASSUME NEW i \in LiveAt(s, p) PROVE \E k \in PlacesAt(s, p) : q[k] = i
  <2>1. i \in LiveOn(s) /\ orders[i].price = p
    BY <1>6 DEF LiveAt, LiveOn
  <2>2. PICK k \in 1..Len(q) : q[k] = i
    BY <1>1, <2>1 DEF Listing
  <2> QED BY <1>4, <2>1, <2>2
<1>7. ASSUME NEW k \in PlacesAt(s, p), NEW m \in PlacesAt(s, p), k < m
      PROVE  q[k] # q[m] /\ rank[q[k]] < rank[q[m]]
  <2>1. k \in DOMAIN q /\ m \in DOMAIN q /\ orders[q[k]].price = p /\ orders[q[m]].price = p
    BY <1>1, <1>4
  <2>2. q[k] # q[m]
    BY <1>1, <1>7, <2>1 DEF Listing
  <2>3. Before(rank, s, q[k], q[m])
    BY <1>1, <1>7, <2>1, ListingSorted DEF BookInv
  <2>4. ~Improves(s, p, p)
    BY DEF Improves
  <2> QED BY <2>1, <2>2, <2>3, <2>4 DEF Before
<1> QED BY <1>1, <1>3, <1>4, <1>5, <1>6, <1>7 DEF q

\* The fold of the observers is that of the level totals.
LEMMA PlaceSums ==
  \A s, line : FSX!MapThenSumSet(LAMBDA k : book[s][k].qty, line) = Sum(book[s], line)
BY DEF FSX!MapThenSumSet, FSX!MapThenFoldSet, Sum, Sums, SumOn, Any

\* Min and Max are the least and the greatest element.
LEMMA MinMax ==
  ASSUME NEW S \in SUBSET Nat, NEW m \in S
  PROVE  /\ (\A n \in S : m <= n) => FSX!Min(S) = m
         /\ (\A n \in S : n <= m) => FSX!Max(S) = m
<1>1. ASSUME \A n \in S : m <= n PROVE FSX!Min(S) = m
  <2>1. \A x \in S : (\A y \in S : x <= y) => x = m
    BY <1>1
  <2> QED BY <1>1, <2>1 DEF FSX!Min
<1>2. ASSUME \A n \in S : n <= m PROVE FSX!Max(S) = m
  <2>1. \A x \in S : (\A y \in S : x >= y) => x = m
    BY <1>2
  <2> QED BY <1>2, <2>1 DEF FSX!Max
<1> QED BY <1>1, <1>2

\* quantity_at, order_count_at, front_order_id and back_order_id say of a price what
\* the orders shown at it are.
LEMMA PriceReported ==
  ASSUME BookInv, LevelTotals, Shown, NEW s \in Sides, NEW p \in Nat
  PROVE  Reported(s, p)
<1> DEFINE A == LiveAt(s, p)
           l == levels[s][p]
<1>1. PICK rank \in [Idx -> Idx] : LevelsOrderedBy(rank)
  BY DEF BookInv, StoreInv, LevelsOrdered
<1>2. PICK q, line : q = Queue(s) /\ line = PlacesAt(s, p)
  OBVIOUS
<1>3. /\ line \subseteq 1..Len(q) /\ Len(q) \in Nat
      /\ p \notin Prices => line = {}
      /\ \A k \in line : q[k] \in A /\ book[s][k] = Seen(q[k])
      /\ \A i \in A : \E k \in line : q[k] = i
      /\ \A k, m \in line : k < m => q[k] # q[m] /\ rank[q[k]] < rank[q[m]]
  BY <1>1, <1>2, PlacesOfLevel
<1>4. p \notin Prices => A = {}
  BY <1>3
<1>5. A \subseteq Idx /\ IsFiniteSet(A) /\ \A i \in A : orders[i].qty \in Nat
  <2>1. CASE p \in Prices
    BY <2>1, LevelSums DEF BookInv
  <2>2. CASE p \notin Prices
    BY <1>4, <2>2, FS_EmptySet
  <2> QED BY <2>1, <2>2
<1>6. IsFiniteSet(line)
  <2>1. IsFiniteSet(1..Len(q))
    BY <1>3, FS_Interval
  <2> QED BY <1>3, <2>1, FS_Subset
<1> HIDE DEF A
<1>7. PICK h : h = [k \in line |-> q[k]]
  OBVIOUS
<1>8. h \in Bijection(line, A)
  <2>1. \A k, m \in line : k # m => q[k] # q[m]
    <3> SUFFICES ASSUME NEW k \in line, NEW m \in line, k # m PROVE q[k] # q[m]
      OBVIOUS
    <3>1. k \in Nat /\ m \in Nat
      BY <1>3
    <3>2. k < m \/ m < k
      BY <3>1
    <3> QED BY <1>3, <3>2
  <2> QED BY <1>3, <1>7, <2>1 DEF Bijection, Injection, Surjection, IsInjective
<1>9. \A i : Seen(i).qty = orders[i].qty /\ Seen(i).order_id = orders[i].order_id
  BY DEF Seen
<1>10. Sum(book[s], line) = Sum(orders, A)
  <2>1. \A k \in line : book[s][k].qty \in Nat /\ book[s][k].qty = orders[h[k]].qty
    BY <1>3, <1>5, <1>7, <1>9
  <2> QED BY <1>5, <1>6, <1>8, <2>1, SumMoved
<1>11. Cardinality(line) = Cardinality(A)
  <2>1. ExistsBijection(line, A)
    BY <1>8 DEF ExistsBijection
  <2> QED BY <1>6, <2>1, FS_Bijection
<1>12. CASE p \notin Prices
  <2>1. AtPrice(s, p) = EmptyLevel
    BY <1>12 DEF AtPrice, ValidPrice, Prices
  <2>2. line = {}
    BY <1>3, <1>12
  <2>3. Sum(book[s], line) = 0 /\ Cardinality(line) = 0
    BY <2>2, SumOfNone, FS_EmptySet
  <2>4. 0 % QtyMod = 0
    BY ClobAssumption, SMT
  <2>5. IdIn(NullIndex) = <<>>
    BY DEF IdIn
  <2>6. /\ quantity_at(s, p) = 0 /\ order_count_at(s, p) = 0
        /\ front_order_id(s, p) = <<>> /\ back_order_id(s, p) = <<>>
    BY <2>1, <2>5 DEF quantity_at, order_count_at, front_order_id, back_order_id, EmptyLevel
  <2> QED BY <1>2, <2>2, <2>3, <2>4, <2>6, PlaceSums DEF Reported
<1>13. CASE p \in Prices
  <2>1. AtPrice(s, p) = l
    BY <1>13, ClobAssumption DEF AtPrice, ValidPrice, Prices
  <2>2. l.total_qty = Sum(book[s], line) % QtyMod
    BY <1>10, <1>13, TotalsAre DEF A
  <2>3. l.order_count = Cardinality(line)
    BY <1>11, <1>13 DEF BookInv, StoreInv, LevelCounts, A
  <2>4. Ends(rank, A, l)
    BY <1>1, <1>13 DEF LevelsOrderedBy, Ordered, A
  <2>5. /\ IdIn(l.head_idx) = IF line = {} THEN <<>> ELSE <<book[s][FSX!Min(line)].order_id>>
        /\ IdIn(l.tail_idx) = IF line = {} THEN <<>> ELSE <<book[s][FSX!Max(line)].order_id>>
    <3>1. CASE line = {}
      <4>1. A = {}
        BY <1>3, <3>1
      <4> QED BY <2>4, <3>1, <4>1 DEF Ends, IdIn
    <3>2. CASE line # {}
      <4>1. /\ A # {} /\ l.head_idx \in A /\ l.tail_idx \in A
            /\ \A j \in A : rank[l.head_idx] <= rank[j] /\ rank[j] <= rank[l.tail_idx]
        BY <1>3, <2>4, <3>2 DEF Ends
      <4>2. PICK f \in line : q[f] = l.head_idx
        BY <1>3, <4>1
      <4>3. PICK b \in line : q[b] = l.tail_idx
        BY <1>3, <4>1
      <4>4. /\ line \in SUBSET Nat
            /\ \A i \in A : rank[i] \in Nat
        BY <1>3, <1>5, ClobAssumption DEF Idx
      <4>5. ASSUME NEW n \in line PROVE f <= n /\ n <= b
        <5>1. f \in Nat /\ n \in Nat /\ b \in Nat
          BY <4>4
        <5>2. q[n] \in A /\ rank[q[f]] <= rank[q[n]] /\ rank[q[n]] <= rank[q[b]]
          BY <1>3, <4>1, <4>2, <4>3
        <5>3. rank[q[f]] \in Nat /\ rank[q[n]] \in Nat /\ rank[q[b]] \in Nat
          BY <4>1, <4>2, <4>3, <4>4, <5>2
        <5>4. ~(n < f) /\ ~(b < n)
          BY <1>3, <5>2, <5>3
        <5> QED BY <5>1, <5>4
      <4>6. FSX!Min(line) = f /\ FSX!Max(line) = b
        BY <4>4, <4>5, MinMax
      <4>7. NullIndex \notin A
        BY <1>5, ClobAssumption
      <4>8. /\ IdIn(l.head_idx) = <<orders[q[f]].order_id>>
            /\ IdIn(l.tail_idx) = <<orders[q[b]].order_id>>
        BY <4>1, <4>2, <4>3, <4>7 DEF IdIn
      <4> QED BY <1>3, <1>9, <3>2, <4>6, <4>8
    <3> QED BY <3>1, <3>2
  <2> HIDE DEF l
  <2> QED BY <1>2, <2>1, <2>2, <2>3, <2>5, PlaceSums
          DEF Reported, quantity_at, order_count_at, front_order_id, back_order_id
<1> QED BY <1>12, <1>13

\* As many orders are active as stand in line.
LEMMA ActiveInLine ==
  ASSUME BookInv, Shown
  PROVE  active_orders = Len(book["Buy"]) + Len(book["Sell"])
<1>1. \A s \in Sides : Len(book[s]) = Cardinality(LiveOn(s))
  <2> SUFFICES ASSUME NEW s \in Sides PROVE Len(Queue(s)) = Cardinality(LiveOn(s))
    BY BookShows
  <2>1. Listing(s, Queue(s)) /\ Len(Queue(s)) \in Nat
    BY BookShows DEF Shown, HasQueues
  <2> QED BY <2>1, ListingLength DEF BookInv
<1>2. Cardinality(Live) = Cardinality(LiveOn("Buy")) + Cardinality(LiveOn("Sell"))
  BY SidesCount
<1> QED BY <1>1, <1>2, LiveCount DEF active_orders, BookInv, Sides

\* All read-only members say what the book shows.
LEMMA AllReported ==
  ASSUME BookInv, LevelTotals, Shown
  PROVE  ObserversAgree
<1>1. \A s \in Sides : Len(book[s]) = Cardinality(LiveOn(s)) /\ Listing(s, Queue(s))
  <2> SUFFICES ASSUME NEW s \in Sides
               PROVE  Len(Queue(s)) = Cardinality(LiveOn(s)) /\ Listing(s, Queue(s))
    BY BookShows
  <2>1. Listing(s, Queue(s)) /\ Len(Queue(s)) \in Nat
    BY BookShows DEF Shown, HasQueues
  <2> QED BY <2>1, ListingLength DEF BookInv
<1>2. active_orders = Len(book["Buy"]) + Len(book["Sell"])
  BY ActiveInLine
<1>3. available_slots = MaxOrders - active_orders
  BY ClobAssumption DEF available_slots, active_orders, BookInv, StoreInv, SlotsOK
<1>4. ASSUME NEW s \in Sides
      PROVE  BestLevel(s) = IF book[s] = <<>> THEN <<>>
                            ELSE <<book[s][1].price, quantity_at(s, book[s][1].price)>>
  <2>1. PICK q : q = Queue(s)
    OBVIOUS
  <2>2. /\ Listing(s, q) /\ Len(q) \in Nat /\ DOMAIN q = 1..Len(q) /\ Len(book[s]) = Len(q)
        /\ \A n \in 1..Len(q) : book[s][n] = Seen(q[n]) /\ q[n] \in Live
    BY <1>1, <2>1, BookShows
  <2>3. q = <<>> <=> best[s] = NoPrice
    BY <2>2, HeadIsBest
  <2>4. book[s] = <<>> <=> q = <<>>
    BY <2>2, BookShows DEF Listing
  <2>5. CASE q # <<>>
    <3>1. 1 \in 1..Len(q) /\ orders[q[1]].price = best[s]
      BY <2>2, <2>5, HeadIsBest
    <3>2. book[s][1].price = best[s]
      <4>1. Seen(q[1]).price = orders[q[1]].price
        BY DEF Seen
      <4> QED BY <2>2, <3>1, <4>1
    <3>3. best[s] \in Prices
      BY <2>2, <3>1 DEF BookInv, StoreInv, LiveOrders
    <3>4. quantity_at(s, best[s]) = levels[s][best[s]].total_qty
      BY <3>3, ClobAssumption DEF quantity_at, AtPrice, ValidPrice, Prices
    <3> QED BY <2>3, <2>4, <2>5, <3>2, <3>4 DEF BestLevel
  <2> QED BY <2>3, <2>4, <2>5 DEF BestLevel
<1>5. \A s \in Sides, p \in InputPrices : Reported(s, p)
  BY PriceReported, ClobAssumption
<1> QED BY <1>2, <1>3, <1>4, <1>5 DEF ObserversAgree

\* The read-only members report the queues, for every pool size, price range and
\* word: best_bid and best_ask the first of a side with its total, quantity_at and
\* order_count_at the sum and number of the orders at a price, front_order_id and
\* back_order_id the first and the last of them.
THEOREM ObserversTrue == SpecWithBook => []ObserversAgree
<1>1. Init /\ book = Queues => IInv /\ LevelTotals /\ Shown
  BY InitInv, InitTotals, InitRefines
<1>2. IInv /\ LevelTotals /\ Shown /\ [Next /\ book' = Queues']_<<vars, book>>
        => IInv' /\ LevelTotals' /\ Shown'
  <2>1. [Next /\ book' = Queues']_<<vars, book>> => [Next]_vars
    OBVIOUS
  <2> QED BY <2>1, NextInv, NextTotals, NextRefines
<1>3. IInv /\ LevelTotals /\ Shown => ObserversAgree
  BY AllReported DEF IInv
<1> QED BY <1>1, <1>2, <1>3, PTL DEF SpecWithBook
------------------------------------------------------------------------------
(* The ledger                                                              *)

\* The ledger's type, and the inductive invariant.
LedgerOK == ledger \in [OrderIds -> [side : Sides, price : Prices \cup {0}, left : Qtys]]
LedgerInv == IInv /\ LedgerOK /\ LedgerAgrees

\* What the ledger says of the two sides of a trade.
LEMMA BothOpen ==
  ASSUME LedgerInv, AtLevel
  PROVE  /\ call.order_id \in OrderIds /\ orders[Maker].order_id \in OrderIds
         /\ call.order_id # orders[Maker].order_id
         /\ Contains(orders[Maker].order_id) /\ order_lookup[orders[Maker].order_id] = Maker
         /\ ledger[call.order_id] = [side |-> call.side, price |-> call.price, left |-> call.qty]
         /\ ledger[orders[Maker].order_id]
              = [side |-> Opposite(call.side), price |-> lvl, left |-> orders[Maker].qty]
         /\ call.qty \in Nat /\ call.qty > 0
         /\ orders[Maker].qty \in Nat /\ orders[Maker].qty > 0
<1>1. /\ Maker \in Live /\ Maker \in Idx /\ orders[Maker].side = Opposite(call.side)
      /\ orders[Maker].price = lvl /\ orders[Maker].qty \in Nat /\ orders[Maker].qty > 0
      /\ orders[Maker].order_id \in OrderIds /\ call.qty \in Nat
  BY MakerLive, ClobAssumption DEF LedgerInv, Qtys
<1>2. order_lookup[orders[Maker].order_id] = Maker /\ Contains(orders[Maker].order_id)
  BY <1>1, ClobAssumption DEF LedgerInv, IInv, BookInv, StoreInv, PoolPartition, Contains
<1>3. pc # "idle" /\ call.order_id \in OrderIds /\ ~Contains(call.order_id) /\ call.qty > 0
  BY DEF AtLevel, LedgerInv, IInv, CallInv
<1>4. ledger[orders[Maker].order_id]
        = [side |-> orders[Maker].side, price |-> orders[Maker].price, left |-> orders[Maker].qty]
  BY <1>1, <1>2 DEF LedgerInv, LedgerAgrees
<1>5. ledger[call.order_id] = [side |-> call.side, price |-> call.price, left |-> call.qty]
  BY <1>3 DEF LedgerInv, LedgerAgrees
<1> QED BY <1>1, <1>2, <1>3, <1>4, <1>5

\* The trade is the last execution reported.
LEMMA LastReported ==
  ASSUME IInv, NEW x, executions' = Append(executions, x)
  PROVE  executions'[Len(executions')] = x
BY DEF IInv, CallInv

\* What LedgerAgrees says of one id.
InCall(id) == pc # "idle" /\ call.qty > 0 /\ id = call.order_id
EntryOf(i) == [side |-> orders[i].side, price |-> orders[i].price, left |-> orders[i].qty]
Agrees(id) ==
  /\ Contains(id) => ledger[id] = EntryOf(order_lookup[id])
  /\ InCall(id) => ledger[id] = [side |-> call.side, price |-> call.price, left |-> call.qty]
  /\ ledger[id] # NoEntry <=> Contains(id) \/ InCall(id)
AllAgree == (pc # "idle" => call.order_id \in OrderIds) /\ \A id \in OrderIds : Agrees(id)

\* LedgerAgrees says it of every id.
LEMMA OneById == AllAgree <=> LedgerAgrees /\ (pc # "idle" => call.order_id \in OrderIds)
<1>1. AllAgree => LedgerAgrees
  BY DEF AllAgree, Agrees, EntryOf, LedgerAgrees, InCall, Open
<1>2. ASSUME LedgerAgrees, pc # "idle" => call.order_id \in OrderIds PROVE AllAgree
  BY <1>2 DEF AllAgree, Agrees, EntryOf, LedgerAgrees, InCall, Open
<1> QED BY <1>1, <1>2 DEF AllAgree

\* The same after a step.
LEMMA OneByIdNext == AllAgree' => LedgerAgrees'
BY OneById, PTL

\* The entries of orders a step does not touch: it is enough to look at the others.
LEMMA LedgerFrame ==
  ASSUME IInv', NEW C \in SUBSET OrderIds, \A id \in C : Agrees(id)',
         \A id \in OrderIds \ C : /\ Agrees(id) /\ ledger'[id] = ledger[id]
                                  /\ order_lookup'[id] = order_lookup[id]
                                  /\ Contains(id) => EntryOf(order_lookup[id])' = EntryOf(order_lookup[id])
                                  /\ InCall(id)' <=> InCall(id)
                                  /\ InCall(id) => UNCHANGED call
  PROVE  LedgerAgrees'
<1>1. pc' # "idle" => call'.order_id \in OrderIds
  BY DEF IInv, CallInv
<1>2. ASSUME NEW id \in OrderIds \ C PROVE Agrees(id)'
  <2>1. Contains(id)' <=> Contains(id)
    BY DEF Contains
  <2> QED BY <2>1 DEF Agrees, EntryOf, InCall, NoEntry
<1>3. AllAgree'
  BY <1>1, <1>2 DEF AllAgree
<1> QED BY <1>3, OneByIdNext

\* Removing an order takes its entry out of the index and changes no other.
LEMMA RemoveEntries ==
  ASSUME BookInv, NEW idx \in Live, RemoveOrder(idx)
  PROVE  /\ orders[idx].order_id \in OrderIds /\ Contains(orders[idx].order_id)
         /\ order_lookup'[orders[idx].order_id] = NullIndex
         /\ \A id \in OrderIds : id # orders[idx].order_id =>
              /\ order_lookup'[id] = order_lookup[id]
              /\ Contains(id) => EntryOf(order_lookup[id])' = EntryOf(order_lookup[id])
<1>1. /\ orders[idx].order_id \in OrderIds /\ order_lookup[orders[idx].order_id] = idx
      /\ NullIndex \notin Live
  BY ClobAssumption DEF BookInv, StoreInv, PoolPartition, Live
<1>2. \A id \in OrderIds :
        order_lookup'[id] = IF id = orders[idx].order_id THEN NullIndex ELSE order_lookup[id]
  BY <1>1 DEF RemoveOrder, Erased, BookInv, StoreInv, SlotsOK
<1>3. order_lookup'[orders[idx].order_id] = NullIndex
  BY <1>1, <1>2
<1>4. ASSUME NEW id \in OrderIds, id # orders[idx].order_id
      PROVE  /\ order_lookup'[id] = order_lookup[id]
             /\ Contains(id) => EntryOf(order_lookup[id])' = EntryOf(order_lookup[id])
  <2>1. order_lookup'[id] = order_lookup[id]
    BY <1>2, <1>4
  <2>2. Contains(id) => order_lookup[id] \in Live \ {idx}
    BY <1>4 DEF BookInv, StoreInv, PoolPartition
  <2>3. \A i \in Live \ {idx} : /\ orders'[i].side = orders[i].side
                                /\ orders'[i].price = orders[i].price
                                /\ orders'[i].qty = orders[i].qty
    BY RemovePool DEF BookInv
  <2> QED BY <2>1, <2>2, <2>3 DEF EntryOf
<1> QED BY <1>1, <1>3, <1>4 DEF Contains

\* Placing an order enters it, and changes no other entry.
LEMMA PlaceEntries ==
  ASSUME BookInv, NEW id, NEW side, NEW price, NEW qty,
         CanPlace(id, side, price, qty), Place(id, side, price, qty)
  PROVE  /\ order_lookup'[id] \in Idx
         /\ orders'[order_lookup'[id]].side = side /\ orders'[order_lookup'[id]].price = price
         /\ orders'[order_lookup'[id]].qty = qty
         /\ \A x \in OrderIds : x # id =>
              /\ order_lookup'[x] = order_lookup[x]
              /\ Contains(x) => EntryOf(order_lookup[x])' = EntryOf(order_lookup[x])
<1>1. /\ Top \in Idx /\ orders'[Top].side = side /\ orders'[Top].price = price
      /\ orders'[Top].qty = qty
      /\ \A i \in Live : /\ orders'[i].side = orders[i].side
                         /\ orders'[i].price = orders[i].price
                         /\ orders'[i].qty = orders[i].qty
  BY PlacePool DEF BookInv
<1>2. \A x \in OrderIds : order_lookup'[x] = IF x = id THEN Top ELSE order_lookup[x]
  BY DEF Place, CanPlace, BookInv, StoreInv, SlotsOK
<1>3. id \in OrderIds /\ order_lookup'[id] = Top
  BY <1>2 DEF CanPlace
<1>4. ASSUME NEW x \in OrderIds, x # id
      PROVE  /\ order_lookup'[x] = order_lookup[x]
             /\ Contains(x) => EntryOf(order_lookup[x])' = EntryOf(order_lookup[x])
  <2>1. order_lookup'[x] = order_lookup[x] /\ (Contains(x) => order_lookup[x] \in Live)
    BY <1>2, <1>4 DEF BookInv, StoreInv, PoolPartition
  <2> QED BY <1>1, <2>1 DEF EntryOf
<1> QED BY <1>1, <1>3, <1>4

\* A ledger entry with something left is not an empty one.
LEMMA Unfilled ==
  ASSUME NEW side, NEW price, NEW left, left # 0
  PROVE  [side |-> side, price |-> price, left |-> left] # NoEntry
BY DEF NoEntry

\* Each action keeps the ledger right: submit_limit_order,
LEMMA SubmitLedger ==
  ASSUME LedgerInv, IInv', NEW id \in OrderIds, NEW side \in Sides, NEW price \in InputPrices,
         NEW qty \in InputQtys, SubmitH(id, side, price, qty)
  PROVE  LedgerOK' /\ LedgerAgrees'
<1>1. AllAgree
  BY OneById DEF LedgerInv, IInv, CallInv
<1>2. /\ pc = "idle" /\ UNCHANGED store /\ SubmitLimitOrder(id, side, price, qty)
      /\ ledger' = IF pc' = "idle" THEN ledger
                   ELSE [ledger EXCEPT ![id] = [side |-> side, price |-> price, left |-> qty]]
  BY DEF SubmitH, SubmitLimitOrder, store
<1>3. \A x \in OrderIds : EntryOf(order_lookup[x])' = EntryOf(order_lookup[x])
  BY <1>2 DEF EntryOf, store
<1>4. \A x \in OrderIds : order_lookup'[x] = order_lookup[x]
  BY <1>2 DEF store
<1>5. CASE qty = 0 \/ ~ValidPrice(price) \/ Contains(id)
  <2>1. pc' = "idle" /\ call' = call /\ ledger' = ledger
    BY <1>2, <1>5 DEF SubmitLimitOrder
  <2>2. LedgerAgrees'
    <3>1. {} \in SUBSET OrderIds /\ \A x \in {} : Agrees(x)'
      OBVIOUS
    <3>2. \A x \in OrderIds \ {} : /\ Agrees(x) /\ ledger'[x] = ledger[x]
                                   /\ InCall(x)' <=> InCall(x)
      BY <1>1, <1>2, <2>1 DEF AllAgree, InCall
    <3> QED BY <1>3, <1>4, <2>1, <3>1, <3>2, LedgerFrame
  <2> QED BY <2>1, <2>2 DEF LedgerInv, LedgerOK
<1>6. CASE ~(qty = 0 \/ ~ValidPrice(price) \/ Contains(id))
  <2>1. /\ pc' = "match_order"
        /\ call' = [order_id |-> id, side |-> side, price |-> price, qty |-> qty, submitted |-> qty]
        /\ ledger' = [ledger EXCEPT ![id] = [side |-> side, price |-> price, left |-> qty]]
    BY <1>2, <1>6 DEF SubmitLimitOrder
  <2>2. price \in Prices /\ qty \in Qtys /\ qty \in Nat /\ qty > 0
    BY <1>6, ClobAssumption DEF ValidPrice, Prices, Qtys
  <2>3. LedgerOK'
    BY <2>1, <2>2 DEF LedgerInv, LedgerOK
  <2>4. Agrees(id)'
    <3>1. ~Contains(id)' /\ InCall(id)'
      BY <1>4, <1>6, <2>1, <2>2 DEF Contains, InCall
    <3>2. ledger'[id] = [side |-> side, price |-> price, left |-> qty] /\ ledger'[id] # NoEntry
      BY <2>1, <2>2, Unfilled DEF LedgerInv, LedgerOK
    <3> QED BY <2>1, <3>1, <3>2 DEF Agrees, NoEntry
  <2>5. \A x \in OrderIds : x # id => ledger'[x] = ledger[x] /\ ~InCall(x)' /\ ~InCall(x)
    BY <1>2, <2>1 DEF InCall, LedgerInv, LedgerOK
  <2>6. LedgerAgrees'
    <3>1. \A x \in OrderIds \ {id} : x # id /\ Agrees(x)
      BY <1>1 DEF AllAgree
    <3> QED BY <1>3, <1>4, <2>4, <2>5, <3>1, LedgerFrame
  <2> QED BY <2>3, <2>6
<1> QED BY <1>5, <1>6

\* cancel_order,
LEMMA CancelLedger ==
  ASSUME LedgerInv, IInv', NEW id \in OrderIds, CancelH(id)
  PROVE  LedgerOK' /\ LedgerAgrees'
<1>1. AllAgree /\ BookInv /\ pc = "idle" /\ pc' = "idle" /\ call' = call
  BY OneById DEF LedgerInv, IInv, CallInv, CancelH, CancelOrder
<1>2. CASE ~Contains(id)
  <2>1. UNCHANGED store /\ ledger' = ledger
    BY <1>2 DEF CancelH, CancelOrder
  <2>2. {} \in SUBSET OrderIds /\ \A x \in {} : Agrees(x)'
    OBVIOUS
  <2>3. \A x \in OrderIds \ {} :
          /\ Agrees(x) /\ ledger'[x] = ledger[x] /\ order_lookup'[x] = order_lookup[x]
          /\ EntryOf(order_lookup[x])' = EntryOf(order_lookup[x])
          /\ InCall(x)' <=> InCall(x)
    BY <1>1, <2>1 DEF AllAgree, InCall, EntryOf, store
  <2>4. LedgerAgrees'
    BY <1>1, <2>2, <2>3, LedgerFrame
  <2> QED BY <2>1, <2>4 DEF LedgerInv, LedgerOK
<1>3. CASE Contains(id)
  <2> DEFINE idx == order_lookup[id]
  <2>1. idx \in Live /\ orders[idx].order_id = id /\ RemoveOrder(idx)
        /\ ledger' = [ledger EXCEPT ![id] = NoEntry]
    BY <1>1, <1>3 DEF CancelH, CancelOrder, BookInv, StoreInv, PoolPartition
  <2>2. /\ order_lookup'[id] = NullIndex
        /\ \A x \in OrderIds : x # id =>
             /\ order_lookup'[x] = order_lookup[x]
             /\ Contains(x) => EntryOf(order_lookup[x])' = EntryOf(order_lookup[x])
    BY <1>1, <2>1, RemoveEntries
  <2>3. LedgerOK'
    BY <2>1, ClobAssumption DEF LedgerInv, LedgerOK, NoEntry, Sides, Qtys
  <2>4. \A x \in OrderIds : ~InCall(x) /\ ~InCall(x)'
    BY <1>1 DEF InCall
  <2>5. Agrees(id)'
    <3>1. ledger'[id] = NoEntry
      BY <2>1 DEF LedgerInv, LedgerOK
    <3> QED BY <2>2, <2>4, <3>1 DEF Agrees, Contains, NoEntry
  <2>6. \A x \in OrderIds \ {id} : x # id /\ Agrees(x) /\ ledger'[x] = ledger[x]
    BY <1>1, <2>1 DEF AllAgree, LedgerInv, LedgerOK
  <2>7. LedgerAgrees'
    BY <2>2, <2>4, <2>5, <2>6, LedgerFrame
  <2> QED BY <2>3, <2>7
<1> QED BY <1>2, <1>3

\* a fill of the incoming order,
LEMMA FillIncomingLedger ==
  ASSUME LedgerInv, IInv', FillH, FillIncoming
  PROVE  LedgerOK' /\ LedgerAgrees'
<1>0. PICK in, out, q : in = call.order_id /\ out = orders[Maker].order_id /\ q = call.qty
  OBVIOUS
<1>1. /\ in \in OrderIds /\ out \in OrderIds /\ in # out /\ order_lookup[out] = Maker
      /\ ~Contains(in) /\ Contains(out) /\ AllAgree
      /\ ledger[in] = [side |-> call.side, price |-> call.price, left |-> q]
      /\ ledger[out] = [side |-> Opposite(call.side), price |-> lvl, left |-> orders[Maker].qty]
      /\ q \in Nat /\ orders[Maker].qty \in Nat /\ q > 0 /\ q < orders[Maker].qty
  BY <1>0, BothOpen, OneById DEF FillIncoming, AtLevel, LedgerInv, IInv, CallInv
<1>2. ledger' = [ledger EXCEPT ![in] = Filled(@, q), ![out] = Filled(@, q)]
  <2>1. executions'[Len(executions')] = Execution(call.qty)
    BY LastReported DEF FillIncoming, LedgerInv
  <2> QED BY <1>0, <2>1 DEF FillH, Execution
<1>3. ledger'[in] = NoEntry /\ ledger'[out] = [ledger[out] EXCEPT !.left = orders[Maker].qty - q]
  BY <1>1, <1>2 DEF Filled, LedgerInv, LedgerOK
<1>4. /\ call' = [call EXCEPT !.qty = 0] /\ orders' = [orders EXCEPT ![Maker].qty = @ - q]
      /\ order_lookup' = order_lookup /\ pc # "idle" /\ pc' # "idle"
      /\ call \in Call /\ call'.order_id = in /\ call'.qty = 0
  BY <1>0 DEF FillIncoming, AtLevel, LedgerInv, IInv, CallInv, Call
<1>5. /\ Maker \in Idx /\ orders \in [Idx -> Order] /\ orders[Maker].side = Opposite(call.side)
      /\ orders[Maker].price = lvl
      /\ \A x \in OrderIds : Contains(x) => order_lookup[x] \in Idx
      /\ \A x \in OrderIds : Contains(x) /\ x # out => order_lookup[x] # Maker
  <2>1. Maker \in Live /\ Maker \in Idx /\ orders[Maker].side = Opposite(call.side)
        /\ orders[Maker].price = lvl
    BY MakerLive DEF FillIncoming, LedgerInv
  <2>2. PoolPartition /\ orders \in [Idx -> Order]
    BY DEF LedgerInv, IInv, BookInv, StoreInv, SlotsOK
  <2> QED BY <1>0, <2>1, <2>2 DEF PoolPartition, Live
<1>6. Agrees(in)'
  <2>1. ~Contains(in)' /\ ~InCall(in)'
    BY <1>1, <1>4 DEF Contains, InCall
  <2> QED BY <1>3, <2>1 DEF Agrees, NoEntry
<1>7. Agrees(out)'
  <2>1. /\ Contains(out)' /\ ~InCall(out)' /\ order_lookup'[out] = Maker
    BY <1>1, <1>4 DEF Contains, InCall
  <2>2. PICK m : m = Maker
    OBVIOUS
  <2>3. /\ orders'[m].side = orders[m].side /\ orders'[m].price = orders[m].price
        /\ orders'[m].qty = orders[m].qty - q
    BY <1>4, <1>5, <2>2 DEF Order
  <2>4. ledger'[out] = [side |-> orders'[m].side, price |-> orders'[m].price, left |-> orders'[m].qty]
    BY <1>1, <1>3, <1>5, <2>2, <2>3
  <2>5. ledger'[out] # NoEntry
    BY <1>1, <2>2, <2>3, <2>4, Unfilled
  <2> QED BY <2>1, <2>2, <2>4, <2>5 DEF Agrees, EntryOf, NoEntry
<1>8. ASSUME NEW x \in OrderIds \ {in, out}
      PROVE  /\ Agrees(x) /\ ledger'[x] = ledger[x] /\ order_lookup'[x] = order_lookup[x]
             /\ Contains(x) => EntryOf(order_lookup[x])' = EntryOf(order_lookup[x])
             /\ ~InCall(x) /\ ~InCall(x)'
  <2>1. Agrees(x) /\ ledger'[x] = ledger[x] /\ order_lookup'[x] = order_lookup[x]
    BY <1>1, <1>2, <1>4 DEF AllAgree, LedgerInv, LedgerOK
  <2>2. Contains(x) => orders'[order_lookup[x]] = orders[order_lookup[x]]
    BY <1>4, <1>5
  <2>3. ~InCall(x) /\ ~InCall(x)'
    BY <1>0, <1>4 DEF InCall
  <2> QED BY <2>1, <2>2, <2>3 DEF EntryOf
<1>9. LedgerAgrees'
  <2>1. {in, out} \in SUBSET OrderIds /\ \A x \in {in, out} : Agrees(x)'
    BY <1>1, <1>6, <1>7
  <2> QED BY <1>8, <2>1, LedgerFrame
<1>10. LedgerOK'
  <2>1. NoEntry \in [side : Sides, price : Prices \cup {0}, left : Qtys]
    BY ClobAssumption DEF NoEntry, Sides, Qtys
  <2>2. [ledger[out] EXCEPT !.left = orders[Maker].qty - q]
          \in [side : Sides, price : Prices \cup {0}, left : Qtys]
    <3>1. ledger[out] \in [side : Sides, price : Prices \cup {0}, left : Qtys]
      BY <1>1 DEF LedgerInv, LedgerOK
    <3>2. orders[Maker].qty \in Qtys
      BY MakerLive DEF FillIncoming, LedgerInv
    <3>3. orders[Maker].qty - q \in Qtys
      BY <1>1, <3>2, ClobAssumption DEF Qtys
    <3> QED BY <3>1, <3>3
  <2>3. \A x \in OrderIds : x # in /\ x # out => ledger'[x] = ledger[x]
    BY <1>2 DEF LedgerInv, LedgerOK
  <2>4. ledger' = [x \in OrderIds |-> ledger'[x]]
    BY <1>2 DEF LedgerInv, LedgerOK
  <2> QED BY <1>3, <2>1, <2>2, <2>3, <2>4 DEF LedgerInv, LedgerOK
<1> QED BY <1>9, <1>10

\* a fill of a resting order,
LEMMA FillRestingLedger ==
  ASSUME LedgerInv, IInv', FillH, FillResting
  PROVE  LedgerOK' /\ LedgerAgrees'
<1>0. PICK in, out, q : in = call.order_id /\ out = orders[Maker].order_id /\ q = orders[Maker].qty
  OBVIOUS
<1>1. /\ in \in OrderIds /\ out \in OrderIds /\ in # out /\ order_lookup[out] = Maker
      /\ ~Contains(in) /\ Contains(out) /\ AllAgree
      /\ ledger[in] = [side |-> call.side, price |-> call.price, left |-> call.qty]
      /\ ledger[out] = [side |-> Opposite(call.side), price |-> lvl, left |-> q]
      /\ q \in Nat /\ q > 0 /\ call.qty \in Nat /\ call.qty >= q
  BY <1>0, BothOpen, OneById DEF FillResting, AtLevel, LedgerInv, IInv, CallInv
<1>2. ledger' = [ledger EXCEPT ![in] = Filled(@, q), ![out] = Filled(@, q)]
  <2>1. executions'[Len(executions')] = Execution(orders[Maker].qty)
    BY LastReported DEF FillResting, LedgerInv
  <2> QED BY <1>0, <2>1 DEF FillH, Execution
<1>3. /\ ledger'[out] = NoEntry
      /\ ledger'[in] = IF call.qty = q THEN NoEntry ELSE [ledger[in] EXCEPT !.left = call.qty - q]
      /\ \A x \in OrderIds : x # in /\ x # out => ledger'[x] = ledger[x]
      /\ ledger' = [x \in OrderIds |-> ledger'[x]]
  <2>1. /\ ledger' = [x \in OrderIds |-> ledger'[x]]
        /\ \A x \in OrderIds : x # in /\ x # out => ledger'[x] = ledger[x]
        /\ ledger'[out] = Filled(ledger[out], q) /\ ledger'[in] = Filled(ledger[in], q)
    BY <1>1, <1>2 DEF LedgerInv, LedgerOK
  <2>2. Filled(ledger[out], q) = NoEntry
    BY <1>1 DEF Filled
  <2>3. Filled(ledger[in], q)
          = IF call.qty = q THEN NoEntry ELSE [ledger[in] EXCEPT !.left = call.qty - q]
    BY <1>1 DEF Filled
  <2> QED BY <2>1, <2>2, <2>3
<1>4. /\ call' = [call EXCEPT !.qty = @ - q] /\ RemoveOrder(Maker) /\ Maker \in Live
      /\ pc # "idle" /\ pc' = pc /\ call \in Call /\ BookInv
      /\ call'.order_id = in /\ call'.qty = call.qty - q
      /\ call'.side = call.side /\ call'.price = call.price
  BY <1>0, MakerLive DEF FillResting, AtLevel, LedgerInv, IInv, CallInv, Call
<1>5. /\ order_lookup'[out] = NullIndex
      /\ \A x \in OrderIds : x # out =>
           /\ order_lookup'[x] = order_lookup[x]
           /\ Contains(x) => EntryOf(order_lookup[x])' = EntryOf(order_lookup[x])
  BY <1>0, <1>4, RemoveEntries
<1>6. Agrees(out)'
  BY <1>1, <1>3, <1>4, <1>5 DEF Agrees, Contains, InCall, NoEntry
<1>7. Agrees(in)'
  <2>1. ~Contains(in)'
    BY <1>1, <1>5 DEF Contains
  <2>2. CASE call.qty = q
    BY <1>1, <1>3, <1>4, <2>1, <2>2 DEF Agrees, InCall, NoEntry
  <2>3. CASE call.qty # q
    <3>1. InCall(in)'
      BY <1>1, <1>4, <2>3 DEF InCall
    <3>2. ledger'[in] = [side |-> call.side, price |-> call.price, left |-> call.qty - q]
      BY <1>1, <1>3, <2>3
    <3>3. ledger'[in] # NoEntry
      BY <1>1, <2>3, <3>2, Unfilled
    <3> QED BY <1>4, <2>1, <3>1, <3>2, <3>3 DEF Agrees, NoEntry
  <2> QED BY <2>2, <2>3
<1>8. ASSUME NEW x \in OrderIds \ {in, out}
      PROVE  Agrees(x) /\ ~InCall(x) /\ ~InCall(x)'
  BY <1>0, <1>1, <1>4 DEF AllAgree, InCall
<1>9. LedgerAgrees'
  <2>1. {in, out} \in SUBSET OrderIds /\ \A x \in {in, out} : Agrees(x)'
    BY <1>1, <1>6, <1>7
  <2> QED BY <1>3, <1>5, <1>8, <2>1, LedgerFrame
<1>10. LedgerOK'
  <2>1. NoEntry \in [side : Sides, price : Prices \cup {0}, left : Qtys]
    BY ClobAssumption DEF NoEntry, Sides, Qtys
  <2>2. [ledger[in] EXCEPT !.left = call.qty - q] \in [side : Sides, price : Prices \cup {0}, left : Qtys]
    <3>1. ledger[in] \in [side : Sides, price : Prices \cup {0}, left : Qtys]
      BY <1>1 DEF LedgerInv, LedgerOK
    <3>2. call.qty - q \in Qtys
      BY <1>1, <1>4, ClobAssumption DEF Qtys, Call
    <3> QED BY <3>1, <3>2
  <2> QED BY <1>3, <2>1, <2>2 DEF LedgerInv, LedgerOK
<1> QED BY <1>9, <1>10

\* the end of a call,
LEMMA FinishLedger ==
  ASSUME LedgerInv, IInv', FinishH
  PROVE  LedgerOK' /\ LedgerAgrees'
<1>0. PICK in : in = call.order_id
  OBVIOUS
<1>1. /\ in \in OrderIds /\ AllAgree /\ BookInv /\ ~Contains(in) /\ pc # "idle" /\ pc' = "idle"
      /\ call.side \in Sides /\ call.price \in Prices /\ call.qty \in Qtys
  BY <1>0, OneById DEF FinishH, FinishSubmit, LedgerInv, IInv, CallInv, Call
<1>2. \A x \in OrderIds : ~InCall(x)' /\ (InCall(x) => x = in)
  BY <1>0, <1>1 DEF InCall
<1>3. CASE UNCHANGED store
  <2>1. \A x \in OrderIds : /\ order_lookup'[x] = order_lookup[x]
                            /\ EntryOf(order_lookup[x])' = EntryOf(order_lookup[x])
    BY <1>3 DEF store, EntryOf
  <2>2. ledger'[in] = NoEntry /\ \A x \in OrderIds : x # in => ledger'[x] = ledger[x]
    <3>1. CASE ret'
      <4>1. call.qty = 0
        <5> SUFFICES ASSUME call.qty # 0 PROVE FALSE
          OBVIOUS
        <5>1. Place(call.order_id, call.side, call.price, call.qty) /\ free_stack # <<>>
          BY <3>1 DEF FinishH, FinishSubmit, Rest
        <5>2. free_stack' = Allocated
          BY <5>1 DEF Place
        <5> QED BY <1>1, <1>3, <5>1, <5>2, LiveAfterAllocate DEF store, BookInv, StoreInv, Live, FreeSlots
      <4>2. ~InCall(in)
        BY <4>1 DEF InCall
      <4> QED BY <1>1, <3>1, <4>2 DEF FinishH, AllAgree, Agrees
    <3>2. CASE ~ret'
      BY <1>0, <1>1, <3>2 DEF FinishH, LedgerInv, LedgerOK
    <3> QED BY <3>1, <3>2
  <2>3. Agrees(in)'
    BY <1>1, <1>2, <2>1, <2>2 DEF Agrees, Contains, NoEntry
  <2>4. {in} \in SUBSET OrderIds /\ \A x \in OrderIds \ {in} : Agrees(x) /\ x # in
    BY <1>1 DEF AllAgree
  <2>5. LedgerOK'
    <3>1. NoEntry \in [side : Sides, price : Prices \cup {0}, left : Qtys]
      BY ClobAssumption DEF NoEntry, Sides, Qtys
    <3> QED BY <3>1 DEF FinishH, LedgerInv, LedgerOK
  <2> QED BY <1>2, <2>1, <2>2, <2>3, <2>4, <2>5, LedgerFrame
<1>4. CASE ~(UNCHANGED store)
  <2>1. /\ call.qty # 0 /\ ret' = TRUE /\ ledger' = ledger
        /\ Place(in, call.side, call.price, call.qty)
        /\ free_stack # <<>>
    BY <1>0, <1>4 DEF FinishH, FinishSubmit, Rest
  <2>2. CanPlace(in, call.side, call.price, call.qty)
    BY <1>1, <2>1, ClobAssumption DEF CanPlace, Qtys
  <2>3. /\ order_lookup'[in] \in Idx
        /\ orders'[order_lookup'[in]].side = call.side
        /\ orders'[order_lookup'[in]].price = call.price
        /\ orders'[order_lookup'[in]].qty = call.qty
        /\ \A x \in OrderIds : x # in =>
             /\ order_lookup'[x] = order_lookup[x]
             /\ Contains(x) => EntryOf(order_lookup[x])' = EntryOf(order_lookup[x])
    BY <1>1, <2>1, <2>2, PlaceEntries
  <2>4. InCall(in) /\ ledger[in] = [side |-> call.side, price |-> call.price, left |-> call.qty]
        /\ ledger[in] # NoEntry
    BY <1>0, <1>1, <2>1, <2>2 DEF InCall, AllAgree, Agrees, CanPlace
  <2>5. Agrees(in)'
    <3>1. Contains(in)'
      BY <2>3, ClobAssumption DEF Contains
    <3> QED BY <1>1, <1>2, <2>1, <2>3, <2>4, <3>1 DEF Agrees, EntryOf, NoEntry
  <2>6. {in} \in SUBSET OrderIds /\ \A x \in OrderIds \ {in} : Agrees(x) /\ x # in
    BY <1>1 DEF AllAgree
  <2> QED BY <1>2, <2>1, <2>3, <2>5, <2>6, LedgerFrame DEF LedgerInv, LedgerOK
<1> QED BY <1>3, <1>4

\* and the steps the ledger does not see.
LEMMA LevelStepsLedger ==
  ASSUME LedgerInv, IInv', EnterLevel \/ LeaveLevel \/ UNCHANGED vars, UNCHANGED ledger
  PROVE  LedgerOK' /\ LedgerAgrees'
<1>1. AllAgree
  BY OneById DEF LedgerInv, IInv, CallInv
<1>2. /\ order_lookup' = order_lookup /\ orders' = orders /\ call' = call
      /\ pc' # "idle" <=> pc # "idle"
  BY DEF EnterLevel, LeaveLevel, vars
<1>3. {} \in SUBSET OrderIds /\ \A x \in {} : Agrees(x)'
  OBVIOUS
<1>4. \A x \in OrderIds \ {} :
        /\ Agrees(x) /\ ledger'[x] = ledger[x] /\ order_lookup'[x] = order_lookup[x]
        /\ EntryOf(order_lookup[x])' = EntryOf(order_lookup[x])
        /\ InCall(x)' <=> InCall(x)
  BY <1>1, <1>2 DEF AllAgree, InCall, EntryOf
<1>5. LedgerAgrees'
  BY <1>2, <1>3, <1>4, LedgerFrame
<1> QED BY <1>5 DEF LedgerInv, LedgerOK

\* Nothing is open at first.
LEMMA InitLedger == LedgerInit => LedgerInv
<1> SUFFICES ASSUME LedgerInit PROVE LedgerInv
  OBVIOUS
<1>1. IInv
  BY InitInv DEF LedgerInit
<1>2. LedgerOK
  BY ClobAssumption DEF LedgerInit, LedgerOK, NoEntry, Sides, Qtys
<1>3. LedgerAgrees
  BY DEF LedgerInit, LedgerAgrees, Init, Contains, Open
<1> QED BY <1>1, <1>2, <1>3 DEF LedgerInv

\* The ledger's steps are steps of the engine.
LEMMA LedgerSteps == [LedgerNext]_<<vars, ledger>> => [Next]_vars
BY DEF LedgerNext, SubmitH, CancelH, FillH, FinishH, Next, ExchangeNext, Matching, vars

\* Every step keeps the ledger right.
LEMMA NextLedger == LedgerInv /\ [LedgerNext]_<<vars, ledger>> => LedgerInv'
<1> SUFFICES ASSUME LedgerInv, [LedgerNext]_<<vars, ledger>> PROVE LedgerInv'
  OBVIOUS
<1>1. IInv'
  BY LedgerSteps, NextInv DEF LedgerInv
<1>2. ASSUME NEW id \in OrderIds, NEW side \in Sides, NEW price \in InputPrices,
             NEW qty \in InputQtys, SubmitH(id, side, price, qty)
      PROVE  LedgerOK' /\ LedgerAgrees'
  BY <1>1, <1>2, SubmitLedger
<1>3. ASSUME NEW id \in OrderIds, CancelH(id)
      PROVE  LedgerOK' /\ LedgerAgrees'
  BY <1>1, <1>3, CancelLedger
<1>4. ASSUME FillH
      PROVE  LedgerOK' /\ LedgerAgrees'
  BY <1>1, <1>4, FillIncomingLedger, FillRestingLedger DEF FillH
<1>5. ASSUME FinishH
      PROVE  LedgerOK' /\ LedgerAgrees'
  BY <1>1, <1>5, FinishLedger
<1>6. ASSUME (EnterLevel \/ LeaveLevel) /\ UNCHANGED ledger
      PROVE  LedgerOK' /\ LedgerAgrees'
  BY <1>1, <1>6, LevelStepsLedger
<1>7. ASSUME UNCHANGED <<vars, ledger>>
      PROVE  LedgerOK' /\ LedgerAgrees'
  BY <1>1, <1>7, LevelStepsLedger
<1>8. LedgerOK' /\ LedgerAgrees'
  BY <1>2, <1>3, <1>4, <1>5, <1>6, <1>7 DEF LedgerNext
<1> QED BY <1>1, <1>8 DEF LedgerInv

\* Nothing is lost, doubled or traded unreported: for every pool size, price range
\* and set of ids, submit_limit_order and cancel_order leave in the book exactly the
\* orders a caller believes open from the results and executions it was given.
THEOREM LedgerExact == LedgerSpec => []LedgerAgrees
<1>1. LedgerInv => LedgerAgrees
  BY DEF LedgerInv
<1> QED BY <1>1, InitLedger, NextLedger, PTL DEF LedgerSpec

\* Every execution match_at_level reports is between two open orders of opposite
\* sides, for no more than either has left, at the resting order's limit and within
\* the incoming order's.
THEOREM FairTrades == LedgerSpec => TradesWithinLimits
<1>1. ASSUME LedgerInv, [LedgerNext]_<<vars, ledger>>, Len(executions') > Len(executions)
      PROVE  LET x     == executions'[Len(executions')]
                 taker == ledger[x.incoming_order_id]
                 maker == ledger[x.resting_order_id]
             IN  /\ x.qty \in 1..taker.left /\ x.qty <= maker.left
                 /\ maker.side = Opposite(taker.side) /\ x.price = maker.price
                 /\ IF taker.side = "Buy" THEN x.price <= taker.price
                    ELSE x.price >= taker.price
  <2>1. Len(executions) \in Nat /\ executions' # executions /\ executions' # <<>>
    BY <1>1 DEF LedgerInv, IInv, CallInv
  <2>2. FillIncoming \/ FillResting
    BY <1>1, <2>1 DEF LedgerNext, SubmitH, CancelH, FillH, FinishH, SubmitLimitOrder, CancelOrder,
                      EnterLevel, LeaveLevel, FinishSubmit, vars
  <2> DEFINE x == executions'[Len(executions')]
             qty == IF FillIncoming THEN call.qty ELSE orders[Maker].qty
  <2>3. /\ AtLevel /\ executions' = Append(executions, Execution(qty))
        /\ qty \in {call.qty, orders[Maker].qty} /\ qty <= call.qty /\ qty <= orders[Maker].qty
    <3>1. CASE FillIncoming
      BY <1>1, <3>1, BothOpen DEF FillIncoming
    <3>2. CASE ~FillIncoming
      BY <1>1, <2>2, <3>2, BothOpen DEF FillResting
    <3> QED BY <3>1, <3>2
  <2>4. x = Execution(qty)
    BY <1>1, <2>3, LastReported DEF LedgerInv
  <2> HIDE DEF x, qty
  <2>5. /\ ledger[call.order_id] = [side |-> call.side, price |-> call.price, left |-> call.qty]
        /\ ledger[orders[Maker].order_id]
             = [side |-> Opposite(call.side), price |-> lvl, left |-> orders[Maker].qty]
        /\ call.qty \in Nat /\ call.qty > 0 /\ orders[Maker].qty \in Nat /\ orders[Maker].qty > 0
    BY <1>1, <2>3, BothOpen
  <2>6. /\ x.incoming_order_id = call.order_id /\ x.resting_order_id = orders[Maker].order_id
        /\ x.price = orders[Maker].price /\ x.qty = qty
    BY <2>4 DEF Execution
  <2>7. /\ orders[Maker].price = lvl /\ lvl = best[Opposite(call.side)]
        /\ Crosses(call.side, call.price)
    BY <1>1, <2>3, MakerLive DEF LedgerInv, IInv, CallInv, AtLevel
  <2>8. IF call.side = "Buy" THEN lvl <= call.price ELSE lvl >= call.price
    BY <2>7 DEF Crosses
  <2>9. qty \in 1..call.qty
    BY <2>3, <2>5
  <2> QED BY <2>3, <2>5, <2>6, <2>7, <2>8, <2>9 DEF x
<1>2. LedgerInv /\ [LedgerNext]_<<vars, ledger>>
        => [Len(executions') > Len(executions) =>
              LET x     == executions'[Len(executions')]
                  taker == ledger[x.incoming_order_id]
                  maker == ledger[x.resting_order_id]
              IN  /\ x.qty \in 1..taker.left /\ x.qty <= maker.left
                  /\ maker.side = Opposite(taker.side) /\ x.price = maker.price
                  /\ IF taker.side = "Buy" THEN x.price <= taker.price
                     ELSE x.price >= taker.price]_<<vars, ledger>>
  BY <1>1
<1> QED BY <1>2, InitLedger, NextLedger, PTL DEF LedgerSpec, TradesWithinLimits
==============================================================================
