---------------------------- MODULE HelperProofs ----------------------------
(***************************************************************************)
(* Proofs about the self-contained parts of the code.                      *)
(*                                                                         *)
(* LevelScan: for every word size, price range, emptied level and pattern  *)
(* of levels with orders, the loop of refresh_best_after_empty_level()     *)
(* stays in the range and finds the extreme price.  Every level with       *)
(* orders lies ahead of the loop's price.                                  *)
(*                                                                         *)
(* SimdScan: for every vector width, number of blocks and array, the       *)
(* vectorised scan returns what the scalar one returns.  Everything        *)
(* between start and the scan's position is zero.                          *)
(*                                                                         *)
(* LatencyStats: for every sequence of samples and calls, a percentile     *)
(* ranks among all samples as it should.  A copy not marked dirty is the   *)
(* sorted samples; the m-th of them has m - 1 at most below it.            *)
(***************************************************************************)
EXTENDS LevelScan, SimdScan, LatencyStats, NaturalFacts
------------------------------------------------------------------------------
(* LevelScan                                                               *)

RescanTypes ==
  /\ min_price \in Prices /\ max_price \in Prices
  /\ price \in min_price..max_price
  /\ side \in Sides
  /\ pc \in {"entry", "loop", "done"}

RescanInv ==
  /\ RescanTypes
  /\ pc = "entry" => price \notin WithOrders /\ best = Extreme(WithOrders \cup {price})
  /\ pc = "loop" => \A p \in WithOrders : Better(price, p)
  /\ RestoresBest
\* Among prices, the one that is better than all others is the extreme.
LEMMA ExtremeIs ==
  ASSUME NEW S \in SUBSET Prices, NEW p \in S, \A q \in S : p = q \/ Better(p, q)
  PROVE  Extreme(S) = p
<1>1. \A r \in S : (\A q \in S : r = q \/ Better(r, q)) => r = p
  BY RefreshAssumption DEF Better, Prices
<1> QED BY <1>1 DEF Extreme

\* A set of prices that is not empty has an extreme.
LEMMA ExtremeExists ==
  ASSUME NEW S \in SUBSET Prices, S # {}
  PROVE  Extreme(S) \in S /\ \A q \in S : Extreme(S) = q \/ Better(Extreme(S), q)
<1>1. S \in SUBSET Nat /\ PriceMod \in Nat /\ \A q \in S : q <= PriceMod
  BY RefreshAssumption DEF Prices
<1>2. \E p \in S : \A q \in S : p = q \/ Better(p, q)
  <2>1. CASE side = "Buy"
    <3>1. PICK p \in S : \A q \in S : q <= p
      BY <1>1, Greatest
    <3> QED BY <3>1, <2>1, <1>1 DEF Better
  <2>2. CASE side # "Buy"
    <3>1. PICK p \in S : \A q \in S : p <= q
      BY <1>1, LeastNatural
    <3> QED BY <3>1, <2>2, <1>1 DEF Better
  <2> QED BY <2>1, <2>2
<1> QED BY <1>2 DEF Extreme

\* Prices with orders are prices of the range, and the emptied one is another.
LEMMA RangeOfPrices ==
  ASSUME RescanTypes
  PROVE  /\ WithOrders \in SUBSET Prices
         /\ \A p \in WithOrders : p \in min_price..max_price /\ HasOrders(p)
         /\ \A p \in min_price..max_price : HasOrders(p) => p \in WithOrders
         /\ price \in Prices /\ NoPrice \notin Prices
BY RefreshAssumption DEF RescanTypes, WithOrders, Prices

\* Before the loop: the cached best price was the extreme when the level still
\* had orders.
LEMMA RescanStarts == RefreshInit => RescanInv
<1> SUFFICES ASSUME RefreshInit PROVE RescanInv
  OBVIOUS
<1>1. RescanTypes
  BY DEF RefreshInit, RescanTypes, Sides
<1>2. price \notin WithOrders
  BY DEF RefreshInit, WithOrders
<1> QED BY <1>1, <1>2 DEF RefreshInit, RescanInv, RestoresBest

\* Another level is the best one: it still is.
LEMMA ReturnInv ==
  ASSUME RescanInv, Return
  PROVE  RescanInv'
<1>1. /\ RescanTypes /\ price \notin WithOrders /\ best = Extreme(WithOrders \cup {price})
      /\ best # price /\ pc' = "done"
      /\ UNCHANGED <<min_price, max_price, side, filled, price, best>>
  BY DEF RescanInv, Return
<1>2. WithOrders \cup {price} \in SUBSET Prices
  BY <1>1, RangeOfPrices
<1>3. best \in WithOrders /\ \A q \in WithOrders : best = q \/ Better(best, q)
  BY <1>1, <1>2, ExtremeExists
<1>4. best = Extreme(WithOrders)
  BY <1>1, <1>3, ExtremeIs, RangeOfPrices
<1>5. RescanTypes' /\ best' = Extreme(WithOrders)'
  <2>1. RescanTypes'
    BY <1>1 DEF RescanTypes
  <2>2. WithOrders' = WithOrders
    BY <1>1 DEF WithOrders, HasOrders, index, range_size, RangeSize
  <2>3. Extreme(WithOrders)' = Extreme(WithOrders)
    BY <1>1, <2>2 DEF Extreme, Better
  <2> QED BY <1>1, <1>4, <2>1, <2>3
<1> QED BY <1>1, <1>5 DEF RescanInv, RestoresBest

\* The emptied level was the best one: all others are worse.
LEMMA EnterInv ==
  ASSUME RescanInv, Enter
  PROVE  RescanInv'
<1>1. /\ RescanTypes /\ price \notin WithOrders /\ best = Extreme(WithOrders \cup {price})
      /\ best = price /\ pc' = "loop"
      /\ UNCHANGED <<min_price, max_price, side, filled, price, best>>
  BY DEF RescanInv, Enter
<1>2. WithOrders \cup {price} \in SUBSET Prices
  BY <1>1, RangeOfPrices
<1>3. \A p \in WithOrders : Better(price, p)
  BY <1>1, <1>2, ExtremeExists
<1>4. RescanTypes' /\ WithOrders' = WithOrders /\ \A p \in WithOrders : Better(price, p)'
  <2>1. WithOrders' = WithOrders
    BY <1>1 DEF WithOrders, HasOrders, index, range_size, RangeSize
  <2> QED BY <1>1, <1>3, <2>1 DEF RescanTypes, Better
<1> QED BY <1>1, <1>4 DEF RescanInv, RestoresBest, Better

\* One iteration: the next price is in the range, and if it has no orders all
\* levels that have are ahead of it.
LEMMA LookInv ==
  ASSUME RescanInv, Look
  PROVE  RescanInv'
<1>1. /\ RescanTypes /\ \A p \in WithOrders : Better(price, p)
      /\ More /\ price' = Following /\ pc = "loop"
      /\ UNCHANGED <<min_price, max_price, side, filled>>
  BY DEF RescanInv, Look
<1>2. price' \in min_price..max_price /\ price' = IF side = "Buy" THEN price - 1 ELSE price + 1
  BY <1>1, RefreshAssumption DEF More, Following, RescanTypes, Prices
<1>3. \A p \in WithOrders : p = price' \/ Better(price', p)
  BY <1>1, <1>2, RangeOfPrices DEF Better, RescanTypes, Prices
<1>4. /\ WithOrders' = WithOrders /\ Extreme(WithOrders)' = Extreme(WithOrders)
      /\ \A p : Better(price, p)' = Better(price', p)
      /\ RescanTypes /\ pc' \in {"loop", "done"} => RescanTypes'
  <2>1. WithOrders' = WithOrders
    BY <1>1 DEF WithOrders, HasOrders, index, range_size, RangeSize
  <2>2. Extreme(WithOrders)' = Extreme(WithOrders)
    BY <1>1, <2>1 DEF Extreme, Better
  <2> QED BY <1>1, <1>2, <2>1, <2>2 DEF RescanTypes, Better
<1>5. CASE HasOrders(price')
  <2>1. best' = price' /\ pc' = "done"
    BY <1>5 DEF Look
  <2>2. price' \in WithOrders
    BY <1>1, <1>2, <1>5, RangeOfPrices
  <2>3. Extreme(WithOrders) = price'
    BY <1>1, <1>3, <2>2, ExtremeIs, RangeOfPrices
  <2> QED BY <1>1, <1>4, <2>1, <2>3 DEF RescanInv, RestoresBest
<1>6. CASE ~HasOrders(price')
  <2>1. pc' = "loop"
    BY <1>1, <1>6 DEF Look
  <2>2. price' \notin WithOrders
    BY <1>1, <1>6, RangeOfPrices
  <2>3. \A p \in WithOrders : Better(price', p)
    BY <1>3, <2>2
  <2> QED BY <1>1, <1>4, <2>1, <2>3 DEF RescanInv, RestoresBest
<1> QED BY <1>5, <1>6

\* The end of the range: nothing is ahead.
LEMMA ResetInv ==
  ASSUME RescanInv, Reset
  PROVE  RescanInv'
<1>1. /\ RescanTypes /\ \A p \in WithOrders : Better(price, p)
      /\ ~More /\ best' = NoPrice /\ pc' = "done"
      /\ UNCHANGED <<min_price, max_price, side, filled, price>>
  BY DEF RescanInv, Reset
<1>2. WithOrders = {}
  BY <1>1, RangeOfPrices DEF More, Better, RescanTypes, Prices
<1>3. WithOrders' = WithOrders
  BY <1>1 DEF WithOrders, HasOrders, index, range_size, RangeSize
<1>4. RescanTypes' /\ Extreme(WithOrders)' = NoPrice
  BY <1>1, <1>2, <1>3 DEF RescanTypes, Extreme
<1> QED BY <1>1, <1>4 DEF RescanInv, RestoresBest

\* Every step of the scan keeps the invariant.
LEMMA RescanSteps == RescanInv /\ [RefreshNext]_refresh_vars => RescanInv'
<1>1. ASSUME RescanInv, UNCHANGED refresh_vars PROVE RescanInv'
  BY <1>1 DEF refresh_vars, RescanInv, RescanTypes, RestoresBest, WithOrders, HasOrders, index,
     range_size, RangeSize, Extreme, Better
<1> QED BY <1>1, ReturnInv, EnterInv, LookInv, ResetInv DEF RefreshNext

\* The invariant holds in every reachable state.
LEMMA RescanInvariance == RefreshSpec => []RescanInv
BY RescanStarts, RescanSteps, PTL DEF RefreshSpec
------------------------------------------------------------------------------
\* A range that is not all of Price has as many levels as prices; one that is
\* has none.
LEMMA LevelOfPrice ==
  ASSUME RescanTypes
  PROVE  /\ index(price) = price - min_price
         /\ index(price) < range_size <=> ~(min_price = 0 /\ max_price = PriceMod - 1)
<1>1. PriceMod \in Nat \ {0} /\ min_price \in Nat /\ price \in Nat
      /\ min_price <= price /\ price <= max_price /\ max_price <= PriceMod - 1 /\ max_price \in Nat
  BY RefreshAssumption DEF RescanTypes, Prices
<1>2. index(price) = price - min_price
  BY <1>1 DEF index
<1>3. CASE min_price = 0 /\ max_price = PriceMod - 1
  <2>1. range_size = 0
    BY <1>1, <1>3, ModOnce DEF range_size, RangeSize
  <2> QED BY <1>1, <1>2, <1>3, <2>1
<1>4. CASE ~(min_price = 0 /\ max_price = PriceMod - 1)
  <2>1. max_price - min_price + 1 \in 0..(PriceMod - 1)
    BY <1>1, <1>4
  <2>2. range_size = max_price - min_price + 1
    BY <1>1, <2>1 DEF range_size, RangeSize
  <2> QED BY <1>1, <1>2, <1>4, <2>2
<1> QED BY <1>2, <1>3, <1>4

\* The loop never wraps around the word and never looks outside the array,
\* unless the range is the one whose size does not fit a word.
THEOREM LoopStaysInside == RefreshSpec => []StaysInside
<1>1. RescanInv => StaysInside
  BY LevelOfPrice DEF RescanInv, RescanTypes, StaysInside
<1> QED BY <1>1, RescanInvariance, PTL

\* Looking in one direction, from the emptied best level on, is enough: the
\* new best price is the extreme of the levels with orders, or none.
THEOREM BestRestored == RefreshSpec => []RestoresBest
<1>1. RescanInv => RestoresBest
  BY DEF RescanInv
<1> QED BY <1>1, RescanInvariance, PTL
------------------------------------------------------------------------------
(* SimdScan                                                                *)

Inv ==
  /\ ScanTypeOK
  /\ \A j \in start..(n - 1) : j < i => a[j] = 0 \/ loop = "done"
  /\ loop # "done" => result = NoIndex /\ start < n
  /\ FindsFirst
\* When everything in range is zero there is nothing to find.
LEMMA NothingFound ==
  ASSUME \A j \in start..(n - 1) : a[j] = 0
  PROVE  ScalarResult = NoIndex
BY DEF ScalarResult, Nonzero

\* A non-zero element behind nothing but zeros is the one the scalar scan finds.
LEMMA FirstFound ==
  ASSUME NEW j \in start..(n - 1), n \in Nat, start \in Nat, a[j] # 0,
         \A k \in start..(n - 1) : k < j => a[k] = 0
  PROVE  ScalarResult = j
<1>1. j \in Nonzero /\ \A k \in Nonzero : j <= k
  BY DEF Nonzero
<1>2. \A m \in Nonzero : (\A k \in Nonzero : m <= k) => m = j
  BY <1>1 DEF Nonzero
<1> QED BY <1>1, <1>2 DEF ScalarResult

\* countr_one of a mask with a zero bit: the lane of the first non-zero element.
LEMMA FirstLane ==
  ASSUME NEW width \in Nat, ZeroMask(width) # Full(width)
  PROVE  LET k == CountrOne(ZeroMask(width), width)
         IN  k \in Full(width) /\ a[i + k] # 0 /\ \A j \in 0..(k - 1) : a[i + j] = 0
<1> DEFINE S == {k \in Full(width) : k \notin ZeroMask(width)}
<1>1. S \in SUBSET Nat /\ S # {}
  BY DEF Full, ZeroMask
<1>2. PICK m \in S : \A k \in S : m <= k
  BY <1>1, LeastNatural
<1>3. m \in Full(width) /\ m \notin ZeroMask(width) /\ \A j \in 0..(m - 1) : j \in ZeroMask(width)
  BY <1>2 DEF Full
<1>4. LET k == CountrOne(ZeroMask(width), width)
      IN  k \in Full(width) /\ k \notin ZeroMask(width) /\ \A j \in 0..(k - 1) : j \in ZeroMask(width)
  BY <1>3 DEF CountrOne
<1> QED BY <1>4 DEF Full, ZeroMask

\* One iteration, over vectors of any width, preserves the invariant.
LEMMA VectorsInv ==
  ASSUME Inv, NEW width \in Nat \ {0}, loop # "done", Vectors(width)
  PROVE  Inv'
<1>1. /\ n \in Nat /\ start \in Nat /\ i \in Nat /\ start <= i /\ start < n /\ i + width <= n
      /\ a' = a /\ n' = n /\ start' = start
  BY ScanAssumption DEF Inv, ScanTypeOK, Vectors, Fits, args
<1>2. CASE ZeroMask(width) # Full(width)
  <2>1. PICK k \in 0..(width - 1) :
          k = CountrOne(ZeroMask(width), width) /\ a[i + k] # 0 /\ \A j \in 0..(k - 1) : a[i + j] = 0
    BY <1>2, FirstLane DEF Full
  <2>2. result' = i + k /\ loop' = "done" /\ i' = i
    BY <1>2, <2>1 DEF Vectors
  <2>3. i + k \in start..(n - 1)
    BY <1>1, <2>1
  <2>4. ASSUME NEW j \in start..(n - 1), j < i + k PROVE a[j] = 0
    <3>1. CASE j < i
      BY <3>1 DEF Inv
    <3>2. CASE ~(j < i)
      <4>1. j - i \in 0..(k - 1) /\ i + (j - i) = j
        BY <3>2, <2>4, <1>1, <2>1
      <4> QED BY <4>1, <2>1
    <3> QED BY <3>1, <3>2
  <2>5. ScalarResult = i + k
    BY <1>1, <2>1, <2>3, <2>4, FirstFound
  <2>6. ScalarResult' = ScalarResult
    BY <1>1 DEF ScalarResult, Nonzero
  <2>7. ScanTypeOK'
    BY <1>1, <2>2, <2>3 DEF Inv, ScanTypeOK
  <2> QED BY <2>2, <2>5, <2>6, <2>7 DEF Inv, FindsFirst
<1>3. CASE ZeroMask(width) = Full(width)
  <2>1. i' = i + width /\ loop' = loop /\ result' = result
    BY <1>3 DEF Vectors, Advanced
  <2>2. ASSUME NEW j \in start..(n - 1), j < i + width PROVE a[j] = 0
    <3>1. CASE j < i
      BY <3>1 DEF Inv
    <3>2. CASE ~(j < i)
      <4>1. j - i \in Full(width) /\ i + (j - i) = j
        BY <3>2, <2>2, <1>1 DEF Full
      <4>2. j - i \in ZeroMask(width)
        BY <4>1, <1>3
      <4> QED BY <4>1, <4>2 DEF ZeroMask
    <3> QED BY <3>1, <3>2
  <2>3. ScanTypeOK'
    BY <1>1, <2>1 DEF Inv, ScanTypeOK
  <2> QED BY <1>1, <2>1, <2>2, <2>3 DEF Inv, FindsFirst
<1> QED BY <1>2, <1>3

\* A call starts with nothing scanned, or returns at once.
LEMMA InitInv == Init => Inv
<1> SUFFICES ASSUME Init PROVE Inv
  OBVIOUS
<1>1. n \in Nat /\ start \in Nat
  BY ScanAssumption DEF Init
<1>2. loop = "done" => start..(n - 1) = {}
  BY <1>1 DEF Init
<1>3. loop = "done" => ScalarResult = NoIndex
  BY <1>2, NothingFound
<1>4. ScanTypeOK
  BY <1>1 DEF Init, ScanTypeOK
<1> QED BY <1>1, <1>3, <1>4 DEF Init, Inv, FindsFirst

\* Every step preserves the invariant; the last loop ends at the end of the array.
LEMMA NextInv == Inv /\ [Next]_vars => Inv'
<1> SUFFICES ASSUME Inv, [Next]_vars PROVE Inv'
  OBVIOUS
<1>1. step \in Nat \ {0} /\ Lanes \in Nat \ {0} /\ 1 \in Nat \ {0}
  BY ScanAssumption DEF step
<1>2. CASE ScanBlock \/ ScanVector \/ ScanScalar
  BY <1>1, <1>2, VectorsInv DEF ScanBlock, ScanVector, ScanScalar
<1>3. CASE EndOfBlocks \/ EndOfVectors
  BY <1>3 DEF EndOfBlocks, EndOfVectors, Inv, ScanTypeOK, FindsFirst, args
<1>4. CASE EndOfScan
  <2>1. /\ n \in Nat /\ i \in Nat /\ n <= i
        /\ UNCHANGED <<a, n, start, i, result>> /\ loop # "done" /\ loop' = "done"
    BY <1>4, ScanAssumption DEF EndOfScan, Fits, Inv, ScanTypeOK, args
  <2>2. \A j \in start..(n - 1) : a[j] = 0
    BY <2>1, ScanAssumption DEF Inv, ScanTypeOK
  <2>3. ScalarResult = NoIndex /\ ScalarResult' = ScalarResult
    BY <2>1, <2>2, NothingFound DEF ScalarResult, Nonzero
  <2>4. ScanTypeOK'
    BY <2>1 DEF Inv, ScanTypeOK
  <2> QED BY <2>1, <2>3, <2>4 DEF Inv, FindsFirst
<1>5. CASE UNCHANGED vars
  BY <1>5 DEF vars, args, Inv, ScanTypeOK, FindsFirst, ScalarResult, Nonzero
<1> QED BY <1>2, <1>3, <1>4, <1>5 DEF Next

\* The scan stays inside the array and returns an index of it, or none.
THEOREM TypeCorrect == Spec => []ScanTypeOK
<1>1. Inv => ScanTypeOK
  BY DEF Inv
<1> QED BY <1>1, InitInv, NextInv, PTL DEF Spec

\* avx2_find_next_nonzero returns what scalar_find_next_nonzero returns, for
\* every vector width, block count, array and start.
THEOREM SameAsScalar == Spec => []FindsFirst
<1>1. Inv => FindsFirst
  BY DEF Inv
<1> QED BY <1>1, InitInv, NextInv, PTL DEF Spec
------------------------------------------------------------------------------
(* LatencyStats                                                            *)

\* The numbers from 1 to len are len.
LEMMA CountTo == \A len \in Nat : IsFiniteSet(1..len) /\ Cardinality(1..len) = len
<1> TAKE len \in Nat
<1>1. IsFiniteSet(1..len) /\ Cardinality(1..len) = IF 1 > len THEN 0 ELSE len - 1 + 1
  BY FS_Interval
<1> QED BY <1>1

\* A finite sequence of numbers can be put in ascending order: count, for each
\* element, those that are smaller or equal and no later.
LEMMA Sortable ==
  ASSUME NEW s \in Seq(Nat)
  PROVE  \E p \in Bijection(DOMAIN s, DOMAIN s) :
            \A j, k \in DOMAIN s : j < k => s[p[j]] <= s[p[k]]
<1> DEFINE D == DOMAIN s
           Earlier(k, j) == s[k] < s[j] \/ (s[k] = s[j] /\ k <= j)
           UpTo(j) == {k \in D : Earlier(k, j)}
           place == [j \in D |-> Cardinality(UpTo(j))]
           p == [m \in D |-> CHOOSE j \in D : place[j] = m]
<1>1. /\ Len(s) \in Nat /\ D = 1..Len(s) /\ \A j \in D : s[j] \in Nat /\ j \in Nat
      /\ IsFiniteSet(D) /\ Cardinality(D) = Len(s)
  <2>1. Len(s) \in Nat /\ D = 1..Len(s) /\ \A j \in D : s[j] \in Nat /\ j \in Nat
    OBVIOUS
  <2>2. IsFiniteSet(1..Len(s)) /\ Cardinality(1..Len(s)) = Len(s)
    BY <2>1, CountTo
  <2> HIDE DEF D
  <2> QED BY <2>1, <2>2
<1> HIDE DEF D
<1>2. \A j \in D : /\ IsFiniteSet(UpTo(j)) /\ j \in UpTo(j)
                   /\ Cardinality(UpTo(j)) \in Nat /\ Cardinality(UpTo(j)) <= Len(s)
  <2> SUFFICES ASSUME NEW j \in D
               PROVE  /\ IsFiniteSet(UpTo(j)) /\ j \in UpTo(j)
                      /\ Cardinality(UpTo(j)) \in Nat /\ Cardinality(UpTo(j)) <= Len(s)
    OBVIOUS
  <2>1. UpTo(j) \in SUBSET D /\ j \in UpTo(j)
    BY <1>1
  <2> HIDE DEF UpTo
  <2> QED BY <1>1, <2>1, FS_Subset, FS_CardinalityType
<1>3. ASSUME NEW j \in D, NEW k \in D, j # k, Earlier(j, k)
      PROVE  Cardinality(UpTo(j)) < Cardinality(UpTo(k))
  <2>1. UpTo(j) \in SUBSET UpTo(k) /\ k \notin UpTo(j) /\ k \in UpTo(k)
    BY <1>1, <1>3
  <2> HIDE DEF UpTo
  <2>2. /\ Cardinality(UpTo(j)) <= Cardinality(UpTo(k))
        /\ Cardinality(UpTo(j)) # Cardinality(UpTo(k))
    BY <1>2, <2>1, FS_Subset
  <2> QED BY <1>2, <2>2
<1>4. \A j, k \in D : j # k => Earlier(j, k) \/ Earlier(k, j)
  BY <1>1
<1> HIDE DEF UpTo, Earlier
<1>5. place \in Injection(D, D)
  <2>1. ASSUME NEW j \in D PROVE Cardinality(UpTo(j)) \in D
    <3>1. Cardinality(UpTo(j)) # 0
      BY <1>2, FS_EmptySet
    <3> QED BY <1>1, <1>2, <3>1
  <2>2. ASSUME NEW j \in D, NEW k \in D, j # k PROVE Cardinality(UpTo(j)) # Cardinality(UpTo(k))
    BY <1>2, <1>3, <1>4, <2>2
  <2> QED BY <2>1, <2>2 DEF Injection, IsInjective
<1>6. place \in Surjection(D, D)
  BY <1>1, <1>5, FS_Injection
<1>7. \A j \in D : place[j] = Cardinality(UpTo(j))
  OBVIOUS
<1> HIDE DEF place
<1>8. \A m \in D : p[m] \in D /\ place[p[m]] = m
  <2> SUFFICES ASSUME NEW m \in D PROVE p[m] \in D /\ place[p[m]] = m
    OBVIOUS
  <2>1. \E j \in D : place[j] = m
    BY <1>6 DEF Surjection
  <2>2. p[m] = CHOOSE j \in D : place[j] = m
    OBVIOUS
  <2> HIDE DEF p
  <2> QED BY <2>1, <2>2
<1>9. p \in Bijection(D, D)
  <2>1. \A j \in D : place[j] \in D /\ \A k \in D : place[j] = place[k] => j = k
    BY <1>5 DEF Injection, IsInjective
  <2>2. \A j \in D : p[place[j]] = j
    BY <1>8, <2>1
  <2>3. p \in [D -> D]
    BY <1>8
  <2> HIDE DEF p
  <2> QED BY <1>8, <2>1, <2>2, <2>3 DEF Bijection, Injection, Surjection, IsInjective
<1> HIDE DEF p
<1>10. ASSUME NEW j \in D, NEW k \in D, j < k PROVE s[p[j]] <= s[p[k]]
  <2>1. p[j] \in D /\ p[k] \in D /\ place[p[j]] < place[p[k]]
    BY <1>8, <1>10
  <2>2. ~Earlier(p[k], p[j]) \/ p[k] = p[j]
    BY <1>2, <1>3, <1>7, <2>1
  <2>3. s[p[j]] \in Nat /\ s[p[k]] \in Nat
    BY <1>1, <2>1
  <2> QED BY <2>2, <2>3 DEF Earlier
<1> QED BY <1>9, <1>10 DEF D

\* Ascending(s) is s in an ascending order.
LEMMA SortedCopy ==
  ASSUME NEW s \in Seq(Nat)
  PROVE  /\ Len(Ascending(s)) = Len(s)
         /\ \A j, k \in DOMAIN s : j < k => Ascending(s)[j] <= Ascending(s)[k]
         /\ \E p \in Bijection(DOMAIN s, DOMAIN s) : Ascending(s) = [k \in DOMAIN s |-> s[p[k]]]
<1> DEFINE Orders == {[k \in DOMAIN s |-> s[p[k]]] : p \in Bijection(DOMAIN s, DOMAIN s)}
           Sorted(t) == \A j, k \in DOMAIN s : j < k => t[j] <= t[k]
<1>1. \E t \in Orders : Sorted(t)
  <2>1. PICK p \in Bijection(DOMAIN s, DOMAIN s) :
             \A j, k \in DOMAIN s : j < k => s[p[j]] <= s[p[k]]
    BY Sortable
  <2>2. WITNESS [k \in DOMAIN s |-> s[p[k]]] \in Orders
  <2> QED BY <2>1
<1>2. Ascending(s) = CHOOSE t \in Orders : Sorted(t)
  BY DEF Ascending
<1> HIDE DEF Sorted
<1>3. Ascending(s) \in Orders /\ Sorted(Ascending(s))
  <2> HIDE DEF Orders
  <2> QED BY <1>1, <1>2
<1>4. PICK p \in Bijection(DOMAIN s, DOMAIN s) : Ascending(s) = [k \in DOMAIN s |-> s[p[k]]]
  BY <1>3
<1>5. Len([k \in 1..Len(s) |-> s[p[k]]]) = Len(s)
  OBVIOUS
<1> QED BY <1>3, <1>4, <1>5 DEF Sorted

\* The m-th element of the sorted copy has at most m - 1 elements below it, and
\* at least m at or below it.
LEMMA RankOfSorted ==
  ASSUME NEW s \in Seq(Nat), NEW m \in DOMAIN s
  PROVE  LET x == Ascending(s)[m]
             B == {k \in DOMAIN s : s[k] < x}
             U == {k \in DOMAIN s : s[k] <= x}
         IN  /\ Cardinality(B) \in Nat /\ Cardinality(B) <= m - 1
             /\ Cardinality(U) \in Nat /\ m <= Cardinality(U)
<1> DEFINE D == DOMAIN s
<1>1. PICK t : t = Ascending(s)
  OBVIOUS
<1>2. PICK p \in Bijection(D, D) : t = [k \in D |-> s[p[k]]]
  BY <1>1, SortedCopy
<1> DEFINE x == t[m]
           B == {k \in D : s[k] < x}
           U == {k \in D : s[k] <= x}
           Back == {j \in D : t[j] < x}
<1>3. PICK len \in Nat : /\ D = 1..len /\ m \in 1..len /\ IsFiniteSet(D)
                         /\ \A j \in D : s[j] \in Nat
  <2>1. Len(s) \in Nat /\ D = 1..Len(s) /\ m \in 1..Len(s) /\ \A j \in D : s[j] \in Nat
    OBVIOUS
  <2> QED BY <2>1, CountTo
<1>4. \A j, k \in D : j < k => t[j] <= t[k]
  BY <1>1, SortedCopy
<1> HIDE DEF D
<1>5. /\ p \in [D -> D] /\ \A k \in D : \E j \in D : p[j] = k
      /\ \A j, k \in D : p[j] = p[k] => j = k
      /\ \A j \in D : t[j] = s[p[j]] /\ t[j] \in Nat
  BY <1>2, <1>3 DEF Bijection, Injection, Surjection, IsInjective
<1>6. m \in D /\ m - 1 \in Nat /\ t[m] \in Nat
  <2>1. m \in D /\ m - 1 \in Nat
    BY <1>3
  <2> QED BY <1>5, <2>1
<1>7. IsFiniteSet(B) /\ IsFiniteSet(U) /\ Cardinality(B) \in Nat /\ Cardinality(U) \in Nat
  BY <1>3, FS_Subset, FS_CardinalityType
<1>8. Cardinality(B) <= m - 1
  <2>1. Back \in SUBSET (1..(m - 1))
    <3>1. ASSUME NEW j \in Back PROVE j \in Nat /\ j # 0 /\ j < m
      <4>1. j \in D /\ t[j] < t[m]
        OBVIOUS
      <4>2. j \in Nat /\ j # 0
        BY <1>3, <4>1
      <4> HIDE DEF Back
      <4>3. t[j] \in Nat
        BY <1>5, <4>1
      <4>4. ~(t[m] <= t[j]) /\ j # m
        BY <1>6, <4>1, <4>3
      <4> QED BY <1>3, <1>4, <1>6, <4>1, <4>2, <4>4
    <3> QED BY <1>6, <3>1
  <2>2. IsFiniteSet(1..(m - 1)) /\ Cardinality(1..(m - 1)) = m - 1
    BY <1>6, CountTo
  <2> DEFINE f == [j \in Back |-> p[j]]
  <2>3. f \in Surjection(Back, B)
    BY <1>5 DEF Surjection
  <2> HIDE DEF f, Back, B
  <2>4. IsFiniteSet(Back) /\ Cardinality(Back) <= m - 1 /\ Cardinality(Back) \in Nat
    BY <2>1, <2>2, FS_Subset, FS_CardinalityType
  <2>5. Cardinality(B) <= Cardinality(Back)
    BY <2>3, <2>4, FS_Surjection
  <2> QED BY <1>6, <1>7, <2>4, <2>5
<1>9. m <= Cardinality(U)
  <2> DEFINE f == [j \in 1..m |-> p[j]]
  <2>1. ASSUME NEW j \in 1..m PROVE j \in D /\ t[j] <= x
    <3>1. j \in D /\ (j < m \/ j = m)
      BY <1>3
    <3> QED BY <1>4, <1>6, <3>1
  <2>2. f \in Injection(1..m, U)
    BY <1>5, <2>1 DEF Injection, IsInjective
  <2>3. IsFiniteSet(1..m) /\ Cardinality(1..m) = m
    BY <1>3, CountTo
  <2> HIDE DEF f, U
  <2>4. Cardinality(1..m) <= Cardinality(U)
    BY <1>7, <2>2, FS_Injection
  <2> QED BY <2>3, <2>4
<1> QED BY <1>1, <1>7, <1>8, <1>9 DEF D

\* The place that percentile_sorted() looks at, as a share of the others.
LEMMA PlaceOfPercent ==
  ASSUME NEW len \in Nat \ {0}, NEW x \in 0..(1000 * (len - 1)), NEW m, m = (x \div 1000) + 1
  PROVE  m \in 1..len /\ 1000 * (m - 1) <= x /\ x < 1000 * m
<1>1. PICK q : q = x \div 1000
  OBVIOUS
<1>2. q \in Nat /\ 1000 * q <= x /\ x < 1000 * (q + 1)
  BY <1>1, SMT
<1> QED BY <1>1, <1>2

StatsInv == /\ samples \in Seq(Nat)
            /\ sorted_dirty \in BOOLEAN
            /\ ~sorted_dirty => sorted_samples = Ascending(samples)

LEMMA StatsInitInv == StatsInit => StatsInv
BY DEF StatsInit, StatsInv

LEMMA StatsNextInv == StatsInv /\ [StatsNext]_stats_vars => StatsInv'
<1> SUFFICES ASSUME StatsInv, [StatsNext]_stats_vars PROVE StatsInv'
  OBVIOUS
<1>1. ASSUME NEW ns \in Samples, Add(ns) PROVE StatsInv'
  BY <1>1, StatsAssumption DEF Add, StatsInv
<1>2. ASSUME NEW p \in PerMilles, Percentile(p) PROVE StatsInv'
  BY <1>2 DEF Percentile, EnsureSorted, StatsInv
<1>3. CASE Report
  BY <1>3 DEF Report, EnsureSorted, StatsInv
<1>4. CASE UNCHANGED stats_vars
  BY <1>4 DEF stats_vars, StatsInv
<1> QED BY <1>1, <1>2, <1>3, <1>4 DEF StatsNext

\* An answer about some samples is about the whole sequence as it is now.
LEMMA AnswerExact ==
  ASSUME StatsInv, NEW p \in PerMilles, Percentile(p), samples # <<>>
  PROVE  /\ 1000 * Cardinality({k \in DOMAIN samples : samples[k] < ret'})
              <= p * (Len(samples) - 1)
         /\ 1000 * Cardinality({k \in DOMAIN samples : samples[k] <= ret'})
              > p * (Len(samples) - 1)
<1>1. samples \in Seq(Nat) /\ Len(samples) \in Nat \ {0} /\ DOMAIN samples = 1..Len(samples)
  BY DEF StatsInv
<1>2. sorted_samples' = Ascending(samples) /\ ret' = PercentileSorted(sorted_samples', p)
  BY DEF Percentile, EnsureSorted, UpToDate, StatsInv
<1>3. PICK len, x, m : /\ len = Len(samples) /\ x = p * (len - 1)
                        /\ m = (x \div 1000) + 1
  OBVIOUS
<1>4. m \in 1..len /\ x \in Nat /\ 1000 * (m - 1) <= x /\ x < 1000 * m
  <2>1. p \in 0..1000 /\ len \in Nat \ {0}
    BY <1>1, <1>3, StatsAssumption
  <2>2. x \in 0..(1000 * (len - 1))
    BY <1>3, <2>1, SMT
  <2>3. m = (x \div 1000) + 1
    BY <1>3
  <2> QED BY <2>1, <2>2, <2>3, PlaceOfPercent
<1>5. m \in DOMAIN samples
  BY <1>1, <1>3, <1>4
<1>6. ret' = Ascending(samples)[m]
  BY <1>1, <1>2, <1>3, SortedCopy DEF PercentileSorted
<1>7. PICK b, u : /\ b = Cardinality({k \in DOMAIN samples : samples[k] < ret'})
                  /\ u = Cardinality({k \in DOMAIN samples : samples[k] <= ret'})
  OBVIOUS
<1>8. b \in Nat /\ b <= m - 1 /\ u \in Nat /\ m <= u
  BY <1>1, <1>5, <1>6, <1>7, RankOfSorted
<1>9. 1000 * b <= x /\ 1000 * u > x
  BY <1>3, <1>4, <1>8
<1> QED BY <1>3, <1>7, <1>9

\* A percentile is about every sample added so far, in whatever order they came
\* and however often percentiles or reports were asked for in between: the copy
\* is sorted again whenever it is out of date, for all sequences of samples and
\* calls.
THEOREM PercentilesExact == StatsSpec => []PercentileExact
<1>1. StatsInit => PercentileExact
  BY DEF StatsInit, PercentileExact
<1>2. StatsInv /\ PercentileExact /\ [StatsNext]_stats_vars => PercentileExact'
  <2> SUFFICES ASSUME StatsInv, PercentileExact, [StatsNext]_stats_vars
               PROVE  PercentileExact'
    OBVIOUS
  <2>1. ASSUME NEW ns \in Samples, Add(ns) PROVE PercentileExact'
    BY <2>1 DEF Add, PercentileExact
  <2>2. ASSUME NEW p \in PerMilles, Percentile(p) PROVE PercentileExact'
    <3>1. samples' = samples /\ asked' = <<p>> /\ asked'[1] = p
      BY <2>2 DEF Percentile
    <3>2. CASE samples = <<>>
      BY <2>2, <3>1, <3>2 DEF Percentile, PercentileExact
    <3>3. CASE samples # <<>>
      <4>1. /\ 1000 * Cardinality({k \in DOMAIN samples : samples[k] < ret'})
                 <= p * (Len(samples) - 1)
            /\ 1000 * Cardinality({k \in DOMAIN samples : samples[k] <= ret'})
                 > p * (Len(samples) - 1)
        BY <2>2, <3>3, AnswerExact
      <4>2. PICK b, u : /\ b = Cardinality({k \in DOMAIN samples : samples[k] < ret'})
                        /\ u = Cardinality({k \in DOMAIN samples : samples[k] <= ret'})
        OBVIOUS
      <4>3. 1000 * b <= p * (Len(samples) - 1) /\ 1000 * u > p * (Len(samples) - 1)
        BY <4>1, <4>2
      <4> QED BY <3>1, <3>3, <4>2, <4>3 DEF PercentileExact
    <3> QED BY <3>2, <3>3
  <2>3. CASE Report \/ UNCHANGED stats_vars
    <3>1. UNCHANGED <<samples, asked, ret>>
      BY <2>3 DEF Report, stats_vars
    <3> QED BY <3>1 DEF PercentileExact
  <2> QED BY <2>1, <2>2, <2>3 DEF StatsNext
<1> QED BY <1>1, <1>2, StatsInitInv, StatsNextInv, PTL DEF StatsSpec
==============================================================================
