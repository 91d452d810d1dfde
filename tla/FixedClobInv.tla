---------------------------- MODULE FixedClobInv ----------------------------
(***************************************************************************)
(* The inductive invariant of FixedClob.  TLC checks it in MCFixedClob,    *)
(* FixedClobProofs proves it.  It says of the links what LevelChains says  *)
(* by walking them, in a form that needs no recursion: the live orders can *)
(* be given distinct ranks (their order of arrival is one such ranking)    *)
(* such that, within each level, next_idx is the live order with the next  *)
(* higher rank, prev_idx the one with the next lower rank, and head_idx    *)
(* and tail_idx are the extremes.                                          *)
(***************************************************************************)
EXTENDS FixedClob

\* The types of the variables that make up the book.
SlotsOK ==
  /\ orders \in [Idx -> Order]
  /\ free_stack \in Seq(Idx)
  /\ levels \in [Sides -> [Prices -> Level]]
  /\ order_lookup \in [OrderIds -> Slot]
  /\ best \in [Sides -> Prices \cup {NoPrice}]

\* Within the set A of slots, k comes right after i; NullIndex if i is the last.
Follows(rank, A, i, k) ==
  \/ k = NullIndex /\ \A j \in A : rank[j] <= rank[i]
  \/ k \in A /\ rank[i] < rank[k] /\ \A j \in A : rank[j] <= rank[i] \/ rank[k] <= rank[j]

\* Within A, k comes right before i; NullIndex if i is the first.
Precedes(rank, A, i, k) ==
  \/ k = NullIndex /\ \A j \in A : rank[i] <= rank[j]
  \/ k \in A /\ rank[k] < rank[i] /\ \A j \in A : rank[i] <= rank[j] \/ rank[j] <= rank[k]

\* Level l starts and ends with the extremes of A.
Ends(rank, A, l) ==
  IF A = {} THEN l.head_idx = NullIndex /\ l.tail_idx = NullIndex
  ELSE /\ l.head_idx \in A /\ \A j \in A : rank[l.head_idx] <= rank[j]
       /\ l.tail_idx \in A /\ \A j \in A : rank[j] <= rank[l.tail_idx]

Ordered(rank, A, l) ==
  /\ Ends(rank, A, l)
  /\ \A i \in A : Follows(rank, A, i, orders[i].next_idx) /\ Precedes(rank, A, i, orders[i].prev_idx)

\* The live slots have distinct ranks.  As there are no more live slots than slots,
\* slot numbers are enough for ranks.
Ranked(rank) == \A i, j \in Live : rank[i] = rank[j] => i = j

LevelsOrderedBy(rank) ==
  /\ Ranked(rank)
  /\ \A s \in Sides, p \in Prices : Ordered(rank, LiveAt(s, p), levels[s][p])
LevelsOrdered == \E rank \in [Idx -> Idx] : LevelsOrderedBy(rank)

LevelCounts ==
  \A s \in Sides, p \in Prices : levels[s][p].order_count = Cardinality(LiveAt(s, p))

LiveOrders == \A i \in Live : orders[i].qty > 0 /\ orders[i].price \in Prices

StoreInv == SlotsOK /\ PoolPartition /\ LiveOrders /\ LevelCounts /\ LevelsOrdered
BookInv  == StoreInv /\ BestIsExtreme

\* The call in progress: its id is not in the book, once it has traded there is a
\* slot for what is left of it, and as long as the level it works on has orders
\* that is the best one of the other side and within its limit.
CallInv ==
  /\ pc \in {"idle", "match_order", "match_at_level"}
  /\ call \in Call
  /\ lvl \in Prices \cup {NoPrice}
  /\ executions \in Seq(Execs)
  /\ ret \in BOOLEAN
  /\ pc = "idle" => call = NoCall /\ executions = <<>>
  /\ pc # "idle" =>
       /\ call.order_id \in OrderIds /\ ~Contains(call.order_id) /\ call.price \in Prices
       /\ call.submitted > 0
       /\ call.qty = 0 \/ free_stack # <<>> \/ (call.qty = call.submitted /\ executions = <<>>)
  /\ pc = "match_at_level" =>
       /\ lvl \in Prices
       /\ WorkLevel.order_count > 0 =>
            lvl = best[Opposite(call.side)] /\ Crosses(call.side, call.price)

IInv == BookInv /\ CallInv
==============================================================================
