--------------------------- MODULE SpscRingCached ---------------------------
(***************************************************************************)
(* src/spsc_ring_cached.hpp: the ring of SpscRing in which each thread     *)
(* keeps a private snapshot of the other one's counter, and loads the      *)
(* counter again only when the snapshot leaves it nothing to do.  Slot     *)
(* accesses and release stores are those of SpscRing.                      *)
(***************************************************************************)
EXTENDS SpscRing

VARIABLES
  cached_tail,   \* producer_.cached_tail
  cached_head    \* consumer_.cached_head

snapshots == <<cached_tail, cached_head>>
cached_vars == <<vars, snapshots>>
------------------------------------------------------------------------------
CachedInit == Init /\ cached_tail = 0 /\ cached_head = 0

\* The snapshot shows a full ring, or an empty one.
ShowsFull  == Used(HeadNow, cached_tail) >= Capacity
ShowsEmpty == cached_head = TailNow

\* The values the call goes on with if it loads the k-th readable counter.
UnsavedTail(k) == cached_tail            \* mutant: the loaded value is not kept
TailSeen(k) == IF ShowsFull THEN tails[k].word ELSE cached_tail
HeadSeen(k) == IF ShowsEmpty THEN heads[k].word ELSE cached_head

\* push_many() and pop_many() with the snapshot they ended up with.
OverfullBatch(used, n) == IF used >= Capacity THEN 0 ELSE n   \* mutant: no minimum
RoomForBatch(used, n) == IF used >= Capacity THEN 0 ELSE Lesser(Capacity - used, n)

BeginCachedPush(in, k, count) ==
  /\ batch = <<>>
  /\ IF ShowsFull THEN tails' = Loaded(tails, k) ELSE k = 1 /\ UNCHANGED tails
  /\ cached_tail' = TailSeen(k)
  /\ batch' = SubSeq(in, 1, count)
  /\ UNCHANGED <<data, heads, filled, wrote, consumer, cached_head>>

CachedPush(x, k) ==
  BeginCachedPush(<<x>>, k, RoomForOne(Used(HeadNow, TailSeen(k))))
CachedPushMany(in, k) ==
  BeginCachedPush(in, k, RoomForBatch(Used(HeadNow, TailSeen(k)), Len(in)))

BeginCachedPop(k, count) ==
  /\ want = 0
  /\ IF ShowsEmpty THEN heads' = Loaded(heads, k) ELSE k = 1 /\ UNCHANGED heads
  /\ cached_head' = HeadSeen(k)
  /\ want' = count
  /\ UNCHANGED <<data, tails, producer, out, read, got, cached_tail>>

CachedPop(k)        == BeginCachedPop(k, StockForOne(Used(HeadSeen(k), TailNow)))
CachedPopMany(n, k) == BeginCachedPop(k, StockForMany(Used(HeadSeen(k), TailNow), n))

CachedWrite   == Write /\ UNCHANGED snapshots
CachedPublish == Publish /\ UNCHANGED snapshots
CachedRead    == Read /\ UNCHANGED snapshots
CachedRelease == Release /\ UNCHANGED snapshots

CachedNext ==
  \/ \E k \in DOMAIN tails :
       \/ \E x \in Items : CachedPush(x, k)
       \/ \E in \in Batches : CachedPushMany(in, k)
  \/ \E k \in DOMAIN heads :
       \/ CachedPop(k)
       \/ \E n \in 0..MaxBatch : CachedPopMany(n, k)
  \/ CachedWrite \/ CachedPublish \/ CachedRead \/ CachedRelease

CachedSpec == CachedInit /\ [][CachedNext]_cached_vars

\* Both threads keep calling (the callers wait by trying again), and a store
\* becomes visible to the other thread after finitely many loads.
PollFullRing  == \E x \in Items : CachedPush(x, IF ShowsFull THEN Len(tails) ELSE 1)
PollEmptyRing == CachedPop(IF ShowsEmpty THEN Len(heads) ELSE 1)
Polling ==
  /\ WF_cached_vars(PollFullRing) /\ WF_cached_vars(CachedWrite \/ CachedPublish)
  /\ WF_cached_vars(PollEmptyRing) /\ WF_cached_vars(CachedRead \/ CachedRelease)
FairCachedSpec == CachedSpec /\ Polling
------------------------------------------------------------------------------
(* Properties                                                              *)

\* A snapshot is never ahead of its counter and never more than one lap
\* behind: what it leaves out is only room, or stock, that came since.
SnapshotsLag ==
  /\ cached_tail \in Words /\ cached_head \in Words
  /\ Used(HeadNow, cached_tail) = Used(HeadNow, TailNow) + Used(TailNow, cached_tail)
  /\ Used(HeadNow, cached_tail) + Len(batch) <= Capacity
  /\ Used(HeadNow, TailNow) = Used(HeadNow, cached_head) + Used(cached_head, TailNow)
  /\ want <= Used(cached_head, TailNow)

\* Working from a snapshot is one of the behaviours of the plain ring: the one
\* in which loads return old values.  Its guarantees carry over.
ImplementsSpscRing == Spec

\* A stale snapshot never blocks its thread for good: items keep going in and
\* keep coming out.
NeverStuck == []<><<CachedPublish>>_cached_vars /\ []<><<CachedRelease>>_cached_vars
==============================================================================
