------------------------------ MODULE SpscRing ------------------------------
(***************************************************************************)
(* src/spsc_ring.hpp: a ring buffer between one producer thread and one    *)
(* consumer thread.  An action is one access to shared memory: the acquire *)
(* load of the other side's counter (with the decision taken on it), the   *)
(* access to one slot, the release store of the own counter.               *)
(*                                                                         *)
(* A load need not return the latest value: it returns any value the other *)
(* thread has stored since the one this thread loaded last.  heads and     *)
(* tails are the values head_ and tail_ may still be read to have, oldest  *)
(* first.  Each carries the slots its thread had accessed before storing   *)
(* it: a thread that loads the value is ordered after those accesses, and  *)
(* after no others.                                                        *)
(***************************************************************************)
EXTENDS Integers, Sequences

CONSTANTS
  Items,      \* T
  Blank,      \* T{}: what make_unique puts into every slot
  Capacity,   \* template argument
  WordMod,    \* 2^64: the counters wrap there
  MaxBatch    \* bound: longest batch a caller passes or asks for

ASSUME RingAssumption ==
  /\ Capacity \in Nat \ {0, 1}
  /\ WordMod \in Nat /\ WordMod > Capacity /\ WordMod % Capacity = 0
  /\ MaxBatch \in Nat

Slots == 0..(Capacity - 1)
Words == 0..(WordMod - 1)
Batches == UNION {[1..n -> Items] : n \in 0..MaxBatch}

VARIABLES
  data,     \* data_
  heads,    \* head_: values the consumer may load, the last one current
  tails,    \* tail_: values the producer may load, the last one current
  batch,    \* producer: items of this call that fit, <<>> between calls
  filled,   \* producer: how many of them are in their slots
  want,     \* consumer: number of items this call takes, 0 between calls
  out,      \* consumer: items copied out so far
  got,      \* what the last successful pop or pop_many delivered
  wrote,    \* slots written since the last store of head_
  read      \* slots read since the last store of tail_

producer == <<batch, filled, wrote>>
consumer == <<want, out, read, got>>
vars == <<data, heads, tails, producer, consumer>>
------------------------------------------------------------------------------
Word(x)    == x % WordMod                \* arithmetic of std::size_t
UnmaskedSlot(w) == w % (Capacity + 1)    \* mutant: mask() == Capacity
Slot(w)    == w % Capacity               \* w & mask()
Used(h, t) == Word(h - t)
Lesser(a, b) == IF a < b THEN a ELSE b

Latest(log) == log[Len(log)].word
HeadNow == Latest(heads)                    \* the relaxed loads of the own counter
TailNow == Latest(tails)

\* Load the k-th value that may be read; the ones before it are gone.
Loaded(log, k) == [SubSeq(log, k, Len(log)) EXCEPT ![1].slots = {}]
Stored(log, w, slots) == Append(log, [word |-> w, slots |-> slots])
\* The accesses to slots that the thread reading this log is not ordered after.
Unordered(log, recent) == recent \cup UNION {log[k].slots : k \in DOMAIN log}

WriteSlot == Slot(Word(HeadNow + filled))
ReadSlot  == Slot(Word(TailNow + Len(out)))
------------------------------------------------------------------------------
Init ==
  /\ data = [s \in Slots |-> Blank]
  /\ heads = <<[word |-> 0, slots |-> {}]>>
  /\ tails = <<[word |-> 0, slots |-> {}]>>
  /\ batch = <<>> /\ filled = 0 /\ wrote = {}
  /\ want = 0 /\ out = <<>> /\ read = {} /\ got = <<>>

\* How many items push() and push_many() accept, given the tail they loaded,
\* and how many pop() and pop_many() take, given the head.
RoomForOneMore(used) == IF used > Capacity THEN 0 ELSE 1     \* mutant: off by one
RoomForOne(used)     == IF used >= Capacity THEN 0 ELSE 1
RoomForMany(used, n) == Lesser(Word(Capacity - used), n)
StockForOne(used)     == IF used = 0 THEN 0 ELSE 1
StockForMany(used, n) == Lesser(used, n)

\* The calls begin with the load of the other side's counter; with a count
\* of 0 they return at once.
BeginPush(in, k, count) ==
  /\ batch = <<>>
  /\ tails' = Loaded(tails, k)
  /\ batch' = SubSeq(in, 1, count)
  /\ UNCHANGED <<data, heads, filled, wrote, consumer>>

Push(x, k)      == BeginPush(<<x>>, k, RoomForOne(Used(HeadNow, tails[k].word)))
PushMany(in, k) == BeginPush(in, k, RoomForMany(Used(HeadNow, tails[k].word), Len(in)))

BeginPop(k, count) ==
  /\ want = 0
  /\ heads' = Loaded(heads, k)
  /\ want' = count
  /\ UNCHANGED <<data, tails, producer, out, read, got>>

Pop(k)        == BeginPop(k, StockForOne(Used(heads[k].word, TailNow)))
PopMany(n, k) == BeginPop(k, StockForMany(Used(heads[k].word, TailNow), n))

\* The assignment to a slot in push(), or in the loop of push_many().
Write ==
  /\ filled < Len(batch)
  /\ data' = [data EXCEPT ![WriteSlot] = batch[filled + 1]]
  /\ wrote' = wrote \cup {WriteSlot}
  /\ filled' = filled + 1
  /\ UNCHANGED <<heads, tails, batch, consumer>>

\* head_.store(..., release); the call returns the number of items.
OneMissing(n, len) == len > 0 /\ n >= len - 1    \* mutant: published before the last write
Complete(n, len)   == len > 0 /\ n = len
Publish ==
  /\ Complete(filled, Len(batch))
  /\ heads' = Stored(heads, Word(HeadNow + Len(batch)), wrote)
  /\ batch' = <<>> /\ filled' = 0 /\ wrote' = {}
  /\ UNCHANGED <<data, tails, consumer>>

\* The copy out of a slot in pop(), or in the loop of pop_many().
Read ==
  /\ Len(out) < want
  /\ out' = Append(out, data[ReadSlot])
  /\ read' = read \cup {ReadSlot}
  /\ UNCHANGED <<data, heads, tails, producer, want, got>>

\* tail_.store(..., release); the call returns with its items.
Release ==
  /\ Complete(Len(out), want)
  /\ tails' = Stored(tails, Word(TailNow + want), read)
  /\ got' = out
  /\ want' = 0 /\ out' = <<>> /\ read' = {}
  /\ UNCHANGED <<data, heads, producer>>

Next ==
  \/ \E k \in DOMAIN tails :
       \/ \E x \in Items : Push(x, k)
       \/ \E in \in Batches : PushMany(in, k)
  \/ \E k \in DOMAIN heads :
       \/ Pop(k)
       \/ \E n \in 0..MaxBatch : PopMany(n, k)
  \/ Write \/ Publish \/ Read \/ Release

Spec == Init /\ [][Next]_vars
------------------------------------------------------------------------------
(* Properties                                                              *)

Entries == [word : Words, slots : SUBSET Slots]

RingTypeOK ==
  /\ data \in [Slots -> Items \cup {Blank}]
  /\ heads \in Seq(Entries) /\ heads # <<>>
  /\ tails \in Seq(Entries) /\ tails # <<>>
  /\ batch \in Seq(Items) /\ filled \in 0..Len(batch)
  /\ want \in Nat /\ out \in Seq(Items) /\ Len(out) <= want
  /\ got \in Seq(Items)
  /\ wrote \in SUBSET Slots /\ read \in SUBSET Slots

\* No data race on a slot: when a thread is about to access one, every access
\* of the other thread to that slot comes before a store whose value this
\* thread has loaded, however stale the value of that load was.
NoRace ==
  /\ filled < Len(batch) => WriteSlot \notin Unordered(tails, read)
  /\ Len(out) < want => ReadSlot \notin Unordered(heads, wrote)

\* Wrapped around the word or not, the counters the threads may still load and
\* the ones they use lie in one window of Capacity: the oldest tail the
\* producer may believe in comes first, then the newer tails, then the heads.
Offset(w) == Used(w, tails[1].word)
Increasing(log) ==
  \A j, k \in DOMAIN log : j <= k => Offset(log[j].word) <= Offset(log[k].word)
CountersOrdered ==
  /\ Increasing(tails) /\ Increasing(heads)
  /\ Offset(TailNow) + want <= Offset(heads[1].word)
  /\ Offset(HeadNow) + Len(batch) <= Capacity

\* What the stores carry, and what the slots hold: with CountersOrdered and
\* RingTypeOK this is what every step preserves.
Between(a, b) == {Slot(Word(a + i)) : i \in 0..(Used(b, a) - 1)}
LogsCarrySlots ==
  /\ tails[1].slots = {} /\ heads[1].slots = {}
  /\ \A k \in 2..Len(tails) : tails[k].slots = Between(tails[k - 1].word, tails[k].word)
  /\ \A k \in 2..Len(heads) : heads[k].slots = Between(heads[k - 1].word, heads[k].word)
  /\ wrote = {Slot(Word(HeadNow + i)) : i \in 0..(filled - 1)}
  /\ read = {Slot(Word(TailNow + i)) : i \in 0..(Len(out) - 1)}
SlotsHoldItems ==
  /\ \A i \in 1..filled : data[Slot(Word(HeadNow + i - 1))] = batch[i]
  /\ \A i \in 1..Len(out) : data[Slot(Word(TailNow + i - 1))] = out[i]
  /\ \A i \in 1..Used(HeadNow, TailNow) : data[Slot(Word(TailNow + i - 1))] \in Items
RingInv == CountersOrdered /\ LogsCarrySlots /\ SlotsHoldItems

\* The queue the ring stands for.
Queue == [i \in 1..Used(HeadNow, TailNow) |-> data[Slot(Word(TailNow + i - 1))]]
Fifo == INSTANCE BoundedFifo WITH queue <- Queue

\* Items come out in the order they went in, once each and unchanged, in
\* batches as in single calls, across both wraps.
ImplementsFifo == Fifo!Spec
==============================================================================
