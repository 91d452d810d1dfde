--------------------------- MODULE PipelineProofs ---------------------------
(***************************************************************************)
(* For every set of programs, every capacity and every batch size, the     *)
(* consumer of Pipeline is given the items in the producer's order, the    *)
(* pipeline does to the book what one thread would, and the benchmarks end *)
(* as their authors intend.  The invariant accounts for every item: what   *)
(* the producer is pushing, what the ring holds and what the consumer      *)
(* holds are consecutive parts of the program's items.  What the ring does *)
(* is cited from SpscRingProofs, what the calls of a program come to from  *)
(* DriversProofs.                                                          *)
(***************************************************************************)
EXTENDS Pipeline, PipelinePrograms, SequenceTheorems, TLAPS
\* The pipelines use the plain ring, whose theorems do not speak of snapshots.
Proved == INSTANCE SpscRingProofs WITH cached_tail <- 0, cached_head <- 0

items == program.items
InRing == Proved!Queue

Account ==
  /\ program \in Programs
  /\ pushed \in 0..N /\ processed \in Nat
  /\ batch \in Seq(Items) /\ pushed + Len(batch) <= N
  /\ \A i \in 1..Len(batch) : batch[i] = items[pushed + i]
  /\ InRing \in Seq(Items) /\ inbox \in Seq(Items)
  /\ processed + Len(inbox) + Len(InRing) = pushed
  /\ \A i \in 1..Len(InRing) : InRing[i] = items[processed + Len(inbox) + i]
  /\ \A i \in 1..Len(inbox) : inbox[i] = items[processed + i]

Inv ==
  /\ Proved!Inv
  /\ Account
  /\ want # 0 => inbox = <<>>
  /\ pc # "idle" => inbox # <<>> /\ program.applies
------------------------------------------------------------------------------
(* The steps of the ring, as SpscRingProofs knows them                     *)

\* A call of push or push_many starts with its load; items, if any are
\* accepted, are the next ones.
LEMMA Pushes ==
  ASSUME NEW k, CallPush(k)
  PROVE  \/ /\ program.push_size = 1
            /\ Proved!BeginPush(<<NextChunk[1]>>, k, Proved!RoomForOne(Proved!Used(Proved!HeadNow, tails[k].word)))
         \/ /\ program.push_size # 1
            /\ Proved!BeginPush(NextChunk, k,
                 Proved!RoomForMany(Proved!Used(Proved!HeadNow, tails[k].word), Len(NextChunk)))
BY DEF CallPush, Ring!Push, Ring!PushMany, Ring!BeginPush, Proved!BeginPush, Ring!Loaded, Proved!Loaded,
   Ring!RoomForOne, Proved!RoomForOne, Ring!RoomForMany, Proved!RoomForMany, Ring!Lesser, Proved!Lesser,
   Ring!Used, Proved!Used, Ring!Word, Proved!Word, Ring!HeadNow, Proved!HeadNow, Ring!Latest, Proved!Latest,
   Ring!consumer, Proved!consumer

\* A call of pop or pop_many likewise.
LEMMA Pops ==
  ASSUME NEW k, CallPop(k)
  PROVE  \/ Proved!BeginPop(k, Proved!StockForOne(Proved!Used(heads[k].word, Proved!TailNow)))
         \/ Proved!BeginPop(k, Proved!StockForMany(Proved!Used(heads[k].word, Proved!TailNow), program.pop_size))
BY DEF CallPop, Ring!Pop, Ring!PopMany, Ring!BeginPop, Proved!BeginPop, Ring!Loaded, Proved!Loaded,
   Ring!StockForOne, Proved!StockForOne, Ring!StockForMany, Proved!StockForMany, Ring!Lesser, Proved!Lesser,
   Ring!Used, Proved!Used, Ring!Word, Proved!Word, Ring!TailNow, Proved!TailNow, Ring!Latest, Proved!Latest,
   Ring!producer, Proved!producer

\* The steps inside the calls are the ring's.
LEMMA Inside ==
  /\ Ring!Write => Proved!Write
  /\ Ring!Publish => Proved!Publish
  /\ Ring!Read => Proved!Read
  /\ Ring!Release => Proved!Release
<1>1. Ring!Write => Proved!Write
  BY DEF Ring!Write, Proved!Write, Ring!WriteSlot, Proved!WriteSlot, Ring!Slot, Proved!Slot, Ring!Word, Proved!Word,
     Ring!HeadNow, Proved!HeadNow, Ring!Latest, Proved!Latest, Ring!consumer, Proved!consumer
<1>2. Ring!Publish => Proved!Publish
  BY DEF Ring!Publish, Proved!Publish, Ring!Complete, Proved!Complete, Ring!Stored, Proved!Stored, Ring!Word, Proved!Word,
     Ring!HeadNow, Proved!HeadNow, Ring!Latest, Proved!Latest, Ring!consumer, Proved!consumer
<1>3. Ring!Read => Proved!Read
  BY DEF Ring!Read, Proved!Read, Ring!ReadSlot, Proved!ReadSlot, Ring!Slot, Proved!Slot, Ring!Word, Proved!Word,
     Ring!TailNow, Proved!TailNow, Ring!Latest, Proved!Latest, Ring!producer, Proved!producer
<1>4. Ring!Release => Proved!Release
  BY DEF Ring!Release, Proved!Release, Ring!Complete, Proved!Complete, Ring!Stored, Proved!Stored, Ring!Word, Proved!Word,
     Ring!TailNow, Proved!TailNow, Ring!Latest, Proved!Latest, Ring!producer, Proved!producer
<1> QED BY <1>1, <1>2, <1>3, <1>4

\* The queue the pipeline instances meets the assumption of the proved ring, and starts as it does.
LEMMA RingIs == Proved!RingAssumption /\ (Ring!Init => Proved!Init)
BY PipelineAssumption DEF Ring!RingAssumption, Proved!RingAssumption, Ring!Init, Proved!Init, Ring!Slots, Proved!Slots

\* A step that leaves the ring alone leaves its invariant and its queue alone.
LEMMA RingUntouched ==
  ASSUME UNCHANGED ringvars
  PROVE  InRing' = InRing /\ (Proved!Inv => Proved!Inv')
<1>1. InRing' = InRing
  BY DEF ringvars, InRing, Proved!Queue, Proved!HeadNow, Proved!TailNow
<1>2. UNCHANGED Proved!vars
  BY DEF ringvars, Proved!vars, Proved!producer, Proved!consumer
<1> QED BY <1>1, <1>2, Proved!NextInv, RingIs
------------------------------------------------------------------------------
(* One step per action                                                     *)

\* The invariant holds before the threads have been started.
LEMMA InitInv == Init => Inv
<1> SUFFICES ASSUME Init PROVE Inv
  OBVIOUS
<1>1. Proved!Init /\ Proved!Inv
  BY RingIs, Proved!InitInv DEF Init
<1>2. /\ batch = <<>> /\ want = 0 /\ inbox = <<>> /\ pushed = 0 /\ processed = 0 /\ program \in Programs
      /\ pc = "idle"
  BY DEF Init, Ring!Init, Book!Init
<1>3. InRing \in Seq(Items) /\ Len(InRing) = 0
  <2>1. Proved!HeadNow = 0 /\ Proved!TailNow = 0 /\ 0 \in Proved!Words
    BY <1>1, RingIs DEF Proved!Init, Proved!HeadNow, Proved!TailNow, Proved!Latest, Proved!Words, Proved!RingAssumption
  <2> QED BY <2>1, <1>1, RingIs, Proved!QueueItems, Proved!UsedSelf DEF InRing
<1>4. N \in Nat
  BY <1>2, PipelineAssumption DEF N
<1> QED BY <1>1, <1>2, <1>3, <1>4 DEF Inv, Account

\* A prefix of a sequence, item by item.
LEMMA Prefix ==
  ASSUME NEW q \in Seq(Items), NEW n \in 0..Len(q)
  PROVE  /\ SubSeq(q, 1, n) \in Seq(Items) /\ Len(SubSeq(q, 1, n)) = n
         /\ \A i \in 1..n : SubSeq(q, 1, n)[i] = q[i]
OBVIOUS

\* The rest of a sequence likewise.
LEMMA Suffix ==
  ASSUME NEW q \in Seq(Items), NEW n \in 0..Len(q)
  PROVE  /\ SubSeq(q, n + 1, Len(q)) \in Seq(Items) /\ Len(SubSeq(q, n + 1, Len(q))) = Len(q) - n
         /\ \A i \in 1..(Len(q) - n) : SubSeq(q, n + 1, Len(q))[i] = q[n + i]
OBVIOUS

\* The producer's next chunk is the next items of the program.
LEMMA Chunk ==
  ASSUME Account, pushed < N
  PROVE  /\ NextChunk \in Seq(Items) /\ Len(NextChunk) \in 1..(N - pushed)
         /\ \A i \in 1..Len(NextChunk) : NextChunk[i] = items[pushed + i]
         /\ items \in Seq(Items) /\ N \in Nat
<1>1. /\ items \in Seq(Items) /\ N = Len(items) /\ N \in Nat /\ pushed \in Nat
      /\ program.push_size \in Nat \ {0}
  BY PipelineAssumption DEF Account, N, items
<1>2. PICK end \in (pushed + 1)..N : NextChunk = SubSeq(items, pushed + 1, end)
  <2>1. CASE program.push_size <= N - pushed
    <3>1. pushed + program.push_size \in (pushed + 1)..N
      BY <1>1, <2>1
    <3> QED BY <2>1, <3>1 DEF NextChunk, items
  <2>2. CASE ~(program.push_size <= N - pushed)
    <3>1. N \in (pushed + 1)..N
      BY <1>1
    <3> QED BY <2>2, <3>1 DEF NextChunk, items
  <2> QED BY <2>1, <2>2
<1>3. /\ NextChunk \in Seq(Items) /\ Len(NextChunk) = end - pushed
      /\ \A i \in 1..Len(NextChunk) : NextChunk[i] = items[pushed + i]
  BY <1>1, <1>2
<1>4. end - pushed \in 1..(N - pushed)
  BY ONLY <1>1, end \in (pushed + 1)..N
<1> QED BY <1>1, <1>3, <1>4

\* The producer's call of push_n keeps the invariant: a batch is taken from the items in order.
LEMMA CallPushInv ==
  ASSUME Inv, NEW k \in DOMAIN tails, CallPush(k)
  PROVE  Inv'
<1>1. /\ Account /\ Proved!Inv /\ pushed < N
      /\ UNCHANGED <<bookvars, program, start, pushed, results, joined>>
  BY DEF Inv, CallPush
<1>2. \E in \in Seq(Items) : \E count \in 0..Len(in) :
        /\ Proved!BeginPush(in, k, count) /\ count <= Capacity - Proved!Used(Proved!HeadNow, tails[k].word)
        /\ Len(in) <= N - pushed
        /\ \A i \in 1..Len(in) : in[i] = items[pushed + i]
  <2> DEFINE used == Proved!Used(Proved!HeadNow, tails[k].word)
  <2>1. /\ Proved!RoomForOne(used) \in 0..1 /\ Proved!RoomForOne(used) <= Capacity - used
        /\ Proved!RoomForMany(used, Len(NextChunk)) \in 0..Len(NextChunk)
        /\ Proved!RoomForMany(used, Len(NextChunk)) <= Capacity - used
    <3>1. Len(NextChunk) \in Nat
      BY <1>1, Chunk
    <3> QED BY <1>1, <3>1, RingIs, Proved!PushCounts
  <2>2. CASE Proved!BeginPush(<<NextChunk[1]>>, k, Proved!RoomForOne(used))
    <3>1. /\ <<NextChunk[1]>> \in Seq(Items) /\ Len(<<NextChunk[1]>>) = 1 /\ 1 <= N - pushed
          /\ \A i \in 1..1 : <<NextChunk[1]>>[i] = items[pushed + i]
      <4>1. /\ NextChunk[1] \in Items /\ NextChunk[1] = items[pushed + 1] /\ 1 <= N - pushed
        <5>1. /\ NextChunk \in Seq(Items) /\ Len(NextChunk) \in 1..(N - pushed)
              /\ \A i \in 1..Len(NextChunk) : NextChunk[i] = items[pushed + i]
              /\ N \in Nat /\ pushed \in Nat
          BY <1>1, Chunk DEF Account
        <5>2. 1 \in 1..Len(NextChunk) /\ 1 <= N - pushed
          BY <5>1
        <5> QED BY <5>1, <5>2
      <4> QED BY <4>1
    <3> DEFINE one == <<NextChunk[1]>>
               room == Proved!RoomForOne(used)
    <3>2. one \in Seq(Items) /\ room \in 0..Len(one) /\ Len(one) <= N - pushed
          /\ \A i \in 1..Len(one) : one[i] = items[pushed + i]
      BY <2>1, <3>1
    <3>3. Proved!BeginPush(one, k, room) /\ room <= Capacity - used
      BY <2>1, <2>2
    <3> HIDE DEF one, room
    <3> QED BY <3>2, <3>3
  <2>3. CASE Proved!BeginPush(NextChunk, k, Proved!RoomForMany(used, Len(NextChunk)))
    <3>1. /\ NextChunk \in Seq(Items) /\ Len(NextChunk) <= N - pushed
          /\ \A i \in 1..Len(NextChunk) : NextChunk[i] = items[pushed + i]
      BY <1>1, Chunk
    <3> DEFINE room == Proved!RoomForMany(used, Len(NextChunk))
    <3>2. room \in 0..Len(NextChunk) /\ Proved!BeginPush(NextChunk, k, room) /\ room <= Capacity - used
      BY <2>1, <2>3
    <3> HIDE DEF room
    <3> QED BY <3>1, <3>2
  <2> QED BY <2>2, <2>3, Pushes
<1>3. PICK in \in Seq(Items) : \E count \in 0..Len(in) :
        /\ Proved!BeginPush(in, k, count) /\ count <= Capacity - Proved!Used(Proved!HeadNow, tails[k].word)
        /\ Len(in) <= N - pushed
        /\ \A i \in 1..Len(in) : in[i] = items[pushed + i]
  BY <1>2
<1>. PICK count \in 0..Len(in) :
        /\ Proved!BeginPush(in, k, count) /\ count <= Capacity - Proved!Used(Proved!HeadNow, tails[k].word)
  BY <1>3
<1>4. Proved!Inv'
  BY <1>1, <1>3, RingIs, Proved!BeginPushInv
<1>5. InRing' = InRing
  BY <1>1, <1>3, <1>4, RingIs, Proved!LoadsRefine DEF InRing
<1>6. batch' = SubSeq(in, 1, count) /\ want' = want
  BY <1>3 DEF Proved!BeginPush, Proved!consumer
<1>7. /\ batch' \in Seq(Items) /\ Len(batch') = count /\ count <= N - pushed
      /\ \A i \in 1..Len(batch') : batch'[i] = items[pushed + i]
  <2>1. /\ batch' \in Seq(Items) /\ Len(batch') = count
        /\ \A i \in 1..count : batch'[i] = in[i]
    BY <1>6, Prefix
  <2>2. count <= N - pushed
    <3>1. N \in Nat /\ pushed \in Nat /\ Len(in) \in Nat
      BY <1>1, Chunk DEF Account
    <3> QED BY <3>1, <1>3
  <2> QED BY <2>1, <2>2, <1>3
<1>8. Account'
  <2>1. /\ UNCHANGED <<program, pushed, processed, inbox>> /\ items' = items /\ N' = N
    BY <1>1 DEF results, items, N
  <2>2. pushed \in Nat /\ N \in Nat
    BY <1>1, Chunk DEF Account
  <2> QED BY <1>1, <1>5, <1>7, <2>1, <2>2 DEF Account
<1> QED BY <1>1, <1>4, <1>6, <1>8 DEF Inv, results, bookvars

\* Each slot push_n writes keeps the invariant.
LEMMA WriteSlotInv ==
  ASSUME Inv, WriteSlot
  PROVE  Inv'
<1>1. /\ Account /\ Proved!Inv /\ Proved!Write
      /\ UNCHANGED <<bookvars, program, start, pushed, results, joined>>
  BY Inside DEF Inv, WriteSlot
<1>2. Proved!Inv'
  BY <1>1, RingIs, Proved!WriteInv
<1>3. InRing' = InRing
  BY <1>1, RingIs, Proved!WriteRefines DEF InRing
<1>4. UNCHANGED <<batch, want, program, pushed, processed, inbox, pc>>
  BY <1>1 DEF Proved!Write, Proved!consumer, results, bookvars
<1>5. Account'
  BY <1>1, <1>3, <1>4 DEF Account, items, N
<1> QED BY <1>2, <1>4, <1>5 DEF Inv

\* The batch joins what the ring holds.
LEMMA ReturnPushInv ==
  ASSUME Inv, ReturnPush
  PROVE  Inv'
<1>1. /\ Account /\ Proved!Inv /\ Proved!Publish /\ pushed' = pushed + Len(batch)
      /\ UNCHANGED <<bookvars, program, start, results, joined>>
  BY Inside DEF Inv, ReturnPush
<1>2. Proved!Inv'
  BY <1>1, RingIs, Proved!PublishInv
<1>3. InRing' = InRing \o batch
  BY <1>1, <1>2, RingIs, Proved!PublishRefines DEF InRing, Proved!Fifo!Push
<1>4. /\ UNCHANGED <<want, program, processed, inbox, pc>> /\ items' = items /\ N' = N /\ batch' = <<>>
  BY <1>1 DEF Proved!Publish, Proved!consumer, results, bookvars, items, N
<1>5. /\ pushed \in Nat /\ N \in Nat /\ processed \in Nat /\ Len(inbox) \in Nat
      /\ Len(batch) \in Nat /\ Len(InRing) \in Nat
  BY <1>1, PipelineAssumption DEF Account, N
<1>6. /\ InRing' \in Seq(Items) /\ Len(InRing') = Len(InRing) + Len(batch)
      /\ \A i \in 1..Len(InRing') : InRing'[i] = items[processed + Len(inbox) + i]
  <2>1. InRing \in Seq(Items) /\ batch \in Seq(Items)
    BY <1>1 DEF Account
  <2>2. InRing' \in Seq(Items) /\ Len(InRing') = Len(InRing) + Len(batch)
    BY <1>3, <2>1, ConcatProperties
  <2>3. ASSUME NEW i \in 1..Len(InRing') PROVE InRing'[i] = items[processed + Len(inbox) + i]
    <3>1. CASE i <= Len(InRing)
      <4>1. i \in 1..Len(InRing) /\ InRing'[i] = InRing[i]
        BY <1>3, <1>5, <2>1, <2>2, <3>1, ConcatProperties
      <4> QED BY <4>1, <1>1 DEF Account
    <3>2. CASE i > Len(InRing)
      <4>1. /\ i - Len(InRing) \in 1..Len(batch) /\ InRing'[i] = batch[i - Len(InRing)]
        BY <1>3, <1>5, <2>1, <2>2, <3>2, ConcatProperties
      <4>2. pushed + (i - Len(InRing)) = processed + Len(inbox) + i
        <5>1. pushed = processed + Len(inbox) + Len(InRing) /\ i \in Nat
          BY <1>1, <1>5, <2>2 DEF Account
        <5> QED BY <5>1, <1>5
      <4> QED BY <4>1, <4>2, <1>1 DEF Account
    <3> QED BY <3>1, <3>2, <1>5, <2>2
  <2> QED BY <2>2, <2>3
<1>7. Account'
  BY <1>1, <1>4, <1>5, <1>6 DEF Account
<1> QED BY <1>2, <1>4, <1>7 DEF Inv

\* A load of the head changes nothing but what the consumer asks for.
LEMMA CallPopInv ==
  ASSUME Inv, NEW k \in DOMAIN heads, CallPop(k)
  PROVE  Inv'
<1>1. /\ Account /\ Proved!Inv /\ inbox = <<>> /\ program.pop_size \in Nat
      /\ UNCHANGED <<bookvars, program, start, pushed, results, joined>>
  BY PipelineAssumption DEF Inv, CallPop, Account
<1>2. PICK count \in Nat : Proved!BeginPop(k, count) /\ count <= Proved!Used(heads[k].word, Proved!TailNow)
  <2> DEFINE used == Proved!Used(heads[k].word, Proved!TailNow)
  <2>1. /\ Proved!StockForOne(used) \in Nat /\ Proved!StockForOne(used) <= used
        /\ Proved!StockForMany(used, program.pop_size) \in Nat
        /\ Proved!StockForMany(used, program.pop_size) <= used
    BY <1>1, RingIs, Proved!PopCounts
  <2> QED BY <2>1, Pops
<1>3. Proved!Inv'
  BY <1>1, <1>2, RingIs, Proved!BeginPopInv
<1>4. InRing' = InRing
  BY <1>1, <1>2, <1>3, RingIs, Proved!LoadsRefine DEF InRing
<1>5. UNCHANGED <<batch, program, pushed, processed, inbox, pc>>
  BY <1>1, <1>2 DEF Proved!BeginPop, Proved!producer, results, bookvars
<1>6. Account'
  BY <1>1, <1>4, <1>5 DEF Account, items, N
<1> QED BY <1>1, <1>3, <1>5, <1>6 DEF Inv

\* Each slot pop_n reads keeps the invariant.
LEMMA ReadSlotInv ==
  ASSUME Inv, ReadSlot
  PROVE  Inv'
<1>1. /\ Account /\ Proved!Inv /\ Proved!Read
      /\ UNCHANGED <<bookvars, program, start, pushed, results, joined>>
  BY Inside DEF Inv, ReadSlot
<1>2. Proved!Inv'
  BY <1>1, RingIs, Proved!ReadInv
<1>3. InRing' = InRing
  BY <1>1 DEF InRing, Proved!Queue, Proved!Read, Proved!producer, Proved!HeadNow, Proved!TailNow
<1>4. UNCHANGED <<batch, want, program, pushed, processed, inbox, pc>>
  BY <1>1 DEF Proved!Read, Proved!producer, results, bookvars
<1>5. Account'
  BY <1>1, <1>3, <1>4 DEF Account, items, N
<1> QED BY <1>2, <1>4, <1>5 DEF Inv

\* What leaves the ring is what the consumer gets.
LEMMA ReturnPopInv ==
  ASSUME Inv, ReturnPop
  PROVE  Inv'
<1>1. /\ Account /\ Proved!Inv /\ Proved!Release /\ inbox' = got' /\ want # 0 /\ inbox = <<>>
      /\ UNCHANGED <<bookvars, program, start, pushed, processed, buffer, refused, joined>>
  BY Inside DEF Inv, ReturnPop, Proved!Release, Proved!Complete
<1>2. Proved!Inv'
  BY <1>1, RingIs, Proved!ReleaseInv
<1>3. /\ want \in 1..Len(InRing)
      /\ inbox' = SubSeq(InRing, 1, want) /\ InRing' = SubSeq(InRing, want + 1, Len(InRing))
  BY <1>1, <1>2, RingIs, Proved!ReleaseRefines DEF InRing, Proved!Fifo!Pop
<1>4. /\ UNCHANGED <<batch, program, pushed, processed, pc>> /\ items' = items /\ N' = N /\ want' = 0
  BY <1>1 DEF Proved!Release, Proved!producer, bookvars, items, N
<1>5. /\ InRing \in Seq(Items) /\ Len(InRing) \in Nat /\ processed \in Nat /\ want \in Nat
      /\ processed + Len(InRing) = pushed
      /\ \A i \in 1..Len(InRing) : InRing[i] = items[processed + i]
  BY <1>1, <1>3 DEF Account
<1>6. /\ inbox' \in Seq(Items) /\ Len(inbox') = want
      /\ \A i \in 1..want : inbox'[i] = InRing[i]
  BY <1>3, <1>5, Prefix
<1>7. /\ InRing' \in Seq(Items) /\ Len(InRing') = Len(InRing) - want
      /\ \A i \in 1..Len(InRing') : InRing'[i] = InRing[want + i]
  BY <1>3, <1>5, Suffix
<1>8. Account'
  <2>1. processed + Len(inbox') + Len(InRing') = pushed
    BY <1>5, <1>6, <1>7
  <2>2. \A i \in 1..Len(inbox') : inbox'[i] = items[processed + i]
    BY <1>3, <1>5, <1>6
  <2>3. ASSUME NEW i \in 1..Len(InRing') PROVE InRing'[i] = items[processed + Len(inbox') + i]
    <3>1. want + i \in 1..Len(InRing) /\ processed + (want + i) = processed + want + i
      BY <1>3, <1>5, <1>7
    <3> QED BY <3>1, <1>5, <1>6, <1>7
  <2> QED BY <1>1, <1>4, <1>6, <1>7, <2>1, <2>2, <2>3 DEF Account
<1> QED BY <1>2, <1>4, <1>8, <1>1, <1>3, <1>6 DEF Inv

\* The consumer is done with the first item it holds.
LEMMA AppliedInv ==
  ASSUME Inv, inbox # <<>>, Applied, inbox' = Tail(inbox), UNCHANGED <<ringvars, program, pushed>>, pc' = "idle"
  PROVE  Inv'
<1>1. Account /\ Proved!Inv' /\ InRing' = InRing /\ processed' = processed + 1
  BY RingUntouched DEF Inv, Applied
<1>2. UNCHANGED <<batch, want, program, pushed>> /\ items' = items /\ N' = N /\ want = 0
  BY DEF ringvars, items, N, Inv
<1>3. /\ inbox \in Seq(Items) /\ processed \in Nat /\ Len(inbox) \in Nat \ {0} /\ Len(InRing) \in Nat
      /\ processed + Len(inbox) + Len(InRing) = pushed
  BY <1>1, EmptySeq DEF Account
<1>4. /\ inbox' \in Seq(Items) /\ Len(inbox') = Len(inbox) - 1
      /\ \A i \in 1..Len(inbox') : inbox'[i] = inbox[i + 1]
  BY <1>3
<1>5. processed' + Len(inbox') = processed + Len(inbox) /\ processed' \in Nat
  BY <1>1, <1>3, <1>4
<1>6. \A i \in 1..Len(inbox') : inbox'[i] = items[processed' + i]
  <2> TAKE i \in 1..Len(inbox')
  <2>1. i + 1 \in 1..Len(inbox) /\ processed' + i = processed + (i + 1)
    BY <1>1, <1>3, <1>4
  <2> QED BY <2>1, <1>1, <1>4 DEF Account
<1>7. Account'
  BY <1>1, <1>2, <1>4, <1>5, <1>6 DEF Account
<1> QED BY <1>1, <1>2, <1>7 DEF Inv

\* The book's steps neither touch the ring nor the items to come.
LEMMA BookInv ==
  ASSUME Inv, inbox # <<>>, program.applies, UNCHANGED <<ringvars, program, pushed>>,
         IF pc' = "idle" THEN Returned ELSE UNCHANGED <<inbox, processed, refused>>
  PROVE  Inv'
<1>1. CASE pc' = "idle"
  BY <1>1, AppliedInv DEF Returned
<1>2. CASE pc' # "idle"
  <2>1. Account /\ Proved!Inv' /\ InRing' = InRing /\ UNCHANGED <<inbox, processed>>
    BY <1>2, RingUntouched DEF Inv
  <2>2. UNCHANGED <<batch, want, program, pushed>> /\ items' = items /\ N' = N
    BY DEF ringvars, items, N
  <2>3. Account'
    BY <2>1, <2>2 DEF Account
  <2> QED BY <2>1, <2>2, <2>3 DEF Inv
<1> QED BY <1>1, <1>2

\* The consumer's use of an item keeps the invariant, whether the engine takes or drops it.
LEMMA ApplyInv ==
  ASSUME Inv, ApplyAddLimit \/ ApplyCancel \/ Match \/ Discard
  PROVE  Inv'
<1>1. CASE ApplyAddLimit
  BY <1>1, BookInv DEF ApplyAddLimit, ReadyToApply
<1>2. CASE ApplyCancel
  <2>1. pc' = "idle"
    BY <1>2 DEF ApplyCancel, Book!CancelOrder
  <2> QED BY <1>2, <2>1, AppliedInv DEF ApplyCancel, ReadyToApply, Returned
<1>3. CASE Match
  <2>1. pc # "idle"
    BY <1>3 DEF Match, Book!Matching, Book!EnterLevel, Book!FillIncoming, Book!FillResting, Book!AtLevel,
       Book!LeaveLevel, Book!FinishSubmit
  <2> QED BY <1>3, <2>1, BookInv DEF Match, Inv
<1>4. CASE Discard
  <2>1. pc' = "idle"
    BY <1>4 DEF Discard, bookvars, Inv
  <2> QED BY <1>4, <2>1, AppliedInv DEF Discard
<1> QED BY <1>1, <1>2, <1>3, <1>4

\* Every step of the program keeps the invariant.
LEMMA NextInv == Inv /\ [Next]_vars => Inv'
<1> SUFFICES ASSUME Inv, [Next]_vars PROVE Inv'
  OBVIOUS
<1>1. CASE Start \/ Join \/ Finished \/ UNCHANGED vars
  <2>1. UNCHANGED <<ringvars, program, pushed, inbox, processed, pc>>
    BY <1>1 DEF Start, Join, Finished, vars, bookvars, results
  <2>2. Proved!Inv' /\ InRing' = InRing
    BY <2>1, RingUntouched DEF Inv
  <2>3. UNCHANGED <<batch, want>> /\ items' = items /\ N' = N
    BY <2>1 DEF ringvars, items, N
  <2> QED BY <2>1, <2>2, <2>3 DEF Inv, Account
<1> QED BY <1>1, CallPushInv, WriteSlotInv, ReturnPushInv, CallPopInv, ReadSlotInv, ReturnPopInv, ApplyInv DEF Next

\* The invariant holds in every reachable state.
LEMMA Invariance == Spec => []Inv
BY InitInv, NextInv, PTL DEF Spec
------------------------------------------------------------------------------
\* Whatever is sent, through whichever calls, the consumer uses the items in
\* the producer's order, each once.
THEOREM ItemsInOrder == Spec => []CommandsInOrder
<1>1. Inv => CommandsInOrder
  <2> SUFFICES ASSUME Inv PROVE CommandsInOrder
    OBVIOUS
  <2>1. /\ items \in Seq(Items) /\ inbox \in Seq(Items) /\ processed \in Nat /\ pushed <= Len(items)
        /\ processed + Len(inbox) + Len(InRing) = pushed /\ Len(InRing) \in Nat /\ Len(inbox) \in Nat
        /\ \A i \in 1..Len(inbox) : inbox[i] = items[processed + i]
    BY PipelineAssumption DEF Inv, Account, items, N
  <2>2. processed + Len(inbox) <= Len(items)
    BY <2>1
  <2>3. SubSeq(items, processed + 1, processed + Len(inbox)) = [i \in 1..Len(inbox) |-> items[processed + i]]
    BY <2>1, <2>2
  <2>4. inbox = [i \in 1..Len(inbox) |-> inbox[i]]
    BY <2>1
  <2> QED BY <2>1, <2>3, <2>4 DEF CommandsInOrder, items
<1> QED BY <1>1, Invariance, PTL

\* Main joins only threads that have counted to the end.
JoinedAtEnd == joined => pushed = N /\ processed = N

\* Every step keeps it so that the threads are joined only once all is pushed and processed.
LEMMA NextJoined == Inv /\ JoinedAtEnd /\ [Next]_vars => JoinedAtEnd'
<1> SUFFICES ASSUME Inv, JoinedAtEnd, [Next]_vars, joined' PROVE JoinedAtEnd'
  BY DEF JoinedAtEnd
<1>1. /\ N \in Nat /\ pushed \in Nat /\ processed \in Nat /\ Len(batch) \in Nat /\ Len(inbox) \in Nat
      /\ Len(InRing) \in Nat /\ pushed + Len(batch) <= N /\ processed + Len(inbox) + Len(InRing) = pushed
  BY PipelineAssumption DEF Inv, Account, N
<1>2. CASE Join
  BY <1>2 DEF Join, JoinedAtEnd, results, N
<1>3. CASE ~Join
  <2>1. joined /\ pushed = N /\ processed = N
    BY <1>3 DEF Next, Start, Finished, CallPush, WriteSlot, ReturnPush, CallPop, ReadSlot, ReturnPop,
       ApplyAddLimit, ApplyCancel, Match, Discard, JoinedAtEnd, vars
  <2>2. Len(batch) = 0 /\ Len(inbox) = 0
    BY <1>1, <2>1
  <2>3. inbox = <<>> /\ inbox \in Seq(Items)
    BY <2>2, EmptySeq DEF Inv, Account
  <2>4. pc = "idle"
    BY <2>3 DEF Inv
  <2>5. UNCHANGED <<pushed, processed, program>>
    <3>1. ~ReturnPush
      BY <2>2 DEF ReturnPush, Ring!Publish, Ring!Complete
    <3>2. ~Match
      BY <2>4 DEF Match, Book!Matching, Book!EnterLevel, Book!FillIncoming, Book!FillResting, Book!AtLevel,
         Book!LeaveLevel, Book!FinishSubmit
    <3>3. ~(ApplyAddLimit \/ ApplyCancel \/ Discard)
      BY <2>3 DEF ApplyAddLimit, ApplyCancel, Discard, ReadyToApply
    <3> QED BY <1>3, <3>1, <3>2, <3>3 DEF Next, Start, Finished, CallPush, WriteSlot, CallPop, ReadSlot,
         ReturnPop, vars, results
  <2> QED BY <2>1, <2>5 DEF JoinedAtEnd, N
<1> QED BY <1>2, <1>3

\* When the threads are joined nothing is left on the way: every item has been
\* used, and neither the calls nor the ring nor the consumer hold one.
NothingLeft == joined => processed = N /\ batch = <<>> /\ InRing = <<>> /\ inbox = <<>>
\* In every run of every program, after the joins nothing is left on the way.
THEOREM JoinedWithNothingLeft == Spec => []NothingLeft
<1>1. Init => JoinedAtEnd
  BY DEF Init, JoinedAtEnd
<1>2. Inv /\ JoinedAtEnd => NothingLeft
  <2> SUFFICES ASSUME Inv, pushed = N, processed = N PROVE batch = <<>> /\ InRing = <<>> /\ inbox = <<>>
    BY DEF NothingLeft, JoinedAtEnd
  <2>1. /\ N \in Nat /\ Len(batch) \in Nat /\ Len(inbox) \in Nat /\ Len(InRing) \in Nat
        /\ pushed + Len(batch) <= N /\ processed + Len(inbox) + Len(InRing) = pushed
    BY PipelineAssumption DEF Inv, Account, N
  <2>2. Len(batch) = 0 /\ Len(inbox) = 0 /\ Len(InRing) = 0
    BY <2>1
  <2> QED BY <2>2, EmptySeq DEF Inv, Account
<1> QED BY <1>1, <1>2, NextJoined, Invariance, PTL DEF Spec

\* The threads of the pipeline never race on a slot of the ring.
THEOREM PipelineRaceFree == Spec => []Ring!NoRace
<1>1. Inv => Ring!NoRace
  <2>1. Inv => Proved!NoRace
    BY RingIs, Proved!InvNoRace DEF Inv
  <2> QED BY <2>1 DEF Ring!NoRace, Proved!NoRace, Ring!WriteSlot, Proved!WriteSlot, Ring!ReadSlot, Proved!ReadSlot,
       Ring!Slot, Proved!Slot, Ring!Word, Proved!Word, Ring!HeadNow, Proved!HeadNow, Ring!TailNow, Proved!TailNow,
       Ring!Latest, Proved!Latest, Ring!Unordered, Proved!Unordered
<1> QED BY <1>1, Invariance, PTL
------------------------------------------------------------------------------
(* The book and the buffer do what one thread would do                     *)

\* The proofs about the single-threaded programs, for the programs of Sequential.
D == INSTANCE DriversProofs WITH
       Programs <- {Unthreaded(p) : p \in Programs} \cup {OneCall(c) : c \in Commands},
       program <- Unthreaded(program), sink <- buffer, failed <- refused,
       done <- IF program.applies THEN processed ELSE 0

\* The calls of a program, one after the other.
LEMMA CallsOf ==
  ASSUME NEW p \in Programs
  PROVE  /\ p.items \in Seq(Items) /\ Len(p.items) \in Nat /\ DOMAIN p.items = 1..Len(p.items)
         /\ p.applies => /\ DOMAIN Unthreaded(p).calls = 1..Len(p.items)
                         /\ Len(Unthreaded(p).calls) = Len(p.items)
                         /\ \A i \in 1..Len(p.items) : /\ CommandIn(p, p.items[i]) \in Commands
                                                       /\ Unthreaded(p).calls[i] = CallFor(CommandIn(p, p.items[i]))
         /\ ~p.applies => Unthreaded(p).calls = <<>>
<1>1. p.items \in Seq(Items) /\ Len(p.items) \in Nat /\ DOMAIN p.items = 1..Len(p.items)
  BY PipelineAssumption
<1>2. ASSUME p.applies
      PROVE  /\ DOMAIN Unthreaded(p).calls = 1..Len(p.items)
             /\ Len(Unthreaded(p).calls) = Len(p.items)
             /\ \A i \in 1..Len(p.items) : /\ CommandIn(p, p.items[i]) \in Commands
                                           /\ Unthreaded(p).calls[i] = CallFor(CommandIn(p, p.items[i]))
  <2>1. Unthreaded(p).calls = [i \in 1..Len(p.items) |-> CallFor(CommandIn(p, p.items[i]))]
    BY <1>1, <1>2 DEF Unthreaded
  <2>2. PICK f : f = [i \in 1..Len(p.items) |-> CallFor(CommandIn(p, p.items[i]))]
    OBVIOUS
  <2>3. Len(f) = Len(p.items)
    BY <1>1, <2>2
  <2>4. \A i \in 1..Len(p.items) : CommandIn(p, p.items[i]) \in Commands
    BY <1>1, <1>2, PipelineAssumption
  <2> QED BY <2>1, <2>2, <2>3, <2>4
<1>3. ~p.applies => Unthreaded(p).calls = <<>>
  BY DEF Unthreaded
<1> QED BY <1>1, <1>2, <1>3

\* The commands are the same,
LEMMA SameCommands ==
  /\ D!Commands = Commands /\ Sequential!Commands = Commands
  /\ D!OrderIds = OrderIds /\ D!InputPrices = InputPrices /\ D!InputQtys = InputQtys
  /\ Sequential!OrderIds = OrderIds /\ Sequential!InputPrices = InputPrices /\ Sequential!InputQtys = InputQtys
<1> DEFINE All == {Unthreaded(p) : p \in Programs} \cup {OneCall(c) : c \in Commands}
           Of(q) == {c.command : c \in {q.calls[i] : i \in {j \in DOMAIN q.calls :
                       q.calls[j].op \notin {"reserve", "clear"}}}}
<1>1. ASSUME NEW p \in Programs, NEW x \in Of(Unthreaded(p)) PROVE x \in Commands
  <2>1. PICK i \in DOMAIN Unthreaded(p).calls : x = Unthreaded(p).calls[i].command
    OBVIOUS
  <2>2. p.applies
    <3>1. SUFFICES ASSUME ~p.applies PROVE FALSE
      OBVIOUS
    <3>2. Unthreaded(p).calls = <<>>
      BY <3>1, CallsOf
    <3> QED BY <2>1, <3>2
  <2>3. i \in 1..Len(p.items) /\ CommandIn(p, p.items[i]) \in Commands
        /\ Unthreaded(p).calls[i] = CallFor(CommandIn(p, p.items[i]))
    BY <2>1, <2>2, CallsOf
  <2> QED BY <2>1, <2>3 DEF CallFor
<1>2. ASSUME NEW c \in Commands PROVE Of(OneCall(c)) = {c}
  <2>1. OneCall(c).calls = <<CallFor(c)>> /\ CallFor(c).command = c /\ CallFor(c).op \in {"cancel", "submit"}
    BY DEF OneCall, CallFor
  <2>2. DOMAIN OneCall(c).calls = {1} /\ OneCall(c).calls[1] = CallFor(c)
    BY <2>1
  <2>3. {j \in DOMAIN OneCall(c).calls : OneCall(c).calls[j].op \notin {"reserve", "clear"}} = {1}
    BY <2>1, <2>2
  <2>4. {OneCall(c).calls[i] : i \in {j \in DOMAIN OneCall(c).calls :
           OneCall(c).calls[j].op \notin {"reserve", "clear"}}} = {CallFor(c)}
    BY <2>2, <2>3
  <2> QED BY <2>1, <2>4
<1>3. D!Commands = UNION {Of(q) : q \in All} /\ Sequential!Commands = UNION {Of(q) : q \in All}
  BY DEF D!Commands, Sequential!Commands
<1> HIDE DEF Of
<1>4. UNION {Of(q) : q \in All} = Commands
  <2>1. ASSUME NEW q \in All PROVE Of(q) \subseteq Commands
    BY <1>1, <1>2
  <2>2. \A c \in Commands : OneCall(c) \in All /\ c \in Of(OneCall(c))
    BY <1>2
  <2> QED BY <2>1, <2>2
<1>5. D!Commands = Commands /\ Sequential!Commands = Commands
  BY <1>3, <1>4
<1> QED BY <1>5 DEF D!OrderIds, D!InputPrices, D!InputQtys, OrderIds, InputPrices, InputQtys,
       Sequential!OrderIds, Sequential!InputPrices, Sequential!InputQtys

\* so the assumptions hold,
LEMMA DriversAre == D!DriversAssumption
<1>1. D!Book!ClobAssumption
  BY PipelineAssumption, SameCommands DEF Book!ClobAssumption, D!Book!ClobAssumption, Book!Idx, D!Book!Idx,
     Book!Qtys, D!Book!Qtys
<1>2. \A command \in D!Commands : command.side \in D!Book!Sides
  BY PipelineAssumption, SameCommands DEF Book!Sides, D!Book!Sides
<1>3. ASSUME NEW p \in {Unthreaded(q) : q \in Programs} \cup {OneCall(c) : c \in Commands}
      PROVE  p.calls \in Seq({p.calls[i] : i \in DOMAIN p.calls})
  <2>1. CASE p \in {OneCall(c) : c \in Commands}
    <3>1. PICK c \in Commands : p.calls = <<CallFor(c)>>
      BY <2>1 DEF OneCall
    <3>2. p.calls[1] = CallFor(c) /\ DOMAIN p.calls = 1..1
      BY <3>1
    <3>3. CallFor(c) \in {p.calls[i] : i \in DOMAIN p.calls}
      BY <3>2
    <3> QED BY <3>1, <3>3
  <2>2. CASE p \in {Unthreaded(q) : q \in Programs}
    <3>1. PICK q \in Programs : p = Unthreaded(q)
      BY <2>2
    <3>2. CASE ~q.applies
      <4>1. p.calls = <<>>
        BY <3>1, <3>2, CallsOf
      <4> QED BY <4>1
    <3>3. CASE q.applies
      <4>1. DOMAIN p.calls = 1..Len(q.items) /\ Len(q.items) \in Nat
        BY <3>1, <3>3, CallsOf
      <4>2. p.calls = [i \in 1..Len(q.items) |-> CallFor(CommandIn(q, q.items[i]))]
        BY <3>1, <3>3, CallsOf DEF Unthreaded
      <4>3. PICK f : f = p.calls
        OBVIOUS
      <4>4. f \in [1..Len(q.items) -> {f[i] : i \in DOMAIN f}]
        BY <4>1, <4>2, <4>3
      <4>5. f \in Seq({f[i] : i \in DOMAIN f})
        BY <4>1, <4>4
      <4> QED BY <4>3, <4>5
    <3> QED BY <3>2, <3>3
  <2> QED BY <2>1, <2>2
<1> QED BY <1>1, <1>2, <1>3 DEF D!DriversAssumption

\* Cardinalities are the same through every instance.
LEMMA SameCardinality ==
  \A S : /\ Book!Cardinality(S) = Sequential!Book!Cardinality(S)
         /\ Sequential!Book!Cardinality(S) = D!Book!Cardinality(S)
BY DEF Book!Cardinality, Sequential!Book!Cardinality, D!Book!Cardinality

\* The helpers and the steps of the book are the same through Sequential,
LEMMA SequentialHelpers ==
  /\ Book!Idx = Sequential!Book!Idx /\ Book!Prices = Sequential!Book!Prices
  /\ Book!Sides = Sequential!Book!Sides /\ Book!Qtys = Sequential!Book!Qtys
  /\ \A s : Book!Opposite(s) = Sequential!Book!Opposite(s)
  /\ \A p : Book!ValidPrice(p) <=> Sequential!Book!ValidPrice(p)
  /\ \A id : Book!Contains(id) <=> Sequential!Book!Contains(id)
  /\ Book!IndexFull <=> Sequential!Book!IndexFull
  /\ \A s, p : Book!Crosses(s, p) <=> Sequential!Book!Crosses(s, p)
<1>1. /\ Book!Idx = Sequential!Book!Idx /\ Book!Prices = Sequential!Book!Prices
      /\ Book!Sides = Sequential!Book!Sides /\ Book!Qtys = Sequential!Book!Qtys
  BY DEF Book!Idx, Sequential!Book!Idx, Book!Prices, Sequential!Book!Prices, Book!Sides, Sequential!Book!Sides,
    Book!Qtys, Sequential!Book!Qtys
<1>2. \A s : Book!Opposite(s) = Sequential!Book!Opposite(s)
  BY DEF Book!Opposite, Sequential!Book!Opposite
<1>3. \A p : Book!ValidPrice(p) <=> Sequential!Book!ValidPrice(p)
  BY DEF Book!ValidPrice, Sequential!Book!ValidPrice
<1>4. \A id : Book!Contains(id) <=> Sequential!Book!Contains(id)
  BY DEF Book!Contains, Sequential!Book!Contains
<1>5. {id \in OrderIds : Book!Contains(id)} = {id \in OrderIds : Sequential!Book!Contains(id)}
  BY <1>4
<1>6. Book!IndexFull <=> Sequential!Book!IndexFull
  BY <1>5, SameCardinality, SameCommands DEF Book!IndexFull, Sequential!Book!IndexFull
<1>7. \A s, p : Book!Crosses(s, p) <=> Sequential!Book!Crosses(s, p)
  BY <1>2 DEF Book!Crosses, Sequential!Book!Crosses
<1> QED BY <1>1, <1>2, <1>3, <1>4, <1>6, <1>7

LEMMA SequentialRemove == ASSUME NEW idx PROVE Book!RemoveOrder(idx) <=> Sequential!Book!RemoveOrder(idx)
BY DEF Book!RemoveOrder, Sequential!Book!RemoveOrder, Book!LevelWithout, Sequential!Book!LevelWithout,
  Book!Less, Sequential!Book!Less, Book!Unlinked, Sequential!Book!Unlinked,
  Book!Idx, Sequential!Book!Idx, Book!Erased, Sequential!Book!Erased, Book!Released, Sequential!Book!Released,
  Book!RefreshedBest, Sequential!Book!RefreshedBest,
  Book!Prices, Sequential!Book!Prices, Book!Improves, Sequential!Book!Improves

LEMMA SequentialRest == ASSUME NEW id, NEW side, NEW price, NEW qty
  PROVE Book!Rest(id, side, price, qty) <=> Sequential!Book!Rest(id, side, price, qty)
<1>1. Book!Place(id, side, price, qty) <=> Sequential!Book!Place(id, side, price, qty)
BY DEF Book!Place, Sequential!Book!Place, Book!Allocated, Sequential!Book!Allocated, Book!Top,
  Sequential!Book!Top, Book!Appended, Sequential!Book!Appended, Book!Last, Sequential!Book!Last,
  Book!Idx, Sequential!Book!Idx, Book!LevelWith, Sequential!Book!LevelWith, Book!BestAfterAdd,
  Sequential!Book!BestAfterAdd, Book!Improves, Sequential!Book!Improves
<1> QED BY <1>1, SequentialHelpers DEF Book!Rest, Sequential!Book!Rest, Book!store, Sequential!Book!store

LEMMA SequentialSteps ==
  /\ Book!Init => Sequential!Book!Init
  /\ \A id, side, price, qty :
       /\ Book!SubmitLimitOrder(id, side, price, qty) => Sequential!Book!SubmitLimitOrder(id, side, price, qty)
       /\ Book!AddOrder(id, side, price, qty) => Sequential!Book!AddOrder(id, side, price, qty)
  /\ \A id : Book!CancelOrder(id) => Sequential!Book!CancelOrder(id)
  /\ Book!EnterLevel => Sequential!Book!EnterLevel
  /\ Book!LeaveLevel => Sequential!Book!LeaveLevel
  /\ Book!FillIncoming => Sequential!Book!FillIncoming
  /\ Book!FillResting => Sequential!Book!FillResting
  /\ Book!FinishSubmit => Sequential!Book!FinishSubmit
<1>1. Book!Init => Sequential!Book!Init
  BY SameCommands DEF Book!Init, Sequential!Book!Init, Book!Idx, Sequential!Book!Idx, Book!DefaultOrder,
    Sequential!Book!DefaultOrder, Book!Sides, Sequential!Book!Sides, Book!Prices, Sequential!Book!Prices,
     Book!EmptyLevel, Sequential!Book!EmptyLevel, Book!NoCall, Sequential!Book!NoCall
<1>2. ASSUME NEW id, NEW side, NEW price, NEW qty
      PROVE  /\ Book!SubmitLimitOrder(id, side, price, qty) => Sequential!Book!SubmitLimitOrder(id, side, price, qty)
             /\ Book!AddOrder(id, side, price, qty) => Sequential!Book!AddOrder(id, side, price, qty)
  BY SequentialHelpers, SequentialRest DEF Book!SubmitLimitOrder, Sequential!Book!SubmitLimitOrder,
    Book!AddOrder, Sequential!Book!AddOrder
<1>3. ASSUME NEW id PROVE Book!CancelOrder(id) => Sequential!Book!CancelOrder(id)
  BY SequentialHelpers, SequentialRemove DEF Book!CancelOrder, Sequential!Book!CancelOrder, Book!store,
    Sequential!Book!store
<1>4. Book!EnterLevel => Sequential!Book!EnterLevel
  BY SequentialHelpers DEF Book!EnterLevel, Sequential!Book!EnterLevel
<1>5. Book!WorkLevel = Sequential!Book!WorkLevel /\ Book!Maker = Sequential!Book!Maker /\ (Book!AtLevel <=>
        Sequential!Book!AtLevel)
  BY SequentialHelpers DEF Book!WorkLevel, Sequential!Book!WorkLevel, Book!Maker, Sequential!Book!Maker,
    Book!AtLevel, Sequential!Book!AtLevel
<1>6. Book!LeaveLevel => Sequential!Book!LeaveLevel
  BY SequentialHelpers, <1>5 DEF Book!LeaveLevel, Sequential!Book!LeaveLevel
<1>7. \A q : Book!Execution(q) = Sequential!Book!Execution(q)
  BY <1>5 DEF Book!Execution, Sequential!Book!Execution
<1>8. \A t, q : Book!Less(t, q) = Sequential!Book!Less(t, q)
  BY DEF Book!Less, Sequential!Book!Less
<1>9. Book!FillIncoming => Sequential!Book!FillIncoming
  BY SequentialHelpers, <1>5, <1>7, <1>8 DEF Book!FillIncoming, Sequential!Book!FillIncoming
<1>10. Book!FillResting => Sequential!Book!FillResting
  BY SequentialHelpers, SequentialRemove, <1>5, <1>7, <1>8 DEF Book!FillResting, Sequential!Book!FillResting
<1>11. Book!FinishSubmit => Sequential!Book!FinishSubmit
  BY SequentialHelpers, SequentialRest DEF Book!FinishSubmit, Sequential!Book!FinishSubmit, Book!store,
    Sequential!Book!store, Book!NoCall, Sequential!Book!NoCall
<1> QED BY <1>1, <1>2, <1>3, <1>4, <1>6, <1>9, <1>10, <1>11
\* and through the proofs.
LEMMA ProvedHelpers ==
  /\ Sequential!Book!Idx = D!Book!Idx /\ Sequential!Book!Prices = D!Book!Prices
  /\ Sequential!Book!Sides = D!Book!Sides /\ Sequential!Book!Qtys = D!Book!Qtys
  /\ \A s : Sequential!Book!Opposite(s) = D!Book!Opposite(s)
  /\ \A p : Sequential!Book!ValidPrice(p) <=> D!Book!ValidPrice(p)
  /\ \A id : Sequential!Book!Contains(id) <=> D!Book!Contains(id)
  /\ Sequential!Book!IndexFull <=> D!Book!IndexFull
  /\ \A s, p : Sequential!Book!Crosses(s, p) <=> D!Book!Crosses(s, p)
<1>1. /\ Sequential!Book!Idx = D!Book!Idx /\ Sequential!Book!Prices = D!Book!Prices
      /\ Sequential!Book!Sides = D!Book!Sides /\ Sequential!Book!Qtys = D!Book!Qtys
  BY DEF Sequential!Book!Idx, D!Book!Idx, Sequential!Book!Prices, D!Book!Prices, Sequential!Book!Sides,
    D!Book!Sides, Sequential!Book!Qtys, D!Book!Qtys
<1>2. \A s : Sequential!Book!Opposite(s) = D!Book!Opposite(s)
  BY DEF Sequential!Book!Opposite, D!Book!Opposite
<1>3. \A p : Sequential!Book!ValidPrice(p) <=> D!Book!ValidPrice(p)
  BY DEF Sequential!Book!ValidPrice, D!Book!ValidPrice
<1>4. \A id : Sequential!Book!Contains(id) <=> D!Book!Contains(id)
  BY DEF Sequential!Book!Contains, D!Book!Contains
<1>5. {id \in OrderIds : Sequential!Book!Contains(id)} = {id \in OrderIds : D!Book!Contains(id)}
  BY <1>4
<1>6. Sequential!Book!IndexFull <=> D!Book!IndexFull
  BY <1>5, SameCardinality, SameCommands DEF Sequential!Book!IndexFull, D!Book!IndexFull
<1>7. \A s, p : Sequential!Book!Crosses(s, p) <=> D!Book!Crosses(s, p)
  BY <1>2 DEF Sequential!Book!Crosses, D!Book!Crosses
<1> QED BY <1>1, <1>2, <1>3, <1>4, <1>6, <1>7

LEMMA ProvedRemove == ASSUME NEW idx PROVE Sequential!Book!RemoveOrder(idx) <=> D!Book!RemoveOrder(idx)
BY DEF Sequential!Book!RemoveOrder, D!Book!RemoveOrder, Sequential!Book!LevelWithout, D!Book!LevelWithout,
  Sequential!Book!Less, D!Book!Less, Sequential!Book!Unlinked, D!Book!Unlinked,
  Sequential!Book!Idx, D!Book!Idx, Sequential!Book!Erased, D!Book!Erased, Sequential!Book!Released,
  D!Book!Released, Sequential!Book!RefreshedBest, D!Book!RefreshedBest,
  Sequential!Book!Prices, D!Book!Prices, Sequential!Book!Improves, D!Book!Improves

LEMMA ProvedRest == ASSUME NEW id, NEW side, NEW price, NEW qty
  PROVE Sequential!Book!Rest(id, side, price, qty) <=> D!Book!Rest(id, side, price, qty)
<1>1. Sequential!Book!Place(id, side, price, qty) <=> D!Book!Place(id, side, price, qty)
BY DEF Sequential!Book!Place, D!Book!Place, Sequential!Book!Allocated, D!Book!Allocated, Sequential!Book!Top,
  D!Book!Top, Sequential!Book!Appended, D!Book!Appended, Sequential!Book!Last, D!Book!Last,
  Sequential!Book!Idx, D!Book!Idx, Sequential!Book!LevelWith, D!Book!LevelWith, Sequential!Book!BestAfterAdd,
  D!Book!BestAfterAdd, Sequential!Book!Improves, D!Book!Improves
<1> QED BY <1>1, ProvedHelpers DEF Sequential!Book!Rest, D!Book!Rest, Sequential!Book!store, D!Book!store

LEMMA ProvedSteps ==
  /\ Sequential!Book!Init => D!Book!Init
  /\ \A id, side, price, qty :
       /\ Sequential!Book!SubmitLimitOrder(id, side, price, qty) => D!Book!SubmitLimitOrder(id, side, price, qty)
       /\ Sequential!Book!AddOrder(id, side, price, qty) => D!Book!AddOrder(id, side, price, qty)
  /\ \A id : Sequential!Book!CancelOrder(id) => D!Book!CancelOrder(id)
  /\ Sequential!Book!EnterLevel => D!Book!EnterLevel
  /\ Sequential!Book!LeaveLevel => D!Book!LeaveLevel
  /\ Sequential!Book!FillIncoming => D!Book!FillIncoming
  /\ Sequential!Book!FillResting => D!Book!FillResting
  /\ Sequential!Book!FinishSubmit => D!Book!FinishSubmit
<1>1. Sequential!Book!Init => D!Book!Init
  BY SameCommands DEF Sequential!Book!Init, D!Book!Init, Sequential!Book!Idx, D!Book!Idx,
    Sequential!Book!DefaultOrder, D!Book!DefaultOrder, Sequential!Book!Sides, D!Book!Sides,
    Sequential!Book!Prices, D!Book!Prices,
     Sequential!Book!EmptyLevel, D!Book!EmptyLevel, Sequential!Book!NoCall, D!Book!NoCall
<1>2. ASSUME NEW id, NEW side, NEW price, NEW qty
      PROVE  /\ Sequential!Book!SubmitLimitOrder(id, side, price, qty) => D!Book!SubmitLimitOrder(id, side, price, qty)
             /\ Sequential!Book!AddOrder(id, side, price, qty) => D!Book!AddOrder(id, side, price, qty)
  BY ProvedHelpers, ProvedRest DEF Sequential!Book!SubmitLimitOrder, D!Book!SubmitLimitOrder,
    Sequential!Book!AddOrder, D!Book!AddOrder
<1>3. ASSUME NEW id PROVE Sequential!Book!CancelOrder(id) => D!Book!CancelOrder(id)
  BY ProvedHelpers, ProvedRemove DEF Sequential!Book!CancelOrder, D!Book!CancelOrder, Sequential!Book!store,
    D!Book!store
<1>4. Sequential!Book!EnterLevel => D!Book!EnterLevel
  BY ProvedHelpers DEF Sequential!Book!EnterLevel, D!Book!EnterLevel
<1>5. Sequential!Book!WorkLevel = D!Book!WorkLevel /\ Sequential!Book!Maker = D!Book!Maker /\
        (Sequential!Book!AtLevel <=> D!Book!AtLevel)
  BY ProvedHelpers DEF Sequential!Book!WorkLevel, D!Book!WorkLevel, Sequential!Book!Maker, D!Book!Maker,
    Sequential!Book!AtLevel, D!Book!AtLevel
<1>6. Sequential!Book!LeaveLevel => D!Book!LeaveLevel
  BY ProvedHelpers, <1>5 DEF Sequential!Book!LeaveLevel, D!Book!LeaveLevel
<1>7. \A q : Sequential!Book!Execution(q) = D!Book!Execution(q)
  BY <1>5 DEF Sequential!Book!Execution, D!Book!Execution
<1>8. \A t, q : Sequential!Book!Less(t, q) = D!Book!Less(t, q)
  BY DEF Sequential!Book!Less, D!Book!Less
<1>9. Sequential!Book!FillIncoming => D!Book!FillIncoming
  BY ProvedHelpers, <1>5, <1>7, <1>8 DEF Sequential!Book!FillIncoming, D!Book!FillIncoming
<1>10. Sequential!Book!FillResting => D!Book!FillResting
  BY ProvedHelpers, ProvedRemove, <1>5, <1>7, <1>8 DEF Sequential!Book!FillResting, D!Book!FillResting
<1>11. Sequential!Book!FinishSubmit => D!Book!FinishSubmit
  BY ProvedHelpers, ProvedRest DEF Sequential!Book!FinishSubmit, D!Book!FinishSubmit, Sequential!Book!store,
    D!Book!store, Sequential!Book!NoCall, D!Book!NoCall
<1> QED BY <1>1, <1>2, <1>3, <1>4, <1>6, <1>9, <1>10, <1>11

\* The consumer's next item is the next call, in progress only if it submits.
NextIs(item) ==
  /\ processed < Len(Unthreaded(program).calls)
  /\ Unthreaded(program).calls[processed + 1] = CallFor(CommandOf(item))
InProgress == pc # "idle" => CommandOf(Head(inbox)).type = "AddLimit"

LEMMA NextItem ==
  ASSUME Inv, inbox # <<>>, program.applies
  PROVE  NextIs(Head(inbox))
<1>1. /\ inbox \in Seq(Items) /\ Len(inbox) \in Nat \ {0} /\ Len(InRing) \in Nat
      /\ processed \in Nat /\ program \in Programs /\ pushed <= Len(items) /\ pushed \in Nat
      /\ processed + Len(inbox) + Len(InRing) = pushed
      /\ \A i \in 1..Len(inbox) : inbox[i] = items[processed + i]
  BY EmptySeq DEF Inv, Account, items, N
<1>2. /\ Len(items) \in Nat /\ Len(Unthreaded(program).calls) = Len(items)
      /\ \A i \in 1..Len(items) : Unthreaded(program).calls[i] = CallFor(CommandIn(program, items[i]))
  BY <1>1, CallsOf DEF items
<1>3. processed + 1 \in 1..Len(items) /\ 1 \in 1..Len(inbox) /\ processed < Len(items)
  BY <1>1, <1>2
<1>4. Head(inbox) = inbox[1]
  BY <1>1
<1>5. Head(inbox) = items[processed + 1]
  BY <1>1, <1>3, <1>4
<1> QED BY <1>2, <1>3, <1>5 DEF NextIs, CommandOf

LEMMA StillInProgress == Inv /\ InProgress /\ [Next]_vars => InProgress'
<1> SUFFICES ASSUME Inv, InProgress, [Next]_vars, pc' # "idle" PROVE CommandOf(Head(inbox))'.type = "AddLimit"
  BY DEF InProgress
<1>1. program' = program
  BY DEF Next, vars, Start, Join, Finished, CallPush, WriteSlot, ReturnPush, CallPop, ReadSlot, ReturnPop,
     ApplyAddLimit, ApplyCancel, Match, Discard
<1>2. CASE ApplyAddLimit
  <2>1. CommandOf(Head(inbox)).type = "AddLimit" /\ inbox' = inbox
    BY <1>2 DEF ApplyAddLimit, ReadyToApply
  <2> QED BY <1>1, <2>1 DEF CommandOf
<1>3. CASE Match
  <2>1. inbox' = inbox
    BY <1>3 DEF Match
  <2>2. pc # "idle"
    BY <1>3 DEF Match, Book!Matching, Book!EnterLevel, Book!FillIncoming, Book!FillResting, Book!AtLevel,
       Book!LeaveLevel, Book!FinishSubmit
  <2> QED BY <1>1, <2>1, <2>2 DEF CommandOf, InProgress
<1>4. CASE ApplyCancel
  <2>1. pc' = "idle"
    BY <1>4 DEF ApplyCancel, Book!CancelOrder
  <2> QED BY <2>1
<1>5. CASE ~(ApplyAddLimit \/ ApplyCancel \/ Match)
  <2>1. pc' = pc
    BY <1>5 DEF Next, vars, bookvars, Start, Join, Finished, CallPush, WriteSlot, ReturnPush, CallPop, ReadSlot,
       ReturnPop, Discard
  <2>2. inbox # <<>> /\ program.applies /\ want = 0
    BY <2>1 DEF Inv
  <2>3. ~Discard /\ ~ReturnPop
    BY <2>2 DEF Discard, ReturnPop, Ring!Release, Ring!Complete
  <2>4. inbox' = inbox
    BY <1>5, <2>3 DEF Next, vars, results, Start, Join, Finished, CallPush, WriteSlot, ReturnPush, CallPop, ReadSlot
  <2> QED BY <1>1, <2>1, <2>4 DEF CommandOf, InProgress
<1> QED BY <1>2, <1>3, <1>4, <1>5

\* The threads start where the one thread starts.
LEMMA SequentialInit == Init => Sequential!Init
<1> SUFFICES ASSUME Init PROVE Sequential!Init
  OBVIOUS
<1>1. Sequential!Book!Init
  BY SequentialSteps DEF Init
<1>2. /\ Unthreaded(program) \in {Unthreaded(p) : p \in Programs} \cup {OneCall(c) : c \in Commands}
      /\ (IF program.applies THEN processed ELSE 0) = 0 /\ refused = FALSE
  BY DEF Init
<1>3. buffer = Unthreaded(program).sink
  BY DEF Init, Unthreaded
<1> QED BY <1>1, <1>2, <1>3 DEF Sequential!Init

\* The consumer's calls of the book are the calls of the one thread, and nothing else
\* touches the book or the buffer.
LEMMA SequentialNext == Inv /\ InProgress /\ [Next]_vars => [Sequential!Next]_(Sequential!vars)
<1> SUFFICES ASSUME Inv, InProgress, [Next]_vars PROVE [Sequential!Next]_(Sequential!vars)
  OBVIOUS
<1> DEFINE p == Unthreaded(program)
           made == IF program.applies THEN processed ELSE 0
<1>1. program' = program /\ p' = p
  BY DEF Next, vars, Start, Join, Finished, CallPush, WriteSlot, ReturnPush, CallPop, ReadSlot, ReturnPop,
     ApplyAddLimit, ApplyCancel, Match, Discard
<1>2. ASSUME inbox # <<>>, program.applies
      PROVE  /\ made = processed /\ made' = processed' /\ made < Len(p.calls)
             /\ p.calls[made + 1] = CallFor(CommandOf(Head(inbox)))
  BY <1>1, <1>2, NextItem DEF NextIs
<1>3. Sequential!NextCall = p.calls[made + 1]
  BY DEF Sequential!NextCall
<1>4. ASSUME Returned PROVE program.applies => Sequential!Returned
  <2>1. processed' = processed + 1 /\ refused' = (refused \/ ~ret')
    BY <1>4 DEF Returned, Applied
  <2> QED BY <1>1, <2>1 DEF Sequential!Returned
<1>5. CASE ApplyAddLimit
  <2>1. PICK c : c = CommandOf(Head(inbox))
    OBVIOUS
  <2>2. /\ program.applies /\ inbox # <<>> /\ pc = "idle" /\ c.type = "AddLimit"
        /\ Book!SubmitLimitOrder(c.order_id, c.side, c.price, c.qty)
        /\ IF pc' = "idle" THEN Returned ELSE UNCHANGED <<inbox, processed, refused>>
        /\ buffer' = buffer
    BY <1>5, <2>1 DEF ApplyAddLimit, ReadyToApply
  <2>3. Sequential!NextCall.op = "submit" /\ Sequential!NextCall.command = c /\ made < Len(p.calls)
    BY <1>2, <1>3, <2>1, <2>2 DEF CallFor
  <2>4. Sequential!Book!SubmitLimitOrder(c.order_id, c.side, c.price, c.qty)
    BY <2>2, SequentialSteps
  <2>5. IF pc' = "idle" THEN Sequential!Returned ELSE UNCHANGED <<made, refused>>
    BY <1>1, <1>4, <2>2
  <2>6. Sequential!AtCall({"submit", "preload"})
    BY <2>2, <2>3 DEF Sequential!AtCall
  <2>7. Sequential!SubmitCall
    BY <1>1, <2>2, <2>3, <2>4, <2>5, <2>6 DEF Sequential!SubmitCall
  <2> QED BY <2>7 DEF Sequential!Next
<1>6. CASE ApplyCancel
  <2>1. PICK c : c = CommandOf(Head(inbox))
    OBVIOUS
  <2>2. /\ program.applies /\ inbox # <<>> /\ pc = "idle" /\ c.type = "Cancel"
        /\ Book!CancelOrder(c.order_id) /\ Returned /\ buffer' = buffer
    BY <1>6, <2>1 DEF ApplyCancel, ReadyToApply
  <2>3. Sequential!NextCall.op = "cancel" /\ Sequential!NextCall.command = c /\ made < Len(p.calls)
    BY <1>2, <1>3, <2>1, <2>2 DEF CallFor
  <2>4. Sequential!Book!CancelOrder(c.order_id)
    BY <2>2, SequentialSteps
  <2>5. Sequential!AtCall({"cancel"})
    BY <2>2, <2>3 DEF Sequential!AtCall
  <2>6. Sequential!CancelCall
    BY <1>1, <1>4, <2>2, <2>3, <2>4, <2>5 DEF Sequential!CancelCall
  <2> QED BY <2>6 DEF Sequential!Next
<1>7. CASE Match
  <2>1. /\ Book!Matching
        /\ IF pc' = "idle" THEN Returned ELSE UNCHANGED <<inbox, processed, refused>>
        /\ buffer' = IF Len(executions') > Len(executions)
                     THEN EmplaceBack(buffer, executions'[Len(executions')]) ELSE buffer
    BY <1>7 DEF Match
  <2>2. pc # "idle"
    BY <2>1 DEF Book!Matching, Book!EnterLevel, Book!FillIncoming, Book!FillResting, Book!AtLevel,
       Book!LeaveLevel, Book!FinishSubmit
  <2>3. inbox # <<>> /\ program.applies /\ CommandOf(Head(inbox)).type = "AddLimit"
    BY <2>2 DEF Inv, InProgress
  <2>4. Sequential!NextCall.op = "submit"
    BY <1>2, <1>3, <2>3 DEF CallFor
  <2>5. Sequential!Book!Matching
    BY <2>1, SequentialSteps DEF Book!Matching, Sequential!Book!Matching
  <2>6. IF pc' = "idle" THEN Sequential!Returned ELSE UNCHANGED <<made, refused>>
    BY <1>1, <1>4, <2>1, <2>3
  <2>7. \A s, x : EmplaceBack(s, x) = Sequential!EmplaceBack(s, x)
    BY DEF EmplaceBack, Sequential!EmplaceBack
  <2>8. Sequential!MatchStep
    BY <1>1, <2>1, <2>4, <2>5, <2>6, <2>7 DEF Sequential!MatchStep
  <2> QED BY <2>8 DEF Sequential!Next
<1>8. CASE ~(ApplyAddLimit \/ ApplyCancel \/ Match)
  <2>1. UNCHANGED <<bookvars, buffer, refused>> /\ (program.applies => processed' = processed)
    BY <1>8 DEF Next, vars, results, Start, Join, Finished, CallPush, WriteSlot, ReturnPush, CallPop, ReadSlot,
       ReturnPop, Discard
  <2>2. made' = made
    BY <1>1, <2>1
  <2> QED BY <1>1, <2>1, <2>2 DEF Sequential!vars, Sequential!bookvars, bookvars
<1> QED BY <1>5, <1>6, <1>7, <1>8

\* Threads, ring and batches notwithstanding, the pipeline is a program of one thread.
THEOREM PipelineIsSequential == Spec => ImplementsDrivers
<1>1. Init => InProgress
  BY DEF Init, Book!Init, InProgress
<1> QED BY <1>1, SequentialInit, SequentialNext, StillInProgress, Invariance, PTL
        DEF Spec, ImplementsDrivers, Sequential!Spec
------------------------------------------------------------------------------
(* The benchmarks of the pipeline end as their authors intend              *)

\* A step of Sequential is one of the programs proved about.
LEMMA ProvedInit == Sequential!Init => D!Init
BY ProvedSteps DEF Sequential!Init, D!Init

LEMMA ProvedNext == [Sequential!Next]_(Sequential!vars) => [D!Next]_(D!vars)
<1> SUFFICES ASSUME [Sequential!Next]_(Sequential!vars) PROVE [D!Next]_(D!vars)
  OBVIOUS
<1>1. Sequential!NextCall = D!NextCall
  BY DEF Sequential!NextCall, D!NextCall
<1>2. \A ops : Sequential!AtCall(ops) <=> D!AtCall(ops)
  BY <1>1 DEF Sequential!AtCall, D!AtCall
<1>3. Sequential!Returned <=> D!Returned
  BY DEF Sequential!Returned, D!Returned
<1>4. CASE Sequential!SubmitCall
  <2>1. D!SubmitCall
    BY <1>1, <1>2, <1>3, <1>4, ProvedSteps DEF Sequential!SubmitCall, D!SubmitCall
  <2> QED BY <2>1 DEF D!Next
<1>5. CASE Sequential!MatchStep
  <2>1. \A s, x : Sequential!EmplaceBack(s, x) = D!EmplaceBack(s, x)
    BY DEF Sequential!EmplaceBack, D!EmplaceBack
  <2>2. Sequential!Book!Matching => D!Book!Matching
    BY ProvedSteps DEF Sequential!Book!Matching, D!Book!Matching
  <2>3. D!MatchStep
    BY <1>1, <1>3, <1>5, <2>1, <2>2 DEF Sequential!MatchStep, D!MatchStep
  <2> QED BY <2>3 DEF D!Next
<1>6. CASE Sequential!AddCall
  <2>1. D!AddCall
    BY <1>1, <1>2, <1>3, <1>6, ProvedSteps DEF Sequential!AddCall, D!AddCall
  <2> QED BY <2>1 DEF D!Next
<1>7. CASE Sequential!CancelCall
  <2>1. D!CancelCall
    BY <1>1, <1>2, <1>3, <1>7, ProvedSteps DEF Sequential!CancelCall, D!CancelCall
  <2> QED BY <2>1 DEF D!Next
<1>8. CASE Sequential!ReserveCall
  <2>1. \A s, n : Sequential!Reserve(s, n) = D!Reserve(s, n)
    BY DEF Sequential!Reserve, D!Reserve, Sequential!Execution0, D!Execution0
  <2>2. D!ReserveCall
    BY <1>1, <1>2, <1>8, <2>1 DEF Sequential!ReserveCall, D!ReserveCall, Sequential!bookvars, D!bookvars
  <2> QED BY <2>2 DEF D!Next
<1>9. CASE Sequential!ClearCall
  <2>1. \A s : Sequential!Clear(s) = D!Clear(s)
    BY DEF Sequential!Clear, D!Clear
  <2>2. D!ClearCall
    BY <1>1, <1>2, <1>9, <2>1 DEF Sequential!ClearCall, D!ClearCall, Sequential!bookvars, D!bookvars
  <2> QED BY <2>2 DEF D!Next
<1>10. CASE Sequential!Finished \/ UNCHANGED Sequential!vars
  BY <1>10 DEF Sequential!Finished, Sequential!vars, D!vars, Sequential!bookvars, D!bookvars
<1> QED BY <1>4, <1>5, <1>6, <1>7, <1>8, <1>9, <1>10 DEF Sequential!Next

\* So a pipeline keeps to the plan its program has.
LEMMA PlanKept ==
  /\ Init => D!PlanInv
  /\ Inv /\ InProgress /\ D!PlanInv /\ [Next]_vars => D!PlanInv'
  /\ D!PlanInv /\ D!Planned(Unthreaded(program)) => D!SinkFits /\ D!EndsAsChecked
<1>1. Init => D!PlanInv
  BY SequentialInit, ProvedInit, D!PlanInit, DriversAre
<1>2. Inv /\ InProgress /\ D!PlanInv /\ [Next]_vars => D!PlanInv'
  BY SequentialNext, ProvedNext, D!PlanNext, DriversAre
<1>3. D!PlanInv /\ D!Planned(Unthreaded(program)) => D!SinkFits /\ D!EndsAsChecked
  BY D!PlanChecked, DriversAre
<1> QED BY <1>1, <1>2, <1>3

\* What the plan's end means for the pipeline.
LEMMA PlanEnds ==
  ASSUME Inv, JoinedAtEnd, D!SinkFits, D!EndsAsChecked
  PROVE  BufferFits /\ NothingRefused /\ RunsExact
<1>1. BufferFits /\ NothingRefused
  BY DEF D!SinkFits, D!EndsAsChecked, D!InBounds, BufferFits, InBounds, NothingRefused
<1>2. ASSUME joined
      PROVE  Contents(buffer) = program.executions /\ MaxOrders - Len(free_stack) = program.resting
  <2>1. (IF program.applies THEN processed ELSE 0) = Len(Unthreaded(program).calls)
    <3>1. program \in Programs /\ processed = N
      BY <1>2 DEF Inv, Account, JoinedAtEnd
    <3>2. CASE program.applies
      BY <3>1, <3>2, CallsOf DEF N
    <3>3. CASE ~program.applies
      <4>1. Unthreaded(program).calls = <<>>
        BY <3>1, <3>3, CallsOf
      <4> QED BY <3>3, <4>1
    <3> QED BY <3>2, <3>3
  <2>2. D!Contents(buffer) = Unthreaded(program).executions /\ D!Book!active_orders = Unthreaded(program).resting
    BY <2>1 DEF D!EndsAsChecked
  <2>3. D!Contents(buffer) = Contents(buffer)
    BY DEF D!Contents, Contents, D!InBounds, InBounds
  <2> QED BY <2>2, <2>3 DEF Unthreaded, D!Book!active_orders
<1> QED BY <1>1, <1>2 DEF RunsExact
------------------------------------------------------------------------------
(* The benchmarks have plans                                               *)

\* Every price a program sends is in the range of the book.
Fits(p) == \A i \in DOMAIN p.commands : p.commands[i].price \in Book!Prices

\* The programs of the benchmarks, for any number of orders the book has room for and any
\* batch; the book must hold the prices of those that are applied to it.
Benchmark(p) ==
  \E n \in 1..MaxOrders, most \in Nat \ {0} :
    \/ Fits(p) /\ p \in AddOnlyBenchmarks(n) \cup FullMatchBenchmarks(n, most)
    \/ p \in QueueBenchmarks(n, most)

\* Their commands are those of the single-threaded programs.
LEMMA SameWorkload ==
  /\ \A n : D!make_add_only_commands(n) = make_add_only_commands(n)
  /\ \A n : D!make_full_match_commands(n) = make_full_match_commands(n)
  /\ \A n : D!Matched(n) = [i \in 1..n |-> Trade(n + i, i, FullMatchPrice, OrderQty(i))]
<1>1. \A i : /\ D!RestingAsk(i) = RestingAsk(i) /\ D!NonCrossingBuy(i) = NonCrossingBuy(i)
             /\ D!OrderQty(i) = OrderQty(i) /\ D!FullMatchPrice = FullMatchPrice
  BY DEF D!RestingAsk, RestingAsk, D!NonCrossingBuy, NonCrossingBuy, D!AddLimit, AddLimit, D!OrderQty, OrderQty,
     D!LevelOffset, LevelOffset, D!base_ask, base_ask, D!base_bid, base_bid, D!FullMatchPrice, FullMatchPrice
<1>2. \A n : D!make_add_only_commands(n) = make_add_only_commands(n)
  BY <1>1 DEF D!make_add_only_commands, make_add_only_commands
<1>3. \A n : D!make_full_match_commands(n) = make_full_match_commands(n)
  BY <1>1 DEF D!make_full_match_commands, make_full_match_commands, D!BuyId, BuyId, D!BuyQty, BuyQty,
     D!AddLimit, AddLimit
<1>4. \A n : D!Matched(n) = [i \in 1..n |-> Trade(n + i, i, FullMatchPrice, OrderQty(i))]
  BY <1>1 DEF D!Matched, D!Trade, Trade
<1> QED BY <1>2, <1>3, <1>4

\* What the operators of PipelinePrograms make.
Sends(p, c, reserved, executed, left) ==
  /\ p.applies /\ p.commands = c /\ p.reserved = reserved /\ p.executions = executed /\ p.resting = left
  /\ \/ ~p.indexed /\ p.items = c
     \/ p.indexed /\ p.items = Positions(c)

LEMMA ProgramFields ==
  ASSUME NEW c, NEW push, NEW pop, NEW n, NEW executed, NEW left
  PROVE  /\ Sends(Ends(Reserving(n, Program(c, push, pop)), executed, left), c, n, executed, left)
         /\ Sends(Ends(Indexed(Reserving(n, Program(c, push, pop))), executed, left), c, n, executed, left)
BY DEF Sends, Ends, Reserving, Program, Indexed

\* The buffer they start with.
LEMMA ReservedSink ==
  ASSUME NEW n \in Nat, NEW s, s = Reserve(Buffer, n)
  PROVE  s \in D!Sinks /\ s.kind = "buffer" /\ s.size = 0 /\ n <= Len(s.data)
<1>1. PICK e : e = <<>>
  OBVIOUS
<1>2. e \in Seq(D!Reports) /\ Len(e) = 0
  BY <1>1
<1>3. Execution0 \in D!Reports
  BY DEF D!Reports, D!Execution0, Execution0
<1>4. PICK f : f = [i \in 1..n |-> IF i <= 0 THEN e[i] ELSE Execution0]
  OBVIOUS
<1>5. f \in Seq(D!Reports) /\ Len(f) = n
  <2>1. \A i \in 1..n : f[i] = Execution0
    BY <1>4
  <2>2. f \in [1..n -> D!Reports]
    BY <1>3, <1>4, <2>1
  <2> QED BY <2>2
<1>6. PICK g : g \in Seq(D!Reports) /\ n <= Len(g) /\ s = [kind |-> "buffer", data |-> g, size |-> 0]
  <2>1. CASE n <= Len(e)
    <3>1. s = [kind |-> "buffer", data |-> e, size |-> 0]
      BY <1>1, <2>1 DEF Reserve, Buffer
    <3> QED BY <1>2, <2>1, <3>1
  <2>2. CASE ~(n <= Len(e))
    <3>1. s = [kind |-> "buffer", data |-> f, size |-> 0]
      BY <1>1, <1>4, <2>2 DEF Reserve, Buffer
    <3> QED BY <1>5, <3>1
  <2> QED BY <2>1, <2>2
<1>7. Len(g) \in Nat /\ 0 <= Len(g)
  BY <1>6
<1> QED BY <1>6, <1>7 DEF D!Sinks, D!Kinds

\* The calls of one thread that applies them.
LEMMA CallsSent ==
  ASSUME NEW p \in Programs, NEW c, NEW m \in Nat, NEW n, NEW executed, NEW left,
         Sends(p, c, n, executed, left), D!Lists(c, m), Fits(p), \A i \in 1..m : c[i].type = "AddLimit"
  PROVE  /\ Unthreaded(p).calls = D!Calls("submit", c) /\ D!Fits(Unthreaded(p))
         /\ Unthreaded(p).sink = Reserve(Buffer, n)
         /\ Unthreaded(p).executions = executed /\ Unthreaded(p).resting = left
<1>1. DOMAIN c = 1..m /\ DOMAIN p.items = 1..m /\ \A i \in 1..m : p.items[i] # Blank
  <2>1. DOMAIN c = 1..m
    BY DEF D!Lists
  <2>2. DOMAIN p.items = 1..m
    BY <2>1 DEF Sends, Positions
  <2>3. \A i \in 1..m : p.items[i] \in Items
    BY <2>2 DEF Items
  <2> QED BY <2>1, <2>2, <2>3, BlankAssumption
<1>2. ASSUME NEW i \in 1..m PROVE CommandIn(p, p.items[i]) = c[i]
  <2>1. CASE ~p.indexed
    BY <1>1, <2>1 DEF CommandIn, Sends
  <2>2. CASE p.indexed
    <3>1. p.items[i] = [index |-> i - 1] /\ p.commands = c
      BY <1>1, <2>2 DEF Sends, Positions
    <3>2. p.items[i].index + 1 = i
      BY <3>1
    <3> QED BY <1>1, <2>2, <3>1, <3>2 DEF CommandIn
  <2> QED BY <2>1, <2>2
<1>3. \A i \in 1..m : CallFor(c[i]) = [op |-> "submit", command |-> c[i]]
  BY DEF CallFor
<1>4. Unthreaded(p).calls = [i \in 1..m |-> [op |-> "submit", command |-> c[i]]]
  <2>1. Unthreaded(p).calls = [i \in 1..m |-> CallFor(CommandIn(p, p.items[i]))]
    BY <1>1 DEF Unthreaded, Sends
  <2> QED BY <1>2, <1>3, <2>1
<1>5. Unthreaded(p).calls = D!Calls("submit", c)
  BY <1>1, <1>4 DEF D!Calls
<1>6. D!Fits(Unthreaded(p))
  <2>1. ASSUME NEW i \in 1..m PROVE c[i].price \in D!Book!Prices
    BY <1>1 DEF Fits, Sends, Book!Prices, D!Book!Prices
  <2> QED BY <1>4, <2>1 DEF D!Fits
<1> QED BY <1>5, <1>6 DEF Unthreaded, Sends

LEMMA AddOnlyPlanned ==
  ASSUME NEW p \in Programs, NEW n \in 1..MaxOrders, p \in AddOnlyBenchmarks(n), Fits(p)
  PROVE  D!Planned(Unthreaded(p))
<1>0. n \in Nat /\ n <= MaxOrders
  BY PipelineAssumption DEF Book!ClobAssumption
<1>1. PICK c, none : c = make_add_only_commands(n) /\ none = <<>>
  OBVIOUS
<1>2. Sends(p, c, n, none, n)
  BY <1>1, ProgramFields, Zenon DEF AddOnlyBenchmarks, Rests, Fast_AddOnly_RawExec
<1>3. D!StayApart(c, n)
  BY <1>0, <1>1, SameWorkload, D!GeneratorsStayApart, DriversAre
<1>4. \A i \in 1..n : c[i].type = "AddLimit"
  BY <1>1 DEF make_add_only_commands, RestingAsk, NonCrossingBuy, AddLimit
<1>5. D!Lists(c, n)
  BY <1>3 DEF D!StayApart
<1>6. PICK q : q = Unthreaded(p)
  OBVIOUS
<1>7. /\ q.calls = D!Calls("submit", c) /\ D!Fits(q) /\ q.sink = Reserve(Buffer, n)
      /\ q.executions = none /\ q.resting = n
  BY <1>0, <1>2, <1>4, <1>5, <1>6, CallsSent, Zenon
<1>8. q.sink \in D!Sinks /\ q.sink.size = 0
  BY <1>0, <1>7, ReservedSink
<1>9. D!Planned(q)
  <2>1. "submit" \in {"add", "submit"} /\ q.executions = <<>>
    BY <1>1, <1>7
  <2> QED BY <1>0, <1>3, <1>7, <1>8, <2>1, D!AddingPlanned, DriversAre
<1> QED BY <1>6, <1>9

LEMMA FullMatchPlanned ==
  ASSUME NEW p \in Programs, NEW n \in 1..MaxOrders, NEW most, p \in FullMatchBenchmarks(n, most), Fits(p)
  PROVE  D!Planned(Unthreaded(p))
<1>0. n \in Nat \ {0}
  BY PipelineAssumption DEF Book!ClobAssumption
<1>1. PICK c, m, x : c = make_full_match_commands(n) /\ m = n + n /\ x = D!Matched(n)
  OBVIOUS
<1>2. Sends(p, c, n, x, 0)
  BY <1>1, SameWorkload, ProgramFields, Zenon
     DEF FullMatchBenchmarks, Matches, Fast_FullMatch_RawExec, Fast_FullMatch_IndexQueue_RawExec,
         FullMatch_BatchPop_RawExec, FullMatch_BatchPop_Pinned_RawExec, FullMatch_BatchPushPop_RawExec, run_profile
<1>3. PICK s, u : D!Joined(c, s, u, n, n) /\ D!FullMatch(s, u, n)
  BY <1>0, <1>1, SameWorkload, D!FullMatchLists, DriversAre
<1>4. D!Lists(c, m) /\ m \in Nat
  BY <1>0, <1>1, <1>3 DEF D!Joined
<1>5. \A i \in 1..m : c[i].type = "AddLimit"
  <2> TAKE i \in 1..m
  <2>0. \A j \in 1..n : s[j].type = "AddLimit" /\ u[j].type = "AddLimit"
    <3> TAKE j \in 1..n
    <3>1. /\ s[j] = D!AddLimit(j, "Sell", D!FullMatchPrice, D!OrderQty(j))
          /\ u[j] = D!AddLimit(n + j, "Buy", D!FullMatchPrice, D!OrderQty(j))
      BY <1>3 DEF D!FullMatch
    <3>2. s[j].type = "AddLimit"
      BY ONLY <3>1 DEF D!AddLimit
    <3>3. u[j].type = "AddLimit"
      BY ONLY <3>1 DEF D!AddLimit
    <3> QED BY <3>2, <3>3
  <2>1. CASE i <= n
    <3>1. c[i] = s[i] /\ i \in 1..n
      BY <1>0, <1>1, <1>3, <2>1 DEF D!Joined
    <3> QED BY <2>0, <3>1
  <2>2. CASE ~(i <= n)
    <3>1. c[i] = u[i - n] /\ i - n \in 1..n
      BY <1>0, <1>1, <1>3, <2>2 DEF D!Joined
    <3> QED BY <2>0, <3>1
  <2> QED BY <2>1, <2>2
<1>6. PICK q, zero : q = Unthreaded(p) /\ zero = 0
  OBVIOUS
<1>7. /\ q.calls = D!Calls("submit", c) /\ D!Fits(q) /\ q.sink = Reserve(Buffer, n)
      /\ q.executions = x /\ q.resting = zero
  BY <1>2, <1>4, <1>5, <1>6, CallsSent, Zenon
<1>8. q.sink \in D!Sinks /\ q.sink.kind = "buffer" /\ q.sink.size = 0 /\ n <= Len(q.sink.data)
  BY <1>0, <1>7, ReservedSink
<1>9. D!LaidOut(q, s, n, u, n, 0)
  BY <1>0, <1>3, <1>7, D!LaidOutTogether, DriversAre
<1>10. D!AllTaken(q, n, 0, D!Matched(n))
  BY <1>1, <1>6, <1>7, <1>8 DEF D!AllTaken
<1>11. D!Planned(q)
  BY <1>3, <1>7, <1>9, <1>10, D!FullMatchPlanned, DriversAre
<1> QED BY <1>6, <1>11

\* The queue-only programs make no calls.
LEMMA QueueOnlyPlanned ==
  ASSUME NEW p \in Programs, NEW n, NEW most, p \in QueueBenchmarks(n, most)
  PROVE  D!Planned(Unthreaded(p))
<1>1. PICK none, zero : none = <<>> /\ zero = 0
  OBVIOUS
<1>2. ~p.applies /\ p.reserved = zero /\ p.executions = none /\ p.resting = zero
  BY <1>1 DEF QueueBenchmarks, FullMatch_QueueOnly, FullMatch_IndexQueueOnly, Uint64_QueueOnly, QueueOnly,
     Indexed, Program
<1>3. PICK q : q = Unthreaded(p)
  OBVIOUS
<1>4. q.calls = <<>> /\ q.sink = Reserve(Buffer, 0) /\ q.executions = <<>> /\ q.resting = 0
  BY <1>1, <1>2, <1>3 DEF Unthreaded
<1>5. q.sink \in D!Sinks /\ q.sink.size = 0
  BY <1>4, ReservedSink
<1>6. D!StayApart(none, 0) /\ D!Calls("submit", none) = <<>>
  BY <1>1 DEF D!StayApart, D!Lists, D!Calls
<1>7. D!Fits(q)
  BY <1>4 DEF D!Fits
<1>8. D!Planned(q)
  <2>1. 0 \in Nat /\ 0 <= MaxOrders /\ "submit" \in {"add", "submit"}
    BY PipelineAssumption DEF Book!ClobAssumption
  <2> QED BY <1>4, <1>5, <1>6, <1>7, <2>1, D!AddingPlanned, DriversAre
<1> QED BY <1>3, <1>8

LEMMA BenchmarkPlanned ==
  ASSUME NEW p \in Programs, Benchmark(p)
  PROVE  D!Planned(Unthreaded(p))
BY AddOnlyPlanned, FullMatchPlanned, QueueOnlyPlanned DEF Benchmark

\* Everything at once, as an invariant of the pipeline.
Kept == Inv /\ JoinedAtEnd /\ InProgress /\ D!PlanInv
LEMMA KeptAlways == Spec => []Kept
<1>1. Init => Kept
  <2>1. Init => InProgress /\ JoinedAtEnd
    BY DEF Init, Book!Init, InProgress, JoinedAtEnd
  <2> QED BY <2>1, InitInv, PlanKept DEF Kept
<1>2. Kept /\ [Next]_vars => Kept'
  BY NextInv, NextJoined, StillInProgress, PlanKept DEF Kept
<1> QED BY <1>1, <1>2, PTL DEF Spec

LEMMA KeptMeans == Kept /\ Benchmark(program) => BufferFits /\ NothingRefused /\ RunsExact
<1> SUFFICES ASSUME Kept, Benchmark(program) PROVE BufferFits /\ NothingRefused /\ RunsExact
  OBVIOUS
<1>1. program \in Programs
  BY DEF Kept, Inv, Account
<1>2. D!Planned(Unthreaded(program))
  BY <1>1, BenchmarkPlanned
<1>3. D!SinkFits /\ D!EndsAsChecked
  BY <1>2, PlanKept DEF Kept
<1> QED BY <1>3, PlanEnds DEF Kept

\* The reservation of a benchmark is enough for all it executes.
THEOREM BufferFitsBenchmarks == Spec => [](Benchmark(program) => BufferFits)
BY KeptAlways, KeptMeans, PTL

\* The book refuses none of its commands.
THEOREM NothingRefusedInBenchmarks == Spec => [](Benchmark(program) => NothingRefused)
BY KeptAlways, KeptMeans, PTL

\* Joined, it has the executions and has left the orders that were meant.
THEOREM BenchmarksRunExact == Spec => [](Benchmark(program) => RunsExact)
BY KeptAlways, KeptMeans, PTL
==============================================================================
