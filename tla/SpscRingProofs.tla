---------------------------- MODULE SpscRingProofs ----------------------------
(***************************************************************************)
(* Proofs about SpscRing, for every capacity, word size that is a multiple *)
(* of it, item set and batch size.  Positions are counted from the oldest  *)
(* tail the producer may believe in: Offset of a counter is its distance   *)
(* from there, and SlotAt(n) the slot at distance n.  The invariant puts   *)
(* all counters and all copies in progress within one lap of that point,   *)
(* where distances do not wrap and slots do not repeat.                    *)
(*                                                                         *)
(* The last part is about SpscRingCached.  A snapshot is the value its     *)
(* thread loaded last, and a call that does not load is a call of the      *)
(* plain ring that loads this value once more; so invariant and queue      *)
(* carry over.                                                             *)
(***************************************************************************)
EXTENDS SpscRingCached, NaturalFacts, SequenceTheorems, TLAPS

Inv == RingTypeOK /\ RingInv
SlotAt(n) == (tails[1].word + n) % Capacity
------------------------------------------------------------------------------
(* Words                                                                   *)

\* Words are closed under the arithmetic of counters.
LEMMA WordType ==
  ASSUME NEW x \in Int
  PROVE  Word(x) \in Words
BY RingAssumption DEF Word, Words

\* A word is its own remainder.
LEMMA WordOfWord ==
  ASSUME NEW w \in Words
  PROVE  Word(w) = w
BY RingAssumption DEF Word, Words

\* head - tail, wrapped, is a word.
LEMMA UsedType ==
  ASSUME NEW a \in Words, NEW b \in Words
  PROVE  Used(a, b) \in Words /\ Used(a, b) \in Nat
BY RingAssumption, WordType DEF Used, Words

\* A distance is the difference of the counters up to whole words.
LEMMA UpToWords ==
  ASSUME NEW a \in Words, NEW b \in Words
  PROVE  \E q \in Int : b - a = (WordMod * q) + Used(b, a)
<1>1. WordMod \in Nat \ {0} /\ a \in Nat /\ b \in Nat
  BY RingAssumption DEF Words
<1>2. b - a = (WordMod * ((b - a) \div WordMod)) + ((b - a) % WordMod)
      /\ (b - a) \div WordMod \in Int
  BY <1>1, SMT
<1> QED BY <1>2 DEF Used, Word

\* Stepping a counter forward lengthens its distance, short of a whole word.
LEMMA Advance ==
  ASSUME NEW a \in Words, NEW b \in Words, NEW n \in Nat, Used(b, a) + n < WordMod
  PROVE  Word(b + n) \in Words /\ Used(Word(b + n), a) = Used(b, a) + n
<1>1. WordMod \in Nat \ {0} /\ a \in Nat /\ b \in Nat
  BY RingAssumption DEF Words
<1>2. PICK q \in Int, r \in 0..(WordMod - 1) :
          b - a = (WordMod * q) + r /\ Used(b, a) = r
  BY UpToWords, UsedType DEF Words
<1>3. PICK p \in Nat, s \in 0..(WordMod - 1) : b + n = (WordMod * p) + s /\ Word(b + n) = s
  <2>1. b + n \in Nat
    BY <1>1
  <2> QED BY <2>1, <1>1, DivMod DEF Word
<1>4. s - a = (WordMod * (q - p)) + (r + n) /\ q - p \in Int /\ r + n \in 0..(WordMod - 1)
  BY <1>1, <1>2, <1>3
<1> QED BY <1>1, <1>2, <1>3, <1>4, ModOfSum DEF Used, Word, Words

\* Distances measured from a later point.
LEMMA Shift ==
  ASSUME NEW a \in Words, NEW b \in Words, NEW c \in Words, Used(b, a) <= Used(c, a)
  PROVE  Used(c, b) = Used(c, a) - Used(b, a)
<1>1. WordMod \in Nat \ {0} /\ a \in Nat /\ b \in Nat /\ c \in Nat
  BY RingAssumption DEF Words
<1>2. PICK p \in Int, r \in 0..(WordMod - 1) :
          b - a = (WordMod * p) + r /\ Used(b, a) = r
  BY UpToWords, UsedType DEF Words
<1>3. PICK q \in Int, s \in 0..(WordMod - 1) :
          c - a = (WordMod * q) + s /\ Used(c, a) = s
  BY UpToWords, UsedType DEF Words
<1>4. c - b = (WordMod * (q - p)) + (s - r) /\ q - p \in Int /\ s - r \in 0..(WordMod - 1)
  BY <1>1, <1>2, <1>3
<1> QED BY <1>2, <1>3, <1>4, <1>1, ModOfSum DEF Used, Word

\* Equal counters mean an empty ring.
LEMMA UsedSelf ==
  ASSUME NEW a \in Words
  PROVE  Used(a, a) = 0
BY RingAssumption DEF Used, Word, Words

\* The slot of a counter, by its distance from another one.
LEMMA SlotByDistance ==
  ASSUME NEW a \in Words, NEW b \in Words, NEW i \in Nat
  PROVE  /\ Slot(Word(b + i)) = (a + Used(b, a) + i) % Capacity
         /\ Slot(Word(b + i)) \in Slots
<1>1. WordMod \in Nat \ {0} /\ Capacity \in Nat \ {0} /\ a \in Nat /\ b \in Nat
  BY RingAssumption DEF Words
<1>2. PICK M \in Nat \ {0} : WordMod = Capacity * M
  <2>1. WordMod = (Capacity * (WordMod \div Capacity)) + (WordMod % Capacity)
        /\ WordMod \div Capacity \in Nat
    BY <1>1, DivMod
  <2>2. WordMod % Capacity = 0
    BY RingAssumption
  <2>3. WordMod = Capacity * (WordMod \div Capacity)
    BY <2>1, <2>2, <1>1
  <2>4. WordMod \div Capacity # 0
    BY <2>3, <1>1
  <2> QED BY <2>1, <2>3, <2>4
<1>3. Slot(Word(b + i)) = (b + i) % Capacity
  <2>1. b + i \in Nat
    BY <1>1
  <2> QED BY <2>1, <1>1, <1>2, ModTwice DEF Slot, Word
<1>4. PICK q \in Int, r \in 0..(WordMod - 1) :
          b - a = (WordMod * q) + r /\ Used(b, a) = r
  BY UpToWords, UsedType DEF Words
<1>5. PICK p \in Nat, s \in 0..(Capacity - 1) :
          a + r + i = (Capacity * p) + s /\ (a + r + i) % Capacity = s
  <2>1. a + r + i \in Nat
    BY <1>1
  <2> QED BY <2>1, <1>1, DivMod
<1>6. b + i = (Capacity * ((M * q) + p)) + s /\ ((M * q) + p) \in Int
  <2>1. b + i = (WordMod * q) + (Capacity * p) + s
    BY <1>1, <1>4, <1>5
  <2>2. WordMod * q = Capacity * (M * q)
    BY <1>1, <1>2
  <2>3. (M * q) \in Int /\ Capacity * ((M * q) + p) = (Capacity * (M * q)) + (Capacity * p)
    BY <1>1, <1>2
  <2> QED BY <2>1, <2>2, <2>3, <1>1
<1>7. (b + i) % Capacity = s
  BY <1>6, <1>1, ModOfSum
<1> QED BY <1>3, <1>4, <1>5, <1>7 DEF Slots

\* Two slots less than a lap apart are different slots.
LEMMA SlotsApart ==
  ASSUME NEW a \in Words, NEW m \in 0..Capacity, NEW n \in 0..Capacity,
         m - n < Capacity, n - m < Capacity, (a + m) % Capacity = (a + n) % Capacity
  PROVE  m = n
<1>1. a \in Nat /\ Capacity \in Nat \ {0} /\ a + m \in Nat /\ a + n \in Nat
  BY RingAssumption DEF Words
<1>2. (a + m) - (a + n) < Capacity /\ (a + n) - (a + m) < Capacity
  BY <1>1
<1>3. a + m = a + n
  BY <1>1, <1>2, ModApart
<1> QED BY <1>1, <1>3
------------------------------------------------------------------------------
(* The window                                                              *)

\* Entries of the logs are words, and the logs are not empty.
LEMMA Logs ==
  ASSUME RingTypeOK
  PROVE  /\ Len(tails) \in Nat \ {0} /\ Len(heads) \in Nat \ {0}
         /\ DOMAIN tails = 1..Len(tails) /\ DOMAIN heads = 1..Len(heads)
         /\ \A k \in 1..Len(tails) : tails[k] \in Entries /\ tails[k].word \in Words
         /\ \A k \in 1..Len(heads) : heads[k] \in Entries /\ heads[k].word \in Words
         /\ TailNow = tails[Len(tails)].word /\ TailNow \in Words
         /\ HeadNow = heads[Len(heads)].word /\ HeadNow \in Words
<1>1. Len(tails) \in Nat \ {0} /\ Len(heads) \in Nat \ {0}
  BY DEF RingTypeOK
<1>2. /\ DOMAIN tails = 1..Len(tails) /\ DOMAIN heads = 1..Len(heads)
      /\ \A k \in 1..Len(tails) : tails[k] \in Entries
      /\ \A k \in 1..Len(heads) : heads[k] \in Entries
  BY DEF RingTypeOK
<1>3. \A e \in Entries : e.word \in Words
  BY DEF Entries
<1> QED BY <1>1, <1>2, <1>3 DEF TailNow, HeadNow, Latest

\* All counters lie between the oldest tail and one lap after it, in order.
LEMMA Window ==
  ASSUME Inv
  PROVE  /\ Offset(tails[1].word) = 0
         /\ \A k \in 1..Len(tails) : Offset(tails[k].word) \in 0..Offset(TailNow)
         /\ \A k \in 1..Len(heads) :
              Offset(heads[k].word) \in (Offset(TailNow) + want)..Offset(HeadNow)
         /\ Offset(TailNow) \in Nat /\ Offset(HeadNow) \in Nat
         /\ Offset(HeadNow) + Len(batch) <= Capacity
         /\ Capacity \in Nat /\ Capacity < WordMod /\ Len(batch) \in Nat /\ want \in Nat
         /\ Len(out) \in 0..want /\ filled \in 0..Len(batch)
<1>1. RingTypeOK
  BY DEF Inv
<1>2. \A k \in 1..Len(tails) : Offset(tails[k].word) \in Nat
  BY <1>1, Logs, UsedType DEF Offset
<1>3. \A k \in 1..Len(heads) : Offset(heads[k].word) \in Nat
  BY <1>1, Logs, UsedType DEF Offset
<1>4. Offset(tails[1].word) = 0
  BY <1>1, Logs, UsedSelf DEF Offset
<1>5. /\ Capacity \in Nat /\ Capacity < WordMod /\ Len(batch) \in Nat /\ want \in Nat
      /\ Len(out) \in 0..want /\ filled \in 0..Len(batch)
  BY <1>1, RingAssumption DEF RingTypeOK
<1>6. Increasing(tails) /\ Increasing(heads)
      /\ Offset(TailNow) + want <= Offset(heads[1].word)
      /\ Offset(HeadNow) + Len(batch) <= Capacity
  BY DEF Inv, RingInv, CountersOrdered
<1>7. \A k \in 1..Len(tails) : Offset(tails[k].word) \in 0..Offset(TailNow)
  <2> TAKE k \in 1..Len(tails)
  <2>1. /\ DOMAIN tails = 1..Len(tails) /\ Len(tails) \in 1..Len(tails) /\ k <= Len(tails)
        /\ TailNow = tails[Len(tails)].word
    BY <1>1, Logs
  <2>2. Offset(tails[k].word) <= Offset(tails[Len(tails)].word)
    BY <1>6, <2>1 DEF Increasing
  <2>3. Offset(tails[k].word) \in Nat /\ Offset(tails[Len(tails)].word) \in Nat
    BY <1>2, <2>1
  <2> QED BY <2>1, <2>2, <2>3
<1>8. \A k \in 1..Len(heads) : /\ Offset(heads[1].word) <= Offset(heads[k].word)
                               /\ Offset(heads[k].word) <= Offset(HeadNow)
  BY <1>1, <1>3, <1>6, Logs DEF Increasing
<1>9. Offset(TailNow) \in Nat /\ Offset(HeadNow) \in Nat
  BY <1>1, <1>2, <1>3, Logs
<1>10. \A k \in 1..Len(heads) :
          Offset(heads[k].word) \in (Offset(TailNow) + want)..Offset(HeadNow)
  <2>1. Offset(heads[1].word) \in Nat
    BY <1>1, <1>3, Logs
  <2>2. ASSUME NEW k \in 1..Len(heads)
        PROVE  Offset(heads[k].word) \in (Offset(TailNow) + want)..Offset(HeadNow)
    <3>1. /\ Offset(heads[k].word) \in Nat
          /\ Offset(heads[1].word) <= Offset(heads[k].word)
          /\ Offset(heads[k].word) <= Offset(HeadNow)
      BY <1>3, <1>8
    <3> QED BY <3>1, <2>1, <1>5, <1>6, <1>9
  <2> QED BY <2>2
<1> QED BY <1>4, <1>5, <1>6, <1>7, <1>9, <1>10

\* The consumer's counters, one by one.
LEMMA HeadOffsets ==
  ASSUME Inv
  PROVE  /\ \A k \in 1..Len(heads) : /\ Offset(heads[k].word) \in Nat
                                     /\ Offset(heads[k].word) <= Offset(HeadNow)
         /\ Offset(HeadNow) \in Nat /\ filled \in Nat
<1>1. Offset(HeadNow) \in Nat /\ Offset(TailNow) \in Nat /\ want \in Nat
  BY Window
<1>2. filled \in Nat
  BY Window
<1>3. ASSUME NEW k \in 1..Len(heads)
      PROVE  Offset(heads[k].word) \in Nat /\ Offset(heads[k].word) <= Offset(HeadNow)
  <2>1. Offset(heads[k].word) \in (Offset(TailNow) + want)..Offset(HeadNow)
    BY Window
  <2> QED BY <2>1, <1>1
<1> QED BY <1>1, <1>2, <1>3

\* Distances between counters are differences of offsets, and slots are
\* determined by offsets.
LEMMA Distances ==
  ASSUME Inv
  PROVE  /\ Used(HeadNow, TailNow) = Offset(HeadNow) - Offset(TailNow)
         /\ \A k \in 1..Len(tails) :
              Used(HeadNow, tails[k].word) = Offset(HeadNow) - Offset(tails[k].word)
         /\ \A k \in 1..Len(heads) :
              Used(heads[k].word, TailNow) = Offset(heads[k].word) - Offset(TailNow)
         /\ \A w \in Words, i \in Nat :
              Slot(Word(w + i)) = SlotAt(Offset(w) + i) /\ Slot(Word(w + i)) \in Slots
<1>1. RingTypeOK
  BY DEF Inv
<1>2. tails[1].word \in Words
  BY <1>1, Logs
<1>3. /\ \A k \in 1..Len(tails) : Offset(tails[k].word) <= Offset(HeadNow)
      /\ \A k \in 1..Len(heads) : Offset(TailNow) <= Offset(heads[k].word)
  <2>1. /\ Offset(TailNow) \in Nat /\ Offset(HeadNow) \in Nat /\ want \in Nat
        /\ Len(heads) \in 1..Len(heads)
    BY <1>1, Window, Logs
  <2>2. ASSUME NEW k \in 1..Len(heads)
        PROVE  /\ Offset(TailNow) <= Offset(heads[k].word)
               /\ Offset(TailNow) <= Offset(HeadNow)
    <3>1. Offset(heads[k].word) \in (Offset(TailNow) + want)..Offset(HeadNow)
      BY Window
    <3> QED BY <3>1, <2>1
  <2>3. ASSUME NEW k \in 1..Len(tails)
        PROVE  Offset(tails[k].word) <= Offset(HeadNow)
    <3>1. Offset(tails[k].word) \in 0..Offset(TailNow)
      BY Window
    <3> QED BY <3>1, <2>1, <2>2
  <2> QED BY <2>2, <2>3
<1>4. \A k \in 1..Len(tails) :
          Used(HeadNow, tails[k].word) = Offset(HeadNow) - Offset(tails[k].word)
  BY <1>1, <1>2, <1>3, Logs, Shift DEF Offset
<1>5. \A k \in 1..Len(heads) :
          Used(heads[k].word, TailNow) = Offset(heads[k].word) - Offset(TailNow)
  BY <1>1, <1>2, <1>3, Logs, Shift DEF Offset
<1>6. Used(HeadNow, TailNow) = Offset(HeadNow) - Offset(TailNow)
  BY <1>1, <1>4, Logs
<1>7. ASSUME NEW w \in Words, NEW i \in Nat
      PROVE  Slot(Word(w + i)) = SlotAt(Offset(w) + i) /\ Slot(Word(w + i)) \in Slots
  <2>1. Slot(Word(w + i)) = (tails[1].word + Offset(w) + i) % Capacity
        /\ Slot(Word(w + i)) \in Slots
    BY <1>2, SlotByDistance DEF Offset
  <2>2. Offset(w) \in Nat /\ tails[1].word \in Nat
    BY <1>2, UsedType DEF Offset, Words
  <2>3. tails[1].word + Offset(w) + i = tails[1].word + (Offset(w) + i)
    BY <2>2
  <2> QED BY <2>1, <2>3 DEF SlotAt
<1> QED BY <1>4, <1>5, <1>6, <1>7

\* Slots at different distances below one lap are different.
LEMMA Apart ==
  ASSUME Inv, NEW m \in Nat, NEW n \in Nat, m < Capacity, n < Capacity, m # n
  PROVE  SlotAt(m) # SlotAt(n)
<1>1. RingTypeOK /\ Capacity \in Nat
  BY RingAssumption DEF Inv
<1>2. tails[1].word \in Words
  BY <1>1, Logs
<1>3. m \in 0..Capacity /\ n \in 0..Capacity /\ m - n < Capacity /\ n - m < Capacity
  BY <1>1
<1> QED BY <1>2, <1>3, SlotsApart DEF SlotAt

\* The accesses a store carries lie between it and the store before.
LEMMA CarriedTails ==
  ASSUME Inv, NEW s \in Unordered(tails, read)
  PROVE  \E n \in 0..(Offset(TailNow) + Len(out) - 1) : s = SlotAt(n)
<1>1. RingTypeOK /\ LogsCarrySlots
  BY DEF Inv, RingInv
<1>2. CASE s \in read
  <2>1. PICK i \in 0..(Len(out) - 1) : s = Slot(Word(TailNow + i))
    BY <1>1, <1>2 DEF LogsCarrySlots
  <2>2. s = SlotAt(Offset(TailNow) + i)
    BY <2>1, <1>1, Logs, Distances
  <2> QED BY <2>2, Window
<1>3. ASSUME NEW k \in 1..Len(tails), s \in tails[k].slots
      PROVE  \E n \in 0..(Offset(TailNow) + Len(out) - 1) : s = SlotAt(n)
  <2>1. k # 1
    BY <1>1, <1>3 DEF LogsCarrySlots
  <2>2. k \in 2..Len(tails) /\ k - 1 \in 1..Len(tails)
    BY <2>1, <1>1, Logs
  <2>3. PICK i \in 0..(Used(tails[k].word, tails[k - 1].word) - 1) :
             s = Slot(Word(tails[k - 1].word + i))
    BY <1>1, <1>3, <2>2 DEF LogsCarrySlots, Between
  <2>4. Offset(tails[k - 1].word) <= Offset(tails[k].word)
    BY <1>1, <2>2, Logs DEF Inv, RingInv, CountersOrdered, Increasing
  <2>5. Used(tails[k].word, tails[k - 1].word)
          = Offset(tails[k].word) - Offset(tails[k - 1].word)
    BY <2>2, <2>4, <1>1, Logs, Shift DEF Offset
  <2>6. s = SlotAt(Offset(tails[k - 1].word) + i)
    BY <2>2, <2>3, <1>1, Logs, Distances
  <2>7. Offset(tails[k - 1].word) + i \in 0..(Offset(TailNow) + Len(out) - 1)
    <3>1. /\ Offset(tails[k - 1].word) \in Nat /\ Offset(tails[k].word) \in Nat
          /\ Offset(tails[k].word) <= Offset(TailNow)
          /\ Offset(TailNow) \in Nat /\ Len(out) \in Nat
      BY <2>2, Window
    <3>2. i \in Nat /\ i < Offset(tails[k].word) - Offset(tails[k - 1].word)
      BY <2>5, <3>1
    <3> QED BY <3>1, <3>2
  <2> QED BY <2>6, <2>7
<1> QED BY <1>2, <1>3, <1>1, Logs DEF Unordered

\* The same for the slots the consumer is not ordered after: they lie between the
\* head it loaded last and the producer's write position.
LEMMA CarriedHeads ==
  ASSUME Inv, NEW s \in Unordered(heads, wrote)
  PROVE  \E n \in Offset(heads[1].word)..(Offset(HeadNow) + filled - 1) : s = SlotAt(n)
<1>1. RingTypeOK /\ LogsCarrySlots
  BY DEF Inv, RingInv
<1>2. CASE s \in wrote
  <2>1. PICK i \in 0..(filled - 1) : s = Slot(Word(HeadNow + i))
    BY <1>1, <1>2 DEF LogsCarrySlots
  <2>2. s = SlotAt(Offset(HeadNow) + i)
    BY <2>1, <1>1, Logs, Distances
  <2>3. /\ Offset(heads[1].word) \in Nat /\ Offset(heads[1].word) <= Offset(HeadNow)
        /\ Offset(HeadNow) \in Nat /\ filled \in Nat
    BY HeadOffsets, <1>1, Logs
  <2>4. Offset(HeadNow) + i \in Offset(heads[1].word)..(Offset(HeadNow) + filled - 1)
    BY <2>3
  <2> QED BY <2>2, <2>4
<1>3. ASSUME NEW k \in 1..Len(heads), s \in heads[k].slots
      PROVE  \E n \in Offset(heads[1].word)..(Offset(HeadNow) + filled - 1) : s = SlotAt(n)
  <2>1. k # 1
    BY <1>1, <1>3 DEF LogsCarrySlots
  <2>2. k \in 2..Len(heads) /\ k - 1 \in 1..Len(heads) /\ 1 \in 1..Len(heads)
    BY <2>1, <1>1, Logs
  <2>3. PICK i \in 0..(Used(heads[k].word, heads[k - 1].word) - 1) :
             s = Slot(Word(heads[k - 1].word + i))
    BY <1>1, <1>3, <2>2 DEF LogsCarrySlots, Between
  <2>4. Offset(heads[k - 1].word) <= Offset(heads[k].word)
        /\ Offset(heads[1].word) <= Offset(heads[k - 1].word)
    BY <1>1, <2>2, Logs DEF Inv, RingInv, CountersOrdered, Increasing
  <2>5. Used(heads[k].word, heads[k - 1].word)
          = Offset(heads[k].word) - Offset(heads[k - 1].word)
    BY <2>2, <2>4, <1>1, Logs, Shift DEF Offset
  <2>6. s = SlotAt(Offset(heads[k - 1].word) + i)
    BY <2>2, <2>3, <1>1, Logs, Distances
  <2>7. Offset(heads[k - 1].word) + i \in Offset(heads[1].word)..(Offset(HeadNow) + filled - 1)
    <3>1. /\ Offset(heads[k - 1].word) \in Nat /\ Offset(heads[k].word) \in Nat
          /\ Offset(heads[1].word) \in Nat /\ Offset(heads[k].word) <= Offset(HeadNow)
          /\ Offset(HeadNow) \in Nat /\ filled \in Nat
      BY <2>2, HeadOffsets
    <3>2. i \in Nat /\ i < Offset(heads[k].word) - Offset(heads[k - 1].word)
      BY <2>5, <3>1, SMTT(20)
    <3>3. Offset(heads[1].word) <= Offset(heads[k - 1].word)
      BY <2>4
    <3> QED BY <3>1, <3>2, <3>3, SMTT(20)
  <2> QED BY <2>6, <2>7
<1> QED BY <1>2, <1>3, <1>1, Logs DEF Unordered

\* A write lands behind everything the consumer may still be reading, a read
\* before everything the producer may still be writing.
LEMMA InvNoRace == Inv => NoRace
<1> SUFFICES ASSUME Inv PROVE NoRace
  OBVIOUS
<1>1. RingTypeOK /\ Capacity \in Nat /\ 1 \in 1..Len(heads)
  BY Logs, RingAssumption DEF Inv
<1>2. ASSUME filled < Len(batch) PROVE WriteSlot \notin Unordered(tails, read)
  <2>1. WriteSlot = SlotAt(Offset(HeadNow) + filled)
    BY <1>1, Logs, Distances, Window DEF WriteSlot
  <2>2. Offset(HeadNow) + filled \in Nat /\ Offset(HeadNow) + filled < Capacity
    BY <1>2, Window
  <2>3. ASSUME NEW n \in 0..(Offset(TailNow) + Len(out) - 1) PROVE SlotAt(n) # WriteSlot
    <3>1. n \in Nat /\ n < Offset(HeadNow) + filled
      BY <1>1, Window
    <3> QED BY <3>1, <2>1, <2>2, <1>1, Apart
  <2> QED BY <2>3, CarriedTails
<1>3. ASSUME Len(out) < want PROVE ReadSlot \notin Unordered(heads, wrote)
  <2>1. ReadSlot = SlotAt(Offset(TailNow) + Len(out))
    BY <1>1, Logs, Distances, Window DEF ReadSlot
  <2>2. /\ Offset(TailNow) + Len(out) \in Nat
        /\ Offset(TailNow) + Len(out) < Offset(heads[1].word)
        /\ Offset(heads[1].word) <= Capacity /\ Offset(heads[1].word) \in Nat
    BY <1>1, <1>3, Window
  <2>3. ASSUME NEW n \in Offset(heads[1].word)..(Offset(HeadNow) + filled - 1)
        PROVE  SlotAt(n) # ReadSlot
    <3>1. n \in Nat /\ n < Capacity /\ n # Offset(TailNow) + Len(out)
      BY <2>2, Window
    <3> QED BY <3>1, <2>1, <2>2, <1>1, Apart
  <2> QED BY <2>3, CarriedHeads
<1> QED BY <1>2, <1>3 DEF NoRace
------------------------------------------------------------------------------
(* The logs                                                                *)

\* A load forgets the older values.
LEMMA LoadedLog ==
  ASSUME NEW log \in Seq(Entries), NEW k \in 1..Len(log)
  PROVE  /\ Loaded(log, k) \in Seq(Entries)
         /\ Len(Loaded(log, k)) = Len(log) - k + 1
         /\ \A j \in 1..Len(Loaded(log, k)) : Loaded(log, k)[j].word = log[k + j - 1].word
         /\ \A j \in 2..Len(Loaded(log, k)) : Loaded(log, k)[j].slots = log[k + j - 1].slots
         /\ Loaded(log, k)[1].slots = {}
         /\ Latest(Loaded(log, k)) = Latest(log)
<1> DEFINE new == SubSeq(log, k, Len(log))
<1>1. /\ new \in Seq(Entries) /\ Len(new) = Len(log) - k + 1
      /\ \A j \in 1..(Len(log) - k + 1) : new[j] = log[k + j - 1]
  OBVIOUS
<1>2. 1 \in 1..Len(new) /\ new[1] \in Entries
  BY <1>1
<1>3. \A e \in Entries : [e EXCEPT !.slots = {}] \in Entries
      /\ [e EXCEPT !.slots = {}].word = e.word /\ [e EXCEPT !.slots = {}].slots = {}
  BY DEF Entries
<1>4. Loaded(log, k) = [new EXCEPT ![1] = [new[1] EXCEPT !.slots = {}]]
  BY DEF Loaded
<1> HIDE DEF new
<1>5. Loaded(log, k) \in Seq(Entries) /\ Len(Loaded(log, k)) = Len(new)
  BY <1>1, <1>2, <1>3, <1>4
<1>6. \A j \in 1..Len(new) :
         /\ Loaded(log, k)[j].word = new[j].word
         /\ Loaded(log, k)[j].slots = IF j = 1 THEN {} ELSE new[j].slots
  BY <1>1, <1>2, <1>3, <1>4
<1>7. /\ \A j \in 1..Len(new) : Loaded(log, k)[j].word = log[k + j - 1].word
      /\ \A j \in 2..Len(new) : Loaded(log, k)[j].slots = log[k + j - 1].slots
      /\ Loaded(log, k)[1].slots = {}
  BY <1>1, <1>6
<1>8. Latest(Loaded(log, k)) = Latest(log)
  <2>1. Len(new) \in 1..Len(new) /\ k + Len(new) - 1 = Len(log)
    BY <1>1
  <2> QED BY <2>1, <1>5, <1>7 DEF Latest
<1> QED BY <1>1, <1>5, <1>7, <1>8

\* A store adds the newest value.
LEMMA StoredLog ==
  ASSUME NEW log \in Seq(Entries), NEW w \in Words, NEW slots \in SUBSET Slots
  PROVE  /\ Stored(log, w, slots) \in Seq(Entries)
         /\ Len(Stored(log, w, slots)) = Len(log) + 1
         /\ \A j \in 1..Len(log) : Stored(log, w, slots)[j] = log[j]
         /\ Stored(log, w, slots)[Len(log) + 1].word = w
         /\ Stored(log, w, slots)[Len(log) + 1].slots = slots
         /\ Latest(Stored(log, w, slots)) = w
<1>1. [word |-> w, slots |-> slots] \in Entries
  BY DEF Entries
<1> QED BY <1>1 DEF Stored, Latest
------------------------------------------------------------------------------
(* The invariant                                                           *)

\* The new ring satisfies the invariant.
LEMMA InitInv == Init => Inv
<1> SUFFICES ASSUME Init PROVE Inv
  OBVIOUS
<1>1. 0 \in Words /\ [word |-> 0, slots |-> {}] \in Entries
  BY RingAssumption DEF Words, Entries
<1>2. RingTypeOK
  BY <1>1 DEF Init, RingTypeOK
<1>3. /\ HeadNow = 0 /\ TailNow = 0 /\ Len(heads) = 1 /\ Len(tails) = 1
      /\ heads[1].word = 0 /\ tails[1].word = 0
      /\ heads[1].slots = {} /\ tails[1].slots = {}
  BY DEF Init, HeadNow, TailNow, Latest
<1>4. Used(0, 0) = 0 /\ Offset(0) = 0
  BY <1>1, <1>3, UsedSelf DEF Offset
<1>5. CountersOrdered
  BY <1>2, <1>3, <1>4, Logs, RingAssumption DEF CountersOrdered, Increasing, Init
<1>6. LogsCarrySlots
  BY <1>3 DEF LogsCarrySlots, Init
<1>7. SlotsHoldItems
  BY <1>3, <1>4 DEF SlotsHoldItems, Init
<1> QED BY <1>2, <1>5, <1>6, <1>7 DEF Inv, RingInv

\* The producer's load, with any count that fits behind the tail it loaded.
LEMMA BeginPushInv ==
  ASSUME Inv, NEW in \in Seq(Items), NEW k \in DOMAIN tails, NEW count \in 0..Len(in),
         count <= Capacity - Used(HeadNow, tails[k].word), BeginPush(in, k, count)
  PROVE  Inv'
<1>1. RingTypeOK /\ CountersOrdered /\ LogsCarrySlots /\ SlotsHoldItems
  BY DEF Inv, RingInv
<1>2. k \in 1..Len(tails) /\ Len(tails) \in Nat /\ tails \in Seq(Entries)
  BY <1>1, Logs DEF RingTypeOK
<1>3. /\ batch = <<>> /\ tails' = Loaded(tails, k) /\ batch' = SubSeq(in, 1, count)
      /\ data' = data /\ heads' = heads /\ filled' = filled /\ wrote' = wrote
      /\ want' = want /\ out' = out /\ read' = read /\ got' = got
  BY DEF BeginPush, consumer
<1>4. PICK new : new = Loaded(tails, k)
  OBVIOUS
<1>5. /\ new \in Seq(Entries) /\ Len(new) = Len(tails) - k + 1
      /\ \A j \in 1..Len(new) : new[j].word = tails[k + j - 1].word
      /\ \A j \in 2..Len(new) : new[j].slots = tails[k + j - 1].slots
      /\ new[1].slots = {} /\ Latest(new) = TailNow
  BY <1>2, <1>4, LoadedLog DEF TailNow
<1>6. tails' = new /\ TailNow' = TailNow /\ HeadNow' = HeadNow
  BY <1>3, <1>4, <1>5 DEF TailNow, HeadNow
<1>7. Len(batch') = count /\ batch' \in Seq(Items) /\ filled = 0 /\ count \in Nat
  BY <1>1, <1>3 DEF RingTypeOK
<1>8. RingTypeOK'
  BY <1>1, <1>2, <1>3, <1>5, <1>6, <1>7 DEF RingTypeOK
<1>9. PICK a \in Words, c \in Words : a = tails[1].word /\ c = tails[k].word /\ c = new[1].word
  <2>1. tails[1].word \in Words /\ tails[k].word \in Words
    BY <1>1, <1>2, Logs
  <2>2. 1 \in 1..Len(new) /\ k + 1 - 1 = k
    BY <1>2, <1>5
  <2> QED BY <1>5, <2>1, <2>2
<1>10. PICK base \in Nat : base = Used(c, a) /\ base <= Offset(TailNow)
  <2>1. Offset(tails[k].word) \in 0..Offset(TailNow) /\ Offset(TailNow) \in Nat
    BY <1>2, Window
  <2>2. Offset(tails[k].word) = Used(c, a)
    BY <1>9 DEF Offset
  <2> QED BY <2>1, <2>2
<1>11. \A w \in Words : base <= Used(w, a) => Used(w, c) = Used(w, a) - base
  BY <1>9, <1>10, Shift
<1>12. CountersOrdered'
  <2>1. ASSUME NEW i \in 1..Len(new), NEW j \in 1..Len(new), i <= j
        PROVE  Used(new[i].word, c) <= Used(new[j].word, c)
    <3>1. PICK v \in Words, w \in Words : /\ v = new[i].word /\ w = new[j].word
                                          /\ base <= Used(v, a) /\ Used(v, a) <= Used(w, a)
      <4>1. /\ k + i - 1 \in 1..Len(tails) /\ k + j - 1 \in 1..Len(tails)
            /\ k <= k + i - 1 /\ k + i - 1 <= k + j - 1
        <5>1. k \in 1..Len(tails) /\ Len(tails) \in Nat /\ Len(new) = Len(tails) - k + 1
          BY <1>2, <1>5
        <5> QED BY <5>1, <2>1
      <4>2. new[i].word = tails[k + i - 1].word /\ new[j].word = tails[k + j - 1].word
        BY <1>5
      <4>3. Offset(tails[k].word) <= Offset(tails[k + i - 1].word)
            /\ Offset(tails[k + i - 1].word) <= Offset(tails[k + j - 1].word)
        BY <4>1, <1>1, <1>2, Logs DEF CountersOrdered, Increasing
      <4>4. tails[k + i - 1].word \in Words /\ tails[k + j - 1].word \in Words
        BY <4>1, <1>1, Logs
      <4> QED BY <4>2, <4>3, <4>4, <1>9, <1>10 DEF Offset
    <3>2. Used(v, a) \in Nat /\ Used(w, a) \in Nat
      BY <1>9, UsedType
    <3>3. Used(v, c) = Used(v, a) - base /\ Used(w, c) = Used(w, a) - base
      BY <3>1, <3>2, <1>10, <1>11
    <3> QED BY <3>1, <3>2, <3>3, <1>10
  <2>2. ASSUME NEW i \in 1..Len(heads), NEW j \in 1..Len(heads), i <= j
        PROVE  Used(heads[i].word, c) <= Used(heads[j].word, c)
    <3>1. PICK v \in Words, w \in Words : /\ v = heads[i].word /\ w = heads[j].word
                                          /\ base <= Used(v, a) /\ Used(v, a) <= Used(w, a)
      <4>1. Offset(TailNow) <= Offset(heads[i].word) /\ Offset(TailNow) \in Nat
            /\ Offset(heads[i].word) \in Nat /\ Offset(heads[i].word) <= Offset(heads[j].word)
        <5>1. Offset(heads[i].word) \in (Offset(TailNow) + want)..Offset(HeadNow)
          BY Window
        <5>2. Offset(TailNow) \in Nat /\ Offset(HeadNow) \in Nat /\ want \in Nat
          BY Window
        <5>3. Offset(heads[i].word) <= Offset(heads[j].word)
          BY <2>2, <1>1, Logs DEF CountersOrdered, Increasing
        <5> QED BY <5>1, <5>2, <5>3
      <4>2. heads[i].word \in Words /\ heads[j].word \in Words
        BY <1>1, Logs
      <4>3. base <= Offset(heads[i].word)
        BY <4>1, <1>10
      <4> QED BY <4>1, <4>2, <4>3, <1>9 DEF Offset
    <3>2. Used(v, a) \in Nat /\ Used(w, a) \in Nat
      BY <1>9, UsedType
    <3>3. Used(v, c) = Used(v, a) - base /\ Used(w, c) = Used(w, a) - base
      BY <3>1, <3>2, <1>10, <1>11
    <3> QED BY <3>1, <3>2, <3>3, <1>10
  <2>3. Used(TailNow, c) + want <= Used(heads[1].word, c)
    <3>1. PICK h \in Words : h = heads[1].word /\ Used(TailNow, a) + want <= Used(h, a)
      BY <1>1, <1>9, Logs DEF CountersOrdered, Offset
    <3>2. TailNow \in Words /\ want \in Nat
      BY <1>1, Logs DEF RingTypeOK
    <3>3. base <= Used(TailNow, a)
      BY <1>9, <1>10 DEF Offset
    <3>4. Used(TailNow, a) \in Nat /\ Used(h, a) \in Nat
      BY <3>1, <3>2, <1>9, UsedType
    <3>5. base <= Used(h, a)
      BY <3>1, <3>2, <3>3, <3>4, <1>10
    <3>6. Used(TailNow, c) = Used(TailNow, a) - base /\ Used(h, c) = Used(h, a) - base
      BY <3>2, <3>3, <3>5, <1>11
    <3> QED BY <3>1, <3>2, <3>4, <3>6, <1>10
  <2>4. Used(HeadNow, c) + count <= Capacity
    BY <1>1, <1>7, <1>9, Logs, UsedType, RingAssumption
  <2>5. DOMAIN new = 1..Len(new) /\ DOMAIN heads = 1..Len(heads)
    BY <1>1, <1>5, Logs
  <2> QED BY <2>1, <2>2, <2>3, <2>4, <2>5, <1>3, <1>6, <1>7, <1>9
          DEF CountersOrdered, Increasing, Offset
<1>13. LogsCarrySlots'
  <2>1. ASSUME NEW j \in 2..Len(new)
        PROVE  new[j].slots = Between(new[j - 1].word, new[j].word)
    <3>1. /\ k + j - 1 \in 2..Len(tails) /\ k + (j - 1) - 1 = (k + j - 1) - 1
          /\ j - 1 \in 1..Len(new) /\ j \in 1..Len(new)
      BY <1>2, <1>5
    <3>2. tails[k + j - 1].slots = Between(tails[(k + j - 1) - 1].word, tails[k + j - 1].word)
      BY <3>1, <1>1 DEF LogsCarrySlots
    <3>3. new[j - 1].word = tails[k + (j - 1) - 1].word /\ new[j].word = tails[k + j - 1].word
      BY <3>1, <1>5
    <3>4. new[j].slots = tails[k + j - 1].slots
      BY <1>5
    <3> QED BY <3>1, <3>2, <3>3, <3>4
  <2>2. \A j \in 2..Len(tails') : tails'[j].slots = Between(tails'[j - 1].word, tails'[j].word)
    BY <2>1, <1>6
  <2>3. tails'[1].slots = {} /\ heads' = heads
    BY <1>3, <1>5, <1>6
  <2>4. /\ wrote' = {Slot(Word(HeadNow' + n)) : n \in 0..(filled' - 1)}
        /\ read' = {Slot(Word(TailNow' + n)) : n \in 0..(Len(out') - 1)}
    BY <1>1, <1>3, <1>6 DEF LogsCarrySlots
  <2>5. /\ heads[1].slots = {}
        /\ \A j \in 2..Len(heads) : heads[j].slots = Between(heads[j - 1].word, heads[j].word)
    BY <1>1 DEF LogsCarrySlots
  <2> QED BY <2>2, <2>3, <2>4, <2>5, SMTT(20) DEF LogsCarrySlots, Between
<1>14. SlotsHoldItems'
  BY <1>1, <1>3, <1>6, <1>7 DEF SlotsHoldItems
<1> QED BY <1>8, <1>12, <1>13, <1>14 DEF Inv, RingInv

\* The consumer's load, with any count that is in stock before the head it loaded.
LEMMA BeginPopInv ==
  ASSUME Inv, NEW k \in DOMAIN heads, NEW count \in Nat,
         count <= Used(heads[k].word, TailNow), BeginPop(k, count)
  PROVE  Inv'
<1>1. RingTypeOK /\ CountersOrdered /\ LogsCarrySlots /\ SlotsHoldItems
  BY DEF Inv, RingInv
<1>2. k \in 1..Len(heads) /\ Len(heads) \in Nat /\ heads \in Seq(Entries)
  BY <1>1, Logs DEF RingTypeOK
<1>3. /\ want = 0 /\ heads' = Loaded(heads, k) /\ want' = count
      /\ data' = data /\ tails' = tails /\ filled' = filled /\ wrote' = wrote
      /\ batch' = batch /\ out' = out /\ read' = read /\ got' = got
  BY DEF BeginPop, producer
<1>4. PICK new : new = Loaded(heads, k)
  OBVIOUS
<1>5. /\ new \in Seq(Entries) /\ Len(new) = Len(heads) - k + 1
      /\ \A j \in 1..Len(new) : new[j].word = heads[k + j - 1].word
      /\ \A j \in 2..Len(new) : new[j].slots = heads[k + j - 1].slots
      /\ new[1].slots = {} /\ Latest(new) = HeadNow
  BY <1>2, <1>4, LoadedLog DEF HeadNow
<1>6. heads' = new /\ HeadNow' = HeadNow /\ TailNow' = TailNow
  BY <1>3, <1>4, <1>5 DEF TailNow, HeadNow
<1>7. out = <<>> /\ Len(out) = 0
  BY <1>1, <1>3 DEF RingTypeOK
<1>8. RingTypeOK'
  BY <1>1, <1>2, <1>3, <1>5, <1>6, <1>7 DEF RingTypeOK
<1>9. CountersOrdered'
  <2>1. ASSUME NEW i \in 1..Len(new), NEW j \in 1..Len(new), i <= j
        PROVE  Offset(new[i].word) <= Offset(new[j].word)
    <3>1. /\ k + i - 1 \in 1..Len(heads) /\ k + j - 1 \in 1..Len(heads)
          /\ k + i - 1 <= k + j - 1
      <4>1. k \in 1..Len(heads) /\ Len(heads) \in Nat /\ Len(new) = Len(heads) - k + 1
        BY <1>2, <1>5
      <4> QED BY <4>1, <2>1
    <3> QED BY <3>1, <1>1, <1>5, Logs DEF CountersOrdered, Increasing
  <2>2. Offset(TailNow) + count <= Offset(heads[k].word)
    <3>1. Used(heads[k].word, TailNow) = Offset(heads[k].word) - Offset(TailNow)
      BY <1>2, Distances
    <3>2. Offset(heads[k].word) \in Nat /\ Offset(TailNow) \in Nat
      BY <1>2, Window
    <3> QED BY <3>1, <3>2
  <2>3. new[1].word = heads[k].word
    BY <1>2, <1>5
  <2>4. DOMAIN new = 1..Len(new)
    BY <1>5
  <2> QED BY <2>1, <2>2, <2>3, <2>4, <1>1, <1>3, <1>6
          DEF CountersOrdered, Increasing, Offset
<1>10. LogsCarrySlots'
  <2>1. ASSUME NEW j \in 2..Len(new)
        PROVE  new[j].slots = Between(new[j - 1].word, new[j].word)
    <3>1. /\ k + j - 1 \in 2..Len(heads) /\ k + (j - 1) - 1 = (k + j - 1) - 1
          /\ j - 1 \in 1..Len(new) /\ j \in 1..Len(new)
      BY <1>2, <1>5
    <3>2. heads[k + j - 1].slots = Between(heads[(k + j - 1) - 1].word, heads[k + j - 1].word)
      BY <3>1, <1>1 DEF LogsCarrySlots
    <3>3. new[j - 1].word = heads[k + (j - 1) - 1].word /\ new[j].word = heads[k + j - 1].word
      BY <3>1, <1>5
    <3>4. new[j].slots = heads[k + j - 1].slots
      BY <1>5
    <3> QED BY <3>1, <3>2, <3>3, <3>4
  <2>2. \A j \in 2..Len(heads') : heads'[j].slots = Between(heads'[j - 1].word, heads'[j].word)
    BY <2>1, <1>6
  <2>3. heads'[1].slots = {} /\ tails' = tails
    BY <1>3, <1>5, <1>6
  <2>4. /\ wrote' = {Slot(Word(HeadNow' + n)) : n \in 0..(filled' - 1)}
        /\ read' = {Slot(Word(TailNow' + n)) : n \in 0..(Len(out') - 1)}
    BY <1>1, <1>3, <1>6 DEF LogsCarrySlots
  <2>5. /\ tails[1].slots = {}
        /\ \A j \in 2..Len(tails) : tails[j].slots = Between(tails[j - 1].word, tails[j].word)
    BY <1>1 DEF LogsCarrySlots
  <2> QED BY <2>2, <2>3, <2>4, <2>5, SMTT(20) DEF LogsCarrySlots, Between
<1>11. SlotsHoldItems'
  BY <1>1, <1>3, <1>6 DEF SlotsHoldItems
<1> QED BY <1>8, <1>9, <1>10, <1>11 DEF Inv, RingInv

\* The window's arithmetic, without its quantifiers.
LEMMA Bounds ==
  ASSUME Inv
  PROVE  /\ Capacity \in Nat /\ WordMod \in Nat /\ Capacity < WordMod
         /\ Len(batch) \in Nat /\ filled \in Nat /\ want \in Nat /\ Len(out) \in Nat
         /\ Offset(TailNow) \in Nat /\ Offset(HeadNow) \in Nat
         /\ Offset(TailNow) + want <= Offset(HeadNow)
         /\ Offset(HeadNow) + Len(batch) <= Capacity
         /\ Used(HeadNow, TailNow) = Offset(HeadNow) - Offset(TailNow)
<1>1. Len(heads) \in 1..Len(heads) /\ HeadNow = heads[Len(heads)].word
  BY Logs DEF Inv
<1>2. Offset(HeadNow) \in (Offset(TailNow) + want)..Offset(HeadNow)
  BY <1>1, Window
<1>3. /\ Capacity \in Nat /\ WordMod \in Nat /\ Capacity < WordMod
      /\ Len(batch) \in Nat /\ want \in Nat /\ Len(out) \in Nat /\ filled \in Nat
      /\ Offset(TailNow) \in Nat /\ Offset(HeadNow) \in Nat
      /\ Offset(HeadNow) + Len(batch) <= Capacity
  BY Window, RingAssumption DEF Inv, RingTypeOK
<1> QED BY <1>2, <1>3, Distances

\* Slots counted from 1, as the items of a batch are.
LEMMA SlotOfItem ==
  ASSUME Inv, NEW w \in Words, NEW i \in Nat \ {0}
  PROVE  Slot(Word(w + i - 1)) = SlotAt(Offset(w) + (i - 1)) /\ Slot(Word(w + i - 1)) \in Slots
<1>1. w \in Nat /\ i - 1 \in Nat /\ w + i - 1 = w + (i - 1)
  BY RingAssumption DEF Words
<1> QED BY <1>1, Distances

\* Writing a slot.
LEMMA WriteInv ==
  ASSUME Inv, Write
  PROVE  Inv'
<1>1. RingTypeOK /\ CountersOrdered /\ LogsCarrySlots /\ SlotsHoldItems
  BY DEF Inv, RingInv
<1>2. /\ data' = [data EXCEPT ![WriteSlot] = batch[filled + 1]]
      /\ wrote' = wrote \cup {WriteSlot} /\ filled' = filled + 1
      /\ filled < Len(batch) /\ filled \in Nat /\ filled + 1 \in 1..Len(batch)
      /\ heads' = heads /\ tails' = tails /\ batch' = batch
      /\ want' = want /\ out' = out /\ read' = read /\ got' = got
  BY <1>1 DEF Write, consumer, RingTypeOK
<1>3. HeadNow' = HeadNow /\ TailNow' = TailNow
  BY <1>2 DEF HeadNow, TailNow
<1>4. PICK oh \in Nat, ot \in Nat :
          /\ oh = Offset(HeadNow) /\ ot = Offset(TailNow)
          /\ ot + want <= oh /\ oh + Len(batch) <= Capacity
          /\ Used(HeadNow, TailNow) = oh - ot
  <2>1. Offset(HeadNow) \in (Offset(TailNow) + want)..Offset(HeadNow)
    BY <1>1, Window, Logs
  <2> QED BY <2>1, Window, Distances
<1>5. WriteSlot = SlotAt(oh + filled) /\ WriteSlot \in Slots
  BY <1>1, <1>2, <1>4, Logs, Distances DEF WriteSlot
<1>6. RingTypeOK'
  BY <1>1, <1>2, <1>5 DEF RingTypeOK
<1>7. CountersOrdered'
  BY <1>1, <1>2, <1>3 DEF CountersOrdered, Increasing, Offset
<1>8. LogsCarrySlots'
  <2>1. wrote' = {Slot(Word(HeadNow + n)) : n \in 0..(filled' - 1)}
    <3>1. wrote = {Slot(Word(HeadNow + n)) : n \in 0..(filled - 1)}
      BY <1>1 DEF LogsCarrySlots
    <3>2. 0..(filled' - 1) = (0..(filled - 1)) \cup {filled}
      BY <1>2
    <3> QED BY <3>1, <3>2, <1>2 DEF WriteSlot
  <2>2. HeadNow' = HeadNow /\ TailNow' = TailNow /\ heads' = heads /\ tails' = tails
        /\ read' = read /\ out' = out
    BY <1>2, <1>3
  <2>3. wrote' = {Slot(Word(HeadNow' + n)) : n \in 0..(filled' - 1)}
    BY <2>1, <2>2
  <2> QED BY <2>2, <2>3, <1>1 DEF LogsCarrySlots, Between
<1>9. ASSUME NEW n \in Nat, n < oh + filled
      PROVE  data'[SlotAt(n)] = data[SlotAt(n)]
  <2>1. SlotAt(n) # WriteSlot
    <3>1. oh + filled < Capacity /\ oh + filled \in Nat /\ Capacity \in Nat
      BY <1>2, <1>4, Window, SMTT(20)
    <3>2. n < Capacity /\ n # oh + filled
      BY <3>1, <1>9
    <3> QED BY <3>1, <3>2, <1>5, <1>9, Apart
  <2> QED BY <2>1, <1>1, <1>2 DEF RingTypeOK
<1>10. SlotsHoldItems'
  <2>1. ASSUME NEW i \in 1..(filled + 1)
        PROVE  data'[Slot(Word(HeadNow + i - 1))] = batch[i]
    <3>1. Slot(Word(HeadNow + i - 1)) = SlotAt(oh + (i - 1))
      BY <1>1, <1>2, <1>4, Logs, SlotOfItem
    <3>2. CASE i = filled + 1
      BY <3>1, <3>2, <1>1, <1>2, <1>5 DEF RingTypeOK
    <3>3. CASE i \in 1..filled
      <4>1. oh + (i - 1) \in Nat /\ oh + (i - 1) < oh + filled
        BY <3>3, <1>2, <1>4
      <4> QED BY <4>1, <3>1, <3>3, <1>1, <1>9 DEF SlotsHoldItems
    <3> QED BY <3>2, <3>3, <1>2
  <2>2. ASSUME NEW i \in 1..(oh - ot)
        PROVE  data'[Slot(Word(TailNow + i - 1))] = data[Slot(Word(TailNow + i - 1))]
    <3>1. Slot(Word(TailNow + i - 1)) = SlotAt(ot + (i - 1))
      BY <1>1, <1>4, Logs, SlotOfItem
    <3>2. ot + (i - 1) \in Nat /\ ot + (i - 1) < oh + filled
      BY <1>2, <1>4
    <3> QED BY <3>1, <3>2, <1>9
  <2>3. \A i \in 1..Len(out) : i \in 1..(oh - ot)
    BY <1>1, <1>4, Window
  <2> QED BY <2>1, <2>2, <2>3, <1>1, <1>2, <1>3, <1>4 DEF SlotsHoldItems
<1> QED BY <1>6, <1>7, <1>8, <1>10 DEF Inv, RingInv

\* Reading a slot.
LEMMA ReadInv ==
  ASSUME Inv, Read
  PROVE  Inv'
<1>1. RingTypeOK /\ CountersOrdered /\ LogsCarrySlots /\ SlotsHoldItems
  BY DEF Inv, RingInv
<1>2. /\ out' = Append(out, data[ReadSlot]) /\ read' = read \cup {ReadSlot}
      /\ Len(out) < want /\ Len(out) \in Nat
      /\ data' = data /\ heads' = heads /\ tails' = tails
      /\ batch' = batch /\ filled' = filled /\ wrote' = wrote
      /\ want' = want /\ got' = got
  BY <1>1 DEF Read, producer, RingTypeOK
<1>3. HeadNow' = HeadNow /\ TailNow' = TailNow
  BY <1>2 DEF HeadNow, TailNow
<1>4. Len(out) + 1 \in 1..Used(HeadNow, TailNow)
  <2>1. Offset(HeadNow) \in (Offset(TailNow) + want)..Offset(HeadNow)
    BY <1>1, Window, Logs
  <2> QED BY <2>1, <1>2, Window, Distances
<1>5. ReadSlot = Slot(Word(TailNow + (Len(out) + 1) - 1)) /\ ReadSlot \in Slots
  <2>1. TailNow \in Nat /\ TailNow + (Len(out) + 1) - 1 = TailNow + Len(out)
    BY <1>1, <1>2, Logs, RingAssumption DEF Words
  <2> QED BY <2>1, <1>1, <1>2, Logs, Distances DEF ReadSlot
<1>6. data[ReadSlot] \in Items
  BY <1>1, <1>4, <1>5 DEF SlotsHoldItems
<1>7. RingTypeOK'
  BY <1>1, <1>2, <1>5, <1>6 DEF RingTypeOK
<1>8. CountersOrdered'
  BY <1>1, <1>2, <1>3 DEF CountersOrdered, Increasing, Offset
<1>9. LogsCarrySlots'
  <2>1. read' = {Slot(Word(TailNow + n)) : n \in 0..(Len(out') - 1)}
    <3>1. read = {Slot(Word(TailNow + n)) : n \in 0..(Len(out) - 1)}
      BY <1>1 DEF LogsCarrySlots
    <3>2. 0..(Len(out') - 1) = (0..(Len(out) - 1)) \cup {Len(out)}
      BY <1>1, <1>2, <1>6 DEF RingTypeOK
    <3> QED BY <3>1, <3>2, <1>2 DEF ReadSlot
  <2> QED BY <2>1, <1>1, <1>2, <1>3 DEF LogsCarrySlots, Between
<1>10. SlotsHoldItems'
  <2>1. ASSUME NEW i \in 1..Len(out')
        PROVE  data[Slot(Word(TailNow + i - 1))] = out'[i]
    <3>1. CASE i = Len(out) + 1
      BY <3>1, <1>1, <1>2, <1>5, <1>6 DEF RingTypeOK
    <3>2. CASE i \in 1..Len(out)
      BY <3>2, <1>1, <1>2, <1>6 DEF SlotsHoldItems, RingTypeOK
    <3> QED BY <3>1, <3>2, <1>1, <1>2, <1>6 DEF RingTypeOK
  <2> QED BY <2>1, <1>1, <1>2, <1>3 DEF SlotsHoldItems
<1> QED BY <1>7, <1>8, <1>9, <1>10 DEF Inv, RingInv

\* What the store of head_ does to the counters: the head moves up to the last
\* item written.
LEMMA PublishCounters ==
  ASSUME Inv, Publish
  PROVE  \E w \in Words :
           /\ w = Word(HeadNow + Len(batch)) /\ heads' = Stored(heads, w, wrote)
           /\ heads' \in Seq(Entries) /\ Len(heads') = Len(heads) + 1
           /\ \A j \in 1..Len(heads) : heads'[j] = heads[j]
           /\ heads'[Len(heads) + 1].word = w /\ heads'[Len(heads) + 1].slots = wrote
           /\ HeadNow' = w /\ TailNow' = TailNow
           /\ Used(w, HeadNow) = Len(batch)
           /\ Offset(w) = Offset(HeadNow) + Len(batch)
           /\ Used(w, TailNow) = Used(HeadNow, TailNow) + Len(batch)
<1>1. RingTypeOK /\ heads \in Seq(Entries) /\ wrote \in SUBSET Slots
  BY DEF Inv, RingTypeOK
<1>2. Len(batch) \in Nat /\ Len(batch) < WordMod /\ Offset(HeadNow) + Len(batch) < WordMod
  BY Bounds
<1>3. PICK w : w = Word(HeadNow + Len(batch))
  OBVIOUS
<1>4. tails[1].word \in Words /\ HeadNow \in Words /\ TailNow \in Words
  BY <1>1, Logs
<1>5. w \in Words /\ Offset(w) = Offset(HeadNow) + Len(batch)
  BY <1>2, <1>3, <1>4, Advance DEF Offset
<1>6. Used(w, HeadNow) = Len(batch)
  BY <1>2, <1>3, <1>4, UsedSelf, Advance
<1>7. Used(w, TailNow) = Used(HeadNow, TailNow) + Len(batch)
  <2>1. Used(HeadNow, TailNow) + Len(batch) < WordMod
    BY Bounds
  <2> QED BY <2>1, <1>2, <1>3, <1>4, Advance
<1>8. heads' = Stored(heads, w, wrote) /\ tails' = tails
  BY <1>3 DEF Publish
<1> QED BY <1>1, <1>3, <1>5, <1>6, <1>7, <1>8, StoredLog DEF HeadNow, TailNow

\* Storing head_.
LEMMA PublishInv ==
  ASSUME Inv, Publish
  PROVE  Inv'
<1>1. RingTypeOK /\ CountersOrdered /\ LogsCarrySlots /\ SlotsHoldItems
  BY DEF Inv, RingInv
<1>2. PICK w \in Words :
           /\ w = Word(HeadNow + Len(batch)) /\ heads' = Stored(heads, w, wrote)
           /\ heads' \in Seq(Entries) /\ Len(heads') = Len(heads) + 1
           /\ \A j \in 1..Len(heads) : heads'[j] = heads[j]
           /\ heads'[Len(heads) + 1].word = w /\ heads'[Len(heads) + 1].slots = wrote
           /\ HeadNow' = w /\ TailNow' = TailNow
           /\ Used(w, HeadNow) = Len(batch)
           /\ Offset(w) = Offset(HeadNow) + Len(batch)
           /\ Used(w, TailNow) = Used(HeadNow, TailNow) + Len(batch)
  BY PublishCounters
<1>3. /\ filled = Len(batch) /\ Len(batch) \in Nat
      /\ batch' = <<>> /\ filled' = 0 /\ wrote' = {}
      /\ data' = data /\ tails' = tails
      /\ want' = want /\ out' = out /\ read' = read /\ got' = got
  BY <1>1 DEF Publish, Complete, consumer, RingTypeOK
<1>4. RingTypeOK'
  BY <1>1, <1>2, <1>3 DEF RingTypeOK
<1>5. Len(heads) \in Nat \ {0} /\ DOMAIN heads = 1..Len(heads)
      /\ DOMAIN heads' = 1..(Len(heads) + 1)
  BY <1>1, <1>2, Logs
<1>6. CountersOrdered'
  <2>1. ASSUME NEW i \in 1..(Len(heads) + 1), NEW j \in 1..(Len(heads) + 1), i <= j
        PROVE  Offset(heads'[i].word) <= Offset(heads'[j].word)
    <3>1. CASE j \in 1..Len(heads)
      <4>1. i \in 1..Len(heads) /\ heads'[i] = heads[i] /\ heads'[j] = heads[j]
        BY <2>1, <3>1, <1>2, <1>5
      <4> QED BY <4>1, <3>1, <2>1, <1>1, <1>5 DEF CountersOrdered, Increasing
    <3>2. CASE i = Len(heads) + 1 /\ j = Len(heads) + 1
      <4>1. Offset(w) \in Nat
        BY <1>1, Logs, UsedType DEF Offset
      <4> QED BY <4>1, <3>2, <1>2
    <3>3. CASE i \in 1..Len(heads) /\ j = Len(heads) + 1
      <4>1. Offset(heads[i].word) \in (Offset(TailNow) + want)..Offset(HeadNow)
        BY <3>3, Window
      <4>2. Offset(heads[i].word) \in Nat /\ Offset(heads[i].word) <= Offset(HeadNow)
            /\ Offset(HeadNow) \in Nat
        BY <4>1, Window
      <4> QED BY <4>2, <3>3, <1>2, <1>3
    <3> QED BY <3>1, <3>2, <3>3, <2>1, <1>5
  <2>2. Offset(w) + Len(batch') <= Capacity
    <3>1. Len(batch') = 0 /\ Offset(w) \in Nat
      BY <1>1, <1>3, Logs, UsedType DEF Offset
    <3> QED BY <3>1, <1>2, Window
  <2>3. heads'[1].word = heads[1].word
    BY <1>2, <1>5
  <2> QED BY <2>1, <2>2, <2>3, <1>1, <1>2, <1>3, <1>5
          DEF CountersOrdered, Increasing, Offset
<1>7. LogsCarrySlots'
  <2>1. wrote = Between(HeadNow, w)
    BY <1>1, <1>2, <1>3 DEF LogsCarrySlots, Between
  <2>2. ASSUME NEW k \in 2..(Len(heads) + 1)
        PROVE  heads'[k].slots = Between(heads'[k - 1].word, heads'[k].word)
    <3>1. CASE k = Len(heads) + 1
      BY <2>1, <3>1, <1>1, <1>2, <1>5, Logs
    <3>2. CASE k \in 2..Len(heads)
      BY <3>2, <1>1, <1>2, <1>5 DEF LogsCarrySlots
    <3> QED BY <3>1, <3>2, <1>5
  <2>3. heads'[1].slots = {}
    BY <1>1, <1>2, <1>5 DEF LogsCarrySlots
  <2>4. wrote' = {Slot(Word(HeadNow' + n)) : n \in 0..(filled' - 1)}
    BY <1>3
  <2>5. /\ tails[1].slots = {} /\ read = {Slot(Word(TailNow + n)) : n \in 0..(Len(out) - 1)}
        /\ \A k \in 2..Len(tails) : tails[k].slots = Between(tails[k - 1].word, tails[k].word)
    BY <1>1 DEF LogsCarrySlots
  <2> QED BY <2>2, <2>3, <2>4, <2>5, <1>2, <1>3, SMTT(20) DEF LogsCarrySlots, Between
<1>8. SlotsHoldItems'
  <2>1. PICK old \in Nat : old = Used(HeadNow, TailNow)
    BY <1>1, Logs, UsedType
  <2>2. ASSUME NEW i \in 1..(old + Len(batch))
        PROVE  data[Slot(Word(TailNow + i - 1))] \in Items
    <3>1. CASE i \in 1..old
      BY <3>1, <2>1, <1>1 DEF SlotsHoldItems
    <3>2. CASE i \in (old + 1)..(old + Len(batch))
      <4>1. i - old \in 1..Len(batch) /\ i - old \in Nat \ {0} /\ i \in Nat \ {0}
        BY <3>2, <2>1, <1>3
      <4>2. Slot(Word(TailNow + i - 1)) = Slot(Word(HeadNow + (i - old) - 1))
        <5>1. Slot(Word(TailNow + i - 1)) = SlotAt(Offset(TailNow) + (i - 1))
          BY <4>1, <1>1, Logs, SlotOfItem
        <5>2. Slot(Word(HeadNow + (i - old) - 1)) = SlotAt(Offset(HeadNow) + ((i - old) - 1))
          BY <4>1, <1>1, Logs, SlotOfItem
        <5>3. Offset(TailNow) + (i - 1) = Offset(HeadNow) + ((i - old) - 1)
          <6>1. old = Offset(HeadNow) - Offset(TailNow)
                /\ Offset(HeadNow) \in Nat /\ Offset(TailNow) \in Nat
            BY <2>1, Bounds
          <6>2. PICK x \in Nat, y \in Nat : x = Offset(TailNow) /\ y = Offset(HeadNow)
            BY <6>1
          <6>3. i \in Nat /\ old \in Nat /\ old = y - x
            BY <4>1, <2>1, <6>1, <6>2
          <6>4. x + (i - 1) = y + ((i - old) - 1)
            BY <6>3, ShiftedItem
          <6> QED BY <6>2, <6>4
        <5> QED BY <5>1, <5>2, <5>3
      <4>3. data[Slot(Word(HeadNow + (i - old) - 1))] = batch[i - old]
        BY <4>1, <1>1, <1>3 DEF SlotsHoldItems
      <4> QED BY <4>1, <4>2, <4>3, <1>1 DEF RingTypeOK
    <3> QED BY <3>1, <3>2, <2>1, <1>3
  <2> QED BY <2>1, <2>2, <1>1, <1>2, <1>3 DEF SlotsHoldItems
<1> QED BY <1>4, <1>6, <1>7, <1>8 DEF Inv, RingInv

\* What the store of tail_ does to the counters: the tail moves up to the last
\* item read, which is not beyond any head the consumer may believe in.
LEMMA ReleaseCounters ==
  ASSUME Inv, Release
  PROVE  \E w \in Words :
           /\ w = Word(TailNow + want) /\ tails' = Stored(tails, w, read)
           /\ tails' \in Seq(Entries) /\ Len(tails') = Len(tails) + 1
           /\ \A j \in 1..Len(tails) : tails'[j] = tails[j]
           /\ tails'[Len(tails) + 1].word = w /\ tails'[Len(tails) + 1].slots = read
           /\ TailNow' = w /\ HeadNow' = HeadNow
           /\ Used(w, TailNow) = want
           /\ Offset(w) = Offset(TailNow) + want
           /\ Used(HeadNow, w) = Used(HeadNow, TailNow) - want
           /\ want <= Used(HeadNow, TailNow)
<1>1. RingTypeOK /\ tails \in Seq(Entries) /\ read \in SUBSET Slots
  BY DEF Inv, RingTypeOK
<1>2. Offset(TailNow) + want <= Offset(HeadNow) /\ Offset(HeadNow) < WordMod
      /\ want \in Nat /\ Offset(TailNow) \in Nat /\ Offset(HeadNow) \in Nat /\ want < WordMod
  BY Bounds
<1>3. PICK w : w = Word(TailNow + want)
  OBVIOUS
<1>4. tails[1].word \in Words /\ HeadNow \in Words /\ TailNow \in Words
  BY <1>1, Logs
<1>5. w \in Words /\ Offset(w) = Offset(TailNow) + want
  <2>1. Offset(TailNow) + want < WordMod
    BY <1>2, Bounds
  <2>2. Used(TailNow, tails[1].word) + want < WordMod
    BY <2>1 DEF Offset
  <2> QED BY <2>2, <1>2, <1>3, <1>4, Advance DEF Offset
<1>6. Used(w, TailNow) = want
  BY <1>2, <1>3, <1>4, UsedSelf, Advance
<1>7. Used(HeadNow, TailNow) = Offset(HeadNow) - Offset(TailNow)
  BY Distances
<1>8. Used(HeadNow, w) = Used(HeadNow, TailNow) - want /\ want <= Used(HeadNow, TailNow)
  BY <1>2, <1>4, <1>5, <1>6, <1>7, Shift
<1>9. tails' = Stored(tails, w, read) /\ heads' = heads
  BY <1>3 DEF Release
<1> QED BY <1>1, <1>3, <1>5, <1>6, <1>8, <1>9, StoredLog DEF HeadNow, TailNow

\* Storing tail_.
LEMMA ReleaseInv ==
  ASSUME Inv, Release
  PROVE  Inv'
<1>1. RingTypeOK /\ CountersOrdered /\ LogsCarrySlots /\ SlotsHoldItems
  BY DEF Inv, RingInv
<1>2. PICK w \in Words :
           /\ w = Word(TailNow + want) /\ tails' = Stored(tails, w, read)
           /\ tails' \in Seq(Entries) /\ Len(tails') = Len(tails) + 1
           /\ \A j \in 1..Len(tails) : tails'[j] = tails[j]
           /\ tails'[Len(tails) + 1].word = w /\ tails'[Len(tails) + 1].slots = read
           /\ TailNow' = w /\ HeadNow' = HeadNow
           /\ Used(w, TailNow) = want
           /\ Offset(w) = Offset(TailNow) + want
           /\ Used(HeadNow, w) = Used(HeadNow, TailNow) - want
           /\ want <= Used(HeadNow, TailNow)
  BY ReleaseCounters
<1>3. /\ Len(out) = want /\ want \in Nat /\ want' = 0 /\ out' = <<>> /\ read' = {}
      /\ got' = out /\ data' = data /\ heads' = heads
      /\ batch' = batch /\ filled' = filled /\ wrote' = wrote
  BY <1>1 DEF Release, Complete, producer, RingTypeOK
<1>4. RingTypeOK'
  BY <1>1, <1>2, <1>3 DEF RingTypeOK
<1>5. Len(tails) \in Nat \ {0} /\ DOMAIN tails = 1..Len(tails)
      /\ DOMAIN tails' = 1..(Len(tails) + 1) /\ 1 \in 1..Len(heads)
  BY <1>1, <1>2, Logs
<1>6. tails'[1] = tails[1]
  BY <1>2, <1>5
<1>7. CountersOrdered'
  <2>1. ASSUME NEW i \in 1..(Len(tails) + 1), NEW j \in 1..(Len(tails) + 1), i <= j
        PROVE  Offset(tails'[i].word) <= Offset(tails'[j].word)
    <3>1. CASE j \in 1..Len(tails)
      <4>1. i \in 1..Len(tails) /\ tails'[i] = tails[i] /\ tails'[j] = tails[j]
        BY <2>1, <3>1, <1>2, <1>5
      <4> QED BY <4>1, <3>1, <2>1, <1>1, <1>5 DEF CountersOrdered, Increasing
    <3>2. CASE i = Len(tails) + 1 /\ j = Len(tails) + 1
      <4>1. Offset(w) \in Nat
        BY <1>1, Logs, UsedType DEF Offset
      <4> QED BY <4>1, <3>2, <1>2
    <3>3. CASE i \in 1..Len(tails) /\ j = Len(tails) + 1
      <4>1. Offset(tails[i].word) \in 0..Offset(TailNow)
        BY <3>3, Window
      <4>2. Offset(tails[i].word) \in Nat /\ Offset(tails[i].word) <= Offset(TailNow)
            /\ Offset(TailNow) \in Nat
        BY <4>1, Window
      <4> QED BY <4>2, <3>3, <1>2, <1>3
    <3> QED BY <3>1, <3>2, <3>3, <2>1, <1>5
  <2>2. Offset(w) + 0 <= Offset(heads[1].word)
    <3>1. Offset(heads[1].word) \in (Offset(TailNow) + want)..Offset(HeadNow)
      BY <1>5, Window
    <3> QED BY <3>1, <1>2, <1>3, Window
  <2>3. Offset(TailNow)' + want' <= Offset(heads[1].word)'
    BY <2>2, <1>2, <1>3, <1>5, <1>6 DEF Offset
  <2>4. Increasing(tails)'
    BY <2>1, <1>5, <1>6 DEF Increasing, Offset
  <2>5. Increasing(heads)' /\ Offset(HeadNow)' + Len(batch)' <= Capacity
    BY <1>1, <1>2, <1>3, <1>6 DEF CountersOrdered, Increasing, Offset
  <2> QED BY <2>3, <2>4, <2>5 DEF CountersOrdered
<1>8. LogsCarrySlots'
  <2>1. read = Between(TailNow, w)
    BY <1>1, <1>2, <1>3 DEF LogsCarrySlots, Between
  <2>2. ASSUME NEW k \in 2..(Len(tails) + 1)
        PROVE  tails'[k].slots = Between(tails'[k - 1].word, tails'[k].word)
    <3>1. CASE k = Len(tails) + 1
      BY <2>1, <3>1, <1>1, <1>2, <1>5, Logs
    <3>2. CASE k \in 2..Len(tails)
      BY <3>2, <1>1, <1>2, <1>5 DEF LogsCarrySlots
    <3> QED BY <3>1, <3>2, <1>5
  <2>3. tails'[1].slots = {}
    BY <1>1, <1>6 DEF LogsCarrySlots
  <2>4. read' = {Slot(Word(TailNow' + n)) : n \in 0..(Len(out') - 1)}
    BY <1>3
  <2>5. /\ heads[1].slots = {} /\ wrote = {Slot(Word(HeadNow + n)) : n \in 0..(filled - 1)}
        /\ \A k \in 2..Len(heads) : heads[k].slots = Between(heads[k - 1].word, heads[k].word)
    BY <1>1 DEF LogsCarrySlots
  <2>6. \A k \in 2..Len(tails') : tails'[k].slots = Between(tails'[k - 1].word, tails'[k].word)
    BY <2>2, <1>5
  <2>7. wrote' = wrote /\ heads' = heads /\ HeadNow' = HeadNow /\ filled' = filled
    BY <1>2, <1>3
  <2> QED BY <2>3, <2>4, <2>5, <2>6, <2>7, SMTT(20) DEF LogsCarrySlots, Between
<1>9. SlotsHoldItems'
  <2>1. PICK old \in Nat : old = Used(HeadNow, TailNow)
    BY <1>1, Logs, UsedType
  <2>2. ASSUME NEW i \in 1..(old - want)
        PROVE  data[Slot(Word(w + i - 1))] \in Items
    <3>1. i + want \in 1..old /\ i \in Nat \ {0} /\ i + want \in Nat \ {0}
      BY <2>1, <1>3
    <3>2. Slot(Word(w + i - 1)) = SlotAt(Offset(w) + (i - 1))
      BY <3>1, SlotOfItem
    <3>3. Slot(Word(TailNow + (i + want) - 1)) = SlotAt(Offset(TailNow) + ((i + want) - 1))
      BY <3>1, <1>1, Logs, SlotOfItem
    <3>4. Offset(w) + (i - 1) = Offset(TailNow) + ((i + want) - 1)
      BY <3>1, <1>2, <1>3, Window
    <3>5. data[Slot(Word(TailNow + (i + want) - 1))] \in Items
      BY <3>1, <2>1, <1>1 DEF SlotsHoldItems
    <3> QED BY <3>2, <3>3, <3>4, <3>5
  <2>3. \A i \in 1..filled : data[Slot(Word(HeadNow + i - 1))] = batch[i]
    BY <1>1 DEF SlotsHoldItems
  <2> QED BY <2>1, <2>2, <2>3, <1>1, <1>2, <1>3 DEF SlotsHoldItems
<1> QED BY <1>4, <1>7, <1>8, <1>9 DEF Inv, RingInv

\* The counts the calls compute fit.
LEMMA PushCounts ==
  ASSUME Inv, NEW k \in DOMAIN tails, NEW n \in Nat
  PROVE  LET used == Used(HeadNow, tails[k].word) IN
         /\ used \in 0..Capacity
         /\ RoomForOne(used) \in 0..1 /\ RoomForOne(used) <= Capacity - used
         /\ RoomForMany(used, n) \in 0..n /\ RoomForMany(used, n) <= Capacity - used
<1>1. RingTypeOK /\ k \in 1..Len(tails)
  BY Logs DEF Inv
<1>2. PICK used : used = Used(HeadNow, tails[k].word)
  OBVIOUS
<1>3. used \in 0..Capacity
  <2>1. used = Offset(HeadNow) - Offset(tails[k].word)
    BY <1>1, <1>2, Distances
  <2>2. Offset(tails[k].word) \in 0..Offset(TailNow)
    BY <1>1, Window
  <2> QED BY <2>1, <2>2, Bounds
<1>4. Capacity - used \in 0..Capacity /\ Word(Capacity - used) = Capacity - used
  <2>1. Capacity - used \in 0..Capacity /\ Capacity - used \in Words
    BY <1>3, Bounds DEF Words
  <2> QED BY <2>1, WordOfWord
<1>5. Capacity \in Nat
  BY RingAssumption
<1>6. RoomForOne(used) \in 0..1 /\ RoomForOne(used) <= Capacity - used
  BY <1>3, <1>5 DEF RoomForOne
<1>7. RoomForMany(used, n) \in 0..n /\ RoomForMany(used, n) <= Capacity - used
  BY <1>3, <1>4, <1>5 DEF RoomForMany, Lesser
<1> QED BY <1>2, <1>3, <1>6, <1>7

\* pop() and pop_many() never take more than the head they loaded shows.
LEMMA PopCounts ==
  ASSUME Inv, NEW k \in DOMAIN heads, NEW n \in Nat
  PROVE  LET used == Used(heads[k].word, TailNow) IN
         /\ StockForOne(used) \in Nat /\ StockForOne(used) <= used
         /\ StockForMany(used, n) \in Nat /\ StockForMany(used, n) <= used
<1>1. RingTypeOK /\ k \in 1..Len(heads)
  BY Logs DEF Inv
<1>2. Used(heads[k].word, TailNow) \in Nat
  BY <1>1, Logs, UsedType
<1> QED BY <1>2 DEF StockForOne, StockForMany, Lesser

\* Every step preserves the invariant.
LEMMA NextInv == Inv /\ [Next]_vars => Inv'
<1> SUFFICES ASSUME Inv, [Next]_vars PROVE Inv'
  OBVIOUS
<1>1. ASSUME NEW k \in DOMAIN tails, NEW x \in Items, Push(x, k) PROVE Inv'
  <2>1. <<x>> \in Seq(Items) /\ Len(<<x>>) = 1
    OBVIOUS
  <2> QED BY <1>1, <2>1, PushCounts, BeginPushInv DEF Push
<1>2. ASSUME NEW k \in DOMAIN tails, NEW in \in Batches, PushMany(in, k) PROVE Inv'
  <2>1. in \in Seq(Items) /\ Len(in) \in Nat
    BY RingAssumption DEF Batches
  <2> QED BY <1>2, <2>1, PushCounts, BeginPushInv DEF PushMany
<1>3. ASSUME NEW k \in DOMAIN heads, Pop(k) PROVE Inv'
  <2>1. 0 \in Nat
    OBVIOUS
  <2> QED BY <1>3, <2>1, PopCounts, BeginPopInv DEF Pop
<1>4. ASSUME NEW k \in DOMAIN heads, NEW n \in 0..MaxBatch, PopMany(n, k) PROVE Inv'
  <2>1. n \in Nat
    BY RingAssumption
  <2> QED BY <1>4, <2>1, PopCounts, BeginPopInv DEF PopMany
<1>5. CASE UNCHANGED vars
  BY <1>5 DEF vars, producer, consumer, Inv, RingInv, RingTypeOK, CountersOrdered, Increasing, Offset,
     LogsCarrySlots, SlotsHoldItems, HeadNow, TailNow
<1> QED BY <1>1, <1>2, <1>3, <1>4, <1>5, WriteInv, PublishInv, ReadInv, ReleaseInv DEF Next

\* The strengthening that makes the properties inductive holds throughout.
LEMMA Invariance == Spec => []Inv
BY InitInv, NextInv, PTL DEF Spec

\* Counters stay words, slots hold items, and a call never handles more items
\* than it accepted (spsc_ring.hpp 18-78).
THEOREM TypeCorrect == Spec => []RingTypeOK
<1>1. Inv => RingTypeOK
  BY DEF Inv
<1> QED BY <1>1, Invariance, PTL

\* However stale the counters the threads load, the counters stay within one
\* lap, every slot access carried by a store is accounted for, and the slots
\* hold the items the counters say they hold.
THEOREM RingInvariant == Spec => []RingInv
<1>1. Inv => RingInv
  BY DEF Inv
<1> QED BY <1>1, Invariance, PTL

\* The two threads never race on a slot.
THEOREM DataRaceFree == Spec => []NoRace
BY Invariance, InvNoRace, PTL
------------------------------------------------------------------------------
(* The ring implements a queue                                             *)

\* The queue's items, by offset.
LEMMA QueueItems ==
  ASSUME Inv
  PROVE  /\ Queue \in Seq(Items) /\ Len(Queue) = Used(HeadNow, TailNow)
         /\ Len(Queue) <= Capacity
         /\ \A i \in 1..Len(Queue) : Queue[i] = data[Slot(Word(TailNow + i - 1))]
<1>1. PICK n \in Nat : n = Used(HeadNow, TailNow) /\ n <= Capacity
  BY Bounds
<1>2. \A i \in 1..n : data[Slot(Word(TailNow + i - 1))] \in Items
  BY <1>1 DEF Inv, RingInv, SlotsHoldItems
<1>3. Queue = [i \in 1..n |-> data[Slot(Word(TailNow + i - 1))]]
  BY <1>1 DEF Queue
<1>4. Queue \in Seq(Items) /\ Len(Queue) = n
  BY <1>2, <1>3
<1> QED BY <1>1, <1>3, <1>4

\* A concatenation, item by item.
LEMMA Concatenation ==
  ASSUME NEW q \in Seq(Items), NEW b \in Seq(Items)
  PROVE  q \o b = [i \in 1..(Len(q) + Len(b)) |-> (q \o b)[i]]
<1>1. q \o b \in Seq(Items)
  BY ConcatProperties
<1>2. Len(q \o b) = Len(q) + Len(b)
  BY ConcatProperties
<1>3. q \o b = [i \in 1..Len(q \o b) |-> (q \o b)[i]]
  BY <1>1, LenProperties
<1> QED BY <1>2, <1>3

\* Storing head_ appends the batch.
LEMMA PublishRefines ==
  ASSUME Inv, Inv', Publish
  PROVE  Len(batch) \in 1..Capacity /\ batch \in [1..Len(batch) -> Items] /\ Fifo!Push(batch)
<1>1. RingTypeOK /\ SlotsHoldItems
  BY DEF Inv, RingInv
<1>2. PICK w \in Words :
           /\ w = Word(HeadNow + Len(batch)) /\ heads' = Stored(heads, w, wrote)
           /\ heads' \in Seq(Entries) /\ Len(heads') = Len(heads) + 1
           /\ \A j \in 1..Len(heads) : heads'[j] = heads[j]
           /\ heads'[Len(heads) + 1].word = w /\ heads'[Len(heads) + 1].slots = wrote
           /\ HeadNow' = w /\ TailNow' = TailNow
           /\ Used(w, HeadNow) = Len(batch)
           /\ Offset(w) = Offset(HeadNow) + Len(batch)
           /\ Used(w, TailNow) = Used(HeadNow, TailNow) + Len(batch)
  BY PublishCounters
<1>3. /\ filled = Len(batch) /\ Len(batch) \in Nat /\ Len(batch) > 0
      /\ data' = data /\ got' = got
  BY <1>1 DEF Publish, Complete, consumer, RingTypeOK
<1>4. PICK old \in Nat : old = Used(HeadNow, TailNow) /\ Len(Queue) = old /\ old <= Capacity
  BY QueueItems, Bounds
<1>5. old + Len(batch) <= Capacity
  BY <1>4, Bounds
<1>6. Queue' = [i \in 1..(old + Len(batch)) |-> data[Slot(Word(TailNow + i - 1))]]
  BY <1>2, <1>3, <1>4 DEF Queue
<1>7. ASSUME NEW i \in 1..(old + Len(batch))
      PROVE  data[Slot(Word(TailNow + i - 1))] = (Queue \o batch)[i]
  <2>1. CASE i \in 1..old
    BY <2>1, <1>1, <1>4, QueueItems DEF RingTypeOK
  <2>2. CASE i \in (old + 1)..(old + Len(batch))
    <3>1. i - old \in 1..Len(batch) /\ i - old \in Nat \ {0} /\ i \in Nat \ {0}
      BY <2>2, <1>3, <1>4
    <3>2. Slot(Word(TailNow + i - 1)) = SlotAt(Offset(TailNow) + (i - 1))
      BY <3>1, <1>1, Logs, SlotOfItem
    <3>3. Slot(Word(HeadNow + (i - old) - 1)) = SlotAt(Offset(HeadNow) + ((i - old) - 1))
      BY <3>1, <1>1, Logs, SlotOfItem
    <3>4. Offset(TailNow) + (i - 1) = Offset(HeadNow) + ((i - old) - 1)
      <4>1. old = Offset(HeadNow) - Offset(TailNow)
            /\ Offset(HeadNow) \in Nat /\ Offset(TailNow) \in Nat
        BY <1>4, Bounds
      <4>2. PICK x \in Nat, y \in Nat : x = Offset(TailNow) /\ y = Offset(HeadNow)
        BY <4>1
      <4>3. i \in Nat /\ old \in Nat /\ old = y - x
        BY <3>1, <1>4, <4>1, <4>2
      <4>4. x + (i - 1) = y + ((i - old) - 1)
        BY <4>3, ShiftedItem
      <4> QED BY <4>2, <4>4
    <3>5. data[Slot(Word(HeadNow + (i - old) - 1))] = batch[i - old]
      BY <3>1, <1>1, <1>3 DEF SlotsHoldItems
    <3>6. (Queue \o batch)[i] = batch[i - old]
      <4>1. /\ Queue \in Seq(Items) /\ batch \in Seq(Items) /\ Len(Queue) = old
            /\ i \in (Len(Queue) + 1)..(Len(Queue) + Len(batch))
        BY <2>2, <1>1, <1>4, QueueItems DEF RingTypeOK
      <4> QED BY <4>1
    <3> QED BY <3>2, <3>3, <3>4, <3>5, <3>6
  <2> QED BY <2>1, <2>2, <1>3, <1>4
<1>8. Queue' = Queue \o batch
  <2>1. Queue \in Seq(Items) /\ batch \in Seq(Items)
    BY <1>1, QueueItems DEF RingTypeOK
  <2> DEFINE Both == Queue \o batch
  <2>2. Both = [i \in 1..(Len(Queue) + Len(batch)) |-> Both[i]]
    BY <2>1, Concatenation
  <2>3. Both = [i \in 1..(old + Len(batch)) |-> Both[i]]
    BY <2>2, <1>4
  <2>4. \A i \in 1..(old + Len(batch)) : data[Slot(Word(TailNow + i - 1))] = Both[i]
    BY <1>7
  <2> HIDE DEF Both
  <2>5. Queue' = Both
    BY <2>3, <2>4, <1>6
  <2> QED BY <2>5 DEF Both
<1>9. Len(batch) \in 1..Capacity
  BY <1>3, <1>4, <1>5, RingAssumption
<1>10. batch \in [1..Len(batch) -> Items]
  BY <1>1 DEF RingTypeOK
<1>11. Fifo!Push(batch)
  BY <1>3, <1>4, <1>5, <1>8 DEF Fifo!Push
<1> QED BY <1>9, <1>10, <1>11

\* Storing tail_ removes the items that were copied out.
LEMMA ReleaseRefines ==
  ASSUME Inv, Inv', Release
  PROVE  want \in 1..Len(Queue) /\ Fifo!Pop(want)
<1>1. RingTypeOK /\ SlotsHoldItems
  BY DEF Inv, RingInv
<1>2. PICK w \in Words :
           /\ w = Word(TailNow + want) /\ tails' = Stored(tails, w, read)
           /\ tails' \in Seq(Entries) /\ Len(tails') = Len(tails) + 1
           /\ \A j \in 1..Len(tails) : tails'[j] = tails[j]
           /\ tails'[Len(tails) + 1].word = w /\ tails'[Len(tails) + 1].slots = read
           /\ TailNow' = w /\ HeadNow' = HeadNow
           /\ Used(w, TailNow) = want
           /\ Offset(w) = Offset(TailNow) + want
           /\ Used(HeadNow, w) = Used(HeadNow, TailNow) - want
           /\ want <= Used(HeadNow, TailNow)
  BY ReleaseCounters
<1>3. /\ Len(out) = want /\ want \in Nat /\ want > 0 /\ out \in Seq(Items)
      /\ got' = out /\ data' = data
  BY <1>1 DEF Release, Complete, producer, RingTypeOK
<1>4. PICK old \in Nat : old = Used(HeadNow, TailNow) /\ Len(Queue) = old /\ want <= old
  BY <1>2, QueueItems, Bounds
<1>5. got' = SubSeq(Queue, 1, want)
  <2>1. \A i \in 1..want : out[i] = Queue[i]
    BY <1>1, <1>3, <1>4, QueueItems DEF SlotsHoldItems
  <2>2. SubSeq(Queue, 1, want) = [i \in 1..want |-> Queue[i]]
    BY <1>3, <1>4, QueueItems
  <2>3. out = [i \in 1..want |-> out[i]]
    BY <1>3
  <2> QED BY <2>1, <2>2, <2>3, <1>3
<1>6. Queue' = SubSeq(Queue, want + 1, Len(Queue))
  <2>1. Queue' = [i \in 1..(old - want) |-> data[Slot(Word(w + i - 1))]]
    BY <1>2, <1>3, <1>4 DEF Queue
  <2>2. ASSUME NEW i \in 1..(old - want)
        PROVE  data[Slot(Word(w + i - 1))] = Queue[want + i]
    <3>1. want + i \in 1..old /\ i \in Nat \ {0} /\ want + i \in Nat \ {0}
      BY <1>3, <1>4
    <3>2. Slot(Word(w + i - 1)) = SlotAt(Offset(w) + (i - 1))
      BY <3>1, SlotOfItem
    <3>3. Slot(Word(TailNow + (want + i) - 1)) = SlotAt(Offset(TailNow) + ((want + i) - 1))
      BY <3>1, <1>1, Logs, SlotOfItem
    <3>4. Offset(w) + (i - 1) = Offset(TailNow) + ((want + i) - 1)
      BY <3>1, <1>2, <1>3, Bounds
    <3>5. Queue[want + i] = data[Slot(Word(TailNow + (want + i) - 1))]
      BY <3>1, <1>4, QueueItems
    <3> QED BY <3>2, <3>3, <3>4, <3>5
  <2>3. SubSeq(Queue, want + 1, old) = [i \in 1..(old - want) |-> Queue[want + i]]
    BY <1>3, <1>4, QueueItems
  <2> QED BY <2>1, <2>2, <2>3, <1>4
<1> QED BY <1>3, <1>4, <1>5, <1>6 DEF Fifo!Pop

\* Writing a slot does not touch what is queued.
LEMMA WriteRefines ==
  ASSUME Inv, Write
  PROVE  UNCHANGED <<Queue, got>>
<1>1. RingTypeOK
  BY DEF Inv
<1>2. /\ data' = [data EXCEPT ![WriteSlot] = batch[filled + 1]]
      /\ filled < Len(batch) /\ filled \in Nat
      /\ HeadNow' = HeadNow /\ TailNow' = TailNow /\ got' = got
  BY <1>1 DEF Write, consumer, RingTypeOK, HeadNow, TailNow
<1>3. PICK n \in Nat : n = Used(HeadNow, TailNow)
  BY Bounds
<1>4. ASSUME NEW i \in 1..n
      PROVE  data'[Slot(Word(TailNow + i - 1))] = data[Slot(Word(TailNow + i - 1))]
  <2>1. Slot(Word(TailNow + i - 1)) = SlotAt(Offset(TailNow) + (i - 1))
        /\ Slot(Word(TailNow + i - 1)) \in Slots
    BY <1>1, Logs, SlotOfItem
  <2>2. WriteSlot = SlotAt(Offset(HeadNow) + filled)
    BY <1>1, <1>2, Logs, Distances DEF WriteSlot
  <2>3. /\ Offset(TailNow) + (i - 1) \in Nat /\ Offset(HeadNow) + filled \in Nat
        /\ Offset(TailNow) + (i - 1) < Offset(HeadNow) + filled
        /\ Offset(HeadNow) + filled < Capacity /\ Offset(TailNow) + (i - 1) < Capacity
    <3>1. n = Offset(HeadNow) - Offset(TailNow)
      BY <1>3, Bounds
    <3>2. i \in Nat /\ 1 <= i /\ i <= n
      BY <1>3
    <3>3. /\ Offset(TailNow) \in Nat /\ Offset(HeadNow) \in Nat /\ Capacity \in Nat
          /\ Len(batch) \in Nat /\ Offset(HeadNow) + Len(batch) <= Capacity
      BY Bounds
    <3>4. filled \in Nat /\ filled < Len(batch)
      BY <1>2
    <3> QED BY <3>1, <3>2, <3>3, <3>4
  <2>4. SlotAt(Offset(TailNow) + (i - 1)) # SlotAt(Offset(HeadNow) + filled)
    BY <2>3, Apart
  <2> QED BY <2>1, <2>2, <2>4, <1>1, <1>2 DEF RingTypeOK
<1> QED BY <1>2, <1>3, <1>4 DEF Queue

\* Loads change what is known, not what is queued.
LEMMA LoadsRefine ==
  ASSUME Inv, Inv'
  PROVE  /\ \A in, k, count : k \in DOMAIN tails /\ BeginPush(in, k, count) => UNCHANGED <<Queue, got>>
         /\ \A k, count : k \in DOMAIN heads /\ BeginPop(k, count) => UNCHANGED <<Queue, got>>
<1>1. heads \in Seq(Entries) /\ tails \in Seq(Entries)
      /\ DOMAIN heads = 1..Len(heads) /\ DOMAIN tails = 1..Len(tails)
  BY Logs DEF Inv, RingTypeOK
<1>2. ASSUME NEW in, NEW k \in DOMAIN tails, NEW count, BeginPush(in, k, count)
      PROVE  UNCHANGED <<Queue, got>>
  <2>1. data' = data /\ HeadNow' = HeadNow /\ got' = got /\ tails' = Loaded(tails, k)
    BY <1>2 DEF BeginPush, HeadNow, consumer
  <2>2. TailNow' = TailNow
    BY <2>1, <1>1, <1>2, LoadedLog DEF TailNow
  <2> QED BY <2>1, <2>2 DEF Queue
<1>3. ASSUME NEW k \in DOMAIN heads, NEW count, BeginPop(k, count)
      PROVE  UNCHANGED <<Queue, got>>
  <2>1. data' = data /\ TailNow' = TailNow /\ got' = got /\ heads' = Loaded(heads, k)
    BY <1>3 DEF BeginPop, TailNow
  <2>2. HeadNow' = HeadNow
    BY <2>1, <1>1, <1>3, LoadedLog DEF HeadNow
  <2> QED BY <2>1, <2>2 DEF Queue
<1> QED BY <1>2, <1>3

\* Every behaviour of the two threads is, seen from the outside, that of one
\* bounded first-in first-out queue: nothing is lost, repeated, reordered or
\* overwritten, whatever the interleaving and however stale the loads.
THEOREM ImplementsQueue == Spec => ImplementsFifo
<1>1. Init => Fifo!Init
  <2> SUFFICES ASSUME Init PROVE Fifo!Init
    OBVIOUS
  <2>1. HeadNow = 0 /\ TailNow = 0 /\ got = <<>> /\ 0 \in Words
    BY RingAssumption DEF Init, HeadNow, TailNow, Latest, Words
  <2>2. Used(HeadNow, TailNow) = 0
    BY <2>1, UsedSelf
  <2>3. Queue = <<>>
    BY <2>2 DEF Queue
  <2> QED BY <2>1, <2>3 DEF Fifo!Init
<1>2. Inv /\ Inv' /\ [Next]_vars => [Fifo!Next]_(Fifo!vars)
  <2> SUFFICES ASSUME Inv, Inv', [Next]_vars PROVE [Fifo!Next]_(Fifo!vars)
    OBVIOUS
  <2>1. CASE Publish
    BY <2>1, PublishRefines DEF Fifo!Next
  <2>2. CASE Release
    BY <2>2, ReleaseRefines DEF Fifo!Next
  <2>3. CASE Write
    BY <2>3, WriteRefines DEF Fifo!vars
  <2>4. CASE Read
    BY <2>4 DEF Read, producer, Fifo!vars, Queue, HeadNow, TailNow
  <2>5. CASE UNCHANGED vars
    BY <2>5 DEF vars, consumer, Fifo!vars, Queue, HeadNow, TailNow
  <2>6. ASSUME NEW k \in DOMAIN tails, (\E x \in Items : Push(x, k)) \/ (\E in \in Batches : PushMany(in, k))
        PROVE  UNCHANGED <<Queue, got>>
    BY <2>6, LoadsRefine DEF Push, PushMany
  <2>7. ASSUME NEW k \in DOMAIN heads, Pop(k) \/ \E n \in 0..MaxBatch : PopMany(n, k)
        PROVE  UNCHANGED <<Queue, got>>
    BY <2>7, LoadsRefine DEF Pop, PopMany
  <2> QED BY <2>1, <2>2, <2>3, <2>4, <2>5, <2>6, <2>7 DEF Next, Fifo!vars
<1> QED BY <1>1, <1>2, Invariance, PTL DEF Spec, ImplementsFifo, Fifo!Spec
------------------------------------------------------------------------------
(* The ring with cached counters                                           *)

CachedInv ==
  /\ Inv
  /\ cached_tail = tails[1].word /\ cached_head = heads[1].word
------------------------------------------------------------------------------
\* Loading the value that was loaded last changes nothing.
LEMMA LoadedAgain ==
  ASSUME Inv
  PROVE  Loaded(tails, 1) = tails /\ Loaded(heads, 1) = heads
<1>1. ASSUME NEW log \in Seq(Entries), log # <<>>, log[1].slots = {}
      PROVE  Loaded(log, 1) = log
  <2>1. SubSeq(log, 1, Len(log)) = log
    BY <1>1
  <2>2. 1 \in 1..Len(log) /\ log[1] \in Entries
    BY <1>1
  <2>3. [log[1] EXCEPT !.slots = {}] = log[1]
    BY <1>1, <2>2 DEF Entries
  <2>4. Loaded(log, 1) = [log EXCEPT ![1].slots = {}]
    BY <2>1 DEF Loaded
  <2>5. [log EXCEPT ![1].slots = {}] = [log EXCEPT ![1] = [log[1] EXCEPT !.slots = {}]]
    OBVIOUS
  <2>6. [log EXCEPT ![1] = log[1]] = log
    BY <1>1, <2>2
  <2> QED BY <2>3, <2>4, <2>5, <2>6
<1>2. /\ tails \in Seq(Entries) /\ tails # <<>> /\ tails[1].slots = {}
      /\ heads \in Seq(Entries) /\ heads # <<>> /\ heads[1].slots = {}
  BY DEF Inv, RingTypeOK, RingInv, LogsCarrySlots
<1> QED BY <1>1, <1>2

\* The first entry of a log after a load is the value loaded.
LEMMA FirstLoaded ==
  ASSUME NEW log \in Seq(Entries), NEW k \in 1..Len(log)
  PROVE  Loaded(log, k)[1].word = log[k].word
<1>1. Len(Loaded(log, k)) = Len(log) - k + 1
      /\ \A j \in 1..Len(Loaded(log, k)) : Loaded(log, k)[j].word = log[k + j - 1].word
  BY LoadedLog
<1>2. 1 \in 1..Len(Loaded(log, k)) /\ k + 1 - 1 = k
  BY <1>1
<1> QED BY <1>1, <1>2

\* Both ways of computing the room agree while the ring is not overrun.
LEMMA SameRoom ==
  ASSUME NEW used \in 0..Capacity, NEW n \in Nat
  PROVE  RoomForBatch(used, n) = RoomForMany(used, n)
<1>1. Capacity - used \in Words /\ Capacity - used \in Nat
  BY RingAssumption DEF Words
<1>2. Word(Capacity - used) = Capacity - used
  BY <1>1, WordOfWord
<1> QED BY <1>1, <1>2, RingAssumption DEF RoomForBatch, RoomForMany, Lesser

\* A push that trusts its snapshot, or loads, is a push of the plain ring.
LEMMA CachedPushRefines ==
  ASSUME CachedInv, NEW k \in DOMAIN tails, NEW in \in Seq(Items), NEW count,
         BeginCachedPush(in, k, count)
  PROVE  /\ BeginPush(in, k, count)
         /\ TailSeen(k) = tails[k].word
         /\ cached_tail' = tails'[1].word /\ cached_head' = heads'[1].word
<1>1. tails \in Seq(Entries) /\ k \in 1..Len(tails)
  BY Logs DEF CachedInv, Inv, RingTypeOK
<1>2. CASE ShowsFull
  BY <1>1, <1>2, FirstLoaded DEF BeginCachedPush, BeginPush, TailSeen, CachedInv
<1>3. CASE ~ShowsFull
  BY <1>3, LoadedAgain DEF BeginCachedPush, BeginPush, TailSeen, CachedInv
<1> QED BY <1>2, <1>3

\* The same for pops.
LEMMA CachedPopRefines ==
  ASSUME CachedInv, NEW k \in DOMAIN heads, NEW count, BeginCachedPop(k, count)
  PROVE  /\ BeginPop(k, count)
         /\ HeadSeen(k) = heads[k].word
         /\ cached_tail' = tails'[1].word /\ cached_head' = heads'[1].word
<1>1. heads \in Seq(Entries) /\ k \in 1..Len(heads)
  BY Logs DEF CachedInv, Inv, RingTypeOK
<1>2. CASE ShowsEmpty
  BY <1>1, <1>2, FirstLoaded DEF BeginCachedPop, BeginPop, HeadSeen, CachedInv
<1>3. CASE ~ShowsEmpty
  BY <1>3, LoadedAgain DEF BeginCachedPop, BeginPop, HeadSeen, CachedInv
<1> QED BY <1>2, <1>3

\* Stores leave the first entries of the logs alone, and slot accesses leave
\* all of them alone.
LEMMA OtherSteps ==
  ASSUME CachedInv, CachedWrite \/ CachedPublish \/ CachedRead \/ CachedRelease
  PROVE  Next /\ cached_tail' = tails'[1].word /\ cached_head' = heads'[1].word
<1>1. Inv /\ cached_tail = tails[1].word /\ cached_head = heads[1].word
      /\ 1 \in 1..Len(heads) /\ 1 \in 1..Len(tails)
  BY Logs DEF CachedInv, Inv
<1>2. CASE CachedWrite
  BY <1>1, <1>2 DEF CachedWrite, Write, Next, snapshots
<1>3. CASE CachedRead
  BY <1>1, <1>3 DEF CachedRead, Read, Next, snapshots
<1>4. CASE CachedPublish
  <2>1. Publish /\ tails' = tails /\ UNCHANGED snapshots
    BY <1>4 DEF CachedPublish, Publish
  <2>2. heads'[1] = heads[1]
    BY <1>1, <2>1, PublishCounters
  <2> QED BY <1>1, <2>1, <2>2 DEF Next, snapshots
<1>5. CASE CachedRelease
  <2>1. Release /\ heads' = heads /\ UNCHANGED snapshots
    BY <1>5 DEF CachedRelease, Release
  <2>2. tails'[1] = tails[1]
    BY <1>1, <2>1, ReleaseCounters
  <2> QED BY <1>1, <2>1, <2>2 DEF Next, snapshots
<1> QED BY <1>2, <1>3, <1>4, <1>5

\* A step of this ring is a step of the plain ring and keeps the snapshots at
\* the values loaded last.
LEMMA CachedStep ==
  ASSUME CachedInv, CachedNext
  PROVE  Next /\ cached_tail' = tails'[1].word /\ cached_head' = heads'[1].word
<1>1. Inv
  BY DEF CachedInv
<1>2. ASSUME NEW k \in DOMAIN tails, NEW x \in Items, CachedPush(x, k)
      PROVE  Push(x, k) /\ cached_tail' = tails'[1].word /\ cached_head' = heads'[1].word
  <2>1. <<x>> \in Seq(Items)
    OBVIOUS
  <2> QED BY <1>2, <2>1, CachedPushRefines DEF CachedPush, Push
<1>3. ASSUME NEW k \in DOMAIN tails, NEW in \in Batches, CachedPushMany(in, k)
      PROVE  PushMany(in, k) /\ cached_tail' = tails'[1].word /\ cached_head' = heads'[1].word
  <2>1. in \in Seq(Items) /\ Len(in) \in Nat
    BY RingAssumption DEF Batches
  <2>2. Used(HeadNow, tails[k].word) \in 0..Capacity
    BY <1>1, <2>1, PushCounts
  <2> QED BY <1>3, <2>1, <2>2, SameRoom, CachedPushRefines DEF CachedPushMany, PushMany
<1>4. ASSUME NEW k \in DOMAIN heads, CachedPop(k)
      PROVE  Pop(k) /\ cached_tail' = tails'[1].word /\ cached_head' = heads'[1].word
  BY <1>4, CachedPopRefines DEF CachedPop, Pop
<1>5. ASSUME NEW k \in DOMAIN heads, NEW n \in 0..MaxBatch, CachedPopMany(n, k)
      PROVE  PopMany(n, k) /\ cached_tail' = tails'[1].word /\ cached_head' = heads'[1].word
  BY <1>5, CachedPopRefines DEF CachedPopMany, PopMany
<1> QED BY <1>2, <1>3, <1>4, <1>5, OtherSteps DEF CachedNext, Next

\* The invariant of the plain ring, with the snapshots, is inductive.
LEMMA CachedNextInv == CachedInv /\ [CachedNext]_cached_vars => CachedInv'
<1> SUFFICES ASSUME CachedInv, [CachedNext]_cached_vars PROVE CachedInv'
  OBVIOUS
<1>1. CASE CachedNext
  BY <1>1, CachedStep, NextInv DEF CachedInv
<1>2. CASE UNCHANGED cached_vars
  <2>1. UNCHANGED vars /\ UNCHANGED snapshots /\ tails' = tails /\ heads' = heads
    BY <1>2 DEF cached_vars, vars
  <2> QED BY <2>1, NextInv DEF CachedInv, snapshots
<1> QED BY <1>1, <1>2

\* Both snapshots start at the initial value of the counter they copy.
LEMMA CachedInitInv == CachedInit => CachedInv
BY InitInv DEF CachedInit, CachedInv, Init

\* Every behaviour of the ring with snapshots is one of the plain ring, the
\* one whose loads return what the snapshots hold.
THEOREM ImplementsPlainRing == CachedSpec => ImplementsSpscRing
<1>1. CachedInit => Init
  BY DEF CachedInit
<1>2. CachedInv /\ [CachedNext]_cached_vars => [Next]_vars
  BY CachedStep DEF cached_vars
<1> QED BY <1>1, <1>2, CachedInitInv, CachedNextInv, PTL DEF CachedSpec, ImplementsSpscRing, Spec

\* So it is free of data races,
THEOREM CachedRaceFree == CachedSpec => []NoRace
BY ImplementsPlainRing, DataRaceFree, PTL DEF ImplementsSpscRing

\* and delivers in order, without loss or repetition.
THEOREM CachedImplementsQueue == CachedSpec => ImplementsFifo
BY ImplementsPlainRing, ImplementsQueue, PTL DEF ImplementsSpscRing

\* The snapshots stay between the counters and one lap behind them.
THEOREM SnapshotsBounded == CachedSpec => []SnapshotsLag
<1>1. CachedInv => SnapshotsLag
  <2> SUFFICES ASSUME CachedInv PROVE SnapshotsLag
    OBVIOUS
  <2>1. Inv /\ RingTypeOK /\ cached_tail = tails[1].word /\ cached_head = heads[1].word
    BY DEF CachedInv, Inv
  <2>2. 1 \in 1..Len(heads) /\ 1 \in 1..Len(tails)
    BY <2>1, Logs
  <2>3. cached_tail \in Words /\ cached_head \in Words /\ HeadNow \in Words /\ TailNow \in Words
    BY <2>1, <2>2, Logs
  <2>4. Used(HeadNow, cached_tail) = Offset(HeadNow) /\ Used(TailNow, cached_tail) = Offset(TailNow)
        /\ Offset(cached_head) = Used(cached_head, cached_tail)
    BY <2>1 DEF Offset
  <2>5. Offset(cached_head) \in (Offset(TailNow) + want)..Offset(HeadNow)
    BY <2>1, <2>2, Window
  <2>6. Used(cached_head, TailNow) = Offset(cached_head) - Offset(TailNow)
    BY <2>1, <2>2, Distances
  <2>7. Offset(cached_head) \in Nat /\ Offset(TailNow) + want <= Offset(cached_head)
        /\ Offset(cached_head) <= Offset(HeadNow)
    BY <2>1, <2>5, Bounds
  <2>8. Used(HeadNow, cached_head) = Offset(HeadNow) - Offset(cached_head)
    BY <2>3, <2>4, <2>7, Shift
  <2> QED BY <2>1, <2>3, <2>4, <2>6, <2>7, <2>8, Bounds DEF SnapshotsLag
<1> QED BY <1>1, CachedInitInv, CachedNextInv, PTL DEF CachedSpec
==============================================================================
