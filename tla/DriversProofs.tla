---------------------------- MODULE DriversProofs ----------------------------
(***************************************************************************)
(* For every number of orders the book has room for and every price range  *)
(* that holds the workload's prices, the single-threaded benchmarks end as *)
(* their authors intend.                                                   *)
(***************************************************************************)
EXTENDS Drivers, DirectPrograms, FiniteSetTheorems, TLAPS

V == INSTANCE FixedClobBook WITH book <- 0
queues == V!Queues
B == INSTANCE FixedClobProofs WITH book <- queues, ledger <- 0

\* The constants are as the book assumes.
LEMMA Assumptions == B!ClobAssumption
BY DriversAssumption DEF Book!ClobAssumption, B!ClobAssumption, Book!Idx, B!Idx, Book!Qtys, B!Qtys

\* So are cardinalities.
LEMMA SameCardinality == \A S : V!Cardinality(S) = B!Cardinality(S) /\ Book!Cardinality(S) = B!Cardinality(S)
BY DEF V!Cardinality, B!Cardinality, Book!Cardinality

\* Queues are the same through either instance.
LEMMA SameQueues == queues = B!Queues /\ queues' = (B!Queues)'
<1>1. /\ \A s : V!LiveOn(s) = B!LiveOn(s)
      /\ \A s : V!LiveOn(s)' = B!LiveOn(s)'
  BY DEF V!LiveOn, B!LiveOn, V!Live, B!Live, V!FreeSlots, B!FreeSlots, V!Idx, B!Idx
<1>2. \A s, q : V!Listing(s, q) <=> B!Listing(s, q)
  BY <1>1 DEF V!Listing, B!Listing, V!Improves, B!Improves
<1>3. \A s, q : V!Listing(s, q)' <=> B!Listing(s, q)'
  BY <1>1 DEF V!Listing, B!Listing, V!Improves, B!Improves
<1>4. \A s : V!Queue(s) = B!Queue(s)
  BY <1>1, <1>2, SameCardinality DEF V!Queue, B!Queue
<1>5. \A s : V!Queue(s)' = B!Queue(s)'
  BY <1>1, <1>3, SameCardinality DEF V!Queue, B!Queue
<1>6. \A i : V!Seen(i) = B!Seen(i) /\ V!Seen(i)' = B!Seen(i)'
  BY DEF V!Seen, B!Seen
<1>7. queues = B!Queues
  BY <1>4, <1>6 DEF queues, V!Queues, B!Queues, V!Sides, B!Sides
<1>8. queues' = (B!Queues)'
  BY <1>5, <1>6 DEF queues, V!Queues, B!Queues, V!Sides, B!Sides
<1> QED BY <1>7, <1>8

\* The helpers of the book are the same through either instance.
LEMMA SameHelpers ==
  /\ Book!Idx = B!Idx /\ Book!Prices = B!Prices /\ Book!Sides = B!Sides /\ Book!Qtys = B!Qtys
  /\ \A s : Book!Opposite(s) = B!Opposite(s)
  /\ \A p : Book!ValidPrice(p) <=> B!ValidPrice(p)
  /\ \A id : Book!Contains(id) <=> B!Contains(id)
  /\ Book!IndexFull <=> B!IndexFull
  /\ \A s, p : Book!Crosses(s, p) <=> B!Crosses(s, p)
<1>1. Book!Idx = B!Idx /\ Book!Prices = B!Prices /\ Book!Sides = B!Sides /\ Book!Qtys = B!Qtys
  BY DEF Book!Idx, B!Idx, Book!Prices, B!Prices, Book!Sides, B!Sides, Book!Qtys, B!Qtys
<1>2. \A s : Book!Opposite(s) = B!Opposite(s)
  BY DEF Book!Opposite, B!Opposite
<1>3. \A p : Book!ValidPrice(p) <=> B!ValidPrice(p)
  BY DEF Book!ValidPrice, B!ValidPrice
<1>4. \A id : Book!Contains(id) <=> B!Contains(id)
  BY DEF Book!Contains, B!Contains
<1>5. {id \in OrderIds : Book!Contains(id)} = {id \in OrderIds : B!Contains(id)}
  BY <1>4
<1>6. Book!IndexFull <=> B!IndexFull
  BY <1>5, SameCardinality DEF Book!IndexFull, B!IndexFull
<1>7. \A s, p : Book!Crosses(s, p) <=> B!Crosses(s, p)
  BY <1>2 DEF Book!Crosses, B!Crosses
<1> QED BY <1>1, <1>2, <1>3, <1>4, <1>6, <1>7

LEMMA SameRemove == ASSUME NEW idx PROVE Book!RemoveOrder(idx) <=> B!RemoveOrder(idx)
BY DEF Book!RemoveOrder, B!RemoveOrder, Book!LevelWithout, B!LevelWithout, Book!Less, B!Less, Book!Unlinked, B!Unlinked,
  Book!Idx, B!Idx, Book!Erased, B!Erased, Book!Released, B!Released, Book!RefreshedBest, B!RefreshedBest,
  Book!Prices, B!Prices, Book!Improves, B!Improves

LEMMA SameRest == ASSUME NEW id, NEW side, NEW price, NEW qty
  PROVE Book!Rest(id, side, price, qty) <=> B!Rest(id, side, price, qty)
<1>1. Book!Place(id, side, price, qty) <=> B!Place(id, side, price, qty)
BY DEF Book!Place, B!Place, Book!Allocated, B!Allocated, Book!Top, B!Top, Book!Appended, B!Appended, Book!Last, B!Last,
  Book!Idx, B!Idx, Book!LevelWith, B!LevelWith, Book!BestAfterAdd, B!BestAfterAdd, Book!Improves, B!Improves
<1> QED BY <1>1, SameHelpers DEF Book!Rest, B!Rest, Book!store, B!store

LEMMA SameSteps ==
  /\ Book!Init => B!Init
  /\ \A id, side, price, qty :
       /\ Book!SubmitLimitOrder(id, side, price, qty) => B!SubmitLimitOrder(id, side, price, qty)
       /\ Book!AddOrder(id, side, price, qty) => B!AddOrder(id, side, price, qty)
  /\ \A id : Book!CancelOrder(id) => B!CancelOrder(id)
  /\ Book!EnterLevel => B!EnterLevel
  /\ Book!LeaveLevel => B!LeaveLevel
  /\ Book!FillIncoming => B!FillIncoming
  /\ Book!FillResting => B!FillResting
  /\ Book!FinishSubmit => B!FinishSubmit
<1>1. Book!Init => B!Init
  BY DEF Book!Init, B!Init, Book!Idx, B!Idx, Book!DefaultOrder, B!DefaultOrder, Book!Sides, B!Sides, Book!Prices, B!Prices,
     Book!EmptyLevel, B!EmptyLevel, Book!NoCall, B!NoCall
<1>2. ASSUME NEW id, NEW side, NEW price, NEW qty
      PROVE  /\ Book!SubmitLimitOrder(id, side, price, qty) => B!SubmitLimitOrder(id, side, price, qty)
             /\ Book!AddOrder(id, side, price, qty) => B!AddOrder(id, side, price, qty)
  BY SameHelpers, SameRest DEF Book!SubmitLimitOrder, B!SubmitLimitOrder, Book!AddOrder, B!AddOrder
<1>3. ASSUME NEW id PROVE Book!CancelOrder(id) => B!CancelOrder(id)
  BY SameHelpers, SameRemove DEF Book!CancelOrder, B!CancelOrder, Book!store, B!store
<1>4. Book!EnterLevel => B!EnterLevel
  BY SameHelpers DEF Book!EnterLevel, B!EnterLevel
<1>5. Book!WorkLevel = B!WorkLevel /\ Book!Maker = B!Maker /\ (Book!AtLevel <=> B!AtLevel)
  BY SameHelpers DEF Book!WorkLevel, B!WorkLevel, Book!Maker, B!Maker, Book!AtLevel, B!AtLevel
<1>6. Book!LeaveLevel => B!LeaveLevel
  BY SameHelpers, <1>5 DEF Book!LeaveLevel, B!LeaveLevel
<1>7. \A q : Book!Execution(q) = B!Execution(q)
  BY <1>5 DEF Book!Execution, B!Execution
<1>8. \A t, q : Book!Less(t, q) = B!Less(t, q)
  BY DEF Book!Less, B!Less
<1>9. Book!FillIncoming => B!FillIncoming
  BY SameHelpers, <1>5, <1>7, <1>8 DEF Book!FillIncoming, B!FillIncoming
<1>10. Book!FillResting => B!FillResting
  BY SameHelpers, SameRemove, <1>5, <1>7, <1>8 DEF Book!FillResting, B!FillResting
<1>11. Book!FinishSubmit => B!FinishSubmit
  BY SameHelpers, SameRest DEF Book!FinishSubmit, B!FinishSubmit, Book!store, B!store, Book!NoCall, B!NoCall
<1> QED BY <1>1, <1>2, <1>3, <1>4, <1>6, <1>9, <1>10, <1>11
------------------------------------------------------------------------------
(* Along a program                                                         *)

\* The arguments of the call that is next, or in progress.
Wanted == NextCall.command

\* The submit call in progress is the one the program is at.
Serving ==
  pc # "idle" =>
    /\ done < Len(program.calls) /\ NextCall.op \in {"submit", "preload"}
    /\ call.order_id = Wanted.order_id /\ call.side = Wanted.side
    /\ call.price = Wanted.price /\ call.submitted = Wanted.qty

\* What holds whichever program runs: the invariant of the book, and that the queues
\* are those of its abstract specification.
Base ==
  /\ B!IInv /\ B!Shown
  /\ program \in Programs /\ done \in 0..Len(program.calls) /\ Len(program.calls) \in Nat
  /\ Serving

\* The arguments of a call are among those the book is instantiated for.
LEMMA Arguments ==
  ASSUME program \in Programs, done \in Nat, done < Len(program.calls), NextCall.op \notin {"reserve", "clear"}
  PROVE  /\ Wanted.order_id \in OrderIds /\ Wanted.side \in B!Sides
         /\ Wanted.price \in InputPrices /\ Wanted.qty \in InputQtys
         /\ Wanted.price \in Nat /\ Wanted.qty \in B!Qtys /\ Wanted.qty \in Nat
<1>1. done + 1 \in DOMAIN program.calls
  BY DriversAssumption
<1>2. Wanted \in Commands
  BY <1>1 DEF Wanted, NextCall, Commands
<1>3. /\ Wanted.order_id \in OrderIds /\ Wanted.side \in Book!Sides
      /\ Wanted.price \in InputPrices /\ Wanted.qty \in InputQtys
  BY <1>2, DriversAssumption DEF OrderIds, InputPrices, InputQtys
<1>4. Wanted.side \in B!Sides
  BY <1>3, SameHelpers
<1>5. InputQtys \subseteq B!Qtys /\ InputPrices \subseteq Nat /\ B!Qtys \subseteq Nat
  BY Assumptions DEF B!ClobAssumption, B!Qtys
<1> QED BY <1>3, <1>4, <1>5

\* Programs call for steps of the book.
LEMMA CallsAreSteps ==
  ASSUME Base
  PROVE  /\ SubmitCall => B!SubmitLimitOrder(Wanted.order_id, Wanted.side, Wanted.price, Wanted.qty) /\ B!Next
         /\ AddCall    => B!AddOrder(Wanted.order_id, Wanted.side, Wanted.price, Wanted.qty) /\ B!Next
         /\ CancelCall => B!CancelOrder(Wanted.order_id) /\ B!Next
         /\ MatchStep  => /\ B!EnterLevel \/ B!LeaveLevel \/ B!FillIncoming \/ B!FillResting \/ B!FinishSubmit
                          /\ B!Next
<1>1. ASSUME SubmitCall
      PROVE  B!SubmitLimitOrder(Wanted.order_id, Wanted.side, Wanted.price, Wanted.qty) /\ B!Next
  <2>1. Book!SubmitLimitOrder(Wanted.order_id, Wanted.side, Wanted.price, Wanted.qty)
    BY <1>1 DEF SubmitCall, Wanted
  <2>2. B!SubmitLimitOrder(Wanted.order_id, Wanted.side, Wanted.price, Wanted.qty)
    BY <2>1, SameSteps
  <2>3. /\ Wanted.order_id \in OrderIds /\ Wanted.side \in B!Sides
        /\ Wanted.price \in InputPrices /\ Wanted.qty \in InputQtys
    BY <1>1, Arguments DEF Base, SubmitCall, AtCall
  <2> QED BY <2>2, <2>3 DEF B!Next, B!ExchangeNext
<1>2. ASSUME AddCall
      PROVE  B!AddOrder(Wanted.order_id, Wanted.side, Wanted.price, Wanted.qty) /\ B!Next
  <2>1. Book!AddOrder(Wanted.order_id, Wanted.side, Wanted.price, Wanted.qty)
    BY <1>2 DEF AddCall, Wanted
  <2>2. B!AddOrder(Wanted.order_id, Wanted.side, Wanted.price, Wanted.qty)
    BY <2>1, SameSteps
  <2>3. /\ Wanted.order_id \in OrderIds /\ Wanted.side \in B!Sides
        /\ Wanted.price \in InputPrices /\ Wanted.qty \in InputQtys
    BY <1>2, Arguments DEF Base, AddCall, AtCall
  <2> QED BY <2>2, <2>3 DEF B!Next
<1>3. ASSUME CancelCall
      PROVE  B!CancelOrder(Wanted.order_id) /\ B!Next
  <2>1. Book!CancelOrder(Wanted.order_id)
    BY <1>3 DEF CancelCall, Wanted
  <2>2. B!CancelOrder(Wanted.order_id)
    BY <2>1, SameSteps
  <2>3. Wanted.order_id \in OrderIds
    BY <1>3, Arguments DEF Base, CancelCall, AtCall
  <2> QED BY <2>2, <2>3 DEF B!Next, B!ExchangeNext
<1>4. ASSUME MatchStep
      PROVE  /\ B!EnterLevel \/ B!LeaveLevel \/ B!FillIncoming \/ B!FillResting \/ B!FinishSubmit
             /\ B!Next
  <2>1. Book!Matching
    BY <1>4 DEF MatchStep
  <2>2. B!EnterLevel \/ B!LeaveLevel \/ B!FillIncoming \/ B!FillResting \/ B!FinishSubmit
    BY <2>1, SameSteps DEF Book!Matching
  <2> QED BY <2>2 DEF B!Next, B!ExchangeNext, B!Matching
<1> QED BY <1>1, <1>2, <1>3, <1>4

\* A step of the book keeps what is said of it.
LEMMA BookNext ==
  ASSUME B!IInv, B!Shown, B!Next \/ UNCHANGED bookvars
  PROVE  B!IInv' /\ B!Shown'
<1>1. [B!Next]_(B!vars)
  BY DEF bookvars, B!vars
<1>2. B!IInv'
  BY <1>1, B!NextInv, Assumptions
<1>3. queues' = (B!Queues)'
  BY SameQueues
<1>4. UNCHANGED bookvars => UNCHANGED <<B!vars, queues>>
  <2> SUFFICES ASSUME UNCHANGED bookvars PROVE UNCHANGED <<B!vars, queues>>
    OBVIOUS
  <2>1. UNCHANGED B!vars /\ UNCHANGED B!store
    BY DEF bookvars, B!vars, B!store
  <2>2. queues = B!Queues
    BY SameQueues
  <2>3. (B!Queues)' = B!Queues
    BY <2>1, <1>2, B!KeepShown, Assumptions, <1>3, <2>2 DEF B!IInv
  <2> QED BY <2>1, <2>2, <2>3, <1>3
<1>5. [B!Next /\ queues' = (B!Queues)']_<<B!vars, queues>>
  BY <1>3, <1>4
<1> QED BY <1>2, <1>5, B!NextRefines, Assumptions

\* What holds along every program holds at first,
LEMMA BaseInit == Init => Base
<1> SUFFICES ASSUME Init PROVE Base
  OBVIOUS
<1>1. B!Init
  BY SameSteps DEF Init
<1>2. B!IInv
  BY <1>1, B!InitInv, Assumptions
<1>3. B!Shown
  BY <1>1, B!InitRefines, SameQueues, Assumptions
<1>4. pc = "idle" /\ program \in Programs /\ done = 0
  BY <1>1 DEF B!Init, Init
<1>5. Len(program.calls) \in Nat
  BY <1>4, DriversAssumption
<1> QED BY <1>2, <1>3, <1>4, <1>5 DEF Base, Serving

\* Matching steps keep the arguments of the call.
LEMMA MatchKeepsCall ==
  ASSUME Base, MatchStep
  PROVE  /\ pc # "idle"
         /\ pc' # "idle" => /\ call'.order_id = call.order_id /\ call'.side = call.side
                            /\ call'.price = call.price /\ call'.submitted = call.submitted
<1>1. B!EnterLevel \/ B!LeaveLevel \/ B!FillIncoming \/ B!FillResting \/ B!FinishSubmit
  BY CallsAreSteps
<1>2. call \in B!Call
  BY DEF Base, B!IInv, B!CallInv
<1>3. CASE B!EnterLevel \/ B!LeaveLevel
  BY <1>3 DEF B!EnterLevel, B!LeaveLevel
<1>4. CASE B!FillIncoming
  BY <1>2, <1>4 DEF B!FillIncoming, B!AtLevel, B!Call
<1>5. CASE B!FillResting
  BY <1>2, <1>5 DEF B!FillResting, B!AtLevel, B!Call
<1>6. CASE B!FinishSubmit
  BY <1>6 DEF B!FinishSubmit
<1> QED BY <1>1, <1>3, <1>4, <1>5, <1>6

\* and every step keeps it.
LEMMA BaseNext ==
  ASSUME Base, [Next]_vars
  PROVE  Base'
<1> DEFINE n == Len(program.calls)
<1>1. n \in Nat /\ done \in 0..n /\ program \in Programs
  BY DEF Base
<1>2. program' = program
  BY DEF Next, vars, SubmitCall, MatchStep, AddCall, CancelCall, ReserveCall, ClearCall, Finished
<1>3. B!IInv' /\ B!Shown'
  <2>1. B!Next \/ UNCHANGED bookvars
    BY CallsAreSteps DEF Next, vars, ReserveCall, ClearCall, Finished
  <2> QED BY <2>1, BookNext DEF Base
<1>4. done' \in 0..n /\ Serving'
  <2>1. CASE SubmitCall
    <3>1. pc = "idle" /\ done < n /\ NextCall.op \in {"submit", "preload"}
      BY <2>1 DEF SubmitCall, AtCall
    <3>2. B!SubmitLimitOrder(Wanted.order_id, Wanted.side, Wanted.price, Wanted.qty)
      BY <2>1, CallsAreSteps
    <3>3. CASE pc' = "idle"
      BY <1>1, <2>1, <3>1, <3>3 DEF SubmitCall, Returned, Serving
    <3>4. CASE pc' # "idle"
      <4>1. done' = done /\ NextCall' = NextCall
        BY <1>2, <2>1, <3>4 DEF SubmitCall, NextCall
      <4>2. call' = [order_id |-> Wanted.order_id, side |-> Wanted.side, price |-> Wanted.price,
                     qty |-> Wanted.qty, submitted |-> Wanted.qty]
        BY <3>1, <3>2, <3>4 DEF B!SubmitLimitOrder
      <4> QED BY <1>1, <1>2, <3>1, <4>1, <4>2 DEF Serving, Wanted
    <3> QED BY <3>3, <3>4
  <2>2. CASE MatchStep
    <3>1. pc # "idle" /\ done < n /\ NextCall.op \in {"submit", "preload"}
      BY <2>2, MatchKeepsCall DEF Base, Serving
    <3>2. CASE pc' = "idle"
      BY <1>1, <2>2, <3>1, <3>2 DEF MatchStep, Returned, Serving
    <3>3. CASE pc' # "idle"
      <4>1. done' = done /\ NextCall' = NextCall
        BY <1>2, <2>2, <3>3 DEF MatchStep, NextCall
      <4> QED BY <1>1, <1>2, <2>2, <3>1, <3>3, <4>1, MatchKeepsCall DEF Base, Serving, Wanted
    <3> QED BY <3>2, <3>3
  <2>3. CASE AddCall \/ CancelCall
    <3>1. pc = "idle" /\ pc' = pc /\ done < n /\ done' = done + 1
      BY <2>3, CallsAreSteps DEF AddCall, CancelCall, AtCall, Returned, B!AddOrder, B!CancelOrder
    <3> QED BY <1>1, <3>1 DEF Serving
  <2>4. CASE ReserveCall \/ ClearCall
    <3>1. pc = "idle" /\ pc' = pc /\ done < n /\ done' = done + 1
      BY <2>4 DEF ReserveCall, ClearCall, AtCall, bookvars
    <3> QED BY <1>1, <3>1 DEF Serving
  <2>5. CASE UNCHANGED vars
    BY <1>1, <2>5 DEF Base, vars, bookvars, Serving, Wanted, NextCall
  <2> QED BY <2>1, <2>2, <2>3, <2>4, <2>5 DEF Next, Finished
<1> QED BY <1>1, <1>2, <1>3, <1>4 DEF Base
------------------------------------------------------------------------------
(* Sinks                                                                   *)

Kinds == {"null", "vector", "buffer"}
Reports == B!Execs \cup {Execution0}
Sinks == {s \in [kind : Kinds, data : Seq(Reports), size : Nat] : s.size <= Len(s.data)}

LEMMA SinkType ==
  ASSUME NEW s \in Sinks
  PROVE  /\ s.kind \in Kinds /\ s.data \in Seq(Reports) /\ s.size \in Nat /\ Len(s.data) \in Nat
         /\ s.size <= Len(s.data) /\ s = [kind |-> s.kind, data |-> s.data, size |-> s.size]
         /\ \A i \in 1..Len(s.data) : s.data[i] \in Reports
BY DEF Sinks

\* reserve() keeps what the sink holds, and makes a buffer at least as large as asked.
LEMMA ReserveKeeps ==
  ASSUME NEW s \in Sinks, NEW n \in Nat
  PROVE  /\ Reserve(s, n) \in Sinks /\ Reserve(s, n).kind = s.kind /\ Reserve(s, n).size = s.size
         /\ s.kind # "buffer" => Reserve(s, n) = s
         /\ Len(s.data) <= Len(Reserve(s, n).data) /\ (s.kind = "buffer" => n <= Len(Reserve(s, n).data))
         /\ \A i \in 1..s.size : Reserve(s, n).data[i] = s.data[i]
<1>1. CASE s.kind # "buffer" \/ n <= Len(s.data)
  <2>1. Reserve(s, n) = s
    BY <1>1 DEF Reserve
  <2> QED BY <1>1, <2>1, SinkType
<1>2. CASE s.kind = "buffer" /\ n > Len(s.data)
  <2> DEFINE larger == [i \in 1..n |-> IF i <= s.size THEN s.data[i] ELSE Execution0]
  <2>1. larger \in Seq(Reports) /\ Len(larger) = n /\ \A i \in 1..s.size : larger[i] = s.data[i]
    <3>1. \A i \in 1..n : larger[i] \in Reports
      BY SinkType DEF Reports
    <3>2. larger \in [1..n -> Reports]
      BY <3>1
    <3>3. \A i \in 1..s.size : i \in 1..n
      BY <1>2, SinkType
    <3>4. \A f \in [1..n -> Reports] : f \in Seq(Reports) /\ Len(f) = n
      OBVIOUS
    <3>5. \A i \in 1..s.size : larger[i] = s.data[i]
      BY <3>3
    <3> HIDE DEF larger
    <3> QED BY <3>2, <3>4, <3>5
  <2>2. Reserve(s, n) = [kind |-> s.kind, data |-> larger, size |-> s.size]
    <3>1. Reserve(s, n) = [s EXCEPT !.data = larger]
      BY <1>2, SinkType DEF Reserve
    <3> HIDE DEF larger
    <3> QED BY <3>1, SinkType
  <2> HIDE DEF larger
  <2>3. s.size <= n /\ s.kind \in Kinds /\ s.size \in Nat
    BY <1>2, SinkType
  <2> QED BY <1>2, <2>1, <2>2, <2>3 DEF Sinks
<1> QED BY <1>1, <1>2, SinkType

\* emplace_back adds one execution behind the others, if there is room for it.
LEMMA EmplaceBackAdds ==
  ASSUME NEW s \in Sinks, NEW x \in Reports, s.kind = "buffer" => s.size < Len(s.data)
  PROVE  /\ EmplaceBack(s, x) \in Sinks /\ EmplaceBack(s, x).kind = s.kind
         /\ s.kind = "null" => EmplaceBack(s, x) = s
         /\ s.kind = "buffer" => Len(EmplaceBack(s, x).data) = Len(s.data)
         /\ s.kind # "null" =>
              /\ EmplaceBack(s, x).size = s.size + 1
              /\ \A i \in 1..s.size : EmplaceBack(s, x).data[i] = s.data[i]
         /\ s.kind = "vector" => EmplaceBack(s, x).data = Append(s.data, x)
         /\ s.kind = "buffer" => EmplaceBack(s, x).data[s.size + 1] = x
<1>1. CASE s.kind = "null"
  BY <1>1, SinkType DEF EmplaceBack
<1>2. CASE s.kind = "vector"
  <2>1. EmplaceBack(s, x) = [kind |-> s.kind, data |-> Append(s.data, x), size |-> s.size + 1]
    <3>1. EmplaceBack(s, x) = [s EXCEPT !.data = Append(@, x), !.size = @ + 1]
      BY <1>2 DEF EmplaceBack
    <3> QED BY <3>1, SinkType
  <2>2. /\ Append(s.data, x) \in Seq(Reports) /\ Len(Append(s.data, x)) = Len(s.data) + 1
        /\ \A i \in 1..s.size : Append(s.data, x)[i] = s.data[i]
    BY SinkType
  <2> QED BY <1>2, <2>1, <2>2, SinkType DEF Sinks
<1>3. CASE s.kind = "buffer"
  <2> DEFINE written == [i \in DOMAIN s.data |-> IF i = s.size + 1 THEN x ELSE s.data[i]]
  <2>1. EmplaceBack(s, x) = [kind |-> s.kind, data |-> written, size |-> s.size + 1]
    <3>1. EmplaceBack(s, x) = [s EXCEPT !.data = written, !.size = @ + 1]
      BY <1>3 DEF EmplaceBack
    <3> HIDE DEF written
    <3> QED BY <3>1, SinkType
  <2>2. written \in Seq(Reports) /\ Len(written) = Len(s.data)
    <3>1. DOMAIN s.data = 1..Len(s.data) /\ \A i \in 1..Len(s.data) : written[i] \in Reports
      BY SinkType
    <3> QED BY <3>1, SinkType
  <2>3. /\ \A i \in 1..s.size : written[i] = s.data[i]
        /\ written[s.size + 1] = x
    BY <1>3, SinkType
  <2> HIDE DEF written
  <2> QED BY <1>3, <2>1, <2>2, <2>3, SinkType DEF Sinks
<1> QED BY <1>1, <1>2, <1>3, SinkType DEF Kinds

\* What the caller finds is the first size_ executions.
LEMMA ContentsAre ==
  ASSUME NEW s \in Sinks
  PROVE  /\ InBounds(s)
         /\ Contents(s) \in Seq(Reports) /\ Len(Contents(s)) = s.size
         /\ \A i \in 1..s.size : Contents(s)[i] = s.data[i]
<1>1. InBounds(s) /\ Contents(s) = SubSeq(s.data, 1, s.size)
  BY SinkType DEF InBounds, Contents
<1> QED BY <1>1, SinkType
------------------------------------------------------------------------------
(* Programs whose orders never meet                                        *)

\* Call number d + 1 brings in one more order, numbered on from those before, a bid on
\* one side of the split or an ask on the other, while there is a slot for it;
Brings(c, plan, d) ==
  /\ c.op \in {"add", "submit", "preload"}
  /\ c.command.order_id = plan.added[d] + 1
  /\ c.command.price \in B!Prices /\ c.command.qty > 0
  /\ IF c.command.side = "Buy" THEN c.command.price <= plan.split ELSE c.command.price > plan.split
  /\ plan.added[d] - plan.cancelled[d] < MaxOrders
  /\ plan.added[d + 1] = plan.added[d] + 1 /\ plan.cancelled[d + 1] = plan.cancelled[d]

\* or cancels the oldest;
Cancels(c, plan, d) ==
  /\ c.op = "cancel" /\ c.command.order_id = plan.cancelled[d] + 1
  /\ plan.added[d + 1] = plan.added[d] /\ plan.cancelled[d + 1] = plan.cancelled[d] + 1

\* or makes room in the sink.
Reserves(c, plan, d) ==
  /\ c.op = "reserve" /\ c.count \in Nat
  /\ plan.added[d + 1] = plan.added[d] /\ plan.cancelled[d + 1] = plan.cancelled[d]

\* A plan says how many orders each call finds added and cancelled.
Apart(p, plan) ==
  /\ p.sink \in Sinks /\ p.sink.size = 0 /\ p.executions = <<>>
  /\ p.resting = plan.added[Len(p.calls)] - plan.cancelled[Len(p.calls)]
  /\ plan.split \in Int
  /\ plan.added[0] = 0 /\ plan.cancelled[0] = 0
  /\ \A d \in 0..Len(p.calls) : plan.added[d] \in Nat /\ plan.cancelled[d] \in 0..plan.added[d]
  /\ \A d \in 0..(Len(p.calls) - 1) :
       Brings(p.calls[d + 1], plan, d) \/ Cancels(p.calls[d + 1], plan, d) \/ Reserves(p.calls[d + 1], plan, d)

\* The book has the orders the plan says, on their sides of the split; nothing trades.
Standing(plan) ==
  /\ \A id \in OrderIds : B!Contains(id) <=> id \in (plan.cancelled[done] + 1)..plan.added[done]
  /\ Len(free_stack) = MaxOrders - (plan.added[done] - plan.cancelled[done])
  /\ \A price \in B!NonEmpty("Buy") : price <= plan.split
  /\ \A price \in B!NonEmpty("Sell") : price > plan.split
ApartInv(plan) ==
  /\ sink \in Sinks /\ sink.size = 0 /\ ~failed /\ executions = <<>>
  /\ Standing(plan)
  /\ pc # "idle" => pc = "match_order" /\ call.qty = call.submitted

\* What add_order changes of that.
LEMMA Placed ==
  ASSUME B!BookInv, NEW id, NEW side, NEW price, NEW qty,
         B!CanPlace(id, side, price, qty), B!Place(id, side, price, qty)
  PROVE  /\ \A x \in OrderIds : B!Contains(x)' <=> x = id \/ B!Contains(x)
         /\ Len(free_stack') = Len(free_stack) - 1
         /\ \A s \in B!Sides : \A p \in B!NonEmpty(s)' : p \in B!NonEmpty(s) \/ (s = side /\ p = price)
<1>1. B!StoreInv
  BY DEF B!BookInv
<1>2. \A x \in OrderIds : B!Contains(x)' <=> x = id \/ B!Contains(x)
  <2>1. B!Top \in B!Idx /\ NullIndex \notin B!Idx
    BY <1>1, B!PlacePool, Assumptions DEF B!ClobAssumption
  <2>2. order_lookup' = [order_lookup EXCEPT ![id] = B!Top] /\ order_lookup \in [OrderIds -> B!Slot]
    BY <1>1 DEF B!Place, B!StoreInv, B!SlotsOK
  <2> QED BY <2>1, <2>2 DEF B!Contains
<1>3. Len(free_stack') = Len(free_stack) - 1
  <2>1. free_stack \in Seq(B!Idx) /\ free_stack # <<>> /\ free_stack' = SubSeq(free_stack, 1, Len(free_stack) - 1)
    BY <1>1 DEF B!StoreInv, B!SlotsOK, B!CanPlace, B!Place, B!Allocated
  <2> DEFINE L == Len(free_stack)
  <2>2. L \in Nat \ {0} /\ DOMAIN free_stack = 1..L /\ free_stack \in [1..L -> B!Idx]
    BY <2>1
  <2>3. free_stack \in Seq(B!Idx)
    BY <2>1
  <2>4. Len(SubSeq(free_stack, 1, L - 1)) = L - 1
    BY <2>2, <2>3
  <2>5. free_stack' = SubSeq(free_stack, 1, Len(free_stack) - 1)
    BY <2>1
  <2> QED BY <2>4, <2>5
<1>4. \A s \in B!Sides, p \in B!Prices : s # side \/ p # price => levels'[s][p] = levels[s][p]
  BY <1>1, B!PlaceLevels, Assumptions
<1> QED BY <1>2, <1>3, <1>4 DEF B!NonEmpty

\* What remove_order_by_index does.
LEMMA Removed ==
  ASSUME B!BookInv, NEW id \in OrderIds, B!Contains(id), B!RemoveOrder(order_lookup[id])
  PROVE  /\ \A x \in OrderIds : B!Contains(x)' <=> x # id /\ B!Contains(x)
         /\ Len(free_stack') = Len(free_stack) + 1
         /\ \A s \in B!Sides : B!NonEmpty(s)' \subseteq B!NonEmpty(s)
<1> DEFINE idx == order_lookup[id]
<1>1. B!StoreInv /\ idx \in B!Live /\ orders[idx].order_id = id /\ B!RemoveOrder(idx)
  BY DEF B!BookInv, B!StoreInv, B!PoolPartition
<1>2. \A x \in OrderIds : B!Contains(x)' <=> x # id /\ B!Contains(x)
  <2>1. order_lookup' = [order_lookup EXCEPT ![id] = NullIndex] /\ order_lookup \in [OrderIds -> B!Slot]
    BY <1>1 DEF B!RemoveOrder, B!Erased, B!StoreInv, B!SlotsOK
  <2> QED BY <2>1 DEF B!Contains
<1>3. Len(free_stack') = Len(free_stack) + 1
  <2>1. free_stack \in Seq(B!Idx) /\ free_stack' = Append(free_stack, idx) /\ idx \in B!Idx
    BY <1>1 DEF B!StoreInv, B!SlotsOK, B!RemoveOrder, B!Released, B!Live
  <2> QED BY <2>1
<1>4. \A s \in B!Sides, p \in B!Prices :
        \/ levels'[s][p] = levels[s][p]
        \/ levels'[s][p].order_count = levels[s][p].order_count - 1 /\ levels[s][p].order_count \in Nat
  <2>1. \A s \in B!Sides, p \in B!Prices :
          levels'[s][p] = IF s = orders[idx].side /\ p = orders[idx].price
                          THEN B!LevelWithout(levels[s][p], orders[idx]) ELSE levels[s][p]
    <3> HIDE DEF idx
    <3> QED BY <1>1, B!RemoveLevels, Assumptions
  <2>2. \A s \in B!Sides, p \in B!Prices : levels[s][p].order_count \in Nat
    BY <1>1, Assumptions DEF B!StoreInv, B!SlotsOK, B!Level, B!ClobAssumption
  <2>3. \A l, o : B!LevelWithout(l, o).order_count = l.order_count - 1
    BY DEF B!LevelWithout
  <2> HIDE DEF idx
  <2> QED BY <2>1, <2>2, <2>3
<1> QED BY <1>2, <1>3, <1>4 DEF B!NonEmpty

\* While bids and asks are apart a limit on its own side of the split crosses nothing.
LEMMA NothingCrosses ==
  ASSUME B!BookInv, NEW plan, Standing(plan), plan.split \in Int, NEW side \in B!Sides, NEW price \in Nat,
         IF side = "Buy" THEN price <= plan.split ELSE price > plan.split
  PROVE  ~B!Crosses(side, price)
<1> DEFINE opp == B!Opposite(side)
<1>1. opp \in B!Sides
  BY DEF B!Opposite, B!Sides
<1>2. best[opp] = NoPrice \/ (best[opp] \in B!NonEmpty(opp) /\ best[opp] \in Nat)
  BY <1>1, B!ImprovesOrders, Assumptions DEF B!BookInv, B!BestIsExtreme, B!NonEmpty
<1> QED BY <1>1, <1>2 DEF B!Crosses, Standing, B!Opposite, B!Sides

\* The plan's numbers at a call and after it.
LEMMA ApartPlan ==
  ASSUME Base, NEW plan, Apart(program, plan), done < Len(program.calls)
  PROVE  /\ done \in Nat /\ done + 1 \in Nat /\ plan.split \in Int
         /\ plan.added[done] \in Nat /\ plan.cancelled[done] \in Nat
         /\ plan.cancelled[done] <= plan.added[done]
         /\ plan.added[done + 1] \in Nat /\ plan.cancelled[done + 1] \in Nat
         /\ plan.cancelled[done + 1] <= plan.added[done + 1]
         /\ Brings(NextCall, plan, done) \/ Cancels(NextCall, plan, done) \/ Reserves(NextCall, plan, done)
<1>1. done \in 0..(Len(program.calls) - 1) /\ done \in 0..Len(program.calls) /\ done + 1 \in 0..Len(program.calls)
  BY DEF Base
<1> QED BY <1>1 DEF Apart, NextCall

\* An order the plan brings in is accepted, and stands as planned.
LEMMA AcceptedApart ==
  ASSUME Base, NEW plan, Apart(program, plan), Standing(plan), done < Len(program.calls),
         Brings(NextCall, plan, done)
  PROVE  /\ Wanted.qty > 0 /\ Wanted.qty # 0 /\ B!ValidPrice(Wanted.price) /\ ~B!Contains(Wanted.order_id)
         /\ free_stack # <<>>
         /\ B!CanPlace(Wanted.order_id, Wanted.side, Wanted.price, Wanted.qty)
<1>1. /\ Wanted.order_id \in OrderIds /\ Wanted.side \in B!Sides /\ Wanted.qty \in B!Qtys /\ Wanted.qty \in Nat
  BY Arguments DEF Base, Brings
<1>2. Wanted.qty > 0 /\ Wanted.price \in B!Prices /\ Wanted.order_id = plan.added[done] + 1
  BY DEF Brings, Wanted
<1>3. B!ValidPrice(Wanted.price)
  BY <1>2, Assumptions DEF B!ValidPrice, B!Prices, B!ClobAssumption
<1>4. ~B!Contains(Wanted.order_id)
  BY <1>1, <1>2, ApartPlan DEF Standing
<1>5. free_stack # <<>>
  <2>1. Len(free_stack) # 0
    BY ApartPlan, Assumptions DEF Brings, Standing, B!ClobAssumption
  <2> QED BY <2>1
<1> QED BY <1>1, <1>2, <1>3, <1>4, <1>5 DEF B!CanPlace

LEMMA BroughtIn ==
  ASSUME Base, NEW plan, Apart(program, plan), Standing(plan), done < Len(program.calls),
         Brings(NextCall, plan, done), done' = done + 1,
         B!Rest(Wanted.order_id, Wanted.side, Wanted.price, Wanted.qty)
  PROVE  Standing(plan)' /\ ret' = TRUE
<1>1. B!BookInv
  BY DEF Base, B!IInv
<1>2. B!Place(Wanted.order_id, Wanted.side, Wanted.price, Wanted.qty) /\ ret' = TRUE
  BY <1>1, AcceptedApart, B!IndexNeverFull, Assumptions DEF B!Rest
<1>3. /\ \A x \in OrderIds : B!Contains(x)' <=> x = Wanted.order_id \/ B!Contains(x)
      /\ Len(free_stack') = Len(free_stack) - 1
      /\ \A s \in B!Sides : \A p \in B!NonEmpty(s)' : p \in B!NonEmpty(s) \/ (s = Wanted.side /\ p = Wanted.price)
  BY <1>1, <1>2, AcceptedApart, Placed
<1>4. /\ plan.added[done'] = plan.added[done] + 1 /\ plan.cancelled[done'] = plan.cancelled[done]
      /\ Wanted.order_id = plan.added[done] + 1
      /\ IF Wanted.side = "Buy" THEN Wanted.price <= plan.split ELSE Wanted.price > plan.split
  BY DEF Brings, Wanted
<1>5. \A x \in OrderIds : B!Contains(x)' <=> x \in (plan.cancelled[done'] + 1)..plan.added[done']
  <2>1. \A a, c \in Nat : c <= a => \A x : x \in (c + 1)..(a + 1) <=> x = a + 1 \/ x \in (c + 1)..a
    OBVIOUS
  <2>2. \A x : x \in (plan.cancelled[done] + 1)..(plan.added[done] + 1)
                 <=> x = plan.added[done] + 1 \/ x \in (plan.cancelled[done] + 1)..plan.added[done]
    BY <2>1, ApartPlan
  <2> QED BY <1>3, <1>4, <2>2 DEF Standing
<1>6. Len(free_stack') = MaxOrders - (plan.added[done'] - plan.cancelled[done'])
  <2>1. /\ Len(free_stack') = Len(free_stack) - 1
        /\ Len(free_stack) = MaxOrders - (plan.added[done] - plan.cancelled[done])
    BY <1>3 DEF Standing
  <2>2. plan.added[done] \in Nat /\ plan.cancelled[done] \in Nat /\ MaxOrders \in Nat
    BY ApartPlan, Assumptions DEF B!ClobAssumption
  <2> QED BY ONLY <1>4, <2>1, <2>2
<1>7. /\ \A price \in B!NonEmpty("Buy")' : price <= plan.split
      /\ \A price \in B!NonEmpty("Sell")' : price > plan.split
  BY <1>3, <1>4 DEF Standing, B!Sides
<1> QED BY <1>2, <1>5, <1>6, <1>7 DEF Standing

\* An order the plan cancels is there.
LEMMA TakenOut ==
  ASSUME Base, NEW plan, Apart(program, plan), Standing(plan), done < Len(program.calls),
         Cancels(NextCall, plan, done), done' = done + 1, B!CancelOrder(Wanted.order_id)
  PROVE  Standing(plan)' /\ ret' = TRUE
<1>1. B!BookInv
  BY DEF Base, B!IInv
<1>2. /\ plan.added[done'] = plan.added[done] /\ plan.cancelled[done'] = plan.cancelled[done] + 1
      /\ Wanted.order_id = plan.cancelled[done] + 1
  BY DEF Cancels, Wanted
<1>3. Wanted.order_id \in OrderIds
  BY Arguments DEF Base, Cancels
<1>4. B!Contains(Wanted.order_id)
  BY <1>2, <1>3, ApartPlan DEF Standing
<1>5. ret' = TRUE /\ B!RemoveOrder(order_lookup[Wanted.order_id])
  BY <1>4 DEF B!CancelOrder
<1>6. /\ \A x \in OrderIds : B!Contains(x)' <=> x # Wanted.order_id /\ B!Contains(x)
      /\ Len(free_stack') = Len(free_stack) + 1
      /\ \A s \in B!Sides : B!NonEmpty(s)' \subseteq B!NonEmpty(s)
  BY <1>1, <1>3, <1>4, <1>5, Removed
<1>0. plan.added[done] \in Nat /\ plan.cancelled[done] \in Nat /\ MaxOrders \in Nat
  BY ApartPlan, Assumptions DEF B!ClobAssumption
<1>7. \A x \in OrderIds : B!Contains(x)' <=> x \in (plan.cancelled[done'] + 1)..plan.added[done']
  <2>1. \A a, c \in Nat : \A x : x \in (c + 1 + 1)..a <=> x # c + 1 /\ x \in (c + 1)..a
    OBVIOUS
  <2>2. \A x : x \in (plan.cancelled[done] + 1 + 1)..plan.added[done]
                 <=> x # plan.cancelled[done] + 1 /\ x \in (plan.cancelled[done] + 1)..plan.added[done]
    BY <1>0, <2>1
  <2> QED BY <1>2, <1>6, <2>2 DEF Standing
<1>8. Len(free_stack') = MaxOrders - (plan.added[done'] - plan.cancelled[done'])
  <2>1. /\ Len(free_stack') = Len(free_stack) + 1
        /\ Len(free_stack) = MaxOrders - (plan.added[done] - plan.cancelled[done])
    BY <1>6 DEF Standing
  <2> QED BY ONLY <1>0, <1>2, <2>1
<1> QED BY <1>5, <1>6, <1>7, <1>8 DEF Standing, B!Sides

\* Nothing is in the book at first,
LEMMA ApartInit ==
  ASSUME Init, Base, NEW plan, Apart(program, plan)
  PROVE  ApartInv(plan)
<1>1. B!Init /\ sink = program.sink /\ done = 0 /\ failed = FALSE
  BY SameSteps DEF Init
<1>2. \A id \in OrderIds : ~B!Contains(id)
  BY <1>1 DEF B!Init, B!Contains
<1>3. Len(free_stack) = MaxOrders
  BY <1>1, Assumptions DEF B!Init, B!ClobAssumption
<1>4. \A s \in B!Sides : B!NonEmpty(s) = {}
  BY <1>1 DEF B!Init, B!NonEmpty, B!EmptyLevel
<1>5. plan.added[done] = 0 /\ plan.cancelled[done] = 0 /\ sink \in Sinks /\ sink.size = 0
  BY <1>1 DEF Apart
<1> QED BY <1>1, <1>2, <1>3, <1>4, <1>5, Assumptions DEF ApartInv, Standing, B!Init, B!Sides, B!ClobAssumption

\* A step that leaves the book and the count of calls alone leaves the orders standing.
LEMMA StandsStill ==
  ASSUME NEW plan, Standing(plan), plan.added[done'] = plan.added[done],
         plan.cancelled[done'] = plan.cancelled[done], UNCHANGED B!store
  PROVE  Standing(plan)'
BY DEF Standing, B!store, B!Contains, B!NonEmpty

\* and every step keeps to the plan.
LEMMA ApartNext ==
  ASSUME Base, NEW plan, Apart(program, plan), ApartInv(plan), [Next]_vars
  PROVE  ApartInv(plan)'
<1> USE DEF ApartInv
<1>1. CASE SubmitCall
  <2>1. pc = "idle" /\ done < Len(program.calls) /\ NextCall.op \in {"submit", "preload"} /\ sink' = sink
    BY <1>1 DEF SubmitCall, AtCall
  <2>2. Brings(NextCall, plan, done)
    BY <2>1, ApartPlan DEF Cancels, Reserves
  <2>3. B!SubmitLimitOrder(Wanted.order_id, Wanted.side, Wanted.price, Wanted.qty)
    BY <1>1, CallsAreSteps
  <2>4. Wanted.qty # 0 /\ B!ValidPrice(Wanted.price) /\ ~B!Contains(Wanted.order_id)
    BY <2>1, <2>2, AcceptedApart
  <2>5. /\ pc' = "match_order" /\ UNCHANGED B!store /\ executions' = executions
        /\ call' = [order_id |-> Wanted.order_id, side |-> Wanted.side, price |-> Wanted.price,
                    qty |-> Wanted.qty, submitted |-> Wanted.qty]
    BY <2>3, <2>4 DEF B!SubmitLimitOrder, B!store
  <2>6. done' = done /\ failed' = failed
    BY <1>1, <2>5 DEF SubmitCall
  <2> QED BY <2>1, <2>5, <2>6, StandsStill
<1>2. CASE MatchStep
  <2>1. pc = "match_order" /\ done < Len(program.calls) /\ NextCall.op \in {"submit", "preload"}
    BY <1>2, MatchKeepsCall DEF Base, Serving
  <2>2. Brings(NextCall, plan, done)
    BY <2>1, ApartPlan DEF Cancels, Reserves
  <2>3. /\ call.order_id = Wanted.order_id /\ call.side = Wanted.side /\ call.price = Wanted.price
        /\ call.qty = Wanted.qty
    BY <2>1 DEF Base, Serving
  <2>4. ~B!Crosses(call.side, call.price)
    <3>1. Wanted.side \in B!Sides /\ Wanted.price \in Nat /\ B!BookInv
      BY <2>1, Arguments DEF Base, B!IInv
    <3>2. IF Wanted.side = "Buy" THEN Wanted.price <= plan.split ELSE Wanted.price > plan.split
      BY <2>2 DEF Brings, Wanted
    <3> QED BY <2>1, <2>3, <3>1, <3>2, NothingCrosses, ApartPlan
  <2>5. B!FinishSubmit
    BY <1>2, <2>1, <2>4, CallsAreSteps DEF B!EnterLevel, B!LeaveLevel, B!FillIncoming, B!FillResting, B!AtLevel
  <2>6. /\ B!Rest(Wanted.order_id, Wanted.side, Wanted.price, Wanted.qty)
        /\ pc' = "idle" /\ executions' = <<>>
    BY <2>1, <2>2, <2>3, <2>5, AcceptedApart DEF B!FinishSubmit
  <2>7. done' = done + 1 /\ failed' = (failed \/ ~ret') /\ sink' = sink
    BY <1>2, <2>6 DEF MatchStep, Returned
  <2>8. Standing(plan)' /\ ret' = TRUE
    BY <2>1, <2>2, <2>6, <2>7, BroughtIn
  <2> QED BY <2>6, <2>7, <2>8
<1>3. CASE AddCall
  <2>1. /\ pc = "idle" /\ done < Len(program.calls) /\ NextCall.op = "add"
        /\ sink' = sink /\ done' = done + 1 /\ failed' = (failed \/ ~ret')
    BY <1>3 DEF AddCall, AtCall, Returned
  <2>2. Brings(NextCall, plan, done)
    BY <2>1, ApartPlan DEF Cancels, Reserves
  <2>3. /\ B!Rest(Wanted.order_id, Wanted.side, Wanted.price, Wanted.qty)
        /\ pc' = pc /\ executions' = executions
    BY <1>3, CallsAreSteps DEF B!AddOrder
  <2>4. Standing(plan)' /\ ret' = TRUE
    BY <2>1, <2>2, <2>3, BroughtIn
  <2> QED BY <2>1, <2>3, <2>4
<1>4. CASE CancelCall
  <2>1. /\ pc = "idle" /\ done < Len(program.calls) /\ NextCall.op = "cancel"
        /\ sink' = sink /\ done' = done + 1 /\ failed' = (failed \/ ~ret')
    BY <1>4 DEF CancelCall, AtCall, Returned
  <2>2. Cancels(NextCall, plan, done)
    BY <2>1, ApartPlan DEF Brings, Reserves
  <2>3. B!CancelOrder(Wanted.order_id) /\ pc' = pc /\ executions' = executions
    BY <1>4, CallsAreSteps DEF B!CancelOrder
  <2>4. Standing(plan)' /\ ret' = TRUE
    BY <2>1, <2>2, <2>3, TakenOut
  <2> QED BY <2>1, <2>3, <2>4
<1>5. CASE ReserveCall
  <2>1. /\ pc = "idle" /\ done < Len(program.calls) /\ NextCall.op = "reserve"
        /\ sink' = Reserve(sink, NextCall.count) /\ done' = done + 1
        /\ UNCHANGED bookvars /\ failed' = failed
    BY <1>5 DEF ReserveCall, AtCall
  <2>2. Reserves(NextCall, plan, done)
    BY <2>1, ApartPlan DEF Brings, Cancels
  <2>3. sink' \in Sinks /\ sink'.size = 0
    BY <2>1, <2>2, ReserveKeeps DEF Reserves
  <2>4. UNCHANGED B!store /\ UNCHANGED <<pc, executions>>
    BY <2>1 DEF bookvars, B!store
  <2> QED BY <2>1, <2>2, <2>3, <2>4, StandsStill DEF Reserves
<1>6. CASE ClearCall
  <2>1. done < Len(program.calls) /\ NextCall.op = "clear"
    BY <1>6 DEF ClearCall, AtCall
  <2> QED BY <2>1, ApartPlan DEF Brings, Cancels, Reserves
<1>7. CASE UNCHANGED vars
  <2>1. UNCHANGED B!store /\ UNCHANGED <<pc, call, executions, sink, failed, done>>
    BY <1>7 DEF vars, bookvars, B!store
  <2> QED BY <2>1, StandsStill
<1> QED BY <1>1, <1>2, <1>3, <1>4, <1>5, <1>6, <1>7 DEF Next, Finished

\* A program whose orders never meet is checked as it should be.
LEMMA ApartChecked ==
  ASSUME Base, NEW plan, Apart(program, plan), ApartInv(plan)
  PROVE  SinkFits /\ EndsAsChecked
<1>1. InBounds(sink) /\ Contents(sink) = <<>>
  <2>1. /\ InBounds(sink) /\ Contents(sink) \in Seq(Reports) /\ Len(Contents(sink)) = 0
    BY ContentsAre DEF ApartInv
  <2> QED BY <2>1
<1>2. done = Len(program.calls) => Book!active_orders = program.resting
  <2>1. Base /\ done \in 0..Len(program.calls) /\ Len(program.calls) \in 0..Len(program.calls)
    BY DEF Base
  <2>2. done = Len(program.calls) => plan.added[done] \in Nat /\ plan.cancelled[done] \in Nat
    BY <2>1 DEF Apart
  <2> QED BY <2>2, Assumptions DEF ApartInv, Standing, Apart, Book!active_orders, B!ClobAssumption
<1> QED BY <1>1, <1>2 DEF SinkFits, EndsAsChecked, ApartInv, Apart
------------------------------------------------------------------------------
(* Programs whose bids take the asks in line                               *)

\* The i-th execution.
Report(plan, i) ==
  [incoming_order_id |-> plan.taker[i], resting_order_id |-> i, price |-> plan.price[i], qty |-> plan.qty[i]]

\* Call number d + 1 adds the next ask, none taken yet;
Asks(c, plan, d) ==
  /\ c.op \in {"submit", "preload"} /\ c.command.side = "Sell"
  /\ plan.taken[d] = 0 /\ plan.asked[d] < plan.size
  /\ c.command.order_id = plan.asked[d] + 1
  /\ c.command.price = plan.price[plan.asked[d] + 1] /\ c.command.qty = plan.qty[plan.asked[d] + 1]
  /\ plan.asked[d + 1] = plan.asked[d] + 1 /\ plan.taken[d + 1] = 0 /\ plan.room[d + 1] = plan.room[d]

\* or, when all are there, takes the first of those that are left, and as many more as
\* it has quantity for, which are of quantity 1, into a sink that has the room;
Takes(c, plan, d) ==
  /\ c.op = "submit" /\ c.command.side = "Buy" /\ c.command.order_id > plan.size
  /\ plan.asked[d] = plan.size /\ plan.asked[d + 1] = plan.asked[d] /\ plan.room[d + 1] = plan.room[d]
  /\ plan.taken[d] < plan.taken[d + 1] /\ plan.taken[d + 1] <= plan.room[d]
  /\ c.command.price \in B!Prices
  /\ c.command.qty = plan.qty[plan.taken[d] + 1] + (plan.taken[d + 1] - plan.taken[d] - 1)
  /\ \A i \in (plan.taken[d] + 2)..plan.taken[d + 1] : plan.qty[i] = 1
  /\ \A i \in (plan.taken[d] + 1)..plan.taken[d + 1] :
       plan.price[i] <= c.command.price /\ plan.taker[i] = c.command.order_id

\* or makes room in the sink.
Widens(c, plan, d) ==
  /\ c.op = "reserve" /\ c.count \in Nat /\ plan.room[d + 1] = c.count
  /\ plan.asked[d + 1] = plan.asked[d] /\ plan.taken[d + 1] = plan.taken[d]

\* A plan says what the asks are, worst price last, and how many each call finds added
\* and taken, and room for how many.
InLine(p, plan) ==
  /\ p.sink \in Sinks /\ p.sink.size = 0 /\ (p.sink.kind = "buffer" => plan.room[0] <= Len(p.sink.data))
  /\ p.sink.kind # "buffer" => p.sink.data = <<>>
  /\ plan.size \in 1..MaxOrders
  /\ \A i \in 1..plan.size : plan.price[i] \in B!Prices /\ plan.qty[i] \in Nat \ {0}
  /\ \A i \in 1..plan.size : \A j \in 1..i : plan.price[j] <= plan.price[i]
  /\ plan.asked[0] = 0 /\ plan.taken[0] = 0
  /\ \A d \in 0..Len(p.calls) : /\ plan.asked[d] \in 0..plan.size /\ plan.taken[d] \in 0..plan.asked[d]
                                /\ plan.room[d] \in Nat
  /\ \A d \in 0..(Len(p.calls) - 1) :
       Asks(p.calls[d + 1], plan, d) \/ Takes(p.calls[d + 1], plan, d) \/ Widens(p.calls[d + 1], plan, d)
  /\ p.resting = plan.asked[Len(p.calls)] - plan.taken[Len(p.calls)]
  /\ p.executions = IF p.sink.kind = "null" THEN <<>>
                    ELSE [i \in 1..plan.taken[Len(p.calls)] |-> Report(plan, i)]

\* The first so many asks are gone, the others are in line;
Line(plan, gone) ==
  /\ queues["Buy"] = <<>>
  /\ gone \in 0..plan.asked[done]
  /\ Len(queues["Sell"]) = plan.asked[done] - gone
  /\ \A k \in 1..(plan.asked[done] - gone) :
       queues["Sell"][k] = [order_id |-> gone + k, price |-> plan.price[gone + k], qty |-> plan.qty[gone + k]]

\* they are what the sink holds;
Sunk(plan, gone) ==
  /\ sink \in Sinks /\ sink.kind = program.sink.kind
  /\ IF sink.kind = "null" THEN sink.size = 0
     ELSE sink.size = gone /\ \A i \in 1..gone : sink.data[i] = Report(plan, i)
  /\ sink.kind = "buffer" => plan.room[done] <= Len(sink.data)
  /\ sink.kind = "vector" => Len(sink.data) = gone

\* and the call in progress has the quantity left for the rest of those it takes.
InCall(plan, gone) ==
  IF pc = "idle" THEN gone = plan.taken[done]
  ELSE IF call.side = "Sell" THEN gone = 0 /\ call.qty = call.submitted
  ELSE /\ gone \in plan.taken[done]..plan.taken[done + 1]
       /\ call.qty = IF gone = plan.taken[done] THEN call.submitted ELSE plan.taken[done + 1] - gone
LineInv(plan) == ~failed /\ \E gone \in Nat : Line(plan, gone) /\ Sunk(plan, gone) /\ InCall(plan, gone)

\* The plan's numbers at a call and after it.
LEMMA LinePlan ==
  ASSUME Base, NEW plan, InLine(program, plan), done < Len(program.calls)
  PROVE  /\ done \in Nat /\ done + 1 \in Nat /\ plan.size \in Nat /\ plan.size <= MaxOrders
         /\ plan.asked[done] \in Nat /\ plan.taken[done] \in Nat /\ plan.room[done] \in Nat
         /\ plan.taken[done] <= plan.asked[done] /\ plan.asked[done] <= plan.size
         /\ plan.asked[done + 1] \in Nat /\ plan.taken[done + 1] \in Nat /\ plan.room[done + 1] \in Nat
         /\ plan.taken[done + 1] <= plan.asked[done + 1] /\ plan.asked[done + 1] <= plan.size
         /\ Asks(NextCall, plan, done) \/ Takes(NextCall, plan, done) \/ Widens(NextCall, plan, done)
<1>1. done \in 0..(Len(program.calls) - 1) /\ done \in 0..Len(program.calls) /\ done + 1 \in 0..Len(program.calls)
  BY DEF Base
<1>2. plan.size \in Nat /\ plan.size <= MaxOrders
  BY Assumptions DEF InLine, B!ClobAssumption
<1>3. \A d \in 0..Len(program.calls) : /\ plan.asked[d] \in 0..plan.size /\ plan.taken[d] \in 0..plan.asked[d]
                                       /\ plan.room[d] \in Nat
  BY DEF InLine
<1>4. /\ plan.asked[done] \in Nat /\ plan.taken[done] \in Nat /\ plan.room[done] \in Nat
      /\ plan.taken[done] <= plan.asked[done] /\ plan.asked[done] <= plan.size
  BY <1>1, <1>2, <1>3
<1>5. /\ plan.asked[done + 1] \in Nat /\ plan.taken[done + 1] \in Nat /\ plan.room[done + 1] \in Nat
      /\ plan.taken[done + 1] <= plan.asked[done + 1] /\ plan.asked[done + 1] <= plan.size
  BY <1>1, <1>2, <1>3
<1>6. Asks(NextCall, plan, done) \/ Takes(NextCall, plan, done) \/ Widens(NextCall, plan, done)
  BY <1>1 DEF InLine, NextCall
<1> QED BY <1>1, <1>2, <1>4, <1>5, <1>6

\* The book is empty at first,
LEMMA LineInit ==
  ASSUME Init, Base, NEW plan, InLine(program, plan)
  PROVE  LineInv(plan)
<1>1. B!Init /\ sink = program.sink /\ done = 0 /\ failed = FALSE /\ pc = "idle"
  BY SameSteps DEF Init, B!Init
<1>2. B!Abstract!Init
  BY <1>1, B!InitRefines, SameQueues, Assumptions
<1>3. queues["Buy"] = <<>> /\ queues["Sell"] = <<>>
  BY <1>2 DEF B!Abstract!Init, B!Abstract!Sides
<1>4. plan.asked[done] = 0 /\ plan.taken[done] = 0
  BY <1>1 DEF InLine
<1>5. Line(plan, 0) /\ InCall(plan, 0)
  BY <1>1, <1>3, <1>4 DEF Line, InCall
<1>6. Sunk(plan, 0)
  BY <1>1, SinkType DEF Sunk, InLine, Kinds
<1> QED BY <1>1, <1>5, <1>6 DEF LineInv

\* What rests is the asks in line.
LEMMA LineResting ==
  ASSUME Base, NEW plan, NEW gone \in Nat, Line(plan, gone), plan.asked[done] \in Nat
  PROVE  /\ queues \in [B!Sides -> Seq(B!Entry)]
         /\ \A id \in B!Abstract!Resting : id \in (gone + 1)..plan.asked[done]
         /\ Len(queues["Buy"]) = 0
<1>1. queues \in [B!Sides -> Seq(B!Entry)]
  BY B!BookShows, Assumptions DEF Base, B!IInv
<1>2. ASSUME NEW id \in B!Abstract!Resting PROVE id \in (gone + 1)..plan.asked[done]
  <2>1. PICK s \in B!Abstract!Sides : \E i \in DOMAIN queues[s] : id = queues[s][i].order_id
    BY <1>2 DEF B!Abstract!Resting
  <2>2. PICK i \in DOMAIN queues["Sell"] : id = queues["Sell"][i].order_id
    BY <2>1 DEF Line, B!Abstract!Sides
  <2>3. queues["Sell"] \in Seq(B!Entry)
    BY <1>1 DEF B!Sides
  <2>4. i \in 1..(plan.asked[done] - gone)
    BY <2>2, <2>3 DEF Line
  <2>5. queues["Sell"][i] = [order_id |-> gone + i, price |-> plan.price[gone + i], qty |-> plan.qty[gone + i]]
    BY <2>4 DEF Line
  <2>6. id = gone + i
    BY <2>2, <2>5
  <2> QED BY <2>4, <2>6
<1> QED BY <1>1, <1>2 DEF Line

\* A submit call of the plan is accepted.
LEMMA LineSubmit ==
  ASSUME Base, Base', NEW plan, InLine(program, plan), NEW gone \in Nat, Line(plan, gone), InCall(plan, gone),
         SubmitCall
  PROVE  /\ pc' # "idle" /\ queues' = queues /\ UNCHANGED <<program, sink, done, failed>>
         /\ InCall(plan, gone)'
<1>1. pc = "idle" /\ done < Len(program.calls) /\ NextCall.op \in {"submit", "preload"}
  BY DEF SubmitCall, AtCall
<1>2. Asks(NextCall, plan, done) \/ Takes(NextCall, plan, done)
  BY <1>1, LinePlan DEF Widens
<1>3. /\ Wanted.order_id \in OrderIds /\ Wanted.side \in B!Sides
      /\ Wanted.price \in InputPrices /\ Wanted.qty \in InputQtys
      /\ Wanted.price \in Nat /\ Wanted.qty \in Nat
  BY <1>1, Arguments DEF Base
<1>4. B!SubmitLimitOrder(Wanted.order_id, Wanted.side, Wanted.price, Wanted.qty)
  BY CallsAreSteps
<1>5. /\ B!IInv /\ B!IInv' /\ B!Shown /\ B!BookInv /\ queues' = (B!Queues)'
  BY SameQueues DEF Base, B!IInv
<1>6. B!Abstract!Acceptable(Wanted.order_id, Wanted.price, Wanted.qty)
  <2>1. Wanted.order_id \notin B!Abstract!Resting
    <3>1. Wanted.order_id = plan.asked[done] + 1 \/ Wanted.order_id > plan.asked[done]
      BY <1>2, <1>1, LinePlan DEF Asks, Takes, Wanted
    <3>2. \A id \in B!Abstract!Resting : id \in (gone + 1)..plan.asked[done]
      BY <1>1, LinePlan, LineResting
    <3> QED BY <1>1, <3>1, <3>2, LinePlan
  <2>2. Wanted.qty # 0 /\ Wanted.price \in B!Prices
    <3>1. CASE Asks(NextCall, plan, done)
      <4>1. plan.asked[done] + 1 \in 1..plan.size
        BY <1>1, <3>1, LinePlan DEF Asks
      <4>2. plan.price[plan.asked[done] + 1] \in B!Prices /\ plan.qty[plan.asked[done] + 1] \in Nat \ {0}
        BY <4>1 DEF InLine
      <4>3. /\ Wanted.price = plan.price[plan.asked[done] + 1]
            /\ Wanted.qty = plan.qty[plan.asked[done] + 1]
        BY <3>1 DEF Asks, Wanted
      <4> QED BY ONLY <4>2, <4>3
    <3>2. CASE Takes(NextCall, plan, done)
      <4>1. plan.taken[done] + 1 \in 1..plan.size
        BY <1>1, <3>2, LinePlan DEF Takes
      <4>2. plan.qty[plan.taken[done] + 1] \in Nat \ {0} /\ plan.taken[done + 1] - plan.taken[done] - 1 \in Nat
        <5>1. plan.qty[plan.taken[done] + 1] \in Nat \ {0}
          BY <4>1 DEF InLine
        <5>2. plan.taken[done] < plan.taken[done + 1] /\ plan.taken[done] \in Nat /\ plan.taken[done + 1] \in Nat
          BY <1>1, <3>2, LinePlan DEF Takes
        <5> QED BY <5>1, <5>2
      <4> QED BY <3>2, <4>2 DEF Takes, Wanted
    <3> QED BY <1>2, <3>1, <3>2
  <2> QED BY <2>1, <2>2 DEF B!Abstract!Acceptable, B!Prices
<1>7. B!Abstract!Submit(Wanted.order_id, Wanted.side, Wanted.price, Wanted.qty)
  BY <1>3, <1>4, <1>5, <1>6, B!SubmitRefines, Assumptions DEF B!Abstract!Reject
<1>8. /\ pc' = "match_order" /\ queues' = queues
      /\ call' = [order_id |-> Wanted.order_id, side |-> Wanted.side, price |-> Wanted.price,
                  qty |-> Wanted.qty, submitted |-> Wanted.qty]
  <2>1. ~(Wanted.qty = 0 \/ ~B!ValidPrice(Wanted.price) \/ B!Contains(Wanted.order_id))
    BY <1>3, <1>5, <1>6, B!AcceptableArguments, Assumptions
  <2> QED BY <1>4, <1>7, <2>1 DEF B!SubmitLimitOrder, B!Abstract!Submit
<1>9. UNCHANGED <<program, sink, done, failed>>
  BY <1>8 DEF SubmitCall
<1>10. InCall(plan, gone)'
  <2>1. gone = plan.taken[done]
    BY <1>1 DEF InCall
  <2>2. CASE Asks(NextCall, plan, done)
    BY <1>8, <1>9, <2>1, <2>2 DEF InCall, Asks, Wanted
  <2>3. CASE Takes(NextCall, plan, done)
    <3>1. gone \in plan.taken[done]..plan.taken[done + 1]
      BY <1>1, <2>1, <2>3, LinePlan DEF Takes
    <3>2. Wanted.side = "Buy"
      BY <2>3 DEF Takes, Wanted
    <3> QED BY <1>8, <1>9, <2>1, <3>1, <3>2 DEF InCall
  <2> QED BY <1>2, <2>2, <2>3
<1> QED BY <1>8, <1>9, <1>10

\* A buy in progress trades with the next ask in line, whole.
LEMMA LineTrade ==
  ASSUME Base, Base', NEW plan, InLine(program, plan), NEW gone \in Nat, Line(plan, gone), InCall(plan, gone),
         pc # "idle", pc' # "idle", B!Abstract!Trade, UNCHANGED <<program, done>>,
         call'.side = call.side, call'.submitted = call.submitted
  PROVE  /\ Takes(NextCall, plan, done) /\ gone < plan.taken[done + 1]
         /\ executions' = Append(executions, Report(plan, gone + 1))
         /\ Line(plan, gone + 1)' /\ InCall(plan, gone + 1)'
<1> DEFINE first == plan.taken[done] + 1
           last  == plan.taken[done + 1]
           line  == queues["Sell"]
           maker == Head(line)
<1>1. /\ done < Len(program.calls) /\ NextCall.op \in {"submit", "preload"}
      /\ call.order_id = Wanted.order_id /\ call.side = Wanted.side
      /\ call.price = Wanted.price /\ call.submitted = Wanted.qty
  BY DEF Base, Serving
<1>2. Asks(NextCall, plan, done) \/ Takes(NextCall, plan, done)
  BY <1>1, LinePlan DEF Widens
<1>3. B!Abstract!CanTrade /\ call.qty > 0
  BY DEF B!Abstract!Trade, B!Abstract!CanTrade
<1>4. call.side # "Sell"
  BY <1>3 DEF B!Abstract!CanTrade, B!Abstract!Opposite, Line
<1>5. Takes(NextCall, plan, done) /\ Wanted.side = "Buy" /\ call.side = "Buy"
  BY <1>1, <1>2, <1>4 DEF Asks, Takes, Wanted
<1>6. /\ gone \in (first - 1)..last
      /\ call.qty = IF gone = first - 1 THEN Wanted.qty ELSE last - gone
  BY <1>1, <1>5, LinePlan DEF InCall
<1>7. /\ first \in Nat /\ last \in Nat /\ first <= last /\ last <= plan.size /\ plan.asked[done] = plan.size
      /\ plan.size \in Nat
  BY <1>1, <1>5, LinePlan DEF Takes
<1>8. gone < last
  BY <1>3, <1>6, <1>7
<1>9. /\ line \in Seq(B!Entry) /\ Len(line) = plan.size - gone /\ 1 \in 1..(plan.size - gone)
      /\ maker = [order_id |-> gone + 1, price |-> plan.price[gone + 1], qty |-> plan.qty[gone + 1]]
  <2>1. line \in Seq(B!Entry)
    BY <1>1, LinePlan, LineResting DEF B!Sides
  <2>2. Len(line) = plan.size - gone /\ 1 \in 1..(plan.size - gone)
    BY <1>7, <1>8 DEF Line
  <2>3. line[1] = [order_id |-> gone + 1, price |-> plan.price[gone + 1], qty |-> plan.qty[gone + 1]]
    BY <1>7, <2>2 DEF Line
  <2>4. maker = line[1]
    BY <2>1, <2>2
  <2> QED BY <2>1, <2>2, <2>3, <2>4
<1>10. maker.qty \in Nat \ {0} /\ maker.qty <= call.qty /\ call.qty - maker.qty = last - (gone + 1)
  <2>1. gone + 1 \in 1..plan.size
    BY <1>7, <1>8
  <2>2. maker.qty = plan.qty[gone + 1] /\ maker.qty \in Nat \ {0}
    BY <1>9, <2>1 DEF InLine
  <2>3. CASE gone = first - 1
    <3>1. Wanted.qty = plan.qty[first] + (last - plan.taken[done] - 1)
      BY <1>5 DEF Takes, Wanted
    <3>2. plan.taken[done] \in Nat /\ first = gone + 1
      BY <1>1, <2>3, LinePlan
    <3> HIDE DEF last, maker
    <3> QED BY <1>6, <1>7, <1>8, <2>2, <2>3, <3>1, <3>2
  <2>4. CASE gone # first - 1
    <3>1. gone + 1 \in (plan.taken[done] + 2)..last
      BY <1>1, <1>6, <1>8, <2>4, LinePlan
    <3>2. plan.qty[gone + 1] = 1
      BY <1>5, <3>1 DEF Takes
    <3> HIDE DEF last, maker
    <3> QED BY <1>6, <1>7, <1>8, <2>2, <2>4, <3>2
  <2> QED BY <2>3, <2>4
<1>11. /\ executions' = Append(executions,
              [incoming_order_id |-> call.order_id, resting_order_id |-> maker.order_id,
               price |-> maker.price, qty |-> maker.qty])
       /\ call' = [call EXCEPT !.qty = @ - maker.qty]
       /\ queues' = [queues EXCEPT !["Sell"] = Tail(@)]
  <2>1. B!Abstract!Opposite(call.side) = "Sell"
    BY <1>5 DEF B!Abstract!Opposite
  <2>2. (IF call.qty < maker.qty THEN call.qty ELSE maker.qty) = maker.qty
    <3>1. call.qty \in Nat
      BY DEF Base, B!IInv, B!CallInv, B!Call, B!Qtys
    <3> HIDE DEF maker
    <3> QED BY <1>10, <3>1
  <2> QED BY <2>1, <2>2 DEF B!Abstract!Trade
<1>12. executions' = Append(executions, Report(plan, gone + 1))
  <2>1. gone + 1 \in (plan.taken[done] + 1)..last
    BY <1>1, <1>6, <1>7, <1>8, LinePlan
  <2>2. plan.taker[gone + 1] = Wanted.order_id
    BY <1>5, <2>1 DEF Takes, Wanted
  <2> QED BY <1>1, <1>9, <1>11, <2>2 DEF Report
<1>13. Line(plan, gone + 1)'
  <2>1. queues'["Buy"] = <<>> /\ queues'["Sell"] = Tail(line)
    <3>1. queues \in [B!Sides -> Seq(B!Entry)] /\ "Buy" \in B!Sides /\ "Sell" \in B!Sides
      BY <1>1, LinePlan, LineResting DEF B!Sides
    <3> HIDE DEF line
    <3>2. queues["Buy"] = <<>> /\ line = queues["Sell"]
      BY DEF Line, line
    <3> QED BY <1>11, <3>1, <3>2
  <2>2. /\ Len(Tail(line)) = plan.size - (gone + 1)
        /\ \A k \in 1..(plan.size - (gone + 1)) : Tail(line)[k] = line[k + 1]
    <3> HIDE DEF line
    <3>1. Len(line) \in Nat /\ Len(line) > 0
      BY <1>9
    <3>2. Len(Tail(line)) = Len(line) - 1 /\ \A k \in 1..(Len(line) - 1) : Tail(line)[k] = line[k + 1]
      BY <1>9, <3>1
    <3> QED BY <1>7, <1>9, <3>2
  <2>3. \A k \in 1..(plan.size - (gone + 1)) :
          line[k + 1] = [order_id |-> gone + 1 + k, price |-> plan.price[gone + 1 + k],
                         qty |-> plan.qty[gone + 1 + k]]
    <3> SUFFICES ASSUME NEW k \in 1..(plan.size - (gone + 1))
                 PROVE  line[k + 1] = [order_id |-> gone + 1 + k, price |-> plan.price[gone + 1 + k],
                                       qty |-> plan.qty[gone + 1 + k]]
      OBVIOUS
    <3>1. k + 1 \in 1..(plan.asked[done] - gone) /\ gone + (k + 1) = gone + 1 + k
      BY <1>7, <1>8
    <3>2. \A i \in 1..(plan.asked[done] - gone) :
            line[i] = [order_id |-> gone + i, price |-> plan.price[gone + i], qty |-> plan.qty[gone + i]]
      BY DEF Line, line
    <3>3. line[k + 1] = [order_id |-> gone + (k + 1), price |-> plan.price[gone + (k + 1)],
                         qty |-> plan.qty[gone + (k + 1)]]
      BY ONLY <3>1, <3>2
    <3> QED BY ONLY <3>1, <3>3
  <2>4. plan.asked[done'] = plan.size /\ gone + 1 \in 0..plan.size
    BY <1>7, <1>8
  <2> QED BY <2>1, <2>2, <2>3, <2>4 DEF Line
<1>14. InCall(plan, gone + 1)'
  <2>1. call'.qty = last - (gone + 1)
    <3>1. call \in B!Call /\ call.qty \in Nat
      BY DEF Base, B!IInv, B!CallInv, B!Call, B!Qtys
    <3> HIDE DEF maker, last
    <3> QED BY <1>10, <1>11, <3>1 DEF B!Call
  <2>2. gone + 1 \in plan.taken[done]..last /\ gone + 1 # plan.taken[done]
    BY <1>1, <1>6, <1>7, <1>8, LinePlan
  <2> QED BY <1>5, <2>1, <2>2 DEF InCall
<1> QED BY <1>5, <1>8, <1>12, <1>13, <1>14

\* A call of the plan ends as planned: an ask rests behind those in line,
LEMMA AskRests ==
  ASSUME Base, Base', NEW plan, InLine(program, plan), Line(plan, 0), done < Len(program.calls),
         Asks(NextCall, plan, done), done' = done + 1,
         B!Abstract!Rest(Wanted.order_id, "Sell", Wanted.price, Wanted.qty)
  PROVE  Line(plan, 0)' /\ ret' = TRUE
<1> DEFINE line == queues["Sell"]
           n == plan.asked[done]
           e == [order_id |-> Wanted.order_id, price |-> Wanted.price, qty |-> Wanted.qty]
<1>1. /\ queues \in [B!Sides -> Seq(B!Entry)] /\ Len(queues["Buy"]) = 0
      /\ line \in Seq(B!Entry) /\ Len(line) = n /\ n \in Nat /\ n < plan.size /\ plan.size \in Nat
      /\ plan.size <= MaxOrders /\ queues["Buy"] = <<>>
  <2>1. n \in Nat /\ n < plan.size /\ plan.size \in Nat /\ plan.size <= MaxOrders
    BY LinePlan DEF Asks
  <2>2. queues \in [B!Sides -> Seq(B!Entry)] /\ Len(queues["Buy"]) = 0
    BY <2>1, LineResting
  <2>3. Len(line) = n /\ queues["Buy"] = <<>>
    BY <2>1 DEF Line
  <2> QED BY <2>1, <2>2, <2>3 DEF B!Sides
<1>2. e = [order_id |-> n + 1, price |-> plan.price[n + 1], qty |-> plan.qty[n + 1]] /\ e \in B!Entry
  <2>1. e = [order_id |-> n + 1, price |-> plan.price[n + 1], qty |-> plan.qty[n + 1]]
    BY DEF Asks, Wanted
  <2>2. Wanted.order_id \in OrderIds /\ Wanted.qty \in B!Qtys
    BY Arguments DEF Base, Asks
  <2>3. n + 1 \in 1..plan.size
    BY <1>1
  <2>4. Wanted.price \in B!Prices
    BY <2>1, <2>3 DEF InLine
  <2> QED BY <2>1, <2>2, <2>4 DEF B!Entry
<1>3. ~B!Abstract!Full
  BY <1>1, Assumptions DEF B!Abstract!Full, B!ClobAssumption
<1>4. PICK k \in 1..(n + 1) :
        /\ B!Abstract!InLine("Sell", Wanted.price, k)
        /\ queues' = [queues EXCEPT !["Sell"] = B!Abstract!SX!InsertAt(@, k, e)]
  BY <1>1, <1>3 DEF B!Abstract!Rest
<1>5. k = n + 1
  <2> SUFFICES ASSUME k \in 1..n PROVE FALSE
    BY <1>1
  <2>1. ~B!Abstract!AsGood("Sell", line[k].price, Wanted.price)
    BY <1>1, <1>4 DEF B!Abstract!InLine
  <2>2. line[k] = [order_id |-> k, price |-> plan.price[k], qty |-> plan.qty[k]]
    <3>1. k \in 1..(n - 0) /\ 0 + k = k
      BY <1>1
    <3>2. line[k] = [order_id |-> 0 + k, price |-> plan.price[0 + k], qty |-> plan.qty[0 + k]]
      BY <3>1 DEF Line
    <3> QED BY <3>1, <3>2
  <2>3. plan.price[k] <= plan.price[n + 1]
    <3>1. n + 1 \in 1..plan.size /\ k \in 1..(n + 1)
      BY <1>1
    <3> QED BY <3>1 DEF InLine
  <2>4. Wanted.price = plan.price[n + 1]
    BY DEF Asks, Wanted
  <2> HIDE DEF line
  <2> QED BY <2>1, <2>2, <2>3, <2>4 DEF B!Abstract!AsGood
<1>6. /\ queues'["Buy"] = <<>> /\ Len(queues'["Sell"]) = n + 1 /\ queues'["Sell"][n + 1] = e
      /\ \A m \in 1..n : queues'["Sell"][m] = line[m]
  <2> DEFINE longer == B!SX!InsertAt(line, k, e)
  <2>1. B!IsInserted(longer, line, k, e)
    <3> HIDE DEF line, e
    <3> QED BY <1>1, <1>2, <1>4, B!InsertedAt, Assumptions
  <2>2. queues'["Buy"] = <<>> /\ queues'["Sell"] = longer
    <3>1. B!Abstract!SX!InsertAt(line, k, e) = longer
      BY DEF B!Abstract!SX!InsertAt, B!SX!InsertAt
    <3>2. queues' = [queues EXCEPT !["Sell"] = longer] /\ "Sell" \in B!Sides /\ "Buy" \in B!Sides
      BY <1>4, <3>1 DEF B!Sides
    <3> HIDE DEF longer
    <3> QED BY <1>1, <3>2
  <2>3. Len(longer) = n + 1 /\ longer[n + 1] = e /\ \A m \in 1..n : longer[m] = line[m]
    <3> HIDE DEF longer, line, e
    <3> QED BY <1>1, <1>5, <2>1 DEF B!IsInserted
  <2> QED BY <2>2, <2>3
<1>7. plan.asked[done'] = n + 1 /\ 0 \in 0..(n + 1)
  BY <1>1 DEF Asks
<1>8. \A m \in 1..(n + 1) :
        queues'["Sell"][m] = [order_id |-> 0 + m, price |-> plan.price[0 + m], qty |-> plan.qty[0 + m]]
  <2> SUFFICES ASSUME NEW m \in 1..(n + 1)
               PROVE  queues'["Sell"][m] = [order_id |-> 0 + m, price |-> plan.price[0 + m], qty |-> plan.qty[0 + m]]
    OBVIOUS
  <2>1. CASE m = n + 1
    BY <1>1, <1>2, <1>6, <2>1
  <2>2. CASE m # n + 1
    <3>1. m \in 1..n /\ n - 0 = n
      <4> HIDE DEF n
      <4> QED BY <1>1, <2>2
    <3> QED BY <1>6, <3>1 DEF Line
  <2> QED BY <2>1, <2>2
<1>9. ret' = TRUE
  BY <1>3 DEF B!Abstract!Rest
<1> QED BY <1>1, <1>6, <1>7, <1>8, <1>9 DEF Line

\* and a buy ends when it has taken all it is to take.
LEMMA LineFinish ==
  ASSUME Base, Base', NEW plan, InLine(program, plan), NEW gone \in Nat, Line(plan, gone), InCall(plan, gone),
         pc # "idle", pc' = "idle", B!Abstract!Finish, program' = program, done' = done + 1
  PROVE  Line(plan, gone)' /\ InCall(plan, gone)' /\ ret' = TRUE
<1>1. /\ done < Len(program.calls) /\ NextCall.op \in {"submit", "preload"}
      /\ call.order_id = Wanted.order_id /\ call.side = Wanted.side
      /\ call.price = Wanted.price /\ call.submitted = Wanted.qty
  BY DEF Base, Serving
<1>2. Asks(NextCall, plan, done) \/ Takes(NextCall, plan, done)
  BY <1>1, LinePlan DEF Widens
<1>3. ~B!Abstract!CanTrade /\ call.qty \in Nat
  BY DEF B!Abstract!Finish, Base, B!IInv, B!CallInv, B!Call, B!Qtys
<1>4. CASE Asks(NextCall, plan, done)
  <2>1. call.side = "Sell" /\ gone = 0 /\ call.qty = Wanted.qty /\ Wanted.qty # 0
    <3>1. plan.asked[done] + 1 \in 1..plan.size
      BY <1>1, <1>4, LinePlan DEF Asks
    <3> QED BY <1>1, <1>4, <3>1 DEF InCall, Asks, Wanted, InLine
  <2>2. B!Abstract!Rest(Wanted.order_id, "Sell", Wanted.price, Wanted.qty)
    BY <1>1, <2>1 DEF B!Abstract!Finish
  <2>3. Line(plan, 0)' /\ ret' = TRUE
    BY <1>1, <1>4, <2>1, <2>2, AskRests
  <2> QED BY <1>4, <2>1, <2>3 DEF InCall, Asks
<1>5. CASE Takes(NextCall, plan, done)
  <2> DEFINE last == plan.taken[done + 1]
  <2>1. Wanted.side = "Buy" /\ call.side = "Buy"
    BY <1>1, <1>5 DEF Takes, Wanted
  <2>2. /\ gone \in plan.taken[done]..last
        /\ call.qty = IF gone = plan.taken[done] THEN Wanted.qty ELSE last - gone
    BY <1>1, <2>1 DEF InCall
  <2>3. /\ plan.taken[done] \in Nat /\ last \in Nat /\ last <= plan.size /\ plan.taken[done] < last
        /\ plan.asked[done] = plan.size /\ plan.size \in Nat
    BY <1>1, <1>5, LinePlan DEF Takes
  <2>4. gone = last
    <3> SUFFICES ASSUME gone # last PROVE FALSE
      OBVIOUS
    <3>1. gone < last /\ gone + 1 \in 1..plan.size /\ gone + 1 \in (plan.taken[done] + 1)..last
      BY <2>2, <2>3
    <3>2. call.qty > 0
      <4>1. CASE gone = plan.taken[done]
        <5>1. Wanted.qty = plan.qty[plan.taken[done] + 1] + (last - plan.taken[done] - 1)
          BY <1>5 DEF Takes, Wanted
        <5>2. plan.qty[plan.taken[done] + 1] \in Nat \ {0}
          BY <3>1, <4>1 DEF InLine
        <5> HIDE DEF last
        <5> QED BY <2>2, <2>3, <4>1, <5>1, <5>2
      <4>2. CASE gone # plan.taken[done]
        BY <2>2, <2>3, <3>1, <4>2
      <4> QED BY <4>1, <4>2
    <3>3. /\ queues["Sell"] \in Seq(B!Entry) /\ Len(queues["Sell"]) = plan.size - gone
          /\ 1 \in 1..(plan.size - gone)
      <4>1. queues["Sell"] \in Seq(B!Entry)
        BY <1>1, LineResting, LinePlan DEF B!Sides
      <4>2. Len(queues["Sell"]) = plan.size - gone
        BY <2>3 DEF Line
      <4> QED BY <2>3, <3>1, <4>1, <4>2
    <3>4. queues["Sell"] # <<>> /\ Head(queues["Sell"]).price = plan.price[gone + 1]
      <4>1. queues["Sell"][1] = [order_id |-> gone + 1, price |-> plan.price[gone + 1], qty |-> plan.qty[gone + 1]]
        BY <2>3, <3>3 DEF Line
      <4>2. queues["Sell"] # <<>> /\ Head(queues["Sell"]) = queues["Sell"][1]
        BY <3>3
      <4> QED BY <4>1, <4>2
    <3>5. plan.price[gone + 1] <= Wanted.price /\ plan.price[gone + 1] \in Nat /\ Wanted.price \in Nat
      <4>1. plan.price[gone + 1] <= Wanted.price /\ plan.price[gone + 1] \in B!Prices
        BY <1>5, <3>1 DEF Takes, Wanted, InLine
      <4>2. Wanted.price \in Nat
        BY <1>1, Arguments DEF Base
      <4> QED BY <4>1, <4>2, B!ImprovesOrders, Assumptions
    <3>6. B!Abstract!CanTrade
      <4>1. B!Abstract!Opposite(call.side) = "Sell"
        BY <2>1 DEF B!Abstract!Opposite
      <4>2. B!Abstract!AsGood(call.side, call.price, Head(queues["Sell"]).price)
        BY <1>1, <2>1, <3>4, <3>5 DEF B!Abstract!AsGood
      <4> QED BY <3>2, <3>4, <4>1, <4>2 DEF B!Abstract!CanTrade
    <3> QED BY <1>3, <3>6
  <2>5. call.qty = 0
    BY <2>2, <2>3, <2>4
  <2>6. ret' = TRUE /\ queues' = queues
    BY <2>5 DEF B!Abstract!Finish
  <2>7. plan.asked[done'] = plan.asked[done]
    BY <1>5 DEF Takes
  <2> QED BY <2>4, <2>6, <2>7 DEF Line, InCall
<1> QED BY <1>2, <1>4, <1>5

\* The sink takes the execution of a trade.
LEMMA LineSinks ==
  ASSUME Base, Base', NEW plan, InLine(program, plan), NEW gone \in Nat, Sunk(plan, gone),
         done < Len(program.calls), Takes(NextCall, plan, done), gone < plan.taken[done + 1],
         executions' = Append(executions, Report(plan, gone + 1)),
         sink' = EmplaceBack(sink, executions'[Len(executions')]), UNCHANGED <<program, done>>
  PROVE  Sunk(plan, gone + 1)'
<1>1. executions' \in Seq(B!Execs) /\ executions \in Seq(B!Execs)
  BY DEF Base, B!IInv, B!CallInv
<1>2. Report(plan, gone + 1) \in Reports /\ sink' = EmplaceBack(sink, Report(plan, gone + 1))
  <2> DEFINE x == Report(plan, gone + 1)
  <2>1. PICK n \in Nat : n = Len(executions)
    BY <1>1
  <2> HIDE DEF x
  <2>2. Len(executions') = n + 1 /\ executions'[n + 1] = x
    BY <1>1, <2>1 DEF x
  <2>3. executions'[n + 1] \in B!Execs
    BY <1>1, <2>2
  <2> QED BY <2>2, <2>3 DEF Reports, x
<1>3. sink.kind = "buffer" => sink.size < Len(sink.data)
  <2>1. sink.kind = "buffer" => sink.size = gone /\ plan.room[done] <= Len(sink.data) /\ Len(sink.data) \in Nat
    BY SinkType DEF Sunk
  <2>2. gone < plan.room[done] /\ plan.room[done] \in Nat
    BY LinePlan DEF Takes
  <2> QED BY <2>1, <2>2
<1>4. sink \in Sinks /\ sink.kind \in Kinds
  BY SinkType DEF Sunk
<1> DEFINE x == Report(plan, gone + 1)
<1> HIDE DEF x
<1>5. CASE sink.kind = "null"
  <2>1. sink' = sink
    BY <1>2, <1>3, <1>4, <1>5, EmplaceBackAdds DEF x
  <2> QED BY <1>5, <2>1 DEF Sunk
<1>6. CASE sink.kind = "buffer"
  <2>1. /\ sink' \in Sinks /\ sink'.kind = sink.kind /\ Len(sink'.data) = Len(sink.data)
        /\ sink'.size = gone + 1 /\ sink'.data[gone + 1] = x
        /\ \A i \in 1..gone : sink'.data[i] = Report(plan, i)
    BY <1>2, <1>3, <1>4, <1>6, EmplaceBackAdds DEF Sunk, x
  <2>2. \A i \in 1..(gone + 1) : sink'.data[i] = Report(plan, i)
    <3>1. \A i \in 1..(gone + 1) : i = gone + 1 \/ i \in 1..gone
      OBVIOUS
    <3>2. sink'.data[gone + 1] = Report(plan, gone + 1)
      BY <2>1 DEF x
    <3> QED BY <2>1, <3>1, <3>2, Zenon
  <2> QED BY <1>6, <2>1, <2>2 DEF Sunk
<1>7. CASE sink.kind = "vector"
  <2>1. /\ sink' \in Sinks /\ sink'.kind = sink.kind /\ sink'.data = Append(sink.data, x)
        /\ sink'.size = gone + 1 /\ Len(sink.data) = gone
        /\ \A i \in 1..gone : sink'.data[i] = Report(plan, i)
    <3>1. /\ sink.size = gone /\ Len(sink.data) = gone
          /\ \A i \in 1..gone : sink.data[i] = Report(plan, i)
      BY <1>7 DEF Sunk
    <3>2. /\ sink' \in Sinks /\ sink'.kind = sink.kind /\ sink'.data = Append(sink.data, x)
          /\ sink'.size = sink.size + 1
          /\ \A i \in 1..sink.size : sink'.data[i] = sink.data[i]
      <4>1. sink' = EmplaceBack(sink, x) /\ x \in Reports
        BY <1>2 DEF x
      <4> QED BY <1>4, <1>7, <4>1, EmplaceBackAdds
    <3> QED BY <3>1, <3>2
  <2>2. sink'.data[gone + 1] = x /\ Len(sink'.data) = gone + 1
    BY <1>2, <1>4, <2>1, SinkType DEF x
  <2>3. \A i \in 1..(gone + 1) : sink'.data[i] = Report(plan, i)
    <3>1. \A i \in 1..(gone + 1) : i = gone + 1 \/ i \in 1..gone
      OBVIOUS
    <3> QED BY <2>1, <2>2, <3>1 DEF x
  <2> QED BY <1>7, <2>1, <2>2, <2>3 DEF Sunk
<1> QED BY <1>4, <1>5, <1>6, <1>7 DEF Kinds

\* and every step keeps to the plan.
LEMMA LineNext ==
  ASSUME Base, Base', NEW plan, InLine(program, plan), LineInv(plan), [Next]_vars
  PROVE  LineInv(plan)'
<1>1. PICK gone \in Nat : Line(plan, gone) /\ Sunk(plan, gone) /\ InCall(plan, gone)
  BY DEF LineInv
<1>2. ~failed
  BY DEF LineInv
<1>3. /\ B!IInv /\ B!IInv' /\ B!Shown /\ queues' = (B!Queues)'
  BY SameQueues DEF Base
<1>4. CASE SubmitCall
  <2>1. /\ queues' = queues /\ UNCHANGED <<program, sink, done, failed>> /\ InCall(plan, gone)'
    BY <1>1, <1>4, LineSubmit
  <2>2. Line(plan, gone)' /\ Sunk(plan, gone)'
    BY <1>1, <2>1 DEF Line, Sunk
  <2> QED BY <1>2, <2>1, <2>2 DEF LineInv
<1>5. CASE MatchStep
  <2>1. /\ pc # "idle" /\ program' = program /\ done < Len(program.calls)
        /\ executions \in Seq(B!Execs) /\ Len(executions) \in Nat
    BY <1>5, MatchKeepsCall DEF MatchStep, Base, Serving, B!IInv, B!CallInv
  <2>2. CASE B!EnterLevel \/ B!LeaveLevel
    <3>1. UNCHANGED B!Abstract!vars /\ pc' # "idle"
      BY <1>3, <2>2, B!LevelSteps, Assumptions DEF B!EnterLevel, B!LeaveLevel
    <3>2. queues' = queues /\ call' = call /\ executions' = executions
      BY <3>1 DEF B!Abstract!vars
    <3>3. UNCHANGED <<sink, done, failed>>
      BY <1>5, <2>1, <3>1, <3>2 DEF MatchStep
    <3>4. Line(plan, gone)' /\ Sunk(plan, gone)' /\ InCall(plan, gone)'
      BY <1>1, <2>1, <3>1, <3>2, <3>3 DEF Line, Sunk, InCall
    <3> QED BY <1>2, <3>3, <3>4 DEF LineInv
  <2>3. CASE B!FillIncoming \/ B!FillResting
    <3>1. B!Abstract!Trade /\ pc' # "idle"
      <4>1. B!Abstract!Trade
        BY <1>3, <2>3, B!FillIncomingRefines, B!FillRestingRefines, Assumptions
      <4> QED BY <2>1, <2>3, <4>1 DEF B!FillIncoming, B!FillResting
    <3>2. UNCHANGED <<program, done, failed>> /\ call'.side = call.side /\ call'.submitted = call.submitted
      BY <1>5, <3>1, MatchKeepsCall DEF MatchStep
    <3>3. /\ Takes(NextCall, plan, done) /\ gone < plan.taken[done + 1]
          /\ executions' = Append(executions, Report(plan, gone + 1))
          /\ Line(plan, gone + 1)' /\ InCall(plan, gone + 1)'
      BY <1>1, <2>1, <3>1, <3>2, LineTrade
    <3>4. sink' = EmplaceBack(sink, executions'[Len(executions')])
      <4>1. Len(executions') > Len(executions)
        <5> DEFINE x == Report(plan, gone + 1)
        <5> HIDE DEF x
        <5> QED BY <2>1, <3>3 DEF x
      <4> QED BY <1>5, <3>3, <4>1 DEF MatchStep, Takes
    <3>5. Sunk(plan, gone + 1)'
      BY <1>1, <2>1, <3>2, <3>3, <3>4, LineSinks
    <3> QED BY <1>2, <3>2, <3>3, <3>5 DEF LineInv
  <2>4. CASE B!FinishSubmit
    <3>1. B!Abstract!Finish /\ pc' = "idle" /\ executions' = <<>>
      BY <1>3, <2>4, B!FinishSubmitRefines, Assumptions DEF B!FinishSubmit
    <3>2. done' = done + 1 /\ failed' = (failed \/ ~ret') /\ sink' = sink
      BY <1>5, <2>1, <3>1 DEF MatchStep, Returned
    <3>3. Line(plan, gone)' /\ InCall(plan, gone)' /\ ret' = TRUE
      BY <1>1, <2>1, <3>1, <3>2, LineFinish
    <3>4. plan.room[done'] = plan.room[done]
      <4>1. NextCall.op # "reserve"
        BY <2>1 DEF Base, Serving
      <4> QED BY <2>1, <3>2, <4>1, LinePlan DEF Asks, Takes, Widens
    <3>5. Sunk(plan, gone)'
      BY <1>1, <2>1, <3>2, <3>4 DEF Sunk
    <3> QED BY <1>2, <3>2, <3>3, <3>5 DEF LineInv
  <2> QED BY <1>5, <2>2, <2>3, <2>4, CallsAreSteps
<1>6. CASE AddCall \/ CancelCall \/ ClearCall
  <2>1. done < Len(program.calls) /\ NextCall.op \in {"add", "cancel", "clear"}
    BY <1>6 DEF AddCall, CancelCall, ClearCall, AtCall
  <2> QED BY <2>1, LinePlan DEF Asks, Takes, Widens
<1>7. CASE ReserveCall
  <2>1. /\ pc = "idle" /\ done < Len(program.calls) /\ NextCall.op = "reserve"
        /\ sink' = Reserve(sink, NextCall.count) /\ done' = done + 1
        /\ UNCHANGED bookvars /\ UNCHANGED <<program, failed>>
    BY <1>7 DEF ReserveCall, AtCall
  <2>2. Widens(NextCall, plan, done)
    BY <2>1, LinePlan DEF Asks, Takes
  <2>3. queues' = queues /\ pc' = pc
    <3>1. UNCHANGED B!store /\ pc' = pc
      BY <2>1 DEF bookvars, B!store
    <3> QED BY <1>3, <3>1, B!KeepShown, Assumptions DEF B!IInv
  <2>4. Line(plan, gone)' /\ InCall(plan, gone)'
    BY <1>1, <2>1, <2>2, <2>3 DEF Line, InCall, Widens
  <2>5. Sunk(plan, gone)'
    <3>1. /\ sink' \in Sinks /\ sink'.kind = sink.kind /\ sink'.size = sink.size
          /\ sink.kind # "buffer" => sink' = sink
          /\ sink.kind = "buffer" => NextCall.count <= Len(sink'.data)
          /\ \A i \in 1..sink.size : sink'.data[i] = sink.data[i]
      BY <1>1, <2>1, <2>2, ReserveKeeps DEF Sunk, Widens
    <3> QED BY <1>1, <2>1, <2>2, <3>1 DEF Sunk, Widens
  <2> QED BY <1>2, <2>1, <2>4, <2>5 DEF LineInv
<1>8. CASE UNCHANGED vars
  <2>1. UNCHANGED B!store /\ UNCHANGED <<program, pc, call, sink, failed, done>>
    BY <1>8 DEF vars, bookvars, B!store
  <2>2. queues' = queues
    BY <1>3, <2>1, B!KeepShown, Assumptions DEF B!IInv
  <2>3. Line(plan, gone)' /\ Sunk(plan, gone)' /\ InCall(plan, gone)'
    BY <1>1, <2>1, <2>2 DEF Line, Sunk, InCall
  <2> QED BY <1>2, <2>1, <2>3 DEF LineInv
<1> QED BY <1>4, <1>5, <1>6, <1>7, <1>8 DEF Next, Finished

\* A program whose bids take the asks in line is checked as it should be.
LEMMA LineChecked ==
  ASSUME Base, NEW plan, InLine(program, plan), LineInv(plan)
  PROVE  SinkFits /\ EndsAsChecked
<1>1. PICK gone \in Nat : Line(plan, gone) /\ Sunk(plan, gone) /\ InCall(plan, gone)
  BY DEF LineInv
<1>2. /\ InBounds(sink) /\ Contents(sink) \in Seq(Reports) /\ Len(Contents(sink)) = sink.size
      /\ \A i \in 1..sink.size : Contents(sink)[i] = sink.data[i]
  BY <1>1, ContentsAre DEF Sunk
<1>3. ASSUME done = Len(program.calls)
      PROVE  Contents(sink) = program.executions /\ Book!active_orders = program.resting
  <2>1. pc = "idle" /\ gone = plan.taken[done]
    BY <1>1, <1>3 DEF Base, Serving, InCall
  <2>2. plan.asked[done] \in Nat /\ gone <= plan.asked[done]
    <3>1. done \in 0..Len(program.calls)
      BY DEF Base
    <3>2. plan.size \in Nat
      BY Assumptions DEF InLine, B!ClobAssumption
    <3> QED BY <1>1, <3>1, <3>2 DEF InLine, Line
  <2>3. Contents(sink) = program.executions
    <3>1. CASE sink.kind = "null"
      <4>1. Contents(sink) = <<>>
        BY <1>1, <1>2, <3>1 DEF Sunk
      <4> QED BY <1>1, <3>1, <4>1 DEF Sunk, InLine
    <3>2. CASE sink.kind # "null"
      <4>1. /\ Contents(sink) \in Seq(Reports) /\ Len(Contents(sink)) = gone
            /\ \A i \in 1..gone : Contents(sink)[i] = Report(plan, i)
        BY <1>1, <1>2, <3>2 DEF Sunk
      <4>2. program.executions = [i \in 1..gone |-> Report(plan, i)]
        BY <1>1, <1>3, <2>1, <3>2 DEF Sunk, InLine
      <4>3. Contents(sink) = [i \in 1..gone |-> Contents(sink)[i]]
        BY <4>1
      <4> QED BY <4>1, <4>2, <4>3
    <3> QED BY <3>1, <3>2
  <2>4. Book!active_orders = program.resting
    <3>1. /\ Len(queues["Buy"]) = 0 /\ Len(queues["Sell"]) = plan.asked[done] - gone
      BY <1>1, <2>2, LineResting DEF Line
    <3>2. B!active_orders = Len(queues["Buy"]) + Len(queues["Sell"])
      <4>1. B!BookInv
        BY DEF Base, B!IInv
      <4> QED BY <4>1, B!ActiveInLine, Assumptions DEF Base
    <3>3. Book!active_orders = B!active_orders
      BY DEF Book!active_orders, B!active_orders
    <3> QED BY <1>3, <2>1, <2>2, <3>1, <3>2, <3>3 DEF InLine
  <2> QED BY <2>3, <2>4
<1> QED BY <1>2, <1>3 DEF SinkFits, EndsAsChecked, LineInv
------------------------------------------------------------------------------
(* Whichever plan a program has, it keeps to it                            *)

PlanInv ==
  /\ Base
  /\ \A plan : Apart(program, plan) => ApartInv(plan)
  /\ \A plan : InLine(program, plan) => LineInv(plan)

Planned(p) == \E plan : Apart(p, plan) \/ InLine(p, plan)

LEMMA PlanInit == Init => PlanInv
BY BaseInit, ApartInit, LineInit DEF PlanInv

LEMMA PlanNext == PlanInv /\ [Next]_vars => PlanInv'
<1> SUFFICES ASSUME PlanInv, [Next]_vars PROVE PlanInv'
  OBVIOUS
<1>1. Base /\ Base'
  BY BaseNext DEF PlanInv
<1>2. program' = program
  BY DEF Next, vars, SubmitCall, MatchStep, AddCall, CancelCall, ReserveCall, ClearCall, Finished
<1>3. ASSUME NEW plan, Apart(program, plan)' PROVE ApartInv(plan)'
  <2>1. Apart(program, plan)
    BY <1>2, <1>3 DEF Apart, Sinks, Reports, Brings, Cancels, Reserves, B!Prices, B!Execs, B!Qtys
  <2> QED BY <1>1, <2>1, ApartNext DEF PlanInv
<1>4. ASSUME NEW plan, InLine(program, plan)' PROVE LineInv(plan)'
  <2>1. InLine(program, plan)
    <3>1. InLine(program', plan)
      BY <1>4
    <3> QED BY <1>2, <3>1
  <2> QED BY <1>1, <2>1, LineNext DEF PlanInv
<1> QED BY <1>1, <1>3, <1>4 DEF PlanInv

LEMMA PlanChecked == PlanInv /\ Planned(program) => SinkFits /\ EndsAsChecked
BY ApartChecked, LineChecked DEF PlanInv, Planned
------------------------------------------------------------------------------
(* Programs laid out as plans                                              *)

Lists(f, n) == n \in Nat /\ DOMAIN f = 1..n /\ f = [i \in DOMAIN f |-> f[i]]

LEMMA ListLength ==
  ASSUME NEW f, NEW n, Lists(f, n)
  PROVE  f \in Seq({f[i] : i \in 1..n}) /\ Len(f) = n
<1>1. n \in Nat /\ f \in [1..n -> {f[i] : i \in 1..n}]
  BY DEF Lists
<1> QED BY <1>1

\* One list after another.
Joined(z, x, y, k, m) ==
  /\ k \in Nat /\ m \in Nat
  /\ Lists(z, k + m)
  /\ \A i \in 1..(k + m) : z[i] = IF i <= k THEN x[i] ELSE y[i - k]

LEMMA ListJoined ==
  ASSUME NEW x, NEW y, NEW k, NEW m, Lists(x, k), Lists(y, m)
  PROVE  Joined(x \o y, x, y, k, m)
<1> DEFINE S == {x[i] : i \in 1..k} \cup {y[i] : i \in 1..m}
<1>1. k \in Nat /\ m \in Nat /\ DOMAIN x = 1..k /\ DOMAIN y = 1..m
  BY DEF Lists
<1>2. x \in [1..k -> S] /\ y \in [1..m -> S]
  BY <1>1 DEF Lists
<1> HIDE DEF S
<1>3. x \in Seq(S) /\ Len(x) = k /\ y \in Seq(S) /\ Len(y) = m
  BY <1>1, <1>2
<1>4. /\ x \o y \in Seq(S) /\ Len(x \o y) = k + m
      /\ \A i \in 1..(k + m) : (x \o y)[i] = IF i <= k THEN x[i] ELSE y[i - k]
  BY <1>1, <1>3
<1>5. DOMAIN (x \o y) = 1..(k + m) /\ (x \o y) = [i \in DOMAIN (x \o y) |-> (x \o y)[i]] /\ k + m \in Nat
  <2>1. PICK z : z = x \o y
    OBVIOUS
  <2>2. z \in Seq(S) /\ Len(z) = k + m
    BY <1>4, <2>1
  <2>3. DOMAIN z = 1..(k + m) /\ z = [i \in DOMAIN z |-> z[i]] /\ k + m \in Nat
    BY <1>1, <2>2
  <2> QED BY <2>1, <2>3
<1> QED BY <1>1, <1>4, <1>5 DEF Lists, Joined

LEMMA ListPart ==
  ASSUME NEW x, NEW k, NEW a \in Nat, NEW b \in Nat, Lists(x, k), a <= b, b <= k
  PROVE  /\ Lists(SubSeq(x, a + 1, b), b - a)
         /\ \A i \in 1..(b - a) : SubSeq(x, a + 1, b)[i] = x[a + i]
<1> DEFINE S == {x[i] : i \in 1..k}
<1>1. x \in Seq(S) /\ Len(x) = k /\ k \in Nat
  BY ListLength DEF Lists
<1> HIDE DEF S
<1>2. PICK z : z = SubSeq(x, a + 1, b)
  OBVIOUS
<1>3. z \in Seq(S) /\ Len(z) = b - a /\ \A i \in 1..(b - a) : z[i] = x[a + i]
  BY <1>1, <1>2
<1>4. DOMAIN z = 1..(b - a) /\ z = [i \in DOMAIN z |-> z[i]] /\ b - a \in Nat
  BY <1>3
<1> QED BY <1>2, <1>3, <1>4 DEF Lists

LEMMA ListCalls ==
  ASSUME NEW op, NEW c, NEW n, Lists(c, n)
  PROVE  /\ Lists(Calls(op, c), n)
         /\ \A i \in 1..n : Calls(op, c)[i] = [op |-> op, command |-> c[i]]
BY DEF Lists, Calls

\* Calls that bring in n orders, perhaps after a reservation, and perhaps cancel them all
AddsOrders(p, n, r, x) ==
  /\ Len(p.calls) = r + n + x
  /\ r = 1 => p.calls[1].op = "reserve" /\ p.calls[1].count \in Nat
  /\ \A i \in 1..n : LET c == p.calls[r + i] IN
       /\ c.op \in {"add", "submit", "preload"}
       /\ c.command.order_id = i /\ c.command.price \in B!Prices /\ c.command.qty > 0
       /\ IF c.command.side = "Buy" THEN c.command.price <= base_bid ELSE c.command.price > base_bid
  /\ \A i \in 1..x : p.calls[r + n + i].op = "cancel" /\ p.calls[r + n + i].command.order_id = i
  /\ p.sink \in Sinks /\ p.sink.size = 0 /\ p.executions = <<>> /\ p.resting = n - x

\* are planned.
LEMMA AddsPlanned ==
  ASSUME NEW p, NEW n \in Nat, n <= MaxOrders, NEW r \in {0, 1}, NEW x \in {0, n}, AddsOrders(p, n, r, x)
  PROVE  Planned(p)
<1> DEFINE last == r + n + x
           added == [d \in 0..last |-> IF d <= r THEN 0 ELSE IF d <= r + n THEN d - r ELSE n]
           cancelled == [d \in 0..last |-> IF d <= r + n THEN 0 ELSE d - r - n]
           plan == [split |-> base_bid, added |-> added, cancelled |-> cancelled]
<1>00. last = r + n + x
  OBVIOUS
<1>0. last \in Nat /\ r \in Nat /\ x \in Nat /\ r <= 1 /\ MaxOrders \in Nat /\ base_bid \in Int
  BY Assumptions, <1>00 DEF B!ClobAssumption, base_bid
<1>1. plan.added = added /\ plan.cancelled = cancelled /\ plan.split = base_bid
  OBVIOUS
<1>2. \A d \in 0..last : /\ added[d] = IF d <= r THEN 0 ELSE IF d <= r + n THEN d - r ELSE n
                         /\ cancelled[d] = IF d <= r + n THEN 0 ELSE d - r - n
  OBVIOUS
<1> HIDE DEF last, added, cancelled, plan
<1>3. added[0] = 0 /\ cancelled[0] = 0 /\ added[last] - cancelled[last] = n - x
  BY <1>0, <1>00, <1>2
<1>4. \A d \in 0..last : added[d] \in Nat /\ cancelled[d] \in 0..added[d]
  BY <1>0, <1>00, <1>2
<1>5. ASSUME NEW d \in 0..(last - 1)
      PROVE  Brings(p.calls[d + 1], plan, d) \/ Cancels(p.calls[d + 1], plan, d) \/ Reserves(p.calls[d + 1], plan, d)
  <2>1. d \in 0..last /\ d + 1 \in 0..last /\ d \in Nat
    BY <1>0
  <2>2. CASE d < r
    <3>1. d = 0 /\ r = 1 /\ d + 1 = 1
      BY <1>0, <1>00, <2>1, <2>2
    <3>2. added[1] = 0 /\ cancelled[1] = 0
      BY <1>0, <1>00, <1>2, <2>1, <3>1
    <3> QED BY <1>1, <1>3, <3>1, <3>2 DEF Reserves, AddsOrders
  <2>3. CASE r <= d /\ d < r + n
    <3>1. PICK i \in 1..n : i = d + 1 - r /\ r + i = d + 1
      BY <1>0, <1>00, <2>1, <2>3
    <3>2. added[d] = i - 1 /\ cancelled[d] = 0 /\ added[d + 1] = i /\ cancelled[d + 1] = 0
      BY <1>0, <1>00, <1>2, <2>1, <2>3, <3>1
    <3>3. /\ i = added[d] + 1 /\ added[d] - cancelled[d] < MaxOrders
          /\ added[d + 1] = added[d] + 1 /\ cancelled[d + 1] = cancelled[d]
      BY <1>0, <1>00, <3>2
    <3>4. PICK c : c = p.calls[r + i]
      OBVIOUS
    <3>5. /\ c.op \in {"add", "submit", "preload"}
          /\ c.command.order_id = i /\ c.command.price \in B!Prices /\ c.command.qty > 0
          /\ IF c.command.side = "Buy" THEN c.command.price <= base_bid ELSE c.command.price > base_bid
      BY ONLY <3>4, i \in 1..n, AddsOrders(p, n, r, x) DEF AddsOrders
    <3>6. c = p.calls[d + 1]
      BY <3>1, <3>4
    <3> QED BY <1>1, <3>3, <3>5, <3>6 DEF Brings
  <2>4. CASE r + n <= d
    <3>1. PICK i \in 1..x : i = d + 1 - r - n /\ r + n + i = d + 1
      BY <1>0, <1>00, <2>1, <2>4
    <3>2. added[d] = n /\ added[d + 1] = n /\ cancelled[d] = i - 1 /\ cancelled[d + 1] = i
      BY <1>0, <1>00, <1>2, <2>1, <2>4, <3>1
    <3>3. /\ i = cancelled[d] + 1 /\ added[d + 1] = added[d] /\ cancelled[d + 1] = cancelled[d] + 1
      BY <3>2
    <3>4. p.calls[r + n + i].op = "cancel" /\ p.calls[r + n + i].command.order_id = i
      BY ONLY i \in 1..x, AddsOrders(p, n, r, x) DEF AddsOrders
    <3>5. p.calls[d + 1].op = "cancel" /\ p.calls[d + 1].command.order_id = i
      BY <3>1, <3>4
    <3> QED BY <1>1, <3>3, <3>5 DEF Cancels
  <2> QED BY <1>0, <1>00, <2>1, <2>2, <2>3, <2>4
<1>6. Apart(p, plan)
  BY <1>0, <1>00, <1>1, <1>3, <1>4, <1>5 DEF Apart, AddsOrders
<1> QED BY <1>6 DEF Planned

\* Calls that bring in n asks and then b bids that take them in line, number j those up
\* to t[j], with a reservation for n executions made as call number at, or before all calls
\* when that is 0,
Sold(i, at) == IF at = 0 \/ i < at THEN i ELSE i + 1
Bought(n, j, at) == IF at = 0 THEN n + j ELSE n + j + 1
Selling(p, n, at, price, qty) ==
  \A i \in 1..n : LET c == p.calls[Sold(i, at)] IN
    /\ c.op \in {"submit", "preload"} /\ c.command.side = "Sell"
    /\ c.command.order_id = i /\ c.command.price = price[i] /\ c.command.qty = qty[i]
Buying(p, n, b, at, price, qty, taker, t) ==
  \A j \in 1..b : LET c == p.calls[Bought(n, j, at)] IN
    /\ c.op = "submit" /\ c.command.side = "Buy" /\ c.command.order_id > n
    /\ c.command.price \in B!Prices
    /\ c.command.qty = qty[t[j - 1] + 1] + (t[j] - t[j - 1] - 1)
    /\ \A i \in (t[j - 1] + 2)..t[j] : qty[i] = 1
    /\ \A i \in (t[j - 1] + 1)..t[j] :
         price[i] <= c.command.price /\ taker[i] = c.command.order_id
Turns(n, b, t) ==
  /\ t \in [0..b -> 0..n] /\ t[0] = 0 /\ t[b] = n
  /\ \A j \in 1..b : t[j - 1] < t[j]
Priced(n, price, qty) ==
  /\ \A i \in 1..n : price[i] \in B!Prices /\ qty[i] \in Nat \ {0}
  /\ \A i \in 1..n : \A j \in 1..i : price[j] <= price[i]
TakesOrders(p, n, b, at, price, qty, taker, t) ==
  /\ Turns(n, b, t) /\ Priced(n, price, qty)
  /\ Selling(p, n, at, price, qty) /\ Buying(p, n, b, at, price, qty, taker, t)
  /\ Len(p.calls) = n + b + (IF at = 0 THEN 0 ELSE 1)
  /\ at # 0 => p.calls[at].op = "reserve" /\ p.calls[at].count = n
  /\ p.sink \in Sinks /\ p.sink.size = 0
  /\ p.sink.kind # "buffer" => p.sink.data = <<>>
  /\ at = 0 => p.sink.kind = "buffer" /\ n <= Len(p.sink.data)
  /\ p.resting = 0
  /\ p.executions = IF p.sink.kind = "null" THEN <<>>
                    ELSE [i \in 1..n |-> [incoming_order_id |-> taker[i], resting_order_id |-> i,
                                          price |-> price[i], qty |-> qty[i]]]

\* are planned.
LEMMA TakesPlanned ==
  ASSUME NEW p, NEW n \in 1..MaxOrders, NEW b \in Nat, NEW at \in {0, 1, n + 1},
         NEW price, NEW qty, NEW taker, NEW t, TakesOrders(p, n, b, at, price, qty, taker, t)
  PROVE  Planned(p)
<1> DEFINE last == n + b + (IF at = 0 THEN 0 ELSE 1)
           made == [d \in 0..last |-> IF at = 0 \/ d < at THEN d ELSE d - 1]
           asked == [d \in 0..last |-> IF made[d] <= n THEN made[d] ELSE n]
           taken == [d \in 0..last |-> IF made[d] <= n THEN 0 ELSE t[made[d] - n]]
           room == [d \in 0..last |-> IF at = 0 \/ at <= d THEN n ELSE 0]
           plan == [size |-> n, price |-> price, qty |-> qty, taker |-> taker,
                    asked |-> asked, taken |-> taken, room |-> room]
<1>0. /\ last \in Nat /\ n \in Nat /\ 0 < n /\ at \in Nat /\ at <= n + 1 /\ at <= last
      /\ MaxOrders \in Nat /\ n <= MaxOrders
  BY Assumptions DEF B!ClobAssumption
<1>1. /\ plan.size = n /\ plan.price = price /\ plan.qty = qty /\ plan.taker = taker
      /\ plan.asked = asked /\ plan.taken = taken /\ plan.room = room
  OBVIOUS
<1>2. \A d \in 0..last : made[d] = IF at = 0 \/ d < at THEN d ELSE d - 1
  OBVIOUS
<1>3. \A d \in 0..last : /\ asked[d] = IF made[d] <= n THEN made[d] ELSE n
                         /\ taken[d] = IF made[d] <= n THEN 0 ELSE t[made[d] - n]
                         /\ room[d] = IF at = 0 \/ at <= d THEN n ELSE 0
  OBVIOUS
<1>4. last = n + b + (IF at = 0 THEN 0 ELSE 1)
  OBVIOUS
<1> HIDE DEF last, made, asked, taken, room, plan
<1>5. /\ \A j \in 0..b : t[j] \in 0..n
      /\ t[0] = 0 /\ t[b] = n /\ \A j \in 1..b : t[j - 1] < t[j]
  BY DEF TakesOrders, Turns
<1>6. \A d \in 0..last : made[d] \in 0..(n + b)
  BY <1>0, <1>2, <1>4
<1>7. \A d \in 0..last : asked[d] \in 0..n /\ taken[d] \in 0..asked[d] /\ room[d] \in Nat
  <2> TAKE d \in 0..last
  <2>1. CASE made[d] <= n
    BY <1>0, <1>3, <1>6, <2>1
  <2>2. CASE made[d] > n
    <3>1. made[d] - n \in 0..b /\ ~(made[d] <= n)
      BY <1>0, <1>6, <2>2
    <3> QED BY <1>0, <1>3, <1>5, <3>1
  <2> QED BY <1>0, <1>6, <2>1, <2>2
<1>8. asked[0] = 0 /\ taken[0] = 0 /\ (at = 0 => room[0] = n) /\ (at # 0 => room[0] = 0)
  <2>1. 0 \in 0..last /\ made[0] = 0
    BY <1>0, <1>2
  <2> QED BY <1>0, <1>3, <2>1
<1>9. asked[last] = n /\ taken[last] = n
  <2>1. last \in 0..last /\ made[last] = n + b
    BY <1>0, <1>2, <1>4
  <2>2. b > 0
    BY <1>0, <1>5
  <2> QED BY <1>0, <1>3, <1>5, <2>1, <2>2
<1>10. ASSUME NEW d \in 0..(last - 1)
       PROVE  Asks(p.calls[d + 1], plan, d) \/ Takes(p.calls[d + 1], plan, d) \/ Widens(p.calls[d + 1], plan, d)
  <2>1. d \in 0..last /\ d + 1 \in 0..last /\ d \in Nat /\ made[d] \in Nat
    BY <1>0, <1>6
  <2>2. CASE d + 1 = at
    <3>1. made[d] = d /\ made[d + 1] = d /\ d <= n /\ at # 0
      BY <1>0, <1>2, <2>1, <2>2
    <3>2. asked[d + 1] = asked[d] /\ taken[d + 1] = taken[d] /\ room[d + 1] = n
      BY <1>0, <1>3, <2>1, <2>2, <3>1
    <3> QED BY <1>0, <1>1, <2>2, <3>1, <3>2 DEF Widens, TakesOrders
  <2>3. CASE d + 1 # at
    <3>1. made[d + 1] = made[d] + 1 /\ d + 1 = (IF at = 0 \/ made[d] + 1 < at THEN made[d] + 1 ELSE made[d] + 2)
      BY <1>0, <1>2, <2>1, <2>3
    <3>2. room[d + 1] = room[d]
      BY <1>0, <1>3, <2>1, <2>3
    <3>3. CASE made[d] < n
      <4>1. PICK i \in 1..n : i = made[d] + 1
        BY <1>0, <2>1, <3>3
      <4>2. asked[d] = i - 1 /\ asked[d + 1] = i /\ taken[d] = 0 /\ taken[d + 1] = 0
        BY <1>0, <1>3, <2>1, <3>1, <3>3, <4>1
      <4>3. d + 1 = Sold(i, at)
        BY <1>0, <2>1, <3>1, <4>1 DEF Sold
      <4>4. i = asked[d] + 1 /\ asked[d] < n /\ asked[d + 1] = asked[d] + 1
        BY <4>2
      <4>5. PICK c : c = p.calls[d + 1]
        OBVIOUS
      <4>6. /\ c.op \in {"submit", "preload"} /\ c.command.side = "Sell"
            /\ c.command.order_id = i /\ c.command.price = price[i] /\ c.command.qty = qty[i]
        BY <4>3, <4>5 DEF TakesOrders, Selling
      <4> QED BY <1>1, <3>2, <4>2, <4>4, <4>5, <4>6 DEF Asks
    <3>4. CASE made[d] >= n
      <4>1. PICK j \in 1..b : made[d] + 1 = n + j
        BY <1>0, <1>6, <2>1, <3>1, <3>4
      <4>2. asked[d] = n /\ asked[d + 1] = n /\ taken[d] = t[j - 1] /\ taken[d + 1] = t[j]
        BY <1>0, <1>3, <1>5, <2>1, <3>1, <3>4, <4>1
      <4>3. d + 1 = Bought(n, j, at)
        BY <1>0, <2>1, <3>1, <3>4, <4>1 DEF Bought
      <4>4. room[d] = n
        BY <1>0, <1>3, <2>1, <2>3, <4>3 DEF Bought
      <4>5. taken[d] < taken[d + 1] /\ taken[d + 1] <= n
        BY <4>2, <1>5
      <4>6. PICK c : c = p.calls[d + 1]
        OBVIOUS
      <4>7. /\ c.op = "submit" /\ c.command.side = "Buy" /\ c.command.order_id > n
            /\ c.command.price \in B!Prices
            /\ c.command.qty = qty[t[j - 1] + 1] + (t[j] - t[j - 1] - 1)
            /\ \A i \in (t[j - 1] + 2)..t[j] : qty[i] = 1
            /\ \A i \in (t[j - 1] + 1)..t[j] :
                 price[i] <= c.command.price /\ taker[i] = c.command.order_id
        BY <4>3, <4>6 DEF TakesOrders, Buying
      <4> QED BY <1>1, <3>2, <4>2, <4>4, <4>5, <4>6, <4>7 DEF Takes
    <3> QED BY <1>0, <2>1, <3>3, <3>4
  <2> QED BY <2>2, <2>3
<1>11. InLine(p, plan)
  <2>1. Len(p.calls) = last
    BY <1>4 DEF TakesOrders
  <2>2. p.sink.kind = "buffer" => plan.room[0] <= Len(p.sink.data)
    <3>1. Len(p.sink.data) \in Nat
      BY SinkType DEF TakesOrders
    <3> QED BY <1>1, <1>8, <3>1 DEF TakesOrders
  <2>3. p.resting = plan.asked[Len(p.calls)] - plan.taken[Len(p.calls)]
    BY <1>0, <1>1, <1>9, <2>1 DEF TakesOrders
  <2>4. p.executions = IF p.sink.kind = "null" THEN <<>>
                       ELSE [i \in 1..plan.taken[Len(p.calls)] |-> Report(plan, i)]
    BY <1>1, <1>9, <2>1 DEF Report, TakesOrders
  <2> QED BY <1>0, <1>1, <1>7, <1>8, <1>10, <2>1, <2>2, <2>3, <2>4 DEF InLine, TakesOrders, Priced
<1> QED BY <1>11 DEF Planned
------------------------------------------------------------------------------
(* The benchmarks have plans                                               *)

\* Every price a program sends is in the range of the book.
Fits(p) ==
  \A i \in DOMAIN p.calls :
    p.calls[i].op \in {"add", "submit", "preload"} => p.calls[i].command.price \in Book!Prices

\* What Ends makes of Direct.
Has(p, s, calls, executed, left) ==
  p.sink = s /\ p.calls = calls /\ p.executions = executed /\ p.resting = left
Runs(p, s, calls, executed, left) == p = Ends(Direct(s, calls), executed, left)
LEMMA DirectFields ==
  ASSUME NEW s, NEW calls, NEW executed, NEW left, NEW p, Runs(p, s, calls, executed, left)
  PROVE  Has(p, s, calls, executed, left)
BY DEF Runs, Has, Ends, Direct

LEMMA NewSinks ==
  \A s \in {NullSink, Buffer, Vector} : s \in Sinks /\ s.size = 0 /\ s.data = <<>>
<1>1. PICK e : e = <<>>
  OBVIOUS
<1>2. e \in Seq(Reports) /\ Len(e) = 0
  BY <1>1
<1>3. ASSUME NEW k \in Kinds, NEW s, s = [kind |-> k, data |-> e, size |-> 0]
      PROVE  s \in Sinks /\ s.size = 0 /\ s.data = e
  BY <1>2, <1>3 DEF Sinks
<1>4. \A s \in {NullSink, Buffer, Vector} : \E k \in Kinds : s = [kind |-> k, data |-> e, size |-> 0]
  BY <1>1 DEF NullSink, Buffer, Vector, Kinds
<1> QED BY <1>1, <1>3, <1>4

LEMMA Offsets == \A i \in Nat \ {0} : OrderQty(i) \in Nat \ {0} /\ LevelOffset(i) \in Nat
BY DEF OrderQty, LevelOffset

LEMMA ListReserving ==
  ASSUME NEW n
  PROVE  Lists(Reserving(n), 1) /\ Reserving(n)[1].op = "reserve" /\ Reserving(n)[1].count = n
BY DEF Lists, Reserving

\* The orders of a list stay apart.
StayApart(c, n) ==
  /\ Lists(c, n)
  /\ \A i \in 1..n :
       /\ c[i].order_id = i /\ c[i].qty > 0
       /\ IF c[i].side = "Buy" THEN c[i].price <= base_bid ELSE c[i].price > base_bid

LEMMA GeneratorsStayApart ==
  ASSUME NEW n \in Nat
  PROVE  StayApart(make_add_only_commands(n), n) /\ StayApart(make_non_crossing_buys_commands(n), n)
<1>1. ASSUME NEW i \in 1..n
      PROVE  /\ RestingAsk(i).order_id = i /\ RestingAsk(i).qty > 0
             /\ RestingAsk(i).side = "Sell" /\ RestingAsk(i).price > base_bid
             /\ NonCrossingBuy(i).order_id = i /\ NonCrossingBuy(i).qty > 0
             /\ NonCrossingBuy(i).side = "Buy" /\ NonCrossingBuy(i).price <= base_bid
  <2>1. PICK o \in Nat : o = LevelOffset(i)
    BY Offsets
  <2>2. PICK q \in Nat \ {0} : q = OrderQty(i)
    BY Offsets
  <2>3. base_ask + o > base_bid /\ base_bid - o <= base_bid
    BY DEF base_ask, base_bid
  <2> QED BY <2>1, <2>2, <2>3 DEF RestingAsk, NonCrossingBuy, AddLimit
<1>2. Lists(make_add_only_commands(n), n) /\ Lists(make_non_crossing_buys_commands(n), n)
  BY DEF Lists, make_add_only_commands, make_non_crossing_buys_commands
<1>3. \A i \in 1..n : /\ make_add_only_commands(n)[i] \in {RestingAsk(i), NonCrossingBuy(i)}
                      /\ make_non_crossing_buys_commands(n)[i] = NonCrossingBuy(i)
  BY DEF make_add_only_commands, make_non_crossing_buys_commands
<1> QED BY <1>1, <1>2, <1>3 DEF StayApart

\* So they may be added, after a reservation or without, and cancelled again.
LEMMA AddingPlanned ==
  ASSUME NEW p, NEW c, NEW n \in Nat, n <= MaxOrders, NEW op \in {"add", "submit"}, StayApart(c, n), Fits(p),
         p.sink \in Sinks, p.sink.size = 0, p.executions = <<>>,
         \/ p.calls = Calls(op, c) /\ p.resting = n
         \/ p.calls = Reserving(n) \o Calls(op, c) /\ p.resting = n
         \/ p.calls = Calls(op, c) \o Calls("cancel", c) /\ p.resting = 0
  PROVE  Planned(p)
<1>1. /\ Lists(Calls(op, c), n) /\ \A i \in 1..n : Calls(op, c)[i] = [op |-> op, command |-> c[i]]
      /\ Lists(Calls("cancel", c), n)
      /\ \A i \in 1..n : Calls("cancel", c)[i] = [op |-> "cancel", command |-> c[i]]
  BY ListCalls DEF StayApart
<1>2. ASSUME NEW r \in {0, 1}, NEW x \in {0, n}, Lists(p.calls, r + n + x),
             r = 1 => p.calls[1].op = "reserve" /\ p.calls[1].count = n,
             \A i \in 1..n : p.calls[r + i] = [op |-> op, command |-> c[i]],
             \A i \in 1..x : p.calls[r + n + i] = [op |-> "cancel", command |-> c[i]],
             p.resting = n - x
      PROVE  Planned(p)
  <2>1. Len(p.calls) = r + n + x /\ DOMAIN p.calls = 1..(r + n + x)
    BY <1>2, ListLength DEF Lists
  <2>2. ASSUME NEW i \in 1..n
        PROVE  /\ p.calls[r + i].op = op /\ p.calls[r + i].command = c[i]
               /\ c[i].price \in B!Prices
    <3>0. p.calls[r + i] = [op |-> op, command |-> c[i]]
      BY ONLY <1>2, i \in 1..n
    <3>1. p.calls[r + i].op = op /\ p.calls[r + i].command = c[i]
      BY ONLY <3>0
    <3>2. r + i \in DOMAIN p.calls
      BY <2>1
    <3> QED BY <3>1, <3>2, SameHelpers DEF Fits
  <2>3. ASSUME NEW i \in 1..x
        PROVE  p.calls[r + n + i].op = "cancel" /\ p.calls[r + n + i].command.order_id = i
    <3>1. i \in 1..n
      OBVIOUS
    <3>2. p.calls[r + n + i] = [op |-> "cancel", command |-> c[i]]
      BY ONLY <1>2, i \in 1..x
    <3>3. c[i].order_id = i
      BY <3>1 DEF StayApart
    <3> QED BY ONLY <3>2, <3>3
  <2>4. AddsOrders(p, n, r, x)
    <3>1. ASSUME NEW i \in 1..n
          PROVE  /\ p.calls[r + i].op \in {"add", "submit", "preload"}
                 /\ p.calls[r + i].command.order_id = i /\ p.calls[r + i].command.price \in B!Prices
                 /\ p.calls[r + i].command.qty > 0
                 /\ IF p.calls[r + i].command.side = "Buy" THEN p.calls[r + i].command.price <= base_bid
                    ELSE p.calls[r + i].command.price > base_bid
      BY <2>2 DEF StayApart
    <3> QED BY <1>2, <2>1, <2>3, <3>1 DEF AddsOrders
  <2> QED BY <2>4, AddsPlanned
<1>3. CASE p.calls = Calls(op, c) /\ p.resting = n
  <2>1. Lists(p.calls, 0 + n + 0) /\ \A i \in 1..n : p.calls[0 + i] = [op |-> op, command |-> c[i]]
    BY <1>1, <1>3
  <2> QED BY <1>2, <1>3, <2>1
<1>4. CASE p.calls = Reserving(n) \o Calls(op, c) /\ p.resting = n
  <2>1. Joined(p.calls, Reserving(n), Calls(op, c), 1, n)
    <3>1. PICK x1, one : x1 = Reserving(n) /\ one = 1
      OBVIOUS
    <3>2. Lists(x1, one)
      BY <3>1, ListReserving
    <3>3. Joined(x1 \o Calls(op, c), x1, Calls(op, c), one, n)
      BY <1>1, <3>2, ListJoined, Zenon
    <3> QED BY <1>4, <3>1, <3>3
  <2>2. Lists(p.calls, 1 + n + 0) /\ p.calls[1].op = "reserve" /\ p.calls[1].count = n
    <3>1. 1 + n + 0 = 1 + n /\ 1 \in 1..(1 + n) /\ 1 <= 1
      BY n \in Nat
    <3>2. Lists(p.calls, 1 + n) /\ p.calls[1] = Reserving(n)[1]
      BY <2>1, <3>1 DEF Joined
    <3> QED BY <3>1, <3>2, ListReserving
  <2>3. \A i \in 1..n : p.calls[1 + i] = [op |-> op, command |-> c[i]]
    <3> TAKE i \in 1..n
    <3>1. 1 + i \in 1..(1 + n) /\ ~(1 + i <= 1) /\ (1 + i) - 1 = i
      OBVIOUS
    <3> QED BY <1>1, <2>1, <3>1 DEF Joined
  <2>4. n - 0 = n /\ \A i \in 1..0 : FALSE
    OBVIOUS
  <2> QED BY <1>2, <1>4, <2>2, <2>3, <2>4
<1>5. CASE p.calls = Calls(op, c) \o Calls("cancel", c) /\ p.resting = 0
  <2>1. Joined(p.calls, Calls(op, c), Calls("cancel", c), n, n)
    BY <1>1, <1>5, ListJoined, Zenon
  <2>2. Lists(p.calls, 0 + n + n) /\ \A i \in 1..n : p.calls[0 + i] = [op |-> op, command |-> c[i]]
    <3>1. 0 + n + n = n + n /\ \A i \in 1..n : 0 + i = i /\ i \in 1..(n + n) /\ i <= n
      OBVIOUS
    <3> QED BY <1>1, <2>1, <3>1 DEF Joined
  <2>3. \A i \in 1..n : p.calls[0 + n + i] = [op |-> "cancel", command |-> c[i]]
    <3> TAKE i \in 1..n
    <3>1. 0 + n + i \in 1..(n + n) /\ ~(0 + n + i <= n) /\ (0 + n + i) - n = i
      OBVIOUS
    <3> QED BY <1>1, <2>1, <3>1 DEF Joined
  <2>4. p.resting = n - n
    BY <1>5
  <2> QED BY <1>2, <2>2, <2>3, <2>4
<1> QED BY <1>3, <1>4, <1>5

\* Asks, then bids, with the reservation as in TakesOrders.
LaidOut(p, s, n, u, b, at) ==
  /\ Lists(p.calls, n + b + (IF at = 0 THEN 0 ELSE 1))
  /\ at # 0 => p.calls[at].op = "reserve" /\ p.calls[at].count = n
  /\ \A i \in 1..n : \E op \in {"submit", "preload"} : p.calls[Sold(i, at)] = [op |-> op, command |-> s[i]]
  /\ \A j \in 1..b : p.calls[Bought(n, j, at)] = [op |-> "submit", command |-> u[j]]

\* All of them behind a reservation, or with the reservation made beforehand;
LEMMA LaidOutTogether ==
  ASSUME NEW p, NEW n \in Nat \ {0}, NEW b \in Nat, NEW s, NEW u, NEW c, Joined(c, s, u, n, b)
  PROVE  /\ p.calls = Calls("submit", c) => LaidOut(p, s, n, u, b, 0)
         /\ p.calls = Reserving(n) \o Calls("submit", c) => LaidOut(p, s, n, u, b, 1)
<1>0. n + b \in Nat
  OBVIOUS
<1>1. /\ Lists(Calls("submit", c), n + b)
      /\ \A i \in 1..(n + b) : Calls("submit", c)[i] = [op |-> "submit", command |-> c[i]]
  <2>1. PICK m : m = n + b
    OBVIOUS
  <2>2. Lists(c, m)
    BY <2>1 DEF Joined
  <2>3. /\ Lists(Calls("submit", c), m)
        /\ \A i \in 1..m : Calls("submit", c)[i] = [op |-> "submit", command |-> c[i]]
    BY <2>2, ListCalls
  <2> QED BY <2>1, <2>3
<1>2. /\ \A i \in 1..n : Calls("submit", c)[i] = [op |-> "submit", command |-> s[i]]
      /\ \A j \in 1..b : Calls("submit", c)[n + j] = [op |-> "submit", command |-> u[j]]
  <2>1. ASSUME NEW i \in 1..n PROVE i \in 1..(n + b) /\ c[i] = s[i]
    BY DEF Joined
  <2>2. ASSUME NEW j \in 1..b PROVE n + j \in 1..(n + b) /\ c[n + j] = u[j]
    <3>1. n + j \in 1..(n + b) /\ ~(n + j <= n) /\ (n + j) - n = j
      OBVIOUS
    <3> QED BY <3>1 DEF Joined
  <2> QED BY <1>1, <2>1, <2>2
<1>3. ASSUME p.calls = Calls("submit", c) PROVE LaidOut(p, s, n, u, b, 0)
  <2>1. n + b + 0 = n + b
    OBVIOUS
  <2> QED BY <1>1, <1>2, <1>3, <2>1 DEF LaidOut, Sold, Bought
<1>4. ASSUME p.calls = Reserving(n) \o Calls("submit", c) PROVE LaidOut(p, s, n, u, b, 1)
  <2>1. Joined(p.calls, Reserving(n), Calls("submit", c), 1, n + b)
    <3>1. PICK x1, one, m, y1 : x1 = Reserving(n) /\ one = 1 /\ m = n + b /\ y1 = Calls("submit", c)
      OBVIOUS
    <3>2. Lists(x1, one) /\ Lists(y1, m)
      BY <1>1, <3>1, ListReserving
    <3>3. Joined(x1 \o y1, x1, y1, one, m)
      BY <3>2, ListJoined, Zenon
    <3> QED BY <1>4, <3>1, <3>3
  <2>2. n + b + 1 = 1 + (n + b)
    OBVIOUS
  <2>3. p.calls[1] = Reserving(n)[1]
    <3>1. 1 \in 1..(1 + (n + b)) /\ 1 <= 1
      BY <1>0
    <3> QED BY <2>1, <3>1 DEF Joined
  <2>4. ASSUME NEW i \in 1..(n + b) PROVE p.calls[i + 1] = Calls("submit", c)[i]
    <3>1. i + 1 \in 1..(1 + (n + b)) /\ ~(i + 1 <= 1) /\ (i + 1) - 1 = i
      BY <1>0
    <3> QED BY <2>1, <3>1 DEF Joined
  <2>5. ASSUME NEW i \in 1..n PROVE p.calls[Sold(i, 1)] = [op |-> "submit", command |-> s[i]]
    <3>1. i \in 1..(n + b) /\ ~(i < 1)
      OBVIOUS
    <3> QED BY <1>2, <2>4, <3>1 DEF Sold
  <2>6. ASSUME NEW j \in 1..b PROVE p.calls[Bought(n, j, 1)] = [op |-> "submit", command |-> u[j]]
    <3>1. n + j \in 1..(n + b)
      OBVIOUS
    <3> QED BY <1>2, <2>4, <3>1 DEF Bought
  <2> QED BY <2>1, <2>2, <2>3, <2>5, <2>6, ListReserving DEF LaidOut, Joined
<1> QED BY <1>3, <1>4

\* or bids alone behind it, the asks before.
LEMMA LaidOutApart ==
  ASSUME NEW p, NEW n \in Nat \ {0}, NEW b \in Nat, NEW s, NEW u, Lists(s, n), Lists(u, b)
  PROVE  /\ p.calls = (Reserving(n) \o Calls("submit", s)) \o Calls("submit", u) => LaidOut(p, s, n, u, b, 1)
         /\ p.calls = (Calls("preload", s) \o Reserving(n)) \o Calls("submit", u) => LaidOut(p, s, n, u, b, n + 1)
<1>1. PICK x1, one, y1, z1, w1 : /\ x1 = Reserving(n) /\ one = 1 /\ y1 = Calls("submit", s)
                                 /\ z1 = Calls("submit", u) /\ w1 = Calls("preload", s)
  OBVIOUS
<1>2. Lists(x1, one) /\ x1[1].op = "reserve" /\ x1[1].count = n /\ Lists(y1, n) /\ Lists(z1, b) /\ Lists(w1, n)
  BY <1>1, ListReserving, ListCalls
<1>3. /\ \A i \in 1..n : y1[i] = [op |-> "submit", command |-> s[i]] /\ w1[i] = [op |-> "preload", command |-> s[i]]
      /\ \A j \in 1..b : z1[j] = [op |-> "submit", command |-> u[j]]
  <2>1. \A i \in 1..n : y1[i] = [op |-> "submit", command |-> s[i]]
    BY <1>1, ListCalls
  <2>2. \A i \in 1..n : w1[i] = [op |-> "preload", command |-> s[i]]
    BY <1>1, ListCalls
  <2>3. \A j \in 1..b : z1[j] = [op |-> "submit", command |-> u[j]]
    BY <1>1, ListCalls
  <2> QED BY <2>1, <2>2, <2>3
<1>4. ASSUME p.calls = (x1 \o y1) \o z1 PROVE LaidOut(p, s, n, u, b, 1)
  <2>1. PICK v : v = x1 \o y1 /\ Joined(v, x1, y1, one, n)
    BY <1>2, ListJoined, Zenon
  <2>2. Joined(v \o z1, v, z1, one + n, b)
    <3>1. Lists(v, one + n)
      BY <2>1 DEF Joined
    <3> QED BY <1>2, <3>1, ListJoined, Zenon
  <2>3. Joined(v, x1, y1, 1, n) /\ Joined(p.calls, v, z1, 1 + n, b)
    BY <1>1, <1>4, <2>1, <2>2
  <2>4. p.calls[1] = x1[1]
    <3>1. 1 \in 1..(1 + n) /\ 1 \in 1..(1 + n + b) /\ 1 <= 1 /\ 1 <= 1 + n
      OBVIOUS
    <3> QED BY <2>3, <3>1 DEF Joined
  <2>5. ASSUME NEW i \in 1..n PROVE p.calls[i + 1] = y1[i]
    <3>1. /\ i + 1 \in 1..(1 + n) /\ i + 1 \in 1..(1 + n + b) /\ i + 1 <= 1 + n
          /\ ~(i + 1 <= 1) /\ (i + 1) - 1 = i
      OBVIOUS
    <3> QED BY <2>3, <3>1 DEF Joined
  <2>6. ASSUME NEW j \in 1..b PROVE p.calls[n + j + 1] = z1[j]
    <3>1. n + j + 1 \in 1..(1 + n + b) /\ ~(n + j + 1 <= 1 + n) /\ (n + j + 1) - (1 + n) = j
      OBVIOUS
    <3> QED BY <2>3, <3>1 DEF Joined
  <2>7. Lists(p.calls, n + b + 1)
    <3>1. 1 + n + b = n + b + 1
      OBVIOUS
    <3> QED BY <2>3, <3>1 DEF Joined
  <2>8. \A i \in 1..n : Sold(i, 1) = i + 1
    BY DEF Sold
  <2>9. \A j \in 1..b : Bought(n, j, 1) = n + j + 1
    BY DEF Bought
  <2> QED BY <1>2, <1>3, <2>4, <2>5, <2>6, <2>7, <2>8, <2>9 DEF LaidOut
<1>5. ASSUME p.calls = (w1 \o x1) \o z1 PROVE LaidOut(p, s, n, u, b, n + 1)
  <2>1. PICK v : v = w1 \o x1 /\ Joined(v, w1, x1, n, one)
    BY <1>2, ListJoined, Zenon
  <2>2. Joined(v \o z1, v, z1, n + one, b)
    <3>1. Lists(v, n + one)
      BY <2>1 DEF Joined
    <3> QED BY <1>2, <3>1, ListJoined, Zenon
  <2>3. Joined(v, w1, x1, n, 1) /\ Joined(p.calls, v, z1, n + 1, b)
    BY <1>1, <1>5, <2>1, <2>2
  <2>4. p.calls[n + 1] = x1[1]
    <3>1. /\ n + 1 \in 1..(n + 1) /\ n + 1 \in 1..(n + 1 + b) /\ n + 1 <= n + 1
          /\ ~(n + 1 <= n) /\ (n + 1) - n = 1
      OBVIOUS
    <3> QED BY <2>3, <3>1 DEF Joined
  <2>5. ASSUME NEW i \in 1..n PROVE p.calls[i] = w1[i]
    <3>1. i \in 1..(n + 1) /\ i \in 1..(n + 1 + b) /\ i <= n + 1 /\ i <= n
      OBVIOUS
    <3> QED BY <2>3, <3>1 DEF Joined
  <2>6. ASSUME NEW j \in 1..b PROVE p.calls[n + j + 1] = z1[j]
    <3>1. n + j + 1 \in 1..(n + 1 + b) /\ ~(n + j + 1 <= n + 1) /\ (n + j + 1) - (n + 1) = j
      OBVIOUS
    <3> QED BY <2>3, <3>1 DEF Joined
  <2>7. Lists(p.calls, n + b + 1) /\ n + 1 # 0
    <3>1. n + 1 + b = n + b + 1 /\ n + 1 # 0
      OBVIOUS
    <3> QED BY <2>3, <3>1 DEF Joined
  <2>8. \A i \in 1..n : Sold(i, n + 1) = i
    BY DEF Sold
  <2>9. \A j \in 1..b : Bought(n, j, n + 1) = n + j + 1
    BY DEF Bought
  <2> QED BY <1>2, <1>3, <2>4, <2>5, <2>6, <2>7, <2>8, <2>9 DEF LaidOut
<1> QED BY <1>1, <1>4, <1>5

\* The sink and the outcome of a program whose asks are all taken.
AllTaken(p, n, at, matched) ==
  /\ p.sink \in Sinks /\ p.sink.size = 0
  /\ p.sink.kind # "buffer" => p.sink.data = <<>>
  /\ at = 0 => p.sink.kind = "buffer" /\ n <= Len(p.sink.data)
  /\ p.resting = 0
  /\ p.executions = IF p.sink.kind = "null" THEN <<>> ELSE matched

\* What LaidOut says of each call.
EachCall(p, s, n, u, b, at) ==
  /\ Len(p.calls) = n + b + (IF at = 0 THEN 0 ELSE 1)
  /\ at # 0 => p.calls[at].op = "reserve" /\ p.calls[at].count = n
  /\ \A i \in 1..n : /\ p.calls[Sold(i, at)].op \in {"submit", "preload"}
                     /\ p.calls[Sold(i, at)].command = s[i] /\ s[i].price \in B!Prices
  /\ \A j \in 1..b : /\ p.calls[Bought(n, j, at)].op = "submit"
                     /\ p.calls[Bought(n, j, at)].command = u[j] /\ u[j].price \in B!Prices

LEMMA CallsLaidOut ==
  ASSUME NEW p, NEW s, NEW n \in Nat \ {0}, NEW u, NEW b \in Nat, NEW at \in {0, 1, n + 1},
         LaidOut(p, s, n, u, b, at), Fits(p)
  PROVE  EachCall(p, s, n, u, b, at)
<1>1. /\ Len(p.calls) = n + b + (IF at = 0 THEN 0 ELSE 1)
      /\ DOMAIN p.calls = 1..(n + b + (IF at = 0 THEN 0 ELSE 1))
  BY ListLength DEF LaidOut, Lists
<1>2. \A i \in 1..n : Sold(i, at) \in DOMAIN p.calls
  BY <1>1 DEF Sold
<1>3. \A j \in 1..b : Bought(n, j, at) \in DOMAIN p.calls
  BY <1>1 DEF Bought
<1>4. ASSUME NEW i \in 1..n
      PROVE  /\ p.calls[Sold(i, at)].op \in {"submit", "preload"}
             /\ p.calls[Sold(i, at)].command = s[i] /\ s[i].price \in B!Prices
  <2>1. PICK op \in {"submit", "preload"} : p.calls[Sold(i, at)] = [op |-> op, command |-> s[i]]
    BY DEF LaidOut
  <2>2. p.calls[Sold(i, at)].op = op /\ p.calls[Sold(i, at)].command = s[i]
    BY <2>1
  <2> QED BY <1>2, <2>2, SameHelpers DEF Fits
<1>5. ASSUME NEW j \in 1..b
      PROVE  /\ p.calls[Bought(n, j, at)].op = "submit"
             /\ p.calls[Bought(n, j, at)].command = u[j] /\ u[j].price \in B!Prices
  <2>1. p.calls[Bought(n, j, at)] = [op |-> "submit", command |-> u[j]]
    BY DEF LaidOut
  <2>2. p.calls[Bought(n, j, at)].op = "submit" /\ p.calls[Bought(n, j, at)].command = u[j]
    BY <2>1
  <2> QED BY <1>3, <2>2, SameHelpers DEF Fits
<1> QED BY <1>1, <1>4, <1>5 DEF LaidOut, EachCall

\* n asks at one price, then as many bids of the same sizes.
FullMatch(s, u, n) ==
  \A i \in 1..n : /\ s[i] = AddLimit(i, "Sell", FullMatchPrice, OrderQty(i))
                  /\ u[i] = AddLimit(n + i, "Buy", FullMatchPrice, OrderQty(i))

LEMMA AddLimitFields ==
  ASSUME NEW id, NEW side, NEW price, NEW qty
  PROVE  LET c == AddLimit(id, side, price, qty)
         IN  c.order_id = id /\ c.side = side /\ c.price = price /\ c.qty = qty /\ c.type = "AddLimit"
BY DEF AddLimit

LEMMA FullMatchPlanned ==
  ASSUME NEW p, NEW s, NEW u, NEW n \in 1..MaxOrders, NEW at \in {0, 1, n + 1},
         FullMatch(s, u, n), LaidOut(p, s, n, u, n, at), Fits(p), AllTaken(p, n, at, Matched(n))
  PROVE  Planned(p)
<1> DEFINE price == [i \in 1..n |-> FullMatchPrice]
           qty == [i \in 1..n |-> OrderQty(i)]
           taker == [i \in 1..n |-> n + i]
           t == [j \in 0..n |-> j]
<1>0. n \in Nat \ {0} /\ FullMatchPrice \in Int
  BY Assumptions DEF B!ClobAssumption, FullMatchPrice
<1>1. \A i \in 1..n : price[i] = FullMatchPrice /\ qty[i] = OrderQty(i) /\ qty[i] \in Nat \ {0} /\ taker[i] = n + i
  BY Offsets
<1>2. \A j \in 0..n : t[j] = j
  OBVIOUS
<1>3. Turns(n, n, t)
  BY <1>0, <1>2 DEF Turns
<1>4. Matched(n) = [i \in 1..n |-> [incoming_order_id |-> taker[i], resting_order_id |-> i,
                                    price |-> price[i], qty |-> qty[i]]]
  BY DEF Matched, Trade
<1> HIDE DEF price, qty, taker, t
<1>5. \A i \in 1..n : /\ s[i].order_id = i /\ s[i].side = "Sell" /\ s[i].price = price[i] /\ s[i].qty = qty[i]
                      /\ u[i].order_id = n + i /\ u[i].side = "Buy" /\ u[i].price = price[i] /\ u[i].qty = qty[i]
  <2> TAKE i \in 1..n
  <2>0. /\ s[i] = AddLimit(i, "Sell", FullMatchPrice, OrderQty(i))
        /\ u[i] = AddLimit(n + i, "Buy", FullMatchPrice, OrderQty(i))
    BY DEF FullMatch
  <2>1. s[i].order_id = i /\ s[i].side = "Sell" /\ s[i].price = FullMatchPrice /\ s[i].qty = OrderQty(i)
    BY ONLY <2>0, AddLimitFields
  <2>2. u[i].order_id = n + i /\ u[i].side = "Buy" /\ u[i].price = FullMatchPrice /\ u[i].qty = OrderQty(i)
    BY ONLY <2>0, AddLimitFields
  <2> QED BY <1>1, <2>1, <2>2
<1>6. EachCall(p, s, n, u, n, at)
  BY <1>0, CallsLaidOut
<1>7. Priced(n, price, qty)
  <2>1. \A i \in 1..n : price[i] \in B!Prices
    BY <1>5, <1>6 DEF EachCall
  <2>2. \A i \in 1..n : \A j \in 1..i : price[j] <= price[i]
    BY <1>0, <1>1
  <2> QED BY <1>1, <2>1, <2>2 DEF Priced
<1>8. Selling(p, n, at, price, qty)
  <2>1. ASSUME NEW i \in 1..n
        PROVE  /\ p.calls[Sold(i, at)].op \in {"submit", "preload"} /\ p.calls[Sold(i, at)].command = s[i]
    BY <1>6 DEF EachCall
  <2> QED BY <1>5, <2>1 DEF Selling
<1>9. Buying(p, n, n, at, price, qty, taker, t)
  <2> SUFFICES ASSUME NEW j \in 1..n
               PROVE  /\ u[j].side = "Buy" /\ u[j].order_id > n /\ u[j].price \in B!Prices
                      /\ u[j].qty = qty[t[j - 1] + 1] + (t[j] - t[j - 1] - 1)
                      /\ \A i \in (t[j - 1] + 2)..t[j] : qty[i] = 1
                      /\ \A i \in (t[j - 1] + 1)..t[j] :
                           price[i] <= u[j].price /\ taker[i] = u[j].order_id
    <3>1. ASSUME NEW j \in 1..n
          PROVE  /\ p.calls[Bought(n, j, at)].op = "submit" /\ p.calls[Bought(n, j, at)].command = u[j]
      BY <1>6 DEF EachCall
    <3> QED BY <3>1 DEF Buying
  <2>1. t[j - 1] = j - 1 /\ t[j] = j /\ j - 1 + 1 = j /\ j - (j - 1) - 1 = 0
    BY <1>2
  <2>2. (j - 1 + 2)..j = {} /\ (j - 1 + 1)..j = {j}
    OBVIOUS
  <2>3. qty[j] + 0 = qty[j] /\ n + j > n /\ price[j] <= price[j]
    BY <1>0, <1>1
  <2>4. u[j].qty = qty[t[j - 1] + 1] + (t[j] - t[j - 1] - 1)
    BY <1>5, <2>1, <2>3
  <2>5. \A i \in (t[j - 1] + 2)..t[j] : qty[i] = 1
    BY <2>1, <2>2
  <2>6. \A i \in (t[j - 1] + 1)..t[j] : price[i] <= u[j].price /\ taker[i] = u[j].order_id
    BY <1>1, <1>5, <2>1, <2>2, <2>3
  <2>7. u[j].price \in B!Prices
    BY <1>6 DEF EachCall
  <2> QED BY <1>5, <2>3, <2>4, <2>5, <2>6, <2>7
<1>10. TakesOrders(p, n, n, at, price, qty, taker, t)
  BY <1>3, <1>4, <1>6, <1>7, <1>8, <1>9 DEF TakesOrders, AllTaken, EachCall
<1> QED BY <1>0, <1>10, TakesPlanned

\* One ask on each level, then the bid that takes them all.
LEMMA SweepPlanned ==
  ASSUME NEW p, NEW n \in 1..MaxOrders,
         LaidOut(p, OneAskPerLevel(n), n, <<Sweep(n)>>, 1, 1), Fits(p), AllTaken(p, n, 1, Swept(n))
  PROVE  Planned(p)
<1> DEFINE price == [i \in 1..n |-> FullMatchPrice + i]
           qty == [i \in 1..n |-> 1]
           taker == [i \in 1..n |-> n + 1]
           t == [j \in 0..1 |-> IF j = 0 THEN 0 ELSE n]
           s == OneAskPerLevel(n)
           u == <<Sweep(n)>>
<1>0. n \in Nat \ {0} /\ FullMatchPrice = 10000 /\ FullMatchPrice \in Int
  BY Assumptions DEF B!ClobAssumption, FullMatchPrice
<1>1. \A i \in 1..n : price[i] = FullMatchPrice + i /\ qty[i] = 1 /\ taker[i] = n + 1
  OBVIOUS
<1>2. t[0] = 0 /\ t[1] = n
  OBVIOUS
<1>3. Turns(n, 1, t)
  BY <1>0 DEF Turns
<1>4. Swept(n) = [i \in 1..n |-> [incoming_order_id |-> taker[i], resting_order_id |-> i,
                                  price |-> price[i], qty |-> qty[i]]]
  BY DEF Swept, Trade
<1>5. \A i \in 1..n : s[i].order_id = i /\ s[i].side = "Sell" /\ s[i].price = price[i] /\ s[i].qty = qty[i]
  BY <1>0, <1>1 DEF OneAskPerLevel, AddLimit
<1>6. u[1].order_id = n + 1 /\ u[1].side = "Buy" /\ u[1].price = FullMatchPrice + n /\ u[1].qty = n
  BY <1>0 DEF Sweep, AddLimit
<1> HIDE DEF price, qty, taker, t, s, u
<1>7. EachCall(p, s, n, u, 1, 1)
  <2>1. LaidOut(p, s, n, u, 1, 1)
    BY DEF s, u
  <2> QED BY <1>0, <2>1, CallsLaidOut
<1>8. Priced(n, price, qty)
  <2>1. \A i \in 1..n : price[i] \in B!Prices
    BY <1>5, <1>7 DEF EachCall
  <2>2. \A i \in 1..n : \A j \in 1..i : price[j] <= price[i]
    BY <1>0, <1>1
  <2> QED BY <1>1, <2>1, <2>2 DEF Priced
<1>9. Selling(p, n, 1, price, qty)
  <2>1. ASSUME NEW i \in 1..n
        PROVE  /\ p.calls[Sold(i, 1)].op \in {"submit", "preload"} /\ p.calls[Sold(i, 1)].command = s[i]
    BY <1>7 DEF EachCall
  <2> QED BY <1>5, <2>1 DEF Selling
<1>10. Buying(p, n, 1, 1, price, qty, taker, t)
  <2>1. n + 1 > n /\ n = qty[t[0] + 1] + (t[1] - t[0] - 1)
    <3>1. qty[1] = 1 /\ t[0] + 1 = 1 /\ 1 + (t[1] - t[0] - 1) = n
      BY <1>0, <1>1, <1>2
    <3> QED BY <1>0, <3>1
  <2>2. \A i \in (t[0] + 2)..t[1] : qty[i] = 1
    BY <1>0, <1>1, <1>2
  <2>3. \A i \in (t[0] + 1)..t[1] : price[i] <= FullMatchPrice + n /\ taker[i] = n + 1
    BY <1>0, <1>1, <1>2
  <2>4. \A j \in 1..1 : j = 1 /\ j - 1 = 0
    OBVIOUS
  <2> QED BY <1>6, <1>7, <2>1, <2>2, <2>3, <2>4 DEF Buying, EachCall
<1>11. TakesOrders(p, n, 1, 1, price, qty, taker, t)
  BY <1>3, <1>4, <1>7, <1>8, <1>9, <1>10 DEF TakesOrders, AllTaken, EachCall
<1> QED BY <1>0, <1>11, TakesPlanned

\* The sells and the buys of the workload.
LEMMA FullMatchLists ==
  ASSUME NEW n \in Nat
  PROVE  /\ \E s, u : /\ Joined(make_full_match_commands(n), s, u, n, n) /\ FullMatch(s, u, n)
                      /\ Lists(s, n) /\ Lists(u, n)
         /\ Lists(Sells(n), n) /\ Lists(Buys(n), n) /\ FullMatch(Sells(n), Buys(n), n)
<1>1. PICK s, u : /\ s = [i \in 1..n |-> AddLimit(i, "Sell", FullMatchPrice, OrderQty(i))]
                  /\ u = [i \in 1..n |-> AddLimit(n + i, "Buy", FullMatchPrice, OrderQty(i))]
  OBVIOUS
<1>2. make_full_match_commands(n) = s \o u
  BY <1>1 DEF make_full_match_commands, BuyId, BuyQty
<1>3. Lists(s, n) /\ Lists(u, n)
  BY <1>1 DEF Lists
<1>4. FullMatch(s, u, n)
  BY <1>1 DEF FullMatch
<1>5. Joined(make_full_match_commands(n), s, u, n, n)
  BY <1>2, <1>3, ListJoined, Zenon
<1>6. PICK c, m : c = make_full_match_commands(n) /\ m = n + n
  OBVIOUS
<1>7. Lists(c, m) /\ m \in Nat
  BY <1>5, <1>6 DEF Joined
<1>8. /\ Lists(SubSeq(c, 0 + 1, n), n - 0)
      /\ \A i \in 1..(n - 0) : SubSeq(c, 0 + 1, n)[i] = c[0 + i]
  <2>1. 0 \in Nat /\ 0 <= n /\ n <= m
    BY <1>6
  <2> QED BY <1>7, <2>1, ListPart
<1>9. /\ Lists(SubSeq(c, n + 1, m), m - n)
      /\ \A i \in 1..(m - n) : SubSeq(c, n + 1, m)[i] = c[n + i]
  <2>1. n <= m /\ m <= m
    BY <1>6
  <2> QED BY <1>7, <2>1, ListPart
<1>10. m - n = n /\ n - 0 = n /\ 0 + 1 = 1 /\ m = 2 * n /\ \A i \in 1..n : 0 + i = i
  BY <1>6
<1>11. Sells(n) = SubSeq(c, 1, n) /\ Buys(n) = SubSeq(c, n + 1, m)
  BY <1>6, <1>10 DEF Sells, Buys
<1>12. /\ Lists(Sells(n), n) /\ \A i \in 1..n : Sells(n)[i] = c[i]
       /\ Lists(Buys(n), n) /\ \A i \in 1..n : Buys(n)[i] = c[n + i]
  BY <1>8, <1>9, <1>10, <1>11
<1>13. \A i \in 1..n : c[i] = s[i] /\ c[n + i] = u[i]
  <2> TAKE i \in 1..n
  <2>1. i \in 1..(n + n) /\ i <= n /\ n + i \in 1..(n + n) /\ ~(n + i <= n) /\ (n + i) - n = i
    OBVIOUS
  <2> QED BY <1>5, <1>6, <2>1 DEF Joined
<1>14. FullMatch(Sells(n), Buys(n), n)
  BY <1>4, <1>12, <1>13 DEF FullMatch
<1> QED BY <1>3, <1>4, <1>5, <1>12, <1>14

\* The programs of the benchmarks, for prices in range and no more orders than the book
\* has slots.
Benchmark(p) == Fits(p) /\ \E n \in 1..MaxOrders : p \in Benchmarks(n)

LEMMA AddOnlyPlanned ==
  ASSUME NEW n \in 1..MaxOrders, NEW p, Fits(p),
         p \in {Ends(FixedClob_AddOnly(n), <<>>, n), Ends(FixedClob_AddThenCancel(n), <<>>, 0),
                Ends(run_matching_add_only(n), <<>>, n), Ends(run_matching_hot_add_only(n), <<>>, n)}
  PROVE  Planned(p)
<1>0. n \in Nat /\ n <= MaxOrders
  BY Assumptions DEF B!ClobAssumption
<1>1. PICK c1, c2 : /\ c1 = make_add_only_commands(n) /\ c2 = make_non_crossing_buys_commands(n)
                    /\ StayApart(c1, n) /\ StayApart(c2, n)
  BY <1>0, GeneratorsStayApart
<1>2. CASE p = Ends(FixedClob_AddOnly(n), <<>>, n)
  <2>1. p.sink = NullSink /\ p.calls = Calls("add", c1) /\ p.executions = <<>> /\ p.resting = n
    <3>1. Runs(p, NullSink, Calls("add", c1), <<>>, n)
      BY <1>1, <1>2 DEF Runs, FixedClob_AddOnly
    <3>2. Has(p, NullSink, Calls("add", c1), <<>>, n)
      BY <3>1, DirectFields, Zenon
    <3> QED BY <3>2 DEF Has
  <2> QED BY <1>0, <1>1, <2>1, AddingPlanned, NewSinks
<1>3. CASE p = Ends(FixedClob_AddThenCancel(n), <<>>, 0)
  <2>1. /\ p.sink = NullSink /\ p.calls = Calls("add", c1) \o Calls("cancel", c1)
        /\ p.executions = <<>> /\ p.resting = 0
    <3>1. Runs(p, NullSink, Calls("add", c1) \o Calls("cancel", c1), <<>>, 0)
      BY <1>1, <1>3 DEF Runs, FixedClob_AddThenCancel
    <3>2. Has(p, NullSink, Calls("add", c1) \o Calls("cancel", c1), <<>>, 0)
      BY <3>1, DirectFields, Zenon
    <3> QED BY <3>2 DEF Has
  <2> QED BY <1>0, <1>1, <2>1, AddingPlanned, NewSinks
<1>4. CASE p = Ends(run_matching_add_only(n), <<>>, n)
  <2>1. /\ p.sink = Buffer /\ p.calls = Reserving(n) \o Calls("submit", c1)
        /\ p.executions = <<>> /\ p.resting = n
    <3>1. Runs(p, Buffer, Reserving(n) \o Calls("submit", c1), <<>>, n)
      BY <1>1, <1>4 DEF Runs, run_matching_add_only
    <3>2. Has(p, Buffer, Reserving(n) \o Calls("submit", c1), <<>>, n)
      BY <3>1, DirectFields, Zenon
    <3> QED BY <3>2 DEF Has
  <2> QED BY <1>0, <1>1, <2>1, AddingPlanned, NewSinks
<1>5. CASE p = Ends(run_matching_hot_add_only(n), <<>>, n)
  <2>1. /\ p.sink = Buffer /\ p.calls = Reserving(n) \o Calls("submit", c2)
        /\ p.executions = <<>> /\ p.resting = n
    <3>1. Runs(p, Buffer, Reserving(n) \o Calls("submit", c2), <<>>, n)
      BY <1>1, <1>5 DEF Runs, run_matching_hot_add_only
    <3>2. Has(p, Buffer, Reserving(n) \o Calls("submit", c2), <<>>, n)
      BY <3>1, DirectFields, Zenon
    <3> QED BY <3>2 DEF Has
  <2> QED BY <1>0, <1>1, <2>1, AddingPlanned, NewSinks
<1> QED BY <1>2, <1>3, <1>4, <1>5

LEMMA PreloadedPlanned ==
  ASSUME NEW n \in 1..MaxOrders, NEW p, Fits(p), p.resting = 0,
         p.sink \in {NullSink, Buffer, Vector}, p.executions = IF p.sink = NullSink THEN <<>> ELSE Matched(n),
         p.calls = (Calls("preload", Sells(n)) \o Reserving(n)) \o Calls("submit", Buys(n))
  PROVE  Planned(p)
<1>0. n \in Nat \ {0} /\ n + 1 # 0 /\ n + 1 \in {0, 1, n + 1}
  BY Assumptions DEF B!ClobAssumption
<1>1. LaidOut(p, Sells(n), n, Buys(n), n, n + 1)
  BY <1>0, FullMatchLists, LaidOutApart
<1>2. AllTaken(p, n, n + 1, Matched(n))
  <2>1. p.sink.kind = "null" <=> p.sink = NullSink
    BY DEF NullSink, Buffer, Vector
  <2> QED BY <1>0, <2>1, NewSinks DEF AllTaken
<1> QED BY <1>0, <1>1, <1>2, FullMatchLists, FullMatchPlanned

LEMMA HotSweepPlanned ==
  ASSUME NEW n \in 1..MaxOrders, NEW p, Fits(p), p.resting = 0,
         p.sink = Buffer, p.executions = Swept(n),
         p.calls = (Reserving(n) \o Calls("submit", OneAskPerLevel(n))) \o Calls("submit", <<Sweep(n)>>)
  PROVE  Planned(p)
<1>0. n \in Nat \ {0} /\ 1 # 0
  BY Assumptions DEF B!ClobAssumption
<1>1. Lists(OneAskPerLevel(n), n) /\ Lists(<<Sweep(n)>>, 1)
  BY <1>0 DEF OneAskPerLevel, Lists
<1>2. LaidOut(p, OneAskPerLevel(n), n, <<Sweep(n)>>, 1, 1)
  BY <1>0, <1>1, LaidOutApart
<1>3. AllTaken(p, n, 1, Swept(n))
  <2>1. p.sink.kind = "buffer"
    BY DEF Buffer
  <2> QED BY <1>0, <2>1, NewSinks DEF AllTaken
<1> QED BY <1>2, <1>3, SweepPlanned

LEMMA BenchmarkPlanned == ASSUME NEW p, Benchmark(p) PROVE Planned(p)
<1>1. PICK n \in 1..MaxOrders : p \in Benchmarks(n)
  BY DEF Benchmark
<1>2. n \in Nat \ {0} /\ Fits(p)
  BY Assumptions DEF B!ClobAssumption, Benchmark
<1>3. CASE p \in {Ends(FixedClob_AddOnly(n), <<>>, n), Ends(FixedClob_AddThenCancel(n), <<>>, 0),
                  Ends(run_matching_add_only(n), <<>>, n), Ends(run_matching_hot_add_only(n), <<>>, n)}
  BY <1>2, <1>3, AddOnlyPlanned
<1>4. CASE p = Ends(run_matching_full_match(n), Matched(n), 0)
  <2>1. /\ p.sink = Buffer /\ p.calls = Reserving(n) \o Calls("submit", make_full_match_commands(n))
        /\ p.executions = Matched(n) /\ p.resting = 0
    <3>1. Runs(p, Buffer, Reserving(n) \o Calls("submit", make_full_match_commands(n)), Matched(n), 0)
      BY <1>4 DEF Runs, run_matching_full_match
    <3>2. Has(p, Buffer, Reserving(n) \o Calls("submit", make_full_match_commands(n)), Matched(n), 0)
      BY <3>1, DirectFields, Zenon
    <3> QED BY <3>2 DEF Has
  <2>2. PICK s, u : Joined(make_full_match_commands(n), s, u, n, n) /\ FullMatch(s, u, n)
    BY <1>2, FullMatchLists
  <2>3. LaidOut(p, s, n, u, n, 1)
    BY <1>2, <2>1, <2>2, LaidOutTogether
  <2>4. AllTaken(p, n, 1, Matched(n))
    <3>1. p.sink.kind = "buffer"
      BY <2>1 DEF Buffer
    <3> QED BY <2>1, <3>1, NewSinks DEF AllTaken
  <2> QED BY <1>2, <2>2, <2>3, <2>4, FullMatchPlanned
<1>5. CASE p \in {Ends(run_matching_sweep_ask_levels(n), Swept(n), 0),
                  Ends(run_matching_hot_sweep_ask_levels(n), Swept(n), 0)}
  <2>1. /\ p.sink = Buffer /\ p.executions = Swept(n) /\ p.resting = 0
        /\ p.calls = (Reserving(n) \o Calls("submit", OneAskPerLevel(n))) \o Calls("submit", <<Sweep(n)>>)
    <3>1. Runs(p, Buffer, (Reserving(n) \o Calls("submit", OneAskPerLevel(n))) \o Calls("submit", <<Sweep(n)>>),
               Swept(n), 0)
      BY <1>5, Zenon DEF Runs, run_matching_sweep_ask_levels, run_matching_hot_sweep_ask_levels
    <3>2. Has(p, Buffer, (Reserving(n) \o Calls("submit", OneAskPerLevel(n))) \o Calls("submit", <<Sweep(n)>>),
               Swept(n), 0)
      BY <3>1, DirectFields, Zenon
    <3> QED BY <3>2 DEF Has
  <2> QED BY <1>2, <2>1, HotSweepPlanned
<1>6. CASE p \in {Ends(run_matching_hot_full_match(n, NullSink), <<>>, 0),
                  Ends(run_matching_hot_full_match(n, Buffer), Matched(n), 0),
                  Ends(run_matching_hot_full_match(n, Vector), Matched(n), 0),
                  Ends(profile_full_match(n), Matched(n), 0),
                  Ends(profile_full_match_raw_exec(n), Matched(n), 0),
                  Ends(profile_full_match_no_exec(n), <<>>, 0)}
  <2>1. /\ p.resting = 0
        /\ p.calls = (Calls("preload", Sells(n)) \o Reserving(n)) \o Calls("submit", Buys(n))
        /\ \/ p.sink = NullSink /\ p.executions = <<>>
           \/ p.sink \in {Buffer, Vector} /\ p.executions = Matched(n)
    <3> DEFINE calls == (Calls("preload", Sells(n)) \o Reserving(n)) \o Calls("submit", Buys(n))
    <3>1. \/ Runs(p, NullSink, calls, <<>>, 0)
          \/ Runs(p, Buffer, calls, Matched(n), 0)
          \/ Runs(p, Vector, calls, Matched(n), 0)
      BY <1>6, Zenon DEF Runs, run_matching_hot_full_match, profile_full_match,
           profile_full_match_raw_exec, profile_full_match_no_exec
    <3> HIDE DEF calls
    <3>2. \/ Has(p, NullSink, calls, <<>>, 0)
          \/ Has(p, Buffer, calls, Matched(n), 0)
          \/ Has(p, Vector, calls, Matched(n), 0)
      BY <3>1, DirectFields, Zenon
    <3>3. /\ p.calls = calls /\ p.resting = 0
          /\ \/ p.sink = NullSink /\ p.executions = <<>>
             \/ p.sink = Buffer /\ p.executions = Matched(n)
             \/ p.sink = Vector /\ p.executions = Matched(n)
      BY ONLY <3>2 DEF Has
    <3> QED BY <3>3 DEF calls
  <2>2. NullSink # Buffer /\ NullSink # Vector
    <3>1. NullSink.kind = "null" /\ Buffer.kind = "buffer" /\ Vector.kind = "vector"
      BY DEF NullSink, Buffer, Vector
    <3> QED BY <3>1
  <2> QED BY <1>2, <2>1, <2>2, PreloadedPlanned
<1> QED BY <1>1, <1>3, <1>4, <1>5, <1>6 DEF Benchmarks

\* The reservations of the benchmarks are enough.
THEOREM SinkFitsBenchmarks == Spec => [](Benchmark(program) => SinkFits)
<1>1. PlanInv => (Benchmark(program) => SinkFits)
  BY PlanChecked, BenchmarkPlanned
<1> QED BY <1>1, PlanInit, PlanNext, PTL DEF Spec

\* No call of theirs is refused, and they end with the executions and the orders meant.
THEOREM BenchmarksEndAsChecked == Spec => [](Benchmark(program) => EndsAsChecked)
<1>1. PlanInv => (Benchmark(program) => EndsAsChecked)
  BY PlanChecked, BenchmarkPlanned
<1> QED BY <1>1, PlanInit, PlanNext, PTL DEF Spec
==============================================================================
