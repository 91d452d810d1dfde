------------------------------ MODULE Pipeline ------------------------------
(***************************************************************************)
(* The pipelines of bench/bench_pipeline.cpp and the profiler in           *)
(* tools/profile_pipeline_latency.cpp: a producer thread pushes items into *)
(* an SpscRing, busy-waiting while it is full; a consumer thread pops      *)
(* them, busy-waiting while it is empty, and either drops them or applies  *)
(* the commands they are or point at to a FixedClob whose executions go    *)
(* into one reserved buffer; the main thread releases both through a flag  *)
(* and joins them.  The ring and the book are the modules SpscRing and     *)
(* FixedClob, with all their steps.                                        *)
(***************************************************************************)
EXTENDS Integers, Sequences, Workload, ExecutionBuffer

CONSTANTS
  Programs,      \* as in PipelinePrograms, with the executions and orders they end with
  Blank,         \* T{}: what the slots of the ring hold at first
  Capacity, WordMod, MaxBatch,                           \* of the ring
  MaxOrders, MinPrice, MaxPrice, QtyMod, NullIndex, NoPrice   \* of the book

Commands == UNION {{p.commands[i] : i \in DOMAIN p.commands} : p \in Programs}
Items == UNION {{p.items[i] : i \in DOMAIN p.items} : p \in Programs}
OrderIds == {command.order_id : command \in Commands}
InputPrices == {command.price : command \in Commands}
InputQtys == {command.qty : command \in Commands}

VARIABLES
  data, heads, tails, batch, filled, want, out, got, wrote, read,           \* the ring
  orders, free_stack, levels, order_lookup, best, pc, call, lvl, executions, ret,  \* the book
  program,     \* which program runs
  start,       \* the flag both threads wait for
  pushed,      \* producer: i
  inbox,       \* consumer: popped items still to be used
  processed,   \* consumer: processed
  buffer,      \* the ExecutionBuffer
  refused,     \* some call of the book returned false
  joined       \* main has joined both threads

ringvars == <<data, heads, tails, batch, filled, want, out, got, wrote, read>>
bookvars == <<orders, free_stack, levels, order_lookup, best, pc, call, lvl, executions, ret>>
results  == <<inbox, processed, buffer, refused>>
vars == <<ringvars, bookvars, program, start, pushed, results, joined>>

Ring == INSTANCE SpscRing
Book == INSTANCE FixedClob

N == Len(program.items)

\* A slot of an index ring that was never written would point at the first command.
CommandIn(p, item) ==
  IF p.indexed THEN p.commands[IF item = Blank THEN 1 ELSE item.index + 1]
  ELSE IF item = Blank THEN DefaultCommand ELSE item

ASSUME PipelineAssumption ==
  /\ Ring!RingAssumption /\ Book!ClobAssumption
  /\ \A command \in Commands : command.side \in Book!Sides
  /\ \A p \in Programs :
       /\ p.items \in Seq(Items)
       /\ p.push_size \in Nat \ {0} /\ p.pop_size \in Nat \ {0}
       /\ p.applies => \A i \in DOMAIN p.items : CommandIn(p, p.items[i]) \in Commands
\* What a slot holds before it is written is told apart from all that is sent.
ASSUME BlankAssumption == Blank \notin Items
------------------------------------------------------------------------------
Init ==
  /\ Ring!Init /\ Book!Init
  /\ program \in Programs
  /\ start = FALSE /\ pushed = 0
  /\ inbox = <<>> /\ processed = 0 /\ refused = FALSE
  /\ buffer = Reserve(Buffer, program.reserved)
  /\ joined = FALSE

Start ==
  /\ ~start /\ start' = TRUE
  /\ UNCHANGED <<ringvars, bookvars, program, pushed, results, joined>>

Join ==
  /\ start /\ pushed = N /\ processed = N /\ ~joined /\ joined' = TRUE
  /\ UNCHANGED <<ringvars, bookvars, program, start, pushed, results>>

\* The producer's loop: a call of push, or of push_many for the next
\* min(BatchSize, commands.size() - i) items.
NextChunk ==
  SubSeq(program.items, pushed + 1,
         IF program.push_size <= N - pushed THEN pushed + program.push_size ELSE N)
CallPush(k) ==
  /\ start /\ pushed < N
  /\ IF program.push_size = 1 THEN Ring!Push(NextChunk[1], k) ELSE Ring!PushMany(NextChunk, k)
  /\ UNCHANGED <<bookvars, program, start, pushed, results, joined>>

WriteSlot == Ring!Write /\ UNCHANGED <<bookvars, program, start, pushed, results, joined>>

\* The call returns, and i advances by what it accepted.
ReturnPush ==
  /\ Ring!Publish
  /\ pushed' = pushed + Len(batch)
  /\ UNCHANGED <<bookvars, program, start, results, joined>>

\* The consumer's loop: a call of pop or pop_many when all it has is used.
CallPop(k) ==
  /\ start /\ processed < N /\ inbox = <<>>
  /\ IF program.pop_size = 1 THEN Ring!Pop(k) ELSE Ring!PopMany(program.pop_size, k)
  /\ UNCHANGED <<bookvars, program, start, pushed, results, joined>>

ReadSlot == Ring!Read /\ UNCHANGED <<bookvars, program, start, pushed, results, joined>>

ReturnPop ==
  /\ Ring!Release
  /\ inbox' = got'
  /\ UNCHANGED <<bookvars, program, start, pushed, processed, buffer, refused, joined>>

\* A call of the book has returned: count the command, take the next one.
\* (The batch loops add the batch when it is done; they test the count only then.)
Applied == processed' = processed + 1
Returned == Applied /\ inbox' = Tail(inbox) /\ refused' = (refused \/ ~ret')

CommandOf(item) == CommandIn(program, item)
ReadyToApply(type) ==
  /\ program.applies /\ inbox # <<>> /\ pc = "idle" /\ CommandOf(Head(inbox)).type = type

ApplyAddLimit ==
  /\ ReadyToApply("AddLimit")
  /\ LET command == CommandOf(Head(inbox))
     IN  Book!SubmitLimitOrder(command.order_id, command.side, command.price, command.qty)
  /\ IF pc' = "idle" THEN Returned ELSE UNCHANGED <<inbox, processed, refused>>
  /\ UNCHANGED <<ringvars, program, start, pushed, buffer, joined>>

ApplyCancel ==
  /\ ReadyToApply("Cancel")
  /\ Book!CancelOrder(CommandOf(Head(inbox)).order_id)
  /\ Returned
  /\ UNCHANGED <<ringvars, program, start, pushed, buffer, joined>>

\* The queue-only programs look at the item and count it.
Discard ==
  /\ ~program.applies /\ inbox # <<>>
  /\ Applied /\ inbox' = Tail(inbox)
  /\ UNCHANGED <<ringvars, bookvars, program, start, pushed, buffer, refused, joined>>

\* A step of the submit call: emplace_back of the execution it reports.
Match ==
  /\ Book!Matching
  /\ IF pc' = "idle" THEN Returned ELSE UNCHANGED <<inbox, processed, refused>>
  /\ buffer' = IF Len(executions') > Len(executions)
               THEN EmplaceBack(buffer, executions'[Len(executions')]) ELSE buffer
  /\ UNCHANGED <<ringvars, program, start, pushed, joined>>

Finished == joined /\ UNCHANGED vars

Next ==
  \/ Start \/ Join \/ Finished
  \/ \E k \in DOMAIN tails : CallPush(k)
  \/ WriteSlot \/ ReturnPush
  \/ \E k \in DOMAIN heads : CallPop(k)
  \/ ReadSlot \/ ReturnPop
  \/ ApplyAddLimit \/ ApplyCancel \/ Match \/ Discard

Spec == Init /\ [][Next]_vars

\* Each thread keeps running, and a thread that polls a counter sees a stored
\* value after finitely many loads.
PollTail == CallPush(Len(tails))
PollHead == CallPop(Len(heads))
Fairness ==
  /\ WF_vars(Start) /\ WF_vars(Join)
  /\ WF_vars(PollTail) /\ WF_vars(WriteSlot \/ ReturnPush)
  /\ WF_vars(PollHead) /\ WF_vars(ReadSlot \/ ReturnPop)
  /\ WF_vars(ApplyAddLimit \/ ApplyCancel \/ Match \/ Discard)
FairSpec == Spec /\ Fairness
------------------------------------------------------------------------------
(* Properties                                                              *)

\* The consumer is given the items in the order the producer lists them, none
\* twice and none skipped, whichever calls the two threads use and however far
\* apart they run.
CommandsInOrder ==
  inbox = SubSeq(program.items, processed + 1, processed + Len(inbox))

\* emplace_back never meets its assertion size_ < capacity_ (checked in debug
\* builds only): what the caller reserved is enough for its commands.
BufferFits == InBounds(buffer)

\* No call returns false, not even one that has traded in part and needs a slot
\* of a pool that was full; the profiler exits when one does.
NothingRefused == ~refused

\* What the profiler checks after joining, and more: the buffer holds the
\* executions the program leads to, and the book the orders that are left.
RunsExact ==
  joined => /\ Contents(buffer) = program.executions
            /\ MaxOrders - Len(free_stack) = program.resting

\* The ring adds nothing and hides nothing: on the book and the buffer, the pipeline
\* does what one thread does that makes the same calls in the order of the array.
CallFor(command) ==
  [op |-> IF command.type = "Cancel" THEN "cancel" ELSE "submit", command |-> command]
Unthreaded(p) ==
  [sink |-> Reserve(Buffer, p.reserved), executions |-> p.executions, resting |-> p.resting,
   calls |-> IF p.applies
             THEN [i \in DOMAIN p.items |-> CallFor(CommandIn(p, p.items[i]))] ELSE <<>>]
OneCall(command) == [calls |-> <<CallFor(command)>>]
Sequential ==
  INSTANCE Drivers WITH
    Programs <- {Unthreaded(p) : p \in Programs} \cup {OneCall(c) : c \in Commands},
    program <- Unthreaded(program), sink <- buffer, failed <- refused,
    done <- IF program.applies THEN processed ELSE 0
ImplementsDrivers == Sequential!Spec

\* Both busy-waiting loops end and the threads can be joined.
Completes == <>joined
==============================================================================
