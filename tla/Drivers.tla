------------------------------- MODULE Drivers -------------------------------
(***************************************************************************)
(* The single-threaded benchmarks and profilers: one thread that makes the *)
(* calls of a program of DirectPrograms, one after the other, on a new     *)
(* FixedClob and a sink.  The book is module FixedClob with all its steps. *)
(***************************************************************************)
EXTENDS Integers, Sequences, ExecutionBuffer

CONSTANTS
  Programs,   \* as in DirectPrograms, with the executions and orders they end with
  MaxOrders, MinPrice, MaxPrice, QtyMod, NullIndex, NoPrice   \* of the book

Commands == UNION {{c.command : c \in {p.calls[i] : i \in {j \in DOMAIN p.calls :
                      p.calls[j].op \notin {"reserve", "clear"}}}} : p \in Programs}
OrderIds == {command.order_id : command \in Commands}
InputPrices == {command.price : command \in Commands}
InputQtys == {command.qty : command \in Commands}

VARIABLES
  orders, free_stack, levels, order_lookup, best, pc, call, lvl, executions, ret,  \* the book
  program,    \* which program runs
  sink,       \* the object it calls executions
  done,       \* how many calls have returned
  failed      \* some call of the book returned false

bookvars == <<orders, free_stack, levels, order_lookup, best, pc, call, lvl, executions, ret>>
vars == <<bookvars, program, sink, done, failed>>

Book == INSTANCE FixedClob

ASSUME DriversAssumption ==
  /\ Book!ClobAssumption
  /\ \A command \in Commands : command.side \in Book!Sides
  /\ \A p \in Programs : p.calls \in Seq({p.calls[i] : i \in DOMAIN p.calls})

NextCall == program.calls[done + 1]
AtCall(ops) == done < Len(program.calls) /\ pc = "idle" /\ NextCall.op \in ops
Returned == done' = done + 1 /\ failed' = (failed \/ ~ret')
------------------------------------------------------------------------------
Init ==
  /\ Book!Init
  /\ program \in Programs
  /\ sink = program.sink /\ done = 0 /\ failed = FALSE

SubmitCall ==
  /\ AtCall({"submit", "preload"})
  /\ LET c == NextCall.command
     IN  Book!SubmitLimitOrder(c.order_id, c.side, c.price, c.qty)
  /\ IF pc' = "idle" THEN Returned ELSE UNCHANGED <<done, failed>>
  /\ UNCHANGED <<program, sink>>

\* A step of the submit call, with the execution it reports.
MatchStep ==
  /\ Book!Matching
  /\ IF pc' = "idle" THEN Returned ELSE UNCHANGED <<done, failed>>
  /\ sink' = IF NextCall.op = "submit" /\ Len(executions') > Len(executions)
             THEN EmplaceBack(sink, executions'[Len(executions')]) ELSE sink
  /\ UNCHANGED program

AddCall ==
  /\ AtCall({"add"})
  /\ LET c == NextCall.command
     IN  Book!AddOrder(c.order_id, c.side, c.price, c.qty)
  /\ Returned /\ UNCHANGED <<program, sink>>

CancelCall ==
  /\ AtCall({"cancel"})
  /\ Book!CancelOrder(NextCall.command.order_id)
  /\ Returned /\ UNCHANGED <<program, sink>>

ReserveCall ==
  /\ AtCall({"reserve"})
  /\ sink' = Reserve(sink, NextCall.count)
  /\ done' = done + 1 /\ UNCHANGED <<bookvars, program, failed>>

ClearCall ==
  /\ AtCall({"clear"})
  /\ sink' = Clear(sink)
  /\ done' = done + 1 /\ UNCHANGED <<bookvars, program, failed>>

Finished == done = Len(program.calls) /\ UNCHANGED vars

Next ==
  \/ SubmitCall \/ MatchStep \/ AddCall \/ CancelCall
  \/ ReserveCall \/ ClearCall \/ Finished

Spec == Init /\ [][Next]_vars
------------------------------------------------------------------------------
(* Properties                                                              *)

\* The reservation is enough for every execution of the timed calls, so that
\* the assertion in emplace_back, gone from the builds that are timed, holds.
SinkFits == InBounds(sink)

\* The profilers' checks, and more: no call is refused, and at the end the
\* sink holds the executions the program leads to, in order, and the book the
\* orders that are left.
EndsAsChecked ==
  /\ ~failed
  /\ done = Len(program.calls) =>
       /\ Contents(sink) = program.executions
       /\ Book!active_orders = program.resting
==============================================================================
