----------------------------- MODULE MCDrivers -----------------------------
(* The benchmarks with one order and with as many as the book takes, and two *)
(* callers that keep their sink.                                             *)
EXTENDS Drivers, DirectPrograms

\* A caller that keeps its buffer: it grows with an execution in it; a second
\* caller then clears it and goes on, so that its buys meet what is left.
Reuse ==
  Direct(Buffer,
    Reserving(1) \o Calls("submit", SubSeq(make_full_match_commands(3), 1, 4))
      \o Reserving(2) \o Calls("submit", <<make_full_match_commands(3)[5]>>) \o Reserving(1))

MCPrograms ==
  Benchmarks(1) \cup Benchmarks(MaxOrders)
  \cup {Ends(Reuse, SubSeq(Matched(3), 1, 2), 1),
        Ends(Direct(Buffer, Reuse.calls \o Clearing \o Calls("submit", Buys(3))),
             <<Trade(4, 3, FullMatchPrice, 1), Trade(5, 3, FullMatchPrice, 2)>>, 1)}
==============================================================================
