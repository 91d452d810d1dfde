# A verification of lowlat-matching-engine

TLA+ models of the matching engine, its hash index, its two lock-free queues,
the pipeline built from them and the helpers around them; TLC runs on small
instances; and proofs, checked by TLAPS, for every instance. Paths below are
relative to the repository.

## 1. The system

| Component | State | Operations | Used by |
|---|---|---|---|
| `FixedClob` (`src/fixed_clob.hpp`) | order pool, bid and ask levels, id index, cached best bid and ask | `submit_limit_order`, `add_order`, `cancel_order`, read-only observers | pipeline consumer, tests, benchmarks |
| `OrderPool` (`src/order_pool.hpp`) | array of orders, LIFO stack of free slots | `allocate`, `release`, `get` | `FixedClob` |
| `PriceLevel` (`src/price_level.hpp`) | head and tail slot, total quantity, order count | linked and unlinked by `FixedClob` | `FixedClob` |
| `FixedOrderIndex` (`src/order_index.hpp`) | open-addressing table of `2 * MaxOrders` slots with tombstones | `insert`, `find`, `contains`, `erase`, `clear` | `FixedClob` |
| `SpscRing` (`src/spsc_ring.hpp`) | slot array, atomic `head_` and `tail_` | `push`, `pop`, `push_many`, `pop_many` | pipeline |
| `SpscRingCached` (`src/spsc_ring_cached.hpp`) | the same and a private copy of the other side's counter per thread | the same | its tests |
| Pipeline (`bench/bench_pipeline.cpp`, `tools/profile_pipeline_latency.cpp`) | start flag, loop counters of two threads | producer pushes, consumer pops and drops or applies to the book, main joins and checks | |
| Single-threaded programs (`bench/bench_fixed_clob.cpp`, `bench/bench_matching*.cpp`, `tools/profile_full_match*.cpp`) | a book, a sink | their calls one after the other, checks at the end | |
| Workloads (`src/workload.hpp`, `src/order_command.hpp`) | none | four command generators | both kinds of programs |
| `ExecutionBuffer`, `NullExecutionSink` (`src/execution_sink.hpp`) | array, capacity, size | `reserve`, `emplace_back`, `clear` | `FixedClob`'s callers |
| `LatencyStats` (`src/latency_stats.hpp`) | samples, sorted copy, dirty flag | `add`, `percentile`, `print` | profiler |
| SIMD scan (`src/simd_scan.hpp`) | none | `avx2_find_next_nonzero`, scalar reference | its tests and benchmark |
| Thread pinning, index and scan benchmarks | none | | |

Commands flow producer → `SpscRing` → consumer → `FixedClob` → buffer. Only the
ring is shared by threads; everything behind it runs in the consumer.

What is hard here, and what makes each part correct:

* **Book.** One order is described in five places (slot, free stack, links,
  level counters, index) and one price per side is cached. A matching call
  removes orders while it holds references into the level and the slot. Correct
  means: the five places agree after every step; the cached prices are the
  extremes; both loops end; a refused submit has done nothing; what callers see
  is price-time priority.
* **Index.** Tombstones, duplicate detection behind a reusable slot, probes that
  wrap, memory that is never initialised. Correct means: a map.
* **Rings.** No locks; counters that wrap; loads that may be stale, by the
  memory model or because of the cached copies; batches that wrap around the
  array. Correct means: no slot is touched by both threads at once, and items
  come out once each, in order.
* **Pipeline.** Two busy-waiting loops that stop by counting. Correct means:
  they end, and the result is that of a sequential run.
* **Workloads and buffer.** The buffer does not grow and its bound is asserted
  in debug builds only, so the reservation must fit the workload.
* **LatencyStats, SIMD scan.** A cache that may be stale; three loops that hand
  over to each other.

`PROJECT.json` lists these hazards line by line with the properties for each.

## 2. Modules

| Module | Models | Role |
|---|---|---|
| `OrderBook` | | abstract: one sequence of orders per side, in priority order |
| `FixedClob` | `fixed_clob.hpp`, `order_pool.hpp`, `price_level.hpp` | detailed; the index is a map |
| `FixedClobInv`, `FixedClobProofs` | | the inductive invariant; theorems about the book, and about what callers see of it: refinement, observers, ledger |
| `MCFixedClob` | | instance, view |
| `FixedClobBook`, `MCOrderBook` | | refinement mapping to `OrderBook`, the observers against it; instance |
| `Ledger`, `MCLedger` | | the book beside a caller's ledger of its open orders; instance |
| `LevelScan`, `MCLevelScan` | `fixed_clob.hpp`, the rescan of the best price | detailed, instance |
| `OrderMap` | | abstract: a map of bounded size |
| `FixedOrderIndex`, `MCFixedOrderIndex`, `FixedOrderIndexProofs` | `order_index.hpp` | detailed, instance, theorems |
| `IndexedClob`, `MCIndexedClob`, `IndexedClobProofs` | `fixed_clob.hpp` on `order_index.hpp` | composes `FixedClob` and `FixedOrderIndex`; instance, theorems |
| `BoundedFifo` | | abstract: a bounded queue with batched push and pop |
| `SpscRing`, `MCSpscRing` | `spsc_ring.hpp` | detailed, instance |
| `SpscRingCached`, `MCSpscRingCached` | `spsc_ring_cached.hpp` | extends and implements `SpscRing` |
| `SpscRingProofs` | | theorems about both rings |
| `Workload` | `workload.hpp` | generators as functions of n |
| `ExecutionBuffer` | `execution_sink.hpp` | the sinks as values with operations |
| `PipelinePrograms` | `bench_pipeline.cpp`, `profile_pipeline_latency.cpp` | one operator per program: items, sizes of the calls, reservation |
| `Pipeline`, `MCPipeline`, `PipelineProofs` | the same | composes `SpscRing`, `FixedClob` and `ExecutionBuffer`; instance; theorems |
| `DirectPrograms` | the single-threaded benchmarks and profilers | one operator per program: its calls in order |
| `Drivers`, `MCDrivers`, `DriversProofs` | the same | composes `FixedClob` and `ExecutionBuffer`; instance; theorems. Also the abstract specification of `Pipeline` |
| `LatencyStats`, `MCLatencyStats` | `latency_stats.hpp` | detailed, instance |
| `SimdScan`, `MCSimdScan` | `simd_scan.hpp` | detailed, against the scalar scan; instance |
| `HelperProofs` | | theorems about `LevelScan`, `SimdScan` and `LatencyStats` |
| `NaturalFacts` | | arithmetic lemmas shared by the proofs |

### How the models correspond to the code

**FixedClob.** Variables are the members: `orders` and `free_stack` (the part of
`free_stack_` below `top_`), `levels[side][price]`, `order_lookup`, `best`.
`AddOrder` and `CancelOrder` are whole calls. `SubmitLimitOrder` enters a
submit; `EnterLevel`, `FillIncoming`, `FillResting`, `LeaveLevel` are one
iteration or test of the loops of `match_order` and `match_at_level`, each with
all that the code does there (`FillResting` includes unlink, erase, release and
refresh); `FinishSubmit` rests what is left and returns. `pc`, `call`, `lvl` are
the call's program counter, arguments and level reference. The executions of a
call are dropped when it returns; `Pipeline` and `Drivers` keep them in the
caller's sink. The read-only members are operators of the same names; an empty
`std::optional` is the empty sequence.

**IndexedClob.** The same calls with the table operations they make, on a table
of `2 * MaxOrders` slots; everything the table does not touch is taken from
`FixedClob`, which sees the table as the map `Table!Entry`.

**LevelScan.** `refresh_best_after_empty_level` alone, iteration by iteration, on
prices that are machine words, with the level array as long as the constructor's
`range_size` makes it. `FixedClob` uses the result (`RefreshedBest`).

**FixedOrderIndex.** One action per operation. A probe loop is described by the
steps it reaches (no earlier step is on an empty slot); `Hits` and `Free` are the
steps at which the loop would stop or remember a slot. `keys` and `values` start
with arbitrary contents.

**SpscRing.** One action per access to shared memory: the acquire load with the
decision taken on it, each slot write or read, the release store. The relaxed
load of the own counter needs no action, nobody else writes it. *Memory model:*
`heads` and `tails` are the values an acquire load may still return, oldest
first: any value stored since the one last loaded (coherence), not only the
latest. Each value carries the slots accessed before it was stored; loading a
value orders the loader after those accesses and no others (release/acquire).
`NoRace` says that a thread about to access a slot is ordered after every access
of the other thread to it. A weaker order of the stores or loads in the code
would show as a dropped set here.

**SpscRingCached.** The same slots and stores; a call loads only when its
snapshot shows nothing to do. A call that does not load is a call of the plain
ring whose load returned the old value again, which is how it implements
`SpscRing`.

**Pipeline.** The ring and the book are instances of the two modules, with all
their steps; the loops of both threads, the flag and `join` are added. A program
is a record: the items that travel (commands, positions in the command array, or
integers), how many items each loop asks for, whether the consumer applies what
it pops, what is reserved. The benchmarks ignore what the book returns and the
profiler exits when it is false: `refused` records it (a run goes on all the
same, but no property takes a run with a refusal for a success). `buffer` is the
`ExecutionBuffer`; past its reservation a write goes nowhere and the count grows.

`ImplementsDrivers` says what the threads are for: seen from the book and the
buffer, a pipeline is `Drivers` running one program (`Unthreaded`), whose calls
are those for the items in the order of the array. `done` is the count of
processed commands, the sink the buffer; everything in the ring is hidden.
(`OneCall` names programs that are never run. They are there so that both
instances of the book have the same ids, prices and quantities, the ones of
commands sent without being applied included.)

**Drivers.** One thread and one book; each call of the program is one step, a
submit as many as it takes. The sink is the one the program declares. Each
`return 1` of the profilers at a refused call is the one flag `failed`, which
stays set.

**SimdScan, LatencyStats.** One action per loop iteration, and per call. In
`SimdScan` the elements are 0 or 1, since the code only compares with zero. In
`LatencyStats` the shares are thousandths, the finest the code asks for, and
`std::sort` is any ascending order of the same elements. `Report` is `print`,
which sorts as `percentile` does. `asked` is empty from each `Add` to the next
`Percentile`, so that every answer is looked at, a repeated one too.

### Not modelled

* Timestamps (the profiler's enqueue time travels with a command and decides no
  step), printing, thread pinning, allocation failure.
* `bench_order_index.cpp` and `bench_simd_scan.cpp`: fixed sequences of calls
  with no check of their own; `index` and `simd_scan` quantify over all
  sequences. Their baseline, a standard hash map, is not this code.

Preconditions the code asserts or states are assumed: ids are not 0,
`min_price <= max_price`, capacities are powers of two (the model of the ring
needs only that the capacity divides the word; the table needs no such thing),
fewer than 2^32 - 1 slots.

## 3. Runs

| Run | Question | Bounds |
|---|---|---|
| `clob_structure` | Do pool, index, links, counters and best prices agree after every step of every sequence of calls? | 3 slots, 4 ids, 3 prices, quantities 1-2 modulo 4 |
| `clob_exchange` | Callers that submit and cancel only: never crossed, all or nothing; does a caller who books results and executions always know what rests? | 3 slots, 4 ids, 2 prices, quantities 1-3 |
| `clob_refines` | Is it price-time priority, and do the observers say so? | 3 slots, 4 ids, 2 prices and an invalid one, quantities 0-2 |
| `clob_indexed` | Is the book over the real table the book over a map, and does every submit return? | 2 slots, a table of 4, ids 1, 2, 5, 6 that collide in pairs |
| `level_scan` | Does the rescan stay inside, find the extreme and end? | every range of a 3-bit word, every filling, every emptied level |
| `index` | Is the table a map? | 4 slots, 5 ids with collisions, every initial `keys_` |
| `ring` | Races, windows, FIFO | capacity 4, counters modulo 8, batches to 3, two items |
| `ring_cached` | Does it implement the plain ring; does it ever get stuck? | the same, one item: only its presence matters to the counters |
| `pipeline` | Is the outcome of every program exact, is it that of one thread, and do both loops end? | capacity 4, counters modulo 8, batches to 3; full match of 4, the resting workloads of 3, one with a cancel, one that trades into a full pool |
| `drivers` | Do the single-threaded programs end as they check? | each with 1 and with 101 orders, on the real price range |
| `latency` | Are percentiles those of all samples? | 4 samples of 3 values |
| `simd_scan` | Does the vector scan equal the scalar one? | arrays to 9, every start, 2 lanes, 2 vectors per block |

`ring_cached` does not check races: every behaviour it has is one of the plain
ring (`ImplementsSpscRing`), where `ring` checks them.

Why the bounds are enough. *Book:* three slots are the fewest at which a level
has a head, a middle and a tail; four ids make the pool run full with one left
over; three prices let the best price jump over an empty level. Levels share
nothing but the pool and the cached price. `QtyMod` 4 makes level totals wrap.
*Table under the book:* two orders and four table slots; after a few orders have
left there is no empty slot, and every probe of an absent id goes all the way
round. *Index:* capacity 4 holds collisions, wrapped probes, tombstones in front
of and behind an entry, and the full table; five ids exceed it. *Rescan:* the
small word has ranges that touch 0, the largest word, both, or neither.
*Rings:* with capacity 4 and a word of 8 each counter wraps after two laps,
batches of three wrap inside a lap, and the ring is full and empty in turn.
*Pipeline:* more commands than slots, so that the producer waits, and a consumer
that is faster, so that it waits too; one program fills the pool and then trades
in part, so that the rest needs the slot the fill gave back. *Drivers:* order sizes repeat after 100
orders and price offsets wrap from the 29th on (`workload.hpp`), so 101 orders
pass both.

Reductions. `MCSymmetry` permutes ids, which no code compares except for
equality (liveness is checked without it). The views `MCView` leave out what
released slots still hold (`add_order` writes every field of a slot before
reading it), and `LookedAt` and `MCIndexedClob!MCView` what vacated table slots
hold (an insert writes both fields). Two states with the same view have the same
steps, so liveness under `MCIndexedClob!MCView` is sound too. That the memory
under a view is really not read is what `FixedClobProofs` and
`FixedOrderIndexProofs` show without any view.

Fairness. `clob_indexed`: weak fairness of `Matching`, the thread inside a call
keeps running. `level_scan`: the same for the loop. `ring_cached`: both callers
poll, as all callers in the repository do, and a store becomes visible to a
thread that keeps loading (`PollFullRing` and `PollEmptyRing` load the newest
value; C++ promises visibility in finite time). `pipeline`: each thread keeps
running, the same visibility. Nothing is assumed about relative speed, and no
strong fairness is used.

Deadlock is checked except in `simd_scan` and `level_scan`, whose call returns.
Every property has a mutant, a plausible slip in the code under which it fails
(`PROJECT.json`, "mutants"); the mutated forms stand in the modules, marked
`mutant`. Two properties that a slip in the same place breaks share its mutant.

## 4. Proofs

All theorems hold for every value of the constants under the named assumptions
on them: `ClobAssumption`, `IndexAssumption`, `IndexedClobAssumption`,
`RingAssumption`, `PipelineAssumption`, `BlankAssumption` (`Pipeline`: the
content of a slot never written is told apart from all that is sent),
`DriversAssumption`, `RefreshAssumption` (`LevelScan`), `ScanAssumption`
(`SimdScan`) and `StatsAssumption` (`LatencyStats`). Every assumption is
evaluated by TLC in a run of its module.

**FixedClob.** `TypeOK`, `PoolPartition`, `BestIsExtreme`, `LevelTotals`,
`LevelChains`, `SubmitAllOrNothing` for all callers, `NotCrossed` for
`ExchangeSpec`. The inductive invariant is `IInv` (`FixedClobInv`), which TLC
checks in `clob_structure`; `TypeOK` follows from it. Its core replaces the
recursive walk of `LevelChains` by `LevelsOrdered`: the live orders have
distinct ranks (arrival order will do), within a level `next_idx` is the order
of the next higher rank, `prev_idx` the next lower, head and tail the extremes.
Appending extends the ranking at the top; unlinking keeps it. The type invariant is not inductive without it (an
`order_count` that does not count could go negative, a link could leave the
pool). `CallInv` adds that a call that has traded has a free slot for its rest,
because the fill released one, which gives `SubmitAllOrNothing`.

* `LevelTotals` (`TotalsExact`) is inductive beside `IInv`. It is a fold over the
  set of a level's orders; the lemmas show that any element can be taken out of
  the sum first (a smallest set for which it could not would have a smaller one),
  so appending, unlinking and a partial fill change it by that order's quantity,
  modulo the word.
* `LevelChains` (`ChainsIntact`) follows from `IInv`: an order's position is the
  number of orders of its level with a rank no higher, the walk from the head is
  at position n after n steps, the walk from the tail at the same position from
  the other end, and both stop at the last order.

**OrderBook.** `PriceTimePriority`: `FixedClob` implements `OrderBook`. `Listing`
in `FixedClobBook` says which sequence of slots a side's queue is. A side has
exactly one (two would first differ at a place where both must hold the best
order left), and by `Shown`, which is an invariant, `book` is what that one
shows. Placing an order inserts it at the one place behind all that do not give
way to it, which is where `OrderBook` inserts; removing takes one place out; a
partial fill leaves the listing and changes one quantity; the head of the listing
is the order at the head of the best level. With these, each action of
`FixedClob` is one of `OrderBook` or changes nothing it sees.

`ObserversTrue`: at each price the places in line with that price and the orders
of its level correspond one to one, in rank order, so count, total, first and
last are those the level holds; the best level's are those of the first place.

**Ledger.** `LedgerExact`, `FairTrades`. The invariant is `IInv`, the type of the
ledger and `LedgerAgrees`, the last looked at one id at a time (`Agrees`). A step
concerns at most two ids, the incoming and the resting order's, and leaves those
of all other live slots alone; whether an order stays open after a fill is
whether `left` equals the quantity traded, which is where ledger and book have to
agree. A trade is within both limits because the maker rests at `lvl`, the price
that `EnterLevel` compared with the incoming limit.

**LevelScan.** The invariant says that while the loop runs every level with
orders lies ahead of `price`, and that `best` is the emptied price. A step moves
by one, so it passes no level; the loop's test keeps it off the end, where the
word would wrap. `LoopStaysInside`, `BestRestored`.

**FixedOrderIndex.** `TableTypeOK`, `KeysUnique`, `ProbesUnbroken`, `SizeCounts` are
inductive together. With them every operation maps to the same one of
`OrderMap`: `ImplementsMap`. Lemma `ProbeIsPermutation`, that a probe meets every
slot once, carries the argument that a free slot is found unless the table is
full.

**IndexedClob.** The invariant is the table's and the book's together, nothing
more; the book reads the map `Table!Entry`. Each table operation is the map's
(from the lemmas behind `ImplementsMap`), except that a full table refuses what
the map of `FixedClob` accepts. So what has to be shown is that it never fills:
every occupied entry leads to a live slot of its own (`OccupiedLive`, from
`PoolPartition`), so there are at most `MaxOrders` of `2 * MaxOrders`. Then each
call is the call of `FixedClob` (`ImplementsBook`), and with it every theorem
above holds of the book with its real index. The same correspondence, counted,
is `TableAgrees`.

**SpscRing.** `RingTypeOK` and `RingInv` are inductive: measured from the oldest tail
the producer may believe in, readable tails, then readable heads, then the
producer's batch lie in one window no longer than the capacity; each logged
value carries exactly the slots between it and its predecessor. `NoRace` follows
because positions less than a capacity apart are different slots. The queue of
`BoundedFifo` is the slots from tail to head: `ImplementsQueue`.

**SpscRingCached.** The snapshot is the word of the first log entry; with it each
step is one of `SpscRing` (`ImplementsPlainRing`), so race freedom and the FIFO
carry over.

**Pipeline.** Every step of a program is a step of the ring or leaves it alone,
so the ring's theorems are cited (`Proved == INSTANCE SpscRingProofs`) instead
of proved again. The invariant `Account` puts the program's items in four places
one behind the other: used, in the consumer's hand, in the ring, still to be
pushed. With it `ItemsInOrder` holds for all programs, batch sizes, capacities
and word sizes, and after `join` nothing is left in any place but the first
(`JoinedWithNothingLeft`).

*One thread's work.* By `Account` the item in the consumer's hand is the next
one of the array, so the call it leads to is the next call of the one thread;
`InProgress` adds that a submit under way is that call. Hence every step is a
step of `Drivers` or stutters: `PipelineIsSequential`. What is proved below of
`Drivers` then holds of the pipelines: `BufferFitsBenchmarks`,
`NothingRefusedInBenchmarks`, `BenchmarksRunExact`.

**Drivers.** What a program ends with, for every number n of orders:
`SinkFitsBenchmarks`, `BenchmarksEndAsChecked`. There is no induction over n.
Instead a program is shown to have a *plan*, functions that give for each call
what it finds in the book, and an invariant (`PlanInv`) says that book and sink
are as the plan has it after `done` calls. Plans are of two kinds.

* `Apart`: bids on one side of a split, asks on the other, so that no call
  trades; a call adds one order, cancels the oldest or reserves. `Standing`
  says which ids are in the book and how many slots are free, which is why none
  is refused.
* `InLine`: asks come in with their prices ascending, then each bid takes the
  first of those left and, if it has quantity for more, further ones of quantity
  1. `Line` says that the priority queue of the sells is the asks from the first
  not yet taken on, `Sunk` that the sink holds one execution for each of the
  others, `InCall` how much the bid under way has left. What the queue is, and
  that a step of the matching loops takes its head, is cited from
  `FixedClobProofs`, so the levels and links need not be looked at again.

The rest shows that each benchmark has a plan, from the formulas of `Workload`
and `DirectPrograms` (`BenchmarkPlanned`). The full match is in line because the
i-th buy has the size of the i-th sell; the sweep because its quantity is the
number of levels; the other workloads are apart because bids start at `base_bid`
and go down, asks above it and go up.

These theorems are about the programs that `Benchmark` names, in `DriversProofs`
all of `DirectPrograms`, in `PipelineProofs` all of `bench_pipeline.cpp` and the
profiler: n from 1 to the number of slots, any batch size, and prices that the
book's range holds (`Fits`; the callers choose the range to hold them). The
queue-only programs need no range. The programs of the runs `drivers` and
`pipeline` meet this, apart from the two that `MCDrivers` and the four that
`MCPipeline` add, which no benchmark sends.

**SimdScan.** Everything between `start` and the position is zero:
`SameAsScalar`; `ScanTypeOK` says that the position stays in the array.

**LatencyStats.** `PercentileExact` is inductive together with `StatsInv`: a copy
not marked dirty is the samples in ascending order. That there is such an order
(`Sortable`) is shown by counting, for each sample, those that belong before it. The m-th of the copy has at most m - 1 samples
below it and at least m at or below it, and m - 1 is the share of the others that
was asked for, rounded down: `PercentilesExact`.

Only model-checked:

* liveness (`SubmitReturns`, `ScanEnds`, `NeverStuck`, `Completes`), which the
  provers do not handle;
* what the programs end with that `MCDrivers` and `MCPipeline` add.

## 5. Findings

None: where docs, comments, assertions or tests say something about these
components, the code agrees. `level_scan` shows where the code has no answer: a
price range that is the whole 64-bit word gives `range_size` 0 and no level at
all (`StaysInside` names this one exception).

## 6. Plan

Done, in this order: `FixedClob`, `FixedOrderIndex`, the rings, `Pipeline`,
`LatencyStats`, `SimdScan` and their proofs; then the composition of book and
table, the observers, the ledger, the rescan, the sinks, all programs of the
pipeline, the single-threaded programs, and the proofs of rescan, pipeline and
book over table; then the proofs of totals and chains, of the refinement of
`OrderBook`, of the observers, the ledger and the percentiles; then those of the
single-threaded programs and, over them, of the pipelines.

Left: the ring with cached counters as the pipeline's queue. By
`ImplementsPlainRing` nothing should change.
