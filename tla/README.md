# TLA+ specifications of the Intel MPI Benchmarks

The Intel(R) MPI Benchmarks (IMB) are a family of programs (IMB-MPI1, -MPI4,
-NBC, -EXT, -RMA, -IO, -MT, -P2P, -HALO) that measure MPI operations.  A run is
a set of processes that go, all by themselves, through the same list of
benchmarks, numbers of processes and message sizes, and meet in MPI operations.
What is hard about it is that they must agree: on the next item, on the number
of repetitions, on who takes part, on when to give up; and that the row that
process 0 prints must be about what was measured.  And each kernel is a small
parallel program of its own, which must move the bytes it says it moves, inside
its buffers, and find the right ones when it checks them.  The specifications
here are about that.  They say nothing about how fast anything is.

## The system

| Part | State | Operations | Correct when |
|---|---|---|---|
| Driver, `src_cpp/imb.cpp` | the sequence of benchmarks and their scopes | init of all benchmarks, the running cycle, finalize | every item of every scope is run once, in order, on all ranks |
| Benchmark run, `src_cpp/helpers/original_benchmark.h`, `helper_IMB_functions.h`, `src_c/IMB_warm_up.c` | number of processes and mode of the stage, `stop_iterations`, `sample_failure`, times, `n_sample` | `init`, `run(item)`: new stage, buffers, trial runs, time check, warm-up, kernel, output | all ranks take the same way through an item; a row is about its item; nothing runs after a failure |
| Scope, `src_cpp/scope.h` | items: number of processes, mode, length | `commit`, iteration | the items of one stage are consecutive |
| Process groups, `src_c/IMB_init.c` | communicator, `NP`, `group_no`; on rank 0 `n_groups`, `g_sizes`, `g_ranks` | `IMB_set_communicator`, `IMB_init_communicator`, `IMB_valid` | rank 0 knows the real groups; every group has NP ranks |
| Output, `src_c/IMB_output.c` | gathered times | `IMB_output`, `IMB_calculate_times`, `IMB_display_times` | a row shows times of the ranks of one group, of this item |
| Internal barrier, `src_c/IMB_utils.c`, also in MT and P2P | mask of the round | `IMB_Barrier` | nobody leaves before all have entered; no message is left |
| Point to point kernels, `src_c/IMB_pingpong.c`, `IMB_pingping.c`, `IMB_sendrecv.c`, `IMB_exchange.c`, `IMB_bandwidth.c` | buffers, requests | send and receive in a loop | everything sent is received by whom it is meant for, without buffering by MPI |
| Collective kernels, `src_c/IMB_bcast.c` ... `IMB_alltoallv.c` | root, requests | one collective in a loop; nonblocking with computation; persistent | ranks call the same operation with the same root |
| One-sided kernels, `src_c/IMB_ones_*.c`, `IMB_rma_*.c`, `IMB_window.c` | window, epochs | put, get, accumulate, atomics under fence or lock | accesses lie in an epoch; the target waits as long as needed |
| File kernels, `src_c/IMB_read.c`, `IMB_write.c`, `IMB_init_file.c`, `IMB_open_close.c` | file, view, position | read and write with all kinds of file pointers | positions of ranks tile the file |
| Transfer setup, `src_c/IMB_init_transfer.c` | window or view of the item | init, close | setup and release are paired on all ranks |
| Memory manager, `src_c/IMB_mem_manager.c` | buffers, allocated sizes | alloc, set, delete | a buffer is as large as the kernel needs |
| Result checking, `src_c/IMB_chk_diff.c` | defect | comparison of buffers | portions of ranks tile the message |
| MT program, `src_cpp/MT` | per thread: input, buffers, times | `run_instance`, `omp_aware_barrier`, merging | threads of all processes start together |
| P2P program, `src_c/P2P` | context, buffers | its own loop and kernels | as for point to point |
| HALO, `src_cpp/HALO` | grid, neighbours | neighbour exchange | exchange is symmetric |
| Parsers, suites, lists: `args_parser`, `IMB_parse_name_*`, `IMB_benchlist.c`, `benchmark_suites_collection` | options, names | parsing, set operations | all ranks have the same list |
| Legacy driver `src_c/IMB_2018.c`, GPU wrappers, examples, Windows projects | | | |

The parts interact through MPI (world collectives in the run, messages with
fixed tags for the groups and the barrier, the collectives of the group's
communicator in kernels and trial runs) and, within a process, through
`comm_info`, of which each benchmark has its own copy with shared arrays.

`PROJECT.json` lists all parts with their status, and the hazards: places where
something can go wrong that a test would hardly reach.

## The modules

`Barrier` is what a caller of `IMB_do_n_barriers` may rely on.  `IMBBarrier` is
the dissemination barrier that implements it, message by message.
`IMBBarrier_proofs` has the theorems.  `calls`, `inside`, `mask` are the call
count, whether the call is being executed and its local variable; the two
halves of `MPI_Sendrecv` are the actions `Send` and `Recv`, in either order;
`channel[s][d]` counts messages, which are all alike (empty, one tag).

`GroupInfo` is the forming of groups and what rank 0 gets to know of them.
`Split` is `MPI_Comm_split` and the early return for a communicator that is
the world again; `SendGroup` and `RecvGroup` are the collection with tag 1000,
in which the order of arrival from different ranks is free; `Report` is
everything up to the output of the stage, which begins and ends with
collective operations on the world.  `g_ranks` is the array up to `aux_ptr`, `groups`
the same cut into `n_groups` pieces of sizes `g_sizes`.  The schedule of stages (which numbers of processes a
benchmark runs with) is that of `helper_init_scope`, with the change of
`w_num_procs` it makes for Uniband and Biband.  Benchmarks that transfer between two ranks have their
own schedule and so have, in IMB-IO, those with one process (`file`); those of IMB-RMA with one element
(`element`) do not, so that they run only where the usual stages come to two processes.  MPI aborts the program when a
message is longer than the room for it; `RecvGroup` is not enabled then and TLC
reports a deadlock.

`Schedule` is what a reader of the output may rely on; `BenchRun` is the run of
one benchmark by all ranks, from item to item.  A rank's `pc` is the
operation it has come to; collective operations are actions of all ranks of the
communicator, enabled when all have come to them.  `MPI_Gather` lets the ranks
other than 0 go on at once.  The clock is a choice in `TimeCheck`: any active
rank may find the time over.  Of a measured time only the item it was measured
in is kept (0 is not initialized).  The buffers are abstracted: an item either
exceeds the memory, on all active ranks (sizes depend on the item only), or does
not.

`Iterations` is the choice of `n_sample` in `IMB_init_buffers_iter`, for one size
after the other of a stage, on one communicator; in `BenchRun` it is the operation
`trials`.  `Select` is its STEP 1 (the number allowed), `Kernel` a trial run or the
measurement, `ReduceTime` and `ReduceReps` the `MPI_Allreduce` of the measured time
and of the repetitions it suggests, `FitTime` to `Settle` the rest of the dynamic
adaptation, a step per iteration of its loop, `Send` and `Receive` the `MPI_Bcast`.
Times are ticks and measured times a choice; roundings are those of the code, on
exact quotients.  `numiters` begins with anything, as only part of it is cleared.
`ran` remembers what the kernel was run with.

`MTBarrier` is `omp_aware_barrier`, with which IMB-MT starts all threads of all
processes together: two barriers of the threads of a process and, between them,
one of the processes in which only thread 0 takes part.  Both are taken for what
they promise, as counts of those that have come and those that have gone;
together they implement `Barrier` over all pairs of process and thread.

`Matching` is what MPI promises of point to point messages, for processes whose
operations are given: a send and a receive meet as soon as both have been called and
fit (source, tag), in order for each pair of ranks; of a message that no receive
waits for MPI either takes a copy, which completes the send, or does not.  This is
chosen for each message, so that one behaviour may have both.  `at` is the operation
a rank has come to, `matched` the pairs that have met, `buffered` the copies.
`MPI_Send`, `MPI_Recv`, `MPI_Sendrecv` and `MPI_Waitall` are made of `isend`, `irecv`
and waits.  The barrier is one step, which `IMBBarrier` justifies for
`imb_p2p_barrier`.

`Kernels` has the operations of each rank for every point to point kernel: PingPong,
PingPing, Sendrecv, Exchange, Uniband, Biband of IMB-MPI1; their six relatives
of IMB-MT with `-stride`; PingPong, PingPing, SendRecv_Replace, Unirandom, Birandom,
Corandom, Stencil2D of IMB-P2P with warm-up, barriers and the collection of reports;
the exchange of HALO.  They depend on the number of processes, the repetitions, the
window and the like only, not on what is received, so they are sequences.  Each
operation carries what the message means to the kernel (`what`), its iteration
(`iter`) and a place in the intended order (`time`), none of which MPI knows.
Left out: lengths and contents of buffers and the time taken.  The pairs and
rings drawn by the random generator are a parameter, the same on all ranks; what is
received from `MPI_ANY_SOURCE` is free.  `Calls` are the calls considered; `KernelCall` says which the
programs can make (two processes for PingPong, an even number for Uniband, a grid with no more places than
processes, ...).  In IMB-MT and HALO a call is one thread of
each process, since threads have communicators of their own.

The collective, one-sided and file kernels, with the buffers they work on and the
checks of a CHECK build, are in nine modules:

- `Descriptions`: the flags of every benchmark of IMB-MPI1, -NBC, -MPI4, -EXT, -RMA
  and -IO (the `BENCHMARK` declarations of the suites), and what
  `IMB_set_bmark` makes of them: kind, run modes, pointers of files.
- `Buffers`: lengths of buffers (`descr2len`, `set_buffer_size_...`), the spreading of
  messages with `-off_cache` (`Offs`, `Cache_iter`, `S`, `R`), filling of buffers, and
  `IMB_get_rank_portion` (`Pos1`, `Pos2`).  A byte is a *cell*, which says whose values
  were added up in it and which byte of `BUF_VALUE` it is.
- `ChkDiff`: `IMB_chk_diff` and what it calls, on cells.
- `Calls`: the ranks of a communicator, each with a sequence of operations; what MPI
  makes of them is modelled as the code relies on it and *no more synchronizing than
  MPI promises*: a collective operation is complete on a rank when those it receives from
  have begun theirs (blocking ones need no request: `Call`, `Return`), a one-sided access takes effect at any time before what completes
  it, and so on; the header lists it.  `pc` is where a rank is, `mem` its two buffers,
  `req` its request, `epoch` its window, locks and fences, `flying` one-sided accesses
  that have not taken effect, `mail` the messages of the few kernels that use send and
  receive for synchronization, `bad` the ranks with a defect.
- `CollKernels`, `OneSided`: what a rank does in each kernel, as a sequence of operations,
  since it does not depend on what is received.  Loops are sequences, whether a rank is
  the root in an iteration is computed as in the code.  The nonblocking and the
  persistent kernel first run their `_pure` form, on the same buffers.  In the persistent
  v-kernels, `_pure` form, and in both of Reduce_scatter the loop over the counts leaves `i` at
  `num_procs`, and with `-off_cache` the operation is initialised with the places of that
  iteration (`c.np` in the definitions); the other persistent kernels use those of iteration 0.
- `Files`: what MPI-IO adds: a file and its pointers (one of each rank, one
  for all), accesses that are pending until a sync, a wait or the close, and
  opening and closing.
- `FileKernels`: creation, opening, access and closing in the kernels of IMB-IO, with
  their checks.
- `ThreadKernels`: the collective kernels of IMB-MT for one thread of each process: filling and
  checking of its buffers (`InitArray`, `CheckArray`), the five barriers of an iteration, and
  the four reductions with which the processes merge their results.

`MCCalls` lists the calls of the run by benchmark; run mode, sizes and window are options of a call,
and the program of each rank follows from them.

Left out there: the time taken (what `IMB_cpu_exploit` does but that it must have been
calibrated first), data types other than the one of each kernel, the return of a file
kernel after an error of MPI-IO (`err_flag` of the error handler), hints.  The values of
different bytes of different ranks are taken to be different: `BUF_VALUE`
(`IMB_settings.h:151`) repeats itself from 11 ranks on.

## What TLC checks

| Run | Instance | Shows |
|---|---|---|
| `barrier` | 5 ranks, 3 calls | types and at most two messages in flight per pair; `BarrierSafety`; refinement of `Barrier`; all calls return; `NothingLeft` |
| `groups` | worlds of 1, 2, 4 (with Uniband), 3, 5 (without), all modes of `-multi`; 3, 4 also with the benchmarks of IMB-RMA and IMB-IO that have stages of their own, `-npmin` 1 to 3; worlds of 4 and 6 with maps 2x2, 2x3, 3x2 and one row; `-npmin` 1 and 2 | `GroupsKnown`, `NothingLeft`, `GroupsFull`, `RowsOfGroups` |
| `groups_odd` | world of 3, Uniband then Bcast, `-multi 1 -npmin 1` | violated: a stale message hides a group |
| `groups_multi_mapped` | world of 4, `-map 2x2 -multi 1` | violated: rows show other ranks' times |
| `bench_run` | 4 ranks: two groups of two in two modes, three and an idle rank, four (invalid); two sizes, warm-up runs, time-outs anywhere, one item that may be too large | `Undisturbed`, refinement of `Schedule`, `AllDone` |
| `bench_run_times` | 3 ranks, time-outs | violated: an ordinary row with times not measured |
| `bench_run_mem` | 4 ranks, item 2 out of memory | violated: later, smaller items are skipped |
| `samples` | 2 ranks, 3 sizes: ascending, or given in three other orders with zero, a repeated and an oversized one; all policies; times 0, 1, 3 of 4 ticks a second | `SameRuns`, `Monotonic`, `NegativeLeg`, `Restrictions`, `AllMeasured` |
| `mt_barrier` | 3 processes of 2 threads, 2 calls | `StartTogether`, refinement of `Barrier`, `AllReturn` |
| `kernels` | calls of all kernels with 1 to 4 (Stencil2D: 5) ranks, 1 to 4 iterations, 1 or 2 messages in a window, strides 0 and 1, all draws for Corandom and Unirandom of 2 ranks and those with two first pairs for 3 ranks, grids of one and two dimensions; sends buffered or not | `RightMessage`, `NeverStuck`, `RequestsComplete`, `NothingLeft`, `InStep`, the inductive invariant |
| `calls` | 110 calls: every collective, one-sided and file kernel, also those of IMB-MT, in one to three run modes, with 2 or 3 ranks, 2 iterations, 3 messages spread over the buffer with `-off_cache`, messages of 3 or 4 bytes and elements of 2 | `SameCollectives`, `InsideBuffers`, `InsideFiles`, `UsedRight`, `CheckRight`, `NothingLeft`, `FilesHold`; `CallsSound`, the hypothesis of the theorems about calls; no deadlock |
| `files_short` | a read of 3 messages where MSGSPERSAMPLE is 2 | violated: `InsideFiles`, the file prepared for reading is too short |

The bounds.  Five is a size with a last round of the barrier that wraps onto
ranks already heard from (sizes 2 and 4 have none); three calls let a rank be
one call ahead of a neighbour that still has an earlier message to receive.
Worlds of up to six ranks hold groups of different sizes, ranks left over, and
every case of the collection (leader, member, no room left).  Two stages and
two sizes would be enough for the change of stage and for the reset it makes;
the second has the same number of processes, a change of mode, the third another,
and the last is not valid.

Three sizes are the fewest with which the loop over earlier sizes both lowers and
raises a number.  The times 0, 1 and 3 give every branch of the two formulas except
times above a second, which `RepTest` treats as one repetition.

Two ranks are where left and right neighbour coincide and only the order tells
messages apart, three where they do not, one where a rank is its own neighbour;
three ranks leave one out of the pairs of IMB-MT.  Two iterations are enough for a
message of one to be taken for that of another, three for a sender to be two
ahead.  A window of two has a first and a last.

In `calls`, two ranks are pair and neighbours, and 0 and the last; three tell the last
from the next one and the root's neighbours apart.  Two iterations move the root
once and use buffers, requests and pointers again; a third message in the
buffer makes it wrap with `-off_cache`.  Three bytes on two ranks are portions of different
sizes; with one byte a rank has none; 4 bytes on three ranks leave one without an
element.  MSGSPERSAMPLE is 2 (50 in the code), an element `asize` 2 bytes (4), a file is opened
at most `MaxOpen` = 3 times.

The inductive invariants behind the theorems (`IInv` in `IMBBarrier`, `BenchRun`,
`Iterations`, `MTBarrier`, `GroupInfo`) have been checked with the same instances; they are
not in the configurations, since they are proved.  `IInv` of `Matching` is a property of `kernels`, as it
says which messages meet; that of `Files` was checked with `calls`.

Fairness.  `IMBBarrier` assumes that every rank keeps executing (weak fairness
of each rank's next step): MPI processes are independent programs and MPI
delivers what has been sent.  `BenchRun` and `Iterations` assume only that the whole does not
stop while a step is possible.  `MTBarrier` assumes weak fairness of every
thread: OpenMP threads are threads of the operating system.  `Matching` needs none: `NeverStuck`
says that a step is possible, and all operations are finitely many.  In `Calls` and `Files` the
programs are finite, too, and TLC finds no deadlock.

## What is proved

### The internal barrier

`IMBBarrier_proofs`: for every number of ranks `N > 0` and every number of
calls, from the assumptions `N \in Nat \ {0}` and `Episodes \in Nat`.

`BarrierSafety` is not inductive: why has a rank that has finished its rounds
heard from all?  The invariant `IInv` adds

- `Heard`: a rank that is about to begin the round with mask m, in its k-th
  call, knows that the m - 1 ranks before it have begun their k-th; once the
  message of the round is received, the 2m - 1 ranks before it;
- `ChannelCounts`: what a channel holds is the difference between the calls in
  which the sender has passed the round and those in which the receiver has.
  Two ranks are partners in one round at most (`DstInjective`), so the k-th
  message from a partner is from its k-th call although nothing marks it;
- `OnlyPartners`: other channels are empty.

The masks are characterised as the least set closed under doubling below N, which is
all that the proof needs of powers of two.  From `IInv`:
`TypeCorrect`, `Safety`, `Drained` and `Refinement` (each step is a step of
`Barrier` or changes nothing it sees).

### The process groups

`GroupInfo_proofs`.  `MapIsPermutation`: when `-map PxQ` has as many places as there are ranks, or
is not given, the keys are a permutation of the ranks.  The key of an inner rank r is Q*r modulo
P*Q - 1; multiplying it by P gives r again (`TimesUndone`).  `GroupsHaveNP`: so each color below
`w_num_procs / NP` is that of exactly NP ranks.

The other theorems are about all runs whose options satisfy `AllUsed`: options of the right
types, and an even world when Uniband or Biband are among the benchmarks (with an odd one
they fail: `groups_odd`).  The invariant `IInv` says, while rank 0 collects,

- `Collects`: exactly the ranks from `proc` on that have sent have a message on its way, and
  it is what `GroupMessage` says; rank 0 has none;
- `Recorded`: `groups` are the groups of the leaders below `proc`, each once; `g_ranks` are
  their ranks, each once.

Hence the room left in `g_ranks` is enough for the next group, since its ranks are not
there yet and neither those of other groups (`RoomLeft`: an injection from what is recorded into
the ranks without the next leader), and no message of a leader is taken for a dummy.  A
rank belongs to one group, as `MPI_Comm_split` puts the ranks of a color in an
order of its own (`PlaceFacts`, `SameMembers`).  Theorems: `Inductive`, `NothingLeftAlways`,
`GroupsKnownAlways`, `OneRowAlways` (without `-multi 1` the row is about the active ranks), and, for
maps onto all ranks (`MapsFit`), `GroupsFullAlways`: `w_num_procs / NP` groups of NP.

Two more theorems need to know where in `g_ranks` a group is.  `TypesCorrect` (`TypeOK`: what rank 0
collects stays in its arrays) and `RowsOfGroupsAlways`, for runs without `-map` or with a map of one
row or one column when `-multi 1` is given (`Unmapped`; with others the property is violated:
`groups_multi_mapped`).  The invariant `RInv` adds to `IInv` that `g_ranks` are the recorded groups one
after the other (`Blocks`) and that, without a map, groups are consecutive ranks in the order of their
leaders.

Sums over the groups before are flattened sequences.  The module begins with induction over numbers in the
form of sets (a set of numbers that has 0 and with n also n + 1 has all), which the provers can use, and
with it what `FlattenSeq` is: that it exists, what it is on a longer sequence, which piece a place of the
result belongs to.  `Matching_proofs` begins with the same lemmas and `Files_proofs` with some of them.

### The run of a benchmark

`BenchRun_proofs`: for every world `W > 0`, every sequence of stages, number of
sizes and set of valid numbers of processes, and every pattern of failures, from
`WAssumption` and `ScopeAssumption`.  `Undisturbed` says that while one rank
measures, no other is in trial runs of the next item.  The reasons lie in what
ranks at different operations have in common, which `IInv` says:

- `Together`: of two ranks that have not stopped one is at most one item ahead,
  and then it has sent its times and is before the `MPI_Allreduce` of the next
  item while the other is in `MPI_Gather`; in the same item both are on the same
  side of the `MPI_Allreduce` and of the barrier;
- `StoppedAhead`: when only one of two ranks has stopped, the reason is a number of
  processes that is not valid, in the item that the other is about to begin;
- `InStage`: a rank's stage is that of its item;
- `GatherOfItem`: at most one item's times of a rank are on their way to rank 0,
  those of the item rank 0 is at, which is the last to leave;
- `RowsSoFar`: there is one row for each item that rank 0 has passed.

From it follow `TypeCorrect`, `NobodyDisturbed` and `Refinement`: the rows are
those of `Schedule`.

### The number of repetitions

`Iterations_proofs`: for every number of ranks, list of sizes, limits and measured
times, from `NPAssumption`, `OptionsAssumption` (sizes not listed ascend),
`TimesAssumption` and `NumbersAssumption`.  With the policies `off` and
`multiple_np` the number is a function of the size (`FixedRuns`).  With `dynamic` the
invariant has

- `Together`: all ranks are between the same two of the operations of all;
- `Prepared`, `AgreedReps`: what a rank is about to run the kernel with is one, the
  maximum of all, or what rank 0 has sent; `Recorded`, `AgreedSecond`: and that is
  what it has run;
- `BcastOrdered`: what rank 0 has sent does not grow with the size, whatever the
  order of the sizes; `Fitting`: the number it works on lies between those of
  larger and of smaller sizes, of all that the loop has passed.  A step of the loop
  that raises the number cannot exceed an upper bound found before, since the sent
  numbers are ordered among themselves; that is why the loop in one direction
  suffices.  Without `-msglen` the number of the size before is bound enough.

Theorems: `TypeCorrect`, `SameRunsAlways`, `MonotonicAlways`, `RestrictionsAlways`,
the last with lemmas about quotients (`SelectedAntitone`, `SelectedRestricted`).
`NegativeLegAlways`: with `multiple_np` the number does not grow with the size, if the
denominator of the formula is an int for all sizes (`NoOverflow`).  It is not for 2^30 bytes and four
ranks: TLC then finds 4 repetitions for 2^29 bytes and 1000 for 2^30.

### The barrier of threads

`MTBarrier_proofs`: for any processes, any threads with a thread 0 and any number
of calls (`ThreadAssumption`, `EpisodesAssumption`).  The invariant is that the
barriers keep their promise (`OmpBarrier`, `MPIBarrier`) and that thread 0 goes
to the barrier of the processes after the first omp barrier and to the second
after it (`ThreadZero`): so from one thread to another process's thread there is
a chain through both threads 0.  Theorems: `TypeCorrect`, `Together`,
`Refinement`.

### Point to point messages

`Matching_proofs` is about programs of any kind, `Kernels_proofs` about those of `Kernels`.  The theorems are
about all of its kernels, with any number of ranks, iterations, sizes and
messages in a window, any stride that MPI can follow, any draw and any grid (`KernelAssumption`:
`Calls` are such calls, `KernelCall`, and `Program` gives each the operations of `OfRank`).  The proof has
three levels.

*Programs.*  `Sound` is about the text of a program, not about its executions:

- `Orderly`: the k-th send that fits a receive and the k-th receive that fits
  the send are mates; all have one, the same thing is meant, and mates are in the
  same order on both sides;
- `Scheduled`: there are times that grow along each rank such that what a rank waits
  for is called by its partner earlier than the wait, with the same barriers on all;
- `WaitedFor`: what is called in an iteration is waited for in it.

That it holds of every kernel is shown from the inside out.  A `Piece` is what all ranks do from
one time to another, with messages in given channels (source, destination, tag) that are paired.  Two
pieces one after the other are a piece (`PieceThen`), so is what an iteration repeats (`PieceTimes`), and a
whole one is sound (`PieceSound`).  The iteration of each kernel is one by
`BodyPiece`, which asks for its pairs only, and that a receive from any source or of any tag can take
messages of one channel only.  The pairs are found per kernel: both neighbours of a ring, also
where they are the same rank; partners at a distance; the windows and their acknowledgement; what
was drawn; a product grid, for which the neighbour below is shown to be the inverse of the one above
(`GridIs` for Stencil2D, products of the extents for HALO).  `KernelsProper` says it of all.

*Executions.*  The invariant `Inv`: exactly those mates have met that have both been called (`MatesMet`),
a barrier has been passed by all or none (`SameBarriers`), and no request outlives a
wait for it (`WaitsOver`).  So nobody else takes a message, whatever is
buffered, also from `MPI_ANY_SOURCE`.  For `NeverStuck` look at the unfinished
rank whose operation is the earliest (it exists as times are well-founded): if it
waits, its partner's operation is of an earlier time, so it has been called, and the
two have met.  Nothing in this needs a buffer.

*Who is ahead.*  A piece also has edges, along which it sends (`Along`), and in each iteration a barrier, or
waiting that goes round (`Hears`): of a set of ranks that an edge leaves, one receives
from outside.  `Past(k)` is the set of ranks that have left the iterations before k.  A receiver that has left one
has got its message from a rank that has come to it (`LeftBehind`).  So if the sender has left
iteration j and its receiver has not, some rank has come to j that has not left it
(`OneMore`): with each iteration of lead there is one rank more in `Past`, which never holds the
receiver (`ManyAhead`), and the lead is less than the number of ranks
(`NotFarAhead`).  Where an iteration has a barrier nobody can have left it before others have come to it (`NoBarrier`).  It
does not hold of Unirandom and Birandom, nor of a window of no messages (`Closed`), as nobody
waits for the sender there.

`CallInv` puts these together.  Theorems: `KernelsSoundPaced`, and for every execution
`TypesCorrect`, `MatesMeet`, `RightMessages`, `NoDeadlock`, `RequestsCompleteAlways`, `NothingPending`,
`SendersInStep`.

### Buffers and portions

`Files_proofs`: `PortionsTile`, for any length, unit and number of ranks every byte lies in the portion
of one rank, and only in that; views of files, offsets and checks rely on it.  `MessagesInside` and
`MessagesApart`: wherever `-off_cache` puts a message, it is inside of the buffer, and messages
at different places have at least a cache line between them (`CallAssumption`: numbers are natural, a
cache line has a byte, a benchmark has a flag for each buffer).

### Calls of the collective, one-sided and file kernels

Also in `Files_proofs`, for any number of ranks and programs of any length that are `Sound`.  What a rank
holds (its request, window, locks, fence and file, how many collective operations it has begun
and messages it has sent) depends on what it has done so far and not on when others do theirs:
`States(x, r)[k]` is computed from the program alone (`After`).  So one may ask of each program by itself
that each operation is allowed where it stands (`AllowedAt`), names ranks and collectives that there are
(`WellFormed`) and that nothing is held at its end (`Ended`).  That is `Sound`, with two demands that
relate ranks: their counts agree at the end, and no file is deleted that another rank may have open
(`DeletesClosed`).  The latter is about order, which only collective operations give: the state also
says of how many of p's collective operations the rank has *heard*, by completing one in
which it receives from p.

`CallsSound` contains that hypothesis, and TLC checks it for each of the 110 calls.  The invariant `IInv`
consists of `HoldsNow`, what the variables say is what `States` says, and `Heard`: of what a rank has heard
the other has begun, and a read that has not taken effect belongs to a rank whose state says so.  A deletion
is right as in any state in which both ranks are where `DeletesClosed` excludes them, one would have heard of
more operations than the other has begun.  `UInv` adds what `Sound` makes constant.  Theorems:
`StatesRight` (`UInv`), `UsedRightAlways`, `NothingLeftAlways` and `TypesCorrect` (`FTypeOK`, with the
accesses on their way to memory and to files).

### Collective kernels

For the collective kernels soundness is not only checked but proved: `CollectiveCall(x)` says that the
call x is one of a collective kernel of IMB-MPI1, -NBC or -MPI4 (`CollectiveKernels` lists all 67: blocking,
nonblocking, persistent, pure or overlapped with computing) with the buffers its benchmark's
flags ask for, any number of times.  Nothing else is assumed but that numbers are natural (`CallNumbers`), so
processes, length of messages, iterations, `-off_cache`, `-sync` and `-root_shift` are arbitrary, with
a CHECK build or without.  `CallsSound` also asks `CollectiveCall` of every call of these suites, so that
TLC shows the hypothesis of the theorems to hold of the calls it runs.

The proof has three levels.  *Operations*: for each collective the root and the lengths that all ranks pass
match, and the places are inside of the buffers (`BcastGood`, `AllgatherGood`, ...; they use
`MessagesInside`).  *Loops*: `Good(x, F, a, b)` says of what all ranks do that it leads the request and the
calibration of each from a to b, that operations are of the kinds and in the places that `OpSet` lists, and that the collective
operations of any two ranks agree one by one; it is closed under concatenation (`GoodConcat`) and
repetition (`GoodLoop`), and there is one lemma for each of the three forms of a kernel (blocking,
overlapped, persistent; `FormWorks`, `PersistentFormWorks`).  *Kernels*: each is one of the forms, with
its own operation and check, the persistent ones with one operation for the pure loop and one for the
loop after it, which are in different places of the buffers for the v-kernels (`KernelsWork`; `BcastKernels`, ...), also where it checks differently on the root.  `KernelWorks` says it of all and
`RepeatedWorks` of repeated calls, which start with what the calls before have left: computing stays
calibrated.  `CollectiveSound` concludes `Sound`: `RankStands` relates what is left by
the operations so far to `States`.  The invariant `CInv` adds to `UInv` that there is no access to windows
or files, and that buffers keep the lengths that `IMB_init_buffers` gave them (`BuffersKept`).
Theorems: `CollectivesSound`, `SameCollectivesAlways`, `InsideBuffersAlways`.

`Collectives` takes the collective operations out of a program with `FlattenSeq`, since the
definition of `SelectSeq` is out of the provers' reach.

### What is in files

`InsideFiles` and `FilesHold` are about what all ranks do together, so more is asked of programs than to
be sound, and `CallsSound` checks it with TLC: `Placed`.  It still looks at programs only, never at
what a run makes of them.  `PointersOf(x, r)[k]` says of each place in a program how often the rank has opened
its file, how many accesses it has made since and by how much it has moved the shared pointer of
each opening; `Past` says when a rank can tell, from what it has heard, that another one is past an operation.
Of each access `PlacedAt` asks

- that the rank knows its file to have been created, once and for all, and with room for what is read
  (`Creates`, `InCreated`);
- with the rank's own pointer or an offset, that it is of the rank's part of a block, and that
  no block is accessed again in the same opening where one of the accesses is a write (`OwnPart`);
- with the shared pointer, that who accessed the file in an earlier opening is known to have closed it
  (`SharedPart`);
- of a write, that the rank's values have been put into its buffer (`SetsValues`); of all writes of a rank, that they
  are of all blocks (`WritesAll`).

The invariant `PInv` adds to the types: pointers are where `PointersOf` says (`PointersHold`; the shared one
is at the sum of what all ranks have moved it by, `SumGrows`); an access on its way was called in the opening
that its rank still has, and is at the place that its program gives or below the shared pointer
(`PendingHolds`, `PendingOnce`); those with the shared pointer are apart as each starts where the one before
ends (`SharedApart`); and a created file does not get shorter (`FilesMade`).  From it, parts of
different ranks are apart (`OwnApart`, from the partition of `IMB_get_rank_portion`), blocks
of the same rank too, and accesses of different openings are not on their way at once.  `InsideFilesAlways`
concludes `InsideFiles` for every kernel.

`HInv` adds what buffers and files hold in writing benchmarks without a shared pointer: a buffer
that was set has the rank's values, until it ends (`BuffersHold`), so has each write on its way
(`CellsHold`), and each write that was called is on its way or in the file, in its place (`WrittenHolds`).  A
write that takes effect disturbs none that did (`WrittenLands`), and the file is not deleted or created any
more (`NoneShaped`: who accesses it has heard of its creation, the last there is).  `FilesHoldAlways`
concludes `FilesHold`.  With the shared pointer the place of a part depends on the order of the
calls; `FilesHold` then counts the parts that are found, and is only checked.

### Model-checked only

- Liveness (`AllReturn`, `AllDone`, `AllMeasured`), as the provers have no rules for fairness.
- Of `calls`: `CheckRight`, which compares byte by byte what the check expects with what all ranks together
  have delivered; `FilesHold` with the shared pointer; `SameCollectives` and `InsideBuffers` for one-sided
  and file kernels and those of IMB-MT; and `CallsSound`, that the programs of these kernels are what
  the theorems ask (`Sound` and `Placed`), which is a fact about loops of each kernel for itself.
- The violated properties, which are about single executions.

## What else came up

Observations that are not runs of their own:

- `-map 2x2` with five processes (the command line allows P*Q <= NP): ranks 1 and 4 have the same
  key, and five processes take part in the stage of four; `GroupsFull` is violated.
- `Ireduce_scatter` checks the part of each rank at position 0 (`IMB_reduce_scatter.c:211` and `:283`),
  where `Reduce_scatter` uses its own: in a CHECK build, right results of other ranks are taken
  for wrong.  It is the one benchmark without a call in `calls`.
- Private files are opened with `MPI_MODE_UNIQUE_OPEN` (`IMB_init_file.c:170`) and once more by the
  check (`IMB_chk_diff.c:494`); the calls with private files are without check, `UsedRight` would be
  violated.
- A rank that finds a defect in a file calls an `MPI_Gather` (`IMB_chk_diff.c:626`) that others do not call.
- `chk_distr` looks at `ranks[i+1]` for the last i (`IMB_chk_diff.c:1065`).
- Several `MPI_File_iread` go into the same place of a buffer while pending (`IMB_read.c:503`).
- The checks with shared pointers expect parts that are multiples of `asize`; the calls use such.
- A rank may return from the collective opening of a file before rank 0 has created it, as far as
  MPI promises; `UsedRight` allows it.
- `fill_in` of HALO (`halo_suite.cpp:81`) multiplies each dimension by the root of the number of
  processes, not of those per grid: `-topo 1.2` with nine processes asks for a grid of 3 by 6 and so
  for 18 ranks, although 2 would do.  Rank 0 then leaves `prepare`, and the others wait in
  the `MPI_Barrier` of line 184.
- `-iter` is 1000 by default in IMB-IO (`IO_suite.cpp:205`), `IMB_settings_io.h` says 50.

## What is not modelled

See the components in `PROJECT.json`.  Out of reach are: real time and the calibrated busy
loop, the values of floating point numbers and their sums (which is why contents are
cells), formatting of tables, and the device libraries.  Left out as sequential work on
strings and lists with nothing to interleave: `args_parser` and the options of the
suites, the registration and selection of benchmarks, `IMB_basic_input`.  The
legacy driver `IMB_2018.c`, which the programs of `src_cpp` replace, is used as a statement of what
they are meant to do.

Of components that are modelled in part:

- the arithmetic of merging the times of the threads of IMB-MT, Stencil3D of
  IMB-P2P (the structure of Stencil2D, but eight ranks at least), the choice of the grid of HALO and
  its start;
- the early return of file kernels after an error of MPI-IO;
- the freeing of buffers, and the list of message lengths in the run of a benchmark;
- `Bcast_persist` runs with a fixed root only;
- before it deletes a file, `IMB_del_file` opens and closes it on `MPI_COMM_SELF` so that there is one to
  delete: `delete` stands for the three, which are between the same barriers.

## The plan

1. Internal barrier (done, proved).
2. Groups and their information (done, proved).
3. The run of a benchmark and the choice of the number of repetitions (done, proved).
4. The MT program: its barrier (done, proved), its collective kernels (done); the arithmetic of
   merging results.
5. Portions of ranks: they tile the message (done, proved).
6. Point to point kernels of MPI1, MT, P2P and HALO with sends that are buffered
   or not (done, proved for all kernels and numbers of ranks); Stencil3D.
7. Collective kernels: rotating roots, buffer offsets, nonblocking and persistent (done, proved but
   for what the checks find).
8. One-sided and file kernels, transfer setup (done; proved to be used right and to leave nothing,
   for sound programs); soundness of these, errors of MPI-IO.
9. The choice of grids of HALO and its start, basic input and benchmark lists, the freeing of
   buffers.
