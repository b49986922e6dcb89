------------------------------- MODULE MCCalls -------------------------------
(***************************************************************************)
(* Calls of all kernels, each for its benchmark, with two or three ranks   *)
(* and two iterations.  A message has 3 bytes, or 4 where elements of 2 are*)
(* summed up; cached calls spread three messages over their buffers.  Of a *)
(* block in a file the ranks have a part each; with a shared pointer parts *)
(* are whole elements, of which one rank has two.                          *)
(***************************************************************************)
EXTENDS OneSided, FileKernels

(***************************************************************************)
(* A call of a benchmark in its imod-th run mode, with what else is chosen.*)
(***************************************************************************)
Bench(suite, name, imod) ==
  [suite |-> suite, name |-> name, imod |-> imod, np |-> 2, n |-> 2, cache |-> 0, line |-> 2,
   sync |-> 0, shift |-> 1, check |-> TRUE, warmup |-> 1, calls |-> 1]

MPI1(name) == Bench("MPI1", name, 0)
NBC(name) == Bench("NBC", name, 0)
MPI4(name) == Bench("MPI4", name, 0)
RMA(name) == Bench("RMA", name, 0)
RMA_aggregate(name) == Bench("RMA", name, 1)
MT(name) == [Bench("MT", name, 0) EXCEPT !.sync = 1]
EXT(name) == Bench("EXT", name, 1)
EXT_aggregate(name) == Bench("EXT", name, 0)
IO(name) == Bench("IO", name, 1)
IO_aggregate(name) == Bench("IO", name, 0)

Three(x) == [x EXCEPT !.np = 3]
Once(x) == [x EXCEPT !.n = 1]
Cached(x) == [x EXCEPT !.cache = 6, !.n = 3]
Synced(x) == [x EXCEPT !.sync = 1]
Fixed(x) == [x EXCEPT !.shift = 0]
Unchecked(x) == [x EXCEPT !.check = FALSE]
Twice(x) == [x EXCEPT !.calls = 2]
Sized(x, size) == [size |-> size] @@ x

(***************************************************************************)
(* In n_sample messages there are no more bytes than in the volume.        *)
(***************************************************************************)
Blocks(x, size) == [size |-> size, largest |-> size, volume |-> 2 * size + 1] @@ x
Elements3(x) == Blocks(x, 3 * asize)
ForThree(x) == Blocks(Three(x), 5)

(***************************************************************************)
(* The kernel of a benchmark.                                              *)
(***************************************************************************)
NBC_kernel(x, r) ==
  CASE x.name = "Ibcast" -> IMB_ibcast(x, r)
    [] x.name = "Iallgather" -> IMB_iallgather(x, r)
    [] x.name = "Iallgatherv" -> IMB_iallgatherv(x, r)
    [] x.name = "Ialltoall" -> IMB_ialltoall(x, r)
    [] x.name = "Ialltoallv" -> IMB_ialltoallv(x, r)
    [] x.name = "Igather" -> IMB_igather(x, r)
    [] x.name = "Igatherv" -> IMB_igatherv(x, r)
    [] x.name = "Iscatter" -> IMB_iscatter(x, r)
    [] x.name = "Iscatterv" -> IMB_iscatterv(x, r)
    [] x.name = "Ireduce" -> IMB_ireduce(x, r)
    [] x.name = "Iallreduce" -> IMB_iallreduce(x, r)
    [] x.name = "Ibarrier" -> IMB_ibarrier(x, r)

MPI4_kernel(x, r) ==
  CASE x.name = "Bcast_persist" -> IMB_bcast_persist(x, r)
    [] x.name = "Allgather_persist" -> IMB_allgather_persist(x, r)
    [] x.name = "Allgatherv_persist" -> IMB_allgatherv_persist(x, r)
    [] x.name = "Alltoall_persist" -> IMB_alltoall_persist(x, r)
    [] x.name = "Alltoallv_persist" -> IMB_alltoallv_persist(x, r)
    [] x.name = "Gather_persist" -> IMB_gather_persist(x, r)
    [] x.name = "Gatherv_persist" -> IMB_gatherv_persist(x, r)
    [] x.name = "Scatter_persist" -> IMB_scatter_persist(x, r)
    [] x.name = "Scatterv_persist" -> IMB_scatterv_persist(x, r)
    [] x.name = "Reduce_persist" -> IMB_reduce_persist(x, r)
    [] x.name = "Allreduce_persist" -> IMB_allreduce_persist(x, r)
    [] x.name = "Reduce_scatter_persist" -> IMB_reduce_scatter_persist(x, r)
    [] x.name = "Barrier_persist" -> IMB_barrier_persist(x, r)

MPI1_kernel(x, r) ==
  CASE x.name = "Bcast" -> IMB_bcast(x, r)
    [] x.name = "Allgather" -> IMB_allgather(x, r)
    [] x.name = "Allgatherv" -> IMB_allgatherv(x, r)
    [] x.name = "Alltoall" -> IMB_alltoall(x, r)
    [] x.name = "Alltoallv" -> IMB_alltoallv(x, r)
    [] x.name = "Gather" -> IMB_gather(x, r)
    [] x.name = "Gatherv" -> IMB_gatherv(x, r)
    [] x.name = "Scatter" -> IMB_scatter(x, r)
    [] x.name = "Scatterv" -> IMB_scatterv(x, r)
    [] x.name = "Reduce" -> IMB_reduce(x, r)
    [] x.name = "Allreduce" -> IMB_allreduce(x, r)
    [] x.name = "Reduce_scatter" -> IMB_reduce_scatter(x, r)
    [] x.name = "Reduce_scatter_block" -> IMB_reduce_scatter_block(x, r)
    [] x.name = "Reduce_local" -> IMB_reduce_local(x, r)
    [] x.name = "Barrier" -> IMB_barrier(x, r)

RMA_kernel(x, r) ==
  CASE x.name \in {"Unidir_put", "Bidir_put"} -> IMB_rma_single_put(x, r)
    [] x.name \in {"Unidir_get", "Bidir_get"} -> IMB_rma_single_get(x, r)
    [] x.name = "Put_local" -> IMB_rma_put_local(x, r)
    [] x.name = "Get_local" -> IMB_rma_get_local(x, r)
    [] x.name = "All_put_all" -> IMB_rma_put_all(x, r)
    [] x.name = "One_get_all" -> IMB_rma_get_all(x, r)
    [] x.name = "Put_all_local" -> IMB_rma_put_all_local(x, r)
    [] x.name = "Get_all_local" -> IMB_rma_get_all_local(x, r)
    [] x.name = "Exchange_put" -> IMB_rma_exchange_put(x, r)
    [] x.name = "Exchange_get" -> IMB_rma_exchange_get(x, r)
    [] x.name = "Truly_passive_put" -> IMB_rma_passive_put(x, r)
    [] x.name = "Accumulate" -> IMB_rma_accumulate(x, r)
    [] x.name = "Get_accumulate" -> IMB_rma_get_accumulate(x, r)
    [] x.name = "Fetch_and_op" -> IMB_rma_fetch_and_op(x, r)
    [] x.name = "Compare_and_swap" -> IMB_rma_compare_and_swap(x, r)

EXT_kernel(x, r) ==
  CASE x.name = "Unidir_Put" -> IMB_unidir_put(x, r)
    [] x.name = "Unidir_Get" -> IMB_unidir_get(x, r)
    [] x.name = "Bidir_Put" -> IMB_bidir_put(x, r)
    [] x.name = "Bidir_Get" -> IMB_bidir_get(x, r)
    [] x.name = "Accumulate" -> IMB_accumulate(x, r)
    [] x.name = "Window" -> IMB_window(x, r)

IO_kernel(x, r) ==
  CASE x.access = "no" -> IMB_open_close(x, r)
    [] x.access = "put" /\ x.fpointer = "SHARED" -> IMB_write_shared(x, r)
    [] x.access = "put" /\ x.fpointer = "EXPLICIT" -> IMB_write_expl(x, r)
    [] x.access = "put" /\ x.fpointer \in {"INDV_BLOCK", priv} -> IMB_write_indv(x, r)
    [] x.access = "get" /\ x.fpointer = "SHARED" -> IMB_read_shared(x, r)
    [] x.access = "get" /\ x.fpointer = "EXPLICIT" -> IMB_read_expl(x, r)
    [] x.access = "get" /\ x.fpointer \in {"INDV_BLOCK", priv} -> IMB_read_indv(x, r)

MT_kernel(x, r) ==
  CASE x.name = "BarrierMT" -> mt_barrier(x, r)
    [] x.name = "BcastMT" -> mt_bcast(x, r)
    [] x.name = "ReduceMT" -> mt_reduce(x, r)
    [] x.name = "AllReduceMT" -> mt_allreduce(x, r)

Kernel(x, r) ==
  CASE x.suite = "MPI1" -> MPI1_kernel(x, r)
    [] x.suite = "NBC" -> NBC_kernel(x, r)
    [] x.suite = "MPI4" -> MPI4_kernel(x, r)
    [] x.suite = "RMA" -> RMA_kernel(x, r)
    [] x.suite = "EXT" -> EXT_kernel(x, r)
    [] x.suite = "IO" -> IO_kernel(x, r)
    [] x.suite = "MT" -> run(x, MT_kernel(x, r))

(***************************************************************************)
(* What rank r does in the call, with the transfer set up and closed.      *)
(***************************************************************************)
Program(x, r) ==
  (CASE x.suite = "IO" -> IMB_init_file(x, r) \o IMB_init_transfer_io(x, r)
     [] x.suite = "MT" -> <<>>
     [] OTHER -> IMB_init_transfer(x))
    \o Loop(x.calls, LAMBDA i : Kernel(x, r))
    \o (CASE x.suite = "IO" -> IMB_close_transfer_io(x, r)
          [] x.suite = "MT" -> <<>>
          [] OTHER -> IMB_close_transfer(x))

(***************************************************************************)
(* The call with its run mode, its sizes, and the programs.                *)
(***************************************************************************)
WithMode(b) ==
  LET flags == Benchmarks[b.suite][b.name]
  IN IF b.suite = "MT" THEN [type |-> "COLLECTIVE", reduction |-> TRUE] @@ b
     ELSE b @@ [flags |-> flags] @@ IMB_set_bmark(b.suite, flags, b.imod)

WithSizes(x) ==
  LET size == CASE x.type = "SINGLE_ELEMENT_TRANSFER" -> asize
                [] x.name \in {"Barrier", "Ibarrier", "Barrier_persist", "BarrierMT",
                               "Open_Close"} -> 0
                [] OTHER -> IF x.reduction THEN 4 ELSE 3
  IN x @@ [size |-> size, largest |-> size, volume |-> 2 * size + 1]

WithWindow(x) ==
  IF x.suite \in {"IO", "MT"} THEN [win |-> "r", winsize |-> 0, unit |-> 1] @@ x
  ELSE [win |-> WindowBuffer(x), winsize |-> WindowSize(x), unit |-> WindowUnit(x)] @@ x

WithPrograms(x) ==
  LET prog == [r \in Ranks(x) |-> Program(x, r)]
  IN [prog |-> prog, colls |-> Collectives(prog)] @@ x

Run(b) == WithPrograms(WithWindow(WithSizes(WithMode(b))))

(***************************************************************************)
(* The persistent broadcast is called with the root fixed (root_shift 0),  *)
(* as its check takes the root to move.                                    *)
(***************************************************************************)
CollectiveCalls ==
  << Three(Cached(MPI1("Bcast"))),
     Three(Synced(NBC("Ibcast"))),
     Fixed(MPI4("Bcast_persist")),
     Three(MPI1("Allgather")),
     Cached(NBC("Iallgather")),
     Three(MPI4("Allgather_persist")),
     Cached(Sized(MPI1("Allgatherv"), 1)),
     NBC("Iallgatherv"),
     Cached(MPI4("Allgatherv_persist")),
     Three(MPI1("Alltoall")),
     Three(Cached(NBC("Ialltoall"))),
     MPI4("Alltoall_persist"),
     Cached(MPI1("Alltoallv")),
     NBC("Ialltoallv"),
     Cached(MPI4("Alltoallv_persist")),
     Three(MPI1("Gather")),
     Three(Cached(NBC("Igather"))),
     Synced(MPI4("Gather_persist")),
     Cached(MPI1("Gatherv")),
     NBC("Igatherv"),
     Three(Cached(MPI4("Gatherv_persist"))),
     Three(MPI1("Scatter")),
     Three(Cached(NBC("Iscatter"))),
     MPI4("Scatter_persist"),
     Cached(MPI1("Scatterv")),
     NBC("Iscatterv"),
     Cached(MPI4("Scatterv_persist")),
     Three(Cached(MPI1("Reduce"))),
     Three(Synced(NBC("Ireduce"))),
     MPI4("Reduce_persist"),
     Three(MPI1("Allreduce")),
     Three(Cached(NBC("Iallreduce"))),
     Synced(MPI4("Allreduce_persist")),
     Three(Cached(MPI1("Reduce_scatter"))),
     Cached(MPI4("Reduce_scatter_persist")),
     Cached(MPI1("Reduce_scatter_block")),
     Cached(MPI1("Reduce_local")),
     MPI1("Barrier"),
     Three(NBC("Ibarrier")),
     MPI4("Barrier_persist") >>

ThreadCalls ==
  << MT("BarrierMT"),
     Three(MT("BcastMT")),
     Three(MT("ReduceMT")),
     MT("AllReduceMT"),
     Unchecked([MT("AllReduceMT") EXCEPT !.sync = 0]) >>

OneSidedCalls ==
  << Cached(RMA_aggregate("Unidir_put")),
     RMA("Bidir_put"),
     Cached(RMA_aggregate("Unidir_get")),
     RMA("Bidir_get"),
     RMA("Put_local"),
     RMA_aggregate("Get_local"),
     Once(Three(RMA("All_put_all"))),
     Three(RMA("One_get_all")),
     Three(RMA("Put_all_local")),
     RMA("Get_all_local"),
     Once(Three(RMA("Exchange_put"))),
     Cached(RMA("Exchange_put")),
     RMA("Exchange_get"),
     RMA("Truly_passive_put"),
     Cached(RMA("Accumulate")),
     RMA_aggregate("Get_accumulate"),
     Cached(RMA("Fetch_and_op")),
     Cached(RMA("Compare_and_swap")),
     RMA_aggregate("Compare_and_swap"),
     EXT("Unidir_Put"),
     Cached(EXT_aggregate("Unidir_Put")),
     Cached(EXT("Unidir_Get")),
     EXT_aggregate("Unidir_Get"),
     EXT("Bidir_Put"),
     EXT_aggregate("Bidir_Get"),
     Twice(Cached(EXT("Accumulate"))),
     Three(Cached(EXT_aggregate("Accumulate"))),
     Unchecked(Sized(EXT_aggregate("Accumulate"), 2)),
     EXT_aggregate("Window") >>

(***************************************************************************)
(* The check of private files, which are opened with MPI_MODE_UNIQUE_OPEN, *)
(* is left out: it opens them once more.                                   *)
(***************************************************************************)
WriteCalls ==
  << Unchecked(IO_aggregate("S_Write_Indv")),
     Unchecked(IO("S_Write_Expl")),
     Unchecked(IO_aggregate("S_IWrite_Indv")),
     IO_aggregate("P_Write_Indv"),
     IO("P_Write_Indv"),
     ForThree(IO("P_Write_Expl")),
     IO_aggregate("P_IWrite_Expl"),
     IO_aggregate("P_IWrite_Indv"),
     Elements3(IO_aggregate("P_Write_Shared")),
     Elements3(IO("P_Write_Shared")),
     Elements3(IO_aggregate("P_IWrite_Shared")),
     Unchecked(IO("P_Write_Priv")),
     Unchecked(IO_aggregate("P_IWrite_Priv")),
     IO_aggregate("C_Write_Indv"),
     IO("C_Write_Expl"),
     ForThree(IO("C_Write_Shared")),
     IO_aggregate("C_IWrite_Indv"),
     IO_aggregate("C_IWrite_Expl"),
     Elements3(IO_aggregate("C_IWrite_Shared")) >>

ReadCalls ==
  << IO_aggregate("S_Read_Indv"),
     IO_aggregate("S_IRead_Expl"),
     IO_aggregate("P_Read_Indv"),
     ForThree(IO_aggregate("P_Read_Expl")),
     IO_aggregate("P_IRead_Indv"),
     IO_aggregate("P_IRead_Expl"),
     Elements3(IO_aggregate("P_Read_Shared")),
     Elements3(IO_aggregate("P_IRead_Shared")),
     IO_aggregate("P_Read_Priv"),
     IO_aggregate("P_IRead_Priv"),
     ForThree(IO_aggregate("C_Read_Indv")),
     Sized(IO_aggregate("C_Read_Expl"), 1),
     Elements3(IO_aggregate("C_Read_Shared")),
     IO_aggregate("C_IRead_Indv"),
     IO_aggregate("C_IRead_Expl"),
     Elements3(IO_aggregate("C_IRead_Shared")),
     IO_aggregate("Open_Close") >>

Runs(calls) == [i \in DOMAIN calls |-> Run(calls[i])]

MCSetups == Runs(CollectiveCalls \o ThreadCalls \o OneSidedCalls \o WriteCalls \o ReadCalls)

(***************************************************************************)
(* Run files_short: more messages are read (-iter) than MSGSPERSAMPLE.     *)
(***************************************************************************)
More(x) == [n |-> 3, volume |-> 3 * 3] @@ x

ShortSetups == Runs(<< More(IO_aggregate("P_Read_Indv")) >>)
=============================================================================
