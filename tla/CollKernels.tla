------------------------------ MODULE CollKernels ------------------------------
(***************************************************************************)
(* The collective benchmarks: what rank r does in one call of a kernel.    *)
(* Each operation has up to five kernels: the blocking one (MPI1), the     *)
(* nonblocking one and its _pure form (NBC), the persistent one and its    *)
(* _pure form (MPI4).  The full forms first call the _pure form to learn   *)
(* how long to compute while the operation is under way.                   *)
(*                                                                         *)
(* Of the call c (see Buffers) they use in addition                        *)
(*   shift   c_info.root_shift          sync    c_info.sync, 0 or 1        *)
(*                                                                         *)
(* The operations of a program are described in Calls.  Type sizes are 1   *)
(* byte, those of reductions asize.                                        *)
(***************************************************************************)
EXTENDS Buffers

N_BARR == 2

-----------------------------------------------------------------------------
(***************************************************************************)
(* Iterations 0 .. n-1 of a loop.                                          *)
(***************************************************************************)
Loop(n, Body(_)) == FlattenSeq([i \in 1 .. n |-> Body(i - 1)])

If(condition, ops) == IF condition THEN ops ELSE <<>>

ToEach(c, at, n) == [p \in Ranks(c) |-> <<at, n>>]
Part(from, at, n) == [from |-> from, at |-> at, n |-> n]

Coll(what, root, send, recv) ==
  [do |-> "start", what |-> what, root |-> root, send |-> send, recv |-> recv]

Wait1 == <<[do |-> "wait"]>>
Blocking(op) == <<[op EXCEPT !.do = "call"], [do |-> "return"]>>

IMB_do_n_barriers(c, N) ==
  Loop(N, LAMBDA i : Blocking(Coll("Barrier", 0, ToEach(c, 0, 0), {Part(Ranks(c), 0, 0)})))

(***************************************************************************)
(* IMB_cpu_exploit learns the speed once, then computes for that long.     *)
(***************************************************************************)
IMB_cpu_exploit(initialize) == <<[do |-> "exploit", initialize |-> initialize]>>

Overlapped(op) == <<op>> \o IMB_cpu_exploit(0) \o Wait1

(***************************************************************************)
(* The measured loop, and that of a persistent operation.                  *)
(***************************************************************************)
Measured(c, Body(_)) ==
  IMB_do_n_barriers(c, N_BARR)
    \o Loop(c.n, LAMBDA i : Body(i) \o IMB_do_n_barriers(c, c.sync))

Persistent(c, op, compute, Checks(_), synced) ==
  LET Again == <<[op EXCEPT !.do = "begin"]>> \o If(compute, IMB_cpu_exploit(0)) \o Wait1
  IN IMB_do_n_barriers(c, N_BARR)
       \o <<[op EXCEPT !.do = "init"]>>
       \o Loop(c.n, LAMBDA i : Again \o Checks(i) \o If(synced, IMB_do_n_barriers(c, c.sync)))
       \o <<[do |-> "free"]>>

NoChecks(i) == <<>>

(***************************************************************************)
(* The root moves by root_shift in each iteration.                         *)
(***************************************************************************)
Root(c, i) == (i * c.shift) % c.np

Chk(buf, at, buf_pos, Locsize, Totalsize, unit, mode, source) ==
  <<[do |-> "check", buf |-> buf, at |-> at, buf_pos |-> buf_pos, Locsize |-> Locsize,
     Totalsize |-> Totalsize, unit |-> unit, mode |-> mode, source |-> source]>>

-----------------------------------------------------------------------------
(***************************************************************************)
(* Bcast.  The receive buffer is used with the offsets of the send buffer. *)
(***************************************************************************)
Bcast(c, r, i, root) ==
  Coll("Bcast", root,
       [p \in Ranks(c) |-> <<S(c, i), IF r = root /\ p # root THEN c.size ELSE 0>>],
       IF r = root THEN {} ELSE {Part({root}, S(c, i), c.size)})

BcastCheck(c, r, i, first) ==
  Chk(IF r = first THEN "s" ELSE "r", S(c, i), 0, c.size, c.size, 1, "put", Root(c, i))

IMB_bcast(c, r) ==
  Measured(c, LAMBDA i : Blocking(Bcast(c, r, i, Root(c, i))) \o BcastCheck(c, r, i, Root(c, i)))

IMB_ibcast_pure(c, r) == Measured(c, LAMBDA i : Blocking(Bcast(c, r, i, Root(c, i))))

IMB_ibcast(c, r) ==
  IMB_ibcast_pure(c, r) \o IMB_cpu_exploit(1)
    \o Measured(c, LAMBDA i : Overlapped(Bcast(c, r, i, Root(c, i)))
                                \o BcastCheck(c, r, i, Root(c, i)))

IMB_bcast_persist_pure(c, r) == Persistent(c, Bcast(c, r, 0, 0), FALSE, NoChecks, TRUE)

IMB_bcast_persist(c, r) ==
  IMB_bcast_persist_pure(c, r) \o IMB_cpu_exploit(1)
    \o Persistent(c, Bcast(c, r, 0, 0), TRUE, LAMBDA i : BcastCheck(c, r, i, 0), TRUE)

-----------------------------------------------------------------------------
Allgather(c, i) ==
  Coll("Allgather", 0, ToEach(c, S(c, i), c.size),
       {Part({p}, R(c, i) + p * c.size, c.size) : p \in Ranks(c)})

AllgatherCheck(c, i) == Chk("r", R(c, i), 0, 0, c.np * c.size, 1, "put", -2)

IMB_allgather(c, r) == Measured(c, LAMBDA i : Blocking(Allgather(c, i)) \o AllgatherCheck(c, i))

IMB_iallgather_pure(c, r) ==
  Measured(c, LAMBDA i : Blocking(Allgather(c, i)) \o AllgatherCheck(c, i))

IMB_iallgather(c, r) ==
  IMB_iallgather_pure(c, r) \o IMB_cpu_exploit(1)
    \o Measured(c, LAMBDA i : Overlapped(Allgather(c, i)) \o AllgatherCheck(c, i))

IMB_allgather_persist_pure(c, r) == Persistent(c, Allgather(c, 0), FALSE, NoChecks, TRUE)

IMB_allgather_persist(c, r) ==
  IMB_allgather_persist_pure(c, r) \o IMB_cpu_exploit(1)
    \o Persistent(c, Allgather(c, 0), TRUE, NoChecks, TRUE)

(***************************************************************************)
(* The counts and displacements of the v-forms are set by the blocking and *)
(* the _pure kernels, the others use those that are there.  The loop over  *)
(* the counts of a persistent _pure kernel leaves i = num_procs, the       *)
(* iteration whose places the operation is then initialised with.          *)
(***************************************************************************)
Rdispl(c, p) == p * c.size

Allgatherv(c, i) ==
  Coll("Allgatherv", 0, ToEach(c, S(c, i), c.size),
       {Part({p}, R(c, i) + Rdispl(c, p), c.size) : p \in Ranks(c)})

IMB_allgatherv(c, r) == Measured(c, LAMBDA i : Blocking(Allgatherv(c, i)) \o AllgatherCheck(c, i))

IMB_iallgatherv_pure(c, r) ==
  Measured(c, LAMBDA i : Blocking(Allgatherv(c, i)) \o AllgatherCheck(c, i))

IMB_iallgatherv(c, r) ==
  IMB_iallgatherv_pure(c, r) \o IMB_cpu_exploit(1)
    \o Measured(c, LAMBDA i : Overlapped(Allgatherv(c, i)) \o AllgatherCheck(c, i))

IMB_allgatherv_persist_pure(c, r) == Persistent(c, Allgatherv(c, c.np), FALSE, NoChecks, TRUE)

IMB_allgatherv_persist(c, r) ==
  IMB_allgatherv_persist_pure(c, r) \o IMB_cpu_exploit(1)
    \o Persistent(c, Allgatherv(c, 0), TRUE, NoChecks, TRUE)

-----------------------------------------------------------------------------
Alltoall(c, i, what) ==
  Coll(what, 0, [p \in Ranks(c) |-> <<S(c, i) + p * c.size, c.size>>],
       {Part({p}, R(c, i) + p * c.size, c.size) : p \in Ranks(c)})

AlltoallCheck(c, r, i) == Chk("r", R(c, i), r * c.size, 0, c.np * c.size, 1, "put", -2)

IMB_alltoall(c, r) ==
  Measured(c, LAMBDA i : Blocking(Alltoall(c, i, "Alltoall")) \o AlltoallCheck(c, r, i))

IMB_ialltoall_pure(c, r) ==
  Measured(c, LAMBDA i : Blocking(Alltoall(c, i, "Alltoall")) \o AlltoallCheck(c, r, i))

IMB_ialltoall(c, r) ==
  IMB_ialltoall_pure(c, r) \o IMB_cpu_exploit(1)
    \o Measured(c, LAMBDA i : Overlapped(Alltoall(c, i, "Alltoall")) \o AlltoallCheck(c, r, i))

IMB_alltoall_persist_pure(c, r) ==
  Persistent(c, Alltoall(c, 0, "Alltoall"), FALSE, NoChecks, TRUE)

IMB_alltoall_persist(c, r) ==
  IMB_alltoall_persist_pure(c, r) \o IMB_cpu_exploit(1)
    \o Persistent(c, Alltoall(c, 0, "Alltoall"), TRUE, NoChecks, TRUE)

IMB_alltoallv(c, r) ==
  Measured(c, LAMBDA i : Blocking(Alltoall(c, i, "Alltoallv")) \o AlltoallCheck(c, r, i))

IMB_ialltoallv_pure(c, r) ==
  Measured(c, LAMBDA i : Blocking(Alltoall(c, i, "Alltoallv")) \o AlltoallCheck(c, r, i))

IMB_ialltoallv(c, r) ==
  IMB_ialltoallv_pure(c, r) \o IMB_cpu_exploit(1)
    \o Measured(c, LAMBDA i : Overlapped(Alltoall(c, i, "Alltoallv")) \o AlltoallCheck(c, r, i))

IMB_alltoallv_persist_pure(c, r) ==
  Persistent(c, Alltoall(c, c.np, "Alltoallv"), FALSE, NoChecks, TRUE)

IMB_alltoallv_persist(c, r) ==
  IMB_alltoallv_persist_pure(c, r) \o IMB_cpu_exploit(1)
    \o Persistent(c, Alltoall(c, 0, "Alltoallv"), TRUE, NoChecks, TRUE)

-----------------------------------------------------------------------------
(***************************************************************************)
(* Gather and Scatter: what goes to the root, or comes from it, takes as   *)
(* many bytes of every other rank.                                         *)
(***************************************************************************)
Gather(c, r, i, root, what) ==
  Coll(what, root,
       [p \in Ranks(c) |-> <<S(c, i), IF p = root THEN c.size ELSE 0>>],
       IF r = root THEN {Part({p}, R(c, i) + p * c.size, c.size) : p \in Ranks(c)} ELSE {})

GatherCheck(c, r, i) ==
  If(r = Root(c, i), Chk("r", R(c, i), 0, 0, c.np * c.size, 1, "put", -2))

IMB_gather(c, r) ==
  Measured(c, LAMBDA i : Blocking(Gather(c, r, i, Root(c, i), "Gather")) \o GatherCheck(c, r, i))

IMB_igather_pure(c, r) ==
  Measured(c, LAMBDA i : Blocking(Gather(c, r, i, Root(c, i), "Gather")) \o GatherCheck(c, r, i))

IMB_igather(c, r) ==
  IMB_igather_pure(c, r) \o IMB_cpu_exploit(1)
    \o Measured(c, LAMBDA i : Overlapped(Gather(c, r, i, Root(c, i), "Gather"))
                                \o GatherCheck(c, r, i))

IMB_gather_persist_pure(c, r) ==
  Persistent(c, Gather(c, r, 0, 0, "Gather"), FALSE, NoChecks, TRUE)

IMB_gather_persist(c, r) ==
  IMB_gather_persist_pure(c, r) \o IMB_cpu_exploit(1)
    \o Persistent(c, Gather(c, r, 0, 0, "Gather"), TRUE, NoChecks, TRUE)

IMB_gatherv(c, r) ==
  Measured(c, LAMBDA i : Blocking(Gather(c, r, i, Root(c, i), "Gatherv")) \o GatherCheck(c, r, i))

IMB_igatherv_pure(c, r) ==
  Measured(c, LAMBDA i : Blocking(Gather(c, r, i, Root(c, i), "Gatherv")) \o GatherCheck(c, r, i))

IMB_igatherv(c, r) ==
  IMB_igatherv_pure(c, r) \o IMB_cpu_exploit(1)
    \o Measured(c, LAMBDA i : Overlapped(Gather(c, r, i, Root(c, i), "Gatherv"))
                                \o GatherCheck(c, r, i))

IMB_gatherv_persist_pure(c, r) ==
  Persistent(c, Gather(c, r, c.np, 0, "Gatherv"), FALSE, NoChecks, TRUE)

IMB_gatherv_persist(c, r) ==
  IMB_gatherv_persist_pure(c, r) \o IMB_cpu_exploit(1)
    \o Persistent(c, Gather(c, r, 0, 0, "Gatherv"), TRUE, NoChecks, TRUE)

Scatter(c, r, i, root, what) ==
  Coll(what, root,
       [p \in Ranks(c) |-> <<S(c, i) + p * c.size, IF r = root THEN c.size ELSE 0>>],
       {Part({root}, R(c, i), c.size)})

ScatterCheck(c, r, i) == Chk("r", R(c, i), c.size * r, c.size, c.size, 1, "put", Root(c, i))

IMB_scatter(c, r) ==
  Measured(c, LAMBDA i : Blocking(Scatter(c, r, i, Root(c, i), "Scatter")) \o ScatterCheck(c, r, i))

IMB_iscatter_pure(c, r) ==
  Measured(c, LAMBDA i : Blocking(Scatter(c, r, i, Root(c, i), "Scatter")) \o ScatterCheck(c, r, i))

IMB_iscatter(c, r) ==
  IMB_iscatter_pure(c, r) \o IMB_cpu_exploit(1)
    \o Measured(c, LAMBDA i : Overlapped(Scatter(c, r, i, Root(c, i), "Scatter"))
                                \o ScatterCheck(c, r, i))

IMB_scatter_persist_pure(c, r) ==
  Persistent(c, Scatter(c, r, 0, 0, "Scatter"), FALSE, NoChecks, TRUE)

IMB_scatter_persist(c, r) ==
  IMB_scatter_persist_pure(c, r) \o IMB_cpu_exploit(1)
    \o Persistent(c, Scatter(c, r, 0, 0, "Scatter"), TRUE, NoChecks, TRUE)

IMB_scatterv(c, r) ==
  Measured(c, LAMBDA i : Blocking(Scatter(c, r, i, Root(c, i), "Scatterv"))
                           \o ScatterCheck(c, r, i))

IMB_iscatterv_pure(c, r) ==
  Measured(c, LAMBDA i : Blocking(Scatter(c, r, i, Root(c, i), "Scatterv"))
                           \o ScatterCheck(c, r, i))

IMB_iscatterv(c, r) ==
  IMB_iscatterv_pure(c, r) \o IMB_cpu_exploit(1)
    \o Measured(c, LAMBDA i : Overlapped(Scatter(c, r, i, Root(c, i), "Scatterv"))
                                \o ScatterCheck(c, r, i))

IMB_scatterv_persist_pure(c, r) ==
  Persistent(c, Scatter(c, r, c.np, 0, "Scatterv"), FALSE, NoChecks, TRUE)

IMB_scatterv_persist(c, r) ==
  IMB_scatterv_persist_pure(c, r) \o IMB_cpu_exploit(1)
    \o Persistent(c, Scatter(c, r, 0, 0, "Scatterv"), TRUE, NoChecks, TRUE)

-----------------------------------------------------------------------------
(***************************************************************************)
(* Reductions take whole elements.                                         *)
(***************************************************************************)
Elements(c) == (c.size \div asize) * asize

Reduce(c, r, i, root) ==
  Coll("Reduce", root,
       [p \in Ranks(c) |-> <<S(c, i), IF p = root THEN Elements(c) ELSE 0>>],
       IF r = root THEN {Part(Ranks(c), R(c, i), Elements(c))} ELSE {})

ReduceCheck(c, r, i, root) ==
  If(r = root, Chk("r", R(c, i), 0, c.size, c.size, asize, "put", -1))

IMB_reduce(c, r) ==
  Measured(c, LAMBDA i : Blocking(Reduce(c, r, i, Root(c, i))) \o ReduceCheck(c, r, i, Root(c, i)))

IMB_ireduce_pure(c, r) ==
  Measured(c, LAMBDA i : Blocking(Reduce(c, r, i, Root(c, i))) \o ReduceCheck(c, r, i, Root(c, i)))

(***************************************************************************)
(* The root of IMB_ireduce moves with i, whatever root_shift is.           *)
(***************************************************************************)
IMB_ireduce(c, r) ==
  IMB_ireduce_pure(c, r) \o IMB_cpu_exploit(1)
    \o Measured(c, LAMBDA i : Overlapped(Reduce(c, r, i, i % c.np))
                                \o ReduceCheck(c, r, i, i % c.np))

IMB_reduce_persist_pure(c, r) == Persistent(c, Reduce(c, r, 0, 0), FALSE, NoChecks, TRUE)

IMB_reduce_persist(c, r) ==
  IMB_reduce_persist_pure(c, r) \o IMB_cpu_exploit(1)
    \o Persistent(c, Reduce(c, r, 0, 0), TRUE, NoChecks, TRUE)

Allreduce(c, i) ==
  Coll("Allreduce", 0, ToEach(c, S(c, i), Elements(c)), {Part(Ranks(c), R(c, i), Elements(c))})

AllreduceCheck(c, i) == Chk("r", R(c, i), 0, c.size, c.size, asize, "put", -1)

IMB_allreduce(c, r) == Measured(c, LAMBDA i : Blocking(Allreduce(c, i)) \o AllreduceCheck(c, i))

IMB_iallreduce_pure(c, r) ==
  Measured(c, LAMBDA i : Blocking(Allreduce(c, i)) \o AllreduceCheck(c, i))

IMB_iallreduce(c, r) ==
  IMB_iallreduce_pure(c, r) \o IMB_cpu_exploit(1)
    \o Measured(c, LAMBDA i : Overlapped(Allreduce(c, i)) \o AllreduceCheck(c, i))

IMB_allreduce_persist_pure(c, r) == Persistent(c, Allreduce(c, 0), FALSE, NoChecks, TRUE)

IMB_allreduce_persist(c, r) ==
  IMB_allreduce_persist_pure(c, r) \o IMB_cpu_exploit(1)
    \o Persistent(c, Allreduce(c, 0), TRUE, NoChecks, TRUE)

(***************************************************************************)
(* The local reduction is of the own buffers, without communication.       *)
(***************************************************************************)
IMB_reduce_local(c, r) ==
  Measured(c, LAMBDA i : <<[do |-> "local", at |-> S(c, i), to |-> R(c, i), n |-> Elements(c)]>>
                           \o Chk("r", R(c, i), 0, c.size, c.size, asize, "local", -1))

(***************************************************************************)
(* Every rank is to receive its part of the sums of all ranks: as many     *)
(* elements as a message has, so that np times as many are sent.  Both     *)
(* persistent kernels loop over the counts and leave i = num_procs.        *)
(***************************************************************************)
ReduceScatter(c, r, i, what) ==
  Coll(what, 0, [p \in Ranks(c) |-> <<S(c, i) + p * Elements(c), Elements(c)>>],
       {Part(Ranks(c), R(c, i), Elements(c))})

ReduceScatterCheck(c, i, pos) == Chk("r", R(c, i), pos, Elements(c), c.size, asize, "put", -1)

IMB_reduce_scatter(c, r) ==
  Measured(c, LAMBDA i : Blocking(ReduceScatter(c, r, i, "Reduce_scatter"))
                           \o ReduceScatterCheck(c, i, Elements(c) * r))

IMB_ireduce_scatter_pure(c, r) ==
  Measured(c, LAMBDA i : Blocking(ReduceScatter(c, r, i, "Reduce_scatter"))
                           \o ReduceScatterCheck(c, i, 0))

IMB_ireduce_scatter(c, r) ==
  IMB_ireduce_scatter_pure(c, r) \o IMB_cpu_exploit(1)
    \o Measured(c, LAMBDA i : Overlapped(ReduceScatter(c, r, i, "Reduce_scatter"))
                                \o ReduceScatterCheck(c, i, 0))

IMB_reduce_scatter_persist_pure(c, r) ==
  Persistent(c, ReduceScatter(c, r, c.np, "Reduce_scatter"), FALSE, NoChecks, TRUE)

IMB_reduce_scatter_persist(c, r) ==
  IMB_reduce_scatter_persist_pure(c, r) \o IMB_cpu_exploit(1)
    \o Persistent(c, ReduceScatter(c, r, c.np, "Reduce_scatter"), TRUE, NoChecks, TRUE)

IMB_reduce_scatter_block(c, r) ==
  Measured(c, LAMBDA i : Blocking(ReduceScatter(c, r, i, "Reduce_scatter_block"))
                           \o ReduceScatterCheck(c, i, Elements(c) * r))

-----------------------------------------------------------------------------
BarrierOp(c) == Coll("Barrier", 0, ToEach(c, 0, 0), {Part(Ranks(c), 0, 0)})

Unsynced(c, Body(_)) == IMB_do_n_barriers(c, N_BARR) \o Loop(c.n, Body)

IMB_barrier(c, r) == Unsynced(c, LAMBDA i : Blocking(BarrierOp(c)))

IMB_ibarrier_pure(c, r) == Unsynced(c, LAMBDA i : Blocking(BarrierOp(c)))

IMB_ibarrier(c, r) ==
  IMB_ibarrier_pure(c, r) \o IMB_cpu_exploit(1)
    \o Unsynced(c, LAMBDA i : Overlapped(BarrierOp(c)))

IMB_barrier_persist_pure(c, r) == Persistent(c, BarrierOp(c), FALSE, NoChecks, FALSE)

IMB_barrier_persist(c, r) ==
  IMB_barrier_persist_pure(c, r) \o IMB_cpu_exploit(1)
    \o Persistent(c, BarrierOp(c), TRUE, NoChecks, FALSE)
=============================================================================
