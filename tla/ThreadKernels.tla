---------------------------- MODULE ThreadKernels ----------------------------
(***************************************************************************)
(* The collective benchmarks of IMB-MT: what one thread of each process    *)
(* does in a run of one size, in the communicator of these threads.  The   *)
(* threads of a process meet in bfn, see MTBarrier.                        *)
(*                                                                         *)
(* Of the call c they use                                                  *)
(*   n, warmup   repeat, warmup             sync    1 unless -barrier off  *)
(*   check       -check                     largest the longest message    *)
(***************************************************************************)
EXTENDS CollKernels

MT_BARRIERS == 5

(***************************************************************************)
(* The input and the output buffer of a thread, as long as the longest     *)
(* message.                                                                *)
(***************************************************************************)
MtBuffers(c) ==
  [s |-> [i \in 0 .. c.largest - 1 |-> Zero], r |-> [i \in 0 .. c.largest - 1 |-> Zero]]

(***************************************************************************)
(* What an array is set to, or should hold: the sum of the values of ranks *)
(* (element i of a rank's is (rank + 1) * i), or -1.                       *)
(***************************************************************************)
ValuesOf(c, ranks) == [i \in 1 .. Elements(c) |-> Cell(ranks, i - 1)]
MinusOnes(c) == [i \in 1 .. Elements(c) |-> Junk]

INIT_ARRAY(c, cond, arr, val) ==
  If(c.check /\ cond, <<[do |-> "init_array", buf |-> arr, cells |-> val]>>)

CHECK_ARRAY(c, cond, arr, val) ==
  If(c.check /\ cond, <<[do |-> "check_array", buf |-> arr, cells |-> val]>>)

(***************************************************************************)
(* Every iteration, measured or not, ends with barriers.                   *)
(***************************************************************************)
MT_CYCLE(c, op) ==
  Loop(c.n + c.warmup, LAMBDA i : Blocking(op) \o IMB_do_n_barriers(c, MT_BARRIERS * c.sync))

MT_CYCLE_NOBARRIER(c, op) == Loop(c.n + c.warmup, LAMBDA i : Blocking(op))

-----------------------------------------------------------------------------
mt_barrier(c, r) == MT_CYCLE_NOBARRIER(c, BarrierOp(c))

mt_bcast(c, r) ==
  INIT_ARRAY(c, r = 0, "s", ValuesOf(c, {0}))
    \o INIT_ARRAY(c, r # 0, "r", MinusOnes(c))
    \o MT_CYCLE(c, Bcast(c, r, 0, 0))
    \o CHECK_ARRAY(c, r # 0, "r", ValuesOf(c, {0}))

mt_reduce(c, r) ==
  INIT_ARRAY(c, TRUE, "s", ValuesOf(c, {r})) \o INIT_ARRAY(c, TRUE, "r", MinusOnes(c))
    \o MT_CYCLE(c, Reduce(c, r, 0, 0))
    \o CHECK_ARRAY(c, r = 0, "r", ValuesOf(c, Ranks(c)))

mt_allreduce(c, r) ==
  INIT_ARRAY(c, TRUE, "s", ValuesOf(c, {r})) \o INIT_ARRAY(c, TRUE, "r", MinusOnes(c))
    \o MT_CYCLE(c, Allreduce(c, 0))
    \o CHECK_ARRAY(c, TRUE, "r", ValuesOf(c, Ranks(c)))

(***************************************************************************)
(* The times and the number of results of all ranks, by thread 0.          *)
(***************************************************************************)
MergeTimes(c) ==
  Loop(4, LAMBDA i : Blocking(Coll("Allreduce", 0, ToEach(c, 0, 0), {Part(Ranks(c), 0, 0)})))

run_instance(c, kernel) == If(c.n > 0, kernel)

run(c, kernel) == run_instance(c, kernel) \o MergeTimes(c)
==============================================================================
