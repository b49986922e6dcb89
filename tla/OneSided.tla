------------------------------- MODULE OneSided -------------------------------
(***************************************************************************)
(* The one-sided benchmarks: what rank r does in one call of a kernel, with*)
(* fences (EXT) or with locks and flushes (RMA), and around it when the    *)
(* window is created and freed.                                            *)
(*                                                                         *)
(* They use the run mode of the call c (see Descriptions), and             *)
(*   check   whether the program is built with CHECK                       *)
(***************************************************************************)
EXTENDS CollKernels

pair0(c) == 0
pair1(c) == c.np - 1

MPI_Barrier(c) == IMB_do_n_barriers(c, 1)

(***************************************************************************)
(* An access of n bytes: from or to place at of a buffer of the origin, at *)
(* displacement to of the target's window; result and comp are places in   *)
(* the origin's receive buffer.                                            *)
(***************************************************************************)
AccessOf(do, target, at, to, n, result, comp) ==
  <<[do |-> do, target |-> target, at |-> at, to |-> to, n |-> n, result |-> result,
     comp |-> comp]>>

Put(at, target, to, n) == AccessOf("put", target, at, to, n, 0, 0)
Get(result, target, to, n) == AccessOf("get", target, 0, to, n, result, 0)

Sync(do, targets) == <<[do |-> do, targets |-> targets]>>

Fence(precede, succeed) ==
  <<[do |-> "fence", precede |-> precede], [do |-> "fenced", succeed |-> succeed]>>

(***************************************************************************)
(* Accesses completed one by one, or all together.                         *)
(***************************************************************************)
Accesses(c, Acc(_), complete) ==
  IF c.agg THEN Loop(c.n, Acc) \o complete ELSE Loop(c.n, LAMBDA i : Acc(i) \o complete)

ITER_MIN(c) == Least(c.n, Cache_iter(c, R_len(c)))

Received1(c, i, at, pos, source) ==
  If(c.check, Chk("r", R(c, i) + at, pos, c.size, c.size, asize, "put", source))

-----------------------------------------------------------------------------
(***************************************************************************)
(* The window gives access to the receive buffer ("put") or to the send    *)
(* buffer ("get"), in units of a byte or of an element, and is as long as  *)
(* the longer of the two (acc_size); or it is the kernel's own ("no").     *)
(***************************************************************************)
WindowBuffer(c) == IF c.access = "get" THEN "s" ELSE "r"
WindowSize(c) == IF c.access = "no" THEN c.size ELSE Most(S_alloc(c), R_alloc(c))
WindowUnit(c) == IF c.access # "no" /\ c.reduction THEN asize ELSE 1

WinCreate(c) == Blocking(Coll("Win_create", 0, ToEach(c, 0, 0), {Part(Ranks(c), 0, 0)}))
                  \o <<[do |-> "window", open |-> TRUE]>>
WinFree(c) == Blocking(Coll("Win_free", 0, ToEach(c, 0, 0), {Part(Ranks(c), 0, 0)}))
                \o <<[do |-> "window", open |-> FALSE]>>

IMB_init_transfer(c) ==
  If(c.access # "no", WinCreate(c) \o If(c.suite = "EXT", Fence(TRUE, TRUE)))

IMB_close_transferPut(c) == If(c.access = "put", WinFree(c))       \* mutant: some windows kept

IMB_close_transfer(c) == If(c.access # "no", WinFree(c))

-----------------------------------------------------------------------------
(***************************************************************************)
(* RMA, one pair: pair0 alone, or both at a time.                          *)
(***************************************************************************)
Other(c, r) == IF r = pair0(c) THEN pair1(c) ELSE pair0(c)
Active(c, r) == r = pair0(c) \/ c.bidir

Locked(targets, ops) == Sync("lock", targets) \o ops \o Sync("unlock", targets)

IMB_rma_single_putEarly(c, r) ==         \* mutant: checked without a barrier before
  LET target == Other(c, r)
      PutNext(i) == Put(S(c, i), target, R(c, i), c.size)
  IN IMB_do_n_barriers(c, N_BARR)
       \o If(Active(c, r), Locked({target}, Accesses(c, PutNext, Sync("flush", {target}))))
       \o If(~ Active(c, r) \/ c.bidir,
             Loop(ITER_MIN(c), LAMBDA i : Received1(c, i, 0, 0, target)))

IMB_rma_single_put(c, r) ==
  LET target == Other(c, r)
      PutNext(i) == Put(S(c, i), target, R(c, i), c.size)
  IN IMB_do_n_barriers(c, N_BARR)
       \o If(Active(c, r), Locked({target}, Accesses(c, PutNext, Sync("flush", {target}))))
       \o MPI_Barrier(c)
       \o If(~ Active(c, r) \/ c.bidir,
             Loop(ITER_MIN(c), LAMBDA i : Received1(c, i, 0, 0, target)))

IMB_rma_single_get(c, r) ==
  LET target == Other(c, r)
      GetNext(i) == Get(R(c, i), target, S(c, i), c.size)
  IN IMB_do_n_barriers(c, N_BARR)
       \o If(Active(c, r), Locked({target}, Accesses(c, GetNext, Sync("flush", {target}))))
       \o MPI_Barrier(c)
       \o If(Active(c, r) \/ c.bidir,
             Loop(ITER_MIN(c), LAMBDA i : Received1(c, i, 0, 0, target)))

IMB_rma_put_localAlone(c, r) ==          \* mutant: the target is not waited for
  LET target == pair1(c)
      PutNext(i) == Put(S(c, i), target, R(c, i), c.size)
  IN IMB_do_n_barriers(c, N_BARR)
       \o If(r = pair0(c), Locked({target}, Accesses(c, PutNext, Sync("flush_local", {target})))
                             \o MPI_Barrier(c))

IMB_rma_put_local(c, r) ==
  LET target == pair1(c)
      PutNext(i) == Put(S(c, i), target, R(c, i), c.size)
  IN IMB_do_n_barriers(c, N_BARR)
       \o If(r = pair0(c), Locked({target}, Accesses(c, PutNext, Sync("flush_local", {target}))))
       \o MPI_Barrier(c)

IMB_rma_get_local(c, r) ==
  LET target == pair1(c)
      GetNext(i) == Get(R(c, i), target, S(c, i), c.size)
  IN IMB_do_n_barriers(c, N_BARR)
       \o If(r = pair0(c), Locked({target}, Accesses(c, GetNext, Sync("flush_local", {target}))))
       \o MPI_Barrier(c)
       \o If(r = pair0(c), Loop(ITER_MIN(c), LAMBDA i : Received1(c, i, 0, 0, target)))

(***************************************************************************)
(* RMA, one rank or every rank with all others, starting with the next.    *)
(***************************************************************************)
Everyone(c) == c.type = "COLLECTIVE"

ToOthers(c, r, Acc(_, _)) ==
  Loop(c.n, LAMBDA i : Loop(c.np, LAMBDA peer :
    If((peer + r) % c.np # r, Acc(i, (peer + r) % c.np))))

WithAll(c, r, active, Acc(_, _), flush) ==
  IMB_do_n_barriers(c, N_BARR)
    \o If(active, Locked(Ranks(c), ToOthers(c, r, Acc) \o Sync(flush, Ranks(c))))
    \o MPI_Barrier(c)

IMB_rma_put_all(c, r) ==
  WithAll(c, r, r = 0 \/ Everyone(c),
          LAMBDA i, target : Put(S(c, i), target, R(c, i), c.size), "flush")

IMB_rma_get_all(c, r) ==
  WithAll(c, r, r = 0 \/ Everyone(c),
          LAMBDA i, target : Get(R(c, i), target, S(c, i), c.size), "flush")

IMB_rma_put_all_local(c, r) ==
  WithAll(c, r, r = 0, LAMBDA i, target : Put(S(c, i), target, R(c, i), c.size), "flush_local")

IMB_rma_get_all_local(c, r) ==
  WithAll(c, r, r = 0, LAMBDA i, target : Get(R(c, i), target, S(c, i), c.size), "flush_local")

(***************************************************************************)
(* RMA, exchange with both neighbours, who may be the same.                *)
(***************************************************************************)
LeftNoWrap(c, r) == r - 1                \* mutant: rank 0 has no left neighbour

Left(c, r) == IF r = 0 THEN c.np - 1 ELSE r - 1
Right(c, r) == (r + 1) % c.np

ExchangeOneSided(c, r, Acc(_)) ==
  LET left == Left(c, r)
      right == Right(c, r)
      Both(do) == IF left # right THEN Sync(do, {left}) \o Sync(do, {right}) ELSE Sync(do, {left})
  IN IMB_do_n_barriers(c, N_BARR)
       \o Both("lock") \o Loop(c.n, LAMBDA i : Acc(i) \o Both("flush")) \o Both("unlock")
       \o MPI_Barrier(c)
       \o Loop(ITER_MIN(c), LAMBDA i : Received1(c, i, c.size, c.size, left)
                                         \o Received1(c, i, 0, 0, right))

IMB_rma_exchange_put(c, r) ==
  ExchangeOneSided(c, r, LAMBDA i : Put(S(c, i), Left(c, r), R(c, i), c.size)
                     \o Put(S(c, i) + c.size, Right(c, r), R(c, i) + c.size, c.size))

IMB_rma_exchange_get(c, r) ==
  ExchangeOneSided(c, r, LAMBDA i : Get(R(c, i), Right(c, r), S(c, i), c.size)
                     \o Get(R(c, i) + c.size, Left(c, r), S(c, i) + c.size, c.size))

(***************************************************************************)
(* RMA, puts to a rank that waits in barriers, then computes in between.   *)
(***************************************************************************)
IMB_put_target(c, compute) ==
  Loop(c.n, LAMBDA i : If(compute, IMB_cpu_exploit(0)) \o MPI_Barrier(c))

IMB_put_origin(c, dst) ==
  Loop(c.n, LAMBDA i : Put(S(c, i), dst, R(c, i), c.size) \o Sync("flush", {dst}) \o MPI_Barrier(c))

IMB_rma_passive_put(c, r) ==
  LET dst == pair1(c)
      Message(do, peer) == <<[do |-> do, peer |-> peer]>>
  IN MPI_Barrier(c)
       \o If(r = pair0(c),
             Locked({dst}, IMB_put_origin(c, dst) \o Message("send", dst) \o MPI_Barrier(c)
                             \o IMB_put_origin(c, dst)))
       \o If(r = pair1(c),
             IMB_put_target(c, FALSE) \o Message("recv", pair0(c)) \o IMB_cpu_exploit(1)
               \o MPI_Barrier(c) \o IMB_put_target(c, TRUE))

(***************************************************************************)
(* RMA, atomic operations of pair0 on the window of pair1, whose unit is an*)
(* element.  A swap is of one element, in units of a byte.                 *)
(***************************************************************************)
Slot(c, i) == (i % Cache_iter(c, R_len(c))) * (Offs(c, R_len(c)) \div asize)

Atomic(c, r, Acc(_)) ==
  IMB_do_n_barriers(c, N_BARR)
    \o If(r = pair0(c), Locked({pair1(c)}, Accesses(c, Acc, Sync("flush", {pair1(c)}))))
    \o MPI_Barrier(c)

IMB_rma_accumulate(c, r) ==
  Atomic(c, r, LAMBDA i :
    AccessOf("accumulate", pair1(c), S(c, i), Slot(c, i), Elements(c), 0, 0))

IMB_rma_get_accumulate(c, r) ==
  Atomic(c, r, LAMBDA i :
    AccessOf("get_accumulate", pair1(c), S(c, i), Slot(c, i), Elements(c), R(c, i), 0))

IMB_rma_fetch_and_op(c, r) ==
  Atomic(c, r, LAMBDA i :
    AccessOf("get_accumulate", pair1(c), S(c, i), Slot(c, i), asize, R(c, i), 0))

IMB_rma_compare_and_swap(c, r) ==
  LET From(i) == IF c.agg THEN R(c, i) ELSE S(c, i)
  IN Atomic(c, r, LAMBDA i :
       AccessOf("swap", pair1(c), From(i) + 2 * asize, R(c, i), asize, R(c, i), From(i) + asize))

-----------------------------------------------------------------------------
(***************************************************************************)
(* EXT: the sender of a get, or the receiver of a put, only fences.        *)
(***************************************************************************)
IMB_ones_get(c, dest, sender) ==
  IMB_do_n_barriers(c, N_BARR)
    \o Loop(c.n, LAMBDA i :
         If(~ sender, Get(R(c, i), dest, S(c, i), c.size))
           \o Fence(TRUE, TRUE)
           \o If(~ sender, Received1(c, i, 0, 0, dest)))

IMB_ones_mget(c, dest, sender) ==
  Fence(TRUE, TRUE) \o IMB_do_n_barriers(c, N_BARR)
    \o If(~ sender, Loop(c.n, LAMBDA i : Get(R(c, i), dest, S(c, i), c.size)))
    \o Fence(TRUE, TRUE)
    \o If(~ sender, Loop(c.n, LAMBDA i : Received1(c, i, 0, 0, dest)))

IMB_ones_put(c, dest, sender) ==
  IMB_do_n_barriers(c, N_BARR)
    \o Loop(c.n, LAMBDA i :
         If(sender, Put(S(c, i), dest, R(c, i), c.size))
           \o Fence(TRUE, TRUE)
           \o If(~ sender, Received1(c, i, 0, 0, dest)))

IMB_ones_mput(c, dest, sender) ==
  Fence(TRUE, TRUE) \o IMB_do_n_barriers(c, N_BARR)
    \o If(sender, Loop(c.n, LAMBDA i : Put(S(c, i), dest, R(c, i), c.size)))
    \o Fence(TRUE, TRUE)
    \o If(~ sender, Loop(c.n, LAMBDA i : Received1(c, i, 0, 0, dest)))

IMB_unidir_put(c, r) ==
  IF c.agg THEN IMB_ones_mput(c, Other(c, r), r = pair0(c))
           ELSE IMB_ones_put(c, Other(c, r), r = pair0(c))

IMB_unidir_get(c, r) ==
  IF c.agg THEN IMB_ones_mget(c, Other(c, r), r = pair0(c))
           ELSE IMB_ones_get(c, Other(c, r), r = pair0(c))

IMB_bidir_get(c, r) ==
  IF c.agg THEN IMB_ones_mget(c, Other(c, r), FALSE) ELSE IMB_ones_get(c, Other(c, r), FALSE)

IMB_bidir_put(c, r) ==
  IF c.agg THEN IMB_ones_mput(c, Other(c, r), TRUE) ELSE IMB_ones_put(c, Other(c, r), TRUE)

(***************************************************************************)
(* EXT: every rank adds to the window of rank 0, which for a check clears  *)
(* its buffer before and after.  With AGGREGATE there are as many messages *)
(* as places in the buffer.                                                *)
(***************************************************************************)
Cleared(c, at) ==
  <<[do |-> "clear", at |-> at, n |-> (Most(c.size - 1, 0) \div asize + 1) * asize]>>

Accumulate(c, i) == AccessOf("accumulate", 0, S(c, i), Slot(c, i), Elements(c), 0, 0)

RootChecks(c, r, i) ==
  If(r = 0, Chk("r", R(c, i), 0, c.size, c.size, asize, "put", -1) \o Cleared(c, R(c, i)))

AccumulateEach(c, r) ==
  Loop(c.n, LAMBDA i :
    If(c.check, If(r = 0, Cleared(c, R(c, i))) \o MPI_Barrier(c))
      \o Fence(FALSE, TRUE) \o Accumulate(c, i) \o Fence(TRUE, FALSE)
      \o If(c.check, RootChecks(c, r, i) \o MPI_Barrier(c)))

AccumulateAll(c, r) ==
  LET places == Cache_iter(c, R_len(c))
      messages == IF c.check THEN places ELSE c.n
  IN IMB_do_n_barriers(c, N_BARR)
       \o If(c.check,
             If(r = 0, Loop(places, LAMBDA k : Cleared(c, R(c, k)))) \o MPI_Barrier(c))
       \o Fence(FALSE, TRUE) \o Loop(messages, LAMBDA i : Accumulate(c, i)) \o Fence(TRUE, FALSE)
       \o If(c.check, Loop(messages, LAMBDA i : RootChecks(c, r, i)))

IMB_accumulate(c, r) == IF c.agg THEN AccumulateAll(c, r) ELSE AccumulateEach(c, r)

(***************************************************************************)
(* EXT: create a window, put a byte into one's own, free the window.       *)
(***************************************************************************)
IMB_window(c, r) ==
  IMB_do_n_barriers(c, N_BARR)
    \o Loop(c.n, LAMBDA i :
         WinCreate(c) \o Fence(TRUE, TRUE) \o If(c.size > 0, Put(0, r, 0, 1))
           \o Fence(TRUE, TRUE) \o WinFree(c))
=============================================================================
