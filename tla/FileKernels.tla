----------------------------- MODULE FileKernels -----------------------------
(***************************************************************************)
(* The IMB-IO benchmarks: what rank r does in one call of a kernel, and    *)
(* before and after it, when the file is created, opened and closed.       *)
(*                                                                         *)
(* Of the call x they use, besides its run mode (see Descriptions),        *)
(*   largest   the longest message of the benchmark                        *)
(*   volume    ITERATIONS.overall_vol                                      *)
(*   check     whether the program is built with CHECK                     *)
(***************************************************************************)
EXTENDS Files, CollKernels

MSGSPERSAMPLE == 2                       \* 50 in the code

(***************************************************************************)
(* Barriers on File_comm, which for private files is of the rank alone.    *)
(***************************************************************************)
Barriers(x, n) == If(x.fpointer # priv, IMB_do_n_barriers(x, n))

(***************************************************************************)
(* An operation of MPI-IO that all ranks of the file call.                 *)
(***************************************************************************)
Together(x, what) == Coll(what, 0, ToEach(x, 0, 0), {})

IMB_open_file(x) ==
  If(x.fpointer # priv, Blocking(Together(x, "File_open"))) \o <<[do |-> "opened"]>>

MPI_File_close(x) ==
  If(x.fpointer # priv, Blocking(Together(x, "File_close"))) \o <<[do |-> "closed"]>>

SyncTogether(x) ==
  If(x.fpointer # priv, Blocking(Together(x, "File_sync"))) \o <<[do |-> "sync"]>>

-----------------------------------------------------------------------------
(***************************************************************************)
(* The file as it is before the first message: for all sizes of a benchmark*)
(* large enough, in the case of private files after rounding up.           *)
(***************************************************************************)
Total4(x) ==
  LET total == IF x.volume \div x.largest > MSGSPERSAMPLE THEN x.largest * MSGSPERSAMPLE
               ELSE Most(x.largest, x.volume)
      NP == all_io_procs(x)
  IN IF x.fpointer # priv THEN total
     ELSE Ceiling(total, NP) + (IF x.largest % NP # 0 THEN asize * MSGSPERSAMPLE ELSE 0)

(***************************************************************************)
(* The file is deleted by one rank while the others wait.  Before, it opens*)
(* and closes the file by itself so that there is one: nothing between the *)
(* barriers depends on that, and the deletion stands for all three.        *)
(***************************************************************************)
IMB_del_fileAlone(x, r) ==               \* mutant: not waited for the deletion
  Barriers(x, 1) \o If(File_rank(x, r) = 0, <<[do |-> "delete"]>>)

IMB_del_file(x, r) ==
  Barriers(x, 1) \o If(File_rank(x, r) = 0, <<[do |-> "delete"]>>) \o Barriers(x, 1)

IMB_init_file(x, r) ==
  If(x.access # "no" /\ File_rank(x, r) >= 0,
     IMB_del_file(x, r)
       \o If(File_rank(x, r) = 0,
             <<[do |-> "create", total |-> Total4(x), filled |-> x.access = "get"]>>))

(***************************************************************************)
(* IMB_init_transfer of IMB-IO: the buffers anew, with values of File_rank,*)
(* and the file is opened.                                                 *)
(***************************************************************************)
IMB_init_transfer_io(x, r) ==
  LET last == Most(Locsize(x, r) - 1, 0)
      buffers == IF x.access = "put" THEN <<0, last, 1, 0>> ELSE <<1, 0, 0, last>>
  IN If(x.access # "no" /\ File_rank(x, r) >= 0,
        <<[do |-> "set_buf", rank |-> File_rank(x, r), s1 |-> buffers[1], s2 |-> buffers[2],
           r1 |-> buffers[3], r2 |-> buffers[4]]>> \o IMB_open_file(x))

IMB_close_transfer_io(x, r) ==
  If(x.access # "no" /\ File_rank(x, r) >= 0, MPI_File_close(x))

-----------------------------------------------------------------------------
(***************************************************************************)
(* One access of the rank's part, the k-th at an explicit offset.          *)
(***************************************************************************)
One1(x, r, kind, pos, k) ==
  <<[do |-> kind, n |-> Locsize(x, r), offset |-> Offset(x, r) + k * Totalsize(x, r),
     by |-> IF pos = "shared" /\ x.type = "COLLECTIVE" THEN "ordered" ELSE pos]>>

ReadWait1(kind) == If(kind = "read", <<[do |-> "read_wait"]>>)

(***************************************************************************)
(* Blocking, or split in two to compute: one rank's, or all ranks' together*)
(***************************************************************************)
Access1(x, r, kind, pos, k, compute) ==
  LET inner == One1(x, r, kind, pos, k) \o If(compute, IMB_cpu_exploit(0)) \o ReadWait1(kind)
  IN IF x.type = "COLLECTIVE" THEN <<Together(x, kind)>> \o inner \o Wait1 ELSE inner

(***************************************************************************)
(* Written data is made visible, and in a program built with CHECK read    *)
(* again by one rank.                                                      *)
(***************************************************************************)
Visible(x) == SyncTogether(x) \o Barriers(x, 1) \o SyncTogether(x)

WriteCheck(x, r, pos, j1, j2, n_sample) ==
  If(x.check /\ Totalsize(x, r) > 0,
     Barriers(x, 1)
       \o If(File_rank(x, r) = 0,
             <<[do |-> "restore", j1 |-> j1, j2 |-> j2, Totalsize |-> Totalsize(x, r),
                n_sample |-> n_sample,
                source |-> IF pos = "shared" /\ x.type # "COLLECTIVE" THEN -3 ELSE -2]>>)
       \o Barriers(x, 1))

(***************************************************************************)
(* i_sample times j_sample writes, after which the time is taken for each  *)
(* of the i_sample (time_inner) or for all.                                *)
(***************************************************************************)
AfterWrites(x, r, pos, i, j_sample, time_inner) ==
  Visible(x)
    \o (IF time_inner THEN WriteCheck(x, r, pos, 0, j_sample - 1, j_sample)
        ELSE WriteCheck(x, r, pos, i, i, j_sample))

IMB_write_ijSame(x, r, pos, i_sample, j_sample, time_inner) == \* mutant: one offset for all
  Barriers(x, N_BARR)
    \o Loop(i_sample, LAMBDA i :
         Loop(j_sample, LAMBDA j : Access1(x, r, "write", pos, j, FALSE))
           \o AfterWrites(x, r, pos, i, j_sample, time_inner))

IMB_write_ij(x, r, pos, i_sample, j_sample, time_inner) ==
  Barriers(x, N_BARR)
    \o Loop(i_sample, LAMBDA i :
         Loop(j_sample, LAMBDA j : Access1(x, r, "write", pos, i + j, FALSE))
           \o AfterWrites(x, r, pos, i, j_sample, time_inner))

IMB_iwrite_ij(x, r, pos, i_sample, j_sample, time_inner) ==
  LET n == i_sample * j_sample
  IN Barriers(x, N_BARR)
       \o (IF x.type = "COLLECTIVE"
           THEN Loop(n, LAMBDA j : Access1(x, r, "write", pos, j, TRUE))
                  \o Visible(x) \o WriteCheck(x, r, pos, 0, n - 1, n)
           ELSE Loop(i_sample, LAMBDA i :
                  Loop(j_sample, LAMBDA j : One1(x, r, "write", pos, i + j))
                    \o Loop(j_sample, LAMBDA j : IMB_cpu_exploit(0))
                    \o AfterWrites(x, r, pos, i, j_sample, time_inner)))

(***************************************************************************)
(* What was read is compared with its block.  With the shared pointer the  *)
(* ranks tell rank 0 where they found it.                                  *)
(***************************************************************************)
ReadCheck(x, r, j, source) ==
  LET Gather0 == Blocking(Coll("Gather", 0, ToEach(x, 0, 0),
                               IF r = 0 THEN {Part(Ranks(x), 0, 0)} ELSE {}))
  IN If(x.check /\ Totalsize(x, r) > 0,
        Barriers(x, 1)
          \o <<[do |-> "compare", j |-> j, Locsize |-> Locsize(x, r),
                Totalsize |-> Totalsize(x, r), source |-> source]>>
          \o If(source = -3, Gather0 \o Gather0 \o If(r = 0, <<[do |-> "contiguous"]>>))
          \o Barriers(x, 1))

Compared(x, r, pos, j) == ReadCheck(x, r, j, IF pos = "shared" THEN -3 ELSE -2)

(***************************************************************************)
(* The reads of a benchmark are aggregated (i_sample is 1): the j-th reads *)
(* block j.                                                                *)
(***************************************************************************)
IMB_read_ij(x, r, pos, i_sample, j_sample, time_inner) ==
  Loop(i_sample, LAMBDA i :
    If(time_inner, Barriers(x, N_BARR))
      \o Loop(j_sample, LAMBDA j :
           Access1(x, r, "read", pos, j, FALSE) \o Compared(x, r, pos, j)
             \o If(pos = "shared" /\ x.check, Barriers(x, 1))))

IMB_iread_ij(x, r, pos, i_sample, j_sample, time_inner) ==
  Barriers(x, N_BARR)
    \o (IF x.type = "COLLECTIVE"
        THEN Loop(i_sample * j_sample, LAMBDA j :
               Access1(x, r, "read", pos, j, TRUE) \o Compared(x, r, pos, j))
        ELSE Loop(i_sample, LAMBDA i :
               If(time_inner, Barriers(x, 1))
                 \o Loop(j_sample, LAMBDA j :
                      One1(x, r, "read", pos, j)
                        \o If(x.check, ReadWait1("read") \o Compared(x, r, pos, j)
                                         \o If(pos = "shared", Barriers(x, 1))))
                 \o Loop(j_sample, LAMBDA j : IMB_cpu_exploit(0))
                 \o ReadWait1("read")))

-----------------------------------------------------------------------------
(***************************************************************************)
(* The kernels: aggregated or not, and nonblocking ones once more with     *)
(* computation, with the file opened anew.                                 *)
(***************************************************************************)
Both(x, r, pos, Ij(_, _, _, _, _, _), IIj(_, _, _, _, _, _)) ==
  LET Run(Kernel(_, _, _, _, _, _)) ==
        IF x.agg THEN Kernel(x, r, pos, 1, x.n, TRUE) ELSE Kernel(x, r, pos, x.n, 1, FALSE)
  IN If(File_rank(x, r) >= 0,
        Run(Ij) \o If(x.nonblocking, MPI_File_close(x) \o IMB_open_file(x) \o Run(IIj)))

IMB_write_shared(x, r) == Both(x, r, "shared", IMB_write_ij, IMB_iwrite_ij)
IMB_write_indv(x, r) == Both(x, r, "indv", IMB_write_ij, IMB_iwrite_ij)
IMB_write_expl(x, r) == Both(x, r, "explicit", IMB_write_ij, IMB_iwrite_ij)

IMB_read_shared(x, r) == Both(x, r, "shared", IMB_read_ij, IMB_iread_ij)
IMB_read_indv(x, r) == Both(x, r, "indv", IMB_read_ij, IMB_iread_ij)
IMB_read_expl(x, r) == Both(x, r, "explicit", IMB_read_ij, IMB_iread_ij)

IMB_open_closeOpen(x, r) ==              \* mutant: not closed before it is opened again
  IMB_do_n_barriers(x, N_BARR)
    \o Loop(x.n, LAMBDA i :
         IMB_open_file(x) \o <<[do |-> "write", n |-> 1, offset |-> 0, by |-> "explicit"]>>)
    \o MPI_File_close(x)

IMB_open_close(x, r) ==
  IMB_do_n_barriers(x, N_BARR)
    \o Loop(x.n, LAMBDA i :
         IMB_open_file(x)
           \o <<[do |-> "write", n |-> 1, offset |-> 0, by |-> "explicit"]>>
           \o MPI_File_close(x))
==============================================================================
