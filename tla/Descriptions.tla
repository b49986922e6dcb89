----------------------------- MODULE Descriptions -----------------------------
(***************************************************************************)
(* How benchmarks are described: each has a set of flags, from which its   *)
(* buffers, its kind and its run modes follow.                             *)
(***************************************************************************)
EXTENDS Integers, FiniteSets, TLC

(***************************************************************************)
(* Flags for the lengths of the send and of the receive buffer: nothing, a *)
(* message, two, three, or one for every process.                          *)
(***************************************************************************)
Sendbuf == {"SENDBUF_SIZE_I", "SENDBUF_SIZE_2I", "SENDBUF_SIZE_NP_I", "SENDBUF_SIZE_0"}
Recvbuf == {"RECVBUF_SIZE_I", "RECVBUF_SIZE_2I", "RECVBUF_SIZE_3I", "RECVBUF_SIZE_NP_I",
            "RECVBUF_SIZE_0"}
Types == {"SINGLE_TRANSFER", "PARALLEL_TRANSFER", "COLLECTIVE", "PARALLEL_TRANSFER_MSG_RATE",
          "SYNC", "SINGLE_ELEMENT_TRANSFER", "MULT_PASSIVE_TRANSFER"}
Pointers == {"INDV_BLOCK", "SHARED", "PRIVATE", "EXPLICIT"}

One == {"SENDBUF_SIZE_I", "RECVBUF_SIZE_I"}
Gathering == {"SENDBUF_SIZE_I", "RECVBUF_SIZE_NP_I"}
Scattering == {"SENDBUF_SIZE_NP_I", "RECVBUF_SIZE_I"}
Total2 == {"SENDBUF_SIZE_NP_I", "RECVBUF_SIZE_NP_I"}
TwoEach == {"SENDBUF_SIZE_2I", "RECVBUF_SIZE_2I"}
None2 == {"SENDBUF_SIZE_0", "RECVBUF_SIZE_0"}

Default(flags) == flags \cup {"DEFAULT"}

-----------------------------------------------------------------------------
(***************************************************************************)
(* IMB-MPI1.                                                               *)
(***************************************************************************)
MPI1_transfers ==
  LET Single == One \cup {"SINGLE_TRANSFER"}
      PingPong == Single \cup {"SCALE_TIME_HALF"}
      Parallel == {"PARALLEL_TRANSFER"}
  IN [PingPong |-> Default(PingPong \cup {"SELECT_SOURCE"}),
      PingPongSpecificSource |-> PingPong \cup {"SELECT_SOURCE"},
      PingPongAnySource |-> PingPong,
      PingPing |-> Default(Single \cup {"SELECT_SOURCE"}),
      PingPingSpecificSource |-> Single \cup {"SELECT_SOURCE"},
      PingPingAnySource |-> Single,
      Sendrecv |-> Default(One \cup Parallel \cup {"SCALE_BW_DOUBLE"}),
      Exchange |-> Default(Parallel \cup {"SENDBUF_SIZE_2I", "RECVBUF_SIZE_I", "SCALE_BW_FOUR"})]

MPI1_collectives ==
  LET Of(buffers, more) == Default(buffers \cup {"COLLECTIVE"} \cup more)
  IN [Allreduce |-> Of(One, {"REDUCTION"}),
      Reduce |-> Of(One, {"REDUCTION", "HAS_ROOT"}),
      Reduce_local |-> Of(One, {"REDUCTION"}),
      Reduce_scatter |-> Of(Scattering, {"REDUCTION"}),
      Reduce_scatter_block |-> Of(Scattering, {"REDUCTION"}),
      Allgather |-> Of(Gathering, {}),
      Allgatherv |-> Of(Gathering, {}),
      Gather |-> Of(Gathering, {"HAS_ROOT"}),
      Gatherv |-> Of(Gathering, {"HAS_ROOT"}),
      Scatter |-> Of(Scattering, {"HAS_ROOT"}),
      Scatterv |-> Of(Scattering, {"HAS_ROOT"}),
      Alltoall |-> Of(Total2, {}),
      Alltoallv |-> Of(Total2, {}),
      Bcast |-> Of(One, {"HAS_ROOT"})]

MPI1_others ==
  [Barrier |-> Default(None2 \cup {"SYNC"}),
   Uniband |-> One \cup {"PARALLEL_TRANSFER_MSG_RATE"},
   Biband |-> One \cup {"PARALLEL_TRANSFER_MSG_RATE", "SCALE_BW_DOUBLE"}]

(***************************************************************************)
(* IMB-NBC and IMB-MPI4 have two benchmarks of each operation, one of which*)
(* only completes it (_pure).                                              *)
(***************************************************************************)
NBC_moving ==
  LET Of(buffers, more) == buffers \cup {"COLLECTIVE"} \cup more
  IN [Ibcast |-> Of(One, {"HAS_ROOT"}),
      Iallgather |-> Of(Gathering, {}),
      Iallgatherv |-> Of(Gathering, {}),
      Igather |-> Of(Gathering, {"HAS_ROOT"}),
      Igatherv |-> Of(Gathering, {"HAS_ROOT"}),
      Iscatter |-> Of(Scattering, {"HAS_ROOT"}),
      Iscatterv |-> Of(Scattering, {"HAS_ROOT"}),
      Ialltoall |-> Of(Total2, {}),
      Ialltoallv |-> Of(Total2, {})]

NBC_reducing ==
  LET Of(buffers) == buffers \cup {"COLLECTIVE", "REDUCTION"}
  IN [Ireduce |-> Of(One),
      Ireduce_scatter |-> Of(Scattering),
      Iallreduce |-> Of(One),
      Ibarrier |-> One \cup {"SYNC"}]

MPI4_moving ==
  LET Of(buffers, more) == buffers \cup {"COLLECTIVE"} \cup more
  IN [Bcast_persist |-> Of(One, {"HAS_ROOT"}),
      Allgather_persist |-> Of(Gathering, {}),
      Allgatherv_persist |-> Of(Gathering, {}),
      Gather_persist |-> Of(Gathering, {"HAS_ROOT"}),
      Gatherv_persist |-> Of(Gathering, {"HAS_ROOT"}),
      Scatter_persist |-> Of(Scattering, {"HAS_ROOT"}),
      Scatterv_persist |-> Of(Scattering, {"HAS_ROOT"}),
      Alltoall_persist |-> Of(Total2, {}),
      Alltoallv_persist |-> Of(Total2, {})]

MPI4_reducing ==
  LET Of(buffers) == buffers \cup {"COLLECTIVE", "REDUCTION"}
  IN [Reduce_persist |-> Of(One),
      Reduce_scatter_persist |-> Of(Scattering),
      Allreduce_persist |-> Of(One),
      Barrier_persist |-> One \cup {"SYNC"}]

(***************************************************************************)
(* A reduction to a root is marked as rooted only where it overlaps.       *)
(***************************************************************************)
Overlapping(pure) ==
  [name \in DOMAIN pure |->
     Default(pure[name]) \cup {"NONBLOCKING", "NTIMES_3"}
       \cup (IF name \in {"Ireduce", "Reduce_persist"} THEN {"HAS_ROOT"} ELSE {})]

(***************************************************************************)
(* IMB-EXT and IMB-RMA.                                                    *)
(***************************************************************************)
EXT_benchmarks ==
  LET Pair == Default(One) \cup {"SINGLE_TRANSFER"}
      All == Default(One) \cup {"COLLECTIVE", "REDUCTION"}
  IN [Window |-> All \cup {"NO", "N_MODES_1", "NON_AGGREGATE"},
      Unidir_Get |-> Pair \cup {"GET"},
      Unidir_Put |-> Pair \cup {"PUT"},
      Bidir_Get |-> Pair \cup {"GET"},
      Bidir_Put |-> Pair \cup {"PUT"},
      Accumulate |-> All \cup {"PUT"}]

RMA_moving ==
  LET Pair == One \cup {"SINGLE_TRANSFER"}
      Each == {"N_MODES_1", "NON_AGGREGATE"}
      Passive == One \cup Each \cup {"MULT_PASSIVE_TRANSFER"}
      All == One \cup Each \cup {"COLLECTIVE"}
      Exchange == TwoEach \cup Each \cup {"COLLECTIVE"}
  IN [Unidir_put |-> Default(Pair \cup {"PUT"}),
      Bidir_put |-> Default(Pair \cup {"BIDIR_1", "PUT"}),
      Unidir_get |-> Default(Pair \cup {"GET"}),
      Bidir_get |-> Default(Pair \cup {"BIDIR_1", "GET"}),
      Put_local |-> Default(Pair \cup {"PUT"}),
      Get_local |-> Pair \cup {"GET"},
      Put_all_local |-> Default(Passive \cup {"PUT"}),
      Get_all_local |-> Passive \cup {"GET"},
      One_put_all |-> Default(Passive \cup {"PUT"}),
      All_put_all |-> Default(All \cup {"PUT"}),
      One_get_all |-> Default(Passive \cup {"GET"}),
      All_get_all |-> Default(All \cup {"GET"}),
      Exchange_put |-> Default(Exchange \cup {"PUT"}),
      Exchange_get |-> Default(Exchange \cup {"GET"})]

RMA_others ==
  LET Pair == Default(One) \cup {"SINGLE_TRANSFER", "PUT"}
      Element == Default({"SENDBUF_SIZE_I", "SINGLE_ELEMENT_TRANSFER", "PUT"})
  IN [Accumulate |-> Pair \cup {"REDUCTION"},
      Get_accumulate |-> Pair \cup {"REDUCTION"},
      Fetch_and_op |-> Element \cup {"RECVBUF_SIZE_I", "REDUCTION"},
      Compare_and_swap |-> Element \cup {"RECVBUF_SIZE_3I"},
      Truly_passive_put |-> Pair \cup {"N_MODES_1", "NON_AGGREGATE", "NONBLOCKING", "NTIMES_2"}]

(***************************************************************************)
(* IMB-IO: by one rank (S), by each for itself (P) or together (C).        *)
(***************************************************************************)
Io(type, position, access, nonblocking) ==
  Default(One) \cup {type, position, access}
    \cup (IF nonblocking THEN {"NONBLOCKING", "NTIMES_2"} ELSE {})
    \cup (IF nonblocking \/ access = "GET" THEN {"N_MODES_1"} ELSE {})

IO_single_writes ==
  LET Of(position, nonblocking) == Io("SINGLE_TRANSFER", position, "PUT", nonblocking)
  IN [S_Write_Indv |-> Of("PRIVATE", FALSE),
      S_IWrite_Indv |-> Of("PRIVATE", TRUE),
      S_Write_Expl |-> Of("PRIVATE", FALSE),
      S_IWrite_Expl |-> Of("PRIVATE", TRUE)]

IO_parallel_writes ==
  LET Of(position, nonblocking) == Io("PARALLEL_TRANSFER", position, "PUT", nonblocking)
  IN [P_Write_Indv |-> Of("INDV_BLOCK", FALSE),
      P_IWrite_Indv |-> Of("INDV_BLOCK", TRUE),
      P_Write_Shared |-> Of("SHARED", FALSE),
      P_IWrite_Shared |-> Of("SHARED", TRUE),
      P_Write_Priv |-> Of("PRIVATE", FALSE),
      P_IWrite_Priv |-> Of("PRIVATE", TRUE),
      P_Write_Expl |-> Of("EXPLICIT", FALSE),
      P_IWrite_Expl |-> Of("EXPLICIT", TRUE)]

IO_collective_writes ==
  LET Of(position, nonblocking) == Io("COLLECTIVE", position, "PUT", nonblocking)
  IN [C_Write_Indv |-> Of("INDV_BLOCK", FALSE),
      C_IWrite_Indv |-> Of("INDV_BLOCK", TRUE),
      C_Write_Shared |-> Of("SHARED", FALSE),
      C_IWrite_Shared |-> Of("SHARED", TRUE),
      C_Write_Expl |-> Of("EXPLICIT", FALSE),
      C_IWrite_Expl |-> Of("EXPLICIT", TRUE)]

IO_single_reads ==
  LET Of(position, nonblocking) == Io("SINGLE_TRANSFER", position, "GET", nonblocking)
  IN [S_Read_Indv |-> Of("PRIVATE", FALSE),
      S_IRead_Indv |-> Of("PRIVATE", TRUE),
      S_Read_Expl |-> Of("PRIVATE", FALSE),
      S_IRead_Expl |-> Of("PRIVATE", TRUE)]

IO_parallel_reads ==
  LET Of(position, nonblocking) == Io("PARALLEL_TRANSFER", position, "GET", nonblocking)
  IN [P_Read_Indv |-> Of("INDV_BLOCK", FALSE),
      P_IRead_Indv |-> Of("INDV_BLOCK", TRUE),
      P_Read_Shared |-> Of("SHARED", FALSE),
      P_IRead_Shared |-> Of("SHARED", TRUE),
      P_Read_Priv |-> Of("PRIVATE", FALSE),
      P_IRead_Priv |-> Of("PRIVATE", TRUE),
      P_Read_Expl |-> Of("EXPLICIT", FALSE),
      P_IRead_Expl |-> Of("EXPLICIT", TRUE)]

IO_collective_reads ==
  LET Of(position, nonblocking) == Io("COLLECTIVE", position, "GET", nonblocking)
  IN [C_Read_Indv |-> Of("INDV_BLOCK", FALSE),
      C_IRead_Indv |-> Of("INDV_BLOCK", TRUE),
      C_Read_Shared |-> Of("SHARED", FALSE),
      C_IRead_Shared |-> Of("SHARED", TRUE),
      C_Read_Expl |-> Of("EXPLICIT", FALSE),
      C_IRead_Expl |-> Of("EXPLICIT", TRUE)]

IO_open_close ==
  [Open_Close |-> Default(None2) \cup {"SYNC", "NON_AGGREGATE", "EXPLICIT", "N_MODES_1", "NO"}]

-----------------------------------------------------------------------------
Benchmarks ==
  [MPI1 |-> MPI1_transfers @@ MPI1_collectives @@ MPI1_others,
   NBC |-> Overlapping(NBC_moving @@ NBC_reducing),
   NBC_pure |-> NBC_moving @@ NBC_reducing,
   MPI4 |-> Overlapping(MPI4_moving @@ MPI4_reducing),
   MPI4_pure |-> MPI4_moving @@ MPI4_reducing,
   EXT |-> EXT_benchmarks,
   RMA |-> RMA_moving @@ RMA_others,
   IO |-> IO_single_writes @@ IO_parallel_writes @@ IO_collective_writes @@ IO_single_reads
            @@ IO_parallel_reads @@ IO_collective_reads @@ IO_open_close]

(***************************************************************************)
(* Messages of init_size bytes, for np processes.                          *)
(***************************************************************************)
descr2len(flag, init_size, np) ==
  CASE flag \in {"SENDBUF_SIZE_I", "RECVBUF_SIZE_I"} -> init_size
    [] flag \in {"SENDBUF_SIZE_2I", "RECVBUF_SIZE_2I"} -> 2 * init_size
    [] flag = "RECVBUF_SIZE_3I" -> 3 * init_size
    [] flag \in {"SENDBUF_SIZE_NP_I", "RECVBUF_SIZE_NP_I"} -> np * init_size
    [] flag \in {"SENDBUF_SIZE_0", "RECVBUF_SIZE_0"} -> 0

(***************************************************************************)
(* The flag of a kind that a benchmark has.                                *)
(***************************************************************************)
The(kind, flags) == CHOOSE flag \in kind : flag \in flags

descr2access == [PUT |-> "put", GET |-> "get", NO |-> "no"]

(***************************************************************************)
(* The run modes of a benchmark with one-sided or file access: IMB-RMA     *)
(* starts with the one that is not aggregated, the others with the one that*)
(* is.  -1, where a benchmark is never aggregated, counts as true.         *)
(***************************************************************************)
AGGREGATE(suite, flags, imod) ==
  LET given == IF suite = "RMA" THEN <<0, 1>> ELSE <<1, 0>>
  IN IF imod = 0 /\ "NON_AGGREGATE" \in flags THEN -1 ELSE given[imod + 1]

N_Modes(suite, flags) ==
  IF suite \in {"EXT", "RMA", "IO"} /\ "N_MODES_1" \notin flags THEN 2 ELSE 1

IMB_set_bmark(suite, flags, imod) ==
  [type |-> The(Types, flags),
   reduction |-> "REDUCTION" \in flags,
   access |-> IF suite \in {"EXT", "RMA", "IO"}
              THEN descr2access[The(DOMAIN descr2access, flags)] ELSE "no",
   fpointer |-> IF suite = "IO" THEN The(Pointers, flags) ELSE "nothing",
   agg |-> AGGREGATE(suite, flags, imod) # 0,
   bidir |-> "BIDIR_1" \in flags,
   nonblocking |-> "NONBLOCKING" \in flags]
==============================================================================
