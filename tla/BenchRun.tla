------------------------------ MODULE BenchRun ------------------------------
(***************************************************************************)
(* The run of one benchmark through its scope, on all ranks:               *)
(*                                                                         *)
(*   the loop over the scope                       src_cpp/imb.cpp         *)
(*   NPLenCombinedScope                            src_cpp/scope.h         *)
(*   OriginalBenchmark::run          src_cpp/helpers/original_benchmark.h  *)
(*   helper_sync_globals_2, IMB_init_buffers_iter, helper_time_check       *)
(*                              src_cpp/helpers/helper_IMB_functions.h     *)
(*   IMB_warm_up, IMB_output                       src_c                   *)
(*                                                                         *)
(* Every rank goes through the items by itself.  The collective operations *)
(* it meets on the way are steps of all ranks concerned, possible when all *)
(* of them have come to the same operation: ranks that disagree about what *)
(* to do next wait for each other for ever.  MPI_Gather is not one step: a *)
(* rank other than 0 is through when it has sent its times.                *)
(*                                                                         *)
(* Of a time only the item it was measured in is kept.                     *)
(***************************************************************************)
EXTENDS Integers, Sequences

CONSTANTS
  W,            \* the size of MPI_COMM_WORLD
  Stages,       \* the numbers of processes, one for each of their modes
  NLens,        \* how many message sizes
  ValidNP,      \* the numbers of processes IMB_valid accepts
  TooLarge,     \* the sets of items considered for too_large
  Multi,        \* -multi: all groups of NP ranks run at the same time
  WarmUps,      \* whether there are warm-up runs: c_info.warm_up, not in IMB-IO
  MayTimeOut    \* whether the time limit may be exceeded

ASSUME WAssumption == W \in Nat \ {0}
ASSUME ScopeAssumption ==
  /\ Stages \in Seq(1 .. W)
  /\ NLens \in Nat \ {0}
  /\ ValidNP \subseteq 1 .. W
  /\ TooLarge \subseteq SUBSET (1 .. Len(Stages) * NLens)
  /\ Multi \in BOOLEAN
  /\ WarmUps \in BOOLEAN
  /\ MayTimeOut \in BOOLEAN

VARIABLES
  too_large, \* the items whose buffers exceed -mem or an int
  item,      \* item[r]: the item r is at
  pc,        \* pc[r]: where in run(item) r is
  stage,     \* stage[r]: glob.NP and glob.imod; 0 before the first item
  stop,      \* stop[r]: descr->stop_iterations
  failure,   \* failure[r]: BMark->sample_failure
  time,      \* time[r]: the item r's times are of; 0 is not initialized
  sent,      \* sent[r]: times sent to rank 0 by MPI_Gather, not received yet
  rows       \* rows printed by rank 0

vars == <<too_large, item, pc, stage, stop, failure, time, sent, rows>>

World == 0 .. W-1

NItems == Len(Stages) * NLens

StageOf(i) == (i - 1) \div NLens + 1

(***************************************************************************)
(* The communicators of a stage.                                           *)
(***************************************************************************)
Active(s, r) ==
  IF Multi THEN r \div Stages[s] < W \div Stages[s] ELSE r < Stages[s]

Peers(s, r) ==
  {q \in World : Active(s, q) /\ (Multi => q \div Stages[s] = r \div Stages[s])}

Init ==
  /\ too_large \in TooLarge
  /\ item = [r \in World |-> 1]
  /\ pc = [r \in World |-> "item"]
  /\ stage = [r \in World |-> 0]
  /\ stop = [r \in World |-> FALSE]
  /\ failure = [r \in World |-> "none"]
  /\ time = [r \in World |-> 0]
  /\ sent = [r \in World |-> <<>>]
  /\ rows = <<>>

At(r, label) == pc[r] = label

AllAt(ranks, label) == \A r \in ranks : pc[r] = label

Go(ranks, label) == pc' = [r \in World |-> IF r \in ranks THEN label ELSE pc[r]]

-----------------------------------------------------------------------------
(***************************************************************************)
(* The beginning of run(item): over at once when the benchmark has been    *)
(* stopped; otherwise a new stage has to be set up, if it is valid.        *)
(***************************************************************************)
SkipItemAgain(r) ==                       \* mutant: the item is not passed
  /\ At(r, "item") /\ item[r] <= NItems
  /\ stop[r]
  /\ UNCHANGED vars

SkipItem(r) ==
  /\ At(r, "item") /\ item[r] <= NItems
  /\ stop[r]
  /\ item' = [item EXCEPT ![r] = @ + 1]
  /\ UNCHANGED <<too_large, pc, stage, stop, failure, time, sent, rows>>

BeginItemAnyway(r) ==                     \* mutant: stop_iterations not tested
  /\ At(r, "item") /\ item[r] <= NItems
  /\ StageOf(item[r]) = stage[r]
  /\ Go({r}, "buffers")
  /\ UNCHANGED <<too_large, item, stage, stop, failure, time, sent, rows>>

BeginItem(r) ==
  /\ At(r, "item") /\ item[r] <= NItems
  /\ ~ stop[r]
  /\ StageOf(item[r]) = stage[r]
  /\ Go({r}, "buffers")
  /\ UNCHANGED <<too_large, item, stage, stop, failure, time, sent, rows>>

BeginStage(r) ==
  /\ At(r, "item") /\ item[r] <= NItems
  /\ ~ stop[r]
  /\ StageOf(item[r]) # stage[r]
  /\ stage' = [stage EXCEPT ![r] = StageOf(item[r])]
  /\ IF Stages[StageOf(item[r])] \in ValidNP
     THEN Go({r}, "split") /\ UNCHANGED <<item, stop>>
     ELSE /\ stop' = [stop EXCEPT ![r] = TRUE]
          /\ item' = [item EXCEPT ![r] = @ + 1]
          /\ UNCHANGED pc
  /\ UNCHANGED <<too_large, failure, time, sent, rows>>

(***************************************************************************)
(* IMB_init_communicator and helper_sync_globals_2.                        *)
(***************************************************************************)
Split ==
  /\ AllAt(World, "split")
  /\ Go(World, "buffers")
  /\ failure' = [r \in World |-> "none"]
  /\ stop' = [r \in World |-> FALSE]
  /\ UNCHANGED <<too_large, item, stage, time, sent, rows>>

(***************************************************************************)
(* IMB_init_buffers_iter: a rank without a communicator returns early, so  *)
(* does one whose buffers would be too large.                              *)
(***************************************************************************)
InitBuffersAll(r) ==                      \* mutant: rank < 0 not tested
  /\ At(r, "buffers")
  /\ IF item[r] \in too_large
     THEN failure' = [failure EXCEPT ![r] = "memory"] /\ Go({r}, "check")
     ELSE failure' = [failure EXCEPT ![r] = "none"] /\ Go({r}, "trial")
  /\ UNCHANGED <<too_large, item, stage, stop, time, sent, rows>>

InitBuffers(r) ==
  /\ At(r, "buffers")
  /\ IF Active(stage[r], r) /\ item[r] \in too_large
     THEN failure' = [failure EXCEPT ![r] = "memory"]
     ELSE failure' = [failure EXCEPT ![r] = "none"]
  /\ Go({r}, IF Active(stage[r], r) /\ item[r] \notin too_large
             THEN "trial" ELSE "check")
  /\ UNCHANGED <<too_large, item, stage, stop, time, sent, rows>>

(***************************************************************************)
(* The rest of it: the trial runs and the choice of n_sample, collective   *)
(* in the communicator.  Their times are local to the function.            *)
(***************************************************************************)
Trial(r) ==
  LET peers == Peers(stage[r], r) IN
  /\ At(r, "trial") /\ AllAt(peers, "trial")
  /\ Go(peers, "check")
  /\ UNCHANGED <<too_large, item, stage, stop, failure, time, sent, rows>>

(***************************************************************************)
(* helper_time_check: each active rank compares its own clock with the     *)
(* limit, then all combine their failures, which are negative, with        *)
(* MPI_MIN.                                                                *)
(***************************************************************************)
TimeCheck(r) ==
  /\ At(r, "check")
  /\ \/ UNCHANGED failure
     \/ /\ MayTimeOut /\ Active(stage[r], r) /\ failure[r] = "none"
        /\ failure' = [failure EXCEPT ![r] = "time-out"]
  /\ Go({r}, "allreduce")
  /\ UNCHANGED <<too_large, item, stage, stop, time, sent, rows>>

CombineFailures ==
  LET failed == \E r \in World : failure[r] # "none" IN
  /\ AllAt(World, "allreduce")
  /\ stop' = [r \in World |-> stop[r] \/ failed]
  /\ pc' = [r \in World |->
              IF stop'[r] THEN "gather"
              ELSE IF WarmUps /\ Active(stage[r], r) THEN "warmup" ELSE "kernel"]
  /\ UNCHANGED <<too_large, item, stage, failure, time, sent, rows>>

(***************************************************************************)
(* IMB_warm_up runs the kernel for the active ranks; its times are local.  *)
(***************************************************************************)
WarmUp(r) ==
  LET peers == Peers(stage[r], r) IN
  /\ At(r, "warmup") /\ AllAt(peers, "warmup")
  /\ Go(peers, "kernel")
  /\ UNCHANGED <<too_large, item, stage, stop, failure, time, sent, rows>>

(***************************************************************************)
(* The kernel is called by all ranks; without a communicator it does       *)
(* nothing but to set the times.                                           *)
(***************************************************************************)
KernelRanks(r) == IF Active(stage[r], r) THEN Peers(stage[r], r) ELSE {r}

KernelNoBarrier(r) ==                     \* mutant: no MPI_Barrier after it
  /\ At(r, "kernel") /\ AllAt(KernelRanks(r), "kernel")
  /\ time' = [q \in World |-> IF q \in KernelRanks(r) THEN item[q] ELSE time[q]]
  /\ Go(KernelRanks(r), "gather")
  /\ UNCHANGED <<too_large, item, stage, stop, failure, sent, rows>>

Kernel(r) ==
  /\ At(r, "kernel") /\ AllAt(KernelRanks(r), "kernel")
  /\ time' = [q \in World |-> IF q \in KernelRanks(r) THEN item[q] ELSE time[q]]
  /\ Go(KernelRanks(r), "barrier")
  /\ UNCHANGED <<too_large, item, stage, stop, failure, sent, rows>>

Barrier ==
  /\ AllAt(World, "barrier")
  /\ Go(World, "gather")
  /\ UNCHANGED <<too_large, item, stage, stop, failure, time, sent, rows>>

(***************************************************************************)
(* IMB_output: MPI_Gather to rank 0, which prints what it has got.  What   *)
(* kind of row it is depends on rank 0's own sample_failure.               *)
(***************************************************************************)
Gather(r) ==
  /\ r # 0
  /\ At(r, "gather")
  /\ sent' = [sent EXCEPT ![r] = Append(@, time[r])]
  /\ Go({r}, "item")
  /\ item' = [item EXCEPT ![r] = @ + 1]
  /\ UNCHANGED <<too_large, stage, stop, failure, time, rows>>

Row ==
  [item |-> item[0],
   failure |-> failure[0],
   stopped |-> stop[0],
   times |-> {IF r = 0 THEN time[0] ELSE Head(sent[r]) :
                r \in {q \in World : Active(stage[0], q)}}]

Output ==
  /\ At(0, "gather")
  /\ \A r \in World \ {0} : sent[r] # <<>>
  /\ rows' = Append(rows, Row)
  /\ sent' = [r \in World |-> IF r = 0 THEN <<>> ELSE Tail(sent[r])]
  /\ Go({0}, "item")
  /\ item' = [item EXCEPT ![0] = @ + 1]
  /\ UNCHANGED <<too_large, stage, stop, failure, time>>

-----------------------------------------------------------------------------
Done == \A r \in World : item[r] > NItems

Step ==
  \/ \E r \in World :
       \/ SkipItem(r) \/ BeginItem(r) \/ BeginStage(r)
       \/ InitBuffers(r) \/ Trial(r)
       \/ TimeCheck(r)
       \/ WarmUp(r) \/ Kernel(r)
       \/ Gather(r)
  \/ Split \/ CombineFailures \/ Barrier \/ Output

Terminated == Done /\ UNCHANGED vars

Next == Step \/ Terminated

Spec == Init /\ [][Next]_vars

(***************************************************************************)
(* The processes do not all stop where one of them can go on.              *)
(***************************************************************************)
FairSpec == Spec /\ WF_vars(Step)

-----------------------------------------------------------------------------
InGroup == {"trial", "warmup"}

(***************************************************************************)
(* The variables have values of their kinds; a rank without a communicator *)
(* takes no part in an operation on it, and no rank has the times of two   *)
(* items on their way to rank 0.                                           *)
(***************************************************************************)
TypeOK ==
  /\ item \in [World -> 1 .. NItems + 1]
  /\ pc \in [World -> {"item", "split", "buffers", "trial", "check", "allreduce",
                       "warmup", "kernel", "barrier", "gather"}]
  /\ stage \in [World -> 0 .. Len(Stages)]
  /\ stop \in [World -> BOOLEAN]
  /\ failure \in [World -> {"none", "memory", "time-out"}]
  /\ time \in [World -> 0 .. NItems]
  /\ sent \in [World -> Seq(0 .. NItems)]
  /\ \A r \in World : Len(sent[r]) <= 1
  /\ rows \in Seq([item : 1 .. NItems, failure : {"none", "memory", "time-out"},
                   stopped : BOOLEAN, times : SUBSET (0 .. NItems)])
  /\ \A r \in World : pc[r] \in InGroup => Active(stage[r], r)

(***************************************************************************)
(* run(item): while a rank measures, no rank is already busy with the next *)
(* item (whose trial runs would disturb the measurement) or still with the *)
(* one before.                                                             *)
(***************************************************************************)
Undisturbed ==
  \A r, q \in World :
    pc[r] \in {"warmup", "kernel"} =>
      item[q] = item[r] /\ pc[q] \in {"warmup", "kernel", "barrier"}

(***************************************************************************)
(* The output follows the abstract schedule.  A row is of a measured item  *)
(* when rank 0 has not been told to stop; then all times in it must be of  *)
(* that item.                                                              *)
(***************************************************************************)
Outcome(k) ==
  IF rows[k].item # k THEN "wrong item"
  ELSE IF rows[k].stopped THEN "failed"
  ELSE IF rows[k].times = {k} THEN "measured" ELSE "wrong times"

Abstract == INSTANCE Schedule WITH
              outcome <- [k \in 1 .. Len(rows) |-> Outcome(k)]

ImplementsSchedule == Abstract!Spec

(***************************************************************************)
(* Every rank gets through the scope, whoever fails at whatever item: no   *)
(* rank waits in a collective operation the others have skipped.           *)
(***************************************************************************)
AllDone == <>Done

(***************************************************************************)
(* IMB_display_times prints times only of the item the row is about: a row *)
(* without a failure text has times measured for it.                       *)
(***************************************************************************)
TimesOfItem ==
  \A k \in 1 .. Len(rows) : rows[k].failure = "none" => rows[k].times = {rows[k].item}

(***************************************************************************)
(* The help of -mem: if the size is exceeded, a warning will be output,    *)
(* but the overall run is not interrupted.  The items with small enough    *)
(* buffers are measured whatever happens to others.                        *)
(***************************************************************************)
NotInterrupted ==
  Done => \A i \in 1 .. NItems :
            (i \notin too_large /\ Stages[StageOf(i)] \in ValidNP) =>
              \E k \in 1 .. Len(rows) : rows[k].item = i /\ ~ rows[k].stopped

-----------------------------------------------------------------------------
(***************************************************************************)
(* The inductive invariant from which TypeOK, Undisturbed and the          *)
(* refinement follow.  Two ranks that have not been stopped are in the     *)
(* same item, and in it on the same side of MPI_Allreduce and of the       *)
(* barrier; or one has sent its times and is before the MPI_Allreduce of   *)
(* the next item.                                                          *)
(***************************************************************************)
Before == {"item", "split", "buffers", "trial", "check", "allreduce"}
Measuring == {"warmup", "kernel", "barrier"}

Together ==
  \A r, q \in World : (~ stop[r] /\ ~ stop[q]) =>
    /\ item[r] <= item[q] + 1
    /\ item[r] = item[q] + 1 => pc[r] \in Before /\ pc[q] = "gather"
    /\ (item[r] = item[q] /\ pc[r] \in Measuring) => pc[q] \in Measuring
    /\ (item[r] = item[q] /\ pc[r] = "gather") => pc[q] = "gather"

(***************************************************************************)
(* When only one of two ranks has stopped it is because of a number of     *)
(* processes that is not valid, in the item the other is about to begin.   *)
(***************************************************************************)
Upcoming(q) == IF pc[q] = "gather" THEN item[q] + 1 ELSE item[q]

StoppedAhead ==
  \A r, q \in World : (stop[r] /\ ~ stop[q]) =>
    /\ pc[q] \in {"item", "gather"}
    /\ Upcoming(q) <= NItems /\ Upcoming(q) < item[r]
    /\ Stages[StageOf(Upcoming(q))] \notin ValidNP

(***************************************************************************)
(* A rank on its own: the stage is that of the item, and a valid one,      *)
(* unless it has stopped.                                                  *)
(***************************************************************************)
InStage ==
  \A r \in World :
    /\ pc[r] # "item" => item[r] <= NItems /\ stage[r] = StageOf(item[r])
    /\ (~ stop[r] /\ stage[r] # 0) => Stages[stage[r]] \in ValidNP
    /\ stop[r] => pc[r] \in {"item", "gather"}

(***************************************************************************)
(* MPI_Gather: all are in that of the same item, rank 0 is the last to     *)
(* leave, and what has been sent is of the item rank 0 is in.              *)
(***************************************************************************)
GatherOfItem ==
  /\ \A r, q \in World : (pc[r] = "gather" /\ pc[q] = "gather") => item[r] = item[q]
  /\ \A r \in World : pc[r] = "gather" => pc[0] = "gather"
  /\ \A r \in World : sent[r] # <<>> =>
       /\ r # 0 /\ Len(sent[r]) = 1
       /\ pc[0] = "gather" /\ item[0] < item[r]
       /\ stop[0] \/ sent[r] = <<item[0]>>
  /\ \A r \in World :
       (pc[r] = "barrier" \/ (pc[r] = "gather" /\ ~ stop[r])) => time[r] = item[r]

(***************************************************************************)
(* As long as rank 0 has not stopped there is one row for each item it has *)
(* passed, with the times measured for it.                                 *)
(***************************************************************************)
RowsSoFar ==
  (~ stop[0] \/ pc[0] = "gather") =>
    /\ Len(rows) = item[0] - 1
    /\ \A k \in 1 .. Len(rows) : Outcome(k) = "measured"

IInv == TypeOK /\ Together /\ StoppedAhead /\ InStage /\ GatherOfItem /\ RowsSoFar
=============================================================================
