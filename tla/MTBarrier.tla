------------------------------ MODULE MTBarrier ------------------------------
(***************************************************************************)
(* omp_aware_barrier (src_cpp/MT/MT_benchmark.h): the barrier with which   *)
(* IMB-MT starts the threads of all processes together when thread_level   *)
(* is multiple.                                                            *)
(*                                                                         *)
(*     #pragma omp barrier                                                 *)
(*     if (omp_get_thread_num() == 0)                                      *)
(*         bfn();                  normal_barrier or special_barrier       *)
(*     #pragma omp barrier                                                 *)
(*                                                                         *)
(* A call is two barriers of the threads of the process, and between them  *)
(* one of the processes, in which thread 0 takes part.  Both kinds are     *)
(* taken for what they promise (module Barrier; IMBBarrier is why          *)
(* special_barrier keeps it): counts of those that have come and of those  *)
(* that have gone.                                                         *)
(***************************************************************************)
EXTENDS Integers

CONSTANTS
  Proc,      \* the processes, MPI_COMM_WORLD
  Thread,    \* the threads of each, as omp_get_thread_num numbers them
  Episodes   \* how often every thread calls omp_aware_barrier

ASSUME ThreadAssumption == 0 \in Thread
ASSUME EpisodesAssumption == Episodes \in Nat

VARIABLES
  arrived,   \* arrived[p][t]: the omp barriers thread t of p has come to
  passed,    \* passed[p][t]: those it has passed
  begun,     \* begun[p]: the calls of bfn by thread 0 of p
  ended      \* ended[p]: those that have returned

vars == <<arrived, passed, begun, ended>>

Init ==
  /\ arrived = [p \in Proc |-> [t \in Thread |-> 0]]
  /\ passed = [p \in Proc |-> [t \in Thread |-> 0]]
  /\ begun = [p \in Proc |-> 0]
  /\ ended = [p \in Proc |-> 0]

(***************************************************************************)
(* The number of calls of omp_aware_barrier a thread has begun when it has *)
(* come to n omp barriers.                                                 *)
(***************************************************************************)
CallsOf(n) == (n + 1) \div 2

Between(n) == n % 2 = 1

-----------------------------------------------------------------------------
(***************************************************************************)
(* A thread comes to an omp barrier: the first of a call, or the second,   *)
(* thread 0 after bfn has returned.                                        *)
(***************************************************************************)
ArriveEarly(p, t) ==                      \* mutant: bfn not waited for
  /\ arrived[p][t] = passed[p][t]
  /\ arrived[p][t] < 2 * Episodes
  /\ (t = 0 /\ Between(passed[p][t])) => begun[p] = CallsOf(passed[p][t])
  /\ arrived' = [arrived EXCEPT ![p][t] = @ + 1]
  /\ UNCHANGED <<passed, begun, ended>>

Arrive(p, t) ==
  /\ arrived[p][t] = passed[p][t]
  /\ arrived[p][t] < 2 * Episodes
  /\ (t = 0 /\ Between(passed[p][t])) => ended[p] = CallsOf(passed[p][t])
  /\ arrived' = [arrived EXCEPT ![p][t] = @ + 1]
  /\ UNCHANGED <<passed, begun, ended>>

(***************************************************************************)
(* It leaves the omp barrier when all threads of the process have come.    *)
(***************************************************************************)
PassAlone(p, t) ==                        \* mutant: no team to wait for
  /\ passed[p][t] < arrived[p][t]
  /\ passed' = [passed EXCEPT ![p][t] = @ + 1]
  /\ UNCHANGED <<arrived, begun, ended>>

Pass(p, t) ==
  /\ passed[p][t] < arrived[p][t]
  /\ \A u \in Thread : arrived[p][u] >= arrived[p][t]
  /\ passed' = [passed EXCEPT ![p][t] = @ + 1]
  /\ UNCHANGED <<arrived, begun, ended>>

(***************************************************************************)
(* Thread 0, between the two omp barriers of a call, calls bfn; it returns *)
(* when thread 0 of every process has called it.                           *)
(***************************************************************************)
CallAgain(p) ==                           \* mutant: by whichever thread is there
  /\ begun[p] = ended[p]
  /\ \E t \in Thread : Between(passed[p][t])
  /\ begun' = [begun EXCEPT ![p] = @ + 1]
  /\ UNCHANGED <<arrived, passed, ended>>

CallPaired(p) ==                          \* mutant: not by a rank without partner
  /\ arrived[p][0] = passed[p][0] /\ Between(passed[p][0])
  /\ begun[p] < CallsOf(passed[p][0])
  /\ IF p = CHOOSE q \in Proc : TRUE
     THEN UNCHANGED begun
     ELSE begun' = [begun EXCEPT ![p] = @ + 1]
  /\ UNCHANGED <<arrived, passed, ended>>

Call(p) ==
  /\ arrived[p][0] = passed[p][0] /\ Between(passed[p][0])
  /\ begun[p] < CallsOf(passed[p][0])
  /\ begun' = [begun EXCEPT ![p] = @ + 1]
  /\ UNCHANGED <<arrived, passed, ended>>

Return(p) ==
  /\ ended[p] < begun[p]
  /\ \A q \in Proc : begun[q] >= begun[p]
  /\ ended' = [ended EXCEPT ![p] = @ + 1]
  /\ UNCHANGED <<arrived, passed, begun>>

-----------------------------------------------------------------------------
ThreadStep(p, t) == Arrive(p, t) \/ Pass(p, t) \/ (t = 0 /\ (Call(p) \/ Return(p)))

Done == \A p \in Proc, t \in Thread : passed[p][t] = 2 * Episodes

Terminated == Done /\ UNCHANGED vars

Next == (\E p \in Proc, t \in Thread : ThreadStep(p, t)) \/ Terminated

Spec == Init /\ [][Next]_vars

(***************************************************************************)
(* OpenMP and MPI keep every thread running.                               *)
(***************************************************************************)
FairSpec == Spec /\ \A p \in Proc, t \in Thread : WF_vars(ThreadStep(p, t))

-----------------------------------------------------------------------------
(***************************************************************************)
(* The variables have values of their kinds.                               *)
(***************************************************************************)
TypeOK ==
  /\ arrived \in [Proc -> [Thread -> 0 .. 2 * Episodes]]
  /\ passed \in [Proc -> [Thread -> 0 .. 2 * Episodes]]
  /\ begun \in [Proc -> 0 .. Episodes]
  /\ ended \in [Proc -> 0 .. Episodes]

(***************************************************************************)
(* run_instance takes the time after the barrier: no thread of any process *)
(* returns from its k-th omp_aware_barrier, whose bfn only thread 0 calls, *)
(* before every thread of every process has called its k-th.               *)
(***************************************************************************)
StartTogether ==
  \A p, q \in Proc, t, u \in Thread : passed[p][t] \div 2 <= CallsOf(arrived[q][u])

(***************************************************************************)
(* omp_aware_barrier is a barrier of all threads: the first omp barrier    *)
(* enters it, leaving the second returns from it.                          *)
(***************************************************************************)
Abstract == INSTANCE Barrier WITH
              Rank <- Proc \X Thread,
              entered <- [x \in Proc \X Thread |-> CallsOf(arrived[x[1]][x[2]])],
              left <- [x \in Proc \X Thread |-> passed[x[1]][x[2]] \div 2]

ImplementsBarrier == Abstract!Spec

(***************************************************************************)
(* All threads get through all barriers: thread 0 of no process waits in   *)
(* bfn for a thread 0 that waits in an omp barrier.                        *)
(***************************************************************************)
AllReturn == <>Done

-----------------------------------------------------------------------------
(***************************************************************************)
(* The inductive invariant: each barrier keeps its promise, and thread 0   *)
(* ties them together, as it goes to bfn after the first omp barrier and   *)
(* to the second after bfn.                                                *)
(***************************************************************************)
OmpBarrier ==
  \A p \in Proc, t \in Thread :
    /\ passed[p][t] <= arrived[p][t] /\ arrived[p][t] <= passed[p][t] + 1
    /\ \A u \in Thread : passed[p][t] <= arrived[p][u]

MPIBarrier ==
  \A p, q \in Proc : ended[p] <= begun[p] /\ ended[p] <= begun[q]

ThreadZero ==
  \A p \in Proc :
    /\ begun[p] <= CallsOf(passed[p][0])
    /\ arrived[p][0] \div 2 <= ended[p]

IInv == TypeOK /\ OmpBarrier /\ MPIBarrier /\ ThreadZero
=============================================================================
