------------------------------- MODULE Barrier -------------------------------
(***************************************************************************)
(* What a caller of IMB_do_n_barriers (src_c/IMB_declare.h) may rely on,   *)
(* whichever barrier the macro selects (MPI_Barrier, or IMB_Barrier when   *)
(* IMB_internal_barrier is set): the ranks of a communicator pass through  *)
(* a sequence of barriers, and none returns from its k-th barrier before   *)
(* all have called their k-th.                                             *)
(***************************************************************************)
EXTENDS Naturals

CONSTANTS
  Rank,      \* the ranks of the communicator
  Episodes   \* the number of barriers every rank goes through

VARIABLES
  entered,   \* entered[r]: how many barriers rank r has called
  left       \* left[r]: how many of them have returned

vars == <<entered, left>>

Init ==
  /\ entered = [r \in Rank |-> 0]
  /\ left = [r \in Rank |-> 0]

(***************************************************************************)
(* Rank r, outside any barrier, calls the next one.                        *)
(***************************************************************************)
Enter(r) ==
  /\ entered[r] = left[r]
  /\ entered[r] < Episodes
  /\ entered' = [entered EXCEPT ![r] = @ + 1]
  /\ UNCHANGED left

(***************************************************************************)
(* Rank r returns from its current barrier: every rank has called it.      *)
(***************************************************************************)
Leave(r) ==
  /\ left[r] < entered[r]
  /\ \A q \in Rank : entered[q] >= entered[r]
  /\ left' = [left EXCEPT ![r] = @ + 1]
  /\ UNCHANGED entered

Next == \E r \in Rank : Enter(r) \/ Leave(r)

Spec == Init /\ [][Next]_vars
=============================================================================
