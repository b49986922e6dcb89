----------------------------- MODULE IMBBarrier -----------------------------
(***************************************************************************)
(* The dissemination barrier of src_c/IMB_utils.c, IMB_Barrier.  The same  *)
(* loop is special_barrier in src_cpp/MT/MT_benchmark.h and                *)
(* imb_p2p_barrier in src_c/P2P/imb_p2p.c.                                 *)
(*                                                                         *)
(* In the round with a given mask, a rank sends an empty message to the    *)
(* rank mask places after it and receives one from the rank mask places    *)
(* before it, modulo the size.  All messages have the same tag, so the     *)
(* messages of one pair are matched in the order they were sent, and       *)
(* nothing in a message tells which call of the barrier it belongs to:     *)
(* a channel is just the number of messages on their way.  The barrier is  *)
(* called over and over on the same communicator, and a rank may already   *)
(* be in the next call while another is still inside the previous one.     *)
(***************************************************************************)
EXTENDS Integers

CONSTANTS
  N,         \* the size of the communicator
  Episodes   \* the number of barriers IMB_do_n_barriers calls go through

ASSUME NAssumption == N \in Nat \ {0}
ASSUME CallsAssumption == Episodes \in Nat

VARIABLES
  calls,     \* calls[r]: calls of IMB_Barrier rank r has begun
  inside,    \* inside[r]: r is executing IMB_Barrier
  mask,      \* mask[r]: the loop variable
  todo,      \* todo[r]: halves of the current MPI_Sendrecv not complete yet
  channel    \* channel[s][d]: messages sent from s to d, not received yet

vars == <<calls, inside, mask, todo, channel>>

Rank == 0 .. N-1

Sendrecv == {"send", "recv"}

(***************************************************************************)
(* The partners of rank r in the round with mask m.                        *)
(***************************************************************************)
Dst(r, m) == (r + m) % N
Src(r, m) == (r - m + N) % N

Init ==
  /\ calls = [r \in Rank |-> 0]
  /\ inside = [r \in Rank |-> FALSE]
  /\ mask = [r \in Rank |-> 1]
  /\ todo = [r \in Rank |-> Sendrecv]
  /\ channel = [s \in Rank |-> [d \in Rank |-> 0]]

(***************************************************************************)
(* The loop condition, and the update of the loop variable.                *)
(***************************************************************************)
InRoundShort(r) == inside[r] /\ 2 * mask[r] < N   \* mutant: last round skipped
InRound(r) == inside[r] /\ mask[r] < N

NextMaskKept(m) == m                              \* mutant: mask not shifted
NextMask(m) == 2 * m

(***************************************************************************)
(* Rank r calls IMB_Barrier: the locals are set anew.                      *)
(***************************************************************************)
Enter(r) ==
  /\ ~ inside[r]
  /\ calls[r] < Episodes
  /\ calls' = [calls EXCEPT ![r] = @ + 1]
  /\ inside' = [inside EXCEPT ![r] = TRUE]
  /\ mask' = [mask EXCEPT ![r] = 1]
  /\ todo' = [todo EXCEPT ![r] = Sendrecv]
  /\ UNCHANGED channel

(***************************************************************************)
(* The two halves of MPI_Sendrecv complete in either order.  The message   *)
(* is empty: the sending half needs nothing from the destination.          *)
(***************************************************************************)
Send(r) ==
  /\ InRound(r)
  /\ "send" \in todo[r]
  /\ channel' = [channel EXCEPT ![r][Dst(r, mask[r])] = @ + 1]
  /\ todo' = [todo EXCEPT ![r] = @ \ {"send"}]
  /\ UNCHANGED <<calls, inside, mask>>

Recv(r) ==
  /\ InRound(r)
  /\ "recv" \in todo[r]
  /\ channel[Src(r, mask[r])][r] > 0
  /\ channel' = [channel EXCEPT ![Src(r, mask[r])][r] = @ - 1]
  /\ todo' = [todo EXCEPT ![r] = @ \ {"recv"}]
  /\ UNCHANGED <<calls, inside, mask>>

(***************************************************************************)
(* MPI_Sendrecv returns: the next round, if there is one.                  *)
(***************************************************************************)
NextRoundNoRecv(r) ==                             \* mutant: MPI_Send alone
  /\ InRound(r)
  /\ "send" \notin todo[r]
  /\ mask' = [mask EXCEPT ![r] = NextMask(@)]
  /\ todo' = [todo EXCEPT ![r] = Sendrecv]
  /\ UNCHANGED <<calls, inside, channel>>

NextRound(r) ==
  /\ InRound(r)
  /\ todo[r] = {}
  /\ mask' = [mask EXCEPT ![r] = NextMask(@)]
  /\ todo' = [todo EXCEPT ![r] = Sendrecv]
  /\ UNCHANGED <<calls, inside, channel>>

(***************************************************************************)
(* The loop is over and the call returns.                                  *)
(***************************************************************************)
LeaveSent(r) ==                                   \* mutant: sent before the test
  /\ inside[r]
  /\ ~ InRound(r)
  /\ inside' = [inside EXCEPT ![r] = FALSE]
  /\ channel' = [channel EXCEPT ![r][Dst(r, mask[r])] = @ + 1]
  /\ UNCHANGED <<calls, mask, todo>>

Leave(r) ==
  /\ inside[r]
  /\ ~ InRound(r)
  /\ inside' = [inside EXCEPT ![r] = FALSE]
  /\ UNCHANGED <<calls, mask, todo, channel>>

RankNext(r) == Enter(r) \/ Send(r) \/ Recv(r) \/ NextRound(r) \/ Leave(r)

(***************************************************************************)
(* All ranks have gone through all their barriers.                         *)
(***************************************************************************)
Done == \A r \in Rank : calls[r] = Episodes /\ ~ inside[r]

Terminated == Done /\ UNCHANGED vars

Next == (\E r \in Rank : RankNext(r)) \/ Terminated

Spec == Init /\ [][Next]_vars

(***************************************************************************)
(* Every rank keeps executing, and MPI delivers what was sent.             *)
(***************************************************************************)
FairSpec == Spec /\ \A r \in Rank : WF_vars(RankNext(r))

-----------------------------------------------------------------------------
(***************************************************************************)
(* The calls of rank r that have returned.                                 *)
(***************************************************************************)
Returned(r) == IF inside[r] THEN calls[r] - 1 ELSE calls[r]

(***************************************************************************)
(* Every variable has a value of its kind.  At most two messages are ever  *)
(* on their way between two ranks, although nothing in IMB_Barrier limits  *)
(* how far a rank runs ahead of the receiver of its messages: MPI never    *)
(* has to buffer more for it.                                              *)
(***************************************************************************)
TypeOK ==
  /\ calls \in [Rank -> 0 .. Episodes]
  /\ inside \in [Rank -> BOOLEAN]
  /\ mask \in [Rank -> Nat \ {0}]
  /\ todo \in [Rank -> SUBSET Sendrecv]
  /\ channel \in [Rank -> [Rank -> 0 .. 2]]

(***************************************************************************)
(* No rank has returned from its k-th IMB_Barrier while some rank has not  *)
(* yet called its k-th: a message of one call is never taken for a message *)
(* of another although they look the same.                                 *)
(***************************************************************************)
BarrierSafety ==
  \A r, q \in Rank : calls[q] >= Returned(r)

(***************************************************************************)
(* When all ranks are through, no message is left that a later barrier or  *)
(* a kernel receiving with MPI_ANY_TAG on the communicator could take.     *)
(***************************************************************************)
NothingLeft ==
  Done => \A s, d \in Rank : channel[s][d] = 0

(***************************************************************************)
(* IMB_Barrier implements the abstract barrier.                            *)
(***************************************************************************)
Abstract == INSTANCE Barrier WITH
              entered <- calls,
              left <- [r \in Rank |-> Returned(r)]

ImplementsBarrier == Abstract!Spec

(***************************************************************************)
(* Every rank gets through all the barriers: no rank waits for a message   *)
(* that nobody will send.                                                  *)
(***************************************************************************)
AllReturn == <>Done
-----------------------------------------------------------------------------
(***************************************************************************)
(* Why it works: the invariant the proofs rest on.                         *)
(*                                                                         *)
(* Masks are the values of mask for which there is a round: the powers of  *)
(* two below N, here as the least set with 1 that is closed under          *)
(* doubling below N.                                                       *)
(***************************************************************************)
Closed(S) == (1 < N => 1 \in S) /\ \A m \in S : 2 * m < N => 2 * m \in S

Masks == {m \in 1 .. N-1 : \A S \in SUBSET (1 .. N-1) : Closed(S) => m \in S}

(***************************************************************************)
(* How many of its calls rank r has already sent (received) the message of *)
(* the round with mask m in.                                               *)
(***************************************************************************)
Before(r, m, half) ==
  inside[r] /\ (mask[r] < m \/ (mask[r] = m /\ half \in todo[r]))

Passed(r, m, half) == IF Before(r, m, half) THEN calls[r] - 1 ELSE calls[r]

(***************************************************************************)
(* The channels hold just the difference: a rank has two different         *)
(* partners in two different rounds, so a pair serves a single round and   *)
(* the k-th message received by d from s is the one of the k-th call of s. *)
(***************************************************************************)
ChannelCounts ==
  \A s \in Rank : \A m \in Masks :
    channel[s][Dst(s, m)] = Passed(s, m, "send") - Passed(Dst(s, m), m, "recv")

OnlyPartners ==
  \A s, d \in Rank : (\A m \in Masks : d # Dst(s, m)) => channel[s][d] = 0

(***************************************************************************)
(* The ranks r has heard from, directly or not, when it has finished the   *)
(* rounds below m: the m - 1 ranks before it.  They all have made the call *)
(* r is in.                                                                *)
(***************************************************************************)
HeardFrom(r, m) ==
  \A j \in 0 .. N-1 : j < m => calls[Src(r, j)] >= calls[r]

Heard ==
  \A r \in Rank : inside[r] =>
    /\ HeardFrom(r, mask[r])
    /\ "recv" \notin todo[r] => HeardFrom(r, 2 * mask[r])

RoundMasks ==
  \A r \in Rank : inside[r] /\ mask[r] < N => mask[r] \in Masks

Called == \A r \in Rank : inside[r] => calls[r] > 0

Typed ==
  /\ calls \in [Rank -> 0 .. Episodes]
  /\ inside \in [Rank -> BOOLEAN]
  /\ mask \in [Rank -> Nat \ {0}]
  /\ todo \in [Rank -> SUBSET Sendrecv]
  /\ channel \in [Rank -> [Rank -> Nat]]

(***************************************************************************)
(* The inductive invariant.                                                *)
(***************************************************************************)
IInv ==
  /\ Typed
  /\ Called
  /\ RoundMasks
  /\ ChannelCounts
  /\ OnlyPartners
  /\ Heard
  /\ BarrierSafety
=============================================================================
