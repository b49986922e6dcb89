------------------------------ MODULE Matching ------------------------------
(***************************************************************************)
(* Processes that send messages to and receive messages from each other,   *)
(* with what MPI says of point to point messages: the functions that the   *)
(* kernels in Kernels call.                                                *)
(*                                                                         *)
(* A process goes through a sequence of operations that is fixed when the  *)
(* kernel is called.  Program[c][r] is the sequence of rank r in the call  *)
(* c of a kernel.  Blocking functions are made of the operations: MPI_Send *)
(* is an isend and the wait for it, MPI_Recv an irecv and the wait for it, *)
(* MPI_Sendrecv an irecv, an isend and the wait for both.                  *)
(*                                                                         *)
(* A send and a receive are matched as soon as both have been called.      *)
(* That a message takes its time is no loss: with receives that name their *)
(* source, or of which only one source can be meant, the pairs are the     *)
(* same, and a rank whose message is late is a rank that does not go on.   *)
(***************************************************************************)
EXTENDS Integers, Sequences, FiniteSets

CONSTANTS
  Program   \* Program[c][r]: the operations of rank r in the call c

VARIABLES
  call,     \* the call of a kernel this is about
  program,  \* its operations, Program[call]
  at,       \* at[r]: the index of the operation rank r is about to perform
  matched,  \* pairs of a send and a receive that have met
  buffered  \* sends that MPI has taken the message of before it is received

vars == <<call, program, at, matched, buffered>>

ANY == -1   \* MPI_ANY_SOURCE, MPI_ANY_TAG

(***************************************************************************)
(* The kinds of operations.  A wait is for all sends or receives called so *)
(* far, or both.  peer is the destination or the source.  What MPI does    *)
(* not know: what the message means to the kernel, the iteration of the    *)
(* kernel's loop, and the time, which orders the operations of all ranks   *)
(* (see Scheduled).                                                        *)
(***************************************************************************)
Waits == {"wait_isend", "wait_irecv", "waitall"}

Kinds == {"isend", "irecv", "barrier"} \cup Waits

Awaited(kind) ==
  CASE kind = "wait_isend" -> {"isend"}
    [] kind = "wait_irecv" -> {"irecv"}
    [] OTHER -> {"isend", "irecv"}

-----------------------------------------------------------------------------
(***************************************************************************)
(* The operations of a program p, as pairs of a rank and an index.         *)
(***************************************************************************)
OpOf(p, x) == p[x[1]][x[2]]

Operations(p) == UNION {{r} \X (1 .. Len(p[r])) : r \in DOMAIN p}

OfKinds(p, kinds) == {x \in Operations(p) : OpOf(p, x).op \in kinds}

(***************************************************************************)
(* The receive y may take the message of the send x.                       *)
(***************************************************************************)
Fits(p, x, y) ==
  /\ OpOf(p, x).op = "isend" /\ OpOf(p, x).peer = y[1]
  /\ OpOf(p, y).op = "irecv" /\ OpOf(p, y).peer \in {x[1], ANY}
  /\ OpOf(p, y).tag \in {OpOf(p, x).tag, ANY}

-----------------------------------------------------------------------------
Rank == DOMAIN program

Op(x) == OpOf(program, x)

Finished(r) == at[r] > Len(program[r])

(***************************************************************************)
(* Rank r is at an operation of the given kinds.                           *)
(***************************************************************************)
Now(r) == <<r, at[r]>>

IsAt(r, kinds) == ~ Finished(r) /\ Op(Now(r)).op \in kinds

Passed(x) == x[2] < at[x[1]]

(***************************************************************************)
(* The operations of rank r of the given kinds it has called.              *)
(***************************************************************************)
Called(r, kinds) ==
  {x \in {r} \X (1 .. Len(program[r])) : Passed(x) /\ Op(x).op \in kinds}

SendMatched(x) == \E m \in matched : m[1] = x
RecvMatched(y) == \E m \in matched : m[2] = y

(***************************************************************************)
(* The requests of rank r that are not complete.                           *)
(***************************************************************************)
PendingSends(r) ==
  {x \in Called(r, {"isend"}) : ~ SendMatched(x) /\ x \notin buffered}

PendingRecvs(r) == {y \in Called(r, {"irecv"}) : ~ RecvMatched(y)}

Pending(r) == PendingSends(r) \cup PendingRecvs(r)

(***************************************************************************)
(* The receives called that the send x may meet, and the sends called that *)
(* the receive y may meet.                                                 *)
(***************************************************************************)
Waiting(x) ==
  {y \in Called(Op(x).peer, {"irecv"}) : Fits(program, x, y) /\ ~ RecvMatched(y)}

Arrived(y) ==
  UNION {{x \in Called(s, {"isend"}) : Fits(program, x, y) /\ ~ SendMatched(x)}
         : s \in Rank}

-----------------------------------------------------------------------------
Init ==
  /\ call \in DOMAIN Program
  /\ program = Program[call]
  /\ at = [r \in Rank |-> 1]
  /\ matched = {}
  /\ buffered = {}

Advance(r) == at' = [at EXCEPT ![r] = @ + 1]

(***************************************************************************)
(* A send meets the receive that has been waiting longest.  If there is    *)
(* none, MPI may take the message and complete the send, or leave it       *)
(* pending until there is one.                                             *)
(***************************************************************************)
IsendStep(r) ==
  /\ IsAt(r, {"isend"})
  /\ Advance(r)
  /\ \/ /\ \E y \in Waiting(Now(r)) :
             /\ \A z \in Waiting(Now(r)) : y[2] <= z[2]
             /\ matched' = matched \cup {<<Now(r), y>>}
        /\ UNCHANGED buffered
     \/ /\ Waiting(Now(r)) = {}
        /\ buffered' \in {buffered, buffered \cup {Now(r)}}
        /\ UNCHANGED matched
  /\ UNCHANGED <<call, program>>

(***************************************************************************)
(* A receive meets the message that a source has sent first.               *)
(***************************************************************************)
IrecvStep(r) ==
  /\ IsAt(r, {"irecv"})
  /\ Advance(r)
  /\ \/ \E x \in Arrived(Now(r)) :
          /\ \A z \in Arrived(Now(r)) : z[1] = x[1] => x[2] <= z[2]
          /\ matched' = matched \cup {<<x, Now(r)>>}
          /\ buffered' = buffered \ {x}
     \/ /\ Arrived(Now(r)) = {}
        /\ UNCHANGED <<matched, buffered>>
  /\ UNCHANGED <<call, program>>

(***************************************************************************)
(* Of the requests rank r waits for, none is pending any more.             *)
(***************************************************************************)
CanWait(r) ==
  /\ IsAt(r, Waits)
  /\ \A x \in Pending(r) : Op(x).op \notin Awaited(Op(Now(r)).op)

WaitStep(r) ==
  /\ CanWait(r)
  /\ Advance(r)
  /\ UNCHANGED <<call, program, matched, buffered>>

(***************************************************************************)
(* MPI_Barrier, and imb_p2p_barrier, which IMBBarrier shows to be one.     *)
(***************************************************************************)
AllAtBarrier == \A r \in Rank : IsAt(r, {"barrier"})

BarrierStep ==
  /\ AllAtBarrier
  /\ at' = [r \in Rank |-> at[r] + 1]
  /\ UNCHANGED <<call, program, matched, buffered>>

Done == \A r \in Rank : Finished(r)

Terminated == Done /\ UNCHANGED vars

Next ==
  \/ \E r \in Rank : IsendStep(r) \/ IrecvStep(r) \/ WaitStep(r)
  \/ BarrierStep
  \/ Terminated

Spec == Init /\ [][Next]_vars

-----------------------------------------------------------------------------
(***************************************************************************)
(* Types.  A rank only sends to and receives from ranks that are there.    *)
(***************************************************************************)
AtOK ==
  /\ at \in [Rank -> Nat \ {0}]
  /\ \A r \in Rank : at[r] <= Len(program[r]) + 1

PeersOK ==
  \A r \in Rank :
    /\ IsAt(r, {"isend"}) => Op(Now(r)).peer \in Rank
    /\ IsAt(r, {"irecv"}) => Op(Now(r)).peer \in Rank \cup {ANY}

MatchedOK ==
  \A m \in matched :
    /\ \E s \in Rank : m[1] \in Called(s, {"isend"})
    /\ \E d \in Rank : m[2] \in Called(d, {"irecv"})

BufferedOK ==
  \A x \in buffered : ~ SendMatched(x) /\ \E s \in Rank : x \in Called(s, {"isend"})

(***************************************************************************)
(* The type invariant.                                                     *)
(***************************************************************************)
TypeOK == AtOK /\ PeersOK /\ MatchedOK /\ BufferedOK

(***************************************************************************)
(* Every receive gets the message the kernel means it to get: that of the  *)
(* same iteration, and data where data is expected and the acknowledgement *)
(* where that is.  The messages of a kernel have one tag, and the receives *)
(* of IMB-MPI1 take any; a data message received as an acknowledgement of  *)
(* one char would end the program.                                         *)
(***************************************************************************)
RightMessage == \A m \in matched : Op(m[1]).what = Op(m[2]).what

(***************************************************************************)
(* Unless all are done, some rank can go on, even if MPI does not take any *)
(* of the messages that are not received yet: no kernel needs MPI to       *)
(* buffer, which it does for short messages and does not for long ones.    *)
(***************************************************************************)
NeverStuck ==
  \/ AllAtBarrier
  \/ \E r \in Rank : IsAt(r, {"isend", "irecv"}) \/ CanWait(r)
  \/ Done

(***************************************************************************)
(* A rank that has come to another iteration, or to the end, has waited    *)
(* for all requests of the iterations before.  The array of requests and   *)
(* the buffers are used again.                                             *)
(***************************************************************************)
RequestsComplete ==
  \A r \in Rank : \A x \in Pending(r) :
    ~ Finished(r) /\ Op(x).iter = Op(Now(r)).iter

(***************************************************************************)
(* A rank that has finished has got all it called for, and all that was or *)
(* will be sent to it: nothing is left that a later kernel, which uses the *)
(* same tag, could take for its own.                                       *)
(***************************************************************************)
NothingLeft ==
  \A r \in Rank : Finished(r) =>
    /\ PendingRecvs(r) = {}
    /\ \A s \in Rank : \A x \in Called(s, {"isend"}) :
         Op(x).peer = r => SendMatched(x)

-----------------------------------------------------------------------------
(***************************************************************************)
(* Why it works.  The mate of a send is the receive of the same number,    *)
(* counting on each side those that fit.                                   *)
(***************************************************************************)
Before(x) == {x[1]} \X (1 .. x[2] - 1)

Mates(p) ==
  {m \in OfKinds(p, {"isend"}) \X OfKinds(p, {"irecv"}) :
     /\ Fits(p, m[1], m[2])
     /\ Cardinality({x \in Before(m[1]) : Fits(p, x, m[2])})
        = Cardinality({y \in Before(m[2]) : Fits(p, m[1], y)})}

(***************************************************************************)
(* In an orderly program all sends and receives have mates, a receive fits *)
(* only sends of the rank its mate is from, and of those that fit each     *)
(* other the sends are in the order of the receives.  Mates mean the same. *)
(***************************************************************************)
Orderly(p) ==
  /\ \A x \in OfKinds(p, {"isend"}) :
       \E y \in OfKinds(p, {"irecv"}) : <<x, y>> \in Mates(p)
  /\ \A y \in OfKinds(p, {"irecv"}) :
       \E x \in OfKinds(p, {"isend"}) : <<x, y>> \in Mates(p)
  /\ \A m, n \in Mates(p) :
       Fits(p, m[1], n[2]) => /\ m[1][1] = n[1][1]
                              /\ m[1][2] < n[1][2] <=> m[2][2] < n[2][2]
  /\ \A m \in Mates(p) : OpOf(p, m[1]).what = OpOf(p, m[2]).what

(***************************************************************************)
(* A program has a schedule if the times do not decrease along the         *)
(* operations of a rank, what a rank waits for is called by the partner    *)
(* at an earlier time, and all ranks have the same barriers.               *)
(***************************************************************************)
AwaitedBy(p, x, w) ==
  /\ w[1] = x[1] /\ x[2] < w[2]
  /\ OpOf(p, w).op \in Waits /\ OpOf(p, x).op \in Awaited(OpOf(p, w).op)

Scheduled(p) ==
  /\ \A x, y \in Operations(p) :
       x[1] = y[1] /\ x[2] <= y[2] => OpOf(p, x).time <= OpOf(p, y).time
  /\ \A m \in Mates(p) : \A w \in Operations(p) :
       /\ AwaitedBy(p, m[1], w) => OpOf(p, m[2]).time < OpOf(p, w).time
       /\ AwaitedBy(p, m[2], w) => OpOf(p, m[1]).time < OpOf(p, w).time
  /\ \A x \in OfKinds(p, {"barrier"}) : \A r \in DOMAIN p :
       \E y \in OfKinds(p, {"barrier"}) : y[1] = r /\ OpOf(p, y).time = OpOf(p, x).time
  /\ \A x, y \in OfKinds(p, {"barrier"}) :
       x[1] = y[1] /\ OpOf(p, x).time = OpOf(p, y).time => x = y

(***************************************************************************)
(* What is called in an iteration is waited for in it.                     *)
(***************************************************************************)
WaitedFor(p) ==
  \A x \in OfKinds(p, {"isend", "irecv"}) :
    \E w \in Operations(p) :
      /\ AwaitedBy(p, x, w)
      /\ \A k \in x[2] .. w[2] : p[x[1]][k].iter = OpOf(p, x).iter

WellFormed(p) ==
  \A r \in DOMAIN p :
    /\ Len(p[r]) \in Nat
    /\ \A k \in 1 .. Len(p[r]) : p[r][k].op \in Kinds /\ p[r][k].time \in Nat

(***************************************************************************)
(* All that is asked of a program.                                         *)
(***************************************************************************)
Sound(p) == WellFormed(p) /\ Orderly(p) /\ Scheduled(p) /\ WaitedFor(p)

(***************************************************************************)
(* Mates have met when both have been called, a barrier has been passed by *)
(* all ranks or by none, and what was waited for is not pending.           *)
(***************************************************************************)
MatesMet == matched = {m \in Mates(program) : Passed(m[1]) /\ Passed(m[2])}

SameBarriers ==
  \A x, y \in OfKinds(program, {"barrier"}) :
    Op(x).time = Op(y).time => (Passed(x) <=> Passed(y))

WaitsOver ==
  \A r \in Rank : \A x \in Pending(r) : \A k \in 1 .. at[r] - 1 :
    ~ AwaitedBy(program, x, <<r, k>>)

(***************************************************************************)
(* The inductive invariant, which says of the programs only once what is   *)
(* asked of them.                                                          *)
(***************************************************************************)
Started == \E r \in Rank : at[r] > 1

IInv ==
  /\ ~ Started => Sound(program)
  /\ MatesMet
  /\ SameBarriers
  /\ WaitsOver
=============================================================================
