--------------------------- MODULE MTBarrier_proofs ---------------------------
(***************************************************************************)
(* Proofs about omp_aware_barrier, for every set of processes, every set   *)
(* of threads and every number of calls.                                   *)
(***************************************************************************)
EXTENDS MTBarrier, TLAPS

(***************************************************************************)
(* Of the two omp barriers of a call the first begins it and the second    *)
(* ends it.                                                                *)
(***************************************************************************)
LEMMA Halves ==
  ASSUME NEW n \in Nat
  PROVE  /\ n \div 2 \in Nat
         /\ Between(n) => (n + 1) \div 2 = n \div 2 + 1
         /\ ~ Between(n) => (n + 1) \div 2 = n \div 2
<1>1. PICK m \in Nat : n = 2 * m \/ n = 2 * m + 1
  <2>1. n \div 2 \in Nat /\ (n = 2 * (n \div 2) \/ n = 2 * (n \div 2) + 1)
    OBVIOUS
  <2>. QED  BY <2>1
<1>2. CASE n = 2 * m
  BY <1>1, <1>2 DEF Between
<1>3. CASE n = 2 * m + 1
  BY <1>1, <1>3 DEF Between
<1>4. n \div 2 \in Nat
  OBVIOUS
<1>. QED
  BY <1>1, <1>2, <1>3, <1>4

(***************************************************************************)
(* At the beginning no thread has come to any barrier.                     *)
(***************************************************************************)
LEMMA InitInv ==
  ASSUME Init
  PROVE  IInv
<1>1. 0 \in 0 .. 2 * Episodes /\ 0 \in 0 .. Episodes /\ CallsOf(0) = 0 /\ 0 \div 2 = 0
  BY EpisodesAssumption DEF CallsOf
<1>2. TypeOK
  BY <1>1 DEF Init, TypeOK
<1>3. OmpBarrier /\ MPIBarrier /\ ThreadZero
  BY <1>1, ThreadAssumption DEF Init, OmpBarrier, MPIBarrier, ThreadZero
<1>. QED
  BY <1>2, <1>3 DEF IInv

(***************************************************************************)
(* A thread comes to an omp barrier.                                       *)
(***************************************************************************)
LEMMA ArriveInv ==
  ASSUME IInv, NEW p \in Proc, NEW t \in Thread, Arrive(p, t)
  PROVE  IInv'
<1>1. /\ arrived[p][t] = passed[p][t] /\ arrived[p][t] < 2 * Episodes
      /\ (t = 0 /\ Between(passed[p][t])) => ended[p] = CallsOf(passed[p][t])
      /\ UNCHANGED <<passed, begun, ended>>
  BY DEF Arrive
<1>2. /\ arrived \in [Proc -> [Thread -> 0 .. 2 * Episodes]]
      /\ passed \in [Proc -> [Thread -> 0 .. 2 * Episodes]]
      /\ begun \in [Proc -> 0 .. Episodes] /\ ended \in [Proc -> 0 .. Episodes]
      /\ Episodes \in Nat
  BY EpisodesAssumption DEF IInv, TypeOK
<1>3. /\ arrived' \in [Proc -> [Thread -> 0 .. 2 * Episodes]]
      /\ arrived'[p][t] = arrived[p][t] + 1
      /\ \A q \in Proc, u \in Thread :
           q # p \/ u # t => arrived'[q][u] = arrived[q][u]
  BY <1>1, <1>2 DEF Arrive
<1>4. TypeOK'
  BY <1>1, <1>2, <1>3 DEF TypeOK
<1>5. OmpBarrier'
  <2>1. ASSUME NEW q \in Proc, NEW v \in Thread
        PROVE  /\ arrived[q][v] \in Int /\ arrived'[q][v] \in Int /\ passed[q][v] \in Int
               /\ arrived[q][v] <= arrived'[q][v]
               /\ arrived'[q][v] <= passed[q][v] + 1
    <3>1. /\ arrived[q][v] \in Int /\ arrived'[q][v] \in Int /\ passed[q][v] \in Int
      BY <1>2, <1>3
    <3>2. CASE q = p /\ v = t
      BY <1>1, <1>3, <3>1, <3>2
    <3>3. CASE ~ (q = p /\ v = t)
      <4>1. arrived'[q][v] = arrived[q][v]
        BY <1>3, <3>3
      <4>2. passed[q][v] <= arrived[q][v] /\ arrived[q][v] <= passed[q][v] + 1
        BY DEF IInv, OmpBarrier
      <4>. QED  BY <3>1, <4>1, <4>2
    <3>. QED  BY <3>1, <3>2, <3>3
  <2>2. ASSUME NEW q \in Proc, NEW v \in Thread, NEW u \in Thread
        PROVE  passed[q][v] <= arrived'[q][u]
    <3>1. passed[q][v] <= arrived[q][u]
      BY DEF IInv, OmpBarrier
    <3>. QED  BY <2>1, <3>1
  <2>. QED
    BY <1>1, <2>1, <2>2 DEF OmpBarrier
<1>6. MPIBarrier'
  BY <1>1 DEF IInv, MPIBarrier
<1>7. ThreadZero'
  <2>1. ASSUME t = 0
        PROVE  arrived'[p][0] \div 2 <= ended[p]
    <3>1. arrived[p][0] \in 0 .. 2 * Episodes /\ arrived'[p][0] = arrived[p][0] + 1
          /\ ended[p] \in 0 .. Episodes /\ arrived[p][0] \div 2 <= ended[p]
      BY <1>2, <1>3, <2>1 DEF IInv, ThreadZero
    <3>2. CASE arrived[p][0] % 2 = 1
      <4>1. ended[p] = (arrived[p][0] + 1) \div 2
        <5>1. passed[p][0] = arrived[p][0]
          BY <1>1, <2>1
        <5>. QED  BY <1>1, <2>1, <3>2, <5>1 DEF Between, CallsOf
      <4>. QED  BY <3>1, <4>1
    <3>3. CASE arrived[p][0] % 2 # 1
      <4>1. (arrived[p][0] + 1) \div 2 = arrived[p][0] \div 2
        BY <3>1, <3>3, Halves DEF Between
      <4>. QED  BY <3>1, <4>1
    <3>. QED  BY <3>2, <3>3
  <2>2. ASSUME NEW q \in Proc
        PROVE  arrived'[q][0] \div 2 <= ended[q]
    <3>1. CASE q = p /\ t = 0
      BY <2>1, <3>1
    <3>2. CASE ~ (q = p /\ t = 0)
      BY <1>3, <3>2, ThreadAssumption DEF IInv, ThreadZero
    <3>. QED  BY <3>1, <3>2
  <2>. QED
    BY <1>1, <2>2 DEF IInv, ThreadZero
<1>. QED
  BY <1>4, <1>5, <1>6, <1>7 DEF IInv

(***************************************************************************)
(* A thread leaves an omp barrier.                                         *)
(***************************************************************************)
LEMMA PassInv ==
  ASSUME IInv, NEW p \in Proc, NEW t \in Thread, Pass(p, t)
  PROVE  IInv'
<1>1. /\ passed[p][t] < arrived[p][t]
      /\ \A u \in Thread : arrived[p][u] >= arrived[p][t]
      /\ UNCHANGED <<arrived, begun, ended>>
  BY DEF Pass
<1>2. /\ arrived \in [Proc -> [Thread -> 0 .. 2 * Episodes]]
      /\ passed \in [Proc -> [Thread -> 0 .. 2 * Episodes]]
      /\ begun \in [Proc -> 0 .. Episodes] /\ ended \in [Proc -> 0 .. Episodes]
      /\ Episodes \in Nat
  BY EpisodesAssumption DEF IInv, TypeOK
<1>3. /\ passed' \in [Proc -> [Thread -> 0 .. 2 * Episodes]]
      /\ passed'[p][t] = passed[p][t] + 1
      /\ \A q \in Proc, u \in Thread :
           q # p \/ u # t => passed'[q][u] = passed[q][u]
  BY <1>1, <1>2 DEF Pass
<1>4. TypeOK'
  BY <1>1, <1>2, <1>3 DEF TypeOK
<1>5. OmpBarrier'
  <2>1. ASSUME NEW q \in Proc, NEW v \in Thread
        PROVE  /\ arrived[q][v] \in Int /\ passed[q][v] \in Int /\ passed'[q][v] \in Int
               /\ passed'[q][v] <= arrived[q][v]
               /\ arrived[q][v] <= passed'[q][v] + 1
    <3>1. /\ arrived[q][v] \in Int /\ passed'[q][v] \in Int /\ passed[q][v] \in Int
      BY <1>2, <1>3
    <3>2. CASE q = p /\ v = t
      <4>1. arrived[p][t] <= passed[p][t] + 1
        BY DEF IInv, OmpBarrier
      <4>. QED  BY <1>1, <1>2, <1>3, <3>1, <3>2, <4>1
    <3>3. CASE ~ (q = p /\ v = t)
      <4>1. passed'[q][v] = passed[q][v]
        BY <1>3, <3>3
      <4>2. passed[q][v] <= arrived[q][v] /\ arrived[q][v] <= passed[q][v] + 1
        BY DEF IInv, OmpBarrier
      <4>. QED  BY <3>1, <4>1, <4>2
    <3>. QED  BY <3>1, <3>2, <3>3
  <2>2. ASSUME NEW q \in Proc, NEW v \in Thread, NEW u \in Thread
        PROVE  passed'[q][v] <= arrived[q][u]
    <3>1. CASE q = p /\ v = t
      <4>1. passed'[q][v] <= arrived[p][t] /\ arrived[p][t] <= arrived[p][u]
        BY <1>1, <2>1, <3>1
      <4>. QED  BY <2>1, <3>1, <4>1
    <3>2. CASE ~ (q = p /\ v = t)
      BY <1>3, <3>2 DEF IInv, OmpBarrier
    <3>. QED  BY <3>1, <3>2
  <2>. QED
    BY <1>1, <2>1, <2>2 DEF OmpBarrier
<1>6. MPIBarrier'
  BY <1>1 DEF IInv, MPIBarrier
<1>7. ThreadZero'
  <2>1. ASSUME NEW q \in Proc
        PROVE  CallsOf(passed[q][0]) <= CallsOf(passed'[q][0])
    <3>1. passed[q][0] \in Nat /\ passed'[q][0] \in Nat
      BY <1>2, <1>3, ThreadAssumption
    <3>2. passed[q][0] <= passed'[q][0]
      <4>1. CASE q = p /\ t = 0
        BY <1>3, <3>1, <4>1
      <4>2. CASE ~ (q = p /\ t = 0)
        BY <1>3, <3>1, <4>2, ThreadAssumption
      <4>. QED  BY <4>1, <4>2
    <3>. QED  BY <3>1, <3>2 DEF CallsOf
  <2>2. ASSUME NEW q \in Proc
        PROVE  begun[q] \in Int /\ CallsOf(passed[q][0]) \in Int /\ CallsOf(passed'[q][0]) \in Int
    BY <1>2, <1>3, ThreadAssumption DEF CallsOf
  <2>3. ASSUME NEW q \in Proc
        PROVE  begun[q] <= CallsOf(passed'[q][0])
    <3>1. begun[q] <= CallsOf(passed[q][0])
      BY DEF IInv, ThreadZero
    <3>. QED  BY <2>1, <2>2, <3>1
  <2>. QED
    BY <1>1, <2>3 DEF IInv, ThreadZero, CallsOf
<1>. QED
  BY <1>4, <1>5, <1>6, <1>7 DEF IInv

(***************************************************************************)
(* Thread 0 calls bfn, or returns from it.                                 *)
(***************************************************************************)
LEMMA CallReturnInv ==
  ASSUME IInv, NEW p \in Proc, Call(p) \/ Return(p)
  PROVE  IInv'
<1>1. /\ begun \in [Proc -> 0 .. Episodes] /\ ended \in [Proc -> 0 .. Episodes]
      /\ Episodes \in Nat /\ UNCHANGED <<arrived, passed>>
      /\ passed[p][0] \in 0 .. 2 * Episodes
  BY EpisodesAssumption, ThreadAssumption DEF IInv, TypeOK, Call, Return
<1>2. OmpBarrier'
  BY <1>1 DEF IInv, OmpBarrier
<1>3. CASE Call(p)
  <2>1. /\ begun' = [begun EXCEPT ![p] = @ + 1] /\ UNCHANGED ended
        /\ begun[p] < CallsOf(passed[p][0])
    BY <1>3 DEF Call
  <2>2. CallsOf(passed[p][0]) \in 0 .. Episodes
    BY <1>1 DEF CallsOf
  <2>3. TypeOK'
    BY <1>1, <2>1, <2>2 DEF IInv, TypeOK
  <2>4. MPIBarrier'
    BY <1>1, <2>1 DEF IInv, MPIBarrier
  <2>5. ThreadZero'
    BY <1>1, <2>1, <2>2 DEF IInv, ThreadZero, CallsOf
  <2>. QED
    BY <1>2, <2>3, <2>4, <2>5 DEF IInv
<1>4. CASE Return(p)
  <2>1. /\ ended' = [ended EXCEPT ![p] = @ + 1] /\ UNCHANGED begun
        /\ ended[p] < begun[p] /\ \A q \in Proc : begun[q] >= begun[p]
    BY <1>4 DEF Return
  <2>2. TypeOK'
    BY <1>1, <2>1 DEF IInv, TypeOK
  <2>3. MPIBarrier'
    BY <1>1, <2>1 DEF IInv, MPIBarrier
  <2>4. ASSUME NEW q \in Proc
        PROVE  ended[q] <= ended'[q] /\ arrived[q][0] \div 2 \in Int
               /\ ended[q] \in Int /\ ended'[q] \in Int
    BY <1>1, <2>1, ThreadAssumption DEF IInv, TypeOK
  <2>5. ThreadZero'
    BY <1>1, <2>1, <2>4 DEF IInv, ThreadZero, CallsOf
  <2>. QED
    BY <1>2, <2>2, <2>3, <2>5 DEF IInv
<1>. QED
  BY <1>3, <1>4

(***************************************************************************)
(* The invariant holds in every run.                                       *)
(***************************************************************************)
THEOREM Inductive == Spec => []IInv
<1>1. Init => IInv
  BY InitInv
<1>2. IInv /\ [Next]_vars => IInv'
  <2>1. CASE UNCHANGED vars
    BY <2>1 DEF vars, IInv, TypeOK, OmpBarrier, MPIBarrier, ThreadZero
  <2>. QED
    BY <2>1, ArriveInv, PassInv, CallReturnInv DEF Next, ThreadStep, Terminated
<1>. QED
  BY <1>1, <1>2, PTL DEF Spec

(***************************************************************************)
(* A thread that has returned from its k-th call has been held by thread 0 *)
(* of its process until every process had come to its k-th bfn, and for    *)
(* that all its threads to their k-th call.                                *)
(***************************************************************************)
LEMMA PassedArrived ==
  ASSUME IInv, NEW p \in Proc, NEW q \in Proc, NEW u \in Thread,
         NEW k \in Nat, arrived[p][0] >= 2 * k
  PROVE  CallsOf(arrived[q][u]) >= k
<1>1. /\ arrived[p][0] \in Nat /\ arrived[q][u] \in Nat /\ passed[q][0] \in Nat
      /\ begun[q] \in Nat /\ ended[p] \in Nat
  BY EpisodesAssumption, ThreadAssumption DEF IInv, TypeOK
<1>2. ended[p] >= k
  <2>1. arrived[p][0] \div 2 <= ended[p]
    BY DEF IInv, ThreadZero
  <2>. QED  BY <1>1, <2>1
<1>3. begun[q] >= k
  BY <1>1, <1>2 DEF IInv, MPIBarrier
<1>4. CallsOf(passed[q][0]) >= k
  <2>1. begun[q] <= CallsOf(passed[q][0])
    BY DEF IInv, ThreadZero
  <2>. QED  BY <1>1, <1>3, <2>1 DEF CallsOf
<1>5. passed[q][0] <= arrived[q][u]
  BY ThreadAssumption DEF IInv, OmpBarrier
<1>. QED
  BY <1>1, <1>4, <1>5 DEF CallsOf

(***************************************************************************)
(* Every thread has begun the calls it has returned from, and all others   *)
(* have.                                                                   *)
(***************************************************************************)
LEMMA AllBegun ==
  ASSUME IInv, NEW p \in Proc, NEW q \in Proc, NEW t \in Thread, NEW u \in Thread
  PROVE  passed[p][t] \div 2 <= CallsOf(arrived[q][u])
<1>. DEFINE k == passed[p][t] \div 2
<1>1. passed[p][t] \in Nat /\ arrived[p][0] \in Nat
  BY EpisodesAssumption, ThreadAssumption DEF IInv, TypeOK
<1>2. k \in Nat /\ passed[p][t] >= 2 * k
  BY <1>1
<1>3. passed[p][t] <= arrived[p][0]
  BY ThreadAssumption DEF IInv, OmpBarrier
<1>. HIDE DEF k
<1>4. arrived[p][0] >= 2 * k
  BY <1>1, <1>2, <1>3
<1>5. CallsOf(arrived[q][u]) >= k
  BY <1>2, <1>4, PassedArrived
<1>6. CallsOf(arrived[q][u]) \in Int
  BY EpisodesAssumption DEF IInv, TypeOK, CallsOf
<1>. QED
  BY <1>2, <1>5, <1>6 DEF k

(***************************************************************************)
(* The variables have values of their kinds.                               *)
(***************************************************************************)
THEOREM TypeCorrect == Spec => []TypeOK
<1>1. IInv => TypeOK
  BY DEF IInv
<1>. QED
  BY <1>1, Inductive, PTL

(***************************************************************************)
(* The threads of all processes start together.                            *)
(***************************************************************************)
THEOREM Together == Spec => []StartTogether
<1>1. IInv => StartTogether
  BY AllBegun DEF StartTogether
<1>. QED
  BY <1>1, Inductive, PTL

-----------------------------------------------------------------------------
(***************************************************************************)
(* Coming to the first omp barrier of a call is to enter the barrier of    *)
(* all threads, coming to the second changes nothing for it.               *)
(***************************************************************************)
LEMMA ArriveAbstract ==
  ASSUME IInv, NEW p \in Proc, NEW t \in Thread, Arrive(p, t)
  PROVE  [Abstract!Next]_(Abstract!vars)
<1>. DEFINE All == Proc \X Thread
            x == <<p, t>>
            entered == [y \in All |-> CallsOf(arrived[y[1]][y[2]])]
            left == [y \in All |-> passed[y[1]][y[2]] \div 2]
            n == arrived[p][t]
<1>1. /\ n \in 0 .. 2 * Episodes /\ n < 2 * Episodes /\ passed[p][t] = n
      /\ arrived'[p][t] = n + 1
      /\ \A q \in Proc, u \in Thread :
           q # p \/ u # t => arrived'[q][u] = arrived[q][u]
      /\ UNCHANGED passed
  BY DEF IInv, TypeOK, Arrive
<1>2. UNCHANGED left
  BY <1>1
<1>3. entered' = [entered EXCEPT ![x] = CallsOf(n + 1)]
  <2>1. ASSUME NEW y \in All
        PROVE  entered'[y] = IF y = x THEN CallsOf(n + 1) ELSE entered[y]
    BY <1>1
  <2>. QED  BY <2>1
<1>4. x \in All /\ entered[x] = CallsOf(n) /\ left[x] = n \div 2
  BY <1>1
<1>5. n \in Nat /\ n + 1 \in Nat
  BY <1>1, EpisodesAssumption
<1>. HIDE DEF n, entered, left, x, All
<1>6. CASE Between(n)
  <2>1. CallsOf(n + 1) = CallsOf(n)
    <3>1. (n + 1) \div 2 = n \div 2 + 1
      BY <1>5, <1>6, Halves
    <3>2. ~ Between(n + 1)
      BY <1>5, <1>6 DEF Between
    <3>3. (n + 1 + 1) \div 2 = (n + 1) \div 2
      BY <1>5, <3>2, Halves
    <3>. QED  BY <3>1, <3>3 DEF CallsOf
  <2>2. UNCHANGED entered
    BY <1>3, <1>4, <2>1 DEF entered
  <2>. QED
    BY <1>2, <2>2 DEF Abstract!vars, entered, left, All
<1>7. CASE ~ Between(n)
  <2>1. CallsOf(n) = n \div 2
    BY <1>5, <1>7, Halves DEF CallsOf
  <2>2. CallsOf(n + 1) = CallsOf(n) + 1
    <3>1. Between(n + 1)
      BY <1>5, <1>7 DEF Between
    <3>. QED  BY <1>5, <1>7, <2>1, <3>1, Halves DEF CallsOf
  <2>3. CallsOf(n) < Episodes
    BY <1>1, <1>5, <2>1, EpisodesAssumption
  <2>4. Abstract!Enter(x)
    BY <1>2, <1>3, <1>4, <2>1, <2>2, <2>3 DEF Abstract!Enter, entered, left, All
  <2>. QED
    BY <1>4, <2>4 DEF Abstract!Next, All
<1>. QED
  BY <1>6, <1>7

(***************************************************************************)
(* Leaving the second omp barrier of a call is to return from the barrier  *)
(* of all threads, leaving the first changes nothing for it.               *)
(***************************************************************************)
LEMMA PassAbstract ==
  ASSUME IInv, NEW p \in Proc, NEW t \in Thread, Pass(p, t)
  PROVE  [Abstract!Next]_(Abstract!vars)
<1>. DEFINE All == Proc \X Thread
            x == <<p, t>>
            entered == [y \in All |-> CallsOf(arrived[y[1]][y[2]])]
            left == [y \in All |-> passed[y[1]][y[2]] \div 2]
            n == passed[p][t]
            h == n \div 2
<1>1. /\ n \in 0 .. 2 * Episodes /\ arrived[p][t] = n + 1
      /\ passed'[p][t] = n + 1 /\ n + 1 \in 0 .. 2 * Episodes
      /\ \A q \in Proc, u \in Thread :
           q # p \/ u # t => passed'[q][u] = passed[q][u]
      /\ \A u \in Thread : arrived[p][u] >= n + 1
      /\ UNCHANGED arrived
  <2>1. /\ n \in 0 .. 2 * Episodes /\ arrived[p][t] \in 0 .. 2 * Episodes
        /\ n < arrived[p][t] /\ arrived[p][t] <= n + 1
        /\ \A u \in Thread : arrived[p][u] >= arrived[p][t]
        /\ UNCHANGED arrived
    BY DEF IInv, TypeOK, OmpBarrier, Pass
  <2>2. arrived[p][t] = n + 1
    BY <2>1, EpisodesAssumption
  <2>3. /\ passed'[p][t] = n + 1
        /\ \A q \in Proc, u \in Thread :
             q # p \/ u # t => passed'[q][u] = passed[q][u]
    BY DEF IInv, TypeOK, Pass
  <2>. QED
    BY <2>1, <2>2, <2>3
<1>2. UNCHANGED entered
  BY <1>1
<1>3. left' = [left EXCEPT ![x] = (n + 1) \div 2]
  <2>1. ASSUME NEW y \in All
        PROVE  left'[y] = IF y = x THEN (n + 1) \div 2 ELSE left[y]
    BY <1>1
  <2>. QED  BY <2>1
<1>4. x \in All /\ entered[x] = CallsOf(n + 1) /\ left[x] = h
  BY <1>1
<1>5. n \in Nat /\ n + 1 \in Nat /\ h \in Nat
  BY <1>1, EpisodesAssumption, Halves
<1>6. CASE ~ Between(n)
  <2>1. (n + 1) \div 2 = h
    BY <1>5, <1>6, Halves
  <2>2. UNCHANGED left
    <3>. HIDE DEF n, left, x, All
    <3>. QED  BY <1>3, <1>4, <2>1 DEF left
  <2>. QED
    BY <1>2, <2>2 DEF Abstract!vars
<1>7. CASE Between(n)
  <2>1. (n + 1) \div 2 = h + 1
    BY <1>5, <1>7, Halves
  <2>2. CallsOf(n + 1) = h + 1
    <3>1. ~ Between(n + 1)
      BY <1>5, <1>7 DEF Between
    <3>2. (n + 1 + 1) \div 2 = (n + 1) \div 2
      BY <1>5, <3>1, Halves
    <3>. QED  BY <2>1, <3>2 DEF CallsOf
  <2>3. ASSUME NEW y \in All
        PROVE  entered[y] >= h + 1
    <3>1. PICK q \in Proc, u \in Thread : y = <<q, u>>
      OBVIOUS
    <3>2. arrived[p][0] \in Nat /\ arrived[p][0] >= n + 1 /\ h + 1 \in Nat
      <4>1. h + 1 \in Nat
        BY <1>5
      <4>. QED  BY <1>1, <4>1, ThreadAssumption, EpisodesAssumption DEF IInv, TypeOK
    <3>3. n + 1 = 2 * (h + 1)
      BY <1>5, <1>7 DEF Between
    <3>4. CallsOf(arrived[q][u]) >= h + 1
      <4>. DEFINE k == h + 1
      <4>. HIDE DEF n, h
      <4>1. k \in Nat /\ arrived[p][0] >= 2 * k
        BY <3>2, <3>3, Zenon
      <4>. HIDE DEF k
      <4>2. CallsOf(arrived[q][u]) >= k
        BY <4>1, PassedArrived, Zenon
      <4>. QED  BY <4>2 DEF k
    <3>. QED  BY <3>1, <3>4
  <2>. HIDE DEF n, h, entered, left, x
  <2>4. Abstract!Leave(x)
    <3>1. left[x] < entered[x] /\ entered[x] = h + 1 /\ left[x] + 1 = (n + 1) \div 2
      <4>1. entered[x] = h + 1 /\ left[x] = h
        BY <1>4, <2>2
      <4>. HIDE DEF left, entered
      <4>. QED  BY <1>5, <2>1, <4>1, SMTT(30)
    <3>2. left' = [left EXCEPT ![x] = @ + 1]
      BY <1>3, <3>1 DEF left
    <3>3. \A y \in All : entered[y] >= entered[x]
      BY <2>3, <3>1
    <3>. QED
      BY <1>2, <3>1, <3>2, <3>3, SMTT(30) DEF Abstract!Leave, entered, left
  <2>. QED
    BY <1>4, <2>4 DEF Abstract!Next
<1>. QED
  BY <1>6, <1>7

(***************************************************************************)
(* omp_aware_barrier implements the barrier of all threads.                *)
(***************************************************************************)
THEOREM Refinement == Spec => ImplementsBarrier
<1>1. Init => Abstract!Init
  <2>1. CallsOf(0) = 0 /\ 0 \div 2 = 0
    BY DEF CallsOf
  <2>. QED
    BY <2>1 DEF Init, Abstract!Init
<1>2. ASSUME IInv, [Next]_vars
      PROVE  [Abstract!Next]_(Abstract!vars)
  <2>1. CASE UNCHANGED <<arrived, passed>>
    BY <2>1 DEF Abstract!vars
  <2>2. ASSUME NEW p \in Proc, Call(p) \/ Return(p)
        PROVE  UNCHANGED <<arrived, passed>>
    BY <2>2 DEF Call, Return
  <2>. QED
    BY <1>2, <2>1, <2>2, ArriveAbstract, PassAbstract DEF Next, ThreadStep, Terminated, vars
<1>. QED
  BY <1>1, <1>2, Inductive, PTL DEF Spec, ImplementsBarrier, Abstract!Spec
=============================================================================
