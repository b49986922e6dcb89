---------------------------- MODULE Kernels_proofs ----------------------------
(***************************************************************************)
(* In every call of a point to point kernel all messages are the right     *)
(* ones, no rank waits in vain, nothing is left and no sender is far       *)
(* ahead: proofs for all kernels with any number of processes, iterations, *)
(* messages and sizes, any stride, any draw and any grid.                  *)
(***************************************************************************)
EXTENDS Kernels, Matching_proofs

-----------------------------------------------------------------------------
(***************************************************************************)
(* Operation makes a sequence of one of them.                              *)
(***************************************************************************)
LEMMA EntryIs ==
  ASSUME NEW op \in Kinds, NEW peer \in Int, NEW tag \in Int, NEW x \in Labels, NEW i \in Nat,
         NEW ph \in Nat
  PROVE  /\ Operation(op, peer, tag, x, i, ph) = <<Entry(op, peer, tag, x, i, ph)>>
         /\ Entry(op, peer, tag, x, i, ph) \in OpSet
<1>1. Operation(op, peer, tag, x, i, ph) = <<Entry(op, peer, tag, x, i, ph)>>
  BY DEF Operation, Entry, Phases
<1>2. 16 * i + ph \in Nat /\ <<x, i>> \in Labels \X Nat
  OBVIOUS
<1> QED BY <1>1, <1>2 DEF Entry, OpSet

(***************************************************************************)
(* A send as a sequence of one operation.                                  *)
(***************************************************************************)
LEMMA IsendIs ==
  ASSUME NEW d \in Int, NEW tag \in Int, NEW x \in Labels, NEW i \in Nat, NEW ph \in Nat
  PROVE  /\ Isend(d, tag, x, i, ph) = <<Entry("isend", d, tag, x, i, ph)>>
         /\ Entry("isend", d, tag, x, i, ph) \in OpSet
<1>1. "isend" \in Kinds
  BY DEF Kinds
<1> QED BY <1>1, EntryIs DEF Isend

(***************************************************************************)
(* A receive as a sequence of one operation.                               *)
(***************************************************************************)
LEMMA IrecvIs ==
  ASSUME NEW s \in Int, NEW tag \in Int, NEW x \in Labels, NEW i \in Nat, NEW ph \in Nat
  PROVE  /\ Irecv(s, tag, x, i, ph) = <<Entry("irecv", s, tag, x, i, ph)>>
         /\ Entry("irecv", s, tag, x, i, ph) \in OpSet
<1>1. "irecv" \in Kinds
  BY DEF Kinds
<1> QED BY <1>1, EntryIs DEF Irecv

(***************************************************************************)
(* A wait or a barrier as a sequence of one operation.                     *)
(***************************************************************************)
LEMMA WaitIs ==
  ASSUME NEW kind \in Kinds, NEW i \in Nat, NEW ph \in Nat
  PROVE  /\ Wait(kind, i, ph) = <<Entry(kind, ANY, ANY, "none", i, ph)>>
         /\ Entry(kind, ANY, ANY, "none", i, ph) \in OpSet
<1>1. ANY \in Int /\ "none" \in Labels
  BY DEF ANY, Labels
<1> QED BY <1>1, EntryIs DEF Wait

(***************************************************************************)
(* The waits of all kinds, and the barrier.                                *)
(***************************************************************************)
LEMMA WaitsAre ==
  ASSUME NEW i \in Nat, NEW ph \in Nat
  PROVE  /\ Wait("wait_isend", i, ph) = <<Entry("wait_isend", ANY, ANY, "none", i, ph)>>
         /\ Entry("wait_isend", ANY, ANY, "none", i, ph) \in OpSet
         /\ Wait("wait_irecv", i, ph) = <<Entry("wait_irecv", ANY, ANY, "none", i, ph)>>
         /\ Entry("wait_irecv", ANY, ANY, "none", i, ph) \in OpSet
         /\ Waitall(i, ph) = <<Entry("waitall", ANY, ANY, "none", i, ph)>>
         /\ Entry("waitall", ANY, ANY, "none", i, ph) \in OpSet
         /\ Barrier(i, ph) = <<Entry("barrier", ANY, ANY, "none", i, ph)>>
         /\ Entry("barrier", ANY, ANY, "none", i, ph) \in OpSet
<1>1. ANY \in Int /\ "none" \in Labels
  BY DEF ANY, Labels
<1>2. "wait_isend" \in Kinds /\ "wait_irecv" \in Kinds /\ "waitall" \in Kinds /\ "barrier" \in Kinds
  BY DEF Kinds, Waits
<1>3. /\ Wait("wait_isend", i, ph) = <<Entry("wait_isend", ANY, ANY, "none", i, ph)>>
      /\ Entry("wait_isend", ANY, ANY, "none", i, ph) \in OpSet
  BY <1>2, WaitIs
<1>4. /\ Wait("wait_irecv", i, ph) = <<Entry("wait_irecv", ANY, ANY, "none", i, ph)>>
      /\ Entry("wait_irecv", ANY, ANY, "none", i, ph) \in OpSet
  BY <1>2, WaitIs
<1>5. /\ Waitall(i, ph) = <<Entry("waitall", ANY, ANY, "none", i, ph)>>
      /\ Entry("waitall", ANY, ANY, "none", i, ph) \in OpSet
  BY <1>2, WaitIs DEF Waitall
<1>6. /\ Barrier(i, ph) = <<Entry("barrier", ANY, ANY, "none", i, ph)>>
      /\ Entry("barrier", ANY, ANY, "none", i, ph) \in OpSet
  BY <1>1, <1>2, EntryIs DEF Barrier
<1> QED BY <1>3, <1>4, <1>5, <1>6

(***************************************************************************)
(* A barrier of all ranks.                                                 *)
(***************************************************************************)
LEMMA BarrierPiece ==
  ASSUME NEW R, NEW V, NEW D, NEW i \in Nat, NEW ph \in 0 .. 15, R # {}
  PROVE  Piece(R, V, D, Everyone(R, Barrier(i, ph)), 16 * i + ph, 16 * i + ph + 1)
<1> DEFINE e == Entry("barrier", ANY, ANY, "none", i, ph)
           p == Everyone(R, Barrier(i, ph))
           t == 16 * i + ph
<1>1. /\ Barrier(i, ph) = <<e>> /\ e \in OpSet /\ e.op = "barrier" /\ e.iter = i /\ e.time = t
  <2>1. Barrier(i, ph) = <<e>> /\ e \in OpSet
    BY WaitsAre
  <2> QED BY <2>1 DEF Entry
<1>2. t \in Nat /\ t < t + 1 /\ 16 * i <= t /\ t < 16 * i + 16
  OBVIOUS
<1> HIDE DEF e, t
<1>3. p = [r \in R |-> <<e>>] /\ \A r \in R : p[r] = <<e>>
  BY <1>1 DEF Everyone
<1> HIDE DEF p
<1>4. p \in [R -> Seq(OpSet)] /\ DOMAIN p = R
  BY <1>1, <1>3
<1>5. ASSUME NEW x \in Operations(p)
      PROVE  x[1] \in R /\ x[2] = 1 /\ x = <<x[1], 1>> /\ OpOf(p, x) = e
  <2>1. x = <<x[1], x[2]>> /\ x[1] \in R /\ x[2] \in 1 .. Len(p[x[1]])
    BY <1>4, OperationsAre
  <2>2. p[x[1]] = <<e>> /\ Len(<<e>>) = 1 /\ <<e>>[1] = e
    BY <1>3, <2>1
  <2>3. x[2] \in 1 .. 1
    BY <2>1, <2>2
  <2>4. x[2] = 1
    BY <2>3
  <2> QED BY <2>1, <2>2, <2>4 DEF OpOf
<1>6. ASSUME NEW r \in R
      PROVE  <<r, 1>> \in OfKinds(p, {"barrier"}) /\ OpOf(p, <<r, 1>>) = e
  <2>1. p[r] = <<e>> /\ Len(<<e>>) = 1 /\ <<e>>[1] = e
    BY <1>3
  <2>2. <<r, 1>> \in Operations(p)
    <3>1. <<r, 1>>[1] = r /\ <<r, 1>>[2] = 1 /\ 1 \in 1 .. Len(p[r])
      BY <2>1
    <3> QED BY <1>4, <3>1, OperationsAre
  <2>3. OpOf(p, <<r, 1>>) = e
    BY <2>1 DEF OpOf
  <2> QED BY <1>1, <2>2, <2>3 DEF OfKinds
<1>7. \A kinds : "barrier" \notin kinds => OfKinds(p, kinds) = {}
  BY <1>1, <1>5 DEF OfKinds
<1>8. \A x \in OfKinds(p, {"barrier"}) : x \in Operations(p)
  BY DEF OfKinds
<1>9. Within(p, t, t + 1) /\ Sorted(p) /\ InTime(p)
  BY <1>1, <1>2, <1>5 DEF Within, Sorted, InTime
<1>10. Together(p)
  <2>1. ASSUME NEW x \in OfKinds(p, {"barrier"}), NEW r \in DOMAIN p
        PROVE  \E y \in OfKinds(p, {"barrier"}) : y[1] = r /\ OpOf(p, y).time = OpOf(p, x).time
    <3>1. <<r, 1>>[1] = r
      OBVIOUS
    <3> QED BY <1>4, <1>5, <1>6, <1>8, <3>1
  <2>2. \A x, y \in OfKinds(p, {"barrier"}) :
          x[1] = y[1] /\ OpOf(p, x).time = OpOf(p, y).time => x = y
    BY <1>5, <1>8
  <2> QED BY <2>1, <2>2 DEF Together
<1>11. WaitedFor(p) /\ Along(p, D)
  BY <1>7 DEF WaitedFor, Along
<1>12. Pairs(p, V, {})
  BY <1>7 DEF Pairs
<1>13. Listens(p, {}, D, t, t + 1)
  <2> SUFFICES ASSUME NEW j \in Nat, t <= 16 * j, 16 * j < t + 1
               PROVE  Meets(p, j)
    BY DEF Listens
  <2>1. j = i
    BY DEF t
  <2>2. PICK r : r \in R
    OBVIOUS
  <2> QED BY <1>1, <1>6, <2>1, <2>2 DEF Meets
<1>14. Piece(R, V, D, p, t, t + 1)
  BY <1>4, <1>9, <1>10, <1>11, <1>12, <1>13 DEF Piece
<1> QED BY <1>14 DEF p, t

(***************************************************************************)
(* MPI_Isend is one operation.                                             *)
(***************************************************************************)
LEMMA OutIs ==
  ASSUME NEW d \in Int, NEW tag \in Int, NEW x \in Labels, NEW i \in Nat, NEW ph \in Nat
  PROVE  \E e : Isend(d, tag, x, i, ph) = <<e>> /\ Out(e, d, tag, x, i, ph)
<1>1. /\ Isend(d, tag, x, i, ph) = <<Entry("isend", d, tag, x, i, ph)>>
      /\ Entry("isend", d, tag, x, i, ph) \in OpSet
  BY IsendIs
<1>2. Out(Entry("isend", d, tag, x, i, ph), d, tag, x, i, ph)
  BY <1>1 DEF Out, Entry
<1> QED BY <1>1, <1>2

(***************************************************************************)
(* MPI_Irecv is one operation.                                             *)
(***************************************************************************)
LEMMA InIs ==
  ASSUME NEW s \in Int, NEW tag \in Int, NEW x \in Labels, NEW i \in Nat, NEW ph \in Nat
  PROVE  \E e : Irecv(s, tag, x, i, ph) = <<e>> /\ In(e, s, tag, x, i, ph)
<1>1. /\ Irecv(s, tag, x, i, ph) = <<Entry("irecv", s, tag, x, i, ph)>>
      /\ Entry("irecv", s, tag, x, i, ph) \in OpSet
  BY IrecvIs
<1>2. In(Entry("irecv", s, tag, x, i, ph), s, tag, x, i, ph)
  BY <1>1 DEF In, Entry
<1> QED BY <1>1, <1>2

(***************************************************************************)
(* MPI_Wait and MPI_Waitall are one operation.                             *)
(***************************************************************************)
LEMMA PauseIs ==
  ASSUME NEW i \in Nat, NEW ph \in Nat
  PROVE  /\ \E e : Wait("wait_isend", i, ph) = <<e>> /\ Pause(e, "wait_isend", i, ph)
         /\ \E e : Wait("wait_irecv", i, ph) = <<e>> /\ Pause(e, "wait_irecv", i, ph)
         /\ \E e : Waitall(i, ph) = <<e>> /\ Pause(e, "waitall", i, ph)
<1>1. /\ Wait("wait_isend", i, ph) = <<Entry("wait_isend", ANY, ANY, "none", i, ph)>>
      /\ Entry("wait_isend", ANY, ANY, "none", i, ph) \in OpSet
  BY WaitsAre
<1>2. /\ Wait("wait_irecv", i, ph) = <<Entry("wait_irecv", ANY, ANY, "none", i, ph)>>
      /\ Entry("wait_irecv", ANY, ANY, "none", i, ph) \in OpSet
  BY WaitsAre
<1>3. /\ Waitall(i, ph) = <<Entry("waitall", ANY, ANY, "none", i, ph)>>
      /\ Entry("waitall", ANY, ANY, "none", i, ph) \in OpSet
  BY WaitsAre
<1>4. Pause(Entry("wait_isend", ANY, ANY, "none", i, ph), "wait_isend", i, ph)
  BY <1>1 DEF Pause, Entry
<1>5. Pause(Entry("wait_irecv", ANY, ANY, "none", i, ph), "wait_irecv", i, ph)
  BY <1>2 DEF Pause, Entry
<1>6. Pause(Entry("waitall", ANY, ANY, "none", i, ph), "waitall", i, ph)
  BY <1>3 DEF Pause, Entry
<1> QED BY <1>1, <1>2, <1>3, <1>4, <1>5, <1>6

(***************************************************************************)
(* A blocking send and a blocking receive.                                 *)
(***************************************************************************)
LEMMA SendIs ==
  ASSUME NEW d \in Int, NEW tag \in Int, NEW x \in Labels, NEW i \in Nat, NEW ph \in Nat
  PROVE  \E e, w : /\ Send(d, tag, x, i, ph) = <<e>> \o <<w>>
                   /\ Out(e, d, tag, x, i, ph) /\ Pause(w, "wait_isend", i, ph + 1)
<1>1. ph + 1 \in Nat
  OBVIOUS
<1>2. PICK e : Isend(d, tag, x, i, ph) = <<e>> /\ Out(e, d, tag, x, i, ph)
  BY OutIs
<1>3. PICK w : Wait("wait_isend", i, ph + 1) = <<w>> /\ Pause(w, "wait_isend", i, ph + 1)
  BY <1>1, PauseIs
<1> QED BY <1>2, <1>3 DEF Send

(***************************************************************************)
(* MPI_Recv is a receive and a wait for it.                                *)
(***************************************************************************)
LEMMA RecvIs ==
  ASSUME NEW s \in Int, NEW tag \in Int, NEW x \in Labels, NEW i \in Nat, NEW ph \in Nat
  PROVE  \E e, w : /\ Recv(s, tag, x, i, ph) = <<e>> \o <<w>>
                   /\ In(e, s, tag, x, i, ph) /\ Pause(w, "wait_irecv", i, ph + 1)
<1>1. ph + 1 \in Nat
  OBVIOUS
<1>2. PICK e : Irecv(s, tag, x, i, ph) = <<e>> /\ In(e, s, tag, x, i, ph)
  BY InIs
<1>3. PICK w : Wait("wait_irecv", i, ph + 1) = <<w>> /\ Pause(w, "wait_irecv", i, ph + 1)
  BY <1>1, PauseIs
<1> QED BY <1>2, <1>3 DEF Recv

-----------------------------------------------------------------------------
(***************************************************************************)
(* A rank that sends and then receives.                                    *)
(***************************************************************************)
LEMMA PingTalks ==
  ASSUME NEW d \in Int, NEW tag \in Int, NEW source \in Int, NEW anytag \in Int, NEW i \in Nat,
         NEW s,
         s = Send(d, tag, "data", i, 0) \o Recv(source, anytag, "data", i, 2)
  PROVE  /\ Only(s, i, {1}, {3}) /\ Posts(s, i, {1}, d, tag, "data", 0)
         /\ Gets(s, i, {3}, source, anytag, "data", 2)
<1>1. PICK a, b : /\ Send(d, tag, "data", i, 0) = <<a>> \o <<b>>
                  /\ Out(a, d, tag, "data", i, 0) /\ Pause(b, "wait_isend", i, 0 + 1)
  BY SendIs, DataIs
<1>2. PICK c, e : /\ Recv(source, anytag, "data", i, 2) = <<c>> \o <<e>>
                  /\ In(c, source, anytag, "data", i, 2) /\ Pause(e, "wait_irecv", i, 2 + 1)
  BY RecvIs, DataIs
<1>3. a \in OpSet /\ b \in OpSet /\ c \in OpSet /\ e \in OpSet
  BY <1>1, <1>2 DEF Out, In, Pause
<1>4. Four(s, a, b, c, e)
  BY <1>1, <1>2, <1>3, JoinFour
<1>5. s \in Seq(OpSet) /\ Len(s) = 4 /\ s[1] = a /\ s[2] = b /\ s[3] = c /\ s[4] = e
  BY <1>4 DEF Four
<1>6. 1 .. 4 = {1, 2, 3, 4}
  OBVIOUS
<1>7. /\ a.iter = i /\ b.iter = i /\ c.iter = i /\ e.iter = i
      /\ a.time = 16 * i + 0 /\ b.time = 16 * i + 1 /\ c.time = 16 * i + 2
      /\ e.time = 16 * i + 3 /\ a.op = "isend" /\ c.op = "irecv"
      /\ b.op = "wait_isend" /\ e.op = "wait_irecv"
  BY <1>1, <1>2 DEF Out, In, Pause
<1>8. Steps(s, i) /\ Await(s, 1, 16 * i + 0) /\ Await(s, 3, 16 * i + 2)
  <2>1. Wakes(a, b) /\ Wakes(c, e) /\ a.op # c.op
    BY <1>7 DEF Wakes
  <2> QED BY <1>4, <1>7, <2>1, FourSteps
<1>9. Only(s, i, {1}, {3})
  <2>1. OfFour(s, {1}, {3})
    BY <1>5, <1>7 DEF OfFour
  <2> QED BY <1>5, <1>8, <2>1, OnlyFour
<1>10. Posts(s, i, {1}, d, tag, "data", 0)
  BY <1>1, <1>5, <1>6, <1>8, PostOne
<1>11. Gets(s, i, {3}, source, anytag, "data", 2)
  BY <1>2, <1>5, <1>6, <1>8, GetOne
<1> QED BY <1>9, <1>10, <1>11

(***************************************************************************)
(* A rank that receives and then sends.                                    *)
(***************************************************************************)
LEMMA PongTalks ==
  ASSUME NEW d \in Int, NEW tag \in Int, NEW source \in Int, NEW anytag \in Int, NEW i \in Nat,
         NEW s,
         s = Recv(source, anytag, "data", i, 0) \o Send(d, tag, "data", i, 2)
  PROVE  /\ Only(s, i, {3}, {1}) /\ Posts(s, i, {3}, d, tag, "data", 2)
         /\ Gets(s, i, {1}, source, anytag, "data", 0)
<1>1. PICK c, e : /\ Send(d, tag, "data", i, 2) = <<c>> \o <<e>>
                  /\ Out(c, d, tag, "data", i, 2) /\ Pause(e, "wait_isend", i, 2 + 1)
  BY SendIs, DataIs
<1>2. PICK a, b : /\ Recv(source, anytag, "data", i, 0) = <<a>> \o <<b>>
                  /\ In(a, source, anytag, "data", i, 0) /\ Pause(b, "wait_irecv", i, 0 + 1)
  BY RecvIs, DataIs
<1>3. a \in OpSet /\ b \in OpSet /\ c \in OpSet /\ e \in OpSet
  BY <1>1, <1>2 DEF Out, In, Pause
<1>4. Four(s, a, b, c, e)
  BY <1>1, <1>2, <1>3, JoinFour
<1>5. s \in Seq(OpSet) /\ Len(s) = 4 /\ s[1] = a /\ s[2] = b /\ s[3] = c /\ s[4] = e
  BY <1>4 DEF Four
<1>6. 1 .. 4 = {1, 2, 3, 4}
  OBVIOUS
<1>7. /\ a.iter = i /\ b.iter = i /\ c.iter = i /\ e.iter = i
      /\ a.time = 16 * i + 0 /\ b.time = 16 * i + 1 /\ c.time = 16 * i + 2
      /\ e.time = 16 * i + 3 /\ a.op = "irecv" /\ c.op = "isend"
      /\ b.op = "wait_irecv" /\ e.op = "wait_isend"
  BY <1>1, <1>2 DEF Out, In, Pause
<1>8. Steps(s, i) /\ Await(s, 1, 16 * i + 0) /\ Await(s, 3, 16 * i + 2)
  <2>1. Wakes(a, b) /\ Wakes(c, e) /\ a.op # c.op
    BY <1>7 DEF Wakes
  <2> QED BY <1>4, <1>7, <2>1, FourSteps
<1>9. Only(s, i, {3}, {1})
  <2>1. OfFour(s, {3}, {1})
    BY <1>5, <1>7 DEF OfFour
  <2> QED BY <1>5, <1>8, <2>1, OnlyFour
<1>10. Posts(s, i, {3}, d, tag, "data", 2)
  BY <1>1, <1>5, <1>6, <1>8, PostOne
<1>11. Gets(s, i, {1}, source, anytag, "data", 0)
  BY <1>2, <1>5, <1>6, <1>8, GetOne
<1> QED BY <1>9, <1>10, <1>11

(***************************************************************************)
(* MPI_Isend, MPI_Recv, MPI_Wait: a send and a receive.                    *)
(***************************************************************************)
LEMMA BothTalks ==
  ASSUME NEW d \in Int, NEW tag \in Int, NEW source \in Int, NEW anytag \in Int, NEW i \in Nat,
         NEW s,
         s = Isend(d, tag, "data", i, 0) \o Recv(source, anytag, "data", i, 0) \o Waitall(i, 1)
  PROVE  /\ Only(s, i, {1}, {2}) /\ Posts(s, i, {1}, d, tag, "data", 0)
         /\ Gets(s, i, {2}, source, anytag, "data", 0)
<1>1. PICK a : Isend(d, tag, "data", i, 0) = <<a>> /\ Out(a, d, tag, "data", i, 0)
  BY OutIs, DataIs
<1>2. PICK b, c : /\ Recv(source, anytag, "data", i, 0) = <<b>> \o <<c>>
                  /\ In(b, source, anytag, "data", i, 0) /\ Pause(c, "wait_irecv", i, 0 + 1)
  BY RecvIs, DataIs
<1>3. PICK e : Waitall(i, 1) = <<e>> /\ Pause(e, "waitall", i, 1)
  BY PauseIs
<1>4. Four(s, a, b, c, e)
  <2>1. a \in OpSet /\ b \in OpSet /\ c \in OpSet /\ e \in OpSet
    BY <1>1, <1>2, <1>3 DEF Out, In, Pause
  <2> QED BY <1>1, <1>2, <1>3, <2>1, JoinMiddle
<1>5. s \in Seq(OpSet) /\ Len(s) = 4 /\ s[1] = a /\ s[2] = b /\ s[3] = c /\ s[4] = e
  BY <1>4 DEF Four
<1>6. 1 \in 1 .. 4 /\ 2 \in 1 .. 4
  OBVIOUS
<1>7. /\ a.iter = i /\ b.iter = i /\ c.iter = i /\ e.iter = i
      /\ a.time = 16 * i + 0 /\ b.time = 16 * i + 0 /\ c.time = 16 * i + 1
      /\ e.time = 16 * i + 1 /\ a.op = "isend" /\ b.op = "irecv"
      /\ c.op = "wait_irecv" /\ e.op = "waitall"
  BY <1>1, <1>2, <1>3 DEF Out, In, Pause
<1>8. Steps(s, i) /\ Await(s, 1, 16 * i + 0) /\ Await(s, 2, 16 * i + 0)
  <2>1. /\ a.op \in {"isend", "irecv"} /\ b.op \in {"isend", "irecv"} /\ c.op \in Waits
    BY <1>7 DEF Waits
  <2> QED BY <1>4, <1>7, <2>1, MiddleSteps
<1>9. Only(s, i, {1}, {2})
  <2>1. OfFour(s, {1}, {2})
    BY <1>5, <1>7 DEF OfFour
  <2> QED BY <1>5, <1>8, <2>1, OnlyFour
<1>10. Posts(s, i, {1}, d, tag, "data", 0)
  BY <1>1, <1>5, <1>6, <1>8, PostOne
<1>11. Gets(s, i, {2}, source, anytag, "data", 0)
  BY <1>2, <1>5, <1>6, <1>8, GetOne
<1> QED BY <1>9, <1>10, <1>11

(***************************************************************************)
(* MPI_Irecv, MPI_Send, MPI_Wait: the other way round.                     *)
(***************************************************************************)
LEMMA SwapTalks ==
  ASSUME NEW d \in Int, NEW tag \in Int, NEW source \in Int, NEW anytag \in Int, NEW i \in Nat,
         NEW s,
         s = Irecv(source, anytag, "data", i, 0) \o Send(d, tag, "data", i, 0) \o Waitall(i, 1)
  PROVE  /\ Only(s, i, {2}, {1}) /\ Posts(s, i, {2}, d, tag, "data", 0)
         /\ Gets(s, i, {1}, source, anytag, "data", 0)
<1>1. PICK a : Irecv(source, anytag, "data", i, 0) = <<a>> /\ In(a, source, anytag, "data", i, 0)
  BY InIs, DataIs
<1>2. PICK b, c : /\ Send(d, tag, "data", i, 0) = <<b>> \o <<c>>
                  /\ Out(b, d, tag, "data", i, 0) /\ Pause(c, "wait_isend", i, 0 + 1)
  BY SendIs, DataIs
<1>3. PICK e : Waitall(i, 1) = <<e>> /\ Pause(e, "waitall", i, 1)
  BY PauseIs
<1>4. Four(s, a, b, c, e)
  <2>1. a \in OpSet /\ b \in OpSet /\ c \in OpSet /\ e \in OpSet
    BY <1>1, <1>2, <1>3 DEF Out, In, Pause
  <2> QED BY <1>1, <1>2, <1>3, <2>1, JoinMiddle
<1>5. s \in Seq(OpSet) /\ Len(s) = 4 /\ s[1] = a /\ s[2] = b /\ s[3] = c /\ s[4] = e
  BY <1>4 DEF Four
<1>6. 1 \in 1 .. 4 /\ 2 \in 1 .. 4
  OBVIOUS
<1>7. /\ a.iter = i /\ b.iter = i /\ c.iter = i /\ e.iter = i
      /\ a.time = 16 * i + 0 /\ b.time = 16 * i + 0 /\ c.time = 16 * i + 1
      /\ e.time = 16 * i + 1 /\ a.op = "irecv" /\ b.op = "isend"
      /\ c.op = "wait_isend" /\ e.op = "waitall"
  BY <1>1, <1>2, <1>3 DEF Out, In, Pause
<1>8. Steps(s, i) /\ Await(s, 1, 16 * i + 0) /\ Await(s, 2, 16 * i + 0)
  <2>1. /\ a.op \in {"isend", "irecv"} /\ b.op \in {"isend", "irecv"} /\ c.op \in Waits
    BY <1>7 DEF Waits
  <2> QED BY <1>4, <1>7, <2>1, MiddleSteps
<1>9. Only(s, i, {2}, {1})
  <2>1. OfFour(s, {2}, {1})
    BY <1>5, <1>7 DEF OfFour
  <2> QED BY <1>5, <1>8, <2>1, OnlyFour
<1>10. Posts(s, i, {2}, d, tag, "data", 0)
  BY <1>2, <1>5, <1>6, <1>8, PostOne
<1>11. Gets(s, i, {1}, source, anytag, "data", 0)
  BY <1>1, <1>5, <1>6, <1>8, GetOne
<1> QED BY <1>9, <1>10, <1>11

(***************************************************************************)
(* MPI_Sendrecv: a receive, a send and the wait for both.                  *)
(***************************************************************************)
LEMMA CrossTalks ==
  ASSUME NEW d \in Int, NEW tag \in Int, NEW source \in Int, NEW anytag \in Int, NEW i \in Nat,
         NEW s,
         s = Irecv(source, anytag, "data", i, 0) \o Isend(d, tag, "data", i, 0) \o Waitall(i, 1)
  PROVE  /\ Only(s, i, {2}, {1}) /\ Posts(s, i, {2}, d, tag, "data", 0)
         /\ Gets(s, i, {1}, source, anytag, "data", 0)
<1>1. PICK a : Irecv(source, anytag, "data", i, 0) = <<a>> /\ In(a, source, anytag, "data", i, 0)
  BY InIs, DataIs
<1>2. PICK b : Isend(d, tag, "data", i, 0) = <<b>> /\ Out(b, d, tag, "data", i, 0)
  BY OutIs, DataIs
<1>3. PICK c : Waitall(i, 1) = <<c>> /\ Pause(c, "waitall", i, 1)
  BY PauseIs
<1>4. Three(s, a, b, c)
  <2>1. a \in OpSet /\ b \in OpSet /\ c \in OpSet
    BY <1>1, <1>2, <1>3 DEF Out, In, Pause
  <2> QED BY <1>1, <1>2, <1>3, <2>1, JoinThree
<1>5. s \in Seq(OpSet) /\ Len(s) = 3 /\ s[1] = a /\ s[2] = b /\ s[3] = c
  BY <1>4 DEF Three
<1>6. 1 \in 1 .. 3 /\ 2 \in 1 .. 3
  OBVIOUS
<1>7. /\ a.iter = i /\ b.iter = i /\ c.iter = i
      /\ a.time = 16 * i + 0 /\ b.time = 16 * i + 0 /\ c.time = 16 * i + 1
      /\ a.op = "irecv" /\ b.op = "isend" /\ c.op = "waitall"
  BY <1>1, <1>2, <1>3 DEF Out, In, Pause
<1>8. Steps(s, i) /\ Await(s, 1, 16 * i + 0) /\ Await(s, 2, 16 * i + 0)
  <2>1. a.op \in {"isend", "irecv"} /\ b.op \in {"isend", "irecv"}
    BY <1>7
  <2> QED BY <1>4, <1>7, <2>1, ThreeSteps
<1>9. Only(s, i, {2}, {1})
  <2>1. OfThree(s, {2}, {1})
    BY <1>5, <1>7 DEF OfThree
  <2> QED BY <1>5, <1>8, <2>1, OnlyThree
<1>10. Posts(s, i, {2}, d, tag, "data", 0)
  BY <1>2, <1>5, <1>6, <1>8, PostOne
<1>11. Gets(s, i, {1}, source, anytag, "data", 0)
  BY <1>1, <1>5, <1>6, <1>8, GetOne
<1> QED BY <1>9, <1>10, <1>11

(***************************************************************************)
(* MPI_Send alone.                                                         *)
(***************************************************************************)
LEMMA SendTalks ==
  ASSUME NEW d \in Int, NEW tag \in Int, NEW i \in Nat, NEW s, s = Send(d, tag, "data", i, 0)
  PROVE  Only(s, i, {1}, {}) /\ Posts(s, i, {1}, d, tag, "data", 0)
<1>1. PICK a, b : /\ Send(d, tag, "data", i, 0) = <<a>> \o <<b>>
                  /\ Out(a, d, tag, "data", i, 0) /\ Pause(b, "wait_isend", i, 0 + 1)
  BY SendIs, DataIs
<1>2. Two(s, a, b)
  <2>1. a \in OpSet /\ b \in OpSet
    BY <1>1 DEF Out, Pause
  <2> QED BY <1>1, <2>1, JoinTwo
<1>3. s \in Seq(OpSet) /\ Len(s) = 2 /\ s[1] = a /\ s[2] = b
  BY <1>2 DEF Two
<1>4. /\ a.iter = i /\ b.iter = i /\ a.time = 16 * i + 0 /\ b.time = 16 * i + 1
      /\ a.op = "isend" /\ b.op = "wait_isend"
  BY <1>1 DEF Out, Pause
<1>5. Wakes(a, b)
  BY <1>4 DEF Wakes
<1>6. Steps(s, i) /\ Await(s, 1, 16 * i + 0)
  BY <1>2, <1>4, <1>5, TwoSteps
<1>7. 1 .. 2 = {1, 2}
  OBVIOUS
<1>8. Only(s, i, {1}, {})
  <2>1. OfTwo(s, {1}, {})
    BY <1>3, <1>4 DEF OfTwo
  <2> QED BY <1>3, <1>6, <2>1, OnlyTwo
<1>9. Posts(s, i, {1}, d, tag, "data", 0)
  BY <1>1, <1>3, <1>6, <1>7, PostOne
<1> QED BY <1>8, <1>9

(***************************************************************************)
(* MPI_Recv alone.                                                         *)
(***************************************************************************)
LEMMA RecvTalks ==
  ASSUME NEW source \in Int, NEW tag \in Int, NEW i \in Nat, NEW s, s = Recv(source, tag, "data",
         i, 0)
  PROVE  Only(s, i, {}, {1}) /\ Gets(s, i, {1}, source, tag, "data", 0)
<1>1. PICK a, b : /\ Recv(source, tag, "data", i, 0) = <<a>> \o <<b>>
                  /\ In(a, source, tag, "data", i, 0) /\ Pause(b, "wait_irecv", i, 0 + 1)
  BY RecvIs, DataIs
<1>2. Two(s, a, b)
  <2>1. a \in OpSet /\ b \in OpSet
    BY <1>1 DEF In, Pause
  <2> QED BY <1>1, <2>1, JoinTwo
<1>3. s \in Seq(OpSet) /\ Len(s) = 2 /\ s[1] = a /\ s[2] = b
  BY <1>2 DEF Two
<1>4. /\ a.iter = i /\ b.iter = i /\ a.time = 16 * i + 0 /\ b.time = 16 * i + 1
      /\ a.op = "irecv" /\ b.op = "wait_irecv"
  BY <1>1 DEF In, Pause
<1>5. Wakes(a, b)
  BY <1>4 DEF Wakes
<1>6. Steps(s, i) /\ Await(s, 1, 16 * i + 0)
  BY <1>2, <1>4, <1>5, TwoSteps
<1>7. 1 .. 2 = {1, 2}
  OBVIOUS
<1>8. Only(s, i, {}, {1})
  <2>1. OfTwo(s, {}, {1})
    BY <1>3, <1>4 DEF OfTwo
  <2> QED BY <1>3, <1>6, <2>1, OnlyTwo
<1>9. Gets(s, i, {1}, source, tag, "data", 0)
  BY <1>1, <1>3, <1>6, <1>7, GetOne
<1> QED BY <1>8, <1>9

-----------------------------------------------------------------------------
(***************************************************************************)
(* A window is the request as often as the window is large.                *)
(***************************************************************************)
LEMMA WindowIs ==
  ASSUME NEW c, c.window \in Nat, NEW e \in OpSet
  PROVE  Repeats(Window(c, <<e>>), c.window, e)
<1> DEFINE w == c.window
           s == [ws \in 1 .. w |-> <<e>>]
           f == FlattenSeq(s)
<1>1. s \in Seq(Seq(OpSet)) /\ Len(s) = w /\ \A g \in 1 .. w : s[g] = <<e>> /\ Len(s[g]) = 1 /\ s[g][1] = e
  <2>1. <<e>> \in Seq(OpSet) /\ Len(<<e>>) = 1 /\ <<e>>[1] = e
    OBVIOUS
  <2>2. \A g \in 1 .. w : s[g] = <<e>>
    OBVIOUS
  <2>3. s \in Seq(Seq(OpSet)) /\ Len(s) = w
    <3> DEFINE q == <<e>>
    <3>1. q \in Seq(OpSet)
      BY <2>1
    <3> HIDE DEF q
    <3>2. [ws \in 1 .. w |-> q] \in Seq(Seq(OpSet)) /\ Len([ws \in 1 .. w |-> q]) = w
      BY <3>1
    <3> QED BY <3>2 DEF q
  <2> HIDE DEF s
  <2> QED BY <2>1, <2>2, <2>3
<1>2. Window(c, <<e>>) = f
  BY DEF Window
<1> HIDE DEF s
<1>3. f \in Seq(OpSet)
  BY <1>1, FlattenAppend
<1>4. \A h \in 1 .. w + 1 : StartOf(s, h) = (h - 1) * 1
  <2> SUFFICES ASSUME NEW h \in 1 .. w + 1 PROVE StartOf(s, h) = (h - 1) * 1
    OBVIOUS
  <2>1. 1 \in Nat /\ \A g \in 1 .. Len(s) : Len(s[g]) = 1
    BY <1>1
  <2>2. h \in 1 .. Len(s) + 1
    BY <1>1
  <2> QED BY <1>1, <2>1, <2>2, StartsEqual
<1>5. Len(f) = w
  <2>1. StartOf(s, Len(s) + 1) = Len(f)
    BY <1>1, Starts
  <2>2. w + 1 \in 1 .. w + 1 /\ ((w + 1) - 1) * 1 = w
    OBVIOUS
  <2> QED BY <1>1, <1>4, <2>1, <2>2
<1>6. ASSUME NEW k \in 1 .. w PROVE f[k] = e
  <2>1. k \in 1 .. Len(s) /\ 1 \in 1 .. Len(s[k]) /\ k \in 1 .. w + 1
    BY <1>1
  <2>2. f[StartOf(s, k) + 1] = s[k][1]
    BY <1>1, <2>1, FlattenAt
  <2>3. StartOf(s, k) + 1 = k
    <3>1. StartOf(s, k) = (k - 1) * 1
      BY <1>4, <2>1
    <3> QED BY <3>1
  <2> QED BY <1>1, <2>2, <2>3
<1> HIDE DEF f
<1> QED BY <1>2, <1>3, <1>5, <1>6 DEF Repeats

(***************************************************************************)
(* Uniband, lower half: a window is sent, the acknowledgement received.    *)
(***************************************************************************)
LEMMA UniLower ==
  ASSUME NEW c, c.window \in Nat, NEW d \in Int, NEW tag \in Int, NEW i \in Nat, NEW s,
         s = Window(c, Isend(d, tag, "data", i, 0)) \o Waitall(i, 1) \o Recv(d, tag, "ack", i, 2)
  PROVE  /\ Only(s, i, 1 .. c.window, {c.window + 2})
         /\ Posts(s, i, 1 .. c.window, d, tag, "data", 0)
         /\ Gets(s, i, {c.window + 2}, d, tag, "ack", 2)
<1> DEFINE w == c.window
<1>1. PICK a : Isend(d, tag, "data", i, 0) = <<a>> /\ Out(a, d, tag, "data", i, 0)
  BY OutIs, DataIs
<1>2. PICK b : Waitall(i, 1) = <<b>> /\ Pause(b, "waitall", i, 1)
  BY PauseIs
<1>3. PICK g, e : /\ Recv(d, tag, "ack", i, 2) = <<g>> \o <<e>>
                  /\ In(g, d, tag, "ack", i, 2) /\ Pause(e, "wait_irecv", i, 2 + 1)
  BY RecvIs, DataIs
<1> DEFINE X == Window(c, <<a>>)
<1>4. a \in OpSet /\ b \in OpSet /\ g \in OpSet /\ e \in OpSet
  BY <1>1, <1>2, <1>3 DEF Out, In, Pause
<1>5. Repeats(X, w, a)
  BY <1>4, WindowIs
<1>6. w \in Nat /\ s = X \o <<b>> \o (<<g>> \o <<e>>)
  BY <1>1, <1>2, <1>3
<1> HIDE DEF w, X
<1>7. X \in Seq(OpSet) /\ Len(X) = w /\ \A k \in 1 .. w : X[k] = a
  BY <1>5 DEF Repeats
<1>8. Wide(s, w, X, b, g, e)
  BY <1>4, <1>6, <1>7, WideIs
<1>9. /\ a.op = "isend" /\ a.iter = i /\ a.time = 16 * i + 0
      /\ b.op = "waitall" /\ b.iter = i /\ b.time = 16 * i + 1
      /\ g.op = "irecv" /\ g.iter = i /\ g.time = 16 * i + 2
      /\ e.op = "wait_irecv" /\ e.iter = i /\ e.time = 16 * i + 3
  BY <1>1, <1>2, <1>3 DEF Out, In, Pause
<1>10. Asks(X, w, i)
  BY <1>7, <1>9 DEF Asks
<1>11. Wakes(g, e)
  BY <1>9 DEF Wakes
<1>12. /\ Steps(s, i) /\ \A k \in 1 .. w : Await(s, k, 16 * i + 0)
       /\ Await(s, w + 2, 16 * i + 2)
  <2>1. g.op \in {"isend", "irecv"}
    BY <1>9
  <2> QED BY <1>6, <1>8, <1>9, <1>10, <1>11, <2>1, WideSteps
<1>13. Only(s, i, 1 .. w, {w + 2})
  <2> DEFINE K == 1 .. w
             J == {w + 2}
  <2>1. \A k \in 1 .. w : (X[k].op = "isend" => k \in K) /\ (X[k].op = "irecv" => k \in J)
    BY <1>7, <1>9
  <2>2. (g.op = "isend" => w + 2 \in K) /\ (g.op = "irecv" => w + 2 \in J)
    BY <1>9
  <2> HIDE DEF K, J
  <2>3. Only(s, i, K, J)
    BY <1>6, <1>8, <1>9, <1>11, <1>12, <2>1, <2>2, WideOnly
  <2> QED BY <2>3 DEF K, J
<1>14. /\ Len(s) = w + 3 /\ s[w + 2] = g /\ w + 2 \in 1 .. Len(s)
       /\ \A k \in 1 .. w : k \in 1 .. Len(s) /\ s[k] = a
  <2>1. w \in Nat
    BY <1>6
  <2>2. Len(s) = w + 3 /\ s[w + 2] = g /\ \A k \in 1 .. w : s[k] = X[k]
    BY <1>8 DEF Wide
  <2> QED BY <1>7, <2>1, <2>2
<1>15. Posts(s, i, 1 .. w, d, tag, "data", 0)
  <2> DEFINE K == 1 .. w
  <2>1. \A k \in K : /\ k \in 1 .. Len(s) /\ Out(s[k], d, tag, "data", i, 0)
                    /\ Await(s, k, 16 * i + 0)
    BY <1>1, <1>12, <1>14
  <2> HIDE DEF K
  <2>2. Posts(s, i, K, d, tag, "data", 0)
    BY <2>1, ManyPost
  <2> QED BY <2>2 DEF K
<1>16. Gets(s, i, {w + 2}, d, tag, "ack", 2)
  BY <1>3, <1>12, <1>14, GetOne
<1> QED BY <1>13, <1>15, <1>16 DEF w

(***************************************************************************)
(* Uniband, upper half: a window is received, the acknowledgement sent.    *)
(***************************************************************************)
LEMMA UniUpper ==
  ASSUME NEW c, c.window \in Nat, NEW d \in Int, NEW tag \in Int, NEW i \in Nat, NEW s,
         s = Window(c, Irecv(d, tag, "data", i, 0)) \o Waitall(i, 1) \o Send(d, tag, "ack", i, 2)
  PROVE  /\ Only(s, i, {c.window + 2}, 1 .. c.window)
         /\ Gets(s, i, 1 .. c.window, d, tag, "data", 0)
         /\ Posts(s, i, {c.window + 2}, d, tag, "ack", 2)
<1> DEFINE w == c.window
<1>1. PICK a : Irecv(d, tag, "data", i, 0) = <<a>> /\ In(a, d, tag, "data", i, 0)
  BY InIs, DataIs
<1>2. PICK b : Waitall(i, 1) = <<b>> /\ Pause(b, "waitall", i, 1)
  BY PauseIs
<1>3. PICK g, e : /\ Send(d, tag, "ack", i, 2) = <<g>> \o <<e>>
                  /\ Out(g, d, tag, "ack", i, 2) /\ Pause(e, "wait_isend", i, 2 + 1)
  BY SendIs, DataIs
<1> DEFINE X == Window(c, <<a>>)
<1>4. a \in OpSet /\ b \in OpSet /\ g \in OpSet /\ e \in OpSet
  BY <1>1, <1>2, <1>3 DEF Out, In, Pause
<1>5. Repeats(X, w, a)
  BY <1>4, WindowIs
<1>6. w \in Nat /\ s = X \o <<b>> \o (<<g>> \o <<e>>)
  BY <1>1, <1>2, <1>3
<1> HIDE DEF w, X
<1>7. X \in Seq(OpSet) /\ Len(X) = w /\ \A k \in 1 .. w : X[k] = a
  BY <1>5 DEF Repeats
<1>8. Wide(s, w, X, b, g, e)
  BY <1>4, <1>6, <1>7, WideIs
<1>9. /\ a.op = "irecv" /\ a.iter = i /\ a.time = 16 * i + 0
      /\ b.op = "waitall" /\ b.iter = i /\ b.time = 16 * i + 1
      /\ g.op = "isend" /\ g.iter = i /\ g.time = 16 * i + 2
      /\ e.op = "wait_isend" /\ e.iter = i /\ e.time = 16 * i + 3
  BY <1>1, <1>2, <1>3 DEF Out, In, Pause
<1>10. Asks(X, w, i)
  BY <1>7, <1>9 DEF Asks
<1>11. Wakes(g, e)
  BY <1>9 DEF Wakes
<1>12. /\ Steps(s, i) /\ \A k \in 1 .. w : Await(s, k, 16 * i + 0)
       /\ Await(s, w + 2, 16 * i + 2)
  <2>1. g.op \in {"isend", "irecv"}
    BY <1>9
  <2> QED BY <1>6, <1>8, <1>9, <1>10, <1>11, <2>1, WideSteps
<1>13. Only(s, i, {w + 2}, 1 .. w)
  <2> DEFINE K == {w + 2}
             J == 1 .. w
  <2>1. \A k \in 1 .. w : (X[k].op = "isend" => k \in K) /\ (X[k].op = "irecv" => k \in J)
    BY <1>7, <1>9
  <2>2. (g.op = "isend" => w + 2 \in K) /\ (g.op = "irecv" => w + 2 \in J)
    BY <1>9
  <2> HIDE DEF K, J
  <2>3. Only(s, i, K, J)
    BY <1>6, <1>8, <1>9, <1>11, <1>12, <2>1, <2>2, WideOnly
  <2> QED BY <2>3 DEF K, J
<1>14. /\ Len(s) = w + 3 /\ s[w + 2] = g /\ w + 2 \in 1 .. Len(s)
       /\ \A k \in 1 .. w : k \in 1 .. Len(s) /\ s[k] = a
  <2>1. w \in Nat
    BY <1>6
  <2>2. Len(s) = w + 3 /\ s[w + 2] = g /\ \A k \in 1 .. w : s[k] = X[k]
    BY <1>8 DEF Wide
  <2> QED BY <1>7, <2>1, <2>2
<1>15. Gets(s, i, 1 .. w, d, tag, "data", 0)
  <2> DEFINE K == 1 .. w
  <2>1. \A k \in K : /\ k \in 1 .. Len(s) /\ In(s[k], d, tag, "data", i, 0)
                    /\ Await(s, k, 16 * i + 0)
    BY <1>1, <1>12, <1>14
  <2> HIDE DEF K
  <2>2. Gets(s, i, K, d, tag, "data", 0)
    BY <2>1, ManyGet
  <2> QED BY <2>2 DEF K
<1>16. Posts(s, i, {w + 2}, d, tag, "ack", 2)
  BY <1>3, <1>12, <1>14, PostOne
<1> QED BY <1>13, <1>15, <1>16 DEF w

(***************************************************************************)
(* The two sides of Biband.                                                *)
(***************************************************************************)
LEMMA BiLower ==
  ASSUME NEW c, c.window \in Nat, NEW d \in Int, NEW tag \in Int, NEW i \in Nat, NEW s,
         s = Window(c, Irecv(d, tag, "data", i, 0)) \o Window(c, Isend(d, tag, "data", i, 0))
               \o Waitall(i, 1) \o Recv(d, tag, "ack", i, 2)
  PROVE  LET w == c.window
         IN  /\ Only(s, i, w + 1 .. w + w, 1 .. w \cup {w + w + 2})
             /\ Posts(s, i, w + 1 .. w + w, d, tag, "data", 0)
             /\ Gets(s, i, 1 .. w, d, tag, "data", 0)
             /\ Gets(s, i, {w + w + 2}, d, tag, "ack", 2)
<1> DEFINE w == c.window
<1>1. PICK a : Irecv(d, tag, "data", i, 0) = <<a>> /\ In(a, d, tag, "data", i, 0)
  BY InIs, DataIs
<1>2. PICK h : Isend(d, tag, "data", i, 0) = <<h>> /\ Out(h, d, tag, "data", i, 0)
  BY OutIs, DataIs
<1>3. PICK b : Waitall(i, 1) = <<b>> /\ Pause(b, "waitall", i, 1)
  BY PauseIs
<1>4. PICK g, e : /\ Recv(d, tag, "ack", i, 2) = <<g>> \o <<e>>
                  /\ In(g, d, tag, "ack", i, 2) /\ Pause(e, "wait_irecv", i, 2 + 1)
  BY RecvIs, DataIs
<1> DEFINE Y == Window(c, <<a>>)
           Z == Window(c, <<h>>)
           X == Y \o Z
<1>5. a \in OpSet /\ h \in OpSet /\ b \in OpSet /\ g \in OpSet /\ e \in OpSet
  BY <1>1, <1>2, <1>3, <1>4 DEF Out, In, Pause
<1>6. Repeats(Y, w, a) /\ Repeats(Z, w, h)
  BY <1>5, WindowIs
<1>7. s = X \o <<b>> \o (<<g>> \o <<e>>)
  BY <1>1, <1>2, <1>3, <1>4
<1>8. w \in Nat
  OBVIOUS
<1> HIDE DEF w, Y, Z
<1>9. Joined(X, Y, Z)
  BY <1>6, JoinIs DEF Repeats
<1> HIDE DEF X
<1>10. /\ X \in Seq(OpSet) /\ Len(X) = w + w
       /\ \A k \in 1 .. w : X[k] = a
       /\ \A k \in 1 .. w : X[w + k] = h
  BY <1>6, <1>8, <1>9 DEF Repeats, Joined
<1> DEFINE m == w + w
<1>11. m \in Nat
  BY <1>8
<1>12. Wide(s, m, X, b, g, e)
  BY <1>5, <1>7, <1>10, WideIs
<1>13. /\ a.op = "irecv" /\ a.iter = i /\ a.time = 16 * i + 0
       /\ h.op = "isend" /\ h.iter = i /\ h.time = 16 * i + 0
       /\ b.op = "waitall" /\ b.iter = i /\ b.time = 16 * i + 1
       /\ g.op = "irecv" /\ g.iter = i /\ g.time = 16 * i + 2
       /\ e.op = "wait_irecv" /\ e.iter = i /\ e.time = 16 * i + 3
  BY <1>1, <1>2, <1>3, <1>4 DEF Out, In, Pause
<1>14. \A k \in 1 .. m : (k \in 1 .. w /\ X[k] = a) \/ (k \in w + 1 .. w + w /\ X[k] = h)
  <2> SUFFICES ASSUME NEW k \in 1 .. m
               PROVE  (k \in 1 .. w /\ X[k] = a) \/ (k \in w + 1 .. w + w /\ X[k] = h)
    OBVIOUS
  <2>1. CASE k \in 1 .. w
    BY <1>10, <2>1
  <2>2. CASE k \notin 1 .. w
    <3> DEFINE l == k - w
    <3>1. l \in 1 .. w /\ k = w + l /\ k \in w + 1 .. w + w
      BY <1>8, <2>2
    <3> HIDE DEF l
    <3> QED BY <1>10, <3>1
  <2> QED BY <2>1, <2>2
<1>15. \A k \in w + 1 .. w + w : k \in 1 .. m /\ X[k] = h
  <2> SUFFICES ASSUME NEW k \in w + 1 .. w + w PROVE k \in 1 .. m /\ X[k] = h
    OBVIOUS
  <2> DEFINE l == k - w
  <2>1. l \in 1 .. w /\ k = w + l /\ k \in 1 .. m
    BY <1>8
  <2> HIDE DEF l
  <2> QED BY <1>10, <2>1
<1>16. Asks(X, m, i)
  BY <1>13, <1>14 DEF Asks
<1>17. Wakes(g, e)
  BY <1>13 DEF Wakes
<1> HIDE DEF m
<1>18. /\ Steps(s, i) /\ \A k \in 1 .. m : Await(s, k, 16 * i + 0)
       /\ Await(s, m + 2, 16 * i + 2)
  <2>1. g.op \in {"isend", "irecv"}
    BY <1>13
  <2> QED BY <1>11, <1>12, <1>13, <1>16, <1>17, <2>1, WideSteps
<1> DEFINE K == w + 1 .. w + w
           L == 1 .. w
<1>19. Only(s, i, K, L \cup {m + 2})
  <2> DEFINE J == L \cup {m + 2}
  <2>1. \A k \in 1 .. m : (X[k].op = "isend" => k \in K) /\ (X[k].op = "irecv" => k \in J)
    BY <1>13, <1>14
  <2>2. (g.op = "isend" => m + 2 \in K) /\ (g.op = "irecv" => m + 2 \in J)
    BY <1>13
  <2> HIDE DEF K, J
  <2>3. Only(s, i, K, J)
    BY <1>11, <1>12, <1>13, <1>17, <1>18, <2>1, <2>2, WideOnly
  <2> QED BY <2>3 DEF J
<1>20. /\ Len(s) = m + 3 /\ s[m + 2] = g /\ m + 2 \in 1 .. Len(s)
       /\ \A k \in 1 .. m : k \in 1 .. Len(s) /\ s[k] = X[k]
  <2>1. Len(s) = m + 3 /\ s[m + 2] = g /\ \A k \in 1 .. m : s[k] = X[k]
    BY <1>12 DEF Wide
  <2> QED BY <1>11, <2>1
<1>21. Posts(s, i, K, d, tag, "data", 0)
  <2>1. \A k \in K : /\ k \in 1 .. Len(s) /\ Out(s[k], d, tag, "data", i, 0)
                    /\ Await(s, k, 16 * i + 0)
    BY <1>2, <1>15, <1>18, <1>20
  <2> HIDE DEF K
  <2> QED BY <2>1, ManyPost
<1>22. Gets(s, i, L, d, tag, "data", 0)
  <2>1. \A k \in L : k \in 1 .. m /\ X[k] = a
    BY <1>8, <1>10 DEF m
  <2>2. \A k \in L : /\ k \in 1 .. Len(s) /\ In(s[k], d, tag, "data", i, 0)
                    /\ Await(s, k, 16 * i + 0)
    BY <1>1, <1>18, <1>20, <2>1
  <2> HIDE DEF L
  <2> QED BY <2>2, ManyGet
<1>23. Gets(s, i, {m + 2}, d, tag, "ack", 2)
  BY <1>4, <1>18, <1>20, GetOne
<1> QED BY <1>19, <1>21, <1>22, <1>23 DEF w, m

(***************************************************************************)
(* Biband, upper half: windows both ways, the acknowledgement sent.        *)
(***************************************************************************)
LEMMA BiUpper ==
  ASSUME NEW c, c.window \in Nat, NEW d \in Int, NEW tag \in Int, NEW i \in Nat, NEW s,
         s = Window(c, Irecv(d, tag, "data", i, 0)) \o Window(c, Isend(d, tag, "data", i, 0))
               \o Waitall(i, 1) \o Send(d, tag, "ack", i, 2)
  PROVE  LET w == c.window
         IN  /\ Only(s, i, w + 1 .. w + w \cup {w + w + 2}, 1 .. w)
             /\ Posts(s, i, w + 1 .. w + w, d, tag, "data", 0)
             /\ Gets(s, i, 1 .. w, d, tag, "data", 0)
             /\ Posts(s, i, {w + w + 2}, d, tag, "ack", 2)
<1> DEFINE w == c.window
<1>1. PICK a : Irecv(d, tag, "data", i, 0) = <<a>> /\ In(a, d, tag, "data", i, 0)
  BY InIs, DataIs
<1>2. PICK h : Isend(d, tag, "data", i, 0) = <<h>> /\ Out(h, d, tag, "data", i, 0)
  BY OutIs, DataIs
<1>3. PICK b : Waitall(i, 1) = <<b>> /\ Pause(b, "waitall", i, 1)
  BY PauseIs
<1>4. PICK g, e : /\ Send(d, tag, "ack", i, 2) = <<g>> \o <<e>>
                  /\ Out(g, d, tag, "ack", i, 2) /\ Pause(e, "wait_isend", i, 2 + 1)
  BY SendIs, DataIs
<1> DEFINE Y == Window(c, <<a>>)
           Z == Window(c, <<h>>)
           X == Y \o Z
<1>5. a \in OpSet /\ h \in OpSet /\ b \in OpSet /\ g \in OpSet /\ e \in OpSet
  BY <1>1, <1>2, <1>3, <1>4 DEF Out, In, Pause
<1>6. Repeats(Y, w, a) /\ Repeats(Z, w, h)
  BY <1>5, WindowIs
<1>7. s = X \o <<b>> \o (<<g>> \o <<e>>)
  BY <1>1, <1>2, <1>3, <1>4
<1>8. w \in Nat
  OBVIOUS
<1> HIDE DEF w, Y, Z
<1>9. Joined(X, Y, Z)
  BY <1>6, JoinIs DEF Repeats
<1> HIDE DEF X
<1>10. /\ X \in Seq(OpSet) /\ Len(X) = w + w
       /\ \A k \in 1 .. w : X[k] = a
       /\ \A k \in 1 .. w : X[w + k] = h
  BY <1>6, <1>8, <1>9 DEF Repeats, Joined
<1> DEFINE m == w + w
<1>11. m \in Nat
  BY <1>8
<1>12. Wide(s, m, X, b, g, e)
  BY <1>5, <1>7, <1>10, WideIs
<1>13. /\ a.op = "irecv" /\ a.iter = i /\ a.time = 16 * i + 0
       /\ h.op = "isend" /\ h.iter = i /\ h.time = 16 * i + 0
       /\ b.op = "waitall" /\ b.iter = i /\ b.time = 16 * i + 1
       /\ g.op = "isend" /\ g.iter = i /\ g.time = 16 * i + 2
       /\ e.op = "wait_isend" /\ e.iter = i /\ e.time = 16 * i + 3
  BY <1>1, <1>2, <1>3, <1>4 DEF Out, In, Pause
<1>14. \A k \in 1 .. m : (k \in 1 .. w /\ X[k] = a) \/ (k \in w + 1 .. w + w /\ X[k] = h)
  <2> SUFFICES ASSUME NEW k \in 1 .. m
               PROVE  (k \in 1 .. w /\ X[k] = a) \/ (k \in w + 1 .. w + w /\ X[k] = h)
    OBVIOUS
  <2>1. CASE k \in 1 .. w
    BY <1>10, <2>1
  <2>2. CASE k \notin 1 .. w
    <3> DEFINE l == k - w
    <3>1. l \in 1 .. w /\ k = w + l /\ k \in w + 1 .. w + w
      BY <1>8, <2>2
    <3> HIDE DEF l
    <3> QED BY <1>10, <3>1
  <2> QED BY <2>1, <2>2
<1>15. \A k \in w + 1 .. w + w : k \in 1 .. m /\ X[k] = h
  <2> SUFFICES ASSUME NEW k \in w + 1 .. w + w PROVE k \in 1 .. m /\ X[k] = h
    OBVIOUS
  <2> DEFINE l == k - w
  <2>1. l \in 1 .. w /\ k = w + l /\ k \in 1 .. m
    BY <1>8
  <2> HIDE DEF l
  <2> QED BY <1>10, <2>1
<1>16. Asks(X, m, i)
  BY <1>13, <1>14 DEF Asks
<1>17. Wakes(g, e)
  BY <1>13 DEF Wakes
<1> HIDE DEF m
<1>18. /\ Steps(s, i) /\ \A k \in 1 .. m : Await(s, k, 16 * i + 0)
       /\ Await(s, m + 2, 16 * i + 2)
  <2>1. g.op \in {"isend", "irecv"}
    BY <1>13
  <2> QED BY <1>11, <1>12, <1>13, <1>16, <1>17, <2>1, WideSteps
<1> DEFINE K == w + 1 .. w + w
           L == 1 .. w
<1>19. Only(s, i, K \cup {m + 2}, L)
  <2> DEFINE J == K \cup {m + 2}
  <2>1. \A k \in 1 .. m : (X[k].op = "isend" => k \in J) /\ (X[k].op = "irecv" => k \in L)
    BY <1>13, <1>14
  <2>2. (g.op = "isend" => m + 2 \in J) /\ (g.op = "irecv" => m + 2 \in L)
    BY <1>13
  <2> HIDE DEF L, J
  <2>3. Only(s, i, J, L)
    BY <1>11, <1>12, <1>13, <1>17, <1>18, <2>1, <2>2, WideOnly
  <2> QED BY <2>3 DEF J
<1>20. /\ Len(s) = m + 3 /\ s[m + 2] = g /\ m + 2 \in 1 .. Len(s)
       /\ \A k \in 1 .. m : k \in 1 .. Len(s) /\ s[k] = X[k]
  <2>1. Len(s) = m + 3 /\ s[m + 2] = g /\ \A k \in 1 .. m : s[k] = X[k]
    BY <1>12 DEF Wide
  <2> QED BY <1>11, <2>1
<1>21. Posts(s, i, K, d, tag, "data", 0)
  <2>1. \A k \in K : /\ k \in 1 .. Len(s) /\ Out(s[k], d, tag, "data", i, 0)
                    /\ Await(s, k, 16 * i + 0)
    BY <1>2, <1>15, <1>18, <1>20
  <2> HIDE DEF K
  <2> QED BY <2>1, ManyPost
<1>22. Gets(s, i, L, d, tag, "data", 0)
  <2>1. \A k \in L : k \in 1 .. m /\ X[k] = a
    BY <1>8, <1>10 DEF m
  <2>2. \A k \in L : /\ k \in 1 .. Len(s) /\ In(s[k], d, tag, "data", i, 0)
                    /\ Await(s, k, 16 * i + 0)
    BY <1>1, <1>18, <1>20, <2>1
  <2> HIDE DEF L
  <2> QED BY <2>2, ManyGet
<1>23. Posts(s, i, {m + 2}, d, tag, "ack", 2)
  BY <1>4, <1>18, <1>20, PostOne
<1> QED BY <1>19, <1>21, <1>22, <1>23 DEF w, m

(***************************************************************************)
(* The two barriers with which the kernels of IMB-MPI1 begin.              *)
(***************************************************************************)
LEMMA BarrierAt ==
  ASSUME NEW R, NEW V, NEW D, R # {}, NEW i \in Nat, NEW ph \in 0 .. 15,
         NEW a, NEW b, a = 16 * i + ph, b = a + 1
  PROVE  Piece(R, V, D, Everyone(R, Barrier(i, ph)), a, b)
BY BarrierPiece

-----------------------------------------------------------------------------
(***************************************************************************)
(* The barriers a kernel of IMB-MPI1 begins with are a piece.              *)
(***************************************************************************)
LEMMA BarriersPiece ==
  ASSUME NEW R, NEW V, NEW D, R # {}
  PROVE  Piece(R, V, D, Everyone(R, Barriers), 0, 16)
<1> DEFINE p == Everyone(R, Barrier(0, 0))
           q == Everyone(R, Barrier(0, 1))
<1>1. Piece(R, V, D, p, 0, 1)
  <2>1. 0 = 16 * 0 + 0 /\ 1 = 0 + 1 /\ 0 \in 0 .. 15
    OBVIOUS
  <2> QED BY <2>1, BarrierAt
<1>2. Piece(R, V, D, q, 1, 2)
  <2>1. 1 = 16 * 0 + 1 /\ 2 = 1 + 1 /\ 1 \in 0 .. 15
    OBVIOUS
  <2> QED BY <2>1, BarrierAt
<1>3. Then(p, q) = Everyone(R, Barriers)
  BY DEF Then, Barriers, Everyone
<1> HIDE DEF p, q
<1>4. Piece(R, V, D, Then(p, q), 0, 2)
  BY <1>1, <1>2, PieceThen
<1>5. \A j \in Nat : 0 <= 16 * j /\ 16 * j < 16 => 0 <= 16 * j /\ 16 * j < 2
  OBVIOUS
<1> QED BY <1>3, <1>4, <1>5, PieceWidens

(***************************************************************************)
(* The barriers and the loop are a piece.                                  *)
(***************************************************************************)
LEMMA OpenPiece ==
  ASSUME NEW R, NEW V, NEW D, R # {}, NEW n \in Nat, NEW G,
         \A m \in 1 .. n : Piece(R, V, D, G[m], 16 * m, 16 * m + 15)
  PROVE  Piece(R, V, D, Then(Everyone(R, Barriers), Loop(R, n, G)), 0, 16 * n + 16)
<1> DEFINE p == Everyone(R, Barriers)
           q == Loop(R, n, G)
           b == 16 * n + 16
<1>1. Piece(R, V, D, p, 0, 16)
  BY BarriersPiece
<1>2. Piece(R, V, D, q, 16, b)
  <2>1. \A m \in 1 .. n : Piece(R, V, D, G[m], 16 * (0 + m), 16 * (0 + m) + 15)
    OBVIOUS
  <2> HIDE DEF q
  <2>2. Piece(R, V, D, Loop(R, n, G), 16 * 0 + 16, 16 * (0 + n) + 16)
    BY <2>1, LoopPiece
  <2>3. 16 * 0 + 16 = 16 /\ 16 * (0 + n) + 16 = b
    OBVIOUS
  <2> QED BY <2>2, <2>3 DEF q
<1>4. b \in Nat /\ 16 <= b
  OBVIOUS
<1> HIDE DEF p, q, b
<1>5. Piece(R, V, D, Then(p, q), 0, b)
  BY <1>1, <1>2, <1>4, PieceThen
<1> QED BY <1>5 DEF b, p, q

(***************************************************************************)
(* The ranks L send and then receive, H receive and then send.             *)
(***************************************************************************)
Pinging(p, L, H, f, source, tag, anytag, i) ==
  /\ \A r \in L : p[r] = Send(f[r], tag, "data", i, 0) \o Recv(source[r], anytag, "data", i, 2)
  /\ \A r \in H : p[r] = Recv(source[r], anytag, "data", i, 0) \o Send(f[r], tag, "data", i, 2)

(***************************************************************************)
(* The body of PingPong is a piece.                                        *)
(***************************************************************************)
LEMMA PingPongBody ==
  ASSUME NEW R, NEW V, NEW D, NEW p, NEW L, NEW H, NEW f, Partners(R, L, H, f),
         Linked(D, L \cup H, f), NEW i \in Nat, NEW source, NEW tag \in Int, NEW anytag \in Int,
         Ints(L \cup H, f, source),
         Sources(V, L \cup H, f, source, tag, anytag), Idle(R, p, L \cup H),
         Pinging(p, L, H, f, source, tag, anytag, i)
  PROVE  Piece(R, V, D, p, 16 * i, 16 * i + 15)
<1> DEFINE N == One(1, 1)
           O == One(3, 3)
<1>1. /\ Matched(N) /\ Firsts(N) = {1} /\ Seconds(N) = {1} /\ N # {}
      /\ Matched(O) /\ Firsts(O) = {3} /\ Seconds(O) = {3} /\ O # {}
  BY OneMatched
<1> HIDE DEF N, O
<1>2. ASSUME NEW r \in L
      PROVE  /\ Only(p[r], i, {1}, {3})
             /\ Posts(p[r], i, {1}, f[r], tag, "data", 0)
             /\ Gets(p[r], i, {3}, source[r], anytag, "data", 2)
  <2>1. f[r] \in Int /\ source[r] \in Int
    BY DEF Ints
  <2>2. p[r] = Send(f[r], tag, "data", i, 0) \o Recv(source[r], anytag, "data", i, 2)
    BY DEF Pinging
  <2> QED BY <2>1, <2>2, PingTalks
<1>3. ASSUME NEW r \in H
      PROVE  /\ Only(p[r], i, {3}, {1})
             /\ Posts(p[r], i, {3}, f[r], tag, "data", 2)
             /\ Gets(p[r], i, {1}, source[r], anytag, "data", 0)
  <2>1. f[r] \in Int /\ source[r] \in Int
    BY DEF Ints
  <2>2. p[r] = Recv(source[r], anytag, "data", i, 0) \o Send(f[r], tag, "data", i, 2)
    BY DEF Pinging
  <2> QED BY <2>1, <2>2, PongTalks
<1>4. PairTalk(p, i, L, H, f, source, tag, anytag, N, "data", 0, O, "data", 2)
  BY <1>1, <1>2, <1>3 DEF PairTalk
<1>5. Quiet(R, p, L \cup H)
  BY <1>2, <1>3, IdleQuiet DEF Only
<1> QED BY <1>1, <1>4, <1>5, PairPiece

(***************************************************************************)
(* All of P begin a send, receive, and wait for the send.                  *)
(***************************************************************************)
Both(p, P, next, source, tag, anytag, i) ==
  \A r \in P : p[r] = Isend(next[r], tag, "data", i, 0)
                 \o Recv(source[r], anytag, "data", i, 0) \o Waitall(i, 1)

(***************************************************************************)
(* The body of PingPing is a piece.                                        *)
(***************************************************************************)
LEMMA BothBody ==
  ASSUME NEW R, NEW V, NEW D, NEW p, NEW P, NEW next, NEW last, Ring(R, P, next, last),
         Turning(R, D, P, next, last), NEW i \in Nat, NEW source, NEW tag \in Int, NEW anytag \in Int,
         Sources(V, P, last, source, tag, anytag), Idle(R, p, P), Ints(P, next, source),
         Both(p, P, next, source, tag, anytag, i)
  PROVE  Piece(R, V, D, p, 16 * i, 16 * i + 15)
<1>1. ASSUME NEW r \in P
      PROVE  /\ Only(p[r], i, {1}, {2})
             /\ Posts(p[r], i, {1}, next[r], tag, "data", 0)
             /\ Gets(p[r], i, {2}, source[r], anytag, "data", 0)
  <2>1. next[r] \in Int /\ source[r] \in Int
    BY DEF Ints
  <2>2. p[r] = Isend(next[r], tag, "data", i, 0)
                 \o Recv(source[r], anytag, "data", i, 0) \o Waitall(i, 1)
    BY DEF Both
  <2> QED BY <2>1, <2>2, BothTalks
<1>2. 1 \in Nat /\ 2 \in Nat
  OBVIOUS
<1> QED BY <1>1, <1>2, RoundBody

(***************************************************************************)
(* All of P begin a receive, send, and wait for the receive.               *)
(***************************************************************************)
Swaps(p, P, next, source, tag, anytag, i) ==
  \A r \in P : p[r] = Irecv(source[r], anytag, "data", i, 0)
                 \o Send(next[r], tag, "data", i, 0) \o Waitall(i, 1)

(***************************************************************************)
(* The bodies of IMB-P2P that swap are pieces.                             *)
(***************************************************************************)
LEMMA SwapBody ==
  ASSUME NEW R, NEW V, NEW D, NEW p, NEW P, NEW next, NEW last, Ring(R, P, next, last),
         Turning(R, D, P, next, last), NEW i \in Nat, NEW source, NEW tag \in Int, NEW anytag \in Int,
         Sources(V, P, last, source, tag, anytag), Idle(R, p, P), Ints(P, next, source),
         Swaps(p, P, next, source, tag, anytag, i)
  PROVE  Piece(R, V, D, p, 16 * i, 16 * i + 15)
<1>1. ASSUME NEW r \in P
      PROVE  /\ Only(p[r], i, {2}, {1})
             /\ Posts(p[r], i, {2}, next[r], tag, "data", 0)
             /\ Gets(p[r], i, {1}, source[r], anytag, "data", 0)
  <2>1. next[r] \in Int /\ source[r] \in Int
    BY DEF Ints
  <2>2. p[r] = Irecv(source[r], anytag, "data", i, 0)
                 \o Send(next[r], tag, "data", i, 0) \o Waitall(i, 1)
    BY DEF Swaps
  <2> QED BY <2>1, <2>2, SwapTalks
<1>2. 1 \in Nat /\ 2 \in Nat
  OBVIOUS
<1> QED BY <1>1, <1>2, RoundBody

(***************************************************************************)
(* All of P send and receive with MPI_Sendrecv.                            *)
(***************************************************************************)
Crosses(p, P, next, source, tag, anytag, i) ==
  \A r \in P : p[r] = Irecv(source[r], anytag, "data", i, 0)
                 \o Isend(next[r], tag, "data", i, 0) \o Waitall(i, 1)

(***************************************************************************)
(* The body of Sendrecv is a piece.                                        *)
(***************************************************************************)
LEMMA CrossBody ==
  ASSUME NEW R, NEW V, NEW D, NEW p, NEW P, NEW next, NEW last, Ring(R, P, next, last),
         Turning(R, D, P, next, last), NEW i \in Nat, NEW source, NEW tag \in Int, NEW anytag \in Int,
         Sources(V, P, last, source, tag, anytag), Idle(R, p, P), Ints(P, next, source),
         Crosses(p, P, next, source, tag, anytag, i)
  PROVE  Piece(R, V, D, p, 16 * i, 16 * i + 15)
<1>1. ASSUME NEW r \in P
      PROVE  /\ Only(p[r], i, {2}, {1})
             /\ Posts(p[r], i, {2}, next[r], tag, "data", 0)
             /\ Gets(p[r], i, {1}, source[r], anytag, "data", 0)
  <2>1. next[r] \in Int /\ source[r] \in Int
    BY DEF Ints
  <2>2. p[r] = Irecv(source[r], anytag, "data", i, 0)
                 \o Isend(next[r], tag, "data", i, 0) \o Waitall(i, 1)
    BY DEF Crosses
  <2> QED BY <2>1, <2>2, CrossTalks
<1>2. 1 \in Nat /\ 2 \in Nat
  OBVIOUS
<1> QED BY <1>1, <1>2, RoundBody

(***************************************************************************)
(* A window from each of L to its partner in H, and the answer.            *)
(***************************************************************************)
OneWay(p, L, H, f, tag, c, i) ==
  /\ \A r \in L : p[r] = Window(c, Isend(f[r], tag, "data", i, 0)) \o Waitall(i, 1)
                           \o Recv(f[r], tag, "ack", i, 2)
  /\ \A r \in H : p[r] = Window(c, Irecv(f[r], tag, "data", i, 0)) \o Waitall(i, 1)
                           \o Send(f[r], tag, "ack", i, 2)

(***************************************************************************)
(* The body of Uniband is a piece.                                         *)
(***************************************************************************)
LEMMA UniBody ==
  ASSUME NEW R, NEW V, NEW D, NEW p, NEW L, NEW H, NEW f, Partners(R, L, H, f),
         Linked(D, L \cup H, f), NEW i \in Nat, NEW tag \in Int, Ints(L \cup H, f, f),
         Sources(V, L \cup H, f, f, tag, tag), Idle(R, p, L \cup H),
         NEW c, c.window \in Nat, D = {} \/ c.window # 0,
         OneWay(p, L, H, f, tag, c, i)
  PROVE  Piece(R, V, D, p, 16 * i, 16 * i + 15)
<1> DEFINE w == c.window
           W == 1 .. w
           A == {w + 2}
           N == Row(0, 0, w)
           O == One(w + 2, w + 2)
<1>0. w \in Nat /\ w + 2 \in Nat
  OBVIOUS
<1>1. /\ Matched(N) /\ Firsts(N) = W /\ Seconds(N) = W /\ (w # 0 => N # {})
      /\ Matched(O) /\ Firsts(O) = A /\ Seconds(O) = A /\ O # {}
  <2>1. 0 + 1 = 1 /\ 0 + w = w /\ 0 \in Nat
    BY <1>0
  <2>2. InRow(N, 0, 0, w)
    BY <1>0, <2>1, RowMatched
  <2>3. Matched(O) /\ Firsts(O) = A /\ Seconds(O) = A /\ O # {}
    BY <1>0, OneMatched
  <2> HIDE DEF N, O, A
  <2> QED BY <2>1, <2>2, <2>3 DEF InRow
<1> HIDE DEF N, O
<1>2. ASSUME NEW r \in L
      PROVE  /\ Only(p[r], i, W, A)
             /\ Posts(p[r], i, W, f[r], tag, "data", 0)
             /\ Gets(p[r], i, A, f[r], tag, "ack", 2)
  <2>1. f[r] \in Int
    BY DEF Ints
  <2>2. p[r] = Window(c, Isend(f[r], tag, "data", i, 0)) \o Waitall(i, 1)
                 \o Recv(f[r], tag, "ack", i, 2)
    BY DEF OneWay
  <2> QED BY <2>1, <2>2, UniLower
<1>3. ASSUME NEW r \in H
      PROVE  /\ Only(p[r], i, A, W)
             /\ Posts(p[r], i, A, f[r], tag, "ack", 2)
             /\ Gets(p[r], i, W, f[r], tag, "data", 0)
  <2>1. f[r] \in Int
    BY DEF Ints
  <2>2. p[r] = Window(c, Irecv(f[r], tag, "data", i, 0)) \o Waitall(i, 1)
                 \o Send(f[r], tag, "ack", i, 2)
    BY DEF OneWay
  <2> QED BY <2>1, <2>2, UniUpper
<1> HIDE DEF W, A
<1>4. PairTalk(p, i, L, H, f, f, tag, tag, N, "data", 0, O, "ack", 2)
  BY <1>1, <1>2, <1>3 DEF PairTalk
<1>5. Quiet(R, p, L \cup H)
  <2>1. \A r \in L \cup H : p[r] \in Seq(OpSet)
    BY <1>2, <1>3 DEF Only
  <2> QED BY <2>1, IdleQuiet
<1> QED BY <1>1, <1>4, <1>5, PairPiece

(***************************************************************************)
(* Windows both ways between L and H, and the answer.                      *)
(***************************************************************************)
BothWays(p, L, H, f, tag, c, i) ==
  /\ \A r \in L : p[r] = Window(c, Irecv(f[r], tag, "data", i, 0))
                           \o Window(c, Isend(f[r], tag, "data", i, 0)) \o Waitall(i, 1)
                           \o Recv(f[r], tag, "ack", i, 2)
  /\ \A r \in H : p[r] = Window(c, Irecv(f[r], tag, "data", i, 0))
                           \o Window(c, Isend(f[r], tag, "data", i, 0)) \o Waitall(i, 1)
                           \o Send(f[r], tag, "ack", i, 2)

(***************************************************************************)
(* The body of Biband is a piece.                                          *)
(***************************************************************************)
LEMMA BiBody ==
  ASSUME NEW R, NEW V, NEW D, NEW p, NEW L, NEW H, NEW f, Partners(R, L, H, f),
         Linked(D, L \cup H, f), NEW i \in Nat, NEW tag \in Int, Ints(L \cup H, f, f),
         Sources(V, L \cup H, f, f, tag, tag), Idle(R, p, L \cup H),
         NEW c, c.window \in Nat, D = {} \/ c.window # 0,
         BothWays(p, L, H, f, tag, c, i)
  PROVE  Piece(R, V, D, p, 16 * i, 16 * i + 15)
<1> DEFINE w == c.window
           W == 1 .. w
           X == w + 1 .. w + w
           A == {w + w + 2}
           N == Row(w, 0, w)
           O == One(w + w + 2, w + w + 2)
<1>0. w \in Nat /\ w + w + 2 \in Nat /\ 0 \in Nat
  OBVIOUS
<1>1. /\ Matched(N) /\ Firsts(N) = X /\ Seconds(N) = W /\ (w # 0 => N # {})
      /\ Firsts(O) = A /\ Seconds(O) = A /\ Matched(N \cup O)
  <2>1. 0 + 1 = 1 /\ 0 + w = w /\ w + w < w + w + 2 /\ 0 + w < w + w + 2
    BY <1>0
  <2>2. InRow(N, w, 0, w)
    BY <1>0, RowMatched
  <2>3. Firsts(O) = A /\ Seconds(O) = A
    BY <1>0, OneMatched
  <2>4. Matched(N \cup O)
    BY <1>0, <2>1, AfterRow
  <2> HIDE DEF N, O, A
  <2> QED BY <2>1, <2>2, <2>3, <2>4 DEF InRow
<1> HIDE DEF N, O
<1>2. ASSUME NEW r \in L
      PROVE  /\ Only(p[r], i, X, W \cup A)
             /\ Posts(p[r], i, X, f[r], tag, "data", 0)
             /\ Gets(p[r], i, W, f[r], tag, "data", 0)
             /\ Gets(p[r], i, A, f[r], tag, "ack", 2)
  <2>1. f[r] \in Int
    BY DEF Ints
  <2>2. p[r] = Window(c, Irecv(f[r], tag, "data", i, 0))
                 \o Window(c, Isend(f[r], tag, "data", i, 0)) \o Waitall(i, 1)
                 \o Recv(f[r], tag, "ack", i, 2)
    BY DEF BothWays
  <2> QED BY <2>1, <2>2, BiLower
<1>3. ASSUME NEW r \in H
      PROVE  /\ Only(p[r], i, X \cup A, W)
             /\ Posts(p[r], i, X, f[r], tag, "data", 0)
             /\ Gets(p[r], i, W, f[r], tag, "data", 0)
             /\ Posts(p[r], i, A, f[r], tag, "ack", 2)
  <2>1. f[r] \in Int
    BY DEF Ints
  <2>2. p[r] = Window(c, Irecv(f[r], tag, "data", i, 0))
                 \o Window(c, Isend(f[r], tag, "data", i, 0)) \o Waitall(i, 1)
                 \o Send(f[r], tag, "ack", i, 2)
    BY DEF BothWays
  <2> QED BY <2>1, <2>2, BiUpper
<1> HIDE DEF W, X, A
<1>4. \A n \in N \cup O : n = <<n[1], n[2]>>
  BY <1>1 DEF Matched
<1>5. ASSUME NEW r \in L PROVE Sends(V, p, r, f[r], N)
  <2> DEFINE q == f[r]
  <2>1. q \in H /\ f[q] = r
    BY DEF Partners
  <2>2. Meant(V, q, r, tag, r, tag)
    BY <2>1 DEF Sources
  <2>3. /\ Only(p[r], i, Firsts(N), W \cup A)
        /\ Posts(p[r], i, Firsts(N), q, tag, "data", 0)
    BY <1>1, <1>2
  <2>4. /\ Only(p[q], i, X \cup A, Seconds(N))
        /\ Gets(p[q], i, Seconds(N), r, tag, "data", 0)
    BY <1>1, <1>3, <2>1
  <2>5. \A n \in N : n = <<n[1], n[2]>>
    BY <1>4
  <2> HIDE DEF q
  <2> QED BY <2>2, <2>3, <2>4, <2>5, TalkSends DEF q
<1>6. ASSUME NEW r \in H PROVE Sends(V, p, r, f[r], N \cup O)
  <2> DEFINE q == f[r]
  <2>1. q \in L /\ f[q] = r
    BY DEF Partners
  <2>2. Meant(V, q, r, tag, r, tag)
    BY <2>1 DEF Sources
  <2>3. /\ Only(p[r], i, Firsts(N) \cup Firsts(O), W)
        /\ Posts(p[r], i, Firsts(N), q, tag, "data", 0)
        /\ Posts(p[r], i, Firsts(O), q, tag, "ack", 2)
    BY <1>1, <1>3
  <2>4. /\ Only(p[q], i, X, Seconds(N) \cup Seconds(O))
        /\ Gets(p[q], i, Seconds(N), r, tag, "data", 0)
        /\ Gets(p[q], i, Seconds(O), r, tag, "ack", 2)
    BY <1>1, <1>2, <2>1
  <2> HIDE DEF q
  <2> QED BY <1>4, <2>2, <2>3, <2>4, TalkSendsTwo DEF q
<1>7. Quiet(R, p, L \cup H)
  <2>1. \A r \in L \cup H : p[r] \in Seq(OpSet)
    BY <1>2, <1>3 DEF Only
  <2> QED BY <2>1, IdleQuiet
<1>8. \A r \in L \cup H : Steps(p[r], i)
  BY <1>2, <1>3 DEF Only
<1>9. PairBodies(R, V, p, i, L, H, f, N, N \cup O)
  BY <1>5, <1>6, <1>7, <1>8 DEF PairBodies, Quiet
<1>10. InOrder(N) /\ InOrder(N \cup O) /\ (D = {} \/ (N # {} /\ N \cup O # {}))
  BY <1>1 DEF Matched
<1> QED BY <1>9, <1>10, PairBody

(***************************************************************************)
(* What a rank sends and receives in Exchange.                             *)
(***************************************************************************)
LEMMA ExchangeTalks ==
  ASSUME NEW i \in Nat, NEW tag \in Int, NEW anytag \in Int,
         NEW d1 \in Int, NEW x1 \in Labels, NEW d2 \in Int, NEW x2 \in Labels,
         NEW s3 \in Int, NEW x3 \in Labels, NEW s5 \in Int, NEW x5 \in Labels, NEW s,
         s = Isend(d1, tag, x1, i, 0) \o Isend(d2, tag, x2, i, 0)
               \o Recv(s3, anytag, x3, i, 0) \o Recv(s5, anytag, x5, i, 1) \o Waitall(i, 2)
  PROVE  Exchanged(s, i, tag, anytag, d1, x1, d2, x2, s3, x3, s5, x5)
<1>1. PICK a : Isend(d1, tag, x1, i, 0) = <<a>> /\ Out(a, d1, tag, x1, i, 0)
  BY OutIs
<1>2. PICK b : Isend(d2, tag, x2, i, 0) = <<b>> /\ Out(b, d2, tag, x2, i, 0)
  BY OutIs
<1>3. PICK c, d : /\ Recv(s3, anytag, x3, i, 0) = <<c>> \o <<d>>
                  /\ In(c, s3, anytag, x3, i, 0) /\ Pause(d, "wait_irecv", i, 0 + 1)
  BY RecvIs
<1>4. PICK e, f : /\ Recv(s5, anytag, x5, i, 1) = <<e>> \o <<f>>
                  /\ In(e, s5, anytag, x5, i, 1) /\ Pause(f, "wait_irecv", i, 1 + 1)
  BY RecvIs
<1>5. PICK g : Waitall(i, 2) = <<g>> /\ Pause(g, "waitall", i, 2)
  BY PauseIs
<1>6. /\ a \in OpSet /\ b \in OpSet /\ c \in OpSet /\ d \in OpSet /\ e \in OpSet
      /\ f \in OpSet /\ g \in OpSet
  BY <1>1, <1>2, <1>3, <1>4, <1>5 DEF Out, In, Pause
<1>7. Seven(s, a, b, c, d, e, f, g)
  BY <1>1, <1>2, <1>3, <1>4, <1>5, <1>6, JoinSeven
<1>8. SevenTimes(i, a, b, c, d, e, f, g)
  BY <1>1, <1>2, <1>3, <1>4, <1>5 DEF Out, In, Pause, SevenTimes
<1>9. /\ Steps(s, i) /\ Await(s, 1, 16 * i + 1) /\ Await(s, 2, 16 * i + 1)
      /\ Await(s, 3, 16 * i) /\ Await(s, 5, 16 * i)
  BY <1>7, <1>8, SevenSteps
<1>10. /\ s \in Seq(OpSet) /\ Len(s) = 7
       /\ s[1] = a /\ s[2] = b /\ s[3] = c /\ s[4] = d /\ s[5] = e /\ s[6] = f /\ s[7] = g
  BY <1>7 DEF Seven
<1>11. \A k \in 1 .. 7 : /\ s[k].op = "isend" => k \in {1, 2}
                         /\ s[k].op = "irecv" => k \in {3, 5}
  <2>1. 1 .. 7 = {1, 2, 3, 4, 5, 6, 7}
    OBVIOUS
  <2> QED BY <1>8, <1>10, <2>1 DEF SevenTimes
<1> QED BY <1>1, <1>2, <1>3, <1>4, <1>9, <1>10, <1>11 DEF Exchanged

(***************************************************************************)
(* What is shown of a kernel.                                              *)
(***************************************************************************)
Proper(c) ==
  \E V, D : \E a \in {0, 16}, b \in Nat :
    /\ Piece(0 .. c.np - 1, V, D, Everywhere(c), a, b)
    /\ Closed(c) => D # {}

-----------------------------------------------------------------------------
(***************************************************************************)
(* What is known of the numbers of a call.                                 *)
(***************************************************************************)
LEMMA RanksAre ==
  ASSUME NEW c, KernelCall(c)
  PROVE  /\ c.np \in Nat \ {0} /\ c.n \in Nat /\ c.warm \in Nat /\ c.sizes \in Nat
         /\ 0 .. c.np - 1 \subseteq Nat /\ 0 .. c.np - 1 # {} /\ 0 \in 0 .. c.np - 1
         /\ IsFiniteSet(0 .. c.np - 1)
<1>1. c.np \in Nat \ {0} /\ c.n \in Nat /\ c.warm \in Nat /\ c.sizes \in Nat
  BY DEF KernelCall
<1>2. 0 \in 0 .. c.np - 1 /\ c.np - 1 \in Int
  BY <1>1
<1>3. IsFiniteSet(0 .. c.np - 1)
  BY <1>2, FS_Interval
<1> QED BY <1>1, <1>2, <1>3

(***************************************************************************)
(* A kernel of IMB-MPI1 whose bodies are pieces is proper.                 *)
(***************************************************************************)
LEMMA OpenProper ==
  ASSUME NEW c, KernelCall(c), NEW V, NEW D, Closed(c) => D # {}, NEW G,
         \A m \in 1 .. c.n : Piece(0 .. c.np - 1, V, D, G[m], 16 * m, 16 * m + 15),
         \A r \in 0 .. c.np - 1 :
           OfRank(c, r) = Barriers \o FlattenSeq([i \in 1 .. c.n |-> G[i][r]])
  PROVE  Proper(c)
<1> DEFINE R == 0 .. c.np - 1
           p == Everyone(R, Barriers)
           q == Loop(R, c.n, G)
           b == 16 * c.n + 16
<1>1. c.n \in Nat /\ R # {}
  BY RanksAre
<1>2. Everywhere(c) = Then(p, q)
  <2>1. DOMAIN p = R /\ \A r \in R : p[r] = Barriers /\ q[r] = FlattenSeq([i \in 1 .. c.n |-> G[i][r]])
    BY DEF Everyone, Loop
  <2> HIDE DEF p, q
  <2> QED BY <2>1 DEF Everywhere, Then
<1>3. Piece(R, V, D, Then(p, q), 0, b)
  <2> HIDE DEF R
  <2> QED BY <1>1, OpenPiece DEF R
<1>4. b \in Nat
  BY <1>1
<1> HIDE DEF p, q, b
<1> QED BY <1>2, <1>3, <1>4 DEF Proper

(***************************************************************************)
(* A kernel without barriers whose bodies are pieces is proper.            *)
(***************************************************************************)
LEMMA LoopProper ==
  ASSUME NEW c, KernelCall(c), NEW V, NEW D, Closed(c) => D # {}, NEW n \in Nat, NEW G,
         \A m \in 1 .. n : Piece(0 .. c.np - 1, V, D, G[m], 16 * m, 16 * m + 15),
         \A r \in 0 .. c.np - 1 :
           OfRank(c, r) = FlattenSeq([i \in 1 .. n |-> G[i][r]])
  PROVE  Proper(c)
<1> DEFINE R == 0 .. c.np - 1
           q == Loop(R, n, G)
           b == 16 * n + 16
<1>2. Everywhere(c) = q
  BY DEF Everywhere, Loop
<1>3. Piece(R, V, D, q, 16, b)
  <2> HIDE DEF R
  <2> QED BY ClosedPiece DEF R
<1>4. b \in Nat
  OBVIOUS
<1> HIDE DEF q, b
<1> QED BY <1>2, <1>3, <1>4 DEF Proper

(***************************************************************************)
(* The halves of an even number of ranks are partners.                     *)
(***************************************************************************)
LEMMA HalvesAre ==
  ASSUME NEW c, KernelCall(c), c.np % 2 = 0
  PROVE  /\ Low(c) \cup High(c) = 0 .. c.np - 1
         /\ Partners(0 .. c.np - 1, Low(c), High(c), Half(c))
         /\ \A r \in Low(c) : r < c.np \div 2
         /\ \A r \in High(c) : ~ (r < c.np \div 2)
         /\ Ints(0 .. c.np - 1, Half(c), Half(c))
<1> DEFINE R == 0 .. c.np - 1
           f == Half(c)
<1>1. PICK h \in Nat \ {0} : c.np = 2 * h /\ c.np \div 2 = h
  BY RanksAre
<1>2. Low(c) = 0 .. h - 1 /\ High(c) = h .. 2 * h - 1 /\ R = 0 .. 2 * h - 1
  BY <1>1 DEF Low, High
<1>3. f = [r \in 0 .. 2 * h - 1 |-> IF r < h THEN r + h ELSE r - h]
  BY <1>1, <1>2 DEF Half
<1>4. \A r \in 0 .. h - 1 : f[r] = r + h /\ f[r] \in h .. 2 * h - 1
  BY <1>3
<1>5. \A r \in h .. 2 * h - 1 : f[r] = r - h /\ f[r] \in 0 .. h - 1
  BY <1>3
<1> HIDE DEF f, R
<1>0. Low(c) \cup High(c) = R /\ Low(c) \cap High(c) = {}
  BY <1>2, TwoHalves
<1>6. \A r \in 0 .. h - 1 : f[f[r]] = r
  BY <1>4, <1>5
<1>7. \A r \in h .. 2 * h - 1 : f[f[r]] = r
  BY <1>4, <1>5
<1>8. Partners(R, Low(c), High(c), f)
  <2>1. \A r \in Low(c) : f[r] \in High(c) /\ f[f[r]] = r
    BY <1>2, <1>4, <1>6
  <2>2. \A r \in High(c) : f[r] \in Low(c) /\ f[f[r]] = r
    BY <1>2, <1>5, <1>7
  <2> QED BY <1>0, <2>1, <2>2 DEF Partners
<1>9. \A r \in Low(c) : f[r] \in Int /\ r < h
  BY <1>2, <1>4
<1>10. \A r \in High(c) : f[r] \in Int /\ ~ (r < h)
  BY <1>2, <1>5
<1>11. \A r \in R : f[r] \in Int
  BY <1>0, <1>9, <1>10
<1> QED BY <1>0, <1>1, <1>8, <1>9, <1>10, <1>11 DEF f, R, Ints

(***************************************************************************)
(* PingPong and PingPing.                                                  *)
(***************************************************************************)
From(c) == [r \in 0 .. c.np - 1 |-> Source(c, 1 - r)]

(***************************************************************************)
(* Two ranks are partners.                                                 *)
(***************************************************************************)
LEMMA TwoRanks ==
  ASSUME NEW c, KernelCall(c), c.np = 2
  PROVE  /\ c.np % 2 = 0
         /\ \A r \in 0 .. c.np - 1 : Half(c)[r] = 1 - r
         /\ \A r \in Low(c) : r = 0
         /\ \A r \in High(c) : r # 0
         /\ Ints(0 .. c.np - 1, Half(c), From(c))
         /\ Sources(Channels(0 .. c.np - 1, Half(c), 1), 0 .. c.np - 1, Half(c), From(c), 1, ANY)
         /\ Knows(0 .. c.np - 1, 0 .. c.np - 1, Half(c)) # {}
<1> DEFINE R == 0 .. c.np - 1
           f == Half(c)
<1>1. R = {0, 1} /\ c.np % 2 = 0 /\ c.np \div 2 = 1
  OBVIOUS
<1>2. f[0] = 1 /\ f[1] = 0
  BY <1>1 DEF Half
<1>3. \A r \in R : f[r] \in R /\ f[f[r]] = r /\ f[r] = 1 - r
  BY <1>1, <1>2
<1>4. ASSUME NEW r \in R PROVE From(c)[r] \in {f[r], ANY} /\ From(c)[r] \in Int
  BY <1>1, <1>2 DEF From, Source, ANY
<1>6. Ints(R, f, From(c))
  BY <1>1, <1>2, <1>4 DEF Ints
<1>7. Sources(Channels(R, f, 1), R, f, From(c), 1, ANY)
  <2>1. ANY \in {1, ANY}
    OBVIOUS
  <2> HIDE DEF f, R
  <2> QED BY <1>3, <1>4, <2>1, AnySources
<1>8. <<0, 0>> \in Knows(R, R, f)
  BY <1>1 DEF Knows
<1>9. (\A r \in Low(c) : r = 0) /\ (\A r \in High(c) : r # 0)
  BY <1>1 DEF Low, High
<1> HIDE DEF f
<1> QED BY <1>1, <1>3, <1>6, <1>7, <1>8, <1>9 DEF f

(***************************************************************************)
(* PingPong.                                                               *)
(***************************************************************************)
LEMMA PingPongProper ==
  ASSUME NEW c, KernelCall(c), c.kernel = "PingPong"
  PROVE  Proper(c)
<1> DEFINE R == 0 .. c.np - 1
           f == Half(c)
           g == From(c)
           L == Low(c)
           H == High(c)
           V == Channels(R, f, 1)
           D == Knows(R, R, f)
           B(r, i) == IF r = 0
                      THEN Send(f[r], 1, "data", i, 0) \o Recv(g[r], ANY, "data", i, 2)
                      ELSE Recv(g[r], ANY, "data", i, 0) \o Send(f[r], 1, "data", i, 2)
           G == [i \in 1 .. c.n |-> [r \in R |-> B(r, i)]]
<1>1. c.np = 2 /\ c.n \in Nat
  BY DEF KernelCall
<1>2. /\ c.np % 2 = 0 /\ Ints(R, f, g) /\ Sources(V, R, f, g, 1, ANY) /\ D # {}
      /\ (\A r \in L : r = 0) /\ (\A r \in H : r # 0) /\ (\A r \in R : f[r] = 1 - r)
  BY <1>1, TwoRanks
<1>3. L \cup H = R /\ Partners(R, L, H, f)
  BY <1>2, HalvesAre
<1>4. ASSUME NEW i \in 1 .. c.n PROVE Piece(R, V, D, G[i], 16 * i, 16 * i + 15)
  <2> DEFINE p == G[i]
  <2>1. p = [r \in R |-> B(r, i)]
    OBVIOUS
  <2>2. i \in Nat /\ 1 \in Int /\ ANY \in Int
    BY <1>1 DEF ANY
  <2> HIDE DEF p, V, D, R, f, L, H, g
  <2>3. Pinging(p, L, H, f, g, 1, ANY, i)
    BY <1>2, <1>3, <2>1 DEF Pinging
  <2>5. Idle(R, p, L \cup H)
    BY <1>3, <2>1 DEF Idle
  <2>6. Linked(D, L \cup H, f)
    BY <1>3, PairsLinked DEF D
  <2>7. Ints(L \cup H, f, g) /\ Sources(V, L \cup H, f, g, 1, ANY)
    BY <1>2, <1>3
  <2>8. Piece(R, V, D, p, 16 * i, 16 * i + 15)
    BY <1>3, <2>2, <2>3, <2>5, <2>6, <2>7, PingPongBody
  <2> QED BY <2>8 DEF p
<1>5. ASSUME NEW r \in R
      PROVE  OfRank(c, r) = Barriers \o FlattenSeq([i \in 1 .. c.n |-> G[i][r]])
  <2>1. OfRank(c, r) = Barriers \o PingPong(c, r)
    BY DEF OfRank
  <2>2. f[r] = 1 - r /\ g[r] = Source(c, 1 - r)
    BY <1>2 DEF From
  <2>3. \A i \in 1 .. c.n : G[i][r] = B(r, i)
    OBVIOUS
  <2> HIDE DEF G, f, g
  <2>4. [i \in 1 .. c.n |-> G[i][r]] = [i \in 1 .. c.n |-> B(r, i)]
    BY <2>3
  <2>5. PingPong(c, r) = FlattenSeq([i \in 1 .. c.n |-> B(r, i)])
    <3>1. CASE r = 0
      BY <3>1, <2>2 DEF PingPong, Times
    <3>2. CASE r # 0
      BY <3>2, <2>2 DEF PingPong, Times
    <3> QED BY <3>1, <3>2
  <2> QED BY <2>1, <2>4, <2>5
<1> HIDE DEF G, V, D
<1> QED BY <1>2, <1>4, <1>5, OpenProper

(***************************************************************************)
(* PingPing.                                                               *)
(***************************************************************************)
LEMMA PingPingProper ==
  ASSUME NEW c, KernelCall(c), c.kernel = "PingPing"
  PROVE  Proper(c)
<1> DEFINE R == 0 .. c.np - 1
           f == Half(c)
           g == From(c)
           L == Low(c)
           H == High(c)
           V == Channels(R, f, 1)
           D == Knows(R, R, f)
           B(r, i) == Isend(f[r], 1, "data", i, 0) \o Recv(g[r], ANY, "data", i, 0) \o Waitall(i, 1)
           G == [i \in 1 .. c.n |-> [r \in R |-> B(r, i)]]
<1>1. c.np = 2 /\ c.n \in Nat
  BY DEF KernelCall
<1>2. /\ c.np % 2 = 0 /\ Ints(R, f, g) /\ Sources(V, R, f, g, 1, ANY) /\ D # {}
      /\ (\A r \in R : f[r] = 1 - r)
  BY <1>1, TwoRanks
<1>3. Ring(R, R, f, f) /\ Turning(R, D, R, f, f)
  <2>1. L \cup H = R /\ Partners(R, L, H, f)
    BY <1>2, HalvesAre
  <2> HIDE DEF L, H, R, f
  <2> QED BY <2>1, PairsTurn DEF D
<1>4. ASSUME NEW i \in 1 .. c.n PROVE Piece(R, V, D, G[i], 16 * i, 16 * i + 15)
  <2> DEFINE p == G[i]
  <2>1. p = [r \in R |-> B(r, i)]
    OBVIOUS
  <2>2. i \in Nat /\ 1 \in Int /\ ANY \in Int
    BY <1>1 DEF ANY
  <2> HIDE DEF p, V, D, R, f, g
  <2>3. Both(p, R, f, g, 1, ANY, i)
    BY <2>1 DEF Both
  <2>5. Idle(R, p, R)
    BY <2>1 DEF Idle
  <2>8. Piece(R, V, D, p, 16 * i, 16 * i + 15)
    BY <1>2, <1>3, <2>2, <2>3, <2>5, BothBody
  <2> QED BY <2>8 DEF p
<1>5. ASSUME NEW r \in R
      PROVE  OfRank(c, r) = Barriers \o FlattenSeq([i \in 1 .. c.n |-> G[i][r]])
  <2>1. OfRank(c, r) = Barriers \o PingPing(c, r)
    BY DEF OfRank
  <2>2. f[r] = 1 - r /\ g[r] = Source(c, 1 - r)
    BY <1>2 DEF From
  <2>3. \A i \in 1 .. c.n : G[i][r] = B(r, i)
    OBVIOUS
  <2> HIDE DEF G, f, g
  <2>4. [i \in 1 .. c.n |-> G[i][r]] = [i \in 1 .. c.n |-> B(r, i)]
    BY <2>3
  <2>5. PingPing(c, r) = FlattenSeq([i \in 1 .. c.n |-> B(r, i)])
    BY <2>2 DEF PingPing, Times
  <2> QED BY <2>1, <2>4, <2>5
<1> HIDE DEF G, V, D
<1> QED BY <1>2, <1>4, <1>5, OpenProper

(***************************************************************************)
(* The ranks ahead and behind.                                             *)
(***************************************************************************)
LEMMA AheadIs ==
  ASSUME NEW c, KernelCall(c), NEW s \in 0 .. c.np, NEW r \in 0 .. c.np - 1
  PROVE  /\ Ahead(c, s)[r] = IF r + s < c.np THEN r + s ELSE r + s - c.np
         /\ Behind(c, s)[r] = IF r < s THEN r + c.np - s ELSE r - s
<1> DEFINE n == c.np
           next == Ahead(c, s)
           last == Behind(c, s)
<1>1. n \in Nat \ {0}
  BY RanksAre
<1>2. r + s \in 0 .. 2 * n - 1 /\ r + n - s \in 0 .. 2 * n - 1 /\ (r + n - s < n <=> r < s)
  BY <1>1
<1>3. next[r] = (r + s) % n /\ last[r] = (r + n - s) % n
  BY DEF Ahead, Behind
<1> HIDE DEF n, next, last
<1>4. PICK k \in 0 .. 2 * n - 1 : k = r + s
  BY <1>2
<1>5. PICK l \in 0 .. 2 * n - 1 : l = r + n - s
  BY <1>2
<1>6. k % n = (IF k < n THEN k ELSE k - n)
  BY <1>1, WrapIs
<1>7. l % n = (IF l < n THEN l ELSE l - n)
  BY <1>1, WrapIs
<1>8. next[r] = (IF r + s < n THEN r + s ELSE r + s - n)
  BY <1>1, <1>2, <1>3, <1>4, <1>6 DEF n
<1>9. last[r] = (IF r < s THEN r + n - s ELSE r - s)
  BY <1>1, <1>2, <1>3, <1>5, <1>7 DEF n
<1> QED BY <1>8, <1>9 DEF n, next, last

(***************************************************************************)
(* They make a ring.                                                       *)
(***************************************************************************)
LEMMA RingIs ==
  ASSUME NEW c, KernelCall(c), NEW s \in 0 .. c.np
  PROVE  /\ Ring(0 .. c.np - 1, 0 .. c.np - 1, Ahead(c, s), Behind(c, s))
         /\ Ints(0 .. c.np - 1, Ahead(c, s), Behind(c, s))
<1> DEFINE R == 0 .. c.np - 1
           n == c.np
           next == Ahead(c, s)
           last == Behind(c, s)
<1>1. n \in Nat \ {0}
  BY RanksAre
<1>2. ASSUME NEW r \in R
      PROVE  /\ next[r] = IF r + s < n THEN r + s ELSE r + s - n
             /\ last[r] = IF r < s THEN r + n - s ELSE r - s
  BY AheadIs
<1> HIDE DEF next, last
<1>3. ASSUME NEW r \in R PROVE next[r] \in R /\ last[r] \in R
  BY <1>1, <1>2
<1>4. ASSUME NEW r \in R PROVE last[next[r]] = r
  <2>1. next[r] \in R
    BY <1>3
  <2> DEFINE q == next[r]
  <2>2. q = IF r + s < n THEN r + s ELSE r + s - n
    BY <1>2
  <2>3. last[q] = IF q < s THEN q + n - s ELSE q - s
    BY <1>2, <2>1
  <2> HIDE DEF q
  <2> QED BY <1>1, <2>2, <2>3 DEF q
<1>5. ASSUME NEW r \in R PROVE next[last[r]] = r
  <2>1. last[r] \in R
    BY <1>3
  <2> DEFINE q == last[r]
  <2>2. q = IF r < s THEN r + n - s ELSE r - s
    BY <1>2
  <2>3. next[q] = IF q + s < n THEN q + s ELSE q + s - n
    BY <1>2, <2>1
  <2> HIDE DEF q
  <2> QED BY <1>1, <2>2, <2>3 DEF q
<1>6. Ring(R, R, next, last)
  BY <1>3, <1>4, <1>5 DEF Ring
<1>7. Ints(R, next, last)
  BY <1>3 DEF Ints
<1> QED BY <1>6, <1>7 DEF next, last

(***************************************************************************)
(* Sendrecv.                                                               *)
(***************************************************************************)
LEMMA SendrecvProper ==
  ASSUME NEW c, KernelCall(c), c.kernel = "Sendrecv"
  PROVE  Proper(c)
<1> DEFINE R == 0 .. c.np - 1
           f == Ahead(c, 1)
           g == Behind(c, 1)
           V == Channels(R, f, 1)
           D == Knows(R, R, f)
           B(r, i) == Irecv(g[r], ANY, "data", i, 0) \o Isend(f[r], 1, "data", i, 0) \o Waitall(i, 1)
           G == [i \in 1 .. c.n |-> [r \in R |-> B(r, i)]]
<1>1. c.np \in Nat \ {0} /\ c.n \in Nat /\ 0 \in R /\ IsFiniteSet(R) /\ 1 \in 0 .. c.np
  BY RanksAre
<1>2. Ring(R, R, f, g) /\ Ints(R, f, g)
  BY <1>1, RingIs
<1>3. Turning(R, D, R, f, g) /\ D # {}
  <2> HIDE DEF R, f, g
  <2>1. <<0, 0>> \in D
    BY <1>1 DEF Knows
  <2> QED BY <1>1, <1>2, <2>1, RingTurns DEF D
<1>6. Sources(V, R, g, g, 1, ANY)
  <2> HIDE DEF f, g, R
  <2>1. \A r \in R : f[r] \in R /\ g[f[r]] = r /\ g[r] \in R /\ f[g[r]] = r
    BY <1>2 DEF Ring
  <2>2. ANY \in {1, ANY} /\ \A r \in R : g[r] \in {g[r], ANY}
    OBVIOUS
  <2> QED BY <2>1, <2>2, AnySources
<1>4. ASSUME NEW i \in 1 .. c.n PROVE Piece(R, V, D, G[i], 16 * i, 16 * i + 15)
  <2> DEFINE p == G[i]
  <2>1. p = [r \in R |-> B(r, i)]
    OBVIOUS
  <2>2. i \in Nat /\ 1 \in Int /\ ANY \in Int
    BY <1>1 DEF ANY
  <2> HIDE DEF p, V, D, R, f, g
  <2>3. Crosses(p, R, f, g, 1, ANY, i)
    BY <2>1 DEF Crosses
  <2>5. Idle(R, p, R)
    BY <2>1 DEF Idle
  <2>8. Piece(R, V, D, p, 16 * i, 16 * i + 15)
    BY <1>2, <1>3, <1>6, <2>2, <2>3, <2>5, CrossBody
  <2> QED BY <2>8 DEF p
<1>5. ASSUME NEW r \in R
      PROVE  OfRank(c, r) = Barriers \o FlattenSeq([i \in 1 .. c.n |-> G[i][r]])
  <2>1. OfRank(c, r) = Barriers \o Sendrecv(c, r)
    BY DEF OfRank
  <2>2. f[r] = (r + 1) % c.np /\ g[r] = (r + c.np - 1) % c.np
    BY DEF Ahead, Behind
  <2>3. \A i \in 1 .. c.n : G[i][r] = B(r, i)
    OBVIOUS
  <2> HIDE DEF G, f, g
  <2>4. [i \in 1 .. c.n |-> G[i][r]] = [i \in 1 .. c.n |-> B(r, i)]
    BY <2>3
  <2>5. Sendrecv(c, r) = FlattenSeq([i \in 1 .. c.n |-> B(r, i)])
    BY <2>2 DEF Sendrecv, Times
  <2> QED BY <2>1, <2>4, <2>5
<1> HIDE DEF G, V, D
<1> QED BY <1>3, <1>4, <1>5, OpenProper

(***************************************************************************)
(* Exchange: each rank exchanges with the next one and the last one.       *)
(***************************************************************************)
LEMMA ExchangeProper ==
  ASSUME NEW c, KernelCall(c), c.kernel = "Exchange"
  PROVE  Proper(c)
<1> DEFINE R == 0 .. c.np - 1
           f == Ahead(c, 1)
           g == Behind(c, 1)
           V == R \X R \X {1}
           D == Mutual(R, R, f, g)
           B(r, i) == Isend(f[r], 1, "right", i, 0) \o Isend(g[r], 1, "left", i, 0)
                        \o Recv(g[r], ANY, "right", i, 0) \o Recv(f[r], ANY, "left", i, 1)
                        \o Waitall(i, 2)
           G == [i \in 1 .. c.n |-> [r \in R |-> B(r, i)]]
<1>1. /\ c.np \in Nat \ {0} /\ c.n \in Nat /\ R \subseteq Nat /\ 0 \in R /\ 1 \in 0 .. c.np
      /\ 1 \in Nat /\ 1 \in Int /\ ANY \in Int
  BY RanksAre DEF ANY
<1>2. Ring(R, R, f, g) /\ Ints(R, f, g)
  BY <1>1, RingIs
<1>3. Named(V, R, 1, ANY) /\ D # {}
  <2> HIDE DEF R, f, g
  <2>1. <<0, 0>> \in D
    BY <1>1 DEF Mutual
  <2> QED BY <1>1, <2>1, NamedAny
<1>4. ASSUME NEW i \in 1 .. c.n PROVE Piece(R, V, D, G[i], 16 * i, 16 * i + 15)
  <2> DEFINE p == G[i]
  <2>1. p = [r \in R |-> B(r, i)]
    OBVIOUS
  <2>2. i \in Nat
    BY <1>1
  <2> HIDE DEF p, V, D, R, f, g
  <2>3. ASSUME NEW r \in R
        PROVE  Exchanges(p[r], i, 1, ANY, f[r], g[r], "right", "left", 1, 2)
    <3>1. p[r] = B(r, i) /\ f[r] \in Int /\ g[r] \in Int
      BY <1>2, <2>1 DEF Ints
    <3>2. "right" \in Labels /\ "left" \in Labels
      BY DataIs
    <3>3. Exchanged(p[r], i, 1, ANY, f[r], "right", g[r], "left", g[r], "right", f[r], "left")
      BY <1>1, <2>2, <3>1, <3>2, ExchangeTalks
    <3> QED BY <3>3 DEF Exchanged, Exchanges
  <2>4. p = [r \in R |-> p[r]]
    BY <2>1
  <2>5. 1 \in {1, 2} /\ 2 \in {1, 2} /\ 1 # 2 /\ 1 < 2
    OBVIOUS
  <2>6. Piece(R, V, D, p, 16 * i, 16 * i + 15)
    BY <1>2, <1>3, <2>2, <2>3, <2>4, <2>5, ExchangeBody DEF D
  <2> QED BY <2>6 DEF p
<1>5. ASSUME NEW r \in R
      PROVE  OfRank(c, r) = Barriers \o FlattenSeq([i \in 1 .. c.n |-> G[i][r]])
  <2>1. OfRank(c, r) = Barriers \o Exchange(c, r)
    BY DEF OfRank
  <2>2. /\ f[r] = IF r = c.np - 1 THEN 0 ELSE r + 1
        /\ g[r] = IF r = 0 THEN c.np - 1 ELSE r - 1
    BY <1>1, AheadIs
  <2>3. \A i \in 1 .. c.n : G[i][r] = B(r, i)
    OBVIOUS
  <2> HIDE DEF G, f, g
  <2>4. [i \in 1 .. c.n |-> G[i][r]] = [i \in 1 .. c.n |-> B(r, i)]
    BY <2>3
  <2>5. Exchange(c, r) = FlattenSeq([i \in 1 .. c.n |-> B(r, i)])
    BY <2>2 DEF Exchange, Times
  <2> QED BY <2>1, <2>4, <2>5
<1> HIDE DEF G, V, D
<1> QED BY <1>3, <1>4, <1>5, OpenProper

(***************************************************************************)
(* The edges of the kernels with windows, which are none where the window  *)
(* is empty.                                                               *)
(***************************************************************************)
LEMMA EdgesLink ==
  ASSUME NEW c, c.kernel \in Windows, c.window \in Nat,
         NEW R, R # {}, NEW L, NEW H, NEW f, Partners(R, L, H, f)
  PROVE  /\ Linked(EdgesOf(c, R, L \cup H, f), L \cup H, f)
         /\ EdgesOf(c, R, L \cup H, f) = {} \/ c.window # 0
         /\ Closed(c) => EdgesOf(c, R, L \cup H, f) # {}
<1> DEFINE D == EdgesOf(c, R, L \cup H, f)
<1>1. CASE c.window = 0
  <2>1. D = {} /\ ~ Closed(c)
    BY <1>1 DEF EdgesOf, Closed
  <2> QED BY <2>1 DEF Linked
<1>2. CASE c.window # 0
  <2>1. D = Knows(R, L \cup H, f)
    BY <1>2 DEF EdgesOf
  <2>2. PICK r \in R : TRUE
    OBVIOUS
  <2>3. <<r, r>> \in D
    BY <2>1 DEF Knows
  <2> HIDE DEF D
  <2> QED BY <1>2, <2>1, <2>3, PairsLinked DEF D
<1> QED BY <1>1, <1>2

(***************************************************************************)
(* Uniband.                                                                *)
(***************************************************************************)
LEMMA UnibandProper ==
  ASSUME NEW c, KernelCall(c), c.kernel = "Uniband"
  PROVE  Proper(c)
<1> DEFINE R == 0 .. c.np - 1
           f == Half(c)
           L == Low(c)
           H == High(c)
           V == R \X R \X {1}
           D == EdgesOf(c, R, L \cup H, f)
           B(r, i) == IF r < c.np \div 2
                      THEN Window(c, Isend(f[r], 1, "data", i, 0)) \o Waitall(i, 1)
                             \o Recv(f[r], 1, "ack", i, 2)
                      ELSE Window(c, Irecv(f[r], 1, "data", i, 0)) \o Waitall(i, 1)
                             \o Send(f[r], 1, "ack", i, 2)
           G == [i \in 1 .. c.n |-> [r \in R |-> B(r, i)]]
<1>1. /\ c.np \in Nat \ {0} /\ c.n \in Nat /\ R \subseteq Nat /\ R # {} /\ c.window \in Nat
      /\ c.np % 2 = 0 /\ 1 \in Int /\ c.kernel \in Windows
  BY RanksAre DEF KernelCall, Windows
<1>2. /\ L \cup H = R /\ Partners(R, L, H, f) /\ Ints(R, f, f)
      /\ (\A r \in L : r < c.np \div 2) /\ (\A r \in H : ~ (r < c.np \div 2))
  BY <1>1, HalvesAre
<1>3. Linked(D, L \cup H, f) /\ (D = {} \/ c.window # 0) /\ (Closed(c) => D # {})
  <2> HIDE DEF R, L, H, f
  <2> QED BY <1>1, <1>2, EdgesLink
<1>6. Sources(V, R, f, f, 1, 1)
  <2> HIDE DEF R, L, H, f
  <2>1. (\A r \in R : f[r] \in R) /\ 1 \in {1} /\ {1} \subseteq Nat /\ R \subseteq R
    BY <1>2 DEF Partners
  <2> QED BY <1>1, <2>1, SameSources
<1>4. ASSUME NEW i \in 1 .. c.n PROVE Piece(R, V, D, G[i], 16 * i, 16 * i + 15)
  <2> DEFINE p == G[i]
  <2>1. p = [r \in R |-> B(r, i)]
    OBVIOUS
  <2>2. i \in Nat
    BY <1>1
  <2> HIDE DEF p, V, D, R, f, L, H
  <2>3. OneWay(p, L, H, f, 1, c, i)
    BY <1>2, <2>1 DEF OneWay
  <2>5. Idle(R, p, L \cup H)
    BY <1>2, <2>1 DEF Idle
  <2>7. Ints(L \cup H, f, f) /\ Sources(V, L \cup H, f, f, 1, 1)
    BY <1>2, <1>6
  <2>8. Piece(R, V, D, p, 16 * i, 16 * i + 15)
    BY <1>1, <1>2, <1>3, <2>2, <2>3, <2>5, <2>7, UniBody
  <2> QED BY <2>8 DEF p
<1>5. ASSUME NEW r \in R
      PROVE  OfRank(c, r) = Barriers \o FlattenSeq([i \in 1 .. c.n |-> G[i][r]])
  <2>1. OfRank(c, r) = Barriers \o Uniband(c, r)
    BY DEF OfRank
  <2>2. f[r] = IF r < c.np \div 2 THEN r + c.np \div 2 ELSE r - c.np \div 2
    BY DEF Half
  <2>3. \A i \in 1 .. c.n : G[i][r] = B(r, i)
    OBVIOUS
  <2> HIDE DEF G, f
  <2>4. [i \in 1 .. c.n |-> G[i][r]] = [i \in 1 .. c.n |-> B(r, i)]
    BY <2>3
  <2>5. Uniband(c, r) = FlattenSeq([i \in 1 .. c.n |-> B(r, i)])
    <3>1. CASE r < c.np \div 2
      BY <3>1, <2>2 DEF Uniband, Times
    <3>2. CASE ~ (r < c.np \div 2)
      BY <3>2, <2>2 DEF Uniband, Times
    <3> QED BY <3>1, <3>2
  <2> QED BY <2>1, <2>4, <2>5
<1> HIDE DEF G, V, D
<1> QED BY <1>3, <1>4, <1>5, OpenProper

(***************************************************************************)
(* Biband.                                                                 *)
(***************************************************************************)
LEMMA BibandProper ==
  ASSUME NEW c, KernelCall(c), c.kernel = "Biband"
  PROVE  Proper(c)
<1> DEFINE R == 0 .. c.np - 1
           f == Half(c)
           L == Low(c)
           H == High(c)
           V == R \X R \X {1}
           D == EdgesOf(c, R, L \cup H, f)
           W(r, i) == Window(c, Irecv(f[r], 1, "data", i, 0))
                        \o Window(c, Isend(f[r], 1, "data", i, 0)) \o Waitall(i, 1)
           B(r, i) == IF r < c.np \div 2 THEN W(r, i) \o Recv(f[r], 1, "ack", i, 2)
                      ELSE W(r, i) \o Send(f[r], 1, "ack", i, 2)
           G == [i \in 1 .. c.n |-> [r \in R |-> B(r, i)]]
<1>1. /\ c.np \in Nat \ {0} /\ c.n \in Nat /\ R \subseteq Nat /\ R # {} /\ c.window \in Nat
      /\ c.np % 2 = 0 /\ 1 \in Int /\ c.kernel \in Windows
  BY RanksAre DEF KernelCall, Windows
<1>2. /\ L \cup H = R /\ Partners(R, L, H, f) /\ Ints(R, f, f)
      /\ (\A r \in L : r < c.np \div 2) /\ (\A r \in H : ~ (r < c.np \div 2))
  BY <1>1, HalvesAre
<1>3. Linked(D, L \cup H, f) /\ (D = {} \/ c.window # 0) /\ (Closed(c) => D # {})
  <2> HIDE DEF R, L, H, f
  <2> QED BY <1>1, <1>2, EdgesLink
<1>6. Sources(V, R, f, f, 1, 1)
  <2> HIDE DEF R, L, H, f
  <2>1. (\A r \in R : f[r] \in R) /\ 1 \in {1} /\ {1} \subseteq Nat /\ R \subseteq R
    BY <1>2 DEF Partners
  <2> QED BY <1>1, <2>1, SameSources
<1>4. ASSUME NEW i \in 1 .. c.n PROVE Piece(R, V, D, G[i], 16 * i, 16 * i + 15)
  <2> DEFINE p == G[i]
  <2>1. p = [r \in R |-> B(r, i)]
    OBVIOUS
  <2>2. i \in Nat
    BY <1>1
  <2> HIDE DEF p, V, D, R, f, L, H
  <2>3. BothWays(p, L, H, f, 1, c, i)
    BY <1>2, <2>1 DEF BothWays
  <2>5. Idle(R, p, L \cup H)
    BY <1>2, <2>1 DEF Idle
  <2>7. Ints(L \cup H, f, f) /\ Sources(V, L \cup H, f, f, 1, 1)
    BY <1>2, <1>6
  <2>8. Piece(R, V, D, p, 16 * i, 16 * i + 15)
    BY <1>1, <1>2, <1>3, <2>2, <2>3, <2>5, <2>7, BiBody
  <2> QED BY <2>8 DEF p
<1>5. ASSUME NEW r \in R
      PROVE  OfRank(c, r) = Barriers \o FlattenSeq([i \in 1 .. c.n |-> G[i][r]])
  <2>1. OfRank(c, r) = Barriers \o Biband(c, r)
    BY DEF OfRank
  <2>2. f[r] = IF r < c.np \div 2 THEN r + c.np \div 2 ELSE r - c.np \div 2
    BY DEF Half
  <2>3. \A i \in 1 .. c.n : G[i][r] = B(r, i)
    OBVIOUS
  <2> HIDE DEF G, f
  <2>4. [i \in 1 .. c.n |-> G[i][r]] = [i \in 1 .. c.n |-> B(r, i)]
    BY <2>3
  <2>5. Biband(c, r) = FlattenSeq([i \in 1 .. c.n |-> B(r, i)])
    <3>1. CASE r < c.np \div 2
      BY <3>1, <2>2 DEF Biband, Times
    <3>2. CASE ~ (r < c.np \div 2)
      BY <3>2, <2>2 DEF Biband, Times
    <3> QED BY <3>1, <3>2
  <2> QED BY <2>1, <2>4, <2>5
<1> HIDE DEF G, V, D
<1> QED BY <1>3, <1>4, <1>5, OpenProper

(***************************************************************************)
(* The pairs of IMB-MT: the groups are numbered, an even one and the next  *)
(* are partners.                                                           *)
(***************************************************************************)
Evens(c) == {r \in 0 .. c.np - 1 : TakesPart(c, r) /\ Even(c, r)}

(***************************************************************************)
(* The ranks of odd groups that take part, and the partners of all.        *)
(***************************************************************************)
Odds(c) == {r \in 0 .. c.np - 1 : TakesPart(c, r) /\ ~ Even(c, r)}

Pair(c) == [r \in 0 .. c.np - 1 |-> MtPartner(c, r)]

(***************************************************************************)
(* The even and the odd groups that take part are partners.                *)
(***************************************************************************)
LEMMA PairsOfGroups ==
  ASSUME NEW c, KernelCall(c)
  PROVE  /\ Partners(0 .. c.np - 1, Evens(c), Odds(c), Pair(c))
         /\ Ints(Evens(c) \cup Odds(c), Pair(c), Pair(c))
<1> DEFINE R == 0 .. c.np - 1
           n == c.np
           s == Stride(c)
           f == Pair(c)
           L == Evens(c)
           H == Odds(c)
<1>1. n \in Nat \ {0} /\ R \subseteq Nat
  BY RanksAre
<1>2. s \in Int
  BY <1>1 DEF Stride, KernelCall
<1>3. ASSUME NEW r \in L PROVE f[r] \in H /\ f[f[r]] = r /\ r \in R
  <2>1. /\ r \in R /\ s > 0 /\ s <= n \div 2 /\ (r \div s) % 2 = 0
        /\ (r \div s) \div 2 = n \div (2 * s) => n % (2 * s) = 0
    BY DEF Evens, TakesPart, Even, Group
  <2>2. s \in Nat \ {0}
    BY <1>2, <2>1
  <2> DEFINE q == r + s
  <2>3. f[r] = q
    BY <2>1 DEF Pair, MtPartner, Even, Group
  <2> HIDE DEF s, n
  <2>4. /\ q \in 0 .. n - 1 /\ (q \div s) \div 2 = (r \div s) \div 2 /\ (q \div s) % 2 # 0
    BY <1>1, <2>1, <2>2, EvenPartner DEF n
  <2>5. q \in H
    BY <2>1, <2>2, <2>4 DEF Odds, TakesPart, Even, Group, s, n
  <2>6. f[q] = q - s
    BY <2>4 DEF Pair, MtPartner, Even, Group, s, n
  <2>7. q - s = r
    BY <2>1, <2>2
  <2> QED BY <2>1, <2>3, <2>5, <2>6, <2>7
<1>4. ASSUME NEW r \in H PROVE f[r] \in L /\ f[f[r]] = r /\ r \in R
  <2>1. /\ r \in R /\ s > 0 /\ s <= n \div 2 /\ (r \div s) % 2 # 0
        /\ (r \div s) \div 2 = n \div (2 * s) => n % (2 * s) = 0
    BY DEF Odds, TakesPart, Even, Group
  <2>2. s \in Nat \ {0}
    BY <1>2, <2>1
  <2> DEFINE q == r - s
  <2>3. f[r] = q
    BY <2>1 DEF Pair, MtPartner, Even, Group
  <2> HIDE DEF s, n
  <2>4. /\ q \in 0 .. n - 1 /\ (q \div s) \div 2 = (r \div s) \div 2 /\ (q \div s) % 2 = 0
    BY <1>1, <2>1, <2>2, OddPartner DEF n
  <2>5. q \in L
    BY <2>1, <2>2, <2>4 DEF Evens, TakesPart, Even, Group, s, n
  <2>6. f[q] = q + s
    BY <2>4 DEF Pair, MtPartner, Even, Group, s, n
  <2>7. q + s = r
    BY <2>1, <2>2
  <2> QED BY <2>1, <2>3, <2>5, <2>6, <2>7
<1>5. L \cap H = {}
  BY DEF Evens, Odds
<1>6. Partners(R, L, H, f)
  <2> HIDE DEF L, H, f
  <2> QED BY <1>3, <1>4, <1>5 DEF Partners
<1>7. Ints(L \cup H, f, f)
  <2> HIDE DEF L, H, f
  <2> QED BY <1>1, <1>3, <1>4 DEF Ints
<1> QED BY <1>6, <1>7

(***************************************************************************)
(* The channels, sources and edges between them.                           *)
(***************************************************************************)
LEMMA OnPairs ==
  ASSUME NEW c, KernelCall(c)
  PROVE  LET R == 0 .. c.np - 1
             P == Evens(c) \cup Odds(c)
         IN /\ Sources(R \X R \X {0}, P, Pair(c), Pair(c), 0, 0)
            /\ P \subseteq R
            /\ \A r \in R : r \in P <=> TakesPart(c, r)
            /\ \A r \in Evens(c) : TakesPart(c, r) /\ Even(c, r)
            /\ \A r \in Odds(c) : TakesPart(c, r) /\ ~ Even(c, r)
            /\ Knows(R, P, Pair(c)) # {}
<1> DEFINE R == 0 .. c.np - 1
           f == Pair(c)
           L == Evens(c)
           H == Odds(c)
           P == L \cup H
<1>1. R \subseteq Nat /\ 0 \in R
  BY RanksAre
<1>2. Partners(R, L, H, f)
  BY PairsOfGroups
<1>3. /\ \A r \in R : r \in P <=> TakesPart(c, r)
      /\ \A r \in L : TakesPart(c, r) /\ Even(c, r)
      /\ \A r \in H : TakesPart(c, r) /\ ~ Even(c, r)
  BY DEF Evens, Odds
<1>4. <<0, 0>> \in Knows(R, P, f)
  BY <1>1 DEF Knows
<1> HIDE DEF R, f, L, H
<1>5. P \subseteq R /\ \A r \in P : f[r] \in R
  BY <1>2 DEF Partners
<1>6. Sources(R \X R \X {0}, P, f, f, 0, 0)
  <2>1. 0 \in {0} /\ {0} \subseteq Nat
    OBVIOUS
  <2> HIDE DEF P
  <2> QED BY <1>1, <1>5, <2>1, SameSources
<1> QED BY <1>3, <1>4, <1>5, <1>6 DEF R, f, L, H

(***************************************************************************)
(* PingPongMT.                                                             *)
(***************************************************************************)
LEMMA MtPt2ptProper ==
  ASSUME NEW c, KernelCall(c), c.kernel = "PingPongMT"
  PROVE  Proper(c)
<1> DEFINE R == 0 .. c.np - 1
           f == Pair(c)
           L == Evens(c)
           H == Odds(c)
           V == R \X R \X {0}
           D == Knows(R, L \cup H, f)
           B(r, i) == IF ~ TakesPart(c, r) THEN <<>>
                      ELSE IF Even(c, r) THEN Send(f[r], 0, "data", i, 0) \o Recv(f[r], 0, "data", i, 2)
                      ELSE Recv(f[r], 0, "data", i, 0) \o Send(f[r], 0, "data", i, 2)
           G == [i \in 1 .. c.n |-> [r \in R |-> B(r, i)]]
<1>1. c.n \in Nat /\ R # {} /\ 0 \in Int
  BY RanksAre
<1>2. /\ Partners(R, L, H, f) /\ Ints(L \cup H, f, f) /\ Sources(V, L \cup H, f, f, 0, 0)
      /\ L \cup H \subseteq R /\ Knows(R, L \cup H, f) # {}
      /\ (\A r \in R : r \in L \cup H <=> TakesPart(c, r))
      /\ (\A r \in L : TakesPart(c, r) /\ Even(c, r))
      /\ (\A r \in H : TakesPart(c, r) /\ ~ Even(c, r))
  BY PairsOfGroups, OnPairs
<1>3. Linked(D, L \cup H, f) /\ (Closed(c) => D # {})
  <2> HIDE DEF R, L, H, f, D
  <2>1. Linked(D, L \cup H, f) /\ D # {}
    BY <1>2, PairsLinked DEF D
  <2> QED BY <2>1
<1>4. ASSUME NEW i \in 1 .. c.n PROVE Piece(R, V, D, G[i], 16 * i, 16 * i + 15)
  <2> DEFINE p == G[i]
  <2>1. p = [r \in R |-> B(r, i)]
    OBVIOUS
  <2>2. i \in Nat
    BY <1>1
  <2> HIDE DEF p, V, D, R, f, L, H
  <2>3. Pinging(p, L, H, f, f, 0, 0, i)
    BY <1>2, <2>1 DEF Pinging
  <2>5. Idle(R, p, L \cup H)
    BY <1>2, <2>1 DEF Idle
  <2>8. Piece(R, V, D, p, 16 * i, 16 * i + 15)
    BY <1>1, <1>2, <1>3, <2>2, <2>3, <2>5, PingPongBody
  <2> QED BY <2>8 DEF p
<1>5. ASSUME NEW r \in R
      PROVE  OfRank(c, r) = FlattenSeq([i \in 1 .. c.n |-> G[i][r]])
  <2>1. OfRank(c, r) = MtPt2pt(c, r)
    BY DEF OfRank
  <2>2. f[r] = MtPartner(c, r)
    BY DEF Pair
  <2>3. \A i \in 1 .. c.n : G[i][r] = B(r, i)
    OBVIOUS
  <2> HIDE DEF G, f
  <2>4. [i \in 1 .. c.n |-> G[i][r]] = [i \in 1 .. c.n |-> B(r, i)]
    BY <2>3
  <2>5. MtPt2pt(c, r) = FlattenSeq([i \in 1 .. c.n |-> B(r, i)])
    <3>1. CASE ~ TakesPart(c, r)
      <4>1. [i \in 1 .. c.n |-> B(r, i)] = [i \in 1 .. c.n |-> <<>>]
        BY <3>1
      <4> HIDE DEF B
      <4>2. FlattenSeq([i \in 1 .. c.n |-> B(r, i)]) = <<>>
        BY <1>1, <4>1, NothingTimes
      <4> QED BY <3>1, <4>2 DEF MtPt2pt
    <3>2. CASE TakesPart(c, r) /\ Even(c, r)
      BY <3>2, <2>2 DEF MtPt2pt, Times
    <3>3. CASE TakesPart(c, r) /\ ~ Even(c, r)
      BY <3>3, <2>2 DEF MtPt2pt, Times
    <3> QED BY <3>1, <3>2, <3>3
  <2> QED BY <2>1, <2>4, <2>5
<1> HIDE DEF G, V, D
<1> QED BY <1>1, <1>3, <1>4, <1>5, LoopProper

(***************************************************************************)
(* PingPingMT.                                                             *)
(***************************************************************************)
LEMMA MtIpt2ptProper ==
  ASSUME NEW c, KernelCall(c), c.kernel = "PingPingMT"
  PROVE  Proper(c)
<1> DEFINE R == 0 .. c.np - 1
           f == Pair(c)
           L == Evens(c)
           H == Odds(c)
           V == R \X R \X {0}
           D == Knows(R, L \cup H, f)
           B(r, i) == IF TakesPart(c, r)
                      THEN Isend(f[r], 0, "data", i, 0) \o Recv(f[r], 0, "data", i, 0)
                             \o Waitall(i, 1)
                      ELSE <<>>
           G == [i \in 1 .. c.n |-> [r \in R |-> B(r, i)]]
<1>1. c.n \in Nat /\ R # {} /\ 0 \in Int
  BY RanksAre
<1>2. /\ Partners(R, L, H, f) /\ Ints(L \cup H, f, f) /\ Sources(V, L \cup H, f, f, 0, 0)
      /\ L \cup H \subseteq R /\ Knows(R, L \cup H, f) # {}
      /\ (\A r \in R : r \in L \cup H <=> TakesPart(c, r))
      /\ (\A r \in L : TakesPart(c, r) /\ Even(c, r))
      /\ (\A r \in H : TakesPart(c, r) /\ ~ Even(c, r))
  BY PairsOfGroups, OnPairs
<1>3. Ring(R, L \cup H, f, f) /\ Turning(R, D, L \cup H, f, f) /\ (Closed(c) => D # {})
  <2> HIDE DEF R, L, H, f, D
  <2>1. Ring(R, L \cup H, f, f) /\ Turning(R, D, L \cup H, f, f)
    BY <1>2, PairsTurn DEF D
  <2> QED BY <1>2, <2>1 DEF D
<1>4. ASSUME NEW i \in 1 .. c.n PROVE Piece(R, V, D, G[i], 16 * i, 16 * i + 15)
  <2> DEFINE p == G[i]
  <2>1. p = [r \in R |-> B(r, i)]
    OBVIOUS
  <2>2. i \in Nat
    BY <1>1
  <2> HIDE DEF p, V, D, R, f, L, H
  <2>3. Both(p, L \cup H, f, f, 0, 0, i)
    BY <1>2, <2>1 DEF Both
  <2>5. Idle(R, p, L \cup H)
    BY <1>2, <2>1 DEF Idle
  <2>8. Piece(R, V, D, p, 16 * i, 16 * i + 15)
    BY <1>1, <1>2, <1>3, <2>2, <2>3, <2>5, BothBody
  <2> QED BY <2>8 DEF p
<1>5. ASSUME NEW r \in R
      PROVE  OfRank(c, r) = FlattenSeq([i \in 1 .. c.n |-> G[i][r]])
  <2>1. OfRank(c, r) = MtIpt2pt(c, r)
    BY DEF OfRank
  <2>2. f[r] = MtPartner(c, r)
    BY DEF Pair
  <2>3. \A i \in 1 .. c.n : G[i][r] = B(r, i)
    OBVIOUS
  <2> HIDE DEF G, f
  <2>4. [i \in 1 .. c.n |-> G[i][r]] = [i \in 1 .. c.n |-> B(r, i)]
    BY <2>3
  <2>5. MtIpt2pt(c, r) = FlattenSeq([i \in 1 .. c.n |-> B(r, i)])
    <3>1. CASE ~ TakesPart(c, r)
      <4>1. [i \in 1 .. c.n |-> B(r, i)] = [i \in 1 .. c.n |-> <<>>]
        BY <3>1
      <4> HIDE DEF B
      <4>2. FlattenSeq([i \in 1 .. c.n |-> B(r, i)]) = <<>>
        BY <1>1, <4>1, NothingTimes
      <4> QED BY <3>1, <4>2 DEF MtIpt2pt
    <3>2. CASE TakesPart(c, r)
      BY <3>2, <2>2 DEF MtIpt2pt, Times
    <3> QED BY <3>1, <3>2
  <2> QED BY <2>1, <2>4, <2>5
<1> HIDE DEF G, V, D
<1> QED BY <1>1, <1>3, <1>4, <1>5, LoopProper

(***************************************************************************)
(* UniBandMT.                                                              *)
(***************************************************************************)
LEMMA MtUnibandProper ==
  ASSUME NEW c, KernelCall(c), c.kernel = "UniBandMT"
  PROVE  Proper(c)
<1> DEFINE R == 0 .. c.np - 1
           f == Pair(c)
           L == Evens(c)
           H == Odds(c)
           V == R \X R \X {0}
           D == EdgesOf(c, R, L \cup H, f)
           B(r, i) == IF ~ TakesPart(c, r) THEN <<>>
                      ELSE IF Even(c, r) THEN Window(c, Isend(f[r], 0, "data", i, 0)) \o Waitall(i, 1)
                                          \o Recv(f[r], 0, "ack", i, 2)
                      ELSE Window(c, Irecv(f[r], 0, "data", i, 0)) \o Waitall(i, 1)
                             \o Send(f[r], 0, "ack", i, 2)
           G == [i \in 1 .. c.n |-> [r \in R |-> B(r, i)]]
<1>1. c.n \in Nat /\ R # {} /\ 0 \in Int /\ c.window \in Nat /\ c.kernel \in Windows
  BY RanksAre DEF KernelCall, Windows
<1>2. /\ Partners(R, L, H, f) /\ Ints(L \cup H, f, f) /\ Sources(V, L \cup H, f, f, 0, 0)
      /\ L \cup H \subseteq R /\ Knows(R, L \cup H, f) # {}
      /\ (\A r \in R : r \in L \cup H <=> TakesPart(c, r))
      /\ (\A r \in L : TakesPart(c, r) /\ Even(c, r))
      /\ (\A r \in H : TakesPart(c, r) /\ ~ Even(c, r))
  BY PairsOfGroups, OnPairs
<1>3. Linked(D, L \cup H, f) /\ (D = {} \/ c.window # 0) /\ (Closed(c) => D # {})
  <2> HIDE DEF R, L, H, f, D
  <2> USE DEF D
  <2>1. Linked(D, L \cup H, f) /\ (D = {} \/ c.window # 0) /\ (Closed(c) => D # {})
    BY <1>1, <1>2, EdgesLink
  <2> QED BY <2>1
<1>4. ASSUME NEW i \in 1 .. c.n PROVE Piece(R, V, D, G[i], 16 * i, 16 * i + 15)
  <2> DEFINE p == G[i]
  <2>1. p = [r \in R |-> B(r, i)]
    OBVIOUS
  <2>2. i \in Nat
    BY <1>1
  <2> HIDE DEF p, V, D, R, f, L, H
  <2>3. OneWay(p, L, H, f, 0, c, i)
    BY <1>2, <2>1 DEF OneWay
  <2>5. Idle(R, p, L \cup H)
    BY <1>2, <2>1 DEF Idle
  <2>8. Piece(R, V, D, p, 16 * i, 16 * i + 15)
    BY <1>1, <1>2, <1>3, <2>2, <2>3, <2>5, UniBody
  <2> QED BY <2>8 DEF p
<1>5. ASSUME NEW r \in R
      PROVE  OfRank(c, r) = FlattenSeq([i \in 1 .. c.n |-> G[i][r]])
  <2>1. OfRank(c, r) = MtUniband(c, r)
    BY DEF OfRank
  <2>2. f[r] = MtPartner(c, r)
    BY DEF Pair
  <2>3. \A i \in 1 .. c.n : G[i][r] = B(r, i)
    OBVIOUS
  <2> HIDE DEF G, f
  <2>4. [i \in 1 .. c.n |-> G[i][r]] = [i \in 1 .. c.n |-> B(r, i)]
    BY <2>3
  <2>5. MtUniband(c, r) = FlattenSeq([i \in 1 .. c.n |-> B(r, i)])
    <3>1. CASE ~ TakesPart(c, r)
      <4>1. [i \in 1 .. c.n |-> B(r, i)] = [i \in 1 .. c.n |-> <<>>]
        BY <3>1
      <4> HIDE DEF B
      <4>2. FlattenSeq([i \in 1 .. c.n |-> B(r, i)]) = <<>>
        BY <1>1, <4>1, NothingTimes
      <4> QED BY <3>1, <4>2 DEF MtUniband
    <3>2. CASE TakesPart(c, r) /\ Even(c, r)
      BY <3>2, <2>2 DEF MtUniband, Times
    <3>3. CASE TakesPart(c, r) /\ ~ Even(c, r)
      BY <3>3, <2>2 DEF MtUniband, Times
    <3> QED BY <3>1, <3>2, <3>3
  <2> QED BY <2>1, <2>4, <2>5
<1> HIDE DEF G, V, D
<1> QED BY <1>1, <1>3, <1>4, <1>5, LoopProper

(***************************************************************************)
(* BiBandMT.                                                               *)
(***************************************************************************)
LEMMA MtBibandProper ==
  ASSUME NEW c, KernelCall(c), c.kernel = "BiBandMT"
  PROVE  Proper(c)
<1> DEFINE R == 0 .. c.np - 1
           f == Pair(c)
           L == Evens(c)
           H == Odds(c)
           V == R \X R \X {0}
           D == EdgesOf(c, R, L \cup H, f)
           W(r, i) == Window(c, Irecv(f[r], 0, "data", i, 0))
                        \o Window(c, Isend(f[r], 0, "data", i, 0)) \o Waitall(i, 1)
           B(r, i) == IF ~ TakesPart(c, r) THEN <<>>
                      ELSE IF Even(c, r) THEN W(r, i) \o Recv(f[r], 0, "ack", i, 2)
                      ELSE W(r, i) \o Send(f[r], 0, "ack", i, 2)
           G == [i \in 1 .. c.n |-> [r \in R |-> B(r, i)]]
<1>1. c.n \in Nat /\ R # {} /\ 0 \in Int /\ c.window \in Nat /\ c.kernel \in Windows
  BY RanksAre DEF KernelCall, Windows
<1>2. /\ Partners(R, L, H, f) /\ Ints(L \cup H, f, f) /\ Sources(V, L \cup H, f, f, 0, 0)
      /\ L \cup H \subseteq R /\ Knows(R, L \cup H, f) # {}
      /\ (\A r \in R : r \in L \cup H <=> TakesPart(c, r))
      /\ (\A r \in L : TakesPart(c, r) /\ Even(c, r))
      /\ (\A r \in H : TakesPart(c, r) /\ ~ Even(c, r))
  BY PairsOfGroups, OnPairs
<1>3. Linked(D, L \cup H, f) /\ (D = {} \/ c.window # 0) /\ (Closed(c) => D # {})
  <2> HIDE DEF R, L, H, f, D
  <2> USE DEF D
  <2>1. Linked(D, L \cup H, f) /\ (D = {} \/ c.window # 0) /\ (Closed(c) => D # {})
    BY <1>1, <1>2, EdgesLink
  <2> QED BY <2>1
<1>4. ASSUME NEW i \in 1 .. c.n PROVE Piece(R, V, D, G[i], 16 * i, 16 * i + 15)
  <2> DEFINE p == G[i]
  <2>1. p = [r \in R |-> B(r, i)]
    OBVIOUS
  <2>2. i \in Nat
    BY <1>1
  <2> HIDE DEF p, V, D, R, f, L, H
  <2>3. BothWays(p, L, H, f, 0, c, i)
    BY <1>2, <2>1 DEF BothWays
  <2>5. Idle(R, p, L \cup H)
    BY <1>2, <2>1 DEF Idle
  <2>8. Piece(R, V, D, p, 16 * i, 16 * i + 15)
    BY <1>1, <1>2, <1>3, <2>2, <2>3, <2>5, BiBody
  <2> QED BY <2>8 DEF p
<1>5. ASSUME NEW r \in R
      PROVE  OfRank(c, r) = FlattenSeq([i \in 1 .. c.n |-> G[i][r]])
  <2>1. OfRank(c, r) = MtBiband(c, r)
    BY DEF OfRank
  <2>2. f[r] = MtPartner(c, r)
    BY DEF Pair
  <2>3. \A i \in 1 .. c.n : G[i][r] = B(r, i)
    OBVIOUS
  <2> HIDE DEF G, f
  <2>4. [i \in 1 .. c.n |-> G[i][r]] = [i \in 1 .. c.n |-> B(r, i)]
    BY <2>3
  <2>5. MtBiband(c, r) = FlattenSeq([i \in 1 .. c.n |-> B(r, i)])
    <3>1. CASE ~ TakesPart(c, r)
      <4>1. [i \in 1 .. c.n |-> B(r, i)] = [i \in 1 .. c.n |-> <<>>]
        BY <3>1
      <4> HIDE DEF B
      <4>2. FlattenSeq([i \in 1 .. c.n |-> B(r, i)]) = <<>>
        BY <1>1, <4>1, NothingTimes
      <4> QED BY <3>1, <4>2 DEF MtBiband
    <3>2. CASE TakesPart(c, r) /\ Even(c, r)
      BY <3>2, <2>2 DEF MtBiband, Times
    <3>3. CASE TakesPart(c, r) /\ ~ Even(c, r)
      BY <3>3, <2>2 DEF MtBiband, Times
    <3> QED BY <3>1, <3>2, <3>3
  <2> QED BY <2>1, <2>4, <2>5
<1> HIDE DEF G, V, D
<1> QED BY <1>1, <1>3, <1>4, <1>5, LoopProper

(***************************************************************************)
(* Strides that Sendrecv and Exchange of IMB-MT may be called with.        *)
(***************************************************************************)
LEMMA StrideIs ==
  ASSUME NEW c, KernelCall(c), c.kernel \in {"SendRecvMT", "ExchangeMT"}
  PROVE  Stride(c) \in 0 .. c.np
<1>1. c.np \in Nat \ {0} /\ c.stride \in 0 .. c.np
  BY DEF KernelCall
<1>2. c.np \div 2 \in 0 .. c.np
  BY <1>1
<1> QED BY <1>1, <1>2 DEF Stride

(***************************************************************************)
(* SendRecvMT.                                                             *)
(***************************************************************************)
LEMMA MtSendrecvProper ==
  ASSUME NEW c, KernelCall(c), c.kernel = "SendRecvMT"
  PROVE  Proper(c)
<1> DEFINE R == 0 .. c.np - 1
           s == Stride(c)
           f == Ahead(c, s)
           g == Behind(c, s)
           V == R \X R \X {0}
           D == Knows(R, R, f)
           B(r, i) == Irecv(g[r], 0, "data", i, 0) \o Isend(f[r], 0, "data", i, 0) \o Waitall(i, 1)
           G == [i \in 1 .. c.n |-> [r \in R |-> B(r, i)]]
<1>1. /\ c.np \in Nat \ {0} /\ c.n \in Nat /\ 0 \in R /\ R \subseteq Nat /\ IsFiniteSet(R)
      /\ s \in 0 .. c.np
  BY RanksAre, StrideIs
<1>2. Ring(R, R, f, g) /\ Ints(R, f, g)
  BY <1>1, RingIs
<1>3. Turning(R, D, R, f, g) /\ D # {}
  <2> HIDE DEF R, f, g
  <2>1. <<0, 0>> \in D
    BY <1>1 DEF Knows
  <2> QED BY <1>1, <1>2, <2>1, RingTurns DEF D
<1>6. Sources(V, R, g, g, 0, 0)
  <2> HIDE DEF f, g, R
  <2>1. (\A r \in R : g[r] \in R) /\ 0 \in {0} /\ {0} \subseteq Nat /\ R \subseteq R
    BY <1>2 DEF Ring
  <2> QED BY <1>1, <2>1, SameSources
<1>4. ASSUME NEW i \in 1 .. c.n PROVE Piece(R, V, D, G[i], 16 * i, 16 * i + 15)
  <2> DEFINE p == G[i]
  <2>1. p = [r \in R |-> B(r, i)]
    OBVIOUS
  <2>2. i \in Nat /\ 0 \in Int
    BY <1>1
  <2> HIDE DEF p, V, D, R, f, g
  <2>3. Crosses(p, R, f, g, 0, 0, i)
    BY <2>1 DEF Crosses
  <2>5. Idle(R, p, R)
    BY <2>1 DEF Idle
  <2>8. Piece(R, V, D, p, 16 * i, 16 * i + 15)
    BY <1>2, <1>3, <1>6, <2>2, <2>3, <2>5, CrossBody
  <2> QED BY <2>8 DEF p
<1>5. ASSUME NEW r \in R
      PROVE  OfRank(c, r) = FlattenSeq([i \in 1 .. c.n |-> G[i][r]])
  <2>1. OfRank(c, r) = MtSendrecv(c, r)
    BY DEF OfRank
  <2>2. f[r] = (r + s) % c.np /\ g[r] = (r + c.np - s) % c.np
    BY DEF Ahead, Behind
  <2>3. \A i \in 1 .. c.n : G[i][r] = B(r, i)
    OBVIOUS
  <2> HIDE DEF G, f, g
  <2>4. [i \in 1 .. c.n |-> G[i][r]] = [i \in 1 .. c.n |-> B(r, i)]
    BY <2>3
  <2>5. MtSendrecv(c, r) = FlattenSeq([i \in 1 .. c.n |-> B(r, i)])
    BY <2>2 DEF MtSendrecv, Times
  <2> QED BY <2>1, <2>4, <2>5
<1> HIDE DEF G, V, D
<1> QED BY <1>1, <1>3, <1>4, <1>5, LoopProper

(***************************************************************************)
(* In the exchange of IMB-MT what goes to the right and what goes to the   *)
(* left are the same.  Where they go to the same rank the first receive    *)
(* takes the first of them, and otherwise that from the left, which was    *)
(* sent second.                                                            *)
(***************************************************************************)
LEMMA SameOrNot ==
  ASSUME NEW c, KernelCall(c), NEW s \in 0 .. c.np
  PROVE  \/ \A r \in 0 .. c.np - 1 : Ahead(c, s)[r] = Behind(c, s)[r]
         \/ \A r \in 0 .. c.np - 1 : Ahead(c, s)[r] # Behind(c, s)[r]
<1> DEFINE n == c.np
           f == Ahead(c, s)
           g == Behind(c, s)
<1>1. n \in Nat \ {0}
  BY RanksAre
<1>2. ASSUME NEW r \in 0 .. n - 1
      PROVE  /\ f[r] = IF r + s < n THEN r + s ELSE r + s - n
             /\ g[r] = IF r < s THEN r + n - s ELSE r - s
  BY AheadIs
<1> HIDE DEF f, g
<1>3. CASE s = 0 \/ s = n \/ s + s = n
  <2>1. ASSUME NEW r \in 0 .. n - 1 PROVE f[r] = g[r]
    <3>1. /\ f[r] = IF r + s < n THEN r + s ELSE r + s - n
          /\ g[r] = IF r < s THEN r + n - s ELSE r - s
      BY <1>2
    <3> HIDE DEF n
    <3> QED BY <1>1, <1>3, <3>1 DEF n
  <2> QED BY <2>1 DEF f, g
<1>4. CASE s # 0 /\ s # n /\ s + s # n
  <2>1. ASSUME NEW r \in 0 .. n - 1 PROVE f[r] # g[r]
    <3>1. /\ f[r] = IF r + s < n THEN r + s ELSE r + s - n
          /\ g[r] = IF r < s THEN r + n - s ELSE r - s
      BY <1>2
    <3> HIDE DEF n
    <3> QED BY <1>1, <1>4, <3>1 DEF n
  <2> QED BY <2>1 DEF f, g
<1> QED BY <1>3, <1>4

(***************************************************************************)
(* ExchangeMT.                                                             *)
(***************************************************************************)
LEMMA MtExchangeProper ==
  ASSUME NEW c, KernelCall(c), c.kernel = "ExchangeMT"
  PROVE  Proper(c)
<1> DEFINE R == 0 .. c.np - 1
           s == Stride(c)
           f == Ahead(c, s)
           g == Behind(c, s)
           V == R \X R \X {0}
           D == Mutual(R, R, f, g)
           B(r, i) == Isend(g[r], 0, "data", i, 0) \o Isend(f[r], 0, "data", i, 0)
                        \o Recv(g[r], 0, "data", i, 0) \o Recv(f[r], 0, "data", i, 1)
                        \o Waitall(i, 2)
           G == [i \in 1 .. c.n |-> [r \in R |-> B(r, i)]]
<1>1. /\ c.np \in Nat \ {0} /\ c.n \in Nat /\ R \subseteq Nat /\ 0 \in R /\ s \in 0 .. c.np
      /\ 0 \in Nat /\ 0 \in Int /\ 0 \in {0} /\ {0} \subseteq Nat
  BY RanksAre, StrideIs
<1>2. Ring(R, R, f, g) /\ Ints(R, f, g)
  BY <1>1, RingIs
<1>3. Named(V, R, 0, 0) /\ D # {}
  <2> HIDE DEF R, f, g
  <2>1. <<0, 0>> \in D
    BY <1>1 DEF Mutual
  <2> QED BY <1>1, <2>1, NamedSame
<1>6. (\A r \in R : f[r] = g[r]) \/ (\A r \in R : f[r] # g[r])
  BY <1>1, SameOrNot
<1>4. ASSUME NEW i \in 1 .. c.n PROVE Piece(R, V, D, G[i], 16 * i, 16 * i + 15)
  <2> DEFINE p == G[i]
  <2>1. p = [r \in R |-> B(r, i)]
    OBVIOUS
  <2>2. i \in Nat
    BY <1>1
  <2> HIDE DEF p, V, D, R, f, g
  <2>3. ASSUME NEW r \in R
        PROVE  Exchanged(p[r], i, 0, 0, g[r], "data", f[r], "data", g[r], "data", f[r], "data")
    <3>1. p[r] = B(r, i) /\ f[r] \in Int /\ g[r] \in Int
      BY <1>2, <2>1 DEF Ints
    <3>2. "data" \in Labels
      BY DataIs
    <3> QED BY <1>1, <2>2, <3>1, <3>2, ExchangeTalks
  <2>4. p = [r \in R |-> p[r]]
    BY <2>1
  <2>5. 1 \in {1, 2} /\ 2 \in {1, 2} /\ 1 # 2 /\ 2 # 1 /\ 1 < 2
    OBVIOUS
  <2>6. CASE \A r \in R : f[r] = g[r]
    <3>1. \A r \in R : Exchanges(p[r], i, 0, 0, f[r], g[r], "data", "data", 1, 2)
      BY <2>3, <2>6 DEF Exchanged, Exchanges
    <3>2. Piece(R, V, D, p, 16 * i, 16 * i + 15)
      BY <1>2, <1>3, <2>2, <2>4, <2>5, <3>1, ExchangeBody DEF D
    <3> QED BY <3>2 DEF p
  <2>7. CASE \A r \in R : f[r] # g[r]
    <3>1. \A r \in R : Exchanges(p[r], i, 0, 0, f[r], g[r], "data", "data", 2, 1)
      BY <2>3 DEF Exchanged, Exchanges
    <3>2. Piece(R, V, D, p, 16 * i, 16 * i + 15)
      BY <1>2, <1>3, <2>2, <2>4, <2>5, <2>7, <3>1, ExchangeBody DEF D
    <3> QED BY <3>2 DEF p
  <2> QED BY <1>6, <2>6, <2>7
<1>5. ASSUME NEW r \in R
      PROVE  OfRank(c, r) = FlattenSeq([i \in 1 .. c.n |-> G[i][r]])
  <2>1. OfRank(c, r) = MtExchange(c, r)
    BY DEF OfRank
  <2>2. f[r] = (r + s) % c.np /\ g[r] = (r + c.np - s) % c.np
    BY DEF Ahead, Behind
  <2>3. \A i \in 1 .. c.n : G[i][r] = B(r, i)
    OBVIOUS
  <2> HIDE DEF G, f, g
  <2>4. [i \in 1 .. c.n |-> G[i][r]] = [i \in 1 .. c.n |-> B(r, i)]
    BY <2>3
  <2>5. MtExchange(c, r) = FlattenSeq([i \in 1 .. c.n |-> B(r, i)])
    BY <2>2 DEF MtExchange, Times
  <2> QED BY <2>1, <2>4, <2>5
<1> HIDE DEF G, V, D
<1> QED BY <1>1, <1>3, <1>4, <1>5, LoopProper

-----------------------------------------------------------------------------
(***************************************************************************)
(* The report of rank s, as rank 0 receives it.                            *)
(***************************************************************************)
LEMMA ReportFromIs ==
  ASSUME NEW s \in Nat, NEW i \in Nat
  PROVE  /\ ReportFrom(s, i) \in Seq(OpSet) /\ Len(ReportFrom(s, i)) = 2
         /\ In(ReportFrom(s, i)[1], s, 1, "report", i, 2)
         /\ Pause(ReportFrom(s, i)[2], "wait_irecv", i, 2)
<1>1. s \in Int /\ 1 \in Int /\ 2 \in Nat /\ "report" \in Labels
  BY DataIs
<1>2. PICK e : Irecv(s, 1, "report", i, 2) = <<e>> /\ In(e, s, 1, "report", i, 2)
  BY <1>1, InIs
<1>3. PICK w : Wait("wait_irecv", i, 2) = <<w>> /\ Pause(w, "wait_irecv", i, 2)
  BY <1>1, PauseIs
<1>4. e \in OpSet /\ w \in OpSet
  BY <1>2, <1>3 DEF In, Pause
<1>5. Two(ReportFrom(s, i), e, w)
  BY <1>2, <1>3, <1>4, JoinTwo DEF ReportFrom
<1> QED BY <1>2, <1>3, <1>5 DEF Two

(***************************************************************************)
(* A report, as it is sent to rank 0.                                      *)
(***************************************************************************)
LEMMA ReportToIs ==
  ASSUME NEW i \in Nat
  PROVE  /\ ReportTo(i) \in Seq(OpSet) /\ Len(ReportTo(i)) = 2
         /\ Out(ReportTo(i)[1], 0, 1, "report", i, 1)
         /\ Pause(ReportTo(i)[2], "wait_isend", i, 3)
<1>1. 0 \in Int /\ 1 \in Int /\ 1 \in Nat /\ 3 \in Nat /\ "report" \in Labels
  BY DataIs
<1>2. PICK e : Isend(0, 1, "report", i, 1) = <<e>> /\ Out(e, 0, 1, "report", i, 1)
  BY <1>1, OutIs
<1>3. PICK w : Wait("wait_isend", i, 3) = <<w>> /\ Pause(w, "wait_isend", i, 3)
  BY <1>1, PauseIs
<1>4. e \in OpSet /\ w \in OpSet
  BY <1>2, <1>3 DEF Out, Pause
<1>5. Two(ReportTo(i), e, w)
  BY <1>2, <1>3, <1>4, JoinTwo DEF ReportTo
<1> QED BY <1>2, <1>3, <1>5 DEF Two

(***************************************************************************)
(* Rank 0 receives the reports of all ranks in turn.                       *)
(***************************************************************************)
LEMMA ReportsCollect ==
  ASSUME NEW m \in Nat, NEW i \in Nat
  PROVE  Collects(FlattenSeq([s \in 1 .. m |-> ReportFrom(s, i)]), m, i)
<1> DEFINE u == [s \in 1 .. m |-> ReportFrom(s, i)]
           t == FlattenSeq(u)
<1>1. u \in Seq(Seq(OpSet)) /\ Len(u) = m /\ \A s \in 1 .. m : u[s] = ReportFrom(s, i)
  BY ReportFromIs
<1>2. ASSUME NEW s \in 1 .. m
      PROVE  /\ Len(u[s]) = 2
             /\ In(u[s][1], s, 1, "report", i, 2) /\ Pause(u[s][2], "wait_irecv", i, 2)
  <2>1. u[s] = ReportFrom(s, i) /\ s \in Nat
    BY <1>1
  <2> HIDE DEF u
  <2> QED BY <2>1, ReportFromIs
<1> HIDE DEF u
<1>3. t \in Seq(OpSet)
  BY <1>1, FlattenAppend
<1>4. \A h \in 1 .. m + 1 : StartOf(u, h) = (h - 1) * 2
  <2> SUFFICES ASSUME NEW h \in 1 .. m + 1 PROVE StartOf(u, h) = (h - 1) * 2
    OBVIOUS
  <2>1. 2 \in Nat /\ \A g \in 1 .. Len(u) : Len(u[g]) = 2
    BY <1>1, <1>2
  <2>2. h \in 1 .. Len(u) + 1
    BY <1>1
  <2> QED BY <1>1, <2>1, <2>2, StartsEqual
<1>5. Len(t) = 2 * m
  <2>1. StartOf(u, Len(u) + 1) = Len(t)
    BY <1>1, Starts
  <2>2. m + 1 \in 1 .. m + 1 /\ ((m + 1) - 1) * 2 = 2 * m
    OBVIOUS
  <2>3. StartOf(u, m + 1) = ((m + 1) - 1) * 2
    BY <1>4, <2>2
  <2> QED BY <1>1, <2>1, <2>2, <2>3
<1>6. ASSUME NEW s \in 1 .. m
      PROVE  t[2 * s - 1] = u[s][1] /\ t[2 * s] = u[s][2]
  <2>1. s \in 1 .. Len(u) /\ 1 \in 1 .. Len(u[s]) /\ 2 \in 1 .. Len(u[s]) /\ s \in 1 .. m + 1
    BY <1>1, <1>2
  <2>2. t[StartOf(u, s) + 1] = u[s][1] /\ t[StartOf(u, s) + 2] = u[s][2]
    BY <1>1, <2>1, FlattenAt
  <2>3. StartOf(u, s) = (s - 1) * 2
    BY <1>4, <2>1
  <2>4. (s - 1) * 2 + 1 = 2 * s - 1 /\ (s - 1) * 2 + 2 = 2 * s
    OBVIOUS
  <2> QED BY <2>2, <2>3, <2>4
<1> HIDE DEF t
<1>7. Collects(t, m, i)
  BY <1>2, <1>3, <1>5, <1>6 DEF Collects
<1> QED BY <1>7 DEF t, u

(***************************************************************************)
(* The operations of a rank that reports.                                  *)
(***************************************************************************)
LEMMA ReportSteps ==
  ASSUME NEW i \in Nat
  PROVE  /\ ReportTo(i) \in Seq(OpSet) /\ Len(ReportTo(i)) = 2 /\ Steps(ReportTo(i), i)
         /\ ReportTo(i)[1].op = "isend" /\ ReportTo(i)[1].peer = 0 /\ ReportTo(i)[1].tag = 1
         /\ ReportTo(i)[1].what = <<"report", i>> /\ ReportTo(i)[1].time = 16 * i + 1
         /\ ReportTo(i)[2].op = "wait_isend" /\ ReportTo(i)[2].time = 16 * i + 3
         /\ Await(ReportTo(i), 1, 16 * i + 2)
<1> DEFINE s == ReportTo(i)
           a == s[1]
           b == s[2]
<1>1. /\ s \in Seq(OpSet) /\ Len(s) = 2
      /\ Out(a, 0, 1, "report", i, 1) /\ Pause(b, "wait_isend", i, 3)
  BY ReportToIs
<1>2. s[1] = a /\ s[2] = b
  OBVIOUS
<1> HIDE DEF s, a, b
<1>3. /\ a.op = "isend" /\ a.peer = 0 /\ a.tag = 1 /\ a.what = <<"report", i>> /\ a.iter = i
      /\ a.time = 16 * i + 1 /\ b.op = "wait_isend" /\ b.iter = i /\ b.time = 16 * i + 3
  BY <1>1 DEF Out, Pause
<1>4. 1 .. 2 = {1, 2}
  OBVIOUS
<1>5. "wait_isend" \in Waits /\ "isend" \in Awaited("wait_isend")
  BY DEF Waits, Awaited
<1>6. ASSUME NEW k \in {1, 2}
      PROVE  /\ s[k].iter = i /\ 16 * i <= s[k].time /\ s[k].time < 16 * i + 15
             /\ s[k].op # "barrier"
             /\ \A l \in {1, 2} : k <= l => s[k].time <= s[l].time
             /\ s[k].op \in {"isend", "irecv"} =>
                  \E l \in {1, 2} : k < l /\ s[l].op \in Waits /\ s[k].op \in Awaited(s[l].op)
  BY <1>2, <1>3, <1>5
<1>7. \A l \in {1, 2} : 1 < l => 16 * i + 2 < s[l].time
  BY <1>2, <1>3
<1>8. Steps(s, i)
  BY <1>1, <1>4, <1>6 DEF Steps
<1>9. Await(s, 1, 16 * i + 2)
  BY <1>1, <1>4, <1>7 DEF Await
<1> QED BY <1>1, <1>2, <1>3, <1>8, <1>9 DEF s

(***************************************************************************)
(* The reports of all ranks.                                               *)
(***************************************************************************)
Reports(c, i) == [r \in 0 .. c.np - 1 |-> Report(c, r, i)]

(***************************************************************************)
(* Rank 0 collects and the others report.                                  *)
(***************************************************************************)
LEMMA ReportsAre ==
  ASSUME NEW c, KernelCall(c), NEW i \in Nat
  PROVE  /\ Collects(Reports(c, i)[0], c.np - 1, i)
         /\ \A r \in 1 .. c.np - 1 : Reports(c, i)[r] = ReportTo(i)
<1>1. c.np \in Nat \ {0} /\ 0 \in 0 .. c.np - 1
  BY RanksAre
<1>2. Reports(c, i)[0] = FlattenSeq([s \in 1 .. c.np - 1 |-> ReportFrom(s, i)])
  BY <1>1 DEF Reports, Report, Times
<1>3. c.np - 1 \in Nat
  BY <1>1
<1>4. Collects(FlattenSeq([s \in 1 .. c.np - 1 |-> ReportFrom(s, i)]), c.np - 1, i)
  <2> DEFINE m == c.np - 1
  <2>1. m \in Nat
    BY <1>3
  <2> HIDE DEF m
  <2>2. Collects(FlattenSeq([s \in 1 .. m |-> ReportFrom(s, i)]), m, i)
    BY <2>1, ReportsCollect
  <2> QED BY <2>2 DEF m
<1>5. ASSUME NEW r \in 1 .. c.np - 1 PROVE Reports(c, i)[r] = ReportTo(i)
  <2>1. r \in 0 .. c.np - 1 /\ r # 0
    BY <1>1
  <2> QED BY <2>1 DEF Reports, Report
<1> QED BY <1>2, <1>4, <1>5

(***************************************************************************)
(* The reports are a piece.                                                *)
(***************************************************************************)
LEMMA ReportsPiece ==
  ASSUME NEW c, KernelCall(c), NEW i \in Nat
  PROVE  Piece(0 .. c.np - 1, P2PChannels(c), {}, Reports(c, i), 16 * i + 1, 16 * i + 15)
<1> DEFINE R == 0 .. c.np - 1
           V == P2PChannels(c)
           p == Reports(c, i)
           m == c.np - 1
           Q == {<<s, 1, 0, 2 * s - 1>> : s \in 1 .. m}
           t == p[0]
           u == ReportTo(i)
<1>1. m \in Nat /\ R \subseteq Nat /\ 0 \in R /\ R = {0} \cup (1 .. m)
  BY RanksAre
<1>2. p = [r \in R |-> p[r]]
  BY DEF Reports
<1>3. Collects(t, m, i) /\ \A r \in 1 .. m : p[r] = u
  BY ReportsAre
<1>4. /\ t \in Seq(OpSet) /\ Steps(t, i)
      /\ \A k \in 1 .. Len(t) : /\ t[k].time = 16 * i + 2
                                /\ t[k].op \in {"irecv", "wait_irecv"}
                                /\ t[k].op = "irecv" => \E s \in 1 .. m : k = 2 * s - 1
      /\ \A s \in 1 .. m : /\ 2 * s - 1 \in 1 .. Len(t)
                           /\ t[2 * s - 1].op = "irecv" /\ t[2 * s - 1].peer = s
                           /\ t[2 * s - 1].tag = 1 /\ t[2 * s - 1].what = <<"report", i>>
                           /\ t[2 * s - 1].time = 16 * i + 2
                           /\ Await(t, 2 * s - 1, 16 * i + 1)
  <2> HIDE DEF t, m
  <2>1. t \in Seq(OpSet)
    BY <1>3 DEF Collects
  <2>2. Collected(t, m, i)
    BY <1>1, <1>3, CollectSteps
  <2> QED BY <2>1, <2>2 DEF Collected
<1>5. /\ u \in Seq(OpSet) /\ Len(u) = 2 /\ Steps(u, i)
      /\ u[1].op = "isend" /\ u[1].peer = 0 /\ u[1].tag = 1
      /\ u[1].what = <<"report", i>> /\ u[1].time = 16 * i + 1
      /\ u[2].op = "wait_isend" /\ u[2].time = 16 * i + 3 /\ Await(u, 1, 16 * i + 2)
  BY ReportSteps
<1>6. Named(V, R, 1, 1)
  <2>1. 1 \in {0, 1} /\ {0, 1} \subseteq Nat
    OBVIOUS
  <2> HIDE DEF R
  <2> QED BY <1>1, <2>1, NamedSame DEF P2PChannels, R
<1> HIDE DEF R, V, p, m, u
<1>7. ASSUME NEW r \in R PROVE p[r] \in Seq(OpSet) /\ Steps(p[r], i)
  BY <1>1, <1>3, <1>4, <1>5
<1>8. Local(R, p, i, {})
  <2>1. p \in [R -> Seq(OpSet)]
    BY <1>2, <1>7
  <2> QED BY <1>7, <2>1 DEF Local
<1>9. ASSUME NEW s \in 1 .. m PROVE Meeting(V, p[s], s, 1, p[0], 0, 2 * s - 1)
  <2> DEFINE l == 2 * s - 1
  <2>1. /\ l \in 1 .. Len(t) /\ t[l].op = "irecv" /\ t[l].peer = s /\ t[l].tag = 1
        /\ t[l].what = <<"report", i>> /\ t[l].time = 16 * i + 2 /\ Await(t, l, 16 * i + 1)
    BY <1>4
  <2>2. Meant(V, 0, s, 1, s, 1)
    BY <1>1, <1>6 DEF Named
  <2>3. 1 \in 1 .. Len(u)
    BY <1>5
  <2> HIDE DEF l, t
  <2>4. Meeting(V, u, s, 1, t, 0, l)
    BY <1>5, <2>1, <2>2, <2>3, MeetingIs
  <2> QED BY <1>3, <2>4 DEF l, t
<1>10. ASSUME NEW q \in Q
       PROVE  /\ q = <<q[1], q[2], q[3], q[4]>> /\ q[1] \in 1 .. m /\ q[2] = 1 /\ q[3] = 0
              /\ q[4] = 2 * q[1] - 1
  <2>1. PICK s \in 1 .. m : q = <<s, 1, 0, 2 * s - 1>>
    OBVIOUS
  <2> QED BY <2>1
<1>11. ASSUME NEW r \in R, NEW k \in 1 .. Len(p[r])
       PROVE  /\ p[r][k].op = "isend" => \E q \in Q : q[1] = r /\ q[2] = k
              /\ p[r][k].op = "irecv" => \E q \in Q : q[3] = r /\ q[4] = k
  <2>1. CASE r = 0
    <3>1. k \in 1 .. Len(t) /\ t[k].op = p[r][k].op
      BY <2>1
    <3>2. t[k].op # "isend"
      BY <1>4, <3>1
    <3>3. ASSUME t[k].op = "irecv" PROVE \E q \in Q : q[3] = 0 /\ q[4] = k
      <4>1. PICK s \in 1 .. m : k = 2 * s - 1
        BY <1>4, <3>1, <3>3
      <4>2. <<s, 1, 0, 2 * s - 1>> \in Q
        OBVIOUS
      <4> HIDE DEF Q
      <4> QED BY <4>1, <4>2
    <3> QED BY <2>1, <3>1, <3>2, <3>3
  <2>2. CASE r \in 1 .. m
    <3>1. p[r] = u /\ k \in {1, 2}
      <4>1. p[r] = u /\ Len(p[r]) = 2
        BY <1>3, <1>5, <2>2
      <4> QED BY <4>1
    <3>2. <<r, 1, 0, 2 * r - 1>> \in Q
      BY <2>2
    <3> HIDE DEF Q
    <3> QED BY <1>5, <3>1, <3>2
  <2> QED BY <1>1, <2>1, <2>2
<1>12. Messages(R, V, p, Q, {})
  <2>1. ASSUME NEW q \in Q
        PROVE  /\ q = <<q[1], q[2], q[3], q[4]>> /\ q[1] \in R /\ q[3] \in R
               /\ Meeting(V, p[q[1]], q[1], q[2], p[q[3]], q[3], q[4])
    <3>1. /\ q = <<q[1], q[2], q[3], q[4]>> /\ q[1] \in 1 .. m /\ q[2] = 1 /\ q[3] = 0
          /\ q[4] = 2 * q[1] - 1
      BY <1>10
    <3>2. Meeting(V, p[q[1]], q[1], 1, p[0], 0, 2 * q[1] - 1)
      BY <1>9, <3>1
    <3> HIDE DEF Q
    <3> QED BY <1>1, <3>1, <3>2
  <2>2. ASSUME NEW q \in Q, NEW v \in Q, q[1] = v[1]
        PROVE  q[2] < v[2] <=> q[4] < v[4]
    <3>1. q[2] = 1 /\ v[2] = 1 /\ q[4] = v[4] /\ q[4] \in Int
      BY <1>1, <1>10, <2>2
    <3> QED BY <3>1
  <2> HIDE DEF Q
  <2> QED BY <1>11, <2>1, <2>2 DEF Messages
<1>13. Piece(R, V, {}, p, 16 * i, 16 * i + 15)
  <2> HIDE DEF Q
  <2> QED BY <1>8, <1>12, BodyPiece
<1>14. Within(p, 16 * i + 1, 16 * i + 15)
  <2>1. p \in [R -> Seq(OpSet)] /\ DOMAIN p = R
    BY <1>2, <1>7
  <2> SUFFICES ASSUME NEW x \in Operations(p)
               PROVE  16 * i + 1 <= OpOf(p, x).time /\ OpOf(p, x).time < 16 * i + 15
    BY DEF Within
  <2>2. x[1] \in R /\ x[2] \in 1 .. Len(p[x[1]]) /\ OpOf(p, x) = p[x[1]][x[2]]
    BY <2>1, OperationsAre DEF OpOf
  <2>3. CASE x[1] = 0
    <3>1. OpOf(p, x).time = 16 * i + 2
      BY <1>4, <2>2, <2>3
    <3> QED BY <3>1
  <2>4. CASE x[1] \in 1 .. m
    <3>1. p[x[1]] = u /\ x[2] \in {1, 2}
      BY <1>3, <1>5, <2>2, <2>4
    <3>2. OpOf(p, x).time \in {16 * i + 1, 16 * i + 3}
      BY <1>5, <2>2, <3>1
    <3> QED BY <3>2
  <2> QED BY <1>1, <2>2, <2>3, <2>4
<1>15. Piece(R, V, {}, p, 16 * i + 1, 16 * i + 15)
  <2> DEFINE a == 16 * i
             b == 16 * i + 15
             e == 16 * i + 1
  <2>1. a \in Int /\ b \in Int /\ e \in Int /\ a <= e /\ b <= b
    OBVIOUS
  <2>2. Piece(R, V, {}, p, a, b) /\ Within(p, e, b)
    BY <1>13, <1>14
  <2> HIDE DEF a, b, e
  <2>3. Piece(R, V, {}, p, e, b)
    BY <2>1, <2>2, PieceNarrows
  <2> QED BY <2>3 DEF e, b
<1> QED BY <1>15 DEF R, V, p

(***************************************************************************)
(* The end of a size: a barrier and the reports.                           *)
(***************************************************************************)
Ending(c, i) == Then(Everyone(0 .. c.np - 1, Barrier(i, 0)), Reports(c, i))

(***************************************************************************)
(* The barrier and the reports at the end of a size are a piece.           *)
(***************************************************************************)
LEMMA EndingPiece ==
  ASSUME NEW c, KernelCall(c), NEW D, NEW i \in Nat
  PROVE  Piece(0 .. c.np - 1, P2PChannels(c), D, Ending(c, i), 16 * i, 16 * i + 16)
<1> DEFINE R == 0 .. c.np - 1
           V == P2PChannels(c)
           p == Everyone(R, Barrier(i, 0))
           q == Reports(c, i)
           w == Ending(c, i)
           a == 16 * i
           b == 16 * i + 1
           e == 16 * i + 15
           f == 16 * i + 16
<1>1. R # {} /\ 0 \in R
  BY RanksAre
<1>2. /\ a \in Nat /\ b \in Nat /\ e \in Nat /\ f \in Nat /\ a <= b /\ b <= e /\ e <= f /\ a <= a
      /\ 0 \in 0 .. 15 /\ a = 16 * i + 0 /\ b = a + 1
  OBVIOUS
<1>3. \A j \in Nat : a <= 16 * j /\ 16 * j < e => j = i
  OBVIOUS
<1>4. \A j \in Nat : a <= 16 * j /\ 16 * j < f => a <= 16 * j /\ 16 * j < e
  OBVIOUS
<1>5. Piece(R, V, {}, q, b, e)
  BY ReportsPiece
<1> HIDE DEF R, V, a, b, e, f, q
<1>6. Piece(R, V, {}, p, a, b)
  BY <1>1, <1>2, BarrierAt
<1>7. \A r \in R : p[r] = Barrier(i, 0) /\ DOMAIN p = R
  BY DEF Everyone
<1>8. w = Then(p, q)
  BY DEF Ending, R, q
<1> HIDE DEF p, w
<1>9. Piece(R, V, {}, w, a, e)
  BY <1>2, <1>5, <1>6, <1>8, PieceThen
<1>10. /\ p \in [R -> Seq(OpSet)] /\ q \in [R -> Seq(OpSet)] /\ w \in [R -> Seq(OpSet)]
       /\ DOMAIN w = R /\ \A r \in R : w[r] = p[r] \o q[r]
  <2>1. /\ p \in [R -> Seq(OpSet)] /\ q \in [R -> Seq(OpSet)] /\ w \in [R -> Seq(OpSet)]
    BY <1>5, <1>6, <1>9 DEF Piece
  <2> QED BY <1>7, <1>8, <2>1 DEF Then
<1>11. PICK v : Barrier(i, 0) = <<v>> /\ v.op = "barrier" /\ v.iter = i
  <2> DEFINE v == [op |-> "barrier", peer |-> ANY, tag |-> ANY, what |-> <<"none", i>>,
                   iter |-> i, time |-> Phases * i + 0]
  <2>1. Barrier(i, 0) = <<v>>
    BY DEF Barrier, Operation
  <2>2. v.op = "barrier" /\ v.iter = i
    OBVIOUS
  <2> HIDE DEF v
  <2> QED BY <2>1, <2>2
<1>12. ASSUME NEW r \in R
       PROVE  <<r, 1>> \in OfKinds(w, {"barrier"}) /\ OpOf(w, <<r, 1>>).iter = i
  <2>1. p[r] = <<v>> /\ q[r] \in Seq(OpSet) /\ p[r] \in Seq(OpSet)
    BY <1>7, <1>10, <1>11
  <2>2. 1 \in 1 .. Len(w[r]) /\ w[r][1] = v
    <3> DEFINE s == q[r]
    <3>1. w[r] = <<v>> \o s /\ s \in Seq(OpSet)
      BY <1>10, <2>1
    <3> HIDE DEF s
    <3>2. Len(<<v>> \o s) = 1 + Len(s) /\ Len(s) \in Nat /\ (<<v>> \o s)[1] = v
      BY <3>1
    <3> QED BY <3>1, <3>2
  <2>3. <<r, 1>>[1] = r /\ <<r, 1>>[2] = 1
    OBVIOUS
  <2>4. <<r, 1>> \in Operations(w) /\ OpOf(w, <<r, 1>>) = v
    BY <1>10, <2>2, <2>3, OperationsAre DEF OpOf
  <2> QED BY <1>11, <2>4 DEF OfKinds
<1>13. Along(w, D)
  <2> SUFFICES ASSUME NEW x \in OfKinds(w, {"isend"})
               PROVE  \E y \in OfKinds(w, {"barrier"}) :
                        y[1] = x[1] /\ y[2] < x[2] /\ OpOf(w, y).iter = OpOf(w, x).iter
    BY DEF Along
  <2>1. /\ x \in Operations(w) /\ OpOf(w, x).op = "isend" /\ x[1] \in R
        /\ x = <<x[1], x[2]>> /\ x[2] \in 1 .. Len(w[x[1]])
    BY <1>10, OperationsAre DEF OfKinds
  <2> DEFINE y == <<x[1], 1>>
  <2>2. y \in OfKinds(w, {"barrier"}) /\ OpOf(w, y).iter = i /\ y[1] = x[1] /\ y[2] = 1
    BY <1>12, <2>1
  <2>3. OpOf(w, y).op = "barrier"
    BY <2>2 DEF OfKinds
  <2>4. x[2] # 1
    BY <2>1, <2>3
  <2>5. y[2] < x[2]
    BY <2>1, <2>2, <2>4
  <2>6. OpOf(w, x).iter = i
    <3> DEFINE o == OpOf(w, x)
    <3>1. InTime(w) /\ Within(w, a, e)
      BY <1>9 DEF Piece
    <3>2. /\ 16 * o.iter <= o.time /\ o.time < 16 * o.iter + 16
          /\ a <= o.time /\ o.time < e
      BY <2>1, <3>1 DEF InTime, Within
    <3>3. o \in OpSet
      BY <1>10, <2>1, LaterOps
    <3>4. o.iter \in Nat /\ o.time \in Nat
      <4> HIDE DEF o
      <4> QED BY <3>3 DEF OpSet
    <3> HIDE DEF o
    <3>5. PICK j \in Nat, t \in Nat : j = o.iter /\ t = o.time
      BY <3>4
    <3>6. 16 * j <= t /\ t < 16 * j + 16 /\ 16 * i <= t /\ t < 16 * i + 15
      BY <3>2, <3>5 DEF a, e
    <3>7. j = i
      BY <3>6
    <3> QED BY <3>5, <3>7 DEF o
  <2> QED BY <2>2, <2>5, <2>6
<1>14. \A j \in Nat : a <= 16 * j /\ 16 * j < e => Meets(w, j)
  <2>1. Meets(w, i)
    BY <1>1, <1>12 DEF Meets
  <2> QED BY <1>3, <2>1
<1>15. Piece(R, V, D, w, a, e)
  BY <1>9, <1>13, <1>14, PieceLifts
<1>16. Piece(R, V, D, w, a, f)
  BY <1>2, <1>4, <1>15, PieceWidens
<1> QED BY <1>16 DEF R, V, w, a, f

(***************************************************************************)
(* A size.  A[m][i][r] is what rank r does in iteration i, the m-th of the *)
(* warm-up or of the measurement.                                          *)
(***************************************************************************)
SizeOf(c, r, base, warm, n, middle, A) ==
  Barrier(base, 0) \o FlattenSeq([m \in 1 .. warm |-> A[m][base + m][r]])
    \o (IF middle THEN Barrier(base + warm, 15) ELSE <<>>)
    \o FlattenSeq([m \in 1 .. n |-> A[m][base + warm + m][r]])
    \o Barrier(base + warm + n + 1, 0) \o Report(c, r, base + warm + n + 1)

(***************************************************************************)
(* The programs of all ranks for one size.                                 *)
(***************************************************************************)
OneSize(c, base, warm, n, middle, A) ==
  [r \in 0 .. c.np - 1 |-> SizeOf(c, r, base, warm, n, middle, A)]

(***************************************************************************)
(* One size is a piece.                                                    *)
(***************************************************************************)
LEMMA SizePiece ==
  ASSUME NEW c, KernelCall(c), NEW D, NEW base \in Nat, NEW warm \in Nat, NEW n \in Nat,
         NEW middle \in BOOLEAN, NEW A, Bodies(c, D, warm, n, A)
  PROVE  Piece(0 .. c.np - 1, P2PChannels(c), D, OneSize(c, base, warm, n, middle, A),
               16 * base, 16 * (base + warm + n + 2))
<1> DEFINE R == 0 .. c.np - 1
           V == P2PChannels(c)
           off == IF middle THEN 16 ELSE 15
           mid == base + warm
           end == base + warm + n + 1
           F == [m \in 1 .. warm |-> A[m][base + m]]
           G == [m \in 1 .. n |-> A[m][mid + m]]
           b1 == Everyone(R, Barrier(base, 0))
           wu == Loop(R, warm, F)
           b2 == Everyone(R, IF middle THEN Barrier(mid, 15) ELSE <<>>)
           tm == Loop(R, n, G)
           en == Ending(c, end)
           t0 == 16 * base
           t1 == 16 * base + 15
           t2 == 16 * mid + 15
           t3 == 16 * mid + off
           t4 == 16 * end
           t5 == 16 * (base + warm + n + 2)
<1>1. R # {} /\ mid \in Nat /\ end \in Nat /\ off \in {15, 16}
  BY RanksAre
<1>2. /\ t0 \in Nat /\ t1 \in Nat /\ t2 \in Nat /\ t3 \in Nat /\ t4 \in Nat /\ t5 \in Nat
      /\ t0 <= t1 /\ t1 <= t2 /\ t2 <= t3 /\ t3 <= t4 /\ t4 <= t5 /\ t0 <= t2 /\ t0 <= t3 /\ t0 <= t4
  OBVIOUS
<1>3. Piece(R, V, D, b1, t0, t1)
  <2> DEFINE t == t0 + 1
  <2>1. t \in Nat /\ t0 <= t0 /\ t <= t1 /\ t0 = 16 * base + 0 /\ t = t0 + 1 /\ 0 \in 0 .. 15
    OBVIOUS
  <2>2. \A j \in Nat : t0 <= 16 * j /\ 16 * j < t1 => t0 <= 16 * j /\ 16 * j < t
    OBVIOUS
  <2> HIDE DEF t, t0, t1, R
  <2>3. Piece(R, V, D, b1, t0, t)
    BY <1>1, <2>1, BarrierAt
  <2> HIDE DEF b1
  <2> QED BY <1>2, <2>1, <2>2, <2>3, PieceWidens
<1>4. Piece(R, V, D, wu, t1, t2)
  <2>1. ASSUME NEW m \in 1 .. warm
        PROVE  Piece(R, V, D, F[m], 16 * (base + m), 16 * (base + m) + 15)
    <3>1. F[m] = A[m][base + m] /\ base + m \in Nat /\ m \in 1 .. warm \cup 1 .. n
      OBVIOUS
    <3> HIDE DEF F
    <3> QED BY <3>1 DEF Bodies
  <2>2. 15 \in {15, 16}
    OBVIOUS
  <2> HIDE DEF F, R
  <2>3. Piece(R, V, D, Loop(R, warm, F), 16 * base + 15, 16 * (base + warm) + 15)
    BY <2>1, <2>2, LoopPiece
  <2> QED BY <2>3
<1>5. Piece(R, V, D, b2, t2, t3)
  <2>1. CASE middle
    <3>1. t2 = 16 * mid + 15 /\ t3 = t2 + 1 /\ 15 \in 0 .. 15
      BY <2>1
    <3>2. b2 = Everyone(R, Barrier(mid, 15))
      BY <2>1
    <3> HIDE DEF t2, t3, R, b2, mid
    <3>3. Piece(R, V, D, Everyone(R, Barrier(mid, 15)), t2, t3)
      BY <1>1, <3>1, BarrierAt
    <3> QED BY <3>2, <3>3
  <2>2. CASE ~ middle
    <3>1. t3 = t2
      BY <2>2
    <3>2. b2 = Everyone(R, <<>>)
      BY <2>2
    <3>3. \A j \in Nat : ~ (t2 <= 16 * j /\ 16 * j < t3)
      BY <3>1, <1>2
    <3> HIDE DEF t2, t3, R, b2, mid
    <3>4. Piece(R, V, D, Everyone(R, <<>>), t2, t3)
      BY <1>2, <3>3, PieceNothing
    <3> QED BY <3>2, <3>4
  <2> QED BY <2>1, <2>2
<1>6. Piece(R, V, D, tm, t3, t4)
  <2> DEFINE t == 16 * (mid + n) + off
  <2>1. ASSUME NEW m \in 1 .. n
        PROVE  Piece(R, V, D, G[m], 16 * (mid + m), 16 * (mid + m) + 15)
    <3>1. G[m] = A[m][mid + m] /\ mid + m \in Nat /\ m \in 1 .. warm \cup 1 .. n
      BY <1>1
    <3> HIDE DEF G, mid
    <3> QED BY <3>1 DEF Bodies
  <2>2. t \in Nat /\ t3 <= t3 /\ t <= t4
    BY <1>1
  <2>3. \A j \in Nat : t3 <= 16 * j /\ 16 * j < t4 => t3 <= 16 * j /\ 16 * j < t
    BY <1>1
  <2> HIDE DEF G, R, mid, off
  <2>4. Piece(R, V, D, Loop(R, n, G), 16 * mid + off, 16 * (mid + n) + off)
    BY <1>1, <2>1, LoopPiece
  <2> HIDE DEF t3, t4, t, tm
  <2>5. Piece(R, V, D, tm, t3, t)
    BY <2>4 DEF t3, t, tm
  <2> QED BY <1>2, <2>2, <2>3, <2>5, PieceWidens
<1>7. Piece(R, V, D, en, t4, t5)
  <2>1. t5 = 16 * end + 16
    OBVIOUS
  <2> HIDE DEF end, t5, R, V
  <2>2. Piece(R, V, D, en, 16 * end, 16 * end + 16)
    BY <1>1, EndingPiece DEF R, V
  <2> QED BY <2>1, <2>2
<1> DEFINE c1 == Then(b1, wu)
           c2 == Then(c1, b2)
           c3 == Then(c2, tm)
           c4 == Then(c3, en)
<1>8. \A r \in R : /\ b1[r] = Barrier(base, 0)
                   /\ wu[r] = FlattenSeq([m \in 1 .. warm |-> A[m][base + m][r]])
                   /\ b2[r] = IF middle THEN Barrier(mid, 15) ELSE <<>>
                   /\ tm[r] = FlattenSeq([m \in 1 .. n |-> A[m][mid + m][r]])
  <2>1. ASSUME NEW r \in R
        PROVE  /\ wu[r] = FlattenSeq([m \in 1 .. warm |-> A[m][base + m][r]])
               /\ tm[r] = FlattenSeq([m \in 1 .. n |-> A[m][mid + m][r]])
    <3>1. [m \in 1 .. warm |-> F[m][r]] = [m \in 1 .. warm |-> A[m][base + m][r]]
      OBVIOUS
    <3>2. [m \in 1 .. n |-> G[m][r]] = [m \in 1 .. n |-> A[m][mid + m][r]]
      OBVIOUS
    <3> HIDE DEF F, G
    <3> QED BY <3>1, <3>2 DEF Loop
  <2> QED BY <2>1 DEF Everyone
<1> HIDE DEF R, V, t0, t1, t2, t3, t4, t5, b1, wu, b2, tm, en, c1, c2, c3, c4
<1>9. Piece(R, V, D, c1, t0, t2)
  BY <1>2, <1>3, <1>4, PieceThen DEF c1
<1>10. Piece(R, V, D, c2, t0, t3)
  BY <1>2, <1>5, <1>9, PieceThen DEF c2
<1>11. Piece(R, V, D, c3, t0, t4)
  BY <1>2, <1>6, <1>10, PieceThen DEF c3
<1>12. Piece(R, V, D, c4, t0, t5)
  BY <1>2, <1>7, <1>11, PieceThen DEF c4
<1>13. /\ b1 \in [R -> Seq(OpSet)] /\ c1 \in [R -> Seq(OpSet)] /\ c2 \in [R -> Seq(OpSet)]
       /\ c3 \in [R -> Seq(OpSet)] /\ c4 \in [R -> Seq(OpSet)]
  BY <1>3, <1>9, <1>10, <1>11, <1>12 DEF Piece
<1> DEFINE e1 == Everyone(R, Barrier(end, 0))
           e2 == Reports(c, end)
<1>14. en = Then(e1, e2) /\ \A r \in R : e1[r] = Barrier(end, 0) /\ e2[r] = Report(c, r, end)
  BY DEF en, Ending, R, Reports, Everyone
<1>15. e1 \in [R -> Seq(OpSet)] /\ e2 \in [R -> Seq(OpSet)]
  <2>1. Piece(R, V, {}, e2, 16 * end + 1, 16 * end + 15)
    BY <1>1, ReportsPiece DEF R, V
  <2>2. Piece(R, V, {}, e1, 16 * end, 16 * end + 1)
    <3> DEFINE x == 16 * end
               y == 16 * end + 1
    <3>1. x = 16 * end + 0 /\ y = x + 1 /\ 0 \in 0 .. 15
      BY <1>1
    <3> HIDE DEF x, y, end
    <3>2. Piece(R, V, {}, e1, x, y)
      BY <1>1, <3>1, BarrierAt
    <3> QED BY <3>2 DEF x, y
  <2> QED BY <2>1, <2>2 DEF Piece
<1> HIDE DEF e1, e2, end, mid
<1>16. ASSUME NEW r \in R PROVE c4[r] = SizeOf(c, r, base, warm, n, middle, A)
  <2>1. /\ c1[r] = b1[r] \o wu[r] /\ c2[r] = c1[r] \o b2[r] /\ c3[r] = c2[r] \o tm[r]
        /\ c4[r] = c3[r] \o en[r] /\ en[r] = e1[r] \o e2[r]
    BY <1>13, <1>14, <1>15 DEF c1, c2, c3, c4, Then
  <2>2. c3[r] \o (e1[r] \o e2[r]) = c3[r] \o e1[r] \o e2[r]
    <3>1. c3[r] \in Seq(OpSet) /\ e1[r] \in Seq(OpSet) /\ e2[r] \in Seq(OpSet)
      BY <1>13, <1>15
    <3> QED BY <3>1, ConcatOps
  <2>3. /\ b1[r] = Barrier(base, 0)
        /\ wu[r] = FlattenSeq([m \in 1 .. warm |-> A[m][base + m][r]])
        /\ b2[r] = IF middle THEN Barrier(base + warm, 15) ELSE <<>>
        /\ tm[r] = FlattenSeq([m \in 1 .. n |-> A[m][base + warm + m][r]])
        /\ e1[r] = Barrier(base + warm + n + 1, 0) /\ e2[r] = Report(c, r, base + warm + n + 1)
    BY <1>8, <1>14 DEF mid, end
  <2>4. c4[r] = b1[r] \o wu[r] \o b2[r] \o tm[r] \o e1[r] \o e2[r]
    BY <2>1, <2>2
  <2> QED BY <2>3, <2>4 DEF SizeOf
<1>17. c4 = OneSize(c, base, warm, n, middle, A)
  <2>1. DOMAIN c4 = R /\ c4 = [r \in R |-> c4[r]]
    BY <1>13
  <2> QED BY <1>16, <2>1 DEF OneSize, R
<1> QED BY <1>12, <1>17 DEF R, V, t0, t5

(***************************************************************************)
(* What a rank does in all sizes.                                          *)
(***************************************************************************)
Sizes(c, r, warm, n, middle, A) ==
  FlattenSeq([k \in 1 .. c.sizes |-> SizeOf(c, r, (k - 1) * (warm + n + 2), warm, n, middle, A)])

(***************************************************************************)
(* A kernel of IMB-P2P whose bodies are pieces is proper.                  *)
(***************************************************************************)
LEMMA SizedProper ==
  ASSUME NEW c, KernelCall(c), NEW D, Closed(c) => D # {}, NEW warm \in Nat, NEW n \in Nat,
         NEW middle \in BOOLEAN, NEW A, Bodies(c, D, warm, n, A),
         \A r \in 0 .. c.np - 1 : OfRank(c, r) = Sizes(c, r, warm, n, middle, A)
  PROVE  Proper(c)
<1> DEFINE R == 0 .. c.np - 1
           V == P2PChannels(c)
           w == warm + n + 2
           s == c.sizes
           G == [k \in 1 .. s |-> OneSize(c, (k - 1) * w, warm, n, middle, A)]
           T == [k \in 0 .. s |-> 16 * (k * w)]
<1>1. s \in Nat /\ w \in Nat
  BY RanksAre
<1>2. T \in [0 .. s -> Nat]
  <2>1. ASSUME NEW k \in 0 .. s PROVE 16 * (k * w) \in Nat
    <3>1. k \in Nat
      BY <1>1
    <3> HIDE DEF w
    <3>2. PICK t \in Nat : t = k * w
      BY <1>1, <3>1
    <3> QED BY <3>2
  <2> QED BY <2>1
<1>3. ASSUME NEW k \in 1 .. s
      PROVE  T[k - 1] <= T[k] /\ Piece(R, V, D, G[k], T[k - 1], T[k])
  <2> DEFINE base == (k - 1) * w
             next == k * w
  <2>1. k \in Nat \ {0} /\ k \in 0 .. s /\ k - 1 \in 0 .. s
    BY <1>1
  <2>2. T[k] = 16 * next /\ T[k - 1] = 16 * base /\ G[k] = OneSize(c, base, warm, n, middle, A)
    BY <2>1
  <2>3. base \in Nat /\ next \in Nat /\ base + w = next /\ base <= next
    <3> HIDE DEF w
    <3> QED BY <1>1, <2>1, NextSize
  <2> HIDE DEF base, next, T, G
  <2>4. Piece(R, V, D, OneSize(c, base, warm, n, middle, A), 16 * base, 16 * (base + warm + n + 2))
    <3> HIDE DEF R, V
    <3> QED BY <2>3, SizePiece DEF R, V
  <2>5. base + warm + n + 2 = next
    BY <2>3
  <2>6. 16 * base <= 16 * next
    BY <2>3
  <2> HIDE DEF R, V
  <2> QED BY <2>2, <2>4, <2>5, <2>6
<1>4. T[0] = 0
  <2>1. 0 \in 0 .. s /\ 16 * (0 * w) = 0
    BY <1>1
  <2> QED BY <2>1
<1>5. T[s] \in Nat
  BY <1>1, <1>2
<1>6. ASSUME NEW r \in R PROVE OfRank(c, r) = Loop(R, s, G)[r]
  <2>1. \A k \in 1 .. s : G[k][r] = SizeOf(c, r, (k - 1) * w, warm, n, middle, A)
    BY DEF OneSize
  <2> HIDE DEF G
  <2>2. [k \in 1 .. s |-> G[k][r]] = [k \in 1 .. s |-> SizeOf(c, r, (k - 1) * w, warm, n, middle, A)]
    BY <2>1
  <2>3. Loop(R, s, G)[r] = FlattenSeq([k \in 1 .. s |-> G[k][r]])
    BY DEF Loop
  <2> QED BY <2>2, <2>3 DEF Sizes
<1> HIDE DEF G, T
<1>7. Piece(R, V, D, Loop(R, s, G), T[0], T[s])
  <2> HIDE DEF R, V, s
  <2> QED BY <1>1, <1>2, <1>3, PieceTimes
<1>8. Everywhere(c) = Loop(R, s, G)
  <2>1. Loop(R, s, G) = [r \in R |-> Loop(R, s, G)[r]]
    BY DEF Loop
  <2> QED BY <1>6, <2>1 DEF Everywhere
<1> HIDE DEF V, s
<1> QED BY <1>4, <1>5, <1>7, <1>8 DEF Proper

(***************************************************************************)
(* A call in which no rank does anything.                                  *)
(***************************************************************************)
LEMMA NothingProper ==
  ASSUME NEW c, KernelCall(c), \A r \in 0 .. c.np - 1 : OfRank(c, r) = <<>>
  PROVE  Proper(c)
<1> DEFINE R == 0 .. c.np - 1
           D == {<<0, 0>>}
<1>1. Everywhere(c) = Everyone(R, <<>>)
  BY DEF Everywhere, Everyone
<1>2. Piece(R, {}, D, Everyone(R, <<>>), 0, 0)
  <2>1. 0 \in Nat /\ \A j \in Nat : ~ (0 <= 16 * j /\ 16 * j < 0)
    OBVIOUS
  <2> HIDE DEF R, D
  <2> QED BY <2>1, PieceNothing
<1>3. D # {} /\ 0 \in {0, 16} /\ 0 \in Nat
  OBVIOUS
<1>4. Piece(0 .. c.np - 1, {}, D, Everywhere(c), 0, 0)
  BY <1>1, <1>2
<1> HIDE DEF D, R
<1> QED BY <1>3, <1>4 DEF Proper

(***************************************************************************)
(* PingPong and PingPing of IMB-P2P: the partner is half of the ranks      *)
(* away.                                                                   *)
(***************************************************************************)
LEMMA HalfIs ==
  ASSUME NEW c, KernelCall(c), c.np % 2 = 0, NEW r \in 0 .. c.np - 1
  PROVE  P2PPartner(c, r) = Half(c)[r]
<1>1. PICK h \in Nat \ {0} : c.np = 2 * h /\ c.np \div 2 = h
  BY RanksAre
<1>2. r + h \in 0 .. 2 * (2 * h) - 1 /\ 2 * h \in Nat \ {0} /\ r \in 0 .. 2 * h - 1
  BY <1>1
<1>3. (r + h) % (2 * h) = IF r + h < 2 * h THEN r + h ELSE r + h - 2 * h
  <2> DEFINE n == 2 * h
             k == r + h
  <2>1. n \in Nat \ {0} /\ k \in 0 .. 2 * n - 1
    BY <1>2
  <2> HIDE DEF n, k
  <2>2. k % n = IF k < n THEN k ELSE k - n
    BY <2>1, WrapIs
  <2> QED BY <2>2 DEF n, k
<1>4. Half(c)[r] = IF r < h THEN r + h ELSE r - h
  BY <1>1 DEF Half
<1>5. P2PPartner(c, r) = (r + h) % (2 * h)
  BY <1>1 DEF P2PPartner
<1> QED BY <1>2, <1>3, <1>4, <1>5

(***************************************************************************)
(* Receives of data are meant for one rank.                                *)
(***************************************************************************)
LEMMA P2PSources ==
  ASSUME NEW c, KernelCall(c), NEW P, P \subseteq 0 .. c.np - 1, NEW g,
         \A r \in P : g[r] \in 0 .. c.np - 1
  PROVE  Sources(P2PChannels(c), P, g, g, 0, 0)
<1> DEFINE R == 0 .. c.np - 1
<1>1. R \subseteq Nat /\ {0, 1} \subseteq Nat /\ 0 \in {0, 1}
  BY RanksAre
<1>2. P2PChannels(c) = R \X R \X {0, 1}
  BY DEF P2PChannels
<1> HIDE DEF R
<1>3. P \subseteq R /\ \A r \in P : g[r] \in R
  BY DEF R
<1>4. Sources(R \X R \X {0, 1}, P, g, g, 0, 0)
  BY <1>1, <1>3, SameSources
<1> QED BY <1>2, <1>4

(***************************************************************************)
(* PingPong of IMB-P2P.                                                    *)
(***************************************************************************)
LEMMA P2PPingPongProper ==
  ASSUME NEW c, KernelCall(c), c.kernel = "P2PPingPong"
  PROVE  Proper(c)
<1> DEFINE R == 0 .. c.np - 1
           f == Half(c)
           L == Low(c)
           H == High(c)
           V == P2PChannels(c)
           D == Knows(R, R, f)
           B(r, i) == IF r < c.np \div 2
                      THEN Send(f[r], 0, "data", i, 0) \o Recv(f[r], 0, "data", i, 2)
                      ELSE Recv(f[r], 0, "data", i, 0) \o Send(f[r], 0, "data", i, 2)
           A == [m \in Nat |-> [i \in Nat |-> [r \in R |-> B(r, i)]]]
<1>1. /\ c.np \in Nat \ {0} /\ c.n \in Nat /\ c.warm \in Nat /\ c.sizes \in Nat /\ R \subseteq Nat
      /\ 0 \in R /\ 0 \in Int /\ TRUE \in BOOLEAN
  BY RanksAre
<1>2. \A r \in R : OfRank(c, r) = P2PPingPong(c, r)
  BY DEF OfRank
<1>3. CASE c.np % 2 = 1
  <2>1. \A r \in R : P2PPingPong(c, r) = <<>>
    BY <1>3 DEF P2PPingPong, P2PPairs
  <2> HIDE DEF R
  <2> QED BY <1>2, <2>1, NothingProper DEF R
<1>4. CASE c.np % 2 # 1
  <2>1. c.np % 2 = 0 /\ ~ (c.np < 2)
    BY <1>1, <1>4
  <2>2. /\ L \cup H = R /\ Partners(R, L, H, f) /\ Ints(R, f, f)
        /\ (\A r \in L : r < c.np \div 2) /\ (\A r \in H : ~ (r < c.np \div 2))
    BY <2>1, HalvesAre
  <2>3. Sources(V, R, f, f, 0, 0) /\ D # {}
    <3> HIDE DEF R, f, L, H
    <3>1. \A r \in R : f[r] \in R
      BY <2>2 DEF Partners
    <3>2. <<0, 0>> \in D
      BY <1>1 DEF Knows
    <3> QED BY <3>1, <3>2, P2PSources DEF R
  <2>4. ASSUME NEW m \in 1 .. c.warm \cup 1 .. c.n, NEW i \in Nat
        PROVE  Piece(R, V, D, A[m][i], 16 * i, 16 * i + 15)
    <3> DEFINE p == A[m][i]
    <3>1. p = [r \in R |-> B(r, i)]
      BY <1>1
    <3> HIDE DEF p, V, D, R, f, L, H
    <3>3. Pinging(p, L, H, f, f, 0, 0, i)
      BY <2>2, <3>1 DEF Pinging
    <3>5. Idle(R, p, L \cup H)
      BY <2>2, <3>1 DEF Idle
    <3>6. Linked(D, L \cup H, f)
      BY <2>2, PairsLinked DEF D
    <3>7. Ints(L \cup H, f, f) /\ Sources(V, L \cup H, f, f, 0, 0)
      BY <2>2, <2>3
    <3>8. Piece(R, V, D, p, 16 * i, 16 * i + 15)
      BY <1>1, <2>2, <3>3, <3>5, <3>6, <3>7, PingPongBody
    <3> QED BY <3>8 DEF p
  <2>5. Bodies(c, D, c.warm, c.n, A)
    <3> HIDE DEF A, D
    <3> QED BY <2>4 DEF Bodies
  <2>6. ASSUME NEW r \in R
        PROVE  OfRank(c, r) = Sizes(c, r, c.warm, c.n, TRUE, A)
    <3>1. P2PPartner(c, r) = f[r]
      BY <2>1, HalfIs
    <3>2. \A m, i \in Nat : A[m][i][r] = B(r, i)
      OBVIOUS
    <3> HIDE DEF A, f
    <3>3. ASSUME NEW b \in Nat, NEW n \in Nat
          PROVE  [m \in 1 .. n |-> A[m][b + m][r]] = [m \in 1 .. n |-> B(r, b + m)]
      BY <3>2
    <3>4. P2PPingPong(c, r) = Sizes(c, r, c.warm, c.n, TRUE, A)
      <4> DEFINE S(k) ==
             Barrier((k - 1) * (c.warm + c.n + 2), 0)
               \o FlattenSeq([m \in 1 .. c.warm |-> B(r, (k - 1) * (c.warm + c.n + 2) + m)])
               \o Barrier((k - 1) * (c.warm + c.n + 2) + c.warm, 15)
               \o FlattenSeq([m \in 1 .. c.n |-> B(r, (k - 1) * (c.warm + c.n + 2) + c.warm + m)])
               \o Barrier((k - 1) * (c.warm + c.n + 2) + c.warm + c.n + 1, 0)
               \o Report(c, r, (k - 1) * (c.warm + c.n + 2) + c.warm + c.n + 1)
      <4>1. P2PPingPong(c, r) = FlattenSeq([k \in 1 .. c.sizes |-> S(k)])
        BY <1>4, <2>1, <3>1 DEF P2PPingPong, P2PPairs, P2P, Sized, Times, Phases
      <4>2. ASSUME NEW k \in 1 .. c.sizes
            PROVE  SizeOf(c, r, (k - 1) * (c.warm + c.n + 2), c.warm, c.n, TRUE, A) = S(k)
        <5> DEFINE b == (k - 1) * (c.warm + c.n + 2)
        <5>1. b \in Nat /\ b + c.warm \in Nat
          <6> DEFINE w == c.warm + c.n + 2
          <6>1. w \in Nat /\ k \in Nat \ {0}
            BY <1>1
          <6> HIDE DEF w
          <6>2. (k - 1) * w \in Nat
            BY <6>1, NextSize
          <6> QED BY <1>1, <6>2 DEF w
        <5> HIDE DEF b
        <5>2. /\ [m \in 1 .. c.warm |-> A[m][b + m][r]] = [m \in 1 .. c.warm |-> B(r, b + m)]
              /\ [m \in 1 .. c.n |-> A[m][b + c.warm + m][r]]
                   = [m \in 1 .. c.n |-> B(r, b + c.warm + m)]
          BY <1>1, <3>3, <5>1
        <5> QED BY <5>2 DEF SizeOf, b
      <4> HIDE DEF S
      <4>3. [k \in 1 .. c.sizes |-> S(k)] =
              [k \in 1 .. c.sizes |->
                 SizeOf(c, r, (k - 1) * (c.warm + c.n + 2), c.warm, c.n, TRUE, A)]
        BY <4>2
      <4> QED BY <4>1, <4>3 DEF Sizes
    <3> QED BY <1>2, <3>4
  <2> HIDE DEF A, D
  <2> QED BY <1>1, <2>3, <2>5, <2>6, SizedProper
<1> QED BY <1>3, <1>4

(***************************************************************************)
(* PingPing of IMB-P2P.                                                    *)
(***************************************************************************)
LEMMA P2PPingPingProper ==
  ASSUME NEW c, KernelCall(c), c.kernel = "P2PPingPing"
  PROVE  Proper(c)
<1> DEFINE R == 0 .. c.np - 1
           f == Half(c)
           V == P2PChannels(c)
           D == Knows(R, R, f)
           B(r, i) == Irecv(f[r], 0, "data", i, 0) \o Send(f[r], 0, "data", i, 0) \o Waitall(i, 1)
           A == [m \in Nat |-> [i \in Nat |-> [r \in R |-> B(r, i)]]]
<1>1. /\ c.np \in Nat \ {0} /\ c.n \in Nat /\ c.warm \in Nat /\ c.sizes \in Nat /\ R \subseteq Nat
      /\ 0 \in R /\ 0 \in Int /\ TRUE \in BOOLEAN
  BY RanksAre
<1>2. \A r \in R : OfRank(c, r) = P2PPingPing(c, r)
  BY DEF OfRank
<1>3. CASE c.np % 2 = 1
  <2>1. \A r \in R : P2PPingPing(c, r) = <<>>
    BY <1>3 DEF P2PPingPing, P2PPairs
  <2> HIDE DEF R
  <2> QED BY <1>2, <2>1, NothingProper DEF R
<1>4. CASE c.np % 2 # 1
  <2>1. c.np % 2 = 0 /\ ~ (c.np < 2)
    BY <1>1, <1>4
  <2>2. Ring(R, R, f, f) /\ Turning(R, D, R, f, f) /\ Ints(R, f, f)
    <3> DEFINE L == Low(c)
               H == High(c)
    <3>1. L \cup H = R /\ Partners(R, L, H, f) /\ Ints(R, f, f)
      BY <2>1, HalvesAre
    <3> HIDE DEF L, H, R, f
    <3> QED BY <3>1, PairsTurn DEF D
  <2>3. Sources(V, R, f, f, 0, 0) /\ D # {}
    <3> HIDE DEF R, f
    <3>1. \A r \in R : f[r] \in R
      BY <2>2 DEF Ring
    <3>2. <<0, 0>> \in D
      BY <1>1 DEF Knows
    <3> QED BY <3>1, <3>2, P2PSources DEF R
  <2>4. ASSUME NEW m \in 1 .. c.warm \cup 1 .. c.n, NEW i \in Nat
        PROVE  Piece(R, V, D, A[m][i], 16 * i, 16 * i + 15)
    <3> DEFINE p == A[m][i]
    <3>1. p = [r \in R |-> B(r, i)]
      BY <1>1
    <3> HIDE DEF p, V, D, R, f
    <3>3. Swaps(p, R, f, f, 0, 0, i)
      BY <3>1 DEF Swaps
    <3>5. Idle(R, p, R)
      BY <3>1 DEF Idle
    <3>8. Piece(R, V, D, p, 16 * i, 16 * i + 15)
      BY <1>1, <2>2, <2>3, <3>3, <3>5, SwapBody
    <3> QED BY <3>8 DEF p
  <2>5. Bodies(c, D, c.warm, c.n, A)
    <3> HIDE DEF A, D
    <3> QED BY <2>4 DEF Bodies
  <2>6. ASSUME NEW r \in R
        PROVE  OfRank(c, r) = Sizes(c, r, c.warm, c.n, TRUE, A)
    <3>1. P2PPartner(c, r) = f[r]
      BY <2>1, HalfIs
    <3>2. \A m, i \in Nat : A[m][i][r] = B(r, i)
      OBVIOUS
    <3> HIDE DEF A, f
    <3>3. ASSUME NEW b \in Nat, NEW n \in Nat
          PROVE  [m \in 1 .. n |-> A[m][b + m][r]] = [m \in 1 .. n |-> B(r, b + m)]
      <4> HIDE DEF B
      <4>1. \A m \in 1 .. n : m \in Nat /\ b + m \in Nat
        OBVIOUS
      <4>2. \A m \in 1 .. n : A[m][b + m][r] = B(r, b + m)
        BY <3>2, <4>1
      <4> QED BY <4>2
    <3>4. P2PPingPing(c, r) = Sizes(c, r, c.warm, c.n, TRUE, A)
      <4> DEFINE S(k) ==
             Barrier((k - 1) * (c.warm + c.n + 2), 0)
               \o FlattenSeq([m \in 1 .. c.warm |-> B(r, (k - 1) * (c.warm + c.n + 2) + m)])
               \o Barrier((k - 1) * (c.warm + c.n + 2) + c.warm, 15)
               \o FlattenSeq([m \in 1 .. c.n |->
                                 B(r, (k - 1) * (c.warm + c.n + 2) + c.warm + m)])
               \o Barrier((k - 1) * (c.warm + c.n + 2) + c.warm + c.n + 1, 0)
               \o Report(c, r, (k - 1) * (c.warm + c.n + 2) + c.warm + c.n + 1)
      <4>1. P2PPingPing(c, r) = FlattenSeq([k \in 1 .. c.sizes |-> S(k)])
        BY <1>4, <2>1, <3>1 DEF P2PPingPing, Swap, P2PPairs, P2P, Sized, Times, Phases
      <4>2. ASSUME NEW k \in 1 .. c.sizes
            PROVE  SizeOf(c, r, (k - 1) * (c.warm + c.n + 2), c.warm, c.n, TRUE, A) = S(k)
        <5> DEFINE b == (k - 1) * (c.warm + c.n + 2)
        <5>1. b \in Nat /\ b + c.warm \in Nat
          <6> DEFINE w == c.warm + c.n + 2
          <6>1. w \in Nat /\ k \in Nat \ {0}
            BY <1>1
          <6> HIDE DEF w
          <6>2. (k - 1) * w \in Nat
            BY <6>1, NextSize
          <6> QED BY <1>1, <6>2 DEF w
        <5> HIDE DEF b
        <5>2. /\ [m \in 1 .. c.warm |-> A[m][b + m][r]] = [m \in 1 .. c.warm |-> B(r, b + m)]
              /\ [m \in 1 .. c.n |-> A[m][b + c.warm + m][r]]
                   = [m \in 1 .. c.n |-> B(r, b + c.warm + m)]
          BY <1>1, <3>3, <5>1
        <5> QED BY <5>2 DEF SizeOf, b
      <4> HIDE DEF S
      <4>3. [k \in 1 .. c.sizes |-> S(k)] =
              [k \in 1 .. c.sizes |->
                 SizeOf(c, r, (k - 1) * (c.warm + c.n + 2), c.warm, c.n, TRUE, A)]
        BY <4>2
      <4> QED BY <4>1, <4>3 DEF Sizes
    <3> QED BY <1>2, <3>4
  <2> HIDE DEF A, D
  <2> QED BY <1>1, <2>3, <2>5, <2>6, SizedProper
<1> QED BY <1>3, <1>4

(***************************************************************************)
(* SendRecv_Replace: a ring.                                               *)
(***************************************************************************)
LEMMA SendrecvReplaceProper ==
  ASSUME NEW c, KernelCall(c), c.kernel = "SendRecv_Replace"
  PROVE  Proper(c)
<1> DEFINE R == 0 .. c.np - 1
           f == Ahead(c, 1)
           g == Behind(c, 1)
           V == P2PChannels(c)
           D == Knows(R, R, f)
           B(r, i) == Irecv(g[r], 0, "data", i, 0) \o Isend(f[r], 0, "data", i, 0) \o Waitall(i, 1)
           A == [m \in Nat |-> [i \in Nat |-> [r \in R |-> B(r, i)]]]
<1>1. /\ c.np \in Nat \ {0} /\ c.n \in Nat /\ c.warm \in Nat /\ c.sizes \in Nat /\ R \subseteq Nat
      /\ 0 \in R /\ 0 \in Int /\ FALSE \in BOOLEAN /\ IsFiniteSet(R) /\ 1 \in 0 .. c.np
  BY RanksAre
<1>2. \A r \in R : OfRank(c, r) = SendrecvReplace(c, r)
  BY DEF OfRank
<1>3. CASE c.np < 2
  <2>1. \A r \in R : SendrecvReplace(c, r) = <<>>
    BY <1>3 DEF SendrecvReplace
  <2> HIDE DEF R
  <2> QED BY <1>2, <2>1, NothingProper DEF R
<1>4. CASE ~ (c.np < 2)
  <2>1. Ring(R, R, f, g) /\ Ints(R, f, g)
    BY <1>1, RingIs
  <2>2. Turning(R, D, R, f, g)
    <3> HIDE DEF R, f, g
    <3> QED BY <1>1, <2>1, RingTurns DEF D
  <2>3. Sources(V, R, g, g, 0, 0) /\ D # {}
    <3> HIDE DEF R, f, g
    <3>1. \A r \in R : g[r] \in R
      BY <2>1 DEF Ring
    <3>2. <<0, 0>> \in D
      BY <1>1 DEF Knows
    <3> QED BY <3>1, <3>2, P2PSources DEF R
  <2>4. ASSUME NEW m \in 1 .. c.warm \cup 1 .. c.n, NEW i \in Nat
        PROVE  Piece(R, V, D, A[m][i], 16 * i, 16 * i + 15)
    <3> DEFINE p == A[m][i]
    <3>1. p = [r \in R |-> B(r, i)]
      BY <1>1
    <3> HIDE DEF p, V, D, R, f, g
    <3>3. Crosses(p, R, f, g, 0, 0, i)
      BY <3>1 DEF Crosses
    <3>5. Idle(R, p, R)
      BY <3>1 DEF Idle
    <3>8. Piece(R, V, D, p, 16 * i, 16 * i + 15)
      BY <1>1, <2>1, <2>2, <2>3, <3>3, <3>5, CrossBody
    <3> QED BY <3>8 DEF p
  <2>5. Bodies(c, D, c.warm, c.n, A)
    <3> HIDE DEF A, D
    <3> QED BY <2>4 DEF Bodies
  <2>6. ASSUME NEW r \in R
        PROVE  OfRank(c, r) = Sizes(c, r, c.warm, c.n, FALSE, A)
    <3>1. f[r] = (r + 1) % c.np /\ g[r] = (r + c.np - 1) % c.np
      BY DEF Ahead, Behind
    <3>2. \A m, i \in Nat : A[m][i][r] = B(r, i)
      OBVIOUS
    <3> HIDE DEF A, f, g
    <3>3. ASSUME NEW b \in Nat, NEW n \in Nat
          PROVE  [m \in 1 .. n |-> A[m][b + m][r]] = [m \in 1 .. n |-> B(r, b + m)]
      <4> HIDE DEF B
      <4>1. \A m \in 1 .. n : m \in Nat /\ b + m \in Nat
        OBVIOUS
      <4>2. \A m \in 1 .. n : A[m][b + m][r] = B(r, b + m)
        BY <3>2, <4>1
      <4> QED BY <4>2
    <3>4. SendrecvReplace(c, r) = Sizes(c, r, c.warm, c.n, FALSE, A)
      <4> DEFINE S(k) ==
             Barrier((k - 1) * (c.warm + c.n + 2), 0)
               \o FlattenSeq([m \in 1 .. c.warm |-> B(r, (k - 1) * (c.warm + c.n + 2) + m)])
               \o <<>>
               \o FlattenSeq([m \in 1 .. c.n |->
                                 B(r, (k - 1) * (c.warm + c.n + 2) + c.warm + m)])
               \o Barrier((k - 1) * (c.warm + c.n + 2) + c.warm + c.n + 1, 0)
               \o Report(c, r, (k - 1) * (c.warm + c.n + 2) + c.warm + c.n + 1)
      <4>1. SendrecvReplace(c, r) = FlattenSeq([k \in 1 .. c.sizes |-> S(k)])
        BY <1>4, <3>1 DEF SendrecvReplace, Sized, Times, Phases
      <4>2. ASSUME NEW k \in 1 .. c.sizes
            PROVE  SizeOf(c, r, (k - 1) * (c.warm + c.n + 2), c.warm, c.n, FALSE, A) = S(k)
        <5> DEFINE b == (k - 1) * (c.warm + c.n + 2)
        <5>1. b \in Nat /\ b + c.warm \in Nat
          <6> DEFINE w == c.warm + c.n + 2
          <6>1. w \in Nat /\ k \in Nat \ {0}
            BY <1>1
          <6> HIDE DEF w
          <6>2. (k - 1) * w \in Nat
            BY <6>1, NextSize
          <6> QED BY <1>1, <6>2 DEF w
        <5> HIDE DEF b
        <5>2. /\ [m \in 1 .. c.warm |-> A[m][b + m][r]] = [m \in 1 .. c.warm |-> B(r, b + m)]
              /\ [m \in 1 .. c.n |-> A[m][b + c.warm + m][r]]
                   = [m \in 1 .. c.n |-> B(r, b + c.warm + m)]
          BY <1>1, <3>3, <5>1
        <5> QED BY <5>2 DEF SizeOf, b
      <4> HIDE DEF S
      <4>3. [k \in 1 .. c.sizes |-> S(k)] =
              [k \in 1 .. c.sizes |->
                 SizeOf(c, r, (k - 1) * (c.warm + c.n + 2), c.warm, c.n, FALSE, A)]
        BY <4>2
      <4> QED BY <4>1, <4>3 DEF Sizes
    <3> QED BY <1>2, <3>4
  <2> HIDE DEF A, D
  <2> QED BY <1>1, <2>3, <2>5, <2>6, SizedProper
<1> QED BY <1>3, <1>4

(***************************************************************************)
(* Their channels and sources.                                             *)
(***************************************************************************)
LEMMA PairsOf ==
  ASSUME NEW c, KernelCall(c), NEW p, NEW a, NEW b, Drawn(0 .. c.np - 1, p, a, b)
  PROVE  LET f == Other(0 .. c.np - 1, a, b)
         IN  Sources(P2PChannels(c), {a, b}, f, f, 0, 0) /\ Ints({a, b}, f, f)
<1> DEFINE R == 0 .. c.np - 1
           f == Other(R, a, b)
<1>1. f[a] = b /\ f[b] = a /\ {a, b} \subseteq R /\ a \in Int /\ b \in Int
  <2>1. f[a] = b /\ f[b] = a
    BY DEF Drawn, Other
  <2>2. a \in R /\ b \in R
    BY DEF Drawn
  <2>3. R \subseteq Nat
    BY RanksAre
  <2> HIDE DEF R, f
  <2> QED BY <2>1, <2>2, <2>3
<1> HIDE DEF f
<1>2. \A r \in {a, b} : f[r] \in R
  BY <1>1
<1> HIDE DEF R
<1>3. Sources(P2PChannels(c), {a, b}, f, f, 0, 0)
  BY <1>1, <1>2, P2PSources DEF R
<1> QED BY <1>1, <1>3 DEF f, R, Ints

(***************************************************************************)
(* One of a pair sends to the other.                                       *)
(***************************************************************************)
OneSends(p, a, b, i) ==
  p[a] = Send(b, 0, "data", i, 0) /\ p[b] = Recv(a, 0, "data", i, 0)

(***************************************************************************)
(* The body of Unirandom is a piece.                                       *)
(***************************************************************************)
LEMMA OneSendsBody ==
  ASSUME NEW c, KernelCall(c), NEW p, NEW a, NEW b, Drawn(0 .. c.np - 1, p, a, b), NEW i \in Nat,
         OneSends(p, a, b, i)
  PROVE  Piece(0 .. c.np - 1, P2PChannels(c), {}, p, 16 * i, 16 * i + 15)
<1> DEFINE R == 0 .. c.np - 1
           V == P2PChannels(c)
           f == Other(R, a, b)
           L == {a}
           H == {b}
           N == One(1, 1)
<1>1. /\ Partners(R, L, H, f) /\ f[a] = b /\ f[b] = a
      /\ {a} \cup {b} = {a, b} /\ Idle(R, p, {a, b})
  BY OtherIs
<1>2. Sources(V, {a, b}, f, f, 0, 0) /\ Ints({a, b}, f, f)
  BY PairsOf
<1>3. a \in Int /\ b \in Int /\ 0 \in Int
  BY <1>1, <1>2 DEF Ints
<1> HIDE DEF R, V, f
<1>4. Only(p[a], i, {1}, {}) /\ Posts(p[a], i, {1}, f[a], 0, "data", 0)
  BY <1>1, <1>3, SendTalks DEF OneSends
<1>5. Only(p[b], i, {}, {1}) /\ Gets(p[b], i, {1}, f[b], 0, "data", 0)
  BY <1>1, <1>3, RecvTalks DEF OneSends
<1>6. Matched(N) /\ Firsts(N) = {1} /\ Seconds(N) = {1}
  BY OneMatched
<1>7. Matched({}) /\ Firsts({}) = {} /\ Seconds({}) = {}
  BY DEF Matched, InOrder, Firsts, Seconds
<1> HIDE DEF N
<1>8. PairTalk(p, i, L, H, f, f, 0, 0, N, "data", 0, {}, "data", 0)
  <2>1. Gets(p[a], i, {}, f[a], 0, "data", 0) /\ Posts(p[b], i, {}, f[b], 0, "data", 0)
    BY DEF Gets, Posts
  <2> QED BY <1>4, <1>5, <1>6, <1>7, <2>1 DEF PairTalk
<1>9. Quiet(R, p, L \cup H)
  <2>1. \A r \in {a, b} : p[r] \in Seq(OpSet)
    BY <1>4, <1>5 DEF Only
  <2>2. Quiet(R, p, {a, b})
    BY <1>1, <2>1, IdleQuiet
  <2> QED BY <1>1, <2>2
<1>10. Sources(V, L \cup H, f, f, 0, 0)
  BY <1>1, <1>2
<1>11. Linked({}, L \cup H, f)
  BY DEF Linked
<1> HIDE DEF L, H
<1>12. Piece(R, V, {}, p, 16 * i, 16 * i + 15)
  BY <1>1, <1>6, <1>7, <1>8, <1>9, <1>10, <1>11, PairPiece
<1> QED BY <1>12 DEF R, V

(***************************************************************************)
(* A pair swaps.                                                           *)
(***************************************************************************)
TwoSwap(p, a, b, i) ==
  p[a] = Swap(b, b, i) /\ p[b] = Swap(a, a, i)

(***************************************************************************)
(* The body of Birandom is a piece.                                        *)
(***************************************************************************)
LEMMA TwoSwapBody ==
  ASSUME NEW c, KernelCall(c), NEW p, NEW a, NEW b, Drawn(0 .. c.np - 1, p, a, b), NEW i \in Nat,
         TwoSwap(p, a, b, i)
  PROVE  Piece(0 .. c.np - 1, P2PChannels(c), {}, p, 16 * i, 16 * i + 15)
<1> DEFINE R == 0 .. c.np - 1
           V == P2PChannels(c)
           f == Other(R, a, b)
           P == {a, b}
<1>1. /\ Partners(R, {a}, {b}, f) /\ f[a] = b /\ f[b] = a
      /\ {a} \cup {b} = P /\ Idle(R, p, P)
  BY OtherIs
<1>2. Sources(V, P, f, f, 0, 0) /\ Ints(P, f, f)
  BY PairsOf
<1> HIDE DEF R, V, f
<1>3. Ring(R, P, f, f)
  <2>1. Ring(R, {a} \cup {b}, f, f)
    BY <1>1, PairsTurn
  <2> QED BY <1>1, <2>1
<1>4. Turning(R, {}, P, f, f)
  BY DEF Turning
<1>5. Swaps(p, P, f, f, 0, 0, i)
  BY <1>1 DEF Swaps, TwoSwap, Swap
<1> HIDE DEF P
<1>6. Piece(R, V, {}, p, 16 * i, 16 * i + 15)
  BY <1>1, <1>2, <1>3, <1>4, <1>5, SwapBody
<1> QED BY <1>6 DEF R, V

(***************************************************************************)
(* Unirandom.                                                              *)
(***************************************************************************)
LEMMA UnirandomProper ==
  ASSUME NEW c, KernelCall(c), c.kernel = "Unirandom"
  PROVE  Proper(c)
<1> DEFINE R == 0 .. c.np - 1
           V == P2PChannels(c)
           D == {}
           B(r, m, i) == CASE r = c.draw[m][1] -> Send(c.draw[m][2], 0, "data", i, 0)
                           [] r = c.draw[m][2] -> Recv(c.draw[m][1], 0, "data", i, 0)
                           [] OTHER -> <<>>
           A == [m \in Nat |-> [i \in Nat |-> [r \in R |-> B(r, m, i)]]]
<1>1. /\ c.np \in Nat \ {0} /\ c.np * c.n \in Nat /\ c.np * c.warm \in Nat /\ c.sizes \in Nat
      /\ R \subseteq Nat /\ TRUE \in BOOLEAN
  BY RanksAre
<1>2. \A r \in R : OfRank(c, r) = Unirandom(c, r)
  BY DEF OfRank
<1>3. CASE c.np < 2
  <2>1. \A r \in R : Unirandom(c, r) = <<>>
    BY <1>3 DEF Unirandom, P2PDrawn
  <2> HIDE DEF R
  <2> QED BY <1>2, <2>1, NothingProper DEF R
<1>4. CASE ~ (c.np < 2)
  <2>3. Closed(c) => D # {}
    BY DEF Closed
  <2>4. ASSUME NEW m \in 1 .. c.np * c.warm \cup 1 .. c.np * c.n, NEW i \in Nat
        PROVE  Piece(R, V, D, A[m][i], 16 * i, 16 * i + 15)
    <3> DEFINE a == c.draw[m][1]
               b == c.draw[m][2]
               p == A[m][i]
    <3>1. a \in R /\ b \in R /\ a # b
      <4>1. PairDrawn(c, m) /\ c.np > 1
        BY <1>1, <1>4 DEF KernelCall
      <4> QED BY <4>1 DEF PairDrawn
    <3>2. m \in Nat
      BY <1>1
    <3>3. p = [r \in R |-> B(r, m, i)]
      BY <3>2
    <3>4. /\ p[a] = Send(b, 0, "data", i, 0)
          /\ p[b] = Recv(a, 0, "data", i, 0)
          /\ \A r \in R : r \notin {a, b} => p[r] = <<>>
          /\ p = [r \in R |-> p[r]]
      <4> HIDE DEF p
      <4>1. p[a] = B(a, m, i) /\ p[b] = B(b, m, i)
        BY <3>1, <3>3
      <4>2. B(a, m, i) = Send(b, 0, "data", i, 0)
        BY <3>1
      <4>3. B(b, m, i) = Recv(a, 0, "data", i, 0)
        BY <3>1
      <4>4. ASSUME NEW r \in R, r \notin {a, b} PROVE p[r] = <<>>
        BY <3>3, <4>4
      <4>5. p = [r \in R |-> p[r]]
        BY <3>3
      <4> QED BY <4>1, <4>2, <4>3, <4>4, <4>5
    <3> HIDE DEF p, a, b, R
    <3>5. OneSends(p, a, b, i)
      BY <3>4 DEF OneSends
    <3>6. Drawn(R, p, a, b)
      BY <3>1, <3>4 DEF Drawn
    <3>7. Piece(R, V, {}, p, 16 * i, 16 * i + 15)
      BY <3>5, <3>6, OneSendsBody DEF R
    <3> QED BY <3>7 DEF p
  <2>5. Bodies(c, D, c.np * c.warm, c.np * c.n, A)
    <3> HIDE DEF A, D
    <3> QED BY <2>4 DEF Bodies
  <2>6. ASSUME NEW r \in R
        PROVE  OfRank(c, r) = Sizes(c, r, c.np * c.warm, c.np * c.n, TRUE, A)
    <3>2. \A m, i \in Nat : A[m][i][r] = B(r, m, i)
      OBVIOUS
    <3> HIDE DEF A
    <3>3. ASSUME NEW b \in Nat, NEW n \in Nat
          PROVE  [m \in 1 .. n |-> A[m][b + m][r]] = [m \in 1 .. n |-> B(r, m, b + m)]
      <4> HIDE DEF B
      <4>1. \A m \in 1 .. n : m \in Nat /\ b + m \in Nat
        OBVIOUS
      <4>2. \A m \in 1 .. n : A[m][b + m][r] = B(r, m, b + m)
        BY <3>2, <4>1
      <4> QED BY <4>2
    <3>4. Unirandom(c, r) = Sizes(c, r, c.np * c.warm, c.np * c.n, TRUE, A)
      <4> DEFINE S(k) ==
             Barrier((k - 1) * (c.np * c.warm + c.np * c.n + 2), 0)
               \o FlattenSeq([m \in 1 .. c.np * c.warm |-> B(r, m, (k - 1) * (c.np * c.warm + c.np * c.n + 2) + m)])
               \o Barrier((k - 1) * (c.np * c.warm + c.np * c.n + 2) + c.np * c.warm, 15)
               \o FlattenSeq([m \in 1 .. c.np * c.n |->
                                 B(r, m, (k - 1) * (c.np * c.warm + c.np * c.n + 2) + c.np * c.warm + m)])
               \o Barrier((k - 1) * (c.np * c.warm + c.np * c.n + 2) + c.np * c.warm + c.np * c.n + 1, 0)
               \o Report(c, r, (k - 1) * (c.np * c.warm + c.np * c.n + 2) + c.np * c.warm + c.np * c.n + 1)
      <4>1. Unirandom(c, r) = FlattenSeq([k \in 1 .. c.sizes |-> S(k)])
        BY <1>4 DEF Unirandom, P2PDrawn, Sized, Times, Phases
      <4>2. ASSUME NEW k \in 1 .. c.sizes
            PROVE  SizeOf(c, r, (k - 1) * (c.np * c.warm + c.np * c.n + 2), c.np * c.warm, c.np * c.n, TRUE, A) = S(k)
        <5> DEFINE b == (k - 1) * (c.np * c.warm + c.np * c.n + 2)
        <5>1. b \in Nat /\ b + c.np * c.warm \in Nat
          <6> DEFINE w == c.np * c.warm + c.np * c.n + 2
          <6>1. w \in Nat /\ k \in Nat \ {0}
            BY <1>1
          <6> HIDE DEF w
          <6>2. (k - 1) * w \in Nat
            BY <6>1, NextSize
          <6> QED BY <1>1, <6>2 DEF w
        <5> HIDE DEF b
        <5>2. /\ [m \in 1 .. c.np * c.warm |-> A[m][b + m][r]] = [m \in 1 .. c.np * c.warm |-> B(r, m, b + m)]
              /\ [m \in 1 .. c.np * c.n |-> A[m][b + c.np * c.warm + m][r]]
                   = [m \in 1 .. c.np * c.n |-> B(r, m, b + c.np * c.warm + m)]
          BY <1>1, <3>3, <5>1
        <5> QED BY <5>2 DEF SizeOf, b
      <4> HIDE DEF S
      <4>3. [k \in 1 .. c.sizes |-> S(k)] =
              [k \in 1 .. c.sizes |->
                 SizeOf(c, r, (k - 1) * (c.np * c.warm + c.np * c.n + 2), c.np * c.warm, c.np * c.n, TRUE, A)]
        BY <4>2
      <4> QED BY <4>1, <4>3 DEF Sizes
    <3> QED BY <1>2, <3>4
  <2> HIDE DEF A, D
  <2> QED BY <1>1, <2>3, <2>5, <2>6, SizedProper
<1> QED BY <1>3, <1>4

(***************************************************************************)
(* Birandom.                                                               *)
(***************************************************************************)
LEMMA BirandomProper ==
  ASSUME NEW c, KernelCall(c), c.kernel = "Birandom"
  PROVE  Proper(c)
<1> DEFINE R == 0 .. c.np - 1
           V == P2PChannels(c)
           D == {}
           B(r, m, i) == CASE r = c.draw[m][1] -> Swap(c.draw[m][2], c.draw[m][2], i)
                           [] r = c.draw[m][2] -> Swap(c.draw[m][1], c.draw[m][1], i)
                           [] OTHER -> <<>>
           A == [m \in Nat |-> [i \in Nat |-> [r \in R |-> B(r, m, i)]]]
<1>1. /\ c.np \in Nat \ {0} /\ c.np * c.n \in Nat /\ c.np * c.warm \in Nat /\ c.sizes \in Nat
      /\ R \subseteq Nat /\ TRUE \in BOOLEAN
  BY RanksAre
<1>2. \A r \in R : OfRank(c, r) = Birandom(c, r)
  BY DEF OfRank
<1>3. CASE c.np < 2
  <2>1. \A r \in R : Birandom(c, r) = <<>>
    BY <1>3 DEF Birandom, P2PDrawn
  <2> HIDE DEF R
  <2> QED BY <1>2, <2>1, NothingProper DEF R
<1>4. CASE ~ (c.np < 2)
  <2>3. Closed(c) => D # {}
    BY DEF Closed
  <2>4. ASSUME NEW m \in 1 .. c.np * c.warm \cup 1 .. c.np * c.n, NEW i \in Nat
        PROVE  Piece(R, V, D, A[m][i], 16 * i, 16 * i + 15)
    <3> DEFINE a == c.draw[m][1]
               b == c.draw[m][2]
               p == A[m][i]
    <3>1. a \in R /\ b \in R /\ a # b
      <4>1. PairDrawn(c, m) /\ c.np > 1
        BY <1>1, <1>4 DEF KernelCall
      <4> QED BY <4>1 DEF PairDrawn
    <3>2. m \in Nat
      BY <1>1
    <3>3. p = [r \in R |-> B(r, m, i)]
      BY <3>2
    <3>4. /\ p[a] = Swap(b, b, i)
          /\ p[b] = Swap(a, a, i)
          /\ \A r \in R : r \notin {a, b} => p[r] = <<>>
          /\ p = [r \in R |-> p[r]]
      <4> HIDE DEF p
      <4>1. p[a] = B(a, m, i) /\ p[b] = B(b, m, i)
        BY <3>1, <3>3
      <4>2. B(a, m, i) = Swap(b, b, i)
        BY <3>1
      <4>3. B(b, m, i) = Swap(a, a, i)
        BY <3>1
      <4>4. ASSUME NEW r \in R, r \notin {a, b} PROVE p[r] = <<>>
        BY <3>3, <4>4
      <4>5. p = [r \in R |-> p[r]]
        BY <3>3
      <4> QED BY <4>1, <4>2, <4>3, <4>4, <4>5
    <3> HIDE DEF p, a, b, R
    <3>5. TwoSwap(p, a, b, i)
      BY <3>4 DEF TwoSwap
    <3>6. Drawn(R, p, a, b)
      BY <3>1, <3>4 DEF Drawn
    <3>7. Piece(R, V, {}, p, 16 * i, 16 * i + 15)
      BY <3>5, <3>6, TwoSwapBody DEF R
    <3> QED BY <3>7 DEF p
  <2>5. Bodies(c, D, c.np * c.warm, c.np * c.n, A)
    <3> HIDE DEF A, D
    <3> QED BY <2>4 DEF Bodies
  <2>6. ASSUME NEW r \in R
        PROVE  OfRank(c, r) = Sizes(c, r, c.np * c.warm, c.np * c.n, TRUE, A)
    <3>2. \A m, i \in Nat : A[m][i][r] = B(r, m, i)
      OBVIOUS
    <3> HIDE DEF A
    <3>3. ASSUME NEW b \in Nat, NEW n \in Nat
          PROVE  [m \in 1 .. n |-> A[m][b + m][r]] = [m \in 1 .. n |-> B(r, m, b + m)]
      <4> HIDE DEF B
      <4>1. \A m \in 1 .. n : m \in Nat /\ b + m \in Nat
        OBVIOUS
      <4>2. \A m \in 1 .. n : A[m][b + m][r] = B(r, m, b + m)
        BY <3>2, <4>1
      <4> QED BY <4>2
    <3>4. Birandom(c, r) = Sizes(c, r, c.np * c.warm, c.np * c.n, TRUE, A)
      <4> DEFINE S(k) ==
             Barrier((k - 1) * (c.np * c.warm + c.np * c.n + 2), 0)
               \o FlattenSeq([m \in 1 .. c.np * c.warm |-> B(r, m, (k - 1) * (c.np * c.warm + c.np * c.n + 2) + m)])
               \o Barrier((k - 1) * (c.np * c.warm + c.np * c.n + 2) + c.np * c.warm, 15)
               \o FlattenSeq([m \in 1 .. c.np * c.n |->
                                 B(r, m, (k - 1) * (c.np * c.warm + c.np * c.n + 2) + c.np * c.warm + m)])
               \o Barrier((k - 1) * (c.np * c.warm + c.np * c.n + 2) + c.np * c.warm + c.np * c.n + 1, 0)
               \o Report(c, r, (k - 1) * (c.np * c.warm + c.np * c.n + 2) + c.np * c.warm + c.np * c.n + 1)
      <4>1. Birandom(c, r) = FlattenSeq([k \in 1 .. c.sizes |-> S(k)])
        BY <1>4 DEF Birandom, P2PDrawn, Sized, Times, Phases
      <4>2. ASSUME NEW k \in 1 .. c.sizes
            PROVE  SizeOf(c, r, (k - 1) * (c.np * c.warm + c.np * c.n + 2), c.np * c.warm, c.np * c.n, TRUE, A) = S(k)
        <5> DEFINE b == (k - 1) * (c.np * c.warm + c.np * c.n + 2)
        <5>1. b \in Nat /\ b + c.np * c.warm \in Nat
          <6> DEFINE w == c.np * c.warm + c.np * c.n + 2
          <6>1. w \in Nat /\ k \in Nat \ {0}
            BY <1>1
          <6> HIDE DEF w
          <6>2. (k - 1) * w \in Nat
            BY <6>1, NextSize
          <6> QED BY <1>1, <6>2 DEF w
        <5> HIDE DEF b
        <5>2. /\ [m \in 1 .. c.np * c.warm |-> A[m][b + m][r]] = [m \in 1 .. c.np * c.warm |-> B(r, m, b + m)]
              /\ [m \in 1 .. c.np * c.n |-> A[m][b + c.np * c.warm + m][r]]
                   = [m \in 1 .. c.np * c.n |-> B(r, m, b + c.np * c.warm + m)]
          BY <1>1, <3>3, <5>1
        <5> QED BY <5>2 DEF SizeOf, b
      <4> HIDE DEF S
      <4>3. [k \in 1 .. c.sizes |-> S(k)] =
              [k \in 1 .. c.sizes |->
                 SizeOf(c, r, (k - 1) * (c.np * c.warm + c.np * c.n + 2), c.np * c.warm, c.np * c.n, TRUE, A)]
        BY <4>2
      <4> QED BY <4>1, <4>3 DEF Sizes
    <3> QED BY <1>2, <3>4
  <2> HIDE DEF A, D
  <2> QED BY <1>1, <2>3, <2>5, <2>6, SizedProper
<1> QED BY <1>3, <1>4

(***************************************************************************)
(* Corandom.                                                               *)
(***************************************************************************)
LEMMA CorandomProper ==
  ASSUME NEW c, KernelCall(c), c.kernel = "Corandom"
  PROVE  Proper(c)
<1> DEFINE R == 0 .. c.np - 1
           V == P2PChannels(c)
           D == R \X R
           B(r, m, i) ==
             LET place == CHOOSE p \in 1 .. c.np : c.draw[m][p] = r
             IN Swap(c.draw[m][((place - 1 + c.np - 1) % c.np) + 1],
                     c.draw[m][((place + 1 + c.np - 1) % c.np) + 1], i)
           A == [m \in Nat |-> [i \in Nat |-> [r \in R |-> B(r, m, i)]]]
<1>1. /\ c.np \in Nat \ {0} /\ c.n \in Nat /\ c.warm \in Nat /\ c.sizes \in Nat
      /\ R \subseteq Nat /\ TRUE \in BOOLEAN /\ 0 \in R /\ 0 \in Int
  BY RanksAre
<1>2. \A r \in R : OfRank(c, r) = Corandom(c, r)
  BY DEF OfRank
<1>3. CASE c.np < 2
  <2>1. \A r \in R : Corandom(c, r) = <<>>
    BY <1>3 DEF Corandom, P2P
  <2> HIDE DEF R
  <2> QED BY <1>2, <2>1, NothingProper DEF R
<1>4. CASE ~ (c.np < 2)
  <2>3. Closed(c) => D # {}
    <3> HIDE DEF R
    <3>1. <<0, 0>> \in D
      BY <1>1
    <3> QED BY <3>1
  <2>4. ASSUME NEW m \in 1 .. c.warm \cup 1 .. c.n, NEW i \in Nat
        PROVE  Piece(R, V, D, A[m][i], 16 * i, 16 * i + 15)
    <3> DEFINE d == c.draw[m]
               f == NextDrawn(d, c.np)
               g == LastDrawn(d, c.np)
               p == A[m][i]
    <3>1. Draw(d, c.np)
      <4>1. RingDrawn(c, m)
        BY <1>1, <1>4 DEF KernelCall
      <4> QED BY <1>1, <4>1 DEF RingDrawn, Draw
    <3>2. m \in Nat
      BY <1>1
    <3>3. p = [r \in R |-> B(r, m, i)]
      BY <3>2
    <3>4. Ring(R, R, f, g) /\ Ints(R, f, g) /\ Turning(R, D, R, f, g)
      <4> HIDE DEF d
      <4> QED BY <3>1, DrawnRing
    <3>5. Swaps(p, R, f, g, 0, 0, i)
      <4>1. ASSUME NEW r \in R PROVE p[r] = Swap(g[r], f[r], i)
        <5>1. p[r] = B(r, m, i)
          BY <3>3
        <5>2. /\ f[r] = d[((Place(d, c.np, r) + 1 + c.np - 1) % c.np) + 1]
              /\ g[r] = d[((Place(d, c.np, r) - 1 + c.np - 1) % c.np) + 1]
          BY DEF NextDrawn, LastDrawn, Nth
        <5> HIDE DEF f, g, p
        <5> QED BY <5>1, <5>2 DEF Place
      <4> HIDE DEF p, f, g
      <4> QED BY <4>1 DEF Swaps, Swap
    <3>6. Idle(R, p, R)
      <4> HIDE DEF B
      <4> QED BY <3>3 DEF Idle
    <3> HIDE DEF p, f, g, R, D, V, d
    <3>7. Sources(V, R, g, g, 0, 0)
      <4>1. \A r \in R : g[r] \in R
        BY <3>4 DEF Ring
      <4> QED BY <4>1, P2PSources DEF R, V
    <3>8. Piece(R, V, D, p, 16 * i, 16 * i + 15)
      BY <1>1, <3>4, <3>5, <3>6, <3>7, SwapBody
    <3> QED BY <3>8 DEF p
  <2>5. Bodies(c, D, c.warm, c.n, A)
    <3> HIDE DEF A, D
    <3> QED BY <2>4 DEF Bodies
  <2>6. ASSUME NEW r \in R
        PROVE  OfRank(c, r) = Sizes(c, r, c.warm, c.n, TRUE, A)
    <3>2. \A m, i \in Nat : A[m][i][r] = B(r, m, i)
      OBVIOUS
    <3> HIDE DEF A
    <3>3. ASSUME NEW b \in Nat, NEW n \in Nat
          PROVE  [m \in 1 .. n |-> A[m][b + m][r]] = [m \in 1 .. n |-> B(r, m, b + m)]
      <4> HIDE DEF B
      <4>1. \A m \in 1 .. n : m \in Nat /\ b + m \in Nat
        OBVIOUS
      <4>2. \A m \in 1 .. n : A[m][b + m][r] = B(r, m, b + m)
        BY <3>2, <4>1
      <4> QED BY <4>2
    <3>4. Corandom(c, r) = Sizes(c, r, c.warm, c.n, TRUE, A)
      <4> DEFINE S(k) ==
             Barrier((k - 1) * (c.warm + c.n + 2), 0)
               \o FlattenSeq([m \in 1 .. c.warm |-> B(r, m, (k - 1) * (c.warm + c.n + 2) + m)])
               \o Barrier((k - 1) * (c.warm + c.n + 2) + c.warm, 15)
               \o FlattenSeq([m \in 1 .. c.n |->
                                 B(r, m, (k - 1) * (c.warm + c.n + 2) + c.warm + m)])
               \o Barrier((k - 1) * (c.warm + c.n + 2) + c.warm + c.n + 1, 0)
               \o Report(c, r, (k - 1) * (c.warm + c.n + 2) + c.warm + c.n + 1)
      <4>1. Corandom(c, r) = FlattenSeq([k \in 1 .. c.sizes |-> S(k)])
        BY <1>4 DEF Corandom, P2P, Sized, Times, Phases
      <4>2. ASSUME NEW k \in 1 .. c.sizes
            PROVE  SizeOf(c, r, (k - 1) * (c.warm + c.n + 2), c.warm, c.n, TRUE, A) = S(k)
        <5> DEFINE b == (k - 1) * (c.warm + c.n + 2)
        <5>1. b \in Nat /\ b + c.warm \in Nat
          <6> DEFINE w == c.warm + c.n + 2
          <6>1. w \in Nat /\ k \in Nat \ {0}
            BY <1>1
          <6> HIDE DEF w
          <6>2. (k - 1) * w \in Nat
            BY <6>1, NextSize
          <6> QED BY <1>1, <6>2 DEF w
        <5> HIDE DEF b
        <5>2. /\ [m \in 1 .. c.warm |-> A[m][b + m][r]] = [m \in 1 .. c.warm |-> B(r, m, b + m)]
              /\ [m \in 1 .. c.n |-> A[m][b + c.warm + m][r]]
                   = [m \in 1 .. c.n |-> B(r, m, b + c.warm + m)]
          BY <1>1, <3>3, <5>1
        <5> QED BY <5>2 DEF SizeOf, b
      <4> HIDE DEF S
      <4>3. [k \in 1 .. c.sizes |-> S(k)] =
              [k \in 1 .. c.sizes |->
                 SizeOf(c, r, (k - 1) * (c.warm + c.n + 2), c.warm, c.n, TRUE, A)]
        BY <4>2
      <4> QED BY <4>1, <4>3 DEF Sizes
    <3> QED BY <1>2, <3>4
  <2> HIDE DEF A, D
  <2> QED BY <1>1, <2>3, <2>5, <2>6, SizedProper
<1> QED BY <1>3, <1>4

-----------------------------------------------------------------------------
(***************************************************************************)
(* A batch from the sequences of its receives and of its sends.            *)
(***************************************************************************)
LEMMA BatchJoin ==
  ASSUME NEW m \in Nat, NEW from, NEW to, NEW x, NEW y, NEW tag, NEW i \in Nat,
         NEW X \in Seq(OpSet), Len(X) = m, \A k \in 1 .. m : In(X[k], from[k], tag, x[k], i, 0),
         NEW Y \in Seq(OpSet), Len(Y) = m, \A k \in 1 .. m : Out(Y[k], to[k], tag, y[k], i, 0)
  PROVE  Batch(X \o Y \o Waitall(i, 1), m, from, to, x, y, tag, i)
<1>1. PICK w : Waitall(i, 1) = <<w>> /\ Pause(w, "waitall", i, 1)
  <2>1. 1 \in Nat
    OBVIOUS
  <2> QED BY <2>1, PauseIs
<1> DEFINE u == X \o Y
           W == <<w>>
           s == u \o W
<1>2. Joined(u, X, Y)
  BY JoinIs
<1>3. W \in Seq(OpSet) /\ Len(W) = 1 /\ W[1] = w
  BY <1>1 DEF Pause
<1>4. u \in Seq(OpSet) /\ Len(u) = m + m
  BY <1>2 DEF Joined
<1> HIDE DEF u, W
<1>5. Joined(s, u, W)
  BY <1>3, <1>4, JoinIs
<1> HIDE DEF s
<1>6. s \in Seq(OpSet) /\ Len(s) = m + m + 1 /\ s[m + m + 1] = w
  <2>1. 1 \in 1 .. Len(W)
    BY <1>3
  <2> QED BY <1>3, <1>4, <1>5, <2>1 DEF Joined
<1>7. ASSUME NEW k \in 1 .. m PROVE s[k] = X[k] /\ s[m + k] = Y[k]
  <2>1. k \in 1 .. Len(X) /\ k \in 1 .. Len(Y) /\ k \in 1 .. m + m /\ m + k \in 1 .. m + m
    OBVIOUS
  <2>2. u[k] = X[k] /\ u[m + k] = Y[k]
    BY <1>2, <2>1 DEF Joined
  <2>3. s[k] = u[k] /\ s[m + k] = u[m + k]
    BY <1>4, <1>5, <2>1 DEF Joined
  <2> QED BY <2>2, <2>3
<1>8. Batch(s, m, from, to, x, y, tag, i)
  BY <1>1, <1>6, <1>7 DEF Batch
<1> QED BY <1>1, <1>8 DEF s, u, W

-----------------------------------------------------------------------------
(***************************************************************************)
(* The grid of Stencil2D has as many places as there are ranks.            *)
(***************************************************************************)
LEMMA GridIs ==
  ASSUME NEW c, KernelCall(c)
  PROVE  /\ LengthX(c) \in Nat /\ LengthY(c) \in Nat \ {0}
         /\ c.np = LengthX(c) * LengthY(c)
<1> DEFINE n == c.np
           square == CHOOSE l \in 2 .. n + 2 : l * l >= n /\ \A k \in 2 .. l - 1 : k * k < n
           divisors == {l \in 1 .. square : n % l = 0}
           ly == LengthY(c)
<1>1. n \in Nat \ {0}
  BY RanksAre
<1>2. square \in 2 .. n + 2
  <2> DEFINE S == {l \in 2 .. n + 2 : l * l >= n}
  <2>1. n + 2 \in S
    <3>1. (n + 2) * (n + 2) >= n
      BY <1>1
    <3> QED BY <1>1, <3>1
  <2>2. S \subseteq Nat /\ S # {}
    BY <1>1, <2>1
  <2>3. PICK l \in S : \A k \in S : l <= k
    <3> HIDE DEF S
    <3> QED BY <2>2, Least
  <2>4. \A k \in 2 .. l - 1 : k * k < n
    <3> SUFFICES ASSUME NEW k \in 2 .. l - 1 PROVE k * k < n
      OBVIOUS
    <3>1. k \in 2 .. n + 2 /\ ~ (l <= k)
      BY <1>1
    <3>2. ~ (k * k >= n)
      BY <2>3, <3>1
    <3>3. PICK t \in Nat : t = k * k
      BY <3>1
    <3> QED BY <1>1, <3>2, <3>3
  <2>5. \E l0 \in 2 .. n + 2 : l0 * l0 >= n /\ \A k \in 2 .. l0 - 1 : k * k < n
    BY <2>4
  <2> HIDE DEF n, S
  <2> QED BY <2>5
<1> HIDE DEF square
<1>3. divisors \subseteq Nat /\ 1 \in divisors /\ \A k \in divisors : k <= square
  <2>1. n % 1 = 0
    BY <1>1
  <2> QED BY <1>1, <1>2, <2>1
<1>4. ly = CHOOSE l \in divisors : \A k \in divisors : k <= l
  BY DEF LengthY, square
<1>5. ly \in divisors
  <2>1. square \in Nat /\ divisors # {}
    BY <1>1, <1>2, <1>3
  <2>2. \E l \in divisors : \A k \in divisors : k <= l
    <3> HIDE DEF divisors
    <3> QED BY <1>3, <2>1, Greatest
  <2> HIDE DEF divisors, ly
  <2> QED BY <1>4, <2>2
<1>6. ly \in Nat \ {0} /\ n % ly = 0
  BY <1>1, <1>2, <1>5
<1> HIDE DEF ly
<1>7. PICK q \in Nat, m \in 0 .. ly - 1 : n = ly * q + m
  BY <1>1, <1>6, DivisionOf
<1>8. (ly * q + m) \div ly = q /\ (ly * q + m) % ly = m
  BY <1>6, DivIs
<1>9. m = 0 /\ n \div ly = q
  BY <1>6, <1>7, <1>8
<1>10. n = q * ly
  BY <1>6, <1>7, <1>9
<1> QED BY <1>6, <1>9, <1>10 DEF LengthX, ly

(***************************************************************************)
(* Stencil2D computes the neighbours in the grid.                          *)
(***************************************************************************)
LEMMA NeighboursAre ==
  ASSUME NEW c, LengthX(c) \in Nat \ {0}, LengthY(c) \in Nat \ {0},
         NEW r \in 0 .. LengthX(c) * LengthY(c) - 1
  PROVE  NextTo(LengthX(c), LengthY(c))[r] = Neighbours(c, r)
<1> DEFINE l == LengthX(c)
           h == LengthY(c)
<1>0. l \in Nat \ {0} /\ h \in Nat \ {0} /\ r \in 0 .. l * h - 1
  OBVIOUS
<1>6. Neighbours(c, r) =
        <<l * ((r \div l + h) % h) + (((r % l) - 1 + l) % l),
          l * ((r \div l + h) % h) + (((r % l) + 1 + l) % l),
          l * (((r \div l) - 1 + h) % h) + (((r % l) + l) % l),
          l * (((r \div l) + 1 + h) % h) + (((r % l) + l) % l)>>
  BY DEF Neighbours
<1> HIDE DEF l, h
<1>1. r % l \in 0 .. l - 1 /\ r \div l \in 0 .. h - 1
  BY <1>0, CellOf
<1>2. PICK a \in 0 .. l - 1, b \in 0 .. h - 1 : a = r % l /\ b = r \div l
  BY <1>1
<1>3. (a + l) % l = a /\ (a - 1 + l) % l = Down(l, a) /\ (a + 1 + l) % l = Up(l, a)
  BY <1>0, StepIs
<1>4. (b + h) % h = b /\ (b - 1 + h) % h = Down(h, b) /\ (b + 1 + h) % h = Up(h, b)
  BY <1>0, StepIs
<1>7. Neighbours(c, r) = <<Cell(l, Down(l, a), b), Cell(l, Up(l, a), b),
                           Cell(l, a, Down(h, b)), Cell(l, a, Up(h, b))>>
  BY <1>2, <1>3, <1>4, <1>6 DEF Cell
<1>8. NextTo(l, h)[r] = <<Cell(l, Down(l, a), b), Cell(l, Up(l, a), b),
                          Cell(l, a, Down(h, b)), Cell(l, a, Up(h, b))>>
  BY <1>0, <1>2 DEF NextTo
<1> QED BY <1>7, <1>8 DEF l, h

(***************************************************************************)
(* Stencil2D.                                                              *)
(***************************************************************************)
LEMMA Stencil2DProper ==
  ASSUME NEW c, KernelCall(c), c.kernel = "Stencil2D"
  PROVE  Proper(c)
<1> DEFINE R == 0 .. c.np - 1
           lx == LengthX(c)
           ly == LengthY(c)
           f == NextTo(lx, ly)
           s == SlotOf(lx, ly)
           V == P2PChannels(c)
           D == Around(R, R, 4, f)
           N(r) == Neighbours(c, r)
           B(r, i) == FlattenSeq([k \in 1 .. 4 |-> Irecv(N(r)[k], 0, "data", i, 0)])
                        \o FlattenSeq([k \in 1 .. 4 |-> Isend(N(r)[k], 0, "data", i, 0)])
                        \o Waitall(i, 1)
           A == [m \in Nat |-> [i \in Nat |-> [r \in R |-> B(r, i)]]]
<1>1. /\ c.np \in Nat \ {0} /\ c.n \in Nat /\ c.warm \in Nat /\ c.sizes \in Nat
      /\ R \subseteq Nat /\ TRUE \in BOOLEAN /\ 0 \in R /\ 0 \in Int
  BY RanksAre
<1>2. \A r \in R : OfRank(c, r) = Stencil2D(c, r)
  BY DEF OfRank
<1>3. CASE lx < 2 \/ ly < 2 \/ c.np < 2
  <2>1. \A r \in R : Stencil2D(c, r) = <<>>
    BY <1>3 DEF Stencil2D, P2P
  <2> HIDE DEF R
  <2> QED BY <1>2, <2>1, NothingProper DEF R
<1>4. CASE ~ (lx < 2 \/ ly < 2 \/ c.np < 2)
  <2>1. lx \in Nat \ {0} /\ ly \in Nat \ {0} /\ c.np = lx * ly
    BY <1>4, GridIs
  <2>2. Answers(R, 4, f, f, s, s, Data, Data)
    <3>1. lx > 1 /\ ly > 1
      BY <1>4, <2>1
    <3>2. R = 0 .. lx * ly - 1
      BY <2>1
    <3> HIDE DEF lx, ly, R
    <3> QED BY <2>1, <3>1, <3>2, GridAnswers
  <2>3. Closed(c) => D # {}
    <3> HIDE DEF R, f
    <3>1. <<0, 0>> \in D
      BY <1>1 DEF Around
    <3> QED BY <3>1
  <2>7. ASSUME NEW r \in R PROVE f[r] = N(r)
    <3>1. r \in 0 .. lx * ly - 1
      BY <2>1
    <3> HIDE DEF R
    <3> QED BY <2>1, <3>1, NeighboursAre
  <2>8. ASSUME NEW r \in R PROVE \A k \in 1 .. 4 : N(r)[k] \in Int
    <3>1. \A q \in R : q \in Int
      BY <1>1
    <3> HIDE DEF f, s, R, N
    <3>2. \A k \in 1 .. 4 : f[r][k] \in R
      BY <2>2 DEF Answers
    <3> QED BY <2>7, <3>1, <3>2
  <2>4. ASSUME NEW m \in 1 .. c.warm \cup 1 .. c.n, NEW i \in Nat
        PROVE  Piece(R, V, D, A[m][i], 16 * i, 16 * i + 15)
    <3> DEFINE p == A[m][i]
    <3>1. p = [r \in R |-> B(r, i)]
      BY <1>1
    <3>2. ASSUME NEW r \in R PROVE Batch(B(r, i), 4, f[r], f[r], Data, Data, 0, i)
      <4> DEFINE in == [k \in 1 .. 4 |-> Entry("irecv", N(r)[k], 0, "data", i, 0)]
                 out == [k \in 1 .. 4 |-> Entry("isend", N(r)[k], 0, "data", i, 0)]
                 I == [k \in 1 .. 4 |-> Irecv(N(r)[k], 0, "data", i, 0)]
                 O == [k \in 1 .. 4 |-> Isend(N(r)[k], 0, "data", i, 0)]
      <4>1. ASSUME NEW k \in 1 .. 4
            PROVE  /\ I[k] = <<in[k]>> /\ O[k] = <<out[k]>>
                   /\ In(in[k], N(r)[k], 0, Data[k], i, 0) /\ Out(out[k], N(r)[k], 0, Data[k], i, 0)
        <5>1. N(r)[k] \in Int /\ Data[k] = "data" /\ 0 \in Nat /\ 0 \in Int
          BY <2>8 DEF Data
        <5>2. /\ Irecv(N(r)[k], 0, "data", i, 0) = <<Entry("irecv", N(r)[k], 0, "data", i, 0)>>
              /\ Entry("irecv", N(r)[k], 0, "data", i, 0) \in OpSet
          BY <5>1, DataIs, IrecvIs
        <5>3. /\ Isend(N(r)[k], 0, "data", i, 0) = <<Entry("isend", N(r)[k], 0, "data", i, 0)>>
              /\ Entry("isend", N(r)[k], 0, "data", i, 0) \in OpSet
          BY <5>1, DataIs, IsendIs
        <5>4. in[k] = Entry("irecv", N(r)[k], 0, "data", i, 0) /\ out[k] = Entry("isend", N(r)[k], 0, "data", i, 0)
          OBVIOUS
        <5>5. In(in[k], N(r)[k], 0, Data[k], i, 0)
          BY <5>1, <5>2, <5>4 DEF In, Entry
        <5>6. Out(out[k], N(r)[k], 0, Data[k], i, 0)
          BY <5>1, <5>3, <5>4 DEF Out, Entry
        <5> HIDE DEF N
        <5> QED BY <5>2, <5>3, <5>4, <5>5, <5>6
      <4>2. I = [k \in 1 .. 4 |-> <<in[k]>>] /\ O = [k \in 1 .. 4 |-> <<out[k]>>]
        <5>1. I = [k \in 1 .. 4 |-> I[k]] /\ O = [k \in 1 .. 4 |-> O[k]]
          OBVIOUS
        <5> HIDE DEF I, O, in, out
        <5> QED BY <4>1, <5>1
      <4> HIDE DEF in, out, I, O, N
      <4>3. \A k \in 1 .. 4 : in[k] \in OpSet /\ out[k] \in OpSet
        BY <4>1 DEF In, Out
      <4>4. 4 \in Nat
        OBVIOUS
      <4>5. Ones(FlattenSeq(I), 4, in) /\ Ones(FlattenSeq(O), 4, out)
        BY <4>2, <4>3, <4>4, FlatOnes
      <4> DEFINE X == FlattenSeq(I)
                 Y == FlattenSeq(O)
      <4>6. /\ X \in Seq(OpSet) /\ Len(X) = 4 /\ \A k \in 1 .. 4 : In(X[k], N(r)[k], 0, Data[k], i, 0)
            /\ Y \in Seq(OpSet) /\ Len(Y) = 4 /\ \A k \in 1 .. 4 : Out(Y[k], N(r)[k], 0, Data[k], i, 0)
        BY <4>1, <4>5 DEF Ones
      <4> HIDE DEF X, Y
      <4>7. Batch(X \o Y \o Waitall(i, 1), 4, N(r), N(r), Data, Data, 0, i)
        BY <4>4, <4>6, BatchJoin
      <4>8. f[r] = N(r)
        BY <2>7
      <4> HIDE DEF f
      <4> QED BY <4>7, <4>8 DEF X, Y, I, O
    <3>3. ASSUME NEW r \in R PROVE Batch(p[r], 4, f[r], f[r], Data, Data, 0, i)
      <4>1. p[r] = B(r, i)
        BY <3>1
      <4> HIDE DEF p, B
      <4> QED BY <3>2, <4>1
    <3>4. Idle(R, p, R)
      <4> HIDE DEF B, p
      <4> QED BY <3>1 DEF Idle
    <3>5. Named(V, R, 0, 0)
      <4>1. {0, 1} \subseteq Nat /\ 0 \in {0, 1}
        OBVIOUS
      <4> HIDE DEF R
      <4>2. Named(R \X R \X {0, 1}, R, 0, 0)
        BY <1>1, <4>1, NamedSame
      <4> QED BY <4>2 DEF P2PChannels, R
    <3> HIDE DEF p, f, s, R, V, D
    <3>6. R \subseteq R /\ 4 \in Nat
      OBVIOUS
    <3>7. Piece(R, V, D, p, 16 * i, 16 * i + 15)
      BY <2>2, <3>3, <3>4, <3>5, <3>6, BatchBody DEF D
    <3> QED BY <3>7 DEF p
  <2>5. Bodies(c, D, c.warm, c.n, A)
    <3> HIDE DEF A, D
    <3> QED BY <2>4 DEF Bodies
  <2>6. ASSUME NEW r \in R
        PROVE  OfRank(c, r) = Sizes(c, r, c.warm, c.n, TRUE, A)
    <3>2. \A m, i \in Nat : A[m][i][r] = B(r, i)
      OBVIOUS
    <3> HIDE DEF A, f
    <3>3. ASSUME NEW b \in Nat, NEW n \in Nat
          PROVE  [m \in 1 .. n |-> A[m][b + m][r]] = [m \in 1 .. n |-> B(r, b + m)]
      <4> HIDE DEF B
      <4>1. \A m \in 1 .. n : m \in Nat /\ b + m \in Nat
        OBVIOUS
      <4>2. \A m \in 1 .. n : A[m][b + m][r] = B(r, b + m)
        BY <3>2, <4>1
      <4> QED BY <4>2
    <3>4. Stencil2D(c, r) = Sizes(c, r, c.warm, c.n, TRUE, A)
      <4> DEFINE S(k) ==
             Barrier((k - 1) * (c.warm + c.n + 2), 0)
               \o FlattenSeq([m \in 1 .. c.warm |-> B(r, (k - 1) * (c.warm + c.n + 2) + m)])
               \o Barrier((k - 1) * (c.warm + c.n + 2) + c.warm, 15)
               \o FlattenSeq([m \in 1 .. c.n |->
                                 B(r, (k - 1) * (c.warm + c.n + 2) + c.warm + m)])
               \o Barrier((k - 1) * (c.warm + c.n + 2) + c.warm + c.n + 1, 0)
               \o Report(c, r, (k - 1) * (c.warm + c.n + 2) + c.warm + c.n + 1)
      <4>1. Stencil2D(c, r) = FlattenSeq([k \in 1 .. c.sizes |-> S(k)])
        BY <1>4 DEF Stencil2D, P2P, Sized, Times, Phases
      <4>2. ASSUME NEW k \in 1 .. c.sizes
            PROVE  SizeOf(c, r, (k - 1) * (c.warm + c.n + 2), c.warm, c.n, TRUE, A) = S(k)
        <5> DEFINE b == (k - 1) * (c.warm + c.n + 2)
        <5>1. b \in Nat /\ b + c.warm \in Nat
          <6> DEFINE w == c.warm + c.n + 2
          <6>1. w \in Nat /\ k \in Nat \ {0}
            BY <1>1
          <6> HIDE DEF w
          <6>2. (k - 1) * w \in Nat
            BY <6>1, NextSize
          <6> QED BY <1>1, <6>2 DEF w
        <5> HIDE DEF b
        <5>2. /\ [m \in 1 .. c.warm |-> A[m][b + m][r]] = [m \in 1 .. c.warm |-> B(r, b + m)]
              /\ [m \in 1 .. c.n |-> A[m][b + c.warm + m][r]]
                   = [m \in 1 .. c.n |-> B(r, b + c.warm + m)]
          BY <1>1, <3>3, <5>1
        <5> QED BY <5>2 DEF SizeOf, b
      <4> HIDE DEF S
      <4>3. [k \in 1 .. c.sizes |-> S(k)] =
              [k \in 1 .. c.sizes |->
                 SizeOf(c, r, (k - 1) * (c.warm + c.n + 2), c.warm, c.n, TRUE, A)]
        BY <4>2
      <4> QED BY <4>1, <4>3 DEF Sizes
    <3> QED BY <1>2, <3>4
  <2> HIDE DEF A, D
  <2> QED BY <1>1, <2>3, <2>5, <2>6, SizedProper
<1> QED BY <1>3, <1>4

(***************************************************************************)
(* The places of the dimensions from d on.                                 *)
(***************************************************************************)
LEMMA PlacesIs ==
  ASSUME NEW c, c.grid \in Seq(Nat \ {0})
  PROVE  /\ \A d \in 1 .. Len(c.grid) + 1 : Places(c)[d] \in Nat \ {0}
         /\ \A d \in 1 .. Len(c.grid) : Places(c)[d] = c.grid[d] * Places(c)[d + 1]
<1> DEFINE g == c.grid
           n == Len(g)
           M == Places(c)
           To(k) == (n + 1 - k) .. (n + 1)
           Part(f, k) == f = [d \in To(k) |-> IF d > n THEN 1 ELSE g[d] * f[d + 1]]
           N == {k \in Nat : k <= n => \E f : Part(f, k)}
           L == {k \in Nat : k <= n => M[n + 1 - k] \in Nat \ {0}}
<1>1. n \in Nat /\ \A d \in 1 .. n : g[d] \in Nat \ {0}
  OBVIOUS
<1>2. M = CHOOSE f : Multiplies(f, g)
  BY DEF Places, Multiplies
<1> HIDE DEF g, n, M
<1>3. 0 \in N
  <2> DEFINE f == [d \in To(0) |-> 1]
  <2>1. \A d \in To(0) : d > n
    BY <1>1
  <2>2. f = [d \in To(0) |-> IF d > n THEN 1 ELSE g[d] * f[d + 1]]
    BY <2>1
  <2> HIDE DEF f
  <2> QED BY <2>2
<1>4. ASSUME NEW k \in Nat, k \in N PROVE k + 1 \in N
  <2> SUFFICES ASSUME k + 1 <= n PROVE \E f : Part(f, k + 1)
    OBVIOUS
  <2>1. PICK f : Part(f, k)
    <3>1. k <= n
      BY <1>1
    <3> HIDE DEF Part
    <3> QED BY <1>4, <3>1
  <2> DEFINE e == n - k
             v == g[e] * f[e + 1]
             h == [d \in To(k + 1) |-> IF d = e THEN v ELSE f[d]]
  <2>2. e \in Nat /\ e <= n /\ e \in To(k + 1) /\ e + 1 # e /\ e + 1 \in To(k + 1)
        /\ To(k + 1) = {e} \cup To(k)
    BY <1>1
  <2>3. \A d \in To(k) : d # e /\ (d <= n => d + 1 # e /\ d + 1 \in To(k + 1))
    BY <1>1
  <2>4. \A d \in To(k) : f[d] = IF d > n THEN 1 ELSE g[d] * f[d + 1]
    BY <2>1
  <2> HIDE DEF To, v, e
  <2>5. \A d \in To(k + 1) : h[d] = IF d > n THEN 1 ELSE g[d] * h[d + 1]
    <3> SUFFICES ASSUME NEW d \in To(k + 1) PROVE h[d] = IF d > n THEN 1 ELSE g[d] * h[d + 1]
      OBVIOUS
    <3>1. CASE d = e
      <4>1. h[d] = v /\ h[e + 1] = f[e + 1] /\ ~ (d > n)
        BY <1>1, <2>2, <3>1
      <4> QED BY <3>1, <4>1 DEF v
    <3>2. CASE d # e
      <4>1. d \in To(k) /\ h[d] = f[d]
        BY <2>2, <3>2
      <4>2. CASE d > n
        BY <2>4, <4>1, <4>2
      <4>3. CASE ~ (d > n)
        <5>1. d \in Int
          BY <4>1, <1>1 DEF To
        <5>2. h[d + 1] = f[d + 1]
          BY <1>1, <2>3, <4>1, <4>3, <5>1
        <5> QED BY <2>4, <4>1, <4>3, <5>2
      <4> QED BY <4>2, <4>3
    <3> QED BY <3>1, <3>2
  <2>6. h = [d \in To(k + 1) |-> h[d]]
    OBVIOUS
  <2> HIDE DEF h
  <2>7. Part(h, k + 1)
    BY <2>5, <2>6
  <2> QED BY <2>7
<1>5. \E f : Multiplies(f, g)
  <2> HIDE DEF N
  <2>1. n \in N
    BY <1>1, <1>3, <1>4, Induction
  <2>2. PICK f : Part(f, n)
    BY <1>1, <2>1 DEF N
  <2>3. To(n) = 1 .. n + 1
    BY <1>1
  <2>4. Multiplies(f, g)
    BY <2>2, <2>3 DEF Multiplies, n
  <2> QED BY <2>4
<1>6. Multiplies(M, g)
  BY <1>2, <1>5
<1>7. /\ M[n + 1] = 1
      /\ \A d \in 1 .. n : M[d] = g[d] * M[d + 1]
  <2>1. \A d \in 1 .. n + 1 : M[d] = IF d > n THEN 1 ELSE g[d] * M[d + 1]
    BY <1>6 DEF Multiplies, n
  <2>2. n + 1 \in 1 .. n + 1 /\ n + 1 > n /\ \A d \in 1 .. n : d \in 1 .. n + 1 /\ ~ (d > n)
    BY <1>1
  <2> QED BY <2>1, <2>2
<1>8. 0 \in L
  <2>1. n + 1 - 0 = n + 1
    BY <1>1
  <2> QED BY <1>7, <2>1
<1>9. ASSUME NEW k \in Nat, k \in L PROVE k + 1 \in L
  <2> SUFFICES ASSUME k + 1 <= n PROVE M[n + 1 - (k + 1)] \in Nat \ {0}
    OBVIOUS
  <2>1. n + 1 - (k + 1) = n - k /\ n - k \in 1 .. n /\ (n - k) + 1 = n + 1 - k /\ k <= n
    BY <1>1
  <2>2. M[n + 1 - k] \in Nat \ {0}
    BY <1>9, <2>1
  <2>3. M[n - k] = g[n - k] * M[n + 1 - k]
    BY <1>7, <2>1
  <2>4. PICK x \in Nat \ {0}, y \in Nat \ {0} : x = g[n - k] /\ y = M[n + 1 - k]
    BY <1>1, <2>1, <2>2
  <2>5. x * y \in Nat \ {0}
    OBVIOUS
  <2> QED BY <2>1, <2>3, <2>4, <2>5
<1>10. ASSUME NEW d \in 1 .. n + 1 PROVE M[d] \in Nat \ {0}
  <2> HIDE DEF L
  <2>1. n + 1 - d \in Nat /\ n + 1 - d <= n /\ n + 1 - (n + 1 - d) = d
    BY <1>1
  <2>2. n + 1 - d \in L
    BY <1>8, <1>9, <2>1, Induction
  <2> QED BY <2>1, <2>2 DEF L
<1> QED BY <1>7, <1>10 DEF n, g, M

(***************************************************************************)
(* The places of the grid are those that vary faster, the dimension and    *)
(* those that vary slower.                                                 *)
(***************************************************************************)
LEMMA PlacesDivide ==
  ASSUME NEW c, c.grid \in Seq(Nat \ {0}), NEW d \in 1 .. Len(c.grid)
  PROVE  \E t \in Nat \ {0} : Places(c)[1] = Places(c)[d + 1] * (c.grid[d] * t)
<1> DEFINE g == c.grid
           n == Len(g)
           M == Places(c)
           N == {k \in Nat : k <= n => \E t \in Nat \ {0} : M[1] = M[k + 1] * t}
<1>1. n \in Nat /\ d \in 1 .. n /\ \A e \in 1 .. n : g[e] \in Nat \ {0}
  OBVIOUS
<1>2. /\ \A e \in 1 .. n + 1 : M[e] \in Nat \ {0}
      /\ \A e \in 1 .. n : M[e] = g[e] * M[e + 1]
  BY PlacesIs
<1> HIDE DEF M, g, n
<1>3. 0 \in N
  <2>1. M[1] \in Nat
    BY <1>1, <1>2
  <2>2. M[1] = M[1] * 1
    BY <2>1
  <2> QED BY <2>2
<1>4. ASSUME NEW k \in Nat, k \in N PROVE k + 1 \in N
  <2> SUFFICES ASSUME k + 1 <= n PROVE \E t \in Nat \ {0} : M[1] = M[(k + 1) + 1] * t
    OBVIOUS
  <2>1. PICK t \in Nat \ {0} : M[1] = M[k + 1] * t
    BY <1>1, <1>4
  <2>2. M[k + 1] = g[k + 1] * M[k + 2] /\ g[k + 1] \in Nat \ {0} /\ M[k + 2] \in Nat \ {0}
    <3>1. k + 1 \in 1 .. n /\ k + 2 \in 1 .. n + 1 /\ (k + 1) + 1 = k + 2
      BY <1>1
    <3> QED BY <1>1, <1>2, <3>1
  <2>3. PICK x \in Nat \ {0}, y \in Nat \ {0} : x = g[k + 1] /\ y = M[k + 2]
    BY <2>2
  <2>4. (x * y) * t = y * (x * t) /\ x * t \in Nat \ {0}
    OBVIOUS
  <2>5. M[1] = M[(k + 1) + 1] * (x * t)
    <3>1. (k + 1) + 1 = k + 2
      OBVIOUS
    <3> QED BY <2>1, <2>2, <2>3, <2>4, <3>1
  <2> QED BY <2>4, <2>5
<1>5. d - 1 \in N
  <2> HIDE DEF N
  <2>1. d - 1 \in Nat
    OBVIOUS
  <2> QED BY <1>3, <1>4, <2>1, Induction
<1>6. PICK t \in Nat \ {0} : M[1] = M[d] * t
  <2>1. d - 1 <= n /\ (d - 1) + 1 = d
    BY <1>1
  <2> QED BY <1>5, <2>1
<1>7. PICK x \in Nat \ {0}, y \in Nat \ {0} : x = g[d] /\ y = M[d + 1] /\ M[d] = x * y
  <2>1. d \in 1 .. n /\ d + 1 \in 1 .. n + 1
    BY <1>1
  <2> QED BY <1>1, <1>2, <2>1
<1>8. (x * y) * t = y * (x * t)
  OBVIOUS
<1>9. M[1] = M[d + 1] * (g[d] * t)
  BY <1>6, <1>7, <1>8
<1> QED BY <1>9 DEF M, g, n

-----------------------------------------------------------------------------
(***************************************************************************)
(* HALO: what goes a way in the grid comes the same way.                   *)
(***************************************************************************)
Located(c) == 0 .. Places(c)[1] - 1

(***************************************************************************)
(* Where a message that goes the way u is sent to, where it comes from,    *)
(* and what it means.                                                      *)
(***************************************************************************)
Forward(c, r, u) == Partner(c, r, u[1], IF u[2] = 1 THEN 1 ELSE -1)

Backward(c, r, u) == Partner(c, r, u[1], IF u[2] = 1 THEN -1 ELSE 1)

(***************************************************************************)
(* Destinations, sources and meanings of all steps.                        *)
(***************************************************************************)
HaloTo(c) == [r \in Located(c) |-> [k \in 1 .. Many(c) |-> Forward(c, r, Ways(c.grid)[k])]]

HaloFrom(c) == [r \in Located(c) |-> [k \in 1 .. Many(c) |-> Backward(c, r, Ways(c.grid)[k])]]

(***************************************************************************)
(* A partner is in the grid, and the partner back of it is the rank.       *)
(***************************************************************************)
LEMMA PartnerIs ==
  ASSUME NEW c, c.grid \in Seq(Nat \ {0}), NEW d \in 1 .. Len(c.grid), NEW r \in Located(c)
  PROVE  /\ Partner(c, r, d, 1) \in Located(c) /\ Partner(c, r, d, -1) \in Located(c)
         /\ Partner(c, Partner(c, r, d, 1), d, -1) = r
         /\ Partner(c, Partner(c, r, d, -1), d, 1) = r
<1> DEFINE mu == Places(c)[d + 1]
           n == c.grid[d]
           P == Located(c)
<1>1. mu \in Nat \ {0} /\ n \in Nat \ {0}
  <2>1. d + 1 \in 1 .. Len(c.grid) + 1
    OBVIOUS
  <2> QED BY <2>1, PlacesIs
<1>2. PICK t \in Nat \ {0} : Places(c)[1] = mu * (n * t)
  BY PlacesDivide
<1>3. P = 0 .. mu * (n * t) - 1
  BY <1>2 DEF Located
<1>4. \A s, step : Partner(c, s, d, step) = Move(mu, n, s, step)
  BY DEF Partner, Move
<1> HIDE DEF mu, n, P
<1>5. Moves(mu, n, P)
  BY <1>1, <1>3, MoveIs
<1>6. /\ Move(mu, n, r, 1) \in P /\ Move(mu, n, r, -1) \in P
      /\ Move(mu, n, Move(mu, n, r, 1), -1) = r
      /\ Move(mu, n, Move(mu, n, r, -1), 1) = r
  BY <1>5 DEF Moves, P
<1> QED BY <1>4, <1>6 DEF P

(***************************************************************************)
(* In the grid the receives answer the sends.                              *)
(***************************************************************************)
LEMMA HaloAnswers ==
  ASSUME NEW c, c.grid \in Seq(Nat \ {0})
  PROVE  /\ Answers(Located(c), Many(c), HaloFrom(c), HaloTo(c), Same(c), Same(c),
                    HaloSense(c), HaloSense(c))
         /\ Many(c) \in Nat
         /\ \A k \in 1 .. Many(c) : Ways(c.grid)[k] \in (1 .. Len(c.grid)) \X {1, 2}
<1> DEFINE P == Located(c)
           m == Many(c)
           W == Ways(c.grid)
           n == Len(c.grid)
           from == HaloFrom(c)
           to == HaloTo(c)
           same == Same(c)
           x == HaloSense(c)
<1>0. n \in Nat
  OBVIOUS
<1>1. /\ W \in Seq((1 .. n) \X {1, 2})
      /\ \A k \in 1 .. Len(W) : \E l \in 1 .. Len(W) : W[l][1] = W[k][1] /\ W[l][2] = 3 - W[k][2]
  BY <1>0, WaysBack
<1>2. m = Len(W)
  BY DEF Many
<1>3. \A r \in P : \A k \in 1 .. m : /\ to[r][k] = Forward(c, r, W[k])
                                     /\ from[r][k] = Backward(c, r, W[k])
  BY DEF HaloTo, HaloFrom
<1>4. \A k \in 1 .. m : same[k] = k /\ x[k] = Sense(W[k])
  BY DEF Same, HaloSense
<1>5. ASSUME NEW d \in 1 .. n, NEW r \in P
      PROVE  /\ Partner(c, r, d, 1) \in P /\ Partner(c, r, d, -1) \in P
             /\ Partner(c, Partner(c, r, d, 1), d, -1) = r
             /\ Partner(c, Partner(c, r, d, -1), d, 1) = r
  BY PartnerIs
<1> HIDE DEF W, m, n, P, from, to, same, x
<1>6. m \in Nat /\ \A k \in 1 .. m : W[k] \in (1 .. n) \X {1, 2}
  BY <1>1, <1>2
<1>7. ASSUME NEW k \in 1 .. m PROVE W[k][1] \in 1 .. n /\ (W[k][2] = 1 \/ W[k][2] = 2)
  <2>1. PICK u \in (1 .. n) \X {1, 2} : W[k] = u
    BY <1>6
  <2> QED BY <2>1
<1>8. ASSUME NEW r \in P, NEW k \in 1 .. m
      PROVE  /\ to[r][k] \in P /\ from[r][k] \in P
             /\ from[to[r][k]][k] = r /\ to[from[r][k]][k] = r
             /\ \E l \in 1 .. m : from[r][l] = to[r][k]
  <2>1. PICK d \in 1 .. n : d = W[k][1]
    BY <1>7
  <2>2. PICK l \in 1 .. m : W[l][1] = d /\ W[l][2] = 3 - W[k][2]
    BY <1>1, <1>2, <2>1
  <2>3. CASE W[k][2] = 1
    <3>1. to[r][k] = Partner(c, r, d, 1) /\ from[r][k] = Partner(c, r, d, -1)
      BY <1>3, <2>1, <2>3 DEF Forward, Backward
    <3>2. \A q \in P : to[q][k] = Partner(c, q, d, 1) /\ from[q][k] = Partner(c, q, d, -1)
      BY <1>3, <2>1, <2>3 DEF Forward, Backward
    <3>3. from[r][l] = Partner(c, r, d, 1)
      <4>1. W[l][2] = 2
        BY <2>2, <2>3
      <4> QED BY <1>3, <2>2, <4>1 DEF Backward
    <3> QED BY <1>5, <3>1, <3>2, <3>3
  <2>4. CASE W[k][2] = 2
    <3>1. to[r][k] = Partner(c, r, d, -1) /\ from[r][k] = Partner(c, r, d, 1)
      BY <1>3, <2>1, <2>4 DEF Forward, Backward
    <3>2. \A q \in P : to[q][k] = Partner(c, q, d, -1) /\ from[q][k] = Partner(c, q, d, 1)
      BY <1>3, <2>1, <2>4 DEF Forward, Backward
    <3>3. from[r][l] = Partner(c, r, d, -1)
      <4>1. W[l][2] = 1
        BY <2>2, <2>4
      <4> QED BY <1>3, <2>2, <4>1 DEF Backward
    <3> QED BY <1>5, <3>1, <3>2, <3>3
  <2> QED BY <1>7, <2>3, <2>4
<1>9. Answers(P, m, from, to, same, same, x, x)
  <2>1. \A k \in 1 .. m : /\ same[k] \in 1 .. m /\ same[same[k]] = k /\ x[k] = x[same[k]]
    BY <1>4
  <2>2. ASSUME NEW r \in P, NEW k \in 1 .. m
        PROVE  /\ to[r][k] \in P /\ from[r][k] \in P
               /\ from[to[r][k]][same[k]] = r /\ to[from[r][k]][same[k]] = r
               /\ \E l \in 1 .. m : from[r][l] = to[r][k]
               /\ \A l \in 1 .. m : to[r][k] = to[r][l] => (k < l <=> same[k] < same[l])
    BY <1>4, <1>8
  <2> QED BY <2>1, <2>2 DEF Answers
<1> QED BY <1>6, <1>9 DEF W, m, n, P, from, to, same, x

(***************************************************************************)
(* The receives of the body of HALO.                                       *)
(***************************************************************************)
HaloIns(c, r, i) ==
  [d \in 1 .. Len(c.grid) |->
     IF c.grid[d] = 1 THEN <<>>
     ELSE Irecv(Partner(c, r, d, -1), 1, <<"up", d>>, i, 0)
            \o Irecv(Partner(c, r, d, 1), 1, <<"down", d>>, i, 0)]

(***************************************************************************)
(* The sends of the body of HALO.                                          *)
(***************************************************************************)
HaloOuts(c, r, i) ==
  [d \in 1 .. Len(c.grid) |->
     IF c.grid[d] = 1 THEN <<>>
     ELSE Isend(Partner(c, r, d, 1), 1, <<"up", d>>, i, 0)
            \o Isend(Partner(c, r, d, -1), 1, <<"down", d>>, i, 0)]

(***************************************************************************)
(* The body.                                                               *)
(***************************************************************************)
HaloBody(c, r, i) ==
  FlattenSeq(HaloIns(c, r, i)) \o FlattenSeq(HaloOuts(c, r, i)) \o Waitall(i, 1)

(***************************************************************************)
(* The receives and the sends of a dimension.                              *)
(***************************************************************************)
LEMMA TwoIns ==
  ASSUME NEW a \in Int, NEW b \in Int, NEW tag \in Int, NEW x \in Labels, NEW y \in Labels,
         NEW i \in Nat
  PROVE  /\ Two(Irecv(a, tag, x, i, 0) \o Irecv(b, tag, y, i, 0),
                Entry("irecv", a, tag, x, i, 0), Entry("irecv", b, tag, y, i, 0))
         /\ Two(Isend(a, tag, x, i, 0) \o Isend(b, tag, y, i, 0),
                Entry("isend", a, tag, x, i, 0), Entry("isend", b, tag, y, i, 0))
<1>0. 0 \in Nat
  OBVIOUS
<1>1. /\ Irecv(a, tag, x, i, 0) = <<Entry("irecv", a, tag, x, i, 0)>>
      /\ Entry("irecv", a, tag, x, i, 0) \in OpSet
      /\ Irecv(b, tag, y, i, 0) = <<Entry("irecv", b, tag, y, i, 0)>>
      /\ Entry("irecv", b, tag, y, i, 0) \in OpSet
  BY <1>0, IrecvIs
<1>2. /\ Isend(a, tag, x, i, 0) = <<Entry("isend", a, tag, x, i, 0)>>
      /\ Entry("isend", a, tag, x, i, 0) \in OpSet
      /\ Isend(b, tag, y, i, 0) = <<Entry("isend", b, tag, y, i, 0)>>
      /\ Entry("isend", b, tag, y, i, 0) \in OpSet
  BY <1>0, IsendIs
<1> QED BY <1>1, <1>2, JoinTwo

(***************************************************************************)
(* The body of HALO is a batch.                                            *)
(***************************************************************************)
LEMMA HaloBatch ==
  ASSUME NEW c, c.grid \in Seq(Nat \ {0}), NEW r \in Located(c), NEW i \in Nat
  PROVE  Batch(HaloBody(c, r, i), Many(c), HaloFrom(c)[r], HaloTo(c)[r],
               HaloSense(c), HaloSense(c), 1, i)
<1> DEFINE g == c.grid
           n == Len(g)
           m == Many(c)
           W == Ways(g)
           Q == (1 .. n) \X {1, 2}
           in == [u \in Q |-> Entry("irecv", Backward(c, r, u), 1, Sense(u), i, 0)]
           out == [u \in Q |-> Entry("isend", Forward(c, r, u), 1, Sense(u), i, 0)]
           X == FlattenSeq(HaloIns(c, r, i))
           Y == FlattenSeq(HaloOuts(c, r, i))
           from == HaloFrom(c)[r]
           to == HaloTo(c)[r]
           x == HaloSense(c)
<1>0. Len(g) \in Nat /\ n \in Nat /\ 1 \in Int /\ 0 \in Nat
  OBVIOUS
<1>1. ASSUME NEW d \in 1 .. n
      PROVE  /\ Partner(c, r, d, 1) \in Int /\ Partner(c, r, d, -1) \in Int
             /\ <<"up", d>> \in Labels /\ <<"down", d>> \in Labels
  <2>1. Partner(c, r, d, 1) \in Located(c) /\ Partner(c, r, d, -1) \in Located(c)
    BY PartnerIs
  <2>2. \A q \in Located(c) : q \in Int
    BY DEF Located
  <2>3. d \in Nat
    OBVIOUS
  <2> QED BY <2>1, <2>2, <2>3, SenseIs
<1>2. ASSUME NEW u \in Q
      PROVE  /\ in[u] \in OpSet /\ In(in[u], Backward(c, r, u), 1, Sense(u), i, 0)
             /\ out[u] \in OpSet /\ Out(out[u], Forward(c, r, u), 1, Sense(u), i, 0)
  <2>1. in[u] = Entry("irecv", Backward(c, r, u), 1, Sense(u), i, 0)
        /\ out[u] = Entry("isend", Forward(c, r, u), 1, Sense(u), i, 0)
    OBVIOUS
  <2>2. u[1] \in 1 .. n
    OBVIOUS
  <2>3. Backward(c, r, u) \in Int /\ Forward(c, r, u) \in Int /\ Sense(u) \in Labels
    BY <1>1, <2>2 DEF Backward, Forward, Sense
  <2>4. /\ Entry("irecv", Backward(c, r, u), 1, Sense(u), i, 0) \in OpSet
        /\ Entry("isend", Forward(c, r, u), 1, Sense(u), i, 0) \in OpSet
    BY <1>0, <2>3, IrecvIs, IsendIs
  <2> HIDE DEF in, out
  <2> QED BY <2>1, <2>4 DEF In, Out, Entry
<1>3. ASSUME NEW d \in 1 .. n
      PROVE  /\ in[<<d, 1>>] = Entry("irecv", Partner(c, r, d, -1), 1, <<"up", d>>, i, 0)
             /\ in[<<d, 2>>] = Entry("irecv", Partner(c, r, d, 1), 1, <<"down", d>>, i, 0)
             /\ out[<<d, 1>>] = Entry("isend", Partner(c, r, d, 1), 1, <<"up", d>>, i, 0)
             /\ out[<<d, 2>>] = Entry("isend", Partner(c, r, d, -1), 1, <<"down", d>>, i, 0)
  <2>1. <<d, 1>> \in Q /\ <<d, 2>> \in Q
    OBVIOUS
  <2>2. <<d, 1>>[1] = d /\ <<d, 1>>[2] = 1 /\ <<d, 2>>[1] = d /\ <<d, 2>>[2] = 2
    OBVIOUS
  <2>3. /\ Backward(c, r, <<d, 1>>) = Partner(c, r, d, -1)
        /\ Backward(c, r, <<d, 2>>) = Partner(c, r, d, 1)
        /\ Forward(c, r, <<d, 1>>) = Partner(c, r, d, 1)
        /\ Forward(c, r, <<d, 2>>) = Partner(c, r, d, -1)
        /\ Sense(<<d, 1>>) = <<"up", d>> /\ Sense(<<d, 2>>) = <<"down", d>>
    BY <2>2 DEF Backward, Forward, Sense
  <2> HIDE DEF Q
  <2> QED BY <2>1, <2>3
<1> HIDE DEF in, out
<1>4. ByWays(HaloIns(c, r, i), g, in)
  <2>1. ASSUME NEW d \in 1 .. n
        PROVE  IF g[d] = 1 THEN HaloIns(c, r, i)[d] = <<>>
               ELSE Two(HaloIns(c, r, i)[d], in[<<d, 1>>], in[<<d, 2>>])
    <3>1. HaloIns(c, r, i)[d] =
            IF c.grid[d] = 1 THEN <<>>
            ELSE Irecv(Partner(c, r, d, -1), 1, <<"up", d>>, i, 0)
                   \o Irecv(Partner(c, r, d, 1), 1, <<"down", d>>, i, 0)
      BY DEF HaloIns
    <3>2. PICK a \in Int, b \in Int, y \in Labels, z \in Labels :
            /\ a = Partner(c, r, d, -1) /\ b = Partner(c, r, d, 1)
            /\ y = <<"up", d>> /\ z = <<"down", d>>
      BY <1>1
    <3>3. Two(Irecv(a, 1, y, i, 0) \o Irecv(b, 1, z, i, 0), in[<<d, 1>>], in[<<d, 2>>])
      <4>1. Two(Irecv(a, 1, y, i, 0) \o Irecv(b, 1, z, i, 0),
                Entry("irecv", a, 1, y, i, 0), Entry("irecv", b, 1, z, i, 0))
        BY <1>0, TwoIns
      <4>2. in[<<d, 1>>] = Entry("irecv", a, 1, y, i, 0)
            /\ in[<<d, 2>>] = Entry("irecv", b, 1, z, i, 0)
        BY <1>3, <3>2
      <4> QED BY <4>1, <4>2
    <3> QED BY <3>1, <3>2, <3>3
  <2>2. HaloIns(c, r, i) = [d \in 1 .. n |-> HaloIns(c, r, i)[d]]
    BY DEF HaloIns
  <2> QED BY <2>1, <2>2 DEF ByWays
<1>5. ByWays(HaloOuts(c, r, i), g, out)
  <2>1. ASSUME NEW d \in 1 .. n
        PROVE  IF g[d] = 1 THEN HaloOuts(c, r, i)[d] = <<>>
               ELSE Two(HaloOuts(c, r, i)[d], out[<<d, 1>>], out[<<d, 2>>])
    <3>1. HaloOuts(c, r, i)[d] =
            IF c.grid[d] = 1 THEN <<>>
            ELSE Isend(Partner(c, r, d, 1), 1, <<"up", d>>, i, 0)
                   \o Isend(Partner(c, r, d, -1), 1, <<"down", d>>, i, 0)
      BY DEF HaloOuts
    <3>2. PICK a \in Int, b \in Int, y \in Labels, z \in Labels :
            /\ a = Partner(c, r, d, 1) /\ b = Partner(c, r, d, -1)
            /\ y = <<"up", d>> /\ z = <<"down", d>>
      BY <1>1
    <3>3. Two(Isend(a, 1, y, i, 0) \o Isend(b, 1, z, i, 0), out[<<d, 1>>], out[<<d, 2>>])
      <4>1. Two(Isend(a, 1, y, i, 0) \o Isend(b, 1, z, i, 0),
                Entry("isend", a, 1, y, i, 0), Entry("isend", b, 1, z, i, 0))
        BY <1>0, TwoIns
      <4>2. out[<<d, 1>>] = Entry("isend", a, 1, y, i, 0)
            /\ out[<<d, 2>>] = Entry("isend", b, 1, z, i, 0)
        BY <1>3, <3>2
      <4> QED BY <4>1, <4>2
    <3> QED BY <3>1, <3>2, <3>3
  <2>2. HaloOuts(c, r, i) = [d \in 1 .. n |-> HaloOuts(c, r, i)[d]]
    BY DEF HaloOuts
  <2> QED BY <2>1, <2>2 DEF ByWays
<1>6. \A u \in (1 .. Len(g)) \X {1, 2} : in[u] \in OpSet /\ out[u] \in OpSet
  BY <1>2
<1>7. /\ Ones(X, Len(W), [k \in 1 .. Len(W) |-> in[W[k]]])
      /\ Ones(Y, Len(W), [k \in 1 .. Len(W) |-> out[W[k]]])
  <2> HIDE DEF g
  <2> QED BY <1>0, <1>4, <1>5, <1>6, FlatByWays
<1>8. m \in Nat /\ m = Len(W) /\ \A k \in 1 .. m : W[k] \in Q
  BY HaloAnswers DEF Many
<1>9. \A k \in 1 .. m : /\ to[k] = Forward(c, r, W[k]) /\ from[k] = Backward(c, r, W[k])
                        /\ x[k] = Sense(W[k])
  BY DEF HaloTo, HaloFrom, HaloSense
<1> HIDE DEF X, Y, W, Q, m, from, to, x
<1>10. /\ X \in Seq(OpSet) /\ Len(X) = m /\ \A k \in 1 .. m : X[k] = in[W[k]]
       /\ Y \in Seq(OpSet) /\ Len(Y) = m /\ \A k \in 1 .. m : Y[k] = out[W[k]]
  BY <1>7, <1>8 DEF Ones
<1>11. \A k \in 1 .. m : In(X[k], from[k], 1, x[k], i, 0)
  BY <1>2, <1>8, <1>9, <1>10
<1>12. \A k \in 1 .. m : Out(Y[k], to[k], 1, x[k], i, 0)
  BY <1>2, <1>8, <1>9, <1>10
<1>13. Batch(X \o Y \o Waitall(i, 1), m, from, to, x, x, 1, i)
  BY <1>8, <1>10, <1>11, <1>12, BatchJoin
<1> QED BY <1>13 DEF HaloBody, X, Y, m, from, to, x

(***************************************************************************)
(* HALO.                                                                   *)
(***************************************************************************)
LEMMA HaloProper ==
  ASSUME NEW c, KernelCall(c), c.kernel = "Halo"
  PROVE  Proper(c)
<1> DEFINE R == 0 .. c.np - 1
           P == Located(c)
           m == Many(c)
           V == R \X R \X {1}
           from == HaloFrom(c)
           to == HaloTo(c)
           x == HaloSense(c)
           s == Same(c)
           D == Around(R, P, m, to)
           n == c.warm + c.n
           B(r, i) == IF r < Places(c)[1] THEN HaloBody(c, r, i) ELSE <<>>
           G == [i \in 1 .. n |-> [r \in R |-> B(r, i)]]
<1>1. /\ c.np \in Nat \ {0} /\ R \subseteq Nat /\ 0 \in R /\ n \in Nat
  BY RanksAre
<1>2. c.grid \in Seq(Nat \ {0}) /\ Places(c)[1] <= c.np
  BY DEF KernelCall
<1>3. Places(c)[1] \in Nat \ {0}
  <2>1. 1 \in 1 .. Len(c.grid) + 1
    BY <1>2
  <2> QED BY <1>2, <2>1, PlacesIs
<1>4. /\ P \subseteq R /\ \A r \in R : r \in P <=> r < Places(c)[1]
  BY <1>1, <1>2, <1>3 DEF Located
<1>5. Answers(P, m, from, to, s, s, x, x) /\ m \in Nat
  BY <1>2, HaloAnswers
<1>6. Closed(c) => D # {}
  <2> HIDE DEF R, P, m, to
  <2>1. <<0, 0>> \in D
    BY <1>1 DEF Around
  <2> QED BY <2>1
<1>7. ASSUME NEW i \in 1 .. n PROVE Piece(R, V, D, G[i], 16 * i, 16 * i + 15)
  <2> DEFINE p == G[i]
  <2>1. p = [r \in R |-> B(r, i)] /\ i \in Nat
    BY <1>1
  <2>2. \A r \in P : Batch(p[r], m, from[r], to[r], x, x, 1, i)
    <3> SUFFICES ASSUME NEW r \in P PROVE Batch(p[r], m, from[r], to[r], x, x, 1, i)
      OBVIOUS
    <3>1. p[r] = HaloBody(c, r, i)
      BY <1>4, <2>1
    <3>2. Batch(HaloBody(c, r, i), m, from[r], to[r], x, x, 1, i)
      BY <1>2, <2>1, HaloBatch
    <3> HIDE DEF p
    <3> QED BY <3>1, <3>2
  <2>3. Idle(R, p, P)
    <3>1. \A r \in R : r \notin P => B(r, i) = <<>>
      BY <1>4
    <3> HIDE DEF B, p, R, P
    <3> QED BY <2>1, <3>1 DEF Idle
  <2>4. Named(V, P, 1, 1)
    <3>1. 1 \in {1} /\ {1} \subseteq Nat
      OBVIOUS
    <3> HIDE DEF R, P
    <3>2. Named(R \X R \X {1}, R, 1, 1)
      BY <1>1, <3>1, NamedSame
    <3> QED BY <1>4, <3>2 DEF Named
  <2> HIDE DEF p, from, to, x, s, R, P, V, D, m
  <2>5. Piece(R, V, D, p, 16 * i, 16 * i + 15)
    BY <1>4, <1>5, <2>1, <2>2, <2>3, <2>4, BatchBody DEF D
  <2> QED BY <2>5 DEF p
<1>8. ASSUME NEW r \in R PROVE OfRank(c, r) = FlattenSeq([i \in 1 .. n |-> G[i][r]])
  <2>1. OfRank(c, r) = Halo(c, r)
    BY DEF OfRank
  <2>2. \A i \in 1 .. n : G[i][r] = B(r, i)
    OBVIOUS
  <2>3. Halo(c, r) = IF r < Places(c)[1] THEN FlattenSeq([i \in 1 .. n |-> HaloBody(c, r, i)])
                     ELSE <<>>
    BY DEF Halo, Times, HaloBody, HaloIns, HaloOuts
  <2>4. CASE r < Places(c)[1]
    <3>1. \A i \in 1 .. n : G[i][r] = HaloBody(c, r, i)
      BY <2>2, <2>4
    <3> HIDE DEF G, B, n
    <3>2. [i \in 1 .. n |-> G[i][r]] = [i \in 1 .. n |-> HaloBody(c, r, i)]
      BY <3>1
    <3> QED BY <2>1, <2>3, <2>4, <3>2
  <2>5. CASE ~ (r < Places(c)[1])
    <3>1. \A i \in 1 .. n : G[i][r] = <<>>
      BY <2>2, <2>5
    <3> HIDE DEF G, B, n
    <3>2. [i \in 1 .. n |-> G[i][r]] = [i \in 1 .. n |-> <<>>]
      BY <3>1
    <3>3. FlattenSeq([i \in 1 .. n |-> G[i][r]]) = <<>>
      BY <1>1, <3>2, NothingTimes
    <3> QED BY <2>1, <2>3, <2>5, <3>3
  <2> QED BY <2>4, <2>5
<1> HIDE DEF G, V, D
<1> QED BY <1>1, <1>6, <1>7, <1>8, LoopProper

-----------------------------------------------------------------------------
(***************************************************************************)
(* The programs of all kernels are proper.                                 *)
(***************************************************************************)
LEMMA KernelsProper ==
  ASSUME NEW c, KernelCall(c)
  PROVE  Proper(c)
<1>1. \/ c.kernel = "PingPong" \/ c.kernel = "PingPing" \/ c.kernel = "Sendrecv"
      \/ c.kernel = "Exchange" \/ c.kernel = "Uniband" \/ c.kernel = "Biband"
      \/ c.kernel = "PingPongMT" \/ c.kernel = "PingPingMT" \/ c.kernel = "SendRecvMT"
      \/ c.kernel = "ExchangeMT" \/ c.kernel = "UniBandMT" \/ c.kernel = "BiBandMT"
      \/ c.kernel = "P2PPingPong" \/ c.kernel = "P2PPingPing" \/ c.kernel = "SendRecv_Replace"
      \/ c.kernel = "Unirandom" \/ c.kernel = "Birandom" \/ c.kernel = "Corandom"
      \/ c.kernel = "Stencil2D" \/ c.kernel = "Halo"
  BY DEF KernelCall, Mpi1Kernels, MtKernels, P2PKernels
<1>2. CASE c.kernel = "PingPong" \/ c.kernel = "PingPing" \/ c.kernel = "Sendrecv"
  BY <1>2, PingPongProper, PingPingProper, SendrecvProper
<1>3. CASE c.kernel = "Exchange" \/ c.kernel = "Uniband" \/ c.kernel = "Biband"
  BY <1>3, ExchangeProper, UnibandProper, BibandProper
<1>4. CASE c.kernel = "PingPongMT" \/ c.kernel = "PingPingMT" \/ c.kernel = "SendRecvMT"
  BY <1>4, MtPt2ptProper, MtIpt2ptProper, MtSendrecvProper
<1>5. CASE c.kernel = "ExchangeMT" \/ c.kernel = "UniBandMT" \/ c.kernel = "BiBandMT"
  BY <1>5, MtExchangeProper, MtUnibandProper, MtBibandProper
<1>6. CASE c.kernel = "P2PPingPong" \/ c.kernel = "P2PPingPing" \/ c.kernel = "SendRecv_Replace"
  BY <1>6, P2PPingPongProper, P2PPingPingProper, SendrecvReplaceProper
<1>7. CASE c.kernel = "Unirandom" \/ c.kernel = "Birandom" \/ c.kernel = "Corandom"
  BY <1>7, UnirandomProper, BirandomProper, CorandomProper
<1>8. CASE c.kernel = "Stencil2D" \/ c.kernel = "Halo"
  BY <1>8, Stencil2DProper, HaloProper
<1> QED BY <1>1, <1>2, <1>3, <1>4, <1>5, <1>6, <1>7, <1>8

(***************************************************************************)
(* The programs of all kernels are sound: mates are in the same order on   *)
(* both sides, there is a schedule, and what is called in an iteration is  *)
(* waited for in it.  They are paced: in an iteration there is a barrier,  *)
(* or waiting goes round the ranks.                                        *)
(***************************************************************************)
THEOREM KernelsSoundPaced ==
  ASSUME NEW c, KernelCall(c)
  PROVE  /\ Sound(Everywhere(c))
         /\ \E D : Paced(Everywhere(c), D) /\ (Closed(c) => D # {})
<1> DEFINE R == 0 .. c.np - 1
           p == Everywhere(c)
<1>1. PICK V, D : \E a \in {0, 16}, b \in Nat : Piece(R, V, D, p, a, b) /\ (Closed(c) => D # {})
  BY KernelsProper DEF Proper
<1>2. PICK a \in {0, 16}, b \in Nat : Piece(R, V, D, p, a, b) /\ (Closed(c) => D # {})
  BY <1>1
<1>3. a \in Nat
  OBVIOUS
<1> HIDE DEF p, R
<1>4. Sound(p)
  BY <1>2, <1>3, PieceSound
<1>5. Paced(p, D)
  BY <1>2, <1>3, PiecePaced
<1> QED BY <1>2, <1>4, <1>5 DEF p

(***************************************************************************)
(* The invariant with the call it is about.                                *)
(***************************************************************************)
CallInv ==
  /\ call \in Calls
  /\ program = Everywhere(call)
  /\ Inv

(***************************************************************************)
(* The invariant holds when a kernel is called.                            *)
(***************************************************************************)
LEMMA InitCall ==
  ASSUME Init
  PROVE  CallInv
<1>1. call \in DOMAIN Program /\ program = Program[call] /\ DOMAIN Program = Calls
  BY KernelAssumption DEF Init, Programs
<1>2. call \in Calls /\ program = Everywhere(call)
  BY <1>1, KernelAssumption DEF Programs
<1>3. \A c \in DOMAIN Program : Sound(Program[c])
  BY <1>1, KernelAssumption, KernelsSoundPaced DEF Programs
<1> QED BY <1>2, <1>3, InitInv DEF CallInv

(***************************************************************************)
(* Every step preserves it.                                                *)
(***************************************************************************)
LEMMA NextCall ==
  ASSUME CallInv, [Next]_vars
  PROVE  CallInv'
<1>1. call' = call /\ program' = program
  BY DEF Next, vars, IsendStep, IrecvStep, WaitStep, BarrierStep, Terminated
<1> QED BY <1>1, NextInv DEF CallInv

(***************************************************************************)
(* With it senders are in step.                                            *)
(***************************************************************************)
LEMMA InvInStep ==
  ASSUME CallInv
  PROVE  InStep
<1> SUFFICES ASSUME Closed(call), NEW s \in Rank, NEW x \in Called(s, {"isend"}), ~ SendMatched(x)
             PROVE  /\ ~ Finished(Op(x).peer)
                    /\ Op(x).iter - Op(Now(Op(x).peer)).iter < call.np
  BY DEF InStep
<1>1. KernelCall(call)
  BY KernelAssumption DEF CallInv
<1>2. PICK D : Paced(program, D) /\ D # {}
  BY <1>1, KernelsSoundPaced DEF CallInv
<1>3. Rank = 0 .. call.np - 1 /\ call.np \in Nat
  BY <1>1 DEF CallInv, Everywhere, Rank, KernelCall
<1>4. x \in OfKinds(program, {"isend"}) /\ Passed(x)
  BY CalledAre
<1> QED BY <1>2, <1>3, <1>4, NotFarAhead DEF CallInv

-----------------------------------------------------------------------------
(***************************************************************************)
(* All kernels, whatever their numbers of processes and iterations, their  *)
(* windows, strides, draws and grids: the types are right, so that no rank *)
(* sends to or receives from a rank that is not there.                     *)
(***************************************************************************)
THEOREM TypesCorrect == Spec => []TypeOK
<1>1. CallInv => TypeOK
  BY InvTypeOK DEF CallInv
<1> QED BY <1>1, InitCall, NextCall, PTL DEF Spec

(***************************************************************************)
(* A send meets its mate and no other receive, whether MPI buffers or not: *)
(* the invariant that the run checks.                                      *)
(***************************************************************************)
THEOREM MatesMeet == Spec => []IInv
<1>1. CallInv => IInv
  BY InvIInv DEF CallInv
<1> QED BY <1>1, InitCall, NextCall, PTL DEF Spec

(***************************************************************************)
(* Every receive gets the message it is meant to get.                      *)
(***************************************************************************)
THEOREM RightMessages == Spec => []RightMessage
<1>1. CallInv => RightMessage
  BY InvRightMessage DEF CallInv
<1> QED BY <1>1, InitCall, NextCall, PTL DEF Spec

(***************************************************************************)
(* The ranks never all wait for each other, even if MPI buffers nothing.   *)
(***************************************************************************)
THEOREM NoDeadlock == Spec => []NeverStuck
<1>1. CallInv => NeverStuck
  BY InvNeverStuck DEF CallInv
<1> QED BY <1>1, InitCall, NextCall, PTL DEF Spec

(***************************************************************************)
(* A rank in another iteration, or at the end, has waited for all requests *)
(* of the iterations before: the array of requests may be used again.      *)
(***************************************************************************)
THEOREM RequestsCompleteAlways == Spec => []RequestsComplete
<1>1. CallInv => RequestsComplete
  BY InvRequestsComplete DEF CallInv
<1> QED BY <1>1, InitCall, NextCall, PTL DEF Spec

(***************************************************************************)
(* No message is left pending by a kernel.                                 *)
(***************************************************************************)
THEOREM NothingPending == Spec => []NothingLeft
<1>1. CallInv => NothingLeft
  BY InvNothingLeft DEF CallInv
<1> QED BY <1>1, InitCall, NextCall, PTL DEF Spec

(***************************************************************************)
(* In a kernel whose waiting goes round, no sender is as many iterations   *)
(* ahead of the receiver of a message that is not received as there are    *)
(* processes: what MPI has to buffer is bounded.                           *)
(***************************************************************************)
THEOREM SendersInStep == Spec => []InStep
<1>1. CallInv => InStep
  BY InvInStep
<1> QED BY <1>1, InitCall, NextCall, PTL DEF Spec
=============================================================================
