-------------------------- MODULE IMBBarrier_proofs --------------------------
(***************************************************************************)
(* Proofs about IMB_Barrier, for every size of the communicator and every  *)
(* number of calls: the arithmetic of partners and masks, then one lemma   *)
(* for each action, then the theorems.                                     *)
(***************************************************************************)
EXTENDS IMBBarrier, TLAPS

(***************************************************************************)
(* The partners of a rank, without the modulo: at most one wrap around.    *)
(***************************************************************************)

LEMMA DstValue ==
  ASSUME NEW r \in Rank, NEW m \in 0 .. N-1
  PROVE  /\ Dst(r, m) = IF r + m < N THEN r + m ELSE r + m - N
         /\ Dst(r, m) \in Rank
BY NAssumption DEF Dst, Rank

(***************************************************************************)
(* The same for the partner received from.                                 *)
(***************************************************************************)
LEMMA SrcValue ==
  ASSUME NEW r \in Rank, NEW m \in 0 .. N-1
  PROVE  /\ Src(r, m) = IF r < m THEN r - m + N ELSE r - m
         /\ Src(r, m) \in Rank
BY NAssumption DEF Src, Rank

(***************************************************************************)
(* A rank receives in a round from the rank that sends to it.              *)
(***************************************************************************)
LEMMA SrcDst ==
  ASSUME NEW r \in Rank, NEW m \in 0 .. N-1
  PROVE  /\ Src(Dst(r, m), m) = r
         /\ Dst(Src(r, m), m) = r
<1>1. /\ Dst(r, m) = IF r + m < N THEN r + m ELSE r + m - N
      /\ Dst(r, m) \in Rank
  BY DstValue
<1>2. /\ Src(r, m) = IF r < m THEN r - m + N ELSE r - m
      /\ Src(r, m) \in Rank
  BY SrcValue
<1>3. Src(Dst(r, m), m) = IF Dst(r, m) < m THEN Dst(r, m) - m + N ELSE Dst(r, m) - m
  BY <1>1, SrcValue
<1>4. Dst(Src(r, m), m) = IF Src(r, m) + m < N THEN Src(r, m) + m ELSE Src(r, m) + m - N
  BY <1>2, DstValue
<1>5. r \in 0 .. N-1 /\ N \in Nat
  BY NAssumption DEF Rank
<1>6. Src(Dst(r, m), m) = r
  BY <1>1, <1>3, <1>5
<1>7. Dst(Src(r, m), m) = r
  BY <1>2, <1>4, <1>5
<1>. QED
  BY <1>6, <1>7

(***************************************************************************)
(* Distances to earlier ranks add up.                                      *)
(***************************************************************************)
LEMMA SrcCompose ==
  ASSUME NEW r \in Rank, NEW m \in 0 .. N-1, NEW j \in 0 .. N-1, m + j < N
  PROVE  Src(Src(r, m), j) = Src(r, m + j)
<1>1. /\ Src(r, m) = IF r < m THEN r - m + N ELSE r - m
      /\ Src(r, m) \in Rank
  BY SrcValue
<1>2. Src(Src(r, m), j) = IF Src(r, m) < j THEN Src(r, m) - j + N ELSE Src(r, m) - j
  BY <1>1, SrcValue
<1>3. m + j \in 0 .. N-1
  BY NAssumption
<1>4. Src(r, m + j) = IF r < m + j THEN r - (m + j) + N ELSE r - (m + j)
  BY <1>3, SrcValue
<1>5. r \in 0 .. N-1 /\ N \in Nat
  BY NAssumption DEF Rank
<1>. QED
  BY <1>1, <1>2, <1>4, <1>5

(***************************************************************************)
(* Every rank is some distance below N before r.                           *)
(***************************************************************************)
LEMMA SrcReachesAll ==
  ASSUME NEW r \in Rank, NEW q \in Rank
  PROVE  \E j \in 0 .. N-1 : q = Src(r, j)
<1>. DEFINE j == IF q <= r THEN r - q ELSE r - q + N
<1>1. r \in 0 .. N-1 /\ q \in 0 .. N-1 /\ N \in Nat
  BY NAssumption DEF Rank
<1>2. j \in 0 .. N-1
  BY <1>1
<1>3. Src(r, j) = IF r < j THEN r - j + N ELSE r - j
  <2>. HIDE DEF j
  <2>. QED  BY <1>2, SrcValue
<1>4. (IF r < j THEN r - j + N ELSE r - j) = q
  BY <1>1
<1>5. Src(r, j) = q
  BY <1>3, <1>4
<1>. QED
  BY <1>2, <1>5

(***************************************************************************)
(* The partners of two different rounds are different.                     *)
(***************************************************************************)
LEMMA DstInjective ==
  ASSUME NEW r \in Rank, NEW m \in 0 .. N-1, NEW k \in 0 .. N-1,
         Dst(r, m) = Dst(r, k)
  PROVE  m = k
<1>1. Dst(r, k) = IF r + k < N THEN r + k ELSE r + k - N
  BY DstValue
<1>2. Dst(r, m) = IF r + m < N THEN r + m ELSE r + m - N
  BY DstValue
<1>3. r \in 0 .. N-1 /\ N \in Nat
  BY NAssumption DEF Rank
<1>. QED
  BY <1>1, <1>2, <1>3

-----------------------------------------------------------------------------
(***************************************************************************)
(* The masks: between 1 and N - 1, with 1, closed under doubling below N,  *)
(* and least with that, so that half of one other than 1 is one, and there *)
(* is none between a mask and its double.                                  *)
(***************************************************************************)
LEMMA MasksRange == Masks \subseteq 1 .. N-1
BY DEF Masks

(***************************************************************************)
(* The first round has mask 1, when there is a round.                      *)
(***************************************************************************)
LEMMA OneIsMask ==
  ASSUME 1 < N
  PROVE  1 \in Masks
BY NAssumption DEF Masks, Closed

(***************************************************************************)
(* The next round has twice the mask.                                      *)
(***************************************************************************)
LEMMA DoubleIsMask ==
  ASSUME NEW m \in Masks, 2 * m < N
  PROVE  2 * m \in Masks
<1>1. m \in 1 .. N-1 /\ 2 * m \in 1 .. N-1
  BY NAssumption DEF Masks
<1>2. ASSUME NEW S \in SUBSET (1 .. N-1), Closed(S)
      PROVE  2 * m \in S
  <2>1. m \in S
    BY <1>2 DEF Masks
  <2>. QED
    BY <1>2, <2>1 DEF Closed
<1>. QED
  BY <1>1, <1>2 DEF Masks

(***************************************************************************)
(* The masks are the least closed set.                                     *)
(***************************************************************************)
LEMMA ClosedHoldsMasks ==
  ASSUME NEW S \in SUBSET (1 .. N-1), Closed(S)
  PROVE  Masks \subseteq S
BY DEF Masks

(***************************************************************************)
(* A mask other than 1 is twice another mask.                              *)
(***************************************************************************)
LEMMA HalfIsMask ==
  ASSUME NEW m \in Masks
  PROVE  m = 1 \/ \E k \in Masks : m = 2 * k
<1>. DEFINE S == {x \in Masks : x = 1 \/ \E k \in Masks : x = 2 * k}
<1>1. S \in SUBSET (1 .. N-1)
  BY MasksRange
<1>2. Closed(S)
  BY OneIsMask, DoubleIsMask DEF Closed
<1>3. Masks \subseteq S
  <2>. HIDE DEF S
  <2>. QED  BY <1>1, <1>2, ClosedHoldsMasks
<1>. QED
  BY <1>3

(***************************************************************************)
(* There is no mask strictly between a mask and its double.                *)
(***************************************************************************)
LEMMA MaskGap ==
  ASSUME NEW a \in Masks, NEW b \in Masks, a < b
  PROVE  2 * a <= b
<1>. DEFINE S == {y \in Masks : \A x \in Masks : x < y => 2 * x <= y}
<1>1. S \in SUBSET (1 .. N-1)
  BY MasksRange
<1>2. ASSUME NEW y \in S, 2 * y < N, NEW x \in Masks, x < 2 * y
      PROVE  2 * x <= 2 * y
  <2>1. x \in 1 .. N-1 /\ y \in 1 .. N-1
    BY MasksRange
  <2>2. CASE x = 1
    BY <2>1, <2>2
  <2>3. ASSUME NEW k \in Masks, x = 2 * k
        PROVE  2 * x <= 2 * y
    <3>1. k \in 1 .. N-1
      BY MasksRange
    <3>2. k < y
      BY <1>2, <2>1, <2>3, <3>1
    <3>. QED
      BY <2>1, <2>3, <3>1, <3>2
  <2>. QED
    BY <2>2, <2>3, HalfIsMask
<1>3. 1 < N => 1 \in S
  BY OneIsMask, MasksRange
<1>4. Closed(S)
  BY <1>2, <1>3, DoubleIsMask DEF Closed
<1>5. Masks \subseteq S
  <2>. HIDE DEF S
  <2>. QED  BY <1>1, <1>4, ClosedHoldsMasks
<1>. QED
  BY <1>5
-----------------------------------------------------------------------------
(***************************************************************************)
(* The invariant holds before the first call.                              *)
(***************************************************************************)
LEMMA InitIInv == Init => IInv
<1>. SUFFICES ASSUME Init PROVE IInv
  OBVIOUS
<1>. USE DEF Init
<1>1. Typed
  BY CallsAssumption DEF Typed, Sendrecv
<1>2. Called /\ RoundMasks /\ Heard
  BY DEF Called, RoundMasks, Heard
<1>3. \A r \in Rank, m \in Masks : Dst(r, m) \in Rank
  BY DstValue, MasksRange
<1>4. ChannelCounts /\ OnlyPartners
  BY <1>3 DEF ChannelCounts, OnlyPartners, Passed, Before
<1>5. BarrierSafety
  BY DEF BarrierSafety, Returned
<1>. QED
  BY <1>1, <1>2, <1>4, <1>5 DEF IInv

(***************************************************************************)
(* A call of IMB_Barrier: the counts of messages passed stay the same, as  *)
(* the call number goes up by one and no round of the new call is done.    *)
(***************************************************************************)
LEMMA EnterIInv ==
  ASSUME IInv, NEW r \in Rank, Enter(r)
  PROVE  IInv'
<1>. USE DEF Enter
<1>1. Typed'
  BY CallsAssumption DEF IInv, Typed
<1>2. Called'
  BY DEF IInv, Typed, Called
<1>3. RoundMasks'
  BY OneIsMask DEF IInv, Typed, RoundMasks
<1>4. \A q \in Rank, m \in Masks, h \in Sendrecv : Passed(q, m, h)' = Passed(q, m, h)
  <2>. SUFFICES ASSUME NEW q \in Rank, NEW m \in Masks, NEW h \in Sendrecv
                PROVE  Passed(q, m, h)' = Passed(q, m, h)
    OBVIOUS
  <2>1. m \in 1 .. N-1
    BY MasksRange
  <2>2. CASE q = r
    <3>1. /\ ~ inside[q] /\ inside'[q]
          /\ mask'[q] = 1 /\ todo'[q] = Sendrecv
          /\ calls'[q] = calls[q] + 1 /\ calls[q] \in Int
      BY <2>2 DEF IInv, Typed
    <3>2. Before(q, m, h)' /\ ~ Before(q, m, h)
      BY <3>1, <2>1 DEF Before
    <3>. QED
      BY <3>1, <3>2 DEF Passed
  <2>3. CASE q # r
    BY <2>3 DEF IInv, Typed, Passed, Before
  <2>. QED
    BY <2>2, <2>3
<1>5. ChannelCounts'
  <2>1. \A s \in Rank, m \in Masks : Dst(s, m) \in Rank
    BY DstValue, MasksRange
  <2>. QED
    BY <1>4, <2>1 DEF IInv, ChannelCounts, Sendrecv
<1>6. OnlyPartners'
  BY DEF IInv, OnlyPartners
<1>7. BarrierSafety'
  BY DEF IInv, Typed, BarrierSafety, Returned
<1>8. Heard'
  <2>. SUFFICES ASSUME NEW q \in Rank, inside'[q]
                PROVE  /\ HeardFrom(q, mask[q])'
                       /\ "recv" \notin todo'[q] => HeardFrom(q, 2 * mask[q])'
    BY DEF Heard
  <2>1. CASE q = r
    <3>1. mask'[q] = 1 /\ "recv" \in todo'[q]
      BY <2>1 DEF IInv, Typed, Sendrecv
    <3>2. Src(q, 0) = q
      <4>1. 0 \in 0 .. N-1
        BY NAssumption
      <4>2. Src(q, 0) = IF q < 0 THEN q - 0 + N ELSE q - 0
        BY <4>1, SrcValue
      <4>. QED
        BY <4>2 DEF Rank
    <3>3. HeardFrom(q, mask[q])'
      BY <3>1, <3>2 DEF IInv, Typed, HeardFrom
    <3>. QED
      BY <3>1, <3>3
  <2>2. CASE q # r
    <3>1. inside[q] /\ mask'[q] = mask[q] /\ todo'[q] = todo[q] /\ calls'[q] = calls[q]
      BY <2>2 DEF IInv, Typed
    <3>2. \A j \in 0 .. N-1 : calls'[Src(q, j)] >= calls[Src(q, j)]
      BY SrcValue DEF IInv, Typed
    <3>3. \A j \in 0 .. N-1 : calls'[Src(q, j)] \in Int /\ calls[Src(q, j)] \in Int
      BY SrcValue, <1>1 DEF IInv, Typed
    <3>4. calls[q] \in Int
      BY DEF IInv, Typed
    <3>. QED
      BY <3>1, <3>2, <3>3, <3>4 DEF IInv, Heard, HeardFrom
  <2>. QED
    BY <2>1, <2>2
<1>. QED
  BY <1>1, <1>2, <1>3, <1>5, <1>6, <1>7, <1>8 DEF IInv

(***************************************************************************)
(* Sending puts one message, of the current round, into one channel.       *)
(***************************************************************************)
LEMMA SendIInv ==
  ASSUME IInv, NEW r \in Rank, Send(r)
  PROVE  IInv'
<1>. USE DEF Send
<1>. DEFINE n == mask[r]
            d == Dst(r, n)
<1>1. n \in Masks /\ n \in 1 .. N-1 /\ d \in Rank
  BY DstValue, MasksRange DEF IInv, RoundMasks, InRound
<1>2. Typed'
  <2>1. channel[r][d] \in Nat
    BY <1>1 DEF IInv, Typed
  <2>2. channel' \in [Rank -> [Rank -> Nat]]
    BY <2>1, <1>1 DEF IInv, Typed
  <2>3. todo' \in [Rank -> SUBSET Sendrecv]
    BY DEF IInv, Typed
  <2>. QED
    BY <2>2, <2>3 DEF IInv, Typed
<1>3. Called' /\ RoundMasks' /\ BarrierSafety'
  BY DEF IInv, Called, RoundMasks, BarrierSafety, Returned
<1>4. Heard'
  BY DEF IInv, Typed, Heard, HeardFrom
<1>5. \A s, e \in Rank : (s # r \/ e # d) => channel'[s][e] = channel[s][e]
  BY <1>1 DEF IInv, Typed
<1>6. channel'[r][d] = channel[r][d] + 1
  BY <1>1 DEF IInv, Typed
<1>7. \A q \in Rank, m \in Masks : Passed(q, m, "recv")' = Passed(q, m, "recv")
  BY DEF IInv, Typed, Passed, Before
<1>8. \A q \in Rank, m \in Masks : (q # r \/ m # n) => Passed(q, m, "send")' = Passed(q, m, "send")
  BY DEF IInv, Typed, Passed, Before
<1>9. ASSUME NEW m \in Masks, m = n
      PROVE  Passed(r, m, "send")' = Passed(r, m, "send") + 1
  <2>1. Before(r, m, "send") /\ ~ Before(r, m, "send")'
    BY <1>1, <1>9 DEF IInv, Typed, Before, InRound
  <2>2. calls'[r] = calls[r] /\ calls[r] \in Int
    BY DEF IInv, Typed
  <2>. QED
    BY <2>1, <2>2 DEF Passed
<1>10. ChannelCounts'
  <2>. SUFFICES ASSUME NEW s \in Rank, NEW m \in Masks
                PROVE  channel'[s][Dst(s, m)] =
                         Passed(s, m, "send")' - Passed(Dst(s, m), m, "recv")'
    BY DEF ChannelCounts
  <2>1. m \in 0 .. N-1 /\ Dst(s, m) \in Rank
    BY MasksRange, DstValue
  <2>2. channel[s][Dst(s, m)] = Passed(s, m, "send") - Passed(Dst(s, m), m, "recv")
    BY DEF IInv, ChannelCounts
  <2>3. Passed(s, m, "send") \in Int /\ Passed(Dst(s, m), m, "recv") \in Int
    BY <2>1 DEF IInv, Typed, Passed
  <2>4. CASE s = r /\ m = n
    <3>. HIDE DEF n, d
    <3>1. channel'[s][Dst(s, m)] = channel[s][Dst(s, m)] + 1
      BY <1>6, <2>4 DEF d
    <3>2. Passed(s, m, "send")' = Passed(s, m, "send") + 1
      BY <1>9, <2>4
    <3>3. Passed(Dst(s, m), m, "recv")' = Passed(Dst(s, m), m, "recv")
      BY <1>7, <2>1
    <3>. QED
      BY <3>1, <3>2, <3>3, <2>2, <2>3
  <2>5. CASE s # r \/ m # n
    <3>1. s # r \/ Dst(s, m) # d
      BY <2>5, <2>1, <1>1, DstInjective
    <3>2. channel'[s][Dst(s, m)] = channel[s][Dst(s, m)]
      BY <3>1, <1>5, <2>1
    <3>. QED
      BY <3>2, <2>5, <1>7, <1>8, <2>1, <2>2
  <2>. QED
    BY <2>4, <2>5
<1>11. OnlyPartners'
  <2>. SUFFICES ASSUME NEW s \in Rank, NEW e \in Rank, \A m \in Masks : e # Dst(s, m)
                PROVE  channel'[s][e] = 0
    BY DEF OnlyPartners
  <2>1. s # r \/ e # d
    BY <1>1
  <2>. QED
    BY <2>1, <1>5 DEF IInv, OnlyPartners
<1>. QED
  BY <1>2, <1>3, <1>4, <1>10, <1>11 DEF IInv

(***************************************************************************)
(* The message received in a round is the one its sender sent in the same  *)
(* call: what the sender had heard of then, the receiver hears of now.     *)
(***************************************************************************)
LEMMA RecvHears ==
  ASSUME IInv, NEW r \in Rank, Recv(r)
  PROVE  HeardFrom(r, 2 * mask[r])
<1>. USE DEF Recv
<1>. DEFINE n == mask[r]
            s == Src(r, n)
<1>1. n \in Masks /\ n \in 1 .. N-1 /\ s \in Rank
  BY SrcValue, MasksRange DEF IInv, RoundMasks, InRound
<1>2. Dst(s, n) = r
  BY <1>1, SrcDst
<1>3. channel[s][r] = Passed(s, n, "send") - Passed(r, n, "recv")
  BY <1>1, <1>2 DEF IInv, ChannelCounts
<1>4. Passed(r, n, "recv") = calls[r] - 1
  BY <1>1 DEF Passed, Before, InRound, IInv, Typed
<1>5. /\ calls[r] \in Int /\ calls[s] \in Int /\ Passed(s, n, "send") \in Int
      /\ mask[s] \in Nat
  BY <1>1 DEF IInv, Typed, Passed
<1>6. Passed(s, n, "send") >= calls[r]
  BY <1>3, <1>4, <1>5
<1>7. \A j \in 0 .. N-1 : j < n => calls[Src(s, j)] >= calls[r]
  <2>. SUFFICES ASSUME NEW j \in 0 .. N-1, j < n
                PROVE  calls[Src(s, j)] >= calls[r]
    OBVIOUS
  <2>1. Src(s, j) \in Rank /\ calls[Src(s, j)] \in Int
    BY <1>1, SrcValue DEF IInv, Typed
  <2>2. CASE Returned(s) >= calls[r]
    <3>1. calls[Src(s, j)] >= Returned(s) /\ Returned(s) \in Int
      BY <1>1, <1>5, <2>1 DEF IInv, BarrierSafety, Returned
    <3>. QED
      BY <2>1, <2>2, <3>1, <1>5
  <2>3. CASE ~ (Returned(s) >= calls[r])
    <3>1. inside[s] /\ calls[s] = calls[r] /\ ~ Before(s, n, "send")
      BY <1>5, <1>6, <2>3 DEF Passed, Returned
    <3>2. mask[s] >= n
      BY <3>1, <1>1, <1>5 DEF Before
    <3>3. HeardFrom(s, mask[s])
      BY <3>1, <1>1 DEF IInv, Heard
    <3>4. j < mask[s]
      BY <3>2, <1>1, <1>5
    <3>. QED
      BY <3>1, <3>3, <3>4 DEF HeardFrom
  <2>. QED
    BY <2>2, <2>3
<1>8. HeardFrom(r, n)
  BY DEF IInv, Heard, InRound
<1>. SUFFICES ASSUME NEW j \in 0 .. N-1, j < 2 * n
              PROVE  calls[Src(r, j)] >= calls[r]
  BY DEF HeardFrom
<1>9. CASE j < n
  BY <1>8, <1>9 DEF HeardFrom
<1>10. CASE ~ (j < n)
  <2>1. PICK k \in 0 .. N-1 : k < n /\ n + k = j
    <3>. HIDE DEF n
    <3>1. j - n \in 0 .. N-1 /\ j - n < n /\ n + (j - n) = j
      BY <1>1, <1>10, NAssumption
    <3>. QED  BY <3>1
  <2>2. Src(s, k) = Src(r, j)
    <3>. HIDE DEF n
    <3>1. n \in 0 .. N-1 /\ n + k < N
      BY <1>1, <2>1, NAssumption
    <3>2. Src(Src(r, n), k) = Src(r, n + k)
      BY <3>1, SrcCompose
    <3>. QED
      BY <3>2, <2>1
  <2>. QED
    BY <1>7, <2>1, <2>2
<1>. QED
  BY <1>9, <1>10

(***************************************************************************)
(* Receiving takes it out, and the receiver has heard of more ranks.       *)
(***************************************************************************)
LEMMA RecvIInv ==
  ASSUME IInv, NEW r \in Rank, Recv(r)
  PROVE  IInv'
<1>. USE DEF Recv
<1>. DEFINE n == mask[r]
            s == Src(r, n)
<1>1. n \in Masks /\ n \in 1 .. N-1 /\ s \in Rank
  BY SrcValue, MasksRange DEF IInv, RoundMasks, InRound
<1>2. Typed'
  <2>1. channel[s][r] \in Nat
    BY <1>1 DEF IInv, Typed
  <2>2. channel' \in [Rank -> [Rank -> Nat]]
    BY <2>1, <1>1 DEF IInv, Typed
  <2>3. todo' \in [Rank -> SUBSET Sendrecv]
    BY DEF IInv, Typed
  <2>. QED
    BY <2>2, <2>3 DEF IInv, Typed
<1>3. Called' /\ RoundMasks' /\ BarrierSafety'
  BY DEF IInv, Called, RoundMasks, BarrierSafety, Returned
<1>4. Heard'
  <2>1. \A q \in Rank : q # r => todo'[q] = todo[q]
    BY DEF IInv, Typed
  <2>. QED
    BY <2>1, RecvHears DEF IInv, Heard, HeardFrom
<1>5. \A q, e \in Rank : (q # s \/ e # r) => channel'[q][e] = channel[q][e]
  BY <1>1 DEF IInv, Typed
<1>6. channel'[s][r] = channel[s][r] - 1
  BY <1>1 DEF IInv, Typed
<1>7. \A q \in Rank, m \in Masks : Passed(q, m, "send")' = Passed(q, m, "send")
  BY DEF IInv, Typed, Passed, Before
<1>8. \A q \in Rank, m \in Masks : (q # r \/ m # n) => Passed(q, m, "recv")' = Passed(q, m, "recv")
  BY DEF IInv, Typed, Passed, Before
<1>9. ASSUME NEW m \in Masks, m = n
      PROVE  Passed(r, m, "recv")' = Passed(r, m, "recv") + 1
  <2>1. Before(r, m, "recv") /\ ~ Before(r, m, "recv")'
    BY <1>1, <1>9 DEF IInv, Typed, Before, InRound
  <2>2. calls'[r] = calls[r] /\ calls[r] \in Int
    BY DEF IInv, Typed
  <2>. QED
    BY <2>1, <2>2 DEF Passed
<1>10. ChannelCounts'
  <2>. SUFFICES ASSUME NEW q \in Rank, NEW m \in Masks
                PROVE  channel'[q][Dst(q, m)] =
                         Passed(q, m, "send")' - Passed(Dst(q, m), m, "recv")'
    BY DEF ChannelCounts
  <2>1. m \in 0 .. N-1 /\ Dst(q, m) \in Rank
    BY MasksRange, DstValue
  <2>2. channel[q][Dst(q, m)] = Passed(q, m, "send") - Passed(Dst(q, m), m, "recv")
    BY DEF IInv, ChannelCounts
  <2>3. Passed(q, m, "send") \in Int /\ Passed(Dst(q, m), m, "recv") \in Int
    BY <2>1 DEF IInv, Typed, Passed
  <2>4. Passed(q, m, "send")' = Passed(q, m, "send")
    BY <1>7
  <2>5. CASE Dst(q, m) = r /\ m = n
    <3>1. q = s
      BY <2>1, <2>5, SrcDst
    <3>2. channel'[q][Dst(q, m)] = channel[q][Dst(q, m)] - 1
      BY <1>6, <2>5, <3>1
    <3>3. Passed(Dst(q, m), m, "recv")' = Passed(Dst(q, m), m, "recv") + 1
      BY <1>9, <2>5
    <3>. QED
      BY <3>2, <3>3, <2>2, <2>3, <2>4
  <2>6. CASE ~ (Dst(q, m) = r /\ m = n)
    <3>1. q # s \/ Dst(q, m) # r
      <4>. SUFFICES ASSUME q = s, Dst(q, m) = r PROVE FALSE
        OBVIOUS
      <4>1. Dst(q, n) = r
        BY <1>1, SrcDst
      <4>2. m = n
        <5>. HIDE DEF n
        <5>. QED  BY <4>1, <2>1, <1>1, DstInjective
      <4>. QED
        BY <4>2, <2>6
    <3>2. channel'[q][Dst(q, m)] = channel[q][Dst(q, m)]
      BY <3>1, <1>5, <2>1
    <3>3. Passed(Dst(q, m), m, "recv")' = Passed(Dst(q, m), m, "recv")
      BY <2>6, <1>8, <2>1
    <3>. QED
      BY <3>2, <3>3, <2>2, <2>4
  <2>. QED
    BY <2>5, <2>6
<1>11. OnlyPartners'
  <2>. SUFFICES ASSUME NEW q \in Rank, NEW e \in Rank, \A m \in Masks : e # Dst(q, m)
                PROVE  channel'[q][e] = 0
    BY DEF OnlyPartners
  <2>1. q # s \/ e # r
    BY <1>1, SrcDst
  <2>. QED
    BY <2>1, <1>5 DEF IInv, OnlyPartners
<1>. QED
  BY <1>2, <1>3, <1>4, <1>10, <1>11 DEF IInv

(***************************************************************************)
(* A new round: what was heard in the last one is kept by its mask.        *)
(***************************************************************************)
LEMMA NextRoundIInv ==
  ASSUME IInv, NEW r \in Rank, NextRound(r)
  PROVE  IInv'
<1>. USE DEF NextRound, NextMask
<1>. DEFINE n == mask[r]
<1>1. n \in Masks /\ n \in 1 .. N-1
  BY MasksRange DEF IInv, RoundMasks, InRound
<1>2. Typed'
  BY DEF IInv, Typed
<1>3. Called' /\ BarrierSafety' /\ OnlyPartners'
  BY DEF IInv, Called, BarrierSafety, Returned, OnlyPartners
<1>4. mask'[r] = 2 * n /\ todo'[r] = Sendrecv
  BY DEF IInv, Typed
<1>5. \A q \in Rank : q # r => mask'[q] = mask[q] /\ todo'[q] = todo[q]
  BY DEF IInv, Typed
<1>6. RoundMasks'
  BY <1>1, <1>4, <1>5, DoubleIsMask DEF IInv, RoundMasks
<1>7. Heard'
  <2>1. HeardFrom(r, 2 * n)
    BY DEF IInv, Heard, InRound
  <2>. QED
    BY <2>1, <1>4, <1>5 DEF IInv, Heard, HeardFrom, Sendrecv
<1>8. ASSUME NEW q \in Rank, NEW m \in Masks, NEW h \in Sendrecv
      PROVE  Before(q, m, h)' <=> Before(q, m, h)
  <2>1. m \in 1 .. N-1
    BY MasksRange
  <2>2. CASE q = r
    <3>1. Before(r, m, h) <=> n < m
      BY <1>1, <2>1 DEF Before, InRound
    <3>2. Before(r, m, h)' <=> 2 * n <= m
      <4>1. inside'[r] /\ h \in todo'[r]
        BY <1>4, <1>8 DEF InRound
      <4>2. Before(r, m, h)' <=> (mask'[r] < m \/ mask'[r] = m)
        BY <4>1 DEF Before
      <4>. QED
        BY <4>2, <1>1, <1>4, <2>1
    <3>3. n < m => 2 * n <= m
      BY <1>1, MaskGap
    <3>4. 2 * n <= m => n < m
      BY <1>1, <2>1
    <3>. QED
      BY <2>2, <3>1, <3>2, <3>3, <3>4
  <2>3. CASE q # r
    BY <1>5, <2>3 DEF Before
  <2>. QED
    BY <2>2, <2>3
<1>9. ChannelCounts'
  <2>1. \A q \in Rank, m \in Masks, h \in Sendrecv : Passed(q, m, h)' = Passed(q, m, h)
    BY <1>8 DEF Passed
  <2>2. \A q \in Rank, m \in Masks : Dst(q, m) \in Rank
    BY DstValue, MasksRange
  <2>. QED
    BY <2>1, <2>2 DEF IInv, ChannelCounts, Sendrecv
<1>. QED
  BY <1>2, <1>3, <1>6, <1>7, <1>9 DEF IInv

(***************************************************************************)
(* A rank that has done all its rounds has heard from every rank.          *)
(***************************************************************************)
LEMMA LeaveHeard ==
  ASSUME IInv, NEW r \in Rank, Leave(r)
  PROVE  \A q \in Rank : calls[q] >= calls[r]
<1>. USE DEF Leave
<1>. TAKE q \in Rank
<1>1. PICK j \in 0 .. N-1 : q = Src(r, j)
  BY SrcReachesAll
<1>2. mask[r] >= N /\ mask[r] \in Nat
  BY NAssumption DEF IInv, Typed, InRound
<1>3. j < mask[r]
  BY <1>2, NAssumption
<1>4. HeardFrom(r, mask[r])
  BY DEF IInv, Heard
<1>. QED
  BY <1>1, <1>3, <1>4 DEF HeardFrom

(***************************************************************************)
(* Returning: BarrierSafety, from what the rank has heard.                 *)
(***************************************************************************)
LEMMA LeaveIInv ==
  ASSUME IInv, NEW r \in Rank, Leave(r)
  PROVE  IInv'
<1>. USE DEF Leave
<1>1. Typed'
  BY DEF IInv, Typed
<1>2. Called' /\ RoundMasks' /\ OnlyPartners' /\ Heard'
  BY DEF IInv, Typed, Called, RoundMasks, OnlyPartners, Heard, HeardFrom
<1>3. \A q \in Rank : calls[q] >= calls[r]
  BY LeaveHeard
<1>4. BarrierSafety'
  BY <1>3 DEF IInv, Typed, BarrierSafety, Returned
<1>5. ASSUME NEW q \in Rank, NEW m \in Masks, NEW h \in Sendrecv
      PROVE  Passed(q, m, h)' = Passed(q, m, h)
  <2>1. CASE q = r
    <3>1. m < N /\ m \in Nat /\ mask[r] >= N /\ mask[r] \in Nat
      BY MasksRange, NAssumption DEF IInv, Typed, InRound
    <3>2. ~ Before(r, m, h) /\ ~ Before(r, m, h)'
      BY <3>1, NAssumption DEF IInv, Typed, Before
    <3>. QED
      BY <2>1, <3>2 DEF Passed
  <2>2. CASE q # r
    BY <2>2 DEF IInv, Typed, Passed, Before
  <2>. QED
    BY <2>1, <2>2
<1>6. ChannelCounts'
  <2>1. \A q \in Rank, m \in Masks : Dst(q, m) \in Rank
    BY DstValue, MasksRange
  <2>. QED
    BY <1>5, <2>1 DEF IInv, ChannelCounts, Sendrecv
<1>. QED
  BY <1>1, <1>2, <1>4, <1>6 DEF IInv

(***************************************************************************)
(* Every step preserves the invariant.                                     *)
(***************************************************************************)
LEMMA NextIInv == IInv /\ [Next]_vars => IInv'
<1>. SUFFICES ASSUME IInv, [Next]_vars PROVE IInv'
  OBVIOUS
<1>1. ASSUME NEW r \in Rank, RankNext(r) PROVE IInv'
  BY <1>1, EnterIInv, SendIInv, RecvIInv, NextRoundIInv, LeaveIInv DEF RankNext
<1>2. CASE UNCHANGED vars
  BY <1>2 DEF vars, IInv, Typed, Called, RoundMasks, ChannelCounts, OnlyPartners,
       Heard, HeardFrom, BarrierSafety, Returned, Passed, Before
<1>. QED
  BY <1>1, <1>2 DEF Next, Terminated

(***************************************************************************)
(* The inductive invariant holds for every size of the communicator.       *)
(***************************************************************************)
THEOREM Inductive == Spec => []IInv
<1>. QED
  BY InitIInv, NextIInv, PTL DEF Spec
-----------------------------------------------------------------------------
(***************************************************************************)
(* The invariant bounds the messages in flight of a pair by two.           *)
(***************************************************************************)
LEMMA IInvTypeOK == IInv => TypeOK
<1>. SUFFICES ASSUME IInv PROVE TypeOK
  OBVIOUS
<1>1. ASSUME NEW s \in Rank, NEW d \in Rank
      PROVE  channel[s][d] \in 0 .. 2
  <2>1. CASE \A m \in Masks : d # Dst(s, m)
    BY <1>1, <2>1 DEF IInv, OnlyPartners
  <2>2. ASSUME NEW m \in Masks, d = Dst(s, m)
        PROVE  channel[s][d] \in 0 .. 2
    <3>1. channel[s][d] \in Nat
      BY <1>1 DEF IInv, Typed
    <3>2. channel[s][d] = Passed(s, m, "send") - Passed(d, m, "recv")
      BY <1>1, <2>2 DEF IInv, ChannelCounts
    <3>3. calls[d] >= Returned(s) /\ calls[s] \in Int /\ calls[d] \in Int
      BY <1>1 DEF IInv, Typed, BarrierSafety
    <3>4. Passed(s, m, "send") \in {calls[s], calls[s] - 1}
      BY DEF Passed
    <3>5. Passed(d, m, "recv") \in {calls[d], calls[d] - 1}
      BY DEF Passed
    <3>6. Returned(s) \in {calls[s], calls[s] - 1}
      BY DEF Returned
    <3>. QED
      BY <3>1, <3>2, <3>3, <3>4, <3>5, <3>6
  <2>. QED
    BY <2>1, <2>2
<1>2. channel \in [Rank -> [Rank -> 0 .. 2]]
  BY <1>1 DEF IInv, Typed
<1>. QED
  BY <1>2 DEF IInv, Typed, TypeOK

(***************************************************************************)
(* Type correctness, with the bound of two messages in flight between two  *)
(* ranks, for every number of ranks and of calls.                          *)
(***************************************************************************)
THEOREM TypeCorrect == Spec => []TypeOK
BY Inductive, IInvTypeOK, PTL

(***************************************************************************)
(* IMB_Barrier is a barrier: no rank is through its k-th call before all   *)
(* ranks have begun theirs.                                                *)
(***************************************************************************)
THEOREM Safety == Spec => []BarrierSafety
<1>1. IInv => BarrierSafety
  BY DEF IInv
<1>. QED
  BY <1>1, Inductive, PTL

(***************************************************************************)
(* No barrier message survives the last call.                              *)
(***************************************************************************)
THEOREM Drained == Spec => []NothingLeft
<1>1. ASSUME IInv PROVE NothingLeft
  <2>. SUFFICES ASSUME Done, NEW s \in Rank, NEW d \in Rank
                PROVE  channel[s][d] = 0
    BY DEF NothingLeft
  <2>1. CASE \A m \in Masks : d # Dst(s, m)
    BY <1>1, <2>1 DEF IInv, OnlyPartners
  <2>2. ASSUME NEW m \in Masks, d = Dst(s, m)
        PROVE  channel[s][d] = 0
    <3>1. channel[s][d] = Passed(s, m, "send") - Passed(d, m, "recv")
      BY <1>1, <2>2 DEF IInv, ChannelCounts
    <3>2. Passed(s, m, "send") = Episodes /\ Passed(d, m, "recv") = Episodes
      BY DEF Done, Passed, Before
    <3>. QED
      BY <3>1, <3>2, CallsAssumption
  <2>. QED
    BY <2>1, <2>2
<1>. QED
  BY <1>1, Inductive, PTL

(***************************************************************************)
(* Every behaviour of IMB_Barrier is one of the abstract barrier: a call   *)
(* is its Enter, a return its Leave, and the messages are internal.        *)
(***************************************************************************)
THEOREM Refinement == Spec => ImplementsBarrier
<1>1. Init => Abstract!Init
  BY DEF Init, Abstract!Init, Returned
<1>2. IInv /\ [Next]_vars => [Abstract!Next]_(Abstract!vars)
  <2>. SUFFICES ASSUME IInv, [Next]_vars
                PROVE  [Abstract!Next]_(Abstract!vars)
    OBVIOUS
  <2>. USE DEF Abstract!vars
  <2>1. ASSUME NEW r \in Rank, Enter(r)
        PROVE  Abstract!Next
    <3>1. \A q \in Rank : Returned(q)' = Returned(q)
      BY <2>1 DEF Enter, IInv, Typed, Returned
    <3>2. calls[r] = Returned(r)
      BY <2>1 DEF Enter, Returned
    <3>3. Abstract!Enter(r)
      BY <2>1, <3>1, <3>2 DEF Enter, Abstract!Enter
    <3>. QED
      BY <3>3 DEF Abstract!Next
  <2>2. ASSUME NEW r \in Rank, Leave(r)
        PROVE  Abstract!Next
    <3>1. Returned(r)' = Returned(r) + 1 /\ Returned(r) < calls[r]
      BY <2>2 DEF Leave, IInv, Typed, Returned
    <3>2. \A q \in Rank : q # r => Returned(q)' = Returned(q)
      BY <2>2 DEF Leave, IInv, Typed, Returned
    <3>3. \A q \in Rank : calls[q] >= calls[r]
      BY <2>2, LeaveHeard
    <3>4. Abstract!Leave(r)
      BY <2>2, <3>1, <3>2, <3>3 DEF Leave, Abstract!Leave
    <3>. QED
      BY <3>4 DEF Abstract!Next
  <2>3. ASSUME NEW r \in Rank, Send(r) \/ Recv(r) \/ NextRound(r)
        PROVE  UNCHANGED Abstract!vars
    BY <2>3 DEF Send, Recv, NextRound, Returned
  <2>4. CASE UNCHANGED vars
    BY <2>4 DEF vars, Returned
  <2>. QED
    BY <2>1, <2>2, <2>3, <2>4 DEF Next, RankNext, Terminated
<1>. QED
  BY <1>1, <1>2, Inductive, PTL DEF Spec, ImplementsBarrier, Abstract!Spec
=============================================================================
