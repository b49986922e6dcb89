--------------------------- MODULE BenchRun_proofs ---------------------------
(***************************************************************************)
(* Proofs about the run of a benchmark, for every size of the world, every *)
(* scope, with and without -multi, warm-up runs, time-outs and items that  *)
(* exceed the memory.                                                      *)
(***************************************************************************)
EXTENDS BenchRun, TLAPS, SequenceTheorems

(***************************************************************************)
(* An item of the scope belongs to one of its stages, which has some of    *)
(* the world's ranks.                                                      *)
(***************************************************************************)
LEMMA StageRange ==
  ASSUME NEW i \in 1 .. NItems
  PROVE  StageOf(i) \in 1 .. Len(Stages) /\ Stages[StageOf(i)] \in 1 .. W
<1>. DEFINE d == (i - 1) \div NLens
<1>1. Len(Stages) \in Nat /\ NLens \in Nat \ {0} /\ i \in 1 .. Len(Stages) * NLens
  BY ScopeAssumption DEF NItems
<1>2. d \in Nat /\ d * NLens <= i - 1
  BY <1>1
<1>3. d < Len(Stages)
  <2>. HIDE DEF d
  <2>1. CASE d >= Len(Stages)
    <3>1. d * NLens >= Len(Stages) * NLens
      BY <1>1, <1>2, <2>1
    <3>. QED  BY <1>1, <1>2, <3>1
  <2>. QED  BY <1>1, <1>2, <2>1
<1>4. StageOf(i) \in 1 .. Len(Stages)
  BY <1>1, <1>2, <1>3 DEF StageOf
<1>5. Stages \in Seq(1 .. W)
  BY ScopeAssumption
<1>. QED
  BY <1>4, <1>5, ElementOfSeq

(***************************************************************************)
(* Rank 0 is active in every stage.                                        *)
(***************************************************************************)
LEMMA RankZero ==
  /\ 0 \in World
  /\ \A s \in 1 .. Len(Stages) : Active(s, 0)
<1>1. 0 \in World /\ W \in Nat \ {0}
  BY WAssumption DEF World
<1>2. ASSUME NEW s \in 1 .. Len(Stages)
      PROVE  Active(s, 0)
  <2>1. Stages[s] \in 1 .. W
    BY ScopeAssumption, ElementOfSeq
  <2>2. 0 \div Stages[s] = 0
    BY <2>1
  <2>3. W \div Stages[s] >= 1
    BY <1>1, <2>1
  <2>4. W \div Stages[s] \in Int
    BY <1>1, <2>1
  <2>. QED
    BY <1>1, <2>1, <2>2, <2>3, <2>4 DEF Active
<1>. QED
  BY <1>1, <1>2

(***************************************************************************)
(* The number of items.                                                    *)
(***************************************************************************)
LEMMA NItemsNat == NItems \in Nat
BY ScopeAssumption DEF NItems

(***************************************************************************)
(* MPI communicators are made of ranks of the world.                       *)
(***************************************************************************)
LEMMA RanksOfWorld ==
  ASSUME NEW r \in World
  PROVE  KernelRanks(r) \subseteq World /\ Peers(stage[r], r) \subseteq World
BY DEF KernelRanks, Peers

-----------------------------------------------------------------------------
(***************************************************************************)
(* Outside TypeOK the invariant sees of a rank which of these it is in:    *)
(* "item", the rest of Before, Measuring, "barrier", "gather".  A step     *)
(* that changes nothing else than places in one of them preserves it.      *)
(***************************************************************************)
LEMMA QuietStep ==
  ASSUME IInv, TypeOK', UNCHANGED <<item, stage, stop, time, sent, rows>>,
         \A r \in World : pc'[r] # pc[r] =>
           /\ ~ stop[r] /\ item[r] <= NItems /\ stage[r] = StageOf(item[r])
           /\ \/ pc[r] \in Before /\ pc'[r] \in Before \ {"item"}
              \/ pc[r] \in Measuring /\ pc'[r] \in Measuring \ {"barrier"}
  PROVE  IInv'
<1>1. Together'
  BY DEF IInv, Together, Before, Measuring
<1>2. StoppedAhead'
  <2>1. ASSUME NEW r \in World, NEW q \in World, stop[r], ~ stop[q]
        PROVE  pc'[q] = pc[q]
    <3>1. /\ pc[q] \in {"item", "gather"}
          /\ Upcoming(q) <= NItems
          /\ Stages[StageOf(Upcoming(q))] \notin ValidNP
      BY <2>1 DEF IInv, StoppedAhead
    <3>2. SUFFICES ASSUME pc'[q] # pc[q] PROVE FALSE
      OBVIOUS
    <3>3. pc[q] = "item" /\ Upcoming(q) = item[q]
      BY <3>1, <3>2 DEF Before, Measuring, Upcoming
    <3>4. stage[q] = StageOf(item[q]) /\ item[q] \in 1 .. NItems
      BY <3>2, NItemsNat DEF IInv, TypeOK
    <3>5. stage[q] # 0
      BY <3>4, StageRange
    <3>6. Stages[stage[q]] \in ValidNP
      BY <2>1, <3>5 DEF IInv, InStage
    <3>. QED
      BY <3>1, <3>3, <3>4, <3>6
  <2>2. ASSUME NEW q \in World, pc'[q] = pc[q]
        PROVE  Upcoming(q)' = Upcoming(q)
    BY <2>2 DEF Upcoming
  <2>. QED
    BY <2>1, <2>2 DEF IInv, StoppedAhead
<1>3. InStage'
  BY DEF IInv, InStage
<1>4. GatherOfItem'
  BY RankZero DEF IInv, GatherOfItem, Before, Measuring
<1>5. RowsSoFar'
  BY RankZero DEF IInv, RowsSoFar, Outcome, Before, Measuring
<1>. QED
  BY <1>1, <1>2, <1>3, <1>4, <1>5 DEF IInv

(***************************************************************************)
(* A rank goes on with the buffers of its item.                            *)
(***************************************************************************)
LEMMA BeginItemInv ==
  ASSUME IInv, NEW r \in World, BeginItem(r)
  PROVE  IInv'
<1>1. TypeOK'
  BY DEF IInv, TypeOK, BeginItem, Go, At, InGroup
<1>2. ASSUME NEW q \in World, pc'[q] # pc[q]
      PROVE  /\ q = r /\ ~ stop[q] /\ item[q] <= NItems /\ stage[q] = StageOf(item[q])
             /\ pc[q] = "item" /\ pc'[q] = "buffers"
  BY <1>2 DEF IInv, TypeOK, BeginItem, Go, At
<1>. QED
  BY <1>1, <1>2, QuietStep DEF BeginItem, Before

(***************************************************************************)
(* A rank makes its buffers, or finds them too large.                      *)
(***************************************************************************)
LEMMA InitBuffersInv ==
  ASSUME IInv, NEW r \in World, InitBuffers(r)
  PROVE  IInv'
<1>1. TypeOK'
  <2>1. pc' = [q \in World |-> IF q = r THEN pc'[r] ELSE pc[q]] /\ pc'[r] \in {"trial", "check"}
    BY DEF InitBuffers, Go
  <2>2. pc'[r] = "trial" => Active(stage[r], r)
    BY DEF InitBuffers, Go
  <2>3. UNCHANGED <<item, stage, stop, time, sent, rows>>
    BY DEF InitBuffers
  <2>4. failure' \in [World -> {"none", "memory", "time-out"}]
    BY DEF IInv, TypeOK, InitBuffers
  <2>5. pc' \in [World -> {"item", "split", "buffers", "trial", "check", "allreduce",
                          "warmup", "kernel", "barrier", "gather"}]
    BY <2>1 DEF IInv, TypeOK
  <2>6. (\A q \in World : pc[q] \in InGroup => Active(stage[q], q))'
    BY <2>1, <2>2, <2>3 DEF IInv, TypeOK, InGroup, Active
  <2>. QED
    BY <2>3, <2>4, <2>5, <2>6 DEF IInv, TypeOK
<1>2. ASSUME NEW q \in World, pc'[q] # pc[q]
      PROVE  pc[q] = "buffers" /\ pc'[q] \in {"trial", "check"}
  BY <1>2 DEF IInv, TypeOK, InitBuffers, Go, At
<1>3. ASSUME NEW q \in World, pc[q] = "buffers"
      PROVE  ~ stop[q] /\ item[q] <= NItems /\ stage[q] = StageOf(item[q])
  BY <1>3 DEF IInv, InStage
<1>. QED
  BY <1>1, <1>2, <1>3, QuietStep DEF InitBuffers, Before

(***************************************************************************)
(* The ranks of a communicator pass their trial runs.                      *)
(***************************************************************************)
LEMMA TrialInv ==
  ASSUME IInv, NEW r \in World, Trial(r)
  PROVE  IInv'
<1>1. TypeOK'
  BY DEF IInv, TypeOK, Trial, Go, InGroup
<1>2. ASSUME NEW q \in World, pc'[q] # pc[q]
      PROVE  pc[q] = "trial" /\ pc'[q] = "check"
  BY <1>2 DEF IInv, TypeOK, Trial, Go, AllAt
<1>3. ASSUME NEW q \in World, pc[q] = "trial"
      PROVE  ~ stop[q] /\ item[q] <= NItems /\ stage[q] = StageOf(item[q])
  BY <1>3 DEF IInv, InStage
<1>. QED
  BY <1>1, <1>2, <1>3, QuietStep DEF Trial, Before

(***************************************************************************)
(* A rank looks at its clock.                                              *)
(***************************************************************************)
LEMMA TimeCheckInv ==
  ASSUME IInv, NEW r \in World, TimeCheck(r)
  PROVE  IInv'
<1>1. TypeOK'
  <2>1. failure' \in [World -> {"none", "memory", "time-out"}]
    BY DEF IInv, TypeOK, TimeCheck
  <2>. QED
    BY <2>1 DEF IInv, TypeOK, TimeCheck, Go, InGroup
<1>2. ASSUME NEW q \in World, pc'[q] # pc[q]
      PROVE  pc[q] = "check" /\ pc'[q] = "allreduce"
  BY <1>2 DEF IInv, TypeOK, TimeCheck, Go, At
<1>3. ASSUME NEW q \in World, pc[q] = "check"
      PROVE  ~ stop[q] /\ item[q] <= NItems /\ stage[q] = StageOf(item[q])
  BY <1>3 DEF IInv, InStage
<1>. QED
  BY <1>1, <1>2, <1>3, QuietStep DEF TimeCheck, Before

(***************************************************************************)
(* The ranks of a communicator pass their warm-up runs.                    *)
(***************************************************************************)
LEMMA WarmUpInv ==
  ASSUME IInv, NEW r \in World, WarmUp(r)
  PROVE  IInv'
<1>1. TypeOK'
  BY DEF IInv, TypeOK, WarmUp, Go, InGroup
<1>2. ASSUME NEW q \in World, pc'[q] # pc[q]
      PROVE  pc[q] = "warmup" /\ pc'[q] = "kernel"
  BY <1>2 DEF IInv, TypeOK, WarmUp, Go, AllAt
<1>3. ASSUME NEW q \in World, pc[q] = "warmup"
      PROVE  ~ stop[q] /\ item[q] <= NItems /\ stage[q] = StageOf(item[q])
  BY <1>3 DEF IInv, InStage
<1>. QED
  BY <1>1, <1>2, <1>3, QuietStep DEF WarmUp, Measuring

-----------------------------------------------------------------------------
(***************************************************************************)
(* A rank that has stopped passes an item.                                 *)
(***************************************************************************)
LEMMA SkipItemInv ==
  ASSUME IInv, NEW r \in World, SkipItem(r)
  PROVE  IInv'
<1>1. item'[r] = item[r] + 1 /\ \A q \in World : q # r => item'[q] = item[q]
  BY DEF IInv, TypeOK, SkipItem
<1>2. item \in [World -> 1 .. NItems + 1] /\ NItems \in Nat
  BY NItemsNat DEF IInv, TypeOK
<1>3. stop[r] /\ pc[r] = "item" /\ item[r] <= NItems
  BY DEF SkipItem, At
<1>4. TypeOK'
  <2>1. item' \in [World -> 1 .. NItems + 1]
    BY <1>2, <1>3 DEF SkipItem
  <2>. QED
    BY <2>1 DEF IInv, TypeOK, SkipItem
<1>5. Together'
  BY <1>1, <1>3 DEF IInv, Together, SkipItem
<1>6. StoppedAhead'
  <2>1. ASSUME NEW q \in World, ~ stop[q]
        PROVE  Upcoming(q)' = Upcoming(q) /\ Upcoming(q) \in Int
    BY <1>1, <1>2, <1>3, <2>1 DEF Upcoming, SkipItem
  <2>. QED
    BY <1>1, <1>2, <2>1 DEF IInv, StoppedAhead, SkipItem
<1>7. InStage'
  BY <1>1, <1>3 DEF IInv, InStage, SkipItem
<1>8. GatherOfItem'
  <2>1. CASE r = 0
    BY <1>1, <1>2, <1>3, <2>1, RankZero DEF IInv, GatherOfItem, SkipItem
  <2>2. CASE r # 0
    BY <1>1, <1>2, <1>3, <2>2, RankZero DEF IInv, GatherOfItem, SkipItem
  <2>. QED  BY <2>1, <2>2
<1>9. RowsSoFar'
  BY <1>1, <1>3, RankZero DEF IInv, RowsSoFar, Outcome, SkipItem
<1>. QED
  BY <1>4, <1>5, <1>6, <1>7, <1>8, <1>9 DEF IInv

(***************************************************************************)
(* A rank begins a stage that is valid.                                    *)
(***************************************************************************)
LEMMA BeginValidStageInv ==
  ASSUME IInv, NEW r \in World, BeginStage(r), Stages[StageOf(item[r])] \in ValidNP
  PROVE  IInv'
<1>1. /\ pc[r] = "item" /\ ~ stop[r] /\ item[r] \in 1 .. NItems
      /\ stage' = [stage EXCEPT ![r] = StageOf(item[r])]
      /\ pc' = [q \in World |-> IF q = r THEN "split" ELSE pc[q]]
      /\ UNCHANGED <<item, stop, failure, time, sent, rows>>
  BY NItemsNat DEF IInv, TypeOK, BeginStage, At, Go
<1>2. TypeOK'
  <2>1. stage' \in [World -> 0 .. Len(Stages)]
    BY <1>1, StageRange DEF IInv, TypeOK
  <2>2. pc' \in [World -> {"item", "split", "buffers", "trial", "check", "allreduce",
                          "warmup", "kernel", "barrier", "gather"}]
    BY <1>1 DEF IInv, TypeOK
  <2>3. (\A q \in World : pc[q] \in InGroup => Active(stage[q], q))'
    BY <1>1 DEF IInv, TypeOK, InGroup, Active, World
  <2>. QED
    BY <1>1, <2>1, <2>2, <2>3 DEF IInv, TypeOK
<1>3. Together'
  BY <1>1 DEF IInv, Together, Before, Measuring
<1>4. StoppedAhead'
  <2>1. ASSUME NEW p \in World, stop[p]
        PROVE  FALSE
    BY <1>1, <2>1 DEF IInv, StoppedAhead, Upcoming
  <2>. QED  BY <1>1, <2>1 DEF StoppedAhead
<1>5. InStage'
  BY <1>1 DEF IInv, TypeOK, InStage
<1>6. GatherOfItem'
  BY <1>1, RankZero DEF IInv, GatherOfItem
<1>7. RowsSoFar'
  BY <1>1, RankZero DEF IInv, RowsSoFar, Outcome
<1>. QED
  BY <1>2, <1>3, <1>4, <1>5, <1>6, <1>7 DEF IInv

(***************************************************************************)
(* A rank stops because the number of processes of the stage is not valid. *)
(***************************************************************************)
LEMMA InvalidStageInv ==
  ASSUME IInv, NEW r \in World, BeginStage(r), Stages[StageOf(item[r])] \notin ValidNP
  PROVE  IInv'
<1>1. /\ pc[r] = "item" /\ ~ stop[r] /\ item[r] \in 1 .. NItems
      /\ stage' = [stage EXCEPT ![r] = StageOf(item[r])]
      /\ stop' = [stop EXCEPT ![r] = TRUE]
      /\ item' = [item EXCEPT ![r] = @ + 1]
      /\ UNCHANGED <<pc, failure, time, sent, rows>>
  BY NItemsNat DEF IInv, TypeOK, BeginStage, At, Go
<1>2. item \in [World -> 1 .. NItems + 1] /\ NItems \in Nat /\ stop \in [World -> BOOLEAN]
  BY NItemsNat DEF IInv, TypeOK
<1>3. TypeOK'
  <2>1. stage' \in [World -> 0 .. Len(Stages)]
    BY <1>1, StageRange DEF IInv, TypeOK
  <2>2. item' \in [World -> 1 .. NItems + 1] /\ stop' \in [World -> BOOLEAN]
    BY <1>1, <1>2
  <2>3. (\A q \in World : pc[q] \in InGroup => Active(stage[q], q))'
    BY <1>1 DEF IInv, TypeOK, InGroup, Active, World
  <2>. QED
    BY <1>1, <2>1, <2>2, <2>3 DEF IInv, TypeOK
<1>4. Together'
  BY <1>1, <1>2 DEF IInv, Together
<1>5. StoppedAhead'
  <2>1. ASSUME NEW q \in World, ~ stop[q], q # r
        PROVE  /\ pc[q] \in {"item", "gather"}
               /\ Upcoming(q) = item[r]
    <3>1. CASE item[q] = item[r]
      <4>1. pc[q] \in Before
        <5>1. pc[q] \notin Measuring /\ pc[q] # "gather"
          BY <1>1, <2>1, <3>1 DEF IInv, Together, Measuring
        <5>. QED
          BY <5>1 DEF IInv, TypeOK, Before, Measuring
      <4>2. CASE pc[q] # "item"
        <5>1. stage[q] = StageOf(item[r])
          BY <3>1, <4>2 DEF IInv, InStage
        <5>2. stage[q] # 0
          BY <1>1, <5>1, StageRange
        <5>. QED
          BY <2>1, <5>1, <5>2 DEF IInv, InStage
      <4>. QED
        BY <3>1, <4>1, <4>2 DEF Upcoming
    <3>2. CASE item[q] # item[r]
      BY <1>1, <1>2, <2>1, <3>2 DEF IInv, Together, Before, Upcoming
    <3>. QED  BY <3>1, <3>2
  <2>2. ASSUME NEW q \in World, ~ stop[q], q # r
        PROVE  Upcoming(q)' = Upcoming(q)
    BY <1>1, <2>2 DEF Upcoming
  <2>. QED
    BY <1>1, <1>2, <2>1, <2>2 DEF IInv, StoppedAhead
<1>6. InStage'
  BY <1>1, <1>2 DEF IInv, TypeOK, InStage
<1>7. GatherOfItem'
  <2>1. CASE r = 0
    BY <1>1, <1>2, <2>1, RankZero DEF IInv, GatherOfItem
  <2>2. CASE r # 0
    BY <1>1, <1>2, <2>2, RankZero DEF IInv, GatherOfItem
  <2>. QED  BY <2>1, <2>2
<1>8. RowsSoFar'
  BY <1>1, <1>2, RankZero DEF IInv, RowsSoFar, Outcome
<1>. QED
  BY <1>3, <1>4, <1>5, <1>6, <1>7, <1>8 DEF IInv

-----------------------------------------------------------------------------
(***************************************************************************)
(* All ranks form the communicators of a stage.                            *)
(***************************************************************************)
LEMMA SplitInv ==
  ASSUME IInv, Split
  PROVE  IInv'
<1>1. /\ \A r \in World : pc[r] = "split"
      /\ pc' = [r \in World |-> "buffers"]
      /\ UNCHANGED <<item, stage, time, sent, rows>>
  BY DEF Split, AllAt, Go
<1>2. \A r \in World : ~ stop[r]
  BY <1>1 DEF IInv, InStage
<1>3. UNCHANGED stop
  BY <1>2 DEF IInv, TypeOK, Split
<1>4. TypeOK'
  BY <1>1, <1>3 DEF IInv, TypeOK, Split, InGroup
<1>. QED
  <2>1. \A r \in World : item[r] <= NItems /\ stage[r] = StageOf(item[r])
    BY <1>1 DEF IInv, InStage
  <2>. QED
    BY <1>1, <1>2, <1>3, <1>4, <2>1, QuietStep DEF Before

(***************************************************************************)
(* All ranks combine their failures: they are in the same item, and all of *)
(* them stop or none.                                                      *)
(***************************************************************************)
LEMMA CombineInv ==
  ASSUME IInv, CombineFailures
  PROVE  IInv'
<1>. DEFINE failed == \E r \in World : failure[r] # "none"
<1>1. /\ \A r \in World : pc[r] = "allreduce"
      /\ stop' = [r \in World |-> stop[r] \/ failed]
      /\ pc' = [r \in World |->
                 IF stop'[r] THEN "gather"
                 ELSE IF WarmUps /\ Active(stage[r], r) THEN "warmup" ELSE "kernel"]
      /\ UNCHANGED <<item, stage, failure, time, sent, rows>>
  BY DEF CombineFailures, AllAt
<1>. HIDE DEF failed
<1>2. \A r \in World : ~ stop[r] /\ item[r] <= NItems /\ stage[r] = StageOf(item[r])
  BY <1>1 DEF IInv, InStage
<1>3. \A r, q \in World : item[r] = item[q]
  <2>1. \A r \in World : item[r] \in Int
    BY NItemsNat DEF IInv, TypeOK
  <2>. QED
    BY <1>1, <1>2, <2>1 DEF IInv, Together
<1>4. \A r \in World : sent[r] = <<>>
  BY <1>1, RankZero DEF IInv, GatherOfItem
<1>5. \A r \in World : /\ stop'[r] = failed
                       /\ stop'[r] => pc'[r] = "gather"
                       /\ ~ stop'[r] => pc'[r] \in {"warmup", "kernel"}
                       /\ pc'[r] \in InGroup => Active(stage[r], r)
  BY <1>1, <1>2 DEF InGroup, IInv, TypeOK, failed
<1>6. TypeOK'
  <2>1. stop' \in [World -> BOOLEAN]
    BY <1>1 DEF failed, IInv, TypeOK
  <2>2. pc' \in [World -> {"item", "split", "buffers", "trial", "check", "allreduce",
                          "warmup", "kernel", "barrier", "gather"}]
    BY <1>1
  <2>3. (\A q \in World : pc[q] \in InGroup => Active(stage[q], q))'
    BY <1>1, <1>5
  <2>. QED
    BY <1>1, <2>1, <2>2, <2>3 DEF IInv, TypeOK
<1>7. Together'
  <2>1. ASSUME NEW r \in World, NEW q \in World, ~ stop'[r]
        PROVE  /\ pc'[r] \in Measuring /\ pc'[q] \in Measuring
               /\ item'[r] = item'[q] /\ item'[r] \in Int
    BY <1>1, <1>3, <1>5, <2>1 DEF Measuring, IInv, TypeOK
  <2>. QED
    BY <2>1 DEF Together, Measuring
<1>8. StoppedAhead'
  BY <1>5 DEF StoppedAhead
<1>9. InStage'
  BY <1>1, <1>2, <1>5 DEF IInv, InStage
<1>10. GatherOfItem'
  BY <1>1, <1>3, <1>4, <1>5, RankZero DEF GatherOfItem
<1>11. RowsSoFar'
  BY <1>1, <1>2, RankZero DEF IInv, RowsSoFar, Outcome
<1>. QED
  BY <1>6, <1>7, <1>8, <1>9, <1>10, <1>11 DEF IInv

(***************************************************************************)
(* The ranks of a communicator, or a rank without one, return from the     *)
(* kernel.                                                                 *)
(***************************************************************************)
LEMMA KernelInv ==
  ASSUME IInv, NEW r \in World, Kernel(r)
  PROVE  IInv'
<1>. DEFINE K == KernelRanks(r)
<1>1. /\ \A q \in K : pc[q] = "kernel"
      /\ time' = [q \in World |-> IF q \in K THEN item[q] ELSE time[q]]
      /\ pc' = [q \in World |-> IF q \in K THEN "barrier" ELSE pc[q]]
      /\ UNCHANGED <<item, stage, stop, failure, sent, rows>>
  BY DEF Kernel, AllAt, Go
<1>. HIDE DEF K
<1>2. \A q \in World : q \in K => ~ stop[q] /\ item[q] \in 1 .. NItems
  BY <1>1, NItemsNat DEF IInv, InStage, TypeOK
<1>3. TypeOK'
  BY <1>1, <1>2 DEF IInv, TypeOK, InGroup
<1>4. Together'
  BY <1>1 DEF IInv, Together, Before, Measuring
<1>5. StoppedAhead'
  <2>1. ASSUME NEW p \in World, NEW q \in World, stop[p], ~ stop[q]
        PROVE  q \notin K /\ Upcoming(q)' = Upcoming(q)
    BY <1>1, <2>1 DEF IInv, StoppedAhead, Upcoming
  <2>. QED
    BY <1>1, <2>1 DEF IInv, StoppedAhead
<1>6. InStage'
  BY <1>1, <1>2 DEF IInv, InStage
<1>7. GatherOfItem'
  BY <1>1, <1>2, RankZero DEF IInv, GatherOfItem
<1>8. RowsSoFar'
  BY <1>1, <1>2, RankZero DEF IInv, RowsSoFar, Outcome
<1>. QED
  BY <1>3, <1>4, <1>5, <1>6, <1>7, <1>8 DEF IInv

(***************************************************************************)
(* All ranks pass the barrier after the kernel, in the same item.          *)
(***************************************************************************)
LEMMA BarrierInv ==
  ASSUME IInv, Barrier
  PROVE  IInv'
<1>1. /\ \A r \in World : pc[r] = "barrier"
      /\ pc' = [r \in World |-> "gather"]
      /\ UNCHANGED <<item, stage, stop, failure, time, sent, rows>>
  BY DEF Barrier, AllAt, Go
<1>2. \A r \in World : ~ stop[r]
  BY <1>1 DEF IInv, InStage
<1>3. \A r, q \in World : item[r] = item[q]
  BY <1>1, <1>2 DEF IInv, TypeOK, Together, Before
<1>4. \A r \in World : sent[r] = <<>>
  BY <1>1, RankZero DEF IInv, GatherOfItem
<1>5. TypeOK'
  BY <1>1 DEF IInv, TypeOK, InGroup
<1>6. Together'
  BY <1>1, <1>3 DEF IInv, TypeOK, Together, Measuring
<1>7. StoppedAhead'
  BY <1>1, <1>2 DEF StoppedAhead
<1>8. InStage'
  BY <1>1, <1>2 DEF IInv, InStage
<1>9. GatherOfItem'
  BY <1>1, <1>3, <1>4, RankZero DEF IInv, GatherOfItem
<1>10. RowsSoFar'
  BY <1>1, <1>2, RankZero DEF IInv, RowsSoFar, Outcome
<1>. QED
  BY <1>5, <1>6, <1>7, <1>8, <1>9, <1>10 DEF IInv

-----------------------------------------------------------------------------
(***************************************************************************)
(* A rank other than 0 has sent its times and goes on to the next item.    *)
(***************************************************************************)
LEMMA GatherInv ==
  ASSUME IInv, NEW r \in World, Gather(r)
  PROVE  IInv'
<1>1. /\ r # 0 /\ pc[r] = "gather" /\ item[r] \in 1 .. NItems
      /\ pc' = [q \in World |-> IF q = r THEN "item" ELSE pc[q]]
      /\ item' = [item EXCEPT ![r] = @ + 1]
      /\ sent' = [sent EXCEPT ![r] = Append(@, time[r])]
      /\ UNCHANGED <<stage, stop, failure, time, rows>>
  BY NItemsNat DEF Gather, At, Go, IInv, TypeOK, InStage
<1>2. item \in [World -> 1 .. NItems + 1] /\ NItems \in Nat /\ stop \in [World -> BOOLEAN]
  BY NItemsNat DEF IInv, TypeOK
<1>3. pc[0] = "gather" /\ item[0] = item[r]
  BY <1>1, RankZero DEF IInv, GatherOfItem
<1>4. sent[r] = <<>>
  BY <1>1, <1>2, <1>3, RankZero DEF IInv, GatherOfItem
<1>5. sent' = [sent EXCEPT ![r] = <<time[r]>>] /\ Len(<<time[r]>>) = 1
  BY <1>1, <1>4
<1>6. stop[0] \/ time[r] = item[0]
  <2>1. stop[r] => stop[0]
    BY <1>1, <1>2, <1>3, RankZero DEF IInv, StoppedAhead, Upcoming
  <2>. QED
    BY <1>1, <1>2, <1>3, <2>1, RankZero DEF IInv, GatherOfItem
<1>7. TypeOK'
  <2>1. time[r] \in 0 .. NItems
    BY DEF IInv, TypeOK
  <2>2. <<time[r]>> \in Seq(0 .. NItems)
    BY <2>1
  <2>3. sent' \in [World -> Seq(0 .. NItems)] /\ \A q \in World : Len(sent'[q]) <= 1
    BY <1>5, <2>2 DEF IInv, TypeOK
  <2>4. item' \in [World -> 1 .. NItems + 1]
    BY <1>1, <1>2
  <2>. QED
    BY <1>1, <2>3, <2>4 DEF IInv, TypeOK, InGroup
<1>8. Together'
  BY <1>1, <1>2 DEF IInv, Together, Before, Measuring
<1>9. StoppedAhead'
  <2>1. ASSUME NEW q \in World
        PROVE  Upcoming(q)' = Upcoming(q)
    BY <1>1, <1>2 DEF Upcoming
  <2>2. ASSUME NEW q \in World
        PROVE  Upcoming(q) \in Int
    BY <1>2 DEF Upcoming
  <2>. QED
    BY <1>1, <1>2, <2>1, <2>2 DEF IInv, StoppedAhead
<1>10. InStage'
  BY <1>1, <1>2 DEF IInv, InStage
<1>11. GatherOfItem'
  <2>1. item'[0] = item[0] /\ pc'[0] = "gather" /\ item'[r] = item[r] + 1
    BY <1>1, <1>2, <1>3, RankZero
  <2>2. (\A q \in World : sent[q] # <<>> =>
          /\ q # 0 /\ Len(sent[q]) = 1
          /\ pc[0] = "gather" /\ item[0] < item[q]
          /\ stop[0] \/ sent[q] = <<item[0]>>)'
    <3>1. ASSUME NEW q \in World, q = r
          PROVE  /\ q # 0 /\ Len(sent'[q]) = 1
                 /\ pc'[0] = "gather" /\ item'[0] < item'[q]
                 /\ stop'[0] \/ sent'[q] = <<item'[0]>>
      <4>1. sent'[q] = <<time[r]>>
        BY <1>5, <3>1 DEF IInv, TypeOK, GatherOfItem
      <4>2. Len(sent'[q]) = 1
        BY <1>5, <4>1
      <4>3. stop'[0] \/ sent'[q] = <<item'[0]>>
        BY <1>1, <1>6, <2>1, <4>1
      <4>4. item'[0] < item'[q]
        BY <1>1, <1>3, <2>1, <3>1
      <4>. QED
        BY <1>1, <2>1, <3>1, <4>2, <4>3, <4>4
    <3>2. ASSUME NEW q \in World, q # r, sent'[q] # <<>>
          PROVE  /\ q # 0 /\ Len(sent'[q]) = 1
                 /\ pc'[0] = "gather" /\ item'[0] < item'[q]
                 /\ stop'[0] \/ sent'[q] = <<item'[0]>>
      BY <1>1, <1>2, <2>1, <3>2 DEF IInv, GatherOfItem
    <3>. QED  BY <3>1, <3>2
  <2>3. (\A q \in World :
          (pc[q] = "barrier" \/ (pc[q] = "gather" /\ ~ stop[q])) => time[q] = item[q])'
    BY <1>1, <1>2 DEF IInv, GatherOfItem
  <2>. QED
    BY <1>1, <1>2, <2>1, <2>2, <2>3 DEF IInv, GatherOfItem
<1>12. RowsSoFar'
  BY <1>1, <1>2, RankZero DEF IInv, RowsSoFar, Outcome
<1>. QED
  BY <1>7, <1>8, <1>9, <1>10, <1>11, <1>12 DEF IInv

(***************************************************************************)
(* The row rank 0 prints: it is of the item, and unless the benchmark has  *)
(* stopped all its times are.                                              *)
(***************************************************************************)
LEMMA RowOfItem ==
  ASSUME IInv, Output
  PROVE  /\ item[0] \in 1 .. NItems
         /\ Row \in [item : 1 .. NItems, failure : {"none", "memory", "time-out"},
                     stopped : BOOLEAN, times : SUBSET (0 .. NItems)]
         /\ Row.item = item[0] /\ Row.stopped = stop[0]
         /\ ~ stop[0] => Row.times = {item[0]}
<1>1. /\ pc[0] = "gather"
      /\ \A r \in World \ {0} : sent[r] # <<>>
  BY DEF Output, At
<1>2. item[0] \in 1 .. NItems /\ stage[0] = StageOf(item[0])
  BY <1>1, NItemsNat, RankZero DEF IInv, TypeOK, InStage
<1>3. Active(stage[0], 0)
  BY <1>2, StageRange, RankZero
<1>. DEFINE T(r) == IF r = 0 THEN time[0] ELSE Head(sent[r])
<1>4. ASSUME NEW r \in World
      PROVE  T(r) \in 0 .. NItems /\ (~ stop[0] => T(r) = item[0])
  <2>1. CASE r = 0
    BY <1>1, <2>1, RankZero DEF IInv, TypeOK, GatherOfItem
  <2>2. CASE r # 0
    <3>1. sent[r] # <<>> /\ sent[r] \in Seq(0 .. NItems)
      BY <1>1, <2>2 DEF IInv, TypeOK
    <3>2. ~ stop[0] => sent[r] = <<item[0]>>
      BY <3>1 DEF IInv, GatherOfItem
    <3>3. Head(sent[r]) \in 0 .. NItems
      BY <3>1, HeadTailProperties
    <3>. QED
      BY <2>2, <3>2, <3>3
  <2>. QED  BY <2>1, <2>2
<1>. DEFINE times == {T(r) : r \in {q \in World : Active(stage[0], q)}}
<1>5. times \in SUBSET (0 .. NItems)
  <2>. HIDE DEF T
  <2>. QED  BY <1>4
<1>6. ~ stop[0] => times = {item[0]}
  <2>. HIDE DEF T
  <2>. QED  BY <1>3, <1>4, RankZero
<1>7. Row = [item |-> item[0], failure |-> failure[0], stopped |-> stop[0], times |-> times]
  BY DEF Row
<1>. HIDE DEF times
<1>8. failure[0] \in {"none", "memory", "time-out"} /\ stop[0] \in BOOLEAN
  BY RankZero DEF IInv, TypeOK
<1>. QED
  BY <1>2, <1>5, <1>6, <1>7, <1>8

(***************************************************************************)
(* What this adds to the rows before.                                      *)
(***************************************************************************)
LEMMA RowsAfter ==
  ASSUME IInv, Output
  PROVE  /\ Len(rows) = item[0] - 1 /\ Len(rows') = item[0]
         /\ \A k \in 1 .. Len(rows) : Outcome(k) = "measured" /\ Outcome(k)' = "measured"
         /\ \A k \in 1 .. NItems : k = item[0] =>
              Outcome(k)' = IF stop[0] THEN "failed" ELSE "measured"
<1>. DEFINE RowType == [item : 1 .. NItems, failure : {"none", "memory", "time-out"},
                        stopped : BOOLEAN, times : SUBSET (0 .. NItems)]
<1>1. /\ item[0] \in 1 .. NItems
      /\ Row \in RowType
      /\ Row.item = item[0] /\ Row.stopped = stop[0]
      /\ ~ stop[0] => Row.times = {item[0]}
  BY RowOfItem
<1>2. rows \in Seq(RowType)
  BY DEF IInv, TypeOK
<1>3. rows' = Append(rows, Row)
  BY DEF Output
<1>4. Len(rows) = item[0] - 1 /\ \A k \in 1 .. Len(rows) : Outcome(k) = "measured"
  BY DEF IInv, RowsSoFar, Output, At
<1>. HIDE DEF RowType
<1>5. Len(rows') = item[0]
  BY <1>1, <1>2, <1>3, <1>4, NItemsNat
<1>6. \A k \in 1 .. Len(rows) : rows'[k] = rows[k]
  BY <1>1, <1>2, <1>3
<1>7. rows'[item[0]] = Row
  BY <1>1, <1>2, <1>3, <1>4, NItemsNat
<1>8. \A k \in 1 .. Len(rows) : Outcome(k)' = "measured"
  BY <1>4, <1>6 DEF Outcome
<1>9. ASSUME NEW k \in 1 .. NItems, k = item[0]
      PROVE  Outcome(k)' = IF stop[0] THEN "failed" ELSE "measured"
  BY <1>1, <1>7, <1>9, Zenon DEF Outcome
<1>. QED
  BY <1>4, <1>5, <1>8, <1>9

(***************************************************************************)
(* Rank 0 has received all times, prints its row and goes on.              *)
(***************************************************************************)
LEMMA OutputInv ==
  ASSUME IInv, Output
  PROVE  IInv'
<1>1. /\ pc[0] = "gather"
      /\ rows' = Append(rows, Row)
      /\ sent' = [r \in World |-> IF r = 0 THEN <<>> ELSE Tail(sent[r])]
      /\ pc' = [r \in World |-> IF r = 0 THEN "item" ELSE pc[r]]
      /\ item' = [item EXCEPT ![0] = @ + 1]
      /\ UNCHANGED <<stage, stop, failure, time>>
  BY DEF Output, At, Go
<1>2. item \in [World -> 1 .. NItems + 1] /\ item[0] \in 1 .. NItems /\ NItems \in Nat
  BY NItemsNat, RowOfItem DEF IInv, TypeOK
<1>3. \A r \in World \ {0} : sent[r] # <<>> /\ Len(sent[r]) = 1 /\ item[0] < item[r]
  BY DEF IInv, GatherOfItem, Output
<1>4. \A r \in World \ {0} : pc[r] # "gather"
  BY <1>1, <1>2, <1>3, RankZero DEF IInv, GatherOfItem
<1>5. sent' = [r \in World |-> <<>>]
  <2>1. ASSUME NEW r \in World \ {0}
        PROVE  Tail(sent[r]) = <<>>
    <3>1. sent[r] \in Seq(0 .. NItems)
      BY DEF IInv, TypeOK
    <3>2. sent[r] # <<>> /\ Len(sent[r]) = 1
      BY <1>3
    <3>3. Tail(sent[r]) \in Seq(0 .. NItems) /\ Len(Tail(sent[r])) = Len(sent[r]) - 1
      BY <3>1, <3>2, HeadTailProperties
    <3>4. Len(Tail(sent[r])) = 0
      BY <3>2, <3>3
    <3>. QED  BY <3>3, <3>4, EmptySeq
  <2>. QED  BY <1>1, <2>1
<1>6. item'[0] = item[0] + 1 /\ \A r \in World \ {0} : item'[r] = item[r]
  BY <1>1, <1>2, RankZero
<1>7. TypeOK'
  <2>1. <<>> \in Seq(0 .. NItems) /\ Len(<<>>) = 0
    OBVIOUS
  <2>2. sent' \in [World -> Seq(0 .. NItems)] /\ \A r \in World : Len(sent'[r]) <= 1
    BY <1>5, <2>1
  <2>3. item' \in [World -> 1 .. NItems + 1]
    <3>1. item' = [item EXCEPT ![0] = @ + 1]
      BY <1>1
    <3>2. item[0] + 1 \in 1 .. NItems + 1
      BY <1>2
    <3>. QED  BY <1>2, <3>1, <3>2
  <2>4. rows' \in Seq([item : 1 .. NItems, failure : {"none", "memory", "time-out"},
                      stopped : BOOLEAN, times : SUBSET (0 .. NItems)])
    <3>1. Row \in [item : 1 .. NItems, failure : {"none", "memory", "time-out"},
                   stopped : BOOLEAN, times : SUBSET (0 .. NItems)]
      BY RowOfItem
    <3>. QED
      BY <1>1, <3>1, AppendProperties DEF IInv, TypeOK
  <2>. QED
    BY <1>1, <2>2, <2>3, <2>4 DEF IInv, TypeOK, InGroup
<1>8. Together'
  <2>1. ASSUME NEW r \in World \ {0}, ~ stop[0], ~ stop[r]
        PROVE  item[r] = item[0] + 1 /\ pc[r] \in Before
    BY <1>2, <1>3, <2>1, RankZero DEF IInv, Together
  <2>. QED
    BY <1>1, <1>2, <1>6, <2>1 DEF IInv, Together, Before, Measuring
<1>9. StoppedAhead'
  <2>1. ASSUME NEW q \in World
        PROVE  Upcoming(q)' = Upcoming(q) /\ Upcoming(q) \in Int
    BY <1>1, <1>2, <1>6 DEF Upcoming
  <2>. QED
    BY <1>1, <1>2, <1>6, <2>1 DEF IInv, StoppedAhead
<1>10. InStage'
  BY <1>1, <1>2, <1>6 DEF IInv, InStage
<1>11. GatherOfItem'
  BY <1>1, <1>2, <1>4, <1>5, <1>6, RankZero DEF IInv, GatherOfItem
<1>12. RowsSoFar'
  <2>1. SUFFICES ASSUME ~ stop[0]
        PROVE  Len(rows') = item'[0] - 1 /\ \A k \in 1 .. Len(rows') : Outcome(k)' = "measured"
    BY <1>1, RankZero DEF RowsSoFar
  <2>2. /\ Len(rows) = item[0] - 1 /\ Len(rows') = item[0]
        /\ \A k \in 1 .. Len(rows) : Outcome(k)' = "measured"
        /\ \A k \in 1 .. NItems : k = item[0] => Outcome(k)' = "measured"
    BY <2>1, RowsAfter
  <2>3. ASSUME NEW k \in 1 .. Len(rows')
        PROVE  Outcome(k)' = "measured"
    <3>1. k \in 1 .. Len(rows) \/ (k = item[0] /\ k \in 1 .. NItems)
      BY <1>2, <2>2
    <3>. QED  BY <2>2, <3>1
  <2>. QED
    BY <1>2, <1>6, <2>2, <2>3
<1>. QED
  BY <1>7, <1>8, <1>9, <1>10, <1>11, <1>12 DEF IInv

-----------------------------------------------------------------------------
(***************************************************************************)
(* At the beginning no rank has a stage, and no row has been printed.      *)
(***************************************************************************)
LEMMA InitInv ==
  ASSUME Init
  PROVE  IInv
<1>1. 0 \in World /\ NItems \in Nat
  BY RankZero, NItemsNat
<1>2. TypeOK
  <2>1. 0 \in 0 .. Len(Stages) /\ 0 \in 0 .. NItems /\ 1 \in 1 .. NItems + 1
    BY <1>1, ScopeAssumption
  <2>2. rows \in Seq([item : 1 .. NItems, failure : {"none", "memory", "time-out"},
                     stopped : BOOLEAN, times : SUBSET (0 .. NItems)])
    BY DEF Init
  <2>3. sent \in [World -> Seq(0 .. NItems)] /\ \A r \in World : Len(sent[r]) <= 1
    BY DEF Init
  <2>. QED
    BY <2>1, <2>2, <2>3 DEF Init, TypeOK, InGroup
<1>3. Together /\ StoppedAhead /\ InStage
  BY <1>1 DEF Init, Together, StoppedAhead, InStage
<1>4. GatherOfItem
  BY <1>1 DEF Init, GatherOfItem
<1>5. RowsSoFar
  BY <1>1 DEF Init, RowsSoFar
<1>. QED
  BY <1>2, <1>3, <1>4, <1>5 DEF IInv

(***************************************************************************)
(* Every step of any rank preserves the invariant.                         *)
(***************************************************************************)
LEMMA StepInv ==
  ASSUME IInv, [Next]_vars
  PROVE  IInv'
<1>1. CASE UNCHANGED vars
  BY <1>1 DEF vars, IInv, TypeOK, Together, StoppedAhead, Upcoming, InStage, GatherOfItem,
              RowsSoFar, Outcome, Active
<1>2. ASSUME NEW r \in World, BeginStage(r)
      PROVE  IInv'
  BY <1>2, BeginValidStageInv, InvalidStageInv
<1>3. CASE Step
  BY <1>2, <1>3, SkipItemInv, BeginItemInv, InitBuffersInv, TrialInv, TimeCheckInv, WarmUpInv,
     KernelInv, GatherInv, SplitInv, CombineInv, BarrierInv, OutputInv DEF Step
<1>. QED
  BY <1>1, <1>3 DEF Next, Terminated

-----------------------------------------------------------------------------
(***************************************************************************)
(* The invariant holds in every run.                                       *)
(***************************************************************************)
THEOREM Inductive == Spec => []IInv
<1>1. Init => IInv
  BY InitInv
<1>2. IInv /\ [Next]_vars => IInv'
  BY StepInv
<1>. QED
  BY <1>1, <1>2, PTL DEF Spec

(***************************************************************************)
(* The variables have values of their kinds, ranks without a communicator  *)
(* stay out of its operations, and no rank sends the times of an item      *)
(* while those of another are on their way.                                *)
(***************************************************************************)
THEOREM TypeCorrect == Spec => []TypeOK
<1>1. IInv => TypeOK
  BY DEF IInv
<1>. QED
  BY <1>1, Inductive, PTL

(***************************************************************************)
(* While a rank measures, all ranks are in the same item and none has      *)
(* begun the next one's trial runs.                                        *)
(***************************************************************************)
THEOREM NobodyDisturbed == Spec => []Undisturbed
<1>1. ASSUME IInv, NEW r \in World, NEW q \in World, pc[r] \in {"warmup", "kernel"}
      PROVE  item[q] = item[r] /\ pc[q] \in {"warmup", "kernel", "barrier"}
  <2>1. ~ stop[r]
    BY <1>1 DEF IInv, InStage
  <2>2. ~ stop[q]
    BY <1>1, <2>1 DEF IInv, StoppedAhead
  <2>3. item[r] \in Int /\ item[q] \in Int
    BY <1>1, NItemsNat DEF IInv, TypeOK
  <2>4. item[q] = item[r]
    BY <1>1, <2>1, <2>2, <2>3 DEF IInv, Together, Before
  <2>. QED
    BY <1>1, <2>1, <2>2, <2>4 DEF IInv, Together, Measuring
<1>2. IInv => Undisturbed
  BY <1>1 DEF Undisturbed
<1>. QED
  BY <1>2, Inductive, PTL

-----------------------------------------------------------------------------
(***************************************************************************)
(* A sequence that goes on as another one does, for one element more, is   *)
(* Append of it.                                                           *)
(***************************************************************************)
LEMMA AppendIsExtension ==
  ASSUME NEW S, NEW s \in Seq(S), NEW t \in Seq(S), NEW e \in S,
         Len(t) = Len(s) + 1,
         \A k \in 1 .. Len(s) + 1 : t[k] = IF k = Len(s) + 1 THEN e ELSE s[k]
  PROVE  t = Append(s, e)
<1>1. Len(s) \in Nat
  BY LenProperties
<1>2. /\ Append(s, e) \in Seq(S)
      /\ Len(Append(s, e)) = Len(s) + 1
      /\ \A k \in 1 .. Len(s) : Append(s, e)[k] = s[k]
      /\ Append(s, e)[Len(s) + 1] = e
  BY AppendProperties
<1>3. \A k \in 1 .. Len(t) : t[k] = Append(s, e)[k]
  BY <1>1, <1>2
<1>. QED
  BY <1>2, <1>3, SeqEqual

(***************************************************************************)
(* The row of an item is the report of the schedule: all before it were    *)
(* measured, and it is measured or failed.                                 *)
(***************************************************************************)
LEMMA OutputReports ==
  ASSUME IInv, Output
  PROVE  Abstract!Next
<1>. DEFINE F == [k \in 1 .. Len(rows) |-> Outcome(k)]
            n == Len(rows)
            o == IF stop[0] THEN "failed" ELSE "measured"
<1>1. /\ item[0] \in 1 .. NItems /\ n = item[0] - 1 /\ Len(rows') = item[0]
      /\ \A k \in 1 .. n : Outcome(k) = "measured" /\ Outcome(k)' = "measured"
      /\ \A k \in 1 .. NItems : k = item[0] => Outcome(k)' = o
  BY RowOfItem, RowsAfter
<1>2. n \in Nat /\ n < NItems /\ Len(rows') = n + 1
  BY <1>1, NItemsNat
<1>. HIDE DEF o
<1>3. F = [k \in 1 .. n |-> "measured"]
  BY <1>1
<1>4. F' = [k \in 1 .. n + 1 |-> IF k = n + 1 THEN o ELSE "measured"]
  <2>1. F' = [k \in 1 .. n + 1 |-> Outcome(k)']
    BY <1>2
  <2>2. ASSUME NEW k \in 1 .. n + 1
        PROVE  Outcome(k)' = IF k = n + 1 THEN o ELSE "measured"
    <3>1. CASE k = n + 1
      BY <1>1, <1>2, <3>1, NItemsNat
    <3>2. CASE k # n + 1
      BY <1>1, <1>2, <3>2
    <3>. QED  BY <3>1, <3>2
  <2>. QED
    BY <2>1, <2>2
<1>5. F \in Seq({"measured", "failed"}) /\ Len(F) = n
  <2>. HIDE DEF n
  <2>. QED  BY <1>2, <1>3
<1>6. F' = Append(F, o)
  <2>1. o \in {"measured", "failed"}
    BY DEF o
  <2>. HIDE DEF F, n
  <2>2. \A k \in 1 .. n + 1 : F'[k] = IF k = n + 1 THEN o ELSE F[k]
    BY <1>2, <1>3, <1>4
  <2>3. F' \in Seq({"measured", "failed"}) /\ Len(F') = n + 1
    BY <1>2, <1>4, <2>1
  <2>. QED
    BY <1>2, <1>5, <2>1, <2>2, <2>3, AppendIsExtension
<1>7. \A k \in 1 .. Len(F) : F[k] = "measured"
  BY <1>3, <1>5
<1>8. Abstract!Report(o)
  BY <1>2, <1>5, <1>6, <1>7 DEF Abstract!Report
<1>. QED
  BY <1>8 DEF Abstract!Next, o

(***************************************************************************)
(* The output of a benchmark follows the schedule: a row for each item, in *)
(* order, with times of the item, until one has failed.                    *)
(***************************************************************************)
THEOREM Refinement == Spec => ImplementsSchedule
<1>1. Init => Abstract!Init
  BY DEF Init, Abstract!Init
<1>2. ASSUME IInv, [Next]_vars
      PROVE  Abstract!Next \/ UNCHANGED [k \in 1 .. Len(rows) |-> Outcome(k)]
  <2>1. CASE Output
    BY <1>2, <2>1, OutputReports
  <2>2. CASE ~ Output
    <3>1. UNCHANGED rows
      BY <1>2, <2>2 DEF Next, Step, Terminated, vars, SkipItem, BeginItem, BeginStage,
         InitBuffers, Trial, TimeCheck, WarmUp, Kernel, Gather, Split, CombineFailures, Barrier
    <3>. QED
      BY <3>1 DEF Outcome
  <2>. QED  BY <2>1, <2>2
<1>3. ASSUME IInv, [Next]_vars
      PROVE  [Abstract!Next]_([k \in 1 .. Len(rows) |-> Outcome(k)])
  BY <1>2, <1>3
<1>. QED
  BY <1>1, <1>3, Inductive, PTL DEF Spec, ImplementsSchedule, Abstract!Spec
=============================================================================
