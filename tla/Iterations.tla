----------------------------- MODULE Iterations -----------------------------
(***************************************************************************)
(* The number of repetitions: how IMB_init_buffers_iter                    *)
(* (src_cpp/helpers/helper_IMB_functions.h) chooses n_sample for one       *)
(* message size after the other.  The ranks of the communicator each have  *)
(* an iter_schedule of their own and must come to the same number, or the  *)
(* kernel does not terminate.  With the policy dynamic they time trial     *)
(* runs, and the number found for a size also depends on those of other    *)
(* sizes.                                                                  *)
(*                                                                         *)
(* One stage of a benchmark on one communicator.  Failures end it early    *)
(* (module BenchRun).  Times are in ticks.                                 *)
(***************************************************************************)
EXTENDS Integers, Sequences

CONSTANTS
  NP,            \* num_procs
  Options,       \* the command lines and benchmarks considered
  Times,         \* the times per repetition a kernel may measure
  asize,         \* the size of assign_type, the least size of a buffer
  Second,        \* ticks in a second
  MSGSPERSAMPLE, \* the macro: repetitions of a trial run at most
  Garbage,       \* what a fresh numiters may hold
  IntMax         \* one above the largest int

Rank == 0 .. NP - 1

Policies == {"off", "multiple_np", "dynamic"}    \* auto is one of the last two

(***************************************************************************)
(* lens are the message sizes of the stage, listed those of -msglen;       *)
(* without it they are ascending.                                          *)
(***************************************************************************)
OptionType ==
  [policy : Policies, lens : Seq(Nat), listed : BOOLEAN,
   msgspersample : Nat \ {0}, x_sample : Nat \ {0}, overall_vol : Nat,
   max_msg_size : Nat \ {0}, secs : Nat]

ASSUME NPAssumption == NP \in Nat \ {0}
ASSUME OptionsAssumption ==
  /\ Options \subseteq OptionType
  /\ \A o \in Options : ~ o.listed =>
       \A k \in DOMAIN o.lens : \A j \in 1 .. k - 1 : o.lens[j] < o.lens[k]
ASSUME TimesAssumption == Times \subseteq Nat /\ Second \in Nat \ {0}
ASSUME NumbersAssumption ==
  asize \in Nat \ {0} /\
  MSGSPERSAMPLE \in Nat \ {0} /\ Garbage \subseteq Int /\ IntMax \in Nat \ {0}

VARIABLES
  opt,
  pc,            \* pc[r]: where rank r is
  item,          \* item[r]: the size it is at, iter + 1
  n_sample,
  n_sample_prev,
  numiters,      \* numiters[r]: an array, not initialized
  time,          \* time[r]: time[0] of the trial runs
  t_sample,
  idx,           \* i + 1 of the loop over numiters
  bcast,         \* what rank 0 has sent with MPI_Bcast
  ran            \* ran[r][p][k]: n_sample of its run p of the kernel for size k

vars == <<opt, pc, item, n_sample, n_sample_prev, numiters, time, t_sample, idx,
                   bcast, ran>>

Runs == {"once", "trial", "second", "measure"}

Lesser(a, b) == IF a < b THEN a ELSE b
Greater(a, b) == IF a < b THEN b ELSE a

Size(r) == opt.lens[item[r]]

-----------------------------------------------------------------------------
(***************************************************************************)
(* STEP 1 of IMB_init_buffers_iter: as many repetitions as x_sample and    *)
(* overall_vol allow, or for benchmarks with a root a multiple of NP on a  *)
(* leg of a hyperbola in the message size, whose denominator is an int.    *)
(* (It may be 0; the quotient as int is the least int then.)               *)
(***************************************************************************)
Wrap(x) == ((x + IntMax) % (2 * IntMax)) - IntMax

HyperbolaPositive(o, size) ==                \* mutant: the leg mirrored
  LET den == Wrap(NP * (2 * o.max_msg_size - Greater(size, asize)) + o.max_msg_size)
      tmp == (2 * o.msgspersample * o.max_msg_size + den) \div (2 * den)
  IN  IF den <= 0 THEN NP ELSE Greater(tmp - (tmp % NP), NP)

Hyperbola(o, size) ==
  LET den == Wrap(NP * Greater(size, asize) + o.max_msg_size)
      tmp == (2 * o.msgspersample * o.max_msg_size + den) \div (2 * den)
  IN  IF den <= 0 THEN NP ELSE Greater(tmp - (tmp % NP), NP)

SelectedLeast(o, size) ==                    \* mutant: at least one repetition forgotten
  CASE o.policy = "off" -> o.msgspersample
    [] o.policy = "multiple_np" -> Hyperbola(o, size)
    [] OTHER -> IF size > 0 THEN Lesser(o.overall_vol \div size, o.x_sample)
                            ELSE o.x_sample

Selected(o, size) ==
  CASE o.policy = "off" -> o.msgspersample
    [] o.policy = "multiple_np" -> Hyperbola(o, size)
    [] OTHER -> IF size > 0
                THEN Greater(1, Lesser(o.overall_vol \div size, o.x_sample))
                ELSE o.x_sample

(***************************************************************************)
(* The number of repetitions for about a second; and for secs seconds,     *)
(* without a limit when the time was too short to be measured.             *)
(***************************************************************************)
RepTest(t) ==
  IF t * MSGSPERSAMPLE < Second THEN MSGSPERSAMPLE
  ELSE IF t < Second THEN (2 * Second + t) \div (2 * t)
  ELSE 1

Fit(t, selected) == IF t > 0 THEN 1 + (opt.secs * Second) \div t ELSE selected

(***************************************************************************)
(* MPI_Allreduce with MPI_MAX on the communicator: the set of its result.  *)
(***************************************************************************)
AllreduceSelf(f) == {f}                   \* mutant: on MPI_COMM_SELF

Allreduce(f) ==
  {[r \in Rank |-> m] : m \in {n \in {f[q] : q \in Rank} : \A q \in Rank : f[q] <= n}}

-----------------------------------------------------------------------------
Init ==
  /\ opt \in Options
  /\ pc = [r \in Rank |-> "select"]
  /\ item = [r \in Rank |-> 1]
  /\ n_sample = [r \in Rank |-> 0]
  /\ n_sample_prev = [r \in Rank |-> 0]
  /\ numiters \in [Rank -> [DOMAIN opt.lens -> Garbage]]
  /\ time = [r \in Rank |-> 0]
  /\ t_sample = [r \in Rank |-> 0]
  /\ idx = [r \in Rank |-> 1]
  /\ bcast = <<>>
  /\ ran = [r \in Rank |-> [p \in Runs |-> [k \in DOMAIN opt.lens |-> 0]]]

(***************************************************************************)
(* A new size.  The first trial run of the policy dynamic is of one        *)
(* repetition, the only one of the others of as many as the measurement.   *)
(***************************************************************************)
Select(r) ==
  /\ pc[r] = "select" /\ item[r] <= Len(opt.lens)
  /\ IF opt.policy = "dynamic"
     THEN /\ pc' = [pc EXCEPT ![r] = "once"]
          /\ n_sample' = [n_sample EXCEPT ![r] = 1]
          /\ n_sample_prev' = IF item[r] = 1
                              THEN [n_sample_prev EXCEPT ![r] = opt.msgspersample]
                              ELSE n_sample_prev
     ELSE /\ pc' = [pc EXCEPT ![r] = "trial"]
          /\ n_sample' = [n_sample EXCEPT ![r] = Selected(opt, Size(r))]
          /\ UNCHANGED n_sample_prev
  /\ UNCHANGED <<opt, item, numiters, time, t_sample, idx, bcast, ran>>

(***************************************************************************)
(* A run of the kernel, a trial run or the measurement.                    *)
(***************************************************************************)
Kernel(r) ==
  /\ pc[r] \in Runs
  /\ \E t \in Times : time' = [time EXCEPT ![r] = t]
  /\ ran' = [ran EXCEPT ![r][pc[r]][item[r]] = n_sample[r]]
  /\ pc' = [pc EXCEPT ![r] = CASE @ = "once" -> "time" [] @ = "second" -> "time2"
                               [] @ = "trial" -> "measure" [] OTHER -> "select"]
  /\ item' = IF pc[r] = "measure" THEN [item EXCEPT ![r] = @ + 1] ELSE item
  /\ n_sample_prev' = IF pc[r] = "trial"
                      THEN [n_sample_prev EXCEPT ![r] = n_sample[r]]
                      ELSE n_sample_prev
  /\ UNCHANGED <<opt, n_sample, numiters, t_sample, idx, bcast>>

(***************************************************************************)
(* MPI_Allreduce of the time, and of the repetitions it suggests: steps of *)
(* all ranks.                                                              *)
(***************************************************************************)
ReduceTime ==
  \E p \in {"time", "time2"} :
    /\ \A r \in Rank : pc[r] = p
    /\ time' \in Allreduce(time)
    /\ pc' = [r \in Rank |-> IF p = "time" THEN "rep_test" ELSE "fit"]
    /\ UNCHANGED <<opt, item, n_sample, n_sample_prev, numiters, t_sample, idx,
                   bcast, ran>>

ReduceReps ==
  /\ \A r \in Rank : pc[r] = "rep_test"
  /\ \E acc_rep_test \in Allreduce([r \in Rank |-> RepTest(time[r])]) :
       n_sample' = [r \in Rank |-> Lesser(Selected(opt, Size(r)), acc_rep_test[r])]
  /\ pc' = [r \in Rank |-> IF n_sample'[r] > 1 THEN "second" ELSE "fit"]
  /\ UNCHANGED <<opt, item, n_sample_prev, numiters, time, t_sample, idx, bcast, ran>>

(***************************************************************************)
(* What fits into the time; then, for the sizes of -msglen, the loop that  *)
(* "checks monotonicity with msg sizes" against all sizes before.          *)
(***************************************************************************)
FitTime(r) ==
  /\ pc[r] = "fit"
  /\ t_sample' = [t_sample EXCEPT ![r] = Fit(time[r], Selected(opt, Size(r)))]
  /\ idx' = [idx EXCEPT ![r] = 1]
  /\ pc' = [pc EXCEPT ![r] = IF opt.listed THEN "monotonic" ELSE "settle"]
  /\ UNCHANGED <<opt, item, n_sample, n_sample_prev, numiters, time, bcast, ran>>

CheckMonotonicFirst(r) ==                 \* mutant: only the sizes before the last
  /\ pc[r] = "monotonic"
  /\ IF idx[r] < item[r] - 1
     THEN /\ t_sample' = [t_sample EXCEPT ![r] =
               IF opt.lens[idx[r]] < Size(r) THEN Lesser(@, numiters[r][idx[r]])
                                             ELSE Greater(@, numiters[r][idx[r]])]
          /\ idx' = [idx EXCEPT ![r] = @ + 1]
          /\ UNCHANGED pc
     ELSE pc' = [pc EXCEPT ![r] = "settle"] /\ UNCHANGED <<t_sample, idx>>
  /\ UNCHANGED <<opt, item, n_sample, n_sample_prev, numiters, time, bcast, ran>>

CheckMonotonicAgain(r) ==                 \* mutant: the loop variable does not advance
  /\ pc[r] = "monotonic"
  /\ IF idx[r] < item[r]
     THEN /\ t_sample' = [t_sample EXCEPT ![r] =
               IF opt.lens[idx[r]] < Size(r) THEN Lesser(@, numiters[r][idx[r]])
                                             ELSE Greater(@, numiters[r][idx[r]])]
          /\ UNCHANGED <<idx, pc>>
     ELSE pc' = [pc EXCEPT ![r] = "settle"] /\ UNCHANGED <<t_sample, idx>>
  /\ UNCHANGED <<opt, item, n_sample, n_sample_prev, numiters, time, bcast, ran>>

CheckMonotonic(r) ==
  /\ pc[r] = "monotonic"
  /\ IF idx[r] < item[r]
     THEN /\ t_sample' = [t_sample EXCEPT ![r] =
               IF opt.lens[idx[r]] < Size(r) THEN Lesser(@, numiters[r][idx[r]])
                                             ELSE Greater(@, numiters[r][idx[r]])]
          /\ idx' = [idx EXCEPT ![r] = @ + 1]
          /\ UNCHANGED pc
     ELSE pc' = [pc EXCEPT ![r] = "settle"] /\ UNCHANGED <<t_sample, idx>>
  /\ UNCHANGED <<opt, item, n_sample, n_sample_prev, numiters, time, bcast, ran>>

SettleUnbounded(r) ==                     \* mutant: the selected number forgotten
  /\ pc[r] = "settle"
  /\ LET n == IF opt.listed THEN t_sample[r]
                            ELSE Lesser(n_sample_prev[r], t_sample[r])
     IN  /\ n_sample' = [n_sample EXCEPT ![r] = n]
         /\ numiters' = IF opt.listed THEN [numiters EXCEPT ![r][item[r]] = n]
                                      ELSE numiters
  /\ pc' = [pc EXCEPT ![r] = "bcast"]
  /\ UNCHANGED <<opt, item, n_sample_prev, time, t_sample, idx, bcast, ran>>

Settle(r) ==
  /\ pc[r] = "settle"
  /\ LET n == Lesser(Selected(opt, Size(r)),
                     IF opt.listed THEN t_sample[r]
                                   ELSE Lesser(n_sample_prev[r], t_sample[r]))
     IN  /\ n_sample' = [n_sample EXCEPT ![r] = n]
         /\ numiters' = IF opt.listed THEN [numiters EXCEPT ![r][item[r]] = n]
                                      ELSE numiters
  /\ pc' = [pc EXCEPT ![r] = "bcast"]
  /\ UNCHANGED <<opt, item, n_sample_prev, time, t_sample, idx, bcast, ran>>

(***************************************************************************)
(* MPI_Bcast of rank 0's number, which the measurement is made with.       *)
(***************************************************************************)
Send ==
  /\ pc[0] = "bcast"
  /\ bcast' = Append(bcast, n_sample[0])
  /\ n_sample_prev' = [n_sample_prev EXCEPT ![0] = n_sample[0]]
  /\ pc' = [pc EXCEPT ![0] = "measure"]
  /\ UNCHANGED <<opt, item, n_sample, numiters, time, t_sample, idx, ran>>

Receive(r) ==
  /\ pc[r] = "bcast" /\ r # 0 /\ Len(bcast) >= item[r]
  /\ n_sample' = [n_sample EXCEPT ![r] = bcast[item[r]]]
  /\ n_sample_prev' = [n_sample_prev EXCEPT ![r] = bcast[item[r]]]
  /\ pc' = [pc EXCEPT ![r] = "measure"]
  /\ UNCHANGED <<opt, item, numiters, time, t_sample, idx, bcast, ran>>

Done == \A r \in Rank : item[r] > Len(opt.lens)

Terminated == Done /\ UNCHANGED vars

Step ==
  \/ \E r \in Rank : \/ Select(r) \/ Kernel(r) \/ FitTime(r) \/ CheckMonotonic(r)
                     \/ Settle(r) \/ Receive(r)
  \/ ReduceTime \/ ReduceReps \/ Send

Next == Step \/ Terminated

Spec == Init /\ [][Next]_vars

FairSpec == Spec /\ WF_vars(Step)

-----------------------------------------------------------------------------
(***************************************************************************)
(* The variables have values of their kinds, n_sample at least 1 when the  *)
(* kernel is run with it.                                                  *)
(***************************************************************************)
TypeOK ==
  /\ opt \in Options
  /\ pc \in [Rank -> {"select", "once", "trial", "time", "rep_test", "second", "time2",
                      "fit", "monotonic", "settle", "bcast", "measure"}]
  /\ item \in [Rank -> 1 .. Len(opt.lens) + 1]
  /\ n_sample \in [Rank -> Int]
  /\ \A r \in Rank : pc[r] \in Runs => n_sample[r] > 0
  /\ n_sample_prev \in [Rank -> Int]
  /\ numiters \in [Rank -> [DOMAIN opt.lens -> Int]]
  /\ time \in [Rank -> Nat]
  /\ t_sample \in [Rank -> Int]
  /\ idx \in [Rank -> 1 .. Len(opt.lens) + 1]
  /\ bcast \in Seq(Nat \ {0})
  /\ ran \in [Rank -> [Runs -> [DOMAIN opt.lens -> Nat]]]

(***************************************************************************)
(* All ranks run the kernel with the same number of repetitions, in trials *)
(* and measurements; otherwise messages are left over or ranks wait        *)
(* forever.                                                                *)
(***************************************************************************)
SameRuns ==
  \A r, q \in Rank, p \in Runs, k \in DOMAIN opt.lens :
    \/ ran[r][p][k] = ran[q][p][k]
    \/ ran[r][p][k] = 0 /\ item[r] <= k
    \/ ran[q][p][k] = 0 /\ item[q] <= k

(***************************************************************************)
(* "check monotonicity with msg sizes": whatever the times measured and in *)
(* whatever order the sizes are given, with the policy dynamic a larger    *)
(* message is never measured with more repetitions than a smaller one.     *)
(***************************************************************************)
Measured(r) == {k \in DOMAIN opt.lens : ran[r]["measure"][k] # 0}

Antitone(r) ==
  \A j, k \in Measured(r) :
    opt.lens[j] < opt.lens[k] => ran[r]["measure"][j] >= ran[r]["measure"][k]

Monotonic == opt.policy = "dynamic" => \A r \in Rank : Antitone(r)

(***************************************************************************)
(* For benchmarks with a root "the formula below is a negative leg of      *)
(* hyperbola" in the message size: the number does not grow with it, unless*)
(* the denominator is beyond the range of an int.                          *)
(***************************************************************************)
NegativeLeg == opt.policy = "multiple_np" => \A r \in Rank : Antitone(r)

(***************************************************************************)
(* The restrictions of -iter with the policy dynamic: at most x_sample     *)
(* repetitions and, with more than one, at most overall_vol bytes.         *)
(***************************************************************************)
Restrictions ==
  opt.policy = "dynamic" =>
    \A r \in Rank : \A k \in Measured(r) :
      LET n == ran[r]["measure"][k]
      IN  n = 1 \/ (n <= opt.x_sample /\ n * opt.lens[k] <= opt.overall_vol)

(***************************************************************************)
(* All sizes are measured.                                                 *)
(***************************************************************************)
AllMeasured == <>Done

-----------------------------------------------------------------------------
(***************************************************************************)
(* The inductive invariant.  With the policy dynamic the ranks are in the  *)
(* same segment between two MPI_Allreduce.                                 *)
(***************************************************************************)
Segment(r) ==
  CASE pc[r] \in {"select", "once", "time"} -> 3 * item[r]
    [] pc[r] = "rep_test" -> 3 * item[r] + 1
    [] pc[r] \in {"second", "time2"} -> 3 * item[r] + 2
    [] OTHER -> 3 * item[r] + 3

Together == \A r, q \in Rank : Segment(r) = Segment(q)

(***************************************************************************)
(* What a rank is about to run the kernel with, and what it has run it     *)
(* with: known beforehand, received from rank 0, or agreed upon.           *)
(***************************************************************************)
Prepared(r) ==
  /\ pc[r] # "trial"
  /\ pc[r] # "select" => item[r] <= Len(opt.lens)
  /\ pc[r] = "once" => n_sample[r] = 1
  /\ pc[r] = "measure" => item[r] <= Len(bcast) /\ n_sample[r] = bcast[item[r]]

Recorded(r, k) ==
  /\ ran[r]["trial"][k] = 0
  /\ ran[r]["once"][k] =
       IF k < item[r] \/ (k = item[r] /\ pc[r] \notin {"select", "once"}) THEN 1 ELSE 0
  /\ IF k < item[r] THEN k <= Len(bcast) /\ ran[r]["measure"][k] = bcast[k]
                    ELSE ran[r]["measure"][k] = 0
  /\ k > item[r] \/ (k = item[r] /\ pc[r] \in {"select", "once", "time", "rep_test",
                                                "second"})
       => ran[r]["second"][k] = 0
  /\ k = item[r] /\ pc[r] = "time2" => ran[r]["second"][k] = n_sample[r]

AgreedReps ==
  \A r, q \in Rank : pc[r] \in {"second", "time2"} => n_sample[r] = n_sample[q]

AgreedSecond ==
  \A r, q \in Rank, k \in DOMAIN opt.lens :
    (Segment(r) > 3 * k + 2 /\ Segment(q) > 3 * k + 2)
      => ran[r]["second"][k] = ran[q]["second"][k]

DynamicRuns ==
  /\ \A r \in Rank : Prepared(r) /\ \A k \in DOMAIN opt.lens : Recorded(r, k)
  /\ AgreedReps /\ AgreedSecond

(***************************************************************************)
(* What rank 0 has sent does not grow with the size; the number it is      *)
(* choosing lies between those of larger and of smaller sizes before.      *)
(***************************************************************************)
Fits(n, size, j) ==
  /\ opt.lens[j] < size => n <= bcast[j]
  /\ size <= opt.lens[j] => n >= bcast[j]

FitsBefore(n, r, last) == \A j \in 1 .. last : j < item[r] => Fits(n, Size(r), j)

BcastOrdered ==
  \A k \in 1 .. Len(bcast) :
    /\ k \in DOMAIN opt.lens /\ bcast[k] <= Selected(opt, opt.lens[k])
    /\ \A j \in 1 .. Len(bcast) : opt.lens[j] < opt.lens[k] => bcast[j] >= bcast[k]
    /\ opt.listed => numiters[0][k] = bcast[k]

Previous ==
  IF Len(bcast) > 0 THEN n_sample_prev[0] = bcast[Len(bcast)]
  ELSE pc[0] # "select" => n_sample_prev[0] = opt.msgspersample

Fitting ==
  /\ pc[0] \in {"monotonic", "settle"} => t_sample[0] > 0
  /\ pc[0] = "monotonic" =>
       opt.listed /\ idx[0] <= item[0] /\ FitsBefore(t_sample[0], 0, idx[0] - 1)
  /\ (pc[0] = "settle" /\ opt.listed) => FitsBefore(t_sample[0], 0, item[0])
  /\ pc[0] = "bcast" =>
       /\ n_sample[0] > 0 /\ n_sample[0] <= Selected(opt, Size(0))
       /\ FitsBefore(n_sample[0], 0, item[0])
       /\ opt.listed => numiters[0][item[0]] = n_sample[0]

Choosing ==
  /\ Len(bcast) = IF pc[0] = "measure" THEN item[0] ELSE item[0] - 1
  /\ BcastOrdered /\ Previous /\ Fitting

(***************************************************************************)
(* The other policies: all is known beforehand.                            *)
(***************************************************************************)
FixedRuns ==
  \A r \in Rank :
    /\ pc[r] \in {"select", "trial", "measure"}
    /\ pc[r] # "select" => item[r] <= Len(opt.lens) /\ n_sample[r] = Selected(opt, Size(r))
    /\ \A k \in DOMAIN opt.lens :
         /\ ran[r]["once"][k] = 0 /\ ran[r]["second"][k] = 0
         /\ ran[r]["trial"][k] =
              IF k < item[r] \/ (k = item[r] /\ pc[r] = "measure")
              THEN Selected(opt, opt.lens[k]) ELSE 0
         /\ ran[r]["measure"][k] = IF k < item[r] THEN Selected(opt, opt.lens[k]) ELSE 0

IInv ==
  /\ TypeOK
  /\ IF opt.policy = "dynamic" THEN Together /\ DynamicRuns /\ Choosing ELSE FixedRuns
=============================================================================
