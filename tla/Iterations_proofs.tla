-------------------------- MODULE Iterations_proofs --------------------------
(***************************************************************************)
(* Theorems about the number of repetitions.                               *)
(***************************************************************************)
EXTENDS Iterations, TLAPS, SequenceTheorems

(***************************************************************************)
(* Arithmetic.                                                             *)
(***************************************************************************)
LEMMA DivPositive ==
  ASSUME NEW x \in Nat, NEW y \in Nat \ {0}, y <= x
  PROVE  x \div y \in Nat \ {0}
<1>1. x \div y \in Int /\ x = y * (x \div y) + (x % y) /\ x % y \in 0 .. y - 1
  OBVIOUS
<1>2. x \div y > 0
  <2>1. SUFFICES ASSUME x \div y <= 0 PROVE FALSE
    BY <1>1
  <2>2. y * (x \div y) <= 0
    BY <1>1, <2>1
  <2> QED BY <1>1, <2>2
<1> QED BY <1>1, <1>2

LEMMA DivNat ==
  ASSUME NEW x \in Nat, NEW y \in Nat \ {0}
  PROVE  x \div y \in Nat
OBVIOUS

LEMMA Quotient ==
  ASSUME NEW x \in Nat, NEW y \in Nat \ {0}
  PROVE  x \div y \in Nat /\ y * (x \div y) <= x /\ x < y * (x \div y) + y
<1>1. x \div y \in Nat /\ x = y * (x \div y) + (x % y) /\ x % y \in 0 .. y - 1
  OBVIOUS
<1> QED BY <1>1

LEMMA DivTimes ==
  ASSUME NEW x \in Nat, NEW y \in Nat \ {0}, NEW n \in Nat, n <= x \div y
  PROVE  n * y <= x
<1>1. x \div y \in Nat /\ x = y * (x \div y) + (x % y) /\ x % y \in 0 .. y - 1
  OBVIOUS
<1>2. n * y <= (x \div y) * y
  BY <1>1
<1> QED BY <1>1, <1>2

LEMMA DivAntitone ==
  ASSUME NEW x \in Nat, NEW a \in Nat \ {0}, NEW b \in Nat \ {0}, a <= b
  PROVE  x \div b <= x \div a
<1> DEFINE p == x \div a
           q == x \div b
<1>1. /\ p \in Nat /\ x = a * p + (x % a) /\ x % a \in 0 .. a - 1
      /\ q \in Nat /\ x = b * q + (x % b) /\ x % b \in 0 .. b - 1
  OBVIOUS
<1>2. SUFFICES ASSUME p + 1 <= q PROVE FALSE
  BY <1>1
<1>3. a * (p + 1) <= a * q /\ a * q <= b * q
  BY <1>1, <1>2
<1>4. a * (p + 1) = a * p + a
  BY <1>1
<1> QED BY <1>1, <1>3, <1>4

-----------------------------------------------------------------------------
(***************************************************************************)
(* The selected number is positive and, with the policy dynamic, does not  *)
(* grow with the size.                                                     *)
(***************************************************************************)
LEMMA SelectedPositive ==
  ASSUME NEW o \in Options, NEW size \in Nat
  PROVE  Selected(o, size) \in Nat \ {0}
<1>1. o \in OptionType
  BY OptionsAssumption
<1>2. CASE o.policy = "off"
  BY <1>1, <1>2 DEF Selected, OptionType
<1>3. CASE o.policy = "multiple_np"
  <2> DEFINE den == Wrap(NP * Greater(size, asize) + o.max_msg_size)
             tmp == (2 * o.msgspersample * o.max_msg_size + den) \div (2 * den)
  <2>1. den \in Int
    <3>1. NP * Greater(size, asize) + o.max_msg_size \in Int
      BY <1>1, NPAssumption, NumbersAssumption DEF Greater, OptionType
    <3> QED BY <3>1, NumbersAssumption DEF Wrap
  <2>2. ASSUME den > 0 PROVE Greater(tmp - (tmp % NP), NP) \in Nat \ {0}
    <3>1. 2 * o.msgspersample * o.max_msg_size \in Nat
      BY <1>1 DEF OptionType
    <3>2. tmp \in Nat
      <4> DEFINE x == 2 * o.msgspersample * o.max_msg_size + den
                 y == 2 * den
      <4> HIDE DEF den
      <4>1. x \in Nat /\ y \in Nat \ {0}
        BY <2>1, <2>2, <3>1
      <4> HIDE DEF x, y
      <4>2. x \div y \in Nat
        BY <4>1, DivNat
      <4> QED BY <4>2 DEF x, y
    <3>3. tmp % NP \in 0 .. NP - 1
      BY <3>2, NPAssumption
    <3> HIDE DEF tmp
    <3> QED BY <3>2, <3>3, NPAssumption DEF Greater
  <2> HIDE DEF tmp, den
  <2>3. Selected(o, size) = IF den <= 0 THEN NP ELSE Greater(tmp - (tmp % NP), NP)
    BY <1>3 DEF Selected, Hyperbola, den, tmp
  <2> QED BY <2>1, <2>2, <2>3, NPAssumption
<1>4. CASE o.policy = "dynamic"
  <2>1. size > 0 => o.overall_vol \div size \in Nat
    BY <1>1, DivNat DEF OptionType
  <2> QED BY <1>1, <1>4, <2>1 DEF Selected, OptionType, Greater, Lesser
<1> QED BY <1>1, <1>2, <1>3, <1>4 DEF OptionType, Policies

LEMMA SelectedAntitone ==
  ASSUME NEW o \in Options, o.policy = "dynamic",
         NEW a \in Nat, NEW b \in Nat, a <= b
  PROVE  Selected(o, b) <= Selected(o, a)
<1>1. o \in OptionType
  BY OptionsAssumption
<1>2. a > 0 => /\ o.overall_vol \div a \in Nat /\ o.overall_vol \div b \in Nat
               /\ o.overall_vol \div b <= o.overall_vol \div a
  <2>1. SUFFICES ASSUME a > 0
                 PROVE  /\ o.overall_vol \div a \in Nat
                        /\ o.overall_vol \div b \in Nat
                        /\ o.overall_vol \div b <= o.overall_vol \div a
    OBVIOUS
  <2>2. o.overall_vol \in Nat /\ a \in Nat \ {0} /\ b \in Nat \ {0}
    BY <1>1, <2>1 DEF OptionType
  <2>3. o.overall_vol \div a \in Nat /\ o.overall_vol \div b \in Nat
    BY <2>2, DivNat
  <2> QED BY <2>2, <2>3, DivAntitone
<1>3. b > 0 => o.overall_vol \div b \in Nat
  BY <1>1, DivNat DEF OptionType
<1> QED BY <1>1, <1>2, <1>3 DEF Selected, OptionType, Greater, Lesser

(***************************************************************************)
(* The restrictions of -iter are in the selected number.                   *)
(***************************************************************************)
LEMMA SelectedRestricted ==
  ASSUME NEW o \in Options, o.policy = "dynamic", NEW size \in Nat,
         NEW n \in Nat \ {0}, n <= Selected(o, size)
  PROVE  n = 1 \/ (n <= o.x_sample /\ n * size <= o.overall_vol)
<1>1. o \in OptionType
  BY OptionsAssumption
<1>2. CASE size = 0
  BY <1>1, <1>2 DEF Selected, OptionType
<1>3. CASE size > 0
  <2>1. o.overall_vol \div size \in Nat
    BY <1>1, <1>3, DivNat DEF OptionType
  <2>2. n = 1 \/ (n <= o.x_sample /\ n <= o.overall_vol \div size)
    BY <1>1, <1>3, <2>1 DEF Selected, OptionType, Greater, Lesser
  <2>3. n <= o.overall_vol \div size => n * size <= o.overall_vol
    BY <1>1, <1>3, DivTimes DEF OptionType
  <2> QED BY <2>2, <2>3
<1> QED BY <1>2, <1>3

LEMMA RepTestPositive ==
  ASSUME NEW t \in Nat
  PROVE  RepTest(t) \in Nat \ {0}
<1>1. CASE t * MSGSPERSAMPLE < Second
  BY <1>1, NumbersAssumption DEF RepTest
<1>2. CASE ~ (t * MSGSPERSAMPLE < Second) /\ t < Second
  <2>1. t # 0
    BY <1>2, TimesAssumption, NumbersAssumption
  <2>2. 2 * t \in Nat \ {0} /\ 2 * Second + t \in Nat /\ 2 * t <= 2 * Second + t
    BY <1>2, <2>1, TimesAssumption
  <2> QED BY <1>2, <2>2, DivPositive DEF RepTest
<1>3. CASE ~ (t * MSGSPERSAMPLE < Second) /\ ~ (t < Second)
  BY <1>3 DEF RepTest
<1> QED BY <1>1, <1>2, <1>3

LEMMA FitPositive ==
  ASSUME opt \in Options, NEW t \in Nat, NEW n \in Nat \ {0}
  PROVE  Fit(t, n) \in Nat \ {0}
<1>1. opt \in OptionType
  BY OptionsAssumption
<1>2. opt.secs * Second \in Nat
  BY <1>1, TimesAssumption DEF OptionType
<1>3. t > 0 => (opt.secs * Second) \div t \in Nat
  BY <1>2, DivNat
<1> QED BY <1>3 DEF Fit

LEMMA SelectedInt ==
  ASSUME NEW o \in Options, NEW k \in DOMAIN o.lens
  PROVE  o.lens[k] \in Nat /\ Selected(o, o.lens[k]) \in Nat \ {0}
<1>1. o.lens[k] \in Nat
  BY OptionsAssumption, ElementOfSeq DEF OptionType
<1> QED BY <1>1, SelectedPositive

(***************************************************************************)
(* Neither does the leg of the hyperbola, when its denominator is an int.  *)
(***************************************************************************)
NoOverflow ==
  \A o \in Options : \A k \in DOMAIN o.lens :
    NP * Greater(o.lens[k], asize) + o.max_msg_size < IntMax

LEMMA WrapNothing ==
  ASSUME NEW x \in Nat, x < IntMax
  PROVE  Wrap(x) = x
<1>1. IntMax \in Nat \ {0}
  BY NumbersAssumption
<1>2. x + IntMax \in 0 .. 2 * IntMax - 1
  BY <1>1
<1>3. (x + IntMax) % (2 * IntMax) = x + IntMax
  BY <1>1, <1>2
<1> QED BY <1>1, <1>3 DEF Wrap

LEMMA RoundedAntitone ==
  ASSUME NEW x \in Nat, NEW a \in Nat \ {0}, NEW b \in Nat \ {0}, a <= b
  PROVE  (x + b) \div (2 * b) <= (x + a) \div (2 * a)
<1> DEFINE p == (x + a) \div (2 * a)
           q == (x + b) \div (2 * b)
<1>1. p \in Nat /\ (2 * a) * p <= x + a /\ x + a < (2 * a) * p + 2 * a
  <2>1. x + a \in Nat /\ 2 * a \in Nat \ {0}
    OBVIOUS
  <2> QED BY <2>1, Quotient
<1>2. q \in Nat /\ (2 * b) * q <= x + b
  <2>1. x + b \in Nat /\ 2 * b \in Nat \ {0}
    OBVIOUS
  <2> QED BY <2>1, Quotient
<1> HIDE DEF p, q
<1>3. SUFFICES ASSUME p + 1 <= q PROVE FALSE
  BY <1>1, <1>2 DEF p, q
<1>4. b * (2 * q - 1) <= x
  BY <1>2
<1>5. a * (2 * q - 1) <= b * (2 * q - 1)
  BY <1>1, <1>2, <1>3
<1>6. a * (2 * p + 1) <= a * (2 * q - 1)
  BY <1>1, <1>2, <1>3
<1>7. x < a * (2 * p + 1)
  BY <1>1
<1>8. b * (2 * q - 1) \in Int /\ a * (2 * q - 1) \in Int /\ a * (2 * p + 1) \in Int
  BY <1>1, <1>2
<1> QED BY <1>4, <1>5, <1>6, <1>7, <1>8

LEMMA MultipleMonotone ==
  ASSUME NEW s \in Nat, NEW t \in Nat, s <= t, NEW n \in Nat \ {0}
  PROVE  /\ s - (s % n) \in Nat /\ t - (t % n) \in Nat
         /\ s - (s % n) <= t - (t % n)
<1> DEFINE p == s \div n
           q == t \div n
<1>1. p \in Nat /\ s = n * p + (s % n) /\ s % n \in 0 .. n - 1
  OBVIOUS
<1>2. q \in Nat /\ t = n * q + (t % n) /\ t % n \in 0 .. n - 1
  OBVIOUS
<1> HIDE DEF p, q
<1>3. n * p \in Nat /\ n * q \in Nat
  BY <1>1, <1>2
<1>4. n * p <= n * q
  <2>1. SUFFICES ASSUME q + 1 <= p PROVE FALSE
    BY <1>1, <1>2
  <2>2. n * (q + 1) <= n * p
    BY <1>1, <1>2, <2>1
  <2>3. n * (q + 1) = n * q + n
    BY <1>2
  <2> QED BY <1>1, <1>2, <1>3, <2>2, <2>3
<1> QED BY <1>1, <1>2, <1>3, <1>4

LEMMA HyperbolaAntitone ==
  ASSUME NoOverflow, NEW o \in Options,
         NEW j \in DOMAIN o.lens, NEW k \in DOMAIN o.lens, o.lens[j] <= o.lens[k]
  PROVE  Hyperbola(o, o.lens[k]) <= Hyperbola(o, o.lens[j])
<1>1. o \in OptionType /\ o.lens[j] \in Nat /\ o.lens[k] \in Nat
  BY OptionsAssumption, SelectedInt
<1> DEFINE den(i) == NP * Greater(o.lens[i], asize) + o.max_msg_size
           A == 2 * o.msgspersample * o.max_msg_size
           tmp(i) == (A + den(i)) \div (2 * den(i))
<1>2. A \in Nat /\ o.max_msg_size \in Nat \ {0}
  <2>1. o.msgspersample \in Nat /\ o.max_msg_size \in Nat \ {0}
    BY <1>1 DEF OptionType
  <2> HIDE DEF OptionType
  <2>2. 2 * o.msgspersample * o.max_msg_size \in Nat
    BY <2>1
  <2> QED BY <2>1, <2>2
<1>3. ASSUME NEW i \in {j, k}
      PROVE  den(i) \in Nat \ {0} /\ Wrap(den(i)) = den(i)
  <2>1. Greater(o.lens[i], asize) \in Nat
    BY <1>1, NumbersAssumption DEF Greater
  <2>2. NP * Greater(o.lens[i], asize) \in Nat
    BY <2>1, NPAssumption
  <2>3. den(i) \in Nat \ {0}
    BY <1>2, <2>2
  <2>4. den(i) < IntMax
    BY DEF NoOverflow
  <2> HIDE DEF den
  <2> QED BY <2>3, <2>4, WrapNothing
<1>4. den(j) <= den(k)
  <2>1. /\ Greater(o.lens[j], asize) \in Nat /\ Greater(o.lens[k], asize) \in Nat
        /\ Greater(o.lens[j], asize) <= Greater(o.lens[k], asize)
    BY <1>1, NumbersAssumption DEF Greater
  <2>2. NP * Greater(o.lens[j], asize) <= NP * Greater(o.lens[k], asize)
    BY <2>1, NPAssumption
  <2>3. NP * Greater(o.lens[j], asize) \in Nat /\ NP * Greater(o.lens[k], asize) \in Nat
    BY <2>1, NPAssumption
  <2> QED BY <1>2, <2>2, <2>3
<1>5. ASSUME NEW i \in {j, k}
      PROVE  Hyperbola(o, o.lens[i]) = Greater(tmp(i) - (tmp(i) % NP), NP)
  BY <1>3, <1>5 DEF Hyperbola
<1> HIDE DEF den, A
<1>6. tmp(j) \in Nat /\ tmp(k) \in Nat
  BY <1>2, <1>3, DivNat
<1>7. tmp(k) <= tmp(j)
  BY <1>2, <1>3, <1>4, RoundedAntitone
<1> HIDE DEF tmp
<1>8. /\ tmp(k) - (tmp(k) % NP) \in Nat /\ tmp(j) - (tmp(j) % NP) \in Nat
      /\ tmp(k) - (tmp(k) % NP) <= tmp(j) - (tmp(j) % NP)
  BY <1>6, <1>7, NPAssumption, MultipleMonotone
<1> QED BY <1>5, <1>8, NPAssumption DEF Greater

LEMMA Lens ==
  ASSUME TypeOK
  PROVE  /\ opt \in OptionType /\ opt.lens \in Seq(Nat)
         /\ Len(opt.lens) \in Nat /\ DOMAIN opt.lens = 1 .. Len(opt.lens)
         /\ \A k \in DOMAIN opt.lens : opt.lens[k] \in Nat
         /\ \A k \in DOMAIN opt.lens : Selected(opt, opt.lens[k]) \in Nat \ {0}
<1>1. opt \in OptionType
  BY OptionsAssumption DEF TypeOK
<1>2. opt.lens \in Seq(Nat)
  BY <1>1 DEF OptionType
<1> QED BY <1>1, <1>2, SelectedInt DEF TypeOK

LEMMA Items ==
  ASSUME TypeOK
  PROVE  /\ \A r \in Rank : item[r] \in Nat /\ item[r] >= 1
         /\ \A k \in DOMAIN opt.lens : k \in Nat /\ k >= 1
<1>1. Len(opt.lens) \in Nat /\ DOMAIN opt.lens = 1 .. Len(opt.lens)
  BY Lens
<1>2. \A r \in Rank : item[r] \in 1 .. Len(opt.lens) + 1
  BY DEF TypeOK
<1> HIDE DEF TypeOK
<1> QED BY <1>1, <1>2

LEMMA RankZero == 0 \in Rank
BY NPAssumption DEF Rank

(***************************************************************************)
(* What MPI_Allreduce returns is the same on all ranks, and one of their   *)
(* values.                                                                 *)
(***************************************************************************)
LEMMA AllreduceSame ==
  ASSUME NEW S, NEW f \in [Rank -> S], NEW g \in Allreduce(f)
  PROVE  /\ g \in [Rank -> S]
         /\ \A r, q \in Rank : g[r] = g[q]
BY DEF Allreduce

-----------------------------------------------------------------------------
(***************************************************************************)
(* Types.                                                                  *)
(***************************************************************************)
LEMMA TypeStep ==
  ASSUME IInv, Step
  PROVE  TypeOK'
<1> USE DEF IInv
<1>a. /\ \A r \in Rank : pc[r] # "select" => item[r] <= Len(opt.lens)
  BY DEF DynamicRuns, Prepared, FixedRuns
<1>b. \A r \in Rank : item[r] \in Int /\ item[r] >= 1 /\ item[r] <= Len(opt.lens) + 1
  BY Lens DEF TypeOK
<1>c. TypeOK
  OBVIOUS
<1>d. opt' = opt
  BY DEF Step, Select, Kernel, FitTime, CheckMonotonic, Settle, Receive, ReduceTime,
         ReduceReps, Send
<1> HIDE DEF IInv
<1>1. ASSUME NEW r \in Rank, Select(r)
      PROVE  TypeOK'
  <2>1. Selected(opt, Size(r)) \in Nat \ {0}
    BY <1>1, <1>b, <1>c, Lens DEF Select, Size
  <2>2. opt.msgspersample \in Nat
    BY <1>c, Lens DEF OptionType
  <2>3. n_sample' \in [Rank -> Int] /\ n_sample_prev' \in [Rank -> Int]
    <3>1. n_sample \in [Rank -> Int] /\ n_sample_prev \in [Rank -> Int]
      BY <1>c DEF TypeOK
    <3>2. \/ n_sample' = [n_sample EXCEPT ![r] = 1]
          \/ n_sample' = [n_sample EXCEPT ![r] = Selected(opt, Size(r))]
      BY <1>1 DEF Select
    <3>3. \/ n_sample_prev' = [n_sample_prev EXCEPT ![r] = opt.msgspersample]
          \/ n_sample_prev' = n_sample_prev
      BY <1>1 DEF Select
    <3> QED BY <2>1, <2>2, <3>1, <3>2, <3>3
  <2>4. /\ pc' \in [Rank -> {"select", "once", "trial", "time", "rep_test", "second", "time2",
                      "fit", "monotonic", "settle", "bcast", "measure"}]
        /\ \A q \in Rank : pc'[q] \in Runs => n_sample'[q] > 0
    <3>1. n_sample'[r] > 0 /\ \A q \in Rank \ {r} : n_sample'[q] = n_sample[q]
      BY <1>1, <1>c, <2>1 DEF Select, TypeOK
    <3>2. \A q \in Rank \ {r} : pc'[q] = pc[q]
      BY <1>1, <1>c DEF Select, TypeOK
    <3>3. \A q \in Rank : pc[q] \in Runs => n_sample[q] > 0
      BY <1>c DEF TypeOK
    <3>4. pc' \in [Rank -> {"select", "once", "trial", "time", "rep_test", "second", "time2",
                      "fit", "monotonic", "settle", "bcast", "measure"}]
      BY <1>1, <1>c DEF Select, TypeOK
    <3> QED BY <3>1, <3>2, <3>3, <3>4
  <2> QED BY <1>1, <1>c, <2>3, <2>4 DEF Select, TypeOK
<1>2. ASSUME NEW r \in Rank, Kernel(r)
      PROVE  TypeOK'
  <2>1. item[r] \in DOMAIN opt.lens /\ item[r] + 1 \in 1 .. Len(opt.lens) + 1
    BY <1>2, <1>a, <1>b, <1>c, Lens DEF Kernel, Runs
  <2>2. n_sample[r] \in Nat
    BY <1>2, <1>c DEF TypeOK, Kernel
  <2>3. ran' \in [Rank -> [Runs -> [DOMAIN opt.lens -> Nat]]]
    BY <1>2, <1>c, <2>1, <2>2 DEF TypeOK, Kernel
  <2>4. time' \in [Rank -> Nat] /\ item' \in [Rank -> 1 .. Len(opt.lens) + 1]
    BY <1>2, <1>c, <2>1, TimesAssumption DEF TypeOK, Kernel
  <2>5. /\ pc' \in [Rank -> {"select", "once", "trial", "time", "rep_test", "second", "time2",
                      "fit", "monotonic", "settle", "bcast", "measure"}]
        /\ \A q \in Rank : pc'[q] \in Runs => n_sample'[q] > 0
    BY <1>2, <1>c DEF TypeOK, Kernel, Runs
  <2>6. n_sample_prev' \in [Rank -> Int]
    BY <1>2, <1>c DEF TypeOK, Kernel
  <2> QED BY <1>2, <1>c, <2>3, <2>4, <2>5, <2>6 DEF TypeOK, Kernel
<1>3. ASSUME NEW r \in Rank, FitTime(r)
      PROVE  TypeOK'
  <2>1. item[r] \in DOMAIN opt.lens
    <3>1. pc[r] = "fit"
      BY <1>3 DEF FitTime
    <3> QED BY <3>1, <1>a, <1>b, <1>c, Lens
  <2>2. Selected(opt, Size(r)) \in Nat \ {0} /\ time[r] \in Nat
    BY <2>1, <1>c, Lens DEF Size, TypeOK
  <2>3. Fit(time[r], Selected(opt, Size(r))) \in Int
    BY <1>c, <2>2, FitPositive DEF TypeOK
  <2>4. 1 \in 1 .. Len(opt.lens) + 1
    BY <1>c, Lens
  <2> QED BY <1>3, <1>c, <2>3, <2>4 DEF FitTime, TypeOK, Runs
<1>4. ASSUME NEW r \in Rank, CheckMonotonic(r)
      PROVE  TypeOK'
  <2>1. CASE idx[r] < item[r]
    <3>1. idx[r] \in DOMAIN opt.lens /\ idx[r] + 1 \in 1 .. Len(opt.lens) + 1
      <4>1. idx[r] \in Int /\ idx[r] >= 1
        BY <1>c, Lens DEF TypeOK
      <4> QED BY <2>1, <4>1, <1>b, <1>c, Lens
    <3>2. numiters[r][idx[r]] \in Int /\ t_sample[r] \in Int
      BY <3>1, <1>c DEF TypeOK
    <3>3. t_sample' \in [Rank -> Int] /\ idx' \in [Rank -> 1 .. Len(opt.lens) + 1]
      <4>1. \E t \in Int : /\ t_sample' = [t_sample EXCEPT ![r] = t]
                            /\ idx' = [idx EXCEPT ![r] = idx[r] + 1]
        BY <1>4, <2>1, <3>2 DEF CheckMonotonic, Lesser, Greater
      <4>2. t_sample \in [Rank -> Int] /\ idx \in [Rank -> 1 .. Len(opt.lens) + 1]
        BY <1>c DEF TypeOK
      <4> QED BY <3>1, <4>1, <4>2
    <3>4. pc' = pc /\ UNCHANGED <<opt, item, n_sample, n_sample_prev, numiters, time,
                                  bcast, ran>>
      BY <1>4, <2>1 DEF CheckMonotonic
    <3> QED BY <1>c, <3>3, <3>4 DEF TypeOK
  <2>2. CASE ~ (idx[r] < item[r])
    BY <1>4, <1>c, <2>2 DEF CheckMonotonic, TypeOK, Runs
  <2> QED BY <2>1, <2>2
<1>5. ASSUME NEW r \in Rank, Settle(r)
      PROVE  TypeOK'
  <2>1. item[r] \in DOMAIN opt.lens
    BY <1>5, <1>a, <1>b, <1>c, Lens DEF Settle
  <2>2. Selected(opt, Size(r)) \in Int /\ t_sample[r] \in Int /\ n_sample_prev[r] \in Int
    BY <2>1, <1>c, Lens DEF Size, TypeOK
  <2> DEFINE n == Lesser(Selected(opt, Size(r)),
                     IF opt.listed THEN t_sample[r]
                                   ELSE Lesser(n_sample_prev[r], t_sample[r]))
  <2>3. n \in Int
    BY <2>2 DEF Lesser
  <2>4. /\ n_sample' = [n_sample EXCEPT ![r] = n]
        /\ numiters' = IF opt.listed THEN [numiters EXCEPT ![r][item[r]] = n]
                                      ELSE numiters
    BY <1>5 DEF Settle
  <2> HIDE DEF n
  <2>5. numiters' \in [Rank -> [DOMAIN opt.lens -> Int]]
    <3>1. numiters \in [Rank -> [DOMAIN opt.lens -> Int]]
      BY <1>c DEF TypeOK
    <3> QED BY <2>1, <2>3, <2>4, <3>1
  <2>6. /\ pc' = [pc EXCEPT ![r] = "bcast"]
        /\ UNCHANGED <<opt, item, n_sample_prev, time, t_sample, idx, bcast, ran>>
    BY <1>5 DEF Settle
  <2>7. n_sample' \in [Rank -> Int]
    BY <1>c, <2>3, <2>4 DEF TypeOK
  <2>8. \A q \in Rank : pc'[q] \in Runs => n_sample'[q] > 0
    BY <1>c, <2>4, <2>6 DEF TypeOK, Runs
  <2> QED BY <1>c, <2>5, <2>6, <2>7, <2>8 DEF TypeOK
<1>6. ASSUME NEW r \in Rank, Receive(r)
      PROVE  TypeOK'
  <2>1. bcast[item[r]] \in Nat \ {0}
    BY <1>6, <1>b, <1>c, ElementOfSeq DEF Receive, TypeOK
  <2>2. /\ pc' \in [Rank -> {"select", "once", "trial", "time", "rep_test", "second", "time2",
                      "fit", "monotonic", "settle", "bcast", "measure"}]
        /\ n_sample' \in [Rank -> Int] /\ n_sample_prev' \in [Rank -> Int]
        /\ \A q \in Rank : pc'[q] \in Runs => n_sample'[q] > 0
    <3>1. /\ n_sample' = [n_sample EXCEPT ![r] = bcast[item[r]]]
          /\ n_sample_prev' = [n_sample_prev EXCEPT ![r] = bcast[item[r]]]
          /\ pc' = [pc EXCEPT ![r] = "measure"]
      BY <1>6 DEF Receive
    <3>2. /\ n_sample \in [Rank -> Int] /\ n_sample_prev \in [Rank -> Int]
          /\ \A q \in Rank : pc[q] \in Runs => n_sample[q] > 0
      BY <1>c DEF TypeOK
    <3>3. n_sample' \in [Rank -> Int] /\ n_sample_prev' \in [Rank -> Int]
      BY <2>1, <3>1, <3>2
    <3>4. pc' \in [Rank -> {"select", "once", "trial", "time", "rep_test", "second", "time2",
                      "fit", "monotonic", "settle", "bcast", "measure"}]
      BY <1>c, <3>1 DEF TypeOK
    <3>5. \A q \in Rank : pc'[q] \in Runs => n_sample'[q] > 0
      BY <1>c, <2>1, <3>1, <3>2 DEF TypeOK
    <3> QED BY <3>3, <3>4, <3>5
  <2>3. UNCHANGED <<opt, item, numiters, time, t_sample, idx, bcast, ran>>
    BY <1>6 DEF Receive
  <2> QED BY <1>c, <2>2, <2>3 DEF TypeOK
<1>7. ASSUME ReduceTime
      PROVE  TypeOK'
  <2>1. time' \in [Rank -> Nat]
    BY <1>7, <1>c, AllreduceSame DEF ReduceTime, TypeOK
  <2> QED BY <1>7, <1>c, <2>1 DEF ReduceTime, TypeOK, Runs
<1>8. ASSUME ReduceReps
      PROVE  TypeOK'
  <2>1. PICK acc \in Allreduce([r \in Rank |-> RepTest(time[r])]) :
          n_sample' = [r \in Rank |-> Lesser(Selected(opt, Size(r)), acc[r])]
    BY <1>8 DEF ReduceReps
  <2>2. [r \in Rank |-> RepTest(time[r])] \in [Rank -> Nat \ {0}]
    BY <1>c, RepTestPositive DEF TypeOK
  <2>3. acc \in [Rank -> Nat \ {0}]
    BY <2>1, <2>2, AllreduceSame
  <2>4. \A r \in Rank : Selected(opt, Size(r)) \in Nat \ {0}
    BY <1>8, <1>a, <1>b, <1>c, Lens DEF ReduceReps, Size
  <2>5. n_sample' \in [Rank -> Nat \ {0}]
    BY <2>1, <2>3, <2>4 DEF Lesser
  <2> QED BY <1>8, <1>c, <2>5 DEF ReduceReps, TypeOK
<1>9. ASSUME Send
      PROVE  TypeOK'
  <2>1. n_sample[0] \in Nat \ {0}
    <3>1. pc[0] = "bcast"
      BY <1>9 DEF Send
    <3>2. opt.policy = "dynamic"
      BY <3>1, RankZero DEF IInv, FixedRuns
    <3>3. n_sample[0] > 0
      BY <3>1, <3>2 DEF IInv, Choosing, Fitting
    <3>4. n_sample[0] \in Int
      BY <1>c, RankZero DEF TypeOK
    <3> QED BY <3>3, <3>4
  <2>2. /\ bcast' = Append(bcast, n_sample[0])
        /\ n_sample_prev' = [n_sample_prev EXCEPT ![0] = n_sample[0]]
        /\ pc' = [pc EXCEPT ![0] = "measure"]
        /\ UNCHANGED <<opt, item, n_sample, numiters, time, t_sample, idx, ran>>
    BY <1>9 DEF Send
  <2>3. bcast' \in Seq(Nat \ {0})
    BY <1>c, <2>1, <2>2 DEF TypeOK
  <2>4. n_sample_prev' \in [Rank -> Int]
    BY <1>c, <2>1, <2>2 DEF TypeOK
  <2>5. \A q \in Rank : pc'[q] \in Runs => n_sample'[q] > 0
    BY <1>c, <2>1, <2>2, RankZero DEF TypeOK
  <2>6. pc' \in [Rank -> {"select", "once", "trial", "time", "rep_test", "second", "time2",
                      "fit", "monotonic", "settle", "bcast", "measure"}]
    BY <1>c, <2>2 DEF TypeOK
  <2> QED BY <1>c, <2>2, <2>3, <2>4, <2>5, <2>6 DEF TypeOK
<1> HIDE DEF TypeOK
<1> QED BY <1>1, <1>2, <1>3, <1>4, <1>5, <1>6, <1>7, <1>8, <1>9 DEF Step

-----------------------------------------------------------------------------
(***************************************************************************)
(* A local step is a step of one rank, and leaves the others alone.        *)
(***************************************************************************)
Local(r) ==
  Select(r) \/ Kernel(r) \/ FitTime(r) \/ CheckMonotonic(r) \/ Settle(r) \/ Receive(r)
    \/ (r = 0 /\ Send)

LEMMA LocalOthers ==
  ASSUME TypeOK, NEW r \in Rank, Local(r), NEW q \in Rank, q # r
  PROVE  /\ pc'[q] = pc[q] /\ item'[q] = item[q] /\ n_sample'[q] = n_sample[q]
         /\ n_sample_prev'[q] = n_sample_prev[q] /\ numiters'[q] = numiters[q]
         /\ t_sample'[q] = t_sample[q] /\ idx'[q] = idx[q] /\ ran'[q] = ran[q]
<1>1. CASE Select(r)  BY <1>1 DEF Select, TypeOK
<1>2. CASE Kernel(r)  BY <1>2 DEF Kernel, TypeOK
<1>3. CASE FitTime(r)  BY <1>3 DEF FitTime, TypeOK
<1>4. CASE CheckMonotonic(r)  BY <1>4 DEF CheckMonotonic, TypeOK
<1>5. CASE Settle(r)  BY <1>5 DEF Settle, TypeOK
<1>6. CASE Receive(r)  BY <1>6 DEF Receive, TypeOK
<1>7. CASE r = 0 /\ Send  BY <1>7 DEF Send, TypeOK
<1> QED BY <1>1, <1>2, <1>3, <1>4, <1>5, <1>6, <1>7 DEF Local

-----------------------------------------------------------------------------
(***************************************************************************)
(* The policies other than dynamic.                                        *)
(***************************************************************************)
LEMMA OptSame ==
  ASSUME Step
  PROVE  opt' = opt
BY DEF Step, Select, Kernel, FitTime, CheckMonotonic, Settle, Receive, ReduceTime,
       ReduceReps, Send

LEMMA FixedStep ==
  ASSUME TypeOK, FixedRuns, opt.policy # "dynamic", Step
  PROVE  FixedRuns'
<1>0. /\ \A r \in Rank : pc[r] \in {"select", "trial", "measure"}
      /\ opt' = opt
  BY OptSame DEF FixedRuns
<1>1. ~ ReduceTime /\ ~ ReduceReps /\ ~ Send
  BY <1>0, RankZero DEF ReduceTime, ReduceReps, Send
<1>2. PICK r \in Rank : Select(r) \/ Kernel(r)
  BY <1>0, <1>1 DEF Step, FitTime, CheckMonotonic, Settle, Receive
<1>3. /\ item[r] \in Nat /\ \A q \in Rank : item[q] \in Nat
      /\ \A q \in Rank \ {r} : /\ pc'[q] = pc[q] /\ item'[q] = item[q]
                               /\ n_sample'[q] = n_sample[q] /\ ran'[q] = ran[q]
  BY <1>2, Items, LocalOthers DEF Local
<1>4. \A q \in Rank \ {r} : FixedRuns!(q)'
  BY <1>0, <1>3 DEF FixedRuns, Size
<1>5. CASE Select(r)
  <2>1. /\ pc'[r] = "trial" /\ item'[r] = item[r] /\ item[r] <= Len(opt.lens)
        /\ n_sample'[r] = Selected(opt, Size(r)) /\ ran' = ran /\ pc[r] = "select"
    BY <1>5 DEF Select, TypeOK
  <2>2. Size(r)' = Size(r)
    BY <1>0, <2>1 DEF Size
  <2>3. FixedRuns!(r)'
    BY <1>0, <2>1, <2>2 DEF FixedRuns
  <2> QED BY <1>4, <2>3 DEF FixedRuns
<1>6. CASE Kernel(r)
  <2>0. FixedRuns!(r)
    BY DEF FixedRuns
  <2>1. /\ pc[r] \in {"trial", "measure"} /\ pc[r] \in Runs
        /\ item[r] \in DOMAIN opt.lens
        /\ n_sample[r] = Selected(opt, opt.lens[item[r]]) /\ n_sample' = n_sample
    <3>1. pc[r] \in {"trial", "measure"} /\ n_sample' = n_sample
      BY <1>0, <1>6 DEF Kernel, Runs
    <3>2. item[r] \in Nat /\ item[r] >= 1
      BY Lens DEF TypeOK
    <3> QED BY <2>0, <3>1, <3>2, Lens DEF Runs, Size
  <2>2. \A k \in DOMAIN opt.lens : \A p \in Runs :
             ran'[r][p][k] = IF p = pc[r] /\ k = item[r] THEN n_sample[r]
                                                         ELSE ran[r][p][k]
    <3>1. ran' = [ran EXCEPT ![r][pc[r]][item[r]] = n_sample[r]]
      BY <1>6 DEF Kernel
    <3>2. ran \in [Rank -> [Runs -> [DOMAIN opt.lens -> Nat]]]
      BY DEF TypeOK
    <3> QED BY <2>1, <3>1, <3>2
  <2>3. CASE pc[r] = "trial"
    <3>1. pc'[r] = "measure" /\ item' = item
      BY <1>6, <2>3 DEF Kernel, TypeOK
    <3>2. \A k \in DOMAIN opt.lens :
            /\ ran'[r]["once"][k] = 0 /\ ran'[r]["second"][k] = 0
            /\ ran'[r]["trial"][k] =
                 IF k <= item[r] THEN Selected(opt, opt.lens[k]) ELSE 0
            /\ ran'[r]["measure"][k] = IF k < item[r] THEN Selected(opt, opt.lens[k]) ELSE 0
      <4>1. SUFFICES ASSUME NEW k \in DOMAIN opt.lens
                     PROVE  /\ ran'[r]["once"][k] = 0 /\ ran'[r]["second"][k] = 0
                            /\ ran'[r]["trial"][k] =
                                 IF k <= item[r] THEN Selected(opt, opt.lens[k]) ELSE 0
                            /\ ran'[r]["measure"][k] =
                                 IF k < item[r] THEN Selected(opt, opt.lens[k]) ELSE 0
        OBVIOUS
      <4>2. /\ ran[r]["once"][k] = 0 /\ ran[r]["second"][k] = 0
            /\ ran[r]["trial"][k] =
                 IF k < item[r] \/ (k = item[r] /\ pc[r] = "measure")
                 THEN Selected(opt, opt.lens[k]) ELSE 0
            /\ ran[r]["measure"][k] = IF k < item[r] THEN Selected(opt, opt.lens[k]) ELSE 0
        BY <2>0
      <4>3. \A p \in {"once", "trial", "second", "measure"} :
              ran'[r][p][k] = IF p = pc[r] /\ k = item[r] THEN n_sample[r]
                                                         ELSE ran[r][p][k]
        BY <2>2 DEF Runs
      <4>4. k \in Nat /\ item[r] \in Nat
        BY <1>3, Lens
      <4> QED BY <2>1, <2>3, <4>2, <4>3, <4>4
    <3>3. FixedRuns!(r)'
      <4>1. /\ item'[r] <= Len(opt'.lens)
            /\ n_sample'[r] = Selected(opt', Size(r)')
        BY <1>0, <2>0, <2>1, <2>3, <3>1 DEF Size
      <4>2. \A k \in DOMAIN opt.lens :
              k <= item[r] <=> (k < item'[r] \/ (k = item'[r] /\ pc'[r] = "measure"))
        BY <1>3, <3>1, Lens
      <4>3. \A k \in DOMAIN opt.lens :
              /\ ran'[r]["trial"][k] =
                   IF k < item'[r] \/ (k = item'[r] /\ pc'[r] = "measure")
                   THEN Selected(opt, opt.lens[k]) ELSE 0
              /\ ran'[r]["measure"][k] =
                   IF k < item'[r] THEN Selected(opt, opt.lens[k]) ELSE 0
        BY <3>1, <3>2, <4>2
      <4> QED BY <1>0, <3>1, <3>2, <4>1, <4>3
    <3> QED BY <1>4, <3>3 DEF FixedRuns
  <2>4. CASE pc[r] = "measure"
    <3>1. pc'[r] = "select" /\ item'[r] = item[r] + 1
      BY <1>6, <2>4 DEF Kernel, TypeOK
    <3>2. \A k \in DOMAIN opt.lens :
            /\ ran'[r]["once"][k] = 0 /\ ran'[r]["second"][k] = 0
            /\ ran'[r]["trial"][k] =
                 IF k <= item[r] THEN Selected(opt, opt.lens[k]) ELSE 0
            /\ ran'[r]["measure"][k] = IF k <= item[r] THEN Selected(opt, opt.lens[k]) ELSE 0
      <4>1. SUFFICES ASSUME NEW k \in DOMAIN opt.lens
                     PROVE  /\ ran'[r]["once"][k] = 0 /\ ran'[r]["second"][k] = 0
                            /\ ran'[r]["trial"][k] =
                                 IF k <= item[r] THEN Selected(opt, opt.lens[k]) ELSE 0
                            /\ ran'[r]["measure"][k] =
                                 IF k <= item[r] THEN Selected(opt, opt.lens[k]) ELSE 0
        OBVIOUS
      <4>2. /\ ran[r]["once"][k] = 0 /\ ran[r]["second"][k] = 0
            /\ ran[r]["trial"][k] =
                 IF k < item[r] \/ (k = item[r] /\ pc[r] = "measure")
                 THEN Selected(opt, opt.lens[k]) ELSE 0
            /\ ran[r]["measure"][k] = IF k < item[r] THEN Selected(opt, opt.lens[k]) ELSE 0
        BY <2>0
      <4>3. \A p \in {"once", "trial", "second", "measure"} :
              ran'[r][p][k] = IF p = pc[r] /\ k = item[r] THEN n_sample[r]
                                                         ELSE ran[r][p][k]
        BY <2>2 DEF Runs
      <4>4. k \in Nat /\ item[r] \in Nat
        BY <1>3, Lens
      <4> QED BY <2>1, <2>4, <4>2, <4>3, <4>4
    <3>3. FixedRuns!(r)'
      <4>1. \A k \in DOMAIN opt.lens :
              /\ k <= item[r] <=> (k < item'[r] \/ (k = item'[r] /\ pc'[r] = "measure"))
              /\ k <= item[r] <=> k < item'[r]
        BY <1>3, <3>1, Lens
      <4>2. \A k \in DOMAIN opt.lens :
              /\ ran'[r]["trial"][k] =
                   IF k < item'[r] \/ (k = item'[r] /\ pc'[r] = "measure")
                   THEN Selected(opt, opt.lens[k]) ELSE 0
              /\ ran'[r]["measure"][k] =
                   IF k < item'[r] THEN Selected(opt, opt.lens[k]) ELSE 0
        BY <3>2, <4>1
      <4> QED BY <1>0, <3>1, <3>2, <4>2
    <3> QED BY <1>4, <3>3 DEF FixedRuns
  <2> QED BY <2>1, <2>3, <2>4
<1> QED BY <1>2, <1>5, <1>6

-----------------------------------------------------------------------------
(***************************************************************************)
(* The policy dynamic: the ranks stay together.                            *)
(***************************************************************************)
LEMMA StepCases ==
  ASSUME Step
  PROVE  (\E r \in Rank : Local(r)) \/ ReduceTime \/ ReduceReps
BY RankZero DEF Step, Local

LEMMA LocalSegment ==
  ASSUME TypeOK, DynamicRuns, opt.policy = "dynamic", NEW r \in Rank, Local(r)
  PROVE  \A q \in Rank : Segment(q)' = Segment(q)
<1>0. item[r] \in Nat /\ pc[r] # "trial"
  BY Lens DEF TypeOK, DynamicRuns, Prepared
<1>1. Segment(r)' = Segment(r)
  <2>1. CASE Select(r)
    <3>1. pc[r] = "select" /\ pc'[r] \in {"once", "trial"} /\ item' = item
      BY <2>1 DEF Select, TypeOK
    <3>2. pc'[r] = "once"
      BY <2>1 DEF Select, TypeOK
    <3> QED BY <3>1, <3>2 DEF Segment
  <2>2. CASE Kernel(r)
    <3>1. pc[r] \in {"once", "second", "measure"}
      BY <2>2, <1>0 DEF Kernel, Runs
    <3>2. CASE pc[r] = "once"
      <4>1. pc'[r] = "time" /\ item' = item
        BY <2>2, <3>2 DEF Kernel, TypeOK
      <4> QED BY <3>2, <4>1 DEF Segment
    <3>3. CASE pc[r] = "second"
      <4>1. pc'[r] = "time2" /\ item' = item
        BY <2>2, <3>3 DEF Kernel, TypeOK
      <4> QED BY <3>3, <4>1 DEF Segment
    <3>4. CASE pc[r] = "measure"
      <4>1. pc'[r] = "select" /\ item'[r] = item[r] + 1
        BY <2>2, <3>4 DEF Kernel, TypeOK
      <4> QED BY <1>0, <3>4, <4>1 DEF Segment
    <3> QED BY <3>1, <3>2, <3>3, <3>4
  <2>3. CASE FitTime(r) \/ CheckMonotonic(r) \/ Settle(r) \/ Receive(r) \/ (r = 0 /\ Send)
    <3>1. /\ pc[r] \in {"fit", "monotonic", "settle", "bcast"} /\ item' = item
          /\ pc'[r] \in {"monotonic", "settle", "bcast", "measure"}
      <4>1. CASE FitTime(r)  BY <4>1 DEF FitTime, TypeOK
      <4>2. CASE CheckMonotonic(r)  BY <4>2 DEF CheckMonotonic, TypeOK
      <4>3. CASE Settle(r)  BY <4>3 DEF Settle, TypeOK
      <4>4. CASE Receive(r)  BY <4>4 DEF Receive, TypeOK
      <4>5. CASE r = 0 /\ Send  BY <4>5 DEF Send, TypeOK
      <4> QED BY <2>3, <4>1, <4>2, <4>3, <4>4, <4>5
    <3> QED BY <3>1 DEF Segment
  <2> QED BY <2>1, <2>2, <2>3 DEF Local
<1>2. ASSUME NEW q \in Rank, q # r PROVE Segment(q)' = Segment(q)
  BY <1>2, LocalOthers DEF Segment
<1> QED BY <1>1, <1>2

(***************************************************************************)
(* Ranks at operations of one segment are in the same item.                *)
(***************************************************************************)
LEMMA SameItem ==
  ASSUME TypeOK, Together, NEW p \in {"time", "rep_test", "time2"},
         \A r \in Rank : pc[r] = p
  PROVE  \A r, q \in Rank : item[r] = item[q]
<1>1. \A r \in Rank : item[r] \in Nat
  BY Lens DEF TypeOK
<1> QED BY <1>1 DEF Together, Segment

LEMMA SameReps ==
  ASSUME TypeOK, ReduceReps, \A r, q \in Rank : item[r] = item[q]
  PROVE  \A r, q \in Rank : n_sample'[r] = n_sample'[q]
<1>1. PICK acc \in Allreduce([r \in Rank |-> RepTest(time[r])]) :
        n_sample' = [r \in Rank |-> Lesser(Selected(opt, Size(r)), acc[r])]
  BY DEF ReduceReps
<1>2. [r \in Rank |-> RepTest(time[r])] \in [Rank -> Nat \ {0}]
  BY RepTestPositive DEF TypeOK
<1>3. \A r, q \in Rank : acc[r] = acc[q]
  BY <1>1, <1>2, AllreduceSame
<1>4. \A r, q \in Rank : Size(r) = Size(q)
  BY DEF Size
<1> QED BY <1>1, <1>3, <1>4

LEMMA TogetherStep ==
  ASSUME TypeOK, Together, DynamicRuns, opt.policy = "dynamic", Step
  PROVE  Together'
<1>1. CASE \E r \in Rank : Local(r)
  BY <1>1, LocalSegment DEF Together
<1>2. CASE ReduceTime
  <2>1. PICK p \in {"time", "time2"} : (\A r \in Rank : pc[r] = p)
                /\ pc' = [r \in Rank |-> IF p = "time" THEN "rep_test" ELSE "fit"]
    BY <1>2 DEF ReduceTime
  <2>2. item' = item /\ \A r, q \in Rank : item[r] = item[q]
    BY <1>2, <2>1, SameItem DEF ReduceTime
  <2> QED BY <2>1, <2>2 DEF Together, Segment
<1>3. CASE ReduceReps
  <2>1. /\ \A r \in Rank : pc[r] = "rep_test"
        /\ item' = item /\ \A r, q \in Rank : item[r] = item[q]
    BY <1>3, SameItem DEF ReduceReps
  <2>2. \A r, q \in Rank : n_sample'[r] = n_sample'[q]
    BY <1>3, <2>1, SameReps
  <2>3. pc' = [r \in Rank |-> IF n_sample'[r] > 1 THEN "second" ELSE "fit"]
    BY <1>3 DEF ReduceReps
  <2> QED BY <2>1, <2>2, <2>3 DEF Together, Segment
<1> QED BY <1>1, <1>2, <1>3, StepCases

(***************************************************************************)
(* A rank at a second trial run has all others at it.                      *)
(***************************************************************************)
LEMMA SecondTogether ==
  ASSUME TypeOK, Together, NEW r \in Rank, pc[r] \in {"second", "time2"}
  PROVE  \A q \in Rank : pc[q] \in {"second", "time2"} /\ item[q] = item[r]
<1>1. \A q \in Rank : item[q] \in Nat
  BY Lens DEF TypeOK
<1> QED BY <1>1 DEF Together, Segment

(***************************************************************************)
(* What one run of the kernel writes.                                      *)
(***************************************************************************)
LEMMA KernelRan ==
  ASSUME TypeOK, DynamicRuns, NEW r \in Rank, Kernel(r)
  PROVE  /\ pc[r] \in {"once", "second", "measure"}
         /\ item[r] \in DOMAIN opt.lens
         /\ n_sample' = n_sample /\ bcast' = bcast
         /\ \A p \in {"once", "trial", "second", "measure"} : \A k \in DOMAIN opt.lens :
              ran'[r][p][k] = IF p = pc[r] /\ k = item[r] THEN n_sample[r]
                                                         ELSE ran[r][p][k]
         /\ pc[r] = "once" => pc'[r] = "time" /\ item'[r] = item[r]
         /\ pc[r] = "second" => pc'[r] = "time2" /\ item'[r] = item[r]
         /\ pc[r] = "measure" => pc'[r] = "select" /\ item'[r] = item[r] + 1
<1>1. pc[r] \in {"once", "second", "measure"}
  BY DEF Kernel, Runs, DynamicRuns, Prepared
<1>2. item[r] \in DOMAIN opt.lens
  <2>1. item[r] \in Nat /\ item[r] >= 1
    BY Lens DEF TypeOK
  <2> QED BY <1>1, <2>1, Lens DEF DynamicRuns, Prepared
<1>3. \A p \in {"once", "trial", "second", "measure"} : \A k \in DOMAIN opt.lens :
        ran'[r][p][k] = IF p = pc[r] /\ k = item[r] THEN n_sample[r] ELSE ran[r][p][k]
  <2>1. ran' = [ran EXCEPT ![r][pc[r]][item[r]] = n_sample[r]]
    BY DEF Kernel
  <2>2. ran \in [Rank -> [{"once", "trial", "second", "measure"} -> [DOMAIN opt.lens -> Nat]]]
    BY DEF TypeOK, Runs
  <2> QED BY <1>1, <1>2, <2>1, <2>2
<1>4. n_sample' = n_sample /\ bcast' = bcast
  BY DEF Kernel
<1>5. pc[r] = "once" => pc'[r] = "time" /\ item'[r] = item[r]
  BY DEF Kernel, TypeOK
<1>6. pc[r] = "second" => pc'[r] = "time2" /\ item'[r] = item[r]
  BY DEF Kernel, TypeOK
<1>7. pc[r] = "measure" => pc'[r] = "select" /\ item'[r] = item[r] + 1
  BY DEF Kernel, TypeOK
<1> QED BY <1>1, <1>2, <1>3, <1>4, <1>5, <1>6, <1>7

(***************************************************************************)
(* MPI_Bcast only adds to what rank 0 has sent.                            *)
(***************************************************************************)
LEMMA BcastGrows ==
  ASSUME TypeOK, Step
  PROVE  /\ Len(bcast) \in Nat /\ Len(bcast) <= Len(bcast')
         /\ \A k \in 1 .. Len(bcast) : bcast'[k] = bcast[k]
<1>1. bcast \in Seq(Nat \ {0})
  BY DEF TypeOK
<1>2. CASE Send
  <2>1. bcast' = Append(bcast, n_sample[0])
    BY <1>2 DEF Send
  <2> QED BY <1>1, <2>1
<1>3. CASE bcast' = bcast
  BY <1>1, <1>3
<1> QED BY <1>2, <1>3 DEF Step, Select, Kernel, FitTime, CheckMonotonic, Settle, Receive,
           ReduceTime, ReduceReps

(***************************************************************************)
(* A local step keeps what is recorded, of its rank and of the others.     *)
(***************************************************************************)
LEMMA RecordedOthers ==
  ASSUME TypeOK, DynamicRuns, Step, NEW q \in Rank,
         pc'[q] = pc[q], item'[q] = item[q], n_sample'[q] = n_sample[q], ran'[q] = ran[q]
  PROVE  Prepared(q)' /\ \A k \in DOMAIN opt.lens : Recorded(q, k)'
<1>1. opt' = opt /\ item[q] \in Nat /\ item[q] >= 1 /\ DOMAIN opt.lens = 1 .. Len(opt.lens)
  BY OptSame, Lens DEF TypeOK
<1>2. Prepared(q)'
  BY <1>1, BcastGrows DEF Prepared, DynamicRuns
<1>3. ASSUME NEW k \in DOMAIN opt.lens PROVE Recorded(q, k)'
  <2>1. Recorded(q, k)
    BY DEF DynamicRuns
  <2>2. k < item[q] => k <= Len(bcast') /\ bcast'[k] = bcast[k]
    BY <1>1, <2>1, BcastGrows DEF Recorded
  <2> QED BY <2>1, <2>2 DEF Recorded
<1> QED BY <1>2, <1>3

LEMMA RecordedKernel ==
  ASSUME TypeOK, DynamicRuns, opt.policy = "dynamic", NEW r \in Rank, Kernel(r)
  PROVE  Prepared(r)' /\ \A k \in DOMAIN opt.lens : Recorded(r, k)'
<1>1. item[r] \in Nat /\ \A k \in DOMAIN opt.lens : k \in Nat
  BY Items
<1>2. opt' = opt
  BY DEF Kernel
<1>3. Prepared(r) /\ \A k \in DOMAIN opt.lens : Recorded(r, k)
  BY DEF DynamicRuns
<1>4. Prepared(r)'
  BY <1>1, <1>2, <1>3, KernelRan, Lens DEF Prepared
<1>5. ASSUME NEW k \in DOMAIN opt.lens PROVE Recorded(r, k)'
  <2> DEFINE w(p) == IF p = pc[r] /\ k = item[r] THEN n_sample[r] ELSE ran[r][p][k]
  <2>1. /\ ran'[r]["once"][k] = w("once") /\ ran'[r]["trial"][k] = w("trial")
        /\ ran'[r]["second"][k] = w("second") /\ ran'[r]["measure"][k] = w("measure")
    BY KernelRan
  <2>2. k \in Nat /\ Recorded(r, k)
    BY <1>1, <1>3
  <2>3. CASE pc[r] = "once"
    <3>1. pc'[r] = "time" /\ item'[r] = item[r] /\ n_sample[r] = 1 /\ bcast' = bcast
      BY <1>3, <2>3, KernelRan DEF Prepared
    <3> QED BY <1>1, <2>1, <2>2, <2>3, <3>1 DEF Recorded
  <2>4. CASE pc[r] = "second"
    <3>1. pc'[r] = "time2" /\ item'[r] = item[r] /\ bcast' = bcast /\ n_sample' = n_sample
      BY <2>4, KernelRan
    <3> QED BY <1>1, <2>1, <2>2, <2>4, <3>1 DEF Recorded
  <2>5. CASE pc[r] = "measure"
    <3>1. /\ pc'[r] = "select" /\ item'[r] = item[r] + 1 /\ bcast' = bcast
          /\ item[r] <= Len(bcast) /\ n_sample[r] = bcast[item[r]]
      BY <1>3, <2>5, KernelRan DEF Prepared
    <3> QED BY <1>1, <2>1, <2>2, <2>5, <3>1 DEF Recorded
  <2> QED BY <2>3, <2>4, <2>5, KernelRan
<1> QED BY <1>4, <1>5

LEMMA RecordedLocal ==
  ASSUME TypeOK, DynamicRuns, Choosing, opt.policy = "dynamic", Step,
         NEW r \in Rank, Local(r)
  PROVE  Prepared(r)' /\ \A k \in DOMAIN opt.lens : Recorded(r, k)'
<1>1. /\ item[r] \in Nat /\ item[r] >= 1 /\ opt' = opt
      /\ \A k \in DOMAIN opt.lens : k \in Nat
  BY OptSame, Items
<1>2. Prepared(r) /\ \A k \in DOMAIN opt.lens : Recorded(r, k)
  BY DEF DynamicRuns
<1>3. CASE Kernel(r)
  BY <1>3, RecordedKernel
<1>4. CASE ~ Kernel(r)
  <2>1. item'[r] = item[r] /\ ran'[r] = ran[r]
    BY <1>4 DEF Local, Select, FitTime, CheckMonotonic, Settle, Receive, Send
  <2>2. Prepared(r)' /\ (pc[r] \in {"select", "once"} <=> pc'[r] \in {"select", "once"})
        /\ pc'[r] \notin {"time", "rep_test", "second", "time2"}
    <3>1. CASE Select(r)
      <4>1. pc[r] = "select" /\ pc'[r] = "once" /\ n_sample'[r] = 1
            /\ item[r] <= Len(opt.lens)
        BY <3>1 DEF Select, TypeOK
      <4> QED BY <1>1, <2>1, <4>1 DEF Prepared
    <3>2. CASE FitTime(r)
      <4>1. pc[r] = "fit" /\ pc'[r] \in {"monotonic", "settle"}
        BY <3>2 DEF FitTime, TypeOK
      <4> QED BY <1>1, <1>2, <2>1, <4>1 DEF Prepared
    <3>3. CASE CheckMonotonic(r)
      <4>1. pc[r] = "monotonic" /\ pc'[r] \in {"monotonic", "settle"}
        BY <3>3 DEF CheckMonotonic, TypeOK
      <4> QED BY <1>1, <1>2, <2>1, <4>1 DEF Prepared
    <3>4. CASE Settle(r)
      <4>1. pc[r] = "settle" /\ pc'[r] = "bcast"
        BY <3>4 DEF Settle, TypeOK
      <4> QED BY <1>1, <1>2, <2>1, <4>1 DEF Prepared
    <3>5. CASE Receive(r)
      <4>1. /\ pc[r] = "bcast" /\ pc'[r] = "measure" /\ Len(bcast) >= item[r]
            /\ n_sample'[r] = bcast[item[r]] /\ bcast' = bcast
        BY <3>5 DEF Receive, TypeOK
      <4>2. Len(bcast) \in Nat
        BY BcastGrows
      <4> QED BY <1>1, <1>2, <2>1, <4>1, <4>2 DEF Prepared
    <3>6. CASE r = 0 /\ Send
      <4>1. /\ pc[0] = "bcast" /\ pc'[0] = "measure" /\ n_sample' = n_sample
            /\ bcast' = Append(bcast, n_sample[0])
        BY <3>6 DEF Send, TypeOK
      <4>2. Len(bcast) = item[0] - 1
        BY <4>1 DEF Choosing
      <4>3. bcast \in Seq(Nat \ {0})
        BY DEF TypeOK
      <4>4. Len(bcast') = item[0] /\ bcast'[item[0]] = n_sample[0]
        BY <1>1, <3>6, <4>1, <4>2, <4>3
      <4> QED BY <1>1, <1>2, <2>1, <3>6, <4>1, <4>4 DEF Prepared
    <3> QED BY <1>4, <3>1, <3>2, <3>3, <3>4, <3>5, <3>6 DEF Local
  <2>3. ASSUME NEW k \in DOMAIN opt.lens PROVE Recorded(r, k)'
    <3>1. Recorded(r, k) /\ k \in Nat
      BY <1>1, <1>2
    <3>2. k < item[r] => k <= Len(bcast') /\ bcast'[k] = bcast[k]
      BY <1>1, <3>1, BcastGrows, Lens DEF Recorded
    <3>3. /\ k > item'[r] \/ (k = item'[r] /\ pc'[r] \in {"select", "once"})
             => ran'[r]["second"][k] = 0
      BY <2>1, <2>2, <3>1 DEF Recorded
    <3> QED BY <2>1, <2>2, <3>1, <3>2, <3>3 DEF Recorded
  <2> QED BY <2>2, <2>3
<1> QED BY <1>3, <1>4

(***************************************************************************)
(* The operations of all ranks.                                            *)
(***************************************************************************)
LEMMA RecordedAll ==
  ASSUME TypeOK, DynamicRuns, Together, opt.policy = "dynamic", ReduceTime \/ ReduceReps,
         NEW r \in Rank
  PROVE  Prepared(r)' /\ \A k \in DOMAIN opt.lens : Recorded(r, k)'
<1>1. /\ item[r] \in Nat /\ item' = item /\ ran' = ran /\ opt' = opt /\ bcast' = bcast
      /\ \A k \in DOMAIN opt.lens : k \in Nat
  BY Items DEF ReduceTime, ReduceReps
<1>2. Prepared(r) /\ \A k \in DOMAIN opt.lens : Recorded(r, k)
  BY DEF DynamicRuns
<1>3. CASE ReduceTime
  <2>1. \/ pc[r] = "time" /\ pc'[r] = "rep_test"
        \/ pc[r] = "time2" /\ pc'[r] = "fit"
    BY <1>3 DEF ReduceTime
  <2>2. Prepared(r)'
    BY <1>1, <1>2, <2>1 DEF Prepared
  <2>3. ASSUME NEW k \in DOMAIN opt.lens PROVE Recorded(r, k)'
    BY <1>1, <1>2, <2>1 DEF Recorded
  <2> QED BY <2>2, <2>3
<1>4. CASE ReduceReps
  <2>1. pc[r] = "rep_test" /\ pc'[r] \in {"second", "fit"}
    BY <1>4 DEF ReduceReps
  <2>2. Prepared(r)'
    BY <1>1, <1>2, <2>1 DEF Prepared
  <2>3. ASSUME NEW k \in DOMAIN opt.lens PROVE Recorded(r, k)'
    BY <1>1, <1>2, <2>1 DEF Recorded
  <2> QED BY <2>2, <2>3
<1> QED BY <1>3, <1>4

(***************************************************************************)
(* The number of the second trial run is the same on all ranks, and so is  *)
(* what they have run.                                                     *)
(***************************************************************************)
LEMMA AgreedRepsStep ==
  ASSUME TypeOK, DynamicRuns, Together, opt.policy = "dynamic", Step
  PROVE  AgreedReps'
<1>1. SUFFICES ASSUME NEW r \in Rank, NEW q \in Rank, pc'[r] \in {"second", "time2"}
               PROVE  n_sample'[r] = n_sample'[q]
  BY DEF AgreedReps
<1>2. CASE \E s \in Rank : Local(s)
  <2>1. PICK s \in Rank : Local(s)
    BY <1>2
  <2>2. pc[r] \in {"second", "time2"}
    <3>1. CASE s = r
      <4>1. CASE Kernel(r)
        BY <1>1, <4>1, KernelRan
      <4>2. CASE ~ Kernel(r)
        BY <1>1, <2>1, <3>1, <4>2
           DEF Local, Select, FitTime, CheckMonotonic, Settle, Receive, Send, TypeOK
      <4> QED BY <4>1, <4>2
    <3>2. CASE s # r
      BY <1>1, <2>1, <3>2, LocalOthers
    <3> QED BY <3>1, <3>2
  <2>3. pc[s] \in {"second", "time2"}
    BY <2>2, SecondTogether
  <2>4. Kernel(s)
    BY <2>1, <2>3 DEF Local, Select, FitTime, CheckMonotonic, Settle, Receive, Send
  <2>5. n_sample' = n_sample
    BY <2>4 DEF Kernel
  <2> QED BY <2>2, <2>5 DEF DynamicRuns, AgreedReps
<1>3. CASE ReduceTime
  BY <1>1, <1>3 DEF ReduceTime
<1>4. CASE ReduceReps
  <2>1. \A s, t \in Rank : item[s] = item[t]
    BY <1>4, SameItem DEF ReduceReps
  <2> QED BY <1>4, <2>1, SameReps
<1> QED BY <1>2, <1>3, <1>4, StepCases

LEMMA AgreedSecondStep ==
  ASSUME TypeOK, DynamicRuns, Together, opt.policy = "dynamic", Step
  PROVE  AgreedSecond'
<1>0. opt' = opt
  BY OptSame
<1>1. SUFFICES ASSUME NEW r \in Rank, NEW q \in Rank, NEW k \in DOMAIN opt.lens,
                      Segment(r)' > 3 * k + 2, Segment(q)' > 3 * k + 2
               PROVE  ran'[r]["second"][k] = ran'[q]["second"][k]
  BY <1>0 DEF AgreedSecond
<1>i. /\ k \in Nat /\ \A s \in Rank : item[s] \in Nat
  BY Items
<1>2. CASE \E s \in Rank : Local(s)
  <2>1. PICK s \in Rank : Local(s)
    BY <1>2
  <2>2. Segment(r) > 3 * k + 2 /\ Segment(q) > 3 * k + 2
    BY <1>1, <2>1, LocalSegment
  <2>3. Segment(s) > 3 * k + 2
    BY <2>2 DEF Together
  <2>4. ran'[s]["second"][k] = ran[s]["second"][k]
    <3>1. CASE Kernel(s)
      <4>1. ~ (pc[s] = "second" /\ k = item[s])
        BY <1>i, <2>3 DEF Segment
      <4> QED BY <3>1, <4>1, KernelRan
    <3>2. CASE ~ Kernel(s)
      BY <2>1, <3>2 DEF Local, Select, FitTime, CheckMonotonic, Settle, Receive, Send
    <3> QED BY <3>1, <3>2
  <2>5. \A t \in Rank : ran'[t]["second"][k] = ran[t]["second"][k]
    BY <2>1, <2>4, LocalOthers
  <2> QED BY <2>2, <2>5 DEF DynamicRuns, AgreedSecond
<1>3. CASE ReduceTime
  <2>1. /\ ran' = ran /\ item' = item
        /\ \A t \in Rank : \/ pc[t] = "time" /\ pc'[t] = "rep_test"
                           \/ pc[t] = "time2" /\ pc'[t] = "fit"
    BY <1>3 DEF ReduceTime
  <2>2. PICK p \in {"time", "time2"} : \A t \in Rank : pc[t] = p
    BY <1>3 DEF ReduceTime
  <2>3. CASE Segment(r) > 3 * k + 2
    <3>1. Segment(q) > 3 * k + 2
      BY <2>3 DEF Together
    <3> QED BY <2>1, <2>3, <3>1 DEF DynamicRuns, AgreedSecond
  <2>4. CASE ~ (Segment(r) > 3 * k + 2)
    <3>1. item[q] = item[r]
      BY <2>2, SameItem
    <3>2. pc[r] = "time2" /\ pc[q] = "time2" /\ k = item[r]
      <4>1. CASE pc[r] = "time"
        <5>1. pc'[r] = "rep_test"
          BY <2>1, <4>1
        <5> QED BY <1>1, <1>i, <2>1, <2>4, <4>1, <5>1 DEF Segment
      <4>2. CASE pc[r] = "time2"
        <5>1. pc'[r] = "fit"
          BY <2>1, <4>2
        <5> QED BY <1>1, <1>i, <2>1, <2>2, <2>4, <4>2, <5>1 DEF Segment
      <4> QED BY <2>1, <4>1, <4>2
    <3>3. ran[r]["second"][k] = n_sample[r] /\ ran[q]["second"][k] = n_sample[q]
      BY <3>1, <3>2 DEF DynamicRuns, Recorded
    <3> QED BY <2>1, <3>2, <3>3 DEF DynamicRuns, AgreedReps
  <2> QED BY <2>3, <2>4
<1>4. CASE ReduceReps
  <2>1. /\ ran' = ran /\ item' = item
        /\ \A t \in Rank : pc[t] = "rep_test" /\ pc'[t] \in {"second", "fit"}
    BY <1>4 DEF ReduceReps
  <2>2. item[q] = item[r]
    BY <2>1, SameItem
  <2>3. CASE Segment(r) > 3 * k + 2
    <3>1. Segment(q) > 3 * k + 2
      BY <2>3 DEF Together
    <3> QED BY <2>1, <2>3, <3>1 DEF DynamicRuns, AgreedSecond
  <2>4. CASE ~ (Segment(r) > 3 * k + 2)
    <3>1. k = item[r]
      <4>1. pc[r] = "rep_test" /\ pc'[r] \in {"second", "fit"}
        BY <2>1
      <4> QED BY <1>1, <1>i, <2>1, <2>4, <4>1 DEF Segment
    <3>2. ran[r]["second"][k] = 0 /\ ran[q]["second"][k] = 0
      BY <2>1, <2>2, <3>1 DEF DynamicRuns, Recorded
    <3> QED BY <2>1, <3>2
  <2> QED BY <2>3, <2>4
<1> QED BY <1>2, <1>3, <1>4, StepCases

LEMMA DynamicStep ==
  ASSUME TypeOK, Together, DynamicRuns, Choosing, opt.policy = "dynamic", Step
  PROVE  DynamicRuns'
<1>0. opt' = opt
  BY OptSame
<1>1. \A r \in Rank : Prepared(r)' /\ \A k \in DOMAIN opt.lens : Recorded(r, k)'
  <2>1. CASE \E s \in Rank : Local(s)
    <3>1. PICK s \in Rank : Local(s)
      BY <2>1
    <3>2. Prepared(s)' /\ \A k \in DOMAIN opt.lens : Recorded(s, k)'
      BY <3>1, RecordedLocal
    <3>3. ASSUME NEW q \in Rank, q # s
          PROVE  Prepared(q)' /\ \A k \in DOMAIN opt.lens : Recorded(q, k)'
      <4>1. /\ pc'[q] = pc[q] /\ item'[q] = item[q] /\ n_sample'[q] = n_sample[q]
            /\ ran'[q] = ran[q]
        BY <3>1, <3>3, LocalOthers
      <4> QED BY <4>1, RecordedOthers
    <3> QED BY <3>2, <3>3
  <2>2. CASE ReduceTime \/ ReduceReps
    BY <2>2, RecordedAll
  <2> QED BY <2>1, <2>2, StepCases
<1>2. AgreedReps' /\ AgreedSecond'
  BY AgreedRepsStep, AgreedSecondStep
<1> QED BY <1>0, <1>1, <1>2 DEF DynamicRuns

-----------------------------------------------------------------------------
(***************************************************************************)
(* What rank 0 chooses.                                                    *)
(***************************************************************************)
LEMMA ZeroFacts ==
  ASSUME TypeOK, Choosing, DynamicRuns
  PROVE  /\ item[0] \in Nat /\ item[0] >= 1 /\ item[0] <= Len(opt.lens) + 1
         /\ pc[0] # "select" => item[0] \in DOMAIN opt.lens
         /\ Len(bcast) \in Nat /\ \A k \in 1 .. Len(bcast) : bcast[k] \in Nat \ {0}
         /\ n_sample[0] \in Int /\ n_sample_prev[0] \in Int /\ t_sample[0] \in Int
         /\ idx[0] \in Nat /\ idx[0] >= 1
         /\ pc[0] # "select" => Size(0) \in Nat /\ Selected(opt, Size(0)) \in Nat \ {0}
         /\ \A k \in DOMAIN opt.lens : opt.lens[k] \in Nat /\ k \in Nat
<1>1. /\ item[0] \in Nat /\ item[0] >= 1 /\ item[0] <= Len(opt.lens) + 1
      /\ idx[0] \in Nat /\ idx[0] >= 1
  <2>1. item[0] \in 1 .. Len(opt.lens) + 1 /\ idx[0] \in 1 .. Len(opt.lens) + 1
    BY RankZero DEF TypeOK
  <2> QED BY <2>1, Lens
<1>2. pc[0] # "select" => item[0] \in DOMAIN opt.lens
  BY <1>1, RankZero, Lens DEF DynamicRuns, Prepared
<1>3. bcast \in Seq(Nat \ {0})
  BY DEF TypeOK
<1>4. n_sample[0] \in Int /\ n_sample_prev[0] \in Int /\ t_sample[0] \in Int
  BY RankZero DEF TypeOK
<1>5. pc[0] # "select" => Size(0) \in Nat /\ Selected(opt, Size(0)) \in Nat \ {0}
  BY <1>2, Lens DEF Size
<1> QED BY <1>1, <1>2, <1>3, <1>4, <1>5, Lens, Items, ElementOfSeq

LEMMA ChoosingSame ==
  ASSUME TypeOK, Choosing, DynamicRuns, opt' = opt, bcast' = bcast,
         pc'[0] = pc[0], item'[0] = item[0], n_sample'[0] = n_sample[0],
         n_sample_prev'[0] = n_sample_prev[0], numiters'[0] = numiters[0],
         t_sample'[0] = t_sample[0], idx'[0] = idx[0]
  PROVE  Choosing'
<1>1. BcastOrdered'
  BY DEF Choosing, BcastOrdered
<1>2. Previous'
  BY DEF Choosing, Previous
<1>3. Fitting'
  BY DEF Choosing, Fitting, FitsBefore, Fits, Size
<1> QED BY <1>1, <1>2, <1>3 DEF Choosing

(***************************************************************************)
(* Steps of rank 0 up to the loop over numiters.                           *)
(***************************************************************************)
LEMMA ChoosingRun ==
  ASSUME TypeOK, Choosing, DynamicRuns, opt.policy = "dynamic",
         Select(0) \/ Kernel(0) \/ ReduceTime \/ ReduceReps
  PROVE  Choosing'
<1>1. /\ opt' = opt /\ bcast' = bcast /\ numiters' = numiters /\ 0 \in Rank
  BY RankZero DEF Select, Kernel, ReduceTime, ReduceReps
<1>2. BcastOrdered'
  BY <1>1 DEF Choosing, BcastOrdered
<1>3. CASE Select(0)
  <2>1. /\ pc[0] = "select" /\ pc'[0] = "once" /\ item' = item
        /\ n_sample_prev'[0] = IF item[0] = 1 THEN opt.msgspersample ELSE n_sample_prev[0]
    BY <1>1, <1>3 DEF Select, TypeOK
  <2>2. Previous'
    BY <1>1, <2>1, ZeroFacts DEF Choosing, Previous
  <2> QED BY <1>1, <1>2, <2>1, <2>2 DEF Choosing, Fitting
<1>4. CASE Kernel(0)
  <2>1. pc[0] \in {"once", "second", "measure"}
    BY <1>1, <1>4, KernelRan
  <2>2. n_sample_prev' = n_sample_prev
    BY <1>4, <2>1 DEF Kernel
  <2>3. \/ pc'[0] \in {"time", "time2"} /\ item'[0] = item[0] /\ pc[0] # "measure"
        \/ pc'[0] = "select" /\ item'[0] = item[0] + 1 /\ pc[0] = "measure"
    BY <1>1, <1>4, <2>1, KernelRan
  <2>4. Previous'
    BY <1>1, <2>1, <2>2, <2>3, ZeroFacts DEF Choosing, Previous
  <2> QED BY <1>1, <1>2, <2>3, <2>4, ZeroFacts DEF Choosing, Fitting
<1>5. CASE ReduceTime \/ ReduceReps
  <2>1. /\ pc[0] \in {"time", "time2", "rep_test"}
        /\ pc'[0] \in {"rep_test", "second", "fit"}
        /\ item' = item /\ n_sample_prev' = n_sample_prev
    BY <1>1, <1>5 DEF ReduceTime, ReduceReps
  <2>2. Previous'
    BY <1>1, <2>1 DEF Choosing, Previous
  <2> QED BY <1>1, <1>2, <2>1, <2>2 DEF Choosing, Fitting
<1> QED BY <1>3, <1>4, <1>5

LEMMA ChoosingFit ==
  ASSUME TypeOK, Choosing, DynamicRuns, FitTime(0)
  PROVE  Choosing'
<1>1. /\ opt' = opt /\ bcast' = bcast /\ numiters' = numiters /\ item' = item
      /\ n_sample_prev' = n_sample_prev /\ pc[0] = "fit"
      /\ pc'[0] = IF opt.listed THEN "monotonic" ELSE "settle"
      /\ t_sample'[0] = Fit(time[0], Selected(opt, Size(0))) /\ idx'[0] = 1
  BY RankZero DEF FitTime, TypeOK
<1>2. t_sample'[0] > 0
  <2>1. time[0] \in Nat /\ Selected(opt, Size(0)) \in Nat \ {0} /\ opt \in Options
    BY <1>1, RankZero, ZeroFacts DEF TypeOK
  <2>2. Fit(time[0], Selected(opt, Size(0))) \in Nat \ {0}
    BY <2>1, FitPositive
  <2> QED BY <1>1, <2>2
<1>3. BcastOrdered' /\ Previous'
  BY <1>1 DEF Choosing, BcastOrdered, Previous
<1>4. Fitting'
  BY <1>1, <1>2, ZeroFacts DEF Fitting, FitsBefore
<1> QED BY <1>1, <1>3, <1>4 DEF Choosing

(***************************************************************************)
(* One step of the loop: the number still lies between those before.       *)
(***************************************************************************)
LEMMA FitsMore ==
  ASSUME TypeOK, Choosing, DynamicRuns, pc[0] = "monotonic", idx[0] < item[0],
         NEW n, n = IF opt.lens[idx[0]] < Size(0) THEN Lesser(t_sample[0], bcast[idx[0]])
                                                  ELSE Greater(t_sample[0], bcast[idx[0]])
  PROVE  n > 0 /\ FitsBefore(n, 0, idx[0])
<1> DEFINE i == idx[0]
<1>1. /\ i \in Nat /\ i >= 1 /\ i < item[0] /\ item[0] \in Nat
      /\ t_sample[0] \in Int /\ t_sample[0] > 0 /\ Size(0) \in Int
      /\ FitsBefore(t_sample[0], 0, i - 1)
  BY ZeroFacts DEF Choosing, Fitting
<1>2. /\ Len(bcast) = item[0] - 1 /\ Len(bcast) \in Nat
      /\ \A k \in 1 .. Len(bcast) : opt.lens[k] \in Int /\ bcast[k] \in Nat \ {0}
      /\ \A j, k \in 1 .. Len(bcast) : opt.lens[j] < opt.lens[k] => bcast[j] >= bcast[k]
  <2>1. BcastOrdered /\ Len(bcast) = item[0] - 1
    BY DEF Choosing
  <2>2. Len(bcast) \in Nat /\ \A k \in 1 .. Len(bcast) : bcast[k] \in Nat \ {0}
    BY ZeroFacts
  <2>3. \A k \in 1 .. Len(bcast) : k \in DOMAIN opt.lens
    BY <2>1 DEF BcastOrdered
  <2>4. \A k \in 1 .. Len(bcast) : opt.lens[k] \in Int
    BY <2>3, ZeroFacts
  <2> QED BY <2>1, <2>2, <2>4 DEF BcastOrdered
<1>3. i \in 1 .. Len(bcast)
  BY <1>1, <1>2
<1> HIDE DEF i
<1>4. n = IF opt.lens[i] < Size(0) THEN Lesser(t_sample[0], bcast[i])
                                   ELSE Greater(t_sample[0], bcast[i])
  BY DEF i
<1>5. n > 0
  <2>1. bcast[i] \in Nat \ {0}
    BY <1>2, <1>3
  <2> QED BY <1>1, <1>4, <2>1 DEF Lesser, Greater
<1>6. ASSUME NEW j \in 1 .. i PROVE Fits(n, Size(0), j)
  <2>1. j \in 1 .. Len(bcast)
    BY <1>1, <1>2, <1>3
  <2>2. /\ opt.lens[i] \in Int /\ opt.lens[j] \in Int
        /\ bcast[i] \in Int /\ bcast[j] \in Int
    BY <1>2, <1>3, <2>1
  <2>3. \/ bcast[j] = bcast[i] /\ opt.lens[j] = opt.lens[i]
        \/ /\ opt.lens[j] < Size(0) => t_sample[0] <= bcast[j]
           /\ Size(0) <= opt.lens[j] => t_sample[0] >= bcast[j]
           /\ opt.lens[j] < opt.lens[i] => bcast[j] >= bcast[i]
           /\ opt.lens[i] < opt.lens[j] => bcast[i] >= bcast[j]
    <3>1. CASE j # i
      <4>1. j \in 1 .. i - 1 /\ j < item[0]
        BY <1>1, <3>1
      <4>2. Fits(t_sample[0], Size(0), j)
        BY <1>1, <4>1 DEF FitsBefore
      <4> QED BY <1>2, <1>3, <2>1, <4>2 DEF Fits
    <3> QED BY <3>1
  <2>4. /\ opt.lens[j] < Size(0) => n <= bcast[j]
        /\ Size(0) <= opt.lens[j] => n >= bcast[j]
    <3> DEFINE t == t_sample[0]
               b == bcast[i]
               x == bcast[j]
               li == opt.lens[i]
               lj == opt.lens[j]
               size == Size(0)
    <3>1. /\ t \in Int /\ b \in Int /\ x \in Int
          /\ li \in Int /\ lj \in Int /\ size \in Int
          /\ n = IF li < size THEN Lesser(t, b) ELSE Greater(t, b)
      BY <1>1, <1>4, <2>2
    <3>2. \/ x = b /\ lj = li
          \/ /\ lj < size => t <= x
             /\ size <= lj => t >= x
             /\ lj < li => x >= b
             /\ li < lj => b >= x
      BY <2>3
    <3> HIDE DEF t, b, x, li, lj, size
    <3>3. (lj < size => n <= x) /\ (size <= lj => n >= x)
      BY <3>1, <3>2 DEF Lesser, Greater
    <3> QED BY <3>3 DEF x, lj, size
  <2> QED BY <2>4 DEF Fits
<1> QED BY <1>5, <1>6 DEF FitsBefore, i

LEMMA ChoosingCheck ==
  ASSUME TypeOK, Choosing, DynamicRuns, CheckMonotonic(0)
  PROVE  Choosing'
<1>1. /\ opt' = opt /\ bcast' = bcast /\ numiters' = numiters /\ item' = item
      /\ n_sample_prev' = n_sample_prev /\ pc[0] = "monotonic"
      /\ pc'[0] \in {"monotonic", "settle"} /\ 0 \in Rank
  BY RankZero DEF CheckMonotonic, TypeOK
<1>2. BcastOrdered' /\ Previous'
  BY <1>1 DEF Choosing, BcastOrdered, Previous
<1>3. /\ opt.listed /\ idx[0] <= item[0] /\ t_sample[0] > 0
      /\ FitsBefore(t_sample[0], 0, idx[0] - 1) /\ Len(bcast) = item[0] - 1
  BY <1>1 DEF Choosing, Fitting
<1>4. CASE idx[0] < item[0]
  <2> DEFINE n == IF opt.lens[idx[0]] < Size(0) THEN Lesser(t_sample[0], bcast[idx[0]])
                                                ELSE Greater(t_sample[0], bcast[idx[0]])
  <2>1. idx[0] \in 1 .. Len(bcast)
    BY <1>3, <1>4, ZeroFacts
  <2>2. numiters[0][idx[0]] = bcast[idx[0]]
    BY <1>3, <2>1 DEF Choosing, BcastOrdered
  <2>3. t_sample'[0] = n /\ idx'[0] = idx[0] + 1 /\ pc'[0] = "monotonic"
    BY <1>1, <1>4, <2>2 DEF CheckMonotonic, TypeOK
  <2>4. n > 0 /\ FitsBefore(n, 0, idx[0])
    BY <1>1, <1>4, FitsMore
  <2> HIDE DEF n
  <2>5. FitsBefore(t_sample[0], 0, idx[0] - 1)'
    <3>1. (idx[0] - 1)' = idx[0]
      BY <2>3, ZeroFacts
    <3> QED BY <1>1, <2>3, <2>4, <3>1 DEF FitsBefore, Fits, Size
  <2>6. Fitting'
    <3>1. (idx[0] <= item[0])'
      BY <1>1, <1>4, <2>3, ZeroFacts
    <3> QED BY <1>1, <1>3, <2>3, <2>4, <2>5, <3>1 DEF Fitting
  <2> QED BY <1>1, <1>2, <1>3, <2>6 DEF Choosing
<1>5. CASE ~ (idx[0] < item[0])
  <2>1. t_sample' = t_sample /\ pc'[0] = "settle"
    BY <1>1, <1>5 DEF CheckMonotonic, TypeOK
  <2>2. idx[0] = item[0]
    BY <1>3, <1>5, ZeroFacts
  <2>3. FitsBefore(t_sample[0], 0, item[0])
    BY <1>3, <2>2, ZeroFacts DEF FitsBefore
  <2>4. FitsBefore(t_sample[0], 0, item[0])'
    BY <1>1, <2>1, <2>3 DEF FitsBefore, Fits, Size
  <2>5. Fitting'
    BY <1>1, <1>3, <2>1, <2>4 DEF Fitting
  <2> QED BY <1>1, <1>2, <1>3, <2>1, <2>5 DEF Choosing
<1> QED BY <1>4, <1>5

(***************************************************************************)
(* The number settled on, in both ways to look at the sizes before.        *)
(***************************************************************************)
LEMMA SettledFits ==
  ASSUME TypeOK, Choosing, DynamicRuns, opt.policy = "dynamic", pc[0] = "settle",
         NEW n, n = Lesser(Selected(opt, Size(0)),
                           IF opt.listed THEN t_sample[0]
                                         ELSE Lesser(n_sample_prev[0], t_sample[0]))
  PROVE  n \in Nat \ {0} /\ n <= Selected(opt, Size(0)) /\ FitsBefore(n, 0, item[0])
<1>1. /\ Len(bcast) = item[0] - 1 /\ Len(bcast) \in Nat
      /\ item[0] \in DOMAIN opt.lens /\ item[0] \in Nat /\ item[0] >= 1
      /\ \A k \in 1 .. Len(bcast) :
           /\ k \in DOMAIN opt.lens /\ opt.lens[k] \in Nat /\ bcast[k] \in Nat \ {0}
           /\ bcast[k] <= Selected(opt, opt.lens[k])
           /\ Selected(opt, opt.lens[k]) \in Nat
      /\ \A j, k \in 1 .. Len(bcast) : opt.lens[j] < opt.lens[k] => bcast[j] >= bcast[k]
  BY ZeroFacts, Lens DEF Choosing, BcastOrdered
<1>2. /\ Size(0) \in Nat /\ Selected(opt, Size(0)) \in Nat \ {0}
      /\ t_sample[0] \in Int /\ t_sample[0] > 0 /\ opt \in Options
      /\ opt.msgspersample \in Nat \ {0}
  BY ZeroFacts, Lens DEF Choosing, Fitting, TypeOK, OptionType
<1>3. /\ Len(bcast) > 0 => n_sample_prev[0] = bcast[Len(bcast)]
      /\ Len(bcast) = 0 => n_sample_prev[0] = opt.msgspersample
  BY <1>1 DEF Choosing, Previous
<1>4. n_sample_prev[0] \in Nat \ {0}
  BY <1>1, <1>2, <1>3
<1>5. n \in Nat \ {0} /\ n <= Selected(opt, Size(0))
  BY <1>2, <1>4 DEF Lesser
<1>6. ASSUME NEW j \in 1 .. Len(bcast) PROVE Fits(n, Size(0), j)
  <2>1. CASE opt.listed
    <3>1. Fits(t_sample[0], Size(0), j)
      BY <1>1, <2>1 DEF Choosing, Fitting, FitsBefore
    <3>2. Size(0) <= opt.lens[j] => bcast[j] <= Selected(opt, Size(0))
      BY <1>1, <1>2, SelectedAntitone
    <3> QED BY <1>1, <1>2, <2>1, <3>1, <3>2 DEF Fits, Lesser
  <2>2. CASE ~ opt.listed
    <3>1. \A k \in DOMAIN opt.lens : \A l \in 1 .. k - 1 : opt.lens[l] < opt.lens[k]
      BY <1>2, <2>2, OptionsAssumption
    <3>2. opt.lens[j] < Size(0)
      BY <1>1, <3>1 DEF Size
    <3>3. n <= bcast[Len(bcast)]
      BY <1>1, <1>2, <1>3, <1>4, <2>2 DEF Lesser
    <3>4. bcast[Len(bcast)] <= bcast[j]
      <4>1. CASE j = Len(bcast)
        BY <1>1, <4>1
      <4>2. CASE j # Len(bcast)
        <5>1. Len(bcast) \in 1 .. Len(bcast) /\ j \in 1 .. Len(bcast) - 1
          BY <1>1, <4>2
        <5>2. opt.lens[j] < opt.lens[Len(bcast)]
          BY <1>1, <3>1, <5>1
        <5> QED BY <1>1, <5>1, <5>2
      <4> QED BY <4>1, <4>2
    <3>5. bcast[Len(bcast)] \in Nat /\ bcast[j] \in Nat /\ opt.lens[j] \in Nat
      <4>1. Len(bcast) \in 1 .. Len(bcast)
        BY <1>1
      <4> QED BY <1>1, <4>1
    <3>6. n <= bcast[j] /\ ~ (Size(0) <= opt.lens[j])
      BY <1>2, <1>5, <3>2, <3>3, <3>4, <3>5
    <3> QED BY <3>6 DEF Fits
  <2> QED BY <2>1, <2>2
<1> QED BY <1>1, <1>5, <1>6 DEF FitsBefore

LEMMA ChoosingSettle ==
  ASSUME TypeOK, Choosing, DynamicRuns, opt.policy = "dynamic", Settle(0)
  PROVE  Choosing'
<1> DEFINE n == Lesser(Selected(opt, Size(0)),
                       IF opt.listed THEN t_sample[0]
                                     ELSE Lesser(n_sample_prev[0], t_sample[0]))
<1>1. /\ opt' = opt /\ bcast' = bcast /\ item' = item /\ n_sample_prev' = n_sample_prev
      /\ pc[0] = "settle" /\ pc'[0] = "bcast" /\ 0 \in Rank /\ n_sample'[0] = n
      /\ numiters' = IF opt.listed THEN [numiters EXCEPT ![0][item[0]] = n] ELSE numiters
  BY RankZero DEF Settle, TypeOK
<1>2. n \in Nat \ {0} /\ n <= Selected(opt, Size(0)) /\ FitsBefore(n, 0, item[0])
  BY <1>1, SettledFits
<1> HIDE DEF n
<1>3. /\ opt.listed => numiters'[0][item[0]] = n
      /\ \A k \in 1 .. Len(bcast) : numiters'[0][k] = numiters[0][k]
  <2>1. /\ numiters \in [Rank -> [DOMAIN opt.lens -> Int]] /\ item[0] \in DOMAIN opt.lens
    BY <1>1, ZeroFacts DEF TypeOK
  <2>2. \A k \in 1 .. Len(bcast) : k # item[0]
    BY <1>1, ZeroFacts DEF Choosing
  <2> QED BY <1>1, <2>1, <2>2
<1>4. BcastOrdered' /\ Previous'
  BY <1>1, <1>3 DEF Choosing, BcastOrdered, Previous
<1>5. Fitting'
  BY <1>1, <1>2, <1>3 DEF Fitting, FitsBefore, Fits, Size
<1> QED BY <1>1, <1>4, <1>5 DEF Choosing

LEMMA ChoosingSend ==
  ASSUME TypeOK, Choosing, DynamicRuns, Send
  PROVE  Choosing'
<1>1. /\ opt' = opt /\ bcast' = Append(bcast, n_sample[0]) /\ item' = item
      /\ numiters' = numiters /\ pc[0] = "bcast" /\ pc'[0] = "measure"
      /\ n_sample_prev'[0] = n_sample[0] /\ bcast \in Seq(Nat \ {0})
  BY RankZero DEF Send, TypeOK
<1>2. /\ Len(bcast) = item[0] - 1 /\ item[0] \in DOMAIN opt.lens /\ Len(bcast) \in Nat
      /\ n_sample[0] > 0 /\ n_sample[0] <= Selected(opt, opt.lens[item[0]])
      /\ FitsBefore(n_sample[0], 0, item[0])
      /\ opt.listed => numiters[0][item[0]] = n_sample[0]
      /\ item[0] \in Nat
  BY <1>1, ZeroFacts DEF Choosing, Fitting, Size
<1>3. /\ Len(bcast') = item[0] /\ bcast'[item[0]] = n_sample[0]
      /\ \A k \in 1 .. Len(bcast) : bcast'[k] = bcast[k]
  BY <1>1, <1>2
<1>4. ASSUME NEW k \in 1 .. item[0]
      PROVE  /\ k \in DOMAIN opt.lens /\ bcast'[k] <= Selected(opt, opt.lens[k])
             /\ \A j \in 1 .. item[0] :
                  opt.lens[j] < opt.lens[k] => bcast'[j] >= bcast'[k]
             /\ opt.listed => numiters[0][k] = bcast'[k]
  <2>1. \A j \in 1 .. item[0] : j = item[0] \/ j \in 1 .. Len(bcast)
    BY <1>2
  <2>2. \A j \in 1 .. Len(bcast) : Fits(n_sample[0], Size(0), j)
    BY <1>2 DEF FitsBefore
  <2>3. \A j \in 1 .. Len(bcast) : /\ opt.lens[j] \in Nat /\ bcast[j] \in Nat
                                   /\ j \in DOMAIN opt.lens
    BY ZeroFacts DEF Choosing, BcastOrdered
  <2>4. n_sample[0] \in Int /\ opt.lens[item[0]] \in Nat /\ Size(0) = opt.lens[item[0]]
    BY <1>2, ZeroFacts DEF Size
  <2>5. CASE k = item[0]
    <3>1. ASSUME NEW j \in 1 .. item[0], opt.lens[j] < opt.lens[k]
          PROVE  bcast'[j] >= bcast'[k]
      <4>1. j \in 1 .. Len(bcast)
        BY <2>1, <2>4, <2>5, <3>1
      <4> QED BY <1>3, <2>2, <2>3, <2>4, <2>5, <3>1, <4>1 DEF Fits
    <3> QED BY <1>2, <1>3, <2>5, <3>1
  <2>6. CASE k \in 1 .. Len(bcast)
    <3>1. ASSUME NEW j \in 1 .. item[0], opt.lens[j] < opt.lens[k]
          PROVE  bcast'[j] >= bcast'[k]
      <4>1. CASE j = item[0]
        <5>1. Size(0) <= opt.lens[k]
          BY <2>3, <2>4, <2>6, <3>1, <4>1
        <5> QED BY <1>3, <2>2, <2>6, <4>1, <5>1 DEF Fits
      <4>2. CASE j \in 1 .. Len(bcast)
        BY <1>3, <2>6, <3>1, <4>2 DEF Choosing, BcastOrdered
      <4> QED BY <2>1, <4>1, <4>2
    <3> QED BY <1>3, <2>6, <3>1 DEF Choosing, BcastOrdered
  <2> QED BY <2>1, <2>5, <2>6
<1>5. BcastOrdered'
  BY <1>1, <1>3, <1>4 DEF BcastOrdered
<1>6. Previous'
  BY <1>1, <1>2, <1>3 DEF Previous
<1>7. Fitting'
  BY <1>1 DEF Fitting
<1> QED BY <1>1, <1>3, <1>5, <1>6, <1>7 DEF Choosing

LEMMA ChoosingStep ==
  ASSUME TypeOK, Together, DynamicRuns, Choosing, opt.policy = "dynamic", Step
  PROVE  Choosing'
<1>1. CASE ReduceTime \/ ReduceReps
  BY <1>1, ChoosingRun
<1>2. CASE \E r \in Rank : Local(r)
  <2>1. PICK r \in Rank : Local(r)
    BY <1>2
  <2>2. CASE r = 0
    <3>1. ~ Receive(0)
      BY DEF Receive
    <3> QED BY <2>1, <2>2, <3>1, ChoosingRun, ChoosingFit, ChoosingCheck, ChoosingSettle,
               ChoosingSend DEF Local
  <2>3. CASE r # 0
    <3>1. bcast' = bcast
      BY <2>1, <2>3 DEF Local, Select, Kernel, FitTime, CheckMonotonic, Settle, Receive
    <3>2. opt' = opt
      BY OptSame
    <3> QED BY <2>1, <2>3, <3>1, <3>2, RankZero, LocalOthers, ChoosingSame
  <2> QED BY <2>2, <2>3
<1> QED BY <1>1, <1>2, StepCases

-----------------------------------------------------------------------------
(***************************************************************************)
(* The inductive invariant holds in the initial states and every step      *)
(* keeps it.                                                               *)
(***************************************************************************)
LEMMA InitInv == Init => IInv
<1> SUFFICES ASSUME Init PROVE IInv
  OBVIOUS
<1>1. opt \in OptionType /\ opt \in Options
  BY OptionsAssumption DEF Init
<1>2. Len(opt.lens) \in Nat /\ opt.lens \in Seq(Nat) /\ DOMAIN opt.lens = 1 .. Len(opt.lens)
  BY <1>1 DEF OptionType
<1>3. TypeOK
  <2>1. 1 \in 1 .. Len(opt.lens) + 1
    BY <1>2
  <2>2. numiters \in [Rank -> [DOMAIN opt.lens -> Int]]
    BY NumbersAssumption DEF Init
  <2>3. ran \in [Rank -> [Runs -> [DOMAIN opt.lens -> Nat]]]
    BY DEF Init
  <2>4. /\ pc \in [Rank -> {"select", "once", "trial", "time", "rep_test", "second", "time2",
                            "fit", "monotonic", "settle", "bcast", "measure"}]
        /\ \A r \in Rank : pc[r] \in Runs => n_sample[r] > 0
    BY DEF Init, Runs
  <2>5. bcast \in Seq(Nat \ {0})
    BY DEF Init
  <2> QED BY <1>1, <2>1, <2>2, <2>3, <2>4, <2>5 DEF Init, TypeOK
<1>4. \A r \in Rank : pc[r] = "select" /\ item[r] = 1
  BY DEF Init
<1>5. \A r \in Rank, k \in DOMAIN opt.lens :
        /\ ran[r]["once"][k] = 0 /\ ran[r]["trial"][k] = 0
        /\ ran[r]["second"][k] = 0 /\ ran[r]["measure"][k] = 0
  BY DEF Init, Runs
<1>6. \A k \in DOMAIN opt.lens : k \in Nat /\ k >= 1
  BY <1>2
<1>7. Together
  BY <1>4 DEF Together, Segment
<1>8. DynamicRuns
  <2>1. \A r \in Rank : Prepared(r) /\ \A k \in DOMAIN opt.lens : Recorded(r, k)
    BY <1>4, <1>5, <1>6 DEF Prepared, Recorded
  <2>2. AgreedReps
    BY <1>4 DEF AgreedReps
  <2>3. AgreedSecond
    BY <1>5 DEF AgreedSecond
  <2> QED BY <2>1, <2>2, <2>3 DEF DynamicRuns
<1>9. Choosing
  <2>1. bcast = <<>> /\ Len(bcast) = 0 /\ pc[0] = "select" /\ item[0] = 1
    BY <1>4, RankZero DEF Init
  <2> QED BY <2>1 DEF Choosing, BcastOrdered, Previous, Fitting
<1>10. FixedRuns
  BY <1>4, <1>5, <1>6 DEF FixedRuns
<1> QED BY <1>3, <1>7, <1>8, <1>9, <1>10 DEF IInv

LEMMA NextInv == IInv /\ [Next]_vars => IInv'
<1> SUFFICES ASSUME IInv, [Next]_vars PROVE IInv'
  OBVIOUS
<1>1. CASE Step
  <2>1. TypeOK' /\ opt' = opt
    BY <1>1, TypeStep, OptSame
  <2>2. CASE opt.policy = "dynamic"
    BY <1>1, <2>1, <2>2, TogetherStep, DynamicStep, ChoosingStep DEF IInv
  <2>3. CASE opt.policy # "dynamic"
    BY <1>1, <2>1, <2>3, FixedStep DEF IInv
  <2> QED BY <2>2, <2>3
<1>2. CASE UNCHANGED vars
  <2>1. TypeOK'
    BY <1>2 DEF IInv, TypeOK, vars
  <2>2. CASE opt.policy = "dynamic"
    <3>1. Together' /\ DynamicRuns'
      BY <1>2, <2>2 DEF IInv, vars, Together, Segment, DynamicRuns, Prepared, Recorded,
                        AgreedReps, AgreedSecond
    <3>2. Choosing'
      BY <1>2, <2>2, ChoosingSame DEF IInv, vars
    <3> QED BY <1>2, <2>1, <2>2, <3>1, <3>2 DEF IInv, vars
  <2>3. CASE opt.policy # "dynamic"
    <3>1. FixedRuns'
      BY <1>2, <2>3 DEF IInv, vars, FixedRuns, Size
    <3> QED BY <1>2, <2>1, <2>3, <3>1 DEF IInv, vars
  <2> QED BY <2>2, <2>3
<1> QED BY <1>1, <1>2 DEF Next, Terminated

-----------------------------------------------------------------------------
(***************************************************************************)
(* What the invariant says of the runs made.                               *)
(***************************************************************************)
LEMMA InvSame == IInv => SameRuns
<1> SUFFICES ASSUME IInv, NEW r \in Rank, NEW q \in Rank, NEW p \in Runs,
                    NEW k \in DOMAIN opt.lens
             PROVE  \/ ran[r][p][k] = ran[q][p][k]
                    \/ ran[r][p][k] = 0 /\ item[r] <= k
                    \/ ran[q][p][k] = 0 /\ item[q] <= k
  BY DEF SameRuns
<1>0. TypeOK
  BY DEF IInv
<1>1. item[r] \in Nat /\ item[q] \in Nat /\ k \in Nat
  BY <1>0, Items
<1>2. CASE opt.policy # "dynamic"
  <2>1. FixedRuns!(r)!3!(k) /\ FixedRuns!(q)!3!(k)
    BY <1>2 DEF IInv, FixedRuns
  <2>2. CASE p \in {"once", "second"}
    BY <2>1, <2>2
  <2>3. CASE p = "trial"
    BY <1>1, <2>1, <2>3
  <2>4. CASE p = "measure"
    BY <1>1, <2>1, <2>4
  <2> QED BY <2>2, <2>3, <2>4 DEF Runs
<1>3. CASE opt.policy = "dynamic"
  <2>1. Recorded(r, k) /\ Recorded(q, k)
    BY <1>3 DEF IInv, DynamicRuns
  <2>2. CASE p \in {"once", "trial", "measure"}
    BY <1>1, <2>1, <2>2 DEF Recorded
  <2>3. CASE p = "second"
    <3>1. Segment(r) = Segment(q)
      BY <1>3 DEF IInv, Together
    <3>2. CASE Segment(r) > 3 * k + 2
      BY <1>3, <2>3, <3>1, <3>2 DEF IInv, DynamicRuns, AgreedSecond
    <3>3. CASE ~ (Segment(r) > 3 * k + 2)
      <4>1. ASSUME NEW s \in Rank, ~ (Segment(s) > 3 * k + 2), item[s] \in Nat,
                   Recorded(s, k), ran[s]["second"][k] # 0
            PROVE  pc[s] = "time2" /\ k = item[s] /\ ran[s]["second"][k] = n_sample[s]
        <5>1. item[s] <= k
          BY <1>1, <4>1 DEF Segment
        <5>2. k = item[s] /\ pc[s] \notin {"select", "once", "time", "rep_test", "second"}
          BY <1>1, <4>1, <5>1 DEF Recorded
        <5>3. pc[s] = "time2"
          BY <1>1, <4>1, <5>2 DEF Segment
        <5> QED BY <4>1, <5>2, <5>3 DEF Recorded
      <4>2. item[r] <= k /\ item[q] <= k
        <5>1. ~ (Segment(q) > 3 * k + 2)
          BY <3>1, <3>3
        <5> QED BY <1>1, <3>3, <5>1 DEF Segment
      <4>3. CASE ran[r]["second"][k] = 0 \/ ran[q]["second"][k] = 0
        BY <2>3, <4>2, <4>3
      <4>4. CASE ran[r]["second"][k] # 0 /\ ran[q]["second"][k] # 0
        <5>1. /\ pc[r] = "time2" /\ ran[r]["second"][k] = n_sample[r]
              /\ ran[q]["second"][k] = n_sample[q]
          BY <1>1, <2>1, <3>1, <3>3, <4>1, <4>4
        <5> QED BY <1>3, <2>3, <5>1 DEF IInv, DynamicRuns, AgreedReps
      <4> QED BY <4>3, <4>4
    <3> QED BY <3>2, <3>3
  <2> QED BY <2>2, <2>3 DEF Runs
<1> QED BY <1>2, <1>3

LEMMA MeasuredBcast ==
  ASSUME IInv, opt.policy = "dynamic", NEW r \in Rank, NEW k \in Measured(r)
  PROVE  /\ k \in 1 .. Len(bcast) /\ k \in DOMAIN opt.lens
         /\ ran[r]["measure"][k] = bcast[k] /\ bcast[k] \in Nat \ {0}
         /\ bcast[k] <= Selected(opt, opt.lens[k])
<1>1. TypeOK /\ DynamicRuns /\ Choosing
  BY DEF IInv
<1>2. k \in DOMAIN opt.lens /\ ran[r]["measure"][k] # 0
  BY DEF Measured
<1>3. k \in Nat /\ k >= 1
  BY <1>1, <1>2, Items
<1>4. k <= Len(bcast) /\ ran[r]["measure"][k] = bcast[k]
  BY <1>1, <1>2 DEF DynamicRuns, Recorded
<1>5. k \in 1 .. Len(bcast) /\ bcast[k] \in Nat \ {0}
  BY <1>1, <1>3, <1>4, ZeroFacts
<1> QED BY <1>1, <1>2, <1>4, <1>5 DEF Choosing, BcastOrdered

LEMMA InvMonotonic == IInv => Monotonic
<1> SUFFICES ASSUME IInv, opt.policy = "dynamic", NEW r \in Rank, NEW j \in Measured(r),
                    NEW k \in Measured(r), opt.lens[j] < opt.lens[k]
             PROVE  ran[r]["measure"][j] >= ran[r]["measure"][k]
  BY DEF Monotonic, Antitone
<1>1. BcastOrdered
  BY DEF IInv, Choosing
<1> QED BY <1>1, MeasuredBcast DEF BcastOrdered

LEMMA InvRestrictions == IInv => Restrictions
<1> SUFFICES ASSUME IInv, opt.policy = "dynamic", NEW r \in Rank, NEW k \in Measured(r)
             PROVE  \/ ran[r]["measure"][k] = 1
                    \/ /\ ran[r]["measure"][k] <= opt.x_sample
                       /\ ran[r]["measure"][k] * opt.lens[k] <= opt.overall_vol
  BY DEF Restrictions
<1>1. opt \in Options /\ TypeOK
  BY DEF IInv, TypeOK
<1>2. k \in DOMAIN opt.lens
  BY DEF Measured
<1>3. opt.lens[k] \in Nat
  BY <1>1, <1>2, Lens
<1> QED BY <1>1, <1>3, MeasuredBcast, SelectedRestricted

LEMMA InvNegativeLeg ==
  ASSUME NoOverflow
  PROVE  IInv => NegativeLeg
<1> SUFFICES ASSUME IInv, opt.policy = "multiple_np", NEW r \in Rank, NEW j \in Measured(r),
                    NEW k \in Measured(r), opt.lens[j] < opt.lens[k]
             PROVE  ran[r]["measure"][j] >= ran[r]["measure"][k]
  BY DEF NegativeLeg, Antitone
<1>1. opt \in Options /\ FixedRuns /\ TypeOK
  BY DEF IInv, TypeOK
<1>2. ASSUME NEW i \in Measured(r)
      PROVE  i \in DOMAIN opt.lens /\ ran[r]["measure"][i] = Hyperbola(opt, opt.lens[i])
  BY <1>1 DEF Measured, FixedRuns, Selected
<1>3. opt.lens[j] \in Nat /\ opt.lens[k] \in Nat
  BY <1>1, <1>2, Lens
<1>4. Hyperbola(opt, opt.lens[k]) <= Hyperbola(opt, opt.lens[j])
  BY <1>1, <1>2, <1>3, HyperbolaAntitone
<1>5. Hyperbola(opt, opt.lens[k]) \in Nat /\ Hyperbola(opt, opt.lens[j]) \in Nat
  <2>1. \A i \in DOMAIN opt.lens : Selected(opt, opt.lens[i]) = Hyperbola(opt, opt.lens[i])
    BY DEF Selected
  <2> QED BY <1>1, <1>2, <2>1, Lens
<1> QED BY <1>2, <1>4, <1>5

(***************************************************************************)
(* The inductive invariant is one.                                         *)
(***************************************************************************)
THEOREM Inductive == Spec => []IInv
BY InitInv, NextInv, PTL DEF Spec

(***************************************************************************)
(* The variables always have values of their kinds, and no run of the      *)
(* kernel is made with less than one repetition.                           *)
(***************************************************************************)
THEOREM TypeCorrect == Spec => []TypeOK
<1>1. IInv => TypeOK
  BY DEF IInv
<1> QED BY <1>1, Inductive, PTL

(***************************************************************************)
(* All ranks make the same runs, for every number of ranks, all sizes,     *)
(* policies and times measured, and in every interleaving.                 *)
(***************************************************************************)
THEOREM SameRunsAlways == Spec => []SameRuns
BY InvSame, Inductive, PTL

(***************************************************************************)
(* A larger message is never measured with more repetitions, in whatever   *)
(* order the sizes of -msglen are and whatever is in numiters at first.    *)
(***************************************************************************)
THEOREM MonotonicAlways == Spec => []Monotonic
BY InvMonotonic, Inductive, PTL

(***************************************************************************)
(* No measurement exceeds what -iter allows.                               *)
(***************************************************************************)
THEOREM RestrictionsAlways == Spec => []Restrictions
BY InvRestrictions, Inductive, PTL

(***************************************************************************)
(* For benchmarks with a root a larger message is never measured with more *)
(* repetitions, for every number of ranks and all sizes for which the      *)
(* denominator of the hyperbola fits an int.  (It does not for 2^30 bytes  *)
(* on four ranks.)                                                         *)
(***************************************************************************)
THEOREM NegativeLegAlways ==
  ASSUME NoOverflow
  PROVE  Spec => []NegativeLeg
BY InvNegativeLeg, Inductive, PTL
=============================================================================
