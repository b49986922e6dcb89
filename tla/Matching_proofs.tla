---------------------------- MODULE Matching_proofs ----------------------------
(***************************************************************************)
(* Programs of sends, receives, waits and barriers: those that are sound   *)
(* keep the invariant that only mates meet, and in those that are paced no *)
(* sender is far ahead.  Programs are put together from pieces, which are  *)
(* here the pairs, rings, windows, exchanges and grids of any kernels.     *)
(***************************************************************************)
EXTENDS Matching, SequencesExt, TLAPS, WellFoundedInduction, SequenceTheorems, FiniteSetTheorems

-----------------------------------------------------------------------------
(***************************************************************************)
(* A set with 0 and the successors of its numbers has all numbers: else    *)
(* look at the least that it has not.                                      *)
(***************************************************************************)
LEMMA Induction ==
  ASSUME NEW S, 0 \in S, \A n \in Nat : n \in S => n + 1 \in S
  PROVE  Nat \subseteq S
<1> SUFFICES ASSUME Nat \ S # {} PROVE FALSE
  OBVIOUS
<1>1. PICK m \in Nat \ S : \A k \in Nat \ S : ~ (<<k, m>> \in OpToRel(<, Nat))
  BY WFMin, NatLessThanWellFounded
<1>2. m # 0 /\ m - 1 \in Nat
  OBVIOUS
<1>3. <<m - 1, m>> \in OpToRel(<, Nat)
  BY <1>2 DEF OpToRel
<1>4. m - 1 \in S
  BY <1>1, <1>2, <1>3
<1>5. (m - 1) + 1 = m
  OBVIOUS
<1> QED BY <1>2, <1>4, <1>5

(***************************************************************************)
(* The function that FlattenSeq is defined with; there is one, and one     *)
(* only.                                                                   *)
(***************************************************************************)
Flattens(f, s, n) ==
  f = [i \in 1 .. n |-> IF i = 1 THEN s[i] ELSE f[i - 1] \o s[i]]

LEMMA FlattensExists ==
  ASSUME NEW S, NEW s \in Seq(Seq(S)), NEW n \in 0 .. Len(s)
  PROVE  \E f : Flattens(f, s, n) /\ \A i \in 1 .. n : f[i] \in Seq(S)
<1> DEFINE N == {k \in Nat : k <= Len(s) =>
                    \E f : Flattens(f, s, k) /\ \A i \in 1 .. k : f[i] \in Seq(S)}
<1>1. 0 \in N
  <2>1. Flattens(<<>>, s, 0)
    BY DEF Flattens
  <2> QED BY <2>1
<1>2. ASSUME NEW k \in Nat, k \in N PROVE k + 1 \in N
  <2> SUFFICES ASSUME k + 1 <= Len(s)
               PROVE  \E f : Flattens(f, s, k + 1) /\ \A i \in 1 .. k + 1 : f[i] \in Seq(S)
    OBVIOUS
  <2>1. PICK f : Flattens(f, s, k) /\ \A i \in 1 .. k : f[i] \in Seq(S)
    BY <1>2
  <2> DEFINE v == IF k = 0 THEN s[k + 1] ELSE f[k] \o s[k + 1]
             g == [i \in 1 .. k + 1 |-> IF i = k + 1 THEN v ELSE f[i]]
  <2>2. s[k + 1] \in Seq(S)
    OBVIOUS
  <2>3. v \in Seq(S)
    BY <2>1, <2>2
  <2> HIDE DEF v
  <2>4. \A i \in 1 .. k + 1 : g[i] \in Seq(S)
    BY <2>1, <2>3
  <2>5. ASSUME NEW i \in 1 .. k + 1
        PROVE  g[i] = IF i = 1 THEN s[i] ELSE g[i - 1] \o s[i]
    <3>1. CASE i = k + 1
      BY <3>1 DEF v
    <3>2. CASE i # k + 1
      <4>1. i \in 1 .. k /\ (i # 1 => i - 1 \in 1 .. k /\ i - 1 # k + 1 /\ i - 1 \in 1 .. k + 1)
        BY <3>2
      <4>2. f[i] = IF i = 1 THEN s[i] ELSE f[i - 1] \o s[i]
        BY <2>1, <4>1 DEF Flattens
      <4> QED BY <4>1, <4>2
    <3> QED BY <3>1, <3>2
  <2>6. Flattens(g, s, k + 1)
    <3>1. g = [i \in 1 .. k + 1 |-> g[i]]
      OBVIOUS
    <3> HIDE DEF g
    <3> QED BY <2>5, <3>1 DEF Flattens
  <2> HIDE DEF g
  <2> QED BY <2>4, <2>6
<1> HIDE DEF N
<1>3. Nat \subseteq N
  BY <1>1, <1>2, Induction
<1> QED BY <1>3 DEF N

LEMMA FlattensSame ==
  ASSUME NEW s, NEW t, NEW n \in Nat, NEW m \in Nat,
         NEW f, NEW g, Flattens(f, s, n), Flattens(g, t, m),
         NEW i \in 1 .. n, i <= m, \A j \in 1 .. i : s[j] = t[j]
  PROVE  f[i] = g[i]
<1> DEFINE N == {k \in Nat : k \in 1 .. i => f[k] = g[k]}
<1>1. 0 \in N
  OBVIOUS
<1>2. ASSUME NEW k \in Nat, k \in N PROVE k + 1 \in N
  <2> SUFFICES ASSUME k + 1 \in 1 .. i PROVE f[k + 1] = g[k + 1]
    OBVIOUS
  <2>1. /\ f[k + 1] = IF k + 1 = 1 THEN s[k + 1] ELSE f[(k + 1) - 1] \o s[k + 1]
        /\ g[k + 1] = IF k + 1 = 1 THEN t[k + 1] ELSE g[(k + 1) - 1] \o t[k + 1]
    <3>1. k + 1 \in 1 .. n /\ k + 1 \in 1 .. m
      OBVIOUS
    <3> QED BY <3>1 DEF Flattens
  <2>2. (k + 1) - 1 = k /\ s[k + 1] = t[k + 1] /\ (k + 1 # 1 => k \in 1 .. i)
    OBVIOUS
  <2> QED BY <1>2, <2>1, <2>2
<1> HIDE DEF N
<1>3. Nat \subseteq N
  BY <1>1, <1>2, Induction
<1> QED BY <1>3 DEF N

LEMMA FlattenIs ==
  ASSUME NEW S, NEW s \in Seq(Seq(S)), s # <<>>, NEW f, Flattens(f, s, Len(s))
  PROVE  FlattenSeq(s) = f[Len(s)]
<1> DEFINE n == Len(s)
           h == CHOOSE h : Flattens(h, s, n)
<1>1. Flattens(h, s, n)
  OBVIOUS
<1>2. FlattenSeq(s) = h[n]
  BY DEF FlattenSeq, Flattens
<1>3. n \in Nat /\ n # 0 /\ n \in 1 .. n
  OBVIOUS
<1> HIDE DEF h, n
<1>4. h[n] = f[n]
  BY <1>1, <1>3, FlattensSame DEF n
<1> QED BY <1>2, <1>4 DEF n

(***************************************************************************)
(* One more sequence is appended to the result.                            *)
(***************************************************************************)
LEMMA FlattenAppend ==
  ASSUME NEW S, NEW s \in Seq(Seq(S)), NEW e \in Seq(S)
  PROVE  /\ FlattenSeq(<<>>) = <<>> /\ FlattenSeq(s) \in Seq(S)
         /\ FlattenSeq(Append(s, e)) = FlattenSeq(s) \o e
<1> DEFINE n == Len(s)
           t == Append(s, e)
<1>1. FlattenSeq(<<>>) = <<>>
  BY DEF FlattenSeq
<1>2. /\ t \in Seq(Seq(S)) /\ Len(t) = n + 1 /\ t # <<>> /\ t[n + 1] = e /\ n \in Nat
      /\ \A j \in 1 .. n : t[j] = s[j]
  <2>1. /\ t \in Seq(Seq(S)) /\ Len(t) = n + 1 /\ t[n + 1] = e
        /\ \A j \in 1 .. n : t[j] = s[j]
    BY AppendProperties
  <2>2. n \in Nat
    OBVIOUS
  <2> HIDE DEF t, n
  <2>3. t # <<>>
    BY <2>1, <2>2
  <2> QED BY <2>1, <2>2, <2>3
<1> HIDE DEF t, n
<1>3. PICK f : Flattens(f, s, n) /\ \A i \in 1 .. n : f[i] \in Seq(S)
  <2>1. n \in 0 .. Len(s)
    BY <1>2 DEF n
  <2> QED BY <2>1, FlattensExists
<1>4. PICK g : Flattens(g, t, n + 1)
  <2>1. n + 1 \in 0 .. Len(t)
    BY <1>2
  <2> QED BY <1>2, <2>1, FlattensExists
<1>5. FlattenSeq(t) = g[n + 1]
  BY <1>2, <1>4, FlattenIs
<1>6. CASE n = 0
  <2>1. s = <<>>
    BY <1>6 DEF n
  <2>2. g[n + 1] = e
    BY <1>2, <1>4, <1>6 DEF Flattens
  <2>3. <<>> \o e = e /\ <<>> \in Seq(S)
    OBVIOUS
  <2>4. FlattenSeq(s) = <<>>
    BY <1>1, <2>1
  <2>5. FlattenSeq(t) = <<>> \o e
    BY <1>5, <2>2, <2>3
  <2> QED BY <1>1, <2>3, <2>4, <2>5 DEF t
<1>7. CASE n # 0
  <2>1. FlattenSeq(s) = f[n] /\ f[n] \in Seq(S)
    <3>1. s # <<>>
      BY <1>7 DEF n
    <3> QED BY <1>2, <1>3, <1>7, <3>1, FlattenIs DEF n
  <2>2. g[n] = f[n]
    <3>1. n + 1 \in Nat /\ n \in 1 .. n + 1 /\ n <= n /\ \A j \in 1 .. n : t[j] = s[j]
      BY <1>2, <1>7
    <3>2. Flattens(g, t, n + 1) /\ Flattens(f, s, n) /\ n \in Nat
      BY <1>2, <1>3, <1>4
    <3> HIDE DEF n, t
    <3> QED BY <3>1, <3>2, FlattensSame
  <2>3. g[n + 1] = g[(n + 1) - 1] \o t[n + 1]
    <3>1. n + 1 \in 1 .. n + 1 /\ n + 1 # 1
      BY <1>2, <1>7
    <3> QED BY <1>4, <3>1 DEF Flattens
  <2>4. (n + 1) - 1 = n
    BY <1>2
  <2> QED BY <1>1, <1>2, <1>5, <2>1, <2>2, <2>3, <2>4 DEF t
<1> QED BY <1>6, <1>7

(***************************************************************************)
(* A sequence of the flattened ones begins where the ones before end.      *)
(***************************************************************************)
StartOf(s, g) == Len(FlattenSeq(SubSeq(s, 1, g - 1)))

LEMMA Starts ==
  ASSUME NEW S, NEW s \in Seq(Seq(S))
  PROVE  /\ StartOf(s, 1) = 0 /\ StartOf(s, Len(s) + 1) = Len(FlattenSeq(s))
         /\ \A g \in 1 .. Len(s) : /\ StartOf(s, g) \in Nat
                                  /\ StartOf(s, g + 1) = StartOf(s, g) + Len(s[g])
<1> DEFINE n == Len(s)
<1>1. n \in Nat /\ \A g \in 1 .. n : s[g] \in Seq(S)
  OBVIOUS
<1>2. \A g \in 1 .. n + 1 : SubSeq(s, 1, g - 1) \in Seq(Seq(S))
  OBVIOUS
<1>3. SubSeq(s, 1, 0) = <<>> /\ SubSeq(s, 1, n) = s
  OBVIOUS
<1>4. ASSUME NEW g \in 1 .. n
      PROVE  SubSeq(s, 1, g) = Append(SubSeq(s, 1, g - 1), s[g])
  OBVIOUS
<1>5. StartOf(s, 1) = 0
  <2>1. FlattenSeq(<<>>) = <<>>
    BY <1>1, <1>2, FlattenAppend
  <2>2. SubSeq(s, 1, 1 - 1) = <<>> /\ Len(<<>>) = 0
    BY <1>3
  <2> QED BY <2>1, <2>2 DEF StartOf
<1>6. StartOf(s, n + 1) = Len(FlattenSeq(s))
  <2>1. (n + 1) - 1 = n
    BY <1>1
  <2> QED BY <1>3, <2>1 DEF StartOf
<1>7. ASSUME NEW g \in 1 .. n
      PROVE  StartOf(s, g) \in Nat /\ StartOf(s, g + 1) = StartOf(s, g) + Len(s[g])
  <2> DEFINE t == SubSeq(s, 1, g - 1)
  <2>1. t \in Seq(Seq(S)) /\ s[g] \in Seq(S) /\ (g + 1) - 1 = g
    BY <1>1, <1>2
  <2>2. SubSeq(s, 1, (g + 1) - 1) = Append(t, s[g])
    BY <1>4, <2>1
  <2> HIDE DEF t
  <2>3. FlattenSeq(t) \in Seq(S) /\ FlattenSeq(Append(t, s[g])) = FlattenSeq(t) \o s[g]
    BY <2>1, FlattenAppend
  <2>4. Len(FlattenSeq(t) \o s[g]) = Len(FlattenSeq(t)) + Len(s[g]) /\ Len(FlattenSeq(t)) \in Nat
    BY <2>1, <2>3
  <2> QED BY <2>2, <2>3, <2>4 DEF StartOf, t
<1> QED BY <1>5, <1>6, <1>7

(***************************************************************************)
(* It ends in the whole.                                                   *)
(***************************************************************************)
LEMMA StartsInside ==
  ASSUME NEW S, NEW s \in Seq(Seq(S)), NEW g \in 1 .. Len(s)
  PROVE  StartOf(s, g) + Len(s[g]) <= Len(FlattenSeq(s))
<1> DEFINE n == Len(s)
           N == {k \in Nat : g + k <= n => StartOf(s, g) + Len(s[g]) <= StartOf(s, g + k + 1)}
<1>1. /\ n \in Nat /\ g \in 1 .. n /\ StartOf(s, n + 1) = Len(FlattenSeq(s))
      /\ \A h \in 1 .. n : /\ StartOf(s, h) \in Nat /\ StartOf(s, h + 1) = StartOf(s, h) + Len(s[h])
                          /\ Len(s[h]) \in Nat
  BY Starts
<1>2. 0 \in N
  <2>1. StartOf(s, g + 0 + 1) = StartOf(s, g) + Len(s[g]) /\ StartOf(s, g) + Len(s[g]) \in Nat
    BY <1>1
  <2> QED BY <2>1
<1>3. ASSUME NEW k \in Nat, k \in N PROVE k + 1 \in N
  <2> SUFFICES ASSUME g + (k + 1) <= n
               PROVE  StartOf(s, g) + Len(s[g]) <= StartOf(s, g + (k + 1) + 1)
    OBVIOUS
  <2> HIDE DEF n
  <2>1. g + k <= n /\ g + k + 1 \in 1 .. n /\ g + (k + 1) + 1 = (g + k + 1) + 1
    BY <1>1
  <2>2. StartOf(s, g) + Len(s[g]) <= StartOf(s, g + k + 1)
    BY <1>3, <2>1
  <2>3. /\ StartOf(s, (g + k + 1) + 1) = StartOf(s, g + k + 1) + Len(s[g + k + 1])
        /\ Len(s[g + k + 1]) \in Nat /\ StartOf(s, g + k + 1) \in Nat
        /\ StartOf(s, g) \in Nat /\ Len(s[g]) \in Nat
    BY <1>1, <2>1
  <2> HIDE DEF N
  <2> QED BY <2>1, <2>2, <2>3
<1> HIDE DEF N
<1>4. n - g \in N
  <2>1. Nat \subseteq N
    BY <1>2, <1>3, Induction
  <2> QED BY <1>1, <2>1
<1> HIDE DEF n
<1>5. g + (n - g) <= n /\ g + (n - g) + 1 = n + 1
  BY <1>1
<1> QED BY <1>1, <1>4, <1>5 DEF N

(***************************************************************************)
(* Where it begins when all have the same length.                          *)
(***************************************************************************)
LEMMA StartsEqual ==
  ASSUME NEW S, NEW s \in Seq(Seq(S)), NEW m \in Nat, \A g \in 1 .. Len(s) : Len(s[g]) = m,
         NEW h \in 1 .. Len(s) + 1
  PROVE  StartOf(s, h) = (h - 1) * m
<1> DEFINE n == Len(s)
           N == {k \in Nat : k <= n => StartOf(s, k + 1) = k * m}
<1>1. /\ n \in Nat /\ StartOf(s, 1) = 0
      /\ \A g \in 1 .. n : StartOf(s, g) \in Nat /\ StartOf(s, g + 1) = StartOf(s, g) + m
  BY Starts
<1> HIDE DEF n
<1>2. 0 \in N
  BY <1>1
<1>3. ASSUME NEW k \in Nat, k \in N PROVE k + 1 \in N
  <2>1. ASSUME k + 1 <= n PROVE StartOf(s, (k + 1) + 1) = (k + 1) * m
    <3>1. StartOf(s, k + 1) = k * m /\ k + 1 \in 1 .. n
      BY <1>1, <1>3, <2>1
    <3>2. StartOf(s, (k + 1) + 1) = k * m + m
      BY <1>1, <3>1
    <3> QED BY <3>2
  <2> QED BY <2>1
<1> HIDE DEF N
<1>4. h - 1 \in N
  <2>1. Nat \subseteq N
    BY <1>2, <1>3, Induction
  <2> QED BY <1>1, <2>1 DEF n
<1>5. h - 1 <= n /\ (h - 1) + 1 = h
  BY <1>1 DEF n
<1> QED BY <1>4, <1>5 DEF N

-----------------------------------------------------------------------------
(***************************************************************************)
(* Operations are pairs of a rank and an index.                            *)
(***************************************************************************)
LEMMA OperationsAre ==
  ASSUME NEW p, NEW x
  PROVE  x \in Operations(p) <=>
           /\ x = <<x[1], x[2]>>
           /\ x[1] \in DOMAIN p
           /\ x[2] \in 1 .. Len(p[x[1]])
<1>1. ASSUME x \in Operations(p)
      PROVE  x = <<x[1], x[2]>> /\ x[1] \in DOMAIN p /\ x[2] \in 1 .. Len(p[x[1]])
  <2>1. PICK r \in DOMAIN p : x \in {r} \X (1 .. Len(p[r]))
    BY <1>1 DEF Operations
  <2> QED BY <2>1
<1>2. ASSUME x = <<x[1], x[2]>>, x[1] \in DOMAIN p, x[2] \in 1 .. Len(p[x[1]])
      PROVE  x \in Operations(p)
  <2>1. x \in {x[1]} \X (1 .. Len(p[x[1]]))
    BY <1>2
  <2> QED BY <1>2, <2>1 DEF Operations
<1> QED BY <1>1, <1>2

(***************************************************************************)
(* Two pieces one after the other, on every rank.                          *)
(***************************************************************************)
Then(p, q) == [r \in DOMAIN p |-> p[r] \o q[r]]

(***************************************************************************)
(* The place of an operation x of the second program in both.              *)
(***************************************************************************)
Later(p, x) == <<x[1], Len(p[x[1]]) + x[2]>>

LEMMA KindsOf ==
  ASSUME NEW p, NEW kinds, NEW x
  PROVE  x \in OfKinds(p, kinds) <=> x \in Operations(p) /\ OpOf(p, x).op \in kinds
BY DEF OfKinds

(***************************************************************************)
(* Mates are a send and a receive that fit.                                *)
(***************************************************************************)
LEMMA MatesAre ==
  ASSUME NEW p, NEW m \in Mates(p)
  PROVE  /\ m = <<m[1], m[2]>>
         /\ m[1] \in OfKinds(p, {"isend"})
         /\ m[2] \in OfKinds(p, {"irecv"})
         /\ Fits(p, m[1], m[2])
BY DEF Mates

(***************************************************************************)
(* In a well-formed program the index of an operation is a number.         *)
(***************************************************************************)
LEMMA IndexIsNat ==
  ASSUME NEW p, WellFormed(p), NEW x \in Operations(p)
  PROVE  /\ x[2] \in Nat \ {0}
         /\ OpOf(p, x).time \in Nat
         /\ OpOf(p, x).op \in Kinds
<1>1. x[1] \in DOMAIN p /\ x[2] \in 1 .. Len(p[x[1]])
  BY OperationsAre
<1>2. Len(p[x[1]]) \in Nat
  BY <1>1 DEF WellFormed
<1>3. p[x[1]][x[2]].op \in Kinds /\ p[x[1]][x[2]].time \in Nat
  BY <1>1 DEF WellFormed
<1> QED BY <1>1, <1>2, <1>3 DEF OpOf

(***************************************************************************)
(* If the send of one pair of mates fits the receive of another, the sends *)
(* are of the same rank, the receives are of the same rank, and they are   *)
(* in the same order.                                                      *)
(***************************************************************************)
LEMMA MatesInOrder ==
  ASSUME NEW p, WellFormed(p), Orderly(p),
         NEW m \in Mates(p), NEW n \in Mates(p), Fits(p, m[1], n[2])
  PROVE  /\ m[1][1] = n[1][1]
         /\ m[2][1] = n[2][1]
         /\ m[1][2] < n[1][2] <=> m[2][2] < n[2][2]
<1>1. m[1][1] = n[1][1] /\ (m[1][2] < n[1][2] <=> m[2][2] < n[2][2])
  BY DEF Orderly
<1>2. OpOf(p, m[1]).peer = m[2][1]
  BY MatesAre DEF Fits
<1>3. OpOf(p, m[1]).peer = n[2][1]
  BY DEF Fits
<1> QED BY <1>1, <1>2, <1>3

(***************************************************************************)
(* A send has one mate, and so has a receive.                              *)
(***************************************************************************)
LEMMA OneMate ==
  ASSUME NEW p, WellFormed(p), Orderly(p),
         NEW m \in Mates(p), NEW n \in Mates(p), m[1] = n[1] \/ m[2] = n[2]
  PROVE  m = n
<1>1. /\ m[1] \in Operations(p) /\ n[1] \in Operations(p)
      /\ m[2] \in Operations(p) /\ n[2] \in Operations(p)
  BY MatesAre, KindsOf
<1>2. Fits(p, m[1], n[2]) /\ Fits(p, n[1], m[2])
  BY MatesAre
<1>3. /\ m[1][1] = n[1][1] /\ m[2][1] = n[2][1]
      /\ m[1][2] < n[1][2] <=> m[2][2] < n[2][2]
      /\ n[1][2] < m[1][2] <=> n[2][2] < m[2][2]
  BY <1>2, MatesInOrder
<1>4. m[1][2] \in Nat /\ n[1][2] \in Nat /\ m[2][2] \in Nat /\ n[2][2] \in Nat
  BY <1>1, IndexIsNat
<1>5. m[1][2] = n[1][2] /\ m[2][2] = n[2][2]
  BY <1>3, <1>4
<1>6. m[1] = n[1] /\ m[2] = n[2]
  BY <1>1, <1>3, <1>5, OperationsAre
<1> QED BY <1>6, MatesAre

-----------------------------------------------------------------------------
(***************************************************************************)
(* The invariant that is shown to be inductive: IInv with the types, and   *)
(* what is asked of the program said of every state.                       *)
(***************************************************************************)
Inv ==
  /\ Sound(program)
  /\ AtOK
  /\ BufferedOK
  /\ MatesMet
  /\ SameBarriers
  /\ WaitsOver

(***************************************************************************)
(* A rank that has not finished is at an operation it has not passed.      *)
(***************************************************************************)
LEMMA NowIs ==
  ASSUME Sound(program), AtOK, NEW r \in Rank, ~ Finished(r)
  PROVE  /\ Now(r) \in Operations(program)
         /\ Now(r)[1] = r /\ Now(r)[2] = at[r]
         /\ ~ Passed(Now(r))
<1>1. at[r] \in Nat \ {0} /\ Len(program[r]) \in Nat
  BY DEF AtOK, Sound, WellFormed, Rank
<1>2. at[r] \in 1 .. Len(program[r])
  BY <1>1 DEF Finished
<1>3. Now(r)[1] = r /\ Now(r)[2] = at[r] /\ Now(r) = <<Now(r)[1], Now(r)[2]>>
  BY DEF Now
<1>4. Now(r) \in Operations(program)
  BY <1>2, <1>3, OperationsAre DEF Rank
<1>5. ~ Passed(Now(r))
  BY <1>1, <1>3 DEF Passed
<1> QED BY <1>3, <1>4, <1>5

LEMMA AtIs ==
  ASSUME Sound(program), AtOK, NEW r \in Rank, NEW kinds, IsAt(r, kinds)
  PROVE  Now(r) \in OfKinds(program, kinds) /\ ~ Finished(r)
<1>1. ~ Finished(r) /\ Op(Now(r)).op \in kinds
  BY DEF IsAt
<1> QED BY <1>1, NowIs, KindsOf DEF Op

(***************************************************************************)
(* An operation that is not passed is not before the one its rank is at.   *)
(***************************************************************************)
LEMMA NotPassed ==
  ASSUME Sound(program), AtOK, NEW x \in Operations(program), ~ Passed(x)
  PROVE  /\ x[1] \in Rank /\ ~ Finished(x[1])
         /\ Now(x[1]) \in Operations(program)
         /\ at[x[1]] <= x[2]
         /\ Op(Now(x[1])).time <= Op(x).time
<1> DEFINE r == x[1]
<1>1. r \in Rank /\ x[2] \in 1 .. Len(program[r])
  BY OperationsAre DEF Rank
<1>2. at[r] \in Nat \ {0} /\ Len(program[r]) \in Nat
  BY <1>1 DEF AtOK, Sound, WellFormed, Rank
<1>3. at[r] <= x[2]
  BY <1>1, <1>2 DEF Passed
<1>4. ~ Finished(r)
  BY <1>1, <1>2, <1>3 DEF Finished
<1>5. Now(r) \in Operations(program) /\ Now(r)[1] = r /\ Now(r)[2] = at[r]
  BY <1>1, <1>4, NowIs
<1>6. OpOf(program, Now(r)).time <= OpOf(program, x).time
  BY <1>3, <1>5 DEF Sound, Scheduled
<1> QED BY <1>1, <1>3, <1>4, <1>5, <1>6 DEF Op

LEMMA CalledAre ==
  ASSUME NEW r \in Rank, NEW kinds, NEW x
  PROVE  x \in Called(r, kinds) <=>
           x \in OfKinds(program, kinds) /\ x[1] = r /\ Passed(x)
<1>1. ASSUME x \in Called(r, kinds)
      PROVE  x \in OfKinds(program, kinds) /\ x[1] = r /\ Passed(x)
  <2>1. x \in {r} \X (1 .. Len(program[r])) /\ Passed(x) /\ Op(x).op \in kinds
    BY <1>1 DEF Called
  <2>2. x[1] = r /\ x = <<x[1], x[2]>> /\ x[2] \in 1 .. Len(program[r])
    BY <2>1
  <2>3. x \in Operations(program)
    BY <2>2, OperationsAre DEF Rank
  <2> QED BY <2>1, <2>2, <2>3, KindsOf DEF Op
<1>2. ASSUME x \in OfKinds(program, kinds), x[1] = r, Passed(x)
      PROVE  x \in Called(r, kinds)
  <2>1. x \in Operations(program) /\ OpOf(program, x).op \in kinds
    BY <1>2, KindsOf
  <2>2. x \in {r} \X (1 .. Len(program[r]))
    BY <1>2, <2>1, OperationsAre
  <2> QED BY <1>2, <2>1, <2>2 DEF Called, Op
<1> QED BY <1>1, <1>2

(***************************************************************************)
(* What an advance of rank r changes.                                      *)
(***************************************************************************)
LEMMA PassedThen ==
  ASSUME Sound(program), AtOK, NEW r \in Rank, ~ Finished(r), Advance(r),
         program' = program
  PROVE  /\ AtOK'
         /\ \A x \in Operations(program) : Passed(x)' <=> Passed(x) \/ x = Now(r)
<1>1. /\ at \in [Rank -> Nat \ {0}]
      /\ \A s \in Rank : at[s] <= Len(program[s]) + 1 /\ Len(program[s]) \in Nat
  BY DEF AtOK, Sound, WellFormed, Rank
<1>2. at' = [at EXCEPT ![r] = @ + 1]
  BY DEF Advance
<1>3. at[r] + 1 <= Len(program[r]) + 1
  BY <1>1 DEF Finished
<1>4. Rank' = Rank
  BY DEF Rank
<1>5. AtOK'
  <2>1. at' \in [Rank -> Nat \ {0}]
    BY <1>1, <1>2
  <2>2. \A s \in Rank : at'[s] <= Len(program[s]) + 1
    BY <1>1, <1>2, <1>3
  <2> QED BY <1>4, <2>1, <2>2 DEF AtOK
<1>6. ASSUME NEW x \in Operations(program)
      PROVE  Passed(x)' <=> Passed(x) \/ x = Now(r)
  <2>1. x = <<x[1], x[2]>> /\ x[1] \in Rank /\ x[2] \in 1 .. Len(program[x[1]])
    BY OperationsAre DEF Rank
  <2>2. x[2] \in Nat /\ at[x[1]] \in Nat
    BY <1>1, <2>1
  <2>3. CASE x[1] = r
    <3>1. x = Now(r) <=> x[2] = at[r]
      BY <2>1, <2>3 DEF Now
    <3> QED BY <1>1, <1>2, <2>2, <2>3, <3>1 DEF Passed
  <2>4. CASE x[1] # r
    <3>1. x # Now(r)
      BY <2>4 DEF Now
    <3> QED BY <1>1, <1>2, <2>1, <2>4, <3>1 DEF Passed
  <2> QED BY <2>3, <2>4
<1> QED BY <1>5, <1>6

(***************************************************************************)
(* An operation with a mate is matched when both have been called.         *)
(***************************************************************************)
LEMMA MatchedIff ==
  ASSUME Sound(program), MatesMet, NEW m \in Mates(program)
  PROVE  /\ SendMatched(m[1]) <=> Passed(m[1]) /\ Passed(m[2])
         /\ RecvMatched(m[2]) <=> Passed(m[1]) /\ Passed(m[2])
<1>1. WellFormed(program) /\ Orderly(program)
  BY DEF Sound
<1>2. \A n \in matched : n \in Mates(program) /\ Passed(n[1]) /\ Passed(n[2])
  BY DEF MatesMet
<1>3. Passed(m[1]) /\ Passed(m[2]) => m \in matched
  BY DEF MatesMet
<1>4. \A n \in matched : n[1] = m[1] \/ n[2] = m[2] => n = m
  BY <1>1, <1>2, OneMate
<1> QED BY <1>2, <1>3, <1>4 DEF SendMatched, RecvMatched

-----------------------------------------------------------------------------
(***************************************************************************)
(* A send and its mate are at the first waiting receive that fits it.      *)
(***************************************************************************)
LEMMA SendMeets ==
  ASSUME Sound(program), AtOK, MatesMet, NEW r \in Rank, IsAt(r, {"isend"}),
         NEW m \in Mates(program), m[1] = Now(r)
  PROVE  /\ Passed(m[2]) => m[2] \in Waiting(Now(r))
         /\ \A y \in Waiting(Now(r)) :
              /\ Passed(m[2])
              /\ y \in Operations(program)
              /\ y[1] = m[2][1] /\ m[2][2] <= y[2]
<1>1. WellFormed(program) /\ Orderly(program)
  BY DEF Sound
<1>2. /\ m[1] \in OfKinds(program, {"isend"}) /\ m[2] \in OfKinds(program, {"irecv"})
      /\ Fits(program, m[1], m[2])
      /\ m[1] \in Operations(program) /\ m[2] \in Operations(program)
  BY MatesAre, KindsOf
<1>3. ~ Finished(r) /\ Now(r)[1] = r /\ Now(r)[2] = at[r] /\ ~ Passed(m[1])
  BY NowIs DEF IsAt
<1>4. /\ Op(Now(r)).peer = m[2][1] /\ m[2][1] \in Rank
  BY <1>2, OperationsAre DEF Fits, Op, Rank
<1>5. Passed(m[2]) => m[2] \in Waiting(Now(r))
  <2>1. ~ RecvMatched(m[2])
    BY <1>3, MatchedIff
  <2>2. ASSUME Passed(m[2]) PROVE m[2] \in Called(m[2][1], {"irecv"})
    BY <1>2, <1>4, <2>2, CalledAre
  <2> QED BY <1>2, <1>4, <2>1, <2>2 DEF Waiting
<1>6. ASSUME NEW y \in Waiting(Now(r))
      PROVE  /\ Passed(m[2]) /\ y \in Operations(program)
             /\ y[1] = m[2][1] /\ m[2][2] <= y[2]
  <2>1. /\ y \in Called(m[2][1], {"irecv"})
        /\ Fits(program, m[1], y) /\ ~ RecvMatched(y)
    BY <1>4 DEF Waiting
  <2>2. /\ y \in OfKinds(program, {"irecv"}) /\ y \in Operations(program)
        /\ y[1] = m[2][1] /\ Passed(y)
    BY <1>4, <2>1, CalledAre, KindsOf
  <2>3. PICK x \in OfKinds(program, {"isend"}) : <<x, y>> \in Mates(program)
    BY <1>1, <2>2 DEF Orderly
  <2>4. x \in Operations(program)
    BY KindsOf
  <2>5. /\ m[1][1] = x[1]
        /\ m[1][2] < x[2] <=> m[2][2] < y[2]
    BY <1>1, <2>1, <2>3, MatesInOrder
  <2>6. ~ Passed(x)
    BY <2>1, <2>2, <2>3, MatchedIff
  <2>7. /\ m[1][2] \in Nat /\ x[2] \in Nat /\ m[2][2] \in Nat /\ y[2] \in Nat
    BY <1>1, <1>2, <2>2, <2>4, IndexIsNat
  <2>8. m[1][2] <= x[2]
    BY <1>3, <2>5, <2>6, <2>7 DEF Passed, AtOK
  <2>9. CASE m[1][2] = x[2]
    <3>1. m[1] = x
      BY <1>2, <2>4, <2>5, <2>9, OperationsAre
    <3>2. m[2] = y
      BY <1>1, <2>3, <3>1, OneMate
    <3> QED BY <2>2, <2>7, <3>2
  <2>10. CASE m[1][2] < x[2]
    <3>1. m[2][2] < y[2]
      BY <2>5, <2>10
    <3>2. y[2] < at[y[1]] /\ at[m[2][1]] \in Nat
      BY <1>4, <2>2 DEF Passed, AtOK
    <3>3. Passed(m[2])
      BY <2>2, <2>7, <3>1, <3>2 DEF Passed
    <3> QED BY <2>2, <2>7, <3>1, <3>3
  <2> QED BY <2>7, <2>8, <2>9, <2>10
<1> QED BY <1>5, <1>6

(***************************************************************************)
(* Of the messages that have arrived for a receive the first is its        *)
(* mate's, and they are all from the same rank.                            *)
(***************************************************************************)
LEMMA RecvMeets ==
  ASSUME Sound(program), AtOK, MatesMet, NEW r \in Rank, IsAt(r, {"irecv"}),
         NEW m \in Mates(program), m[2] = Now(r)
  PROVE  /\ Passed(m[1]) => m[1] \in Arrived(Now(r))
         /\ \A x \in Arrived(Now(r)) :
              /\ Passed(m[1])
              /\ x \in Operations(program)
              /\ x[1] = m[1][1] /\ m[1][2] <= x[2]
<1>1. WellFormed(program) /\ Orderly(program)
  BY DEF Sound
<1>2. /\ m[1] \in OfKinds(program, {"isend"}) /\ m[2] \in OfKinds(program, {"irecv"})
      /\ Fits(program, m[1], m[2])
      /\ m[1] \in Operations(program) /\ m[2] \in Operations(program)
  BY MatesAre, KindsOf
<1>3. ~ Finished(r) /\ Now(r)[1] = r /\ Now(r)[2] = at[r] /\ ~ Passed(m[2])
  BY NowIs DEF IsAt
<1>4. m[1][1] \in Rank
  BY <1>2, OperationsAre DEF Rank
<1>5. Passed(m[1]) => m[1] \in Arrived(Now(r))
  <2>1. ~ SendMatched(m[1])
    BY <1>3, MatchedIff
  <2>2. ASSUME Passed(m[1]) PROVE m[1] \in Called(m[1][1], {"isend"})
    BY <1>2, <1>4, <2>2, CalledAre
  <2> QED BY <1>2, <1>4, <2>1, <2>2 DEF Arrived
<1>6. ASSUME NEW x \in Arrived(Now(r))
      PROVE  /\ Passed(m[1]) /\ x \in Operations(program)
             /\ x[1] = m[1][1] /\ m[1][2] <= x[2]
  <2>1. PICK s \in Rank :
          x \in Called(s, {"isend"}) /\ Fits(program, x, m[2]) /\ ~ SendMatched(x)
    BY DEF Arrived
  <2>2. /\ x \in OfKinds(program, {"isend"}) /\ x \in Operations(program)
        /\ Passed(x)
    BY <2>1, CalledAre, KindsOf
  <2>3. PICK y \in OfKinds(program, {"irecv"}) : <<x, y>> \in Mates(program)
    BY <1>1, <2>2 DEF Orderly
  <2>4. y \in Operations(program)
    BY KindsOf
  <2>5. /\ x[1] = m[1][1] /\ y[1] = m[2][1]
        /\ x[2] < m[1][2] <=> y[2] < m[2][2]
    BY <1>1, <2>1, <2>3, MatesInOrder
  <2>6. ~ Passed(y)
    BY <2>1, <2>2, <2>3, MatchedIff
  <2>7. /\ m[1][2] \in Nat /\ x[2] \in Nat /\ m[2][2] \in Nat /\ y[2] \in Nat
    BY <1>1, <1>2, <2>2, <2>4, IndexIsNat
  <2>8. ~ y[2] < m[2][2]
    BY <1>3, <2>5, <2>6, <2>7 DEF Passed, AtOK
  <2>9. m[1][2] <= x[2]
    BY <2>5, <2>7, <2>8
  <2>10. Passed(m[1])
    <3>1. x[2] < at[x[1]] /\ at[m[1][1]] \in Nat
      BY <1>4, <2>2 DEF Passed, AtOK
    <3> QED BY <2>5, <2>7, <2>9, <3>1 DEF Passed
  <2> QED BY <2>2, <2>5, <2>9, <2>10
<1> QED BY <1>5, <1>6

-----------------------------------------------------------------------------
(***************************************************************************)
(* What has been called after an advance of rank r.                        *)
(***************************************************************************)
LEMMA CalledThen ==
  ASSUME Sound(program), AtOK, NEW r \in Rank, ~ Finished(r), Advance(r),
         program' = program, NEW s \in Rank, NEW kinds, NEW x
  PROVE  x \in Called(s, kinds)' <=>
           \/ x \in Called(s, kinds)
           \/ x = Now(r) /\ s = r /\ Op(x).op \in kinds
<1>1. Now(r) \in Operations(program) /\ Now(r)[1] = r
  BY NowIs
<1>2. x \in Called(s, kinds)' <=>
        x \in {s} \X (1 .. Len(program[s])) /\ Passed(x)' /\ Op(x).op \in kinds
  BY DEF Called, Op
<1>3. x \in Called(s, kinds) <=>
        x \in {s} \X (1 .. Len(program[s])) /\ Passed(x) /\ Op(x).op \in kinds
  BY DEF Called
<1>4. x \in {s} \X (1 .. Len(program[s])) <=> x \in Operations(program) /\ x[1] = s
  BY OperationsAre DEF Rank
<1>5. x \in Operations(program) => (Passed(x)' <=> Passed(x) \/ x = Now(r))
  BY PassedThen
<1> QED BY <1>1, <1>2, <1>3, <1>4, <1>5

(***************************************************************************)
(* A step that is no barrier leaves the barriers as they are.              *)
(***************************************************************************)
LEMMA BarriersStay ==
  ASSUME Sound(program), AtOK, SameBarriers, NEW r \in Rank, ~ Finished(r),
         Op(Now(r)).op # "barrier", Advance(r), program' = program
  PROVE  SameBarriers'
<1>1. ASSUME NEW x \in OfKinds(program, {"barrier"})
      PROVE  Passed(x)' <=> Passed(x)
  BY PassedThen, KindsOf DEF Op
<1> QED BY <1>1 DEF SameBarriers, Op

(***************************************************************************)
(* What was waited for is over after a step that has not made a request    *)
(* pending that is not its own, and was no wait for one that is pending.   *)
(***************************************************************************)
LEMMA WaitsStay ==
  ASSUME Sound(program), AtOK, WaitsOver, NEW r \in Rank, ~ Finished(r),
         Advance(r), program' = program,
         \A s \in Rank : \A x \in Pending(s)' : x \in Pending(s) \/ x = Now(r),
         \A x \in Pending(r) : ~ AwaitedBy(program, x, Now(r))
  PROVE  WaitsOver'
<1> SUFFICES ASSUME NEW s \in Rank, NEW x \in Pending(s)', NEW k \in 1 .. at'[s] - 1,
                    AwaitedBy(program, x, <<s, k>>)
             PROVE  FALSE
  BY DEF WaitsOver, Rank
<1>1. s = x[1] /\ x[2] < k
  BY DEF AwaitedBy
<1>2. at \in [Rank -> Nat \ {0}] /\ at' = [at EXCEPT ![r] = @ + 1]
  BY DEF AtOK, Advance
<1>3. x # Now(r)
  BY <1>1, <1>2 DEF Now
<1>4. x \in Pending(s)
  BY <1>3
<1>5. ~ k \in 1 .. at[s] - 1
  BY <1>4 DEF WaitsOver
<1>6. s = r /\ k = at[r]
  BY <1>2, <1>5
<1> QED BY <1>4, <1>6 DEF Now

(***************************************************************************)
(* If a step forgets no match and drops a message from the buffer only     *)
(* when it is matched, nothing becomes pending but what it calls.          *)
(***************************************************************************)
LEMMA PendingThen ==
  ASSUME Sound(program), AtOK, NEW r \in Rank, ~ Finished(r), Advance(r),
         program' = program, matched \subseteq matched',
         \A x \in buffered : x \in buffered' \/ SendMatched(x)'
  PROVE  \A s \in Rank : \A x \in Pending(s)' : x \in Pending(s) \/ x = Now(r)
<1> SUFFICES ASSUME NEW s \in Rank, NEW x \in Pending(s)', x # Now(r)
             PROVE  x \in Pending(s)
  OBVIOUS
<1>1. /\ SendMatched(x) => SendMatched(x)'
      /\ RecvMatched(x) => RecvMatched(x)'
  BY DEF SendMatched, RecvMatched
<1>2. CASE x \in PendingSends(s)'
  <2>1. x \in Called(s, {"isend"})' /\ ~ SendMatched(x)' /\ x \notin buffered'
    BY <1>2 DEF PendingSends
  <2>2. x \in Called(s, {"isend"})
    BY <2>1, CalledThen
  <2> QED BY <1>1, <2>1, <2>2 DEF PendingSends, Pending
<1>3. CASE x \in PendingRecvs(s)'
  <2>1. x \in Called(s, {"irecv"})' /\ ~ RecvMatched(x)'
    BY <1>3 DEF PendingRecvs
  <2>2. x \in Called(s, {"irecv"})
    BY <2>1, CalledThen
  <2> QED BY <1>1, <2>1, <2>2 DEF PendingRecvs, Pending
<1> QED BY <1>2, <1>3 DEF Pending

-----------------------------------------------------------------------------
(***************************************************************************)
(* A send makes a match if and only if the mate is waiting, and that one.  *)
(***************************************************************************)
LEMMA IsendMates ==
  ASSUME Sound(program), AtOK, MatesMet, NEW r \in Rank, IsendStep(r)
  PROVE  MatesMet'
<1>1. /\ IsAt(r, {"isend"}) /\ Advance(r) /\ program' = program
      /\ ~ Finished(r) /\ Now(r) \in OfKinds(program, {"isend"})
      /\ WellFormed(program) /\ Orderly(program)
  BY AtIs DEF IsendStep, Sound
<1>2. PICK y0 \in OfKinds(program, {"irecv"}) : <<Now(r), y0>> \in Mates(program)
  BY <1>1 DEF Orderly
<1> DEFINE m == <<Now(r), y0>>
<1>3. /\ Passed(y0) => y0 \in Waiting(Now(r))
      /\ \A y \in Waiting(Now(r)) :
           Passed(y0) /\ y \in Operations(program) /\ y[1] = y0[1] /\ y0[2] <= y[2]
  BY <1>1, <1>2, SendMeets
<1>4. ASSUME NEW n \in Mates(program)
      PROVE  Passed(n[1])' /\ Passed(n[2])' <=>
               \/ Passed(n[1]) /\ Passed(n[2])
               \/ n = m /\ Passed(y0)
  <2>1. /\ n[1] \in Operations(program) /\ n[2] \in Operations(program)
        /\ OpOf(program, n[2]).op = "irecv"
    BY MatesAre, KindsOf
  <2>2. OpOf(program, Now(r)).op = "isend"
    BY <1>1, KindsOf
  <2>3. Passed(n[2])' <=> Passed(n[2])
    BY <1>1, <2>1, <2>2, PassedThen
  <2>4. Passed(n[1])' <=> Passed(n[1]) \/ n[1] = Now(r)
    BY <1>1, <2>1, PassedThen
  <2>5. n[1] = Now(r) <=> n = m
    BY <1>1, <1>2, OneMate
  <2> QED BY <2>3, <2>4, <2>5
<1>5. CASE \E y \in Waiting(Now(r)) :
             /\ \A z \in Waiting(Now(r)) : y[2] <= z[2]
             /\ matched' = matched \cup {<<Now(r), y>>}
  <2>1. PICK y \in Waiting(Now(r)) :
             /\ \A z \in Waiting(Now(r)) : y[2] <= z[2]
             /\ matched' = matched \cup {<<Now(r), y>>}
    BY <1>5
  <2>2. /\ Passed(y0) /\ y \in Operations(program) /\ y0 \in Operations(program)
        /\ y[1] = y0[1] /\ y0[2] <= y[2] /\ y[2] <= y0[2]
    BY <1>3, <2>1, KindsOf
  <2>3. y[2] \in Nat /\ y0[2] \in Nat
    BY <1>1, <2>2, IndexIsNat
  <2>4. y = y0
    BY <2>2, <2>3, OperationsAre
  <2>5. matched' = {n \in Mates(program) : Passed(n[1])' /\ Passed(n[2])'}
    BY <1>2, <1>4, <2>1, <2>2, <2>4 DEF MatesMet
  <2> QED BY <1>1, <2>5 DEF MatesMet
<1>6. CASE Waiting(Now(r)) = {} /\ matched' = matched
  <2>1. ~ Passed(y0)
    BY <1>3, <1>6
  <2>2. matched' = {n \in Mates(program) : Passed(n[1])' /\ Passed(n[2])'}
    BY <1>4, <1>6, <2>1 DEF MatesMet
  <2> QED BY <1>1, <2>2 DEF MatesMet
<1> QED BY <1>5, <1>6 DEF IsendStep

(***************************************************************************)
(* A receive makes a match if and only if the mate has arrived, and that   *)
(* one, even if it takes messages of any source.                           *)
(***************************************************************************)
LEMMA IrecvMates ==
  ASSUME Sound(program), AtOK, MatesMet, NEW r \in Rank, IrecvStep(r)
  PROVE  MatesMet'
<1>1. /\ IsAt(r, {"irecv"}) /\ Advance(r) /\ program' = program
      /\ ~ Finished(r) /\ Now(r) \in OfKinds(program, {"irecv"})
      /\ WellFormed(program) /\ Orderly(program)
  BY AtIs DEF IrecvStep, Sound
<1>2. PICK x0 \in OfKinds(program, {"isend"}) : <<x0, Now(r)>> \in Mates(program)
  BY <1>1 DEF Orderly
<1> DEFINE m == <<x0, Now(r)>>
<1>3. /\ Passed(x0) => x0 \in Arrived(Now(r))
      /\ \A x \in Arrived(Now(r)) :
           Passed(x0) /\ x \in Operations(program) /\ x[1] = x0[1] /\ x0[2] <= x[2]
  BY <1>1, <1>2, RecvMeets
<1>4. ASSUME NEW n \in Mates(program)
      PROVE  Passed(n[1])' /\ Passed(n[2])' <=>
               \/ Passed(n[1]) /\ Passed(n[2])
               \/ n = m /\ Passed(x0)
  <2>1. /\ n[1] \in Operations(program) /\ n[2] \in Operations(program)
        /\ OpOf(program, n[1]).op = "isend"
    BY MatesAre, KindsOf
  <2>2. OpOf(program, Now(r)).op = "irecv"
    BY <1>1, KindsOf
  <2>3. Passed(n[1])' <=> Passed(n[1])
    BY <1>1, <2>1, <2>2, PassedThen
  <2>4. Passed(n[2])' <=> Passed(n[2]) \/ n[2] = Now(r)
    BY <1>1, <2>1, PassedThen
  <2>5. n[2] = Now(r) <=> n = m
    BY <1>1, <1>2, OneMate
  <2> QED BY <2>3, <2>4, <2>5
<1>5. CASE \E x \in Arrived(Now(r)) :
             /\ \A z \in Arrived(Now(r)) : z[1] = x[1] => x[2] <= z[2]
             /\ matched' = matched \cup {<<x, Now(r)>>}
  <2>1. PICK x \in Arrived(Now(r)) :
             /\ \A z \in Arrived(Now(r)) : z[1] = x[1] => x[2] <= z[2]
             /\ matched' = matched \cup {<<x, Now(r)>>}
    BY <1>5
  <2>2. /\ Passed(x0) /\ x \in Operations(program) /\ x0 \in Operations(program)
        /\ x[1] = x0[1] /\ x0[2] <= x[2] /\ x[2] <= x0[2]
    BY <1>3, <2>1, KindsOf
  <2>3. x[2] \in Nat /\ x0[2] \in Nat
    BY <1>1, <2>2, IndexIsNat
  <2>4. x = x0
    BY <2>2, <2>3, OperationsAre
  <2>5. matched' = {n \in Mates(program) : Passed(n[1])' /\ Passed(n[2])'}
    BY <1>2, <1>4, <2>1, <2>2, <2>4 DEF MatesMet
  <2> QED BY <1>1, <2>5 DEF MatesMet
<1>6. CASE Arrived(Now(r)) = {} /\ matched' = matched
  <2>1. ~ Passed(x0)
    BY <1>3, <1>6
  <2>2. matched' = {n \in Mates(program) : Passed(n[1])' /\ Passed(n[2])'}
    BY <1>4, <1>6, <2>1 DEF MatesMet
  <2> QED BY <1>1, <2>2 DEF MatesMet
<1> QED BY <1>5, <1>6 DEF IrecvStep

-----------------------------------------------------------------------------
(***************************************************************************)
(* Every step keeps the invariant.                                         *)
(***************************************************************************)
LEMMA InitInv ==
  ASSUME \A c \in DOMAIN Program : Sound(Program[c]), Init
  PROVE  Inv
<1>1. Sound(program)
  BY DEF Init
<1>2. /\ at = [r \in Rank |-> 1] /\ matched = {} /\ buffered = {}
  BY DEF Init
<1>3. AtOK
  BY <1>1, <1>2 DEF AtOK, Sound, WellFormed, Rank
<1>4. \A x \in Operations(program) : ~ Passed(x)
  BY <1>2, OperationsAre DEF Passed, Rank
<1>5. MatesMet
  BY <1>2, <1>4, MatesAre, KindsOf DEF MatesMet
<1>6. SameBarriers
  BY <1>4, KindsOf DEF SameBarriers
<1>7. WaitsOver
  BY <1>2 DEF WaitsOver
<1>8. BufferedOK
  BY <1>2 DEF BufferedOK
<1> QED BY <1>1, <1>3, <1>5, <1>6, <1>7, <1>8 DEF Inv

LEMMA IsendInv ==
  ASSUME Inv, NEW r \in Rank, IsendStep(r)
  PROVE  Inv'
<1> USE DEF Inv
<1>1. /\ IsAt(r, {"isend"}) /\ Advance(r) /\ program' = program /\ Rank' = Rank
      /\ ~ Finished(r) /\ Op(Now(r)).op = "isend" /\ Now(r) \in Operations(program)
  BY AtIs, NowIs DEF IsendStep, IsAt, Rank
<1>2. Sound(program)' /\ AtOK'
  BY <1>1, PassedThen
<1>3. MatesMet'
  BY IsendMates
<1>4. SameBarriers'
  BY <1>1, BarriersStay
<1>5. matched \subseteq matched' /\ buffered \subseteq buffered'
  BY DEF IsendStep
<1>6. WaitsOver'
  <2>1. \A s \in Rank : \A x \in Pending(s)' : x \in Pending(s) \/ x = Now(r)
    BY <1>1, <1>5, PendingThen
  <2>2. \A x \in Pending(r) : ~ AwaitedBy(program, x, Now(r))
    BY <1>1 DEF AwaitedBy, Waits, Op
  <2> QED BY <1>1, <2>1, <2>2, WaitsStay
<1>7. BufferedOK'
  <2> SUFFICES ASSUME NEW x \in buffered'
               PROVE  ~ SendMatched(x)' /\ \E s \in Rank : x \in Called(s, {"isend"})'
    BY <1>1 DEF BufferedOK
  <2>1. \A m \in matched' : m \in Mates(program) /\ Passed(m[1])' /\ Passed(m[2])'
    BY <1>1, <1>3 DEF MatesMet
  <2>2. ~ Passed(Now(r))
    BY <1>1, NowIs
  <2>3. CASE x \in buffered
    <3>1. PICK s \in Rank : x \in Called(s, {"isend"}) /\ ~ SendMatched(x)
      BY <2>3 DEF BufferedOK
    <3>2. x # Now(r)
      BY <2>2, <3>1 DEF Called
    <3>3. ~ SendMatched(x)'
      BY <3>1, <3>2 DEF SendMatched, IsendStep
    <3>4. x \in Called(s, {"isend"})'
      BY <1>1, <3>1, CalledThen
    <3> QED BY <3>3, <3>4
  <2>4. CASE x \notin buffered
    <3>1. x = Now(r) /\ matched' = matched
      BY <2>4 DEF IsendStep
    <3>2. ~ SendMatched(x)'
      BY <2>2, <3>1 DEF SendMatched, MatesMet
    <3>3. x \in Called(r, {"isend"})'
      BY <1>1, <3>1, CalledThen
    <3> QED BY <3>2, <3>3
  <2> QED BY <2>3, <2>4
<1> QED BY <1>2, <1>3, <1>4, <1>6, <1>7

LEMMA IrecvInv ==
  ASSUME Inv, NEW r \in Rank, IrecvStep(r)
  PROVE  Inv'
<1> USE DEF Inv
<1>1. /\ IsAt(r, {"irecv"}) /\ Advance(r) /\ program' = program /\ Rank' = Rank
      /\ ~ Finished(r) /\ Op(Now(r)).op = "irecv" /\ Now(r) \in Operations(program)
  BY AtIs, NowIs DEF IrecvStep, IsAt, Rank
<1>2. Sound(program)' /\ AtOK'
  BY <1>1, PassedThen
<1>3. MatesMet'
  BY IrecvMates
<1>4. SameBarriers'
  BY <1>1, BarriersStay
<1>5. CASE \E x \in Arrived(Now(r)) :
             /\ matched' = matched \cup {<<x, Now(r)>>}
             /\ buffered' = buffered \ {x}
  <2>1. PICK x \in Arrived(Now(r)) :
          matched' = matched \cup {<<x, Now(r)>>} /\ buffered' = buffered \ {x}
    BY <1>5
  <2>2. matched \subseteq matched' /\ \A z \in buffered : z \in buffered' \/ SendMatched(z)'
    <3>1. <<x, Now(r)>> \in matched' /\ <<x, Now(r)>>[1] = x
      BY <2>1
    <3>2. SendMatched(x)'
      BY <3>1 DEF SendMatched
    <3> QED BY <2>1, <3>2
  <2>3. \A s \in Rank : \A z \in Pending(s)' : z \in Pending(s) \/ z = Now(r)
    BY <1>1, <2>2, PendingThen
  <2>4. \A z \in Pending(r) : ~ AwaitedBy(program, z, Now(r))
    BY <1>1 DEF AwaitedBy, Waits, Op
  <2>5. WaitsOver'
    BY <1>1, <2>3, <2>4, WaitsStay
  <2>6. ASSUME NEW z \in buffered'
        PROVE  ~ SendMatched(z)' /\ \E s \in Rank : z \in Called(s, {"isend"})'
    <3>1. z \in buffered /\ z # x
      BY <2>1, <2>6
    <3>2. PICK s \in Rank : z \in Called(s, {"isend"}) /\ ~ SendMatched(z)
      BY <3>1 DEF BufferedOK
    <3>3. ~ SendMatched(z)'
      BY <2>1, <3>1, <3>2 DEF SendMatched
    <3>4. z \in Called(s, {"isend"})'
      BY <1>1, <3>2, CalledThen
    <3> QED BY <3>3, <3>4
  <2>7. BufferedOK'
    BY <1>1, <2>6 DEF BufferedOK
  <2> QED BY <1>2, <1>3, <1>4, <2>5, <2>7
<1>6. CASE UNCHANGED <<matched, buffered>>
  <2>1. \A s \in Rank : \A z \in Pending(s)' : z \in Pending(s) \/ z = Now(r)
    BY <1>1, <1>6, PendingThen
  <2>2. \A z \in Pending(r) : ~ AwaitedBy(program, z, Now(r))
    BY <1>1 DEF AwaitedBy, Waits, Op
  <2>3. WaitsOver'
    BY <1>1, <2>1, <2>2, WaitsStay
  <2>4. BufferedOK'
    BY <1>1, <1>6, CalledThen DEF BufferedOK, SendMatched
  <2> QED BY <1>2, <1>3, <1>4, <2>3, <2>4
<1> QED BY <1>5, <1>6 DEF IrecvStep

LEMMA WaitInv ==
  ASSUME Inv, NEW r \in Rank, WaitStep(r)
  PROVE  Inv'
<1> USE DEF Inv
<1>1. /\ IsAt(r, Waits) /\ Advance(r) /\ program' = program /\ Rank' = Rank
      /\ UNCHANGED <<matched, buffered>>
      /\ ~ Finished(r) /\ Now(r) \in OfKinds(program, Waits)
  BY AtIs DEF WaitStep, CanWait, Rank
<1>2. Op(Now(r)).op \in Waits
  BY <1>1, KindsOf DEF Op
<1>3. Sound(program)' /\ AtOK'
  BY <1>1, PassedThen
<1>4. SameBarriers'
  BY <1>1, <1>2, BarriersStay DEF Waits
<1>5. MatesMet'
  <2>1. ASSUME NEW m \in Mates(program)
        PROVE  /\ Passed(m[1])' <=> Passed(m[1])
               /\ Passed(m[2])' <=> Passed(m[2])
    <3>1. /\ m[1] \in Operations(program) /\ m[2] \in Operations(program)
          /\ OpOf(program, m[1]).op = "isend" /\ OpOf(program, m[2]).op = "irecv"
      BY MatesAre, KindsOf
    <3>2. m[1] # Now(r) /\ m[2] # Now(r)
      BY <1>2, <3>1 DEF Op, Waits
    <3> QED BY <1>1, <3>1, <3>2, PassedThen
  <2>2. matched' = {m \in Mates(program) : Passed(m[1])' /\ Passed(m[2])'}
    BY <1>1, <2>1 DEF MatesMet
  <2> QED BY <1>1, <2>2 DEF MatesMet
<1>6. WaitsOver'
  <2>1. \A s \in Rank : \A z \in Pending(s)' : z \in Pending(s) \/ z = Now(r)
    BY <1>1, PendingThen
  <2>2. \A z \in Pending(r) : ~ AwaitedBy(program, z, Now(r))
    BY DEF WaitStep, CanWait, AwaitedBy, Op
  <2> QED BY <1>1, <2>1, <2>2, WaitsStay
<1>7. BufferedOK'
  BY <1>1, CalledThen DEF BufferedOK, SendMatched
<1> QED BY <1>3, <1>4, <1>5, <1>6, <1>7

(***************************************************************************)
(* A barrier is passed by all ranks at once.  That all are at the same one *)
(* is due to the times: of the ranks' barriers of an earlier time none is  *)
(* left.                                                                   *)
(***************************************************************************)
LEMMA BarrierInv ==
  ASSUME Inv, BarrierStep
  PROVE  Inv'
<1> USE DEF Inv
<1>1. /\ program' = program /\ Rank' = Rank /\ UNCHANGED <<matched, buffered>>
      /\ at' = [r \in Rank |-> at[r] + 1]
      /\ \A r \in Rank : IsAt(r, {"barrier"})
  BY DEF BarrierStep, AllAtBarrier, Rank
<1>2. \A r \in Rank : at[r] \in Nat \ {0} /\ Len(program[r]) \in Nat /\ ~ Finished(r)
  BY <1>1 DEF AtOK, Sound, WellFormed, Rank, IsAt
<1>3. \A r \in Rank : /\ Now(r) \in OfKinds(program, {"barrier"})
                      /\ Now(r) \in Operations(program)
                      /\ Now(r)[1] = r /\ Now(r)[2] = at[r]
                      /\ Op(Now(r)).op = "barrier"
  BY <1>1, <1>2, AtIs, NowIs DEF IsAt
<1>4. Sound(program)' /\ AtOK'
  BY <1>1, <1>2 DEF AtOK, Finished
<1>5. ASSUME NEW x \in Operations(program)
      PROVE  Passed(x)' <=> Passed(x) \/ x = Now(x[1])
  <2>1. x = <<x[1], x[2]>> /\ x[1] \in Rank /\ x[2] \in 1 .. Len(program[x[1]])
    BY OperationsAre DEF Rank
  <2>2. x[2] \in Nat /\ at[x[1]] \in Nat
    BY <1>2, <2>1
  <2>3. x = Now(x[1]) <=> x[2] = at[x[1]]
    BY <2>1 DEF Now
  <2> QED BY <1>1, <2>1, <2>2, <2>3 DEF Passed
<1>6. MatesMet'
  <2>1. ASSUME NEW m \in Mates(program)
        PROVE  /\ Passed(m[1])' <=> Passed(m[1])
               /\ Passed(m[2])' <=> Passed(m[2])
    <3>1. /\ m[1] \in Operations(program) /\ m[2] \in Operations(program)
          /\ OpOf(program, m[1]).op = "isend" /\ OpOf(program, m[2]).op = "irecv"
      BY MatesAre, KindsOf
    <3>2. m[1][1] \in Rank /\ m[2][1] \in Rank
      BY <3>1, OperationsAre DEF Rank
    <3>3. m[1] # Now(m[1][1]) /\ m[2] # Now(m[2][1])
      BY <1>3, <3>1, <3>2 DEF Op
    <3> QED BY <1>5, <3>1, <3>3
  <2>2. matched' = {m \in Mates(program) : Passed(m[1])' /\ Passed(m[2])'}
    BY <1>1, <2>1 DEF MatesMet
  <2> QED BY <1>1, <2>2 DEF MatesMet
<1>7. SameBarriers'
  <2>1. ASSUME NEW x \in OfKinds(program, {"barrier"}),
               NEW y \in OfKinds(program, {"barrier"}),
               Op(x).time = Op(y).time, Passed(x)', ~ Passed(y)'
        PROVE  FALSE
    <3>1. x \in Operations(program) /\ y \in Operations(program)
      BY KindsOf
    <3>2. ~ Passed(y) /\ ~ Passed(x) /\ x = Now(x[1]) /\ y # Now(y[1])
      BY <1>5, <2>1, <3>1 DEF SameBarriers
    <3>3. y[1] \in Rank /\ x[1] \in Rank
      BY <3>1, OperationsAre DEF Rank
    <3> DEFINE b == Now(y[1])
    <3>4. b \in OfKinds(program, {"barrier"}) /\ b[1] = y[1]
      BY <1>3, <3>3
    <3>5. Op(b).time <= Op(y).time
      BY <3>1, <3>2, NotPassed
    <3>6. Op(b).time # Op(y).time
      BY <3>2, <3>4 DEF Sound, Scheduled, Op
    <3>7. PICK z \in OfKinds(program, {"barrier"}) :
            z[1] = x[1] /\ Op(z).time = Op(b).time
      BY <3>3, <3>4 DEF Sound, Scheduled, Op, Rank
    <3>8. z \in Operations(program) /\ b \in Operations(program) /\ ~ Passed(b)
      BY <1>2, <3>3, <3>7, KindsOf, NowIs
    <3>9. ~ Passed(z)
      BY <3>4, <3>7, <3>8 DEF SameBarriers
    <3>10. Op(x).time <= Op(z).time
      BY <3>2, <3>7, <3>8, <3>9, NotPassed
    <3>11. Op(x).time \in Nat /\ Op(y).time \in Nat /\ Op(z).time \in Nat
      BY <3>1, <3>8, IndexIsNat DEF Sound, Op
    <3> QED BY <2>1, <3>5, <3>6, <3>7, <3>10, <3>11
  <2> QED BY <1>1, <2>1 DEF SameBarriers, Op
<1>8. ASSUME NEW s \in Rank, NEW kinds, NEW x
      PROVE  x \in Called(s, kinds)' <=>
               \/ x \in Called(s, kinds)
               \/ x = Now(s) /\ "barrier" \in kinds
  <2>1. x \in Called(s, kinds)' <=>
          x \in {s} \X (1 .. Len(program[s])) /\ Passed(x)' /\ Op(x).op \in kinds
    BY <1>1 DEF Called, Op
  <2>2. x \in Called(s, kinds) <=>
          x \in {s} \X (1 .. Len(program[s])) /\ Passed(x) /\ Op(x).op \in kinds
    BY DEF Called
  <2>3. x \in {s} \X (1 .. Len(program[s])) <=> x \in Operations(program) /\ x[1] = s
    BY OperationsAre DEF Rank
  <2> QED BY <1>3, <1>5, <2>1, <2>2, <2>3
<1>9. \A s \in Rank : \A x \in Pending(s)' : x \in Pending(s)
  BY <1>1, <1>8 DEF Pending, PendingSends, PendingRecvs, SendMatched, RecvMatched
<1>10. WaitsOver'
  <2> SUFFICES ASSUME NEW s \in Rank, NEW x \in Pending(s)', NEW k \in 1 .. at'[s] - 1,
                      AwaitedBy(program, x, <<s, k>>)
               PROVE  FALSE
    BY <1>1 DEF WaitsOver
  <2>1. k \in 1 .. at[s] - 1 \/ k = at[s]
    BY <1>1, <1>2
  <2>2. k = at[s]
    BY <1>9, <2>1 DEF WaitsOver
  <2> QED BY <1>3, <2>2 DEF Now, AwaitedBy, Waits, Op
<1>11. BufferedOK'
  BY <1>1, <1>8 DEF BufferedOK, SendMatched
<1> QED BY <1>4, <1>6, <1>7, <1>10, <1>11

LEMMA NextInv ==
  ASSUME Inv, [Next]_vars
  PROVE  Inv'
<1>1. CASE UNCHANGED vars
  BY <1>1 DEF Inv, vars, Sound, AtOK, BufferedOK, MatesMet, SameBarriers, WaitsOver,
     Rank, Op, OpOf, Passed, SendMatched, RecvMatched, Called, Pending, PendingSends,
     PendingRecvs
<1>2. CASE \E r \in Rank : IsendStep(r) \/ IrecvStep(r) \/ WaitStep(r)
  BY <1>2, IsendInv, IrecvInv, WaitInv
<1>3. CASE BarrierStep
  BY <1>3, BarrierInv
<1> QED BY <1>1, <1>2, <1>3 DEF Next, Terminated

-----------------------------------------------------------------------------
(***************************************************************************)
(* What follows from the invariant.                                        *)
(***************************************************************************)
LEMMA InvTypeOK ==
  ASSUME Inv
  PROVE  TypeOK
<1> USE DEF Inv
<1>1. PeersOK
  <2>1. ASSUME NEW r \in Rank, IsAt(r, {"isend"})
        PROVE  Op(Now(r)).peer \in Rank
    <3>1. Now(r) \in OfKinds(program, {"isend"})
      BY <2>1, AtIs
    <3>2. PICK y \in OfKinds(program, {"irecv"}) : <<Now(r), y>> \in Mates(program)
      BY <3>1 DEF Sound, Orderly
    <3>3. y \in Operations(program) /\ Fits(program, Now(r), y)
      BY <3>2, MatesAre, KindsOf
    <3> QED BY <3>3, OperationsAre DEF Fits, Rank, Op
  <2>2. ASSUME NEW r \in Rank, IsAt(r, {"irecv"})
        PROVE  Op(Now(r)).peer \in Rank \cup {ANY}
    <3>1. Now(r) \in OfKinds(program, {"irecv"})
      BY <2>2, AtIs
    <3>2. PICK x \in OfKinds(program, {"isend"}) : <<x, Now(r)>> \in Mates(program)
      BY <3>1 DEF Sound, Orderly
    <3>3. x \in Operations(program) /\ Fits(program, x, Now(r))
      BY <3>2, MatesAre, KindsOf
    <3> QED BY <3>3, OperationsAre DEF Fits, Rank, Op
  <2> QED BY <2>1, <2>2 DEF PeersOK
<1>2. MatchedOK
  <2> SUFFICES ASSUME NEW m \in matched
               PROVE  /\ \E s \in Rank : m[1] \in Called(s, {"isend"})
                      /\ \E d \in Rank : m[2] \in Called(d, {"irecv"})
    BY DEF MatchedOK
  <2>1. m \in Mates(program) /\ Passed(m[1]) /\ Passed(m[2])
    BY DEF MatesMet
  <2>2. /\ m[1] \in OfKinds(program, {"isend"}) /\ m[1] \in Operations(program)
        /\ m[2] \in OfKinds(program, {"irecv"}) /\ m[2] \in Operations(program)
    BY <2>1, MatesAre, KindsOf
  <2>3. m[1][1] \in Rank /\ m[2][1] \in Rank
    BY <2>2, OperationsAre DEF Rank
  <2> QED BY <2>1, <2>2, <2>3, CalledAre
<1> QED BY <1>1, <1>2 DEF TypeOK

(***************************************************************************)
(* Mates mean the same, so that a message is the right one.                *)
(***************************************************************************)
LEMMA InvRightMessage ==
  ASSUME Inv
  PROVE  RightMessage
BY DEF Inv, RightMessage, MatesMet, Sound, Orderly, Op

(***************************************************************************)
(* The invariant that the run checks.                                      *)
(***************************************************************************)
LEMMA InvIInv ==
  ASSUME Inv
  PROVE  IInv
BY DEF Inv, IInv

(***************************************************************************)
(* What is pending has its wait, of the same iteration, still to come.     *)
(***************************************************************************)
LEMMA InvRequestsComplete ==
  ASSUME Inv
  PROVE  RequestsComplete
<1> USE DEF Inv
<1> SUFFICES ASSUME NEW r \in Rank, NEW x \in Pending(r)
             PROVE  ~ Finished(r) /\ Op(x).iter = Op(Now(r)).iter
  BY DEF RequestsComplete
<1>1. x \in Called(r, {"isend"}) \/ x \in Called(r, {"irecv"})
  BY DEF Pending, PendingSends, PendingRecvs
<1>2. /\ x \in OfKinds(program, {"isend", "irecv"}) /\ x \in Operations(program)
      /\ x[1] = r /\ Passed(x)
  BY <1>1, CalledAre, KindsOf
<1>3. PICK w \in Operations(program) :
        /\ AwaitedBy(program, x, w)
        /\ \A k \in x[2] .. w[2] : program[x[1]][k].iter = OpOf(program, x).iter
  BY <1>2 DEF Sound, WaitedFor
<1>4. /\ w[1] = r /\ w = <<r, w[2]>> /\ w[2] \in 1 .. Len(program[r])
      /\ at[r] \in Nat \ {0} /\ Len(program[r]) \in Nat
      /\ x[2] \in Nat /\ x[2] < at[r]
  BY <1>2, <1>3, OperationsAre, IndexIsNat
     DEF AwaitedBy, AtOK, Sound, WellFormed, Rank, Passed
<1>5. ~ w[2] \in 1 .. at[r] - 1
  BY <1>3, <1>4 DEF WaitsOver
<1>6. at[r] <= w[2]
  BY <1>4, <1>5
<1>7. at[r] \in x[2] .. w[2] /\ ~ Finished(r)
  BY <1>4, <1>6 DEF Finished
<1> QED BY <1>2, <1>3, <1>7 DEF Op, OpOf, Now

(***************************************************************************)
(* A rank that has finished has passed the mates of what is sent to it.    *)
(***************************************************************************)
LEMMA InvNothingLeft ==
  ASSUME Inv
  PROVE  NothingLeft
<1> USE DEF Inv
<1> SUFFICES ASSUME NEW r \in Rank, Finished(r)
             PROVE  /\ PendingRecvs(r) = {}
                    /\ \A s \in Rank : \A x \in Called(s, {"isend"}) :
                         Op(x).peer = r => SendMatched(x)
  BY DEF NothingLeft
<1>1. PendingRecvs(r) = {}
  BY InvRequestsComplete DEF RequestsComplete, Pending
<1>2. ASSUME NEW s \in Rank, NEW x \in Called(s, {"isend"}), Op(x).peer = r
      PROVE  SendMatched(x)
  <2>1. x \in OfKinds(program, {"isend"}) /\ Passed(x)
    BY CalledAre
  <2>2. PICK y \in OfKinds(program, {"irecv"}) : <<x, y>> \in Mates(program)
    BY <2>1 DEF Sound, Orderly
  <2>3. y \in Operations(program) /\ y[1] = r
    BY <1>2, <2>2, MatesAre, KindsOf DEF Fits, Op
  <2>4. Passed(y)
    BY <2>3, NotPassed
  <2> QED BY <2>1, <2>2, <2>4, MatchedIff
<1> QED BY <1>1, <1>2

-----------------------------------------------------------------------------
(***************************************************************************)
(* A rank that is at a wait at the earliest time any rank is at can go on: *)
(* the partners have called what it waits for.                             *)
(***************************************************************************)
Earliest(r) ==
  /\ r \in Rank /\ ~ Finished(r)
  /\ \A s \in Rank : ~ Finished(s) => Op(Now(r)).time <= Op(Now(s)).time

LEMMA EarliestCanWait ==
  ASSUME Inv, NEW r \in Rank, Earliest(r), IsAt(r, Waits)
  PROVE  CanWait(r)
<1> USE DEF Inv
<1> SUFFICES ASSUME NEW x \in Pending(r), Op(x).op \in Awaited(Op(Now(r)).op)
             PROVE  FALSE
  BY DEF CanWait
<1>1. /\ Now(r) \in Operations(program) /\ Now(r)[1] = r /\ Now(r)[2] = at[r]
      /\ Op(Now(r)).op \in Waits
  BY NowIs DEF IsAt
<1>2. \/ x \in Called(r, {"isend"}) /\ ~ SendMatched(x)
      \/ x \in Called(r, {"irecv"}) /\ ~ RecvMatched(x)
  BY DEF Pending, PendingSends, PendingRecvs
<1>3. x[1] = r /\ Passed(x)
  BY <1>2, CalledAre
<1>4. AwaitedBy(program, x, Now(r))
  BY <1>1, <1>3 DEF AwaitedBy, Op, Passed
<1>5. ASSUME NEW y \in Operations(program), ~ Passed(y),
             OpOf(program, y).time < OpOf(program, Now(r)).time
      PROVE  FALSE
  <2>1. /\ y[1] \in Rank /\ ~ Finished(y[1]) /\ Now(y[1]) \in Operations(program)
        /\ Op(Now(y[1])).time <= Op(y).time
    BY <1>5, NotPassed
  <2>2. Op(Now(r)).time <= Op(Now(y[1])).time
    BY <2>1 DEF Earliest
  <2>3. Op(Now(r)).time \in Nat /\ Op(Now(y[1])).time \in Nat /\ Op(y).time \in Nat
    BY <1>1, <2>1, IndexIsNat DEF Sound, Op
  <2> QED BY <1>5, <2>1, <2>2, <2>3 DEF Op
<1>6. CASE x \in Called(r, {"isend"}) /\ ~ SendMatched(x)
  <2>1. PICK y \in OfKinds(program, {"irecv"}) : <<x, y>> \in Mates(program)
    BY <1>6, CalledAre DEF Sound, Orderly
  <2>2. y \in Operations(program) /\ ~ Passed(y)
    BY <1>3, <1>6, <2>1, MatchedIff, KindsOf
  <2>3. OpOf(program, y).time < OpOf(program, Now(r)).time
    BY <1>1, <1>4, <2>1 DEF Sound, Scheduled
  <2> QED BY <1>5, <2>2, <2>3
<1>7. CASE x \in Called(r, {"irecv"}) /\ ~ RecvMatched(x)
  <2>1. PICK z \in OfKinds(program, {"isend"}) : <<z, x>> \in Mates(program)
    BY <1>7, CalledAre DEF Sound, Orderly
  <2>2. z \in Operations(program) /\ ~ Passed(z)
    BY <1>3, <1>7, <2>1, MatchedIff, KindsOf
  <2>3. OpOf(program, z).time < OpOf(program, Now(r)).time
    BY <1>1, <1>4, <2>1 DEF Sound, Scheduled
  <2> QED BY <1>5, <2>2, <2>3
<1> QED BY <1>2, <1>6, <1>7

(***************************************************************************)
(* There is an earliest rank as long as not all have finished.             *)
(***************************************************************************)
LEMMA SomeEarliest ==
  ASSUME Inv, ~ Done
  PROVE  \E r \in Rank : Earliest(r)
<1> DEFINE T == {Op(Now(r)).time : r \in {s \in Rank : ~ Finished(s)}}
           R == OpToRel(<, Nat)
<1>1. T \subseteq Nat
  BY NowIs, IndexIsNat DEF Inv, Sound, Op
<1>2. T # {}
  BY DEF Done
<1>3. \E x \in T : \A y \in T : ~ (<<y, x>> \in R)
  <2>1. IsWellFoundedOn(R, Nat)
    BY NatLessThanWellFounded
  <2> HIDE DEF T, R
  <2> QED BY <1>1, <1>2, <2>1, WFMin, Zenon
<1>4. PICK x \in T : \A y \in T : ~ (<<y, x>> \in R)
  BY <1>3
<1>5. \A y \in T : x <= y
  <2> SUFFICES ASSUME NEW y \in T, y < x PROVE FALSE
    BY <1>1
  <2>1. <<y, x>> \in Nat \X Nat /\ <<y, x>>[1] < <<y, x>>[2]
    BY <1>1
  <2>2. <<y, x>> \in R
    BY <2>1 DEF OpToRel
  <2> QED BY <1>4, <2>2
<1>6. PICK r \in Rank : ~ Finished(r) /\ x = Op(Now(r)).time
  OBVIOUS
<1>7. \A s \in Rank : ~ Finished(s) => Op(Now(s)).time \in T
  OBVIOUS
<1> QED BY <1>5, <1>6, <1>7 DEF Earliest

(***************************************************************************)
(* Of the earliest ranks one can go on.  If it is at a barrier the others  *)
(* that have not come to it are no earlier, and so at a wait.              *)
(***************************************************************************)
LEMMA InvNeverStuck ==
  ASSUME Inv
  PROVE  NeverStuck
<1> USE DEF Inv
<1> SUFFICES ASSUME ~ Done, ~ AllAtBarrier,
                    \A r \in Rank : ~ IsAt(r, {"isend", "irecv"}) /\ ~ CanWait(r)
             PROVE  FALSE
  BY DEF NeverStuck
<1>1. PICK r \in Rank : Earliest(r)
  BY SomeEarliest
<1>2. \A s \in Rank : Earliest(s) => IsAt(s, {"barrier"})
  <2> SUFFICES ASSUME NEW s \in Rank, Earliest(s) PROVE IsAt(s, {"barrier"})
    OBVIOUS
  <2>1. ~ Finished(s) /\ Now(s) \in Operations(program)
    BY NowIs DEF Earliest
  <2>2. Op(Now(s)).op \in Kinds
    BY <2>1, IndexIsNat DEF Sound, Op
  <2>3. ~ IsAt(s, Waits)
    BY EarliestCanWait
  <2> QED BY <2>1, <2>2, <2>3 DEF IsAt, Kinds
<1>3. PICK s \in Rank : ~ IsAt(s, {"barrier"})
  BY DEF AllAtBarrier
<1>4. /\ Now(r) \in OfKinds(program, {"barrier"}) /\ Now(r) \in Operations(program)
      /\ ~ Passed(Now(r))
  BY <1>1, <1>2, AtIs, NowIs
<1>5. PICK y \in OfKinds(program, {"barrier"}) :
        y[1] = s /\ OpOf(program, y).time = OpOf(program, Now(r)).time
  BY <1>4 DEF Sound, Scheduled, Rank
<1>6. y \in Operations(program) /\ ~ Passed(y)
  BY <1>4, <1>5, KindsOf DEF SameBarriers, Op
<1>7. /\ ~ Finished(s) /\ Now(s) \in Operations(program)
      /\ Op(Now(s)).time <= Op(Now(r)).time
  BY <1>5, <1>6, NotPassed DEF Op
<1>8. Earliest(s)
  <2>1. \A q \in Rank : ~ Finished(q) =>
          Op(Now(q)).time \in Nat /\ Op(Now(r)).time <= Op(Now(q)).time
    BY <1>1, NowIs, IndexIsNat DEF Earliest, Sound, Op
  <2>2. Op(Now(s)).time \in Nat /\ Op(Now(r)).time \in Nat
    BY <1>4, <1>7, IndexIsNat DEF Sound, Op
  <2> QED BY <1>7, <2>1, <2>2 DEF Earliest
<1> QED BY <1>2, <1>3, <1>8

-----------------------------------------------------------------------------
(***************************************************************************)
(* What messages mean, apart from the iteration they are of.               *)
(***************************************************************************)
Labels == {"data", "left", "right", "ack", "report", "none"} \cup ({"up", "down"} \X Nat)

(***************************************************************************)
(* The operations the kernels are made of.                                 *)
(***************************************************************************)
OpSet == [op : Kinds, peer : Int, tag : Int, what : (Labels \X Nat) \cup {"none"}, iter : Nat, time : Nat]

(***************************************************************************)
(* The channel of a send: its rank, its destination and its tag.           *)
(***************************************************************************)
Channel(p, x) == <<x[1], OpOf(p, x).peer, OpOf(p, x).tag>>

(***************************************************************************)
(* The receive y takes messages of the channel v.                          *)
(***************************************************************************)
Takes(p, y, v) ==
  y[1] = v[2] /\ OpOf(p, y).peer \in {v[1], ANY} /\ OpOf(p, y).tag \in {v[3], ANY}

(***************************************************************************)
(* M pairs the sends of p with its receives: each has a partner, a receive *)
(* takes messages of the channel of its partner and of no other channel of *)
(* V, the pairs of a channel are in order, partners mean the same and are  *)
(* of the same iteration, and what is waited for is called earlier.        *)
(***************************************************************************)
Pairs(p, V, M) ==
  /\ M \subseteq OfKinds(p, {"isend"}) \X OfKinds(p, {"irecv"})
  /\ \A x \in OfKinds(p, {"isend"}) : \E y : <<x, y>> \in M
  /\ \A y \in OfKinds(p, {"irecv"}) : \E x : <<x, y>> \in M
  /\ \A m \in M : /\ Channel(p, m[1]) \in V
                  /\ \A v \in V : Takes(p, m[2], v) <=> v = Channel(p, m[1])
  /\ \A m, n \in M : Channel(p, m[1]) = Channel(p, n[1]) =>
                       (m[1][2] < n[1][2] <=> m[2][2] < n[2][2])
  /\ \A m \in M : /\ OpOf(p, m[1]).what = OpOf(p, m[2]).what
                  /\ OpOf(p, m[1]).iter = OpOf(p, m[2]).iter
  /\ \A m \in M : \A w \in Operations(p) :
       /\ AwaitedBy(p, m[1], w) => OpOf(p, m[2]).time < OpOf(p, w).time
       /\ AwaitedBy(p, m[2], w) => OpOf(p, m[1]).time < OpOf(p, w).time

(***************************************************************************)
(* The times do not decrease along a rank.                                 *)
(***************************************************************************)
Sorted(p) ==
  \A x, y \in Operations(p) :
    x[1] = y[1] /\ x[2] <= y[2] => OpOf(p, x).time <= OpOf(p, y).time

(***************************************************************************)
(* All ranks have the same barriers, one at a time.                        *)
(***************************************************************************)
Together(p) ==
  /\ \A x \in OfKinds(p, {"barrier"}) : \A r \in DOMAIN p :
       \E y \in OfKinds(p, {"barrier"}) : y[1] = r /\ OpOf(p, y).time = OpOf(p, x).time
  /\ \A x, y \in OfKinds(p, {"barrier"}) :
       x[1] = y[1] /\ OpOf(p, x).time = OpOf(p, y).time => x = y

(***************************************************************************)
(* All operations are at times from a up to b.                             *)
(***************************************************************************)
Within(p, a, b) == \A x \in Operations(p) : a <= OpOf(p, x).time /\ OpOf(p, x).time < b

(***************************************************************************)
(* An iteration has the times of its own phases only.                      *)
(***************************************************************************)
InTime(p) ==
  \A x \in Operations(p) :
    16 * OpOf(p, x).iter <= OpOf(p, x).time /\ OpOf(p, x).time < 16 * OpOf(p, x).iter + 16

(***************************************************************************)
(* Sends go along the edges D, or come after a barrier of their iteration. *)
(* Nothing is said where there are no edges.                               *)
(***************************************************************************)
Along(p, D) ==
  D # {} =>
    \A x \in OfKinds(p, {"isend"}) :
      \/ <<x[1], OpOf(p, x).peer>> \in D
      \/ \E y \in OfKinds(p, {"barrier"}) :
           y[1] = x[1] /\ y[2] < x[2] /\ OpOf(p, y).iter = OpOf(p, x).iter

(***************************************************************************)
(* In iteration j waiting goes round: of ranks that an edge leaves, some   *)
(* rank receives from a rank outside.                                      *)
(***************************************************************************)
Hears(p, M, D, j) ==
  \A e \in D : \A S \in SUBSET DOMAIN p :
    e[1] \in S /\ e[2] \notin S =>
      \E m \in M : m[2][1] \in S /\ m[1][1] \notin S /\ OpOf(p, m[2]).iter = j

(***************************************************************************)
(* Iteration j has a barrier.                                              *)
(***************************************************************************)
Meets(p, j) == \E x \in OfKinds(p, {"barrier"}) : OpOf(p, x).iter = j

(***************************************************************************)
(* Each iteration from time a up to b has a barrier, or waiting goes round *)
(* in it.                                                                  *)
(***************************************************************************)
Listens(p, M, D, a, b) ==
  \A j \in Nat : a <= 16 * j /\ 16 * j < b => Meets(p, j) \/ Hears(p, M, D, j)

(***************************************************************************)
(* A piece of the program of ranks R, from time a up to b, with messages   *)
(* of the channels V along the edges D. Programs are put together from     *)
(* pieces; a whole one is sound (PieceSound).                              *)
(***************************************************************************)
Piece(R, V, D, p, a, b) ==
  /\ p \in [R -> Seq(OpSet)]
  /\ Within(p, a, b)
  /\ Sorted(p)
  /\ Together(p)
  /\ WaitedFor(p)
  /\ InTime(p)
  /\ Along(p, D)
  /\ \E M : Pairs(p, V, M) /\ Listens(p, M, D, a, b)

(***************************************************************************)
(* The operations of one program followed by another one.                  *)
(***************************************************************************)
LEMMA OpsThen ==
  ASSUME NEW R, NEW p \in [R -> Seq(OpSet)], NEW q \in [R -> Seq(OpSet)]
  PROVE  /\ Then(p, q) \in [R -> Seq(OpSet)]
         /\ \A x \in Operations(p) : x \in Operations(Then(p, q)) /\ OpOf(Then(p, q), x) = OpOf(p, x)
         /\ \A x \in Operations(q) : /\ Later(p, x) \in Operations(Then(p, q))
                                     /\ OpOf(Then(p, q), Later(p, x)) = OpOf(q, x)
         /\ \A x \in Operations(Then(p, q)) :
              x \in Operations(p) \/ \E y \in Operations(q) : x = Later(p, y)
<1> DEFINE pq == Then(p, q)
<1>1. pq = [r \in R |-> p[r] \o q[r]]
  BY DEF Then
<1>2. ASSUME NEW r \in R
      PROVE  /\ pq[r] \in Seq(OpSet) /\ Len(p[r]) \in Nat /\ Len(q[r]) \in Nat
             /\ Len(pq[r]) = Len(p[r]) + Len(q[r])
             /\ \A k \in 1 .. Len(p[r]) : pq[r][k] = p[r][k]
             /\ \A k \in 1 .. Len(q[r]) : pq[r][Len(p[r]) + k] = q[r][k]
  <2>1. p[r] \in Seq(OpSet) /\ q[r] \in Seq(OpSet) /\ pq[r] = p[r] \o q[r]
    BY <1>1
  <2> QED BY <2>1
<1>3. pq \in [R -> Seq(OpSet)]
  BY <1>1, <1>2
<1>4. DOMAIN pq = R /\ DOMAIN p = R /\ DOMAIN q = R
  BY <1>3
<1> HIDE DEF pq
<1>5. ASSUME NEW x \in Operations(p)
      PROVE  x \in Operations(pq) /\ OpOf(pq, x) = OpOf(p, x)
  <2>1. x = <<x[1], x[2]>> /\ x[1] \in R /\ x[2] \in 1 .. Len(p[x[1]])
    BY <1>4, OperationsAre
  <2>2. x[2] \in 1 .. Len(pq[x[1]])
    BY <1>2, <2>1
  <2> QED BY <1>2, <1>4, <2>1, <2>2, OperationsAre DEF OpOf
<1>6. ASSUME NEW x \in Operations(q)
      PROVE  Later(p, x) \in Operations(pq) /\ OpOf(pq, Later(p, x)) = OpOf(q, x)
  <2>1. x = <<x[1], x[2]>> /\ x[1] \in R /\ x[2] \in 1 .. Len(q[x[1]])
    BY <1>4, OperationsAre
  <2>2. Len(p[x[1]]) + x[2] \in 1 .. Len(pq[x[1]])
    BY <1>2, <2>1
  <2>3. /\ Later(p, x) = <<x[1], Len(p[x[1]]) + x[2]>>
        /\ Later(p, x)[1] = x[1] /\ Later(p, x)[2] = Len(p[x[1]]) + x[2]
    BY DEF Later
  <2>4. Later(p, x) \in Operations(pq)
    BY <1>4, <2>1, <2>2, <2>3, OperationsAre
  <2> QED BY <1>2, <2>1, <2>3, <2>4 DEF OpOf
<1>7. ASSUME NEW x \in Operations(pq)
      PROVE  x \in Operations(p) \/ \E y \in Operations(q) : x = Later(p, y)
  <2>1. x = <<x[1], x[2]>> /\ x[1] \in R /\ x[2] \in 1 .. Len(pq[x[1]])
    BY <1>4, OperationsAre
  <2>2. CASE x[2] <= Len(p[x[1]])
    <3>1. x[2] \in 1 .. Len(p[x[1]])
      BY <1>2, <2>1, <2>2
    <3> QED BY <1>4, <2>1, <3>1, OperationsAre
  <2>3. CASE ~ x[2] <= Len(p[x[1]])
    <3> DEFINE y == <<x[1], x[2] - Len(p[x[1]])>>
    <3>1. y[1] = x[1] /\ y[2] \in 1 .. Len(q[x[1]]) /\ Len(p[x[1]]) + y[2] = x[2]
      BY <1>2, <2>1, <2>3
    <3>2. y \in Operations(q)
      BY <1>4, <2>1, <3>1, OperationsAre
    <3>3. x = Later(p, y)
      BY <2>1, <3>1 DEF Later
    <3> QED BY <3>2, <3>3
  <2> QED BY <2>2, <2>3
<1> QED BY <1>3, <1>5, <1>6, <1>7 DEF pq

(***************************************************************************)
(* Where an operation is in a program, and where in one that comes after   *)
(* another one.                                                            *)
(***************************************************************************)
LEMMA LaterOps ==
  ASSUME NEW R, NEW p \in [R -> Seq(OpSet)], NEW q \in [R -> Seq(OpSet)]
  PROVE  /\ DOMAIN p = R /\ DOMAIN q = R
         /\ \A x \in Operations(p) : x[1] \in R /\ x[2] \in Nat \ {0} /\ x[2] <= Len(p[x[1]])
         /\ \A x \in Operations(p) : OpOf(p, x) \in OpSet
         /\ \A x \in Operations(q) :
              /\ Later(p, x)[1] = x[1] /\ Later(p, x)[2] = Len(p[x[1]]) + x[2]
              /\ x[2] \in Nat \ {0} /\ x[1] \in R /\ Len(p[x[1]]) \in Nat
<1>1. DOMAIN p = R /\ DOMAIN q = R
  OBVIOUS
<1>2. \A r \in R : Len(p[r]) \in Nat /\ Len(q[r]) \in Nat
  OBVIOUS
<1>3. ASSUME NEW x \in Operations(p)
      PROVE  /\ x[1] \in R /\ x[2] \in Nat \ {0} /\ x[2] <= Len(p[x[1]])
             /\ OpOf(p, x) \in OpSet
  <2>1. x[1] \in R /\ x[2] \in 1 .. Len(p[x[1]])
    BY <1>1, OperationsAre
  <2>2. p[x[1]] \in Seq(OpSet)
    BY <2>1
  <2> QED BY <1>2, <2>1, <2>2 DEF OpOf
<1>4. ASSUME NEW x \in Operations(q)
      PROVE  /\ Later(p, x)[1] = x[1] /\ Later(p, x)[2] = Len(p[x[1]]) + x[2]
             /\ x[2] \in Nat \ {0} /\ x[1] \in R /\ Len(p[x[1]]) \in Nat
  <2>1. x[1] \in R /\ x[2] \in 1 .. Len(q[x[1]])
    BY <1>1, OperationsAre
  <2> QED BY <1>2, <2>1 DEF Later
<1> QED BY <1>1, <1>3, <1>4

(***************************************************************************)
(* Arithmetic of indices: shifted by the same, they are in the same order. *)
(***************************************************************************)
LEMMA SameShift ==
  ASSUME NEW n \in Nat, NEW i \in Nat, NEW j \in Nat
  PROVE  n + i < n + j <=> i < j
OBVIOUS

(***************************************************************************)
(* What is in the first program is before what is in the second one.       *)
(***************************************************************************)
LEMMA FirstIsLess ==
  ASSUME NEW n \in Nat, NEW i \in Nat, NEW j \in Nat \ {0}, i <= n
  PROVE  i < n + j /\ ~ n + j < i
OBVIOUS

(***************************************************************************)
(* The indices between two of the second program are of the second         *)
(* program.                                                                *)
(***************************************************************************)
LEMMA ShiftBack ==
  ASSUME NEW n \in Nat, NEW i \in Nat \ {0}, NEW j \in Nat, NEW m \in Nat, j <= m,
         NEW k \in n + i .. n + j
  PROVE  k - n \in i .. j /\ k - n \in 1 .. m /\ k = n + (k - n)
OBVIOUS

(***************************************************************************)
(* A piece followed by a piece is a piece.                                 *)
(***************************************************************************)
LEMMA PieceThen ==
  ASSUME NEW R, NEW V, NEW D, NEW p, NEW q, NEW a \in Nat, NEW b \in Nat, NEW c \in Nat, a <= b,
         b <= c,
         Piece(R, V, D, p, a, b), Piece(R, V, D, q, b, c)
  PROVE  Piece(R, V, D, Then(p, q), a, c)
<1> DEFINE pq == Then(p, q)
<1>1. p \in [R -> Seq(OpSet)] /\ q \in [R -> Seq(OpSet)]
  BY DEF Piece
<1>2. /\ pq \in [R -> Seq(OpSet)]
      /\ \A x \in Operations(p) : x \in Operations(pq) /\ OpOf(pq, x) = OpOf(p, x)
      /\ \A x \in Operations(q) : /\ Later(p, x) \in Operations(pq)
                                  /\ OpOf(pq, Later(p, x)) = OpOf(q, x)
      /\ \A x \in Operations(pq) :
           x \in Operations(p) \/ \E y \in Operations(q) : x = Later(p, y)
  BY <1>1, OpsThen
<1>3. /\ DOMAIN p = R /\ DOMAIN q = R /\ DOMAIN pq = R
      /\ \A x \in Operations(p) : x[1] \in R /\ x[2] \in Nat \ {0} /\ x[2] <= Len(p[x[1]])
      /\ \A x \in Operations(q) :
           /\ Later(p, x)[1] = x[1] /\ Later(p, x)[2] = Len(p[x[1]]) + x[2]
           /\ x[2] \in Nat \ {0} /\ x[1] \in R /\ Len(p[x[1]]) \in Nat
  BY <1>1, <1>2, LaterOps
<1>4. /\ \A x \in Operations(p) : OpOf(p, x).time \in Nat
      /\ \A x \in Operations(q) : OpOf(q, x).time \in Nat
  <2>1. /\ \A x \in Operations(p) : OpOf(p, x) \in OpSet
        /\ \A x \in Operations(q) : OpOf(q, x) \in OpSet
    BY <1>1, LaterOps
  <2> QED BY <2>1 DEF OpSet
<1>5. /\ \A x \in Operations(p) : a <= OpOf(p, x).time /\ OpOf(p, x).time < b
      /\ \A x \in Operations(q) : b <= OpOf(q, x).time /\ OpOf(q, x).time < c
  BY DEF Piece, Within
<1> HIDE DEF pq
<1>6. Within(pq, a, c)
  <2> SUFFICES ASSUME NEW x \in Operations(pq)
               PROVE  a <= OpOf(pq, x).time /\ OpOf(pq, x).time < c
    BY DEF Within
  <2>1. CASE x \in Operations(p)
    BY <1>2, <1>4, <1>5, <2>1
  <2>2. CASE \E y \in Operations(q) : x = Later(p, y)
    BY <1>2, <1>4, <1>5, <2>2
  <2> QED BY <1>2, <2>1, <2>2
<1>7. Sorted(pq)
  <2> SUFFICES ASSUME NEW x \in Operations(pq), NEW y \in Operations(pq), x[1] = y[1], x[2] <= y[2]
               PROVE  OpOf(pq, x).time <= OpOf(pq, y).time
    BY DEF Sorted
  <2>1. CASE x \in Operations(p) /\ y \in Operations(p)
    BY <1>2, <2>1 DEF Piece, Sorted
  <2>2. ASSUME x \in Operations(p), NEW v \in Operations(q), y = Later(p, v)
        PROVE  OpOf(pq, x).time <= OpOf(pq, y).time
    BY <1>2, <1>4, <1>5, <2>2
  <2>3. ASSUME y \in Operations(p), NEW u \in Operations(q), x = Later(p, u)
        PROVE  FALSE
    BY <1>3, <2>3
  <2>4. ASSUME NEW u \in Operations(q), x = Later(p, u), NEW v \in Operations(q), y = Later(p, v)
        PROVE  OpOf(pq, x).time <= OpOf(pq, y).time
    <3>1. u[1] = v[1] /\ u[2] <= v[2]
      <4>1. /\ x[1] = u[1] /\ y[1] = v[1] /\ x[2] = Len(p[u[1]]) + u[2]
            /\ y[2] = Len(p[v[1]]) + v[2] /\ u[2] \in Nat /\ v[2] \in Nat /\ Len(p[u[1]]) \in Nat
        BY <1>3, <2>4
      <4>2. u[1] = v[1]
        BY <4>1
      <4>3. Len(p[u[1]]) + u[2] <= Len(p[u[1]]) + v[2]
        BY <4>1, <4>2
      <4> QED BY <4>1, <4>2, <4>3
    <3>2. OpOf(q, u).time <= OpOf(q, v).time
      BY <3>1 DEF Piece, Sorted
    <3> QED BY <1>2, <2>4, <3>2
  <2> QED BY <1>2, <2>1, <2>2, <2>3, <2>4
<1>8. /\ \A kinds : \A x \in OfKinds(p, kinds) : x \in OfKinds(pq, kinds) /\ x \in Operations(p)
      /\ \A kinds : \A x \in OfKinds(q, kinds) : Later(p, x) \in OfKinds(pq, kinds) /\ x \in Operations(q)
      /\ \A kinds : \A x \in OfKinds(pq, kinds) :
           x \in OfKinds(p, kinds) \/ \E y \in OfKinds(q, kinds) : x = Later(p, y)
  <2>1. ASSUME NEW kinds, NEW x \in OfKinds(p, kinds)
        PROVE  x \in OfKinds(pq, kinds) /\ x \in Operations(p)
    BY <1>2 DEF OfKinds
  <2>2. ASSUME NEW kinds, NEW x \in OfKinds(q, kinds)
        PROVE  Later(p, x) \in OfKinds(pq, kinds) /\ x \in Operations(q)
    BY <1>2 DEF OfKinds
  <2>3. ASSUME NEW kinds, NEW x \in OfKinds(pq, kinds)
        PROVE  x \in OfKinds(p, kinds) \/ \E y \in OfKinds(q, kinds) : x = Later(p, y)
    <3>1. x \in Operations(pq) /\ OpOf(pq, x).op \in kinds
      BY DEF OfKinds
    <3>2. CASE x \in Operations(p)
      BY <1>2, <3>1, <3>2 DEF OfKinds
    <3>3. ASSUME NEW y \in Operations(q), x = Later(p, y)
          PROVE  \E z \in OfKinds(q, kinds) : x = Later(p, z)
      BY <1>2, <3>1, <3>3 DEF OfKinds
    <3> QED BY <1>2, <3>1, <3>2, <3>3
  <2> QED BY <2>1, <2>2, <2>3
<1>9. Together(pq)
  <2>1. ASSUME NEW x \in OfKinds(pq, {"barrier"}), NEW r \in R
        PROVE  \E y \in OfKinds(pq, {"barrier"}) : y[1] = r /\ OpOf(pq, y).time = OpOf(pq, x).time
    <3>1. CASE x \in OfKinds(p, {"barrier"})
      <4>1. PICK y \in OfKinds(p, {"barrier"}) : y[1] = r /\ OpOf(p, y).time = OpOf(p, x).time
        BY <1>3, <3>1 DEF Piece, Together
      <4> QED BY <1>2, <1>8, <3>1, <4>1
    <3>2. ASSUME NEW u \in OfKinds(q, {"barrier"}), x = Later(p, u)
          PROVE  \E y \in OfKinds(pq, {"barrier"}) : y[1] = r /\ OpOf(pq, y).time = OpOf(pq, x).time
      <4>1. PICK y \in OfKinds(q, {"barrier"}) : y[1] = r /\ OpOf(q, y).time = OpOf(q, u).time
        BY <1>3 DEF Piece, Together
      <4>2. y \in Operations(q) /\ u \in Operations(q) /\ Later(p, y) \in OfKinds(pq, {"barrier"})
        BY <1>8, <4>1
      <4>3. Later(p, y)[1] = r /\ OpOf(pq, Later(p, y)) = OpOf(q, y) /\ OpOf(pq, x) = OpOf(q, u)
        BY <1>2, <1>3, <3>2, <4>1, <4>2
      <4> QED BY <4>1, <4>2, <4>3
    <3> QED BY <1>8, <3>1, <3>2
  <2>2. ASSUME NEW x \in OfKinds(pq, {"barrier"}), NEW y \in OfKinds(pq, {"barrier"}),
               x[1] = y[1], OpOf(pq, x).time = OpOf(pq, y).time
        PROVE  x = y
    <3>1. CASE x \in OfKinds(p, {"barrier"}) /\ y \in OfKinds(p, {"barrier"})
      BY <1>2, <1>8, <2>2, <3>1 DEF Piece, Together
    <3>2. ASSUME NEW u \in Operations(p), NEW v \in Operations(q),
                 OpOf(pq, u).time = OpOf(pq, Later(p, v)).time
          PROVE  FALSE
      BY <1>2, <1>4, <1>5, <3>2
    <3>3. ASSUME NEW u \in OfKinds(q, {"barrier"}), NEW v \in OfKinds(q, {"barrier"}),
                 x = Later(p, u), y = Later(p, v)
          PROVE  x = y
      <4>1. u \in Operations(q) /\ v \in Operations(q)
        BY <1>8
      <4>2. u[1] = v[1] /\ OpOf(q, u).time = OpOf(q, v).time
        BY <1>2, <1>3, <2>2, <3>3, <4>1
      <4>3. u = v
        BY <4>2 DEF Piece, Together
      <4> QED BY <3>3, <4>3
    <3> QED BY <1>8, <2>2, <3>1, <3>2, <3>3
  <2> QED BY <1>3, <2>1, <2>2 DEF Together
<1>10. ASSUME NEW x \in Operations(p), NEW w \in Operations(p)
       PROVE  AwaitedBy(pq, x, w) <=> AwaitedBy(p, x, w)
  BY <1>2 DEF AwaitedBy
<1>11. ASSUME NEW x \in Operations(q), NEW w \in Operations(q)
       PROVE  AwaitedBy(pq, Later(p, x), Later(p, w)) <=> AwaitedBy(q, x, w)
  <2>1. /\ Later(p, w)[1] = Later(p, x)[1] <=> w[1] = x[1]
        /\ w[1] = x[1] => (Later(p, x)[2] < Later(p, w)[2] <=> x[2] < w[2])
    BY <1>3
  <2> QED BY <1>2, <2>1 DEF AwaitedBy
<1>12. ASSUME NEW x \in Operations(q), NEW w \in Operations(p)
       PROVE  ~ AwaitedBy(pq, Later(p, x), w)
  BY <1>3 DEF AwaitedBy
<1>13. ASSUME NEW r \in R
       PROVE  /\ Len(p[r]) \in Nat
              /\ \A k \in 1 .. Len(p[r]) : pq[r][k] = p[r][k]
              /\ \A k \in 1 .. Len(q[r]) : pq[r][Len(p[r]) + k] = q[r][k]
  <2>1. pq[r] = p[r] \o q[r] /\ p[r] \in Seq(OpSet) /\ q[r] \in Seq(OpSet)
    BY <1>1 DEF pq, Then
  <2> DEFINE s == p[r]
             t == q[r]
  <2>2. s \in Seq(OpSet) /\ t \in Seq(OpSet)
    BY <2>1
  <2> HIDE DEF s, t
  <2>3. /\ Len(s) \in Nat
        /\ \A k \in 1 .. Len(s) : (s \o t)[k] = s[k]
        /\ \A k \in 1 .. Len(t) : (s \o t)[Len(s) + k] = t[k]
    BY <2>2
  <2> QED BY <2>1, <2>3 DEF s, t
<1>14. WaitedFor(pq)
  <2> SUFFICES ASSUME NEW x \in OfKinds(pq, {"isend", "irecv"})
               PROVE  \E w \in Operations(pq) :
                        /\ AwaitedBy(pq, x, w)
                        /\ \A k \in x[2] .. w[2] : pq[x[1]][k].iter = OpOf(pq, x).iter
    BY DEF WaitedFor
  <2>1. CASE x \in OfKinds(p, {"isend", "irecv"})
    <3>1. PICK w \in Operations(p) :
            /\ AwaitedBy(p, x, w)
            /\ \A k \in x[2] .. w[2] : p[x[1]][k].iter = OpOf(p, x).iter
      BY <2>1 DEF Piece, WaitedFor
    <3>2. /\ x \in Operations(p) /\ x[1] \in R /\ w[1] = x[1] /\ x[2] \in Nat \ {0} /\ w[2] \in Nat
          /\ w[2] <= Len(p[x[1]])
      BY <1>3, <1>8, <2>1, <3>1 DEF AwaitedBy
    <3>3. \A k \in x[2] .. w[2] : pq[x[1]][k] = p[x[1]][k]
      BY <1>13, <3>2
    <3> QED BY <1>2, <1>10, <3>1, <3>2, <3>3
  <2>2. ASSUME NEW u \in OfKinds(q, {"isend", "irecv"}), x = Later(p, u)
        PROVE  \E w \in Operations(pq) :
                 /\ AwaitedBy(pq, x, w)
                 /\ \A k \in x[2] .. w[2] : pq[x[1]][k].iter = OpOf(pq, x).iter
    <3>1. PICK w \in Operations(q) :
            /\ AwaitedBy(q, u, w)
            /\ \A k \in u[2] .. w[2] : q[u[1]][k].iter = OpOf(q, u).iter
      BY DEF Piece, WaitedFor
    <3>2. /\ u \in Operations(q) /\ u[1] \in R /\ w[1] = u[1] /\ u[2] \in Nat \ {0} /\ w[2] \in Nat
          /\ x[1] = u[1] /\ x[2] = Len(p[u[1]]) + u[2] /\ Later(p, w)[2] = Len(p[u[1]]) + w[2]
          /\ Len(p[u[1]]) \in Nat
      BY <1>3, <1>8, <2>2, <3>1 DEF AwaitedBy
    <3>3. w[2] <= Len(q[u[1]])
      BY <1>3, <3>1, <3>2, OperationsAre
    <3>4. ASSUME NEW k \in x[2] .. Later(p, w)[2]
          PROVE  pq[x[1]][k].iter = OpOf(pq, x).iter
      <4> DEFINE j == k - Len(p[u[1]])
      <4>1. j \in u[2] .. w[2] /\ j \in 1 .. Len(q[u[1]]) /\ k = Len(p[u[1]]) + j
        <5>1. k \in Len(p[u[1]]) + u[2] .. Len(p[u[1]]) + w[2]
          BY <3>2
        <5>2. /\ Len(p[u[1]]) \in Nat /\ u[2] \in Nat \ {0} /\ w[2] \in Nat
              /\ w[2] <= Len(q[u[1]]) /\ Len(q[u[1]]) \in Nat
          BY <1>1, <3>2, <3>3
        <5> DEFINE n == Len(p[u[1]])
                   i == u[2]
                   l == w[2]
                   o == Len(q[u[1]])
        <5>3. n \in Nat /\ i \in Nat \ {0} /\ l \in Nat /\ o \in Nat /\ l <= o /\ k \in n + i .. n + l
          BY <5>1, <5>2
        <5> HIDE DEF n, i, l, o
        <5>4. k - n \in i .. l /\ k - n \in 1 .. o /\ k = n + (k - n)
          BY <5>3, ShiftBack
        <5> QED BY <5>4 DEF n, i, l, o
      <4>2. pq[u[1]][Len(p[u[1]]) + j] = q[u[1]][j]
        BY <1>13, <3>2, <4>1
      <4>3. q[u[1]][j].iter = OpOf(q, u).iter
        BY <3>1, <4>1
      <4>4. OpOf(pq, x) = OpOf(q, u)
        BY <1>2, <2>2, <3>2
      <4> QED BY <3>2, <4>1, <4>2, <4>3, <4>4
    <3>5. Later(p, w) \in Operations(pq) /\ AwaitedBy(pq, x, Later(p, w))
      BY <1>2, <1>11, <2>2, <3>1, <3>2
    <3> QED BY <3>4, <3>5
  <2> QED BY <1>8, <2>1, <2>2
<1>15. PICK M, N : /\ Pairs(p, V, M) /\ Pairs(q, V, N)
                   /\ Listens(p, M, D, a, b) /\ Listens(q, N, D, b, c)
  BY DEF Piece
<1> DEFINE L == {<<Later(p, m[1]), Later(p, m[2])>> : m \in N}
           O == M \cup L
<1>16. /\ \A m \in M : /\ m = <<m[1], m[2]>> 
                       /\ m[1] \in OfKinds(p, {"isend"}) /\ m[2] \in OfKinds(p, {"irecv"})
                       /\ m[1] \in Operations(p) /\ m[2] \in Operations(p)
       /\ \A m \in N : /\ m = <<m[1], m[2]>> 
                       /\ m[1] \in OfKinds(q, {"isend"}) /\ m[2] \in OfKinds(q, {"irecv"})
                       /\ m[1] \in Operations(q) /\ m[2] \in Operations(q)
  <2>1. /\ M \subseteq OfKinds(p, {"isend"}) \X OfKinds(p, {"irecv"})
        /\ N \subseteq OfKinds(q, {"isend"}) \X OfKinds(q, {"irecv"})
    BY <1>15 DEF Pairs
  <2> QED BY <1>8, <2>1
<1>17. ASSUME NEW o \in O
       PROVE  \/ o \in M
              \/ \E m \in N : o[1] = Later(p, m[1]) /\ o[2] = Later(p, m[2]) /\ o = <<o[1], o[2]>>
  OBVIOUS
<1>18. \A m \in N : <<Later(p, m[1]), Later(p, m[2])>> \in O
  OBVIOUS
<1>19. M \subseteq O
  OBVIOUS
<1> HIDE DEF L, O
<1>20. /\ \A x \in Operations(p) : Channel(pq, x) = Channel(p, x)
       /\ \A x \in Operations(q) : Channel(pq, Later(p, x)) = Channel(q, x)
       /\ \A x \in Operations(p) : \A v : Takes(pq, x, v) <=> Takes(p, x, v)
       /\ \A x \in Operations(q) : \A v : Takes(pq, Later(p, x), v) <=> Takes(q, x, v)
  BY <1>2, <1>3 DEF Channel, Takes
<1>21. O \subseteq OfKinds(pq, {"isend"}) \X OfKinds(pq, {"irecv"})
  <2> SUFFICES ASSUME NEW o \in O PROVE o \in OfKinds(pq, {"isend"}) \X OfKinds(pq, {"irecv"})
    OBVIOUS
  <2>1. CASE o \in M
    BY <1>8, <1>16, <2>1
  <2>2. ASSUME NEW m \in N, o[1] = Later(p, m[1]), o[2] = Later(p, m[2]), o = <<o[1], o[2]>>
        PROVE  o \in OfKinds(pq, {"isend"}) \X OfKinds(pq, {"irecv"})
    <3>1. o[1] \in OfKinds(pq, {"isend"}) /\ o[2] \in OfKinds(pq, {"irecv"})
      BY <1>8, <1>16, <2>2
    <3> QED BY <2>2, <3>1
  <2> QED BY <1>17, <2>1, <2>2
<1>22. \A x \in OfKinds(pq, {"isend"}) : \E y : <<x, y>> \in O
  <2> SUFFICES ASSUME NEW x \in OfKinds(pq, {"isend"}) PROVE \E y : <<x, y>> \in O
    OBVIOUS
  <2>1. CASE x \in OfKinds(p, {"isend"})
    BY <1>15, <1>19, <2>1 DEF Pairs
  <2>2. ASSUME NEW u \in OfKinds(q, {"isend"}), x = Later(p, u) PROVE \E y : <<x, y>> \in O
    <3>1. PICK y : <<u, y>> \in N
      BY <1>15 DEF Pairs
    <3>2. <<Later(p, <<u, y>>[1]), Later(p, <<u, y>>[2])>> \in O
      BY <1>18, <3>1
    <3> QED BY <2>2, <3>2
  <2> QED BY <1>8, <2>1, <2>2
<1>23. \A y \in OfKinds(pq, {"irecv"}) : \E x : <<x, y>> \in O
  <2> SUFFICES ASSUME NEW y \in OfKinds(pq, {"irecv"}) PROVE \E x : <<x, y>> \in O
    OBVIOUS
  <2>1. CASE y \in OfKinds(p, {"irecv"})
    BY <1>15, <1>19, <2>1 DEF Pairs
  <2>2. ASSUME NEW u \in OfKinds(q, {"irecv"}), y = Later(p, u) PROVE \E x : <<x, y>> \in O
    <3>1. PICK x : <<x, u>> \in N
      BY <1>15 DEF Pairs
    <3>2. <<Later(p, <<x, u>>[1]), Later(p, <<x, u>>[2])>> \in O
      BY <1>18, <3>1
    <3> QED BY <2>2, <3>2
  <2> QED BY <1>8, <2>1, <2>2
<1>24. \A m \in O : /\ Channel(pq, m[1]) \in V
                    /\ \A v \in V : Takes(pq, m[2], v) <=> v = Channel(pq, m[1])
  <2> SUFFICES ASSUME NEW o \in O
               PROVE  /\ Channel(pq, o[1]) \in V
                      /\ \A v \in V : Takes(pq, o[2], v) <=> v = Channel(pq, o[1])
    OBVIOUS
  <2>1. CASE o \in M
    BY <1>15, <1>16, <1>20, <2>1 DEF Pairs
  <2>2. ASSUME NEW m \in N, o[1] = Later(p, m[1]), o[2] = Later(p, m[2])
        PROVE  /\ Channel(pq, o[1]) \in V
               /\ \A v \in V : Takes(pq, o[2], v) <=> v = Channel(pq, o[1])
    <3>1. /\ Channel(q, m[1]) \in V
          /\ \A v \in V : Takes(q, m[2], v) <=> v = Channel(q, m[1])
      BY <1>15 DEF Pairs
    <3> QED BY <1>16, <1>20, <2>2, <3>1
  <2> QED BY <1>17, <2>1, <2>2
<1>25. \A m, n \in O : Channel(pq, m[1]) = Channel(pq, n[1]) =>
                         (m[1][2] < n[1][2] <=> m[2][2] < n[2][2])
  <2> SUFFICES ASSUME NEW m \in O, NEW n \in O, Channel(pq, m[1]) = Channel(pq, n[1])
               PROVE  m[1][2] < n[1][2] <=> m[2][2] < n[2][2]
    OBVIOUS
  <2>1. CASE m \in M /\ n \in M
    BY <1>15, <1>16, <1>20, <2>1 DEF Pairs
  <2>2. ASSUME NEW k \in N, m[1] = Later(p, k[1]), m[2] = Later(p, k[2]),
               NEW l \in N, n[1] = Later(p, l[1]), n[2] = Later(p, l[2])
        PROVE  m[1][2] < n[1][2] <=> m[2][2] < n[2][2]
    <3>1. /\ k[1] \in Operations(q) /\ l[1] \in Operations(q)
          /\ k[2] \in Operations(q) /\ l[2] \in Operations(q)
      BY <1>16
    <3>2. Channel(q, k[1]) = Channel(q, l[1])
      BY <1>20, <2>2, <3>1
    <3>3. k[1][2] < l[1][2] <=> k[2][2] < l[2][2]
      BY <1>15, <3>2 DEF Pairs
    <3>4. k[1][1] = l[1][1]
      BY <3>2 DEF Channel
    <3>5. k[2][1] = l[2][1]
      <4>1. Takes(q, k[2], Channel(q, k[1])) /\ Takes(q, l[2], Channel(q, l[1]))
        BY <1>15 DEF Pairs
      <4> QED BY <3>2, <4>1 DEF Takes
    <3>6. PICK i \in Nat : /\ m[1][2] = i + k[1][2] /\ n[1][2] = i + l[1][2]
                           /\ k[1][2] \in Nat /\ l[1][2] \in Nat
      BY <1>3, <2>2, <3>1, <3>4
    <3>7. PICK h \in Nat : /\ m[2][2] = h + k[2][2] /\ n[2][2] = h + l[2][2]
                           /\ k[2][2] \in Nat /\ l[2][2] \in Nat
      BY <1>3, <2>2, <3>1, <3>5
    <3>8. (m[1][2] < n[1][2] <=> k[1][2] < l[1][2]) /\ (m[2][2] < n[2][2] <=> k[2][2] < l[2][2])
      BY <3>6, <3>7, SameShift
    <3> QED BY <3>3, <3>8
  <2>3. ASSUME NEW k \in M, NEW l, NEW j \in N, l \in O, l[1] = Later(p, j[1]), l[2] = Later(p,
               j[2]),
               Channel(pq, k[1]) = Channel(pq, l[1])
        PROVE  /\ k[1][2] < l[1][2] /\ k[2][2] < l[2][2]
               /\ ~ l[1][2] < k[1][2] /\ ~ l[2][2] < k[2][2]
    <3>1. /\ k[1] \in Operations(p) /\ j[1] \in Operations(q)
          /\ k[2] \in Operations(p) /\ j[2] \in Operations(q)
      BY <1>16
    <3>2. Channel(p, k[1]) = Channel(q, j[1])
      BY <1>20, <2>3, <3>1
    <3>4. k[1][1] = j[1][1]
      BY <3>2 DEF Channel
    <3>5. k[2][1] = j[2][1]
      <4>1. Takes(p, k[2], Channel(p, k[1])) /\ Takes(q, j[2], Channel(q, j[1]))
        BY <1>15 DEF Pairs
      <4> QED BY <3>2, <4>1 DEF Takes
    <3>6. PICK i \in Nat : /\ k[1][2] <= i /\ l[1][2] = i + j[1][2]
                           /\ k[1][2] \in Nat /\ j[1][2] \in Nat \ {0}
      BY <1>3, <2>3, <3>1, <3>4
    <3>7. PICK h \in Nat : /\ k[2][2] <= h /\ l[2][2] = h + j[2][2]
                           /\ k[2][2] \in Nat /\ j[2][2] \in Nat \ {0}
      BY <1>3, <2>3, <3>1, <3>5
    <3> QED BY <3>6, <3>7, FirstIsLess
  <2>4. CASE m \in M /\ n \notin M
    BY <1>17, <2>3, <2>4
  <2>5. CASE n \in M /\ m \notin M
    BY <1>17, <2>3, <2>5
  <2>6. CASE n \notin M /\ m \notin M
    BY <1>17, <2>2, <2>6
  <2> QED BY <2>1, <2>4, <2>5, <2>6
<1>26. \A m \in O : /\ OpOf(pq, m[1]).what = OpOf(pq, m[2]).what
                    /\ OpOf(pq, m[1]).iter = OpOf(pq, m[2]).iter
  <2> SUFFICES ASSUME NEW o \in O
               PROVE  /\ OpOf(pq, o[1]).what = OpOf(pq, o[2]).what
                      /\ OpOf(pq, o[1]).iter = OpOf(pq, o[2]).iter
    OBVIOUS
  <2>1. CASE o \in M
    BY <1>2, <1>15, <1>16, <2>1 DEF Pairs
  <2>2. ASSUME NEW m \in N, o[1] = Later(p, m[1]), o[2] = Later(p, m[2])
        PROVE  /\ OpOf(pq, o[1]).what = OpOf(pq, o[2]).what
               /\ OpOf(pq, o[1]).iter = OpOf(pq, o[2]).iter
    <3>1. /\ OpOf(q, m[1]).what = OpOf(q, m[2]).what
          /\ OpOf(q, m[1]).iter = OpOf(q, m[2]).iter
      BY <1>15 DEF Pairs
    <3> QED BY <1>2, <1>16, <2>2, <3>1
  <2> QED BY <1>17, <2>1, <2>2
<1>27. \A m \in O : \A w \in Operations(pq) :
         /\ AwaitedBy(pq, m[1], w) => OpOf(pq, m[2]).time < OpOf(pq, w).time
         /\ AwaitedBy(pq, m[2], w) => OpOf(pq, m[1]).time < OpOf(pq, w).time
  <2> SUFFICES ASSUME NEW o \in O, NEW w \in Operations(pq)
               PROVE  /\ AwaitedBy(pq, o[1], w) => OpOf(pq, o[2]).time < OpOf(pq, w).time
                      /\ AwaitedBy(pq, o[2], w) => OpOf(pq, o[1]).time < OpOf(pq, w).time
    OBVIOUS
  <2>1. CASE o \in M /\ w \in Operations(p)
    BY <1>2, <1>10, <1>15, <1>16, <2>1 DEF Pairs
  <2>2. ASSUME o \in M, NEW z \in Operations(q), w = Later(p, z)
        PROVE  OpOf(pq, o[1]).time < OpOf(pq, w).time /\ OpOf(pq, o[2]).time < OpOf(pq, w).time
    <3>1. o[1] \in Operations(p) /\ o[2] \in Operations(p)
      BY <1>16, <2>2
    <3> QED BY <1>2, <1>4, <1>5, <2>2, <3>1
  <2>3. ASSUME NEW m \in N, o[1] = Later(p, m[1]), o[2] = Later(p, m[2]), w \in Operations(p)
        PROVE  ~ AwaitedBy(pq, o[1], w) /\ ~ AwaitedBy(pq, o[2], w)
    BY <1>12, <1>16, <2>3
  <2>4. ASSUME NEW m \in N, o[1] = Later(p, m[1]), o[2] = Later(p, m[2]),
               NEW z \in Operations(q), w = Later(p, z)
        PROVE  /\ AwaitedBy(pq, o[1], w) => OpOf(pq, o[2]).time < OpOf(pq, w).time
               /\ AwaitedBy(pq, o[2], w) => OpOf(pq, o[1]).time < OpOf(pq, w).time
    <3>1. m[1] \in Operations(q) /\ m[2] \in Operations(q)
      BY <1>16
    <3>2. /\ AwaitedBy(q, m[1], z) => OpOf(q, m[2]).time < OpOf(q, z).time
          /\ AwaitedBy(q, m[2], z) => OpOf(q, m[1]).time < OpOf(q, z).time
      BY <1>15 DEF Pairs
    <3>3. /\ AwaitedBy(pq, o[1], w) <=> AwaitedBy(q, m[1], z)
          /\ AwaitedBy(pq, o[2], w) <=> AwaitedBy(q, m[2], z)
      BY <1>11, <2>4, <3>1
    <3>4. /\ OpOf(pq, o[1]) = OpOf(q, m[1]) /\ OpOf(pq, o[2]) = OpOf(q, m[2])
          /\ OpOf(pq, w) = OpOf(q, z)
      BY <1>2, <2>4, <3>1
    <3> QED BY <3>2, <3>3, <3>4
  <2> QED BY <1>2, <1>17, <2>1, <2>2, <2>3, <2>4
<1>28. Pairs(pq, V, O)
  BY <1>21, <1>22, <1>23, <1>24, <1>25, <1>26, <1>27 DEF Pairs
<1>29. InTime(pq)
  <2> SUFFICES ASSUME NEW x \in Operations(pq)
               PROVE  /\ 16 * OpOf(pq, x).iter <= OpOf(pq, x).time
                      /\ OpOf(pq, x).time < 16 * OpOf(pq, x).iter + 16
    BY DEF InTime
  <2>1. CASE x \in Operations(p)
    BY <1>2, <2>1 DEF Piece, InTime
  <2>2. CASE \E y \in Operations(q) : x = Later(p, y)
    BY <1>2, <2>2 DEF Piece, InTime
  <2> QED BY <1>2, <2>1, <2>2
<1>30. Along(pq, D)
  <2> SUFFICES ASSUME D # {}, NEW x \in OfKinds(pq, {"isend"})
               PROVE  \/ <<x[1], OpOf(pq, x).peer>> \in D
                      \/ \E y \in OfKinds(pq, {"barrier"}) :
                           /\ y[1] = x[1] /\ y[2] < x[2]
                           /\ OpOf(pq, y).iter = OpOf(pq, x).iter
    BY DEF Along
  <2>1. CASE x \in OfKinds(p, {"isend"})
    <3>1. OpOf(pq, x) = OpOf(p, x)
      BY <1>2, <1>8, <2>1
    <3>2. ASSUME NEW y \in OfKinds(p, {"barrier"}), y[1] = x[1], y[2] < x[2],
                 OpOf(p, y).iter = OpOf(p, x).iter
          PROVE  /\ y \in OfKinds(pq, {"barrier"}) /\ y[1] = x[1] /\ y[2] < x[2]
                 /\ OpOf(pq, y).iter = OpOf(pq, x).iter
      BY <1>2, <1>8, <3>1, <3>2
    <3> QED BY <2>1, <3>1, <3>2 DEF Piece, Along
  <2>2. ASSUME NEW u \in OfKinds(q, {"isend"}), x = Later(p, u)
        PROVE  \/ <<x[1], OpOf(pq, x).peer>> \in D
               \/ \E y \in OfKinds(pq, {"barrier"}) :
                    /\ y[1] = x[1] /\ y[2] < x[2]
                    /\ OpOf(pq, y).iter = OpOf(pq, x).iter
    <3>1. u \in Operations(q) /\ OpOf(pq, x) = OpOf(q, u) /\ x[1] = u[1]
      BY <1>2, <1>3, <1>8, <2>2
    <3>2. ASSUME NEW y \in OfKinds(q, {"barrier"}), y[1] = u[1], y[2] < u[2],
                 OpOf(q, y).iter = OpOf(q, u).iter
          PROVE  /\ Later(p, y) \in OfKinds(pq, {"barrier"}) /\ Later(p, y)[1] = x[1]
                 /\ Later(p, y)[2] < x[2] /\ OpOf(pq, Later(p, y)).iter = OpOf(pq, x).iter
      <4>1. y \in Operations(q)
        BY <1>8
      <4>2. PICK i \in Nat : /\ Later(p, y)[2] = i + y[2] /\ x[2] = i + u[2]
                             /\ y[2] \in Nat /\ u[2] \in Nat
        BY <1>3, <2>2, <3>1, <3>2, <4>1
      <4>3. Later(p, y)[2] < x[2]
        BY <3>2, <4>2, SameShift
      <4> QED BY <1>2, <1>3, <1>8, <3>1, <3>2, <4>1, <4>3
    <3> QED BY <3>1, <3>2 DEF Piece, Along
  <2> QED BY <1>8, <2>1, <2>2
<1>31. Listens(pq, O, D, a, c)
  <2> SUFFICES ASSUME NEW j \in Nat, a <= 16 * j, 16 * j < c
               PROVE  Meets(pq, j) \/ Hears(pq, O, D, j)
    BY DEF Listens
  <2>1. CASE 16 * j < b
    <3>1. Meets(p, j) \/ Hears(p, M, D, j)
      BY <1>15, <2>1 DEF Listens
    <3>2. CASE Meets(p, j)
      BY <1>2, <1>8, <3>2 DEF Meets
    <3>3. ASSUME Hears(p, M, D, j), NEW e \in D, NEW S \in SUBSET R, e[1] \in S, e[2] \notin S
          PROVE  \E m \in O : m[2][1] \in S /\ m[1][1] \notin S /\ OpOf(pq, m[2]).iter = j
      <4>1. PICK m \in M : m[2][1] \in S /\ m[1][1] \notin S /\ OpOf(p, m[2]).iter = j
        BY <1>3, <3>3 DEF Hears
      <4> QED BY <1>2, <1>16, <1>19, <4>1
    <3> QED BY <1>3, <3>1, <3>2, <3>3 DEF Hears
  <2>2. CASE ~ 16 * j < b
    <3>1. Meets(q, j) \/ Hears(q, N, D, j)
      BY <1>15, <2>2 DEF Listens
    <3>2. CASE Meets(q, j)
      <4>1. PICK x \in OfKinds(q, {"barrier"}) : OpOf(q, x).iter = j
        BY <3>2 DEF Meets
      <4>2. x \in Operations(q) /\ Later(p, x) \in OfKinds(pq, {"barrier"})
        BY <1>8
      <4> QED BY <1>2, <4>1, <4>2 DEF Meets
    <3>3. ASSUME Hears(q, N, D, j), NEW e \in D, NEW S \in SUBSET R, e[1] \in S, e[2] \notin S
          PROVE  \E m \in O : m[2][1] \in S /\ m[1][1] \notin S /\ OpOf(pq, m[2]).iter = j
      <4>1. PICK m \in N : m[2][1] \in S /\ m[1][1] \notin S /\ OpOf(q, m[2]).iter = j
        BY <1>3, <3>3 DEF Hears
      <4> DEFINE o == <<Later(p, m[1]), Later(p, m[2])>>
      <4>2. o \in O /\ o[1] = Later(p, m[1]) /\ o[2] = Later(p, m[2])
        BY <1>18
      <4>3. m[1] \in Operations(q) /\ m[2] \in Operations(q)
        BY <1>16
      <4> HIDE DEF o
      <4>4. o[1][1] = m[1][1] /\ o[2][1] = m[2][1] /\ OpOf(pq, o[2]) = OpOf(q, m[2])
        BY <1>2, <1>3, <4>2, <4>3
      <4> QED BY <4>1, <4>2, <4>4
    <3> QED BY <1>3, <3>1, <3>2, <3>3 DEF Hears
  <2> QED BY <2>1, <2>2
<1> QED BY <1>2, <1>6, <1>7, <1>9, <1>14, <1>28, <1>29, <1>30, <1>31 DEF Piece, pq

(***************************************************************************)
(* Sets that a relation pairs one to one have as many members.             *)
(***************************************************************************)
LEMMA SameCount ==
  ASSUME NEW A, NEW B, NEW Q, IsFiniteSet(A),
         \A x \in A : \E y \in B : <<x, y>> \in Q,
         \A y \in B : \E x \in A : <<x, y>> \in Q,
         \A x, y, z : <<x, y>> \in Q /\ <<x, z>> \in Q => y = z,
         \A x, y, z : <<x, z>> \in Q /\ <<y, z>> \in Q => x = y
  PROVE  Cardinality(A) = Cardinality(B)
<1> DEFINE f == [x \in A |-> CHOOSE y \in B : <<x, y>> \in Q]
<1>1. \A x \in A : f[x] \in B /\ <<x, f[x]>> \in Q
  OBVIOUS
<1>2. f \in [A -> B]
  BY <1>1
<1> HIDE DEF f
<1>3. \A x, y \in A : f[x] = f[y] => x = y
  BY <1>1
<1>4. \A y \in B : \E x \in A : f[x] = y
  BY <1>1
<1>5. f \in Bijection(A, B)
  BY <1>2, <1>3, <1>4 DEF Bijection, Surjection, Injection, IsInjective
<1>6. ExistsBijection(A, B)
  BY <1>5 DEF ExistsBijection
<1> QED BY <1>6, FS_Bijection

(***************************************************************************)
(* What is before an operation.                                            *)
(***************************************************************************)
LEMMA BeforeFinite ==
  ASSUME NEW x, x[2] \in Nat
  PROVE  IsFiniteSet(Before(x))
<1>1. IsFiniteSet(1 .. x[2] - 1)
  BY FS_Interval
<1>2. IsFiniteSet({x[1]})
  BY FS_Singleton
<1> QED BY <1>1, <1>2, FS_Product DEF Before

(***************************************************************************)
(* The operations before one are those of its rank with smaller indices.   *)
(***************************************************************************)
LEMMA BeforeIs ==
  ASSUME NEW R, NEW p \in [R -> Seq(OpSet)], NEW x \in Operations(p), NEW y
  PROVE  y \in Before(x) <=> y \in Operations(p) /\ y[1] = x[1] /\ y[2] < x[2]
<1>1. /\ x[1] \in R /\ x[2] \in 1 .. Len(p[x[1]]) /\ DOMAIN p = R
  BY OperationsAre
<1>2. Len(p[x[1]]) \in Nat
  BY <1>1
<1>3. ASSUME y \in Before(x) PROVE y \in Operations(p) /\ y[1] = x[1] /\ y[2] < x[2]
  <2>1. y = <<y[1], y[2]>> /\ y[1] = x[1] /\ y[2] \in 1 .. x[2] - 1
    BY <1>3 DEF Before
  <2>2. y[2] \in 1 .. Len(p[x[1]]) /\ y[2] < x[2]
    BY <1>1, <1>2, <2>1
  <2> QED BY <1>1, <2>1, <2>2, OperationsAre
<1>4. ASSUME y \in Operations(p), y[1] = x[1], y[2] < x[2] PROVE y \in Before(x)
  <2>1. y = <<y[1], y[2]>> /\ y[2] \in 1 .. Len(p[x[1]])
    BY <1>4, OperationsAre
  <2>2. y[2] \in 1 .. x[2] - 1
    BY <1>1, <1>2, <1>4, <2>1
  <2> QED BY <1>4, <2>1, <2>2 DEF Before
<1> QED BY <1>3, <1>4

(***************************************************************************)
(* Pairs are the mates.                                                    *)
(***************************************************************************)
Matches(p, V, M) ==
  /\ \A m \in M : /\ m = <<m[1], m[2]>>
                  /\ m[1] \in OfKinds(p, {"isend"}) /\ m[2] \in OfKinds(p, {"irecv"})
                  /\ m[1] \in Operations(p) /\ m[2] \in Operations(p)
  /\ \A m, n \in M : Channel(p, m[1]) = Channel(p, n[1]) =>
                       m[1][1] = n[1][1] /\ m[2][1] = n[2][1]
  /\ \A m, n \in M : m[1] = n[1] => m = n
  /\ \A m, n \in M : m[2] = n[2] => m = n
  /\ \A x \in OfKinds(p, {"isend"}) : Channel(p, x) \in V
  /\ \A m, n \in M : Fits(p, m[1], n[2]) <=> Channel(p, m[1]) = Channel(p, n[1])

(***************************************************************************)
(* Pairs match one to one, and in the order of their channels.             *)
(***************************************************************************)
LEMMA PairsAre ==
  ASSUME NEW R, NEW V, NEW p \in [R -> Seq(OpSet)], NEW M, Pairs(p, V, M)
  PROVE  Matches(p, V, M)
<1>1. ASSUME NEW m \in M
      PROVE  /\ m = <<m[1], m[2]>>
             /\ m[1] \in OfKinds(p, {"isend"}) /\ m[2] \in OfKinds(p, {"irecv"})
             /\ m[1] \in Operations(p) /\ m[2] \in Operations(p)
             /\ OpOf(p, m[1]).op = "isend" /\ OpOf(p, m[2]).op = "irecv"
  <2>1. M \subseteq OfKinds(p, {"isend"}) \X OfKinds(p, {"irecv"})
    BY DEF Pairs
  <2> QED BY <2>1 DEF OfKinds
<1>2. \A m \in M : /\ Channel(p, m[1]) \in V
                   /\ \A v \in V : Takes(p, m[2], v) <=> v = Channel(p, m[1])
  BY DEF Pairs
<1>3. ASSUME NEW m \in M, NEW n \in M, Channel(p, m[1]) = Channel(p, n[1])
      PROVE  m[1][1] = n[1][1] /\ m[2][1] = n[2][1]
  <2>1. Takes(p, m[2], Channel(p, m[1])) /\ Takes(p, n[2], Channel(p, n[1]))
    BY <1>2
  <2>2. m[2][1] = n[2][1]
    BY <1>3, <2>1 DEF Takes
  <2>3. m[1][1] = n[1][1]
    BY <1>3 DEF Channel
  <2> QED BY <2>2, <2>3
<1>4. ASSUME NEW m \in M, NEW n \in M, Channel(p, m[1]) = Channel(p, n[1]),
             m[1] = n[1] \/ m[2] = n[2]
      PROVE  m = n
  <2>1. m[1][2] < n[1][2] <=> m[2][2] < n[2][2]
    BY <1>4 DEF Pairs
  <2>2. n[1][2] < m[1][2] <=> n[2][2] < m[2][2]
    BY <1>4 DEF Pairs
  <2>3. /\ m[1][2] \in Nat /\ n[1][2] \in Nat /\ m[2][2] \in Nat /\ n[2][2] \in Nat
        /\ m[1] = <<m[1][1], m[1][2]>> /\ n[1] = <<n[1][1], n[1][2]>>
        /\ m[2] = <<m[2][1], m[2][2]>> /\ n[2] = <<n[2][1], n[2][2]>>
    BY <1>1, LaterOps, OperationsAre
  <2>4. m[1][2] = n[1][2] /\ m[2][2] = n[2][2]
    BY <1>4, <2>1, <2>2, <2>3
  <2>5. m[1] = n[1] /\ m[2] = n[2]
    BY <1>3, <1>4, <2>3, <2>4
  <2> QED BY <1>1, <2>5
<1>5. ASSUME NEW m \in M, NEW n \in M, m[2] = n[2] PROVE m = n
  <2>1. Channel(p, m[1]) = Channel(p, n[1])
    BY <1>2, <1>5
  <2> QED BY <1>4, <1>5, <2>1
<1>6. ASSUME NEW x \in OfKinds(p, {"isend"}) PROVE Channel(p, x) \in V
  <2>1. PICK y : <<x, y>> \in M
    BY DEF Pairs
  <2> QED BY <1>2, <2>1
<1>7. ASSUME NEW m \in M, NEW n \in M
      PROVE  Fits(p, m[1], n[2]) <=> Channel(p, m[1]) = Channel(p, n[1])
  <2>1. Takes(p, n[2], Channel(p, m[1])) <=> Channel(p, m[1]) = Channel(p, n[1])
    BY <1>2
  <2>2. Fits(p, m[1], n[2]) <=> Takes(p, n[2], Channel(p, m[1]))
    BY <1>1 DEF Fits, Takes, Channel
  <2> QED BY <2>1, <2>2
<1>8. \A m, n \in M : m[1] = n[1] => m = n
  BY <1>4
<1> QED BY <1>1, <1>3, <1>5, <1>6, <1>7, <1>8 DEF Matches

(***************************************************************************)
(* The pairs are the mates of Matching: as many receives come before one   *)
(* that fit its send as sends before the send that fit the receive.        *)
(***************************************************************************)
LEMMA PairsAreMates ==
  ASSUME NEW R, NEW V, NEW p \in [R -> Seq(OpSet)], NEW M, Pairs(p, V, M)
  PROVE  Mates(p) = M
<1> DEFINE B(x, y) == {z \in Before(x) : Fits(p, z, y)}
           A(x, y) == {z \in Before(y) : Fits(p, x, z)}
<1>1. /\ \A m \in M : /\ m = <<m[1], m[2]>>
                      /\ m[1] \in OfKinds(p, {"isend"}) /\ m[2] \in OfKinds(p, {"irecv"})
                      /\ m[1] \in Operations(p) /\ m[2] \in Operations(p)
      /\ \A m, n \in M : Channel(p, m[1]) = Channel(p, n[1]) =>
                           m[1][1] = n[1][1] /\ m[2][1] = n[2][1]
      /\ \A m, n \in M : m[1] = n[1] => m = n
      /\ \A m, n \in M : m[2] = n[2] => m = n
      /\ \A m, n \in M : Fits(p, m[1], n[2]) <=> Channel(p, m[1]) = Channel(p, n[1])
  <2>1. Matches(p, V, M)
    BY PairsAre
  <2> QED BY <2>1 DEF Matches
<1>2. /\ \A x \in OfKinds(p, {"isend"}) : \E y : <<x, y>> \in M
      /\ \A y \in OfKinds(p, {"irecv"}) : \E x : <<x, y>> \in M
      /\ \A m, n \in M : Channel(p, m[1]) = Channel(p, n[1]) =>
                           (m[1][2] < n[1][2] <=> m[2][2] < n[2][2])
  BY DEF Pairs
<1>3. ASSUME NEW x \in Operations(p)
      PROVE  x[2] \in Nat /\ IsFiniteSet(Before(x))
  BY LaterOps, BeforeFinite
<1>4. ASSUME NEW m \in M
      PROVE  Cardinality(B(m[1], m[2])) = Cardinality(A(m[1], m[2]))
  <2>1. IsFiniteSet(B(m[1], m[2]))
    BY <1>1, <1>3, FS_Subset
  <2>2. ASSUME NEW x \in B(m[1], m[2])
        PROVE  \E y \in A(m[1], m[2]) : <<x, y>> \in M
    <3>1. /\ x \in Operations(p) /\ x[1] = m[1][1] /\ x[2] < m[1][2] /\ Fits(p, x, m[2])
      BY <1>1, BeforeIs
    <3>2. x \in OfKinds(p, {"isend"})
      BY <3>1 DEF Fits, OfKinds
    <3>3. PICK y : <<x, y>> \in M
      BY <1>2, <3>2
    <3>4. Channel(p, x) = Channel(p, m[1])
      BY <1>1, <3>1, <3>3
    <3>5. y[2] < m[2][2] /\ y[1] = m[2][1] /\ y \in Operations(p) /\ Fits(p, m[1], y)
      BY <1>1, <1>2, <3>1, <3>3, <3>4
    <3>6. y \in Before(m[2])
      BY <1>1, <3>5, BeforeIs
    <3> QED BY <3>3, <3>5, <3>6
  <2>3. ASSUME NEW y \in A(m[1], m[2])
        PROVE  \E x \in B(m[1], m[2]) : <<x, y>> \in M
    <3>1. /\ y \in Operations(p) /\ y[1] = m[2][1] /\ y[2] < m[2][2] /\ Fits(p, m[1], y)
      BY <1>1, BeforeIs
    <3>2. y \in OfKinds(p, {"irecv"})
      BY <3>1 DEF Fits, OfKinds
    <3>3. PICK x : <<x, y>> \in M
      BY <1>2, <3>2
    <3>4. Channel(p, x) = Channel(p, m[1])
      BY <1>1, <3>1, <3>3
    <3>5. x[2] < m[1][2] /\ x[1] = m[1][1] /\ x \in Operations(p) /\ Fits(p, x, m[2])
      BY <1>1, <1>2, <3>1, <3>3, <3>4
    <3>6. x \in Before(m[1])
      BY <1>1, <3>5, BeforeIs
    <3> QED BY <3>3, <3>5, <3>6
  <2>4. /\ \A x, y, z : <<x, y>> \in M /\ <<x, z>> \in M => y = z
        /\ \A x, y, z : <<x, z>> \in M /\ <<y, z>> \in M => x = y
    <3>1. \A x, y, z : <<x, y>> \in M /\ <<x, z>> \in M => <<x, y>> = <<x, z>>
      BY <1>1
    <3>2. \A x, y, z : <<x, z>> \in M /\ <<y, z>> \in M => <<x, z>> = <<y, z>>
      BY <1>1
    <3> QED BY <3>1, <3>2
  <2> DEFINE S == B(m[1], m[2])
             T == A(m[1], m[2])
  <2> HIDE DEF A, B
  <2>5. /\ IsFiniteSet(S) /\ \A x \in S : \E y \in T : <<x, y>> \in M
        /\ \A y \in T : \E x \in S : <<x, y>> \in M
    BY <2>1, <2>2, <2>3
  <2> HIDE DEF S, T
  <2>6. Cardinality(S) = Cardinality(T)
    BY <2>4, <2>5, SameCount
  <2> QED BY <2>6 DEF S, T
<1>5. ASSUME NEW m \in M PROVE m \in Mates(p)
  <2>1. Fits(p, m[1], m[2]) /\ m \in OfKinds(p, {"isend"}) \X OfKinds(p, {"irecv"})
    BY <1>1
  <2> QED BY <1>4, <2>1 DEF Mates
<1>6. ASSUME NEW o \in Mates(p) PROVE o \in M
  <2>1. /\ o = <<o[1], o[2]>> /\ o[1] \in OfKinds(p, {"isend"}) /\ o[2] \in OfKinds(p, {"irecv"})
        /\ Fits(p, o[1], o[2])
        /\ Cardinality(B(o[1], o[2])) = Cardinality(A(o[1], o[2]))
    BY DEF Mates
  <2>2. PICK y, x : <<o[1], y>> \in M /\ <<x, o[2]>> \in M
    BY <1>2, <2>1
  <2>3. Channel(p, o[1]) = Channel(p, x)
    BY <1>1, <2>1, <2>2
  <2>4. y[1] = o[2][1] /\ y \in Operations(p) /\ o[2] \in Operations(p)
    BY <1>1, <2>2, <2>3
  <2>5. \A z \in Operations(p) : Fits(p, z, o[2]) <=> Fits(p, z, y)
    <3> SUFFICES ASSUME NEW z \in Operations(p), Fits(p, z, o[2]) \/ Fits(p, z, y)
                 PROVE  Fits(p, z, o[2]) /\ Fits(p, z, y)
      OBVIOUS
    <3>1. z \in OfKinds(p, {"isend"})
      BY DEF Fits, OfKinds
    <3>2. PICK u : <<z, u>> \in M
      BY <1>2, <3>1
    <3> QED BY <1>1, <2>2, <2>3, <3>2
  <2>6. B(o[1], o[2]) = B(o[1], y)
    BY <1>1, <2>2, <2>5, BeforeIs
  <2>7. Cardinality(B(o[1], o[2])) = Cardinality(A(o[1], y))
    BY <1>4, <2>2, <2>6
  <2>8. /\ o[2] \in A(o[1], y) <=> o[2][2] < y[2]
        /\ y \in A(o[1], o[2]) <=> y[2] < o[2][2]
        /\ o[2] \notin A(o[1], o[2]) /\ y \notin A(o[1], y)
    BY <1>1, <1>3, <2>1, <2>2, <2>4, BeforeIs
  <2>9. /\ o[2][2] <= y[2] => A(o[1], o[2]) \subseteq A(o[1], y)
        /\ y[2] <= o[2][2] => A(o[1], y) \subseteq A(o[1], o[2])
        /\ o[2][2] \in Nat /\ y[2] \in Nat
    <3>1. \A z \in Operations(p) : z[2] \in Nat
      BY <1>3
    <3> QED BY <2>4, <3>1, BeforeIs
  <2>10. IsFiniteSet(A(o[1], y)) /\ IsFiniteSet(A(o[1], o[2]))
    BY <1>3, <2>4, FS_Subset
  <2> HIDE DEF A, B
  <2>11. o[2][2] = y[2]
    <3>1. CASE o[2][2] < y[2]
      <4>1. A(o[1], o[2]) \subseteq A(o[1], y) /\ A(o[1], o[2]) # A(o[1], y)
        BY <2>8, <2>9, <3>1
      <4> QED BY <2>1, <2>7, <2>10, <4>1, FS_Subset
    <3>2. CASE y[2] < o[2][2]
      <4>1. A(o[1], y) \subseteq A(o[1], o[2]) /\ A(o[1], o[2]) # A(o[1], y)
        BY <2>8, <2>9, <3>2
      <4> QED BY <2>1, <2>7, <2>10, <4>1, FS_Subset
    <3> QED BY <2>9, <3>1, <3>2
  <2>12. o[2] = y
    BY <2>4, <2>11, OperationsAre
  <2> QED BY <2>1, <2>2, <2>12
<1> QED BY <1>5, <1>6

(***************************************************************************)
(* A piece is all that is asked of a program, and its mates are of the     *)
(* same iteration.                                                         *)
(***************************************************************************)
LEMMA PieceSound ==
  ASSUME NEW R, NEW V, NEW D, NEW p, NEW a \in Nat, NEW b \in Nat, Piece(R, V, D, p, a, b)
  PROVE  /\ Sound(p)
         /\ \A m \in Mates(p) : OpOf(p, m[1]).iter = OpOf(p, m[2]).iter
<1>1. PICK M : p \in [R -> Seq(OpSet)] /\ Pairs(p, V, M)
  BY DEF Piece
<1>2. Mates(p) = M
  BY <1>1, PairsAreMates
<1>3. Matches(p, V, M)
  BY <1>1, PairsAre
<1>4. WellFormed(p)
  <2> SUFFICES ASSUME NEW r \in DOMAIN p
               PROVE  /\ Len(p[r]) \in Nat
                      /\ \A k \in 1 .. Len(p[r]) : p[r][k].op \in Kinds /\ p[r][k].time \in Nat
    BY DEF WellFormed
  <2>1. p[r] \in Seq(OpSet)
    BY <1>1
  <2>2. \A k \in 1 .. Len(p[r]) : p[r][k] \in OpSet
    BY <2>1
  <2> QED BY <2>1, <2>2 DEF OpSet
<1>5. Orderly(p)
  <2>1. \A x \in OfKinds(p, {"isend"}) : \E y \in OfKinds(p, {"irecv"}) : <<x, y>> \in M
    <3> SUFFICES ASSUME NEW x \in OfKinds(p, {"isend"})
                 PROVE  \E y \in OfKinds(p, {"irecv"}) : <<x, y>> \in M
      OBVIOUS
    <3>1. PICK y : <<x, y>> \in M
      BY <1>1 DEF Pairs
    <3>2. <<x, y>>[2] \in OfKinds(p, {"irecv"})
      BY <1>3, <3>1 DEF Matches
    <3> QED BY <3>1, <3>2
  <2>2. \A y \in OfKinds(p, {"irecv"}) : \E x \in OfKinds(p, {"isend"}) : <<x, y>> \in M
    <3> SUFFICES ASSUME NEW y \in OfKinds(p, {"irecv"})
                 PROVE  \E x \in OfKinds(p, {"isend"}) : <<x, y>> \in M
      OBVIOUS
    <3>1. PICK x : <<x, y>> \in M
      BY <1>1 DEF Pairs
    <3>2. <<x, y>>[1] \in OfKinds(p, {"isend"})
      BY <1>3, <3>1 DEF Matches
    <3> QED BY <3>1, <3>2
  <2>3. ASSUME NEW m \in M, NEW n \in M, Fits(p, m[1], n[2])
        PROVE  m[1][1] = n[1][1] /\ (m[1][2] < n[1][2] <=> m[2][2] < n[2][2])
    <3>1. Channel(p, m[1]) = Channel(p, n[1])
      BY <1>3, <2>3 DEF Matches
    <3>2. m[1][1] = n[1][1]
      BY <1>3, <3>1 DEF Matches
    <3>3. m[1][2] < n[1][2] <=> m[2][2] < n[2][2]
      BY <1>1, <3>1 DEF Pairs
    <3> QED BY <3>2, <3>3
  <2>4. \A m \in M : OpOf(p, m[1]).what = OpOf(p, m[2]).what
    BY <1>1 DEF Pairs
  <2> QED BY <1>2, <2>1, <2>2, <2>3, <2>4 DEF Orderly
<1>6. Scheduled(p)
  <2>1. \A m \in M : \A w \in Operations(p) :
          /\ AwaitedBy(p, m[1], w) => OpOf(p, m[2]).time < OpOf(p, w).time
          /\ AwaitedBy(p, m[2], w) => OpOf(p, m[1]).time < OpOf(p, w).time
    BY <1>1 DEF Pairs
  <2>2. Sorted(p) /\ Together(p)
    BY DEF Piece
  <2> QED BY <1>2, <2>1, <2>2 DEF Scheduled, Sorted, Together
<1>7. \A m \in M : OpOf(p, m[1]).iter = OpOf(p, m[2]).iter
  BY <1>1 DEF Pairs
<1> QED BY <1>2, <1>4, <1>5, <1>6, <1>7 DEF Sound, Piece

(***************************************************************************)
(* A piece is one for times further apart if no iteration begins in        *)
(* between.                                                                *)
(***************************************************************************)
LEMMA PieceWidens ==
  ASSUME NEW R, NEW V, NEW D, NEW p, NEW a \in Nat, NEW b \in Nat, NEW c \in Nat, NEW d \in Nat,
         Piece(R, V, D, p, a, b), c <= a, b <= d,
         \A j \in Nat : c <= 16 * j /\ 16 * j < d => a <= 16 * j /\ 16 * j < b
  PROVE  Piece(R, V, D, p, c, d)
<1>1. p \in [R -> Seq(OpSet)] /\ Within(p, a, b)
  BY DEF Piece
<1>2. \A x \in Operations(p) : OpOf(p, x).time \in Nat
  BY <1>1, LaterOps DEF OpSet
<1>3. Within(p, c, d)
  BY <1>1, <1>2 DEF Within
<1>4. PICK M : Pairs(p, V, M) /\ Listens(p, M, D, a, b)
  BY DEF Piece
<1>5. Listens(p, M, D, c, d)
  BY <1>4 DEF Listens
<1> QED BY <1>1, <1>3, <1>4, <1>5 DEF Piece

(***************************************************************************)
(* All ranks do the same.                                                  *)
(***************************************************************************)
Everyone(R, s) == [r \in R |-> s]

(***************************************************************************)
(* Nothing at all is a piece, where no iteration begins.                   *)
(***************************************************************************)
LEMMA PieceNothing ==
  ASSUME NEW R, NEW V, NEW D, NEW a \in Nat, NEW b \in Nat,
         \A j \in Nat : ~ (a <= 16 * j /\ 16 * j < b)
  PROVE  Piece(R, V, D, Everyone(R, <<>>), a, b)
<1> DEFINE p == Everyone(R, <<>>)
<1>1. p \in [R -> Seq(OpSet)] /\ DOMAIN p = R /\ \A r \in R : p[r] = <<>>
  BY DEF Everyone
<1> HIDE DEF p
<1>2. ASSUME NEW x \in Operations(p) PROVE FALSE
  BY <1>1, OperationsAre
<1>3. \A kinds : OfKinds(p, kinds) = {}
  BY <1>2 DEF OfKinds
<1>4. /\ Within(p, a, b) /\ Sorted(p) /\ Together(p) /\ WaitedFor(p)
      /\ InTime(p) /\ Along(p, D)
  BY <1>2, <1>3 DEF Within, Sorted, Together, WaitedFor, InTime, Along
<1>5. Pairs(p, V, {}) /\ Listens(p, {}, D, a, b)
  BY <1>3 DEF Pairs, Listens
<1>6. Piece(R, V, D, p, a, b)
  BY <1>1, <1>4, <1>5 DEF Piece
<1> QED BY <1>6 DEF p

(***************************************************************************)
(* Pieces again and again.                                                 *)
(***************************************************************************)
Loop(R, n, G) == [r \in R |-> FlattenSeq([i \in 1 .. n |-> G[i][r]])]

(***************************************************************************)
(* Pieces one after the other are a piece: the loop over the iterations.   *)
(***************************************************************************)
LEMMA PieceTimes ==
  ASSUME NEW R, NEW V, NEW D, NEW n \in Nat, NEW G, NEW T \in [0 .. n -> Nat],
         \A i \in 1 .. n : T[i - 1] <= T[i] /\ Piece(R, V, D, G[i], T[i - 1], T[i])
  PROVE  /\ T[0] <= T[n]
         /\ Piece(R, V, D, Loop(R, n, G), T[0], T[n])
<1> DEFINE F(m) == Loop(R, m, G)
           N == {m \in Nat : m <= n => T[0] <= T[m] /\ Piece(R, V, D, F(m), T[0], T[m])}
<1>1. \A i \in 1 .. n : G[i] \in [R -> Seq(OpSet)]
  BY DEF Piece
<1>2. 0 \in N
  <2>1. FlattenSeq(<<>>) = <<>>
    BY DEF FlattenSeq
  <2>2. \A r \in R : [i \in 1 .. 0 |-> G[i][r]] = <<>>
    OBVIOUS
  <2>3. F(0) = Everyone(R, <<>>)
    BY <2>1, <2>2 DEF Loop, Everyone
  <2> HIDE DEF F
  <2>4. T[0] \in Nat /\ T[0] <= T[0] /\ \A j \in Nat : ~ (T[0] <= 16 * j /\ 16 * j < T[0])
    OBVIOUS
  <2>5. Piece(R, V, D, Everyone(R, <<>>), T[0], T[0])
    BY <2>4, PieceNothing
  <2>6. Piece(R, V, D, F(0), T[0], T[0])
    BY <2>3, <2>5
  <2> QED BY <2>4, <2>6
<1>3. ASSUME NEW m \in Nat, m \in N PROVE m + 1 \in N
  <2> SUFFICES ASSUME m + 1 <= n
               PROVE  T[0] <= T[m + 1] /\ Piece(R, V, D, F(m + 1), T[0], T[m + 1])
    OBVIOUS
  <2>1. m + 1 \in 1 .. n /\ (m + 1) - 1 = m /\ m \in 0 .. n /\ 0 \in 0 .. n /\ m + 1 \in 0 .. n
    OBVIOUS
  <2>2. T[m] <= T[m + 1] /\ Piece(R, V, D, G[m + 1], T[m], T[m + 1])
    BY <2>1
  <2>3. T[0] <= T[m] /\ Piece(R, V, D, F(m), T[0], T[m])
    BY <1>3
  <2>4. ASSUME NEW r \in R
        PROVE  FlattenSeq([i \in 1 .. m + 1 |-> G[i][r]])
                 = FlattenSeq([i \in 1 .. m |-> G[i][r]]) \o G[m + 1][r]
    <3> DEFINE s == [i \in 1 .. m |-> G[i][r]]
               u == [i \in 1 .. m + 1 |-> G[i][r]]
               e == G[m + 1][r]
    <3>1. s \in Seq(Seq(OpSet)) /\ e \in Seq(OpSet) /\ Len(s) = m
      BY <1>1
    <3>2. u = Append(s, e)
      <4> DEFINE v == Append(s, e)
      <4>1. /\ v \in Seq(Seq(OpSet)) /\ Len(v) = m + 1 /\ v[m + 1] = e
            /\ \A i \in 1 .. m : v[i] = s[i]
        BY <3>1, AppendProperties
      <4>2. v = [i \in 1 .. m + 1 |-> v[i]]
        BY <4>1
      <4>3. \A i \in 1 .. m + 1 : v[i] = G[i][r]
        BY <4>1
      <4> HIDE DEF v
      <4> QED BY <4>2, <4>3 DEF v
    <3> HIDE DEF s, u, e
    <3>3. FlattenSeq(Append(s, e)) = FlattenSeq(s) \o e
      BY <3>1, FlattenAppend
    <3> QED BY <3>2, <3>3 DEF s, u, e
  <2>5. F(m + 1) = [r \in R |-> F(m)[r] \o G[m + 1][r]]
    BY <2>4 DEF Loop
  <2> HIDE DEF F
  <2>6. F(m + 1) = Then(F(m), G[m + 1])
    <3>1. DOMAIN F(m) = R
      BY DEF F, Loop
    <3> QED BY <2>5, <3>1 DEF Then
  <2>7. T[0] \in Nat /\ T[m] \in Nat /\ T[m + 1] \in Nat
    BY <2>1
  <2>8. T[0] <= T[m + 1]
    BY <2>2, <2>3, <2>7
  <2> QED BY <2>2, <2>3, <2>6, <2>7, <2>8, PieceThen
<1> HIDE DEF N, F
<1>4. Nat \subseteq N
  BY <1>2, <1>3, Induction
<1>5. T[0] <= T[n] /\ Piece(R, V, D, F(n), T[0], T[n])
  BY <1>4 DEF N
<1> QED BY <1>5 DEF F

-----------------------------------------------------------------------------
(***************************************************************************)
(* The operation as a record.                                              *)
(***************************************************************************)
Entry(op, peer, tag, x, i, ph) ==
  [op |-> op, peer |-> peer, tag |-> tag, what |-> <<x, i>>, iter |-> i, time |-> 16 * i + ph]

(***************************************************************************)
(* An iteration, from what it is at each rank and index.  The messages are *)
(* quadruples: the sender, the index of the send, the receiver and the     *)
(* index of the receive.                                                   *)
(***************************************************************************)
Steps(s, i) ==
  \A k \in 1 .. Len(s) :
    /\ s[k].iter = i /\ 16 * i <= s[k].time /\ s[k].time < 16 * i + 15
    /\ s[k].op # "barrier"
    /\ \A l \in 1 .. Len(s) : k <= l => s[k].time <= s[l].time
    /\ s[k].op \in {"isend", "irecv"} =>
         \E l \in 1 .. Len(s) : k < l /\ s[l].op \in Waits /\ s[k].op \in Awaited(s[l].op)

(***************************************************************************)
(* What waits for operation k of s comes after the time t.                 *)
(***************************************************************************)
Await(s, k, t) ==
  \A l \in 1 .. Len(s) :
    k < l /\ s[l].op \in Waits /\ s[k].op \in Awaited(s[l].op) => t < s[l].time

(***************************************************************************)
(* What a body of a loop is for each rank on its own.                      *)
(***************************************************************************)
Local(R, p, i, D) ==
  /\ p \in [R -> Seq(OpSet)]
  /\ \A r \in R : Steps(p[r], i)
  /\ \A r \in R : \A k \in 1 .. Len(p[r]) :
       p[r][k].op = "isend" => D = {} \/ <<r, p[r][k].peer>> \in D

(***************************************************************************)
(* The send k of rank r meets the receive l of rank q, whose programs are  *)
(* s and t: they mean the same, no other channel fits, and neither is      *)
(* waited for before the other is called.                                  *)
(***************************************************************************)
Meeting(V, s, r, k, t, q, l) ==
  /\ k \in 1 .. Len(s) /\ s[k].op = "isend"
  /\ l \in 1 .. Len(t) /\ t[l].op = "irecv"
  /\ s[k].what = t[l].what
  /\ <<r, s[k].peer, s[k].tag>> \in V
  /\ \A v \in V :
       q = v[2] /\ t[l].peer \in {v[1], ANY} /\ t[l].tag \in {v[3], ANY}
         <=> v = <<r, s[k].peer, s[k].tag>>
  /\ Await(s, k, t[l].time) /\ Await(t, l, s[k].time)

(***************************************************************************)
(* Q are the messages of a body: quadruples of the sender, its operation,  *)
(* the receiver and its operation.                                         *)
(***************************************************************************)
Messages(R, V, p, Q, D) ==
  /\ \A u \in Q : /\ u = <<u[1], u[2], u[3], u[4]>> /\ u[1] \in R /\ u[3] \in R
                  /\ Meeting(V, p[u[1]], u[1], u[2], p[u[3]], u[3], u[4])
  /\ \A r \in R : \A k \in 1 .. Len(p[r]) :
       /\ p[r][k].op = "isend" => \E u \in Q : u[1] = r /\ u[2] = k
       /\ p[r][k].op = "irecv" => \E u \in Q : u[3] = r /\ u[4] = k
  /\ \A u, v \in Q :
       (u[1] = v[1] /\ p[u[1]][u[2]].peer = p[v[1]][v[2]].peer
          /\ p[u[1]][u[2]].tag = p[v[1]][v[2]].tag)
         => (u[2] < v[2] <=> u[4] < v[4])
  /\ \A e \in D : \A S \in SUBSET R :
       e[1] \in S /\ e[2] \notin S => \E u \in Q : u[3] \in S /\ u[1] \notin S

(***************************************************************************)
(* A body whose messages meet is a piece.                                  *)
(***************************************************************************)
LEMMA BodyPiece ==
  ASSUME NEW R, NEW V, NEW D, NEW p, NEW i \in Nat, NEW Q,
         Local(R, p, i, D), Messages(R, V, p, Q, D)
  PROVE  Piece(R, V, D, p, 16 * i, 16 * i + 15)
<1>1. p \in [R -> Seq(OpSet)] /\ DOMAIN p = R
  BY DEF Local
<1>2. ASSUME NEW x \in Operations(p)
      PROVE  /\ x = <<x[1], x[2]>> /\ x[1] \in R /\ x[2] \in 1 .. Len(p[x[1]])
             /\ OpOf(p, x) = p[x[1]][x[2]] /\ OpOf(p, x).time \in Nat /\ OpOf(p, x).op \in Kinds
  <2>1. x = <<x[1], x[2]>> /\ x[1] \in R /\ x[2] \in 1 .. Len(p[x[1]])
    BY <1>1, OperationsAre
  <2>2. OpOf(p, x) \in OpSet
    BY <1>1, LaterOps
  <2> QED BY <2>1, <2>2 DEF OpOf, OpSet
<1>3. ASSUME NEW r \in R, NEW k \in 1 .. Len(p[r])
      PROVE  <<r, k>> \in Operations(p) /\ OpOf(p, <<r, k>>) = p[r][k]
  <2>1. <<r, k>>[1] = r /\ <<r, k>>[2] = k
    OBVIOUS
  <2> QED BY <1>1, <2>1, OperationsAre DEF OpOf
<1>4. \A x \in Operations(p) :
        /\ OpOf(p, x).iter = i /\ 16 * i <= OpOf(p, x).time /\ OpOf(p, x).time < 16 * i + 15
        /\ OpOf(p, x).op # "barrier"
  <2> SUFFICES ASSUME NEW x \in Operations(p)
               PROVE  /\ OpOf(p, x).iter = i /\ 16 * i <= OpOf(p, x).time
                      /\ OpOf(p, x).time < 16 * i + 15 /\ OpOf(p, x).op # "barrier"
    OBVIOUS
  <2>1. x[1] \in R /\ x[2] \in 1 .. Len(p[x[1]]) /\ OpOf(p, x) = p[x[1]][x[2]]
    BY <1>2
  <2> QED BY <2>1 DEF Local, Steps
<1>5. OfKinds(p, {"barrier"}) = {}
  BY <1>4 DEF OfKinds
<1>6. Within(p, 16 * i, 16 * i + 15) /\ Together(p) /\ InTime(p)
  BY <1>2, <1>4, <1>5 DEF Within, Together, InTime
<1>7. Sorted(p)
  <2> SUFFICES ASSUME NEW x \in Operations(p), NEW y \in Operations(p), x[1] = y[1], x[2] <= y[2]
               PROVE  OpOf(p, x).time <= OpOf(p, y).time
    BY DEF Sorted
  <2> QED BY <1>2 DEF Local, Steps
<1>8. WaitedFor(p)
  <2> SUFFICES ASSUME NEW x \in OfKinds(p, {"isend", "irecv"})
               PROVE  \E w \in Operations(p) :
                        /\ AwaitedBy(p, x, w)
                        /\ \A k \in x[2] .. w[2] : p[x[1]][k].iter = OpOf(p, x).iter
    BY DEF WaitedFor
  <2>1. x \in Operations(p) /\ OpOf(p, x).op \in {"isend", "irecv"}
    BY DEF OfKinds
  <2> DEFINE r == x[1]
             k == x[2]
  <2>2. r \in R /\ k \in 1 .. Len(p[r]) /\ OpOf(p, x) = p[r][k]
    BY <1>2, <2>1
  <2>3. PICK l \in 1 .. Len(p[r]) :
          k < l /\ p[r][l].op \in Waits /\ p[r][k].op \in Awaited(p[r][l].op)
    BY <2>1, <2>2 DEF Local, Steps
  <2>4. <<r, l>> \in Operations(p) /\ OpOf(p, <<r, l>>) = p[r][l]
    BY <1>3, <2>2, <2>3
  <2>5. AwaitedBy(p, x, <<r, l>>)
    BY <2>2, <2>3, <2>4 DEF AwaitedBy
  <2>6. ASSUME NEW j \in x[2] .. <<r, l>>[2] PROVE p[r][j].iter = OpOf(p, x).iter
    <3>1. j \in 1 .. Len(p[r])
      <4>1. Len(p[r]) \in Nat /\ j \in k .. l
        BY <1>1, <2>2
      <4> HIDE DEF r, k
      <4> QED BY <2>2, <2>3, <4>1
    <3>2. p[r][j].iter = i /\ p[r][k].iter = i
      BY <2>2, <3>1 DEF Local, Steps
    <3> QED BY <2>2, <3>2
  <2> DEFINE w == <<r, l>>
  <2>7. w \in Operations(p) /\ AwaitedBy(p, x, w)
        /\ \A j \in x[2] .. w[2] : p[r][j].iter = OpOf(p, x).iter
    BY <2>4, <2>5, <2>6
  <2> HIDE DEF w
  <2> QED BY <2>7 DEF r
<1>9. Along(p, D)
  <2> SUFFICES ASSUME D # {}, NEW x \in OfKinds(p, {"isend"})
               PROVE  <<x[1], OpOf(p, x).peer>> \in D
    BY DEF Along
  <2>1. x \in Operations(p) /\ OpOf(p, x).op = "isend"
    BY DEF OfKinds
  <2> QED BY <1>2, <2>1 DEF Local
<1> DEFINE M == {<<<<u[1], u[2]>>, <<u[3], u[4]>>>> : u \in Q}
<1>10. ASSUME NEW u \in Q
       PROVE  /\ <<u[1], u[2]>> \in OfKinds(p, {"isend"}) /\ <<u[3], u[4]>> \in OfKinds(p, {"irecv"})
              /\ <<u[1], u[2]>> \in Operations(p) /\ <<u[3], u[4]>> \in Operations(p)
              /\ OpOf(p, <<u[1], u[2]>>) = p[u[1]][u[2]]
              /\ OpOf(p, <<u[3], u[4]>>) = p[u[3]][u[4]]
              /\ <<<<u[1], u[2]>>, <<u[3], u[4]>>>> \in M
  <2>1. /\ u[1] \in R /\ u[2] \in 1 .. Len(p[u[1]]) /\ p[u[1]][u[2]].op = "isend"
        /\ u[3] \in R /\ u[4] \in 1 .. Len(p[u[3]]) /\ p[u[3]][u[4]].op = "irecv"
    BY DEF Messages, Meeting
  <2>2. /\ <<u[1], u[2]>> \in Operations(p) /\ OpOf(p, <<u[1], u[2]>>) = p[u[1]][u[2]]
        /\ <<u[3], u[4]>> \in Operations(p) /\ OpOf(p, <<u[3], u[4]>>) = p[u[3]][u[4]]
    BY <1>3, <2>1
  <2> QED BY <2>1, <2>2 DEF OfKinds
<1>11. ASSUME NEW m \in M
       PROVE  \E u \in Q : /\ m = <<m[1], m[2]>> /\ m[1] = <<u[1], u[2]>> /\ m[2] = <<u[3], u[4]>>
                           /\ m[1][1] = u[1] /\ m[1][2] = u[2] /\ m[2][1] = u[3] /\ m[2][2] = u[4]
  OBVIOUS
<1> HIDE DEF M
<1>12. M \subseteq OfKinds(p, {"isend"}) \X OfKinds(p, {"irecv"})
  <2> SUFFICES ASSUME NEW m \in M PROVE m \in OfKinds(p, {"isend"}) \X OfKinds(p, {"irecv"})
    OBVIOUS
  <2>1. PICK u \in Q : m = <<m[1], m[2]>> /\ m[1] = <<u[1], u[2]>> /\ m[2] = <<u[3], u[4]>>
    BY <1>11
  <2>2. m[1] \in OfKinds(p, {"isend"}) /\ m[2] \in OfKinds(p, {"irecv"})
    BY <1>10, <2>1
  <2> QED BY <2>1, <2>2
<1>13. \A x \in OfKinds(p, {"isend"}) : \E y : <<x, y>> \in M
  <2> SUFFICES ASSUME NEW x \in OfKinds(p, {"isend"}) PROVE \E y : <<x, y>> \in M
    OBVIOUS
  <2>1. x \in Operations(p) /\ OpOf(p, x).op = "isend"
    BY DEF OfKinds
  <2>2. x = <<x[1], x[2]>> /\ x[1] \in R /\ x[2] \in 1 .. Len(p[x[1]]) /\ p[x[1]][x[2]].op = "isend"
    BY <1>2, <2>1
  <2>3. PICK u \in Q : u[1] = x[1] /\ u[2] = x[2]
    BY <2>2 DEF Messages
  <2>4. <<x, <<u[3], u[4]>>>> \in M
    BY <1>10, <2>2, <2>3
  <2> QED BY <2>4
<1>14. \A y \in OfKinds(p, {"irecv"}) : \E x : <<x, y>> \in M
  <2> SUFFICES ASSUME NEW y \in OfKinds(p, {"irecv"}) PROVE \E x : <<x, y>> \in M
    OBVIOUS
  <2>1. y \in Operations(p) /\ OpOf(p, y).op = "irecv"
    BY DEF OfKinds
  <2>2. y = <<y[1], y[2]>> /\ y[1] \in R /\ y[2] \in 1 .. Len(p[y[1]]) /\ p[y[1]][y[2]].op = "irecv"
    BY <1>2, <2>1
  <2>3. PICK u \in Q : u[3] = y[1] /\ u[4] = y[2]
    BY <2>2 DEF Messages
  <2>4. <<<<u[1], u[2]>>, y>> \in M
    BY <1>10, <2>2, <2>3
  <2> QED BY <2>4
<1>15. \A m \in M : /\ Channel(p, m[1]) \in V
                    /\ \A v \in V : Takes(p, m[2], v) <=> v = Channel(p, m[1])
                    /\ OpOf(p, m[1]).what = OpOf(p, m[2]).what
                    /\ OpOf(p, m[1]).iter = OpOf(p, m[2]).iter
  <2> SUFFICES ASSUME NEW m \in M
               PROVE  /\ Channel(p, m[1]) \in V
                      /\ \A v \in V : Takes(p, m[2], v) <=> v = Channel(p, m[1])
                      /\ OpOf(p, m[1]).what = OpOf(p, m[2]).what
                      /\ OpOf(p, m[1]).iter = OpOf(p, m[2]).iter
    OBVIOUS
  <2>1. PICK u \in Q : /\ m[1] = <<u[1], u[2]>> /\ m[2] = <<u[3], u[4]>>
                       /\ m[1][1] = u[1] /\ m[2][1] = u[3]
    BY <1>11
  <2>2. /\ m[1] \in Operations(p) /\ m[2] \in Operations(p)
        /\ OpOf(p, m[1]) = p[u[1]][u[2]] /\ OpOf(p, m[2]) = p[u[3]][u[4]]
    BY <1>10, <2>1
  <2>3. /\ p[u[1]][u[2]].what = p[u[3]][u[4]].what
        /\ <<u[1], p[u[1]][u[2]].peer, p[u[1]][u[2]].tag>> \in V
        /\ \A v \in V :
            (/\ u[3] = v[2] /\ p[u[3]][u[4]].peer \in {v[1], ANY}
             /\ p[u[3]][u[4]].tag \in {v[3], ANY})
              <=> v = <<u[1], p[u[1]][u[2]].peer, p[u[1]][u[2]].tag>>
    BY DEF Messages, Meeting
  <2>4. Channel(p, m[1]) = <<u[1], p[u[1]][u[2]].peer, p[u[1]][u[2]].tag>>
    BY <2>1, <2>2 DEF Channel
  <2>5. ASSUME NEW v \in V
        PROVE  Takes(p, m[2], v) <=> /\ u[3] = v[2] /\ p[u[3]][u[4]].peer \in {v[1], ANY}
                                     /\ p[u[3]][u[4]].tag \in {v[3], ANY}
    BY <2>1, <2>2 DEF Takes
  <2> QED BY <1>4, <2>2, <2>3, <2>4, <2>5
<1>16. \A m, n \in M : Channel(p, m[1]) = Channel(p, n[1]) =>
                         (m[1][2] < n[1][2] <=> m[2][2] < n[2][2])
  <2> SUFFICES ASSUME NEW m \in M, NEW n \in M, Channel(p, m[1]) = Channel(p, n[1])
               PROVE  m[1][2] < n[1][2] <=> m[2][2] < n[2][2]
    OBVIOUS
  <2>1. PICK u \in Q : /\ m[1] = <<u[1], u[2]>> /\ m[1][1] = u[1] /\ m[1][2] = u[2] /\ m[2][2] = u[4]
    BY <1>11
  <2>2. PICK v \in Q : /\ n[1] = <<v[1], v[2]>> /\ n[1][1] = v[1] /\ n[1][2] = v[2] /\ n[2][2] = v[4]
    BY <1>11
  <2>3. OpOf(p, m[1]) = p[u[1]][u[2]] /\ OpOf(p, n[1]) = p[v[1]][v[2]]
    BY <1>10, <2>1, <2>2
  <2>4. /\ u[1] = v[1] /\ p[u[1]][u[2]].peer = p[v[1]][v[2]].peer
        /\ p[u[1]][u[2]].tag = p[v[1]][v[2]].tag
    BY <2>1, <2>2, <2>3 DEF Channel
  <2>5. u[2] < v[2] <=> u[4] < v[4]
    BY <2>4 DEF Messages
  <2> QED BY <2>1, <2>2, <2>5
<1>17. \A m \in M : \A w \in Operations(p) :
         /\ AwaitedBy(p, m[1], w) => OpOf(p, m[2]).time < OpOf(p, w).time
         /\ AwaitedBy(p, m[2], w) => OpOf(p, m[1]).time < OpOf(p, w).time
  <2> SUFFICES ASSUME NEW m \in M, NEW w \in Operations(p)
               PROVE  /\ AwaitedBy(p, m[1], w) => OpOf(p, m[2]).time < OpOf(p, w).time
                      /\ AwaitedBy(p, m[2], w) => OpOf(p, m[1]).time < OpOf(p, w).time
    OBVIOUS
  <2>1. PICK u \in Q : /\ m[1] = <<u[1], u[2]>> /\ m[1][1] = u[1] /\ m[1][2] = u[2]
                       /\ m[2] = <<u[3], u[4]>> /\ m[2][1] = u[3] /\ m[2][2] = u[4]
    BY <1>11
  <2>2. OpOf(p, m[1]) = p[u[1]][u[2]] /\ OpOf(p, m[2]) = p[u[3]][u[4]]
    BY <1>10, <2>1
  <2>3. /\ Await(p[u[1]], u[2], p[u[3]][u[4]].time)
        /\ Await(p[u[3]], u[4], p[u[1]][u[2]].time)
    BY DEF Messages, Meeting
  <2>4. OpOf(p, w) = p[w[1]][w[2]] /\ w[2] \in 1 .. Len(p[w[1]])
    BY <1>2
  <2> QED BY <2>1, <2>2, <2>3, <2>4 DEF AwaitedBy, Await
<1>18. Pairs(p, V, M)
  BY <1>12, <1>13, <1>14, <1>15, <1>16, <1>17 DEF Pairs
<1>19. Listens(p, M, D, 16 * i, 16 * i + 15)
  <2> SUFFICES ASSUME NEW j \in Nat, 16 * i <= 16 * j, 16 * j < 16 * i + 15,
                      NEW e \in D, NEW S \in SUBSET R, e[1] \in S, e[2] \notin S
               PROVE  \E m \in M : m[2][1] \in S /\ m[1][1] \notin S /\ OpOf(p, m[2]).iter = j
    BY <1>1 DEF Listens, Hears
  <2>1. j = i
    OBVIOUS
  <2>2. PICK u \in Q : u[3] \in S /\ u[1] \notin S
    BY DEF Messages
  <2> DEFINE m == <<<<u[1], u[2]>>, <<u[3], u[4]>>>>
  <2>3. m \in M /\ m[2] \in Operations(p)
    BY <1>10
  <2> QED BY <1>4, <2>1, <2>2, <2>3
<1> QED BY <1>1, <1>6, <1>7, <1>8, <1>9, <1>18, <1>19 DEF Piece

(***************************************************************************)
(* The ranks of L and those of H are partners of each other.               *)
(***************************************************************************)
Partners(R, L, H, f) ==
  /\ L \subseteq R /\ H \subseteq R /\ L \cap H = {}
  /\ \A r \in L : f[r] \in H
  /\ \A r \in H : f[r] \in L
  /\ \A r \in L \cup H : f[f[r]] = r

(***************************************************************************)
(* Partners are kept in step.                                              *)
(***************************************************************************)
Linked(D, P, f) ==
  /\ \A e \in D : e[1] # e[2] => e[1] \in P /\ e[2] = f[e[1]]
  /\ \A r \in P : D = {} \/ <<r, f[r]>> \in D

(***************************************************************************)
(* The messages from r to its partner, as pairs of the indices of the send *)
(* and of the receive.                                                     *)
(***************************************************************************)
Sends(V, p, r, q, N) ==
  /\ \A n \in N : n = <<n[1], n[2]>> /\ Meeting(V, p[r], r, n[1], p[q], q, n[2])
  /\ \A k \in 1 .. Len(p[r]) :
       p[r][k].op = "isend" => p[r][k].peer = q /\ \E n \in N : n[1] = k
  /\ \A l \in 1 .. Len(p[q]) : p[q][l].op = "irecv" => \E n \in N : n[2] = l

(***************************************************************************)
(* The pairs N have their first and their second members in the same       *)
(* order.                                                                  *)
(***************************************************************************)
InOrder(N) == \A m, n \in N : m[1] < n[1] <=> m[2] < n[2]

(***************************************************************************)
(* Ranks L and H, partners by f: those in L send by the pairs N, those in  *)
(* H by O, the others do nothing.                                          *)
(***************************************************************************)
PairBodies(R, V, p, i, L, H, f, N, O) ==
  /\ p \in [R -> Seq(OpSet)]
  /\ \A r \in R : r \notin L /\ r \notin H => p[r] = <<>>
  /\ \A r \in L \cup H : Steps(p[r], i)
  /\ \A r \in L : Sends(V, p, r, f[r], N)
  /\ \A r \in H : Sends(V, p, r, f[r], O)

(***************************************************************************)
(* Then it is a piece.                                                     *)
(***************************************************************************)
LEMMA PairBody ==
  ASSUME NEW R, NEW V, NEW D, NEW p, NEW L, NEW H, NEW f, Partners(R, L, H, f),
         Linked(D, L \cup H, f), NEW i \in Nat, NEW N, NEW O,
         PairBodies(R, V, p, i, L, H, f, N, O), InOrder(N), InOrder(O),
         D = {} \/ (N # {} /\ O # {})
  PROVE  Piece(R, V, D, p, 16 * i, 16 * i + 15)
<1> DEFINE Quiet == \A r \in R : r \notin L /\ r \notin H => p[r] = <<>>
<1>0. /\ p \in [R -> Seq(OpSet)] /\ Quiet
      /\ \A r \in L \cup H : Steps(p[r], i)
      /\ \A r \in L : Sends(V, p, r, f[r], N)
      /\ \A r \in H : Sends(V, p, r, f[r], O)
  BY DEF PairBodies
<1>1. Local(R, p, i, D)
  <2>1. ASSUME NEW r \in R PROVE Steps(p[r], i)
    <3>1. CASE r \notin L /\ r \notin H
      <4>1. p[r] = <<>> /\ Len(<<>>) = 0
        BY <1>0, <3>1
      <4> QED BY <4>1 DEF Steps
    <3> QED BY <1>0, <3>1
  <2>2. ASSUME NEW r \in R, NEW k \in 1 .. Len(p[r]), p[r][k].op = "isend"
        PROVE  D = {} \/ <<r, p[r][k].peer>> \in D
    <3>1. r \in L \cup H
      <4>1. Len(<<>>) = 0
        OBVIOUS
      <4> QED BY <1>0, <4>1
    <3>2. p[r][k].peer = f[r]
      BY <1>0, <2>2, <3>1 DEF Sends
    <3> QED BY <3>1, <3>2 DEF Linked
  <2> QED BY <1>0, <2>1, <2>2 DEF Local
<1> DEFINE A == {<<e[1], e[2][1], f[e[1]], e[2][2]>> : e \in L \X N}
           B == {<<e[1], e[2][1], f[e[1]], e[2][2]>> : e \in H \X O}
           Q == A \cup B
<1>2. ASSUME NEW r \in L, NEW n \in N
      PROVE  <<r, n[1], f[r], n[2]>> \in Q
  <2>1. <<r, n>> \in L \X N /\ <<r, n>>[1] = r /\ <<r, n>>[2] = n
    OBVIOUS
  <2> QED BY <2>1
<1>3. ASSUME NEW r \in H, NEW n \in O
      PROVE  <<r, n[1], f[r], n[2]>> \in Q
  <2>1. <<r, n>> \in H \X O /\ <<r, n>>[1] = r /\ <<r, n>>[2] = n
    OBVIOUS
  <2> QED BY <2>1
<1>4. ASSUME NEW u \in Q
      PROVE  /\ u = <<u[1], u[2], u[3], u[4]>> /\ u[3] = f[u[1]]
             /\ \/ u[1] \in L /\ \E n \in N : u[2] = n[1] /\ u[4] = n[2]
                \/ u[1] \in H /\ \E n \in O : u[2] = n[1] /\ u[4] = n[2]
  <2>1. CASE u \in A
    <3>1. PICK e \in L \X N : u = <<e[1], e[2][1], f[e[1]], e[2][2]>>
      BY <2>1
    <3>2. e[1] \in L /\ e[2] \in N /\ u[1] = e[1] /\ u[2] = e[2][1] /\ u[3] = f[e[1]] /\ u[4] = e[2][2]
      BY <3>1
    <3> QED BY <3>1, <3>2
  <2>2. CASE u \in B
    <3>1. PICK e \in H \X O : u = <<e[1], e[2][1], f[e[1]], e[2][2]>>
      BY <2>2
    <3>2. e[1] \in H /\ e[2] \in O /\ u[1] = e[1] /\ u[2] = e[2][1] /\ u[3] = f[e[1]] /\ u[4] = e[2][2]
      BY <3>1
    <3> QED BY <3>1, <3>2
  <2> QED BY <2>1, <2>2
<1> HIDE DEF Q, A, B
<1>5. /\ L \subseteq R /\ H \subseteq R /\ L \cap H = {}
      /\ \A r \in L : f[r] \in H /\ f[f[r]] = r
      /\ \A r \in H : f[r] \in L /\ f[f[r]] = r
  BY DEF Partners
<1>6. ASSUME NEW u \in Q
      PROVE  /\ u = <<u[1], u[2], u[3], u[4]>> /\ u[1] \in R /\ u[3] \in R
             /\ Meeting(V, p[u[1]], u[1], u[2], p[u[3]], u[3], u[4])
  <2>1. CASE u[1] \in L /\ \E n \in N : u[2] = n[1] /\ u[4] = n[2]
    <3>1. PICK n \in N : u[2] = n[1] /\ u[4] = n[2]
      BY <2>1
    <3>2. Sends(V, p, u[1], f[u[1]], N)
      BY <1>0, <2>1
    <3>3. Meeting(V, p[u[1]], u[1], n[1], p[f[u[1]]], f[u[1]], n[2])
      BY <3>2 DEF Sends
    <3> QED BY <1>4, <1>5, <2>1, <3>1, <3>3
  <2>2. CASE u[1] \in H /\ \E n \in O : u[2] = n[1] /\ u[4] = n[2]
    <3>1. PICK n \in O : u[2] = n[1] /\ u[4] = n[2]
      BY <2>2
    <3>2. Sends(V, p, u[1], f[u[1]], O)
      BY <1>0, <2>2
    <3>3. Meeting(V, p[u[1]], u[1], n[1], p[f[u[1]]], f[u[1]], n[2])
      BY <3>2 DEF Sends
    <3> QED BY <1>4, <1>5, <2>2, <3>1, <3>3
  <2> QED BY <1>4, <2>1, <2>2
<1>7. ASSUME NEW r \in R, NEW k \in 1 .. Len(p[r])
      PROVE  /\ p[r][k].op = "isend" => \E u \in Q : u[1] = r /\ u[2] = k
             /\ p[r][k].op = "irecv" => \E u \in Q : u[3] = r /\ u[4] = k
  <2>1. r \in L \/ r \in H
    <3>1. Len(<<>>) = 0
      OBVIOUS
    <3> QED BY <1>0, <3>1
  <2>2. ASSUME p[r][k].op = "isend" PROVE \E u \in Q : u[1] = r /\ u[2] = k
    <3>1. CASE r \in L
      <4>1. PICK n \in N : n[1] = k
        BY <1>0, <2>2, <3>1 DEF Sends
      <4>2. <<r, n[1], f[r], n[2]>> \in Q
        BY <1>2, <3>1
      <4> QED BY <4>1, <4>2
    <3>2. CASE r \in H
      <4>1. PICK n \in O : n[1] = k
        BY <1>0, <2>2, <3>2 DEF Sends
      <4>2. <<r, n[1], f[r], n[2]>> \in Q
        BY <1>3, <3>2
      <4> QED BY <4>1, <4>2
    <3> QED BY <2>1, <3>1, <3>2
  <2>3. ASSUME p[r][k].op = "irecv" PROVE \E u \in Q : u[3] = r /\ u[4] = k
    <3>1. CASE r \in L
      <4> DEFINE q == f[r]
      <4>1. q \in H /\ f[q] = r
        BY <1>5, <3>1
      <4>2. PICK n \in O : n[2] = k
        BY <1>0, <2>3, <4>1 DEF Sends
      <4> DEFINE u == <<q, n[1], f[q], n[2]>>
      <4>3. u \in Q /\ u[3] = f[q] /\ u[4] = n[2]
        BY <1>3, <4>1
      <4> HIDE DEF u, q
      <4> QED BY <4>1, <4>2, <4>3
    <3>2. CASE r \in H
      <4> DEFINE q == f[r]
      <4>1. q \in L /\ f[q] = r
        BY <1>5, <3>2
      <4>2. PICK n \in N : n[2] = k
        BY <1>0, <2>3, <4>1 DEF Sends
      <4> DEFINE u == <<q, n[1], f[q], n[2]>>
      <4>3. u \in Q /\ u[3] = f[q] /\ u[4] = n[2]
        BY <1>2, <4>1
      <4> HIDE DEF u, q
      <4> QED BY <4>1, <4>2, <4>3
    <3> QED BY <2>1, <3>1, <3>2
  <2> QED BY <2>2, <2>3
<1>8. ASSUME NEW u \in Q, NEW v \in Q, u[1] = v[1]
      PROVE  u[2] < v[2] <=> u[4] < v[4]
  <2>1. CASE u[1] \in L
    BY <1>4, <1>5, <1>8, <2>1 DEF InOrder
  <2>2. CASE u[1] \in H
    BY <1>4, <1>5, <1>8, <2>2 DEF InOrder
  <2> QED BY <1>4, <2>1, <2>2
<1>9. ASSUME NEW e \in D, NEW S \in SUBSET R, e[1] \in S, e[2] \notin S
      PROVE  \E u \in Q : u[3] \in S /\ u[1] \notin S
  <2>1. e[1] \in L \cup H /\ e[2] = f[e[1]]
    BY <1>9 DEF Linked
  <2> DEFINE r == e[1]
             q == f[r]
  <2>2. CASE r \in L
    <3>1. q \in H /\ f[q] = r
      BY <1>5, <2>2
    <3>2. PICK n \in O : TRUE
      BY <1>9
    <3> DEFINE u == <<q, n[1], f[q], n[2]>>
    <3>3. u \in Q /\ u[1] = q /\ u[3] = f[q]
      BY <1>3, <3>1
    <3>4. u[3] = e[1] /\ u[1] = e[2]
      BY <2>1, <3>1, <3>3
    <3> HIDE DEF u
    <3> QED BY <1>9, <3>3, <3>4
  <2>3. CASE r \in H
    <3>1. q \in L /\ f[q] = r
      BY <1>5, <2>3
    <3>2. PICK n \in N : TRUE
      BY <1>9
    <3> DEFINE u == <<q, n[1], f[q], n[2]>>
    <3>3. u \in Q /\ u[1] = q /\ u[3] = f[q]
      BY <1>2, <3>1
    <3>4. u[3] = e[1] /\ u[1] = e[2]
      BY <2>1, <3>1, <3>3
    <3> HIDE DEF u
    <3> QED BY <1>9, <3>3, <3>4
  <2> QED BY <2>1, <2>2, <2>3
<1>10. Messages(R, V, p, Q, D)
  <2>1. /\ \A u \in Q : /\ u = <<u[1], u[2], u[3], u[4]>> /\ u[1] \in R /\ u[3] \in R
                        /\ Meeting(V, p[u[1]], u[1], u[2], p[u[3]], u[3], u[4])
        /\ \A u, v \in Q : u[1] = v[1] => (u[2] < v[2] <=> u[4] < v[4])
    BY <1>6, <1>8
  <2>2. \A e \in D : \A S \in SUBSET R :
          e[1] \in S /\ e[2] \notin S => \E u \in Q : u[3] \in S /\ u[1] \notin S
    BY <1>9
  <2>3. \A r \in R : \A k \in 1 .. Len(p[r]) :
          /\ p[r][k].op = "isend" => \E u \in Q : u[1] = r /\ u[2] = k
          /\ p[r][k].op = "irecv" => \E u \in Q : u[3] = r /\ u[4] = k
    BY <1>7
  <2>4. \A u, v \in Q :
          (u[1] = v[1] /\ p[u[1]][u[2]].peer = p[v[1]][v[2]].peer
             /\ p[u[1]][u[2]].tag = p[v[1]][v[2]].tag)
            => (u[2] < v[2] <=> u[4] < v[4])
    BY <1>8
  <2> QED BY <2>1, <2>2, <2>3, <2>4 DEF Messages
<1> QED BY <1>1, <1>10, BodyPiece

(***************************************************************************)
(* A receive of rank q that means the messages with the tag from r only.   *)
(***************************************************************************)
Meant(V, q, source, anytag, r, tag) ==
  /\ <<r, q, tag>> \in V
  /\ \A v \in V : (q = v[2] /\ source \in {v[1], ANY} /\ anytag \in {v[3], ANY}) <=> v = <<r, q, tag>>

(***************************************************************************)
(* When a send meets a receive, by what each has.                          *)
(***************************************************************************)
LEMMA MeetingIs ==
  ASSUME NEW V, NEW s, NEW r, NEW k, NEW t, NEW q, NEW l,
         k \in 1 .. Len(s), s[k].op = "isend", s[k].peer = q,
         l \in 1 .. Len(t), t[l].op = "irecv", s[k].what = t[l].what,
         Meant(V, q, t[l].peer, t[l].tag, r, s[k].tag),
         Await(s, k, t[l].time), Await(t, l, s[k].time)
  PROVE  Meeting(V, s, r, k, t, q, l)
BY DEF Meeting, Meant

(***************************************************************************)
(* The sends and the receives of a rank in an iteration, by their indices. *)
(***************************************************************************)
Posts(s, i, K, d, tag, x, ph) ==
  \A k \in K :
    /\ k \in 1 .. Len(s) /\ s[k].op = "isend" /\ s[k].peer = d /\ s[k].tag = tag
    /\ s[k].what = <<x, i>> /\ s[k].time = 16 * i + ph /\ Await(s, k, 16 * i + ph)

(***************************************************************************)
(* At the indices J of s are receives from source with the tag anytag.     *)
(***************************************************************************)
Gets(s, i, J, source, anytag, x, ph) ==
  \A k \in J :
    /\ k \in 1 .. Len(s) /\ s[k].op = "irecv" /\ s[k].peer = source /\ s[k].tag = anytag
    /\ s[k].what = <<x, i>> /\ s[k].time = 16 * i + ph /\ Await(s, k, 16 * i + ph)

(***************************************************************************)
(* Sends are at the indices K of s only, and receives at J.                *)
(***************************************************************************)
Only(s, i, K, J) ==
  /\ s \in Seq(OpSet)
  /\ Steps(s, i)
  /\ \A k \in 1 .. Len(s) : /\ s[k].op = "isend" => k \in K
                            /\ s[k].op = "irecv" => k \in J

(***************************************************************************)
(* What is posted meets what is got.                                       *)
(***************************************************************************)
LEMMA PostMeets ==
  ASSUME NEW V, NEW r, NEW q, NEW s, NEW t, NEW i, NEW K, NEW J, NEW tag, NEW x, NEW ph,
         NEW source, NEW anytag, NEW k \in K, NEW l \in J,
         Posts(s, i, K, q, tag, x, ph), Gets(t, i, J, source, anytag, x, ph),
         Meant(V, q, source, anytag, r, tag)
  PROVE  Meeting(V, s, r, k, t, q, l)
<1>1. /\ k \in 1 .. Len(s) /\ s[k].op = "isend" /\ s[k].peer = q /\ s[k].tag = tag
      /\ s[k].what = <<x, i>> /\ s[k].time = 16 * i + ph /\ Await(s, k, 16 * i + ph)
  BY DEF Posts
<1>2. /\ l \in 1 .. Len(t) /\ t[l].op = "irecv" /\ t[l].peer = source /\ t[l].tag = anytag
      /\ t[l].what = <<x, i>> /\ t[l].time = 16 * i + ph /\ Await(t, l, 16 * i + ph)
  BY DEF Gets
<1>3. /\ s[k].what = t[l].what /\ Meant(V, q, t[l].peer, t[l].tag, r, s[k].tag)
      /\ Await(s, k, t[l].time) /\ Await(t, l, s[k].time)
  BY <1>1, <1>2
<1> QED BY <1>1, <1>2, <1>3, MeetingIs

(***************************************************************************)
(* Each rank of P means its receives for its partner.                      *)
(***************************************************************************)
Sources(V, P, f, source, tag, anytag) ==
  \A r \in P : Meant(V, r, source[r], anytag, f[r], tag)

(***************************************************************************)
(* The indices of the sends of the pairs N, and those of their receives.   *)
(***************************************************************************)
Firsts(N) == {n[1] : n \in N}

Seconds(N) == {n[2] : n \in N}

(***************************************************************************)
(* Pairs of ranks, the lower of which sends x in phase a and the upper y   *)
(* in phase b.                                                             *)
(***************************************************************************)
PairTalk(p, i, L, H, f, source, tag, anytag, N, x, a, O, y, b) ==
  /\ \A r \in L : /\ Only(p[r], i, Firsts(N), Seconds(O))
                  /\ Posts(p[r], i, Firsts(N), f[r], tag, x, a)
                  /\ Gets(p[r], i, Seconds(O), source[r], anytag, y, b)
  /\ \A r \in H : /\ Only(p[r], i, Firsts(O), Seconds(N))
                  /\ Posts(p[r], i, Firsts(O), f[r], tag, y, b)
                  /\ Gets(p[r], i, Seconds(N), source[r], anytag, x, a)

(***************************************************************************)
(* The ranks outside P do nothing.                                         *)
(***************************************************************************)
Quiet(R, p, P) == p \in [R -> Seq(OpSet)] /\ \A r \in R : r \notin P => p[r] = <<>>

(***************************************************************************)
(* A rank that posts by the pairs N to one that gets by N sends by N.      *)
(***************************************************************************)
LEMMA TalkSends ==
  ASSUME NEW V, NEW p, NEW i, NEW r, NEW q, NEW N, NEW J, NEW K, NEW tag, NEW x, NEW ph,
         NEW source, NEW anytag,
         Only(p[r], i, Firsts(N), J), Posts(p[r], i, Firsts(N), q, tag, x, ph),
         Only(p[q], i, K, Seconds(N)), Gets(p[q], i, Seconds(N), source, anytag, x, ph),
         Meant(V, q, source, anytag, r, tag),
         \A n \in N : n = <<n[1], n[2]>>
  PROVE  Sends(V, p, r, q, N)
<1>1. ASSUME NEW n \in N PROVE n = <<n[1], n[2]>> /\ Meeting(V, p[r], r, n[1], p[q], q, n[2])
  <2>1. n[1] \in Firsts(N) /\ n[2] \in Seconds(N)
    BY DEF Firsts, Seconds
  <2> QED BY <2>1, PostMeets
<1>2. ASSUME NEW k \in 1 .. Len(p[r]), p[r][k].op = "isend"
      PROVE  p[r][k].peer = q /\ \E n \in N : n[1] = k
  <2>1. k \in Firsts(N)
    BY <1>2 DEF Only
  <2>2. p[r][k].peer = q
    BY <2>1 DEF Posts
  <2>3. \E n \in N : n[1] = k
    BY <2>1 DEF Firsts
  <2> QED BY <2>2, <2>3
<1>3. ASSUME NEW l \in 1 .. Len(p[q]), p[q][l].op = "irecv"
      PROVE  \E n \in N : n[2] = l
  <2>1. l \in Seconds(N)
    BY <1>3 DEF Only
  <2> QED BY <2>1 DEF Seconds
<1> QED BY <1>1, <1>2, <1>3 DEF Sends

(***************************************************************************)
(* N are pairs in order.                                                   *)
(***************************************************************************)
Matched(N) == InOrder(N) /\ \A n \in N : n = <<n[1], n[2]>>

(***************************************************************************)
(* A body in which partners talk to each other is a piece.                 *)
(***************************************************************************)
LEMMA PairPiece ==
  ASSUME NEW R, NEW V, NEW D, NEW p, NEW L, NEW H, NEW f, Partners(R, L, H, f),
         Linked(D, L \cup H, f), NEW i \in Nat, NEW source, NEW tag, NEW anytag,
         NEW N, NEW x, NEW a, NEW O, NEW y, NEW b,
         Quiet(R, p, L \cup H),
         PairTalk(p, i, L, H, f, source, tag, anytag, N, x, a, O, y, b),
         Sources(V, L \cup H, f, source, tag, anytag),
         Matched(N), Matched(O), D = {} \/ (N # {} /\ O # {})
  PROVE  Piece(R, V, D, p, 16 * i, 16 * i + 15)
<1>1. ASSUME NEW r \in L PROVE Sends(V, p, r, f[r], N)
  <2> DEFINE q == f[r]
  <2>1. q \in H /\ f[q] = r
    BY DEF Partners
  <2>2. Meant(V, q, source[q], anytag, r, tag)
    BY <2>1 DEF Sources
  <2>3. Only(p[r], i, Firsts(N), Seconds(O)) /\ Posts(p[r], i, Firsts(N), q, tag, x, a)
    BY DEF PairTalk
  <2>4. Only(p[q], i, Firsts(O), Seconds(N)) /\ Gets(p[q], i, Seconds(N), source[q], anytag, x, a)
    BY <2>1 DEF PairTalk
  <2>5. \A n \in N : n = <<n[1], n[2]>>
    BY DEF Matched
  <2> HIDE DEF q
  <2> QED BY <2>2, <2>3, <2>4, <2>5, TalkSends DEF q
<1>2. ASSUME NEW r \in H PROVE Sends(V, p, r, f[r], O)
  <2> DEFINE q == f[r]
  <2>1. q \in L /\ f[q] = r
    BY DEF Partners
  <2>2. Meant(V, q, source[q], anytag, r, tag)
    BY <2>1 DEF Sources
  <2>3. Only(p[r], i, Firsts(O), Seconds(N)) /\ Posts(p[r], i, Firsts(O), q, tag, y, b)
    BY DEF PairTalk
  <2>4. Only(p[q], i, Firsts(N), Seconds(O)) /\ Gets(p[q], i, Seconds(O), source[q], anytag, y, b)
    BY <2>1 DEF PairTalk
  <2>5. \A n \in O : n = <<n[1], n[2]>>
    BY DEF Matched
  <2> HIDE DEF q
  <2> QED BY <2>2, <2>3, <2>4, <2>5, TalkSends DEF q
<1>3. ASSUME NEW r \in L \cup H PROVE Steps(p[r], i)
  BY DEF PairTalk, Only
<1>4. PairBodies(R, V, p, i, L, H, f, N, O)
  <2>1. /\ p \in [R -> Seq(OpSet)]
        /\ \A r \in R : r \notin L /\ r \notin H => p[r] = <<>>
    BY DEF Quiet
  <2> QED BY <1>1, <1>2, <1>3, <2>1 DEF PairBodies
<1>5. InOrder(N) /\ InOrder(O)
  BY DEF Matched
<1> QED BY <1>4, <1>5, PairBody

(***************************************************************************)
(* A ring: each rank of P sends to the next one in the same phase.  Where  *)
(* a rank is ahead of the one it sends to, some rank is ahead of the one   *)
(* it receives from.                                                       *)
(***************************************************************************)
Ring(R, P, next, last) ==
  /\ P \subseteq R
  /\ \A r \in P : /\ next[r] \in P /\ last[r] \in P
                  /\ last[next[r]] = r /\ next[last[r]] = r

(***************************************************************************)
(* The edges D of a ring: each rank has one to the next, and going round   *)
(* leaves no set of ranks without a rank whose last one is outside.        *)
(***************************************************************************)
Turning(R, D, P, next, last) ==
  /\ \A r \in P : D = {} \/ <<r, next[r]>> \in D
  /\ \A e \in D : \A S \in SUBSET R :
       e[1] \in S /\ e[2] \notin S => \E r \in P : r \in S /\ last[r] \notin S

(***************************************************************************)
(* In a ring each rank sends to the next one and gets from the last one.   *)
(***************************************************************************)
RingTalk(p, i, P, next, source, tag, anytag, N, x, a) ==
  \A r \in P : /\ Only(p[r], i, Firsts(N), Seconds(N))
               /\ Posts(p[r], i, Firsts(N), next[r], tag, x, a)
               /\ Gets(p[r], i, Seconds(N), source[r], anytag, x, a)

(***************************************************************************)
(* A body in which the ranks of a ring talk is a piece.                    *)
(***************************************************************************)
LEMMA RingPiece ==
  ASSUME NEW R, NEW V, NEW D, NEW p, NEW P, NEW next, NEW last, Ring(R, P, next, last),
         Turning(R, D, P, next, last), NEW i \in Nat, NEW source, NEW tag, NEW anytag,
         NEW N, NEW x, NEW a,
         Quiet(R, p, P), RingTalk(p, i, P, next, source, tag, anytag, N, x, a),
         Sources(V, P, last, source, tag, anytag), Matched(N), D = {} \/ N # {}
  PROVE  Piece(R, V, D, p, 16 * i, 16 * i + 15)
<1>0. /\ p \in [R -> Seq(OpSet)] /\ P \subseteq R
      /\ \A r \in R : r \notin P => p[r] = <<>>
  BY DEF Quiet, Ring
<1>1. ASSUME NEW r \in P PROVE Sends(V, p, r, next[r], N)
  <2> DEFINE q == next[r]
  <2>1. q \in P /\ last[q] = r
    BY DEF Ring
  <2>2. Meant(V, q, source[q], anytag, r, tag)
    BY <2>1 DEF Sources
  <2>3. Only(p[r], i, Firsts(N), Seconds(N)) /\ Posts(p[r], i, Firsts(N), q, tag, x, a)
    BY DEF RingTalk
  <2>4. Only(p[q], i, Firsts(N), Seconds(N)) /\ Gets(p[q], i, Seconds(N), source[q], anytag, x, a)
    BY <2>1 DEF RingTalk
  <2>5. \A n \in N : n = <<n[1], n[2]>>
    BY DEF Matched
  <2> HIDE DEF q
  <2> QED BY <2>2, <2>3, <2>4, <2>5, TalkSends DEF q
<1>2. ASSUME NEW r \in R, NEW k \in 1 .. Len(p[r]) PROVE r \in P
  <2>1. Len(<<>>) = 0
    OBVIOUS
  <2> QED BY <1>0, <2>1
<1>3. Local(R, p, i, D)
  <2>1. ASSUME NEW r \in R PROVE Steps(p[r], i)
    <3>1. CASE r \notin P
      BY <1>0, <1>2, <3>1 DEF Steps
    <3> QED BY <3>1 DEF RingTalk, Only
  <2>2. ASSUME NEW r \in R, NEW k \in 1 .. Len(p[r]), p[r][k].op = "isend"
        PROVE  D = {} \/ <<r, p[r][k].peer>> \in D
    <3>1. r \in P
      BY <1>2
    <3>2. p[r][k].peer = next[r]
      BY <1>1, <2>2, <3>1 DEF Sends
    <3> QED BY <3>1, <3>2 DEF Turning
  <2> QED BY <1>0, <2>1, <2>2 DEF Local
<1> DEFINE Q == {<<e[1], e[2][1], next[e[1]], e[2][2]>> : e \in P \X N}
<1>4. ASSUME NEW r \in P, NEW n \in N
      PROVE  <<r, n[1], next[r], n[2]>> \in Q
  <2>1. <<r, n>> \in P \X N /\ <<r, n>>[1] = r /\ <<r, n>>[2] = n
    OBVIOUS
  <2> QED BY <2>1
<1>5. ASSUME NEW u \in Q
      PROVE  /\ u = <<u[1], u[2], u[3], u[4]>> /\ u[3] = next[u[1]] /\ u[1] \in P
             /\ \E n \in N : u[2] = n[1] /\ u[4] = n[2]
  <2>1. PICK e \in P \X N : u = <<e[1], e[2][1], next[e[1]], e[2][2]>>
    OBVIOUS
  <2>2. e[1] \in P /\ e[2] \in N /\ u[1] = e[1] /\ u[2] = e[2][1] /\ u[3] = next[e[1]] /\ u[4] = e[2][2]
    BY <2>1
  <2> QED BY <2>1, <2>2
<1> HIDE DEF Q
<1>6. ASSUME NEW u \in Q
      PROVE  /\ u = <<u[1], u[2], u[3], u[4]>> /\ u[1] \in R /\ u[3] \in R
             /\ Meeting(V, p[u[1]], u[1], u[2], p[u[3]], u[3], u[4])
  <2>1. PICK n \in N : u[2] = n[1] /\ u[4] = n[2]
    BY <1>5
  <2>2. u[1] \in P /\ u[3] = next[u[1]] /\ u[3] \in P
    BY <1>5 DEF Ring
  <2>3. Meeting(V, p[u[1]], u[1], n[1], p[next[u[1]]], next[u[1]], n[2])
    BY <1>1, <2>2 DEF Sends
  <2> QED BY <1>0, <1>5, <2>1, <2>2, <2>3
<1>7. ASSUME NEW r \in R, NEW k \in 1 .. Len(p[r])
      PROVE  /\ p[r][k].op = "isend" => \E u \in Q : u[1] = r /\ u[2] = k
             /\ p[r][k].op = "irecv" => \E u \in Q : u[3] = r /\ u[4] = k
  <2>1. r \in P
    BY <1>2
  <2>2. ASSUME p[r][k].op = "isend" PROVE \E u \in Q : u[1] = r /\ u[2] = k
    <3>1. PICK n \in N : n[1] = k
      BY <1>1, <2>1, <2>2 DEF Sends
    <3>2. <<r, n[1], next[r], n[2]>> \in Q
      BY <1>4, <2>1
    <3> QED BY <3>1, <3>2
  <2>3. ASSUME p[r][k].op = "irecv" PROVE \E u \in Q : u[3] = r /\ u[4] = k
    <3> DEFINE q == last[r]
    <3>1. q \in P /\ next[q] = r
      BY <2>1 DEF Ring
    <3>2. PICK n \in N : n[2] = k
      BY <1>1, <2>3, <3>1 DEF Sends
    <3> DEFINE u == <<q, n[1], next[q], n[2]>>
    <3>3. u \in Q /\ u[3] = next[q] /\ u[4] = n[2]
      BY <1>4, <3>1
    <3> HIDE DEF u, q
    <3> QED BY <3>1, <3>2, <3>3
  <2> QED BY <2>2, <2>3
<1>8. ASSUME NEW u \in Q, NEW v \in Q, u[1] = v[1]
      PROVE  u[2] < v[2] <=> u[4] < v[4]
  <2>1. PICK m \in N : u[2] = m[1] /\ u[4] = m[2]
    BY <1>5
  <2>2. PICK n \in N : v[2] = n[1] /\ v[4] = n[2]
    BY <1>5
  <2> QED BY <2>1, <2>2 DEF InOrder, Matched
<1>9. ASSUME NEW e \in D, NEW S \in SUBSET R, e[1] \in S, e[2] \notin S
      PROVE  \E u \in Q : u[3] \in S /\ u[1] \notin S
  <2>1. PICK r \in P : r \in S /\ last[r] \notin S
    BY <1>9 DEF Turning
  <2> DEFINE q == last[r]
  <2>2. q \in P /\ next[q] = r
    BY DEF Ring
  <2>3. PICK n \in N : TRUE
    BY <1>9
  <2> DEFINE u == <<q, n[1], next[q], n[2]>>
  <2>4. u \in Q /\ u[1] = q /\ u[3] = next[q]
    BY <1>4, <2>2
  <2>5. u[3] = r /\ u[1] = last[r]
    BY <2>2, <2>4
  <2> HIDE DEF u
  <2> QED BY <2>1, <2>4, <2>5
<1>10. Messages(R, V, p, Q, D)
  <2>1. /\ \A u \in Q : /\ u = <<u[1], u[2], u[3], u[4]>> /\ u[1] \in R /\ u[3] \in R
                        /\ Meeting(V, p[u[1]], u[1], u[2], p[u[3]], u[3], u[4])
    BY <1>6
  <2>2. \A e \in D : \A S \in SUBSET R :
          e[1] \in S /\ e[2] \notin S => \E u \in Q : u[3] \in S /\ u[1] \notin S
    BY <1>9
  <2>3. \A r \in R : \A k \in 1 .. Len(p[r]) :
          /\ p[r][k].op = "isend" => \E u \in Q : u[1] = r /\ u[2] = k
          /\ p[r][k].op = "irecv" => \E u \in Q : u[3] = r /\ u[4] = k
    BY <1>7
  <2>4. \A u, v \in Q :
          (u[1] = v[1] /\ p[u[1]][u[2]].peer = p[v[1]][v[2]].peer
             /\ p[u[1]][u[2]].tag = p[v[1]][v[2]].tag)
            => (u[2] < v[2] <=> u[4] < v[4])
    BY <1>8
  <2> QED BY <2>1, <2>2, <2>3, <2>4 DEF Messages
<1> QED BY <1>3, <1>10, BodyPiece

(***************************************************************************)
(* The sequences of two, three and four operations.                        *)
(***************************************************************************)
Two(s, a, b) == s \in Seq(OpSet) /\ Len(s) = 2 /\ s[1] = a /\ s[2] = b

(***************************************************************************)
(* A sequence of three operations.                                         *)
(***************************************************************************)
Three(s, a, b, c) == s \in Seq(OpSet) /\ Len(s) = 3 /\ s[1] = a /\ s[2] = b /\ s[3] = c

(***************************************************************************)
(* A sequence of four operations.                                          *)
(***************************************************************************)
Four(s, a, b, c, d) ==
  s \in Seq(OpSet) /\ Len(s) = 4 /\ s[1] = a /\ s[2] = b /\ s[3] = c /\ s[4] = d

(***************************************************************************)
(* Two operations joined.                                                  *)
(***************************************************************************)
LEMMA JoinTwo ==
  ASSUME NEW a \in OpSet, NEW b \in OpSet
  PROVE  Two(<<a>> \o <<b>>, a, b)
BY DEF Two

(***************************************************************************)
(* Three operations joined.                                                *)
(***************************************************************************)
LEMMA JoinThree ==
  ASSUME NEW a \in OpSet, NEW b \in OpSet, NEW c \in OpSet
  PROVE  Three(<<a>> \o <<b>> \o <<c>>, a, b, c)
BY DEF Three

(***************************************************************************)
(* Two times two operations joined.                                        *)
(***************************************************************************)
LEMMA JoinFour ==
  ASSUME NEW a \in OpSet, NEW b \in OpSet, NEW c \in OpSet, NEW d \in OpSet
  PROVE  Four((<<a>> \o <<b>>) \o (<<c>> \o <<d>>), a, b, c, d)
BY DEF Four

(***************************************************************************)
(* One, two and one operation joined.                                      *)
(***************************************************************************)
LEMMA JoinMiddle ==
  ASSUME NEW a \in OpSet, NEW b \in OpSet, NEW c \in OpSet, NEW d \in OpSet
  PROVE  Four(<<a>> \o (<<b>> \o <<c>>) \o <<d>>, a, b, c, d)
BY DEF Four

(***************************************************************************)
(* The entries that sends, receives and waits make.                        *)
(***************************************************************************)
Out(e, d, tag, x, i, ph) ==
  /\ e \in OpSet /\ e.op = "isend" /\ e.peer = d /\ e.tag = tag /\ e.what = <<x, i>>
  /\ e.iter = i /\ e.time = 16 * i + ph

(***************************************************************************)
(* The operation e is this receive.                                        *)
(***************************************************************************)
In(e, s, tag, x, i, ph) ==
  /\ e \in OpSet /\ e.op = "irecv" /\ e.peer = s /\ e.tag = tag /\ e.what = <<x, i>>
  /\ e.iter = i /\ e.time = 16 * i + ph

(***************************************************************************)
(* The operation e is this wait or barrier.                                *)
(***************************************************************************)
Pause(e, kind, i, ph) == e \in OpSet /\ e.op = kind /\ e.iter = i /\ e.time = 16 * i + ph

(***************************************************************************)
(* The labels that the kernels use.                                        *)
(***************************************************************************)
LEMMA DataIs == "data" \in Labels /\ "ack" \in Labels /\ "left" \in Labels /\ "right" \in Labels
                  /\ "report" \in Labels /\ "none" \in Labels
BY DEF Labels

-----------------------------------------------------------------------------
(***************************************************************************)
(* The bodies of loops.                                                    *)
(***************************************************************************)

(***************************************************************************)
(* Two blocking calls, each of which is a request and the wait for it.     *)
(***************************************************************************)
Wakes(e, w) ==
  \/ e.op = "isend" /\ w.op = "wait_isend"
  \/ e.op = "irecv" /\ w.op = "wait_irecv"

(***************************************************************************)
(* A request, its wait, another request and its wait, in this order.       *)
(***************************************************************************)
LEMMA FourSteps ==
  ASSUME NEW s, NEW i \in Nat, NEW a, NEW b, NEW c, NEW e, Four(s, a, b, c, e),
         a.iter = i, b.iter = i, c.iter = i, e.iter = i,
         a.time = 16 * i + 0, b.time = 16 * i + 1, c.time = 16 * i + 2, e.time = 16 * i + 3,
         Wakes(a, b), Wakes(c, e), a.op # c.op
  PROVE  Steps(s, i) /\ Await(s, 1, 16 * i + 0) /\ Await(s, 3, 16 * i + 2)
<1>1. Len(s) = 4 /\ s[1] = a /\ s[2] = b /\ s[3] = c /\ s[4] = e
  BY DEF Four
<1>2. 1 .. 4 = {1, 2, 3, 4}
  OBVIOUS
<1>3. ASSUME NEW k \in {1, 2, 3, 4}
      PROVE  /\ s[k].iter = i /\ 16 * i <= s[k].time /\ s[k].time < 16 * i + 15
             /\ s[k].op # "barrier"
             /\ \A l \in {1, 2, 3, 4} : k <= l => s[k].time <= s[l].time
             /\ s[k].op \in {"isend", "irecv"} =>
                  \E l \in {1, 2, 3, 4} :
                    k < l /\ s[l].op \in Waits /\ s[k].op \in Awaited(s[l].op)
  BY <1>1 DEF Waits, Awaited, Wakes
<1>4. \A l \in {1, 2, 3, 4} :
        1 < l /\ s[l].op \in Waits /\ s[1].op \in Awaited(s[l].op) => 16 * i + 0 < s[l].time
  BY <1>1 DEF Waits, Awaited, Wakes
<1>5. \A l \in {1, 2, 3, 4} :
        3 < l /\ s[l].op \in Waits /\ s[3].op \in Awaited(s[l].op) => 16 * i + 2 < s[l].time
  BY <1>1 DEF Waits, Awaited, Wakes
<1>6. Steps(s, i)
  BY <1>1, <1>2, <1>3 DEF Steps
<1> QED BY <1>1, <1>2, <1>4, <1>5, <1>6 DEF Await

(***************************************************************************)
(* A single send.                                                          *)
(***************************************************************************)
LEMMA PostOne ==
  ASSUME NEW s, NEW i, NEW k \in 1 .. Len(s), NEW d, NEW tag, NEW x, NEW ph,
         Out(s[k], d, tag, x, i, ph), Await(s, k, 16 * i + ph)
  PROVE  Posts(s, i, {k}, d, tag, x, ph)
BY DEF Posts, Out

(***************************************************************************)
(* A single receive.                                                       *)
(***************************************************************************)
LEMMA GetOne ==
  ASSUME NEW s, NEW i, NEW k \in 1 .. Len(s), NEW source, NEW anytag, NEW x, NEW ph,
         In(s[k], source, anytag, x, i, ph), Await(s, k, 16 * i + ph)
  PROVE  Gets(s, i, {k}, source, anytag, x, ph)
BY DEF Gets, In

(***************************************************************************)
(* Of four operations the sends are at K and the receives at J.            *)
(***************************************************************************)
OfFour(s, K, J) ==
  \A k \in {1, 2, 3, 4} : /\ s[k].op = "isend" => k \in K
                          /\ s[k].op = "irecv" => k \in J

(***************************************************************************)
(* Then these are the only ones.                                           *)
(***************************************************************************)
LEMMA OnlyFour ==
  ASSUME NEW s \in Seq(OpSet), NEW i, NEW K, NEW J, Steps(s, i), Len(s) = 4, OfFour(s, K, J)
  PROVE  Only(s, i, K, J)
<1>1. 1 .. 4 = {1, 2, 3, 4}
  OBVIOUS
<1> QED BY <1>1 DEF Only, OfFour

(***************************************************************************)
(* Two requests that are waited for together.                              *)
(***************************************************************************)
LEMMA MiddleSteps ==
  ASSUME NEW s, NEW i \in Nat, NEW a, NEW b, NEW c, NEW e, Four(s, a, b, c, e),
         a.iter = i, b.iter = i, c.iter = i, e.iter = i,
         a.time = 16 * i + 0, b.time = 16 * i + 0, c.time = 16 * i + 1, e.time = 16 * i + 1,
         a.op \in {"isend", "irecv"}, b.op \in {"isend", "irecv"}, c.op \in Waits, e.op = "waitall"
  PROVE  Steps(s, i) /\ Await(s, 1, 16 * i + 0) /\ Await(s, 2, 16 * i + 0)
<1>1. Len(s) = 4 /\ s[1] = a /\ s[2] = b /\ s[3] = c /\ s[4] = e
  BY DEF Four
<1>2. 1 .. 4 = {1, 2, 3, 4}
  OBVIOUS
<1>3. ASSUME NEW k \in {1, 2, 3, 4}
      PROVE  /\ s[k].iter = i /\ 16 * i <= s[k].time /\ s[k].time < 16 * i + 15
             /\ s[k].op # "barrier"
             /\ \A l \in {1, 2, 3, 4} : k <= l => s[k].time <= s[l].time
  BY <1>1 DEF Waits
<1>4. ASSUME NEW k \in {1, 2, 3, 4}, s[k].op \in {"isend", "irecv"}
      PROVE  \E l \in {1, 2, 3, 4} : k < l /\ s[l].op \in Waits /\ s[k].op \in Awaited(s[l].op)
  <2>1. k # 4 /\ k < 4 /\ 4 \in {1, 2, 3, 4}
    BY <1>1, <1>4
  <2>2. s[4].op \in Waits /\ s[k].op \in Awaited(s[4].op)
    BY <1>1, <1>4 DEF Waits, Awaited
  <2> QED BY <2>1, <2>2
<1>5. \A l \in {1, 2, 3, 4} : s[l].op \in Waits => l \in {3, 4} /\ 16 * i + 0 < s[l].time
  BY <1>1 DEF Waits
<1>6. Steps(s, i)
  BY <1>1, <1>2, <1>3, <1>4 DEF Steps
<1> QED BY <1>1, <1>2, <1>5, <1>6 DEF Await

(***************************************************************************)
(* Two requests and the wait for both.                                     *)
(***************************************************************************)
LEMMA ThreeSteps ==
  ASSUME NEW s, NEW i \in Nat, NEW a, NEW b, NEW c, Three(s, a, b, c),
         a.iter = i, b.iter = i, c.iter = i,
         a.time = 16 * i + 0, b.time = 16 * i + 0, c.time = 16 * i + 1,
         a.op \in {"isend", "irecv"}, b.op \in {"isend", "irecv"}, c.op = "waitall"
  PROVE  Steps(s, i) /\ Await(s, 1, 16 * i + 0) /\ Await(s, 2, 16 * i + 0)
<1>1. Len(s) = 3 /\ s[1] = a /\ s[2] = b /\ s[3] = c
  BY DEF Three
<1>2. 1 .. 3 = {1, 2, 3}
  OBVIOUS
<1>3. ASSUME NEW k \in {1, 2, 3}
      PROVE  /\ s[k].iter = i /\ 16 * i <= s[k].time /\ s[k].time < 16 * i + 15
             /\ s[k].op # "barrier"
             /\ \A l \in {1, 2, 3} : k <= l => s[k].time <= s[l].time
  BY <1>1 DEF Waits
<1>4. ASSUME NEW k \in {1, 2, 3}, s[k].op \in {"isend", "irecv"}
      PROVE  \E l \in {1, 2, 3} : k < l /\ s[l].op \in Waits /\ s[k].op \in Awaited(s[l].op)
  <2>1. k # 3 /\ k < 3 /\ 3 \in {1, 2, 3}
    BY <1>1, <1>4
  <2>2. s[3].op \in Waits /\ s[k].op \in Awaited(s[3].op)
    BY <1>1, <1>4 DEF Waits, Awaited
  <2> QED BY <2>1, <2>2
<1>5. \A l \in {1, 2, 3} : s[l].op \in Waits => l = 3 /\ 16 * i + 0 < s[l].time
  BY <1>1 DEF Waits
<1>6. Steps(s, i)
  BY <1>1, <1>2, <1>3, <1>4 DEF Steps
<1> QED BY <1>1, <1>2, <1>5, <1>6 DEF Await

(***************************************************************************)
(* Of three operations the sends are at K and the receives at J.           *)
(***************************************************************************)
OfThree(s, K, J) ==
  \A k \in {1, 2, 3} : /\ s[k].op = "isend" => k \in K
                       /\ s[k].op = "irecv" => k \in J

(***************************************************************************)
(* Then these are the only ones.                                           *)
(***************************************************************************)
LEMMA OnlyThree ==
  ASSUME NEW s \in Seq(OpSet), NEW i, NEW K, NEW J, Steps(s, i), Len(s) = 3, OfThree(s, K, J)
  PROVE  Only(s, i, K, J)
<1>1. 1 .. 3 = {1, 2, 3}
  OBVIOUS
<1> QED BY <1>1 DEF Only, OfThree

(***************************************************************************)
(* A send or a receive alone.                                              *)
(***************************************************************************)
LEMMA TwoSteps ==
  ASSUME NEW s, NEW i \in Nat, NEW a, NEW b, Two(s, a, b),
         a.iter = i, b.iter = i, a.time = 16 * i + 0, b.time = 16 * i + 1, Wakes(a, b)
  PROVE  Steps(s, i) /\ Await(s, 1, 16 * i + 0)
<1>1. Len(s) = 2 /\ s[1] = a /\ s[2] = b
  BY DEF Two
<1>2. 1 .. 2 = {1, 2}
  OBVIOUS
<1>3. ASSUME NEW k \in {1, 2}
      PROVE  /\ s[k].iter = i /\ 16 * i <= s[k].time /\ s[k].time < 16 * i + 15
             /\ s[k].op # "barrier"
             /\ \A l \in {1, 2} : k <= l => s[k].time <= s[l].time
             /\ s[k].op \in {"isend", "irecv"} =>
                  \E l \in {1, 2} : k < l /\ s[l].op \in Waits /\ s[k].op \in Awaited(s[l].op)
  BY <1>1 DEF Waits, Awaited, Wakes
<1>4. \A l \in {1, 2} : 1 < l => 16 * i + 0 < s[l].time
  BY <1>1
<1>5. Steps(s, i)
  BY <1>1, <1>2, <1>3 DEF Steps
<1> QED BY <1>1, <1>2, <1>4, <1>5 DEF Await

(***************************************************************************)
(* Of two operations the sends are at K and the receives at J.             *)
(***************************************************************************)
OfTwo(s, K, J) ==
  \A k \in {1, 2} : /\ s[k].op = "isend" => k \in K
                    /\ s[k].op = "irecv" => k \in J

(***************************************************************************)
(* Then these are the only ones.                                           *)
(***************************************************************************)
LEMMA OnlyTwo ==
  ASSUME NEW s \in Seq(OpSet), NEW i, NEW K, NEW J, Steps(s, i), Len(s) = 2, OfTwo(s, K, J)
  PROVE  Only(s, i, K, J)
<1>1. 1 .. 2 = {1, 2}
  OBVIOUS
<1> QED BY <1>1 DEF Only, OfTwo

(***************************************************************************)
(* What the flattened sequence has where a sequence begins in it.          *)
(***************************************************************************)
LEMMA FlattenAt ==
  ASSUME NEW S, NEW s \in Seq(Seq(S)), NEW g \in 1 .. Len(s), NEW k \in 1 .. Len(s[g])
  PROVE  /\ StartOf(s, g) + k \in 1 .. Len(FlattenSeq(s))
         /\ FlattenSeq(s)[StartOf(s, g) + k] = s[g][k]
<1> DEFINE n == Len(s)
           F(m) == FlattenSeq(SubSeq(s, 1, m))
           x == StartOf(s, g) + k
           N == {m \in Nat : m <= n /\ g <= m => x <= Len(F(m)) /\ F(m)[x] = s[g][k]}
<1>1. /\ n \in Nat /\ \A h \in 1 .. n : s[h] \in Seq(S)
      /\ \A h \in 1 .. n : StartOf(s, h) \in Nat
  BY Starts
<1>2. x \in Nat /\ x >= 1
  BY <1>1
<1>3. 0 \in N
  OBVIOUS
<1>4. ASSUME NEW m \in Nat, m \in N PROVE m + 1 \in N
  <2> SUFFICES ASSUME m + 1 <= n, g <= m + 1
               PROVE  x <= Len(F(m + 1)) /\ F(m + 1)[x] = s[g][k]
    OBVIOUS
  <2> DEFINE t == SubSeq(s, 1, m)
             e == s[m + 1]
  <2>1. t \in Seq(Seq(S)) /\ e \in Seq(S) /\ SubSeq(s, 1, m + 1) = Append(t, e)
    OBVIOUS
  <2>2. FlattenSeq(t) \in Seq(S) /\ FlattenSeq(Append(t, e)) = FlattenSeq(t) \o e
    <3> HIDE DEF t, e
    <3> QED BY <2>1, FlattenAppend
  <2> DEFINE u == F(m)
  <2>3. F(m + 1) = u \o e /\ u \in Seq(S) /\ e \in Seq(S)
    BY <2>1, <2>2
  <2>4. Len(u) = StartOf(s, m + 1)
    <3>1. (m + 1) - 1 = m
      OBVIOUS
    <3> QED BY <3>1 DEF StartOf
  <2>5. CASE g = m + 1
    <3>1. x = Len(u) + k /\ k \in 1 .. Len(e) /\ e[k] = s[g][k]
      BY <2>4, <2>5
    <3> HIDE DEF u, e, x, F
    <3> QED BY <2>3, <3>1
  <2>6. CASE g # m + 1
    <3>1. g <= m /\ m <= n
      BY <2>6
    <3>2. x <= Len(u) /\ u[x] = s[g][k]
      BY <1>4, <3>1
    <3> HIDE DEF u, e, x, F
    <3> QED BY <1>2, <2>3, <3>2
  <2> QED BY <2>5, <2>6
<1> HIDE DEF N
<1>5. n \in N
  <2>1. Nat \subseteq N
    BY <1>3, <1>4, Induction
  <2> QED BY <1>1, <2>1
<1>6. SubSeq(s, 1, n) = s /\ g <= n /\ n <= n
  BY <1>1
<1>7. x <= Len(FlattenSeq(s)) /\ FlattenSeq(s)[x] = s[g][k]
  BY <1>5, <1>6 DEF N
<1>8. FlattenSeq(s) \in Seq(S)
  BY <1>1, FlattenAppend
<1> HIDE DEF x
<1>9. x \in 1 .. Len(FlattenSeq(s))
  BY <1>2, <1>7, <1>8
<1> QED BY <1>7, <1>9 DEF x

(***************************************************************************)
(* What is in a flattened sequence is in one of its parts.                 *)
(***************************************************************************)
LEMMA FlattenFrom ==
  ASSUME NEW S, NEW s \in Seq(Seq(S)), NEW x \in 1 .. Len(FlattenSeq(s))
  PROVE  \E g \in 1 .. Len(s) : \E k \in 1 .. Len(s[g]) : x = StartOf(s, g) + k
<1> DEFINE n == Len(s)
           N == {m \in Nat : m <= n /\ x <= StartOf(s, m + 1) =>
                   \E g \in 1 .. n : \E k \in 1 .. Len(s[g]) : x = StartOf(s, g) + k}
<1>1. /\ n \in Nat /\ StartOf(s, 1) = 0 /\ StartOf(s, n + 1) = Len(FlattenSeq(s))
      /\ \A g \in 1 .. n : /\ StartOf(s, g) \in Nat /\ Len(s[g]) \in Nat
                          /\ StartOf(s, g + 1) = StartOf(s, g) + Len(s[g])
  BY Starts
<1>2. x \in Nat /\ x >= 1 /\ x <= Len(FlattenSeq(s))
  <2>1. FlattenSeq(s) \in Seq(S)
    BY FlattenAppend
  <2> QED BY <2>1
<1>3. 0 \in N
  BY <1>1, <1>2
<1>4. ASSUME NEW m \in Nat, m \in N PROVE m + 1 \in N
  <2> HIDE DEF n
  <2> SUFFICES ASSUME m + 1 <= n, x <= StartOf(s, (m + 1) + 1)
               PROVE  \E g \in 1 .. n : \E k \in 1 .. Len(s[g]) : x = StartOf(s, g) + k
    OBVIOUS
  <2>1. CASE x <= StartOf(s, m + 1)
    <3>1. m <= n
      BY <1>1
    <3> QED BY <1>4, <2>1, <3>1
  <2>2. CASE ~ x <= StartOf(s, m + 1)
    <3>1. /\ m + 1 \in 1 .. n /\ StartOf(s, m + 1) \in Nat /\ Len(s[m + 1]) \in Nat
          /\ StartOf(s, (m + 1) + 1) = StartOf(s, m + 1) + Len(s[m + 1])
      BY <1>1
    <3> DEFINE k == x - StartOf(s, m + 1)
    <3>2. k \in 1 .. Len(s[m + 1]) /\ x = StartOf(s, m + 1) + k
      BY <1>2, <2>2, <3>1
    <3> HIDE DEF k
    <3> QED BY <3>1, <3>2
  <2> QED BY <2>1, <2>2
<1> HIDE DEF N
<1>5. n \in N
  <2>1. Nat \subseteq N
    BY <1>3, <1>4, Induction
  <2> QED BY <1>1, <2>1
<1>6. x <= StartOf(s, n + 1) /\ n <= n
  BY <1>1, <1>2
<1> QED BY <1>5, <1>6 DEF N

-----------------------------------------------------------------------------
(***************************************************************************)
(* Windows.                                                                *)
(***************************************************************************)
Repeats(s, w, e) == s \in Seq(OpSet) /\ Len(s) = w /\ \A k \in 1 .. w : s[k] = e

(***************************************************************************)
(* Requests that are waited for together, and a blocking call.             *)
(***************************************************************************)
Wide(s, m, X, b, c, e) ==
  /\ s \in Seq(OpSet) /\ Len(s) = m + 3
  /\ \A k \in 1 .. m : s[k] = X[k]
  /\ s[m + 1] = b /\ s[m + 2] = c /\ s[m + 3] = e

(***************************************************************************)
(* The sequence u is s and then t.                                         *)
(***************************************************************************)
Joined(u, s, t) ==
  /\ u \in Seq(OpSet) /\ Len(u) = Len(s) + Len(t)
  /\ \A k \in 1 .. Len(s) : u[k] = s[k]
  /\ \A k \in 1 .. Len(t) : u[Len(s) + k] = t[k]

(***************************************************************************)
(* Which is what joining makes.                                            *)
(***************************************************************************)
LEMMA JoinIs ==
  ASSUME NEW s \in Seq(OpSet), NEW t \in Seq(OpSet)
  PROVE  Joined(s \o t, s, t)
<1>1. /\ s \o t \in Seq(OpSet) /\ Len(s \o t) = Len(s) + Len(t)
      /\ \A k \in 1 .. Len(s) : (s \o t)[k] = s[k]
      /\ \A k \in 1 .. Len(t) : (s \o t)[Len(s) + k] = t[k]
  OBVIOUS
<1> QED BY <1>1 DEF Joined

(***************************************************************************)
(* The requests X, a wait, and another request with its wait.              *)
(***************************************************************************)
LEMMA WideIs ==
  ASSUME NEW X \in Seq(OpSet), NEW b \in OpSet, NEW c \in OpSet, NEW e \in OpSet
  PROVE  Wide(X \o <<b>> \o (<<c>> \o <<e>>), Len(X), X, b, c, e)
<1> DEFINE y == X \o <<b>>
           z == <<c>> \o <<e>>
           s == y \o z
           m == Len(X)
<1>1. m \in Nat
  OBVIOUS
<1>2. y \in Seq(OpSet) /\ Len(y) = m + 1 /\ y[m + 1] = b /\ \A k \in 1 .. m : y[k] = X[k]
  <2> DEFINE t == <<b>>
  <2>1. t \in Seq(OpSet) /\ Len(t) = 1 /\ t[1] = b /\ 1 \in 1 .. Len(t)
    OBVIOUS
  <2> HIDE DEF t
  <2>2. Joined(y, X, t)
    <3>1. Joined(X \o t, X, t)
      BY <2>1, JoinIs
    <3> QED BY <3>1 DEF t
  <2> HIDE DEF y, m
  <2> QED BY <2>1, <2>2 DEF Joined, m
<1>3. z \in Seq(OpSet) /\ Len(z) = 2 /\ z[1] = c /\ z[2] = e
  OBVIOUS
<1> HIDE DEF y, z, m
<1>4. /\ s \in Seq(OpSet) /\ Len(s) = Len(y) + Len(z)
      /\ \A k \in 1 .. Len(y) : s[k] = y[k]
      /\ \A k \in 1 .. Len(z) : s[Len(y) + k] = z[k]
  <2>1. Joined(y \o z, y, z)
    BY <1>2, <1>3, JoinIs
  <2>2. Joined(s, y, z)
    BY <2>1
  <2> HIDE DEF s
  <2> QED BY <2>2 DEF Joined
<1> HIDE DEF s
<1>5. Len(s) = m + 3 /\ \A k \in 1 .. m + 1 : s[k] = y[k]
  BY <1>1, <1>2, <1>3, <1>4
<1>6. s[(m + 1) + 1] = c /\ s[(m + 1) + 2] = e
  <2>1. 1 \in 1 .. Len(z) /\ 2 \in 1 .. Len(z)
    BY <1>3
  <2>2. s[Len(y) + 1] = z[1] /\ s[Len(y) + 2] = z[2]
    BY <1>4, <2>1
  <2> QED BY <1>2, <1>3, <2>2
<1>7. (m + 1) + 1 = m + 2 /\ (m + 1) + 2 = m + 3 /\ m + 1 \in 1 .. m + 1
      /\ \A k \in 1 .. m : k \in 1 .. m + 1
  BY <1>1
<1>8. Wide(s, m, X, b, c, e)
  BY <1>2, <1>4, <1>5, <1>6, <1>7 DEF Wide
<1> QED BY <1>8 DEF s, m, y, z

(***************************************************************************)
(* X are requests of iteration i, all in its first phase.                  *)
(***************************************************************************)
Asks(X, m, i) ==
  \A k \in 1 .. m : X[k].op \in {"isend", "irecv"} /\ X[k].iter = i /\ X[k].time = 16 * i + 0

(***************************************************************************)
(* The steps of a window with its acknowledgement.                         *)
(***************************************************************************)
LEMMA WideSteps ==
  ASSUME NEW s, NEW i \in Nat, NEW m \in Nat, NEW X, NEW b, NEW c, NEW e, Wide(s, m, X, b, c, e),
         Asks(X, m, i),
         b.op = "waitall", b.iter = i, b.time = 16 * i + 1,
         c.op \in {"isend", "irecv"}, c.iter = i, c.time = 16 * i + 2,
         Wakes(c, e), e.iter = i, e.time = 16 * i + 3
  PROVE  /\ Steps(s, i) /\ \A k \in 1 .. m : Await(s, k, 16 * i + 0)
         /\ Await(s, m + 2, 16 * i + 2)
<1>1. /\ Len(s) = m + 3 /\ s[m + 1] = b /\ s[m + 2] = c /\ s[m + 3] = e
      /\ \A k \in 1 .. m : s[k] = X[k]
  BY DEF Wide
<1>2. ASSUME NEW k \in 1 .. m + 3
      PROVE  k \in 1 .. m \/ k = m + 1 \/ k = m + 2 \/ k = m + 3
  OBVIOUS
<1>3. \A k \in 1 .. m : /\ s[k].op \in {"isend", "irecv"} /\ s[k].iter = i
                        /\ s[k].time = 16 * i + 0
  BY <1>1 DEF Asks
<1>4. ASSUME NEW k \in 1 .. m + 3
      PROVE  /\ s[k].iter = i /\ 16 * i <= s[k].time /\ s[k].time < 16 * i + 15
             /\ s[k].op # "barrier"
  BY <1>1, <1>2, <1>3 DEF Wakes
<1>5. ASSUME NEW k \in 1 .. m + 3, NEW l \in 1 .. m + 3, k <= l
      PROVE  s[k].time <= s[l].time
  <2>1. CASE k \in 1 .. m
    <3>1. s[k].time = 16 * i
      BY <1>3, <2>1
    <3> QED BY <1>4, <3>1
  <2>2. CASE k = m + 1
    <3>1. l = m + 1 \/ l = m + 2 \/ l = m + 3
      BY <1>5, <2>2
    <3> QED BY <1>1, <2>2, <3>1
  <2>3. CASE k = m + 2
    <3>1. l = m + 2 \/ l = m + 3
      BY <1>5, <2>3
    <3> QED BY <1>1, <2>3, <3>1
  <2>4. CASE k = m + 3
    <3>1. l = m + 3
      BY <1>5, <2>4
    <3> QED BY <1>1, <2>4, <3>1
  <2> QED BY <1>2, <2>1, <2>2, <2>3, <2>4
<1>6. ASSUME NEW k \in 1 .. m + 3, s[k].op \in {"isend", "irecv"}
      PROVE  \E l \in 1 .. m + 3 : k < l /\ s[l].op \in Waits /\ s[k].op \in Awaited(s[l].op)
  <2>1. CASE k \in 1 .. m
    <3>1. m + 1 \in 1 .. m + 3 /\ k < m + 1
      BY <2>1
    <3>2. s[m + 1].op \in Waits /\ s[k].op \in Awaited(s[m + 1].op)
      BY <1>1, <1>6 DEF Waits, Awaited
    <3> QED BY <3>1, <3>2
  <2>2. CASE k = m + 1
    BY <1>1, <1>6, <2>2
  <2>3. CASE k = m + 2
    <3>1. m + 3 \in 1 .. m + 3 /\ k < m + 3
      BY <2>3
    <3>2. s[m + 3].op \in Waits /\ s[k].op \in Awaited(s[m + 3].op)
      BY <1>1, <2>3 DEF Waits, Awaited, Wakes
    <3> QED BY <3>1, <3>2
  <2>4. CASE k = m + 3
    BY <1>1, <1>6, <2>4 DEF Wakes
  <2> QED BY <1>2, <2>1, <2>2, <2>3, <2>4
<1>7. Steps(s, i)
  BY <1>1, <1>4, <1>5, <1>6 DEF Steps
<1>8. ASSUME NEW k \in 1 .. m PROVE Await(s, k, 16 * i + 0)
  <2> SUFFICES ASSUME NEW l \in 1 .. m + 3, s[l].op \in Waits
               PROVE  16 * i + 0 < s[l].time
    BY <1>1 DEF Await
  <2>1. l \notin 1 .. m
    BY <1>3 DEF Waits
  <2>2. l = m + 1 \/ l = m + 2 \/ l = m + 3
    BY <1>2, <2>1
  <2> QED BY <1>1, <2>2
<1>9. Await(s, m + 2, 16 * i + 2)
  <2> SUFFICES ASSUME NEW l \in 1 .. m + 3, m + 2 < l
               PROVE  16 * i + 2 < s[l].time
    BY <1>1 DEF Await
  <2>1. l = m + 3
    OBVIOUS
  <2> QED BY <1>1, <2>1
<1> QED BY <1>7, <1>8, <1>9

(***************************************************************************)
(* The two sides of Uniband.                                               *)
(***************************************************************************)
LEMMA OneOfMany ==
  ASSUME NEW m \in Nat, NEW k \in 1 .. m + 3
  PROVE  k \in 1 .. m \/ k = m + 1 \/ k = m + 2 \/ k = m + 3
OBVIOUS

(***************************************************************************)
(* Sends at all indices of K.                                              *)
(***************************************************************************)
LEMMA ManyPost ==
  ASSUME NEW s, NEW i, NEW K, NEW d, NEW tag, NEW x, NEW ph,
         \A k \in K : /\ k \in 1 .. Len(s) /\ Out(s[k], d, tag, x, i, ph)
                      /\ Await(s, k, 16 * i + ph)
  PROVE  Posts(s, i, K, d, tag, x, ph)
BY DEF Posts, Out

(***************************************************************************)
(* Receives at all indices of J.                                           *)
(***************************************************************************)
LEMMA ManyGet ==
  ASSUME NEW s, NEW i, NEW J, NEW source, NEW anytag, NEW x, NEW ph,
         \A k \in J : /\ k \in 1 .. Len(s) /\ In(s[k], source, anytag, x, i, ph)
                      /\ Await(s, k, 16 * i + ph)
  PROVE  Gets(s, i, J, source, anytag, x, ph)
BY DEF Gets, In

(***************************************************************************)
(* The sends and receives of a window and its acknowledgement.             *)
(***************************************************************************)
LEMMA WideOnly ==
  ASSUME NEW s, NEW i, NEW m \in Nat, NEW X, NEW b, NEW c, NEW e, NEW K, NEW J,
         Wide(s, m, X, b, c, e), Steps(s, i), b.op = "waitall", Wakes(c, e),
         \A k \in 1 .. m : (X[k].op = "isend" => k \in K) /\ (X[k].op = "irecv" => k \in J),
         c.op = "isend" => m + 2 \in K, c.op = "irecv" => m + 2 \in J
  PROVE  Only(s, i, K, J)
<1>1. /\ s \in Seq(OpSet) /\ Len(s) = m + 3
      /\ \A k \in 1 .. m : s[k] = X[k]
      /\ s[m + 1] = b /\ s[m + 2] = c /\ s[m + 3] = e
  BY DEF Wide
<1>2. ASSUME NEW k \in 1 .. m + 3
      PROVE  (s[k].op = "isend" => k \in K) /\ (s[k].op = "irecv" => k \in J)
  <2>1. CASE k \in 1 .. m
    BY <1>1, <2>1
  <2>2. CASE k = m + 1
    BY <1>1, <2>2
  <2>3. CASE k = m + 2
    BY <1>1, <2>3
  <2>4. CASE k = m + 3
    BY <1>1, <2>4 DEF Wakes
  <2> QED BY <2>1, <2>2, <2>3, <2>4, OneOfMany
<1> QED BY <1>1, <1>2 DEF Only

(***************************************************************************)
(* A loop of pieces, each in an iteration of its own.                      *)
(***************************************************************************)
LEMMA LoopPiece ==
  ASSUME NEW R, NEW V, NEW D, NEW n \in Nat, NEW base \in Nat, NEW off \in {15, 16}, NEW G,
         \A m \in 1 .. n : Piece(R, V, D, G[m], 16 * (base + m), 16 * (base + m) + 15)
  PROVE  Piece(R, V, D, Loop(R, n, G), 16 * base + off, 16 * (base + n) + off)
<1> DEFINE T == [m \in 0 .. n |-> 16 * (base + m) + off]
<1>1. T \in [0 .. n -> Nat] /\ T[0] = 16 * base + off /\ T[n] = 16 * (base + n) + off
  OBVIOUS
<1>2. ASSUME NEW m \in 1 .. n
      PROVE  T[m - 1] <= T[m] /\ Piece(R, V, D, G[m], T[m - 1], T[m])
  <2> DEFINE a == 16 * (base + m)
             b == 16 * (base + m) + 15
             c == T[m - 1]
             d == T[m]
  <2>1. m \in 0 .. n /\ m - 1 \in 0 .. n
    OBVIOUS
  <2>2. c = 16 * (base + m) - 16 + off /\ d = 16 * (base + m) + off
    BY <2>1
  <2>3. a \in Nat /\ b \in Nat /\ c \in Nat /\ d \in Nat
    BY <1>1, <2>1
  <2> HIDE DEF T
  <2>4. c <= a /\ b <= d /\ c <= d
    BY <2>2
  <2>5. \A j \in Nat : c <= 16 * j /\ 16 * j < d => a <= 16 * j /\ 16 * j < b
    BY <2>2
  <2>6. Piece(R, V, D, G[m], a, b)
    OBVIOUS
  <2> HIDE DEF a, b, c, d
  <2>7. Piece(R, V, D, G[m], c, d)
    BY <2>3, <2>4, <2>5, <2>6, PieceWidens
  <2> QED BY <2>4, <2>7 DEF c, d
<1> HIDE DEF T
<1>3. Piece(R, V, D, Loop(R, n, G), T[0], T[n])
  BY <1>1, <1>2, PieceTimes
<1> QED BY <1>1, <1>3

-----------------------------------------------------------------------------
(***************************************************************************)
(* The loop alone is one.                                                  *)
(***************************************************************************)
LEMMA ClosedPiece ==
  ASSUME NEW R, NEW V, NEW D, NEW n \in Nat, NEW G,
         \A m \in 1 .. n : Piece(R, V, D, G[m], 16 * m, 16 * m + 15)
  PROVE  Piece(R, V, D, Loop(R, n, G), 16, 16 * n + 16)
<1>1. \A m \in 1 .. n : Piece(R, V, D, G[m], 16 * (0 + m), 16 * (0 + m) + 15)
  OBVIOUS
<1>2. Piece(R, V, D, Loop(R, n, G), 16 * 0 + 16, 16 * (0 + n) + 16)
  BY <1>1, LoopPiece
<1>3. 16 * 0 + 16 = 16 /\ 16 * (0 + n) + 16 = 16 * n + 16
  OBVIOUS
<1> QED BY <1>2, <1>3

(***************************************************************************)
(* Who sends to whom, and on which channels.                               *)
(***************************************************************************)
Knows(R, P, f) == {<<r, r>> : r \in R} \cup {<<r, f[r]>> : r \in P}

(***************************************************************************)
(* The channels of ranks P to f of them.                                   *)
(***************************************************************************)
Channels(P, f, tag) == {<<r, f[r], tag>> : r \in P}

(***************************************************************************)
(* The edges between partners link them.                                   *)
(***************************************************************************)
LEMMA PairsLinked ==
  ASSUME NEW R, NEW L, NEW H, NEW f, Partners(R, L, H, f)
  PROVE  Linked(Knows(R, L \cup H, f), L \cup H, f)
<1>1. ASSUME NEW e \in Knows(R, L \cup H, f), e[1] # e[2]
      PROVE  e[1] \in L \cup H /\ e[2] = f[e[1]]
  BY <1>1 DEF Knows
<1>2. \A r \in L \cup H : <<r, f[r]>> \in Knows(R, L \cup H, f)
  BY DEF Knows
<1> QED BY <1>1, <1>2 DEF Linked

(***************************************************************************)
(* On channels to one rank each, a receive that names its source or takes  *)
(* any is meant for one rank.                                              *)
(***************************************************************************)
LEMMA AnySources ==
  ASSUME NEW P, NEW f, NEW g, \A r \in P : f[r] \in P /\ g[f[r]] = r /\ g[r] \in P /\ f[g[r]] = r,
         NEW tag, NEW anytag \in {tag, ANY}, NEW source, \A r \in P : source[r] \in {g[r], ANY}
  PROVE  Sources(Channels(P, f, tag), P, g, source, tag, anytag)
<1> DEFINE V == Channels(P, f, tag)
<1>1. ASSUME NEW v \in V
      PROVE  v = <<v[1], v[2], tag>> /\ v[1] \in P /\ v[2] = f[v[1]] /\ v[3] = tag /\ g[v[2]] = v[1]
  <2>1. PICK r \in P : v = <<r, f[r], tag>>
    BY DEF Channels
  <2> QED BY <2>1
<1>2. ASSUME NEW r \in P PROVE <<g[r], r, tag>> \in V
  <2>1. g[r] \in P /\ f[g[r]] = r
    OBVIOUS
  <2> QED BY <2>1 DEF Channels
<1> HIDE DEF V
<1>3. ASSUME NEW r \in P PROVE Meant(V, r, source[r], anytag, g[r], tag)
  <2>1. ASSUME NEW v \in V, r = v[2], source[r] \in {v[1], ANY}, anytag \in {v[3], ANY}
        PROVE  v = <<g[r], r, tag>>
    BY <1>1, <2>1
  <2>2. ASSUME NEW v \in V, v = <<g[r], r, tag>>
        PROVE  r = v[2] /\ source[r] \in {v[1], ANY} /\ anytag \in {v[3], ANY}
    <3>1. v[1] = g[r] /\ v[2] = r /\ v[3] = tag
      BY <2>2
    <3> QED BY <3>1
  <2> QED BY <1>2, <2>1, <2>2 DEF Meant
<1>4. Sources(V, P, g, source, tag, anytag)
  BY <1>3 DEF Sources
<1> QED BY <1>4 DEF V

(***************************************************************************)
(* A receive that names source and tag is always meant for one rank.       *)
(***************************************************************************)
LEMMA SameSources ==
  ASSUME NEW R, R \subseteq Nat, NEW P, P \subseteq R, NEW g, \A r \in P : g[r] \in R,
         NEW T, T \subseteq Nat, NEW tag \in T
  PROVE  Sources(R \X R \X T, P, g, g, tag, tag)
<1> DEFINE V == R \X R \X T
<1>1. ASSUME NEW r \in P PROVE Meant(V, r, g[r], tag, g[r], tag)
  <2>0. r \in R /\ g[r] \in R
    OBVIOUS
  <2>1. g[r] # ANY /\ tag # ANY
    <3>1. g[r] \in Nat /\ tag \in Nat
      BY <2>0
    <3> QED BY <3>1 DEF ANY
  <2>2. <<g[r], r, tag>> \in V
    OBVIOUS
  <2>3. \A v \in V : v = <<v[1], v[2], v[3]>>
    OBVIOUS
  <2> HIDE DEF V
  <2>4. \A v \in V : (r = v[2] /\ g[r] \in {v[1], ANY} /\ tag \in {v[3], ANY}) <=> v = <<g[r], r, tag>>
    BY <2>1, <2>3
  <2> QED BY <2>2, <2>4 DEF Meant
<1> QED BY <1>1 DEF Sources

(***************************************************************************)
(* A program in which only the ranks of P do something.                    *)
(***************************************************************************)
Idle(R, p, P) == p = [r \in R |-> p[r]] /\ \A r \in R : r \notin P => p[r] = <<>>

(***************************************************************************)
(* Ranks that have an empty program are quiet.                             *)
(***************************************************************************)
LEMMA IdleQuiet ==
  ASSUME NEW R, NEW p, NEW P, Idle(R, p, P), \A r \in P : p[r] \in Seq(OpSet)
  PROVE  Quiet(R, p, P)
<1>1. <<>> \in Seq(OpSet)
  OBVIOUS
<1>2. \A r \in R : p[r] \in Seq(OpSet)
  BY <1>1 DEF Idle
<1>3. p \in [R -> Seq(OpSet)]
  BY <1>2 DEF Idle
<1> QED BY <1>3 DEF Quiet, Idle

(***************************************************************************)
(* A single pair.                                                          *)
(***************************************************************************)
One(k, l) == {<<k, l>>}

(***************************************************************************)
(* A single pair is in order.                                              *)
(***************************************************************************)
LEMMA OneMatched ==
  ASSUME NEW k \in Nat, NEW l \in Nat
  PROVE  Matched(One(k, l)) /\ Firsts(One(k, l)) = {k} /\ Seconds(One(k, l)) = {l}
           /\ One(k, l) # {}
BY DEF Matched, InOrder, Firsts, Seconds, One

(***************************************************************************)
(* Destinations and sources are numbers.                                   *)
(***************************************************************************)
Ints(P, f, source) == \A r \in P : f[r] \in Int /\ source[r] \in Int

(***************************************************************************)
(* A ring, or pairs, in which all send and receive in the same way: k is   *)
(* the place of the send among the operations, l that of the receive.      *)
(***************************************************************************)
LEMMA RoundBody ==
  ASSUME NEW R, NEW V, NEW D, NEW p, NEW P, NEW next, NEW last, Ring(R, P, next, last),
         Turning(R, D, P, next, last), NEW i \in Nat, NEW source, NEW tag, NEW anytag,
         Sources(V, P, last, source, tag, anytag), Idle(R, p, P),
         NEW k \in Nat, NEW l \in Nat,
         \A r \in P : /\ Only(p[r], i, {k}, {l})
                      /\ Posts(p[r], i, {k}, next[r], tag, "data", 0)
                      /\ Gets(p[r], i, {l}, source[r], anytag, "data", 0)
  PROVE  Piece(R, V, D, p, 16 * i, 16 * i + 15)
<1> DEFINE N == One(k, l)
<1>1. Matched(N) /\ Firsts(N) = {k} /\ Seconds(N) = {l} /\ N # {}
  BY OneMatched
<1> HIDE DEF N
<1>2. RingTalk(p, i, P, next, source, tag, anytag, N, "data", 0)
  BY <1>1 DEF RingTalk
<1>3. Quiet(R, p, P)
  <2>1. \A r \in P : p[r] \in Seq(OpSet)
    BY DEF Only
  <2> QED BY <2>1, IdleQuiet
<1> QED BY <1>1, <1>2, <1>3, RingPiece

(***************************************************************************)
(* Pairs are rings of two.                                                 *)
(***************************************************************************)
LEMMA PairsTurn ==
  ASSUME NEW R, NEW L, NEW H, NEW f, Partners(R, L, H, f)
  PROVE  /\ Ring(R, L \cup H, f, f)
         /\ Turning(R, Knows(R, L \cup H, f), L \cup H, f, f)
<1>1. Ring(R, L \cup H, f, f)
  BY DEF Partners, Ring
<1>2. \A r \in L \cup H : <<r, f[r]>> \in Knows(R, L \cup H, f)
  BY DEF Knows
<1>3. ASSUME NEW e \in Knows(R, L \cup H, f), NEW S \in SUBSET R, e[1] \in S, e[2] \notin S
      PROVE  \E r \in L \cup H : r \in S /\ f[r] \notin S
  BY <1>3 DEF Knows
<1> QED BY <1>1, <1>2, <1>3 DEF Turning

(***************************************************************************)
(* In a finite ring, where a rank is ahead of the one it sends to, some    *)
(* rank is ahead of the one it receives from: else all ranks that are      *)
(* ahead would receive from ranks that are ahead, one each, which are then *)
(* all of those ahead.                                                     *)
(***************************************************************************)
LEMMA RingTurns ==
  ASSUME NEW R, IsFiniteSet(R), NEW P, NEW next, NEW last, Ring(R, P, next, last)
  PROVE  Turning(R, Knows(R, P, next), P, next, last)
<1>1. \A r \in P : <<r, next[r]>> \in Knows(R, P, next)
  BY DEF Knows
<1>2. ASSUME NEW e \in Knows(R, P, next), NEW S \in SUBSET R, e[1] \in S, e[2] \notin S
      PROVE  \E r \in P : r \in S /\ last[r] \notin S
  <2>1. e[1] \in P /\ e[2] = next[e[1]]
    BY <1>2 DEF Knows
  <2> SUFFICES ASSUME \A r \in P : r \in S => last[r] \in S PROVE FALSE
    OBVIOUS
  <2> DEFINE T == P \cap S
             g == [r \in T |-> last[r]]
  <2>2. IsFiniteSet(T)
    BY FS_Subset
  <2>3. g \in [T -> T]
    BY DEF Ring
  <2>4. g \in Injection(T, T)
    <3>1. \A r, s \in T : g[r] = g[s] => r = s
      BY DEF Ring
    <3> QED BY <2>3, <3>1 DEF Injection, IsInjective
  <2>5. g \in Surjection(T, T)
    BY <2>2, <2>4, FS_Injection
  <2>6. PICK s \in T : g[s] = e[1]
    BY <1>2, <2>1, <2>5 DEF Surjection
  <2>7. next[e[1]] = s
    BY <2>6 DEF Ring
  <2> QED BY <1>2, <2>1, <2>6, <2>7
<1> QED BY <1>1, <1>2 DEF Turning

(***************************************************************************)
(* The messages of a window.                                               *)
(***************************************************************************)
Row(a, b, w) == {<<a + k, b + k>> : k \in 1 .. w}

(***************************************************************************)
(* N pairs a row of w sends after a with a row of w receives after b.      *)
(***************************************************************************)
InRow(N, a, b, w) ==
  /\ Matched(N) /\ Firsts(N) = a + 1 .. a + w /\ Seconds(N) = b + 1 .. b + w
  /\ w # 0 => N # {}

(***************************************************************************)
(* Rows are paired in order.                                               *)
(***************************************************************************)
LEMMA RowMatched ==
  ASSUME NEW a \in Nat, NEW b \in Nat, NEW w \in Nat
  PROVE  InRow(Row(a, b, w), a, b, w)
<1> DEFINE N == Row(a, b, w)
<1>1. ASSUME NEW n \in N
      PROVE  n = <<n[1], n[2]>> /\ \E k \in 1 .. w : n[1] = a + k /\ n[2] = b + k
  <2>1. PICK k \in 1 .. w : n = <<a + k, b + k>>
    BY DEF Row
  <2>2. n[1] = a + k /\ n[2] = b + k
    BY <2>1
  <2> QED BY <2>1, <2>2
<1>2. ASSUME NEW k \in 1 .. w
      PROVE  \E n \in N : n[1] = a + k /\ n[2] = b + k
  <2>1. <<a + k, b + k>> \in N
    BY DEF Row
  <2> DEFINE n == <<a + k, b + k>>
  <2>2. n \in N /\ n[1] = a + k /\ n[2] = b + k
    BY <2>1
  <2> QED BY <2>2
<1>3. ASSUME w # 0 PROVE N # {}
  <2>1. 1 \in 1 .. w
    BY <1>3
  <2> QED BY <1>2, <2>1
<1> HIDE DEF N
<1>4. \A m, n \in N : m[1] < n[1] <=> m[2] < n[2]
  <2> SUFFICES ASSUME NEW m \in N, NEW n \in N PROVE m[1] < n[1] <=> m[2] < n[2]
    OBVIOUS
  <2>1. PICK k \in 1 .. w : m[1] = a + k /\ m[2] = b + k
    BY <1>1
  <2>2. PICK l \in 1 .. w : n[1] = a + l /\ n[2] = b + l
    BY <1>1
  <2> QED BY <2>1, <2>2
<1>5. Matched(N)
  BY <1>1, <1>4 DEF Matched, InOrder
<1>6. ASSUME NEW x PROVE x \in Firsts(N) <=> x \in a + 1 .. a + w
  <2>1. ASSUME x \in Firsts(N) PROVE x \in a + 1 .. a + w
    <3>1. PICK n \in N : x = n[1]
      BY <2>1 DEF Firsts
    <3>2. PICK k \in 1 .. w : n[1] = a + k
      BY <1>1
    <3> QED BY <3>1, <3>2
  <2>2. ASSUME x \in a + 1 .. a + w PROVE x \in Firsts(N)
    <3> DEFINE k == x - a
    <3>1. k \in 1 .. w /\ x = a + k
      BY <2>2
    <3> HIDE DEF k
    <3>2. PICK n \in N : n[1] = a + k
      BY <1>2, <3>1
    <3> QED BY <3>1, <3>2 DEF Firsts
  <2> QED BY <2>1, <2>2
<1>7. ASSUME NEW x PROVE x \in Seconds(N) <=> x \in b + 1 .. b + w
  <2>1. ASSUME x \in Seconds(N) PROVE x \in b + 1 .. b + w
    <3>1. PICK n \in N : x = n[2]
      BY <2>1 DEF Seconds
    <3>2. PICK k \in 1 .. w : n[2] = b + k
      BY <1>1
    <3> QED BY <3>1, <3>2
  <2>2. ASSUME x \in b + 1 .. b + w PROVE x \in Seconds(N)
    <3> DEFINE k == x - b
    <3>1. k \in 1 .. w /\ x = b + k
      BY <2>2
    <3> HIDE DEF k
    <3>2. PICK n \in N : n[2] = b + k
      BY <1>2, <3>1
    <3> QED BY <3>1, <3>2 DEF Seconds
  <2> QED BY <2>1, <2>2
<1>8. Firsts(N) = a + 1 .. a + w /\ Seconds(N) = b + 1 .. b + w
  BY <1>6, <1>7
<1> QED BY <1>3, <1>5, <1>8 DEF N, InRow

(***************************************************************************)
(* Messages of two kinds from one rank to another.                         *)
(***************************************************************************)
LEMMA TalkSendsTwo ==
  ASSUME NEW V, NEW p, NEW i, NEW r, NEW q, NEW N, NEW O, NEW J, NEW K, NEW tag,
         NEW x, NEW a, NEW y, NEW b, NEW source, NEW anytag,
         Only(p[r], i, Firsts(N) \cup Firsts(O), J),
         Posts(p[r], i, Firsts(N), q, tag, x, a), Posts(p[r], i, Firsts(O), q, tag, y, b),
         Only(p[q], i, K, Seconds(N) \cup Seconds(O)),
         Gets(p[q], i, Seconds(N), source, anytag, x, a),
         Gets(p[q], i, Seconds(O), source, anytag, y, b),
         Meant(V, q, source, anytag, r, tag),
         \A n \in N \cup O : n = <<n[1], n[2]>>
  PROVE  Sends(V, p, r, q, N \cup O)
<1>1. ASSUME NEW n \in N \cup O
      PROVE  n = <<n[1], n[2]>> /\ Meeting(V, p[r], r, n[1], p[q], q, n[2])
  <2>1. CASE n \in N
    <3>1. n[1] \in Firsts(N) /\ n[2] \in Seconds(N)
      BY <2>1 DEF Firsts, Seconds
    <3> QED BY <3>1, PostMeets
  <2>2. CASE n \in O
    <3>1. n[1] \in Firsts(O) /\ n[2] \in Seconds(O)
      BY <2>2 DEF Firsts, Seconds
    <3> QED BY <3>1, PostMeets
  <2> QED BY <2>1, <2>2
<1>2. ASSUME NEW k \in 1 .. Len(p[r]), p[r][k].op = "isend"
      PROVE  p[r][k].peer = q /\ \E n \in N \cup O : n[1] = k
  <2>1. k \in Firsts(N) \cup Firsts(O)
    BY <1>2 DEF Only
  <2>2. p[r][k].peer = q
    BY <2>1 DEF Posts
  <2>3. \E n \in N \cup O : n[1] = k
    BY <2>1 DEF Firsts
  <2> QED BY <2>2, <2>3
<1>3. ASSUME NEW l \in 1 .. Len(p[q]), p[q][l].op = "irecv"
      PROVE  \E n \in N \cup O : n[2] = l
  <2>1. l \in Seconds(N) \cup Seconds(O)
    BY <1>3 DEF Only
  <2> QED BY <2>1 DEF Seconds
<1> QED BY <1>1, <1>2, <1>3 DEF Sends

(***************************************************************************)
(* A pair after a row is in order.                                         *)
(***************************************************************************)
LEMMA AfterRow ==
  ASSUME NEW a \in Nat, NEW b \in Nat, NEW w \in Nat, NEW c \in Nat, NEW d \in Nat,
         a + w < c, b + w < d
  PROVE  Matched(Row(a, b, w) \cup One(c, d))
<1> DEFINE N == Row(a, b, w)
           O == One(c, d)
<1>1. Matched(N) /\ Firsts(N) = a + 1 .. a + w /\ Seconds(N) = b + 1 .. b + w
  BY RowMatched DEF InRow
<1>2. \A n \in N : n[1] \in a + 1 .. a + w /\ n[2] \in b + 1 .. b + w
  BY <1>1 DEF Firsts, Seconds
<1>3. \A n \in O : n = <<n[1], n[2]>> /\ n[1] = c /\ n[2] = d
  BY DEF One
<1> HIDE DEF N, O
<1>4. ASSUME NEW m \in N \cup O, NEW n \in N \cup O
      PROVE  m[1] < n[1] <=> m[2] < n[2]
  <2>1. CASE m \in N /\ n \in N
    BY <1>1, <2>1 DEF Matched, InOrder
  <2>2. CASE m \in N /\ n \in O
    BY <1>2, <1>3, <2>2
  <2>3. CASE m \in O /\ n \in N
    BY <1>2, <1>3, <2>3
  <2>4. CASE m \in O /\ n \in O
    BY <1>3, <2>4
  <2> QED BY <2>1, <2>2, <2>3, <2>4
<1>5. \A n \in N \cup O : n = <<n[1], n[2]>>
  BY <1>1, <1>3 DEF Matched
<1>6. Matched(N \cup O)
  BY <1>4, <1>5 DEF Matched, InOrder
<1> QED BY <1>6 DEF N, O

(***************************************************************************)
(* Receives that name their source.                                        *)
(***************************************************************************)
Named(V, R, tag, anytag) == \A q, r \in R : Meant(V, q, r, anytag, r, tag)

(***************************************************************************)
(* A receive that names its source and its tag, on all channels.           *)
(***************************************************************************)
LEMMA NamedSame ==
  ASSUME NEW R, R \subseteq Nat, NEW T, T \subseteq Nat, NEW tag \in T
  PROVE  Named(R \X R \X T, R, tag, tag)
<1>1. ASSUME NEW q \in R, NEW r \in R PROVE Meant(R \X R \X T, q, r, tag, r, tag)
  <2> DEFINE f == [x \in {q} |-> r]
  <2>1. {q} \subseteq R /\ (\A x \in {q} : f[x] \in R) /\ q \in {q} /\ f[q] = r
    OBVIOUS
  <2> HIDE DEF f
  <2>2. Sources(R \X R \X T, {q}, f, f, tag, tag)
    BY <2>1, SameSources
  <2> QED BY <2>1, <2>2 DEF Sources
<1> QED BY <1>1 DEF Named

(***************************************************************************)
(* A receive that names its source, where there is one tag.                *)
(***************************************************************************)
LEMMA NamedAny ==
  ASSUME NEW R, R \subseteq Nat, NEW tag \in Nat
  PROVE  Named(R \X R \X {tag}, R, tag, ANY)
<1> DEFINE V == R \X R \X {tag}
<1>1. \A v \in V : v = <<v[1], v[2], v[3]>> /\ v[3] = tag
  OBVIOUS
<1>2. ASSUME NEW q \in R, NEW r \in R PROVE Meant(V, q, r, ANY, r, tag)
  <2>1. <<r, q, tag>> \in V
    OBVIOUS
  <2>2. r # ANY
    <3>1. r \in Nat
      OBVIOUS
    <3> QED BY <3>1 DEF ANY
  <2> HIDE DEF V
  <2>3. \A v \in V : (q = v[2] /\ r \in {v[1], ANY} /\ ANY \in {v[3], ANY}) <=> v = <<r, q, tag>>
    BY <1>1, <2>2
  <2> QED BY <2>1, <2>3 DEF Meant
<1> QED BY <1>2 DEF Named

(***************************************************************************)
(* Exchange: two messages sent at once, two received one after the other.  *)
(***************************************************************************)
Seven(s, a, b, c, d, e, f, g) ==
  /\ s \in Seq(OpSet) /\ Len(s) = 7
  /\ s[1] = a /\ s[2] = b /\ s[3] = c /\ s[4] = d /\ s[5] = e /\ s[6] = f /\ s[7] = g

(***************************************************************************)
(* Seven operations joined.                                                *)
(***************************************************************************)
LEMMA JoinSeven ==
  ASSUME NEW a \in OpSet, NEW b \in OpSet, NEW c \in OpSet, NEW d \in OpSet, NEW e \in OpSet,
         NEW f \in OpSet, NEW g \in OpSet
  PROVE  Seven(<<a>> \o <<b>> \o (<<c>> \o <<d>>) \o (<<e>> \o <<f>>) \o <<g>>, a, b, c, d, e, f, g)
<1> DEFINE u == <<a>> \o <<b>> \o (<<c>> \o <<d>>)
           v == <<e>> \o <<f>>
<1>1. u \in Seq(OpSet) /\ Len(u) = 4 /\ u[1] = a /\ u[2] = b /\ u[3] = c /\ u[4] = d
  OBVIOUS
<1>2. v \in Seq(OpSet) /\ Len(v) = 2 /\ v[1] = e /\ v[2] = f
  OBVIOUS
<1> HIDE DEF u, v
<1> DEFINE w == u \o v
<1>3. /\ w \in Seq(OpSet) /\ Len(w) = 6
      /\ w[1] = a /\ w[2] = b /\ w[3] = c /\ w[4] = d /\ w[5] = e /\ w[6] = f
  <2>1. Joined(w, u, v)
    BY <1>1, <1>2, JoinIs
  <2> HIDE DEF w
  <2>2. /\ w \in Seq(OpSet) /\ Len(w) = 4 + 2
        /\ \A k \in 1 .. 4 : w[k] = u[k]
        /\ \A k \in 1 .. 2 : w[4 + k] = v[k]
    BY <1>1, <1>2, <2>1 DEF Joined
  <2>3. /\ 1 \in 1 .. 4 /\ 2 \in 1 .. 4 /\ 3 \in 1 .. 4 /\ 4 \in 1 .. 4
        /\ 1 \in 1 .. 2 /\ 2 \in 1 .. 2
    OBVIOUS
  <2>4. w[4 + 1] = e /\ w[4 + 2] = f
    BY <1>2, <2>2, <2>3
  <2>5. w[1] = a /\ w[2] = b /\ w[3] = c /\ w[4] = d
    BY <1>1, <2>2, <2>3
  <2> QED BY <2>2, <2>4, <2>5
<1> HIDE DEF w
<1> DEFINE x == w \o <<g>>
<1>4. /\ x \in Seq(OpSet) /\ Len(x) = 7 /\ x[7] = g
      /\ x[1] = w[1] /\ x[2] = w[2] /\ x[3] = w[3] /\ x[4] = w[4] /\ x[5] = w[5] /\ x[6] = w[6]
  <2>1. <<g>> \in Seq(OpSet) /\ Len(<<g>>) = 1 /\ <<g>>[1] = g
    OBVIOUS
  <2>2. Joined(x, w, <<g>>)
    BY <1>3, <2>1, JoinIs
  <2> HIDE DEF x
  <2>3. /\ x \in Seq(OpSet) /\ Len(x) = 6 + 1
        /\ \A k \in 1 .. 6 : x[k] = w[k]
        /\ \A k \in 1 .. 1 : x[6 + k] = <<g>>[k]
    BY <1>3, <2>1, <2>2 DEF Joined
  <2>4. /\ 1 \in 1 .. 6 /\ 2 \in 1 .. 6 /\ 3 \in 1 .. 6 /\ 4 \in 1 .. 6
        /\ 5 \in 1 .. 6 /\ 6 \in 1 .. 6 /\ 1 \in 1 .. 1
    OBVIOUS
  <2>5. x[6 + 1] = g
    BY <2>1, <2>3, <2>4
  <2> QED BY <2>3, <2>4, <2>5
<1> HIDE DEF x
<1>5. Seven(x, a, b, c, d, e, f, g)
  BY <1>3, <1>4 DEF Seven
<1> QED BY <1>5 DEF x, w, u, v

(***************************************************************************)
(* The operations of a body of Exchange, with their times.                 *)
(***************************************************************************)
SevenTimes(i, a, b, c, d, e, f, g) ==
  /\ a.iter = i /\ b.iter = i /\ c.iter = i /\ d.iter = i /\ e.iter = i
  /\ f.iter = i /\ g.iter = i
  /\ a.time = 16 * i + 0 /\ b.time = 16 * i + 0 /\ c.time = 16 * i + 0
  /\ d.time = 16 * i + 1 /\ e.time = 16 * i + 1 /\ f.time = 16 * i + 2
  /\ g.time = 16 * i + 2
  /\ a.op = "isend" /\ b.op = "isend" /\ c.op = "irecv" /\ d.op = "wait_irecv"
  /\ e.op = "irecv" /\ f.op = "wait_irecv" /\ g.op = "waitall"

(***************************************************************************)
(* They come one after the other.                                          *)
(***************************************************************************)
LEMMA SevenSteps ==
  ASSUME NEW s, NEW i \in Nat, NEW a, NEW b, NEW c, NEW d, NEW e, NEW f, NEW g,
         Seven(s, a, b, c, d, e, f, g), SevenTimes(i, a, b, c, d, e, f, g)
  PROVE  /\ Steps(s, i) /\ Await(s, 1, 16 * i + 1) /\ Await(s, 2, 16 * i + 1)
         /\ Await(s, 3, 16 * i) /\ Await(s, 5, 16 * i)
<1> DEFINE I == {1, 2, 3, 4, 5, 6, 7}
<1>0. /\ a.iter = i /\ b.iter = i /\ c.iter = i /\ d.iter = i /\ e.iter = i
      /\ f.iter = i /\ g.iter = i
      /\ a.time = 16 * i + 0 /\ b.time = 16 * i + 0 /\ c.time = 16 * i + 0
      /\ d.time = 16 * i + 1 /\ e.time = 16 * i + 1 /\ f.time = 16 * i + 2
      /\ g.time = 16 * i + 2
      /\ a.op = "isend" /\ b.op = "isend" /\ c.op = "irecv" /\ d.op = "wait_irecv"
      /\ e.op = "irecv" /\ f.op = "wait_irecv" /\ g.op = "waitall"
  BY DEF SevenTimes
<1>1. /\ Len(s) = 7 /\ s[1] = a /\ s[2] = b /\ s[3] = c /\ s[4] = d /\ s[5] = e
      /\ s[6] = f /\ s[7] = g
  BY DEF Seven
<1>2. 1 .. 7 = I
  OBVIOUS
<1>3. ASSUME NEW k \in I
      PROVE  /\ s[k].iter = i /\ 16 * i <= s[k].time /\ s[k].time < 16 * i + 15
             /\ s[k].op # "barrier"
  BY <1>0, <1>1
<1>4. ASSUME NEW k \in I, NEW l \in I, k <= l PROVE s[k].time <= s[l].time
  <2> DEFINE t == 16 * i
  <2>1. t \in Nat
    OBVIOUS
  <2>2. /\ s[1].time = t /\ s[2].time = t /\ s[3].time = t /\ s[4].time = t + 1
        /\ s[5].time = t + 1 /\ s[6].time = t + 2 /\ s[7].time = t + 2
    BY <1>0, <1>1
  <2> HIDE DEF t
  <2>3. CASE k \in {1, 2, 3}
    <3>1. s[k].time = t
      BY <2>2, <2>3
    <3>2. s[l].time \in {t, t + 1, t + 2}
      BY <2>2
    <3> QED BY <2>1, <3>1, <3>2
  <2>4. CASE k \in {4, 5}
    <3>1. l \in {4, 5, 6, 7}
      BY <1>4, <2>4
    <3>2. s[k].time = t + 1 /\ s[l].time \in {t + 1, t + 2}
      BY <2>2, <2>4, <3>1
    <3> QED BY <2>1, <3>2
  <2>5. CASE k \in {6, 7}
    <3>1. l \in {6, 7}
      BY <1>4, <2>5
    <3>2. s[k].time = t + 2 /\ s[l].time = t + 2
      BY <2>2, <2>5, <3>1
    <3> QED BY <2>1, <3>2
  <2> QED BY <2>3, <2>4, <2>5
<1>5. ASSUME NEW k \in I, s[k].op \in {"isend", "irecv"}
      PROVE  \E l \in I : k < l /\ s[l].op \in Waits /\ s[k].op \in Awaited(s[l].op)
  <2>1. k # 7 /\ k < 7 /\ 7 \in I
    BY <1>0, <1>1, <1>5
  <2>2. s[7].op \in Waits /\ s[k].op \in Awaited(s[7].op)
    BY <1>0, <1>1, <1>5 DEF Waits, Awaited
  <2> QED BY <2>1, <2>2
<1>6. ASSUME NEW l \in I, s[l].op \in Waits
      PROVE  16 * i < s[l].time /\ ("isend" \in Awaited(s[l].op) => 16 * i + 1 < s[l].time)
  <2>1. l \in {4, 6, 7}
    BY <1>0, <1>1, <1>6 DEF Waits
  <2> QED BY <1>0, <1>1, <2>1 DEF Awaited
<1>7. Steps(s, i)
  BY <1>0, <1>1, <1>2, <1>3, <1>4, <1>5 DEF Steps
<1>8. Await(s, 1, 16 * i + 1)
  BY <1>0, <1>1, <1>2, <1>6 DEF Await
<1>9. Await(s, 2, 16 * i + 1)
  BY <1>0, <1>1, <1>2, <1>6 DEF Await
<1>10. Await(s, 3, 16 * i)
  BY <1>0, <1>1, <1>2, <1>6 DEF Await
<1>11. Await(s, 5, 16 * i)
  BY <1>0, <1>1, <1>2, <1>6 DEF Await
<1> QED BY <1>7, <1>8, <1>9, <1>10, <1>11

(***************************************************************************)
(* The sends of d1 and d2, what they mean, and the receives of s3 and s5.  *)
(***************************************************************************)
Exchanged(s, i, tag, anytag, d1, x1, d2, x2, s3, x3, s5, x5) ==
  /\ s \in Seq(OpSet) /\ Len(s) = 7 /\ Steps(s, i)
  /\ \A k \in 1 .. 7 : /\ s[k].op = "isend" => k \in {1, 2}
                       /\ s[k].op = "irecv" => k \in {3, 5}
  /\ Out(s[1], d1, tag, x1, i, 0) /\ Await(s, 1, 16 * i + 1)
  /\ Out(s[2], d2, tag, x2, i, 0) /\ Await(s, 2, 16 * i + 1)
  /\ In(s[3], s3, anytag, x3, i, 0) /\ Await(s, 3, 16 * i)
  /\ In(s[5], s5, anytag, x5, i, 1) /\ Await(s, 5, 16 * i)

(***************************************************************************)
(* The edges to both neighbours in a ring.                                 *)
(***************************************************************************)
Mutual(R, P, next, last) ==
  {<<r, r>> : r \in R} \cup {<<r, next[r]>> : r \in P} \cup {<<r, last[r]>> : r \in P}

(***************************************************************************)
(* The message x to the next rank is send a and receive 3, the message y   *)
(* to the last one is send b and receive 5.                                *)
(***************************************************************************)
Exchanges(s, i, tag, anytag, to, from, x, y, a, b) ==
  /\ s \in Seq(OpSet) /\ Len(s) = 7 /\ Steps(s, i)
  /\ \A k \in 1 .. 7 : /\ s[k].op = "isend" => k \in {a, b}
                       /\ s[k].op = "irecv" => k \in {3, 5}
  /\ Out(s[a], to, tag, x, i, 0) /\ Await(s, a, 16 * i + 1)
  /\ Out(s[b], from, tag, y, i, 0) /\ Await(s, b, 16 * i + 1)
  /\ In(s[3], from, anytag, x, i, 0) /\ Await(s, 3, 16 * i)
  /\ In(s[5], to, anytag, y, i, 1) /\ Await(s, 5, 16 * i)

(***************************************************************************)
(* The body of Exchange is a piece, also where both neighbours are the     *)
(* same rank, if what goes to the right is then received first.            *)
(***************************************************************************)
LEMMA ExchangeBody ==
  ASSUME NEW R, NEW V, NEW p, NEW next, NEW last, Ring(R, R, next, last), NEW i \in Nat,
         NEW tag, NEW anytag, Named(V, R, tag, anytag), p = [r \in R |-> p[r]],
         NEW x, NEW y, NEW a \in {1, 2}, NEW b \in {1, 2}, a # b,
         a < b \/ \A r \in R : next[r] # last[r],
         \A r \in R : Exchanges(p[r], i, tag, anytag, next[r], last[r], x, y, a, b)
  PROVE  Piece(R, V, Mutual(R, R, next, last), p, 16 * i, 16 * i + 15)
<1> DEFINE D == Mutual(R, R, next, last)
           A == {<<r, a, next[r], 3>> : r \in R}
           B == {<<r, b, last[r], 5>> : r \in R}
           Q == A \cup B
<1>1. ASSUME NEW r \in R
      PROVE  /\ p[r] \in Seq(OpSet) /\ Len(p[r]) = 7 /\ Steps(p[r], i)
             /\ \A k \in 1 .. 7 : /\ p[r][k].op = "isend" => k \in {a, b}
                                  /\ p[r][k].op = "irecv" => k \in {3, 5}
  BY DEF Exchanges
<1>2. ASSUME NEW r \in R
      PROVE  /\ p[r][a].op = "isend" /\ p[r][a].peer = next[r] /\ p[r][a].tag = tag
             /\ p[r][a].what = <<x, i>> /\ p[r][a].time = 16 * i /\ Await(p[r], a, 16 * i + 1)
  <2>1. Out(p[r][a], next[r], tag, x, i, 0) /\ Await(p[r], a, 16 * i + 1)
    BY DEF Exchanges
  <2> QED BY <2>1 DEF Out
<1>3. ASSUME NEW r \in R
      PROVE  /\ p[r][b].op = "isend" /\ p[r][b].peer = last[r] /\ p[r][b].tag = tag
             /\ p[r][b].what = <<y, i>> /\ p[r][b].time = 16 * i /\ Await(p[r], b, 16 * i + 1)
  <2>1. Out(p[r][b], last[r], tag, y, i, 0) /\ Await(p[r], b, 16 * i + 1)
    BY DEF Exchanges
  <2> QED BY <2>1 DEF Out
<1>4. ASSUME NEW r \in R
      PROVE  /\ p[r][3].op = "irecv" /\ p[r][3].peer = last[r] /\ p[r][3].tag = anytag
             /\ p[r][3].what = <<x, i>> /\ p[r][3].time = 16 * i /\ Await(p[r], 3, 16 * i)
  <2>1. In(p[r][3], last[r], anytag, x, i, 0) /\ Await(p[r], 3, 16 * i)
    BY DEF Exchanges
  <2> QED BY <2>1 DEF In
<1>5. ASSUME NEW r \in R
      PROVE  /\ p[r][5].op = "irecv" /\ p[r][5].peer = next[r] /\ p[r][5].tag = anytag
             /\ p[r][5].what = <<y, i>> /\ p[r][5].time = 16 * i + 1 /\ Await(p[r], 5, 16 * i)
  <2>1. In(p[r][5], next[r], anytag, y, i, 1) /\ Await(p[r], 5, 16 * i)
    BY DEF Exchanges
  <2> QED BY <2>1 DEF In
<1>6. \A r \in R : /\ next[r] \in R /\ last[r] \in R
                   /\ last[next[r]] = r /\ next[last[r]] = r
  BY DEF Ring
<1>7. ASSUME NEW r \in R PROVE Await(p[r], a, 16 * i)
  <2> SUFFICES ASSUME NEW l \in 1 .. Len(p[r]), a < l, p[r][l].op \in Waits,
                      p[r][a].op \in Awaited(p[r][l].op)
               PROVE  16 * i < p[r][l].time
    BY DEF Await
  <2> DEFINE t == p[r][l].time
  <2>1. 16 * i + 1 < t
    BY <1>2 DEF Await
  <2>2. t \in Nat
    <3>1. p[r][l] \in OpSet
      BY <1>1
    <3> QED BY <3>1 DEF OpSet
  <2> HIDE DEF t
  <2>3. 16 * i < t
    BY <2>1, <2>2
  <2> QED BY <2>3 DEF t
<1>8. /\ a \in 1 .. 7 /\ b \in 1 .. 7 /\ 3 \in 1 .. 7 /\ 5 \in 1 .. 7
  OBVIOUS
<1>9. ASSUME NEW r \in R
      PROVE  /\ Meeting(V, p[r], r, a, p[next[r]], next[r], 3)
             /\ Meeting(V, p[r], r, b, p[last[r]], last[r], 5)
  <2>1. Meeting(V, p[r], r, a, p[next[r]], next[r], 3)
    <3> DEFINE q == next[r]
               s == p[r]
               t == p[q]
    <3>1. q \in R /\ last[q] = r
      BY <1>6
    <3>2. a \in 1 .. Len(s) /\ 3 \in 1 .. Len(t)
      BY <1>1, <1>8, <3>1
    <3>3. Meant(V, q, t[3].peer, t[3].tag, r, s[a].tag)
      BY <1>2, <1>4, <3>1 DEF Named
    <3>4. /\ s[a].op = "isend" /\ s[a].peer = q /\ t[3].op = "irecv" /\ s[a].what = t[3].what
      BY <1>2, <1>4, <3>1
    <3>5. Await(s, a, t[3].time) /\ Await(t, 3, s[a].time)
      BY <1>2, <1>4, <1>7, <3>1
    <3> HIDE DEF q, s, t
    <3>6. Meeting(V, s, r, a, t, q, 3)
      BY <3>2, <3>3, <3>4, <3>5, MeetingIs
    <3> QED BY <3>6 DEF q, s, t
  <2>2. Meeting(V, p[r], r, b, p[last[r]], last[r], 5)
    <3> DEFINE q == last[r]
               s == p[r]
               t == p[q]
    <3>1. q \in R /\ next[q] = r
      BY <1>6
    <3>2. b \in 1 .. Len(s) /\ 5 \in 1 .. Len(t)
      BY <1>1, <1>8, <3>1
    <3>3. Meant(V, q, t[5].peer, t[5].tag, r, s[b].tag)
      BY <1>3, <1>5, <3>1 DEF Named
    <3>4. /\ s[b].op = "isend" /\ s[b].peer = q /\ t[5].op = "irecv" /\ s[b].what = t[5].what
      BY <1>3, <1>5, <3>1
    <3>5. Await(s, b, t[5].time) /\ Await(t, 5, s[b].time)
      BY <1>3, <1>5, <3>1
    <3> HIDE DEF q, s, t
    <3>6. Meeting(V, s, r, b, t, q, 5)
      BY <3>2, <3>3, <3>4, <3>5, MeetingIs
    <3> QED BY <3>6 DEF q, s, t
  <2> QED BY <2>1, <2>2
<1>10. ASSUME NEW r \in R
       PROVE  <<r, a, next[r], 3>> \in Q /\ <<r, b, last[r], 5>> \in Q
  OBVIOUS
<1>11. ASSUME NEW u \in Q
       PROVE  /\ u = <<u[1], u[2], u[3], u[4]>> /\ u[1] \in R
              /\ \/ u[2] = a /\ u[3] = next[u[1]] /\ u[4] = 3
                 \/ u[2] = b /\ u[3] = last[u[1]] /\ u[4] = 5
  <2>1. CASE u \in A
    <3>1. PICK r \in R : u = <<r, a, next[r], 3>>
      BY <2>1
    <3> QED BY <3>1
  <2>2. CASE u \in B
    <3>1. PICK r \in R : u = <<r, b, last[r], 5>>
      BY <2>2
    <3> QED BY <3>1
  <2> QED BY <2>1, <2>2
<1> HIDE DEF Q, A, B
<1>12. Local(R, p, i, D)
  <2>1. p \in [R -> Seq(OpSet)]
    BY <1>1
  <2>2. ASSUME NEW r \in R, NEW k \in 1 .. Len(p[r]), p[r][k].op = "isend"
        PROVE  <<r, p[r][k].peer>> \in D
    <3>1. k \in {a, b}
      BY <1>1, <2>2
    <3>2. p[r][k].peer \in {next[r], last[r]}
      BY <1>2, <1>3, <3>1
    <3> QED BY <3>2 DEF Mutual
  <2> QED BY <1>1, <2>1, <2>2 DEF Local
<1>13. \A u \in Q : /\ u = <<u[1], u[2], u[3], u[4]>> /\ u[1] \in R /\ u[3] \in R
                    /\ Meeting(V, p[u[1]], u[1], u[2], p[u[3]], u[3], u[4])
  <2> SUFFICES ASSUME NEW u \in Q
               PROVE  /\ u = <<u[1], u[2], u[3], u[4]>> /\ u[1] \in R /\ u[3] \in R
                      /\ Meeting(V, p[u[1]], u[1], u[2], p[u[3]], u[3], u[4])
    OBVIOUS
  <2>1. u[1] \in R
    BY <1>11
  <2>2. CASE u[2] = a /\ u[3] = next[u[1]] /\ u[4] = 3
    BY <1>6, <1>9, <1>11, <2>1, <2>2
  <2>3. CASE u[2] = b /\ u[3] = last[u[1]] /\ u[4] = 5
    BY <1>6, <1>9, <1>11, <2>1, <2>3
  <2> QED BY <1>11, <2>2, <2>3
<1>14. \A r \in R : \A k \in 1 .. Len(p[r]) :
         /\ p[r][k].op = "isend" => \E u \in Q : u[1] = r /\ u[2] = k
         /\ p[r][k].op = "irecv" => \E u \in Q : u[3] = r /\ u[4] = k
  <2> SUFFICES ASSUME NEW r \in R, NEW k \in 1 .. Len(p[r])
               PROVE  /\ p[r][k].op = "isend" => \E u \in Q : u[1] = r /\ u[2] = k
                      /\ p[r][k].op = "irecv" => \E u \in Q : u[3] = r /\ u[4] = k
    OBVIOUS
  <2>1. ASSUME p[r][k].op = "isend" PROVE \E u \in Q : u[1] = r /\ u[2] = k
    <3>1. k \in {a, b}
      BY <1>1, <2>1
    <3> DEFINE u == <<r, a, next[r], 3>>
               v == <<r, b, last[r], 5>>
    <3>2. u \in Q /\ v \in Q /\ u[1] = r /\ u[2] = a /\ v[1] = r /\ v[2] = b
      BY <1>10
    <3> HIDE DEF u, v
    <3> QED BY <3>1, <3>2
  <2>2. ASSUME p[r][k].op = "irecv" PROVE \E u \in Q : u[3] = r /\ u[4] = k
    <3>1. k \in {3, 5}
      BY <1>1, <2>2
    <3> DEFINE l == last[r]
               n == next[r]
               u == <<l, a, next[l], 3>>
               v == <<n, b, last[n], 5>>
    <3>2. l \in R /\ n \in R /\ next[l] = r /\ last[n] = r
      BY <1>6
    <3>3. u \in Q /\ v \in Q /\ u[3] = next[l] /\ u[4] = 3 /\ v[3] = last[n] /\ v[4] = 5
      BY <1>10, <3>2
    <3> HIDE DEF l, n, u, v
    <3> QED BY <3>1, <3>2, <3>3
  <2> QED BY <2>1, <2>2
<1>15. \A u, v \in Q :
         (u[1] = v[1] /\ p[u[1]][u[2]].peer = p[v[1]][v[2]].peer
            /\ p[u[1]][u[2]].tag = p[v[1]][v[2]].tag)
           => (u[2] < v[2] <=> u[4] < v[4])
  <2> SUFFICES ASSUME NEW u \in Q, NEW v \in Q, u[1] = v[1],
                      p[u[1]][u[2]].peer = p[v[1]][v[2]].peer
               PROVE  u[2] < v[2] <=> u[4] < v[4]
    OBVIOUS
  <2>1. u[1] \in R /\ v[1] \in R
    BY <1>11
  <2>2. CASE u[2] = a /\ u[4] = 3 /\ v[2] = a /\ v[4] = 3
    BY <2>2
  <2>3. CASE u[2] = b /\ u[4] = 5 /\ v[2] = b /\ v[4] = 5
    BY <2>3
  <2>4. CASE u[2] = a /\ u[4] = 3 /\ v[2] = b /\ v[4] = 5
    <3>1. next[u[1]] = last[u[1]]
      BY <1>2, <1>3, <2>1, <2>4
    <3> QED BY <2>1, <2>4, <3>1
  <2>5. CASE u[2] = b /\ u[4] = 5 /\ v[2] = a /\ v[4] = 3
    <3>1. next[u[1]] = last[u[1]]
      BY <1>2, <1>3, <2>1, <2>5
    <3> QED BY <2>1, <2>5, <3>1
  <2> QED BY <1>11, <2>2, <2>3, <2>4, <2>5
<1>16. \A e \in D : \A S \in SUBSET R :
         e[1] \in S /\ e[2] \notin S => \E u \in Q : u[3] \in S /\ u[1] \notin S
  <2> SUFFICES ASSUME NEW e \in D, NEW S \in SUBSET R, e[1] \in S, e[2] \notin S
               PROVE  \E u \in Q : u[3] \in S /\ u[1] \notin S
    OBVIOUS
  <2>1. e[1] \in R /\ (e[2] = next[e[1]] \/ e[2] = last[e[1]])
    BY DEF Mutual
  <2> DEFINE q == e[2]
  <2>2. CASE e[2] = next[e[1]]
    <3>1. q \in R /\ last[q] = e[1]
      BY <1>6, <2>1, <2>2
    <3> DEFINE u == <<q, b, last[q], 5>>
    <3>2. u \in Q /\ u[1] = q /\ u[3] = last[q]
      BY <1>10, <3>1
    <3> HIDE DEF u
    <3> QED BY <3>1, <3>2
  <2>3. CASE e[2] = last[e[1]]
    <3>1. q \in R /\ next[q] = e[1]
      BY <1>6, <2>1, <2>3
    <3> DEFINE u == <<q, a, next[q], 3>>
    <3>2. u \in Q /\ u[1] = q /\ u[3] = next[q]
      BY <1>10, <3>1
    <3> HIDE DEF u
    <3> QED BY <3>1, <3>2
  <2> QED BY <2>1, <2>2, <2>3
<1>17. Messages(R, V, p, Q, D)
  BY <1>13, <1>14, <1>15, <1>16 DEF Messages
<1> HIDE DEF D
<1>18. Piece(R, V, D, p, 16 * i, 16 * i + 15)
  BY <1>12, <1>17, BodyPiece
<1> QED BY <1>18 DEF D

-----------------------------------------------------------------------------
(***************************************************************************)
(* The two halves of an even number of ranks, and the partners in them.    *)
(***************************************************************************)
Low(c) == 0 .. (c.np \div 2) - 1

(***************************************************************************)
(* The ranks of the upper half.                                            *)
(***************************************************************************)
High(c) == c.np \div 2 .. c.np - 1

(***************************************************************************)
(* The partner in the other half.                                          *)
(***************************************************************************)
Half(c) ==
  [r \in 0 .. c.np - 1 |-> IF r < c.np \div 2 THEN r + c.np \div 2 ELSE r - c.np \div 2]

(***************************************************************************)
(* Two halves make the whole.                                              *)
(***************************************************************************)
LEMMA TwoHalves ==
  ASSUME NEW h \in Nat \ {0}
  PROVE  /\ (0 .. h - 1) \cup (h .. 2 * h - 1) = 0 .. 2 * h - 1
         /\ (0 .. h - 1) \cap (h .. 2 * h - 1) = {}
<1>1. \A r \in Int : r \in 0 .. 2 * h - 1 <=> r \in 0 .. h - 1 \/ r \in h .. 2 * h - 1
  OBVIOUS
<1> QED BY <1>1

(***************************************************************************)
(* Sendrecv and exchange: rings in which the next rank is the one at the   *)
(* distance s.                                                             *)
(***************************************************************************)
Ahead(c, s) == [r \in 0 .. c.np - 1 |-> (r + s) % c.np]

(***************************************************************************)
(* The rank s places before.                                               *)
(***************************************************************************)
Behind(c, s) == [r \in 0 .. c.np - 1 |-> (r + c.np - s) % c.np]

(***************************************************************************)
(* What the remainder is where the wrap is at most once.                   *)
(***************************************************************************)
LEMMA WrapIs ==
  ASSUME NEW n \in Nat \ {0}, NEW k \in 0 .. 2 * n - 1
  PROVE  k % n = IF k < n THEN k ELSE k - n
OBVIOUS

(***************************************************************************)
(* Uniband and Biband: pairs of ranks that exchange windows.  Where the    *)
(* window is empty nothing keeps them in step.                             *)
(***************************************************************************)
EdgesOf(c, R, P, f) == IF c.window = 0 THEN {} ELSE Knows(R, P, f)

(***************************************************************************)
(* Quotient and remainder of a number given by both.                       *)
(***************************************************************************)
LEMMA DivIs ==
  ASSUME NEW s \in Nat \ {0}, NEW q \in Nat, NEW m \in 0 .. s - 1
  PROVE  (s * q + m) \div s = q /\ (s * q + m) % s = m /\ s * q + m \in Nat
OBVIOUS

(***************************************************************************)
(* Every number has a quotient and a remainder.                            *)
(***************************************************************************)
LEMMA DivisionOf ==
  ASSUME NEW s \in Nat \ {0}, NEW r \in Nat
  PROVE  \E q \in Nat, m \in 0 .. s - 1 : r = s * q + m
<1>1. r = s * (r \div s) + (r % s) /\ r \div s \in Nat /\ r % s \in 0 .. s - 1
  OBVIOUS
<1> QED BY <1>1

(***************************************************************************)
(* Products are in the order of their factors.                             *)
(***************************************************************************)
LEMMA TimesMonotone ==
  ASSUME NEW s \in Nat, NEW a \in Nat, NEW b \in Nat, a <= b
  PROVE  s * a <= s * b /\ s * a \in Nat /\ s * b \in Nat
<1>1. PICK d \in Nat : b = a + d
  OBVIOUS
<1>2. s * b = s * a + s * d /\ s * d \in Nat /\ s * a \in Nat
  BY <1>1
<1> QED BY <1>2

(***************************************************************************)
(* Where the pair of groups of a rank is complete, its partner is a rank   *)
(* of the same pair of groups.                                             *)
(***************************************************************************)
LEMMA EvenPartner ==
  ASSUME NEW n \in Nat \ {0}, NEW s \in Nat \ {0}, NEW r \in 0 .. n - 1,
         (r \div s) \div 2 = n \div (2 * s) => n % (2 * s) = 0,
         (r \div s) % 2 = 0
  PROVE  /\ r + s \in 0 .. n - 1
         /\ (r + s) \div s = r \div s + 1
         /\ ((r + s) \div s) \div 2 = (r \div s) \div 2
         /\ ((r + s) \div s) % 2 # 0
<1>1. r \in Nat /\ 2 * s \in Nat \ {0} /\ n \in Nat
  OBVIOUS
<1>2. PICK g \in Nat, m \in 0 .. s - 1 : r = s * g + m
  BY <1>1, DivisionOf
<1>3. r \div s = g
  BY <1>2, DivIs
<1>4. PICK h \in Nat : g = 2 * h
  BY <1>3
<1>5. h = g \div 2
  BY <1>4
<1>6. PICK k \in Nat : k = g + 1 /\ r + s = s * k + m
  <2>1. g + 1 \in Nat /\ r + s = s * (g + 1) + m
    BY <1>2
  <2> QED BY <2>1
<1>7. (r + s) \div s = g + 1
  <2>1. (s * k + m) \div s = k
    BY DivIs
  <2> QED BY <1>6, <2>1
<1>8. (g + 1) \div 2 = h /\ (g + 1) % 2 # 0
  BY <1>4
<1>9. PICK q \in Nat, u \in 0 .. 2 * s - 1 : n = (2 * s) * q + u
  BY <1>1, DivisionOf
<1>10. n \div (2 * s) = q /\ n % (2 * s) = u
  BY <1>1, <1>9, DivIs
<1>11. h = q => u = 0
  BY <1>3, <1>5, <1>10
<1>12. r = (2 * s) * h + m
  BY <1>2, <1>4
<1> DEFINE t == 2 * s
<1>13. t \in Nat /\ t = s + s
  OBVIOUS
<1>14. n = t * q + u /\ r = t * h + m /\ r < n /\ u < t
  BY <1>9, <1>12
<1> HIDE DEF t
<1>15. t * q \in Nat /\ t * h \in Nat
  BY <1>13
<1>16. h < q
  <2>1. CASE h = q
    BY <2>1, <1>11, <1>14, <1>15
  <2>2. CASE h > q
    <3>1. t * (q + 1) <= t * h /\ t * (q + 1) = t * q + t
      BY <2>2, <1>13, TimesMonotone
    <3> QED BY <3>1, <1>13, <1>14, <1>15
  <2> QED BY <2>1, <2>2
<1>17. t * (h + 1) <= t * q /\ t * (h + 1) = t * h + t
  BY <1>16, <1>13, TimesMonotone
<1>18. r + s < n
  BY <1>13, <1>14, <1>15, <1>17
<1> QED BY <1>1, <1>3, <1>5, <1>7, <1>8, <1>18

(***************************************************************************)
(* The partner of a rank in an odd group is in the group before, of the    *)
(* same pair of groups.                                                    *)
(***************************************************************************)
LEMMA OddPartner ==
  ASSUME NEW n \in Nat \ {0}, NEW s \in Nat \ {0}, NEW r \in 0 .. n - 1,
         (r \div s) % 2 # 0
  PROVE  /\ r - s \in 0 .. n - 1
         /\ (r - s) \div s = r \div s - 1
         /\ ((r - s) \div s) \div 2 = (r \div s) \div 2
         /\ ((r - s) \div s) % 2 = 0
<1>1. r \in Nat
  OBVIOUS
<1>2. PICK g \in Nat, m \in 0 .. s - 1 : r = s * g + m
  BY <1>1, DivisionOf
<1>3. r \div s = g
  BY <1>2, DivIs
<1>4. PICK h \in Nat : g = 2 * h + 1
  <2>1. g = 2 * (g \div 2) + 1 /\ g \div 2 \in Nat
    BY <1>3
  <2> QED BY <2>1
<1>5. PICK k \in Nat : g = k + 1 /\ k = 2 * h
  BY <1>4
<1>6. r - s = s * k + m /\ s * k + m \in Nat
  BY <1>2, <1>5
<1>7. (r - s) \div s = k
  BY <1>6, DivIs
<1>8. k \div 2 = h /\ k % 2 = 0 /\ g \div 2 = h
  BY <1>5
<1>9. r - s \in 0 .. n - 1
  BY <1>6
<1> QED BY <1>3, <1>5, <1>7, <1>8, <1>9

(***************************************************************************)
(* Nothing, however often, is nothing.                                     *)
(***************************************************************************)
LEMMA NothingTimes ==
  ASSUME NEW n \in Nat, NEW s, s = [i \in 1 .. n |-> <<>>]
  PROVE  FlattenSeq(s) = <<>>
<1> DEFINE R == {0}
           G == [i \in 1 .. n |-> Everyone(R, <<>>)]
           T == [i \in 0 .. n |-> 0]
<1>1. T \in [0 .. n -> Nat] /\ T[n] = 0 /\ T[0] = 0
  OBVIOUS
<1>2. ASSUME NEW i \in 1 .. n
      PROVE  T[i - 1] <= T[i] /\ Piece(R, {}, {}, G[i], T[i - 1], T[i])
  <2>1. T[i - 1] = 0 /\ T[i] = 0 /\ G[i] = Everyone(R, <<>>) /\ 0 \in Nat
    OBVIOUS
  <2>2. \A j \in Nat : ~ (0 <= 16 * j /\ 16 * j < 0)
    OBVIOUS
  <2> HIDE DEF T, G
  <2>3. Piece(R, {}, {}, G[i], 0, 0)
    BY <2>1, <2>2, PieceNothing
  <2> QED BY <2>1, <2>3
<1>3. \A i \in 1 .. n : G[i][0] = <<>>
  BY DEF Everyone
<1> HIDE DEF G, T
<1>4. Piece(R, {}, {}, Loop(R, n, G), 0, 0)
  BY <1>1, <1>2, PieceTimes
<1> DEFINE p == Loop(R, n, G)
<1>5. p \in [R -> Seq(OpSet)] /\ Within(p, 0, 0)
  BY <1>4 DEF Piece
<1>6. [i \in 1 .. n |-> G[i][0]] = s
  BY <1>3
<1>7. p[0] = FlattenSeq(s)
  BY <1>6 DEF Loop
<1> HIDE DEF p
<1>8. ASSUME p[0] # <<>> PROVE FALSE
  <2>1. p[0] \in Seq(OpSet) /\ 1 \in 1 .. Len(p[0]) /\ DOMAIN p = R
    BY <1>5, <1>8
  <2>2. <<0, 1>> \in Operations(p) /\ OpOf(p, <<0, 1>>) = p[0][1]
    BY <1>5, <2>1, OperationsAre DEF OpOf
  <2>3. p[0][1].time \in Nat
    <3>1. p[0][1] \in OpSet
      BY <2>1
    <3> DEFINE e == p[0][1]
    <3> HIDE DEF e
    <3>2. e \in OpSet
      BY <3>1 DEF e
    <3>3. e.time \in Nat
      BY <3>2 DEF OpSet
    <3> QED BY <3>3 DEF e
  <2> QED BY <1>5, <2>2, <2>3 DEF Within
<1> QED BY <1>7, <1>8

(***************************************************************************)
(* A piece whose operations are in a smaller interval, and one in which    *)
(* barriers come first.                                                    *)
(***************************************************************************)
LEMMA PieceNarrows ==
  ASSUME NEW R, NEW V, NEW D, NEW p, NEW a \in Int, NEW b \in Int, NEW c \in Int, NEW d \in Int,
         Piece(R, V, D, p, a, b), Within(p, c, d), a <= c, d <= b
  PROVE  Piece(R, V, D, p, c, d)
<1>1. PICK M : Pairs(p, V, M) /\ Listens(p, M, D, a, b)
  BY DEF Piece
<1>2. Listens(p, M, D, c, d)
  <2> SUFFICES ASSUME NEW j \in Nat, c <= 16 * j, 16 * j < d
               PROVE  Meets(p, j) \/ Hears(p, M, D, j)
    BY DEF Listens
  <2>1. a <= 16 * j /\ 16 * j < b
    OBVIOUS
  <2> QED BY <1>1, <2>1 DEF Listens
<1> QED BY <1>1, <1>2 DEF Piece

-----------------------------------------------------------------------------
(***************************************************************************)
(* Where each iteration has a barrier a piece is one for all edges.        *)
(***************************************************************************)
LEMMA PieceLifts ==
  ASSUME NEW R, NEW V, NEW p, NEW a, NEW b, Piece(R, V, {}, p, a, b), NEW D, Along(p, D),
         \A j \in Nat : a <= 16 * j /\ 16 * j < b => Meets(p, j)
  PROVE  Piece(R, V, D, p, a, b)
<1>1. PICK M : Pairs(p, V, M)
  BY DEF Piece
<1>2. Listens(p, M, D, a, b)
  BY DEF Listens
<1> QED BY <1>1, <1>2 DEF Piece

(***************************************************************************)
(* The reports of IMB-P2P.                                                 *)
(***************************************************************************)
Collects(t, m, i) ==
  /\ t \in Seq(OpSet) /\ Len(t) = 2 * m
  /\ \A s \in 1 .. m : /\ In(t[2 * s - 1], s, 1, "report", i, 2)
                       /\ Pause(t[2 * s], "wait_irecv", i, 2)

(***************************************************************************)
(* An index of a sequence of pairs is of the first or the second of one.   *)
(***************************************************************************)
LEMMA TwoPlaces ==
  ASSUME NEW m \in Nat, NEW k \in 1 .. 2 * m
  PROVE  \E s \in 1 .. m : k = 2 * s - 1 \/ k = 2 * s
<1> DEFINE s == (k + 1) \div 2
<1>1. s \in 1 .. m /\ (k = 2 * s - 1 \/ k = 2 * s)
  OBVIOUS
<1> QED BY <1>1

(***************************************************************************)
(* What that means for the sequence of its operations.                     *)
(***************************************************************************)
Collected(t, m, i) ==
  /\ Steps(t, i)
  /\ \A k \in 1 .. Len(t) : /\ t[k].time = 16 * i + 2
                            /\ t[k].op \in {"irecv", "wait_irecv"}
                            /\ t[k].op = "irecv" => \E s \in 1 .. m : k = 2 * s - 1
  /\ \A s \in 1 .. m : /\ 2 * s - 1 \in 1 .. Len(t)
                       /\ t[2 * s - 1].op = "irecv" /\ t[2 * s - 1].peer = s
                       /\ t[2 * s - 1].tag = 1 /\ t[2 * s - 1].what = <<"report", i>>
                       /\ t[2 * s - 1].time = 16 * i + 2
                       /\ Await(t, 2 * s - 1, 16 * i + 1)

(***************************************************************************)
(* Which the sequence is.                                                  *)
(***************************************************************************)
LEMMA CollectSteps ==
  ASSUME NEW t, NEW m \in Nat, NEW i \in Nat, Collects(t, m, i)
  PROVE  Collected(t, m, i)
<1>1. t \in Seq(OpSet) /\ Len(t) = 2 * m
  BY DEF Collects
<1>2. ASSUME NEW s \in 1 .. m
      PROVE  /\ 2 * s - 1 \in 1 .. Len(t) /\ 2 * s \in 1 .. Len(t) /\ 2 * s - 1 < 2 * s
             /\ t[2 * s - 1].op = "irecv" /\ t[2 * s - 1].peer = s /\ t[2 * s - 1].iter = i
             /\ t[2 * s - 1].tag = 1 /\ t[2 * s - 1].what = <<"report", i>>
             /\ t[2 * s - 1].time = 16 * i + 2
             /\ t[2 * s].op = "wait_irecv" /\ t[2 * s].iter = i /\ t[2 * s].time = 16 * i + 2
  <2>1. In(t[2 * s - 1], s, 1, "report", i, 2) /\ Pause(t[2 * s], "wait_irecv", i, 2)
    BY DEF Collects
  <2>2. 2 * s - 1 \in 1 .. Len(t) /\ 2 * s \in 1 .. Len(t) /\ 2 * s - 1 < 2 * s
    BY <1>1
  <2> QED BY <2>1, <2>2 DEF In, Pause
<1>3. ASSUME NEW k \in 1 .. Len(t)
      PROVE  /\ t[k].iter = i /\ t[k].time = 16 * i + 2
             /\ t[k].op \in {"irecv", "wait_irecv"}
             /\ t[k].op = "irecv" => \E s \in 1 .. m : k = 2 * s - 1
             /\ t[k].op = "irecv" =>
                  \E l \in 1 .. Len(t) : k < l /\ t[l].op = "wait_irecv"
  <2>1. PICK s \in 1 .. m : k = 2 * s - 1 \/ k = 2 * s
    BY <1>1, TwoPlaces
  <2> DEFINE o == 2 * s - 1
             e == 2 * s
  <2>2. /\ o \in 1 .. Len(t) /\ e \in 1 .. Len(t) /\ o < e
        /\ t[o].op = "irecv" /\ t[o].iter = i /\ t[o].time = 16 * i + 2
        /\ t[e].op = "wait_irecv" /\ t[e].iter = i /\ t[e].time = 16 * i + 2
    BY <1>2
  <2>3. k = o \/ k = e
    BY <2>1
  <2>4. o = 2 * s - 1
    OBVIOUS
  <2> HIDE DEF o, e
  <2>5. CASE k = o
    BY <2>2, <2>4, <2>5
  <2>6. CASE k = e
    BY <2>2, <2>6
  <2> QED BY <2>3, <2>5, <2>6
<1>4. "wait_irecv" \in Waits /\ "irecv" \in Awaited("wait_irecv")
  BY DEF Waits, Awaited
<1>5. 16 * i <= 16 * i + 2 /\ 16 * i + 2 < 16 * i + 15 /\ 16 * i + 1 < 16 * i + 2
      /\ 16 * i + 2 \in Int
  OBVIOUS
<1>6. Steps(t, i)
  <2> SUFFICES ASSUME NEW k \in 1 .. Len(t)
               PROVE  /\ t[k].iter = i /\ 16 * i <= t[k].time /\ t[k].time < 16 * i + 15
                      /\ t[k].op # "barrier"
                      /\ \A l \in 1 .. Len(t) : k <= l => t[k].time <= t[l].time
                      /\ t[k].op \in {"isend", "irecv"} =>
                           \E l \in 1 .. Len(t) : k < l /\ t[l].op \in Waits /\ t[k].op \in Awaited(t[l].op)
    BY DEF Steps
  <2>1. t[k].iter = i /\ t[k].time = 16 * i + 2 /\ t[k].op \in {"irecv", "wait_irecv"}
    BY <1>3
  <2>2. \A l \in 1 .. Len(t) : t[l].time = 16 * i + 2
    BY <1>3
  <2>3. t[k].op \in {"isend", "irecv"} =>
          \E l \in 1 .. Len(t) : k < l /\ t[l].op \in Waits /\ t[k].op \in Awaited(t[l].op)
    <3>1. CASE t[k].op = "irecv"
      <4>1. PICK l \in 1 .. Len(t) : k < l /\ t[l].op = "wait_irecv"
        BY <1>3, <3>1
      <4> QED BY <1>4, <3>1, <4>1
    <3> QED BY <2>1, <3>1
  <2> QED BY <1>5, <2>1, <2>2, <2>3
<1>7. ASSUME NEW s \in 1 .. m PROVE Await(t, 2 * s - 1, 16 * i + 1)
  BY <1>3, <1>5 DEF Await
<1> QED BY <1>2, <1>3, <1>6, <1>7 DEF Collected

(***************************************************************************)
(* The channels of IMB-P2P.                                                *)
(***************************************************************************)
P2PChannels(c) == (0 .. c.np - 1) \X (0 .. c.np - 1) \X {0, 1}

(***************************************************************************)
(* The bodies A, by their number and their iteration, are pieces.          *)
(***************************************************************************)
Bodies(c, D, warm, n, A) ==
  \A m \in 1 .. warm \cup 1 .. n : \A i \in Nat :
    Piece(0 .. c.np - 1, P2PChannels(c), D, A[m][i], 16 * i, 16 * i + 15)

(***************************************************************************)
(* Joining is associative.                                                 *)
(***************************************************************************)
LEMMA ConcatOps ==
  ASSUME NEW s \in Seq(OpSet), NEW t \in Seq(OpSet), NEW u \in Seq(OpSet)
  PROVE  s \o (t \o u) = s \o t \o u
BY ConcatAssociative

(***************************************************************************)
(* A size begins where the one before ends.                                *)
(***************************************************************************)
LEMMA NextSize ==
  ASSUME NEW w \in Nat, NEW k \in Nat \ {0}
  PROVE  /\ (k - 1) * w \in Nat /\ k * w \in Nat /\ (k - 1) * w + w = k * w
         /\ (k - 1) * w <= k * w
<1>1. PICK j \in Nat : k = j + 1
  <2>1. k - 1 \in Nat /\ k = (k - 1) + 1
    OBVIOUS
  <2> QED BY <2>1
<1>2. (j + 1) * w = j * w + w /\ j * w \in Nat
  OBVIOUS
<1>3. k - 1 = j
  BY <1>1
<1> QED BY <1>1, <1>2, <1>3

(***************************************************************************)
(* Unirandom and Birandom: a pair of ranks is drawn, the others do nothing *)
(* in the iteration.                                                       *)
(***************************************************************************)
Drawn(R, p, a, b) ==
  /\ a \in R /\ b \in R /\ a # b
  /\ \A r \in R : r \notin {a, b} => p[r] = <<>>
  /\ p = [r \in R |-> p[r]]

(***************************************************************************)
(* The other one of a pair.                                                *)
(***************************************************************************)
Other(R, a, b) == [r \in R |-> IF r = a THEN b ELSE a]

(***************************************************************************)
(* Those drawn are partners.                                               *)
(***************************************************************************)
LEMMA OtherIs ==
  ASSUME NEW R, NEW p, NEW a, NEW b, Drawn(R, p, a, b)
  PROVE  /\ Partners(R, {a}, {b}, Other(R, a, b)) /\ Other(R, a, b)[a] = b /\ Other(R, a, b)[b] = a
         /\ {a} \cup {b} = {a, b} /\ Idle(R, p, {a, b})
<1> DEFINE f == Other(R, a, b)
<1>1. f[a] = b /\ f[b] = a
  BY DEF Drawn, Other
<1> HIDE DEF f
<1>2. Partners(R, {a}, {b}, f)
  BY <1>1 DEF Partners, Drawn
<1> QED BY <1>1, <1>2 DEF f, Idle, Drawn

(***************************************************************************)
(* Corandom: the ranks in the order drawn make one ring.                   *)
(***************************************************************************)
Nth(d, n, p) == d[((p + n - 1) % n) + 1]

(***************************************************************************)
(* The place of a rank in the draw d of n ranks, the rank at the next      *)
(* place and the rank at the last one.                                     *)
(***************************************************************************)
Place(d, n, r) == CHOOSE p \in 1 .. n : d[p] = r

NextDrawn(d, n) == [r \in 0 .. n - 1 |-> Nth(d, n, Place(d, n, r) + 1)]

LastDrawn(d, n) == [r \in 0 .. n - 1 |-> Nth(d, n, Place(d, n, r) - 1)]

(***************************************************************************)
(* The places next to one, going round.                                    *)
(***************************************************************************)
LEMMA RoundPlace ==
  ASSUME NEW n \in Nat \ {0}, NEW p \in 1 .. n
  PROVE  /\ (((p + 1) + n - 1) % n) + 1 = IF p = n THEN 1 ELSE p + 1
         /\ (((p - 1) + n - 1) % n) + 1 = IF p = 1 THEN n ELSE p - 1
<1>1. (((p + 1) + n - 1) % n) + 1 = IF p = n THEN 1 ELSE p + 1
  <2>1. CASE p = n
    <3>1. (p + 1) + n - 1 = n * 2 + 0 /\ 2 \in Nat /\ 0 \in 0 .. n - 1
      BY <2>1
    <3>2. (n * 2 + 0) % n = 0
      BY <3>1, DivIs
    <3> QED BY <2>1, <3>1, <3>2
  <2>2. CASE p # n
    <3>1. PICK k \in 0 .. 2 * n - 1 : k = (p + 1) + n - 1
      BY <2>2
    <3>2. k % n = IF k < n THEN k ELSE k - n
      BY WrapIs
    <3>3. k % n = p
      BY <3>1, <3>2
    <3> QED BY <2>2, <3>1, <3>3
  <2> QED BY <2>1, <2>2
<1>2. (((p - 1) + n - 1) % n) + 1 = IF p = 1 THEN n ELSE p - 1
  <2>1. PICK k \in 0 .. 2 * n - 1 : k = (p - 1) + n - 1
    OBVIOUS
  <2>2. k % n = IF k < n THEN k ELSE k - n
    BY WrapIs
  <2>3. (k % n) + 1 = IF p = 1 THEN n ELSE p - 1
    BY <2>1, <2>2
  <2> QED BY <2>1, <2>3
<1> QED BY <1>1, <1>2

(***************************************************************************)
(* The draw is the ranks in some order.                                    *)
(***************************************************************************)
Draw(d, n) == n \in Nat \ {0} /\ d \in Injection(1 .. n, 0 .. n - 1)

(***************************************************************************)
(* Places and ranks are inverse to each other.                             *)
(***************************************************************************)
LEMMA DrawPlaces ==
  ASSUME NEW d, NEW n, Draw(d, n)
  PROVE  /\ \A p \in 1 .. n : d[p] \in 0 .. n - 1 /\ Place(d, n, d[p]) = p
         /\ \A r \in 0 .. n - 1 : Place(d, n, r) \in 1 .. n /\ d[Place(d, n, r)] = r
<1> DEFINE S == 1 .. n
           T == 0 .. n - 1
<1>1. n \in Nat \ {0} /\ d \in Injection(S, T) /\ 1 \in Int /\ n \in Int /\ 0 \in Int /\ n - 1 \in Int
  BY DEF Draw
<1>2. IsFiniteSet(S) /\ IsFiniteSet(T) /\ Cardinality(S) = Cardinality(T)
  <2>1. /\ IsFiniteSet(1 .. n) /\ Cardinality(1 .. n) = IF 1 > n THEN 0 ELSE n - 1 + 1
    BY <1>1, FS_Interval
  <2>2. /\ IsFiniteSet(0 .. n - 1) /\ Cardinality(0 .. n - 1) = IF 0 > n - 1 THEN 0 ELSE (n - 1) - 0 + 1
    BY <1>1, FS_Interval
  <2> QED BY <1>1, <2>1, <2>2
<1> HIDE DEF S, T
<1>3. d \in Surjection(S, T)
  BY <1>1, <1>2, FS_Injection
<1>4. /\ d \in [S -> T] /\ \A p, q \in S : d[p] = d[q] => p = q
  BY <1>1 DEF Injection, IsInjective
<1>5. \A r \in T : \E p \in S : d[p] = r
  BY <1>3 DEF Surjection
<1>6. ASSUME NEW r \in T PROVE Place(d, n, r) \in S /\ d[Place(d, n, r)] = r
  BY <1>5 DEF Place, S
<1>7. ASSUME NEW p \in S PROVE d[p] \in T /\ Place(d, n, d[p]) = p
  BY <1>4, <1>6
<1> QED BY <1>6, <1>7 DEF S, T

(***************************************************************************)
(* The ranks in the order of the draw make a ring.                         *)
(***************************************************************************)
LEMMA DrawnRing ==
  ASSUME NEW d, NEW n, Draw(d, n)
  PROVE  LET R == 0 .. n - 1
         IN  /\ Ring(R, R, NextDrawn(d, n), LastDrawn(d, n))
             /\ Ints(R, NextDrawn(d, n), LastDrawn(d, n))
             /\ Turning(R, R \X R, R, NextDrawn(d, n), LastDrawn(d, n))
<1> DEFINE R == 0 .. n - 1
           f == NextDrawn(d, n)
           g == LastDrawn(d, n)
           P(r) == Place(d, n, r)
<1>1. n \in Nat \ {0}
  BY DEF Draw
<1>2. /\ \A p \in 1 .. n : d[p] \in R /\ P(d[p]) = p
      /\ \A r \in R : P(r) \in 1 .. n /\ d[P(r)] = r
  BY DrawPlaces
<1>3. ASSUME NEW r \in R
      PROVE  /\ f[r] = IF P(r) = n THEN d[1] ELSE d[P(r) + 1]
             /\ g[r] = IF P(r) = 1 THEN d[n] ELSE d[P(r) - 1]
  <2>1. PICK p \in 1 .. n : p = P(r)
    BY <1>2
  <2>2. f[r] = Nth(d, n, p + 1) /\ g[r] = Nth(d, n, p - 1)
    BY <2>1 DEF NextDrawn, LastDrawn
  <2>3. /\ Nth(d, n, p + 1) = d[IF p = n THEN 1 ELSE p + 1]
        /\ Nth(d, n, p - 1) = d[IF p = 1 THEN n ELSE p - 1]
    BY <1>1, RoundPlace DEF Nth
  <2> QED BY <2>1, <2>2, <2>3
<1> HIDE DEF f, g, P
<1>4. ASSUME NEW r \in R
      PROVE  f[r] \in R /\ g[r] \in R /\ g[f[r]] = r /\ f[g[r]] = r
  <2>1. PICK p \in 1 .. n : p = P(r) /\ d[p] = r
    BY <1>2
  <2>2. PICK q \in 1 .. n : q = IF p = n THEN 1 ELSE p + 1
    BY <1>1
  <2>3. PICK s \in 1 .. n : s = IF p = 1 THEN n ELSE p - 1
    BY <1>1
  <2>4. f[r] = d[q] /\ g[r] = d[s]
    BY <1>3, <2>1, <2>2, <2>3
  <2>5. d[q] \in R /\ d[s] \in R /\ P(d[q]) = q /\ P(d[s]) = s
    BY <1>2
  <2>6. g[d[q]] = IF q = 1 THEN d[n] ELSE d[q - 1]
    BY <1>3, <2>5
  <2>7. f[d[s]] = IF s = n THEN d[1] ELSE d[s + 1]
    BY <1>3, <2>5
  <2>8. g[d[q]] = d[p]
    <3>1. CASE p = n
      BY <1>1, <2>2, <2>6, <3>1
    <3>2. CASE p # n
      <4>1. q # 1 /\ q - 1 = p
        BY <1>1, <2>2, <3>2
      <4> QED BY <2>6, <4>1
    <3> QED BY <3>1, <3>2
  <2>9. f[d[s]] = d[p]
    <3>1. CASE p = 1
      BY <1>1, <2>3, <2>7, <3>1
    <3>2. CASE p # 1
      <4>1. s # n /\ s + 1 = p
        BY <1>1, <2>3, <3>2
      <4> QED BY <2>7, <4>1
    <3> QED BY <3>1, <3>2
  <2> QED BY <2>1, <2>4, <2>5, <2>8, <2>9
<1>5. Ring(R, R, f, g)
  BY <1>4 DEF Ring
<1>6. Ints(R, f, g)
  BY <1>1, <1>4 DEF Ints
<1>7. ASSUME NEW S \in SUBSET R, \A r \in S : g[r] \in S, S # {}
      PROVE  R \subseteq S
  <2> DEFINE N == {k \in Nat : k < n => \E p \in 1 .. n : p <= n - k /\ d[p] \in S}
             M == {k \in Nat : k < n => d[n - k] \in S}
  <2>1. ASSUME NEW p \in 1 .. n, d[p] \in S
        PROVE  d[IF p = 1 THEN n ELSE p - 1] \in S
    <3>1. P(d[p]) = p /\ d[p] \in R
      BY <1>2
    <3>2. g[d[p]] = d[IF p = 1 THEN n ELSE p - 1]
      BY <1>3, <3>1
    <3> QED BY <1>7, <2>1, <3>2
  <2>2. Nat \subseteq N
    <3>1. 0 \in N
      <4>1. PICK r \in S : TRUE
        BY <1>7
      <4>2. P(r) \in 1 .. n /\ d[P(r)] = r
        BY <1>2
      <4>3. P(r) <= n - 0
        BY <1>1, <4>2
      <4> QED BY <4>2, <4>3
    <3>2. ASSUME NEW k \in Nat, k \in N PROVE k + 1 \in N
      <4> SUFFICES ASSUME k + 1 < n PROVE \E p \in 1 .. n : p <= n - (k + 1) /\ d[p] \in S
        OBVIOUS
      <4>1. PICK p \in 1 .. n : p <= n - k /\ d[p] \in S
        BY <1>1, <3>2
      <4>2. CASE p <= n - (k + 1)
        BY <4>1, <4>2
      <4>3. CASE ~ (p <= n - (k + 1))
        <5>1. p # 1 /\ p - 1 \in 1 .. n /\ p - 1 <= n - (k + 1)
          BY <1>1, <4>1, <4>3
        <5>2. d[p - 1] \in S
          BY <2>1, <4>1, <5>1
        <5> QED BY <5>1, <5>2
      <4> QED BY <4>2, <4>3
    <3> HIDE DEF N
    <3> QED BY <3>1, <3>2, Induction
  <2>3. d[n] \in S
    <3>1. PICK k \in Nat : k < n /\ k = n - 1
      <4>1. n - 1 \in Nat /\ n - 1 < n
        BY <1>1
      <4> QED BY <4>1
    <3>2. k \in N
      BY <2>2
    <3>3. PICK p \in 1 .. n : p <= n - k /\ d[p] \in S
      BY <3>1, <3>2
    <3>4. p = 1
      BY <1>1, <3>1, <3>3
    <3> QED BY <2>1, <3>3, <3>4
  <2>4. Nat \subseteq M
    <3>1. 0 \in M
      <4>1. n - 0 = n
        BY <1>1
      <4> QED BY <2>3, <4>1
    <3>2. ASSUME NEW k \in Nat, k \in M PROVE k + 1 \in M
      <4> SUFFICES ASSUME k + 1 < n PROVE d[n - (k + 1)] \in S
        OBVIOUS
      <4>1. PICK p \in 1 .. n : p = n - k /\ p # 1 /\ p - 1 = n - (k + 1)
        <5>1. n - k \in 1 .. n /\ n - k # 1 /\ (n - k) - 1 = n - (k + 1)
          BY <1>1
        <5> QED BY <5>1
      <4>2. d[p] \in S
        BY <1>1, <3>2, <4>1
      <4> QED BY <2>1, <4>1, <4>2
    <3> HIDE DEF M
    <3> QED BY <3>1, <3>2, Induction
  <2>5. ASSUME NEW r \in R PROVE r \in S
    <3>1. PICK p \in 1 .. n : p = P(r) /\ d[p] = r
      BY <1>2
    <3>2. PICK k \in Nat : k < n /\ n - k = p
      <4>1. n - p \in Nat /\ n - p < n /\ n - (n - p) = p
        BY <1>1
      <4> QED BY <4>1
    <3>3. k \in M
      BY <2>4
    <3> QED BY <3>1, <3>2, <3>3
  <2> QED BY <2>5
<1>8. Turning(R, R \X R, R, f, g)
  <2>1. ASSUME NEW e \in R \X R, NEW S \in SUBSET R, e[1] \in S, e[2] \notin S
        PROVE  \E r \in R : r \in S /\ g[r] \notin S
    <3>1. S # {} /\ ~ (R \subseteq S)
      BY <2>1
    <3>2. PICK r \in S : g[r] \notin S
      BY <1>7, <3>1
    <3> QED BY <3>2
  <2>2. \A r \in R : <<r, f[r]>> \in R \X R
    BY <1>4
  <2> QED BY <2>1, <2>2 DEF Turning
<1> QED BY <1>5, <1>6, <1>8 DEF f, g

(***************************************************************************)
(* Batches: m receives, m sends and a wait for all of them.  from[r][k] is *)
(* the rank the k-th receive of r names and x[k] what it is for, to[r][k]  *)
(* and y[k] those of the k-th send, which meets the receive slot[k].       *)
(***************************************************************************)
Batch(s, m, from, to, x, y, tag, i) ==
  /\ s \in Seq(OpSet) /\ Len(s) = m + m + 1
  /\ \A k \in 1 .. m : /\ In(s[k], from[k], tag, x[k], i, 0)
                       /\ Out(s[m + k], to[k], tag, y[k], i, 0)
  /\ Pause(s[m + m + 1], "waitall", i, 1)

-----------------------------------------------------------------------------
(***************************************************************************)
(* An index of a batch is of a receive, of a send or of the wait.          *)
(***************************************************************************)
PlaceOf(m, k) == k \in 1 .. m \/ (\E l \in 1 .. m : k = m + l) \/ k = m + m + 1

(***************************************************************************)
(* Which all of them are.                                                  *)
(***************************************************************************)
LEMMA PlacesOfBatch ==
  ASSUME NEW m \in Nat, NEW k \in 1 .. m + m + 1
  PROVE  PlaceOf(m, k)
<1>1. CASE k > m /\ k # m + m + 1
  <2>1. k - m \in 1 .. m /\ k = m + (k - m)
    BY <1>1
  <2> QED BY <2>1 DEF PlaceOf
<1>2. CASE k <= m
  BY <1>2 DEF PlaceOf
<1>3. CASE k = m + m + 1
  BY <1>3 DEF PlaceOf
<1> QED BY <1>1, <1>2, <1>3

(***************************************************************************)
(* The steps of a batch.                                                   *)
(***************************************************************************)
BatchSteps(s, m, i) ==
  /\ Steps(s, i)
  /\ \A k \in 1 .. Len(s) : /\ s[k].op = "irecv" => k \in 1 .. m
                            /\ s[k].op = "isend" => \E l \in 1 .. m : k = m + l
  /\ \A k \in 1 .. m : Await(s, k, 16 * i) /\ Await(s, m + k, 16 * i)

(***************************************************************************)
(* A batch has them.                                                       *)
(***************************************************************************)
LEMMA BatchIs ==
  ASSUME NEW m \in Nat, NEW from, NEW to, NEW x, NEW y, NEW tag, NEW i \in Nat, NEW s,
         Batch(s, m, from, to, x, y, tag, i)
  PROVE  BatchSteps(s, m, i)
<1> DEFINE e == m + m + 1
           n == Len(s)
<1>1. /\ n = e /\ e \in 1 .. n /\ s[e].op = "waitall" /\ s[e].iter = i /\ s[e].time = 16 * i + 1
      /\ n \in Nat
  BY DEF Batch, Pause
<1>2. ASSUME NEW k \in 1 .. m
      PROVE  /\ k \in 1 .. n /\ k < e
             /\ s[k].op = "irecv" /\ s[k].iter = i /\ s[k].time = 16 * i
  <2>1. In(s[k], from[k], tag, x[k], i, 0)
    BY DEF Batch
  <2> QED BY <1>1, <2>1 DEF In
<1>3. ASSUME NEW k \in 1 .. m
      PROVE  /\ m + k \in 1 .. n /\ m + k < e
             /\ s[m + k].op = "isend" /\ s[m + k].iter = i /\ s[m + k].time = 16 * i
  <2>1. Out(s[m + k], to[k], tag, y[k], i, 0)
    BY DEF Batch
  <2> QED BY <1>1, <2>1 DEF Out
<1>4. ASSUME NEW k \in 1 .. n PROVE k \in 1 .. m \/ (\E l \in 1 .. m : k = m + l) \/ k = e
  BY <1>1, PlacesOfBatch DEF PlaceOf
<1> HIDE DEF e, n
<1>5. ASSUME NEW k \in 1 .. n
      PROVE  \/ k < e /\ s[k].op \in {"isend", "irecv"} /\ s[k].iter = i /\ s[k].time = 16 * i
             \/ k = e /\ s[k].op = "waitall" /\ s[k].iter = i /\ s[k].time = 16 * i + 1
  BY <1>1, <1>2, <1>3, <1>4
<1>6. ASSUME NEW k \in 1 .. n, s[k].op \in {"isend", "irecv"} PROVE Await(s, k, 16 * i)
  <2>1. ASSUME NEW l \in 1 .. n, s[l].op \in Waits PROVE 16 * i < s[l].time
    <3>1. s[l].op # "isend" /\ s[l].op # "irecv"
      BY <2>1 DEF Waits
    <3>2. s[l].time = 16 * i + 1
      BY <1>5, <3>1
    <3> QED BY <3>2
  <2> QED BY <2>1 DEF Await, n
<1>7. Steps(s, i)
  <2>1. "waitall" \in Waits /\ "isend" \in Awaited("waitall") /\ "irecv" \in Awaited("waitall")
    BY DEF Waits, Awaited
  <2>2. \A k \in 1 .. n : \A l \in 1 .. n : k <= l => s[k].time <= s[l].time
    <3> SUFFICES ASSUME NEW k \in 1 .. n, NEW l \in 1 .. n, k <= l
                 PROVE  s[k].time <= s[l].time
      OBVIOUS
    <3>1. k \in Nat /\ l \in Nat /\ e \in Nat
      BY <1>1
    <3>2. s[k].time = 16 * i \/ (s[k].time = 16 * i + 1 /\ k = e)
      BY <1>5
    <3>3. s[l].time = 16 * i + 1 \/ (s[l].time = 16 * i /\ l < e)
      BY <1>5
    <3> QED BY <3>1, <3>2, <3>3
  <2>3. \A k \in 1 .. n : /\ s[k].iter = i /\ 16 * i <= s[k].time /\ s[k].time < 16 * i + 15
                          /\ s[k].op # "barrier"
    BY <1>5
  <2>4. \A k \in 1 .. n : s[k].op \in {"isend", "irecv"} =>
          \E l \in 1 .. n : k < l /\ s[l].op \in Waits /\ s[k].op \in Awaited(s[l].op)
    BY <1>1, <1>5, <2>1
  <2> QED BY <2>2, <2>3, <2>4 DEF Steps, n
<1>8. \A k \in 1 .. n : /\ s[k].op = "irecv" => k \in 1 .. m
                        /\ s[k].op = "isend" => \E l \in 1 .. m : k = m + l
  BY <1>1, <1>2, <1>3, <1>4
<1> QED BY <1>2, <1>3, <1>6, <1>7, <1>8 DEF n, BatchSteps

(***************************************************************************)
(* The sends of the ranks P meet their receives.                           *)
(***************************************************************************)
Answers(P, m, from, to, slot, back, x, y) ==
  /\ \A k \in 1 .. m : /\ slot[k] \in 1 .. m /\ back[k] \in 1 .. m
                       /\ slot[back[k]] = k /\ back[slot[k]] = k /\ y[k] = x[slot[k]]
  /\ \A r \in P : \A k \in 1 .. m :
       /\ to[r][k] \in P /\ from[r][k] \in P
       /\ from[to[r][k]][slot[k]] = r /\ to[from[r][k]][back[k]] = r
       /\ \E l \in 1 .. m : from[r][l] = to[r][k]
       /\ \A l \in 1 .. m : to[r][k] = to[r][l] => (k < l <=> slot[k] < slot[l])

(***************************************************************************)
(* The edges of a batch.                                                   *)
(***************************************************************************)
Around(R, P, m, to) ==
  {<<r, r>> : r \in R} \cup {<<u[1], to[u[1]][u[2]]>> : u \in P \X (1 .. m)}

(***************************************************************************)
(* A body in which all ranks have a batch, and the receive of one answers  *)
(* the send of another, is a piece.                                        *)
(***************************************************************************)
LEMMA BatchBody ==
  ASSUME NEW R, NEW V, NEW p, NEW P, P \subseteq R, Idle(R, p, P), NEW m \in Nat,
         NEW from, NEW to, NEW slot, NEW back, NEW x, NEW y, Answers(P, m, from, to, slot, back,
         x, y),
         NEW tag, Named(V, P, tag, tag), NEW i \in Nat,
         \A r \in P : Batch(p[r], m, from[r], to[r], x, y, tag, i)
  PROVE  Piece(R, V, Around(R, P, m, to), p, 16 * i, 16 * i + 15)
<1> DEFINE D == Around(R, P, m, to)
           M == 1 .. m
           Q == {<<u[1], m + u[2], to[u[1]][u[2]], slot[u[2]]>> : u \in P \X M}
<1>1. ASSUME NEW r \in P
      PROVE  p[r] \in Seq(OpSet) /\ Len(p[r]) = m + m + 1 /\ BatchSteps(p[r], m, i)
  <2>1. Batch(p[r], m, from[r], to[r], x, y, tag, i)
    OBVIOUS
  <2>2. BatchSteps(p[r], m, i)
    BY <2>1, BatchIs
  <2> QED BY <2>1, <2>2 DEF Batch
<1>2. ASSUME NEW r \in P, NEW k \in M
      PROVE  /\ k \in 1 .. Len(p[r]) /\ p[r][k].op = "irecv" /\ p[r][k].peer = from[r][k]
             /\ p[r][k].tag = tag /\ p[r][k].what = <<x[k], i>> /\ p[r][k].time = 16 * i
             /\ Await(p[r], k, 16 * i)
  <2>1. In(p[r][k], from[r][k], tag, x[k], i, 0)
    BY DEF Batch
  <2>2. k \in 1 .. Len(p[r]) /\ Await(p[r], k, 16 * i)
    BY <1>1 DEF BatchSteps
  <2> QED BY <2>1, <2>2 DEF In
<1>3. ASSUME NEW r \in P, NEW k \in M
      PROVE  /\ m + k \in 1 .. Len(p[r]) /\ p[r][m + k].op = "isend" /\ p[r][m + k].peer = to[r][k]
             /\ p[r][m + k].tag = tag /\ p[r][m + k].what = <<y[k], i>>
             /\ p[r][m + k].time = 16 * i /\ Await(p[r], m + k, 16 * i)
  <2>1. Out(p[r][m + k], to[r][k], tag, y[k], i, 0)
    BY DEF Batch
  <2>2. m + k \in 1 .. Len(p[r]) /\ Await(p[r], m + k, 16 * i)
    <3>1. Len(p[r]) = m + m + 1 /\ m + k \in 1 .. m + m + 1
      BY <1>1
    <3>2. Await(p[r], m + k, 16 * i)
      BY <1>1 DEF BatchSteps
    <3> QED BY <3>1, <3>2
  <2> QED BY <2>1, <2>2 DEF Out
<1>4. /\ \A k \in M : /\ slot[k] \in M /\ back[k] \in M
                      /\ slot[back[k]] = k /\ back[slot[k]] = k /\ y[k] = x[slot[k]]
      /\ \A r \in P : \A k \in M :
           /\ to[r][k] \in P /\ from[r][k] \in P
           /\ from[to[r][k]][slot[k]] = r /\ to[from[r][k]][back[k]] = r
           /\ \E l \in M : from[r][l] = to[r][k]
           /\ \A l \in M : to[r][k] = to[r][l] => (k < l <=> slot[k] < slot[l])
  BY DEF Answers
<1>5. \A r \in R : r \notin P => p[r] = <<>>
  BY DEF Idle
<1>6. p \in [R -> Seq(OpSet)]
  <2>1. <<>> \in Seq(OpSet)
    OBVIOUS
  <2>2. p = [r \in R |-> p[r]]
    BY DEF Idle
  <2>3. \A r \in R : p[r] \in Seq(OpSet)
    BY <1>1, <1>5, <2>1
  <2> QED BY <2>2, <2>3
<1>7. ASSUME NEW r \in R, NEW k \in 1 .. Len(p[r])
      PROVE  /\ r \in P
             /\ p[r][k].op = "irecv" => k \in M
             /\ p[r][k].op = "isend" => \E l \in M : k = m + l
  <2>1. r \in P
    BY <1>5
  <2> QED BY <1>1, <2>1 DEF BatchSteps
<1>8. \A k \in M, l \in M : (m + k < m + l <=> k < l) /\ (m + k = m + l => k = l)
  OBVIOUS
<1>9. ASSUME NEW u \in Q
      PROVE  \E r \in P, k \in M : /\ u = <<r, m + k, to[r][k], slot[k]>>
                                   /\ u = <<u[1], u[2], u[3], u[4]>>
                                   /\ u[1] = r /\ u[2] = m + k /\ u[3] = to[r][k] /\ u[4] = slot[k]
  <2>1. PICK w \in P \X M : u = <<w[1], m + w[2], to[w[1]][w[2]], slot[w[2]]>>
    OBVIOUS
  <2>2. w[1] \in P /\ w[2] \in M
    OBVIOUS
  <2> QED BY <2>1, <2>2
<1>10. ASSUME NEW r \in P, NEW k \in M
       PROVE  <<r, m + k, to[r][k], slot[k]>> \in Q
  <2>1. <<r, k>> \in P \X M /\ <<r, k>>[1] = r /\ <<r, k>>[2] = k
    OBVIOUS
  <2> QED BY <2>1
<1> HIDE DEF M, Q
<1>11. Local(R, p, i, D)
  <2>1. ASSUME NEW r \in R PROVE Steps(p[r], i)
    <3>1. CASE r \in P
      BY <1>1, <3>1 DEF BatchSteps
    <3>2. CASE r \notin P
      BY <1>5, <3>2 DEF Steps
    <3> QED BY <3>1, <3>2
  <2>2. ASSUME NEW r \in R, NEW k \in 1 .. Len(p[r]), p[r][k].op = "isend"
        PROVE  <<r, p[r][k].peer>> \in D
    <3>1. r \in P
      BY <1>7
    <3>2. PICK l \in M : k = m + l
      BY <1>7, <2>2
    <3>3. p[r][k].peer = to[r][l]
      BY <1>3, <3>1, <3>2
    <3>4. <<r, l>> \in P \X M /\ <<r, l>>[1] = r /\ <<r, l>>[2] = l
      BY <3>1
    <3> QED BY <3>3, <3>4 DEF Around, M
  <2> HIDE DEF D
  <2> QED BY <1>6, <2>1, <2>2 DEF Local
<1>12. \A u \in Q : /\ u = <<u[1], u[2], u[3], u[4]>> /\ u[1] \in R /\ u[3] \in R
                    /\ Meeting(V, p[u[1]], u[1], u[2], p[u[3]], u[3], u[4])
  <2> SUFFICES ASSUME NEW u \in Q
               PROVE  /\ u = <<u[1], u[2], u[3], u[4]>> /\ u[1] \in R /\ u[3] \in R
                      /\ Meeting(V, p[u[1]], u[1], u[2], p[u[3]], u[3], u[4])
    OBVIOUS
  <2>1. PICK r \in P, k \in M :
          /\ u = <<u[1], u[2], u[3], u[4]>>
          /\ u[1] = r /\ u[2] = m + k /\ u[3] = to[r][k] /\ u[4] = slot[k]
    BY <1>9
  <2> DEFINE q == to[r][k]
             l == slot[k]
             s == p[r]
             t == p[q]
             h == m + k
  <2>2. q \in P /\ l \in M /\ from[q][l] = r /\ y[k] = x[l]
    BY <1>4
  <2>3. /\ h \in 1 .. Len(s) /\ s[h].op = "isend" /\ s[h].peer = q /\ s[h].tag = tag
        /\ s[h].what = <<y[k], i>> /\ s[h].time = 16 * i /\ Await(s, h, 16 * i)
    BY <1>3
  <2>4. /\ l \in 1 .. Len(t) /\ t[l].op = "irecv" /\ t[l].peer = r /\ t[l].tag = tag
        /\ t[l].what = <<x[l], i>> /\ t[l].time = 16 * i /\ Await(t, l, 16 * i)
    BY <1>2, <2>2
  <2>5. Meant(V, q, t[l].peer, t[l].tag, r, s[h].tag)
    BY <2>2, <2>3, <2>4 DEF Named
  <2>6. s[h].what = t[l].what /\ Await(s, h, t[l].time) /\ Await(t, l, s[h].time)
    BY <2>2, <2>3, <2>4
  <2> HIDE DEF q, l, s, t, h
  <2>7. Meeting(V, s, r, h, t, q, l)
    BY <2>3, <2>4, <2>5, <2>6, MeetingIs
  <2> QED BY <2>1, <2>2, <2>7 DEF q, l, s, t, h
<1>13. \A r \in R : \A k \in 1 .. Len(p[r]) :
         /\ p[r][k].op = "isend" => \E u \in Q : u[1] = r /\ u[2] = k
         /\ p[r][k].op = "irecv" => \E u \in Q : u[3] = r /\ u[4] = k
  <2> SUFFICES ASSUME NEW r \in R, NEW k \in 1 .. Len(p[r])
               PROVE  /\ p[r][k].op = "isend" => \E u \in Q : u[1] = r /\ u[2] = k
                      /\ p[r][k].op = "irecv" => \E u \in Q : u[3] = r /\ u[4] = k
    OBVIOUS
  <2>0. r \in P
    BY <1>7
  <2>1. ASSUME p[r][k].op = "isend" PROVE \E u \in Q : u[1] = r /\ u[2] = k
    <3>1. PICK l \in M : k = m + l
      BY <1>7, <2>1
    <3> DEFINE u == <<r, m + l, to[r][l], slot[l]>>
    <3>2. u \in Q /\ u[1] = r /\ u[2] = k
      BY <1>10, <2>0, <3>1
    <3> HIDE DEF u
    <3> QED BY <3>2
  <2>2. ASSUME p[r][k].op = "irecv" PROVE \E u \in Q : u[3] = r /\ u[4] = k
    <3>1. k \in M
      BY <1>7, <2>2
    <3> DEFINE q == from[r][k]
               l == back[k]
               u == <<q, m + l, to[q][l], slot[l]>>
    <3>2. q \in P /\ l \in M /\ to[q][l] = r /\ slot[l] = k
      BY <1>4, <2>0, <3>1
    <3> HIDE DEF q, l
    <3>3. u \in Q /\ u[3] = r /\ u[4] = k
      BY <1>10, <3>2
    <3> HIDE DEF u
    <3> QED BY <3>3
  <2> QED BY <2>1, <2>2
<1>14. \A u, v \in Q :
         (u[1] = v[1] /\ p[u[1]][u[2]].peer = p[v[1]][v[2]].peer
            /\ p[u[1]][u[2]].tag = p[v[1]][v[2]].tag)
           => (u[2] < v[2] <=> u[4] < v[4])
  <2> SUFFICES ASSUME NEW u \in Q, NEW v \in Q, u[1] = v[1],
                      p[u[1]][u[2]].peer = p[v[1]][v[2]].peer
               PROVE  u[2] < v[2] <=> u[4] < v[4]
    OBVIOUS
  <2>1. PICK r \in P, k \in M : u[1] = r /\ u[2] = m + k /\ u[4] = slot[k]
    BY <1>9
  <2>2. PICK q \in P, l \in M : v[1] = q /\ v[2] = m + l /\ v[4] = slot[l]
    BY <1>9
  <2>3. to[r][k] = to[r][l]
    BY <1>3, <2>1, <2>2
  <2>4. k < l <=> slot[k] < slot[l]
    BY <1>4, <2>3
  <2> QED BY <1>8, <2>1, <2>2, <2>4
<1>15. \A e \in D : \A S \in SUBSET R :
         e[1] \in S /\ e[2] \notin S => \E u \in Q : u[3] \in S /\ u[1] \notin S
  <2> SUFFICES ASSUME NEW e \in D, NEW S \in SUBSET R, e[1] \in S, e[2] \notin S
               PROVE  \E u \in Q : u[3] \in S /\ u[1] \notin S
    OBVIOUS
  <2>1. PICK w \in P \X M : e = <<w[1], to[w[1]][w[2]]>>
    BY DEF Around, M
  <2>2. PICK r \in P, k \in M : e[1] = r /\ e[2] = to[r][k]
    BY <2>1
  <2>3. PICK j \in M : from[r][j] = to[r][k]
    BY <1>4
  <2> DEFINE q == from[r][j]
             l == back[j]
             u == <<q, m + l, to[q][l], slot[l]>>
  <2>4. q \in P /\ l \in M /\ to[q][l] = r
    BY <1>4
  <2> HIDE DEF l
  <2>5. u \in Q /\ u[1] = q /\ u[3] = r
    BY <1>10, <2>4
  <2> HIDE DEF u
  <2> QED BY <2>2, <2>3, <2>5
<1>16. Messages(R, V, p, Q, D)
  BY <1>12, <1>13, <1>14, <1>15 DEF Messages
<1> HIDE DEF D
<1>17. Piece(R, V, D, p, 16 * i, 16 * i + 15)
  BY <1>11, <1>16, BodyPiece
<1> QED BY <1>17 DEF D

(***************************************************************************)
(* The sequence f is e up to m.                                            *)
(***************************************************************************)
Ones(f, m, e) == f \in Seq(OpSet) /\ Len(f) = m /\ \A k \in 1 .. m : f[k] = e[k]

(***************************************************************************)
(* The sequence s has sequences of one each.                               *)
(***************************************************************************)
Singles(s, m, e) ==
  s \in Seq(Seq(OpSet)) /\ Len(s) = m /\ \A g \in 1 .. m : Len(s[g]) = 1 /\ s[g][1] = e[g]

(***************************************************************************)
(* Flattened it is the sequence of them.                                   *)
(***************************************************************************)
LEMMA FlatSingles ==
  ASSUME NEW m \in Nat, NEW e, NEW s, Singles(s, m, e)
  PROVE  Ones(FlattenSeq(s), m, e)
<1> DEFINE f == FlattenSeq(s)
<1>1. /\ s \in Seq(Seq(OpSet)) /\ Len(s) = m
      /\ \A g \in 1 .. m : Len(s[g]) = 1 /\ s[g][1] = e[g]
  BY DEF Singles
<1>3. f \in Seq(OpSet)
  BY <1>1, FlattenAppend
<1>4. \A h \in 1 .. m + 1 : StartOf(s, h) = (h - 1) * 1
  <2> SUFFICES ASSUME NEW h \in 1 .. m + 1 PROVE StartOf(s, h) = (h - 1) * 1
    OBVIOUS
  <2>1. 1 \in Nat /\ \A g \in 1 .. Len(s) : Len(s[g]) = 1
    BY <1>1
  <2>2. h \in 1 .. Len(s) + 1
    BY <1>1
  <2> QED BY <1>1, <2>1, <2>2, StartsEqual
<1>5. Len(f) = m
  <2>1. StartOf(s, Len(s) + 1) = Len(f)
    BY <1>1, Starts
  <2>2. m + 1 \in 1 .. m + 1 /\ ((m + 1) - 1) * 1 = m
    OBVIOUS
  <2> QED BY <1>1, <1>4, <2>1, <2>2
<1>6. ASSUME NEW k \in 1 .. m PROVE f[k] = e[k]
  <2>1. k \in 1 .. Len(s) /\ 1 \in 1 .. Len(s[k]) /\ k \in 1 .. m + 1
    BY <1>1
  <2>2. f[StartOf(s, k) + 1] = s[k][1]
    BY <1>1, <2>1, FlattenAt
  <2>3. StartOf(s, k) + 1 = k
    <3>1. StartOf(s, k) = (k - 1) * 1
      BY <1>4, <2>1
    <3> QED BY <3>1
  <2> QED BY <1>1, <2>2, <2>3
<1> HIDE DEF f
<1>7. Ones(f, m, e)
  BY <1>3, <1>5, <1>6 DEF Ones
<1> QED BY <1>7 DEF f

(***************************************************************************)
(* The same of sequences given by a function.                              *)
(***************************************************************************)
LEMMA FlatOnes ==
  ASSUME NEW m \in Nat, NEW e, \A k \in 1 .. m : e[k] \in OpSet, NEW s,
         s = [k \in 1 .. m |-> <<e[k]>>]
  PROVE  Ones(FlattenSeq(s), m, e)
<1>1. \A g \in 1 .. m : s[g] = <<e[g]>>
  OBVIOUS
<1>2. \A g \in 1 .. m : s[g] \in Seq(OpSet) /\ Len(s[g]) = 1 /\ s[g][1] = e[g]
  BY <1>1
<1>3. s \in [1 .. m -> Seq(OpSet)]
  BY <1>2
<1>4. s \in Seq(Seq(OpSet)) /\ Len(s) = m
  BY <1>3
<1> QED BY <1>2, <1>4, FlatSingles DEF Singles

(***************************************************************************)
(* The grid of Stencil2D has as many places as there are ranks.            *)
(***************************************************************************)
LEMMA Least ==
  ASSUME NEW S, S \subseteq Nat, S # {}
  PROVE  \E m \in S : \A k \in S : m <= k
<1>1. PICK m \in S : \A k \in S : ~ (<<k, m>> \in OpToRel(<, Nat))
  BY WFMin, NatLessThanWellFounded
<1>2. ASSUME NEW k \in S PROVE m <= k
  <2>1. ~ (k < m)
    BY <1>1 DEF OpToRel
  <2> QED BY <2>1
<1> QED BY <1>2

(***************************************************************************)
(* A bounded set of numbers has a greatest one.                            *)
(***************************************************************************)
LEMMA Greatest ==
  ASSUME NEW S, S \subseteq Nat, S # {}, NEW n \in Nat, \A k \in S : k <= n
  PROVE  \E m \in S : \A k \in S : k <= m
<1> DEFINE T == {n - k : k \in S}
<1>1. T \subseteq Nat /\ T # {}
  <2>1. \A k \in S : n - k \in Nat
    OBVIOUS
  <2> QED BY <2>1
<1>2. PICK t \in T : \A k \in T : t <= k
  BY <1>1, Least
<1>3. PICK m \in S : t = n - m
  OBVIOUS
<1>4. ASSUME NEW k \in S PROVE k <= m
  <2>1. n - k \in T /\ k \in Nat /\ m \in Nat
    OBVIOUS
  <2>2. n - m <= n - k
    BY <1>2, <1>3, <2>1
  <2> QED BY <2>1, <2>2
<1> QED BY <1>4

-----------------------------------------------------------------------------
(***************************************************************************)
(* Places in a grid and the neighbours of a coordinate below n.            *)
(***************************************************************************)
Cell(l, a, b) == l * b + a

(***************************************************************************)
(* Down and up in a dimension of n, going round.                           *)
(***************************************************************************)
Down(n, a) == IF a = 0 THEN n - 1 ELSE a - 1

Up(n, a) == IF a = n - 1 THEN 0 ELSE a + 1

(***************************************************************************)
(* The coordinates of a cell.                                              *)
(***************************************************************************)
LEMMA CellIs ==
  ASSUME NEW l \in Nat \ {0}, NEW h \in Nat \ {0}, NEW a \in 0 .. l - 1, NEW b \in 0 .. h - 1
  PROVE  /\ Cell(l, a, b) \in 0 .. l * h - 1
         /\ Cell(l, a, b) \div l = b /\ Cell(l, a, b) % l = a
<1>1. (l * b + a) \div l = b /\ (l * b + a) % l = a /\ l * b + a \in Nat
  BY DivIs
<1>2. l * (b + 1) <= l * h /\ l * (b + 1) \in Nat /\ l * h \in Nat
  BY TimesMonotone
<1>3. l * (b + 1) = l * b + l /\ l * b \in Nat
  OBVIOUS
<1>4. PICK s \in Nat, t \in Nat : s = l * b /\ t = l * h
  BY <1>2, <1>3
<1>5. s + a \in 0 .. t - 1
  BY <1>2, <1>3, <1>4
<1> QED BY <1>1, <1>4, <1>5 DEF Cell

(***************************************************************************)
(* The cell of a rank.                                                     *)
(***************************************************************************)
LEMMA CellOf ==
  ASSUME NEW l \in Nat \ {0}, NEW h \in Nat \ {0}, NEW r \in 0 .. l * h - 1
  PROVE  /\ r % l \in 0 .. l - 1 /\ r \div l \in 0 .. h - 1 /\ r = Cell(l, r % l, r \div l)
<1>0. r \in Nat /\ l * h \in Nat /\ r < l * h
  OBVIOUS
<1>1. PICK q \in Nat, m \in 0 .. l - 1 : r = l * q + m
  BY <1>0, DivisionOf
<1>2. r \div l = q /\ r % l = m
  BY <1>1, DivIs
<1>3. q < h
  <2> SUFFICES ASSUME h <= q PROVE FALSE
    OBVIOUS
  <2>1. l * h <= l * q /\ l * q \in Nat
    BY TimesMonotone
  <2>2. PICK s \in Nat, t \in Nat : s = l * q /\ t = l * h
    BY <1>0, <2>1
  <2> QED BY <1>0, <1>1, <2>1, <2>2
<1> QED BY <1>1, <1>2, <1>3 DEF Cell

(***************************************************************************)
(* Steps up and down as the code computes them.                            *)
(***************************************************************************)
LEMMA StepIs ==
  ASSUME NEW n \in Nat \ {0}, NEW a \in 0 .. n - 1
  PROVE  /\ (a + n) % n = a /\ (a - 1 + n) % n = Down(n, a) /\ (a + 1 + n) % n = Up(n, a)
         /\ Down(n, a) \in 0 .. n - 1 /\ Up(n, a) \in 0 .. n - 1
         /\ Up(n, Down(n, a)) = a /\ Down(n, Up(n, a)) = a
         /\ n = 2 => Down(n, Down(n, a)) = a /\ Up(n, Up(n, a)) = a
         /\ n > 1 => Down(n, a) # a /\ Up(n, a) # a
         /\ n > 2 => Down(n, a) # Up(n, a)
<1>1. (a + n) % n = a
  <2>1. PICK k \in 0 .. 2 * n - 1 : k = a + n
    OBVIOUS
  <2>2. k % n = IF k < n THEN k ELSE k - n
    BY WrapIs
  <2>3. k % n = a
    BY <2>1, <2>2
  <2> QED BY <2>1, <2>3
<1>2. (a - 1 + n) % n = Down(n, a)
  <2>1. PICK k \in 0 .. 2 * n - 1 : k = a - 1 + n
    OBVIOUS
  <2>2. k % n = IF k < n THEN k ELSE k - n
    BY WrapIs
  <2>3. k % n = Down(n, a)
    BY <2>1, <2>2 DEF Down
  <2> QED BY <2>1, <2>3
<1>3. (a + 1 + n) % n = Up(n, a)
  <2>1. CASE a = n - 1
    <3>1. a + 1 + n = n * 2 + 0 /\ 2 \in Nat /\ 0 \in 0 .. n - 1
      BY <2>1
    <3>2. (n * 2 + 0) % n = 0
      BY <3>1, DivIs
    <3> QED BY <2>1, <3>1, <3>2 DEF Up
  <2>2. CASE a # n - 1
    <3>1. PICK k \in 0 .. 2 * n - 1 : k = a + 1 + n
      BY <2>2
    <3>2. k % n = IF k < n THEN k ELSE k - n
      BY WrapIs
    <3>3. k % n = Up(n, a)
      BY <2>2, <3>1, <3>2 DEF Up
    <3> QED BY <3>1, <3>3
  <2> QED BY <2>1, <2>2
<1>4. Down(n, a) \in 0 .. n - 1 /\ Up(n, a) \in 0 .. n - 1
  BY DEF Down, Up
<1>5. Up(n, Down(n, a)) = a
  BY DEF Down, Up
<1>6. Down(n, Up(n, a)) = a
  BY DEF Down, Up
<1>7. n = 2 => Down(n, Down(n, a)) = a /\ Up(n, Up(n, a)) = a
  BY DEF Down, Up
<1>8. n > 1 => Down(n, a) # a /\ Up(n, a) # a
  BY DEF Down, Up
<1>9. n > 2 => Down(n, a) # Up(n, a)
  BY DEF Down, Up
<1> QED BY <1>1, <1>2, <1>3, <1>4, <1>5, <1>6, <1>7, <1>8, <1>9

(***************************************************************************)
(* The neighbours in a grid of l times h places.  Where a dimension has    *)
(* two, the neighbours in it are the same rank.                            *)
(***************************************************************************)
NextTo(l, h) ==
  [r \in 0 .. l * h - 1 |->
     <<Cell(l, Down(l, r % l), r \div l), Cell(l, Up(l, r % l), r \div l),
       Cell(l, r % l, Down(h, r \div l)), Cell(l, r % l, Up(h, r \div l))>>]

(***************************************************************************)
(* The receive that answers a send: up answers down, or, where the         *)
(* dimension has two ranks and both are the same neighbour, the first the  *)
(* first.                                                                  *)
(***************************************************************************)
SlotOf(l, h) ==
  <<IF l = 2 THEN 1 ELSE 2, IF l = 2 THEN 2 ELSE 1, IF h = 2 THEN 3 ELSE 4, IF h = 2 THEN 4 ELSE 3>>

(***************************************************************************)
(* All of them are data.                                                   *)
(***************************************************************************)
Data == [k \in 1 .. 4 |-> "data"]

(***************************************************************************)
(* In the grid the receives answer the sends.                              *)
(***************************************************************************)
LEMMA GridAnswers ==
  ASSUME NEW l \in Nat \ {0}, NEW h \in Nat \ {0}, l > 1, h > 1
  PROVE  Answers(0 .. l * h - 1, 4, NextTo(l, h), NextTo(l, h), SlotOf(l, h), SlotOf(l, h), Data, Data)
<1> DEFINE P == 0 .. l * h - 1
           f == NextTo(l, h)
           s == SlotOf(l, h)
<1>1. 1 .. 4 = {1, 2, 3, 4}
  OBVIOUS
<1>2. /\ s[1] = (IF l = 2 THEN 1 ELSE 2) /\ s[2] = (IF l = 2 THEN 2 ELSE 1)
      /\ s[3] = (IF h = 2 THEN 3 ELSE 4) /\ s[4] = (IF h = 2 THEN 4 ELSE 3)
  BY DEF SlotOf
<1> HIDE DEF s
<1>3. \A k \in 1 .. 4 : /\ s[k] \in 1 .. 4 /\ s[s[k]] = k /\ Data[k] = Data[s[k]]
  BY <1>1, <1>2 DEF Data
<1>4. ASSUME NEW r \in P
      PROVE  /\ r % l \in 0 .. l - 1 /\ r \div l \in 0 .. h - 1 /\ r = Cell(l, r % l, r \div l)
             /\ f[r][1] = Cell(l, Down(l, r % l), r \div l) /\ f[r][2] = Cell(l, Up(l, r % l), r \div l)
             /\ f[r][3] = Cell(l, r % l, Down(h, r \div l)) /\ f[r][4] = Cell(l, r % l, Up(h, r \div l))
  BY CellOf DEF NextTo
<1> HIDE DEF f, P
<1>5. ASSUME NEW a \in 0 .. l - 1, NEW b \in 0 .. h - 1
      PROVE  /\ Cell(l, a, b) \in P /\ Cell(l, a, b) \div l = b /\ Cell(l, a, b) % l = a
  <2>1. /\ Cell(l, a, b) \in 0 .. l * h - 1
        /\ Cell(l, a, b) \div l = b /\ Cell(l, a, b) % l = a
    BY CellIs
  <2> QED BY <2>1 DEF P
<1>6. ASSUME NEW r \in P, NEW a \in 0 .. l - 1, NEW b \in 0 .. h - 1, r % l = a, r \div l = b
      PROVE  /\ \A k \in 1 .. 4 : f[r][k] \in P /\ f[f[r][k]][s[k]] = r
             /\ \A k, j \in 1 .. 4 : f[r][k] = f[r][j] => (k < j <=> s[k] < s[j])
  <2>1. /\ Down(l, a) \in 0 .. l - 1 /\ Up(l, a) \in 0 .. l - 1
        /\ Up(l, Down(l, a)) = a /\ Down(l, Up(l, a)) = a
        /\ l = 2 => Down(l, Down(l, a)) = a /\ Up(l, Up(l, a)) = a
        /\ Down(l, a) # a /\ Up(l, a) # a /\ (l > 2 => Down(l, a) # Up(l, a))
    BY StepIs
  <2>2. /\ Down(h, b) \in 0 .. h - 1 /\ Up(h, b) \in 0 .. h - 1
        /\ Up(h, Down(h, b)) = b /\ Down(h, Up(h, b)) = b
        /\ h = 2 => Down(h, Down(h, b)) = b /\ Up(h, Up(h, b)) = b
        /\ Down(h, b) # b /\ Up(h, b) # b /\ (h > 2 => Down(h, b) # Up(h, b))
    BY StepIs
  <2>3. /\ r = Cell(l, a, b)
        /\ f[r][1] = Cell(l, Down(l, a), b) /\ f[r][2] = Cell(l, Up(l, a), b)
        /\ f[r][3] = Cell(l, a, Down(h, b)) /\ f[r][4] = Cell(l, a, Up(h, b))
    BY <1>4, <1>6
  <2>4. /\ f[r][1] \in P /\ f[r][1] \div l = b /\ f[r][1] % l = Down(l, a)
        /\ f[r][2] \in P /\ f[r][2] \div l = b /\ f[r][2] % l = Up(l, a)
        /\ f[r][3] \in P /\ f[r][3] \div l = Down(h, b) /\ f[r][3] % l = a
        /\ f[r][4] \in P /\ f[r][4] \div l = Up(h, b) /\ f[r][4] % l = a
    BY <1>5, <2>1, <2>2, <2>3
  <2>5. /\ f[f[r][1]][1] = Cell(l, Down(l, Down(l, a)), b)
        /\ f[f[r][1]][2] = Cell(l, Up(l, Down(l, a)), b)
        /\ f[f[r][2]][1] = Cell(l, Down(l, Up(l, a)), b)
        /\ f[f[r][2]][2] = Cell(l, Up(l, Up(l, a)), b)
    BY <1>4, <2>4
  <2>6. /\ f[f[r][3]][3] = Cell(l, a, Down(h, Down(h, b)))
        /\ f[f[r][3]][4] = Cell(l, a, Up(h, Down(h, b)))
        /\ f[f[r][4]][3] = Cell(l, a, Down(h, Up(h, b)))
        /\ f[f[r][4]][4] = Cell(l, a, Up(h, Up(h, b)))
    BY <1>4, <2>4
  <2>7. /\ f[f[r][1]][s[1]] = r /\ f[f[r][2]][s[2]] = r
    <3>1. CASE l = 2
      BY <1>2, <2>1, <2>3, <2>5, <3>1
    <3>2. CASE l # 2
      BY <1>2, <2>1, <2>3, <2>5, <3>2
    <3> QED BY <3>1, <3>2
  <2>8. /\ f[f[r][3]][s[3]] = r /\ f[f[r][4]][s[4]] = r
    <3>1. CASE h = 2
      BY <1>2, <2>2, <2>3, <2>6, <3>1
    <3>2. CASE h # 2
      BY <1>2, <2>2, <2>3, <2>6, <3>2
    <3> QED BY <3>1, <3>2
  <2>9. /\ f[r][1] # f[r][3] /\ f[r][1] # f[r][4] /\ f[r][2] # f[r][3] /\ f[r][2] # f[r][4]
    BY <2>1, <2>4
  <2>10. l # 2 => f[r][1] # f[r][2]
    BY <2>1, <2>4
  <2>11. h # 2 => f[r][3] # f[r][4]
    BY <2>2, <2>4
  <2>12. ASSUME NEW k \in 1 .. 4, NEW j \in 1 .. 4, f[r][k] = f[r][j]
         PROVE  k < j <=> s[k] < s[j]
    <3>1. k = j \/ ({k, j} = {1, 2} /\ l = 2) \/ ({k, j} = {3, 4} /\ h = 2)
      BY <1>1, <2>9, <2>10, <2>11, <2>12
    <3>2. CASE k = j
      BY <1>3, <3>2
    <3>3. CASE {k, j} = {1, 2} /\ l = 2
      BY <1>2, <3>3
    <3>4. CASE {k, j} = {3, 4} /\ h = 2
      BY <1>2, <3>4
    <3> QED BY <3>1, <3>2, <3>3, <3>4
  <2> QED BY <1>1, <2>4, <2>7, <2>8, <2>12
<1>7. \A r \in P : \A k \in 1 .. 4 :
        /\ f[r][k] \in P /\ f[f[r][k]][s[k]] = r
        /\ \A j \in 1 .. 4 : f[r][k] = f[r][j] => (k < j <=> s[k] < s[j])
  BY <1>4, <1>6
<1> QED BY <1>3, <1>7 DEF Answers, f, s, P

(***************************************************************************)
(* One step, up or down, in a dimension of n places of which mu ranks have *)
(* the same one in a row.                                                  *)
(***************************************************************************)
Move(mu, n, r, step) ==
  r + mu * (((((r \div mu) % n) + step + n) % n) - ((r \div mu) % n))

(***************************************************************************)
(* A step in a dimension changes the one coordinate.                       *)
(***************************************************************************)
LEMMA Moved ==
  ASSUME NEW mu \in Nat, NEW b \in Nat, NEW w \in Nat, NEW a \in Nat, NEW u \in Nat
  PROVE  (mu * (w + a) + b) + mu * (u - a) = mu * (w + u) + b
<1>1. mu * (w + a) = mu * w + mu * a /\ mu * (w + u) = mu * w + mu * u
      /\ mu * (u - a) = mu * u - mu * a
  OBVIOUS
<1>2. PICK x \in Nat, y \in Nat, z \in Nat : x = mu * w /\ y = mu * a /\ z = mu * u
  OBVIOUS
<1> QED BY <1>1, <1>2

(***************************************************************************)
(* The rank s has the coordinate a in a dimension of n, b in the ones that *)
(* vary faster and q in those that vary slower, and its steps lead to the  *)
(* neighbours.                                                             *)
(***************************************************************************)
Sits(mu, n, t, s, b, a, q) ==
  /\ s \in 0 .. mu * (n * t) - 1 /\ s = Cell(mu, b, Cell(n, a, q))
  /\ Move(mu, n, s, 1) = Cell(mu, b, Cell(n, Up(n, a), q))
  /\ Move(mu, n, s, -1) = Cell(mu, b, Cell(n, Down(n, a), q))

(***************************************************************************)
(* The cell of a and b.                                                    *)
(***************************************************************************)
InCell(l, h, a, b) ==
  /\ Cell(l, a, b) \in 0 .. l * h - 1
  /\ Cell(l, a, b) \div l = b /\ Cell(l, a, b) % l = a

(***************************************************************************)
(* It has these coordinates.                                               *)
(***************************************************************************)
LEMMA CellIn ==
  ASSUME NEW l \in Nat \ {0}, NEW h \in Nat \ {0}, NEW a \in 0 .. l - 1, NEW b \in 0 .. h - 1
  PROVE  InCell(l, h, a, b)
<1>1. /\ Cell(l, a, b) \in 0 .. l * h - 1
      /\ Cell(l, a, b) \div l = b /\ Cell(l, a, b) % l = a
  BY CellIs
<1> QED BY <1>1 DEF InCell

(***************************************************************************)
(* A rank given by its coordinates sits there.                             *)
(***************************************************************************)
LEMMA SitsThere ==
  ASSUME NEW mu \in Nat \ {0}, NEW n \in Nat \ {0}, NEW t \in Nat \ {0},
         NEW b \in 0 .. mu - 1, NEW a \in 0 .. n - 1, NEW q \in 0 .. t - 1
  PROVE  Sits(mu, n, t, Cell(mu, b, Cell(n, a, q)), b, a, q)
<1>1. PICK h \in Nat \ {0} : h = n * t
  <2>1. n * t \in Nat \ {0}
    OBVIOUS
  <2> QED BY <2>1
<1>2. Cell(n, a, q) \in 0 .. n * t - 1 /\ Cell(n, a, q) % n = a
  BY CellIs
<1>3. PICK e \in 0 .. h - 1 : e = Cell(n, a, q) /\ e % n = a
  BY <1>1, <1>2
<1>4. Cell(mu, b, e) \in 0 .. mu * h - 1 /\ Cell(mu, b, e) \div mu = e
  <2>1. InCell(mu, h, b, e)
    BY CellIn
  <2> QED BY <2>1 DEF InCell
<1>5. PICK s : s = Cell(mu, b, e)
  OBVIOUS
<1>6. /\ (a + 1 + n) % n = Up(n, a) /\ (a - 1 + n) % n = Down(n, a)
      /\ Up(n, a) \in 0 .. n - 1 /\ Down(n, a) \in 0 .. n - 1
  BY StepIs
<1>7. PICK u \in Nat, d \in Nat : u = Up(n, a) /\ d = Down(n, a)
  BY <1>6
<1>8. a + (-1) + n = a - 1 + n
  OBVIOUS
<1>9. Move(mu, n, s, 1) = s + mu * (u - a) /\ Move(mu, n, s, -1) = s + mu * (d - a)
  BY <1>3, <1>4, <1>5, <1>6, <1>7, <1>8 DEF Move
<1>10. PICK w \in Nat : w = n * q
  <2>1. n * q \in Nat
    OBVIOUS
  <2> QED BY <2>1
<1>11. s = mu * (w + a) + b
  BY <1>3, <1>5, <1>10 DEF Cell
<1>12. /\ (mu * (w + a) + b) + mu * (u - a) = mu * (w + u) + b
       /\ (mu * (w + a) + b) + mu * (d - a) = mu * (w + d) + b
  BY Moved
<1>13. /\ Cell(mu, b, Cell(n, Up(n, a), q)) = mu * (w + u) + b
       /\ Cell(mu, b, Cell(n, Down(n, a), q)) = mu * (w + d) + b
  BY <1>7, <1>10 DEF Cell
<1>14. s \in 0 .. mu * (n * t) - 1
  BY <1>1, <1>4, <1>5
<1>15. s = Cell(mu, b, Cell(n, a, q))
  BY <1>3, <1>5
<1>16. Sits(mu, n, t, s, b, a, q)
  BY <1>9, <1>11, <1>12, <1>13, <1>14, <1>15 DEF Sits
<1> QED BY <1>15, <1>16

(***************************************************************************)
(* Steps forth and back lead to where they began, within P.                *)
(***************************************************************************)
Moves(mu, n, P) ==
  \A r \in P : /\ Move(mu, n, r, 1) \in P /\ Move(mu, n, r, -1) \in P
              /\ Move(mu, n, Move(mu, n, r, 1), -1) = r
              /\ Move(mu, n, Move(mu, n, r, -1), 1) = r

(***************************************************************************)
(* The steps of a dimension do.                                            *)
(***************************************************************************)
LEMMA MoveIs ==
  ASSUME NEW mu \in Nat \ {0}, NEW n \in Nat \ {0}, NEW t \in Nat \ {0}
  PROVE  Moves(mu, n, 0 .. mu * (n * t) - 1)
<1> DEFINE P == 0 .. mu * (n * t) - 1
<1>1. PICK h \in Nat \ {0} : h = n * t
  <2>1. n * t \in Nat \ {0}
    OBVIOUS
  <2> QED BY <2>1
<1>2. ASSUME NEW r \in 0 .. mu * h - 1
      PROVE  \E b \in 0 .. mu - 1, a \in 0 .. n - 1, q \in 0 .. t - 1 :
               r = Cell(mu, b, Cell(n, a, q))
  <2>1. r % mu \in 0 .. mu - 1 /\ r \div mu \in 0 .. h - 1 /\ r = Cell(mu, r % mu, r \div mu)
    BY CellOf
  <2>2. PICK e \in 0 .. n * t - 1, b \in 0 .. mu - 1 : e = r \div mu /\ b = r % mu
    BY <1>1, <2>1
  <2>3. e % n \in 0 .. n - 1 /\ e \div n \in 0 .. t - 1 /\ e = Cell(n, e % n, e \div n)
    <3> HIDE DEF P
    <3> QED BY CellOf
  <2> QED BY <2>1, <2>2, <2>3
<1>3. ASSUME NEW b \in 0 .. mu - 1, NEW a \in 0 .. n - 1, NEW q \in 0 .. t - 1
      PROVE  LET r == Cell(mu, b, Cell(n, a, q))
             IN /\ Move(mu, n, r, 1) \in P /\ Move(mu, n, r, -1) \in P
                /\ Move(mu, n, Move(mu, n, r, 1), -1) = r
                /\ Move(mu, n, Move(mu, n, r, -1), 1) = r
  <2>1. /\ Up(n, a) \in 0 .. n - 1 /\ Down(n, a) \in 0 .. n - 1
        /\ Up(n, Down(n, a)) = a /\ Down(n, Up(n, a)) = a
    BY StepIs
  <2>2. /\ Sits(mu, n, t, Cell(mu, b, Cell(n, a, q)), b, a, q)
        /\ Sits(mu, n, t, Cell(mu, b, Cell(n, Up(n, a), q)), b, Up(n, a), q)
        /\ Sits(mu, n, t, Cell(mu, b, Cell(n, Down(n, a), q)), b, Down(n, a), q)
    BY <2>1, SitsThere
  <2> QED BY <2>1, <2>2 DEF Sits
<1>4. P = 0 .. mu * h - 1
  BY <1>1
<1> HIDE DEF P
<1>5. ASSUME NEW r \in P
      PROVE  /\ Move(mu, n, r, 1) \in P /\ Move(mu, n, r, -1) \in P
             /\ Move(mu, n, Move(mu, n, r, 1), -1) = r
             /\ Move(mu, n, Move(mu, n, r, -1), 1) = r
  <2>1. PICK b \in 0 .. mu - 1, a \in 0 .. n - 1, q \in 0 .. t - 1 :
               r = Cell(mu, b, Cell(n, a, q))
    BY <1>2, <1>4
  <2> QED BY <1>3, <2>1
<1> QED BY <1>5 DEF Moves, P

(***************************************************************************)
(* The ranks that a step in each dimension skips; those of a dimension are *)
(* a divisor of those of the first.                                        *)
(***************************************************************************)
Multiplies(f, g) ==
  f = [d \in 1 .. Len(g) + 1 |-> IF d > Len(g) THEN 1 ELSE g[d] * f[d + 1]]

-----------------------------------------------------------------------------
(***************************************************************************)
(* Two sequences of sequences have the same lengths.                       *)
(***************************************************************************)
Alike(s, t) == Len(s) = Len(t) /\ \A g \in 1 .. Len(s) : Len(s[g]) = Len(t[g])

(***************************************************************************)
(* Flattened, their parts begin at the same indices.                       *)
(***************************************************************************)
LEMMA StartsSame ==
  ASSUME NEW S, NEW T, NEW s \in Seq(Seq(S)), NEW t \in Seq(Seq(T)), Alike(s, t),
         NEW h \in 1 .. Len(s) + 1
  PROVE  StartOf(s, h) = StartOf(t, h)
<1> DEFINE n == Len(s)
           N == {k \in Nat : k <= n => StartOf(s, k + 1) = StartOf(t, k + 1)}
<1>1. /\ n \in Nat /\ StartOf(s, 1) = 0
      /\ \A g \in 1 .. n : StartOf(s, g) \in Nat /\ StartOf(s, g + 1) = StartOf(s, g) + Len(s[g])
  BY Starts
<1>2. /\ n = Len(t) /\ StartOf(t, 1) = 0
      /\ \A g \in 1 .. n : StartOf(t, g) \in Nat /\ StartOf(t, g + 1) = StartOf(t, g) + Len(t[g])
  BY Starts DEF Alike
<1>0. h \in 1 .. n + 1 /\ \A g \in 1 .. n : Len(s[g]) = Len(t[g])
  BY DEF Alike
<1> HIDE DEF n
<1>3. 0 \in N
  BY <1>1, <1>2
<1>4. ASSUME NEW k \in Nat, k \in N PROVE k + 1 \in N
  <2> SUFFICES ASSUME k + 1 <= n PROVE StartOf(s, (k + 1) + 1) = StartOf(t, (k + 1) + 1)
    OBVIOUS
  <2>1. k + 1 \in 1 .. n /\ k <= n
    BY <1>1
  <2>2. StartOf(s, k + 1) = StartOf(t, k + 1)
    BY <1>4, <2>1
  <2> QED BY <1>0, <1>1, <1>2, <2>1, <2>2
<1> HIDE DEF N
<1>5. h - 1 \in N /\ h - 1 <= n /\ (h - 1) + 1 = h
  <2>1. h - 1 \in Nat /\ h - 1 <= n /\ (h - 1) + 1 = h
    BY <1>0, <1>1
  <2> QED BY <1>3, <1>4, <2>1, Induction
<1> QED BY <1>5 DEF N

(***************************************************************************)
(* The ways that a rank sends in a grid, two in each dimension that has    *)
(* more than one place: up (1) and down (2).                               *)
(***************************************************************************)
WaysIn(g) == [d \in 1 .. Len(g) |-> IF g[d] = 1 THEN <<>> ELSE <<<<d, 1>>, <<d, 2>>>>]

(***************************************************************************)
(* All steps from a place in the grid g, in the order of the code.         *)
(***************************************************************************)
Ways(g) == FlattenSeq(WaysIn(g))

(***************************************************************************)
(* The steps of each dimension: none, or up and down.                      *)
(***************************************************************************)
LEMMA WaysAre ==
  ASSUME NEW g, Len(g) \in Nat
  PROVE  /\ WaysIn(g) \in Seq(Seq((1 .. Len(g)) \X {1, 2})) /\ Len(WaysIn(g)) = Len(g)
         /\ \A d \in 1 .. Len(g) :
              WaysIn(g)[d] = IF g[d] = 1 THEN <<>> ELSE <<<<d, 1>>, <<d, 2>>>>
<1> DEFINE n == Len(g)
           Q == (1 .. n) \X {1, 2}
           w == WaysIn(g)
<1>1. w = [d \in 1 .. n |-> IF g[d] = 1 THEN <<>> ELSE <<<<d, 1>>, <<d, 2>>>>]
  BY DEF WaysIn
<1>2. ASSUME NEW d \in 1 .. n PROVE w[d] \in Seq(Q)
  <2>1. <<d, 1>> \in Q /\ <<d, 2>> \in Q
    OBVIOUS
  <2> HIDE DEF Q, n, w
  <2>2. <<>> \in Seq(Q) /\ <<<<d, 1>>, <<d, 2>>>> \in Seq(Q)
    BY <2>1
  <2> QED BY <1>1, <2>2
<1> HIDE DEF Q, w
<1>3. w \in [1 .. n -> Seq(Q)]
  BY <1>1, <1>2
<1>4. w \in Seq(Seq(Q)) /\ Len(w) = n
  BY <1>3
<1> QED BY <1>1, <1>4 DEF Q, w

(***************************************************************************)
(* Each step has the one back.                                             *)
(***************************************************************************)
LEMMA WaysBack ==
  ASSUME NEW g, Len(g) \in Nat
  PROVE  /\ Ways(g) \in Seq((1 .. Len(g)) \X {1, 2})
         /\ \A k \in 1 .. Len(Ways(g)) : \E l \in 1 .. Len(Ways(g)) :
              Ways(g)[l][1] = Ways(g)[k][1] /\ Ways(g)[l][2] = 3 - Ways(g)[k][2]
<1> DEFINE n == Len(g)
           Q == (1 .. n) \X {1, 2}
           w == WaysIn(g)
           f == FlattenSeq(w)
<1>1. /\ w \in Seq(Seq(Q)) /\ Len(w) = n
      /\ \A d \in 1 .. n : w[d] = IF g[d] = 1 THEN <<>> ELSE <<<<d, 1>>, <<d, 2>>>>
  BY WaysAre
<1> HIDE DEF w, Q, n
<1>2. f \in Seq(Q)
  BY <1>1, FlattenAppend
<1>3. ASSUME NEW k \in 1 .. Len(f)
      PROVE  \E l \in 1 .. Len(f) : f[l][1] = f[k][1] /\ f[l][2] = 3 - f[k][2]
  <2>1. PICK d \in 1 .. Len(w) : \E j \in 1 .. Len(w[d]) : k = StartOf(w, d) + j
    BY <1>1, FlattenFrom
  <2>2. PICK j \in 1 .. Len(w[d]) : k = StartOf(w, d) + j
    BY <2>1
  <2>3. w[d] = <<<<d, 1>>, <<d, 2>>>>
    BY <1>1
  <2>4. /\ Len(w[d]) = 2 /\ 1 \in 1 .. Len(w[d]) /\ 2 \in 1 .. Len(w[d]) /\ (j = 1 \/ j = 2)
        /\ w[d][1][1] = d /\ w[d][1][2] = 1 /\ w[d][2][1] = d /\ w[d][2][2] = 2
    BY <2>3
  <2>5. /\ \A i \in 1 .. Len(w[d]) : /\ StartOf(w, d) + i \in 1 .. Len(f)
                                     /\ f[StartOf(w, d) + i] = w[d][i]
    BY <1>1, FlattenAt
  <2> HIDE DEF f
  <2>6. CASE j = 1
    BY <2>2, <2>4, <2>5, <2>6
  <2>7. CASE j = 2
    BY <2>2, <2>4, <2>5, <2>7
  <2> QED BY <2>4, <2>6, <2>7
<1> QED BY <1>2, <1>3 DEF Ways, n, w, Q

(***************************************************************************)
(* Requests for each way, dimension by dimension, come in the order of the *)
(* ways.                                                                   *)
(***************************************************************************)
ByWays(s, g, e) ==
  /\ s = [d \in 1 .. Len(g) |-> s[d]]
  /\ \A d \in 1 .. Len(g) : IF g[d] = 1 THEN s[d] = <<>> ELSE Two(s[d], e[<<d, 1>>], e[<<d, 2>>])

(***************************************************************************)
(* What is done for each dimension, done for each step.                    *)
(***************************************************************************)
LEMMA FlatByWays ==
  ASSUME NEW g, Len(g) \in Nat, NEW s, NEW e,
         \A u \in (1 .. Len(g)) \X {1, 2} : e[u] \in OpSet, ByWays(s, g, e)
  PROVE  Ones(FlattenSeq(s), Len(Ways(g)), [k \in 1 .. Len(Ways(g)) |-> e[Ways(g)[k]]])
<1> DEFINE n == Len(g)
           Q == (1 .. n) \X {1, 2}
           w == WaysIn(g)
           f == FlattenSeq(s)
           W == FlattenSeq(w)
           m == Len(W)
<1>1. /\ w \in Seq(Seq(Q)) /\ Len(w) = n /\ n \in Nat
      /\ \A d \in 1 .. n : w[d] = IF g[d] = 1 THEN <<>> ELSE <<<<d, 1>>, <<d, 2>>>>
  BY WaysAre
<1>2. \A u \in Q : e[u] \in OpSet
  OBVIOUS
<1>3. \A d \in 1 .. n : <<d, 1>> \in Q /\ <<d, 2>> \in Q
  OBVIOUS
<1> HIDE DEF w, Q, n
<1>4. /\ s = [d \in 1 .. n |-> s[d]]
      /\ \A d \in 1 .. n : IF g[d] = 1 THEN s[d] = <<>> ELSE Two(s[d], e[<<d, 1>>], e[<<d, 2>>])
  BY DEF ByWays, n
<1>5. ASSUME NEW d \in 1 .. n
      PROVE  /\ s[d] \in Seq(OpSet) /\ Len(s[d]) = Len(w[d])
             /\ \A j \in 1 .. Len(w[d]) : s[d][j] = e[w[d][j]]
  <2>1. CASE g[d] = 1
    <3>1. s[d] = <<>> /\ w[d] = <<>>
      BY <1>1, <1>4, <2>1
    <3>2. <<>> \in Seq(OpSet) /\ Len(<<>>) = 0
      OBVIOUS
    <3> QED BY <3>1, <3>2
  <2>2. CASE g[d] # 1
    <3>1. Two(s[d], e[<<d, 1>>], e[<<d, 2>>]) /\ w[d] = <<<<d, 1>>, <<d, 2>>>>
      BY <1>1, <1>4, <2>2
    <3>2. e[<<d, 1>>] \in OpSet /\ e[<<d, 2>>] \in OpSet
      BY <1>2, <1>3
    <3>3. PICK x \in OpSet, y \in OpSet : x = e[<<d, 1>>] /\ y = e[<<d, 2>>]
      BY <3>2
    <3>5. s[d] \in Seq(OpSet) /\ Len(s[d]) = 2 /\ s[d][1] = x /\ s[d][2] = y
      BY <3>1, <3>3 DEF Two
    <3>6. Len(w[d]) = 2 /\ w[d][1] = <<d, 1>> /\ w[d][2] = <<d, 2>>
      BY <3>1
    <3>7. \A j \in 1 .. 2 : j = 1 \/ j = 2
      OBVIOUS
    <3> QED BY <3>3, <3>5, <3>6, <3>7
  <2> QED BY <2>1, <2>2
<1>6. s \in Seq(Seq(OpSet)) /\ Len(s) = n
  <2>1. s \in [1 .. n -> Seq(OpSet)]
    BY <1>4, <1>5
  <2> QED BY <1>1, <2>1
<1>7. ASSUME NEW h \in 1 .. n + 1 PROVE StartOf(s, h) = StartOf(w, h)
  <2>1. Alike(s, w) /\ h \in 1 .. Len(s) + 1
    BY <1>1, <1>5, <1>6 DEF Alike
  <2> QED BY <1>1, <1>6, <2>1, StartsSame
<1>8. f \in Seq(OpSet) /\ W \in Seq(Q)
  BY <1>1, <1>6, FlattenAppend
<1>9. Len(f) = m /\ m \in Nat
  <2>1. StartOf(s, Len(s) + 1) = Len(f) /\ StartOf(w, Len(w) + 1) = m
    BY <1>1, <1>6, Starts
  <2>2. n + 1 \in 1 .. n + 1
    BY <1>1
  <2>3. Len(f) = m
    BY <1>1, <1>6, <1>7, <2>1, <2>2
  <2> HIDE DEF W
  <2> QED BY <1>8, <2>3
<1>10. ASSUME NEW k \in 1 .. m PROVE f[k] = e[W[k]]
  <2>1. PICK d \in 1 .. Len(w) : \E j \in 1 .. Len(w[d]) : k = StartOf(w, d) + j
    BY <1>1, FlattenFrom
  <2>2. PICK j \in 1 .. Len(w[d]) : k = StartOf(w, d) + j
    BY <2>1
  <2>3. d \in 1 .. n /\ d \in 1 .. Len(s) /\ d \in 1 .. n + 1 /\ j \in 1 .. Len(s[d])
    BY <1>1, <1>5, <1>6
  <2>4. W[k] = w[d][j]
    BY <1>1, <2>2, FlattenAt
  <2>5. f[StartOf(s, d) + j] = s[d][j]
    BY <1>6, <2>3, FlattenAt
  <2>6. f[k] = s[d][j]
    BY <1>7, <2>2, <2>3, <2>5
  <2> QED BY <1>5, <2>3, <2>4, <2>6
<1> DEFINE E == [k \in 1 .. m |-> e[W[k]]]
<1> HIDE DEF f, W
<1>11. Ones(f, m, E)
  BY <1>8, <1>9, <1>10 DEF Ones
<1> QED BY <1>11 DEF f, W, w, Ways

Sense(u) == <<IF u[2] = 1 THEN "up" ELSE "down", u[1]>>

(***************************************************************************)
(* The number of steps.                                                    *)
(***************************************************************************)
Many(c) == Len(Ways(c.grid))

HaloSense(c) == [k \in 1 .. Many(c) |-> Sense(Ways(c.grid)[k])]

Same(c) == [k \in 1 .. Many(c) |-> k]

(***************************************************************************)
(* The labels of HALO.                                                     *)
(***************************************************************************)
LEMMA SenseIs == \A d \in Nat : <<"up", d>> \in Labels /\ <<"down", d>> \in Labels
<1> SUFFICES ASSUME NEW d \in Nat PROVE <<"up", d>> \in Labels /\ <<"down", d>> \in Labels
  OBVIOUS
<1>1. <<"up", d>> \in {"up", "down"} \X Nat /\ <<"down", d>> \in {"up", "down"} \X Nat
  OBVIOUS
<1> QED BY <1>1 DEF Labels

(***************************************************************************)
(* What the iterations of a program do to its ranks.                       *)
(***************************************************************************)
Paced(p, D) ==
  /\ \A x \in Operations(p) : OpOf(p, x).iter \in Nat
  /\ InTime(p)
  /\ Along(p, D)
  /\ Together(p)
  /\ \A m \in Mates(p) : OpOf(p, m[1]).iter = OpOf(p, m[2]).iter
  /\ \E a, b \in Nat : Within(p, a, b) /\ Listens(p, Mates(p), D, a, b)

-----------------------------------------------------------------------------
(***************************************************************************)
(* A piece is paced.                                                       *)
(***************************************************************************)
LEMMA PiecePaced ==
  ASSUME NEW R, NEW V, NEW D, NEW p, NEW a \in Nat, NEW b \in Nat, Piece(R, V, D, p, a, b)
  PROVE  Paced(p, D)
<1>1. PICK M : p \in [R -> Seq(OpSet)] /\ Pairs(p, V, M) /\ Listens(p, M, D, a, b)
  BY DEF Piece
<1>2. Mates(p) = M
  BY <1>1, PairsAreMates
<1>3. \A x \in Operations(p) : OpOf(p, x).iter \in Nat
  BY <1>1, LaterOps DEF OpSet
<1>4. \A m \in Mates(p) : OpOf(p, m[1]).iter = OpOf(p, m[2]).iter
  BY PieceSound
<1> QED BY <1>1, <1>2, <1>3, <1>4 DEF Piece, Paced

(***************************************************************************)
(* The ranks that have left the iterations before k behind.                *)
(***************************************************************************)
Past(k) ==
  {r \in Rank : \A z \in Operations(program) : z[1] = r /\ Op(z).iter < k => Passed(z)}

(***************************************************************************)
(* A rank has passed the operations of the iterations before that of one   *)
(* it has passed.                                                          *)
(***************************************************************************)
LEMMA EarlierPassed ==
  ASSUME Inv, NEW D, Paced(program, D), NEW x \in Operations(program),
         NEW y \in Operations(program), x[1] = y[1], Passed(x), Op(y).iter < Op(x).iter
  PROVE  Passed(y)
<1> SUFFICES ASSUME ~ Passed(y) PROVE FALSE
  OBVIOUS
<1>1. Sound(program) /\ AtOK
  BY DEF Inv
<1>2. at[y[1]] <= y[2] /\ y[1] \in Rank
  BY <1>1, NotPassed
<1>3. at[y[1]] \in Nat /\ x[2] \in Nat /\ y[2] \in Nat
  BY <1>1, <1>2, IndexIsNat DEF AtOK, Sound
<1>4. x[2] <= y[2]
  BY <1>2, <1>3 DEF Passed
<1>5. Op(x).time <= Op(y).time
  BY <1>1, <1>4 DEF Sound, Scheduled, Op
<1>6. 16 * Op(x).iter <= Op(x).time /\ Op(y).time < 16 * Op(y).iter + 16
  BY DEF Paced, InTime, Op
<1>7. Op(x).time \in Nat /\ Op(y).time \in Nat /\ Op(x).iter \in Nat /\ Op(y).iter \in Nat
  BY <1>1, IndexIsNat DEF Paced, Sound, Op
<1> QED BY <1>5, <1>6, <1>7

(***************************************************************************)
(* A rank has left behind the iterations before that of an operation it    *)
(* has passed.                                                             *)
(***************************************************************************)
LEMMA CameTo ==
  ASSUME Inv, NEW D, Paced(program, D), NEW x \in Operations(program), Passed(x)
  PROVE  x[1] \in Past(Op(x).iter)
<1>1. x[1] \in Rank
  BY OperationsAre DEF Rank
<1>2. \A z \in Operations(program) : z[1] = x[1] /\ Op(z).iter < Op(x).iter => Passed(z)
  BY EarlierPassed
<1> QED BY <1>1, <1>2 DEF Past

(***************************************************************************)
(* Who has left more behind has left less behind.                          *)
(***************************************************************************)
LEMMA PastLess ==
  ASSUME NEW D, Paced(program, D), NEW j \in Int, NEW k \in Int, j <= k
  PROVE  Past(k) \subseteq Past(j)
<1>1. \A z \in Operations(program) : Op(z).iter \in Nat
  BY DEF Paced, Op
<1>2. \A z \in Operations(program) : Op(z).iter < j => Op(z).iter < k
  BY <1>1
<1> QED BY <1>2 DEF Past

(***************************************************************************)
(* A rank has not left the iteration it is in.                             *)
(***************************************************************************)
LEMMA NotPast ==
  ASSUME Inv, NEW r \in Rank, ~ Finished(r), NEW k, Op(Now(r)).iter < k
  PROVE  r \notin Past(k)
<1>1. Now(r) \in Operations(program) /\ Now(r)[1] = r /\ ~ Passed(Now(r))
  BY NowIs DEF Inv
<1> QED BY <1>1 DEF Past

(***************************************************************************)
(* A receive that a rank has left behind has got its message.              *)
(***************************************************************************)
LEMMA LeftBehind ==
  ASSUME Inv, NEW D, Paced(program, D), NEW m \in Mates(program), NEW j \in Nat,
         Op(m[2]).iter = j, m[2][1] \in Past(j + 1)
  PROVE  m[1][1] \in Past(j)
<1> USE DEF Inv
<1>1. /\ m[1] \in OfKinds(program, {"isend"}) /\ m[2] \in OfKinds(program, {"irecv"})
      /\ m[1] \in Operations(program) /\ m[2] \in Operations(program)
  BY MatesAre, KindsOf
<1>2. PICK w \in Operations(program) :
        /\ AwaitedBy(program, m[2], w)
        /\ \A k \in m[2][2] .. w[2] : program[m[2][1]][k].iter = OpOf(program, m[2]).iter
  <2>1. m[2] \in OfKinds(program, {"isend", "irecv"})
    BY <1>1, KindsOf
  <2> QED BY <2>1 DEF Sound, WaitedFor
<1>3. m[2][2] \in Nat /\ w[2] \in Nat /\ w[1] = m[2][1] /\ m[2][2] < w[2]
  BY <1>1, <1>2, IndexIsNat DEF Sound, AwaitedBy
<1>4. Op(w).iter = j
  <2>1. w[2] \in m[2][2] .. w[2]
    BY <1>3
  <2> QED BY <1>2, <1>3, <2>1 DEF Op, OpOf
<1>5. Passed(m[2]) /\ Passed(w)
  BY <1>1, <1>3, <1>4 DEF Past
<1>6. RecvMatched(m[2])
  <2> SUFFICES ASSUME ~ RecvMatched(m[2]) PROVE FALSE
    OBVIOUS
  <2> DEFINE r == m[2][1]
  <2>1. r \in Rank
    BY <1>1, OperationsAre DEF Rank
  <2>2. m[2] \in Called(r, {"irecv"})
    BY <1>1, <1>5, <2>1, CalledAre
  <2>3. m[2] \in Pending(r)
    BY <2>2 DEF Pending, PendingRecvs
  <2>4. w = <<r, w[2]>> /\ w[2] \in 1 .. at[r] - 1
    <3>1. w = <<w[1], w[2]>> /\ w[2] \in 1 .. Len(program[w[1]])
      BY OperationsAre
    <3>2. at[r] \in Nat
      BY <2>1 DEF AtOK
    <3>3. w[2] < at[r]
      BY <1>3, <1>5 DEF Passed
    <3>4. w[2] >= 1
      BY <1>3
    <3>5. w[2] \in 1 .. at[r] - 1
      BY <1>3, <3>2, <3>3, <3>4
    <3> QED BY <1>3, <3>1, <3>5
  <2>5. ~ AwaitedBy(program, m[2], <<r, w[2]>>)
    BY <2>1, <2>3, <2>4 DEF WaitsOver
  <2> QED BY <1>2, <2>4, <2>5
<1>7. Passed(m[1])
  BY <1>6, MatchedIff
<1>8. Op(m[1]).iter = j
  BY DEF Paced, Op
<1> QED BY <1>1, <1>7, <1>8, CameTo

(***************************************************************************)
(* If one rank has left the iteration and one has not, and the iteration   *)
(* has no barrier, then a rank that has not has come to it.                *)
(***************************************************************************)
LEMMA OneMore ==
  ASSUME Inv, NEW D, Paced(program, D), NEW j \in Nat, Hears(program, Mates(program), D, j),
         NEW s, NEW d, <<s, d>> \in D, s \in Past(j + 1), d \notin Past(j + 1)
  PROVE  \E q \in Past(j) : q \notin Past(j + 1)
<1> DEFINE e == <<s, d>>
           S == Past(j + 1)
<1>1. e \in D /\ e[1] = s /\ e[2] = d
  OBVIOUS
<1>2. S \in SUBSET DOMAIN program
  BY DEF Past, Rank
<1>3. PICK m \in Mates(program) : m[2][1] \in S /\ m[1][1] \notin S /\ OpOf(program, m[2]).iter = j
  <2> HIDE DEF e, S
  <2>1. e[1] \in S /\ e[2] \notin S
    BY <1>1 DEF S
  <2> QED BY <1>1, <1>2, <2>1 DEF Hears
<1>4. m[1][1] \in Past(j)
  BY <1>3, LeftBehind DEF Op
<1> QED BY <1>3, <1>4

(***************************************************************************)
(* Operations at the same time are in the same iteration.                  *)
(***************************************************************************)
LEMMA SameIteration ==
  ASSUME Inv, NEW D, Paced(program, D), NEW x \in Operations(program),
         NEW y \in Operations(program), Op(x).time = Op(y).time
  PROVE  Op(x).iter = Op(y).iter
<1>1. PICK i \in Nat, j \in Nat, t \in Nat :
        i = Op(x).iter /\ j = Op(y).iter /\ t = Op(x).time /\ t = Op(y).time
  BY IndexIsNat DEF Paced, Op, Inv, Sound
<1>2. 16 * i <= t /\ t < 16 * i + 16 /\ 16 * j <= t /\ t < 16 * j + 16
  BY <1>1 DEF Paced, InTime, Op
<1>3. i = j
  BY <1>2
<1> QED BY <1>1, <1>3

(***************************************************************************)
(* Where a barrier has been passed all ranks have come to its iteration.   *)
(***************************************************************************)
LEMMA AllCome ==
  ASSUME Inv, NEW D, Paced(program, D), NEW y \in OfKinds(program, {"barrier"}), Passed(y),
         NEW d \in Rank
  PROVE  d \in Past(Op(y).iter)
<1>1. PICK z \in OfKinds(program, {"barrier"}) :
        z[1] = d /\ OpOf(program, z).time = OpOf(program, y).time
  BY DEF Inv, Sound, Scheduled, Rank
<1>2. z \in Operations(program) /\ y \in Operations(program)
  BY KindsOf
<1>3. Passed(z)
  BY <1>1 DEF Inv, SameBarriers, Op
<1>4. Op(z).iter = Op(y).iter
  <2>1. Op(z).time = Op(y).time
    BY <1>1 DEF Op
  <2> QED BY <1>2, <2>1, SameIteration
<1> QED BY <1>1, <1>2, <1>3, <1>4, CameTo

(***************************************************************************)
(* One that is ahead has no barrier between itself and one that is behind. *)
(***************************************************************************)
LEMMA NoBarrier ==
  ASSUME Inv, NEW D, Paced(program, D), NEW j \in Nat, NEW s \in Past(j + 1),
         NEW d \in Rank, d \notin Past(j)
  PROVE  ~ Meets(program, j)
<1> SUFFICES ASSUME NEW x \in OfKinds(program, {"barrier"}), OpOf(program, x).iter = j
             PROVE  FALSE
  BY DEF Meets
<1>1. s \in Rank
  BY DEF Past
<1>2. PICK z \in OfKinds(program, {"barrier"}) :
        z[1] = s /\ OpOf(program, z).time = OpOf(program, x).time
  BY <1>1 DEF Inv, Sound, Scheduled, Rank
<1>3. z \in Operations(program) /\ x \in Operations(program)
  BY KindsOf
<1>4. Op(z).iter = j
  <2>1. Op(z).time = Op(x).time /\ Op(x).iter = j
    BY <1>2 DEF Op
  <2> QED BY <1>3, <2>1, SameIteration
<1>5. Passed(z)
  BY <1>2, <1>3, <1>4 DEF Past
<1> QED BY <1>4, <1>5, AllCome

(***************************************************************************)
(* The further a rank is ahead, the more ranks are ahead of the other one. *)
(***************************************************************************)
LEMMA ManyAhead ==
  ASSUME Inv, NEW D, Paced(program, D), IsFiniteSet(Rank),
         NEW i \in Nat, NEW o \in Nat, NEW s \in Past(i), NEW d \in Rank, <<s, d>> \in D,
         d \notin Past(o + 1),
         \A j \in Nat : o < j /\ j < i => Meets(program, j) \/ Hears(program, Mates(program), D, j)
  PROVE  \A n \in Nat : o < i - n => Cardinality(Past(i - n)) >= n + 1
<1> DEFINE N == {n \in Nat : o < i - n => Cardinality(Past(i - n)) >= n + 1}
<1>1. \A k \in Int : IsFiniteSet(Past(k)) /\ Cardinality(Past(k)) \in Nat
  <2>1. \A k : Past(k) \subseteq Rank
    BY DEF Past
  <2> QED BY <2>1, FS_Subset, FS_CardinalityType
<1>2. 0 \in N
  <2>1. Cardinality(Past(i)) # 0
    BY <1>1, FS_EmptySet
  <2>2. Cardinality(Past(i)) \in Nat
    BY <1>1
  <2>3. Cardinality(Past(i)) >= 1
    BY <2>1, <2>2
  <2>4. i - 0 = i
    OBVIOUS
  <2> QED BY <2>3, <2>4
<1>3. ASSUME NEW n \in Nat, n \in N PROVE n + 1 \in N
  <2> SUFFICES ASSUME o < i - (n + 1) PROVE Cardinality(Past(i - (n + 1))) >= (n + 1) + 1
    OBVIOUS
  <2>1. PICK j \in Nat : j = i - (n + 1)
    OBVIOUS
  <2>2. i - n = j + 1 /\ o < i - n /\ o < j /\ j < i
    BY <2>1
  <2>3. s \in Past(j + 1)
    BY <2>2, PastLess
  <2>4. d \notin Past(j) /\ d \notin Past(j + 1)
    BY <2>2, PastLess
  <2>5. ~ Meets(program, j)
    BY <2>3, <2>4, NoBarrier
  <2>6. Hears(program, Mates(program), D, j)
    BY <2>2, <2>5
  <2>7. PICK q \in Past(j) : q \notin Past(j + 1)
    BY <2>3, <2>4, <2>6, OneMore
  <2>8. Past(j + 1) \cup {q} \subseteq Past(j)
    BY <2>7, PastLess
  <2>9. IsFiniteSet(Past(j + 1)) /\ IsFiniteSet(Past(j))
    BY <1>1
  <2>14. Cardinality(Past(j + 1) \cup {q}) = Cardinality(Past(j + 1)) + 1
    BY <2>7, <2>9, FS_AddElement, Zenon
  <2>10. Cardinality(Past(j + 1) \cup {q}) <= Cardinality(Past(j))
    BY <2>8, <2>9, FS_Subset
  <2>11. Cardinality(Past(j + 1)) >= n + 1
    BY <1>3, <2>2
  <2>12. Cardinality(Past(j)) \in Nat /\ Cardinality(Past(j + 1)) \in Nat
    BY <1>1
  <2>13. Cardinality(Past(j)) >= (n + 1) + 1
    BY <2>14, <2>10, <2>11, <2>12
  <2> QED BY <2>1, <2>13
<1> HIDE DEF N
<1>4. Nat \subseteq N
  BY <1>2, <1>3, Induction
<1> QED BY <1>4 DEF N

(***************************************************************************)
(* A sender is fewer iterations ahead than there are ranks.                *)
(***************************************************************************)
LEMMA NotFarAhead ==
  ASSUME Inv, NEW D, Paced(program, D), D # {}, NEW np \in Nat, Rank = 0 .. np - 1,
         NEW x \in OfKinds(program, {"isend"}), Passed(x), ~ SendMatched(x)
  PROVE  ~ Finished(Op(x).peer) /\ Op(x).iter - Op(Now(Op(x).peer)).iter < np
<1> DEFINE d == Op(x).peer
           s == x[1]
           i == Op(x).iter
           o == Op(Now(d)).iter
<1>1. PICK y \in OfKinds(program, {"irecv"}) : <<x, y>> \in Mates(program)
  BY DEF Inv, Sound, Orderly
<1>2. x \in Operations(program) /\ y \in Operations(program)
  BY <1>1, KindsOf
<1>3. y[1] = d /\ ~ Passed(y)
  <2>1. <<x, y>>[1] = x /\ <<x, y>>[2] = y
    OBVIOUS
  <2>2. Fits(program, x, y)
    BY <1>1, <2>1, MatesAre
  <2>3. ~ Passed(y)
    BY <1>1, <2>1, MatchedIff DEF Inv
  <2> QED BY <2>2, <2>3 DEF Fits, Op
<1>4. d \in Rank /\ ~ Finished(d) /\ Now(d) \in Operations(program)
  BY <1>2, <1>3, NotPassed DEF Inv
<1>5. i \in Nat /\ o \in Nat
  BY <1>2, <1>4 DEF Paced, Op
<1>6. s \in Past(i)
  BY <1>2, CameTo
<1>7. d \notin Past(o + 1)
  BY <1>4, <1>5, NotPast
<1>8. 1 \in Nat /\ np > 0
  BY <1>4
<1>9. CASE ~ (<<s, d>> \in D)
  <2>1. PICK z \in OfKinds(program, {"barrier"}) :
          z[1] = s /\ z[2] < x[2] /\ OpOf(program, z).iter = OpOf(program, x).iter
    BY <1>9 DEF Paced, Along, Op
  <2>2. z \in Operations(program)
    BY KindsOf
  <2>3. s \in Rank
    BY <1>2, OperationsAre DEF Rank
  <2>4. at[s] \in Nat /\ x[2] \in Nat /\ z[2] \in Nat
    BY <1>2, <2>2, <2>3, IndexIsNat DEF Inv, AtOK, Sound
  <2>5. Passed(z)
    BY <2>1, <2>4 DEF Passed
  <2>6. d \in Past(i)
    BY <1>4, <2>1, <2>5, AllCome DEF Op
  <2> HIDE DEF i, o
  <2>7. ~ (o + 1 <= i)
    BY <1>5, <1>7, <2>6, PastLess
  <2>8. i - o < np
    BY <1>5, <1>8, <2>7
  <2> QED BY <1>4, <2>8 DEF i, o
<1>10. CASE <<s, d>> \in D
  <2>1. PICK a \in Nat, b \in Nat : Within(program, a, b) /\ Listens(program, Mates(program), D, a, b)
    BY DEF Paced
  <2>2. /\ a <= Op(Now(d)).time /\ Op(Now(d)).time < 16 * o + 16
        /\ 16 * i <= Op(x).time /\ Op(x).time < b
    BY <1>2, <1>4, <2>1 DEF Within, Paced, InTime, Op
  <2>3. Op(Now(d)).time \in Nat /\ Op(x).time \in Nat
    BY <1>2, <1>4, IndexIsNat DEF Op, Inv, Sound
  <2> HIDE DEF s, d, i, o
  <2>4. \A j \in Nat : o < j /\ j < i => a <= 16 * j /\ 16 * j < b
    BY <1>5, <2>2, <2>3
  <2>5. \A j \in Nat : o < j /\ j < i => Meets(program, j) \/ Hears(program, Mates(program), D, j)
    BY <2>1, <2>4 DEF Listens
  <2>6. IsFiniteSet(Rank) /\ Cardinality(Rank) = np
    <3>1. np - 1 \in Int /\ 0 \in Int
      OBVIOUS
    <3>2. IsFiniteSet(0 .. np - 1) /\ Cardinality(0 .. np - 1) = IF 0 > np - 1 THEN 0 ELSE (np - 1) - 0 + 1
      BY <3>1, FS_Interval
    <3> QED BY <1>8, <3>2
  <2>7. \A n \in Nat : o < i - n => Cardinality(Past(i - n)) >= n + 1
    BY <1>4, <1>5, <1>6, <1>7, <1>10, <2>5, <2>6, ManyAhead
  <2>8. CASE i <= o
    <3>1. i - o < np
      BY <1>5, <1>8, <2>8
    <3> QED BY <1>4, <3>1 DEF i, o, d
  <2>9. CASE i > o
    <3>1. PICK n \in Nat : n = i - (o + 1)
      BY <1>5, <2>9
    <3>2. i - n = o + 1 /\ o < i - n
      BY <1>5, <3>1
    <3>3. Cardinality(Past(o + 1)) >= n + 1
      BY <2>7, <3>2
    <3>4. Past(o + 1) \subseteq Rank \ {d}
      BY <1>7 DEF Past
    <3> HIDE DEF d
    <3>8. Cardinality(Rank \ {d}) = Cardinality(Rank) - 1 /\ IsFiniteSet(Rank \ {d})
      BY <1>4, <2>6, FS_RemoveElement, Zenon
    <3>5. Cardinality(Rank \ {d}) = np - 1 /\ IsFiniteSet(Rank \ {d})
      BY <2>6, <3>8
    <3>6. Cardinality(Past(o + 1)) <= np - 1 /\ Cardinality(Past(o + 1)) \in Nat
      BY <3>4, <3>5, FS_Subset, FS_CardinalityType
    <3>7. i - o < np
      BY <1>5, <3>1, <3>3, <3>6
    <3> QED BY <1>4, <3>7 DEF i, o, d
  <2> QED BY <1>5, <2>8, <2>9
<1> QED BY <1>9, <1>10
=============================================================================
