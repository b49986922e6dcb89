--------------------------- MODULE GroupInfo_proofs ---------------------------
(***************************************************************************)
(* Theorems about the renumbering of ranks with -map, the groups that      *)
(* -multi makes of the renumbered ranks, and what rank 0 knows of them.    *)
(***************************************************************************)
EXTENDS GroupInfo, TLAPS, WellFoundedInduction, SequenceTheorems, FiniteSetTheorems

-----------------------------------------------------------------------------
(***************************************************************************)
(* A set with 0 and the successors of its numbers has all numbers: else    *)
(* look at the least that it has not.                                      *)
(***************************************************************************)
LEMMA Induction ==
  ASSUME NEW S, 0 \in S, \A n \in Nat : n \in S => n + 1 \in S
  PROVE  Nat \subseteq S
<1> SUFFICES ASSUME Nat \ S # {} PROVE FALSE
  OBVIOUS
<1>1. PICK m \in Nat \ S : \A k \in Nat \ S : ~ (<<k, m>> \in OpToRel(<, Nat))
  BY WFMin, NatLessThanWellFounded
<1>2. m # 0 /\ m - 1 \in Nat
  OBVIOUS
<1>3. <<m - 1, m>> \in OpToRel(<, Nat)
  BY <1>2 DEF OpToRel
<1>4. m - 1 \in S
  BY <1>1, <1>2, <1>3
<1>5. (m - 1) + 1 = m
  OBVIOUS
<1> QED BY <1>2, <1>4, <1>5

(***************************************************************************)
(* The function that FlattenSeq is defined with; there is one, and one     *)
(* only.                                                                   *)
(***************************************************************************)
Flattens(f, s, n) ==
  f = [i \in 1 .. n |-> IF i = 1 THEN s[i] ELSE f[i - 1] \o s[i]]

LEMMA FlattensExists ==
  ASSUME NEW S, NEW s \in Seq(Seq(S)), NEW n \in 0 .. Len(s)
  PROVE  \E f : Flattens(f, s, n) /\ \A i \in 1 .. n : f[i] \in Seq(S)
<1> DEFINE N == {k \in Nat : k <= Len(s) =>
                    \E f : Flattens(f, s, k) /\ \A i \in 1 .. k : f[i] \in Seq(S)}
<1>1. 0 \in N
  <2>1. Flattens(<<>>, s, 0)
    BY DEF Flattens
  <2> QED BY <2>1
<1>2. ASSUME NEW k \in Nat, k \in N PROVE k + 1 \in N
  <2> SUFFICES ASSUME k + 1 <= Len(s)
               PROVE  \E f : Flattens(f, s, k + 1) /\ \A i \in 1 .. k + 1 : f[i] \in Seq(S)
    OBVIOUS
  <2>1. PICK f : Flattens(f, s, k) /\ \A i \in 1 .. k : f[i] \in Seq(S)
    BY <1>2
  <2> DEFINE v == IF k = 0 THEN s[k + 1] ELSE f[k] \o s[k + 1]
             g == [i \in 1 .. k + 1 |-> IF i = k + 1 THEN v ELSE f[i]]
  <2>2. s[k + 1] \in Seq(S)
    OBVIOUS
  <2>3. v \in Seq(S)
    BY <2>1, <2>2
  <2> HIDE DEF v
  <2>4. \A i \in 1 .. k + 1 : g[i] \in Seq(S)
    BY <2>1, <2>3
  <2>5. ASSUME NEW i \in 1 .. k + 1
        PROVE  g[i] = IF i = 1 THEN s[i] ELSE g[i - 1] \o s[i]
    <3>1. CASE i = k + 1
      BY <3>1 DEF v
    <3>2. CASE i # k + 1
      <4>1. i \in 1 .. k /\ (i # 1 => i - 1 \in 1 .. k /\ i - 1 # k + 1 /\ i - 1 \in 1 .. k + 1)
        BY <3>2
      <4>2. f[i] = IF i = 1 THEN s[i] ELSE f[i - 1] \o s[i]
        BY <2>1, <4>1 DEF Flattens
      <4> QED BY <4>1, <4>2
    <3> QED BY <3>1, <3>2
  <2>6. Flattens(g, s, k + 1)
    <3>1. g = [i \in 1 .. k + 1 |-> g[i]]
      OBVIOUS
    <3> HIDE DEF g
    <3> QED BY <2>5, <3>1 DEF Flattens
  <2> HIDE DEF g
  <2> QED BY <2>4, <2>6
<1> HIDE DEF N
<1>3. Nat \subseteq N
  BY <1>1, <1>2, Induction
<1> QED BY <1>3 DEF N

LEMMA FlattensSame ==
  ASSUME NEW s, NEW t, NEW n \in Nat, NEW m \in Nat,
         NEW f, NEW g, Flattens(f, s, n), Flattens(g, t, m),
         NEW i \in 1 .. n, i <= m, \A j \in 1 .. i : s[j] = t[j]
  PROVE  f[i] = g[i]
<1> DEFINE N == {k \in Nat : k \in 1 .. i => f[k] = g[k]}
<1>1. 0 \in N
  OBVIOUS
<1>2. ASSUME NEW k \in Nat, k \in N PROVE k + 1 \in N
  <2> SUFFICES ASSUME k + 1 \in 1 .. i PROVE f[k + 1] = g[k + 1]
    OBVIOUS
  <2>1. /\ f[k + 1] = IF k + 1 = 1 THEN s[k + 1] ELSE f[(k + 1) - 1] \o s[k + 1]
        /\ g[k + 1] = IF k + 1 = 1 THEN t[k + 1] ELSE g[(k + 1) - 1] \o t[k + 1]
    <3>1. k + 1 \in 1 .. n /\ k + 1 \in 1 .. m
      OBVIOUS
    <3> QED BY <3>1 DEF Flattens
  <2>2. (k + 1) - 1 = k /\ s[k + 1] = t[k + 1] /\ (k + 1 # 1 => k \in 1 .. i)
    OBVIOUS
  <2> QED BY <1>2, <2>1, <2>2
<1> HIDE DEF N
<1>3. Nat \subseteq N
  BY <1>1, <1>2, Induction
<1> QED BY <1>3 DEF N

LEMMA FlattenIs ==
  ASSUME NEW S, NEW s \in Seq(Seq(S)), s # <<>>, NEW f, Flattens(f, s, Len(s))
  PROVE  FlattenSeq(s) = f[Len(s)]
<1> DEFINE n == Len(s)
           h == CHOOSE h : Flattens(h, s, n)
<1>1. Flattens(h, s, n)
  OBVIOUS
<1>2. FlattenSeq(s) = h[n]
  BY DEF FlattenSeq, Flattens
<1>3. n \in Nat /\ n # 0 /\ n \in 1 .. n
  OBVIOUS
<1> HIDE DEF h, n
<1>4. h[n] = f[n]
  BY <1>1, <1>3, FlattensSame DEF n
<1> QED BY <1>2, <1>4 DEF n

(***************************************************************************)
(* One more sequence is appended to the result.                            *)
(***************************************************************************)
LEMMA FlattenAppend ==
  ASSUME NEW S, NEW s \in Seq(Seq(S)), NEW e \in Seq(S)
  PROVE  /\ FlattenSeq(<<>>) = <<>> /\ FlattenSeq(s) \in Seq(S)
         /\ FlattenSeq(Append(s, e)) = FlattenSeq(s) \o e
<1> DEFINE n == Len(s)
           t == Append(s, e)
<1>1. FlattenSeq(<<>>) = <<>>
  BY DEF FlattenSeq
<1>2. /\ t \in Seq(Seq(S)) /\ Len(t) = n + 1 /\ t # <<>> /\ t[n + 1] = e /\ n \in Nat
      /\ \A j \in 1 .. n : t[j] = s[j]
  <2>1. /\ t \in Seq(Seq(S)) /\ Len(t) = n + 1 /\ t[n + 1] = e
        /\ \A j \in 1 .. n : t[j] = s[j]
    BY AppendProperties
  <2>2. n \in Nat
    OBVIOUS
  <2> HIDE DEF t, n
  <2>3. t # <<>>
    BY <2>1, <2>2
  <2> QED BY <2>1, <2>2, <2>3
<1> HIDE DEF t, n
<1>3. PICK f : Flattens(f, s, n) /\ \A i \in 1 .. n : f[i] \in Seq(S)
  <2>1. n \in 0 .. Len(s)
    BY <1>2 DEF n
  <2> QED BY <2>1, FlattensExists
<1>4. PICK g : Flattens(g, t, n + 1)
  <2>1. n + 1 \in 0 .. Len(t)
    BY <1>2
  <2> QED BY <1>2, <2>1, FlattensExists
<1>5. FlattenSeq(t) = g[n + 1]
  BY <1>2, <1>4, FlattenIs
<1>6. CASE n = 0
  <2>1. s = <<>>
    BY <1>6 DEF n
  <2>2. g[n + 1] = e
    BY <1>2, <1>4, <1>6 DEF Flattens
  <2>3. <<>> \o e = e /\ <<>> \in Seq(S)
    OBVIOUS
  <2>4. FlattenSeq(s) = <<>>
    BY <1>1, <2>1
  <2>5. FlattenSeq(t) = <<>> \o e
    BY <1>5, <2>2, <2>3
  <2> QED BY <1>1, <2>3, <2>4, <2>5 DEF t
<1>7. CASE n # 0
  <2>1. FlattenSeq(s) = f[n] /\ f[n] \in Seq(S)
    <3>1. s # <<>>
      BY <1>7 DEF n
    <3> QED BY <1>2, <1>3, <1>7, <3>1, FlattenIs DEF n
  <2>2. g[n] = f[n]
    <3>1. n + 1 \in Nat /\ n \in 1 .. n + 1 /\ n <= n /\ \A j \in 1 .. n : t[j] = s[j]
      BY <1>2, <1>7
    <3>2. Flattens(g, t, n + 1) /\ Flattens(f, s, n) /\ n \in Nat
      BY <1>2, <1>3, <1>4
    <3> HIDE DEF n, t
    <3> QED BY <3>1, <3>2, FlattensSame
  <2>3. g[n + 1] = g[(n + 1) - 1] \o t[n + 1]
    <3>1. n + 1 \in 1 .. n + 1 /\ n + 1 # 1
      BY <1>2, <1>7
    <3> QED BY <1>4, <3>1 DEF Flattens
  <2>4. (n + 1) - 1 = n
    BY <1>2
  <2> QED BY <1>1, <1>2, <1>5, <2>1, <2>2, <2>3, <2>4 DEF t
<1> QED BY <1>6, <1>7

(***************************************************************************)
(* A sequence of the flattened ones begins where the ones before end.      *)
(***************************************************************************)
StartOf(s, g) == Len(FlattenSeq(SubSeq(s, 1, g - 1)))

LEMMA Starts ==
  ASSUME NEW S, NEW s \in Seq(Seq(S))
  PROVE  /\ StartOf(s, 1) = 0 /\ StartOf(s, Len(s) + 1) = Len(FlattenSeq(s))
         /\ \A g \in 1 .. Len(s) : /\ StartOf(s, g) \in Nat
                                  /\ StartOf(s, g + 1) = StartOf(s, g) + Len(s[g])
<1> DEFINE n == Len(s)
<1>1. n \in Nat /\ \A g \in 1 .. n : s[g] \in Seq(S)
  OBVIOUS
<1>2. \A g \in 1 .. n + 1 : SubSeq(s, 1, g - 1) \in Seq(Seq(S))
  OBVIOUS
<1>3. SubSeq(s, 1, 0) = <<>> /\ SubSeq(s, 1, n) = s
  OBVIOUS
<1>4. ASSUME NEW g \in 1 .. n
      PROVE  SubSeq(s, 1, g) = Append(SubSeq(s, 1, g - 1), s[g])
  OBVIOUS
<1>5. StartOf(s, 1) = 0
  <2>1. FlattenSeq(<<>>) = <<>>
    BY <1>1, <1>2, FlattenAppend
  <2>2. SubSeq(s, 1, 1 - 1) = <<>> /\ Len(<<>>) = 0
    BY <1>3
  <2> QED BY <2>1, <2>2 DEF StartOf
<1>6. StartOf(s, n + 1) = Len(FlattenSeq(s))
  <2>1. (n + 1) - 1 = n
    BY <1>1
  <2> QED BY <1>3, <2>1 DEF StartOf
<1>7. ASSUME NEW g \in 1 .. n
      PROVE  StartOf(s, g) \in Nat /\ StartOf(s, g + 1) = StartOf(s, g) + Len(s[g])
  <2> DEFINE t == SubSeq(s, 1, g - 1)
  <2>1. t \in Seq(Seq(S)) /\ s[g] \in Seq(S) /\ (g + 1) - 1 = g
    BY <1>1, <1>2
  <2>2. SubSeq(s, 1, (g + 1) - 1) = Append(t, s[g])
    BY <1>4, <2>1
  <2> HIDE DEF t
  <2>3. FlattenSeq(t) \in Seq(S) /\ FlattenSeq(Append(t, s[g])) = FlattenSeq(t) \o s[g]
    BY <2>1, FlattenAppend
  <2>4. Len(FlattenSeq(t) \o s[g]) = Len(FlattenSeq(t)) + Len(s[g]) /\ Len(FlattenSeq(t)) \in Nat
    BY <2>1, <2>3
  <2> QED BY <2>2, <2>3, <2>4 DEF StartOf, t
<1> QED BY <1>5, <1>6, <1>7

(***************************************************************************)
(* It ends in the whole.                                                   *)
(***************************************************************************)
LEMMA StartsInside ==
  ASSUME NEW S, NEW s \in Seq(Seq(S)), NEW g \in 1 .. Len(s)
  PROVE  StartOf(s, g) + Len(s[g]) <= Len(FlattenSeq(s))
<1> DEFINE n == Len(s)
           N == {k \in Nat : g + k <= n => StartOf(s, g) + Len(s[g]) <= StartOf(s, g + k + 1)}
<1>1. /\ n \in Nat /\ g \in 1 .. n /\ StartOf(s, n + 1) = Len(FlattenSeq(s))
      /\ \A h \in 1 .. n : /\ StartOf(s, h) \in Nat /\ StartOf(s, h + 1) = StartOf(s, h) + Len(s[h])
                          /\ Len(s[h]) \in Nat
  BY Starts
<1>2. 0 \in N
  <2>1. StartOf(s, g + 0 + 1) = StartOf(s, g) + Len(s[g]) /\ StartOf(s, g) + Len(s[g]) \in Nat
    BY <1>1
  <2> QED BY <2>1
<1>3. ASSUME NEW k \in Nat, k \in N PROVE k + 1 \in N
  <2> SUFFICES ASSUME g + (k + 1) <= n
               PROVE  StartOf(s, g) + Len(s[g]) <= StartOf(s, g + (k + 1) + 1)
    OBVIOUS
  <2> HIDE DEF n
  <2>1. g + k <= n /\ g + k + 1 \in 1 .. n /\ g + (k + 1) + 1 = (g + k + 1) + 1
    BY <1>1
  <2>2. StartOf(s, g) + Len(s[g]) <= StartOf(s, g + k + 1)
    BY <1>3, <2>1
  <2>3. /\ StartOf(s, (g + k + 1) + 1) = StartOf(s, g + k + 1) + Len(s[g + k + 1])
        /\ Len(s[g + k + 1]) \in Nat /\ StartOf(s, g + k + 1) \in Nat
        /\ StartOf(s, g) \in Nat /\ Len(s[g]) \in Nat
    BY <1>1, <2>1
  <2> HIDE DEF N
  <2> QED BY <2>1, <2>2, <2>3
<1> HIDE DEF N
<1>4. n - g \in N
  <2>1. Nat \subseteq N
    BY <1>2, <1>3, Induction
  <2> QED BY <1>1, <2>1
<1> HIDE DEF n
<1>5. g + (n - g) <= n /\ g + (n - g) + 1 = n + 1
  BY <1>1
<1> QED BY <1>1, <1>4, <1>5 DEF N

(***************************************************************************)
(* Where it begins when all have the same length.                          *)
(***************************************************************************)
LEMMA StartsEqual ==
  ASSUME NEW S, NEW s \in Seq(Seq(S)), NEW m \in Nat, \A g \in 1 .. Len(s) : Len(s[g]) = m,
         NEW h \in 1 .. Len(s) + 1
  PROVE  StartOf(s, h) = (h - 1) * m
<1> DEFINE n == Len(s)
           N == {k \in Nat : k <= n => StartOf(s, k + 1) = k * m}
<1>1. /\ n \in Nat /\ StartOf(s, 1) = 0
      /\ \A g \in 1 .. n : StartOf(s, g) \in Nat /\ StartOf(s, g + 1) = StartOf(s, g) + m
  BY Starts
<1> HIDE DEF n
<1>2. 0 \in N
  BY <1>1
<1>3. ASSUME NEW k \in Nat, k \in N PROVE k + 1 \in N
  <2>1. ASSUME k + 1 <= n PROVE StartOf(s, (k + 1) + 1) = (k + 1) * m
    <3>1. StartOf(s, k + 1) = k * m /\ k + 1 \in 1 .. n
      BY <1>1, <1>3, <2>1
    <3>2. StartOf(s, (k + 1) + 1) = k * m + m
      BY <1>1, <3>1
    <3> QED BY <3>2
  <2> QED BY <2>1
<1> HIDE DEF N
<1>4. h - 1 \in N
  <2>1. Nat \subseteq N
    BY <1>2, <1>3, Induction
  <2> QED BY <1>1, <2>1 DEF n
<1>5. h - 1 <= n /\ (h - 1) + 1 = h
  BY <1>1 DEF n
<1> QED BY <1>4, <1>5 DEF N

-----------------------------------------------------------------------------

(***************************************************************************)
(* Renumbering is multiplication by Q modulo P * Q - 1, with 0 and         *)
(* P * Q - 1 left where they are.  Multiplication by P undoes it.          *)
(***************************************************************************)
LEMMA Remainder ==
  ASSUME NEW m \in Nat \ {0}, NEW x \in Int, NEW t \in Int, NEW r \in 0 .. m - 1,
         x = m * t + r
  PROVE  x % m = r
<1> DEFINE d == x \div m
           s == x % m
<1>1. d \in Int /\ s \in 0 .. m - 1 /\ x = m * d + s
  OBVIOUS
<1> HIDE DEF d, s
<1>2. m * (d - t) = r - s
  BY <1>1
<1>3. CASE d - t >= 1
  <2>1. m * (d - t) >= m
    BY <1>1, <1>3
  <2> QED BY <1>1, <1>2, <2>1
<1>4. CASE d - t <= -1
  <2>1. m * (t - d) >= m
    BY <1>1, <1>4
  <2>2. m * (t - d) = s - r
    BY <1>1, <1>2
  <2> QED BY <1>1, <2>1, <2>2
<1>5. CASE d = t
  BY <1>1, <1>2, <1>5 DEF s
<1> QED BY <1>1, <1>3, <1>4, <1>5

LEMMA TimesUndone ==
  ASSUME NEW P \in Nat, NEW Q \in Nat, P * Q > 2, NEW r \in 1 .. P * Q - 2
  PROVE  /\ (Q * r) % (P * Q - 1) \in 1 .. P * Q - 2
         /\ (P * ((Q * r) % (P * Q - 1))) % (P * Q - 1) = r
<1> DEFINE m == P * Q - 1
           a == (Q * r) \div m
           k == (Q * r) % m
<1>1. m \in Nat \ {0} /\ P * Q = m + 1 /\ P * Q - 2 = m - 1
  BY DEF m
<1> HIDE DEF m
<1>2. r \in Nat /\ r \in 1 .. m - 1
  BY <1>1
<1>3. a \in Int /\ k \in 0 .. m - 1 /\ Q * r = m * a + k
  BY <1>1, <1>2
<1> HIDE DEF a, k
<1>4. P * k = m * (r - P * a) + r
  <2>1. P * (Q * r) = (P * Q) * r
    BY <1>2
  <2>2. (P * Q) * r = m * r + r
    BY <1>1, <1>2
  <2>3. P * (m * a + k) = m * (P * a) + P * k
    BY <1>1, <1>3
  <2>4. m * (r - P * a) = m * r - m * (P * a)
    BY <1>1, <1>2, <1>3
  <2> QED BY <1>1, <1>2, <1>3, <2>1, <2>2, <2>3, <2>4
<1>5. (P * k) % m = r
  <2>1. P * k \in Int /\ r - P * a \in Int /\ r \in 0 .. m - 1
    BY <1>1, <1>2, <1>3
  <2> QED BY <1>1, <1>4, <2>1, Remainder
<1>6. k # 0
  <2>1. ASSUME k = 0 PROVE FALSE
    <3>1. P * k = 0
      BY <2>1
    <3>2. 0 % m = 0
      BY <1>1
    <3> QED BY <1>2, <1>5, <3>1, <3>2
  <2> QED BY <2>1
<1> QED BY <1>1, <1>3, <1>5, <1>6 DEF k, m

-----------------------------------------------------------------------------
(***************************************************************************)
(* No -map, or one with as many places as there are ranks.                 *)
(***************************************************************************)
Mapped ==
  /\ W \in Nat \ {0} /\ opt.px \in Nat /\ opt.py \in Nat
  /\ NoMap \/ opt.px * opt.py = W

LEMMA KeyOfMap ==
  ASSUME Mapped, ~ NoMap, NEW r \in World
  PROVE  /\ W > 2 /\ W = opt.px * opt.py
         /\ r \in {0, W - 1} => Key(r) = r
         /\ r \notin {0, W - 1} => r \in 1 .. W - 2 /\ Key(r) = (opt.py * r) % (W - 1)
                                   /\ Key(r) \in 1 .. W - 2
<1> DEFINE P == opt.px
           Q == opt.py
<1>1. P \in Nat /\ Q \in Nat /\ P * Q = W /\ P # 1 /\ Q # 1 /\ P * Q # 0 /\ W \in Nat
  BY DEF Mapped, NoMap
<1>2. Key(r) = IF (Q * r) % (P * Q - 1) = 0 THEN r ELSE (Q * r) % (P * Q - 1)
  BY DEF Key, NoMap
<1> HIDE DEF P, Q
<1>3. W > 2
  <2>1. P >= 2 /\ Q >= 2
    BY <1>1
  <2>2. P * Q >= 2 * Q
    BY <1>1, <2>1
  <2> QED BY <1>1, <2>1, <2>2
<1>4. r \in 0 .. W - 1
  BY DEF World
<1>5. ASSUME r = 0 PROVE Key(r) = r
  <2>1. W - 1 \in Nat \ {0} /\ Q * r = 0
    BY <1>1, <1>3, <1>5
  <2>2. 0 % (W - 1) = 0
    <3> DEFINE m == W - 1
    <3>1. m \in Nat \ {0} /\ 0 = m * 0 + 0 /\ 0 \in 0 .. m - 1
      BY <1>1, <1>3
    <3> HIDE DEF m
    <3>2. 0 % m = 0
      BY <3>1, Remainder
    <3> QED BY <3>2 DEF m
  <2> QED BY <1>1, <1>2, <2>1, <2>2
<1>6. ASSUME r = W - 1 PROVE Key(r) = r
  <2>1. Q * r = (W - 1) * Q + 0 /\ Q * r \in Int /\ W - 1 \in Nat \ {0}
    BY <1>1, <1>3, <1>6
  <2>2. (Q * r) % (W - 1) = 0
    <3> DEFINE m == W - 1
               x == Q * r
    <3>1. m \in Nat \ {0} /\ x \in Int /\ Q \in Int /\ x = m * Q + 0 /\ 0 \in 0 .. m - 1
      BY <1>1, <1>3, <2>1
    <3> HIDE DEF m, x
    <3>2. x % m = 0
      BY <3>1, Remainder
    <3> QED BY <3>2 DEF m, x
  <2> QED BY <1>1, <1>2, <2>2
<1>7. ASSUME r \notin {0, W - 1}
      PROVE  r \in 1 .. W - 2 /\ Key(r) = (Q * r) % (W - 1) /\ Key(r) \in 1 .. W - 2
  <2>1. r \in 1 .. W - 2
    BY <1>1, <1>3, <1>4, <1>7
  <2>2. (Q * r) % (W - 1) \in 1 .. W - 2
    BY <1>1, <1>3, <2>1, TimesUndone
  <2> QED BY <1>1, <1>2, <2>1, <2>2
<1> QED BY <1>1, <1>3, <1>5, <1>6, <1>7 DEF P, Q

(***************************************************************************)
(* A rank that has a given key, for the surjectivity.                      *)
(***************************************************************************)
LEMMA RankOfKey ==
  ASSUME Mapped, ~ NoMap, NEW k \in World
  PROVE  \E r \in World : Key(r) = k
<1>1. W > 2 /\ W = opt.px * opt.py
  BY KeyOfMap
<1>2. CASE k \in {0, W - 1}
  BY <1>2, KeyOfMap
<1>3. CASE k \notin {0, W - 1}
  <2> DEFINE P == opt.px
             Q == opt.py
             r == (P * k) % (Q * P - 1)
  <2>1. P \in Nat /\ Q \in Nat /\ W \in Nat /\ k \in 1 .. W - 2
    BY <1>3, KeyOfMap DEF Mapped
  <2>2. Q * P = W
    BY <1>1, <2>1
  <2>3. r \in 1 .. W - 2 /\ (Q * r) % (W - 1) = k
    <3> HIDE DEF P, Q
    <3>1. Q * P > 2 /\ k \in 1 .. Q * P - 2
      BY <1>1, <2>1, <2>2
    <3>2. r \in 1 .. Q * P - 2 /\ (Q * r) % (Q * P - 1) = k
      BY <2>1, <3>1, TimesUndone
    <3> QED BY <2>2, <3>2
  <2> HIDE DEF r
  <2>4. r \in World /\ r \notin {0, W - 1}
    BY <2>1, <2>3 DEF World
  <2>5. Key(r) = k
    BY <2>3, <2>4, KeyOfMap
  <2> QED BY <2>4, <2>5
<1> QED BY <1>2, <1>3

LEMMA KeyInjective ==
  ASSUME Mapped, ~ NoMap, NEW r \in World, NEW q \in World, Key(r) = Key(q)
  PROVE  r = q
<1> DEFINE P == opt.px
           Q == opt.py
<1>1. /\ W > 2 /\ P * Q = W /\ P \in Nat /\ Q \in Nat /\ W \in Nat
      /\ r \in 0 .. W - 1 /\ q \in 0 .. W - 1
  BY KeyOfMap DEF Mapped, World
<1>2. CASE r \in {0, W - 1} \/ q \in {0, W - 1}
  BY <1>1, <1>2, KeyOfMap
<1>3. CASE r \notin {0, W - 1} /\ q \notin {0, W - 1}
  <2>1. /\ r \in 1 .. W - 2 /\ Key(r) = (Q * r) % (W - 1)
        /\ q \in 1 .. W - 2 /\ Key(q) = (Q * q) % (W - 1)
    BY <1>3, KeyOfMap
  <2> HIDE DEF P, Q
  <2>2. /\ (P * ((Q * r) % (W - 1))) % (W - 1) = r
        /\ (P * ((Q * q) % (W - 1))) % (W - 1) = q
    BY <1>1, <2>1, TimesUndone
  <2> QED BY <2>1, <2>2
<1> QED BY <1>2, <1>3

(***************************************************************************)
(* IMB_set_communicator: when the map has as many places as the world has  *)
(* ranks, each rank gets a key of its own, and all keys are taken; so the  *)
(* split by keys neither joins nor loses ranks.  (With fewer places it may:*)
(* -map 2x2 gives ranks 1 and 4 of five the same key.)                     *)
(***************************************************************************)
THEOREM MapIsPermutation ==
  ASSUME Mapped
  PROVE  [r \in World |-> Key(r)] \in Bijection(World, World)
<1>1. CASE NoMap
  <2>1. \A r \in World : Key(r) = r
    BY <1>1 DEF Key, NoMap
  <2> QED BY <2>1 DEF Bijection, Injection, Surjection, IsInjective
<1>2. CASE ~ NoMap
  <2>1. \A r \in World : Key(r) \in World
    <3>1. ASSUME NEW r \in World PROVE Key(r) \in World
      <4>1. Key(r) = r \/ Key(r) \in 1 .. W - 2
        BY <1>2, KeyOfMap
      <4>2. W \in Nat
        BY DEF Mapped
      <4> QED BY <4>1, <4>2 DEF World
    <3> QED BY <3>1
  <2>2. \A r, q \in World : Key(r) = Key(q) => r = q
    BY <1>2, KeyInjective
  <2>3. \A k \in World : \E r \in World : Key(r) = k
    BY <1>2, RankOfKey
  <2> QED BY <2>1, <2>2, <2>3 DEF Bijection, Injection, Surjection, IsInjective
<1> QED BY <1>1, <1>2

(***************************************************************************)
(* IMB_set_communicator: each color below the number of groups that fit is *)
(* that of exactly np ranks, with any -multi, whatever the world and np.   *)
(***************************************************************************)
THEOREM GroupsHaveNP ==
  ASSUME Mapped, np \in 1 .. W, NEW color \in 0 .. (W \div np) - 1
  PROVE  Cardinality({r \in World : Key(r) \div np = color}) = np
<1> DEFINE T == color * np .. color * np + np - 1
           G == {r \in World : Key(r) \div np = color}
           key == [r \in World |-> Key(r)]
<1>1. W \in Nat \ {0} /\ np \in Nat \ {0} /\ color \in Nat
  BY DEF Mapped
<1>2. T \subseteq World
  <2>1. W \div np \in Nat /\ W % np \in Nat /\ W = np * (W \div np) + (W % np)
    BY <1>1
  <2>2. color + 1 <= W \div np
    BY <2>1
  <2>3. (color + 1) * np <= (W \div np) * np
    BY <1>1, <2>1, <2>2
  <2>4. color * np + np <= W /\ color * np \in Nat
    BY <1>1, <2>1, <2>3
  <2> QED BY <1>1, <2>4 DEF World
<1>3. \A k \in World : k \div np = color <=> k \in T
  <2>1. SUFFICES ASSUME NEW k \in World PROVE k \div np = color <=> k \in T
    OBVIOUS
  <2> DEFINE d == k \div np
  <2>2. k \in Nat /\ d \in Nat /\ k % np \in 0 .. np - 1 /\ k = np * d + (k % np)
    BY <1>1 DEF World
  <2>3. d = color => k \in T
    BY <1>1, <2>2
  <2> HIDE DEF d
  <2>4. ASSUME d + 1 <= color PROVE k < color * np
    <3>1. (d + 1) * np <= color * np
      BY <1>1, <2>2, <2>4
    <3>2. (d + 1) * np = np * d + np /\ color * np \in Nat
      BY <1>1, <2>2
    <3> QED BY <1>1, <2>2, <3>1, <3>2
  <2>5. ASSUME color + 1 <= d PROVE color * np + np <= k
    <3>1. (color + 1) * np <= d * np
      BY <1>1, <2>2, <2>5
    <3>2. (color + 1) * np = color * np + np /\ color * np \in Nat
      BY <1>1
    <3> QED BY <1>1, <2>2, <3>1, <3>2
  <2>6. k \in T => d = color
    <3>1. color * np \in Nat
      BY <1>1
    <3> QED BY <1>1, <2>2, <2>4, <2>5, <3>1
  <2> QED BY <2>3, <2>6 DEF d
<1>4. key \in Bijection(World, World)
  BY MapIsPermutation
<1>5. [r \in G |-> Key(r)] \in Bijection(G, T)
  <2>1. \A r \in World : Key(r) \in World
    BY <1>4 DEF Bijection, Injection
  <2>2. \A r, q \in World : Key(r) = Key(q) => r = q
    BY <1>4 DEF Bijection, Injection, IsInjective
  <2>3. \A k \in World : \E r \in World : Key(r) = k
    BY <1>4 DEF Bijection, Surjection
  <2>4. \A r \in G : Key(r) \in T
    BY <1>3, <2>1
  <2>5. \A k \in T : \E r \in G : Key(r) = k
    BY <1>2, <1>3, <2>3
  <2> HIDE DEF T
  <2> QED BY <2>2, <2>4, <2>5 DEF Bijection, Injection, Surjection, IsInjective
<1>6. IsFiniteSet(G)
  <2>1. IsFiniteSet(World)
    BY <1>1, FS_Interval DEF World
  <2> QED BY <2>1, FS_Subset
<1>7. Cardinality(T) = np
  <2>1. color * np \in Int /\ color * np + np - 1 \in Int
    BY <1>1
  <2>2. Cardinality(T) = IF color * np > color * np + np - 1 THEN 0
                         ELSE color * np + np - 1 - color * np + 1
    BY <2>1, FS_Interval
  <2> HIDE DEF T
  <2> QED BY <1>1, <2>1, <2>2
<1>8. ExistsBijection(G, T)
  BY <1>5 DEF ExistsBijection
<1> HIDE DEF G, T
<1>9. Cardinality(G) = np
  BY <1>6, <1>7, <1>8, FS_Bijection
<1> QED BY <1>9 DEF G

-----------------------------------------------------------------------------
(***************************************************************************)
(* The command lines: worlds in which all benchmarks may use all ranks.    *)
(***************************************************************************)
OptionType ==
  [w : Nat \ {0}, px : Nat, py : Nat, mode : {-1, 0, 1},
   npmin : Nat, kinds : Seq({"msgrate", "single", "element", "file", "other"})]

AllUsed ==
  \A o \in Options :
    o \in OptionType /\ \A b \in 1 .. Len(o.kinds) : o.kinds[b] = "msgrate" => o.w % 2 = 0

LEMMA OptFacts ==
  ASSUME AllUsed, opt \in Options
  PROVE  /\ opt \in OptionType /\ W \in Nat \ {0} /\ World = 0 .. W - 1 /\ 0 \in World
         /\ opt.px \in Nat /\ opt.py \in Nat /\ Len(opt.kinds) \in Nat
<1>1. opt \in OptionType
  BY DEF AllUsed
<1> QED BY <1>1 DEF OptionType, W, World

LEMMA WorldFinite ==
  ASSUME AllUsed, opt \in Options
  PROVE  IsFiniteSet(World) /\ Cardinality(World) = W
<1>1. W \in Nat \ {0} /\ World = 0 .. W - 1
  BY OptFacts
<1>2. IsFiniteSet(World) /\ Cardinality(World) = IF 0 > W - 1 THEN 0 ELSE W - 1 - 0 + 1
  BY <1>1, FS_Interval
<1> QED BY <1>1, <1>2

LEMMA KeyInt ==
  ASSUME AllUsed, opt \in Options, NEW r \in World
  PROVE  Key(r) \in Nat
<1>1. r \in Nat /\ opt.px \in Nat /\ opt.py \in Nat
  BY OptFacts
<1>2. CASE NoMap
  BY <1>1, <1>2 DEF Key, NoMap
<1>3. CASE ~ NoMap
  <2> DEFINE P == opt.px
             Q == opt.py
             m == P * Q - 1
             x == Q * r
  <2>1. P \in Nat /\ Q \in Nat /\ P # 1 /\ Q # 1 /\ P * Q # 0
    BY <1>1, <1>3 DEF NoMap
  <2>2. Key(r) = IF x % m = 0 THEN r ELSE x % m
    BY <1>3 DEF Key, NoMap
  <2> HIDE DEF P, Q
  <2>3. m \in Nat \ {0}
    <3>1. P >= 2 /\ Q >= 2
      BY <2>1
    <3>2. P * Q >= 2 * Q
      BY <2>1, <3>1
    <3> QED BY <2>1, <3>1, <3>2
  <2>4. x \in Nat
    BY <1>1, <2>1
  <2> HIDE DEF m, x
  <2>5. x % m \in Nat
    BY <2>3, <2>4
  <2> QED BY <1>1, <2>2, <2>5
<1> QED BY <1>2, <1>3

(***************************************************************************)
(* MPI_Comm_split: each rank of a color has a place of its own.            *)
(***************************************************************************)
LEMMA BeforeOrder ==
  ASSUME AllUsed, opt \in Options, NEW p \in World, NEW q \in World, NEW r \in World
  PROVE  /\ ~ Before(p, p)
         /\ Before(p, q) /\ Before(q, r) => Before(p, r)
         /\ p # q => Before(p, q) \/ Before(q, p)
<1>1. Key(p) \in Nat /\ Key(q) \in Nat /\ Key(r) \in Nat
  BY KeyInt
<1>2. p \in Nat /\ q \in Nat /\ r \in Nat
  BY OptFacts
<1> QED BY <1>1, <1>2 DEF Before

LEMMA GroupFacts ==
  ASSUME AllUsed, opt \in Options, NEW r \in World
  PROVE  /\ r \in Group(r) /\ Group(r) \subseteq World /\ IsFiniteSet(Group(r))
         /\ Cardinality(Group(r)) \in Nat
         /\ \A q \in Group(r) : Group(q) = Group(r)
<1>1. r \in Group(r) /\ Group(r) \subseteq World
  BY DEF Group
<1>2. IsFiniteSet(Group(r)) /\ Cardinality(Group(r)) \in Nat
  BY <1>1, WorldFinite, FS_Subset, FS_CardinalityType
<1>3. \A q \in Group(r) : Group(q) = Group(r)
  BY DEF Group
<1> QED BY <1>1, <1>2, <1>3

LEMMA PlaceFacts ==
  ASSUME AllUsed, opt \in Options, NEW r \in World
  PROVE  [q \in Group(r) |-> Place(q)] \in Bijection(Group(r), 1 .. Cardinality(Group(r)))
<1> DEFINE G == Group(r)
           n == Cardinality(G)
           Below(q) == {p \in G : Before(p, q)}
           place == [q \in G |-> Place(q)]
<1>1. r \in G /\ G \subseteq World /\ IsFiniteSet(G) /\ n \in Nat
  BY GroupFacts
<1>2. \A q \in G : Place(q) = 1 + Cardinality(Below(q))
  BY GroupFacts DEF Place
<1> HIDE DEF G
<1>3. ASSUME NEW q \in G
      PROVE  IsFiniteSet(Below(q)) /\ Cardinality(Below(q)) \in 0 .. n - 1
  <2>1. Below(q) \subseteq G \ {q}
    BY <1>1, BeforeOrder
  <2>2. IsFiniteSet(G \ {q}) /\ Cardinality(G \ {q}) = n - 1
    BY <1>1, FS_RemoveElement
  <2> HIDE DEF Below
  <2>3. IsFiniteSet(Below(q)) /\ Cardinality(Below(q)) <= n - 1
    BY <2>1, <2>2, FS_Subset
  <2>4. Cardinality(Below(q)) \in Nat
    BY <2>3, FS_CardinalityType
  <2> QED BY <1>1, <2>3, <2>4
<1>4. ASSUME NEW p \in G, NEW q \in G, Before(p, q)
      PROVE  Place(p) < Place(q)
  <2>1. p \in Below(q) /\ Below(p) \subseteq Below(q) \ {p}
    BY <1>1, <1>4, BeforeOrder
  <2>2. /\ IsFiniteSet(Below(p)) /\ Cardinality(Below(p)) \in Nat
        /\ IsFiniteSet(Below(q)) /\ Cardinality(Below(q)) \in Nat
    BY <1>1, <1>3
  <2> HIDE DEF Below
  <2>3. IsFiniteSet(Below(q) \ {p}) /\ Cardinality(Below(q) \ {p}) = Cardinality(Below(q)) - 1
    BY <2>1, <2>2, FS_RemoveElement
  <2>4. Cardinality(Below(p)) <= Cardinality(Below(q)) - 1
    BY <2>1, <2>3, FS_Subset
  <2> QED BY <1>2, <2>2, <2>4
<1>5. \A q \in G : Place(q) \in 1 .. n
  <2>1. ASSUME NEW q \in G PROVE Place(q) \in 1 .. n
    <3>1. Cardinality(Below(q)) \in 0 .. n - 1 /\ Place(q) = 1 + Cardinality(Below(q))
      BY <1>2, <1>3
    <3> QED BY <1>1, <3>1
  <2> QED BY <2>1
<1>6. \A p, q \in G : Place(p) = Place(q) => p = q
  <2>1. SUFFICES ASSUME NEW p \in G, NEW q \in G, Place(p) = Place(q), p # q PROVE FALSE
    OBVIOUS
  <2>2. Before(p, q) \/ Before(q, p)
    BY <1>1, <2>1, BeforeOrder
  <2>3. Place(p) \in Nat /\ Place(q) \in Nat
    BY <1>1, <1>5
  <2> QED BY <1>4, <2>1, <2>2, <2>3
<1> HIDE DEF n
<1>7. place \in Injection(G, 1 .. n)
  BY <1>5, <1>6 DEF Injection, IsInjective
<1>8. IsFiniteSet(1 .. n) /\ Cardinality(1 .. n) = n
  <2>1. IsFiniteSet(1 .. n) /\ Cardinality(1 .. n) = IF 1 > n THEN 0 ELSE n - 1 + 1
    BY <1>1, FS_Interval DEF n
  <2> QED BY <1>1, <2>1 DEF n
<1>9. place \in Surjection(G, 1 .. n)
  <2>1. Cardinality(G) = Cardinality(1 .. n)
    BY <1>8 DEF n
  <2> HIDE DEF place
  <2> QED BY <1>1, <1>7, <1>8, <2>1, FS_Injection
<1> QED BY <1>7, <1>9 DEF Bijection, G, n

LEMMA MembersFacts ==
  ASSUME AllUsed, opt \in Options, NEW r \in World, Color(r) # Undefined
  PROVE  /\ Members(r) \in Seq(World) /\ Len(Members(r)) = Cardinality(Group(r))
         /\ Members(r) # <<>>
         /\ ToSet(Members(r)) = Group(r) /\ IsInjective(Members(r))
<1> DEFINE G == Group(r)
           n == Cardinality(G)
           m == [i \in 1 .. n |-> CHOOSE q \in G : Place(q) = i]
<1>1. /\ r \in G /\ G \subseteq World /\ n \in Nat
      /\ [q \in G |-> Place(q)] \in Bijection(G, 1 .. n)
  BY GroupFacts, PlaceFacts
<1>2. Members(r) = m
  BY DEF Members
<1> HIDE DEF G, n
<1>3. /\ \A i \in 1 .. n : \E q \in G : Place(q) = i
      /\ \A q \in G : Place(q) \in 1 .. n
      /\ \A p, q \in G : Place(p) = Place(q) => p = q
  BY <1>1 DEF Bijection, Injection, Surjection, IsInjective
<1>4. \A i \in 1 .. n : m[i] \in G /\ Place(m[i]) = i
  BY <1>3
<1>5. DOMAIN m = 1 .. n /\ m \in Seq(World) /\ Len(m) = n
  BY <1>1, <1>4
<1> HIDE DEF m
<1>6. ToSet(m) = G
  <2>1. \A i \in 1 .. n : m[i] \in G
    BY <1>4
  <2>2. ASSUME NEW q \in G PROVE \E i \in 1 .. n : m[i] = q
    <3>1. Place(q) \in 1 .. n /\ m[Place(q)] \in G /\ Place(m[Place(q)]) = Place(q)
      BY <1>3, <1>4
    <3> QED BY <1>3, <3>1
  <2> QED BY <1>5, <2>1, <2>2 DEF ToSet
<1>7. IsInjective(m)
  BY <1>4, <1>5 DEF IsInjective
<1>8. m # <<>>
  BY <1>1, <1>6 DEF ToSet
<1> QED BY <1>2, <1>5, <1>6, <1>7, <1>8 DEF G, n

LEMMA SameMembers ==
  ASSUME AllUsed, opt \in Options, NEW r \in World, NEW q \in ToSet(Members(r))
  PROVE  /\ Color(r) # Undefined /\ Color(q) # Undefined /\ q \in World
         /\ Members(q) = Members(r)
<1>1. Color(r) # Undefined
  <2>1. ToSet(<<>>) = {}
    BY DEF ToSet
  <2> QED BY <2>1 DEF Members
<1>2. q \in Group(r)
  BY <1>1, MembersFacts
<1>3. q \in World /\ Color(q) = Color(r)
  BY <1>2 DEF Group
<1>4. Group(q) = Group(r)
  BY <1>2, GroupFacts
<1> QED BY <1>1, <1>3, <1>4 DEF Members

LEMMA MembersOf ==
  ASSUME AllUsed, opt \in Options, NEW r \in World
  PROVE  /\ Members(r) \in Seq(World) /\ IsInjective(Members(r))
         /\ Members(r) # <<>> <=> Color(r) # Undefined
         /\ Members(r) # <<>> <=> r \in ToSet(Members(r))
<1>1. CASE Color(r) = Undefined
  <2>1. Members(r) = <<>>
    BY <1>1 DEF Members
  <2>2. ToSet(<<>>) = {} /\ IsInjective(<<>>) /\ <<>> \in Seq(World)
    BY DEF ToSet, IsInjective
  <2> QED BY <1>1, <2>1, <2>2
<1>2. CASE Color(r) # Undefined
  BY <1>2, MembersFacts, GroupFacts
<1> QED BY <1>1, <1>2

-----------------------------------------------------------------------------
(***************************************************************************)
(* Numbers of processes.                                                   *)
(***************************************************************************)
LEMMA NPFacts ==
  ASSUME AllUsed, opt \in Options
  PROVE  /\ \A b \in 1 .. Len(opt.kinds) : WNumProcs(b) = W
         /\ \A b : FirstNP(b) \in 1 .. W
         /\ \A b \in 1 .. Len(opt.kinds) : \A n \in 1 .. W : NextNP(b, n) \in 1 .. W
<1>1. W \in Nat \ {0} /\ opt.npmin \in Nat /\ W % 2 \in 0 .. 1 /\ W % 2 <= W
  BY OptFacts DEF OptionType
<1>2. ASSUME NEW b \in 1 .. Len(opt.kinds) PROVE WNumProcs(b) = W
  <2>1. Kind(b) = "msgrate" => W % 2 = 0
    BY DEF AllUsed, Kind, W
  <2> QED BY <1>1, <2>1 DEF WNumProcs
<1>3. ASSUME NEW b PROVE FirstNP(b) \in 1 .. W
  <2>1. /\ WNumProcs(b) \in Nat /\ WNumProcs(b) <= W
        /\ Kind(b) = "single" => WNumProcs(b) = W
    BY <1>1 DEF WNumProcs
  <2>2. NPMin(b) \in Nat
    <3>1. opt.npmin % 2 \in Nat
      BY <1>1
    <3> QED BY <1>1, <3>1 DEF NPMin
  <2> QED BY <1>1, <2>1, <2>2 DEF FirstNP, Lesser, Greater
<1>4. ASSUME NEW b \in 1 .. Len(opt.kinds), NEW n \in 1 .. W PROVE NextNP(b, n) \in 1 .. W
  BY <1>1, <1>2, <1>4 DEF NextNP, Lesser
<1> QED BY <1>2, <1>3, <1>4

(***************************************************************************)
(* The groups of a stage.                                                  *)
(***************************************************************************)
LEMMA CommFacts ==
  ASSUME AllUsed, opt \in Options, comm = [r \in World |-> Members(r)], NEW r \in World
  PROVE  /\ comm[r] \in Seq(World) /\ IsInjective(comm[r])
         /\ comm[r] # <<>> <=> r \in ToSet(comm[r])
         /\ \A q \in ToSet(comm[r]) : q \in World /\ comm[q] = comm[r] /\ comm[q] # <<>>
         /\ comm[r] # <<>> => /\ Head(comm[r]) \in ToSet(comm[r])
                              /\ Leads(Head(comm[r]))
<1>1. comm[r] = Members(r)
  OBVIOUS
<1>2. /\ comm[r] \in Seq(World) /\ IsInjective(comm[r])
      /\ comm[r] # <<>> <=> r \in ToSet(comm[r])
  BY <1>1, MembersOf
<1>3. ASSUME NEW q \in ToSet(comm[r]) PROVE q \in World /\ comm[q] = comm[r] /\ comm[q] # <<>>
  <2>1. q \in World /\ Members(q) = Members(r) /\ Color(q) # Undefined
    BY <1>1, SameMembers
  <2> QED BY <1>1, <2>1, MembersOf
<1>4. ASSUME comm[r] # <<>>
      PROVE  Head(comm[r]) \in ToSet(comm[r]) /\ Leads(Head(comm[r]))
  <2>1. Head(comm[r]) = comm[r][1] /\ 1 \in DOMAIN comm[r]
    BY <1>2, <1>4
  <2>2. Head(comm[r]) \in ToSet(comm[r])
    BY <2>1 DEF ToSet
  <2> QED BY <1>3, <2>2 DEF Leads
<1> QED BY <1>2, <1>3, <1>4

LEMMA CongruentAll ==
  ASSUME AllUsed, opt \in Options, NEW r \in World, Congruent(Members(r)), NEW q \in World
  PROVE  Members(q) = Members(r)
<1>1. W \in Nat \ {0} /\ World = 0 .. W - 1
  BY OptFacts
<1>2. Members(r) = [i \in 1 .. W |-> i - 1]
  BY DEF Congruent
<1>3. q + 1 \in 1 .. W /\ Members(r)[q + 1] = q
  BY <1>1, <1>2
<1>4. q \in ToSet(Members(r))
  BY <1>2, <1>3 DEF ToSet
<1> QED BY <1>4, SameMembers

(***************************************************************************)
(* Steps.                                                                  *)
(***************************************************************************)
LEMMA InitStep == AllUsed /\ Init => IInv
<1> SUFFICES ASSUME AllUsed, Init PROVE IInv
  OBVIOUS
<1>1. opt \in Options
  BY DEF Init
<1>2. /\ W \in Nat \ {0} /\ Len(opt.kinds) \in Nat
      /\ 1 \in 1 .. Len(opt.kinds) + 1 /\ FirstNP(1) \in 1 .. W
  BY <1>1, OptFacts, NPFacts
<1>3. AllSplit /\ OneRow /\ \A r \in World : chan[r] = <<>>
  BY DEF Init, AllSplit, OneRow
<1>4. /\ pc \in [World -> {"split", "exchange", "report"}] /\ proc \in Nat \ {0}
      /\ comm \in [World -> Seq(World)] /\ DOMAIN chan = World
      /\ groups \in Seq(Seq(World)) /\ g_ranks \in Seq(World)
  <2>1. <<>> \in Seq(World) /\ <<>> \in Seq(Seq(World))
    OBVIOUS
  <2> QED BY <2>1 DEF Init
<1> QED BY <1>1, <1>2, <1>3, <1>4 DEF Init, IInv

LEMMA MembersUnchanged ==
  ASSUME UNCHANGED <<opt, bench, np>>
  PROVE  World' = World /\ W' = W /\ \A r : Members(r)' = Members(r)
<1>1. World' = World /\ W' = W
  BY DEF World, W
<1>2. \A r : Key(r)' = Key(r)
  BY DEF Key
<1>3. \A r : Color(r)' = Color(r)
  BY <1>1, <1>2 DEF Color, WNumProcs, Kind, Undefined, W
<1>4. \A r : Group(r)' = Group(r)
  BY <1>1, <1>3 DEF Group
<1>5. \A q, r : Before(q, r)' = Before(q, r)
  BY <1>2 DEF Before
<1>6. \A r : Place(r)' = Place(r)
  BY <1>4, <1>5 DEF Place
<1>7. \A r, i : (CHOOSE q \in Group(r) : Place(q) = i)' = CHOOSE q \in Group(r) : Place(q) = i
  BY <1>4, <1>6
<1>8. ASSUME NEW r PROVE Members(r)' = Members(r)
  <2> DEFINE at(i) == CHOOSE q \in Group(r) : Place(q) = i
             n == Cardinality(Group(r))
  <2>1. n' = n /\ Color(r)' = Color(r) /\ \A i : at(i)' = at(i)
    BY <1>3, <1>4, <1>7
  <2>2. Members(r) = IF Color(r) = -1 THEN <<>> ELSE [i \in 1 .. n |-> at(i)]
    BY DEF Members, Undefined
  <2>3. Members(r)' = IF Color(r)' = -1 THEN <<>> ELSE [i \in 1 .. n' |-> at(i)']
    BY DEF Members, Undefined
  <2> HIDE DEF at, n
  <2> QED BY <2>1, <2>2, <2>3
<1> QED BY <1>1, <1>8

LEMMA SkipStep ==
  ASSUME AllUsed, IInv, Skip
  PROVE  IInv'
<1>1. /\ opt \in Options /\ bench \in 1 .. Len(opt.kinds) + 1 /\ np \in 1 .. W
      /\ AllSplit /\ OneRow /\ \A r \in World : chan[r] = <<>>
  BY DEF IInv, Skip, AllSplit
<1>2. /\ UNCHANGED <<opt, pc, comm, chan, g_ranks, groups, proc, rows>>
      /\ bench' = bench + 1 /\ bench <= Len(opt.kinds)
      /\ np' = IF bench < Len(opt.kinds) THEN FirstNP(bench + 1) ELSE np
  <2>1. bench \in Int /\ Len(opt.kinds) \in Int
    BY <1>1, OptFacts
  <2> QED BY <2>1 DEF Skip, NextBenchmark, Done
<1>3. np' \in 1 .. W /\ bench' \in 1 .. Len(opt.kinds) + 1
  BY <1>1, <1>2, OptFacts, NPFacts
<1>4. World' = World /\ W' = W
  BY <1>2 DEF World, W
<1>5. AllSplit' /\ OneRow' /\ \A r \in World' : chan'[r] = <<>>
  BY <1>1, <1>2, <1>4 DEF AllSplit, OneRow
<1> QED BY <1>2, <1>3, <1>4, <1>5 DEF IInv

LEMMA SplitStep ==
  ASSUME AllUsed, IInv, Split
  PROVE  IInv'
<1> DEFINE C == [r \in World |-> Members(r)]
<1>1. /\ opt \in Options /\ bench \in 1 .. Len(opt.kinds) + 1 /\ np \in 1 .. W
      /\ DOMAIN chan = World /\ \A r \in World : chan[r] = <<>>
      /\ W \in Nat \ {0} /\ World = 0 .. W - 1 /\ 0 \in World
  BY OptFacts DEF IInv, Split, AllSplit
<1>2. /\ UNCHANGED <<opt, bench, np, chan, rows>> /\ comm' = C
      /\ pc' = [r \in World |-> IF Congruent(Members(r)) THEN "report" ELSE "exchange"]
      /\ groups' = OwnGroup(Members(0)) /\ proc' = 1
      /\ g_ranks' = IF OwnGroup(Members(0)) = <<>> THEN <<>> ELSE Members(0)
      /\ bench <= Len(opt.kinds)
  <2>1. bench \in Int /\ Len(opt.kinds) \in Int
    BY <1>1, OptFacts
  <2> QED BY <2>1 DEF Split, Done
<1>3. World' = World /\ W' = W /\ \A r : Members(r)' = Members(r)
  BY <1>2, MembersUnchanged
<1>4. \A r \in World : Members(r) \in Seq(World) /\ IsInjective(Members(r))
  BY <1>1, MembersOf
<1>5. C \in [World -> Seq(World)] /\ C[0] = Members(0)
  BY <1>1, <1>4
<1>6. CASE Congruent(Members(0))
  <2>1. \A r \in World : C[r] = C[0]
    BY <1>1, <1>6, CongruentAll
  <2>2. \A r \in World : pc'[r] = "report"
    BY <1>1, <1>2, <1>5, <1>6, <2>1
  <2>3. OwnGroup(Members(0)) = <<Members(0)>>
    <3>1. Members(0) = [i \in 1 .. W |-> i - 1]
      BY <1>6 DEF Congruent
    <3>2. Members(0) \in Seq(World) /\ Members(0) # <<>> /\ Head(Members(0)) = 0
      BY <1>1, <1>4, <3>1
    <3> QED BY <3>2 DEF OwnGroup
  <2>4. groups' = <<C[0]>> /\ g_ranks' = C[0]
    <3>1. <<Members(0)>> # <<>>
      OBVIOUS
    <3> HIDE DEF C
    <3> QED BY <1>2, <1>5, <2>3, <3>1
  <2>5. KnowsWorld'
    BY <1>1, <1>2, <1>3, <2>1, <2>2, <2>4 DEF KnowsWorld, AllReport
  <2>6. groups' \in Seq(Seq(World)) /\ g_ranks' \in Seq(World)
    BY <1>1, <1>5, <2>4
  <2>7. InStage'
    <3>1. Congruent(comm[0])'
      BY <1>2, <1>3, <1>5, <1>6 DEF Congruent
    <3>2. comm' = [r \in World' |-> Members(r)']
      BY <1>2, <1>3
    <3> QED BY <1>1, <1>2, <1>3, <2>2, <2>5, <3>1, <3>2 DEF InStage
  <2>8. ~ AllSplit'
    BY <1>1, <1>3, <2>2 DEF AllSplit
  <2> QED BY <1>1, <1>2, <1>3, <1>5, <2>6, <2>7, <2>8 DEF IInv
<1>7. CASE ~ Congruent(Members(0))
  <2>1. \A r \in World : ~ Congruent(Members(r))
    BY <1>1, <1>7, CongruentAll
  <2>2. pc' = [r \in World |-> "exchange"]
    BY <1>2, <2>1
  <2>3. Leads(0)' <=> Members(0) # <<>> /\ Head(Members(0)) = 0
    BY <1>1, <1>2, <1>5 DEF Leads
  <2>4. {q \in World' : q < proc' /\ Leads(q)'} = IF Leads(0)' THEN {0} ELSE {}
    <3>1. \A q \in World : q < proc' <=> q = 0
      BY <1>1, <1>2
    <3> QED BY <1>1, <1>3, <3>1
  <2>5. /\ groups' = IF Leads(0)' THEN <<Members(0)>> ELSE <<>>
        /\ g_ranks' = IF Leads(0)' THEN Members(0) ELSE <<>>
    BY <1>2, <2>3 DEF OwnGroup
  <2>6. /\ groups' \in Seq(Seq(World)) /\ g_ranks' \in Seq(World)
        /\ IsInjective(groups') /\ IsInjective(g_ranks')
        /\ ToSet(groups') = IF Leads(0)' THEN {Members(0)} ELSE {}
        /\ ToSet(g_ranks') = UNION {ToSet(c) : c \in ToSet(groups')}
    <3>1. CASE Leads(0)'
      <4>1. groups' = <<Members(0)>> /\ g_ranks' = Members(0)
        BY <2>5, <3>1
      <4>2. ToSet(<<Members(0)>>) = {Members(0)} /\ IsInjective(<<Members(0)>>)
        BY DEF ToSet, IsInjective
      <4>3. UNION {ToSet(c) : c \in {Members(0)}} = ToSet(Members(0))
        OBVIOUS
      <4> QED BY <1>1, <1>4, <3>1, <4>1, <4>2, <4>3
    <3>2. CASE ~ Leads(0)'
      <4>1. groups' = <<>> /\ g_ranks' = <<>>
        BY <2>5, <3>2
      <4>2. ToSet(<<>>) = {} /\ IsInjective(<<>>)
        BY DEF ToSet, IsInjective
      <4>3. UNION {ToSet(c) : c \in {}} = {}
        OBVIOUS
      <4> QED BY <3>2, <4>1, <4>2, <4>3
    <3> QED BY <3>1, <3>2
  <2>7. Recorded'
    <3>1. {comm'[p] : p \in {q \in World' : q < proc' /\ Leads(q)'}}
            = IF Leads(0)' THEN {Members(0)} ELSE {}
      BY <1>1, <1>2, <1>5, <2>4
    <3> QED BY <2>6, <3>1 DEF Recorded
  <2>8. Collects'
    <3>1. \A r \in World \ {0} : chan'[r] = <<>> /\ pc'[r] = "exchange" /\ r >= proc'
      BY <1>1, <1>2, <2>2
    <3> QED BY <1>1, <1>2, <1>3, <2>2, <2>7, <3>1 DEF Collects
  <2>9. InStage'
    <3>1. ~ Congruent(comm[0])'
      BY <1>2, <1>3, <1>5, <1>7 DEF Congruent
    <3>2. comm' = [r \in World' |-> Members(r)']
      BY <1>2, <1>3
    <3> QED BY <1>1, <1>2, <1>3, <2>2, <2>8, <3>1, <3>2 DEF InStage
  <2>10. ~ AllSplit'
    BY <1>1, <1>3, <2>2 DEF AllSplit
  <2> QED BY <1>1, <1>2, <1>3, <1>5, <2>2, <2>6, <2>9, <2>10 DEF IInv
<1> QED BY <1>6, <1>7

(***************************************************************************)
(* While ranks exchange, rank 0 collects.                                  *)
(***************************************************************************)
LEMMA Exchanging ==
  ASSUME AllUsed, IInv, NEW r \in World, pc[r] = "exchange"
  PROVE  ~ AllSplit /\ InStage /\ ~ Congruent(comm[0]) /\ Collects /\ ~ AllReport
<1>1. ~ AllSplit /\ ~ AllReport
  BY DEF AllSplit, AllReport
<1>2. InStage
  BY <1>1 DEF IInv
<1> QED BY <1>1, <1>2 DEF InStage, KnowsWorld

LEMMA InvFacts ==
  ASSUME AllUsed, IInv
  PROVE  /\ opt \in Options /\ W \in Nat \ {0} /\ World = 0 .. W - 1 /\ 0 \in World
         /\ bench \in 1 .. Len(opt.kinds) + 1 /\ Len(opt.kinds) \in Nat /\ np \in 1 .. W
         /\ pc \in [World -> {"split", "exchange", "report"}] /\ proc \in Nat \ {0}
         /\ comm \in [World -> Seq(World)] /\ DOMAIN chan = World
         /\ groups \in Seq(Seq(World)) /\ g_ranks \in Seq(World)
BY OptFacts DEF IInv

LEMMA SendStep ==
  ASSUME AllUsed, IInv, NEW s \in World, SendGroup(s)
  PROVE  IInv'
<1>1. /\ s # 0 /\ pc[s] = "exchange"
      /\ chan' = [chan EXCEPT ![s] = Append(@, GroupMessage(s))]
      /\ pc' = [pc EXCEPT ![s] = "report"]
      /\ UNCHANGED <<opt, bench, np, comm, g_ranks, groups, proc, rows>>
  BY DEF SendGroup
<1>2. /\ ~ AllSplit /\ InStage /\ ~ Congruent(comm[0]) /\ Collects
  BY <1>1, Exchanging
<1>3. World' = World /\ W' = W /\ \A r : Members(r)' = Members(r)
  BY <1>1, MembersUnchanged
<1>4. /\ pc' \in [World -> {"split", "exchange", "report"}] /\ DOMAIN chan' = World
      /\ pc'[s] = "report" /\ chan'[s] = <<GroupMessage(s)>> /\ s >= proc
      /\ \A r \in World \ {s} : pc'[r] = pc[r] /\ chan'[r] = chan[r]
  <2>1. s >= proc /\ chan[s] = <<>>
    BY <1>1, <1>2 DEF Collects
  <2>2. Append(<<>>, GroupMessage(s)) = <<GroupMessage(s)>>
    OBVIOUS
  <2> QED BY <1>1, <2>1, <2>2, InvFacts
<1>5. \A r : Leads(r)' = Leads(r) /\ GroupMessage(r)' = GroupMessage(r)
  BY <1>1 DEF Leads, GroupMessage, NoLeader
<1>6. Recorded'
  <2>1. {comm'[p] : p \in {q \in World' : q < proc' /\ Leads(q)'}}
          = {comm[p] : p \in {q \in World : q < proc /\ Leads(q)}}
    BY <1>1, <1>3, <1>5
  <2> QED BY <1>1, <1>2, <2>1 DEF Collects, Recorded
<1>7. Collects'
  <2>1. ASSUME NEW r \in World \ {0}
        PROVE  /\ chan'[r] = IF pc'[r] = "report" /\ r >= proc' THEN <<GroupMessage(r)'>> ELSE <<>>
               /\ pc'[r] = "exchange" => r >= proc'
    BY <1>1, <1>2, <1>4, <1>5 DEF Collects
  <2>2. chan'[0] = <<>> /\ (pc'[0] = "report" => proc' >= W')
    BY <1>1, <1>2, <1>3, <1>4, InvFacts DEF Collects
  <2> QED BY <1>3, <1>6, <2>1, <2>2 DEF Collects
<1>8. InStage'
  <2>1. \A r \in World : pc'[r] # "split"
    BY <1>2, <1>4 DEF InStage
  <2>2. comm' = [r \in World' |-> Members(r)']
    BY <1>1, <1>2, <1>3 DEF InStage
  <2>3. ~ Congruent(comm[0])'
    BY <1>1, <1>2, <1>3 DEF Congruent
  <2> QED BY <1>1, <1>2, <1>3, <1>7, <2>1, <2>2, <2>3 DEF InStage
<1>9. ~ AllSplit'
  BY <1>3, <1>4 DEF AllSplit
<1> QED BY <1>1, <1>3, <1>4, <1>8, <1>9, InvFacts DEF IInv

(***************************************************************************)
(* When there is no room left in g_ranks all ranks are in recorded groups, *)
(* so no leader is left either.                                            *)
(***************************************************************************)
LEMMA LeadersRecorded ==
  ASSUME AllUsed, IInv, InStage, Recorded, NEW p \in World, Leads(p), p >= proc
  PROVE  /\ comm[p] \notin ToSet(groups)
         /\ ToSet(comm[p]) \cap ToSet(g_ranks) = {}
         /\ p \in ToSet(comm[p])
<1>1. comm = [r \in World |-> Members(r)] /\ proc \in Nat /\ p \in Nat
  BY InvFacts DEF InStage
<1>2. ASSUME NEW c \in ToSet(groups), NEW q \in ToSet(c), q \in ToSet(comm[p])
      PROVE  FALSE
  <2>1. PICK l \in World : l < proc /\ Leads(l) /\ c = comm[l]
    BY DEF Recorded
  <2>2. comm[q] = comm[l] /\ comm[q] = comm[p]
    BY <1>1, <1>2, <2>1, CommFacts, InvFacts
  <2>3. Head(comm[l]) = l /\ Head(comm[p]) = p
    BY <2>1 DEF Leads
  <2> QED BY <1>1, <2>1, <2>2, <2>3
<1>3. p \in ToSet(comm[p])
  BY <1>1, CommFacts, InvFacts DEF Leads
<1>4. comm[p] \notin ToSet(groups)
  BY <1>2, <1>3
<1>5. ToSet(comm[p]) \cap ToSet(g_ranks) = {}
  BY <1>2 DEF Recorded
<1> QED BY <1>3, <1>4, <1>5

LEMMA RoomLeft ==
  ASSUME AllUsed, IInv, InStage, Recorded, NEW p \in World, Leads(p), p >= proc
  PROVE  Room > 0
<1> DEFINE n == Len(g_ranks)
           f == [i \in 1 .. n |-> g_ranks[i]]
<1>1. /\ W \in Nat \ {0} /\ WNumProcs(bench) = W /\ n \in Nat /\ DOMAIN g_ranks = 1 .. n
      /\ g_ranks \in Seq(World)
  BY InvFacts, NPFacts DEF InStage
<1>2. p \notin ToSet(g_ranks)
  BY LeadersRecorded
<1>3. f \in Injection(1 .. n, World \ {p})
  <2>1. \A i \in 1 .. n : g_ranks[i] \in World \ {p}
    BY <1>1, <1>2 DEF ToSet
  <2>2. \A i, j \in 1 .. n : g_ranks[i] = g_ranks[j] => i = j
    BY <1>1 DEF Recorded, IsInjective
  <2> QED BY <2>1, <2>2 DEF Injection, IsInjective
<1>4. IsFiniteSet(World \ {p}) /\ Cardinality(World \ {p}) = W - 1
  BY InvFacts, WorldFinite, FS_RemoveElement
<1>5. Cardinality(1 .. n) = n
  <2>1. n \in Int
    BY <1>1
  <2> HIDE DEF n
  <2>2. Cardinality(1 .. n) = IF 1 > n THEN 0 ELSE n - 1 + 1
    BY <2>1, FS_Interval
  <2> QED BY <1>1, <2>2
<1> HIDE DEF f, n
<1>6. n <= W - 1
  BY <1>3, <1>4, <1>5, FS_Injection
<1> QED BY <1>1, <1>6 DEF Room, n

LEMMA ToSetAppend ==
  ASSUME NEW S, NEW s \in Seq(S), NEW e \in S, IsInjective(s), e \notin ToSet(s)
  PROVE  /\ Append(s, e) \in Seq(S) /\ ToSet(Append(s, e)) = ToSet(s) \cup {e}
         /\ IsInjective(Append(s, e))
<1> DEFINE t == Append(s, e)
<1>1. /\ t \in Seq(S) /\ Len(t) = Len(s) + 1 /\ t[Len(s) + 1] = e
      /\ \A i \in 1 .. Len(s) : t[i] = s[i]
  BY AppendProperties
<1>2. /\ DOMAIN s = 1 .. Len(s) /\ DOMAIN t = 1 .. Len(s) + 1 /\ Len(s) \in Nat
  BY <1>1
<1> HIDE DEF t
<1>3. ToSet(t) = ToSet(s) \cup {e}
  BY <1>1, <1>2 DEF ToSet
<1>4. \A i \in 1 .. Len(s) : t[i] # e
  BY <1>1, <1>2 DEF ToSet
<1>5. IsInjective(t)
  BY <1>1, <1>2, <1>4 DEF IsInjective
<1> QED BY <1>1, <1>3, <1>5 DEF t

LEMMA ToSetConcat ==
  ASSUME NEW S, NEW s \in Seq(S), NEW t \in Seq(S), IsInjective(s), IsInjective(t),
         ToSet(t) \cap ToSet(s) = {}
  PROVE  /\ s \o t \in Seq(S) /\ ToSet(s \o t) = ToSet(s) \cup ToSet(t)
         /\ IsInjective(s \o t)
<1> DEFINE u == s \o t
           n == Len(s)
           m == Len(t)
<1>1. /\ u \in Seq(S) /\ Len(u) = n + m
      /\ \A i \in 1 .. n + m : u[i] = IF i <= n THEN s[i] ELSE t[i - n]
  BY ConcatProperties
<1>2. /\ DOMAIN s = 1 .. n /\ DOMAIN t = 1 .. m /\ DOMAIN u = 1 .. n + m
      /\ n \in Nat /\ m \in Nat
  BY <1>1
<1> HIDE DEF u, n, m
<1>3. /\ \A i \in 1 .. n : i \in 1 .. n + m /\ u[i] = s[i]
      /\ \A i \in 1 .. m : i + n \in 1 .. n + m /\ u[i + n] = t[i]
      /\ \A i \in 1 .. n + m : i \in 1 .. n \/ (i - n \in 1 .. m /\ u[i] = t[i - n])
  <2>1. ASSUME NEW i \in 1 .. n PROVE i \in 1 .. n + m /\ u[i] = s[i]
    <3>1. i \in 1 .. n + m /\ i <= n
      BY <1>2
    <3> QED BY <1>1, <3>1
  <2>2. ASSUME NEW i \in 1 .. m PROVE i + n \in 1 .. n + m /\ u[i + n] = t[i]
    <3>1. i + n \in 1 .. n + m /\ ~ (i + n <= n) /\ (i + n) - n = i
      BY <1>2
    <3>2. u[i + n] = t[(i + n) - n]
      BY <1>1, <3>1
    <3> QED BY <3>1, <3>2
  <2>3. ASSUME NEW i \in 1 .. n + m, i \notin 1 .. n
        PROVE  i - n \in 1 .. m /\ u[i] = t[i - n]
    <3>1. i - n \in 1 .. m /\ ~ (i <= n)
      BY <1>2, <2>3
    <3> QED BY <1>1, <3>1
  <2> QED BY <2>1, <2>2, <2>3
<1>4. ToSet(u) = ToSet(s) \cup ToSet(t)
  BY <1>2, <1>3 DEF ToSet
<1>5. IsInjective(u)
  <2>1. SUFFICES ASSUME NEW i \in 1 .. n + m, NEW j \in 1 .. n + m, u[i] = u[j] PROVE i = j
    BY <1>2 DEF IsInjective
  <2>2. CASE i \in 1 .. n /\ j \in 1 .. n
    BY <1>2, <1>3, <2>1, <2>2 DEF IsInjective
  <2>3. CASE i \notin 1 .. n /\ j \notin 1 .. n
    <3>1. i - n \in 1 .. m /\ j - n \in 1 .. m /\ t[i - n] = t[j - n]
      BY <1>3, <2>1, <2>3
    <3>2. i - n = j - n
      BY <1>2, <3>1 DEF IsInjective
    <3> QED BY <1>2, <3>2
  <2>4. ASSUME NEW a \in 1 .. n + m, NEW b \in 1 .. n + m, a \in 1 .. n, b \notin 1 .. n,
               u[a] = u[b]
        PROVE  FALSE
    BY <1>2, <1>3, <2>4 DEF ToSet
  <2> QED BY <2>1, <2>2, <2>3, <2>4
<1> QED BY <1>1, <1>4, <1>5 DEF u

(***************************************************************************)
(* What rank 0 makes of the message of the next rank.                      *)
(***************************************************************************)
LEMMA Received ==
  ASSUME AllUsed, IInv, RecvGroup
  PROVE  /\ proc \in World /\ proc # 0 /\ proc' = proc + 1
         /\ UNCHANGED <<opt, bench, np, pc, comm, rows>> /\ pc[0] = "exchange"
         /\ chan' = [chan EXCEPT ![proc] = <<>>] /\ chan[proc] = <<GroupMessage(proc)>>
         /\ ~ Leads(proc) => UNCHANGED <<groups, g_ranks>>
         /\ Leads(proc) => groups' = Append(groups, comm[proc]) /\ g_ranks' = g_ranks \o comm[proc]
<1> DEFINE p == proc
           m == GroupMessage(p)
<1>0. /\ opt \in Options /\ W \in Nat \ {0} /\ World = 0 .. W - 1 /\ 0 \in World
      /\ bench \in 1 .. Len(opt.kinds) + 1 /\ Len(opt.kinds) \in Nat
      /\ proc \in Nat \ {0} /\ comm \in [World -> Seq(World)] /\ g_ranks \in Seq(World)
  BY InvFacts
<1>1. /\ pc[0] = "exchange" /\ proc < WNumProcs(bench) /\ chan[p] # <<>>
      /\ IF Room <= 0 THEN UNCHANGED <<groups, g_ranks>> ELSE Record(Head(chan[p]))
      /\ chan' = [chan EXCEPT ![p] = Tail(@)] /\ proc' = proc + 1
      /\ UNCHANGED <<opt, bench, np, pc, comm, rows>>
  BY DEF RecvGroup
<1>2. InStage /\ Collects /\ WNumProcs(bench) = W
  <2>1. InStage /\ Collects
    BY <1>0, <1>1, Exchanging
  <2> QED BY <1>0, <2>1, NPFacts DEF InStage
<1>3. p \in World /\ p # 0
  BY <1>0, <1>1, <1>2
<1>4. chan[p] = <<m>> /\ Head(chan[p]) = m /\ Tail(chan[p]) = <<>>
  <2>1. chan[p] = <<m>>
    BY <1>1, <1>2, <1>3 DEF Collects
  <2> QED BY <2>1
<1>5. ASSUME ~ Leads(p) PROVE UNCHANGED <<groups, g_ranks>>
  <2>1. m = <<-1>> /\ Head(m) = -1
    BY <1>5 DEF GroupMessage, NoLeader
  <2>2. ~ (Head(m) >= 0)
    BY <2>1
  <2> HIDE DEF m, p
  <2> QED BY <1>1, <1>4, <2>2 DEF Record
<1>6. ASSUME Leads(p)
      PROVE  groups' = Append(groups, comm[p]) /\ g_ranks' = g_ranks \o comm[p]
  <2>1. Recorded /\ p >= proc
    BY <1>0, <1>2 DEF Collects
  <2>2. ~ (Room <= 0)
    <3>1. Room > 0
      BY <1>2, <1>3, <1>6, <2>1, RoomLeft
    <3>2. Room \in Int
      BY <1>0, <1>2 DEF Room
    <3> QED BY <3>1, <3>2
  <2>3. m = comm[p] /\ Head(m) = p
    BY <1>6 DEF GroupMessage, Leads
  <2>4. Head(m) >= 0
    BY <1>0, <2>3
  <2> HIDE DEF m, p
  <2> QED BY <1>1, <1>4, <2>2, <2>3, <2>4 DEF Record
<1> QED BY <1>1, <1>3, <1>4, <1>5, <1>6

LEMMA RecvStep ==
  ASSUME AllUsed, IInv, RecvGroup
  PROVE  IInv'
<1> DEFINE p == proc
           m == GroupMessage(p)
<1>0. /\ opt \in Options /\ W \in Nat \ {0} /\ World = 0 .. W - 1 /\ 0 \in World
      /\ bench \in 1 .. Len(opt.kinds) + 1 /\ Len(opt.kinds) \in Nat /\ np \in 1 .. W
      /\ pc \in [World -> {"split", "exchange", "report"}] /\ proc \in Nat \ {0}
      /\ comm \in [World -> Seq(World)] /\ DOMAIN chan = World
      /\ groups \in Seq(Seq(World)) /\ g_ranks \in Seq(World)
  BY InvFacts
<1>1. /\ pc[0] = "exchange" /\ chan' = [chan EXCEPT ![p] = <<>>] /\ chan[p] = <<m>>
      /\ proc' = proc + 1 /\ UNCHANGED <<opt, bench, np, pc, comm, rows>>
  BY Received
<1>2. /\ ~ AllSplit /\ InStage /\ ~ Congruent(comm[0]) /\ Collects
  BY <1>0, <1>1, Exchanging
<1>3. World' = World /\ W' = W /\ \A r : Members(r)' = Members(r)
  BY <1>1, MembersUnchanged
<1>4. p \in World /\ p # 0
  BY Received
<1>6. DOMAIN chan' = World /\ chan'[p] = <<>> /\ \A r \in World \ {p} : chan'[r] = chan[r]
  BY <1>0, <1>1, <1>4
<1>7. \A r : Leads(r)' = Leads(r) /\ GroupMessage(r)' = GroupMessage(r)
  BY <1>1 DEF Leads, GroupMessage, NoLeader
<1>8. {q \in World' : q < proc' /\ Leads(q)'}
        = {q \in World : q < proc /\ Leads(q)} \cup IF Leads(p) THEN {p} ELSE {}
  <2>1. \A q \in World : q < proc' <=> q < proc \/ q = p
    BY <1>0, <1>1
  <2> QED BY <1>3, <1>4, <1>7, <2>1
<1>9. ASSUME ~ Leads(p)
      PROVE  Recorded' /\ groups' \in Seq(Seq(World)) /\ g_ranks' \in Seq(World)
  <2>1. UNCHANGED <<groups, g_ranks>>
    BY <1>9, Received
  <2>2. {comm'[q] : q \in {r \in World' : r < proc' /\ Leads(r)'}}
          = {comm[q] : q \in {r \in World : r < proc /\ Leads(r)}}
    BY <1>1, <1>8, <1>9
  <2>3. Recorded'
    BY <1>2, <2>1, <2>2 DEF Collects, Recorded
  <2> QED BY <1>0, <2>1, <2>3
<1>10. ASSUME Leads(p)
       PROVE  Recorded' /\ groups' \in Seq(Seq(World)) /\ g_ranks' \in Seq(World)
  <2>1. Recorded /\ p >= proc
    BY <1>0, <1>2 DEF Collects
  <2>4. groups' = Append(groups, comm[p]) /\ g_ranks' = g_ranks \o comm[p]
    BY <1>10, Received
  <2>5. comm[p] \in Seq(World) /\ IsInjective(comm[p])
    BY <1>0, <1>2, <1>4, CommFacts DEF InStage
  <2>6. /\ comm[p] \notin ToSet(groups) /\ ToSet(comm[p]) \cap ToSet(g_ranks) = {}
        /\ IsInjective(groups) /\ IsInjective(g_ranks)
    BY <1>2, <1>4, <1>10, <2>1, LeadersRecorded DEF Recorded
  <2>7. /\ groups' \in Seq(Seq(World)) /\ ToSet(groups') = ToSet(groups) \cup {comm[p]}
        /\ IsInjective(groups')
    BY <1>0, <2>4, <2>5, <2>6, ToSetAppend
  <2>8. /\ g_ranks' \in Seq(World) /\ ToSet(g_ranks') = ToSet(g_ranks) \cup ToSet(comm[p])
        /\ IsInjective(g_ranks')
    BY <1>0, <2>4, <2>5, <2>6, ToSetConcat
  <2>9. {comm'[q] : q \in {r \in World' : r < proc' /\ Leads(r)'}}
          = {comm[q] : q \in {r \in World : r < proc /\ Leads(r)}} \cup {comm[p]}
    BY <1>1, <1>8, <1>10
  <2>10. UNION {ToSet(c) : c \in ToSet(groups) \cup {comm[p]}}
           = (UNION {ToSet(c) : c \in ToSet(groups)}) \cup ToSet(comm[p])
    OBVIOUS
  <2>11. Recorded'
    BY <2>1, <2>7, <2>8, <2>9, <2>10 DEF Recorded
  <2> QED BY <2>7, <2>8, <2>11
<1>11. Recorded' /\ groups' \in Seq(Seq(World)) /\ g_ranks' \in Seq(World)
  BY <1>9, <1>10
<1> HIDE DEF m
<1>12. Collects'
  <2>1. ASSUME NEW r \in World \ {0}
        PROVE  /\ chan'[r] = IF pc'[r] = "report" /\ r >= proc' THEN <<GroupMessage(r)'>> ELSE <<>>
               /\ pc'[r] = "exchange" => r >= proc'
    <3>1. CASE r = p
      <4>1. chan'[r] = <<>> /\ ~ (r >= proc')
        BY <1>0, <1>1, <1>6, <3>1
      <4>2. pc[r] # "exchange"
        <5>1. chan[r] # <<>>
          BY <1>1, <3>1
        <5>2. chan[r] = IF pc[r] = "report" /\ r >= proc THEN <<GroupMessage(r)>> ELSE <<>>
          BY <1>2, <2>1 DEF Collects
        <5>3. pc[r] = "report"
          BY <5>1, <5>2
        <5> QED BY <5>3
      <4> QED BY <1>1, <4>1, <4>2
    <3>2. CASE r # p
      <4>1. r >= proc' <=> r >= proc
        BY <1>0, <1>1, <3>2
      <4> QED BY <1>1, <1>2, <1>6, <1>7, <2>1, <3>2, <4>1 DEF Collects
    <3> QED BY <3>1, <3>2
  <2>2. chan'[0] = <<>> /\ (pc'[0] = "report" => proc' >= W')
    BY <1>0, <1>1, <1>2, <1>4, <1>6 DEF Collects
  <2> QED BY <1>3, <1>11, <2>1, <2>2 DEF Collects
<1>13. InStage'
  <2>1. \A r \in World : pc'[r] # "split"
    BY <1>1, <1>2 DEF InStage
  <2>2. comm' = [r \in World' |-> Members(r)']
    BY <1>1, <1>2, <1>3 DEF InStage
  <2>3. ~ Congruent(comm[0])'
    BY <1>1, <1>2, <1>3 DEF Congruent
  <2> QED BY <1>1, <1>2, <1>3, <1>12, <2>1, <2>2, <2>3 DEF InStage
<1>14. ~ AllSplit'
  BY <1>0, <1>1, <1>3 DEF AllSplit
<1> QED BY <1>0, <1>1, <1>3, <1>6, <1>11, <1>13, <1>14 DEF IInv

LEMMA CollectedStep ==
  ASSUME AllUsed, IInv, Collected
  PROVE  IInv'
<1>0. /\ W \in Nat \ {0} /\ 0 \in World /\ proc \in Nat \ {0}
      /\ pc \in [World -> {"split", "exchange", "report"}]
  BY InvFacts
<1>1. /\ pc[0] = "exchange" /\ proc >= WNumProcs(bench) /\ pc' = [pc EXCEPT ![0] = "report"]
      /\ UNCHANGED <<opt, bench, np, comm, chan, g_ranks, groups, proc, rows>>
  BY DEF Collected
<1>2. /\ ~ AllSplit /\ InStage /\ ~ Congruent(comm[0]) /\ Collects
  BY <1>0, <1>1, Exchanging
<1>3. World' = World /\ W' = W /\ \A r : Members(r)' = Members(r)
  BY <1>1, MembersUnchanged
<1>4. proc >= W
  <2>1. WNumProcs(bench) = W
    BY <1>2, InvFacts, NPFacts DEF InStage
  <2> QED BY <1>1, <2>1
<1>5. /\ pc' \in [World -> {"split", "exchange", "report"}]
      /\ pc'[0] = "report" /\ \A r \in World \ {0} : pc'[r] = pc[r]
  BY <1>0, <1>1
<1>6. \A r : Leads(r)' = Leads(r) /\ GroupMessage(r)' = GroupMessage(r)
  BY <1>1 DEF Leads, GroupMessage, NoLeader
<1>7. Recorded'
  <2>1. {comm'[p] : p \in {q \in World' : q < proc' /\ Leads(q)'}}
          = {comm[p] : p \in {q \in World : q < proc /\ Leads(q)}}
    BY <1>1, <1>3, <1>6
  <2> QED BY <1>1, <1>2, <2>1 DEF Collects, Recorded
<1>8. Collects'
  BY <1>1, <1>2, <1>3, <1>4, <1>5, <1>6, <1>7 DEF Collects
<1>9. InStage'
  <2>1. \A r \in World : pc'[r] # "split"
    BY <1>2, <1>5 DEF InStage
  <2>2. comm' = [r \in World' |-> Members(r)']
    BY <1>1, <1>2, <1>3 DEF InStage
  <2>3. ~ Congruent(comm[0])'
    BY <1>1, <1>2, <1>3 DEF Congruent
  <2> QED BY <1>1, <1>2, <1>3, <1>8, <2>1, <2>2, <2>3 DEF InStage
<1>10. ~ AllSplit'
  BY <1>0, <1>3, <1>5 DEF AllSplit
<1> QED BY <1>1, <1>3, <1>5, <1>9, <1>10, InvFacts DEF IInv

(***************************************************************************)
(* When all report, rank 0 has all groups.                                 *)
(***************************************************************************)
LEMMA AllKnown ==
  ASSUME AllUsed, IInv, AllReport
  PROVE  /\ InStage /\ \A r \in World : chan[r] = <<>>
         /\ IsInjective(groups) /\ ToSet(groups) = Groups
         /\ ToSet(g_ranks) = {r \in World : comm[r] # <<>>}
<1>1. /\ opt \in Options /\ W \in Nat \ {0} /\ World = 0 .. W - 1 /\ 0 \in World
      /\ proc \in Nat
  BY InvFacts
<1>2. InStage /\ comm = [r \in World |-> Members(r)]
  BY <1>1 DEF IInv, AllSplit, AllReport, InStage
<1>3. CASE Congruent(comm[0])
  <2>1. KnowsWorld
    BY <1>2, <1>3 DEF InStage
  <2>2. comm[0] = [i \in 1 .. W |-> i - 1]
    BY <1>3 DEF Congruent
  <2>3. comm[0] # <<>>
    BY <1>1, <2>2
  <2>4. Groups = {comm[0]} /\ {r \in World : comm[r] # <<>>} = World
    BY <1>1, <2>1, <2>3 DEF Groups, KnowsWorld
  <2>5. ToSet(<<comm[0]>>) = {comm[0]} /\ IsInjective(<<comm[0]>>)
    BY DEF ToSet, IsInjective
  <2>6. ToSet(comm[0]) = World
    <3>1. \A r \in World : r + 1 \in 1 .. W /\ comm[0][r + 1] = r
      BY <1>1, <2>2
    <3>2. \A i \in 1 .. W : comm[0][i] \in World
      BY <1>1, <2>2
    <3> QED BY <2>2, <3>1, <3>2 DEF ToSet
  <2> QED BY <1>2, <2>1, <2>4, <2>5, <2>6 DEF KnowsWorld
<1>4. CASE ~ Congruent(comm[0])
  <2>1. Collects
    BY <1>2, <1>4 DEF InStage
  <2>2. proc >= W
    BY <1>1, <2>1 DEF Collects, AllReport
  <2>3. \A r \in World : chan[r] = <<>>
    <3>1. ASSUME NEW r \in World \ {0} PROVE chan[r] = <<>>
      <4>1. ~ (r >= proc)
        BY <1>1, <2>2
      <4> QED BY <2>1, <4>1 DEF Collects
    <3> QED BY <2>1, <3>1 DEF Collects
  <2>4. ToSet(groups) = {comm[p] : p \in {q \in World : Leads(q)}}
    <3>1. \A q \in World : q < proc
      BY <1>1, <2>2
    <3> QED BY <2>1, <3>1 DEF Collects, Recorded
  <2>5. ToSet(groups) = Groups
    <3>1. ASSUME NEW r \in World, comm[r] # <<>>
          PROVE  \E q \in World : Leads(q) /\ comm[q] = comm[r]
      <4>1. Head(comm[r]) \in ToSet(comm[r]) /\ Leads(Head(comm[r]))
        BY <1>1, <1>2, <3>1, CommFacts
      <4>2. Head(comm[r]) \in World /\ comm[Head(comm[r])] = comm[r]
        BY <1>1, <1>2, <4>1, CommFacts
      <4> QED BY <4>1, <4>2
    <3> QED BY <2>4, <3>1 DEF Groups, Leads
  <2>6. ToSet(g_ranks) = {r \in World : comm[r] # <<>>}
    <3>1. ToSet(g_ranks) = UNION {ToSet(c) : c \in Groups}
      BY <2>1, <2>5 DEF Collects, Recorded
    <3>2. ASSUME NEW r \in World, comm[r] # <<>> PROVE r \in ToSet(comm[r]) /\ comm[r] \in Groups
      BY <1>1, <1>2, <3>2, CommFacts DEF Groups
    <3>3. ASSUME NEW r \in World, NEW q \in ToSet(comm[r]) PROVE q \in World /\ comm[q] # <<>>
      BY <1>1, <1>2, CommFacts
    <3> QED BY <3>1, <3>2, <3>3 DEF Groups
  <2> QED BY <1>2, <2>1, <2>3, <2>5, <2>6 DEF Collects, Recorded
<1> QED BY <1>3, <1>4

LEMMA ReportStep ==
  ASSUME AllUsed, IInv, Report
  PROVE  IInv'
<1>0. /\ opt \in Options /\ W \in Nat \ {0} /\ World = 0 .. W - 1 /\ 0 \in World
      /\ bench \in 1 .. Len(opt.kinds) + 1 /\ Len(opt.kinds) \in Nat /\ np \in 1 .. W
      /\ proc \in Nat \ {0} /\ comm \in [World -> Seq(World)] /\ DOMAIN chan = World
      /\ groups \in Seq(Seq(World)) /\ g_ranks \in Seq(World)
  BY InvFacts
<1>1. /\ AllReport /\ rows' = Rows /\ pc' = [r \in World |-> "split"] /\ NextStage
      /\ UNCHANGED <<opt, comm, chan, g_ranks, groups, proc>>
  BY DEF Report, AllReport
<1>2. /\ InStage /\ \A r \in World : chan[r] = <<>>
      /\ ToSet(g_ranks) = {r \in World : comm[r] # <<>>}
  BY <1>1, AllKnown
<1>3. bench <= Len(opt.kinds)
  BY <1>2 DEF InStage
<1>4. bench' \in 1 .. Len(opt.kinds) + 1 /\ np' \in 1 .. W
  <2>1. CASE np < WNumProcs(bench) /\ Kind(bench) # "file"
    BY <1>0, <1>1, <1>3, <2>1, NPFacts DEF NextStage
  <2>2. CASE ~ (np < WNumProcs(bench) /\ Kind(bench) # "file")
    <3>1. /\ bench' = bench + 1
          /\ np' = IF bench < Len(opt.kinds) THEN FirstNP(bench + 1) ELSE np
      BY <1>1, <2>2 DEF NextStage, NextBenchmark
    <3> QED BY <1>0, <1>3, <3>1, NPFacts
  <2> QED BY <2>1, <2>2
<1>5. World' = World /\ W' = W
  BY <1>1 DEF World, W
<1>6. AllSplit'
  BY <1>1, <1>5 DEF AllSplit
<1>7. OneRow'
  <2>1. ASSUME opt.mode <= 0 PROVE rows' = <<g_ranks>>
    <3>1. opt.mode \in {-1, 0, 1}
      BY <1>0, OptFacts DEF OptionType
    <3>2. ~ (opt.mode > 0)
      BY <2>1, <3>1
    <3> QED BY <1>1, <3>2 DEF Rows
  <2>2. Len(<<g_ranks>>) = 1 /\ <<g_ranks>>[1] = g_ranks
    OBVIOUS
  <2> QED BY <1>1, <1>2, <1>5, <2>1, <2>2 DEF OneRow
<1> QED BY <1>0, <1>1, <1>2, <1>4, <1>5, <1>6, <1>7 DEF IInv

(***************************************************************************)
(* Steps that leave everything as it is.                                   *)
(***************************************************************************)
LEMMA StutterStep ==
  ASSUME IInv, UNCHANGED vars
  PROVE  IInv'
<1>1. /\ opt' = opt /\ bench' = bench /\ np' = np /\ pc' = pc /\ comm' = comm /\ chan' = chan
      /\ g_ranks' = g_ranks /\ groups' = groups /\ proc' = proc /\ rows' = rows
  BY DEF vars
<1>2. World' = World /\ W' = W /\ \A r : Members(r)' = Members(r)
  BY <1>1, MembersUnchanged
<1>3. AllSplit' = AllSplit /\ OneRow' = OneRow
  BY <1>1, <1>2 DEF AllSplit, OneRow
<1>4. KnowsWorld' = KnowsWorld
  BY <1>1, <1>2 DEF KnowsWorld, AllReport
<1>5. \A r : Leads(r)' = Leads(r) /\ GroupMessage(r)' = GroupMessage(r)
  BY <1>1 DEF Leads, GroupMessage, NoLeader
<1>6. Recorded' = Recorded
  BY <1>1, <1>2, <1>5 DEF Recorded
<1>7. Collects' = Collects
  BY <1>1, <1>2, <1>5, <1>6 DEF Collects
<1>8. Congruent(comm[0])' = Congruent(comm[0])
  BY <1>1, <1>2 DEF Congruent
<1>9. InStage' = InStage
  BY <1>1, <1>2, <1>4, <1>7, <1>8 DEF InStage
<1> QED BY <1>1, <1>2, <1>3, <1>9 DEF IInv

LEMMA NextInv ==
  ASSUME AllUsed, IInv, [Next]_vars
  PROVE  IInv'
<1>1. CASE Skip
  BY <1>1, SkipStep
<1>2. CASE Split
  BY <1>2, SplitStep
<1>3. CASE \E r \in World : SendGroup(r)
  BY <1>3, SendStep
<1>4. CASE RecvGroup
  BY <1>4, RecvStep
<1>5. CASE Collected
  BY <1>5, CollectedStep
<1>6. CASE Report
  BY <1>6, ReportStep
<1>7. CASE Terminated
  BY <1>7, StutterStep DEF Terminated
<1>8. CASE UNCHANGED vars
  BY <1>8, StutterStep
<1> QED BY <1>1, <1>2, <1>3, <1>4, <1>5, <1>6, <1>7, <1>8 DEF Next

(***************************************************************************)
(* The invariant holds in all runs whose benchmarks may use all ranks.     *)
(***************************************************************************)
THEOREM Inductive ==
  ASSUME AllUsed
  PROVE  Spec => []IInv
<1>1. Init => IInv
  BY InitStep
<1>2. IInv /\ [Next]_vars => IInv'
  BY NextInv
<1> QED BY <1>1, <1>2, PTL DEF Spec

(***************************************************************************)
(* IMB_init_communicator: rank 0 receives all messages about groups in the *)
(* stage they were sent in, for any world, map and -multi: also when       *)
(* g_ranks is full, since it goes on receiving dummies.  (In an odd world  *)
(* Uniband and Biband receive one message too few: the run groups_odd.)    *)
(***************************************************************************)
THEOREM NothingLeftAlways ==
  ASSUME AllUsed
  PROVE  Spec => []NothingLeft
<1>1. IInv => NothingLeft
  BY AllKnown DEF NothingLeft
<1> QED BY <1>1, Inductive, PTL

(***************************************************************************)
(* IMB_init_communicator: rank 0 knows the groups of the stage, each once, *)
(* and no others, also where the ranks kept those of the stage before.     *)
(***************************************************************************)
THEOREM GroupsKnownAlways ==
  ASSUME AllUsed
  PROVE  Spec => []GroupsKnown
<1>1. IInv => GroupsKnown
  BY AllKnown DEF GroupsKnown
<1> QED BY <1>1, Inductive, PTL

(***************************************************************************)
(* IMB_calculate_times: without a table for each group, the one row of the *)
(* output is about the active ranks, all of them and no others.            *)
(***************************************************************************)
OneRowOfGroups == opt.mode <= 0 => RowsOfGroups

THEOREM OneRowAlways ==
  ASSUME AllUsed
  PROVE  Spec => []OneRowOfGroups
<1>1. IInv => OneRowOfGroups
  <2>1. SUFFICES ASSUME IInv, opt.mode <= 0, rows # <<>>, AllSplit
                 PROVE  ToSet(rows[1]) = {r \in World : comm[r] # <<>>}
    <3>1. IInv /\ opt.mode <= 0 => ~ (opt.mode > 0)
      <4>1. IInv => opt.mode \in {-1, 0, 1}
        BY OptFacts DEF IInv, OptionType
      <4> QED BY <4>1
    <3> QED BY <3>1 DEF OneRowOfGroups, RowsOfGroups, AllSplit
  <2> QED BY <2>1 DEF IInv, OneRow
<1> QED BY <1>1, Inductive, PTL

(***************************************************************************)
(* The sizes and the number of groups, for maps onto all ranks.            *)
(***************************************************************************)
MapsFit ==
  \A o \in Options : o.px = 1 \/ o.py = 1 \/ o.px * o.py = 0 \/ o.px * o.py = o.w

NumGroups == IF opt.mode < 0 THEN 1 ELSE W \div np

LEMMA ColorFacts ==
  ASSUME AllUsed, opt \in Options, np \in 1 .. W, WNumProcs(bench) = W
  PROVE  /\ NumGroups \in Nat \ {0} /\ NumGroups <= W \div np
         /\ \A r \in World : Color(r) \in 0 .. NumGroups - 1 \/ Color(r) = Undefined
         /\ \A r \in World : \A c \in 0 .. NumGroups - 1 : Color(r) = c <=> Key(r) \div np = c
<1>1. W \in Nat \ {0} /\ np \in Nat \ {0} /\ np <= W /\ opt.mode \in {-1, 0, 1}
  BY OptFacts DEF OptionType
<1>2. W \div np \in Nat \ {0}
  <2>1. W \div np \in Nat /\ W % np \in 0 .. np - 1 /\ W = np * (W \div np) + (W % np)
    BY <1>1
  <2>2. W \div np # 0
    BY <1>1, <2>1
  <2> QED BY <2>1, <2>2
<1>3. NumGroups \in Nat \ {0} /\ NumGroups <= W \div np
  BY <1>2 DEF NumGroups
<1>4. ASSUME NEW r \in World
      PROVE  /\ Color(r) \in 0 .. NumGroups - 1 \/ Color(r) = Undefined
             /\ \A c \in 0 .. NumGroups - 1 : Color(r) = c <=> Key(r) \div np = c
  <2> DEFINE k == Key(r)
             d == k \div np
  <2>1. k \in Nat
    BY <1>4, KeyInt
  <2> HIDE DEF k
  <2>2. d \in Nat /\ k % np \in 0 .. np - 1 /\ k = np * d + (k % np)
    BY <1>1, <2>1
  <2>3. CASE opt.mode >= 0
    <3>1. NumGroups = W \div np
      BY <1>1, <2>3 DEF NumGroups
    <3>2. Color(r) = IF d < NumGroups THEN d ELSE -1
      BY <2>3, <3>1 DEF Color, Undefined, k
    <3> HIDE DEF d
    <3> QED BY <1>3, <2>2, <3>2 DEF Undefined, d, k
  <2>4. CASE ~ (opt.mode >= 0)
    <3>1. NumGroups = 1
      BY <1>1, <2>4 DEF NumGroups
    <3>2. Color(r) = IF k < np THEN 0 ELSE -1
      BY <2>4 DEF Color, Undefined, k
    <3>3. k < np <=> d = 0
      <4> HIDE DEF d
      <4>1. ASSUME d # 0 PROVE np * d >= np
        BY <1>1, <2>2, <4>1
      <4>2. d = 0 => np * d = 0
        BY <1>1
      <4>3. np * d \in Nat /\ k % np \in Nat /\ k % np < np
        BY <1>1, <2>2
      <4> QED BY <1>1, <2>1, <2>2, <4>1, <4>2, <4>3
    <3> QED BY <3>1, <3>2, <3>3 DEF Undefined, k
  <2> QED BY <2>3, <2>4
<1> QED BY <1>3, <1>4

LEMMA ColorHasNP ==
  ASSUME AllUsed, MapsFit, opt \in Options, np \in 1 .. W, WNumProcs(bench) = W,
         NEW c \in 0 .. NumGroups - 1
  PROVE  Cardinality({r \in World : Color(r) = c}) = np
<1>1. Mapped
  BY OptFacts DEF Mapped, NoMap, MapsFit, W
<1>2. NumGroups \in Nat \ {0} /\ NumGroups <= W \div np /\ W \in Nat \ {0}
  BY ColorFacts, OptFacts
<1>3. c \in 0 .. (W \div np) - 1
  <2>1. W \div np \in Int
    BY <1>2
  <2> QED BY <1>2, <2>1
<1>4. {r \in World : Color(r) = c} = {r \in World : Key(r) \div np = c}
  BY ColorFacts
<1> QED BY <1>1, <1>3, <1>4, GroupsHaveNP

(***************************************************************************)
(* IMB_set_communicator: a stage has as many groups as fit, and each has   *)
(* the NP processes that the heading of its table says, if -map is onto    *)
(* all ranks of the world (or is not given).                               *)
(***************************************************************************)
THEOREM GroupsFullAlways ==
  ASSUME AllUsed, MapsFit
  PROVE  Spec => []GroupsFull
<1>1. IInv => GroupsFull
  <2> SUFFICES ASSUME IInv, AllReport
               PROVE  Cardinality(Groups) = NumGroups /\ \A g \in Groups : Len(g) = np
    <3>1. IInv /\ AllReport => WNumProcs(bench) = W
      BY AllKnown, InvFacts, NPFacts DEF InStage
    <3> QED BY <3>1 DEF GroupsFull, NumGroups
  <2>1. /\ opt \in Options /\ np \in 1 .. W /\ WNumProcs(bench) = W
        /\ \A r \in World : comm[r] = Members(r)
    BY AllKnown, InvFacts, NPFacts DEF InStage
  <2> DEFINE Colors == 0 .. NumGroups - 1
             Of(c) == CHOOSE r \in World : Color(r) = c
             f == [c \in Colors |-> Members(Of(c))]
  <2>2. ASSUME NEW c \in Colors PROVE Of(c) \in World /\ Color(Of(c)) = c
    <3>1. Cardinality({r \in World : Color(r) = c}) = np /\ np # 0
      BY <2>1, ColorHasNP
    <3>2. {r \in World : Color(r) = c} # {}
      BY <3>1, FS_EmptySet
    <3> QED BY <3>2
  <2> HIDE DEF Of
  <2>3. \A c \in Colors : c # Undefined
    BY DEF Undefined
  <2>4. ASSUME NEW g \in Groups
        PROVE  \E r \in World : g = Members(r) /\ Color(r) \in Colors
    <3>1. PICK r \in World : g = comm[r] /\ comm[r] # <<>>
      BY DEF Groups
    <3>2. Color(r) # Undefined
      BY <2>1, <3>1, MembersOf
    <3> QED BY <2>1, <3>1, <3>2, ColorFacts
  <2>5. ASSUME NEW r \in World, Color(r) \in Colors
        PROVE  /\ Members(r) = f[Color(r)] /\ Members(r) \in Groups
               /\ ToSet(Members(r)) = Group(r) /\ Len(Members(r)) = np
    <3>1. Color(r) # Undefined /\ Color(Of(Color(r))) = Color(r)
      BY <2>2, <2>3, <2>5
    <3>2. Group(Of(Color(r))) = Group(r)
      BY <3>1 DEF Group
    <3>3. Members(Of(Color(r))) = Members(r)
      BY <3>1, <3>2 DEF Members
    <3>4. Cardinality(Group(r)) = np
      BY <2>1, <2>5, ColorHasNP DEF Group
    <3>5. /\ Members(r) # <<>> /\ ToSet(Members(r)) = Group(r)
          /\ Len(Members(r)) = Cardinality(Group(r))
      BY <2>1, <3>1, MembersFacts
    <3> QED BY <2>1, <2>5, <3>3, <3>4, <3>5 DEF Groups
  <2>6. f \in Bijection(Colors, Groups)
    <3>1. \A c \in Colors : f[c] \in Groups /\ ToSet(f[c]) = Group(Of(c))
      BY <2>2, <2>5
    <3>2. ASSUME NEW c \in Colors, NEW d \in Colors, f[c] = f[d] PROVE c = d
      <4>1. Of(c) \in Group(Of(d))
        BY <2>1, <2>2, <3>1, <3>2, GroupFacts
      <4> QED BY <2>2, <4>1 DEF Group
    <3>3. \A g \in Groups : \E c \in Colors : f[c] = g
      BY <2>4, <2>5
    <3> HIDE DEF Colors
    <3>4. f \in [Colors -> Groups]
      BY <3>1
    <3> HIDE DEF f
    <3> QED BY <3>2, <3>3, <3>4 DEF Bijection, Injection, Surjection, IsInjective
  <2>7. IsFiniteSet(Colors) /\ Cardinality(Colors) = NumGroups
    <3>1. NumGroups \in Nat \ {0}
      BY <2>1, ColorFacts
    <3>2. /\ IsFiniteSet(0 .. NumGroups - 1)
          /\ Cardinality(0 .. NumGroups - 1)
             = IF 0 > NumGroups - 1 THEN 0 ELSE NumGroups - 1 - 0 + 1
      BY <3>1, FS_Interval
    <3> QED BY <3>1, <3>2
  <2> HIDE DEF Colors, f
  <2>8. Cardinality(Groups) = NumGroups
    <3>1. ExistsBijection(Colors, Groups)
      BY <2>6 DEF ExistsBijection
    <3> QED BY <2>7, <3>1, FS_Bijection
  <2> QED BY <2>4, <2>5, <2>8
<1> QED BY <1>1, Inductive, PTL

-----------------------------------------------------------------------------
(***************************************************************************)
(* The rows with -multi 1, which are about the right ranks when -map is    *)
(* not given (with it they are not: the run groups_multi_mapped).          *)
(*                                                                         *)
(* Without -map the groups are blocks of np ranks in the order of ranks.   *)
(***************************************************************************)
LEMMA Quotient ==
  ASSUME NEW m \in Nat \ {0}, NEW k \in Nat
  PROVE  k \div m \in Nat /\ (k \div m) * m <= k /\ k < (k \div m) * m + m
<1>1. k \div m \in Nat /\ k % m \in 0 .. m - 1 /\ k = m * (k \div m) + (k % m)
  OBVIOUS
<1> QED BY <1>1

LEMMA QuotientIs ==
  ASSUME NEW m \in Nat \ {0}, NEW k \in Nat, NEW c \in Nat, c * m <= k, k < c * m + m
  PROVE  k \div m = c
<1> DEFINE d == k \div m
<1>1. d \in Nat /\ d * m <= k /\ k < d * m + m
  BY Quotient
<1> HIDE DEF d
<1>2. CASE d < c
  <2>1. (d + 1) * m <= c * m
    BY <1>1, <1>2
  <2>2. (d + 1) * m = d * m + m
    BY <1>1
  <2> QED BY <1>1, <2>1, <2>2
<1>3. CASE c < d
  <2>1. (c + 1) * m <= d * m
    BY <1>1, <1>3
  <2>2. (c + 1) * m = c * m + m
    OBVIOUS
  <2> QED BY <1>1, <2>1, <2>2
<1> QED BY <1>1, <1>2, <1>3 DEF d

Block(c) == [i \in 1 .. np |-> c * np + i - 1]

LEMMA UnmappedMembers ==
  ASSUME AllUsed, opt \in Options, np \in 1 .. W, WNumProcs(bench) = W,
         opt.mode > 0, NoMap, NEW r \in World
  PROVE  Members(r) = IF r \div np < W \div np THEN Block(r \div np) ELSE <<>>
<1> DEFINE n == np
           c == r \div n
           w == W \div n
           G == Group(r)
<1>1. /\ n \in Nat \ {0} /\ W \in Nat \ {0} /\ World = 0 .. W - 1 /\ r \in Nat /\ r < W
      /\ opt.mode >= 0
  BY OptFacts DEF OptionType
<1>2. \A q \in World : Key(q) = q
  BY DEF Key, NoMap
<1>3. \A q \in World : Color(q) = IF q \div n < w THEN q \div n ELSE Undefined
  BY <1>1, <1>2 DEF Color
<1>4. /\ c \in Nat /\ c * n <= r /\ r < c * n + n
      /\ w \in Nat /\ w * n <= W /\ W < w * n + n
  BY <1>1, Quotient
<1>5. CASE ~ (c < w)
  <2>1. Color(r) = Undefined
    BY <1>3, <1>5
  <2> QED BY <1>5, <2>1 DEF Members
<1>6. CASE c < w
  <2> HIDE DEF n, c, w, G
  <2>1. c * n + n <= W
    <3>1. (c + 1) * n <= w * n
      BY <1>1, <1>4, <1>6
    <3>2. (c + 1) * n = c * n + n
      BY <1>1, <1>4
    <3> QED BY <1>1, <1>4, <3>1, <3>2
  <2>2. ASSUME NEW q \in World PROVE q \in G <=> c * n <= q /\ q < c * n + n
    <3>1. q \in Nat /\ q \div n \in Nat /\ (q \div n) * n <= q /\ q < (q \div n) * n + n
      BY <1>1, Quotient
    <3>2. q \in G <=> q \div n = c
      <4>1. Color(r) = c
        BY <1>3, <1>6 DEF c
      <4>2. c # Undefined
        BY <1>4 DEF Undefined
      <4>3. q \in G <=> Color(q) = c
        BY <4>1 DEF G, Group
      <4> QED BY <1>3, <1>6, <4>2, <4>3
    <3>3. c * n <= q /\ q < c * n + n => q \div n = c
      BY <1>1, <1>4, <3>1, QuotientIs
    <3> QED BY <3>1, <3>2, <3>3
  <2> DEFINE lo == c * n
  <2>3. G = lo .. lo + n - 1 /\ lo \in Nat
    <3>1. lo \in Nat /\ lo + n <= W
      BY <1>1, <1>4, <2>1
    <3>2. G \subseteq World /\ \A q \in World : q \in G <=> lo <= q /\ q < lo + n
      BY <2>2 DEF G, Group
    <3> HIDE DEF lo
    <3>3. \A q : q \in lo .. lo + n - 1 <=> q \in World /\ lo <= q /\ q < lo + n
      BY <1>1, <3>1
    <3> QED BY <3>1, <3>2, <3>3
  <2> HIDE DEF lo
  <2>4. Cardinality(G) = n
    <3>1. lo \in Int /\ lo + n - 1 \in Int
      BY <1>1, <2>3
    <3>2. Cardinality(G) = IF lo > lo + n - 1 THEN 0 ELSE (lo + n - 1) - lo + 1
      BY <2>3, <3>1, FS_Interval
    <3> QED BY <1>1, <3>1, <3>2
  <2>5. ASSUME NEW q \in G PROVE Place(q) = q - lo + 1
    <3>1. q \in World /\ q \in Nat /\ G \subseteq World
      BY <1>1, <2>3 DEF G, Group
    <3>2. Group(q) = G
      BY GroupFacts DEF G
    <3>3. \A p \in G : Before(p, q) <=> p < q
      BY <1>1, <1>2, <3>1 DEF Before
    <3>4. {p \in G : Before(p, q)} = lo .. q - 1
      <4>1. lo \in Nat /\ lo <= q /\ q <= lo + n - 1 /\ n \in Nat
        BY <1>1, <2>3
      <4>2. \A p : p \in lo .. lo + n - 1 /\ p < q <=> p \in lo .. q - 1
        BY <3>1, <4>1
      <4>3. \A p : p \in G /\ Before(p, q) <=> p \in lo .. q - 1
        BY <2>3, <3>3, <4>2
      <4> QED BY <4>3
    <3>5. lo \in Int /\ q - 1 \in Int /\ lo <= q
      BY <2>3, <3>1
    <3>6. Cardinality(lo .. q - 1) = IF lo > q - 1 THEN 0 ELSE (q - 1) - lo + 1
      BY <3>5, FS_Interval
    <3>7. Place(q) = 1 + Cardinality(lo .. q - 1)
      BY <3>2, <3>4 DEF Place
    <3>8. q \in Int /\ Cardinality(lo .. q - 1) = q - lo
      BY <3>1, <3>5, <3>6
    <3> QED BY <3>5, <3>7, <3>8
  <2>6. ASSUME NEW i \in 1 .. n PROVE (CHOOSE q \in G : Place(q) = i) = lo + i - 1
    <3>1. lo + i - 1 \in G
      BY <1>1, <2>3
    <3>2. ASSUME NEW q \in G PROVE Place(q) = i <=> q = lo + i - 1
      BY <2>3, <2>5
    <3> QED BY <3>1, <3>2
  <2>7. Color(r) # Undefined
    BY <1>3, <1>4, <1>6 DEF c, Undefined
  <2>8. Members(r) = [i \in 1 .. n |-> c * n + i - 1]
    BY <2>4, <2>6, <2>7 DEF Members, G, lo
  <2> QED BY <1>6, <2>8 DEF Block, n, c, w
<1> QED BY <1>5, <1>6

(***************************************************************************)
(* The leaders are the multiples of np with a whole group.                 *)
(***************************************************************************)
LEMMA UnmappedLeads ==
  ASSUME AllUsed, IInv, InStage, opt.mode > 0, NoMap, NEW r \in World
  PROVE  Leads(r) <=> r = (r \div np) * np /\ r \div np < W \div np
<1>1. /\ opt \in Options /\ np \in 1 .. W /\ WNumProcs(bench) = W /\ W \in Nat \ {0}
      /\ comm[r] = Members(r) /\ r \in Nat
  BY InvFacts, NPFacts DEF InStage
<1>2. comm[r] = IF r \div np < W \div np THEN Block(r \div np) ELSE <<>>
  BY <1>1, UnmappedMembers
<1>3. np \in Nat \ {0} /\ r \div np \in Nat /\ (r \div np) * np \in Nat
  <2>1. np \in Nat \ {0}
    BY <1>1
  <2>2. r \div np \in Nat
    BY <1>1, <2>1, Quotient
  <2> QED BY <2>1, <2>2
<1>4. Block(r \div np) # <<>> /\ Head(Block(r \div np)) = (r \div np) * np
  <2> DEFINE c == r \div np
  <2>1. Head(Block(c)) = Block(c)[1] /\ DOMAIN Block(c) = 1 .. np /\ 1 \in 1 .. np
    BY <1>3 DEF Block
  <2>2. Block(c)[1] = c * np + 1 - 1
    BY <2>1 DEF Block
  <2>3. Block(c) # <<>>
    <3>1. DOMAIN <<>> = {}
      OBVIOUS
    <3> HIDE DEF c
    <3> QED BY <2>1, <3>1
  <2> QED BY <1>3, <2>1, <2>2, <2>3
<1> QED BY <1>2, <1>4 DEF Leads

(***************************************************************************)
(* What rank 0 keeps in a communicator of its own: the first block.        *)
(***************************************************************************)
LEMMA FirstBlock ==
  ASSUME AllUsed, opt \in Options, np \in 1 .. W, WNumProcs(bench) = W, opt.mode > 0, NoMap
  PROVE  /\ Members(0) = Block(0) /\ Members(0) # <<>> /\ Head(Members(0)) = 0
         /\ W \div np \in Nat \ {0} /\ (W \div np) * np <= W /\ W < (W \div np) * np + np
<1>1. np \in Nat \ {0} /\ W \in Nat \ {0} /\ np <= W /\ 0 \in World
  BY OptFacts
<1>2. W \div np \in Nat /\ (W \div np) * np <= W /\ W < (W \div np) * np + np
  BY <1>1, Quotient
<1>3. W \div np # 0
  BY <1>1, <1>2
<1>4. 0 \div np = 0
  BY <1>1, QuotientIs
<1>5. Members(0) = Block(0)
  <2>1. 0 < W \div np
    BY <1>2, <1>3
  <2> QED BY <1>1, <1>4, <2>1, UnmappedMembers
<1>6. Block(0) # <<>> /\ Head(Block(0)) = 0
  <2>1. DOMAIN Block(0) = 1 .. np /\ 1 \in 1 .. np /\ Block(0)[1] = 0 * np + 1 - 1
    BY <1>1 DEF Block
  <2>2. Block(0) # <<>>
    <3>1. DOMAIN <<>> = {}
      OBVIOUS
    <3> QED BY <2>1, <3>1
  <2>3. Head(Block(0)) = Block(0)[1]
    OBVIOUS
  <2> QED BY <1>1, <2>1, <2>2, <2>3
<1> QED BY <1>2, <1>3, <1>5, <1>6

(***************************************************************************)
(* No more ranks than there are.                                           *)
(***************************************************************************)
LEMMA RanksFit ==
  ASSUME AllUsed, opt \in Options, NEW s \in Seq(World), IsInjective(s)
  PROVE  Len(s) <= W
<1> DEFINE n == Len(s)
<1>1. n \in Nat /\ W \in Nat \ {0} /\ s \in [1 .. n -> World]
  BY OptFacts
<1>2. IsFiniteSet(World) /\ Cardinality(World) = W
  BY WorldFinite
<1>3. IsFiniteSet(1 .. n) /\ Cardinality(1 .. n) = n
  <2>1. IsFiniteSet(1 .. n) /\ Cardinality(1 .. n) = IF 1 > n THEN 0 ELSE n - 1 + 1
    BY <1>1, FS_Interval
  <2> QED BY <1>1, <2>1
<1>4. s \in Injection(1 .. n, World)
  BY <1>1 DEF Injection, IsInjective
<1> HIDE DEF n
<1>5. Cardinality(1 .. n) <= Cardinality(World)
  BY <1>2, <1>3, <1>4, FS_Injection
<1> QED BY <1>2, <1>3, <1>5 DEF n

LEMMA InitRows ==
  ASSUME AllUsed, Init
  PROVE  RInv
<1>1. /\ opt \in Options /\ g_ranks = <<>> /\ groups = <<>> /\ proc = 1 /\ rows = <<>>
      /\ pc = [r \in World |-> "split"]
  BY DEF Init
<1>2. W \in Nat \ {0} /\ 1 <= Greater(1, W) /\ AllSplit
  <2>1. W \in Nat \ {0}
    BY <1>1, OptFacts
  <2> QED BY <1>1, <2>1 DEF Greater, AllSplit
<1>3. FlattenSeq(<<>>) = <<>>
  BY DEF FlattenSeq
<1> QED BY <1>1, <1>2, <1>3 DEF RInv, RowsOfGroups

(***************************************************************************)
(* Steps that touch neither the groups nor the rows, and no other stage.   *)
(***************************************************************************)
LEMMA KeepRows ==
  ASSUME RInv, UNCHANGED <<opt, comm, g_ranks, groups, rows>>,
         AllSplit' = AllSplit, ~ AllSplit => np' = np /\ proc' = proc, proc' = proc
  PROVE  RInv'
<1>1. World' = World /\ W' = W /\ NoMap' = NoMap
  BY DEF World, W, NoMap
<1>2. Greater(1, W)' = Greater(1, W)
  BY <1>1 DEF Greater
<1>3. RowsOfGroups /\ AllSplit => RowsOfGroups'
  BY <1>1 DEF RowsOfGroups, Groups, AllSplit
<1>4. Blocks /\ ~ AllSplit => Blocks'
  BY <1>1 DEF Blocks
<1> QED BY <1>1, <1>2, <1>3, <1>4 DEF RInv

LEMMA SkipRows ==
  ASSUME RInv, Skip
  PROVE  RInv'
<1>1. /\ UNCHANGED <<opt, pc, comm, chan, g_ranks, groups, proc, rows>>
      /\ \A r \in World : pc[r] = "split"
  BY DEF Skip
<1>2. AllSplit /\ AllSplit' = AllSplit
  BY <1>1 DEF AllSplit, World, W
<1> QED BY <1>1, <1>2, KeepRows

LEMMA StutterRows ==
  ASSUME RInv, UNCHANGED vars
  PROVE  RInv'
<1>1. UNCHANGED <<opt, np, pc, comm, g_ranks, groups, proc, rows>>
  BY DEF vars
<1>2. AllSplit' = AllSplit
  BY <1>1 DEF AllSplit, World, W
<1> QED BY <1>1, <1>2, KeepRows

LEMMA SendRows ==
  ASSUME AllUsed, IInv, RInv, NEW r \in World, SendGroup(r)
  PROVE  RInv'
<1>1. /\ pc[r] = "exchange" /\ pc' = [pc EXCEPT ![r] = "report"]
      /\ UNCHANGED <<opt, np, comm, g_ranks, groups, proc, rows>>
  BY DEF SendGroup
<1>2. pc'[r] = "report"
  BY <1>1, InvFacts
<1>3. ~ AllSplit /\ AllSplit' = AllSplit
  BY <1>1, <1>2 DEF AllSplit, World, W
<1> QED BY <1>1, <1>3, KeepRows

LEMMA CollectedRows ==
  ASSUME AllUsed, IInv, RInv, Collected
  PROVE  RInv'
<1>1. /\ pc[0] = "exchange" /\ pc' = [pc EXCEPT ![0] = "report"]
      /\ UNCHANGED <<opt, np, comm, g_ranks, groups, proc, rows>>
  BY DEF Collected
<1>2. pc'[0] = "report" /\ 0 \in World
  BY <1>1, InvFacts
<1>3. ~ AllSplit /\ AllSplit' = AllSplit
  BY <1>1, <1>2 DEF AllSplit, World, W
<1> QED BY <1>1, <1>3, KeepRows

(***************************************************************************)
(* In a new communicator rank 0 has its own group or none.                 *)
(***************************************************************************)
LEMMA SplitRows ==
  ASSUME AllUsed, IInv, RInv, Split
  PROVE  RInv'
<1> DEFINE m == Members(0)
<1>0. /\ opt \in Options /\ W \in Nat \ {0} /\ World = 0 .. W - 1 /\ 0 \in World
      /\ bench \in 1 .. Len(opt.kinds) + 1 /\ Len(opt.kinds) \in Nat /\ np \in 1 .. W
  BY InvFacts
<1>1. /\ ~ Done /\ proc' = 1 /\ groups' = OwnGroup(m)
      /\ g_ranks' = IF OwnGroup(m) = <<>> THEN <<>> ELSE m
      /\ pc' = [r \in World |-> IF Congruent(Members(r)) THEN "report" ELSE "exchange"]
      /\ UNCHANGED <<opt, bench, np, chan, rows>>
  BY DEF Split
<1>2. World' = World /\ W' = W /\ NoMap' = NoMap /\ Greater(1, W)' = Greater(1, W)
  BY <1>1 DEF World, W, NoMap, Greater
<1>3. ~ AllSplit'
  BY <1>0, <1>1, <1>2 DEF AllSplit
<1>4. WNumProcs(bench) = W
  BY <1>0, <1>1, NPFacts DEF Done
<1>5. m \in Seq(World) /\ IsInjective(m)
  BY <1>0, MembersOf
<1>6. g_ranks' = FlattenSeq(groups') /\ Len(g_ranks') <= W
  <2> HIDE DEF m
  <2>1. CASE OwnGroup(m) = <<>>
    <3>1. FlattenSeq(<<>>) = <<>>
      BY DEF FlattenSeq
    <3> QED BY <1>0, <1>1, <2>1, <3>1
  <2>2. CASE OwnGroup(m) # <<>>
    <3>1. OwnGroup(m) = <<m>>
      BY <2>2 DEF OwnGroup
    <3>2. <<>> \in Seq(Seq(World)) /\ Append(<<>>, m) = <<m>> /\ <<>> \o m = m
      BY <1>5
    <3>3. FlattenSeq(<<m>>) = m
      BY <1>5, <3>2, FlattenAppend
    <3>4. Len(m) <= W
      BY <1>0, <1>5, RanksFit
    <3> QED BY <1>1, <2>2, <3>1, <3>3, <3>4
  <2> QED BY <2>1, <2>2
<1>7. ASSUME opt.mode > 0, NoMap PROVE Blocks'
  <2>1. /\ m = Block(0) /\ m # <<>> /\ Head(m) = 0
        /\ W \div np \in Nat \ {0} /\ np \in Nat \ {0}
    BY <1>0, <1>4, <1>7, FirstBlock
  <2> HIDE DEF m
  <2>2. groups' = <<m>>
    BY <1>1, <2>1 DEF OwnGroup
  <2>3. Len(groups') = 1 /\ groups'[1] = Block(0)
    BY <2>1, <2>2
  <2>4. groups'[1] = [i \in 1 .. np |-> (1 - 1) * np + i - 1]
    BY <2>3 DEF Block
  <2>5. (1 - 1) * np < 1 /\ 1 <= 1 * np /\ 1 \in 1 .. W \div np
    BY <2>1
  <2>6. \A g \in 1 .. 1 : g = 1
    OBVIOUS
  <2> QED BY <1>1, <1>2, <2>3, <2>4, <2>5, <2>6 DEF Blocks
<1>8. 1 <= Greater(1, W)
  BY <1>0 DEF Greater
<1> QED BY <1>1, <1>2, <1>3, <1>6, <1>7, <1>8 DEF RInv

(***************************************************************************)
(* The next leader is that of the next block.                              *)
(***************************************************************************)
LEMMA RecvRows ==
  ASSUME AllUsed, IInv, RInv, RecvGroup
  PROVE  RInv'
<1> DEFINE p == proc
           L == Len(groups)
           w == W \div np
           c == p \div np
<1>0. /\ opt \in Options /\ W \in Nat \ {0} /\ World = 0 .. W - 1 /\ 0 \in World
      /\ np \in 1 .. W /\ groups \in Seq(Seq(World)) /\ g_ranks \in Seq(World)
      /\ comm \in [World -> Seq(World)]
  BY InvFacts
<1>1. /\ p \in World /\ p # 0 /\ proc' = p + 1 /\ pc[0] = "exchange"
      /\ UNCHANGED <<opt, bench, np, pc, comm, rows>>
      /\ ~ Leads(p) => UNCHANGED <<groups, g_ranks>>
      /\ Leads(p) => groups' = Append(groups, comm[p]) /\ g_ranks' = g_ranks \o comm[p]
  BY Received
<1>2. InStage /\ ~ AllSplit
  BY <1>0, <1>1, Exchanging
<1>3. World' = World /\ W' = W /\ NoMap' = NoMap /\ Greater(1, W)' = Greater(1, W)
  BY <1>1 DEF World, W, NoMap, Greater
<1>4. ~ AllSplit'
  BY <1>0, <1>1, <1>3 DEF AllSplit
<1>5. p \in Nat /\ p + 1 \in Nat /\ p + 1 <= Greater(1, W)
  BY <1>0, <1>1 DEF Greater
<1>6. g_ranks' = FlattenSeq(groups')
  <2>1. CASE Leads(p)
    <3>1. comm[p] \in Seq(World) /\ g_ranks = FlattenSeq(groups)
      BY <1>0, <1>1 DEF RInv
    <3> HIDE DEF p
    <3>2. FlattenSeq(Append(groups, comm[p])) = FlattenSeq(groups) \o comm[p]
      BY <1>0, <3>1, FlattenAppend
    <3> QED BY <1>1, <2>1, <3>1, <3>2
  <2>2. CASE ~ Leads(p)
    BY <1>1, <2>2 DEF RInv
  <2> QED BY <2>1, <2>2
<1>7. Len(g_ranks') <= W
  <2>1. IInv'
    BY RecvStep
  <2>2. g_ranks' \in Seq(World) /\ IsInjective(g_ranks')
    <3>1. InStage'
      BY <1>4, <2>1 DEF IInv
    <3>2. ~ Congruent(comm[0])'
      <4>1. ~ Congruent(comm[0])
        BY <1>0, <1>1, Exchanging
      <4> QED BY <1>1, <1>3, <4>1 DEF Congruent
    <3>3. Recorded'
      BY <3>1, <3>2 DEF InStage, Collects
    <3> QED BY <1>3, <2>1, <3>3 DEF IInv, Recorded
  <2> QED BY <1>0, <2>2, RanksFit
<1>8. ASSUME opt.mode > 0, NoMap PROVE Blocks'
  <2>1. /\ L \in 1 .. w /\ (L - 1) * np < p /\ (L = w \/ p <= L * np)
        /\ \A g \in 1 .. L : groups[g] = Block(g - 1)
    BY <1>2, <1>8 DEF RInv, Blocks, Block
  <2>2. Leads(p) <=> p = c * np /\ c < w
    BY <1>1, <1>2, <1>8, UnmappedLeads
  <2>3. np \in Nat \ {0} /\ p \in Nat /\ w \in Nat /\ L \in Nat \ {0} /\ L <= w
    <3>1. np \in Nat \ {0} /\ W \in Nat
      BY <1>0
    <3>2. w \in Nat
      BY <3>1, Quotient
    <3> QED BY <1>5, <2>1, <3>1, <3>2
  <2>4. c \in Nat /\ c * np <= p /\ p < c * np + np
    BY <2>3, Quotient
  <2>5. \A g : groups'[g] = Block(g - 1)' <=> groups'[g] = Block(g - 1)
    BY <1>1 DEF Block
  <2>6. CASE Leads(p)
    <3>1. p = c * np /\ c < w
      BY <2>2, <2>6
    <3>2. c = L
      <4> HIDE DEF p, L, w, c
      <4>1. c * np <= L * np => c <= L
        <5>1. ASSUME L + 1 <= c PROVE (L + 1) * np <= c * np
          BY <2>3, <2>4, <5>1
        <5>2. (L + 1) * np = L * np + np
          BY <2>3
        <5>3. L * np \in Nat /\ c * np \in Nat
          BY <2>3, <2>4
        <5> QED BY <2>3, <2>4, <5>1, <5>2, <5>3
      <4>2. (L - 1) * np < c * np => L <= c
        <5>1. ASSUME c + 1 <= L PROVE c * np <= (L - 1) * np
          BY <2>3, <2>4, <5>1
        <5>2. L - 1 \in Nat /\ (L - 1) * np \in Nat /\ c * np \in Nat
          BY <2>3, <2>4
        <5> QED BY <2>3, <2>4, <5>1, <5>2
      <4>3. L = w => c < L
        BY <3>1
      <4> QED BY <2>1, <2>3, <2>4, <3>1, <4>1, <4>2, <4>3
    <3>3. comm[p] = Block(L)
      <4>1. comm[p] = Members(p) /\ WNumProcs(bench) = W
        BY <1>1, <1>2, InvFacts, NPFacts DEF InStage
      <4>2. Members(p) = Block(c)
        BY <1>0, <1>1, <1>8, <3>1, <4>1, UnmappedMembers
      <4> QED BY <3>2, <4>1, <4>2
    <3>4. groups' = Append(groups, Block(L)) /\ Len(groups') = L + 1
      BY <1>0, <1>1, <2>6, <3>3
    <3>5. \A g \in 1 .. L + 1 : groups'[g] = Block(g - 1)
      <4>1. ASSUME NEW g \in 1 .. L PROVE groups'[g] = Block(g - 1)
        <5>1. groups'[g] = groups[g]
          BY <1>0, <3>4
        <5> QED BY <2>1, <5>1
      <4>2. groups'[L + 1] = Block((L + 1) - 1)
        <5>1. groups'[L + 1] = Block(L)
          BY <1>0, <3>4
        <5>2. (L + 1) - 1 = L
          BY <2>3
        <5> QED BY <5>1, <5>2
      <4> QED BY <2>3, <4>1, <4>2
    <3>6. L + 1 \in 1 .. w /\ ((L + 1) - 1) * np < p + 1 /\ p + 1 <= (L + 1) * np
      <4> HIDE DEF p, L, w, c
      <4>1. p = L * np /\ L < w /\ (L + 1) - 1 = L /\ L * np \in Nat
        BY <2>3, <3>1, <3>2
      <4>2. (L + 1) * np = L * np + np
        BY <2>3
      <4> QED BY <2>3, <4>1, <4>2
    <3> QED BY <1>1, <1>3, <3>4, <3>5, <3>6 DEF Blocks, Block
  <2>7. CASE ~ Leads(p)
    <3>1. groups' = groups
      BY <1>1, <2>7
    <3>2. (L - 1) * np < p + 1
      <4> HIDE DEF p, L
      <4>1. (L - 1) * np \in Nat
        BY <2>3
      <4> QED BY <2>1, <2>3, <4>1
    <3>3. L = w \/ p + 1 <= L * np
      <4> SUFFICES ASSUME L # w, ~ (p + 1 <= L * np) PROVE FALSE
        OBVIOUS
      <4>1. L * np \in Nat /\ p = L * np
        <5> HIDE DEF p, L, w
        <5>1. L * np \in Nat
          BY <2>3
        <5> QED BY <2>1, <2>3, <5>1
      <4>2. c = L
        <5> HIDE DEF L, w
        <5>1. L * np <= p /\ p < L * np + np
          BY <2>3, <4>1
        <5> HIDE DEF p
        <5> QED BY <2>3, <5>1, QuotientIs
      <4>3. L < w
        BY <2>3
      <4> QED BY <2>2, <2>7, <4>1, <4>2, <4>3
    <3> QED BY <1>1, <1>3, <2>1, <3>1, <3>2, <3>3 DEF Blocks, Block
  <2> QED BY <2>6, <2>7
<1> QED BY <1>1, <1>3, <1>4, <1>5, <1>6, <1>7, <1>8 DEF RInv

(***************************************************************************)
(* The entries a row takes are within the world; of blocks they are the    *)
(* ranks themselves.                                                       *)
(***************************************************************************)
LEMMA RowsTyped ==
  ASSUME AllUsed, IInv, RInv
  PROVE  Rows \in Seq(Seq(World))
<1> DEFINE n == Len(g_ranks)
<1>1. /\ W \in Nat \ {0} /\ World = 0 .. W - 1
      /\ groups \in Seq(Seq(World)) /\ g_ranks \in Seq(World)
  BY InvFacts
<1>2. g_ranks = FlattenSeq(groups) /\ n <= W /\ n \in Nat
  BY <1>1 DEF RInv
<1>3. ASSUME NEW g \in 1 .. Len(groups) PROVE GroupRow(g) \in Seq(World)
  <2> DEFINE m == Len(groups[g])
             o == Offset(g)
  <2>1. m \in Nat /\ o \in Nat /\ o + m <= n
    <3>1. m \in Nat /\ Offset(g) = StartOf(groups, g)
      BY <1>1 DEF Offset, StartOf
    <3>2. StartOf(groups, g) \in Nat
      BY <1>1, Starts
    <3>3. StartOf(groups, g) + Len(groups[g]) <= Len(FlattenSeq(groups))
      BY <1>1, StartsInside
    <3> QED BY <1>2, <3>1, <3>2, <3>3
  <2> HIDE DEF m, o, n
  <2>2. \A i \in 1 .. m : o + i - 1 \in World
    BY <1>1, <1>2, <2>1
  <2>3. [i \in 1 .. m |-> o + i - 1] \in [1 .. m -> World]
    BY <2>2
  <2> QED BY <2>1, <2>3 DEF GroupRow, m, o
<1>4. CASE opt.mode > 0
  <2> DEFINE k == Len(groups)
             f == [g \in 1 .. k |-> GroupRow(g)]
  <2>1. k \in Nat
    BY <1>1
  <2>2. Rows = f
    BY <1>4 DEF Rows
  <2> HIDE DEF k
  <2>3. f \in [1 .. k -> Seq(World)]
    BY <1>3 DEF k
  <2> HIDE DEF f
  <2> QED BY <2>1, <2>2, <2>3
<1>5. CASE ~ (opt.mode > 0)
  <2>1. Rows = <<g_ranks>>
    BY <1>5 DEF Rows
  <2>2. ASSUME NEW S, NEW q \in S PROVE <<q>> \in Seq(S)
    OBVIOUS
  <2> QED BY <1>1, <2>1, <2>2
<1> QED BY <1>4, <1>5

LEMMA RowsAreBlocks ==
  ASSUME AllUsed, IInv, RInv, Blocks, opt.mode > 0
  PROVE  Rows = groups
<1>1. np \in Nat \ {0} /\ groups \in Seq(Seq(World))
  BY InvFacts
<1>2. \A g \in 1 .. Len(groups) : groups[g] = Block(g - 1) /\ Len(groups[g]) = np
  <2>1. ASSUME NEW g \in 1 .. Len(groups) PROVE groups[g] = Block(g - 1)
    BY DEF Blocks, Block
  <2>2. ASSUME NEW c PROVE Len(Block(c)) = np
    BY <1>1 DEF Block
  <2> QED BY <2>1, <2>2
<1>3. ASSUME NEW g \in 1 .. Len(groups) PROVE GroupRow(g) = groups[g]
  <2>1. Offset(g) = (g - 1) * np
    <3>1. g \in 1 .. Len(groups) + 1
      BY <1>1
    <3>2. StartOf(groups, g) = (g - 1) * np
      BY <1>1, <1>2, <3>1, StartsEqual
    <3> QED BY <3>2 DEF Offset, StartOf
  <2> QED BY <1>2, <2>1 DEF GroupRow, Block
<1>4. Rows = [g \in 1 .. Len(groups) |-> groups[g]]
  BY <1>3 DEF Rows
<1> QED BY <1>1, <1>4

LEMMA ReportRows ==
  ASSUME AllUsed, IInv, RInv, Report
  PROVE  RInv'
<1>1. /\ AllReport /\ rows' = Rows /\ pc' = [r \in World |-> "split"]
      /\ UNCHANGED <<opt, comm, g_ranks, groups, proc>>
  BY DEF Report, AllReport
<1>2. World' = World /\ W' = W /\ NoMap' = NoMap /\ Greater(1, W)' = Greater(1, W)
  BY <1>1 DEF World, W, NoMap, Greater
<1>3. 0 \in World /\ W \in Nat
  BY InvFacts
<1>4. AllSplit' /\ ~ AllSplit
  BY <1>1, <1>2, <1>3 DEF AllSplit, AllReport
<1>5. rows' \in Seq(Seq(World))
  BY <1>1, RowsTyped
<1>6. ASSUME opt.mode > 0, NoMap PROVE RowsOfGroups'
  <2>1. rows' = groups /\ groups \in Seq(Seq(World))
    BY <1>1, <1>4, <1>6, RowsAreBlocks, InvFacts DEF RInv
  <2>2. ToSet(groups) = Groups /\ Groups' = Groups
    BY <1>1, <1>2, AllKnown DEF Groups
  <2>3. {ToSet(row) : row \in ToSet(rows')} = {ToSet(c) : c \in Groups'}
    BY <2>1, <2>2
  <2> QED BY <1>1, <1>6, <2>3 DEF RowsOfGroups
<1> QED BY <1>1, <1>2, <1>4, <1>5, <1>6 DEF RInv

LEMMA NextRows ==
  ASSUME AllUsed, IInv, RInv, [Next]_vars
  PROVE  RInv'
<1>1. CASE Skip
  BY <1>1, SkipRows
<1>2. CASE Split
  BY <1>2, SplitRows
<1>3. CASE \E r \in World : SendGroup(r)
  BY <1>3, SendRows
<1>4. CASE RecvGroup
  BY <1>4, RecvRows
<1>5. CASE Collected
  BY <1>5, CollectedRows
<1>6. CASE Report
  BY <1>6, ReportRows
<1>7. CASE Terminated
  BY <1>7, StutterRows DEF Terminated
<1>8. CASE UNCHANGED vars
  BY <1>8, StutterRows
<1> QED BY <1>1, <1>2, <1>3, <1>4, <1>5, <1>6, <1>7, <1>8 DEF Next

LEMMA RowsInductive ==
  ASSUME AllUsed
  PROVE  Spec => [](IInv /\ RInv)
<1>1. Init => RInv
  BY InitRows
<1>2. IInv /\ RInv /\ [Next]_vars => RInv'
  BY NextRows
<1> QED BY <1>1, <1>2, Inductive, PTL DEF Spec

(***************************************************************************)
(* The variables have values of their kinds, in any world, with any map    *)
(* and -multi: rank 0 collects no more ranks than there are, and what      *)
(* IMB_calculate_times takes for a row stays within the gathered times.    *)
(***************************************************************************)
THEOREM TypesCorrect ==
  ASSUME AllUsed
  PROVE  Spec => []TypeOK
<1>1. IInv /\ RInv => TypeOK
  <2> SUFFICES ASSUME IInv, RInv PROVE TypeOK
    OBVIOUS
  <2>1. /\ opt \in OptionType /\ W \in Nat \ {0}
        /\ bench \in 1 .. Len(opt.kinds) + 1 /\ np \in 1 .. W
        /\ pc \in [World -> {"split", "exchange", "report"}] /\ proc \in Nat \ {0}
        /\ comm \in [World -> Seq(World)]
        /\ groups \in Seq(Seq(World)) /\ g_ranks \in Seq(World)
    BY InvFacts, OptFacts
  <2>2. Len(g_ranks) <= W /\ rows \in Seq(Seq(World)) /\ proc <= Greater(1, W)
    BY DEF RInv
  <2>3. proc \in 1 .. Greater(1, W)
    <3>1. Greater(1, W) \in Nat
      BY <2>1 DEF Greater
    <3> QED BY <2>1, <2>2, <3>1
  <2>4. ASSUME NEW r \in World
        PROVE  chan[r] \in Seq(Seq(World) \cup {NoLeader}) /\ Len(chan[r]) <= 1
    <3>1. chan[r] = <<>> \/ chan[r] = <<GroupMessage(r)>>
      <4>1. CASE AllSplit
        BY <4>1 DEF IInv
      <4>2. CASE ~ AllSplit /\ Congruent(comm[0])
        BY <4>2 DEF IInv, InStage, KnowsWorld
      <4>3. CASE ~ AllSplit /\ ~ Congruent(comm[0])
        <5>1. Collects
          BY <4>3 DEF IInv, InStage
        <5> QED BY <5>1 DEF Collects
      <4> QED BY <4>1, <4>2, <4>3
    <3>2. GroupMessage(r) \in Seq(World) \cup {NoLeader}
      BY <2>1 DEF GroupMessage
    <3>3. ASSUME NEW S, NEW q \in S
          PROVE  <<>> \in Seq(S) /\ Len(<<>>) <= 1 /\ <<q>> \in Seq(S) /\ Len(<<q>>) <= 1
      OBVIOUS
    <3> QED BY <3>1, <3>2, <3>3
  <2> QED BY <2>1, <2>2, <2>3, <2>4 DEF TypeOK, OptionType
<1> QED BY <1>1, RowsInductive, PTL

(***************************************************************************)
(* IMB_calculate_times: the rows of the output are about the groups of the *)
(* stage, one row for each with -multi 1 and one for all ranks otherwise,  *)
(* in any world and for any NP.  With -multi 1 this is so when there is no *)
(* -map (or one of a single row or column): the entries of the gathered    *)
(* times that a row takes are those of consecutive ranks.                  *)
(***************************************************************************)
Unmapped ==
  \A o \in Options : o.mode > 0 => o.px = 1 \/ o.py = 1 \/ o.px * o.py = 0

THEOREM RowsOfGroupsAlways ==
  ASSUME AllUsed, Unmapped
  PROVE  Spec => []RowsOfGroups
<1>1. IInv /\ RInv => (opt.mode > 0 => RowsOfGroups)
  <2> SUFFICES ASSUME IInv, RInv, opt.mode > 0 PROVE RowsOfGroups
    OBVIOUS
  <2>1. NoMap
    <3>1. opt \in Options
      BY DEF IInv
    <3> QED BY <3>1 DEF Unmapped, NoMap
  <2>2. AllSplit => RowsOfGroups
    BY <2>1 DEF RInv
  <2> QED BY <2>2 DEF RowsOfGroups, AllSplit
<1>2. IInv => (~ (opt.mode > 0) => opt.mode <= 0)
  <2> SUFFICES ASSUME IInv, ~ (opt.mode > 0) PROVE opt.mode <= 0
    OBVIOUS
  <2>1. opt.mode \in {-1, 0, 1}
    BY OptFacts DEF IInv, OptionType
  <2> QED BY <2>1
<1>3. IInv /\ RInv /\ OneRowOfGroups => RowsOfGroups
  BY <1>1, <1>2 DEF OneRowOfGroups
<1> QED BY <1>3, RowsInductive, OneRowAlways, PTL
=============================================================================
