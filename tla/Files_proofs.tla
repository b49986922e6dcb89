----------------------------- MODULE Files_proofs -----------------------------
(***************************************************************************)
(* Theorems about the buffers of ranks, and about what ranks do with their *)
(* requests, locks, windows, messages and files in a call of a kernel, and *)
(* what they leave in the files.                                           *)
(***************************************************************************)
EXTENDS Files, TLAPS, WellFoundedInduction, SequenceTheorems, FiniteSetTheorems

-----------------------------------------------------------------------------
(***************************************************************************)
(* A set with 0 and the successors of its numbers has all numbers: else    *)
(* look at the least that it has not.                                      *)
(***************************************************************************)
LEMMA Induction ==
  ASSUME NEW E, 0 \in E, \A n \in Nat : n \in E => n + 1 \in E
  PROVE  Nat \subseteq E
<1> SUFFICES ASSUME Nat \ E # {} PROVE FALSE
  OBVIOUS
<1>1. PICK m \in Nat \ E : \A k \in Nat \ E : ~ (<<k, m>> \in OpToRel(<, Nat))
  BY WFMin, NatLessThanWellFounded
<1>2. m # 0 /\ m - 1 \in Nat
  OBVIOUS
<1>3. <<m - 1, m>> \in OpToRel(<, Nat)
  BY <1>2 DEF OpToRel
<1>4. m - 1 \in E
  BY <1>1, <1>2, <1>3
<1>5. (m - 1) + 1 = m
  OBVIOUS
<1> QED BY <1>2, <1>4, <1>5

(***************************************************************************)
(* The function that FlattenSeq is defined with; there is one, and one     *)
(* only.                                                                   *)
(***************************************************************************)
Flattens(f, s, n) ==
  f = [i \in 1 .. n |-> IF i = 1 THEN s[i] ELSE f[i - 1] \o s[i]]

LEMMA FlattensExists ==
  ASSUME NEW E, NEW s \in Seq(Seq(E)), NEW n \in 0 .. Len(s)
  PROVE  \E f : Flattens(f, s, n) /\ \A i \in 1 .. n : f[i] \in Seq(E)
<1> DEFINE N == {k \in Nat : k <= Len(s) =>
                    \E f : Flattens(f, s, k) /\ \A i \in 1 .. k : f[i] \in Seq(E)}
<1>1. 0 \in N
  <2>1. Flattens(<<>>, s, 0)
    BY DEF Flattens
  <2> QED BY <2>1
<1>2. ASSUME NEW k \in Nat, k \in N PROVE k + 1 \in N
  <2> SUFFICES ASSUME k + 1 <= Len(s)
               PROVE  \E f : Flattens(f, s, k + 1) /\ \A i \in 1 .. k + 1 : f[i] \in Seq(E)
    OBVIOUS
  <2>1. PICK f : Flattens(f, s, k) /\ \A i \in 1 .. k : f[i] \in Seq(E)
    BY <1>2
  <2> DEFINE v == IF k = 0 THEN s[k + 1] ELSE f[k] \o s[k + 1]
             g == [i \in 1 .. k + 1 |-> IF i = k + 1 THEN v ELSE f[i]]
  <2>2. s[k + 1] \in Seq(E)
    OBVIOUS
  <2>3. v \in Seq(E)
    BY <2>1, <2>2
  <2> HIDE DEF v
  <2>4. \A i \in 1 .. k + 1 : g[i] \in Seq(E)
    BY <2>1, <2>3
  <2>5. ASSUME NEW i \in 1 .. k + 1
        PROVE  g[i] = IF i = 1 THEN s[i] ELSE g[i - 1] \o s[i]
    <3>1. CASE i = k + 1
      BY <3>1 DEF v
    <3>2. CASE i # k + 1
      <4>1. i \in 1 .. k /\ (i # 1 => i - 1 \in 1 .. k /\ i - 1 # k + 1 /\ i - 1 \in 1 .. k + 1)
        BY <3>2
      <4>2. f[i] = IF i = 1 THEN s[i] ELSE f[i - 1] \o s[i]
        BY <2>1, <4>1 DEF Flattens
      <4> QED BY <4>1, <4>2
    <3> QED BY <3>1, <3>2
  <2>6. Flattens(g, s, k + 1)
    <3>1. g = [i \in 1 .. k + 1 |-> g[i]]
      OBVIOUS
    <3> HIDE DEF g
    <3> QED BY <2>5, <3>1 DEF Flattens
  <2> HIDE DEF g
  <2> QED BY <2>4, <2>6
<1> HIDE DEF N
<1>3. Nat \subseteq N
  BY <1>1, <1>2, Induction
<1> QED BY <1>3 DEF N

LEMMA FlattensSame ==
  ASSUME NEW s, NEW t, NEW n \in Nat, NEW m \in Nat,
         NEW f, NEW g, Flattens(f, s, n), Flattens(g, t, m),
         NEW i \in 1 .. n, i <= m, \A j \in 1 .. i : s[j] = t[j]
  PROVE  f[i] = g[i]
<1> DEFINE N == {k \in Nat : k \in 1 .. i => f[k] = g[k]}
<1>1. 0 \in N
  OBVIOUS
<1>2. ASSUME NEW k \in Nat, k \in N PROVE k + 1 \in N
  <2> SUFFICES ASSUME k + 1 \in 1 .. i PROVE f[k + 1] = g[k + 1]
    OBVIOUS
  <2>1. /\ f[k + 1] = IF k + 1 = 1 THEN s[k + 1] ELSE f[(k + 1) - 1] \o s[k + 1]
        /\ g[k + 1] = IF k + 1 = 1 THEN t[k + 1] ELSE g[(k + 1) - 1] \o t[k + 1]
    <3>1. k + 1 \in 1 .. n /\ k + 1 \in 1 .. m
      OBVIOUS
    <3> QED BY <3>1 DEF Flattens
  <2>2. (k + 1) - 1 = k /\ s[k + 1] = t[k + 1] /\ (k + 1 # 1 => k \in 1 .. i)
    OBVIOUS
  <2> QED BY <1>2, <2>1, <2>2
<1> HIDE DEF N
<1>3. Nat \subseteq N
  BY <1>1, <1>2, Induction
<1> QED BY <1>3 DEF N

LEMMA FlattenIs ==
  ASSUME NEW E, NEW s \in Seq(Seq(E)), s # <<>>, NEW f, Flattens(f, s, Len(s))
  PROVE  FlattenSeq(s) = f[Len(s)]
<1> DEFINE n == Len(s)
           h == CHOOSE h : Flattens(h, s, n)
<1>1. Flattens(h, s, n)
  OBVIOUS
<1>2. FlattenSeq(s) = h[n]
  BY DEF FlattenSeq, Flattens
<1>3. n \in Nat /\ n # 0 /\ n \in 1 .. n
  OBVIOUS
<1> HIDE DEF h, n
<1>4. h[n] = f[n]
  BY <1>1, <1>3, FlattensSame DEF n
<1> QED BY <1>2, <1>4 DEF n

(***************************************************************************)
(* One more sequence is appended to the result.                            *)
(***************************************************************************)
LEMMA FlattenAppend ==
  ASSUME NEW E, NEW s \in Seq(Seq(E)), NEW e \in Seq(E)
  PROVE  /\ FlattenSeq(<<>>) = <<>> /\ FlattenSeq(s) \in Seq(E)
         /\ FlattenSeq(Append(s, e)) = FlattenSeq(s) \o e
<1> DEFINE n == Len(s)
           t == Append(s, e)
<1>1. FlattenSeq(<<>>) = <<>>
  BY DEF FlattenSeq
<1>2. /\ t \in Seq(Seq(E)) /\ Len(t) = n + 1 /\ t # <<>> /\ t[n + 1] = e /\ n \in Nat
      /\ \A j \in 1 .. n : t[j] = s[j]
  <2>1. /\ t \in Seq(Seq(E)) /\ Len(t) = n + 1 /\ t[n + 1] = e
        /\ \A j \in 1 .. n : t[j] = s[j]
    BY AppendProperties
  <2>2. n \in Nat
    OBVIOUS
  <2> HIDE DEF t, n
  <2>3. t # <<>>
    BY <2>1, <2>2
  <2> QED BY <2>1, <2>2, <2>3
<1> HIDE DEF t, n
<1>3. PICK f : Flattens(f, s, n) /\ \A i \in 1 .. n : f[i] \in Seq(E)
  <2>1. n \in 0 .. Len(s)
    BY <1>2 DEF n
  <2> QED BY <2>1, FlattensExists
<1>4. PICK g : Flattens(g, t, n + 1)
  <2>1. n + 1 \in 0 .. Len(t)
    BY <1>2
  <2> QED BY <1>2, <2>1, FlattensExists
<1>5. FlattenSeq(t) = g[n + 1]
  BY <1>2, <1>4, FlattenIs
<1>6. CASE n = 0
  <2>1. s = <<>>
    BY <1>6 DEF n
  <2>2. g[n + 1] = e
    BY <1>2, <1>4, <1>6 DEF Flattens
  <2>3. <<>> \o e = e /\ <<>> \in Seq(E)
    OBVIOUS
  <2>4. FlattenSeq(s) = <<>>
    BY <1>1, <2>1
  <2>5. FlattenSeq(t) = <<>> \o e
    BY <1>5, <2>2, <2>3
  <2> QED BY <1>1, <2>3, <2>4, <2>5 DEF t
<1>7. CASE n # 0
  <2>1. FlattenSeq(s) = f[n] /\ f[n] \in Seq(E)
    <3>1. s # <<>>
      BY <1>7 DEF n
    <3> QED BY <1>2, <1>3, <1>7, <3>1, FlattenIs DEF n
  <2>2. g[n] = f[n]
    <3>1. n + 1 \in Nat /\ n \in 1 .. n + 1 /\ n <= n /\ \A j \in 1 .. n : t[j] = s[j]
      BY <1>2, <1>7
    <3>2. Flattens(g, t, n + 1) /\ Flattens(f, s, n) /\ n \in Nat
      BY <1>2, <1>3, <1>4
    <3> HIDE DEF n, t
    <3> QED BY <3>1, <3>2, FlattensSame
  <2>3. g[n + 1] = g[(n + 1) - 1] \o t[n + 1]
    <3>1. n + 1 \in 1 .. n + 1 /\ n + 1 # 1
      BY <1>2, <1>7
    <3> QED BY <1>4, <3>1 DEF Flattens
  <2>4. (n + 1) - 1 = n
    BY <1>2
  <2> QED BY <1>1, <1>2, <1>5, <2>1, <2>2, <2>3, <2>4 DEF t
<1> QED BY <1>6, <1>7

-----------------------------------------------------------------------------

LEMMA Quotient ==
  ASSUME NEW x \in Nat, NEW y \in Nat \ {0}
  PROVE  /\ x \div y \in Nat /\ x % y \in 0 .. y - 1
         /\ x = y * (x \div y) + (x % y)
OBVIOUS

LEMMA QuotientBelow ==
  ASSUME NEW x \in Nat, NEW y \in Nat \ {0}, NEW n \in Nat, x < n * y
  PROVE  x \div y < n
<1>1. x \div y \in Nat /\ x % y \in 0 .. y - 1 /\ x = y * (x \div y) + (x % y)
  BY Quotient
<1>2. SUFFICES ASSUME n <= x \div y PROVE FALSE
  BY <1>1
<1>3. n * y <= (x \div y) * y
  BY <1>1, <1>2
<1> QED BY <1>1, <1>3

LEMMA CeilingAbove ==
  ASSUME NEW x \in Nat, NEW y \in Nat \ {0}
  PROVE  /\ Ceiling(x, y) \in Nat /\ x <= Ceiling(x, y) * y
         /\ x > 0 => Ceiling(x, y) > 0
<1>1. x + y - 1 \in Nat
  OBVIOUS
<1>2. /\ (x + y - 1) \div y \in Nat /\ (x + y - 1) % y \in 0 .. y - 1
      /\ x + y - 1 = y * ((x + y - 1) \div y) + ((x + y - 1) % y)
  BY <1>1, Quotient
<1>3. x <= y * ((x + y - 1) \div y)
  BY <1>2
<1>4. x > 0 => (x + y - 1) \div y > 0
  BY <1>2, <1>3
<1> QED BY <1>2, <1>3, <1>4 DEF Ceiling

-----------------------------------------------------------------------------
(***************************************************************************)
(* The portions in units: rank's begins with unit First(rank) and has      *)
(* Count(rank) of them.                                                    *)
(***************************************************************************)
First(rank, NP, ne) ==
  IF rank < ne % NP THEN rank * (ne \div NP + 1) ELSE rank * (ne \div NP) + (ne % NP)

Count(rank, NP, ne) == IF rank < ne % NP THEN ne \div NP + 1 ELSE ne \div NP

LEMMA FirstFacts ==
  ASSUME NEW NP \in Nat \ {0}, NEW ne \in Nat, NEW rank \in 0 .. NP - 1
  PROVE  /\ First(rank, NP, ne) \in Nat /\ Count(rank, NP, ne) \in Nat
         /\ First(rank + 1, NP, ne) = First(rank, NP, ne) + Count(rank, NP, ne)
<1> DEFINE b == ne \div NP
           m == ne % NP
<1>1. b \in Nat /\ m \in 0 .. NP - 1
  BY Quotient
<1> HIDE DEF b, m
<1>2. /\ First(rank, NP, ne) = IF rank < m THEN rank * (b + 1) ELSE rank * b + m
      /\ First(rank + 1, NP, ne) =
           IF rank + 1 < m THEN (rank + 1) * (b + 1) ELSE (rank + 1) * b + m
      /\ Count(rank, NP, ne) = IF rank < m THEN b + 1 ELSE b
  BY DEF First, Count, b, m
<1>3. rank * b \in Nat /\ rank * (b + 1) \in Nat
  BY <1>1
<1>4. /\ (rank + 1) * (b + 1) = rank * (b + 1) + (b + 1)
      /\ (rank + 1) * b = rank * b + b
      /\ rank * (b + 1) = rank * b + rank
  BY <1>1
<1> QED BY <1>1, <1>2, <1>3, <1>4

LEMMA FirstMonotone ==
  ASSUME NEW NP \in Nat \ {0}, NEW ne \in Nat,
         NEW q \in 0 .. NP - 1, NEW r \in 0 .. NP - 1, q < r
  PROVE  First(q, NP, ne) + Count(q, NP, ne) <= First(r, NP, ne)
<1> DEFINE b == ne \div NP
           m == ne % NP
<1>1. b \in Nat /\ m \in 0 .. NP - 1
  BY Quotient
<1> HIDE DEF b, m
<1>2. /\ First(q, NP, ne) = IF q < m THEN q * (b + 1) ELSE q * b + m
      /\ First(r, NP, ne) = IF r < m THEN r * (b + 1) ELSE r * b + m
      /\ Count(q, NP, ne) = IF q < m THEN b + 1 ELSE b
  BY DEF First, Count, b, m
<1>3. /\ q * (b + 1) = q * b + q /\ r * (b + 1) = r * b + r
      /\ q * b \in Nat /\ r * b \in Nat
  BY <1>1
<1>4. q * b + b <= r * b
  <2>1. (q + 1) * b <= r * b
    BY <1>1
  <2> QED BY <1>1, <2>1
<1> QED BY <1>1, <1>2, <1>3, <1>4

LEMMA UnitInPortion ==
  ASSUME NEW NP \in Nat \ {0}, NEW ne \in Nat, NEW u \in 0 .. ne - 1
  PROVE  \E rank \in 0 .. NP - 1 :
           /\ First(rank, NP, ne) <= u
           /\ u < First(rank, NP, ne) + Count(rank, NP, ne)
<1> DEFINE b == ne \div NP
           m == ne % NP
<1>1. b \in Nat /\ m \in 0 .. NP - 1 /\ ne = NP * b + m
  BY Quotient
<1>0. \A rank : /\ First(rank, NP, ne) = IF rank < m THEN rank * (b + 1) ELSE rank * b + m
                /\ Count(rank, NP, ne) = IF rank < m THEN b + 1 ELSE b
  BY DEF First, Count
<1> HIDE DEF b, m
<1>2. CASE u < m * (b + 1)
  <2> DEFINE rank == u \div (b + 1)
  <2>1. u \in Nat /\ b + 1 \in Nat \ {0}
    BY <1>1
  <2>2. rank \in Nat /\ u % (b + 1) \in 0 .. b /\ u = (b + 1) * rank + (u % (b + 1))
    <3> DEFINE y == b + 1
    <3>1. u \in Nat /\ y \in Nat \ {0} /\ y - 1 = b
      BY <1>1, <2>1
    <3> HIDE DEF y
    <3>2. /\ u \div y \in Nat /\ u % y \in 0 .. y - 1
          /\ u = y * (u \div y) + (u % y)
      BY <3>1, Quotient
    <3> QED BY <3>1, <3>2 DEF y
  <2>3. rank < m
    BY <1>1, <1>2, <2>1, QuotientBelow
  <2> HIDE DEF rank
  <2>4. rank \in 0 .. NP - 1 /\ rank * (b + 1) <= u /\ u < rank * (b + 1) + (b + 1)
    BY <1>1, <2>1, <2>2, <2>3
  <2> QED BY <1>0, <2>3, <2>4
<1>3. CASE ~ (u < m * (b + 1))
  <2> DEFINE v == u - m * (b + 1)
             rank == m + (v \div b)
  <2>1. m * (b + 1) = m * b + m /\ m * b \in Nat
    BY <1>1
  <2>2. v \in Nat /\ u = v + m * b + m
    BY <1>1, <1>3, <2>1
  <2>3. v < (NP - m) * b
    <3>1. (NP - m) * b = NP * b - m * b /\ NP * b \in Nat
      BY <1>1
    <3> HIDE DEF v
    <3> QED BY <1>1, <2>1, <2>2, <3>1
  <2> HIDE DEF v
  <2>4. b \in Nat \ {0}
    BY <1>1, <2>2, <2>3
  <2>5. v \div b \in Nat /\ v % b \in 0 .. b - 1 /\ v = b * (v \div b) + (v % b)
    BY <2>2, <2>4, Quotient
  <2>6. v \div b < NP - m
    BY <1>1, <2>2, <2>3, <2>4, QuotientBelow
  <2>7. rank \in 0 .. NP - 1 /\ ~ (rank < m)
    BY <1>1, <2>5, <2>6
  <2>8. rank * b = m * b + b * (v \div b)
    BY <1>1, <2>5
  <2> HIDE DEF rank
  <2>9. rank * b + m <= u /\ u < rank * b + m + b
    BY <1>1, <2>1, <2>2, <2>5, <2>8
  <2> QED BY <1>0, <2>7, <2>9
<1> QED BY <1>2, <1>3

-----------------------------------------------------------------------------
(***************************************************************************)
(* In bytes: what IMB_get_rank_portion returns.                            *)
(***************************************************************************)
LEMMA Pos1Units ==
  ASSUME NEW NP \in Nat \ {0}, NEW size \in Nat, NEW unit \in Nat \ {0},
         NEW rank \in 0 .. NP - 1
  PROVE  LET ne == Ceiling(size, unit)
         IN  /\ Pos1(rank, NP, size, unit) = First(rank, NP, ne) * unit
             /\ Pos2(rank, NP, size, unit) =
                  Least((First(rank, NP, ne) + Count(rank, NP, ne)) * unit - 1, size - 1)
<1> DEFINE ne == Ceiling(size, unit)
<1>1. ne \in Nat
  BY CeilingAbove
<1>2. First(rank, NP, ne) \in Nat /\ Count(rank, NP, ne) \in Nat
  BY <1>1, FirstFacts
<1>3. Pos1(rank, NP, size, unit) = First(rank, NP, ne) * unit
  BY DEF Pos1, First
<1>4. Pos2(rank, NP, size, unit) =
        Least(Pos1(rank, NP, size, unit) - 1 + Count(rank, NP, ne) * unit, size - 1)
  BY DEF Pos2, Count
<1> HIDE DEF ne
<1>5. First(rank, NP, ne) * unit - 1 + Count(rank, NP, ne) * unit
        = (First(rank, NP, ne) + Count(rank, NP, ne)) * unit - 1
  BY <1>2
<1> QED BY <1>3, <1>4, <1>5 DEF ne

LEMMA ByteInUnits ==
  ASSUME NEW i \in Nat, NEW unit \in Nat \ {0}, NEW a \in Nat, NEW b \in Nat
  PROVE  (a * unit <= i /\ i < b * unit) <=> (a <= i \div unit /\ i \div unit < b)
<1> DEFINE u == i \div unit
<1>1. u \in Nat /\ i % unit \in 0 .. unit - 1 /\ i = unit * u + (i % unit)
  BY Quotient
<1> HIDE DEF u
<1>2. a * unit <= i <=> a <= u
  <2>1. ASSUME a <= u PROVE a * unit <= i
    <3>1. a * unit <= u * unit
      BY <1>1, <2>1
    <3> QED BY <1>1, <3>1
  <2>2. ASSUME u + 1 <= a PROVE i < a * unit
    <3>1. (u + 1) * unit <= a * unit
      BY <1>1, <2>2
    <3>2. (u + 1) * unit = unit * u + unit
      BY <1>1
    <3> QED BY <1>1, <3>1, <3>2
  <2> QED BY <1>1, <2>1, <2>2
<1>3. i < b * unit <=> u < b
  <2>1. ASSUME u + 1 <= b PROVE i < b * unit
    <3>1. (u + 1) * unit <= b * unit
      BY <1>1, <2>1
    <3>2. (u + 1) * unit = unit * u + unit
      BY <1>1
    <3> QED BY <1>1, <3>1, <3>2
  <2>2. ASSUME b <= u PROVE b * unit <= i
    <3>1. b * unit <= u * unit
      BY <1>1, <2>2
    <3> QED BY <1>1, <3>1
  <2> QED BY <1>1, <2>1, <2>2
<1> QED BY <1>2, <1>3 DEF u

LEMMA InPortion ==
  ASSUME NEW NP \in Nat \ {0}, NEW size \in Nat, NEW unit \in Nat \ {0},
         NEW rank \in 0 .. NP - 1, NEW i \in 0 .. size - 1
  PROVE  LET ne == Ceiling(size, unit)
         IN  Pos1(rank, NP, size, unit) <= i /\ i <= Pos2(rank, NP, size, unit)
               <=> /\ First(rank, NP, ne) <= i \div unit
                   /\ i \div unit < First(rank, NP, ne) + Count(rank, NP, ne)
<1> DEFINE ne == Ceiling(size, unit)
           a == First(rank, NP, ne)
           b == First(rank, NP, ne) + Count(rank, NP, ne)
<1>1. ne \in Nat
  BY CeilingAbove
<1>2. a \in Nat /\ b \in Nat
  <2> HIDE DEF ne
  <2> QED BY <1>1, FirstFacts
<1>3. /\ Pos1(rank, NP, size, unit) = a * unit
      /\ Pos2(rank, NP, size, unit) = Least(b * unit - 1, size - 1)
  BY Pos1Units
<1> HIDE DEF a, b
<1>4. (a * unit <= i /\ i < b * unit) <=> (a <= i \div unit /\ i \div unit < b)
  BY <1>2, ByteInUnits
<1>5. i <= Least(b * unit - 1, size - 1) <=> i < b * unit
  <2>1. b * unit \in Nat
    BY <1>2
  <2> QED BY <2>1 DEF Least
<1> QED BY <1>3, <1>4, <1>5 DEF a, b

(***************************************************************************)
(* The portions that IMB_get_rank_portion makes of a message tile it: each *)
(* byte is in that of one rank and no other, whatever the length, the unit *)
(* and the number of ranks.  The views and offsets of the file kernels and *)
(* the checks of gathered results count on it.                             *)
(***************************************************************************)
THEOREM PortionsTile ==
  ASSUME NEW NP \in Nat \ {0}, NEW size \in Nat, NEW unit \in Nat \ {0},
         NEW i \in 0 .. size - 1
  PROVE  \E rank \in 0 .. NP - 1 :
           /\ Pos1(rank, NP, size, unit) <= i /\ i <= Pos2(rank, NP, size, unit)
           /\ \A q \in 0 .. NP - 1 :
                Pos1(q, NP, size, unit) <= i /\ i <= Pos2(q, NP, size, unit) => q = rank
<1> DEFINE ne == Ceiling(size, unit)
           u == i \div unit
           In(rank) == First(rank, NP, ne) <= u /\ u < First(rank, NP, ne) + Count(rank, NP, ne)
<1>1. ne \in Nat /\ size <= ne * unit
  BY CeilingAbove
<1>2. u \in 0 .. ne - 1
  <2>1. i < ne * unit
    BY <1>1
  <2>2. i \in Nat
    OBVIOUS
  <2> HIDE DEF ne
  <2>3. i \div unit \in Nat /\ i \div unit < ne
    BY <1>1, <2>1, <2>2, Quotient, QuotientBelow
  <2> QED BY <1>1, <2>3
<1>3. \A rank \in 0 .. NP - 1 :
        Pos1(rank, NP, size, unit) <= i /\ i <= Pos2(rank, NP, size, unit) <=> In(rank)
  BY InPortion
<1> HIDE DEF ne, u
<1>4. PICK rank \in 0 .. NP - 1 : In(rank)
  BY <1>1, <1>2, UnitInPortion
<1>5. ASSUME NEW q \in 0 .. NP - 1, In(q)
      PROVE  q = rank
  <2>1. /\ First(q, NP, ne) \in Nat /\ Count(q, NP, ne) \in Nat
        /\ First(rank, NP, ne) \in Nat /\ Count(rank, NP, ne) \in Nat
    BY <1>1, FirstFacts
  <2>2. u \in Int
    BY <1>1, <1>2
  <2>3. CASE q < rank
    BY <1>1, <1>4, <1>5, <2>1, <2>2, <2>3, FirstMonotone
  <2>4. CASE rank < q
    BY <1>1, <1>4, <1>5, <2>1, <2>2, <2>4, FirstMonotone
  <2> QED BY <2>3, <2>4
<1> QED BY <1>3, <1>4, <1>5

-----------------------------------------------------------------------------
(***************************************************************************)
(* The places of messages of len bytes.  S and R are the place of the i-th *)
(* in the send and in the receive buffer.                                  *)
(***************************************************************************)
PlaceOf(x, len, i) == (i % Cache_iter(x, len)) * Offs(x, len)
Room(x, len) == Most(len, Cache_iter(x, len) * Offs(x, len))

LEMMA LengthNat ==
  ASSUME NEW x, CallAssumption(x)
  PROVE  S_len(x) \in Nat /\ R_len(x) \in Nat
<1>1. Most(x.size, asize) \in Nat /\ x.np * Most(x.size, asize) \in Nat
  BY DEF CallAssumption, Most, asize
<1>2. ASSUME NEW flag \in Sendbuf \cup Recvbuf
      PROVE  descr2len(flag, Most(x.size, asize), x.np) \in Nat
  BY <1>1 DEF descr2len, Sendbuf, Recvbuf
<1>3. The(Sendbuf, x.flags) \in Sendbuf /\ The(Recvbuf, x.flags) \in Recvbuf
  BY DEF CallAssumption, The
<1> QED BY <1>2, <1>3 DEF S_len, R_len

LEMMA OffsFacts ==
  ASSUME NEW x, CallAssumption(x), use_off_cache(x), NEW len \in Nat
  PROVE  /\ Offs(x, len) \in Nat /\ Cache_iter(x, len) \in Nat \ {0}
         /\ len + x.line <= Offs(x, len)
<1>1. x.n \in Nat \ {0} /\ x.cache \in Nat \ {0} /\ x.line \in Nat \ {0}
  BY DEF CallAssumption, use_off_cache
<1>2. Ceiling(len, x.line) \in Nat /\ len <= Ceiling(len, x.line) * x.line
  BY <1>1, CeilingAbove
<1>3. Offs(x, len) = (Ceiling(len, x.line) + 1) * x.line
  BY DEF Offs
<1>4. Offs(x, len) = Ceiling(len, x.line) * x.line + x.line
  BY <1>1, <1>2, <1>3
<1>5. Ceiling(len, x.line) * x.line \in Nat
  BY <1>1, <1>2
<1>6. Offs(x, len) \in Nat \ {0} /\ len + x.line <= Offs(x, len)
  BY <1>1, <1>2, <1>4, <1>5
<1>7. Ceiling(2 * x.cache, Offs(x, len)) \in Nat \ {0}
  <2> DEFINE a == 2 * x.cache
             b == Offs(x, len)
  <2>1. a \in Nat /\ a > 0 /\ b \in Nat \ {0}
    BY <1>1, <1>6
  <2> HIDE DEF a, b
  <2>2. Ceiling(a, b) \in Nat \ {0}
    BY <2>1, CeilingAbove
  <2> QED BY <2>2 DEF a, b
<1>8. Cache_iter(x, len) = Least(x.n, Ceiling(2 * x.cache, Offs(x, len)))
  BY DEF Cache_iter
<1> QED BY <1>1, <1>6, <1>7, <1>8 DEF Least

LEMMA PlaceInside ==
  ASSUME NEW x, CallAssumption(x), NEW len \in Nat, NEW i \in Nat
  PROVE  PlaceOf(x, len, i) \in Nat /\ PlaceOf(x, len, i) + len <= Room(x, len)
<1>1. CASE ~ use_off_cache(x)
  <2>1. Offs(x, len) = 0 /\ Cache_iter(x, len) = 1
    BY <1>1 DEF Offs, Cache_iter
  <2>2. i % 1 \in Nat
    OBVIOUS
  <2>3. PlaceOf(x, len, i) = 0 /\ Room(x, len) = len
    BY <2>1, <2>2 DEF PlaceOf, Room, Most
  <2> QED BY <2>3
<1>2. CASE use_off_cache(x)
  <2> DEFINE o == Offs(x, len)
             n == Cache_iter(x, len)
  <2>1. o \in Nat /\ n \in Nat \ {0} /\ len <= o
    BY <1>2, OffsFacts DEF CallAssumption
  <2>2. PlaceOf(x, len, i) = (i % n) * o /\ Room(x, len) = Most(len, n * o)
    BY DEF PlaceOf, Room
  <2> HIDE DEF o, n
  <2>3. i % n \in 0 .. n - 1
    BY <2>1
  <2>4. (i % n) * o + o <= n * o
    <3>1. ((i % n) + 1) * o <= n * o
      BY <2>1, <2>3
    <3> QED BY <2>1, <2>3, <3>1
  <2>5. (i % n) * o \in Nat /\ n * o \in Nat
    BY <2>1, <2>3
  <2> QED BY <2>1, <2>2, <2>4, <2>5 DEF Most
<1> QED BY <1>1, <1>2

LEMMA PlacesApart ==
  ASSUME NEW x, CallAssumption(x), use_off_cache(x), NEW len \in Nat,
         NEW i \in Nat, NEW j \in Nat, PlaceOf(x, len, i) < PlaceOf(x, len, j)
  PROVE  PlaceOf(x, len, i) + len + x.line <= PlaceOf(x, len, j)
<1> DEFINE o == Offs(x, len)
           n == Cache_iter(x, len)
<1>1. o \in Nat /\ n \in Nat \ {0} /\ x.line \in Nat /\ len + x.line <= o
  BY OffsFacts DEF CallAssumption
<1>2. PlaceOf(x, len, i) = (i % n) * o /\ PlaceOf(x, len, j) = (j % n) * o
  BY DEF PlaceOf
<1> HIDE DEF o, n
<1>3. i % n \in Nat /\ j % n \in Nat
  BY <1>1
<1>4. i % n < j % n
  <2>1. SUFFICES ASSUME j % n <= i % n PROVE FALSE
    BY <1>3
  <2>2. (j % n) * o <= (i % n) * o
    BY <1>1, <1>3, <2>1
  <2>3. (j % n) * o \in Nat /\ (i % n) * o \in Nat
    BY <1>1, <1>3
  <2> QED BY <1>2, <2>2, <2>3
<1>5. (i % n) * o + o <= (j % n) * o
  <2>1. ((i % n) + 1) * o <= (j % n) * o
    BY <1>1, <1>3, <1>4
  <2> QED BY <1>1, <1>3, <2>1
<1>6. (i % n) * o \in Nat /\ (j % n) * o \in Nat
  BY <1>1, <1>3
<1> QED BY <1>1, <1>2, <1>5, <1>6

(***************************************************************************)
(* Wherever -off_cache puts a message, it is inside of the buffer that has *)
(* been allocated, for every number of repetitions and all sizes of cache, *)
(* line and message.                                                       *)
(***************************************************************************)
THEOREM MessagesInside ==
  ASSUME NEW x, CallAssumption(x), NEW i \in Nat
  PROVE  /\ S(x, i) \in Nat /\ S(x, i) + S_len(x) <= S_alloc(x)
         /\ R(x, i) \in Nat /\ R(x, i) + R_len(x) <= R_alloc(x)
<1>1. S_len(x) \in Nat /\ R_len(x) \in Nat
  BY LengthNat
<1>2. /\ S(x, i) = PlaceOf(x, S_len(x), i) /\ S_alloc(x) = Room(x, S_len(x))
      /\ R(x, i) = PlaceOf(x, R_len(x), i) /\ R_alloc(x) = Room(x, R_len(x))
  BY DEF S, R, S_alloc, R_alloc, PlaceOf, Room
<1> QED BY <1>1, <1>2, PlaceInside

(***************************************************************************)
(* And it shares no cache line with another message: between the two is    *)
(* at least one line.                                                      *)
(***************************************************************************)
THEOREM MessagesApart ==
  ASSUME NEW x, CallAssumption(x), use_off_cache(x), NEW i \in Nat, NEW j \in Nat
  PROVE  /\ S(x, i) < S(x, j) => S(x, i) + S_len(x) + x.line <= S(x, j)
         /\ R(x, i) < R(x, j) => R(x, i) + R_len(x) + x.line <= R(x, j)
<1>1. S_len(x) \in Nat /\ R_len(x) \in Nat
  BY LengthNat
<1>2. /\ S(x, i) = PlaceOf(x, S_len(x), i) /\ S(x, j) = PlaceOf(x, S_len(x), j)
      /\ R(x, i) = PlaceOf(x, R_len(x), i) /\ R(x, j) = PlaceOf(x, R_len(x), j)
  BY DEF S, R, PlaceOf
<1> QED BY <1>1, <1>2, PlacesApart

-----------------------------------------------------------------------------
(***************************************************************************)
(* The states of a rank: there is one function that States is defined      *)
(* with.                                                                   *)
(***************************************************************************)
Grows(x, r, f, n) ==
  f = [k \in 1 .. n |-> IF k = 1 THEN Fresh(x) ELSE After(x, r, x.prog[r][k - 1], f[k - 1])]

LEMMA GrowsExists ==
  ASSUME NEW x, NEW r, NEW n \in Nat
  PROVE  \E f : Grows(x, r, f, n)
<1> DEFINE N == {m \in Nat : \E f : Grows(x, r, f, m)}
<1>1. 0 \in N
  <2>1. Grows(x, r, <<>>, 0)
    BY DEF Grows
  <2> QED BY <2>1
<1>2. ASSUME NEW m \in Nat, m \in N PROVE m + 1 \in N
  <2>1. PICK f : Grows(x, r, f, m)
    BY <1>2
  <2> DEFINE Value(i, h) == IF i = 1 THEN Fresh(x) ELSE After(x, r, x.prog[r][i - 1], h[i - 1])
             g == [i \in 1 .. m + 1 |-> IF i = m + 1 THEN Value(i, f) ELSE f[i]]
  <2>2. ASSUME NEW i \in 1 .. m + 1 PROVE g[i] = Value(i, g)
    <3>1. i = 1 \/ (i - 1 \in 1 .. m + 1 /\ i - 1 # m + 1)
      OBVIOUS
    <3>2. i = 1 \/ g[i - 1] = f[i - 1]
      BY <3>1
    <3>3. CASE i = m + 1
      BY <3>2, <3>3
    <3>4. CASE i # m + 1
      <4>1. i \in 1 .. m
        BY <3>4
      <4>2. f[i] = Value(i, f)
        BY <2>1, <4>1 DEF Grows
      <4> QED BY <3>2, <3>4, <4>2
    <3> QED BY <3>3, <3>4
  <2>3. Grows(x, r, g, m + 1)
    <3>1. g = [i \in 1 .. m + 1 |-> g[i]]
      OBVIOUS
    <3> HIDE DEF g
    <3> QED BY <2>2, <3>1 DEF Grows
  <2> HIDE DEF g
  <2> QED BY <2>3
<1> HIDE DEF N
<1>3. Nat \subseteq N
  BY <1>1, <1>2, Induction
<1> QED BY <1>3 DEF N

LEMMA StatesAre ==
  ASSUME NEW x, NEW r, Len(x.prog[r]) \in Nat
  PROVE  /\ States(x, r)[1] = Fresh(x)
         /\ \A k \in 1 .. Len(x.prog[r]) :
              States(x, r)[k + 1] = After(x, r, x.prog[r][k], States(x, r)[k])
<1> DEFINE n == Len(x.prog[r])
           s == CHOOSE f : Grows(x, r, f, n + 1)
<1>1. States(x, r) = s
  BY DEF States, Grows
<1>3. n \in Nat
  OBVIOUS
<1>2. Grows(x, r, s, n + 1)
  <2>1. n + 1 \in Nat
    BY <1>3
  <2> HIDE DEF n
  <2>2. \E f : Grows(x, r, f, n + 1)
    BY <2>1, GrowsExists
  <2> QED BY <2>2
<1> HIDE DEF s, n
<1>4. s[1] = Fresh(x)
  BY <1>2, <1>3 DEF Grows
<1>5. ASSUME NEW k \in 1 .. n PROVE s[k + 1] = After(x, r, x.prog[r][k], s[k])
  <2>1. k + 1 \in 1 .. n + 1 /\ k + 1 # 1 /\ (k + 1) - 1 = k
    BY <1>3
  <2>2. s[k + 1] = After(x, r, x.prog[r][(k + 1) - 1], s[(k + 1) - 1])
    BY <1>2, <2>1 DEF Grows
  <2> QED BY <2>1, <2>2
<1> QED BY <1>1, <1>4, <1>5 DEF n

(***************************************************************************)
(* What they consist of.                                                   *)
(***************************************************************************)
Requests == {"null", "inactive", "active"}

StateSet(x) ==
  [begun : Nat, req : Requests, window : BOOLEAN, locks : SUBSET Ranks(x), fenced : BOOLEAN,
   used : BOOLEAN, reps : BOOLEAN, open : BOOLEAN, no : 0 .. MaxOpen, reading : BOOLEAN,
   heard : [Ranks(x) -> Nat], sent : [Ranks(x) -> Nat], got : [Ranks(x) -> Nat]]

LEMMA FreshTyped ==
  ASSUME NEW x
  PROVE  Fresh(x) \in StateSet(x)
BY DEF Fresh, StateSet, Requests, MaxOpen

(***************************************************************************)
(* What changes a state.                                                   *)
(***************************************************************************)
Changing ==
  {"start", "init", "begin", "wait", "call", "return", "free", "exploit", "fence", "fenced",
   "window", "lock", "unlock", "send", "recv", "opened", "closed", "read", "read_wait"} \cup Access

LEMMA AfterTyped ==
  ASSUME NEW x, NEW r, NEW op, NEW s \in StateSet(x), WellFormed(x, r, s, op)
  PROVE  After(x, r, op, s) \in StateSet(x)
<1> DEFINE last == x.colls[r][s.begun]
           all == IF last.precede THEN Ranks(x) ELSE {}
           New(before, after) == IF s.req = before THEN after ELSE s.req
           t == After(x, r, op, s)
<1> HIDE DEF t
<1> SUFFICES t \in StateSet(x)
  BY DEF t
<1>1. CASE op.do = "start"
  <2>1. New("null", "active") \in Requests
    BY DEF StateSet, Requests
  <2>2. PICK v \in Requests : t = [s EXCEPT !.begun = @ + 1, !.req = v]
    BY <1>1, <2>1 DEF After, t, Access
  <2>3. s.begun + 1 \in Nat
    BY DEF StateSet
  <2> QED BY <2>2, <2>3 DEF StateSet
<1>2. CASE op.do = "init"
  <2>1. New("null", "inactive") \in Requests
    BY DEF StateSet, Requests
  <2>2. PICK v \in Requests : t = [s EXCEPT !.begun = @ + 1, !.req = v]
    BY <1>2, <2>1 DEF After, t, Access
  <2>3. s.begun + 1 \in Nat
    BY DEF StateSet
  <2> QED BY <2>2, <2>3 DEF StateSet
<1>3. CASE op.do = "begin"
  <2>1. New("inactive", "active") \in Requests
    BY DEF StateSet, Requests
  <2>2. PICK v \in Requests : t = [s EXCEPT !.begun = @ + 1, !.req = v]
    BY <1>3, <2>1 DEF After, t, Access
  <2>3. s.begun + 1 \in Nat
    BY DEF StateSet
  <2> QED BY <2>2, <2>3 DEF StateSet
<1>4. CASE op.do = "wait"
  <2>1. t = [s EXCEPT !.req = IF last.do = "begin" THEN "inactive" ELSE "null",
                       !.heard = Hears(x, s, Sources(last))]
    BY <1>4 DEF After, t, Access
  <2>2. Hears(x, s, Sources(last)) \in [Ranks(x) -> Nat]
    BY DEF Hears, StateSet
  <2> HIDE DEF last, all
  <2> QED BY <2>1, <2>2 DEF StateSet, Requests
<1>5. CASE op.do = "free"
  <2>1. t = [s EXCEPT !.req = "null"]
    BY <1>5 DEF After, t, Access
  <2> QED BY <2>1 DEF StateSet, Requests
<1>6. CASE op.do = "exploit"
  <2>1. t = [s EXCEPT !.reps = @ \/ op.initialize = 1]
    BY <1>6 DEF After, t, Access
  <2>2. (s.reps \/ op.initialize = 1) \in BOOLEAN
    OBVIOUS
  <2> QED BY <2>1, <2>2 DEF StateSet
<1>7. CASE op.do \in Access
  <2>1. t = [s EXCEPT !.used = TRUE]
    BY <1>7 DEF After, t, Access
  <2> QED BY <2>1 DEF StateSet
<1>8. CASE op.do = "fence"
  <2>1. t = [s EXCEPT !.begun = @ + 1]
    BY <1>8 DEF After, t, Access
  <2> QED BY <2>1 DEF StateSet
<1>9. CASE op.do = "fenced"
  <2>1. t = [s EXCEPT !.fenced = op.succeed, !.used = FALSE, !.heard = Hears(x, s, all)]
    BY <1>9 DEF After, t, Access
  <2>2. op.succeed \in BOOLEAN
    BY <1>9 DEF WellFormed
  <2>3. Hears(x, s, all) \in [Ranks(x) -> Nat]
    BY DEF Hears, StateSet
  <2> HIDE DEF last, all
  <2> QED BY <2>1, <2>2, <2>3 DEF StateSet
<1>10. CASE op.do = "window"
  <2>1. t = [s EXCEPT !.window = op.open, !.fenced = FALSE]
    BY <1>10 DEF After, t, Access
  <2>2. op.open \in BOOLEAN
    BY <1>10 DEF WellFormed
  <2> QED BY <2>1, <2>2 DEF StateSet
<1>11. CASE op.do = "lock"
  <2>1. t = [s EXCEPT !.locks = @ \cup op.targets]
    BY <1>11 DEF After, t, Access
  <2>2. op.targets \subseteq Ranks(x)
    BY <1>11 DEF WellFormed
  <2> QED BY <2>1, <2>2 DEF StateSet
<1>12. CASE op.do = "unlock"
  <2>1. t = [s EXCEPT !.locks = @ \ op.targets]
    BY <1>12 DEF After, t, Access
  <2> QED BY <2>1 DEF StateSet
<1>13. CASE op.do = "send"
  <2>1. t = [s EXCEPT !.sent[op.peer] = @ + 1]
    BY <1>13 DEF After, t, Access
  <2>2. op.peer \in Ranks(x)
    BY <1>13 DEF WellFormed
  <2> QED BY <2>1, <2>2 DEF StateSet
<1>14. CASE op.do = "recv"
  <2>1. t = [s EXCEPT !.got[op.peer] = @ + 1]
    BY <1>14 DEF After, t, Access
  <2>2. op.peer \in Ranks(x)
    BY <1>14 DEF WellFormed
  <2> QED BY <2>1, <2>2 DEF StateSet
<1>15. CASE op.do = "opened"
  <2>1. t = [s EXCEPT !.open = TRUE, !.no = @ + 1]
    BY <1>15 DEF After, t, Access
  <2>2. s.no + 1 \in 0 .. MaxOpen
    BY <1>15 DEF WellFormed, StateSet, MaxOpen
  <2> QED BY <2>1, <2>2 DEF StateSet
<1>16. CASE op.do = "closed"
  <2>1. t = [s EXCEPT !.open = FALSE]
    BY <1>16 DEF After, t, Access
  <2> QED BY <2>1 DEF StateSet
<1>17. CASE op.do = "read"
  <2>1. t = [s EXCEPT !.reading = TRUE]
    BY <1>17 DEF After, t, Access
  <2> QED BY <2>1 DEF StateSet
<1>18. CASE op.do = "read_wait"
  <2>1. t = [s EXCEPT !.reading = FALSE]
    BY <1>18 DEF After, t, Access
  <2> QED BY <2>1 DEF StateSet
<1>19. CASE op.do = "call"
  <2>1. t = [s EXCEPT !.begun = @ + 1]
    BY <1>19 DEF After, t, Access
  <2> QED BY <2>1 DEF StateSet
<1>20. CASE op.do = "return"
  <2>1. t = [s EXCEPT !.heard = Hears(x, s, Sources(last))]
    BY <1>20 DEF After, t, Access
  <2>2. Hears(x, s, Sources(last)) \in [Ranks(x) -> Nat]
    BY DEF Hears, StateSet
  <2> HIDE DEF last, all
  <2> QED BY <2>1, <2>2 DEF StateSet
<1>21. CASE op.do \notin Changing
  <2>1. t = s
    BY <1>21 DEF After, t, Changing
  <2> QED BY <2>1 DEF StateSet
<1> QED BY <1>1, <1>2, <1>3, <1>4, <1>5, <1>6, <1>7, <1>8, <1>9, <1>10,
           <1>11, <1>12, <1>13, <1>14, <1>15, <1>16, <1>17, <1>18, <1>19, <1>20, <1>21
      DEF Changing, t

(***************************************************************************)
(* The states of a sound call's ranks are typed, and count no more         *)
(* collective operations than there are.                                   *)
(***************************************************************************)
LEMMA StatesTyped ==
  ASSUME NEW x, NEW r, OnlyAllowed(x, r), NEW k \in 1 .. Len(x.prog[r]) + 1
  PROVE  States(x, r)[k] \in StateSet(x) /\ States(x, r)[k].begun <= Len(x.colls[r])
<1> DEFINE n == Len(x.prog[r])
           m == Len(x.colls[r])
           s == States(x, r)
           Good(i) == s[i] \in StateSet(x) /\ s[i].begun <= m
           N == {i \in Nat : i <= n => Good(i + 1)}
<1>1. n \in Nat /\ m \in Nat
  BY DEF OnlyAllowed
<1>2. s[1] = Fresh(x) /\ \A i \in 1 .. n : s[i + 1] = After(x, r, x.prog[r][i], s[i])
  BY <1>1, StatesAre
<1>3. \A i \in 1 .. n : WellFormed(x, r, s[i], x.prog[r][i])
  BY DEF OnlyAllowed
<1> HIDE DEF n, m, s
<1>4. 0 \in N
  <2>1. Fresh(x).begun = 0
    BY DEF Fresh
  <2> QED BY <1>1, <1>2, <2>1, FreshTyped
<1>5. ASSUME NEW i \in Nat, i \in N PROVE i + 1 \in N
  <2> SUFFICES ASSUME i + 1 <= n PROVE Good((i + 1) + 1)
    OBVIOUS
  <2> DEFINE j == i + 1
             op == x.prog[r][j]
  <2>1. j \in 1 .. n /\ Good(j)
    BY <1>1, <1>5
  <2>2. s[j + 1] = After(x, r, op, s[j]) /\ WellFormed(x, r, s[j], op)
    BY <1>2, <1>3, <2>1
  <2> HIDE DEF j
  <2>3. s[j + 1] \in StateSet(x)
    BY <2>1, <2>2, AfterTyped
  <2>4. s[j + 1].begun <= m
    <3>1. CASE op.do \in {"start", "init", "begin", "call", "fence"}
      <4>1. s[j].begun < m
        BY <2>2, <3>1 DEF WellFormed, m
      <4>2. After(x, r, op, s[j]).begun = s[j].begun + 1
        BY <2>1, <3>1, Zenon DEF After, Access, StateSet
      <4> QED BY <1>1, <2>1, <2>2, <4>1, <4>2 DEF StateSet
    <3>2. CASE op.do \notin {"start", "init", "begin", "call", "fence"}
      <4>1. After(x, r, op, s[j]).begun = s[j].begun
        BY <2>1, <3>2 DEF After, StateSet
      <4> QED BY <2>1, <2>2, <4>1
    <3> QED BY <3>1, <3>2
  <2> QED BY <2>3, <2>4 DEF j
<1> HIDE DEF N
<1>6. Nat \subseteq N
  BY <1>4, <1>5, Induction
<1>7. k - 1 \in Nat /\ k - 1 <= n /\ (k - 1) + 1 = k
  BY <1>1 DEF n
<1>8. Good((k - 1) + 1)
  <2>1. k - 1 \in N
    BY <1>6, <1>7
  <2> QED BY <1>7, <2>1 DEF N
<1> QED BY <1>7, <1>8 DEF s, m

-----------------------------------------------------------------------------
(***************************************************************************)
(* The inductive invariant: ranks have what their states say.              *)
(***************************************************************************)
AtOne == pc = [r \in Procs |-> pc[r]] /\ \A r \in Procs : pc[r] \in 1 .. Len(c.prog[r]) + 1

UInv == Sound(c) /\ AtOne /\ IInv

LEMMA NowTyped ==
  ASSUME UInv, NEW r \in Procs
  PROVE  /\ OnlyAllowed(c, r) /\ Len(c.prog[r]) \in Nat /\ Len(c.colls[r]) \in Nat
         /\ pc[r] \in 1 .. Len(c.prog[r]) + 1
         /\ Now(r) \in StateSet(c) /\ Now(r).begun <= Len(c.colls[r])
<1>1. OnlyAllowed(c, r)
  BY DEF UInv, Sound, Procs
<1>2. Len(c.prog[r]) \in Nat /\ Len(c.colls[r]) \in Nat
  BY <1>1 DEF OnlyAllowed
<1>3. pc[r] \in 1 .. Len(c.prog[r]) + 1
  BY DEF UInv, AtOne
<1> QED BY <1>1, <1>2, <1>3, StatesTyped DEF Now

LEMMA OpAllowed ==
  ASSUME UInv, NEW r \in Procs, ~ Finished(r)
  PROVE  /\ pc[r] \in 1 .. Len(c.prog[r])
         /\ AllowedAt(c, Now(r), Op(r)) /\ WellFormed(c, r, Now(r), Op(r))
         /\ Op(r).do = "delete" => DeletesClosed(c, r, pc[r])
<1>1. pc[r] \in 1 .. Len(c.prog[r])
  BY NowTyped DEF Finished
<1> QED BY <1>1, NowTyped DEF OnlyAllowed, Now, Op

(***************************************************************************)
(* The state after a step of r.                                            *)
(***************************************************************************)
Next1(r) == After(c, r, Op(r), Now(r))

LEMMA Moves ==
  ASSUME UInv, NEW r \in Procs, ~ Finished(r), Advance(r)
  PROVE  /\ c' = c /\ Procs' = Procs
         /\ AtOne'
         /\ \A q \in Procs : (Now(q))' = IF q = r THEN Next1(r) ELSE Now(q)
         /\ Next1(r) \in StateSet(c)
<1>1. c' = c /\ Procs' = Procs
  BY DEF Advance, Procs
<1>2. pc[r] \in 1 .. Len(c.prog[r]) /\ Len(c.prog[r]) \in Nat /\ Now(r) \in StateSet(c)
      /\ WellFormed(c, r, Now(r), Op(r))
  BY NowTyped, OpAllowed
<1>3. pc' = [pc EXCEPT ![r] = @ + 1] /\ pc = [q \in Procs |-> pc[q]]
  BY DEF Advance, UInv, AtOne
<1>4. \A q \in Procs : pc'[q] = IF q = r THEN pc[q] + 1 ELSE pc[q]
  BY <1>3
<1>5. AtOne'
  <2>1. pc' = [q \in Procs |-> pc'[q]]
    BY <1>3
  <2>2. ASSUME NEW q \in Procs PROVE pc'[q] \in 1 .. Len(c.prog[q]) + 1
    BY <1>2, <1>4, NowTyped
  <2> QED BY <1>1, <2>1, <2>2 DEF AtOne
<1>6. States(c, r)[pc[r] + 1] = After(c, r, c.prog[r][pc[r]], States(c, r)[pc[r]])
  BY <1>2, StatesAre
<1>7. ASSUME NEW q \in Procs PROVE (Now(q))' = IF q = r THEN Next1(r) ELSE Now(q)
  <2>1. (Now(q))' = States(c, q)[pc'[q]]
    BY <1>1 DEF Now
  <2> QED BY <1>4, <1>6, <2>1 DEF Next1, Now, Op
<1>8. Next1(r) \in StateSet(c)
  BY <1>2, AfterTyped DEF Next1
<1> QED BY <1>1, <1>5, <1>7, <1>8

(***************************************************************************)
(* What the variables change to when r comes to state t.                   *)
(***************************************************************************)
BegunAs(r, t) == begun' = [q \in Procs |-> IF q = r THEN t.begun ELSE begun[q]]

ReqAs(r, t) == req' = [q \in Procs |-> IF q = r THEN t.req ELSE req[q]]

EpochAs(r, t) ==
  /\ epoch' \in [Procs -> EpochSet]
  /\ \A q \in Procs \ {r} : epoch'[q] = epoch[q]
  /\ epoch'[r].window = t.window /\ epoch'[r].locks = t.locks
  /\ epoch'[r].fenced = t.fenced /\ epoch'[r].used = t.used

RepsAs(r, t) == reps' = [q \in Procs |-> IF q = r THEN t.reps ELSE reps[q]]

MailAs(r, t) ==
  mail' = [p \in Procs |-> [q \in Procs |->
             (IF p = r THEN t ELSE Now(p)).sent[q] - (IF q = r THEN t ELSE Now(q)).got[p]]]

HandleAs(r, t) ==
  /\ handle' \in [Procs -> HandleSet]
  /\ \A q \in Procs : /\ handle'[q].open = IF q = r THEN t.open ELSE handle[q].open
                      /\ handle'[q].no = IF q = r THEN t.no ELSE handle[q].no

HeardAs(r, t) ==
  /\ Now(r).begun <= t.begun
  /\ \A p \in Procs : t.heard[p] <= Now(r).heard[p] \/ t.heard[p] <= begun[p]

ReadAs(r, t) ==
  \A q \in Procs : (Waiting(q, "read"))' # {} =>
    IF q = r THEN t.reading ELSE Waiting(q, "read") # {}

LEMMA StepKeeps ==
  ASSUME UInv, NEW r \in Procs, ~ Finished(r), Advance(r), NEW t, t = Next1(r),
         BegunAs(r, t), ReqAs(r, t), EpochAs(r, t), RepsAs(r, t), MailAs(r, t), HandleAs(r, t),
         HeardAs(r, t), ReadAs(r, t)
  PROVE  UInv'
<1>1. /\ c' = c /\ Procs' = Procs /\ AtOne' /\ t \in StateSet(c)
      /\ \A q \in Procs : (Now(q))' = IF q = r THEN t ELSE Now(q)
  BY Moves
<1>2. Sound(c)'
  BY <1>1 DEF UInv
<1>3. HoldsNow /\ Heard
  BY DEF UInv, IInv
<1>4. begun' = [q \in Procs |-> (Now(q))'.begun]
  BY <1>1, <1>3 DEF HoldsNow, BegunAs
<1>5. req' = [q \in Procs |-> (Now(q))'.req]
  BY <1>1, <1>3 DEF HoldsNow, ReqAs
<1>6. /\ epoch' \in [Procs -> EpochSet]
      /\ \A q \in Procs : /\ epoch'[q].window = (Now(q))'.window
                          /\ epoch'[q].locks = (Now(q))'.locks
                          /\ epoch'[q].fenced = (Now(q))'.fenced
                          /\ epoch'[q].used = (Now(q))'.used
  BY <1>1, <1>3 DEF HoldsNow, EpochAs
<1>7. reps' = [q \in Procs |-> (Now(q))'.reps]
  BY <1>1, <1>3 DEF HoldsNow, RepsAs
<1>8. mail' = [p \in Procs |-> [q \in Procs |-> (Now(p))'.sent[q] - (Now(q))'.got[p]]]
  BY <1>1 DEF MailAs
<1>9. /\ handle' \in [Procs -> HandleSet]
      /\ \A q \in Procs : handle'[q].open = (Now(q))'.open /\ handle'[q].no = (Now(q))'.no
  BY <1>1, <1>3 DEF HoldsNow, HandleAs
<1>10. HoldsNow'
  <2>1. EpochSet' = EpochSet /\ HandleSet' = HandleSet
    BY <1>1 DEF EpochSet, HandleSet
  <2> QED BY <1>1, <1>4, <1>5, <1>6, <1>7, <1>8, <1>9, <2>1 DEF HoldsNow
<1>11. ASSUME NEW q \in Procs, NEW p \in Procs PROVE (Now(q))'.heard[p] <= begun'[p]
  <2>1. begun[p] \in Nat /\ begun[p] <= begun'[p] /\ begun'[p] \in Nat
    <3>1. begun[p] = Now(p).begun /\ begun'[p] = IF p = r THEN t.begun ELSE begun[p]
      BY <1>3 DEF HoldsNow, BegunAs
    <3>2. Now(p).begun \in Nat /\ t.begun \in Nat
      BY <1>1, NowTyped DEF StateSet
    <3> QED BY <3>1, <3>2 DEF HeardAs
  <2>2. Now(q).heard[p] \in Nat /\ Now(q).heard[p] <= begun[p] /\ t.heard[p] \in Nat
    BY <1>1, <1>3, NowTyped DEF StateSet, Heard, Procs
  <2>3. CASE q = r
    BY <1>1, <2>1, <2>2, <2>3 DEF HeardAs
  <2>4. CASE q # r
    BY <1>1, <2>1, <2>2, <2>4
  <2> QED BY <2>3, <2>4
<1>12. Heard'
  <2>1. ASSUME NEW q \in Procs, (Waiting(q, "read"))' # {} PROVE (Now(q))'.reading
    BY <1>1, <1>3, <2>1 DEF ReadAs, Heard
  <2> QED BY <1>1, <1>11, <2>1 DEF Heard
<1> QED BY <1>1, <1>2, <1>10, <1>12 DEF UInv, IInv

(***************************************************************************)
(* What does not change.                                                   *)
(***************************************************************************)
LEMMA SamePieces ==
  ASSUME UInv, NEW r \in Procs, NEW s, NEW t, s = Now(r)
  PROVE  /\ begun' = begun /\ t.begun = s.begun => BegunAs(r, t)
         /\ req' = req /\ t.req = s.req => ReqAs(r, t)
         /\ epoch' = epoch /\ t.window = s.window /\ t.locks = s.locks
              /\ t.fenced = s.fenced /\ t.used = s.used => EpochAs(r, t)
         /\ reps' = reps /\ t.reps = s.reps => RepsAs(r, t)
         /\ mail' = mail /\ t.sent = s.sent /\ t.got = s.got => MailAs(r, t)
         /\ handle' = handle /\ t.open = s.open /\ t.no = s.no => HandleAs(r, t)
         /\ t.heard = s.heard /\ t.begun >= s.begun => HeardAs(r, t)
         /\ pending' = pending /\ t.reading = s.reading => ReadAs(r, t)
<1>1. HoldsNow /\ Heard
  BY DEF UInv, IInv
<1>2. s \in StateSet(c)
  BY NowTyped
<1>3. begun = [q \in Procs |-> begun[q]] /\ begun[r] = s.begun
  BY <1>1 DEF HoldsNow
<1>4. req = [q \in Procs |-> req[q]] /\ req[r] = s.req
  BY <1>1 DEF HoldsNow
<1>5. /\ epoch \in [Procs -> EpochSet]
      /\ epoch[r].window = s.window /\ epoch[r].locks = s.locks
      /\ epoch[r].fenced = s.fenced /\ epoch[r].used = s.used
  BY <1>1 DEF HoldsNow
<1>6. reps = [q \in Procs |-> reps[q]] /\ reps[r] = s.reps
  BY <1>1 DEF HoldsNow
<1>7. mail = [p \in Procs |-> [q \in Procs |-> Now(p).sent[q] - Now(q).got[p]]]
  BY <1>1 DEF HoldsNow
<1>8. handle \in [Procs -> HandleSet] /\ handle[r].open = s.open /\ handle[r].no = s.no
  BY <1>1 DEF HoldsNow
<1>9. pending' = pending => \A q \in Procs : (Waiting(q, "read"))' = Waiting(q, "read")
  BY DEF Waiting
<1>10. begun' = begun /\ t.begun = s.begun => BegunAs(r, t)
  BY <1>3 DEF BegunAs
<1>11. req' = req /\ t.req = s.req => ReqAs(r, t)
  BY <1>4 DEF ReqAs
<1>12. epoch' = epoch /\ t.window = s.window /\ t.locks = s.locks
         /\ t.fenced = s.fenced /\ t.used = s.used => EpochAs(r, t)
  BY <1>5 DEF EpochAs
<1>13. reps' = reps /\ t.reps = s.reps => RepsAs(r, t)
  BY <1>6 DEF RepsAs
<1>14. mail' = mail /\ t.sent = s.sent /\ t.got = s.got => MailAs(r, t)
  <2> SUFFICES ASSUME mail' = mail, t.sent = s.sent, t.got = s.got PROVE MailAs(r, t)
    OBVIOUS
  <2>1. \A p \in Procs : /\ (IF p = r THEN t ELSE Now(p)).sent = Now(p).sent
                         /\ (IF p = r THEN t ELSE Now(p)).got = Now(p).got
    OBVIOUS
  <2> QED BY <1>7, <2>1 DEF MailAs
<1>15. handle' = handle /\ t.open = s.open /\ t.no = s.no => HandleAs(r, t)
  BY <1>8 DEF HandleAs
<1>16. t.heard = s.heard /\ t.begun >= s.begun => HeardAs(r, t)
  <2> SUFFICES ASSUME t.heard = s.heard, t.begun >= s.begun PROVE HeardAs(r, t)
    OBVIOUS
  <2>1. \A p \in Procs : s.heard[p] \in Nat
    BY <1>2 DEF StateSet, Procs
  <2> QED BY <1>2, <2>1 DEF HeardAs, StateSet
<1>17. pending' = pending /\ t.reading = s.reading => ReadAs(r, t)
  BY <1>1, <1>9 DEF ReadAs, Heard
<1> QED BY <1>10, <1>11, <1>12, <1>13, <1>14, <1>15, <1>16, <1>17

-----------------------------------------------------------------------------
(***************************************************************************)
(* Operation by operation.                                                 *)
(***************************************************************************)
LEMMA QuietStep ==
  ASSUME UInv, NEW r \in Procs, ~ Finished(r), Op(r).do \notin Changing, Advance(r),
         UNCHANGED <<begun, req, epoch, reps, mail>>,
         handle' = handle \/ handle' = [handle EXCEPT ![r].calls = @ + 1],
         \A q \in Procs : (Waiting(q, "read"))' # {} => Waiting(q, "read") # {}
  PROVE  UInv'
<1> DEFINE s == Now(r)
           t == Next1(r)
<1>1. t = s
  BY DEF Next1, After, Changing
<1>2. s \in StateSet(c)
  BY NowTyped
<1>3. HoldsNow /\ Heard
  BY DEF UInv, IInv
<1> HIDE DEF s, t
<1>4. HandleAs(r, t)
  <2>1. handle \in [Procs -> HandleSet]
    BY <1>3 DEF HoldsNow
  <2>2. /\ handle' \in [Procs -> HandleSet]
        /\ \A q \in Procs : handle'[q].open = handle[q].open /\ handle'[q].no = handle[q].no
    BY <2>1 DEF HandleSet
  <2>3. handle[r].open = t.open /\ handle[r].no = t.no
    BY <1>1, <1>3 DEF HoldsNow, s
  <2> QED BY <2>2, <2>3 DEF HandleAs
<1>5. ReadAs(r, t)
  BY <1>1, <1>3 DEF ReadAs, Heard, s
<1>6. t.begun >= s.begun
  BY <1>1, <1>2 DEF StateSet
<1>7. /\ BegunAs(r, t) /\ ReqAs(r, t) /\ EpochAs(r, t) /\ RepsAs(r, t) /\ MailAs(r, t)
      /\ HeardAs(r, t)
  BY <1>1, <1>6, SamePieces DEF s
<1> QED BY <1>4, <1>5, <1>7, StepKeeps DEF t

(***************************************************************************)
(* Collective operations.                                                  *)
(***************************************************************************)
LEMMA BeginStep ==
  ASSUME UInv, NEW r \in Procs, UNCHANGED ioVars,
         Start(r) \/ PersistentInit(r) \/ PersistentStart(r) \/ Call(r) \/ FenceEnter(r)
  PROVE  UInv'
<1> DEFINE s == Now(r)
           t == Next1(r)
<1>1. ~ Finished(r) /\ Advance(r) /\ begun' = [begun EXCEPT ![r] = @ + 1]
      /\ UNCHANGED <<epoch, mail, reps>>
  BY DEF Start, PersistentInit, PersistentStart, Begin, Call, FenceEnter, At
<1>2. s \in StateSet(c) /\ s.begun = begun[r] /\ s.req = req[r]
  BY NowTyped DEF UInv, IInv, HoldsNow
<1>3. begun = [q \in Procs |-> begun[q]] /\ req = [q \in Procs |-> req[q]]
  BY DEF UInv, IInv, HoldsNow
<1>4. \E v \in Requests : t = [s EXCEPT !.begun = @ + 1, !.req = v] /\ ReqAs(r, t)
  <2>1. ASSUME NEW do, NEW before \in Requests, NEW after \in Requests, Begin(r, do, before, after),
               t = [s EXCEPT !.begun = @ + 1, !.req = IF s.req = before THEN after ELSE s.req]
        PROVE  ReqAs(r, t)
    <3>1. t.req = IF s.req = before THEN after ELSE s.req
      BY <1>2, <2>1 DEF StateSet
    <3>2. req' = IF req[r] = before THEN [req EXCEPT ![r] = after] ELSE req
      BY <2>1 DEF Begin
    <3> HIDE DEF s, t
    <3> QED BY <1>2, <1>3, <3>1, <3>2 DEF ReqAs
  <2>2. \A before, after \in Requests : (IF s.req = before THEN after ELSE s.req) \in Requests
    BY <1>2 DEF StateSet
  <2>3. {"null", "inactive", "active"} \subseteq Requests
    BY DEF Requests
  <2>4. CASE Start(r)
    <3>1. t = [s EXCEPT !.begun = @ + 1, !.req = IF s.req = "null" THEN "active" ELSE s.req]
      BY <2>4 DEF Start, Begin, At, Next1, After, Access
    <3> HIDE DEF s, t
    <3> QED BY <2>1, <2>2, <2>3, <2>4, <3>1 DEF Start
  <2>5. CASE PersistentInit(r)
    <3>1. t = [s EXCEPT !.begun = @ + 1, !.req = IF s.req = "null" THEN "inactive" ELSE s.req]
      BY <2>5 DEF PersistentInit, Begin, At, Next1, After, Access
    <3> HIDE DEF s, t
    <3> QED BY <2>1, <2>2, <2>3, <2>5, <3>1 DEF PersistentInit
  <2>6. CASE PersistentStart(r)
    <3>1. t = [s EXCEPT !.begun = @ + 1, !.req = IF s.req = "inactive" THEN "active" ELSE s.req]
      BY <2>6 DEF PersistentStart, Begin, At, Next1, After, Access
    <3> HIDE DEF s, t
    <3> QED BY <2>1, <2>2, <2>3, <2>6, <3>1 DEF PersistentStart
  <2>7. CASE Call(r) \/ FenceEnter(r)
    <3>1. t = [s EXCEPT !.begun = @ + 1] /\ req' = req
      BY <2>7 DEF Call, FenceEnter, At, Next1, After, Access
    <3> HIDE DEF s, t
    <3>2. t = [s EXCEPT !.begun = @ + 1, !.req = s.req] /\ t.req = s.req /\ s.req \in Requests
      BY <1>2, <3>1 DEF StateSet
    <3> QED BY <3>1, <3>2, SamePieces DEF s
  <2> QED BY <2>4, <2>5, <2>6, <2>7
<1> HIDE DEF s, t
<1>5. PICK v \in Requests : t = [s EXCEPT !.begun = @ + 1, !.req = v] /\ ReqAs(r, t)
  BY <1>4
<1>6. /\ t.begun = s.begun + 1 /\ t.window = s.window /\ t.locks = s.locks
      /\ t.fenced = s.fenced /\ t.used = s.used /\ t.reps = s.reps /\ t.sent = s.sent
      /\ t.got = s.got /\ t.open = s.open /\ t.no = s.no /\ t.heard = s.heard
      /\ t.reading = s.reading
  BY <1>2, <1>5 DEF StateSet
<1>7. t.begun >= s.begun
  BY <1>2, <1>6 DEF StateSet
<1>8. /\ EpochAs(r, t) /\ RepsAs(r, t) /\ MailAs(r, t) /\ HandleAs(r, t) /\ HeardAs(r, t)
      /\ ReadAs(r, t)
  BY <1>1, <1>6, <1>7, SamePieces DEF s, ioVars
<1>9. BegunAs(r, t)
  BY <1>1, <1>2, <1>3, <1>6 DEF BegunAs
<1> QED BY <1>1, <1>5, <1>8, <1>9, StepKeeps DEF t

LEMMA WaitStep ==
  ASSUME UInv, NEW r \in Procs, UNCHANGED ioVars, Wait(r) \/ Return(r)
  PROVE  UInv'
<1> DEFINE s == Now(r)
           t == Next1(r)
           last == c.colls[r][begun[r]]
           kept == IF last.do = "begin" THEN "inactive" ELSE "null"
           after == IF Op(r).do = "wait" THEN kept ELSE s.req
<1>1. /\ ~ Finished(r) /\ Advance(r) /\ Complete(r) /\ Op(r).do \in {"wait", "return"}
      /\ req' = IF Op(r).do = "wait" THEN [req EXCEPT ![r] = kept] ELSE req
      /\ UNCHANGED <<begun, epoch, mail, reps>>
  BY DEF Wait, Return, Collect, At
<1>2. s \in StateSet(c) /\ s.begun = begun[r] /\ req = [q \in Procs |-> req[q]]
  BY NowTyped DEF UInv, IInv, HoldsNow
<1>3. t = [s EXCEPT !.req = after, !.heard = Hears(c, s, Sources(last))]
  <2>1. last = c.colls[r][s.begun]
    BY <1>2
  <2> HIDE DEF last
  <2>2. CASE Op(r).do = "wait"
    <3>1. t = [s EXCEPT !.req = IF c.colls[r][s.begun].do = "begin" THEN "inactive" ELSE "null",
                        !.heard = Hears(c, s, Sources(c.colls[r][s.begun]))]
      BY <2>2 DEF Next1, After, Access
    <3> QED BY <2>1, <2>2, <3>1
  <2>3. CASE Op(r).do = "return"
    <3>1. t = [s EXCEPT !.heard = Hears(c, s, Sources(c.colls[r][s.begun]))]
      BY <2>3 DEF Next1, After, Access
    <3>2. [s EXCEPT !.req = s.req] = s
      BY <1>2 DEF StateSet
    <3> QED BY <2>1, <2>3, <3>1, <3>2
  <2> QED BY <1>1, <2>2, <2>3
<1>8. req' = [req EXCEPT ![r] = after]
  <2>1. req[r] = s.req
    BY DEF UInv, IInv, HoldsNow
  <2> HIDE DEF s, last
  <2> QED BY <1>1, <1>2, <2>1
<1> HIDE DEF s, t, kept, after
<1>4. /\ t.req = after /\ t.heard = Hears(c, s, Sources(last))
      /\ t.begun = s.begun /\ t.window = s.window /\ t.locks = s.locks
      /\ t.fenced = s.fenced /\ t.used = s.used /\ t.reps = s.reps /\ t.sent = s.sent
      /\ t.got = s.got /\ t.open = s.open /\ t.no = s.no /\ t.reading = s.reading
  <2> HIDE DEF last
  <2> QED BY <1>2, <1>3 DEF StateSet
<1>5. /\ BegunAs(r, t) /\ EpochAs(r, t) /\ RepsAs(r, t) /\ MailAs(r, t) /\ HandleAs(r, t)
      /\ ReadAs(r, t)
  BY <1>1, <1>4, SamePieces DEF s, ioVars
<1>6. ReqAs(r, t)
  BY <1>2, <1>4, <1>8 DEF ReqAs
<1>7. HeardAs(r, t)
  <2>1. s.begun <= t.begun
    BY <1>2, <1>4 DEF StateSet
  <2>2. ASSUME NEW p \in Procs PROVE t.heard[p] <= s.heard[p] \/ t.heard[p] <= begun[p]
    <3>1. t.heard[p] = IF p \in Sources(last) THEN begun[r] ELSE s.heard[p]
      BY <1>2, <1>4 DEF Hears, Procs
    <3>2. p \in Sources(last) => begun[p] >= begun[r]
      BY <1>1 DEF Complete
    <3>3. s.heard[p] \in Nat /\ begun[r] \in Nat /\ begun[p] \in Nat
      BY <1>2, NowTyped DEF StateSet, Procs, UInv, IInv, HoldsNow
    <3> HIDE DEF last
    <3> QED BY <3>1, <3>2, <3>3
  <2> QED BY <2>1, <2>2 DEF HeardAs, s
<1> QED BY <1>1, <1>5, <1>6, <1>7, StepKeeps DEF t

(***************************************************************************)
(* One field of an epoch.                                                  *)
(***************************************************************************)
OnlyField(e, g, r, field) ==
  /\ g \in [Procs -> EpochSet]
  /\ \A q \in Procs \ {r} : g[q] = e[q]
  /\ \A f \in {"window", "locks", "fenced", "used"} \ {field} : g[r][f] = e[r][f]

LEMMA WindowField ==
  ASSUME NEW e \in [Procs -> EpochSet], NEW r \in Procs, NEW v \in BOOLEAN, NEW g,
         g = [e EXCEPT ![r].window = v]
  PROVE  OnlyField(e, g, r, "window") /\ g[r].window = v
BY DEF EpochSet, OnlyField

LEMMA FencedField ==
  ASSUME NEW e \in [Procs -> EpochSet], NEW r \in Procs, NEW v \in BOOLEAN, NEW g,
         g = [e EXCEPT ![r].fenced = v]
  PROVE  OnlyField(e, g, r, "fenced") /\ g[r].fenced = v
BY DEF EpochSet, OnlyField

LEMMA UsedField ==
  ASSUME NEW e \in [Procs -> EpochSet], NEW r \in Procs, NEW v \in BOOLEAN, NEW g,
         g = [e EXCEPT ![r].used = v]
  PROVE  OnlyField(e, g, r, "used") /\ g[r].used = v
BY DEF EpochSet, OnlyField

LEMMA FenceLeaveStep ==
  ASSUME UInv, NEW r \in Procs, UNCHANGED ioVars, FenceLeave(r)
  PROVE  UInv'
<1> DEFINE s == Now(r)
           t == Next1(r)
           last == c.colls[r][begun[r]]
           from == IF last.precede THEN Ranks(c) ELSE {}
<1>1. /\ ~ Finished(r) /\ Advance(r)
      /\ last.precede => \A p \in Procs : begun[p] >= begun[r]
      /\ epoch' = [epoch EXCEPT ![r].fenced = Op(r).succeed, ![r].used = FALSE]
      /\ UNCHANGED <<begun, req, mail, reps>>
  BY DEF FenceLeave, At
<1>2. /\ s \in StateSet(c) /\ s.begun = begun[r] /\ epoch \in [Procs -> EpochSet]
      /\ epoch[r].window = s.window /\ epoch[r].locks = s.locks
      /\ epoch[r].fenced = s.fenced /\ epoch[r].used = s.used
  BY NowTyped DEF UInv, IInv, HoldsNow
<1>3. t = [s EXCEPT !.fenced = Op(r).succeed, !.used = FALSE, !.heard = Hears(c, s, from)]
  <2>1. last = c.colls[r][s.begun]
    BY <1>2
  <2> HIDE DEF last
  <2>2. t = [s EXCEPT !.fenced = Op(r).succeed, !.used = FALSE,
                      !.heard = Hears(c, s, IF c.colls[r][s.begun].precede THEN Ranks(c) ELSE {})]
    BY DEF FenceLeave, At, Next1, After, Access
  <2> QED BY <2>1, <2>2
<1> HIDE DEF s, t
<1>4. /\ t.fenced = Op(r).succeed /\ t.used = FALSE /\ t.heard = Hears(c, s, from)
      /\ t.begun = s.begun /\ t.req = s.req /\ t.window = s.window /\ t.locks = s.locks
      /\ t.reps = s.reps /\ t.sent = s.sent
      /\ t.got = s.got /\ t.open = s.open /\ t.no = s.no /\ t.reading = s.reading
  <2> HIDE DEF from
  <2> QED BY <1>2, <1>3 DEF StateSet
<1>5. /\ BegunAs(r, t) /\ ReqAs(r, t) /\ RepsAs(r, t) /\ MailAs(r, t) /\ HandleAs(r, t)
      /\ ReadAs(r, t)
  BY <1>1, <1>4, SamePieces DEF s, ioVars
<1>6. EpochAs(r, t)
  <2>1. PICK e : /\ e = [epoch EXCEPT ![r].fenced = t.fenced]
                 /\ epoch' = [e EXCEPT ![r].used = t.used]
    BY <1>1, <1>4
  <2>2. t.fenced \in BOOLEAN /\ t.used \in BOOLEAN
    BY <1>4, Moves, <1>1 DEF StateSet, t
  <2>3. OnlyField(epoch, e, r, "fenced") /\ e[r].fenced = t.fenced
    <3>1. epoch \in [Procs -> EpochSet]
      BY <1>2
    <3>2. e = [epoch EXCEPT ![r].fenced = t.fenced]
      BY <2>1
    <3>3. t.fenced \in BOOLEAN
      BY <2>2
    <3> QED BY ONLY r \in Procs, <3>1, <3>2, <3>3, FencedField
  <2>4. OnlyField(e, epoch', r, "used") /\ epoch'[r].used = t.used
    <3>1. e \in [Procs -> EpochSet] /\ t.used \in BOOLEAN
      BY <2>2, <2>3 DEF OnlyField
    <3>2. epoch' = [e EXCEPT ![r].used = t.used]
      BY <2>1
    <3> QED BY <3>1, <3>2, UsedField
  <2> QED BY <1>2, <1>4, <2>3, <2>4 DEF EpochAs, OnlyField
<1>7. HeardAs(r, t)
  <2>1. s.begun <= t.begun
    BY <1>2, <1>4 DEF StateSet
  <2>2. ASSUME NEW p \in Procs PROVE t.heard[p] <= s.heard[p] \/ t.heard[p] <= begun[p]
    <3>1. t.heard[p] = IF p \in from THEN begun[r] ELSE s.heard[p]
      BY <1>2, <1>4 DEF Hears, Procs
    <3>2. p \in from => begun[p] >= begun[r]
      BY <1>1
    <3>3. s.heard[p] \in Nat /\ begun[r] \in Nat /\ begun[p] \in Nat
      BY <1>2, NowTyped DEF StateSet, Procs, UInv, IInv, HoldsNow
    <3> HIDE DEF from
    <3> QED BY <3>1, <3>2, <3>3
  <2> QED BY <2>1, <2>2 DEF HeardAs, s
<1> QED BY <1>1, <1>5, <1>6, <1>7, StepKeeps DEF t

(***************************************************************************)
(* Requests, and calibrating.                                              *)
(***************************************************************************)
LEMMA FreeStep ==
  ASSUME UInv, NEW r \in Procs, UNCHANGED ioVars, Free(r)
  PROVE  UInv'
<1> DEFINE s == Now(r)
           t == Next1(r)
<1>1. ~ Finished(r) /\ Advance(r) /\ req' = [req EXCEPT ![r] = "null"]
      /\ UNCHANGED <<begun, epoch, mail, reps>>
  BY DEF Free, At
<1>2. s \in StateSet(c) /\ req = [q \in Procs |-> req[q]]
  BY NowTyped DEF UInv, IInv, HoldsNow
<1>3. t = [s EXCEPT !.req = "null"]
  BY DEF Free, At, Next1, After, Access
<1> HIDE DEF s, t
<1>4. /\ t.req = "null" /\ t.begun = s.begun /\ t.window = s.window /\ t.locks = s.locks
      /\ t.fenced = s.fenced /\ t.used = s.used /\ t.reps = s.reps /\ t.sent = s.sent
      /\ t.got = s.got /\ t.open = s.open /\ t.no = s.no /\ t.heard = s.heard
      /\ t.reading = s.reading /\ t.begun >= s.begun
  BY <1>2, <1>3 DEF StateSet
<1>5. /\ BegunAs(r, t) /\ EpochAs(r, t) /\ RepsAs(r, t) /\ MailAs(r, t) /\ HandleAs(r, t)
      /\ HeardAs(r, t) /\ ReadAs(r, t)
  BY <1>1, <1>4, SamePieces DEF s, ioVars
<1>6. ReqAs(r, t)
  BY <1>1, <1>2, <1>4 DEF ReqAs
<1> QED BY <1>1, <1>5, <1>6, StepKeeps DEF t

LEMMA ExploitStep ==
  ASSUME UInv, NEW r \in Procs, UNCHANGED ioVars, Exploit(r)
  PROVE  UInv'
<1> DEFINE s == Now(r)
           t == Next1(r)
           v == s.reps \/ Op(r).initialize = 1
<1>1. ~ Finished(r) /\ Advance(r) /\ reps' = [reps EXCEPT ![r] = @ \/ Op(r).initialize = 1]
      /\ UNCHANGED <<begun, req, epoch, mail>>
  BY DEF Exploit, At
<1>2. s \in StateSet(c) /\ reps = [q \in Procs |-> reps[q]] /\ reps[r] = s.reps
  BY NowTyped DEF UInv, IInv, HoldsNow
<1>3. t = [s EXCEPT !.reps = v]
  BY DEF Exploit, At, Next1, After, Access
<1>4. reps' = [reps EXCEPT ![r] = v]
  BY <1>1, <1>2
<1> HIDE DEF s, t, v
<1>5. /\ t.reps = v /\ t.begun = s.begun /\ t.window = s.window /\ t.locks = s.locks
      /\ t.fenced = s.fenced /\ t.used = s.used /\ t.req = s.req /\ t.sent = s.sent
      /\ t.got = s.got /\ t.open = s.open /\ t.no = s.no /\ t.heard = s.heard
      /\ t.reading = s.reading /\ t.begun >= s.begun
  BY <1>2, <1>3 DEF StateSet
<1>6. /\ BegunAs(r, t) /\ EpochAs(r, t) /\ ReqAs(r, t) /\ MailAs(r, t) /\ HandleAs(r, t)
      /\ HeardAs(r, t) /\ ReadAs(r, t)
  BY <1>1, <1>5, SamePieces DEF s, ioVars
<1>7. RepsAs(r, t)
  BY <1>2, <1>4, <1>5 DEF RepsAs
<1> QED BY <1>1, <1>6, <1>7, StepKeeps DEF t

(***************************************************************************)
(* Windows, locks and accesses.                                            *)
(***************************************************************************)
LEMMA EpochStep ==
  ASSUME UInv, NEW r \in Procs, UNCHANGED ioVars,
         Issue(r) \/ Window(r) \/ Lock(r) \/ Unlock(r)
  PROVE  UInv'
<1> DEFINE s == Now(r)
           t == Next1(r)
<1>1. ~ Finished(r) /\ Advance(r) /\ UNCHANGED <<begun, req, mail, reps>>
  BY DEF Issue, Window, Lock, Unlock, At
<1>2. /\ s \in StateSet(c) /\ epoch \in [Procs -> EpochSet]
      /\ epoch[r].window = s.window /\ epoch[r].locks = s.locks
      /\ epoch[r].fenced = s.fenced /\ epoch[r].used = s.used
  BY NowTyped DEF UInv, IInv, HoldsNow
<1>3. t \in StateSet(c)
  BY <1>1, Moves
<1>4. /\ EpochAs(r, t)
      /\ t.reps = s.reps /\ t.begun = s.begun /\ t.req = s.req /\ t.sent = s.sent
      /\ t.got = s.got /\ t.open = s.open /\ t.no = s.no /\ t.heard = s.heard
      /\ t.reading = s.reading
  <2>1. CASE Issue(r)
    <3>1. t = [s EXCEPT !.used = TRUE]
      BY <2>1 DEF Issue, Next1, After, Access
    <3>2. epoch' = [epoch EXCEPT ![r].used = TRUE]
      BY <2>1 DEF Issue
    <3> HIDE DEF s, t
    <3>3. /\ t.used = TRUE /\ t.window = s.window /\ t.locks = s.locks /\ t.fenced = s.fenced
          /\ t.reps = s.reps /\ t.begun = s.begun /\ t.req = s.req /\ t.sent = s.sent
          /\ t.got = s.got /\ t.open = s.open /\ t.no = s.no /\ t.heard = s.heard
          /\ t.reading = s.reading
      BY <1>2, <3>1 DEF StateSet
    <3>4. EpochAs(r, t)
      <4>1. t.locks \subseteq Procs /\ t.used \in BOOLEAN
        BY <1>3 DEF StateSet, Procs
      <4> QED BY <1>2, <3>2, <3>3, <4>1 DEF EpochAs, EpochSet
    <3> QED BY <3>3, <3>4
  <2>2. CASE Window(r)
    <3>1. t = [s EXCEPT !.window = Op(r).open, !.fenced = FALSE]
      BY <2>2 DEF Window, At, Next1, After, Access
    <3>2. epoch' = [epoch EXCEPT ![r].window = Op(r).open, ![r].fenced = FALSE]
      BY <2>2 DEF Window
    <3> HIDE DEF s, t
    <3>3. /\ t.window = Op(r).open /\ t.fenced = FALSE /\ t.locks = s.locks /\ t.used = s.used
          /\ t.reps = s.reps /\ t.begun = s.begun /\ t.req = s.req /\ t.sent = s.sent
          /\ t.got = s.got /\ t.open = s.open /\ t.no = s.no /\ t.heard = s.heard
          /\ t.reading = s.reading
      BY <1>2, <3>1 DEF StateSet
    <3>4. PICK e : /\ e = [epoch EXCEPT ![r].window = t.window]
                   /\ epoch' = [e EXCEPT ![r].fenced = t.fenced]
      BY <3>2, <3>3
    <3>5. t.window \in BOOLEAN /\ t.fenced \in BOOLEAN
      BY <1>3 DEF StateSet
    <3>6. OnlyField(epoch, e, r, "window") /\ e[r].window = t.window
      <4>1. e = [epoch EXCEPT ![r].window = t.window]
        BY <3>4
      <4>2. epoch \in [Procs -> EpochSet] /\ t.window \in BOOLEAN
        BY <1>2, <3>5
      <4> QED BY <4>1, <4>2, WindowField
    <3>7. OnlyField(e, epoch', r, "fenced") /\ epoch'[r].fenced = t.fenced
      <4>1. e \in [Procs -> EpochSet] /\ t.fenced \in BOOLEAN
        BY <3>5, <3>6 DEF OnlyField
      <4>2. epoch' = [e EXCEPT ![r].fenced = t.fenced]
        BY <3>4
      <4> QED BY <4>1, <4>2, FencedField
    <3>8. EpochAs(r, t)
      BY <1>2, <3>3, <3>6, <3>7 DEF EpochAs, OnlyField
    <3> QED BY <3>3, <3>8
  <2>3. CASE Lock(r)
    <3>1. t = [s EXCEPT !.locks = @ \cup Op(r).targets]
      BY <2>3 DEF Lock, At, Next1, After, Access
    <3>2. epoch' = [epoch EXCEPT ![r].locks = @ \cup Op(r).targets]
      BY <2>3 DEF Lock
    <3> HIDE DEF s, t
    <3>3. /\ t.locks = s.locks \cup Op(r).targets /\ t.window = s.window /\ t.fenced = s.fenced
          /\ t.used = s.used
          /\ t.reps = s.reps /\ t.begun = s.begun /\ t.req = s.req /\ t.sent = s.sent
          /\ t.got = s.got /\ t.open = s.open /\ t.no = s.no /\ t.heard = s.heard
          /\ t.reading = s.reading
      BY <1>2, <3>1 DEF StateSet
    <3>4. EpochAs(r, t)
      <4>1. t.locks \subseteq Procs /\ t.used \in BOOLEAN
        BY <1>3 DEF StateSet, Procs
      <4> QED BY <1>2, <3>2, <3>3, <4>1 DEF EpochAs, EpochSet
    <3> QED BY <3>3, <3>4
  <2>4. CASE Unlock(r)
    <3>1. t = [s EXCEPT !.locks = @ \ Op(r).targets]
      BY <2>4 DEF Unlock, At, Next1, After, Access
    <3>2. epoch' = [epoch EXCEPT ![r].locks = @ \ Op(r).targets]
      BY <2>4 DEF Unlock
    <3> HIDE DEF s, t
    <3>3. /\ t.locks = s.locks \ Op(r).targets /\ t.window = s.window /\ t.fenced = s.fenced
          /\ t.used = s.used
          /\ t.reps = s.reps /\ t.begun = s.begun /\ t.req = s.req /\ t.sent = s.sent
          /\ t.got = s.got /\ t.open = s.open /\ t.no = s.no /\ t.heard = s.heard
          /\ t.reading = s.reading
      BY <1>2, <3>1 DEF StateSet
    <3>4. EpochAs(r, t)
      <4>1. t.locks \subseteq Procs /\ t.used \in BOOLEAN
        BY <1>3 DEF StateSet, Procs
      <4> QED BY <1>2, <3>2, <3>3, <4>1 DEF EpochAs, EpochSet
    <3> QED BY <3>3, <3>4
  <2> QED BY <2>1, <2>2, <2>3, <2>4
<1> HIDE DEF s, t
<1>5. t.begun >= s.begun
  BY <1>2, <1>4 DEF StateSet
<1>6. /\ BegunAs(r, t) /\ ReqAs(r, t) /\ RepsAs(r, t) /\ MailAs(r, t) /\ HandleAs(r, t)
      /\ HeardAs(r, t) /\ ReadAs(r, t)
  BY <1>1, <1>4, <1>5, SamePieces DEF s, ioVars
<1> QED BY <1>1, <1>4, <1>6, StepKeeps DEF t

(***************************************************************************)
(* Messages.                                                               *)
(***************************************************************************)
LEMMA MailStep ==
  ASSUME UInv, NEW r \in Procs, UNCHANGED ioVars, Send(r) \/ Recv(r)
  PROVE  UInv'
<1> DEFINE s == Now(r)
           t == Next1(r)
           d == Op(r).peer
<1>1. ~ Finished(r) /\ Advance(r) /\ UNCHANGED <<begun, req, epoch, reps>>
  BY DEF Send, Recv, At
<1>2. s \in StateSet(c) /\ d \in Procs
  <2>1. Op(r).do \in {"send", "recv"}
    BY DEF Send, Recv, At
  <2> QED BY <1>1, <2>1, NowTyped, OpAllowed DEF WellFormed, Procs
<1>3. mail = [p \in Procs |-> [q \in Procs |-> Now(p).sent[q] - Now(q).got[p]]]
  BY DEF UInv, IInv, HoldsNow
<1>4. \A p, q \in Procs : Now(p).sent[q] \in Nat /\ Now(q).got[p] \in Nat
  BY NowTyped DEF StateSet, Procs
<1>5. /\ t.begun = s.begun /\ t.req = s.req /\ t.window = s.window /\ t.locks = s.locks
      /\ t.fenced = s.fenced /\ t.used = s.used /\ t.reps = s.reps /\ t.open = s.open
      /\ t.no = s.no /\ t.heard = s.heard /\ t.reading = s.reading /\ t.begun >= s.begun
      /\ MailAs(r, t)
  <2>1. CASE Send(r)
    <3>1. t = [s EXCEPT !.sent[d] = @ + 1]
      BY <2>1 DEF Send, At, Next1, After, Access
    <3>2. mail' = [mail EXCEPT ![r][d] = @ + 1]
      BY <2>1 DEF Send
    <3> HIDE DEF t, d
    <3>3. /\ t.begun = s.begun /\ t.req = s.req /\ t.window = s.window /\ t.locks = s.locks
          /\ t.fenced = s.fenced /\ t.used = s.used /\ t.reps = s.reps /\ t.open = s.open
          /\ t.no = s.no /\ t.heard = s.heard /\ t.reading = s.reading /\ t.begun >= s.begun
          /\ t.got = s.got /\ t.sent = [s.sent EXCEPT ![d] = @ + 1]
      <4> HIDE DEF s
      <4> QED BY <1>2, <3>1 DEF StateSet
    <3>4. \A q \in Procs : t.sent[q] = IF q = d THEN s.sent[q] + 1 ELSE s.sent[q]
      BY <1>2, <3>3 DEF StateSet, Procs
    <3>5. MailAs(r, t)
      <4> DEFINE From(p) == IF p = r THEN t ELSE Now(p)
      <4>1. mail' = [p \in Procs |-> [q \in Procs |->
                       IF p = r /\ q = d THEN mail[p][q] + 1 ELSE mail[p][q]]]
        BY <1>2, <1>3, <3>2
      <4>2. ASSUME NEW p \in Procs, NEW q \in Procs
            PROVE  From(p).sent[q] - From(q).got[p]
                     = IF p = r /\ q = d THEN mail[p][q] + 1 ELSE mail[p][q]
        <5>1. mail[p][q] = Now(p).sent[q] - Now(q).got[p] /\ From(q).got[p] = Now(q).got[p]
          BY <1>3, <3>3
        <5>2. From(p).sent[q] = IF p = r /\ q = d THEN Now(p).sent[q] + 1 ELSE Now(p).sent[q]
          BY <3>4
        <5> QED BY <1>4, <5>1, <5>2
      <4> QED BY <4>1, <4>2 DEF MailAs
    <3> QED BY <3>3, <3>5
  <2>2. CASE Recv(r)
    <3>1. t = [s EXCEPT !.got[d] = @ + 1]
      BY <2>2 DEF Recv, At, Next1, After, Access
    <3>2. mail' = [mail EXCEPT ![d][r] = @ - 1]
      BY <2>2 DEF Recv
    <3> HIDE DEF t, d
    <3>3. /\ t.begun = s.begun /\ t.req = s.req /\ t.window = s.window /\ t.locks = s.locks
          /\ t.fenced = s.fenced /\ t.used = s.used /\ t.reps = s.reps /\ t.open = s.open
          /\ t.no = s.no /\ t.heard = s.heard /\ t.reading = s.reading /\ t.begun >= s.begun
          /\ t.sent = s.sent /\ t.got = [s.got EXCEPT ![d] = @ + 1]
      <4> HIDE DEF s
      <4> QED BY <1>2, <3>1 DEF StateSet
    <3>4. \A p \in Procs : t.got[p] = IF p = d THEN s.got[p] + 1 ELSE s.got[p]
      BY <1>2, <3>3 DEF StateSet, Procs
    <3>5. MailAs(r, t)
      <4> DEFINE From(p) == IF p = r THEN t ELSE Now(p)
      <4>1. mail' = [p \in Procs |-> [q \in Procs |->
                       IF p = d /\ q = r THEN mail[p][q] - 1 ELSE mail[p][q]]]
        BY <1>2, <1>3, <3>2
      <4>2. ASSUME NEW p \in Procs, NEW q \in Procs
            PROVE  From(p).sent[q] - From(q).got[p]
                     = IF p = d /\ q = r THEN mail[p][q] - 1 ELSE mail[p][q]
        <5>1. mail[p][q] = Now(p).sent[q] - Now(q).got[p] /\ From(p).sent[q] = Now(p).sent[q]
          BY <1>3, <3>3
        <5>2. From(q).got[p] = IF p = d /\ q = r THEN Now(q).got[p] + 1 ELSE Now(q).got[p]
          BY <3>4
        <5> QED BY <1>4, <5>1, <5>2
      <4> QED BY <4>1, <4>2 DEF MailAs
    <3> QED BY <3>3, <3>5
  <2> QED BY <2>1, <2>2
<1> HIDE DEF s, t
<1>6. /\ BegunAs(r, t) /\ ReqAs(r, t) /\ EpochAs(r, t) /\ RepsAs(r, t) /\ HandleAs(r, t)
      /\ HeardAs(r, t) /\ ReadAs(r, t)
  BY <1>1, <1>5, SamePieces DEF s, ioVars
<1> QED BY <1>1, <1>5, <1>6, StepKeeps DEF t

(***************************************************************************)
(* Files.                                                                  *)
(***************************************************************************)
LEMMA OpenStep ==
  ASSUME UInv, NEW r \in Procs, Opened(r) \/ Closed(r)
  PROVE  UInv'
<1> DEFINE s == Now(r)
           t == Next1(r)
<1>1. ~ Finished(r) /\ Advance(r) /\ UNCHANGED <<begun, req, epoch, mail, reps, pending>>
  BY DEF Opened, Closed, At, Same
<1>2. /\ s \in StateSet(c) /\ t \in StateSet(c)
      /\ handle \in [Procs -> HandleSet] /\ handle[r].no = s.no
  BY <1>1, NowTyped, Moves DEF UInv, IInv, HoldsNow
<1>3. /\ t.begun = s.begun /\ t.req = s.req /\ t.window = s.window /\ t.locks = s.locks
      /\ t.fenced = s.fenced /\ t.used = s.used /\ t.reps = s.reps /\ t.sent = s.sent
      /\ t.got = s.got /\ t.heard = s.heard /\ t.reading = s.reading /\ t.begun >= s.begun
      /\ HandleAs(r, t)
  <2>1. CASE Opened(r)
    <3>1. t = [s EXCEPT !.open = TRUE, !.no = @ + 1]
      BY <2>1 DEF Opened, At, Next1, After, Access
    <3>2. handle' = [handle EXCEPT ![r] = [open |-> TRUE, no |-> @.no + 1, calls |-> 0]]
      BY <2>1 DEF Opened
    <3> HIDE DEF s, t
    <3>3. /\ t.begun = s.begun /\ t.req = s.req /\ t.window = s.window /\ t.locks = s.locks
          /\ t.fenced = s.fenced /\ t.used = s.used /\ t.reps = s.reps /\ t.sent = s.sent
          /\ t.got = s.got /\ t.heard = s.heard /\ t.reading = s.reading /\ t.begun >= s.begun
          /\ t.open = TRUE /\ t.no = s.no + 1
      BY <1>2, <3>1 DEF StateSet
    <3>4. t.no \in 0 .. MaxOpen
      BY <1>2 DEF StateSet
    <3>5. [open |-> TRUE, no |-> t.no, calls |-> 0] \in HandleSet
      BY <3>4 DEF HandleSet
    <3>6. handle' = [handle EXCEPT ![r] = [open |-> TRUE, no |-> t.no, calls |-> 0]]
      BY <1>2, <3>2, <3>3
    <3>7. HandleAs(r, t)
      BY <1>2, <3>3, <3>5, <3>6 DEF HandleAs
    <3> QED BY <3>3, <3>7
  <2>2. CASE Closed(r)
    <3>1. t = [s EXCEPT !.open = FALSE]
      BY <2>2 DEF Closed, At, Next1, After, Access
    <3>2. handle' = [handle EXCEPT ![r].open = FALSE]
      BY <2>2 DEF Closed
    <3> HIDE DEF s, t
    <3>3. /\ t.begun = s.begun /\ t.req = s.req /\ t.window = s.window /\ t.locks = s.locks
          /\ t.fenced = s.fenced /\ t.used = s.used /\ t.reps = s.reps /\ t.sent = s.sent
          /\ t.got = s.got /\ t.heard = s.heard /\ t.reading = s.reading /\ t.begun >= s.begun
          /\ t.open = FALSE /\ t.no = s.no
      BY <1>2, <3>1 DEF StateSet
    <3>4. HandleAs(r, t)
      BY <1>2, <3>2, <3>3 DEF HandleAs, HandleSet
    <3> QED BY <3>3, <3>4
  <2> QED BY <2>1, <2>2
<1> HIDE DEF s, t
<1>4. /\ BegunAs(r, t) /\ ReqAs(r, t) /\ EpochAs(r, t) /\ RepsAs(r, t) /\ MailAs(r, t)
      /\ HeardAs(r, t) /\ ReadAs(r, t)
  BY <1>1, <1>3, SamePieces DEF s
<1> QED BY <1>1, <1>3, <1>4, StepKeeps DEF t

Accessed(r, at, cells) ==
  [kind |-> Op(r).do, rank |-> r, no |-> pc[r], file |-> Mine(r), at |-> at, n |-> Op(r).n,
   cells |-> cells]

AccessPlace(r) ==
  CASE Op(r).by = "indv" -> InView(c, r, handle[r].calls)
    [] Op(r).by = "explicit" -> Op(r).offset
    [] Op(r).by \in {"shared", "ordered"} -> shared[handle[r].no].at

LEMMA AccessMade ==
  ASSUME NEW r \in Procs, AccessFile(r)
  PROVE  \E cells : pending' = IF Op(r).n > 0
                               THEN pending \cup {Accessed(r, AccessPlace(r), cells)}
                               ELSE pending
<1> DEFINE cells == IF Op(r).do = "write" THEN Bytes(mem[r].s, 0, Op(r).n) ELSE <<>>
<1> HIDE DEF cells
<1>1. pending' = IF Op(r).n > 0 THEN pending \cup {Accessed(r, AccessPlace(r), cells)} ELSE pending
  BY DEF AccessFile, Accessed, AccessPlace, cells
<1> QED BY <1>1

LEMMA ReadStep ==
  ASSUME UInv, NEW r \in Procs, Op(r).do = "read", AccessFile(r)
  PROVE  UInv'
<1> DEFINE s == Now(r)
           t == Next1(r)
<1>1. /\ ~ Finished(r) /\ Advance(r) /\ UNCHANGED <<begun, req, epoch, mail, reps>>
      /\ handle' = [handle EXCEPT ![r].calls = @ + 1]
  BY DEF AccessFile, Same
<1>2. /\ s \in StateSet(c) /\ handle \in [Procs -> HandleSet]
      /\ handle[r].no = s.no /\ handle[r].open = s.open
  BY <1>1, NowTyped DEF UInv, IInv, HoldsNow
<1>3. t = [s EXCEPT !.reading = TRUE]
  BY DEF Next1, After, Access
<1>4. \A q \in Procs \ {r} : (Waiting(q, "read"))' = Waiting(q, "read")
  <2>1. PICK cells : pending' = IF Op(r).n > 0
                                THEN pending \cup {Accessed(r, AccessPlace(r), cells)}
                                ELSE pending
    BY AccessMade
  <2> DEFINE a == Accessed(r, AccessPlace(r), cells)
  <2>2. a.rank = r
    BY DEF Accessed
  <2> HIDE DEF a
  <2>3. pending' = pending \/ pending' = pending \cup {a}
    BY <2>1 DEF a
  <2> QED BY <2>2, <2>3 DEF Waiting
<1> HIDE DEF s, t
<1>5. /\ t.begun = s.begun /\ t.req = s.req /\ t.window = s.window /\ t.locks = s.locks
      /\ t.fenced = s.fenced /\ t.used = s.used /\ t.reps = s.reps /\ t.sent = s.sent
      /\ t.got = s.got /\ t.heard = s.heard /\ t.reading = TRUE /\ t.begun >= s.begun
      /\ t.open = s.open /\ t.no = s.no
  BY <1>2, <1>3 DEF StateSet
<1>6. HandleAs(r, t)
  BY <1>1, <1>2, <1>5 DEF HandleAs, HandleSet
<1>7. ReadAs(r, t)
  BY <1>4, <1>5 DEF ReadAs
<1>8. /\ BegunAs(r, t) /\ ReqAs(r, t) /\ EpochAs(r, t) /\ RepsAs(r, t) /\ MailAs(r, t)
      /\ HeardAs(r, t)
  BY <1>1, <1>5, SamePieces DEF s
<1> QED BY <1>1, <1>6, <1>7, <1>8, StepKeeps DEF t

LEMMA ReadWaitStep ==
  ASSUME UInv, NEW r \in Procs, ReadWait(r)
  PROVE  UInv'
<1> DEFINE s == Now(r)
           t == Next1(r)
<1>1. /\ ~ Finished(r) /\ Advance(r) /\ UNCHANGED <<begun, req, epoch, mail, reps>>
      /\ handle' = handle /\ pending' = pending /\ Waiting(r, "read") = {}
  BY DEF ReadWait, Completed, At, Same, ioVars
<1>2. s \in StateSet(c)
  BY NowTyped
<1>3. t = [s EXCEPT !.reading = FALSE]
  BY DEF ReadWait, Completed, At, Next1, After, Access
<1> HIDE DEF s, t
<1>4. /\ t.begun = s.begun /\ t.req = s.req /\ t.window = s.window /\ t.locks = s.locks
      /\ t.fenced = s.fenced /\ t.used = s.used /\ t.reps = s.reps /\ t.sent = s.sent
      /\ t.got = s.got /\ t.heard = s.heard /\ t.begun >= s.begun
      /\ t.open = s.open /\ t.no = s.no
  BY <1>2, <1>3 DEF StateSet
<1>5. ReadAs(r, t)
  BY <1>1 DEF ReadAs, Waiting
<1>6. /\ BegunAs(r, t) /\ ReqAs(r, t) /\ EpochAs(r, t) /\ RepsAs(r, t) /\ MailAs(r, t)
      /\ HandleAs(r, t) /\ HeardAs(r, t)
  BY <1>1, <1>4, SamePieces DEF s
<1> QED BY <1>1, <1>5, <1>6, StepKeeps DEF t

(***************************************************************************)
(* All other operations leave a rank with what it has.                     *)
(***************************************************************************)
LEMMA QuietSteps ==
  ASSUME UInv, NEW r \in Procs, UNCHANGED ioVars,
         \/ Flush(r) \/ FlushLocal(r) \/ ReduceLocal(r) \/ Check(r) \/ Clear(r)
         \/ InitArray(r) \/ CheckArray(r)
  PROVE  UInv'
<1>1. ~ Finished(r) /\ Advance(r) /\ UNCHANGED <<begun, req, epoch, reps, mail>>
  BY DEF Flush, FlushLocal, ReduceLocal, Check, Clear, InitArray, CheckArray, At
<1>2. Op(r).do \in {"flush", "flush_local", "local", "check", "clear", "init_array", "check_array"}
  BY DEF Flush, FlushLocal, ReduceLocal, Check, Clear, InitArray, CheckArray, At
<1>3. Op(r).do \notin Changing
  BY <1>2 DEF Changing, Access
<1>4. handle' = handle /\ \A q \in Procs : (Waiting(q, "read"))' = Waiting(q, "read")
  BY DEF ioVars, Waiting
<1> QED BY <1>1, <1>3, <1>4, QuietStep

LEMMA QuietFileSteps ==
  ASSUME UInv, NEW r \in Procs,
         \/ SetBuf(r) \/ Delete(r) \/ Create(r) \/ SyncFile(r) \/ Restore(r) \/ Compare(r)
         \/ Contiguous(r)
  PROVE  UInv'
<1>1. ~ Finished(r) /\ Advance(r) /\ Same /\ handle' = handle /\ pending' = pending
  BY DEF SetBuf, Delete, Create, SyncFile, Completed, Restore, Compare, Contiguous, At, ioVars
<1>2. Op(r).do \in {"set_buf", "delete", "create", "sync", "restore", "compare", "contiguous"}
  BY DEF SetBuf, Delete, Create, SyncFile, Completed, Restore, Compare, Contiguous, At
<1>3. Op(r).do \notin Changing
  BY <1>2 DEF Changing, Access
<1>4. \A q \in Procs : (Waiting(q, "read"))' = Waiting(q, "read")
  BY <1>1 DEF Waiting
<1> QED BY <1>1, <1>3, <1>4, QuietStep DEF Same

LEMMA WriteStep ==
  ASSUME UInv, NEW r \in Procs, Op(r).do = "write", AccessFile(r)
  PROVE  UInv'
<1>1. /\ ~ Finished(r) /\ Advance(r) /\ Same /\ handle' = [handle EXCEPT ![r].calls = @ + 1]
      /\ Op(r).do \notin Changing
  BY DEF AccessFile, Changing, Access
<1>2. \A q \in Procs : (Waiting(q, "read"))' = Waiting(q, "read")
  <2>1. PICK cells : pending' = IF Op(r).n > 0
                                THEN pending \cup {Accessed(r, AccessPlace(r), cells)}
                                ELSE pending
    BY AccessMade
  <2> DEFINE a == Accessed(r, AccessPlace(r), cells)
  <2>2. a.kind = "write"
    BY DEF Accessed
  <2> HIDE DEF a
  <2>3. pending' = pending \/ pending' = pending \cup {a}
    BY <2>1 DEF a
  <2> QED BY <2>2, <2>3 DEF Waiting
<1> QED BY <1>1, <1>2, QuietStep DEF Same

(***************************************************************************)
(* What takes effect later, and nothing at all.                            *)
(***************************************************************************)
LEMMA UnmovedStep ==
  ASSUME UInv, UNCHANGED <<c, pc, begun, req, epoch, mail, reps, handle>>,
         \A q \in Procs : (Waiting(q, "read"))' \subseteq Waiting(q, "read")
  PROVE  UInv'
<1>1. Procs' = Procs /\ \A q \in Procs : (Now(q))' = Now(q)
  BY DEF Procs, Now
<1>2. Sound(c)' /\ AtOne'
  BY <1>1 DEF UInv, AtOne
<1>3. HoldsNow'
  <2>1. EpochSet' = EpochSet /\ HandleSet' = HandleSet
    BY <1>1 DEF EpochSet, HandleSet
  <2>2. /\ begun' = [r \in Procs |-> (Now(r))'.begun]
        /\ req' = [r \in Procs |-> (Now(r))'.req]
        /\ reps' = [r \in Procs |-> (Now(r))'.reps]
        /\ mail' = [r \in Procs |-> [q \in Procs |-> (Now(r))'.sent[q] - (Now(q))'.got[r]]]
    BY <1>1 DEF UInv, IInv, HoldsNow
  <2> QED BY <1>1, <2>1, <2>2 DEF UInv, IInv, HoldsNow
<1>4. Heard'
  BY <1>1 DEF UInv, IInv, Heard
<1> QED BY <1>2, <1>3, <1>4 DEF UInv, IInv

LEMMA StepInv ==
  ASSUME UInv, NEW r \in Procs, Step(r), UNCHANGED ioVars
  PROVE  UInv'
BY BeginStep, WaitStep, FenceLeaveStep, FreeStep, ExploitStep, EpochStep, MailStep, QuietSteps
   DEF Step

LEMMA FStepInv ==
  ASSUME UInv, NEW r \in Procs, FStep(r)
  PROVE  UInv'
<1>1. CASE AccessFile(r)
  <2>1. Op(r).do \in {"write", "read"}
    BY <1>1 DEF AccessFile
  <2> QED BY <1>1, <2>1, ReadStep, WriteStep
<1>2. CASE ~ AccessFile(r)
  BY <1>2, OpenStep, ReadWaitStep, QuietFileSteps DEF FStep
<1> QED BY <1>1, <1>2

LEMMA NextUInv ==
  ASSUME UInv, [Next]_<<vars, ioVars>>
  PROVE  UInv'
<1>1. CASE Progress /\ UNCHANGED ioVars
  <2>1. ASSUME NEW r \in Procs, Step(r) PROVE UInv'
    BY <1>1, <2>1, StepInv
  <2>2. ASSUME NEW x \in flying, Land(x) PROVE UInv'
    <3>1. UNCHANGED <<c, pc, begun, req, epoch, mail, reps, handle, pending>>
      BY <1>1, <2>2, Zenon DEF Land, ioVars
    <3>2. \A q \in Procs : (Waiting(q, "read"))' \subseteq Waiting(q, "read")
      BY <3>1 DEF Waiting
    <3> QED BY <3>1, <3>2, UnmovedStep
  <2> QED BY <1>1, <2>1, <2>2 DEF Progress
<1>2. CASE InFiles
  <2>1. ASSUME NEW x \in pending, LandInFile(x) PROVE UInv'
    <3>1. /\ UNCHANGED <<c, pc, begun, req, epoch, mail, reps, handle>>
          /\ pending' = pending \ {x}
      BY <2>1 DEF LandInFile, Same
    <3>2. \A q \in Procs : (Waiting(q, "read"))' \subseteq Waiting(q, "read")
      BY <3>1 DEF Waiting
    <3> QED BY <3>1, <3>2, UnmovedStep
  <2> QED BY <1>2, <2>1, FStepInv DEF InFiles
<1>3. CASE UNCHANGED <<vars, ioVars>>
  <2>1. UNCHANGED <<c, pc, begun, req, epoch, mail, reps, handle, pending>>
    BY <1>3 DEF vars, ioVars
  <2>2. \A q \in Procs : (Waiting(q, "read"))' \subseteq Waiting(q, "read")
    BY <2>1 DEF Waiting
  <2> QED BY <2>1, <2>2, UnmovedStep
<1> QED BY <1>1, <1>2, <1>3 DEF Next

LEMMA InitUInv ==
  ASSUME FInit, \A i \in DOMAIN Setups : Sound(Setups[i])
  PROVE  UInv
<1>1. Sound(c) /\ pc = [r \in Procs |-> 1]
  BY DEF FInit, Init
<1>2. ASSUME NEW r \in Procs PROVE Now(r) = Fresh(c) /\ 1 \in 1 .. Len(c.prog[r]) + 1
  <2>1. Len(c.prog[r]) \in Nat
    BY <1>1 DEF Sound, OnlyAllowed, Procs
  <2> QED BY <1>1, <2>1, StatesAre DEF Now
<1>3. AtOne
  BY <1>1, <1>2 DEF AtOne
<1>4. HoldsNow
  <2>1. Fresh(c).begun = 0 /\ Fresh(c).req = "null" /\ Fresh(c).reps = (c.suite = "IO")
        /\ Fresh(c).window = FALSE /\ Fresh(c).locks = {} /\ Fresh(c).fenced = FALSE
        /\ Fresh(c).used = FALSE /\ Fresh(c).open = FALSE /\ Fresh(c).no = 0
        /\ \A p \in Procs : Fresh(c).sent[p] = 0 /\ Fresh(c).got[p] = 0
    BY DEF Fresh, Procs
  <2>2. /\ begun = [r \in Procs |-> Now(r).begun] /\ req = [r \in Procs |-> Now(r).req]
        /\ reps = [r \in Procs |-> Now(r).reps]
    BY <1>2, <2>1 DEF FInit, Init
  <2>3. mail = [r \in Procs |-> [q \in Procs |-> Now(r).sent[q] - Now(q).got[r]]]
    BY <1>2, <2>1 DEF FInit, Init
  <2>4. /\ epoch \in [Procs -> EpochSet]
        /\ \A r \in Procs : /\ epoch[r].window = Now(r).window /\ epoch[r].locks = Now(r).locks
                            /\ epoch[r].fenced = Now(r).fenced /\ epoch[r].used = Now(r).used
    BY <1>2, <2>1 DEF FInit, Init, EpochSet
  <2>5. /\ handle \in [Procs -> HandleSet]
        /\ \A r \in Procs : handle[r].open = Now(r).open /\ handle[r].no = Now(r).no
    <3>1. handle = [r \in Procs |-> [open |-> FALSE, no |-> 0, calls |-> 0]]
      BY DEF FInit
    <3>2. [open |-> FALSE, no |-> 0, calls |-> 0] \in HandleSet
      BY DEF HandleSet, MaxOpen
    <3>3. handle \in [Procs -> HandleSet]
      BY <3>1, <3>2
    <3> QED BY <1>2, <2>1, <3>1, <3>3
  <2> QED BY <2>2, <2>3, <2>4, <2>5 DEF HoldsNow
<1>5. Heard
  <2>1. \A p \in Procs : Fresh(c).heard[p] = 0
    BY DEF Fresh, Procs
  <2>2. \A r \in Procs : Waiting(r, "read") = {} /\ begun[r] = 0
    BY DEF Waiting, FInit, Init
  <2> QED BY <1>2, <2>1, <2>2 DEF Heard
<1> QED BY <1>1, <1>3, <1>4, <1>5 DEF UInv, IInv

-----------------------------------------------------------------------------
LEMMA UsedRightFrom ==
  ASSUME UInv
  PROVE  UsedRight
<1> SUFFICES ASSUME NEW r \in Procs, ~ Finished(r) PROVE FAllowed(r, Op(r))
  BY DEF UsedRight
<1> DEFINE op == Op(r)
           s == Now(r)
<1>1. /\ AllowedAt(c, s, op) /\ (op.do = "delete" => DeletesClosed(c, r, pc[r]))
      /\ HoldsNow /\ Heard
  BY OpAllowed DEF UInv, IInv
<1>2. /\ req[r] = s.req /\ reps[r] = s.reps /\ handle[r].open = s.open
      /\ epoch[r].window = s.window /\ epoch[r].locks = s.locks
      /\ epoch[r].fenced = s.fenced /\ epoch[r].used = s.used
  BY <1>1 DEF HoldsNow
<1> HIDE DEF s, op
<1>3. CASE op.do \in {"opened", "write", "read", "sync", "closed"}
  <2>1. s.reading = FALSE => Waiting(r, "read") = {}
    BY <1>1 DEF Heard, s
  <2>2. s.reading \in BOOLEAN
    BY NowTyped DEF StateSet, s
  <2> QED BY <1>1, <1>2, <1>3, <2>1, <2>2 DEF AllowedAt, FAllowed, op
<1>4. CASE op.do = "delete"
  <2>1. SUFFICES Holders(r) = {}
    BY <1>4 DEF FAllowed, op
  <2>2. SUFFICES ASSUME NEW q \in Procs, handle[q].open, Name(c, q) = Name(c, r) PROVE FALSE
    BY DEF Holders, Mine
  <2>3. q # r
    BY <1>1, <1>2, <1>4, <2>2 DEF AllowedAt
  <2>4. /\ pc[q] \in 1 .. Len(c.prog[q]) + 1 /\ Now(q).open
    BY <1>1, <2>2, NowTyped DEF HoldsNow
  <2>5. Now(q).heard[r] > s.begun \/ s.heard[q] > Now(q).begun
    BY <1>1, <1>4, <2>2, <2>3, <2>4 DEF DeletesClosed, Procs, Now, s
  <2>6. Now(q).heard[r] <= s.begun /\ s.heard[q] <= Now(q).begun
    BY <1>1 DEF Heard, HoldsNow, s
  <2>7. /\ Now(q).heard[r] \in Nat /\ s.begun \in Nat
        /\ s.heard[q] \in Nat /\ Now(q).begun \in Nat
    BY NowTyped DEF StateSet, Procs, s
  <2> QED BY <2>5, <2>6, <2>7
<1>5. CASE op.do = "restore"
  <2>1. SUFFICES ASSUME c.fpointer = priv PROVE Holders(r) = {}
    BY <1>5 DEF FAllowed, op
  <2>2. ~ s.open
    BY <1>1, <1>5, <2>1 DEF AllowedAt
  <2>3. \A q \in Procs : Name(c, q) = q
    BY <2>1 DEF Name
  <2> QED BY <1>2, <2>2, <2>3 DEF Holders, Mine
<1>6. CASE op.do \notin {"opened", "write", "read", "sync", "closed", "delete", "restore"}
  <2>1. Allowed(s, op)
    BY <1>1, <1>6 DEF AllowedAt
  <2>2. /\ Held(r).req = s.req /\ Held(r).reps = s.reps /\ Held(r).window = s.window
        /\ Held(r).locks = s.locks /\ Held(r).fenced = s.fenced /\ Held(r).used = s.used
    BY <1>2 DEF Held
  <2>3. Allowed(Held(r), op)
    BY <2>1, <2>2 DEF Allowed
  <2> QED BY <1>6, <2>3 DEF FAllowed, op
<1> QED BY <1>3, <1>4, <1>5, <1>6

LEMMA NothingLeftFrom ==
  ASSUME UInv
  PROVE  NothingLeft
<1> SUFFICES ASSUME Done, NEW r \in Procs, NEW p \in Procs
             PROVE  /\ req[r] = "null" /\ epoch[r].locks = {} /\ ~ epoch[r].window
                    /\ mail[r][p] = 0 /\ begun[r] = begun[p]
  BY DEF NothingLeft
<1>1. ASSUME NEW q \in Procs PROVE Now(q) = AtEnd(c, q) /\ Ended(AtEnd(c, q))
  <2>1. pc[q] = Len(c.prog[q]) + 1
    BY NowTyped DEF Done, Finished
  <2>2. OnlyAllowed(c, q)
    BY NowTyped
  <2> QED BY <2>1, <2>2 DEF Now, AtEnd, OnlyAllowed
<1>2. /\ Now(r).begun = Now(p).begun /\ Now(r).sent[p] = Now(p).got[r]
  BY <1>1 DEF UInv, Sound, Procs
<1>3. /\ req[r] = Now(r).req /\ epoch[r].locks = Now(r).locks /\ epoch[r].window = Now(r).window
      /\ mail[r][p] = Now(r).sent[p] - Now(p).got[r]
      /\ begun[r] = Now(r).begun /\ begun[p] = Now(p).begun
  BY DEF UInv, IInv, HoldsNow
<1>4. Now(r).sent[p] \in Nat
  BY NowTyped DEF StateSet, Procs
<1>5. Ended(Now(r))
  BY <1>1
<1> QED BY <1>2, <1>3, <1>4, <1>5 DEF Ended

(***************************************************************************)
(* At any time what a rank has done, its request, its epoch, its file and  *)
(* its messages are those its program gives where it is, however the ranks *)
(* interleave and whenever accesses take effect.                           *)
(***************************************************************************)
THEOREM StatesRight ==
  ASSUME \A i \in DOMAIN Setups : Sound(Setups[i])
  PROVE  Spec => []UInv
<1>1. FInit => UInv
  BY InitUInv
<1>2. UInv /\ [Next]_<<vars, ioVars>> => UInv'
  BY NextUInv
<1> QED BY <1>1, <1>2, PTL DEF Spec

(***************************************************************************)
(* Requests, locks, windows, fences and files are used as MPI allows it by *)
(* every call whose programs, taken each for itself, are as asked for: no  *)
(* interleaving makes a file be deleted while another rank has it open.    *)
(***************************************************************************)
THEOREM UsedRightAlways ==
  ASSUME \A i \in DOMAIN Setups : Sound(Setups[i])
  PROVE  Spec => []UsedRight
<1>1. UInv => UsedRight
  BY UsedRightFrom
<1> QED BY <1>1, StatesRight, PTL

(***************************************************************************)
(* When such a call ends no request, lock, window or message is left on    *)
(* any rank and all have begun equally many collective operations.         *)
(***************************************************************************)
THEOREM NothingLeftAlways ==
  ASSUME \A i \in DOMAIN Setups : Sound(Setups[i])
  PROVE  Spec => []NothingLeft
<1>1. UInv => NothingLeft
  BY NothingLeftFrom
<1> QED BY <1>1, StatesRight, PTL

-----------------------------------------------------------------------------
(***************************************************************************)
(* Types: what is on its way was called before, and files are sequences of *)
(* bytes without a gap.                                                    *)
(***************************************************************************)
FlyingTyped == \A x \in flying : x.origin \in Procs /\ x.no \in Nat /\ x.no < pc[x.origin]

PendingTyped ==
  \A x \in pending : /\ x.rank \in Procs /\ x.no \in Nat /\ x.no < pc[x.rank]
                     /\ x.at \in Nat /\ x.n \in Nat

SharedTyped == shared \in [1 .. MaxOpen -> [at : Nat, calls : Nat]]

FilesTyped ==
  \A name \in DOMAIN files : /\ "bytes" \in DOMAIN files[name]
                             /\ \E m \in Nat : DOMAIN files[name].bytes = 0 .. m - 1

FoundTyped == DOMAIN found = Procs /\ \A r \in Procs : found[r].n \in Nat

TInv ==
  /\ UInv /\ FlyingTyped /\ bad \subseteq Procs /\ PendingTyped /\ SharedTyped /\ FilesTyped
  /\ FoundTyped

LEMMA BytesLength ==
  ASSUME NEW bytes, NEW m \in Nat, DOMAIN bytes = 0 .. m - 1
  PROVE  Length(bytes) = m
<1>1. Cardinality(0 .. m - 1) = IF 0 > m - 1 THEN 0 ELSE (m - 1) - 0 + 1
  BY FS_Interval
<1> QED BY <1>1 DEF Length

(***************************************************************************)
(* Places in a view are numbers.                                           *)
(***************************************************************************)
LEMMA PortionNat ==
  ASSUME NEW rank \in Nat, NEW NP \in Nat \ {0}, NEW size \in Nat
  PROVE  Pos1(rank, NP, size, asize) \in Nat /\ Portion(rank, NP, size, asize) \in Nat
<1> DEFINE ne == Ceiling(size, asize)
           b == ne \div NP
           m == ne % NP
<1>1. ne \in Nat
  BY CeilingAbove DEF asize
<1> HIDE DEF ne
<1>2. b \in Nat /\ m \in Nat
  BY <1>1, Quotient
<1> HIDE DEF b, m
<1>3. rank * (b + 1) * 2 \in Nat /\ (rank * b + m) * 2 \in Nat
  BY <1>2
<1>4. Pos1(rank, NP, size, asize) = IF rank < m THEN rank * (b + 1) * 2 ELSE (rank * b + m) * 2
  BY DEF Pos1, asize, ne, b, m
<1>5. Pos1(rank, NP, size, asize) \in Nat
  BY <1>3, <1>4
<1>6. Pos2(rank, NP, size, asize)
        = Least(Pos1(rank, NP, size, asize) - 1 + (IF rank < m THEN b + 1 ELSE b) * 2, size - 1)
  BY DEF Pos2, asize, ne, b, m
<1>7. Pos2(rank, NP, size, asize) \in Int
  BY <1>2, <1>5, <1>6 DEF Least
<1> QED BY <1>5, <1>7 DEF Portion, Most

LEMMA ViewNat ==
  ASSUME NEW x, NEW r \in Ranks(x), x.np \in Nat \ {0}, x.size \in Nat, File_rank(x, r) \in Nat,
         NEW k \in Nat
  PROVE  InView(x, r, k) \in Nat
<1>1. all_io_procs(x) \in Nat \ {0}
  BY DEF all_io_procs
<1>2. /\ Locsize(x, r) \in Nat
      /\ Pos1(File_rank(x, r), all_io_procs(x), x.size, asize) \in Nat
  BY <1>1, PortionNat DEF Locsize
<1>3. Totalsize(x, r) \in Nat /\ Offset(x, r) \in Nat
  BY <1>2 DEF Totalsize, Offset
<1>4. k * Totalsize(x, r) \in Nat
  BY <1>3
<1> QED BY <1>3, <1>4 DEF InView

(***************************************************************************)
(* What a step need not say.                                               *)
(***************************************************************************)
LEMMA TypesKept ==
  ASSUME TInv, c' = c, \A r \in Procs : pc[r] \in Int /\ pc'[r] \in Int /\ pc[r] <= pc'[r]
  PROVE  /\ Procs' = Procs
         /\ flying' \subseteq flying => FlyingTyped'
         /\ bad' \subseteq bad \cup Procs => (bad \subseteq Procs)'
         /\ pending' \subseteq pending => PendingTyped'
         /\ shared' = shared => SharedTyped'
         /\ files' = files => FilesTyped'
         /\ found' = found => FoundTyped'
<1>1. Procs' = Procs
  BY DEF Procs
<1>2. ASSUME flying' \subseteq flying PROVE FlyingTyped'
  <2> SUFFICES ASSUME NEW x \in flying'
               PROVE  x.origin \in Procs /\ x.no \in Nat /\ x.no < pc'[x.origin]
    BY <1>1 DEF FlyingTyped
  <2>1. x.origin \in Procs /\ x.no \in Nat /\ x.no < pc[x.origin]
    BY <1>2 DEF TInv, FlyingTyped
  <2> QED BY <2>1
<1>3. ASSUME pending' \subseteq pending PROVE PendingTyped'
  <2> SUFFICES ASSUME NEW x \in pending'
               PROVE  /\ x.rank \in Procs /\ x.no \in Nat /\ x.no < pc'[x.rank]
                      /\ x.at \in Nat /\ x.n \in Nat
    BY <1>1 DEF PendingTyped
  <2>1. x.rank \in Procs /\ x.no \in Nat /\ x.no < pc[x.rank] /\ x.at \in Nat /\ x.n \in Nat
    BY <1>3 DEF TInv, PendingTyped
  <2> QED BY <2>1
<1>4. bad' \subseteq bad \cup Procs => (bad \subseteq Procs)'
  BY <1>1 DEF TInv
<1>5. /\ shared' = shared => SharedTyped'
      /\ files' = files => FilesTyped'
      /\ found' = found => FoundTyped'
  BY <1>1 DEF TInv, SharedTyped, FilesTyped, FoundTyped
<1> QED BY <1>1, <1>2, <1>3, <1>4, <1>5

LEMMA PcMoves ==
  ASSUME UInv, NEW r \in Procs, ~ Finished(r), Advance(r)
  PROVE  /\ c' = c /\ Procs' = Procs /\ pc[r] \in Nat /\ pc'[r] = pc[r] + 1
         /\ \A q \in Procs : pc[q] \in Int /\ pc'[q] \in Int /\ pc[q] <= pc'[q]
<1>1. /\ pc = [q \in Procs |-> pc[q]] /\ pc' = [pc EXCEPT ![r] = @ + 1] /\ c' = c
  BY DEF Advance, UInv, AtOne
<1>2. ASSUME NEW q \in Procs PROVE pc[q] \in Nat
  BY NowTyped
<1>3. Procs' = Procs
  BY <1>1 DEF Procs
<1> QED BY <1>1, <1>2, <1>3

LEMMA StepTypes ==
  ASSUME TInv, NEW r \in Procs, Step(r), UNCHANGED ioVars
  PROVE  TInv'
<1>1. UInv'
  BY StepInv DEF TInv
<1>2. ~ Finished(r) /\ Advance(r)
  BY DEF Step, Start, PersistentInit, PersistentStart, Begin, Call, Return, Collect, Wait,
         Free, Exploit, Issue,
         FenceEnter, FenceLeave, Window, Lock, Flush, FlushLocal, Unlock, Send, Recv, ReduceLocal,
         Check, Clear, InitArray, CheckArray, At
<1>3. /\ c' = c /\ Procs' = Procs /\ pc[r] \in Nat /\ pc'[r] = pc[r] + 1
      /\ \A q \in Procs : pc[q] \in Int /\ pc'[q] \in Int /\ pc[q] <= pc'[q]
  BY <1>2, PcMoves DEF TInv
<1>4. bad' \subseteq bad \cup Procs
  BY DEF Step, Start, PersistentInit, PersistentStart, Begin, Call, Return, Collect, Wait,
         Free, Exploit, Issue,
         FenceEnter, FenceLeave, Window, Lock, Flush, FlushLocal, Unlock, Send, Recv, ReduceLocal,
         Check, Clear, InitArray, CheckArray
<1>5. FlyingTyped'
  <2>1. CASE Issue(r)
    <3> DEFINE x == [op |-> Op(r), origin |-> r, no |-> pc[r],
                     fence |-> IF epoch[r].fenced THEN begun[r] ELSE 0]
    <3>1. flying' = flying \cup {x} /\ x.origin = r /\ x.no = pc[r]
      BY <2>1 DEF Issue
    <3> HIDE DEF x
    <3> SUFFICES ASSUME NEW y \in flying'
                 PROVE  y.origin \in Procs /\ y.no \in Nat /\ y.no < pc'[y.origin]
      BY <1>3 DEF FlyingTyped
    <3>2. CASE y = x
      BY <1>3, <3>1, <3>2
    <3>3. CASE y \in flying
      <4>1. y.origin \in Procs /\ y.no \in Nat /\ y.no < pc[y.origin]
        BY <3>3 DEF TInv, FlyingTyped
      <4> QED BY <1>3, <4>1
    <3> QED BY <3>1, <3>2, <3>3
  <2>2. CASE ~ Issue(r)
    <3>1. flying' = flying
      BY <2>2 DEF Step, Start, PersistentInit, PersistentStart, Begin, Call, Return, Collect, Wait,
         Free, Exploit,
         FenceEnter, FenceLeave, Window, Lock, Flush, FlushLocal, Unlock, Send, Recv, ReduceLocal,
         Check, Clear, InitArray, CheckArray
    <3> QED BY <1>3, <3>1, TypesKept
  <2> QED BY <2>1, <2>2
<1>6. UNCHANGED <<files, shared, pending, found>>
  BY DEF ioVars
<1> QED BY <1>1, <1>3, <1>4, <1>5, <1>6, TypesKept DEF TInv

LEMMA FStepMoves ==
  ASSUME NEW r, FStep(r)
  PROVE  /\ ~ Finished(r) /\ Advance(r) /\ flying' = flying
         /\ r \in Procs => bad' \subseteq bad \cup Procs
<1>1. ~ Finished(r) /\ Advance(r) /\ flying' = flying
  BY DEF FStep, SetBuf, Opened, Closed, Delete, Create, AccessFile, ReadWait, SyncFile, Completed,
         Restore, Compare, Contiguous, At, Same
<1>2. bad' \subseteq bad \cup {r}
  BY DEF FStep, SetBuf, Opened, Closed, Delete, Create, AccessFile, ReadWait, SyncFile, Completed,
         Restore, Compare, Contiguous
<1> QED BY <1>1, <1>2

(***************************************************************************)
(* The variables of Files, one by one.                                     *)
(***************************************************************************)
LEMMA PendingStep ==
  ASSUME TInv, NEW r \in Procs, FStep(r)
  PROVE  PendingTyped'
<1>1. /\ c' = c /\ Procs' = Procs /\ pc[r] \in Nat /\ pc'[r] = pc[r] + 1
      /\ \A q \in Procs : pc[q] \in Int /\ pc'[q] \in Int /\ pc[q] <= pc'[q]
  BY FStepMoves, PcMoves DEF TInv
<1>2. CASE AccessFile(r)
  <2>1. PICK cells : pending' = IF Op(r).n > 0
                                THEN pending \cup {Accessed(r, AccessPlace(r), cells)}
                                ELSE pending
    BY <1>2, AccessMade
  <2> DEFINE a == Accessed(r, AccessPlace(r), cells)
             op == Op(r)
  <2>2. a.rank = r /\ a.no = pc[r] /\ a.at = AccessPlace(r) /\ a.n = op.n
    BY DEF Accessed
  <2> HIDE DEF a
  <2>3. pending' = pending \/ pending' = pending \cup {a}
    BY <2>1 DEF a
  <2>4. ~ Finished(r) /\ op.do \in {"write", "read"}
    BY <1>2 DEF AccessFile
  <2>5. /\ op.n \in Nat /\ op.offset \in Nat
        /\ op.by \in {"indv", "explicit", "shared", "ordered"}
        /\ File_rank(c, r) \in Nat /\ c.size \in Nat /\ Now(r).no \in 1 .. MaxOpen
    <3>1. UInv
      BY DEF TInv
    <3> QED BY <2>4, <3>1, OpAllowed DEF WellFormed
  <2>6. handle[r].no \in 1 .. MaxOpen /\ handle[r].calls \in Nat
    BY <2>5 DEF TInv, UInv, IInv, HoldsNow, HandleSet
  <2>7. AccessPlace(r) \in Nat
    <3>1. CASE op.by = "indv"
      <4>1. c.np \in Nat \ {0} /\ r \in Ranks(c)
        BY DEF TInv, UInv, Sound, Procs
      <4>2. InView(c, r, handle[r].calls) \in Nat
        BY <2>5, <2>6, <4>1, ViewNat
      <4> QED BY <3>1, <4>2 DEF AccessPlace
    <3>2. CASE op.by = "explicit"
      BY <2>5, <3>2 DEF AccessPlace
    <3>3. CASE op.by \in {"shared", "ordered"}
      <4>1. shared[handle[r].no].at \in Nat
        BY <2>6 DEF TInv, SharedTyped
      <4> QED BY <3>3, <4>1 DEF AccessPlace
    <3> QED BY <2>5, <3>1, <3>2, <3>3
  <2> SUFFICES ASSUME NEW x \in pending'
               PROVE  /\ x.rank \in Procs /\ x.no \in Nat /\ x.no < pc'[x.rank]
                      /\ x.at \in Nat /\ x.n \in Nat
    BY <1>1 DEF PendingTyped
  <2>8. CASE x = a
    BY <1>1, <2>2, <2>5, <2>7, <2>8
  <2>9. CASE x \in pending
    <3>1. /\ x.rank \in Procs /\ x.no \in Nat /\ x.no < pc[x.rank] /\ x.at \in Nat /\ x.n \in Nat
      BY <2>9 DEF TInv, PendingTyped
    <3> QED BY <1>1, <3>1
  <2> QED BY <2>3, <2>8, <2>9
<1>3. CASE ~ AccessFile(r)
  <2>1. pending' = pending
    BY <1>3 DEF FStep, SetBuf, Opened, Closed, Delete, Create, ReadWait, SyncFile, Completed,
           Restore, Compare, Contiguous, ioVars
  <2> QED BY <1>1, <2>1, TypesKept
<1> QED BY <1>2, <1>3

LEMMA SharedStep ==
  ASSUME TInv, NEW r \in Procs, FStep(r)
  PROVE  SharedTyped'
<1>1. SharedTyped
  BY DEF TInv
<1>2. CASE AccessFile(r)
  <2>1. \/ shared' = shared
        \/ shared' = [shared EXCEPT ![handle[r].no] =
                        [at |-> @.at + Op(r).n, calls |-> @.calls + 1]]
    BY <1>2 DEF AccessFile
  <2>2. ~ Finished(r) /\ Op(r).do \in {"write", "read"} /\ UInv
    BY <1>2 DEF AccessFile, TInv
  <2>3. Op(r).n \in Nat
    BY <2>2, OpAllowed DEF WellFormed
  <2> QED BY <1>1, <2>1, <2>3 DEF SharedTyped
<1>3. CASE ~ AccessFile(r)
  <2>1. shared' = shared
    BY <1>3 DEF FStep, SetBuf, Opened, Closed, Delete, Create, ReadWait, SyncFile, Completed,
           Restore, Compare, Contiguous, ioVars
  <2> QED BY <1>1, <2>1 DEF SharedTyped
<1> QED BY <1>2, <1>3

LEMMA FoundStep ==
  ASSUME TInv, NEW r \in Procs, FStep(r)
  PROVE  FoundTyped'
<1>1. FoundTyped /\ Procs' = Procs /\ UInv
  BY FStepMoves, PcMoves DEF TInv
<1>2. CASE Compare(r)
  <2>1. PICK pos : found' = [found EXCEPT ![r] = [pos |-> pos, n |-> Op(r).Locsize]]
    BY <1>2 DEF Compare
  <2>2. Op(r).Locsize \in Nat
    <3>1. ~ Finished(r) /\ Op(r).do = "compare"
      BY <1>2 DEF Compare, At
    <3> QED BY <1>1, <3>1, OpAllowed DEF WellFormed
  <2> QED BY <1>1, <2>1, <2>2 DEF FoundTyped
<1>3. CASE ~ Compare(r)
  <2>1. found' = found
    BY <1>3 DEF FStep, SetBuf, Opened, Closed, Delete, Create, AccessFile, ReadWait, SyncFile,
           Completed, Restore, Contiguous, ioVars
  <2> QED BY <1>1, <2>1 DEF FoundTyped
<1> QED BY <1>2, <1>3

FileTyped(file) == "bytes" \in DOMAIN file /\ \E m \in Nat : DOMAIN file.bytes = 0 .. m - 1

LEMMA FilesStep ==
  ASSUME TInv, NEW r \in Procs, FStep(r)
  PROVE  FilesTyped'
<1>1. \A name \in DOMAIN files : FileTyped(files[name])
  BY DEF TInv, FilesTyped, FileTyped
<1>2. SUFFICES \A name \in DOMAIN files' : FileTyped(files'[name])
  BY DEF FilesTyped, FileTyped
<1>3. ASSUME NEW g, files' = [files EXCEPT ![Mine(r)] = g],
             Mine(r) \in DOMAIN files => FileTyped(g)
      PROVE  \A name \in DOMAIN files' : FileTyped(files'[name])
  BY <1>1, <1>3
<1>4. CASE Opened(r)
  <2>1. files' = [files EXCEPT ![Mine(r)] = [@ EXCEPT !.there = TRUE]]
    BY <1>4 DEF Opened
  <2>2. ASSUME NEW file, FileTyped(file) PROVE FileTyped([file EXCEPT !.there = TRUE])
    BY <2>2 DEF FileTyped
  <2>3. Mine(r) \in DOMAIN files => FileTyped([files[Mine(r)] EXCEPT !.there = TRUE])
    BY <1>1, <2>2
  <2> QED BY <1>3, <2>1, <2>3
<1>5. CASE Delete(r)
  <2>1. files' = [files EXCEPT ![Mine(r)] = [there |-> FALSE, bytes |-> NoBytes]]
    BY <1>5 DEF Delete
  <2>2. FileTyped([there |-> FALSE, bytes |-> NoBytes])
    <3>1. DOMAIN NoBytes = 0 .. 0 - 1
      BY DEF NoBytes
    <3> QED BY <3>1 DEF FileTyped
  <2> QED BY <1>3, <2>1, <2>2
<1>6. CASE Create(r)
  <2> DEFINE content == [i \in 0 .. Op(r).total - 1 |->
                           IF Op(r).filled THEN Cell({0}, i) ELSE Junk]
  <2>1. files' = [files EXCEPT ![Mine(r)] = [there |-> TRUE, bytes |-> content]]
    BY <1>6 DEF Create
  <2>2. ~ Finished(r) /\ Op(r).do = "create" /\ UInv
    BY <1>6 DEF Create, At, TInv
  <2>3. Op(r).total \in Nat
    BY <2>2, OpAllowed DEF WellFormed
  <2>4. FileTyped([there |-> TRUE, bytes |-> content])
    BY <2>3 DEF FileTyped
  <2> QED BY <1>3, <2>1, <2>4
<1>7. CASE ~ (Opened(r) \/ Delete(r) \/ Create(r))
  <2>1. files' = files
    BY <1>7 DEF FStep, SetBuf, Closed, AccessFile, ReadWait, SyncFile, Completed,
           Restore, Compare, Contiguous, ioVars
  <2> QED BY <1>1, <2>1
<1> QED BY <1>4, <1>5, <1>6, <1>7

LEMMA FStepTypes ==
  ASSUME TInv, NEW r \in Procs, FStep(r)
  PROVE  TInv'
<1>1. UInv'
  BY FStepInv DEF TInv
<1>2. /\ c' = c /\ Procs' = Procs
      /\ \A q \in Procs : pc[q] \in Int /\ pc'[q] \in Int /\ pc[q] <= pc'[q]
  BY FStepMoves, PcMoves DEF TInv
<1>3. FlyingTyped' /\ (bad \subseteq Procs)'
  BY <1>2, FStepMoves, TypesKept
<1> QED BY <1>1, <1>3, PendingStep, SharedStep, FoundStep, FilesStep DEF TInv

LEMMA LandTypes ==
  ASSUME TInv, UInv',
         \/ UNCHANGED <<vars, ioVars>>
         \/ UNCHANGED ioVars /\ \E x \in flying : Land(x)
         \/ \E x \in pending : LandInFile(x)
  PROVE  TInv'
<1>1. /\ UNCHANGED <<c, pc, bad, shared, found>>
      /\ flying' \subseteq flying /\ pending' \subseteq pending
  BY Zenon DEF vars, ioVars, Land, LandInFile, Same
<1>2. \A r \in Procs : pc[r] \in Int /\ pc'[r] \in Int /\ pc[r] <= pc'[r]
  <2>1. \A r \in Procs : pc[r] \in Nat
    BY NowTyped DEF TInv
  <2> QED BY <1>1, <2>1
<1>3. FilesTyped'
  <2>1. CASE files' = files
    BY <1>1, <1>2, <2>1, TypesKept
  <2>2. CASE files' # files
    <3>1. PICK x \in pending : files' = [files EXCEPT ![x.file].bytes = Written(@, x)]
      BY <2>2 DEF vars, ioVars, LandInFile
    <3>2. \A name \in DOMAIN files : FileTyped(files[name])
      BY DEF TInv, FilesTyped, FileTyped
    <3>3. x.at \in Nat /\ x.n \in Nat
      BY DEF TInv, PendingTyped
    <3>4. ASSUME NEW file, FileTyped(file)
          PROVE  FileTyped([file EXCEPT !.bytes = Written(file.bytes, x)])
      <4>1. PICK m \in Nat : DOMAIN file.bytes = 0 .. m - 1
        BY <3>4 DEF FileTyped
      <4>2. Length(file.bytes) = m
        BY <4>1, BytesLength
      <4>3. Most(m, x.at + x.n) \in Nat
        BY <3>3 DEF Most
      <4>4. DOMAIN Written(file.bytes, x) = 0 .. Most(m, x.at + x.n) - 1
        BY <4>2 DEF Written
      <4> QED BY <3>4, <4>3, <4>4 DEF FileTyped
    <3>5. ASSUME NEW name \in DOMAIN files' PROVE FileTyped(files'[name])
      <4>1. /\ name \in DOMAIN files
            /\ files'[name] = IF name = x.file
                              THEN [files[name] EXCEPT !.bytes = Written(files[name].bytes, x)]
                              ELSE files[name]
        BY <3>1
      <4> QED BY <3>2, <3>4, <4>1
    <3> QED BY <3>5 DEF FilesTyped, FileTyped
  <2> QED BY <2>1, <2>2
<1> QED BY <1>1, <1>2, <1>3, TypesKept DEF TInv

LEMMA NextTInv ==
  ASSUME TInv, [Next]_<<vars, ioVars>>
  PROVE  TInv'
<1>1. UInv'
  BY NextUInv DEF TInv
<1> QED BY <1>1, StepTypes, FStepTypes, LandTypes DEF Next, Progress, InFiles

LEMMA InitTInv ==
  ASSUME FInit, \A i \in DOMAIN Setups : Sound(Setups[i])
  PROVE  TInv
<1>1. UInv
  BY InitUInv
<1>2. FlyingTyped /\ PendingTyped /\ bad \subseteq Procs
  BY DEF FInit, Init, FlyingTyped, PendingTyped
<1>3. SharedTyped
  BY DEF FInit, SharedTyped
<1>4. FoundTyped
  BY DEF FInit, FoundTyped
<1>5. FilesTyped
  <2>1. files = [name \in Procs \cup {Common} |-> [there |-> FALSE, bytes |-> NoBytes]]
    BY DEF FInit
  <2>2. DOMAIN NoBytes = 0 .. 0 - 1
    BY DEF NoBytes
  <2> QED BY <2>1, <2>2 DEF FilesTyped
<1> QED BY <1>1, <1>2, <1>3, <1>4, <1>5 DEF TInv

LEMMA FTypeOKFrom ==
  ASSUME TInv
  PROVE  FTypeOK
<1>1. UInv
  BY DEF TInv
<1>2. TypeOK
  <2>1. ASSUME NEW r \in Procs
        PROVE  /\ pc[r] \in 1 .. Len(c.prog[r]) + 1
               /\ begun[r] \in 0 .. Len(c.colls[r])
               /\ epoch[r].locks \subseteq Procs
               /\ req[r] \in {"null", "inactive", "active"}
    <3>1. /\ begun[r] = Now(r).begun /\ epoch[r].locks = Now(r).locks /\ req[r] = Now(r).req
      BY <1>1 DEF UInv, IInv, HoldsNow
    <3>2. /\ pc[r] \in 1 .. Len(c.prog[r]) + 1 /\ Now(r) \in StateSet(c)
          /\ Now(r).begun <= Len(c.colls[r]) /\ Len(c.colls[r]) \in Nat
      BY <1>1, NowTyped
    <3> QED BY <3>1, <3>2 DEF StateSet, Requests, Procs
  <2> QED BY <2>1 DEF TypeOK, TInv, FlyingTyped
<1>3. ASSUME NEW name \in DOMAIN files
      PROVE  DOMAIN files[name].bytes = 0 .. Length(files[name].bytes) - 1
  BY BytesLength DEF TInv, FilesTyped
<1>4. \A r \in Procs : handle[r].no \in 0 .. MaxOpen
  BY <1>1 DEF UInv, IInv, HoldsNow, HandleSet
<1>5. \A x \in pending : x.rank \in Procs /\ x.at >= 0 /\ x.no < pc[x.rank]
  BY DEF TInv, PendingTyped
<1>6. \A r \in Procs : found[r].n >= 0
  BY DEF TInv, FoundTyped
<1> QED BY <1>2, <1>3, <1>4, <1>5, <1>6 DEF FTypeOK

(***************************************************************************)
(* In such a call all variables have their types: accesses on their way    *)
(* were issued before, handles are among those that can be opened and      *)
(* files have no gaps.                                                     *)
(***************************************************************************)
THEOREM TypesCorrect ==
  ASSUME \A i \in DOMAIN Setups : Sound(Setups[i])
  PROVE  Spec => []FTypeOK
<1>1. FInit => TInv
  BY InitTInv
<1>2. TInv /\ [Next]_<<vars, ioVars>> => TInv'
  BY NextTInv
<1>3. TInv => FTypeOK
  BY FTypeOKFrom
<1> QED BY <1>1, <1>2, <1>3, PTL DEF Spec

-----------------------------------------------------------------------------
(***************************************************************************)
(* The collective operations of a sequence of operations.                  *)
(***************************************************************************)
Chosen(e) == IF Collective(e) THEN <<e>> ELSE <<>>

LEMMA CollectivesAppend ==
  ASSUME NEW U, NEW s \in Seq(U), NEW e \in U
  PROVE  /\ CollectivesOf(<<>>) = <<>> /\ CollectivesOf(s) \in Seq(U)
         /\ CollectivesOf(Append(s, e)) = CollectivesOf(s) \o Chosen(e)
<1> DEFINE All(ops) == [k \in DOMAIN ops |-> Chosen(ops[k])]
           t == Append(s, e)
           n == Len(s)
<1>1. \A ops : CollectivesOf(ops) = FlattenSeq(All(ops))
  BY DEF CollectivesOf, Chosen
<1>2. \A u \in U : Chosen(u) \in Seq(U)
  BY DEF Chosen
<1>3. n \in Nat /\ DOMAIN s = 1 .. n /\ \A k \in 1 .. n : s[k] \in U
  OBVIOUS
<1>4. All(s) \in Seq(Seq(U)) /\ Len(All(s)) = n
  <2>1. All(s) = [k \in 1 .. n |-> Chosen(s[k])]
    BY <1>3
  <2> HIDE DEF n
  <2>2. \A k \in 1 .. n : Chosen(s[k]) \in Seq(U)
    BY <1>2, <1>3
  <2> HIDE DEF All
  <2> QED BY <1>3, <2>1, <2>2
<1>5. All(t) = Append(All(s), Chosen(e))
  <2>1. /\ t \in Seq(U) /\ Len(t) = n + 1 /\ t[n + 1] = e /\ \A k \in 1 .. n : t[k] = s[k]
    BY AppendProperties
  <2>2. All(t) = [k \in 1 .. n + 1 |-> Chosen(t[k])]
    BY <2>1
  <2> DEFINE v == Append(All(s), Chosen(e))
  <2>3. /\ v \in Seq(Seq(U)) /\ Len(v) = n + 1 /\ v[n + 1] = Chosen(e)
        /\ \A k \in 1 .. n : v[k] = All(s)[k]
    BY <1>2, <1>4, AppendProperties
  <2>4. v = [k \in 1 .. n + 1 |-> v[k]]
    BY <2>3
  <2>5. \A k \in 1 .. n : All(s)[k] = Chosen(s[k])
    BY <1>3
  <2>6. \A k \in 1 .. n + 1 : v[k] = Chosen(t[k])
    BY <1>3, <2>1, <2>3, <2>5
  <2> HIDE DEF v, All, t, n
  <2> QED BY <2>2, <2>4, <2>6 DEF v
<1>6. All(<<>>) = <<>>
  OBVIOUS
<1> HIDE DEF All, t, n
<1>7. Chosen(e) \in Seq(U)
  BY <1>2
<1>8. /\ FlattenSeq(<<>>) = <<>> /\ FlattenSeq(All(s)) \in Seq(U)
      /\ FlattenSeq(Append(All(s), Chosen(e))) = FlattenSeq(All(s)) \o Chosen(e)
  BY <1>4, <1>7, FlattenAppend
<1> QED BY <1>1, <1>5, <1>6, <1>8 DEF t

LEMMA CollectivesConcat ==
  ASSUME NEW U, NEW s \in Seq(U), NEW t \in Seq(U)
  PROVE  CollectivesOf(s \o t) = CollectivesOf(s) \o CollectivesOf(t)
<1> DEFINE N == {n \in Nat : \A u \in Seq(U) : Len(u) = n =>
                    CollectivesOf(s \o u) = CollectivesOf(s) \o CollectivesOf(u)}
<1>1. 0 \in N
  <2>1. ASSUME NEW u \in Seq(U), Len(u) = 0
        PROVE  CollectivesOf(s \o u) = CollectivesOf(s) \o CollectivesOf(u)
    <3>1. u = <<>> /\ s \o <<>> = s
      BY <2>1
    <3>2. CollectivesOf(s) \in Seq(U)
      <4>1. CASE U = {}
        <5>1. s = <<>> 
          BY <4>1
        <5>2. CollectivesOf(s) = FlattenSeq(<<>>)
          BY <5>1 DEF CollectivesOf
        <5> QED BY <5>2 DEF FlattenSeq
      <4>2. CASE U # {}
        BY <4>2, CollectivesAppend
      <4> QED BY <4>1, <4>2
    <3>3. CollectivesOf(<<>>) = <<>>
      BY DEF CollectivesOf, FlattenSeq
    <3> QED BY <3>1, <3>2, <3>3
  <2> QED BY <2>1
<1>2. ASSUME NEW n \in Nat, n \in N PROVE n + 1 \in N
  <2> SUFFICES ASSUME NEW u \in Seq(U), Len(u) = n + 1
               PROVE  CollectivesOf(s \o u) = CollectivesOf(s) \o CollectivesOf(u)
    OBVIOUS
  <2> DEFINE v == SubSeq(u, 1, n)
             e == u[n + 1]
  <2>1. v \in Seq(U) /\ Len(v) = n /\ e \in U /\ u = Append(v, e)
    OBVIOUS
  <2> HIDE DEF v, e
  <2>2. s \o u = Append(s \o v, e) /\ s \o v \in Seq(U)
    BY <2>1
  <2>3. CollectivesOf(s \o v) = CollectivesOf(s) \o CollectivesOf(v)
    BY <1>2, <2>1
  <2>4. CollectivesOf(s \o u) = CollectivesOf(s \o v) \o Chosen(e)
    BY <2>1, <2>2, CollectivesAppend
  <2>5. CollectivesOf(u) = CollectivesOf(v) \o Chosen(e)
    BY <2>1, CollectivesAppend
  <2>6. CollectivesOf(s) \in Seq(U) /\ CollectivesOf(v) \in Seq(U)
    BY <2>1, CollectivesAppend
  <2>7. Chosen(e) \in Seq(U)
    BY <2>1 DEF Chosen
  <2>8. (CollectivesOf(s) \o CollectivesOf(v)) \o Chosen(e)
           = CollectivesOf(s) \o (CollectivesOf(v) \o Chosen(e))
    BY ONLY <2>6, <2>7, SMTT(60)
  <2> QED BY <2>3, <2>4, <2>5, <2>8
<1> HIDE DEF N
<1>3. Nat \subseteq N
  BY <1>1, <1>2, Induction
<1> QED BY <1>3 DEF N

-----------------------------------------------------------------------------
(***************************************************************************)
(* What a rank of a collective kernel has: its request, which a start or   *)
(* the beginning of a persistent operation has made active, and whether    *)
(* computing is calibrated.                                                *)
(***************************************************************************)
Local == [req : {"null", "inactive", "started", "begun"}, reps : BOOLEAN]

May(s, op) ==
  CASE op.do \in {"start", "init"} -> s.req = "null"
    [] op.do \in {"begin", "free"} -> s.req = "inactive"
    [] op.do = "wait" -> s.req \in {"started", "begun"}
    [] op.do = "call" -> s.req \in {"null", "inactive"}
    [] op.do = "exploit" -> op.initialize = 0 => s.reps
    [] OTHER -> TRUE

Then(s, op) ==
  [req |-> CASE op.do = "start" -> "started"
             [] op.do = "init" -> "inactive"
             [] op.do = "begin" -> "begun"
             [] op.do = "wait" -> IF s.req = "begun" THEN "inactive" ELSE "null"
             [] op.do = "free" -> "null"
             [] OTHER -> s.req,
   reps |-> IF op.do = "exploit" THEN s.reps \/ op.initialize = 1 ELSE s.reps]

Runs(ops, f) ==
  /\ f \in [1 .. Len(ops) + 1 -> Local]
  /\ \A k \in 1 .. Len(ops) : May(f[k], ops[k]) /\ f[k + 1] = Then(f[k], ops[k])

Leads(ops, a, b) == \E f : Runs(ops, f) /\ f[1] = a /\ f[Len(ops) + 1] = b

LEMMA LeadsConcat ==
  ASSUME NEW U, NEW s \in Seq(U), NEW t \in Seq(U), NEW a, NEW b, NEW d,
         Leads(s, a, b), Leads(t, b, d)
  PROVE  Leads(s \o t, a, d)
<1> DEFINE m == Len(s)
           n == Len(t)
           u == s \o t
<1>1. PICK f : Runs(s, f) /\ f[1] = a /\ f[m + 1] = b
  BY DEF Leads
<1>2. PICK g : Runs(t, g) /\ g[1] = b /\ g[n + 1] = d
  BY DEF Leads
<1> DEFINE h == [k \in 1 .. m + n + 1 |-> IF k <= m THEN f[k] ELSE g[k - m]]
<1>3. /\ m \in Nat /\ n \in Nat /\ Len(u) = m + n
      /\ \A k \in 1 .. m : u[k] = s[k]
      /\ \A k \in m + 1 .. m + n : u[k] = t[k - m]
  OBVIOUS
<1>4. /\ f \in [1 .. m + 1 -> Local] /\ g \in [1 .. n + 1 -> Local]
      /\ \A k \in 1 .. m : May(f[k], s[k]) /\ f[k + 1] = Then(f[k], s[k])
      /\ \A k \in 1 .. n : May(g[k], t[k]) /\ g[k + 1] = Then(g[k], t[k])
  BY <1>1, <1>2 DEF Runs
<1> HIDE DEF m, n, u
<1>5. h \in [1 .. m + n + 1 -> Local]
  BY <1>3, <1>4
<1>6. h[1] = a
  BY <1>1, <1>2, <1>3
<1>7. h[m + n + 1] = d
  BY <1>2, <1>3
<1>8. ASSUME NEW k \in 1 .. m + n PROVE May(h[k], u[k]) /\ h[k + 1] = Then(h[k], u[k])
  <2>1. CASE k < m
    <3>1. k \in 1 .. m /\ h[k] = f[k] /\ h[k + 1] = f[k + 1]
      BY <1>3, <2>1
    <3> QED BY <1>3, <1>4, <3>1
  <2>2. CASE k = m
    <3>1. k \in 1 .. m /\ h[k] = f[k] /\ h[k + 1] = g[1] /\ g[1] = f[k + 1]
      BY <1>1, <1>2, <1>3, <2>2
    <3> QED BY <1>3, <1>4, <3>1
  <2>3. CASE k > m
    <3>1. k - m \in 1 .. n /\ k \in m + 1 .. m + n /\ h[k] = g[k - m] /\ h[k + 1] = g[(k - m) + 1]
      BY <1>3, <2>3
    <3> QED BY <1>3, <1>4, <3>1
  <2> QED BY <1>3, <2>1, <2>2, <2>3
<1> HIDE DEF h
<1>9. Runs(u, h)
  BY <1>3, <1>5, <1>8 DEF Runs
<1> QED BY <1>3, <1>6, <1>7, <1>9 DEF Leads, u

LEMMA LeadsNothing ==
  ASSUME NEW a \in Local
  PROVE  Leads(<<>>, a, a)
<1> DEFINE f == [k \in 1 .. 1 |-> a]
<1>1. Runs(<<>>, f) /\ f[1] = a /\ f[Len(<<>>) + 1] = a
  BY DEF Runs
<1> QED BY <1>1 DEF Leads

LEMMA LeadsOne ==
  ASSUME NEW a \in Local, NEW op, May(a, op), Then(a, op) \in Local
  PROVE  Leads(<<op>>, a, Then(a, op))
<1> DEFINE b == Then(a, op)
           f == [k \in 1 .. 2 |-> IF k = 1 THEN a ELSE b]
           ops == <<op>>
<1>1. Len(ops) = 1 /\ ops[1] = op
  OBVIOUS
<1> HIDE DEF b, ops
<1>2. f[1] = a /\ f[2] = b /\ f \in [1 .. 2 -> Local]
  BY DEF b
<1> HIDE DEF f
<1>3. Runs(ops, f)
  BY <1>1, <1>2 DEF Runs, b
<1> QED BY <1>1, <1>2, <1>3 DEF Leads, b, ops

-----------------------------------------------------------------------------
(***************************************************************************)
(* The operations of collective kernels, inside of the buffers.            *)
(***************************************************************************)
Operations ==
  {"Barrier", "Bcast", "Allgather", "Allgatherv", "Alltoall", "Alltoallv", "Gather", "Gatherv",
   "Scatter", "Scatterv", "Reduce", "Allreduce", "Reduce_scatter", "Reduce_scatter_block"}

CollSet(x) ==
  {op \in [do : {"start", "init", "begin", "call"}, what : Operations, root : Nat,
           send : [Ranks(x) -> Nat \X Nat],
           recv : SUBSET [from : SUBSET Ranks(x), at : Nat, n : Nat]] :
     /\ \A p \in Ranks(x) : op.send[p][1] + op.send[p][2] <= S_alloc(x)
     /\ \A part \in op.recv : part.at + part.n <= R_alloc(x)}

CheckSet(x) ==
  {op \in [do : {"check"}, buf : {"s", "r"}, at : Nat, buf_pos : Nat, Locsize : Nat,
           Totalsize : Nat, unit : Nat, mode : {"put", "local"}, source : Int] :
     op.at + op.Totalsize <= IF op.buf = "s" THEN S_alloc(x) ELSE R_alloc(x)}

LocalSet(x) ==
  {op \in [do : {"local"}, at : Nat, to : Nat, n : Nat] :
     op.at + op.n <= S_alloc(x) /\ op.to + op.n <= R_alloc(x)}

OpSet(x) ==
  CollSet(x) \cup CheckSet(x) \cup LocalSet(x)
    \cup [do : {"wait", "return", "free"}] \cup [do : {"exploit"}, initialize : {0, 1}]

(***************************************************************************)
(* Ranks p and q agree on their k-th collective operations m and t.        *)
(***************************************************************************)
OpsAgree(r, p, mine, theirs) ==
  LET expected == {part.n : part \in {y \in mine.recv : p \in y.from}}
  IN /\ mine.do = theirs.do
     /\ mine.do # "fence" => /\ mine.what = theirs.what
                             /\ mine.root = theirs.root
                             /\ expected \cup {0} = {theirs.send[r][2], 0}

Matched(x, F) ==
  \A r, p \in Ranks(x) :
    LET m == CollectivesOf(F[r])
        t == CollectivesOf(F[p])
    IN Len(m) = Len(t) /\ \A k \in 1 .. Len(m) : OpsAgree(r, p, m[k], t[k])

(***************************************************************************)
(* Operations of each rank, that lead it from a to b, with the same        *)
(* collective operations on all.                                           *)
(***************************************************************************)
Good(x, F, a, b) ==
  /\ F \in [Ranks(x) -> Seq(OpSet(x))]
  /\ \A r \in Ranks(x) : Leads(F[r], a, b)
  /\ Matched(x, F)

LEMMA CollectivesTyped ==
  ASSUME NEW x, NEW s \in Seq(OpSet(x))
  PROVE  CollectivesOf(s) \in Seq(OpSet(x))
<1>1. [do |-> "wait"] \in OpSet(x)
  BY DEF OpSet
<1> QED BY <1>1, CollectivesAppend

LEMMA GoodConcat ==
  ASSUME NEW x, NEW F, NEW G, NEW a, NEW b, NEW d, Good(x, F, a, b), Good(x, G, b, d)
  PROVE  Good(x, [r \in Ranks(x) |-> F[r] \o G[r]], a, d)
<1> DEFINE H == [r \in Ranks(x) |-> F[r] \o G[r]]
           V == OpSet(x)
<1>1. F \in [Ranks(x) -> Seq(V)] /\ G \in [Ranks(x) -> Seq(V)] /\ Matched(x, F) /\ Matched(x, G)
  BY DEF Good
<1>2. \A r \in Ranks(x) : Leads(F[r], a, b) /\ Leads(G[r], b, d)
  BY DEF Good
<1>3. \A r \in Ranks(x) : H[r] = F[r] \o G[r]
  OBVIOUS
<1> HIDE DEF V
<1>4. H \in [Ranks(x) -> Seq(V)]
  BY <1>1
<1>5. ASSUME NEW r \in Ranks(x) PROVE Leads(H[r], a, d)
  <2>1. F[r] \in Seq(V) /\ G[r] \in Seq(V)
    BY <1>1
  <2> QED BY <1>2, <1>3, <2>1, LeadsConcat
<1>6. Matched(x, H)
  <2> SUFFICES ASSUME NEW r \in Ranks(x), NEW p \in Ranks(x)
               PROVE  LET m == CollectivesOf(H[r])
                          t == CollectivesOf(H[p])
                      IN /\ Len(m) = Len(t)
                         /\ \A k \in 1 .. Len(m) : OpsAgree(r, p, m[k], t[k])
    BY DEF Matched
  <2> DEFINE m1 == CollectivesOf(F[r])
             m2 == CollectivesOf(G[r])
             t1 == CollectivesOf(F[p])
             t2 == CollectivesOf(G[p])
  <2>1. m1 \in Seq(V) /\ m2 \in Seq(V) /\ t1 \in Seq(V) /\ t2 \in Seq(V)
    BY <1>1, CollectivesTyped DEF V
  <2>2. CollectivesOf(H[r]) = m1 \o m2 /\ CollectivesOf(H[p]) = t1 \o t2
    <3>1. /\ F[r] \in Seq(V) /\ G[r] \in Seq(V) /\ F[p] \in Seq(V) /\ G[p] \in Seq(V)
          /\ H[r] = F[r] \o G[r] /\ H[p] = F[p] \o G[p]
      BY <1>1, <1>3
    <3> HIDE DEF H
    <3> QED BY <3>1, CollectivesConcat
  <2>3. /\ Len(m1) = Len(t1) /\ \A k \in 1 .. Len(m1) : OpsAgree(r, p, m1[k], t1[k])
        /\ Len(m2) = Len(t2) /\ \A k \in 1 .. Len(m2) : OpsAgree(r, p, m2[k], t2[k])
    BY <1>1 DEF Matched
  <2> HIDE DEF m1, m2, t1, t2
  <2>0. /\ Len(m1) \in Nat /\ Len(m2) \in Nat
        /\ Len(m1 \o m2) = Len(m1) + Len(m2) /\ Len(t1 \o t2) = Len(t1) + Len(t2)
        /\ \A k \in 1 .. Len(m1) + Len(m2) :
             (m1 \o m2)[k] = IF k <= Len(m1) THEN m1[k] ELSE m2[k - Len(m1)]
        /\ \A k \in 1 .. Len(t1) + Len(t2) :
             (t1 \o t2)[k] = IF k <= Len(t1) THEN t1[k] ELSE t2[k - Len(t1)]
    <3>1. Len(m1) \in Nat /\ Len(m2) \in Nat
      BY <2>1
    <3> QED BY <2>1, <3>1, ConcatProperties
  <2>4. Len(m1 \o m2) = Len(t1 \o t2)
    BY <2>0, <2>3
  <2>5. ASSUME NEW k \in 1 .. Len(m1 \o m2)
        PROVE  OpsAgree(r, p, (m1 \o m2)[k], (t1 \o t2)[k])
    <3>1. CASE k <= Len(m1)
      <4>1. k \in 1 .. Len(m1) /\ (m1 \o m2)[k] = m1[k] /\ (t1 \o t2)[k] = t1[k]
        BY <2>0, <2>3, <3>1
      <4>2. OpsAgree(r, p, m1[k], t1[k])
        BY <2>3, <4>1
      <4> QED BY <4>1, <4>2
    <3>2. CASE k > Len(m1)
      <4> DEFINE j == k - Len(m1)
      <4>1. j \in 1 .. Len(m2) /\ (m1 \o m2)[k] = m2[j] /\ (t1 \o t2)[k] = t2[j]
        BY <2>0, <2>3, <3>2
      <4> HIDE DEF j
      <4>2. OpsAgree(r, p, m2[j], t2[j])
        BY <2>3, <4>1
      <4> QED BY <4>1, <4>2
    <3>3. k <= Len(m1) \/ k > Len(m1)
      BY <2>0
    <3> QED BY <3>1, <3>2, <3>3
  <2> QED BY <2>2, <2>4, <2>5
<1> HIDE DEF H
<1> QED BY <1>4, <1>5, <1>6 DEF Good, H, V

LEMMA GoodNothing ==
  ASSUME NEW x, NEW a \in Local
  PROVE  Good(x, [r \in Ranks(x) |-> <<>>], a, a)
<1>1. [r \in Ranks(x) |-> <<>>] \in [Ranks(x) -> Seq(OpSet(x))]
  OBVIOUS
<1>2. CollectivesOf(<<>>) = <<>>
  BY DEF CollectivesOf, FlattenSeq
<1> QED BY <1>1, <1>2, LeadsNothing DEF Good, Matched

LEMMA GoodLoop ==
  ASSUME NEW x, NEW n \in Nat, NEW G, NEW a \in Local, \A i \in 1 .. n : Good(x, G[i], a, a)
  PROVE  Good(x, [r \in Ranks(x) |-> FlattenSeq([i \in 1 .. n |-> G[i][r]])], a, a)
<1> DEFINE F(m) == [r \in Ranks(x) |-> FlattenSeq([i \in 1 .. m |-> G[i][r]])]
           N == {m \in Nat : m <= n => Good(x, F(m), a, a)}
           V == OpSet(x)
<1>1. \A i \in 1 .. n : G[i] \in [Ranks(x) -> Seq(V)]
  BY DEF Good
<1> HIDE DEF V
<1>2. 0 \in N
  <2>1. FlattenSeq(<<>>) = <<>>
    BY DEF FlattenSeq
  <2>2. \A r \in Ranks(x) : [i \in 1 .. 0 |-> G[i][r]] = <<>>
    OBVIOUS
  <2>3. F(0) = [r \in Ranks(x) |-> <<>>]
    BY <2>1, <2>2
  <2> HIDE DEF F
  <2> QED BY <2>3, GoodNothing
<1>3. ASSUME NEW m \in Nat, m \in N PROVE m + 1 \in N
  <2> SUFFICES ASSUME m + 1 <= n PROVE Good(x, F(m + 1), a, a)
    OBVIOUS
  <2>1. Good(x, F(m), a, a) /\ Good(x, G[m + 1], a, a)
    BY <1>3
  <2>2. ASSUME NEW r \in Ranks(x)
        PROVE  FlattenSeq([i \in 1 .. m + 1 |-> G[i][r]])
                 = FlattenSeq([i \in 1 .. m |-> G[i][r]]) \o G[m + 1][r]
    <3> DEFINE s == [i \in 1 .. m |-> G[i][r]]
               t == [i \in 1 .. m + 1 |-> G[i][r]]
               e == G[m + 1][r]
    <3>1. s \in Seq(Seq(V)) /\ e \in Seq(V) /\ Len(s) = m
      BY <1>1
    <3>2. t = Append(s, e)
      <4> DEFINE v == Append(s, e)
      <4>1. /\ v \in Seq(Seq(V)) /\ Len(v) = m + 1 /\ v[m + 1] = e
            /\ \A i \in 1 .. m : v[i] = s[i]
        BY <3>1, AppendProperties
      <4>2. v = [i \in 1 .. m + 1 |-> v[i]]
        BY <4>1
      <4>3. \A i \in 1 .. m + 1 : v[i] = G[i][r]
        BY <4>1
      <4> HIDE DEF v
      <4> QED BY <4>2, <4>3 DEF v
    <3> HIDE DEF s, t, e
    <3>3. FlattenSeq(Append(s, e)) = FlattenSeq(s) \o e
      BY <3>1, FlattenAppend
    <3> QED BY <3>2, <3>3 DEF s, t, e
  <2>3. F(m + 1) = [r \in Ranks(x) |-> F(m)[r] \o G[m + 1][r]]
    BY <2>2
  <2> HIDE DEF F
  <2>4. Good(x, [r \in Ranks(x) |-> F(m)[r] \o G[m + 1][r]], a, a)
    BY <2>1, GoodConcat
  <2> QED BY <2>3, <2>4
<1> HIDE DEF N, F
<1>4. Nat \subseteq N
  BY <1>2, <1>3, Induction
<1>5. Good(x, F(n), a, a)
  BY <1>4 DEF N
<1> QED BY <1>5 DEF F

LEMMA GoodOne ==
  ASSUME NEW x, NEW O \in [Ranks(x) -> OpSet(x)], NEW a \in Local, NEW b \in Local,
         \A r \in Ranks(x) : May(a, O[r]) /\ Then(a, O[r]) = b,
         \A r, p \in Ranks(x) : /\ Collective(O[r]) <=> Collective(O[p])
                                /\ Collective(O[r]) => OpsAgree(r, p, O[r], O[p])
  PROVE  Good(x, [r \in Ranks(x) |-> <<O[r]>>], a, b)
<1> DEFINE F == [r \in Ranks(x) |-> <<O[r]>>]
<1>1. F \in [Ranks(x) -> Seq(OpSet(x))]
  OBVIOUS
<1>2. \A r \in Ranks(x) : Leads(F[r], a, b)
  BY LeadsOne
<1>3. ASSUME NEW r \in Ranks(x) PROVE CollectivesOf(F[r]) = Chosen(O[r])
  <2>1. /\ CollectivesOf(<<>>) = <<>>
        /\ CollectivesOf(Append(<<>>, O[r])) = CollectivesOf(<<>>) \o Chosen(O[r])
    <3>1. <<>> \in Seq(OpSet(x)) /\ O[r] \in OpSet(x)
      OBVIOUS
    <3> QED BY <3>1, CollectivesAppend
  <2>2. Append(<<>>, O[r]) = F[r] /\ <<>> \o Chosen(O[r]) = Chosen(O[r])
    BY DEF Chosen
  <2> QED BY <2>1, <2>2
<1>4. Matched(x, F)
  <2> SUFFICES ASSUME NEW r \in Ranks(x), NEW p \in Ranks(x)
               PROVE  LET m == CollectivesOf(F[r])
                          t == CollectivesOf(F[p])
                      IN /\ Len(m) = Len(t)
                         /\ \A k \in 1 .. Len(m) : OpsAgree(r, p, m[k], t[k])
    BY DEF Matched
  <2>1. CollectivesOf(F[r]) = Chosen(O[r]) /\ CollectivesOf(F[p]) = Chosen(O[p])
    BY <1>3
  <2>2. CASE Collective(O[r])
    <3>1. Chosen(O[r]) = <<O[r]>> /\ Chosen(O[p]) = <<O[p]>>
      BY <2>2 DEF Chosen
    <3>2. /\ Len(<<O[r]>>) = 1 /\ Len(<<O[p]>>) = 1 /\ <<O[r]>>[1] = O[r] /\ <<O[p]>>[1] = O[p]
          /\ 1 .. 1 = {1}
      OBVIOUS
    <3>3. OpsAgree(r, p, O[r], O[p])
      BY <2>2
    <3> HIDE DEF F
    <3> QED BY <2>1, <3>1, <3>2, <3>3
  <2>3. CASE ~ Collective(O[r])
    <3>1. Chosen(O[r]) = <<>> /\ Chosen(O[p]) = <<>>
      BY <2>3 DEF Chosen
    <3> QED BY <2>1, <3>1
  <2> QED BY <2>2, <2>3
<1> HIDE DEF F
<1> QED BY <1>1, <1>2, <1>4 DEF Good, F

-----------------------------------------------------------------------------
(***************************************************************************)
(* A collective operation, and the ways in which it is executed.           *)
(***************************************************************************)
GoodOp(x, O) ==
  /\ O \in [Ranks(x) -> CollSet(x)]
  /\ \A r, p \in Ranks(x) : OpsAgree(r, p, O[r], O[p])

LEMMA GoodDo ==
  ASSUME NEW x, NEW O, GoodOp(x, O), NEW d \in {"start", "init", "begin", "call"}
  PROVE  GoodOp(x, [r \in Ranks(x) |-> [O[r] EXCEPT !.do = d]])
<1> DEFINE P == [r \in Ranks(x) |-> [O[r] EXCEPT !.do = d]]
<1>1. ASSUME NEW r \in Ranks(x)
      PROVE  /\ P[r] \in CollSet(x) /\ P[r].do = d /\ P[r].what = O[r].what
             /\ P[r].root = O[r].root /\ P[r].recv = O[r].recv /\ P[r].send = O[r].send
             /\ O[r].do # "fence"
  BY DEF GoodOp, CollSet
<1> HIDE DEF P
<1>2. ASSUME NEW r \in Ranks(x), NEW p \in Ranks(x)
      PROVE  OpsAgree(r, p, P[r], P[p])
  <2>1. OpsAgree(r, p, O[r], O[p])
    BY DEF GoodOp
  <2> QED BY <1>1, <2>1 DEF OpsAgree
<1>3. P \in [Ranks(x) -> CollSet(x)]
  BY <1>1 DEF P
<1> QED BY <1>2, <1>3 DEF GoodOp, P

LEMMA GoodColl ==
  ASSUME NEW x, NEW O, GoodOp(x, O), NEW d \in {"start", "init", "begin", "call"},
         NEW a \in Local, May(a, [do |-> d]), Then(a, [do |-> d]) \in Local
  PROVE  Good(x, [r \in Ranks(x) |-> <<[O[r] EXCEPT !.do = d]>>], a, Then(a, [do |-> d]))
<1> DEFINE P == [r \in Ranks(x) |-> [O[r] EXCEPT !.do = d]]
           b == Then(a, [do |-> d])
<1>1. GoodOp(x, P)
  BY GoodDo
<1>2. \A r \in Ranks(x) : P[r].do = d
  BY DEF GoodOp, CollSet
<1>3. \A r \in Ranks(x) : <<[O[r] EXCEPT !.do = d]>> = <<P[r]>>
  OBVIOUS
<1> HIDE DEF P
<1>4. P \in [Ranks(x) -> OpSet(x)]
  BY <1>1 DEF GoodOp, OpSet
<1>5. \A r \in Ranks(x) : May(a, P[r]) /\ Then(a, P[r]) = b
  BY <1>2 DEF May, Then
<1>6. \A r \in Ranks(x) : Collective(P[r])
  BY <1>2 DEF Collective
<1>7. \A r, p \in Ranks(x) : OpsAgree(r, p, P[r], P[p])
  BY <1>1 DEF GoodOp
<1> HIDE DEF b
<1>8. Good(x, [r \in Ranks(x) |-> <<P[r]>>], a, b)
  <2>1. b \in Local
    BY DEF b
  <2> QED BY <1>4, <1>5, <1>6, <1>7, <2>1, GoodOne
<1>9. [r \in Ranks(x) |-> <<[O[r] EXCEPT !.do = d]>>] = [r \in Ranks(x) |-> <<P[r]>>]
  BY <1>3
<1> QED BY <1>8, <1>9 DEF b

(***************************************************************************)
(* An operation that is not collective, the same on all ranks.             *)
(***************************************************************************)
LEMMA GoodSame ==
  ASSUME NEW x, NEW op \in OpSet(x), ~ Collective(op), NEW a \in Local, May(a, op),
         Then(a, op) \in Local
  PROVE  Good(x, [r \in Ranks(x) |-> <<op>>], a, Then(a, op))
<1> DEFINE O == [r \in Ranks(x) |-> op]
           b == Then(a, op)
<1>1. /\ O \in [Ranks(x) -> OpSet(x)] /\ \A r \in Ranks(x) : O[r] = op
      /\ [r \in Ranks(x) |-> <<op>>] = [r \in Ranks(x) |-> <<O[r]>>]
  OBVIOUS
<1> HIDE DEF O, b
<1>2. b \in Local /\ \A r \in Ranks(x) : May(a, O[r]) /\ Then(a, O[r]) = b
  BY <1>1 DEF b
<1>3. \A r \in Ranks(x) : ~ Collective(O[r])
  BY <1>1
<1>4. Good(x, [r \in Ranks(x) |-> <<O[r]>>], a, b)
  BY <1>1, <1>2, <1>3, GoodOne
<1> QED BY <1>1, <1>4 DEF b

(***************************************************************************)
(* Checks and local reductions, on the ranks that have them.               *)
(***************************************************************************)
Quiet(x) == {<<>>} \cup {<<op>> : op \in CheckSet(x) \cup LocalSet(x)}

LEMMA GoodQuiet ==
  ASSUME NEW x, NEW K \in [Ranks(x) -> Quiet(x)], NEW a \in Local
  PROVE  Good(x, K, a, a)
<1>1. ASSUME NEW r \in Ranks(x)
      PROVE  K[r] \in Seq(OpSet(x)) /\ Leads(K[r], a, a) /\ CollectivesOf(K[r]) = <<>>
  <2>1. CASE K[r] = <<>>
    <3>1. CollectivesOf(<<>>) = <<>>
      BY DEF CollectivesOf, FlattenSeq
    <3> QED BY <2>1, <3>1, LeadsNothing
  <2>2. CASE K[r] # <<>>
    <3>1. PICK op \in CheckSet(x) \cup LocalSet(x) : K[r] = <<op>>
      BY <2>2 DEF Quiet
    <3>2. op \in OpSet(x) /\ op.do \in {"check", "local"}
      BY <3>1 DEF OpSet, CheckSet, LocalSet
    <3>3. May(a, op) /\ Then(a, op) = a /\ ~ Collective(op)
      BY <3>2 DEF May, Then, Collective, Local
    <3>4. Leads(<<op>>, a, a)
      BY <3>3, LeadsOne
    <3>5. /\ CollectivesOf(<<>>) = <<>>
          /\ CollectivesOf(Append(<<>>, op)) = CollectivesOf(<<>>) \o Chosen(op)
      <4>1. <<>> \in Seq(OpSet(x))
        OBVIOUS
      <4> QED BY <3>2, <4>1, CollectivesAppend
    <3>6. Append(<<>>, op) = <<op>> /\ Chosen(op) = <<>> /\ <<>> \o <<>> = <<>>
      BY <3>3 DEF Chosen
    <3>7. CollectivesOf(<<op>>) = <<>>
      BY <3>5, <3>6
    <3>8. <<op>> \in Seq(OpSet(x))
      BY <3>2
    <3> QED BY <3>1, <3>4, <3>7, <3>8
  <2> QED BY <2>1, <2>2
<1>2. K \in [Ranks(x) -> Seq(OpSet(x))]
  BY <1>1
<1>3. Matched(x, K)
  BY <1>1 DEF Matched
<1> QED BY <1>1, <1>2, <1>3 DEF Good

-----------------------------------------------------------------------------
LEMMA GoodBlocking ==
  ASSUME NEW x, NEW O, GoodOp(x, O), NEW a \in Local, a.req \in {"null", "inactive"}
  PROVE  Good(x, [r \in Ranks(x) |-> Blocking(O[r])], a, a)
<1> DEFINE F == [r \in Ranks(x) |-> <<[O[r] EXCEPT !.do = "call"]>>]
           G == [r \in Ranks(x) |-> <<[do |-> "return"]>>]
<1>1. Then(a, [do |-> "call"]) = a /\ May(a, [do |-> "call"])
  BY DEF Then, May, Local
<1>2. Good(x, F, a, a)
  BY <1>1, GoodColl
<1>3. Good(x, G, a, a)
  <2>1. [do |-> "return"] \in OpSet(x) /\ ~ Collective([do |-> "return"])
    BY DEF OpSet, Collective
  <2>2. May(a, [do |-> "return"]) /\ Then(a, [do |-> "return"]) = a
    BY DEF May, Then, Local
  <2> QED BY <2>1, <2>2, GoodSame
<1>4. [r \in Ranks(x) |-> Blocking(O[r])] = [r \in Ranks(x) |-> F[r] \o G[r]]
  BY DEF Blocking
<1> HIDE DEF F, G
<1>5. Good(x, [r \in Ranks(x) |-> F[r] \o G[r]], a, a)
  BY <1>2, <1>3, GoodConcat
<1> QED BY <1>4, <1>5

LEMMA GoodWait ==
  ASSUME NEW x, NEW a \in Local, a.req \in {"started", "begun"}
  PROVE  Good(x, [r \in Ranks(x) |-> Wait1], a,
              [req |-> IF a.req = "begun" THEN "inactive" ELSE "null", reps |-> a.reps])
<1>1. [do |-> "wait"] \in OpSet(x) /\ ~ Collective([do |-> "wait"])
  BY DEF OpSet, Collective
<1>2. /\ May(a, [do |-> "wait"]) /\ Then(a, [do |-> "wait"]) \in Local
      /\ Then(a, [do |-> "wait"]) =
           [req |-> IF a.req = "begun" THEN "inactive" ELSE "null", reps |-> a.reps]
  BY DEF May, Then, Local
<1> QED BY <1>1, <1>2, GoodSame DEF Wait1

LEMMA GoodExploit ==
  ASSUME NEW x, NEW a \in Local, NEW i \in {0, 1}, i = 0 => a.reps
  PROVE  Good(x, [r \in Ranks(x) |-> IMB_cpu_exploit(i)], a, [req |-> a.req, reps |-> TRUE])
<1> DEFINE op == [do |-> "exploit", initialize |-> i]
<1>1. op \in OpSet(x) /\ ~ Collective(op)
  BY DEF OpSet, Collective
<1>2. May(a, op) /\ Then(a, op) \in Local /\ Then(a, op) = [req |-> a.req, reps |-> TRUE]
  BY DEF May, Then, Local
<1> QED BY <1>1, <1>2, GoodSame DEF IMB_cpu_exploit

Idle(b) == [req |-> "null", reps |-> b]

LEMMA GoodOverlapped ==
  ASSUME NEW x, NEW O, GoodOp(x, O), \A r \in Ranks(x) : O[r].do = "start"
  PROVE  Good(x, [r \in Ranks(x) |-> Overlapped(O[r])], Idle(TRUE), Idle(TRUE))
<1> DEFINE s == [req |-> "started", reps |-> TRUE]
           F == [r \in Ranks(x) |-> <<[O[r] EXCEPT !.do = "start"]>>]
           G == [r \in Ranks(x) |-> IMB_cpu_exploit(0)]
           H == [r \in Ranks(x) |-> Wait1]
           I == [r \in Ranks(x) |-> F[r] \o G[r]]
<1>1. s \in Local /\ Idle(TRUE) \in Local
  BY DEF Local, Idle
<1>2. Good(x, F, Idle(TRUE), s)
  <2>1. May(Idle(TRUE), [do |-> "start"]) /\ Then(Idle(TRUE), [do |-> "start"]) = s
    BY DEF May, Then, Idle
  <2> QED BY <1>1, <2>1, GoodColl
<1>3. Good(x, G, s, s)
  BY <1>1, GoodExploit
<1>4. Good(x, H, s, Idle(TRUE))
  BY <1>1, GoodWait DEF Idle
<1>5. \A r \in Ranks(x) : [O[r] EXCEPT !.do = "start"] = O[r]
  BY DEF GoodOp, CollSet
<1>6. [r \in Ranks(x) |-> Overlapped(O[r])] = [r \in Ranks(x) |-> I[r] \o H[r]]
  BY <1>5 DEF Overlapped
<1>7. Good(x, I, Idle(TRUE), s)
  BY <1>2, <1>3, GoodConcat
<1> HIDE DEF H, I
<1>8. Good(x, [r \in Ranks(x) |-> I[r] \o H[r]], Idle(TRUE), Idle(TRUE))
  BY <1>4, <1>7, GoodConcat
<1> QED BY <1>6, <1>8

-----------------------------------------------------------------------------
(***************************************************************************)
(* The buffers of a call have a length.                                    *)
(***************************************************************************)
LEMMA AllocNat ==
  ASSUME NEW x, CallNumbers(x)
  PROVE  S_alloc(x) \in Nat /\ R_alloc(x) \in Nat
<1>1. S_len(x) \in Nat /\ R_len(x) \in Nat
  BY LengthNat DEF CallNumbers
<1>2. /\ S(x, 0) \in Nat /\ S(x, 0) + S_len(x) <= S_alloc(x)
      /\ R(x, 0) \in Nat /\ R(x, 0) + R_len(x) <= R_alloc(x)
  BY MessagesInside DEF CallNumbers
<1>3. ASSUME NEW len \in Nat PROVE Cache_iter(x, len) * Offs(x, len) \in Nat
  <2>1. CASE use_off_cache(x)
    <3>1. Offs(x, len) \in Nat /\ Cache_iter(x, len) \in Nat
      BY <2>1, OffsFacts DEF CallNumbers
    <3> QED BY <3>1
  <2>2. CASE ~ use_off_cache(x)
    BY <2>2 DEF Offs, Cache_iter
  <2> QED BY <2>1, <2>2
<1> QED BY <1>1, <1>3 DEF S_alloc, R_alloc, Most

LEMMA CollTyped ==
  ASSUME NEW x, NEW what \in Operations, NEW root \in Nat, NEW send \in [Ranks(x) -> Nat \X Nat],
         NEW recv \in SUBSET [from : SUBSET Ranks(x), at : Nat, n : Nat],
         \A p \in Ranks(x) : send[p][1] + send[p][2] <= S_alloc(x),
         \A part \in recv : part.at + part.n <= R_alloc(x)
  PROVE  Coll(what, root, send, recv) \in CollSet(x)
<1> DEFINE Dos == {"start", "init", "begin", "call"}
           Sends == [Ranks(x) -> Nat \X Nat]
           Recvs == SUBSET [from : SUBSET Ranks(x), at : Nat, n : Nat]
           op == [do |-> "start", what |-> what, root |-> root, send |-> send, recv |-> recv]
<1>1. "start" \in Dos /\ send \in Sends /\ recv \in Recvs
  OBVIOUS
<1>2. op.send = send /\ op.recv = recv
  OBVIOUS
<1> HIDE DEF Dos, Sends, Recvs
<1>3. op \in [do : Dos, what : Operations, root : Nat, send : Sends, recv : Recvs]
  BY <1>1
<1> HIDE DEF op
<1> QED BY <1>2, <1>3 DEF CollSet, Coll, op, Dos, Sends, Recvs

LEMMA BarrierGood ==
  ASSUME NEW x, CallNumbers(x)
  PROVE  GoodOp(x, [r \in Ranks(x) |-> BarrierOp(x)]) /\ BarrierOp(x).do = "start"
<1> DEFINE op == BarrierOp(x)
           part == [from |-> Ranks(x), at |-> 0, n |-> 0]
           send == [p \in Ranks(x) |-> <<0, 0>>]
<1>1. op = Coll("Barrier", 0, send, {part})
  BY DEF BarrierOp, ToEach, Part
<1>2. op \in CollSet(x)
  <2>1. S_alloc(x) \in Nat /\ R_alloc(x) \in Nat
    BY AllocNat
  <2>2. send \in [Ranks(x) -> Nat \X Nat] /\ \A p \in Ranks(x) : send[p][1] + send[p][2] = 0
    OBVIOUS
  <2>3. {part} \in SUBSET [from : SUBSET Ranks(x), at : Nat, n : Nat] /\ part.at + part.n = 0
    OBVIOUS
  <2>4. \A p \in Ranks(x) : send[p][1] + send[p][2] <= S_alloc(x)
    BY <2>1, <2>2
  <2>5. \A y \in {part} : y.at + y.n <= R_alloc(x)
    BY <2>1, <2>3
  <2> HIDE DEF op, send, part
  <2>6. "Barrier" \in Operations /\ 0 \in Nat
    BY DEF Operations
  <2>7. Coll("Barrier", 0, send, {part}) \in CollSet(x)
    BY <2>2, <2>3, <2>4, <2>5, <2>6, CollTyped
  <2> QED BY <1>1, <2>7
<1>3. /\ op.do = "start" /\ op.send = send /\ op.recv = {part}
  BY <1>1 DEF Coll
<1>4. ASSUME NEW r \in Ranks(x), NEW p \in Ranks(x) PROVE OpsAgree(r, p, op, op)
  <2>1. {y \in {part} : p \in y.from} = {part} /\ part.n = 0 /\ send[r][2] = 0
    OBVIOUS
  <2> HIDE DEF op, send, part
  <2>2. {y.n : y \in {z \in op.recv : p \in z.from}} = {0} /\ op.send[r][2] = 0
    BY <1>3, <2>1
  <2> QED BY <2>2 DEF OpsAgree
<1> HIDE DEF op
<1> QED BY <1>2, <1>3, <1>4 DEF GoodOp, op

LEMMA BarriersGood ==
  ASSUME NEW x, CallNumbers(x), NEW n \in Nat, NEW a \in Local, a.req \in {"null", "inactive"}
  PROVE  Good(x, [r \in Ranks(x) |-> IMB_do_n_barriers(x, n)], a, a)
<1> DEFINE O == [r \in Ranks(x) |-> BarrierOp(x)]
           G == [i \in 1 .. n |-> [r \in Ranks(x) |-> Blocking(O[r])]]
<1>1. \A i \in 1 .. n : Good(x, G[i], a, a)
  BY BarrierGood, GoodBlocking
<1>2. Good(x, [r \in Ranks(x) |-> FlattenSeq([i \in 1 .. n |-> G[i][r]])], a, a)
  <2> HIDE DEF G
  <2> QED BY <1>1, GoodLoop
<1>3. ASSUME NEW r \in Ranks(x)
      PROVE  IMB_do_n_barriers(x, n) = FlattenSeq([i \in 1 .. n |-> G[i][r]])
  <2>1. [i \in 1 .. n |-> G[i][r]] = [i \in 1 .. n |-> Blocking(BarrierOp(x))]
    OBVIOUS
  <2> QED BY <2>1 DEF IMB_do_n_barriers, Loop, BarrierOp
<1> HIDE DEF G
<1>4. [r \in Ranks(x) |-> IMB_do_n_barriers(x, n)]
        = [r \in Ranks(x) |-> FlattenSeq([i \in 1 .. n |-> G[i][r]])]
  BY <1>3
<1> QED BY <1>2, <1>4

(***************************************************************************)
(* The three loops.                                                        *)
(***************************************************************************)
MeasuredRuns(x, B) ==
  [r \in Ranks(x) |->
     IMB_do_n_barriers(x, N_BARR)
       \o FlattenSeq([i \in 1 .. x.n |-> B[i - 1][r] \o IMB_do_n_barriers(x, x.sync)])]

LEMMA MeasuredGood ==
  ASSUME NEW x, CallNumbers(x), NEW B, NEW a \in Local, a.req \in {"null", "inactive"},
         \A i \in Nat : Good(x, B[i], a, a)
  PROVE  Good(x, MeasuredRuns(x, B), a, a)
<1> DEFINE F == [r \in Ranks(x) |-> IMB_do_n_barriers(x, N_BARR)]
           Sync == [r \in Ranks(x) |-> IMB_do_n_barriers(x, x.sync)]
           G == [i \in 1 .. x.n |-> [r \in Ranks(x) |-> B[i - 1][r] \o Sync[r]]]
           H == [r \in Ranks(x) |-> FlattenSeq([i \in 1 .. x.n |-> G[i][r]])]
<1>0. x.n \in Nat /\ x.sync \in Nat /\ N_BARR \in Nat
  BY DEF CallNumbers, CallAssumption, N_BARR
<1>1. Good(x, F, a, a) /\ Good(x, Sync, a, a)
  BY <1>0, BarriersGood
<1>2. ASSUME NEW i \in 1 .. x.n PROVE Good(x, G[i], a, a)
  <2>1. Good(x, B[i - 1], a, a)
    BY <1>0
  <2> HIDE DEF Sync
  <2>2. Good(x, [r \in Ranks(x) |-> B[i - 1][r] \o Sync[r]], a, a)
    BY <1>1, <2>1, GoodConcat
  <2> QED BY <2>2
<1>3. Good(x, H, a, a)
  <2> HIDE DEF G
  <2> QED BY <1>0, <1>2, GoodLoop
<1>4. Good(x, [r \in Ranks(x) |-> F[r] \o H[r]], a, a)
  <2> HIDE DEF F, H
  <2> QED BY <1>1, <1>3, GoodConcat
<1>5. ASSUME NEW r \in Ranks(x)
      PROVE  [i \in 1 .. x.n |-> G[i][r]]
               = [i \in 1 .. x.n |-> B[i - 1][r] \o IMB_do_n_barriers(x, x.sync)]
  OBVIOUS
<1>6. MeasuredRuns(x, B) = [r \in Ranks(x) |-> F[r] \o H[r]]
  <2> HIDE DEF G
  <2> QED BY <1>5 DEF MeasuredRuns
<1> QED BY <1>4, <1>6

UnsyncedRuns(x, B) ==
  [r \in Ranks(x) |->
     IMB_do_n_barriers(x, N_BARR) \o FlattenSeq([i \in 1 .. x.n |-> B[r]])]

LEMMA UnsyncedGood ==
  ASSUME NEW x, CallNumbers(x), NEW B, NEW a \in Local, a.req \in {"null", "inactive"},
         Good(x, B, a, a)
  PROVE  Good(x, UnsyncedRuns(x, B), a, a)
<1> DEFINE F == [r \in Ranks(x) |-> IMB_do_n_barriers(x, N_BARR)]
           G == [i \in 1 .. x.n |-> B]
           H == [r \in Ranks(x) |-> FlattenSeq([i \in 1 .. x.n |-> G[i][r]])]
<1>0. x.n \in Nat /\ N_BARR \in Nat
  BY DEF CallNumbers, CallAssumption, N_BARR
<1>1. Good(x, F, a, a)
  BY <1>0, BarriersGood
<1>2. \A i \in 1 .. x.n : Good(x, G[i], a, a)
  OBVIOUS
<1>3. Good(x, H, a, a)
  <2> HIDE DEF G
  <2> QED BY <1>0, <1>2, GoodLoop
<1>4. Good(x, [r \in Ranks(x) |-> F[r] \o H[r]], a, a)
  <2> HIDE DEF F, H
  <2> QED BY <1>1, <1>3, GoodConcat
<1>5. \A r \in Ranks(x) : [i \in 1 .. x.n |-> G[i][r]] = [i \in 1 .. x.n |-> B[r]]
  OBVIOUS
<1>6. UnsyncedRuns(x, B) = [r \in Ranks(x) |-> F[r] \o H[r]]
  <2> HIDE DEF G
  <2> QED BY <1>5 DEF UnsyncedRuns
<1> QED BY <1>4, <1>6

AgainRuns(x, O, compute) ==
  [r \in Ranks(x) |->
     <<[O[r] EXCEPT !.do = "begin"]>> \o If(compute, IMB_cpu_exploit(0)) \o Wait1]

LEMMA AgainGood ==
  ASSUME NEW x, NEW O, GoodOp(x, O), NEW compute \in BOOLEAN, NEW b \in BOOLEAN, compute => b
  PROVE  Good(x, AgainRuns(x, O, compute), [req |-> "inactive", reps |-> b],
              [req |-> "inactive", reps |-> b])
<1> DEFINE a == [req |-> "inactive", reps |-> b]
           s == [req |-> "begun", reps |-> b]
           F == [r \in Ranks(x) |-> <<[O[r] EXCEPT !.do = "begin"]>>]
           G == [r \in Ranks(x) |-> If(compute, IMB_cpu_exploit(0))]
           H == [r \in Ranks(x) |-> Wait1]
           I == [r \in Ranks(x) |-> F[r] \o G[r]]
<1>1. s \in Local /\ a \in Local
  BY DEF Local
<1>2. Good(x, F, a, s)
  <2>1. May(a, [do |-> "begin"]) /\ Then(a, [do |-> "begin"]) = s
    BY DEF May, Then
  <2> QED BY <1>1, <2>1, GoodColl
<1>3. Good(x, G, s, s)
  <2>1. CASE compute
    <3>1. If(compute, IMB_cpu_exploit(0)) = IMB_cpu_exploit(0)
      BY <2>1 DEF If
    <3>2. Good(x, [r \in Ranks(x) |-> IMB_cpu_exploit(0)], s, [req |-> s.req, reps |-> TRUE])
      BY <1>1, <2>1, GoodExploit
    <3> QED BY <2>1, <3>1, <3>2
  <2>2. CASE ~ compute
    <3>1. If(compute, IMB_cpu_exploit(0)) = <<>>
      BY <2>2 DEF If
    <3> QED BY <1>1, <3>1, GoodNothing
  <2> QED BY <2>1, <2>2
<1>4. Good(x, H, s, a)
  BY <1>1, GoodWait
<1>5. Good(x, I, a, s)
  BY <1>2, <1>3, GoodConcat
<1>6. AgainRuns(x, O, compute) = [r \in Ranks(x) |-> I[r] \o H[r]]
  BY DEF AgainRuns
<1> HIDE DEF H, I
<1>7. Good(x, [r \in Ranks(x) |-> I[r] \o H[r]], a, a)
  BY <1>4, <1>5, GoodConcat
<1> QED BY <1>6, <1>7

PersistentRuns(x, O, compute, K, synced) ==
  [r \in Ranks(x) |->
     IMB_do_n_barriers(x, N_BARR)
       \o <<[O[r] EXCEPT !.do = "init"]>>
       \o FlattenSeq([i \in 1 .. x.n |-> AgainRuns(x, O, compute)[r] \o K[i - 1][r]
                                           \o If(synced, IMB_do_n_barriers(x, x.sync))])
       \o <<[do |-> "free"]>>]

LEMMA PersistentGood ==
  ASSUME NEW x, CallNumbers(x), NEW O, GoodOp(x, O), NEW compute \in BOOLEAN,
         NEW K, \A i \in Nat : K[i] \in [Ranks(x) -> Quiet(x)], NEW synced \in BOOLEAN,
         NEW b \in BOOLEAN, compute => b
  PROVE  Good(x, PersistentRuns(x, O, compute, K, synced), Idle(b), Idle(b))
<1> DEFINE a == [req |-> "inactive", reps |-> b]
           E == [r \in Ranks(x) |-> IMB_do_n_barriers(x, N_BARR)]
           F == [r \in Ranks(x) |-> <<[O[r] EXCEPT !.do = "init"]>>]
           A == AgainRuns(x, O, compute)
           Sync == [r \in Ranks(x) |-> If(synced, IMB_do_n_barriers(x, x.sync))]
           AK(i) == [r \in Ranks(x) |-> A[r] \o K[i - 1][r]]
           G == [i \in 1 .. x.n |-> [r \in Ranks(x) |-> AK(i)[r] \o Sync[r]]]
           H == [r \in Ranks(x) |-> FlattenSeq([i \in 1 .. x.n |-> G[i][r]])]
           I == [r \in Ranks(x) |-> <<[do |-> "free"]>>]
           EF == [r \in Ranks(x) |-> E[r] \o F[r]]
           EFH == [r \in Ranks(x) |-> EF[r] \o H[r]]
<1>0. x.n \in Nat /\ x.sync \in Nat /\ N_BARR \in Nat
  BY DEF CallNumbers, CallAssumption, N_BARR
<1>1. a \in Local /\ Idle(b) \in Local
  BY DEF Local, Idle
<1>2. Good(x, E, Idle(b), Idle(b))
  BY <1>0, <1>1, BarriersGood DEF Idle
<1>3. Good(x, F, Idle(b), a)
  <2>1. May(Idle(b), [do |-> "init"]) /\ Then(Idle(b), [do |-> "init"]) = a
    BY DEF May, Then, Idle
  <2> QED BY <1>1, <2>1, GoodColl
<1>4. Good(x, A, a, a)
  BY AgainGood
<1>5. Good(x, Sync, a, a)
  <2>1. CASE synced
    <3>1. If(synced, IMB_do_n_barriers(x, x.sync)) = IMB_do_n_barriers(x, x.sync)
      BY <2>1 DEF If
    <3> QED BY <1>0, <1>1, <3>1, BarriersGood
  <2>2. CASE ~ synced
    <3>1. If(synced, IMB_do_n_barriers(x, x.sync)) = <<>>
      BY <2>2 DEF If
    <3> QED BY <1>1, <3>1, GoodNothing
  <2> QED BY <2>1, <2>2
<1>6. ASSUME NEW i \in 1 .. x.n PROVE Good(x, G[i], a, a)
  <2> HIDE DEF a, A, Sync
  <2>1. Good(x, K[i - 1], a, a)
    BY <1>0, <1>1, GoodQuiet
  <2>2. Good(x, AK(i), a, a)
    BY <1>4, <2>1, GoodConcat
  <2> HIDE DEF AK
  <2>3. Good(x, [r \in Ranks(x) |-> AK(i)[r] \o Sync[r]], a, a)
    BY <1>5, <2>2, GoodConcat
  <2> QED BY <2>3
<1>7. Good(x, H, a, a)
  <2> HIDE DEF G, a
  <2>1. \A i \in 1 .. x.n : Good(x, G[i], a, a)
    BY <1>6
  <2>2. x.n \in Nat /\ a \in Local
    BY <1>0, <1>1
  <2> QED BY <2>1, <2>2, GoodLoop
<1>8. Good(x, I, a, Idle(b))
  <2>1. [do |-> "free"] \in OpSet(x) /\ ~ Collective([do |-> "free"])
    BY DEF OpSet, Collective
  <2>2. May(a, [do |-> "free"]) /\ Then(a, [do |-> "free"]) = Idle(b)
    BY DEF May, Then, Idle
  <2> QED BY <1>1, <2>1, <2>2, GoodSame
<1>9. PersistentRuns(x, O, compute, K, synced) = [r \in Ranks(x) |-> EFH[r] \o I[r]]
  <2>1. ASSUME NEW r \in Ranks(x)
        PROVE  [i \in 1 .. x.n |-> G[i][r]]
                 = [i \in 1 .. x.n |-> AgainRuns(x, O, compute)[r] \o K[i - 1][r]
                                         \o If(synced, IMB_do_n_barriers(x, x.sync))]
    OBVIOUS
  <2> HIDE DEF G
  <2> QED BY <2>1 DEF PersistentRuns
<1> HIDE DEF E, F, H, I, a
<1>10. Good(x, EF, Idle(b), a)
  BY <1>2, <1>3, GoodConcat
<1> HIDE DEF EF
<1>11. Good(x, EFH, Idle(b), a)
  BY <1>7, <1>10, GoodConcat
<1> HIDE DEF EFH
<1>12. Good(x, [r \in Ranks(x) |-> EFH[r] \o I[r]], Idle(b), Idle(b))
  BY <1>8, <1>11, GoodConcat
<1> QED BY <1>9, <1>12

-----------------------------------------------------------------------------
(***************************************************************************)
(* How long the buffers are for each of the flags.                         *)
(***************************************************************************)
Message(x) == Most(x.size, asize)

LEMMA LengthsOf ==
  ASSUME NEW x, NEW s \in Sendbuf, NEW r \in Recvbuf, HasBuffers(x, {s, r})
  PROVE  S_len(x) = descr2len(s, Message(x), x.np) /\ R_len(x) = descr2len(r, Message(x), x.np)
<1>1. Sendbuf \cap Recvbuf = {}
  BY DEF Sendbuf, Recvbuf
<1>2. /\ \A flag \in Sendbuf : flag \in x.flags <=> flag = s
      /\ \A flag \in Recvbuf : flag \in x.flags <=> flag = r
  BY <1>1 DEF HasBuffers
<1>3. The(Sendbuf, x.flags) = s /\ The(Recvbuf, x.flags) = r
  BY <1>2 DEF The
<1> QED BY <1>3 DEF S_len, R_len, Message

LEMMA Lengths ==
  ASSUME NEW x
  PROVE  /\ HasBuffers(x, One) => S_len(x) = Message(x) /\ R_len(x) = Message(x)
         /\ HasBuffers(x, Gathering) => S_len(x) = Message(x) /\ R_len(x) = x.np * Message(x)
         /\ HasBuffers(x, Scattering) => S_len(x) = x.np * Message(x) /\ R_len(x) = Message(x)
         /\ HasBuffers(x, Total2) => S_len(x) = x.np * Message(x) /\ R_len(x) = x.np * Message(x)
<1>1. /\ "SENDBUF_SIZE_I" \in Sendbuf /\ "SENDBUF_SIZE_NP_I" \in Sendbuf
      /\ "RECVBUF_SIZE_I" \in Recvbuf /\ "RECVBUF_SIZE_NP_I" \in Recvbuf
  BY DEF Sendbuf, Recvbuf
<1>2. \A m : /\ descr2len("SENDBUF_SIZE_I", m, x.np) = m
             /\ descr2len("RECVBUF_SIZE_I", m, x.np) = m
             /\ descr2len("SENDBUF_SIZE_NP_I", m, x.np) = x.np * m
             /\ descr2len("RECVBUF_SIZE_NP_I", m, x.np) = x.np * m
  BY DEF descr2len
<1>3. HasBuffers(x, One) => S_len(x) = Message(x) /\ R_len(x) = Message(x)
  BY <1>1, <1>2, LengthsOf DEF One
<1>4. HasBuffers(x, Gathering) => S_len(x) = Message(x) /\ R_len(x) = x.np * Message(x)
  BY <1>1, <1>2, LengthsOf DEF Gathering
<1>5. HasBuffers(x, Scattering) => S_len(x) = x.np * Message(x) /\ R_len(x) = Message(x)
  BY <1>1, <1>2, LengthsOf DEF Scattering
<1>6. HasBuffers(x, Total2) => S_len(x) = x.np * Message(x) /\ R_len(x) = x.np * Message(x)
  BY <1>1, <1>2, LengthsOf DEF Total2
<1> QED BY <1>3, <1>4, <1>5, <1>6

LEMMA RankPlace ==
  ASSUME NEW np \in Nat \ {0}, NEW p \in 0 .. np - 1, NEW s \in Nat, NEW m \in Nat, s <= m
  PROVE  p * s \in Nat /\ p * s + s <= np * m /\ np * s \in Nat /\ np * s <= np * m
<1>1. p * s + s = (p + 1) * s /\ p * s \in Nat /\ np * s \in Nat
  OBVIOUS
<1>2. (p + 1) * s <= np * s
  OBVIOUS
<1>3. np * s <= np * m
  OBVIOUS
<1>4. (p + 1) * s \in Nat /\ np * m \in Nat
  OBVIOUS
<1> QED BY <1>1, <1>2, <1>3, <1>4

LEMMA Sizes ==
  ASSUME NEW x, CallNumbers(x)
  PROVE  /\ x.np \in Nat \ {0} /\ x.size \in Nat /\ Message(x) \in Nat /\ x.size <= Message(x)
         /\ Elements(x) \in Nat /\ Elements(x) <= x.size /\ Elements(x) <= Message(x)
         /\ x.np * x.size \in Nat /\ x.np * x.size <= x.np * Message(x)
         /\ \A p \in Ranks(x) :
              /\ p * x.size \in Nat /\ p * x.size + x.size <= x.np * Message(x)
              /\ p * Elements(x) \in Nat /\ p * Elements(x) + Elements(x) <= x.np * Message(x)
<1>1. x.np \in Nat \ {0} /\ x.size \in Nat /\ Message(x) \in Nat /\ x.size <= Message(x)
  BY DEF CallNumbers, CallAssumption, Message, Most, asize
<1>2. Elements(x) \in Nat /\ Elements(x) <= x.size
  BY <1>1 DEF Elements, asize
<1>3. Elements(x) <= Message(x)
  BY <1>1, <1>2
<1>4. 0 \in 0 .. x.np - 1
  BY <1>1
<1>5. x.np * x.size \in Nat /\ x.np * x.size <= x.np * Message(x)
  BY <1>1, <1>4, RankPlace
<1>6. ASSUME NEW p \in Ranks(x)
      PROVE  /\ p * x.size \in Nat /\ p * x.size + x.size <= x.np * Message(x)
             /\ p * Elements(x) \in Nat /\ p * Elements(x) + Elements(x) <= x.np * Message(x)
  <2>1. p \in 0 .. x.np - 1
    BY DEF Ranks
  <2> QED BY <1>1, <1>2, <1>3, <2>1, RankPlace
<1> QED BY <1>1, <1>2, <1>3, <1>5, <1>6

LEMMA Roots ==
  ASSUME NEW x, CallNumbers(x), NEW i \in Nat
  PROVE  Root(x, i) \in Ranks(x) /\ i % x.np \in Ranks(x) /\ 0 \in Ranks(x)
<1>1. x.np \in Nat \ {0} /\ i * x.shift \in Nat
  BY DEF CallNumbers
<1>2. \A j \in Nat : j % x.np \in 0 .. x.np - 1
  BY <1>1
<1>3. (i * x.shift) % x.np \in 0 .. x.np - 1 /\ i % x.np \in 0 .. x.np - 1
  BY <1>1, <1>2
<1> QED BY <1>1, <1>3 DEF Root, Ranks

-----------------------------------------------------------------------------
(***************************************************************************)
(* What makes an operation good.                                           *)
(***************************************************************************)
PartSet(x) == [from : SUBSET Ranks(x), at : Nat, n : Nat]

Expects(recv, p) == {part.n : part \in {y \in recv : p \in y.from}}

Fits(x, send, recv) ==
  /\ send \in [Ranks(x) -> Nat \X Nat] /\ recv \in SUBSET PartSet(x)
  /\ \A p \in Ranks(x) : send[p][1] + send[p][2] <= S_alloc(x)
  /\ \A part \in recv : part.at + part.n <= R_alloc(x)

OnRanks(x, O) == O = [r \in Ranks(x) |-> O[r]]

Meets(x, O, what, root, send, recv) ==
  /\ OnRanks(x, O) /\ what \in Operations /\ root \in Nat
  /\ \A r \in Ranks(x) : Fits(x, send[r], recv[r]) /\ O[r] = Coll(what, root, send[r], recv[r])
  /\ \A r, p \in Ranks(x) : Expects(recv[r], p) \cup {0} = {send[p][r][2], 0}

LEMMA OpGood ==
  ASSUME NEW x, NEW what, NEW root, NEW send, NEW recv, NEW O, Meets(x, O, what, root, send, recv)
  PROVE  GoodOp(x, O) /\ \A r \in Ranks(x) : O[r].do = "start"
<1>0. what \in Operations /\ root \in Nat
  BY DEF Meets
<1>1. ASSUME NEW r \in Ranks(x)
      PROVE  /\ O[r] \in CollSet(x) /\ O[r].do = "start" /\ O[r].what = what /\ O[r].root = root
             /\ O[r].send = send[r] /\ O[r].recv = recv[r]
  <2>1. Fits(x, send[r], recv[r]) /\ O[r] = Coll(what, root, send[r], recv[r])
    BY DEF Meets
  <2>2. Coll(what, root, send[r], recv[r]) \in CollSet(x)
    BY <1>0, <2>1, CollTyped DEF Fits, PartSet
  <2> QED BY <2>1, <2>2 DEF Coll
<1>2. ASSUME NEW r \in Ranks(x), NEW p \in Ranks(x) PROVE OpsAgree(r, p, O[r], O[p])
  <2>1. Expects(recv[r], p) \cup {0} = {send[p][r][2], 0}
    BY DEF Meets
  <2> QED BY <1>1, <2>1 DEF OpsAgree, Expects
<1>3. O \in [Ranks(x) -> CollSet(x)]
  BY <1>1 DEF OnRanks, Meets
<1> QED BY <1>1, <1>2, <1>3 DEF GoodOp

LEMMA ExpectsOne ==
  ASSUME NEW from, NEW at, NEW n, NEW p
  PROVE  /\ Expects({}, p) = {}
         /\ Expects({Part(from, at, n)}, p) = IF p \in from THEN {n} ELSE {}
<1> DEFINE part == Part(from, at, n)
<1>1. part.n = n /\ part.from = from
  BY DEF Part
<1> HIDE DEF part
<1>2. Expects({}, p) = {}
  BY DEF Expects
<1>3. CASE p \in from
  <2>1. {y \in {part} : p \in y.from} = {part}
    BY <1>1, <1>3
  <2>2. Expects({part}, p) = {n}
    BY <1>1, <2>1 DEF Expects
  <2> QED BY <1>2, <1>3, <2>2 DEF part
<1>4. CASE p \notin from
  <2>1. {y \in {part} : p \in y.from} = {}
    BY <1>1, <1>4
  <2>2. Expects({part}, p) = {}
    BY <2>1 DEF Expects
  <2> QED BY <1>2, <1>4, <2>2 DEF part
<1> QED BY <1>3, <1>4

LEMMA ExpectsEach ==
  ASSUME NEW T, NEW at, NEW n, NEW p \in T
  PROVE  Expects({Part({q}, at[q], n) : q \in T}, p) = {n}
<1> DEFINE parts == {Part({q}, at[q], n) : q \in T}
<1>1. \A part \in parts : part.n = n
  BY DEF Part
<1>2. Part({p}, at[p], n) \in {y \in parts : p \in y.from}
  BY DEF Part
<1> HIDE DEF parts
<1>3. {part.n : part \in {y \in parts : p \in y.from}} = {n}
  BY <1>1, <1>2
<1> QED BY <1>3 DEF Expects, parts

LEMMA CheckQuiet ==
  ASSUME NEW x, NEW buf \in {"s", "r"}, NEW at \in Nat, NEW pos \in Nat, NEW loc \in Nat,
         NEW total \in Nat, NEW unit \in Nat, NEW mode \in {"put", "local"}, NEW source \in Int,
         at + total <= IF buf = "s" THEN S_alloc(x) ELSE R_alloc(x), NEW b \in BOOLEAN
  PROVE  /\ Chk(buf, at, pos, loc, total, unit, mode, source) \in Quiet(x)
         /\ If(b, Chk(buf, at, pos, loc, total, unit, mode, source)) \in Quiet(x)
         /\ <<>> \in Quiet(x)
<1> DEFINE op == [do |-> "check", buf |-> buf, at |-> at, buf_pos |-> pos, Locsize |-> loc,
                  Totalsize |-> total, unit |-> unit, mode |-> mode, source |-> source]
<1>1. op \in CheckSet(x)
  BY DEF CheckSet
<1>2. Chk(buf, at, pos, loc, total, unit, mode, source) = <<op>>
  BY DEF Chk
<1> HIDE DEF op
<1> QED BY <1>1, <1>2 DEF Quiet, If

-----------------------------------------------------------------------------
(***************************************************************************)
(* Places of messages: in the buffers wherever the i-th is.                *)
(***************************************************************************)
LEMMA Rooms ==
  ASSUME NEW x, CallNumbers(x), NEW i \in Nat
  PROVE  /\ S(x, i) \in Nat /\ R(x, i) \in Nat /\ S_alloc(x) \in Nat /\ R_alloc(x) \in Nat
         /\ \A n \in Nat : /\ n <= S_len(x) => S(x, i) + n <= S_alloc(x)
                           /\ n <= R_len(x) => R(x, i) + n <= R_alloc(x)
<1>1. S_len(x) \in Nat /\ R_len(x) \in Nat
  BY LengthNat DEF CallNumbers
<1>2. /\ S(x, i) \in Nat /\ S(x, i) + S_len(x) <= S_alloc(x)
      /\ R(x, i) \in Nat /\ R(x, i) + R_len(x) <= R_alloc(x)
  BY MessagesInside DEF CallNumbers
<1> QED BY <1>1, <1>2, AllocNat

(***************************************************************************)
(* Bcast uses the places of the send buffer in both.                       *)
(***************************************************************************)
LEMMA BcastGood ==
  ASSUME NEW x, CallNumbers(x), HasBuffers(x, One), NEW i \in Nat, NEW root \in Ranks(x),
         NEW O, OnRanks(x, O), \A r \in Ranks(x) : O[r] = Bcast(x, r, i, root)
  PROVE  /\ GoodOp(x, O)
         /\ \A r \in Ranks(x) : /\ O[r].do = "start"
                                /\ \A first : BcastCheck(x, r, i, first) \in Quiet(x)
<1> DEFINE send == [r \in Ranks(x) |-> [p \in Ranks(x) |->
                      <<S(x, i), IF r = root /\ p # root THEN x.size ELSE 0>>]]
           recv == [r \in Ranks(x) |-> IF r = root THEN {} ELSE {Part({root}, S(x, i), x.size)}]
<1>1. /\ S(x, i) \in Nat /\ S(x, i) + x.size <= S_alloc(x) /\ S(x, i) + x.size <= R_alloc(x)
      /\ S(x, i) + 0 <= S_alloc(x) /\ x.size \in Nat
  <2>1. S_len(x) = Message(x) /\ R_len(x) = Message(x)
    BY Lengths
  <2>2. R(x, i) = S(x, i)
    BY <2>1 DEF R, S
  <2>3. x.size \in Nat /\ x.size <= S_len(x) /\ x.size <= R_len(x) /\ 0 <= S_len(x)
    BY <2>1, Sizes
  <2> QED BY <2>2, <2>3, Rooms
<1>2. ASSUME NEW r \in Ranks(x) PROVE Fits(x, send[r], recv[r])
  <2>1. send[r] \in [Ranks(x) -> Nat \X Nat]
    BY <1>1
  <2>2. recv[r] \in SUBSET PartSet(x)
    BY <1>1 DEF PartSet, Part
  <2>3. \A p \in Ranks(x) : send[r][p][1] + send[r][p][2] <= S_alloc(x)
    BY <1>1
  <2>4. \A part \in recv[r] : part.at + part.n <= R_alloc(x)
    BY <1>1 DEF Part
  <2> QED BY <2>1, <2>2, <2>3, <2>4 DEF Fits
<1>3. ASSUME NEW r \in Ranks(x), NEW p \in Ranks(x)
      PROVE  Expects(recv[r], p) \cup {0} = {send[p][r][2], 0}
  <2>1. CASE r = root
    <3>1. Expects(recv[r], p) = {} /\ send[p][r][2] = 0
      BY <2>1, ExpectsOne
    <3> HIDE DEF send, recv
    <3> QED BY <3>1
  <2>2. CASE r # root
    <3>1. /\ Expects(recv[r], p) = IF p \in {root} THEN {x.size} ELSE {}
          /\ send[p][r][2] = IF p = root THEN x.size ELSE 0
      BY <2>2, ExpectsOne
    <3> HIDE DEF send, recv
    <3> QED BY <3>1
  <2> QED BY <2>1, <2>2
<1>4. \A r \in Ranks(x) : O[r] = Coll("Bcast", root, send[r], recv[r])
  BY DEF Bcast
<1> HIDE DEF send, recv
<1>5. root \in Nat /\ "Bcast" \in Operations
  BY Sizes DEF Ranks, Operations
<1>6. GoodOp(x, O) /\ \A r \in Ranks(x) : O[r].do = "start"
  <2>1. Meets(x, O, "Bcast", root, send, recv)
    BY <1>2, <1>3, <1>4, <1>5 DEF Meets
  <2> QED BY <2>1, OpGood
<1>8. ASSUME NEW r \in Ranks(x), NEW first PROVE BcastCheck(x, r, i, first) \in Quiet(x)
  <2> DEFINE buf == IF r = first THEN "s" ELSE "r"
  <2>1. Root(x, i) \in Int /\ buf \in {"s", "r"}
    BY Roots DEF Ranks
  <2>2. S(x, i) + x.size <= IF buf = "s" THEN S_alloc(x) ELSE R_alloc(x)
    BY <1>1
  <2> HIDE DEF buf
  <2>3. Chk(buf, S(x, i), 0, x.size, x.size, 1, "put", Root(x, i)) \in Quiet(x)
    BY <1>1, <2>1, <2>2, CheckQuiet
  <2> QED BY <2>3 DEF BcastCheck, buf
<1> QED BY <1>6, <1>8

(***************************************************************************)
(* A part from each rank, all of the same length; a part from some ranks.  *)
(***************************************************************************)
PartsOf(x, at, n) == {Part({q}, at[q], n) : q \in Ranks(x)}

LEMMA PartsFit ==
  ASSUME NEW x, NEW n \in Nat, NEW at \in [Ranks(x) -> Nat],
         \A q \in Ranks(x) : at[q] + n <= R_alloc(x)
  PROVE  /\ PartsOf(x, at, n) \in SUBSET PartSet(x)
         /\ \A part \in PartsOf(x, at, n) : part.at + part.n <= R_alloc(x)
         /\ \A p \in Ranks(x) : Expects(PartsOf(x, at, n), p) = {n}
<1>1. \A q \in Ranks(x) : /\ Part({q}, at[q], n) \in PartSet(x)
                          /\ Part({q}, at[q], n).at + Part({q}, at[q], n).n <= R_alloc(x)
  BY DEF PartSet, Part
<1>2. ASSUME NEW p \in Ranks(x) PROVE Expects(PartsOf(x, at, n), p) = {n}
  <2> DEFINE parts == {Part({q}, at[q], n) : q \in Ranks(x)}
  <2>1. \A part \in parts : part.n = n
    BY DEF Part
  <2>2. Part({p}, at[p], n) \in {y \in parts : p \in y.from}
    BY DEF Part
  <2> HIDE DEF parts
  <2>3. {part.n : part \in {y \in parts : p \in y.from}} = {n}
    BY <2>1, <2>2
  <2> QED BY <2>3 DEF Expects, PartsOf, parts
<1> QED BY <1>1, <1>2 DEF PartsOf

LEMMA OnePartFits ==
  ASSUME NEW x, NEW n \in Nat, NEW at \in Nat, at + n <= R_alloc(x), NEW from \in SUBSET Ranks(x)
  PROVE  /\ {Part(from, at, n)} \in SUBSET PartSet(x)
         /\ \A part \in {Part(from, at, n)} : part.at + part.n <= R_alloc(x)
BY DEF PartSet, Part

(***************************************************************************)
(* An operation that is the same on all ranks.                             *)
(***************************************************************************)
MeetsSame(x, O, what, send, recv, n) ==
  /\ OnRanks(x, O) /\ what \in Operations /\ Fits(x, send, recv)
  /\ \A p \in Ranks(x) : send[p][2] = n /\ Expects(recv, p) = {n}
  /\ \A r \in Ranks(x) : O[r] = Coll(what, 0, send, recv)

LEMMA SameGood ==
  ASSUME NEW x, NEW what, NEW send, NEW recv, NEW n, NEW O, MeetsSame(x, O, what, send, recv, n)
  PROVE  GoodOp(x, O) /\ \A r \in Ranks(x) : O[r].do = "start"
<1> DEFINE sends == [r \in Ranks(x) |-> send]
           recvs == [r \in Ranks(x) |-> recv]
<1>1. \A r \in Ranks(x) : sends[r] = send /\ recvs[r] = recv
  OBVIOUS
<1> HIDE DEF sends, recvs
<1>2. \A r \in Ranks(x) : Fits(x, sends[r], recvs[r])
  BY <1>1 DEF MeetsSame
<1>3. \A r, p \in Ranks(x) : Expects(recvs[r], p) \cup {0} = {sends[p][r][2], 0}
  BY <1>1 DEF MeetsSame
<1>4. /\ OnRanks(x, O) /\ what \in Operations
      /\ \A r \in Ranks(x) : O[r] = Coll(what, 0, sends[r], recvs[r])
  BY <1>1 DEF MeetsSame
<1>5. Meets(x, O, what, 0, sends, recvs)
  BY <1>2, <1>3, <1>4 DEF Meets
<1> QED BY <1>5, OpGood

(***************************************************************************)
(* Checks of what is in the receive buffer.                                *)
(***************************************************************************)
LEMMA RecvCheck ==
  ASSUME NEW x, NEW at \in Nat, NEW pos \in Nat, NEW loc \in Nat, NEW total \in Nat,
         NEW unit \in Nat, NEW source \in Int, at + total <= R_alloc(x)
  PROVE  Chk("r", at, pos, loc, total, unit, "put", source) \in Quiet(x)
<1>1. "r" \in {"s", "r"} /\ "put" \in {"put", "local"} /\ TRUE \in BOOLEAN
  OBVIOUS
<1>2. at + total <= IF "r" = "s" THEN S_alloc(x) ELSE R_alloc(x)
  OBVIOUS
<1> QED BY <1>1, <1>2, CheckQuiet

LEMMA QuietIf ==
  ASSUME NEW x, NEW K \in Quiet(x), NEW b
  PROVE  If(b, K) \in Quiet(x)
BY DEF If, Quiet

(***************************************************************************)
(* Places of the messages for all ranks, in a buffer for all of them.      *)
(***************************************************************************)
LEMMA PlacesFit ==
  ASSUME NEW x, CallNumbers(x), NEW i \in Nat, NEW s \in {x.size, Elements(x)}
  PROVE  /\ S(x, i) \in Nat /\ R(x, i) \in Nat /\ s \in Nat /\ x.np * x.size \in Nat
         /\ S_len(x) \in {Message(x), x.np * Message(x)} => S(x, i) + s <= S_alloc(x)
         /\ R_len(x) \in {Message(x), x.np * Message(x)} => R(x, i) + s <= R_alloc(x)
         /\ R_len(x) = x.np * Message(x) => R(x, i) + x.np * x.size <= R_alloc(x)
         /\ \A q \in Ranks(x) :
              /\ R(x, i) + q * s \in Nat /\ S(x, i) + q * s \in Nat
              /\ R_len(x) = x.np * Message(x) => R(x, i) + q * s + s <= R_alloc(x)
              /\ S_len(x) = x.np * Message(x) => S(x, i) + q * s + s <= S_alloc(x)
<1> DEFINE m == Message(x)
           nm == x.np * Message(x)
           ns == x.np * x.size
<1>1. /\ S(x, i) \in Nat /\ R(x, i) \in Nat
      /\ \A n \in Nat : /\ n <= S_len(x) => S(x, i) + n <= S_alloc(x)
                        /\ n <= R_len(x) => R(x, i) + n <= R_alloc(x)
  BY Rooms
<1>2. /\ s \in Nat /\ m \in Nat /\ s <= m /\ ns \in Nat /\ ns <= nm /\ m <= nm
      /\ \A q \in Ranks(x) : q * s \in Nat /\ q * s + s <= nm
  <2>1. 0 \in 0 .. x.np - 1 /\ m <= m
    BY Sizes
  <2>2. 0 * m + m = m
    BY Sizes
  <2>3. 0 * m + m <= nm
    BY <2>1, Sizes, RankPlace
  <2> QED BY <2>2, <2>3, Sizes
<1> HIDE DEF m, nm, ns
<1>3. ASSUME NEW q \in Ranks(x)
      PROVE  /\ R(x, i) + q * s \in Nat /\ S(x, i) + q * s \in Nat
             /\ R_len(x) = nm => R(x, i) + q * s + s <= R_alloc(x)
             /\ S_len(x) = nm => S(x, i) + q * s + s <= S_alloc(x)
  <2> DEFINE a == q * s
  <2>1. a \in Nat /\ a + s \in Nat /\ a + s <= nm
    BY <1>2
  <2> HIDE DEF a
  <2>2. /\ R_len(x) = nm => R(x, i) + (a + s) <= R_alloc(x)
        /\ S_len(x) = nm => S(x, i) + (a + s) <= S_alloc(x)
    BY <1>1, <2>1
  <2>3. /\ R(x, i) + a + s = R(x, i) + (a + s) /\ S(x, i) + a + s = S(x, i) + (a + s)
        /\ R(x, i) + a \in Nat /\ S(x, i) + a \in Nat
    BY <1>1, <1>2, <2>1
  <2> QED BY <2>2, <2>3 DEF a
<1>4. /\ S_len(x) \in {m, nm} => S(x, i) + s <= S_alloc(x)
      /\ R_len(x) \in {m, nm} => R(x, i) + s <= R_alloc(x)
  <2>1. s <= nm
    <3>1. x.np \in Nat
      BY Sizes
    <3>2. nm \in Nat
      BY <1>2, <3>1 DEF nm, m
    <3> QED BY <1>2, <3>2
  <2> QED BY <1>1, <1>2, <2>1
<1>5. R_len(x) = nm => R(x, i) + ns <= R_alloc(x)
  BY <1>1, <1>2
<1> QED BY <1>1, <1>2, <1>3, <1>4, <1>5 DEF m, nm, ns

(***************************************************************************)
(* Allgather, Allgatherv.                                                  *)
(***************************************************************************)
LEMMA AllgatherGood ==
  ASSUME NEW x, CallNumbers(x), HasBuffers(x, Gathering), NEW i \in Nat,
         NEW O, OnRanks(x, O),
         \/ \A r \in Ranks(x) : O[r] = Allgather(x, i)
         \/ \A r \in Ranks(x) : O[r] = Allgatherv(x, i)
  PROVE  /\ GoodOp(x, O) /\ \A r \in Ranks(x) : O[r].do = "start"
         /\ AllgatherCheck(x, i) \in Quiet(x)
<1> DEFINE at == [q \in Ranks(x) |-> R(x, i) + q * x.size]
           send == [p \in Ranks(x) |-> <<S(x, i), x.size>>]
           recv == PartsOf(x, at, x.size)
<1>1. /\ S(x, i) \in Nat /\ R(x, i) \in Nat /\ x.size \in Nat /\ x.np * x.size \in Nat
      /\ S(x, i) + x.size <= S_alloc(x) /\ R(x, i) + x.np * x.size <= R_alloc(x)
      /\ \A q \in Ranks(x) : /\ R(x, i) + q * x.size \in Nat
                             /\ R(x, i) + q * x.size + x.size <= R_alloc(x)
  <2>1. S_len(x) = Message(x) /\ R_len(x) = x.np * Message(x)
    BY Lengths
  <2> QED BY <2>1, PlacesFit
<1>2. /\ recv \in SUBSET PartSet(x)
      /\ \A part \in recv : part.at + part.n <= R_alloc(x)
      /\ \A p \in Ranks(x) : Expects(recv, p) = {x.size}
  <2>1. at \in [Ranks(x) -> Nat] /\ \A q \in Ranks(x) : at[q] + x.size <= R_alloc(x)
    BY <1>1
  <2> HIDE DEF at
  <2> QED BY <1>1, <2>1, PartsFit
<1>3. /\ send \in [Ranks(x) -> Nat \X Nat]
      /\ \A p \in Ranks(x) : send[p][1] = S(x, i) /\ send[p][2] = x.size
  BY <1>1
<1>4. /\ Allgather(x, i) = Coll("Allgather", 0, send, recv)
      /\ Allgatherv(x, i) = Coll("Allgatherv", 0, send, recv)
  <2>1. \A q \in Ranks(x) : at[q] = R(x, i) + q * x.size /\ at[q] = R(x, i) + Rdispl(x, q)
    BY DEF Rdispl
  <2> HIDE DEF at
  <2>2. /\ recv = {Part({p}, R(x, i) + p * x.size, x.size) : p \in Ranks(x)}
        /\ recv = {Part({p}, R(x, i) + Rdispl(x, p), x.size) : p \in Ranks(x)}
    BY <2>1 DEF PartsOf
  <2> QED BY <2>2 DEF Allgather, Allgatherv, ToEach
<1> HIDE DEF send, recv
<1>5. Fits(x, send, recv)
  BY <1>1, <1>2, <1>3 DEF Fits
<1>6. "Allgather" \in Operations /\ "Allgatherv" \in Operations
  BY DEF Operations
<1>7. AllgatherCheck(x, i) \in Quiet(x)
  <2>1. 0 \in Nat /\ 1 \in Nat /\ -2 \in Int
    OBVIOUS
  <2>2. Chk("r", R(x, i), 0, 0, x.np * x.size, 1, "put", -2) \in Quiet(x)
    BY <1>1, <2>1, RecvCheck
  <2> QED BY <2>2 DEF AllgatherCheck
<1>8. PICK what \in Operations : \A r \in Ranks(x) : O[r] = Coll(what, 0, send, recv)
  BY <1>4, <1>6
<1>9. MeetsSame(x, O, what, send, recv, x.size)
  BY <1>2, <1>3, <1>5, <1>8 DEF MeetsSame
<1> QED BY <1>7, <1>9, SameGood

(***************************************************************************)
(* Alltoall, Alltoallv.                                                    *)
(***************************************************************************)
LEMMA AlltoallGood ==
  ASSUME NEW x, CallNumbers(x), HasBuffers(x, Total2), NEW i \in Nat, NEW what \in Operations,
         NEW O, OnRanks(x, O),
         \A r \in Ranks(x) : O[r] = Alltoall(x, i, what)
  PROVE  /\ GoodOp(x, O) /\ \A r \in Ranks(x) : O[r].do = "start"
         /\ \A r \in Ranks(x) : AlltoallCheck(x, r, i) \in Quiet(x)
<1> DEFINE at == [q \in Ranks(x) |-> R(x, i) + q * x.size]
           send == [p \in Ranks(x) |-> <<S(x, i) + p * x.size, x.size>>]
           recv == PartsOf(x, at, x.size)
<1>1. /\ R(x, i) \in Nat /\ x.size \in Nat /\ x.np * x.size \in Nat
      /\ R(x, i) + x.np * x.size <= R_alloc(x)
      /\ \A q \in Ranks(x) : /\ R(x, i) + q * x.size \in Nat /\ S(x, i) + q * x.size \in Nat
                             /\ R(x, i) + q * x.size + x.size <= R_alloc(x)
                             /\ S(x, i) + q * x.size + x.size <= S_alloc(x)
  <2>1. S_len(x) = x.np * Message(x) /\ R_len(x) = x.np * Message(x)
    BY Lengths
  <2> QED BY <2>1, PlacesFit
<1>2. /\ recv \in SUBSET PartSet(x)
      /\ \A part \in recv : part.at + part.n <= R_alloc(x)
      /\ \A p \in Ranks(x) : Expects(recv, p) = {x.size}
  <2>1. at \in [Ranks(x) -> Nat] /\ \A q \in Ranks(x) : at[q] + x.size <= R_alloc(x)
    BY <1>1
  <2> HIDE DEF at
  <2> QED BY <1>1, <2>1, PartsFit
<1>3. /\ send \in [Ranks(x) -> Nat \X Nat]
      /\ \A p \in Ranks(x) : send[p][1] = S(x, i) + p * x.size /\ send[p][2] = x.size
  BY <1>1
<1>4. Alltoall(x, i, what) = Coll(what, 0, send, recv)
  <2>1. \A q \in Ranks(x) : at[q] = R(x, i) + q * x.size
    OBVIOUS
  <2> HIDE DEF at
  <2>2. recv = {Part({p}, R(x, i) + p * x.size, x.size) : p \in Ranks(x)}
    BY <2>1 DEF PartsOf
  <2> QED BY <2>2 DEF Alltoall
<1> HIDE DEF send, recv
<1>5. Fits(x, send, recv)
  BY <1>1, <1>2, <1>3 DEF Fits
<1>6. ASSUME NEW r \in Ranks(x) PROVE AlltoallCheck(x, r, i) \in Quiet(x)
  <2>1. 0 \in Nat /\ 1 \in Nat /\ -2 \in Int
    OBVIOUS
  <2>2. r * x.size \in Nat
    BY Sizes
  <2>3. Chk("r", R(x, i), r * x.size, 0, x.np * x.size, 1, "put", -2) \in Quiet(x)
    BY <1>1, <2>1, <2>2, RecvCheck
  <2> QED BY <2>3 DEF AlltoallCheck
<1>7. MeetsSame(x, O, what, send, recv, x.size)
  BY <1>2, <1>3, <1>4, <1>5 DEF MeetsSame
<1> QED BY <1>6, <1>7, SameGood

LEMMA ExpectsAll ==
  ASSUME NEW from, NEW at, NEW n, NEW p \in from
  PROVE  Expects({Part(from, at, n)}, p) = {n}
BY ExpectsOne

(***************************************************************************)
(* Gather, Gatherv.                                                        *)
(***************************************************************************)
LEMMA GatherGood ==
  ASSUME NEW x, CallNumbers(x), HasBuffers(x, Gathering), NEW i \in Nat, NEW root \in Ranks(x),
         NEW what \in Operations, NEW O, OnRanks(x, O),
         \A r \in Ranks(x) : O[r] = Gather(x, r, i, root, what)
  PROVE  /\ GoodOp(x, O) /\ \A r \in Ranks(x) : O[r].do = "start"
         /\ \A r \in Ranks(x) : GatherCheck(x, r, i) \in Quiet(x)
<1> DEFINE at == [q \in Ranks(x) |-> R(x, i) + q * x.size]
           parts == PartsOf(x, at, x.size)
           send == [r \in Ranks(x) |-> [p \in Ranks(x) |->
                      <<S(x, i), IF p = root THEN x.size ELSE 0>>]]
           recv == [r \in Ranks(x) |-> IF r = root THEN parts ELSE {}]
<1>1. /\ S(x, i) \in Nat /\ R(x, i) \in Nat /\ x.size \in Nat /\ x.np * x.size \in Nat
      /\ S(x, i) + x.size <= S_alloc(x) /\ R(x, i) + x.np * x.size <= R_alloc(x)
      /\ S(x, i) + 0 <= S_alloc(x)
      /\ \A q \in Ranks(x) : /\ R(x, i) + q * x.size \in Nat
                             /\ R(x, i) + q * x.size + x.size <= R_alloc(x)
  <2>1. S_len(x) = Message(x) /\ R_len(x) = x.np * Message(x)
    BY Lengths
  <2>2. /\ S(x, i) \in Nat /\ R(x, i) \in Nat /\ x.size \in Nat /\ x.np * x.size \in Nat
        /\ S(x, i) + x.size <= S_alloc(x) /\ R(x, i) + x.np * x.size <= R_alloc(x)
        /\ \A q \in Ranks(x) : /\ R(x, i) + q * x.size \in Nat
                               /\ R(x, i) + q * x.size + x.size <= R_alloc(x)
    BY <2>1, PlacesFit
  <2>3. S_alloc(x) \in Nat
    BY AllocNat
  <2> QED BY <2>2, <2>3
<1>2. /\ parts \in SUBSET PartSet(x)
      /\ \A part \in parts : part.at + part.n <= R_alloc(x)
      /\ \A p \in Ranks(x) : Expects(parts, p) = {x.size}
  <2>1. at \in [Ranks(x) -> Nat] /\ \A q \in Ranks(x) : at[q] + x.size <= R_alloc(x)
    BY <1>1
  <2> HIDE DEF at
  <2> QED BY <1>1, <2>1, PartsFit
<1>3. parts = {Part({p}, R(x, i) + p * x.size, x.size) : p \in Ranks(x)}
  <2>1. \A q \in Ranks(x) : at[q] = R(x, i) + q * x.size
    OBVIOUS
  <2> HIDE DEF at
  <2> QED BY <2>1 DEF PartsOf
<1> HIDE DEF parts
<1>4. \A r \in Ranks(x) : O[r] = Coll(what, root, send[r], recv[r])
  BY <1>3 DEF Gather
<1>5. ASSUME NEW r \in Ranks(x) PROVE Fits(x, send[r], recv[r])
  BY <1>1, <1>2 DEF Fits
<1>6. ASSUME NEW r \in Ranks(x), NEW p \in Ranks(x)
      PROVE  Expects(recv[r], p) \cup {0} = {send[p][r][2], 0}
  <2>1. CASE r = root
    <3>1. Expects(recv[r], p) = {x.size} /\ send[p][r][2] = x.size
      BY <1>2, <2>1
    <3> HIDE DEF send, recv
    <3> QED BY <3>1
  <2>2. CASE r # root
    <3>1. Expects(recv[r], p) = {} /\ send[p][r][2] = 0
      BY <2>2, ExpectsOne
    <3> HIDE DEF send, recv
    <3> QED BY <3>1
  <2> QED BY <2>1, <2>2
<1> HIDE DEF send, recv
<1>7. root \in Nat
  BY Sizes DEF Ranks
<1>8. Meets(x, O, what, root, send, recv)
  BY <1>4, <1>5, <1>6, <1>7 DEF Meets
<1>9. ASSUME NEW r \in Ranks(x) PROVE GatherCheck(x, r, i) \in Quiet(x)
  <2>1. 0 \in Nat /\ 1 \in Nat /\ -2 \in Int
    OBVIOUS
  <2>2. Chk("r", R(x, i), 0, 0, x.np * x.size, 1, "put", -2) \in Quiet(x)
    BY <1>1, <2>1, RecvCheck
  <2> QED BY <2>2, QuietIf DEF GatherCheck
<1> QED BY <1>8, <1>9, OpGood

(***************************************************************************)
(* Scatter, Scatterv.                                                      *)
(***************************************************************************)
LEMMA ScatterGood ==
  ASSUME NEW x, CallNumbers(x), HasBuffers(x, Scattering), NEW i \in Nat, NEW root \in Ranks(x),
         NEW what \in Operations, NEW O, OnRanks(x, O),
         \A r \in Ranks(x) : O[r] = Scatter(x, r, i, root, what)
  PROVE  /\ GoodOp(x, O) /\ \A r \in Ranks(x) : O[r].do = "start"
         /\ \A r \in Ranks(x) : ScatterCheck(x, r, i) \in Quiet(x)
<1> DEFINE parts == {Part({root}, R(x, i), x.size)}
           send == [r \in Ranks(x) |-> [p \in Ranks(x) |->
                      <<S(x, i) + p * x.size, IF r = root THEN x.size ELSE 0>>]]
           recv == [r \in Ranks(x) |-> parts]
<1>1. /\ R(x, i) \in Nat /\ x.size \in Nat /\ R(x, i) + x.size <= R_alloc(x)
      /\ \A q \in Ranks(x) : /\ S(x, i) + q * x.size \in Nat
                             /\ S(x, i) + q * x.size + x.size <= S_alloc(x)
                             /\ S(x, i) + q * x.size + 0 <= S_alloc(x)
  <2>1. S_len(x) = x.np * Message(x) /\ R_len(x) = Message(x)
    BY Lengths
  <2>2. /\ R(x, i) \in Nat /\ x.size \in Nat /\ R(x, i) + x.size <= R_alloc(x)
        /\ \A q \in Ranks(x) : /\ S(x, i) + q * x.size \in Nat
                               /\ S(x, i) + q * x.size + x.size <= S_alloc(x)
    BY <2>1, PlacesFit
  <2>3. S_alloc(x) \in Nat
    BY AllocNat
  <2> QED BY <2>2, <2>3
<1>2. /\ parts \in SUBSET PartSet(x)
      /\ \A part \in parts : part.at + part.n <= R_alloc(x)
  <2>1. {root} \in SUBSET Ranks(x)
    OBVIOUS
  <2> QED BY <1>1, <2>1, OnePartFits
<1>3. \A r \in Ranks(x) : O[r] = Coll(what, root, send[r], recv[r])
  BY DEF Scatter
<1>4. ASSUME NEW p \in Ranks(x) PROVE Expects(parts, p) = IF p = root THEN {x.size} ELSE {}
  <2>1. Expects(parts, p) = IF p \in {root} THEN {x.size} ELSE {}
    BY ExpectsOne
  <2> QED BY <2>1
<1> HIDE DEF parts
<1>5. ASSUME NEW r \in Ranks(x) PROVE Fits(x, send[r], recv[r])
  BY <1>1, <1>2 DEF Fits
<1>6. ASSUME NEW r \in Ranks(x), NEW p \in Ranks(x)
      PROVE  Expects(recv[r], p) \cup {0} = {send[p][r][2], 0}
  <2>1. /\ Expects(recv[r], p) = IF p = root THEN {x.size} ELSE {}
        /\ send[p][r][2] = IF p = root THEN x.size ELSE 0
    BY <1>4
  <2> HIDE DEF send, recv
  <2> QED BY <2>1
<1> HIDE DEF send, recv
<1>7. root \in Nat
  BY Sizes DEF Ranks
<1>8. Meets(x, O, what, root, send, recv)
  BY <1>3, <1>5, <1>6, <1>7 DEF Meets
<1>9. ASSUME NEW r \in Ranks(x) PROVE ScatterCheck(x, r, i) \in Quiet(x)
  <2>1. x.size * r \in Nat /\ 1 \in Nat /\ Root(x, i) \in Int
    <3>1. r \in Nat /\ Root(x, i) \in Int
      BY Roots, Sizes DEF Ranks
    <3> QED BY <1>1, <3>1
  <2>2. Chk("r", R(x, i), x.size * r, x.size, x.size, 1, "put", Root(x, i)) \in Quiet(x)
    BY <1>1, <2>1, RecvCheck
  <2> QED BY <2>2 DEF ScatterCheck
<1> QED BY <1>8, <1>9, OpGood

(***************************************************************************)
(* Reductions take whole elements.                                         *)
(***************************************************************************)
LEMMA ReduceGood ==
  ASSUME NEW x, CallNumbers(x), HasBuffers(x, One), NEW i \in Nat, NEW root \in Ranks(x),
         NEW O, OnRanks(x, O), \A r \in Ranks(x) : O[r] = Reduce(x, r, i, root)
  PROVE  /\ GoodOp(x, O) /\ \A r \in Ranks(x) : O[r].do = "start"
         /\ \A r \in Ranks(x) : ReduceCheck(x, r, i, root) \in Quiet(x)
<1> DEFINE e == Elements(x)
           parts == {Part(Ranks(x), R(x, i), e)}
           send == [r \in Ranks(x) |-> [p \in Ranks(x) |-> <<S(x, i), IF p = root THEN e ELSE 0>>]]
           recv == [r \in Ranks(x) |-> IF r = root THEN parts ELSE {}]
<1>1. /\ S(x, i) \in Nat /\ R(x, i) \in Nat /\ x.size \in Nat /\ e \in Nat
      /\ S(x, i) + e <= S_alloc(x) /\ S(x, i) + 0 <= S_alloc(x)
      /\ R(x, i) + e <= R_alloc(x) /\ R(x, i) + x.size <= R_alloc(x)
  <2>1. S_len(x) = Message(x) /\ R_len(x) = Message(x)
    BY Lengths
  <2>2. /\ S(x, i) \in Nat /\ R(x, i) \in Nat /\ x.size \in Nat /\ R(x, i) + x.size <= R_alloc(x)
    BY <2>1, PlacesFit
  <2>3. e \in Nat /\ S(x, i) + e <= S_alloc(x) /\ R(x, i) + e <= R_alloc(x)
    BY <2>1, PlacesFit
  <2>4. S_alloc(x) \in Nat
    BY AllocNat
  <2> QED BY <2>2, <2>3, <2>4
<1>2. \A r \in Ranks(x) : O[r] = Coll("Reduce", root, send[r], recv[r])
  BY DEF Reduce
<1> HIDE DEF e
<1>3. /\ parts \in SUBSET PartSet(x)
      /\ \A part \in parts : part.at + part.n <= R_alloc(x)
      /\ \A p \in Ranks(x) : Expects(parts, p) = {e}
  <2>1. Ranks(x) \in SUBSET Ranks(x)
    OBVIOUS
  <2>2. /\ parts \in SUBSET PartSet(x)
        /\ \A part \in parts : part.at + part.n <= R_alloc(x)
    BY <1>1, <2>1, OnePartFits
  <2>3. ASSUME NEW p \in Ranks(x) PROVE Expects(parts, p) = {e}
    BY ExpectsAll
  <2> QED BY <2>2, <2>3
<1> HIDE DEF parts
<1>5. ASSUME NEW r \in Ranks(x) PROVE Fits(x, send[r], recv[r])
  BY <1>1, <1>3 DEF Fits
<1>6. ASSUME NEW r \in Ranks(x), NEW p \in Ranks(x)
      PROVE  Expects(recv[r], p) \cup {0} = {send[p][r][2], 0}
  <2>1. Expects({}, p) = {}
    BY ExpectsOne
  <2>2. /\ Expects(recv[r], p) = IF r = root THEN {e} ELSE {}
        /\ send[p][r][2] = IF r = root THEN e ELSE 0
    BY <1>3, <2>1
  <2> HIDE DEF send, recv
  <2> QED BY <2>2
<1> HIDE DEF send, recv
<1>7. root \in Nat /\ "Reduce" \in Operations
  BY Sizes DEF Ranks, Operations
<1>8. Meets(x, O, "Reduce", root, send, recv)
  BY <1>2, <1>5, <1>6, <1>7 DEF Meets
<1>9. ASSUME NEW r \in Ranks(x) PROVE ReduceCheck(x, r, i, root) \in Quiet(x)
  <2>1. 0 \in Nat /\ asize \in Nat /\ -1 \in Int
    BY DEF asize
  <2>2. Chk("r", R(x, i), 0, x.size, x.size, asize, "put", -1) \in Quiet(x)
    BY <1>1, <2>1, RecvCheck
  <2> QED BY <2>2, QuietIf DEF ReduceCheck
<1> QED BY <1>8, <1>9, OpGood

LEMMA AllreduceGood ==
  ASSUME NEW x, CallNumbers(x), HasBuffers(x, One), NEW i \in Nat,
         NEW O, OnRanks(x, O), \A r \in Ranks(x) : O[r] = Allreduce(x, i)
  PROVE  /\ GoodOp(x, O) /\ \A r \in Ranks(x) : O[r].do = "start"
         /\ AllreduceCheck(x, i) \in Quiet(x)
         /\ <<[do |-> "local", at |-> S(x, i), to |-> R(x, i), n |-> Elements(x)]>> \in Quiet(x)
         /\ Chk("r", R(x, i), 0, x.size, x.size, asize, "local", -1) \in Quiet(x)
<1> DEFINE e == Elements(x)
           parts == {Part(Ranks(x), R(x, i), e)}
           send == [p \in Ranks(x) |-> <<S(x, i), e>>]
<1>1. /\ S(x, i) \in Nat /\ R(x, i) \in Nat /\ x.size \in Nat /\ e \in Nat
      /\ S(x, i) + e <= S_alloc(x)
      /\ R(x, i) + e <= R_alloc(x) /\ R(x, i) + x.size <= R_alloc(x)
  <2>1. S_len(x) = Message(x) /\ R_len(x) = Message(x)
    BY Lengths
  <2>2. /\ S(x, i) \in Nat /\ R(x, i) \in Nat /\ x.size \in Nat /\ R(x, i) + x.size <= R_alloc(x)
    BY <2>1, PlacesFit
  <2>3. e \in Nat /\ S(x, i) + e <= S_alloc(x) /\ R(x, i) + e <= R_alloc(x)
    BY <2>1, PlacesFit
  <2> QED BY <2>2, <2>3
<1>2. \A r \in Ranks(x) : O[r] = Coll("Allreduce", 0, send, parts)
  BY DEF Allreduce, ToEach
<1>3. <<[do |-> "local", at |-> S(x, i), to |-> R(x, i), n |-> e]>> \in Quiet(x)
  BY <1>1 DEF Quiet, LocalSet
<1> HIDE DEF e
<1>4. /\ parts \in SUBSET PartSet(x)
      /\ \A part \in parts : part.at + part.n <= R_alloc(x)
      /\ \A p \in Ranks(x) : Expects(parts, p) = {e}
  <2>1. Ranks(x) \in SUBSET Ranks(x)
    OBVIOUS
  <2>2. /\ parts \in SUBSET PartSet(x)
        /\ \A part \in parts : part.at + part.n <= R_alloc(x)
    BY <1>1, <2>1, OnePartFits
  <2>3. ASSUME NEW p \in Ranks(x) PROVE Expects(parts, p) = {e}
    BY ExpectsAll
  <2> QED BY <2>2, <2>3
<1>5. /\ send \in [Ranks(x) -> Nat \X Nat]
      /\ \A p \in Ranks(x) : send[p][1] = S(x, i) /\ send[p][2] = e
  BY <1>1
<1> HIDE DEF parts, send
<1>6. Fits(x, send, parts)
  BY <1>1, <1>4, <1>5 DEF Fits
<1>7. "Allreduce" \in Operations
  BY DEF Operations
<1>8. MeetsSame(x, O, "Allreduce", send, parts, e)
  BY <1>2, <1>4, <1>5, <1>6, <1>7 DEF MeetsSame
<1>9. /\ Chk("r", R(x, i), 0, x.size, x.size, asize, "put", -1) \in Quiet(x)
      /\ Chk("r", R(x, i), 0, x.size, x.size, asize, "local", -1) \in Quiet(x)
  <2>1. /\ 0 \in Nat /\ asize \in Nat /\ -1 \in Int /\ "r" \in {"s", "r"} /\ TRUE \in BOOLEAN
        /\ "local" \in {"put", "local"}
    BY DEF asize
  <2>2. R(x, i) + x.size <= IF "r" = "s" THEN S_alloc(x) ELSE R_alloc(x)
    BY <1>1
  <2>3. Chk("r", R(x, i), 0, x.size, x.size, asize, "put", -1) \in Quiet(x)
    BY <1>1, <2>1, RecvCheck
  <2>4. Chk("r", R(x, i), 0, x.size, x.size, asize, "local", -1) \in Quiet(x)
    BY <1>1, <2>1, <2>2, CheckQuiet
  <2> QED BY <2>3, <2>4
<1>10. AllreduceCheck(x, i) \in Quiet(x)
  BY <1>9 DEF AllreduceCheck
<1> QED BY <1>3, <1>8, <1>9, <1>10, SameGood DEF e

LEMMA ReduceScatterGood ==
  ASSUME NEW x, CallNumbers(x), HasBuffers(x, Scattering), NEW i \in Nat, NEW what \in Operations,
         NEW O, OnRanks(x, O), \A r \in Ranks(x) : O[r] = ReduceScatter(x, r, i, what)
  PROVE  /\ GoodOp(x, O) /\ \A r \in Ranks(x) : O[r].do = "start"
         /\ \A r \in Ranks(x) : ReduceScatterCheck(x, i, Elements(x) * r) \in Quiet(x)
         /\ ReduceScatterCheck(x, i, 0) \in Quiet(x)
<1> DEFINE e == Elements(x)
           parts == {Part(Ranks(x), R(x, i), e)}
           send == [p \in Ranks(x) |-> <<S(x, i) + p * e, e>>]
<1>1. /\ R(x, i) \in Nat /\ x.size \in Nat /\ e \in Nat
      /\ R(x, i) + e <= R_alloc(x) /\ R(x, i) + x.size <= R_alloc(x)
      /\ \A q \in Ranks(x) : S(x, i) + q * e \in Nat /\ S(x, i) + q * e + e <= S_alloc(x)
  <2>1. S_len(x) = x.np * Message(x) /\ R_len(x) = Message(x)
    BY Lengths
  <2>2. R(x, i) \in Nat /\ x.size \in Nat /\ R(x, i) + x.size <= R_alloc(x)
    BY <2>1, PlacesFit
  <2>3. /\ e \in Nat /\ R(x, i) + e <= R_alloc(x)
        /\ \A q \in Ranks(x) : S(x, i) + q * e \in Nat /\ S(x, i) + q * e + e <= S_alloc(x)
    BY <2>1, PlacesFit
  <2> QED BY <2>2, <2>3
<1>2. \A r \in Ranks(x) : O[r] = Coll(what, 0, send, parts)
  BY DEF ReduceScatter
<1> HIDE DEF e
<1>3. /\ parts \in SUBSET PartSet(x)
      /\ \A part \in parts : part.at + part.n <= R_alloc(x)
      /\ \A p \in Ranks(x) : Expects(parts, p) = {e}
  <2>1. Ranks(x) \in SUBSET Ranks(x)
    OBVIOUS
  <2>2. /\ parts \in SUBSET PartSet(x)
        /\ \A part \in parts : part.at + part.n <= R_alloc(x)
    BY <1>1, <2>1, OnePartFits
  <2>3. ASSUME NEW p \in Ranks(x) PROVE Expects(parts, p) = {e}
    BY ExpectsAll
  <2> QED BY <2>2, <2>3
<1>4. /\ send \in [Ranks(x) -> Nat \X Nat]
      /\ \A p \in Ranks(x) : send[p][1] = S(x, i) + p * e /\ send[p][2] = e
  BY <1>1
<1> HIDE DEF parts, send
<1>5. Fits(x, send, parts)
  BY <1>1, <1>3, <1>4 DEF Fits
<1>6. MeetsSame(x, O, what, send, parts, e)
  BY <1>2, <1>3, <1>4, <1>5 DEF MeetsSame
<1>7. ASSUME NEW pos \in Nat PROVE ReduceScatterCheck(x, i, pos) \in Quiet(x)
  <2>1. asize \in Nat /\ -1 \in Int
    BY DEF asize
  <2>2. Chk("r", R(x, i), pos, e, x.size, asize, "put", -1) \in Quiet(x)
    BY <1>1, <2>1, RecvCheck
  <2> QED BY <2>2 DEF ReduceScatterCheck, e
<1>8. 0 \in Nat /\ \A r \in Ranks(x) : Elements(x) * r \in Nat
  <2>1. \A r \in Ranks(x) : r \in Nat
    BY Sizes DEF Ranks
  <2> QED BY <1>1, <2>1 DEF e
<1> QED BY <1>6, <1>7, <1>8, SameGood

-----------------------------------------------------------------------------
(***************************************************************************)
(* A kernel works when it can be called whether or not computing has been  *)
(* calibrated, and leaves no request.                                      *)
(***************************************************************************)
Works(x, F) == \A b \in BOOLEAN : \E d \in BOOLEAN : Good(x, F, Idle(b), Idle(d))

(***************************************************************************)
(* The i-th operation and check of each rank.                              *)
(***************************************************************************)
Ops(x, O) == \A i \in Nat : GoodOp(x, O[i]) /\ \A r \in Ranks(x) : O[i][r].do = "start"

Checked(x, K) == \A i \in Nat : K[i] \in [Ranks(x) -> Quiet(x)]

BlockingRuns(x, O, K) ==
  MeasuredRuns(x, [i \in Nat |-> [r \in Ranks(x) |-> Blocking(O[i][r]) \o K[i][r]]])

OverlappedRuns(x, O, K) ==
  MeasuredRuns(x, [i \in Nat |-> [r \in Ranks(x) |-> Overlapped(O[i][r]) \o K[i][r]]])

FullRuns(x, F, G) == [r \in Ranks(x) |-> F[r] \o IMB_cpu_exploit(1) \o G[r]]

LEMMA IdleLocal == \A b \in BOOLEAN : Idle(b) \in Local /\ Idle(b).req = "null"
BY DEF Idle, Local

LEMMA BlockingWorks ==
  ASSUME NEW x, CallNumbers(x), NEW O, NEW K, Ops(x, O), Checked(x, K), NEW b \in BOOLEAN
  PROVE  Good(x, BlockingRuns(x, O, K), Idle(b), Idle(b))
<1> DEFINE B == [i \in Nat |-> [r \in Ranks(x) |-> Blocking(O[i][r]) \o K[i][r]]]
           Q(i) == [r \in Ranks(x) |-> Blocking(O[i][r])]
<1>1. Idle(b) \in Local /\ Idle(b).req \in {"null", "inactive"}
  BY IdleLocal
<1>2. ASSUME NEW i \in Nat PROVE Good(x, B[i], Idle(b), Idle(b))
  <2> DEFINE P == O[i]
             L == K[i]
             F == [r \in Ranks(x) |-> Blocking(P[r])]
  <2>1. GoodOp(x, P) /\ L \in [Ranks(x) -> Quiet(x)]
    BY DEF Ops, Checked
  <2>2. B[i] = [r \in Ranks(x) |-> F[r] \o L[r]]
    OBVIOUS
  <2> HIDE DEF P, L
  <2>3. Good(x, F, Idle(b), Idle(b))
    BY <1>1, <2>1, GoodBlocking
  <2>4. Good(x, L, Idle(b), Idle(b))
    BY <1>1, <2>1, GoodQuiet
  <2> HIDE DEF F
  <2>5. Good(x, [r \in Ranks(x) |-> F[r] \o L[r]], Idle(b), Idle(b))
    BY <2>3, <2>4, GoodConcat
  <2> QED BY <2>2, <2>5
<1> HIDE DEF B
<1>3. Good(x, MeasuredRuns(x, B), Idle(b), Idle(b))
  BY <1>1, <1>2, MeasuredGood
<1> QED BY <1>3 DEF BlockingRuns, B

LEMMA OverlappedWorks ==
  ASSUME NEW x, CallNumbers(x), NEW O, NEW K, Ops(x, O), Checked(x, K)
  PROVE  Good(x, OverlappedRuns(x, O, K), Idle(TRUE), Idle(TRUE))
<1> DEFINE B == [i \in Nat |-> [r \in Ranks(x) |-> Overlapped(O[i][r]) \o K[i][r]]]
<1>1. Idle(TRUE) \in Local /\ Idle(TRUE).req \in {"null", "inactive"}
  BY IdleLocal
<1>2. ASSUME NEW i \in Nat PROVE Good(x, B[i], Idle(TRUE), Idle(TRUE))
  <2> DEFINE P == O[i]
             L == K[i]
             F == [r \in Ranks(x) |-> Overlapped(P[r])]
  <2>1. GoodOp(x, P) /\ L \in [Ranks(x) -> Quiet(x)] /\ \A r \in Ranks(x) : P[r].do = "start"
    BY DEF Ops, Checked
  <2>2. B[i] = [r \in Ranks(x) |-> F[r] \o L[r]]
    OBVIOUS
  <2> HIDE DEF P, L
  <2>3. Good(x, F, Idle(TRUE), Idle(TRUE))
    BY <2>1, GoodOverlapped
  <2>4. Good(x, L, Idle(TRUE), Idle(TRUE))
    BY <1>1, <2>1, GoodQuiet
  <2> HIDE DEF F
  <2>5. Good(x, [r \in Ranks(x) |-> F[r] \o L[r]], Idle(TRUE), Idle(TRUE))
    BY <2>3, <2>4, GoodConcat
  <2> QED BY <2>2, <2>5
<1> HIDE DEF B
<1>3. Good(x, MeasuredRuns(x, B), Idle(TRUE), Idle(TRUE))
  BY <1>1, <1>2, MeasuredGood
<1> QED BY <1>3 DEF OverlappedRuns, B

(***************************************************************************)
(* The pure form, calibration, and the loop with computation.              *)
(***************************************************************************)
LEMMA FullWorks ==
  ASSUME NEW x, NEW F, NEW G, NEW b \in BOOLEAN, Good(x, F, Idle(b), Idle(b)),
         Good(x, G, Idle(TRUE), Idle(TRUE))
  PROVE  Good(x, FullRuns(x, F, G), Idle(b), Idle(TRUE))
<1> DEFINE E == [r \in Ranks(x) |-> IMB_cpu_exploit(1)]
           FE == [r \in Ranks(x) |-> F[r] \o E[r]]
<1>1. Good(x, E, Idle(b), Idle(TRUE))
  <2>1. Idle(b) \in Local /\ 1 \in {0, 1} /\ [req |-> Idle(b).req, reps |-> TRUE] = Idle(TRUE)
    BY DEF Idle, Local
  <2>2. Good(x, E, Idle(b), [req |-> Idle(b).req, reps |-> TRUE])
    <3> DEFINE s == Idle(b)
    <3>1. s \in Local /\ 1 \in {0, 1} /\ (1 = 0 => s.reps)
      BY <2>1
    <3> HIDE DEF s
    <3>2. Good(x, E, s, [req |-> s.req, reps |-> TRUE])
      BY <3>1, GoodExploit
    <3> QED BY <3>2 DEF s
  <2> QED BY <2>1, <2>2
<1>2. FullRuns(x, F, G) = [r \in Ranks(x) |-> FE[r] \o G[r]]
  BY DEF FullRuns
<1> HIDE DEF E
<1>3. Good(x, FE, Idle(b), Idle(TRUE))
  BY <1>1, GoodConcat
<1> HIDE DEF FE
<1>4. Good(x, [r \in Ranks(x) |-> FE[r] \o G[r]], Idle(b), Idle(TRUE))
  BY <1>3, GoodConcat
<1> QED BY <1>2, <1>4

-----------------------------------------------------------------------------
(***************************************************************************)
(* What to show of a kernel: which operations and checks the iterations of *)
(* its loops have, g[i] being the one before i.                            *)
(***************************************************************************)
Steps(n, g) == g = [i \in 1 .. n |-> g[i]]

MeasuredSteps(x, ops, g) == ops = IMB_do_n_barriers(x, N_BARR) \o FlattenSeq(g) /\ Steps(x.n, g)

BlockingSteps(x, O, K, r, ops) ==
  \E g : /\ MeasuredSteps(x, ops, g)
         /\ \A i \in 1 .. x.n :
              g[i] = Blocking(O[i - 1][r]) \o K[i - 1][r] \o IMB_do_n_barriers(x, x.sync)

OverlappedSteps(x, O, K, r, ops) ==
  \E g : /\ MeasuredSteps(x, ops, g)
         /\ \A i \in 1 .. x.n :
              g[i] = Overlapped(O[i - 1][r]) \o K[i - 1][r] \o IMB_do_n_barriers(x, x.sync)

FullSteps(x, O, K, P, L, r, ops) ==
  \E a, d : /\ ops = a \o IMB_cpu_exploit(1) \o d
            /\ BlockingSteps(x, O, K, r, a) /\ OverlappedSteps(x, P, L, r, d)

LEMMA SameSteps ==
  ASSUME NEW n, NEW g, NEW h, Steps(n, g), Steps(n, h), \A i \in 1 .. n : g[i] = h[i]
  PROVE  g = h
BY DEF Steps

LEMMA MeasuredAre ==
  ASSUME NEW x, x.n \in Nat, NEW B, NEW r \in Ranks(x), NEW ops, NEW g, MeasuredSteps(x, ops, g),
         \A i \in 1 .. x.n : g[i] = B[i - 1][r] \o IMB_do_n_barriers(x, x.sync)
  PROVE  ops = MeasuredRuns(x, B)[r]
<1> DEFINE h == [i \in 1 .. x.n |-> B[i - 1][r] \o IMB_do_n_barriers(x, x.sync)]
<1>1. Steps(x.n, g) /\ Steps(x.n, h) /\ \A i \in 1 .. x.n : g[i] = h[i]
  BY DEF MeasuredSteps, Steps
<1>2. MeasuredRuns(x, B)[r] = IMB_do_n_barriers(x, N_BARR) \o FlattenSeq(h)
  BY DEF MeasuredRuns
<1> HIDE DEF h
<1>3. g = h
  BY <1>1, SameSteps
<1> QED BY <1>2, <1>3 DEF MeasuredSteps

LEMMA BlockingAre ==
  ASSUME NEW x, x.n \in Nat, NEW O, NEW K, NEW r \in Ranks(x), NEW ops,
         BlockingSteps(x, O, K, r, ops)
  PROVE  ops = BlockingRuns(x, O, K)[r]
<1> DEFINE B == [i \in Nat |-> [q \in Ranks(x) |-> Blocking(O[i][q]) \o K[i][q]]]
<1>1. PICK g : /\ MeasuredSteps(x, ops, g)
               /\ \A i \in 1 .. x.n : g[i] = Blocking(O[i - 1][r]) \o K[i - 1][r]
                                                 \o IMB_do_n_barriers(x, x.sync)
  BY DEF BlockingSteps
<1>2. \A i \in Nat : B[i][r] = Blocking(O[i][r]) \o K[i][r]
  OBVIOUS
<1>3. \A i \in 1 .. x.n : i - 1 \in Nat
  OBVIOUS
<1> HIDE DEF B
<1>4. \A i \in 1 .. x.n : g[i] = B[i - 1][r] \o IMB_do_n_barriers(x, x.sync)
  BY <1>1, <1>2, <1>3
<1>5. ops = MeasuredRuns(x, B)[r]
  BY <1>1, <1>4, MeasuredAre
<1> QED BY <1>5 DEF BlockingRuns, B

LEMMA OverlappedAre ==
  ASSUME NEW x, x.n \in Nat, NEW O, NEW K, NEW r \in Ranks(x), NEW ops,
         OverlappedSteps(x, O, K, r, ops)
  PROVE  ops = OverlappedRuns(x, O, K)[r]
<1> DEFINE B == [i \in Nat |-> [q \in Ranks(x) |-> Overlapped(O[i][q]) \o K[i][q]]]
<1>1. PICK g : /\ MeasuredSteps(x, ops, g)
               /\ \A i \in 1 .. x.n : g[i] = Overlapped(O[i - 1][r]) \o K[i - 1][r]
                                                 \o IMB_do_n_barriers(x, x.sync)
  BY DEF OverlappedSteps
<1>2. \A i \in Nat : B[i][r] = Overlapped(O[i][r]) \o K[i][r]
  OBVIOUS
<1>3. \A i \in 1 .. x.n : i - 1 \in Nat
  OBVIOUS
<1> HIDE DEF B
<1>4. \A i \in 1 .. x.n : g[i] = B[i - 1][r] \o IMB_do_n_barriers(x, x.sync)
  BY <1>1, <1>2, <1>3
<1>5. ops = MeasuredRuns(x, B)[r]
  BY <1>1, <1>4, MeasuredAre
<1> QED BY <1>5 DEF OverlappedRuns, B

(***************************************************************************)
(* The loop of a persistent operation.                                     *)
(***************************************************************************)
PersistentSteps(x, M, compute, J, synced, r, ops) ==
  \E g : /\ Steps(x.n, g)
         /\ ops = IMB_do_n_barriers(x, N_BARR) \o <<[M[r] EXCEPT !.do = "init"]>>
                    \o FlattenSeq(g) \o <<[do |-> "free"]>>
         /\ \A i \in 1 .. x.n :
              g[i] = (<<[M[r] EXCEPT !.do = "begin"]>> \o If(compute, IMB_cpu_exploit(0)) \o Wait1)
                       \o J[i - 1][r] \o If(synced, IMB_do_n_barriers(x, x.sync))

FullPersistent(x, M, Q, N, J, synced, r, ops) ==
  \E a, d : /\ ops = a \o IMB_cpu_exploit(1) \o d
            /\ PersistentSteps(x, M, FALSE, N, synced, r, a)
            /\ PersistentSteps(x, Q, TRUE, J, synced, r, d)

LEMMA PersistentAre ==
  ASSUME NEW x, NEW M, NEW compute, NEW J, NEW synced, NEW r \in Ranks(x), NEW ops,
         PersistentSteps(x, M, compute, J, synced, r, ops)
  PROVE  ops = PersistentRuns(x, M, compute, J, synced)[r]
<1> DEFINE h == [i \in 1 .. x.n |-> AgainRuns(x, M, compute)[r] \o J[i - 1][r]
                                      \o If(synced, IMB_do_n_barriers(x, x.sync))]
<1>1. PICK g : /\ Steps(x.n, g)
               /\ ops = IMB_do_n_barriers(x, N_BARR) \o <<[M[r] EXCEPT !.do = "init"]>>
                          \o FlattenSeq(g) \o <<[do |-> "free"]>>
               /\ \A i \in 1 .. x.n :
                    g[i] = (<<[M[r] EXCEPT !.do = "begin"]>> \o If(compute, IMB_cpu_exploit(0))
                              \o Wait1)
                             \o J[i - 1][r] \o If(synced, IMB_do_n_barriers(x, x.sync))
  BY DEF PersistentSteps
<1>2. AgainRuns(x, M, compute)[r]
        = <<[M[r] EXCEPT !.do = "begin"]>> \o If(compute, IMB_cpu_exploit(0)) \o Wait1
  BY DEF AgainRuns
<1>3. Steps(x.n, h) /\ \A i \in 1 .. x.n : g[i] = h[i]
  BY <1>1, <1>2 DEF Steps
<1>4. PersistentRuns(x, M, compute, J, synced)[r]
        = IMB_do_n_barriers(x, N_BARR) \o <<[M[r] EXCEPT !.do = "init"]>>
            \o FlattenSeq(h) \o <<[do |-> "free"]>>
  BY DEF PersistentRuns
<1> HIDE DEF h
<1>5. g = h
  BY <1>1, <1>3, SameSteps
<1> QED BY <1>1, <1>4, <1>5

(***************************************************************************)
(* The forms a kernel may have, and that it works then.                    *)
(***************************************************************************)
FormOf(x, F, O, K, P, L) ==
  /\ CallNumbers(x) /\ OnRanks(x, F)
  /\ Ops(x, O) /\ Checked(x, K) /\ Ops(x, P) /\ Checked(x, L)
  /\ \/ \A r \in Ranks(x) : BlockingSteps(x, O, K, r, F[r])
     \/ \A r \in Ranks(x) : FullSteps(x, O, K, P, L, r, F[r])

PersistentForm(x, F, M, Q, N, J, synced) ==
  /\ CallNumbers(x) /\ OnRanks(x, F) /\ synced \in BOOLEAN
  /\ GoodOp(x, M) /\ GoodOp(x, Q) /\ Checked(x, N) /\ Checked(x, J)
  /\ \/ \A r \in Ranks(x) : PersistentSteps(x, M, FALSE, N, synced, r, F[r])
     \/ \A r \in Ranks(x) : FullPersistent(x, M, Q, N, J, synced, r, F[r])

LEMMA FormWorks ==
  ASSUME NEW x, NEW F, NEW O, NEW K, NEW P, NEW L, FormOf(x, F, O, K, P, L)
  PROVE  Works(x, F)
<1> DEFINE A == BlockingRuns(x, O, K)
           D == OverlappedRuns(x, P, L)
<1>0. /\ CallNumbers(x) /\ OnRanks(x, F) /\ x.n \in Nat
      /\ Ops(x, O) /\ Checked(x, K) /\ Ops(x, P) /\ Checked(x, L)
  BY DEF FormOf, CallNumbers, CallAssumption
<1>1. OnRanks(x, A)
  BY DEF OnRanks, BlockingRuns, MeasuredRuns
<1>2. CASE \A r \in Ranks(x) : BlockingSteps(x, O, K, r, F[r])
  <2>1. \A r \in Ranks(x) : F[r] = A[r]
    BY <1>0, <1>2, BlockingAre
  <2>2. \A b \in BOOLEAN : Good(x, A, Idle(b), Idle(b))
    BY <1>0, BlockingWorks
  <2> HIDE DEF A
  <2>3. F = A
    BY <1>0, <1>1, <2>1 DEF OnRanks
  <2> QED BY <2>2, <2>3 DEF Works
<1>3. CASE \A r \in Ranks(x) : FullSteps(x, O, K, P, L, r, F[r])
  <2>1. ASSUME NEW r \in Ranks(x) PROVE F[r] = FullRuns(x, A, D)[r]
    <3>1. PICK a, d : /\ F[r] = a \o IMB_cpu_exploit(1) \o d
                      /\ BlockingSteps(x, O, K, r, a) /\ OverlappedSteps(x, P, L, r, d)
      BY <1>3 DEF FullSteps
    <3>2. a = A[r] /\ d = D[r]
      BY <1>0, <3>1, BlockingAre, OverlappedAre
    <3> HIDE DEF A, D
    <3> QED BY <3>1, <3>2 DEF FullRuns
  <2>2. /\ \A b \in BOOLEAN : Good(x, A, Idle(b), Idle(b))
        /\ Good(x, D, Idle(TRUE), Idle(TRUE))
    BY <1>0, BlockingWorks, OverlappedWorks
  <2> HIDE DEF A, D
  <2>3. F = FullRuns(x, A, D)
    BY <1>0, <2>1 DEF OnRanks, FullRuns
  <2> QED BY <2>2, <2>3, FullWorks DEF Works
<1> QED BY <1>2, <1>3 DEF FormOf

LEMMA PersistentFormWorks ==
  ASSUME NEW x, NEW F, NEW M, NEW Q, NEW N, NEW J, NEW synced,
         PersistentForm(x, F, M, Q, N, J, synced)
  PROVE  Works(x, F)
<1> DEFINE A == PersistentRuns(x, M, FALSE, N, synced)
           D == PersistentRuns(x, Q, TRUE, J, synced)
<1>0. /\ CallNumbers(x) /\ OnRanks(x, F) /\ synced \in BOOLEAN
      /\ GoodOp(x, M) /\ GoodOp(x, Q) /\ Checked(x, N) /\ Checked(x, J)
  BY DEF PersistentForm
<1>1. OnRanks(x, A)
  BY DEF OnRanks, PersistentRuns
<1>2. /\ \A b \in BOOLEAN : Good(x, A, Idle(b), Idle(b))
      /\ Good(x, D, Idle(TRUE), Idle(TRUE))
  <2>1. FALSE \in BOOLEAN /\ TRUE \in BOOLEAN
    OBVIOUS
  <2>2. \A b \in BOOLEAN : Good(x, A, Idle(b), Idle(b))
    BY <1>0, <2>1, PersistentGood DEF Checked
  <2>3. Good(x, D, Idle(TRUE), Idle(TRUE))
    BY <1>0, <2>1, PersistentGood DEF Checked
  <2> QED BY <2>2, <2>3
<1>3. CASE \A r \in Ranks(x) : PersistentSteps(x, M, FALSE, N, synced, r, F[r])
  <2>1. \A r \in Ranks(x) : F[r] = A[r]
    BY <1>3, PersistentAre
  <2> HIDE DEF A
  <2>2. F = A
    BY <1>0, <1>1, <2>1 DEF OnRanks
  <2> QED BY <1>2, <2>2 DEF Works
<1>4. CASE \A r \in Ranks(x) : FullPersistent(x, M, Q, N, J, synced, r, F[r])
  <2>1. ASSUME NEW r \in Ranks(x) PROVE F[r] = FullRuns(x, A, D)[r]
    <3>1. PICK a, d : /\ F[r] = a \o IMB_cpu_exploit(1) \o d
                      /\ PersistentSteps(x, M, FALSE, N, synced, r, a)
                      /\ PersistentSteps(x, Q, TRUE, J, synced, r, d)
      BY <1>4 DEF FullPersistent
    <3>2. a = A[r] /\ d = D[r]
      BY <3>1, PersistentAre
    <3> HIDE DEF A, D
    <3> QED BY <3>1, <3>2 DEF FullRuns
  <2> HIDE DEF A, D
  <2>2. F = FullRuns(x, A, D)
    BY <1>0, <2>1 DEF OnRanks, FullRuns
  <2> QED BY <1>2, <2>2, FullWorks DEF Works
<1> QED BY <1>3, <1>4 DEF PersistentForm

(***************************************************************************)
(* The forms of most kernels: A[r] is the blocking one, D[r] the loop with *)
(* computation that follows the pure one, and the persistent ones check    *)
(* nothing; they start M in the pure loop and Q in the one after it.       *)
(***************************************************************************)
Unchecked(x) == [i \in Nat |-> [r \in Ranks(x) |-> <<>>]]

PersistentLoop(x, op, compute, synced) ==
  IMB_do_n_barriers(x, N_BARR) \o <<[op EXCEPT !.do = "init"]>>
    \o FlattenSeq([i \in 1 .. x.n |->
         (<<[op EXCEPT !.do = "begin"]>> \o If(compute, IMB_cpu_exploit(0)) \o Wait1)
           \o <<>> \o If(synced, IMB_do_n_barriers(x, x.sync))])
    \o <<[do |-> "free"]>>

PersistentKernels(x, F, M, Q, synced) ==
  \/ \A r \in Ranks(x) : F[r] = PersistentLoop(x, M[r], FALSE, synced)
  \/ \A r \in Ranks(x) : F[r] = PersistentLoop(x, M[r], FALSE, synced) \o IMB_cpu_exploit(1)
                                  \o PersistentLoop(x, Q[r], TRUE, synced)

Kernels(x, F, A, D, M, Q) ==
  \/ \A r \in Ranks(x) : F[r] = A[r]
  \/ \A r \in Ranks(x) : F[r] = A[r] \o IMB_cpu_exploit(1) \o D[r]
  \/ PersistentKernels(x, F, M, Q, TRUE)

LEMMA PersistentLoopSteps ==
  ASSUME NEW x, x.n \in Nat, NEW M, NEW r \in Ranks(x), NEW compute, NEW synced
  PROVE  PersistentSteps(x, M, compute, Unchecked(x), synced, r,
                         PersistentLoop(x, M[r], compute, synced))
<1> DEFINE g == [i \in 1 .. x.n |->
                   (<<[M[r] EXCEPT !.do = "begin"]>> \o If(compute, IMB_cpu_exploit(0)) \o Wait1)
                     \o <<>> \o If(synced, IMB_do_n_barriers(x, x.sync))]
<1>1. PersistentLoop(x, M[r], compute, synced)
        = IMB_do_n_barriers(x, N_BARR) \o <<[M[r] EXCEPT !.do = "init"]>>
            \o FlattenSeq(g) \o <<[do |-> "free"]>>
  BY DEF PersistentLoop
<1>2. \A i \in 1 .. x.n :
        g[i] = (<<[M[r] EXCEPT !.do = "begin"]>> \o If(compute, IMB_cpu_exploit(0)) \o Wait1)
                 \o Unchecked(x)[i - 1][r] \o If(synced, IMB_do_n_barriers(x, x.sync))
  <2>1. \A i \in 1 .. x.n : Unchecked(x)[i - 1][r] = <<>>
    BY DEF Unchecked
  <2> QED BY <2>1
<1>3. Steps(x.n, g)
  BY DEF Steps
<1> HIDE DEF g
<1> QED BY <1>1, <1>2, <1>3 DEF PersistentSteps

LEMMA PersistentKernelsWork ==
  ASSUME NEW x, CallNumbers(x), NEW F, OnRanks(x, F), NEW M, GoodOp(x, M), NEW synced \in BOOLEAN,
         NEW Q, GoodOp(x, Q), PersistentKernels(x, F, M, Q, synced)
  PROVE  Works(x, F)
<1> DEFINE N == Unchecked(x)
<1>1. x.n \in Nat
  BY DEF CallNumbers, CallAssumption
<1>2. Checked(x, N)
  BY DEF Checked, Quiet, Unchecked
<1>3. \A r \in Ranks(x), compute \in BOOLEAN :
        /\ PersistentSteps(x, M, compute, N, synced, r, PersistentLoop(x, M[r], compute, synced))
        /\ PersistentSteps(x, Q, compute, N, synced, r, PersistentLoop(x, Q[r], compute, synced))
  BY <1>1, PersistentLoopSteps
<1> HIDE DEF N
<1>4. PersistentForm(x, F, M, Q, N, N, synced)
  BY <1>2, <1>3 DEF PersistentForm, FullPersistent, PersistentKernels
<1> QED BY <1>4, PersistentFormWorks

LEMMA KernelsWork ==
  ASSUME NEW x, CallNumbers(x), NEW F, OnRanks(x, F),
         NEW O, Ops(x, O), NEW K, Checked(x, K), NEW P, Ops(x, P), NEW L, Checked(x, L),
         NEW M, GoodOp(x, M), NEW Q, GoodOp(x, Q), NEW A, NEW D, Kernels(x, F, A, D, M, Q),
         \A r \in Ranks(x) : BlockingSteps(x, O, K, r, A[r]) /\ OverlappedSteps(x, P, L, r, D[r])
  PROVE  Works(x, F)
<1>1. CASE PersistentKernels(x, F, M, Q, TRUE)
  BY <1>1, PersistentKernelsWork
<1>2. CASE ~ PersistentKernels(x, F, M, Q, TRUE)
  <2>1. FormOf(x, F, O, K, P, L)
    BY <1>2 DEF Kernels, FormOf, FullSteps
  <2> QED BY <2>1, FormWorks
<1> QED BY <1>1, <1>2

LEMMA AllgatherKernels ==
  ASSUME NEW x, CallNumbers(x), HasBuffers(x, Gathering), NEW F, OnRanks(x, F),
         \/ \A r \in Ranks(x) : F[r] = IMB_allgather(x, r)
         \/ \A r \in Ranks(x) : F[r] = IMB_iallgather_pure(x, r)
         \/ \A r \in Ranks(x) : F[r] = IMB_iallgather(x, r)
         \/ \A r \in Ranks(x) : F[r] = IMB_allgather_persist_pure(x, r)
         \/ \A r \in Ranks(x) : F[r] = IMB_allgather_persist(x, r)
  PROVE  Works(x, F)
<1> DEFINE O == [i \in Nat |-> [r \in Ranks(x) |-> Allgather(x, i)]]
           K == [i \in Nat |-> [r \in Ranks(x) |-> AllgatherCheck(x, i)]]
           M == [r \in Ranks(x) |-> Allgather(x, 0)]
           Sync == IMB_do_n_barriers(x, x.sync)
           a(r) == [i \in 1 .. x.n |-> Blocking(Allgather(x, i - 1))
                                         \o AllgatherCheck(x, i - 1) \o Sync]
           d(r) == [i \in 1 .. x.n |-> Overlapped(Allgather(x, i - 1))
                                         \o AllgatherCheck(x, i - 1) \o Sync]
           A == [r \in Ranks(x) |-> IMB_do_n_barriers(x, N_BARR) \o FlattenSeq(a(r))]
           D == [r \in Ranks(x) |-> IMB_do_n_barriers(x, N_BARR) \o FlattenSeq(d(r))]
<1>1. x.n \in Nat /\ \A i \in 1 .. x.n : i - 1 \in Nat
  BY DEF CallNumbers, CallAssumption
<1>2. Ops(x, O) /\ Checked(x, K)
  <2>1. ASSUME NEW i \in Nat
        PROVE  /\ GoodOp(x, O[i]) /\ \A r \in Ranks(x) : O[i][r].do = "start"
               /\ K[i] \in [Ranks(x) -> Quiet(x)]
    <3>1. OnRanks(x, O[i]) /\ \A r \in Ranks(x) : O[i][r] = Allgather(x, i)
      BY DEF OnRanks
    <3>2. K[i] = [r \in Ranks(x) |-> AllgatherCheck(x, i)]
      OBVIOUS
    <3> HIDE DEF O, K
    <3> QED BY <3>1, <3>2, AllgatherGood
  <2> QED BY <2>1 DEF Ops, Checked
<1>3. GoodOp(x, M)
  <2>1. OnRanks(x, M) /\ \A r \in Ranks(x) : M[r] = Allgather(x, 0)
    BY DEF OnRanks
  <2> HIDE DEF M
  <2>2. 0 \in Ranks(x) /\ 0 \in Nat
    BY Roots
  <2> QED BY <2>1, <2>2, AllgatherGood
<1>4. ASSUME NEW r \in Ranks(x)
      PROVE  BlockingSteps(x, O, K, r, A[r]) /\ OverlappedSteps(x, O, K, r, D[r])
  <2>1. /\ \A i \in 1 .. x.n : /\ a(r)[i] = Blocking(O[i - 1][r]) \o K[i - 1][r] \o Sync
                               /\ d(r)[i] = Overlapped(O[i - 1][r]) \o K[i - 1][r] \o Sync
        /\ Steps(x.n, a(r)) /\ Steps(x.n, d(r))
    BY <1>1 DEF Steps
  <2> QED BY <2>1 DEF BlockingSteps, OverlappedSteps, MeasuredSteps
<1>5. ASSUME NEW r \in Ranks(x)
      PROVE  /\ IMB_allgather(x, r) = A[r] /\ IMB_iallgather_pure(x, r) = A[r]
             /\ IMB_iallgather(x, r) = A[r] \o IMB_cpu_exploit(1) \o D[r]
             /\ IMB_allgather_persist_pure(x, r) = PersistentLoop(x, M[r], FALSE, TRUE)
             /\ IMB_allgather_persist(x, r)
                  = PersistentLoop(x, M[r], FALSE, TRUE) \o IMB_cpu_exploit(1)
                      \o PersistentLoop(x, M[r], TRUE, TRUE)
  BY Zenon DEF IMB_allgather, IMB_iallgather_pure, IMB_iallgather, IMB_allgather_persist_pure,
         IMB_allgather_persist, Measured, Persistent, Loop, NoChecks, PersistentLoop
<1> HIDE DEF O, K, M, A, D
<1>6. Kernels(x, F, A, D, M, M)
  BY <1>5 DEF Kernels, PersistentKernels
<1> QED BY <1>2, <1>3, <1>4, <1>6, KernelsWork

LEMMA AllgathervKernels ==
  ASSUME NEW x, CallNumbers(x), HasBuffers(x, Gathering), NEW F, OnRanks(x, F),
         \/ \A r \in Ranks(x) : F[r] = IMB_allgatherv(x, r)
         \/ \A r \in Ranks(x) : F[r] = IMB_iallgatherv_pure(x, r)
         \/ \A r \in Ranks(x) : F[r] = IMB_iallgatherv(x, r)
         \/ \A r \in Ranks(x) : F[r] = IMB_allgatherv_persist_pure(x, r)
         \/ \A r \in Ranks(x) : F[r] = IMB_allgatherv_persist(x, r)
  PROVE  Works(x, F)
<1> DEFINE O == [i \in Nat |-> [r \in Ranks(x) |-> Allgatherv(x, i)]]
           K == [i \in Nat |-> [r \in Ranks(x) |-> AllgatherCheck(x, i)]]
           M == [r \in Ranks(x) |-> Allgatherv(x, x.np)]
           Q == [r \in Ranks(x) |-> Allgatherv(x, 0)]
           Sync == IMB_do_n_barriers(x, x.sync)
           a(r) == [i \in 1 .. x.n |-> Blocking(Allgatherv(x, i - 1))
                                         \o AllgatherCheck(x, i - 1) \o Sync]
           d(r) == [i \in 1 .. x.n |-> Overlapped(Allgatherv(x, i - 1))
                                         \o AllgatherCheck(x, i - 1) \o Sync]
           A == [r \in Ranks(x) |-> IMB_do_n_barriers(x, N_BARR) \o FlattenSeq(a(r))]
           D == [r \in Ranks(x) |-> IMB_do_n_barriers(x, N_BARR) \o FlattenSeq(d(r))]
<1>1. x.n \in Nat /\ \A i \in 1 .. x.n : i - 1 \in Nat
  BY DEF CallNumbers, CallAssumption
<1>2. Ops(x, O) /\ Checked(x, K)
  <2>1. ASSUME NEW i \in Nat
        PROVE  /\ GoodOp(x, O[i]) /\ \A r \in Ranks(x) : O[i][r].do = "start"
               /\ K[i] \in [Ranks(x) -> Quiet(x)]
    <3>1. OnRanks(x, O[i]) /\ \A r \in Ranks(x) : O[i][r] = Allgatherv(x, i)
      BY DEF OnRanks
    <3>2. K[i] = [r \in Ranks(x) |-> AllgatherCheck(x, i)]
      OBVIOUS
    <3> HIDE DEF O, K
    <3> QED BY <3>1, <3>2, AllgatherGood
  <2> QED BY <2>1 DEF Ops, Checked
<1>3. GoodOp(x, M) /\ GoodOp(x, Q)
  <2>1. x.np \in Nat
    BY DEF CallNumbers
  <2>2. M = O[x.np] /\ Q = O[0]
    BY <2>1
  <2> QED BY <1>2, <2>1, <2>2 DEF Ops
<1>4. ASSUME NEW r \in Ranks(x)
      PROVE  BlockingSteps(x, O, K, r, A[r]) /\ OverlappedSteps(x, O, K, r, D[r])
  <2>1. /\ \A i \in 1 .. x.n : /\ a(r)[i] = Blocking(O[i - 1][r]) \o K[i - 1][r] \o Sync
                               /\ d(r)[i] = Overlapped(O[i - 1][r]) \o K[i - 1][r] \o Sync
        /\ Steps(x.n, a(r)) /\ Steps(x.n, d(r))
    BY <1>1 DEF Steps
  <2> QED BY <2>1 DEF BlockingSteps, OverlappedSteps, MeasuredSteps
<1>5. ASSUME NEW r \in Ranks(x)
      PROVE  /\ IMB_allgatherv(x, r) = A[r] /\ IMB_iallgatherv_pure(x, r) = A[r]
             /\ IMB_iallgatherv(x, r) = A[r] \o IMB_cpu_exploit(1) \o D[r]
             /\ IMB_allgatherv_persist_pure(x, r) = PersistentLoop(x, M[r], FALSE, TRUE)
             /\ IMB_allgatherv_persist(x, r)
                  = PersistentLoop(x, M[r], FALSE, TRUE) \o IMB_cpu_exploit(1)
                      \o PersistentLoop(x, Q[r], TRUE, TRUE)
  BY Zenon DEF IMB_allgatherv, IMB_iallgatherv_pure, IMB_iallgatherv, IMB_allgatherv_persist_pure,
         IMB_allgatherv_persist, Measured, Persistent, Loop, NoChecks, PersistentLoop
<1> HIDE DEF O, K, M, Q, A, D
<1>6. Kernels(x, F, A, D, M, Q)
  BY <1>5 DEF Kernels, PersistentKernels
<1> QED BY <1>2, <1>3, <1>4, <1>6, KernelsWork

LEMMA AlltoallKernels ==
  ASSUME NEW x, CallNumbers(x), HasBuffers(x, Total2), NEW F, OnRanks(x, F),
         \/ \A r \in Ranks(x) : F[r] = IMB_alltoall(x, r)
         \/ \A r \in Ranks(x) : F[r] = IMB_ialltoall_pure(x, r)
         \/ \A r \in Ranks(x) : F[r] = IMB_ialltoall(x, r)
         \/ \A r \in Ranks(x) : F[r] = IMB_alltoall_persist_pure(x, r)
         \/ \A r \in Ranks(x) : F[r] = IMB_alltoall_persist(x, r)
  PROVE  Works(x, F)
<1> DEFINE O == [i \in Nat |-> [r \in Ranks(x) |-> Alltoall(x, i, "Alltoall")]]
           K == [i \in Nat |-> [r \in Ranks(x) |-> AlltoallCheck(x, r, i)]]
           M == [r \in Ranks(x) |-> Alltoall(x, 0, "Alltoall")]
           Sync == IMB_do_n_barriers(x, x.sync)
           a(r) == [i \in 1 .. x.n |-> Blocking(Alltoall(x, i - 1, "Alltoall"))
                                         \o AlltoallCheck(x, r, i - 1) \o Sync]
           d(r) == [i \in 1 .. x.n |-> Overlapped(Alltoall(x, i - 1, "Alltoall"))
                                         \o AlltoallCheck(x, r, i - 1) \o Sync]
           A == [r \in Ranks(x) |-> IMB_do_n_barriers(x, N_BARR) \o FlattenSeq(a(r))]
           D == [r \in Ranks(x) |-> IMB_do_n_barriers(x, N_BARR) \o FlattenSeq(d(r))]
<1>1. x.n \in Nat /\ \A i \in 1 .. x.n : i - 1 \in Nat
  BY DEF CallNumbers, CallAssumption
<1>2. Ops(x, O) /\ Checked(x, K)
  <2>1. ASSUME NEW i \in Nat
        PROVE  /\ GoodOp(x, O[i]) /\ \A r \in Ranks(x) : O[i][r].do = "start"
               /\ K[i] \in [Ranks(x) -> Quiet(x)]
    <3>1. OnRanks(x, O[i]) /\ \A r \in Ranks(x) : O[i][r] = Alltoall(x, i, "Alltoall")
      BY DEF OnRanks
    <3>2. K[i] = [r \in Ranks(x) |-> AlltoallCheck(x, r, i)]
      OBVIOUS
    <3> HIDE DEF O, K
    <3>3. "Alltoall" \in Operations
      BY DEF Operations
    <3> QED BY <3>1, <3>2, <3>3, AlltoallGood
  <2> QED BY <2>1 DEF Ops, Checked
<1>3. GoodOp(x, M)
  <2>1. OnRanks(x, M) /\ \A r \in Ranks(x) : M[r] = Alltoall(x, 0, "Alltoall")
    BY DEF OnRanks
  <2> HIDE DEF M
  <2>2. 0 \in Ranks(x) /\ 0 \in Nat /\ "Alltoall" \in Operations
    BY Roots DEF Operations
  <2> QED BY <2>1, <2>2, AlltoallGood
<1>4. ASSUME NEW r \in Ranks(x)
      PROVE  BlockingSteps(x, O, K, r, A[r]) /\ OverlappedSteps(x, O, K, r, D[r])
  <2>1. /\ \A i \in 1 .. x.n : /\ a(r)[i] = Blocking(O[i - 1][r]) \o K[i - 1][r] \o Sync
                               /\ d(r)[i] = Overlapped(O[i - 1][r]) \o K[i - 1][r] \o Sync
        /\ Steps(x.n, a(r)) /\ Steps(x.n, d(r))
    BY <1>1 DEF Steps
  <2> QED BY <2>1 DEF BlockingSteps, OverlappedSteps, MeasuredSteps
<1>5. ASSUME NEW r \in Ranks(x)
      PROVE  /\ IMB_alltoall(x, r) = A[r] /\ IMB_ialltoall_pure(x, r) = A[r]
             /\ IMB_ialltoall(x, r) = A[r] \o IMB_cpu_exploit(1) \o D[r]
             /\ IMB_alltoall_persist_pure(x, r) = PersistentLoop(x, M[r], FALSE, TRUE)
             /\ IMB_alltoall_persist(x, r)
                  = PersistentLoop(x, M[r], FALSE, TRUE) \o IMB_cpu_exploit(1)
                      \o PersistentLoop(x, M[r], TRUE, TRUE)
  BY Zenon DEF IMB_alltoall, IMB_ialltoall_pure, IMB_ialltoall, IMB_alltoall_persist_pure,
         IMB_alltoall_persist, Measured, Persistent, Loop, NoChecks, PersistentLoop
<1> HIDE DEF O, K, M, A, D
<1>6. Kernels(x, F, A, D, M, M)
  BY <1>5 DEF Kernels, PersistentKernels
<1> QED BY <1>2, <1>3, <1>4, <1>6, KernelsWork

LEMMA AlltoallvKernels ==
  ASSUME NEW x, CallNumbers(x), HasBuffers(x, Total2), NEW F, OnRanks(x, F),
         \/ \A r \in Ranks(x) : F[r] = IMB_alltoallv(x, r)
         \/ \A r \in Ranks(x) : F[r] = IMB_ialltoallv_pure(x, r)
         \/ \A r \in Ranks(x) : F[r] = IMB_ialltoallv(x, r)
         \/ \A r \in Ranks(x) : F[r] = IMB_alltoallv_persist_pure(x, r)
         \/ \A r \in Ranks(x) : F[r] = IMB_alltoallv_persist(x, r)
  PROVE  Works(x, F)
<1> DEFINE O == [i \in Nat |-> [r \in Ranks(x) |-> Alltoall(x, i, "Alltoallv")]]
           K == [i \in Nat |-> [r \in Ranks(x) |-> AlltoallCheck(x, r, i)]]
           M == [r \in Ranks(x) |-> Alltoall(x, x.np, "Alltoallv")]
           Q == [r \in Ranks(x) |-> Alltoall(x, 0, "Alltoallv")]
           Sync == IMB_do_n_barriers(x, x.sync)
           a(r) == [i \in 1 .. x.n |-> Blocking(Alltoall(x, i - 1, "Alltoallv"))
                                         \o AlltoallCheck(x, r, i - 1) \o Sync]
           d(r) == [i \in 1 .. x.n |-> Overlapped(Alltoall(x, i - 1, "Alltoallv"))
                                         \o AlltoallCheck(x, r, i - 1) \o Sync]
           A == [r \in Ranks(x) |-> IMB_do_n_barriers(x, N_BARR) \o FlattenSeq(a(r))]
           D == [r \in Ranks(x) |-> IMB_do_n_barriers(x, N_BARR) \o FlattenSeq(d(r))]
<1>1. x.n \in Nat /\ \A i \in 1 .. x.n : i - 1 \in Nat
  BY DEF CallNumbers, CallAssumption
<1>2. Ops(x, O) /\ Checked(x, K)
  <2>1. ASSUME NEW i \in Nat
        PROVE  /\ GoodOp(x, O[i]) /\ \A r \in Ranks(x) : O[i][r].do = "start"
               /\ K[i] \in [Ranks(x) -> Quiet(x)]
    <3>1. OnRanks(x, O[i]) /\ \A r \in Ranks(x) : O[i][r] = Alltoall(x, i, "Alltoallv")
      BY DEF OnRanks
    <3>2. K[i] = [r \in Ranks(x) |-> AlltoallCheck(x, r, i)]
      OBVIOUS
    <3> HIDE DEF O, K
    <3>3. "Alltoallv" \in Operations
      BY DEF Operations
    <3> QED BY <3>1, <3>2, <3>3, AlltoallGood
  <2> QED BY <2>1 DEF Ops, Checked
<1>3. GoodOp(x, M) /\ GoodOp(x, Q)
  <2>1. x.np \in Nat
    BY DEF CallNumbers
  <2>2. M = O[x.np] /\ Q = O[0]
    BY <2>1
  <2> QED BY <1>2, <2>1, <2>2 DEF Ops
<1>4. ASSUME NEW r \in Ranks(x)
      PROVE  BlockingSteps(x, O, K, r, A[r]) /\ OverlappedSteps(x, O, K, r, D[r])
  <2>1. /\ \A i \in 1 .. x.n : /\ a(r)[i] = Blocking(O[i - 1][r]) \o K[i - 1][r] \o Sync
                               /\ d(r)[i] = Overlapped(O[i - 1][r]) \o K[i - 1][r] \o Sync
        /\ Steps(x.n, a(r)) /\ Steps(x.n, d(r))
    BY <1>1 DEF Steps
  <2> QED BY <2>1 DEF BlockingSteps, OverlappedSteps, MeasuredSteps
<1>5. ASSUME NEW r \in Ranks(x)
      PROVE  /\ IMB_alltoallv(x, r) = A[r] /\ IMB_ialltoallv_pure(x, r) = A[r]
             /\ IMB_ialltoallv(x, r) = A[r] \o IMB_cpu_exploit(1) \o D[r]
             /\ IMB_alltoallv_persist_pure(x, r) = PersistentLoop(x, M[r], FALSE, TRUE)
             /\ IMB_alltoallv_persist(x, r)
                  = PersistentLoop(x, M[r], FALSE, TRUE) \o IMB_cpu_exploit(1)
                      \o PersistentLoop(x, Q[r], TRUE, TRUE)
  BY Zenon DEF IMB_alltoallv, IMB_ialltoallv_pure, IMB_ialltoallv, IMB_alltoallv_persist_pure,
         IMB_alltoallv_persist, Measured, Persistent, Loop, NoChecks, PersistentLoop
<1> HIDE DEF O, K, M, Q, A, D
<1>6. Kernels(x, F, A, D, M, Q)
  BY <1>5 DEF Kernels, PersistentKernels
<1> QED BY <1>2, <1>3, <1>4, <1>6, KernelsWork

LEMMA GatherKernels ==
  ASSUME NEW x, CallNumbers(x), HasBuffers(x, Gathering), NEW F, OnRanks(x, F),
         \/ \A r \in Ranks(x) : F[r] = IMB_gather(x, r)
         \/ \A r \in Ranks(x) : F[r] = IMB_igather_pure(x, r)
         \/ \A r \in Ranks(x) : F[r] = IMB_igather(x, r)
         \/ \A r \in Ranks(x) : F[r] = IMB_gather_persist_pure(x, r)
         \/ \A r \in Ranks(x) : F[r] = IMB_gather_persist(x, r)
  PROVE  Works(x, F)
<1> DEFINE O == [i \in Nat |-> [r \in Ranks(x) |-> Gather(x, r, i, Root(x, i), "Gather")]]
           K == [i \in Nat |-> [r \in Ranks(x) |-> GatherCheck(x, r, i)]]
           M == [r \in Ranks(x) |-> Gather(x, r, 0, 0, "Gather")]
           Sync == IMB_do_n_barriers(x, x.sync)
           a(r) == [i \in 1 .. x.n |-> Blocking(Gather(x, r, i - 1, Root(x, i - 1), "Gather"))
                                         \o GatherCheck(x, r, i - 1) \o Sync]
           d(r) == [i \in 1 .. x.n |-> Overlapped(Gather(x, r, i - 1, Root(x, i - 1), "Gather"))
                                         \o GatherCheck(x, r, i - 1) \o Sync]
           A == [r \in Ranks(x) |-> IMB_do_n_barriers(x, N_BARR) \o FlattenSeq(a(r))]
           D == [r \in Ranks(x) |-> IMB_do_n_barriers(x, N_BARR) \o FlattenSeq(d(r))]
<1>1. x.n \in Nat /\ \A i \in 1 .. x.n : i - 1 \in Nat
  BY DEF CallNumbers, CallAssumption
<1>2. Ops(x, O) /\ Checked(x, K)
  <2>1. ASSUME NEW i \in Nat
        PROVE  /\ GoodOp(x, O[i]) /\ \A r \in Ranks(x) : O[i][r].do = "start"
               /\ K[i] \in [Ranks(x) -> Quiet(x)]
    <3>1. OnRanks(x, O[i]) /\ \A r \in Ranks(x) : O[i][r] = Gather(x, r, i, Root(x, i), "Gather")
      BY DEF OnRanks
    <3>2. K[i] = [r \in Ranks(x) |-> GatherCheck(x, r, i)]
      OBVIOUS
    <3> HIDE DEF O, K
    <3>3. Root(x, i) \in Ranks(x) /\ "Gather" \in Operations
      BY Roots DEF Operations
    <3> QED BY <3>1, <3>2, <3>3, GatherGood
  <2> QED BY <2>1 DEF Ops, Checked
<1>3. GoodOp(x, M)
  <2>1. OnRanks(x, M) /\ \A r \in Ranks(x) : M[r] = Gather(x, r, 0, 0, "Gather")
    BY DEF OnRanks
  <2> HIDE DEF M
  <2>2. 0 \in Ranks(x) /\ 0 \in Nat /\ "Gather" \in Operations
    BY Roots DEF Operations
  <2> QED BY <2>1, <2>2, GatherGood
<1>4. ASSUME NEW r \in Ranks(x)
      PROVE  BlockingSteps(x, O, K, r, A[r]) /\ OverlappedSteps(x, O, K, r, D[r])
  <2>1. /\ \A i \in 1 .. x.n : /\ a(r)[i] = Blocking(O[i - 1][r]) \o K[i - 1][r] \o Sync
                               /\ d(r)[i] = Overlapped(O[i - 1][r]) \o K[i - 1][r] \o Sync
        /\ Steps(x.n, a(r)) /\ Steps(x.n, d(r))
    BY <1>1 DEF Steps
  <2> QED BY <2>1 DEF BlockingSteps, OverlappedSteps, MeasuredSteps
<1>5. ASSUME NEW r \in Ranks(x)
      PROVE  /\ IMB_gather(x, r) = A[r] /\ IMB_igather_pure(x, r) = A[r]
             /\ IMB_igather(x, r) = A[r] \o IMB_cpu_exploit(1) \o D[r]
             /\ IMB_gather_persist_pure(x, r) = PersistentLoop(x, M[r], FALSE, TRUE)
             /\ IMB_gather_persist(x, r)
                  = PersistentLoop(x, M[r], FALSE, TRUE) \o IMB_cpu_exploit(1)
                      \o PersistentLoop(x, M[r], TRUE, TRUE)
  BY Zenon DEF IMB_gather, IMB_igather_pure, IMB_igather, IMB_gather_persist_pure,
         IMB_gather_persist, Measured, Persistent, Loop, NoChecks, PersistentLoop
<1> HIDE DEF O, K, M, A, D
<1>6. Kernels(x, F, A, D, M, M)
  BY <1>5 DEF Kernels, PersistentKernels
<1> QED BY <1>2, <1>3, <1>4, <1>6, KernelsWork

LEMMA GathervKernels ==
  ASSUME NEW x, CallNumbers(x), HasBuffers(x, Gathering), NEW F, OnRanks(x, F),
         \/ \A r \in Ranks(x) : F[r] = IMB_gatherv(x, r)
         \/ \A r \in Ranks(x) : F[r] = IMB_igatherv_pure(x, r)
         \/ \A r \in Ranks(x) : F[r] = IMB_igatherv(x, r)
         \/ \A r \in Ranks(x) : F[r] = IMB_gatherv_persist_pure(x, r)
         \/ \A r \in Ranks(x) : F[r] = IMB_gatherv_persist(x, r)
  PROVE  Works(x, F)
<1> DEFINE O == [i \in Nat |-> [r \in Ranks(x) |-> Gather(x, r, i, Root(x, i), "Gatherv")]]
           K == [i \in Nat |-> [r \in Ranks(x) |-> GatherCheck(x, r, i)]]
           M == [r \in Ranks(x) |-> Gather(x, r, x.np, 0, "Gatherv")]
           Q == [r \in Ranks(x) |-> Gather(x, r, 0, 0, "Gatherv")]
           Sync == IMB_do_n_barriers(x, x.sync)
           a(r) == [i \in 1 .. x.n |-> Blocking(Gather(x, r, i - 1, Root(x, i - 1), "Gatherv"))
                                         \o GatherCheck(x, r, i - 1) \o Sync]
           d(r) == [i \in 1 .. x.n |-> Overlapped(Gather(x, r, i - 1, Root(x, i - 1), "Gatherv"))
                                         \o GatherCheck(x, r, i - 1) \o Sync]
           A == [r \in Ranks(x) |-> IMB_do_n_barriers(x, N_BARR) \o FlattenSeq(a(r))]
           D == [r \in Ranks(x) |-> IMB_do_n_barriers(x, N_BARR) \o FlattenSeq(d(r))]
<1>1. x.n \in Nat /\ \A i \in 1 .. x.n : i - 1 \in Nat
  BY DEF CallNumbers, CallAssumption
<1>2. Ops(x, O) /\ Checked(x, K)
  <2>1. ASSUME NEW i \in Nat
        PROVE  /\ GoodOp(x, O[i]) /\ \A r \in Ranks(x) : O[i][r].do = "start"
               /\ K[i] \in [Ranks(x) -> Quiet(x)]
    <3>1. OnRanks(x, O[i]) /\ \A r \in Ranks(x) : O[i][r] = Gather(x, r, i, Root(x, i), "Gatherv")
      BY DEF OnRanks
    <3>2. K[i] = [r \in Ranks(x) |-> GatherCheck(x, r, i)]
      OBVIOUS
    <3> HIDE DEF O, K
    <3>3. Root(x, i) \in Ranks(x) /\ "Gatherv" \in Operations
      BY Roots DEF Operations
    <3> QED BY <3>1, <3>2, <3>3, GatherGood
  <2> QED BY <2>1 DEF Ops, Checked
<1>3. GoodOp(x, M) /\ GoodOp(x, Q)
  <2>1. 0 \in Ranks(x) /\ 0 \in Nat /\ x.np \in Nat /\ "Gatherv" \in Operations
    BY Roots DEF CallNumbers, Operations
  <2>2. OnRanks(x, M) /\ OnRanks(x, Q)
    BY DEF OnRanks
  <2>3. \A r \in Ranks(x) : /\ M[r] = Gather(x, r, x.np, 0, "Gatherv")
                            /\ Q[r] = Gather(x, r, 0, 0, "Gatherv")
    OBVIOUS
  <2> HIDE DEF M, Q
  <2> QED BY <2>1, <2>2, <2>3, GatherGood
<1>4. ASSUME NEW r \in Ranks(x)
      PROVE  BlockingSteps(x, O, K, r, A[r]) /\ OverlappedSteps(x, O, K, r, D[r])
  <2>1. /\ \A i \in 1 .. x.n : /\ a(r)[i] = Blocking(O[i - 1][r]) \o K[i - 1][r] \o Sync
                               /\ d(r)[i] = Overlapped(O[i - 1][r]) \o K[i - 1][r] \o Sync
        /\ Steps(x.n, a(r)) /\ Steps(x.n, d(r))
    BY <1>1 DEF Steps
  <2> QED BY <2>1 DEF BlockingSteps, OverlappedSteps, MeasuredSteps
<1>5. ASSUME NEW r \in Ranks(x)
      PROVE  /\ IMB_gatherv(x, r) = A[r] /\ IMB_igatherv_pure(x, r) = A[r]
             /\ IMB_igatherv(x, r) = A[r] \o IMB_cpu_exploit(1) \o D[r]
             /\ IMB_gatherv_persist_pure(x, r) = PersistentLoop(x, M[r], FALSE, TRUE)
             /\ IMB_gatherv_persist(x, r)
                  = PersistentLoop(x, M[r], FALSE, TRUE) \o IMB_cpu_exploit(1)
                      \o PersistentLoop(x, Q[r], TRUE, TRUE)
  BY Zenon DEF IMB_gatherv, IMB_igatherv_pure, IMB_igatherv, IMB_gatherv_persist_pure,
         IMB_gatherv_persist, Measured, Persistent, Loop, NoChecks, PersistentLoop
<1> HIDE DEF O, K, M, Q, A, D
<1>6. Kernels(x, F, A, D, M, Q)
  BY <1>5 DEF Kernels, PersistentKernels
<1> QED BY <1>2, <1>3, <1>4, <1>6, KernelsWork

LEMMA ScatterKernels ==
  ASSUME NEW x, CallNumbers(x), HasBuffers(x, Scattering), NEW F, OnRanks(x, F),
         \/ \A r \in Ranks(x) : F[r] = IMB_scatter(x, r)
         \/ \A r \in Ranks(x) : F[r] = IMB_iscatter_pure(x, r)
         \/ \A r \in Ranks(x) : F[r] = IMB_iscatter(x, r)
         \/ \A r \in Ranks(x) : F[r] = IMB_scatter_persist_pure(x, r)
         \/ \A r \in Ranks(x) : F[r] = IMB_scatter_persist(x, r)
  PROVE  Works(x, F)
<1> DEFINE O == [i \in Nat |-> [r \in Ranks(x) |-> Scatter(x, r, i, Root(x, i), "Scatter")]]
           K == [i \in Nat |-> [r \in Ranks(x) |-> ScatterCheck(x, r, i)]]
           M == [r \in Ranks(x) |-> Scatter(x, r, 0, 0, "Scatter")]
           Sync == IMB_do_n_barriers(x, x.sync)
           a(r) == [i \in 1 .. x.n |-> Blocking(Scatter(x, r, i - 1, Root(x, i - 1), "Scatter"))
                                         \o ScatterCheck(x, r, i - 1) \o Sync]
           d(r) == [i \in 1 .. x.n |-> Overlapped(Scatter(x, r, i - 1, Root(x, i - 1), "Scatter"))
                                         \o ScatterCheck(x, r, i - 1) \o Sync]
           A == [r \in Ranks(x) |-> IMB_do_n_barriers(x, N_BARR) \o FlattenSeq(a(r))]
           D == [r \in Ranks(x) |-> IMB_do_n_barriers(x, N_BARR) \o FlattenSeq(d(r))]
<1>1. x.n \in Nat /\ \A i \in 1 .. x.n : i - 1 \in Nat
  BY DEF CallNumbers, CallAssumption
<1>2. Ops(x, O) /\ Checked(x, K)
  <2>1. ASSUME NEW i \in Nat
        PROVE  /\ GoodOp(x, O[i]) /\ \A r \in Ranks(x) : O[i][r].do = "start"
               /\ K[i] \in [Ranks(x) -> Quiet(x)]
    <3>1. OnRanks(x, O[i]) /\ \A r \in Ranks(x) : O[i][r] = Scatter(x, r, i, Root(x, i), "Scatter")
      BY DEF OnRanks
    <3>2. K[i] = [r \in Ranks(x) |-> ScatterCheck(x, r, i)]
      OBVIOUS
    <3> HIDE DEF O, K
    <3>3. Root(x, i) \in Ranks(x) /\ "Scatter" \in Operations
      BY Roots DEF Operations
    <3> QED BY <3>1, <3>2, <3>3, ScatterGood
  <2> QED BY <2>1 DEF Ops, Checked
<1>3. GoodOp(x, M)
  <2>1. OnRanks(x, M) /\ \A r \in Ranks(x) : M[r] = Scatter(x, r, 0, 0, "Scatter")
    BY DEF OnRanks
  <2> HIDE DEF M
  <2>2. 0 \in Ranks(x) /\ 0 \in Nat /\ "Scatter" \in Operations
    BY Roots DEF Operations
  <2> QED BY <2>1, <2>2, ScatterGood
<1>4. ASSUME NEW r \in Ranks(x)
      PROVE  BlockingSteps(x, O, K, r, A[r]) /\ OverlappedSteps(x, O, K, r, D[r])
  <2>1. /\ \A i \in 1 .. x.n : /\ a(r)[i] = Blocking(O[i - 1][r]) \o K[i - 1][r] \o Sync
                               /\ d(r)[i] = Overlapped(O[i - 1][r]) \o K[i - 1][r] \o Sync
        /\ Steps(x.n, a(r)) /\ Steps(x.n, d(r))
    BY <1>1 DEF Steps
  <2> QED BY <2>1 DEF BlockingSteps, OverlappedSteps, MeasuredSteps
<1>5. ASSUME NEW r \in Ranks(x)
      PROVE  /\ IMB_scatter(x, r) = A[r] /\ IMB_iscatter_pure(x, r) = A[r]
             /\ IMB_iscatter(x, r) = A[r] \o IMB_cpu_exploit(1) \o D[r]
             /\ IMB_scatter_persist_pure(x, r) = PersistentLoop(x, M[r], FALSE, TRUE)
             /\ IMB_scatter_persist(x, r)
                  = PersistentLoop(x, M[r], FALSE, TRUE) \o IMB_cpu_exploit(1)
                      \o PersistentLoop(x, M[r], TRUE, TRUE)
  BY Zenon DEF IMB_scatter, IMB_iscatter_pure, IMB_iscatter, IMB_scatter_persist_pure,
         IMB_scatter_persist, Measured, Persistent, Loop, NoChecks, PersistentLoop
<1> HIDE DEF O, K, M, A, D
<1>6. Kernels(x, F, A, D, M, M)
  BY <1>5 DEF Kernels, PersistentKernels
<1> QED BY <1>2, <1>3, <1>4, <1>6, KernelsWork

LEMMA ScattervKernels ==
  ASSUME NEW x, CallNumbers(x), HasBuffers(x, Scattering), NEW F, OnRanks(x, F),
         \/ \A r \in Ranks(x) : F[r] = IMB_scatterv(x, r)
         \/ \A r \in Ranks(x) : F[r] = IMB_iscatterv_pure(x, r)
         \/ \A r \in Ranks(x) : F[r] = IMB_iscatterv(x, r)
         \/ \A r \in Ranks(x) : F[r] = IMB_scatterv_persist_pure(x, r)
         \/ \A r \in Ranks(x) : F[r] = IMB_scatterv_persist(x, r)
  PROVE  Works(x, F)
<1> DEFINE O == [i \in Nat |-> [r \in Ranks(x) |-> Scatter(x, r, i, Root(x, i), "Scatterv")]]
           K == [i \in Nat |-> [r \in Ranks(x) |-> ScatterCheck(x, r, i)]]
           M == [r \in Ranks(x) |-> Scatter(x, r, x.np, 0, "Scatterv")]
           Q == [r \in Ranks(x) |-> Scatter(x, r, 0, 0, "Scatterv")]
           Sync == IMB_do_n_barriers(x, x.sync)
           a(r) == [i \in 1 .. x.n |-> Blocking(Scatter(x, r, i - 1, Root(x, i - 1), "Scatterv"))
                                         \o ScatterCheck(x, r, i - 1) \o Sync]
           d(r) == [i \in 1 .. x.n |-> Overlapped(Scatter(x, r, i - 1, Root(x, i - 1), "Scatterv"))
                                         \o ScatterCheck(x, r, i - 1) \o Sync]
           A == [r \in Ranks(x) |-> IMB_do_n_barriers(x, N_BARR) \o FlattenSeq(a(r))]
           D == [r \in Ranks(x) |-> IMB_do_n_barriers(x, N_BARR) \o FlattenSeq(d(r))]
<1>1. x.n \in Nat /\ \A i \in 1 .. x.n : i - 1 \in Nat
  BY DEF CallNumbers, CallAssumption
<1>2. Ops(x, O) /\ Checked(x, K)
  <2>1. ASSUME NEW i \in Nat
        PROVE  /\ GoodOp(x, O[i]) /\ \A r \in Ranks(x) : O[i][r].do = "start"
               /\ K[i] \in [Ranks(x) -> Quiet(x)]
    <3>1. OnRanks(x, O[i]) /\ \A r \in Ranks(x) : O[i][r] = Scatter(x, r, i, Root(x, i), "Scatterv")
      BY DEF OnRanks
    <3>2. K[i] = [r \in Ranks(x) |-> ScatterCheck(x, r, i)]
      OBVIOUS
    <3> HIDE DEF O, K
    <3>3. Root(x, i) \in Ranks(x) /\ "Scatterv" \in Operations
      BY Roots DEF Operations
    <3> QED BY <3>1, <3>2, <3>3, ScatterGood
  <2> QED BY <2>1 DEF Ops, Checked
<1>3. GoodOp(x, M) /\ GoodOp(x, Q)
  <2>1. 0 \in Ranks(x) /\ 0 \in Nat /\ x.np \in Nat /\ "Scatterv" \in Operations
    BY Roots DEF CallNumbers, Operations
  <2>2. OnRanks(x, M) /\ OnRanks(x, Q)
    BY DEF OnRanks
  <2>3. \A r \in Ranks(x) : /\ M[r] = Scatter(x, r, x.np, 0, "Scatterv")
                            /\ Q[r] = Scatter(x, r, 0, 0, "Scatterv")
    OBVIOUS
  <2> HIDE DEF M, Q
  <2> QED BY <2>1, <2>2, <2>3, ScatterGood
<1>4. ASSUME NEW r \in Ranks(x)
      PROVE  BlockingSteps(x, O, K, r, A[r]) /\ OverlappedSteps(x, O, K, r, D[r])
  <2>1. /\ \A i \in 1 .. x.n : /\ a(r)[i] = Blocking(O[i - 1][r]) \o K[i - 1][r] \o Sync
                               /\ d(r)[i] = Overlapped(O[i - 1][r]) \o K[i - 1][r] \o Sync
        /\ Steps(x.n, a(r)) /\ Steps(x.n, d(r))
    BY <1>1 DEF Steps
  <2> QED BY <2>1 DEF BlockingSteps, OverlappedSteps, MeasuredSteps
<1>5. ASSUME NEW r \in Ranks(x)
      PROVE  /\ IMB_scatterv(x, r) = A[r] /\ IMB_iscatterv_pure(x, r) = A[r]
             /\ IMB_iscatterv(x, r) = A[r] \o IMB_cpu_exploit(1) \o D[r]
             /\ IMB_scatterv_persist_pure(x, r) = PersistentLoop(x, M[r], FALSE, TRUE)
             /\ IMB_scatterv_persist(x, r)
                  = PersistentLoop(x, M[r], FALSE, TRUE) \o IMB_cpu_exploit(1)
                      \o PersistentLoop(x, Q[r], TRUE, TRUE)
  BY Zenon DEF IMB_scatterv, IMB_iscatterv_pure, IMB_iscatterv, IMB_scatterv_persist_pure,
         IMB_scatterv_persist, Measured, Persistent, Loop, NoChecks, PersistentLoop
<1> HIDE DEF O, K, M, Q, A, D
<1>6. Kernels(x, F, A, D, M, Q)
  BY <1>5 DEF Kernels, PersistentKernels
<1> QED BY <1>2, <1>3, <1>4, <1>6, KernelsWork

LEMMA ReduceKernels ==
  ASSUME NEW x, CallNumbers(x), HasBuffers(x, One), NEW F, OnRanks(x, F),
         \/ \A r \in Ranks(x) : F[r] = IMB_reduce(x, r)
         \/ \A r \in Ranks(x) : F[r] = IMB_ireduce_pure(x, r)
         \/ \A r \in Ranks(x) : F[r] = IMB_ireduce(x, r)
         \/ \A r \in Ranks(x) : F[r] = IMB_reduce_persist_pure(x, r)
         \/ \A r \in Ranks(x) : F[r] = IMB_reduce_persist(x, r)
  PROVE  Works(x, F)
<1> DEFINE O == [i \in Nat |-> [r \in Ranks(x) |-> Reduce(x, r, i, Root(x, i))]]
           K == [i \in Nat |-> [r \in Ranks(x) |-> ReduceCheck(x, r, i, Root(x, i))]]
           P == [i \in Nat |-> [r \in Ranks(x) |-> Reduce(x, r, i, i % x.np)]]
           L == [i \in Nat |-> [r \in Ranks(x) |-> ReduceCheck(x, r, i, i % x.np)]]
           M == [r \in Ranks(x) |-> Reduce(x, r, 0, 0)]
           Sync == IMB_do_n_barriers(x, x.sync)
           a(r) == [i \in 1 .. x.n |-> Blocking(Reduce(x, r, i - 1, Root(x, i - 1)))
                                         \o ReduceCheck(x, r, i - 1, Root(x, i - 1)) \o Sync]
           d(r) == [i \in 1 .. x.n |-> Overlapped(Reduce(x, r, i - 1, (i - 1) % x.np))
                                         \o ReduceCheck(x, r, i - 1, (i - 1) % x.np) \o Sync]
           A == [r \in Ranks(x) |-> IMB_do_n_barriers(x, N_BARR) \o FlattenSeq(a(r))]
           D == [r \in Ranks(x) |-> IMB_do_n_barriers(x, N_BARR) \o FlattenSeq(d(r))]
<1>1. x.n \in Nat /\ \A i \in 1 .. x.n : i - 1 \in Nat
  BY DEF CallNumbers, CallAssumption
<1>2. Ops(x, O) /\ Checked(x, K) /\ Ops(x, P) /\ Checked(x, L)
  <2>1. ASSUME NEW i \in Nat
        PROVE  /\ GoodOp(x, O[i]) /\ \A r \in Ranks(x) : O[i][r].do = "start"
               /\ K[i] \in [Ranks(x) -> Quiet(x)]
    <3>1. OnRanks(x, O[i]) /\ \A r \in Ranks(x) : O[i][r] = Reduce(x, r, i, Root(x, i))
      BY DEF OnRanks
    <3>2. K[i] = [r \in Ranks(x) |-> ReduceCheck(x, r, i, Root(x, i))]
      OBVIOUS
    <3> HIDE DEF O, K
    <3>3. Root(x, i) \in Ranks(x)
      BY Roots
    <3> QED BY <3>1, <3>2, <3>3, ReduceGood
  <2>2. ASSUME NEW i \in Nat
        PROVE  /\ GoodOp(x, P[i]) /\ \A r \in Ranks(x) : P[i][r].do = "start"
               /\ L[i] \in [Ranks(x) -> Quiet(x)]
    <3>1. OnRanks(x, P[i]) /\ \A r \in Ranks(x) : P[i][r] = Reduce(x, r, i, i % x.np)
      BY DEF OnRanks
    <3>2. L[i] = [r \in Ranks(x) |-> ReduceCheck(x, r, i, i % x.np)]
      OBVIOUS
    <3> HIDE DEF P, L
    <3>3. i % x.np \in Ranks(x)
      BY Roots
    <3> QED BY <3>1, <3>2, <3>3, ReduceGood
  <2> QED BY <2>1, <2>2 DEF Ops, Checked
<1>3. GoodOp(x, M)
  <2>1. OnRanks(x, M) /\ \A r \in Ranks(x) : M[r] = Reduce(x, r, 0, 0)
    BY DEF OnRanks
  <2> HIDE DEF M
  <2>2. 0 \in Ranks(x) /\ 0 \in Nat
    BY Roots
  <2> QED BY <2>1, <2>2, ReduceGood
<1>4. ASSUME NEW r \in Ranks(x)
      PROVE  BlockingSteps(x, O, K, r, A[r]) /\ OverlappedSteps(x, P, L, r, D[r])
  <2>1. /\ \A i \in 1 .. x.n : /\ a(r)[i] = Blocking(O[i - 1][r]) \o K[i - 1][r] \o Sync
                               /\ d(r)[i] = Overlapped(P[i - 1][r]) \o L[i - 1][r] \o Sync
        /\ Steps(x.n, a(r)) /\ Steps(x.n, d(r))
    BY <1>1 DEF Steps
  <2> HIDE DEF O, K, P, L, a, d
  <2>2. MeasuredSteps(x, A[r], a(r)) /\ MeasuredSteps(x, D[r], d(r))
    BY <2>1 DEF MeasuredSteps
  <2> HIDE DEF MeasuredSteps, A, D, Sync
  <2> QED BY <2>1, <2>2 DEF BlockingSteps, OverlappedSteps, Sync
<1>5. ASSUME NEW r \in Ranks(x)
      PROVE  /\ IMB_reduce(x, r) = A[r] /\ IMB_ireduce_pure(x, r) = A[r]
             /\ IMB_ireduce(x, r) = A[r] \o IMB_cpu_exploit(1) \o D[r]
             /\ IMB_reduce_persist_pure(x, r) = PersistentLoop(x, M[r], FALSE, TRUE)
             /\ IMB_reduce_persist(x, r)
                  = PersistentLoop(x, M[r], FALSE, TRUE) \o IMB_cpu_exploit(1)
                      \o PersistentLoop(x, M[r], TRUE, TRUE)
  BY Zenon DEF IMB_reduce, IMB_ireduce_pure, IMB_ireduce, IMB_reduce_persist_pure,
         IMB_reduce_persist, Measured, Persistent, Loop, NoChecks, PersistentLoop
<1> HIDE DEF O, K, P, L, M, A, D
<1>6. Kernels(x, F, A, D, M, M)
  BY <1>5 DEF Kernels, PersistentKernels
<1> QED BY <1>2, <1>3, <1>4, <1>6, KernelsWork

LEMMA AllreduceKernels ==
  ASSUME NEW x, CallNumbers(x), HasBuffers(x, One), NEW F, OnRanks(x, F),
         \/ \A r \in Ranks(x) : F[r] = IMB_allreduce(x, r)
         \/ \A r \in Ranks(x) : F[r] = IMB_iallreduce_pure(x, r)
         \/ \A r \in Ranks(x) : F[r] = IMB_iallreduce(x, r)
         \/ \A r \in Ranks(x) : F[r] = IMB_allreduce_persist_pure(x, r)
         \/ \A r \in Ranks(x) : F[r] = IMB_allreduce_persist(x, r)
  PROVE  Works(x, F)
<1> DEFINE O == [i \in Nat |-> [r \in Ranks(x) |-> Allreduce(x, i)]]
           K == [i \in Nat |-> [r \in Ranks(x) |-> AllreduceCheck(x, i)]]
           M == [r \in Ranks(x) |-> Allreduce(x, 0)]
           Sync == IMB_do_n_barriers(x, x.sync)
           a(r) == [i \in 1 .. x.n |-> Blocking(Allreduce(x, i - 1))
                                         \o AllreduceCheck(x, i - 1) \o Sync]
           d(r) == [i \in 1 .. x.n |-> Overlapped(Allreduce(x, i - 1))
                                         \o AllreduceCheck(x, i - 1) \o Sync]
           A == [r \in Ranks(x) |-> IMB_do_n_barriers(x, N_BARR) \o FlattenSeq(a(r))]
           D == [r \in Ranks(x) |-> IMB_do_n_barriers(x, N_BARR) \o FlattenSeq(d(r))]
<1>1. x.n \in Nat /\ \A i \in 1 .. x.n : i - 1 \in Nat
  BY DEF CallNumbers, CallAssumption
<1>2. Ops(x, O) /\ Checked(x, K)
  <2>1. ASSUME NEW i \in Nat
        PROVE  /\ GoodOp(x, O[i]) /\ \A r \in Ranks(x) : O[i][r].do = "start"
               /\ K[i] \in [Ranks(x) -> Quiet(x)]
    <3>1. OnRanks(x, O[i]) /\ \A r \in Ranks(x) : O[i][r] = Allreduce(x, i)
      BY DEF OnRanks
    <3>2. K[i] = [r \in Ranks(x) |-> AllreduceCheck(x, i)]
      OBVIOUS
    <3> HIDE DEF O, K
    <3>3. GoodOp(x, O[i]) /\ \A r \in Ranks(x) : O[i][r].do = "start"
      BY <3>1, AllreduceGood
    <3>4. AllreduceCheck(x, i) \in Quiet(x)
      BY <3>1, AllreduceGood
    <3> QED BY <3>2, <3>3, <3>4
  <2> QED BY <2>1 DEF Ops, Checked
<1>3. GoodOp(x, M)
  <2>1. OnRanks(x, M) /\ \A r \in Ranks(x) : M[r] = Allreduce(x, 0)
    BY DEF OnRanks
  <2> HIDE DEF M
  <2>2. 0 \in Ranks(x) /\ 0 \in Nat
    BY Roots
  <2> QED BY <2>1, <2>2, AllreduceGood
<1>4. ASSUME NEW r \in Ranks(x)
      PROVE  BlockingSteps(x, O, K, r, A[r]) /\ OverlappedSteps(x, O, K, r, D[r])
  <2>1. /\ \A i \in 1 .. x.n : /\ a(r)[i] = Blocking(O[i - 1][r]) \o K[i - 1][r] \o Sync
                               /\ d(r)[i] = Overlapped(O[i - 1][r]) \o K[i - 1][r] \o Sync
        /\ Steps(x.n, a(r)) /\ Steps(x.n, d(r))
    BY <1>1 DEF Steps
  <2> QED BY <2>1 DEF BlockingSteps, OverlappedSteps, MeasuredSteps
<1>5. ASSUME NEW r \in Ranks(x)
      PROVE  /\ IMB_allreduce(x, r) = A[r] /\ IMB_iallreduce_pure(x, r) = A[r]
             /\ IMB_iallreduce(x, r) = A[r] \o IMB_cpu_exploit(1) \o D[r]
             /\ IMB_allreduce_persist_pure(x, r) = PersistentLoop(x, M[r], FALSE, TRUE)
             /\ IMB_allreduce_persist(x, r)
                  = PersistentLoop(x, M[r], FALSE, TRUE) \o IMB_cpu_exploit(1)
                      \o PersistentLoop(x, M[r], TRUE, TRUE)
  BY DEF IMB_allreduce, IMB_iallreduce_pure, IMB_iallreduce, IMB_allreduce_persist_pure,
         IMB_allreduce_persist, Measured, Persistent, Loop, NoChecks, PersistentLoop
<1> HIDE DEF O, K, M, A, D
<1>6. Kernels(x, F, A, D, M, M)
  BY <1>5 DEF Kernels, PersistentKernels
<1> QED BY <1>2, <1>3, <1>4, <1>6, KernelsWork

LEMMA BcastKernels ==
  ASSUME NEW x, CallNumbers(x), HasBuffers(x, One), NEW F, OnRanks(x, F),
         \/ \A r \in Ranks(x) : F[r] = IMB_bcast(x, r)
         \/ \A r \in Ranks(x) : F[r] = IMB_ibcast_pure(x, r)
         \/ \A r \in Ranks(x) : F[r] = IMB_ibcast(x, r)
         \/ \A r \in Ranks(x) : F[r] = IMB_bcast_persist_pure(x, r)
         \/ \A r \in Ranks(x) : F[r] = IMB_bcast_persist(x, r)
  PROVE  Works(x, F)
<1> DEFINE O == [i \in Nat |-> [r \in Ranks(x) |-> Bcast(x, r, i, Root(x, i))]]
           K == [i \in Nat |-> [r \in Ranks(x) |-> BcastCheck(x, r, i, Root(x, i))]]
           N == Unchecked(x)
           M == [r \in Ranks(x) |-> Bcast(x, r, 0, 0)]
           J == [i \in Nat |-> [r \in Ranks(x) |-> BcastCheck(x, r, i, 0)]]
           Sync == IMB_do_n_barriers(x, x.sync)
           b(r) == [i \in 1 .. x.n |-> Blocking(Bcast(x, r, i - 1, Root(x, i - 1)))
                                         \o BcastCheck(x, r, i - 1, Root(x, i - 1)) \o Sync]
           a(r) == [i \in 1 .. x.n |-> Blocking(Bcast(x, r, i - 1, Root(x, i - 1))) \o Sync]
           d(r) == [i \in 1 .. x.n |-> Overlapped(Bcast(x, r, i - 1, Root(x, i - 1)))
                                         \o BcastCheck(x, r, i - 1, Root(x, i - 1)) \o Sync]
           e(r) == [i \in 1 .. x.n |->
                      (<<[M[r] EXCEPT !.do = "begin"]>> \o If(TRUE, IMB_cpu_exploit(0)) \o Wait1)
                        \o BcastCheck(x, r, i - 1, 0) \o If(TRUE, Sync)]
           B == [r \in Ranks(x) |-> IMB_do_n_barriers(x, N_BARR) \o FlattenSeq(b(r))]
           A == [r \in Ranks(x) |-> IMB_do_n_barriers(x, N_BARR) \o FlattenSeq(a(r))]
           D == [r \in Ranks(x) |-> IMB_do_n_barriers(x, N_BARR) \o FlattenSeq(d(r))]
           E == [r \in Ranks(x) |-> IMB_do_n_barriers(x, N_BARR)
                                       \o <<[M[r] EXCEPT !.do = "init"]>>
                                       \o FlattenSeq(e(r)) \o <<[do |-> "free"]>>]
<1>1. x.n \in Nat /\ \A i \in 1 .. x.n : i - 1 \in Nat
  BY DEF CallNumbers, CallAssumption
<1>2. Ops(x, O) /\ Checked(x, K)
  <2>1. ASSUME NEW i \in Nat
        PROVE  /\ GoodOp(x, O[i]) /\ \A r \in Ranks(x) : O[i][r].do = "start"
               /\ K[i] \in [Ranks(x) -> Quiet(x)]
    <3>1. OnRanks(x, O[i]) /\ \A r \in Ranks(x) : O[i][r] = Bcast(x, r, i, Root(x, i))
      BY DEF OnRanks
    <3>2. K[i] = [r \in Ranks(x) |-> BcastCheck(x, r, i, Root(x, i))]
      OBVIOUS
    <3> HIDE DEF O, K
    <3>3. Root(x, i) \in Ranks(x)
      BY Roots
    <3> QED BY <3>1, <3>2, <3>3, BcastGood
  <2> QED BY <2>1 DEF Ops, Checked
<1>3. Checked(x, N)
  BY DEF Checked, Quiet, Unchecked
<1>4. GoodOp(x, M)
  <2>1. OnRanks(x, M) /\ \A r \in Ranks(x) : M[r] = Bcast(x, r, 0, 0)
    BY DEF OnRanks
  <2> HIDE DEF M
  <2>2. 0 \in Ranks(x) /\ 0 \in Nat
    BY Roots
  <2> QED BY <2>1, <2>2, BcastGood
<1>5. Checked(x, J)
  <2>1. ASSUME NEW i \in Nat, NEW r \in Ranks(x) PROVE BcastCheck(x, r, i, 0) \in Quiet(x)
    <3>1. OnRanks(x, O[i]) /\ \A q \in Ranks(x) : O[i][q] = Bcast(x, q, i, Root(x, i))
      BY DEF OnRanks
    <3> HIDE DEF O
    <3>2. Root(x, i) \in Ranks(x)
      BY Roots
    <3> QED BY <3>1, <3>2, BcastGood
  <2> QED BY <2>1 DEF Checked
<1>6. ASSUME NEW r \in Ranks(x)
      PROVE  /\ BlockingSteps(x, O, K, r, B[r]) /\ BlockingSteps(x, O, N, r, A[r])
             /\ OverlappedSteps(x, O, K, r, D[r]) /\ PersistentSteps(x, M, TRUE, J, TRUE, r, E[r])
  <2>1. \A i \in 1 .. x.n : /\ b(r)[i] = Blocking(O[i - 1][r]) \o K[i - 1][r] \o Sync
                            /\ d(r)[i] = Overlapped(O[i - 1][r]) \o K[i - 1][r] \o Sync
    BY <1>1
  <2>2. \A i \in 1 .. x.n : a(r)[i] = Blocking(O[i - 1][r]) \o N[i - 1][r] \o Sync
    <3>1. \A op : Blocking(op) \o <<>> = Blocking(op)
      BY DEF Blocking
    <3>2. \A i \in 1 .. x.n : N[i - 1][r] = <<>>
      BY <1>1 DEF Unchecked
    <3> HIDE DEF N
    <3> QED BY <1>1, <3>1, <3>2
  <2>3. \A i \in 1 .. x.n :
          e(r)[i] = (<<[M[r] EXCEPT !.do = "begin"]>> \o If(TRUE, IMB_cpu_exploit(0)) \o Wait1)
                      \o J[i - 1][r] \o If(TRUE, Sync)
    <3> HIDE DEF M
    <3> QED BY <1>1
  <2>4. Steps(x.n, b(r)) /\ Steps(x.n, a(r)) /\ Steps(x.n, d(r)) /\ Steps(x.n, e(r))
    BY DEF Steps
  <2>5. PersistentSteps(x, M, TRUE, J, TRUE, r, E[r])
    <3> HIDE DEF M, J
    <3> QED BY <2>3, <2>4 DEF PersistentSteps
  <2> HIDE DEF M, J, N, K, O, a, b, d
  <2>6. MeasuredSteps(x, B[r], b(r)) /\ MeasuredSteps(x, A[r], a(r)) /\ MeasuredSteps(x, D[r], d(r))
    BY <2>4 DEF MeasuredSteps
  <2> HIDE DEF MeasuredSteps, A, B, D, E, Sync
  <2>7. BlockingSteps(x, O, K, r, B[r]) /\ BlockingSteps(x, O, N, r, A[r])
    BY <2>1, <2>2, <2>6 DEF BlockingSteps, Sync
  <2>8. OverlappedSteps(x, O, K, r, D[r])
    BY <2>1, <2>6, Zenon DEF OverlappedSteps, Sync
  <2> QED BY <2>5, <2>7, <2>8
<1>7. ASSUME NEW r \in Ranks(x)
      PROVE  /\ IMB_bcast(x, r) = B[r] /\ IMB_ibcast_pure(x, r) = A[r]
             /\ IMB_ibcast(x, r) = A[r] \o IMB_cpu_exploit(1) \o D[r]
             /\ IMB_bcast_persist_pure(x, r) = PersistentLoop(x, M[r], FALSE, TRUE)
             /\ IMB_bcast_persist(x, r)
                  = PersistentLoop(x, M[r], FALSE, TRUE) \o IMB_cpu_exploit(1) \o E[r]
  BY Zenon DEF IMB_bcast, IMB_ibcast_pure, IMB_ibcast, IMB_bcast_persist_pure, IMB_bcast_persist,
         Measured, Persistent, Loop, NoChecks, PersistentLoop
<1> HIDE DEF O, K, N, M, J, B, A, D, E
<1>8. CASE \A r \in Ranks(x) : F[r] = IMB_bcast(x, r)
  <2>1. FormOf(x, F, O, K, O, K)
    BY <1>2, <1>6, <1>7, <1>8 DEF FormOf
  <2> QED BY <2>1, FormWorks
<1>9. CASE \/ \A r \in Ranks(x) : F[r] = IMB_ibcast_pure(x, r)
           \/ \A r \in Ranks(x) : F[r] = IMB_ibcast(x, r)
           \/ \A r \in Ranks(x) : F[r] = IMB_bcast_persist_pure(x, r)
  <2>1. Kernels(x, F, A, D, M, M)
    BY <1>7, <1>9 DEF Kernels, PersistentKernels
  <2> QED BY <1>2, <1>3, <1>4, <1>6, <2>1, KernelsWork
<1>10. CASE \A r \in Ranks(x) : F[r] = IMB_bcast_persist(x, r)
  <2>1. \A r \in Ranks(x) :
          PersistentSteps(x, M, FALSE, N, TRUE, r, PersistentLoop(x, M[r], FALSE, TRUE))
    BY <1>1, PersistentLoopSteps DEF N
  <2>2. PersistentForm(x, F, M, M, N, J, TRUE)
    BY <1>3, <1>4, <1>5, <1>6, <1>7, <1>10, <2>1 DEF PersistentForm, FullPersistent
  <2> QED BY <2>2, PersistentFormWorks
<1> QED BY <1>8, <1>9, <1>10

LEMMA ReduceScatterKernels ==
  ASSUME NEW x, CallNumbers(x), HasBuffers(x, Scattering), NEW F, OnRanks(x, F),
         \/ \A r \in Ranks(x) : F[r] = IMB_reduce_scatter(x, r)
         \/ \A r \in Ranks(x) : F[r] = IMB_ireduce_scatter_pure(x, r)
         \/ \A r \in Ranks(x) : F[r] = IMB_ireduce_scatter(x, r)
         \/ \A r \in Ranks(x) : F[r] = IMB_reduce_scatter_persist_pure(x, r)
         \/ \A r \in Ranks(x) : F[r] = IMB_reduce_scatter_persist(x, r)
  PROVE  Works(x, F)
<1> DEFINE O == [i \in Nat |-> [r \in Ranks(x) |-> ReduceScatter(x, r, i, "Reduce_scatter")]]
           K == [i \in Nat |-> [r \in Ranks(x) |-> ReduceScatterCheck(x, i, Elements(x) * r)]]
           L == [i \in Nat |-> [r \in Ranks(x) |-> ReduceScatterCheck(x, i, 0)]]
           M == [r \in Ranks(x) |-> ReduceScatter(x, r, x.np, "Reduce_scatter")]
           Sync == IMB_do_n_barriers(x, x.sync)
           b(r) == [i \in 1 .. x.n |-> Blocking(ReduceScatter(x, r, i - 1, "Reduce_scatter"))
                                         \o ReduceScatterCheck(x, i - 1, Elements(x) * r) \o Sync]
           a(r) == [i \in 1 .. x.n |-> Blocking(ReduceScatter(x, r, i - 1, "Reduce_scatter"))
                                         \o ReduceScatterCheck(x, i - 1, 0) \o Sync]
           d(r) == [i \in 1 .. x.n |-> Overlapped(ReduceScatter(x, r, i - 1, "Reduce_scatter"))
                                         \o ReduceScatterCheck(x, i - 1, 0) \o Sync]
           B == [r \in Ranks(x) |-> IMB_do_n_barriers(x, N_BARR) \o FlattenSeq(b(r))]
           A == [r \in Ranks(x) |-> IMB_do_n_barriers(x, N_BARR) \o FlattenSeq(a(r))]
           D == [r \in Ranks(x) |-> IMB_do_n_barriers(x, N_BARR) \o FlattenSeq(d(r))]
<1>1. x.n \in Nat /\ \A i \in 1 .. x.n : i - 1 \in Nat
  BY DEF CallNumbers, CallAssumption
<1>2. Ops(x, O) /\ Checked(x, K) /\ Checked(x, L)
  <2>1. ASSUME NEW i \in Nat
        PROVE  /\ GoodOp(x, O[i]) /\ \A r \in Ranks(x) : O[i][r].do = "start"
               /\ K[i] \in [Ranks(x) -> Quiet(x)]
    <3>1. OnRanks(x, O[i]) /\ \A r \in Ranks(x) : O[i][r] = ReduceScatter(x, r, i, "Reduce_scatter")
      BY DEF OnRanks
    <3>2. K[i] = [r \in Ranks(x) |-> ReduceScatterCheck(x, i, Elements(x) * r)]
      OBVIOUS
    <3> HIDE DEF O, K
    <3>3. "Reduce_scatter" \in Operations
      BY DEF Operations
    <3>4. GoodOp(x, O[i]) /\ \A r \in Ranks(x) : O[i][r].do = "start"
      BY <3>1, <3>3, ReduceScatterGood
    <3>5. \A r \in Ranks(x) : ReduceScatterCheck(x, i, Elements(x) * r) \in Quiet(x)
      BY <3>1, <3>3, ReduceScatterGood
    <3> QED BY <3>2, <3>4, <3>5
  <2>2. ASSUME NEW i \in Nat PROVE L[i] \in [Ranks(x) -> Quiet(x)]
    <3>1. OnRanks(x, O[i]) /\ \A r \in Ranks(x) : O[i][r] = ReduceScatter(x, r, i, "Reduce_scatter")
      BY DEF OnRanks
    <3>2. L[i] = [r \in Ranks(x) |-> ReduceScatterCheck(x, i, 0)]
      OBVIOUS
    <3> HIDE DEF O, L
    <3>3. "Reduce_scatter" \in Operations
      BY DEF Operations
    <3>4. \A r \in Ranks(x) : ReduceScatterCheck(x, i, 0) \in Quiet(x)
      BY <3>1, <3>3, ReduceScatterGood
    <3> QED BY <3>2, <3>4
  <2> QED BY <2>1, <2>2 DEF Ops, Checked
<1>3. GoodOp(x, M)
  <2>1. x.np \in Nat
    BY DEF CallNumbers
  <2>2. M = O[x.np]
    BY <2>1
  <2> QED BY <1>2, <2>1, <2>2 DEF Ops
<1>4. ASSUME NEW r \in Ranks(x)
      PROVE  /\ BlockingSteps(x, O, K, r, B[r]) /\ BlockingSteps(x, O, L, r, A[r])
             /\ OverlappedSteps(x, O, L, r, D[r])
  <2>1. \A i \in 1 .. x.n : /\ b(r)[i] = Blocking(O[i - 1][r]) \o K[i - 1][r] \o Sync
                            /\ a(r)[i] = Blocking(O[i - 1][r]) \o L[i - 1][r] \o Sync
                            /\ d(r)[i] = Overlapped(O[i - 1][r]) \o L[i - 1][r] \o Sync
    BY <1>1
  <2>2. Steps(x.n, b(r)) /\ Steps(x.n, a(r)) /\ Steps(x.n, d(r))
    BY DEF Steps
  <2> HIDE DEF O, K, L, a, b, d
  <2>3. MeasuredSteps(x, B[r], b(r)) /\ MeasuredSteps(x, A[r], a(r)) /\ MeasuredSteps(x, D[r], d(r))
    BY <2>2 DEF MeasuredSteps
  <2> HIDE DEF MeasuredSteps, A, B, D, Sync
  <2>4. BlockingSteps(x, O, K, r, B[r]) /\ BlockingSteps(x, O, L, r, A[r])
    BY <2>1, <2>3 DEF BlockingSteps, Sync
  <2>5. OverlappedSteps(x, O, L, r, D[r])
    BY <2>1, <2>3 DEF OverlappedSteps, Sync
  <2> QED BY <2>4, <2>5
<1>5. ASSUME NEW r \in Ranks(x)
      PROVE  /\ IMB_reduce_scatter(x, r) = B[r] /\ IMB_ireduce_scatter_pure(x, r) = A[r]
             /\ IMB_ireduce_scatter(x, r) = A[r] \o IMB_cpu_exploit(1) \o D[r]
             /\ IMB_reduce_scatter_persist_pure(x, r) = PersistentLoop(x, M[r], FALSE, TRUE)
             /\ IMB_reduce_scatter_persist(x, r)
                  = PersistentLoop(x, M[r], FALSE, TRUE) \o IMB_cpu_exploit(1)
                      \o PersistentLoop(x, M[r], TRUE, TRUE)
  BY Zenon DEF IMB_reduce_scatter, IMB_ireduce_scatter_pure, IMB_ireduce_scatter,
         IMB_reduce_scatter_persist_pure, IMB_reduce_scatter_persist,
         Measured, Persistent, Loop, NoChecks, PersistentLoop
<1> HIDE DEF O, K, L, M, B, A, D
<1>6. CASE \A r \in Ranks(x) : F[r] = IMB_reduce_scatter(x, r)
  <2>1. FormOf(x, F, O, K, O, K)
    BY <1>2, <1>4, <1>5, <1>6 DEF FormOf
  <2> QED BY <2>1, FormWorks
<1>7. CASE ~ \A r \in Ranks(x) : F[r] = IMB_reduce_scatter(x, r)
  <2>1. Kernels(x, F, A, D, M, M)
    BY <1>5, <1>7 DEF Kernels, PersistentKernels
  <2> QED BY <1>2, <1>3, <1>4, <2>1, KernelsWork
<1> QED BY <1>6, <1>7

LEMMA ReduceScatterBlockKernels ==
  ASSUME NEW x, CallNumbers(x), HasBuffers(x, Scattering), NEW F, OnRanks(x, F),
         \/ \A r \in Ranks(x) : F[r] = IMB_reduce_scatter_block(x, r)
  PROVE  Works(x, F)
<1> DEFINE O == [i \in Nat |-> [r \in Ranks(x) |-> ReduceScatter(x, r, i, "Reduce_scatter_block")]]
           K == [i \in Nat |-> [r \in Ranks(x) |-> ReduceScatterCheck(x, i, Elements(x) * r)]]
           N == [i \in Nat |-> [r \in Ranks(x) |-> <<>>]]
           Sync == IMB_do_n_barriers(x, x.sync)
<1>1. x.n \in Nat /\ \A i \in 1 .. x.n : i - 1 \in Nat
  BY DEF CallNumbers, CallAssumption
<1>2. Ops(x, O) /\ Checked(x, K)
  <2>1. ASSUME NEW i \in Nat
        PROVE  /\ GoodOp(x, O[i]) /\ \A r \in Ranks(x) : O[i][r].do = "start"
               /\ K[i] \in [Ranks(x) -> Quiet(x)]
    <3>1. /\ OnRanks(x, O[i])
          /\ \A r \in Ranks(x) : O[i][r] = ReduceScatter(x, r, i, "Reduce_scatter_block")
      BY DEF OnRanks
    <3>2. K[i] = [r \in Ranks(x) |-> ReduceScatterCheck(x, i, Elements(x) * r)]
      OBVIOUS
    <3> HIDE DEF O, K
    <3>3. "Reduce_scatter_block" \in Operations
      BY DEF Operations
    <3>4. GoodOp(x, O[i]) /\ \A r \in Ranks(x) : O[i][r].do = "start"
      BY <3>1, <3>3, ReduceScatterGood
    <3>5. \A r \in Ranks(x) : ReduceScatterCheck(x, i, Elements(x) * r) \in Quiet(x)
      BY <3>1, <3>3, ReduceScatterGood
    <3> QED BY <3>2, <3>4, <3>5
  <2> QED BY <2>1 DEF Ops, Checked
<1>3. Checked(x, N)
  BY DEF Checked, Quiet
<1>4. ASSUME NEW r \in Ranks(x) PROVE BlockingSteps(x, O, K, r, IMB_reduce_scatter_block(x, r))
  <2> DEFINE g == [i \in 1 .. x.n |-> Blocking(ReduceScatter(x, r, i - 1, "Reduce_scatter_block"))
                                        \o ReduceScatterCheck(x, i - 1, Elements(x) * r) \o Sync]
  <2>1. IMB_reduce_scatter_block(x, r) = IMB_do_n_barriers(x, N_BARR) \o FlattenSeq(g)
    BY DEF IMB_reduce_scatter_block, Measured, Loop
  <2>2. \A i \in 1 .. x.n : g[i] = Blocking(O[i - 1][r]) \o K[i - 1][r] \o Sync
    BY <1>1
  <2>3. Steps(x.n, g)
    BY DEF Steps
  <2> QED BY <2>1, <2>2, <2>3 DEF BlockingSteps, MeasuredSteps
<1> HIDE DEF O, K, N
<1>5. CASE \A r \in Ranks(x) : F[r] = IMB_reduce_scatter_block(x, r)
  <2>1. FormOf(x, F, O, K, O, K)
    BY <1>2, <1>4, <1>5 DEF FormOf
  <2> QED BY <2>1, FormWorks
<1> QED BY <1>5

LEMMA ReduceLocalKernels ==
  ASSUME NEW x, CallNumbers(x), HasBuffers(x, One), NEW F, OnRanks(x, F),
         \A r \in Ranks(x) : F[r] = IMB_reduce_local(x, r)
  PROVE  Works(x, F)
<1> DEFINE A == [i \in Nat |-> [r \in Ranks(x) |->
                   <<[do |-> "local", at |-> S(x, i), to |-> R(x, i), n |-> Elements(x)]>>]]
           K == [i \in Nat |-> [r \in Ranks(x) |->
                   Chk("r", R(x, i), 0, x.size, x.size, asize, "local", -1)]]
           B == [i \in Nat |-> [r \in Ranks(x) |-> A[i][r] \o K[i][r]]]
           Sync == IMB_do_n_barriers(x, x.sync)
<1>1. x.n \in Nat /\ \A i \in 1 .. x.n : i - 1 \in Nat
  BY DEF CallNumbers, CallAssumption
<1>2. Checked(x, A) /\ Checked(x, K)
  <2>1. ASSUME NEW i \in Nat
        PROVE  /\ <<[do |-> "local", at |-> S(x, i), to |-> R(x, i),
                  n |-> Elements(x)]>> \in Quiet(x)
               /\ Chk("r", R(x, i), 0, x.size, x.size, asize, "local", -1) \in Quiet(x)
    <3> DEFINE O == [r \in Ranks(x) |-> Allreduce(x, i)]
    <3>1. OnRanks(x, O) /\ \A r \in Ranks(x) : O[r] = Allreduce(x, i)
      BY DEF OnRanks
    <3> HIDE DEF O
    <3> QED BY <3>1, AllreduceGood
  <2> QED BY <2>1 DEF Checked
<1>3. ASSUME NEW i \in Nat, NEW b \in BOOLEAN PROVE Good(x, B[i], Idle(b), Idle(b))
  <2> DEFINE P == A[i]
             Q == K[i]
  <2>1. P \in [Ranks(x) -> Quiet(x)] /\ Q \in [Ranks(x) -> Quiet(x)]
    BY <1>2 DEF Checked
  <2>2. B[i] = [r \in Ranks(x) |-> P[r] \o Q[r]]
    OBVIOUS
  <2> HIDE DEF P, Q
  <2>3. Good(x, P, Idle(b), Idle(b)) /\ Good(x, Q, Idle(b), Idle(b))
    BY <2>1, IdleLocal, GoodQuiet
  <2>4. Good(x, [r \in Ranks(x) |-> P[r] \o Q[r]], Idle(b), Idle(b))
    BY <2>3, GoodConcat
  <2> QED BY <2>2, <2>4
<1>4. ASSUME NEW r \in Ranks(x) PROVE F[r] = MeasuredRuns(x, B)[r]
  <2> DEFINE g == [i \in 1 .. x.n |->
                     <<[do |-> "local", at |-> S(x, i - 1), to |-> R(x, i - 1), n |-> Elements(x)]>>
                       \o Chk("r", R(x, i - 1), 0, x.size, x.size, asize, "local", -1) \o Sync]
  <2>1. F[r] = IMB_do_n_barriers(x, N_BARR) \o FlattenSeq(g)
    BY DEF IMB_reduce_local, Measured, Loop
  <2>2. \A i \in 1 .. x.n : g[i] = B[i - 1][r] \o Sync
    BY <1>1
  <2>3. Steps(x.n, g)
    BY DEF Steps
  <2>4. MeasuredSteps(x, F[r], g)
    BY <2>1, <2>3 DEF MeasuredSteps
  <2> HIDE DEF g, B
  <2> QED BY <1>1, <2>2, <2>4, MeasuredAre
<1> HIDE DEF B
<1>5. \A b \in BOOLEAN : Good(x, MeasuredRuns(x, B), Idle(b), Idle(b))
  BY <1>3, IdleLocal, MeasuredGood
<1>6. F = MeasuredRuns(x, B)
  <2>1. OnRanks(x, MeasuredRuns(x, B))
    BY DEF OnRanks, MeasuredRuns
  <2> QED BY <1>4, <2>1 DEF OnRanks
<1> QED BY <1>5, <1>6 DEF Works

(***************************************************************************)
(* Barriers are not followed by others, and use no buffer.                 *)
(***************************************************************************)
LEMMA BarrierKernelsWork ==
  ASSUME NEW x, CallNumbers(x), NEW F, OnRanks(x, F),
         \/ \A r \in Ranks(x) : F[r] = IMB_barrier(x, r)
         \/ \A r \in Ranks(x) : F[r] = IMB_ibarrier_pure(x, r)
         \/ \A r \in Ranks(x) : F[r] = IMB_ibarrier(x, r)
         \/ \A r \in Ranks(x) : F[r] = IMB_barrier_persist_pure(x, r)
         \/ \A r \in Ranks(x) : F[r] = IMB_barrier_persist(x, r)
  PROVE  Works(x, F)
<1> DEFINE M == [r \in Ranks(x) |-> BarrierOp(x)]
           B == [r \in Ranks(x) |-> Blocking(M[r])]
           D == [r \in Ranks(x) |-> Overlapped(M[r])]
<1>1. x.n \in Nat
  BY DEF CallNumbers, CallAssumption
<1>2. GoodOp(x, M) /\ (\A r \in Ranks(x) : M[r].do = "start")
  BY BarrierGood
<1>3. \A b \in BOOLEAN : Good(x, B, Idle(b), Idle(b))
  <2> HIDE DEF M
  <2> QED BY <1>2, IdleLocal, GoodBlocking
<1>4. Good(x, D, Idle(TRUE), Idle(TRUE))
  <2> HIDE DEF M
  <2> QED BY <1>2, GoodOverlapped
<1>5. /\ \A b \in BOOLEAN : Good(x, UnsyncedRuns(x, B), Idle(b), Idle(b))
      /\ Good(x, UnsyncedRuns(x, D), Idle(TRUE), Idle(TRUE))
  <2> HIDE DEF B, D
  <2> QED BY <1>3, <1>4, IdleLocal, UnsyncedGood
<1>6. ASSUME NEW r \in Ranks(x)
      PROVE  /\ IMB_barrier(x, r) = UnsyncedRuns(x, B)[r]
             /\ IMB_ibarrier_pure(x, r) = UnsyncedRuns(x, B)[r]
             /\ IMB_ibarrier(x, r) = FullRuns(x, UnsyncedRuns(x, B), UnsyncedRuns(x, D))[r]
  <2> DEFINE u == IMB_do_n_barriers(x, N_BARR)
                    \o FlattenSeq([i \in 1 .. x.n |-> Blocking(BarrierOp(x))])
             v == IMB_do_n_barriers(x, N_BARR)
                    \o FlattenSeq([i \in 1 .. x.n |-> Overlapped(BarrierOp(x))])
  <2>1. IMB_barrier(x, r) = u /\ IMB_ibarrier_pure(x, r) = u
    BY DEF IMB_barrier, IMB_ibarrier_pure, Unsynced, Loop
  <2>2. IMB_ibarrier(x, r) = u \o IMB_cpu_exploit(1) \o v
    BY DEF IMB_ibarrier, IMB_ibarrier_pure, Unsynced, Loop
  <2>3. B[r] = Blocking(BarrierOp(x)) /\ D[r] = Overlapped(BarrierOp(x))
    OBVIOUS
  <2> HIDE DEF B, D
  <2>4. UnsyncedRuns(x, B)[r] = u /\ UnsyncedRuns(x, D)[r] = v
    BY <2>3, Zenon DEF UnsyncedRuns
  <2> HIDE DEF u, v
  <2> QED BY <2>1, <2>2, <2>4 DEF FullRuns
<1>7. ASSUME NEW r \in Ranks(x)
      PROVE  /\ IMB_barrier_persist_pure(x, r) = PersistentLoop(x, M[r], FALSE, FALSE)
             /\ IMB_barrier_persist(x, r)
                  = PersistentLoop(x, M[r], FALSE, FALSE) \o IMB_cpu_exploit(1)
                      \o PersistentLoop(x, M[r], TRUE, FALSE)
  BY Zenon DEF IMB_barrier_persist_pure, IMB_barrier_persist, Persistent, Loop, NoChecks, PersistentLoop
<1> HIDE DEF M, B, D
<1>8. CASE \/ \A r \in Ranks(x) : F[r] = IMB_barrier(x, r)
           \/ \A r \in Ranks(x) : F[r] = IMB_ibarrier_pure(x, r)
  <2>1. F = UnsyncedRuns(x, B)
    <3>1. OnRanks(x, UnsyncedRuns(x, B))
      BY DEF OnRanks, UnsyncedRuns
    <3>2. \A r \in Ranks(x) : F[r] = UnsyncedRuns(x, B)[r]
      BY <1>6, <1>8
    <3> QED BY <3>1, <3>2 DEF OnRanks
  <2> QED BY <1>5, <2>1 DEF Works
<1>9. CASE \A r \in Ranks(x) : F[r] = IMB_ibarrier(x, r)
  <2> DEFINE G == FullRuns(x, UnsyncedRuns(x, B), UnsyncedRuns(x, D))
  <2>1. \A b \in BOOLEAN : Good(x, G, Idle(b), Idle(TRUE))
    BY <1>5, FullWorks
  <2>2. \A r \in Ranks(x) : F[r] = G[r]
    BY <1>6, <1>9
  <2>3. OnRanks(x, G)
    BY DEF OnRanks, FullRuns
  <2> HIDE DEF G
  <2>4. F = G
    BY <2>2, <2>3 DEF OnRanks
  <2> QED BY <2>1, <2>4 DEF Works
<1>10. CASE \/ \A r \in Ranks(x) : F[r] = IMB_barrier_persist_pure(x, r)
            \/ \A r \in Ranks(x) : F[r] = IMB_barrier_persist(x, r)
  <2>1. PersistentKernels(x, F, M, M, FALSE)
    BY <1>7, <1>10 DEF PersistentKernels
  <2> QED BY <1>2, <2>1, PersistentKernelsWork
<1> QED BY <1>8, <1>9, <1>10

-----------------------------------------------------------------------------
(***************************************************************************)
(* All of them work, however often they are called.                        *)
(***************************************************************************)
LEMMA BarrierWorks ==
  ASSUME NEW x, CallNumbers(x), NEW F \in BarrierKernels(x)
  PROVE  Works(x, F)
<1>1. \/ F \in {On(x, IMB_barrier), On(x, IMB_ibarrier_pure), On(x, IMB_ibarrier),
                On(x, IMB_barrier_persist_pure), On(x, IMB_barrier_persist)}
  BY DEF BarrierKernels
<1>2. CASE F \in {On(x, IMB_barrier), On(x, IMB_ibarrier_pure), On(x, IMB_ibarrier),
                  On(x, IMB_barrier_persist_pure), On(x, IMB_barrier_persist)}
  <2>1. OnRanks(x, F)
    BY <1>2 DEF On, OnRanks
  <2>2. \/ \A r \in Ranks(x) : F[r] = IMB_barrier(x, r)
        \/ \A r \in Ranks(x) : F[r] = IMB_ibarrier_pure(x, r)
        \/ \A r \in Ranks(x) : F[r] = IMB_ibarrier(x, r)
        \/ \A r \in Ranks(x) : F[r] = IMB_barrier_persist_pure(x, r)
        \/ \A r \in Ranks(x) : F[r] = IMB_barrier_persist(x, r)
    BY <1>2 DEF On
  <2> QED BY <2>1, <2>2, BarrierKernelsWork
<1> QED BY <1>1, <1>2

LEMMA OneWorks ==
  ASSUME NEW x, CallNumbers(x), HasBuffers(x, One), NEW F \in OneKernels(x)
  PROVE  Works(x, F)
<1>1. \/ F \in {On(x, IMB_bcast), On(x, IMB_ibcast_pure), On(x, IMB_ibcast),
                On(x, IMB_bcast_persist_pure), On(x, IMB_bcast_persist)}
      \/ F \in {On(x, IMB_reduce), On(x, IMB_ireduce_pure), On(x, IMB_ireduce),
                On(x, IMB_reduce_persist_pure), On(x, IMB_reduce_persist)}
      \/ F \in {On(x, IMB_allreduce), On(x, IMB_iallreduce_pure), On(x, IMB_iallreduce),
                On(x, IMB_allreduce_persist_pure), On(x, IMB_allreduce_persist)}
      \/ F \in {On(x, IMB_reduce_local)}
  BY DEF OneKernels
<1>2. CASE F \in {On(x, IMB_bcast), On(x, IMB_ibcast_pure), On(x, IMB_ibcast),
                  On(x, IMB_bcast_persist_pure), On(x, IMB_bcast_persist)}
  <2>1. OnRanks(x, F)
    BY <1>2 DEF On, OnRanks
  <2>2. \/ \A r \in Ranks(x) : F[r] = IMB_bcast(x, r)
        \/ \A r \in Ranks(x) : F[r] = IMB_ibcast_pure(x, r)
        \/ \A r \in Ranks(x) : F[r] = IMB_ibcast(x, r)
        \/ \A r \in Ranks(x) : F[r] = IMB_bcast_persist_pure(x, r)
        \/ \A r \in Ranks(x) : F[r] = IMB_bcast_persist(x, r)
    BY <1>2 DEF On
  <2> QED BY <2>1, <2>2, BcastKernels
<1>3. CASE F \in {On(x, IMB_reduce), On(x, IMB_ireduce_pure), On(x, IMB_ireduce),
                  On(x, IMB_reduce_persist_pure), On(x, IMB_reduce_persist)}
  <2>1. OnRanks(x, F)
    BY <1>3 DEF On, OnRanks
  <2>2. \/ \A r \in Ranks(x) : F[r] = IMB_reduce(x, r)
        \/ \A r \in Ranks(x) : F[r] = IMB_ireduce_pure(x, r)
        \/ \A r \in Ranks(x) : F[r] = IMB_ireduce(x, r)
        \/ \A r \in Ranks(x) : F[r] = IMB_reduce_persist_pure(x, r)
        \/ \A r \in Ranks(x) : F[r] = IMB_reduce_persist(x, r)
    BY <1>3 DEF On
  <2> QED BY <2>1, <2>2, ReduceKernels
<1>4. CASE F \in {On(x, IMB_allreduce), On(x, IMB_iallreduce_pure), On(x, IMB_iallreduce),
                  On(x, IMB_allreduce_persist_pure), On(x, IMB_allreduce_persist)}
  <2>1. OnRanks(x, F)
    BY <1>4 DEF On, OnRanks
  <2>2. \/ \A r \in Ranks(x) : F[r] = IMB_allreduce(x, r)
        \/ \A r \in Ranks(x) : F[r] = IMB_iallreduce_pure(x, r)
        \/ \A r \in Ranks(x) : F[r] = IMB_iallreduce(x, r)
        \/ \A r \in Ranks(x) : F[r] = IMB_allreduce_persist_pure(x, r)
        \/ \A r \in Ranks(x) : F[r] = IMB_allreduce_persist(x, r)
    BY <1>4 DEF On
  <2> QED BY <2>1, <2>2, AllreduceKernels
<1>5. CASE F \in {On(x, IMB_reduce_local)}
  <2>1. OnRanks(x, F)
    BY <1>5 DEF On, OnRanks
  <2>2. \A r \in Ranks(x) : F[r] = IMB_reduce_local(x, r)
    BY <1>5 DEF On
  <2> QED BY <2>1, <2>2, ReduceLocalKernels
<1> QED BY <1>1, <1>2, <1>3, <1>4, <1>5

LEMMA GatheringWorks ==
  ASSUME NEW x, CallNumbers(x), HasBuffers(x, Gathering), NEW F \in GatheringKernels(x)
  PROVE  Works(x, F)
<1>1. \/ F \in {On(x, IMB_allgather), On(x, IMB_iallgather_pure), On(x, IMB_iallgather),
                On(x, IMB_allgather_persist_pure), On(x, IMB_allgather_persist)}
      \/ F \in {On(x, IMB_allgatherv), On(x, IMB_iallgatherv_pure), On(x, IMB_iallgatherv),
                On(x, IMB_allgatherv_persist_pure), On(x, IMB_allgatherv_persist)}
      \/ F \in {On(x, IMB_gather), On(x, IMB_igather_pure), On(x, IMB_igather),
                On(x, IMB_gather_persist_pure), On(x, IMB_gather_persist)}
      \/ F \in {On(x, IMB_gatherv), On(x, IMB_igatherv_pure), On(x, IMB_igatherv),
                On(x, IMB_gatherv_persist_pure), On(x, IMB_gatherv_persist)}
  BY DEF GatheringKernels
<1>2. CASE F \in {On(x, IMB_allgather), On(x, IMB_iallgather_pure), On(x, IMB_iallgather),
                  On(x, IMB_allgather_persist_pure), On(x, IMB_allgather_persist)}
  <2>1. OnRanks(x, F)
    BY <1>2 DEF On, OnRanks
  <2>2. \/ \A r \in Ranks(x) : F[r] = IMB_allgather(x, r)
        \/ \A r \in Ranks(x) : F[r] = IMB_iallgather_pure(x, r)
        \/ \A r \in Ranks(x) : F[r] = IMB_iallgather(x, r)
        \/ \A r \in Ranks(x) : F[r] = IMB_allgather_persist_pure(x, r)
        \/ \A r \in Ranks(x) : F[r] = IMB_allgather_persist(x, r)
    BY <1>2 DEF On
  <2> QED BY <2>1, <2>2, AllgatherKernels
<1>3. CASE F \in {On(x, IMB_allgatherv), On(x, IMB_iallgatherv_pure), On(x, IMB_iallgatherv),
                  On(x, IMB_allgatherv_persist_pure), On(x, IMB_allgatherv_persist)}
  <2>1. OnRanks(x, F)
    BY <1>3 DEF On, OnRanks
  <2>2. \/ \A r \in Ranks(x) : F[r] = IMB_allgatherv(x, r)
        \/ \A r \in Ranks(x) : F[r] = IMB_iallgatherv_pure(x, r)
        \/ \A r \in Ranks(x) : F[r] = IMB_iallgatherv(x, r)
        \/ \A r \in Ranks(x) : F[r] = IMB_allgatherv_persist_pure(x, r)
        \/ \A r \in Ranks(x) : F[r] = IMB_allgatherv_persist(x, r)
    BY <1>3 DEF On
  <2> QED BY <2>1, <2>2, AllgathervKernels
<1>4. CASE F \in {On(x, IMB_gather), On(x, IMB_igather_pure), On(x, IMB_igather),
                  On(x, IMB_gather_persist_pure), On(x, IMB_gather_persist)}
  <2>1. OnRanks(x, F)
    BY <1>4 DEF On, OnRanks
  <2>2. \/ \A r \in Ranks(x) : F[r] = IMB_gather(x, r)
        \/ \A r \in Ranks(x) : F[r] = IMB_igather_pure(x, r)
        \/ \A r \in Ranks(x) : F[r] = IMB_igather(x, r)
        \/ \A r \in Ranks(x) : F[r] = IMB_gather_persist_pure(x, r)
        \/ \A r \in Ranks(x) : F[r] = IMB_gather_persist(x, r)
    BY <1>4 DEF On
  <2> QED BY <2>1, <2>2, GatherKernels
<1>5. CASE F \in {On(x, IMB_gatherv), On(x, IMB_igatherv_pure), On(x, IMB_igatherv),
                  On(x, IMB_gatherv_persist_pure), On(x, IMB_gatherv_persist)}
  <2>1. OnRanks(x, F)
    BY <1>5 DEF On, OnRanks
  <2>2. \/ \A r \in Ranks(x) : F[r] = IMB_gatherv(x, r)
        \/ \A r \in Ranks(x) : F[r] = IMB_igatherv_pure(x, r)
        \/ \A r \in Ranks(x) : F[r] = IMB_igatherv(x, r)
        \/ \A r \in Ranks(x) : F[r] = IMB_gatherv_persist_pure(x, r)
        \/ \A r \in Ranks(x) : F[r] = IMB_gatherv_persist(x, r)
    BY <1>5 DEF On
  <2> QED BY <2>1, <2>2, GathervKernels
<1> QED BY <1>1, <1>2, <1>3, <1>4, <1>5

LEMMA ScatteringWorks ==
  ASSUME NEW x, CallNumbers(x), HasBuffers(x, Scattering), NEW F \in ScatteringKernels(x)
  PROVE  Works(x, F)
<1>1. \/ F \in {On(x, IMB_scatter), On(x, IMB_iscatter_pure), On(x, IMB_iscatter),
                On(x, IMB_scatter_persist_pure), On(x, IMB_scatter_persist)}
      \/ F \in {On(x, IMB_scatterv), On(x, IMB_iscatterv_pure), On(x, IMB_iscatterv),
                On(x, IMB_scatterv_persist_pure), On(x, IMB_scatterv_persist)}
      \/ F \in {On(x, IMB_reduce_scatter), On(x, IMB_ireduce_scatter_pure),
                On(x, IMB_ireduce_scatter), On(x, IMB_reduce_scatter_persist_pure),
                On(x, IMB_reduce_scatter_persist)}
      \/ F \in {On(x, IMB_reduce_scatter_block)}
  BY DEF ScatteringKernels
<1>2. CASE F \in {On(x, IMB_scatter), On(x, IMB_iscatter_pure), On(x, IMB_iscatter),
                  On(x, IMB_scatter_persist_pure), On(x, IMB_scatter_persist)}
  <2>1. OnRanks(x, F)
    BY <1>2 DEF On, OnRanks
  <2>2. \/ \A r \in Ranks(x) : F[r] = IMB_scatter(x, r)
        \/ \A r \in Ranks(x) : F[r] = IMB_iscatter_pure(x, r)
        \/ \A r \in Ranks(x) : F[r] = IMB_iscatter(x, r)
        \/ \A r \in Ranks(x) : F[r] = IMB_scatter_persist_pure(x, r)
        \/ \A r \in Ranks(x) : F[r] = IMB_scatter_persist(x, r)
    BY <1>2 DEF On
  <2> QED BY <2>1, <2>2, ScatterKernels
<1>3. CASE F \in {On(x, IMB_scatterv), On(x, IMB_iscatterv_pure), On(x, IMB_iscatterv),
                  On(x, IMB_scatterv_persist_pure), On(x, IMB_scatterv_persist)}
  <2>1. OnRanks(x, F)
    BY <1>3 DEF On, OnRanks
  <2>2. \/ \A r \in Ranks(x) : F[r] = IMB_scatterv(x, r)
        \/ \A r \in Ranks(x) : F[r] = IMB_iscatterv_pure(x, r)
        \/ \A r \in Ranks(x) : F[r] = IMB_iscatterv(x, r)
        \/ \A r \in Ranks(x) : F[r] = IMB_scatterv_persist_pure(x, r)
        \/ \A r \in Ranks(x) : F[r] = IMB_scatterv_persist(x, r)
    BY <1>3 DEF On
  <2> QED BY <2>1, <2>2, ScattervKernels
<1>4. CASE F \in {On(x, IMB_reduce_scatter), On(x, IMB_ireduce_scatter_pure),
                  On(x, IMB_ireduce_scatter), On(x, IMB_reduce_scatter_persist_pure),
                  On(x, IMB_reduce_scatter_persist)}
  <2>1. OnRanks(x, F)
    BY <1>4 DEF On, OnRanks
  <2>2. \/ \A r \in Ranks(x) : F[r] = IMB_reduce_scatter(x, r)
        \/ \A r \in Ranks(x) : F[r] = IMB_ireduce_scatter_pure(x, r)
        \/ \A r \in Ranks(x) : F[r] = IMB_ireduce_scatter(x, r)
        \/ \A r \in Ranks(x) : F[r] = IMB_reduce_scatter_persist_pure(x, r)
        \/ \A r \in Ranks(x) : F[r] = IMB_reduce_scatter_persist(x, r)
    BY <1>4 DEF On
  <2> QED BY <2>1, <2>2, ReduceScatterKernels
<1>5. CASE F \in {On(x, IMB_reduce_scatter_block)}
  <2>1. OnRanks(x, F)
    BY <1>5 DEF On, OnRanks
  <2>2. \A r \in Ranks(x) : F[r] = IMB_reduce_scatter_block(x, r)
    BY <1>5 DEF On
  <2> QED BY <2>1, <2>2, ReduceScatterBlockKernels
<1> QED BY <1>1, <1>2, <1>3, <1>4, <1>5

LEMMA Total2Works ==
  ASSUME NEW x, CallNumbers(x), HasBuffers(x, Total2), NEW F \in Total2Kernels(x)
  PROVE  Works(x, F)
<1>1. \/ F \in {On(x, IMB_alltoall), On(x, IMB_ialltoall_pure), On(x, IMB_ialltoall),
                On(x, IMB_alltoall_persist_pure), On(x, IMB_alltoall_persist)}
      \/ F \in {On(x, IMB_alltoallv), On(x, IMB_ialltoallv_pure), On(x, IMB_ialltoallv),
                On(x, IMB_alltoallv_persist_pure), On(x, IMB_alltoallv_persist)}
  BY DEF Total2Kernels
<1>2. CASE F \in {On(x, IMB_alltoall), On(x, IMB_ialltoall_pure), On(x, IMB_ialltoall),
                  On(x, IMB_alltoall_persist_pure), On(x, IMB_alltoall_persist)}
  <2>1. OnRanks(x, F)
    BY <1>2 DEF On, OnRanks
  <2>2. \/ \A r \in Ranks(x) : F[r] = IMB_alltoall(x, r)
        \/ \A r \in Ranks(x) : F[r] = IMB_ialltoall_pure(x, r)
        \/ \A r \in Ranks(x) : F[r] = IMB_ialltoall(x, r)
        \/ \A r \in Ranks(x) : F[r] = IMB_alltoall_persist_pure(x, r)
        \/ \A r \in Ranks(x) : F[r] = IMB_alltoall_persist(x, r)
    BY <1>2 DEF On
  <2> QED BY <2>1, <2>2, AlltoallKernels
<1>3. CASE F \in {On(x, IMB_alltoallv), On(x, IMB_ialltoallv_pure), On(x, IMB_ialltoallv),
                  On(x, IMB_alltoallv_persist_pure), On(x, IMB_alltoallv_persist)}
  <2>1. OnRanks(x, F)
    BY <1>3 DEF On, OnRanks
  <2>2. \/ \A r \in Ranks(x) : F[r] = IMB_alltoallv(x, r)
        \/ \A r \in Ranks(x) : F[r] = IMB_ialltoallv_pure(x, r)
        \/ \A r \in Ranks(x) : F[r] = IMB_ialltoallv(x, r)
        \/ \A r \in Ranks(x) : F[r] = IMB_alltoallv_persist_pure(x, r)
        \/ \A r \in Ranks(x) : F[r] = IMB_alltoallv_persist(x, r)
    BY <1>3 DEF On
  <2> QED BY <2>1, <2>2, AlltoallvKernels
<1> QED BY <1>1, <1>2, <1>3

LEMMA KernelWorks ==
  ASSUME NEW x, CallNumbers(x), NEW F \in CollectiveKernels(x)
  PROVE  Works(x, F)
BY BarrierWorks, OneWorks, GatheringWorks, ScatteringWorks, Total2Works DEF CollectiveKernels

LEMMA RepeatedWorks ==
  ASSUME NEW x, NEW F, Works(x, F), NEW n \in Nat
  PROVE  Works(x, [r \in Ranks(x) |-> FlattenSeq([i \in 1 .. n |-> F[r]])])
<1> DEFINE H(m) == [r \in Ranks(x) |-> FlattenSeq([i \in 1 .. m |-> F[r]])]
           N == {m \in Nat : Works(x, H(m))}
           V == OpSet(x)
<1>1. F \in [Ranks(x) -> Seq(V)]
  BY DEF Works, Good
<1> HIDE DEF V
<1>2. 0 \in N
  <2>1. FlattenSeq(<<>>) = <<>>
    BY DEF FlattenSeq
  <2>2. \A r \in Ranks(x) : [i \in 1 .. 0 |-> F[r]] = <<>>
    OBVIOUS
  <2>3. H(0) = [r \in Ranks(x) |-> <<>>]
    BY <2>1, <2>2
  <2> HIDE DEF H
  <2>4. \A b \in BOOLEAN : Good(x, H(0), Idle(b), Idle(b))
    BY <2>3, IdleLocal, GoodNothing
  <2> QED BY <2>4 DEF Works
<1>3. ASSUME NEW m \in Nat, m \in N PROVE m + 1 \in N
  <2>1. Works(x, H(m))
    BY <1>3
  <2>2. ASSUME NEW r \in Ranks(x)
        PROVE  FlattenSeq([i \in 1 .. m + 1 |-> F[r]]) = FlattenSeq([i \in 1 .. m |-> F[r]]) \o F[r]
    <3> DEFINE s == [i \in 1 .. m |-> F[r]]
               t == [i \in 1 .. m + 1 |-> F[r]]
               e == F[r]
    <3>1. s \in Seq(Seq(V)) /\ e \in Seq(V) /\ Len(s) = m
      BY <1>1
    <3>2. t = Append(s, e)
      <4> DEFINE v == Append(s, e)
      <4>1. /\ v \in Seq(Seq(V)) /\ Len(v) = m + 1 /\ v[m + 1] = e
            /\ \A i \in 1 .. m : v[i] = s[i]
        BY <3>1, AppendProperties
      <4>2. v = [i \in 1 .. m + 1 |-> v[i]]
        BY <4>1
      <4>3. \A i \in 1 .. m + 1 : v[i] = F[r]
        BY <4>1
      <4> HIDE DEF v
      <4> QED BY <4>2, <4>3 DEF v
    <3> HIDE DEF s, t, e
    <3>3. FlattenSeq(Append(s, e)) = FlattenSeq(s) \o e
      BY <3>1, FlattenAppend
    <3> QED BY <3>2, <3>3 DEF s, t, e
  <2>3. H(m + 1) = [r \in Ranks(x) |-> H(m)[r] \o F[r]]
    BY <2>2
  <2> HIDE DEF H
  <2>4. ASSUME NEW b \in BOOLEAN PROVE \E d \in BOOLEAN : Good(x, H(m + 1), Idle(b), Idle(d))
    <3>1. PICK e \in BOOLEAN : Good(x, H(m), Idle(b), Idle(e))
      BY <2>1 DEF Works
    <3>2. PICK d \in BOOLEAN : Good(x, F, Idle(e), Idle(d))
      BY DEF Works
    <3>3. Good(x, [r \in Ranks(x) |-> H(m)[r] \o F[r]], Idle(b), Idle(d))
      BY <3>1, <3>2, GoodConcat
    <3> QED BY <2>3, <3>3
  <2> QED BY <2>4 DEF Works
<1> HIDE DEF N, H
<1>4. Nat \subseteq N
  BY <1>2, <1>3, Induction
<1>5. Works(x, H(n))
  BY <1>4 DEF N
<1> QED BY <1>5 DEF H

-----------------------------------------------------------------------------
(***************************************************************************)
(* The programs of a call of a collective kernel.                          *)
(***************************************************************************)
LEMMA CollectivePrograms ==
  ASSUME NEW x, CollectiveCall(x)
  PROVE  /\ x.np \in Nat \ {0} /\ x.prog \in [Ranks(x) -> Seq(OpSet(x))]
         /\ \A r \in Ranks(x) : x.colls[r] = CollectivesOf(x.prog[r])
         /\ Matched(x, x.prog)
         /\ \E d \in BOOLEAN : \A r \in Ranks(x) : Leads(x.prog[r], Idle(FALSE), Idle(d))
<1>1. PICK K \in CollectiveKernels(x) :
        x.prog = [r \in Ranks(x) |-> FlattenSeq([i \in 1 .. x.calls |-> K[r]])]
  BY DEF CollectiveCall
<1>2. CallNumbers(x) /\ x.calls \in Nat /\ x.colls = Collectives(x.prog)
  BY DEF CollectiveCall
<1>3. Works(x, K)
  BY <1>2, KernelWorks
<1>4. Works(x, [r \in Ranks(x) |-> FlattenSeq([i \in 1 .. x.calls |-> K[r]])])
  BY <1>2, <1>3, RepeatedWorks
<1>5. Works(x, x.prog)
  BY <1>1, <1>4
<1>6. PICK d \in BOOLEAN : Good(x, x.prog, Idle(FALSE), Idle(d))
  BY <1>5 DEF Works
<1>7. x.prog \in [Ranks(x) -> Seq(OpSet(x))] /\ Matched(x, x.prog)
  BY <1>6 DEF Good
<1>8. \A r \in Ranks(x) : x.colls[r] = CollectivesOf(x.prog[r])
  <2>1. DOMAIN x.prog = Ranks(x)
    BY <1>7
  <2> QED BY <1>2, <2>1 DEF Collectives
<1>9. \E e \in BOOLEAN : \A r \in Ranks(x) : Leads(x.prog[r], Idle(FALSE), Idle(e))
  BY <1>6 DEF Good
<1> QED BY <1>2, <1>7, <1>8, <1>9 DEF CallNumbers

(***************************************************************************)
(* The collective operation that the k-th operation is.                    *)
(***************************************************************************)
Before(ops, k) == Len(CollectivesOf(SubSeq(ops, 1, k - 1)))

LEMMA NoCollectives == CollectivesOf(<<>>) = <<>>
BY DEF CollectivesOf, FlattenSeq

LEMMA CollectiveAt ==
  ASSUME NEW U, NEW ops \in Seq(U), NEW k \in 1 .. Len(ops)
  PROVE  /\ Before(ops, k) \in Nat
         /\ Before(ops, k + 1) = Before(ops, k) + IF Collective(ops[k]) THEN 1 ELSE 0
         /\ Collective(ops[k]) => /\ Before(ops, k) < Len(CollectivesOf(ops))
                                  /\ CollectivesOf(ops)[Before(ops, k) + 1] = ops[k]
<1> DEFINE n == Len(ops)
           s == SubSeq(ops, 1, k - 1)
           t == SubSeq(ops, 1, k)
           u == SubSeq(ops, k + 1, n)
           e == ops[k]
<1>1. n \in Nat /\ k \in Nat
  OBVIOUS
<1>2. s \in Seq(U) /\ t \in Seq(U) /\ u \in Seq(U) /\ e \in U /\ Len(s) = k - 1
  OBVIOUS
<1>3. t = Append(s, e)
  OBVIOUS
<1>4. ops = t \o u
  OBVIOUS
<1>5. (k + 1) - 1 = k
  BY <1>1
<1>6. Before(ops, k) = Len(CollectivesOf(s)) /\ Before(ops, k + 1) = Len(CollectivesOf(t))
  BY <1>5 DEF Before
<1> HIDE DEF s, t, u, e
<1> DEFINE a == CollectivesOf(s)
           b == CollectivesOf(u)
<1>7. a \in Seq(U) /\ b \in Seq(U) /\ CollectivesOf(t) = a \o Chosen(e)
  BY <1>2, <1>3, CollectivesAppend
<1>8. CollectivesOf(ops) = CollectivesOf(t) \o b
  BY <1>2, <1>4, CollectivesConcat
<1> HIDE DEF a, b
<1>9. CASE Collective(e)
  <2>1. Chosen(e) = <<e>>
    BY <1>9 DEF Chosen
  <2>2. CollectivesOf(t) = a \o <<e>> /\ CollectivesOf(ops) = (a \o <<e>>) \o b
    BY <1>7, <1>8, <2>1
  <2>3. a \o <<e>> \in Seq(U) /\ Len(a) \in Nat /\ Len(b) \in Nat /\ <<e>> \in Seq(U)
    BY <1>2, <1>7
  <2>4. Len(a \o <<e>>) = Len(a) + 1 /\ (a \o <<e>>)[Len(a) + 1] = e
    BY <1>2, <1>7
  <2>5. /\ Len((a \o <<e>>) \o b) = (Len(a) + 1) + Len(b)
        /\ ((a \o <<e>>) \o b)[Len(a) + 1] = e
    <3> DEFINE v == a \o <<e>>
    <3>1. v \in Seq(U) /\ Len(v) = Len(a) + 1 /\ v[Len(a) + 1] = e
      BY <2>3, <2>4
    <3> HIDE DEF v
    <3>2. Len(v \o b) = Len(v) + Len(b)
      BY <1>7, <3>1, ConcatProperties
    <3>3. Len(a) + 1 \in 1 .. Len(v) + Len(b) /\ Len(a) + 1 <= Len(v)
      BY <2>3, <3>1
    <3>4. (v \o b)[Len(a) + 1] = v[Len(a) + 1]
      BY <1>7, <3>1, <3>3, ConcatProperties
    <3> QED BY <3>1, <3>2, <3>4 DEF v
  <2> QED BY <1>6, <1>9, <2>2, <2>3, <2>4, <2>5 DEF a, e
<1>10. CASE ~ Collective(e)
  <2>1. CollectivesOf(t) = a \o <<>>
    BY <1>7, <1>10 DEF Chosen
  <2>2. a \o <<>> = a /\ Len(a) \in Nat
    BY <1>7
  <2> QED BY <1>6, <1>10, <2>1, <2>2 DEF a, e
<1> QED BY <1>9, <1>10

(***************************************************************************)
(* A rank that has f as seen by its operations has s in the model.         *)
(***************************************************************************)
Shown(f) == IF f.req \in {"started", "begun"} THEN "active" ELSE f.req

Stands(x, r, s, f) ==
  /\ s \in StateSet(x) /\ f \in Local
  /\ s.req = Shown(f) /\ s.reps = f.reps /\ ~ s.window /\ s.locks = {} /\ ~ s.open
  /\ s.sent = [p \in Ranks(x) |-> 0] /\ s.got = [p \in Ranks(x) |-> 0]
  /\ f.req = "begun" => x.colls[r][s.begun].do = "begin"
  /\ f.req = "started" => x.colls[r][s.begun].do = "start"

LEMMA StandsNext ==
  ASSUME NEW x, NEW r, NEW s, NEW f, Stands(x, r, s, f), NEW op \in OpSet(x), May(f, op),
         Then(f, op) \in Local,
         Collective(op) => /\ s.begun < Len(x.colls[r])
                           /\ x.colls[r][s.begun + 1] = op
  PROVE  /\ AllowedAt(x, s, op) /\ WellFormed(x, r, s, op) /\ op.do # "delete"
         /\ Stands(x, r, After(x, r, op, s), Then(f, op))
         /\ After(x, r, op, s).begun = s.begun + IF Collective(op) THEN 1 ELSE 0
<1> DEFINE t == After(x, r, op, s)
           g == Then(f, op)
<1>1. op.do \in {"start", "init", "begin", "call", "check", "local", "wait", "return", "free",
                 "exploit"}
  BY DEF OpSet, CollSet, CheckSet, LocalSet
<1>2. op.do = "exploit" => op.initialize \in {0, 1}
  BY DEF OpSet, CollSet, CheckSet, LocalSet
<1>3. s.begun \in Nat /\ s \in StateSet(x) /\ f \in Local
  BY DEF Stands, StateSet
<1>4. AllowedAt(x, s, op)
  BY <1>1 DEF AllowedAt, Allowed, May, Stands, Shown, Access, Local
<1>5. WellFormed(x, r, s, op)
  BY <1>1 DEF WellFormed, Collective
<1>6. t \in StateSet(x)
  BY <1>3, <1>5, AfterTyped
<1>7. /\ ~ t.window /\ t.locks = {} /\ ~ t.open
      /\ t.sent = [p \in Ranks(x) |-> 0] /\ t.got = [p \in Ranks(x) |-> 0]
  BY <1>1, <1>3 DEF After, Stands, StateSet, Access
<1>8. t.begun = s.begun + IF Collective(op) THEN 1 ELSE 0
  BY <1>1, <1>3 DEF After, StateSet, Access, Collective
<1>9. t.reps = g.reps
  BY <1>1, <1>2, <1>3 DEF After, Then, Stands, StateSet, Access, Local
<1>10. t.req = Shown(g)
  BY <1>1, <1>3 DEF After, Then, Stands, StateSet, Access, Local, May, Shown
<1>11. /\ g.req = "begun" => x.colls[r][t.begun].do = "begin"
       /\ g.req = "started" => x.colls[r][t.begun].do = "start"
  <2>1. CASE op.do \in {"start", "init", "begin", "call"}
    <3>1. t.begun = s.begun + 1 /\ x.colls[r][s.begun + 1] = op
      BY <1>8, <2>1 DEF Collective
    <3>2. /\ g.req = "begun" => op.do = "begin"
          /\ g.req = "started" => op.do = "start"
      BY <2>1 DEF Then, May
    <3> QED BY <3>1, <3>2
  <2>2. CASE op.do \notin {"start", "init", "begin", "call"}
    <3>1. t.begun = s.begun
      BY <1>1, <1>3, <1>8, <2>2 DEF Collective
    <3>2. g.req \in {"begun", "started"} => g.req = f.req
      BY <1>1, <2>2 DEF Then
    <3> QED BY <3>1, <3>2 DEF Stands
  <2> QED BY <2>1, <2>2
<1> HIDE DEF t, g
<1>12. Stands(x, r, t, g)
  BY <1>6, <1>7, <1>9, <1>10, <1>11 DEF Stands, g
<1> QED BY <1>1, <1>4, <1>5, <1>8, <1>12 DEF t, g

LEMMA RankStands ==
  ASSUME NEW x, NEW r \in Ranks(x), x.suite # "IO", x.prog[r] \in Seq(OpSet(x)),
         x.colls[r] = CollectivesOf(x.prog[r]),
         NEW f, Runs(x.prog[r], f), f[1] = Idle(FALSE)
  PROVE  /\ \A k \in 1 .. Len(x.prog[r]) + 1 :
              /\ Stands(x, r, States(x, r)[k], f[k])
              /\ States(x, r)[k].begun = Before(x.prog[r], k)
         /\ \A k \in 1 .. Len(x.prog[r]) :
              /\ AllowedAt(x, States(x, r)[k], x.prog[r][k])
              /\ WellFormed(x, r, States(x, r)[k], x.prog[r][k])
              /\ x.prog[r][k].do # "delete"
<1> DEFINE ops == x.prog[r]
           n == Len(ops)
           s == States(x, r)
           Here(k) == Stands(x, r, s[k], f[k]) /\ s[k].begun = Before(ops, k)
           There(k) == /\ AllowedAt(x, s[k], ops[k]) /\ WellFormed(x, r, s[k], ops[k])
                       /\ ops[k].do # "delete"
           N == {k \in Nat : k <= n => Here(k + 1)}
<1>1. n \in Nat /\ \A k \in 1 .. n : ops[k] \in OpSet(x)
  OBVIOUS
<1>2. s[1] = Fresh(x) /\ \A k \in 1 .. n : s[k + 1] = After(x, r, ops[k], s[k])
  BY <1>1, StatesAre
<1>3. /\ f \in [1 .. n + 1 -> Local]
      /\ \A k \in 1 .. n : May(f[k], ops[k]) /\ f[k + 1] = Then(f[k], ops[k])
  BY DEF Runs
<1>4. ASSUME NEW k \in 1 .. n, Here(k) PROVE There(k) /\ Here(k + 1)
  <2> DEFINE op == ops[k]
             a == s[k]
             b == f[k]
  <2>1. /\ op \in OpSet(x) /\ May(b, op) /\ f[k + 1] = Then(b, op) /\ s[k + 1] = After(x, r, op, a)
        /\ f[k + 1] \in Local
    BY <1>1, <1>2, <1>3
  <2>2. /\ Before(ops, k + 1) = Before(ops, k) + IF Collective(op) THEN 1 ELSE 0
        /\ Collective(op) => /\ Before(ops, k) < Len(CollectivesOf(ops))
                             /\ CollectivesOf(ops)[Before(ops, k) + 1] = op
    BY CollectiveAt
  <2>3. Stands(x, r, a, b) /\ a.begun = Before(ops, k)
    BY <1>4
  <2>4. Collective(op) => a.begun < Len(x.colls[r]) /\ x.colls[r][a.begun + 1] = op
    BY <2>2, <2>3
  <2> HIDE DEF op, a, b, s, ops
  <2>5. /\ AllowedAt(x, a, op) /\ WellFormed(x, r, a, op) /\ op.do # "delete"
        /\ Stands(x, r, After(x, r, op, a), Then(b, op))
        /\ After(x, r, op, a).begun = a.begun + IF Collective(op) THEN 1 ELSE 0
    BY <2>1, <2>3, <2>4, StandsNext
  <2> QED BY <2>1, <2>2, <2>3, <2>5 DEF op, a, b
<1>5. Here(1)
  <2>1. Stands(x, r, Fresh(x), Idle(FALSE))
    <3>1. Fresh(x) \in StateSet(x) /\ Idle(FALSE) \in Local
      BY FreshTyped, IdleLocal
    <3> QED BY <3>1 DEF Stands, Fresh, Idle, Shown
  <2>2. Before(ops, 1) = 0
    <3>1. SubSeq(ops, 1, 1 - 1) = <<>>
      BY <1>1
    <3>2. Len(<<>>) = 0
      OBVIOUS
    <3> QED BY <3>1, <3>2, NoCollectives DEF Before
  <2>3. Fresh(x).begun = 0
    BY DEF Fresh
  <2> HIDE DEF s, ops
  <2> QED BY <1>2, <2>1, <2>2, <2>3
<1> HIDE DEF Here, There, n
<1>6. 0 \in N
  BY <1>5
<1>7. ASSUME NEW k \in Nat, k \in N PROVE k + 1 \in N
  <2>1. CASE k + 1 <= n
    <3>1. k + 1 \in 1 .. n /\ Here(k + 1)
      BY <1>1, <1>7, <2>1
    <3> QED BY <1>4, <3>1
  <2>2. CASE ~ (k + 1 <= n)
    BY <2>2
  <2> QED BY <2>1, <2>2
<1> HIDE DEF N
<1>8. Nat \subseteq N
  BY <1>6, <1>7, Induction
<1>9. ASSUME NEW k \in 1 .. n + 1 PROVE Here(k)
  <2>1. k - 1 \in Nat /\ k - 1 <= n /\ (k - 1) + 1 = k
    BY <1>1
  <2>2. k - 1 \in N
    BY <1>8, <2>1
  <2> QED BY <2>1, <2>2 DEF N
<1>10. \A k \in 1 .. n : There(k)
  BY <1>1, <1>4, <1>9
<1> QED BY <1>9, <1>10 DEF Here, There, n

(***************************************************************************)
(* A call of a collective kernel is as asked.                              *)
(***************************************************************************)
LEMMA CollectiveSound ==
  ASSUME NEW x, CollectiveCall(x)
  PROVE  Sound(x)
<1>1. /\ x.np \in Nat \ {0} /\ x.prog \in [Ranks(x) -> Seq(OpSet(x))]
      /\ \A r \in Ranks(x) : x.colls[r] = CollectivesOf(x.prog[r])
      /\ Matched(x, x.prog)
  BY CollectivePrograms
<1>2. PICK d \in BOOLEAN : \A r \in Ranks(x) : Leads(x.prog[r], Idle(FALSE), Idle(d))
  BY CollectivePrograms
<1>3. x.suite # "IO"
  BY DEF CollectiveCall, CollectiveSuites
<1>4. ASSUME NEW r \in Ranks(x)
      PROVE  /\ OnlyAllowed(x, r) /\ AtEnd(x, r).begun = Len(CollectivesOf(x.prog[r]))
             /\ AtEnd(x, r).sent = [p \in Ranks(x) |-> 0]
             /\ AtEnd(x, r).got = [p \in Ranks(x) |-> 0]
  <2> DEFINE ops == x.prog[r]
             n == Len(ops)
  <2>1. PICK f : Runs(ops, f) /\ f[1] = Idle(FALSE) /\ f[n + 1] = Idle(d)
    BY <1>2 DEF Leads
  <2>2. ops \in Seq(OpSet(x)) /\ n \in Nat /\ x.colls[r] = CollectivesOf(ops)
    BY <1>1
  <2>3. /\ \A k \in 1 .. n + 1 : /\ Stands(x, r, States(x, r)[k], f[k])
                                 /\ States(x, r)[k].begun = Before(ops, k)
        /\ \A k \in 1 .. n : /\ AllowedAt(x, States(x, r)[k], ops[k])
                             /\ WellFormed(x, r, States(x, r)[k], ops[k])
                             /\ ops[k].do # "delete"
    BY <1>3, <2>1, <2>2, RankStands
  <2>4. Len(x.colls[r]) \in Nat
    BY <2>2, CollectivesTyped
  <2>5. SubSeq(ops, 1, (n + 1) - 1) = ops
    BY <2>2
  <2> DEFINE e == States(x, r)[n + 1]
  <2>6. Stands(x, r, e, Idle(d)) /\ e.begun = Len(CollectivesOf(ops))
    <3>1. n + 1 \in 1 .. n + 1
      BY <2>2
    <3> QED BY <2>1, <2>3, <2>5, <3>1 DEF Before
  <2> HIDE DEF e
  <2>7. Ended(e) /\ e.sent = [p \in Ranks(x) |-> 0] /\ e.got = [p \in Ranks(x) |-> 0]
    BY <2>6 DEF Stands, Ended, Idle, Shown
  <2>8. OnlyAllowed(x, r)
    BY <2>2, <2>3, <2>4, <2>7 DEF OnlyAllowed, e
  <2> QED BY <2>6, <2>7, <2>8 DEF AtEnd, e
<1>5. ASSUME NEW r \in Ranks(x), NEW q \in Ranks(x)
      PROVE  AtEnd(x, r).begun = AtEnd(x, q).begun /\ AtEnd(x, r).sent[q] = AtEnd(x, q).got[r]
  <2>1. Len(CollectivesOf(x.prog[r])) = Len(CollectivesOf(x.prog[q]))
    BY <1>1 DEF Matched
  <2> QED BY <1>4, <2>1
<1> QED BY <1>1, <1>4, <1>5 DEF Sound

-----------------------------------------------------------------------------
(***************************************************************************)
(* The buffers of such a call are as long as IMB_init_buffers is asked to  *)
(* make them.                                                              *)
(***************************************************************************)
Spans(buffer, n) == \E k \in Nat : DOMAIN buffer = 0 .. k - 1 /\ n <= k

LEMMA AllocSpans ==
  ASSUME NEW buffer, NEW m \in Nat, Spans(buffer, m), NEW len \in Nat
  PROVE  Spans(IMB_alloc_buf(buffer, len), m) /\ Spans(IMB_alloc_buf(buffer, len), len)
<1>1. PICK k \in Nat : DOMAIN buffer = 0 .. k - 1 /\ m <= k
  BY DEF Spans
<1>2. Cardinality(DOMAIN buffer) = k
  BY <1>1, BytesLength DEF Length
<1> DEFINE room == Most(1, len)
<1>3. room \in Nat /\ len <= room
  BY DEF Most
<1> HIDE DEF room
<1>4. CASE k < room
  <2>1. IMB_alloc_buf(buffer, len) = [i \in 0 .. room - 1 |-> Junk]
    BY <1>2, <1>4 DEF IMB_alloc_buf, room
  <2>2. DOMAIN IMB_alloc_buf(buffer, len) = 0 .. room - 1
    BY <2>1
  <2>3. len <= room /\ m <= room
    BY <1>1, <1>3, <1>4
  <2> QED BY <1>3, <2>2, <2>3 DEF Spans
<1>5. CASE ~ (k < room)
  <2>1. IMB_alloc_buf(buffer, len) = buffer
    BY <1>2, <1>5 DEF IMB_alloc_buf, room
  <2>2. len <= k
    BY <1>3, <1>5
  <2> QED BY <1>1, <2>1, <2>2 DEF Spans
<1> QED BY <1>4, <1>5

LEMMA AssSpans ==
  ASSUME NEW buffer, NEW rank, NEW p1, NEW p2, NEW value
  PROVE  DOMAIN IMB_ass_buf(buffer, rank, p1, p2, value) = DOMAIN buffer
BY DEF IMB_ass_buf

(***************************************************************************)
(* Setting the first n bytes leaves at least n bytes.                      *)
(***************************************************************************)
LEMMA SetSpans ==
  ASSUME NEW buffers, NEW m \in Nat, NEW t \in Nat, Spans(buffers.s, m), Spans(buffers.r, t),
         NEW rank, NEW n \in Nat, NEW k \in Nat
  PROVE  LET b == IMB_set_buf(buffers, rank, 0, n - 1, 0, k - 1)
         IN /\ DOMAIN b = {"s", "r"} /\ Spans(b.s, m) /\ Spans(b.s, n)
            /\ Spans(b.r, t) /\ Spans(b.r, k)
<1> DEFINE Len1(i) == (Most((i - 1) - 0, 0) \div asize + 1) * asize
           s == IMB_alloc_buf(buffers.s, Len1(n))
           r == IMB_alloc_buf(buffers.r, Len1(k))
           b == IMB_set_buf(buffers, rank, 0, n - 1, 0, k - 1)
<1>1. ASSUME NEW i \in Nat PROVE Len1(i) \in Nat /\ i <= Len1(i)
  <2> DEFINE v == Most((i - 1) - 0, 0)
  <2>1. v \in Nat /\ i <= v + 1
    BY DEF Most
  <2> HIDE DEF v
  <2>2. v \div 2 \in Nat /\ v <= (v \div 2) * 2 + 1
    BY <2>1
  <2>3. (v \div 2 + 1) * 2 \in Nat /\ i <= (v \div 2 + 1) * 2
    BY <2>1, <2>2
  <2> QED BY <2>3 DEF asize, v
<1>2. /\ b.s = IMB_ass_buf(s, rank, 0, n - 1, 1) /\ b.r = IMB_ass_buf(r, rank, 0, k - 1, 0)
      /\ DOMAIN b = {"s", "r"}
  BY DEF IMB_set_buf
<1> HIDE DEF b, s, r, Len1
<1>3. DOMAIN b.s = DOMAIN s /\ DOMAIN b.r = DOMAIN r
  BY <1>2, AssSpans
<1>4. Spans(s, m) /\ Spans(s, Len1(n)) /\ Spans(r, t) /\ Spans(r, Len1(k))
  BY <1>1, AllocSpans DEF s, r
<1>5. Spans(b.s, m) /\ Spans(b.s, n) /\ Spans(b.r, t) /\ Spans(b.r, k)
  <2>1. ASSUME NEW u, NEW v, NEW i \in Nat, NEW j \in Nat, DOMAIN u = DOMAIN v, Spans(v, j), i <= j
        PROVE  Spans(u, i)
    BY <2>1 DEF Spans
  <2>2. m <= m /\ t <= t
    OBVIOUS
  <2> QED BY <1>1, <1>3, <1>4, <2>1, <2>2
<1> QED BY <1>2, <1>5 DEF b

LEMMA RoomsTogether ==
  ASSUME NEW x, CollectiveCall(x)
  PROVE  /\ S_alloc(x) \in Nat /\ R_alloc(x) \in Nat /\ S_len(x) \in Nat /\ R_len(x) \in Nat
         /\ S_alloc(x) = 0 <=> R_alloc(x) = 0
<1>1. CallNumbers(x)
  BY DEF CollectiveCall
<1>2. S_alloc(x) \in Nat /\ R_alloc(x) \in Nat /\ S_len(x) \in Nat /\ R_len(x) \in Nat
  BY <1>1, AllocNat, LengthNat DEF CallNumbers
<1>3. /\ S_len(x) <= S_alloc(x) /\ R_len(x) <= R_alloc(x)
  <2>1. /\ S(x, 0) \in Nat /\ S(x, 0) + S_len(x) <= S_alloc(x)
        /\ R(x, 0) \in Nat /\ R(x, 0) + R_len(x) <= R_alloc(x)
    BY <1>1, MessagesInside DEF CallNumbers
  <2> QED BY <1>2, <2>1
<1>4. \/ HasBuffers(x, None2) \/ HasBuffers(x, One) \/ HasBuffers(x, Gathering)
      \/ HasBuffers(x, Scattering) \/ HasBuffers(x, Total2)
  BY DEF CollectiveCall, CollectiveKernels
<1>5. CASE HasBuffers(x, None2)
  <2>1. "SENDBUF_SIZE_0" \in Sendbuf /\ "RECVBUF_SIZE_0" \in Recvbuf
    BY DEF Sendbuf, Recvbuf
  <2>2. /\ S_len(x) = descr2len("SENDBUF_SIZE_0", Message(x), x.np)
        /\ R_len(x) = descr2len("RECVBUF_SIZE_0", Message(x), x.np)
    BY <1>5, <2>1, LengthsOf DEF None2
  <2>3. S_len(x) = R_len(x)
    BY <2>2 DEF descr2len
  <2> QED BY <1>2, <2>3 DEF S_alloc, R_alloc
<1>6. CASE ~ HasBuffers(x, None2)
  <2>1. Message(x) \in Nat \ {0} /\ x.np \in Nat \ {0}
    BY <1>1 DEF CallNumbers, CallAssumption, Message, Most, asize
  <2>2. x.np * Message(x) \in Nat \ {0}
    BY <2>1
  <2>3. S_len(x) \in Nat \ {0} /\ R_len(x) \in Nat \ {0}
    BY <1>4, <1>6, <2>1, <2>2, Lengths
  <2> QED BY <1>2, <1>3, <2>3
<1> QED BY <1>2, <1>5, <1>6

LEMMA BuffersMade ==
  ASSUME NEW x, CollectiveCall(x), NEW r
  PROVE  LET b == IMB_init_buffers(x, r)
         IN DOMAIN b = {"s", "r"} /\ Spans(b.s, S_alloc(x)) /\ Spans(b.r, R_alloc(x))
<1> DEFINE none == [s |-> NoBuffer, r |-> NoBuffer]
           room == [s |-> IMB_alloc_buf(NoBuffer, S_alloc(x)),
                    r |-> IMB_alloc_buf(NoBuffer, R_alloc(x))]
           first == IMB_set_buf(room, r, 0, S_len(x) - 1, 0, R_len(x) - 1)
           b == IMB_init_buffers(x, r)
<1>1. /\ S_alloc(x) \in Nat /\ R_alloc(x) \in Nat /\ S_len(x) \in Nat /\ R_len(x) \in Nat
      /\ S_alloc(x) = 0 <=> R_alloc(x) = 0
  BY RoomsTogether
<1>2. Spans(NoBuffer, 0)
  <2>1. DOMAIN NoBuffer = 0 .. 0 - 1
    BY DEF NoBuffer
  <2> QED BY <2>1 DEF Spans
<1>3. b = IF S_alloc(x) = 0 \/ R_alloc(x) = 0 THEN none
          ELSE IF use_off_cache(x)
          THEN [s |-> Copied(x, first.s, S_len(x)), r |-> Copied(x, first.r, R_len(x))]
          ELSE IMB_set_buf(none, r, 0, S_alloc(x) - 1, 0, R_alloc(x) - 1)
  BY DEF IMB_init_buffers
<1>4. none.s = NoBuffer /\ none.r = NoBuffer /\ DOMAIN none = {"s", "r"}
  OBVIOUS
<1>5. Spans(room.s, S_alloc(x)) /\ Spans(room.r, R_alloc(x))
  BY <1>1, <1>2, AllocSpans
<1> HIDE DEF none, room, b
<1>6. CASE S_alloc(x) = 0
  BY <1>1, <1>2, <1>3, <1>4, <1>6 DEF b
<1>7. CASE S_alloc(x) # 0 /\ use_off_cache(x)
  <2>1. Spans(first.s, S_alloc(x)) /\ Spans(first.r, R_alloc(x))
    BY <1>1, <1>5, SetSpans
  <2> HIDE DEF first
  <2>2. /\ DOMAIN Copied(x, first.s, S_len(x)) = DOMAIN first.s
        /\ DOMAIN Copied(x, first.r, R_len(x)) = DOMAIN first.r
    BY DEF Copied
  <2>3. b = [s |-> Copied(x, first.s, S_len(x)), r |-> Copied(x, first.r, R_len(x))]
    BY <1>1, <1>3, <1>7
  <2>4. /\ DOMAIN b = {"s", "r"} /\ b.s = Copied(x, first.s, S_len(x))
        /\ b.r = Copied(x, first.r, R_len(x))
    BY <2>3
  <2>5. Spans(b.s, S_alloc(x)) /\ Spans(b.r, R_alloc(x))
    BY <2>1, <2>2, <2>4 DEF Spans
  <2> QED BY <2>4, <2>5 DEF b
<1>8. CASE S_alloc(x) # 0 /\ ~ use_off_cache(x)
  <2>1. b = IMB_set_buf(none, r, 0, S_alloc(x) - 1, 0, R_alloc(x) - 1)
    BY <1>1, <1>3, <1>8
  <2>2. Spans(none.s, 0) /\ Spans(none.r, 0) /\ 0 \in Nat
    BY <1>2, <1>4
  <2>3. DOMAIN b = {"s", "r"} /\ Spans(b.s, S_alloc(x)) /\ Spans(b.r, R_alloc(x))
    BY <1>1, <2>1, <2>2, SetSpans
  <2> QED BY <2>3 DEF b
<1> QED BY <1>6, <1>7, <1>8

-----------------------------------------------------------------------------
(***************************************************************************)
(* The invariant of such calls: there are no accesses to windows or files, *)
(* and buffers keep their lengths.                                         *)
(***************************************************************************)
BuffersKept ==
  /\ flying = {} /\ pending = {} /\ DOMAIN mem = Procs
  /\ \A r \in Procs : /\ DOMAIN mem[r] = {"s", "r"}
                      /\ Spans(mem[r].s, S_alloc(c)) /\ Spans(mem[r].r, R_alloc(c))

CInv == UInv /\ CollectiveCall(c) /\ BuffersKept

LEMMA CollectiveOp ==
  ASSUME CInv, NEW r \in Procs, ~ Finished(r)
  PROVE  Op(r) \in OpSet(c)
<1>1. pc[r] \in 1 .. Len(c.prog[r])
  BY OpAllowed DEF CInv
<1>2. c.prog[r] \in Seq(OpSet(c))
  BY CollectivePrograms DEF CInv, Procs
<1> QED BY <1>1, <1>2 DEF Op

(***************************************************************************)
(* Only the receive buffer of r changes, and not its length.               *)
(***************************************************************************)
Refilled(r, buffer) ==
  DOMAIN buffer = DOMAIN mem[r].r /\ mem' = [mem EXCEPT ![r].r = buffer]

LEMMA RefilledKeeps ==
  ASSUME CInv, NEW r \in Procs, Advance(r), NEW buffer, Refilled(r, buffer),
         UNCHANGED <<flying, pending>>
  PROVE  BuffersKept'
<1>1. c' = c /\ Procs' = Procs
  BY DEF Advance, Procs
<1>2. BuffersKept
  BY DEF CInv
<1>3. DOMAIN mem' = Procs /\ \A q \in Procs \ {r} : mem'[q] = mem[q]
  BY <1>2 DEF Refilled, BuffersKept
<1>4. DOMAIN mem'[r] = {"s", "r"} /\ mem'[r].s = mem[r].s /\ mem'[r].r = buffer
  BY <1>2 DEF Refilled, BuffersKept
<1>5. Spans(mem'[r].s, S_alloc(c)) /\ Spans(mem'[r].r, R_alloc(c))
  BY <1>2, <1>4 DEF Refilled, BuffersKept, Spans
<1> QED BY <1>1, <1>2, <1>3, <1>4, <1>5 DEF BuffersKept

LEMMA StepBuffers ==
  ASSUME CInv, NEW r \in Procs, Step(r), UNCHANGED ioVars
  PROVE  c' = c /\ BuffersKept'
<1>0. ~ Finished(r) /\ Advance(r)
  BY DEF Step, Call, Return, Start, PersistentInit, PersistentStart, Begin, Wait, Collect, Free,
         Exploit, Issue, FenceEnter, FenceLeave, Window, Lock, Flush, FlushLocal, Unlock, Send,
             Recv,
         ReduceLocal, Check, Clear, InitArray, CheckArray, At
<1>1. c' = c /\ Procs' = Procs /\ pending' = pending
  BY <1>0 DEF Advance, Procs, ioVars
<1>2. Op(r).do \in {"start", "init", "begin", "call", "check", "local", "wait", "return", "free",
                    "exploit"}
  BY <1>0, CollectiveOp DEF OpSet, CollSet, CheckSet, LocalSet
<1>3. CASE UNCHANGED <<mem, flying>>
  BY <1>1, <1>3 DEF CInv, BuffersKept
<1>4. ASSUME NEW do, Collect(r, do)
      PROVE  c' = c /\ BuffersKept'
  <2> DEFINE op == c.colls[r][begun[r]]
             new == Received(r, op)
  <2>1. mem' = [mem EXCEPT ![r].r = new] /\ UNCHANGED flying
    BY <1>4 DEF Collect
  <2>2. DOMAIN new = DOMAIN mem[r].r
    BY DEF Received
  <2> HIDE DEF new
  <2> QED BY <1>0, <1>1, <2>1, <2>2, RefilledKeeps DEF Refilled
<1>5. ASSUME ReduceLocal(r) \/ Check(r)
      PROVE  c' = c /\ BuffersKept'
  <2>1. \A at, cells : DOMAIN Filled(mem[r].r, at, cells) = DOMAIN mem[r].r
    BY DEF Filled
  <2>2. UNCHANGED flying
    BY <1>5 DEF ReduceLocal, Check
  <2>3. \/ UNCHANGED mem
        \/ \E at, cells : mem' = [mem EXCEPT ![r].r = Filled(mem[r].r, at, cells)]
    BY <1>5 DEF ReduceLocal, Check
  <2>4. CASE UNCHANGED mem
    BY <1>3, <2>2, <2>4
  <2>5. CASE \E at, cells : mem' = [mem EXCEPT ![r].r = Filled(mem[r].r, at, cells)]
    <3>1. PICK at, cells : mem' = [mem EXCEPT ![r].r = Filled(mem[r].r, at, cells)]
      BY <2>5
    <3>2. Refilled(r, Filled(mem[r].r, at, cells))
      BY <2>1, <3>1 DEF Refilled
    <3> QED BY <1>0, <1>1, <2>2, <3>2, RefilledKeeps
  <2> QED BY <2>3, <2>4, <2>5
<1>6. CASE Return(r) \/ Wait(r)
  BY <1>4, <1>6 DEF Return, Wait
<1>7. CASE Call(r) \/ Start(r) \/ PersistentInit(r) \/ PersistentStart(r) \/ Free(r) \/ Exploit(r)
  BY <1>3, <1>7 DEF Call, Start, PersistentInit, PersistentStart, Begin, Free, Exploit
<1> QED BY <1>2, <1>5, <1>6, <1>7
        DEF Step, Issue, FenceEnter, FenceLeave, Window, Lock, Flush, FlushLocal, Unlock, Send,
            Recv,
            Clear, InitArray, CheckArray, At, Access

LEMMA FStepNever ==
  ASSUME CInv, NEW r \in Procs, FStep(r)
  PROVE  FALSE
<1>1. ~ Finished(r)
  BY DEF FStep, SetBuf, Opened, Closed, Delete, Create, AccessFile, ReadWait, SyncFile,
         Completed, Restore, Compare, Contiguous, At
<1>2. Op(r).do \in {"start", "init", "begin", "call", "check", "local", "wait", "return", "free",
                    "exploit"}
  BY <1>1, CollectiveOp DEF OpSet, CollSet, CheckSet, LocalSet
<1> QED BY <1>2 DEF FStep, SetBuf, Opened, Closed, Delete, Create, AccessFile, ReadWait, SyncFile,
                    Completed, Restore, Compare, Contiguous, At

LEMMA NextCInv ==
  ASSUME CInv, [Next]_<<vars, ioVars>>
  PROVE  CInv'
<1>1. UInv'
  BY NextUInv DEF CInv
<1>2. flying = {} /\ pending = {}
  BY DEF CInv, BuffersKept
<1>3. c' = c /\ BuffersKept'
  <2>1. CASE Progress /\ UNCHANGED ioVars
    BY <1>2, <2>1, StepBuffers DEF Progress
  <2>2. CASE InFiles
    BY <1>2, <2>2, FStepNever DEF InFiles
  <2>3. CASE UNCHANGED <<vars, ioVars>>
    BY <2>3 DEF vars, ioVars, CInv, BuffersKept, Procs
  <2> QED BY <2>1, <2>2, <2>3 DEF Next
<1>4. CollectiveCall(c)'
  BY <1>3 DEF CInv
<1> QED BY <1>1, <1>3, <1>4 DEF CInv

LEMMA InitCInv ==
  ASSUME FInit, \A i \in DOMAIN Setups : CollectiveCall(Setups[i])
  PROVE  CInv
<1>1. UInv
  BY CollectiveSound, InitUInv
<1>2. CollectiveCall(c)
  BY DEF FInit, Init
<1>3. c.suite # "MT"
  BY <1>2 DEF CollectiveCall, CollectiveSuites
<1>4. mem = [r \in Procs |-> IMB_init_buffers(c, r)]
  BY <1>3 DEF FInit, Init
<1>5. ASSUME NEW r \in Procs
      PROVE  /\ DOMAIN mem[r] = {"s", "r"}
             /\ Spans(mem[r].s, S_alloc(c)) /\ Spans(mem[r].r, R_alloc(c))
  BY <1>2, <1>4, BuffersMade
<1>6. flying = {} /\ pending = {} /\ DOMAIN mem = Procs
  BY <1>4 DEF FInit, Init
<1> QED BY <1>1, <1>2, <1>5, <1>6 DEF CInv, BuffersKept

-----------------------------------------------------------------------------
LEMMA SameCollectivesFrom ==
  ASSUME CInv
  PROVE  SameCollectives
<1> SUFFICES ASSUME NEW r \in Procs, NEW p \in Procs, begun[p] >= begun[r], begun[r] > 0
             PROVE  Agree(r, p, begun[r]) /\ Agree(p, r, begun[r])
  BY DEF SameCollectives
<1> DEFINE k == begun[r]
           m == CollectivesOf(c.prog[r])
           t == CollectivesOf(c.prog[p])
<1>1. r \in Ranks(c) /\ p \in Ranks(c) /\ UInv /\ CollectiveCall(c)
  BY DEF Procs, CInv
<1>2. c.colls[r] = m /\ c.colls[p] = t /\ Matched(c, c.prog)
  BY <1>1, CollectivePrograms
<1>3. k = Now(r).begun
  BY <1>1 DEF UInv, IInv, HoldsNow
<1>4. Now(r).begun \in Nat /\ Now(r).begun <= Len(m) /\ Len(m) \in Nat
  BY <1>1, <1>2, NowTyped DEF StateSet
<1>5. k \in 1 .. Len(m) /\ Len(t) = Len(m)
  BY <1>1, <1>2, <1>3, <1>4 DEF Matched
<1> HIDE DEF k
<1>6. OpsAgree(r, p, m[k], t[k]) /\ OpsAgree(p, r, t[k], m[k])
  BY <1>1, <1>2, <1>5 DEF Matched
<1> HIDE DEF m, t
<1>7. Agree(r, p, k) /\ Agree(p, r, k)
  BY <1>2, <1>6 DEF Agree, OpsAgree
<1> QED BY <1>7 DEF k

LEMMA SpansInside ==
  ASSUME NEW buffer, NEW room \in Nat, Spans(buffer, room), NEW at \in Nat, NEW n \in Nat,
         at + n <= room
  PROVE  Inside(buffer, at, n)
BY DEF Inside, Spans

LEMMA InsideBuffersFrom ==
  ASSUME CInv
  PROVE  InsideBuffers
<1> SUFFICES ASSUME NEW r \in Procs, ~ Finished(r) PROVE OpInside(r, Op(r))
  BY DEF InsideBuffers
<1> DEFINE op == Op(r)
           sroom == S_alloc(c)
           rroom == R_alloc(c)
<1>1. op \in OpSet(c)
  BY CollectiveOp
<1>2. sroom \in Nat /\ rroom \in Nat
  BY RoomsTogether DEF CInv
<1>3. Spans(mem[r].s, sroom) /\ Spans(mem[r].r, rroom)
  BY DEF CInv, BuffersKept
<1> HIDE DEF op, sroom, rroom
<1>4. CASE op \in CollSet(c)
  <2>1. op.do \in {"start", "init", "begin", "call"}
    BY <1>4 DEF CollSet
  <2>2. ASSUME NEW p \in Procs PROVE Inside(mem[r].s, op.send[p][1], op.send[p][2])
    <3>1. /\ op.send[p][1] \in Nat /\ op.send[p][2] \in Nat
          /\ op.send[p][1] + op.send[p][2] <= sroom
      BY <1>4 DEF CollSet, Procs, sroom
    <3> QED BY <1>2, <1>3, <3>1, SpansInside
  <2>3. ASSUME NEW part \in op.recv PROVE Inside(mem[r].r, part.at, part.n)
    <3>1. part.at \in Nat /\ part.n \in Nat /\ part.at + part.n <= rroom
      BY <1>4 DEF CollSet, rroom
    <3> QED BY <1>2, <1>3, <3>1, SpansInside
  <2> HIDE DEF op
  <2>4. OpInside(r, op)
    BY <2>1, <2>2, <2>3 DEF OpInside, Access
  <2> QED BY <2>4 DEF op
<1>5. CASE op \in CheckSet(c)
  <2>1. /\ op.do = "check" /\ op.at \in Nat /\ op.Totalsize \in Nat /\ op.buf \in {"s", "r"}
        /\ op.at + op.Totalsize <= IF op.buf = "s" THEN sroom ELSE rroom
    BY <1>5 DEF CheckSet, sroom, rroom
  <2>2. Inside(mem[r][op.buf], op.at, op.Totalsize)
    <3>1. CASE op.buf = "s"
      BY <1>2, <1>3, <2>1, <3>1, SpansInside
    <3>2. CASE op.buf = "r"
      BY <1>2, <1>3, <2>1, <3>2, SpansInside
    <3> QED BY <2>1, <3>1, <3>2
  <2> QED BY <2>1, <2>2 DEF OpInside, op, Access
<1>6. CASE op \in LocalSet(c)
  <2>1. /\ op.do = "local" /\ op.at \in Nat /\ op.to \in Nat /\ op.n \in Nat
        /\ op.at + op.n <= sroom /\ op.to + op.n <= rroom
    BY <1>6 DEF LocalSet, sroom, rroom
  <2>2. Inside(mem[r].s, op.at, op.n) /\ Inside(mem[r].r, op.to, op.n)
    BY <1>2, <1>3, <2>1, SpansInside
  <2> QED BY <2>1, <2>2 DEF OpInside, op, Access
<1>7. CASE op.do \in {"wait", "return", "free", "exploit"}
  BY <1>7 DEF OpInside, op, Access
<1>8. \/ op \in CollSet(c) \/ op \in CheckSet(c) \/ op \in LocalSet(c)
      \/ op.do \in {"wait", "return", "free", "exploit"}
  BY <1>1 DEF OpSet
<1> QED BY <1>4, <1>5, <1>6, <1>7, <1>8

(***************************************************************************)
(* The collective kernels of IMB-MPI1, IMB-NBC and IMB-MPI4, blocking, non-*)
(* blocking (pure or overlapped with computing) and persistent, for all    *)
(* numbers of processes, lengths of messages, repetitions, cache sizes,    *)
(* barriers and shifts of the root, however often they are called: what    *)
(* their ranks do is what is asked of programs, so that requests are used  *)
(* as MPI allows and none is left.                                         *)
(***************************************************************************)
THEOREM CollectivesSound ==
  ASSUME \A i \in DOMAIN Setups : CollectiveCall(Setups[i])
  PROVE  Spec => [](UsedRight /\ NothingLeft)
<1>1. \A i \in DOMAIN Setups : Sound(Setups[i])
  BY CollectiveSound
<1>2. (Spec => []UsedRight) /\ (Spec => []NothingLeft)
  BY <1>1, UsedRightAlways, NothingLeftAlways
<1> QED BY <1>2, PTL

LEMMA CollectivesRight ==
  ASSUME \A i \in DOMAIN Setups : CollectiveCall(Setups[i])
  PROVE  Spec => []CInv
<1>1. FInit => CInv
  BY InitCInv
<1>2. CInv /\ [Next]_<<vars, ioVars>> => CInv'
  BY NextCInv
<1> QED BY <1>1, <1>2, PTL DEF Spec

(***************************************************************************)
(* In such calls all ranks come to the same collective operations in the   *)
(* same order, with the same root, and each sends as many bytes as the     *)
(* other one expects.                                                      *)
(***************************************************************************)
THEOREM SameCollectivesAlways ==
  ASSUME \A i \in DOMAIN Setups : CollectiveCall(Setups[i])
  PROVE  Spec => []SameCollectives
<1>1. CInv => SameCollectives
  BY SameCollectivesFrom
<1> QED BY <1>1, CollectivesRight, PTL

(***************************************************************************)
(* In such calls no operation and no check touches a byte outside of the   *)
(* buffers that IMB_init_buffers has allocated, with -off_cache too.       *)
(***************************************************************************)
THEOREM InsideBuffersAlways ==
  ASSUME \A i \in DOMAIN Setups : CollectiveCall(Setups[i])
  PROVE  Spec => []InsideBuffers
<1>1. CInv => InsideBuffers
  BY InsideBuffersFrom
<1> QED BY <1>1, CollectivesRight, PTL

-----------------------------------------------------------------------------
(***************************************************************************)
(* Where the pointers of a rank are: there is one function that PointersOf *)
(* is defined with.                                                        *)
(***************************************************************************)
Points(x, r, f, n) ==
  f = [k \in 1 .. n |-> IF k = 1 THEN AtFirst ELSE Moved(x.prog[r][k - 1], f[k - 1])]

LEMMA PointsExists ==
  ASSUME NEW x, NEW r, NEW n \in Nat
  PROVE  \E f : Points(x, r, f, n)
<1> DEFINE N == {m \in Nat : \E f : Points(x, r, f, m)}
<1>1. 0 \in N
  <2>1. Points(x, r, <<>>, 0)
    BY DEF Points
  <2> QED BY <2>1
<1>2. ASSUME NEW m \in Nat, m \in N PROVE m + 1 \in N
  <2>1. PICK f : Points(x, r, f, m)
    BY <1>2
  <2> DEFINE Value(i, h) == IF i = 1 THEN AtFirst ELSE Moved(x.prog[r][i - 1], h[i - 1])
             g == [i \in 1 .. m + 1 |-> IF i = m + 1 THEN Value(i, f) ELSE f[i]]
  <2>2. ASSUME NEW i \in 1 .. m + 1 PROVE g[i] = Value(i, g)
    <3>1. i = 1 \/ (i - 1 \in 1 .. m + 1 /\ i - 1 # m + 1)
      OBVIOUS
    <3>2. i = 1 \/ g[i - 1] = f[i - 1]
      BY <3>1
    <3>3. CASE i = m + 1
      BY <3>2, <3>3
    <3>4. CASE i # m + 1
      <4>1. i \in 1 .. m
        BY <3>4
      <4>2. f[i] = Value(i, f)
        BY <2>1, <4>1 DEF Points
      <4> QED BY <3>2, <3>4, <4>2
    <3> QED BY <3>3, <3>4
  <2>3. Points(x, r, g, m + 1)
    <3>1. g = [i \in 1 .. m + 1 |-> g[i]]
      OBVIOUS
    <3> HIDE DEF g
    <3> QED BY <2>2, <3>1 DEF Points
  <2> HIDE DEF g
  <2> QED BY <2>3
<1> HIDE DEF N
<1>3. Nat \subseteq N
  BY <1>1, <1>2, Induction
<1> QED BY <1>3 DEF N

LEMMA PointersAre ==
  ASSUME NEW x, NEW r, Len(x.prog[r]) \in Nat
  PROVE  /\ PointersOf(x, r)[1] = AtFirst
         /\ \A k \in 1 .. Len(x.prog[r]) :
              PointersOf(x, r)[k + 1] = Moved(x.prog[r][k], PointersOf(x, r)[k])
<1> DEFINE n == Len(x.prog[r])
           p == CHOOSE f : Points(x, r, f, n + 1)
<1>1. PointersOf(x, r) = p
  BY DEF PointersOf, Points
<1>3. n \in Nat
  OBVIOUS
<1>2. Points(x, r, p, n + 1)
  <2>1. n + 1 \in Nat
    BY <1>3
  <2> HIDE DEF n
  <2>2. \E f : Points(x, r, f, n + 1)
    BY <2>1, PointsExists
  <2> QED BY <2>2
<1> HIDE DEF p, n
<1>4. p[1] = AtFirst
  BY <1>2, <1>3 DEF Points
<1>5. ASSUME NEW k \in 1 .. n PROVE p[k + 1] = Moved(x.prog[r][k], p[k])
  <2>1. k + 1 \in 1 .. n + 1 /\ k + 1 # 1 /\ (k + 1) - 1 = k
    BY <1>3
  <2>2. p[k + 1] = Moved(x.prog[r][(k + 1) - 1], p[(k + 1) - 1])
    BY <1>2, <2>1 DEF Points
  <2> QED BY <2>1, <2>2
<1> QED BY <1>1, <1>4, <1>5 DEF n

PointerSet == [no : Nat, calls : Nat, moved : [1 .. MaxOpen -> Nat]]

LEMMA MovedTyped ==
  ASSUME NEW op, NEW p \in PointerSet, op.do \in {"write", "read"} => op.n \in Nat
  PROVE  /\ Moved(op, p) \in PointerSet
         /\ \A g \in 1 .. MaxOpen : p.moved[g] <= Moved(op, p).moved[g]
<1> DEFINE t == Moved(op, p)
           n == IF Sharing(op) THEN op.n ELSE 0
           m == [g \in 1 .. MaxOpen |-> IF g = p.no THEN p.moved[g] + n ELSE p.moved[g]]
<1> SUFFICES /\ t \in PointerSet
             /\ \A g \in 1 .. MaxOpen : p.moved[g] <= t.moved[g]
  OBVIOUS
<1> HIDE DEF t
<1>1. p.no \in Nat /\ p.calls \in Nat /\ p.moved \in [1 .. MaxOpen -> Nat]
  BY DEF PointerSet
<1>6. \A g \in 1 .. MaxOpen : p.moved[g] \in Nat
  BY <1>1
<1>5. \A g \in 1 .. MaxOpen : p.moved[g] <= p.moved[g]
  BY <1>6
<1>2. CASE op.do = "opened"
  <2>1. t = [no |-> p.no + 1, calls |-> 0, moved |-> p.moved]
    BY <1>2 DEF Moved, t
  <2>2. t \in PointerSet /\ t.moved = p.moved
    BY <1>1, <2>1 DEF PointerSet
  <2> QED BY <1>5, <2>2
<1>3. CASE op.do \in {"write", "read"}
  <2>1. t = [no |-> p.no, calls |-> p.calls + 1, moved |-> m]
    BY <1>3 DEF Moved, t
  <2>2. n \in Nat
    BY <1>3
  <2> HIDE DEF n
  <2>3. \A g \in 1 .. MaxOpen : p.moved[g] \in Nat
    BY <1>1
  <2>4. m \in [1 .. MaxOpen -> Nat] /\ \A g \in 1 .. MaxOpen : p.moved[g] <= m[g]
    BY <2>2, <2>3
  <2> HIDE DEF m
  <2>5. t \in PointerSet /\ t.moved = m
    BY <1>1, <2>1, <2>4 DEF PointerSet
  <2> QED BY <2>4, <2>5
<1>4. CASE op.do \notin {"opened", "write", "read"}
  <2>1. t = p
    BY <1>4 DEF Moved, t
  <2> QED BY <1>5, <2>1
<1> QED BY <1>2, <1>3, <1>4

(***************************************************************************)
(* In a sound program lengths are numbers, and what has been moved only    *)
(* grows.                                                                  *)
(***************************************************************************)
LEMMA PointersTyped ==
  ASSUME NEW x, NEW r, OnlyAllowed(x, r), NEW k \in 1 .. Len(x.prog[r]) + 1
  PROVE  /\ PointersOf(x, r)[k] \in PointerSet
         /\ \A j \in 1 .. k : \A g \in 1 .. MaxOpen :
              PointersOf(x, r)[j].moved[g] <= PointersOf(x, r)[k].moved[g]
<1> DEFINE n == Len(x.prog[r])
           p == PointersOf(x, r)
           More(i) == \A j \in 1 .. i : \A g \in 1 .. MaxOpen :
                        /\ p[j].moved[g] \in Nat /\ p[i].moved[g] \in Nat
                        /\ p[j].moved[g] <= p[i].moved[g]
           N == {i \in Nat : i <= n => p[i + 1] \in PointerSet /\ More(i + 1)}
<1>1. n \in Nat
  BY DEF OnlyAllowed
<1>2. p[1] = AtFirst /\ \A i \in 1 .. n : p[i + 1] = Moved(x.prog[r][i], p[i])
  BY <1>1, PointersAre
<1>3. \A i \in 1 .. n : WellFormed(x, r, States(x, r)[i], x.prog[r][i])
  BY DEF OnlyAllowed
<1>4. \A i \in 1 .. n : x.prog[r][i].do \in {"write", "read"} => x.prog[r][i].n \in Nat
  BY <1>3 DEF WellFormed
<1> HIDE DEF n, p
<1>5. 0 \in N
  <2>1. AtFirst \in PointerSet
    BY DEF AtFirst, PointerSet
  <2>2. \A g \in 1 .. MaxOpen : AtFirst.moved[g] \in Nat
    BY <2>1 DEF PointerSet
  <2>3. More(0 + 1)
    BY <1>2, <2>2
  <2> QED BY <1>2, <2>1, <2>3
<1>6. ASSUME NEW i \in Nat, i \in N PROVE i + 1 \in N
  <2> SUFFICES ASSUME i + 1 <= n
               PROVE  p[(i + 1) + 1] \in PointerSet /\ More((i + 1) + 1)
    OBVIOUS
  <2>1. i + 1 \in 1 .. n /\ p[i + 1] \in PointerSet /\ More(i + 1)
    BY <1>1, <1>6
  <2>2. p[(i + 1) + 1] = Moved(x.prog[r][i + 1], p[i + 1])
    BY <1>2, <2>1
  <2>3. /\ p[(i + 1) + 1] \in PointerSet
        /\ \A g \in 1 .. MaxOpen : p[i + 1].moved[g] <= p[(i + 1) + 1].moved[g]
    BY <1>4, <2>1, <2>2, MovedTyped
  <2>4. \A g \in 1 .. MaxOpen : p[(i + 1) + 1].moved[g] \in Nat
    BY <2>3 DEF PointerSet
  <2>5. ASSUME NEW j \in 1 .. (i + 1) + 1, NEW g \in 1 .. MaxOpen
        PROVE  /\ p[j].moved[g] \in Nat /\ p[(i + 1) + 1].moved[g] \in Nat
               /\ p[j].moved[g] <= p[(i + 1) + 1].moved[g]
    <3>1. CASE j = (i + 1) + 1
      BY <2>4, <3>1
    <3>2. CASE j # (i + 1) + 1
      <4>1. j \in 1 .. i + 1
        BY <3>2
      <4>2. /\ p[j].moved[g] \in Nat /\ p[i + 1].moved[g] \in Nat
            /\ p[j].moved[g] <= p[i + 1].moved[g]
        BY <2>1, <4>1
      <4> QED BY <2>3, <2>4, <4>2
    <3> QED BY <3>1, <3>2
  <2>6. More((i + 1) + 1)
    BY <2>5
  <2> QED BY <2>3, <2>6
<1> HIDE DEF N
<1>7. Nat \subseteq N
  BY <1>5, <1>6, Induction
<1>8. k - 1 \in N /\ k - 1 <= n /\ (k - 1) + 1 = k
  BY <1>1, <1>7 DEF n
<1>9. p[k] \in PointerSet /\ More(k)
  BY <1>8 DEF N
<1> QED BY <1>9 DEF p

(***************************************************************************)
(* Sums of numbers of ranks.                                               *)
(***************************************************************************)
Sums(f, n, s) == s = [i \in 0 .. n |-> IF i = 0 THEN 0 ELSE s[i - 1] + f[i - 1]]

LEMMA SumsExists ==
  ASSUME NEW f, NEW n \in Nat
  PROVE  \E s : Sums(f, n, s)
<1> DEFINE N == {m \in Nat : \E s : Sums(f, m, s)}
<1>1. 0 \in N
  <2> DEFINE s == [i \in 0 .. 0 |-> 0]
  <2>1. Sums(f, 0, s)
    BY DEF Sums
  <2> QED BY <2>1
<1>2. ASSUME NEW m \in Nat, m \in N PROVE m + 1 \in N
  <2>1. PICK s : Sums(f, m, s)
    BY <1>2
  <2> DEFINE g == [i \in 0 .. m + 1 |-> IF i = m + 1 THEN s[m] + f[m] ELSE s[i]]
  <2>2. ASSUME NEW i \in 0 .. m + 1 PROVE g[i] = IF i = 0 THEN 0 ELSE g[i - 1] + f[i - 1]
    <3>1. CASE i = m + 1
      <4>1. i # 0 /\ i - 1 = m /\ m \in 0 .. m + 1 /\ m # m + 1
        BY <3>1
      <4> QED BY <3>1, <4>1
    <3>2. CASE i # m + 1
      <4>1. i \in 0 .. m /\ (i # 0 => i - 1 \in 0 .. m + 1 /\ i - 1 # m + 1)
        BY <3>2
      <4>2. s[i] = IF i = 0 THEN 0 ELSE s[i - 1] + f[i - 1]
        BY <2>1, <4>1 DEF Sums
      <4> QED BY <4>1, <4>2, <3>2
    <3> QED BY <3>1, <3>2
  <2>3. Sums(f, m + 1, g)
    <3>1. g = [i \in 0 .. m + 1 |-> g[i]]
      OBVIOUS
    <3> HIDE DEF g
    <3> QED BY <2>2, <3>1 DEF Sums
  <2> HIDE DEF g
  <2> QED BY <2>3
<1> HIDE DEF N
<1>3. Nat \subseteq N
  BY <1>1, <1>2, Induction
<1> QED BY <1>3 DEF N

LEMMA SumAs ==
  ASSUME NEW f, NEW n \in Nat
  PROVE  \E s : Sums(f, n, s) /\ SumTo(f, n) = s[n]
<1> DEFINE s == CHOOSE h : Sums(f, n, h)
<1>1. Sums(f, n, s)
  BY SumsExists
<1>2. SumTo(f, n) = s[n]
  BY DEF SumTo, Sums
<1> QED BY <1>1, <1>2

(***************************************************************************)
(* The sum grows by what one number grows by, and is not larger when none  *)
(* of the numbers is.                                                      *)
(***************************************************************************)
LEMMA SumGrows ==
  ASSUME NEW n \in Nat, NEW f \in [0 .. n - 1 -> Nat], NEW r \in 0 .. n - 1, NEW d \in Nat
  PROVE  SumTo([f EXCEPT ![r] = @ + d], n) = SumTo(f, n) + d
<1> DEFINE h == [f EXCEPT ![r] = @ + d]
<1>1. PICK s : Sums(f, n, s) /\ SumTo(f, n) = s[n]
  BY SumAs
<1>2. PICK t : Sums(h, n, t) /\ SumTo(h, n) = t[n]
  BY SumAs
<1>3. \A i \in 0 .. n - 1 : h[i] = IF i = r THEN f[i] + d ELSE f[i]
  OBVIOUS
<1> HIDE DEF h
<1> DEFINE N == {i \in Nat : i <= n => s[i] \in Nat /\ t[i] = IF i <= r THEN s[i] ELSE s[i] + d}
<1>4. 0 \in N
  BY <1>1, <1>2 DEF Sums
<1>5. ASSUME NEW i \in Nat, i \in N PROVE i + 1 \in N
  <2> SUFFICES ASSUME i + 1 <= n
               PROVE  /\ s[i + 1] \in Nat
                      /\ t[i + 1] = IF i + 1 <= r THEN s[i + 1] ELSE s[i + 1] + d
    OBVIOUS
  <2>1. s[i] \in Nat /\ t[i] = IF i <= r THEN s[i] ELSE s[i] + d
    BY <1>5
  <2>2. i + 1 \in 0 .. n /\ i + 1 # 0 /\ (i + 1) - 1 = i /\ i \in 0 .. n - 1
    OBVIOUS
  <2>3. s[i + 1] = s[i] + f[i] /\ t[i + 1] = t[i] + h[i]
    BY <1>1, <1>2, <2>2 DEF Sums
  <2>4. f[i] \in Nat /\ h[i] = IF i = r THEN f[i] + d ELSE f[i]
    BY <1>3, <2>2
  <2> QED BY <2>1, <2>3, <2>4
<1> HIDE DEF N
<1>6. Nat \subseteq N
  BY <1>4, <1>5, Induction
<1>7. n \in N
  BY <1>6
<1>8. t[n] = s[n] + d
  BY <1>7 DEF N
<1> QED BY <1>1, <1>2, <1>8 DEF h

LEMMA SumBelow ==
  ASSUME NEW n \in Nat, NEW f \in [0 .. n - 1 -> Nat], NEW h \in [0 .. n - 1 -> Nat],
         \A i \in 0 .. n - 1 : f[i] <= h[i]
  PROVE  SumTo(f, n) \in Nat /\ SumTo(h, n) \in Nat /\ SumTo(f, n) <= SumTo(h, n)
<1>1. PICK s : Sums(f, n, s) /\ SumTo(f, n) = s[n]
  BY SumAs
<1>2. PICK t : Sums(h, n, t) /\ SumTo(h, n) = t[n]
  BY SumAs
<1> DEFINE N == {i \in Nat : i <= n => s[i] \in Nat /\ t[i] \in Nat /\ s[i] <= t[i]}
<1>3. 0 \in N
  BY <1>1, <1>2 DEF Sums
<1>4. ASSUME NEW i \in Nat, i \in N PROVE i + 1 \in N
  <2> SUFFICES ASSUME i + 1 <= n
               PROVE  s[i + 1] \in Nat /\ t[i + 1] \in Nat /\ s[i + 1] <= t[i + 1]
    OBVIOUS
  <2>1. s[i] \in Nat /\ t[i] \in Nat /\ s[i] <= t[i]
    BY <1>4
  <2>2. i + 1 \in 0 .. n /\ i + 1 # 0 /\ (i + 1) - 1 = i /\ i \in 0 .. n - 1
    OBVIOUS
  <2>3. s[i + 1] = s[i] + f[i] /\ t[i + 1] = t[i] + h[i]
    BY <1>1, <1>2, <2>2 DEF Sums
  <2>4. f[i] \in Nat /\ h[i] \in Nat /\ f[i] <= h[i]
    BY <2>2
  <2> QED BY <2>1, <2>3, <2>4
<1> HIDE DEF N
<1>5. Nat \subseteq N
  BY <1>3, <1>4, Induction
<1>6. n \in N
  BY <1>5
<1> QED BY <1>1, <1>2, <1>6 DEF N

-----------------------------------------------------------------------------
(***************************************************************************)
(* Along its program a rank has begun and heard of more and more.          *)
(***************************************************************************)
LEMMA AfterGrows ==
  ASSUME NEW x, NEW r, NEW op, NEW s \in StateSet(x), \A p \in Ranks(x) : s.heard[p] <= s.begun
  PROVE  LET t == After(x, r, op, s)
         IN /\ s.begun <= t.begun
            /\ \A p \in Ranks(x) : s.heard[p] <= t.heard[p] /\ t.heard[p] <= t.begun
<1> DEFINE t == After(x, r, op, s)
           last == x.colls[r][s.begun]
           all == IF last.precede THEN Ranks(x) ELSE {}
<1> SUFFICES /\ s.begun <= t.begun
             /\ \A p \in Ranks(x) : s.heard[p] <= t.heard[p] /\ t.heard[p] <= t.begun
  OBVIOUS
<1>1. s.begun \in Nat /\ \A p \in Ranks(x) : s.heard[p] \in Nat
  BY DEF StateSet
<1>2. CASE op.do \in {"start", "init", "begin", "call", "fence"}
  <2>1. t.begun = s.begun + 1 /\ t.heard = s.heard
    BY <1>2 DEF After, Access, StateSet
  <2> HIDE DEF t
  <2> QED BY <1>1, <2>1
<1>3. CASE op.do \in {"wait", "return", "fenced"}
  <2>1. t.begun = s.begun
    BY <1>3 DEF After, Access, StateSet
  <2>2. \/ t.heard = Hears(x, s, Sources(last))
        \/ t.heard = Hears(x, s, all)
    BY <1>3 DEF After, Access, StateSet
  <2> HIDE DEF t, last, all
  <2>3. PICK from : t.heard = Hears(x, s, from)
    BY <2>2
  <2>4. \A p \in Ranks(x) : t.heard[p] = s.begun \/ t.heard[p] = s.heard[p]
    BY <2>3 DEF Hears
  <2> QED BY <1>1, <2>1, <2>4
<1>4. CASE op.do \notin {"start", "init", "begin", "call", "fence", "wait", "return", "fenced"}
  <2>1. t.begun = s.begun /\ t.heard = s.heard
    BY <1>4 DEF After, StateSet
  <2> HIDE DEF t
  <2> QED BY <1>1, <2>1
<1> QED BY <1>2, <1>3, <1>4

LEMMA StatesGrow ==
  ASSUME NEW x, NEW r, OnlyAllowed(x, r), NEW k \in 1 .. Len(x.prog[r]) + 1, NEW j \in 1 .. k
  PROVE  /\ States(x, r)[j].begun <= States(x, r)[k].begun
         /\ \A p \in Ranks(x) : States(x, r)[j].heard[p] <= States(x, r)[k].heard[p]
<1> DEFINE n == Len(x.prog[r])
           s == States(x, r)
           Typed(i) == s[i].begun \in Nat /\ \A p \in Ranks(x) : s[i].heard[p] \in Nat
           More(i) == s[j].begun <= s[i].begun
                      /\ \A p \in Ranks(x) : s[j].heard[p] <= s[i].heard[p]
           N == {i \in Nat : i <= n =>
                   /\ \A p \in Ranks(x) : s[i + 1].heard[p] <= s[i + 1].begun
                   /\ j <= i + 1 => More(i + 1)}
<1>1. n \in Nat
  BY DEF OnlyAllowed
<1>2. s[1] = Fresh(x) /\ \A i \in 1 .. n : s[i + 1] = After(x, r, x.prog[r][i], s[i])
  BY <1>1, StatesAre
<1>3. \A i \in 1 .. n + 1 : s[i] \in StateSet(x)
  BY StatesTyped
<1> HIDE DEF n, s
<1>4. \A i \in 1 .. n + 1 : Typed(i)
  BY <1>3 DEF StateSet
<1>5. 0 \in N
  <2>1. \A p \in Ranks(x) : s[1].heard[p] <= s[1].begun
    BY <1>2 DEF Fresh
  <2>2. 1 \in 1 .. n + 1
    BY <1>1
  <2>3. j <= 1 => More(1)
    <3>1. Typed(1)
      BY <1>4, <2>2
    <3> QED BY <3>1
  <2> QED BY <2>1, <2>3
<1>6. ASSUME NEW i \in Nat, i \in N PROVE i + 1 \in N
  <2> DEFINE m == i + 1
  <2> SUFFICES ASSUME m <= n
               PROVE  /\ \A p \in Ranks(x) : s[m + 1].heard[p] <= s[m + 1].begun
                      /\ j <= m + 1 => More(m + 1)
    OBVIOUS
  <2>1. /\ m \in 1 .. n /\ m \in 1 .. n + 1 /\ m + 1 \in 1 .. n + 1
        /\ \A p \in Ranks(x) : s[m].heard[p] <= s[m].begun
        /\ j <= m => More(m)
    BY <1>1, <1>6
  <2> HIDE DEF m
  <2>2. Typed(m) /\ Typed(m + 1) /\ s[m] \in StateSet(x)
    BY <1>3, <1>4, <2>1
  <2>3. /\ s[m].begun <= s[m + 1].begun
        /\ \A p \in Ranks(x) : /\ s[m].heard[p] <= s[m + 1].heard[p]
                               /\ s[m + 1].heard[p] <= s[m + 1].begun
    BY <1>2, <2>1, <2>2, AfterGrows
  <2>4. CASE j <= m
    <3>1. More(m)
      BY <2>1, <2>4
    <3>2. Typed(j)
      BY <1>1, <1>4, <2>1, <2>4
    <3> QED BY <2>2, <2>3, <3>1, <3>2
  <2>5. CASE j = m + 1
    BY <2>2, <2>3, <2>5
  <2>6. j <= m + 1 => j <= m \/ j = m + 1
    BY <2>1
  <2> QED BY <2>3, <2>4, <2>5, <2>6
<1> HIDE DEF N
<1>7. Nat \subseteq N
  BY <1>5, <1>6, Induction
<1>8. k - 1 \in N /\ k - 1 <= n /\ (k - 1) + 1 = k
  BY <1>1, <1>7 DEF n
<1>9. More(k)
  BY <1>8 DEF N
<1> QED BY <1>9 DEF s

(***************************************************************************)
(* What a rank can tell of another at an operation it has come to is so.   *)
(***************************************************************************)
LEMMA PastIs ==
  ASSUME UInv, NEW r \in Procs, NEW k \in 1 .. pc[r], NEW q \in Procs,
         NEW j \in 1 .. Len(c.prog[q]), Past(c, r, k, q, j)
  PROVE  j < pc[q]
<1>1. /\ OnlyAllowed(c, r) /\ pc[r] \in 1 .. Len(c.prog[r]) + 1 /\ Len(c.prog[r]) \in Nat
      /\ OnlyAllowed(c, q) /\ pc[q] \in 1 .. Len(c.prog[q]) + 1 /\ Len(c.prog[q]) \in Nat
  BY NowTyped
<1>2. CASE q = r
  BY <1>1, <1>2 DEF Past
<1>3. CASE q # r
  <2>1. States(c, r)[k].heard[q] > States(c, q)[j].begun
    BY <1>3 DEF Past
  <2>2. States(c, r)[k].heard[q] <= Now(r).heard[q]
    BY <1>1, StatesGrow DEF Now, Procs
  <2>3. Now(r).heard[q] <= Now(q).begun
    BY DEF UInv, IInv, Heard, HoldsNow
  <2>4. SUFFICES ASSUME pc[q] <= j PROVE FALSE
    BY <1>1
  <2>5. j \in 1 .. Len(c.prog[q]) + 1 /\ pc[q] \in 1 .. j
    BY <1>1, <2>4
  <2>6. Now(q).begun <= States(c, q)[j].begun
    BY <1>1, <2>5, StatesGrow DEF Now
  <2>7. k \in 1 .. Len(c.prog[r]) + 1
    BY <1>1
  <2>8. /\ States(c, r)[k] \in StateSet(c) /\ States(c, q)[j] \in StateSet(c)
        /\ Now(r) \in StateSet(c) /\ Now(q) \in StateSet(c)
    BY <1>1, <2>5, <2>7, StatesTyped, NowTyped
  <2>9. /\ States(c, r)[k].heard[q] \in Nat /\ Now(r).heard[q] \in Nat /\ Now(q).begun \in Nat
        /\ States(c, q)[j].begun \in Nat
    BY <2>8 DEF StateSet, Procs
  <2> QED BY <2>1, <2>2, <2>3, <2>6, <2>9
<1> QED BY <1>2, <1>3

-----------------------------------------------------------------------------
(***************************************************************************)
(* Why reads find what they read and accesses stay apart: pointers are     *)
(* where the program says, an access on its way was called in the opening  *)
(* its rank still has, in its place, and a file that has been created is   *)
(* as long as that.                                                        *)
(***************************************************************************)
PNow(r) == PointersOf(c, r)[pc[r]]

PointersHold ==
  /\ \A r \in Procs : handle[r].no = PNow(r).no /\ handle[r].calls = PNow(r).calls
  /\ \A g \in 1 .. MaxOpen : shared[g].at = SumTo([r \in Procs |-> PNow(r).moved[g]], c.np)

OpOf(a) == c.prog[a.rank][a.no]
Opening(a) == PointersOf(c, a.rank)[a.no].no

Called(a) ==
  /\ a.no # 0 /\ IsAccess(OpOf(a)) /\ a.kind = OpOf(a).do /\ a.n = OpOf(a).n
  /\ a.file = Name(c, a.rank) /\ Opening(a) \in 1 .. MaxOpen
  /\ handle[a.rank].open /\ handle[a.rank].no = Opening(a)
  /\ \A j \in a.no + 1 .. pc[a.rank] - 1 : c.prog[a.rank][j].do # "closed"
  /\ c.access # "no" =>
       IF c.fpointer = "SHARED" THEN a.at + a.n <= shared[Opening(a)].at
       ELSE a.at = InView(c, a.rank, Block(c, a.rank, a.no))

PendingHolds == \A a \in pending : Called(a)

PendingOnce == \A a, b \in pending : a.rank = b.rank /\ a.no = b.no => a = b

SharedApart ==
  c.access # "no" /\ c.fpointer = "SHARED" =>
    \A a, b \in pending : a # b /\ Opening(a) = Opening(b) => ~ Overlap(a, b)

FilesMade ==
  /\ DOMAIN files = Procs \cup {Common}
  /\ \A q \in Procs : \A j \in 1 .. Len(c.prog[q]) :
       Creates(c, q, j) /\ Creator(c, q) = q /\ j < pc[q]
         => c.prog[q][j].total <= Length(files[Name(c, q)].bytes)

PInv ==
  TInv /\ Placed(c) /\ PointersHold /\ PendingHolds /\ PendingOnce /\ SharedApart /\ FilesMade

(***************************************************************************)
(* Steps which leave files and pointers alone.                             *)
(***************************************************************************)
Still(r) ==
  /\ ~ Finished(r) /\ Advance(r) /\ UNCHANGED <<files, handle, shared, pending>>
  /\ Op(r).do \notin {"opened", "closed", "delete", "create", "write", "read"}

LEMMA StillStep ==
  ASSUME NEW r,
         \/ Step(r) /\ UNCHANGED ioVars
         \/ SetBuf(r) \/ ReadWait(r) \/ SyncFile(r) \/ Restore(r) \/ Compare(r) \/ Contiguous(r)
  PROVE  Still(r)
<1>1. CASE Step(r) /\ UNCHANGED ioVars
  <2>1. /\ ~ Finished(r) /\ Advance(r)
        /\ Op(r).do \notin {"opened", "closed", "delete", "create", "write", "read"}
    BY <1>1, Zenon DEF Step, Start, PersistentInit, PersistentStart, Begin, Call, Return, Collect, Wait,
         Free, Exploit, Issue, Access,
         FenceEnter, FenceLeave, Window, Lock, Flush, FlushLocal, Unlock, Send, Recv, ReduceLocal,
         Check, Clear, InitArray, CheckArray, At
  <2> QED BY <1>1, <2>1 DEF Still, ioVars
<1>2. CASE \/ SetBuf(r) \/ ReadWait(r) \/ SyncFile(r) \/ Restore(r) \/ Compare(r) \/ Contiguous(r)
  BY <1>2 DEF Still, SetBuf, ReadWait, SyncFile, Completed, Restore, Compare, Contiguous, At, ioVars
<1> QED BY <1>1, <1>2

LEMMA PointersMove ==
  ASSUME UInv, NEW r \in Procs, ~ Finished(r), Advance(r)
  PROVE  /\ c' = c /\ Procs' = Procs /\ pc[r] \in 1 .. Len(c.prog[r])
         /\ \A q \in Procs : /\ (PNow(q))' = IF q = r THEN Moved(Op(r), PNow(r)) ELSE PNow(q)
                             /\ pc'[q] = IF q = r THEN pc[q] + 1 ELSE pc[q]
                             /\ PNow(q) \in PointerSet /\ (PNow(q))' \in PointerSet
<1>1. /\ pc = [q \in Procs |-> pc[q]] /\ pc' = [pc EXCEPT ![r] = @ + 1] /\ c' = c
  BY DEF Advance, UInv, AtOne
<1>2. pc[r] \in 1 .. Len(c.prog[r]) /\ Len(c.prog[r]) \in Nat
  BY OpAllowed, NowTyped
<1>3. \A q \in Procs : pc'[q] = IF q = r THEN pc[q] + 1 ELSE pc[q]
  BY <1>1
<1>4. PointersOf(c, r)[pc[r] + 1] = Moved(c.prog[r][pc[r]], PointersOf(c, r)[pc[r]])
  BY <1>2, PointersAre
<1>5. Procs' = Procs
  BY <1>1 DEF Procs
<1>6. ASSUME NEW q \in Procs
      PROVE  /\ (PNow(q))' = IF q = r THEN Moved(Op(r), PNow(r)) ELSE PNow(q)
             /\ PNow(q) \in PointerSet
  <2>1. (PNow(q))' = PointersOf(c, q)[pc'[q]]
    BY <1>1 DEF PNow
  <2>2. OnlyAllowed(c, q) /\ pc[q] \in 1 .. Len(c.prog[q]) + 1
    BY NowTyped
  <2> QED BY <1>3, <1>4, <2>1, <2>2, PointersTyped DEF PNow, Op
<1>7. Op(r).do \in {"write", "read"} => Op(r).n \in Nat
  BY OpAllowed DEF WellFormed
<1>8. Moved(Op(r), PNow(r)) \in PointerSet
  BY <1>6, <1>7, MovedTyped
<1> QED BY <1>1, <1>2, <1>3, <1>5, <1>6, <1>8

(***************************************************************************)
(* Pointers stay where the program says.                                   *)
(***************************************************************************)
LEMMA PointersStay ==
  ASSUME UInv, PointersHold, NEW r \in Procs, ~ Finished(r), Advance(r), shared' = shared,
         Op(r).do \notin {"opened", "write", "read"},
         \A q \in Procs : handle'[q].no = handle[q].no /\ handle'[q].calls = handle[q].calls
  PROVE  PointersHold'
<1>1. c' = c /\ Procs' = Procs /\ \A q \in Procs : (PNow(q))' = PNow(q)
  BY PointersMove DEF Moved
<1>2. \A g \in 1 .. MaxOpen :
        [q \in Procs |-> (PNow(q))'.moved[g]] = [q \in Procs |-> PNow(q).moved[g]]
  BY <1>1
<1> QED BY <1>1, <1>2 DEF PointersHold

LEMMA PointersOpened ==
  ASSUME UInv, PointersHold, NEW r \in Procs, Opened(r)
  PROVE  PointersHold'
<1>1. /\ ~ Finished(r) /\ Advance(r) /\ shared' = shared /\ Op(r).do = "opened"
      /\ handle' = [handle EXCEPT ![r] = [open |-> TRUE, no |-> @.no + 1, calls |-> 0]]
  BY DEF Opened, At
<1>2. /\ c' = c /\ Procs' = Procs
      /\ \A q \in Procs : (PNow(q))' = IF q = r THEN Moved(Op(r), PNow(r)) ELSE PNow(q)
  BY <1>1, PointersMove
<1>3. Moved(Op(r), PNow(r)) = [no |-> PNow(r).no + 1, calls |-> 0, moved |-> PNow(r).moved]
  BY <1>1 DEF Moved
<1>4. \A q \in Procs : (PNow(q))'.moved = PNow(q).moved
  BY <1>2, <1>3
<1>5. \A g \in 1 .. MaxOpen :
        [q \in Procs |-> (PNow(q))'.moved[g]] = [q \in Procs |-> PNow(q).moved[g]]
  BY <1>4
<1>6. handle \in [Procs -> HandleSet]
  BY DEF UInv, IInv, HoldsNow
<1>7. \A q \in Procs : handle'[q].no = (PNow(q))'.no /\ handle'[q].calls = (PNow(q))'.calls
  BY <1>1, <1>2, <1>3, <1>6 DEF PointersHold
<1> QED BY <1>1, <1>2, <1>5, <1>7 DEF PointersHold

LEMMA PointersAccess ==
  ASSUME UInv, PointersHold, SharedTyped, NEW r \in Procs, AccessFile(r)
  PROVE  PointersHold'
<1> DEFINE op == Op(r)
           no == handle[r].no
           n == IF Sharing(op) THEN op.n ELSE 0
<1>1. /\ ~ Finished(r) /\ Advance(r) /\ op.do \in {"write", "read"}
      /\ handle' = [handle EXCEPT ![r].calls = @ + 1]
      /\ shared' = IF Sharing(op)
                   THEN [shared EXCEPT ![no] = [at |-> @.at + op.n, calls |-> @.calls + 1]]
                   ELSE shared
  BY DEF AccessFile, Sharing
<1>2. /\ c' = c /\ Procs' = Procs
      /\ \A q \in Procs : /\ (PNow(q))' = IF q = r THEN Moved(op, PNow(r)) ELSE PNow(q)
                          /\ PNow(q) \in PointerSet
  BY <1>1, PointersMove
<1>3. Moved(op, PNow(r)) =
        [no |-> PNow(r).no, calls |-> PNow(r).calls + 1,
         moved |-> [g \in 1 .. MaxOpen |->
                      IF g = PNow(r).no THEN PNow(r).moved[g] + n ELSE PNow(r).moved[g]]]
  BY <1>1 DEF Moved
<1>4. op.n \in Nat /\ Now(r).no \in 1 .. MaxOpen
  BY <1>1, OpAllowed DEF WellFormed
<1>5. handle \in [Procs -> HandleSet] /\ no = Now(r).no /\ no = PNow(r).no
  BY DEF UInv, IInv, HoldsNow, PointersHold
<1>6. n \in Nat
  BY <1>4
<1>7. \A q \in Procs : handle'[q].no = (PNow(q))'.no /\ handle'[q].calls = (PNow(q))'.calls
  <2>1. \A q \in Procs : /\ handle'[q].no = handle[q].no
                         /\ handle'[q].calls = IF q = r THEN handle[q].calls + 1
                                               ELSE handle[q].calls
    BY <1>1, <1>5 DEF HandleSet
  <2>2. (PNow(r))'.no = PNow(r).no /\ (PNow(r))'.calls = PNow(r).calls + 1
    BY <1>2, <1>3
  <2> QED BY <1>2, <2>1, <2>2 DEF PointersHold
<1>8. \A g \in 1 .. MaxOpen : shared'[g].at = IF g = no THEN shared[g].at + n ELSE shared[g].at
  <2>1. CASE Sharing(op)
    BY <1>1, <2>1 DEF SharedTyped
  <2>2. CASE ~ Sharing(op)
    BY <1>1, <2>2 DEF SharedTyped
  <2> QED BY <2>1, <2>2
<1> HIDE DEF op, no, n
<1>9. ASSUME NEW g \in 1 .. MaxOpen
      PROVE  shared'[g].at = SumTo([q \in Procs |-> (PNow(q))'.moved[g]], c.np)
  <2> DEFINE f == [q \in Procs |-> PNow(q).moved[g]]
             h == [q \in Procs |-> (PNow(q))'.moved[g]]
  <2>1. shared[g].at = SumTo(f, c.np)
    BY DEF PointersHold
  <2>2. (PNow(r))'.moved[g] = IF g = no THEN PNow(r).moved[g] + n ELSE PNow(r).moved[g]
    <3>1. (PNow(r))' = Moved(op, PNow(r))
      BY <1>2
    <3>2. (PNow(r))'.moved = Moved(op, PNow(r)).moved
      BY <3>1
    <3>3. Moved(op, PNow(r)).moved[g] =
            IF g = PNow(r).no THEN PNow(r).moved[g] + n ELSE PNow(r).moved[g]
      BY <1>3
    <3> QED BY <1>5, <3>2, <3>3
  <2>3. CASE g # no
    <3>1. h = f
      BY <1>2, <2>2, <2>3
    <3> QED BY <1>8, <2>1, <2>3, <3>1
  <2>4. CASE g = no
    <3>1. h = [f EXCEPT ![r] = @ + n]
      BY <1>2, <2>2, <2>4
    <3>2. f \in [Procs -> Nat]
      BY <1>2 DEF PointerSet
    <3>3. c.np \in Nat /\ Procs = 0 .. c.np - 1
      BY DEF UInv, Sound, Procs, Ranks
    <3> HIDE DEF f
    <3>4. SumTo([f EXCEPT ![r] = @ + n], c.np) = SumTo(f, c.np) + n
      BY <1>6, <3>2, <3>3, SumGrows
    <3> QED BY <1>8, <2>1, <2>4, <3>1, <3>4
  <2> QED BY <2>3, <2>4
<1> QED BY <1>2, <1>7, <1>9 DEF PointersHold

(***************************************************************************)
(* A file stays as long as it was created.                                 *)
(***************************************************************************)
LEMMA FilesStay ==
  ASSUME UInv, FilesMade, NEW r \in Procs, ~ Finished(r), Advance(r), Op(r).do # "create",
         DOMAIN files' = DOMAIN files,
         \A name \in DOMAIN files : files'[name].bytes = files[name].bytes
  PROVE  FilesMade'
<1>1. /\ c' = c /\ Procs' = Procs /\ pc[r] \in 1 .. Len(c.prog[r])
      /\ \A q \in Procs : pc'[q] = IF q = r THEN pc[q] + 1 ELSE pc[q]
  BY PointersMove
<1>2. ASSUME NEW q \in Procs, NEW j \in 1 .. Len(c.prog[q]), Creates(c, q, j),
             Creator(c, q) = q, j < pc'[q]
      PROVE  c.prog[q][j].total <= Length(files'[Name(c, q)].bytes)
  <2>1. j < pc[q]
    <3>1. j # pc[r] \/ q # r
      BY <1>2 DEF Creates, Op
    <3> QED BY <1>1, <1>2, <3>1
  <2>2. c.prog[q][j].total <= Length(files[Name(c, q)].bytes)
    BY <1>2, <2>1 DEF FilesMade
  <2>3. Name(c, q) \in DOMAIN files
    BY DEF FilesMade, Name
  <2> QED BY <2>2, <2>3
<1> QED BY <1>1, <1>2 DEF FilesMade

LEMMA FilesShaped ==
  ASSUME UInv, Placed(c), FilesMade, NEW r \in Procs, ~ Finished(r), Advance(r), Shapes(Op(r)),
         NEW f, files' = [files EXCEPT ![Mine(r)] = f],
         Op(r).do = "create" => Op(r).total <= Length(f.bytes)
  PROVE  FilesMade'
<1>1. /\ c' = c /\ Procs' = Procs /\ pc[r] \in 1 .. Len(c.prog[r])
      /\ \A q \in Procs : pc'[q] = IF q = r THEN pc[q] + 1 ELSE pc[q]
  BY PointersMove
<1>2. Creator(c, r) = r
  BY <1>1 DEF Placed, PlacedAt, Op, Procs
<1>3. ASSUME NEW q \in Procs, NEW j \in 1 .. Len(c.prog[q]), Creates(c, q, j),
             Creator(c, q) = q, j < pc'[q]
      PROVE  c.prog[q][j].total <= Length(files'[Name(c, q)].bytes)
  <2>1. Name(c, q) \in DOMAIN files
    BY DEF FilesMade, Name
  <2>2. CASE q = r
    <3>1. pc[r] <= j /\ j < pc[r] + 1
      BY <1>1, <1>3, <2>2 DEF Creates, Op
    <3>2. j = pc[r]
      BY <1>1, <3>1
    <3>3. c.prog[q][j] = Op(r) /\ Op(r).do = "create"
      BY <1>3, <2>2, <3>2 DEF Creates, Op
    <3> QED BY <2>1, <2>2, <3>3 DEF Mine
  <2>3. CASE q # r
    <3>1. Name(c, q) # Name(c, r)
      BY <1>2, <1>3, <2>3 DEF Creator, Name
    <3>2. c.prog[q][j].total <= Length(files[Name(c, q)].bytes)
      BY <1>1, <1>3, <2>3 DEF FilesMade
    <3> QED BY <2>1, <3>1, <3>2 DEF Mine
  <2> QED BY <2>2, <2>3
<1>4. DOMAIN files' = Procs \cup {Common}
  BY DEF FilesMade
<1> QED BY <1>1, <1>3, <1>4 DEF FilesMade

LEMMA FilesLand ==
  ASSUME UInv, FilesMade, c' = c, pc' = pc, DOMAIN files' = DOMAIN files,
         \A name \in DOMAIN files : /\ Length(files[name].bytes) \in Nat
                                    /\ Length(files'[name].bytes) \in Nat
                                    /\ Length(files[name].bytes) <= Length(files'[name].bytes)
  PROVE  FilesMade'
<1>1. Procs' = Procs
  BY DEF Procs
<1>2. ASSUME NEW q \in Procs, NEW j \in 1 .. Len(c.prog[q]), Creates(c, q, j),
             Creator(c, q) = q, j < pc'[q]
      PROVE  c.prog[q][j].total <= Length(files'[Name(c, q)].bytes)
  <2>1. Name(c, q) \in DOMAIN files
    BY DEF FilesMade, Name
  <2>2. c.prog[q][j].total <= Length(files[Name(c, q)].bytes)
    BY <1>2 DEF FilesMade
  <2>3. c.prog[q][j].total \in Nat
    <3>1. OnlyAllowed(c, q) /\ c.prog[q][j].do = "create"
      BY <1>2, NowTyped DEF Creates
    <3> QED BY <3>1 DEF OnlyAllowed, WellFormed
  <2> QED BY <2>1, <2>2, <2>3
<1> QED BY <1>1, <1>2 DEF FilesMade

(***************************************************************************)
(* An access on its way stays as it was called.                            *)
(***************************************************************************)
LEMMA CalledStays ==
  ASSUME TInv, NEW a \in pending, Called(a), NEW r \in Procs, ~ Finished(r), Advance(r),
         Op(r).do = "closed" => a.rank # r,
         handle'[a.rank].open = handle[a.rank].open, handle'[a.rank].no = handle[a.rank].no,
         \A g \in 1 .. MaxOpen : /\ shared[g].at \in Nat /\ shared'[g].at \in Nat
                                 /\ shared[g].at <= shared'[g].at
  PROVE  Called(a)'
<1>1. /\ c' = c /\ pc[r] \in 1 .. Len(c.prog[r])
      /\ \A q \in Procs : pc'[q] = IF q = r THEN pc[q] + 1 ELSE pc[q]
  BY PointersMove DEF TInv
<1>2. a.rank \in Procs /\ a.at \in Nat /\ a.n \in Nat
  BY DEF TInv, PendingTyped
<1>3. pc[a.rank] \in Nat
  BY <1>2, NowTyped DEF TInv
<1>4. \A j \in a.no + 1 .. pc'[a.rank] - 1 : c.prog[a.rank][j].do # "closed"
  <2> SUFFICES ASSUME NEW j \in a.no + 1 .. pc'[a.rank] - 1, a.no \in Nat
               PROVE  c.prog[a.rank][j].do # "closed"
    BY DEF TInv, PendingTyped
  <2>1. CASE j = pc[r] /\ a.rank = r
    BY <2>1 DEF Op
  <2>2. CASE ~ (j = pc[r] /\ a.rank = r)
    <3>1. j \in a.no + 1 .. pc[a.rank] - 1
      BY <1>1, <1>2, <1>3, <2>2
    <3> QED BY <3>1 DEF Called
  <2> QED BY <2>1, <2>2
<1>5. /\ OpOf(a)' = OpOf(a) /\ Opening(a)' = Opening(a) /\ Opening(a) \in 1 .. MaxOpen
  BY <1>1 DEF OpOf, Opening, Called
<1>6. c.access # "no" /\ c.fpointer = "SHARED" => a.at + a.n <= shared'[Opening(a)].at
  BY <1>2, <1>5 DEF Called
<1> QED BY <1>1, <1>4, <1>5, <1>6 DEF Called

(***************************************************************************)
(* A rank that opens or closes its file has no access on its way.          *)
(***************************************************************************)
LEMMA NoneCalled ==
  ASSUME TInv, PendingHolds, NEW r \in Procs, Opened(r) \/ Closed(r)
  PROVE  \A a \in pending : a.rank # r
<1> SUFFICES ASSUME NEW a \in pending, a.rank = r PROVE FALSE
  OBVIOUS
<1>1. ~ Finished(r) /\ UsedRight
  BY UsedRightFrom DEF Opened, Closed, At, TInv
<1>2. FAllowed(r, Op(r)) /\ Called(a)
  BY <1>1 DEF UsedRight, PendingHolds
<1>3. CASE Opened(r)
  <2>1. ~ handle[r].open
    BY <1>2, <1>3 DEF Opened, At, FAllowed
  <2> QED BY <1>2, <2>1 DEF Called
<1>4. CASE Closed(r)
  <2>1. Waiting(r, "write") = {} /\ Waiting(r, "read") = {}
    BY <1>2, <1>4 DEF Closed, At, FAllowed
  <2>2. a.kind \in {"write", "read"}
    BY <1>2 DEF Called, IsAccess
  <2> QED BY <2>1, <2>2 DEF Waiting
<1> QED BY <1>3, <1>4

LEMMA ApartStays ==
  ASSUME PendingOnce, SharedApart, c' = c, pending' \subseteq pending
  PROVE  PendingOnce' /\ SharedApart'
<1>1. PendingOnce'
  BY DEF PendingOnce
<1>2. \A a : Opening(a)' = Opening(a)
  BY DEF Opening
<1>3. SharedApart'
  BY <1>2 DEF SharedApart, Overlap
<1> QED BY <1>1, <1>3

LEMMA PendingStays ==
  ASSUME TInv, PendingHolds, PendingOnce, SharedApart, NEW r \in Procs, ~ Finished(r), Advance(r),
         pending' = pending, shared' = shared,
         \A a \in pending : /\ Op(r).do = "closed" => a.rank # r
                            /\ handle'[a.rank].open = handle[a.rank].open
                            /\ handle'[a.rank].no = handle[a.rank].no
  PROVE  PendingHolds' /\ PendingOnce' /\ SharedApart'
<1>1. \A g \in 1 .. MaxOpen : /\ shared[g].at \in Nat /\ shared'[g].at \in Nat
                              /\ shared[g].at <= shared'[g].at
  BY DEF TInv, SharedTyped
<1>2. ASSUME NEW a \in pending PROVE Called(a)'
  <2>1. Called(a)
    BY DEF PendingHolds
  <2> QED BY <1>1, <2>1, CalledStays
<1>3. PendingHolds'
  BY <1>2 DEF PendingHolds
<1> QED BY <1>3, ApartStays DEF Advance

(***************************************************************************)
(* An access that is called.                                               *)
(***************************************************************************)
LEMMA PendingAccess ==
  ASSUME TInv, Placed(c), PointersHold, PendingHolds, PendingOnce, SharedApart,
         NEW r \in Procs, AccessFile(r)
  PROVE  PendingHolds' /\ PendingOnce' /\ SharedApart'
<1> DEFINE op == Op(r)
           no == handle[r].no
<1>1. PICK a : /\ pending' = IF op.n > 0 THEN pending \cup {a} ELSE pending
               /\ a.kind = op.do /\ a.rank = r /\ a.no = pc[r] /\ a.file = Name(c, r)
               /\ a.at = AccessPlace(r) /\ a.n = op.n
  <2>1. PICK cells : pending' = IF op.n > 0
                                THEN pending \cup {Accessed(r, AccessPlace(r), cells)}
                                ELSE pending
    BY AccessMade
  <2> DEFINE b == Accessed(r, AccessPlace(r), cells)
  <2>2. /\ b.kind = op.do /\ b.rank = r /\ b.no = pc[r] /\ b.file = Name(c, r)
        /\ b.at = AccessPlace(r) /\ b.n = op.n
    BY DEF Accessed, Mine
  <2>3. pending' = IF op.n > 0 THEN pending \cup {b} ELSE pending
    BY <2>1
  <2> HIDE DEF b
  <2> QED BY <2>2, <2>3
<1>4. /\ ~ Finished(r) /\ Advance(r) /\ op.do \in {"write", "read"}
      /\ handle' = [handle EXCEPT ![r].calls = @ + 1]
      /\ shared' = IF Sharing(op)
                   THEN [shared EXCEPT ![no] = [at |-> @.at + op.n, calls |-> @.calls + 1]]
                   ELSE shared
  BY DEF AccessFile, Sharing
<1>5. /\ c' = c /\ Procs' = Procs /\ pc[r] \in 1 .. Len(c.prog[r])
      /\ \A q \in Procs : pc'[q] = IF q = r THEN pc[q] + 1 ELSE pc[q]
  BY <1>4, PointersMove DEF TInv
<1>6. op.n \in Nat /\ Now(r).no \in 1 .. MaxOpen
  BY <1>4, OpAllowed DEF WellFormed, TInv
<1>7. handle \in [Procs -> HandleSet] /\ no = Now(r).no /\ no = PNow(r).no
  BY DEF TInv, UInv, IInv, HoldsNow, PointersHold
<1>8. handle[r].open
  <2>1. FAllowed(r, op)
    BY <1>4, UsedRightFrom DEF TInv, UsedRight
  <2> QED BY <1>4, <2>1 DEF FAllowed
<1>9. \A q \in Procs : handle'[q].open = handle[q].open /\ handle'[q].no = handle[q].no
  BY <1>4, <1>7 DEF HandleSet
<1>10. ASSUME NEW g \in 1 .. MaxOpen
       PROVE  /\ shared[g].at \in Nat /\ shared'[g].at \in Nat /\ shared[g].at <= shared'[g].at
              /\ g = no /\ Sharing(op) => shared'[g].at = shared[g].at + op.n
  <2>1. shared[g].at \in Nat
    BY DEF TInv, SharedTyped
  <2>2. shared'[g].at = IF g = no /\ Sharing(op) THEN shared[g].at + op.n ELSE shared[g].at
    BY <1>4 DEF TInv, SharedTyped
  <2> QED BY <1>6, <2>1, <2>2
<1>11. ASSUME NEW b \in pending PROVE Called(b) /\ Called(b)'
  <2>1. Called(b) /\ b.rank \in Procs
    BY DEF PendingHolds, TInv, PendingTyped
  <2>2. op.do # "closed"
    BY <1>4
  <2> QED BY <1>4, <1>9, <1>10, <2>1, <2>2, CalledStays
<1>12. OpOf(a) = op /\ Opening(a) = no /\ no \in 1 .. MaxOpen
  BY <1>1, <1>6, <1>7 DEF OpOf, Opening, PNow, Op
<1>13. ASSUME op.n > 0 PROVE Called(a)'
  <2>1. PlacedAt(c, r, pc[r]) /\ c.prog[r][pc[r]] = op
    BY <1>5 DEF Placed, Procs, Op
  <2>2. IsAccess(op)
    BY <1>4, <1>13 DEF IsAccess
  <2>3. OpOf(a)' = op /\ Opening(a)' = no
    BY <1>5, <1>12 DEF OpOf, Opening
  <2>4. \A j \in a.no + 1 .. pc'[r] - 1 : c.prog[r][j].do # "closed"
    BY <1>1, <1>5
  <2>5. ASSUME c.access # "no", c.fpointer = "SHARED" PROVE a.at + a.n <= shared'[no].at
    <3>1. Sharing(op)
      BY <2>1, <2>2, <2>5 DEF PlacedAt, SharedPart
    <3>2. a.at = shared[no].at
      BY <1>1, <3>1 DEF AccessPlace, Sharing
    <3> QED BY <1>1, <1>6, <1>10, <1>12, <3>1, <3>2
  <2>6. ASSUME c.access # "no", c.fpointer # "SHARED"
        PROVE  a.at = InView(c, r, Block(c, r, pc[r]))
    <3>1. OwnPart(c, r, pc[r])
      BY <2>1, <2>2, <2>6 DEF PlacedAt
    <3>2. CASE op.by = "indv"
      <4>1. Block(c, r, pc[r]) = handle[r].calls
        BY <2>1, <3>2 DEF Block, PointersHold, PNow
      <4> QED BY <1>1, <3>2, <4>1 DEF AccessPlace
    <3>3. CASE op.by = "explicit"
      <4>1. op.offset = InView(c, r, Block(c, r, pc[r]))
        BY <2>1, <3>1, <3>3 DEF OwnPart
      <4> QED BY <1>1, <3>3, <4>1 DEF AccessPlace
    <3> QED BY <2>1, <3>1, <3>2, <3>3 DEF OwnPart
  <2>7. a.no # 0
    BY <1>1, <1>5
  <2> QED BY <1>1, <1>5, <1>8, <1>9, <1>12, <2>2, <2>3, <2>4, <2>5, <2>6, <2>7 DEF Called
<1>14. PendingHolds'
  BY <1>1, <1>11, <1>13 DEF PendingHolds
<1>15. ASSUME NEW b \in pending PROVE b.rank # r \/ b.no # pc[r]
  <2>1. b.rank \in Procs /\ b.no \in Nat /\ b.no < pc[b.rank]
    BY DEF TInv, PendingTyped
  <2> QED BY <1>5, <2>1
<1>16. PendingOnce'
  BY <1>1, <1>15 DEF PendingOnce
<1>17. ASSUME c.access # "no", c.fpointer = "SHARED", op.n > 0,
              NEW b \in pending, Opening(b) = no
       PROVE  ~ Overlap(a, b) /\ ~ Overlap(b, a)
  <2>1. PlacedAt(c, r, pc[r]) /\ c.prog[r][pc[r]] = op
    BY <1>5 DEF Placed, Procs, Op
  <2>2. Sharing(op)
    BY <1>4, <1>17, <2>1 DEF PlacedAt, SharedPart, IsAccess
  <2>3. a.at = shared[no].at
    BY <1>1, <2>2 DEF AccessPlace, Sharing
  <2>4. b.at + b.n <= shared[no].at
    BY <1>11, <1>17 DEF Called
  <2>5. b.at \in Nat /\ b.n \in Nat /\ shared[no].at \in Nat
    BY <1>10, <1>12 DEF TInv, PendingTyped
  <2> QED BY <2>3, <2>4, <2>5 DEF Overlap
<1>18. SharedApart'
  <2>1. \A b : Opening(b)' = Opening(b)
    BY <1>5 DEF Opening
  <2> SUFFICES ASSUME c.access # "no", c.fpointer = "SHARED",
                      NEW b \in pending', NEW d \in pending', b # d, Opening(b) = Opening(d)
               PROVE  ~ Overlap(b, d)
    BY <1>5, <2>1 DEF SharedApart, Overlap
  <2>2. CASE b \in pending /\ d \in pending
    BY <2>2 DEF SharedApart
  <2>3. CASE ~ (b \in pending /\ d \in pending)
    BY <1>1, <1>12, <1>17, <2>3
  <2> QED BY <2>2, <2>3
<1> QED BY <1>14, <1>16, <1>18

LEMMA StepPInv ==
  ASSUME PInv, NEW r \in Procs, FStep(r) \/ (Step(r) /\ UNCHANGED ioVars)
  PROVE  PInv'
<1>1. TInv /\ UInv /\ Placed(c) /\ PointersHold /\ PendingHolds /\ PendingOnce /\ SharedApart
      /\ FilesMade /\ handle \in [Procs -> HandleSet] /\ \A a \in pending : a.rank \in Procs
  BY DEF PInv, TInv, UInv, IInv, HoldsNow, PendingTyped
<1>2. TInv'
  BY <1>1, StepTypes, FStepTypes
<1>3. CASE Still(r)
  <2>1. /\ ~ Finished(r) /\ Advance(r) /\ UNCHANGED <<files, handle, shared, pending>>
        /\ Op(r).do \notin {"opened", "closed", "delete", "create", "write", "read"}
    BY <1>3 DEF Still
  <2>2. PointersHold' /\ FilesMade'
    BY <1>1, <2>1, PointersStay, FilesStay
  <2>3. PendingHolds' /\ PendingOnce' /\ SharedApart'
    BY <1>1, <2>1, PendingStays
  <2> QED BY <1>1, <1>2, <2>1, <2>2, <2>3 DEF PInv, Advance
<1>4. CASE Opened(r)
  <2>1. /\ ~ Finished(r) /\ Advance(r) /\ UNCHANGED <<shared, pending>> /\ Op(r).do = "opened"
        /\ handle' = [handle EXCEPT ![r] = [open |-> TRUE, no |-> @.no + 1, calls |-> 0]]
        /\ files' = [files EXCEPT ![Mine(r)].there = TRUE]
    BY <1>4 DEF Opened, At
  <2>2. PointersHold'
    BY <1>1, <1>4, PointersOpened
  <2>3. \A name \in DOMAIN files : files'[name].bytes = files[name].bytes
    BY <2>1
  <2>4. FilesMade'
    BY <1>1, <2>1, <2>3, FilesStay
  <2>5. \A a \in pending : a.rank # r
    BY <1>1, <1>4, NoneCalled
  <2>6. \A a \in pending : handle'[a.rank] = handle[a.rank]
    BY <1>1, <2>1, <2>5
  <2>7. PendingHolds' /\ PendingOnce' /\ SharedApart'
    BY <1>1, <2>1, <2>5, <2>6, PendingStays
  <2> QED BY <1>1, <1>2, <2>1, <2>2, <2>4, <2>7 DEF PInv, Advance
<1>5. CASE Closed(r)
  <2>1. /\ ~ Finished(r) /\ Advance(r) /\ UNCHANGED <<files, shared, pending>>
        /\ Op(r).do = "closed" /\ handle' = [handle EXCEPT ![r].open = FALSE]
    BY <1>5 DEF Closed, At
  <2>2. \A q \in Procs : handle'[q].no = handle[q].no /\ handle'[q].calls = handle[q].calls
    BY <1>1, <2>1 DEF HandleSet
  <2>3. PointersHold' /\ FilesMade'
    BY <1>1, <2>1, <2>2, PointersStay, FilesStay
  <2>4. \A a \in pending : a.rank # r
    BY <1>1, <1>5, NoneCalled
  <2>5. \A a \in pending : handle'[a.rank] = handle[a.rank]
    BY <1>1, <2>1, <2>4
  <2>6. PendingHolds' /\ PendingOnce' /\ SharedApart'
    BY <1>1, <2>1, <2>4, <2>5, PendingStays
  <2> QED BY <1>1, <1>2, <2>1, <2>3, <2>6 DEF PInv, Advance
<1>6. CASE Delete(r) \/ Create(r)
  <2>1. /\ ~ Finished(r) /\ Advance(r) /\ UNCHANGED <<handle, shared, pending>>
        /\ Op(r).do \in {"delete", "create"}
    BY <1>6 DEF Delete, Create, At
  <2>2. PICK f : /\ files' = [files EXCEPT ![Mine(r)] = f]
                 /\ Op(r).do = "create" => Op(r).total <= Length(f.bytes)
    <3>1. CASE Delete(r)
      BY <3>1 DEF Delete, At
    <3>2. CASE Create(r)
      <4> DEFINE content == [i \in 0 .. Op(r).total - 1 |->
                               IF Op(r).filled THEN Cell({0}, i) ELSE Junk]
                 f == [there |-> TRUE, bytes |-> content]
      <4>1. files' = [files EXCEPT ![Mine(r)] = f] /\ Op(r).do = "create"
        BY <3>2 DEF Create, At
      <4>2. Op(r).total \in Nat
        BY <1>1, <2>1, <4>1, OpAllowed DEF WellFormed
      <4>3. Length(f.bytes) = Op(r).total
        BY <4>2, BytesLength
      <4>4. Op(r).total <= Length(f.bytes)
        BY <4>2, <4>3
      <4> HIDE DEF f
      <4> QED BY <4>1, <4>4
    <3> QED BY <1>6, <3>1, <3>2
  <2>3. PointersHold' /\ FilesMade'
    BY <1>1, <2>1, <2>2, PointersStay, FilesShaped DEF Shapes
  <2>4. PendingHolds' /\ PendingOnce' /\ SharedApart'
    BY <1>1, <2>1, PendingStays
  <2> QED BY <1>1, <1>2, <2>1, <2>3, <2>4 DEF PInv, Advance
<1>7. CASE AccessFile(r)
  <2>1. /\ ~ Finished(r) /\ Advance(r) /\ files' = files /\ Op(r).do \in {"write", "read"}
    BY <1>7 DEF AccessFile
  <2>2. PointersHold'
    BY <1>1, <1>7, PointersAccess DEF TInv
  <2>3. FilesMade'
    BY <1>1, <2>1, FilesStay
  <2>4. PendingHolds' /\ PendingOnce' /\ SharedApart'
    BY <1>1, <1>7, PendingAccess
  <2> QED BY <1>1, <1>2, <2>1, <2>2, <2>3, <2>4 DEF PInv, Advance
<1> QED BY <1>3, <1>4, <1>5, <1>6, <1>7, StillStep DEF FStep

LEMMA LandPInv ==
  ASSUME PInv, UInv',
         \/ UNCHANGED <<vars, ioVars>>
         \/ UNCHANGED ioVars /\ \E x \in flying : Land(x)
         \/ \E x \in pending : LandInFile(x)
  PROVE  PInv'
<1>1. TInv /\ UInv /\ TInv'
  BY LandTypes DEF PInv, TInv
<1>2. /\ UNCHANGED <<c, pc, handle, shared>> /\ pending' \subseteq pending /\ Procs' = Procs
  BY Zenon DEF vars, ioVars, Land, LandInFile, Same, Procs
<1>3. PointersHold'
  <2>1. \A q \in Procs : (PNow(q))' = PNow(q)
    BY <1>2 DEF PNow
  <2>2. \A g \in 1 .. MaxOpen :
          [q \in Procs |-> (PNow(q))'.moved[g]] = [q \in Procs |-> PNow(q).moved[g]]
    BY <2>1
  <2> QED BY <1>2, <2>1, <2>2 DEF PInv, PointersHold
<1>4. PendingHolds'
  <2>1. ASSUME NEW a, Called(a) PROVE Called(a)'
    BY <1>2, <2>1 DEF Called, OpOf, Opening
  <2> QED BY <1>2, <2>1 DEF PInv, PendingHolds
<1>5. PendingOnce' /\ SharedApart'
  BY <1>2, ApartStays DEF PInv
<1>6. FilesMade'
  <2>1. CASE files' = files
    BY <1>2, <2>1 DEF PInv, FilesMade
  <2>2. CASE files' # files
    <3>1. PICK x \in pending : files' = [files EXCEPT ![x.file].bytes = Written(@, x)]
      BY <2>2 DEF vars, ioVars, LandInFile
    <3>2. x.at \in Nat /\ x.n \in Nat
      BY <1>1 DEF TInv, PendingTyped
    <3>3. ASSUME NEW name \in DOMAIN files
          PROVE  /\ Length(files[name].bytes) \in Nat /\ Length(files'[name].bytes) \in Nat
                 /\ Length(files[name].bytes) <= Length(files'[name].bytes)
      <4>1. /\ "bytes" \in DOMAIN files[name]
            /\ \E m \in Nat : DOMAIN files[name].bytes = 0 .. m - 1
        BY <1>1 DEF TInv, FilesTyped
      <4>2. PICK m \in Nat : DOMAIN files[name].bytes = 0 .. m - 1
        BY <4>1
      <4>3. Length(files[name].bytes) = m
        BY <4>2, BytesLength
      <4>4. CASE name = x.file
        <5> DEFINE w == Most(m, x.at + x.n)
        <5>1. w \in Nat /\ m <= w
          BY <3>2 DEF Most
        <5>2. files'[name].bytes = Written(files[name].bytes, x)
          BY <3>1, <4>1, <4>4
        <5>3. DOMAIN Written(files[name].bytes, x) = 0 .. w - 1
          BY <4>3 DEF Written
        <5>4. Length(Written(files[name].bytes, x)) = w
          BY <5>1, <5>3, BytesLength
        <5> QED BY <4>3, <5>1, <5>2, <5>4
      <4>5. CASE name # x.file
        <5>1. files'[name] = files[name]
          BY <3>1, <4>5
        <5> QED BY <4>3, <5>1
      <4> QED BY <4>4, <4>5
    <3>4. DOMAIN files' = DOMAIN files
      BY <3>1
    <3> QED BY <1>1, <1>2, <3>3, <3>4, FilesLand DEF PInv
  <2> QED BY <2>1, <2>2
<1> QED BY <1>1, <1>2, <1>3, <1>4, <1>5, <1>6 DEF PInv

LEMMA NextPInv ==
  ASSUME PInv, [Next]_<<vars, ioVars>>
  PROVE  PInv'
<1>1. UInv'
  BY NextUInv DEF PInv, TInv
<1> QED BY <1>1, StepPInv, LandPInv DEF Next, Progress, InFiles

LEMMA SumZero ==
  ASSUME NEW n \in Nat, NEW f, \A i \in 0 .. n - 1 : f[i] = 0
  PROVE  SumTo(f, n) = 0
<1>1. PICK s : Sums(f, n, s) /\ SumTo(f, n) = s[n]
  BY SumAs
<1> DEFINE N == {i \in Nat : i <= n => s[i] = 0}
<1>2. 0 \in N
  BY <1>1 DEF Sums
<1>3. ASSUME NEW i \in Nat, i \in N PROVE i + 1 \in N
  <2> SUFFICES ASSUME i + 1 <= n PROVE s[i + 1] = 0
    OBVIOUS
  <2>1. s[i] = 0 /\ i + 1 \in 0 .. n /\ i + 1 # 0 /\ (i + 1) - 1 = i /\ i \in 0 .. n - 1
    BY <1>3
  <2>2. s[i + 1] = s[i] + f[i]
    BY <1>1, <2>1 DEF Sums
  <2> QED BY <2>1, <2>2
<1> HIDE DEF N
<1>4. n \in N
  BY <1>2, <1>3, Induction
<1> QED BY <1>1, <1>4 DEF N

LEMMA InitPInv ==
  ASSUME FInit, \A i \in DOMAIN Setups : Sound(Setups[i]) /\ Placed(Setups[i])
  PROVE  PInv
<1>1. TInv /\ Placed(c) /\ pc = [r \in Procs |-> 1] /\ pending = {} /\ UInv
  BY InitTInv DEF FInit, Init, TInv
<1>2. ASSUME NEW r \in Procs PROVE PNow(r) = AtFirst
  <2>1. Len(c.prog[r]) \in Nat
    BY <1>1, NowTyped
  <2> QED BY <1>1, <2>1, PointersAre DEF PNow
<1>3. PointersHold
  <2>1. AtFirst.no = 0 /\ AtFirst.calls = 0 /\ \A g \in 1 .. MaxOpen : AtFirst.moved[g] = 0
    BY DEF AtFirst
  <2>2. \A r \in Procs : handle[r].no = 0 /\ handle[r].calls = 0
    BY DEF FInit
  <2>3. ASSUME NEW g \in 1 .. MaxOpen
        PROVE  shared[g].at = SumTo([r \in Procs |-> PNow(r).moved[g]], c.np)
    <3>1. shared[g].at = 0
      BY DEF FInit
    <3> DEFINE f == [r \in Procs |-> PNow(r).moved[g]]
    <3>2. c.np \in Nat /\ Procs = 0 .. c.np - 1
      BY <1>1 DEF UInv, Sound, Procs, Ranks
    <3>3. \A i \in 0 .. c.np - 1 : f[i] = 0
      BY <1>2, <2>1, <3>2
    <3> HIDE DEF f
    <3>4. SumTo(f, c.np) = 0
      BY <3>2, <3>3, SumZero
    <3> QED BY <3>1, <3>4 DEF f
  <2> QED BY <1>2, <2>1, <2>2, <2>3 DEF PointersHold
<1>4. PendingHolds /\ PendingOnce /\ SharedApart
  BY <1>1 DEF PendingHolds, PendingOnce, SharedApart
<1>5. FilesMade
  <2>1. DOMAIN files = Procs \cup {Common}
    BY DEF FInit
  <2>2. \A q \in Procs : \A j \in 1 .. Len(c.prog[q]) : ~ (j < pc[q])
    BY <1>1
  <2> QED BY <2>1, <2>2 DEF FilesMade
<1> QED BY <1>1, <1>3, <1>4, <1>5 DEF PInv

-----------------------------------------------------------------------------
(***************************************************************************)
(* A rank's part lies in its block, and apart from the parts of others.    *)
(***************************************************************************)
LEMMA PortionEnds ==
  ASSUME NEW rank \in Nat, NEW NP \in Nat \ {0}, NEW size \in Nat,
         Portion(rank, NP, size, asize) > 0
  PROVE  /\ Pos1(rank, NP, size, asize) + Portion(rank, NP, size, asize) <= size
         /\ Pos2(rank, NP, size, asize)
              = Pos1(rank, NP, size, asize) + Portion(rank, NP, size, asize) - 1
         /\ rank < NP
<1> DEFINE ne == Ceiling(size, asize)
           b == ne \div NP
           m == ne % NP
           units == IF rank < m THEN b + 1 ELSE b
           at == Pos1(rank, NP, size, asize)
           end == Pos2(rank, NP, size, asize)
<1>1. ne \in Nat /\ size <= ne * 2
  BY CeilingAbove DEF asize
<1>2. end = Least(at - 1 + units * 2, size - 1)
  BY DEF Pos2, asize
<1>3. at = IF rank < m THEN rank * (b + 1) * 2 ELSE (rank * b + m) * 2
  BY DEF Pos1, asize
<1>4. at \in Nat
  BY PortionNat
<1>5. Portion(rank, NP, size, asize) = Most(0, end - at + 1)
  BY DEF Portion
<1> HIDE DEF ne
<1>6. b \in Nat /\ m \in 0 .. NP - 1 /\ ne = NP * b + m
  BY <1>1, Quotient
<1> HIDE DEF b, m, at, end
<1>7. end \in Int /\ end <= size - 1
  BY <1>2, <1>4, <1>6 DEF Least
<1>8. Portion(rank, NP, size, asize) = end - at + 1
  BY <1>4, <1>5, <1>7 DEF Most
<1>9. rank < NP
  <2> SUFFICES ASSUME NP <= rank PROVE FALSE
    OBVIOUS
  <2>1. at = (rank * b + m) * 2
    BY <1>3, <1>6
  <2>2. NP * b <= rank * b /\ NP * b \in Nat /\ rank * b \in Nat
    BY <1>6
  <2>3. size <= at
    BY <1>1, <1>6, <2>1, <2>2
  <2> QED BY <1>4, <1>7, <1>8, <2>3
<1> QED BY <1>4, <1>7, <1>8, <1>9 DEF at, end

LEMMA PartInBlock ==
  ASSUME NEW x, NEW r \in Ranks(x), x.np \in Nat \ {0}, x.size \in Nat, File_rank(x, r) \in Nat,
         Locsize(x, r) > 0
  PROVE  /\ Offset(x, r) \in Nat /\ Locsize(x, r) \in Nat /\ Totalsize(x, r) \in Nat
         /\ Offset(x, r) + Locsize(x, r) <= Totalsize(x, r)
<1>1. all_io_procs(x) \in Nat \ {0}
  BY DEF all_io_procs
<1>2. /\ Locsize(x, r) \in Nat
      /\ Pos1(File_rank(x, r), all_io_procs(x), x.size, asize) \in Nat
      /\ Pos1(File_rank(x, r), all_io_procs(x), x.size, asize) + Locsize(x, r) <= x.size
  BY <1>1, PortionNat, PortionEnds DEF Locsize
<1> QED BY <1>2 DEF Offset, Totalsize

LEMMA PartsApart ==
  ASSUME NEW x, NEW r \in Ranks(x), NEW q \in Ranks(x), r # q, x.fpointer # priv,
         x.np \in Nat \ {0}, x.size \in Nat, Locsize(x, r) > 0, Locsize(x, q) > 0
  PROVE  \/ Offset(x, r) + Locsize(x, r) <= Offset(x, q)
         \/ Offset(x, q) + Locsize(x, q) <= Offset(x, r)
<1> DEFINE NP == all_io_procs(x)
           Low(p) == Pos1(p, NP, x.size, asize)
           High(p) == Pos2(p, NP, x.size, asize)
<1>1. NP \in Nat \ {0}
  BY DEF all_io_procs
<1>2. r \in Nat /\ q \in Nat
  BY DEF Ranks
<1>3. \A p \in {r, q} : /\ Offset(x, p) = Low(p) /\ Locsize(x, p) = Portion(p, NP, x.size, asize)
  BY DEF Offset, Locsize, File_rank
<1> HIDE DEF NP
<1>4. ASSUME NEW p \in {r, q}
      PROVE  /\ Offset(x, p) \in Nat /\ Locsize(x, p) \in Nat
             /\ Low(p) + Locsize(x, p) <= x.size
             /\ High(p) = Low(p) + Locsize(x, p) - 1 /\ p \in 0 .. NP - 1
  <2>1. p \in Nat /\ Portion(p, NP, x.size, asize) > 0
    BY <1>2, <1>3
  <2>2. Offset(x, p) \in Nat /\ Locsize(x, p) \in Nat
    <3>1. Low(p) \in Nat /\ Portion(p, NP, x.size, asize) \in Nat
      BY <1>1, <2>1, PortionNat
    <3> QED BY <1>3, <3>1
  <2>3. /\ Low(p) + Locsize(x, p) <= x.size
        /\ High(p) = Low(p) + Locsize(x, p) - 1 /\ p < NP
    BY <1>1, <1>3, <2>1, PortionEnds
  <2> QED BY <1>1, <2>1, <2>2, <2>3
<1> SUFFICES ASSUME Offset(x, q) < Offset(x, r) + Locsize(x, r),
                    Offset(x, r) < Offset(x, q) + Locsize(x, q)
             PROVE  FALSE
  BY <1>4
<1> DEFINE i == IF Low(r) <= Low(q) THEN Low(q) ELSE Low(r)
<1>5. /\ i \in 0 .. x.size - 1 /\ Low(r) <= i /\ i <= High(r) /\ Low(q) <= i /\ i <= High(q)
  <2> HIDE DEF Low, High
  <2> QED BY <1>3, <1>4
<1>6. asize \in Nat \ {0}
  BY DEF asize
<1> HIDE DEF i
<1>7. PICK rank \in 0 .. NP - 1 : \A p \in 0 .. NP - 1 : Low(p) <= i /\ i <= High(p) => p = rank
  BY <1>1, <1>5, <1>6, PortionsTile
<1> QED BY <1>4, <1>5, <1>7

LEMMA BlocksApart ==
  ASSUME NEW t \in Nat, NEW a \in Nat, NEW la \in Nat, NEW b \in Nat, a + la <= t,
         NEW m \in Nat, NEW n \in Nat, m < n
  PROVE  (a + m * t) + la <= b + n * t
<1>1. m * t \in Nat /\ n * t \in Nat /\ (m + 1) * t <= n * t /\ (m + 1) * t = m * t + t
  OBVIOUS
<1> QED BY <1>1

LEMMA OwnApart ==
  ASSUME NEW x, NEW r \in Ranks(x), NEW q \in Ranks(x), Name(x, r) = Name(x, q),
         NEW m \in Nat, NEW n \in Nat, r # q \/ m # n,
         x.np \in Nat \ {0}, x.size \in Nat, File_rank(x, r) \in Nat, File_rank(x, q) \in Nat,
         Locsize(x, r) > 0, Locsize(x, q) > 0
  PROVE  \/ InView(x, r, m) + Locsize(x, r) <= InView(x, q, n)
         \/ InView(x, q, n) + Locsize(x, q) <= InView(x, r, m)
<1> DEFINE t == Totalsize(x, r)
<1>1. /\ Offset(x, r) \in Nat /\ Locsize(x, r) \in Nat /\ t \in Nat
      /\ Offset(x, r) + Locsize(x, r) <= t
      /\ Offset(x, q) \in Nat /\ Locsize(x, q) \in Nat
      /\ Offset(x, q) + Locsize(x, q) <= Totalsize(x, q)
  BY PartInBlock
<1>2. Totalsize(x, q) = t
  BY DEF Name, Totalsize, Ranks
<1> HIDE DEF t
<1>3. InView(x, r, m) = Offset(x, r) + m * t /\ InView(x, q, n) = Offset(x, q) + n * t
  BY <1>2 DEF InView, t
<1>4. CASE m < n
  BY <1>1, <1>3, <1>4, BlocksApart
<1>5. CASE n < m
  BY <1>1, <1>2, <1>3, <1>5, BlocksApart
<1>6. CASE m = n
  <2>1. r # q /\ x.fpointer # priv
    BY <1>6 DEF Name
  <2>2. \/ Offset(x, r) + Locsize(x, r) <= Offset(x, q)
        \/ Offset(x, q) + Locsize(x, q) <= Offset(x, r)
    BY <2>1, PartsApart
  <2>3. m * t \in Nat
    BY <1>1
  <2> HIDE DEF t
  <2> QED BY <1>1, <1>3, <1>6, <2>2, <2>3
<1> QED BY <1>4, <1>5, <1>6

-----------------------------------------------------------------------------
(***************************************************************************)
(* What is known of an access on its way.                                  *)
(***************************************************************************)
LEMMA CalledFacts ==
  ASSUME PInv, NEW a \in pending
  PROVE  /\ Called(a) /\ PlacedAt(c, a.rank, a.no) /\ IsAccess(OpOf(a))
         /\ a.rank \in Procs /\ a.no \in 1 .. pc[a.rank] - 1
         /\ a.no \in 1 .. Len(c.prog[a.rank]) /\ Len(c.prog[a.rank]) \in Nat
         /\ pc[a.rank] \in 1 .. Len(c.prog[a.rank]) + 1
         /\ a.at \in Nat /\ a.n \in Nat /\ a.n > 0 /\ a.kind \in {"write", "read"}
         /\ a.kind = OpOf(a).do
         /\ File_rank(c, a.rank) \in Nat /\ c.size \in Nat /\ c.np \in Nat \ {0}
<1>1. /\ UInv /\ Called(a) /\ a.rank \in Procs /\ a.no \in Nat /\ a.no < pc[a.rank]
      /\ a.at \in Nat /\ a.n \in Nat
  BY DEF PInv, TInv, PendingTyped, PendingHolds
<1>2. /\ pc[a.rank] \in 1 .. Len(c.prog[a.rank]) + 1 /\ Len(c.prog[a.rank]) \in Nat
      /\ OnlyAllowed(c, a.rank)
  BY <1>1, NowTyped
<1>3. a.no \in 1 .. pc[a.rank] - 1 /\ a.no \in 1 .. Len(c.prog[a.rank])
  BY <1>1, <1>2 DEF Called
<1>4. IsAccess(OpOf(a)) /\ a.kind \in {"write", "read"} /\ a.n > 0 /\ a.kind = OpOf(a).do
  BY <1>1 DEF Called, IsAccess
<1>5. PlacedAt(c, a.rank, a.no)
  BY <1>1, <1>3 DEF PInv, Placed, Procs
<1>6. File_rank(c, a.rank) \in Nat /\ c.size \in Nat
  <2>1. WellFormed(c, a.rank, States(c, a.rank)[a.no], OpOf(a))
    BY <1>2, <1>3 DEF OnlyAllowed, OpOf
  <2> QED BY <1>4, <2>1 DEF WellFormed
<1>7. c.np \in Nat \ {0}
  BY <1>1 DEF UInv, Sound
<1> QED BY <1>1, <1>2, <1>3, <1>4, <1>5, <1>6, <1>7

LEMMA ReadsInside ==
  ASSUME PInv, NEW a \in pending, a.kind = "read"
  PROVE  a.at + a.n <= Length(files[a.file].bytes)
<1> DEFINE r == a.rank
           q == Creator(c, r)
           end == EndOf(c, r, a.no)
<1>1. /\ Called(a) /\ PlacedAt(c, r, a.no) /\ IsAccess(OpOf(a)) /\ OpOf(a).do = "read"
      /\ r \in Procs /\ a.no \in 1 .. Len(c.prog[r]) /\ a.no \in 1 .. pc[r]
      /\ pc[r] \in 1 .. Len(c.prog[r]) + 1 /\ Len(c.prog[r]) \in Nat
      /\ a.at \in Nat /\ a.n \in Nat /\ c.np \in Nat \ {0}
  BY CalledFacts
<1>2. c.access # "no" /\ InCreated(c, r, a.no)
  BY <1>1 DEF PlacedAt, OpOf
<1>3. PICK j \in 1 .. Len(c.prog[q]) :
        Creates(c, q, j) /\ Past(c, r, a.no, q, j) /\ end <= c.prog[q][j].total
  BY <1>1, <1>2 DEF InCreated, OpOf
<1>4. q \in Procs /\ Creator(c, q) = q /\ Name(c, q) = a.file
  BY <1>1 DEF Creator, Name, Procs, Ranks, Called
<1>5. UInv /\ FilesMade /\ OnlyAllowed(c, q)
  BY <1>4, NowTyped DEF PInv, TInv
<1>6. j < pc[q]
  BY <1>1, <1>3, <1>4, <1>5, PastIs
<1>7. c.prog[q][j].total <= Length(files[a.file].bytes)
  BY <1>3, <1>4, <1>5, <1>6 DEF FilesMade
<1>8. c.prog[q][j].total \in Nat
  BY <1>3, <1>5, Zenon DEF OnlyAllowed, WellFormed, Creates
<1>9. Length(files[a.file].bytes) \in Nat
  <2>1. a.file \in DOMAIN files
    BY <1>4, <1>5 DEF FilesMade, Name
  <2>2. PICK m \in Nat : DOMAIN files[a.file].bytes = 0 .. m - 1
    BY <2>1 DEF PInv, TInv, FilesTyped
  <2> QED BY <2>2, BytesLength
<1>10. end \in Int /\ a.at + a.n <= end
  <2>1. CASE c.fpointer = "SHARED"
    <3> DEFINE g == Opening(a)
               now == [p \in Procs |-> PNow(p).moved[g]]
               all == [p \in Procs |-> PointersOf(c, p)[Len(c.prog[p]) + 1].moved[g]]
    <3>1. g \in 1 .. MaxOpen /\ a.at + a.n <= shared[g].at /\ shared[g].at = SumTo(now, c.np)
      BY <1>1, <1>2, <2>1 DEF Called, PInv, PointersHold
    <3>2. end = SumTo(all, c.np)
      BY <2>1 DEF EndOf, Volume, Opening, Procs
    <3>3. ASSUME NEW p \in Procs
          PROVE  now[p] \in Nat /\ all[p] \in Nat /\ now[p] <= all[p]
      <4>1. /\ OnlyAllowed(c, p) /\ pc[p] \in 1 .. Len(c.prog[p]) + 1 /\ Len(c.prog[p]) \in Nat
        BY <1>5, NowTyped
      <4> DEFINE e == Len(c.prog[p]) + 1
      <4>2. e \in 1 .. Len(c.prog[p]) + 1 /\ pc[p] \in 1 .. e
        BY <4>1
      <4>3. PNow(p) \in PointerSet /\ PointersOf(c, p)[e] \in PointerSet
        BY <4>1, <4>2, PointersTyped DEF PNow
      <4>4. \A i \in 1 .. MaxOpen : PNow(p).moved[i] <= PointersOf(c, p)[e].moved[i]
        BY <4>1, <4>2, PointersTyped DEF PNow
      <4> QED BY <3>1, <4>3, <4>4 DEF PointerSet
    <3>4. Procs = 0 .. c.np - 1 /\ c.np \in Nat
      BY <1>1 DEF Procs, Ranks
    <3>5. now \in [0 .. c.np - 1 -> Nat] /\ all \in [0 .. c.np - 1 -> Nat]
      BY <3>3, <3>4
    <3> HIDE DEF now, all, g, end
    <3>6. SumTo(now, c.np) \in Nat /\ SumTo(all, c.np) \in Nat
          /\ SumTo(now, c.np) <= SumTo(all, c.np)
      BY <3>3, <3>4, <3>5, SumBelow
    <3> QED BY <1>1, <3>1, <3>2, <3>6
  <2>2. CASE c.fpointer # "SHARED"
    <3>1. a.at = InView(c, r, Block(c, r, a.no)) /\ a.n = c.prog[r][a.no].n
      BY <1>1, <1>2, <2>2 DEF Called, OpOf
    <3>2. end = a.at + a.n
      BY <2>2, <3>1 DEF EndOf
    <3> QED BY <1>1, <3>2
  <2> QED BY <2>1, <2>2
<1> DEFINE total == c.prog[q][j].total
<1>11. /\ a.at + a.n <= end /\ end <= total /\ total <= Length(files[a.file].bytes)
       /\ a.at \in Nat /\ a.n \in Nat /\ end \in Int /\ total \in Nat
  BY <1>1, <1>3, <1>7, <1>8, <1>10
<1> HIDE DEF end, total
<1> QED BY <1>9, <1>11

(***************************************************************************)
(* Accesses with a rank's own pointer, and with an offset.                 *)
(***************************************************************************)
LEMMA OwnAccesses ==
  ASSUME PInv, c.access # "no", c.fpointer # "SHARED", NEW a \in pending, NEW b \in pending,
         a # b, "write" \in {a.kind, b.kind}, a.file = b.file
  PROVE  ~ Overlap(a, b)
<1> DEFINE m(y) == Block(c, y.rank, y.no)
<1>1. ASSUME NEW y \in {a, b}
      PROVE  /\ y.rank \in Procs /\ OwnPart(c, y.rank, y.no) /\ m(y) \in Nat
             /\ y.at = InView(c, y.rank, m(y)) /\ y.n = Locsize(c, y.rank) /\ y.n > 0
             /\ y.at \in Nat /\ y.n \in Nat /\ y.no \in Nat /\ y.no # 0
             /\ y.no \in 1 .. Len(c.prog[y.rank])
             /\ y.file = Name(c, y.rank) /\ handle[y.rank].no = Opening(y)
             /\ IsAccess(OpOf(y)) /\ y.kind = OpOf(y).do
             /\ File_rank(c, y.rank) \in Nat /\ c.size \in Nat /\ c.np \in Nat \ {0}
  <2>1. y \in pending
    OBVIOUS
  <2>2. Called(y) /\ PlacedAt(c, y.rank, y.no) /\ IsAccess(OpOf(y))
    BY <2>1, CalledFacts
  <2>3. OwnPart(c, y.rank, y.no)
    BY <2>2 DEF PlacedAt, OpOf
  <2>4. m(y) \in Nat /\ OpOf(y).n = Locsize(c, y.rank)
    BY <2>3 DEF OwnPart, OpOf
  <2>5. /\ y.at = InView(c, y.rank, m(y)) /\ y.n = OpOf(y).n /\ y.file = Name(c, y.rank)
        /\ handle[y.rank].no = Opening(y) /\ y.no # 0
    BY <2>2 DEF Called
  <2> HIDE DEF m
  <2> QED BY <2>1, <2>2, <2>3, <2>4, <2>5, CalledFacts
<1>2. ASSUME a.rank = b.rank PROVE m(a) # m(b)
  <2>1. a.no # b.no
    BY <1>2 DEF PInv, PendingOnce
  <2>2. ASSUME NEW y \in {a, b}, NEW z \in {a, b}, y.no < z.no PROVE m(y) # m(z)
    <3>1. y.no \in 1 .. z.no - 1 /\ OwnPart(c, z.rank, z.no) /\ y.rank = z.rank
      BY <1>1, <1>2, <2>2
    <3>2. /\ IsAccess(c.prog[z.rank][y.no])
          /\ Writes(c.prog[z.rank][y.no], c.prog[z.rank][z.no])
      <4>1. "write" \in {y.kind, z.kind}
        BY <1>1, <2>2
      <4>2. /\ IsAccess(OpOf(y)) /\ OpOf(y) = c.prog[z.rank][y.no]
            /\ OpOf(z) = c.prog[z.rank][z.no]
            /\ y.kind = OpOf(y).do /\ z.kind = OpOf(z).do
        BY <1>1, <3>1 DEF OpOf
      <4> QED BY <4>1, <4>2 DEF Writes
    <3>3. PointersOf(c, z.rank)[y.no].no = PointersOf(c, z.rank)[z.no].no
      BY <1>1, <3>1 DEF Opening
    <3> QED BY <3>1, <3>2, <3>3 DEF OwnPart
  <2>3. a.no < b.no \/ b.no < a.no
    BY <1>1, <2>1
  <2> QED BY <2>2, <2>3
<1>3. \/ a.at + a.n <= b.at
      \/ b.at + b.n <= a.at
  <2>1. a.rank \in Ranks(c) /\ b.rank \in Ranks(c) /\ Name(c, a.rank) = Name(c, b.rank)
    BY <1>1 DEF Procs
  <2> HIDE DEF m
  <2> QED BY <1>1, <1>2, <2>1, OwnApart
<1>4. a.at \in Nat /\ a.n \in Nat /\ b.at \in Nat /\ b.n \in Nat
  <2> HIDE DEF m
  <2> QED BY <1>1
<1> QED BY <1>3, <1>4 DEF Overlap

(***************************************************************************)
(* Accesses with the shared pointer.                                       *)
(***************************************************************************)
LEMMA LaterOpening ==
  ASSUME PInv, c.access # "no", c.fpointer = "SHARED", NEW a \in pending, NEW b \in pending,
         "write" \in {a.kind, b.kind}, Opening(a) < Opening(b)
  PROVE  FALSE
<1>1. /\ Called(a) /\ Called(b) /\ a.rank \in Procs /\ b.rank \in Procs
      /\ PlacedAt(c, b.rank, b.no) /\ IsAccess(OpOf(a)) /\ IsAccess(OpOf(b))
      /\ a.kind = OpOf(a).do /\ b.kind = OpOf(b).do
      /\ a.no \in 1 .. Len(c.prog[a.rank]) /\ b.no \in 1 .. pc[b.rank]
  BY CalledFacts
<1>2. a.rank # b.rank
  BY <1>1 DEF Called
<1>3. SharedPart(c, b.rank, b.no)
  BY <1>1 DEF PlacedAt, OpOf
<1>4. PICK i \in a.no + 1 .. Len(c.prog[a.rank]) :
        c.prog[a.rank][i].do = "closed" /\ Past(c, b.rank, b.no, a.rank, i)
  BY <1>1, <1>2, <1>3 DEF SharedPart, Writes, OpOf, Opening, Procs
<1>5. UInv /\ pc[a.rank] \in Nat /\ i \in 1 .. Len(c.prog[a.rank])
  BY <1>1, NowTyped DEF PInv, TInv
<1>6. i < pc[a.rank]
  BY <1>1, <1>4, <1>5, PastIs
<1>7. i \in a.no + 1 .. pc[a.rank] - 1
  BY <1>5, <1>6
<1> QED BY <1>1, <1>4, <1>7 DEF Called

LEMMA InsideFilesFrom ==
  ASSUME PInv
  PROVE  InsideFiles
<1>1. ASSUME NEW a \in pending, NEW b \in pending, a # b, "write" \in {a.kind, b.kind},
             c.access # "no"
      PROVE  ~ Overlap(a, b)
  <2>1. CASE a.file # b.file
    BY <2>1 DEF Overlap
  <2>2. CASE a.file = b.file /\ c.fpointer # "SHARED"
    BY <1>1, <2>2, OwnAccesses
  <2>3. CASE c.fpointer = "SHARED"
    <3>1. Opening(a) \in 1 .. MaxOpen /\ Opening(b) \in 1 .. MaxOpen
      BY DEF PInv, PendingHolds, Called
    <3>2. Opening(a) = Opening(b)
      BY <1>1, <2>3, <3>1, LaterOpening
    <3> QED BY <1>1, <2>3, <3>2 DEF PInv, SharedApart
  <2> QED BY <2>1, <2>2, <2>3
<1> QED BY <1>1, ReadsInside DEF InsideFiles

(***************************************************************************)
(* In every call whose programs, taken each for itself, are placed as they *)
(* should be (see Placed), what is read is in the file when it is read,    *)
(* and no two accesses that are on their way at the same time, one of them *)
(* a write, touch the same byte, however the ranks interleave.             *)
(***************************************************************************)
THEOREM InsideFilesAlways ==
  ASSUME \A i \in DOMAIN Setups : Sound(Setups[i]) /\ Placed(Setups[i])
  PROVE  Spec => []InsideFiles
<1>1. FInit => PInv
  BY InitPInv
<1>2. PInv /\ [Next]_<<vars, ioVars>> => PInv'
  BY NextPInv
<1>3. PInv => InsideFiles
  BY InsideFilesFrom
<1> QED BY <1>1, <1>2, <1>3, PTL DEF Spec

-----------------------------------------------------------------------------
(***************************************************************************)
(* Why files hold what was written, but with the shared pointer: a buffer  *)
(* that was set has the rank's values, so has a write on its way, and each *)
(* one before is on its way or in the file.                                *)
(***************************************************************************)
PutCall == Filling(c) /\ c.fpointer # "SHARED"

OwnValues(r) == Values(File_rank(c, r), 0, Locsize(c, r) - 1)
SetBefore(r, k) == \E j \in 1 .. k - 1 : c.prog[r][j].do = "set_buf"
IsWrite(r, k) == IsAccess(c.prog[r][k]) /\ c.prog[r][k].do = "write"
Place1(r, k) == InView(c, r, Block(c, r, k))

BuffersHold ==
  /\ flying = {} /\ mem = [r \in Procs |-> [s |-> mem[r].s, r |-> mem[r].r]]
  /\ \A r \in Procs :
       /\ Spans(mem[r].s, 0)
       /\ SetBefore(r, pc[r]) /\ Locsize(c, r) > 0
            => Bytes(mem[r].s, 0, Locsize(c, r)) = OwnValues(r)

CellsHold == \A a \in pending : a.kind = "write" => a.cells = OwnValues(a.rank)

WrittenHolds ==
  \A r \in Procs : \A k \in 1 .. pc[r] - 1 :
    IsWrite(r, k) => (\E a \in pending : a.rank = r /\ a.no = k) \/ PartAt(r, Place1(r, k))

Holding == BuffersHold /\ CellsHold /\ WrittenHolds

HInv == PInv /\ (PutCall => Holding)

(***************************************************************************)
(* What is asked of a write.                                               *)
(***************************************************************************)
LEMMA WriteFacts ==
  ASSUME PInv, PutCall, NEW r \in Procs, NEW k \in 1 .. Len(c.prog[r]), IsAccess(c.prog[r][k])
  PROVE  /\ OwnPart(c, r, k) /\ InCreated(c, r, k) /\ c.prog[r][k].n = Locsize(c, r)
         /\ Locsize(c, r) \in Nat /\ Locsize(c, r) > 0 /\ File_rank(c, r) \in Nat
         /\ Block(c, r, k) \in Nat /\ Place1(r, k) \in Nat /\ c.size \in Nat /\ c.np \in Nat \ {0}
         /\ IsWrite(r, k) => SetBefore(r, k)
<1>1. PlacedAt(c, r, k) /\ c.access # "no" /\ c.fpointer # "SHARED" /\ c.np \in Nat \ {0}
      /\ r \in Ranks(c)
  BY DEF PInv, Placed, Procs, PutCall, Filling, TInv, UInv, Sound
<1>2. OwnPart(c, r, k) /\ InCreated(c, r, k) /\ (IsWrite(r, k) => SetBefore(r, k))
  BY <1>1 DEF PlacedAt, IsWrite, SetBefore
<1>3. Block(c, r, k) \in Nat /\ c.prog[r][k].n = Locsize(c, r)
  BY <1>2 DEF OwnPart
<1>4. WellFormed(c, r, States(c, r)[k], c.prog[r][k])
  BY NowTyped DEF PInv, TInv, OnlyAllowed
<1>5. c.prog[r][k].n \in Nat /\ c.prog[r][k].n > 0 /\ File_rank(c, r) \in Nat /\ c.size \in Nat
  BY <1>4 DEF WellFormed, IsAccess
<1>6. Place1(r, k) \in Nat
  BY <1>1, <1>3, <1>5, ViewNat DEF Place1
<1> QED BY <1>1, <1>2, <1>3, <1>5, <1>6

(***************************************************************************)
(* Buffers: what sets one, and what leaves what is sent alone.             *)
(***************************************************************************)
LEMMA SetFirst ==
  ASSUME NEW buffers, Spans(buffers.s, 0), NEW rank, NEW last \in Nat, NEW p1, NEW p2
  PROVE  LET b == IMB_set_buf(buffers, rank, 0, last, p1, p2)
         IN /\ b = [s |-> b.s, r |-> b.r] /\ Spans(b.s, 0)
            /\ \A i \in 0 .. last : Byte(b.s, i) = Cell({rank}, i)
<1> DEFINE room == (Most(last - 0, 0) \div asize + 1) * asize
           s == IMB_alloc_buf(buffers.s, room)
           t == IMB_ass_buf(s, rank, 0, last, 1)
           end == (last \div asize + 1) * asize
           first == (0 \div asize) * asize
           Put(i) == IF 1 = 0 THEN Zero ELSE Cell({rank}, i)
           elements == [i \in DOMAIN s |-> IF i < end - first THEN Put(first + i) ELSE s[i]]
           b == IMB_set_buf(buffers, rank, 0, last, p1, p2)
<1>1. b.s = t /\ b = [s |-> b.s, r |-> b.r]
  BY DEF IMB_set_buf
<1>2. end \in Nat /\ last < end /\ room = end
  <2>1. last - 0 = last /\ Most(last, 0) = last
    BY DEF Most
  <2>2. last \div 2 \in Nat /\ last <= (last \div 2) * 2 + 1
    OBVIOUS
  <2>3. (last \div 2 + 1) * 2 \in Nat /\ last < (last \div 2 + 1) * 2
    BY <2>2
  <2> QED BY <2>1, <2>3 DEF asize
<1> HIDE DEF b, room
<1>3. Spans(s, 0) /\ Spans(s, end)
  BY <1>2, AllocSpans
<1>4. PICK m \in Nat : DOMAIN s = 0 .. m - 1 /\ end <= m
  BY <1>3 DEF Spans
<1>5. t = IF last < 0 THEN s
          ELSE [i \in DOMAIN s |-> IF i <= last - 0 THEN Byte(elements, i + 0 - first)
                                   ELSE elements[i]]
  BY DEF IMB_ass_buf
<1>8. first = 0
  BY DEF asize
<1> HIDE DEF s, t, end, first
<1>6. ASSUME NEW i \in 0 .. last PROVE Byte(t, i) = Cell({rank}, i)
  <2>1. /\ i \in DOMAIN s /\ i < end - first /\ first + i = i /\ i <= last - 0
        /\ i + 0 - first = i /\ ~ (last < 0)
    BY <1>2, <1>4, <1>8
  <2>2. elements[i] = Cell({rank}, i) /\ Byte(elements, i) = elements[i]
    BY <2>1 DEF Byte
  <2> HIDE DEF elements
  <2>3. i \in DOMAIN t /\ t[i] = Cell({rank}, i)
    BY <1>5, <2>1, <2>2
  <2> QED BY <2>3 DEF Byte
<1>7. Spans(t, 0)
  BY <1>4, <1>5 DEF Spans
<1> QED BY <1>1, <1>6, <1>7 DEF b

MemStays(r) == mem' = mem \/ \E buffer : mem' = [mem EXCEPT ![r].r = buffer]

LEMMA SendStays ==
  ASSUME BuffersHold, NEW r \in Procs, MemStays(r)
  PROVE  /\ mem' = [q \in Procs |-> [s |-> mem'[q].s, r |-> mem'[q].r]]
         /\ \A q \in Procs : mem'[q].s = mem[q].s
<1>1. mem = [q \in Procs |-> [s |-> mem[q].s, r |-> mem[q].r]]
  BY DEF BuffersHold
<1>2. CASE mem' = mem
  BY <1>1, <1>2
<1>3. ASSUME NEW buffer, mem' = [mem EXCEPT ![r].r = buffer]
      PROVE  /\ mem' = [q \in Procs |-> [s |-> mem'[q].s, r |-> mem'[q].r]]
             /\ \A q \in Procs : mem'[q].s = mem[q].s
  <2>1. DOMAIN mem = Procs /\ mem[r] = [s |-> mem[r].s, r |-> mem[r].r]
    BY <1>1
  <2>2. [mem[r] EXCEPT !.r = buffer] = [s |-> mem[r].s, r |-> buffer]
    BY <2>1
  <2>3. mem' = [q \in Procs |-> IF q = r THEN [s |-> mem[r].s, r |-> buffer]
                                ELSE [s |-> mem[q].s, r |-> mem[q].r]]
    BY <1>1, <1>3, <2>2
  <2>4. \A q \in Procs : mem'[q] = IF q = r THEN [s |-> mem[r].s, r |-> buffer]
                                   ELSE [s |-> mem[q].s, r |-> mem[q].r]
    BY <2>3
  <2>5. \A q \in Procs : mem'[q].s = mem[q].s /\ mem'[q] = [s |-> mem'[q].s, r |-> mem'[q].r]
    <3> TAKE q \in Procs
    <3>1. \/ mem'[q] = [s |-> mem[q].s, r |-> buffer]
          \/ mem'[q] = [s |-> mem[q].s, r |-> mem[q].r]
      BY <2>4
    <3> QED BY <3>1
  <2>6. mem' = [q \in Procs |-> mem'[q]]
    BY <2>3
  <2> QED BY <2>5, <2>6
<1> QED BY <1>2, <1>3 DEF MemStays

LEMMA BuffersStay ==
  ASSUME PInv, PutCall, BuffersHold, NEW r \in Procs, ~ Finished(r), Advance(r),
         Op(r).do # "set_buf", flying' = flying, MemStays(r)
  PROVE  BuffersHold'
<1>1. /\ c' = c /\ Procs' = Procs /\ pc[r] \in 1 .. Len(c.prog[r])
      /\ \A q \in Procs : pc'[q] = IF q = r THEN pc[q] + 1 ELSE pc[q]
  BY PointersMove DEF PInv, TInv
<1>2. ASSUME NEW q \in Procs, SetBefore(q, pc'[q]) PROVE SetBefore(q, pc[q])
  <2>1. PICK j \in 1 .. pc'[q] - 1 : c.prog[q][j].do = "set_buf"
    BY <1>2 DEF SetBefore
  <2>2. ~ (q = r /\ j = pc[r])
    BY <2>1 DEF Op
  <2>3. pc[q] \in Nat
    BY NowTyped DEF PInv, TInv
  <2>4. j \in 1 .. pc[q] - 1
    BY <1>1, <2>2, <2>3
  <2> QED BY <2>1, <2>4 DEF SetBefore
<1>3. /\ mem' = [q \in Procs |-> [s |-> mem'[q].s, r |-> mem'[q].r]]
      /\ \A q \in Procs : mem'[q].s = mem[q].s
  BY SendStays
<1>4. ASSUME NEW q \in Procs
      PROVE  /\ Spans(mem'[q].s, 0)
             /\ SetBefore(q, pc'[q]) /\ Locsize(c, q) > 0
                  => Bytes(mem'[q].s, 0, Locsize(c, q)) = OwnValues(q)
  BY <1>2, <1>3 DEF BuffersHold
<1> QED BY <1>1, <1>3, <1>4 DEF BuffersHold, SetBefore, OwnValues

LEMMA BuffersSet ==
  ASSUME PInv, PutCall, BuffersHold, NEW r \in Procs, SetBuf(r)
  PROVE  BuffersHold'
<1> DEFINE op == Op(r)
           b == IMB_set_buf(mem[r], op.rank, op.s1, op.s2, op.r1, op.r2)
<1>1. ~ Finished(r) /\ Advance(r) /\ op.do = "set_buf" /\ mem' = [mem EXCEPT ![r] = b]
      /\ flying' = flying
  BY DEF SetBuf, At, Same
<1>2. /\ c' = c /\ Procs' = Procs /\ pc[r] \in 1 .. Len(c.prog[r])
      /\ \A q \in Procs : pc'[q] = IF q = r THEN pc[q] + 1 ELSE pc[q]
  BY <1>1, PointersMove DEF PInv, TInv
<1>3. SetsValues(c, r, op)
  <2>1. PlacedAt(c, r, pc[r])
    BY <1>2 DEF PInv, Placed, Procs
  <2> QED BY <1>1, <2>1 DEF PlacedAt, Op, PutCall
<1>4. /\ op.rank = File_rank(c, r) /\ op.rank \in Nat /\ op.s1 = 0
      /\ op.s2 = Most(Locsize(c, r) - 1, 0)
  BY <1>3 DEF SetsValues
<1>5. Locsize(c, r) \in Nat
  <2>1. all_io_procs(c) \in Nat \ {0} /\ c.size \in Nat
    BY DEF all_io_procs, PInv, Placed, TInv, UInv, Sound, PutCall, Filling, CallNumbers,
           CallAssumption
  <2> QED BY <1>4, <2>1, PortionNat DEF Locsize
<1>6. op.s2 \in Nat
  BY <1>4, <1>5 DEF Most
<1>7. /\ b = [s |-> b.s, r |-> b.r] /\ Spans(b.s, 0)
      /\ \A i \in 0 .. op.s2 : Byte(b.s, i) = Cell({op.rank}, i)
  <2>1. Spans(mem[r].s, 0)
    BY DEF BuffersHold
  <2>2. b = IMB_set_buf(mem[r], op.rank, 0, op.s2, op.r1, op.r2)
    BY <1>4
  <2> HIDE DEF b, op
  <2> QED BY <1>6, <2>1, <2>2, SetFirst
<1> HIDE DEF op, b
<1>8. mem = [q \in Procs |-> mem[q]] /\ \A q \in Procs : mem[q] = [s |-> mem[q].s, r |-> mem[q].r]
  BY DEF BuffersHold
<1>9. \A q \in Procs : mem'[q] = IF q = r THEN b ELSE mem[q]
  BY <1>1, <1>8
<1>10. mem' = [q \in Procs |-> [s |-> mem'[q].s, r |-> mem'[q].r]]
  <2>1. mem' = [q \in Procs |-> mem'[q]]
    BY <1>1, <1>8
  <2>2. \A q \in Procs : mem'[q] = [s |-> mem'[q].s, r |-> mem'[q].r]
    BY <1>7, <1>8, <1>9
  <2> QED BY <2>1, <2>2
<1>11. ASSUME NEW q \in Procs
       PROVE  /\ Spans(mem'[q].s, 0)
              /\ SetBefore(q, pc'[q]) /\ Locsize(c, q) > 0
                   => Bytes(mem'[q].s, 0, Locsize(c, q)) = OwnValues(q)
  <2>1. CASE q # r
    BY <1>2, <1>9, <2>1 DEF BuffersHold
  <2>2. CASE q = r
    <3>1. mem'[q] = b
      BY <1>9, <2>2
    <3> SUFFICES ASSUME Locsize(c, r) > 0
                 PROVE  Bytes(b.s, 0, Locsize(c, r)) = OwnValues(r)
      BY <1>7, <2>2, <3>1
    <3>2. op.s2 = Locsize(c, r) - 1
      BY <1>4, <1>5 DEF Most
    <3> DEFINE n == Locsize(c, r)
               v == op.rank
    <3>3. OwnValues(r) = [i \in 1 .. (n - 1) - 0 + 1 |-> Cell({v}, 0 + i - 1)]
      BY <1>4 DEF OwnValues, Values
    <3>4. Bytes(b.s, 0, n) = [i \in 1 .. n |-> Byte(b.s, 0 + i - 1)]
      BY DEF Bytes
    <3>5. \A i \in 1 .. n : Byte(b.s, 0 + i - 1) = Cell({v}, 0 + i - 1)
      <4> TAKE i \in 1 .. n
      <4>1. 0 + i - 1 \in 0 .. op.s2
        BY <1>5, <3>2
      <4> HIDE DEF n
      <4> QED BY <1>7, <4>1
    <3>6. (n - 1) - 0 + 1 = n
      BY <1>5
    <3> HIDE DEF n, v
    <3> QED BY <3>3, <3>4, <3>5, <3>6 DEF n
  <2> QED BY <2>1, <2>2
<1> QED BY <1>1, <1>2, <1>10, <1>11 DEF BuffersHold, SetBefore, OwnValues

(***************************************************************************)
(* Of what is in files.                                                    *)
(***************************************************************************)
LEMMA WrittenStays ==
  ASSUME PInv, PutCall, WrittenHolds, NEW r \in Procs, ~ Finished(r), Advance(r),
         pending \subseteq pending',
         IsWrite(r, pc[r]) => \E a \in pending' : a.rank = r /\ a.no = pc[r],
         \A q \in Procs : \A k \in 1 .. pc[q] - 1 :
           IsWrite(q, k) => files'[Name(c, q)].bytes = files[Name(c, q)].bytes
  PROVE  WrittenHolds'
<1>1. /\ c' = c /\ Procs' = Procs /\ pc[r] \in 1 .. Len(c.prog[r])
      /\ \A q \in Procs : pc'[q] = IF q = r THEN pc[q] + 1 ELSE pc[q]
  BY PointersMove DEF PInv, TInv
<1>2. ASSUME NEW q \in Procs, NEW k \in 1 .. pc'[q] - 1, IsWrite(q, k),
             ~ \E a \in pending' : a.rank = q /\ a.no = k
      PROVE  PartAt(q, Place1(q, k))'
  <2>1. ~ (q = r /\ k = pc[r])
    BY <1>2
  <2>2. pc[q] \in Nat
    BY NowTyped DEF PInv, TInv
  <2>3. k \in 1 .. pc[q] - 1
    BY <1>1, <2>1, <2>2
  <2>4. PartAt(q, Place1(q, k)) /\ files'[Name(c, q)].bytes = files[Name(c, q)].bytes
    BY <1>2, <2>3 DEF WrittenHolds
  <2> QED BY <1>1, <2>4 DEF PartAt, Place1, Mine
<1> QED BY <1>1, <1>2 DEF WrittenHolds, IsWrite

LEMMA NoneShaped ==
  ASSUME PInv, PutCall, NEW r \in Procs, ~ Finished(r), Shapes(Op(r)), NEW q \in Procs,
         Name(c, q) = Name(c, r), NEW k \in 1 .. pc[q] - 1, IsWrite(q, k)
  PROVE  FALSE
<1>1. UInv /\ pc[r] \in 1 .. Len(c.prog[r]) /\ Len(c.prog[q]) \in Nat
      /\ pc[q] \in 1 .. Len(c.prog[q]) + 1 /\ pc[r] \in Nat
  BY OpAllowed, NowTyped DEF PInv, TInv
<1>2. k \in 1 .. Len(c.prog[q]) /\ k \in 1 .. pc[q]
  BY <1>1
<1>3. Creator(c, r) = r
  BY <1>1 DEF PInv, Placed, PlacedAt, Op, Procs
<1>4. Creator(c, q) = r
  BY <1>3 DEF Creator, Name
<1>5. PICK j \in 1 .. Len(c.prog[r]) : Creates(c, r, j) /\ Past(c, q, k, r, j)
  BY <1>2, <1>4, WriteFacts DEF IsWrite, InCreated
<1>6. j < pc[r]
  BY <1>1, <1>2, <1>5, PastIs
<1>7. pc[r] <= j
  BY <1>1, <1>5 DEF Creates, Op
<1> QED BY <1>1, <1>6, <1>7

(***************************************************************************)
(* What a write that takes effect does to the bytes of a file.             *)
(***************************************************************************)
LEMMA LandsHere ==
  ASSUME NEW bytes, NEW m \in Nat, DOMAIN bytes = 0 .. m - 1, NEW a, a.at \in Nat, a.n \in Nat,
         a.cells = [i \in 1 .. a.n |-> a.cells[i]]
  PROVE  Bytes(Written(bytes, a), a.at, a.n) = a.cells
<1> DEFINE w == Written(bytes, a)
<1>1. w = [i \in 0 .. Most(m, a.at + a.n) - 1 |->
             IF a.at <= i /\ i < a.at + a.n THEN a.cells[i - a.at + 1] ELSE Byte(bytes, i)]
  BY BytesLength DEF Written
<1>2. Bytes(w, a.at, a.n) = [i \in 1 .. a.n |-> Byte(w, a.at + i - 1)]
  BY DEF Bytes
<1> HIDE DEF w
<1>3. ASSUME NEW i \in 1 .. a.n PROVE Byte(w, a.at + i - 1) = a.cells[i]
  <2> DEFINE j == a.at + i - 1
  <2>1. /\ j \in 0 .. Most(m, a.at + a.n) - 1 /\ a.at <= j /\ j < a.at + a.n
        /\ j - a.at + 1 = i
    BY DEF Most
  <2> HIDE DEF j
  <2>2. j \in DOMAIN w /\ w[j] = a.cells[j - a.at + 1]
    BY <1>1, <2>1
  <2> QED BY <2>1, <2>2 DEF Byte, j
<1> QED BY <1>2, <1>3 DEF w

LEMMA LandsApart ==
  ASSUME NEW bytes, NEW m \in Nat, DOMAIN bytes = 0 .. m - 1, NEW a, a.at \in Nat, a.n \in Nat,
         NEW at \in Nat, NEW n \in Nat, at + n <= a.at \/ a.at + a.n <= at
  PROVE  Bytes(Written(bytes, a), at, n) = Bytes(bytes, at, n)
<1> DEFINE w == Written(bytes, a)
<1>1. w = [i \in 0 .. Most(m, a.at + a.n) - 1 |->
             IF a.at <= i /\ i < a.at + a.n THEN a.cells[i - a.at + 1] ELSE Byte(bytes, i)]
  BY BytesLength DEF Written
<1>2. /\ Bytes(w, at, n) = [i \in 1 .. n |-> Byte(w, at + i - 1)]
      /\ Bytes(bytes, at, n) = [i \in 1 .. n |-> Byte(bytes, at + i - 1)]
  BY DEF Bytes
<1> HIDE DEF w
<1>3. ASSUME NEW i \in 1 .. n PROVE Byte(w, at + i - 1) = Byte(bytes, at + i - 1)
  <2> DEFINE j == at + i - 1
  <2>1. j \in Nat /\ ~ (a.at <= j /\ j < a.at + a.n)
    OBVIOUS
  <2>2. j \in 0 .. m - 1 => j \in 0 .. Most(m, a.at + a.n) - 1
    BY DEF Most
  <2> HIDE DEF j
  <2>3. CASE j \in 0 .. Most(m, a.at + a.n) - 1
    <3>1. j \in DOMAIN w /\ w[j] = Byte(bytes, j)
      BY <1>1, <2>1, <2>3
    <3> QED BY <3>1 DEF Byte, j
  <2>4. CASE j \notin 0 .. Most(m, a.at + a.n) - 1
    <3>1. j \notin DOMAIN w /\ j \notin DOMAIN bytes
      BY <1>1, <2>2, <2>4
    <3> QED BY <3>1 DEF Byte, j
  <2> QED BY <2>3, <2>4
<1> QED BY <1>2, <1>3 DEF w

LEMMA WrittenLands ==
  ASSUME PInv, PutCall, CellsHold, WrittenHolds, NEW a \in pending, LandInFile(a)
  PROVE  WrittenHolds'
<1> DEFINE s == a.rank
           bytes == files[a.file].bytes
<1>1. /\ c' = c /\ pc' = pc /\ Procs' = Procs /\ pending' = pending \ {a}
      /\ IF a.kind = "write" THEN files' = [files EXCEPT ![a.file].bytes = Written(bytes, a)]
         ELSE files' = files
  BY DEF LandInFile, Same, Procs
<1>2. /\ s \in Procs /\ a.no \in 1 .. Len(c.prog[s]) /\ IsAccess(OpOf(a)) /\ Called(a)
      /\ a.at \in Nat /\ a.n \in Nat /\ a.kind = OpOf(a).do
  BY CalledFacts
<1>3. /\ a.at = Place1(s, a.no) /\ a.n = Locsize(c, s) /\ a.file = Name(c, s)
      /\ Block(c, s, a.no) \in Nat /\ File_rank(c, s) \in Nat /\ a.n > 0
  BY <1>2, WriteFacts DEF Called, OpOf, Place1, PutCall, Filling
<1>4. a.file \in DOMAIN files
  BY <1>2, <1>3 DEF PInv, FilesMade, Name
<1>5. "bytes" \in DOMAIN files[a.file] /\ \E m \in Nat : DOMAIN bytes = 0 .. m - 1
  BY <1>4 DEF PInv, TInv, FilesTyped
<1>6. PICK m \in Nat : DOMAIN bytes = 0 .. m - 1
  BY <1>5
<1> HIDE DEF bytes
<1>7. ASSUME NEW q \in Procs, NEW k \in 1 .. pc[q] - 1, IsWrite(q, k),
             ~ \E b \in pending' : b.rank = q /\ b.no = k
      PROVE  PartAt(q, Place1(q, k))'
  <2> DEFINE at == Place1(q, k)
             n == Locsize(c, q)
  <2>1. k \in 1 .. Len(c.prog[q])
    BY NowTyped DEF PInv, TInv
  <2>2. /\ at \in Nat /\ n \in Nat /\ n > 0 /\ Block(c, q, k) \in Nat /\ File_rank(c, q) \in Nat
        /\ c.size \in Nat /\ c.np \in Nat \ {0}
    BY <1>7, <2>1, WriteFacts DEF IsWrite
  <2>3. (PartAt(q, at))' <=> Bytes(files'[Name(c, q)].bytes, at, n) = OwnValues(q)
    BY <1>1 DEF PartAt, Place1, Mine, OwnValues
  <2>4. CASE a.kind = "write" /\ Name(c, q) = a.file /\ Block(c, q, k) = Block(c, s, a.no) /\ q = s
    <3>1. files'[Name(c, q)].bytes = Written(bytes, a)
      BY <1>1, <1>4, <1>5, <2>4
    <3>2. at = a.at /\ n = a.n /\ a.cells = OwnValues(q)
      BY <1>3, <2>4 DEF Place1, CellsHold
    <3>3. OwnValues(q) = [i \in 1 .. n |-> OwnValues(q)[i]]
      <4>1. (n - 1) - 0 + 1 = n
        BY <2>2
      <4> QED BY <4>1 DEF OwnValues, Values
    <3>4. a.cells = [i \in 1 .. a.n |-> a.cells[i]]
      BY <3>2, <3>3
    <3>5. Bytes(Written(bytes, a), a.at, a.n) = a.cells
      BY <1>2, <1>6, <3>4, LandsHere
    <3> QED BY <2>3, <3>1, <3>2, <3>5
  <2>5. CASE ~ (/\ a.kind = "write" /\ Name(c, q) = a.file
                /\ Block(c, q, k) = Block(c, s, a.no) /\ q = s)
    <3>1. ~ (q = s /\ k = a.no)
      BY <1>2, <1>3, <1>7, <2>5 DEF IsWrite, OpOf
    <3>2. ~ \E b \in pending : b.rank = q /\ b.no = k
      BY <1>1, <1>7, <3>1
    <3>3. Bytes(files[Name(c, q)].bytes, at, n) = OwnValues(q)
      BY <1>7, <3>2 DEF WrittenHolds, PartAt, Mine, OwnValues
    <3>4. CASE a.kind # "write" \/ Name(c, q) # a.file
      <4>1. Name(c, q) \in DOMAIN files
        BY DEF PInv, FilesMade, Name
      <4>2. files'[Name(c, q)].bytes = files[Name(c, q)].bytes
        BY <1>1, <3>4, <4>1
      <4> QED BY <2>3, <3>3, <4>2
    <3>5. CASE a.kind = "write" /\ Name(c, q) = a.file
      <4>1. files'[Name(c, q)].bytes = Written(bytes, a)
        BY <1>1, <1>4, <1>5, <3>5
      <4>2. at + n <= a.at \/ a.at + a.n <= at
        BY <1>2, <1>3, <2>2, <2>5, <3>5, OwnApart DEF Place1, Procs
      <4> HIDE DEF at, n
      <4>3. Bytes(Written(bytes, a), at, n) = Bytes(bytes, at, n)
        <5>1. a.at \in Nat /\ a.n \in Nat /\ at \in Nat /\ n \in Nat
          BY <1>2, <2>2
        <5> QED BY <1>6, <4>2, <5>1, LandsApart
      <4> QED BY <2>3, <3>3, <3>5, <4>1, <4>3 DEF bytes, at, n
    <3> QED BY <3>4, <3>5
  <2> QED BY <2>4, <2>5
<1> QED BY <1>1, <1>7 DEF WrittenHolds, IsWrite

(***************************************************************************)
(* Each step.                                                              *)
(***************************************************************************)
LEMMA StepHolds ==
  ASSUME PInv, PutCall, Holding, NEW r \in Procs, Step(r), UNCHANGED ioVars
  PROVE  Holding'
<1>1. ~ Finished(r) /\ Advance(r) /\ Op(r).do \notin {"write", "read", "set_buf"}
  BY DEF Step, Call, Return, Start, PersistentInit, PersistentStart, Begin, Wait, Collect, Free,
         Exploit, Issue, Access, FenceEnter, FenceLeave, Window, Lock, Flush, FlushLocal, Unlock,
         Send, Recv, ReduceLocal, Check, Clear, InitArray, CheckArray, At
<1>2. Op(r).do \notin Access \cup {"init_array"}
  <2>1. pc[r] \in 1 .. Len(c.prog[r]) /\ r \in Ranks(c) /\ Placed(c) /\ c.suite = "IO"
    BY <1>1, OpAllowed DEF PInv, TInv, Procs, PutCall, Filling
  <2> QED BY <2>1 DEF Placed, PlacedAt, Op
<1>3. flying' = flying /\ MemStays(r)
  BY <1>2 DEF MemStays, Step, Call, Return, Start, PersistentInit, PersistentStart, Begin, Wait,
         Collect, Free, Exploit, Issue, FenceEnter, FenceLeave, Window, Lock, Flush, FlushLocal,
         Unlock, Send, Recv, ReduceLocal, Check, Clear, InitArray, CheckArray, At
<1>4. UNCHANGED <<c, files, pending>>
  BY <1>1 DEF ioVars, Advance
<1>5. BuffersHold'
  BY <1>1, <1>3, BuffersStay DEF Holding
<1>6. CellsHold'
  BY <1>4 DEF Holding, CellsHold, OwnValues
<1>7. WrittenHolds'
  BY <1>1, <1>4, WrittenStays DEF Holding, IsWrite, Op
<1> QED BY <1>5, <1>6, <1>7 DEF Holding

LEMMA AccessHolds ==
  ASSUME PInv, PutCall, Holding, NEW r \in Procs, AccessFile(r)
  PROVE  Holding'
<1> DEFINE op == Op(r)
<1>1. /\ ~ Finished(r) /\ Advance(r) /\ op.do \in {"write", "read"} /\ files' = files
      /\ flying' = flying /\ mem' = mem /\ c' = c
  BY DEF AccessFile, Same, Advance
<1>2. \E at : pending' =
        IF op.n > 0
        THEN pending \cup {[kind |-> op.do, rank |-> r, no |-> pc[r], file |-> Mine(r),
                            at |-> at, n |-> op.n,
                            cells |-> IF op.do = "write" THEN Bytes(mem[r].s, 0, op.n) ELSE <<>>]}
        ELSE pending
  BY DEF AccessFile
<1>3. PICK at : pending' =
        IF op.n > 0
        THEN pending \cup {[kind |-> op.do, rank |-> r, no |-> pc[r], file |-> Mine(r),
                            at |-> at, n |-> op.n,
                            cells |-> IF op.do = "write" THEN Bytes(mem[r].s, 0, op.n) ELSE <<>>]}
        ELSE pending
  BY <1>2
<1> DEFINE new == [kind |-> op.do, rank |-> r, no |-> pc[r], file |-> Mine(r), at |-> at,
                   n |-> op.n,
                   cells |-> IF op.do = "write" THEN Bytes(mem[r].s, 0, op.n) ELSE <<>>]
<1>4. new.rank = r /\ new.no = pc[r] /\ new.kind = op.do
      /\ (op.do = "write" => new.cells = Bytes(mem[r].s, 0, op.n))
  OBVIOUS
<1>5. pending' = IF op.n > 0 THEN pending \cup {new} ELSE pending
  BY <1>3
<1> HIDE DEF op, new
<1>6. pc[r] \in 1 .. Len(c.prog[r])
  BY <1>1, OpAllowed DEF PInv, TInv
<1>7. BuffersHold'
  BY <1>1, BuffersStay DEF Holding, MemStays, op
<1>8. ASSUME op.n > 0, op.do = "write" PROVE new.cells = OwnValues(r)
  <2>1. IsAccess(c.prog[r][pc[r]]) /\ IsWrite(r, pc[r])
    BY <1>8 DEF op, Op, IsAccess, IsWrite
  <2>2. op.n = Locsize(c, r) /\ Locsize(c, r) > 0 /\ SetBefore(r, pc[r])
    BY <1>6, <2>1, WriteFacts DEF op, Op
  <2> QED BY <1>4, <1>8, <2>2 DEF Holding, BuffersHold
<1>9. CellsHold'
  <2>1. ASSUME NEW a \in pending', a.kind = "write" PROVE a.cells = OwnValues(a.rank)
    <3>1. CASE a \in pending
      BY <2>1, <3>1 DEF Holding, CellsHold
    <3>2. CASE a \notin pending
      BY <1>4, <1>5, <1>8, <2>1, <3>2
    <3> QED BY <3>1, <3>2
  <2> QED BY <1>1, <2>1 DEF CellsHold, OwnValues
<1>10. WrittenHolds'
  <2>1. pending \subseteq pending'
    BY <1>5
  <2>2. ASSUME IsWrite(r, pc[r]) PROVE \E a \in pending' : a.rank = r /\ a.no = pc[r]
    <3>1. op.n > 0
      BY <2>2 DEF IsWrite, IsAccess, op, Op
    <3>2. new \in pending'
      BY <1>5, <3>1
    <3> QED BY <1>4, <3>2
  <2> QED BY <1>1, <2>1, <2>2, WrittenStays DEF Holding
<1> QED BY <1>7, <1>9, <1>10 DEF Holding

LEMMA FStepHolds ==
  ASSUME PInv, PutCall, Holding, NEW r \in Procs, FStep(r)
  PROVE  Holding'
<1>1. ~ Finished(r) /\ Advance(r) /\ flying' = flying /\ c' = c
  BY FStepMoves DEF Advance
<1>2. CASE AccessFile(r)
  BY <1>2, AccessHolds
<1>3. CASE ~ AccessFile(r)
  <2>1. pending' = pending /\ Op(r).do \notin {"write", "read"}
    BY <1>3 DEF FStep, SetBuf, Opened, Closed, Delete, Create, ReadWait, SyncFile, Completed,
                Restore, Compare, Contiguous, At, ioVars
  <2>2. CellsHold'
    BY <1>1, <2>1 DEF Holding, CellsHold, OwnValues
  <2>3. BuffersHold'
    <3>1. CASE SetBuf(r)
      BY <3>1, BuffersSet DEF Holding
    <3>2. CASE ~ SetBuf(r)
      <4>1. mem' = mem /\ Op(r).do # "set_buf"
        BY <1>3, <3>2 DEF FStep, Opened, Closed, Delete, Create, ReadWait, SyncFile, Completed,
                          Restore, Compare, Contiguous, At
      <4> QED BY <1>1, <4>1, BuffersStay DEF Holding, MemStays
    <3> QED BY <3>1, <3>2
  <2>4. ASSUME NEW q \in Procs, NEW k \in 1 .. pc[q] - 1, IsWrite(q, k)
        PROVE  files'[Name(c, q)].bytes = files[Name(c, q)].bytes
    <3>1. Name(c, q) \in DOMAIN files
      BY DEF PInv, FilesMade, Name
    <3>2. CASE Delete(r) \/ Create(r)
      <4>1. Shapes(Op(r))
        BY <3>2 DEF Delete, Create, At, Shapes
      <4>2. Name(c, q) # Name(c, r)
        BY <1>1, <2>4, <4>1, NoneShaped
      <4> QED BY <3>1, <3>2, <4>2 DEF Delete, Create, Mine
    <3>3. CASE Opened(r)
      BY <3>1, <3>3 DEF Opened
    <3>4. CASE ~ (Delete(r) \/ Create(r) \/ Opened(r))
      BY <1>3, <3>4 DEF FStep, SetBuf, Closed, ReadWait, SyncFile, Completed, Restore, Compare,
                        Contiguous, ioVars
    <3> QED BY <3>2, <3>3, <3>4
  <2>5. WrittenHolds'
    BY <1>1, <2>1, <2>4, WrittenStays DEF Holding, IsWrite, Op
  <2> QED BY <2>2, <2>3, <2>5 DEF Holding
<1> QED BY <1>2, <1>3

LEMMA LandHolds ==
  ASSUME PInv, PutCall, Holding, NEW a \in pending, LandInFile(a)
  PROVE  Holding'
<1>1. UNCHANGED <<c, pc>> /\ flying' = flying /\ pending' \subseteq pending /\ Procs' = Procs
  BY DEF LandInFile, Same, Procs
<1>2. a.rank \in Procs /\ MemStays(a.rank)
  BY CalledFacts DEF LandInFile, MemStays
<1>3. BuffersHold'
  <2>1. /\ mem' = [q \in Procs |-> [s |-> mem'[q].s, r |-> mem'[q].r]]
        /\ \A q \in Procs : mem'[q].s = mem[q].s
    BY <1>2, SendStays DEF Holding
  <2> QED BY <1>1, <2>1 DEF Holding, BuffersHold, SetBefore, OwnValues
<1>4. CellsHold'
  BY <1>1 DEF Holding, CellsHold, OwnValues
<1>5. WrittenHolds'
  BY WrittenLands DEF Holding
<1> QED BY <1>3, <1>4, <1>5 DEF Holding

LEMMA NextHInv ==
  ASSUME HInv, [Next]_<<vars, ioVars>>
  PROVE  HInv'
<1>1. PInv /\ PInv'
  BY NextPInv DEF HInv
<1>2. c' = c
  <2>1. CASE UNCHANGED <<vars, ioVars>>
    BY <2>1 DEF vars
  <2>2. CASE Progress /\ UNCHANGED ioVars
    BY <2>2, StillStep, Zenon DEF Progress, Still, Advance, Land
  <2>3. CASE InFiles
    BY <2>3, FStepMoves DEF InFiles, Advance, LandInFile
  <2> QED BY <2>1, <2>2, <2>3 DEF Next
<1> SUFFICES ASSUME PutCall, Holding PROVE Holding'
  BY <1>1, <1>2 DEF HInv, PutCall
<1>3. CASE UNCHANGED <<vars, ioVars>>
  BY <1>3 DEF vars, ioVars, Holding, BuffersHold, CellsHold, WrittenHolds, Procs, PartAt, Mine,
              SetBefore, OwnValues, IsWrite, Place1
<1>4. CASE Progress /\ UNCHANGED ioVars
  BY <1>1, <1>4, StepHolds DEF Progress, Holding, BuffersHold
<1>5. CASE InFiles
  BY <1>1, <1>5, FStepHolds, LandHolds DEF InFiles
<1> QED BY <1>3, <1>4, <1>5 DEF Next

LEMMA InitHInv ==
  ASSUME FInit, \A i \in DOMAIN Setups : Sound(Setups[i]) /\ Placed(Setups[i])
  PROVE  HInv
<1>1. PInv /\ pc = [r \in Procs |-> 1] /\ pending = {} /\ flying = {}
  BY InitPInv DEF FInit, Init
<1> SUFFICES ASSUME PutCall PROVE Holding
  BY <1>1 DEF HInv
<1>2. CallNumbers(c) /\ c.suite = "IO"
  BY <1>1 DEF PInv, Placed, PutCall, Filling
<1>3. mem = [r \in Procs |-> IMB_init_buffers(c, r)]
  BY <1>2 DEF FInit, Init
<1>4. ASSUME NEW r
      PROVE  LET b == IMB_init_buffers(c, r) IN b = [s |-> b.s, r |-> b.r] /\ Spans(b.s, 0)
  <2> DEFINE none == [s |-> NoBuffer, r |-> NoBuffer]
             set == IMB_set_buf(none, r, 0, S_alloc(c) - 1, 0, R_alloc(c) - 1)
             b == IMB_init_buffers(c, r)
  <2>1. b = none \/ (b = set /\ S_alloc(c) # 0)
    BY <1>2 DEF IMB_init_buffers, use_off_cache
  <2>2. Spans(none.s, 0) /\ none = [s |-> none.s, r |-> none.r]
    <3>1. DOMAIN NoBuffer = 0 .. 0 - 1 /\ none.s = NoBuffer
      BY DEF NoBuffer
    <3> QED BY <3>1 DEF Spans
  <2>3. ASSUME S_alloc(c) # 0 PROVE set = [s |-> set.s, r |-> set.r] /\ Spans(set.s, 0)
    <3>1. S_alloc(c) - 1 \in Nat
      BY <1>2, <2>3, AllocNat DEF CallNumbers
    <3> DEFINE last == S_alloc(c) - 1
               end == R_alloc(c) - 1
    <3> HIDE DEF none, last, end
    <3>2. Spans(none.s, 0) /\ last \in Nat
      BY <2>2, <3>1 DEF last
    <3>3. LET v == IMB_set_buf(none, r, 0, last, 0, end)
          IN v = [s |-> v.s, r |-> v.r] /\ Spans(v.s, 0)
      BY <3>2, SetFirst
    <3> QED BY <3>3 DEF last, end
  <2> HIDE DEF set, none
  <2> QED BY <2>1, <2>2, <2>3
<1>5. BuffersHold
  <2>1. \A r \in Procs : mem[r] = [s |-> mem[r].s, r |-> mem[r].r] /\ Spans(mem[r].s, 0)
    BY <1>3, <1>4
  <2>2. mem = [r \in Procs |-> mem[r]]
    BY <1>3
  <2>3. \A r \in Procs : ~ SetBefore(r, pc[r])
    BY <1>1 DEF SetBefore
  <2> QED BY <1>1, <2>1, <2>2, <2>3 DEF BuffersHold
<1>6. CellsHold /\ WrittenHolds
  BY <1>1 DEF CellsHold, WrittenHolds
<1> QED BY <1>5, <1>6 DEF Holding

LEMMA FilesHoldFrom ==
  ASSUME HInv, c.fpointer # "SHARED"
  PROVE  FilesHold
<1> SUFFICES ASSUME FDone
             PROVE  /\ \A r \in Procs : ~ handle[r].open
                    /\ \A r \in Writers : \A k \in 0 .. c.n - 1 :
                         PartAt(r, Offset(c, r) + k * Totalsize(c, r))
  BY DEF FilesHold
<1>1. ASSUME NEW r \in Procs
      PROVE  pc[r] = Len(c.prog[r]) + 1 /\ Len(c.prog[r]) \in Nat /\ ~ handle[r].open
  <2>1. /\ pc[r] \in 1 .. Len(c.prog[r]) + 1 /\ Len(c.prog[r]) \in Nat /\ OnlyAllowed(c, r)
        /\ handle[r].open = Now(r).open
    BY NowTyped DEF HInv, PInv, TInv, UInv, IInv, HoldsNow
  <2>2. pc[r] = Len(c.prog[r]) + 1
    BY <2>1 DEF FDone, Finished
  <2> QED BY <2>1, <2>2 DEF OnlyAllowed, Ended, Now
<1>2. ASSUME NEW r \in Writers, NEW m \in 0 .. c.n - 1
      PROVE  PartAt(r, Offset(c, r) + m * Totalsize(c, r))
  <2>1. r \in Procs /\ r \in Ranks(c) /\ PutCall /\ PInv /\ Holding
    BY DEF Writers, PutCall, Filling, HInv, Procs
  <2>2. WritesAll(c, r)
    BY <2>1 DEF PInv, Placed, PutCall
  <2>3. PICK k \in 1 .. Len(c.prog[r]) : IsWrite(r, k) /\ Block(c, r, k) = m
    BY <2>2 DEF WritesAll, Writers, IsWrite
  <2>4. k \in 1 .. pc[r] - 1
    BY <1>1, <2>1
  <2>5. PartAt(r, Place1(r, k))
    BY <2>1, <2>3, <2>4 DEF Holding, WrittenHolds, FDone
  <2> QED BY <2>3, <2>5 DEF Place1, InView
<1> QED BY <1>1, <1>2

(***************************************************************************)
(* In every such call, but those with the shared pointer, all files are    *)
(* closed at the end, and where the program writes each of the blocks holds*)
(* the values of each rank in the rank's part: no write is lost, comes too *)
(* late, is overwritten by another one or by the creation of the file, or  *)
(* goes to another place.                                                  *)
(***************************************************************************)
THEOREM FilesHoldAlways ==
  ASSUME \A i \in DOMAIN Setups : Sound(Setups[i]) /\ Placed(Setups[i])
  PROVE  Spec => [](c.fpointer # "SHARED" => FilesHold)
<1>1. FInit => HInv
  BY InitHInv
<1>2. HInv /\ [Next]_<<vars, ioVars>> => HInv'
  BY NextHInv
<1>3. HInv => (c.fpointer # "SHARED" => FilesHold)
  BY FilesHoldFrom
<1> QED BY <1>1, <1>2, <1>3, PTL DEF Spec

=============================================================================
