---------------------------- MODULE SumTheorems ----------------------------
(* What Sum returns, for functions from a finite set to the naturals, Net,   *)
(* for those to the integers, and Summed, Only, Joined and PutAfter, for     *)
(* lists; and the induction that the loops over lists need.                  *)
EXTENDS Sums, FiniteSetTheorems, WellFoundedInduction, TLAPS

\* A function on a finite set has finitely many units.
LEMMA UnitsFinite ==
  ASSUME NEW D, IsFiniteSet(D), NEW n \in [D -> Nat]
  PROVE  IsFiniteSet(Units(n))
<1> DEFINE Column(x) == {x} \X (1..n[x])
           Columns == {Column(x) : x \in D}
           f == [x \in D |-> Column(x)]
<1>1. f \in Surjection(D, Columns)
  BY DEF Surjection
<1>2. IsFiniteSet(Columns)
  BY <1>1, FS_Surjection
<1>3. \A T \in Columns : IsFiniteSet(T)
  <2> TAKE T \in Columns
  <2>1. PICK x \in D : T = {x} \X (1..n[x])
    OBVIOUS
  <2>2. IsFiniteSet({x})
    BY FS_Singleton
  <2>3. IsFiniteSet(1..n[x])
    BY FS_Interval
  <2> QED
    BY <2>1, <2>2, <2>3, FS_Product
<1>4. IsFiniteSet(UNION Columns)
  BY <1>2, <1>3, FS_UNION
<1> QED
  BY <1>4 DEF Units

\* A sum is a natural number.
LEMMA SumType ==
  ASSUME NEW D, IsFiniteSet(D), NEW n \in [D -> Nat]
  PROVE  Sum(n) \in Nat
BY UnitsFinite, FS_CardinalityType DEF Sum

\* A sum splits into one value and the sum of the others.
LEMMA SumSplit ==
  ASSUME NEW D, IsFiniteSet(D), NEW n \in [D -> Nat], NEW d \in D
  PROVE  LET others == [x \in D |-> IF x = d THEN 0 ELSE n[x]]
         IN  /\ Sum(others) \in Nat
             /\ Sum(n) = Sum(others) + n[d]
<1> DEFINE others == [x \in D |-> IF x = d THEN 0 ELSE n[x]]
           column == {d} \X (1..n[d])
<1>1. others \in [D -> Nat]
  OBVIOUS
<1>2. IsFiniteSet(Units(others)) /\ Sum(others) \in Nat
  BY <1>1, UnitsFinite, SumType
<1>3. IsFiniteSet(column) /\ Cardinality(column) = n[d]
  <2>1. IsFiniteSet({d}) /\ Cardinality({d}) = 1
    BY FS_Singleton
  <2>2. IsFiniteSet(1..n[d]) /\ Cardinality(1..n[d]) = n[d]
    BY FS_Interval
  <2>3. /\ IsFiniteSet(column)
        /\ Cardinality(column) = Cardinality({d}) * Cardinality(1..n[d])
    BY <2>1, <2>2, FS_Product
  <2> QED
    BY <2>1, <2>2, <2>3
<1>4. Units(others) \cap column = {}
  BY DEF Units
<1>5. Units(n) = Units(others) \cup column
  BY DEF Units
<1>6. Sum(n) = Sum(others) + n[d]
  <2>1. Cardinality(Units(others) \cup column)
          = Cardinality(Units(others)) + Cardinality(column) - Cardinality({})
    BY <1>2, <1>3, <1>4, FS_Union
  <2> QED
    BY <2>1, <1>2, <1>3, <1>5, FS_EmptySet DEF Sum
<1> HIDE DEF others
<1> QED
  BY <1>2, <1>6 DEF others

\* No value exceeds the sum.
LEMMA SumBound ==
  ASSUME NEW D, IsFiniteSet(D), NEW n \in [D -> Nat], NEW d \in D
  PROVE  n[d] <= Sum(n)
<1> DEFINE others == [x \in D |-> IF x = d THEN 0 ELSE n[x]]
<1>1. Sum(others) \in Nat /\ Sum(n) = Sum(others) + n[d]
  BY SumSplit
<1>2. n[d] \in Nat
  OBVIOUS
<1> HIDE DEF others
<1> QED
  BY <1>1, <1>2

\* Changing one value changes the sum by as much.
LEMMA SumUpdate ==
  ASSUME NEW D, IsFiniteSet(D), NEW n \in [D -> Nat], NEW m \in [D -> Nat],
         NEW d \in D, \A x \in D \ {d} : m[x] = n[x]
  PROVE  Sum(m) = Sum(n) - n[d] + m[d]
<1> DEFINE others(f) == [x \in D |-> IF x = d THEN 0 ELSE f[x]]
<1>1. others(m) = others(n)
  OBVIOUS
<1>2. Sum(others(n)) \in Nat /\ Sum(n) = Sum(others(n)) + n[d]
  BY SumSplit
<1>3. Sum(m) = Sum(others(m)) + m[d]
  BY SumSplit
<1>4. n[d] \in Nat /\ m[d] \in Nat
  OBVIOUS
<1> HIDE DEF others
<1> QED
  BY <1>1, <1>2, <1>3, <1>4

\* Nothing sums to nothing.
LEMMA SumZero ==
  ASSUME NEW D
  PROVE  Sum([x \in D |-> 0]) = 0
<1>1. Units([x \in D |-> 0]) = {}
  BY DEF Units
<1> QED
  BY <1>1, FS_EmptySet DEF Sum

-----------------------------------------------------------------------------
(* Lists *)

\* What holds of 0, and of n + 1 whenever it holds of n, holds of every natural number.
LEMMA SetInduction ==
  ASSUME NEW S, 0 \in S, \A n \in Nat : n \in S => n + 1 \in S
  PROVE  Nat \subseteq S
<1> DEFINE T == Nat \ S
<1> SUFFICES ASSUME T # {} PROVE FALSE
  OBVIOUS
<1>1. IsWellFoundedOn(OpToRel(<, Nat), Nat)
  BY NatLessThanWellFounded
<1>2. PICK x \in T : \A y \in T : ~(<<y, x>> \in OpToRel(<, Nat))
  <2>1. T \subseteq Nat
    OBVIOUS
  <2> HIDE DEF T
  <2> QED
    BY <1>1, <2>1, WFMin
<1>3. \A y \in T : ~(y < x)
  <2> TAKE y \in T
  <2>1. <<y, x>> \notin {ss \in Nat \X Nat : ss[1] < ss[2]}
    BY <1>2 DEF OpToRel
  <2> QED
    BY <2>1
<1>4. x # 0 /\ x - 1 \in Nat /\ x - 1 < x
  OBVIOUS
<1>5. x - 1 \in S
  BY <1>3, <1>4
<1> QED
  BY <1>4, <1>5

\* The same along the elements of a list.
LEMMA Along ==
  ASSUME NEW n \in Nat, NEW S, 0 \in S, \A i \in 0 .. n - 1 : i \in S => i + 1 \in S
  PROVE  n \in S /\ \A i \in 0 .. n : i \in S
<1> DEFINE T == {i \in Nat : i <= n => i \in S}
<1>1. 0 \in T
  OBVIOUS
<1>2. \A i \in Nat : i \in T => i + 1 \in T
  OBVIOUS
<1>3. Nat \subseteq T
  <2> HIDE DEF T
  <2> QED
    BY <1>1, <1>2, SetInduction
<1> QED
  BY <1>3

\* Some naturals have a least one, and those up to a bound a greatest.
LEMMA Smallest ==
  ASSUME NEW S \in SUBSET Nat, S # {}
  PROVE  \E m \in S : \A n \in S : m <= n
<1> SUFFICES ASSUME \A m \in S : \E n \in S : ~(m <= n) PROVE FALSE
  OBVIOUS
<1> DEFINE T == {n \in Nat : \A m \in S : n < m}
<1>1. 0 \in T
  <2> SUFFICES ASSUME NEW m \in S PROVE 0 < m
    OBVIOUS
  <2>1. PICK n \in S : ~(m <= n)
    OBVIOUS
  <2> QED
    BY <2>1
<1>2. ASSUME NEW n \in Nat, n \in T PROVE n + 1 \in T
  <2> SUFFICES ASSUME NEW m \in S PROVE n + 1 < m
    OBVIOUS
  <2>1. PICK k \in S : ~(m <= k)
    OBVIOUS
  <2>2. n < k
    BY <1>2
  <2> QED
    BY <2>1, <2>2
<1>3. Nat \subseteq T
  <2> HIDE DEF T
  <2> QED
    BY <1>1, <1>2, SetInduction
<1>4. PICK m \in S : TRUE
  OBVIOUS
<1> QED
  BY <1>3, <1>4

\* A set of numbers up to a bound has a greatest one.
LEMMA Greatest ==
  ASSUME NEW n \in Nat, NEW S \in SUBSET (0 .. n), S # {}
  PROVE  \E m \in S : \A k \in S : k <= m
<1> DEFINE T == {n - k : k \in S}
<1>1. T \in SUBSET Nat /\ T # {}
  <2>1. \A k \in S : n - k \in Nat
    OBVIOUS
  <2> QED
    BY <2>1
<1>2. PICK t \in T : \A u \in T : t <= u
  <2> HIDE DEF T
  <2> QED
    BY <1>1, Smallest
<1>3. PICK m \in S : t = n - m
  OBVIOUS
<1>4. \A k \in S : n - m <= n - k
  BY <1>2, <1>3
<1> QED
  BY <1>4

\* The running totals of a list, of which Summed takes the last.
LEMMA Running ==
  ASSUME NEW f, Len(f) \in Nat
  PROVE  \E t : /\ DOMAIN t = 0 .. Len(f)
                /\ t[0] = 0
                /\ \A i \in 1 .. Len(f) : t[i] = t[i - 1] + f[i]
                /\ Summed(f) = t[Len(f)]
<1> DEFINE Sums(n, t) == t = [i \in 0 .. n |-> IF i = 0 THEN 0 ELSE t[i - 1] + f[i]]
           S == {n \in Nat : \E t : Sums(n, t)}
<1>1. 0 \in S
  <2>1. Sums(0, [i \in 0 .. 0 |-> 0])
    OBVIOUS
  <2> QED
    BY <2>1
<1>2. ASSUME NEW n \in Nat, n \in S PROVE n + 1 \in S
  <2>1. PICK t : Sums(n, t)
    BY <1>2
  <2> DEFINE u == [i \in 0 .. n + 1 |-> IF i = n + 1 THEN t[n] + f[n + 1] ELSE t[i]]
  <2>2. Sums(n + 1, u)
    <3> SUFFICES ASSUME NEW i \in 0 .. n + 1
                 PROVE  u[i] = IF i = 0 THEN 0 ELSE u[i - 1] + f[i]
      OBVIOUS
    <3>1. CASE i = n + 1
      BY <3>1
    <3>2. CASE i \in 0 .. n
      BY <2>1, <3>2
    <3> QED
      BY <3>1, <3>2
  <2> HIDE DEF u
  <2> QED
    BY <2>2
<1>3. Len(f) \in S
  <2> HIDE DEF S
  <2> QED
    BY <1>1, <1>2, SetInduction
<1>4. Summed(f) = (CHOOSE t : Sums(Len(f), t))[Len(f)]
  BY DEF Summed, Accumulate
<1>5. PICK t : t = (CHOOSE u : Sums(Len(f), u))
  OBVIOUS
<1>6. Sums(Len(f), t)
  BY <1>3, <1>5
<1>7. /\ DOMAIN t = 0 .. Len(f)
      /\ t[0] = 0
      /\ \A i \in 1 .. Len(f) : t[i] = t[i - 1] + f[i]
  BY <1>6
<1>8. Summed(f) = t[Len(f)]
  BY <1>4, <1>5
<1> QED
  BY <1>7, <1>8

\* Nothing sums to nothing.
LEMMA SummedEmpty == Summed(<<>>) = 0
<1>1. Len(<<>>) = 0
  OBVIOUS
<1> QED
  BY <1>1, Running

\* The sum of integers is one, of naturals a natural that no element exceeds.
LEMMA SummedInt ==
  ASSUME NEW f \in Seq(Int)
  PROVE  Summed(f) \in Int
<1>0. Len(f) \in Nat
  OBVIOUS
<1>1. PICK t : /\ t[0] = 0
               /\ \A i \in 1 .. Len(f) : t[i] = t[i - 1] + f[i]
               /\ Summed(f) = t[Len(f)]
  BY <1>0, Running
<1> DEFINE S == {i \in Nat : t[i] \in Int}
<1>2. \A i \in 0 .. Len(f) - 1 : i \in S => i + 1 \in S
  BY <1>1
<1>3. Len(f) \in S
  <2>1. 0 \in S
    BY <1>1
  <2> HIDE DEF S
  <2> QED
    BY <1>2, <2>1, <1>0, Along
<1> QED
  BY <1>1, <1>3

\* A sum of natural numbers is one, and none of them is greater.
LEMMA SummedNat ==
  ASSUME NEW f \in Seq(Nat)
  PROVE  /\ Summed(f) \in Nat
         /\ \A j \in 1 .. Len(f) : f[j] <= Summed(f)
<1>0. Len(f) \in Nat
  OBVIOUS
<1>1. PICK t : /\ t[0] = 0
               /\ \A i \in 1 .. Len(f) : t[i] = t[i - 1] + f[i]
               /\ Summed(f) = t[Len(f)]
  BY <1>0, Running
<1> DEFINE S == {i \in Nat : t[i] \in Nat /\ \A j \in 1 .. i : f[j] <= t[i]}
<1>2. ASSUME NEW i \in 0 .. Len(f) - 1, i \in S PROVE i + 1 \in S
  <2>1. t[i + 1] = t[i] + f[i + 1] /\ f[i + 1] \in Nat /\ t[i] \in Nat
    BY <1>1, <1>2
  <2>2. ASSUME NEW j \in 1 .. i + 1 PROVE f[j] <= t[i + 1]
    <3>1. CASE j = i + 1
      BY <2>1, <3>1
    <3>2. CASE j \in 1 .. i
      <4>1. f[j] <= t[i] /\ f[j] \in Nat
        BY <1>2, <3>2
      <4> QED
        BY <2>1, <4>1
    <3> QED
      BY <3>1, <3>2
  <2> QED
    BY <2>1, <2>2
<1>3. Len(f) \in S
  <2>1. 0 \in S
    BY <1>1
  <2> HIDE DEF S
  <2> QED
    BY <1>2, <2>1, <1>0, Along
<1> QED
  BY <1>1, <1>3

\* One more element adds to the sum.
LEMMA SummedMore ==
  ASSUME NEW f \in Seq(Int), NEW g \in Seq(Int),
         Len(g) = Len(f) + 1, \A i \in 1 .. Len(f) : g[i] = f[i]
  PROVE  Summed(g) = Summed(f) + g[Len(g)]
<1>0. Len(f) \in Nat /\ Len(g) \in Nat
  OBVIOUS
<1>1. PICK t : /\ t[0] = 0
               /\ \A i \in 1 .. Len(f) : t[i] = t[i - 1] + f[i]
               /\ Summed(f) = t[Len(f)]
  BY <1>0, Running
<1>2. PICK u : /\ u[0] = 0
               /\ \A i \in 1 .. Len(g) : u[i] = u[i - 1] + g[i]
               /\ Summed(g) = u[Len(g)]
  BY <1>0, Running
<1> DEFINE S == {i \in Nat : u[i] = t[i]}
<1>3. \A i \in 0 .. Len(f) - 1 : i \in S => i + 1 \in S
  BY <1>1, <1>2
<1>4. Len(f) \in S
  <2>1. 0 \in S
    BY <1>1, <1>2
  <2> HIDE DEF S
  <2> QED
    BY <1>3, <2>1, <1>0, Along
<1> QED
  BY <1>1, <1>2, <1>4

\* A sum with one more number at its end.
LEMMA SummedAppend ==
  ASSUME NEW f \in Seq(Int), NEW x \in Int
  PROVE  Summed(Append(f, x)) = Summed(f) + x
<1>1. /\ Append(f, x) \in Seq(Int) /\ Len(Append(f, x)) = Len(f) + 1
      /\ \A i \in 1 .. Len(f) : Append(f, x)[i] = f[i]
      /\ Append(f, x)[Len(f) + 1] = x
  OBVIOUS
<1> QED
  BY <1>1, SummedMore

\* A list in two parts sums to the sum of the parts.
LEMMA SummedConcat ==
  ASSUME NEW f \in Seq(Int), NEW g \in Seq(Int)
  PROVE  Summed(f \o g) = Summed(f) + Summed(g)
<1>0. Len(f) \in Nat /\ Len(g) \in Nat
  OBVIOUS
<1> DEFINE h == f \o g
<1>1. /\ h \in Seq(Int) /\ Len(h) = Len(f) + Len(g) /\ Len(h) \in Nat
      /\ \A i \in 1 .. Len(f) : h[i] = f[i]
      /\ \A i \in 1 .. Len(g) : h[Len(f) + i] = g[i]
  OBVIOUS
<1> HIDE DEF h
<1>2. PICK t : /\ t[0] = 0
               /\ \A i \in 1 .. Len(f) : t[i] = t[i - 1] + f[i]
               /\ Summed(f) = t[Len(f)]
  BY <1>0, Running
<1>3. PICK u : /\ u[0] = 0
               /\ \A i \in 1 .. Len(g) : u[i] = u[i - 1] + g[i]
               /\ Summed(g) = u[Len(g)]
  BY <1>0, Running
<1>4. PICK v : /\ v[0] = 0
               /\ \A i \in 1 .. Len(h) : v[i] = v[i - 1] + h[i]
               /\ Summed(h) = v[Len(h)]
  BY <1>0, <1>1, Running
<1> DEFINE S == {i \in Nat : v[i] = t[i]}
           T == {i \in Nat : u[i] \in Int /\ v[Len(f) + i] = t[Len(f)] + u[i]}
<1>5. Len(f) \in S
  <2>1. \A i \in 0 .. Len(f) - 1 : i \in S => i + 1 \in S
    BY <1>1, <1>2, <1>4
  <2>2. 0 \in S
    BY <1>2, <1>4
  <2> HIDE DEF S
  <2> QED
    BY <2>1, <2>2, <1>0, Along
<1>6. Len(g) \in T
  <2>1. ASSUME NEW i \in 0 .. Len(g) - 1, i \in T PROVE i + 1 \in T
    <3>1. u[i + 1] = u[i] + g[i + 1] /\ g[i + 1] \in Int /\ u[i] \in Int
      BY <1>3, <2>1
    <3>2. v[Len(f) + (i + 1)] = v[Len(f) + i] + g[i + 1]
      <4>1. Len(f) + (i + 1) \in 1 .. Len(h) /\ (Len(f) + (i + 1)) - 1 = Len(f) + i
        BY <1>0, <1>1
      <4>2. h[Len(f) + (i + 1)] = g[i + 1]
        <5>1. i + 1 \in 1 .. Len(g)
          BY <1>0
        <5> QED
          BY <1>1, <5>1
      <4> QED
        BY <1>4, <4>1, <4>2
    <3>3. v[Len(f) + i] = t[Len(f)] + u[i] /\ t[Len(f)] \in Int
      BY <1>2, <2>1, SummedInt
    <3> QED
      BY <3>1, <3>2, <3>3
  <2>2. 0 \in T
    <3>1. t[Len(f)] \in Int
      BY <1>2, SummedInt
    <3> QED
      BY <1>3, <1>5, <3>1
  <2> HIDE DEF T
  <2> QED
    BY <2>1, <2>2, <1>0, Along
<1> QED
  BY <1>1, <1>2, <1>3, <1>4, <1>6 DEF h

\* Sums of two lists add up element by element.
LEMMA SummedPairs ==
  ASSUME NEW f \in Seq(Int), NEW g \in Seq(Int), NEW h \in Seq(Int),
         Len(f) = Len(h), Len(g) = Len(h), \A i \in 1 .. Len(h) : h[i] = f[i] + g[i]
  PROVE  Summed(h) = Summed(f) + Summed(g)
<1>0. Len(f) \in Nat /\ Len(g) \in Nat /\ Len(h) \in Nat
  OBVIOUS
<1>1. PICK t : /\ t[0] = 0
               /\ \A i \in 1 .. Len(f) : t[i] = t[i - 1] + f[i]
               /\ Summed(f) = t[Len(f)]
  BY <1>0, Running
<1>2. PICK u : /\ u[0] = 0
               /\ \A i \in 1 .. Len(g) : u[i] = u[i - 1] + g[i]
               /\ Summed(g) = u[Len(g)]
  BY <1>0, Running
<1>3. PICK v : /\ v[0] = 0
               /\ \A i \in 1 .. Len(h) : v[i] = v[i - 1] + h[i]
               /\ Summed(h) = v[Len(h)]
  BY <1>0, Running
<1> DEFINE S == {i \in Nat : t[i] \in Int /\ u[i] \in Int /\ v[i] = t[i] + u[i]}
<1>4. ASSUME NEW i \in 0 .. Len(h) - 1, i \in S PROVE i + 1 \in S
  <2>0. i + 1 \in 1 .. Len(h) /\ (i + 1) - 1 = i
    BY <1>0
  <2> DEFINE a == t[i]  b == u[i]  c == f[i + 1]  e == g[i + 1]
  <2>1. a \in Int /\ b \in Int /\ v[i] = a + b
    BY <1>4
  <2>2. c \in Int /\ e \in Int /\ h[i + 1] = c + e
    BY <2>0
  <2>3. t[i + 1] = a + c
    BY <1>1, <2>0
  <2>4. u[i + 1] = b + e
    BY <1>2, <2>0
  <2>5. v[i + 1] = v[i] + h[i + 1]
    BY <1>3, <2>0
  <2> HIDE DEF a, b, c, e
  <2>6. v[i + 1] = (a + b) + (c + e)
    BY <2>1, <2>2, <2>5
  <2>7. t[i + 1] \in Int /\ u[i + 1] \in Int /\ v[i + 1] = t[i + 1] + u[i + 1]
    BY <2>1, <2>2, <2>3, <2>4, <2>6
  <2> QED
    BY <2>0, <2>7
<1>5. Len(h) \in S
  <2>1. 0 \in S
    BY <1>1, <1>2, <1>3
  <2> HIDE DEF S
  <2> QED
    BY <1>4, <2>1, <1>0, Along
<1> QED
  BY <1>1, <1>2, <1>3, <1>5

\* Nothing but zeros sums to zero.
LEMMA SummedZero ==
  ASSUME NEW f \in Seq(Int), \A i \in 1 .. Len(f) : f[i] = 0
  PROVE  Summed(f) = 0
<1>0. Len(f) \in Nat
  OBVIOUS
<1>1. PICK t : /\ t[0] = 0
               /\ \A i \in 1 .. Len(f) : t[i] = t[i - 1] + f[i]
               /\ Summed(f) = t[Len(f)]
  BY <1>0, Running
<1> DEFINE S == {i \in Nat : t[i] = 0}
<1>2. \A i \in 0 .. Len(f) - 1 : i \in S => i + 1 \in S
  BY <1>1
<1>3. Len(f) \in S
  <2>1. 0 \in S
    BY <1>1
  <2> HIDE DEF S
  <2> QED
    BY <1>2, <2>1, <1>0, Along
<1> QED
  BY <1>1, <1>3

\* A single element that is not zero is the sum.
LEMMA SummedSingle ==
  ASSUME NEW f \in Seq(Int), NEW j \in 1 .. Len(f), \A i \in 1 .. Len(f) : i # j => f[i] = 0
  PROVE  Summed(f) = f[j]
<1>0. Len(f) \in Nat /\ f[j] \in Int
  OBVIOUS
<1>1. PICK t : /\ t[0] = 0
               /\ \A i \in 1 .. Len(f) : t[i] = t[i - 1] + f[i]
               /\ Summed(f) = t[Len(f)]
  BY <1>0, Running
<1> DEFINE S == {i \in Nat : t[i] = IF i < j THEN 0 ELSE f[j]}
<1>2. ASSUME NEW i \in 0 .. Len(f) - 1, i \in S PROVE i + 1 \in S
  <2>1. t[i + 1] = t[i] + f[i + 1] /\ i + 1 \in 1 .. Len(f)
    BY <1>0, <1>1
  <2>2. CASE i + 1 < j
    BY <1>2, <2>1, <2>2
  <2>3. CASE i + 1 = j
    BY <1>0, <1>2, <2>1, <2>3
  <2>4. CASE i + 1 > j
    BY <1>0, <1>2, <2>1, <2>4
  <2> QED
    BY <2>2, <2>3, <2>4
<1>3. Len(f) \in S
  <2>1. 0 \in S
    BY <1>1
  <2> HIDE DEF S
  <2> QED
    BY <1>0, <1>2, <2>1, Along
<1> QED
  BY <1>1, <1>3

\* Every number belongs to one of n owners: the sum is that of what each owner has.
LEMMA SummedByOwner ==
  ASSUME NEW x \in Seq(Int), NEW n \in Nat, NEW own \in [1 .. Len(x) -> 1 .. n]
  PROVE  Summed(x) = Summed([i \in 1 .. n |->
                              Summed([j \in 1 .. Len(x) |-> IF own[j] = i THEN x[j] ELSE 0])])
<1> DEFINE k == Len(x)
           Part(i) == [j \in 1 .. k |-> IF own[j] = i THEN x[j] ELSE 0]
           Upto(m) == [j \in 1 .. k |-> IF own[j] <= m THEN x[j] ELSE 0]
           Totals(m) == [i \in 1 .. m |-> Summed(Part(i))]
           S == {m \in Nat : Summed(Upto(m)) = Summed(Totals(m))}
<1>0. k \in Nat /\ \A j \in 1 .. k : x[j] \in Int /\ own[j] \in Nat
  OBVIOUS
<1>1. ASSUME NEW m \in Nat
      PROVE  /\ Part(m) \in Seq(Int) /\ Len(Part(m)) = k
             /\ Upto(m) \in Seq(Int) /\ Len(Upto(m)) = k
  <2> HIDE DEF k
  <2>1. Part(m) \in [1 .. k -> Int] /\ Upto(m) \in [1 .. k -> Int]
    BY <1>0
  <2> HIDE DEF Part, Upto
  <2> QED
    BY <1>0, <2>1
<1>2. ASSUME NEW m \in Nat PROVE Totals(m) \in Seq(Int) /\ Len(Totals(m)) = m
  <2>1. \A i \in 1 .. m : Summed(Part(i)) \in Int
    <3> HIDE DEF Part
    <3> QED
      BY <1>1, SummedInt
  <2> HIDE DEF Part
  <2>2. Totals(m) \in [1 .. m -> Int]
    BY <2>1
  <2> HIDE DEF Totals
  <2> QED
    BY <2>2
<1>3. 0 \in S
  <2>1. \A j \in 1 .. k : Upto(0)[j] = 0
    OBVIOUS
  <2> HIDE DEF Upto
  <2>2. Summed(Upto(0)) = 0
    BY <1>1, <2>1, SummedZero
  <2>3. Summed(Totals(0)) = 0
    <3>1. \A j \in 1 .. Len(Totals(0)) : Totals(0)[j] = 0
      <4> HIDE DEF Totals
      <4> QED
        BY <1>2
    <3> HIDE DEF Totals
    <3> QED
      BY <1>2, <3>1, SummedZero
  <2> QED
    BY <2>2, <2>3
<1>4. ASSUME NEW m \in Nat, m \in S PROVE m + 1 \in S
  <2>1. \A j \in 1 .. k : Upto(m + 1)[j] = Upto(m)[j] + Part(m + 1)[j]
    BY <1>0
  <2>2. \A i \in 1 .. m : Totals(m + 1)[i] = Totals(m)[i]
    OBVIOUS
  <2>3. Totals(m + 1)[m + 1] = Summed(Part(m + 1))
    OBVIOUS
  <2>4. Summed(Upto(m)) = Summed(Totals(m))
    BY <1>4
  <2> HIDE DEF Upto, Part, Totals, k
  <2>5. Summed(Upto(m + 1)) = Summed(Upto(m)) + Summed(Part(m + 1))
    BY <1>1, <2>1, SummedPairs
  <2>6. Summed(Totals(m + 1)) = Summed(Totals(m)) + Summed(Part(m + 1))
    <3>1. /\ Totals(m) \in Seq(Int) /\ Len(Totals(m)) = m
          /\ Totals(m + 1) \in Seq(Int) /\ Len(Totals(m + 1)) = m + 1
      BY <1>2
    <3>2. Summed(Totals(m + 1)) = Summed(Totals(m)) + Totals(m + 1)[Len(Totals(m + 1))]
      BY <2>2, <3>1, SummedMore
    <3> QED
      BY <2>3, <3>1, <3>2
  <2> QED
    BY <2>4, <2>5, <2>6
<1>5. n \in S
  <2> HIDE DEF S
  <2> QED
    BY <1>3, <1>4, SetInduction
<1>6. Upto(n) = x
  <2>1. \A j \in 1 .. k : own[j] <= n
    <3>1. \A j \in 1 .. k : own[j] \in 1 .. n
      OBVIOUS
    <3> QED
      BY <3>1
  <2>2. x = [j \in 1 .. k |-> x[j]]
    OBVIOUS
  <2> HIDE DEF k
  <2>3. Upto(n) = [j \in 1 .. k |-> x[j]]
    BY <2>1
  <2> QED
    BY <2>2, <2>3
<1> QED
  BY <1>5, <1>6

\* Equal sums of which no element exceeds its partner are equal element by element.
LEMMA SummedTight ==
  ASSUME NEW f \in Seq(Int), NEW g \in Seq(Int), Len(f) = Len(g),
         \A i \in 1 .. Len(g) : f[i] <= g[i], Summed(f) = Summed(g)
  PROVE  \A i \in 1 .. Len(g) : f[i] = g[i]
<1> DEFINE d == [i \in 1 .. Len(g) |-> g[i] - f[i]]
<1>1. d \in Seq(Nat) /\ d \in Seq(Int) /\ Len(d) = Len(g)
  OBVIOUS
<1>2. \A i \in 1 .. Len(g) : d[i] = g[i] - f[i] /\ g[i] = f[i] + d[i]
  OBVIOUS
<1> HIDE DEF d
<1>3. Summed(g) = Summed(f) + Summed(d)
  BY <1>1, <1>2, SummedPairs
<1>4. Summed(d) = 0
  BY <1>1, <1>3, SummedInt
<1>5. \A i \in 1 .. Len(g) : d[i] <= 0 /\ d[i] \in Nat
  BY <1>1, <1>4, SummedNat
<1>6. ASSUME NEW i \in 1 .. Len(g) PROVE f[i] = g[i]
  <2>1. f[i] \in Int /\ g[i] \in Int
    OBVIOUS
  <2>2. d[i] = 0
    BY <1>5
  <2> QED
    BY <1>2, <2>1, <2>2
<1> QED
  BY <1>6

\* The values of a loop after each round.
Rounded(n, start, g, t) == t = [i \in 0 .. n |-> IF i = 0 THEN start ELSE g[<<i, t[i - 1]>>]]

\* A loop that stays within X has its values there, one for each round.
LEMMA Rounds ==
  ASSUME NEW n \in Nat, NEW X, NEW start \in X, NEW g, \A i \in 1 .. n, x \in X : g[<<i, x>>] \in X
  PROVE  \E t : Rounded(n, start, g, t) /\ \A i \in 0 .. n : t[i] \in X
<1> DEFINE Loops(m, t) == t = [i \in 0 .. m |-> IF i = 0 THEN start ELSE g[<<i, t[i - 1]>>]]
           S == {m \in Nat : \E t : Loops(m, t) /\ \A i \in 0 .. m : t[i] \in X}
<1>1. 0 \in S
  <2>1. Loops(0, [i \in 0 .. 0 |-> start])
    OBVIOUS
  <2>2. \A i \in 0 .. 0 : [j \in 0 .. 0 |-> start][i] \in X
    OBVIOUS
  <2> HIDE DEF Loops
  <2> QED
    BY <2>1, <2>2
<1>2. ASSUME NEW m \in 0 .. n - 1, m \in S PROVE m + 1 \in S
  <2>1. PICK t : Loops(m, t) /\ \A i \in 0 .. m : t[i] \in X
    BY <1>2
  <2> DEFINE last == g[<<m + 1, t[m]>>]
             u == [i \in 0 .. m + 1 |-> IF i = m + 1 THEN last ELSE t[i]]
  <2>2. last \in X
    <3>1. t[m] \in X /\ m + 1 \in 1 .. n
      BY <2>1
    <3> QED
      BY <3>1
  <2> HIDE DEF last
  <2>3. Loops(m + 1, u)
    <3> SUFFICES ASSUME NEW i \in 0 .. m + 1
                 PROVE  u[i] = IF i = 0 THEN start ELSE g[<<i, u[i - 1]>>]
      OBVIOUS
    <3>1. CASE i = m + 1
      <4>1. u[i] = last /\ u[i - 1] = t[m] /\ i # 0
        BY <3>1
      <4> QED
        BY <3>1, <4>1 DEF last
    <3>2. CASE i \in 0 .. m
      <4>1. u[i] = t[i] /\ (i # 0 => u[i - 1] = t[i - 1])
        BY <3>2
      <4>2. t[i] = IF i = 0 THEN start ELSE g[<<i, t[i - 1]>>]
        BY <2>1, <3>2
      <4> HIDE DEF u
      <4> QED
        BY <4>1, <4>2
    <3> QED
      BY <3>1, <3>2
  <2>4. ASSUME NEW i \in 0 .. m + 1 PROVE u[i] \in X
    BY <2>1, <2>2
  <2> HIDE DEF u, Loops
  <2> QED
    BY <2>3, <2>4
<1>3. n \in S
  <2> HIDE DEF S
  <2> QED
    BY <1>1, <1>2, Along
<1> QED
  BY <1>3 DEF Rounded

\* What is in X at first, and in every round if it was before, is in X at the end.
LEMMA Stays ==
  ASSUME NEW n \in Nat, NEW X, NEW t, t[0] \in X, \A i \in 1 .. n : t[i - 1] \in X => t[i] \in X
  PROVE  t[n] \in X
<1> DEFINE S == {i \in Nat : t[i] \in X}
<1>1. 0 \in S /\ \A i \in 0 .. n - 1 : i \in S => i + 1 \in S
  <2>1. ASSUME NEW i \in 0 .. n - 1, t[i] \in X PROVE t[i + 1] \in X
    <3>1. i + 1 \in 1 .. n /\ (i + 1) - 1 = i
      OBVIOUS
    <3> QED
      BY <2>1, <3>1
  <2> QED
    BY <2>1
<1>2. n \in S
  <2> HIDE DEF S
  <2> QED
    BY <1>1, Along
<1> QED
  BY <1>2

-----------------------------------------------------------------------------
(* Parts of lists, and lists put together *)

\* What Only has kept after each element, of which it takes the last.
LEMMA Keeping ==
  ASSUME NEW s, NEW A, Len(s) \in Nat
  PROVE  \E t : /\ t[0] = <<>>
                /\ \A i \in 1 .. Len(s) : t[i] = IF s[i] \in A THEN Append(t[i - 1], s[i]) ELSE t[i - 1]
                /\ Only(s, A) = t[Len(s)]
<1> DEFINE Keeps(n, t) ==
             t = [i \in 0 .. n |-> IF i = 0 THEN <<>> ELSE IF s[i] \in A THEN Append(t[i - 1], s[i]) ELSE t[i - 1]]
           S == {n \in Nat : \E t : Keeps(n, t)}
<1>1. 0 \in S
  <2>1. Keeps(0, [i \in 0 .. 0 |-> <<>>])
    OBVIOUS
  <2> QED
    BY <2>1
<1>2. ASSUME NEW n \in Nat, n \in S PROVE n + 1 \in S
  <2>1. PICK t : Keeps(n, t)
    BY <1>2
  <2> DEFINE last == IF s[n + 1] \in A THEN Append(t[n], s[n + 1]) ELSE t[n]
             u == [i \in 0 .. n + 1 |-> IF i = n + 1 THEN last ELSE t[i]]
  <2>2. Keeps(n + 1, u)
    <3> SUFFICES ASSUME NEW i \in 0 .. n + 1
                 PROVE  u[i] = IF i = 0 THEN <<>> ELSE IF s[i] \in A THEN Append(u[i - 1], s[i]) ELSE u[i - 1]
      OBVIOUS
    <3>1. CASE i = n + 1
      BY <3>1
    <3>2. CASE i \in 0 .. n
      <4>1. u[i] = t[i] /\ (i # 0 => u[i - 1] = t[i - 1])
        BY <3>2
      <4>2. t[i] = IF i = 0 THEN <<>> ELSE IF s[i] \in A THEN Append(t[i - 1], s[i]) ELSE t[i - 1]
        BY <2>1, <3>2
      <4> HIDE DEF u
      <4> QED
        BY <4>1, <4>2
    <3> QED
      BY <3>1, <3>2
  <2> HIDE DEF u, Keeps
  <2> QED
    BY <2>2
<1>3. Len(s) \in S
  <2> HIDE DEF S
  <2> QED
    BY <1>1, <1>2, SetInduction
<1>4. Only(s, A) = (CHOOSE t : Keeps(Len(s), t))[Len(s)]
  BY DEF Only, Accumulate
<1>5. PICK t : t = (CHOOSE u : Keeps(Len(s), u))
  OBVIOUS
<1>6. Keeps(Len(s), t)
  BY <1>3, <1>5
<1>7. /\ t[0] = <<>>
      /\ \A i \in 1 .. Len(s) : t[i] = IF s[i] \in A THEN Append(t[i - 1], s[i]) ELSE t[i - 1]
  <2>1. \A i \in 0 .. Len(s) :
          t[i] = IF i = 0 THEN <<>> ELSE IF s[i] \in A THEN Append(t[i - 1], s[i]) ELSE t[i - 1]
    BY <1>6
  <2> QED
    BY <2>1
<1>8. Only(s, A) = t[Len(s)]
  BY <1>4, <1>5
<1> QED
  BY <1>7, <1>8

\* Only keeps elements of the list, in their order: e says where each comes from.
LEMMA OnlyEmbeds ==
  ASSUME NEW R, NEW s \in Seq(R), NEW A
  PROVE  /\ Only(s, A) \in Seq(R \cap A)
         /\ \E e \in [1 .. Len(Only(s, A)) -> 1 .. Len(s)] :
              /\ \A j \in 1 .. Len(Only(s, A)) : Only(s, A)[j] = s[e[j]]
              /\ \A j, k \in 1 .. Len(Only(s, A)) : j < k => e[j] < e[k]
<1>0. Len(s) \in Nat
  OBVIOUS
<1>1. PICK t : /\ t[0] = <<>>
               /\ \A i \in 1 .. Len(s) : t[i] = IF s[i] \in A THEN Append(t[i - 1], s[i]) ELSE t[i - 1]
               /\ Only(s, A) = t[Len(s)]
  BY <1>0, Keeping
<1> DEFINE Embeds(i, r, e) == /\ e \in [1 .. Len(r) -> 1 .. i]
                              /\ \A j \in 1 .. Len(r) : r[j] = s[e[j]]
                              /\ \A j, k \in 1 .. Len(r) : j < k => e[j] < e[k]
           S == {i \in Nat : t[i] \in Seq(R \cap A) /\ \E e : Embeds(i, t[i], e)}
<1>2. 0 \in S
  <2>1. <<>> \in Seq(R \cap A) /\ Len(<<>>) = 0
    OBVIOUS
  <2>2. Embeds(0, <<>>, [j \in 1 .. 0 |-> 0])
    BY <2>1
  <2> HIDE DEF Embeds
  <2> QED
    BY <1>1, <2>1, <2>2
<1>3. ASSUME NEW i \in 0 .. Len(s) - 1, i \in S PROVE i + 1 \in S
  <2>0. i + 1 \in 1 .. Len(s) /\ (i + 1) - 1 = i /\ i \in Nat /\ s[i + 1] \in R
    BY <1>0
  <2>1. t[i] \in Seq(R \cap A) /\ Len(t[i]) \in Nat
    BY <1>3
  <2>2. PICK e : Embeds(i, t[i], e)
    BY <1>3
  <2>3. CASE s[i + 1] \in A
    <3> DEFINE r == Append(t[i], s[i + 1])
               f == [j \in 1 .. Len(t[i]) + 1 |-> IF j = Len(t[i]) + 1 THEN i + 1 ELSE e[j]]
    <3>1. t[i + 1] = r
      BY <1>1, <2>0, <2>3
    <3>2. /\ r \in Seq(R \cap A) /\ Len(r) = Len(t[i]) + 1 /\ r[Len(t[i]) + 1] = s[i + 1]
          /\ \A j \in 1 .. Len(t[i]) : r[j] = t[i][j]
      BY <2>0, <2>1, <2>3
    <3>3. f \in [1 .. Len(r) -> 1 .. i + 1]
      BY <2>0, <2>1, <2>2, <3>2
    <3>4. ASSUME NEW j \in 1 .. Len(r) PROVE r[j] = s[f[j]]
      <4>1. CASE j = Len(t[i]) + 1
        BY <3>2, <4>1
      <4>2. CASE j \in 1 .. Len(t[i])
        BY <2>1, <2>2, <3>2, <4>2
      <4> QED
        BY <2>1, <3>2, <4>1, <4>2
    <3>5. ASSUME NEW j \in 1 .. Len(r), NEW k \in 1 .. Len(r), j < k PROVE f[j] < f[k]
      <4>0. j \in 1 .. Len(t[i])
        BY <2>1, <3>2, <3>5
      <4>1. e[j] \in 1 .. i /\ f[j] = e[j]
        <5>1. e \in [1 .. Len(t[i]) -> 1 .. i]
          BY <2>2
        <5>2. j # Len(t[i]) + 1 /\ j \in 1 .. Len(t[i]) + 1
          BY <2>1, <4>0
        <5> QED
          BY <5>1, <5>2, <4>0
      <4>2. CASE k = Len(t[i]) + 1
        BY <2>0, <3>2, <4>0, <4>1, <4>2
      <4>3. CASE k \in 1 .. Len(t[i])
        BY <2>1, <2>2, <3>5, <4>0, <4>1, <4>3
      <4> QED
        BY <2>1, <3>2, <4>2, <4>3
    <3> HIDE DEF r, f
    <3>6. Embeds(i + 1, r, f)
      BY <3>3, <3>4, <3>5
    <3> HIDE DEF Embeds
    <3> QED
      BY <2>0, <3>1, <3>2, <3>6
  <2>4. CASE s[i + 1] \notin A
    <3>1. t[i + 1] = t[i]
      BY <1>1, <2>0, <2>4
    <3>2. Embeds(i + 1, t[i], e)
      <4>1. e \in [1 .. Len(t[i]) -> 1 .. i + 1]
        BY <2>0, <2>2
      <4> QED
        BY <2>2, <4>1
    <3> HIDE DEF Embeds
    <3> QED
      BY <2>0, <2>1, <3>1, <3>2
  <2> QED
    BY <2>3, <2>4
<1>4. Len(s) \in S
  <2> HIDE DEF S
  <2> QED
    BY <1>0, <1>2, <1>3, Along
<1>5. Only(s, A) \in Seq(R \cap A) /\ \E e : Embeds(Len(s), Only(s, A), e)
  BY <1>1, <1>4
<1> QED
  BY <1>5

\* What is all in the set is kept as it is.
LEMMA OnlyAll ==
  ASSUME NEW R, NEW s \in Seq(R), NEW A, \A i \in 1 .. Len(s) : s[i] \in A
  PROVE  Only(s, A) = s
<1>0. Len(s) \in Nat
  OBVIOUS
<1>1. PICK t : /\ t[0] = <<>>
               /\ \A i \in 1 .. Len(s) : t[i] = IF s[i] \in A THEN Append(t[i - 1], s[i]) ELSE t[i - 1]
               /\ Only(s, A) = t[Len(s)]
  BY <1>0, Keeping
<1> DEFINE S == {i \in Nat : t[i] \in Seq(R) /\ Len(t[i]) = i /\ \A j \in 1 .. i : t[i][j] = s[j]}
<1>2. 0 \in S
  <2>1. t[0] = <<>> /\ <<>> \in Seq(R) /\ Len(<<>>) = 0
    BY <1>1
  <2>2. t[0] \in Seq(R) /\ Len(t[0]) = 0 /\ \A j \in 1 .. 0 : t[0][j] = s[j]
    BY <2>1
  <2> QED
    BY <2>2
<1>3. ASSUME NEW i \in 0 .. Len(s) - 1, i \in S PROVE i + 1 \in S
  <2>0. i + 1 \in 1 .. Len(s) /\ (i + 1) - 1 = i /\ s[i + 1] \in R
    BY <1>0
  <2>1. t[i + 1] = Append(t[i], s[i + 1])
    BY <1>1, <2>0
  <2>2. t[i] \in Seq(R) /\ Len(t[i]) = i /\ \A j \in 1 .. i : t[i][j] = s[j]
    BY <1>3
  <2>3. /\ t[i + 1] \in Seq(R) /\ Len(t[i + 1]) = i + 1
        /\ t[i + 1][i + 1] = s[i + 1] /\ \A j \in 1 .. i : t[i + 1][j] = t[i][j]
    BY <2>0, <2>1, <2>2
  <2> QED
    BY <2>0, <2>2, <2>3
<1>4. Len(s) \in S
  <2> HIDE DEF S
  <2> QED
    BY <1>0, <1>2, <1>3, Along
<1>5. Only(s, A) \in Seq(R) /\ Len(Only(s, A)) = Len(s) /\ \A j \in 1 .. Len(s) : Only(s, A)[j] = s[j]
  BY <1>1, <1>4
<1> QED
  BY <1>5

\* Of what is nowhere in the list, nothing is kept.
LEMMA OnlyNone ==
  ASSUME NEW R, NEW s \in Seq(R), NEW A, \A i \in 1 .. Len(s) : s[i] \notin A
  PROVE  Only(s, A) = <<>>
<1> DEFINE r == Only(s, A)
<1>1. r \in Seq(R \cap A) /\ Len(r) \in Nat
  BY OnlyEmbeds
<1>2. PICK e \in [1 .. Len(r) -> 1 .. Len(s)] :
        /\ \A j \in 1 .. Len(r) : r[j] = s[e[j]]
        /\ \A j, k \in 1 .. Len(r) : j < k => e[j] < e[k]
  BY OnlyEmbeds
<1> HIDE DEF r
<1>3. ASSUME NEW j \in 1 .. Len(r) PROVE FALSE
  <2>1. r[j] \in A
    BY <1>1
  <2>2. r[j] = s[e[j]] /\ e[j] \in 1 .. Len(s)
    BY <1>2
  <2> QED
    BY <2>1, <2>2
<1>4. Len(r) = 0
  <2> SUFFICES ASSUME Len(r) # 0 PROVE FALSE
    OBVIOUS
  <2>1. 1 \in 1 .. Len(r)
    BY <1>1
  <2> QED
    BY <1>3, <2>1
<1>5. r = <<>>
  BY <1>1, <1>4
<1> QED
  BY <1>5 DEF r

\* Distinct keys stay distinct, and no key is added.
LEMMA OnlyDistinct ==
  ASSUME NEW R, NEW s \in Seq(R), NEW A,
         \A i, j \in 1 .. Len(s) : s[i].id = s[j].id => i = j
  PROVE  /\ \A i, j \in 1 .. Len(Only(s, A)) : Only(s, A)[i].id = Only(s, A)[j].id => i = j
         /\ \A i \in 1 .. Len(Only(s, A)) : \E j \in 1 .. Len(s) : Only(s, A)[i] = s[j]
<1> DEFINE r == Only(s, A)
<1>1. PICK e \in [1 .. Len(r) -> 1 .. Len(s)] :
        /\ \A j \in 1 .. Len(r) : r[j] = s[e[j]]
        /\ \A j, k \in 1 .. Len(r) : j < k => e[j] < e[k]
  BY OnlyEmbeds
<1>2. r \in Seq(R \cap A) /\ Len(r) \in Nat
  BY OnlyEmbeds
<1> HIDE DEF r
<1>3. ASSUME NEW i \in 1 .. Len(r), NEW j \in 1 .. Len(r), r[i].id = r[j].id PROVE i = j
  <2>1. e[i] = e[j]
    BY <1>1, <1>3
  <2>2. ~(i < j) /\ ~(j < i)
    BY <1>1, <2>1
  <2> QED
    BY <1>2, <2>2
<1>4. ASSUME NEW i \in 1 .. Len(r) PROVE \E j \in 1 .. Len(s) : r[i] = s[j]
  BY <1>1
<1> QED
  BY <1>3, <1>4 DEF r

\* What Joined has after each list, of which it takes the last.
LEMMA Joining ==
  ASSUME NEW s, Len(s) \in Nat
  PROVE  \E t : /\ t[0] = <<>>
                /\ \A i \in 1 .. Len(s) : t[i] = t[i - 1] \o s[i]
                /\ Joined(s) = t[Len(s)]
<1> DEFINE Joins(n, t) == t = [i \in 0 .. n |-> IF i = 0 THEN <<>> ELSE t[i - 1] \o s[i]]
           S == {n \in Nat : \E t : Joins(n, t)}
<1>1. 0 \in S
  <2>1. Joins(0, [i \in 0 .. 0 |-> <<>>])
    OBVIOUS
  <2> QED
    BY <2>1
<1>2. ASSUME NEW n \in Nat, n \in S PROVE n + 1 \in S
  <2>1. PICK t : Joins(n, t)
    BY <1>2
  <2> DEFINE last == t[n] \o s[n + 1]
             u == [i \in 0 .. n + 1 |-> IF i = n + 1 THEN last ELSE t[i]]
  <2>2. Joins(n + 1, u)
    <3> SUFFICES ASSUME NEW i \in 0 .. n + 1
                 PROVE  u[i] = IF i = 0 THEN <<>> ELSE u[i - 1] \o s[i]
      OBVIOUS
    <3>1. CASE i = n + 1
      BY <3>1
    <3>2. CASE i \in 0 .. n
      <4>1. u[i] = t[i] /\ (i # 0 => u[i - 1] = t[i - 1])
        BY <3>2
      <4>2. t[i] = IF i = 0 THEN <<>> ELSE t[i - 1] \o s[i]
        BY <2>1, <3>2
      <4> HIDE DEF u
      <4> QED
        BY <4>1, <4>2
    <3> QED
      BY <3>1, <3>2
  <2> HIDE DEF u, Joins
  <2> QED
    BY <2>2
<1>3. Len(s) \in S
  <2> HIDE DEF S
  <2> QED
    BY <1>1, <1>2, SetInduction
<1>4. Joined(s) = (CHOOSE t : Joins(Len(s), t))[Len(s)]
  BY DEF Joined, Accumulate
<1>5. PICK t : t = (CHOOSE u : Joins(Len(s), u))
  OBVIOUS
<1>6. Joins(Len(s), t)
  BY <1>3, <1>5
<1>7. t[0] = <<>> /\ \A i \in 1 .. Len(s) : t[i] = t[i - 1] \o s[i]
  <2>1. \A i \in 0 .. Len(s) : t[i] = IF i = 0 THEN <<>> ELSE t[i - 1] \o s[i]
    BY <1>6
  <2>2. t[0] = <<>>
    BY <2>1
  <2>3. ASSUME NEW i \in 1 .. Len(s) PROVE t[i] = t[i - 1] \o s[i]
    <3>1. i \in 0 .. Len(s) /\ i # 0
      OBVIOUS
    <3> QED
      BY <2>1, <3>1
  <2> QED
    BY <2>2, <2>3
<1>8. Joined(s) = t[Len(s)]
  BY <1>4, <1>5
<1> QED
  BY <1>7, <1>8

\* Lists joined are a list of their elements.
LEMMA JoinedSeq ==
  ASSUME NEW R, NEW s, Len(s) \in Nat, \A i \in 1 .. Len(s) : s[i] \in Seq(R)
  PROVE  Joined(s) \in Seq(R)
<1>1. PICK t : /\ t[0] = <<>>
               /\ \A i \in 1 .. Len(s) : t[i] = t[i - 1] \o s[i]
               /\ Joined(s) = t[Len(s)]
  BY Joining
<1> DEFINE S == {i \in Nat : t[i] \in Seq(R)}
<1>2. 0 \in S
  <2>1. t[0] = <<>> /\ <<>> \in Seq(R)
    BY <1>1
  <2> QED
    BY <2>1
<1>3. ASSUME NEW i \in 0 .. Len(s) - 1, i \in S PROVE i + 1 \in S
  <2>0. i + 1 \in 1 .. Len(s) /\ (i + 1) - 1 = i
    OBVIOUS
  <2> DEFINE a == t[i]  b == s[i + 1]
  <2>1. t[i + 1] = a \o b /\ a \in Seq(R) /\ b \in Seq(R)
    BY <1>1, <1>3, <2>0
  <2> HIDE DEF a, b
  <2>2. a \o b \in Seq(R)
    BY <2>1
  <2>3. t[i + 1] \in Seq(R)
    BY <2>1, <2>2
  <2> QED
    BY <2>0, <2>3
<1>4. Len(s) \in S
  <2> HIDE DEF S
  <2> QED
    BY <1>2, <1>3, Along
<1> QED
  BY <1>1, <1>4

\* One element more.
LEMMA PutAfterSeq ==
  ASSUME NEW R, NEW s \in Seq(R), NEW n \in 0 .. Len(s), NEW x \in R
  PROVE  PutAfter(s, n, x) \in Seq(R) /\ Len(PutAfter(s, n, x)) = Len(s) + 1
<1> DEFINE a == SubSeq(s, 1, n)  b == SubSeq(s, n + 1, Len(s))
<1>0. Len(s) \in Nat /\ n \in Int
  OBVIOUS
<1>1. a \in Seq(R) /\ Len(a) = n
  OBVIOUS
<1>2. b \in Seq(R) /\ Len(b) = Len(s) - n
  OBVIOUS
<1> HIDE DEF a, b
<1>3. Append(a, x) \in Seq(R) /\ Len(Append(a, x)) = n + 1
  BY <1>1
<1>4. Append(a, x) \o b \in Seq(R) /\ Len(Append(a, x) \o b) = (n + 1) + (Len(s) - n)
  BY <1>2, <1>3
<1>5. PutAfter(s, n, x) = Append(a, x) \o b
  BY DEF PutAfter, a, b
<1>6. (n + 1) + (Len(s) - n) = Len(s) + 1
  BY <1>0
<1> QED
  BY <1>4, <1>5, <1>6

\* The numbers of a list have a bound.
LEMMA Bounded ==
  ASSUME NEW n \in Nat, NEW f, \A i \in 1 .. n : f[i] \in Nat
  PROVE  \E m \in Nat : \A i \in 1 .. n : f[i] <= m
<1> DEFINE S == {k \in Nat : \E m \in Nat : \A i \in 1 .. k : f[i] <= m}
<1>1. 0 \in S
  OBVIOUS
<1>2. ASSUME NEW k \in 0 .. n - 1, k \in S PROVE k + 1 \in S
  <2>1. PICK m \in Nat : \A i \in 1 .. k : f[i] <= m
    BY <1>2
  <2> DEFINE M == IF f[k + 1] <= m THEN m ELSE f[k + 1]
  <2>2. M \in Nat /\ m <= M /\ f[k + 1] <= M /\ f[k + 1] \in Nat
    OBVIOUS
  <2>3. ASSUME NEW i \in 1 .. k + 1 PROVE f[i] <= M
    <3>1. CASE i = k + 1
      BY <2>2, <3>1
    <3>2. CASE i \in 1 .. k
      <4>1. f[i] <= m /\ f[i] \in Nat
        BY <2>1, <3>2
      <4> HIDE DEF M
      <4> QED
        BY <2>2, <4>1
    <3> QED
      BY <3>1, <3>2
  <2> HIDE DEF M
  <2> QED
    BY <2>2, <2>3
<1>3. n \in S
  <2> HIDE DEF S
  <2> QED
    BY <1>1, <1>2, Along
<1> QED
  BY <1>3

\* Distinct values of n elements are n.
LEMMA DistinctCount ==
  ASSUME NEW n \in Nat, NEW f, \A i, j \in 1 .. n : f[i] = f[j] => i = j
  PROVE  Cardinality({f[i] : i \in 1 .. n}) = n
<1> DEFINE V == {f[i] : i \in 1 .. n}
           g == [i \in 1 .. n |-> f[i]]
<1>1. g \in Bijection(1 .. n, V)
  <2>1. g \in [1 .. n -> V]
    OBVIOUS
  <2>2. \A i, j \in 1 .. n : g[i] = g[j] => i = j
    OBVIOUS
  <2>3. \A v \in V : \E i \in 1 .. n : g[i] = v
    OBVIOUS
  <2> HIDE DEF g, V
  <2> QED
    BY <2>1, <2>2, <2>3 DEF Bijection, Injection, Surjection, IsInjective
<1>2. ExistsBijection(1 .. n, V)
  BY <1>1 DEF ExistsBijection
<1>3. IsFiniteSet(1 .. n) /\ Cardinality(1 .. n) = n
  BY FS_Interval
<1> HIDE DEF V
<1>4. Cardinality(V) = Cardinality(1 .. n)
  BY <1>2, <1>3, FS_Bijection
<1> QED
  BY <1>3, <1>4 DEF V

\* A list, of whatever elements it has.
IsList(s) == s \in Seq({s[i] : i \in DOMAIN s})

\* Every sequence is such a list.
LEMMA ListIntro ==
  ASSUME NEW R, NEW s \in Seq(R)
  PROVE  IsList(s) /\ Len(s) \in Nat /\ DOMAIN s = 1 .. Len(s)
<1>1. s \in [1 .. Len(s) -> R] /\ Len(s) \in Nat /\ DOMAIN s = 1 .. Len(s)
  OBVIOUS
<1>2. s \in [1 .. Len(s) -> {s[i] : i \in DOMAIN s}]
  BY <1>1
<1>3. ASSUME NEW Q, s \in [1 .. Len(s) -> Q] PROVE s \in Seq(Q)
  BY <1>1, <1>3
<1>4. s \in Seq({s[i] : i \in DOMAIN s})
  BY <1>2, <1>3
<1> QED
  BY <1>1, <1>4 DEF IsList

\* And such a list is a sequence over every set that has its elements.
LEMMA ListElim ==
  ASSUME NEW s, IsList(s)
  PROVE  /\ s \in Seq({s[i] : i \in DOMAIN s}) /\ Len(s) \in Nat /\ DOMAIN s = 1 .. Len(s)
         /\ \A R : (\A i \in 1 .. Len(s) : s[i] \in R) => s \in Seq(R)
<1>1. s \in [1 .. Len(s) -> {s[i] : i \in DOMAIN s}] /\ Len(s) \in Nat /\ DOMAIN s = 1 .. Len(s)
  BY DEF IsList
<1>2. ASSUME NEW R, \A i \in 1 .. Len(s) : s[i] \in R PROVE s \in Seq(R)
  <2>1. s \in [1 .. Len(s) -> R]
    BY <1>1, <1>2
  <2> QED
    BY <1>1, <2>1
<1> QED
  BY <1>1, <1>2 DEF IsList

\* A function on 1 .. n is a list of length n.
LEMMA ListOf ==
  ASSUME NEW n \in Nat, NEW f, f = [i \in 1 .. n |-> f[i]]
  PROVE  IsList(f) /\ Len(f) = n
<1>1. f \in [1 .. n -> {f[i] : i \in 1 .. n}] /\ DOMAIN f = 1 .. n
  OBVIOUS
<1>2. f \in Seq({f[i] : i \in 1 .. n})
  BY <1>1
<1>3. Len(f) = n
  BY <1>1, <1>2
<1> QED
  BY <1>2, <1>3, ListIntro

\* Some of the positions of a list are not more than its length.
LEMMA PositionsCount ==
  ASSUME NEW s, Len(s) \in Nat, NEW D \in SUBSET (1 .. Len(s))
  PROVE  Cardinality(D) \in 0 .. Len(s)
<1>1. IsFiniteSet(1 .. Len(s)) /\ Cardinality(1 .. Len(s)) = Len(s)
  BY FS_Interval
<1>2. Cardinality(D) \in Nat /\ Cardinality(D) <= Len(s)
  BY <1>1, FS_Subset, FS_CardinalityType
<1> QED
  BY <1>2

\* A list of which an element is replaced.
LEMMA ListExcept ==
  ASSUME NEW s, IsList(s), NEW i, NEW v, NEW u, u = [s EXCEPT ![i] = v]
  PROVE  IsList(u) /\ Len(u) = Len(s) /\ \A j \in 1 .. Len(s) : u[j] = IF j = i THEN v ELSE s[j]
<1>1. Len(s) \in Nat /\ DOMAIN s = 1 .. Len(s)
  BY ListElim
<1>2. u = [j \in 1 .. Len(s) |-> u[j]] /\ \A j \in 1 .. Len(s) : u[j] = IF j = i THEN v ELSE s[j]
  BY <1>1
<1> QED
  BY <1>1, <1>2, ListOf

\* And one that is added to.
LEMMA ListAppend ==
  ASSUME NEW s, IsList(s), NEW v
  PROVE  /\ IsList(Append(s, v)) /\ Len(Append(s, v)) = Len(s) + 1
         /\ Append(s, v)[Len(s) + 1] = v /\ \A j \in 1 .. Len(s) : Append(s, v)[j] = s[j]
<1> DEFINE R == {s[i] : i \in DOMAIN s} \cup {v}
<1>1. Len(s) \in Nat /\ DOMAIN s = 1 .. Len(s)
  BY ListElim
<1>2. \A i \in 1 .. Len(s) : s[i] \in R
  BY <1>1
<1>3. v \in R
  OBVIOUS
<1> HIDE DEF R
<1>4. s \in Seq(R)
  BY <1>2, ListElim
<1>5. Append(s, v) \in Seq(R)
  BY <1>3, <1>4
<1>6. /\ Len(Append(s, v)) = Len(s) + 1
      /\ Append(s, v)[Len(s) + 1] = v /\ \A j \in 1 .. Len(s) : Append(s, v)[j] = s[j]
  BY <1>3, <1>4
<1>7. IsList(Append(s, v))
  BY <1>5, ListIntro
<1> QED
  BY <1>6, <1>7

-----------------------------------------------------------------------------
(* Sums over sets that are taken apart, and Net *)

\* A function is taken apart into two, on sets that have nothing in common.
Splits(f, fs, ft) ==
  /\ IsFiniteSet(DOMAIN fs) /\ IsFiniteSet(DOMAIN ft)
  /\ DOMAIN f = DOMAIN fs \cup DOMAIN ft /\ DOMAIN fs \cap DOMAIN ft = {}
  /\ \A x \in DOMAIN fs : fs[x] \in Int /\ f[x] = fs[x]
  /\ \A x \in DOMAIN ft : ft[x] \in Int /\ f[x] = ft[x]

\* What comes to both parts comes to the whole.
LEMMA SumUnion ==
  ASSUME NEW n, NEW ns, NEW nt, Splits(n, ns, nt),
         \A x \in DOMAIN ns : ns[x] >= 0, \A x \in DOMAIN nt : nt[x] >= 0
  PROVE  Sum(ns) \in Nat /\ Sum(nt) \in Nat /\ Sum(n) = Sum(ns) + Sum(nt)
<1> DEFINE S == DOMAIN ns
           T == DOMAIN nt
           ms == [x \in S |-> ns[x]]
           mt == [x \in T |-> nt[x]]
<1>1. IsFiniteSet(S) /\ IsFiniteSet(T) /\ S \cap T = {}
  BY DEF Splits
<1>2. ms \in [S -> Nat] /\ mt \in [T -> Nat]
  <2>1. \A k \in Int : k >= 0 => k \in Nat
    OBVIOUS
  <2>2. (\A x \in S : ns[x] \in Nat) /\ \A x \in T : nt[x] \in Nat
    BY <2>1 DEF Splits
  <2> QED
    BY <2>2
<1>3. Units(ns) = Units(ms) /\ Units(nt) = Units(mt)
  BY DEF Units
<1>4. IsFiniteSet(Units(ms)) /\ IsFiniteSet(Units(mt))
  BY <1>1, <1>2, UnitsFinite
<1>5. Units(n) = Units(ns) \cup Units(nt)
  BY DEF Units, Splits
<1>6. Units(ns) \cap Units(nt) = {}
  BY <1>1 DEF Units
<1> HIDE DEF ms, mt
<1>7. Cardinality(Units(n)) = Cardinality(Units(ns)) + Cardinality(Units(nt)) - Cardinality({})
  BY <1>3, <1>4, <1>5, <1>6, FS_Union
<1>8. Cardinality({}) = 0 /\ Cardinality(Units(ns)) \in Nat /\ Cardinality(Units(nt)) \in Nat
  BY <1>3, <1>4, FS_EmptySet, FS_CardinalityType
<1> QED
  BY <1>7, <1>8 DEF Sum

\* The same values of other elements come to the same.
LEMMA SumMoved ==
  ASSUME NEW S, IsFiniteSet(S), NEW T, NEW g \in Bijection(S, T),
         NEW n \in [S -> Nat], NEW m \in [T -> Nat], \A x \in S : m[g[x]] = n[x]
  PROVE  Sum(m) = Sum(n)
<1> DEFINE h == [u \in Units(n) |-> <<g[u[1]], u[2]>>]
<1>1. g \in [S -> T] /\ (\A x, y \in S : g[x] = g[y] => x = y) /\ \A z \in T : \E x \in S : g[x] = z
  BY DEF Bijection, Injection, Surjection, IsInjective
<1>2. \A u : u \in Units(n) <=> \E x \in S : \E k \in 1 .. n[x] : u = <<x, k>>
  BY DEF Units
<1>3. \A u : u \in Units(m) <=> \E x \in T : \E k \in 1 .. m[x] : u = <<x, k>>
  BY DEF Units
<1>4. \A u \in Units(n) : h[u] = <<g[u[1]], u[2]>>
  OBVIOUS
<1>5. h \in [Units(n) -> Units(m)]
  <2>1. \A u \in Units(n) : <<g[u[1]], u[2]>> \in Units(m)
    BY <1>1, <1>2, <1>3
  <2> QED
    BY <2>1
<1> HIDE DEF h
<1>6. ASSUME NEW u \in Units(n), NEW v \in Units(n), h[u] = h[v] PROVE u = v
  <2>1. PICK x \in S : \E k \in 1 .. n[x] : u = <<x, k>>
    BY <1>2
  <2>2. PICK y \in S : \E k \in 1 .. n[y] : v = <<y, k>>
    BY <1>2
  <2>3. h[u] = <<g[u[1]], u[2]>> /\ h[v] = <<g[v[1]], v[2]>> /\ u[1] = x /\ v[1] = y
    BY <1>4, <2>1, <2>2
  <2>4. <<g[x], u[2]>> = <<g[y], v[2]>>
    BY <1>6, <2>3
  <2> QED
    BY <1>1, <2>1, <2>2, <2>3, <2>4
<1>7. ASSUME NEW v \in Units(m) PROVE \E u \in Units(n) : h[u] = v
  <2>1. PICK z \in T : \E k \in 1 .. m[z] : v = <<z, k>>
    BY <1>3
  <2>2. PICK x \in S : g[x] = z
    BY <1>1
  <2>3. PICK k \in 1 .. m[z] : v = <<z, k>>
    BY <2>1
  <2>4. <<x, k>> \in Units(n)
    BY <1>2, <2>2, <2>3
  <2>5. h[<<x, k>>] = v
    BY <1>4, <2>2, <2>3, <2>4
  <2> QED
    BY <2>4, <2>5
<1>8. h \in Bijection(Units(n), Units(m))
  BY <1>5, <1>6, <1>7 DEF Bijection, Injection, Surjection, IsInjective
<1>9. ExistsBijection(Units(n), Units(m)) /\ IsFiniteSet(Units(n))
  BY <1>8, UnitsFinite DEF ExistsBijection
<1> QED
  BY <1>9, FS_Bijection DEF Sum

\* What was gained, and what was lost, are natural numbers.
LEMMA GainsType ==
  ASSUME NEW D, NEW f \in [D -> Int]
  PROVE  Gains(f) \in [D -> Nat] /\ Losses(f) \in [D -> Nat]
<1>1. \A x \in D : f[x] \in Int
  OBVIOUS
<1>2. \A k \in Int : (IF k > 0 THEN k ELSE 0) \in Nat /\ (IF k < 0 THEN -k ELSE 0) \in Nat
  OBVIOUS
<1>3. DOMAIN f = D
  OBVIOUS
<1> QED
  BY <1>1, <1>2, <1>3 DEF Gains, Losses

\* What whole numbers come to is whole.
LEMMA NetType ==
  ASSUME NEW D, IsFiniteSet(D), NEW f \in [D -> Int]
  PROVE  Net(f) \in Int
<1>1. Gains(f) \in [D -> Nat] /\ Losses(f) \in [D -> Nat]
  BY GainsType
<1>2. Sum(Gains(f)) \in Nat /\ Sum(Losses(f)) \in Nat
  BY <1>1, SumType
<1> QED
  BY <1>2 DEF Net

\* Zeros come to nothing.
LEMMA NetZero ==
  ASSUME NEW D, NEW f, DOMAIN f = D, \A x \in D : f[x] = 0
  PROVE  Net(f) = 0
<1>1. Gains(f) = [x \in D |-> 0] /\ Losses(f) = [x \in D |-> 0]
  BY DEF Gains, Losses
<1>2. Sum(Gains(f)) = 0 /\ Sum(Losses(f)) = 0
  BY <1>1, SumZero
<1> QED
  BY <1>2 DEF Net

\* One number comes to itself.
LEMMA NetSingleton ==
  ASSUME NEW a, NEW f \in [{a} -> Int]
  PROVE  Net(f) = f[a]
<1>1. ASSUME NEW n \in [{a} -> Nat] PROVE Sum(n) = n[a]
  <2>1. IsFiniteSet({a})
    BY FS_Singleton
  <2> DEFINE others == [x \in {a} |-> IF x = a THEN 0 ELSE n[x]]
  <2>2. Sum(others) \in Nat /\ Sum(n) = Sum(others) + n[a]
    BY <2>1, SumSplit
  <2>3. others = [x \in {a} |-> 0]
    OBVIOUS
  <2>4. Sum(others) = 0
    BY <2>3, SumZero
  <2>5. n[a] \in Nat
    OBVIOUS
  <2> HIDE DEF others
  <2> QED
    BY <2>2, <2>4, <2>5
<1>2. Gains(f) \in [{a} -> Nat] /\ Losses(f) \in [{a} -> Nat]
  BY GainsType
<1>3. Sum(Gains(f)) = Gains(f)[a] /\ Sum(Losses(f)) = Losses(f)[a]
  BY <1>1, <1>2
<1>4. /\ Gains(f)[a] = IF f[a] > 0 THEN f[a] ELSE 0
      /\ Losses(f)[a] = IF f[a] < 0 THEN -f[a] ELSE 0
  BY DEF Gains, Losses
<1>5. f[a] \in Int
  OBVIOUS
<1> QED
  BY <1>3, <1>4, <1>5 DEF Net

\* What comes to both parts comes to the whole.
LEMMA NetUnion ==
  ASSUME NEW f, NEW fs, NEW ft, Splits(f, fs, ft)
  PROVE  Net(fs) \in Int /\ Net(ft) \in Int /\ Net(f) = Net(fs) + Net(ft)
<1>1. \A k \in Int : /\ (IF k > 0 THEN k ELSE 0) \in Int /\ (IF k > 0 THEN k ELSE 0) >= 0
                     /\ (IF k < 0 THEN -k ELSE 0) \in Int /\ (IF k < 0 THEN -k ELSE 0) >= 0
  OBVIOUS
<1>2. ASSUME NEW g, \A x \in DOMAIN g : g[x] \in Int
      PROVE  /\ DOMAIN Gains(g) = DOMAIN g /\ DOMAIN Losses(g) = DOMAIN g
             /\ \A x \in DOMAIN g : /\ Gains(g)[x] = (IF g[x] > 0 THEN g[x] ELSE 0)
                                   /\ Losses(g)[x] = (IF g[x] < 0 THEN -g[x] ELSE 0)
                                   /\ Gains(g)[x] \in Int /\ Gains(g)[x] >= 0
                                   /\ Losses(g)[x] \in Int /\ Losses(g)[x] >= 0
  BY <1>1, <1>2 DEF Gains, Losses
<1>3. /\ \A x \in DOMAIN fs : fs[x] \in Int
      /\ \A x \in DOMAIN ft : ft[x] \in Int
      /\ \A x \in DOMAIN f : f[x] \in Int
  BY DEF Splits
<1>4. Splits(Gains(f), Gains(fs), Gains(ft))
  BY <1>2, <1>3 DEF Splits
<1>5. Splits(Losses(f), Losses(fs), Losses(ft))
  BY <1>2, <1>3 DEF Splits
<1>6. /\ \A x \in DOMAIN Gains(fs) : Gains(fs)[x] >= 0
      /\ \A x \in DOMAIN Gains(ft) : Gains(ft)[x] >= 0
      /\ \A x \in DOMAIN Losses(fs) : Losses(fs)[x] >= 0
      /\ \A x \in DOMAIN Losses(ft) : Losses(ft)[x] >= 0
  BY <1>2, <1>3
<1>7. /\ Sum(Gains(fs)) \in Nat /\ Sum(Gains(ft)) \in Nat /\ Sum(Gains(f)) = Sum(Gains(fs)) + Sum(Gains(ft))
      /\ Sum(Losses(fs)) \in Nat /\ Sum(Losses(ft)) \in Nat
      /\ Sum(Losses(f)) = Sum(Losses(fs)) + Sum(Losses(ft))
  BY <1>4, <1>5, <1>6, SumUnion
<1> QED
  BY <1>7 DEF Net

\* The opposite values come to the opposite.
LEMMA NetOpposite ==
  ASSUME NEW D, IsFiniteSet(D), NEW f \in [D -> Int]
  PROVE  Net([x \in D |-> -f[x]]) = -Net(f)
<1> DEFINE g == [x \in D |-> -f[x]]
<1>1. \A k \in Int : (-k > 0 <=> k < 0) /\ (-k < 0 <=> k > 0) /\ -(-k) = k
  OBVIOUS
<1>2. \A x \in D : f[x] \in Int
  OBVIOUS
<1>3. DOMAIN f = D /\ DOMAIN g = D /\ \A x \in D : g[x] = -f[x]
  OBVIOUS
<1> HIDE DEF g
<1>4. Gains(g) = Losses(f) /\ Losses(g) = Gains(f)
  <2>1. \A x \in D : (IF g[x] > 0 THEN g[x] ELSE 0) = IF f[x] < 0 THEN -f[x] ELSE 0
    BY <1>1, <1>2, <1>3
  <2>2. \A x \in D : (IF g[x] < 0 THEN -g[x] ELSE 0) = IF f[x] > 0 THEN f[x] ELSE 0
    BY <1>1, <1>2, <1>3
  <2> QED
    BY <1>3, <2>1, <2>2 DEF Gains, Losses
<1>5. Gains(f) \in [D -> Nat] /\ Losses(f) \in [D -> Nat]
  BY GainsType
<1>6. Sum(Gains(f)) \in Nat /\ Sum(Losses(f)) \in Nat
  BY <1>5, SumType
<1> QED
  BY <1>4, <1>6 DEF Net, g

\* No losses, no loss.
LEMMA NetNonneg ==
  ASSUME NEW D, IsFiniteSet(D), NEW f \in [D -> Int], \A x \in D : f[x] >= 0
  PROVE  Net(f) >= 0
<1>1. Gains(f) \in [D -> Nat]
  BY GainsType
<1>2. Sum(Gains(f)) \in Nat
  BY <1>1, SumType
<1>3. \A k \in Int : k >= 0 => ~(k < 0)
  OBVIOUS
<1>4. Losses(f) = [x \in D |-> 0]
  BY <1>3 DEF Losses
<1>5. Sum(Losses(f)) = 0
  BY <1>4, SumZero
<1> QED
  BY <1>2, <1>5 DEF Net

\* Opposite values of other elements come to the opposite.
LEMMA NetMirror ==
  ASSUME NEW S, IsFiniteSet(S), NEW T, NEW g \in Bijection(S, T),
         NEW f \in [S -> Int], NEW h \in [T -> Int], \A x \in S : h[g[x]] = -f[x]
  PROVE  Net(h) = -Net(f)
<1>1. g \in [S -> T] /\ DOMAIN f = S /\ DOMAIN h = T
  BY DEF Bijection, Injection
<1>2. /\ Gains(f) \in [S -> Nat] /\ Losses(f) \in [S -> Nat]
      /\ Gains(h) \in [T -> Nat] /\ Losses(h) \in [T -> Nat]
  BY GainsType
<1>3. \A x \in S : f[x] \in Int /\ g[x] \in T
  BY <1>1
<1>4. \A k \in Int : (-k > 0 <=> k < 0) /\ (-k < 0 <=> k > 0) /\ -(-k) = k
  OBVIOUS
<1>5. \A x \in S : Gains(h)[g[x]] = Losses(f)[x] /\ Losses(h)[g[x]] = Gains(f)[x]
  <2> TAKE x \in S
  <2>1. /\ Gains(h)[g[x]] = IF h[g[x]] > 0 THEN h[g[x]] ELSE 0
        /\ Losses(h)[g[x]] = IF h[g[x]] < 0 THEN -h[g[x]] ELSE 0
        /\ Gains(f)[x] = IF f[x] > 0 THEN f[x] ELSE 0
        /\ Losses(f)[x] = IF f[x] < 0 THEN -f[x] ELSE 0
    BY <1>1, <1>3 DEF Gains, Losses
  <2> QED
    BY <1>3, <1>4, <2>1
<1>6. Sum(Gains(h)) = Sum(Losses(f)) /\ Sum(Losses(h)) = Sum(Gains(f))
  BY <1>2, <1>5, SumMoved
<1>7. Sum(Gains(f)) \in Nat /\ Sum(Losses(f)) \in Nat
  BY <1>2, SumType
<1> QED
  BY <1>6, <1>7 DEF Net
\* What the parts of each kind come to comes together to the whole.
LEMMA NetGrouped ==
  ASSUME NEW D, IsFiniteSet(D), NEW f \in [D -> Int], NEW K, IsFiniteSet(K), NEW key \in [D -> K]
  PROVE  LET parts == [k \in K |-> Net([x \in {x \in D : key[x] = k} |-> f[x]])]
         IN  parts \in [K -> Int] /\ Net(f) = Net(parts)
<1> DEFINE Part(k) == {x \in D : key[x] = k}
           parts == [k \in K |-> Net([x \in Part(k) |-> f[x]])]
           Of(L) == {x \in D : key[x] \in L}
           Whole(L) == [x \in Of(L) |-> f[x]]
           Each(L) == [k \in L |-> parts[k]]
           Agrees(L) == Net(Whole(L)) = Net(Each(L))
           S == {n \in Nat : \A L \in SUBSET K : Cardinality(L) = n => Agrees(L)}
<1>1. \A k \in K : Net([x \in Part(k) |-> f[x]]) \in Int
  <2> TAKE k \in K
  <2>1. Part(k) \in SUBSET D
    OBVIOUS
  <2>2. [x \in Part(k) |-> f[x]] \in [Part(k) -> Int]
    OBVIOUS
  <2> HIDE DEF Part
  <2>3. IsFiniteSet(Part(k))
    BY <2>1, FS_Subset
  <2> QED
    BY <2>2, <2>3, NetType
<1>2. parts \in [K -> Int] /\ \A k \in K : parts[k] = Net([x \in Part(k) |-> f[x]])
  <2> HIDE DEF Part
  <2> QED
    BY <1>1
<1>3. 0 \in S
  <2> SUFFICES ASSUME NEW L \in SUBSET K, Cardinality(L) = 0 PROVE Agrees(L)
    OBVIOUS
  <2>1. L = {}
    BY FS_Subset, FS_EmptySet
  <2>2. Net(Whole(L)) = 0 /\ Net(Each(L)) = 0
    <3>1. \A x \in {} : Whole(L)[x] = 0 /\ Each(L)[x] = 0
      OBVIOUS
    <3>2. DOMAIN Whole(L) = {} /\ DOMAIN Each(L) = {}
      BY <2>1
    <3> HIDE DEF Whole, Each
    <3> QED
      BY <3>1, <3>2, NetZero
  <2> QED
    BY <2>2
<1>4. ASSUME NEW n \in Nat, n \in S PROVE n + 1 \in S
  <2> SUFFICES ASSUME NEW L \in SUBSET K, Cardinality(L) = n + 1 PROVE Agrees(L)
    <3> HIDE DEF Agrees
    <3> QED
      OBVIOUS
  <2>1. IsFiniteSet(L)
    BY FS_Subset
  <2>2. PICK k \in L : TRUE
    <3>1. n + 1 # 0
      OBVIOUS
    <3> QED
      BY <2>1, <3>1, FS_EmptySet
  <2> DEFINE M == L \ {k}
  <2>3. M \in SUBSET K /\ IsFiniteSet(M) /\ Cardinality(M) = n
    <3>1. IsFiniteSet(M) /\ Cardinality(M) = Cardinality(L) - 1
      BY <2>1, <2>2, FS_RemoveElement
    <3> QED
      BY <3>1
  <2>4. Agrees(M)
    BY <1>4, <2>3
  <2>5. L = M \cup {k} /\ M \cap {k} = {} /\ k \in K
    BY <2>2
  <2>6. Of(L) = Of(M) \cup Part(k) /\ Of(M) \cap Part(k) = {}
    BY <2>5
  <2>7. Of(M) \in SUBSET D /\ Part(k) \in SUBSET D /\ Of(L) \in SUBSET D
    OBVIOUS
  <2>8. /\ Whole(L) \in [Of(L) -> Int] /\ Whole(M) = [x \in Of(M) |-> Whole(L)[x]]
        /\ [x \in Part(k) |-> f[x]] = [x \in Part(k) |-> Whole(L)[x]]
    <3> HIDE DEF M
    <3>1. \A x \in Of(L) : Whole(L)[x] = f[x] /\ f[x] \in Int
      BY <2>7
    <3>2. Of(M) \subseteq Of(L) /\ Part(k) \subseteq Of(L)
      BY <2>6
    <3>3. Whole(L) \in [Of(L) -> Int]
      BY <3>1
    <3> HIDE DEF Of, Part
    <3> QED
      BY <3>1, <3>2, <3>3
  <2>9. /\ Each(L) \in [L -> Int] /\ Each(M) = [j \in M |-> Each(L)[j]]
        /\ [j \in {k} |-> Each(L)[j]] \in [{k} -> Int] /\ [j \in {k} |-> Each(L)[j]][k] = parts[k]
    <3> HIDE DEF parts
    <3>1. \A j \in L : Each(L)[j] = parts[j] /\ parts[j] \in Int
      BY <1>2
    <3> QED
      BY <3>1, <2>5
  <2> HIDE DEF M, Of, Whole, Each, parts, Part
  <2>10. IsFiniteSet(Of(M)) /\ IsFiniteSet(Part(k))
    BY <2>7, FS_Subset
  <2> DEFINE here == [x \in Part(k) |-> f[x]]
  <2>11. Net(Whole(L)) = Net(Whole(M)) + Net(here)
    <3>1. /\ DOMAIN Whole(L) = Of(L) /\ DOMAIN Whole(M) = Of(M) /\ DOMAIN here = Part(k)
          /\ \A x \in Of(M) : Whole(M)[x] \in Int /\ Whole(L)[x] = Whole(M)[x]
          /\ \A x \in Part(k) : here[x] \in Int /\ Whole(L)[x] = here[x]
      BY <2>6, <2>8
    <3> HIDE DEF here
    <3>2. Splits(Whole(L), Whole(M), here)
      BY <2>6, <2>10, <3>1 DEF Splits
    <3> QED
      BY <3>2, NetUnion
  <2>12. IsFiniteSet({k})
    BY FS_Singleton
  <2> DEFINE last == [j \in {k} |-> Each(L)[j]]
  <2>13. Net(Each(L)) = Net(Each(M)) + Net(last)
    <3>1. /\ DOMAIN Each(L) = M \cup {k} /\ DOMAIN Each(M) = M /\ DOMAIN last = {k}
          /\ \A j \in M : Each(M)[j] \in Int /\ Each(L)[j] = Each(M)[j]
          /\ \A j \in {k} : last[j] \in Int /\ Each(L)[j] = last[j]
      BY <2>5, <2>9
    <3> HIDE DEF last
    <3>2. Splits(Each(L), Each(M), last)
      BY <2>3, <2>5, <2>12, <3>1 DEF Splits
    <3> QED
      BY <3>2, NetUnion
  <2>14. Net([j \in {k} |-> Each(L)[j]]) = parts[k]
    BY <2>9, NetSingleton
  <2>15. parts[k] = Net([x \in Part(k) |-> f[x]])
    BY <1>2, <2>5
  <2> QED
    BY <2>4, <2>11, <2>13, <2>14, <2>15
<1>5. Cardinality(K) \in S
  <2>1. Cardinality(K) \in Nat
    BY FS_CardinalityType
  <2> HIDE DEF S
  <2>2. Nat \subseteq S
    BY <1>3, <1>4, SetInduction
  <2> QED
    BY <2>1, <2>2
<1>6. Agrees(K)
  BY <1>5
<1>7. Whole(K) = f /\ Each(K) = parts
  <2>1. Of(K) = D
    OBVIOUS
  <2>2. f = [x \in D |-> f[x]]
    OBVIOUS
  <2> HIDE DEF Of
  <2>3. Whole(K) = f
    BY <2>1, <2>2
  <2>4. Each(K) = parts
    OBVIOUS
  <2> QED
    BY <2>3, <2>4
<1> HIDE DEF Whole, Each, S, Of
<1>8. Net(f) = Net(parts)
  BY <1>6, <1>7
<1> QED
  BY <1>2, <1>8

\* What is read off a finite set is finite.
LEMMA ImageFinite ==
  ASSUME NEW D, IsFiniteSet(D), NEW f
  PROVE  IsFiniteSet({f[x] : x \in D})
<1> DEFINE g == [x \in D |-> f[x]]
<1>1. g \in Surjection(D, {f[x] : x \in D})
  BY DEF Surjection
<1> QED
  BY <1>1, FS_Surjection

-----------------------------------------------------------------------------
(* Parts of lists *)

\* An element more is kept or not.
LEMMA OnlyAppend ==
  ASSUME NEW R, NEW s \in Seq(R), NEW x \in R, NEW A
  PROVE  Only(Append(s, x), A) = IF x \in A THEN Append(Only(s, A), x) ELSE Only(s, A)
<1> DEFINE u == Append(s, x)
<1>0. /\ Len(s) \in Nat /\ Len(u) = Len(s) + 1 /\ Len(u) \in Nat /\ u[Len(s) + 1] = x
      /\ \A i \in 1 .. Len(s) : u[i] = s[i]
  OBVIOUS
<1> HIDE DEF u
<1>1. PICK t : /\ t[0] = <<>>
               /\ \A i \in 1 .. Len(s) : t[i] = IF s[i] \in A THEN Append(t[i - 1], s[i]) ELSE t[i - 1]
               /\ Only(s, A) = t[Len(s)]
  BY <1>0, Keeping
<1>2. PICK w : /\ w[0] = <<>>
               /\ \A i \in 1 .. Len(u) : w[i] = IF u[i] \in A THEN Append(w[i - 1], u[i]) ELSE w[i - 1]
               /\ Only(u, A) = w[Len(u)]
  BY <1>0, Keeping
<1> DEFINE S == {i \in Nat : w[i] = t[i]}
<1>3. 0 \in S
  BY <1>1, <1>2
<1>4. ASSUME NEW i \in 0 .. Len(s) - 1, i \in S PROVE i + 1 \in S
  <2>1. i + 1 \in 1 .. Len(s) /\ i + 1 \in 1 .. Len(u) /\ (i + 1) - 1 = i /\ i \in Nat
    BY <1>0
  <2>2. t[i + 1] = IF s[i + 1] \in A THEN Append(t[i], s[i + 1]) ELSE t[i]
    BY <1>1, <2>1
  <2>3. w[i + 1] = IF u[i + 1] \in A THEN Append(w[i], u[i + 1]) ELSE w[i]
    BY <1>2, <2>1
  <2>4. w[i] = t[i] /\ u[i + 1] = s[i + 1]
    BY <1>0, <1>4, <2>1
  <2> QED
    BY <2>1, <2>2, <2>3, <2>4
<1>5. Len(s) \in S
  <2> HIDE DEF S
  <2> QED
    BY <1>0, <1>3, <1>4, Along
<1>6. Len(u) \in 1 .. Len(u) /\ Len(u) - 1 = Len(s)
  BY <1>0
<1>7. w[Len(u)] = IF x \in A THEN Append(w[Len(s)], x) ELSE w[Len(s)]
  BY <1>0, <1>2, <1>6
<1> QED
  BY <1>1, <1>2, <1>5, <1>7 DEF u

\* Of two lists one after the other.
LEMMA OnlyConcat ==
  ASSUME NEW R, NEW s \in Seq(R), NEW q \in Seq(R), NEW A
  PROVE  Only(s \o q, A) = Only(s, A) \o Only(q, A)
<1> DEFINE P(i) == SubSeq(q, 1, i)
           S == {i \in Nat : i <= Len(q) => Only(s \o P(i), A) = Only(s, A) \o Only(P(i), A)}
<1>0. Len(q) \in Nat /\ P(0) = <<>> /\ P(Len(q)) = q /\ \A i \in 0 .. Len(q) : P(i) \in Seq(R)
  OBVIOUS
<1>1. ASSUME NEW i \in 0 .. Len(q) - 1 PROVE P(i + 1) = Append(P(i), q[i + 1]) /\ q[i + 1] \in R
  OBVIOUS
<1>2. \A a \in Seq(R) : Only(a, A) \in Seq(R)
  <2>1. ASSUME NEW a \in Seq(R) PROVE Only(a, A) \in Seq(R)
    <3>1. Only(a, A) \in Seq(R \cap A)
      BY OnlyEmbeds
    <3> QED
      BY <3>1
  <2> QED
    BY <2>1
<1>3. Only(<<>>, A) = <<>>
  <2>1. <<>> \in Seq(R) /\ \A i \in 1 .. Len(<<>>) : <<>>[i] \notin A
    OBVIOUS
  <2> QED
    BY <2>1, OnlyNone
<1>4. 0 \in S
  <2>1. Only(s, A) \in Seq(R) /\ s \o <<>> = s
    BY <1>2
  <2>2. Only(s, A) \o <<>> = Only(s, A)
    BY <2>1
  <2> QED
    BY <1>0, <1>3, <2>1, <2>2
<1> HIDE DEF P
<1>5. ASSUME NEW i \in 0 .. Len(q) - 1, i \in S PROVE i + 1 \in S
  <2>0. i \in 0 .. Len(q) /\ i \in Nat /\ i + 1 \in Nat
    BY <1>0
  <2> DEFINE p == P(i)  x == q[i + 1]  a == Only(s, A)  b == Only(p, A)
  <2>1. p \in Seq(R) /\ x \in R /\ P(i + 1) = Append(p, x)
    BY <1>0, <1>1, <2>0
  <2>2. a \in Seq(R) /\ b \in Seq(R)
    BY <1>2, <2>1
  <2>3. Only(s \o p, A) = a \o b
    BY <1>5, <2>0
  <2> HIDE DEF p, x
  <2>4. s \o Append(p, x) = Append(s \o p, x) /\ s \o p \in Seq(R)
    BY <2>1
  <2>5. Only(Append(s \o p, x), A) = IF x \in A THEN Append(Only(s \o p, A), x) ELSE Only(s \o p, A)
    <3> DEFINE c == s \o p
    <3>1. c \in Seq(R) /\ x \in R
      BY <2>1, <2>4
    <3> HIDE DEF c
    <3>2. Only(Append(c, x), A) = IF x \in A THEN Append(Only(c, A), x) ELSE Only(c, A)
      BY <3>1, OnlyAppend
    <3> QED
      BY <3>2 DEF c
  <2>6. Only(Append(p, x), A) = IF x \in A THEN Append(b, x) ELSE b
    BY <2>1, OnlyAppend
  <2> HIDE DEF a, b
  <2>7. a \o Append(b, x) = Append(a \o b, x)
    BY <2>1, <2>2
  <2>8. Only(s \o Append(p, x), A) = a \o Only(Append(p, x), A)
    BY <2>3, <2>4, <2>5, <2>6, <2>7
  <2> QED
    BY <2>0, <2>1, <2>8 DEF a
<1>6. Len(q) \in S
  <2> HIDE DEF S
  <2> QED
    BY <1>0, <1>4, <1>5, Along
<1> QED
  BY <1>0, <1>6

\* Lists with the same elements in the same places.
LEMMA SameLists ==
  ASSUME NEW R, NEW s \in Seq(R), NEW q \in Seq(R), Len(s) = Len(q), \A i \in 1 .. Len(q) : s[i] = q[i]
  PROVE  s = q
OBVIOUS

\* An element put in that is not in the set changes nothing.
LEMMA OnlyPut ==
  ASSUME NEW R, NEW s \in Seq(R), NEW n \in 0 .. Len(s), NEW x \in R, NEW A, x \notin A
  PROVE  Only(PutAfter(s, n, x), A) = Only(s, A)
<1> DEFINE a == SubSeq(s, 1, n)  b == SubSeq(s, n + 1, Len(s))
<1>1. a \in Seq(R) /\ b \in Seq(R) /\ a \o b = s
  <2>0. Len(s) \in Nat /\ n \in Nat
    OBVIOUS
  <2>1. a \in Seq(R) /\ Len(a) = n /\ \A i \in 1 .. n : a[i] = s[i]
    OBVIOUS
  <2>2. b \in Seq(R) /\ Len(b) = Len(s) - n /\ \A i \in 1 .. Len(s) - n : b[i] = s[n + i]
    OBVIOUS
  <2> HIDE DEF a, b
  <2>3. a \o b \in Seq(R) /\ Len(a \o b) = Len(s)
    BY <2>0, <2>1, <2>2
  <2>4. ASSUME NEW i \in 1 .. Len(s) PROVE (a \o b)[i] = s[i]
    <3>1. CASE i <= n
      BY <2>0, <2>1, <2>2, <3>1
    <3>2. CASE i > n
      <4>1. i - n \in 1 .. Len(s) - n /\ n + (i - n) = i
        BY <2>0, <3>2
      <4>2. (a \o b)[i] = b[i - n]
        BY <2>0, <2>1, <2>2, <3>2
      <4> QED
        BY <2>2, <4>1, <4>2
    <3>3. i <= n \/ i > n
      BY <2>0
    <3> QED
      BY <3>1, <3>2, <3>3
  <2> DEFINE c == a \o b
  <2>5. c \in Seq(R) /\ Len(c) = Len(s) /\ \A i \in 1 .. Len(s) : c[i] = s[i]
    BY <2>3, <2>4
  <2> HIDE DEF c
  <2>6. c = s
    BY <2>5, SameLists
  <2> QED
    BY <2>1, <2>2, <2>6 DEF c
<1>2. PutAfter(s, n, x) = Append(a, x) \o b
  BY DEF PutAfter
<1> HIDE DEF a, b
<1>3. Append(a, x) \in Seq(R)
  BY <1>1
<1>0. \A p, q \in Seq(R) : Only(p \o q, A) = Only(p, A) \o Only(q, A)
  BY OnlyConcat
<1>4. Only(Append(a, x) \o b, A) = Only(Append(a, x), A) \o Only(b, A)
  BY <1>0, <1>1, <1>3
<1>5. Only(Append(a, x), A) = Only(a, A)
  BY <1>1, OnlyAppend
<1>6. Only(a \o b, A) = Only(a, A) \o Only(b, A)
  BY <1>0, <1>1
<1> QED
  BY <1>1, <1>2, <1>4, <1>5, <1>6

\* A part of a part.
LEMMA OnlyTwice ==
  ASSUME NEW R, NEW s \in Seq(R), NEW A, NEW B
  PROVE  Only(Only(s, A), B) = Only(s, A \cap B)
<1> DEFINE P(i) == SubSeq(s, 1, i)
           S == {i \in Nat : i <= Len(s) => Only(Only(P(i), A), B) = Only(P(i), A \cap B)}
<1>0. Len(s) \in Nat /\ P(0) = <<>> /\ P(Len(s)) = s /\ \A i \in 0 .. Len(s) : P(i) \in Seq(R)
  OBVIOUS
<1>1. ASSUME NEW i \in 0 .. Len(s) - 1 PROVE P(i + 1) = Append(P(i), s[i + 1]) /\ s[i + 1] \in R
  OBVIOUS
<1>2. \A D : Only(<<>>, D) = <<>>
  <2>1. <<>> \in Seq(R) /\ \A D : \A i \in 1 .. Len(<<>>) : <<>>[i] \notin D
    OBVIOUS
  <2> QED
    BY <2>1, OnlyNone
<1>3. 0 \in S
  BY <1>0, <1>2
<1> HIDE DEF P
<1>4. ASSUME NEW i \in 0 .. Len(s) - 1, i \in S PROVE i + 1 \in S
  <2>0. i \in 0 .. Len(s) /\ i \in Nat /\ i + 1 \in Nat
    BY <1>0
  <2> DEFINE p == P(i)  x == s[i + 1]  b == Only(p, A)
  <2>1. p \in Seq(R) /\ x \in R /\ P(i + 1) = Append(p, x)
    BY <1>0, <1>1, <2>0
  <2>2. b \in Seq(R)
    <3>1. b \in Seq(R \cap A)
      BY <2>1, OnlyEmbeds
    <3> HIDE DEF b
    <3> QED
      BY <3>1
  <2>3. Only(b, B) = Only(p, A \cap B)
    BY <1>4, <2>0
  <2> HIDE DEF p, x
  <2>4. Only(Append(p, x), A) = IF x \in A THEN Append(b, x) ELSE b
    BY <2>1, OnlyAppend
  <2>5. Only(Append(p, x), A \cap B) = IF x \in A \cap B THEN Append(Only(p, A \cap B), x) ELSE Only(p, A \cap B)
    BY <2>1, OnlyAppend
  <2>6. Only(Append(b, x), B) = IF x \in B THEN Append(Only(b, B), x) ELSE Only(b, B)
    BY <2>1, <2>2, OnlyAppend
  <2> HIDE DEF b
  <2>7. Only(Only(Append(p, x), A), B) = Only(Append(p, x), A \cap B)
    <3>1. CASE x \in A /\ x \in B
      BY <2>3, <2>4, <2>5, <2>6, <3>1
    <3>2. CASE x \in A /\ x \notin B
      BY <2>3, <2>4, <2>5, <2>6, <3>2
    <3>3. CASE x \notin A
      BY <2>3, <2>4, <2>5, <3>3
    <3> QED
      BY <3>1, <3>2, <3>3
  <2> QED
    BY <2>0, <2>1, <2>7
<1>5. Len(s) \in S
  <2> HIDE DEF S
  <2> QED
    BY <1>0, <1>3, <1>4, Along
<1> QED
  BY <1>0, <1>5

\* Sets that agree on the elements of a list keep the same of it.
LEMMA OnlySame ==
  ASSUME NEW R, NEW s \in Seq(R), NEW A, NEW B, \A i \in 1 .. Len(s) : s[i] \in A <=> s[i] \in B
  PROVE  Only(s, A) = Only(s, B)
<1>0. Len(s) \in Nat
  OBVIOUS
<1>1. PICK t : /\ t[0] = <<>>
               /\ \A i \in 1 .. Len(s) : t[i] = IF s[i] \in A THEN Append(t[i - 1], s[i]) ELSE t[i - 1]
               /\ Only(s, A) = t[Len(s)]
  BY <1>0, Keeping
<1>2. PICK w : /\ w[0] = <<>>
               /\ \A i \in 1 .. Len(s) : w[i] = IF s[i] \in B THEN Append(w[i - 1], s[i]) ELSE w[i - 1]
               /\ Only(s, B) = w[Len(s)]
  BY <1>0, Keeping
<1> DEFINE S == {i \in Nat : w[i] = t[i]}
<1>3. 0 \in S
  BY <1>1, <1>2
<1>4. ASSUME NEW i \in 0 .. Len(s) - 1, i \in S PROVE i + 1 \in S
  <2>1. i + 1 \in 1 .. Len(s) /\ (i + 1) - 1 = i /\ i \in Nat
    BY <1>0
  <2>2. t[i + 1] = IF s[i + 1] \in A THEN Append(t[i], s[i + 1]) ELSE t[i]
    BY <1>1, <2>1
  <2>3. w[i + 1] = IF s[i + 1] \in B THEN Append(w[i], s[i + 1]) ELSE w[i]
    BY <1>2, <2>1
  <2> QED
    BY <1>4, <2>1, <2>2, <2>3
<1>5. Len(s) \in S
  <2> HIDE DEF S
  <2> QED
    BY <1>0, <1>3, <1>4, Along
<1> QED
  BY <1>1, <1>2, <1>5

\* A quantity of each element of a list.
ValuesAt(v, k) == [j \in 1 .. Len(k) |-> v[k[j]]]

\* A quantity of each element of a list that is in a set, and nothing of the others.
Masked(v, h, A) == [i \in 1 .. Len(h) |-> IF h[i] \in A THEN v[h[i]] ELSE 0]

\* What the elements kept sum to is what all do, the others counting nothing.
LEMMA SummedOnly ==
  ASSUME NEW R, NEW s \in Seq(R), NEW A, NEW v \in [R -> Int]
  PROVE  /\ Masked(v, s, A) \in Seq(Int) /\ ValuesAt(v, Only(s, A)) \in Seq(Int)
         /\ Summed(ValuesAt(v, Only(s, A))) = Summed(Masked(v, s, A))
<1> DEFINE all == [i \in 1 .. Len(s) |-> IF s[i] \in A THEN v[s[i]] ELSE 0]
           F(a) == [j \in 1 .. Len(a) |-> v[a[j]]]
<1>0. Len(s) \in Nat /\ all \in Seq(Int) /\ Len(all) = Len(s)
  <2>1. all \in [1 .. Len(s) -> Int]
    OBVIOUS
  <2> QED
    BY <2>1
<1>1. ASSUME NEW a \in Seq(R) PROVE F(a) \in Seq(Int)
  <2>1. F(a) \in [1 .. Len(a) -> Int]
    OBVIOUS
  <2> QED
    BY <2>1
<1>2. ASSUME NEW a \in Seq(R), NEW x \in R PROVE Summed(F(Append(a, x))) = Summed(F(a)) + v[x]
  <2> DEFINE c == Append(a, x)
  <2>1. c \in Seq(R) /\ Len(c) = Len(a) + 1 /\ c[Len(a) + 1] = x /\ Len(a) \in Nat /\ \A j \in 1 .. Len(a) : c[j] = a[j]
    OBVIOUS
  <2> HIDE DEF c
  <2>2. F(a) \in Seq(Int) /\ F(c) \in Seq(Int)
    BY <1>1, <2>1
  <2>3. Len(F(a)) = Len(a) /\ Len(F(c)) = Len(c)
    BY <2>1
  <2>4. \A j \in 1 .. Len(a) : F(c)[j] = F(a)[j]
    BY <2>1
  <2>5. F(c)[Len(c)] = v[x]
    BY <2>1
  <2> HIDE DEF F
  <2>6. Summed(F(c)) = Summed(F(a)) + F(c)[Len(F(c))]
    BY <2>1, <2>2, <2>3, <2>4, SummedMore
  <2> QED
    BY <2>3, <2>5, <2>6 DEF c
<1>3. PICK t : /\ t[0] = <<>>
               /\ \A i \in 1 .. Len(s) : t[i] = IF s[i] \in A THEN Append(t[i - 1], s[i]) ELSE t[i - 1]
               /\ Only(s, A) = t[Len(s)]
  BY <1>0, Keeping
<1> HIDE DEF F, all
<1>4. PICK r : /\ r[0] = 0
               /\ \A i \in 1 .. Len(all) : r[i] = r[i - 1] + all[i]
               /\ Summed(all) = r[Len(all)]
  BY <1>0, Running
<1> DEFINE S == {i \in Nat : t[i] \in Seq(R) /\ r[i] \in Int /\ Summed(F(t[i])) = r[i]}
<1>5. 0 \in S
  <2>1. F(<<>>) = <<>> /\ <<>> \in Seq(R)
    BY DEF F
  <2>2. t[0] = <<>> /\ r[0] = 0
    BY <1>3, <1>4
  <2>3. Summed(F(t[0])) = 0
    BY <2>1, <2>2, SummedEmpty
  <2>4. 0 \in Nat /\ t[0] \in Seq(R)
    BY <2>1, <2>2
  <2>5. r[0] \in Int /\ Summed(F(t[0])) = r[0]
    BY <2>2, <2>3
  <2> QED
    BY <2>4, <2>5
<1>6. ASSUME NEW i \in 0 .. Len(s) - 1, i \in S PROVE i + 1 \in S
  <2>0. i + 1 \in 1 .. Len(s) /\ (i + 1) - 1 = i /\ i \in Nat
    BY <1>0
  <2> DEFINE a == t[i]  x == s[i + 1]
  <2>1. a \in Seq(R) /\ x \in R /\ r[i] \in Int /\ Summed(F(a)) = r[i] /\ v[x] \in Int
    BY <1>6, <2>0
  <2>2. t[i + 1] = IF x \in A THEN Append(a, x) ELSE a
    BY <1>3, <2>0
  <2>3. r[i + 1] = r[i] + all[i + 1]
    BY <1>0, <1>4, <2>0
  <2>4. all[i + 1] = IF x \in A THEN v[x] ELSE 0
    BY <2>0 DEF all
  <2> HIDE DEF a, x
  <2>5. CASE x \in A
    <3>1. Append(a, x) \in Seq(R) /\ Summed(F(Append(a, x))) = Summed(F(a)) + v[x]
      BY <1>2, <2>1
    <3>2. t[i + 1] = Append(a, x) /\ r[i + 1] = r[i] + v[x]
      BY <2>2, <2>3, <2>4, <2>5
    <3>3. t[i + 1] \in Seq(R)
      BY <3>1, <3>2
    <3>4. Summed(F(t[i + 1])) = r[i + 1] /\ r[i + 1] \in Int
      BY <2>1, <3>1, <3>2
    <3> QED
      BY <2>0, <3>3, <3>4
  <2>6. CASE x \notin A
    <3>1. t[i + 1] = a /\ r[i + 1] = r[i]
      BY <2>1, <2>2, <2>3, <2>4, <2>6
    <3> QED
      BY <2>0, <2>1, <3>1
  <2> QED
    BY <2>5, <2>6
<1>7. Len(s) \in S
  <2> HIDE DEF S
  <2> QED
    BY <1>0, <1>5, <1>6, Along
<1>8. F(Only(s, A)) \in Seq(Int)
  BY <1>1, <1>3, <1>7
<1>9. Summed(F(Only(s, A))) = Summed(all)
  BY <1>0, <1>3, <1>4, <1>7
<1>10. F(Only(s, A)) = ValuesAt(v, Only(s, A)) /\ all = Masked(v, s, A)
  BY DEF F, all, ValuesAt, Masked
<1> QED
  BY <1>0, <1>8, <1>9, <1>10

-----------------------------------------------------------------------------
(* Sums of sums *)

\* A function on the first numbers is a list.
LEMMA FunctionList ==
  ASSUME NEW R, NEW n \in Nat, NEW f \in [1 .. n -> R]
  PROVE  f \in Seq(R) /\ Len(f) = n
OBVIOUS

\* The quantities of a list are a list of as many numbers.
LEMMA ValuesSeq ==
  ASSUME NEW R, NEW v \in [R -> Int], NEW s \in Seq(R)
  PROVE  /\ ValuesAt(v, s) \in Seq(Int) /\ Len(ValuesAt(v, s)) = Len(s)
         /\ \A i \in 1 .. Len(s) : ValuesAt(v, s)[i] = v[s[i]]
<1>1. Len(s) \in Nat /\ \A i \in 1 .. Len(s) : s[i] \in R
  OBVIOUS
<1>2. ValuesAt(v, s) \in [1 .. Len(s) -> Int]
  BY <1>1 DEF ValuesAt
<1> QED
  BY <1>1, <1>2 DEF ValuesAt

\* Two lists one after the other have the quantities of both.
LEMMA ValuesConcat ==
  ASSUME NEW R, NEW v \in [R -> Int], NEW s \in Seq(R), NEW q \in Seq(R)
  PROVE  Summed(ValuesAt(v, s \o q)) = Summed(ValuesAt(v, s)) + Summed(ValuesAt(v, q))
<1> DEFINE w == s \o q
<1>1. w \in Seq(R) /\ Len(w) = Len(s) + Len(q)
  OBVIOUS
<1>2. Len(s) \in Nat /\ Len(q) \in Nat
  OBVIOUS
<1>9. ASSUME NEW i \in 1 .. Len(s) PROVE w[i] = s[i]
  OBVIOUS
<1>10. ASSUME NEW i \in Len(s) + 1 .. Len(s) + Len(q) PROVE w[i] = q[i - Len(s)]
  BY <1>2
<1> HIDE DEF w
<1> DEFINE a == ValuesAt(v, s)  b == ValuesAt(v, q)  c == ValuesAt(v, w)
<1>3. a \in Seq(Int) /\ Len(a) = Len(s) /\ \A i \in 1 .. Len(s) : a[i] = v[s[i]]
  BY ValuesSeq
<1>4. b \in Seq(Int) /\ Len(b) = Len(q) /\ \A i \in 1 .. Len(q) : b[i] = v[q[i]]
  BY ValuesSeq
<1>5. c \in Seq(Int) /\ Len(c) = Len(w) /\ \A i \in 1 .. Len(w) : c[i] = v[w[i]]
  <2>1. w \in Seq(R)
    BY <1>1
  <2> QED
    BY <2>1, ValuesSeq
<1> HIDE DEF a, b, c
<1> DEFINE u == a \o b
<1>6. u \in Seq(Int) /\ Len(u) = Len(a) + Len(b)
  <2>1. a \in Seq(Int) /\ b \in Seq(Int)
    BY <1>3, <1>4
  <2> QED
    BY <2>1
<1>11. ASSUME NEW i \in 1 .. Len(a) PROVE u[i] = a[i]
  BY <1>3, <1>4
<1>12. ASSUME NEW i \in Len(a) + 1 .. Len(a) + Len(b) PROVE u[i] = b[i - Len(a)]
  BY <1>3, <1>4
<1> HIDE DEF u
<1>7. ASSUME NEW i \in 1 .. Len(u) PROVE c[i] = u[i]
  <2>0. i \in 1 .. Len(w) /\ c[i] = v[w[i]]
    BY <1>1, <1>3, <1>4, <1>5, <1>6
  <2>1. CASE i \in 1 .. Len(s)
    BY <1>3, <1>9, <1>11, <2>0, <2>1
  <2>2. CASE i \in Len(s) + 1 .. Len(s) + Len(q)
    <3>1. i - Len(s) \in 1 .. Len(q)
      BY <1>2, <2>2
    <3>2. w[i] = q[i - Len(s)] /\ u[i] = b[i - Len(s)]
      BY <1>3, <1>4, <1>10, <1>12, <2>2
    <3> QED
      BY <1>4, <2>0, <3>1, <3>2
  <2>3. i \in 1 .. Len(s) \/ i \in Len(s) + 1 .. Len(s) + Len(q)
    BY <1>1, <1>2, <2>0
  <2> QED
    BY <2>1, <2>2, <2>3
<1>8. c = u
  BY <1>1, <1>3, <1>4, <1>5, <1>6, <1>7, SameLists
<1> QED
  BY <1>3, <1>4, <1>8, SummedConcat DEF a, b, c, u, w

\* An element put in anywhere counts once.
LEMMA ValuesPut ==
  ASSUME NEW R, NEW v \in [R -> Int], NEW s \in Seq(R), NEW n \in 0 .. Len(s), NEW x \in R
  PROVE  Summed(ValuesAt(v, PutAfter(s, n, x))) = Summed(ValuesAt(v, s)) + v[x]
<1> DEFINE a == SubSeq(s, 1, n)  b == SubSeq(s, n + 1, Len(s))
<1>0. Len(s) \in Nat
  OBVIOUS
<1>1. a \in Seq(R) /\ b \in Seq(R)
  BY <1>0
<1>9. /\ Len(a) = n /\ Len(b) = Len(s) - n
      /\ \A i \in 1 .. n : a[i] = s[i]
      /\ \A i \in 1 .. Len(s) - n : b[i] = s[i + n]
  <2>1. Len(a) = n
    BY <1>0
  <2>2. Len(b) = Len(s) - n
    BY <1>0
  <2>3. ASSUME NEW i \in 1 .. n PROVE a[i] = s[i]
    BY <1>0
  <2>4. ASSUME NEW i \in 1 .. Len(s) - n PROVE b[i] = s[i + n]
    <3>1. b[i] = s[n + 1 + i - 1]
      BY <1>0
    <3>2. n + 1 + i - 1 = i + n
      BY <1>0
    <3> QED
      BY <3>1, <3>2
  <2> QED
    BY <2>1, <2>2, <2>3, <2>4
<1>3. PutAfter(s, n, x) = Append(a, x) \o b
  BY DEF PutAfter
<1> HIDE DEF a, b
<1>2. s = a \o b
  <2> DEFINE u == a \o b
  <2>1. u \in Seq(R) /\ Len(u) = Len(s)
    <3>1. u \in Seq(R) /\ Len(u) = Len(a) + Len(b)
      BY <1>1
    <3> QED
      BY <1>0, <1>9, <3>1
  <2>2. ASSUME NEW i \in 1 .. n PROVE u[i] = s[i]
    BY <1>0, <1>1, <1>9
  <2>3. ASSUME NEW i \in n + 1 .. Len(s) PROVE u[i] = s[i]
    <3>1. i - n \in 1 .. Len(s) - n /\ (i - n) + n = i
      BY <1>0
    <3>2. u[i] = b[i - n]
      <4>1. i \in Len(a) + 1 .. Len(a) + Len(b)
        BY <1>0, <1>9
      <4>2. u[i] = b[i - Len(a)]
        BY <1>1, <4>1
      <4> QED
        BY <1>9, <4>2
    <3> QED
      BY <1>9, <3>1, <3>2
  <2> HIDE DEF u
  <2>4. ASSUME NEW i \in 1 .. Len(s) PROVE s[i] = u[i]
    <3>1. i \in 1 .. n \/ i \in n + 1 .. Len(s)
      BY <1>0
    <3> QED
      BY <2>2, <2>3, <3>1
  <2>5. s = u
    BY <2>1, <2>4, SameLists
  <2> QED
    BY <2>5 DEF u
<1>4. Append(a, x) = a \o <<x>> /\ <<x>> \in Seq(R) /\ Append(a, x) \in Seq(R)
  BY <1>1
<1>5. Summed(ValuesAt(v, <<x>>)) = v[x]
  <2>1. ValuesAt(v, <<x>>) = <<v[x]>>
    BY DEF ValuesAt
  <2>2. <<v[x]>> \in Seq(Int) /\ Len(<<v[x]>>) = 1 /\ <<v[x]>>[1] = v[x]
    OBVIOUS
  <2> DEFINE o == <<v[x]>>
  <2> HIDE DEF o
  <2>3. o \in Seq(Int) /\ 1 \in 1 .. Len(o) /\ o[1] = v[x] /\ \A i \in 1 .. Len(o) : 1 # i => o[i] = 0
    BY <2>2 DEF o
  <2>4. Summed(o) = o[1]
    BY <2>3, SummedSingle
  <2> QED
    BY <2>1, <2>3, <2>4 DEF o
<1>6. Summed(ValuesAt(v, Append(a, x) \o b)) = Summed(ValuesAt(v, a)) + Summed(ValuesAt(v, <<x>>)) + Summed(ValuesAt(v, b))
  <2>1. Summed(ValuesAt(v, Append(a, x))) = Summed(ValuesAt(v, a)) + Summed(ValuesAt(v, <<x>>))
    BY <1>1, <1>4, ValuesConcat
  <2> DEFINE e == Append(a, x)
  <2>2. e \in Seq(R)
    BY <1>4
  <2> HIDE DEF e
  <2>3. Summed(ValuesAt(v, e \o b)) = Summed(ValuesAt(v, e)) + Summed(ValuesAt(v, b))
    BY <1>1, <2>2, ValuesConcat
  <2> QED
    BY <2>1, <2>3 DEF e
<1>7. Summed(ValuesAt(v, s)) = Summed(ValuesAt(v, a)) + Summed(ValuesAt(v, b))
  BY <1>1, <1>2, ValuesConcat
<1>8. Summed(ValuesAt(v, a)) \in Int /\ Summed(ValuesAt(v, b)) \in Int /\ v[x] \in Int
  BY <1>1, ValuesSeq, SummedInt
<1> QED
  BY <1>3, <1>5, <1>6, <1>7, <1>8

\* Lists joined have the quantities of each.
LEMMA ValuesJoined ==
  ASSUME NEW R, NEW v \in [R -> Int], NEW s, Len(s) \in Nat, \A i \in 1 .. Len(s) : s[i] \in Seq(R)
  PROVE  Summed(ValuesAt(v, Joined(s))) = Summed([i \in 1 .. Len(s) |-> Summed(ValuesAt(v, s[i]))])
<1> DEFINE f == [i \in 1 .. Len(s) |-> Summed(ValuesAt(v, s[i]))]
<1>1. PICK t : /\ t[0] = <<>>
               /\ \A i \in 1 .. Len(s) : t[i] = t[i - 1] \o s[i]
               /\ Joined(s) = t[Len(s)]
  BY Joining
<1>2. Len(f) = Len(s) /\ \A i \in 1 .. Len(s) : f[i] = Summed(ValuesAt(v, s[i]))
  OBVIOUS
<1> HIDE DEF f
<1>3. PICK r : /\ DOMAIN r = 0 .. Len(f) /\ r[0] = 0
               /\ \A i \in 1 .. Len(f) : r[i] = r[i - 1] + f[i]
               /\ Summed(f) = r[Len(f)]
  BY <1>2, Running
<1> DEFINE S == {i \in Nat : t[i] \in Seq(R) /\ Summed(ValuesAt(v, t[i])) = r[i]}
<1>4. 0 \in S
  <2>1. ValuesAt(v, <<>>) = <<>> /\ <<>> \in Seq(R)
    BY DEF ValuesAt
  <2>2. t[0] = <<>> /\ r[0] = 0 /\ 0 \in Nat
    BY <1>1, <1>3
  <2>3. Summed(ValuesAt(v, t[0])) = r[0]
    BY <2>1, <2>2, SummedEmpty
  <2> QED
    BY <2>1, <2>2, <2>3
<1>5. ASSUME NEW i \in 0 .. Len(s) - 1, i \in S PROVE i + 1 \in S
  <2>0. i + 1 \in 1 .. Len(s) /\ (i + 1) - 1 = i /\ i + 1 \in Nat
    OBVIOUS
  <2> DEFINE a == t[i]  b == s[i + 1]
  <2>1. t[i + 1] = a \o b /\ a \in Seq(R) /\ b \in Seq(R)
    BY <1>1, <1>5, <2>0
  <2>2. r[i + 1] = r[i] + Summed(ValuesAt(v, b))
    BY <1>2, <1>3, <2>0
  <2>3. Summed(ValuesAt(v, a)) = r[i]
    BY <1>5
  <2> HIDE DEF a, b
  <2>6. a \o b \in Seq(R)
    BY <2>1
  <2>4. Summed(ValuesAt(v, a \o b)) = Summed(ValuesAt(v, a)) + Summed(ValuesAt(v, b))
    BY <2>1, ValuesConcat
  <2>5. t[i + 1] \in Seq(R) /\ Summed(ValuesAt(v, t[i + 1])) = r[i + 1]
    BY <2>1, <2>2, <2>3, <2>4, <2>6
  <2> QED
    BY <2>0, <2>5
<1>6. Len(s) \in S
  <2> HIDE DEF S
  <2> QED
    BY <1>4, <1>5, Along
<1> QED
  BY <1>1, <1>2, <1>3, <1>6 DEF f

\* A table of numbers sums to the same by rows and by columns.
LEMMA SummedTwoWays ==
  ASSUME NEW n \in Nat, NEW m \in Nat, NEW f, \A i \in 1 .. n, j \in 1 .. m : f[<<i, j>>] \in Int
  PROVE  /\ \A i \in 1 .. n : Summed([j \in 1 .. m |-> f[<<i, j>>]]) \in Int
         /\ \A j \in 1 .. m : Summed([i \in 1 .. n |-> f[<<i, j>>]]) \in Int
         /\ Summed([i \in 1 .. n |-> Summed([j \in 1 .. m |-> f[<<i, j>>]])])
              = Summed([j \in 1 .. m |-> Summed([i \in 1 .. n |-> f[<<i, j>>]])])
<1> DEFINE Row(i) == [j \in 1 .. m |-> f[<<i, j>>]]
           Column(k, j) == [i \in 1 .. k |-> f[<<i, j>>]]
           Rows(k) == [i \in 1 .. k |-> Summed(Row(i))]
           Columns(k) == [j \in 1 .. m |-> Summed(Column(k, j))]
<1>1. \A i \in 1 .. n : Row(i) \in Seq(Int) /\ Len(Row(i)) = m /\ Summed(Row(i)) \in Int
  <2> TAKE i \in 1 .. n
  <2>1. Row(i) \in [1 .. m -> Int]
    OBVIOUS
  <2>2. Row(i) \in Seq(Int) /\ Len(Row(i)) = m
    BY <2>1
  <2> QED
    BY <2>2, SummedInt
<1>2. \A k \in 0 .. n, j \in 1 .. m :
        Column(k, j) \in Seq(Int) /\ Len(Column(k, j)) = k /\ Summed(Column(k, j)) \in Int
  <2> TAKE k \in 0 .. n, j \in 1 .. m
  <2>0. k \in Nat
    OBVIOUS
  <2>1. Column(k, j) \in [1 .. k -> Int]
    OBVIOUS
  <2>2. Column(k, j) \in Seq(Int) /\ Len(Column(k, j)) = k
    BY <2>0, <2>1
  <2> QED
    BY <2>2, SummedInt
<1>3. \A k \in 0 .. n : Rows(k) \in Seq(Int) /\ Len(Rows(k)) = k /\ \A i \in 1 .. k : Rows(k)[i] = Summed(Row(i))
  <2> TAKE k \in 0 .. n
  <2>0. k \in Nat /\ \A i \in 1 .. k : i \in 1 .. n
    OBVIOUS
  <2> HIDE DEF Row
  <2>1. Rows(k) \in [1 .. k -> Int]
    BY <1>1, <2>0
  <2> QED
    BY <2>0, <2>1
<1>4. \A k \in 0 .. n :
        Columns(k) \in Seq(Int) /\ Len(Columns(k)) = m /\ \A j \in 1 .. m : Columns(k)[j] = Summed(Column(k, j))
  <2> TAKE k \in 0 .. n
  <2> HIDE DEF Column
  <2>1. Columns(k) \in [1 .. m -> Int]
    BY <1>2
  <2> QED
    BY <2>1
<1> DEFINE S == {k \in Nat : Summed(Rows(k)) = Summed(Columns(k))}
<1>5. 0 \in S
  <2>1. 0 \in 0 .. n /\ 0 \in Nat
    OBVIOUS
  <2>2. Rows(0) = <<>>
    OBVIOUS
  <2>3. \A j \in 1 .. m : Columns(0)[j] = 0
    <3> TAKE j \in 1 .. m
    <3>1. Column(0, j) = <<>>
      OBVIOUS
    <3> QED
      BY <3>1, SummedEmpty
  <2>4. Summed(Columns(0)) = 0
    <3> HIDE DEF Columns
    <3> QED
      BY <1>4, <2>1, <2>3, SummedZero
  <2> HIDE DEF Rows, Columns
  <2> QED
    BY <2>1, <2>2, <2>4, SummedEmpty
<1>6. ASSUME NEW k \in 0 .. n - 1, k \in S PROVE k + 1 \in S
  <2>0. k + 1 \in 1 .. n /\ k \in 0 .. n /\ k + 1 \in 0 .. n /\ k + 1 \in Nat /\ k \in Nat
    OBVIOUS
  <2>1. Summed(Rows(k + 1)) = Summed(Rows(k)) + Summed(Row(k + 1))
    <3> DEFINE g == Rows(k + 1)  h == Rows(k)
    <3>1. g \in Seq(Int) /\ Len(g) = k + 1 /\ \A i \in 1 .. k + 1 : g[i] = Summed(Row(i))
      BY <1>3, <2>0
    <3>2. h \in Seq(Int) /\ Len(h) = k /\ \A i \in 1 .. k : h[i] = Summed(Row(i))
      BY <1>3, <2>0
    <3> HIDE DEF g, h, Row
    <3>3. Len(g) = Len(h) + 1 /\ \A i \in 1 .. Len(h) : g[i] = h[i]
      BY <2>0, <3>1, <3>2
    <3>4. Summed(g) = Summed(h) + g[Len(g)]
      BY <3>1, <3>2, <3>3, SummedMore
    <3> QED
      BY <2>0, <3>1, <3>4 DEF g, h
  <2>2. \A j \in 1 .. m : Summed(Column(k + 1, j)) = Summed(Column(k, j)) + f[<<k + 1, j>>]
    <3> TAKE j \in 1 .. m
    <3> DEFINE g == Column(k + 1, j)  h == Column(k, j)
    <3>1. g \in Seq(Int) /\ Len(g) = k + 1 /\ h \in Seq(Int) /\ Len(h) = k
      BY <1>2, <2>0
    <3>2. \A i \in 1 .. k : g[i] = h[i]
      BY <2>0
    <3>3. g[k + 1] = f[<<k + 1, j>>]
      BY <2>0
    <3> HIDE DEF g, h
    <3>4. Summed(g) = Summed(h) + g[Len(g)]
      BY <2>0, <3>1, <3>2, SummedMore
    <3> QED
      BY <3>1, <3>3, <3>4 DEF g, h
  <2>3. Summed(Columns(k + 1)) = Summed(Columns(k)) + Summed(Row(k + 1))
    <3> DEFINE g == Columns(k + 1)  h == Columns(k)  r == Row(k + 1)
    <3>1. g \in Seq(Int) /\ Len(g) = m /\ \A j \in 1 .. m : g[j] = Summed(Column(k + 1, j))
      BY <1>4, <2>0
    <3>2. h \in Seq(Int) /\ Len(h) = m /\ \A j \in 1 .. m : h[j] = Summed(Column(k, j))
      BY <1>4, <2>0
    <3>3. r \in Seq(Int) /\ Len(r) = m
      BY <1>1, <2>0
    <3>4. \A j \in 1 .. m : r[j] = f[<<k + 1, j>>]
      OBVIOUS
    <3> HIDE DEF g, h, r, Column
    <3>5. \A j \in 1 .. m : g[j] = h[j] + r[j]
      BY <2>2, <3>1, <3>2, <3>4
    <3>6. Summed(g) = Summed(h) + Summed(r)
      <4>1. Len(h) = Len(g) /\ Len(r) = Len(g) /\ \A j \in 1 .. Len(g) : g[j] = h[j] + r[j]
        BY <3>1, <3>2, <3>3, <3>5
      <4> QED
        BY <3>1, <3>2, <3>3, <4>1, SummedPairs
    <3> QED
      BY <3>6 DEF g, h, r
  <2>4. Summed(Rows(k)) = Summed(Columns(k))
    BY <1>6
  <2> HIDE DEF Rows, Columns, Row
  <2> QED
    BY <2>0, <2>1, <2>3, <2>4
<1>7. n \in S
  <2> HIDE DEF S
  <2> QED
    BY <1>5, <1>6, Along
<1>8. Summed(Rows(n)) = Summed(Columns(n))
  BY <1>7
<1> QED
  BY <1>1, <1>2, <1>8

\* Some days in a row, each of them once in a list, count as many times.
LEMMA SummedStretch ==
  ASSUME NEW D \in Seq(Int), \A i, j \in 1 .. Len(D) : D[i] = D[j] => i = j,
         NEW lo \in Int, NEW hi \in Int, lo <= hi + 1,
         \A d \in lo .. hi : \E i \in 1 .. Len(D) : D[i] = d, NEW v \in Int
  PROVE  Summed([i \in 1 .. Len(D) |-> IF D[i] \in lo .. hi THEN v ELSE 0]) = v * (hi - lo + 1)
<1> DEFINE n == hi - lo + 1
           F(k) == [i \in 1 .. Len(D) |-> IF D[i] \in lo .. lo + k - 1 THEN v ELSE 0]
           S == {k \in Nat : Summed(F(k)) = v * k}
<1>0. n \in Nat /\ Len(D) \in Nat /\ \A i \in 1 .. Len(D) : D[i] \in Int
  OBVIOUS
<1>1. \A k : F(k) \in Seq(Int) /\ Len(F(k)) = Len(D)
  <2> TAKE k
  <2>1. F(k) \in [1 .. Len(D) -> Int]
    OBVIOUS
  <2> HIDE DEF F
  <2> QED
    BY <1>0, <2>1
<1>2. 0 \in S
  <2>1. \A i \in 1 .. Len(D) : F(0)[i] = 0
    OBVIOUS
  <2> HIDE DEF F
  <2>2. Summed(F(0)) = 0
    BY <1>1, <2>1, SummedZero
  <2> QED
    BY <2>2
<1>3. ASSUME NEW k \in 0 .. n - 1, k \in S PROVE k + 1 \in S
  <2>0. k \in Nat /\ lo + k \in lo .. hi
    BY <1>0
  <2>1. PICK j \in 1 .. Len(D) : D[j] = lo + k
    BY <2>0
  <2> DEFINE g == [i \in 1 .. Len(D) |-> IF i = j THEN v ELSE 0]
  <2>2. g \in Seq(Int) /\ Len(g) = Len(D)
    <3>1. g \in [1 .. Len(D) -> Int]
      OBVIOUS
    <3> HIDE DEF g
    <3> QED
      BY <1>0, <3>1
  <2>3. g[j] = v /\ \A i \in 1 .. Len(D) : j # i => g[i] = 0
    OBVIOUS
  <2>4. \A i \in 1 .. Len(D) : F(k + 1)[i] = F(k)[i] + g[i]
    <3> TAKE i \in 1 .. Len(D)
    <3>0. D[i] \in Int
      BY <1>0
    <3>1. CASE i = j
      BY <2>0, <2>1, <3>0, <3>1
    <3>2. CASE i # j
      <4>1. D[i] # lo + k
        BY <2>1, <3>2
      <4>2. D[i] \in lo .. lo + (k + 1) - 1 <=> D[i] \in lo .. lo + k - 1
        BY <2>0, <3>0, <4>1
      <4> QED
        BY <3>2, <4>2
    <3> QED
      BY <3>1, <3>2
  <2> HIDE DEF g, F
  <2>5. Summed(F(k + 1)) = Summed(F(k)) + Summed(g)
    BY <1>1, <2>2, <2>4, SummedPairs
  <2>6. Summed(g) = v
    BY <2>2, <2>3, SummedSingle
  <2>7. Summed(F(k)) = v * k
    BY <1>3
  <2>8. v * (k + 1) = v * k + v
    BY <2>0
  <2> QED
    BY <2>0, <2>5, <2>6, <2>7, <2>8
<1>4. n \in S
  <2> HIDE DEF S, n
  <2> QED
    BY <1>0, <1>2, <1>3, Along
<1>5. Summed(F(n)) = v * n
  BY <1>4
<1>6. lo + n - 1 = hi
  OBVIOUS
<1> QED
  BY <1>5, <1>6
=============================================================================
