---------------------------- MODULE NumberLemmas ----------------------------
(***************************************************************************)
(* Facts about numbers and lists that the proofs of several components     *)
(* rest on.                                                                *)
(*                                                                         *)
(* Every set of natural numbers that is not empty has a least element:     *)
(* with it the node nearest to the controller and the first vertex of a    *)
(* route are chosen, and what holds for every finite set or number is      *)
(* proved from a smallest one for which it does not.                       *)
(*                                                                         *)
(* Total(f, S), the sum of a function's values over a finite set, is what  *)
(* MapThenSumSet of FiniteSetsExt computes, without an operator argument.  *)
(*                                                                         *)
(* Recursion says that a function defined step by step up to a bound       *)
(* exists and has its values where the steps stay; with it what Only and   *)
(* SumUpto of Lists return is described for every list.                    *)
(***************************************************************************)
EXTENDS Integers, Lists, FiniteSetTheorems, WellFoundedInduction, TLAPS

\* A set of numbers has a least one: the least of the initial segments up
\* to its elements is that of the least element.
LEMMA HasLeast ==
  ASSUME NEW S, S \subseteq Nat, S # {}
  PROVE  \E k \in S : \A j \in S : k <= j
<1> DEFINE Below == {0 .. i : i \in S}
<1>1. Below \subseteq FiniteSubsetsOf(Nat) /\ Below # {}
  <2>1. ASSUME NEW i \in S PROVE 0 .. i \in FiniteSubsetsOf(Nat)
    BY FS_Interval DEF FiniteSubsetsOf
  <2> QED
    BY <2>1
<1>2. PICK s \in Below : \A t \in Below : <<t, s>> \notin StrictSubsetOrdering(Nat)
  BY <1>1, WFMin, FS_StrictSubsetOrderingWellFounded
<1>3. PICK i \in S : s = 0 .. i
  OBVIOUS
<1>4. ASSUME NEW j \in S, j < i PROVE FALSE
  <2>1. i \in Nat /\ j \in Nat
    OBVIOUS
  <2>2. 0 .. j \subseteq 0 .. i /\ i \in 0 .. i /\ i \notin 0 .. j
    BY <2>1, <1>4
  <2>3. 0 .. j \in SUBSET Nat /\ 0 .. i \in SUBSET Nat
    BY <2>1
  <2>4. <<0 .. j, 0 .. i>> \in StrictSubsetOrdering(Nat)
    BY <2>2, <2>3 DEF StrictSubsetOrdering
  <2> QED
    BY <1>2, <1>3, <2>4
<1> QED
  BY <1>4

\* A collection of finite sets has a smallest one.
LEMMA HasSmallest ==
  ASSUME NEW C, C # {}, \A s \in C : IsFiniteSet(s)
  PROVE  \E s \in C : \A t \in C : Cardinality(s) <= Cardinality(t)
<1> DEFINE sizes == {Cardinality(s) : s \in C}
<1>1. sizes \subseteq Nat /\ sizes # {}
  BY FS_CardinalityType
<1>2. PICK n \in sizes : \A m \in sizes : n <= m
  BY <1>1, HasLeast
<1> QED
  BY <1>2

----------------------------------------------------------------------------
(* Sums                                                                    *)

Picked(s) == CHOOSE x \in s : TRUE

\* it sums up f over the subsets of S, one picked element after the other.
Adds(f, S, it) ==
  it = [s \in SUBSET S |-> IF s = {} THEN 0 ELSE f[Picked(s)] + it[s \ {Picked(s)}]]

Total(f, S) == (CHOOSE it : Adds(f, S, it))[S]

LEMMA OneLess ==
  ASSUME NEW s, IsFiniteSet(s), NEW x \in s
  PROVE  /\ IsFiniteSet(s \ {x}) /\ Cardinality(s) \in Nat
         /\ Cardinality(s \ {x}) = Cardinality(s) - 1
  BY FS_RemoveElement, FS_CardinalityType

LEMMA AddsExists ==
  ASSUME NEW S, IsFiniteSet(S), NEW f
  PROVE  \E it : Adds(f, S, it)
<1> DEFINE Body(it, s) == IF s = {} THEN 0 ELSE f[Picked(s)] + it[s \ {Picked(s)}]
           Upto(n, it) == /\ DOMAIN it = SUBSET S
                          /\ it = [s \in SUBSET S |-> it[s]]
                          /\ \A s \in SUBSET S : Cardinality(s) <= n => it[s] = Body(it, s)
           Bad == {n \in Nat : ~ \E it : Upto(n, it)}
<1>1. \A s \in SUBSET S : IsFiniteSet(s) /\ Cardinality(s) \in Nat
                          /\ Cardinality(s) <= Cardinality(S)
  BY FS_Subset, FS_CardinalityType
<1>2. Bad = {}
  <2> SUFFICES ASSUME Bad # {} PROVE FALSE
    OBVIOUS
  <2>1. PICK n \in Bad : \A m \in Bad : n <= m
    <3>1. Bad \subseteq Nat
      OBVIOUS
    <3> HIDE DEF Bad
    <3> QED
      BY <3>1, HasLeast
  <2>2. CASE n = 0
    <3> DEFINE it == [s \in SUBSET S |-> 0]
    <3>1. ASSUME NEW s \in SUBSET S, Cardinality(s) <= 0 PROVE it[s] = Body(it, s)
      <4>1. s = {}
        BY <1>1, <3>1, FS_EmptySet
      <4> QED
        BY <4>1
    <3>2. DOMAIN it = SUBSET S /\ it = [s \in SUBSET S |-> it[s]]
      OBVIOUS
    <3> HIDE DEF it, Body
    <3>3. Upto(0, it)
      BY <3>1, <3>2
    <3> QED
      BY <2>1, <2>2, <3>3
  <2>3. CASE n # 0
    <3>1. n - 1 \in Nat /\ n - 1 \notin Bad
      <4> HIDE DEF Upto
      <4>1. n \in Nat
        OBVIOUS
      <4>2. n - 1 \in Nat /\ ~ (n <= n - 1)
        BY <2>3, <4>1
      <4> HIDE DEF Bad
      <4> QED
        BY <2>1, <4>2
    <3>2. PICK it : Upto(n - 1, it)
      BY <3>1
    <3> DEFINE jt == [s \in SUBSET S |-> IF Cardinality(s) <= n - 1 THEN it[s] ELSE Body(it, s)]
    <3>3. ASSUME NEW s \in SUBSET S, Cardinality(s) <= n PROVE jt[s] = Body(jt, s)
      <4>1. jt[s] = Body(it, s)
        BY <3>2
      <4>2. CASE s = {}
        BY <4>1, <4>2
      <4>3. CASE s # {}
        <5> DEFINE x == Picked(s)
        <5>1. x \in s
          BY <4>3 DEF Picked
        <5> HIDE DEF x
        <5>2. Cardinality(s \ {x}) <= n - 1 /\ s \ {x} \in SUBSET S
          BY <1>1, <3>3, <5>1, OneLess
        <5>3. jt[s \ {x}] = it[s \ {x}]
          BY <5>2
        <5> QED
          BY <4>1, <4>3, <5>3 DEF x
      <4> QED
        BY <4>2, <4>3
    <3>4. DOMAIN jt = SUBSET S /\ jt = [s \in SUBSET S |-> jt[s]]
      OBVIOUS
    <3> HIDE DEF jt, Body
    <3>5. Upto(n, jt)
      BY <3>3, <3>4
    <3> QED
      BY <2>1, <3>5
  <2> QED
    BY <2>2, <2>3
<1>3. Cardinality(S) \in Nat
  BY FS_CardinalityType
<1>4. PICK it : Upto(Cardinality(S), it)
  BY <1>2, <1>3
<1>5. Adds(f, S, it)
  <2>1. \A s \in SUBSET S : it[s] = Body(it, s)
    BY <1>1, <1>4
  <2> QED
    BY <1>4, <2>1 DEF Adds
<1> QED
  BY <1>5

\* The sum over a subset, by its picked element.
LEMMA AddsPicked ==
  ASSUME NEW f, NEW S, NEW it, Adds(f, S, it), NEW s \in SUBSET S
  PROVE  /\ s = {} => it[s] = 0
         /\ s # {} => /\ Picked(s) \in s
                      /\ it[s] = f[Picked(s)] + it[s \ {Picked(s)}]
<1>1. s # {} => Picked(s) \in s
  BY DEF Picked
<1> QED
  BY <1>1 DEF Adds

\* Sums of what is the same are the same.
LEMMA AddsSame ==
  ASSUME NEW f, NEW S, NEW it, Adds(f, S, it), NEW g, NEW T, NEW jt, Adds(g, T, jt),
         NEW U, U \subseteq S, U \subseteq T, IsFiniteSet(U), \A x \in U : f[x] = g[x]
  PROVE  it[U] = jt[U]
<1> DEFINE Bad == {s \in SUBSET U : it[s] # jt[s]}
<1>1. Bad = {}
  <2> SUFFICES ASSUME Bad # {} PROVE FALSE
    OBVIOUS
  <2>1. \A s \in Bad : IsFiniteSet(s) /\ s \in SUBSET S /\ s \in SUBSET T
    BY FS_Subset
  <2>2. PICK s \in Bad : \A t \in Bad : Cardinality(s) <= Cardinality(t)
    <3> HIDE DEF Bad
    <3> QED
      BY <2>1, HasSmallest
  <2>3. s # {}
    BY <2>1, <2>2, AddsPicked
  <2> DEFINE x == Picked(s)
  <2>4. x \in s /\ it[s] = f[x] + it[s \ {x}] /\ jt[s] = g[x] + jt[s \ {x}]
    BY <2>1, <2>2, <2>3, AddsPicked
  <2> HIDE DEF x
  <2>5. s \ {x} \notin Bad
    <3>1. ~ (Cardinality(s) <= Cardinality(s \ {x}))
      BY <2>1, <2>2, <2>4, OneLess
    <3> QED
      BY <2>2, <3>1
  <2> QED
    BY <2>2, <2>4, <2>5
<1> QED
  BY <1>1

\* Any element may be taken off first.
LEMMA AddsAny ==
  ASSUME NEW f, NEW S, NEW it, Adds(f, S, it), IsFiniteSet(S), \A x \in S : f[x] \in Int
  PROVE  \A s \in SUBSET S : /\ it[s] \in Int
                             /\ \A x \in s : it[s] = f[x] + it[s \ {x}]
<1>1. \A s \in SUBSET S : it[s] \in Int
  <2> DEFINE Bad == {s \in SUBSET S : it[s] \notin Int}
  <2>1. Bad = {}
    <3> SUFFICES ASSUME Bad # {} PROVE FALSE
      OBVIOUS
    <3>1. \A s \in Bad : IsFiniteSet(s) /\ s \in SUBSET S /\ it[s] \notin Int
      BY FS_Subset
    <3>2. PICK s \in Bad : \A t \in Bad : Cardinality(s) <= Cardinality(t)
      <4> HIDE DEF Bad
      <4> QED
        BY <3>1, HasSmallest
    <3>3. s # {}
      <4>1. s \in SUBSET S /\ it[s] \notin Int
        BY <3>1, <3>2
      <4>2. s = {} => it[s] = 0
        BY <4>1, AddsPicked
      <4> HIDE DEF Bad
      <4> QED
        BY <4>1, <4>2
    <3> DEFINE x == Picked(s)
    <3>4. x \in s /\ it[s] = f[x] + it[s \ {x}]
      BY <3>1, <3>2, <3>3, AddsPicked
    <3> HIDE DEF x
    <3>5. ~ (Cardinality(s) <= Cardinality(s \ {x}))
      BY <3>1, <3>2, <3>4, OneLess
    <3> QED
      BY <3>2, <3>4, <3>5
  <2> QED
    BY <2>1
<1>2. ASSUME NEW s \in SUBSET S, NEW x \in s PROVE it[s] = f[x] + it[s \ {x}]
  <2> DEFINE Bad == {t \in SUBSET S : \E y \in t : it[t] # f[y] + it[t \ {y}]}
  <2>1. Bad = {}
    <3> SUFFICES ASSUME Bad # {} PROVE FALSE
      OBVIOUS
    <3>1. \A t \in Bad : IsFiniteSet(t) /\ t \in SUBSET S
      BY FS_Subset
    <3>2. PICK t \in Bad : \A u \in Bad : Cardinality(t) <= Cardinality(u)
      <4> HIDE DEF Bad
      <4> QED
        BY <3>1, HasSmallest
    <3>3. PICK y \in t : it[t] # f[y] + it[t \ {y}]
      BY <3>2
    <3> DEFINE z == Picked(t)
    <3>4. z \in t /\ it[t] = f[z] + it[t \ {z}]
      BY <3>1, <3>2, <3>3, AddsPicked
    <3> HIDE DEF z
    <3>5. z # y
      BY <3>3, <3>4
    <3>6. /\ ~ (Cardinality(t) <= Cardinality(t \ {z}))
          /\ ~ (Cardinality(t) <= Cardinality(t \ {y}))
      <4>1. IsFiniteSet(t) /\ y \in t /\ z \in t
        BY <3>1, <3>3, <3>4
      <4> HIDE DEF Bad
      <4>2. ASSUME NEW x1 \in t PROVE ~ (Cardinality(t) <= Cardinality(t \ {x1}))
        BY <4>1, OneLess
      <4> QED
        BY <4>1, <4>2
    <3> DEFINE r == t \ {y, z}
    <3>7. it[t \ {z}] = f[y] + it[r] /\ it[t \ {y}] = f[z] + it[r]
      <4>1. (t \ {z}) \ {y} = r /\ (t \ {y}) \ {z} = r
        OBVIOUS
      <4> HIDE DEF r
      <4> QED
        BY <3>2, <3>4, <3>5, <3>6, <4>1
    <3>8. /\ f[y] \in Int /\ f[z] \in Int /\ r \in SUBSET S
      BY <3>2, <3>3, <3>4
    <3> HIDE DEF r
    <3>9. it[r] \in Int
      BY <1>1, <3>8
    <3> QED
      BY <3>3, <3>4, <3>7, <3>8, <3>9
  <2> QED
    BY <2>1
<1> QED
  BY <1>1, <1>2

LEMMA TotalAdds ==
  ASSUME NEW f, NEW S, IsFiniteSet(S)
  PROVE  \E it : Adds(f, S, it) /\ Total(f, S) = it[S]
  BY AddsExists DEF Total

LEMMA TotalEmpty == ASSUME NEW f PROVE Total(f, {}) = 0
<1>1. PICK it : Adds(f, {}, it) /\ Total(f, {}) = it[{}]
  BY TotalAdds, FS_EmptySet
<1> QED
  BY <1>1, AddsPicked

LEMMA TotalSame ==
  ASSUME NEW S, IsFiniteSet(S), NEW f, NEW g, \A x \in S : f[x] = g[x]
  PROVE  Total(f, S) = Total(g, S)
<1>1. PICK it : Adds(f, S, it) /\ Total(f, S) = it[S]
  BY TotalAdds
<1>2. PICK jt : Adds(g, S, jt) /\ Total(g, S) = jt[S]
  BY TotalAdds
<1> QED
  BY <1>1, <1>2, AddsSame

LEMMA TotalRemove ==
  ASSUME NEW S, IsFiniteSet(S), NEW f, \A x \in S : f[x] \in Int
  PROVE  /\ Total(f, S) \in Int
         /\ \A x \in S : /\ Total(f, S \ {x}) \in Int
                         /\ Total(f, S) = f[x] + Total(f, S \ {x})
<1>1. PICK it : Adds(f, S, it) /\ Total(f, S) = it[S]
  BY TotalAdds
<1>2. \A s \in SUBSET S : /\ it[s] \in Int
                          /\ \A x \in s : it[s] = f[x] + it[s \ {x}]
  BY <1>1, AddsAny
<1>3. ASSUME NEW x \in S PROVE Total(f, S \ {x}) = it[S \ {x}]
  <2>1. IsFiniteSet(S \ {x}) /\ S \ {x} \subseteq S
    BY OneLess
  <2>2. PICK jt : Adds(f, S \ {x}, jt) /\ Total(f, S \ {x}) = jt[S \ {x}]
    BY <2>1, TotalAdds
  <2> QED
    BY <1>1, <2>1, <2>2, AddsSame
<1> QED
  BY <1>1, <1>2, <1>3

LEMMA TotalAdd ==
  ASSUME NEW S, IsFiniteSet(S), NEW x, x \notin S, NEW f,
         f[x] \in Int, \A y \in S : f[y] \in Int
  PROVE  /\ Total(f, S \cup {x}) = f[x] + Total(f, S)
         /\ Total(f, S) \in Int /\ Total(f, S \cup {x}) \in Int
<1> DEFINE T == S \cup {x}
<1>1. /\ IsFiniteSet(T) /\ x \in T /\ T \ {x} = S /\ \A y \in T : f[y] \in Int
  BY FS_AddElement
<1> HIDE DEF T
<1>2. /\ Total(f, T) \in Int /\ Total(f, T \ {x}) \in Int
      /\ Total(f, T) = f[x] + Total(f, T \ {x})
  BY <1>1, TotalRemove
<1> QED
  BY <1>1, <1>2 DEF T

\* One value changes.
LEMMA TotalChange ==
  ASSUME NEW S, IsFiniteSet(S), NEW x \in S, NEW f, NEW g,
         \A y \in S : f[y] \in Int /\ g[y] \in Int, \A y \in S \ {x} : f[y] = g[y]
  PROVE  /\ Total(f, S) \in Int
         /\ Total(g, S) = Total(f, S) - f[x] + g[x]
<1>1. IsFiniteSet(S \ {x})
  BY OneLess
<1>2. Total(f, S \ {x}) = Total(g, S \ {x})
  BY <1>1, TotalSame
<1>3. /\ Total(f, S) \in Int /\ Total(f, S \ {x}) \in Int
      /\ Total(f, S) = f[x] + Total(f, S \ {x})
      /\ Total(g, S) = g[x] + Total(g, S \ {x})
  BY TotalRemove
<1> QED
  BY <1>2, <1>3

\* The values under other names.
LEMMA TotalRenamed ==
  ASSUME NEW S, NEW T, IsFiniteSet(S), NEW h \in Bijection(S, T), NEW f, NEW g,
         \A x \in S : f[x] \in Int /\ g[h[x]] = f[x]
  PROVE  Total(g, T) = Total(f, S) /\ Total(f, S) \in Int
<1> DEFINE Of(s) == {h[x] : x \in s}
           Bad == {s \in SUBSET S : Total(g, Of(s)) # Total(f, s)}
<1>1. /\ \A x \in S : h[x] \in T /\ \A y \in S : h[x] = h[y] => x = y
      /\ Of(S) = T
  <2>1. h \in [S -> T] /\ IsInjective(h) /\ \A t \in T : \E s \in S : h[s] = t
    BY DEF Bijection, Injection, Surjection
  <2> QED
    BY <2>1 DEF IsInjective
<1>2. Bad = {}
  <2> SUFFICES ASSUME Bad # {} PROVE FALSE
    OBVIOUS
  <2>1. \A s \in Bad : IsFiniteSet(s) /\ s \subseteq S
    BY FS_Subset
  <2>2. PICK s \in Bad : \A t \in Bad : Cardinality(s) <= Cardinality(t)
    <3> HIDE DEF Bad
    <3> QED
      BY <2>1, HasSmallest
  <2>3. PICK x \in s : TRUE
    <3>1. CASE s = {}
      <4>1. Of(s) = {}
        BY <3>1
      <4> QED
        BY <2>2, <3>1, <4>1, TotalEmpty
    <3> QED
      BY <3>1
  <2> DEFINE r == s \ {x}
             u == Of(r)
  <2>4. IsFiniteSet(r) /\ r \in SUBSET S /\ r \notin Bad /\ x \in S /\ x \notin r
        /\ s = r \cup {x}
    <3>1. ~ (Cardinality(s) <= Cardinality(s \ {x}))
      BY <2>1, <2>2, OneLess
    <3> QED
      BY <2>1, <2>2, <2>3, <3>1, OneLess
  <2>5. Total(g, u) = Total(f, r)
    BY <2>4
  <2>6. IsFiniteSet(u) /\ h[x] \notin u /\ Of(s) = u \cup {h[x]} /\ \A y \in u : g[y] \in Int
    <3>1. IsFiniteSet(u)
      <4> DEFINE k == [y \in r |-> h[y]]
      <4>1. k \in Surjection(r, u)
        BY DEF Surjection
      <4> HIDE DEF k, r, u
      <4> QED
        BY <2>4, <4>1, FS_Surjection
    <3>2. h[x] \notin u
      BY <1>1, <2>4
    <3>3. Of(s) = u \cup {h[x]}
      BY <2>4
    <3>4. \A y \in u : g[y] \in Int
      BY <2>4
    <3> QED
      BY <3>1, <3>2, <3>3, <3>4
  <2> HIDE DEF r, u
  <2>7. Total(g, u \cup {h[x]}) = g[h[x]] + Total(g, u)
    BY <2>4, <2>6, TotalAdd
  <2>8. Total(f, r \cup {x}) = f[x] + Total(f, r)
    BY <2>4, TotalAdd
  <2> QED
    BY <2>2, <2>4, <2>5, <2>6, <2>7, <2>8
<1>3. Total(g, Of(S)) = Total(f, S)
  BY <1>2
<1> QED
  BY <1>1, <1>3, TotalRemove

----------------------------------------------------------------------------
\* Two numbers with the same remainder are apart by the modulus at least.
LEMMA SameRemainder ==
  ASSUME NEW m \in Nat \ {0}, NEW a \in Nat, NEW b \in Nat, a % m = b % m, a < b
  PROVE  a + m <= b
<1> DEFINE q == a \div m
           r == b \div m
<1>1. q \in Int /\ r \in Int OBVIOUS
<1>2. a = m * q + (a % m) /\ b = m * r + (b % m) OBVIOUS
<1> HIDE DEF q, r
<1>3. m * q < m * r BY <1>1, <1>2
<1>4. q + 1 <= r
  <2>1. SUFFICES ASSUME r <= q PROVE FALSE BY <1>1
  <2>2. m * r <= m * q BY <1>1, <2>1
  <2> QED BY <1>1, <1>3, <2>2
<1>5. m * (q + 1) <= m * r BY <1>1, <1>4
<1>6. m * (q + 1) = m * q + m BY <1>1
<1> QED BY <1>1, <1>2, <1>5, <1>6

----------------------------------------------------------------------------
\* Induction up to a bound, the property as a set.
LEMMA Induct ==
  ASSUME NEW n \in Nat, NEW P, 0 \in P,
         \A k \in 0 .. n - 1 : k \in P => k + 1 \in P
  PROVE  \A k \in 0 .. n : k \in P
<1> DEFINE Bad == {k \in 0 .. n : k \notin P}
<1> SUFFICES ASSUME Bad # {} PROVE FALSE
  OBVIOUS
<1>1. Bad \subseteq Nat
  OBVIOUS
<1>2. PICK k \in Bad : \A j \in Bad : k <= j
  <2> HIDE DEF Bad
  <2> QED
    BY <1>1, HasLeast
<1>3. k \in 0 .. n /\ k \notin P /\ k # 0
  OBVIOUS
<1>4. k - 1 \in 0 .. n - 1 /\ ~ (k <= k - 1)
  BY <1>3
<1>5. k - 1 \in P
  BY <1>2, <1>4
<1>6. k - 1 + 1 = k
  BY <1>3
<1> QED
  BY <1>3, <1>4, <1>5, <1>6

\* Recursion up to a bound: what starts in S and stays there step by step is
\* a function.
Stays(step, n, S) == \A x \in S, k \in 1 .. n : step[<<x, k>>] \in S

Goes(g, n, b, step) == g[0] = b /\ \A k \in 1 .. n : g[k] = step[<<g[k - 1], k>>]

Runs(n, S, b, step) == \E g \in [0 .. n -> S] : Goes(g, n, b, step)

LEMMA Recursion ==
  ASSUME NEW n \in Nat, NEW S, NEW b \in S, NEW step, Stays(step, n, S)
  PROVE  Runs(n, S, b, step)
<1> DEFINE P == {m \in 0 .. n : \E g \in [0 .. m -> S] : Goes(g, m, b, step)}
<1>1. 0 \in P
  <2> DEFINE h == [i \in 0 .. 0 |-> b]
  <2>1. h \in [0 .. 0 -> S] /\ Goes(h, 0, b, step)
    BY DEF Goes
  <2>2. 0 \in 0 .. n
    OBVIOUS
  <2> HIDE DEF h
  <2> QED
    BY <2>1, <2>2
<1>2. ASSUME NEW m \in 0 .. n - 1, m \in P PROVE m + 1 \in P
  <2>1. PICK g \in [0 .. m -> S] : Goes(g, m, b, step)
    BY <1>2
  <2> DEFINE h == [i \in 0 .. m + 1 |-> IF i = m + 1 THEN step[<<g[m], m + 1>>] ELSE g[i]]
  <2>2. g[m] \in S /\ m + 1 \in 1 .. n
    OBVIOUS
  <2>3. h \in [0 .. m + 1 -> S]
    BY <2>2 DEF Stays
  <2>4. h[0] = b
    BY <2>1 DEF Goes
  <2>5. ASSUME NEW k \in 1 .. m + 1 PROVE h[k] = step[<<h[k - 1], k>>]
    <3>1. k - 1 \in 0 .. m /\ h[k - 1] = g[k - 1]
      OBVIOUS
    <3>2. CASE k = m + 1
      <4>1. h[k] = step[<<g[m], m + 1>>] /\ k - 1 = m
        BY <3>2
      <4> HIDE DEF h
      <4> QED
        BY <3>1, <3>2, <4>1
    <3>3. CASE k # m + 1
      <4>1. k \in 1 .. m /\ h[k] = g[k]
        BY <3>3
      <4> QED
        BY <2>1, <3>1, <4>1 DEF Goes
    <3> QED
      BY <3>2, <3>3
  <2>6. Goes(h, m + 1, b, step)
    BY <2>4, <2>5 DEF Goes
  <2>7. m + 1 \in 0 .. n
    OBVIOUS
  <2> HIDE DEF h
  <2> QED
    BY <2>3, <2>6, <2>7
<1>3. n \in P
  <2> HIDE DEF P
  <2> QED
    BY <1>1, <1>2, Induct
<1> QED
  BY <1>3 DEF Runs

\* How the running sum goes on.
LEMMA SumUptoIs ==
  ASSUME NEW n \in Nat, NEW f, NEW h,
         h = [k \in 0 .. n |-> IF k = 0 THEN 0 ELSE h[k - 1] + f[k]]
  PROVE  SumUpto(f, n) = h[n]
<1> DEFINE s == CHOOSE g : g = [k \in 0 .. n |-> IF k = 0 THEN 0 ELSE g[k - 1] + f[k]]
           P == {k \in 0 .. n : s[k] = h[k]}
<1>1. s = [k \in 0 .. n |-> IF k = 0 THEN 0 ELSE s[k - 1] + f[k]]
  OBVIOUS
<1>2. SumUpto(f, n) = s[n]
  BY DEF SumUpto
<1>3. \A k \in 0 .. n : s[k] = IF k = 0 THEN 0 ELSE s[k - 1] + f[k]
  <2> HIDE DEF s
  <2> QED
    BY <1>1
<1>4. \A k \in 0 .. n : h[k] = IF k = 0 THEN 0 ELSE h[k - 1] + f[k]
  OBVIOUS
<1> HIDE DEF s
<1>5. 0 \in P
  BY <1>3, <1>4
<1>6. ASSUME NEW k \in 0 .. n - 1, k \in P PROVE k + 1 \in P
  <2>1. k + 1 \in 0 .. n /\ k + 1 # 0 /\ (k + 1) - 1 = k
    OBVIOUS
  <2>2. s[k + 1] = s[k] + f[k + 1] /\ h[k + 1] = h[k] + f[k + 1]
    BY <1>3, <1>4, <2>1
  <2> QED
    BY <1>6, <2>1, <2>2
<1>7. n \in P
  <2> HIDE DEF P
  <2>1. \A k \in 0 .. n - 1 : k \in P => k + 1 \in P
    BY <1>6
  <2>2. \A k \in 0 .. n : k \in P
    BY <1>5, <2>1, Induct
  <2> QED
    BY <2>2
<1> QED
  BY <1>2, <1>7

\* The running sums of a list of numbers, as a function.
LEMMA SumsExist ==
  ASSUME NEW n \in Nat, NEW f \in [1 .. n -> Nat]
  PROVE  \E h \in [0 .. n -> Nat] :
            /\ h[0] = 0
            /\ \A k \in 1 .. n : h[k] = h[k - 1] + f[k]
            /\ \A k \in 0 .. n : SumUpto(f, k) = h[k]
<1> DEFINE step == [x \in Nat \X (1 .. n) |-> x[1] + f[x[2]]]
<1>1. \A x \in Nat, k \in 1 .. n : step[<<x, k>>] = x + f[k] /\ step[<<x, k>>] \in Nat
  OBVIOUS
<1>2. PICK h \in [0 .. n -> Nat] : h[0] = 0 /\ \A k \in 1 .. n : h[k] = step[<<h[k - 1], k>>]
  <2> HIDE DEF step
  <2>1. Stays(step, n, Nat) /\ 0 \in Nat
    BY <1>1 DEF Stays
  <2>2. Runs(n, Nat, 0, step)
    BY <2>1, Recursion
  <2> QED
    BY <2>2 DEF Runs, Goes
<1>3. \A k \in 1 .. n : h[k] = h[k - 1] + f[k]
  <2>1. \A k \in 1 .. n : h[k - 1] \in Nat
    OBVIOUS
  <2> HIDE DEF step
  <2> QED
    BY <1>1, <1>2, <2>1
<1>4. ASSUME NEW m \in 0 .. n PROVE SumUpto(f, m) = h[m]
  <2> DEFINE g == [k \in 0 .. m |-> h[k]]
  <2>1. g = [k \in 0 .. m |-> IF k = 0 THEN 0 ELSE g[k - 1] + f[k]]
    <3>1. \A k \in 0 .. m : h[k] = IF k = 0 THEN 0 ELSE h[k - 1] + f[k]
      BY <1>2, <1>3
    <3>2. \A k \in 0 .. m : k # 0 => g[k - 1] = h[k - 1]
      OBVIOUS
    <3> QED
      BY <3>1, <3>2
  <2>2. g[m] = h[m]
    OBVIOUS
  <2> HIDE DEF g
  <2>3. SumUpto(f, m) = g[m]
    <3>1. m \in Nat
      OBVIOUS
    <3> QED
      BY ONLY <2>1, <3>1, SumUptoIs
  <2> QED
    BY <2>2, <2>3
<1> QED
  BY <1>2, <1>3, <1>4

\* r lists the elements of the first m of s that are in S, f says where in s
\* they are.
Picks(f, r, s, m, S) ==
  /\ f \in [1 .. Len(r) -> 1 .. m]
  /\ \A i \in 1 .. Len(r) : r[i] = s[f[i]] /\ r[i] \in S
  /\ \A i, j \in 1 .. Len(r) : i < j => f[i] < f[j]
  /\ \A k \in 1 .. m : s[k] \in S => \E i \in 1 .. Len(r) : f[i] = k

LEMMA PicksNext ==
  ASSUME NEW T, NEW s \in Seq(T), NEW S, NEW m \in 0 .. Len(s) - 1,
         NEW r \in Seq(T), NEW f, Picks(f, r, s, m, S)
  PROVE  LET q == IF s[m + 1] \in S THEN Append(r, s[m + 1]) ELSE r
         IN  q \in Seq(T) /\ \E g : Picks(g, q, s, m + 1, S)
<1> DEFINE q == IF s[m + 1] \in S THEN Append(r, s[m + 1]) ELSE r
<1>0. Len(r) \in Nat /\ Len(s) \in Nat /\ m + 1 \in 1 .. Len(s) /\ m \in Nat
  OBVIOUS
<1>1. CASE s[m + 1] \notin S
  <2>1. q = r
    BY <1>1
  <2>2. f \in [1 .. Len(r) -> 1 .. m + 1]
    BY <1>0 DEF Picks
  <2>3. \A k \in 1 .. m + 1 : s[k] \in S => k \in 1 .. m
    BY <1>0, <1>1
  <2>4. Picks(f, r, s, m + 1, S)
    BY <2>2, <2>3 DEF Picks
  <2> QED
    BY <2>1, <2>4
<1>2. CASE s[m + 1] \in S
  <2> DEFINE g == [i \in 1 .. Len(r) + 1 |-> IF i = Len(r) + 1 THEN m + 1 ELSE f[i]]
  <2>1. q = Append(r, s[m + 1]) /\ s[m + 1] \in T
    BY <1>0, <1>2
  <2>2. q \in Seq(T) /\ Len(q) = Len(r) + 1 /\ q[Len(r) + 1] = s[m + 1]
    BY <2>1
  <2>3. \A i \in 1 .. Len(r) : q[i] = r[i] /\ g[i] = f[i] /\ f[i] \in 1 .. m
    BY <2>1, <1>0 DEF Picks
  <2>4. g[Len(r) + 1] = m + 1
    BY <1>0
  <2>5. \A i \in 1 .. Len(r) + 1 : i = Len(r) + 1 \/ i \in 1 .. Len(r)
    BY <1>0
  <2>6. g \in [1 .. Len(r) + 1 -> 1 .. m + 1]
    <3>1. \A i \in 1 .. Len(r) : f[i] \in 1 .. m + 1
      <4>1. \A i \in 1 .. Len(r) : f[i] \in 1 .. m
        BY DEF Picks
      <4>2. 1 .. m \subseteq 1 .. m + 1
        BY <1>0
      <4> QED
        BY <4>1, <4>2
    <3>2. m + 1 \in 1 .. m + 1
      BY <1>0
    <3>3. \A i \in 1 .. Len(r) + 1 : (IF i = Len(r) + 1 THEN m + 1 ELSE f[i]) \in 1 .. m + 1
      BY <2>5, <3>1, <3>2
    <3> QED
      BY <3>3
  <2> HIDE DEF g, q
  <2>7. \A i \in 1 .. Len(r) + 1 : q[i] = s[g[i]] /\ q[i] \in S
    BY <2>2, <2>3, <2>4, <2>5, <1>2 DEF Picks
  <2>8. ASSUME NEW i \in 1 .. Len(r) + 1, NEW j \in 1 .. Len(r) + 1, i < j PROVE g[i] < g[j]
    <3>1. i \in 1 .. Len(r)
      BY <2>8, <1>0
    <3>2. CASE j = Len(r) + 1
      BY <3>1, <3>2, <2>3, <2>4, <1>0
    <3>3. CASE j \in 1 .. Len(r)
      BY <3>1, <3>3, <2>3, <2>8 DEF Picks
    <3> QED
      BY <3>2, <3>3, <2>5
  <2>9. ASSUME NEW k \in 1 .. m + 1, s[k] \in S PROVE \E i \in 1 .. Len(r) + 1 : g[i] = k
    <3>1. CASE k = m + 1
      BY <3>1, <2>4, <1>0
    <3>2. CASE k # m + 1
      <4>1. k \in 1 .. m
        BY <3>2, <1>0
      <4>2. PICK i \in 1 .. Len(r) : f[i] = k
        BY <4>1, <2>9 DEF Picks
      <4>3. i \in 1 .. Len(r) + 1 /\ g[i] = k
        BY <4>2, <2>3, <1>0
      <4> QED
        BY <4>3
    <3> QED
      BY <3>1, <3>2
  <2>10. Picks(g, q, s, m + 1, S)
    BY <2>2, <2>6, <2>7, <2>8, <2>9 DEF Picks
  <2> QED
    BY <2>2, <2>10 DEF q
<1> QED
  BY <1>1, <1>2

\* What Only takes from a list.
LEMMA OnlyPicks ==
  ASSUME NEW T, NEW s \in Seq(T), NEW S
  PROVE  Only(s, S) \in Seq(T) /\ \E f : Picks(f, Only(s, S), s, Len(s), S)
<1> DEFINE next(x, k) == IF s[k] \in S THEN Append(x, s[k]) ELSE x
           step == [x \in Seq(T) \X (1 .. Len(s)) |-> next(x[1], x[2])]
           n == Len(s)
<1>1. n \in Nat
  OBVIOUS
<1>2. \A x \in Seq(T), k \in 1 .. n : step[<<x, k>>] = next(x, k) /\ next(x, k) \in Seq(T)
  OBVIOUS
<1>3. << >> \in Seq(T) /\ Stays(step, n, Seq(T))
  <2> HIDE DEF next, step
  <2> QED
    BY <1>2 DEF Stays
<1>4. Runs(n, Seq(T), << >>, step)
  <2> HIDE DEF step, n
  <2> QED
    BY <1>1, <1>3, Recursion
<1>5. PICK h \in [0 .. n -> Seq(T)] : Goes(h, n, << >>, step)
  BY <1>4 DEF Runs
<1>6. h = [k \in 0 .. n |-> IF k = 0 THEN << >> ELSE next(h[k - 1], k)]
  <2> HIDE DEF next, step, n
  <2>1. \A k \in 1 .. n : h[k] = next(h[k - 1], k)
    <3>1. \A k \in 1 .. n : h[k - 1] \in Seq(T)
      BY <1>1
    <3> QED
      BY <1>2, <1>5, <3>1 DEF Goes
  <2> QED
    BY <1>1, <1>5, <2>1 DEF Goes
<1> DEFINE d == CHOOSE g : g = [k \in 0 .. n |-> IF k = 0 THEN << >> ELSE next(g[k - 1], k)]
<1>7. d = [k \in 0 .. n |-> IF k = 0 THEN << >> ELSE next(d[k - 1], k)]
  BY <1>6
<1>8. Only(s, S) = d[n]
  BY DEF Only
<1> DEFINE P == {k \in 0 .. n : d[k] \in Seq(T) /\ \E f : Picks(f, d[k], s, k, S)}
<1> HIDE DEF d
<1>9. 0 \in P
  <2>1. d[0] = << >>
    BY <1>7
  <2>2. Picks(<< >>, << >>, s, 0, S)
    BY DEF Picks
  <2> QED
    BY <2>1, <2>2
<1>10. ASSUME NEW k \in 0 .. n - 1, k \in P PROVE k + 1 \in P
  <2>1. d[k] \in Seq(T)
    BY <1>10
  <2>2. PICK f : Picks(f, d[k], s, k, S)
    BY <1>10
  <2>3. k + 1 \in 0 .. n /\ k + 1 # 0 /\ (k + 1) - 1 = k
    OBVIOUS
  <2>4. d[k + 1] = next(d[k], k + 1)
    BY <1>7, <2>3
  <2>5. next(d[k], k + 1) \in Seq(T) /\ \E g : Picks(g, next(d[k], k + 1), s, k + 1, S)
    BY <2>1, <2>2, PicksNext
  <2> QED
    BY <2>3, <2>4, <2>5
<1>11. n \in P
  <2> HIDE DEF P, n
  <2>1. \A k \in 0 .. n - 1 : k \in P => k + 1 \in P
    BY <1>10
  <2>2. \A k \in 0 .. n : k \in P
    BY <1>1, <1>9, <2>1, Induct
  <2> QED
    BY <1>1, <2>2
<1> QED
  BY <1>8, <1>11

LEMMA OnlySet ==
  ASSUME NEW T, NEW s \in Seq(T), NEW S
  PROVE  /\ \A x : (\E i \in 1 .. Len(Only(s, S)) : Only(s, S)[i] = x)
                     <=> x \in S /\ \E k \in 1 .. Len(s) : s[k] = x
<1> DEFINE r == Only(s, S)
<1>1. PICK f : Picks(f, r, s, Len(s), S)
  BY OnlyPicks
<1> HIDE DEF r
<1>2. ASSUME NEW i \in 1 .. Len(r) PROVE r[i] \in S /\ \E k \in 1 .. Len(s) : s[k] = r[i]
  BY <1>1 DEF Picks
<1>3. ASSUME NEW k \in 1 .. Len(s), s[k] \in S PROVE \E i \in 1 .. Len(r) : r[i] = s[k]
  BY <1>1, <1>3 DEF Picks
<1>4. \A x : (\E i \in 1 .. Len(r) : r[i] = x) <=> x \in S /\ \E k \in 1 .. Len(s) : s[k] = x
  BY <1>2, <1>3
<1> QED
  BY <1>4 DEF r

\* A list that names nobody twice is cut down to one that does not either.
LEMMA OnlyOnce ==
  ASSUME NEW T, NEW s \in Seq(T), NEW S,
         \A i, j \in 1 .. Len(s) : s[i] = s[j] => i = j
  PROVE  \A i, j \in 1 .. Len(Only(s, S)) : Only(s, S)[i] = Only(s, S)[j] => i = j
<1> DEFINE r == Only(s, S)
<1>0. r \in Seq(T)
  BY OnlyPicks
<1>1. PICK f : Picks(f, r, s, Len(s), S)
  BY OnlyPicks
<1> HIDE DEF r
<1>2. ASSUME NEW i \in 1 .. Len(r), NEW j \in 1 .. Len(r), r[i] = r[j] PROVE i = j
  <2>1. f[i] \in 1 .. Len(s) /\ f[j] \in 1 .. Len(s) /\ s[f[i]] = s[f[j]]
    BY <1>1, <1>2 DEF Picks
  <2>2. f[i] = f[j]
    BY <2>1
  <2>3. ~ (i < j) /\ ~ (j < i)
    BY <1>1, <2>1, <2>2 DEF Picks
  <2> QED
    BY <2>3, <1>0
<1> QED
  BY <1>2 DEF r

\* A list all of which is in the set is left as it is.
LEMMA OnlyAll ==
  ASSUME NEW T, NEW s \in Seq(T), NEW S, \A i \in 1 .. Len(s) : s[i] \in S
  PROVE  Only(s, S) = s
<1> DEFINE r == Only(s, S)
           n == Len(s)
<1>0. r \in Seq(T) /\ Len(r) \in Nat /\ n \in Nat
  BY OnlyPicks
<1>1. PICK f : Picks(f, r, s, n, S)
  BY OnlyPicks
<1> HIDE DEF r
<1>2. /\ f \in [1 .. Len(r) -> 1 .. n]
      /\ \A i \in 1 .. Len(r) : r[i] = s[f[i]]
      /\ \A i, j \in 1 .. Len(r) : i < j => f[i] < f[j]
      /\ \A k \in 1 .. n : \E i \in 1 .. Len(r) : f[i] = k
  BY <1>1 DEF Picks
<1> HIDE DEF n
\* the k-th place of the one is the k-th of the other
<1> DEFINE P == {k \in 0 .. n : \A j \in 1 .. k : j \in 1 .. Len(r) /\ f[j] = j}
<1>3. 0 \in P
  BY <1>0
<1>4. ASSUME NEW k \in 0 .. n - 1, k \in P PROVE k + 1 \in P
  <2>0. k + 1 \in 1 .. n /\ k + 1 \in 0 .. n
    BY <1>0
  <2>1. PICK i \in 1 .. Len(r) : f[i] = k + 1
    BY <1>2, <2>0
  <2>2. i >= k + 1
    <3>1. ASSUME i <= k PROVE FALSE
      <4>1. i \in 1 .. k
        BY <1>0, <3>1
      <4>2. f[i] = i
        BY <1>4, <4>1
      <4> QED
        BY <2>1, <3>1, <4>2
    <3> QED
      BY <3>1
  <2>3. k + 1 \in 1 .. Len(r)
    BY <1>0, <2>0, <2>2
  <2>4. ASSUME i > k + 1 PROVE FALSE
    <3>1. f[k + 1] < k + 1 /\ f[k + 1] \in 1 .. n
      BY <1>2, <2>1, <2>3, <2>4
    <3>2. f[k + 1] \in 1 .. k
      BY <3>1
    <3> DEFINE j == f[k + 1]
    <3> HIDE DEF j
    <3>3. j \in 1 .. k /\ j < k + 1 /\ f[k + 1] = j
      BY <3>1, <3>2 DEF j
    <3>4. j \in 1 .. Len(r) /\ f[j] = j
      BY <1>4, <3>3
    <3>5. f[j] < f[k + 1]
      BY <1>2, <2>3, <3>3, <3>4
    <3> QED
      BY <3>3, <3>4, <3>5
  <2>5. i = k + 1
    BY <2>0, <2>2, <2>4
  <2>6. \A j \in 1 .. k + 1 : j \in 1 .. k \/ j = k + 1
    OBVIOUS
  <2> QED
    BY <1>4, <2>0, <2>1, <2>3, <2>5, <2>6
<1>5. n \in P
  <2> HIDE DEF P
  <2>1. \A k \in 0 .. n - 1 : k \in P => k + 1 \in P
    BY <1>4
  <2>2. \A k \in 0 .. n : k \in P
    BY <1>0, <1>3, <2>1, Induct
  <2> QED
    BY <1>0, <2>2
<1>6. \A j \in 1 .. n : j \in 1 .. Len(r) /\ f[j] = j
  BY <1>5
<1>7. Len(r) = n
  <2>1. Len(r) >= n
    <3>1. n # 0 => n \in 1 .. n
      BY <1>0
    <3> QED
      BY <1>0, <1>6, <3>1
  <2>2. ASSUME Len(r) > n PROVE FALSE
    <3>1. Len(r) \in 1 .. Len(r)
      BY <1>0, <2>2
    <3>2. f[Len(r)] \in 1 .. n
      BY <1>2, <3>1
    <3> DEFINE j == f[Len(r)]
    <3>3. f[j] = j /\ j < Len(r) /\ j \in 1 .. Len(r)
      BY <1>0, <1>6, <2>2, <3>2
    <3>4. f[j] < f[Len(r)]
      BY <1>2, <3>1, <3>3
    <3>5. f[Len(r)] \in Int
      BY <3>2
    <3> QED
      BY <3>3, <3>4, <3>5
  <2> QED
    BY <1>0, <2>1, <2>2
<1>8. \A j \in 1 .. n : r[j] = s[j]
  BY <1>2, <1>6, <1>7
<1>9. r = s
  BY <1>0, <1>7, <1>8 DEF n
<1> QED
  BY <1>9 DEF r

=============================================================================
