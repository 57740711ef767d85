----------------------------- MODULE NumberLemmas -----------------------------
(***************************************************************************)
(* What the proofs of several components need of the natural numbers: a    *)
(* set of them has a least member and, when it is bounded, a greatest one. *)
(* The least number a statement fails at is also how induction is done     *)
(* here: the induction theorems of the library take the statement as an    *)
(* operator, which the provers cannot instantiate.                         *)
(***************************************************************************)
EXTENDS Integers, FiniteSetTheorems, WellFoundedInduction, TLAPS

Below == {ss \in Nat \X Nat : ss[1] < ss[2]}

LEMMA LeastNatural ==
  ASSUME NEW T, T \subseteq Nat, T # {}
  PROVE  \E x \in T : \A y \in T : x <= y
<1>1. OpToRel(<, Nat) = Below
  BY DEF OpToRel, Below
<1>2. IsWellFoundedOn(Below, Nat)
  BY <1>1, NatLessThanWellFounded
<1>3. PICK x \in T : \A y \in T : <<y, x>> \notin Below
  BY <1>2, WFMin
<1>4. ASSUME NEW y \in T PROVE x <= y
  <2>1. <<y, x>> \in Nat \X Nat /\ <<y, x>>[1] = y /\ <<y, x>>[2] = x
    OBVIOUS
  <2>2. ~(y < x)
    BY <1>3, <2>1 DEF Below
  <2> QED
    BY <2>2
<1> QED
  BY <1>4

LEMMA GreatestNatural ==
  ASSUME NEW T, T \subseteq Nat, T # {}, NEW n \in Nat, \A x \in T : x <= n
  PROVE  \E x \in T : \A y \in T : y <= x
<1> DEFINE U == {n - x : x \in T}
<1>1. U \subseteq Nat /\ U # {}
  <2>1. \A x \in T : x \in Nat /\ n - x \in Nat
    OBVIOUS
  <2> QED
    BY <2>1
<1>2. PICK u \in U : \A v \in U : u <= v
  <2> HIDE DEF U
  <2> QED
    BY <1>1, LeastNatural
<1>3. PICK x \in T : u = n - x
  BY <1>2
<1>4. \A y \in T : n - x <= n - y
  BY <1>2, <1>3
<1> QED
  BY <1>4
(* Finitely many numbers have a bound.                                     *)
LEMMA FinitelyManyAreBounded ==
  ASSUME NEW n \in Nat, NEW f \in [1..n -> Nat]
  PROVE  \E m \in Nat : \A i \in 1..n : f[i] <= m
<1> DEFINE Bounded(k) == \E m \in Nat : \A i \in 1..k : f[i] <= m
           Bad == {k \in 0..n : ~Bounded(k)}
<1>1. CASE Bad = {}
  <2>1. n \in 0..n
    OBVIOUS
  <2> QED
    BY <1>1, <2>1
<1>2. CASE Bad # {}
  <2>1. PICK k \in Bad : \A j \in Bad : k <= j
    <3>1. Bad \subseteq Nat
      OBVIOUS
    <3> HIDE DEF Bad
    <3> QED
      BY <1>2, <3>1, LeastNatural
  <2>2. k \in 0..n /\ ~Bounded(k)
    BY <2>1
  <2>3. Bounded(0)
    <3>1. 1..0 = {} /\ 0 \in Nat
      OBVIOUS
    <3> QED
      BY <3>1
  <2> HIDE DEF Bounded
  <2>4. k \in 1..n /\ k - 1 \in 0..n /\ f[k] \in Nat /\ \A i \in 1..k : i \in 1..(k - 1) \/ i = k
    BY <2>2, <2>3
  <2>5. Bounded(k - 1)
    BY <2>1, <2>4
  <2>6. PICK m \in Nat : \A i \in 1..(k - 1) : f[i] <= m
    BY <2>5 DEF Bounded
  <2>7. \A i \in 1..k : f[i] <= m + f[k]
    <3>1. \A i \in 1..(k - 1) : f[i] \in Nat
      BY <2>4
    <3> QED
      BY <2>4, <2>6, <3>1
  <2>8. m + f[k] \in Nat
    BY <2>4
  <2>9. Bounded(k)
    BY <2>7, <2>8 DEF Bounded
  <2> QED
    BY <2>2, <2>9
<1> QED
  BY <1>1, <1>2
(* A finite set of them has a greatest one.                                *)
LEMMA FiniteHasGreatest ==
  ASSUME NEW T, T \subseteq Nat, T # {}, IsFiniteSet(T)
  PROVE  \E x \in T : \A y \in T : y <= x
<1>1. PICK n \in Nat : ExistsSurjection(1..n, T)
  BY FS_NatSurjection
<1>2. PICK f \in [1..n -> T] : \A y \in T : \E i \in 1..n : f[i] = y
  BY <1>1 DEF ExistsSurjection, Surjection
<1>3. f \in [1..n -> Nat]
  BY <1>2
<1>4. PICK m \in Nat : \A i \in 1..n : f[i] <= m
  BY <1>3, FinitelyManyAreBounded
<1>5. \A y \in T : y <= m
  BY <1>2, <1>4
<1> QED
  BY <1>5, GreatestNatural

-----------------------------------------------------------------------------
(* Running sums: f starts at 0 and adds t, from 0 to n.                    *)
Adds(f, t, n) == f[-1] = 0 /\ \A a \in 0..n : f[a] = f[a - 1] + t[a]

(* The recursion that defines them has a solution.                         *)
LEMMA RunningSumExists ==
  ASSUME NEW n \in Nat, NEW t
  PROVE  \E f : f = [a \in -1..n |-> IF a < 0 THEN 0 ELSE f[a - 1] + t[a]]
<1> DEFINE Solves(f, k) == f = [a \in -1..k |-> IF a < 0 THEN 0 ELSE f[a - 1] + t[a]]
           Bad == {k \in 0..n : ~\E f : Solves(f, k)}
<1>1. CASE Bad = {}
  <2>1. n \in 0..n
    OBVIOUS
  <2> QED
    BY <1>1, <2>1
<1>2. CASE Bad # {}
  <2>1. PICK k \in Bad : \A j \in Bad : k <= j
    <3>1. Bad \subseteq Nat
      OBVIOUS
    <3> HIDE DEF Bad
    <3> QED
      BY <1>2, <3>1, LeastNatural
  <2>2. k \in 0..n /\ ~\E f : Solves(f, k)
    BY <2>1
  <2>3. \E e : Solves(e, k - 1)
    <3>1. CASE k = 0
      <4> DEFINE e == [a \in -1..-1 |-> 0]
      <4>1. \A a \in -1..-1 : a < 0
        OBVIOUS
      <4>2. Solves(e, -1)
        BY <4>1
      <4>3. k - 1 = -1
        BY <3>1
      <4> HIDE DEF Solves, e
      <4> QED
        BY <4>2, <4>3
    <3>2. CASE k # 0
      <4>1. k - 1 \in 0..n /\ ~(k <= k - 1)
        BY <2>2, <3>2
      <4> QED
        BY <2>1, <4>1
    <3> QED
      BY <3>1, <3>2
  <2>4. PICK e : Solves(e, k - 1)
    BY <2>3
  <2> DEFINE f == [a \in -1..k |-> IF a < k THEN e[a] ELSE e[k - 1] + t[k]]
  <2>5. ASSUME NEW a \in -1..k
        PROVE  f[a] = IF a < 0 THEN 0 ELSE f[a - 1] + t[a]
    <3>1. CASE a < k
      <4>1. f[a] = e[a] /\ a \in -1..(k - 1) /\ e[a] = IF a < 0 THEN 0 ELSE e[a - 1] + t[a]
        BY <2>2, <2>4, <3>1
      <4>2. a >= 0 => f[a - 1] = e[a - 1]
        BY <2>2, <3>1
      <4> QED
        BY <4>1, <4>2
    <3>2. CASE a = k
      <4>1. f[a] = e[k - 1] + t[k] /\ a >= 0 /\ ~(a < 0)
        BY <2>2, <3>2
      <4>2. f[a - 1] = e[a - 1]
        BY <2>2, <3>2
      <4> QED
        BY <3>2, <4>1, <4>2
    <3> QED
      BY <2>2, <3>1, <3>2
  <2>6. Solves(f, k)
    <3> DEFINE g == [a \in -1..k |-> IF a < 0 THEN 0 ELSE f[a - 1] + t[a]]
    <3>1. f = [a \in -1..k |-> f[a]]
      OBVIOUS
    <3> HIDE DEF f
    <3>2. g = [a \in -1..k |-> f[a]]
      BY <2>5
    <3> QED
      BY <3>1, <3>2
  <2> QED
    BY <2>2, <2>6
<1> QED
  BY <1>1, <1>2

(* Sums of naturals are naturals, and keep the order of their terms.       *)
LEMMA SumsCompare ==
  ASSUME NEW n \in Nat, NEW s, NEW t, NEW f, NEW g,
         Adds(f, s, n), Adds(g, t, n),
         \A a \in 0..n : s[a] \in Nat /\ t[a] \in Nat /\ s[a] <= t[a]
  PROVE  f[n] \in Nat /\ g[n] \in Nat /\ f[n] <= g[n]
<1> DEFINE Fine(a) == f[a] \in Nat /\ g[a] \in Nat /\ f[a] <= g[a]
           Bad == {a \in 0..n : ~Fine(a)}
<1>1. CASE Bad = {}
  <2>1. n \in 0..n
    OBVIOUS
  <2> QED
    BY <1>1, <2>1
<1>2. CASE Bad # {}
  <2>1. PICK k \in Bad : \A j \in Bad : k <= j
    <3>1. Bad \subseteq Nat
      OBVIOUS
    <3> HIDE DEF Bad
    <3> QED
      BY <1>2, <3>1, LeastNatural
  <2>2. k \in 0..n /\ ~Fine(k)
    BY <2>1
  <2>3. Fine(k - 1)
    <3>1. CASE k = 0
      <4>1. k - 1 = -1
        BY <3>1
      <4> QED
        BY <4>1 DEF Adds
    <3>2. CASE k # 0
      <4>1. k - 1 \in 0..n /\ ~(k <= k - 1)
        BY <2>2, <3>2
      <4> QED
        BY <2>1, <4>1
    <3> QED
      BY <3>1, <3>2
  <2>4. f[k] = f[k - 1] + s[k] /\ g[k] = g[k - 1] + t[k] /\ s[k] \in Nat /\ t[k] \in Nat /\ s[k] <= t[k]
    BY <2>2 DEF Adds
  <2> QED
    BY <2>2, <2>3, <2>4
<1> QED
  BY <1>1, <1>2
=============================================================================
