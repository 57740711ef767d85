---------------------------- MODULE Routing_proofs ----------------------------
(***************************************************************************)
(* What the routing seam computes on one snapshot, for any providers, any  *)
(* document a parse can return and any observations: the order of          *)
(* concession and where it stops, that a choice among survivors exists and *)
(* beats every other, and how far one has to concede.  The proofs about    *)
(* the ranked list (Policy_proofs) rest on these lemmas.                   *)
(***************************************************************************)
EXTENDS Routing, FiniteSetTheorems, NumberLemmas, TLAPS

(* What a parse returns of a workload's dimensions.                        *)
Ordered(w) ==
  /\ w.declared \in Seq(DimensionNames) /\ w.priority \in Seq(DimensionNames)
  /\ ToSet(w.priority) = Stated(w)
  /\ w.objective \in DimensionNames \cup {None}

(* Observations and rates are natural numbers, or absent.                  *)
Quantified(S) ==
  \A p \in Providers, d \in DimensionNames :
    EffectiveObserved(d, p, S) \in Nat \cup {Unmeasured}

LEMMA DimensionsNamed == None \notin DimensionNames /\ Cost \in DimensionNames
BY DEF None, DimensionNames, Cost

LEMMA NoTargetIsOrdered == Ordered(NoTarget) /\ NoTarget.hard = None
<1>1. << >> \in Seq(DimensionNames) /\ ToSet(<< >>) = {}
  BY DEF ToSet
<1> QED
  BY <1>1 DEF NoTarget, Ordered, Stated

-----------------------------------------------------------------------------
(* The order of concession.                                                *)
LEMMA UpTo ==
  ASSUME NEW n \in Nat
  PROVE  IsFiniteSet(1..n) /\ Cardinality(1..n) = n
<1> DEFINE c == Cardinality(1..n)
<1>1. IsFiniteSet(1..n) /\ c = IF 1 > n THEN 0 ELSE n - 1 + 1
  BY FS_Interval
<1> HIDE DEF c
<1>2. c = n
  BY <1>1
<1> QED
  BY <1>1, <1>2 DEF c

LEMMA SieveAll ==
  ASSUME NEW D, NEW s \in Seq(D), NEW T, ToSet(s) \subseteq T
  PROVE  Sieve(s, T) = s
<1> DEFINE at == {i \in DOMAIN s : s[i] \in T}
           n == Len(s)
           nth(k) == CHOOSE i \in at : Cardinality({j \in at : j <= i}) = k
<1>1. n \in Nat /\ DOMAIN s = 1..n /\ s \in [1..n -> D]
  OBVIOUS
<1>2. at = 1..n
  BY <1>1 DEF ToSet
<1>3. Cardinality(at) = n
  <2>1. Cardinality(1..n) = n
    BY <1>1, UpTo
  <2> QED
    BY <1>2, <2>1, Zenon
<1>4. ASSUME NEW i \in 1..n
      PROVE  Cardinality({j \in at : j <= i}) = i
  <2>1. {j \in at : j <= i} = 1..i /\ i \in Nat
    BY <1>1, <1>2
  <2>2. Cardinality(1..i) = i
    BY <2>1, UpTo
  <2> QED
    BY <2>1, <2>2, Zenon
<1>5. ASSUME NEW k \in 1..n
      PROVE  nth(k) = k
  <2> HIDE DEF at
  <2>1. k \in at /\ Cardinality({j \in at : j <= k}) = k
    BY <1>2, <1>4
  <2>2. nth(k) \in at /\ Cardinality({j \in at : j <= nth(k)}) = k
    BY <2>1
  <2> QED
    BY <1>2, <1>4, <2>2
<1>6. Sieve(s, T) = [k \in 1..n |-> s[nth(k)]]
  BY <1>3 DEF Sieve
<1> HIDE DEF nth
<1>7. [k \in 1..n |-> s[nth(k)]] = [k \in 1..n |-> s[k]]
  BY <1>5
<1> QED
  BY <1>1, <1>6, <1>7

LEMMA SieveNone ==
  ASSUME NEW s, NEW T, \A i \in DOMAIN s : s[i] \notin T
  PROVE  Sieve(s, T) = << >>
<1> DEFINE at == {i \in DOMAIN s : s[i] \in T}
           nth(n) == CHOOSE i \in at : Cardinality({j \in at : j <= i}) = n
           c == Cardinality(at)
<1>1. at = {}
  OBVIOUS
<1>2. c = 0
  BY <1>1, FS_EmptySet, Zenon
<1>3. Sieve(s, T) = [n \in 1..c |-> s[nth(n)]]
  BY DEF Sieve
<1> HIDE DEF nth, c
<1>4. [n \in 1..0 |-> s[nth(n)]] = << >>
  OBVIOUS
<1> QED
  BY <1>2, <1>3, <1>4

LEMMA ReverseIs ==
  ASSUME NEW D, NEW s \in Seq(D)
  PROVE  /\ Reverse(s) \in Seq(D) /\ Len(Reverse(s)) = Len(s)
         /\ \A i \in 1..Len(s) : Reverse(s)[i] = s[(Len(s) - i) + 1]
         /\ ToSet(Reverse(s)) = ToSet(s)
<1> DEFINE n == Len(s)
           r == Reverse(s)
<1>1. n \in Nat /\ s \in [1..n -> D] /\ DOMAIN s = 1..n
  OBVIOUS
<1>2. \A i \in 1..n : (n - i) + 1 \in 1..n /\ (n - ((n - i) + 1)) + 1 = i
  BY <1>1
<1>3. r = [i \in 1..n |-> s[(n - i) + 1]]
  BY DEF Reverse
<1>4. r \in [1..n -> D]
  <2> HIDE DEF n
  <2> QED
    BY <1>1, <1>2, <1>3
<1>5. r \in Seq(D) /\ Len(r) = n
  BY <1>1, <1>4
<1>6. \A i \in 1..n : r[i] = s[(n - i) + 1]
  BY <1>3
<1> HIDE DEF r, n
<1>7. ToSet(r) = ToSet(s)
  <2>1. DOMAIN r = 1..n
    BY <1>4
  <2> QED
    BY <1>1, <1>2, <1>6, <2>1 DEF ToSet
<1> QED
  BY <1>5, <1>6, <1>7 DEF r, n

(* Of a parsed workload nothing is unranked: it concedes from the end of   *)
(* its priority.                                                           *)
LEMMA ConcessionIsReverse ==
  ASSUME NEW w, Ordered(w)
  PROVE  ConcessionOrder(w) = Reverse(w.priority)
<1> DEFINE d == w.declared
           p == w.priority
           r == Reverse(p)
<1>1. d \in Seq(DimensionNames) /\ p \in Seq(DimensionNames) /\ ToSet(p) = Stated(w)
  BY DEF Ordered
<1>2. Sieve(p, Stated(w)) = p
  BY <1>1, SieveAll
<1>3. Sieve(d, Stated(w) \ ToSet(p)) = << >>
  <2>1. Stated(w) \ ToSet(p) = {}
    BY <1>1
  <2> QED
    BY <2>1, SieveNone
<1>4. r \in Seq(DimensionNames)
  BY <1>1, ReverseIs
<1>5. << >> \o r = r
  <2> HIDE DEF r
  <2> QED
    BY <1>4
<1> QED
  BY <1>2, <1>3, <1>5 DEF ConcessionOrder

(* Conceding stops right before the hard dimension.                        *)
LEMMA YieldableIs ==
  ASSUME NEW w, Ordered(w)
  PROVE  LET order == Reverse(w.priority)
             most == Len(Yieldable(w))
         IN  /\ most \in 0..Len(order)
             /\ \A i \in 1..most : Yieldable(w)[i] = order[i] /\ order[i] # w.hard
             /\ most < Len(order) => order[most + 1] = w.hard
<1> DEFINE order == Reverse(w.priority)
           n == Len(order)
           halts == {i \in DOMAIN order : order[i] = w.hard}
           h == CHOOSE i \in halts : \A j \in halts : i <= j
<1>1. order \in Seq(DimensionNames)
  BY ReverseIs DEF Ordered
<1>2. ConcessionOrder(w) = order
  BY ConcessionIsReverse
<1> HIDE DEF order
<1>3. n \in Nat /\ DOMAIN order = 1..n
  BY <1>1
<1>4. CASE halts = {}
  <2>1. Yieldable(w) = order
    BY <1>2, <1>4 DEF Yieldable
  <2>2. \A i \in 1..n : order[i] # w.hard
    BY <1>3, <1>4
  <2> QED
    BY <1>3, <2>1, <2>2 DEF order
<1>5. CASE halts # {}
  <2>1. halts \subseteq Nat
    BY <1>3
  <2>2. \E i \in halts : \A j \in halts : i <= j
    <3> HIDE DEF halts
    <3> QED
      BY <1>5, <2>1, LeastNatural
  <2>3. h \in halts /\ \A j \in halts : h <= j
    BY <2>2
  <2>4. Yieldable(w) = SubSeq(order, 1, h - 1)
    BY <1>2, <1>5 DEF Yieldable
  <2> HIDE DEF h
  <2>5. h \in 1..n /\ order[h] = w.hard
    BY <1>3, <2>3
  <2>6. /\ Len(SubSeq(order, 1, h - 1)) = h - 1
        /\ \A i \in 1..(h - 1) : SubSeq(order, 1, h - 1)[i] = order[i]
    BY <1>1, <1>3, <2>5
  <2>7. \A i \in 1..(h - 1) : order[i] # w.hard
    BY <1>3, <2>3, <2>5
  <2>8. h - 1 \in 0..n /\ (h - 1) + 1 = h
    BY <1>3, <2>5
  <2> QED
    BY <2>4, <2>5, <2>6, <2>7, <2>8 DEF order
<1> QED
  BY <1>4, <1>5

-----------------------------------------------------------------------------
(* The choice.                                                             *)
LEMMA ObjectiveNamed ==
  ASSUME NEW w, Ordered(w)
  PROVE  Objective(w) \in DimensionNames
BY DimensionsNamed DEF Ordered, Objective

(* Among any survivors one beats all the others.                           *)
LEMMA MinimizerIs ==
  ASSUME NEW S, Ordered(S.workload), Quantified(S), NEW R, R \subseteq Providers, R # {}
  PROVE  /\ Minimizer(R, S) \in R
         /\ \A q \in R \ {Minimizer(R, S)} : Beats(Minimizer(R, S), q, S)
<1> DEFINE v(p) == EffectiveObserved(Objective(S.workload), p, S)
           T == IF \E p \in R : Reserved(p, S) THEN {p \in R : Reserved(p, S)} ELSE R
           V == {v(p) + 1 : p \in T}
<1>1. \A p \in R : v(p) \in Nat \cup {-1} /\ p \in Nat
  BY ObjectiveNamed, ProvidersAssumption DEF Quantified, Unmeasured
<1>2. /\ T \subseteq R /\ T # {}
      /\ \A p, q \in T : Reserved(p, S) <=> Reserved(q, S)
      /\ \A p \in T, q \in R \ T : Reserved(p, S) /\ ~Reserved(q, S)
  <2>1. CASE \E p \in R : Reserved(p, S)
    BY <2>1
  <2>2. CASE ~\E p \in R : Reserved(p, S)
    BY <2>2
  <2> QED
    BY <2>1, <2>2
<1> HIDE DEF T, v
<1>3. V \subseteq Nat /\ V # {}
  <2>1. \A p \in T : v(p) + 1 \in Nat
    BY <1>1, <1>2
  <2> QED
    BY <1>2, <2>1
<1>4. PICK p0 \in T : \A q \in T : v(p0) + 1 <= v(q) + 1
  <2>1. PICK x \in V : \A y \in V : x <= y
    <3> HIDE DEF V
    <3> QED
      BY <1>3, LeastNatural
  <2>2. PICK p0 \in T : x = v(p0) + 1
    BY <2>1
  <2> QED
    BY <2>1, <2>2
<1> DEFINE U == {p \in T : v(p) = v(p0)}
<1>5. U \subseteq Nat /\ U # {}
  BY <1>1, <1>2
<1>6. PICK m \in U : \A q \in U : m <= q
  <2> HIDE DEF U
  <2> QED
    BY <1>5, LeastNatural
<1>7. ASSUME NEW q \in R \ {m}
      PROVE  Beats(m, q, S)
  <2>1. v(m) = v(p0) /\ m \in T /\ m \in R /\ m \in Nat /\ q \in Nat
    BY <1>1, <1>2, <1>6
  <2>2. CASE q \notin T
    <3>1. Reserved(m, S) /\ ~Reserved(q, S)
      BY <1>2, <2>1, <2>2
    <3> QED
      BY <3>1 DEF Beats
  <2>3. CASE q \in T
    <3>1. Reserved(m, S) <=> Reserved(q, S)
      BY <1>2, <2>1, <2>3
    <3>2. v(m) + 1 <= v(q) + 1 /\ v(m) \in Nat \cup {-1} /\ v(q) \in Nat \cup {-1}
      BY <1>1, <1>2, <1>4, <2>1, <2>3
    <3>3. v(m) = v(q) => m < q
      BY <1>6, <1>7, <2>1, <2>3
    <3>4. v(m) # v(q) => v(m) = Unmeasured \/ (v(q) # Unmeasured /\ v(m) < v(q))
      BY <3>2 DEF Unmeasured
    <3>5. (Reserved(m, S) # Reserved(q, S)) = FALSE
      BY <3>1 DEF Reserved
    <3> QED
      BY <3>3, <3>4, <3>5 DEF Beats, v
  <2> QED
    BY <2>2, <2>3
<1>8. m \in R
  BY <1>2, <1>6
<1> QED
  BY <1>7, <1>8 DEF Minimizer

(* No more is conceded than somebody's survival takes.                     *)
LEMMA ConcededIs ==
  ASSUME NEW S, Ordered(S.workload), NEW offered
  PROVE  LET k == Conceded(offered, S)
         IN  /\ k \in Rounds(S)
             /\ \A j \in Rounds(S) : Survivors(offered, S, j) # {} =>
                  Survivors(offered, S, k) # {} /\ k <= j
<1> DEFINE enough == {k \in Rounds(S) : Survivors(offered, S, k) # {}}
           k == Conceded(offered, S)
           n == Len(Yieldable(S.workload))
<1>1. n \in Nat
  BY YieldableIs
<1>2. Rounds(S) = 0..n
  BY DEF Rounds
<1>3. CASE enough = {}
  <2>1. k = n
    BY <1>3 DEF Conceded
  <2>2. \A j \in Rounds(S) : Survivors(offered, S, j) = {}
    BY <1>3
  <2> HIDE DEF k, n
  <2> QED
    BY <1>1, <1>2, <2>1, <2>2 DEF k
<1>4. CASE enough # {}
  <2>1. enough \subseteq Nat
    BY <1>1, <1>2
  <2>2. \E i \in enough : \A j \in enough : i <= j
    <3> HIDE DEF enough
    <3> QED
      BY <1>4, <2>1, LeastNatural
  <2>3. k = CHOOSE i \in enough : \A j \in enough : i <= j
    BY <1>4 DEF Conceded
  <2> HIDE DEF k
  <2>4. k \in enough /\ \A j \in enough : k <= j
    BY <2>2, <2>3
  <2> QED
    BY <2>4 DEF k
<1> QED
  BY <1>3, <1>4

-----------------------------------------------------------------------------
(* What binds.                                                             *)
Eliminated(d, offered, S) == {p \in Candidates(offered, S) : Breaches(d, p, S)}

(* Nothing is named only when no active dimension eliminated anybody.      *)
LEMMA BoundByIs ==
  ASSUME NEW S, Ordered(S.workload), NEW offered, IsFiniteSet(offered), NEW k
  PROVE  /\ BoundBy(offered, S, k) \in DimensionNames \cup {None}
         /\ BoundBy(offered, S, k) = None =>
              \A d \in Active(S.workload, k) : Eliminated(d, offered, S) = {}
<1> DEFINE w == S.workload
           all == Candidates(offered, S)
           eliminated(d) == Cardinality(Eliminated(d, offered, S))
           position(d) == CHOOSE i \in DOMAIN w.priority : w.priority[i] = d
           culled == {d \in Active(w, k) : eliminated(d) > 0}
           best(d) == \A e \in culled \ {d} :
                        \/ eliminated(d) > eliminated(e)
                        \/ eliminated(d) = eliminated(e) /\ position(d) < position(e)
           rest == Survivors(offered, S, k)
           separates == w.objective # None
                          /\ \E p, q \in rest : EffectiveObserved(Objective(w), p, S)
                                                  # EffectiveObserved(Objective(w), q, S)
<1>1. BoundBy(offered, S, k)
        = IF separates THEN w.objective ELSE IF culled = {} THEN None ELSE CHOOSE d \in culled : best(d)
  BY DEF BoundBy, Eliminated
<1>2. IsFiniteSet(all)
  BY FS_Subset DEF Candidates
<1>3. \A d : /\ IsFiniteSet(Eliminated(d, offered, S)) /\ eliminated(d) \in Nat
             /\ eliminated(d) <= Cardinality(all)
  BY <1>2, FS_Subset, FS_CardinalityType DEF Eliminated
<1>4. Active(w, k) \subseteq DimensionNames /\ Active(w, k) \subseteq ToSet(w.priority)
  <2>1. Active(w, k) \subseteq Stated(w)
    BY DEF Active
  <2>2. Stated(w) \subseteq DimensionNames
    BY DEF Ordered, Stated, ToSet
  <2> QED
    BY <2>1, <2>2 DEF Ordered
<1>5. \A d \in Active(w, k) : eliminated(d) > 0 <=> Eliminated(d, offered, S) # {}
  BY <1>3, FS_EmptySet
<1>6. CASE separates
  BY <1>1, <1>6 DEF Ordered
<1>7. CASE ~separates /\ culled = {}
  BY <1>1, <1>5, <1>7
<1>8. CASE ~separates /\ culled # {}
  <2>1. \E d \in culled : best(d)
    <3> DEFINE C == {eliminated(d) : d \in culled}
    <3> HIDE DEF eliminated
    <3>1. C \subseteq Nat /\ C # {} /\ Cardinality(all) \in Nat /\ \A x \in C : x <= Cardinality(all)
      BY <1>2, <1>3, <1>8, FS_CardinalityType
    <3>2. PICK x \in C : \A y \in C : y <= x
      <4> HIDE DEF C
      <4> QED
        BY <3>1, GreatestNatural
    <3> DEFINE most == {d \in culled : eliminated(d) = x}
               P == {position(d) : d \in most}
    <3>3. \A d \in culled : position(d) \in DOMAIN w.priority /\ w.priority[position(d)] = d
      BY <1>4 DEF ToSet
    <3>4. DOMAIN w.priority \subseteq Nat
      BY DEF Ordered
    <3> HIDE DEF position
    <3>5. P \subseteq Nat /\ P # {}
      BY <3>2, <3>3, <3>4
    <3>6. PICK y \in P : \A z \in P : y <= z
      <4> HIDE DEF P
      <4> QED
        BY <3>5, LeastNatural
    <3>7. PICK d \in most : y = position(d)
      BY <3>6
    <3>8. ASSUME NEW e \in culled \ {d}
          PROVE  \/ eliminated(d) > eliminated(e)
                 \/ eliminated(d) = eliminated(e) /\ position(d) < position(e)
      <4>1. eliminated(d) = x /\ eliminated(e) \in C /\ eliminated(e) <= x /\ x \in Nat /\ eliminated(e) \in Nat
        BY <3>1, <3>2, <3>7, <3>8
      <4>2. CASE eliminated(e) = x
        <5>1. position(d) <= position(e)
          BY <3>6, <3>7, <3>8, <4>2
        <5>2. position(d) # position(e) /\ position(d) \in Nat /\ position(e) \in Nat
          BY <3>3, <3>4, <3>7, <3>8
        <5> QED
          BY <4>1, <4>2, <5>1, <5>2
      <4>3. CASE eliminated(e) # x
        BY <4>1, <4>3
      <4> QED
        BY <4>2, <4>3
    <3> QED
      BY <3>7, <3>8
  <2>2. BoundBy(offered, S, k) \in culled
    BY <1>1, <1>8, <2>1
  <2> QED
    BY <1>4, <2>2, DimensionsNamed
<1> QED
  BY <1>6, <1>7, <1>8
=============================================================================
