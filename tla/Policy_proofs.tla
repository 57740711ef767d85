---------------------------- MODULE Policy_proofs -----------------------------
(***************************************************************************)
(* Proofs about the life of one workload's target, for any providers, any  *)
(* catalogue of floors, any document a customer may write and any          *)
(* observations: what a refused write was refused for, what the ranked     *)
(* list never concedes, the order it is in, and when the target made no    *)
(* difference.                                                             *)
(***************************************************************************)
EXTENDS Policy, Routing_proofs

Reservations == {ReservationFor(p, l).id : p \in Providers, l \in Lives \cup {<< >>}}

Entries == [provider : Providers, reservation : Reservations]

Parsed(x) == ParseWorkload(Serialize(ParseWorkload(x)))

-----------------------------------------------------------------------------
(* The document in force.                                                  *)

(* Two enumerations of one set with as many places: if one is without      *)
(* repetition, so is the other.                                            *)
LEMMA SameSetInjective ==
  ASSUME NEW D, NEW s \in Seq(D), NEW t \in Seq(D), ToSet(s) = ToSet(t), Len(s) = Len(t), IsInjective(s)
  PROVE  IsInjective(t)
<1> DEFINE n == Len(s)
           T == ToSet(s)
<1>1. /\ n \in Nat /\ DOMAIN s = 1..n /\ DOMAIN t = 1..n
      /\ s \in [1..n -> D] /\ t \in [1..n -> D]
  OBVIOUS
<1>2. /\ s \in [1..n -> T] /\ \A x \in T : \E i \in 1..n : s[i] = x
      /\ t \in [1..n -> T] /\ \A x \in T : \E i \in 1..n : t[i] = x
  <2>1. T = {s[i] : i \in 1..n} /\ T = {t[i] : i \in 1..n}
    BY <1>1 DEF ToSet
  <2> HIDE DEF T, n
  <2> QED
    BY <1>1, <2>1
<1>3. s \in Bijection(1..n, T) /\ t \in Surjection(1..n, T)
  BY <1>1, <1>2 DEF IsInjective, Injection, Surjection, Bijection
<1>4. IsFiniteSet(1..n) /\ Cardinality(1..n) = n
  BY <1>1, UpTo
<1>5. Cardinality(T) = Cardinality(1..n)
  BY <1>3, <1>4, FS_Bijection DEF ExistsBijection
<1>6. t \in Injection(1..n, T)
  BY <1>3, <1>4, <1>5, FS_SurjSameCardinalityImpliesInj
<1> QED
  BY <1>1, <1>6 DEF Injection, IsInjective

LEMMA ReverseInjective ==
  ASSUME NEW D, NEW s \in Seq(D), IsInjective(s)
  PROVE  IsInjective(Reverse(s))
<1> DEFINE n == Len(s)
           r == Reverse(s)
<1>1. n \in Nat /\ DOMAIN s = 1..n /\ r \in Seq(D) /\ Len(r) = n
      /\ \A i \in 1..n : r[i] = s[(n - i) + 1]
  BY ReverseIs
<1>2. \A i \in 1..n : (n - i) + 1 \in 1..n
  BY <1>1
<1> HIDE DEF r, n
<1>3. \A i, j \in 1..n : r[i] = r[j] => (n - i) + 1 = (n - j) + 1
  BY <1>1, <1>2 DEF IsInjective
<1>4. \A i, j \in 1..n : (n - i) + 1 = (n - j) + 1 => i = j
  BY <1>1
<1> QED
  BY <1>1, <1>3, <1>4 DEF IsInjective, r

LEMMA ReverseTwice ==
  ASSUME NEW D, NEW s \in Seq(D)
  PROVE  Reverse(Reverse(s)) = s
<1> DEFINE n == Len(s)
           r == Reverse(s)
           q == Reverse(r)
<1>1. /\ n \in Nat /\ r \in Seq(D) /\ Len(r) = n
      /\ \A i \in 1..n : r[i] = s[(n - i) + 1]
  BY ReverseIs
<1>2. /\ q \in Seq(D) /\ Len(q) = n
      /\ \A i \in 1..n : q[i] = r[(n - i) + 1]
  <2> HIDE DEF r
  <2> QED
    BY <1>1, ReverseIs
<1>3. \A i \in 1..n : (n - i) + 1 \in 1..n /\ (n - ((n - i) + 1)) + 1 = i
  BY <1>1
<1> HIDE DEF r, q
<1>4. \A i \in 1..n : q[i] = s[i]
  BY <1>1, <1>2, <1>3
<1>5. q = s
  BY <1>2, <1>4
<1> QED
  BY <1>5 DEF q, r

(* The order a written workload gives way in.                              *)
WrittenOrder(x) == IF x.ranked THEN Reverse(x.priority) ELSE x.order

(* Whatever was written, what is in force is what the customer wrote: it   *)
(* concedes in the order written, each dimension once.                     *)
LEMMA ParsedIs ==
  ASSUME NEW x \in Wires, Parses(x)
  PROVE  LET w == Parsed(x)
         IN  /\ Ordered(w) /\ Stated(w) = ToSet(x.order)
             /\ w.allowed = x.allowed /\ w.target = x.target /\ w.hard = x.hard
             /\ w.declared = x.order /\ w.objective = x.objective
             /\ w.hard \in Stated(w) \cup {None}
             /\ Reverse(w.priority) = WrittenOrder(x)
             /\ WrittenOrder(x) \in Seq(DimensionNames) /\ IsInjective(WrittenOrder(x))
             /\ ToSet(WrittenOrder(x)) = Stated(w)
<1> DEFINE w == Parsed(x)
           p == ParsePriority(x)
<1>1. /\ x.order \in Seq(DimensionNames) /\ IsInjective(x.order)
      /\ x.priority \in Seq(ToSet(x.priority)) /\ x.objective \in DimensionNames \cup {None}
  BY WiresAssumption DEF Writable
<1>2. /\ w.allowed = x.allowed /\ w.target = x.target /\ w.hard = x.hard
      /\ w.declared = x.order /\ w.objective = x.objective /\ w.priority = p
  BY DEF Parsed, ParseWorkload, Serialize, ParsePriority
<1>3. CASE x.ranked
  <2>1. p = x.priority /\ ToSet(p) = ToSet(x.order) /\ Len(p) = Len(x.order)
    BY <1>3 DEF ParsePriority, Parses, ValidPriority
  <2>2. ToSet(x.order) \subseteq DimensionNames
    BY <1>1 DEF ToSet
  <2>3. p \in Seq(DimensionNames)
    BY <1>1, <2>1, <2>2
  <2> HIDE DEF p
  <2>4. IsInjective(p)
    BY <1>1, <2>1, <2>3, SameSetInjective
  <2>5. WrittenOrder(x) = Reverse(p)
    BY <1>3, <2>1 DEF WrittenOrder
  <2>6. /\ WrittenOrder(x) \in Seq(DimensionNames) /\ IsInjective(WrittenOrder(x))
        /\ ToSet(WrittenOrder(x)) = ToSet(p)
    BY <2>3, <2>4, <2>5, ReverseIs, ReverseInjective
  <2> QED
    BY <1>1, <1>2, <2>1, <2>3, <2>5, <2>6 DEF Ordered, Stated, Parses
<1>4. CASE ~x.ranked
  <2>1. p = Reverse(x.order) /\ WrittenOrder(x) = x.order
    BY <1>4 DEF ParsePriority, WrittenOrder
  <2>2. p \in Seq(DimensionNames) /\ ToSet(p) = ToSet(x.order) /\ Reverse(p) = x.order
    BY <1>1, <2>1, ReverseIs, ReverseTwice
  <2> HIDE DEF p
  <2> QED
    BY <1>1, <1>2, <2>1, <2>2 DEF Ordered, Stated, Parses
<1> QED
  BY <1>3, <1>4

(* What is in force was accepted, and nothing else is in force.            *)
DocumentInForce ==
  /\ answer \in Answers
  /\ wire \in Wires \cup {Unwritten} /\ putAt \in Instants \cup {0}
  /\ answer = "none" => document = NoTarget
  /\ answer \notin {"none", "invalid"} => wire \in Wires /\ Parses(wire) /\ putAt \in Instants
  /\ answer \notin {"feasible", "abstained"} => document = NoTarget
  /\ answer \in {"feasible", "abstained"} => document = Parsed(wire)
  /\ answer = "infeasible" => Infeasible(ParseWorkload(wire), putAt) # {}

SnapshotTaken == seen \in Sightings \cup {<< >>} /\ live \in Lives \cup {<< >>}

(* The values a snapshot is judged by are numbers.                         *)
LEMMA SnapshotIs ==
  ASSUME DocumentInForce, SnapshotTaken
  PROVE  /\ Snapshot.workload = document /\ Snapshot.seen = seen /\ Snapshot.live = live
         /\ Ordered(document) /\ Quantified(Snapshot)
<1>1. Snapshot.workload = document /\ Snapshot.seen = seen /\ Snapshot.live = live
  BY DEF Snapshot
<1>2. Ordered(document)
  BY ParsedIs, NoTargetIsOrdered DEF DocumentInForce
<1>3. ASSUME NEW p \in Providers, NEW d \in DimensionNames
      PROVE  ObservedFor(d, p, Snapshot) \in Nat \cup {Unmeasured}
  <2>1. p \in DOMAIN seen => seen[p] \in Observations
    BY SnapshotAssumption DEF SnapshotTaken
  <2> QED
    BY <1>1, <2>1 DEF ObservedFor, Observations
<1>4. ASSUME NEW p \in Providers, Reserved(p, Snapshot)
      PROVE  ReservationFor(p, Snapshot.live).rate \in Nat
  <2> DEFINE matches == {i \in DOMAIN live : Addresses(p, live[i])}
  <2>1. matches # {}
    BY <1>1, <1>4 DEF Reserved, ReservationFor
  <2>2. live \in Lives
    BY <2>1 DEF SnapshotTaken
  <2>3. matches \subseteq Nat
    BY <2>2, SnapshotAssumption
  <2>4. PICK k \in matches : \A j \in matches : k <= j
    <3> HIDE DEF matches
    <3> QED
      BY <2>1, <2>3, LeastNatural
  <2>5. (CHOOSE i \in matches : \A j \in matches : i <= j) \in matches
    BY <2>4
  <2>6. \E i \in DOMAIN live : ReservationFor(p, live) = live[i]
    BY <2>1, <2>5 DEF ReservationFor
  <2> QED
    BY <1>1, <2>2, <2>6, SnapshotAssumption
<1>5. Quantified(Snapshot)
  BY <1>3, <1>4 DEF Quantified, EffectiveObserved
<1> QED
  BY <1>1, <1>2, <1>5

-----------------------------------------------------------------------------
(* The list.                                                               *)
ListMade ==
  /\ list \in Seq(Entries)
  /\ offered \subseteq Providers
  /\ \A i \in DOMAIN list : list[i].provider \notin offered
  /\ \A p \in Providers \ offered : \E i \in DOMAIN list : list[i].provider = p
  /\ boundBy \in DimensionNames \cup {None}
  /\ phase \in {"idle", "ranking", "ranked"}
  /\ phase = "idle" => list = << >>

Kinds == DocumentInForce /\ SnapshotTaken /\ ListMade

(* Where a round of the ranking concedes to.                               *)
Depth0 == Conceded(offered, Snapshot)

Rest == Survivors(offered, Snapshot, Depth0)

Winner == Minimizer(Rest, Snapshot)

(* A round: nobody survives and the list ends, or the best survivor is     *)
(* placed.                                                                 *)
LEMMA PlaceIs ==
  ASSUME Kinds, Place
  PROVE  /\ phase = "ranking" /\ offered # {}
         /\ UNCHANGED <<wire, answer, putAt, document, seen, live>>
         /\ list = << >> => boundBy' = BoundBy(offered, Snapshot, Depth0)
         /\ list # << >> => boundBy' = boundBy
         /\ \/ Rest = {} /\ phase' = "ranked" /\ UNCHANGED <<offered, list>>
            \/ /\ Rest # {} /\ phase' = phase
               /\ offered' = offered \ {Winner} /\ list' = Append(list, ToRankedProvider(Winner))
BY DEF Place, ChooseProvider, Depth0, Rest, Winner

LEMMA WinnerIs ==
  ASSUME Kinds, Rest # {}
  PROVE  /\ Winner \in Rest /\ Winner \in offered /\ Winner \in Providers
         /\ \A q \in Rest \ {Winner} : Beats(Winner, q, Snapshot)
         /\ ToRankedProvider(Winner) \in Entries /\ ToRankedProvider(Winner).provider = Winner
<1>1. Rest \subseteq offered /\ offered \subseteq Providers
  BY DEF Kinds, ListMade, Rest, Survivors, Candidates
<1>2. Ordered(Snapshot.workload) /\ Quantified(Snapshot)
  BY SnapshotIs DEF Kinds
<1>3. Winner \in Rest /\ \A q \in Rest \ {Winner} : Beats(Winner, q, Snapshot)
  <2> HIDE DEF Rest
  <2> QED
    BY <1>1, <1>2, MinimizerIs DEF Winner
<1>4. ToRankedProvider(Winner) \in Entries /\ ToRankedProvider(Winner).provider = Winner
  <2> HIDE DEF Winner
  <2>1. Winner \in Providers /\ live \in Lives \cup {<< >>}
    BY <1>1, <1>3 DEF Kinds, SnapshotTaken
  <2> QED
    BY <2>1 DEF ToRankedProvider, Entries, Reservations
<1> QED
  BY <1>1, <1>3, <1>4

(* The list after a provider was placed.                                   *)
LEMMA PlacedAt ==
  ASSUME NEW l \in Seq(Entries), NEW e \in Entries
  PROVE  /\ Append(l, e) \in Seq(Entries) /\ DOMAIN Append(l, e) = 1..(Len(l) + 1)
         /\ DOMAIN l = 1..Len(l) /\ Len(l) \in Nat
         /\ \A i \in 1..Len(l) : Append(l, e)[i] = l[i]
         /\ Append(l, e)[Len(l) + 1] = e
         /\ \A i \in 1..(Len(l) + 1) : i \in 1..Len(l) \/ i = Len(l) + 1
<1>1. Len(l) \in Nat
  OBVIOUS
<1>2. \A i \in 1..(Len(l) + 1) : i \in 1..Len(l) \/ i = Len(l) + 1
  BY <1>1
<1> QED
  BY <1>1, <1>2

LEMMA InitKinds == Init => Kinds
<1> SUFFICES ASSUME Init PROVE Kinds
  OBVIOUS
<1>1. << >> \in Seq(Entries) /\ DOMAIN << >> = {}
  OBVIOUS
<1> QED
  BY <1>1 DEF Init, Kinds, DocumentInForce, SnapshotTaken, ListMade, Answers

LEMMA PutKinds ==
  ASSUME Kinds, NEW x \in Wires, NEW at \in Instants, Put(x, at)
  PROVE  Kinds'
<1>1. UNCHANGED <<seen, live, offered, list, boundBy, phase>>
  BY DEF Put
<1>2. SnapshotTaken' /\ ListMade'
  BY <1>1 DEF Kinds, SnapshotTaken, ListMade
<1>3. wire' = x /\ putAt' = at /\ answer = "none" /\ document = NoTarget
  BY DEF Put, Kinds, DocumentInForce
<1> DEFINE verdict == CheckFeasibility(ParseWorkload(x), at)
<1>4. /\ verdict \in {"infeasible", "abstained", "feasible"}
      /\ verdict = "infeasible" => Infeasible(ParseWorkload(x), at) # {}
  BY DEF CheckFeasibility
<1>5. /\ answer' = IF Parses(x) THEN verdict ELSE "invalid"
      /\ document' = IF answer' \in {"feasible", "abstained"} THEN Parsed(x) ELSE document
  BY DEF Put, Parsed
<1> HIDE DEF verdict
<1>6. CASE Parses(x)
  <2>1. answer' = verdict
    BY <1>5, <1>6
  <2> QED
    BY <1>2, <1>3, <1>4, <1>5, <1>6, <2>1 DEF Kinds, DocumentInForce, Answers
<1>7. CASE ~Parses(x)
  BY <1>2, <1>3, <1>5, <1>7 DEF Kinds, DocumentInForce, Answers
<1> QED
  BY <1>6, <1>7

LEMMA RecomputeKinds ==
  ASSUME Kinds, Recompute \/ HandOver
  PROVE  Kinds'
<1>1. /\ UNCHANGED <<wire, answer, putAt, document>>
      /\ seen' \in Sightings \cup {<< >>} /\ live' \in Lives \cup {<< >>}
      /\ offered' = Providers /\ list' = << >> /\ boundBy' = None /\ phase' \in {"idle", "ranking"}
  BY DEF Recompute, HandOver
<1>2. << >> \in Seq(Entries) /\ DOMAIN << >> = {}
  OBVIOUS
<1>3. DocumentInForce' /\ SnapshotTaken'
  BY <1>1 DEF Kinds, DocumentInForce, SnapshotTaken
<1>4. ListMade'
  BY <1>1, <1>2 DEF ListMade
<1> QED
  BY <1>3, <1>4 DEF Kinds

LEMMA PlaceKinds ==
  ASSUME Kinds, Place
  PROVE  Kinds'
<1>1. DocumentInForce' /\ SnapshotTaken'
  BY PlaceIs DEF Kinds, DocumentInForce, SnapshotTaken
<1>2. boundBy' \in DimensionNames \cup {None}
  <2>1. IsFiniteSet(offered)
    BY SnapshotAssumption, FS_Subset DEF Kinds, ListMade
  <2>2. BoundBy(offered, Snapshot, Depth0) \in DimensionNames \cup {None}
    BY <2>1, SnapshotIs, BoundByIs DEF Kinds
  <2> QED
    BY <2>2, PlaceIs DEF Kinds, ListMade
<1>3. CASE phase' = "ranked" /\ UNCHANGED <<offered, list>>
  BY <1>1, <1>2, <1>3 DEF Kinds, ListMade
<1>4. CASE /\ Rest # {} /\ phase' = phase
           /\ offered' = offered \ {Winner} /\ list' = Append(list, ToRankedProvider(Winner))
  <2> DEFINE e == ToRankedProvider(Winner)
             n == Len(list)
  <2>1. e \in Entries /\ e.provider = Winner /\ Winner \in offered
    BY <1>4, WinnerIs
  <2>2. phase = "ranking"
    BY PlaceIs
  <2> HIDE DEF e
  <2>3. list \in Seq(Entries)
    BY DEF Kinds, ListMade
  <2>4. /\ list' \in Seq(Entries) /\ DOMAIN list' = 1..(n + 1) /\ DOMAIN list = 1..n
        /\ \A i \in 1..n : list'[i] = list[i]
        /\ list'[n + 1] = e /\ n + 1 \in 1..(n + 1)
        /\ \A i \in 1..(n + 1) : i \in 1..n \/ i = n + 1
        /\ 1..n \subseteq 1..(n + 1)
    BY <1>4, <2>1, <2>3, PlacedAt DEF e
  <2> HIDE DEF n
  <2>5. \A i \in DOMAIN list' : list'[i].provider \notin offered'
    BY <1>4, <2>1, <2>4 DEF Kinds, ListMade
  <2>6. \A p \in Providers \ offered' : \E i \in DOMAIN list' : list'[i].provider = p
    BY <1>4, <2>1, <2>4 DEF Kinds, ListMade
  <2>7. offered' \subseteq Providers
    BY <1>4 DEF Kinds, ListMade
  <2>8. ListMade'
    BY <1>2, <1>4, <2>2, <2>4, <2>5, <2>6, <2>7 DEF ListMade
  <2> QED
    BY <1>1, <2>8 DEF Kinds
<1> QED
  BY <1>3, <1>4, PlaceIs

LEMMA StepKinds == Kinds /\ [Next]_vars => Kinds'
<1> SUFFICES ASSUME Kinds, [Next]_vars PROVE Kinds'
  OBVIOUS
<1>1. CASE Ranked
  <2>1. UNCHANGED <<wire, answer, putAt, document, seen, live, offered, list, boundBy>> /\ phase' = "ranked"
    BY <1>1 DEF Ranked
  <2> QED
    BY <2>1 DEF Kinds, DocumentInForce, SnapshotTaken, ListMade
<1>2. CASE UNCHANGED vars
  BY <1>2 DEF vars, Kinds, DocumentInForce, SnapshotTaken, ListMade
<1> QED
  BY <1>1, <1>2, PutKinds, RecomputeKinds, PlaceKinds DEF Next

LEMMA KindsHold == Spec => []Kinds
  BY InitKinds, StepKinds, PTL DEF Spec

(* Every variable holds its kind of value: what is in force was accepted,  *)
(* and a provider on the list is no longer on offer, whatever is declared  *)
(* and observed (service.ts put, rankedList.ts computeRankedList).         *)
THEOREM TypeCorrect == Spec => []TypeOK
<1>1. ASSUME Kinds PROVE TypeOK
  <2>1. \A i \in DOMAIN list : list[i] \in Entries
    BY <1>1 DEF Kinds, ListMade
  <2>2. \A i \in DOMAIN list : list[i].provider \in Providers \ offered
    BY <1>1, <2>1 DEF Kinds, ListMade, Entries
  <2> QED
    BY <1>1, <2>2 DEF Kinds, DocumentInForce, SnapshotTaken, ListMade, TypeOK
<1> QED
  BY <1>1, KindsHold, PTL

-----------------------------------------------------------------------------
(* The hard dimension.                                                     *)

(* Within the rounds conceding may go, the hard dimension stays active.    *)
LEMMA HardStaysActive ==
  ASSUME NEW w, Ordered(w), NEW k \in 0..Len(Yieldable(w)), w.hard \in Stated(w)
  PROVE  w.hard \in Active(w, k)
<1>1. Len(Yieldable(w)) \in Nat /\ \A i \in 1..Len(Yieldable(w)) : Yieldable(w)[i] # w.hard
  BY YieldableIs
<1>2. 1..k \subseteq 1..Len(Yieldable(w))
  BY <1>1
<1> QED
  BY <1>1, <1>2 DEF Active

(* Nothing that survives a round breaches the hard dimension.              *)
LEMMA SurvivorsHoldHard ==
  ASSUME Kinds, InForce, wire.hard # None, NEW p \in Rest
  PROVE  ~Breaches(wire.hard, p, Snapshot)
<1>1. /\ Ordered(document) /\ document.hard = wire.hard /\ document.hard \in Stated(document)
      /\ Snapshot.workload = document
  BY ParsedIs, SnapshotIs DEF Kinds, DocumentInForce, InForce
<1>2. Depth0 \in Rounds(Snapshot)
  BY <1>1, ConcededIs DEF Depth0
<1>3. wire.hard \in Active(Snapshot.workload, Depth0)
  BY <1>1, <1>2, HardStaysActive DEF Rounds
<1> QED
  BY <1>3 DEF Rest, Survivors

LEMMA HardStep ==
  ASSUME Kinds, HardIsNeverConceded, [Next]_vars
  PROVE  HardIsNeverConceded'
<1>1. Kinds'
  BY StepKinds
<1>2. ASSUME list' = << >> PROVE HardIsNeverConceded'
  BY <1>2 DEF HardIsNeverConceded
<1>3. ASSUME UNCHANGED <<wire, answer, document, seen, live, list>> PROVE HardIsNeverConceded'
  BY <1>3 DEF HardIsNeverConceded, InForce, Snapshot
<1>4. CASE Place
  <2>1. UNCHANGED <<wire, answer, document, seen, live>>
    BY <1>4, PlaceIs
  <2>2. CASE UNCHANGED list
    BY <1>3, <2>1, <2>2
  <2>3. CASE Rest # {} /\ list' = Append(list, ToRankedProvider(Winner))
    <3>1. /\ ToRankedProvider(Winner) \in Entries /\ ToRankedProvider(Winner).provider = Winner
          /\ Winner \in Rest
      BY <2>3, WinnerIs
    <3>2. /\ DOMAIN list' = 1..(Len(list) + 1) /\ DOMAIN list = 1..Len(list)
          /\ \A i \in 1..Len(list) : list'[i] = list[i]
          /\ list'[Len(list) + 1] = ToRankedProvider(Winner)
          /\ \A i \in 1..(Len(list) + 1) : i \in 1..Len(list) \/ i = Len(list) + 1
      BY <2>3, <3>1, PlacedAt DEF Kinds, ListMade
    <3>3. Snapshot' = Snapshot
      BY <2>1 DEF Snapshot
    <3> SUFFICES ASSUME InForce, wire.hard # None, NEW i \in DOMAIN list'
                 PROVE  ~Breaches(wire.hard, list'[i].provider, Snapshot)
      BY <2>1, <3>3 DEF HardIsNeverConceded, InForce
    <3>4. CASE i \in 1..Len(list)
      BY <3>2, <3>4 DEF HardIsNeverConceded
    <3>5. CASE i = Len(list) + 1
      BY <3>1, <3>2, <3>5, SurvivorsHoldHard
    <3> QED
      BY <3>2, <3>4, <3>5
  <2> QED
    BY <1>4, <2>2, <2>3, PlaceIs
<1>5. ASSUME NEW x \in Wires, NEW at \in Instants, Put(x, at) PROVE HardIsNeverConceded'
  BY <1>2, <1>5 DEF Put, Kinds, ListMade
<1>6. CASE Recompute \/ HandOver
  BY <1>2, <1>6 DEF Recompute, HandOver
<1>7. CASE Ranked \/ UNCHANGED vars
  BY <1>3, <1>7 DEF Ranked, vars
<1> QED
  BY <1>4, <1>5, <1>6, <1>7 DEF Next

(* No entry of any list, at any position a call may fail over to,          *)
(* measurably breaches what the customer wrote as hard (rankedList.ts      *)
(* computeRankedList, chooseProvider.ts yieldableDimensions).              *)
THEOREM HardKept == Spec => []HardIsNeverConceded
<1>1. Init => HardIsNeverConceded
  BY DEF Init, HardIsNeverConceded
<1> QED
  BY <1>1, HardStep, KindsHold, PTL DEF Spec

-----------------------------------------------------------------------------
(* The first choice.                                                       *)

(* The head of the list and what bound it are those of the first round.    *)
FirstChoice ==
  /\ list = << >> => offered = Providers
  /\ list # << >> =>
       LET k == Conceded(Providers, Snapshot)
           first == Survivors(Providers, Snapshot, k)
       IN  /\ first # {} /\ list[1].provider = Minimizer(first, Snapshot)
           /\ boundBy = BoundBy(Providers, Snapshot, k)

LEMMA FirstStep ==
  ASSUME Kinds, FirstChoice, [Next]_vars
  PROVE  FirstChoice'
<1>1. ASSUME list' = << >>, offered' = Providers PROVE FirstChoice'
  BY <1>1 DEF FirstChoice
<1>2. ASSUME UNCHANGED <<document, seen, live, offered, list>>, list # << >> => boundBy' = boundBy
      PROVE  FirstChoice'
  <2>1. Snapshot' = Snapshot
    BY <1>2 DEF Snapshot
  <2> QED
    BY <1>2, <2>1 DEF FirstChoice
<1>3. CASE Place
  <2>1. UNCHANGED <<document, seen, live>>
    BY <1>3, PlaceIs
  <2>2. CASE UNCHANGED <<offered, list>>
    BY <1>2, <1>3, <2>1, <2>2, PlaceIs
  <2>3. CASE Rest # {} /\ list' = Append(list, ToRankedProvider(Winner))
    <3>1. Snapshot' = Snapshot
      BY <2>1 DEF Snapshot
    <3>2. /\ ToRankedProvider(Winner) \in Entries /\ ToRankedProvider(Winner).provider = Winner
      BY <2>3, WinnerIs
    <3>3. /\ list \in Seq(Entries) /\ Len(list) \in Nat
          /\ \A i \in 1..Len(list) : list'[i] = list[i]
          /\ list'[Len(list) + 1] = ToRankedProvider(Winner)
          /\ DOMAIN list' = 1..(Len(list) + 1)
      BY <2>3, <3>2, PlacedAt DEF Kinds, ListMade
    <3>4. 1 \in DOMAIN list' /\ list' # << >>
      <4>1. 1 \in 1..(Len(list) + 1)
        BY <3>3
      <4> QED
        BY <3>3, <4>1
    <3>5. CASE list = << >>
      <4>1. offered = Providers
        BY <3>5 DEF FirstChoice
      <4>2. boundBy' = BoundBy(offered, Snapshot, Depth0)
        BY <1>3, <3>5, PlaceIs
      <4>3. list'[1].provider = Winner
        BY <3>2, <3>3, <3>5
      <4> QED
        BY <2>3, <3>1, <3>4, <4>1, <4>2, <4>3 DEF FirstChoice, Winner, Rest, Depth0
    <3>6. CASE list # << >>
      <4>1. boundBy' = boundBy
        BY <1>3, <3>6, PlaceIs
      <4>2. list'[1] = list[1]
        <5>1. 1 \in 1..Len(list)
          BY <3>3, <3>6
        <5> QED
          BY <3>3, <5>1
      <4> QED
        BY <3>1, <3>4, <3>6, <4>1, <4>2 DEF FirstChoice
    <3> QED
      BY <3>5, <3>6
  <2> QED
    BY <1>3, <2>2, <2>3, PlaceIs
<1>4. ASSUME NEW x \in Wires, NEW at \in Instants, Put(x, at) PROVE FirstChoice'
  <2>1. list' = << >> /\ offered' = Providers
    BY <1>4 DEF Put, Kinds, ListMade, FirstChoice
  <2> QED
    BY <1>1, <2>1
<1>5. CASE Recompute \/ HandOver
  BY <1>1, <1>5 DEF Recompute, HandOver
<1>6. CASE Ranked \/ UNCHANGED vars
  BY <1>2, <1>6 DEF Ranked, vars
<1> QED
  BY <1>3, <1>4, <1>5, <1>6 DEF Next

(* When nothing is named as binding, the target made no difference to the  *)
(* first choice (chooseProvider.ts boundByOf, rankedList.ts).              *)
THEOREM UnboundUnconstrained == Spec => []UnboundMeansUnconstrained
<1>1. Init => FirstChoice
  BY DEF Init, FirstChoice
<1>2. ASSUME Kinds, FirstChoice PROVE UnboundMeansUnconstrained
  <2> DEFINE k == Conceded(Providers, Snapshot)
             all == Candidates(Providers, Snapshot)
  <2> SUFFICES ASSUME list # << >>, boundBy = None
               PROVE  list[1].provider = Minimizer(all, Snapshot)
    BY DEF UnboundMeansUnconstrained
  <2>1. Ordered(Snapshot.workload) /\ IsFiniteSet(Providers)
    BY <1>2, SnapshotIs, SnapshotAssumption DEF Kinds
  <2>2. BoundBy(Providers, Snapshot, k) = None
    BY <1>2 DEF FirstChoice
  <2> HIDE DEF k
  <2>3. \A d \in Active(Snapshot.workload, k) : Eliminated(d, Providers, Snapshot) = {}
    BY <2>1, <2>2, BoundByIs
  <2>4. Survivors(Providers, Snapshot, k) = all
    BY <2>3 DEF Survivors, Eliminated
  <2> QED
    BY <1>2, <2>4 DEF FirstChoice, k
<1> QED
  BY <1>1, <1>2, FirstStep, KindsHold, PTL DEF Spec

-----------------------------------------------------------------------------
(* The verdict on a window and the routing decision agree on what it takes *)
(* to hold the target (unmet.ts judgeWindow, chooseProvider.ts evaluate).  *)
THEOREM JudgeAgrees == Spec => []JudgeAgreesWithRouting
<1>1. ASSUME Kinds PROVE JudgeAgreesWithRouting
  <2> DEFINE S == Snapshot
             w == document
             judged(p) == \A d \in Stated(w) : MeasuredIn(d, p, S) => Held(d, p, S)
  <2> SUFFICES ASSUME InForce, live = << >>, DOMAIN seen = Candidates(Providers, S), seen # << >>
               PROVE  (JudgeWindow(S) = "missed") = (Survivors(Providers, S, 0) = {})
    BY DEF JudgeAgreesWithRouting
  <2>1. S.workload = w /\ S.seen = seen /\ S.live = << >> /\ Ordered(w)
    BY <1>1, SnapshotIs DEF Kinds
  <2>2. \A p : ~Reserved(p, S)
    BY <2>1 DEF Reserved, ReservationFor, NoReservation
  <2>3. Active(w, 0) = Stated(w)
    BY DEF Active
  <2>4. \A p, d : Breaches(d, p, S) <=> MeasuredIn(d, p, S) /\ ~Held(d, p, S)
    BY <2>2 DEF Breaches, MeasuredIn, Held, EffectiveObserved
  <2>5. Survivors(Providers, S, 0) = {p \in DOMAIN seen : judged(p)}
    BY <2>1, <2>3, <2>4 DEF Survivors
  <2>6. DOMAIN seen # {}
    <3>1. seen \in [DOMAIN seen -> Observations]
      BY <1>1, SnapshotAssumption DEF Kinds, SnapshotTaken
    <3> QED
      BY <3>1
  <2>7. w.declared = << >> => Stated(w) = {}
    BY DEF Stated, ToSet
  <2> HIDE DEF S
  <2>8. CASE w.declared = << >>
    BY <2>1, <2>5, <2>6, <2>7, <2>8 DEF JudgeWindow
  <2>9. CASE w.declared # << >> /\ ~\E p \in DOMAIN seen, d \in Stated(w) : MeasuredIn(d, p, S)
    BY <2>1, <2>5, <2>6, <2>9 DEF JudgeWindow
  <2>10. CASE w.declared # << >> /\ \E p \in DOMAIN seen, d \in Stated(w) : MeasuredIn(d, p, S)
    BY <2>1, <2>5, <2>10 DEF JudgeWindow
  <2> QED
    BY <2>8, <2>9, <2>10
<1> QED
  BY <1>1, KindsHold, PTL
-----------------------------------------------------------------------------
(* The refusal of a write.                                                 *)

(* A place of some floors no other is better than, the first of equals.    *)
FirstBest(s, floors, d) ==
  \A t \in floors :
    /\ ~Better(d, FloorAt(t).value, FloorAt(s).value)
    /\ Before(t, s) => Better(d, FloorAt(s).value, FloorAt(t).value)

LEMMA SomeFloorIsBest ==
  ASSUME NEW d, NEW floors, floors # {}, floors \subseteq Nat \X (DOMAIN Catalogue)
  PROVE  \E s \in floors : FirstBest(s, floors, d)
<1> DEFINE n == Len(Catalogue)
           v(s) == FloorAt(s).value
<1>1. n \in Nat /\ DOMAIN Catalogue = 1..n /\ \A i \in 1..n : Catalogue[i].value \in Nat
  BY FloorsAssumption
<1>2. PICK m \in Nat : \A i \in 1..n : Catalogue[i].value <= m
  <2> DEFINE f == [i \in 1..n |-> Catalogue[i].value]
  <2>1. f \in [1..n -> Nat]
    BY <1>1
  <2> HIDE DEF n
  <2>2. PICK m \in Nat : \A i \in 1..n : f[i] <= m
    <3> HIDE DEF f
    <3> QED
      BY <1>1, <2>1, FinitelyManyAreBounded
  <2> QED
    BY <2>2
<1> DEFINE score(s) == IF IsCeiling(d) THEN v(s) ELSE m - v(s)
<1>3. \A s \in floors : s[1] \in Nat /\ s[2] \in Nat /\ s = <<s[1], s[2]>> /\ v(s) \in Nat /\ v(s) <= m
  BY <1>1, <1>2 DEF FloorAt
<1> HIDE DEF v
<1>4. \A s \in floors : score(s) \in Nat
  BY <1>3
<1>5. \A s, t \in floors : Better(d, v(s), v(t)) <=> score(s) < score(t)
  BY <1>3 DEF Better
<1> HIDE DEF score
<1> DEFINE A == {score(s) : s \in floors}
<1>6. PICK a \in A : \A b \in A : a <= b
  <2>1. A \subseteq Nat /\ A # {}
    BY <1>4
  <2> HIDE DEF A
  <2> QED
    BY <2>1, LeastNatural
<1> DEFINE best == {s \in floors : score(s) = a}
           B == {s[1] : s \in best}
<1>7. PICK i \in B : \A j \in B : i <= j
  <2>1. B \subseteq Nat /\ B # {}
    BY <1>3, <1>6
  <2> HIDE DEF B
  <2> QED
    BY <2>1, LeastNatural
<1> DEFINE row == {s \in best : s[1] = i}
           C == {s[2] : s \in row}
<1>8. PICK c \in C : \A e \in C : c <= e
  <2>1. C \subseteq Nat /\ C # {}
    BY <1>3, <1>7
  <2> HIDE DEF C
  <2> QED
    BY <2>1, LeastNatural
<1>9. PICK s \in row : s[2] = c
  BY <1>8
<1>10. ASSUME NEW t \in floors
       PROVE  /\ ~Better(d, v(t), v(s))
              /\ Before(t, s) => Better(d, v(s), v(t))
  <2>1. s \in floors /\ score(s) = a /\ s[1] = i /\ s[2] = c
    BY <1>9
  <2>2. score(s) <= score(t) /\ score(s) \in Nat /\ score(t) \in Nat
    BY <1>4, <1>6, <2>1
  <2>3. ASSUME Before(t, s), score(t) = score(s) PROVE FALSE
    <3>1. t \in best /\ i <= t[1] /\ t[1] \in Nat /\ i \in Nat
      BY <1>3, <1>7, <2>1, <2>3
    <3>2. t[1] = i /\ t[2] < c
      BY <2>1, <2>3, <3>1 DEF Before
    <3>3. c <= t[2] /\ t[2] \in Nat /\ c \in Nat
      BY <1>3, <1>8, <2>1, <3>1, <3>2
    <3> QED
      BY <3>2, <3>3
  <2> QED
    BY <1>5, <2>1, <2>2, <2>3
<1> QED
  BY <1>9, <1>10 DEF FirstBest, v

(* The most optimistic floor is one of the floors, and none is better.     *)
LEMMA BestFloorIs ==
  ASSUME NEW d, NEW floors, floors # {}, floors \subseteq Nat \X (DOMAIN Catalogue)
  PROVE  \E s \in floors : BestFloor(floors, d) = FloorAt(s) /\ FirstBest(s, floors, d)
<1>1. BestFloor(floors, d) = FloorAt(CHOOSE s \in floors : FirstBest(s, floors, d))
  BY DEF BestFloor, FirstBest
<1> QED
  BY <1>1, SomeFloorIsBest

(* A target the best floor refuses is held by none that is trusted.        *)
LEMMA InfeasibleIsOutOfReach ==
  ASSUME NEW x \in Wires, NEW at \in Instants, NEW d \in Infeasible(ParseWorkload(x), at)
  PROVE  /\ d \in ToSet(x.order)
         /\ Trusted(ParseWorkload(x), d, at) # {}
         /\ \A s \in Trusted(ParseWorkload(x), d, at) : ~HoldsTarget(d, FloorAt(s).value, x.target[d])
<1> DEFINE w == ParseWorkload(x)
           T == Trusted(w, d, at)
<1>1. w.allowed = x.allowed /\ w.target = x.target /\ Stated(w) = ToSet(x.order)
  BY DEF ParseWorkload, Stated
<1>2. d \in Stated(w) /\ T # {} /\ Misses(d, w.target[d], BestFloor(T, d))
  BY DEF Infeasible, Abstained
<1>3. T \subseteq Nat \X (DOMAIN Catalogue)
  <2>1. DOMAIN x.allowed \subseteq Nat
    BY WiresAssumption DEF Writable
  <2> QED
    BY <1>1, <2>1 DEF Trusted, FloorsFor
<1>4. \A s \in T : FloorAt(s).value \in Nat /\ FloorAt(s).variance \in Nat
  BY <1>3, FloorsAssumption DEF FloorAt
<1>5. x.target[d] \in Int
  BY <1>1, <1>2, WiresAssumption DEF Writable
<1> HIDE DEF T, w
<1>6. PICK s \in T : BestFloor(T, d) = FloorAt(s) /\ FirstBest(s, T, d)
  BY <1>2, <1>3, BestFloorIs
<1>7. ASSUME NEW t \in T PROVE ~HoldsTarget(d, FloorAt(t).value, x.target[d])
  <2>1. ~Better(d, FloorAt(t).value, FloorAt(s).value)
    BY <1>6 DEF FirstBest
  <2> QED
    BY <1>1, <1>2, <1>4, <1>5, <1>6, <2>1 DEF Better, Misses, HoldsTarget
<1> QED
  BY <1>1, <1>2, <1>7 DEF T, w

(* A refused write names a dimension no floor that is still trusted can    *)
(* reach, so a stale floor refuses nothing (feasibility.ts                 *)
(* checkFeasibility, capabilities.ts bestFloor).                           *)
THEOREM RefusedOutOfReach == Spec => []RefusedIsOutOfReach
<1>1. ASSUME Kinds PROVE RefusedIsOutOfReach
  <2> SUFFICES ASSUME answer = "infeasible" PROVE RefusedIsOutOfReach
    BY DEF RefusedIsOutOfReach
  <2>1. wire \in Wires /\ putAt \in Instants /\ Infeasible(ParseWorkload(wire), putAt) # {}
    BY <1>1 DEF Kinds, DocumentInForce
  <2>2. PICK d \in Infeasible(ParseWorkload(wire), putAt) : TRUE
    BY <2>1
  <2> DEFINE T == Trusted(ParseWorkload(wire), d, putAt)
             named(f) == \E i \in DOMAIN wire.allowed :
                           /\ wire.allowed[i].model = f.model
                           /\ wire.allowed[i].host \in {AnyHost, f.host}
             floors == {f \in ToSet(Catalogue) : f.dimension = d /\ putAt <= f.expires /\ named(f)}
  <2>3. d \in ToSet(wire.order) /\ T # {} /\ \A s \in T : ~HoldsTarget(d, FloorAt(s).value, wire.target[d])
    BY <2>1, <2>2, InfeasibleIsOutOfReach
  <2>4. ParseWorkload(wire).allowed = wire.allowed
    BY DEF ParseWorkload
  <2>5. \A i \in DOMAIN Catalogue : IsStale(Catalogue[i], putAt) <=> ~(putAt <= Catalogue[i].expires)
    BY <2>1, FloorsAssumption DEF IsStale
  <2>6. \A s \in T : FloorAt(s) \in floors
    BY <2>4, <2>5 DEF Trusted, FloorsFor, FloorAt, ToSet
  <2>7. ASSUME NEW f \in floors PROVE \E s \in T : FloorAt(s) = f
    <3>1. PICK j \in DOMAIN Catalogue : Catalogue[j] = f
      BY DEF ToSet
    <3>2. PICK i \in DOMAIN wire.allowed :
            wire.allowed[i].model = f.model /\ wire.allowed[i].host \in {AnyHost, f.host}
      OBVIOUS
    <3>3. <<i, j>> \in (DOMAIN wire.allowed) \X (DOMAIN Catalogue) /\ <<i, j>>[1] = i /\ <<i, j>>[2] = j
      BY <3>1, <3>2
    <3>4. <<i, j>> \in T
      BY <2>4, <2>5, <3>1, <3>2, <3>3 DEF Trusted, FloorsFor, FloorAt
    <3> QED
      BY <3>1, <3>3, <3>4 DEF FloorAt
  <2>8. floors # {} /\ \A f \in floors : ~HoldsTarget(d, f.value, wire.target[d])
    BY <2>3, <2>6, <2>7
  <2> QED
    BY <2>3, <2>8 DEF RefusedIsOutOfReach
<1> QED
  BY <1>1, KindsHold, PTL
-----------------------------------------------------------------------------
(* The order of the list.                                                  *)

(* What is in force concedes in the order the customer wrote.              *)
LEMMA InForceIs ==
  ASSUME Kinds, InForce
  PROVE  /\ Ordered(document) /\ document # NoTarget /\ Snapshot.workload = document
         /\ document.allowed = wire.allowed /\ document.hard = wire.hard
         /\ YieldOrder = Reverse(document.priority)
         /\ YieldOrder \in Seq(DimensionNames) /\ IsInjective(YieldOrder)
         /\ ToSet(YieldOrder) = Stated(document)
<1>1. wire \in Wires /\ Parses(wire) /\ document = Parsed(wire)
  BY DEF Kinds, DocumentInForce, InForce
<1>2. YieldOrder = WrittenOrder(wire)
  BY DEF YieldOrder, WrittenOrder
<1>3. wire.allowed # << >> /\ NoTarget.allowed = << >>
  BY <1>1 DEF Parses, NoTarget
<1> QED
  BY <1>1, <1>2, <1>3, ParsedIs DEF Snapshot

(* The depth of a provider is the last of the dimensions it breaches.      *)
LEMMA DepthIs ==
  ASSUME Kinds, InForce, NEW p
  PROVE  /\ Depth(p) \in 0..Len(YieldOrder) /\ Len(YieldOrder) \in Nat
         /\ Broken(p) \subseteq 1..Len(YieldOrder)
         /\ \A i \in Broken(p) : i <= Depth(p)
         /\ Depth(p) # 0 => Depth(p) \in Broken(p)
<1> DEFINE n == Len(YieldOrder)
<1>1. n \in Nat /\ DOMAIN YieldOrder = 1..n
  BY InForceIs
<1>2. Broken(p) \subseteq 1..n
  BY <1>1 DEF Broken
<1>3. CASE Broken(p) = {}
  BY <1>1, <1>3 DEF Depth
<1>4. CASE Broken(p) # {}
  <2>1. Broken(p) \subseteq Nat /\ \A i \in Broken(p) : i <= n
    BY <1>1, <1>2
  <2>2. \E i \in Broken(p) : \A j \in Broken(p) : j <= i
    BY <1>1, <1>4, <2>1, GreatestNatural
  <2>3. Depth(p) \in Broken(p) /\ \A j \in Broken(p) : j <= Depth(p)
    BY <1>4, <2>2 DEF Depth
  <2> QED
    BY <1>1, <1>2, <2>3
<1> QED
  BY <1>3, <1>4

(* A round of conceding keeps the allowed providers that need no more.     *)
LEMMA SurvivorsByDepth ==
  ASSUME Kinds, InForce, NEW k \in Rounds(Snapshot), NEW P
  PROVE  Survivors(P, Snapshot, k)
           = {p \in P : ProviderMatchesAllowed(p, wire.allowed) /\ Depth(p) <= k}
<1> DEFINE w == document
           n == Len(YieldOrder)
           most == Len(Yieldable(w))
<1>1. /\ Ordered(w) /\ Snapshot.workload = w /\ w # NoTarget /\ w.allowed = wire.allowed
      /\ YieldOrder = Reverse(w.priority) /\ IsInjective(YieldOrder)
      /\ ToSet(YieldOrder) = Stated(w)
      /\ n \in Nat /\ DOMAIN YieldOrder = 1..n
  BY InForceIs
<1>2. most \in 0..n /\ \A i \in 1..most : Yieldable(w)[i] = YieldOrder[i]
  BY <1>1, YieldableIs
<1>3. k \in 0..most /\ k \in 0..n /\ \A i \in 1..k : i \in 1..most /\ i \in 1..n
  BY <1>1, <1>2 DEF Rounds
<1> HIDE DEF n, most
<1>4. {Yieldable(w)[i] : i \in 1..k} = {YieldOrder[i] : i \in 1..k}
  BY <1>2, <1>3
<1>5. Active(w, k) = {YieldOrder[i] : i \in (k + 1)..n}
  <2>1. Stated(w) = {YieldOrder[i] : i \in 1..n}
    BY <1>1 DEF ToSet
  <2>2. \A i \in 1..n : i \in 1..k \/ i \in (k + 1)..n
    BY <1>1, <1>3
  <2>3. \A i \in (k + 1)..n : i \in 1..n /\ \A j \in 1..k : YieldOrder[i] # YieldOrder[j]
    <3> SUFFICES ASSUME NEW i \in (k + 1)..n, NEW j \in 1..k
                 PROVE  i \in 1..n /\ YieldOrder[i] # YieldOrder[j]
      BY <1>1, <1>3
    <3>1. i \in 1..n /\ j \in 1..n /\ i # j
      BY <1>1, <1>3
    <3> QED
      BY <1>1, <3>1 DEF IsInjective
  <2> QED
    BY <1>4, <2>1, <2>2, <2>3 DEF Active
<1>6. ASSUME NEW p
      PROVE  (\A d \in Active(w, k) : ~Breaches(d, p, Snapshot)) <=> Depth(p) <= k
  <2>1. \A i \in 1..n : i \in Broken(p) <=> Breaches(YieldOrder[i], p, Snapshot)
    BY <1>1 DEF Broken
  <2>2. /\ Depth(p) \in 0..n /\ \A i \in Broken(p) : i <= Depth(p) /\ i \in 1..n
        /\ Depth(p) # 0 => Depth(p) \in Broken(p)
    BY DepthIs DEF n
  <2>3. (\A d \in Active(w, k) : ~Breaches(d, p, Snapshot))
          <=> \A i \in (k + 1)..n : ~Breaches(YieldOrder[i], p, Snapshot)
    BY <1>5
  <2>4. \A i \in (k + 1)..n : i \in 1..n /\ ~(i <= k)
    BY <1>1, <1>3
  <2>5. ASSUME Depth(p) <= k PROVE \A i \in (k + 1)..n : i \notin Broken(p)
    BY <1>1, <1>3, <2>2, <2>4, <2>5
  <2>6. ASSUME ~(Depth(p) <= k) PROVE Depth(p) \in (k + 1)..n /\ Depth(p) \in Broken(p)
    BY <1>1, <1>3, <2>2, <2>6
  <2> QED
    BY <2>1, <2>3, <2>4, <2>5, <2>6
<1>7. Candidates(P, Snapshot) = {p \in P : ProviderMatchesAllowed(p, wire.allowed)}
  BY <1>1 DEF Candidates
<1> QED
  BY <1>1, <1>6, <1>7 DEF Survivors

(* Tolerable is what the last round of conceding still keeps.              *)
LEMMA TolerableIs ==
  ASSUME Kinds, InForce, NEW p
  PROVE  Tolerable(p) <=> ProviderMatchesAllowed(p, wire.allowed) /\ Depth(p) \in Rounds(Snapshot)
<1> DEFINE n == Len(YieldOrder)
           most == Len(Yieldable(document))
<1>1. /\ n \in Nat /\ most \in 0..n /\ Rounds(Snapshot) = 0..most
      /\ \A i \in 1..most : YieldOrder[i] # wire.hard
      /\ most < n => YieldOrder[most + 1] = wire.hard
  BY InForceIs, YieldableIs DEF Rounds
<1>2. /\ Depth(p) \in 0..n /\ \A i \in Broken(p) : i <= Depth(p) /\ i \in 1..n
      /\ Depth(p) # 0 => Depth(p) \in Broken(p)
  BY DepthIs
<1> HIDE DEF n, most
<1>3. ASSUME Depth(p) \in 0..most, NEW i \in Broken(p), NEW j \in 1..i
      PROVE  YieldOrder[j] # wire.hard
  <2>1. j \in 1..most
    BY <1>1, <1>2, <1>3
  <2> QED
    BY <1>1, <2>1
<1>4. ASSUME Depth(p) \notin 0..most
      PROVE  Depth(p) \in Broken(p) /\ most + 1 \in 1..Depth(p) /\ YieldOrder[most + 1] = wire.hard
  BY <1>1, <1>2, <1>4
<1> QED
  BY <1>1, <1>3, <1>4 DEF Tolerable

(* A round keeps the tolerable providers of least depth, and is empty only *)
(* when none is tolerable.                                                 *)
LEMMA RestIs ==
  ASSUME Kinds, InForce
  PROVE  /\ \A p \in Rest : Tolerable(p) /\ Depth(p) = Depth0
         /\ \A q \in offered : Tolerable(q) => Rest # {} /\ Depth0 <= Depth(q)
         /\ \A q \in offered \ Rest : Tolerable(q) => Depth0 < Depth(q)
<1>1. Ordered(Snapshot.workload)
  BY InForceIs
<1>2. Depth0 \in Rounds(Snapshot)
  BY <1>1, ConcededIs DEF Depth0
<1>3. \E m \in Nat : Rounds(Snapshot) = 0..m
  BY <1>1, YieldableIs DEF Rounds
<1>4. Rest = {p \in offered : ProviderMatchesAllowed(p, wire.allowed) /\ Depth(p) <= Depth0}
  BY <1>2, SurvivorsByDepth DEF Rest
<1>5. ASSUME NEW q \in offered, Tolerable(q)
      PROVE  Rest # {} /\ Depth0 <= Depth(q)
  <2>1. Depth(q) \in Rounds(Snapshot) /\ ProviderMatchesAllowed(q, wire.allowed)
    BY <1>5, TolerableIs
  <2>2. Depth(q) <= Depth(q)
    BY <1>3, <2>1
  <2>3. q \in Survivors(offered, Snapshot, Depth(q))
    BY <2>1, <2>2, SurvivorsByDepth
  <2> QED
    BY <1>1, <2>1, <2>3, ConcededIs DEF Rest, Depth0
<1>6. ASSUME NEW p \in Rest
      PROVE  Tolerable(p) /\ Depth(p) = Depth0
  <2>1. p \in offered /\ ProviderMatchesAllowed(p, wire.allowed) /\ Depth(p) <= Depth0 /\ Depth(p) \in Nat
    BY <1>4, DepthIs
  <2>2. Depth(p) \in Rounds(Snapshot)
    BY <1>2, <1>3, <2>1
  <2>3. Tolerable(p)
    BY <2>1, <2>2, TolerableIs
  <2> QED
    BY <1>2, <1>3, <1>5, <2>1, <2>3
<1>7. ASSUME NEW q \in offered \ Rest, Tolerable(q)
      PROVE  Depth0 < Depth(q)
  <2>1. Depth(q) \in Rounds(Snapshot) /\ ProviderMatchesAllowed(q, wire.allowed)
    BY <1>7, TolerableIs
  <2> QED
    BY <1>2, <1>3, <1>4, <1>7, <2>1
<1> QED
  BY <1>5, <1>6, <1>7

(* Two fivefold merits compare at the first place they differ.             *)
LEMMA FirstDifference ==
  ASSUME NEW a1, NEW a2, NEW a3, NEW a4, NEW a5,
         NEW b1, NEW b2, NEW b3, NEW b4, NEW b5,
         \/ a1 < b1
         \/ a1 = b1 /\ a2 < b2
         \/ a1 = b1 /\ a2 = b2 /\ a3 < b3
         \/ a1 = b1 /\ a2 = b2 /\ a3 = b3 /\ a4 < b4
         \/ a1 = b1 /\ a2 = b2 /\ a3 = b3 /\ a4 = b4 /\ a5 < b5
  PROVE  LessThan(<<a1, a2, a3, a4, a5>>, <<b1, b2, b3, b4, b5>>)
<1> DEFINE a == <<a1, a2, a3, a4, a5>>
           b == <<b1, b2, b3, b4, b5>>
           differ(i) == a[i] < b[i] /\ \A j \in 1..(i - 1) : a[j] = b[j]
<1>1. /\ a[1] = a1 /\ a[2] = a2 /\ a[3] = a3 /\ a[4] = a4 /\ a[5] = a5
      /\ b[1] = b1 /\ b[2] = b2 /\ b[3] = b3 /\ b[4] = b4 /\ b[5] = b5
      /\ DOMAIN a = 1..5
  OBVIOUS
<1>2. 1 \in 1..5 /\ 2 \in 1..5 /\ 3 \in 1..5 /\ 4 \in 1..5 /\ 5 \in 1..5
  OBVIOUS
<1>3. /\ \A j \in 1..(1 - 1) : FALSE
      /\ \A j \in 1..(2 - 1) : j = 1
      /\ \A j \in 1..(3 - 1) : j \in {1, 2}
      /\ \A j \in 1..(4 - 1) : j \in {1, 2, 3}
      /\ \A j \in 1..(5 - 1) : j \in {1, 2, 3, 4}
  OBVIOUS
<1> HIDE DEF a, b
<1>4. CASE a1 < b1
  <2>1. differ(1)
    BY <1>1, <1>3, <1>4
  <2> QED
    BY <1>1, <1>2, <2>1 DEF LessThan, a, b
<1>5. CASE a1 = b1 /\ a2 < b2
  <2>1. differ(2)
    BY <1>1, <1>3, <1>5
  <2> QED
    BY <1>1, <1>2, <2>1 DEF LessThan, a, b
<1>6. CASE a1 = b1 /\ a2 = b2 /\ a3 < b3
  <2>1. differ(3)
    BY <1>1, <1>3, <1>6
  <2> QED
    BY <1>1, <1>2, <2>1 DEF LessThan, a, b
<1>7. CASE a1 = b1 /\ a2 = b2 /\ a3 = b3 /\ a4 < b4
  <2>1. differ(4)
    BY <1>1, <1>3, <1>7
  <2> QED
    BY <1>1, <1>2, <2>1 DEF LessThan, a, b
<1>8. CASE a1 = b1 /\ a2 = b2 /\ a3 = b3 /\ a4 = b4 /\ a5 < b5
  <2>1. differ(5)
    BY <1>1, <1>3, <1>8
  <2> QED
    BY <1>1, <1>2, <2>1 DEF LessThan, a, b
<1> QED
  BY <1>4, <1>5, <1>6, <1>7, <1>8

(* The winner of a round precedes everything tolerable still on offer.     *)
LEMMA WinnerIsFirst ==
  ASSUME Kinds, InForce, Rest # {}
  PROVE  /\ Tolerable(Winner)
         /\ \A q \in offered \ {Winner} : Tolerable(q) => LessThan(Merit(Winner), Merit(q))
<1>1. /\ Winner \in Rest /\ Winner \in offered /\ \A q \in Rest \ {Winner} : Beats(Winner, q, Snapshot)
  BY WinnerIs
<1>2. Tolerable(Winner) /\ Depth(Winner) = Depth0
  BY <1>1, RestIs
<1> DEFINE v(p) == EffectiveObserved(Objective(document), p, Snapshot)
           r(p) == IF Reserved(p, Snapshot) THEN 0 ELSE 1
           u(p) == IF v(p) = Unmeasured THEN 0 ELSE 1
<1>3. \A p : Merit(p) = <<Depth(p), r(p), u(p), v(p), p>>
  BY DEF Merit
<1>4. ASSUME NEW q \in offered \ {Winner}, Tolerable(q)
      PROVE  LessThan(Merit(Winner), Merit(q))
  <2>1. CASE q \notin Rest
    <3>1. Depth(Winner) < Depth(q)
      BY <1>2, <1>4, <2>1, RestIs
    <3> HIDE DEF v, r, u
    <3> QED
      BY <1>3, <3>1, FirstDifference
  <2>2. CASE q \in Rest
    <3>1. Depth(Winner) = Depth(q)
      BY <1>2, <2>2, RestIs
    <3>2. Beats(Winner, q, Snapshot) /\ Snapshot.workload = document
      BY <1>1, <1>4, <2>2, InForceIs
    <3>3. \/ r(Winner) < r(q)
          \/ r(Winner) = r(q) /\ u(Winner) < u(q)
          \/ r(Winner) = r(q) /\ u(Winner) = u(q) /\ v(Winner) < v(q)
          \/ r(Winner) = r(q) /\ u(Winner) = u(q) /\ v(Winner) = v(q) /\ Winner < q
      <4> HIDE DEF v
      <4>1. CASE Reserved(Winner, Snapshot) # Reserved(q, Snapshot)
        <5>1. Reserved(Winner, Snapshot) /\ ~Reserved(q, Snapshot)
          BY <3>2, <4>1 DEF Beats, Reserved
        <5> QED
          BY <5>1
      <4>2. CASE Reserved(Winner, Snapshot) = Reserved(q, Snapshot)
        <5>1. r(Winner) = r(q)
          BY <4>2
        <5>2. \/ v(Winner) = v(q) /\ Winner < q
              \/ v(Winner) # v(q) /\ v(Winner) = Unmeasured
              \/ v(q) # Unmeasured /\ v(Winner) # Unmeasured /\ v(Winner) < v(q)
          BY <3>2, <4>2 DEF Beats, v
        <5> QED
          BY <5>1, <5>2
      <4> QED
        BY <4>1, <4>2
    <3> HIDE DEF v, r, u
    <3> QED
      BY <1>3, <3>1, <3>3, FirstDifference
  <2> QED
    BY <2>1, <2>2
<1> QED
  BY <1>2, <1>4

(* The list so far is sorted, and what is still on offer belongs after it. *)
FailoverSoFar ==
  InForce =>
    /\ \A i \in DOMAIN list :
         /\ Tolerable(list[i].provider)
         /\ \A q \in offered : Tolerable(q) => LessThan(Merit(list[i].provider), Merit(q))
    /\ \A i, j \in DOMAIN list : i < j => LessThan(Merit(list[i].provider), Merit(list[j].provider))
    /\ phase = "ranked" => \A q \in offered : ~Tolerable(q)

(* Nothing but a write or another snapshot changes a provider's merit.     *)
LEMMA MeritFrame ==
  ASSUME UNCHANGED <<wire, answer, document, seen, live>>
  PROVE  /\ InForce' <=> InForce
         /\ \A p : Merit(p)' = Merit(p) /\ (Tolerable(p)' <=> Tolerable(p))
<1>1. Snapshot' = Snapshot /\ YieldOrder' = YieldOrder
  BY DEF Snapshot, YieldOrder
<1>2. \A p : Broken(p)' = Broken(p)
  BY <1>1 DEF Broken
<1>3. \A p : Depth(p)' = Depth(p)
  <2> DEFINE deepest(T) == IF T = {} THEN 0 ELSE CHOOSE i \in T : \A j \in T : j <= i
  <2>1. \A p : Depth(p) = deepest(Broken(p)) /\ Depth(p)' = deepest(Broken(p)')
    BY DEF Depth
  <2> HIDE DEF deepest
  <2> QED
    BY <1>2, <2>1
<1>4. \A p : Merit(p)' = Merit(p)
  BY <1>1, <1>3 DEF Merit
<1>5. \A p : Tolerable(p)' <=> Tolerable(p)
  BY <1>1, <1>2 DEF Tolerable
<1> QED
  BY <1>4, <1>5 DEF InForce

LEMMA FailoverStep ==
  ASSUME Kinds, FailoverSoFar, [Next]_vars
  PROVE  FailoverSoFar'
<1>1. ASSUME list' = << >>, phase' # "ranked" PROVE FailoverSoFar'
  BY <1>1 DEF FailoverSoFar
<1>2. CASE Place
  <2>1. UNCHANGED <<wire, answer, document, seen, live>> /\ phase = "ranking"
    BY <1>2, PlaceIs
  <2>2. CASE Rest = {} /\ UNCHANGED <<offered, list>>
    <3>1. InForce => \A q \in offered : ~Tolerable(q)
      BY <2>2, RestIs
    <3> QED
      BY <2>1, <2>2, <3>1, MeritFrame DEF FailoverSoFar
  <2>3. CASE /\ Rest # {} /\ phase' = phase
             /\ offered' = offered \ {Winner} /\ list' = Append(list, ToRankedProvider(Winner))
    <3> DEFINE n == Len(list)
               e == ToRankedProvider(Winner)
    <3>1. e \in Entries /\ e.provider = Winner /\ Winner \in offered
      BY <2>3, WinnerIs
    <3> HIDE DEF e
    <3>2. /\ DOMAIN list' = 1..(n + 1) /\ DOMAIN list = 1..n /\ n \in Nat
          /\ \A i \in 1..n : list'[i] = list[i]
          /\ list'[n + 1] = e
          /\ \A i \in 1..(n + 1) : i \in 1..n \/ i = n + 1
      BY <2>3, <3>1, PlacedAt DEF Kinds, ListMade, e
    <3> HIDE DEF n
    <3> SUFFICES ASSUME InForce PROVE FailoverSoFar'
      BY <2>1, MeritFrame DEF FailoverSoFar
    <3>3. /\ Tolerable(Winner)
          /\ \A q \in offered \ {Winner} : Tolerable(q) => LessThan(Merit(Winner), Merit(q))
      BY <2>3, WinnerIsFirst
    <3>4. ASSUME NEW i \in 1..n
          PROVE  /\ Tolerable(list[i].provider)
                 /\ LessThan(Merit(list[i].provider), Merit(Winner))
                 /\ \A q \in offered : Tolerable(q) => LessThan(Merit(list[i].provider), Merit(q))
      BY <3>1, <3>2, <3>3 DEF FailoverSoFar
    <3>5. \A i \in DOMAIN list' :
            /\ Tolerable(list'[i].provider)
            /\ \A q \in offered' : Tolerable(q) => LessThan(Merit(list'[i].provider), Merit(q))
      BY <2>3, <3>1, <3>2, <3>3, <3>4
    <3>6. \A i, j \in DOMAIN list' : i < j => LessThan(Merit(list'[i].provider), Merit(list'[j].provider))
      <4> SUFFICES ASSUME NEW i \in 1..(n + 1), NEW j \in 1..(n + 1), i < j
                   PROVE  LessThan(Merit(list'[i].provider), Merit(list'[j].provider))
        BY <3>2
      <4>1. i \in 1..n
        BY <3>2
      <4>2. CASE j = n + 1
        BY <3>1, <3>2, <3>4, <4>1, <4>2
      <4>3. CASE j \in 1..n
        BY <3>2, <4>1, <4>3 DEF FailoverSoFar
      <4> QED
        BY <3>2, <4>2, <4>3
    <3> QED
      BY <2>1, <2>3, <3>5, <3>6, MeritFrame DEF FailoverSoFar
  <2> QED
    BY <1>2, <2>2, <2>3, PlaceIs
<1>3. CASE Ranked
  <2>1. UNCHANGED <<wire, answer, document, seen, live, offered, list>> /\ offered = {}
    BY <1>3 DEF Ranked
  <2> QED
    BY <2>1, MeritFrame DEF FailoverSoFar
<1>4. ASSUME NEW x \in Wires, NEW at \in Instants, Put(x, at) PROVE FailoverSoFar'
  <2>1. list' = << >> /\ phase' # "ranked"
    BY <1>4 DEF Put, Kinds, ListMade
  <2> QED
    BY <1>1, <2>1
<1>5. CASE Recompute \/ HandOver
  BY <1>1, <1>5 DEF Recompute, HandOver
<1>6. CASE UNCHANGED vars
  <2>1. UNCHANGED <<wire, answer, document, seen, live, offered, list, phase>>
    BY <1>6 DEF vars
  <2> QED
    BY <2>1, MeritFrame DEF FailoverSoFar
<1> QED
  BY <1>2, <1>3, <1>4, <1>5, <1>6 DEF Next

(* Asking again and again without the winner gives one sort of everything  *)
(* tolerable: whatever the connector fails over to, nothing the customer   *)
(* would have preferred comes later, and nothing tolerable is cut off      *)
(* (rankedList.ts computeRankedList over chooseProvider.ts).               *)
THEOREM FailoverOrder == Spec => []ListIsFailoverOrder
<1>1. Init => FailoverSoFar
  BY DEF Init, FailoverSoFar, InForce
<1>2. ASSUME Kinds, FailoverSoFar PROVE ListIsFailoverOrder
  <2> SUFFICES ASSUME InForce, phase = "ranked"
               PROVE  {list[i].provider : i \in DOMAIN list} = {p \in Providers : Tolerable(p)}
    BY <1>2 DEF FailoverSoFar, ListIsFailoverOrder
  <2>1. \A i \in DOMAIN list : list[i].provider \in Providers /\ Tolerable(list[i].provider)
    <3>1. \A i \in DOMAIN list : list[i] \in Entries
      BY <1>2 DEF Kinds, ListMade
    <3> QED
      BY <1>2, <3>1 DEF Entries, FailoverSoFar
  <2>2. \A p \in Providers : Tolerable(p) => \E i \in DOMAIN list : list[i].provider = p
    BY <1>2 DEF FailoverSoFar, Kinds, ListMade
  <2> QED
    BY <2>1, <2>2
<1> QED
  BY <1>1, <1>2, FailoverStep, KindsHold, PTL DEF Spec
=============================================================================
