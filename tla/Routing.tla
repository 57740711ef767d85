------------------------------- MODULE Routing -------------------------------
(***************************************************************************)
(* The routing seam, routing/chooseProvider.ts, as operators on a          *)
(* snapshot, and the judgement of a closed window of targets/unmet.ts over *)
(* the same observations.  A snapshot is                                   *)
(*   workload  a parsed workload, or NoTarget                              *)
(*   seen      what was observed, of each provider that was                *)
(*   live      the reservations whose term covers the instant, in order    *)
(* The set of providers on offer is an argument of its own: it is what the *)
(* ranked list shrinks.  Only the wording of the reasons is left out.      *)
(***************************************************************************)
EXTENDS TargetDocument, FiniteSets

(* No document: every provider is a candidate and nothing binds.           *)
NoTarget == [allowed |-> <<>>, declared |-> <<>>, target |-> <<>>,
             objective |-> None, priority |-> <<>>, hard |-> None]

Candidates(offered, S) ==
  {p \in offered : S.workload = NoTarget \/ ProviderMatchesAllowed(p, S.workload.allowed)}

(* A provider nobody observed has no value, in any dimension.              *)
ObservedFor(d, p, S) == IF p \in DOMAIN S.seen THEN S.seen[p][d] ELSE Unmeasured

Reserved(p, S) == ReservationFor(p, S.live) # NoReservation

(* Under a reservation the customer pays its rate, whatever was observed.  *)
EffectiveObserved(d, p, S) ==
  IF d = Cost /\ Reserved(p, S) THEN ReservationFor(p, S.live).rate ELSE ObservedFor(d, p, S)

(* Absent evidence never disqualifies.                                     *)
Breaches(d, p, S) ==
  LET observed == EffectiveObserved(d, p, S)
  IN observed # Unmeasured /\ ~HoldsTarget(d, observed, S.workload.target[d])

-----------------------------------------------------------------------------
(* What a sequence holds of a set, in its order.                           *)
Sieve(s, T) ==
  LET at == {i \in DOMAIN s : s[i] \in T}
      nth(n) == CHOOSE i \in at : Cardinality({j \in at : j <= i}) = n
  IN [n \in 1..Cardinality(at) |-> s[nth(n)]]

(* Conceding: what is stated but not ranked first, then the priority from  *)
(* its end.                                                                *)
ConcessionOrder(w) ==
  Sieve(w.declared, Stated(w) \ ToSet(w.priority)) \o Reverse(Sieve(w.priority, Stated(w)))

(* Mutant: the hard dimension is skipped and what is above it may yield.   *)
YieldableAbove(w) == Sieve(ConcessionOrder(w), Stated(w) \ {w.hard})

(* Mutant: the cut falls one dimension too late.                           *)
YieldableThrough(w) ==
  LET order == ConcessionOrder(w)
      halts == {i \in DOMAIN order : order[i] = w.hard}
  IN IF halts = {} THEN order
     ELSE SubSeq(order, 1, CHOOSE i \in halts : \A j \in halts : i <= j)

(* The hard dimension truncates: nothing more important yields either.     *)
Yieldable(w) ==
  LET order == ConcessionOrder(w)
      halts == {i \in DOMAIN order : order[i] = w.hard}
  IN IF halts = {} THEN order
     ELSE SubSeq(order, 1, (CHOOSE i \in halts : \A j \in halts : i <= j) - 1)

(* What still binds once k dimensions have yielded.                        *)
Active(w, k) == Stated(w) \ {Yieldable(w)[i] : i \in 1..k}

Survivors(offered, S, k) ==
  {p \in Candidates(offered, S) : \A d \in Active(S.workload, k) : ~Breaches(d, p, S)}

Rounds(S) == 0..Len(Yieldable(S.workload))

(* One more yields only while nobody survives.                             *)
Conceded(offered, S) ==
  LET enough == {k \in Rounds(S) : Survivors(offered, S, k) # {}}
  IN IF enough = {} THEN Len(Yieldable(S.workload))
     ELSE CHOOSE k \in enough : \A j \in enough : k <= j

Objective(w) == IF w.objective = None THEN Cost ELSE w.objective

(* Reserved capacity first, then what has no measured objective, then the  *)
(* smaller objective, then the smaller id.                                 *)
Beats(p, q, S) ==
  LET x == EffectiveObserved(Objective(S.workload), p, S)
      y == EffectiveObserved(Objective(S.workload), q, S)
  IN IF Reserved(p, S) # Reserved(q, S) THEN Reserved(p, S)
     ELSE IF x = y THEN p < q
     ELSE x = Unmeasured \/ (y # Unmeasured /\ x < y)

Minimizer(survivors, S) ==
  CHOOSE p \in survivors : \A q \in survivors \ {p} : Beats(p, q, S)

(* Mutant: only the objective is ever named.                               *)
BoundByObjective(offered, S, k) ==
  LET value(p) == EffectiveObserved(Objective(S.workload), p, S)
  IN IF S.workload.objective # None /\ (\E p, q \in Survivors(offered, S, k) : value(p) # value(q))
     THEN S.workload.objective ELSE None

(* The objective when it separated survivors, else the active dimension    *)
(* that eliminated most, the higher priority of equals.                    *)
BoundBy(offered, S, k) ==
  LET w == S.workload
      value(p) == EffectiveObserved(Objective(w), p, S)
      eliminated(d) == Cardinality({p \in Candidates(offered, S) : Breaches(d, p, S)})
      position(d) == CHOOSE i \in DOMAIN w.priority : w.priority[i] = d
      culled == {d \in Active(w, k) : eliminated(d) > 0}
      rest == Survivors(offered, S, k)
  IN IF w.objective # None /\ (\E p, q \in rest : value(p) # value(q)) THEN w.objective
     ELSE IF culled = {} THEN None
     ELSE CHOOSE d \in culled : \A e \in culled \ {d} :
            \/ eliminated(d) > eliminated(e)
            \/ eliminated(d) = eliminated(e) /\ position(d) < position(e)

(* The decision: a provider, or none and the hard dimension it is put on.  *)
ChooseProvider(offered, S) ==
  LET k == Conceded(offered, S)
      rest == Survivors(offered, S, k)
  IN [refused    |-> rest = {},
      provider   |-> IF rest = {} THEN None ELSE Minimizer(rest, S),
      boundBy    |-> BoundBy(offered, S, k),
      yielded    |-> IF k = 0 THEN None ELSE Yieldable(S.workload)[k],
      failedHard |-> IF rest = {} /\ Candidates(offered, S) # {} THEN S.workload.hard ELSE None]

-----------------------------------------------------------------------------
(* The verdict on a closed window, from the providers observed over it.    *)
MeasuredIn(d, p, S) == ObservedFor(d, p, S) # Unmeasured

Held(d, p, S) == HoldsTarget(d, ObservedFor(d, p, S), S.workload.target[d])

(* Mutant: a provider without a value does not hold a dimension.           *)
JudgeStrictly(S) ==
  LET w == S.workload
      holds(p) == \A d \in Stated(w) : MeasuredIn(d, p, S) /\ Held(d, p, S)
  IN IF w.declared = <<>> THEN "held"
     ELSE IF ~\E p \in DOMAIN S.seen, d \in Stated(w) : MeasuredIn(d, p, S) THEN "indeterminate"
     ELSE IF \E p \in DOMAIN S.seen : holds(p) THEN "held" ELSE "missed"

JudgeWindow(S) ==
  LET w == S.workload
      holds(p) == \A d \in Stated(w) : MeasuredIn(d, p, S) => Held(d, p, S)
  IN IF w.declared = <<>> THEN "held"
     ELSE IF ~\E p \in DOMAIN S.seen, d \in Stated(w) : MeasuredIn(d, p, S) THEN "indeterminate"
     ELSE IF \E p \in DOMAIN S.seen : holds(p) THEN "held" ELSE "missed"
=============================================================================
