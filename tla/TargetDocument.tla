--------------------------- MODULE TargetDocument ----------------------------
(***************************************************************************)
(* What a target may say and whether it is accepted: the parse and the     *)
(* serialisation of one workload (targets/document.ts) and the feasibility *)
(* check of a declared target against the catalogue of capability floors   *)
(* (targets/feasibility.ts, providers/capabilities.ts).                    *)
(*                                                                         *)
(* A wire workload is                                                      *)
(*   allowed    the allowed_models entries, in order                       *)
(*   order      the dimension keys in the order they are written           *)
(*   target     the value of each of them                                  *)
(*   objective  a dimension or None                                        *)
(*   ranked     whether it carries a priority, and then                    *)
(*   priority   that priority                                              *)
(*   hard       a dimension or None                                        *)
(* A floor is [model, host, dimension, value, variance, expires].          *)
(***************************************************************************)
EXTENDS Vocabulary, SequencesExt

CONSTANTS
  Whole,      \* the success rate that means every request
  Catalogue   \* the capability floors, in the order of the table

ValidDimensionValue(d, v) == v > 0 /\ (d = "success_rate" => v <= Whole)

(* Every stated dimension exactly once, and nothing else.                  *)
ValidPriority(priority, order) == ToSet(priority) = ToSet(order) /\ Len(priority) = Len(order)

Parses(x) ==
  /\ x.allowed # <<>>
  /\ \A d \in ToSet(x.order) : ValidDimensionValue(d, x.target[d])
  /\ x.ranked => ValidPriority(x.priority, x.order)
  /\ x.hard \in ToSet(x.order) \union {None}

(* Undeclared, the priority is the reverse of the declaration order.       *)
ParsePriority(x) == IF x.ranked THEN x.priority ELSE Reverse(x.order)

ParseWorkload(x) ==
  [allowed |-> x.allowed, declared |-> x.order, target |-> x.target,
   objective |-> x.objective, priority |-> ParsePriority(x), hard |-> x.hard]

Serialize(w) ==
  [allowed |-> w.allowed, order |-> w.declared, target |-> w.target,
   objective |-> w.objective, ranked |-> TRUE, priority |-> w.priority, hard |-> w.hard]

-----------------------------------------------------------------------------
Stated(w) == ToSet(w.declared)

(* The places <<entry of allowed, row of the catalogue>> that match, which *)
(* the scan visits in lexicographic order.                                 *)
FloorsFor(allowed, d) ==
  {s \in (DOMAIN allowed) \X (DOMAIN Catalogue) :
     LET entry == allowed[s[1]]
         f == Catalogue[s[2]]
     IN f.model = entry.model /\ f.dimension = d /\ entry.host \in {AnyHost, f.host}}

FloorAt(s) == Catalogue[s[2]]

Before(s, t) == s[1] < t[1] \/ (s[1] = t[1] /\ s[2] < t[2])

IsStale(f, at) == at > f.expires

(* The floors of the allowed candidates that can still be trusted.         *)
Trusted(w, d, at) == {s \in FloorsFor(w.allowed, d) : ~IsStale(FloorAt(s), at)}

Better(d, a, b) == IF IsCeiling(d) THEN a < b ELSE a > b

(* Mutant: the pessimistic floor is taken for a success rate.              *)
BestFloorByLeast(floors, d) ==
  FloorAt(CHOOSE s \in floors : \A t \in floors : FloorAt(s).value <= FloorAt(t).value)

(* The most optimistic floor, the first of equals.                         *)
BestFloor(floors, d) ==
  FloorAt(CHOOSE s \in floors : \A t \in floors :
          /\ ~Better(d, FloorAt(t).value, FloorAt(s).value)
          /\ Before(t, s) => Better(d, FloorAt(s).value, FloorAt(t).value))

(* A target fails a floor only by more than the floor's own variance.      *)
Misses(d, requested, f) ==
  IF IsCeiling(d) THEN requested < f.value - f.variance ELSE requested > f.value + f.variance

Abstained(w, at) == {d \in Stated(w) : Trusted(w, d, at) = {}}

Infeasible(w, at) ==
  {d \in Stated(w) \ Abstained(w, at) : Misses(d, w.target[d], BestFloor(Trusted(w, d, at), d))}

CheckFeasibility(w, at) ==
  IF Infeasible(w, at) # {} THEN "infeasible"
  ELSE IF Abstained(w, at) # {} THEN "abstained"
  ELSE "feasible"
=============================================================================
