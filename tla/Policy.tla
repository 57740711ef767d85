------------------------------- MODULE Policy --------------------------------
(***************************************************************************)
(* The life of one workload's target: a customer writes it, the gateway    *)
(* parses it, checks it against the capability floors and stores it        *)
(* (targets/service.ts put), then ranks the providers for it by asking the *)
(* routing seam who wins, taking the winner away and asking again          *)
(* (controlplane/rankedList.ts).                                           *)
(*                                                                         *)
(* One action per PUT and per round of the ranking.  The snapshot of a     *)
(* ranking is any member of Sightings and Lives: how it is measured is the *)
(* subject of Traffic, how a term passes that of Usage.                    *)
(***************************************************************************)
EXTENDS Routing

CONSTANTS
  Wires,      \* the workloads a customer may write
  Sightings,  \* what may have been observed, by provider
  Lives,      \* the sequences of reservations that may be live
  Instants    \* the instants a write may happen at

(* A workload is a JSON object: it states no dimension twice, and its      *)
(* numbers are numbers.  What is declared of it need not be acceptable.    *)
Writable(x) ==
  /\ x.allowed \in Seq(ToSet(x.allowed))
  /\ x.order \in Seq(DimensionNames) /\ IsInjective(x.order)
  /\ x.priority \in Seq(ToSet(x.priority)) /\ x.ranked \in BOOLEAN
  /\ x.objective \in DimensionNames \union {None}
  /\ \A d \in ToSet(x.order) : x.target[d] \in Int

(* What may be observed of a provider.                                     *)
Observations == [DimensionNames -> Nat \union {Unmeasured}]

ASSUME WiresAssumption == \A x \in Wires : Writable(x)

ASSUME SnapshotAssumption ==
  /\ IsFiniteSet(Providers)
  /\ \A s \in Sightings : DOMAIN s \subseteq Providers /\ s \in [DOMAIN s -> Observations]
  /\ \A l \in Lives : /\ l \in Seq(ToSet(l))
                      /\ \A i \in DOMAIN l : l[i].rate \in Nat /\ l[i].id # None

ASSUME FloorsAssumption ==
  /\ Catalogue \in Seq(ToSet(Catalogue))
  /\ \A i \in DOMAIN Catalogue :
       {Catalogue[i].value, Catalogue[i].variance, Catalogue[i].expires} \subseteq Nat
  /\ Instants \subseteq Nat

VARIABLES
  wire,       \* the customer's last write, or Unwritten
  answer,     \* how it was answered
  putAt,      \* and when
  document,   \* the workload in force, or NoTarget
  seen, live, \* the snapshot being ranked
  offered,    \* the providers not yet placed
  list,       \* the ranked list so far
  boundBy,    \* what bound its first choice
  phase       \* idle, ranking or ranked

vars == <<wire, answer, putAt, document, seen, live, offered, list, boundBy, phase>>

Answers == {"none", "invalid", "infeasible", "abstained", "feasible"}

Unwritten == [order |-> <<>>, ranked |-> FALSE, hard |-> None]

Snapshot == [workload |-> document, seen |-> seen, live |-> live]

Init ==
  /\ wire = Unwritten /\ answer = "none" /\ putAt = 0
  /\ document = NoTarget
  /\ seen = << >> /\ live = << >>
  /\ offered = Providers /\ list = << >> /\ boundBy = None
  /\ phase = "idle"

(* Mutant: an infeasible write is stored all the same.                     *)
PutUnchecked(x, at) ==
  /\ answer = "none" /\ phase = "idle"
  /\ wire' = x /\ putAt' = at
  /\ answer' = IF Parses(x) THEN CheckFeasibility(ParseWorkload(x), at) ELSE "invalid"
  /\ document' = IF Parses(x) THEN ParseWorkload(Serialize(ParseWorkload(x))) ELSE document
  /\ UNCHANGED <<seen, live, offered, list, boundBy, phase>>

(* A write is parsed, checked, stored serialised and read back parsed.     *)
Put(x, at) ==
  /\ answer = "none" /\ phase = "idle"
  /\ wire' = x /\ putAt' = at
  /\ answer' = IF Parses(x) THEN CheckFeasibility(ParseWorkload(x), at) ELSE "invalid"
  /\ document' = IF answer' \in {"feasible", "abstained"}
                 THEN ParseWorkload(Serialize(ParseWorkload(x)))
                 ELSE document
  /\ UNCHANGED <<seen, live, offered, list, boundBy, phase>>

(* A recomputation starts from a snapshot.                                 *)
Recompute ==
  /\ phase = "idle"
  /\ seen' \in Sightings /\ live' \in Lives
  /\ offered' = Providers /\ list' = << >> /\ boundBy' = None
  /\ phase' = "ranking"
  /\ UNCHANGED <<wire, answer, putAt, document>>

(* The entry of the wire list, with the reservation the provider addresses.*)
ToRankedProvider(p) == [provider |-> p, reservation |-> ReservationFor(p, live).id]

(* Ask who wins; a refusal truncates the list.                             *)
Place ==
  /\ phase = "ranking" /\ offered # {}
  /\ LET decision == ChooseProvider(offered, Snapshot)
     IN /\ boundBy' = IF list = << >> THEN decision.boundBy ELSE boundBy
        /\ IF decision.refused
           THEN /\ phase' = "ranked"
                /\ UNCHANGED <<offered, list>>
           ELSE /\ offered' = offered \ {decision.provider}
                /\ list' = Append(list, ToRankedProvider(decision.provider))
                /\ UNCHANGED phase
  /\ UNCHANGED <<wire, answer, putAt, document, seen, live>>

Ranked ==
  /\ phase = "ranking" /\ offered = {}
  /\ phase' = "ranked"
  /\ UNCHANGED <<wire, answer, putAt, document, seen, live, offered, list, boundBy>>

(* The list goes to the scheduler.                                         *)
HandOver ==
  /\ phase = "ranked"
  /\ phase' = "idle"
  /\ seen' = << >> /\ live' = << >> /\ offered' = Providers /\ list' = << >> /\ boundBy' = None
  /\ UNCHANGED <<wire, answer, putAt, document>>

Next ==
  \/ \E x \in Wires, at \in Instants : Put(x, at)
  \/ Recompute
  \/ Place
  \/ Ranked
  \/ HandOver

Spec == Init /\ [][Next]_vars

-----------------------------------------------------------------------------
(* The kinds of value each variable holds (the whole module).              *)
TypeOK ==
  /\ wire \in Wires \union {Unwritten}
  /\ answer \in Answers
  /\ putAt \in Instants \union {0}
  /\ document # NoTarget => answer \in {"feasible", "abstained"}
  /\ seen \in Sightings \union {<< >>} /\ live \in Lives \union {<< >>}
  /\ offered \subseteq Providers
  /\ boundBy \in DimensionNames \union {None}
  /\ phase \in {"idle", "ranking", "ranked"}
  /\ \A i \in DOMAIN list : list[i].provider \in Providers \ offered

InForce == answer \in {"feasible", "abstained"}

(* No entry of a list measurably breaches the dimension the customer wrote *)
(* as hard, at any position a call may fail over to: the refusal that      *)
(* truncates the list in computeRankedList, through every concession of    *)
(* chooseProvider and the trip of the document through the store.          *)
HardIsNeverConceded ==
  InForce /\ wire.hard # None =>
    \A i \in DOMAIN list : ~Breaches(wire.hard, list[i].provider, Snapshot)

(* The order in which what the customer wrote may give way.                *)
YieldOrder == IF wire.ranked THEN Reverse(wire.priority) ELSE wire.order

Broken(p) == {i \in DOMAIN YieldOrder : Breaches(YieldOrder[i], p, Snapshot)}

(* How far down that order one has to concede for a provider alone.        *)
Depth(p) == IF Broken(p) = {} THEN 0 ELSE CHOOSE i \in Broken(p) : \A j \in Broken(p) : j <= i

Tolerable(p) ==
  /\ ProviderMatchesAllowed(p, wire.allowed)
  /\ \A i \in Broken(p) : \A j \in 1..i : YieldOrder[j] # wire.hard

(* What the comparison of two providers looks at, in this order.           *)
Merit(p) ==
  LET value == EffectiveObserved(Objective(document), p, Snapshot)
  IN <<Depth(p), IF Reserved(p, Snapshot) THEN 0 ELSE 1,
       IF value = Unmeasured THEN 0 ELSE 1, value, p>>

LessThan(a, b) == \E i \in DOMAIN a : a[i] < b[i] /\ \A j \in 1..(i - 1) : a[j] = b[j]

(* Asking again and again without the winner gives one sort of everything  *)
(* tolerable: by what has to be conceded, then reserved capacity, then the *)
(* unmeasured, then the objective.  A connector that fails over never      *)
(* skips a provider the customer would have preferred, and nothing         *)
(* tolerable is cut off (computeRankedList over chooseProvider).           *)
ListIsFailoverOrder ==
  InForce =>
    /\ \A i, j \in DOMAIN list : i < j => LessThan(Merit(list[i].provider), Merit(list[j].provider))
    /\ phase = "ranked" => {list[i].provider : i \in DOMAIN list} = {p \in Providers : Tolerable(p)}

(* When nothing is named as binding, the whole target made no difference:  *)
(* the choice is the one all allowed providers would have given            *)
(* (boundByOf).                                                            *)
UnboundMeansUnconstrained ==
  InForce /\ list # << >> /\ boundBy = None =>
    list[1].provider = Minimizer(Candidates(Providers, Snapshot), Snapshot)

(* A write refused as infeasible names a dimension that no trusted floor   *)
(* of an allowed candidate meets, and what cannot be trusted never refuses *)
(* (checkFeasibility with bestFloor).                                      *)
RefusedIsOutOfReach ==
  answer = "infeasible" =>
    \E d \in ToSet(wire.order) :
      LET floors == {f \in ToSet(Catalogue) :
                       /\ f.dimension = d /\ putAt <= f.expires
                       /\ \E i \in DOMAIN wire.allowed :
                            /\ wire.allowed[i].model = f.model
                            /\ wire.allowed[i].host \in {AnyHost, f.host}}
      IN floors # {} /\ \A f \in floors : ~HoldsTarget(d, f.value, wire.target[d])

(* The window is missed exactly when routing could not hold the target     *)
(* without conceding, provided every candidate and nothing else was        *)
(* observed and no reservation is live (judgeWindow against evaluate).     *)
JudgeAgreesWithRouting ==
  /\ InForce /\ phase = "ranked"
  /\ live = << >> /\ DOMAIN seen = Candidates(Providers, Snapshot) /\ seen # << >>
  => (JudgeWindow(Snapshot) = "missed") = (Survivors(Providers, Snapshot, 0) = {})

-----------------------------------------------------------------------------
(* Stated by the code or its documents, and not so.                        *)

(* "The ceiling stated last is the one that yields first" when no priority *)
(* is declared (document.ts parsePriority): where one concession is enough,*)
(* it is of the dimension written last.                                    *)
LastStatedYieldsFirst ==
  InForce /\ phase = "ranking" /\ ~wire.ranked /\ Conceded(Providers, Snapshot) = 1 =>
    ChooseProvider(Providers, Snapshot).yielded = Last(wire.order)
=============================================================================
