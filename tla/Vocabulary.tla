----------------------------- MODULE Vocabulary ------------------------------
(***************************************************************************)
(* The words every pure module of the gateway shares (gateway/src/types.ts *)
(* and the matching of targets/document.ts): dimensions and the way each   *)
(* is good, what it means to hold a target, who is allowed, and which      *)
(* reservation a provider addresses; and how a status counts               *)
(* (routing/stats.ts classifyStatus).  Quantities are integers.            *)
(***************************************************************************)
EXTENDS Integers, Sequences

CONSTANTS
  Providers,  \* provider ids: integers, in the order of the code's id comparison
  ModelOf,    \* the model each provider serves
  HostOf,     \* the host serving it
  RegionOf,   \* the region it is served from
  AnyHost     \* the host of an allowed_models entry that pins none

ASSUME ProvidersAssumption == Providers \subseteq Nat

Cost == "cost_per_1k_tokens_usd"
DimensionNames == {"p95_ms", Cost, "success_rate"}

None == "none"                  \* no dimension: null, or an objective of "none"
Unmeasured == -1                \* insufficient_data
NoReservation == [id |-> None]

IsCeiling(d) == d # "success_rate"

HoldsTarget(d, observed, target) ==
  IF IsCeiling(d) THEN observed <= target ELSE observed >= target

(* A term is half open at its end. *)
ReservationIsLive(r, now) == r.start <= now /\ now < r.end

ProviderMatchesAllowed(p, allowed) ==
  \E i \in DOMAIN allowed :
    allowed[i].model = ModelOf[p] /\ allowed[i].host \in {AnyHost, HostOf[p]}

Addresses(p, r) == r.model = ModelOf[p] /\ r.host = HostOf[p] /\ r.region = RegionOf[p]

(* The first live reservation that names what the provider serves.         *)
ReservationFor(p, live) ==
  LET matches == {i \in DOMAIN live : Addresses(p, live[i])}
  IN IF matches = {} THEN NoReservation
     ELSE live[CHOOSE i \in matches : \A j \in matches : i <= j]

(* Mutant: no answer at all is nobody's fault.                             *)
ClassifyReached(status) ==
  [success |-> status \in 200..399, malformed |-> status = 0 \/ status \in (400..499) \ {429}]

(* A 429, a 5xx and no answer are the provider's, another 4xx the caller's.*)
ClassifyStatus(status) ==
  [success |-> status \in 200..399, malformed |-> status \in (400..499) \ {429}]
=============================================================================
