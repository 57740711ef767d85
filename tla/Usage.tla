-------------------------------- MODULE Usage --------------------------------
(***************************************************************************)
(* The round trip of reserved capacity: the gateway pushes lists that name *)
(* the reservations live at that instant (rankedList.ts), the connector    *)
(* calls and reports (Connector), the gateway stores and measures what     *)
(* arrives (controlplane/api.ts #handleUsage, usageOutcome.ts) and says    *)
(* which calls reached the reservation (reservations/unaddressed.ts).  A   *)
(* report may arrive late or never, a list may be older than a term.       *)
(*                                                                         *)
(* A reservation is [id, model, host, region, addressing, rate, start,     *)
(* end].                                                                   *)
(***************************************************************************)
EXTENDS Connector, TargetDocument

CONSTANTS
  Reservations,  \* the declared reservations, in order
  Orders,        \* the orders routing may rank the providers in
  FallbackModel, \* the model the fallback is configured with
  Lookback       \* how far back the status resource reads

ASSUME UsageAssumption ==
  /\ Fallback.provider \notin Providers /\ Fallback.reservation = None
  /\ Orders \subseteq Seq(Providers)
  /\ Lookback \in Nat

(* A reservation document states no id twice (reservations/document.ts).   *)
ASSUME ReservationsAssumption ==
  /\ Reservations \in Seq(ToSet(Reservations))
  /\ \A i \in DOMAIN Reservations : Reservations[i].id # None
  /\ \A i, j \in DOMAIN Reservations : Reservations[i].id = Reservations[j].id => i = j

VARIABLES
  rows,      \* the stored usage records
  measured   \* what was folded into the windows: a record and its rate

vars == <<now, held, call, reporter, since, sending, closed, flushAt, rows, measured>>

Init ==
  /\ ConnectorInit
  /\ rows = {} /\ measured = {}

(* Those whose term covers the instant, each at its place in the document. *)
LiveReservations(at) ==
  [i \in {j \in DOMAIN Reservations : ReservationIsLive(Reservations[j], at)} |-> Reservations[i]]

(* A list entry names the reservation the provider addresses, if any.      *)
Entry(p, at) == [provider |-> p, reservation |-> ReservationFor(p, LiveReservations(at)).id]

(* A list reaches the connector.                                           *)
Push ==
  /\ ~closed
  /\ \E order \in Orders : held' = [i \in DOMAIN order |-> Entry(order[i], now)]
  /\ UNCHANGED <<now, call, reporter, since, sending, closed, flushAt, rows, measured>>

Declared(id) == Reservations[CHOOSE i \in DOMAIN Reservations : Reservations[i].id = id]

(* The model a record says was asked for.                                  *)
ModelAsked(r) ==
  IF r.entry.reservation # None THEN Declared(r.entry.reservation).addressing
  ELSE IF r.entry.provider \in Providers THEN ModelOf[r.entry.provider]
  ELSE FallbackModel

-----------------------------------------------------------------------------
Unpriced == -1

(* The best public rate of a record's provider, or Unpriced.               *)
PublicRate(r) ==
  LET known == r.entry.provider \in Providers
      floors == FloorsFor(<<[model |-> IF known THEN ModelOf[r.entry.provider] ELSE ModelAsked(r),
                             host  |-> IF known THEN HostOf[r.entry.provider] ELSE AnyHost]>>, Cost)
  IN IF floors = {} THEN Unpriced ELSE BestFloor(floors, Cost).value

(* Mutant: whatever the provider is reserved for, is what the call cost.   *)
RateByProvider(r, at) ==
  LET live == LiveReservations(at)
      used == {i \in DOMAIN live : r.entry.provider \in Providers /\ Addresses(r.entry.provider, live[i])}
  IN IF used # {} THEN live[CHOOSE i \in used : TRUE].rate ELSE PublicRate(r)

(* The rate of the reservation the record names while that is live at the  *)
(* instant of the report, else the public one.                             *)
RateFor(r, at) ==
  LET live == LiveReservations(at)
      used == {i \in DOMAIN live : live[i].id = r.entry.reservation}
  IN IF used # {} THEN live[CHOOSE i \in used : TRUE].rate ELSE PublicRate(r)

(* Mutant: a call without a price counts all the same.                     *)
CountsUnpriced(r, at) == ~ClassifyStatus(r.status).malformed

(* Malformed calls and unpriceable ones are not evidence.                  *)
Counts(r, at) == ~ClassifyStatus(r.status).malformed /\ RateFor(r, at) # Unpriced

(* A batch is stored whole or, when the store fails, not at all.           *)
WriteConnectorUsage(b) == rows' \in {rows, rows \union b.records}

(* A batch arrives.  Whether or not its rows can be stored it is measured, *)
(* and answered.                                                           *)
HandleUsage(b) ==
  /\ b \in sending
  /\ sending' = sending \ {b}
  /\ WriteConnectorUsage(b)
  /\ measured' = measured \union {[record |-> r, rate |-> RateFor(r, now)] : r \in {q \in b.records : Counts(q, now)}}
  /\ UNCHANGED <<now, held, call, reporter, since, closed, flushAt>>

(* A batch that cannot be sent is not sent again.                          *)
Lose(b) ==
  /\ b \in sending
  /\ sending' = sending \ {b}
  /\ UNCHANGED <<now, held, call, reporter, since, closed, flushAt, rows, measured>>

Next ==
  \/ ConnectorNext /\ UNCHANGED <<rows, measured>>
  \/ Push
  \/ \E b \in sending : HandleUsage(b) \/ Lose(b)

Spec == Init /\ [][Next]_vars

-----------------------------------------------------------------------------
(* The utilisation report of one reservation.                              *)
InTerm(r, res) == res.start <= r.time /\ r.time < res.end

(* Mutant: only the foundation name is traffic for the model.              *)
AddressableByName(r, res) ==
  /\ InTerm(r, res)
  /\ r.entry.provider \in Providers
  /\ RegionOf[r.entry.provider] = res.region /\ HostOf[r.entry.provider] = res.host
  /\ ModelAsked(r) = res.model

Addressable(r, res) ==
  /\ InTerm(r, res)
  /\ r.entry.provider \in Providers
  /\ RegionOf[r.entry.provider] = res.region /\ HostOf[r.entry.provider] = res.host
  /\ ModelAsked(r) \in {res.model, res.addressing}

Addressed(res, usage) == {r \in usage : Addressable(r, res) /\ r.entry.reservation = res.id}

(* What a status request reads of the stored calls.                        *)
ReadConnectorUsage == {r \in rows : r.time >= now - Lookback}

(* What it answers: of each reservation, the calls that reached it.        *)
ReservationStatus ==
  [i \in DOMAIN Reservations |-> Addressed(Reservations[i], ReadConnectorUsage)]

-----------------------------------------------------------------------------
Buffered == ToSet(reporter.usage) \union ToSet(reporter.strain)

(* The kinds of value each variable holds (the whole module).              *)
TypeOK ==
  /\ now \in 0..MaxTime
  /\ \A c \in Calls : call[c].phase \in {"trying", "streaming"} => call[c].at \in DOMAIN call[c].list
  /\ Len(reporter.usage) <= UsageCapacity /\ Len(reporter.strain) <= StrainCapacity
  /\ Len(reporter.usage) < flushAt
  /\ \A b \in sending : b.records # {}
  /\ \A m \in measured : m.rate # Unpriced

(* A record is sent at most once: it is in the buffers, in one batch, or   *)
(* with the gateway (report.ts flush: the sample holds the same records as *)
(* the usage buffer, and evidence the one dropped reaches the gateway      *)
(* exactly once through the other).                                        *)
SentAtMostOnce ==
  /\ \A b \in sending : b.records \intersect (Buffered \union rows \union {m.record : m \in measured}) = {}
  /\ \A b, d \in sending : b = d \/ b.records \intersect d.records = {}
  /\ Buffered \intersect rows = {}

(* The usage buffer is the latest part of what was recorded since the last *)
(* flush and the counter the rest of it; the sample and its counter add up *)
(* to all the evidence (report.ts record).                                 *)
DropsAreCounted ==
  LET evidence == {i \in DOMAIN since : IsStrainEvidence(since[i])}
  IN /\ reporter.usage = SubSeq(since, reporter.usageDropped + 1, Len(since))
     /\ ToSet(reporter.strain) \subseteq {since[i] : i \in evidence}
     /\ Len(reporter.strain) + reporter.strainDropped = Cardinality(evidence)
     /\ reporter.strainDropped > 0 => Len(reporter.strain) = StrainCapacity

(* Another rate than the public one is given only for a call that asked    *)
(* for reserved capacity on a provider that has it, and is the rate of     *)
(* that reservation, however late the report (usageOutcome.ts rateFor over *)
(* rankedList.ts toRankedProvider).                                        *)
ReservedRateIsEarned ==
  \A m \in measured :
    m.rate # PublicRate(m.record) =>
      \E i \in DOMAIN Reservations :
        /\ m.rate = Reservations[i].rate
        /\ m.record.entry.reservation = Reservations[i].id
        /\ Addresses(m.record.entry.provider, Reservations[i])

(* Every stored call of the lookback that asked for a reservation within   *)
(* its term is counted as having reached it, and no other (unaddressed.ts  *)
(* addressable).                                                           *)
UtilizationIsExact ==
  \A i \in DOMAIN Reservations :
    LET res == Reservations[i]
    IN ReservationStatus[i] = {r \in rows : /\ r.entry.reservation = res.id
                                            /\ InTerm(r, res) /\ r.time >= now - Lookback}

-----------------------------------------------------------------------------
(* Stated by the code, and not so.                                         *)

(* "On a network error, a 429, or a 5xx, try the next provider in the      *)
(* list" (call.ts): a call throws only at the end of its list.             *)
NetworkErrorFailsOver ==
  \A c \in Calls : call[c].phase = "threw" => call[c].untried = 0
=============================================================================
