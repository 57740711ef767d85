# A verification project for henry-ai-router

TLA+ models of the gateway and of the connector, the TLC configurations that
check them, and TLAPS proofs. Paths are relative to the repository's `src/`
prefix (`gateway/src/...`, `connector/src/...`). `PROJECT.json` maps every
definition that models code to the lines it stands for, and lists the runs, the
mutants, the findings, the hazards and the theorems.

## 1. The system

A customer states *targets* (p95, unit cost, success rate) per *workload* in a
versioned document. *Gateway* processes, several to one SQLite file, choose a
provider for each request under those targets, measure what the providers
achieve, raise `unmet` when no provider holds a target, and push a *ranked list*
per workload to the customer's *connectors*, which sit in the customer's
application and call the providers themselves, so that the gateway is out of the
request path. A customer may also declare *reservations*: capacity that is paid
for, with a term, a rate and an addressing of its own.

| Component | State it keeps | Operations | Talks to |
|---|---|---|---|
| Durable store (`targets/store.ts`) | rows: target document, reservation document, window summaries, unmet state, connectors, directives, usage | compare-and-set of each document and of the unmet state (`BEGIN IMMEDIATE`), single-statement reads and upserts, pruning | every gateway process |
| Target service (`targets/service.ts`) | `#document`, `#version`, `#reservations`, `#observations`, `#unmet`, the windows | `start`, `put`, `get`, `putReservations`, `status`, `tick`, `stop` | store, management API, control plane, notifier |
| Management API (`management/api.ts`) | none | GET/PUT of both documents, GET of a status | target service |
| Target document and feasibility (`targets/document.ts`, `feasibility.ts`, `providers/capabilities.ts`) | none (pure) | parse, serialise, `checkFeasibility` | target service |
| Routing (`routing/chooseProvider.ts`, `controlplane/rankedList.ts`) | none (pure) | `chooseProvider`, `computeRankedList` | service, control plane, data path |
| Measurement windows (`routing/stats.ts`) | one window in flight per (workload, provider) | `record`, `closeDue`, `mergeObservations` | target service |
| Unmet machine (`targets/unmet.ts`) | none (pure) | `judgeWindow`, `foldWindow`, `restoreState` | target service |
| Notifier (`management/notify.ts`) | deliveries in flight | `deliver` with retries | the customer's endpoint |
| Data path (`server.ts`, `providers/`) | none across requests | proxy a request, fail open | providers, service |
| Directive scheduler (`controlplane/directives.ts`) | published list, pending list, last version, last push, per workload | `offer`, `flush`, `current` | store (through a reader) |
| Control plane (`controlplane/api.ts`) | connections, schedulers | stream, lists, ack, usage, mint; the pump | connectors, store |
| Connector channel (`connector/src/channel.ts`) | lists held, mode, poll timer | reconnect loop, poll, adopt, acknowledge, close | control plane |
| Connector call (`connector/src/call.ts`) | the place in its list | failover along the list, streamed answers | providers, reporter |
| Usage reporter (`connector/src/report.ts`) | usage buffer, strain sample, counters, flush timer | record, flush, shed | control plane |
| Usage ingestion (`controlplane/usageOutcome.ts`) and unaddressed capacity (`reservations/unaddressed.ts`) | none (pure) | rate of a record, which calls reached a reservation | store, service |

Where the difficulty lies:

- **Several processes, one store, no locks held between calls.** Every handler
  is synchronous inside its process, but a handler that makes two store calls is
  not atomic: a refresh is two reads, a tick is a read of summaries, a read of
  the state and a compare-and-set.
- **Copies.** Each process serves from memory; nothing tells it when the store
  moves, it polls a version.
- **Messages.** Frames, poll replies, acknowledgements and usage batches are in
  flight at once; acknowledgements and batches are sent without a retry.
- **Feedback.** Routing decides what is measured, and measurements decide routing.
- **Order.** Priorities, concessions, floors and lists are orders built in one
  file and read backwards in another.
- **Failures.** A store call may throw anywhere and is swallowed in most places; a
  process may die between any two steps; a stream may die unnoticed.

What makes each component correct:

- *Store and copies*: no lost update; a copy is a document that was committed, is
  never filed under a version newer than itself, and reaches every process.
- *Push*: a version names one list; a connector never goes back; the computed
  list reaches the connector; a stale connector shows in the directive row.
- *Unmet*: the flag obeys two windows in, two out over everything recorded; each
  stored transition has one notifier; a process shows what was stored, in order.
- *Targets and routing*: what is refused cannot be held; what is hard is never
  conceded; a ranked list is one sort of everything tolerable; a verdict agrees
  with routing.
- *Measurement*: every candidate is measured again and again; a refusal ends.
- *Calls and usage*: a record is sent at most once; what was shed is counted; a
  reserved rate is earned; the utilisation of a term is what its calls were.

## 2. Modules

| Module | Models | Abstract specification, proofs |
|---|---|---|
| `TargetStore` | store documents, service copies, management GET/PUT, polling, failed reads, restarts | `VersionedDocument`, `TargetStore_proofs` |
| `DirectivePush` | scheduler, pump, stream/poll/ack endpoints, directive row, channel | `DirectiveFeed`, `DirectivePush_proofs` |
| `UnmetMachine` | windows, tick, verdict, fold, compare-and-set, restore, notifier | `UnmetRecord`, `UnmetMachine_proofs` |
| `Vocabulary` | `types.ts`: dimensions, holding, matching, reservations; how a status counts | |
| `TargetDocument` | parse, serialise, floors, feasibility (pure) | proved about in `Policy_proofs` |
| `Routing` | `chooseProvider`, `judgeWindow` (pure), over both | lemmas in `Routing_proofs` |
| `Policy` | a PUT, its check, and the rounds of `computeRankedList`; composes the three above | `Policy_proofs` |
| `Traffic` | the data path and the measurement loop, over `Routing` | `Traffic_proofs` |
| `Connector` | concurrent calls and the reporter | |
| `Usage` | the gateway's side of reservations and usage; composes `Connector` and `TargetDocument` | `Usage_proofs` |
| `NumberLemmas` | least and greatest numbers, running sums: no code, the induction the proofs share | |
| `MC...` | instances for TLC | |

An operator or action whose comment begins with *Mutant* is a plausible bug in
the definition after it. It is part of no specification: `PROJECT.json` pairs it
with the property that catches it.

### TargetStore

`doc` is the row of each document and `log` (history) every accepted content with
the version its writer had read. `mem[p]` is a process's copy with three parts:
`version` is `#version`, `content` and `origin` are the document and the version
inside it; they differ when a commit falls between `ReadVersion` and
`ReadDocument`. `job[p]` is the handler in progress: the documents it still has to
refresh (`#refresh` does reservations first), and the PUT it has to answer.
`base[c]` is a client's last answer, from whichever process; `Put` sends the
version in it. `Put` is the whole transaction; `Respond` comes after the refresh.
`ReadFails` is the `catch` of a refresh. `Restart` loses memory and may come back
with or without a store (`up`). Refused requests are stuttering steps.
`OwnWriteIsVisible` says that until something fails the answer to an accepted PUT
is that document or a later one.

### DirectivePush

One workload of one customer. `draft[g]` is the content `computeRankedList` would
return in gateway `g` now, changed freely by `Redraft`. `sched[g]` is the
scheduler's `WorkloadState`; time is a `Tick`, and `since` saturates at `Debounce`.
`conns` and `stream` are the two ends of a connection, which disagree between
`StreamBreaks` and `GatewaySeesClose`. `frames`, `polls` and `acks` are what is in
flight. `Pump`, `OpenStream`, `ServePoll` and `RecvAck` are whole handlers,
including the store calls that `#safe` lets fail (`StoreOutcomes`). Left out:
`delivery_mode` and the instants in the directive row; authentication; a second
connection of one connector to the same gateway.

### UnmetMachine

One workload with one stated dimension, success rate. `open` holds the windows in
flight, `summaries` the rows of `window_summary`. `job[p]` is a tick in progress,
one step per store call: `CloseDue`, `WriteSummary`, `ReadSummaries`, `ReadState`,
`CasWins`/`CasLoses`, `Reread`. `row` is the stored state, `mem[p]` what `#unmet`
shows, `folds` (history) every state that won, `seen[p]` how much of it `mem[p]`
reflects. `outbox`/`received` are notifications being delivered and those that
arrived; a lost answer leaves one in the outbox. `TickFails` is a throw out of
`tick`, `Restart` a new process that restores, or could not read the document.
Pruning happens in the step that reads. The code keeps a summary for three
windows because routing reads that far; the verdict reads one, and `Trailing` is
how many are kept. Two connectors' reports and in-path requests look the same
here: a `Record`.

### TargetDocument, Routing, Policy

Quantities are small integers; a `p95` and a cost are ceilings, a success rate a
floor. `Parses`, `ParseWorkload` and `Serialize` are the trip of a workload
through `document.ts`, including the undeclared priority, which is made by
reversing. `CheckFeasibility` is the optimistic floor of each dimension over the
allowed candidates, its staleness and its variance. `ChooseProvider` is every rule
of `evaluate`, `yieldableDimensions`, `pickMinimizer` and `boundByOf`; the number
of concessions is told by a minimum where the code has a loop. `Policy` has one
action per PUT and per round of the ranking; the snapshot being ranked is any
member of `Sightings` and `Lives`. Its properties are stated over `wire`, what the
customer wrote, never over the parsed form: `ListIsFailoverOrder` sorts by the
depth to which the customer's own order must give way, which nowhere occurs in
the code.

### Traffic

One process. `Arrive` is `routeWithFailOpen`, `Answered` the answer and the
outcome recorded for it, `Tick` and `TickFails` the timer with and without a store
that throws, `Replace` a new document. Windows and summaries carry an age in
ticks instead of an instant, so that the state space of an endless loop is finite.
Percentiles are taken of fewer than twenty samples, where `percentile` is the
largest. `p95`, cost and rate are merged per provider, below `SampleFloor` they
are `Unmeasured`.

### Connector, Usage

A call keeps the list it began with. Each way an attempt can end is an action,
among them the two that record nothing: `BodyBreaks`, where the headers have come
and the body breaks, and `StreamBreaks`. `RecordUsage` is `record` with the flush
it may cause; the place drawn by the reservoir sampling is any place. `since`
(history) is what was recorded since the last flush. `Push` is a list reaching the
connector, made of the reservations live at that instant; `HandleUsage` stores
(or fails to) and measures a batch; `Lose` is the send that fails, after which the
batch is gone. `ReservationStatus` is what the status resource reads of stored
calls. Left out: the cause `unaddressed.ts` names, token counts, retries of a
batch (there are none).

## 3. Runs

"States" are distinct states. All constants not named are model values or are in
the cfg and its MC module.

| Run | Instance | States | Question |
|---|---|---|---|
| `store_safety` | 2 processes, 2 clients, 2 documents, versions to 3, 1 fault | 254 k | lost updates, invented copies, the answer to a PUT, refinement |
| `store_live` | 2 processes, 1 client, both documents, versions to 2, 1 fault | 208 k | propagation of both documents; refinement for reservations |
| `push_safety` | 1 gateway, 1 connector, debounce 1, 3 changes, 1 fault of any kind | 526 k | versions, visibility, refinement |
| `push_live` | the same kind of instance, fair | 57 k | convergence over streams and, between them, polls |
| `unmet_safety` | 2 processes, 1 provider, floor of 2 windows' samples, clock to 3, 1 fault up to instant 1 | 1.7 M | two-window rule, one notifier, what a process shows, refinement |
| `policy` | 3 providers, some hundred workloads, every snapshot of `MCSightings` and `MCLives` | 210 k | hard dimensions, the order of a list, refusals, verdicts |
| `traffic` | 2 providers, 1 request slot, at most 1 request a tick, span 1, floor 2, 1 fault or change | 393 k | exploration ends and both candidates are tried, under the conditions below; a refusal ends |
| `usage` | 2 calls, 2 providers, 1 term and its renewal, buffers of 1, flush at 1 or 2 | 1.7 M | nothing is sent twice, counters, rates, utilisation |
| `push_swallow`, `policy_order`, `traffic_unknown`, `call_body` | the smallest instance that shows the disagreement | | findings, below |

Why the bounds are enough.

- *Store.* A lost update needs two writers and one version to fight over; a torn
  refresh one commit between two reads; three versions let a copy be two behind.
- *Push.* A reused version needs one publication, one restart and one more; a
  stale connector two lists and one lost frame; one debounce tick separates
  "suppressed" from "due".
- *Unmet.* With a floor of two samples and one request a window, a verdict needs
  the windows of both processes, and with one it is indeterminate. Two missed and
  two held windows need four folds; two processes reach them by time 3. `Trailing`
  is 1 (the verdict reads no further); a fault happens up to instant 1, by which
  the flag can be up, and is followed to the end.
- *Policy.* Three dimensions are all there are; two providers on one host in two
  regions and one on another separate every tie-break; a third provider is needed
  for an order. Floors are missing, met, missed within the variance and stale.
- *Traffic.* `Span` 1 and `MinRequests` 2 make the two closing conditions
  independent; `SampleFloor` 2 separates unmeasured from measured. At most
  one request starts between two ticks (`MaxLoad` 1; with more, liveness checking
  is out of reach), and the timer waits for none. A provider answers well, fails,
  or, the cheap one, refuses with a 4xx. `ExplorationEnds` and
  `EveryCandidateIsTried` name what they need. Both: one closed window is enough to
  measure (by default 200 requests against a floor of 20), the name is in the
  document, and a provider does not answer 4xx for good. The second also: routing
  is not forced to fail, one name with two candidates at most, and in the end a
  request between any two ticks. TLC finds a counterexample without the sufficient
  window, with 4xx for good, with ticks that see no request, and with four
  candidates.
- *Usage.* Buffers of one shed at once; flush settings of 1 and 2 give a reporter
  that never sheds and one that always does; two records suffice to be sent twice
  or be overtaken, two terms for a report that is late.

One fault already allows every single failure at every point; two failures in a row
mostly repeat states of a process that lost its memory.

Fairness. `TargetStore`: weak fairness of each process's steps, because a timer
polls and a synchronous handler ends. `DirectivePush`: the pump and poll timers
fire, the reconnect loop never ends (`while (!closed)`), a closed socket is
noticed, and what the network does not lose arrives. A stream that dies without
a sign at both ends is assumed to be noticed: the connector has no read timeout of
its own, so this is an assumption about TCP. `Traffic`: requests keep coming, an
upstream answers or fails (fetch has no timeout, so this is an assumption about
it), the timer fires (asked only of a timer that finds requests to account for).
Nothing is assumed of acknowledgements, faults or changes, nor of which answer a
provider gives. `UnmetMachine`, `Policy` and `Usage` state no liveness.

Deadlock checking is off where bounded counters end every behaviour (what must not
stop is stated as liveness), and on in `Policy`.

## 4. What disagrees with the docs and comments

Each of the first four is a `violation` run and a finding with its quotation.

1. `push_swallow`: a publication caused by a connect or a poll reaches that
   connector only; the others keep the old list although every later offer is
   "identical content".
2. `policy_order`: without a declared priority the dimension stated *first* yields
   first; `document.ts:129-130` says last. Two reversals cancel.
3. `traffic_unknown`: a name the document does not list is held to the default
   target, but its evidence is never merged, so it explores for ever and a hard
   dimension is never enforced for it.
4. `call_body`: a connection that breaks after the headers ends the call with
   providers untried and nothing recorded.

Seen with the same models, without a run of their own:

- *Store.* After a failed first refresh, GET answers 200 with a null document.
- *Push.* An unrecorded delivery followed by a restart reuses a version, and two
  gateways over a reliable store give one version to two lists: the properties of
  `push_safety` and their theorems are for one gateway with a store that does not
  fail. With two connectors the directive row, one per workload, reads as adopted
  while one of them is stale. A lost reply to the poll that follows a publication
  leaves a connector behind once it is on a stream again, which is why
  `push_live` has no failing polls.
- *Unmet.* Windows of two providers or processes that close apart are judged twice
  (the lookback is one window, inclusive). Counters discarded at restore are still
  in the store and folded on from there. A process that closes no window of its
  own shows a stale flag. A restart that cannot read the document does not restore
  the flag and does not try again.
- *Routing.* A decision without a provider also arises when nothing is allowed or
  when a dimension above the hard one is breached by all; the type's comment
  (`types.ts:309-311`) knows one reason. A success rate as *objective* is minimised
  like a price. With a reservation live, `judgeWindow` judges the observed cost and
  routing the reserved one, hence the guard of `JudgeAgreesWithRouting`. With a
  candidate nobody observed they disagree as well.
- *Traffic.* Evidence ages out after three windows, so with traffic slow enough, or
  with so many candidates that exploring them one after the other takes longer (four
  in the instance of `traffic` without faults, where three still get their turn),
  those later in id order may starve: exploration prefers the smallest unmeasured
  id. A 4xx counts for nothing, not even toward the sample floor, so a provider that
  answers nothing else (a revoked key) is explored for ever, where
  `chooseProvider.ts:353-356` calls exploration "bounded and self-terminating". A
  failed call costs 0, so a dead provider looks cheapest. Exploration lasts until
  the window closes and not for one sample floor (`chooseProvider.ts:354-356`). A
  workload removed from the document keeps its last observations.
- *Usage.* A call reported after its term has ended is priced at the public rate.
  A list older than a renewal is blamed on the call site. A drop counter is lost
  with its batch, and `strain_dropped` counts evidence the usage buffer still
  delivers. With the default sizes nothing is ever shed. `close` of the connector
  drops the buffer unsent. A stream that breaks is never recorded. Usage is stored
  for any caller's workload but measured for the gateway's own, and a batch that
  cannot be stored is measured all the same, so windows and usage may disagree.

Seen while reading: `pruneConnectorUsage` is never called although
`service.ts:582-583` relies on it; a busy store makes PUT answer 500 instead of
the 503 of `store.ts:67-69`; `stop` never calls `closeAll`, so the windows in
flight are lost.

## 5. Proofs

All theorems hold for every value of the constants that satisfies the named
assumptions, so for any number of processes, clients, connectors, calls, versions
and faults, any sizes, any documents, catalogues and observations. What is assumed
is what the code's types or parsers enforce: bounds are naturals and sizes positive
(`BoundsAssumption`, `ConnectorAssumption`, `TrafficAssumption`, ...); a written
workload is a JSON object, so it states no dimension twice (`WiresAssumption`, and
`DocumentsAssumption` for one that was parsed); the provider fleet is finite, what
is observed is a number or absent and a reservation has an id and a rate
(`SnapshotAssumption`); floors carry numbers (`FloorsAssumption`). TLC evaluates
each of them on the instances it checks.

**TargetStore.** `TypeCorrect` by cases on `Next`. `NoLostUpdate` is not inductive:
a PUT carries the version of the client's last answer, which came from some
process's memory, which came from a refresh in progress. The invariant therefore
adds that the row is the head of the log, that every copy, in `mem` and in `base`,
is `Recorded` (content is what the log has at `origin`, and `version <= origin`),
that a refresh in progress has `seen` no newer than the row, and that the document
a PUT has to answer is in the log. If the compare succeeds, `version` is the head,
hence `origin` is, hence the new entry's basis is its predecessor.
`TargetsRefine` maps `log` and `mem` to the abstract history and view and shows
each step to be a write, an observation, a forgetting or a stutter;
`ReservationsRefine` does the same for the other document from one generic lemma
about a resource (`ResourceStep`), whose mapping the two share. `OwnWriteVisible`
is an action property. It needs `AnswersInHand`: while nothing fails, a process that
owes an answer either has still to refresh that document or already has the entry it
wrote or a later one, because a refresh that follows the write reads at least that.

**DirectivePush.** `TypeCorrect` for every instance, failing stores included.
`VersionsNameOneList`, `NextVersionsAreFresh` and `FeedRefinement` assume `OneReliableGateway`: one gateway and `StoreOutcomes = {TRUE}`;
TLC refutes them without either. The invariant ties `sched.issued`, the published
list, the directive row and `sent` together: everything sent has a version at most
the larger of the row and `issued`, the published list is the only one with its
version, and what is in flight or held was sent. `FeedRefinement` then reads each
publication as `Publish` and each adoption as `Adopt` or a stutter.
`StaleIsVisible` needs neither half, but one connector, because the row is one for
all of a customer's: `AckInv` says that what the connector holds is at least every
acknowledgement, in flight or recorded, whatever the order they arrive in.

**UnmetMachine.** `TypeCorrect` rests on `TypeInv`, which adds that no tick comes to
its compare-and-set before it has a verdict. `NotifiedByOne`: what is in an outbox
is a transition that process itself stored. `TwoWindows` needs `RuleInv`: the
streaks in `row` are those of the last determinate verdicts of `folds`
(`Reflects`), so that folding one more verdict changes the flag exactly when the
abstract rule does. A compare-and-set that wins compared against the very row it
folded from, which is what makes the fold one step of the history, whatever the
other processes did since the read. `RecordRefinement` shows a win to be `Record`,
a reread or a restart an `Observe` or a `Forget`, everything else a stutter; what a
process shows is by `RuleInv` the flag of a point of the history.

**Usage.** `TypeCorrect` and `SentOnce` rest on `Inv`. Its `Buffers` part says that
the reporter is empty when its usage buffer is, so that a batch is never empty. Its
`Ledger` says that every record in the buffers, in a batch, stored or measured is
in one of these places only (`OnePlace`), and that the call it belongs to has moved
past the place it was recorded at (`Past`); what is recorded next is therefore new,
although it enters two buffers. `RecordUsageKeeps` and `Moves` carry this through
the shedding of either buffer and through a flush. `DropsCounted` needs `Latest`
and `Tallied`: position by position the usage buffer is the tail of the history,
and the sample with its counter counts the evidence in it, which a reservoir that
replaces a record leaves unchanged. `RateIsEarned` follows a reservation from the
list it was put on (`Push`), through the call that began with that list and the
batch it was reported in, to the record that is priced: every entry anywhere names a
declared reservation its provider addresses, or none. `UtilizationExact` uses the
same fact from the other side: a stored call that asked for a reservation can have
reached it.

**Routing and Policy.** `Routing_proofs` has what the seam computes on one
snapshot: a parsed workload concedes the reverse of its priority
(`ConcessionIsReverse`) up to right before the hard dimension (`YieldableIs`); among
any survivors, finite or not, one beats all others (`MinimizerIs`); conceding stops
at the first round somebody survives (`ConcededIs`); nothing is named as binding
only when no active dimension eliminated anybody (`BoundByIs`). These make the
`CHOOSE` of each definition a fact about what it chooses. In `Policy_proofs`,
`Kinds` is the inductive invariant: what is in force is the parse of what was
written (`ParsedIs`: two reversals, and an order without repetition because a
priority enumerates the stated dimensions), and offered and listed providers
partition the fleet. On it rest

- `HardKept`: the hard dimension is active in every round, and a survivor holds it;
- `FailoverOrder`. Survival in round *k* is "allowed, and no deeper than *k*"
  (`SurvivorsByDepth`), tolerable is "allowed, and no deeper than the last round"
  (`TolerableIs`), hence a round's survivors are the tolerable providers of least
  depth (`RestIs`) and its winner precedes all that is tolerable and still offered
  (`WinnerIsFirst`). The property is not inductive: `FailoverSoFar` adds that
  every listed provider is tolerable and precedes every tolerable one on offer, and
  that a finished ranking leaves nothing tolerable;
- `UnboundUnconstrained` from the first round (`FirstChoice`), `JudgeAgrees` from
  the equality of the two judgements without reservations;
- `RefusedOutOfReach`: a best floor exists (`SomeFloorIsBest`, which bounds the
  catalogue's values) and no trusted floor beats it, so a target it refuses by more
  than its variance is held by none.

**Traffic.** `TypeCorrect` closes the feedback loop: routing returns a provider of
the fleet because what it compares are numbers (`RouteIs`), and what it compares are
numbers because windows count no more successes than requests (`RecordedIs`), which
summaries, totals and shares keep (`TotalsCompare`, `MergeIs`). A total is a recursive
function over ages; that its recursion has a solution, and that sums keep the order
of their terms, is proved in `NumberLemmas`.

Induction is done without the library's induction theorems, which take the statement
as an operator: `LeastNatural` gives the least number a statement fails at, and the
step before it refutes it. What a handler filters out of a sequence is written with
positions (`Sieve`, `LiveReservations`, `FloorsFor`), not with `SelectSeq`, whose
operator parameter no backend can see through.

Every safety property a passing run checks, invariant, action property or refinement,
is a theorem. Only model-checked are the liveness properties `Propagates`,
`Converges`, `ExplorationEnds`, `EveryCandidateIsTried` and `RefusalsEnd`: liveness under fairness and
`ENABLED` are out of the prover's reach. The theorems of `DirectivePush` marked
above hold for one gateway, or one connector, and not beyond (section 4). That the
percentile of a window is the largest of its samples is a modelling step (fewer than
twenty of them), not a theorem.

## 6. Not modelled

- Tokens: minting, authentication and revocation. A connection is of a customer.
- The backoff and the deadline of the notifier and its signature; who notifies and
  what is sent again is in `UnmetMachine`.
- The JSON validation of a reservation document; its row is in `TargetStore`, its
  terms are in `Usage`.
- The wording of reports, rejections and diagnoses, the decision receipt, headers,
  token counts and SSE framing.
- `delivery_mode` and the instants of the directive row.
- Configuration (environment variables read once; here CONSTANTS).
- `gateway/src/dev`: simulators, load scripts and probes, a fifth of the lines.

What could follow: a composition of `Policy` and `DirectivePush`, in which the
draft is a computed list and not a free choice; two workloads in `Traffic`; the
notifier's deadline.
