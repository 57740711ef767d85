------------------------------- MODULE Traffic -------------------------------
(***************************************************************************)
(* The data path and the measurement loop it feeds, in one process: a      *)
(* request is routed on the observations in memory, forwarded, answered,   *)
(* and recorded in the window of its provider (server.ts, routing/stats.ts *)
(* record); the timer closes windows, stores their summaries, and merges   *)
(* the trailing ones into new observations (targets/service.ts tick).      *)
(* Routing decides what is measured, and the measurements decide routing.  *)
(*                                                                         *)
(* Time is the number of ticks.  Evidence is kept with its age, so that    *)
(* the state stays finite although the loop runs for ever.                 *)
(***************************************************************************)
EXTENDS Routing, FiniteSetsExt

CONSTANTS
  Names,             \* the workload names requests carry
  DefaultName,       \* the name whose target others fall back to
  Documents,         \* the documents that may be in force: names to workloads
  Requests,          \* request slots
  Upstream,          \* the answers each provider, or DefaultProvider, may give
  DefaultProvider,   \* where a request fails open to
  Settings,          \* the values of FORCE_ROUTER_ERROR, which makes routing throw
  Span,              \* ticks a window must span
  MinRequests,       \* requests a window must count
  SampleFloor,       \* requests a provider must have to be measured
  MaxLoad,           \* bound on the requests that start between two ticks
  MaxFaults          \* store failures, restarts and changes of document

ASSUME TrafficAssumption ==
  /\ DefaultProvider \in Nat \ Providers
  /\ {Span, MinRequests, SampleFloor} \subseteq Nat \ {0}
  /\ {MaxLoad, MaxFaults, Whole} \subseteq Nat
  /\ IsFiniteSet(Names) /\ IsFiniteSet(Providers)
  /\ \A p \in Providers \union {DefaultProvider} :
       \A outcome \in Upstream[p] : {outcome.latency, outcome.cost} \subseteq Nat

(* What is in force was parsed.                                            *)
ASSUME DocumentsAssumption ==
  \A written \in Documents : \A name \in DOMAIN written :
    LET w == written[name]
    IN /\ w.declared \in Seq(DimensionNames) /\ w.priority \in Seq(DimensionNames)
       /\ ValidPriority(w.priority, w.declared)
       /\ w.objective \in DimensionNames \union {None}

VARIABLES
  forced,    \* the setting of this process
  document,  \* the document in force
  req,       \* the requests in flight
  open,      \* the open window of each name and provider, or NoWindow
  rows,      \* the stored window summaries
  observed,  \* the merged observations of each name, in memory
  load,      \* requests started since the last tick
  faults

vars == <<forced, document, req, open, rows, observed, load, faults>>

Idle == [phase |-> "idle"]
NoWindow == [n |-> 0]
Upstreams == Providers \union {DefaultProvider}
NoWindows == [name \in Names |-> [p \in Upstreams |-> NoWindow]]
Lookback == 3 * Span

(* An unknown name has the target of the default workload, if there is one.*)
WorkloadOf(name) ==
  IF name \in DOMAIN document THEN document[name]
  ELSE IF DefaultName \in DOMAIN document THEN document[DefaultName]
  ELSE NoTarget

ProviderState(name) == [workload |-> WorkloadOf(name), seen |-> observed[name], live |-> << >>]

Init ==
  /\ forced \in Settings /\ document \in Documents
  /\ req = [r \in Requests |-> Idle]
  /\ open = NoWindows
  /\ rows = {}
  /\ observed = [name \in Names |-> << >>]
  /\ load = 0 /\ faults = 0

-----------------------------------------------------------------------------
(* Where a request goes.  Routing that breaks forwards it all the same;    *)
(* routing that refuses does not.                                          *)
RouteWithFailOpen(name) ==
  LET decision == ChooseProvider(Providers, ProviderState(name))
  IN IF forced THEN [phase |-> "forwarded", name |-> name, to |-> DefaultProvider, age |-> 0]
     ELSE IF decision.refused THEN [phase |-> "refused"]
     ELSE [phase |-> "forwarded", name |-> name, to |-> decision.provider, age |-> 0]

Arrive(r, name) ==
  /\ req[r].phase # "forwarded" /\ load < MaxLoad
  /\ req' = [req EXCEPT ![r] = RouteWithFailOpen(name)]
  /\ load' = load + 1
  /\ UNCHANGED <<forced, document, open, rows, observed, faults>>

(* The window of a pair after one outcome.  It opens when its first        *)
(* recorded request started.                                               *)
Recorded(window, outcome, age) ==
  LET kind == ClassifyStatus(outcome.status)
      old == IF window = NoWindow THEN [n |-> 0, ok |-> 0, p95 |-> 0, cost |-> 0, age |-> age] ELSE window
  IN IF kind.malformed THEN window
     ELSE [n    |-> old.n + 1,
           ok   |-> old.ok + (IF kind.success THEN 1 ELSE 0),
           p95  |-> Max({old.p95, outcome.latency}),
           cost |-> old.cost + outcome.cost,
           age  |-> old.age]

(* The provider answers, or cannot be reached: status 0, no cost, a 502.   *)
AnsweredWith(r, outcome) ==
  /\ req[r].phase = "forwarded"
  /\ open' = [open EXCEPT ![req[r].name][req[r].to] = Recorded(@, outcome, req[r].age)]
  /\ req' = [req EXCEPT ![r] = Idle]
  /\ UNCHANGED <<forced, document, rows, observed, load, faults>>

Answered(r) ==
  /\ req[r].phase = "forwarded"
  /\ \E outcome \in Upstream[req[r].to] : AnsweredWith(r, outcome)

-----------------------------------------------------------------------------
(* Mutant: whichever condition holds first closes the window.              *)
DueEarly == {d \in Names \X Upstreams :
               LET w == open[d[1]][d[2]]
               IN w # NoWindow /\ (w.age + 1 >= Span \/ w.n >= MinRequests)}

(* A window closes once it spans enough time and counts enough requests.   *)
Due == {d \in Names \X Upstreams :
          LET w == open[d[1]][d[2]]
          IN w # NoWindow /\ w.age + 1 >= Span /\ w.n >= MinRequests}

Summary(name, p) ==
  LET w == open[name][p]
  IN [name |-> name, provider |-> p, n |-> w.n, ok |-> w.ok, p95 |-> w.p95, cost |-> w.cost, age |-> 0]

(* Mutant: what is closed with too few requests is thrown away.            *)
StillOpenIfYoung ==
  [name \in Names |-> [p \in Upstreams |->
     IF open[name][p] = NoWindow \/ open[name][p].age + 1 >= Span THEN NoWindow
     ELSE [open[name][p] EXCEPT !.age = Min({@ + 1, Span})]]]

(* What CloseDue leaves open, one tick later.                              *)
StillOpen ==
  [name \in Names |-> [p \in Upstreams |->
     IF open[name][p] = NoWindow \/ <<name, p>> \in Due THEN NoWindow
     ELSE [open[name][p] EXCEPT !.age = Min({@ + 1, Span})]]]

Older == {[row EXCEPT !.age = @ + 1] : row \in rows}

(* Mutant: nothing is ever too old to be read.                             *)
WithinEver(stored) == {[row EXCEPT !.age = Min({@, Lookback})] : row \in stored}

(* What is read and what is left once the rest is pruned.                  *)
Within(stored) == {row \in stored : row.age <= Lookback}

Total(summaries, field) ==
  LET upTo[age \in -1..Lookback] ==
        IF age < 0 THEN 0
        ELSE upTo[age - 1] + (LET now == {row \in summaries : row.age = age}
                              IN IF now = {} THEN 0 ELSE (CHOOSE row \in now : TRUE)[field])
  IN upTo[Lookback]

(* One observation per provider with a summary; below the floor it has no  *)
(* value in any dimension.  Under twenty samples the p95 is the largest.   *)
MergeObservations(summaries) ==
  LET of(p) == {row \in summaries : row.provider = p}
      n(p) == Total(of(p), "n")
      measured(p, value) == IF n(p) < SampleFloor THEN Unmeasured ELSE value
  IN [p \in {row.provider : row \in summaries} |->
        [p95_ms |-> measured(p, Max({row.p95 : row \in of(p)})),
         cost_per_1k_tokens_usd |-> measured(p, Total(of(p), "cost") \div n(p)),
         success_rate |-> measured(p, (Whole * Total(of(p), "ok")) \div n(p))]]

(* Requests in flight are a tick older.                                    *)
Elapsed == [r \in Requests |->
              IF req[r].phase = "forwarded" THEN [req[r] EXCEPT !.age = Min({@ + 1, Span})] ELSE req[r]]

(* The timer's work, when every store call succeeds.                       *)
Tick ==
  /\ open' = StillOpen
  /\ \E stored \in {Within(Older \union {Summary(d[1], d[2]) : d \in Due})} :
       /\ rows' = stored
       /\ observed' = [name \in Names |->
                         IF name \in DOMAIN document
                         THEN MergeObservations({row \in stored : row.name = name})
                         ELSE observed[name]]
  /\ req' = Elapsed
  /\ load' = 0
  /\ UNCHANGED <<forced, document, faults>>

(* A store call throws: the windows are closed, some of their summaries    *)
(* are written, and the observations stay as they were.                    *)
TickFails ==
  /\ faults < MaxFaults
  /\ open' = StillOpen
  /\ \E written \in SUBSET Due :
       rows' = {row \in Older : row.age <= Lookback + 1}
                 \union {Summary(d[1], d[2]) : d \in written}
  /\ req' = Elapsed
  /\ load' = 0
  /\ faults' = faults + 1
  /\ UNCHANGED <<forced, document, observed>>

(* The process dies with its windows, its observations and its requests.   *)
Restart ==
  /\ faults < MaxFaults
  /\ req' = [r \in Requests |-> Idle]
  /\ open' = NoWindows
  /\ observed' = [name \in Names |-> << >>]
  /\ faults' = faults + 1
  /\ UNCHANGED <<forced, document, rows, load>>

(* Another document comes into force; the observations stay.               *)
Replace ==
  /\ faults < MaxFaults
  /\ document' \in Documents \ {document}
  /\ faults' = faults + 1
  /\ UNCHANGED <<forced, req, open, rows, observed, load>>

Next ==
  \/ \E r \in Requests, name \in Names : Arrive(r, name)
  \/ \E r \in Requests : Answered(r)
  \/ Tick
  \/ TickFails
  \/ Restart
  \/ Replace

Spec == Init /\ [][Next]_vars

(* Requests keep coming, upstreams answer or fail, and the timer fires (it *)
(* is enough to say so of a timer that finds requests to account for).     *)
(* Each is told by what it alone does to load and req, so that TLC need    *)
(* not evaluate a whole handler to see that it is enabled.                 *)
Starts == load < MaxLoad /\ load' = load + 1
Ends(r) == req[r].phase = "forwarded" /\ req' = [req EXCEPT ![r] = Idle]
Ticks == load' = 0

FairSpec ==
  /\ Spec
  /\ WF_load(Starts)
  /\ \A r \in Requests : WF_req(Ends(r))
  /\ WF_load(Ticks)

-----------------------------------------------------------------------------
(* The kinds of value each variable holds (the whole module).              *)
TypeOK ==
  /\ forced \in Settings /\ document \in Documents
  /\ \A r \in Requests :
       \/ req[r] \in {Idle, [phase |-> "refused"]}
       \/ req[r].name \in Names /\ req[r].to \in Upstreams /\ req[r].age \in 0..Span
  /\ \A name \in Names, p \in Upstreams :
       open[name][p] = NoWindow \/ (open[name][p].ok <= open[name][p].n /\ open[name][p].age \in 0..Span)
  /\ \A row \in rows : row.n >= MinRequests /\ row.age \in 0..(Lookback + 1)
  /\ \A name \in Names : \A p \in DOMAIN observed[name] : observed[name][p].success_rate \in {Unmeasured} \union 0..Whole
  /\ load \in 0..MaxLoad /\ faults \in 0..MaxFaults

(* The provider answers, or fails, on its own account: an answer that is   *)
(* not a 4xx put down to the caller.                                       *)
AnswersForItself(name, p) ==
  \E r \in Requests, outcome \in Upstream[p] :
    /\ req[r].phase = "forwarded" /\ req[r].name = name /\ req[r].to = p
    /\ outcome.status \notin (400..499) \ {429}
    /\ AnsweredWith(r, outcome)

(* A provider that keeps giving such answers is measured again and again,  *)
(* however slow the traffic and whatever is lost on the way: what is tried *)
(* for want of evidence comes to yield some (record, closeDue, tick).  For *)
(* a name the document lists, when one closed window is enough to measure. *)
ExplorationEnds ==
  SampleFloor <= MinRequests =>
    \A name \in Names, p \in Providers :
      /\ [](name \in DOMAIN document)
      /\ []<><<AnswersForItself(name, p)>>_vars
      => []<>(ObservedFor(Cost, p, ProviderState(name)) # Unmeasured)

Tried(name, p) ==
  \E r \in Requests : req[r].phase = "forwarded" /\ req[r].name = name /\ req[r].to = p

(* One workload, with two candidates, which one closed window can measure. *)
TwoCandidates(name) ==
  /\ Names = {name} /\ Cardinality(Providers) <= 2 /\ SampleFloor <= MinRequests
  /\ \A written \in Documents :
       name \in DOMAIN written /\ \A p \in Providers : ProviderMatchesAllowed(p, written[name].allowed)

(* Between two candidates, either is tried again and again, so that the    *)
(* loop of never chosen, never measured, never chosen does not close       *)
(* (pickMinimizer with tick), provided that routing works, that in the end *)
(* no tick goes by without a request (or all evidence may be gone before   *)
(* the next one comes), and that a provider which keeps being tried keeps  *)
(* giving some answers on its own account.                                 *)
EveryCandidateIsTried ==
  \A name \in Names :
    /\ ~forced /\ TwoCandidates(name)
    /\ <>[][load = 0 => ~Tick]_vars
    /\ \A p \in Providers : []<>Tried(name, p) => []<><<AnswersForItself(name, p)>>_vars
    => \A p \in Providers : []<>Tried(name, p)

(* A refusal on a hard dimension is not for ever: without traffic the      *)
(* evidence that convicted the last provider ages out and requests are     *)
(* forwarded again (routeWithFailOpen, pruneWindowSummaries).              *)
RefusalsEnd ==
  (\E r \in Requests : req[r].phase = "refused") ~> (\E r \in Requests : req[r].phase = "forwarded")

-----------------------------------------------------------------------------
(* Stated by the code, and not so.                                         *)

(* "What routing and the status resource report is a trailing measurement" *)
(* (service.ts tick): while nothing fails, what routing reads for a name   *)
(* that has a target is what the last windows of that name merge to.       *)
EvidenceIsTrailing ==
  \A name \in Names :
    faults = 0 /\ WorkloadOf(name) # NoTarget =>
      observed[name] = MergeObservations({row \in rows : row.name = name})
=============================================================================
