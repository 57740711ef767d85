---------------------------- MODULE Traffic_proofs ----------------------------
(***************************************************************************)
(* Proofs about the data path and the measurements it feeds, for any       *)
(* names, providers, documents, answers and bounds: whatever a window      *)
(* counts and whatever is merged from the stored ones is a measurement the *)
(* routing seam can compare, and a request is forwarded to a provider.     *)
(***************************************************************************)
EXTENDS Traffic, Routing_proofs

Refused == [phase |-> "refused"]

Asking == [phase : {"forwarded"}, name : Names, to : Upstreams, age : 0..Span]

(* An open window, and the summary of a closed one: never more successes   *)
(* than requests.                                                          *)
Counts ==
  {w \in [n : Nat, ok : Nat, p95 : Nat, cost : Nat, age : 0..Span] : w.ok <= w.n}

Summaries ==
  {row \in [name : Names, provider : Upstreams, n : Nat, ok : Nat, p95 : Nat, cost : Nat,
            age : 0..(Lookback + 1)] : row.ok <= row.n /\ row.n >= MinRequests}

IsMeasurement(o) ==
  /\ \A d \in DimensionNames : o[d] \in Nat \cup {Unmeasured}
  /\ o["success_rate"] \in {Unmeasured} \cup 0..Whole

Kinds ==
  /\ forced \in Settings /\ document \in Documents
  /\ req \in [Requests -> {Idle, Refused} \cup Asking]
  /\ open \in [Names -> [Upstreams -> {NoWindow} \cup Counts]]
  /\ rows \subseteq Summaries /\ IsFiniteSet(rows)
  /\ \A name \in Names : \A p \in DOMAIN observed[name] : IsMeasurement(observed[name][p])
  /\ load \in 0..MaxLoad /\ faults \in 0..MaxFaults

LEMMA BoundsAre ==
  /\ Span \in Nat /\ Span >= 1 /\ MinRequests \in Nat /\ SampleFloor \in Nat /\ SampleFloor >= 1
  /\ MaxLoad \in Nat /\ MaxFaults \in Nat /\ Whole \in Nat
  /\ Lookback \in Nat
  /\ IsFiniteSet(Names) /\ IsFiniteSet(Upstreams)
<1>1. /\ Span \in Nat /\ Span >= 1 /\ MinRequests \in Nat /\ SampleFloor \in Nat /\ SampleFloor >= 1
      /\ MaxLoad \in Nat /\ MaxFaults \in Nat /\ Whole \in Nat
      /\ IsFiniteSet(Names) /\ IsFiniteSet(Providers)
  BY TrafficAssumption
<1>2. IsFiniteSet(Upstreams)
  BY <1>1, FS_Singleton, FS_Union DEF Upstreams
<1> QED
  BY <1>1, <1>2 DEF Lookback

LEMMA MaxIs ==
  ASSUME NEW T, T \subseteq Nat, T # {}, IsFiniteSet(T)
  PROVE  Max(T) \in Nat
BY FiniteHasGreatest DEF Max

LEMMA MaxOfTwo ==
  ASSUME NEW a \in Nat, NEW b \in Nat
  PROVE  Max({a, b}) \in Nat
<1>1. \E x \in {a, b} : \A y \in {a, b} : x >= y
  OBVIOUS
<1> QED
  BY <1>1 DEF Max

LEMMA OneOlder ==
  ASSUME NEW age \in 0..Span
  PROVE  Min({age + 1, Span}) \in 0..Span
<1>1. Span \in Nat /\ \E x \in {age + 1, Span} : \A y \in {age + 1, Span} : x <= y
  BY BoundsAre
<1>2. Min({age + 1, Span}) \in {age + 1, Span} /\ Min({age + 1, Span}) <= Span
  BY <1>1 DEF Min
<1> QED
  BY <1>1, <1>2

-----------------------------------------------------------------------------
(* Routing and recording.                                                  *)

(* A request is forwarded to a provider, or refused.                       *)
LEMMA RouteIs ==
  ASSUME Kinds, NEW name \in Names
  PROVE  RouteWithFailOpen(name) \in {Refused} \cup Asking
<1> DEFINE S == ProviderState(name)
           decision == ChooseProvider(Providers, S)
           rest == Survivors(Providers, S, Conceded(Providers, S))
<1>1. S.workload = WorkloadOf(name) /\ S.seen = observed[name] /\ S.live = << >>
  BY DEF ProviderState
<1>2. Ordered(S.workload)
  <2>1. ASSUME NEW other \in DOMAIN document PROVE Ordered(document[other])
    BY DocumentsAssumption DEF Kinds, Ordered, ValidPriority, Stated
  <2> QED
    BY <1>1, <2>1, NoTargetIsOrdered DEF WorkloadOf
<1>3. Quantified(S)
  <2>1. \A p : ~Reserved(p, S)
    BY <1>1 DEF Reserved, ReservationFor, NoReservation
  <2> QED
    BY <1>1, <2>1 DEF Kinds, Quantified, EffectiveObserved, ObservedFor, IsMeasurement
<1>4. rest \subseteq Providers
  BY DEF Survivors, Candidates
<1>5. decision.refused = (rest = {}) /\ (rest # {} => decision.provider = Minimizer(rest, S))
  BY DEF ChooseProvider
<1> HIDE DEF S, rest
<1>6. ~decision.refused => decision.provider \in Upstreams
  BY <1>2, <1>3, <1>4, <1>5, MinimizerIs DEF Upstreams
<1>7. DefaultProvider \in Upstreams /\ 0 \in 0..Span
  BY BoundsAre DEF Upstreams
<1> QED
  BY <1>6, <1>7 DEF RouteWithFailOpen, Refused, Asking, S

(* A window counts no more successes than requests.                        *)
LEMMA RecordedIs ==
  ASSUME NEW window \in {NoWindow} \cup Counts, NEW p \in Upstreams, NEW outcome \in Upstream[p],
         NEW age \in 0..Span
  PROVE  Recorded(window, outcome, age) \in {NoWindow} \cup Counts
<1> DEFINE kind == ClassifyStatus(outcome.status)
           fresh == [n |-> 0, ok |-> 0, p95 |-> 0, cost |-> 0, age |-> age]
           old == IF window = NoWindow THEN fresh ELSE window
           most == Max({old.p95, outcome.latency})
           new == [n |-> old.n + 1, ok |-> old.ok + (IF kind.success THEN 1 ELSE 0),
                   p95 |-> most, cost |-> old.cost + outcome.cost, age |-> old.age]
<1>1. outcome.latency \in Nat /\ outcome.cost \in Nat
  BY TrafficAssumption DEF Upstreams
<1>2. old \in Counts
  BY DEF Counts
<1>3. /\ old.n \in Nat /\ old.ok \in Nat /\ old.p95 \in Nat /\ old.cost \in Nat /\ old.age \in 0..Span
      /\ old.ok <= old.n
  BY <1>2 DEF Counts
<1>4. Recorded(window, outcome, age) = IF kind.malformed THEN window ELSE new
  BY DEF Recorded
<1> HIDE DEF kind, old
<1>5. most \in Nat
  BY <1>1, <1>3, MaxOfTwo
<1> HIDE DEF most
<1>6. new \in Counts
  BY <1>1, <1>3, <1>5 DEF Counts
<1> QED
  BY <1>4, <1>6

-----------------------------------------------------------------------------
(* A tick.                                                                 *)
LEMMA StillOpenIs ==
  ASSUME Kinds
  PROVE  StillOpen \in [Names -> [Upstreams -> {NoWindow} \cup Counts]]
<1>1. ASSUME NEW w \in Counts
      PROVE  [w EXCEPT !.age = Min({@ + 1, Span})] \in Counts
  <2>1. w.age \in 0..Span
    BY DEF Counts
  <2>2. Min({w.age + 1, Span}) \in 0..Span
    BY <2>1, OneOlder
  <2> DEFINE older == Min({w.age + 1, Span})
  <2> HIDE DEF older
  <2>3. [w EXCEPT !.age = older] \in Counts
    BY <2>2 DEF Counts, older
  <2> QED
    BY <2>3 DEF older
<1>2. ASSUME NEW name \in Names, NEW p \in Upstreams
      PROVE  (IF open[name][p] = NoWindow \/ <<name, p>> \in Due THEN NoWindow
              ELSE [open[name][p] EXCEPT !.age = Min({@ + 1, Span})]) \in {NoWindow} \cup Counts
  BY <1>1 DEF Kinds
<1> QED
  BY <1>2 DEF StillOpen

(* What a closed window is stored as.                                      *)
LEMMA ClosedIs ==
  ASSUME Kinds
  PROVE  /\ IsFiniteSet(Due)
         /\ \A d \in Due : Summary(d[1], d[2]) \in Summaries /\ Summary(d[1], d[2]).age = 0
<1>1. IsFiniteSet(Due)
  BY BoundsAre, FS_Product, FS_Subset DEF Due
<1>2. ASSUME NEW d \in Due
      PROVE  Summary(d[1], d[2]) \in Summaries /\ Summary(d[1], d[2]).age = 0
  <2> DEFINE w == open[d[1]][d[2]]
  <2>1. d[1] \in Names /\ d[2] \in Upstreams /\ w # NoWindow /\ w.n >= MinRequests
    BY DEF Due
  <2>2. w \in Counts
    BY <2>1 DEF Kinds
  <2>3. 0 \in 0..(Lookback + 1)
    BY BoundsAre
  <2>4. Summary(d[1], d[2]) = [name |-> d[1], provider |-> d[2], n |-> w.n, ok |-> w.ok,
                               p95 |-> w.p95, cost |-> w.cost, age |-> 0]
    BY DEF Summary
  <2> HIDE DEF w
  <2> QED
    BY <2>1, <2>2, <2>3, <2>4 DEF Counts, Summaries
<1> QED
  BY <1>1, <1>2

LEMMA SummariesOf ==
  ASSUME Kinds, NEW D, D \subseteq Due
  PROVE  LET stored == {Summary(d[1], d[2]) : d \in D}
         IN  stored \subseteq Summaries /\ IsFiniteSet(stored) /\ \A row \in stored : row.age = 0
<1> DEFINE stored == {Summary(d[1], d[2]) : d \in D}
           f == [d \in D |-> Summary(d[1], d[2])]
<1>1. f \in Surjection(D, stored)
  BY DEF Surjection
<1>2. IsFiniteSet(D)
  BY ClosedIs, FS_Subset
<1>3. IsFiniteSet(stored)
  <2> HIDE DEF f, stored
  <2> QED
    BY <1>1, <1>2, FS_Surjection
<1> QED
  BY <1>3, ClosedIs

LEMMA OlderIs ==
  ASSUME Kinds
  PROVE  /\ IsFiniteSet(Older)
         /\ \A row \in Older : row.age \in Nat /\ (row.age <= Lookback + 1 => row \in Summaries)
<1> DEFINE f == [row \in rows |-> [row EXCEPT !.age = @ + 1]]
<1>1. f \in Surjection(rows, Older)
  BY DEF Surjection, Older
<1>2. IsFiniteSet(Older)
  <2> HIDE DEF f
  <2> QED
    BY <1>1, FS_Surjection DEF Kinds
<1>3. ASSUME NEW old \in rows
      PROVE  LET row == [old EXCEPT !.age = @ + 1]
             IN  row.age \in Nat /\ (row.age <= Lookback + 1 => row \in Summaries)
  <2>1. old \in Summaries /\ Lookback \in Nat
    BY BoundsAre DEF Kinds
  <2> QED
    BY <2>1 DEF Summaries
<1> QED
  BY <1>2, <1>3 DEF Older
-----------------------------------------------------------------------------
(* Merging the stored windows.                                             *)

(* What one age adds to a total.                                           *)
Term(summaries, field, age) ==
  LET now == {row \in summaries : row.age = age}
  IN IF now = {} THEN 0 ELSE (CHOOSE row \in now : TRUE)[field]

(* A total adds what each age has, from the newest to the oldest read.     *)
LEMMA TotalIs ==
  ASSUME NEW T, NEW field
  PROVE  \E g : /\ Total(T, field) = g[Lookback]
                /\ Adds(g, [a \in 0..Lookback |-> Term(T, field, a)], Lookback)
<1> DEFINE n == Lookback
           t == [a \in 0..n |-> Term(T, field, a)]
           Sums(g) == g = [age \in -1..n |-> IF age < 0 THEN 0 ELSE g[age - 1] + Term(T, field, age)]
           upTo == CHOOSE g : Sums(g)
<1>1. Total(T, field) = upTo[n]
  BY DEF Total, Term
<1>2. n \in Nat
  BY BoundsAre
<1> HIDE DEF n
<1>3. PICK g : g = [a \in -1..n |-> IF a < 0 THEN 0 ELSE g[a - 1] + t[a]]
  <2> HIDE DEF t
  <2> QED
    BY <1>2, RunningSumExists
<1>4. \A a \in -1..n : a < 0 \/ (a \in 0..n /\ t[a] = Term(T, field, a))
  BY <1>2
<1> HIDE DEF t
<1>5. Sums(g)
  <2>1. [a \in -1..n |-> IF a < 0 THEN 0 ELSE g[a - 1] + t[a]]
          = [a \in -1..n |-> IF a < 0 THEN 0 ELSE g[a - 1] + Term(T, field, a)]
    BY <1>4
  <2> QED
    BY <1>3, <2>1
<1>6. Sums(upTo)
  BY <1>5
<1> HIDE DEF upTo
<1>7. upTo[-1] = 0
  <2>1. -1 \in -1..n /\ -1 < 0
    BY <1>2
  <2> QED
    BY <1>6, <2>1
<1>8. \A a \in 0..n : upTo[a] = upTo[a - 1] + t[a]
  <2>1. \A a \in 0..n : a \in -1..n /\ ~(a < 0)
    BY <1>2
  <2> QED
    BY <1>4, <1>6, <2>1
<1>9. Adds(upTo, t, n)
  BY <1>7, <1>8 DEF Adds
<1> QED
  BY <1>1, <1>9 DEF t, n

(* The totals of some summaries are numbers, and no more requests          *)
(* succeeded than were counted.                                            *)
LEMMA TotalsCompare ==
  ASSUME NEW T, T \subseteq Summaries
  PROVE  /\ Total(T, "n") \in Nat /\ Total(T, "ok") \in Nat /\ Total(T, "cost") \in Nat
         /\ Total(T, "ok") <= Total(T, "n")
<1> DEFINE n == Lookback
           t(field) == [a \in 0..n |-> Term(T, field, a)]
<1>1. n \in Nat
  BY BoundsAre
<1>2. ASSUME NEW a \in 0..n
      PROVE  /\ Term(T, "n", a) \in Nat /\ Term(T, "ok", a) \in Nat /\ Term(T, "cost", a) \in Nat
             /\ Term(T, "ok", a) <= Term(T, "n", a)
  <2> DEFINE now == {row \in T : row.age = a}
             row == CHOOSE r \in now : TRUE
  <2>1. now # {} => row \in Summaries
    OBVIOUS
  <2>2. \A field : Term(T, field, a) = IF now = {} THEN 0 ELSE row[field]
    BY DEF Term
  <2> HIDE DEF now, row
  <2>3. row \in Summaries => /\ row["n"] \in Nat /\ row["ok"] \in Nat /\ row["cost"] \in Nat
                             /\ row["ok"] <= row["n"]
    BY DEF Summaries
  <2> QED
    BY <2>1, <2>2, <2>3
<1>3. \A a \in 0..n : /\ t("n")[a] = Term(T, "n", a) /\ t("ok")[a] = Term(T, "ok", a)
                      /\ t("cost")[a] = Term(T, "cost", a)
  OBVIOUS
<1>4. PICK counted : Total(T, "n") = counted[n] /\ Adds(counted, t("n"), n)
  BY TotalIs
<1>5. PICK good : Total(T, "ok") = good[n] /\ Adds(good, t("ok"), n)
  BY TotalIs
<1>6. PICK paid : Total(T, "cost") = paid[n] /\ Adds(paid, t("cost"), n)
  BY TotalIs
<1> HIDE DEF n, t
<1>7. good[n] \in Nat /\ counted[n] \in Nat /\ good[n] <= counted[n]
  BY <1>1, <1>2, <1>3, <1>4, <1>5, SumsCompare
<1>8. \A a \in 0..n : t("cost")[a] \in Nat /\ t("cost")[a] <= t("cost")[a]
  BY <1>2, <1>3
<1>9. paid[n] \in Nat
  BY <1>1, <1>6, <1>8, SumsCompare
<1> QED
  BY <1>4, <1>5, <1>6, <1>7, <1>9

LEMMA Proportion ==
  ASSUME NEW w \in Nat, NEW k \in Nat, NEW n \in Nat, n >= 1
  PROVE  /\ k \div n \in Nat
         /\ k <= n => (w * k) \div n \in 0..w
<1>1. ASSUME NEW m \in Nat
      PROVE  m \div n \in Nat /\ n * (m \div n) <= m
  OBVIOUS
<1>2. ASSUME k <= n
      PROVE  (w * k) \div n \in 0..w
  <2> DEFINE q == (w * k) \div n
  <2>1. w * k \in Nat /\ w * k <= n * w
    BY <1>2
  <2>2. q \in Nat /\ n * q <= w * k
    BY <1>1, <2>1
  <2> HIDE DEF q
  <2>3. n * q <= n * w
    <3>1. w * k \in Nat /\ n * q \in Nat /\ n * w \in Nat
      BY <2>1, <2>2
    <3> QED
      BY <2>1, <2>2, <3>1
  <2>4. q <= w
    BY <2>2, <2>3
  <2> QED
    BY <2>2, <2>4 DEF q
<1> QED
  BY <1>1, <1>2

(* What is merged from stored windows can be compared, and no success rate *)
(* is above the whole.                                                     *)
LEMMA MergeIs ==
  ASSUME NEW T, T \subseteq Summaries, IsFiniteSet(T), NEW p \in DOMAIN MergeObservations(T)
  PROVE  IsMeasurement(MergeObservations(T)[p])
<1> DEFINE own == {row \in T : row.provider = p}
           n == Total(own, "n")
           ok == Total(own, "ok")
           cost == Total(own, "cost")
           latencies == {row.p95 : row \in own}
           most == Max(latencies)
           dear == cost \div n
           rate == (Whole * ok) \div n
           measured(value) == IF n < SampleFloor THEN Unmeasured ELSE value
           o == [p95_ms |-> measured(most), cost_per_1k_tokens_usd |-> measured(dear),
                 success_rate |-> measured(rate)]
<1>1. p \in {row.provider : row \in T} /\ MergeObservations(T)[p] = o
  BY DEF MergeObservations
<1>2. own \subseteq Summaries /\ own # {} /\ IsFiniteSet(own)
  BY <1>1, FS_Subset
<1>3. most \in Nat
  <2> DEFINE f == [row \in own |-> row.p95]
  <2>1. f \in Surjection(own, latencies)
    BY DEF Surjection
  <2>2. latencies \subseteq Nat /\ latencies # {}
    BY <1>2 DEF Summaries
  <2> HIDE DEF own, f, latencies
  <2>3. IsFiniteSet(latencies)
    BY <1>2, <2>1, FS_Surjection
  <2> QED
    BY <2>2, <2>3, MaxIs
<1>4. n \in Nat /\ ok \in Nat /\ cost \in Nat /\ ok <= n
  <2> HIDE DEF own
  <2> QED
    BY <1>2, TotalsCompare
<1> HIDE DEF n, ok, cost, most
<1>5. n >= SampleFloor => dear \in Nat /\ rate \in 0..Whole
  <2>1. ASSUME n >= SampleFloor PROVE n >= 1
    BY <1>4, <2>1, BoundsAre
  <2> QED
    BY <1>4, <2>1, BoundsAre, Proportion
<1> HIDE DEF dear, rate
<1>6. ~(n < SampleFloor) => n >= SampleFloor
  BY <1>4, BoundsAre
<1>7. /\ measured(most) \in Nat \cup {Unmeasured}
      /\ measured(dear) \in Nat \cup {Unmeasured}
      /\ measured(rate) \in {Unmeasured} \cup 0..Whole
      /\ 0..Whole \subseteq Nat
  BY <1>3, <1>5, <1>6, BoundsAre
<1> HIDE DEF measured
<1>8. IsMeasurement(o)
  BY <1>7 DEF IsMeasurement, DimensionNames, Cost
<1> QED
  BY <1>1, <1>8

-----------------------------------------------------------------------------
(* Each step.                                                              *)
LEMMA InitKinds == Init => Kinds
<1> SUFFICES ASSUME Init PROVE Kinds
  OBVIOUS
<1>1. 0 \in 0..MaxLoad /\ 0 \in 0..MaxFaults
  BY BoundsAre
<1>2. NoWindows \in [Names -> [Upstreams -> {NoWindow} \cup Counts]]
  BY DEF NoWindows
<1>3. IsFiniteSet({}) /\ \A name \in Names : DOMAIN [other \in Names |-> << >>][name] = {}
  BY FS_EmptySet
<1> QED
  BY <1>1, <1>2, <1>3 DEF Init, Kinds

LEMMA ElapsedIs ==
  ASSUME Kinds
  PROVE  Elapsed \in [Requests -> {Idle, Refused} \cup Asking]
<1>1. ASSUME NEW k \in Asking
      PROVE  [k EXCEPT !.age = Min({@ + 1, Span})] \in Asking
  <2> DEFINE older == Min({k.age + 1, Span})
  <2>1. k.age \in 0..Span
    BY DEF Asking
  <2>2. older \in 0..Span
    BY <2>1, OneOlder
  <2> HIDE DEF older
  <2>3. [k EXCEPT !.age = older] \in Asking
    BY <2>2 DEF Asking
  <2> QED
    BY <2>3 DEF older
<1>2. Idle.phase = "idle" /\ Refused.phase = "refused"
  BY DEF Idle, Refused
<1>3. ASSUME NEW r \in Requests
      PROVE  (IF req[r].phase = "forwarded" THEN [req[r] EXCEPT !.age = Min({@ + 1, Span})] ELSE req[r])
                \in {Idle, Refused} \cup Asking
  BY <1>1, <1>2 DEF Kinds
<1> QED
  BY <1>3 DEF Elapsed

LEMMA TickKinds ==
  ASSUME Kinds, Tick
  PROVE  Kinds'
<1> DEFINE closed == {Summary(d[1], d[2]) : d \in Due}
           stored == Within(Older \cup closed)
<1>1. /\ open' = StillOpen /\ rows' = stored /\ req' = Elapsed /\ load' = 0
      /\ observed' = [name \in Names |-> IF name \in DOMAIN document
                        THEN MergeObservations({row \in stored : row.name = name}) ELSE observed[name]]
      /\ UNCHANGED <<forced, document, faults>>
  BY DEF Tick
<1>2. closed \subseteq Summaries /\ IsFiniteSet(closed)
  BY SummariesOf
<1> HIDE DEF closed
<1>3. stored \subseteq Summaries /\ IsFiniteSet(stored)
  <2>1. IsFiniteSet(Older \cup closed)
    BY <1>2, OlderIs, FS_Union
  <2>2. ASSUME NEW row \in Older, row.age <= Lookback PROVE row \in Summaries
    BY <2>2, OlderIs, BoundsAre
  <2> QED
    BY <1>2, <2>1, <2>2, FS_Subset DEF Within
<1> HIDE DEF stored
<1>4. \A name \in Names : \A p \in DOMAIN observed'[name] : IsMeasurement(observed'[name][p])
  <2> SUFFICES ASSUME NEW name \in Names, NEW p \in DOMAIN observed'[name]
               PROVE  IsMeasurement(observed'[name][p])
    OBVIOUS
  <2>1. CASE name \in DOMAIN document
    <3> DEFINE own == {row \in stored : row.name = name}
    <3>1. own \subseteq Summaries /\ IsFiniteSet(own)
      BY <1>3, FS_Subset
    <3>2. observed'[name] = MergeObservations(own)
      BY <1>1, <2>1
    <3> HIDE DEF own
    <3> QED
      BY <3>1, <3>2, MergeIs
  <2>2. CASE name \notin DOMAIN document
    <3>1. observed'[name] = observed[name]
      BY <1>1, <2>2
    <3> QED
      BY <3>1 DEF Kinds
  <2> QED
    BY <2>1, <2>2
<1>5. 0 \in 0..MaxLoad
  BY BoundsAre
<1> QED
  BY <1>1, <1>3, <1>4, <1>5, StillOpenIs, ElapsedIs DEF Kinds

LEMMA TickFailsKinds ==
  ASSUME Kinds, TickFails
  PROVE  Kinds'
<1>1. PICK written \in SUBSET Due :
        rows' = {row \in Older : row.age <= Lookback + 1} \cup {Summary(d[1], d[2]) : d \in written}
  BY DEF TickFails
<1> DEFINE kept == {row \in Older : row.age <= Lookback + 1}
           closed == {Summary(d[1], d[2]) : d \in written}
<1>2. closed \subseteq Summaries /\ IsFiniteSet(closed)
  BY SummariesOf
<1>3. kept \subseteq Summaries /\ IsFiniteSet(kept)
  BY OlderIs, FS_Subset
<1> HIDE DEF kept, closed
<1>4. rows' \subseteq Summaries /\ IsFiniteSet(rows')
  <2>1. rows' = kept \cup closed
    BY <1>1 DEF kept, closed
  <2> QED
    BY <1>2, <1>3, <2>1, FS_Union
<1>5. /\ open' = StillOpen /\ req' = Elapsed /\ load' = 0 /\ faults' = faults + 1 /\ faults < MaxFaults
      /\ UNCHANGED <<forced, document, observed>>
  BY DEF TickFails
<1>6. 0 \in 0..MaxLoad /\ faults + 1 \in 0..MaxFaults
  BY <1>5, BoundsAre DEF Kinds
<1> QED
  BY <1>4, <1>5, <1>6, StillOpenIs, ElapsedIs DEF Kinds

LEMMA StepKinds == Kinds /\ [Next]_vars => Kinds'
<1> SUFFICES ASSUME Kinds, [Next]_vars PROVE Kinds'
  OBVIOUS
<1>1. ASSUME NEW r \in Requests, NEW name \in Names, Arrive(r, name) PROVE Kinds'
  <2> DEFINE routed == RouteWithFailOpen(name)
  <2>1. /\ req' = [req EXCEPT ![r] = routed] /\ load' = load + 1 /\ load < MaxLoad
        /\ UNCHANGED <<forced, document, open, rows, observed, faults>>
    BY <1>1 DEF Arrive
  <2>2. routed \in {Refused} \cup Asking
    BY RouteIs
  <2>3. load + 1 \in 0..MaxLoad
    BY <2>1, BoundsAre DEF Kinds
  <2> HIDE DEF routed
  <2> QED
    BY <2>1, <2>2, <2>3 DEF Kinds
<1>2. ASSUME NEW r \in Requests, Answered(r) PROVE Kinds'
  <2>1. req[r] \in Asking
    <3>1. req[r].phase = "forwarded" /\ Idle.phase = "idle" /\ Refused.phase = "refused"
      BY <1>2 DEF Answered, AnsweredWith, Idle, Refused
    <3> QED
      BY <3>1 DEF Kinds
  <2> DEFINE name == req[r].name
             to == req[r].to
  <2>2. name \in Names /\ to \in Upstreams /\ req[r].age \in 0..Span
    BY <2>1 DEF Asking
  <2>3. PICK outcome \in Upstream[to] :
          open' = [open EXCEPT ![name][to] = Recorded(@, outcome, req[r].age)]
    BY <1>2 DEF Answered, AnsweredWith
  <2> DEFINE window == Recorded(open[name][to], outcome, req[r].age)
  <2>4. window \in {NoWindow} \cup Counts
    <3>1. open[name][to] \in {NoWindow} \cup Counts
      BY <2>2 DEF Kinds
    <3> HIDE DEF name, to
    <3> QED
      BY <2>2, <2>3, <3>1, RecordedIs
  <2>5. open' = [open EXCEPT ![name][to] = window]
    BY <2>3
  <2>6. /\ req' = [req EXCEPT ![r] = Idle]
        /\ UNCHANGED <<forced, document, rows, observed, load, faults>>
    BY <1>2 DEF Answered, AnsweredWith
  <2> HIDE DEF name, to, window
  <2>7. open' \in [Names -> [Upstreams -> {NoWindow} \cup Counts]]
    BY <2>2, <2>4, <2>5 DEF Kinds
  <2> QED
    BY <2>6, <2>7 DEF Kinds
<1>3. CASE Restart
  <2>1. /\ req' = [r \in Requests |-> Idle] /\ open' = NoWindows
        /\ observed' = [name \in Names |-> << >>] /\ faults' = faults + 1 /\ faults < MaxFaults
        /\ UNCHANGED <<forced, document, rows, load>>
    BY <1>3 DEF Restart
  <2>2. NoWindows \in [Names -> [Upstreams -> {NoWindow} \cup Counts]]
    BY DEF NoWindows
  <2>3. \A name \in Names : DOMAIN observed'[name] = {}
    BY <2>1
  <2>4. faults + 1 \in 0..MaxFaults
    BY <2>1, BoundsAre DEF Kinds
  <2> QED
    BY <2>1, <2>2, <2>3, <2>4 DEF Kinds
<1>4. CASE Replace
  <2>1. faults + 1 \in 0..MaxFaults /\ faults' = faults + 1 /\ document' \in Documents
    BY <1>4, BoundsAre DEF Replace, Kinds
  <2>2. UNCHANGED <<forced, req, open, rows, observed, load>>
    BY <1>4 DEF Replace
  <2> QED
    BY <2>1, <2>2 DEF Kinds
<1>5. CASE UNCHANGED vars
  BY <1>5 DEF vars, Kinds
<1> QED
  BY <1>1, <1>2, <1>3, <1>4, <1>5, TickKinds, TickFailsKinds DEF Next

(* Whatever was in force, answered, lost and restarted, a request goes to  *)
(* a provider of the fleet or to the default, no window counts more        *)
(* successes than requests, and a merged success rate is a share of the    *)
(* whole (server.ts routeWithFailOpen, routing/stats.ts record, service.ts *)
(* tick).                                                                  *)
THEOREM TypeCorrect == Spec => []TypeOK
<1>1. ASSUME Kinds PROVE TypeOK
  <2>1. \A r \in Requests : \/ req[r] \in {Idle, [phase |-> "refused"]}
                            \/ req[r].name \in Names /\ req[r].to \in Upstreams /\ req[r].age \in 0..Span
    BY <1>1 DEF Kinds, Asking, Refused
  <2>2. \A name \in Names, p \in Upstreams :
          open[name][p] = NoWindow \/ (open[name][p].ok <= open[name][p].n /\ open[name][p].age \in 0..Span)
    BY <1>1 DEF Kinds, Counts
  <2>3. \A row \in rows : row.n >= MinRequests /\ row.age \in 0..(Lookback + 1)
    BY <1>1 DEF Kinds, Summaries
  <2>4. \A name \in Names : \A p \in DOMAIN observed[name] :
          observed[name][p].success_rate \in {Unmeasured} \cup 0..Whole
    BY <1>1 DEF Kinds, IsMeasurement
  <2> QED
    BY <1>1, <2>1, <2>2, <2>3, <2>4 DEF Kinds, TypeOK
<1> QED
  BY <1>1, InitKinds, StepKinds, PTL DEF Spec
=============================================================================
