----------------------------- MODULE UnmetMachine -----------------------------
(***************************************************************************)
(* The unmet state of one workload, kept by several gateway processes over *)
(* one store: the measurement windows (gateway/src/routing/stats.ts), the  *)
(* verdict and its two-window rule (targets/unmet.ts), the timer's work    *)
(* and the compare-and-set that elects the notifier (targets/service.ts,   *)
(* targets/store.ts), and the delivery of the notification                 *)
(* (management/notify.ts).                                                 *)
(*                                                                         *)
(* The workload states one dimension, success_rate, at TargetPct per cent; *)
(* the document does not change and every process holds it, save for one   *)
(* that could not read it at boot.  A tick is one synchronous function,    *)
(* but each of its store calls is a step of its own, between which other   *)
(* processes run.  All processes read one clock.                           *)
(***************************************************************************)
EXTENDS Integers, Sequences, FiniteSets, FiniteSetsExt

CONSTANTS
  Processes,    \* gateway processes sharing the store
  Providers,    \* providers the workload's traffic is sent to
  NoState,      \* no state was ever written, or it is not in memory
  Window,       \* the span of a measurement window, in ticks
  MinRequests,  \* the requests a window needs before it may close
  SampleFloor,  \* the merged requests below which nothing is measured
  TargetPct,    \* the success rate the workload asks for
  MaxRequests,  \* bound on the requests of one window
  MaxTime,      \* bound on the clock
  MaxFaults,    \* bound on failed store calls and on restarts
  LastFault,    \* bound on the instants they happen at
  Trailing      \* the windows a summary is kept for: three in the code

ASSUME WindowAssumption == Window \in Nat \ {0} /\ MinRequests \in Nat \ {0}
ASSUME FloorAssumption  == SampleFloor \in Nat \ {0} /\ TargetPct \in 0..100
ASSUME BoundsAssumption == /\ MaxRequests \in Nat /\ MaxRequests >= MinRequests
                           /\ {MaxTime, MaxFaults, LastFault} \subseteq Nat
                           /\ Trailing \in Nat \ {0}

VARIABLES
  now,        \* the clock
  open,       \* each process's window in flight for each provider, if any
  job,        \* the tick a process is in the middle of
  summaries,  \* window_summary: the windows that closed
  row,        \* unmet_state: the stored state, or NoState
  mem,        \* the state each process shows, or NoState
  seen,       \* history: how many folds that state reflects
  folds,      \* history: every state that won its compare-and-set
  outbox,     \* the transitions each process still has to notify
  received,   \* the notifications that reached the customer
  faults      \* faults spent, up to MaxFaults

vars == <<now, open, job, summaries, row, mem, seen, folds, outbox, received, faults>>

traffic == <<now, open>>
status  == <<mem, seen>>
notices == <<outbox, received>>

Closed == [opened : 0..MaxTime, good : 0..MaxRequests, count : 0..MaxRequests]
Rows   == [provider : Providers, process : Processes, at : 0..MaxTime,
           good : Nat, count : Nat]
States == [unmet : BOOLEAN, missed : Nat, held : Nat, at : 0..MaxTime]
Verdicts == {"held", "missed", "indeterminate"}
Events   == {"entered", "left", "none"}

ASSUME NoStateAssumption == NoState \notin States

NoWindow == [opened |-> 0, good |-> 0, count |-> 0]
AtRest   == [step |-> "rest", at |-> 0, todo |-> {}, verdict |-> "none", previous |-> NoState]

-----------------------------------------------------------------------------
(* The verdict on a set of closed windows.  Windows of one provider are    *)
(* added up, whichever process closed them.                                *)
Requests(evidence, v)  == MapThenSumSet(LAMBDA s : s.count, {s \in evidence : s.provider = v})
Successes(evidence, v) == MapThenSumSet(LAMBDA s : s.good, {s \in evidence : s.provider = v})

Observed(evidence)    == {s.provider : s \in evidence}
Measured(evidence, v) == Requests(evidence, v) >= SampleFloor
Holds(evidence, v)    == Successes(evidence, v) * 100 >= TargetPct * Requests(evidence, v)

(* A provider that is observed but below the floor convicts nobody: it     *)
(* holds the window.                                                       *)
Verdict(evidence) ==
  IF \A v \in Observed(evidence) : ~Measured(evidence, v) THEN "indeterminate"
  ELSE IF \E v \in Observed(evidence) : Measured(evidence, v) => Holds(evidence, v) THEN "held"
  ELSE "missed"

Known(state) == IF state = NoState THEN [unmet |-> FALSE, missed |-> 0, held |-> 0, at |-> 0]
                ELSE state

(* foldWindow: two consecutive windows in, two out; an indeterminate       *)
(* window moves no streak.                                                 *)
Fold(previous, verdict, at) ==
  LET s      == Known(previous)
      missed == IF verdict = "missed" THEN s.missed + 1 ELSE 0
      held   == IF verdict = "held" THEN s.held + 1 ELSE 0
  IN  IF verdict = "indeterminate" THEN [s EXCEPT !.at = at]
      ELSE [unmet |-> (~s.unmet /\ missed >= 2) \/ (s.unmet /\ held < 2),
            missed |-> missed, held |-> held, at |-> at]

Event(previous, next) ==
  CASE next.unmet /\ ~Known(previous).unmet -> "entered"
    [] ~next.unmet /\ Known(previous).unmet -> "left"
    [] OTHER -> "none"

(* restoreState: counters from before two windows of downtime are dropped, *)
(* the flag is kept.                                                       *)
Restored(state) ==
  IF state = NoState \/ now - state.at <= Window * 2 THEN state
  ELSE [state EXCEPT !.missed = 0, !.held = 0]

-----------------------------------------------------------------------------
Init == /\ now = 0
        /\ open = [p \in Processes |-> [v \in Providers |-> NoWindow]]
        /\ job = [p \in Processes |-> AtRest]
        /\ summaries = {}
        /\ row = NoState
        /\ mem = [p \in Processes |-> NoState]
        /\ seen = [p \in Processes |-> 0]
        /\ folds = <<>>
        /\ outbox = [p \in Processes |-> {}]
        /\ received = {}
        /\ faults = 0

Tick == /\ now < MaxTime
        /\ now' = now + 1
        /\ UNCHANGED <<open, job, summaries, row, status, folds, notices, faults>>

(* Mutant of Counted: a success is counted without its request.            *)
CountedGood(w, ok) == [w EXCEPT !.good = @ + 1, !.count = IF ok THEN @ ELSE @ + 1]

Counted(w, ok) == [w EXCEPT !.count = @ + 1, !.good = IF ok THEN @ + 1 ELSE @]

(* A completed request that was not malformed, and so counts.              *)
Record(p, v, ok) ==
  LET w == open[p][v]
  IN  /\ job[p] = AtRest /\ w.count < MaxRequests
      /\ open' = [open EXCEPT ![p][v] =
                    Counted(IF w.count = 0 THEN [NoWindow EXCEPT !.opened = now] ELSE w, ok)]
      /\ UNCHANGED <<now, job, summaries, row, status, folds, notices, faults>>

(* closeDue: both conditions, the later one closes the window.             *)
Due(p) == {v \in Providers : open[p][v].count >= MinRequests /\ now - open[p][v].opened >= Window}

Summary(p, v) == [provider |-> v, process |-> p, at |-> now,
                  good |-> open[p][v].good, count |-> open[p][v].count]

(* A tick in which a window of the workload closes; any other tick changes *)
(* nothing here.  What it closes is in no window any more, and not yet in  *)
(* the store.                                                              *)
CloseDue(p) ==
  /\ job[p] = AtRest /\ Due(p) # {}
  /\ open' = [open EXCEPT ![p] = [v \in Providers |-> IF v \in Due(p) THEN NoWindow ELSE @[v]]]
  /\ job' = [job EXCEPT ![p] = [AtRest EXCEPT !.step = "write", !.at = now,
                                              !.todo = {Summary(p, v) : v \in Due(p)}]]
  /\ UNCHANGED <<now, summaries, row, status, folds, notices, faults>>

WriteSummary(p) ==
  /\ job[p].step = "write"
  /\ \E s \in job[p].todo :
       /\ summaries' = summaries \cup {s}
       /\ job' = [job EXCEPT ![p].todo = @ \ {s},
                             ![p].step = IF job[p].todo = {s} THEN "judge" ELSE "write"]
  /\ UNCHANGED <<traffic, row, status, folds, notices, faults>>

Lookback(p) == {s \in summaries : s.at >= job[p].at - Window}

(* The window that just closed is judged over every summary that closed    *)
(* within a window of now.  Older ones are kept a while longer, for        *)
(* routing, and pruned.                                                    *)
ReadSummaries(p) ==
  /\ job[p].step = "judge"
  /\ summaries' = {s \in summaries : s.at >= job[p].at - Window * Trailing}
  /\ job' = [job EXCEPT ![p].step = "read", ![p].verdict = Verdict(Lookback(p))]
  /\ UNCHANGED <<traffic, row, status, folds, notices, faults>>

ReadState(p) ==
  /\ job[p].step = "read"
  /\ job' = [job EXCEPT ![p].step = "cas", ![p].previous = row]
  /\ UNCHANGED <<traffic, summaries, row, status, folds, notices, faults>>

Folded(p) == Fold(job[p].previous, job[p].verdict, job[p].at)

Entry(p) == [verdict |-> job[p].verdict, by |-> p, event |-> Event(job[p].previous, Folded(p))]

(* Mutant of Wins: the compare of the compare-and-set is dropped.          *)
WinsAlways(p) == TRUE

Wins(p) == row = job[p].previous

(* The compare-and-set, one transaction: the winner shows the new state,   *)
(* and starts the notification if the state crossed a boundary.            *)
CasWins(p) ==
  /\ job[p].step = "cas" /\ Wins(p)
  /\ row' = Folded(p)
  /\ folds' = Append(folds, Entry(p))
  /\ mem' = [mem EXCEPT ![p] = Folded(p)]
  /\ seen' = [seen EXCEPT ![p] = Len(folds')]
  /\ outbox' = [outbox EXCEPT ![p] = @ \cup (IF Entry(p).event = "none" THEN {} ELSE {Len(folds')})]
  /\ job' = [job EXCEPT ![p] = AtRest]
  /\ UNCHANGED <<traffic, summaries, received, faults>>

(* Mutant of AfterLoss: the loser notifies what it had computed.           *)
NotifiesToo(p) == IF Event(job[p].previous, Folded(p)) = "none" THEN {} ELSE {Len(folds)}

AfterLoss(p) == {}

CasLoses(p) ==
  /\ job[p].step = "cas" /\ ~Wins(p)
  /\ job' = [job EXCEPT ![p].step = "lost"]
  /\ outbox' = [outbox EXCEPT ![p] = @ \cup AfterLoss(p)]
  /\ UNCHANGED <<traffic, summaries, row, status, folds, received, faults>>

(* Mutant of Shown: the loser shows the state it failed to store.          *)
ShownOwn(p) == Folded(p)

Shown(p) == row

(* The loser stays silent and shows what is stored.                        *)
Reread(p) ==
  /\ job[p].step = "lost"
  /\ mem' = [mem EXCEPT ![p] = Shown(p)]
  /\ seen' = [seen EXCEPT ![p] = Len(folds)]
  /\ job' = [job EXCEPT ![p] = AtRest]
  /\ UNCHANGED <<traffic, summaries, row, folds, notices, faults>>

(* A store call throws and the timer swallows it: the rest of the tick,    *)
(* with the windows it had closed, is gone.                                *)
TickFails(p) ==
  /\ job[p] # AtRest /\ faults < MaxFaults /\ now <= LastFault
  /\ faults' = faults + 1
  /\ job' = [job EXCEPT ![p] = AtRest]
  /\ UNCHANGED <<traffic, summaries, row, status, folds, notices>>

(* The process dies and starts again: its windows and the notifications it *)
(* was delivering are gone, and the state is restored from the store,      *)
(* unless the document cannot be read at that moment.                      *)
Restart(p) ==
  /\ faults < MaxFaults /\ now <= LastFault
  /\ faults' = faults + 1
  /\ open' = [open EXCEPT ![p] = [v \in Providers |-> NoWindow]]
  /\ job' = [job EXCEPT ![p] = AtRest]
  /\ outbox' = [outbox EXCEPT ![p] = {}]
  /\ \/ mem' = [mem EXCEPT ![p] = Restored(row)] /\ seen' = [seen EXCEPT ![p] = Len(folds)]
     \/ mem' = [mem EXCEPT ![p] = NoState] /\ seen' = [seen EXCEPT ![p] = 0]
  /\ UNCHANGED <<now, summaries, row, folds, received>>

Notification(p, n) == [fold |-> n, by |-> p]

(* One attempt reaches the endpoint.  If the answer does not come back as  *)
(* a 2xx, the notification is sent again.                                  *)
Deliver(p, n) ==
  /\ n \in outbox[p]
  /\ received' = received \cup {Notification(p, n)}
  /\ outbox' \in {outbox, [outbox EXCEPT ![p] = @ \ {n}]}
  /\ UNCHANGED <<traffic, job, summaries, row, status, folds, faults>>

(* The retry budget is spent, or there is no URL to deliver to.            *)
Drop(p, n) ==
  /\ n \in outbox[p]
  /\ outbox' = [outbox EXCEPT ![p] = @ \ {n}]
  /\ UNCHANGED <<traffic, job, summaries, row, status, folds, received, faults>>

Work(p) == \/ CloseDue(p) \/ WriteSummary(p) \/ ReadSummaries(p) \/ ReadState(p)
           \/ CasWins(p) \/ CasLoses(p) \/ Reread(p)

Next ==
  \/ Tick
  \/ \E p \in Processes :
       \/ Work(p) \/ TickFails(p) \/ Restart(p)
       \/ \E v \in Providers, ok \in BOOLEAN : Record(p, v, ok)
       \/ \E n \in outbox[p] : Deliver(p, n) \/ Drop(p, n)

Spec == Init /\ [][Next]_vars

-----------------------------------------------------------------------------
TypeOK ==
  /\ now \in 0..MaxTime
  /\ open \in [Processes -> [Providers -> Closed]]
  /\ \A p \in Processes, v \in Providers : open[p][v].good <= open[p][v].count
  /\ job \in [Processes -> [step : {"rest", "write", "judge", "read", "cas", "lost"},
                            at : 0..MaxTime, todo : SUBSET Rows,
                            verdict : Verdicts \cup {"none"}, previous : States \cup {NoState}]]
  /\ summaries \in SUBSET Rows
  /\ row \in States \cup {NoState}
  /\ mem \in [Processes -> States \cup {NoState}]
  /\ seen \in [Processes -> Nat]
  /\ folds \in Seq([verdict : Verdicts, by : Processes, event : Events])
  /\ outbox \in [Processes -> SUBSET (Nat \ {0})]
  /\ received \in SUBSET [fold : Nat \ {0}, by : Processes]
  /\ faults \in 0..MaxFaults

History == [n \in 1..Len(folds) |-> folds[n].verdict]

Abstract == INSTANCE UnmetRecord WITH
  history <- History,
  views   <- [p \in Processes |-> [at |-> seen[p], unmet |-> Known(mem[p]).unmet]]

(* The stored flag is what two consecutive missed and two consecutive held *)
(* windows make it, over every verdict any process ever recorded, and a    *)
(* transition is reported exactly on the windows that cross a boundary:    *)
(* no verdict is lost or counted twice by the compare-and-set (unmet.ts    *)
(* foldWindow, store.ts casUnmetState).                                    *)
TwoWindowRule ==
  /\ Known(row).unmet = Abstract!Raised(History, Len(folds))
  /\ \A n \in 1..Len(folds) :
       LET before == Abstract!Raised(History, n - 1)
           after  == Abstract!Raised(History, n)
       IN  /\ (folds[n].event = "entered") = (after /\ ~before)
           /\ (folds[n].event = "left") = (before /\ ~after)

(* Every notification a customer receives is of a stored transition and    *)
(* comes from the one process that stored it, however often it is sent     *)
(* again: N processes never report one transition N times (store.ts        *)
(* casUnmetState, service.ts #advanceUnmet).                               *)
OneNotifier == \A m \in received :
  /\ m.fold <= Len(folds) /\ folds[m.fold].event # "none"
  /\ m.by = folds[m.fold].by

(* The processes implement the abstract record: what a process shows was   *)
(* once stored, and it never goes back to an older state except by a       *)
(* restart that could not read the document.                               *)
ImplementsRecord == Abstract!Spec
=============================================================================
