------------------------- MODULE UnmetMachine_proofs --------------------------
(***************************************************************************)
(* Proofs about UnmetMachine for any number of processes, providers,       *)
(* windows and faults: type correctness, that a transition has one         *)
(* notifier, that the stored flag follows the two-window rule over every   *)
(* verdict ever recorded, and that the processes implement the abstract    *)
(* record.                                                                 *)
(***************************************************************************)
EXTENDS UnmetMachine, TLAPS

-----------------------------------------------------------------------------
(* Type correctness.  A tick has a verdict before it reads the state.      *)
Judged == \A p \in Processes : job[p].step \in {"read", "cas"} => job[p].verdict \in Verdicts

TypeInv == TypeOK /\ Judged

LEMMA KnownType ==
  ASSUME NEW s \in States \cup {NoState}
  PROVE  Known(s) \in States
BY BoundsAssumption DEF Known, States

LEMMA FoldType ==
  ASSUME NEW s \in States \cup {NoState}, NEW v, NEW at \in 0..MaxTime
  PROVE  Fold(s, v, at) \in States
<1>1. Known(s) \in States
  BY KnownType
<1>2. [Known(s) EXCEPT !.at = at] \in States
  BY <1>1 DEF States
<1>3. ASSUME NEW m \in Nat, NEW h \in Nat, NEW u \in BOOLEAN
      PROVE  [unmet |-> u, missed |-> m, held |-> h, at |-> at] \in States
  BY <1>3 DEF States
<1>4. /\ (IF v = "missed" THEN Known(s).missed + 1 ELSE 0) \in Nat
      /\ (IF v = "held" THEN Known(s).held + 1 ELSE 0) \in Nat
  BY <1>1 DEF States
<1> QED
  BY <1>2, <1>3, <1>4 DEF Fold

LEMMA RestoredType ==
  ASSUME NEW s \in States \cup {NoState}
  PROVE  Restored(s) \in States \cup {NoState}
BY DEF Restored, States

LEMMA VerdictType ==
  ASSUME NEW evidence
  PROVE  Verdict(evidence) \in Verdicts
BY DEF Verdict, Verdicts

LEMMA EventType ==
  ASSUME NEW s, NEW t
  PROVE  Event(s, t) \in Events
BY DEF Event, Events

(* The shape of a tick, and of what it closes.                             *)
Jobs == [step : {"rest", "write", "judge", "read", "cas", "lost"},
         at : 0..MaxTime, todo : SUBSET Rows,
         verdict : Verdicts \cup {"none"}, previous : States \cup {NoState}]

LEMMA AtRestType == AtRest \in Jobs /\ AtRest.step = "rest"
BY BoundsAssumption DEF AtRest, Jobs

LEMMA TypeInit ==
  Init => TypeInv
<1> SUFFICES ASSUME Init PROVE TypeInv
  OBVIOUS
<1>1. NoWindow \in Closed
  BY BoundsAssumption DEF NoWindow, Closed
<1>2. NoWindow.good <= NoWindow.count
  BY DEF NoWindow
<1> QED
  BY <1>1, <1>2, AtRestType, BoundsAssumption DEF Init, TypeInv, TypeOK, Judged, Jobs

LEMMA SummaryType ==
  ASSUME TypeOK, NEW p \in Processes, NEW v \in Providers
  PROVE  Summary(p, v) \in Rows
<1>1. open[p][v] \in Closed /\ now \in 0..MaxTime
  BY DEF TypeOK
<1>2. open[p][v].good \in Nat /\ open[p][v].count \in Nat
  BY <1>1, BoundsAssumption DEF Closed
<1> QED
  BY <1>1, <1>2 DEF Summary, Rows

LEMMA CountedType ==
  ASSUME NEW w \in Closed, w.good <= w.count, w.count < MaxRequests, NEW ok \in BOOLEAN
  PROVE  Counted(w, ok) \in Closed /\ Counted(w, ok).good <= Counted(w, ok).count
<1>1. /\ w.count + 1 \in 0..MaxRequests
      /\ (IF ok THEN w.good + 1 ELSE w.good) \in 0..MaxRequests
      /\ w.count \in Nat /\ w.good \in Nat
  BY BoundsAssumption DEF Closed
<1> DEFINE x == [w EXCEPT !.count = w.count + 1]
<1>2. x \in Closed
  BY <1>1 DEF Closed
<1>3. ASSUME NEW g \in 0..MaxRequests PROVE [x EXCEPT !.good = g] \in Closed
  <2> HIDE DEF x
  <2> QED
    BY <1>2 DEF Closed
<1>4. Counted(w, ok).good <= Counted(w, ok).count
  BY <1>1 DEF Counted, Closed
<1> QED
  BY <1>1, <1>3, <1>4 DEF Counted

(* Every step keeps the types, whatever fails.                             *)
LEMMA TypeStep ==
  TypeInv /\ [Next]_vars => TypeInv'
<1> SUFFICES ASSUME TypeInv, [Next]_vars PROVE TypeInv'
  OBVIOUS
<1> USE DEF TypeInv
<1> DEFINE Kept(x) == x \in Jobs /\ (x.step \in {"read", "cas"} => x.verdict \in Verdicts)
<1>a. job \in [Processes -> Jobs] /\ \A p \in Processes : Kept(job[p])
  BY DEF TypeOK, Judged, Jobs
<1>b. Kept(AtRest)
  BY AtRestType
<1>c. ASSUME NEW p \in Processes, NEW x, Kept(x), job' = [job EXCEPT ![p] = x]
      PROVE  /\ job' \in [Processes -> Jobs]
             /\ Judged'
  BY <1>a, <1>c DEF Judged
<1>d. now \in Nat /\ now \in 0..MaxTime
  BY BoundsAssumption DEF TypeOK
<1>1. CASE Tick
  BY <1>1, <1>d, BoundsAssumption DEF Tick, TypeOK, Judged, status, notices
<1>2. ASSUME NEW p \in Processes, NEW v \in Providers, NEW ok \in BOOLEAN, Record(p, v, ok)
      PROVE  TypeInv'
  <2> DEFINE w == open[p][v]
             old == IF w.count = 0 THEN [NoWindow EXCEPT !.opened = now] ELSE w
  <2>1. w \in Closed /\ w.good <= w.count /\ w.count < MaxRequests
    BY <1>2 DEF TypeOK, Record
  <2>2. old \in Closed /\ old.good <= old.count /\ old.count < MaxRequests
    <3>1. 0 \in 0..MaxRequests
      BY BoundsAssumption
    <3>2. [NoWindow EXCEPT !.opened = now] = [opened |-> now, good |-> 0, count |-> 0]
      BY DEF NoWindow
    <3>3. [NoWindow EXCEPT !.opened = now] \in Closed
      BY <3>1, <3>2, <1>d DEF Closed
    <3> QED
      BY <2>1, <3>2, <3>3
  <2> HIDE DEF old
  <2>3. Counted(old, ok) \in Closed /\ Counted(old, ok).good <= Counted(old, ok).count
    BY <2>2, CountedType
  <2>4. open' = [open EXCEPT ![p][v] = Counted(old, ok)]
    BY <1>2 DEF Record, old
  <2>5. /\ open' \in [Processes -> [Providers -> Closed]]
        /\ \A q \in Processes, u \in Providers : open'[q][u].good <= open'[q][u].count
    BY <2>3, <2>4 DEF TypeOK
  <2> QED
    BY <1>2, <2>5 DEF Record, TypeOK, Judged, status, notices
<1>3. ASSUME NEW p \in Processes, CloseDue(p) PROVE TypeInv'
  <2> DEFINE closed == {Summary(p, v) : v \in Due(p)}
             y == [AtRest EXCEPT !.step = "write"]
             z == [y EXCEPT !.at = now]
             x == [z EXCEPT !.todo = closed]
  <2>1. closed \in SUBSET Rows
    BY SummaryType DEF Due
  <2> HIDE DEF closed
  <2>2. /\ y \in Jobs /\ y.step = "write"
        /\ z \in Jobs /\ z.step = "write"
    <3>1. y \in Jobs /\ y.step = "write"
      BY <1>b DEF Jobs
    <3> HIDE DEF y
    <3> QED
      BY <3>1, <1>d DEF Jobs
  <2>3. Kept(x)
    <3> HIDE DEF z
    <3> QED
      BY <2>1, <2>2 DEF Jobs
  <2> HIDE DEF x
  <2>4. job' = [job EXCEPT ![p] = x]
    BY <1>3 DEF CloseDue, x, closed
  <2>5. NoWindow \in Closed /\ NoWindow.good <= NoWindow.count
    BY BoundsAssumption DEF NoWindow, Closed
  <2>6. /\ open' \in [Processes -> [Providers -> Closed]]
        /\ \A q \in Processes, v \in Providers : open'[q][v].good <= open'[q][v].count
    BY <1>3, <2>5 DEF CloseDue, TypeOK
  <2> QED
    BY <1>3, <1>c, <2>3, <2>4, <2>6 DEF CloseDue, TypeOK, Jobs, status, notices
<1>4. ASSUME NEW p \in Processes, WriteSummary(p) PROVE TypeInv'
  <2>1. PICK s \in job[p].todo :
          /\ summaries' = summaries \cup {s}
          /\ job' = [job EXCEPT ![p].todo = @ \ {s},
                                ![p].step = IF job[p].todo = {s} THEN "judge" ELSE "write"]
    BY <1>4 DEF WriteSummary
  <2> DEFINE step == IF job[p].todo = {s} THEN "judge" ELSE "write"
             y == [job[p] EXCEPT !.todo = @ \ {s}]
             x == [y EXCEPT !.step = step]
  <2>2. y \in Jobs
    BY <1>a DEF Jobs
  <2>3. x \in Jobs /\ x.step = step
    <3> HIDE DEF y
    <3> QED
      BY <2>2 DEF Jobs
  <2>4. Kept(x)
    BY <2>3
  <2>5. job' = [job EXCEPT ![p] = x]
    BY <1>a, <2>1
  <2>6. summaries' \in SUBSET Rows
    BY <1>a, <2>1 DEF TypeOK, Jobs
  <2> HIDE DEF x
  <2> QED
    BY <1>4, <1>c, <2>4, <2>5, <2>6 DEF WriteSummary, TypeOK, Jobs, traffic, status, notices
<1>5. ASSUME NEW p \in Processes, ReadSummaries(p) PROVE TypeInv'
  <2> DEFINE v == Verdict(Lookback(p))
             y == [job[p] EXCEPT !.step = "read"]
             x == [y EXCEPT !.verdict = v]
  <2>1. v \in Verdicts
    BY VerdictType
  <2> HIDE DEF v
  <2>2. y \in Jobs
    BY <1>a DEF Jobs
  <2>3. x \in Jobs /\ x.verdict = v
    <3> HIDE DEF y
    <3> QED
      BY <2>1, <2>2 DEF Jobs
  <2>4. Kept(x)
    BY <2>1, <2>3
  <2>5. job' = [job EXCEPT ![p] = x]
    BY <1>a, <1>5 DEF ReadSummaries, v
  <2> HIDE DEF x
  <2> QED
    BY <1>5, <1>c, <2>4, <2>5 DEF ReadSummaries, TypeOK, Jobs, traffic, status, notices
<1>6. ASSUME NEW p \in Processes, ReadState(p) PROVE TypeInv'
  <2> DEFINE y == [job[p] EXCEPT !.step = "cas"]
             x == [y EXCEPT !.previous = row]
  <2>1. y \in Jobs /\ y.verdict = job[p].verdict
    BY <1>a DEF Jobs
  <2>2. x \in Jobs /\ x.verdict = job[p].verdict
    <3> HIDE DEF y
    <3> QED
      BY <2>1 DEF Jobs, TypeOK
  <2>3. Kept(x)
    BY <1>a, <1>6, <2>2 DEF ReadState
  <2>4. job' = [job EXCEPT ![p] = x]
    BY <1>a, <1>6 DEF ReadState
  <2> HIDE DEF x
  <2> QED
    BY <1>6, <1>c, <2>3, <2>4 DEF ReadState, TypeOK, Jobs, traffic, status, notices
<1>7. ASSUME NEW p \in Processes, CasWins(p) PROVE TypeInv'
  <2>1. job[p] \in Jobs /\ job[p].verdict \in Verdicts
    BY <1>a, <1>7 DEF CasWins
  <2>2. Folded(p) \in States
    BY <2>1, FoldType DEF Folded, Jobs
  <2>3. Entry(p) \in [verdict : Verdicts, by : Processes, event : Events]
    BY <2>1, EventType DEF Entry
  <2>4. /\ folds' \in Seq([verdict : Verdicts, by : Processes, event : Events])
        /\ Len(folds') \in Nat \ {0}
    BY <1>7, <2>3 DEF CasWins, TypeOK
  <2>5. /\ row' \in States \cup {NoState}
        /\ mem' \in [Processes -> States \cup {NoState}]
        /\ seen' \in [Processes -> Nat]
        /\ outbox' \in [Processes -> SUBSET (Nat \ {0})]
    BY <1>7, <2>2, <2>4 DEF CasWins, TypeOK
  <2> QED
    BY <1>7, <1>b, <1>c, <2>4, <2>5 DEF CasWins, TypeOK, Jobs, traffic
<1>8. ASSUME NEW p \in Processes, CasLoses(p) PROVE TypeInv'
  <2> DEFINE x == [job[p] EXCEPT !.step = "lost"]
  <2>1. Kept(x)
    BY <1>a DEF Jobs
  <2> HIDE DEF x
  <2>2. job' = [job EXCEPT ![p] = x]
    BY <1>8 DEF CasLoses, x
  <2>3. outbox' = outbox
    BY <1>8 DEF CasLoses, AfterLoss, TypeOK
  <2> QED
    BY <1>8, <1>c, <2>1, <2>2, <2>3 DEF CasLoses, TypeOK, Jobs, traffic, status
<1>9. ASSUME NEW p \in Processes, Reread(p) PROVE TypeInv'
  <2>1. /\ mem' \in [Processes -> States \cup {NoState}]
        /\ seen' \in [Processes -> Nat]
    BY <1>9 DEF Reread, Shown, TypeOK
  <2> QED
    BY <1>9, <1>b, <1>c, <2>1 DEF Reread, TypeOK, Jobs, traffic, notices
<1>10. ASSUME NEW p \in Processes, TickFails(p) PROVE TypeInv'
  <2>1. faults' \in 0..MaxFaults
    BY <1>10, BoundsAssumption DEF TickFails, TypeOK
  <2> QED
    BY <1>10, <1>b, <1>c, <2>1 DEF TickFails, TypeOK, Jobs, traffic, status, notices
<1>11. ASSUME NEW p \in Processes, Restart(p) PROVE TypeInv'
  <2>1. faults' \in 0..MaxFaults
    BY <1>11, BoundsAssumption DEF Restart, TypeOK
  <2>2. NoWindow \in Closed /\ NoWindow.good <= NoWindow.count
    BY BoundsAssumption DEF NoWindow, Closed
  <2>3. /\ open' \in [Processes -> [Providers -> Closed]]
        /\ \A q \in Processes, v \in Providers : open'[q][v].good <= open'[q][v].count
    BY <1>11, <2>2 DEF Restart, TypeOK
  <2>4. /\ mem' \in [Processes -> States \cup {NoState}]
        /\ seen' \in [Processes -> Nat]
    <3>1. /\ Restored(row) \in States \cup {NoState} /\ Len(folds) \in Nat
          /\ mem \in [Processes -> States \cup {NoState}]
          /\ seen \in [Processes -> Nat]
      BY RestoredType DEF TypeOK
    <3>2. CASE /\ mem' = [mem EXCEPT ![p] = Restored(row)]
               /\ seen' = [seen EXCEPT ![p] = Len(folds)]
      BY <3>1, <3>2
    <3>3. CASE mem' = [mem EXCEPT ![p] = NoState] /\ seen' = [seen EXCEPT ![p] = 0]
      BY <3>1, <3>3
    <3> QED
      BY <1>11, <3>2, <3>3 DEF Restart
  <2>5. outbox' \in [Processes -> SUBSET (Nat \ {0})]
    BY <1>11 DEF Restart, TypeOK
  <2> QED
    BY <1>11, <1>b, <1>c, <2>1, <2>3, <2>4, <2>5 DEF Restart, TypeOK, Jobs
<1>12. ASSUME NEW p \in Processes, NEW n \in outbox[p], Deliver(p, n) PROVE TypeInv'
  <2>1. Notification(p, n) \in [fold : Nat \ {0}, by : Processes]
    BY DEF Notification, TypeOK
  <2>2. outbox' \in [Processes -> SUBSET (Nat \ {0})]
    BY <1>12 DEF Deliver, TypeOK
  <2> QED
    BY <1>12, <2>1, <2>2 DEF Deliver, TypeOK, Judged, traffic, status
<1>13. ASSUME NEW p \in Processes, NEW n \in outbox[p], Drop(p, n) PROVE TypeInv'
  <2>1. outbox' \in [Processes -> SUBSET (Nat \ {0})]
    BY <1>13 DEF Drop, TypeOK
  <2> QED
    BY <1>13, <2>1 DEF Drop, TypeOK, Judged, traffic, status
<1>14. CASE UNCHANGED vars
  BY <1>14 DEF vars, TypeOK, Judged
<1> QED
  BY <1>1, <1>2, <1>3, <1>4, <1>5, <1>6, <1>7, <1>8, <1>9, <1>10, <1>11, <1>12, <1>13, <1>14
     DEF Next, Work

(* UnmetMachine is type correct, and no tick compares and sets a state     *)
(* before it has a verdict (service.ts tick).                              *)
THEOREM TypeInvariant == Spec => []TypeInv
<1>1. Init => TypeInv
  BY TypeInit
<1>2. TypeInv /\ [Next]_vars => TypeInv'
  BY TypeStep
<1> QED
  BY <1>1, <1>2, PTL DEF Spec

(* Every variable of UnmetMachine keeps to its kind of value.              *)
THEOREM TypeCorrect == Spec => []TypeOK
BY TypeInvariant, PTL DEF TypeInv

-----------------------------------------------------------------------------
(* One notifier.  What waits in an outbox is a transition its process      *)
(* stored, and the history only grows.                                     *)
Stored(p, n) == n \in 1..Len(folds) /\ folds[n].event # "none" /\ folds[n].by = p

NotifierInv ==
  /\ \A p \in Processes : \A n \in outbox[p] : Stored(p, n)
  /\ \A m \in received : Stored(m.by, m.fold)

LEMMA NotifierStep ==
  TypeInv /\ NotifierInv /\ [Next]_vars => NotifierInv'
<1> SUFFICES ASSUME TypeInv, NotifierInv, [Next]_vars PROVE NotifierInv'
  OBVIOUS
<1> USE DEF TypeInv
<1>0. ASSUME UNCHANGED <<folds, outbox, received>> PROVE NotifierInv'
  BY <1>0 DEF NotifierInv, Stored
<1>1. ASSUME NEW p \in Processes, CasWins(p) PROVE NotifierInv'
  <2>1. /\ folds' = Append(folds, Entry(p)) /\ received' = received
        /\ outbox' = [outbox EXCEPT ![p] = @ \cup (IF Entry(p).event = "none" THEN {} ELSE {Len(folds')})]
    BY <1>1 DEF CasWins
  <2>2. folds \in Seq([verdict : Verdicts, by : Processes, event : Events])
    BY DEF TypeOK
  <2>3. /\ Len(folds') = Len(folds) + 1 /\ Len(folds) \in Nat
        /\ folds'[Len(folds')] = Entry(p)
        /\ \A n \in 1..Len(folds) : folds'[n] = folds[n]
    BY <2>1, <2>2
  <2>4. ASSUME NEW q, NEW n, Stored(q, n) PROVE Stored(q, n)'
    BY <2>3, <2>4 DEF Stored
  <2>5. /\ Len(folds') \in 1..Len(folds')
        /\ folds'[Len(folds')].by = p /\ folds'[Len(folds')].event = Entry(p).event
    BY <2>3 DEF Entry
  <2>6. ASSUME NEW q \in Processes, NEW n \in outbox'[q] PROVE Stored(q, n)'
    <3>1. CASE n \in outbox[q]
      BY <2>4, <3>1 DEF NotifierInv
    <3>2. CASE n \notin outbox[q]
      <4>1. q = p /\ Entry(p).event # "none" /\ n = Len(folds')
        BY <2>1, <2>6, <3>2 DEF TypeOK
      <4> QED
        BY <2>5, <4>1 DEF Stored
    <3> QED
      BY <3>1, <3>2
  <2> QED
    BY <2>1, <2>4, <2>6 DEF NotifierInv
<1>2. ASSUME NEW p \in Processes, NEW n \in outbox[p], Deliver(p, n) PROVE NotifierInv'
  <2>1. Stored(p, n)
    BY DEF NotifierInv
  <2>2. /\ folds' = folds /\ received' = received \cup {Notification(p, n)}
        /\ \A q \in Processes : outbox'[q] \subseteq outbox[q]
    BY <1>2 DEF Deliver, status, TypeOK
  <2> QED
    BY <2>1, <2>2 DEF NotifierInv, Stored, Notification
<1>3. ASSUME NEW p \in Processes, NEW n \in outbox[p], Drop(p, n) PROVE NotifierInv'
  <2>1. /\ folds' = folds /\ received' = received
        /\ \A q \in Processes : outbox'[q] \subseteq outbox[q]
    BY <1>3 DEF Drop, status, TypeOK
  <2> QED
    BY <2>1 DEF NotifierInv, Stored
<1>4. ASSUME NEW p \in Processes, Restart(p) PROVE NotifierInv'
  <2>1. /\ folds' = folds /\ received' = received
        /\ \A q \in Processes : outbox'[q] \subseteq outbox[q]
    BY <1>4 DEF Restart, TypeOK
  <2> QED
    BY <2>1 DEF NotifierInv, Stored
<1>5. ASSUME NEW p \in Processes, CasLoses(p) PROVE NotifierInv'
  <2>1. outbox' = outbox /\ folds' = folds /\ received' = received
    BY <1>5 DEF CasLoses, AfterLoss, TypeOK
  <2> QED
    BY <1>0, <2>1
<1>6. CASE Tick
  BY <1>0, <1>6 DEF Tick, notices
<1>7. ASSUME NEW p \in Processes,
             CloseDue(p) \/ WriteSummary(p) \/ ReadSummaries(p) \/ ReadState(p) \/ Reread(p) \/ TickFails(p)
      PROVE  NotifierInv'
  BY <1>0, <1>7 DEF CloseDue, WriteSummary, ReadSummaries, ReadState, Reread, TickFails, notices
<1>8. ASSUME NEW p \in Processes, NEW v \in Providers, NEW ok \in BOOLEAN, Record(p, v, ok)
      PROVE  NotifierInv'
  BY <1>0, <1>8 DEF Record, notices
<1>9. CASE UNCHANGED vars
  BY <1>0, <1>9 DEF vars
<1> QED
  BY <1>1, <1>2, <1>3, <1>4, <1>5, <1>6, <1>7, <1>8, <1>9 DEF Next, Work

(* However many processes share the store and however often one of them    *)
(* restarts or a delivery is repeated, a notification the customer         *)
(* receives is of a stored transition and from the process that stored it  *)
(* (service.ts #advanceUnmet over store.ts casUnmetState).                 *)
THEOREM NotifiedByOne == Spec => []OneNotifier
<1>1. Init => NotifierInv
  BY DEF Init, NotifierInv
<1>2. TypeInv /\ NotifierInv /\ [Next]_vars => NotifierInv'
  BY NotifierStep
<1>3. TypeInv /\ NotifierInv => OneNotifier
  BY DEF TypeInv, TypeOK, NotifierInv, Stored, OneNotifier
<1> QED
  BY <1>1, <1>2, <1>3, TypeInvariant, PTL DEF Spec

-----------------------------------------------------------------------------
(* The two-window rule.  The streaks of the stored state say what the last *)
(* evidence of the history was, and the flag what the rule makes of it.    *)
Raised(h, n) == Abstract!Raised(h, n)

(* h[i] is the last evidence among the first n verdicts of h.              *)
LastEvidence(h, n, v, i) ==
  /\ i \in 1..n /\ h[i] = v
  /\ \A k \in i + 1..n : h[k] = "indeterminate"

Reflects(s, h, n) ==
  /\ s.unmet <=> Raised(h, n)
  /\ s.missed >= 1 <=> \E i \in 1..n : LastEvidence(h, n, "missed", i)
  /\ s.held >= 1 <=> \E i \in 1..n : LastEvidence(h, n, "held", i)

LEMMA RaisedByPrefix ==
  ASSUME NEW g, NEW h, NEW n \in Nat, \A k \in 1..n : g[k] = h[k]
  PROVE  Raised(g, n) = Raised(h, n)
<1>1. ASSUME NEW i \in 1..n, NEW j \in 1..n, NEW v
      PROVE  Abstract!Consecutive(g, v, i, j) <=> Abstract!Consecutive(h, v, i, j)
  <2>1. \A k \in i + 1..j - 1 : k \in 1..n
    OBVIOUS
  <2> QED
    BY <2>1 DEF Abstract!Consecutive
<1>2. ASSUME NEW j \in 1..n, NEW k \in j + 1..n PROVE k \in 1..n
  OBVIOUS
<1> QED
  BY <1>1, <1>2 DEF Raised, Abstract!Raised

LEMMA ReflectsByPrefix ==
  ASSUME NEW s, NEW g, NEW h, NEW n \in Nat, \A k \in 1..n : g[k] = h[k], Reflects(s, h, n)
  PROVE  Reflects(s, g, n)
<1>1. \A v, i : LastEvidence(g, n, v, i) <=> LastEvidence(h, n, v, i)
  <2> TAKE v, i
  <2>1. i \in 1..n => \A k \in i + 1..n : k \in 1..n
    OBVIOUS
  <2> QED
    BY <2>1 DEF LastEvidence
<1> QED
  BY <1>1, RaisedByPrefix DEF Reflects

(* An indeterminate window changes nothing.                                *)
LEMMA IndeterminateChangesNothing ==
  ASSUME NEW h, NEW n \in Nat, h[n + 1] = "indeterminate"
  PROVE  /\ Raised(h, n + 1) <=> Raised(h, n)
         /\ \A v \in {"missed", "held"} :
              (\E i \in 1..n + 1 : LastEvidence(h, n + 1, v, i))
                <=> (\E i \in 1..n : LastEvidence(h, n, v, i))
<1>1. \A i, j, v : v # "indeterminate" /\ Abstract!Consecutive(h, v, i, j) => i # n + 1 /\ j # n + 1
  BY DEF Abstract!Consecutive
<1>2. \A i : i \in 1..n + 1 /\ i # n + 1 <=> i \in 1..n
  OBVIOUS
<1>3. \A j \in 1..n : \A k : k \in j + 1..n + 1 /\ k # n + 1 <=> k \in j + 1..n
  OBVIOUS
<1>4. Raised(h, n + 1) <=> Raised(h, n)
  <2>1. ASSUME Raised(h, n + 1) PROVE Raised(h, n)
    <3>1. PICK i \in 1..n + 1, j \in 1..n + 1 :
            /\ Abstract!Consecutive(h, "missed", i, j)
            /\ ~\E k, l \in j + 1..n + 1 : Abstract!Consecutive(h, "held", k, l)
      BY <2>1 DEF Raised, Abstract!Raised
    <3>2. i \in 1..n /\ j \in 1..n
      BY <1>1, <1>2, <3>1
    <3>3. ~\E k, l \in j + 1..n : Abstract!Consecutive(h, "held", k, l)
      BY <1>3, <3>1, <3>2
    <3> QED
      BY <3>1, <3>2, <3>3 DEF Raised, Abstract!Raised
  <2>2. ASSUME Raised(h, n) PROVE Raised(h, n + 1)
    <3>1. PICK i \in 1..n, j \in 1..n :
            /\ Abstract!Consecutive(h, "missed", i, j)
            /\ ~\E k, l \in j + 1..n : Abstract!Consecutive(h, "held", k, l)
      BY <2>2 DEF Raised, Abstract!Raised
    <3>2. ~\E k, l \in j + 1..n + 1 : Abstract!Consecutive(h, "held", k, l)
      BY <1>1, <1>3, <3>1
    <3>3. i \in 1..n + 1 /\ j \in 1..n + 1
      BY <1>2
    <3> QED
      BY <3>1, <3>2, <3>3 DEF Raised, Abstract!Raised
  <2> QED
    BY <2>1, <2>2
<1>5. ASSUME NEW v \in {"missed", "held"}, NEW i
      PROVE  LastEvidence(h, n + 1, v, i) <=> LastEvidence(h, n, v, i)
  <2>1. LastEvidence(h, n + 1, v, i) => i # n + 1
    BY DEF LastEvidence
  <2>2. i \in 1..n => \A k : k \in i + 1..n + 1 <=> k = n + 1 \/ k \in i + 1..n
    OBVIOUS
  <2> QED
    BY <1>2, <2>1, <2>2 DEF LastEvidence
<1>6. \A v \in {"missed", "held"} : \A i : LastEvidence(h, n, v, i) => i \in 1..n + 1 /\ i \in 1..n
  BY <1>2 DEF LastEvidence
<1> QED
  BY <1>4, <1>5, <1>6

(* The first evidence of one kind ends the streak of the other.            *)
LEMMA EvidenceIsLast ==
  ASSUME NEW h, NEW n \in Nat, NEW v \in {"missed", "held"}, h[n + 1] = v
  PROVE  /\ LastEvidence(h, n + 1, v, n + 1)
         /\ \A w \in {"missed", "held"} \ {v} : ~\E i \in 1..n + 1 : LastEvidence(h, n + 1, w, i)
<1>1. n + 1 \in 1..n + 1 /\ n + 1 + 1..n + 1 = {}
  OBVIOUS
<1>2. ASSUME NEW w \in {"missed", "held"} \ {v}, NEW i \in 1..n + 1, LastEvidence(h, n + 1, w, i)
      PROVE  FALSE
  <2>1. CASE i = n + 1
    BY <1>2, <2>1 DEF LastEvidence
  <2>2. CASE i # n + 1
    <3>1. n + 1 \in i + 1..n + 1
      BY <2>2
    <3> QED
      BY <1>2, <3>1 DEF LastEvidence
  <2> QED
    BY <2>1, <2>2
<1> QED
  BY <1>1, <1>2 DEF LastEvidence

(* The last evidence, with evidence of its kind, is a consecutive pair.    *)
LEMMA PairAtEnd ==
  ASSUME NEW h, NEW n \in Nat, NEW v \in {"missed", "held"}, h[n + 1] = v, NEW i \in 1..n
  PROVE  Abstract!Consecutive(h, v, i, n + 1) <=> LastEvidence(h, n, v, i)
<1>1. i < n + 1 /\ i + 1..n + 1 - 1 = i + 1..n
  OBVIOUS
<1> QED
  BY <1>1 DEF Abstract!Consecutive, LastEvidence

(* A missed window raises the flag if the last evidence was another one.   *)
LEMMA MissedRaises ==
  ASSUME NEW h, NEW n \in Nat, h[n + 1] = "missed"
  PROVE  Raised(h, n + 1) <=> Raised(h, n) \/ \E i \in 1..n : LastEvidence(h, n, "missed", i)
<1>1. \A j \in 1..n : \A k, l \in j + 1..n + 1 :
        Abstract!Consecutive(h, "held", k, l) => k \in j + 1..n /\ l \in j + 1..n
  <2> TAKE j \in 1..n
  <2> TAKE k, l \in j + 1..n + 1
  <2>1. Abstract!Consecutive(h, "held", k, l) => k # n + 1 /\ l # n + 1
    BY DEF Abstract!Consecutive
  <2> QED
    BY <2>1
<1>2. ASSUME Raised(h, n) PROVE Raised(h, n + 1)
  <2>1. PICK i \in 1..n, j \in 1..n :
          /\ Abstract!Consecutive(h, "missed", i, j)
          /\ ~\E k, l \in j + 1..n : Abstract!Consecutive(h, "held", k, l)
    BY <1>2 DEF Raised, Abstract!Raised
  <2>2. i \in 1..n + 1 /\ j \in 1..n + 1
    OBVIOUS
  <2>3. ~\E k, l \in j + 1..n + 1 : Abstract!Consecutive(h, "held", k, l)
    BY <1>1, <2>1
  <2> QED
    BY <2>1, <2>2, <2>3 DEF Raised, Abstract!Raised
<1>3. ASSUME NEW i \in 1..n, LastEvidence(h, n, "missed", i) PROVE Raised(h, n + 1)
  <2>1. Abstract!Consecutive(h, "missed", i, n + 1)
    BY <1>3, PairAtEnd
  <2>2. i \in 1..n + 1 /\ n + 1 \in 1..n + 1 /\ n + 1 + 1..n + 1 = {}
    OBVIOUS
  <2> QED
    BY <2>1, <2>2 DEF Raised, Abstract!Raised
<1>4. ASSUME Raised(h, n + 1)
      PROVE  Raised(h, n) \/ \E i \in 1..n : LastEvidence(h, n, "missed", i)
  <2>1. PICK i \in 1..n + 1, j \in 1..n + 1 :
          /\ Abstract!Consecutive(h, "missed", i, j)
          /\ ~\E k, l \in j + 1..n + 1 : Abstract!Consecutive(h, "held", k, l)
    BY <1>4 DEF Raised, Abstract!Raised
  <2>2. i < j
    BY <2>1 DEF Abstract!Consecutive
  <2>3. CASE j = n + 1
    <3>1. i \in 1..n
      BY <2>2, <2>3
    <3> QED
      BY <2>1, <2>3, <3>1, PairAtEnd
  <2>4. CASE j # n + 1
    <3>1. i \in 1..n /\ j \in 1..n /\ j + 1..n \subseteq j + 1..n + 1
      BY <2>2, <2>4
    <3> QED
      BY <2>1, <3>1 DEF Raised, Abstract!Raised
  <2> QED
    BY <2>3, <2>4
<1> QED
  BY <1>2, <1>3, <1>4

(* A held window clears the flag if the last evidence was another one.     *)
LEMMA HeldClears ==
  ASSUME NEW h, NEW n \in Nat, h[n + 1] = "held"
  PROVE  Raised(h, n + 1) <=> Raised(h, n) /\ ~\E i \in 1..n : LastEvidence(h, n, "held", i)
<1>1. ASSUME Raised(h, n), ~\E i \in 1..n : LastEvidence(h, n, "held", i)
      PROVE  Raised(h, n + 1)
  <2>1. PICK i \in 1..n, j \in 1..n :
          /\ Abstract!Consecutive(h, "missed", i, j)
          /\ ~\E k, l \in j + 1..n : Abstract!Consecutive(h, "held", k, l)
    BY <1>1 DEF Raised, Abstract!Raised
  <2>2. i \in 1..n + 1 /\ j \in 1..n + 1
    OBVIOUS
  <2>3. ASSUME NEW k \in j + 1..n + 1, NEW l \in j + 1..n + 1, Abstract!Consecutive(h, "held", k, l)
        PROVE  FALSE
    <3>1. k < l
      BY <2>3 DEF Abstract!Consecutive
    <3>2. CASE l = n + 1
      <4>1. k \in 1..n
        BY <3>1, <3>2
      <4> QED
        BY <1>1, <2>3, <3>2, <4>1, PairAtEnd
    <3>3. CASE l # n + 1
      <4>1. k \in j + 1..n /\ l \in j + 1..n
        BY <3>1, <3>3
      <4> QED
        BY <2>1, <2>3, <4>1
    <3> QED
      BY <3>2, <3>3
  <2> QED
    BY <2>1, <2>2, <2>3 DEF Raised, Abstract!Raised
<1>2. ASSUME Raised(h, n + 1)
      PROVE  Raised(h, n) /\ ~\E i \in 1..n : LastEvidence(h, n, "held", i)
  <2>1. PICK i \in 1..n + 1, j \in 1..n + 1 :
          /\ Abstract!Consecutive(h, "missed", i, j)
          /\ ~\E k, l \in j + 1..n + 1 : Abstract!Consecutive(h, "held", k, l)
    BY <1>2 DEF Raised, Abstract!Raised
  <2>2. i < j /\ h[j] = "missed" /\ j # n + 1
    BY <2>1 DEF Abstract!Consecutive
  <2>3. i \in 1..n /\ j \in 1..n /\ j + 1..n \subseteq j + 1..n + 1
    BY <2>2
  <2>4. Raised(h, n)
    BY <2>1, <2>3 DEF Raised, Abstract!Raised
  <2>5. ASSUME NEW k \in 1..n, LastEvidence(h, n, "held", k) PROVE FALSE
    <3>1. CASE k < j
      <4>1. j \in k + 1..n
        BY <2>3, <3>1
      <4> QED
        BY <2>2, <2>5, <4>1 DEF LastEvidence
    <3>2. CASE k = j
      BY <2>2, <2>5, <3>2 DEF LastEvidence
    <3>3. CASE k > j
      <4>1. k \in j + 1..n + 1 /\ n + 1 \in j + 1..n + 1
        BY <2>3, <3>3
      <4>2. Abstract!Consecutive(h, "held", k, n + 1)
        BY <2>5, PairAtEnd
      <4> QED
        BY <2>1, <4>1, <4>2
    <3> QED
      BY <2>3, <3>1, <3>2, <3>3
  <2> QED
    BY <2>4, <2>5
<1> QED
  BY <1>1, <1>2

(* foldWindow computes the rule: one verdict more in the history, one fold *)
(* more in the state.                                                      *)
LEMMA FoldFollowsRule ==
  ASSUME NEW s \in States \cup {NoState}, NEW v \in Verdicts, NEW at \in 0..MaxTime,
         NEW h, NEW n \in Nat, h[n + 1] = v, Reflects(Known(s), h, n)
  PROVE  Reflects(Fold(s, v, at), h, n + 1)
<1> DEFINE t == Known(s)
           f == Fold(s, v, at)
<1>1. t \in States
  BY KnownType
<1>2. t.unmet \in BOOLEAN /\ t.missed \in Nat /\ t.held \in Nat
  BY <1>1 DEF States
<1>3. CASE v = "indeterminate"
  <2>1. f.unmet = t.unmet /\ f.missed = t.missed /\ f.held = t.held
    BY <1>1, <1>3 DEF Fold, States
  <2>2. /\ Raised(h, n + 1) <=> Raised(h, n)
        /\ (\E i \in 1..n + 1 : LastEvidence(h, n + 1, "missed", i))
             <=> (\E i \in 1..n : LastEvidence(h, n, "missed", i))
        /\ (\E i \in 1..n + 1 : LastEvidence(h, n + 1, "held", i))
             <=> (\E i \in 1..n : LastEvidence(h, n, "held", i))
    BY <1>3, IndeterminateChangesNothing
  <2>3. Reflects(t, h, n)
    OBVIOUS
  <2> HIDE DEF f, t
  <2>4. Reflects(f, h, n + 1)
    BY <2>1, <2>2, <2>3 DEF Reflects
  <2> QED
    BY <2>4 DEF f
<1>4. CASE v = "missed"
  <2> DEFINE u == (~t.unmet /\ t.missed + 1 >= 2) \/ (t.unmet /\ 0 < 2)
  <2>1. f = [unmet |-> u, missed |-> t.missed + 1, held |-> 0, at |-> at]
    BY <1>4 DEF Fold
  <2>2. u <=> t.unmet \/ t.missed >= 1
    BY <1>2
  <2> HIDE DEF f, t, u
  <2>3. f.unmet <=> t.unmet \/ t.missed >= 1
    BY <2>1, <2>2
  <2>4. f.missed >= 1 /\ ~(f.held >= 1)
    BY <1>2, <2>1
  <2>5. (t.unmet <=> Raised(h, n)) /\ (t.missed >= 1 <=> \E i \in 1..n : LastEvidence(h, n, "missed", i))
    BY DEF Reflects, t
  <2>6. f.unmet <=> Raised(h, n + 1)
    BY <1>4, <2>3, <2>5, MissedRaises
  <2>7. /\ \E i \in 1..n + 1 : LastEvidence(h, n + 1, "missed", i)
        /\ ~\E i \in 1..n + 1 : LastEvidence(h, n + 1, "held", i)
    BY <1>4, EvidenceIsLast DEF LastEvidence
  <2> QED
    BY <2>4, <2>6, <2>7 DEF Reflects, f
<1>5. CASE v = "held"
  <2> DEFINE u == (~t.unmet /\ 0 >= 2) \/ (t.unmet /\ t.held + 1 < 2)
  <2>1. f = [unmet |-> u, missed |-> 0, held |-> t.held + 1, at |-> at]
    BY <1>5 DEF Fold
  <2>2. u <=> t.unmet /\ ~(t.held >= 1)
    BY <1>2
  <2> HIDE DEF f, t, u
  <2>3. f.unmet <=> t.unmet /\ ~(t.held >= 1)
    BY <2>1, <2>2
  <2>4. ~(f.missed >= 1) /\ f.held >= 1
    BY <1>2, <2>1
  <2>5. (t.unmet <=> Raised(h, n)) /\ (t.held >= 1 <=> \E i \in 1..n : LastEvidence(h, n, "held", i))
    BY DEF Reflects, t
  <2>6. f.unmet <=> Raised(h, n + 1)
    BY <1>5, <2>3, <2>5, HeldClears
  <2>7. /\ \E i \in 1..n + 1 : LastEvidence(h, n + 1, "held", i)
        /\ ~\E i \in 1..n + 1 : LastEvidence(h, n + 1, "missed", i)
    BY <1>5, EvidenceIsLast DEF LastEvidence
  <2> QED
    BY <2>4, <2>6, <2>7 DEF Reflects, f
<1> QED
  BY <1>3, <1>4, <1>5 DEF Verdicts

-----------------------------------------------------------------------------
(* The stored state reflects the whole history, and what a process shows   *)
(* reflects the part of it the process has seen.                           *)
EventsFollow ==
  \A n \in 1..Len(folds) :
    /\ folds[n].event = "entered" <=> Raised(History, n) /\ ~Raised(History, n - 1)
    /\ folds[n].event = "left" <=> ~Raised(History, n) /\ Raised(History, n - 1)

Shows(p) ==
  /\ seen[p] \in 0..Len(folds)
  /\ Known(mem[p]).unmet <=> Raised(History, seen[p])

RuleInv ==
  /\ Reflects(Known(row), History, Len(folds))
  /\ EventsFollow
  /\ \A p \in Processes : Shows(p)

LEMMA NothingIsNotRaised ==
  ASSUME NEW h
  PROVE  ~Raised(h, 0)
BY DEF Raised, Abstract!Raised

LEMMA NothingReflects ==
  ASSUME NEW h
  PROVE  Reflects(Known(NoState), h, 0)
BY NothingIsNotRaised DEF Reflects, Known

LEMMA RuleInit ==
  Init => RuleInv
<1> SUFFICES ASSUME Init PROVE RuleInv
  OBVIOUS
<1>1. Len(folds) = 0 /\ row = NoState
  BY DEF Init
<1>2. \A p \in Processes : seen[p] = 0 /\ mem[p] = NoState
  BY DEF Init
<1>3. ~Known(NoState).unmet
  BY DEF Known
<1> QED
  BY <1>1, <1>2, <1>3, NothingReflects, NothingIsNotRaised DEF RuleInv, EventsFollow, Shows

LEMMA ElementOf ==
  ASSUME NEW S, NEW q \in Seq(S), NEW n \in 1..Len(q)
  PROVE  q[n] \in S
OBVIOUS

(* The one step that extends the history.                                  *)
LEMMA RecordedVerdict ==
  ASSUME TypeInv, RuleInv, NEW p \in Processes, CasWins(p)
  PROVE  /\ Len(folds') = Len(folds) + 1 /\ Len(folds) \in Nat
         /\ History'[Len(folds) + 1] = job[p].verdict
         /\ \A n \in 1..Len(folds) : History'[n] = History[n] /\ folds'[n] = folds[n]
         /\ folds'[Len(folds) + 1] = Entry(p)
         /\ History' = Append(History, job[p].verdict)
         /\ Reflects(Known(row), History', Len(folds))
         /\ Reflects(Known(row'), History', Len(folds) + 1)
         /\ row' \in States /\ job[p].verdict \in Verdicts /\ job[p].previous = row
<1>1. folds \in Seq([verdict : Verdicts, by : Processes, event : Events])
  BY DEF TypeInv, TypeOK
<1>2. folds' = Append(folds, Entry(p)) /\ row' = Folded(p) /\ job[p].previous = row
  BY DEF CasWins, Wins
<1>3. /\ Len(folds') = Len(folds) + 1 /\ Len(folds) \in Nat
      /\ folds'[Len(folds) + 1] = Entry(p)
      /\ \A n \in 1..Len(folds) : folds'[n] = folds[n]
  BY <1>1, <1>2
<1>4. /\ History'[Len(folds) + 1] = job[p].verdict
      /\ \A n \in 1..Len(folds) : History'[n] = History[n]
  BY <1>3 DEF History, Entry
<1>5. History \in Seq(Verdicts) /\ Len(History) = Len(folds)
  <2>1. ASSUME NEW n \in 1..Len(folds) PROVE folds[n].verdict \in Verdicts
    <3>1. folds[n] \in [verdict : Verdicts, by : Processes, event : Events]
      BY <1>1, ElementOf
    <3> QED
      BY <3>1
  <2>2. History \in [1..Len(folds) -> Verdicts]
    BY <2>1 DEF History
  <2> QED
    BY <1>3, <2>2
<1>6. job[p].verdict \in Verdicts /\ job[p].at \in 0..MaxTime /\ row \in States \cup {NoState}
  BY DEF TypeInv, TypeOK, Judged, CasWins
<1>7. History' = Append(History, job[p].verdict)
  <2>1. History' = [n \in 1..Len(folds) + 1 |-> folds'[n].verdict]
    BY <1>3 DEF History
  <2>2. Append(History, job[p].verdict)
          = [n \in 1..Len(folds) + 1 |-> IF n = Len(folds) + 1 THEN job[p].verdict ELSE History[n]]
    BY <1>3, <1>5, <1>6
  <2>3. \A n \in 1..Len(folds) + 1 :
          folds'[n].verdict = IF n = Len(folds) + 1 THEN job[p].verdict ELSE History[n]
    BY <1>3 DEF Entry, History
  <2> QED
    BY <2>1, <2>2, <2>3
<1>8. Reflects(Known(row), History', Len(folds))
  BY <1>3, <1>4, ReflectsByPrefix DEF RuleInv
<1>9. Reflects(Known(row'), History', Len(folds) + 1)
  <2>1. Folded(p) = Fold(row, job[p].verdict, job[p].at)
    BY <1>2 DEF Folded
  <2>2. Reflects(Folded(p), History', Len(folds) + 1)
    BY <1>3, <1>4, <1>6, <1>8, <2>1, FoldFollowsRule
  <2>3. Known(Folded(p)) = Folded(p)
    BY <1>6, <2>1, FoldType, NoStateAssumption DEF Known
  <2> QED
    BY <1>2, <2>2, <2>3
<1>10. row' \in States
  BY <1>2, <1>6, FoldType DEF Folded
<1> QED
  BY <1>2, <1>3, <1>4, <1>6, <1>7, <1>8, <1>9, <1>10

LEMMA RestoredKeepsFlag ==
  ASSUME NEW s \in States \cup {NoState}
  PROVE  Known(Restored(s)).unmet = Known(s).unmet
<1>1. CASE Restored(s) = s
  BY <1>1
<1>2. CASE Restored(s) # s
  <2>1. s \in States /\ Restored(s) = [s EXCEPT !.missed = 0, !.held = 0]
    BY <1>2 DEF Restored
  <2> DEFINE y == [s EXCEPT !.missed = 0]
  <2>2. y \in States /\ y.unmet = s.unmet
    BY <2>1 DEF States
  <2>3. [y EXCEPT !.held = 0] \in States /\ [y EXCEPT !.held = 0].unmet = y.unmet
    <3> HIDE DEF y
    <3> QED
      BY <2>2 DEF States
  <2> QED
    BY <2>1, <2>2, <2>3, NoStateAssumption DEF Known
<1> QED
  BY <1>1, <1>2

LEMMA RuleStep ==
  TypeInv /\ RuleInv /\ [Next]_vars => RuleInv'
<1> SUFFICES ASSUME TypeInv, RuleInv, [Next]_vars PROVE RuleInv'
  OBVIOUS
<1>0. ASSUME UNCHANGED <<row, folds, mem, seen>> PROVE RuleInv'
  <2>1. History' = History
    BY <1>0 DEF History
  <2> QED
    BY <1>0, <2>1 DEF RuleInv, EventsFollow, Shows, Reflects
<1>a. Len(folds) \in Nat
  BY DEF TypeInv, TypeOK
<1>1. ASSUME NEW p \in Processes, CasWins(p) PROVE RuleInv'
  <2> DEFINE n == Len(folds)
  <2>1. /\ Len(folds') = n + 1
        /\ \A k \in 1..n : History'[k] = History[k] /\ folds'[k] = folds[k]
        /\ folds'[n + 1] = Entry(p)
        /\ Reflects(Known(row), History', n)
        /\ Reflects(Known(row'), History', n + 1)
        /\ row' \in States /\ job[p].previous = row
    BY <1>1, RecordedVerdict
  <2>2. \A k \in 0..n : Raised(History', k) = Raised(History, k)
    <3> TAKE k \in 0..n
    <3>1. \A i \in 1..k : History'[i] = History[i]
      BY <1>a, <2>1
    <3> QED
      BY <1>a, <3>1, RaisedByPrefix
  <2>3. EventsFollow'
    <3>1. ASSUME NEW k \in 1..n
          PROVE  /\ folds'[k].event = "entered" <=> Raised(History', k) /\ ~Raised(History', k - 1)
                 /\ folds'[k].event = "left" <=> ~Raised(History', k) /\ Raised(History', k - 1)
      BY <1>a, <2>1, <2>2 DEF RuleInv, EventsFollow
    <3>2. Entry(p).event = Event(row, row')
      BY <1>1, <2>1 DEF Entry, CasWins
    <3>3. Known(row') = row'
      BY <2>1, NoStateAssumption DEF Known
    <3>4. /\ Event(row, row') = "entered" <=> row'.unmet /\ ~Known(row).unmet
          /\ Event(row, row') = "left" <=> ~row'.unmet /\ Known(row).unmet
      BY DEF Event
    <3>5. /\ folds'[n + 1].event = "entered" <=> Raised(History', n + 1) /\ ~Raised(History', n)
          /\ folds'[n + 1].event = "left" <=> ~Raised(History', n + 1) /\ Raised(History', n)
      BY <2>1, <3>2, <3>3, <3>4 DEF Reflects
    <3>6. \A k \in 1..n + 1 : k \in 1..n \/ (k = n + 1 /\ k - 1 = n)
      BY <1>a
    <3> QED
      BY <2>1, <3>1, <3>5, <3>6 DEF EventsFollow
  <2>4. ASSUME NEW q \in Processes PROVE Shows(q)'
    <3>1. CASE q = p
      <4>1. mem'[q] = row' /\ seen'[q] = n + 1
        BY <1>1, <2>1, <3>1 DEF CasWins, TypeInv, TypeOK
      <4> QED
        BY <1>a, <2>1, <4>1 DEF Shows, Reflects
    <3>2. CASE q # p
      <4>1. mem'[q] = mem[q] /\ seen'[q] = seen[q]
        BY <1>1, <3>2 DEF CasWins, TypeInv, TypeOK
      <4>2. seen[q] \in 0..n /\ (Known(mem[q]).unmet <=> Raised(History, seen[q]))
        BY DEF RuleInv, Shows
      <4> QED
        BY <1>a, <2>1, <2>2, <4>1, <4>2 DEF Shows
    <3> QED
      BY <3>1, <3>2
  <2> QED
    BY <2>1, <2>3, <2>4 DEF RuleInv
<1>b. ASSUME NEW p \in Processes, row' = row, folds' = folds,
             \A q \in Processes \ {p} : mem'[q] = mem[q] /\ seen'[q] = seen[q], Shows(p)'
      PROVE  RuleInv'
  <2>1. History' = History
    BY <1>b DEF History
  <2> QED
    BY <1>b, <2>1 DEF RuleInv, EventsFollow, Shows, Reflects
<1>2. ASSUME NEW p \in Processes, Reread(p) PROVE RuleInv'
  <2>1. /\ row' = row /\ folds' = folds /\ mem'[p] = row /\ seen'[p] = Len(folds)
        /\ \A q \in Processes \ {p} : mem'[q] = mem[q] /\ seen'[q] = seen[q]
    BY <1>2 DEF Reread, Shown, TypeInv, TypeOK
  <2>2. Shows(p)'
    BY <1>a, <2>1 DEF Shows, RuleInv, Reflects, History
  <2> QED
    BY <1>b, <2>1, <2>2
<1>3. ASSUME NEW p \in Processes, Restart(p) PROVE RuleInv'
  <2>1. /\ row' = row /\ folds' = folds
        /\ \A q \in Processes \ {p} : mem'[q] = mem[q] /\ seen'[q] = seen[q]
        /\ \/ mem'[p] = Restored(row) /\ seen'[p] = Len(folds)
           \/ mem'[p] = NoState /\ seen'[p] = 0
    BY <1>3 DEF Restart, TypeInv, TypeOK
  <2>2. Known(Restored(row)).unmet = Known(row).unmet
    BY RestoredKeepsFlag DEF TypeInv, TypeOK
  <2>3. Shows(p)'
    <3>1. CASE mem'[p] = Restored(row) /\ seen'[p] = Len(folds)
      BY <1>a, <2>1, <2>2, <3>1 DEF Shows, RuleInv, Reflects, History
    <3>2. CASE mem'[p] = NoState /\ seen'[p] = 0
      BY <1>a, <2>1, <3>2, NothingIsNotRaised DEF Shows, Known
    <3> QED
      BY <2>1, <3>1, <3>2
  <2> QED
    BY <1>b, <2>1, <2>3
<1>4. CASE Tick
  BY <1>0, <1>4 DEF Tick, status
<1>5. ASSUME NEW p \in Processes,
             CloseDue(p) \/ WriteSummary(p) \/ ReadSummaries(p) \/ ReadState(p) \/ CasLoses(p) \/ TickFails(p)
      PROVE  RuleInv'
  BY <1>0, <1>5 DEF CloseDue, WriteSummary, ReadSummaries, ReadState, CasLoses, TickFails, status
<1>6. ASSUME NEW p \in Processes, NEW v \in Providers, NEW ok \in BOOLEAN, Record(p, v, ok)
      PROVE  RuleInv'
  BY <1>0, <1>6 DEF Record, status
<1>7. ASSUME NEW p \in Processes, NEW n \in outbox[p], Deliver(p, n) \/ Drop(p, n)
      PROVE  RuleInv'
  BY <1>0, <1>7 DEF Deliver, Drop, status
<1>8. CASE UNCHANGED vars
  BY <1>0, <1>8 DEF vars
<1> QED
  BY <1>1, <1>2, <1>3, <1>4, <1>5, <1>6, <1>7, <1>8 DEF Next, Work

(* The invariant behind TwoWindowRule: the stored streaks are those of the *)
(* history, the events follow it, and every process shows a point of it    *)
(* (unmet.ts foldWindow, service.ts #advanceUnmet).                        *)
THEOREM RuleInvariant == Spec => []RuleInv
BY RuleInit, RuleStep, TypeInvariant, PTL DEF Spec

(* However many processes fold windows into one stored state, the flag is  *)
(* what two consecutive missed and two consecutive held windows make it    *)
(* over every recorded verdict, and exactly the windows that cross a       *)
(* boundary report a transition (unmet.ts foldWindow, store.ts             *)
(* casUnmetState).                                                         *)
THEOREM TwoWindows == Spec => []TwoWindowRule
<1>1. TypeInv /\ RuleInv => TwoWindowRule
  <2> SUFFICES ASSUME TypeInv, RuleInv PROVE TwoWindowRule
    OBVIOUS
  <2>1. Known(row).unmet \in BOOLEAN
    BY KnownType DEF TypeInv, TypeOK, States
  <2>2. Known(row).unmet = Abstract!Raised(History, Len(folds))
    BY <2>1 DEF RuleInv, Reflects, Raised, Abstract!Raised
  <2>3. \A n : Raised(History, n) = Abstract!Raised(History, n)
    BY DEF Raised
  <2> QED
    BY <2>2, <2>3 DEF TwoWindowRule, RuleInv, EventsFollow
<1> QED
  BY <1>1, TypeInvariant, RuleInvariant, PTL

-----------------------------------------------------------------------------
(* The refinement: what a step does to the history and to what is shown is *)
(* a step of the abstract record, or nothing.                              *)
View(p) == [at |-> seen[p], unmet |-> Known(mem[p]).unmet]

Views == [p \in Processes |-> View(p)]

LEMMA ViewIsAt ==
  ASSUME TypeInv, NEW s \in States \cup {NoState}, NEW h, NEW n, Known(s).unmet <=> Raised(h, n)
  PROVE  [at |-> n, unmet |-> Known(s).unmet] = Abstract!At(h, n)
<1>1. Known(s).unmet \in BOOLEAN
  BY KnownType DEF States
<1>2. Known(s).unmet = Abstract!Raised(h, n)
  BY <1>1 DEF Raised, Abstract!Raised
<1> QED
  BY <1>2 DEF Abstract!At

(* Only one process's view changes in a step, if any.                      *)
LEMMA ViewsChange ==
  ASSUME TypeInv, NEW p \in Processes, NEW v,
         \A q \in Processes \ {p} : mem'[q] = mem[q] /\ seen'[q] = seen[q],
         View(p)' = v
  PROVE  Views' = [Views EXCEPT ![p] = v]
<1>1. \A q \in Processes \ {p} : View(q)' = View(q)
  BY DEF View
<1> QED
  BY <1>1 DEF Views

LEMMA RefinesInit ==
  Init => Abstract!Init
<1> SUFFICES ASSUME Init PROVE Abstract!Init
  OBVIOUS
<1>1. History = << >>
  BY DEF Init, History
<1>2. ~Abstract!Raised(<< >>, 0)
  BY NothingIsNotRaised DEF Raised
<1>3. Known(NoState).unmet = FALSE
  BY DEF Known
<1>4. Abstract!At(<< >>, 0) = [at |-> 0, unmet |-> FALSE]
  BY <1>2 DEF Abstract!At, Abstract!Raised
<1>5. \A p \in Processes : mem[p] = NoState /\ seen[p] = 0
  BY DEF Init
<1> QED
  BY <1>1, <1>3, <1>4, <1>5 DEF Abstract!Init

LEMMA RefinesStep ==
  TypeInv /\ RuleInv /\ TypeInv' /\ RuleInv' /\ [Next]_vars => [Abstract!Next]_(Abstract!vars)
<1> SUFFICES ASSUME TypeInv, RuleInv, TypeInv', RuleInv', [Next]_vars
             PROVE  Abstract!Next \/ UNCHANGED Abstract!vars
  OBVIOUS
<1>0. ASSUME UNCHANGED <<folds, mem, seen>> PROVE UNCHANGED Abstract!vars
  BY <1>0 DEF Abstract!vars, History
<1>a. /\ Len(folds) \in Nat
      /\ mem \in [Processes -> States \cup {NoState}] /\ mem' \in [Processes -> States \cup {NoState}]
      /\ row \in States \cup {NoState}
  BY DEF TypeInv, TypeOK
<1>b. Len(History) = Len(folds)
  BY <1>a DEF History
<1>1. ASSUME NEW p \in Processes, CasWins(p) PROVE Abstract!Next
  <2>1. /\ Len(folds') = Len(folds) + 1
        /\ History' = Append(History, job[p].verdict)
        /\ job[p].verdict \in Verdicts
    BY <1>1, RecordedVerdict
  <2>2. seen'[p] = Len(folds') /\ \A q \in Processes \ {p} : mem'[q] = mem[q] /\ seen'[q] = seen[q]
    BY <1>1 DEF CasWins, TypeInv, TypeOK
  <2>3. Len(History') = Len(folds')
    BY <1>a, <2>1 DEF History
  <2>4. View(p)' = Abstract!At(History', Len(History'))
    BY <1>a, <2>2, <2>3, ViewIsAt DEF RuleInv, Shows, View
  <2>5. Views' = [Views EXCEPT ![p] = Abstract!At(History', Len(History'))]
    BY <2>2, <2>4, ViewsChange
  <2>6. PICK v \in Abstract!Verdicts : v = job[p].verdict
    BY <2>1 DEF Abstract!Verdicts, Verdicts
  <2>7. Abstract!Record(p, v)
    BY <2>1, <2>5, <2>6 DEF Abstract!Record, Views, View
  <2> QED
    BY <2>7 DEF Abstract!Next
<1>2. ASSUME NEW p \in Processes, folds' = folds,
             seen'[p] = Len(folds),
             \A q \in Processes \ {p} : mem'[q] = mem[q] /\ seen'[q] = seen[q]
      PROVE  Abstract!Next
  <2>1. History' = History
    BY <1>2 DEF History
  <2>2. View(p)' = Abstract!At(History, Len(folds))
    BY <1>a, <1>2, <2>1, ViewIsAt DEF RuleInv, Shows, View
  <2>3. Views' = [Views EXCEPT ![p] = Abstract!At(History, Len(folds))]
    BY <1>2, <2>2, ViewsChange
  <2>4. Len(folds) >= Views[p].at /\ Len(folds) \in 0..Len(History)
    BY <1>a, <1>b DEF RuleInv, Shows, Views, View
  <2>5. PICK n \in 0..Len(History) : n = Len(folds)
    BY <2>4
  <2>6. Abstract!Observe(p, n)
    BY <2>1, <2>3, <2>4, <2>5 DEF Abstract!Observe, Views, View
  <2> QED
    BY <2>6 DEF Abstract!Next
<1>3. ASSUME NEW p \in Processes, Reread(p) PROVE Abstract!Next
  <2>1. /\ folds' = folds /\ seen'[p] = Len(folds)
        /\ \A q \in Processes \ {p} : mem'[q] = mem[q] /\ seen'[q] = seen[q]
    BY <1>3 DEF Reread, TypeInv, TypeOK
  <2> QED
    BY <1>2, <2>1
<1>4. ASSUME NEW p \in Processes, Restart(p) PROVE Abstract!Next
  <2>1. /\ folds' = folds
        /\ \A q \in Processes \ {p} : mem'[q] = mem[q] /\ seen'[q] = seen[q]
        /\ seen'[p] = Len(folds) \/ (mem'[p] = NoState /\ seen'[p] = 0)
    BY <1>4 DEF Restart, TypeInv, TypeOK
  <2>2. CASE seen'[p] = Len(folds)
    BY <1>2, <2>1, <2>2
  <2>3. CASE mem'[p] = NoState /\ seen'[p] = 0
    <3>1. History' = History
      BY <2>1 DEF History
    <3>2. View(p)' = Abstract!At(History, 0)
      BY <1>a, <2>3, <3>1, ViewIsAt DEF RuleInv, Shows, View
    <3>3. Views' = [Views EXCEPT ![p] = Abstract!At(History, 0)]
      BY <2>1, <3>2, ViewsChange
    <3>4. Abstract!Forget(p)
      BY <3>1, <3>3 DEF Abstract!Forget, Views, View
    <3> QED
      BY <3>4 DEF Abstract!Next
  <2> QED
    BY <2>1, <2>2, <2>3
<1>5. CASE Tick
  BY <1>0, <1>5 DEF Tick, status
<1>6. ASSUME NEW p \in Processes,
             CloseDue(p) \/ WriteSummary(p) \/ ReadSummaries(p) \/ ReadState(p) \/ CasLoses(p) \/ TickFails(p)
      PROVE  UNCHANGED Abstract!vars
  BY <1>0, <1>6 DEF CloseDue, WriteSummary, ReadSummaries, ReadState, CasLoses, TickFails, status
<1>7. ASSUME NEW p \in Processes, NEW v \in Providers, NEW ok \in BOOLEAN, Record(p, v, ok)
      PROVE  UNCHANGED Abstract!vars
  BY <1>0, <1>7 DEF Record, status
<1>8. ASSUME NEW p \in Processes, NEW n \in outbox[p], Deliver(p, n) \/ Drop(p, n)
      PROVE  UNCHANGED Abstract!vars
  BY <1>0, <1>8 DEF Deliver, Drop, status
<1>9. CASE UNCHANGED vars
  BY <1>0, <1>9 DEF vars
<1> QED
  BY <1>1, <1>3, <1>4, <1>5, <1>6, <1>7, <1>8, <1>9 DEF Next, Work

(* The processes implement the abstract record, for any number of them and *)
(* of failures: each shows a state that was stored, and goes back to an    *)
(* older one only by a restart that cannot read the document.              *)
THEOREM RecordRefinement == Spec => ImplementsRecord
BY RefinesInit, RefinesStep, TypeInvariant, RuleInvariant, PTL
   DEF Spec, ImplementsRecord, Abstract!Spec
=============================================================================
