-------------------------- MODULE TargetStore_proofs --------------------------
(***************************************************************************)
(* Proofs about TargetStore for any number of processes, clients,          *)
(* documents and versions.                                                 *)
(***************************************************************************)
EXTENDS TargetStore, TLAPS

(* What a process in the middle of something carries: the version it has   *)
(* read is not newer than the row, and the body it has committed is in the *)
(* history.                                                                *)
JobsInHand == \A p \in Processes :
  /\ job[p].reading => job[p].todo # {} /\ job[p].seen <= doc[Turn(p)].version
  /\ job[p].client # NoClient => Recorded(job[p].parsed, job[p].resource)

IInv == TypeOK /\ CopiesAreRecorded /\ NoLostUpdate /\ JobsInHand

(* The resource whose turn it is, is one still to refresh.                 *)
LEMMA TurnInTodo ==
  ASSUME TypeOK, NEW p \in Processes, job[p].todo # {}
  PROVE  Turn(p) \in job[p].todo /\ Turn(p) \in Resources
<1>1. job[p] \in Jobs
  BY DEF TypeOK
<1>2. job[p].todo \subseteq Resources
  BY <1>1 DEF Jobs
<1>3. Turn(p) \in job[p].todo
  BY <1>2, ResourcesAssumption, Zenon DEF Turn
<1> QED
  BY <1>2, <1>3

(* Refreshing gives a well-formed job.                                     *)
LEMMA RefreshingType ==
  ASSUME NEW todo \in SUBSET Resources
  PROVE  Refreshing(todo) \in Jobs
<1>1. (CHOOSE r \in Resources : TRUE) \in Resources
  BY ResourcesAssumption
<1> QED
  BY <1>1, BoundsAssumption DEF Refreshing, Jobs, Copies, Versions, Nothing

(* The initial states are typed and recorded.                              *)
LEMMA InitIInv == Init => IInv
<1> SUFFICES ASSUME Init PROVE IInv
  OBVIOUS
<1>1. Nothing \in Copies
  BY BoundsAssumption DEF Nothing, Copies, Versions
<1>2. TypeOK
  <2>1. job \in [Processes -> Jobs]
    BY RefreshingType DEF Init
  <2>2. log \in [Resources -> Seq([content : Docs, basis : Versions])]
    BY DEF Init
  <2>3. doc \in [Resources -> [version : Versions, content : Docs \cup {NoDoc}]]
    BY BoundsAssumption DEF Init, Versions
  <2> QED
    BY <1>1, <2>1, <2>2, <2>3, BoundsAssumption DEF TypeOK, Init
<1>3. CopiesAreRecorded
  BY DEF Init, CopiesAreRecorded, RowIsHead, Recorded, Nothing
<1>4. NoLostUpdate
  BY DEF Init, NoLostUpdate
<1>5. JobsInHand
  BY DEF Init, JobsInHand, Refreshing
<1> QED
  BY <1>2, <1>3, <1>4, <1>5 DEF IInv

-----------------------------------------------------------------------------
(* Type correctness, action by action.                                     *)
LEMMA TurnOverType ==
  ASSUME TypeOK, NEW p \in Processes
  PROVE  TurnOver(p) \in [Processes -> Jobs]
<1>1. job \in [Processes -> Jobs] /\ job[p] \in Jobs
  BY DEF TypeOK
<1>2. 0 \in Versions
  BY BoundsAssumption DEF Versions
<1>3. [job[p] EXCEPT !.todo = job[p].todo \ {Turn(p)}, !.reading = FALSE, !.seen = 0] \in Jobs
  <2>1. job[p].todo \ {Turn(p)} \in SUBSET Resources
    BY <1>1 DEF Jobs
  <2> QED
    BY <1>1, <1>2, <2>1 DEF Jobs
<1> QED
  BY <1>1, <1>3 DEF TurnOver

LEMMA StepTypeOK ==
  ASSUME TypeOK, [Next]_vars
  PROVE  TypeOK'
<1> USE DEF TypeOK
<1>1. ASSUME NEW p \in Processes, NEW c \in Clients, NEW r \in Resources, Get(c, p, r)
      PROVE  TypeOK'
  <2>1. mem[p][r] \in Copies
    OBVIOUS
  <2>2. base' \in [Clients -> [Resources -> Copies]]
    <3> HIDE DEF TypeOK
    <3>1. base \in [Clients -> [Resources -> Copies]]
      BY DEF TypeOK
    <3>2. base' = [base EXCEPT ![c][r] = mem[p][r]]
      BY <1>1 DEF Get
    <3> QED
      BY <2>1, <3>1, <3>2
  <2>3. UNCHANGED <<doc, mem, job, up, faults, log>>
    BY <1>1 DEF Get
  <2> QED
    BY <2>2, <2>3
<1>2. ASSUME NEW p \in Processes, NEW c \in Clients, NEW r \in Resources, NEW d \in Docs,
             Put(c, p, r, d)
      PROVE  TypeOK'
  <2>1. base[c][r] \in Copies
    OBVIOUS
  <2>2. /\ base[c][r].version \in Versions /\ base[c][r].origin \in Versions
        /\ base[c][r].version + 1 \in Versions
    BY <2>1, <1>2, BoundsAssumption DEF Put, Copies, Versions
  <2>3. doc' \in [Resources -> [version : Versions, content : Docs \cup {NoDoc}]]
    BY <1>2, <2>2 DEF Put
  <2>4. log' \in [Resources -> Seq([content : Docs, basis : Versions])]
    <3>1. [content |-> d, basis |-> base[c][r].origin] \in [content : Docs, basis : Versions]
      BY <2>2
    <3>2. Append(log[r], [content |-> d, basis |-> base[c][r].origin])
            \in Seq([content : Docs, basis : Versions])
      <4>1. log[r] \in Seq([content : Docs, basis : Versions])
        OBVIOUS
      <4> HIDE DEF TypeOK
      <4> DEFINE Entries == [content : Docs, basis : Versions]
      <4> HIDE DEF Entries
      <4>2. \A s \in Seq(Entries), e \in Entries : Append(s, e) \in Seq(Entries)
        OBVIOUS
      <4> QED
        BY <3>1, <4>1, <4>2 DEF Entries
    <3> QED
      BY <1>2, <3>2 DEF Put
  <2>5. job' \in [Processes -> Jobs]
    <3>1. [todo |-> RefreshAfter(r), reading |-> FALSE, seen |-> 0, client |-> c, resource |-> r,
           parsed |-> [version |-> base[c][r].version + 1, origin |-> base[c][r].version + 1,
                       content |-> d]] \in Jobs
      BY <2>2, BoundsAssumption DEF Jobs, Copies, Versions, RefreshAfter
    <3> QED
      BY <1>2, <3>1 DEF Put
  <2> QED
    BY <1>2, <2>3, <2>4, <2>5 DEF Put
<1>3. ASSUME NEW p \in Processes, Respond(p) PROVE TypeOK'
  <2>1. job[p] \in Jobs /\ job[p].client \in Clients /\ job[p].resource \in Resources
    BY <1>3 DEF Respond, Jobs
  <2>2. Answer(p) \in Copies
    <3>1. mem[p][job[p].resource] \in Copies /\ job[p].parsed \in Copies
      BY <2>1 DEF Jobs
    <3>2. [mem[p][job[p].resource] EXCEPT !.version = mem[p][job[p].resource].origin] \in Copies
      BY <3>1 DEF Copies
    <3> QED
      BY <3>1, <3>2 DEF Answer
  <2>3. base' \in [Clients -> [Resources -> Copies]]
    BY <1>3, <2>1, <2>2 DEF Respond
  <2>4. job' \in [Processes -> Jobs]
    BY <1>3, RefreshingType DEF Respond
  <2> QED
    BY <1>3, <2>3, <2>4 DEF Respond
<1>4. ASSUME NEW p \in Processes, Poll(p) PROVE TypeOK'
  BY <1>4, RefreshingType DEF Poll
<1>5. ASSUME NEW p \in Processes, ReadVersion(p) PROVE TypeOK'
  <2>1. Turn(p) \in Resources
    BY <1>5, TurnInTodo DEF ReadVersion
  <2>2. doc[Turn(p)].version \in Versions
    BY <2>1
  <2>3. [job[p] EXCEPT !.reading = TRUE, !.seen = doc[Turn(p)].version] \in Jobs
    BY <2>2 DEF Jobs
  <2>4. job' \in [Processes -> Jobs]
    BY <1>5, <2>3, TurnOverType DEF ReadVersion
  <2> QED
    BY <1>5, <2>4 DEF ReadVersion
<1>6. ASSUME NEW p \in Processes, ReadDocument(p) PROVE TypeOK'
  <2>1. Turn(p) \in Resources
    BY <1>6, TurnInTodo DEF ReadDocument
  <2>2. Loaded(job[p].seen, Turn(p)) \in Copies
    BY <2>1 DEF Loaded, Copies, Jobs
  <2>3. mem' \in [Processes -> [Resources -> Copies]]
    BY <1>6, <2>1, <2>2 DEF ReadDocument
  <2> QED
    BY <1>6, <2>3, TurnOverType DEF ReadDocument
<1>7. ASSUME NEW p \in Processes, ReadFails(p) PROVE TypeOK'
  <2>1. job' \in [Processes -> Jobs]
    BY <1>7, TurnOverType DEF ReadFails
  <2>2. faults' \in 0..MaxFaults
    BY <1>7, BoundsAssumption DEF ReadFails
  <2> QED
    BY <1>7, <2>1, <2>2 DEF ReadFails
<1>8. ASSUME NEW p \in Processes, Restart(p) PROVE TypeOK'
  <2>1. Nothing \in Copies
    BY BoundsAssumption DEF Nothing, Copies, Versions
  <2>2. job' \in [Processes -> Jobs] /\ up' \in [Processes -> BOOLEAN]
    <3>1. Refreshing(Resources) \in Jobs /\ Refreshing({}) \in Jobs
      BY RefreshingType
    <3> QED
      BY <1>8, <3>1 DEF Restart
  <2>3. mem' \in [Processes -> [Resources -> Copies]] /\ faults' \in 0..MaxFaults
    BY <1>8, <2>1, BoundsAssumption DEF Restart
  <2> QED
    BY <1>8, <2>2, <2>3 DEF Restart
<1>9. ASSUME UNCHANGED vars PROVE TypeOK'
  BY <1>9 DEF vars
<1> QED
  BY <1>1, <1>2, <1>3, <1>4, <1>5, <1>6, <1>7, <1>8, <1>9 DEF Next, Step

(* Type correctness: TypeOK holds in every reachable state.                *)
THEOREM TypeCorrect == Spec => []TypeOK
<1>1. Init => TypeOK
  BY InitIInv DEF IInv
<1>2. TypeOK /\ [Next]_vars => TypeOK'
  BY StepTypeOK
<1> QED
  BY <1>1, <1>2, PTL DEF Spec

-----------------------------------------------------------------------------
(* The history only grows, so what was recorded stays recorded.            *)
LEMMA RecordedStays ==
  ASSUME TypeOK, TypeOK', NEW r \in Resources, NEW copy, Recorded(copy, r),
         copy.version \in Nat, copy.origin \in Nat,
         Len(log'[r]) >= Len(log[r]),
         \A n \in 1..Len(log[r]) : log'[r][n] = log[r][n]
  PROVE  Recorded(copy, r)'
<1>1. Len(log[r]) \in Nat /\ Len(log'[r]) \in Nat
  BY DEF TypeOK
<1> QED
  BY <1>1 DEF Recorded

(* The row is a recorded copy of itself.                                   *)
LEMMA RowRecorded ==
  ASSUME TypeOK, CopiesAreRecorded, NEW r \in Resources, NEW n \in Nat, n <= doc[r].version
  PROVE  Recorded(Loaded(n, r), r)
<1>1. Len(log[r]) \in Nat /\ doc[r].version = Len(log[r])
  BY DEF TypeOK, CopiesAreRecorded, RowIsHead
<1>2. log[r] = <<>> <=> Len(log[r]) = 0
  BY DEF TypeOK
<1> QED
  BY <1>1, <1>2 DEF Recorded, Loaded, CopiesAreRecorded, RowIsHead

(* An empty copy records that nothing has been read.                       *)
LEMMA NothingRecorded ==
  ASSUME TypeOK, NEW r \in Resources
  PROVE  Recorded(Nothing, r)
BY DEF TypeOK, Recorded, Nothing

(* A step that leaves row, history and every copy alone disturbs nothing   *)
(* but the jobs.                                                           *)
LEMMA RecordsFrame ==
  ASSUME CopiesAreRecorded, NoLostUpdate, UNCHANGED <<doc, mem, base, log>>
  PROVE  CopiesAreRecorded' /\ NoLostUpdate'
BY DEF CopiesAreRecorded, NoLostUpdate, RowIsHead, Recorded

(* The job of another process, or one that has just begun to refresh,      *)
(* carries nothing that a step of p can make wrong.                        *)
LEMMA TurnOverInHand ==
  ASSUME TypeOK, JobsInHand, NEW p \in Processes, job' = TurnOver(p), UNCHANGED <<doc, log>>
  PROVE  JobsInHand'
<1> SUFFICES ASSUME NEW q \in Processes
             PROVE  /\ job'[q].reading => job'[q].todo # {} /\ job'[q].seen <= doc[Turn(q)'].version
                    /\ job'[q].client # NoClient => Recorded(job'[q].parsed, job'[q].resource)
  BY DEF JobsInHand, Recorded
<1>1. job[q] \in Jobs /\ job[p] \in Jobs /\ job \in [Processes -> Jobs]
  BY DEF TypeOK
<1>2. CASE q = p
  <2>1. job'[p] = [job[p] EXCEPT !.todo = job[p].todo \ {Turn(p)}, !.reading = FALSE, !.seen = 0]
    BY <1>1 DEF TurnOver
  <2>2. /\ job'[p].reading = FALSE /\ job'[p].client = job[p].client
        /\ job'[p].parsed = job[p].parsed /\ job'[p].resource = job[p].resource
    BY <1>1, <2>1 DEF Jobs
  <2> QED
    BY <1>2, <2>2 DEF JobsInHand
<1>3. CASE q # p
  <2>1. job'[q] = job[q]
    BY <1>1, <1>3 DEF TurnOver
  <2>2. Turn(q)' = Turn(q)
    BY <2>1 DEF Turn
  <2> QED
    BY <2>1, <2>2 DEF JobsInHand
<1> QED
  BY <1>2, <1>3

(* A begun refresh has read nothing yet and owes nobody an answer.         *)
LEMMA RefreshInHand ==
  ASSUME TypeOK, JobsInHand, NEW p \in Processes, NEW todo \in SUBSET Resources,
         job' = [job EXCEPT ![p] = Refreshing(todo)], UNCHANGED <<doc, log>>
  PROVE  JobsInHand'
<1> SUFFICES ASSUME NEW q \in Processes
             PROVE  /\ job'[q].reading => job'[q].todo # {} /\ job'[q].seen <= doc[Turn(q)'].version
                    /\ job'[q].client # NoClient => Recorded(job'[q].parsed, job'[q].resource)
  BY DEF JobsInHand, Recorded
<1>1. CASE q = p
  BY <1>1 DEF TypeOK, Refreshing
<1>2. CASE q # p
  <2>1. job'[q] = job[q]
    BY <1>2 DEF TypeOK
  <2>2. Turn(q)' = Turn(q)
    BY <2>1 DEF Turn
  <2> QED
    BY <2>1, <2>2 DEF JobsInHand
<1> QED
  BY <1>1, <1>2

(* An accepted PUT keeps everything recorded: the history grows by the     *)
(* document the client's own copy was the head of.                         *)
LEMMA PutIInv ==
  ASSUME IInv, TypeOK', NEW p \in Processes, NEW c \in Clients, NEW r \in Resources,
         NEW d \in Docs, Put(c, p, r, d)
  PROVE  IInv'
<1> DEFINE old == base[c][r]
           n   == Len(log[r])
           e   == [content |-> d, basis |-> old.origin]
<1>1. /\ old \in Copies /\ old.version \in Nat /\ old.origin \in Nat
      /\ n \in Nat /\ doc[r].version = n
  BY BoundsAssumption DEF IInv, TypeOK, CopiesAreRecorded, RowIsHead, Copies, Versions
<1>2. old.version = n /\ old.origin = n
  BY <1>1 DEF IInv, CopiesAreRecorded, Recorded, Put, Commits
<1>3. log'[r] = Append(log[r], e) /\ \A s \in Resources \ {r} : log'[s] = log[s]
  BY DEF IInv, TypeOK, Put
<1>4. doc'[r] = [version |-> n + 1, content |-> d] /\ \A s \in Resources \ {r} : doc'[s] = doc[s]
  BY <1>2 DEF IInv, TypeOK, Put
<1>5. /\ Len(log'[r]) = n + 1 /\ log'[r][n + 1] = e
      /\ \A i \in 1..n : log'[r][i] = log[r][i]
  BY <1>1, <1>3 DEF IInv, TypeOK
<1>6. ASSUME NEW s \in Resources
      PROVE  Len(log'[s]) >= Len(log[s]) /\ \A i \in 1..Len(log[s]) : log'[s][i] = log[s][i]
  <2>1. Len(log[s]) \in Nat
    BY DEF IInv, TypeOK
  <2>2. CASE s = r
    BY <1>1, <1>5, <2>2
  <2>3. CASE s # r
    BY <1>3, <2>1, <2>3
  <2> QED
    BY <2>2, <2>3
<1>7. ASSUME NEW s \in Resources, NEW copy \in Copies, Recorded(copy, s)
      PROVE  Recorded(copy, s)'
  <2>1. copy.version \in Nat /\ copy.origin \in Nat
    BY BoundsAssumption DEF Copies, Versions
  <2> QED
    BY <2>1, <1>6, <1>7, RecordedStays DEF IInv
<1>8. RowIsHead'
  <2> SUFFICES ASSUME NEW s \in Resources
               PROVE  /\ doc'[s].version = Len(log'[s])
                      /\ doc'[s].content = IF log'[s] = <<>> THEN NoDoc
                                           ELSE log'[s][Len(log'[s])].content
    BY DEF RowIsHead
  <2>1. CASE s = r
    <3>1. log'[r] # <<>>
      BY <1>1, <1>5
    <3> QED
      BY <1>4, <1>5, <2>1, <3>1
  <2>2. CASE s # r
    BY <1>3, <1>4, <2>2 DEF IInv, CopiesAreRecorded, RowIsHead
  <2> QED
    BY <2>1, <2>2
<1>9. CopiesAreRecorded'
  <2>1. \A q \in Processes, s \in Resources : mem[q][s] \in Copies /\ Recorded(mem[q][s], s)
    BY DEF IInv, TypeOK, CopiesAreRecorded
  <2>2. \A k \in Clients, s \in Resources : base[k][s] \in Copies /\ Recorded(base[k][s], s)
    BY DEF IInv, TypeOK, CopiesAreRecorded
  <2>3. mem' = mem /\ base' = base
    BY DEF Put
  <2>4. \A q \in Processes, s \in Resources : Recorded(mem[q][s], s)'
    BY <1>7, <2>1, <2>3
  <2>5. \A k \in Clients, s \in Resources : Recorded(base[k][s], s)'
    BY <1>7, <2>2, <2>3
  <2> QED
    BY <1>8, <2>4, <2>5 DEF CopiesAreRecorded
<1>10. NoLostUpdate'
  <2> SUFFICES ASSUME NEW s \in Resources, NEW v \in 1..Len(log'[s])
               PROVE  log'[s][v].basis = v - 1
    BY DEF NoLostUpdate
  <2>1. CASE s # r
    BY <1>3, <2>1 DEF IInv, NoLostUpdate
  <2>2. CASE s = r /\ v \in 1..n
    BY <1>5, <2>2 DEF IInv, NoLostUpdate
  <2>3. CASE s = r /\ v = n + 1
    BY <1>1, <1>2, <1>5, <2>3
  <2> QED
    BY <1>1, <1>5, <2>1, <2>2, <2>3
<1>11. JobsInHand'
  <2> SUFFICES ASSUME NEW q \in Processes
               PROVE  /\ job'[q].reading => job'[q].todo # {}
                                            /\ job'[q].seen <= doc'[Turn(q)'].version
                      /\ job'[q].client # NoClient => Recorded(job[q].parsed, job[q].resource)'
    BY DEF JobsInHand
  <2>1. CASE q = p
    <3>1. job'[p] = [todo |-> RefreshAfter(r), reading |-> FALSE, seen |-> 0, client |-> c,
                     resource |-> r,
                     parsed |-> [version |-> n + 1, origin |-> n + 1, content |-> d]]
      BY <1>2 DEF IInv, TypeOK, Put
    <3>2. Recorded(job[p].parsed, job[p].resource)'
      BY <1>1, <1>5, <3>1 DEF Recorded
    <3> QED
      BY <2>1, <3>1, <3>2
  <2>2. CASE q # p
    <3>1. job'[q] = job[q] /\ job[q] \in Jobs /\ job[q].parsed \in Copies
          /\ job[q].resource \in Resources
      BY <2>2 DEF IInv, TypeOK, Put, Jobs
    <3>2. Turn(q)' = Turn(q)
      BY <3>1 DEF Turn
    <3>3. job[q].client # NoClient => Recorded(job[q].parsed, job[q].resource)'
      <4>1. ASSUME job[q].client # NoClient PROVE Recorded(job[q].parsed, job[q].resource)
        BY <4>1 DEF IInv, JobsInHand
      <4>2. PICK x \in Copies, s \in Resources : x = job[q].parsed /\ s = job[q].resource
        BY <3>1
      <4>3. job[q].client # NoClient => Recorded(x, s)'
        BY <1>7, <4>1, <4>2
      <4> QED
        BY <3>1, <4>2, <4>3 DEF Recorded
    <3>4. ASSUME job[q].reading PROVE job[q].seen <= doc'[Turn(q)].version
      <4>1. Turn(q) \in Resources /\ job[q].seen <= doc[Turn(q)].version
        BY <3>4, TurnInTodo DEF IInv, JobsInHand
      <4>2. CASE Turn(q) = r
        BY <1>1, <1>4, <4>1, <4>2, <3>1, BoundsAssumption DEF Jobs, Versions
      <4>3. CASE Turn(q) # r
        BY <1>4, <4>1, <4>3
      <4> QED
        BY <4>2, <4>3
    <3> QED
      BY <3>1, <3>2, <3>3, <3>4 DEF IInv, JobsInHand
  <2> QED
    BY <2>1, <2>2
<1> QED
  BY <1>9, <1>10, <1>11 DEF IInv

(* Every step keeps the inductive invariant.                               *)
LEMMA StepIInv ==
  ASSUME IInv, [Next]_vars
  PROVE  IInv'
<1>1. TypeOK /\ TypeOK'
  BY StepTypeOK DEF IInv
<1>2. ASSUME NEW p \in Processes, NEW c \in Clients, NEW r \in Resources, Get(c, p, r)
      PROVE  IInv'
  <2>1. Recorded(mem[p][r], r)
    BY DEF IInv, CopiesAreRecorded
  <2>2. \A k \in Clients, s \in Resources :
          base'[k][s] = IF k = c /\ s = r THEN mem[p][r] ELSE base[k][s]
    BY <1>1, <1>2 DEF TypeOK, Get
  <2>3. CopiesAreRecorded'
    BY <1>2, <2>1, <2>2 DEF IInv, CopiesAreRecorded, RowIsHead, Recorded, Get
  <2>4. NoLostUpdate' /\ JobsInHand'
    BY <1>2 DEF IInv, NoLostUpdate, JobsInHand, Recorded, Turn, Get
  <2> QED
    BY <1>1, <2>3, <2>4 DEF IInv
<1>3. ASSUME NEW p \in Processes, NEW c \in Clients, NEW r \in Resources, NEW d \in Docs,
             Put(c, p, r, d)
      PROVE  IInv'
  BY <1>1, <1>3, PutIInv
<1>4. ASSUME NEW p \in Processes, Respond(p) PROVE IInv'
  <2> DEFINE k == job[p].client
             s == job[p].resource
  <2>1. job[p] \in Jobs /\ k \in Clients /\ s \in Resources
    BY <1>1, <1>4 DEF TypeOK, Jobs, Respond
  <2>2. Recorded(mem[p][s], s) /\ Recorded(job[p].parsed, s) /\ mem[p][s] \in Copies
    BY <1>1, <1>4, <2>1 DEF IInv, TypeOK, CopiesAreRecorded, JobsInHand, Respond
  <2>3. Recorded(Answer(p), s)
    <3>1. CASE mem[p][s].content = NoDoc
      BY <2>2, <3>1 DEF Answer
    <3>2. CASE mem[p][s].content # NoDoc
      <4>1. Answer(p) = [version |-> mem[p][s].origin, origin |-> mem[p][s].origin,
                         content |-> mem[p][s].content]
        BY <2>2, <3>2 DEF Answer, Copies
      <4>2. mem[p][s].origin \in Nat
        BY <2>2, BoundsAssumption DEF Copies, Versions
      <4> QED
        BY <2>2, <4>1, <4>2 DEF Recorded
    <3> QED
      BY <3>1, <3>2
  <2>4. \A i \in Clients, r \in Resources :
          base'[i][r] = IF i = k /\ r = s THEN Answer(p) ELSE base[i][r]
    BY <1>1, <1>4, <2>1 DEF TypeOK, Respond
  <2>5. CopiesAreRecorded' /\ NoLostUpdate'
    <3> HIDE DEF k, s
    <3>1. UNCHANGED <<doc, mem, log>>
      BY <1>4 DEF Respond
    <3> QED
      BY <3>1, <2>3, <2>4 DEF IInv, CopiesAreRecorded, RowIsHead, Recorded, NoLostUpdate
  <2>6. JobsInHand'
    BY <1>1, <1>4, RefreshInHand DEF IInv, Respond
  <2> QED
    BY <1>1, <2>5, <2>6 DEF IInv
<1>5. ASSUME NEW p \in Processes, Poll(p) PROVE IInv'
  BY <1>1, <1>5, RefreshInHand, RecordsFrame DEF IInv, Poll
<1>6. ASSUME NEW p \in Processes, ReadVersion(p) PROVE IInv'
  <2>1. CopiesAreRecorded' /\ NoLostUpdate'
    BY <1>6, RecordsFrame DEF IInv, ReadVersion
  <2>2. CASE Unchanged(p)
    BY <1>1, <1>6, <2>1, <2>2, TurnOverInHand DEF IInv, ReadVersion
  <2>3. CASE ~Unchanged(p)
    <3>1. /\ job[p] \in Jobs /\ job[p].todo # {}
          /\ job' = [job EXCEPT ![p] = [job[p] EXCEPT !.reading = TRUE,
                                                      !.seen = doc[Turn(p)].version]]
      BY <1>1, <1>6, <2>3 DEF TypeOK, ReadVersion
    <3>2. Turn(p) \in Resources /\ doc[Turn(p)].version \in Nat
      <4>1. Turn(p) \in Resources
        BY <1>1, <3>1, TurnInTodo
      <4> QED
        BY <1>1, <4>1, BoundsAssumption DEF TypeOK, Versions
    <3>3. /\ job'[p].todo = job[p].todo /\ job'[p].seen = doc[Turn(p)].version
          /\ job'[p].client = job[p].client /\ job'[p].parsed = job[p].parsed
          /\ job'[p].resource = job[p].resource
          /\ \A q \in Processes \ {p} : job'[q] = job[q]
      BY <1>1, <3>1 DEF TypeOK, Jobs
    <3>4. \A q \in Processes : Turn(q)' = Turn(q)
      BY <3>3 DEF Turn
    <3>5. UNCHANGED <<doc, log>>
      BY <1>6 DEF ReadVersion
    <3>6. JobsInHand'
      <4> SUFFICES ASSUME NEW q \in Processes
                   PROVE  /\ job'[q].reading => job'[q].todo # {}
                                                /\ job'[q].seen <= doc[Turn(q)].version
                          /\ job'[q].client # NoClient
                               => Recorded(job'[q].parsed, job'[q].resource)
        BY <3>4, <3>5 DEF JobsInHand, Recorded
      <4>1. CASE q = p
        BY <3>1, <3>2, <3>3, <4>1 DEF IInv, JobsInHand
      <4>2. CASE q # p
        BY <3>3, <4>2 DEF IInv, JobsInHand
      <4> QED
        BY <4>1, <4>2
    <3> QED
      BY <1>1, <2>1, <3>6 DEF IInv
  <2> QED
    BY <2>2, <2>3
<1>7. ASSUME NEW p \in Processes, ReadDocument(p) PROVE IInv'
  <2> DEFINE r == Turn(p)
             new == Loaded(job[p].seen, r)
  <2>1. r \in Resources /\ job[p].seen <= doc[r].version /\ job[p].seen \in Nat
    BY <1>1, <1>7, TurnInTodo, BoundsAssumption
       DEF IInv, TypeOK, Jobs, Versions, JobsInHand, ReadDocument
  <2>2. Recorded(new, r)
    BY <1>1, <2>1, RowRecorded DEF IInv
  <2>3. \A q \in Processes, s \in Resources :
          mem'[q][s] = IF q = p /\ s = r THEN new ELSE mem[q][s]
    BY <1>1, <1>7, <2>1 DEF TypeOK, ReadDocument
  <2>4. UNCHANGED <<doc, base, log>> /\ job' = TurnOver(p)
    BY <1>7 DEF ReadDocument
  <2>5. CopiesAreRecorded' /\ NoLostUpdate'
    <3> HIDE DEF new, r
    <3> QED
      BY <2>2, <2>3, <2>4 DEF IInv, CopiesAreRecorded, RowIsHead, Recorded, NoLostUpdate
  <2>6. JobsInHand'
    BY <1>1, <2>4, TurnOverInHand DEF IInv
  <2> QED
    BY <1>1, <2>5, <2>6 DEF IInv
<1>8. ASSUME NEW p \in Processes, ReadFails(p) PROVE IInv'
  BY <1>1, <1>8, TurnOverInHand, RecordsFrame DEF IInv, ReadFails
<1>9. ASSUME NEW p \in Processes, Restart(p) PROVE IInv'
  <2>1. \A q \in Processes, s \in Resources :
          mem'[q][s] = IF q = p THEN Nothing ELSE mem[q][s]
    BY <1>1, <1>9 DEF TypeOK, Restart
  <2>2. UNCHANGED <<doc, base, log>>
    BY <1>9 DEF Restart
  <2>3. CopiesAreRecorded' /\ NoLostUpdate'
    <3>1. \A s \in Resources : Recorded(Nothing, s)
      BY <1>1, NothingRecorded
    <3> QED
      BY <2>1, <2>2, <3>1 DEF IInv, CopiesAreRecorded, RowIsHead, Recorded, NoLostUpdate
  <2>4. JobsInHand'
    <3>1. \/ job' = [job EXCEPT ![p] = Refreshing(Resources)]
          \/ job' = [job EXCEPT ![p] = Refreshing({})]
      BY <1>9 DEF Restart
    <3>2. {} \in SUBSET Resources /\ Resources \in SUBSET Resources
      OBVIOUS
    <3> QED
      BY <1>1, <2>2, <3>1, <3>2, RefreshInHand DEF IInv
  <2> QED
    BY <1>1, <2>3, <2>4 DEF IInv
<1>10. ASSUME UNCHANGED vars PROVE IInv'
  BY <1>1, <1>10 DEF vars, IInv, CopiesAreRecorded, RowIsHead, Recorded, NoLostUpdate,
                     JobsInHand, Turn
<1> QED
  BY <1>2, <1>3, <1>4, <1>5, <1>6, <1>7, <1>8, <1>9, <1>10 DEF Next, Step

LEMMA Invariant == Spec => []IInv
<1> QED
  BY InitIInv, StepIInv, PTL DEF Spec

(* No accepted document ever replaces one its writer had not read, however *)
(* many processes and clients there are.                                   *)
THEOREM LostUpdateFree == Spec => []NoLostUpdate
<1>1. IInv => NoLostUpdate
  BY DEF IInv
<1> QED
  BY <1>1, Invariant, PTL

(* Every copy, in a process or in an answer, is a committed document at a  *)
(* version that does not overstate it.                                     *)
THEOREM CopiesRecorded == Spec => []CopiesAreRecorded
<1>1. IInv => CopiesAreRecorded
  BY DEF IInv
<1> QED
  BY <1>1, Invariant, PTL

-----------------------------------------------------------------------------
(* What an answer that is owed rests on while nothing has failed: the body *)
(* is committed, and once its resource has been refreshed the copy is at   *)
(* least as new.                                                           *)
OwesOwnWrite(p) ==
  LET r == job[p].resource
      written == job[p].parsed.version
  IN  faults = 0 /\ job[p].client # NoClient =>
        /\ job[p].parsed.origin = written
        /\ written <= doc[r].version
        /\ r \notin job[p].todo => mem[p][r].origin >= written

AnswersInHand == \A p \in Processes : OwesOwnWrite(p)

(* The kinds of value a process carries.                                   *)
LEMMA InHandTypes ==
  ASSUME TypeOK, NEW p \in Processes
  PROVE  /\ job[p] \in Jobs /\ job[p].resource \in Resources
         /\ job[p].parsed.version \in Nat /\ faults \in Nat
         /\ \A r \in Resources : /\ doc[r].version \in Nat
                                 /\ mem[p][r].version \in Nat
                                 /\ mem[p][r].origin \in Nat
BY BoundsAssumption DEF TypeOK, Jobs, Copies, Versions

(* What another process does leaves an owed answer as it was.              *)
LEMMA OwesFrame ==
  ASSUME TypeOK, TypeOK', NEW p \in Processes, OwesOwnWrite(p),
         job'[p] = job[p], mem'[p] = mem[p], faults' = 0 => faults = 0,
         \A r \in Resources : doc'[r].version >= doc[r].version
  PROVE  OwesOwnWrite(p)'
<1>1. /\ job[p].resource \in Resources /\ job[p].parsed.version \in Nat
      /\ \A r \in Resources : doc[r].version \in Nat
  BY InHandTypes
<1>2. \A r \in Resources : doc'[r].version \in Nat
  <2>1. doc' \in [Resources -> [version : Versions, content : Docs \cup {NoDoc}]] /\ Versions \subseteq Nat
    BY BoundsAssumption DEF TypeOK, Versions
  <2> QED
    BY <2>1
<1> QED
  BY <1>1, <1>2 DEF OwesOwnWrite

(* A row's version never goes down.                                        *)
LEMMA RowGrows ==
  ASSUME TypeOK, [Next]_vars, NEW r \in Resources
  PROVE  doc'[r].version >= doc[r].version
<1>1. doc[r].version \in Nat
  BY BoundsAssumption DEF TypeOK, Versions
<1>2. ASSUME NEW p \in Processes, NEW c \in Clients, NEW s \in Resources, NEW d \in Docs,
             Put(c, p, s, d)
      PROVE  doc'[r].version >= doc[r].version
  <2>1. /\ doc' = [doc EXCEPT ![s] = [version |-> base[c][s].version + 1, content |-> d]]
        /\ base[c][s].version = doc[s].version
    BY <1>2 DEF Put, Commits
  <2> QED
    BY <1>1, <2>1 DEF TypeOK
<1>3. CASE UNCHANGED doc
  BY <1>1, <1>3
<1> QED
  BY <1>2, <1>3 DEF Next, Step, Respond, Poll, ReadVersion, ReadDocument, ReadFails, Restart,
                    Get, vars

(* Until something fails, nothing has failed.                              *)
LEMMA FaultsStay ==
  ASSUME TypeOK, [Next]_vars, faults' = 0
  PROVE  faults = 0
<1>1. faults \in Nat
  BY BoundsAssumption DEF TypeOK
<1>2. ASSUME NEW p \in Processes, ReadFails(p) \/ Restart(p)
      PROVE  FALSE
  BY <1>1, <1>2 DEF ReadFails, Restart
<1>3. ASSUME NEW p \in Processes, Step(p)
      PROVE  faults' = faults
  BY <1>3 DEF Step, Respond, Poll, ReadVersion, ReadDocument
<1>4. ASSUME NEW p \in Processes, NEW c \in Clients, NEW r \in Resources,
             Get(c, p, r) \/ \E d \in Docs : Put(c, p, r, d)
      PROVE  faults' = faults
  BY <1>4 DEF Get, Put
<1> QED
  BY <1>2, <1>3, <1>4 DEF Next, vars

LEMMA StepAnswers ==
  ASSUME IInv, AnswersInHand, [Next]_vars
  PROVE  AnswersInHand'
<1>1. TypeOK /\ TypeOK' /\ IInv'
  BY StepIInv DEF IInv
<1>2. /\ \A r \in Resources : doc'[r].version >= doc[r].version
      /\ faults' = 0 => faults = 0
  BY <1>1, RowGrows, FaultsStay
<1>3. ASSUME NEW p \in Processes, job'[p] = job[p], mem'[p] = mem[p]
      PROVE  OwesOwnWrite(p)'
  BY <1>1, <1>2, <1>3, OwesFrame DEF AnswersInHand
<1>4. ASSUME NEW p \in Processes, \E todo : job' = [job EXCEPT ![p] = Refreshing(todo)],
             \A q \in Processes \ {p} : mem'[q] = mem[q]
      PROVE  AnswersInHand'
  <2>1. job'[p].client = NoClient
    BY <1>1, <1>4 DEF TypeOK, Refreshing
  <2>2. OwesOwnWrite(p)'
    BY <2>1 DEF OwesOwnWrite
  <2>3. \A q \in Processes \ {p} : job'[q] = job[q]
    BY <1>1, <1>4 DEF TypeOK
  <2> QED
    BY <1>3, <1>4, <2>2, <2>3 DEF AnswersInHand
<1>5. ASSUME NEW p \in Processes, job' = TurnOver(p), job[p].todo # {},
             \A q \in Processes \ {p} : mem'[q] = mem[q],
             \A r \in Resources \ {Turn(p)} : mem'[p][r] = mem[p][r],
             faults' = 0 => mem'[p][Turn(p)].origin >= doc[Turn(p)].version,
             UNCHANGED doc
      PROVE  AnswersInHand'
  <2>1. /\ job'[p] = [job[p] EXCEPT !.todo = @ \ {Turn(p)}, !.reading = FALSE, !.seen = 0]
        /\ \A q \in Processes \ {p} : job'[q] = job[q]
    BY <1>1, <1>5 DEF TurnOver, TypeOK
  <2>2. /\ job'[p].client = job[p].client /\ job'[p].parsed = job[p].parsed
        /\ job'[p].resource = job[p].resource /\ job'[p].todo = job[p].todo \ {Turn(p)}
    BY <1>1, <2>1, InHandTypes DEF Jobs
  <2>3. OwesOwnWrite(p)'
    <3> DEFINE r == job[p].resource
               written == job[p].parsed.version
    <3> SUFFICES ASSUME faults' = 0, job[p].client # NoClient
                 PROVE  /\ job[p].parsed.origin = written
                        /\ written <= doc[r].version
                        /\ r \notin job[p].todo \ {Turn(p)} => mem'[p][r].origin >= written
      BY <1>5, <2>2 DEF OwesOwnWrite
    <3>1. /\ job[p].parsed.origin = written /\ written <= doc[r].version
          /\ r \notin job[p].todo => mem[p][r].origin >= written
      BY <1>2 DEF AnswersInHand, OwesOwnWrite
    <3>2. /\ r \in Resources /\ written \in Nat /\ doc[r].version \in Nat
          /\ mem'[p][r].origin \in Nat
      <4>1. r \in Resources /\ written \in Nat
        BY <1>1, InHandTypes
      <4>2. doc[r].version \in Nat
        BY <1>1, <4>1, InHandTypes
      <4>3. mem'[p][r] \in Copies
        BY <1>1, <4>1 DEF TypeOK
      <4> QED
        BY <4>1, <4>2, <4>3, BoundsAssumption DEF Copies, Versions
    <3>3. CASE r = Turn(p)
      BY <1>5, <3>1, <3>2, <3>3
    <3>4. CASE r # Turn(p)
      BY <1>5, <3>1, <3>2, <3>4
    <3> QED
      BY <3>1, <3>3, <3>4
  <2> QED
    BY <1>3, <1>5, <2>1, <2>3 DEF AnswersInHand
<1>6. ASSUME NEW p \in Processes, NEW c \in Clients, NEW r \in Resources, NEW d \in Docs,
             Put(c, p, r, d)
      PROVE  AnswersInHand'
  <2> DEFINE n == base[c][r].version + 1
  <2>1. /\ job'[p] = [todo |-> RefreshAfter(r), reading |-> FALSE, seen |-> 0, client |-> c,
                      resource |-> r, parsed |-> [version |-> n, origin |-> n, content |-> d]]
        /\ doc'[r].version = n
        /\ \A q \in Processes \ {p} : job'[q] = job[q]
        /\ mem' = mem
    BY <1>1, <1>6 DEF Put, TypeOK
  <2>2. r \in RefreshAfter(r)
    BY DEF RefreshAfter
  <2>3. doc'[r].version \in Nat
    BY <1>1, BoundsAssumption DEF TypeOK, Versions
  <2> HIDE DEF n
  <2>4. OwesOwnWrite(p)'
    BY <2>1, <2>2, <2>3 DEF OwesOwnWrite
  <2> QED
    BY <1>3, <2>1, <2>4 DEF AnswersInHand
<1>7. ASSUME NEW p \in Processes, ReadVersion(p)
      PROVE  AnswersInHand'
  <2>1. CASE Unchanged(p)
    <3>1. Turn(p) \in Resources
      BY <1>1, <1>7, TurnInTodo DEF ReadVersion
    <3>2. mem[p][Turn(p)].origin >= doc[Turn(p)].version
      BY <1>1, <2>1, <3>1, InHandTypes DEF Unchanged, IInv, CopiesAreRecorded, Recorded
    <3>3. /\ job' = TurnOver(p) /\ job[p].todo # {}
          /\ UNCHANGED <<doc, mem>>
      BY <1>7, <2>1 DEF ReadVersion
    <3>4. /\ \A q \in Processes \ {p} : mem'[q] = mem[q]
          /\ \A r \in Resources \ {Turn(p)} : mem'[p][r] = mem[p][r]
          /\ faults' = 0 => mem'[p][Turn(p)].origin >= doc[Turn(p)].version
          /\ UNCHANGED doc
      BY <3>2, <3>3
    <3> QED
      BY <1>5, <3>3, <3>4
  <2>2. CASE ~Unchanged(p)
    <3>1. /\ job'[p] = [job[p] EXCEPT !.reading = TRUE, !.seen = doc[Turn(p)].version]
          /\ \A q \in Processes \ {p} : job'[q] = job[q]
          /\ UNCHANGED <<doc, mem, faults>>
      BY <1>1, <1>7, <2>2 DEF ReadVersion, TypeOK
    <3>2. /\ job'[p].client = job[p].client /\ job'[p].parsed = job[p].parsed
          /\ job'[p].resource = job[p].resource /\ job'[p].todo = job[p].todo
      BY <1>1, <3>1, InHandTypes DEF Jobs
    <3>3. OwesOwnWrite(p)'
      BY <3>1, <3>2 DEF AnswersInHand, OwesOwnWrite
    <3> QED
      BY <1>3, <3>1, <3>3 DEF AnswersInHand
  <2> QED
    BY <2>1, <2>2
<1>8. ASSUME NEW p \in Processes, ReadDocument(p)
      PROVE  AnswersInHand'
  <2>1. Turn(p) \in Resources
    BY <1>1, <1>8, TurnInTodo DEF ReadDocument
  <2>2. /\ mem'[p][Turn(p)] = Loaded(job[p].seen, Turn(p))
        /\ \A q \in Processes \ {p} : mem'[q] = mem[q]
        /\ \A r \in Resources \ {Turn(p)} : mem'[p][r] = mem[p][r]
    BY <1>1, <1>8, <2>1 DEF ReadDocument, TypeOK
  <2>3. mem'[p][Turn(p)].origin >= doc[Turn(p)].version
    BY <1>1, <2>1, <2>2, InHandTypes DEF Loaded
  <2>4. job' = TurnOver(p) /\ job[p].todo # {} /\ UNCHANGED doc
    BY <1>8 DEF ReadDocument
  <2> QED
    BY <1>5, <2>2, <2>3, <2>4
<1>9. ASSUME NEW p \in Processes, ReadFails(p) \/ Restart(p)
      PROVE  AnswersInHand'
  <2>1. faults' # 0
    BY <1>1, <1>9, InHandTypes DEF ReadFails, Restart
  <2> QED
    BY <2>1 DEF AnswersInHand, OwesOwnWrite
<1>10. ASSUME NEW p \in Processes, Respond(p) \/ Poll(p)
       PROVE  AnswersInHand'
  <2>1. /\ \E todo : job' = [job EXCEPT ![p] = Refreshing(todo)]
        /\ mem' = mem
    BY <1>10 DEF Respond, Poll
  <2> QED
    BY <1>4, <2>1
<1>11. CASE UNCHANGED <<job, mem>>
  BY <1>3, <1>11 DEF AnswersInHand
<1> QED
  BY <1>6, <1>7, <1>8, <1>9, <1>10, <1>11 DEF Next, Step, Get, vars

(* An answer that is owed shows its own write or a later one.              *)
LEMMA OwnWriteStep ==
  ASSUME TypeOK, AnswersInHand, NEW p \in Processes, faults = 0, Respond(p)
  PROVE  Answer(p).origin >= job[p].parsed.version
<1> DEFINE r == job[p].resource
<1>1. /\ job[p].client # NoClient /\ r \notin job[p].todo
      /\ r \in Resources /\ job[p].parsed.version \in Nat
  BY InHandTypes DEF Respond
<1>2. /\ job[p].parsed.origin = job[p].parsed.version
      /\ mem[p][r].origin >= job[p].parsed.version
  BY <1>1 DEF AnswersInHand, OwesOwnWrite
<1>3. mem[p][r] \in Copies
  BY <1>1 DEF TypeOK
<1>4. Answer(p).origin \in {job[p].parsed.origin, mem[p][r].origin}
  BY <1>3 DEF Answer, Copies
<1> QED
  BY <1>1, <1>2, <1>4

(* A 200 to a PUT shows the client its own write or a later one, when no   *)
(* store read has failed and no process has died, however many processes   *)
(* and clients there are.                                                  *)
THEOREM OwnWriteVisible == Spec => OwnWriteIsVisible
<1>1. Init => AnswersInHand
  BY DEF Init, AnswersInHand, OwesOwnWrite, Refreshing
<1>2. IInv /\ AnswersInHand /\ [Next]_vars => AnswersInHand'
  BY StepAnswers
<1>3. IInv /\ AnswersInHand =>
        [\A p \in Processes : faults = 0 /\ Respond(p) =>
           Answer(p).origin >= job[p].parsed.version]_vars
  BY OwnWriteStep DEF IInv
<1> QED
  BY <1>1, <1>2, <1>3, Invariant, PTL DEF Spec, OwnWriteIsVisible

-----------------------------------------------------------------------------
(* The refinement: of either document, every step of the store writes it   *)
(* on top of the last one, moves one process's copy of it forward, forgets *)
(* such a copy, or leaves it alone.                                        *)
Unread == [at |-> 0, content |-> NoDoc]

Writes(r) == \E d \in Docs :
  /\ log'[r] = Append(log[r], [content |-> d, basis |-> Len(log[r])])
  /\ UNCHANGED View(r)

Observes(r) == \E p \in Processes, n \in 1..Len(log[r]) :
  /\ n >= View(r)[p].at
  /\ View(r)' = [View(r) EXCEPT ![p] = [at |-> n, content |-> log[r][n].content]]
  /\ UNCHANGED log[r]

Forgets(r) == \E p \in Processes :
  /\ View(r)' = [View(r) EXCEPT ![p] = Unread]
  /\ UNCHANGED log[r]

LEMMA ResourceStep ==
  ASSUME NEW t \in Resources, IInv, [Next]_vars
  PROVE  Writes(t) \/ Observes(t) \/ Forgets(t) \/ UNCHANGED <<log[t], View(t)>>
<1>1. TypeOK /\ IInv'
  BY StepIInv DEF IInv
<1>2. ASSUME UNCHANGED <<log, mem>> PROVE UNCHANGED <<log[t], View(t)>>
  BY <1>2 DEF View
<1>3. ASSUME NEW p \in Processes, NEW c \in Clients, NEW r \in Resources, NEW d \in Docs,
             Put(c, p, r, d)
      PROVE  Writes(t) \/ Observes(t) \/ Forgets(t) \/ UNCHANGED <<log[t], View(t)>>
  <2>1. View(t)' = View(t)
    BY <1>3 DEF Put, View
  <2>2. CASE r = t
    <3>1. base[c][t].origin = Len(log[t])
      <4>1. base[c][t] \in Copies /\ Recorded(base[c][t], t) /\ doc[t].version = Len(log[t])
        BY <1>1 DEF TypeOK, IInv, CopiesAreRecorded, RowIsHead
      <4>2. base[c][t].version = doc[t].version
        BY <1>3, <2>2 DEF Put, Commits
      <4> QED
        BY <1>1, <4>1, <4>2, BoundsAssumption DEF Recorded, Copies, Versions, TypeOK
    <3>2. log'[t] = Append(log[t], [content |-> d, basis |-> Len(log[t])])
      BY <1>1, <1>3, <2>2, <3>1 DEF Put, TypeOK
    <3> QED
      BY <2>1, <3>2 DEF Writes
  <2>3. CASE r # t
    <3>1. log'[t] = log[t]
      BY <1>1, <1>3, <2>3 DEF Put, TypeOK
    <3> QED
      BY <2>1, <3>1
  <2> QED
    BY <2>2, <2>3
<1>4. ASSUME NEW p \in Processes, ReadDocument(p)
      PROVE  Writes(t) \/ Observes(t) \/ Forgets(t) \/ UNCHANGED <<log[t], View(t)>>
  <2>1. log' = log
    BY <1>4 DEF ReadDocument
  <2>2. CASE Turn(p) = t
    <3> DEFINE n == doc[t].version
               new == [at |-> n, content |-> doc[t].content]
    <3>1. /\ n = Len(log[t]) /\ n \in Nat
          /\ doc[t].content = IF log[t] = <<>> THEN NoDoc ELSE log[t][n].content
          /\ \A q \in Processes : Recorded(mem[q][t], t)
          /\ \A q \in Processes : mem[q][t].origin \in Nat
      BY <1>1, BoundsAssumption
         DEF IInv, TypeOK, CopiesAreRecorded, RowIsHead, Copies, Versions
    <3>2. \A q \in Processes : mem'[q][t] = IF q = p THEN Loaded(job[p].seen, t) ELSE mem[q][t]
      BY <1>1, <1>4, <2>2 DEF ReadDocument, TypeOK
    <3>3. View(t)' = [View(t) EXCEPT ![p] = new]
      <4>1. Loaded(job[p].seen, t).origin = n /\ Loaded(job[p].seen, t).content = doc[t].content
        BY DEF Loaded
      <4>2. \A q \in Processes :
              [at |-> mem'[q][t].origin, content |-> mem'[q][t].content]
                = IF q = p THEN new
                  ELSE [at |-> mem[q][t].origin, content |-> mem[q][t].content]
        BY <3>2, <4>1
      <4> QED
        BY <4>2, Zenon DEF View
    <3>4. mem[p][t].origin <= n
      BY <3>1 DEF Recorded
    <3>5. CASE n = 0
      <4>1. mem[p][t].origin = 0 /\ mem[p][t].content = NoDoc
        BY <3>1, <3>4, <3>5 DEF Recorded
      <4>2. doc[t].content = NoDoc
        <5>1. log[t] \in Seq([content : Docs, basis : Versions]) /\ Len(log[t]) = 0
          BY <1>1, <3>1, <3>5 DEF TypeOK
        <5>2. log[t] = <<>>
          BY <5>1
        <5> QED
          BY <3>1, <5>2
      <4>3. View(t)' = View(t)
        BY <3>3, <3>5, <4>1, <4>2 DEF View
      <4> QED
        BY <2>1, <4>3
    <3>6. CASE n # 0
      <4>1. n \in 1..Len(log[t]) /\ doc[t].content = log[t][n].content
        BY <1>1, <3>1, <3>6 DEF TypeOK
      <4>2. View(t)[p].at = mem[p][t].origin
        BY DEF View
      <4>3. /\ n >= View(t)[p].at
            /\ View(t)' = [View(t) EXCEPT ![p] = [at |-> n, content |-> log[t][n].content]]
            /\ UNCHANGED log[t]
        BY <2>1, <3>1, <3>3, <3>4, <4>1, <4>2
      <4> HIDE DEF n
      <4> QED
        BY <4>1, <4>3 DEF Observes
    <3> QED
      BY <3>5, <3>6
  <2>3. CASE Turn(p) # t
    <3>1. \A q \in Processes : mem'[q][t] = mem[q][t]
      BY <1>1, <1>4, <2>3 DEF ReadDocument, TypeOK
    <3> QED
      BY <2>1, <3>1 DEF View
  <2> QED
    BY <2>2, <2>3
<1>5. ASSUME NEW p \in Processes, Restart(p)
      PROVE  Writes(t) \/ Observes(t) \/ Forgets(t) \/ UNCHANGED <<log[t], View(t)>>
  <2>1. \A q \in Processes : mem'[q][t] = IF q = p THEN Nothing ELSE mem[q][t]
    BY <1>1, <1>5 DEF Restart, TypeOK
  <2>2. View(t)' = [View(t) EXCEPT ![p] = Unread]
    <3>1. \A q \in Processes :
            [at |-> mem'[q][t].origin, content |-> mem'[q][t].content]
              = IF q = p THEN Unread
                ELSE [at |-> mem[q][t].origin, content |-> mem[q][t].content]
      BY <2>1 DEF Nothing, Unread
    <3> QED
      BY <3>1, Zenon DEF View
  <2> QED
    BY <1>5, <2>2 DEF Forgets, Restart
<1>6. ASSUME NEW p \in Processes, Respond(p) \/ Poll(p) \/ ReadVersion(p) \/ ReadFails(p)
      PROVE  UNCHANGED <<log, mem>>
  BY <1>6 DEF Respond, Poll, ReadVersion, ReadFails
<1>7. ASSUME NEW p \in Processes, NEW c \in Clients, NEW r \in Resources, Get(c, p, r)
      PROVE  UNCHANGED <<log, mem>>
  BY <1>7 DEF Get
<1> QED
  BY <1>2, <1>3, <1>4, <1>5, <1>6, <1>7 DEF Next, Step, vars

(* The store implements the abstract resource for the target document.     *)
THEOREM TargetsRefine ==
  ASSUME "targets" \in Resources
  PROVE  Spec => TargetsImplement
<1>1. Init => Targets!Init
  BY DEF Init, Targets!Init, View, Nothing, Targets!Unread
<1>2. IInv /\ [Next]_vars => [Targets!Next]_(Targets!vars)
  BY ResourceStep DEF Writes, Observes, Forgets, Unread, Targets!Next, Targets!Write,
     Targets!Observe, Targets!Forget, Targets!Unread, Targets!vars
<1> QED
  BY <1>1, <1>2, Invariant, PTL DEF Spec, TargetsImplement, Targets!Spec

(* And for the reservation document.                                       *)
THEOREM ReservationsRefine ==
  ASSUME "reservations" \in Resources
  PROVE  Spec => ReservationsImplement
<1>1. Init => Reservations!Init
  BY DEF Init, Reservations!Init, View, Nothing, Reservations!Unread
<1>2. IInv /\ [Next]_vars => [Reservations!Next]_(Reservations!vars)
  BY ResourceStep DEF Writes, Observes, Forgets, Unread, Reservations!Next, Reservations!Write,
     Reservations!Observe, Reservations!Forget, Reservations!Unread, Reservations!vars
<1> QED
  BY <1>1, <1>2, Invariant, PTL DEF Spec, ReservationsImplement, Reservations!Spec
=============================================================================
