------------------------- MODULE DirectivePush_proofs -------------------------
(***************************************************************************)
(* Proofs about DirectivePush for any number of connectors, drafts, faults *)
(* and changes: type correctness for any number of gateways; for one       *)
(* gateway whose store calls succeed, that a version names one list and    *)
(* that the push machinery implements the feed of lists; for one           *)
(* connector, that a stale list shows in the directive row.                *)
(***************************************************************************)
EXTENDS DirectivePush, TLAPS

(* The setting in which versions can be trusted.  DirectivePush's runs     *)
(* show that neither half can be dropped.                                  *)
OneReliableGateway == /\ \E g \in Gateways : Gateways = {g}
                      /\ StoreOutcomes = {TRUE}

-----------------------------------------------------------------------------
(* The scheduler's operators keep it well-formed.                          *)
LEMMA PublishType ==
  ASSUME NEW s \in Schedulers, NEW d \in Drafts, NEW n \in Nat
  PROVE  /\ Publish(s, d, n) \in Schedulers
         /\ Publish(s, d, n).published \in Lists
<1>1. s.issued \in Nat
  BY DEF Schedulers
<1>2. Larger(n, s.issued) + 1 \in Nat \ {0}
  BY <1>1 DEF Larger
<1>3. [version |-> Larger(n, s.issued) + 1, draft |-> d] \in Lists
  BY <1>2 DEF Lists
<1> QED
  BY <1>2, <1>3, DebounceAssumption DEF Publish, Schedulers

LEMMA OfferType ==
  ASSUME NEW s \in Schedulers, NEW d \in Drafts, NEW n \in Nat
  PROVE  Offer(s, d, n) \in Schedulers
<1>1. [s EXCEPT !.pending = NoDraft] \in Schedulers /\ [s EXCEPT !.pending = d] \in Schedulers
  BY DEF Schedulers
<1> QED
  BY <1>1, PublishType DEF Offer

LEMMA FlushType ==
  ASSUME NEW s \in Schedulers, NEW n \in Nat
  PROVE  Flush(s, n) \in Schedulers
<1>1. s.pending # NoDraft => s.pending \in Drafts
  BY DEF Schedulers
<1> QED
  BY <1>1, PublishType DEF Flush

LEMMA RecomputeType ==
  ASSUME TypeOK, NEW g \in Gateways, NEW n \in Nat
  PROVE  Recompute(g, n) \in Schedulers
<1>1. sched[g] \in Schedulers /\ (draft[g] # NoDraft => draft[g] \in Drafts)
  BY DEF TypeOK
<1> QED
  BY <1>1, OfferType, FlushType DEF Recompute

(* A recompute leaves what is published alone, or publishes a list under   *)
(* the version after the larger of the persisted and the issued one.       *)
LEMMA RecomputePublishes ==
  ASSUME TypeOK, NEW g \in Gateways, NEW n \in Nat
  PROVE  LET s == Recompute(g, n)
         IN  \/ /\ s.published = sched[g].published
                /\ s.issued = sched[g].issued
             \/ /\ s.published \in Lists
                /\ s.published.version = Larger(n, sched[g].issued) + 1
                /\ s.issued = s.published.version
<1> DEFINE old == sched[g]
           offered == IF draft[g] = NoDraft THEN old ELSE Offer(old, draft[g], n)
           v == Larger(n, old.issued) + 1
<1>1. old \in Schedulers /\ (draft[g] # NoDraft => draft[g] \in Drafts)
  BY DEF TypeOK
<1>2. \A d \in Drafts : /\ Publish(old, d, n).published \in Lists
                         /\ Publish(old, d, n).published.version = v
                         /\ Publish(old, d, n).issued = v
                         /\ Publish(old, d, n).pending = NoDraft
  BY <1>1, PublishType DEF Publish
<1>3. \/ /\ offered.published = old.published /\ offered.issued = old.issued
      \/ /\ offered.published \in Lists /\ offered.published.version = v
         /\ offered.issued = v /\ offered.pending = NoDraft
  <2>1. CASE draft[g] = NoDraft
    BY <2>1
  <2>2. CASE draft[g] # NoDraft
    <3>1. /\ [old EXCEPT !.pending = NoDraft].published = old.published
          /\ [old EXCEPT !.pending = NoDraft].issued = old.issued
          /\ [old EXCEPT !.pending = draft[g]].published = old.published
          /\ [old EXCEPT !.pending = draft[g]].issued = old.issued
      BY <1>1 DEF Schedulers
    <3> QED
      BY <1>1, <1>2, <2>2, <3>1 DEF Offer
  <2> QED
    BY <2>1, <2>2
<1>4. offered \in Schedulers
  BY <1>1, OfferType
<1>5. Recompute(g, n) = Flush(offered, n)
  BY DEF Recompute
<1> HIDE DEF offered
<1>6. CASE offered.pending = NoDraft \/ offered.since < Debounce
  BY <1>3, <1>5, <1>6 DEF Flush
<1>7. CASE ~(offered.pending = NoDraft \/ offered.since < Debounce)
  <2>1. offered.pending \in Drafts
    BY <1>4, <1>7 DEF Schedulers
  <2>2. offered.issued = old.issued
    BY <1>3, <1>7
  <2>3. /\ Publish(offered, offered.pending, n).published \in Lists
        /\ Publish(offered, offered.pending, n).published.version = v
        /\ Publish(offered, offered.pending, n).issued = v
    BY <1>4, <2>1, <2>2, PublishType DEF Publish
  <2> QED
    BY <1>5, <1>7, <2>3 DEF Flush
<1> QED
  BY <1>6, <1>7

(* What a scheduler in a reachable state publishes is a list, or NoList.   *)
LEMMA PublishedType ==
  ASSUME NEW s \in Schedulers
  PROVE  /\ s.published \in Lists \cup {NoList}
         /\ Current(s) \in SUBSET Lists
         /\ Burst(s) \in Seq(Lists)
<1>1. s.published \in Lists \cup {NoList}
  BY DEF Schedulers
<1> QED
  BY <1>1 DEF Current, Burst

LEMMA RowType ==
  ASSUME TypeOK, NEW list \in Lists, NEW ok
  PROVE  Delivered(list, ok) \in [pushed : Nat, acked : Nat]
BY DEF TypeOK, Delivered, Lists

LEMMA PersistedType ==
  ASSUME TypeOK, NEW ok
  PROVE  Persisted(ok) \in Nat
BY DEF TypeOK, Persisted

LEMMA AdoptType ==
  ASSUME TypeOK, NEW c \in Connectors, NEW list \in Lists, Adopt(c, list)
  PROVE  /\ held' \in [Connectors -> Lists \cup {NoList}]
         /\ acks' \in SUBSET [from : Connectors, version : Nat \ {0}]
<1>1. [from |-> c, version |-> list.version] \in [from : Connectors, version : Nat \ {0}]
  BY DEF Lists
<1>2. CASE UNCHANGED <<held, acks>>
  BY <1>2 DEF TypeOK
<1>3. CASE /\ held' = [held EXCEPT ![c] = list]
           /\ acks' = acks \cup {[from |-> c, version |-> list.version]}
  BY <1>1, <1>3 DEF TypeOK
<1> QED
  BY <1>2, <1>3 DEF Adopt

LEMMA FallBackType ==
  ASSUME TypeOK, NEW c \in Connectors, FallBack(c)
  PROVE  /\ stream' \in [Connectors -> Gateways \cup {Down, Closed}]
         /\ frames' \in [Connectors -> Seq(Lists)]
         /\ polling' \in [Connectors -> BOOLEAN]
         /\ polls' \in [Connectors -> SUBSET (Lists \cup {Asked})]
<1>1. <<>> \in Seq(Lists)
  OBVIOUS
<1> QED
  BY <1>1 DEF TypeOK, FallBack

LEMMA InitTypeOK == Init => TypeOK
<1>1. Fresh \in Schedulers
  BY DebounceAssumption DEF Fresh, Schedulers
<1>2. <<>> \in Seq(Lists)
  OBVIOUS
<1> QED
  BY <1>1, <1>2, BoundsAssumption DEF Init, TypeOK

LEMMA StepTypeOK ==
  ASSUME TypeOK, [Next]_vars
  PROVE  TypeOK'
<1> USE DEF gatewayVars, connectorVars
<1>1. CASE Tick
  <2>1. ASSUME NEW g \in Gateways
        PROVE  [sched[g] EXCEPT !.since = IF @ < Debounce THEN @ + 1 ELSE @] \in Schedulers
    <3>1. sched[g] \in Schedulers /\ sched[g].since \in 0..Debounce
      BY DEF TypeOK, Schedulers
    <3>2. (IF sched[g].since < Debounce THEN sched[g].since + 1 ELSE sched[g].since) \in 0..Debounce
      BY <3>1, DebounceAssumption
    <3> QED
      BY <3>1, <3>2 DEF Schedulers
  <2>2. sched' \in [Gateways -> Schedulers]
    BY <1>1, <2>1 DEF Tick
  <2> QED
    BY <1>1, <2>2 DEF Tick, TypeOK
<1>2. ASSUME NEW g \in Gateways, Pump(g) PROVE TypeOK'
  <2>1. PICK read \in StoreOutcomes, write \in StoreOutcomes :
          LET s    == Recompute(g, Persisted(read))
              list == s.published
          IN  /\ sched' = [sched EXCEPT ![g] = s]
              /\ \/ /\ list # sched[g].published
                    /\ frames' = [c \in Connectors |->
                                    IF c \in conns[g] /\ stream[c] = g
                                    THEN Append(frames[c], list) ELSE frames[c]]
                    /\ row' = Delivered(list, write)
                    /\ sent' = sent \cup {list}
                 \/ /\ list = sched[g].published
                    /\ UNCHANGED <<frames, row, sent>>
    BY <1>2 DEF Pump
  <2> DEFINE s == Recompute(g, Persisted(read))
  <2>2. s \in Schedulers
    BY RecomputeType, PersistedType
  <2>3. sched' \in [Gateways -> Schedulers]
    BY <2>1, <2>2 DEF TypeOK
  <2>4. s.published # sched[g].published => s.published \in Lists
    BY RecomputePublishes, PersistedType
  <2> HIDE DEF s
  <2>5. CASE s.published # sched[g].published
    <3>1. frames' \in [Connectors -> Seq(Lists)]
      <4>1. \A f \in Seq(Lists) : Append(f, s.published) \in Seq(Lists)
        BY <2>4, <2>5
      <4>2. frames' = [k \in Connectors |-> IF k \in conns[g] /\ stream[k] = g
                                            THEN Append(frames[k], s.published) ELSE frames[k]]
        BY <2>1, <2>5 DEF s
      <4> QED
        BY <4>1, <4>2 DEF TypeOK
    <3>2. row' \in [pushed : Nat, acked : Nat] /\ sent' \in SUBSET Lists
      BY <2>1, <2>4, <2>5, RowType DEF TypeOK, s
    <3> QED
      BY <1>2, <2>3, <3>1, <3>2 DEF Pump, TypeOK
  <2>6. CASE s.published = sched[g].published
    BY <1>2, <2>1, <2>3, <2>6 DEF Pump, TypeOK, s
  <2> QED
    BY <2>5, <2>6
<1>3. ASSUME NEW g \in Gateways, NEW c \in Connectors, OpenStream(c, g) PROVE TypeOK'
  <2>1. PICK read \in StoreOutcomes, write \in StoreOutcomes :
          LET s == Recompute(g, Persisted(read))
          IN  /\ sched' = [sched EXCEPT ![g] = s]
              /\ frames' = [frames EXCEPT ![c] = Burst(s)]
              /\ row' = IF Current(s) = {} THEN row ELSE Delivered(s.published, write)
              /\ sent' = sent \cup Current(s)
    BY <1>3 DEF OpenStream
  <2> DEFINE s == Recompute(g, Persisted(read))
  <2>2. s \in Schedulers
    BY RecomputeType, PersistedType
  <2>3. sched' \in [Gateways -> Schedulers]
    BY <2>1, <2>2 DEF TypeOK
  <2> HIDE DEF s
  <2>4. frames' \in [Connectors -> Seq(Lists)] /\ sent' \in SUBSET Lists
    BY <2>1, <2>2, PublishedType DEF TypeOK, s
  <2>5. row' \in [pushed : Nat, acked : Nat]
    <3>1. Current(s) # {} => s.published \in Lists
      BY <2>2, PublishedType DEF Current
    <3> QED
      BY <2>1, <3>1, RowType DEF TypeOK, s
  <2> QED
    BY <1>3, <2>3, <2>4, <2>5 DEF OpenStream, TypeOK
<1>4. ASSUME NEW g \in Gateways, NEW c \in Connectors, ServePoll(g, c) PROVE TypeOK'
  <2>1. PICK read \in StoreOutcomes, write \in StoreOutcomes :
          LET s == Recompute(g, Persisted(read))
          IN  /\ sched' = [sched EXCEPT ![g] = s]
              /\ polls' = [polls EXCEPT ![c] = (polls[c] \ {Asked}) \cup Current(s)]
              /\ row' = IF Current(s) = {} THEN row ELSE Delivered(s.published, write)
              /\ sent' = sent \cup Current(s)
    BY <1>4 DEF ServePoll
  <2> DEFINE s == Recompute(g, Persisted(read))
  <2>2. s \in Schedulers
    BY RecomputeType, PersistedType
  <2>3. sched' \in [Gateways -> Schedulers]
    BY <2>1, <2>2 DEF TypeOK
  <2> HIDE DEF s
  <2>4. polls' \in [Connectors -> SUBSET (Lists \cup {Asked})] /\ sent' \in SUBSET Lists
    BY <2>1, <2>2, PublishedType DEF TypeOK, s
  <2>5. row' \in [pushed : Nat, acked : Nat]
    <3>1. Current(s) # {} => s.published \in Lists
      BY <2>2, PublishedType DEF Current
    <3> QED
      BY <2>1, <3>1, RowType DEF TypeOK, s
  <2> QED
    BY <1>4, <2>3, <2>4, <2>5 DEF ServePoll, TypeOK
<1>5. ASSUME NEW g \in Gateways, Restart(g) PROVE TypeOK'
  <2>1. Fresh \in Schedulers
    BY DebounceAssumption DEF Fresh, Schedulers
  <2> QED
    BY <1>5, <2>1, BoundsAssumption DEF Restart, TypeOK
<1>6. ASSUME NEW g \in Gateways, NEW d \in Drafts \cup {NoDraft}, Redraft(g, d) PROVE TypeOK'
  BY <1>6, BoundsAssumption DEF Redraft, TypeOK
<1>7. ASSUME NEW g \in Gateways, NEW c \in Connectors, GatewaySeesClose(g, c) PROVE TypeOK'
  BY <1>7 DEF GatewaySeesClose, TypeOK
<1>8. ASSUME NEW c \in Connectors, ConnectFails(c) \/ StreamBreaks(c) \/ StreamEnds(c)
      PROVE  TypeOK'
  <2>1. FallBack(c)
    BY <1>8 DEF ConnectFails, StreamBreaks, StreamEnds
  <2>2. faults' \in 0..MaxFaults
    BY <1>8, BoundsAssumption DEF ConnectFails, StreamBreaks, StreamEnds, TypeOK
  <2>3. UNCHANGED <<draft, sched, row, sent, conns, acks, held, changes>>
    BY <1>8 DEF ConnectFails, StreamBreaks, StreamEnds
  <2> QED
    BY <2>1, <2>2, <2>3, FallBackType DEF TypeOK
<1>9. ASSUME NEW c \in Connectors, PollTimer(c) \/ PollFails(c) \/ Close(c) PROVE TypeOK'
  <2>1. CASE PollTimer(c)
    BY <2>1 DEF PollTimer, TypeOK
  <2>2. CASE PollFails(c)
    BY <2>2, BoundsAssumption DEF PollFails, TypeOK
  <2>3. CASE Close(c)
    <3>1. <<>> \in Seq(Lists)
      OBVIOUS
    <3> QED
      BY <2>3, <3>1 DEF Close, TypeOK
  <2> QED
    BY <1>9, <2>1, <2>2, <2>3
<1>10. ASSUME NEW c \in Connectors, RecvFrame(c) PROVE TypeOK'
  <2>1. frames[c] \in Seq(Lists) /\ frames[c] # <<>>
    BY <1>10 DEF RecvFrame, TypeOK
  <2>2. Head(frames[c]) \in Lists /\ Tail(frames[c]) \in Seq(Lists)
    BY <2>1
  <2>3. frames' \in [Connectors -> Seq(Lists)]
    BY <1>10, <2>2 DEF RecvFrame, TypeOK
  <2>4. Adopt(c, Head(frames[c]))
    BY <1>10 DEF RecvFrame
  <2> QED
    BY <1>10, <2>2, <2>3, <2>4, AdoptType DEF RecvFrame, TypeOK
<1>11. ASSUME NEW c \in Connectors, NEW list \in polls[c], RecvPoll(c, list) PROVE TypeOK'
  <2>1. list \in Lists /\ Adopt(c, list)
    BY <1>11 DEF RecvPoll, TypeOK
  <2>2. polls' \in [Connectors -> SUBSET (Lists \cup {Asked})]
    BY <1>11 DEF RecvPoll, TypeOK
  <2> QED
    BY <1>11, <2>1, <2>2, AdoptType DEF RecvPoll, TypeOK
<1>12. ASSUME NEW a \in acks, RecvAck(a) \/ LoseAck(a) PROVE TypeOK'
  <2>1. a.version \in Nat
    BY DEF TypeOK
  <2> QED
    BY <1>12, <2>1 DEF RecvAck, Acked, LoseAck, TypeOK
<1>13. CASE UNCHANGED vars
  BY <1>13 DEF vars, TypeOK
<1> QED
  BY <1>1, <1>2, <1>3, <1>4, <1>5, <1>6, <1>7, <1>8, <1>9, <1>10, <1>11, <1>12, <1>13
     DEF Next

(* Type correctness, for any number of gateways and an unreliable store.   *)
THEOREM TypeCorrect == Spec => []TypeOK
<1>1. TypeOK /\ [Next]_vars => TypeOK'
  BY StepTypeOK
<1> QED
  BY InitTypeOK, <1>1, PTL DEF Spec

-----------------------------------------------------------------------------
(* One gateway, reliable store.  The row names the last list handed out,   *)
(* and the scheduler, unless it is fresh, has that list published.         *)
SentBelowRow == \A list \in sent : list.version <= row.pushed

Accounted == \A g \in Gateways :
  \/ sched[g].published = NoList /\ sched[g].issued = 0
  \/ /\ sched[g].published \in sent
     /\ sched[g].published.version = row.pushed
     /\ sched[g].issued = row.pushed

(* Whatever is in flight or held was handed out.                           *)
InFlightSent == \A c \in Connectors :
  /\ \A i \in 1..Len(frames[c]) : frames[c][i] \in sent
  /\ polls[c] \subseteq sent \cup {Asked}
  /\ held[c] \in sent \cup {NoList}

SentInv == VersionNamesOneList /\ SentBelowRow /\ Accounted
DInv    == TypeOK /\ SentInv /\ InFlightSent

(* Handing out keeps versions accounted for: a list that is published      *)
(* already is handed out again under its own version, a new one is above   *)
(* all others.                                                             *)
LEMMA HandOut ==
  ASSUME TypeOK, SentInv, NEW g \in Gateways, Gateways = {g}, NEW s,
         s = Recompute(g, row.pushed),
         sched' = [sched EXCEPT ![g] = s],
         \/ /\ s.published = sched[g].published
            /\ UNCHANGED <<row, sent>>
         \/ /\ s.published # NoList
            /\ row' = [row EXCEPT !.pushed = s.published.version]
            /\ sent' = sent \cup {s.published}
  PROVE  /\ SentInv'
         /\ sent' # sent => /\ sent' \ sent = {s.published}
                            /\ s.published \in Lists
                            /\ \A older \in sent : older.version < s.published.version
<1>1. /\ row \in [pushed : Nat, acked : Nat] /\ sched[g] \in Schedulers /\ sched'[g] = s
      /\ sent \in SUBSET Lists
  BY DEF TypeOK
<1>2. \/ s.published = sched[g].published /\ s.issued = sched[g].issued
      \/ /\ s.published \in Lists
         /\ s.published.version = Larger(row.pushed, sched[g].issued) + 1
         /\ s.issued = s.published.version
  BY <1>1, RecomputePublishes
<1>3. Larger(row.pushed, sched[g].issued) = row.pushed
  BY <1>1 DEF SentInv, Accounted, Larger
<1>4. CASE s.published = sched[g].published /\ s.issued = sched[g].issued
  <2>1. s.published # NoList =>
          s.published \in sent /\ s.published.version = row.pushed /\ s.issued = row.pushed
    BY <1>4 DEF SentInv, Accounted
  <2>2. row' = row /\ sent' = sent
    BY <1>1, <2>1
  <2>3. SentInv'
    BY <1>1, <1>4, <2>1, <2>2 DEF SentInv, Accounted, VersionNamesOneList, SentBelowRow
  <2> QED
    BY <2>2, <2>3
<1>5. CASE /\ s.published \in Lists
           /\ s.published.version = row.pushed + 1
           /\ s.issued = s.published.version
  <2>1. \A older \in sent : older.version < s.published.version /\ older.version \in Nat
    BY <1>1, <1>5 DEF SentInv, SentBelowRow, Lists
  <2>2. s.published # sched[g].published
    <3>1. sched[g].published = NoList => s.published # sched[g].published
      BY <1>1, <1>5 DEF NoList
    <3>2. sched[g].published # NoList => s.published # sched[g].published
      BY <1>1, <1>5 DEF SentInv, Accounted
    <3> QED
      BY <3>1, <3>2
  <2>3. row'.pushed = s.published.version /\ sent' = sent \cup {s.published}
    BY <1>1, <2>2
  <2>4. VersionNamesOneList'
    BY <2>1, <2>3, <1>5 DEF SentInv, VersionNamesOneList, Lists
  <2>5. SentBelowRow'
    BY <1>1, <1>5, <2>1, <2>3 DEF SentBelowRow, Lists
  <2>6. Accounted'
    BY <1>1, <1>5, <2>3 DEF Accounted
  <2>7. s.published \notin sent
    BY <2>1
  <2> QED
    BY <1>5, <2>1, <2>3, <2>4, <2>5, <2>6, <2>7 DEF SentInv
<1> QED
  BY <1>2, <1>3, <1>4, <1>5

(* What each of the three handlers hands out.                              *)
LEMMA Handlers ==
  ASSUME TypeOK, OneReliableGateway, NEW g \in Gateways,
         \/ Pump(g)
         \/ \E c \in Connectors : OpenStream(c, g) \/ ServePoll(g, c)
  PROVE  /\ Gateways = {g}
         /\ LET s == Recompute(g, row.pushed)
            IN  /\ sched' = [sched EXCEPT ![g] = s]
                /\ \/ /\ s.published = sched[g].published
                      /\ UNCHANGED <<row, sent>>
                   \/ /\ s.published # NoList
                      /\ row' = [row EXCEPT !.pushed = s.published.version]
                      /\ sent' = sent \cup {s.published}
<1> DEFINE s == Recompute(g, row.pushed)
<1>1. Gateways = {g} /\ StoreOutcomes = {TRUE}
  BY DEF OneReliableGateway
<1>2. Persisted(TRUE) = row.pushed
        /\ \A list : Delivered(list, TRUE) = [row EXCEPT !.pushed = list.version]
  BY DEF Persisted, Delivered
<1>3. /\ s.published # sched[g].published => s.published \in Lists
      /\ s.published = NoList => s.published = sched[g].published
  <2>1. row.pushed \in Nat
    BY DEF TypeOK
  <2>2. s.published = sched[g].published \/ s.published \in Lists
    BY <2>1, RecomputePublishes
  <2> QED
    BY <2>2 DEF Lists, NoList
<1>4. NoList \notin Lists
  BY DEF Lists, NoList
<1>5. CASE Pump(g)
  <2>1. sched' = [sched EXCEPT ![g] = s]
    BY <1>1, <1>2, <1>5 DEF Pump
  <2>2. \/ /\ s.published # sched[g].published
           /\ row' = Delivered(s.published, TRUE)
           /\ sent' = sent \cup {s.published}
        \/ /\ s.published = sched[g].published
           /\ UNCHANGED <<row, sent>>
    BY <1>1, <1>2, <1>5 DEF Pump
  <2> HIDE DEF s
  <2> QED
    BY <1>1, <1>2, <1>3, <1>4, <2>1, <2>2 DEF s
<1>6. ASSUME NEW c \in Connectors, OpenStream(c, g) \/ ServePoll(g, c)
      PROVE  /\ sched' = [sched EXCEPT ![g] = s]
             /\ \/ /\ s.published = sched[g].published
                   /\ UNCHANGED <<row, sent>>
                \/ /\ s.published # NoList
                   /\ row' = [row EXCEPT !.pushed = s.published.version]
                   /\ sent' = sent \cup {s.published}
  <2>1. sched' = [sched EXCEPT ![g] = s]
    BY <1>1, <1>2, <1>6 DEF OpenStream, ServePoll
  <2>2. /\ row' = IF Current(s) = {} THEN row ELSE Delivered(s.published, TRUE)
        /\ sent' = sent \cup Current(s)
    BY <1>1, <1>2, <1>6 DEF OpenStream, ServePoll
  <2> HIDE DEF s
  <2>3. CASE s.published = NoList
    BY <1>3, <2>1, <2>2, <2>3 DEF Current
  <2>4. CASE s.published # NoList
    BY <1>2, <2>1, <2>2, <2>4 DEF Current
  <2> QED
    BY <2>3, <2>4
<1> QED
  BY <1>1, <1>5, <1>6

(* A step that hands nothing out leaves the versions accounted for.        *)
LEMMA SentFrame ==
  ASSUME TypeOK, SentInv, UNCHANGED sent, row'.pushed = row.pushed,
         \A g \in Gateways : /\ sched'[g].published = sched[g].published
                             /\ sched'[g].issued = sched[g].issued
  PROVE  SentInv'
BY DEF SentInv, VersionNamesOneList, SentBelowRow, Accounted

LEMMA InFlightFrame ==
  ASSUME InFlightSent, sent \subseteq sent', UNCHANGED <<frames, polls, held>>
  PROVE  InFlightSent'
BY DEF InFlightSent

(* Adopting a list that was handed out, which no other list can pass for.  *)
LEMMA AdoptSent ==
  ASSUME TypeOK, SentInv, InFlightSent, NEW c \in Connectors, NEW list \in sent, Adopt(c, list)
  PROVE  \/ UNCHANGED held
         \/ list.version > held[c].version /\ held' = [held EXCEPT ![c] = list]
<1>1. list \in Lists /\ held[c] \in Lists \cup {NoList} /\ list.version \in Nat \ {0}
  BY DEF TypeOK, Lists
<1>2. held[c].version \in Nat
  BY <1>1 DEF Lists, NoList
<1>3. CASE UNCHANGED held
  BY <1>3
<1>4. CASE ~Outdated(c, list) /\ held' = [held EXCEPT ![c] = list]
  <2>1. CASE list.version > held[c].version
    BY <1>4, <2>1
  <2>2. CASE list.version = held[c].version
    <3>1. held[c] # NoList
      BY <1>1, <2>2 DEF NoList
    <3>2. held[c] = list
      BY <2>2, <3>1 DEF InFlightSent, SentInv, VersionNamesOneList
    <3> QED
      BY <1>4, <3>2 DEF TypeOK
  <2> QED
    BY <1>1, <1>2, <1>4, <2>1, <2>2 DEF Outdated
<1> QED
  BY <1>3, <1>4 DEF Adopt

LEMMA InitDInv == Init => DInv
<1> SUFFICES ASSUME Init PROVE DInv
  OBVIOUS
<1>1. SentInv
  BY DEF Init, SentInv, VersionNamesOneList, SentBelowRow, Accounted, Fresh
<1>2. InFlightSent
  BY DEF Init, InFlightSent
<1> QED
  BY InitTypeOK, <1>1, <1>2 DEF DInv

(* Every step keeps the invariant, and is a step of the feed or a stutter. *)
LEMMA StepDInv ==
  ASSUME OneReliableGateway, DInv, [Next]_vars
  PROVE  DInv' /\ [Feed!Next]_(Feed!vars)
<1> USE DEF gatewayVars, connectorVars
<1>1. TypeOK /\ TypeOK' /\ SentInv /\ InFlightSent
  BY StepTypeOK DEF DInv
<1>2. ASSUME UNCHANGED <<sent, held>> PROVE UNCHANGED Feed!vars
  BY <1>2 DEF Feed!vars
<1>3. ASSUME NEW g \in Gateways,
             Pump(g) \/ \E c \in Connectors : OpenStream(c, g) \/ ServePoll(g, c)
      PROVE  DInv' /\ [Feed!Next]_(Feed!vars)
  <2> DEFINE s == Recompute(g, row.pushed)
  <2>1. /\ Gateways = {g}
        /\ sched' = [sched EXCEPT ![g] = s]
        /\ \/ /\ s.published = sched[g].published
              /\ UNCHANGED <<row, sent>>
           \/ /\ s.published # NoList
              /\ row' = [row EXCEPT !.pushed = s.published.version]
              /\ sent' = sent \cup {s.published}
    BY <1>1, <1>3, Handlers
  <2> HIDE DEF s
  <2>2. /\ SentInv'
        /\ sent' # sent => /\ sent' \ sent = {s.published}
                           /\ s.published \in Lists
                           /\ \A older \in sent : older.version < s.published.version
    BY <1>1, <2>1, HandOut DEF s
  <2>3. s.published # NoList => s.published \in sent'
    BY <2>1, <1>1 DEF SentInv, Accounted
  <2>4. held' = held /\ sent \subseteq sent'
    BY <1>3, <2>1 DEF Pump, OpenStream, ServePoll
  <2>5. Persisted(TRUE) = row.pushed /\ StoreOutcomes = {TRUE}
    BY <2>1 DEF Persisted, OneReliableGateway
  <2>6. ASSUME NEW c \in Connectors, NEW i \in 1..Len(frames'[c])
        PROVE  frames'[c][i] \in sent'
    <3>1. frames[c] \in Seq(Lists) /\ \A j \in 1..Len(frames[c]) : frames[c][j] \in sent
      BY <1>1 DEF TypeOK, InFlightSent
    <3>2. CASE frames'[c] = frames[c]
      BY <2>4, <3>1, <3>2
    <3>3. CASE frames'[c] = Append(frames[c], s.published) /\ s.published # NoList
      BY <2>3, <2>4, <3>1, <3>3
    <3>4. CASE frames'[c] = Burst(s)
      BY <2>3, <3>4 DEF Burst
    <3>5. CASE Pump(g)
      <4>1. \/ frames' = frames
            \/ /\ s.published # NoList
               /\ frames' = [k \in Connectors |-> IF k \in conns[g] /\ stream[k] = g
                                                 THEN Append(frames[k], s.published) ELSE frames[k]]
        <5>1. row.pushed \in Nat
          BY <1>1 DEF TypeOK
        <5>2. s.published # sched[g].published => s.published # NoList
          BY <1>1, <5>1, RecomputePublishes DEF s, Lists, NoList
        <5> QED
          BY <2>5, <3>5, <5>2 DEF Pump, s
      <4> QED
        BY <3>2, <3>3, <4>1 DEF TypeOK
    <3>6. CASE \E k \in Connectors : OpenStream(k, g)
      <4>1. PICK k \in Connectors : frames' = [frames EXCEPT ![k] = Burst(s)]
        BY <2>5, <3>6 DEF OpenStream, s
      <4> QED
        BY <1>1, <3>2, <3>4, <4>1 DEF TypeOK
    <3>7. CASE \E k \in Connectors : ServePoll(g, k)
      BY <3>2, <3>7 DEF ServePoll
    <3> QED
      BY <1>3, <3>5, <3>6, <3>7
  <2>7. ASSUME NEW c \in Connectors
        PROVE  polls'[c] \subseteq sent' \cup {Asked}
    <3>1. polls[c] \subseteq sent' \cup {Asked}
      BY <1>1, <2>4 DEF InFlightSent
    <3>2. Current(s) \subseteq sent'
      BY <2>3 DEF Current
    <3>3. \/ polls' = polls
          \/ \E k \in Connectors :
               polls' = [polls EXCEPT ![k] = (polls[k] \ {Asked}) \cup Current(s)]
      BY <1>3, <2>5 DEF Pump, OpenStream, ServePoll, s
    <3>4. polls'[c] = polls[c] \/ polls'[c] = (polls[c] \ {Asked}) \cup Current(s)
      BY <1>1, <3>3 DEF TypeOK
    <3> QED
      BY <3>1, <3>2, <3>4
  <2>8. InFlightSent'
    BY <1>1, <2>4, <2>6, <2>7 DEF InFlightSent
  <2>9. [Feed!Next]_(Feed!vars)
    <3>1. CASE sent' = sent
      BY <1>2, <2>4, <3>1
    <3>2. CASE sent' # sent
      <4>1. sent' = sent \cup {s.published}
        BY <2>1, <3>2
      <4>2. Feed!Publish(s.published) /\ s.published \in Feed!Lists
        BY <2>2, <2>4, <3>2, <4>1 DEF Feed!Publish, Feed!Lists, Lists
      <4>3. s.published \in sent' \ sent
        BY <2>2, <3>2
      <4> QED
        BY <4>2, <4>3 DEF Feed!Next
    <3> QED
      BY <3>1, <3>2
  <2> QED
    BY <1>1, <2>2, <2>8, <2>9 DEF DInv
<1>4. ASSUME UNCHANGED <<sent, frames, polls, held>>, row'.pushed = row.pushed,
             \A g \in Gateways : /\ sched'[g].published = sched[g].published
                                 /\ sched'[g].issued = sched[g].issued
      PROVE  DInv' /\ [Feed!Next]_(Feed!vars)
  BY <1>1, <1>2, <1>4, SentFrame, InFlightFrame DEF DInv
<1>5. CASE Tick
  <2>1. \A g \in Gateways : /\ sched'[g].published = sched[g].published
                            /\ sched'[g].issued = sched[g].issued
    BY <1>1, <1>5 DEF Tick, TypeOK, Schedulers
  <2>2. UNCHANGED <<sent, frames, polls, held>> /\ row'.pushed = row.pushed
    BY <1>5 DEF Tick
  <2> QED
    BY <1>4, <2>1, <2>2
<1>6. ASSUME NEW g \in Gateways, Restart(g) PROVE DInv' /\ [Feed!Next]_(Feed!vars)
  <2>1. UNCHANGED <<sent, row, frames, polls, held>>
    BY <1>6 DEF Restart
  <2>2. \A k \in Gateways : sched'[k] = IF k = g THEN Fresh ELSE sched[k]
    BY <1>1, <1>6 DEF Restart, TypeOK
  <2>3. SentInv'
    BY <1>1, <2>1, <2>2 DEF SentInv, VersionNamesOneList, SentBelowRow, Accounted, Fresh
  <2> QED
    BY <1>1, <1>2, <2>1, <2>3, InFlightFrame DEF DInv
<1>7. ASSUME NEW g \in Gateways, NEW d \in Drafts \cup {NoDraft}, Redraft(g, d)
      PROVE  DInv' /\ [Feed!Next]_(Feed!vars)
  BY <1>4, <1>7 DEF Redraft
<1>8. ASSUME NEW g \in Gateways, NEW c \in Connectors, GatewaySeesClose(g, c)
      PROVE  DInv' /\ [Feed!Next]_(Feed!vars)
  BY <1>4, <1>8 DEF GatewaySeesClose
<1>9. ASSUME UNCHANGED <<sched, row, sent, held>>,
             \A c \in Connectors : /\ frames'[c] = frames[c] \/ frames'[c] = <<>>
                                   /\ polls'[c] \subseteq polls[c] \cup {Asked}
      PROVE  DInv' /\ [Feed!Next]_(Feed!vars)
  <2>1. SentInv'
    BY <1>1, <1>9, SentFrame
  <2>2. InFlightSent'
    <3>1. ASSUME NEW c \in Connectors, NEW i \in 1..Len(frames'[c])
          PROVE  frames'[c][i] \in sent
      <4>1. CASE frames'[c] = frames[c]
        BY <1>1, <4>1 DEF InFlightSent
      <4>2. CASE frames'[c] = <<>>
        BY <4>2
      <4> QED
        BY <1>9, <4>1, <4>2
    <3> QED
      BY <1>1, <1>9, <3>1 DEF InFlightSent
  <2> QED
    BY <1>1, <1>2, <1>9, <2>1, <2>2 DEF DInv
<1>10. ASSUME NEW c \in Connectors, ConnectFails(c) \/ StreamBreaks(c) \/ StreamEnds(c)
       PROVE  DInv' /\ [Feed!Next]_(Feed!vars)
  <2>1. FallBack(c) /\ UNCHANGED <<sched, row, sent, held>>
    BY <1>10 DEF ConnectFails, StreamBreaks, StreamEnds
  <2> QED
    BY <1>1, <1>9, <2>1 DEF FallBack, TypeOK
<1>11. ASSUME NEW c \in Connectors, PollTimer(c) \/ PollFails(c) \/ Close(c)
       PROVE  DInv' /\ [Feed!Next]_(Feed!vars)
  <2>1. UNCHANGED <<sched, row, sent, held>>
    BY <1>11 DEF PollTimer, PollFails, Close
  <2>2. \A k \in Connectors : frames'[k] = frames[k] \/ frames'[k] = <<>>
    BY <1>1, <1>11 DEF PollTimer, PollFails, Close, TypeOK
  <2>3. \A k \in Connectors : polls'[k] \subseteq polls[k] \cup {Asked}
    <3>1. \/ polls' = polls
          \/ polls' = [polls EXCEPT ![c] = polls[c] \cup {Asked}]
          \/ \E m \in polls[c] : polls' = [polls EXCEPT ![c] = polls[c] \ {m}]
      BY <1>11 DEF PollTimer, PollFails, Close
    <3>2. \/ polls'[c] = polls[c]
          \/ polls'[c] = polls[c] \cup {Asked}
          \/ \E m \in polls[c] : polls'[c] = polls[c] \ {m}
      BY <1>1, <3>1 DEF TypeOK
    <3>3. \A k \in Connectors \ {c} : polls'[k] = polls[k]
      BY <1>1, <3>1 DEF TypeOK
    <3> QED
      BY <3>2, <3>3
  <2> QED
    BY <1>9, <2>1, <2>2, <2>3
<1>12. ASSUME NEW c \in Connectors, NEW list \in sent, Adopt(c, list),
              UNCHANGED <<sched, row, sent>>,
              \A k \in Connectors : /\ \/ frames'[k] = frames[k]
                                       \/ frames[k] # <<>> /\ frames'[k] = Tail(frames[k])
                                    /\ polls'[k] \subseteq polls[k]
       PROVE  DInv' /\ [Feed!Next]_(Feed!vars)
  <2>1. \/ UNCHANGED held
        \/ list.version > held[c].version /\ held' = [held EXCEPT ![c] = list]
    BY <1>1, <1>12, AdoptSent
  <2>2. SentInv'
    BY <1>1, <1>12, SentFrame
  <2>3. \A k \in Connectors : held'[k] \in sent' \cup {NoList}
    BY <1>1, <1>12, <2>1 DEF InFlightSent, TypeOK
  <2>4. ASSUME NEW k \in Connectors, NEW i \in 1..Len(frames'[k])
        PROVE  frames'[k][i] \in sent'
    <3>1. frames[k] \in Seq(Lists) /\ \A j \in 1..Len(frames[k]) : frames[k][j] \in sent
      BY <1>1 DEF TypeOK, InFlightSent
    <3>2. CASE frames'[k] = frames[k]
      BY <1>12, <3>1, <3>2
    <3>3. CASE frames[k] # <<>> /\ frames'[k] = Tail(frames[k])
      <4>1. Len(Tail(frames[k])) = Len(frames[k]) - 1 /\ Len(frames[k]) \in Nat
        BY <3>1, <3>3
      <4>2. i + 1 \in 1..Len(frames[k]) /\ Tail(frames[k])[i] = frames[k][i + 1]
        BY <3>1, <3>3, <4>1
      <4> QED
        BY <1>12, <3>1, <3>3, <4>2
    <3> QED
      BY <1>12, <3>2, <3>3
  <2>5. InFlightSent'
    BY <1>1, <1>12, <2>3, <2>4 DEF InFlightSent
  <2>6. [Feed!Next]_(Feed!vars)
    <3>1. CASE UNCHANGED held
      BY <1>2, <1>12, <3>1
    <3>2. CASE list.version > held[c].version /\ held' = [held EXCEPT ![c] = list]
      <4>1. Feed!Adopt(c)
        BY <1>12, <3>2 DEF Feed!Adopt
      <4> QED
        BY <4>1 DEF Feed!Next
    <3> QED
      BY <2>1, <3>1, <3>2
  <2> QED
    BY <1>1, <2>2, <2>5, <2>6 DEF DInv
<1>13. ASSUME NEW c \in Connectors, RecvFrame(c) PROVE DInv' /\ [Feed!Next]_(Feed!vars)
  <2>1. frames[c] \in Seq(Lists) /\ frames[c] # <<>>
    BY <1>1, <1>13 DEF RecvFrame, TypeOK
  <2>2. Head(frames[c]) \in sent
    BY <1>1, <2>1 DEF InFlightSent
  <2>3. \A k \in Connectors : /\ \/ frames'[k] = frames[k]
                                 \/ frames[k] # <<>> /\ frames'[k] = Tail(frames[k])
                              /\ polls'[k] \subseteq polls[k]
    <3>1. polls' = polls /\ frames' = [frames EXCEPT ![c] = Tail(frames[c])]
      BY <1>13 DEF RecvFrame
    <3>2. \A k \in Connectors : frames'[k] = IF k = c THEN Tail(frames[c]) ELSE frames[k]
      <4>1. DOMAIN frames = Connectors
        BY <1>1 DEF TypeOK
      <4> QED
        BY <3>1, <4>1, Zenon
    <3>3. \A k \in Connectors : polls'[k] \subseteq polls[k]
      BY <3>1
    <3>4. \A k \in Connectors : \/ frames'[k] = frames[k]
                                \/ frames[k] # <<>> /\ frames'[k] = Tail(frames[k])
      BY <2>1, <3>2, Zenon
    <3> QED
      BY <3>3, <3>4, Zenon
  <2>4. Adopt(c, Head(frames[c])) /\ UNCHANGED <<sched, row, sent>>
    BY <1>13 DEF RecvFrame
  <2> QED
    BY <1>12, <2>2, <2>3, <2>4
<1>14. ASSUME NEW c \in Connectors, NEW list \in polls[c], RecvPoll(c, list)
       PROVE  DInv' /\ [Feed!Next]_(Feed!vars)
  <2>1. list \in sent /\ Adopt(c, list) /\ UNCHANGED <<sched, row, sent, frames>>
    BY <1>1, <1>14 DEF RecvPoll, InFlightSent
  <2>2. \A k \in Connectors : /\ \/ frames'[k] = frames[k]
                                 \/ frames[k] # <<>> /\ frames'[k] = Tail(frames[k])
                              /\ polls'[k] \subseteq polls[k]
    <3>1. \A k \in Connectors : polls'[k] \subseteq polls[k]
      <4>1. polls' = [polls EXCEPT ![c] = polls[c] \ {list}]
        BY <1>14 DEF RecvPoll
      <4>2. \A k \in Connectors : polls'[k] = IF k = c THEN polls[c] \ {list} ELSE polls[k]
        BY <1>1, <4>1 DEF TypeOK
      <4> QED
        BY <4>2
    <3>2. \A k \in Connectors : frames'[k] = frames[k]
      BY <2>1
    <3> QED
      BY <3>1, <3>2, Zenon
  <2>3. UNCHANGED <<sched, row, sent>>
    BY <2>1
  <2> QED
    BY <1>12, <2>1, <2>2, <2>3
<1>15. ASSUME NEW a \in acks, RecvAck(a) \/ LoseAck(a) PROVE DInv' /\ [Feed!Next]_(Feed!vars)
  <2>1. row'.pushed = row.pushed
    BY <1>1, <1>15 DEF RecvAck, Acked, LoseAck, TypeOK
  <2>2. UNCHANGED <<sched, sent, frames, polls, held>>
    BY <1>15 DEF RecvAck, LoseAck
  <2> QED
    BY <1>4, <2>1, <2>2
<1>16. CASE UNCHANGED vars
  BY <1>4, <1>16 DEF vars
<1> QED
  BY <1>3, <1>5, <1>6, <1>7, <1>8, <1>10, <1>11, <1>13, <1>14, <1>15, <1>16 DEF Next

(* With one gateway and a store whose calls succeed, a version names one   *)
(* list, for any number of connectors, restarts and reordered deliveries.  *)
THEOREM VersionsNameOneList ==
  ASSUME OneReliableGateway
  PROVE  Spec => []VersionNamesOneList
<1>1. DInv /\ [Next]_vars => DInv'
  BY StepDInv
<1>2. DInv => VersionNamesOneList
  BY DEF DInv, SentInv
<1> QED
  BY InitDInv, <1>1, <1>2, PTL DEF Spec

(* What is published next is always above everything handed out before.    *)
THEOREM NextVersionsAreFresh ==
  ASSUME OneReliableGateway
  PROVE  Spec => []NextVersionIsFresh
<1>1. DInv /\ [Next]_vars => DInv'
  BY StepDInv
<1>2. DInv => NextVersionIsFresh
  <2> SUFFICES ASSUME DInv, NEW g \in Gateways, NEW list \in sent
               PROVE  list.version <= Larger(row.pushed, sched[g].issued)
    BY DEF NextVersionIsFresh
  <2>1. row.pushed \in Nat /\ sched[g].issued \in Nat /\ list.version \in Nat
        /\ list.version <= row.pushed
    BY DEF DInv, SentInv, SentBelowRow, TypeOK, Schedulers, Lists
  <2> QED
    BY <2>1 DEF Larger
<1> QED
  BY InitDInv, <1>1, <1>2, PTL DEF Spec

(* The push machinery implements the feed: a connector replaces the list   *)
(* it holds only by a newer one, and versions only grow.                   *)
THEOREM FeedRefinement ==
  ASSUME OneReliableGateway
  PROVE  Spec => ImplementsFeed
<1>1. DInv /\ [Next]_vars => DInv'
  BY StepDInv
<1>2. DInv /\ [Next]_vars => [Feed!Next]_(Feed!vars)
  BY StepDInv
<1>3. Init => Feed!Init
  BY DEF Init, Feed!Init, Feed!NoList, NoList
<1> QED
  BY InitDInv, <1>1, <1>2, <1>3, PTL DEF Spec, ImplementsFeed, Feed!Spec

-----------------------------------------------------------------------------
(* One connector, any number of gateways, an unreliable store.  What the   *)
(* connector holds is at least what it has acknowledged, whether the       *)
(* acknowledgement is in flight or recorded.                               *)
AckInv == /\ \A a \in acks : a.version <= held[a.from].version
          /\ \A c \in Connectors : row.acked <= held[c].version

(* Adopting never lowers the version held, and acknowledges it.            *)
LEMMA AdoptAck ==
  ASSUME TypeOK, AckInv, NEW c \in Connectors, NEW list \in Lists, Adopt(c, list),
         UNCHANGED row
  PROVE  AckInv'
<1>1. /\ list.version \in Nat /\ row.acked \in Nat
      /\ \A k \in Connectors : held[k].version \in Nat
      /\ \A a \in acks : a.from \in Connectors /\ a.version \in Nat
  BY DEF TypeOK, Lists, NoList
<1>2. CASE UNCHANGED <<held, acks>>
  BY <1>2 DEF AckInv
<1>3. CASE /\ ~Outdated(c, list) /\ held' = [held EXCEPT ![c] = list]
           /\ acks' = acks \cup {[from |-> c, version |-> list.version]}
  <2>1. \A k \in Connectors : held'[k].version >= held[k].version /\ held'[k].version \in Nat
    BY <1>1, <1>3 DEF Outdated, TypeOK
  <2>2. held'[c].version = list.version
    BY <1>3 DEF TypeOK
  <2>3. ASSUME NEW a \in acks' PROVE a.version <= held'[a.from].version
    <3>1. CASE a \in acks
      BY <1>1, <2>1, <3>1 DEF AckInv
    <3>2. CASE a = [from |-> c, version |-> list.version]
      BY <1>1, <2>2, <3>2
    <3> QED
      BY <1>3, <3>1, <3>2
  <2>4. ASSUME NEW k \in Connectors PROVE row'.acked <= held'[k].version
    BY <1>1, <2>1 DEF AckInv
  <2> QED
    BY <2>3, <2>4 DEF AckInv
<1> QED
  BY <1>2, <1>3 DEF Adopt

(* A handler that hands out a list leaves the recorded ack alone.          *)
LEMMA DeliveredAcked ==
  ASSUME TypeOK, NEW list, NEW ok
  PROVE  Delivered(list, ok).acked = row.acked
BY DEF TypeOK, Delivered

LEMMA StepAckInv ==
  ASSUME NEW only, Connectors = {only}, TypeOK, AckInv, [Next]_vars
  PROVE  AckInv'
<1> USE DEF gatewayVars, connectorVars
<1>1. ASSUME acks' \subseteq acks, held' = held, row'.acked = row.acked
      PROVE  AckInv'
  BY <1>1 DEF AckInv
<1>2. ASSUME NEW g \in Gateways,
             Pump(g) \/ \E c \in Connectors : OpenStream(c, g) \/ ServePoll(g, c)
      PROVE  AckInv'
  <2>1. row'.acked = row.acked
    BY <1>2, DeliveredAcked DEF Pump, OpenStream, ServePoll
  <2>2. UNCHANGED <<acks, held>>
    BY <1>2 DEF Pump, OpenStream, ServePoll
  <2> QED
    BY <1>1, <2>1, <2>2
<1>3. CASE Tick
  BY <1>1, <1>3 DEF Tick
<1>4. ASSUME NEW g \in Gateways,
             \/ Restart(g) \/ \E d \in Drafts \cup {NoDraft} : Redraft(g, d)
             \/ \E c \in Connectors : GatewaySeesClose(g, c)
      PROVE  AckInv'
  BY <1>1, <1>4 DEF Restart, Redraft, GatewaySeesClose
<1>5. ASSUME NEW c \in Connectors,
             \/ ConnectFails(c) \/ StreamBreaks(c) \/ StreamEnds(c)
             \/ PollTimer(c) \/ PollFails(c) \/ Close(c)
      PROVE  AckInv'
  <2>1. UNCHANGED <<row, acks, held>>
    BY <1>5 DEF ConnectFails, StreamBreaks, StreamEnds, PollTimer, PollFails, Close
  <2> QED
    BY <1>1, <2>1
<1>6. ASSUME NEW c \in Connectors, RecvFrame(c) PROVE AckInv'
  <2>1. frames[c] \in Seq(Lists) /\ frames[c] # <<>>
    BY <1>6 DEF RecvFrame, TypeOK
  <2>2. Head(frames[c]) \in Lists
    BY <2>1
  <2> QED
    BY <1>6, <2>2, AdoptAck DEF RecvFrame
<1>7. ASSUME NEW c \in Connectors, NEW list \in polls[c], RecvPoll(c, list) PROVE AckInv'
  <2>1. list \in Lists
    BY <1>7 DEF RecvPoll, TypeOK
  <2> QED
    BY <1>7, <2>1, AdoptAck DEF RecvPoll
<1>8. ASSUME NEW a \in acks, RecvAck(a) PROVE AckInv'
  <2>1. a.from = only /\ a.version <= held[only].version
    BY DEF TypeOK, AckInv
  <2>2. row' = row \/ row'.acked = a.version
    BY <1>8 DEF RecvAck, Acked, TypeOK
  <2>3. held' = held /\ acks' \subseteq acks
    BY <1>8 DEF RecvAck
  <2> QED
    BY <2>1, <2>2, <2>3 DEF AckInv
<1>9. ASSUME NEW a \in acks, LoseAck(a) PROVE AckInv'
  BY <1>1, <1>9 DEF LoseAck
<1>10. CASE UNCHANGED vars
  BY <1>1, <1>10 DEF vars
<1> QED
  BY <1>2, <1>3, <1>4, <1>5, <1>6, <1>7, <1>8, <1>9, <1>10 DEF Next

(* With one connector, a row whose ack has caught up with its push means   *)
(* that the connector holds that list or a newer one, for any number of    *)
(* gateways, restarts, failing store calls, and acknowledgements lost or   *)
(* out of order.                                                           *)
THEOREM StaleIsVisible ==
  ASSUME \E only : Connectors = {only}
  PROVE  Spec => []StaleConnectorIsVisible
<1>1. Init => TypeOK /\ AckInv
  <2> SUFFICES ASSUME Init PROVE AckInv
    BY InitTypeOK
  <2> QED
    BY DEF Init, AckInv, NoList
<1>2. TypeOK /\ AckInv /\ [Next]_vars => (TypeOK /\ AckInv)'
  BY StepTypeOK, StepAckInv
<1>3. TypeOK /\ AckInv => StaleConnectorIsVisible
  BY DEF AckInv, StaleConnectorIsVisible
<1> QED
  BY <1>1, <1>2, <1>3, PTL DEF Spec
=============================================================================
