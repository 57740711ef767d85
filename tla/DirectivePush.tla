----------------------------- MODULE DirectivePush -----------------------------
(***************************************************************************)
(* How a customer's connectors learn one workload's ranked list: the       *)
(* debouncing scheduler (gateway/src/controlplane/directives.ts), the      *)
(* stream, poll and ack endpoints and the pump (controlplane/api.ts), the  *)
(* directive row (targets/store.ts), and the connector's channel           *)
(* (connector/src/channel.ts).                                             *)
(*                                                                         *)
(* A handler of the gateway is synchronous, so each is one step; between   *)
(* any two steps messages are in flight.  Time is a tick, the debounce     *)
(* window Debounce ticks.  A ranked list is [version, draft]: the draft is *)
(* what listFingerprint compares.                                          *)
(***************************************************************************)
EXTENDS Integers, Sequences, FiniteSets

CONSTANTS
  Gateways,       \* gateway processes serving the customer
  Connectors,     \* connectors the customer runs
  Drafts,         \* the contents a computed list can have
  NoDraft,        \* the workload is in no target document
  Down, Closed,   \* a connector without a stream, a connector shut down
  Asked,          \* a poll the gateway has not answered yet
  Debounce,       \* debounce window, in ticks
  StreamAllowed,  \* FALSE when sseDisabled, or when a proxy refuses streams
  StoreOutcomes,  \* {TRUE} when store calls succeed, BOOLEAN when they may fail
  FaultKinds,     \* which of "drop", "restart", "poll" can happen
  MaxFaults,      \* bound on those faults
  MaxChanges      \* bound on changes of the computed list

ASSUME DebounceAssumption == Debounce \in Nat \ {0}
ASSUME StoreOutcomesAssumption == StoreOutcomes \in SUBSET BOOLEAN \ {{}}
ASSUME SwitchesAssumption == StreamAllowed \in BOOLEAN
ASSUME BoundsAssumption == MaxFaults \in Nat /\ MaxChanges \in Nat
ASSUME NamesAssumption == /\ NoDraft \notin Drafts
                          /\ Down \notin Gateways /\ Closed \notin Gateways /\ Down # Closed

Lists  == [version : Nat \ {0}, draft : Drafts]
NoList == [version |-> 0, draft |-> NoDraft]

ASSUME AskedAssumption == Asked \notin Lists

VARIABLES
  draft,    \* what each gateway would compute now, or NoDraft
  sched,    \* each gateway's scheduler state for the workload
  row,      \* connector_directive: the version pushed (0: no row) and acked (0: never)
  conns,    \* the connectors each gateway believes it has a stream to
  stream,   \* the gateway each connector reads a stream from, Down or Closed
  polling,  \* whether the connector's poll timer is running
  polls,    \* each connector's polls in flight: Asked, or the answer
  frames,   \* each connector's stream, written and not yet read
  acks,     \* acknowledgements in flight
  held,     \* the list each connector holds
  sent,     \* history: every list handed to a connector
  faults,   \* faults spent, up to MaxFaults
  changes   \* changes spent, up to MaxChanges

vars == <<draft, sched, row, conns, stream, polling, polls, frames, acks, held,
          sent, faults, changes>>

gatewayVars   == <<sched, row, sent>>
connectorVars == <<stream, polling, frames>>

-----------------------------------------------------------------------------
(* The scheduler.  since counts the ticks since the last push and stops at *)
(* Debounce, where it also starts: a first push is never debounced.        *)
Fresh == [published |-> NoList, pending |-> NoDraft, issued |-> 0, since |-> Debounce]

Larger(a, b) == IF a > b THEN a ELSE b

(* Mutant of Publish: versions continue from this process's memory alone.  *)
PublishFromMemory(s, d, persisted) ==
  [published |-> [version |-> s.issued + 1, draft |-> d], pending |-> NoDraft,
   issued |-> s.issued + 1, since |-> 0]

Publish(s, d, persisted) ==
  LET version == Larger(persisted, s.issued) + 1
  IN  [published |-> [version |-> version, draft |-> d], pending |-> NoDraft,
       issued |-> version, since |-> 0]

Offer(s, d, persisted) ==
  IF s.published.draft = d THEN [s EXCEPT !.pending = NoDraft]
  ELSE IF s.since < Debounce THEN [s EXCEPT !.pending = d]
  ELSE Publish(s, d, persisted)

(* Mutant of Flush: with nothing held back it publishes all the same, a    *)
(* list without content.                                                   *)
FlushAnyway(s, persisted) ==
  IF s.since < Debounce THEN s ELSE Publish(s, s.pending, persisted)

Flush(s, persisted) ==
  IF s.pending = NoDraft \/ s.since < Debounce THEN s
  ELSE Publish(s, s.pending, persisted)

(* The computed list is offered when the document has the workload, and    *)
(* then whatever is due is flushed.                                        *)
Recompute(g, persisted) ==
  Flush(IF draft[g] = NoDraft THEN sched[g] ELSE Offer(sched[g], draft[g], persisted),
        persisted)

(* The store read behind readPersistedVersion; a failing one reads as 0.   *)
Persisted(ok) == IF ok THEN row.pushed ELSE 0

(* Mutant of Delivered: the delivery is not recorded.                      *)
Unrecorded(list, ok) == row

(* recordDirectiveDelivery, which a failing store drops.                   *)
Delivered(list, ok) == IF ok THEN [row EXCEPT !.pushed = list.version] ELSE row

(* Mutant of Burst: a reconnect is sent nothing.                           *)
NoBurst(s) == <<>>

(* What a poll is answered, and what a new connection is sent.             *)
Current(s) == IF s.published = NoList THEN {} ELSE {s.published}
Burst(s)   == IF s.published = NoList THEN <<>> ELSE <<s.published>>

-----------------------------------------------------------------------------
Init ==
  /\ draft = [g \in Gateways |-> NoDraft]
  /\ sched = [g \in Gateways |-> Fresh]
  /\ row = [pushed |-> 0, acked |-> 0]
  /\ conns = [g \in Gateways |-> {}]
  /\ stream = [c \in Connectors |-> Down]
  /\ polling = [c \in Connectors |-> FALSE]
  /\ polls = [c \in Connectors |-> {}]
  /\ frames = [c \in Connectors |-> <<>>]
  /\ acks = {}
  /\ held = [c \in Connectors |-> NoList]
  /\ sent = {}
  /\ faults = 0
  /\ changes = 0

(* The document, the unmet state or the measurements change what would be  *)
(* computed; NoDraft takes the workload out of the document.               *)
Redraft(g, d) ==
  /\ changes < MaxChanges /\ d # draft[g]
  /\ changes' = changes + 1
  /\ draft' = [draft EXCEPT ![g] = d]
  /\ UNCHANGED <<gatewayVars, conns, connectorVars, polls, acks, held, faults>>

Tick ==
  /\ \E g \in Gateways : sched[g].since < Debounce
  /\ sched' = [g \in Gateways |->
                 [sched[g] EXCEPT !.since = IF @ < Debounce THEN @ + 1 ELSE @]]
  /\ UNCHANGED <<draft, row, conns, connectorVars, polls, acks, held, sent, faults, changes>>

(* The push loop.  What became current now is written to every stream the  *)
(* gateway believes open; frames for a peer that is gone are lost, and are *)
(* recorded as delivered all the same.                                     *)
Pump(g) ==
  /\ conns[g] # {}
  /\ \E read, write \in StoreOutcomes :
       LET s    == Recompute(g, Persisted(read))
           list == s.published
       IN  /\ sched' = [sched EXCEPT ![g] = s]
           /\ \/ /\ list # sched[g].published
                 /\ frames' = [c \in Connectors |->
                                 IF c \in conns[g] /\ stream[c] = g
                                 THEN Append(frames[c], list) ELSE frames[c]]
                 /\ row' = Delivered(list, write)
                 /\ sent' = sent \cup {list}
              \/ /\ list = sched[g].published
                 /\ UNCHANGED <<frames, row, sent>>
  /\ UNCHANGED <<draft, conns, stream, polling, polls, acks, held, faults, changes>>

(* GET /v1/connector/stream: the new connection alone is sent what is      *)
(* current; what the recompute published goes to no other connection.  The *)
(* connector stops polling.                                                *)
OpenStream(c, g) ==
  /\ StreamAllowed /\ stream[c] = Down
  /\ \E read, write \in StoreOutcomes :
       LET s == Recompute(g, Persisted(read))
       IN  /\ sched' = [sched EXCEPT ![g] = s]
           /\ frames' = [frames EXCEPT ![c] = Burst(s)]
           /\ row' = IF Current(s) = {} THEN row ELSE Delivered(s.published, write)
           /\ sent' = sent \cup Current(s)
  /\ conns' = [conns EXCEPT ![g] = @ \cup {c}]
  /\ stream' = [stream EXCEPT ![c] = g]
  /\ polling' = [polling EXCEPT ![c] = FALSE]
  /\ UNCHANGED <<draft, polls, acks, held, faults, changes>>

(* streamOnce ends: the loop falls back to polling, polls at once, and     *)
(* backs off before it tries again.                                        *)
FallBack(c) ==
  /\ stream' = [stream EXCEPT ![c] = Down]
  /\ frames' = [frames EXCEPT ![c] = <<>>]
  /\ polling' = [polling EXCEPT ![c] = TRUE]
  /\ polls' = [polls EXCEPT ![c] = @ \cup {Asked}]

(* The attempt is refused.                                                 *)
ConnectFails(c) ==
  /\ stream[c] = Down
  /\ FallBack(c)
  /\ UNCHANGED <<draft, gatewayVars, conns, acks, held, faults, changes>>

(* The network breaks a stream the gateway still writes to.                *)
StreamBreaks(c) ==
  /\ "drop" \in FaultKinds /\ faults < MaxFaults
  /\ \E g \in Gateways : stream[c] = g /\ c \in conns[g]
  /\ FallBack(c)
  /\ faults' = faults + 1
  /\ UNCHANGED <<draft, gatewayVars, conns, acks, held, changes>>

(* The connector notices that the gateway at the other end is gone.        *)
StreamEnds(c) ==
  /\ \E g \in Gateways : stream[c] = g /\ c \notin conns[g]
  /\ FallBack(c)
  /\ UNCHANGED <<draft, gatewayVars, conns, acks, held, faults, changes>>

(* The gateway's close event for a connection that is no longer read.  A   *)
(* connector that is back already has replaced its old connection here.    *)
GatewaySeesClose(g, c) ==
  /\ c \in conns[g] /\ stream[c] # g
  /\ conns' = [conns EXCEPT ![g] = @ \ {c}]
  /\ UNCHANGED <<draft, gatewayVars, connectorVars, polls, acks, held, faults, changes>>

PollTimer(c) ==
  /\ polling[c] /\ Asked \notin polls[c]
  /\ polls' = [polls EXCEPT ![c] = @ \cup {Asked}]
  /\ UNCHANGED <<draft, gatewayVars, conns, connectorVars, acks, held, faults, changes>>

(* GET /v1/connector/lists: answers what is current after a recompute      *)
(* whose publication no stream is told of.                                 *)
ServePoll(g, c) ==
  /\ Asked \in polls[c]
  /\ \E read, write \in StoreOutcomes :
       LET s == Recompute(g, Persisted(read))
       IN  /\ sched' = [sched EXCEPT ![g] = s]
           /\ polls' = [polls EXCEPT ![c] = (@ \ {Asked}) \cup Current(s)]
           /\ row' = IF Current(s) = {} THEN row ELSE Delivered(s.published, write)
           /\ sent' = sent \cup Current(s)
  /\ UNCHANGED <<draft, conns, connectorVars, acks, held, faults, changes>>

(* Mutant of Outdated: whatever arrives last is held.                      *)
NeverOutdated(c, list) == FALSE

(* adopt: an older list than the one held is dropped; any other is held    *)
(* and acknowledged, without waiting.                                      *)
Outdated(c, list) == held[c].version > list.version

Adopt(c, list) ==
  \/ /\ Outdated(c, list)
     /\ UNCHANGED <<held, acks>>
  \/ /\ ~Outdated(c, list)
     /\ held' = [held EXCEPT ![c] = list]
     /\ acks' = acks \cup {[from |-> c, version |-> list.version]}

RecvFrame(c) ==
  /\ frames[c] # <<>>
  /\ Adopt(c, Head(frames[c]))
  /\ frames' = [frames EXCEPT ![c] = Tail(@)]
  /\ UNCHANGED <<draft, gatewayVars, conns, stream, polling, polls, faults, changes>>

RecvPoll(c, list) ==
  /\ list \in polls[c] \ {Asked}
  /\ Adopt(c, list)
  /\ polls' = [polls EXCEPT ![c] = @ \ {list}]
  /\ UNCHANGED <<draft, gatewayVars, conns, connectorVars, faults, changes>>

(* A poll fails before or after the gateway has answered it.               *)
PollFails(c) ==
  /\ "poll" \in FaultKinds /\ faults < MaxFaults
  /\ \E m \in polls[c] : polls' = [polls EXCEPT ![c] = @ \ {m}]
  /\ faults' = faults + 1
  /\ UNCHANGED <<draft, gatewayVars, conns, connectorVars, acks, held, changes>>

(* Mutant of Acked: any ack is taken for one of what is outstanding.       *)
AckedOutstanding(a) == [row EXCEPT !.acked = row.pushed]

Acked(a) == [row EXCEPT !.acked = a.version]

(* POST /v1/connector/ack, in whatever order acknowledgements arrive: a    *)
(* row that exists takes the version as it is, none means 404.             *)
RecvAck(a) ==
  /\ a \in acks
  /\ acks' = acks \ {a}
  /\ row' = IF row.pushed = 0 THEN row ELSE Acked(a)
  /\ UNCHANGED <<draft, sched, conns, connectorVars, polls, held, sent, faults, changes>>

LoseAck(a) ==
  /\ a \in acks
  /\ acks' = acks \ {a}
  /\ UNCHANGED <<draft, gatewayVars, conns, connectorVars, polls, held, faults, changes>>

(* A gateway dies and starts again: the scheduler and its streams are      *)
(* gone, the row stays.                                                    *)
Restart(g) ==
  /\ "restart" \in FaultKinds /\ faults < MaxFaults
  /\ faults' = faults + 1
  /\ sched' = [sched EXCEPT ![g] = Fresh]
  /\ conns' = [conns EXCEPT ![g] = {}]
  /\ UNCHANGED <<draft, row, connectorVars, polls, acks, held, sent, changes>>

(* The application closes its connector: no stream, no timer; a poll still *)
(* in flight is adopted if it comes back.                                  *)
Close(c) ==
  /\ stream[c] # Closed
  /\ stream' = [stream EXCEPT ![c] = Closed]
  /\ frames' = [frames EXCEPT ![c] = <<>>]
  /\ polling' = [polling EXCEPT ![c] = FALSE]
  /\ UNCHANGED <<draft, gatewayVars, conns, polls, acks, held, faults, changes>>

Next ==
  \/ Tick
  \/ \E g \in Gateways :
       \/ Pump(g) \/ Restart(g)
       \/ \E d \in Drafts \cup {NoDraft} : Redraft(g, d)
       \/ \E c \in Connectors : OpenStream(c, g) \/ GatewaySeesClose(g, c) \/ ServePoll(g, c)
  \/ \E c \in Connectors :
       \/ ConnectFails(c) \/ StreamBreaks(c) \/ StreamEnds(c) \/ PollTimer(c)
       \/ RecvFrame(c) \/ PollFails(c) \/ Close(c)
       \/ \E list \in polls[c] : RecvPoll(c, list)
  \/ \E a \in acks : RecvAck(a) \/ LoseAck(a)

Spec == Init /\ [][Next]_vars

(* Timers fire, a dead stream is noticed, and what the network does not    *)
(* lose it delivers; a reconnect succeeds in the end if streams are        *)
(* allowed.  Nothing is assumed of faults, acknowledgements or changes.    *)
Fairness ==
  /\ WF_vars(Tick)
  /\ \A g \in Gateways : WF_vars(Pump(g))
  /\ \A c \in Connectors :
       /\ WF_vars(\E g \in Gateways : OpenStream(c, g))
       /\ WF_vars(\E g \in Gateways : ServePoll(g, c))
       /\ WF_vars(ConnectFails(c)) /\ WF_vars(StreamEnds(c)) /\ WF_vars(PollTimer(c))
       /\ WF_vars(RecvFrame(c)) /\ WF_vars(\E list \in polls[c] : RecvPoll(c, list))

FairSpec == Spec /\ Fairness

-----------------------------------------------------------------------------
Schedulers == [published : Lists \cup {NoList}, pending : Drafts \cup {NoDraft},
               issued : Nat, since : 0..Debounce]

TypeOK ==
  /\ draft \in [Gateways -> Drafts \cup {NoDraft}]
  /\ sched \in [Gateways -> Schedulers]
  /\ row \in [pushed : Nat, acked : Nat]
  /\ conns \in [Gateways -> SUBSET Connectors]
  /\ stream \in [Connectors -> Gateways \cup {Down, Closed}]
  /\ polling \in [Connectors -> BOOLEAN]
  /\ polls \in [Connectors -> SUBSET (Lists \cup {Asked})]
  /\ frames \in [Connectors -> Seq(Lists)]
  /\ acks \in SUBSET [from : Connectors, version : Nat \ {0}]
  /\ held \in [Connectors -> Lists \cup {NoList}]
  /\ sent \in SUBSET Lists
  /\ faults \in 0..MaxFaults
  /\ changes \in 0..MaxChanges

(* A version is the name of one list, across debounced pushes, polls,      *)
(* reconnects and restarts: no connector is ever handed two different      *)
(* lists under one version (directives.ts #publish).                       *)
VersionNamesOneList ==
  \A a, b \in sent : a.version = b.version => a = b

(* Whatever a gateway publishes next is above everything any connector was *)
(* ever handed, also after a restart (directives.ts #publish).             *)
NextVersionIsFresh ==
  \A g \in Gateways : \A list \in sent : list.version <= Larger(row.pushed, sched[g].issued)

(* When a row's ack has caught up with its push, every connector that      *)
(* holds a list holds that version or a newer one: a connector on a stale  *)
(* list is visible as a mismatch (store.ts ConnectorDirective).  For one   *)
(* connector: the row is one for all of a customer's.                      *)
StaleConnectorIsVisible ==
  row.acked # 0 /\ row.acked = row.pushed =>
    \A c \in Connectors :
      stream[c] # Closed /\ held[c] # NoList => held[c].version >= row.pushed

(* Once the computed list settles, every connector that is not closed      *)
(* comes to hold it for good (directives.ts: the connector still           *)
(* converges; api.ts: the burst on connect is self-healing).  For one      *)
(* gateway.                                                                *)
Converged(c) == \A g \in Gateways : draft[g] # NoDraft => held[c].draft = draft[g]

Converges == \A c \in Connectors : <>[](stream[c] = Closed \/ Converged(c))

(* The push machinery implements the feed of lists.                        *)
Feed == INSTANCE DirectiveFeed WITH feed <- sent

ImplementsFeed == Feed!Spec
=============================================================================
