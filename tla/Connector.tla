------------------------------ MODULE Connector ------------------------------
(***************************************************************************)
(* The connector inside a customer's application: concurrent calls, each   *)
(* walking the list that was in force when it began (connector/call.ts),   *)
(* and the reporter they all record into (connector/report.ts), with its   *)
(* two bounded buffers, its flushes and its drop counters.                 *)
(*                                                                         *)
(* A list entry is [provider, reservation], a record [call, at, entry,     *)
(* status, limited, time]: which call, at which place of its list, with    *)
(* which answer, whether rate-limit headers came with it, and when.        *)
(***************************************************************************)
EXTENDS Integers, Sequences, FiniteSets, SequencesExt

CONSTANTS
  Calls,           \* the calls the application makes
  Fallback,        \* the entry that serves before any list has arrived
  Replies,         \* what a provider may answer: a status, and if it was limited
  FlushSettings,   \* how many usage records may make a flush due
  UsageCapacity,   \* the oldest usage record is dropped beyond this
  StrainCapacity,  \* the size of the strain sample
  MaxTime          \* the last instant

ASSUME ConnectorAssumption ==
  /\ FlushSettings \union {UsageCapacity, StrainCapacity} \subseteq Nat \ {0}
  /\ MaxTime \in Nat

VARIABLES
  now,       \* the clock
  held,      \* the list in force, or << >>
  call,      \* the state of each call
  reporter,  \* the buffers and counters
  since,     \* history: everything recorded since the last flush, in order
  sending,   \* the batches on their way
  closed,    \* whether the connector was closed
  flushAt    \* how many make it due here

Idle == [phase |-> "idle"]
Returned == [phase |-> "returned"]
Threw(k) == [phase |-> "threw", untried |-> Len(k.list) - k.at]
Empty == [usage |-> << >>, strain |-> << >>, seen |-> 0, usageDropped |-> 0, strainDropped |-> 0]

ConnectorInit ==
  /\ now = 0
  /\ held = << >>
  /\ call = [c \in Calls |-> Idle]
  /\ reporter = Empty /\ since = << >>
  /\ sending = {}
  /\ closed = FALSE
  /\ flushAt \in FlushSettings

-----------------------------------------------------------------------------
(* The reporter.                                                           *)
IsStrainEvidence(r) == r.status = 0 \/ r.status = 429 \/ r.status >= 500 \/ r.limited

(* Mutant: a full buffer turns the newcomer away.                          *)
AdmitUsageNewest(b, r) ==
  IF Len(b.usage) >= UsageCapacity THEN [b EXCEPT !.usageDropped = @ + 1]
  ELSE [b EXCEPT !.usage = Append(@, r)]

(* Full, the usage buffer drops its oldest record.                         *)
AdmitUsage(b, r) ==
  IF Len(b.usage) >= UsageCapacity
  THEN [b EXCEPT !.usage = Append(Tail(@), r), !.usageDropped = @ + 1]
  ELSE [b EXCEPT !.usage = Append(@, r)]

(* Full, the strain buffer is a reservoir: the newcomer takes the place    *)
(* drawn, if there is one, and one record is lost either way.              *)
AdmitStrain(b, r, index) ==
  IF Len(b.strain) < StrainCapacity
  THEN [b EXCEPT !.strain = Append(@, r), !.seen = @ + 1]
  ELSE [b EXCEPT !.strain = IF index \in DOMAIN @ THEN [@ EXCEPT ![index] = r] ELSE @,
                 !.seen = @ + 1,
                 !.strainDropped = @ + 1]

Admit(b, r, index) ==
  IF IsStrainEvidence(r) THEN AdmitStrain(AdmitUsage(b, r), r, index) ELSE AdmitUsage(b, r)

(* A batch is the union of both buffers.                                   *)
Batch(b) ==
  [records |-> ToSet(b.usage) \union ToSet(b.strain),
   strainDropped |-> b.strainDropped, usageDropped |-> b.usageDropped]

(* Mutant: the sample outlives the flush.                                  *)
FlushedUsageOnly(b) == [Empty EXCEPT !.strain = b.strain]

(* What a flush leaves behind.                                             *)
Flushed(b) == Empty

(* Recording a call that ended, with the flush it may cause.               *)
RecordUsage(r) ==
  IF closed THEN UNCHANGED <<reporter, since, sending>>
  ELSE \E index \in 1..(reporter.seen + 1) :
         LET b == Admit(reporter, r, index)
         IN IF Len(b.usage) >= flushAt
            THEN /\ sending' = sending \union {Batch(b)}
                 /\ reporter' = Flushed(b) /\ since' = << >>
            ELSE /\ reporter' = b /\ since' = Append(since, r)
                 /\ UNCHANGED sending

(* The flush timer; it is cleared when the connector closes.               *)
Flush ==
  /\ ~closed /\ reporter # Empty
  /\ sending' = sending \union {Batch(reporter)}
  /\ reporter' = Flushed(reporter) /\ since' = << >>
  /\ UNCHANGED <<now, held, call, closed, flushAt>>

Close ==
  /\ ~closed
  /\ closed' = TRUE
  /\ UNCHANGED <<now, held, call, reporter, since, sending, flushAt>>

-----------------------------------------------------------------------------
(* The calls.                                                              *)
Candidates == IF held = << >> THEN <<Fallback>> ELSE held

Start(c) ==
  /\ call[c] = Idle
  /\ call' = [call EXCEPT ![c] = [phase |-> "trying", list |-> Candidates, at |-> 1, answered |-> FALSE]]
  /\ UNCHANGED <<now, held, reporter, since, sending, closed, flushAt>>

NoReply == [status |-> 0, limited |-> FALSE]

Outcome(c, reply) ==
  [call |-> c, at |-> call[c].at, entry |-> call[c].list[call[c].at],
   status |-> reply.status, limited |-> reply.limited, time |-> now]

ShouldFailOver(status) == status = 429 \/ status >= 500

(* On to the next entry; past the last one the call ends with the last     *)
(* response, or throws when there never was one.                           *)
Onward(k, answered) ==
  IF k.at < Len(k.list) THEN [k EXCEPT !.at = @ + 1, !.answered = answered]
  ELSE IF answered THEN Returned ELSE Threw(k)

(* The provider cannot be reached: status 0 is recorded.                   *)
Unreachable(c) ==
  /\ call[c].phase = "trying"
  /\ call' = [call EXCEPT ![c] = Onward(@, @.answered)]
  /\ RecordUsage(Outcome(c, NoReply))
  /\ UNCHANGED <<now, held, closed, flushAt>>

(* It fails with a 429 or a 5xx, and its body is read to the end.          *)
Fails(c, reply) ==
  /\ call[c].phase = "trying" /\ ShouldFailOver(reply.status)
  /\ call' = [call EXCEPT ![c] = Onward(@, TRUE)]
  /\ RecordUsage(Outcome(c, reply))
  /\ UNCHANGED <<now, held, closed, flushAt>>

(* It answers, and its body is read to the end.                            *)
Answers(c, reply) ==
  /\ call[c].phase = "trying" /\ ~ShouldFailOver(reply.status)
  /\ call' = [call EXCEPT ![c] = Returned]
  /\ RecordUsage(Outcome(c, reply))
  /\ UNCHANGED <<now, held, closed, flushAt>>

(* Its headers arrive and its body breaks: reading it is outside the try,  *)
(* so the call throws, unrecorded.                                         *)
BodyBreaks(c) ==
  /\ call[c].phase = "trying"
  /\ call' = [call EXCEPT ![c] = Threw(@)]
  /\ UNCHANGED <<now, held, reporter, since, sending, closed, flushAt>>

(* It answers a streamed request: the body is relayed from here on.        *)
Streams(c) ==
  /\ call[c].phase = "trying"
  /\ call' = [call EXCEPT ![c].phase = "streaming"]
  /\ UNCHANGED <<now, held, reporter, since, sending, closed, flushAt>>

(* The stream ends or its reader cancels it; either way it is recorded.    *)
StreamEnds(c, reply) ==
  /\ call[c].phase = "streaming" /\ ~ShouldFailOver(reply.status)
  /\ call' = [call EXCEPT ![c] = Returned]
  /\ RecordUsage(Outcome(c, reply))
  /\ UNCHANGED <<now, held, closed, flushAt>>

(* The stream breaks: its reader is told, the reporter is not.             *)
StreamBreaks(c) ==
  /\ call[c].phase = "streaming"
  /\ call' = [call EXCEPT ![c] = Returned]
  /\ UNCHANGED <<now, held, reporter, since, sending, closed, flushAt>>

Advance ==
  /\ now < MaxTime
  /\ now' = now + 1
  /\ UNCHANGED <<held, call, reporter, since, sending, closed, flushAt>>

ConnectorNext ==
  \/ Flush
  \/ Close
  \/ Advance
  \/ \E c \in Calls :
       \/ Start(c)
       \/ Unreachable(c)
       \/ \E reply \in Replies :
            Fails(c, reply) \/ Answers(c, reply) \/ StreamEnds(c, reply)
       \/ BodyBreaks(c)
       \/ Streams(c)
       \/ StreamBreaks(c)
=============================================================================
