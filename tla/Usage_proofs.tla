----------------------------- MODULE Usage_proofs -----------------------------
(***************************************************************************)
(* Proofs about the connector's calls and reporter and the gateway's usage *)
(* ingestion, for any number of calls, any sizes of the buffers and any    *)
(* reservations: type correctness, that a record is sent at most once      *)
(* although it may sit in two buffers and that what is shed is counted,    *)
(* that a reserved rate is earned, and that the utilisation is exact.      *)
(***************************************************************************)
EXTENDS Usage, FiniteSetTheorems, NumberLemmas, TLAPS

Entries  == {Fallback} \cup {Entry(p, at) : p \in Providers, at \in 0..MaxTime}
Statuses == {0} \cup {reply.status : reply \in Replies}
Limits   == {FALSE} \cup {reply.limited : reply \in Replies}

Records == [call : Calls, at : Nat \ {0}, entry : Entries, status : Statuses,
            limited : Limits, time : 0..MaxTime]

Reporters == [usage : Seq(Records), strain : Seq(Records), seen : Nat,
              usageDropped : Nat, strainDropped : Nat]

(* A call with an attempt under way.                                       *)
Attempts == [phase : {"trying", "streaming"}, list : Seq(Entries), at : Nat \ {0}, answered : BOOLEAN]

Underway(c) == call[c].phase \in {"trying", "streaming"}

-----------------------------------------------------------------------------
(* Sequences as the sets of what they hold.                                *)
LEMMA AppendSet ==
  ASSUME NEW S, NEW q \in Seq(S), NEW r \in S
  PROVE  /\ Append(q, r) \in Seq(S) /\ Len(Append(q, r)) = Len(q) + 1
         /\ ToSet(Append(q, r)) = ToSet(q) \cup {r}
<1>1. /\ Append(q, r) \in Seq(S) /\ Len(Append(q, r)) = Len(q) + 1 /\ Len(q) \in Nat
      /\ DOMAIN Append(q, r) = 1..Len(q) + 1 /\ DOMAIN q = 1..Len(q)
      /\ \A i \in 1..Len(q) : Append(q, r)[i] = q[i]
      /\ Append(q, r)[Len(q) + 1] = r
  OBVIOUS
<1>2. \A i : i \in 1..Len(q) + 1 <=> i \in 1..Len(q) \/ i = Len(q) + 1
  BY <1>1
<1> QED
  BY <1>1, <1>2 DEF ToSet

LEMMA TailSet ==
  ASSUME NEW S, NEW q \in Seq(S), Len(q) >= 1
  PROVE  /\ Tail(q) \in Seq(S) /\ Len(Tail(q)) = Len(q) - 1
         /\ ToSet(Tail(q)) \subseteq ToSet(q)
<1>1. /\ Tail(q) \in Seq(S) /\ Len(Tail(q)) = Len(q) - 1 /\ Len(q) \in Nat
      /\ DOMAIN Tail(q) = 1..Len(q) - 1 /\ DOMAIN q = 1..Len(q)
      /\ \A i \in 1..Len(q) - 1 : Tail(q)[i] = q[i + 1] /\ i + 1 \in 1..Len(q)
  OBVIOUS
<1> QED
  BY <1>1 DEF ToSet

LEMMA ReplaceSet ==
  ASSUME NEW S, NEW q \in Seq(S), NEW r \in S, NEW i \in DOMAIN q
  PROVE  /\ [q EXCEPT ![i] = r] \in Seq(S) /\ Len([q EXCEPT ![i] = r]) = Len(q)
         /\ ToSet([q EXCEPT ![i] = r]) \subseteq ToSet(q) \cup {r}
<1> DEFINE s == [q EXCEPT ![i] = r]
<1>1. DOMAIN q = 1..Len(q) /\ Len(q) \in Nat /\ q \in [1..Len(q) -> S]
  OBVIOUS
<1>2. s \in [1..Len(q) -> S] /\ \A j \in 1..Len(q) : s[j] = q[j] \/ s[j] = r
  BY <1>1
<1>3. s \in Seq(S) /\ Len(s) = Len(q)
  BY <1>1, <1>2
<1> HIDE DEF s
<1>4. ToSet(s) \subseteq ToSet(q) \cup {r}
  BY <1>1, <1>2, <1>3 DEF ToSet
<1> QED
  BY <1>3, <1>4 DEF s

-----------------------------------------------------------------------------
(* The reporter's buffers.                                                 *)
Sizes(b) == Len(b.usage) <= UsageCapacity /\ Len(b.strain) <= StrainCapacity

Kept(b) == ToSet(b.usage) \cup ToSet(b.strain)

LEMMA AdmitUsageKeeps ==
  ASSUME NEW b \in Reporters, NEW r \in Records, Len(b.usage) <= UsageCapacity
  PROVE  LET a == AdmitUsage(b, r)
         IN  /\ a \in Reporters /\ Len(a.usage) \in 1..UsageCapacity /\ a.strain = b.strain
             /\ ToSet(a.usage) \subseteq ToSet(b.usage) \cup {r}
<1>1. b.usage \in Seq(Records) /\ b.usageDropped + 1 \in Nat /\ Len(b.usage) \in Nat
  BY DEF Reporters
<1>2. UsageCapacity \in Nat \ {0}
  BY ConnectorAssumption
<1>3. CASE Len(b.usage) >= UsageCapacity
  <2> DEFINE t == Tail(b.usage)
             q == Append(t, r)
  <2>1. t \in Seq(Records) /\ Len(t) = Len(b.usage) - 1 /\ ToSet(t) \subseteq ToSet(b.usage)
    BY <1>1, <1>2, <1>3, TailSet
  <2> HIDE DEF t
  <2>2. q \in Seq(Records) /\ Len(q) = Len(t) + 1 /\ ToSet(q) = ToSet(t) \cup {r}
    BY <2>1, AppendSet
  <2>3. AdmitUsage(b, r) = [b EXCEPT !.usage = q, !.usageDropped = b.usageDropped + 1]
    BY <1>3 DEF AdmitUsage, t
  <2> DEFINE x == [b EXCEPT !.usage = q]
             a == [x EXCEPT !.usageDropped = b.usageDropped + 1]
  <2>4. AdmitUsage(b, r) = a
    BY <2>3
  <2> HIDE DEF q
  <2>5. x \in Reporters /\ x.usage = q /\ x.strain = b.strain
    BY <2>2 DEF Reporters
  <2> HIDE DEF x
  <2>6. a \in Reporters /\ a.usage = q /\ a.strain = b.strain
    BY <1>1, <2>5 DEF Reporters
  <2> QED
    BY <1>1, <1>2, <1>3, <2>1, <2>2, <2>4, <2>6
<1>4. CASE ~(Len(b.usage) >= UsageCapacity)
  <2> DEFINE q == Append(b.usage, r)
  <2>1. q \in Seq(Records) /\ Len(q) = Len(b.usage) + 1 /\ ToSet(q) = ToSet(b.usage) \cup {r}
    BY <1>1, AppendSet
  <2>2. AdmitUsage(b, r) = [b EXCEPT !.usage = q]
    BY <1>4 DEF AdmitUsage
  <2> HIDE DEF q
  <2>3. /\ AdmitUsage(b, r) \in Reporters
        /\ AdmitUsage(b, r).usage = q /\ AdmitUsage(b, r).strain = b.strain
    BY <2>1, <2>2 DEF Reporters
  <2> QED
    BY <1>1, <1>2, <1>4, <2>1, <2>3
<1> QED
  BY <1>3, <1>4

LEMMA AdmitStrainKeeps ==
  ASSUME NEW b \in Reporters, NEW r \in Records, Len(b.strain) <= StrainCapacity, NEW index \in Nat
  PROVE  LET a == AdmitStrain(b, r, index)
         IN  /\ a \in Reporters /\ Len(a.strain) <= StrainCapacity /\ a.usage = b.usage
             /\ ToSet(a.strain) \subseteq ToSet(b.strain) \cup {r}
<1>1. /\ b.strain \in Seq(Records) /\ Len(b.strain) \in Nat
      /\ b.seen + 1 \in Nat /\ b.strainDropped + 1 \in Nat
  BY DEF Reporters
<1>2. StrainCapacity \in Nat \ {0}
  BY ConnectorAssumption
<1>3. CASE Len(b.strain) < StrainCapacity
  <2> DEFINE q == Append(b.strain, r)
  <2>1. q \in Seq(Records) /\ Len(q) = Len(b.strain) + 1 /\ ToSet(q) = ToSet(b.strain) \cup {r}
    BY <1>1, AppendSet
  <2>2. AdmitStrain(b, r, index) = [b EXCEPT !.strain = q, !.seen = b.seen + 1]
    BY <1>3 DEF AdmitStrain
  <2> DEFINE x == [b EXCEPT !.strain = q]
             y == [x EXCEPT !.seen = b.seen + 1]
             a == y
  <2>3. AdmitStrain(b, r, index) = a
    BY <2>2
  <2> HIDE DEF q
  <2>4. x \in Reporters /\ x.strain = q /\ x.usage = b.usage
    BY <2>1 DEF Reporters
  <2> HIDE DEF x
  <2>5. y \in Reporters /\ y.strain = q /\ y.usage = b.usage
    BY <1>1, <2>4 DEF Reporters
  <2> HIDE DEF y
  <2>6. a \in Reporters /\ a.strain = q /\ a.usage = b.usage
    BY <1>1, <2>5 DEF Reporters
  <2> QED
    BY <1>1, <1>2, <1>3, <2>1, <2>3, <2>6
<1>4. CASE ~(Len(b.strain) < StrainCapacity)
  <2> DEFINE q == IF index \in DOMAIN b.strain THEN [b.strain EXCEPT ![index] = r] ELSE b.strain
  <2>1. q \in Seq(Records) /\ Len(q) = Len(b.strain) /\ ToSet(q) \subseteq ToSet(b.strain) \cup {r}
    BY <1>1, ReplaceSet
  <2>2. AdmitStrain(b, r, index)
          = [b EXCEPT !.strain = q, !.seen = b.seen + 1, !.strainDropped = b.strainDropped + 1]
    BY <1>4 DEF AdmitStrain
  <2> DEFINE x == [b EXCEPT !.strain = q]
             y == [x EXCEPT !.seen = b.seen + 1]
             a == [y EXCEPT !.strainDropped = b.strainDropped + 1]
  <2>3. AdmitStrain(b, r, index) = a
    BY <2>2
  <2> HIDE DEF q
  <2>4. x \in Reporters /\ x.strain = q /\ x.usage = b.usage
    BY <2>1 DEF Reporters
  <2> HIDE DEF x
  <2>5. y \in Reporters /\ y.strain = q /\ y.usage = b.usage
    BY <1>1, <2>4 DEF Reporters
  <2> HIDE DEF y
  <2>6. a \in Reporters /\ a.strain = q /\ a.usage = b.usage
    BY <1>1, <2>5 DEF Reporters
  <2> QED
    BY <1>1, <1>2, <2>1, <2>3, <2>6
<1> QED
  BY <1>3, <1>4

(* Whatever the reporter admits or sheds, it holds nothing it was not      *)
(* given.                                                                  *)
LEMMA AdmitKeeps ==
  ASSUME NEW b \in Reporters, NEW r \in Records, Sizes(b), NEW index \in Nat
  PROVE  LET a == Admit(b, r, index)
         IN  /\ a \in Reporters /\ Sizes(a) /\ Len(a.usage) >= 1
             /\ Kept(a) \subseteq Kept(b) \cup {r}
<1> DEFINE u == AdmitUsage(b, r)
           a == Admit(b, r, index)
<1>1. /\ u \in Reporters /\ Len(u.usage) \in 1..UsageCapacity /\ u.strain = b.strain
      /\ ToSet(u.usage) \subseteq ToSet(b.usage) \cup {r}
  BY AdmitUsageKeeps DEF Sizes
<1>2. Len(u.usage) <= UsageCapacity /\ Len(u.usage) >= 1
  BY <1>1
<1>3. /\ a \in Reporters /\ Len(a.strain) <= StrainCapacity /\ a.usage = u.usage
      /\ ToSet(a.strain) \subseteq ToSet(b.strain) \cup {r}
  <2>1. CASE IsStrainEvidence(r)
    <3>1. a = AdmitStrain(u, r, index) /\ Len(u.strain) <= StrainCapacity
      BY <1>1, <2>1 DEF Admit, Sizes
    <3> HIDE DEF a, u
    <3> QED
      BY <1>1, <3>1, AdmitStrainKeeps
  <2>2. CASE ~IsStrainEvidence(r)
    BY <1>1, <2>2 DEF Admit, Sizes
  <2> QED
    BY <2>1, <2>2
<1> QED
  BY <1>1, <1>2, <1>3 DEF Sizes, Kept
-----------------------------------------------------------------------------
(* The inductive invariant.                                                *)
States == {Idle, Returned} \cup [phase : {"threw"}, untried : Int] \cup Attempts

(* The kinds of value, with what the bounds of the buffers rest on: the    *)
(* usage buffer is empty only when everything is.                          *)
Kinds ==
  /\ now \in 0..MaxTime
  /\ held \in Seq(Entries)
  /\ flushAt \in Nat \ {0}
  /\ call \in [Calls -> States]
  /\ \A c \in Calls : Underway(c) => call[c].at \in DOMAIN call[c].list

Buffers ==
  /\ reporter \in Reporters /\ Sizes(reporter)
  /\ Len(reporter.usage) < flushAt
  /\ reporter.usage = << >> => reporter = Empty
  /\ \A b \in sending : b.records # {}

Arrived == rows \cup {m.record : m \in measured}

Everything == Buffered \cup (UNION {b.records : b \in sending}) \cup Arrived

(* A record is in the buffers, in one batch, or with the gateway.          *)
OnePlace ==
  /\ \A b \in sending : b.records \cap (Buffered \cup Arrived) = {}
  /\ \A b, d \in sending : b = d \/ b.records \cap d.records = {}
  /\ Buffered \cap Arrived = {}

(* The call of a record has gone past the place it was recorded at, so     *)
(* that it is not recorded again.                                          *)
Past(r) == call[r.call] # Idle /\ (Underway(r.call) => r.at < call[r.call].at)

Ledger ==
  /\ Everything \subseteq Records
  /\ \A r \in Everything : Past(r)
  /\ OnePlace

Priced == \A m \in measured : m.rate # Unpriced

Inv == Kinds /\ Buffers /\ Ledger /\ Priced

-----------------------------------------------------------------------------
(* What a step does to the places: something new at most enters the        *)
(* buffers, and they empty into a batch or not.                            *)
LEMMA Moves ==
  ASSUME OnePlace, NEW X, X \cap Everything = {}, UNCHANGED <<rows, measured>>,
         \/ sending' = sending /\ Buffered' \subseteq Buffered \cup X
         \/ /\ \E t : sending' = sending \cup {t} /\ t.records \subseteq Buffered \cup X
            /\ Buffered' = {}
  PROVE  OnePlace' /\ Everything' \subseteq Everything \cup X
<1>1. Arrived' = Arrived
  BY DEF Arrived
<1> DEFINE old == Buffered
           new == Buffered'
<1>2. X \cap old = {} /\ X \cap Arrived = {} /\ \A b \in sending : b.records \cap X = {}
  BY DEF Everything
<1>3. CASE sending' = sending /\ new \subseteq old \cup X
  <2> HIDE DEF old, new
  <2>1. /\ \A b \in sending : b.records \cap (new \cup Arrived) = {}
        /\ new \cap Arrived = {}
    BY <1>2, <1>3 DEF OnePlace, old
  <2>2. new \cup (UNION {b.records : b \in sending}) \cup Arrived \subseteq Everything \cup X
    BY <1>3 DEF Everything, old
  <2> QED
    BY <1>1, <1>3, <2>1, <2>2 DEF OnePlace, Everything, new
<1>4. ASSUME NEW t, sending' = sending \cup {t}, t.records \subseteq old \cup X, new = {}
      PROVE  OnePlace' /\ Everything' \subseteq Everything \cup X
  <2> HIDE DEF old, new
  <2>1. \A b \in sending : b.records \cap t.records = {}
    BY <1>2, <1>4 DEF OnePlace, old
  <2>2. t.records \cap Arrived = {}
    BY <1>2, <1>4 DEF OnePlace, old
  <2>3. /\ \A b \in sending' : b.records \cap (new \cup Arrived) = {}
        /\ \A b, d \in sending' : b = d \/ b.records \cap d.records = {}
        /\ new \cap Arrived = {}
    BY <1>4, <2>1, <2>2 DEF OnePlace
  <2>4. new \cup (UNION {b.records : b \in sending'}) \cup Arrived \subseteq Everything \cup X
    BY <1>4 DEF Everything, old
  <2> QED
    BY <1>1, <2>3, <2>4 DEF OnePlace, Everything, new
<1> QED
  BY <1>3, <1>4

LEMMA EmptyFits ==
  /\ Empty \in Reporters /\ Sizes(Empty) /\ Kept(Empty) = {} /\ Len(Empty.usage) = 0
  /\ Empty.usage = << >>
<1>1. << >> \in Seq(Records) /\ Len(<< >>) = 0 /\ ToSet(<< >>) = {}
  BY DEF ToSet
<1>2. UsageCapacity \in Nat \ {0} /\ StrainCapacity \in Nat \ {0}
  BY ConnectorAssumption
<1> QED
  BY <1>1, <1>2 DEF Empty, Reporters, Sizes, Kept

LEMMA KeptIsRecords ==
  ASSUME NEW b \in Reporters
  PROVE  Kept(b) \subseteq Records /\ (Len(b.usage) >= 1 => Kept(b) # {} /\ b.usage # << >>)
<1>1. b.usage \in Seq(Records) /\ b.strain \in Seq(Records)
  BY DEF Reporters
<1>2. \A q \in Seq(Records) : ToSet(q) \subseteq Records /\ (Len(q) >= 1 => ToSet(q) # {} /\ q # << >>)
  <2> TAKE q \in Seq(Records)
  <2>1. ToSet(q) \subseteq Records
    BY DEF ToSet
  <2>2. ASSUME Len(q) >= 1 PROVE ToSet(q) # {} /\ q # << >>
    <3>1. 1 \in DOMAIN q
      BY <2>2
    <3> QED
      BY <2>2, <3>1 DEF ToSet
  <2> QED
    BY <2>1, <2>2
<1> QED
  BY <1>1, <1>2 DEF Kept

(* Recording something new keeps the buffers within their bounds and every *)
(* record in one place.                                                    *)
LEMMA RecordUsageKeeps ==
  ASSUME Buffers, OnePlace, flushAt \in Nat, NEW r \in Records, r \notin Everything, RecordUsage(r),
         UNCHANGED <<rows, measured, closed, flushAt>>
  PROVE  Buffers' /\ OnePlace' /\ Everything' \subseteq Everything \cup {r}
<1>1. CASE closed
  <2>1. UNCHANGED <<reporter, sending>>
    BY <1>1 DEF RecordUsage
  <2> QED
    BY <2>1 DEF Buffers, OnePlace, Everything, Arrived, Buffered
<1>2. CASE ~closed
  <2>1. PICK index \in 1..(reporter.seen + 1) :
          LET b == Admit(reporter, r, index)
          IN IF Len(b.usage) >= flushAt
             THEN sending' = sending \union {Batch(b)} /\ reporter' = Flushed(b)
             ELSE reporter' = b /\ UNCHANGED sending
    BY <1>2 DEF RecordUsage
  <2> DEFINE b == Admit(reporter, r, index)
             k == Kept(b)
  <2>2. index \in Nat
    BY DEF Buffers, Reporters
  <2>3. b \in Reporters /\ Sizes(b) /\ Len(b.usage) >= 1 /\ k \subseteq Kept(reporter) \cup {r}
    BY <2>2, AdmitKeeps DEF Buffers
  <2>4. Kept(reporter) = Buffered /\ {r} \cap Everything = {}
    BY DEF Kept, Buffered
  <2>5. k # {} /\ b.usage # << >> /\ Len(b.usage) \in Nat
    BY <2>3, KeptIsRecords DEF Reporters
  <2>6. CASE Len(b.usage) >= flushAt
    <3>1. sending' = sending \union {Batch(b)} /\ reporter' = Empty /\ Batch(b).records = k
      BY <2>1, <2>6 DEF Flushed, Batch, Kept
    <3> HIDE DEF b, k
    <3>2. Buffered' = {}
      BY <3>1, EmptyFits DEF Buffered, Kept
    <3>3. OnePlace' /\ Everything' \subseteq Everything \cup {r}
      BY <2>3, <2>4, <3>1, <3>2, Moves
    <3>4. Buffers'
      BY <2>5, <3>1, EmptyFits DEF Buffers
    <3> QED
      BY <3>3, <3>4
  <2>7. CASE ~(Len(b.usage) >= flushAt)
    <3>1. reporter' = b /\ sending' = sending
      BY <2>1, <2>7
    <3>2. Buffered' = k
      BY <3>1 DEF Buffered, Kept
    <3> HIDE DEF b, k
    <3>3. OnePlace' /\ Everything' \subseteq Everything \cup {r}
      BY <2>3, <2>4, <3>1, <3>2, Moves
    <3>4. Buffers'
      BY <2>3, <2>5, <2>7, <3>1 DEF Buffers
    <3> QED
      BY <3>3, <3>4
  <2> QED
    BY <2>6, <2>7
<1> QED
  BY <1>1, <1>2

-----------------------------------------------------------------------------
(* The calls.                                                              *)
LEMMA Goes ==
  ASSUME NEW k \in Attempts, k.at \in DOMAIN k.list, NEW answered \in BOOLEAN
  PROVE  LET x == Onward(k, answered)
         IN  /\ x \in States /\ x # Idle
             /\ x.phase \in {"trying", "streaming"} => x.at \in DOMAIN x.list /\ x.at > k.at
<1>1. k.at \in Nat /\ k.list \in Seq(Entries) /\ Len(k.list) \in Nat /\ k.phase \in {"trying", "streaming"}
  BY DEF Attempts
<1>2. CASE k.at < Len(k.list)
  <2> DEFINE y == [k EXCEPT !.at = k.at + 1]
             x == [y EXCEPT !.answered = answered]
  <2>1. Onward(k, answered) = x
    BY <1>2 DEF Onward
  <2>2. y \in Attempts /\ y.at = k.at + 1 /\ y.list = k.list /\ y.phase = k.phase
    BY <1>1 DEF Attempts
  <2> HIDE DEF y
  <2>3. x \in Attempts /\ x.at = k.at + 1 /\ x.list = k.list /\ x.phase = k.phase
    BY <2>2 DEF Attempts
  <2> HIDE DEF x
  <2>4. x.at \in DOMAIN x.list /\ x.at > k.at
    BY <1>1, <1>2, <2>3
  <2>5. x # Idle
    BY <1>1, <2>3 DEF Idle
  <2> QED
    BY <2>1, <2>3, <2>4, <2>5 DEF States
<1>3. CASE ~(k.at < Len(k.list))
  <2>1. Onward(k, answered) \in {Returned, Threw(k)}
    BY <1>3 DEF Onward
  <2>2. Len(k.list) - k.at \in Int
    BY <1>1
  <2> QED
    BY <2>1, <2>2 DEF States, Idle, Returned, Threw
<1> QED
  BY <1>2, <1>3

(* What a call becomes keeps the kinds, and its records past.              *)
LEMMA CallSteps ==
  ASSUME Kinds, NEW c \in Calls, NEW x \in States, x # Idle,
         x.phase \in {"trying", "streaming"} =>
           x.at \in DOMAIN x.list /\ (call[c] = Idle \/ (Underway(c) /\ x.at >= call[c].at)),
         call' = [call EXCEPT ![c] = x], UNCHANGED <<now, held, flushAt>>
  PROVE  Kinds' /\ \A r \in Records : Past(r) => Past(r)'
<1>1. /\ call' \in [Calls -> States] /\ call'[c] = x
      /\ \A d \in Calls : d # c => call'[d] = call[d]
  BY DEF Kinds
<1>2. Kinds'
  BY <1>1 DEF Kinds, Underway
<1>3. \A d \in Calls : Underway(d) => call[d].at \in Nat
  BY DEF Kinds, Underway, States, Attempts, Idle, Returned
<1>4. Underway(c)' => x.at \in Nat
  BY <1>1 DEF Underway, States, Attempts, Idle, Returned
<1>5. ASSUME NEW r \in Records, Past(r) PROVE Past(r)'
  <2>1. r.call \in Calls /\ r.at \in Nat
    BY DEF Records
  <2>2. CASE r.call = c
    BY <1>1, <1>3, <1>4, <1>5, <2>1, <2>2 DEF Past, Underway
  <2>3. CASE r.call # c
    BY <1>1, <1>5, <2>1, <2>3 DEF Past, Underway
  <2> QED
    BY <2>2, <2>3
<1> QED
  BY <1>2, <1>5

LEMMA OutcomeIsRecord ==
  ASSUME Kinds, NEW c \in Calls, Underway(c), NEW reply \in Replies \cup {NoReply}
  PROVE  /\ call[c] \in Attempts /\ call[c].at \in DOMAIN call[c].list
         /\ Outcome(c, reply) \in Records
         /\ Outcome(c, reply).call = c /\ Outcome(c, reply).at = call[c].at
<1>1. call[c] \in Attempts /\ call[c].at \in DOMAIN call[c].list
  BY DEF Kinds, Underway, States, Idle, Returned
<1>2. call[c].list \in Seq(Entries) /\ call[c].at \in Nat \ {0}
  BY <1>1 DEF Attempts
<1>3. call[c].list[call[c].at] \in Entries
  BY <1>1, <1>2
<1>4. reply.status \in Statuses /\ reply.limited \in Limits
  BY NoReply.status = 0, NoReply.limited = FALSE DEF NoReply, Statuses, Limits
<1> QED
  BY <1>1, <1>2, <1>3, <1>4 DEF Kinds, Outcome, Records

(* A step that records how an attempt ended and takes the call past it.    *)
LEMMA RecordStep ==
  ASSUME Inv, NEW c \in Calls, Underway(c), NEW reply \in Replies \cup {NoReply},
         NEW x \in States, x # Idle,
         x.phase \in {"trying", "streaming"} => x.at \in DOMAIN x.list /\ x.at > call[c].at,
         call' = [call EXCEPT ![c] = x], RecordUsage(Outcome(c, reply)),
         UNCHANGED <<now, held, closed, flushAt, rows, measured>>
  PROVE  Inv'
<1> USE DEF Inv
<1>0. PICK r : r = Outcome(c, reply)
  OBVIOUS
<1>1. /\ call[c] \in Attempts
      /\ r \in Records /\ r.call = c /\ r.at = call[c].at
  BY <1>0, OutcomeIsRecord
<1>2. call[c].at \in Nat
  BY <1>1 DEF Attempts
<1>3. r \notin Everything
  BY <1>1, <1>2 DEF Ledger, Past
<1>4. x.phase \in {"trying", "streaming"} => x.at >= call[c].at
  BY <1>2 DEF Attempts, States, Idle, Returned
<1>5. Kinds' /\ \A s \in Records : Past(s) => Past(s)'
  BY <1>4, CallSteps
<1>6. Buffers' /\ OnePlace' /\ Everything' \subseteq Everything \cup {r}
  BY <1>0, <1>1, <1>3, RecordUsageKeeps DEF Kinds, Ledger
<1>7. Past(r)'
  BY <1>1 DEF Past, Underway, Kinds
<1>8. Ledger'
  BY <1>1, <1>5, <1>6, <1>7 DEF Ledger
<1> QED
  BY <1>5, <1>6, <1>8 DEF Priced

(* A step of a call that records nothing.                                  *)
LEMMA SilentStep ==
  ASSUME Inv, NEW c \in Calls, NEW x \in States, x # Idle,
         x.phase \in {"trying", "streaming"} =>
           x.at \in DOMAIN x.list /\ (call[c] = Idle \/ (Underway(c) /\ x.at >= call[c].at)),
         call' = [call EXCEPT ![c] = x],
         UNCHANGED <<now, held, reporter, sending, flushAt, rows, measured>>
  PROVE  Inv'
<1> USE DEF Inv
<1>1. Kinds' /\ \A r \in Records : Past(r) => Past(r)'
  BY CallSteps
<1>2. Buffers' /\ Everything' = Everything /\ Priced'
  BY DEF Buffers, Everything, Arrived, Buffered, Priced
<1>3. OnePlace'
  BY DEF Ledger, OnePlace, Arrived, Buffered
<1> QED
  BY <1>1, <1>2, <1>3 DEF Ledger

-----------------------------------------------------------------------------
LEMMA Starts == Init => Inv
<1> SUFFICES ASSUME Init PROVE Inv
  OBVIOUS
<1> USE DEF Init, ConnectorInit
<1>1. flushAt \in Nat \ {0} /\ MaxTime \in Nat
  BY ConnectorAssumption
<1>2. Kinds
  BY <1>1 DEF Kinds, States, Underway, Idle
<1>3. Buffers
  BY <1>1, EmptyFits DEF Buffers
<1>4. Everything = {}
  BY EmptyFits DEF Everything, Arrived, Buffered, Kept
<1>5. Ledger
  BY <1>4 DEF Ledger, OnePlace, Everything
<1> QED
  BY <1>2, <1>3, <1>5 DEF Inv, Priced

LEMMA CandidatesFit ==
  ASSUME Kinds
  PROVE  Candidates \in Seq(Entries) /\ 1 \in DOMAIN Candidates
<1>1. Fallback \in Entries /\ held \in Seq(Entries)
  BY DEF Entries, Kinds
<1>2. <<Fallback>> \in Seq(Entries) /\ 1 \in DOMAIN <<Fallback>>
  BY <1>1
<1>3. held # << >> => 1 \in DOMAIN held
  BY <1>1
<1> QED
  BY <1>1, <1>2, <1>3 DEF Candidates

(* The steps of the reporter and of the clock.                             *)
LEMMA ReporterSteps ==
  ASSUME Inv, Flush \/ Close \/ Advance, UNCHANGED <<rows, measured>>
  PROVE  Inv'
<1> USE DEF Inv
<1>1. CASE Flush
  <2>1. /\ reporter # Empty /\ sending' = sending \union {Batch(reporter)} /\ reporter' = Empty
        /\ Batch(reporter).records = Buffered
        /\ UNCHANGED <<now, held, call, closed, flushAt>>
    BY <1>1 DEF Flush, Flushed, Batch, Buffered
  <2>2. Buffered' = {}
    BY <2>1, EmptyFits DEF Buffered, Kept
  <2>3. OnePlace' /\ Everything' \subseteq Everything
    <3>1. OnePlace /\ {} \cap Everything = {}
      BY DEF Ledger
    <3>2. OnePlace' /\ Everything' \subseteq Everything \cup {}
      BY <2>1, <2>2, <3>1, Moves
    <3> QED
      BY <3>2
  <2>4. Buffered # {}
    <3>1. reporter \in Reporters /\ reporter.usage # << >> /\ reporter.usage \in Seq(Records)
      BY <2>1 DEF Buffers, Reporters
    <3>2. Len(reporter.usage) >= 1
      BY <3>1
    <3> QED
      BY <3>1, <3>2, KeptIsRecords DEF Kept, Buffered
  <2>5. Buffers'
    BY <2>1, <2>4, EmptyFits DEF Buffers, Kinds
  <2>6. Kinds' /\ Priced' /\ \A r : Past(r)' <=> Past(r)
    BY <2>1 DEF Kinds, Priced, Past, Underway
  <2> QED
    BY <2>3, <2>5, <2>6 DEF Ledger
<1>2. CASE Close \/ Advance
  <2>1. UNCHANGED <<held, call, reporter, sending, flushAt>> /\ now' \in 0..MaxTime
    BY <1>2, ConnectorAssumption DEF Close, Advance, Kinds
  <2>2. Kinds' /\ Priced' /\ Buffers' /\ Everything' = Everything /\ \A r : Past(r)' <=> Past(r)
    BY <2>1 DEF Kinds, Priced, Past, Underway, Buffers, Everything, Arrived, Buffered
  <2>3. OnePlace'
    BY <2>1 DEF Ledger, OnePlace, Arrived, Buffered
  <2> QED
    BY <2>2, <2>3 DEF Ledger
<1> QED
  BY <1>1, <1>2

(* The steps of a call.                                                    *)
LEMMA CallerSteps ==
  ASSUME Inv, NEW c \in Calls, UNCHANGED <<rows, measured>>,
         \/ Start(c) \/ Unreachable(c) \/ BodyBreaks(c) \/ Streams(c) \/ StreamBreaks(c)
         \/ \E reply \in Replies : Fails(c, reply) \/ Answers(c, reply) \/ StreamEnds(c, reply)
  PROVE  Inv'
<1> DEFINE k == call[c]
<1>1. Kinds /\ call \in [Calls -> States] /\ k \in States
  BY DEF Inv, Kinds
<1>2. Underway(c) => k \in Attempts /\ k.at \in DOMAIN k.list /\ k.at \in Nat /\ k.list \in Seq(Entries)
  BY <1>1, OutcomeIsRecord, NoReply \in Replies \cup {NoReply} DEF Attempts
<1>3. Returned \in States /\ Returned # Idle /\ Returned.phase \notin {"trying", "streaming"}
  BY DEF States, Returned, Idle
<1>4. CASE Start(c)
  <2> DEFINE x == [phase |-> "trying", list |-> Candidates, at |-> 1, answered |-> FALSE]
  <2>1. PICK y : y = x
    OBVIOUS
  <2>2. y \in States /\ y # Idle /\ y.at \in DOMAIN y.list
    BY <1>1, <2>1, CandidatesFit DEF States, Attempts, Idle
  <2>3. /\ call[c] = Idle /\ call' = [call EXCEPT ![c] = y]
        /\ UNCHANGED <<now, held, reporter, sending, flushAt>>
    BY <1>4, <2>1 DEF Start
  <2> QED
    BY <2>2, <2>3, SilentStep
<1>5. CASE BodyBreaks(c)
  <2>1. PICK y : y = Threw(k)
    OBVIOUS
  <2>2. Underway(c) /\ call' = [call EXCEPT ![c] = y] /\ UNCHANGED <<now, held, reporter, sending, flushAt>>
    BY <1>1, <1>5, <2>1 DEF BodyBreaks, Underway
  <2>3. y \in States /\ y # Idle /\ y.phase \notin {"trying", "streaming"}
    BY <1>2, <2>1, <2>2 DEF States, Threw, Idle
  <2> QED
    BY <2>2, <2>3, SilentStep
<1>6. CASE Streams(c)
  <2>1. PICK y : y = [k EXCEPT !.phase = "streaming"]
    OBVIOUS
  <2>2. Underway(c) /\ call' = [call EXCEPT ![c] = y] /\ UNCHANGED <<now, held, reporter, sending, flushAt>>
    BY <1>1, <1>6, <2>1 DEF Streams, Underway
  <2>3. y \in Attempts /\ y.at = k.at /\ y.list = k.list
    BY <1>2, <2>1, <2>2 DEF Attempts
  <2>4. y \in States /\ y # Idle /\ y.at >= k.at
    BY <1>2, <2>2, <2>3 DEF States, Attempts, Idle
  <2> QED
    BY <1>2, <2>2, <2>3, <2>4, SilentStep
<1>7. CASE StreamBreaks(c)
  <2>1. call' = [call EXCEPT ![c] = Returned] /\ UNCHANGED <<now, held, reporter, sending, flushAt>>
    BY <1>7 DEF StreamBreaks
  <2> QED
    BY <1>3, <2>1, SilentStep
<1>8. ASSUME NEW reply \in Replies \cup {NoReply}, NEW a \in BOOLEAN,
             Underway(c), call' = [call EXCEPT ![c] = Onward(k, a)],
             RecordUsage(Outcome(c, reply)), UNCHANGED <<now, held, closed, flushAt>>
      PROVE  Inv'
  <2>1. PICK y : y = Onward(k, a)
    OBVIOUS
  <2>2. /\ y \in States /\ y # Idle
        /\ y.phase \in {"trying", "streaming"} => y.at \in DOMAIN y.list /\ y.at > k.at
    BY <1>2, <1>8, <2>1, Goes
  <2>3. call' = [call EXCEPT ![c] = y]
    BY <1>8, <2>1
  <2>4. UNCHANGED <<now, held, closed, flushAt, rows, measured>> /\ RecordUsage(Outcome(c, reply)) /\ Underway(c)
    BY <1>8
  <2> QED
    BY <2>2, <2>3, <2>4, RecordStep
<1>9. CASE Unreachable(c)
  <2>1. /\ Underway(c) /\ call' = [call EXCEPT ![c] = Onward(k, k.answered)]
        /\ RecordUsage(Outcome(c, NoReply)) /\ UNCHANGED <<now, held, closed, flushAt>>
    BY <1>1, <1>9 DEF Unreachable, Underway
  <2>2. k.answered \in BOOLEAN
    BY <1>2, <2>1 DEF Attempts
  <2> QED
    BY <1>8, <2>1, <2>2
<1>10. ASSUME NEW reply \in Replies, Fails(c, reply) PROVE Inv'
  <2>1. /\ Underway(c) /\ call' = [call EXCEPT ![c] = Onward(k, TRUE)]
        /\ RecordUsage(Outcome(c, reply)) /\ UNCHANGED <<now, held, closed, flushAt>>
    BY <1>1, <1>10 DEF Fails, Underway
  <2> QED
    BY <1>8, <2>1
<1>11. ASSUME NEW reply \in Replies, Answers(c, reply) \/ StreamEnds(c, reply) PROVE Inv'
  <2>1. /\ Underway(c) /\ call' = [call EXCEPT ![c] = Returned]
        /\ RecordUsage(Outcome(c, reply)) /\ UNCHANGED <<now, held, closed, flushAt>>
    BY <1>1, <1>11 DEF Answers, StreamEnds, Underway
  <2> QED
    BY <1>3, <2>1, RecordStep
<1> QED
  BY <1>4, <1>5, <1>6, <1>7, <1>9, <1>10, <1>11

(* The steps of the gateway, and of the way to it.                         *)
LEMMA GatewaySteps ==
  ASSUME Inv, Push \/ \E b \in sending : HandleUsage(b) \/ Lose(b)
  PROVE  Inv'
<1> USE DEF Inv
<1>1. CASE Push
  <2>1. PICK order \in Orders : held' = [i \in DOMAIN order |-> Entry(order[i], now)]
    BY <1>1 DEF Push
  <2>2. order \in Seq(Providers)
    BY UsageAssumption
  <2>3. DOMAIN order = 1..Len(order) /\ Len(order) \in Nat /\ \A i \in DOMAIN order : order[i] \in Providers
    BY <2>2
  <2>4. \A i \in DOMAIN order : Entry(order[i], now) \in Entries
    BY <2>3 DEF Entries, Kinds
  <2>5. held' \in Seq(Entries)
    BY <2>1, <2>3, <2>4
  <2>6. UNCHANGED <<now, call, reporter, since, sending, closed, flushAt, rows, measured>>
    BY <1>1 DEF Push
  <2>7. Kinds' /\ Priced' /\ Buffers' /\ Everything' = Everything /\ \A r : Past(r)' <=> Past(r)
    BY <2>5, <2>6 DEF Kinds, Priced, Past, Underway, Buffers, Everything, Arrived, Buffered
  <2>8. OnePlace'
    BY <2>6 DEF Ledger, OnePlace, Arrived, Buffered
  <2> QED
    BY <2>7, <2>8 DEF Ledger
<1>2. ASSUME NEW b \in sending, HandleUsage(b) \/ Lose(b) PROVE Inv'
  <2>1. /\ sending' = sending \ {b} /\ UNCHANGED <<now, held, call, reporter, flushAt>>
        /\ rows' \subseteq rows \cup b.records
        /\ \A m \in measured' : m \in measured \/ (m.record \in b.records /\ m.rate # Unpriced)
    BY <1>2 DEF HandleUsage, Lose, WriteConnectorUsage, Counts
  <2>2. Arrived' \subseteq Arrived \cup b.records
    BY <2>1 DEF Arrived
  <2>3. Buffered' = Buffered /\ \A r : Past(r)' <=> Past(r)
    BY <2>1 DEF Buffered, Past, Underway
  <2>4. /\ b.records \cap (Buffered \cup Arrived) = {}
        /\ \A d \in sending' : d \in sending /\ d.records \cap b.records = {}
    BY <2>1 DEF Ledger, OnePlace
  <2>5. OnePlace'
    BY <2>2, <2>3, <2>4 DEF Ledger, OnePlace
  <2>6. Everything' \subseteq Everything
    BY <2>1, <2>2, <2>3 DEF Everything
  <2>7. Kinds' /\ Priced' /\ Buffers'
    BY <2>1 DEF Kinds, Underway, Priced, Buffers
  <2> QED
    BY <2>3, <2>5, <2>6, <2>7 DEF Ledger
<1> QED
  BY <1>1, <1>2

LEMMA Keeps == Inv /\ [Next]_vars => Inv'
<1> SUFFICES ASSUME Inv, [Next]_vars PROVE Inv'
  OBVIOUS
<1>1. CASE ConnectorNext /\ UNCHANGED <<rows, measured>>
  BY <1>1, ReporterSteps, CallerSteps DEF ConnectorNext
<1>2. CASE Push \/ \E b \in sending : HandleUsage(b) \/ Lose(b)
  BY <1>2, GatewaySteps
<1>3. CASE UNCHANGED vars
  <2>1. UNCHANGED <<now, held, call, reporter, sending, flushAt, rows, measured>>
    BY <1>3 DEF vars
  <2>2. Kinds' /\ Priced' /\ Buffers' /\ Everything' = Everything /\ \A r : Past(r)' <=> Past(r)
    BY <2>1 DEF Inv, Kinds, Priced, Past, Underway, Buffers, Everything, Arrived, Buffered
  <2>3. OnePlace'
    BY <2>1 DEF Inv, Ledger, OnePlace, Arrived, Buffered
  <2> QED
    BY <2>2, <2>3 DEF Inv, Ledger
<1> QED
  BY <1>1, <1>2, <1>3 DEF Next

-----------------------------------------------------------------------------
(* The invariant the two theorems below rest on: the kinds of value, the   *)
(* bounds of the buffers, and every record in one place and behind its     *)
(* call (call.ts, report.ts, controlplane/api.ts).                         *)
THEOREM InvHolds == Spec => []Inv
  BY Starts, Keeps, PTL DEF Spec

(* Every variable holds its kind of value: whatever the sizes, the buffers *)
(* stay within them and below the flush setting, no batch is empty, and    *)
(* nothing without a price is measured (report.ts, usageOutcome.ts).       *)
THEOREM TypeCorrect == Spec => []TypeOK
<1>1. Inv => TypeOK
  BY DEF Inv, Kinds, Buffers, Sizes, Priced, TypeOK, Underway
<1> QED
  BY <1>1, InvHolds, PTL

(* A record is sent at most once, whatever fails, for any number of calls  *)
(* and any sizes (report.ts flush, call.ts).                               *)
THEOREM SentOnce == Spec => []SentAtMostOnce
<1>1. Inv => SentAtMostOnce
  BY DEF Inv, Ledger, OnePlace, Arrived, SentAtMostOnce
<1> QED
  BY <1>1, InvHolds, PTL

-----------------------------------------------------------------------------
(* What was shed is counted.                                               *)
Evidence(s) == {i \in DOMAIN s : IsStrainEvidence(s[i])}

(* What the buffers b and their counters say of everything recorded, s.    *)
Latest(u, d, s) == d + Len(u) = Len(s) /\ \A i \in 1..Len(u) : u[i] = s[d + i]

UsageTally(b, s) == Latest(b.usage, b.usageDropped, s)

StrainTally(b, s) ==
  /\ ToSet(b.strain) \subseteq {s[i] : i \in Evidence(s)}
  /\ Len(b.strain) + b.strainDropped = Cardinality(Evidence(s))
  /\ b.strainDropped > 0 => Len(b.strain) = StrainCapacity

Tallied(b, s) == s \in Seq(Records) /\ UsageTally(b, s) /\ StrainTally(b, s)

AllTallied == Tallied(reporter, since)

(* The newcomer is one more piece of evidence, or none.                    *)
LEMMA EvidenceGrows ==
  ASSUME NEW s \in Seq(Records), NEW r \in Records
  PROVE  /\ IsFiniteSet(Evidence(s)) /\ Cardinality(Evidence(s)) \in Nat
         /\ Cardinality(Evidence(Append(s, r)))
              = Cardinality(Evidence(s)) + (IF IsStrainEvidence(r) THEN 1 ELSE 0)
         /\ {Append(s, r)[i] : i \in Evidence(Append(s, r))}
              = {s[i] : i \in Evidence(s)} \cup (IF IsStrainEvidence(r) THEN {r} ELSE {})
<1> DEFINE t == Append(s, r)
           n == Len(s)
<1>1. /\ n \in Nat /\ DOMAIN s = 1..n /\ DOMAIN t = 1..(n + 1)
      /\ \A i \in 1..n : t[i] = s[i]
      /\ t[n + 1] = r
  OBVIOUS
<1>2. IsFiniteSet(Evidence(s)) /\ Cardinality(Evidence(s)) \in Nat
  <2>1. IsFiniteSet(1..n) /\ Evidence(s) \in SUBSET (1..n)
    BY <1>1, FS_Interval DEF Evidence
  <2> QED
    BY <2>1, FS_Subset, FS_CardinalityType
<1>3. \A i : i \in 1..(n + 1) <=> i \in 1..n \/ i = n + 1
  BY <1>1
<1>4. n + 1 \notin Evidence(s)
  BY <1>1 DEF Evidence
<1>5. Evidence(t) = Evidence(s) \cup (IF IsStrainEvidence(r) THEN {n + 1} ELSE {})
  <2> HIDE DEF t, n
  <2> QED
    BY <1>1, <1>3 DEF Evidence
<1>6. Cardinality(Evidence(t)) = Cardinality(Evidence(s)) + (IF IsStrainEvidence(r) THEN 1 ELSE 0)
  <2>1. CASE IsStrainEvidence(r)
    BY <1>2, <1>4, <1>5, <2>1, FS_AddElement
  <2>2. CASE ~IsStrainEvidence(r)
    BY <1>2, <1>5, <2>2
  <2> QED
    BY <2>1, <2>2
<1>7. {t[i] : i \in Evidence(t)}
        = {s[i] : i \in Evidence(s)} \cup (IF IsStrainEvidence(r) THEN {r} ELSE {})
  <2>1. \A i \in Evidence(s) : t[i] = s[i]
    BY <1>1 DEF Evidence
  <2> HIDE DEF t, n
  <2> QED
    BY <1>1, <1>5, <2>1
<1> QED
  BY <1>2, <1>6, <1>7

(* The latest part of a sequence, one entry at a time.                     *)
LEMMA LatestIs ==
  ASSUME NEW S, NEW s \in Seq(S), NEW d \in Nat, NEW u \in Seq(S), d + Len(u) = Len(s)
  PROVE  u = SubSeq(s, d + 1, Len(s)) <=> \A i \in 1..Len(u) : u[i] = s[d + i]
<1> DEFINE n == Len(s)
           w == SubSeq(s, d + 1, n)
<1>1. n \in Nat /\ Len(u) \in Nat /\ n - d = Len(u)
  OBVIOUS
<1>2. w \in Seq(S) /\ Len(w) = Len(u)
  BY <1>1
<1>3. \A i \in 1..Len(u) : w[i] = s[d + i]
  <2>1. ASSUME NEW i \in 1..Len(u) PROVE w[i] = s[d + i]
    <3>1. i \in 1..(n - (d + 1) + 1) /\ (d + 1) + i - 1 = d + i
      BY <1>1
    <3>2. w[i] = s[(d + 1) + i - 1]
      BY <1>1, <3>1
    <3> QED
      BY <3>1, <3>2
  <2> QED
    BY <2>1
<1> HIDE DEF w
<1>4. u = w <=> \A i \in 1..Len(u) : u[i] = w[i]
  BY <1>2
<1> QED
  BY <1>3, <1>4 DEF w

LEMMA LatestGrows ==
  ASSUME NEW S, NEW s \in Seq(S), NEW r \in S, NEW d \in Nat, NEW u \in Seq(S),
         Latest(u, d, s)
  PROVE  /\ Latest(Append(u, r), d, Append(s, r))
         /\ Len(u) >= 1 => Latest(Append(Tail(u), r), d + 1, Append(s, r))
<1> USE DEF Latest
<1> DEFINE n == Len(s)
           m == Len(u)
           t == Append(s, r)
           v == Append(u, r)
           w == Append(Tail(u), r)
<1>1. /\ Len(t) = n + 1 /\ n \in Nat /\ m \in Nat /\ d + m = n
      /\ \A i \in 1..n : t[i] = s[i]
      /\ t[n + 1] = r
  OBVIOUS
<1>2. \A i \in 1..m : d + i \in 1..n
  BY <1>1
<1>3. \A i \in 1..m : u[i] = t[d + i]
  <2> HIDE DEF t
  <2> QED
    BY <1>1, <1>2
<1>4. /\ Len(v) = m + 1
      /\ \A i \in 1..m : v[i] = u[i]
      /\ v[m + 1] = r
  OBVIOUS
<1>5. d + (m + 1) = n + 1 /\ (d + 1) + m = n + 1
  BY <1>1
<1>6. \A i \in 1..(m + 1) : i \in 1..m \/ i = m + 1
  BY <1>1
<1>7. d + Len(v) = Len(t) /\ \A i \in 1..Len(v) : v[i] = t[d + i]
  <2> HIDE DEF v, t, m, n
  <2> QED
    BY <1>1, <1>3, <1>4, <1>5, <1>6
<1>8. ASSUME m >= 1
      PROVE  (d + 1) + Len(w) = Len(t) /\ \A i \in 1..Len(w) : w[i] = t[(d + 1) + i]
  <2>1. /\ Len(w) = m
        /\ \A i \in 1..(m - 1) : w[i] = u[i + 1]
        /\ w[m] = r
    BY <1>8
  <2>2. \A i \in 1..m : i = m \/ (i \in 1..(m - 1) /\ i + 1 \in 1..m /\ d + (i + 1) = (d + 1) + i)
    BY <1>1
  <2> HIDE DEF w, t, m, n
  <2>3. ASSUME NEW i \in 1..m PROVE w[i] = t[(d + 1) + i]
    <3>1. CASE i = m
      BY <1>1, <1>5, <2>1, <3>1
    <3>2. CASE i # m
      BY <1>3, <2>1, <2>2, <3>2
    <3> QED
      BY <3>1, <3>2
  <2> QED
    BY <1>1, <1>5, <2>1, <2>3
<1> QED
  BY <1>7, <1>8

(* The usage buffer stays the latest part of what was recorded.            *)
LEMMA UsageTallies ==
  ASSUME NEW b \in Reporters, NEW s \in Seq(Records), NEW r \in Records,
         Len(b.usage) <= UsageCapacity, UsageTally(b, s)
  PROVE  LET a == AdmitUsage(b, r)
         IN  /\ UsageTally(a, Append(s, r))
             /\ a.strain = b.strain /\ a.strainDropped = b.strainDropped
<1> DEFINE u == b.usage
           d == b.usageDropped
           t == Append(s, r)
           a == AdmitUsage(b, r)
<1>1. u \in Seq(Records) /\ Len(u) \in Nat /\ d \in Nat
  BY DEF Reporters
<1>2. Latest(u, d, s)
  BY DEF UsageTally
<1>3. /\ Latest(Append(u, r), d, t)
      /\ Len(u) >= 1 => Latest(Append(Tail(u), r), d + 1, t)
  <2> HIDE DEF u, d
  <2> QED
    BY <1>1, <1>2, LatestGrows
<1>4. UsageCapacity \in Nat \ {0}
  BY ConnectorAssumption
<1>5. CASE Len(u) >= UsageCapacity
  <2>1. /\ a.usage = Append(Tail(u), r) /\ a.usageDropped = d + 1
        /\ a.strain = b.strain /\ a.strainDropped = b.strainDropped
    BY <1>5 DEF AdmitUsage, Reporters
  <2>2. Len(u) >= 1
    BY <1>1, <1>4, <1>5
  <2> HIDE DEF a, t, u, d
  <2> QED
    BY <1>3, <2>1, <2>2 DEF UsageTally, a, t
<1>6. CASE ~(Len(u) >= UsageCapacity)
  <2>1. /\ a.usage = Append(u, r) /\ a.usageDropped = d
        /\ a.strain = b.strain /\ a.strainDropped = b.strainDropped
    BY <1>6 DEF AdmitUsage, Reporters
  <2> HIDE DEF a, t, u, d
  <2> QED
    BY <1>3, <2>1 DEF UsageTally, a, t
<1> QED
  BY <1>5, <1>6

(* The sample and its counter account for one more piece of evidence.      *)
LEMMA StrainTallies ==
  ASSUME NEW b \in Reporters, NEW s \in Seq(Records), NEW r \in Records, NEW index \in Nat,
         Len(b.strain) <= StrainCapacity, StrainTally(b, s), IsStrainEvidence(r)
  PROVE  LET a == AdmitStrain(b, r, index)
         IN  /\ StrainTally(a, Append(s, r))
             /\ a.usage = b.usage /\ a.usageDropped = b.usageDropped
<1> DEFINE q == b.strain
           a == AdmitStrain(b, r, index)
<1>1. q \in Seq(Records) /\ Len(q) \in Nat /\ b.strainDropped \in Nat
  BY DEF Reporters
<1>2. StrainCapacity \in Nat \ {0}
  BY ConnectorAssumption
<1>3. /\ ToSet(q) \subseteq {s[i] : i \in Evidence(s)}
      /\ Len(q) + b.strainDropped = Cardinality(Evidence(s))
      /\ b.strainDropped > 0 => Len(q) = StrainCapacity
  BY DEF StrainTally
<1>4. /\ Cardinality(Evidence(s)) \in Nat
      /\ Cardinality(Evidence(Append(s, r))) = Cardinality(Evidence(s)) + 1
      /\ {Append(s, r)[i] : i \in Evidence(Append(s, r))} = {s[i] : i \in Evidence(s)} \cup {r}
  BY EvidenceGrows
<1>5. CASE Len(q) < StrainCapacity
  <2>1. Len(Append(q, r)) = Len(q) + 1 /\ ToSet(Append(q, r)) = ToSet(q) \cup {r}
    BY <1>1, AppendSet
  <2>2. /\ a.strain = Append(q, r) /\ a.strainDropped = b.strainDropped
        /\ a.usage = b.usage /\ a.usageDropped = b.usageDropped
    BY <1>5 DEF AdmitStrain, Reporters
  <2> HIDE DEF a, q
  <2>3. ToSet(a.strain) \subseteq {Append(s, r)[i] : i \in Evidence(Append(s, r))}
    BY <1>3, <1>4, <2>1, <2>2
  <2>4. b.strainDropped = 0
    BY <1>1, <1>2, <1>3, <1>5
  <2>5. Len(a.strain) + a.strainDropped = Cardinality(Evidence(Append(s, r)))
    BY <1>1, <1>3, <1>4, <2>1, <2>2
  <2>6. ~(a.strainDropped > 0)
    BY <2>2, <2>4
  <2>7. StrainTally(a, Append(s, r))
    BY <2>3, <2>5, <2>6 DEF StrainTally
  <2> QED
    BY <2>2, <2>7 DEF a
<1>6. CASE ~(Len(q) < StrainCapacity)
  <2> DEFINE v == IF index \in DOMAIN q THEN [q EXCEPT ![index] = r] ELSE q
  <2>1. Len(v) = Len(q) /\ ToSet(v) \subseteq ToSet(q) \cup {r}
    BY <1>1, ReplaceSet
  <2>2. /\ a.strain = v /\ a.strainDropped = b.strainDropped + 1
        /\ a.usage = b.usage /\ a.usageDropped = b.usageDropped
    BY <1>6 DEF AdmitStrain, Reporters
  <2> HIDE DEF a, q, v
  <2>3. ToSet(a.strain) \subseteq {Append(s, r)[i] : i \in Evidence(Append(s, r))}
    BY <1>3, <1>4, <2>1, <2>2
  <2>4. Len(q) = StrainCapacity
    BY <1>1, <1>2, <1>6 DEF q
  <2>5. Len(a.strain) + a.strainDropped = Cardinality(Evidence(Append(s, r)))
    BY <1>1, <1>3, <1>4, <2>1, <2>2
  <2> QED
    BY <2>1, <2>2, <2>3, <2>4, <2>5 DEF StrainTally, a
<1> QED
  BY <1>5, <1>6

LEMMA AdmitTallies ==
  ASSUME NEW b \in Reporters, NEW s, NEW r \in Records, NEW index \in Nat, Sizes(b), Tallied(b, s)
  PROVE  Tallied(Admit(b, r, index), Append(s, r))
<1> DEFINE u == AdmitUsage(b, r)
           t == Append(s, r)
<1>1. s \in Seq(Records) /\ UsageTally(b, s) /\ StrainTally(b, s) /\ t \in Seq(Records)
  BY DEF Tallied
<1>2. /\ u \in Reporters /\ u.strain = b.strain /\ u.strainDropped = b.strainDropped
      /\ UsageTally(u, t)
  BY <1>1, AdmitUsageKeeps, UsageTallies DEF Sizes
<1>3. StrainTally(u, s) /\ Len(u.strain) <= StrainCapacity
  BY <1>1, <1>2 DEF StrainTally, Sizes
<1>4. CASE IsStrainEvidence(r)
  <2> DEFINE a == AdmitStrain(u, r, index)
  <2>1. StrainTally(a, t) /\ a.usage = u.usage /\ a.usageDropped = u.usageDropped
    <3> HIDE DEF u
    <3> QED
      BY <1>1, <1>2, <1>3, <1>4, StrainTallies
  <2>2. Admit(b, r, index) = a
    BY <1>4 DEF Admit
  <2> HIDE DEF a, u, t
  <2> QED
    BY <1>1, <1>2, <2>1, <2>2 DEF Tallied, UsageTally, t
<1>5. CASE ~IsStrainEvidence(r)
  <2>1. Admit(b, r, index) = u
    BY <1>5 DEF Admit
  <2>2. /\ Cardinality(Evidence(t)) = Cardinality(Evidence(s))
        /\ {t[i] : i \in Evidence(t)} = {s[i] : i \in Evidence(s)}
    <3>1. /\ Cardinality(Evidence(s)) \in Nat
          /\ Cardinality(Evidence(t)) = Cardinality(Evidence(s)) + 0
      BY <1>1, <1>5, EvidenceGrows
    <3>2. {t[i] : i \in Evidence(t)} = {s[i] : i \in Evidence(s)} \cup {}
      BY <1>1, <1>5, EvidenceGrows
    <3> HIDE DEF t
    <3>3. Cardinality(Evidence(t)) = Cardinality(Evidence(s))
      BY <3>1
    <3> QED
      BY <3>2, <3>3
  <2> HIDE DEF u, t
  <2>3. StrainTally(u, t)
    BY <1>3, <2>2 DEF StrainTally
  <2> QED
    BY <1>1, <1>2, <2>1, <2>3 DEF Tallied, t
<1> QED
  BY <1>4, <1>5

LEMMA NothingTallied == Tallied(Empty, << >>)
<1>1. << >> \in Seq(Records) /\ Len(<< >>) = 0 /\ Evidence(<< >>) = {} /\ ToSet(<< >>) = {}
  BY DEF Evidence, ToSet
<1>2. Cardinality({}) = 0
  BY FS_EmptySet
<1>3. SubSeq(<< >>, 1, 0) = << >>
  OBVIOUS
<1>4. Empty.usage = << >> /\ Empty.strain = << >> /\ Empty.usageDropped = 0 /\ Empty.strainDropped = 0
  BY DEF Empty
<1>5. UsageTally(Empty, << >>)
  BY <1>1, <1>3, <1>4 DEF UsageTally, Latest
<1>6. StrainTally(Empty, << >>)
  <2>1. /\ ToSet(Empty.strain) \subseteq {<< >>[i] : i \in Evidence(<< >>)}
        /\ ~(Empty.strainDropped > 0)
    BY <1>1, <1>4
  <2>2. Len(Empty.strain) + Empty.strainDropped = Cardinality(Evidence(<< >>))
    <3>1. Cardinality(Evidence(<< >>)) = 0
      BY <1>1, <1>2
    <3>2. Len(Empty.strain) = 0
      BY <1>1, <1>4
    <3> QED
      BY <1>4, <3>1, <3>2
  <2> QED
    BY <2>1, <2>2 DEF StrainTally
<1> QED
  BY <1>1, <1>5, <1>6 DEF Tallied

(* All a step does to the buffers: record, or flush, or nothing.           *)
LEMMA ReporterMoves ==
  ASSUME Inv, [Next]_vars
  PROVE  \/ UNCHANGED <<reporter, since>>
         \/ reporter' = Empty /\ since' = << >>
         \/ \E r \in Records : RecordUsage(r)
<1>1. ASSUME NEW c \in Calls, NEW reply \in Replies \cup {NoReply}, Underway(c)
      PROVE  Outcome(c, reply) \in Records
  BY <1>1, OutcomeIsRecord DEF Inv
<1>2. ASSUME NEW c \in Calls, Unreachable(c)
      PROVE  RecordUsage(Outcome(c, NoReply)) /\ Underway(c)
  BY <1>2 DEF Unreachable, Underway
<1>3. ASSUME NEW c \in Calls, NEW reply \in Replies,
             Fails(c, reply) \/ Answers(c, reply) \/ StreamEnds(c, reply)
      PROVE  RecordUsage(Outcome(c, reply)) /\ Underway(c)
  BY <1>3 DEF Fails, Answers, StreamEnds, Underway
<1>4. Flush => reporter' = Empty /\ since' = << >>
  BY DEF Flush, Flushed
<1>5. ASSUME NEW c \in Calls,
             \/ Close \/ Advance \/ Start(c) \/ BodyBreaks(c) \/ Streams(c) \/ StreamBreaks(c)
      PROVE  UNCHANGED <<reporter, since>>
  BY <1>5 DEF Close, Advance, Start, BodyBreaks, Streams, StreamBreaks
<1>6. Close \/ Advance => UNCHANGED <<reporter, since>>
  BY DEF Close, Advance
<1>7. Push \/ (\E b \in sending : HandleUsage(b) \/ Lose(b)) => UNCHANGED <<reporter, since>>
  BY DEF Push, HandleUsage, Lose
<1>8. UNCHANGED vars => UNCHANGED <<reporter, since>>
  BY DEF vars
<1> QED
  BY <1>1, <1>2, <1>3, <1>4, <1>5, <1>6, <1>7, <1>8 DEF Next, ConnectorNext

LEMMA TallyStep ==
  ASSUME Inv, Tallied(reporter, since), [Next]_vars
  PROVE  Tallied(reporter', since')
<1>1. ASSUME NEW r \in Records, RecordUsage(r)
      PROVE  Tallied(reporter', since')
  <2>1. CASE closed
    BY <1>1, <2>1 DEF RecordUsage
  <2>2. CASE ~closed
    <3>1. reporter \in Reporters /\ Sizes(reporter)
      BY DEF Inv, Buffers
    <3>2. reporter.seen \in Nat
      BY <3>1 DEF Reporters
    <3>3. PICK index \in 1..(reporter.seen + 1) :
            LET b == Admit(reporter, r, index)
            IN IF Len(b.usage) >= flushAt
               THEN reporter' = Flushed(b) /\ since' = << >>
               ELSE reporter' = b /\ since' = Append(since, r)
      BY <1>1, <2>2 DEF RecordUsage
    <3>4. index \in Nat
      BY <3>2
    <3>5. Tallied(Admit(reporter, r, index), Append(since, r))
      BY <3>1, <3>4, AdmitTallies
    <3> QED
      BY <3>3, <3>5, NothingTallied DEF Flushed
  <2> QED
    BY <2>1, <2>2
<1> QED
  BY <1>1, ReporterMoves, NothingTallied

(* What either buffer had to shed since the last flush, its counter says,  *)
(* whatever the sizes and the draws of the reservoir (report.ts record).   *)
THEOREM DropsCounted == Spec => []DropsAreCounted
<1>1. Init => AllTallied
  BY NothingTallied DEF Init, ConnectorInit, AllTallied
<1>2. Inv /\ AllTallied /\ [Next]_vars => AllTallied'
  BY TallyStep DEF AllTallied
<1>3. ASSUME Inv, AllTallied PROVE DropsAreCounted
  <2>1. /\ reporter.usage \in Seq(Records) /\ reporter.usageDropped \in Nat
        /\ since \in Seq(Records)
    BY <1>3 DEF Inv, Buffers, Reporters, AllTallied, Tallied
  <2>2. reporter.usage = SubSeq(since, reporter.usageDropped + 1, Len(since))
    BY <1>3, <2>1, LatestIs DEF AllTallied, Tallied, UsageTally, Latest
  <2> QED
    BY <1>3, <2>2 DEF AllTallied, Tallied, StrainTally, Evidence, DropsAreCounted
<1> QED
  BY <1>1, <1>2, <1>3, InvHolds, PTL DEF Spec

-----------------------------------------------------------------------------
(* What an entry asks for.                                                 *)
Reaches(e, i) ==
  /\ e.reservation = Reservations[i].id
  /\ e.provider \in Providers /\ Addresses(e.provider, Reservations[i])

(* The reservation a list names is one the provider addresses.             *)
LEMMA EntryReaches ==
  ASSUME NEW e \in Entries
  PROVE  e.reservation = None \/ \E i \in DOMAIN Reservations : Reaches(e, i)
<1>1. CASE e = Fallback
  BY <1>1, UsageAssumption
<1>2. ASSUME NEW p \in Providers, NEW at \in 0..MaxTime, e = Entry(p, at)
      PROVE  e.reservation = None \/ \E i \in DOMAIN Reservations : Reaches(e, i)
  <2> DEFINE live == LiveReservations(at)
             matches == {i \in DOMAIN live : Addresses(p, live[i])}
  <2>1. /\ DOMAIN live \subseteq DOMAIN Reservations
        /\ \A i \in DOMAIN live : live[i] = Reservations[i]
    BY DEF LiveReservations
  <2>2. DOMAIN Reservations \subseteq Nat
    BY ReservationsAssumption
  <2>3. e.provider = p /\ e.reservation = ReservationFor(p, live).id
    BY <1>2 DEF Entry
  <2>4. CASE matches = {}
    BY <2>3, <2>4 DEF ReservationFor, NoReservation
  <2>5. CASE matches # {}
    <3> DEFINE k == CHOOSE i \in matches : \A j \in matches : i <= j
    <3>1. matches \subseteq Nat
      BY <2>1, <2>2
    <3>2. \E i \in matches : \A j \in matches : i <= j
      <4> HIDE DEF matches
      <4> QED
        BY <2>5, <3>1, LeastNatural
    <3>3. k \in matches
      BY <3>2
    <3>4. ReservationFor(p, live) = live[k]
      BY <2>5 DEF ReservationFor
    <3> HIDE DEF k
    <3>5. k \in DOMAIN Reservations /\ Reaches(e, k)
      BY <2>1, <2>3, <3>3, <3>4 DEF Reaches
    <3> QED
      BY <3>5
  <2> QED
    BY <2>4, <2>5
<1> QED
  BY <1>1, <1>2 DEF Entries

(* What was measured at another rate than the public one, was earned.      *)
Earned(m) ==
  m.rate # PublicRate(m.record) =>
    \E i \in DOMAIN Reservations : m.rate = Reservations[i].rate /\ Reaches(m.record.entry, i)

AllEarned == \A m \in measured : Earned(m)

LEMMA RateEarned ==
  ASSUME NEW r \in Records, NEW at
  PROVE  Earned([record |-> r, rate |-> RateFor(r, at)])
<1> DEFINE live == LiveReservations(at)
           used == {i \in DOMAIN live : live[i].id = r.entry.reservation}
           k == CHOOSE i \in used : TRUE
<1>1. CASE used = {}
  BY <1>1 DEF RateFor, Earned
<1>2. CASE used # {}
  <2>1. k \in used /\ RateFor(r, at) = live[k].rate
    BY <1>2 DEF RateFor
  <2>2. k \in DOMAIN Reservations /\ live[k] = Reservations[k] /\ Reservations[k].id = r.entry.reservation
    BY <2>1 DEF LiveReservations
  <2> HIDE DEF k
  <2>3. r.entry \in Entries
    BY DEF Records
  <2>4. PICK i \in DOMAIN Reservations : Reaches(r.entry, i)
    BY <2>2, <2>3, EntryReaches, ReservationsAssumption
  <2>5. i = k
    BY <2>2, <2>4, ReservationsAssumption DEF Reaches
  <2> QED
    BY <2>1, <2>2, <2>4, <2>5 DEF Earned
<1> QED
  BY <1>1, <1>2

LEMMA EarnedStep ==
  ASSUME Inv, AllEarned, [Next]_vars
  PROVE  AllEarned'
<1>1. ASSUME NEW b \in sending, HandleUsage(b)
      PROVE  AllEarned'
  <2>1. ASSUME NEW m \in measured', m \notin measured
        PROVE  Earned(m)
    <3>1. PICK r \in b.records : m = [record |-> r, rate |-> RateFor(r, now)]
      BY <1>1, <2>1 DEF HandleUsage
    <3>2. r \in Records
      BY <3>1 DEF Inv, Ledger, Everything
    <3> QED
      BY <3>1, <3>2, RateEarned
  <2> QED
    BY <2>1 DEF AllEarned
<1>2. CASE UNCHANGED measured
  BY <1>2 DEF AllEarned
<1> QED
  BY <1>1, <1>2 DEF Next, Push, Lose, vars

(* The reserved rate is given only for a call that asked for the reserved  *)
(* capacity on a provider that has it, whatever was declared and however   *)
(* late the report (usageOutcome.ts rateFor, rankedList.ts                 *)
(* toRankedProvider).                                                      *)
THEOREM RateIsEarned == Spec => []ReservedRateIsEarned
<1>1. Init => AllEarned
  BY DEF Init, AllEarned
<1>2. Inv /\ AllEarned /\ [Next]_vars => AllEarned'
  BY EarnedStep
<1>3. AllEarned => ReservedRateIsEarned
  BY DEF AllEarned, Earned, Reaches, ReservedRateIsEarned
<1> QED
  BY <1>1, <1>2, <1>3, InvHolds, PTL DEF Spec

-----------------------------------------------------------------------------
(* A call that asked for a reservation within its term is traffic for it.  *)
LEMMA AskedIsAddressable ==
  ASSUME NEW i \in DOMAIN Reservations, NEW r \in Records,
         r.entry.reservation = Reservations[i].id, InTerm(r, Reservations[i])
  PROVE  Addressable(r, Reservations[i])
<1>1. r.entry \in Entries /\ r.entry.reservation # None
  BY ReservationsAssumption DEF Records
<1>2. PICK j \in DOMAIN Reservations : Reaches(r.entry, j)
  BY <1>1, EntryReaches
<1>3. j = i
  BY <1>2, ReservationsAssumption DEF Reaches
<1>4. Declared(Reservations[i].id) = Reservations[i]
  <2> DEFINE k == CHOOSE n \in DOMAIN Reservations : Reservations[n].id = Reservations[i].id
  <2>1. k \in DOMAIN Reservations /\ Reservations[k].id = Reservations[i].id
    OBVIOUS
  <2> HIDE DEF k
  <2>2. k = i
    BY <2>1, ReservationsAssumption
  <2> QED
    BY <2>2 DEF Declared, k
<1>5. ModelAsked(r) = Reservations[i].addressing
  BY <1>1, <1>4 DEF ModelAsked
<1> QED
  BY <1>2, <1>3, <1>5 DEF Reaches, Addresses, Addressable

(* The utilisation report counts every stored call of the lookback that    *)
(* asked for the reservation in its term, and no other, whatever was       *)
(* declared (unaddressed.ts addressable).                                  *)
THEOREM UtilizationExact == Spec => []UtilizationIsExact
<1>1. ASSUME Inv PROVE UtilizationIsExact
  <2>1. rows \subseteq Records
    BY <1>1 DEF Inv, Ledger, Everything, Arrived
  <2>2. ASSUME NEW i \in DOMAIN Reservations
        PROVE  Addressed(Reservations[i], ReadConnectorUsage)
                 = {r \in rows : /\ r.entry.reservation = Reservations[i].id
                                 /\ InTerm(r, Reservations[i]) /\ r.time >= now - Lookback}
    <3>1. \A r \in rows : r.entry.reservation = Reservations[i].id =>
            (Addressable(r, Reservations[i]) <=> InTerm(r, Reservations[i]))
      BY <2>1, AskedIsAddressable DEF Addressable
    <3> QED
      BY <3>1 DEF Addressed, ReadConnectorUsage
  <2> QED
    BY <2>2 DEF UtilizationIsExact, ReservationStatus
<1> QED
  BY <1>1, InvHolds, PTL
=============================================================================
