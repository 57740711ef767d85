----------------------------- MODULE TargetStore -----------------------------
(***************************************************************************)
(* The durable store's versioned documents and the copies the gateway      *)
(* processes keep of them (gateway/src/targets/store.ts and service.ts,    *)
(* behind gateway/src/management/api.ts).                                  *)
(*                                                                         *)
(* Several processes share one SQLite file.  A store call is one           *)
(* transaction or one statement, so it is one step; what a process does    *)
(* between two store calls is synchronous and unobservable from outside,   *)
(* but another process can commit there.  That is why a refresh is two     *)
(* steps, ReadVersion and ReadDocument.                                    *)
(*                                                                         *)
(* Requests that are refused (400, 409, 422, 500, 503) leave every         *)
(* variable as it was: they are stuttering steps.  The decision receipt is *)
(* written and pruned inside the document's own transaction, hence a       *)
(* function of the version, and is left out.                               *)
(***************************************************************************)
EXTENDS Integers, Sequences

CONSTANTS Processes,    \* gateway processes sharing the store
          Clients,      \* writers that read a document and then replace it
          Docs,         \* document contents that parse and are feasible
          Resources,    \* which of the two versioned documents are in play
          NoDoc,        \* no document
          NoClient,     \* a process with no request in hand
          MaxVersion,   \* bound on the versions written
          MaxFaults     \* bound on failed store reads and on restarts

ASSUME ResourcesAssumption == Resources \subseteq {"targets", "reservations"} /\ Resources # {}
ASSUME BoundsAssumption == MaxVersion \in Nat /\ MaxFaults \in Nat
ASSUME NoClientAssumption == NoClient \notin Clients
ASSUME NoDocAssumption == NoDoc \notin Docs

VARIABLES
  doc,      \* the row of each resource: its version and content
  mem,      \* each process's copy: the version it polls against, the document
            \* it serves (content) and the version inside that document (origin)
  job,      \* what a process is in the middle of: the resources it still has
            \* to refresh, the version it has just read, the PUT to answer
  up,       \* whether the process could open the store when it started
  base,     \* the last answer each client holds for each resource
  faults,   \* failures spent, up to MaxFaults
  log       \* history: every accepted document and the version its writer read

vars == <<doc, mem, job, up, base, faults, log>>

Versions  == 0..MaxVersion
Copies    == [version : Versions, origin : Versions, content : Docs \cup {NoDoc}]
Jobs      == [todo : SUBSET Resources, reading : BOOLEAN, seen : Versions,
              client : Clients \cup {NoClient}, resource : Resources,
              parsed : Copies]

Nothing == [version |-> 0, origin |-> 0, content |-> NoDoc]

(* A process at rest, and one that has these resources to refresh.         *)
Refreshing(todo) == [todo |-> todo, reading |-> FALSE, seen |-> 0, client |-> NoClient,
                     resource |-> CHOOSE r \in Resources : TRUE, parsed |-> Nothing]
Settled(p) == job[p].todo = {} /\ job[p].client = NoClient

(* #refresh calls #refreshReservations first.                              *)
Turn(p) == IF "reservations" \in job[p].todo THEN "reservations" ELSE "targets"
TurnOver(p) == [job EXCEPT ![p] = [job[p] EXCEPT !.todo = @ \ {Turn(p)}, !.reading = FALSE,
                                                 !.seen = 0]]

(* A client waits for the answer to its PUT before it does anything else.  *)
Free(c) == \A p \in Processes : job[p].client # c

-----------------------------------------------------------------------------
Init == /\ doc = [r \in Resources |-> [version |-> 0, content |-> NoDoc]]
        /\ mem = [p \in Processes |-> [r \in Resources |-> Nothing]]
        /\ job = [p \in Processes |-> Refreshing(Resources)]
        /\ up = [p \in Processes |-> TRUE]
        /\ base = [c \in Clients |-> [r \in Resources |-> Nothing]]
        /\ faults = 0
        /\ log = [r \in Resources |-> <<>>]

(* GET answers from memory: #version beside #document.                     *)
Get(c, p, r) ==
  /\ up[p] /\ Settled(p) /\ Free(c)
  /\ base' = [base EXCEPT ![c][r] = mem[p][r]]
  /\ UNCHANGED <<doc, mem, job, up, faults, log>>

(* Mutant of Commits: the compare is dropped, the last writer wins.        *)
CommitsAlways(expected, r) == TRUE

Commits(expected, r) == expected = doc[r].version
(* Mutant of RefreshAfter: the copy is left to the next poll.              *)
RefreshLater(r) == {}

RefreshAfter(r) == IF r = "targets" THEN Resources ELSE {r}

(* PUT: the compare-and-set, one BEGIN IMMEDIATE transaction.  The version *)
(* the client sends is the one its last answer carried.  An accepted       *)
(* target document is followed by #refresh, an accepted reservation        *)
(* document by #refreshReservations, before the request is answered.       *)
Put(c, p, r, d) ==
  LET expected == base[c][r].version
      version  == expected + 1
  IN  /\ up[p] /\ Settled(p) /\ Free(c)
      /\ Commits(expected, r)
      /\ expected < MaxVersion
      /\ doc' = [doc EXCEPT ![r] = [version |-> version, content |-> d]]
      /\ log' = [log EXCEPT ![r] = Append(@, [content |-> d, basis |-> base[c][r].origin])]
      /\ job' = [job EXCEPT ![p] =
                   [todo |-> RefreshAfter(r),
                    reading |-> FALSE, seen |-> 0, client |-> c, resource |-> r,
                    parsed |-> [version |-> version, origin |-> version, content |-> d]]]
      /\ UNCHANGED <<mem, up, base, faults>>

(* Mutant of Answer: the answer counts the version up once more.           *)
AnswerAhead(p) == [mem[p][job[p].resource] EXCEPT !.version = @ + 1]

(* The 200: the refreshed copy, or the parsed body if there is no copy.    *)
Answer(p) ==
  LET copy == mem[p][job[p].resource]
  IN  IF copy.content = NoDoc THEN job[p].parsed
      ELSE [copy EXCEPT !.version = copy.origin]

Respond(p) ==
  /\ job[p].todo = {} /\ job[p].client # NoClient
  /\ base' = [base EXCEPT ![job[p].client][job[p].resource] = Answer(p)]
  /\ job' = [job EXCEPT ![p] = Refreshing({})]
  /\ UNCHANGED <<doc, mem, up, faults, log>>

(* The timer: tick begins with #refresh.                                   *)
Poll(p) ==
  /\ up[p] /\ Settled(p)
  /\ job' = [job EXCEPT ![p] = Refreshing(Resources)]
  /\ UNCHANGED <<doc, mem, up, base, faults, log>>

(* First read of a refresh: done if the version is the one in memory.      *)
Unchanged(p) == doc[Turn(p)].version = mem[p][Turn(p)].version /\ mem[p][Turn(p)].content # NoDoc

ReadVersion(p) ==
  /\ job[p].todo # {} /\ ~job[p].reading
  /\ job' = IF Unchanged(p) THEN TurnOver(p)
            ELSE [job EXCEPT ![p] = [@ EXCEPT !.reading = TRUE, !.seen = doc[Turn(p)].version]]
  /\ UNCHANGED <<doc, mem, up, base, faults, log>>

(* Mutant of Loaded: the two reads are swapped, document before version.   *)
LoadedSwapped(seen, r) ==
  [version |-> doc[r].version, origin |-> seen,
   content |-> IF seen = 0 THEN NoDoc ELSE log[r][seen].content]

(* Second read: the document now in the row, beside the version read       *)
(* before.                                                                 *)
Loaded(seen, r) == [version |-> seen, origin |-> doc[r].version, content |-> doc[r].content]

ReadDocument(p) ==
  /\ job[p].todo # {} /\ job[p].reading
  /\ mem' = [mem EXCEPT ![p][Turn(p)] = Loaded(job[p].seen, Turn(p))]
  /\ job' = TurnOver(p)
  /\ UNCHANGED <<doc, up, base, faults, log>>

(* Either read throws: the last known document stays in force.             *)
ReadFails(p) ==
  /\ job[p].todo # {} /\ faults < MaxFaults
  /\ faults' = faults + 1
  /\ job' = TurnOver(p)
  /\ UNCHANGED <<doc, mem, up, base, log>>

(* The process dies, losing an answer it owed, and starts again: start()   *)
(* refreshes before the server listens.  A store that cannot be opened     *)
(* leaves the process running without one.                                 *)
Restart(p) ==
  /\ faults < MaxFaults
  /\ faults' = faults + 1
  /\ mem' = [mem EXCEPT ![p] = [r \in Resources |-> Nothing]]
  /\ \/ /\ up' = [up EXCEPT ![p] = TRUE]
        /\ job' = [job EXCEPT ![p] = Refreshing(Resources)]
     \/ /\ up' = [up EXCEPT ![p] = FALSE]
        /\ job' = [job EXCEPT ![p] = Refreshing({})]
  /\ UNCHANGED <<doc, base, log>>

Step(p) == Respond(p) \/ Poll(p) \/ ReadVersion(p) \/ ReadDocument(p)

Next == \E p \in Processes :
          \/ Step(p) \/ ReadFails(p) \/ Restart(p)
          \/ \E c \in Clients, r \in Resources :
               Get(c, p, r) \/ \E d \in Docs : Put(c, p, r, d)

Spec == Init /\ [][Next]_vars

(* The poll timer keeps firing and a synchronous handler runs to its end.  *)
FairSpec == Spec /\ \A p \in Processes : WF_vars(Step(p))

-----------------------------------------------------------------------------
TypeOK == /\ doc \in [Resources -> [version : Versions, content : Docs \cup {NoDoc}]]
          /\ mem \in [Processes -> [Resources -> Copies]]
          /\ job \in [Processes -> Jobs]
          /\ up \in [Processes -> BOOLEAN]
          /\ base \in [Clients -> [Resources -> Copies]]
          /\ faults \in 0..MaxFaults
          /\ log \in [Resources -> Seq([content : Docs, basis : Versions])]

(* A copy, wherever it is held, is a document of the history, and the      *)
(* version it is filed under is never newer than its content: a refresh    *)
(* torn by another process's commit errs only that way.                    *)
Recorded(copy, r) ==
  /\ copy.version <= copy.origin
  /\ copy.origin <= Len(log[r])
  /\ copy.content = IF copy.origin = 0 THEN NoDoc ELSE log[r][copy.origin].content

RowIsHead == \A r \in Resources :
  /\ doc[r].version = Len(log[r])
  /\ doc[r].content = IF log[r] = <<>> THEN NoDoc ELSE log[r][Len(log[r])].content

(* Every copy in a process's memory or in a client's hands is a document   *)
(* that was really committed, at a version that does not overstate it      *)
(* (service.ts #refresh reads the version before the document).            *)
CopiesAreRecorded ==
  /\ RowIsHead
  /\ \A p \in Processes, r \in Resources : Recorded(mem[p][r], r)
  /\ \A c \in Clients, r \in Resources : Recorded(base[c][r], r)

(* No lost update: every accepted document was written by a client that    *)
(* had read the document it replaced, whichever processes it read from and *)
(* wrote through (store.ts writeDocument and writeReservations).           *)
NoLostUpdate == \A r \in Resources : \A v \in 1..Len(log[r]) : log[r][v].basis = v - 1

(* A 200 to a PUT shows the client its own write or a later one, when no   *)
(* store read has failed and no process has died.                         *)
OwnWriteIsVisible ==
  [][\A p \in Processes : faults = 0 /\ Respond(p) =>
       Answer(p).origin >= job[p].parsed.version]_vars

(* Once writes stop and the store answers, every process that opened the   *)
(* store serves the last document, filed under its own version.            *)
Propagates == \A p \in Processes, r \in Resources :
  <>[](up[p] => mem[p][r] = [version |-> doc[r].version, origin |-> doc[r].version,
                             content |-> doc[r].content])

(* The store implements the abstract resource, once for each document.     *)
View(r) == [p \in Processes |-> [at |-> mem[p][r].origin, content |-> mem[p][r].content]]

Targets      == INSTANCE VersionedDocument WITH
                  history <- log["targets"], view <- View("targets")
Reservations == INSTANCE VersionedDocument WITH
                  history <- log["reservations"], view <- View("reservations")

TargetsImplement      == Targets!Spec
ReservationsImplement == Reservations!Spec
=============================================================================
