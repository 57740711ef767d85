-------------------------- MODULE VersionedDocument --------------------------
(***************************************************************************)
(* What the durable store promises for one versioned resource (the target  *)
(* document or the reservation document), without saying how: a history of *)
(* accepted documents in which every document was written by someone who   *)
(* had read the one it replaces, and one copy per gateway process that is  *)
(* always some document of that history and only moves forward, except     *)
(* when its process restarts and forgets it.                               *)
(***************************************************************************)
EXTENDS Integers, Sequences

CONSTANTS Processes,   \* the gateway processes that keep a copy
          Docs,        \* the documents that can be written
          NoDoc        \* nothing has been written yet

VARIABLES history,     \* the accepted documents, each with the version its writer had read
          view         \* the copy each process serves: its place in the history, its content

vars == <<history, view>>

Unread == [at |-> 0, content |-> NoDoc]

Init == /\ history = <<>>
        /\ view = [p \in Processes |-> Unread]

(* A document is accepted from a writer that had read the current one.     *)
Write(d) == /\ history' = Append(history, [content |-> d, basis |-> Len(history)])
            /\ UNCHANGED view

(* A process swaps its copy for one at least as new.                       *)
Observe(p) == \E n \in 1..Len(history) :
                /\ n >= view[p].at
                /\ view' = [view EXCEPT ![p] = [at |-> n, content |-> history[n].content]]
                /\ UNCHANGED history

(* A restart loses the copy; what is written stays.                        *)
Forget(p) == /\ view' = [view EXCEPT ![p] = Unread]
             /\ UNCHANGED history

Next == \/ \E d \in Docs : Write(d)
        \/ \E p \in Processes : Observe(p) \/ Forget(p)

Spec == Init /\ [][Next]_vars
=============================================================================
