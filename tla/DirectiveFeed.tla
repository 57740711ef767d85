----------------------------- MODULE DirectiveFeed -----------------------------
(***************************************************************************)
(* What the control plane promises a customer's connectors about one       *)
(* workload, without saying how: a growing feed of ranked lists, each      *)
(* under a version above every earlier one, and connectors that replace    *)
(* the list they hold only by a newer list of the feed.                    *)
(***************************************************************************)
EXTENDS Integers

CONSTANTS Connectors, Drafts, NoDraft

VARIABLES feed,   \* the lists ever handed to a connector
          held    \* the list each connector holds

vars == <<feed, held>>

NoList == [version |-> 0, draft |-> NoDraft]
Lists  == [version : Nat \ {0}, draft : Drafts]

Init == /\ feed = {}
        /\ held = [c \in Connectors |-> NoList]

(* A version is given to one list only, and versions only grow.            *)
Publish(l) == /\ \A older \in feed : older.version < l.version
              /\ feed' = feed \cup {l}
              /\ UNCHANGED held

Adopt(c) == \E l \in feed : /\ l.version > held[c].version
                            /\ held' = [held EXCEPT ![c] = l]
                            /\ UNCHANGED feed

(* feed' \ feed rather than Lists, so that the lists need no bound.        *)
Next == \/ \E l \in feed' \ feed : l \in Lists /\ Publish(l)
        \/ \E c \in Connectors : Adopt(c)

Spec == Init /\ [][Next]_vars
=============================================================================
