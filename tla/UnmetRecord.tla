------------------------------ MODULE UnmetRecord ------------------------------
(***************************************************************************)
(* What the unmet state of a workload is, whoever computes it: one history *)
(* of window verdicts, a flag that two consecutive missed windows raise    *)
(* and two consecutive held windows clear, and observers whose view of the *)
(* flag only moves forward along the history until they forget it.         *)
(***************************************************************************)
EXTENDS Integers, Sequences

CONSTANT Processes

Verdicts == {"held", "missed", "indeterminate"}

VARIABLES history,   \* the verdicts, in the order they were recorded
          views      \* each observer's position in it and the flag it shows

vars == <<history, views>>

(* h[i] and h[j] are consecutive evidence for v: nothing between them is   *)
(* evidence either way.                                                    *)
Consecutive(h, v, i, j) ==
  /\ i < j /\ h[i] = v /\ h[j] = v
  /\ \A k \in i + 1..j - 1 : h[k] = "indeterminate"

(* The flag after the first n verdicts of h.                               *)
Raised(h, n) ==
  \E i, j \in 1..n :
    /\ Consecutive(h, "missed", i, j)
    /\ ~\E k, l \in j + 1..n : Consecutive(h, "held", k, l)

At(h, n) == [at |-> n, unmet |-> Raised(h, n)]

Init == /\ history = <<>>
        /\ views = [p \in Processes |-> At(<<>>, 0)]

Record(p, v) ==
  /\ history' = Append(history, v)
  /\ views' = [views EXCEPT ![p] = At(history', Len(history'))]

Observe(p, n) ==
  /\ n >= views[p].at
  /\ views' = [views EXCEPT ![p] = At(history, n)]
  /\ UNCHANGED history

Forget(p) == /\ views' = [views EXCEPT ![p] = At(history, 0)]
             /\ UNCHANGED history

Next == \E p \in Processes :
          \/ \E v \in Verdicts : Record(p, v)
          \/ \E n \in 0..Len(history) : Observe(p, n)
          \/ Forget(p)

Spec == Init /\ [][Next]_vars
=============================================================================
