------------------------------- MODULE MCUsage -------------------------------
EXTENDS Usage, TLC

MCProviders == 1..2
MCModelOf   == [p \in MCProviders |-> "m"]
MCHostOf    == <<"a", "b">>
MCRegionOf  == <<"east", "east">>

MCCatalogue == <<[model |-> "m", host |-> "a", dimension |-> Cost, value |-> 5, variance |-> 0, expires |-> 9],
                 [model |-> "m", host |-> "b", dimension |-> Cost, value |-> 6, variance |-> 0, expires |-> 9]>>

Term(id, start, end, rate) ==
  [id |-> id, model |-> "m", host |-> "b", region |-> "east", addressing |-> id,
   rate |-> rate, start |-> start, end |-> end]

(* One term, renewed at another price.                                     *)
MCReservations == <<Term("r1", 0, 1, 1), Term("r2", 1, 2, 2)>>

Reply(s, l) == [status |-> s, limited |-> l]
MCReplies == {Reply(200, FALSE), Reply(429, TRUE), Reply(400, FALSE)}

Calls2 == Permutations(Calls)

MCOrders == {<<2, 1>>}
MCFallback == [provider |-> 0, reservation |-> None]
=============================================================================
