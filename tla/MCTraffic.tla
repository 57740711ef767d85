------------------------------ MODULE MCTraffic ------------------------------
EXTENDS Traffic, TLC

MCProviders == 1..2
MCModelOf   == [p \in MCProviders |-> "m"]
MCHostOf    == <<"a", "b">>
MCRegionOf  == <<"east", "east">>

(* At most half of the requests may fail, and that is not negotiable.      *)
Reliable == [allowed |-> <<[model |-> "m", host |-> "any"]>>, declared |-> <<"success_rate">>,
             target |-> [success_rate |-> 2], objective |-> Cost,
             priority |-> <<"success_rate">>, hard |-> "success_rate"]

(* The same, cheapest first, and it may give way.                          *)
Lenient == [Reliable EXCEPT !.hard = None]

MCDocuments == {"default" :> Reliable, "default" :> Lenient}

Answer(s, c) == [status |-> s, latency |-> 1, cost |-> c]

(* The cheap provider comes and goes, and may refuse the credentials it is *)
(* shown; the dear one fails at times.                                     *)
MCUpstream == 0 :> {Answer(200, 0)}
           @@ 1 :> {Answer(0, 0), Answer(200, 2), Answer(401, 0)}
           @@ 2 :> {Answer(503, 0), Answer(200, 4)}
=============================================================================
