------------------------------ MODULE MCPolicy -------------------------------
EXTENDS Policy, TLC

MCProviders == 1..3
MCModelOf   == [p \in MCProviders |-> "m"]
MCHostOf    == <<"a", "b", "b">>
MCRegionOf  == <<"east", "east", "west">>

Entry(h) == [model |-> "m", host |-> h]
Floor(h, d, v, e) == [model |-> "m", host |-> h, dimension |-> d, value |-> v, variance |-> 1, expires |-> e]

(* With the variance, host a may reach a p95 of 2 and host b one of 4;     *)
(* nothing is known of cost, and the success rates expire first.           *)
MCCatalogue == <<Floor("a", "p95_ms", 3, 1), Floor("b", "p95_ms", 5, 1),
                 Floor("b", "success_rate", 1, 0), Floor("a", "success_rate", 3, 0)>>

P == "p95_ms"
C == Cost
R == "success_rate"

Values == [p95_ms |-> 2, cost_per_1k_tokens_usd |-> 2, success_rate |-> 3]

Write(order, ranked, priority, objective, hard, tight) ==
  [allowed |-> tight.allowed, order |-> order,
   target |-> [d \in ToSet(order) |-> IF d = P THEN tight.p95 ELSE Values[d]],
   objective |-> objective, ranked |-> ranked, priority |-> priority, hard |-> hard]

Loose == [allowed |-> <<Entry("any")>>, p95 |-> 2]

MCWires ==
       {Write(<<P, C, R>>, TRUE, q, o, h, Loose) :
          q \in {<<P, C, R>>, <<C, R, P>>, <<R, P, C>>, <<R, C, P>>}, o \in {None, P}, h \in {None, P, C}}
  \union {Write(s, FALSE, << >>, o, h, Loose) :
          s \in {<<P, C>>, <<C, R, P>>}, o \in {C, R}, h \in {None, C}}
  \union {Write(<<P>>, FALSE, << >>, None, P, [allowed |-> <<Entry(h)>>, p95 |-> v]) :
          h \in {"any", "a", "b"}, v \in 0..4}
  \union {Write(<<R>>, FALSE, << >>, C, None, [allowed |-> a, p95 |-> 2]) :
          a \in {<<>>, <<Entry("b"), Entry("a")>>}}
  \union {Write(<<P, C>>, TRUE, q, None, R, Loose) : q \in {<<P>>, <<P, C>>, <<P, P>>}}

Saw(p95, cost, rate) == [p95_ms |-> p95, cost_per_1k_tokens_usd |-> cost, success_rate |-> rate]
Thin == Saw(Unmeasured, Unmeasured, Unmeasured)

Sights == {Thin, Saw(1, 1, 4), Saw(1, 3, 4), Saw(3, 1, 4), Saw(3, 3, 2)}

MCSightings ==
       [{1, 2} -> Sights]
  \union [{1} -> Sights]
  \union {a @@ (3 :> b) : a \in [{1, 2} -> Sights], b \in {Thin, Saw(3, 2, 4), Saw(1, 3, 2)}}

Held2 == [id |-> "r2", model |-> "m", host |-> "b", region |-> "east", rate |-> 2, start |-> 0, end |-> 1]
Held3 == [id |-> "r3", model |-> "m", host |-> "b", region |-> "west", rate |-> 3, start |-> 0, end |-> 1]

MCLives == {<< >>, <<Held2>>, <<Held3, Held2>>}
=============================================================================
