------------------------------- MODULE MCTrace -------------------------------
(***************************************************************************)
(* Six cable segments in a line between the OLT port and the customer, each*)
(* created by the API, traced upstream as the impact analysis does.        *)
(* The 100 hops stand for its 200: no walk of these lines has 15.          *)
(***************************************************************************)
EXTENDS Trace

Link(id, a, b) == [id |-> id, a |-> a, b |-> b]
Hop(i) == Link(ToString(i), "near" \o ToString(i), "far" \o ToString(i))
Line(n) ==
  LET hops == [i \in 1..n |-> Hop(i)]
      terminals == {"pon", "drop"} \union UNION {{hops[i].a, hops[i].b} : i \in 1..n}
  IN  [terminals |-> terminals, fibers |-> hops, internals |-> hops, splitters |-> <<>>,
       connections |-> [i \in 1..n + 1 |->
          Link("c" \o ToString(i), IF i = 1 THEN "pon" ELSE hops[i - 1].b,
                                   IF i = n + 1 THEN "drop" ELSE hops[i].a)],
       role |-> [t \in terminals |-> IF t \in {"pon", "drop"} THEN t ELSE "plain"],
       linked |-> {}]

ImpactQueries == {[net |-> Line(n), start |-> "drop", direction |-> "upstream",
                   maxHops |-> 100, maxResults |-> 50] : n \in {5, 6}}
=============================================================================
