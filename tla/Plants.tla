-------------------------------- MODULE Plants --------------------------------
(***************************************************************************)
(* Requests for TLC.  The plant has two boxes.  Box A holds the OLT port   *)
(* "pon" and one end of the fibers "f" and "g"; box B holds their other    *)
(* ends, a splitter 1:2 and the port "drop" of a customer.  Every way of   *)
(* connecting terminals of one box is enumerated: lines, loose ends, rings *)
(* over both fibers and loops over the splitter are all among them.        *)
(***************************************************************************)
EXTENDS Naturals, SequencesExt

Link(id, a, b) == [id |-> id, a |-> a, b |-> b]

BoxA == {"pon", "fa", "ga"}
BoxB == {"fb", "gb", "in", "out1", "out2", "drop"}
Terms == BoxA \union BoxB

\* The ways to pair terminals of a box, each in at most one connection.
Pairs(box) == {p \in SUBSET box : Cardinality(p) = 2}
Matchings(box) ==
  {m \in UNION {{{}}, {{p} : p \in Pairs(box)}, {{p, q} : p, q \in Pairs(box)},
                {{p, q, r} : p, q, r \in Pairs(box)}} :
     \A p, q \in m : p = q \/ p \intersect q = {}}

ConnectionRows(pairs) ==
  LET ordered == SetToSeq(pairs)
  IN  [i \in DOMAIN ordered |->
         LET ends == SetToSeq(ordered[i])
         IN  Link(ToString(ordered[i]), ends[1], ends[2])]

Fibers == <<Link("f", "fa", "fb"), Link("g", "ga", "gb")>>
Splitters == <<[id |-> "s", input |-> "in", output |-> "out1"],
               [id |-> "s", input |-> "in", output |-> "out2"]>>

\* create_cable_segment adds a fiber_continuity edge beside each fiber; the
\* demonstration plant of scripts/seed_demo.py has fibers without edges.
NetOf(connections, edges, linked) ==
  [terminals |-> Terms, fibers |-> Fibers, connections |-> connections,
   internals |-> edges, splitters |-> Splitters,
   role |-> [t \in Terms |-> IF t \in {"pon", "drop"} THEN t ELSE "plain"],
   linked |-> linked]

Nets == {NetOf(ConnectionRows(a \union b), edges, linked) :
           a \in Matchings(BoxA), b \in Matchings(BoxB),
           edges \in {<<>>, Fibers}, linked \in {{}}}

Requests(nets, starts, limits) ==
  {[net |-> net, start |-> start, direction |-> d, maxHops |-> l[1], maxResults |-> l[2]] :
     net \in nets, start \in starts, d \in {"downstream", "upstream"}, l \in limits}

SmallQueries ==
  Requests(Nets, {"pon", "drop", "out1"}, {<<18, 50>>, <<3, 2>>})
    \union Requests({NetOf(<<>>, <<>>, {"out2"})}, {"deleted", "out2", "fa"}, {<<1, 50>>})
===============================================================================
