------------------------------- MODULE Trace -------------------------------
(***************************************************************************)
(* The optical trace (modules/topology/graph.py, service.py): a subgraph   *)
(* of the plant is loaded, then walked breadth first from one terminal,    *)
(* downstream (PON to ONU) or upstream.  One behaviour is one request.     *)
(*                                                                         *)
(* A net is a record of the rows the trace reads: the terminals, the       *)
(* fiber segments, the active connections and the internal edges in        *)
(* creation order, the splitters joined to their outputs, one row for each *)
(* output, the role of the port behind each terminal, and the ports with   *)
(* an active service link.  Lengths, losses, codes and warnings are left   *)
(* out: no property is about them.                                         *)
(***************************************************************************)
EXTENDS Naturals, Sequences, FiniteSets, SequencesExt

CONSTANT Queries       \* the requests: net, start, direction and both limits

VARIABLES
  query,               \* the request being served
  graph,               \* TraceGraph: the part of the net that was loaded
  queue,               \* the deque of nodes, each as the steps that lead to it
  paths,               \* the TracePaths recorded so far, in order
  cycle,               \* has_cycle
  limited,             \* limit_exceeded
  incomplete,          \* any_incomplete
  pc                   \* "load", "walk", "done" or "not_found"

vars == <<query, graph, queue, paths, cycle, limited, incomplete, pc>>

Directions == {"downstream", "upstream"}
Kinds == {"fiber_segment", "connection", "internal_edge", "splitter"}

\* The entries of s at the positions at, in their order: a WHERE, a loop's continue.
Part(s, at) ==
  [k \in 1..Cardinality(at) |-> s[CHOOSE i \in at : Cardinality({j \in at : j <= i}) = k]]

(***************************************************************************)
(* The plant                                                               *)
(***************************************************************************)
Other(link, t) == IF link.a = t THEN link.b ELSE link.a

\* Where one hop leads from t: the LATERAL subquery of the reachability CTE.
Neighbors(net, direction, t) ==
  (UNION {{Other(link, t) : link \in {l \in ToSet(rows) : t \in {l.a, l.b}}} :
            rows \in {net.fibers, net.connections, net.internals}})
    \union IF direction = "downstream"
             THEN {s.output : s \in {s \in ToSet(net.splitters) : s.input = t}}
             ELSE {s.input : s \in {s \in ToSet(net.splitters) : s.output = t}}

\* The recursive CTE: what can be reached from start in at most hops hops.
Reach(net, direction, start, hops) ==
  LET within[n \in 0..hops] ==
        IF n = 0
          THEN {start}
          ELSE UNION {{t} \union Neighbors(net, direction, t) : t \in within[n - 1]}
  IN  within[hops]

\* load_trace_graph: the rows that touch a reached terminal; splitters only
\* on the side the direction enters them from.
LoadTraceGraph(net, direction, start, hops) ==
  LET reach == Reach(net, direction, start, hops)
      touching(rows) == Part(rows, {i \in DOMAIN rows : {rows[i].a, rows[i].b} \intersect reach # {}})
      entered(s) == IF direction = "downstream" THEN s.input ELSE s.output
  IN  [net EXCEPT
         !.terminals = @ \intersect reach,
         !.fibers = touching(@),
         !.connections = touching(@),
         !.internals = touching(@),
         !.splitters = Part(@, {i \in DOMAIN @ : entered(@[i]) \in reach})]

\* _is_endpoint_valid: a port whose role ends the signal in this direction,
\* or, downstream, a port with an active service link.
IsEndpointValid(g, direction, t) ==
  \/ direction = "downstream" /\ (g.role[t] = "drop" \/ t \in g.linked)
  \/ direction = "upstream" /\ g.role[t] = "pon"

(***************************************************************************)
(* One node of the walk.  A trail is the sequence of steps from the start; *)
(* a step names the element crossed and the terminal it leads to.          *)
(***************************************************************************)
End(start, trail) == IF trail = <<>> THEN start ELSE Last(trail).to

Visited(start, trail) == {start} \union {trail[i].to : i \in DOMAIN trail}

NotRemembered(trail, kind, id) == FALSE   \* fault: a node retraces the element it came by

\* The element the trail arrived by is the only one a node does not retrace.
Arrived(trail, kind, id) == trail # <<>> /\ Last(trail).kind = kind /\ Last(trail).id = id

Across(kind, rows, t, trail) ==
  LET open == Part(rows, {i \in DOMAIN rows :
                           t \in {rows[i].a, rows[i].b} /\ ~Arrived(trail, kind, rows[i].id)})
  IN  [i \in DOMAIN open |-> [kind |-> kind, id |-> open[i].id, to |-> Other(open[i], t)]]

HopToOutput(s, t) == [kind |-> "splitter_output", id |-> s.id, to |-> t]   \* fault: of another kind
SplitterHop(s, t) == [kind |-> "splitter", id |-> s.id, to |-> t]

FirstOutput(rows, t) == Part(rows, {i \in {1} \intersect DOMAIN rows : rows[i].input = t})   \* fault
\* splitter_outputs_by_input, splitter_output_by_terminal: the latter keeps the first.
OutputsOf(rows, t) == Part(rows, {i \in DOMAIN rows : rows[i].input = t})
OutputAt(rows, t) ==
  Part(rows, {i \in DOMAIN rows : rows[i].output = t /\ \A j \in 1..i - 1 : rows[j].output # t})

\* Downstream the input fans out to every output; upstream an output leads to
\* the input.  Sister outputs never exchange light.
ThroughSplitter(g, direction, t) ==
  IF direction = "downstream"
    THEN LET outs == OutputsOf(g.splitters, t)
         IN  [i \in DOMAIN outs |-> SplitterHop(outs[i], outs[i].output)]
    ELSE LET outs == OutputAt(g.splitters, t)
         IN  [i \in DOMAIN outs |-> SplitterHop(outs[i], outs[i].input)]

Transitions(g, direction, t, trail) ==
  Across("fiber_segment", g.fibers, t, trail)
    \o Across("connection", g.connections, t, trail)
    \o Across("internal_edge", g.internals, t, trail)
    \o ThroughSplitter(g, direction, t)

(***************************************************************************)
(* The request                                                             *)
(***************************************************************************)
Init ==
  /\ query \in Queries
  /\ graph = [query.net EXCEPT !.terminals = {}]
  /\ queue = <<>>
  /\ paths = <<>>
  /\ cycle = FALSE
  /\ limited = FALSE
  /\ incomplete = FALSE
  /\ pc = "load"

\* trace_optical_path up to the walk.
Load ==
  /\ pc = "load"
  /\ query.start \in query.net.terminals
  /\ graph' = LoadTraceGraph(query.net, query.direction, query.start, query.maxHops)
  /\ queue' = << <<>> >>
  /\ pc' = "walk"
  /\ UNCHANGED <<query, paths, cycle, limited, incomplete>>

\* The start terminal does not exist: 404.
NotFound ==
  /\ pc = "load"
  /\ query.start \notin query.net.terminals
  /\ pc' = "not_found"
  /\ UNCHANGED <<query, graph, queue, paths, cycle, limited, incomplete>>

\* Nodes are left but the limit of paths is reached: the loop breaks.
StopAtResultLimit ==
  /\ pc = "walk"
  /\ queue # <<>>
  /\ Len(paths) >= query.maxResults
  /\ limited' = TRUE
  /\ pc' = "done"
  /\ UNCHANGED <<query, graph, queue, paths, cycle, incomplete>>

\* A node at the limit of hops is recorded as it is and not followed.
CutAtHopLimit ==
  /\ pc = "walk"
  /\ queue # <<>>
  /\ Len(paths) < query.maxResults
  /\ Len(Head(queue)) >= query.maxHops
  /\ limited' = TRUE
  /\ paths' = Append(paths, Head(queue))
  /\ queue' = Tail(queue)
  /\ UNCHANGED <<query, graph, cycle, incomplete, pc>>

Before(waiting, next) == next \o waiting   \* fault: a stack in place of the deque
Behind(waiting, next) == waiting \o next

\* The other nodes: a dead end is recorded, judged as an end of the signal; a
\* step back into the trail is recorded as a cycle; any other step is queued.
Visit ==
  /\ pc = "walk"
  /\ queue # <<>>
  /\ Len(paths) < query.maxResults
  /\ Len(Head(queue)) < query.maxHops
  /\ LET trail == Head(queue)
         t     == End(query.start, trail)
         hops  == Transitions(graph, query.direction, t, trail)
         seen  == Visited(query.start, trail)
         back  == Part(hops, {i \in DOMAIN hops : hops[i].to \in seen})
         ahead == Part(hops, {i \in DOMAIN hops : hops[i].to \notin seen})
         openEnd == hops = <<>> /\ ~IsEndpointValid(graph, query.direction, t)
         follow(hs) == [i \in DOMAIN hs |-> Append(trail, hs[i])]
     IN  /\ incomplete' = (incomplete \/ openEnd)
         /\ cycle' = (cycle \/ back # <<>>)
         /\ paths' = paths \o IF hops = <<>> THEN <<trail>> ELSE follow(back)
         /\ queue' = Behind(Tail(queue), follow(ahead))
  /\ UNCHANGED <<query, graph, limited, pc>>

Respond ==
  /\ pc = "walk"
  /\ queue = <<>>
  /\ pc' = "done"
  /\ UNCHANGED <<query, graph, queue, paths, cycle, limited, incomplete>>

Next == Load \/ NotFound \/ StopAtResultLimit \/ CutAtHopLimit \/ Visit \/ Respond

Spec == Init /\ [][Next]_vars

\* The status of the response, in the code's order of precedence.
Status ==
  IF cycle THEN "cycle_detected"
  ELSE IF limited THEN "limit_exceeded"
  ELSE IF incomplete \/ paths = <<>> THEN "incomplete"
  ELSE "complete"

\* analyze_cable_impact: a link traced from here is impacted when a path of the
\* upstream trace crosses a fiber segment of the broken cables.
IsImpacted(broken) ==
  \E i \in DOMAIN paths : \E j \in DOMAIN paths[i] :
    paths[i][j].kind = "fiber_segment" /\ paths[i][j].id \in broken

-----------------------------------------------------------------------------
(***************************************************************************)
(* What the tables guarantee of a request's net: rows of a table have ids  *)
(* of their own and lead to terminals that exist.  create_splitter makes a *)
(* terminal for the input and one for every output.                        *)
(***************************************************************************)
LinkRows(net) == {net.fibers, net.connections, net.internals}

WellFormed(q) ==
  LET net == q.net
  IN  /\ q.direction \in Directions /\ q.maxHops \in Nat /\ q.maxResults \in Nat
      /\ DOMAIN net = {"terminals", "fibers", "connections", "internals", "splitters", "role", "linked"}
      /\ IsFiniteSet(net.terminals)
      /\ \A rows \in LinkRows(net) :
           /\ rows \in Seq(ToSet(rows))
           /\ \A i \in DOMAIN rows : {rows[i].a, rows[i].b} \subseteq net.terminals
           /\ \A i, j \in DOMAIN rows : rows[i].id = rows[j].id => i = j
      /\ net.splitters \in Seq(ToSet(net.splitters))
      /\ \A s \in ToSet(net.splitters) : {s.input, s.output} \subseteq net.terminals
      /\ \A i, j \in DOMAIN net.splitters :
           LET s == net.splitters[i]
               r == net.splitters[j]
           IN  /\ s.output = r.output => i = j
               /\ s.id = r.id => s.input = r.input
               /\ s.input # r.output

-----------------------------------------------------------------------------
(***************************************************************************)
(* Reference definitions, from the plant alone                             *)
(***************************************************************************)
Connected(direction, t) == Reach(query.net, direction, t, Cardinality(query.net.terminals))

\* Every element that ends at t, whatever the direction.
ElementsAt(t) ==
  (UNION {{<<kind, l.id>> : l \in {l \in ToSet(query.net[kind]) : t \in {l.a, l.b}}} :
            kind \in {"fibers", "connections", "internals"}})
    \union {<<"splitters", s.id>> : s \in {s \in ToSet(query.net.splitters) :
                                             t \in {s.input, s.output}}}

\* The hops light can make in the plant: a fiber, a connection and an internal
\* edge both ways, a splitter only the way the direction allows.
PlantHop(from, kind, id, to) == [from |-> from, step |-> [kind |-> kind, id |-> id, to |-> to]]
BothWays(kind, rows) ==
  UNION {{PlantHop(l.a, kind, l.id, l.b), PlantHop(l.b, kind, l.id, l.a)} : l \in ToSet(rows)}
PlantHops(net, direction) ==
  BothWays("fiber_segment", net.fibers)
    \union BothWays("connection", net.connections)
    \union BothWays("internal_edge", net.internals)
    \union {IF direction = "downstream" THEN PlantHop(s.input, "splitter", s.id, s.output)
                                        ELSE PlantHop(s.output, "splitter", s.id, s.input) :
              s \in ToSet(net.splitters)}

\* The steps that continue a walk without turning back inside an element.
Onward(q, w) ==
  {h.step : h \in {h \in PlantHops(q.net, q.direction) :
     /\ h.from = End(q.start, w)
     /\ w # <<>> => <<Last(w).kind, Last(w).id>> # <<h.step.kind, h.step.id>>}}

Met(q, w) == {q.start} \union {w[i].to : i \in DOMAIN w}

\* The walks of n steps that never meet a terminal twice.
SimpleWalks(q, n) ==
  LET walks[k \in 0..n] ==
        IF k = 0 THEN {<<>>}
        ELSE UNION {{Append(w, h) : h \in {h \in Onward(q, w) : h.to \notin Met(q, w)}} :
                      w \in walks[k - 1]}
  IN  walks[n]

\* What an unlimited walk must return: each simple walk that can go nowhere
\* else, each one closed by the step that returns to it, each one cut by the
\* limit of hops.
ExpectedPaths(q) ==
  LET inner == UNION {SimpleWalks(q, n) : n \in 0..(q.maxHops - 1)}
  IN  {w \in inner : Onward(q, w) = {}}
        \union (UNION {{Append(w, h) : h \in {h \in Onward(q, w) : h.to \in Met(q, w)}} : w \in inner})
        \union SimpleWalks(q, q.maxHops)

(***************************************************************************)
(* Properties                                                              *)
(***************************************************************************)
\* Types of the state of one request.
TypeOK ==
  /\ query.direction \in Directions
  /\ graph.terminals \subseteq query.net.terminals
  /\ \A trail \in ToSet(queue) \union ToSet(paths) : \A i \in DOMAIN trail :
        trail[i].kind \in Kinds /\ trail[i].to \in query.net.terminals
  /\ {cycle, limited, incomplete} \subseteq BOOLEAN
  /\ pc \in {"load", "walk", "done", "not_found"}

\* A response that no limit of paths cut holds every maximal walk of the plant
\* exactly once: loading only the reached part, skipping the element just
\* crossed and sharing prefixes lose no branch and repeat none.
PathsAreExact ==
  pc = "done" /\ Len(paths) < query.maxResults =>
    ToSet(paths) = ExpectedPaths(query) /\ Len(paths) = Cardinality(ToSet(paths))

\* A trace reported complete leaves no loose end: every terminal light reaches
\* that nothing else is attached to is a valid end of the signal.
CompleteLeavesNoLooseEnd ==
  pc = "done" /\ Status = "complete" =>
    \A t \in Connected(query.direction, query.start) :
      Cardinality(ElementsAt(t)) <= (IF t = query.start THEN 0 ELSE 1) =>
        IsEndpointValid(query.net, query.direction, t)

\* Whatever a limit cuts off is at least as far away as what is returned: no
\* recorded path is longer than the extension of a node still waiting.
LimitCutsTheFarthest ==
  \A p \in ToSet(paths), trail \in ToSet(queue) : Len(p) <= Len(trail) + 1

\* The impact analysis of a broken fiber segment (at most 50 paths, all hops)
\* flags the customer exactly when the upstream light crosses that segment.
\* "para determinar se o enlace optico atravessava algum dos segmentos rompidos"
ImpactIsExact ==
  pc = "done" /\ query.direction = "upstream" /\ query.maxResults = 50
      /\ query.maxHops >= 2 * Cardinality(query.net.terminals) =>
    \A f \in ToSet(query.net.fibers) :
      IsImpacted({f.id}) <=> f.a \in Connected("upstream", query.start)
=============================================================================
