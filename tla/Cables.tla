------------------------------- MODULE Cables -------------------------------
(***************************************************************************)
(* Cable segments (modules/cables/service.py): creation, update, removal   *)
(* and the split at an intermediate box, beside the connection handlers of *)
(* modules/connectivity that lock terminals of the same fibers.            *)
(*                                                                         *)
(* The split locks the topology row first, the connection handlers last.   *)
(* Each request is the steps between its lock waits; what follows its last *)
(* wait runs under the locks it holds and is one action, commit included.  *)
(* Geometry, lengths, colours and labels are left out.                     *)
(***************************************************************************)
EXTENDS Naturals, FiniteSets

CONSTANTS
  Client,        \* request slots: one database session each
  Box,           \* structures that cables reach
  Route,         \* the pairs of boxes cables are laid between
  FiberCount,    \* fibers of a cable
  MaxSegment,    \* bound: segment rows ever inserted
  MaxRevision,   \* bound: no request begins at this revision
  MaxVersion,    \* bound: no request is sent for a segment at this version
  None

ASSUME CountAssumption == FiberCount \in Nat \ {0} /\ {MaxSegment, MaxRevision, MaxVersion} \subseteq Nat
ASSUME RouteAssumption == Route \subseteq {r \in Box \X Box : r[1] # r[2]}
ASSUME NoneAssumption == None \notin Client \cup Box

Fiber == 1..FiberCount
Segment == 1..MaxSegment
Terminal == 1..(2 * FiberCount * MaxSegment)

VARIABLES
  segs,     \* cable_segments by id; "none" before the insert, "deleted" after
  fs,       \* fiber_segments rows
  edges,    \* internal_edges rows of type fiber_continuity
  conns,    \* active connections
  box,      \* the structure of each terminal, None before its insert
  rev,      \* network_topology_state.topology_revision
  topo,     \* the session that holds that row FOR UPDATE, or None
  held,     \* the terminals each session holds FOR UPDATE
  pc, req,  \* what each session executes
  spans,    \* history: the two ends of each fiber as first installed
  joints    \* history: the terminal pairs splits put inside a fiber

plant == <<segs, fs, edges, conns, box, rev>>
vars == <<plant, topo, held, pc, req, spans, joints>>

Status == {"none", "installed", "retired", "deleted"}
Idle == [op |-> "idle"]

Init ==
  /\ segs = [s \in Segment |-> [status |-> "none", origin |-> None, dest |-> None, version |-> 0]]
  /\ fs = {} /\ edges = {} /\ conns = {}
  /\ box = [t \in Terminal |-> None]
  /\ rev = 1
  /\ topo = None
  /\ held = [c \in Client |-> {}]
  /\ pc = [c \in Client |-> "idle"]
  /\ req = [c \in Client |-> Idle]
  /\ spans = {} /\ joints = {}

(***************************************************************************)
(* Rows                                                                    *)
(***************************************************************************)
Present(s) == segs[s].status \in {"installed", "retired"}
Unused == {s \in Segment : segs[s].status = "none"}
Next1(ids) == CHOOSE i \in ids : \A j \in ids : i <= j

FibersOf(s) == {f \in fs : f.seg = s}
EndsOf(s) == UNION {{f.a, f.b} : f \in FibersOf(s)}
Taken(t) == \E k \in conns : t \in {k.a, k.b}

\* The two terminals a segment insert or a split adds for a fiber.
NewTerminal(fiber, side) ==
  Cardinality({t \in Terminal : box[t] # None}) + 2 * (fiber - 1) + side

Installed(o, d) == [status |-> "installed", origin |-> o, dest |-> d, version |-> 1]
HeldByOthers(c) == UNION {held[d] : d \in Client \ {c}}
RowFree(c) == topo \in {None, c}     \* the topology row can be locked by c

StillLocked(c) == topo   \* fault: the row lock outlives the request
Unlock(c) == IF topo = c THEN None ELSE topo

Finish(c) ==
  /\ pc' = [pc EXCEPT ![c] = "idle"]
  /\ req' = [req EXCEPT ![c] = Idle]
  /\ held' = [held EXCEPT ![c] = {}]
  /\ topo' = Unlock(c)

Refuse(c) == Finish(c) /\ UNCHANGED <<plant, spans, joints>>

(***************************************************************************)
(* create_cable_segment                                                    *)
(***************************************************************************)
CreateSegment(c, o, d) ==
  /\ pc[c] = "idle" /\ RowFree(c) /\ rev < MaxRevision
  /\ Unused # {}
  /\ LET s   == Next1(Unused)
         new == {[seg |-> s, fiber |-> f, a |-> NewTerminal(f, 1), b |-> NewTerminal(f, 2)] :
                   f \in Fiber}
     IN  /\ segs' = [segs EXCEPT ![s] = Installed(o, d)]
         /\ fs' = fs \cup new
         /\ edges' = edges \cup new
         /\ box' = [t \in Terminal |-> IF \E f \in new : f.a = t THEN o
                                       ELSE IF \E f \in new : f.b = t THEN d ELSE box[t]]
         /\ spans' = spans \cup {<<f.a, f.b>> : f \in new}
  /\ rev' = rev + 1
  /\ UNCHANGED <<conns, topo, held, pc, req, joints>>

(***************************************************************************)
(* A client reads a segment and the revision, then sends a change of it    *)
(***************************************************************************)
View(c, s) ==
  /\ pc[c] = "idle" /\ rev < MaxRevision
  /\ Present(s) /\ segs[s].version < MaxVersion
  /\ pc' = [pc EXCEPT ![c] = "viewed"]
  /\ req' = [req EXCEPT ![c] = [op |-> "view", seg |-> s, version |-> segs[s].version, rev |-> rev]]
  /\ UNCHANGED <<plant, topo, held, spans, joints>>

Fresh(c) == Present(req[c].seg) /\ segs[req[c].seg].version = req[c].version

\* update_cable_segment: If-Match, and the UPDATE is qualified by the version;
\* only a change that affects the calculated length moves the revision.
UpdateSegment(c, affects) ==
  /\ pc[c] = "viewed" /\ RowFree(c) /\ Fresh(c)
  /\ segs' = [segs EXCEPT ![req[c].seg].version = @ + 1]
  /\ rev' = IF affects THEN rev + 1 ELSE rev
  /\ Finish(c)
  /\ UNCHANGED <<fs, edges, conns, box, spans, joints>>

UpdateRefused(c) == pc[c] = "viewed" /\ ~Fresh(c) /\ Refuse(c)

\* delete_cable_segment: the query joins connection and fiber side by side, a
\* with a and b with b, and locks nothing.
SeenInUse(s) == \E k \in conns, f \in FibersOf(s) : k.a = f.a \/ k.b = f.b

RetireCheck(c) ==
  /\ pc[c] = "viewed" /\ Fresh(c)
  /\ ~SeenInUse(req[c].seg)
  /\ pc' = [pc EXCEPT ![c] = "retire"]
  /\ UNCHANGED <<plant, topo, held, req, spans, joints>>

RetireRefused(c) == pc[c] = "viewed" /\ Fresh(c) /\ SeenInUse(req[c].seg) /\ Refuse(c)

RetireCommit(c) ==
  /\ pc[c] = "retire" /\ RowFree(c) /\ Fresh(c)
  /\ segs' = [segs EXCEPT ![req[c].seg].status = "retired", ![req[c].seg].version = @ + 1]
  /\ rev' = rev + 1
  /\ Finish(c)
  /\ UNCHANGED <<fs, edges, conns, box, spans, joints>>

\* StaleDataError at the flush: 412.
RetireStale(c) == pc[c] = "retire" /\ RowFree(c) /\ ~Fresh(c) /\ Refuse(c)

(***************************************************************************)
(* split_cable_segment                                                     *)
(***************************************************************************)
\* The topology row is locked and its current value compared with the
\* revision the client expects; a request may carry If-Match instead.
Unlocked(c) == topo' = topo   \* fault: the row is read without FOR UPDATE
LockRow(c) == topo' = c

SplitLock(c, by, access, cut) ==
  /\ pc[c] = "viewed" /\ topo = None
  /\ Cardinality(Unused) >= 2
  /\ by = "revision" => rev = req[c].rev
  /\ LockRow(c)
  /\ pc' = [pc EXCEPT ![c] = "split"]
  /\ req' = [req EXCEPT ![c] = [op |-> "split", by |-> by, seg |-> @.seg, version |-> @.version,
                                rev |-> @.rev, access |-> access, cut |-> cut]]
  /\ UNCHANGED <<plant, held, spans, joints>>

SplitOutdated(c) == pc[c] = "viewed" /\ topo = None /\ rev # req[c].rev /\ Refuse(c)

SplitAllowed(c) ==
  LET r == req[c]
  IN  /\ Present(r.seg)
      /\ r.by = "version" => Fresh(c)
      /\ r.access \notin {segs[r.seg].origin, segs[r.seg].dest}

SplitRefused(c) == pc[c] = "split" /\ ~SplitAllowed(c) /\ Refuse(c)

TurnedHalves(s, s1, s2) ==   \* fault: the far half has its terminals the wrong way round
  UNION {{[seg |-> s1, fiber |-> f.fiber, a |-> f.a, b |-> NewTerminal(f.fiber, 1)],
          [seg |-> s2, fiber |-> f.fiber, a |-> f.b, b |-> NewTerminal(f.fiber, 2)]} :
           f \in FibersOf(s)}

\* The new fiber rows refer to the old end terminals: FOR KEY SHARE waits for
\* a connection handler that holds one FOR UPDATE.
Halves(s, s1, s2) ==
  UNION {{[seg |-> s1, fiber |-> f.fiber, a |-> f.a, b |-> NewTerminal(f.fiber, 1)],
          [seg |-> s2, fiber |-> f.fiber, a |-> NewTerminal(f.fiber, 2), b |-> f.b]} :
           f \in FibersOf(s)}

CutJoined(cut) ==   \* fault: the cut fibers are joined, not the others
  {[a |-> NewTerminal(f, 1), b |-> NewTerminal(f, 2), kind |-> "internal_continuity"] : f \in cut}

Splices(cut) ==     \* fault: a kind of connection that nobody knows
  {[a |-> NewTerminal(f, 1), b |-> NewTerminal(f, 2), kind |-> "splice"] : f \in Fiber \ cut}

Continuity(cut) ==
  {[a |-> NewTerminal(f, 1), b |-> NewTerminal(f, 2), kind |-> "internal_continuity"] :
     f \in Fiber \ cut}

OldKept(rows, old, new) == rows \cup new   \* fault: the old edges stay
Replaced(rows, old, new) == (rows \ old) \cup new

SplitCommit(c) ==
  /\ pc[c] = "split" /\ SplitAllowed(c)
  /\ EndsOf(req[c].seg) \cap HeldByOthers(c) = {}
  /\ LET s  == req[c].seg
         s1 == Next1(Unused)
         s2 == Next1(Unused \ {s1})
         at == req[c].access
         halves == Halves(s, s1, s2)
     IN  /\ segs' = [segs EXCEPT ![s1] = Installed(segs[s].origin, at),
                                 ![s2] = Installed(at, segs[s].dest),
                                 ![s].status = "deleted"]
         /\ fs' = (fs \ FibersOf(s)) \cup halves
         /\ edges' = Replaced(edges, FibersOf(s), halves)
         /\ conns' = conns \cup Continuity(req[c].cut)
         /\ box' = [t \in Terminal |-> IF box[t] = None /\ \E f \in halves : t \in {f.a, f.b}
                                         THEN at ELSE box[t]]
  /\ joints' = joints \cup {[l |-> NewTerminal(f, 1), r |-> NewTerminal(f, 2),
                             open |-> f \in req[c].cut] : f \in Fiber}
  /\ rev' = rev + 1
  /\ Finish(c)
  /\ UNCHANGED spans

(***************************************************************************)
(* The connection handlers (module Connectivity has them in full): the     *)
(* terminals are locked, checked and written, the revision is bumped last. *)
(***************************************************************************)
ConnectLock(c, t, u) ==
  /\ pc[c] = "idle" /\ rev < MaxRevision
  /\ t # u /\ box[t] # None /\ box[t] = box[u]
  /\ {t, u} \cap HeldByOthers(c) = {}
  /\ ~Taken(t) /\ ~Taken(u)
  /\ held' = [held EXCEPT ![c] = {t, u}]
  /\ pc' = [pc EXCEPT ![c] = "connect"]
  /\ req' = [req EXCEPT ![c] = [op |-> "connect", a |-> t, b |-> u]]
  /\ UNCHANGED <<plant, topo, spans, joints>>

ConnectCommit(c) ==
  /\ pc[c] = "connect" /\ RowFree(c)
  /\ conns' = conns \cup {[a |-> req[c].a, b |-> req[c].b, kind |-> "fusion"]}
  /\ rev' = rev + 1
  /\ Finish(c)
  /\ UNCHANGED <<segs, fs, edges, box, spans, joints>>

DisconnectLock(c, k) ==
  /\ pc[c] = "idle" /\ rev < MaxRevision
  /\ {k.a, k.b} \cap HeldByOthers(c) = {}
  /\ held' = [held EXCEPT ![c] = {k.a, k.b}]
  /\ pc' = [pc EXCEPT ![c] = "disconnect"]
  /\ req' = [req EXCEPT ![c] = [op |-> "disconnect", a |-> k.a, b |-> k.b]]
  /\ UNCHANGED <<plant, topo, spans, joints>>

DisconnectCommit(c) ==
  /\ pc[c] = "disconnect" /\ RowFree(c)
  /\ conns' = {k \in conns : k.a # req[c].a}
  /\ joints' = {[j EXCEPT !.open = @ \/ j.l \in held[c]] : j \in joints}
  /\ rev' = rev + 1
  /\ Finish(c)
  /\ UNCHANGED <<segs, fs, edges, box, spans>>

\* PostgreSQL ends a wait cycle by aborting one of its sessions: a split that
\* waits for a terminal of a handler that waits for the topology row.
WaitCycle(c, d) ==
  /\ pc[c] = "split" /\ SplitAllowed(c)
  /\ pc[d] \in {"connect", "disconnect"}
  /\ EndsOf(req[c].seg) \cap held[d] # {}

DeadlockVictim(c, d) ==
  /\ WaitCycle(c, d) \/ WaitCycle(d, c)
  /\ Refuse(c)

Step(c) ==
  \/ \E r \in Route : CreateSegment(c, r[1], r[2])
  \/ \E s \in Segment : View(c, s)
  \/ \E affects \in BOOLEAN : UpdateSegment(c, affects)
  \/ UpdateRefused(c)
  \/ RetireCheck(c) \/ RetireRefused(c) \/ RetireCommit(c) \/ RetireStale(c)
  \/ \E by \in {"version", "revision"}, access \in Box, cut \in SUBSET Fiber :
       SplitLock(c, by, access, cut)
  \/ SplitOutdated(c) \/ SplitRefused(c) \/ SplitCommit(c)
  \/ \E t, u \in Terminal : ConnectLock(c, t, u)
  \/ ConnectCommit(c)
  \/ \E k \in conns : DisconnectLock(c, k)
  \/ DisconnectCommit(c)
  \/ \E d \in Client : DeadlockVictim(c, d)

Next == \E c \in Client : Step(c)

Commits(c) ==
  \/ RetireCommit(c) \/ RetireStale(c) \/ SplitRefused(c) \/ SplitCommit(c)
  \/ ConnectCommit(c) \/ DisconnectCommit(c)
  \/ \E d \in Client : DeadlockVictim(c, d)

Spec == Init /\ [][Next]_vars

\* Row-lock waiters are queued, so a session is not passed over for ever.
FairSpec == Spec /\ \A c \in Client : SF_vars(Commits(c))

-----------------------------------------------------------------------------
(***************************************************************************)
(* Properties                                                              *)
(***************************************************************************)
FiberLinks == {{f.a, f.b} : f \in fs}
EdgeLinks == {{e.a, e.b} : e \in edges}
ConnLinks == {{k.a, k.b} : k \in conns}

\* The terminals light reaches from t over the links.
Lit(links, t) ==
  LET lit[n \in 0..Cardinality(links)] ==
        IF n = 0 THEN {t}
        ELSE UNION {{u} \cup UNION {l \in links : u \in l} : u \in lit[n - 1]}
  IN  lit[Cardinality(links)]

TypeOK ==
  /\ segs \in [Segment -> [status : Status, origin : Box \cup {None},
                            dest : Box \cup {None}, version : Nat]]
  /\ fs \subseteq [seg : Segment, fiber : Fiber, a : Terminal, b : Terminal]
  /\ edges \subseteq [seg : Segment, fiber : Fiber, a : Terminal, b : Terminal]
  /\ conns \subseteq [a : Terminal, b : Terminal, kind : {"fusion", "internal_continuity"}]
  /\ box \in [Terminal -> Box \cup {None}]
  /\ rev \in Nat
  /\ topo \in Client \cup {None}
  /\ held \in [Client -> SUBSET Terminal]
  /\ pc \in [Client -> {"idle", "viewed", "retire", "split", "connect", "disconnect"}]

\* "Para fibras passantes (nao cortadas): cria continuidade interna": after any
\* sequence of splits, a fiber that no split cut and nobody opened by hand is
\* still lit from one end of its first installation to the other.
UncutFiberIsWhole ==
  \A span \in spans :
    LET course == Lit(FiberLinks \cup {{j.l, j.r} : j \in joints}, span[1])
    IN  (\A j \in joints : j.l \in course => ~j.open) =>
          span[2] \in Lit(FiberLinks \cup ConnLinks, span[1])

\* "Para fibras cortadas: cria novas extremidades livres": light that a cut
\* stops does not pass by a fiber row or an edge left from before the split.
CutStopsLight ==
  \A j \in joints :
    ~Taken(j.l) /\ ~Taken(j.r) => j.r \notin Lit(FiberLinks \cup EdgeLinks, j.l)

\* A sequence of splits changes where light passes only at the cut fibers: the
\* uncut ones stay whole, the cut ones let nothing by.
SplitKeepsTheLight == UncutFiberIsWhole /\ CutStopsLight

\* "Preserva as conexoes externas ativas": the two ends of every active
\* connection are, whatever was split, ends of one fiber row each, of a segment
\* that exists and in the box where the segment ends.
ConnectionsKeepTheirFiber ==
  \A k \in conns : \A t \in {k.a, k.b} :
    \E f \in fs :
      /\ \A g \in fs : t \in {g.a, g.b} => g = f
      /\ Present(f.seg)
      /\ \/ t = f.a /\ box[t] = segs[f.seg].origin
         \/ t = f.b /\ box[t] = segs[f.seg].dest

\* A split sent with an expected revision never commits over a plant that
\* changed after its client read that revision (EST-04).
SplitsCommit(c) == pc[c] = "split" /\ joints' # joints /\ pc'[c] = "idle"
SplitSeesCurrentPlant ==
  [][\A c \in Client : SplitsCommit(c) /\ req[c].by = "revision" => rev = req[c].rev]_vars

\* A request that took or waits for a lock ends, in spite of the opposite lock
\* orders of the split and the connection handlers.
RequestsEnd ==
  \A c \in Client : pc[c] \in {"retire", "split", "connect", "disconnect"} ~> pc[c] = "idle"

\* "Nao e possivel remover o trecho pois existem conexoes opticas ativas em
\* suas fibras" (delete_cable_segment).
RetiredCarriesNoConnection ==
  [][\A s \in Segment :
       segs[s].status = "installed" /\ segs'[s].status = "retired" =>
         \A t \in EndsOf(s) : ~Taken(t)]_vars
=============================================================================
