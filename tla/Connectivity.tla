---------------------------- MODULE Connectivity ----------------------------
(* The fusion engine: create_connection, deactivate_connection and           *)
(* execute_batch_connections as database transactions that take row locks    *)
(* one statement at a time (READ COMMITTED, autoflush off).                  *)
(*                                                                           *)
(* What a transaction writes is kept in its own w.. variables and reaches    *)
(* the tables at Commit; a rollback forgets it.  A terminal's is_occupied    *)
(* column is written together with occupancy by every handler, so occ stands *)
(* for both.  The active endpoint rows of a connection change only together  *)
(* with connections.is_active, so the ends of an active connection stand for *)
(* them.                                                                     *)
EXTENDS Naturals, Sequences, FiniteSets

CONSTANTS
    Txn,            \* request slots: one database session each
    Terminal,       \* terminal ids; their order is the order of the UUIDs
    ConnId,         \* connection ids
    Structure,      \* structures (boxes)
    Site,           \* sites: terminals of devices housed outside a structure
    LocationOf,     \* the structure or site of each terminal
    Adapter,        \* {front, back} terminal pairs of one DIO port
    Request,        \* the calls that clients make
    None,
    MaxRevision     \* bound: no call begins once this revision is reached

Occupancy == {"free", "reserved", "connected"}
Op == [act : {"create", "release", "reserve", "disconnect", "connect"},
       a : Terminal, b : Terminal \cup {None}]
      \cup [act : {"deactivate"}, a : {None}, b : {None}]

(* structure is the payload's structure_id (None when absent), conn the      *)
(* connection of a deactivation.                                             *)
Requests == [kind : {"create", "deactivate", "batch"},
             structure : Structure \cup {None},
             conn : ConnId \cup {None},
             ops : Seq(Op)]

ASSUME TerminalAssumption == Terminal \subseteq Nat
ASSUME PlaceAssumption == /\ Structure \cap Site = {}
                          /\ LocationOf \in [Terminal -> Structure \cup Site]
ASSUME NoneAssumption == None \notin Terminal \cup ConnId \cup Structure \cup Txn
ASSUME BoundAssumption == MaxRevision \in Nat
ASSUME RequestAssumption ==
    /\ Request \subseteq Requests
    /\ \A r \in Request :
         /\ r.kind = "deactivate" => r.conn \in ConnId
         /\ r.kind = "batch" => r.structure \in Structure
         /\ \A i \in DOMAIN r.ops :
              /\ (r.ops[i].act = "deactivate") <=> (r.kind = "deactivate")
              /\ (r.ops[i].act = "create") <=> (r.kind = "create")

VARIABLES
    occ,        \* terminals.occupancy
    resv,       \* terminals that have an active terminal_reservations row
    conn,       \* connections, by id
    rev,        \* network_topology_state.topology_revision
    pc, req,    \* what each session executes
    seen,       \* the version or revision its client had read
    todo,       \* operations still to apply
    wOcc, wResv,\* what the session wrote to its terminals and reservations
    late,       \* reservations released and not flushed
    born, dead, \* connections the session inserted and deactivated
    locks,      \* rows it holds FOR UPDATE (or has updated)
    shares      \* structures it holds FOR KEY SHARE (a foreign-key insert)

tables  == <<occ, resv, conn, rev>>
session == <<wOcc, wResv, late, born, dead>>
vars == <<tables, pc, req, seen, todo, session, locks, shares>>

Row(table, id) == <<table, id>>
TopologyRow == Row("network_topology_state", None)
Ends(c) == {conn[c].a, conn[c].b}
NoConnection == [a |-> None, b |-> None, status |-> "none", version |-> 0]
Idle == [kind |-> "create", structure |-> None, conn |-> None, ops |-> <<>>]
NothingWritten == [x \in Terminal |-> "free"]

Init ==
    /\ occ = [x \in Terminal |-> "free"]
    /\ resv = {}
    /\ conn = [c \in ConnId |-> NoConnection]
    /\ rev = 1
    /\ pc = [t \in Txn |-> "idle"]
    /\ req = [t \in Txn |-> Idle]
    /\ seen = [t \in Txn |-> 0]
    /\ todo = [t \in Txn |-> <<>>]
    /\ wOcc = [t \in Txn |-> NothingWritten]
    /\ wResv = [t \in Txn |-> {}]
    /\ late = [t \in Txn |-> {}]
    /\ born = [t \in Txn |-> {}]
    /\ dead = [t \in Txn |-> {}]
    /\ locks = [t \in Txn |-> {}]
    /\ shares = [t \in Txn |-> {}]
-----------------------------------------------------------------------------
(* Locks.  An operator marked "fault" is a variant of the next definition   *)
(* with a plausible bug; the checks use it to show that they would notice.   *)

NoRowLock(t, r) == TRUE   \* fault: SELECT without FOR UPDATE
LockFree(t, r) == \A u \in Txn \ {t} : r \notin locks[u]
ShareFree(t, s) == LockFree(t, Row("structures", s))
ExclusiveFree(t, s) == ShareFree(t, s) /\ \A u \in Txn \ {t} : s \notin shares[u]

(* Terminals the handler locks: the ends of the connection it deactivates,   *)
(* or every terminal its operations name.                                    *)
TermsOf(t) ==
    IF req[t].kind = "deactivate" THEN Ends(req[t].conn)
    ELSE {req[t].ops[i].a : i \in DOMAIN req[t].ops}
         \cup ({req[t].ops[i].b : i \in DOMAIN req[t].ops} \ {None})

Missing(t) == {x \in TermsOf(t) : Row("terminals", x) \notin locks[t]}

(* ORDER BY id FOR UPDATE: rows are locked in ascending order. *)
AnyTerminal(t, x) == x \in Missing(t)   \* fault: no ORDER BY id
NextTerminal(t, x) == x \in Missing(t) /\ \A y \in Missing(t) : x <= y

(* Connections as the session sees them: committed ones and its own. *)
Live(t) == {c \in ConnId : conn[c].status = "active" \/ c \in born[t]} \ dead[t]
On(t, x) == {c \in Live(t) : x \in Ends(c)}

(* A flush writes the pending connection updates first, so it needs the rows *)
(* of the connections deactivated so far.                                    *)
Flushed(t) == {Row("connections", c) : c \in dead[t] \ born[t]}
FlushFree(t) == \A r \in Flushed(t) : LockFree(t, r)

(* The structure a new connection refers to. *)
StructureFor(t, op) ==
    IF req[t].structure # None THEN {req[t].structure}
    ELSE {LocationOf[op.a]} \cap Structure
-----------------------------------------------------------------------------
(* Beginning a call and taking the locks *)

(* Distinct terminals are required before the database is touched.  The      *)
(* client fills in the version or revision it has read: others may commit    *)
(* between this step and the check.                                          *)
Begin(t, r) ==
    /\ pc[t] = "idle"
    /\ rev < MaxRevision
    /\ \A i \in DOMAIN r.ops : r.ops[i].a # r.ops[i].b \/ r.ops[i].b = None
    /\ req' = [req EXCEPT ![t] = r]
    /\ todo' = [todo EXCEPT ![t] = r.ops]
    /\ \/ r.kind = "create" /\ pc' = [pc EXCEPT ![t] = "terminals"]
                            /\ UNCHANGED seen
       \/ r.kind = "deactivate" /\ pc' = [pc EXCEPT ![t] = "row"]
                                /\ conn[r.conn].status \in {"active", "inactive"}
                                /\ seen' = [seen EXCEPT ![t] = conn[r.conn].version]
       \/ r.kind = "batch" /\ pc' = [pc EXCEPT ![t] = "structure"]
                           /\ seen' = [seen EXCEPT ![t] = rev]
    /\ UNCHANGED <<tables, session, locks, shares>>

Lock(t, rows, next) ==
    /\ locks' = [locks EXCEPT ![t] = @ \cup rows]
    /\ pc' = [pc EXCEPT ![t] = next]
    /\ UNCHANGED <<tables, req, seen, todo, session, shares>>

(* SELECT connection FOR UPDATE, then is_active and If-Match. *)
AnyRow(t) == TRUE   \* fault: is_active and version not looked at
RowAccepted(t) == /\ conn[req[t].conn].status = "active"
                  /\ conn[req[t].conn].version = seen[t]

LockConnection(t) ==
    /\ pc[t] = "row"
    /\ LockFree(t, Row("connections", req[t].conn))
    /\ RowAccepted(t)
    /\ Lock(t, {Row("connections", req[t].conn)}, "terminals")

LockStructure(t) ==
    /\ pc[t] = "structure"
    /\ ExclusiveFree(t, req[t].structure)
    /\ Lock(t, {Row("structures", req[t].structure)}, "revision")

(* The revision is read without locking network_topology_state. *)
CheckRevision(t) ==
    /\ pc[t] = "revision"
    /\ seen[t] = rev
    /\ Lock(t, {}, "terminals")

LockTerminal(t) ==
    /\ pc[t] = "terminals"
    /\ \E x \in Missing(t) :
         /\ NextTerminal(t, x)
         /\ LockFree(t, Row("terminals", x))
         /\ Lock(t, {Row("terminals", x)}, "terminals")

(* All rows are locked and loaded; a batch accepts only terminals of its     *)
(* structure.                                                                *)
Located(t) == req[t].kind = "batch" =>
                \A x \in TermsOf(t) : LocationOf[x] = req[t].structure

StartBody(t) ==
    /\ pc[t] = "terminals"
    /\ Missing(t) = {}
    /\ Located(t)
    /\ pc' = [pc EXCEPT ![t] = "body"]
    /\ wOcc' = [wOcc EXCEPT ![t] = occ]
    /\ wResv' = [wResv EXCEPT ![t] = resv]
    /\ UNCHANGED <<tables, req, seen, todo, late, born, dead, locks, shares>>
-----------------------------------------------------------------------------
(* The operations *)

Next1(t) == todo' = [todo EXCEPT ![t] = Tail(@)]
Doing(t, act) == pc[t] = "body" /\ todo[t] # <<>> /\ Head(todo[t]).act = act

SameLocation(t, op) ==
    IF req[t].structure # None
    THEN LocationOf[op.a] = req[t].structure /\ LocationOf[op.b] = req[t].structure
    ELSE LocationOf[op.a] = LocationOf[op.b]

ConnectReserved(t, op) ==   \* fault: only "connected" counts as occupied
    /\ op.b # None
    /\ {op.a, op.b} \notin Adapter
    /\ wOcc[t][op.a] # "connected" /\ wOcc[t][op.b] # "connected"

Connectable(t, op) ==
    /\ op.b # None
    /\ {op.a, op.b} \notin Adapter
    /\ wOcc[t][op.a] = "free" /\ wOcc[t][op.b] = "free"

CreateAllowed(t, op) ==
    /\ SameLocation(t, op)
    /\ Connectable(t, op)
    /\ {op.a, op.b} \cap wResv[t] = {}

(* db.flush() of the connection and its two endpoints.  The foreign key of   *)
(* the new row takes a key-share lock on its structure.                      *)
Insert(t, op) ==
    /\ FlushFree(t)
    /\ \A s \in StructureFor(t, op) : ShareFree(t, s)
    /\ shares' = [shares EXCEPT ![t] = @ \cup StructureFor(t, op)]
    /\ locks' = [locks EXCEPT ![t] = @ \cup Flushed(t)]
    /\ \E c \in ConnId :
         /\ conn[c].status = "none"
         /\ conn' = [conn EXCEPT ![c] = [a |-> op.a, b |-> op.b,
                                         status |-> "pending", version |-> 1]]
         /\ born' = [born EXCEPT ![t] = @ \cup {c}]
    /\ wOcc' = [wOcc EXCEPT ![t][op.a] = "connected", ![t][op.b] = "connected"]
    /\ late' = [late EXCEPT ![t] = {}]
    /\ Next1(t)
    /\ UNCHANGED <<occ, resv, rev, pc, req, seen, wResv, dead>>

CreateConnection(t) ==
    /\ Doing(t, "create")
    /\ CreateAllowed(t, Head(todo[t]))
    /\ Insert(t, Head(todo[t]))

Connect(t) ==
    /\ Doing(t, "connect")
    /\ Connectable(t, Head(todo[t]))
    /\ Insert(t, Head(todo[t]))

(* A terminal is freed only when no other active connection ends there. *)
DeactivateConnection(t) ==
    LET c == req[t].conn
        freed == {x \in Ends(c) : On(t, x) \ {c} = {}}
    IN  /\ Doing(t, "deactivate")
        /\ dead' = [dead EXCEPT ![t] = @ \cup {c}]
        /\ wOcc' = [wOcc EXCEPT ![t] =
                      [x \in Terminal |-> IF x \in freed THEN "free" ELSE @[x]]]
        /\ Next1(t)
        /\ UNCHANGED <<tables, pc, req, seen, wResv, late, born, locks, shares>>

(* The query still returns a reservation whose release was not flushed. *)
ReleaseAllowed(t, x) == x \in wResv[t] \cup late[t] \/ wOcc[t][x] = "reserved"

Release(t) ==
    LET x == Head(todo[t]).a
    IN  /\ Doing(t, "release")
        /\ ReleaseAllowed(t, x)
        /\ late' = [late EXCEPT ![t] = @ \cup (wResv[t] \cap {x})]
        /\ wResv' = [wResv EXCEPT ![t] = @ \ {x}]
        /\ wOcc' = [wOcc EXCEPT ![t][x] = "free"]
        /\ Next1(t)
        /\ UNCHANGED <<tables, pc, req, seen, born, dead, locks, shares>>

ReserveConnected(t, x) == wOcc[t][x] # "reserved"   \* fault
ReserveAllowed(t, x) == wOcc[t][x] = "free"

Reserve(t) ==
    LET x == Head(todo[t]).a
    IN  /\ Doing(t, "reserve")
        /\ ReserveAllowed(t, x)
        /\ FlushFree(t)
        /\ locks' = [locks EXCEPT ![t] = @ \cup Flushed(t)]
        /\ late' = [late EXCEPT ![t] = {}]
        /\ wResv' = [wResv EXCEPT ![t] = @ \cup {x}]
        /\ wOcc' = [wOcc EXCEPT ![t][x] = "reserved"]
        /\ Next1(t)
        /\ UNCHANGED <<tables, pc, req, seen, born, dead, shares>>

(* The named connection is found through its active endpoint; the other end  *)
(* is freed only when the batch locked it too.                               *)
DisconnectAllowed(t, op) ==
    \E c \in On(t, op.a) : op.b = None \/ op.b \in Ends(c)

FreeNamedOnly(t, op, c) == {op.a}   \* fault: the other end is forgotten
DisconnectFrees(t, op, c) == {op.a} \cup (Ends(c) \cap TermsOf(t))

Disconnect(t) ==
    LET op == Head(todo[t])
    IN  /\ Doing(t, "disconnect")
        /\ \E c \in On(t, op.a) :
             /\ op.b = None \/ op.b \in Ends(c)
             /\ dead' = [dead EXCEPT ![t] = @ \cup {c}]
             /\ wOcc' = [wOcc EXCEPT ![t] =
                  [x \in Terminal |-> IF x \in DisconnectFrees(t, op, c)
                                      THEN "free" ELSE @[x]]]
        /\ Next1(t)
        /\ UNCHANGED <<tables, pc, req, seen, wResv, late, born, locks, shares>>
-----------------------------------------------------------------------------
(* The end of a call *)

(* bump_topology_revision: the UPDATE locks the row until the commit. *)
Bump(t) ==
    /\ pc[t] = "body"
    /\ todo[t] = <<>>
    /\ LockFree(t, TopologyRow)
    /\ Lock(t, {TopologyRow}, "commit")

Finish(t) ==
    /\ pc' = [pc EXCEPT ![t] = "idle"]
    /\ req' = [req EXCEPT ![t] = Idle]
    /\ seen' = [seen EXCEPT ![t] = 0]
    /\ todo' = [todo EXCEPT ![t] = <<>>]
    /\ wOcc' = [wOcc EXCEPT ![t] = NothingWritten]
    /\ wResv' = [wResv EXCEPT ![t] = {}]
    /\ late' = [late EXCEPT ![t] = {}]
    /\ born' = [born EXCEPT ![t] = {}]
    /\ dead' = [dead EXCEPT ![t] = {}]
    /\ shares' = [shares EXCEPT ![t] = {}]

KeepLocks(t) == UNCHANGED locks   \* fault: the session is never closed
ReleaseLocks(t) == locks' = [locks EXCEPT ![t] = {}]

(* What the commit makes visible.  The final flush writes the rows of the    *)
(* deactivated connections (version + 1).                                    *)
CommittedAsRemoved(t) ==   \* fault: a status the schema does not know
    [c \in ConnId |->
       IF c \in dead[t] THEN [conn[c] EXCEPT !.status = "removed"]
       ELSE IF c \in born[t] THEN [conn[c] EXCEPT !.status = "active"] ELSE conn[c]]
Committed(t) ==
    [c \in ConnId |->
       IF c \in dead[t]
       THEN [conn[c] EXCEPT !.status = "inactive", !.version = @ + 1]
       ELSE IF c \in born[t] THEN [conn[c] EXCEPT !.status = "active"] ELSE conn[c]]

NoBump == rev   \* fault: bump_topology_revision forgotten
NewRevision == rev + 1

Commit(t) ==
    /\ pc[t] = "commit"
    /\ FlushFree(t)
    /\ occ' = [x \in Terminal |-> IF x \in TermsOf(t) THEN wOcc[t][x] ELSE occ[x]]
    /\ resv' = (resv \ TermsOf(t)) \cup (wResv[t] \cap TermsOf(t))
    /\ conn' = Committed(t)
    /\ rev' = NewRevision
    /\ Finish(t)
    /\ ReleaseLocks(t)

(* The session is closed without a commit: inserted rows vanish. *)
Rollback(t) ==
    /\ conn' = [c \in ConnId |-> IF c \in born[t] THEN NoConnection ELSE conn[c]]
    /\ UNCHANGED <<occ, resv, rev>>
    /\ Finish(t)
    /\ ReleaseLocks(t)

OpRefused(t) ==
    LET op == Head(todo[t])
    IN  \/ Doing(t, "create") /\ ~CreateAllowed(t, op)
        \/ Doing(t, "connect") /\ ~Connectable(t, op)
        \/ Doing(t, "release") /\ ~ReleaseAllowed(t, op.a)
        \/ Doing(t, "reserve") /\ ~ReserveAllowed(t, op.a)
        \/ Doing(t, "disconnect") /\ ~DisconnectAllowed(t, op)

(* 404, 409 and 412 answers raised while the session holds locks. *)
Refuse(t) ==
    /\ \/ /\ pc[t] = "row"
          /\ LockFree(t, Row("connections", req[t].conn))
          /\ ~RowAccepted(t)
       \/ pc[t] = "revision" /\ seen[t] # rev
       \/ pc[t] = "terminals" /\ Missing(t) = {} /\ ~Located(t)
       \/ OpRefused(t)
    /\ Rollback(t)

(* Rows the next statement of t waits for, and who holds them. *)
Structures(t) == {Row("structures", s) : s \in StructureFor(t, Head(todo[t]))}

NextLocks(t) ==
    CASE pc[t] = "row" -> {Row("connections", req[t].conn)}
      [] pc[t] = "structure" -> {Row("structures", req[t].structure)}
      [] pc[t] = "terminals" -> {Row("terminals", x) : x \in {y \in Missing(t) : NextTerminal(t, y)}}
      [] pc[t] = "body" /\ todo[t] = <<>> -> {TopologyRow}
      [] Doing(t, "create") \/ Doing(t, "connect") -> Flushed(t) \cup Structures(t)
      [] Doing(t, "reserve") \/ pc[t] = "commit" -> Flushed(t)
      [] OTHER -> {}

Blockers(t) ==
    {u \in Txn \ {t} : \/ NextLocks(t) \cap locks[u] # {}
                       \/ pc[t] = "structure" /\ req[t].structure \in shares[u]}

(* A set of sessions each of which waits for another of the set. *)
Deadlocked(S) == S # {} /\ \A t \in S : Blockers(t) \cap S # {}

(* PostgreSQL's deadlock detector aborts one of them (a 500 answer). *)
DeadlockVictim(t) ==
    /\ \E S \in SUBSET Txn : t \in S /\ Deadlocked(S)
    /\ Rollback(t)

(* statement_timeout, a lost connection or the death of the API process. *)
LoseSession(t) == pc[t] # "idle" /\ Rollback(t)

Step(t) == \/ LockConnection(t) \/ LockStructure(t) \/ CheckRevision(t)
           \/ LockTerminal(t) \/ StartBody(t)
           \/ CreateConnection(t) \/ DeactivateConnection(t)
           \/ Release(t) \/ Reserve(t) \/ Disconnect(t) \/ Connect(t)
           \/ Bump(t) \/ Commit(t) \/ Refuse(t)

Move(t) == \/ \E r \in Request : Begin(t, r)
           \/ Step(t)
           \/ DeadlockVictim(t)
           \/ LoseSession(t)

Next == \E t \in Txn : Move(t)

Spec == Init /\ [][Next]_vars

(* A handler runs to its end.  PostgreSQL queues the waiters of a row, so a  *)
(* statement whose row is free again and again gets it, and its detector     *)
(* breaks every wait cycle.                                                  *)
Fairness == \A t \in Txn : SF_vars(Step(t)) /\ WF_vars(DeadlockVictim(t))
FairSpec == Spec /\ Fairness
-----------------------------------------------------------------------------
(* Properties *)

Active(c) == conn[c].status = "active"
Tables == {"terminals", "connections", "structures", "network_topology_state"}
Ids == Terminal \cup ConnId \cup Structure \cup {None}

(* The columns and the session states keep their domains: a terminal has one *)
(* of the three occupancies the schema allows.                               *)
TypeOK ==
    /\ occ \in [Terminal -> Occupancy]
    /\ resv \subseteq Terminal
    /\ conn \in [ConnId -> [a : Terminal \cup {None}, b : Terminal \cup {None},
                            status : {"none", "pending", "active", "inactive"},
                            version : Nat]]
    /\ rev \in Nat
    /\ pc \in [Txn -> {"idle", "row", "structure", "revision", "terminals",
                       "body", "commit"}]
    /\ req \in [Txn -> Request \cup {Idle}]
    /\ seen \in [Txn -> Nat]
    /\ todo \in [Txn -> Seq(Op)]
    /\ wOcc \in [Txn -> [Terminal -> Occupancy]]
    /\ wResv \in [Txn -> SUBSET Terminal]
    /\ late \in [Txn -> SUBSET Terminal]
    /\ born \in [Txn -> SUBSET ConnId]
    /\ dead \in [Txn -> SUBSET ConnId]
    /\ locks \in [Txn -> SUBSET (Tables \X Ids)]
    /\ shares \in [Txn -> SUBSET Structure]

(* A terminal is in at most one active connection.  The handlers get there   *)
(* by row locks alone: the IntegrityError branches of create_connection and  *)
(* execute_batch_connections (the partial unique index) are never needed.    *)
Exclusive ==
    \A c, d \in ConnId : Active(c) /\ Active(d) /\ c # d => Ends(c) \cap Ends(d) = {}

(* Both ends of an active connection are marked connected, whatever the      *)
(* order in which create, deactivate and batch transactions commit: no       *)
(* terminal is freed or reserved under a live connection.                    *)
LinkedMeansConnected ==
    \A c \in ConnId : Active(c) => \A x \in Ends(c) : x \in Terminal /\ occ[x] = "connected"

(* terminals.occupancy and the terminal_reservations rows, two records of    *)
(* one fact that batches write at different moments, agree after every       *)
(* commit.                                                                   *)
ReservedMeansReservation ==
    \A x \in Terminal : occ[x] = "reserved" <=> x \in resv

(* A terminal marked connected has an active connection: nothing is blocked  *)
(* for ever by a connection that no longer exists ("Liberar ambos os         *)
(* terminais da conexão", DISCONNECT branch of the batch).                   *)
ConnectedMeansLinked ==
    \A x \in Terminal : occ[x] = "connected" => \E c \in ConnId : Active(c) /\ x \in Ends(c)

(* What a terminal's occupancy says, another row says too: a reservation or  *)
(* an active connection, never neither.  No order in which batches, creates  *)
(* and disconnections commit leaves a terminal blocked by nothing.           *)
OccupancyHasItsRecord == ReservedMeansReservation /\ ConnectedMeansLinked

(* No set of sessions waits for one another: the deterministic lock order of *)
(* the handlers excludes deadlocks.                                          *)
NoDeadlock == \A S \in SUBSET Txn : ~Deadlocked(S)

(* A deactivated connection is history: it is never deactivated again, by    *)
(* whichever of two concurrent disconnections comes second.                  *)
HistoryKept ==
    [][\A c \in ConnId : conn[c].status = "inactive" => conn'[c] = conn[c]]_vars

(* Every call is answered: no session keeps its locks, or waits, for ever.   *)
Terminates == \A t \in Txn : pc[t] # "idle" ~> pc[t] = "idle"

(* The engine implements the abstract patch panel: the active connections    *)
(* are a matching, and whatever changes them, one call or a whole batch, is  *)
(* a single step that increments the topology revision.                      *)
Wiring == {Ends(c) : c \in {d \in ConnId : Active(d)}}
Panel == INSTANCE PatchPanel WITH links <- Wiring, revision <- rev
PanelSpec == Panel!Spec
-----------------------------------------------------------------------------
(* The inductive invariant behind Exclusive, LinkedMeansConnected and        *)
(* ReservedMeansReservation.                                                 *)

Writing(t) == pc[t] \in {"body", "commit"}

(* Row locks exclude each other, and whoever writes has locked every         *)
(* terminal of its call.                                                     *)
LockInv ==
    /\ \A t, u \in Txn : t # u => locks[t] \cap locks[u] = {}
    /\ \A t \in Txn : Writing(t) => Missing(t) = {}

(* A deactivation that waits for its terminals holds the connection's row,   *)
(* so the connection is still active.                                        *)
RowInv ==
    \A t \in Txn : pc[t] = "terminals" /\ req[t].kind = "deactivate" =>
      /\ Row("connections", req[t].conn) \in locks[t]
      /\ conn[req[t].conn].status = "active"

(* What a session still has to do belongs to its call. *)
Plan == \A t \in Txn : \A i \in DOMAIN todo[t] :
          \E j \in DOMAIN req[t].ops : todo[t][i] = req[t].ops[j]

(* What a session inserted is its own and uncommitted, and what it deactivates *)
(* was committed or its own.                                                 *)
Pending == \A t \in Txn : \A c \in born[t] : conn[c].status = "pending"
Own == \A t, u \in Txn : t # u => born[t] \cap born[u] = {}

SessionOK(t) ==
    /\ pc[t] # "idle" => req[t] \in Request
    /\ ~Writing(t) => born[t] = {} /\ dead[t] = {} /\ late[t] = {}
    /\ pc[t] = "row" => req[t].kind = "deactivate"
    /\ pc[t] \in {"structure", "revision"} => req[t].kind = "batch"
    /\ req[t].kind = "deactivate" => conn[req[t].conn].status \in {"active", "inactive"}
    /\ \A c \in born[t] : Ends(c) \subseteq TermsOf(t) \cap Terminal
    /\ \A c \in dead[t] : conn[c].status \in {"active", "inactive"} \/ c \in born[t]

SessionInv == Pending /\ Own /\ \A t \in Txn : SessionOK(t)

(* The same three facts in the state a writing session sees, as far as its   *)
(* locked terminals go.                                                      *)
ViewOK(t) ==
    /\ \A c \in Live(t) : \A x \in Ends(c) \cap TermsOf(t) : wOcc[t][x] = "connected"
    /\ \A c, d \in Live(t) : c # d => Ends(c) \cap Ends(d) \cap TermsOf(t) = {}
    /\ \A x \in TermsOf(t) \cap Terminal :
         /\ wOcc[t][x] = "reserved" <=> x \in wResv[t]
         /\ x \in late[t] => wOcc[t][x] = "free"
         /\ req[t].kind = "deactivate" => wOcc[t][x] # "reserved"

ViewInv == \A t \in Txn : Writing(t) => ViewOK(t)

(* A connection joins two distinct terminals, as every call under way asks. *)
DistinctInv ==
    /\ \A c \in ConnId : conn[c].status # "none" => conn[c].a # conn[c].b
    /\ \A t \in Txn : \A j \in DOMAIN req[t].ops :
         req[t].ops[j].a # req[t].ops[j].b \/ req[t].ops[j].b = None

Inductive == TypeOK /\ Plan /\ LockInv /\ RowInv /\ SessionInv
             /\ ViewInv /\ DistinctInv
             /\ Exclusive /\ LinkedMeansConnected /\ ReservedMeansReservation
=============================================================================
