------------------------- MODULE ConnectivityProofs -------------------------
(* The safety of the fusion engine for every set of sessions, terminals,     *)
(* connections and requests.                                                 *)
EXTENDS Connectivity, FiniteSetTheorems, WellFoundedInduction, TLAPS

(* The first operation still to do is one, and the rest are operations too.  *)
LEMMA HeadTail ==
    ASSUME NEW q \in Seq(Op), q # <<>>
    PROVE  Head(q) \in Op /\ Tail(q) \in Seq(Op)
OBVIOUS

(* The empty database has the columns and session states of the types.       *)
LEMMA InitTyped == Init => TypeOK
<1>1. Idle \in Request \cup {Idle} OBVIOUS
<1>2. NothingWritten \in [Terminal -> Occupancy] BY DEF NothingWritten, Occupancy
<1>. QED BY <1>1, <1>2 DEF Init, TypeOK, Occupancy, NoConnection, Idle

(* A call is well formed, whether it is under way or the idle record.        *)
LEMMA RequestTyped ==
    ASSUME TypeOK, NEW t \in Txn
    PROVE  /\ req[t].structure \in Structure \cup {None}
           /\ req[t].conn \in ConnId \cup {None}
           /\ req[t].ops \in Seq(Op)
           /\ req[t].kind = "deactivate" => req[t].conn \in ConnId
<1>1. req[t] \in Request \cup {Idle} BY DEF TypeOK
<1>2. CASE req[t] \in Request
  BY <1>2, RequestAssumption DEF Requests
<1>3. CASE req[t] = Idle
  BY <1>3 DEF Idle
<1>. QED BY <1>1, <1>2, <1>3

(* The operation at hand belongs to the call, so a deactivation step is one  *)
(* of a deactivation call.                                                   *)
LEMMA Current ==
    ASSUME TypeOK, Plan, NEW t \in Txn, NEW act, Doing(t, act)
    PROVE  /\ Head(todo[t]) \in Op
           /\ Tail(todo[t]) \in Seq(Op)
           /\ req[t] \in Request
           /\ \E j \in DOMAIN req[t].ops : Head(todo[t]) = req[t].ops[j]
           /\ act = "deactivate" <=> req[t].kind = "deactivate"
           /\ act = "create" <=> req[t].kind = "create"
<1>1. todo[t] \in Seq(Op) /\ todo[t] # <<>> BY DEF Doing, TypeOK
<1>2. 1 \in DOMAIN todo[t] /\ Head(todo[t]) = todo[t][1] BY <1>1
<1>3. PICK j \in DOMAIN req[t].ops : Head(todo[t]) = req[t].ops[j]
  BY <1>2 DEF Plan
<1>4. req[t] \in Request
  BY <1>3 DEF TypeOK, Idle
<1>. QED BY <1>1, <1>3, <1>4, HeadTail, RequestAssumption DEF Doing

(* A call names terminals of the plant.                                      *)
LEMMA TermsTyped ==
    ASSUME TypeOK, NEW t \in Txn
    PROVE  TermsOf(t) \subseteq Terminal \cup {None}
<1>1. CASE req[t].kind = "deactivate"
  BY <1>1, RequestTyped DEF TermsOf, Ends, TypeOK
<1>2. CASE req[t].kind # "deactivate"
  <2>1. \A i \in DOMAIN req[t].ops : req[t].ops[i] \in Op
    BY RequestTyped
  <2>. QED BY <1>2, <2>1 DEF TermsOf, Op
<1>. QED BY <1>1, <1>2

(* A rollback keeps the types.                                               *)
LEMMA RollbackTyped ==
    ASSUME TypeOK, NEW t \in Txn, Rollback(t)
    PROVE  TypeOK'
<1>1. NothingWritten \in [Terminal -> Occupancy] BY DEF NothingWritten, Occupancy
<1>2. NoConnection \in [a : Terminal \cup {None}, b : Terminal \cup {None},
                        status : {"none", "pending", "active", "inactive"}, version : Nat]
  BY DEF NoConnection
<1>. QED BY <1>1, <1>2 DEF TypeOK, Rollback, Finish, ReleaseLocks

(* Every step keeps the columns and session states in their domains.         *)
LEMMA TypeStep == TypeOK /\ Plan /\ [Next]_vars => TypeOK'
<1>. SUFFICES ASSUME TypeOK, Plan, [Next]_vars PROVE TypeOK'
  OBVIOUS
<1>1. CASE UNCHANGED vars
  BY <1>1 DEF TypeOK, vars, tables, session
<1>2. ASSUME NEW t \in Txn, NEW r \in Request, Begin(t, r) PROVE TypeOK'
  <2>1. r.ops \in Seq(Op) BY RequestAssumption DEF Requests
  <2>2. seen' \in [Txn -> Nat]
    BY <1>2, RequestAssumption DEF Begin, TypeOK
  <2>3. pc' \in [Txn -> {"idle", "row", "structure", "revision", "terminals",
                         "body", "commit"}]
    BY <1>2 DEF Begin, TypeOK
  <2>4. req' \in [Txn -> Request \cup {Idle}] /\ todo' \in [Txn -> Seq(Op)]
    BY <1>2, <2>1 DEF Begin, TypeOK
  <2>. QED BY <1>2, <2>2, <2>3, <2>4 DEF Begin, TypeOK, tables, session
<1>3. ASSUME NEW t \in Txn, NEW rows \in SUBSET (Tables \X Ids),
             NEW next \in {"revision", "terminals", "commit"}, Lock(t, rows, next)
      PROVE  TypeOK'
  BY <1>3 DEF Lock, TypeOK, tables, session
<1>4. ASSUME NEW t \in Txn, LockConnection(t) PROVE TypeOK'
  <2>1. {Row("connections", req[t].conn)} \in SUBSET (Tables \X Ids)
    BY RequestTyped DEF Row, Tables, Ids
  <2>. QED BY <1>3, <1>4, <2>1 DEF LockConnection
<1>5. ASSUME NEW t \in Txn, LockStructure(t) PROVE TypeOK'
  <2>1. {Row("structures", req[t].structure)} \in SUBSET (Tables \X Ids)
    BY RequestTyped DEF Row, Tables, Ids
  <2>. QED BY <1>3, <1>5, <2>1 DEF LockStructure
<1>6. ASSUME NEW t \in Txn, CheckRevision(t) PROVE TypeOK'
  BY <1>3, <1>6 DEF CheckRevision
<1>7. ASSUME NEW t \in Txn, LockTerminal(t) PROVE TypeOK'
  <2>1. ASSUME NEW x \in Missing(t)
        PROVE  {Row("terminals", x)} \in SUBSET (Tables \X Ids)
    BY TermsTyped DEF Missing, Row, Tables, Ids
  <2>. QED BY <1>3, <1>7, <2>1 DEF LockTerminal
<1>8. ASSUME NEW t \in Txn, StartBody(t) PROVE TypeOK'
  BY <1>8 DEF StartBody, TypeOK, tables
<1>10. ASSUME NEW t \in Txn PROVE Flushed(t) \subseteq Tables \X Ids
  BY DEF Flushed, Row, Tables, Ids, TypeOK
<1>11. ASSUME NEW t \in Txn, NEW op \in Op, Insert(t, op), op.a \in Terminal,
              Tail(todo[t]) \in Seq(Op)
       PROVE  TypeOK'
  <2>1. StructureFor(t, op) \subseteq Structure
    BY RequestTyped DEF StructureFor
  <2>2. op.a \in Terminal \cup {None} /\ op.b \in Terminal \cup {None}
    BY DEF Op
  <2>3. PICK c \in ConnId :
          /\ conn' = [conn EXCEPT ![c] = [a |-> op.a, b |-> op.b,
                                           status |-> "pending", version |-> 1]]
          /\ born' = [born EXCEPT ![t] = @ \cup {c}]
    BY <1>11 DEF Insert
  <2>4. wOcc' \in [Txn -> [Terminal -> Occupancy]]
    BY <1>11 DEF Insert, TypeOK, Occupancy
  <2>. QED BY <1>10, <1>11, <2>1, <2>2, <2>3, <2>4 DEF Insert, TypeOK, Next1
<1>12. ASSUME NEW t \in Txn, CreateConnection(t) \/ Connect(t) PROVE TypeOK'
  BY Current, <1>11, <1>12 DEF CreateConnection, Connect, Doing, Op
<1>13. ASSUME NEW t \in Txn, DeactivateConnection(t) PROVE TypeOK'
  <2>1. req[t].conn \in ConnId
    BY Current, <1>13, RequestTyped DEF DeactivateConnection
  <2>. QED BY Current, <1>13, <2>1 DEF DeactivateConnection, TypeOK, Next1, Occupancy, tables
<1>14. ASSUME NEW t \in Txn, Release(t) PROVE TypeOK'
  BY Current, <1>14 DEF Release, TypeOK, Next1, Occupancy, tables
<1>15. ASSUME NEW t \in Txn, Reserve(t) PROVE TypeOK'
  <2>1. Head(todo[t]).a \in Terminal
    BY Current, <1>15 DEF Reserve, Doing, Op
  <2>. QED BY Current, <1>10, <1>15, <2>1 DEF Reserve, TypeOK, Next1, Occupancy, tables
<1>16. ASSUME NEW t \in Txn, Disconnect(t) PROVE TypeOK'
  BY Current, <1>16 DEF Disconnect, TypeOK, Next1, Occupancy, tables, On, Live
<1>17. ASSUME NEW t \in Txn, Bump(t) PROVE TypeOK'
  <2>1. {TopologyRow} \in SUBSET (Tables \X Ids)
    BY DEF TopologyRow, Row, Tables, Ids
  <2>. QED BY <1>3, <1>17, <2>1 DEF Bump
<1>18. ASSUME NEW t \in Txn, Commit(t) PROVE TypeOK'
  <2>1. NothingWritten \in [Terminal -> Occupancy] BY DEF NothingWritten, Occupancy
  <2>2. Committed(t) \in [ConnId -> [a : Terminal \cup {None}, b : Terminal \cup {None},
                            status : {"none", "pending", "active", "inactive"},
                            version : Nat]]
    <3>1. ASSUME NEW c \in ConnId
          PROVE  Committed(t)[c] \in [a : Terminal \cup {None}, b : Terminal \cup {None},
                            status : {"none", "pending", "active", "inactive"},
                            version : Nat]
      <4>1. conn[c] \in [a : Terminal \cup {None}, b : Terminal \cup {None},
                         status : {"none", "pending", "active", "inactive"},
                         version : Nat]
        BY DEF TypeOK
      <4>2. conn[c].version + 1 \in Nat BY <4>1
      <4>. QED BY <4>1, <4>2 DEF Committed
    <3>. QED BY <3>1 DEF Committed
  <2>. QED BY <1>18, <2>1, <2>2 DEF Commit, NewRevision, Finish, ReleaseLocks, TypeOK
<1>19. ASSUME NEW t \in Txn, Rollback(t) PROVE TypeOK'
  BY <1>19, RollbackTyped
<1>. QED
  BY <1>1, <1>2, <1>4, <1>5, <1>6, <1>7, <1>8, <1>12, <1>13, <1>14, <1>15, <1>16,
     <1>17, <1>18, <1>19 DEF Next, Move, Step, Refuse, DeadlockVictim, LoseSession

(* A move of one session leaves the variables of the others alone.           *)
LEMMA Frame ==
    ASSUME TypeOK, NEW t \in Txn, Move(t), NEW u \in Txn \ {t}
    PROVE  /\ pc'[u] = pc[u] /\ req'[u] = req[u] /\ todo'[u] = todo[u]
           /\ wOcc'[u] = wOcc[u] /\ wResv'[u] = wResv[u] /\ late'[u] = late[u]
           /\ born'[u] = born[u] /\ dead'[u] = dead[u] /\ locks'[u] = locks[u]
<1>1. ASSUME NEW r \in Request, Begin(t, r) PROVE UNCHANGED <<session, locks>>
      /\ pc'[u] = pc[u] /\ req'[u] = req[u] /\ todo'[u] = todo[u]
  BY <1>1 DEF Begin, TypeOK
<1>2. CASE Rollback(t)
  BY <1>2 DEF Rollback, Finish, ReleaseLocks, TypeOK
<1>3. CASE Commit(t)
  BY <1>3 DEF Commit, NewRevision, Finish, ReleaseLocks, TypeOK
<1>4. ASSUME NEW rows, NEW next, Lock(t, rows, next)
      PROVE  /\ pc'[u] = pc[u] /\ locks'[u] = locks[u]
             /\ UNCHANGED <<req, todo, session>>
  BY <1>4 DEF Lock, TypeOK
<1>5. CASE StartBody(t)
  BY <1>5 DEF StartBody, TypeOK
<1>6. ASSUME NEW op, Insert(t, op)
      PROVE  /\ UNCHANGED <<pc, req, wResv, dead>>
             /\ todo'[u] = todo[u] /\ locks'[u] = locks[u] /\ wOcc'[u] = wOcc[u]
             /\ late'[u] = late[u] /\ born'[u] = born[u]
  BY <1>6 DEF Insert, Next1, TypeOK
<1>7. CASE DeactivateConnection(t)
  BY <1>7 DEF DeactivateConnection, Next1, TypeOK
<1>8. CASE Release(t)
  BY <1>8 DEF Release, Next1, TypeOK
<1>9. CASE Reserve(t)
  BY <1>9 DEF Reserve, Next1, TypeOK
<1>10. CASE Disconnect(t)
  BY <1>10 DEF Disconnect, Next1, TypeOK
<1>11. CASE LockConnection(t) \/ LockStructure(t) \/ CheckRevision(t) \/ LockTerminal(t) \/ Bump(t)
  BY <1>4, <1>11 DEF LockConnection, LockStructure, CheckRevision, LockTerminal, Bump, session
<1>12. CASE CreateConnection(t) \/ Connect(t)
  BY <1>6, <1>12 DEF CreateConnection, Connect
<1>. QED
  BY <1>1, <1>2, <1>3, <1>5, <1>7, <1>8, <1>9, <1>10, <1>11, <1>12
     DEF Move, Step, Refuse, DeadlockVictim, LoseSession, session

(* What a session still has to do stays part of its call.                    *)
LEMMA PlanStep == TypeOK /\ Plan /\ [Next]_vars => Plan'
<1>. SUFFICES ASSUME TypeOK, Plan, [Next]_vars PROVE Plan'
  OBVIOUS
<1>1. CASE UNCHANGED vars
  BY <1>1 DEF Plan, vars
<1>2. ASSUME NEW t \in Txn, Move(t) PROVE Plan'
  <2>1. CASE todo'[t] = todo[t] /\ req'[t] = req[t]
    BY <1>2, <2>1, Frame DEF Plan
  <2>2. CASE todo'[t] = <<>>
    BY <1>2, <2>2, Frame DEF Plan
  <2>3. CASE todo'[t] = Tail(todo[t]) /\ todo[t] # <<>> /\ req'[t] = req[t]
    <3>1. \A i \in DOMAIN todo'[t] : i + 1 \in DOMAIN todo[t] /\ todo'[t][i] = todo[t][i + 1]
      <4>1. todo[t] \in Seq(Op) BY DEF TypeOK
      <4>. QED BY <2>3, <4>1
    <3>2. \A i \in DOMAIN todo'[t] : \E j \in DOMAIN req'[t].ops : todo'[t][i] = req'[t].ops[j]
      BY <2>3, <3>1 DEF Plan
    <3>3. \A u \in Txn \ {t} : todo'[u] = todo[u] /\ req'[u] = req[u]
      BY <1>2, Frame
    <3>. QED BY <3>2, <3>3 DEF Plan
  <2>4. CASE todo'[t] = req'[t].ops
    BY <1>2, <2>4, Frame DEF Plan
  <2>5. ASSUME NEW r \in Request, Begin(t, r) PROVE todo'[t] = req'[t].ops
    BY <2>5 DEF Begin, TypeOK
  <2>6. Rollback(t) \/ Commit(t) => todo'[t] = <<>>
    BY DEF Rollback, Commit, NewRevision, Finish, TypeOK
  <2>7. ASSUME NEW rows, NEW next, Lock(t, rows, next) PROVE UNCHANGED <<todo, req>>
    BY <2>7 DEF Lock
  <2>8. ASSUME NEW act, Doing(t, act), Next1(t)
        PROVE  todo'[t] = Tail(todo[t]) /\ todo[t] # <<>>
    BY <2>8 DEF Doing, Next1, TypeOK
  <2>9. CASE LockConnection(t) \/ LockStructure(t) \/ CheckRevision(t) \/ LockTerminal(t) \/ Bump(t)
    BY <2>1, <2>7, <2>9 DEF LockConnection, LockStructure, CheckRevision, LockTerminal, Bump
  <2>10. CASE CreateConnection(t) \/ Connect(t)
    BY <2>3, <2>8, <2>10 DEF CreateConnection, Connect, Insert
  <2>11. CASE DeactivateConnection(t) \/ Release(t) \/ Reserve(t) \/ Disconnect(t)
    BY <2>3, <2>8, <2>11 DEF DeactivateConnection, Release, Reserve, Disconnect
  <2>12. CASE StartBody(t)
    BY <2>1, <2>12 DEF StartBody
  <2>. QED
    BY <1>2, <2>2, <2>4, <2>5, <2>6, <2>9, <2>10, <2>11, <2>12
       DEF Move, Step, Refuse, DeadlockVictim, LoseSession
<1>. QED BY <1>1, <1>2 DEF Next

(* Only an insertion, a commit or a rollback writes the connections.         *)
LEMMA ConnMoves ==
    ASSUME TypeOK, NEW t \in Txn, Move(t)
    PROVE  \/ Commit(t)
           \/ Rollback(t)
           \/ CreateConnection(t) \/ Connect(t)
           \/ conn' = conn /\ occ' = occ /\ resv' = resv
BY DEF Move, Begin, Step, LockConnection, LockStructure, CheckRevision, LockTerminal,
       StartBody, DeactivateConnection, Release, Reserve, Disconnect, Bump, Lock,
       Refuse, DeadlockVictim, LoseSession, tables

(* A committed connection keeps its ends and never becomes uncommitted.      *)
LEMMA CommittedKept ==
    ASSUME TypeOK, Pending, NEW t \in Txn, Move(t), NEW c \in ConnId,
           conn[c].status \in {"active", "inactive"}
    PROVE  /\ Ends(c)' = Ends(c)
           /\ conn'[c].status \in {"active", "inactive"}
<1>0. conn[c] \in [a : Terminal \cup {None}, b : Terminal \cup {None},
                   status : {"none", "pending", "active", "inactive"}, version : Nat]
  BY DEF TypeOK
<1>1. CASE Commit(t)
  <2>1. conn'[c] = Committed(t)[c] BY <1>1 DEF Commit, NewRevision
  <2>. QED BY <1>0, <2>1 DEF Committed, Ends
<1>2. CASE Rollback(t)
  <2>1. c \notin born[t] BY DEF Pending
  <2>2. conn'[c] = conn[c] BY <1>2, <2>1 DEF Rollback
  <2>. QED BY <2>2 DEF Ends
<1>3. ASSUME NEW op, Insert(t, op) PROVE conn'[c] = conn[c]
  BY <1>3 DEF Insert, TypeOK
<1>4. CASE CreateConnection(t) \/ Connect(t)
  BY <1>3, <1>4 DEF CreateConnection, Connect, Ends
<1>. QED BY <1>1, <1>2, <1>4, ConnMoves DEF Ends

(* The terminals of a call under way stay the same.                          *)
LEMMA TermsKept ==
    ASSUME TypeOK, Pending, NEW t \in Txn, Move(t), NEW u \in Txn, req'[u] = req[u],
           req[u].kind = "deactivate" => conn[req[u].conn].status \in {"active", "inactive"}
    PROVE  TermsOf(u)' = TermsOf(u)
<1>1. CASE req[u].kind = "deactivate"
  <2>1. req[u].conn \in ConnId BY <1>1, RequestTyped
  <2>2. Ends(req[u].conn)' = Ends(req[u].conn) BY <1>1, <2>1, CommittedKept DEF Ends
  <2>. QED BY <1>1, <2>2 DEF TermsOf, Ends
<1>2. CASE req[u].kind # "deactivate"
  BY <1>2 DEF TermsOf
<1>. QED BY <1>1, <1>2

(* A move of one session does not touch what another inserted.               *)
LEMMA BornKept ==
    ASSUME TypeOK, SessionInv, NEW t \in Txn, Move(t), NEW u \in Txn \ {t}, NEW c \in born[u]
    PROVE  conn'[c] = conn[c]
<1>0. c \in ConnId /\ conn[c].status = "pending" /\ c \notin born[t]
  BY DEF SessionInv, Pending, Own, TypeOK
<1>1. c \notin dead[t]
  BY <1>0 DEF SessionInv, SessionOK
<1>2. CASE Commit(t)
  BY <1>0, <1>1, <1>2 DEF Commit, NewRevision, Committed
<1>3. CASE Rollback(t)
  BY <1>0, <1>3 DEF Rollback
<1>4. ASSUME NEW op, Insert(t, op) PROVE conn'[c] = conn[c]
  BY <1>0, <1>4 DEF Insert, TypeOK
<1>. QED BY <1>2, <1>3, <1>4, ConnMoves DEF CreateConnection, Connect

(* The connection a session inserts lies on terminals of its call.           *)
LEMMA Inserted ==
    ASSUME TypeOK, Plan, SessionInv, NEW t \in Txn, CreateConnection(t) \/ Connect(t)
    PROVE  \E c \in ConnId, op \in Op :
             /\ op = Head(todo[t]) /\ Insert(t, op)
             /\ conn[c].status = "none"
             /\ conn' = [conn EXCEPT ![c] = [a |-> op.a, b |-> op.b,
                                             status |-> "pending", version |-> 1]]
             /\ born' = [born EXCEPT ![t] = @ \cup {c}]
             /\ {op.a, op.b} \subseteq TermsOf(t) \cap Terminal
             /\ Connectable(t, op)
             /\ req[t].kind # "deactivate"
<1>. DEFINE op == Head(todo[t])
<1>1. /\ Insert(t, op) /\ Connectable(t, op)
      /\ Doing(t, "create") \/ Doing(t, "connect")
  BY DEF CreateConnection, Connect, CreateAllowed
<1>2. op \in Op /\ req[t].kind # "deactivate" /\ op.act # "deactivate"
      /\ \E j \in DOMAIN req[t].ops : op = req[t].ops[j]
  BY <1>1, Current DEF Doing
<1>3. {op.a, op.b} \subseteq TermsOf(t) \cap Terminal
  <2>1. op.a \in Terminal /\ op.b \in Terminal /\ op.b # None
    BY <1>1, <1>2 DEF Op, Connectable
  <2>. QED BY <1>2, <2>1, NoneAssumption DEF TermsOf
<1>4. PICK c \in ConnId :
        /\ conn[c].status = "none"
        /\ conn' = [conn EXCEPT ![c] = [a |-> op.a, b |-> op.b,
                                         status |-> "pending", version |-> 1]]
        /\ born' = [born EXCEPT ![t] = @ \cup {c}]
  BY <1>1 DEF Insert
<1>. QED BY <1>1, <1>2, <1>3, <1>4

(* Inserted rows stay their session's own and uncommitted.                   *)
LEMMA SessionStep == TypeOK /\ Plan /\ SessionInv /\ [Next]_vars => SessionInv'
<1>. SUFFICES ASSUME TypeOK, Plan, SessionInv, [Next]_vars PROVE SessionInv'
  OBVIOUS
<1>1. CASE UNCHANGED vars
  BY <1>1 DEF SessionInv, Pending, Own, SessionOK, TermsOf, Ends, Writing, vars, tables, session
<1>2. ASSUME NEW t \in Txn, Move(t) PROVE SessionInv'
  <2>0. /\ Pending /\ Own /\ SessionOK(t)
        /\ \A u \in Txn \ {t} : SessionOK(u)
    BY DEF SessionInv
  <2>1. ASSUME NEW u \in Txn \ {t} PROVE SessionOK(u)'
    <3>1. SessionOK(u) BY <2>0
    <3>2. /\ pc'[u] = pc[u] /\ req'[u] = req[u] /\ late'[u] = late[u]
          /\ born'[u] = born[u] /\ dead'[u] = dead[u]
      BY <1>2, Frame
    <3>3. TermsOf(u)' = TermsOf(u)
      BY <1>2, <2>0, <3>1, <3>2, TermsKept DEF SessionOK
    <3>4. \A c \in born[u] : conn'[c] = conn[c]
      BY <1>2, BornKept
    <3>5. \A c \in dead'[u] : conn'[c].status \in {"active", "inactive"} \/ c \in born'[u]
      <4>1. dead[u] \subseteq ConnId BY DEF TypeOK
      <4>. QED BY <1>2, <2>0, <3>1, <3>2, <4>1, CommittedKept DEF SessionOK
    <3>6. req'[u].kind = "deactivate" => conn'[req'[u].conn].status \in {"active", "inactive"}
      BY <1>2, <2>0, <3>1, <3>2, RequestTyped, CommittedKept DEF SessionOK
    <3>7. \A c \in born'[u] : Ends(c)' \subseteq TermsOf(u)' \cap Terminal
      BY <3>1, <3>2, <3>3, <3>4 DEF SessionOK, Ends
    <3>. QED BY <3>1, <3>2, <3>5, <3>6, <3>7 DEF SessionOK, Writing
  <2>2. (Pending /\ Own)'
    <3>1. \A u \in Txn \ {t} : born'[u] = born[u] /\ \A c \in born[u] : conn'[c] = conn[c]
      BY <1>2, Frame, BornKept
    <3>2. CASE born'[t] = {}
      BY <2>0, <3>1, <3>2 DEF Pending, Own
    <3>3. CASE born'[t] = born[t] /\ conn' = conn
      BY <2>0, <3>1, <3>3 DEF Pending, Own
    <3>4. CASE CreateConnection(t) \/ Connect(t)
      <4>1. PICK c \in ConnId, op \in Op :
              /\ conn[c].status = "none"
              /\ conn' = [conn EXCEPT ![c] = [a |-> op.a, b |-> op.b,
                                              status |-> "pending", version |-> 1]]
              /\ born' = [born EXCEPT ![t] = @ \cup {c}]
        BY <3>4, Inserted
      <4>2. conn'[c].status = "pending" /\ \A d \in ConnId \ {c} : conn'[d] = conn[d]
        BY <4>1 DEF TypeOK
      <4>3. born'[t] = born[t] \cup {c} BY <4>1 DEF TypeOK
      <4>4. \A u \in Txn : born[u] \subseteq ConnId /\ c \notin born[u]
        BY <2>0, <4>1 DEF TypeOK, Pending
      <4>5. Pending' BY <2>0, <3>1, <4>2, <4>3, <4>4 DEF Pending
      <4>6. Own' BY <2>0, <3>1, <4>3, <4>4 DEF Own
      <4>. QED BY <4>5, <4>6
    <3>5. CASE Commit(t) \/ Rollback(t)
      BY <3>2, <3>5 DEF Commit, NewRevision, Rollback, Finish, TypeOK
    <3>6. CASE ~(Commit(t) \/ Rollback(t) \/ CreateConnection(t) \/ Connect(t))
      <4>1. conn' = conn BY <1>2, <3>6, ConnMoves
      <4>2. born'[t] = born[t]
        BY <1>2, <3>6 DEF Move, Begin, Step, LockConnection, LockStructure, CheckRevision,
           LockTerminal, StartBody, DeactivateConnection, Release, Reserve, Disconnect,
           Bump, Lock, Refuse, DeadlockVictim, LoseSession, session
      <4>. QED BY <3>3, <4>1, <4>2
    <3>. QED BY <3>4, <3>5, <3>6
  <2>3. SessionOK(t)'
    <3>1. CASE Commit(t) \/ Rollback(t)
      <4>1. /\ pc'[t] = "idle" /\ req'[t] = Idle
            /\ born'[t] = {} /\ dead'[t] = {} /\ late'[t] = {}
        BY <3>1 DEF Commit, NewRevision, Rollback, Finish, TypeOK
      <4>. QED BY <4>1 DEF SessionOK, Idle
    <3>2. ASSUME NEW r \in Request, Begin(t, r) PROVE SessionOK(t)'
      <4>1. /\ req'[t] = r /\ UNCHANGED <<conn, session>> /\ ~Writing(t)
        BY <3>2 DEF Begin, TypeOK, tables, Writing
      <4>2. born'[t] = {} /\ dead'[t] = {} /\ late'[t] = {}
        BY <2>0, <4>1 DEF SessionOK, session
      <4>3. /\ pc'[t] = "row" <=> r.kind = "deactivate"
            /\ pc'[t] \in {"structure", "revision"} => r.kind = "batch"
            /\ r.kind = "deactivate" => conn'[r.conn].status \in {"active", "inactive"}
        BY <3>2, <4>1 DEF Begin, TypeOK
      <4>. QED BY <4>1, <4>2, <4>3 DEF SessionOK
    <3>3. ASSUME req'[t] = req[t], conn' = conn, born'[t] = born[t],
                 pc[t] # "idle", pc'[t] # "row",
                 pc'[t] \in {"structure", "revision"} => req[t].kind = "batch",
                 \/ Writing(t)' /\ Writing(t)
                 \/ dead'[t] = dead[t] /\ late'[t] = late[t] /\ ~Writing(t),
                 \A c \in dead'[t] : conn[c].status \in {"active", "inactive"} \/ c \in born[t]
          PROVE  SessionOK(t)'
      <4>1. TermsOf(t)' = TermsOf(t)
        BY <1>2, <2>0, <3>3, TermsKept DEF SessionOK
      <4>. QED BY <2>0, <3>3, <4>1 DEF SessionOK, Ends, Writing
    <3>4. CASE LockConnection(t) \/ LockStructure(t) \/ CheckRevision(t)
               \/ LockTerminal(t) \/ Bump(t) \/ StartBody(t)
      <4>1. /\ req' = req /\ conn' = conn /\ born' = born /\ dead' = dead /\ late' = late
        BY <3>4 DEF LockConnection, LockStructure, CheckRevision, LockTerminal, Bump,
           StartBody, Lock, tables, session
      <4>2. /\ pc[t] # "idle" /\ pc'[t] # "row"
            /\ pc'[t] \in {"structure", "revision"} => pc[t] = "structure"
            /\ (Writing(t)' /\ Writing(t)) \/ ~Writing(t)
        BY <3>4 DEF LockConnection, LockStructure, CheckRevision, LockTerminal, Bump,
           StartBody, Lock, TypeOK, Writing
      <4>. QED BY <2>0, <3>3, <4>1, <4>2 DEF SessionOK
    <3>5. CASE CreateConnection(t) \/ Connect(t)
      <4>1. PICK c \in ConnId, op \in Op :
              /\ Insert(t, op)
              /\ conn[c].status = "none"
              /\ conn' = [conn EXCEPT ![c] = [a |-> op.a, b |-> op.b,
                                              status |-> "pending", version |-> 1]]
              /\ born' = [born EXCEPT ![t] = @ \cup {c}]
              /\ {op.a, op.b} \subseteq TermsOf(t) \cap Terminal
              /\ req[t].kind # "deactivate"
        BY <3>5, Inserted
      <4>2. /\ pc' = pc /\ req' = req /\ dead' = dead /\ born'[t] = born[t] \cup {c}
            /\ late'[t] = {} /\ pc[t] = "body"
        BY <3>5, <4>1 DEF Insert, TypeOK, CreateConnection, Connect, Doing
      <4>3. Ends(c)' = {op.a, op.b} /\ \A d \in ConnId \ {c} : conn'[d] = conn[d]
        BY <4>1 DEF TypeOK, Ends
      <4>4. TermsOf(t)' = TermsOf(t) BY <4>1, <4>2 DEF TermsOf
      <4>5. \A d \in born'[t] : Ends(d)' \subseteq TermsOf(t)' \cap Terminal
        <5>1. born[t] \subseteq ConnId BY DEF TypeOK
        <5>2. ASSUME NEW d \in born[t], d # c PROVE Ends(d)' = Ends(d)
          BY <4>3, <5>1, <5>2 DEF Ends
        <5>3. ASSUME NEW d \in born[t] PROVE Ends(d) \subseteq TermsOf(t) \cap Terminal
          BY <2>0 DEF SessionOK
        <5>4. Ends(c)' \subseteq TermsOf(t) \cap Terminal BY <4>1, <4>3
        <5>. QED BY <4>2, <4>4, <5>2, <5>3, <5>4
      <4>6. \A d \in dead[t] : (d \in ConnId /\ d # c) \/ d \in born'[t]
        BY <2>0, <4>1, <4>2 DEF SessionOK, TypeOK
      <4>. QED BY <2>0, <4>1, <4>2, <4>3, <4>5, <4>6 DEF SessionOK, Writing
    <3>6. CASE DeactivateConnection(t) \/ Release(t) \/ Reserve(t) \/ Disconnect(t)
      <4>1. /\ req' = req /\ conn' = conn /\ born' = born /\ pc' = pc /\ pc[t] = "body"
        BY <3>6 DEF DeactivateConnection, Release, Reserve, Disconnect, Doing, tables
      <4>2. \A c \in dead'[t] : conn[c].status \in {"active", "inactive"} \/ c \in born[t]
        <5>1. CASE DeactivateConnection(t)
          <6>1. req[t].kind = "deactivate"
            BY <5>1, Current DEF DeactivateConnection
          <6>. QED BY <2>0, <5>1, <6>1 DEF DeactivateConnection, SessionOK, TypeOK
        <5>2. CASE Release(t) \/ Reserve(t)
          BY <2>0, <5>2 DEF Release, Reserve, SessionOK
        <5>3. CASE Disconnect(t)
          BY <2>0, <5>3 DEF Disconnect, On, Live, SessionOK, TypeOK
        <5>. QED BY <3>6, <5>1, <5>2, <5>3
      <4>. QED BY <3>3, <4>1, <4>2 DEF Writing
    <3>. QED
      BY <1>2, <3>1, <3>2, <3>4, <3>5, <3>6
         DEF Move, Step, Refuse, DeadlockVictim, LoseSession
  <2>. QED BY <2>1, <2>2, <2>3 DEF SessionInv
<1>. QED BY <1>1, <1>2 DEF Next

(* Every step keeps row locks exclusive and the writers' terminals locked.   *)
LEMMA LockStep == TypeOK /\ Plan /\ SessionInv /\ LockInv /\ [Next]_vars => LockInv'
<1>. SUFFICES ASSUME TypeOK, Plan, SessionInv, LockInv, [Next]_vars PROVE LockInv'
  OBVIOUS
<1>1. CASE UNCHANGED vars
  BY <1>1 DEF LockInv, Missing, TermsOf, Ends, Writing, vars, tables, session
<1>2. ASSUME NEW t \in Txn, Move(t) PROVE LockInv'
  <2>0. Pending /\ \A u \in Txn : SessionOK(u)
    BY DEF SessionInv
  <2>1. \A u \in Txn \ {t} : /\ pc'[u] = pc[u] /\ req'[u] = req[u]
                             /\ locks'[u] = locks[u]
    BY <1>2, Frame
  <2>2. \A u \in Txn : req'[u] = req[u] => TermsOf(u)' = TermsOf(u)
    BY <1>2, <2>0, TermsKept DEF SessionOK
  <2>3. ASSUME NEW rows, locks'[t] = locks[t] \cup rows,
               \A r \in rows : LockFree(t, r)
        PROVE  \A u, v \in Txn : u # v => locks'[u] \cap locks'[v] = {}
    <3>1. \A u \in Txn \ {t} : rows \cap locks[u] = {}
      BY <2>3 DEF LockFree
    <3>. QED BY <2>1, <2>3, <3>1 DEF LockInv
  <2>4. ASSUME locks'[t] = locks[t] \/ locks'[t] = {}
        PROVE  \A u, v \in Txn : u # v => locks'[u] \cap locks'[v] = {}
    BY <2>1, <2>4 DEF LockInv
  <2>5. \A u \in Txn \ {t} : Writing(u)' => Missing(u)' = {}
    BY <2>1, <2>2 DEF LockInv, Writing, Missing
  <2>6. CASE Commit(t) \/ Rollback(t)
    <3>1. locks'[t] = {} BY <2>6 DEF Commit, NewRevision, Rollback, ReleaseLocks, TypeOK
    <3>2. ~Writing(t)' BY <2>6 DEF Commit, NewRevision, Rollback, Finish, TypeOK, Writing
    <3>. QED BY <2>4, <2>5, <3>1, <3>2 DEF LockInv
  <2>7. CASE \E r \in Request : Begin(t, r)
    <3>1. locks' = locks BY <2>7 DEF Begin
    <3>2. ~Writing(t)' BY <2>7 DEF Begin, TypeOK, Writing
    <3>. QED BY <2>4, <2>5, <3>1, <3>2 DEF LockInv
  <2>10. ASSUME NEW rows, NEW next, Lock(t, rows, next)
         PROVE  locks'[t] = locks[t] \cup rows
    BY <2>10 DEF Lock, TypeOK
  <2>8. CASE LockConnection(t) \/ LockStructure(t) \/ CheckRevision(t) \/ LockTerminal(t)
    <3>1. \E rows : /\ locks'[t] = locks[t] \cup rows
                    /\ \A r \in rows : LockFree(t, r)
      <4>1. CASE LockConnection(t) BY <2>10, <4>1 DEF LockConnection
      <4>2. CASE LockStructure(t)
        BY <2>10, <4>2 DEF LockStructure, ExclusiveFree, ShareFree
      <4>3. CASE CheckRevision(t) BY <2>10, <4>3 DEF CheckRevision
      <4>4. CASE LockTerminal(t)
        <5>1. PICK x \in Missing(t) : /\ LockFree(t, Row("terminals", x))
                                      /\ Lock(t, {Row("terminals", x)}, "terminals")
          BY <4>4 DEF LockTerminal
        <5>. QED BY <2>10, <5>1
      <4>. QED BY <2>8, <4>1, <4>2, <4>3, <4>4
    <3>2. ~Writing(t)'
      BY <2>8 DEF LockConnection, LockStructure, CheckRevision, LockTerminal, Lock,
         TypeOK, Writing
    <3>. QED BY <2>3, <2>5, <3>1, <3>2 DEF LockInv
  <2>9. CASE Bump(t) \/ StartBody(t) \/ CreateConnection(t) \/ Connect(t)
             \/ DeactivateConnection(t) \/ Release(t) \/ Reserve(t) \/ Disconnect(t)
    <3>1. \/ locks'[t] = locks[t]
          \/ \E rows : /\ locks'[t] = locks[t] \cup rows
                       /\ \A r \in rows : LockFree(t, r)
      <4>1. CASE StartBody(t) \/ DeactivateConnection(t) \/ Release(t) \/ Disconnect(t)
        BY <4>1 DEF StartBody, DeactivateConnection, Release, Disconnect
      <4>2. CASE Bump(t)
        BY <2>10, <4>2 DEF Bump
      <4>3. CASE CreateConnection(t) \/ Connect(t) \/ Reserve(t)
        <5>1. locks'[t] = locks[t] \cup Flushed(t)
          BY <4>3 DEF CreateConnection, Connect, Insert, Reserve, TypeOK
        <5>2. FlushFree(t)
          BY <4>3 DEF CreateConnection, Connect, Insert, Reserve
        <5>. QED BY <5>1, <5>2 DEF FlushFree
      <4>. QED BY <2>9, <4>1, <4>2, <4>3
    <3>2. req'[t] = req[t]
      BY <2>9 DEF Bump, StartBody, CreateConnection, Connect, Insert, DeactivateConnection,
         Release, Reserve, Disconnect, Lock
    <3>3. Missing(t) = {}
      BY <2>9 DEF Bump, StartBody, CreateConnection, Connect, DeactivateConnection,
         Release, Reserve, Disconnect, Doing, LockInv, Writing
    <3>4. Missing(t)' = {}
      <4>1. locks[t] \subseteq locks'[t] BY <3>1
      <4>. QED BY <2>2, <3>2, <3>3, <4>1 DEF Missing
    <3>. QED BY <2>3, <2>4, <2>5, <3>1, <3>4 DEF LockInv
  <2>. QED
    BY <1>2, <2>6, <2>7, <2>8, <2>9 DEF Move, Step, Refuse, DeadlockVictim, LoseSession
<1>. QED BY <1>1, <1>2 DEF Next

(* Only a commit changes which connections are active.                       *)
LEMMA ActiveKept ==
    ASSUME TypeOK, Pending, NEW t \in Txn, Move(t), ~Commit(t), NEW c \in ConnId
    PROVE  Active(c)' <=> Active(c)
<1>1. CASE Rollback(t)
  BY <1>1 DEF Rollback, Pending, NoConnection, Active
<1>2. ASSUME NEW op, Insert(t, op) PROVE Active(c)' <=> Active(c)
  BY <1>2 DEF Insert, TypeOK, Active
<1>. QED BY <1>1, <1>2, ConnMoves DEF CreateConnection, Connect, Active

(* After a commit the active connections are those its session saw.          *)
LEMMA CommitActivates ==
    ASSUME TypeOK, SessionInv, NEW t \in Txn, Commit(t), NEW c \in ConnId
    PROVE  /\ Active(c)' <=> c \in Live(t)
           /\ Ends(c)' = Ends(c)
<1>1. conn'[c] = Committed(t)[c] BY DEF Commit, NewRevision
<1>2. conn[c] \in [a : Terminal \cup {None}, b : Terminal \cup {None},
                   status : {"none", "pending", "active", "inactive"}, version : Nat]
  BY DEF TypeOK
<1>. QED BY <1>1, <1>2 DEF Committed, Active, Live, Ends

(* A deactivation that holds the row of its connection finds it active until *)
(* it commits.                                                               *)
LEMMA RowStep == TypeOK /\ Plan /\ SessionInv /\ LockInv /\ RowInv /\ [Next]_vars => RowInv'
<1>. SUFFICES ASSUME TypeOK, SessionInv, LockInv, RowInv, [Next]_vars,
                     NEW u \in Txn, pc'[u] = "terminals", req'[u].kind = "deactivate"
              PROVE  /\ Row("connections", req'[u].conn) \in locks'[u]
                     /\ conn'[req'[u].conn].status = "active"
  BY DEF RowInv, Row
<1>1. CASE UNCHANGED vars
  BY <1>1 DEF RowInv, Row, vars, tables
<1>2. ASSUME NEW t \in Txn, Move(t), u # t
      PROVE  /\ Row("connections", req'[u].conn) \in locks'[u]
             /\ conn'[req'[u].conn].status = "active"
  <2>1. /\ pc'[u] = pc[u] /\ req'[u] = req[u] /\ locks'[u] = locks[u]
        /\ born'[u] = born[u]
    BY <1>2, Frame
  <2>2. /\ Row("connections", req[u].conn) \in locks[u]
        /\ req[u].conn \in ConnId /\ Active(req[u].conn)
    BY <2>1, RequestTyped DEF RowInv, Active
  <2>3. CASE ~Commit(t)
    BY <1>2, <2>1, <2>2, <2>3, ActiveKept DEF SessionInv, Active
  <2>4. CASE Commit(t)
    <3>1. req[u].conn \notin dead[t] \ born[t]
      BY <1>2, <2>2, <2>4 DEF Commit, NewRevision, FlushFree, Flushed, LockFree
    <3>2. req[u].conn \notin born[t]
      BY <2>2 DEF SessionInv, Pending, Active
    <3>. QED BY <2>1, <2>2, <2>4, <3>1, <3>2 DEF Commit, NewRevision, Committed, Active
  <2>. QED BY <2>3, <2>4
<1>3. ASSUME NEW t \in Txn, Move(t), u = t
      PROVE  /\ Row("connections", req'[u].conn) \in locks'[u]
             /\ conn'[req'[u].conn].status = "active"
  <2>1. CASE LockConnection(t)
    BY <1>3, <2>1 DEF LockConnection, Lock, RowAccepted, TypeOK, tables
  <2>2. CASE LockTerminal(t)
    <3>1. /\ pc[t] = "terminals" /\ req' = req /\ conn' = conn
          /\ locks[t] \subseteq locks'[t]
      BY <2>2 DEF LockTerminal, Lock, TypeOK, tables
    <3>. QED BY <1>3, <3>1 DEF RowInv
  <2>3. CASE CheckRevision(t)
    BY <1>3, <2>3 DEF CheckRevision, Lock, SessionInv, SessionOK
  <2>4. ASSUME NEW r \in Request, Begin(t, r) PROVE FALSE
    BY <1>3, <2>4 DEF Begin, TypeOK
  <2>5. ASSUME \/ LockStructure(t) \/ StartBody(t) \/ CreateConnection(t) \/ Connect(t)
               \/ DeactivateConnection(t) \/ Release(t) \/ Reserve(t) \/ Disconnect(t)
               \/ Bump(t) \/ Commit(t) \/ Rollback(t)
        PROVE  FALSE
    BY <1>3, <2>5 DEF LockStructure, StartBody, CreateConnection, Connect, Insert,
       DeactivateConnection, Release, Reserve, Disconnect, Doing, Bump, Lock, Commit, NewRevision,
       Rollback, Finish, TypeOK
  <2>. QED
    BY <1>3, <2>1, <2>2, <2>3, <2>4, <2>5 DEF Move, Step, Refuse, DeadlockVictim, LoseSession
<1>. QED BY <1>1, <1>2, <1>3 DEF Next

(* Two writing sessions have no terminal in common.                          *)
LEMMA Apart ==
    ASSUME LockInv, NEW t \in Txn, NEW u \in Txn \ {t}, Writing(t), Writing(u)
    PROVE  TermsOf(t) \cap TermsOf(u) = {}
BY DEF LockInv, Missing

(* Every step keeps the three facts about the committed tables.              *)
LEMMA CommittedStep ==
    Inductive /\ [Next]_vars
      => (Exclusive /\ LinkedMeansConnected /\ ReservedMeansReservation)'
<1>. SUFFICES ASSUME Inductive, [Next]_vars
              PROVE  (Exclusive /\ LinkedMeansConnected /\ ReservedMeansReservation)'
  OBVIOUS
<1>0. TypeOK /\ SessionInv /\ Pending /\ ViewInv
      /\ Exclusive /\ LinkedMeansConnected /\ ReservedMeansReservation
  BY DEF Inductive, SessionInv
<1>1. CASE UNCHANGED vars
  BY <1>0, <1>1 DEF Exclusive, LinkedMeansConnected, ReservedMeansReservation, Active,
     Ends, vars, tables
<1>2. ASSUME NEW t \in Txn, Move(t), ~Commit(t)
      PROVE  (Exclusive /\ LinkedMeansConnected /\ ReservedMeansReservation)'
  <2>1. occ' = occ /\ resv' = resv
    BY <1>0, <1>2, ConnMoves DEF Rollback, CreateConnection, Connect, Insert
  <2>2. \A c \in ConnId : Active(c)' <=> Active(c)
    BY <1>0, <1>2, ActiveKept
  <2>3. \A c \in ConnId : Active(c) => Ends(c)' = Ends(c)
    BY <1>0, <1>2, CommittedKept DEF Active
  <2>4. Exclusive' BY <1>0, <2>2, <2>3 DEF Exclusive
  <2>5. LinkedMeansConnected' BY <1>0, <2>1, <2>2, <2>3 DEF LinkedMeansConnected
  <2>6. ReservedMeansReservation' BY <1>0, <2>1 DEF ReservedMeansReservation
  <2>. QED BY <2>4, <2>5, <2>6
<1>3. ASSUME NEW t \in Txn, Commit(t)
      PROVE  (Exclusive /\ LinkedMeansConnected /\ ReservedMeansReservation)'
  <2>1. \A c \in ConnId : (Active(c)' <=> c \in Live(t)) /\ Ends(c)' = Ends(c)
    BY <1>0, <1>3, CommitActivates
  <2>2. \A c \in Live(t) : c \in ConnId /\ (Active(c) \/ c \in born[t])
    BY DEF Live, Active
  <2>3. \A c \in born[t] : Ends(c) \subseteq TermsOf(t) \cap Terminal
    BY <1>0 DEF SessionInv, SessionOK
  <2>4. ViewOK(t) BY <1>0, <1>3 DEF ViewInv, Writing, Commit
  <2>5. Exclusive'
    <3>1. ASSUME NEW c \in Live(t), NEW d \in Live(t), c # d, NEW x \in Ends(c) \cap Ends(d)
          PROVE  FALSE
      <4>1. CASE x \in TermsOf(t) BY <2>4, <3>1, <4>1 DEF ViewOK
      <4>2. CASE x \notin TermsOf(t)
        BY <1>0, <2>2, <2>3, <3>1, <4>2 DEF Exclusive
      <4>. QED BY <4>1, <4>2
    <3>. QED BY <2>1, <3>1 DEF Exclusive
  <2>6. LinkedMeansConnected'
    <3>1. ASSUME NEW c \in Live(t), NEW x \in Ends(c)
          PROVE  x \in Terminal /\ occ'[x] = "connected"
      <4>1. x \in Terminal BY <1>0, <2>2, <2>3 DEF LinkedMeansConnected
      <4>2. CASE x \in TermsOf(t)
        BY <1>3, <2>4, <4>1, <4>2 DEF ViewOK, Commit
      <4>3. CASE x \notin TermsOf(t)
        BY <1>0, <1>3, <2>2, <2>3, <4>1, <4>3 DEF Commit, NewRevision, LinkedMeansConnected
      <4>. QED BY <4>1, <4>2, <4>3
    <3>. QED BY <2>1, <3>1 DEF LinkedMeansConnected
  <2>7. ReservedMeansReservation'
    BY <1>0, <1>3, <2>4 DEF ReservedMeansReservation, Commit, NewRevision, ViewOK
  <2>. QED BY <2>5, <2>6, <2>7
<1>. QED BY <1>1, <1>2, <1>3 DEF Next

(* What a writing session sees stays consistent while the others move.       *)
LEMMA OthersView ==
    ASSUME Inductive, NEW t \in Txn, Move(t), NEW u \in Txn \ {t}, Writing(u)
    PROVE  ViewOK(u)'
<1>0. /\ TypeOK /\ SessionInv /\ Pending /\ LockInv /\ ViewOK(u) /\ SessionOK(u) /\ SessionOK(t)
  BY DEF Inductive, SessionInv, ViewInv
<1>1. /\ req'[u] = req[u] /\ wOcc'[u] = wOcc[u] /\ wResv'[u] = wResv[u]
      /\ late'[u] = late[u] /\ born'[u] = born[u] /\ dead'[u] = dead[u]
  BY <1>0, Frame
<1>2. TermsOf(u)' = TermsOf(u)
  BY <1>0, <1>1, TermsKept DEF SessionOK
<1>3. \A c \in Live(u) : c \in ConnId /\ Ends(c)' = Ends(c)
  BY <1>0, CommittedKept, BornKept DEF Live, Ends
<1>4. \A c \in Live(u)' : c \in Live(u) \/ Ends(c)' \cap TermsOf(u) = {}
  <2>1. CASE ~Commit(t)
    <3>1. \A c \in ConnId : Active(c)' <=> Active(c) BY <1>0, <2>1, ActiveKept
    <3>. QED BY <1>1, <3>1 DEF Live, Active
  <2>2. CASE Commit(t)
    <3>1. \A c \in ConnId : (Active(c)' <=> c \in Live(t)) /\ Ends(c)' = Ends(c)
      BY <1>0, <2>2, CommitActivates
    <3>2. \A c \in Live(u)' : c \in ConnId /\ c \notin dead[u] /\ (Active(c)' \/ c \in born[u])
      BY <1>1 DEF Live, Active
    <3>3. TermsOf(t) \cap TermsOf(u) = {}
      BY <1>0, <2>2, Apart DEF Commit, NewRevision, Writing
    <3>4. \A c \in born[t] : Ends(c) \subseteq TermsOf(t)
      BY <1>0 DEF SessionOK
    <3>. QED BY <3>1, <3>2, <3>3, <3>4 DEF Live
  <2>. QED BY <2>1, <2>2
<1>5. ASSUME NEW c \in Live(u)', NEW x \in Ends(c)' \cap TermsOf(u)'
      PROVE  wOcc'[u][x] = "connected"
  BY <1>0, <1>1, <1>2, <1>3, <1>4, <1>5 DEF ViewOK
<1>6. ASSUME NEW c \in Live(u)', NEW d \in Live(u)', c # d
      PROVE  Ends(c)' \cap Ends(d)' \cap TermsOf(u)' = {}
  BY <1>0, <1>2, <1>3, <1>4, <1>6 DEF ViewOK
<1>7. \A x \in TermsOf(u)' \cap Terminal :
        /\ wOcc'[u][x] = "reserved" <=> x \in wResv'[u]
        /\ x \in late'[u] => wOcc'[u][x] = "free"
        /\ req'[u].kind = "deactivate" => wOcc'[u][x] # "reserved"
  BY <1>0, <1>1, <1>2 DEF ViewOK
<1>. QED BY <1>5, <1>6, <1>7 DEF ViewOK

(* What a writing session sees stays consistent under its own operations.    *)
LEMMA OwnView ==
    ASSUME Inductive, NEW t \in Txn, Move(t), Writing(t)'
    PROVE  ViewOK(t)'
<1>0. /\ TypeOK /\ Plan /\ SessionInv /\ Pending /\ LockInv /\ RowInv /\ SessionOK(t)
      /\ Writing(t) => ViewOK(t)
      /\ Exclusive /\ LinkedMeansConnected /\ ReservedMeansReservation
  BY DEF Inductive, SessionInv, ViewInv
<1>1. Live(t) \subseteq ConnId /\ wOcc[t] \in [Terminal -> Occupancy]
  BY <1>0 DEF Live, TypeOK
<1>2. CASE StartBody(t)
  <2>1. /\ wOcc'[t] = occ /\ wResv'[t] = resv /\ UNCHANGED <<conn, req, late, born, dead>>
        /\ pc[t] = "terminals"
    BY <1>0, <1>2 DEF StartBody, TypeOK, tables
  <2>2. born[t] = {} /\ dead[t] = {} /\ late[t] = {}
    BY <1>0, <2>1 DEF SessionOK, Writing
  <2>3. \A c \in Live(t)' : c \in ConnId /\ Active(c) /\ Ends(c)' = Ends(c)
    BY <2>1, <2>2 DEF Live, Active, Ends
  <2>4. TermsOf(t)' = TermsOf(t) BY <2>1 DEF TermsOf, Ends
  <2>5. req[t].kind = "deactivate" => \A x \in TermsOf(t) \cap Terminal : occ[x] = "connected"
    <3>1. CASE req[t].kind = "deactivate"
      <4>1. req[t].conn \in ConnId /\ Active(req[t].conn)
        BY <1>0, <2>1, <3>1, RequestTyped DEF RowInv, Active
      <4>. QED BY <1>0, <3>1, <4>1 DEF LinkedMeansConnected, TermsOf
    <3>. QED BY <3>1
  <2>6. \A c \in Live(t)' : \A x \in Ends(c)' \cap TermsOf(t)' : wOcc'[t][x] = "connected"
    BY <1>0, <2>1, <2>3 DEF LinkedMeansConnected
  <2>7. \A c, d \in Live(t)' : c # d => Ends(c)' \cap Ends(d)' \cap TermsOf(t)' = {}
    BY <1>0, <2>3 DEF Exclusive
  <2>8. \A x \in TermsOf(t)' \cap Terminal :
          /\ wOcc'[t][x] = "reserved" <=> x \in wResv'[t]
          /\ x \in late'[t] => wOcc'[t][x] = "free"
          /\ req'[t].kind = "deactivate" => wOcc'[t][x] # "reserved"
    BY <1>0, <2>1, <2>2, <2>4, <2>5 DEF ReservedMeansReservation
  <2>. QED BY <2>6, <2>7, <2>8 DEF ViewOK
<1>3. CASE Bump(t)
  BY <1>0, <1>3 DEF Bump, Lock, ViewOK, Live, TermsOf, Ends, Writing, tables, session
<1>4. CASE CreateConnection(t) \/ Connect(t)
  <2>1. PICK c \in ConnId, op \in Op :
          /\ Insert(t, op)
          /\ conn[c].status = "none"
          /\ conn' = [conn EXCEPT ![c] = [a |-> op.a, b |-> op.b,
                                          status |-> "pending", version |-> 1]]
          /\ born' = [born EXCEPT ![t] = @ \cup {c}]
          /\ {op.a, op.b} \subseteq TermsOf(t) \cap Terminal
          /\ Connectable(t, op)
          /\ req[t].kind # "deactivate"
    BY <1>0, <1>4, Inserted
  <2>2. /\ req' = req /\ dead' = dead /\ wResv' = wResv
        /\ born'[t] = born[t] \cup {c} /\ late'[t] = {}
        /\ wOcc'[t] = [wOcc[t] EXCEPT ![op.a] = "connected", ![op.b] = "connected"]
    BY <1>0, <2>1 DEF Insert, TypeOK
  <2>3. /\ Ends(c)' = {op.a, op.b} /\ conn'[c].status = "pending"
        /\ \A d \in ConnId \ {c} : conn'[d] = conn[d]
    BY <1>0, <2>1 DEF TypeOK, Ends
  <2>4. TermsOf(t)' = TermsOf(t) BY <2>1, <2>2 DEF TermsOf
  <2>5. c \notin Live(t) /\ ViewOK(t)
    <3>1. c \notin born[t] BY <1>0, <2>1 DEF Pending
    <3>2. Writing(t) BY <1>4 DEF CreateConnection, Connect, Doing, Writing
    <3>. QED BY <1>0, <2>1, <3>1, <3>2 DEF Live
  <2>6. \A d \in Live(t)' : d = c \/ (d \in Live(t) /\ Ends(d)' = Ends(d))
    BY <2>2, <2>3 DEF Live, Ends
  <2>7. wOcc[t][op.a] = "free" /\ wOcc[t][op.b] = "free" BY <2>1 DEF Connectable
  <2>8. \A d \in Live(t) : op.a \notin Ends(d) /\ op.b \notin Ends(d)
    BY <2>1, <2>5, <2>7 DEF ViewOK
  <2>9. \A x \in Terminal : wOcc'[t][x] = IF x \in {op.a, op.b} THEN "connected" ELSE wOcc[t][x]
    BY <1>1, <2>2
  <2>10. \A d \in Live(t)' : \A x \in Ends(d)' \cap TermsOf(t)' : wOcc'[t][x] = "connected"
    <3>1. ASSUME NEW d \in Live(t)', NEW x \in Ends(d)' \cap TermsOf(t)', d = c
          PROVE  wOcc'[t][x] = "connected"
      BY <2>1, <2>3, <2>9, <3>1
    <3>2. ASSUME NEW d \in Live(t)', NEW x \in Ends(d)' \cap TermsOf(t)', d # c
          PROVE  wOcc'[t][x] = "connected"
      <4>1. d \in Live(t) /\ Ends(d)' = Ends(d)
        BY <2>6, <3>2
      <4>2. x \in Ends(d) \cap TermsOf(t)
        BY <2>4, <4>1
      <4>3. wOcc[t][x] = "connected"
        BY <2>5, <4>1, <4>2 DEF ViewOK
      <4>4. x \notin {op.a, op.b}
        BY <2>8, <4>1, <4>2
      <4>5. x \in Terminal
        BY <1>0, <1>1, <4>1, <4>2 DEF Live, LinkedMeansConnected, Active, SessionOK
      <4>. QED BY <2>9, <4>3, <4>4, <4>5
    <3>. QED BY <3>1, <3>2
  <2>11. \A d, e \in Live(t)' : d # e => Ends(d)' \cap Ends(e)' \cap TermsOf(t)' = {}
    BY <2>3, <2>4, <2>5, <2>6, <2>8 DEF ViewOK
  <2>12. \A x \in TermsOf(t)' \cap Terminal :
          /\ wOcc'[t][x] = "reserved" <=> x \in wResv'[t]
          /\ x \in late'[t] => wOcc'[t][x] = "free"
          /\ req'[t].kind = "deactivate" => wOcc'[t][x] # "reserved"
    BY <2>1, <2>2, <2>4, <2>5, <2>7, <2>9 DEF ViewOK
  <2>. QED BY <2>10, <2>11, <2>12 DEF ViewOK
<1>. DEFINE SameCall == /\ ViewOK(t) /\ req'[t] = req[t] /\ conn' = conn /\ born' = born
                        /\ TermsOf(t)' = TermsOf(t)
<1>5. ASSUME DeactivateConnection(t) \/ Release(t) \/ Reserve(t) \/ Disconnect(t)
      PROVE  SameCall
  <2>1. req' = req /\ conn' = conn /\ born' = born /\ Writing(t)
    BY <1>5 DEF DeactivateConnection, Release, Reserve, Disconnect, Doing, Writing, tables
  <2>. QED BY <1>0, <2>1 DEF TermsOf, Ends
<1>6. CASE DeactivateConnection(t)
  <2>. DEFINE c == req[t].conn
              freed == {x \in Ends(c) : On(t, x) \ {c} = {}}
  <2>1. /\ SameCall /\ wResv' = wResv /\ late' = late
        /\ dead'[t] = dead[t] \cup {c}
        /\ wOcc'[t] = [x \in Terminal |-> IF x \in freed THEN "free" ELSE wOcc[t][x]]
    BY <1>0, <1>5, <1>6 DEF DeactivateConnection, TypeOK
  <2>2. \A d \in Live(t)' : d \in Live(t) /\ d # c /\ Ends(d)' = Ends(d)
    BY <2>1 DEF Live, Ends
  <2>3. \A d \in Live(t)' : Ends(d) \cap freed = {}
    BY <2>2 DEF On
  <2>4. req[t].kind = "deactivate"
    BY <1>0, <1>6, Current DEF DeactivateConnection
  <2>5. \A d \in Live(t)' : \A x \in Ends(d)' \cap TermsOf(t)' : wOcc'[t][x] = "connected"
    <3>1. ASSUME NEW d \in Live(t)', NEW x \in Ends(d)' \cap TermsOf(t)'
          PROVE  wOcc'[t][x] = "connected"
      <4>1. wOcc[t][x] = "connected" /\ x \notin freed
        BY <2>1, <2>2, <2>3, <3>1 DEF ViewOK
      <4>2. x \in Terminal
        BY <1>0, <2>2, <3>1 DEF Live, LinkedMeansConnected, Active, SessionOK
      <4>. QED BY <2>1, <4>1, <4>2
    <3>. QED BY <3>1
  <2>6. \A d, e \in Live(t)' : d # e => Ends(d)' \cap Ends(e)' \cap TermsOf(t)' = {}
    BY <2>1, <2>2 DEF ViewOK
  <2>7. \A x \in TermsOf(t)' \cap Terminal :
          /\ wOcc'[t][x] = "reserved" <=> x \in wResv'[t]
          /\ x \in late'[t] => wOcc'[t][x] = "free"
          /\ req'[t].kind = "deactivate" => wOcc'[t][x] # "reserved"
    BY <2>1, <2>4 DEF ViewOK
  <2>. QED BY <2>5, <2>6, <2>7 DEF ViewOK
<1>7. ASSUME Release(t) \/ Reserve(t)
      PROVE  /\ Head(todo[t]).a \in TermsOf(t) \cap Terminal
             /\ req[t].kind # "deactivate"
  <2>1. /\ Head(todo[t]) \in Op /\ req[t].kind # "deactivate"
        /\ \E j \in DOMAIN req[t].ops : Head(todo[t]) = req[t].ops[j]
    BY <1>0, <1>7, Current DEF Release, Reserve
  <2>2. Head(todo[t]).act # "deactivate"
    BY <1>7 DEF Release, Reserve, Doing
  <2>. QED BY <2>1, <2>2 DEF Op, TermsOf
<1>8. CASE Release(t)
  <2>. DEFINE y == Head(todo[t]).a
  <2>1. /\ SameCall /\ dead' = dead
        /\ late'[t] = late[t] \cup (wResv[t] \cap {y})
        /\ wResv'[t] = wResv[t] \ {y}
        /\ wOcc'[t] = [wOcc[t] EXCEPT ![y] = "free"]
        /\ ReleaseAllowed(t, y)
    BY <1>0, <1>5, <1>8 DEF Release, TypeOK
  <2>2. y \in TermsOf(t) \cap Terminal /\ req[t].kind # "deactivate" BY <1>7, <1>8
  <2>3. Live(t)' = Live(t) BY <2>1 DEF Live
  <2>4. \A d \in Live(t) : y \notin Ends(d)
    BY <2>1, <2>2 DEF ReleaseAllowed, ViewOK
  <2>5. \A d \in Live(t)' : \A x \in Ends(d)' \cap TermsOf(t)' : wOcc'[t][x] = "connected"
    BY <1>1, <2>1, <2>3, <2>4 DEF ViewOK, Ends
  <2>6. \A d, e \in Live(t)' : d # e => Ends(d)' \cap Ends(e)' \cap TermsOf(t)' = {}
    BY <2>1, <2>3 DEF ViewOK, Ends
  <2>7. \A x \in TermsOf(t)' \cap Terminal :
          /\ wOcc'[t][x] = "reserved" <=> x \in wResv'[t]
          /\ x \in late'[t] => wOcc'[t][x] = "free"
          /\ req'[t].kind = "deactivate" => wOcc'[t][x] # "reserved"
    BY <1>1, <2>1, <2>2 DEF ViewOK
  <2>. QED BY <2>5, <2>6, <2>7 DEF ViewOK
<1>9. CASE Reserve(t)
  <2>. DEFINE y == Head(todo[t]).a
  <2>1. /\ SameCall /\ dead' = dead
        /\ late'[t] = {} /\ wResv'[t] = wResv[t] \cup {y}
        /\ wOcc'[t] = [wOcc[t] EXCEPT ![y] = "reserved"]
        /\ wOcc[t][y] = "free"
    BY <1>0, <1>5, <1>9 DEF Reserve, ReserveAllowed, TypeOK
  <2>2. y \in TermsOf(t) \cap Terminal /\ req[t].kind # "deactivate" BY <1>7, <1>9
  <2>3. Live(t)' = Live(t) BY <2>1 DEF Live
  <2>4. \A d \in Live(t) : y \notin Ends(d)
    BY <2>1, <2>2 DEF ViewOK
  <2>5. \A d \in Live(t)' : \A x \in Ends(d)' \cap TermsOf(t)' : wOcc'[t][x] = "connected"
    BY <1>1, <2>1, <2>3, <2>4 DEF ViewOK, Ends
  <2>6. \A d, e \in Live(t)' : d # e => Ends(d)' \cap Ends(e)' \cap TermsOf(t)' = {}
    BY <2>1, <2>3 DEF ViewOK, Ends
  <2>7. \A x \in TermsOf(t)' \cap Terminal :
          /\ wOcc'[t][x] = "reserved" <=> x \in wResv'[t]
          /\ x \in late'[t] => wOcc'[t][x] = "free"
          /\ req'[t].kind = "deactivate" => wOcc'[t][x] # "reserved"
    BY <1>1, <2>1, <2>2 DEF ViewOK
  <2>. QED BY <2>5, <2>6, <2>7 DEF ViewOK
<1>10. CASE Disconnect(t)
  <2>. DEFINE op == Head(todo[t])
  <2>1. PICK c \in On(t, op.a) :
          /\ dead' = [dead EXCEPT ![t] = @ \cup {c}]
          /\ wOcc' = [wOcc EXCEPT ![t] =
               [x \in Terminal |-> IF x \in DisconnectFrees(t, op, c) THEN "free" ELSE @[x]]]
    BY <1>10 DEF Disconnect
  <2>. DEFINE freed == DisconnectFrees(t, op, c)
  <2>2. /\ SameCall /\ wResv' = wResv /\ late' = late
        /\ dead'[t] = dead[t] \cup {c}
        /\ wOcc'[t] = [x \in Terminal |-> IF x \in freed THEN "free" ELSE wOcc[t][x]]
    BY <1>0, <1>5, <1>10, <2>1 DEF Disconnect, TypeOK
  <2>3. op.a \in TermsOf(t) \cap Terminal /\ req[t].kind # "deactivate"
    <3>1. /\ op \in Op /\ req[t].kind # "deactivate"
          /\ \E j \in DOMAIN req[t].ops : op = req[t].ops[j]
      BY <1>0, <1>10, Current DEF Disconnect
    <3>2. op.act # "deactivate" BY <1>10 DEF Disconnect, Doing
    <3>. QED BY <3>1, <3>2 DEF Op, TermsOf
  <2>4. c \in Live(t) /\ freed \subseteq Ends(c) \cap TermsOf(t)
    BY <2>1, <2>3 DEF On, DisconnectFrees
  <2>5. \A d \in Live(t)' : d \in Live(t) /\ d # c /\ Ends(d)' = Ends(d)
    BY <2>2 DEF Live, Ends
  <2>6. \A d \in Live(t)' : Ends(d) \cap freed = {}
    BY <2>2, <2>4, <2>5 DEF ViewOK
  <2>7. \A x \in freed : wOcc[t][x] = "connected"
    BY <2>2, <2>4 DEF ViewOK
  <2>8. \A d \in Live(t)' : \A x \in Ends(d)' \cap TermsOf(t)' : wOcc'[t][x] = "connected"
    <3>1. ASSUME NEW d \in Live(t)', NEW x \in Ends(d)' \cap TermsOf(t)'
          PROVE  wOcc'[t][x] = "connected"
      <4>1. wOcc[t][x] = "connected" /\ x \notin freed
        BY <2>2, <2>5, <2>6, <3>1 DEF ViewOK
      <4>2. x \in Terminal
        BY <1>0, <2>5, <3>1 DEF Live, LinkedMeansConnected, Active, SessionOK
      <4>. QED BY <2>2, <4>1, <4>2
    <3>. QED BY <3>1
  <2>9. \A d, e \in Live(t)' : d # e => Ends(d)' \cap Ends(e)' \cap TermsOf(t)' = {}
    BY <2>2, <2>5 DEF ViewOK
  <2>10. \A x \in TermsOf(t)' \cap Terminal :
          /\ wOcc'[t][x] = "reserved" <=> x \in wResv'[t]
          /\ x \in late'[t] => wOcc'[t][x] = "free"
          /\ req'[t].kind = "deactivate" => wOcc'[t][x] # "reserved"
    BY <2>2, <2>3, <2>7 DEF ViewOK
  <2>. QED BY <2>8, <2>9, <2>10 DEF ViewOK
<1>11. ASSUME \/ \E r \in Request : Begin(t, r)
              \/ LockConnection(t) \/ LockStructure(t) \/ CheckRevision(t) \/ LockTerminal(t)
              \/ Commit(t) \/ Rollback(t)
       PROVE  FALSE
  BY <1>0, <1>11 DEF Begin, LockConnection, LockStructure, CheckRevision, LockTerminal, Lock,
     Commit, Rollback, Finish, TypeOK, Writing
<1>. QED
  BY <1>2, <1>3, <1>4, <1>6, <1>8, <1>9, <1>10, <1>11
     DEF Move, Step, Refuse, DeadlockVictim, LoseSession

(* Every step keeps the views of all writing sessions consistent.            *)
LEMMA ViewStep == Inductive /\ [Next]_vars => ViewInv'
<1>. SUFFICES ASSUME Inductive, [Next]_vars, NEW u \in Txn, Writing(u)' PROVE ViewOK(u)'
  BY DEF ViewInv
<1>1. CASE UNCHANGED vars
  BY <1>1 DEF Inductive, ViewInv, ViewOK, Live, TermsOf, Ends, Writing, vars, tables, session
<1>2. ASSUME NEW t \in Txn, Move(t) PROVE ViewOK(u)'
  <2>1. CASE u = t BY <1>2, <2>1, OwnView
  <2>2. CASE u # t
    <3>1. Writing(u) BY <1>2, <2>2, Frame DEF Inductive, Writing
    <3>. QED BY <1>2, <2>2, <3>1, OthersView
  <2>. QED BY <2>1, <2>2
<1>. QED BY <1>1, <1>2 DEF Next

(* No step makes a connection whose two ends are one terminal.               *)
LEMMA DistinctStep == TypeOK /\ Plan /\ SessionInv /\ DistinctInv /\ [Next]_vars => DistinctInv'
<1>. SUFFICES ASSUME TypeOK, Plan, SessionInv, DistinctInv, [Next]_vars PROVE DistinctInv'
  OBVIOUS
<1>1. CASE UNCHANGED vars
  BY <1>1 DEF DistinctInv, vars, tables
<1>2. ASSUME NEW t \in Txn, Move(t) PROVE DistinctInv'
  <2>1. \A j \in DOMAIN req'[t].ops :
          req'[t].ops[j].a # req'[t].ops[j].b \/ req'[t].ops[j].b = None
    <3>1. CASE req'[t] = req[t] BY <3>1 DEF DistinctInv
    <3>2. CASE req'[t] = Idle BY <3>2 DEF Idle
    <3>3. ASSUME NEW r \in Request, Begin(t, r)
          PROVE  req'[t] = r /\ \A j \in DOMAIN r.ops : r.ops[j].a # r.ops[j].b \/ r.ops[j].b = None
      BY <3>3 DEF Begin, TypeOK
    <3>4. CASE Commit(t) \/ Rollback(t)
      BY <3>2, <3>4 DEF Commit, NewRevision, Rollback, Finish, TypeOK
    <3>5. CASE ~(Commit(t) \/ Rollback(t) \/ \E r \in Request : Begin(t, r))
      BY <1>2, <3>1, <3>5 DEF Move, Step, LockConnection, LockStructure, CheckRevision,
         LockTerminal, StartBody, CreateConnection, Connect, Insert, DeactivateConnection,
         Release, Reserve, Disconnect, Bump, Lock, Refuse, DeadlockVictim, LoseSession
    <3>. QED BY <3>3, <3>4, <3>5
  <2>2. \A u \in Txn \ {t} : req'[u] = req[u] BY <1>2, Frame
  <2>3. \A c \in ConnId : conn'[c].status # "none" => conn'[c].a # conn'[c].b
    <3>1. CASE conn' = conn BY <3>1 DEF DistinctInv
    <3>2. CASE Commit(t)
      <4>1. ASSUME NEW c \in ConnId
            PROVE  /\ conn'[c].a = conn[c].a /\ conn'[c].b = conn[c].b
                   /\ conn[c].status = "none" => c \notin born[t] /\ c \notin dead[t]
        <5>1. conn'[c] = Committed(t)[c] BY <3>2 DEF Commit, NewRevision
        <5>2. conn[c] \in [a : Terminal \cup {None}, b : Terminal \cup {None},
                           status : {"none", "pending", "active", "inactive"}, version : Nat]
          BY DEF TypeOK
        <5>. QED BY <5>1, <5>2 DEF Committed, SessionInv, Pending, SessionOK
      <4>. QED BY <3>2, <4>1 DEF Commit, NewRevision, Committed, DistinctInv
    <3>3. CASE Rollback(t)
      BY <3>3 DEF Rollback, NoConnection, DistinctInv
    <3>4. CASE CreateConnection(t) \/ Connect(t)
      <4>1. PICK c \in ConnId, op \in Op :
              /\ op = Head(todo[t])
              /\ conn' = [conn EXCEPT ![c] = [a |-> op.a, b |-> op.b,
                                              status |-> "pending", version |-> 1]]
              /\ Connectable(t, op)
        BY <3>4, Inserted
      <4>2. \E j \in DOMAIN req[t].ops : op = req[t].ops[j]
        BY <3>4, <4>1, Current DEF CreateConnection, Connect
      <4>3. op.a # op.b BY <4>1, <4>2 DEF DistinctInv, Connectable
      <4>. QED BY <4>1, <4>3 DEF DistinctInv, TypeOK
    <3>. QED BY <1>2, <3>1, <3>2, <3>3, <3>4, ConnMoves
  <2>. QED BY <2>1, <2>2, <2>3 DEF DistinctInv
<1>. QED BY <1>1, <1>2 DEF Next

(* The inductive invariant holds in the empty database.                      *)
LEMMA InitInductive == Init => Inductive
<1>. SUFFICES ASSUME Init PROVE Inductive
  OBVIOUS
<1>1. TypeOK BY InitTyped
<1>2. Plan BY DEF Init, Plan
<1>3. LockInv /\ RowInv BY DEF Init, LockInv, RowInv, Writing
<1>4. SessionInv BY DEF Init, SessionInv, Pending, Own, SessionOK, Idle
<1>5. ViewInv BY DEF Init, ViewInv, Writing
<1>6. Exclusive /\ LinkedMeansConnected /\ ReservedMeansReservation
  BY DEF Init, Exclusive, LinkedMeansConnected, ReservedMeansReservation, Active, NoConnection
<1>7. DistinctInv BY DEF Init, DistinctInv, NoConnection, Idle
<1>. QED BY <1>1, <1>2, <1>3, <1>4, <1>5, <1>6, <1>7 DEF Inductive

(* Every step keeps the inductive invariant.                                 *)
LEMMA InductiveStep == Inductive /\ [Next]_vars => Inductive'
BY TypeStep, PlanStep, SessionStep, LockStep, RowStep, ViewStep, CommittedStep,
   DistinctStep DEF Inductive

(* The lock discipline and the sessions' views hold in every state.          *)
THEOREM Invariance == Spec => []Inductive
BY InitInductive, InductiveStep, PTL DEF Spec

(* Every column and session variable keeps its domain.                       *)
THEOREM Typing == Spec => []TypeOK
<1>1. Inductive => TypeOK BY DEF Inductive
<1>. QED BY <1>1, Invariance, PTL

(* No terminal is ever in two active connections, by the row locks alone:    *)
(* the partial unique index of connection_endpoints has nothing to refuse.   *)
THEOREM NoDoubleConnection == Spec => []Exclusive
<1>1. Inductive => Exclusive BY DEF Inductive
<1>. QED BY <1>1, Invariance, PTL

(* No interleaving of create, deactivate and batch calls frees or reserves a *)
(* terminal under an active connection, and occupancy agrees with the        *)
(* reservation rows.                                                         *)
THEOREM OccupancyIsHonest == Spec => [](LinkedMeansConnected /\ ReservedMeansReservation)
<1>1. Inductive => LinkedMeansConnected /\ ReservedMeansReservation BY DEF Inductive
<1>. QED BY <1>1, Invariance, PTL

(* Every step is a rewiring of the patch panel or a stutter.                 *)
LEMMA PanelStep ==
    Inductive /\ Inductive' /\ [Next]_vars => [Panel!Rewire]_<<Wiring, rev>>
<1>. SUFFICES ASSUME Inductive, Inductive', [Next]_vars
              PROVE  \/ Panel!Rewire
                     \/ Wiring' = Wiring /\ rev' = rev
  OBVIOUS
<1>0. TypeOK /\ Pending BY DEF Inductive, SessionInv
<1>1. CASE UNCHANGED vars
  BY <1>1 DEF Wiring, Active, Ends, vars, tables
<1>2. ASSUME NEW t \in Txn, Move(t), ~Commit(t) PROVE Wiring' = Wiring /\ rev' = rev
  <2>1. \A c \in ConnId : (Active(c)' <=> Active(c)) /\ (Active(c) => Ends(c)' = Ends(c))
    BY <1>0, <1>2, ActiveKept, CommittedKept DEF Active
  <2>2. Wiring' = Wiring BY <2>1 DEF Wiring
  <2>3. rev' = rev
    BY <1>2 DEF Move, Begin, Step, LockConnection, LockStructure, CheckRevision, LockTerminal,
       StartBody, CreateConnection, Connect, Insert, DeactivateConnection, Release, Reserve,
       Disconnect, Bump, Lock, Refuse, DeadlockVictim, LoseSession, Rollback, tables
  <2>. QED BY <2>2, <2>3
<1>3. ASSUME NEW t \in Txn, Commit(t) PROVE Panel!Rewire
  <2>1. rev' = rev + 1 BY <1>3 DEF Commit, NewRevision
  <2>2. Panel!Matching(Wiring')
    <3>1. Exclusive' BY DEF Inductive
    <3>. QED BY <3>1 DEF Exclusive, Wiring, Panel!Matching
  <2>3. Wiring' \subseteq Panel!Pairs
    <3>1. ASSUME NEW c \in ConnId, Active(c)' PROVE Ends(c)' \in Panel!Pairs
      <4>1. conn'[c].a # conn'[c].b /\ Ends(c)' \subseteq Terminal
        BY <3>1 DEF Inductive, DistinctInv, LinkedMeansConnected, Active
      <4>2. <<conn'[c].a, conn'[c].b>> \in {q \in Terminal \X Terminal : q[1] # q[2]}
        BY <4>1 DEF Ends
      <4>. QED BY <4>2 DEF Panel!Pairs, Ends
    <3>. QED BY <3>1 DEF Wiring
  <2>. QED BY <2>1, <2>2, <2>3 DEF Panel!Rewire
<1>. QED BY <1>1, <1>2, <1>3 DEF Next

(* The engine refines the patch panel: its wiring is a matching and changes  *)
(* only in steps that increment the topology revision.                       *)
THEOREM Refinement == Spec => PanelSpec
<1>1. Init => Panel!Init
  BY DEF Init, Panel!Init, Wiring, Active, NoConnection
<1>2. Inductive /\ Inductive' /\ [Next]_vars => [Panel!Rewire]_<<Wiring, rev>>
  BY PanelStep
<1>. QED BY <1>1, <1>2, Invariance, PTL DEF Spec, PanelSpec, Panel!Spec
-----------------------------------------------------------------------------
(* History.  A session deactivates connections that are still active, and no *)
(* two sessions the same one: a deactivation holds the connection's row and  *)
(* both its ends, and a batch holds the structure in which all of them lie.  *)
HoldsRow(t) ==
    Writing(t) /\ req[t].kind = "deactivate" =>
      Row("connections", req[t].conn) \in locks[t] /\ Active(req[t].conn)

HoldsStructure(t) ==
    pc[t] \in {"revision", "terminals", "body", "commit"} /\ req[t].kind = "batch" =>
      Row("structures", req[t].structure) \in locks[t]

DeadOK(t) ==
    \A c \in dead[t] :
      /\ Active(c) \/ c \in born[t]
      /\ Ends(c) \cap TermsOf(t) # {}
      /\ req[t].kind # "create"
      /\ req[t].kind = "deactivate" => Ends(c) \subseteq TermsOf(t)

HistoryOK(t) == HoldsRow(t) /\ HoldsStructure(t) /\ (Writing(t) => Located(t)) /\ DeadOK(t)

Housed == \A c \in ConnId : conn[c].status # "none" =>
            LocationOf[conn[c].a] = LocationOf[conn[c].b]

HistoryInv == Housed /\ \A t \in Txn : HistoryOK(t)

(* Whoever deactivates a connection has one of its ends locked.              *)
LEMMA DeadApart ==
    ASSUME Inductive, HistoryInv, NEW t \in Txn, NEW u \in Txn \ {t}
    PROVE  dead[t] \cap dead[u] = {}
<1>. SUFFICES ASSUME NEW c \in dead[t] \cap dead[u] PROVE FALSE
  OBVIOUS
<1>0. /\ TypeOK /\ LockInv /\ SessionInv /\ Pending /\ Own
      /\ SessionOK(t) /\ SessionOK(u) /\ DeadOK(t) /\ DeadOK(u) /\ c \in ConnId
      /\ Exclusive /\ LinkedMeansConnected
  BY DEF Inductive, SessionInv, HistoryInv, HistoryOK, TypeOK
<1>1. Writing(t) /\ Writing(u) /\ TermsOf(t) \cap TermsOf(u) = {}
  <2>1. Writing(t) /\ Writing(u) BY <1>0 DEF SessionOK
  <2>. QED BY <1>0, <2>1, Apart
<1>2. Active(c)
  BY <1>0 DEF DeadOK, Pending, Own, Active
<1>3. req[t].kind # "deactivate" /\ req[u].kind # "deactivate"
  BY <1>0, <1>1 DEF DeadOK
<1>4. req[t].kind = "batch" /\ req[u].kind = "batch" /\ req[t] \in Request /\ req[u] \in Request
  BY <1>0, <1>1, <1>3, RequestAssumption DEF DeadOK, SessionOK, Writing, Requests
<1>5. PICK x \in Ends(c) \cap TermsOf(t), y \in Ends(c) \cap TermsOf(u) : TRUE
  BY <1>0 DEF DeadOK
<1>6. LocationOf[x] = req[t].structure /\ LocationOf[y] = req[u].structure
  BY <1>1, <1>4, <1>5 DEF HistoryInv, HistoryOK, Located
<1>7. LocationOf[x] = LocationOf[y]
  BY <1>0, <1>2, <1>5 DEF HistoryInv, Housed, Ends, Active
<1>8. Row("structures", req[t].structure) \in locks[t] \cap locks[u]
  BY <1>1, <1>4, <1>6, <1>7 DEF HistoryInv, HistoryOK, HoldsStructure, Writing
<1>. QED BY <1>0, <1>8 DEF LockInv

(* Every insertion has both ends in one place.                               *)
LEMMA HousedStep == Inductive /\ HistoryInv /\ [Next]_vars => Housed'
<1>. SUFFICES ASSUME Inductive, HistoryInv, [Next]_vars PROVE Housed'
  OBVIOUS
<1>0. TypeOK /\ Plan /\ SessionInv /\ Pending /\ Housed
  BY DEF Inductive, SessionInv, HistoryInv
<1>1. CASE UNCHANGED vars
  BY <1>0, <1>1 DEF Housed, vars, tables
<1>2. ASSUME NEW t \in Txn, Move(t) PROVE Housed'
  <2>1. CASE conn' = conn
    BY <1>0, <2>1 DEF Housed
  <2>2. CASE Commit(t)
    <3>1. ASSUME NEW c \in ConnId
          PROVE  /\ conn'[c].a = conn[c].a /\ conn'[c].b = conn[c].b
                 /\ conn[c].status = "none" => conn'[c] = conn[c]
      <4>1. conn'[c] = Committed(t)[c] BY <2>2 DEF Commit, NewRevision
      <4>2. conn[c] \in [a : Terminal \cup {None}, b : Terminal \cup {None},
                         status : {"none", "pending", "active", "inactive"}, version : Nat]
        BY <1>0 DEF TypeOK
      <4>. QED BY <1>0, <4>1, <4>2 DEF Committed, SessionInv, Pending, SessionOK
    <3>. QED BY <1>0, <3>1 DEF Housed
  <2>3. CASE Rollback(t)
    BY <1>0, <2>3 DEF Rollback, NoConnection, Housed
  <2>4. CASE CreateConnection(t) \/ Connect(t)
    <3>1. PICK c \in ConnId, op \in Op :
            /\ op = Head(todo[t])
            /\ conn' = [conn EXCEPT ![c] = [a |-> op.a, b |-> op.b,
                                            status |-> "pending", version |-> 1]]
            /\ {op.a, op.b} \subseteq TermsOf(t) \cap Terminal
      BY <1>0, <2>4, Inserted
    <3>2. LocationOf[op.a] = LocationOf[op.b]
      <4>1. CASE CreateConnection(t)
        BY <3>1, <4>1 DEF CreateConnection, CreateAllowed, SameLocation
      <4>2. CASE Connect(t)
        <5>1. req[t].kind = "batch"
          <6>1. req[t] \in Request /\ req[t].kind \notin {"create", "deactivate"}
            BY <1>0, <4>2, Current DEF Connect
          <6>. QED BY <6>1, RequestAssumption DEF Requests
        <5>2. Located(t)
          BY <4>2 DEF Connect, Doing, Writing, HistoryInv, HistoryOK
        <5>. QED BY <3>1, <5>1, <5>2 DEF Located
      <4>. QED BY <2>4, <4>1, <4>2
    <3>. QED BY <1>0, <3>1, <3>2 DEF Housed, TypeOK
  <2>. QED BY <1>0, <1>2, <2>1, <2>2, <2>3, <2>4, ConnMoves
<1>. QED BY <1>1, <1>2 DEF Next

(* What another session commits is neither locked nor deactivated here.      *)
LEMMA OthersHistory ==
    ASSUME Inductive, HistoryInv, NEW t \in Txn, Move(t), NEW u \in Txn \ {t}
    PROVE  HistoryOK(u)'
<1>0. /\ TypeOK /\ SessionInv /\ Pending /\ SessionOK(u) /\ HistoryOK(u)
  BY DEF Inductive, SessionInv, HistoryInv
<1>1. /\ pc'[u] = pc[u] /\ req'[u] = req[u] /\ locks'[u] = locks[u]
      /\ born'[u] = born[u] /\ dead'[u] = dead[u]
  BY <1>0, Frame
<1>2. TermsOf(u)' = TermsOf(u)
  BY <1>0, <1>1, TermsKept DEF SessionOK
<1>3. Writing(u)' => Writing(u) /\ Located(u)'
  BY <1>0, <1>1, <1>2 DEF Writing, HistoryOK, Located
<1>4. ASSUME NEW c \in ConnId, Active(c), c \notin dead[t] PROVE Active(c)'
  <2>1. CASE ~Commit(t) BY <1>0, <1>4, <2>1, ActiveKept
  <2>2. CASE Commit(t)
    BY <1>0, <1>4, <2>2, CommitActivates DEF Live, Active
  <2>. QED BY <2>1, <2>2
<1>5. HoldsRow(u)'
  <2>. SUFFICES ASSUME Writing(u)', req'[u].kind = "deactivate"
                PROVE  (Row("connections", req[u].conn) \in locks[u] /\ Active(req[u].conn))'
    BY DEF HoldsRow
  <2>. DEFINE c == req[u].conn
  <2>1. /\ Row("connections", c) \in locks[u] /\ Active(c) /\ c \in ConnId
    BY <1>0, <1>1, <1>3, RequestTyped DEF HistoryOK, HoldsRow
  <2>2. conn'[c].status = "active"
    <3>1. CASE ~Commit(t)
      BY <1>0, <2>1, <3>1, ActiveKept DEF Active
    <3>2. CASE Commit(t)
      <4>1. c \notin dead[t] \ born[t]
        BY <2>1, <3>2 DEF Commit, NewRevision, FlushFree, Flushed, LockFree
      <4>2. c \notin born[t]
        BY <1>0, <2>1 DEF Pending, Active
      <4>. QED BY <1>4, <2>1, <4>1, <4>2 DEF Active
    <3>. QED BY <3>1, <3>2
  <2>. QED BY <1>1, <2>1, <2>2 DEF Active, Row
<1>6. DeadOK(u)'
  <2>1. ASSUME NEW c \in dead[u]
        PROVE  Ends(c)' = Ends(c) /\ (Active(c)' \/ c \in born'[u])
    <3>1. c \in ConnId /\ c \notin dead[t] /\ (Active(c) \/ c \in born[u])
      BY <1>0, DeadApart DEF HistoryOK, DeadOK, TypeOK
    <3>2. CASE Active(c)
      BY <1>0, <1>4, <3>1, <3>2, CommittedKept DEF Active
    <3>3. CASE c \in born[u]
      BY <1>0, <1>1, <3>3, BornKept DEF Ends
    <3>. QED BY <3>1, <3>2, <3>3
  <2>. QED BY <1>0, <1>1, <1>2, <2>1 DEF HistoryOK, DeadOK
<1>7. HoldsStructure(u)'
  BY <1>0, <1>1 DEF HistoryOK, HoldsStructure, Row
<1>. QED BY <1>3, <1>5, <1>6, <1>7 DEF HistoryOK

(* A session takes the locks that its deactivations rely on, and keeps them. *)
LEMMA OwnHistory ==
    ASSUME Inductive, HistoryInv, NEW t \in Txn, Move(t)
    PROVE  HistoryOK(t)'
<1>0. /\ TypeOK /\ Plan /\ SessionInv /\ Pending /\ SessionOK(t) /\ HistoryOK(t) /\ RowInv
  BY DEF Inductive, SessionInv, HistoryInv
<1>1. CASE Commit(t) \/ Rollback(t)
  <2>1. pc'[t] = "idle" /\ dead'[t] = {}
    BY <1>0, <1>1 DEF Commit, NewRevision, Rollback, Finish, TypeOK
  <2>. QED BY <2>1 DEF HistoryOK, HoldsRow, HoldsStructure, DeadOK, Writing
<1>2. CASE \E r \in Request : Begin(t, r)
  <2>1. pc'[t] \in {"row", "terminals", "structure"} /\ dead'[t] = dead[t] /\ pc[t] = "idle"
        /\ (pc'[t] = "terminals" => req'[t].kind = "create")
    BY <1>0, <1>2 DEF Begin, TypeOK, session
  <2>2. dead'[t] = {}
    BY <1>0, <2>1 DEF SessionOK, Writing
  <2>. QED BY <2>1, <2>2 DEF HistoryOK, HoldsRow, HoldsStructure, DeadOK, Writing
<1>3. CASE LockConnection(t) \/ LockStructure(t) \/ CheckRevision(t) \/ LockTerminal(t)
  <2>1. /\ dead' = dead /\ req' = req /\ locks[t] \subseteq locks'[t]
        /\ ~Writing(t) /\ pc'[t] \in {"revision", "terminals"}
    BY <1>0, <1>3 DEF LockConnection, LockStructure, CheckRevision, LockTerminal, Lock, Writing,
       TypeOK, session
  <2>2. dead'[t] = {} /\ ~Writing(t)'
    BY <1>0, <2>1 DEF SessionOK, Writing
  <2>3. HoldsStructure(t)'
    <3>1. CASE LockConnection(t)
      BY <1>0, <2>1, <3>1 DEF LockConnection, SessionOK, HoldsStructure
    <3>2. CASE LockStructure(t)
      BY <1>0, <2>1, <3>2 DEF LockStructure, Lock, TypeOK, HoldsStructure, Row
    <3>3. CASE CheckRevision(t) \/ LockTerminal(t)
      BY <1>0, <2>1, <3>3 DEF CheckRevision, LockTerminal, HistoryOK, HoldsStructure, Row
    <3>. QED BY <1>3, <3>1, <3>2, <3>3
  <2>. QED BY <2>2, <2>3 DEF HistoryOK, HoldsRow, DeadOK
<1>4. CASE StartBody(t)
  <2>1. /\ UNCHANGED <<conn, req, dead, locks>> /\ pc[t] = "terminals" /\ Located(t)
        /\ pc'[t] = "body"
    BY <1>0, <1>4 DEF StartBody, TypeOK, tables
  <2>2. dead'[t] = {} /\ Located(t)'
    BY <1>0, <2>1 DEF SessionOK, Writing, Located, TermsOf, Ends
  <2>3. HoldsRow(t)'
    BY <1>0, <2>1 DEF RowInv, HoldsRow, Row, Active
  <2>4. HoldsStructure(t)'
    BY <1>0, <2>1 DEF HistoryOK, HoldsStructure, Row
  <2>. QED BY <2>2, <2>3, <2>4 DEF HistoryOK, DeadOK
<1>5. CASE \/ CreateConnection(t) \/ Connect(t) \/ DeactivateConnection(t) \/ Release(t)
           \/ Reserve(t) \/ Disconnect(t) \/ Bump(t)
  <2>1. /\ req' = req /\ locks[t] \subseteq locks'[t] /\ Writing(t)
    BY <1>0, <1>5 DEF CreateConnection, Connect, Insert, DeactivateConnection, Release, Reserve,
       Disconnect, Doing, Bump, Lock, TypeOK, Writing
  <2>2. TermsOf(t)' = TermsOf(t)
    BY <1>0, <2>1, TermsKept DEF SessionOK
  <2>3. ~Commit(t)
    BY <1>0, <1>5 DEF CreateConnection, Connect, Insert, DeactivateConnection, Release, Reserve,
       Disconnect, Doing, Bump, Commit
  <2>4. \A c \in ConnId : Active(c) => Active(c)' /\ Ends(c)' = Ends(c)
    BY <1>0, <2>3, ActiveKept, CommittedKept DEF Active
  <2>5. Located(t)'
    BY <1>0, <2>1, <2>2 DEF HistoryOK, Located
  <2>6. HoldsRow(t)'
    <3>. SUFFICES ASSUME req[t].kind = "deactivate"
                  PROVE  (Row("connections", req[t].conn) \in locks[t] /\ Active(req[t].conn))'
      BY <2>1 DEF HoldsRow
    <3>1. Row("connections", req[t].conn) \in locks[t] /\ Active(req[t].conn) /\ req[t].conn \in ConnId
      BY <1>0, <2>1, RequestTyped DEF HistoryOK, HoldsRow
    <3>. QED BY <2>1, <2>4, <3>1 DEF Active, Row
  <2>7. HoldsStructure(t)'
    BY <1>0, <2>1 DEF HistoryOK, HoldsStructure, Writing, Row
  <2>8. ASSUME NEW c \in dead'[t]
        PROVE  /\ c \in ConnId
               /\ Active(c) \/ c \in born[t]
               /\ Ends(c) \cap TermsOf(t) # {}
               /\ req[t].kind # "create"
               /\ req[t].kind = "deactivate" => Ends(c) \subseteq TermsOf(t)
    <3>1. CASE c \in dead[t]
      BY <1>0, <3>1 DEF HistoryOK, DeadOK, TypeOK
    <3>2. CASE DeactivateConnection(t) /\ c \notin dead[t]
      <4>1. c = req[t].conn /\ req[t].kind = "deactivate"
        BY <1>0, <2>8, <3>2, Current DEF DeactivateConnection, TypeOK
      <4>2. c \in ConnId /\ Active(c) /\ TermsOf(t) = Ends(c)
        BY <1>0, <2>1, <4>1, RequestTyped DEF HistoryOK, HoldsRow, TermsOf
      <4>. QED BY <4>1, <4>2 DEF Ends
    <3>3. CASE Disconnect(t) /\ c \notin dead[t]
      <4>. DEFINE op == Head(todo[t])
      <4>1. c \in On(t, op.a)
        BY <1>0, <2>8, <3>3 DEF Disconnect, TypeOK
      <4>2. /\ op \in Op /\ req[t].kind \notin {"create", "deactivate"}
            /\ \E j \in DOMAIN req[t].ops : op = req[t].ops[j]
        BY <1>0, <3>3, Current DEF Disconnect
      <4>3. op.a \in TermsOf(t)
        BY <4>2 DEF TermsOf
      <4>. QED BY <4>1, <4>2, <4>3 DEF On, Live, Active
    <3>4. dead'[t] = dead[t] \/ DeactivateConnection(t) \/ Disconnect(t)
      BY <1>5 DEF CreateConnection, Connect, Insert, Release, Reserve, Bump, Lock, session
    <3>. QED BY <2>8, <3>1, <3>2, <3>3, <3>4
  <2>9. born[t] \subseteq born'[t] /\ \A c \in born[t] : Ends(c)' = Ends(c)
    <3>1. CASE conn' = conn /\ born' = born
      BY <3>1 DEF Ends
    <3>2. CASE CreateConnection(t) \/ Connect(t)
      <4>1. PICK c \in ConnId, op \in Op :
              /\ conn[c].status = "none"
              /\ conn' = [conn EXCEPT ![c] = [a |-> op.a, b |-> op.b,
                                              status |-> "pending", version |-> 1]]
              /\ born' = [born EXCEPT ![t] = @ \cup {c}]
        BY <1>0, <3>2, Inserted
      <4>. QED BY <1>0, <4>1 DEF Pending, TypeOK, Ends
    <3>. QED BY <1>5, <3>1, <3>2 DEF DeactivateConnection, Release, Reserve, Disconnect, Bump, Lock,
         tables, session
  <2>10. DeadOK(t)'
    BY <2>1, <2>2, <2>4, <2>8, <2>9 DEF DeadOK
  <2>. QED BY <2>5, <2>6, <2>7, <2>10 DEF HistoryOK
<1>. QED
  BY <1>1, <1>2, <1>3, <1>4, <1>5 DEF Move, Step, Refuse, DeadlockVictim, LoseSession

LEMMA HistoryStep == Inductive /\ HistoryInv /\ [Next]_vars => HistoryInv'
<1>. SUFFICES ASSUME Inductive, HistoryInv, [Next]_vars PROVE HistoryInv'
  OBVIOUS
<1>1. Housed' BY HousedStep
<1>2. ASSUME NEW u \in Txn PROVE HistoryOK(u)'
  <2>1. CASE UNCHANGED vars
    <3>1. TermsOf(u)' = TermsOf(u) /\ \A c : Ends(c)' = Ends(c) /\ (Active(c)' <=> Active(c))
      BY <2>1 DEF TermsOf, Ends, Active, vars, tables
    <3>2. Located(u)' <=> Located(u)
      BY <2>1, <3>1 DEF Located, vars
    <3>3. DeadOK(u)' <=> DeadOK(u)
      BY <2>1, <3>1 DEF DeadOK, vars, session
    <3>4. HoldsStructure(u)' <=> HoldsStructure(u)
      BY <2>1 DEF HoldsStructure, Row, vars
    <3>5. HoldsRow(u)' <=> HoldsRow(u)
      BY <2>1 DEF HoldsRow, Writing, Row, Active, vars, tables
    <3>. QED BY <2>1, <3>2, <3>3, <3>4, <3>5 DEF HistoryInv, HistoryOK, Writing, vars
  <2>2. ASSUME NEW t \in Txn, Move(t) PROVE HistoryOK(u)'
    BY <2>2, OwnHistory, OthersHistory
  <2>. QED BY <2>1, <2>2 DEF Next
<1>. QED BY <1>1, <1>2 DEF HistoryInv

LEMMA HistoryHolds == Spec => []HistoryInv
<1>1. Init => HistoryInv
  BY DEF Init, HistoryInv, HistoryOK, HoldsRow, HoldsStructure, DeadOK, Writing, Housed, NoConnection
<1>. QED BY <1>1, HistoryStep, Invariance, PTL DEF Spec

(* A deactivated connection is never written again: whatever sessions race   *)
(* to disconnect it, the row lock of the deactivation and the structure lock *)
(* of the batch leave it to one of them.                                     *)
THEOREM DeactivatedOnce == Spec => HistoryKept
<1>1. Inductive /\ HistoryInv /\ [Next]_vars
        => [\A c \in ConnId : conn[c].status = "inactive" => conn'[c] = conn[c]]_vars
  <2>. SUFFICES ASSUME Inductive, HistoryInv, NEW t \in Txn, Move(t),
                       NEW c \in ConnId, conn[c].status = "inactive"
                PROVE  conn'[c] = conn[c]
    BY DEF Next
  <2>0. TypeOK /\ SessionInv /\ Pending /\ DeadOK(t) /\ c \notin born[t]
    BY DEF Inductive, SessionInv, HistoryInv, HistoryOK, Pending
  <2>1. CASE Commit(t)
    BY <2>0, <2>1 DEF DeadOK, Active, Commit, NewRevision, Committed
  <2>2. CASE Rollback(t)
    BY <2>0, <2>2 DEF Rollback
  <2>3. ASSUME NEW op, Insert(t, op) PROVE conn'[c] = conn[c]
    BY <2>0, <2>3 DEF Insert, TypeOK
  <2>. QED BY <2>0, <2>1, <2>2, <2>3, ConnMoves DEF CreateConnection, Connect
<1>. QED BY <1>1, Invariance, HistoryHolds, PTL DEF Spec, HistoryKept
-----------------------------------------------------------------------------
(* Occupancy has its record.  The backend lets a batch disconnect a terminal *)
(* without naming the other end, which then stays marked; the console's      *)
(* DisconnectDialog, the only one to send the operation, names both.         *)
BothNamed ==
    \A r \in Request : \A i \in DOMAIN r.ops :
      r.ops[i].act = "disconnect" => r.ops[i].b # None

RecordOK(t) ==
    /\ \A c \in dead[t] : Ends(c) \subseteq TermsOf(t)
    /\ Writing(t) =>
         \A x \in TermsOf(t) \cap Terminal :
           wOcc[t][x] = "connected" => \E c \in Live(t) : x \in Ends(c)

RecordInv == ConnectedMeansLinked /\ \A t \in Txn : RecordOK(t)

(* A commit leaves no terminal marked without the connection its session saw.*)
LEMMA LinkedStep == Inductive /\ RecordInv /\ [Next]_vars => ConnectedMeansLinked'
<1>. SUFFICES ASSUME Inductive, RecordInv, [Next]_vars PROVE ConnectedMeansLinked'
  OBVIOUS
<1>0. TypeOK /\ SessionInv /\ Pending /\ ConnectedMeansLinked
  BY DEF Inductive, SessionInv, RecordInv
<1>1. CASE UNCHANGED vars
  BY <1>0, <1>1 DEF ConnectedMeansLinked, Active, Ends, vars, tables
<1>2. ASSUME NEW t \in Txn, Move(t), ~Commit(t) PROVE ConnectedMeansLinked'
  <2>1. occ' = occ
    BY <1>0, <1>2, ConnMoves DEF Rollback, CreateConnection, Connect, Insert
  <2>2. \A c \in ConnId : Active(c) => Active(c)' /\ Ends(c)' = Ends(c)
    BY <1>0, <1>2, ActiveKept, CommittedKept DEF Active
  <2>. QED BY <1>0, <2>1, <2>2 DEF ConnectedMeansLinked
<1>3. ASSUME NEW t \in Txn, Commit(t) PROVE ConnectedMeansLinked'
  <2>. SUFFICES ASSUME NEW x \in Terminal, occ'[x] = "connected"
                PROVE  \E c \in ConnId : Active(c)' /\ x \in Ends(c)'
    BY DEF ConnectedMeansLinked
  <2>1. \A c \in ConnId : (Active(c)' <=> c \in Live(t)) /\ Ends(c)' = Ends(c)
    BY <1>0, <1>3, CommitActivates
  <2>2. \E c \in Live(t) : x \in Ends(c)
    <3>1. CASE x \in TermsOf(t)
      BY <1>3, <3>1 DEF Commit, RecordInv, RecordOK, Writing
    <3>2. CASE x \notin TermsOf(t)
      <4>1. occ[x] = "connected" BY <1>0, <1>3, <3>2 DEF Commit
      <4>2. PICK c \in ConnId : Active(c) /\ x \in Ends(c)
        BY <1>0, <4>1 DEF ConnectedMeansLinked
      <4>3. c \notin dead[t] BY <3>2, <4>2 DEF RecordInv, RecordOK
      <4>. QED BY <4>2, <4>3 DEF Live, Active
    <3>. QED BY <3>1, <3>2
  <2>. QED BY <2>1, <2>2 DEF Live
<1>. QED BY <1>1, <1>2, <1>3 DEF Next

(* Other sessions deactivate nothing that ends on a terminal locked here.    *)
LEMMA OthersRecord ==
    ASSUME Inductive, HistoryInv, RecordInv, NEW t \in Txn, Move(t), NEW u \in Txn \ {t}
    PROVE  RecordOK(u)'
<1>0. /\ TypeOK /\ SessionInv /\ Pending /\ LockInv /\ SessionOK(u) /\ RecordOK(u) /\ RecordOK(t)
      /\ DeadOK(u)
  BY DEF Inductive, SessionInv, RecordInv, HistoryInv, HistoryOK
<1>1. /\ pc'[u] = pc[u] /\ req'[u] = req[u] /\ wOcc'[u] = wOcc[u]
      /\ born'[u] = born[u] /\ dead'[u] = dead[u]
  BY <1>0, Frame
<1>2. TermsOf(u)' = TermsOf(u)
  BY <1>0, <1>1, TermsKept DEF SessionOK
<1>3. \A c \in ConnId : Active(c) \/ c \in born[u] => Ends(c)' = Ends(c)
  BY <1>0, CommittedKept, BornKept DEF Ends, Active
<1>4. \A c \in dead'[u] : Ends(c)' \subseteq TermsOf(u)'
  BY <1>0, <1>1, <1>2, <1>3 DEF RecordOK, DeadOK, TypeOK
<1>5. ASSUME Writing(u)', NEW x \in TermsOf(u)' \cap Terminal, wOcc'[u][x] = "connected"
      PROVE  \E c \in Live(u)' : x \in Ends(c)'
  <2>1. Writing(u) /\ x \in TermsOf(u)
    BY <1>1, <1>2, <1>5 DEF Writing
  <2>2. PICK c \in Live(u) : x \in Ends(c)
    BY <1>0, <1>1, <1>5, <2>1 DEF RecordOK
  <2>3. c \in ConnId /\ c \notin dead[u] /\ (Active(c) \/ c \in born[u])
    BY DEF Live, Active
  <2>4. CASE c \in born[u]
    BY <1>1, <1>3, <2>2, <2>3, <2>4 DEF Live
  <2>5. CASE Active(c) /\ ~Commit(t)
    <3>1. Active(c)' BY <1>0, <2>3, <2>5, ActiveKept
    <3>. QED BY <1>1, <1>3, <2>2, <2>3, <3>1 DEF Live, Active
  <2>6. CASE Active(c) /\ Commit(t)
    <3>1. TermsOf(t) \cap TermsOf(u) = {}
      BY <1>0, <2>1, <2>6, Apart DEF Commit, Writing
    <3>2. c \notin dead[t]
      BY <1>0, <2>1, <2>2, <3>1 DEF RecordOK
    <3>3. Active(c)'
      BY <1>0, <2>3, <2>6, <3>2, CommitActivates DEF Live, Active
    <3>. QED BY <1>1, <1>3, <2>2, <2>3, <3>3 DEF Live, Active
  <2>. QED BY <2>3, <2>4, <2>5, <2>6
<1>. QED BY <1>4, <1>5 DEF RecordOK

(* A session that disconnects frees both ends, and marks what it connects.   *)
LEMMA OwnRecord ==
    ASSUME BothNamed, Inductive, HistoryInv, RecordInv, NEW t \in Txn, Move(t)
    PROVE  RecordOK(t)'
<1>0. /\ TypeOK /\ Plan /\ SessionInv /\ Pending /\ SessionOK(t) /\ RecordOK(t) /\ HistoryOK(t)
      /\ DistinctInv /\ ConnectedMeansLinked /\ LinkedMeansConnected
  BY DEF Inductive, SessionInv, RecordInv, HistoryInv
<1>1. CASE \/ Commit(t) \/ Rollback(t) \/ (\E r \in Request : Begin(t, r))
           \/ LockConnection(t) \/ LockStructure(t) \/ CheckRevision(t) \/ LockTerminal(t)
  <2>1. (dead'[t] = {} \/ (dead'[t] = dead[t] /\ ~Writing(t))) /\ ~Writing(t)'
    BY <1>0, <1>1 DEF Commit, NewRevision, Rollback, Finish, Begin, LockConnection, LockStructure,
       CheckRevision, LockTerminal, Lock, Writing, TypeOK, session
  <2>. QED BY <1>0, <2>1 DEF RecordOK, SessionOK
<1>2. CASE StartBody(t)
  <2>1. /\ UNCHANGED <<conn, req, born, dead>> /\ wOcc'[t] = occ /\ pc[t] = "terminals"
    BY <1>0, <1>2 DEF StartBody, TypeOK, tables
  <2>2. dead[t] = {}
    BY <1>0, <2>1 DEF SessionOK, Writing
  <2>. QED BY <1>0, <2>1, <2>2 DEF RecordOK, ConnectedMeansLinked, Live, Active, Ends
<1>3. CASE \/ CreateConnection(t) \/ Connect(t) \/ DeactivateConnection(t) \/ Release(t)
           \/ Reserve(t) \/ Disconnect(t) \/ Bump(t)
  <2>1. req' = req /\ Writing(t)
    BY <1>0, <1>3 DEF CreateConnection, Connect, Insert, DeactivateConnection, Release, Reserve,
       Disconnect, Doing, Bump, Lock, TypeOK, Writing
  <2>2. TermsOf(t)' = TermsOf(t)
    BY <1>0, <2>1, TermsKept DEF SessionOK
  <2>3. CASE CreateConnection(t) \/ Connect(t)
    <3>1. PICK c \in ConnId, op \in Op :
            /\ Insert(t, op) /\ conn[c].status = "none"
            /\ conn' = [conn EXCEPT ![c] = [a |-> op.a, b |-> op.b,
                                            status |-> "pending", version |-> 1]]
            /\ born' = [born EXCEPT ![t] = @ \cup {c}]
            /\ {op.a, op.b} \subseteq TermsOf(t) \cap Terminal
      BY <1>0, <2>3, Inserted
    <3>2. /\ dead' = dead /\ born'[t] = born[t] \cup {c}
          /\ Ends(c)' = {op.a, op.b} /\ \A d \in ConnId \ {c} : conn'[d] = conn[d]
          /\ \A x \in Terminal : wOcc'[t][x] = IF x \in {op.a, op.b} THEN "connected" ELSE wOcc[t][x]
      BY <1>0, <3>1 DEF Insert, TypeOK, Ends
    <3>3. c \notin dead[t] /\ c \notin Live(t)
      BY <1>0, <3>1 DEF HistoryOK, DeadOK, Active, Pending, Live
    <3>4. c \in Live(t)' /\ \A d \in Live(t) : d \in Live(t)' /\ Ends(d)' = Ends(d)
      BY <3>1, <3>2, <3>3 DEF Live, Ends
    <3>5. \A d \in dead'[t] : Ends(d)' \subseteq TermsOf(t)'
      <4>1. \A d \in dead[t] : d \in ConnId \ {c} /\ Ends(d) \subseteq TermsOf(t)
        BY <1>0, <3>3 DEF RecordOK, TypeOK
      <4>2. \A d \in ConnId \ {c} : Ends(d)' = Ends(d)
        BY <3>2 DEF Ends
      <4>. QED BY <2>2, <3>2, <4>1, <4>2
    <3>. QED BY <1>0, <2>1, <2>2, <3>2, <3>4, <3>5 DEF RecordOK
  <2>4. CASE DeactivateConnection(t) \/ Disconnect(t)
    <3>1. PICK c \in ConnId :
            /\ dead'[t] = dead[t] \cup {c} /\ Ends(c) \subseteq TermsOf(t)
            /\ UNCHANGED <<conn, born>>
            /\ \A x \in TermsOf(t) \cap Terminal :
                 wOcc'[t][x] = "connected" =>
                   wOcc[t][x] = "connected" /\ (x \in Ends(c) => On(t, x) \ {c} # {})
      <4>1. CASE DeactivateConnection(t)
        <5>1. req[t].kind = "deactivate" /\ req[t].conn \in ConnId
          BY <1>0, <4>1, Current, RequestTyped DEF DeactivateConnection
        <5>. QED BY <1>0, <4>1, <5>1 DEF DeactivateConnection, TypeOK, TermsOf, tables
      <4>2. CASE Disconnect(t)
        <5>. DEFINE op == Head(todo[t])
        <5>1. PICK c \in On(t, op.a) :
                /\ op.b = None \/ op.b \in Ends(c)
                /\ dead' = [dead EXCEPT ![t] = @ \cup {c}]
                /\ wOcc' = [wOcc EXCEPT ![t] = [x \in Terminal |->
                     IF x \in DisconnectFrees(t, op, c) THEN "free" ELSE @[x]]]
          BY <4>2 DEF Disconnect
        <5>2. /\ op \in Op /\ req[t] \in Request /\ req[t].kind # "deactivate"
              /\ \E j \in DOMAIN req[t].ops : op = req[t].ops[j]
          BY <1>0, <4>2, Current DEF Disconnect
        <5>3. op.b # None /\ op.a # op.b
          BY <1>0, <4>2, <5>2 DEF BothNamed, DistinctInv, Disconnect, Doing
        <5>4. Ends(c) = {op.a, op.b} /\ c \in ConnId
          BY <5>1, <5>3 DEF On, Live, Ends
        <5>5. {op.a, op.b} \subseteq TermsOf(t)
          BY <5>2, <5>3 DEF TermsOf
        <5>6. UNCHANGED <<conn, born>>
          BY <4>2 DEF Disconnect, tables
        <5>7. dead'[t] = dead[t] \cup {c}
              /\ \A x \in Terminal : wOcc'[t][x] = IF x \in Ends(c) THEN "free" ELSE wOcc[t][x]
          BY <1>0, <5>1, <5>4, <5>5 DEF DisconnectFrees, TypeOK
        <5>. QED BY <5>4, <5>5, <5>6, <5>7
      <4>. QED BY <2>4, <4>1, <4>2
    <3>2. \A d \in ConnId : Ends(d)' = Ends(d)
      BY <3>1 DEF Ends
    <3>3. Live(t)' = Live(t) \ {c}
      BY <3>1 DEF Live
    <3>4. \A d \in dead'[t] : Ends(d)' \subseteq TermsOf(t)'
      BY <1>0, <2>2, <3>1, <3>2 DEF RecordOK, TypeOK
    <3>5. ASSUME NEW x \in TermsOf(t) \cap Terminal, wOcc'[t][x] = "connected"
          PROVE  \E d \in Live(t)' : x \in Ends(d)'
      <4>1. wOcc[t][x] = "connected" /\ (x \in Ends(c) => On(t, x) \ {c} # {})
        BY <3>1, <3>5
      <4>2. \E d \in Live(t) \ {c} : x \in Ends(d)
        BY <1>0, <2>1, <4>1 DEF RecordOK, On
      <4>. QED BY <3>2, <3>3, <4>2 DEF Live
    <3>. QED BY <2>2, <3>4, <3>5 DEF RecordOK
  <2>5. CASE Release(t) \/ Reserve(t) \/ Bump(t)
    <3>1. /\ UNCHANGED <<conn, born, dead>>
          /\ \A x \in Terminal : wOcc'[t][x] = "connected" => wOcc[t][x] = "connected"
      BY <1>0, <2>5 DEF Release, Reserve, Bump, Lock, TypeOK, tables, session
    <3>2. Live(t)' = Live(t) /\ \A d \in ConnId : Ends(d)' = Ends(d)
      BY <3>1 DEF Live, Ends
    <3>. QED BY <1>0, <2>1, <2>2, <3>1, <3>2 DEF RecordOK, Live, TypeOK
  <2>. QED BY <1>3, <2>3, <2>4, <2>5
<1>. QED
  BY <1>1, <1>2, <1>3 DEF Move, Step, Refuse, DeadlockVictim, LoseSession

LEMMA RecordStep ==
    ASSUME BothNamed
    PROVE  Inductive /\ HistoryInv /\ RecordInv /\ [Next]_vars => RecordInv'
<1>. SUFFICES ASSUME Inductive, HistoryInv, RecordInv, [Next]_vars PROVE RecordInv'
  OBVIOUS
<1>1. ConnectedMeansLinked' BY LinkedStep
<1>2. ASSUME NEW u \in Txn PROVE RecordOK(u)'
  <2>1. CASE UNCHANGED vars
    <3>1. TermsOf(u)' = TermsOf(u) /\ \A c : Ends(c)' = Ends(c)
      BY <2>1 DEF TermsOf, Ends, vars, tables
    <3>2. Live(u)' = Live(u)
      BY <2>1 DEF Live, vars, tables, session
    <3>. QED BY <2>1, <3>1, <3>2 DEF RecordInv, RecordOK, Writing, vars, session
  <2>2. ASSUME NEW t \in Txn, Move(t) PROVE RecordOK(u)'
    BY <2>2, OwnRecord, OthersRecord
  <2>. QED BY <2>1, <2>2 DEF Next
<1>. QED BY <1>1, <1>2 DEF RecordInv

(* No terminal stays blocked by a reservation or a connection that does not  *)
(* exist, in whatever order batches, creations and deactivations commit, as  *)
(* long as the batches name both ends of what they disconnect.               *)
THEOREM NothingBlockedForNothing ==
    ASSUME BothNamed
    PROVE  Spec => []OccupancyHasItsRecord
<1>1. Init => RecordInv
  BY DEF Init, RecordInv, RecordOK, ConnectedMeansLinked, Writing
<1>2. Inductive /\ RecordInv => OccupancyHasItsRecord
  BY DEF Inductive, RecordInv, OccupancyHasItsRecord
<1>3. Inductive /\ HistoryInv /\ RecordInv /\ [Next]_vars => RecordInv'
  BY RecordStep
<1>. QED BY <1>1, <1>2, <1>3, Invariance, HistoryHolds, PTL DEF Spec
-----------------------------------------------------------------------------
(* No deadlock among single calls.  (A batch and a creation can wait for one *)
(* another: see Terminates and DeadlockVictim.)  Sessions wait in two places *)
(* only: for the row of a connection, before they hold anything, and for     *)
(* terminals, in ascending order.                                            *)
SingleCalls == \A r \in Request : r.kind # "batch"

WaitOK(t) ==
    /\ pc[t] \in {"idle", "row"} => locks[t] = {}
    /\ \A s : Row("structures", s) \notin locks[t]
    /\ TopologyRow \in locks[t] => pc[t] = "commit"
    /\ \A x : Row("terminals", x) \in locks[t] => x \in TermsOf(t)
    /\ dead[t] \subseteq {req[t].conn}
    /\ pc[t] = "terminals" =>
         \A x \in TermsOf(t), y \in Missing(t) : Row("terminals", x) \in locks[t] => x < y

WaitInv == \A t \in Txn : WaitOK(t)

(* Terminals that a session waits for are terminals, in the order of ids.    *)
LEMMA WaitsForTerminals ==
    ASSUME Inductive, NEW t \in Txn, pc[t] = "terminals"
    PROVE  TermsOf(t) \subseteq Terminal
<1>0. TypeOK /\ RowInv /\ LinkedMeansConnected /\ SessionOK(t)
  BY DEF Inductive, SessionInv
<1>1. CASE req[t].kind = "deactivate"
  <2>1. req[t].conn \in ConnId /\ Active(req[t].conn)
    BY <1>0, <1>1, RequestTyped DEF RowInv, Active
  <2>. QED BY <1>0, <1>1, <2>1 DEF LinkedMeansConnected, TermsOf
<1>2. CASE req[t].kind # "deactivate"
  <2>1. req[t] \in Request
    BY <1>0 DEF SessionOK
  <2>2. \A i \in DOMAIN req[t].ops : req[t].ops[i] \in Op /\ req[t].ops[i].act # "deactivate"
    BY <1>0, <1>2, <2>1, RequestTyped, RequestAssumption
  <2>3. \A i \in DOMAIN req[t].ops :
          req[t].ops[i].a \in Terminal /\ req[t].ops[i].b \in Terminal \cup {None}
    BY <2>2 DEF Op
  <2>. QED BY <1>2, <2>3 DEF TermsOf
<1>. QED BY <1>1, <1>2

LEMMA OthersWait ==
    ASSUME Inductive, WaitInv, NEW t \in Txn, Move(t), NEW u \in Txn \ {t}
    PROVE  WaitOK(u)'
<1>0. TypeOK /\ SessionInv /\ Pending /\ SessionOK(u) /\ WaitOK(u)
  BY DEF Inductive, SessionInv, WaitInv
<1>1. pc'[u] = pc[u] /\ req'[u] = req[u] /\ locks'[u] = locks[u] /\ dead'[u] = dead[u]
  BY <1>0, Frame
<1>2. TermsOf(u)' = TermsOf(u)
  BY <1>0, <1>1, TermsKept DEF SessionOK
<1>. QED BY <1>0, <1>1, <1>2 DEF WaitOK, Missing, Row, TopologyRow

LEMMA OwnWait ==
    ASSUME SingleCalls, Inductive, HistoryInv, WaitInv, NEW t \in Txn, Move(t)
    PROVE  WaitOK(t)'
<1>0. TypeOK /\ Plan /\ SessionInv /\ Pending /\ SessionOK(t) /\ WaitOK(t)
  BY DEF Inductive, SessionInv, WaitInv
<1>a. pc[t] # "idle" => req[t].kind \in {"create", "deactivate"}
  BY <1>0, RequestAssumption DEF SessionOK, SingleCalls, Requests
<1>1. CASE Commit(t) \/ Rollback(t)
  <2>1. pc'[t] = "idle" /\ dead'[t] = {} /\ locks'[t] = {}
    BY <1>0, <1>1 DEF Commit, NewRevision, Rollback, Finish, ReleaseLocks, TypeOK
  <2>. QED BY <2>1 DEF WaitOK
<1>2. CASE \E r \in Request : Begin(t, r)
  <2>1. pc[t] = "idle" /\ locks'[t] = locks[t] /\ dead'[t] = dead[t]
    BY <1>0, <1>2 DEF Begin, session
  <2>2. locks'[t] = {} /\ dead'[t] = {}
    BY <1>0, <2>1 DEF WaitOK, SessionOK, Writing
  <2>. QED BY <2>2 DEF WaitOK
<1>3. CASE LockConnection(t)
  <2>1. /\ pc[t] = "row" /\ pc'[t] = "terminals" /\ dead'[t] = dead[t]
        /\ locks'[t] = locks[t] \cup {Row("connections", req[t].conn)}
    BY <1>0, <1>3 DEF LockConnection, Lock, TypeOK, session
  <2>2. locks'[t] = {Row("connections", req[t].conn)} /\ dead'[t] = {}
    BY <1>0, <2>1 DEF WaitOK, SessionOK, Writing
  <2>. QED BY <2>1, <2>2 DEF WaitOK, Row, TopologyRow
<1>4. CASE LockStructure(t) \/ CheckRevision(t)
  BY <1>0, <1>a, <1>4 DEF LockStructure, CheckRevision, SessionOK
<1>5. CASE LockTerminal(t)
  <2>1. PICK x \in Missing(t) :
          /\ \A y \in Missing(t) : x <= y
          /\ Lock(t, {Row("terminals", x)}, "terminals")
    BY <1>5 DEF LockTerminal, NextTerminal
  <2>2. /\ pc[t] = "terminals" /\ pc'[t] = "terminals" /\ req'[t] = req[t] /\ dead'[t] = dead[t]
        /\ locks'[t] = locks[t] \cup {Row("terminals", x)}
    BY <1>0, <1>5, <2>1 DEF LockTerminal, Lock, TypeOK, session
  <2>3. TermsOf(t)' = TermsOf(t) /\ TermsOf(t) \subseteq Nat
    BY <1>0, <2>2, TermsKept, WaitsForTerminals, TerminalAssumption DEF SessionOK
  <2>4. Missing(t)' = Missing(t) \ {x} /\ x \in TermsOf(t) /\ Missing(t) \subseteq TermsOf(t)
    BY <2>1, <2>2, <2>3 DEF Missing, Row
  <2>5. \A y \in Missing(t)' : x < y
    BY <2>1, <2>3, <2>4
  <2>6. \A z \in TermsOf(t)', y \in Missing(t)' : Row("terminals", z) \in locks'[t] => z < y
    BY <1>0, <2>2, <2>3, <2>4, <2>5 DEF WaitOK, Row
  <2>. QED BY <1>0, <2>2, <2>3, <2>4, <2>6 DEF WaitOK, Row, TopologyRow
<1>6. CASE StartBody(t)
  <2>1. UNCHANGED <<conn, req, dead, locks>> /\ pc[t] = "terminals" /\ pc'[t] = "body"
    BY <1>0, <1>6 DEF StartBody, TypeOK, tables
  <2>2. TermsOf(t)' = TermsOf(t)
    BY <2>1 DEF TermsOf, Ends
  <2>. QED BY <1>0, <2>1, <2>2 DEF WaitOK, Row, TopologyRow
<1>7. CASE Bump(t)
  <2>1. /\ locks'[t] = locks[t] \cup {TopologyRow} /\ pc'[t] = "commit"
        /\ UNCHANGED <<conn, req, dead>>
    BY <1>0, <1>7 DEF Bump, Lock, TypeOK, tables, session
  <2>2. TermsOf(t)' = TermsOf(t)
    BY <2>1 DEF TermsOf, Ends
  <2>. QED BY <1>0, <2>1, <2>2 DEF WaitOK, Row, TopologyRow
<1>8. CASE \/ CreateConnection(t) \/ Connect(t) \/ DeactivateConnection(t) \/ Release(t)
           \/ Reserve(t) \/ Disconnect(t)
  <2>1. /\ pc[t] = "body" /\ pc'[t] = "body" /\ req'[t] = req[t]
        /\ locks'[t] = locks[t] \/ locks'[t] = locks[t] \cup Flushed(t)
    BY <1>0, <1>8 DEF CreateConnection, Connect, Insert, DeactivateConnection, Release, Reserve,
       Disconnect, Doing, TypeOK
  <2>2. TermsOf(t)' = TermsOf(t)
    BY <1>0, <2>1, TermsKept DEF SessionOK
  <2>3. dead'[t] \subseteq {req[t].conn}
    <3>1. ~Disconnect(t)
      <4>1. Disconnect(t) => Doing(t, "disconnect")
        BY DEF Disconnect
      <4>2. ~Doing(t, "disconnect")
        <5>1. SUFFICES ASSUME Doing(t, "disconnect") PROVE FALSE
          OBVIOUS
        <5>2. /\ "disconnect" = "deactivate" <=> req[t].kind = "deactivate"
              /\ "disconnect" = "create" <=> req[t].kind = "create"
          BY <1>0, <5>1, Current
        <5>. QED BY <1>a, <2>1, <5>2
      <4>. QED BY <4>1, <4>2
    <3>2. CASE DeactivateConnection(t)
      BY <1>0, <3>2 DEF DeactivateConnection, WaitOK, TypeOK
    <3>. QED BY <1>0, <1>8, <3>1, <3>2 DEF CreateConnection, Connect, Insert, Release, Reserve, WaitOK
  <2>. QED BY <1>0, <2>1, <2>2, <2>3 DEF WaitOK, Flushed, Row, TopologyRow
<1>. QED
  BY <1>1, <1>2, <1>3, <1>4, <1>5, <1>6, <1>7, <1>8
     DEF Move, Step, Refuse, DeadlockVictim, LoseSession

LEMMA WaitStep ==
    ASSUME SingleCalls
    PROVE  Inductive /\ HistoryInv /\ WaitInv /\ [Next]_vars => WaitInv'
<1>. SUFFICES ASSUME Inductive, HistoryInv, WaitInv, [Next]_vars, NEW u \in Txn PROVE WaitOK(u)'
  BY DEF WaitInv
<1>1. CASE UNCHANGED vars
  <2>1. TermsOf(u)' = TermsOf(u) /\ Missing(u)' = Missing(u)
    BY <1>1 DEF Missing, TermsOf, Ends, vars, tables
  <2>. QED BY <1>1, <2>1 DEF WaitInv, WaitOK, Row, TopologyRow, vars, session
<1>2. ASSUME NEW t \in Txn, Move(t) PROVE WaitOK(u)'
  BY <1>2, OwnWait, OthersWait
<1>. QED BY <1>1, <1>2 DEF Next

(* What a session waits for, by the statement it is at.                      *)
LEMMA NextRows ==
    ASSUME NEW t \in Txn
    PROVE  /\ pc[t] = "idle" => NextLocks(t) = {}
           /\ pc[t] = "terminals" =>
                NextLocks(t) = {Row("terminals", x) : x \in {y \in Missing(t) : NextTerminal(t, y)}}
           /\ pc[t] = "body" /\ todo[t] = <<>> => NextLocks(t) = {TopologyRow}
           /\ pc[t] = "body" /\ todo[t] # <<>> =>
                NextLocks(t) \subseteq Flushed(t) \cup Structures(t)
           /\ pc[t] = "commit" => NextLocks(t) = Flushed(t)
<1>1. CASE pc[t] = "idle"
  BY <1>1 DEF NextLocks, Doing
<1>2. CASE pc[t] = "terminals"
  BY <1>2 DEF NextLocks, Doing
<1>3. CASE pc[t] = "body" /\ todo[t] = <<>>
  BY <1>3 DEF NextLocks, Doing
<1>4. CASE pc[t] = "body" /\ todo[t] # <<>>
  BY <1>4 DEF NextLocks, Doing
<1>5. CASE pc[t] = "commit"
  BY <1>5 DEF NextLocks, Doing
<1>. QED BY <1>1, <1>2, <1>3, <1>4, <1>5

(* In a set of sessions that wait for one another, one that waits for a      *)
(* connection holds nothing, one that waits for a terminal waits for one     *)
(* above all it holds, and nobody else waits at all.                         *)
LEMMA Waiting ==
    ASSUME SingleCalls, Inductive, HistoryInv, WaitInv, NEW S \in SUBSET Txn, Deadlocked(S),
           NEW t \in S, NEW u \in Blockers(t) \cap S
    PROVE  /\ pc[u] = "terminals"
           /\ pc[t] = "terminals" =>
                \E x \in Missing(t) : NextTerminal(t, x) /\ Row("terminals", x) \in locks[u]
<1>0. TypeOK /\ Plan /\ LockInv /\ WaitInv /\ u \in Txn \ {t} /\ u \in S /\ t \in Txn
      /\ \A v \in Txn : SessionOK(v) /\ HistoryOK(v) /\ WaitOK(v)
  BY DEF Inductive, SessionInv, HistoryInv, WaitInv, Blockers
<1>1. ASSUME NEW v \in Txn, pc[v] # "idle"
      PROVE  /\ req[v].kind \in {"create", "deactivate"}
             /\ pc[v] \in {"row", "terminals", "body", "commit"}
  BY <1>0, <1>1, RequestAssumption DEF SessionOK, SingleCalls, Requests, TypeOK
<1>2. ASSUME NEW v \in Txn, Writing(v)
      PROVE  Flushed(v) \subseteq locks[v]
  BY <1>0, <1>1, <1>2 DEF Flushed, WaitOK, HistoryOK, DeadOK, HoldsRow, Writing
<1>3. ASSUME NEW v \in Txn, NEW w \in Blockers(v)
      PROVE  \/ pc[v] = "row"
             \/ pc[v] = "terminals"
             \/ pc[v] = "body" /\ TopologyRow \in locks[w]
  <2>1. w \in Txn \ {v} /\ (NextLocks(v) \cap locks[w] # {} \/ pc[v] = "structure")
    BY <1>3 DEF Blockers
  <2>2. NextLocks(v) \cap locks[w] # {} /\ pc[v] # "structure"
    BY <1>1, <2>1
  <2>. SUFFICES ASSUME pc[v] \notin {"row", "terminals"} PROVE pc[v] = "body" /\ TopologyRow \in locks[w]
    OBVIOUS
  <2>3. CASE pc[v] = "body" /\ todo[v] = <<>>
    BY <2>2, <2>3, NextRows
  <2>4. ~(Writing(v) /\ NextLocks(v) \subseteq Flushed(v))
    BY <1>0, <1>2, <2>1, <2>2 DEF LockInv
  <2>5. CASE pc[v] = "commit"
    BY <2>4, <2>5, NextRows DEF Writing
  <2>6. CASE pc[v] = "body" /\ todo[v] # <<>>
    <3>1. NextLocks(v) \subseteq Flushed(v) \cup Structures(v)
      BY <2>6, NextRows
    <3>2. Structures(v) \cap locks[w] = {}
      BY <1>0, <2>1 DEF Structures, WaitOK
    <3>. QED BY <1>0, <1>2, <2>1, <2>2, <2>6, <3>1, <3>2 DEF LockInv, Writing
  <2>7. CASE pc[v] = "idle"
    BY <2>2, <2>7, NextRows
  <2>. QED BY <1>1, <2>3, <2>5, <2>6, <2>7
<1>4. ASSUME NEW v \in S PROVE pc[v] \in {"row", "terminals"}
  <2>1. PICK w \in Blockers(v) : w \in S
    BY <1>4 DEF Deadlocked
  <2>2. v \in Txn /\ w \in Txn
    BY <1>4, <2>1 DEF Blockers
  <2>3. PICK z \in Blockers(w) : TRUE
    BY <2>1 DEF Deadlocked
  <2>4. TopologyRow \notin locks[w]
    <3>1. pc[w] # "commit"
      BY <1>3, <2>2, <2>3
    <3>. QED BY <1>0, <2>2, <3>1 DEF WaitOK
  <2>. QED BY <1>3, <2>1, <2>2, <2>4
<1>5. NextLocks(t) \cap locks[u] # {}
  BY <1>0, <1>4 DEF Blockers
<1>6. pc[u] = "terminals"
  BY <1>0, <1>4, <1>5 DEF WaitOK
<1>7. ASSUME pc[t] = "terminals"
      PROVE  \E x \in Missing(t) : NextTerminal(t, x) /\ Row("terminals", x) \in locks[u]
  BY <1>0, <1>5, <1>7, NextRows
<1>. QED BY <1>6, <1>7

(* Followed from any of them, the waits lead to ever higher terminals.       *)
Wanted(t) == CHOOSE x \in Missing(t) : NextTerminal(t, x)

LEMMA WaitsAscend ==
    ASSUME SingleCalls, Inductive, HistoryInv, WaitInv, NEW S \in SUBSET Txn, Deadlocked(S)
    PROVE  LET T == {t \in S : pc[t] = "terminals"}
           IN  /\ T # {}
               /\ \A t \in T : Wanted(t) \in Nat
               /\ \A t \in T : \E u \in T : Wanted(t) < Wanted(u)
<1>. DEFINE T == {t \in S : pc[t] = "terminals"}
<1>1. \A t \in S : \E u \in S : u \in Blockers(t)
  BY DEF Deadlocked
<1>2. T # {}
  <2>1. PICK t \in S : TRUE
    BY DEF Deadlocked
  <2>2. PICK u \in S : u \in Blockers(t)
    BY <1>1
  <2>. QED BY <2>2, Waiting
<1>3. ASSUME NEW t \in T
      PROVE  /\ Missing(t) \subseteq Nat /\ TermsOf(t) \subseteq Nat
             /\ Wanted(t) \in Missing(t) /\ NextTerminal(t, Wanted(t))
             /\ \E u \in T : Row("terminals", Wanted(t)) \in locks[u] /\ u \in Txn
  <2>1. PICK u \in S : u \in Blockers(t)
    BY <1>1
  <2>2. PICK x \in Missing(t) : NextTerminal(t, x) /\ Row("terminals", x) \in locks[u]
    BY <2>1, Waiting
  <2>3. Missing(t) \subseteq Nat /\ TermsOf(t) \subseteq Nat
    BY WaitsForTerminals, TerminalAssumption DEF Missing
  <2>4. Wanted(t) \in Missing(t) /\ NextTerminal(t, Wanted(t))
    BY <2>2 DEF Wanted
  <2>5. Wanted(t) = x
    BY <2>2, <2>3, <2>4 DEF NextTerminal
  <2>6. u \in T
    BY <2>1, Waiting
  <2>. QED BY <2>2, <2>3, <2>4, <2>5, <2>6
<1>4. ASSUME NEW t \in T PROVE \E u \in T : Wanted(t) < Wanted(u)
  <2>1. PICK u \in T : Row("terminals", Wanted(t)) \in locks[u] /\ u \in Txn
    BY <1>3
  <2>2. Wanted(t) \in TermsOf(u)
    BY <2>1 DEF WaitInv, WaitOK
  <2>3. Wanted(u) \in Missing(u)
    BY <1>3
  <2>4. Wanted(t) < Wanted(u)
    BY <2>1, <2>2, <2>3 DEF WaitInv, WaitOK
  <2>. QED BY <2>4
<1>. QED BY <1>2, <1>3, <1>4

(* Among finitely many sessions that cannot go on for ever.                  *)
LEMMA NoAscent ==
    ASSUME NEW T, IsFiniteSet(T), NEW w, \A t \in T : w[t] \in Nat,
           \A t \in T : \E u \in T : w[t] < w[u]
    PROVE  T = {}
<1>. SUFFICES ASSUME T # {} PROVE FALSE
  OBVIOUS
<1>. DEFINE Above(t) == {u \in T : w[u] > w[t]}
            All == {Above(t) : t \in T}
<1>1. All \subseteq FiniteSubsetsOf(T) /\ All # {}
  <2>1. \A t \in T : Above(t) \in SUBSET T /\ IsFiniteSet(Above(t))
    BY FS_Subset
  <2>. QED BY <2>1 DEF FiniteSubsetsOf
<1>2. IsWellFoundedOn(StrictSubsetOrdering(T), FiniteSubsetsOf(T))
  BY FS_StrictSubsetOrderingWellFounded
<1>3. \E A \in All : \A B \in All : <<B, A>> \notin StrictSubsetOrdering(T)
  <2>. HIDE DEF All
  <2>. QED BY <1>1, <1>2, WFMin
<1>4. PICK t \in T : \A u \in T : <<Above(u), Above(t)>> \notin StrictSubsetOrdering(T)
  BY <1>3
<1>5. PICK u \in T : w[t] < w[u]
  OBVIOUS
<1>6. Above(u) \subseteq Above(t) /\ u \in Above(t) /\ u \notin Above(u)
  BY <1>5
<1>7. <<Above(u), Above(t)>> \in StrictSubsetOrdering(T)
  BY <1>6 DEF StrictSubsetOrdering
<1>. QED BY <1>4, <1>7

(* No set of sessions waits for one another, however many clients call       *)
(* create_connection and deactivate_connection at once: the ascending order  *)
(* of the terminal locks excludes deadlocks among single calls.              *)
THEOREM SingleCallsNeverDeadlock ==
    ASSUME SingleCalls, IsFiniteSet(Txn)
    PROVE  Spec => []NoDeadlock
<1>1. Init => WaitInv
  BY DEF Init, WaitInv, WaitOK
<1>2. Inductive /\ HistoryInv /\ WaitInv => NoDeadlock
  <2>. SUFFICES ASSUME Inductive, HistoryInv, WaitInv, NEW S \in SUBSET Txn, Deadlocked(S)
                PROVE  FALSE
    BY DEF NoDeadlock
  <2>. DEFINE T == {t \in S : pc[t] = "terminals"}
              w == [t \in T |-> Wanted(t)]
  <2>1. /\ T # {}
        /\ \A t \in T : Wanted(t) \in Nat
        /\ \A t \in T : \E u \in T : Wanted(t) < Wanted(u)
    BY WaitsAscend
  <2>2. IsFiniteSet(T)
    BY FS_Subset
  <2>3. \A t \in T : w[t] \in Nat /\ \E u \in T : w[t] < w[u]
    BY <2>1
  <2>. HIDE DEF T, w
  <2>. QED BY <2>1, <2>2, <2>3, NoAscent
<1>3. Inductive /\ HistoryInv /\ WaitInv /\ [Next]_vars => WaitInv'
  BY WaitStep
<1>. QED BY <1>1, <1>2, <1>3, Invariance, HistoryHolds, PTL DEF Spec
=============================================================================
