-------------------------- MODULE FusionEditorProofs --------------------------
(***************************************************************************)
(* What the editor promises of a batch, for any number of terminals,        *)
(* batches and operations: it is never applied twice (NeverAppliedTwice),   *)
(* a refusal is blamed on the others only where they caused it              *)
(* (ConflictsAreExplained), and it leaves the terminals as previewed        *)
(* (BatchesLandAsPreviewed).                                                *)
(*                                                                         *)
(* OneBatchPerRevision is not inductive.  It needs that the revision has    *)
(* left behind every batch that was applied, that a batch between its check *)
(* and its application is alone there, and that no applied batch has its    *)
(* revision: others may move the revision meanwhile, never back.            *)
(*                                                                         *)
(* The other two need EditorInv: what the draft relies on is in the network *)
(* as long as the revision stands.  Preview and Applied are folds over the  *)
(* operations; the induction over a sequence is done here over the set of   *)
(* the positions a fact holds at (LeastMember, UpTo).                       *)
(***************************************************************************)
EXTENDS FusionEditor, TLAPS, WellFoundedInduction

Is(b, stage) == batches[b].stage = stage

\* The rows of batches are records with the fields of Unsent.
Fields == {"stage", "ops", "rev", "at", "undone", "shown"}

Rows ==
  /\ batches = [b \in Batch |-> batches[b]]
  /\ \A b \in Batch : DOMAIN batches[b] = Fields

AppliedIsPast ==
  \A b \in Batch : Is(b, "applied") => batches[b].rev \in Nat /\ batches[b].rev < rev

CheckedIsAlone ==
  \A b \in Batch : Is(b, "checked") =>
    /\ batches[b].rev \in Nat /\ batches[b].rev <= rev
    /\ \A c \in Batch : Is(c, "checked") => c = b
    /\ \A c \in Batch : Is(c, "applied") => batches[c].rev # batches[b].rev

IInv == /\ rev \in Nat /\ Rows
        /\ AppliedIsPast /\ CheckedIsAlone /\ OneBatchPerRevision

LEMMA UnsentFields == DOMAIN Unsent = Fields
  BY DEF Unsent, Fields

LEMMA InitIInv == Init => IInv
  BY UnsentFields DEF Init, IInv, Rows, Unsent, AppliedIsPast, CheckedIsAlone, OneBatchPerRevision, Is

\* A step that leaves the batches alone may only raise the revision.
LEMMA BatchesUntouched ==
  ASSUME IInv, batches' = batches, rev' = rev \/ rev' = rev + 1
  PROVE  IInv'
  BY DEF IInv, Rows, AppliedIsPast, CheckedIsAlone, OneBatchPerRevision, Is

LEMMA SubmitIInv ==
  ASSUME IInv, NEW b \in Batch, Submit(b)
  PROVE  IInv'
<1>. DEFINE sent == [Unsent EXCEPT !.stage = "sent", !.ops = draft, !.rev = page.rev,
                                  !.undone = undone, !.shown = Preview(draft)]
<1>1. batches' = [batches EXCEPT ![b] = sent] /\ rev' = rev
  BY DEF Submit
<1>2. DOMAIN sent = Fields /\ sent.stage = "sent"
  BY UnsentFields DEF Fields
<1>3. /\ batches'[b].stage = "sent"
      /\ \A c \in Batch : c # b => batches'[c] = batches[c]
  BY <1>1, <1>2 DEF IInv, Rows
<1>4. Rows'
  BY <1>1, <1>2 DEF IInv, Rows
<1> QED
  BY <1>1, <1>3, <1>4 DEF IInv, AppliedIsPast, CheckedIsAlone, OneBatchPerRevision, Is

LEMMA CheckIInv ==
  ASSUME IInv, NEW b \in Batch, Check(b)
  PROVE  IInv'
<1>1. /\ rev' = rev
      /\ \A c \in Batch : ~Is(c, "checked")
  BY DEF Check, Locked, Is
<1>2. /\ \A c \in Batch : c # b => batches'[c] = batches[c]
      /\ batches'[b].rev = batches[b].rev
      /\ batches'[b].stage = IF batches[b].rev = rev THEN "checked" ELSE "refused"
  BY DEF Check, IInv, Rows, Fields
<1>3. Rows'
  BY DEF Check, IInv, Rows, Fields
<1> QED
  BY <1>1, <1>2, <1>3 DEF IInv, AppliedIsPast, CheckedIsAlone, OneBatchPerRevision, Is

LEMMA ApplyIInv ==
  ASSUME IInv, NEW b \in Batch, Apply(b)
  PROVE  IInv'
<1>1. Is(b, "checked")
  BY DEF Apply, Is
<1>2. CASE /\ batches' = [batches EXCEPT ![b].stage = "refused", ![b].at = rev]
           /\ rev' = rev
  <2>1. /\ \A c \in Batch : c # b => batches'[c] = batches[c]
        /\ batches'[b].stage = "refused"
    BY <1>2 DEF IInv, Rows, Fields
  <2>2. Rows'
    BY <1>2 DEF IInv, Rows, Fields
  <2>3. \A c \in Batch : batches'[c].stage \in {"applied", "checked"} =>
                          c # b /\ batches'[c] = batches[c]
    BY <2>1
  <2>4. rev' = rev
    BY <1>2
  <2> QED
    BY <2>2, <2>3, <2>4 DEF IInv, AppliedIsPast, CheckedIsAlone, OneBatchPerRevision, Is
<1>3. CASE /\ batches' = [batches EXCEPT ![b] = [Ended(b) EXCEPT !.stage = "applied"]]
           /\ rev' = rev + 1
  <2>. DEFINE row == [Ended(b) EXCEPT !.stage = "applied"]
  <2>1. DOMAIN row = Fields /\ row.stage = "applied" /\ row.rev = batches[b].rev
    BY UnsentFields DEF Ended, Fields
  <2>2. /\ \A c \in Batch : c # b => batches'[c] = batches[c]
        /\ batches'[b].stage = "applied" /\ batches'[b].rev = batches[b].rev
    BY <1>3, <2>1 DEF IInv, Rows
  <2>3. Rows'
    BY <1>3, <2>1 DEF IInv, Rows
  <2>4. \A c \in Batch : ~(batches'[c].stage = "checked")
    BY <1>1, <2>2 DEF IInv, CheckedIsAlone, Is
  <2>5. AppliedIsPast'
    BY <1>1, <1>3, <2>2 DEF IInv, AppliedIsPast, CheckedIsAlone, Is
  <2>6. OneBatchPerRevision'
    BY <1>1, <2>2 DEF IInv, CheckedIsAlone, OneBatchPerRevision, Is
  <2> QED
    BY <1>3, <2>3, <2>4, <2>5, <2>6 DEF IInv, CheckedIsAlone, Is
<1> QED
  BY <1>2, <1>3 DEF Apply

LEMMA ReceiveConflictIInv ==
  ASSUME IInv, pending \in Batch, ReceiveConflict
  PROVE  IInv'
<1>1. /\ batches' = [batches EXCEPT ![pending] = Ended(pending)]
      /\ batches[pending].stage = "refused" /\ rev' = rev
  BY DEF ReceiveConflict
<1>2. DOMAIN Ended(pending) = Fields /\ Ended(pending).stage = "refused"
  BY <1>1, UnsentFields DEF Ended, Fields
<1>3. /\ \A c \in Batch : c # pending => batches'[c] = batches[c]
      /\ batches'[pending].stage = "refused"
  BY <1>1, <1>2 DEF IInv, Rows
<1>4. Rows'
  BY <1>1, <1>2 DEF IInv, Rows
<1> QED
  BY <1>1, <1>3, <1>4 DEF IInv, AppliedIsPast, CheckedIsAlone, OneBatchPerRevision, Is

\* The mutation waits for a batch that was submitted.
Waiting == pending \in Batch \cup {None}

LEMMA WaitingStep == Waiting /\ [Next]_vars => Waiting'
  BY DEF Waiting, Next, vars, server, query, form, AddConnect, OpenDisconnect, OpenReserve, Open,
         Confirm, Dismiss, Clear, RemoveOp, Submit, Check, Apply, Outside, ReceiveSuccess,
         ReceiveConflict, FailRequest, Reconcile, CloseConflict, Reconnect, LoadRevision,
         LoadContent, LoadFails

LEMMA NextIInv == IInv /\ Waiting /\ [Next]_vars => IInv'
<1> SUFFICES ASSUME IInv, Waiting, [Next]_vars PROVE IInv'
  OBVIOUS
<1>1. ASSUME NEW b \in Batch, Submit(b) PROVE IInv'
  BY <1>1, SubmitIInv
<1>2. ASSUME NEW b \in Batch, Check(b) PROVE IInv'
  BY <1>2, CheckIInv
<1>3. ASSUME NEW b \in Batch, Apply(b) PROVE IInv'
  BY <1>3, ApplyIInv
<1>4. CASE ReceiveConflict
  <2>1. pending \in Batch
    BY <1>4 DEF ReceiveConflict, Waiting
  <2> QED
    BY <1>4, <2>1, ReceiveConflictIInv
<1>5. CASE Outside
  <2>1. batches' = batches /\ rev' = rev + 1
    BY <1>5 DEF Outside
  <2> QED
    BY <2>1, BatchesUntouched
<1>6. CASE UNCHANGED server
  <2>1. batches' = batches /\ rev' = rev
    BY <1>6 DEF server
  <2> QED
    BY <2>1, BatchesUntouched
<1>7. CASE \E ends \in Pairs : AddConnect(ends) \/ OpenDisconnect(ends)
  BY <1>6, <1>7 DEF AddConnect, OpenDisconnect, Open
<1>8. CASE \E t \in Terminal : OpenReserve(t)
  BY <1>6, <1>8 DEF OpenReserve, Open
<1>9. CASE Confirm \/ Dismiss \/ Clear \/ \E i \in 1 .. MaxDraft : RemoveOp(i)
  BY <1>6, <1>9 DEF Confirm, Dismiss, Clear, RemoveOp
<1>10. CASE ReceiveSuccess \/ FailRequest \/ Reconcile \/ CloseConflict \/ Reconnect
  BY <1>6, <1>10 DEF ReceiveSuccess, FailRequest, Reconcile, CloseConflict, Reconnect
<1>11. CASE LoadRevision \/ LoadContent \/ LoadFails
  BY <1>6, <1>11 DEF LoadRevision, LoadContent, LoadFails
<1>12. CASE UNCHANGED vars
  BY <1>6, <1>12 DEF vars
<1> QED
  BY <1>1, <1>2, <1>3, <1>4, <1>5, <1>7, <1>8, <1>9, <1>10, <1>11, <1>12 DEF Next

\* Of the batches submitted against one revision at most one is applied: the
\* check of execute_batch_connections under the lock of the structure makes a
\* resent or repeated draft harmless.
THEOREM NeverAppliedTwice == Spec => []OneBatchPerRevision
<1>1. Init => IInv /\ Waiting
  BY InitIInv DEF Init, Waiting
<1>2. (IInv /\ Waiting) /\ [Next]_vars => (IInv /\ Waiting)'
  BY NextIInv, WaitingStep
<1>3. IInv => OneBatchPerRevision
  BY DEF IInv
<1> QED
  BY <1>1, <1>2, <1>3, PTL DEF Spec
-----------------------------------------------------------------------------

(***************************************************************************)
(* Induction over data.  A nonempty set of natural numbers has a least     *)
(* member, so a set that holds 0 and every successor holds them all.       *)
(***************************************************************************)
LEMMA LeastMember ==
  ASSUME NEW S \in SUBSET Nat, S # {}
  PROVE  \E n \in S : \A m \in S : n <= m
<1> DEFINE below == {p \in Nat \X Nat : p[1] < p[2]}
<1>1. IsWellFoundedOn(below, Nat)
  BY NatLessThanWellFounded DEF OpToRel
<1>2. \A n, m \in Nat : m < n => <<m, n>> \in below
  OBVIOUS
<1> HIDE DEF below
<1>3. PICK n \in S : \A m \in S : <<m, n>> \notin below
  BY <1>1, WFMin
<1>4. ASSUME NEW m \in S PROVE n <= m
  <2>1. n \in Nat /\ m \in Nat /\ ~(m < n)
    BY <1>2, <1>3
  <2> QED BY <2>1
<1> QED BY <1>4

LEMMA Inductive ==
  ASSUME NEW S, 0 \in S, \A n \in Nat : n \in S => n + 1 \in S
  PROVE  Nat \subseteq S
<1> SUFFICES ASSUME Nat \ S # {} PROVE FALSE
  OBVIOUS
<1>1. PICK n \in Nat \ S : \A m \in Nat \ S : n <= m
  BY LeastMember
<1>2. n # 0 /\ n - 1 \in Nat /\ n - 1 \in S
  BY <1>1
<1>3. n - 1 + 1 = n
  BY <1>1
<1> QED BY <1>1, <1>2, <1>3

LEMMA MaxOfRange ==
  ASSUME NEW n \in Nat, NEW s \in SUBSET (1..n), s # {}
  PROVE  Max(s) \in s /\ \A i \in s : Max(s) >= i
<1> DEFINE U == {k \in Nat : \A i \in s : i <= k}
<1>1. U \in SUBSET Nat /\ n \in U
  OBVIOUS
<1>2. PICK k \in U : \A m \in U : k <= m
  BY <1>1, LeastMember
<1>3. k \in s
  <2>1. ASSUME k \notin s PROVE FALSE
    <3>0. k \in Nat /\ \A j \in s : j \in Nat /\ j > 0 /\ j <= k
      BY <1>2
    <3>a. PICK i \in s : TRUE
      OBVIOUS
    <3>1. k > 0 /\ k - 1 \in Nat
      BY <3>0, <3>a
    <3>2. \A j \in s : j <= k - 1
      <4> SUFFICES ASSUME NEW j \in s PROVE j <= k - 1
        OBVIOUS
      <4>1. j # k /\ j \in Nat /\ j <= k
        BY <2>1, <3>0
      <4> QED BY <3>0, <4>1
    <3>3. k - 1 \in U
      BY <3>1, <3>2
    <3>4. k <= k - 1
      BY <1>2, <3>3
    <3> QED BY <3>0, <3>4
  <2> QED BY <2>1
<1>4. \A i \in s : k >= i
  BY <1>2
<1> QED BY <1>3, <1>4 DEF Max

LEMMA MaxOfPrefix ==
  ASSUME NEW n \in Nat, NEW k \in 1..n
  PROVE  Max(1..k) = k /\ (1..k) \ {k} = 1..(k - 1) /\ 1..k # {} /\ 1..k \in SUBSET (1..n)
<1>1. 1..k \in SUBSET (1..n) /\ 1..k # {} /\ k \in 1..k
  OBVIOUS
<1>2. Max(1..k) \in 1..k /\ \A i \in 1..k : Max(1..k) >= i
  BY <1>1, MaxOfRange
<1>3. Max(1..k) = k
  BY <1>1, <1>2
<1> QED BY <1>1, <1>3

(***************************************************************************)
(* The recursion of a fold: a function of the sets of positions.           *)
(***************************************************************************)
FoldsOver(it, n, V, base, G) ==
  /\ it \in [SUBSET (1..n) -> V]
  /\ \A s \in SUBSET (1..n) :
       it[s] = IF s = {} THEN base ELSE G[<<it[s \ {Max(s)}], Max(s)>>]

LEMMA FoldExists ==
  ASSUME NEW n \in Nat, NEW V, NEW base \in V, NEW G, G \in [V \X (1..n) -> V]
  PROVE  \E it : FoldsOver(it, n, V, base, G)
<1> DEFINE Solves(it, m) ==
             /\ it \in [SUBSET (1..m) -> V]
             /\ \A s \in SUBSET (1..m) :
                  it[s] = IF s = {} THEN base ELSE G[<<it[s \ {Max(s)}], Max(s)>>]
           S == {m \in Nat : m <= n => \E it : Solves(it, m)}
<1>1. 0 \in S
  <2> DEFINE it == [s \in SUBSET (1..0) |-> base]
  <2>1. 1..0 = {}
    OBVIOUS
  <2>2. Solves(it, 0)
    BY <2>1
  <2> QED BY <2>2
<1>2. ASSUME NEW m \in Nat, m \in S, m + 1 <= n PROVE \E jt : Solves(jt, m + 1)
  <2>0. m <= n /\ m + 1 \in 1..n
    BY <1>2
  <2>1. PICK it : Solves(it, m)
    <3>1. m <= n => \E it : Solves(it, m)
      BY <1>2
    <3> QED BY <2>0, <3>1
  <2> DEFINE jt == [s \in SUBSET (1..(m + 1)) |->
                      IF m + 1 \in s THEN G[<<it[s \ {m + 1}], m + 1>>] ELSE it[s]]
  <2>2. \A s \in SUBSET (1..(m + 1)) : m + 1 \notin s => s \in SUBSET (1..m)
    OBVIOUS
  <2>3. \A s \in SUBSET (1..(m + 1)) : s \ {m + 1} \in SUBSET (1..m)
    OBVIOUS
  <2>4. jt \in [SUBSET (1..(m + 1)) -> V]
    BY <2>0, <2>1, <2>2, <2>3
  <2>5. ASSUME NEW s \in SUBSET (1..(m + 1))
        PROVE  jt[s] = IF s = {} THEN base ELSE G[<<jt[s \ {Max(s)}], Max(s)>>]
    <3>1. CASE m + 1 \in s
      <4>1. Max(s) = m + 1
        <5>1. Max(s) \in s /\ \A i \in s : Max(s) >= i
          BY <3>1, MaxOfRange
        <5>2. Max(s) \in 1..(m + 1)
          BY <5>1
        <5>3. Max(s) >= m + 1
          BY <3>1, <5>1
        <5> QED BY <5>2, <5>3
      <4>2. jt[s] = G[<<it[s \ {m + 1}], m + 1>>]
        BY <3>1
      <4>3. jt[s \ {m + 1}] = it[s \ {m + 1}]
        BY <2>3
      <4> QED BY <3>1, <4>1, <4>2, <4>3
    <3>2. CASE m + 1 \notin s
      <4>1. s \in SUBSET (1..m) /\ jt[s] = it[s]
        BY <2>2, <3>2
      <4>2. s # {} => Max(s) \in s
        BY <4>1, MaxOfRange
      <4>3. jt[s \ {Max(s)}] = it[s \ {Max(s)}]
        BY <3>2, <4>1
      <4>4. it[s] = IF s = {} THEN base ELSE G[<<it[s \ {Max(s)}], Max(s)>>]
        BY <2>1, <4>1
      <4> QED BY <4>1, <4>3, <4>4
    <3> QED BY <3>1, <3>2
  <2> QED BY <2>4, <2>5
<1>3. \A m \in Nat : m \in S => m + 1 \in S
  <2> SUFFICES ASSUME NEW m \in Nat, m \in S PROVE m + 1 \in S
    OBVIOUS
  <2> HIDE DEF Solves
  <2>1. m + 1 <= n => \E it : Solves(it, m + 1)
    BY <1>2
  <2>2. m + 1 \in Nat
    OBVIOUS
  <2> QED BY <2>1, <2>2
<1> HIDE DEF Solves
<1>4. Nat \subseteq S
  <2> HIDE DEF S
  <2> QED BY <1>1, <1>3, Inductive
<1>5. \E it : Solves(it, n)
  BY <1>4
<1> QED BY <1>5 DEF Solves, FoldsOver

LEMMA UpTo ==
  ASSUME NEW n \in Nat, NEW S, 0 \in S, \A k \in 1..n : k - 1 \in S => k \in S
  PROVE  0..n \subseteq S
<1> DEFINE T == {k \in Nat : k <= n => k \in S}
<1>1. 0 \in T
  OBVIOUS
<1>2. ASSUME NEW k \in Nat, k \in T PROVE k + 1 \in T
  <2> SUFFICES ASSUME k + 1 <= n PROVE k + 1 \in S
    OBVIOUS
  <2>1. k + 1 \in 1..n /\ k + 1 - 1 = k /\ k \in S
    BY <1>2
  <2> QED BY <2>1
<1> HIDE DEF T
<1>3. Nat \subseteq T
  BY <1>1, <1>2, Inductive
<1> QED BY <1>3 DEF T

(***************************************************************************)
(* What the draft shows and what the server does with it, step by step.    *)
(***************************************************************************)
Occupy(busy, op) == IF op.act = "disconnect" THEN busy \ op.ends ELSE busy \cup op.ends
After(m, op) == IF m # None /\ Allowed(m, op) THEN Effect(m, op) ELSE None

PreviewIter(base, ops) ==
  CHOOSE it : it = [s \in SUBSET DOMAIN ops |->
                      IF s = {} THEN base ELSE Occupy(it[s \ {Max(s)}], ops[Max(s)])]
AppliedIter(n, ops) ==
  CHOOSE it : it = [s \in SUBSET DOMAIN ops |->
                      IF s = {} THEN n ELSE After(it[s \ {Max(s)}], ops[Max(s)])]
PreviewOf(base, ops) == PreviewIter(base, ops)[DOMAIN ops]
AppliedTo(n, ops) == AppliedIter(n, ops)[DOMAIN ops]

LEMMA PreviewFolds == \A ops : Preview(ops) = PreviewOf(Busy(page.net), ops)
BY DEF Preview, FoldLeft, MapThenFoldSet, Occupy, PreviewIter, PreviewOf

LEMMA AppliedFolds == \A n, ops : Applied(n, ops) = AppliedTo(n, ops)
BY DEF Applied, FoldLeft, MapThenFoldSet, After, AppliedIter, AppliedTo

PreviewRun(P, base, ops) ==
  /\ P \in [0..Len(ops) -> SUBSET Terminal]
  /\ P[0] = base
  /\ \A k \in 1..Len(ops) : P[k] = Occupy(P[k - 1], ops[k])
  /\ P[Len(ops)] = PreviewOf(base, ops)
AppliedRun(A, n, ops) ==
  /\ A \in [0..Len(ops) -> Network \cup {None}]
  /\ A[0] = n
  /\ \A k \in 1..Len(ops) : A[k] = After(A[k - 1], ops[k])
  /\ A[Len(ops)] = AppliedTo(n, ops)

LEMMA OperationShape ==
  ASSUME NEW op \in Operation
  PROVE  /\ op.act \in {"connect", "disconnect", "reserve"} /\ op.ends \in SUBSET Terminal
         /\ op.act # "reserve" => op.ends \in Pairs
         /\ op.seen \in Nat
BY DEF Operation, Pairs

LEMMA OccupyTyped ==
  ASSUME NEW busy \in SUBSET Terminal, NEW op \in Operation
  PROVE  Occupy(busy, op) \in SUBSET Terminal
BY OperationShape DEF Occupy

LEMMA AfterTyped ==
  ASSUME NEW m \in Network \cup {None}, NEW op \in Operation
  PROVE  After(m, op) \in Network \cup {None}
<1> SUFFICES ASSUME m # None, Allowed(m, op) PROVE Effect(m, op) \in Network
  BY DEF After
<1>1. m \in Network
  OBVIOUS
<1>2. CASE op.act = "connect"
  BY <1>1, <1>2, OperationShape DEF Effect, Network
<1>3. CASE op.act = "disconnect"
  BY <1>1, <1>3, OperationShape DEF Effect, Network
<1>4. CASE op.act = "reserve"
  BY <1>1, <1>4, OperationShape DEF Effect, Network
<1> QED BY <1>2, <1>3, <1>4, OperationShape

LEMMA PreviewRuns ==
  ASSUME NEW base \in SUBSET Terminal, NEW ops \in Seq(Operation)
  PROVE  \E P : PreviewRun(P, base, ops)
<1> DEFINE n == Len(ops)
           V == SUBSET Terminal
           G == [p \in V \X (1..n) |-> Occupy(p[1], ops[p[2]])]
           it == PreviewIter(base, ops)
<1>1. n \in Nat /\ DOMAIN ops = 1..n /\ \A k \in 1..n : ops[k] \in Operation
  OBVIOUS
<1>2. G \in [V \X (1..n) -> V]
  BY <1>1, OccupyTyped
<1>3. \A v \in V, k \in 1..n : G[<<v, k>>] = Occupy(v, ops[k])
  OBVIOUS
<1>a. base \in V
  OBVIOUS
<1>b. n \in Nat
  BY <1>1
<1> HIDE DEF G, n, V
<1>c. PICK jt : FoldsOver(jt, n, V, base, G)
  BY <1>2, <1>a, <1>b, FoldExists
<1>4. /\ jt \in [SUBSET (1..n) -> V]
      /\ \A s \in SUBSET (1..n) :
           jt[s] = IF s = {} THEN base ELSE G[<<jt[s \ {Max(s)}], Max(s)>>]
  BY <1>c DEF FoldsOver
<1>5. jt = [s \in SUBSET DOMAIN ops |->
              IF s = {} THEN base ELSE Occupy(jt[s \ {Max(s)}], ops[Max(s)])]
  <2>1. ASSUME NEW s \in SUBSET (1..n), s # {}
        PROVE  jt[s] = Occupy(jt[s \ {Max(s)}], ops[Max(s)])
    <3>1. Max(s) \in 1..n /\ s \ {Max(s)} \in SUBSET (1..n)
      BY <1>1, <2>1, MaxOfRange
    <3>2. jt[s \ {Max(s)}] \in V
      BY <1>4, <3>1
    <3> QED BY <1>3, <1>4, <2>1, <3>1, <3>2
  <2> QED BY <1>1, <1>4, <2>1
<1>6. it = [s \in SUBSET DOMAIN ops |->
              IF s = {} THEN base ELSE Occupy(it[s \ {Max(s)}], ops[Max(s)])]
  BY <1>5 DEF PreviewIter
<1> HIDE DEF it
<1> DEFINE P == [k \in 0..n |-> it[1..k]]
<1>7. P[0] = base
  BY <1>1, <1>6
<1>8. ASSUME NEW k \in 1..n PROVE P[k] = Occupy(P[k - 1], ops[k])
  <2>1. Max(1..k) = k /\ (1..k) \ {k} = 1..(k - 1) /\ 1..k # {} /\ 1..k \in SUBSET DOMAIN ops
    BY <1>1, MaxOfPrefix
  <2>2. it[1..k] = Occupy(it[1..(k - 1)], ops[k])
    BY <1>6, <2>1
  <2>3. k \in 0..n /\ k - 1 \in 0..n
    BY <1>1
  <2> QED BY <2>2, <2>3
<1>9. P[n] = PreviewOf(base, ops)
  BY <1>1 DEF PreviewOf, it
<1>10. P \in [0..n -> SUBSET Terminal]
  <2> DEFINE S == {k \in 0..n : P[k] \in SUBSET Terminal}
  <2>1. 0 \in S
    BY <1>1, <1>7
  <2>2. ASSUME NEW k \in 1..n, k - 1 \in S PROVE k \in S
    <3>a. k \in 0..n /\ ops[k] \in Operation
      BY <1>1
    <3>b. P[k] = Occupy(P[k - 1], ops[k])
      BY <1>8
    <3>1. P[k] = Occupy(P[k - 1], ops[k]) /\ k \in 0..n /\ ops[k] \in Operation
      BY <3>a, <3>b
    <3>2. P[k - 1] \in SUBSET Terminal
      BY <2>2
    <3> HIDE DEF P
    <3>3. P[k] \in SUBSET Terminal
      BY <3>1, <3>2, OccupyTyped
    <3> QED BY <3>1, <3>3
  <2> HIDE DEF P
  <2>3. 0..n \subseteq S
    <3> HIDE DEF S
    <3> QED BY <1>1, <2>1, <2>2, UpTo
  <2> QED BY <2>3 DEF P
<1> HIDE DEF P
<1>11. PreviewRun(P, base, ops)
  BY <1>7, <1>8, <1>9, <1>10 DEF PreviewRun, n
<1> QED BY <1>11
LEMMA AppliedRuns ==
  ASSUME NEW base \in Network \cup {None}, NEW ops \in Seq(Operation)
  PROVE  \E P : AppliedRun(P, base, ops)
<1> DEFINE n == Len(ops)
           V == Network \cup {None}
           G == [p \in V \X (1..n) |-> After(p[1], ops[p[2]])]
           it == AppliedIter(base, ops)
<1>1. n \in Nat /\ DOMAIN ops = 1..n /\ \A k \in 1..n : ops[k] \in Operation
  OBVIOUS
<1>2. G \in [V \X (1..n) -> V]
  BY <1>1, AfterTyped
<1>3. \A v \in V, k \in 1..n : G[<<v, k>>] = After(v, ops[k])
  OBVIOUS
<1>a. base \in V
  OBVIOUS
<1>b. n \in Nat
  BY <1>1
<1> HIDE DEF G, n, V
<1>c. PICK jt : FoldsOver(jt, n, V, base, G)
  BY <1>2, <1>a, <1>b, FoldExists
<1>4. /\ jt \in [SUBSET (1..n) -> V]
      /\ \A s \in SUBSET (1..n) :
           jt[s] = IF s = {} THEN base ELSE G[<<jt[s \ {Max(s)}], Max(s)>>]
  BY <1>c DEF FoldsOver
<1>5. jt = [s \in SUBSET DOMAIN ops |->
              IF s = {} THEN base ELSE After(jt[s \ {Max(s)}], ops[Max(s)])]
  <2>1. ASSUME NEW s \in SUBSET (1..n), s # {}
        PROVE  jt[s] = After(jt[s \ {Max(s)}], ops[Max(s)])
    <3>1. Max(s) \in 1..n /\ s \ {Max(s)} \in SUBSET (1..n)
      BY <1>1, <2>1, MaxOfRange
    <3>2. jt[s \ {Max(s)}] \in V
      BY <1>4, <3>1
    <3> QED BY <1>3, <1>4, <2>1, <3>1, <3>2
  <2> QED BY <1>1, <1>4, <2>1
<1>6. it = [s \in SUBSET DOMAIN ops |->
              IF s = {} THEN base ELSE After(it[s \ {Max(s)}], ops[Max(s)])]
  BY <1>5 DEF AppliedIter
<1> HIDE DEF it
<1> DEFINE P == [k \in 0..n |-> it[1..k]]
<1>7. P[0] = base
  BY <1>1, <1>6
<1>8. ASSUME NEW k \in 1..n PROVE P[k] = After(P[k - 1], ops[k])
  <2>1. Max(1..k) = k /\ (1..k) \ {k} = 1..(k - 1) /\ 1..k # {} /\ 1..k \in SUBSET DOMAIN ops
    BY <1>1, MaxOfPrefix
  <2>2. it[1..k] = After(it[1..(k - 1)], ops[k])
    BY <1>6, <2>1
  <2>3. k \in 0..n /\ k - 1 \in 0..n
    BY <1>1
  <2> QED BY <2>2, <2>3
<1>9. P[n] = AppliedTo(base, ops)
  BY <1>1 DEF AppliedTo, it
<1>10. P \in [0..n -> Network \cup {None}]
  <2> DEFINE S == {k \in 0..n : P[k] \in Network \cup {None}}
  <2>1. 0 \in S
    BY <1>1, <1>7
  <2>2. ASSUME NEW k \in 1..n, k - 1 \in S PROVE k \in S
    <3>a. k \in 0..n /\ ops[k] \in Operation
      BY <1>1
    <3>b. P[k] = After(P[k - 1], ops[k])
      BY <1>8
    <3>1. P[k] = After(P[k - 1], ops[k]) /\ k \in 0..n /\ ops[k] \in Operation
      BY <3>a, <3>b
    <3>2. P[k - 1] \in Network \cup {None}
      BY <2>2
    <3> HIDE DEF P
    <3>3. P[k] \in Network \cup {None}
      BY <3>1, <3>2, AfterTyped
    <3> QED BY <3>1, <3>3
  <2> HIDE DEF P
  <2>3. 0..n \subseteq S
    <3> HIDE DEF S
    <3> QED BY <1>1, <2>1, <2>2, UpTo
  <2> QED BY <2>3 DEF P
<1> HIDE DEF P
<1>11. AppliedRun(P, base, ops)
  BY <1>7, <1>8, <1>9, <1>10 DEF AppliedRun, n
<1> QED BY <1>11

\* Without operations nothing changes; one more operation is one more step.
LEMMA PreviewEmpty == ASSUME NEW base \in SUBSET Terminal PROVE PreviewOf(base, <<>>) = base
<1>1. <<>> \in Seq(Operation) /\ Len(<<>>) = 0
  OBVIOUS
<1>2. PICK P : PreviewRun(P, base, <<>>)
  BY <1>1, PreviewRuns
<1> QED BY <1>1, <1>2 DEF PreviewRun

LEMMA AppliedEmpty == ASSUME NEW n \in Network \cup {None} PROVE AppliedTo(n, <<>>) = n
<1>1. <<>> \in Seq(Operation) /\ Len(<<>>) = 0
  OBVIOUS
<1>2. PICK A : AppliedRun(A, n, <<>>)
  BY <1>1, AppliedRuns
<1> QED BY <1>1, <1>2 DEF AppliedRun

LEMMA AppendShape ==
  ASSUME NEW ops \in Seq(Operation), NEW op \in Operation
  PROVE  /\ Append(ops, op) \in Seq(Operation) /\ Len(ops) \in Nat
         /\ Len(Append(ops, op)) = Len(ops) + 1
         /\ DOMAIN Append(ops, op) = 1..(Len(ops) + 1) /\ DOMAIN ops = 1..Len(ops)
         /\ Append(ops, op)[Len(ops) + 1] = op
         /\ \A k \in 1..Len(ops) : Append(ops, op)[k] = ops[k]
OBVIOUS

LEMMA PreviewAppend ==
  ASSUME NEW base \in SUBSET Terminal, NEW ops \in Seq(Operation), NEW op \in Operation
  PROVE  PreviewOf(base, Append(ops, op)) = Occupy(PreviewOf(base, ops), op)
<1> DEFINE n == Len(ops)
           more == Append(ops, op)
<1>1. /\ more \in Seq(Operation) /\ n \in Nat /\ Len(more) = n + 1
      /\ more[n + 1] = op /\ \A k \in 1..n : more[k] = ops[k]
  BY AppendShape
<1> HIDE DEF more
<1>2. PICK P : PreviewRun(P, base, ops)
  BY PreviewRuns
<1>3. PICK R : PreviewRun(R, base, more)
  BY <1>1, PreviewRuns
<1> DEFINE S == {k \in 0..n : P[k] = R[k]}
<1>4. 0 \in S
  BY <1>1, <1>2, <1>3 DEF PreviewRun
<1>5. ASSUME NEW k \in 1..n, k - 1 \in S PROVE k \in S
  <2>1. P[k] = Occupy(P[k - 1], ops[k])
    BY <1>2 DEF PreviewRun
  <2>2. R[k] = Occupy(R[k - 1], more[k])
    BY <1>1, <1>3 DEF PreviewRun
  <2> QED BY <1>1, <1>5, <2>1, <2>2
<1>6. n \in S
  <2> HIDE DEF S
  <2>1. 0..n \subseteq S
    BY <1>1, <1>4, <1>5, UpTo
  <2> QED BY <1>1, <2>1
<1>7. R[n + 1] = Occupy(R[n + 1 - 1], more[n + 1])
  BY <1>1, <1>3 DEF PreviewRun
<1>8. n + 1 - 1 = n
  BY <1>1
<1>9. P[n] = PreviewOf(base, ops) /\ R[n + 1] = PreviewOf(base, more)
  BY <1>1, <1>2, <1>3 DEF PreviewRun
<1>10. R[n + 1] = Occupy(R[n], op) /\ P[n] = R[n]
  BY <1>1, <1>6, <1>7, <1>8
<1> HIDE DEF n
<1>11. PreviewOf(base, more) = Occupy(PreviewOf(base, ops), op)
  BY <1>9, <1>10
<1> QED BY <1>11 DEF more

LEMMA AppliedAppend ==
  ASSUME NEW base \in Network \cup {None}, NEW ops \in Seq(Operation), NEW op \in Operation
  PROVE  AppliedTo(base, Append(ops, op)) = After(AppliedTo(base, ops), op)
<1> DEFINE n == Len(ops)
           more == Append(ops, op)
<1>1. /\ more \in Seq(Operation) /\ n \in Nat /\ Len(more) = n + 1
      /\ more[n + 1] = op /\ \A k \in 1..n : more[k] = ops[k]
  BY AppendShape
<1> HIDE DEF more
<1>2. PICK P : AppliedRun(P, base, ops)
  BY AppliedRuns
<1>3. PICK R : AppliedRun(R, base, more)
  BY <1>1, AppliedRuns
<1> DEFINE S == {k \in 0..n : P[k] = R[k]}
<1>4. 0 \in S
  BY <1>1, <1>2, <1>3 DEF AppliedRun
<1>5. ASSUME NEW k \in 1..n, k - 1 \in S PROVE k \in S
  <2>1. P[k] = After(P[k - 1], ops[k])
    BY <1>2 DEF AppliedRun
  <2>2. R[k] = After(R[k - 1], more[k])
    BY <1>1, <1>3 DEF AppliedRun
  <2> QED BY <1>1, <1>5, <2>1, <2>2
<1>6. n \in S
  <2> HIDE DEF S
  <2>1. 0..n \subseteq S
    BY <1>1, <1>4, <1>5, UpTo
  <2> QED BY <1>1, <2>1
<1>7. R[n + 1] = After(R[n + 1 - 1], more[n + 1])
  BY <1>1, <1>3 DEF AppliedRun
<1>8. n + 1 - 1 = n
  BY <1>1
<1>9. P[n] = AppliedTo(base, ops) /\ R[n + 1] = AppliedTo(base, more)
  BY <1>1, <1>2, <1>3 DEF AppliedRun
<1>10. R[n + 1] = After(R[n], op) /\ P[n] = R[n]
  BY <1>1, <1>6, <1>7, <1>8
<1> HIDE DEF n
<1>11. AppliedTo(base, more) = After(AppliedTo(base, ops), op)
  BY <1>9, <1>10
<1> QED BY <1>11 DEF more

(***************************************************************************)
(* One allowed operation occupies and frees what the editor shows.         *)
(***************************************************************************)
NetOK(n) ==
  /\ n \in Network
  /\ \A k, l \in n.links : k # l => k \cap l = {}
  /\ \A l \in n.links : l \cap n.reserved = {}

LEMMA BusyMembers == \A n, t : t \in Busy(n) <=> (\E l \in n.links : t \in l) \/ t \in n.reserved
<1> SUFFICES ASSUME NEW n, NEW t
             PROVE  t \in Busy(n) <=> (\E l \in n.links : t \in l) \/ t \in n.reserved
  OBVIOUS
<1>1. t \in UNION n.links <=> \E l \in n.links : t \in l
  BY Zenon
<1> QED BY <1>1, Zenon DEF Busy

LEMMA BusyTyped == ASSUME NEW n \in Network PROVE Busy(n) \in SUBSET Terminal
<1>1. n.links \in SUBSET SUBSET Terminal /\ n.reserved \in SUBSET Terminal
  BY DEF Network, Pairs
<1>2. \A t \in Busy(n) : t \in Terminal
  BY <1>1, BusyMembers
<1> QED BY <1>2

LEMMA EffectOccupies ==
  ASSUME NEW m, NetOK(m), NEW op \in Operation, Allowed(m, op)
  PROVE  /\ NetOK(Effect(m, op)) /\ Busy(Effect(m, op)) = Occupy(Busy(m), op)
         /\ Effect(m, op).links = CASE op.act = "connect" -> m.links \cup {op.ends}
                                    [] op.act = "disconnect" -> m.links \ {op.ends}
                                    [] op.act = "reserve" -> m.links
<1> DEFINE e == Effect(m, op)
<1>1. m \in Network /\ m.links \in SUBSET Pairs /\ m.reserved \in SUBSET Terminal
  BY DEF NetOK, Network
<1>2. CASE op.act = "connect"
  <2>1. e = [m EXCEPT !.links = @ \cup {op.ends}]
    BY <1>2 DEF Effect
  <2>2. e \in Network /\ e.links = m.links \cup {op.ends} /\ e.reserved = m.reserved
    BY <1>1, <1>2, <2>1, OperationShape DEF Network
  <2>3. op.ends \cap Busy(m) = {}
    BY <1>2 DEF Allowed
  <2> HIDE DEF e
  <2>4. NetOK(e) /\ Busy(e) = Occupy(Busy(m), op)
    <3>1. NetOK(e)
      BY <2>2, <2>3, BusyMembers DEF NetOK
    <3>2. \A t : t \in Busy(e) <=> t \in Busy(m) \/ t \in op.ends
      BY <2>2, BusyMembers
    <3> QED BY <1>2, <3>1, <3>2 DEF Occupy
  <2> QED BY <1>2, <2>2, <2>4 DEF e
<1>3. CASE op.act = "disconnect"
  <2>1. e = [m EXCEPT !.links = @ \ {op.ends}]
    BY <1>3 DEF Effect
  <2>2. e \in Network /\ e.links = m.links \ {op.ends} /\ e.reserved = m.reserved
    BY <1>1, <1>3, <2>1 DEF Network
  <2>3. op.ends \in m.links
    BY <1>3 DEF Allowed
  <2> HIDE DEF e
  <2>4. NetOK(e)
    BY <2>2 DEF NetOK
  <2>5. Busy(e) = Busy(m) \ op.ends
    <3>1. \A t : t \in Busy(e) <=> t \in Busy(m) /\ t \notin op.ends
      BY <2>2, <2>3, BusyMembers DEF NetOK
    <3> QED BY <3>1
  <2> QED BY <1>3, <2>2, <2>4, <2>5 DEF e, Occupy
<1>4. CASE op.act = "reserve"
  <2>1. e = [m EXCEPT !.reserved = @ \cup op.ends]
    BY <1>4 DEF Effect
  <2>2. e \in Network /\ e.links = m.links /\ e.reserved = m.reserved \cup op.ends
    BY <1>1, <1>4, <2>1, OperationShape DEF Network
  <2>3. op.ends \cap Busy(m) = {}
    BY <1>4 DEF Allowed
  <2> HIDE DEF e
  <2>4. NetOK(e) /\ Busy(e) = Occupy(Busy(m), op)
    <3>1. NetOK(e)
      BY <2>2, <2>3, BusyMembers DEF NetOK
    <3>2. \A t : t \in Busy(e) <=> t \in Busy(m) \/ t \in op.ends
      BY <2>2, BusyMembers
    <3> QED BY <1>4, <3>1, <3>2 DEF Occupy
  <2> QED BY <1>4, <2>2, <2>4 DEF e
<1> QED BY <1>2, <1>3, <1>4, OperationShape

(***************************************************************************)
(* The last operation that names a terminal decides whether it is occupied *)
(* in the end, in the preview as at the server.                            *)
(***************************************************************************)
Leaves(ops, busy) ==
  \A i \in DOMAIN ops : \A t \in ops[i].ends :
    (\A j \in DOMAIN ops : j > i => t \notin ops[j].ends) => (t \in busy <=> ops[i].act # "disconnect")

LeavesUpTo(ops, k, busy) ==
  \A i \in 1..k : \A t \in ops[i].ends :
    (\A j \in 1..k : j > i => t \notin ops[j].ends) => (t \in busy <=> ops[i].act # "disconnect")

LEMMA LeavesMore ==
  ASSUME NEW ops, NEW n \in Nat, NEW k \in 1..n, NEW busy, LeavesUpTo(ops, k - 1, busy)
  PROVE  LeavesUpTo(ops, k, Occupy(busy, ops[k]))
<1> SUFFICES ASSUME NEW i \in 1..k, NEW t \in ops[i].ends,
                    \A j \in 1..k : j > i => t \notin ops[j].ends
             PROVE  t \in Occupy(busy, ops[k]) <=> ops[i].act # "disconnect"
  BY DEF LeavesUpTo
<1>1. CASE i = k
  BY <1>1 DEF Occupy
<1>2. CASE i # k
  <2>1. i \in 1..(k - 1) /\ k > i /\ k \in 1..k /\ \A j \in 1..(k - 1) : j \in 1..k
    BY <1>2
  <2>2. t \notin ops[k].ends
    BY <2>1
  <2>3. t \in busy <=> ops[i].act # "disconnect"
    BY <2>1 DEF LeavesUpTo
  <2> QED BY <2>2, <2>3 DEF Occupy
<1> QED BY <1>1, <1>2

LEMMA PreviewLeaves ==
  ASSUME NEW base \in SUBSET Terminal, NEW ops \in Seq(Operation)
  PROVE  Leaves(ops, PreviewOf(base, ops)) /\ PreviewOf(base, ops) \in SUBSET Terminal
<1> DEFINE n == Len(ops)
<1>1. n \in Nat /\ DOMAIN ops = 1..n
  OBVIOUS
<1>2. PICK P : PreviewRun(P, base, ops)
  BY PreviewRuns
<1> DEFINE S == {k \in 0..n : LeavesUpTo(ops, k, P[k])}
<1>3. 0 \in S
  BY <1>1 DEF LeavesUpTo
<1>4. ASSUME NEW k \in 1..n, k - 1 \in S PROVE k \in S
  <2>1. P[k] = Occupy(P[k - 1], ops[k]) /\ k \in 0..n
    BY <1>1, <1>2 DEF PreviewRun
  <2>2. LeavesUpTo(ops, k - 1, P[k - 1])
    BY <1>4
  <2>3. LeavesUpTo(ops, k, Occupy(P[k - 1], ops[k]))
    BY <1>1, <2>2, LeavesMore
  <2> QED BY <2>1, <2>3
<1>5. n \in S
  <2> HIDE DEF S, n
  <2>1. 0..n \subseteq S
    BY <1>1, <1>3, <1>4, UpTo
  <2> QED BY <1>1, <2>1
<1>6. LeavesUpTo(ops, n, P[n])
  BY <1>5
<1>7. P[n] = PreviewOf(base, ops) /\ P[n] \in SUBSET Terminal
  BY <1>1, <1>2 DEF PreviewRun
<1> QED BY <1>1, <1>6, <1>7 DEF Leaves, LeavesUpTo

LEMMA AppliedLeaves ==
  ASSUME NEW net0, NetOK(net0), NEW ops \in Seq(Operation), AppliedTo(net0, ops) # None
  PROVE  /\ NetOK(AppliedTo(net0, ops))
         /\ Leaves(ops, Busy(AppliedTo(net0, ops)))
<1> DEFINE n == Len(ops)
<1>1. n \in Nat /\ DOMAIN ops = 1..n /\ \A k \in 1..n : ops[k] \in Operation
  OBVIOUS
<1>2. PICK A : AppliedRun(A, net0, ops)
  BY AppliedRuns DEF NetOK
<1> DEFINE S == {k \in 0..n : A[k] # None => NetOK(A[k]) /\ LeavesUpTo(ops, k, Busy(A[k]))}
<1>3. 0 \in S
  BY <1>1, <1>2 DEF LeavesUpTo, AppliedRun
<1>4. ASSUME NEW k \in 1..n, k - 1 \in S PROVE k \in S
  <2>1. A[k] = After(A[k - 1], ops[k]) /\ k \in 0..n /\ ops[k] \in Operation
    BY <1>1, <1>2 DEF AppliedRun
  <2>2. CASE A[k] # None
    <3>1. A[k - 1] # None /\ Allowed(A[k - 1], ops[k]) /\ A[k] = Effect(A[k - 1], ops[k])
      BY <2>1, <2>2 DEF After
    <3>2. NetOK(A[k - 1]) /\ LeavesUpTo(ops, k - 1, Busy(A[k - 1]))
      BY <1>4, <3>1
    <3>3. NetOK(A[k]) /\ Busy(A[k]) = Occupy(Busy(A[k - 1]), ops[k])
      BY <2>1, <3>1, <3>2, EffectOccupies
    <3>4. LeavesUpTo(ops, k, Occupy(Busy(A[k - 1]), ops[k]))
      BY <1>1, <3>2, LeavesMore
    <3> QED BY <2>1, <3>3, <3>4
  <2> QED BY <2>1, <2>2
<1>5. n \in S
  <2> HIDE DEF S, n
  <2>1. 0..n \subseteq S
    BY <1>1, <1>3, <1>4, UpTo
  <2> QED BY <1>1, <2>1
<1>6. A[n] = AppliedTo(net0, ops)
  BY <1>2 DEF AppliedRun
<1>7. NetOK(A[n]) /\ LeavesUpTo(ops, n, Busy(A[n]))
  BY <1>5, <1>6
<1> QED BY <1>1, <1>6, <1>7 DEF Leaves, LeavesUpTo

\* Two ends that the same operations leave are the same at every terminal named.
LEMMA LeavesAgree ==
  ASSUME NEW ops \in Seq(Operation), NEW x, NEW y, Leaves(ops, x), Leaves(ops, y),
         NEW i \in DOMAIN ops, NEW t \in ops[i].ends
  PROVE  t \in x <=> t \in y
<1> DEFINE s == {j \in DOMAIN ops : t \in ops[j].ends}
<1>1. DOMAIN ops = 1..Len(ops) /\ Len(ops) \in Nat
  OBVIOUS
<1>2. s \in SUBSET (1..Len(ops)) /\ s # {}
  BY <1>1
<1>3. Max(s) \in s /\ \A j \in s : Max(s) >= j
  BY <1>1, <1>2, MaxOfRange
<1> DEFINE m == Max(s)
<1>4. m \in 1..Len(ops) /\ t \in ops[m].ends
  BY <1>1, <1>3
<1>5. \A j \in DOMAIN ops : j > m => t \notin ops[j].ends
  <2> SUFFICES ASSUME NEW j \in DOMAIN ops, j > m, t \in ops[j].ends PROVE FALSE
    OBVIOUS
  <2>1. j \in s /\ j \in Nat
    BY <1>1
  <2> HIDE DEF s
  <2>2. m >= j /\ m \in Nat
    BY <1>3, <1>4, <2>1
  <2> QED BY <2>1, <2>2
<1> HIDE DEF m
<1> QED BY <1>1, <1>4, <1>5 DEF Leaves

(***************************************************************************)
(* The draft fits the network it was made on.                              *)
(***************************************************************************)
Twice(ops) ==
  \E i, j \in DOMAIN ops :
    /\ i # j /\ ops[i].act = "disconnect" /\ ops[j].act = "disconnect"
    /\ ops[i].ends = ops[j].ends

Fits(n, ops) ==
  /\ AppliedTo(n, ops) # None
  /\ Busy(AppliedTo(n, ops)) = PreviewOf(Busy(n), ops)
  /\ \A l \in n.links : \/ l \in AppliedTo(n, ops).links
                        \/ \E i \in DOMAIN ops : ops[i].act = "disconnect" /\ ops[i].ends = l

\* What an operation asks of the network and the draft before it.
Proper(n, ops, op) ==
  IF op.act = "disconnect" THEN op.ends \in n.links ELSE op.ends \cap PreviewOf(Busy(n), ops) = {}

LEMMA FitsEmpty == ASSUME NEW n, NetOK(n), n # None PROVE Fits(n, <<>>)
<1>1. n \in Network /\ Busy(n) \in SUBSET Terminal
  BY BusyTyped DEF NetOK
<1>2. AppliedTo(n, <<>>) = n /\ PreviewOf(Busy(n), <<>>) = Busy(n)
  BY <1>1, AppliedEmpty, PreviewEmpty
<1> QED BY <1>2 DEF Fits

LEMMA FitsMore ==
  ASSUME NEW n, NetOK(n), NEW ops \in Seq(Operation), NEW op \in Operation,
         Fits(n, ops), Proper(n, ops, op), ~Twice(Append(ops, op)), None \notin Network
  PROVE  Fits(n, Append(ops, op))
<1> DEFINE m == AppliedTo(n, ops)
           more == Append(ops, op)
           k == Len(ops) + 1
<1>1. /\ more \in Seq(Operation) /\ Len(ops) \in Nat
      /\ DOMAIN more = 1..k /\ DOMAIN ops = 1..Len(ops) /\ more[k] = op
      /\ \A i \in 1..Len(ops) : more[i] = ops[i]
  BY AppendShape
<1>2. /\ NetOK(m) /\ m # None /\ n \in Network /\ Busy(n) \in SUBSET Terminal
      /\ Busy(m) = PreviewOf(Busy(n), ops)
  BY AppliedLeaves, BusyTyped DEF Fits, NetOK
<1>3. AppliedTo(n, more) = After(m, op) /\ PreviewOf(Busy(n), more) = Occupy(Busy(m), op)
  BY <1>2, AppliedAppend, PreviewAppend
<1> HIDE DEF more, m
<1>4. \A l \in n.links : \/ l \in m.links
                         \/ \E i \in DOMAIN ops : ops[i].act = "disconnect" /\ ops[i].ends = l
  BY DEF Fits, m
<1>5. Allowed(m, op)
  <2>1. CASE op.act = "disconnect"
    <3>1. op.ends \in n.links
      BY <2>1 DEF Proper
    <3>2. \A i \in DOMAIN ops : ~(ops[i].act = "disconnect" /\ ops[i].ends = op.ends)
      <4> SUFFICES ASSUME NEW i \in DOMAIN ops, ops[i].act = "disconnect", ops[i].ends = op.ends
                   PROVE  FALSE
        OBVIOUS
      <4>1. i # k /\ i \in DOMAIN more /\ k \in DOMAIN more /\ more[i] = ops[i]
        BY <1>1
      <4>2. Twice(more)
        BY <1>1, <2>1, <4>1 DEF Twice
      <4> QED BY <4>2 DEF more
    <3> QED BY <1>4, <2>1, <3>1, <3>2 DEF Allowed
  <2>2. CASE op.act # "disconnect"
    BY <1>2, <2>2 DEF Proper, Allowed
  <2> QED BY <2>1, <2>2
<1>6. AppliedTo(n, more) = Effect(m, op)
  BY <1>2, <1>3, <1>5 DEF After
<1>7. NetOK(Effect(m, op)) /\ Busy(Effect(m, op)) = Occupy(Busy(m), op)
  BY <1>2, <1>5, EffectOccupies
<1>8. Effect(m, op) # None
  BY <1>7 DEF NetOK
<1>9. ASSUME NEW l \in n.links
      PROVE  \/ l \in Effect(m, op).links
             \/ \E i \in DOMAIN more : more[i].act = "disconnect" /\ more[i].ends = l
  <2>1. CASE \E i \in DOMAIN ops : ops[i].act = "disconnect" /\ ops[i].ends = l
    BY <1>1, <2>1
  <2>2. CASE l \in m.links
    <3>1. Effect(m, op).links = CASE op.act = "connect" -> m.links \cup {op.ends}
                                  [] op.act = "disconnect" -> m.links \ {op.ends}
                                  [] op.act = "reserve" -> m.links
      BY <1>2, <1>5, EffectOccupies
    <3>2. l \in Effect(m, op).links \/ (op.act = "disconnect" /\ op.ends = l)
      BY <2>2, <3>1, OperationShape
    <3> QED BY <1>1, <3>2
  <2> QED BY <1>4, <2>1, <2>2
<1> QED BY <1>3, <1>6, <1>7, <1>8, <1>9 DEF Fits, more

(***************************************************************************)
(* The invariant.  A page whose revision is current shows the network; the *)
(* draft fits it unless something was taken out of it, and so does a batch *)
(* the server has not answered.                                            *)
(***************************************************************************)
PageInv ==
  /\ NetOK(net) /\ rev \in Nat /\ rev > 0
  /\ NetOK(page.net) /\ page.rev \in Nat /\ page.rev <= rev
  /\ page.rev = rev => page.net = net
  /\ load # None => load \in Nat /\ load <= rev
  /\ load # None /\ load # Asked => page.rev <= load

SeenBy(ops, r) == \A i \in DOMAIN ops : ops[i].seen <= r
SeenAt(ops, r) == \A i \in DOMAIN ops : ops[i].seen = r

DraftInv ==
  /\ draft \in Seq(Operation) /\ SeenBy(draft, page.rev) /\ undone \in BOOLEAN
  /\ page.rev = rev /\ ~undone /\ ~Twice(draft) /\ SeenAt(draft, rev) => Fits(net, draft)
  /\ dialog # None =>
       /\ dialog \in Operation /\ dialog.seen <= page.rev
       /\ dialog.seen = rev /\ ~undone => Proper(net, draft, dialog)

BatchOK(r) ==
  /\ r.ops \in Seq(Operation) /\ r.ops # <<>>
  /\ r.rev \in Nat /\ r.rev <= rev /\ SeenBy(r.ops, r.rev)
  /\ Leaves(r.ops, r.shown)
  /\ r.rev = rev /\ ~r.undone /\ ~Twice(r.ops) /\ SeenAt(r.ops, rev) => Fits(net, r.ops)

BatchesInv == \A b \in Batch : Is(b, "sent") \/ Is(b, "checked") => BatchOK(batches[b])

Explained(r) == r.undone \/ Twice(r.ops) \/ \E i \in DOMAIN r.ops : r.ops[i].seen < r.at

AnswerInv ==
  /\ pending # None /\ Is(pending, "refused") => Explained(batches[pending])
  /\ conflict # None => Explained(conflict)

EditorInv == PageInv /\ DraftInv /\ BatchesInv /\ AnswerInv

LEMMA EditorInit == ASSUME None \notin Network, Init PROVE EditorInv
<1>1. PICK n \in {n \in [links : SUBSET Pairs, reserved : {{}}] :
                \A k, l \in n.links : k # l => k \cap l = {}} : net = n
  BY DEF Init
<1>2. NetOK(net)
  BY <1>1 DEF NetOK, Network
<1>3. page.net = net /\ page.rev = 1 /\ rev = 1 /\ load = None
  BY DEF Init
<1>4. PageInv
  BY <1>2, <1>3 DEF PageInv
<1>5. <<>> \in Seq(Operation) /\ DOMAIN <<>> = {} /\ draft = <<>> /\ dialog = None /\ undone = FALSE
  BY DEF Init
<1>6. Fits(net, <<>>)
  BY <1>2, FitsEmpty DEF NetOK
<1>7. DraftInv
  BY <1>5, <1>6 DEF DraftInv, SeenBy
<1>8. BatchesInv
  BY DEF Init, BatchesInv, Is, Unsent
<1>9. AnswerInv
  BY DEF Init, AnswerInv
<1> QED BY <1>4, <1>7, <1>8, <1>9 DEF EditorInv

\* The draft alone changes.
LEMMA AppendOK ==
  ASSUME PageInv, DraftInv, None \notin Network, NEW op \in Operation,
         draft' = Append(draft, op), op.seen <= page.rev,
         op.seen = rev /\ ~undone => Proper(net, draft, op),
         dialog' = None, UNCHANGED <<net, rev, page, undone>>
  PROVE  DraftInv'
<1> DEFINE k == Len(draft) + 1
<1>1. /\ draft' \in Seq(Operation) /\ Len(draft) \in Nat
      /\ DOMAIN draft' = 1..k /\ DOMAIN draft = 1..Len(draft) /\ draft'[k] = op
      /\ \A i \in 1..Len(draft) : draft'[i] = draft[i]
  BY AppendShape DEF DraftInv
<1>2. SeenBy(draft', page.rev)
  BY <1>1 DEF SeenBy, DraftInv
<1>3. ASSUME page.rev = rev, ~undone, ~Twice(draft'), SeenAt(draft', rev) PROVE Fits(net, draft')
  <2>1. ~Twice(draft) /\ SeenAt(draft, rev) /\ op.seen = rev
    BY <1>1, <1>3 DEF Twice, SeenAt
  <2>2. Fits(net, draft) /\ Proper(net, draft, op)
    BY <1>3, <2>1 DEF DraftInv
  <2> QED BY <1>3, <2>2, FitsMore DEF DraftInv, PageInv
<1> QED BY <1>1, <1>2, <1>3 DEF DraftInv, SeenBy, SeenAt, Twice, Fits

LEMMA OpenOK ==
  ASSUME PageInv, DraftInv, NEW op \in Operation, op.seen <= page.rev,
         op.seen = rev => Proper(net, draft, op),
         dialog' = op, UNCHANGED <<net, rev, page, draft, undone>>
  PROVE  DraftInv'
BY DEF DraftInv, SeenBy, SeenAt, Twice, Fits, Proper

Drafts ==
  \/ \E ends \in Pairs : AddConnect(ends) \/ OpenDisconnect(ends)
  \/ \E t \in Terminal : OpenReserve(t)
  \/ Confirm \/ Dismiss \/ Clear
  \/ \E i \in 1 .. MaxDraft : RemoveOp(i)

LEMMA RemoveShape ==
  ASSUME NEW ops \in Seq(Operation), NEW i \in DOMAIN ops, NEW r, SeenBy(ops, r)
  PROVE  RemoveAt(ops, i) \in Seq(Operation) /\ SeenBy(RemoveAt(ops, i), r)
<1> DEFINE a == SubSeq(ops, 1, i - 1)
           z == SubSeq(ops, i + 1, Len(ops))
<1>1. /\ i \in Nat /\ i >= 1 /\ i <= Len(ops) /\ Len(ops) \in Nat
      /\ DOMAIN ops = 1..Len(ops)
  OBVIOUS
<1>2. /\ a \in Seq(Operation) /\ Len(a) = i - 1 /\ \A j \in 1..(i - 1) : a[j] = ops[j]
  BY <1>1
<1>3. /\ z \in Seq(Operation) /\ Len(z) = Len(ops) - i
      /\ \A j \in 1..(Len(ops) - i) : z[j] = ops[i + j]
  BY <1>1
<1> HIDE DEF a, z
<1>4. /\ a \o z \in Seq(Operation) /\ Len(a \o z) = Len(a) + Len(z)
      /\ \A j \in 1..(Len(a) + Len(z)) : (a \o z)[j] = IF j <= Len(a) THEN a[j] ELSE z[j - Len(a)]
  BY <1>2, <1>3
<1>5. SeenBy(a \o z, r)
  <2> SUFFICES ASSUME NEW j \in 1..(Len(a) + Len(z)) PROVE (a \o z)[j].seen <= r
    BY <1>4 DEF SeenBy
  <2>1. CASE j <= Len(a)
    BY <1>1, <1>2, <1>4, <2>1 DEF SeenBy
  <2>2. CASE ~(j <= Len(a))
    <3>1. j - Len(a) \in 1..(Len(ops) - i) /\ i + (j - Len(a)) \in 1..Len(ops)
      BY <1>1, <1>2, <1>3, <2>2
    <3>2. (a \o z)[j] = ops[i + (j - Len(a))]
      BY <1>3, <1>4, <2>2, <3>1
    <3> QED BY <1>1, <3>1, <3>2 DEF SeenBy
  <2> QED BY <2>1, <2>2
<1> QED BY <1>4, <1>5 DEF RemoveAt, a, z

LEMMA DraftsKeep == ASSUME EditorInv, None \notin Network, Drafts PROVE EditorInv'
<1> USE DEF EditorInv
<1>1. UNCHANGED <<net, rev, batches, page, load, pending, conflict>>
  BY DEF Drafts, AddConnect, OpenDisconnect, OpenReserve, Open, Confirm, Dismiss, Clear, RemoveOp,
         server, query
<1>2. PageInv' /\ AnswerInv' /\ BatchesInv'
  BY <1>1 DEF PageInv, AnswerInv, BatchesInv, BatchOK, Is, NetOK, Explained, SeenBy, SeenAt, Twice, Fits
<1>a. page.rev \in Nat /\ page.rev <= page.rev
  BY DEF PageInv
<1>b. Fits(net, <<>>) /\ <<>> \in Seq(Operation) /\ DOMAIN <<>> = {}
  BY FitsEmpty DEF PageInv, NetOK
<1>3. ASSUME NEW ends \in Pairs, AddConnect(ends) PROVE DraftInv'
  <2> DEFINE op == Op("connect", ends)
  <2>1. /\ draft' = Append(draft, op) /\ dialog' = None /\ undone' = undone
        /\ ends \cap PreviewOf(Busy(page.net), draft) = {}
    BY <1>3, PreviewFolds DEF AddConnect, Idle
  <2>2. op \in Operation /\ op.seen = page.rev /\ op.act = "connect" /\ op.ends = ends
    <3>1. op = [act |-> "connect", ends |-> ends, seen |-> page.rev]
      BY DEF Op
    <3> QED BY <1>a, <3>1 DEF Operation
  <2> HIDE DEF op
  <2>3. op.seen = rev => Proper(net, draft, op)
    BY <2>1, <2>2 DEF PageInv, Proper
  <2> QED BY <1>1, <1>a, <2>1, <2>2, <2>3, AppendOK
<1>4. ASSUME NEW ends \in Pairs, OpenDisconnect(ends) PROVE DraftInv'
  <2> DEFINE op == Op("disconnect", ends)
  <2>1. dialog' = op /\ UNCHANGED <<draft, undone>> /\ ends \in page.net.links
    BY <1>4 DEF OpenDisconnect, Open
  <2>2. op \in Operation /\ op.seen = page.rev /\ op.act = "disconnect" /\ op.ends = ends
    <3>1. op = [act |-> "disconnect", ends |-> ends, seen |-> page.rev]
      BY DEF Op
    <3> QED BY <1>a, <3>1 DEF Operation
  <2> HIDE DEF op
  <2>3. op.seen = rev => Proper(net, draft, op)
    BY <2>1, <2>2 DEF PageInv, Proper
  <2> QED BY <1>1, <1>a, <2>1, <2>2, <2>3, OpenOK
<1>5. ASSUME NEW t \in Terminal, OpenReserve(t) PROVE DraftInv'
  <2> DEFINE op == Op("reserve", {t})
  <2>1. dialog' = op /\ UNCHANGED <<draft, undone>> /\ t \notin PreviewOf(Busy(page.net), draft)
    BY <1>5, PreviewFolds DEF OpenReserve, Open
  <2>2. op \in Operation /\ op.seen = page.rev /\ op.act = "reserve" /\ op.ends = {t}
    <3>1. op = [act |-> "reserve", ends |-> {t}, seen |-> page.rev]
      BY DEF Op
    <3> QED BY <1>a, <3>1 DEF Operation
  <2> HIDE DEF op
  <2>3. op.seen = rev => Proper(net, draft, op)
    BY <2>1, <2>2 DEF PageInv, Proper
  <2> QED BY <1>1, <1>a, <2>1, <2>2, <2>3, OpenOK
<1>6. ASSUME Confirm PROVE DraftInv'
  <2>1. dialog # None /\ draft' = Append(draft, dialog) /\ dialog' = None /\ undone' = undone
    BY <1>6 DEF Confirm
  <2>2. dialog \in Operation /\ dialog.seen <= page.rev
        /\ (dialog.seen = rev /\ ~undone => Proper(net, draft, dialog))
    BY <2>1 DEF DraftInv
  <2>3. PICK op \in Operation : op = dialog
    BY <2>2
  <2>4. /\ draft' = Append(draft, op) /\ op.seen <= page.rev
        /\ op.seen = rev /\ ~undone => Proper(net, draft, op)
    BY <2>1, <2>2, <2>3
  <2> QED BY <1>1, <2>1, <2>4, AppendOK
<1>7. ASSUME Dismiss PROVE DraftInv'
  <2>1. draft' = draft /\ dialog' = None /\ undone' = (undone /\ draft # <<>>)
    BY <1>7 DEF Dismiss
  <2>a. undone' \in BOOLEAN /\ (draft # <<>> => undone' = undone)
    BY <2>1 DEF DraftInv
  <2>2. CASE draft # <<>>
    BY <1>1, <2>1, <2>a, <2>2 DEF DraftInv, SeenBy, SeenAt, Twice, Fits
  <2>3. CASE draft = <<>>
    BY <1>1, <1>b, <2>1, <2>a, <2>3 DEF DraftInv, SeenBy, Fits
  <2> QED BY <2>2, <2>3
<1>8. ASSUME Clear PROVE DraftInv'
  <2>1. draft' = <<>> /\ undone' = FALSE /\ dialog' = None
    BY <1>8 DEF Clear, Idle
  <2> QED BY <1>1, <2>1, <1>b DEF DraftInv, SeenBy, Fits
<1>9. ASSUME NEW i, RemoveOp(i) PROVE DraftInv'
  <2>1. /\ i \in DOMAIN draft /\ draft' = RemoveAt(draft, i) /\ dialog' = None
        /\ undone' = (draft' # <<>>)
    BY <1>9 DEF RemoveOp, Idle
  <2>2. draft' \in Seq(Operation) /\ SeenBy(draft', page.rev)
    BY <2>1, RemoveShape DEF DraftInv
  <2>3. CASE draft' # <<>>
    BY <1>1, <2>1, <2>2, <2>3 DEF DraftInv, SeenBy
  <2>4. CASE draft' = <<>>
    BY <1>1, <1>b, <2>1, <2>2, <2>4 DEF DraftInv, SeenBy, Fits
  <2> QED BY <2>3, <2>4
<1> QED BY <1>2, <1>3, <1>4, <1>5, <1>6, <1>7, <1>8, <1>9 DEF Drafts

(***************************************************************************)
(* The server.                                                             *)
(***************************************************************************)
LEMMA PageKept == ASSUME PageInv, UNCHANGED <<net, rev, page, load>> PROVE PageInv'
  BY DEF PageInv, NetOK

LEMMA DraftKept ==
  ASSUME DraftInv, UNCHANGED <<net, rev, page, draft, undone, dialog>>
  PROVE  DraftInv'
  BY DEF DraftInv, SeenBy, SeenAt, Twice, Fits, Proper

LEMMA BatchesKept == ASSUME BatchesInv, UNCHANGED <<net, rev, batches>> PROVE BatchesInv'
  BY DEF BatchesInv, Is, BatchOK, SeenBy, SeenAt, Twice, Fits

LEMMA AnswerKept == ASSUME AnswerInv, UNCHANGED <<batches, pending, conflict>> PROVE AnswerInv'
  BY DEF AnswerInv, Is, Explained, Twice

\* A new revision leaves every page, draft and batch behind.
LEMMA LeftBehind ==
  ASSUME PageInv, DraftInv, NetOK(net'), rev' = rev + 1,
         UNCHANGED <<page, load, draft, undone, dialog>>
  PROVE  PageInv' /\ DraftInv'
<1>1. rev \in Nat /\ rev' \in Nat /\ rev' > 0 /\ page.rev \in Nat /\ page.rev <= rev' /\ page.rev # rev'
  BY DEF PageInv
<1>2. PageInv'
  BY <1>1 DEF PageInv, NetOK
<1>3. dialog # None => dialog.seen # rev'
  <2> SUFFICES ASSUME dialog # None PROVE dialog.seen # rev'
    OBVIOUS
  <2>1. dialog.seen \in Nat /\ dialog.seen <= page.rev
    BY DEF DraftInv, Operation
  <2> QED BY <1>1, <2>1 DEF PageInv
<1>4. DraftInv'
  BY <1>1, <1>3 DEF DraftInv, SeenBy
<1> QED BY <1>2, <1>4

LEMMA LeftBehindBatch ==
  ASSUME NEW b \in Batch, BatchOK(batches[b]), batches'[b] = batches[b],
         rev \in Nat, rev' = rev + 1
  PROVE  BatchOK(batches[b])'
<1>1. batches[b].rev \in Nat /\ batches[b].rev <= rev' /\ batches[b].rev # rev'
  BY DEF BatchOK
<1> QED BY <1>1 DEF BatchOK, SeenBy, Leaves

LEMMA EditorSubmit == ASSUME EditorInv, IInv, NEW b \in Batch, Submit(b) PROVE EditorInv'
<1> DEFINE row == [Unsent EXCEPT !.stage = "sent", !.ops = draft, !.rev = page.rev,
                                 !.undone = undone, !.shown = Preview(draft)]
<1>1. /\ batches' = [batches EXCEPT ![b] = row] /\ pending' = b /\ draft # <<>>
      /\ UNCHANGED <<net, rev, page, load, draft, undone, dialog, conflict>>
  BY DEF Submit, query, form
<1>2. /\ row.stage = "sent" /\ row.ops = draft /\ row.rev = page.rev
      /\ row.undone = undone /\ row.shown = Preview(draft)
  BY DEF Unsent
<1> HIDE DEF row
<1>3. batches'[b] = row /\ \A c \in Batch : c # b => batches'[c] = batches[c]
  BY <1>1 DEF IInv, Rows
<1>4. PageInv' /\ DraftInv'
  BY <1>1, PageKept, DraftKept DEF EditorInv
<1>5. Leaves(draft, Preview(draft))
  <2>1. Busy(page.net) \in SUBSET Terminal /\ draft \in Seq(Operation)
    BY BusyTyped DEF EditorInv, PageInv, DraftInv, NetOK
  <2> QED BY <2>1, PreviewFolds, PreviewLeaves
<1>6. BatchOK(row)
  <2>1. row.ops \in Seq(Operation) /\ row.ops # <<>> /\ SeenBy(row.ops, row.rev) /\ Leaves(row.ops, row.shown)
    BY <1>1, <1>2, <1>5 DEF EditorInv, DraftInv
  <2>2. row.rev \in Nat /\ row.rev <= rev
    BY <1>2 DEF EditorInv, PageInv
  <2>3. ASSUME row.rev = rev, ~row.undone, ~Twice(row.ops), SeenAt(row.ops, rev) PROVE Fits(net, row.ops)
    BY <1>2, <2>3 DEF EditorInv, DraftInv
  <2> QED BY <2>1, <2>2, <2>3 DEF BatchOK
<1>7. BatchesInv'
  <2> SUFFICES ASSUME NEW c \in Batch, (Is(c, "sent") \/ Is(c, "checked"))' PROVE BatchOK(batches[c])'
    BY DEF BatchesInv
  <2>1. CASE c = b
    BY <1>1, <1>3, <1>6, <2>1 DEF BatchOK, SeenBy, SeenAt, Twice, Fits, Leaves
  <2>2. CASE c # b
    <3>1. batches'[c] = batches[c] /\ BatchOK(batches[c])
      BY <1>3, <2>2 DEF EditorInv, BatchesInv, Is
    <3> QED BY <1>1, <3>1 DEF BatchOK, SeenBy, SeenAt, Twice, Fits, Leaves
  <2> QED BY <2>1, <2>2
<1>8. AnswerInv'
  BY <1>1, <1>2, <1>3 DEF EditorInv, AnswerInv, Is, Explained, Twice
<1> QED BY <1>4, <1>7, <1>8 DEF EditorInv

\* What the server does to a batch, seen by the one who waits for it.
LEMMA AnswerStep ==
  ASSUME AnswerInv, NEW b \in Batch, \A c \in Batch : c # b => batches'[c] = batches[c],
         pending \in Batch \cup {None}, UNCHANGED <<pending, conflict>>,
         Is(b, "refused")' => Explained(batches[b])'
  PROVE  AnswerInv'
<1>1. conflict' # None => Explained(conflict)'
  BY DEF AnswerInv, Explained, Twice
<1>2. CASE pending = b
  BY <1>1, <1>2 DEF AnswerInv, Is, Explained, Twice
<1>3. CASE pending # None /\ pending # b
  <2>1. batches'[pending] = batches[pending]
    BY <1>3
  <2> QED BY <1>1, <1>3, <2>1 DEF AnswerInv, Is, Explained, Twice
<1> QED BY <1>1, <1>2, <1>3 DEF AnswerInv

LEMMA EditorCheck ==
  ASSUME EditorInv, IInv, Waiting, NEW b \in Batch, Check(b) PROVE EditorInv'
<1>1. /\ UNCHANGED <<net, rev, page, load, draft, undone, dialog, pending, conflict>>
      /\ Is(b, "sent")
  BY DEF Check, query, form, Is
<1>2. /\ \A c \in Batch : c # b => batches'[c] = batches[c]
      /\ batches'[b].stage = IF batches[b].rev = rev THEN "checked" ELSE "refused"
      /\ batches'[b].at = rev
      /\ batches'[b].ops = batches[b].ops /\ batches'[b].rev = batches[b].rev
      /\ batches'[b].undone = batches[b].undone /\ batches'[b].shown = batches[b].shown
  BY DEF Check, IInv, Rows, Fields
<1>3. PageInv' /\ DraftInv'
  BY <1>1, PageKept, DraftKept DEF EditorInv
<1>4. BatchOK(batches[b])
  BY <1>1 DEF EditorInv, BatchesInv
<1>5. BatchesInv'
  <2> SUFFICES ASSUME NEW c \in Batch, (Is(c, "sent") \/ Is(c, "checked"))' PROVE BatchOK(batches[c])'
    BY DEF BatchesInv
  <2>1. CASE c = b
    BY <1>1, <1>2, <1>4, <2>1 DEF BatchOK, SeenBy, SeenAt, Twice, Fits, Leaves
  <2>2. CASE c # b
    <3>1. batches'[c] = batches[c] /\ BatchOK(batches[c])
      BY <1>2, <2>2 DEF EditorInv, BatchesInv, Is
    <3> QED BY <1>1, <3>1 DEF BatchOK, SeenBy, SeenAt, Twice, Fits, Leaves
  <2> QED BY <2>1, <2>2
<1>6. ASSUME Is(b, "refused")' PROVE Explained(batches[b])'
  <2>1. batches[b].rev # rev
    BY <1>2, <1>6 DEF Is
  <2>2. /\ batches[b].ops \in Seq(Operation) /\ batches[b].ops # <<>>
        /\ batches[b].rev \in Nat /\ rev \in Nat /\ batches[b].rev < rev
    BY <1>4, <2>1 DEF BatchOK, EditorInv, PageInv
  <2>3. 1 \in DOMAIN batches[b].ops /\ batches[b].ops[1].seen \in Nat
    BY <2>2 DEF Operation
  <2>4. batches[b].ops[1].seen <= batches[b].rev
    BY <1>4, <2>3 DEF BatchOK, SeenBy
  <2>5. batches[b].ops[1].seen < rev
    BY <2>2, <2>3, <2>4
  <2> QED BY <1>2, <2>3, <2>5 DEF Explained
<1>7. AnswerInv'
  BY <1>1, <1>2, <1>6, AnswerStep DEF EditorInv, Waiting
<1> QED BY <1>3, <1>5, <1>7 DEF EditorInv

LEMMA EditorApply ==
  ASSUME EditorInv, IInv, Waiting, NEW b \in Batch, Apply(b) PROVE EditorInv'
<1> DEFINE result == Applied(net, batches[b].ops)
<1>1. /\ UNCHANGED <<page, load, draft, undone, dialog, pending, conflict>>
      /\ Is(b, "checked") /\ BatchOK(batches[b])
  BY DEF Apply, query, form, Is, EditorInv, BatchesInv
<1>2. result = AppliedTo(net, batches[b].ops)
  BY AppliedFolds
<1> HIDE DEF result
<1>3. CASE /\ result = None
           /\ batches' = [batches EXCEPT ![b].stage = "refused", ![b].at = rev]
           /\ UNCHANGED <<net, rev>>
  <2>1. /\ \A c \in Batch : c # b => batches'[c] = batches[c]
        /\ batches'[b].stage = "refused" /\ batches'[b].at = rev
        /\ batches'[b].ops = batches[b].ops /\ batches'[b].undone = batches[b].undone
    BY <1>3 DEF IInv, Rows, Fields
  <2>2. PageInv' /\ DraftInv'
    BY <1>1, <1>3, PageKept, DraftKept DEF EditorInv
  <2>3. BatchesInv'
    <3> SUFFICES ASSUME NEW c \in Batch, (Is(c, "sent") \/ Is(c, "checked"))' PROVE BatchOK(batches[c])'
      BY DEF BatchesInv
    <3>1. c # b
      BY <2>1 DEF Is
    <3>2. batches'[c] = batches[c] /\ BatchOK(batches[c])
      BY <2>1, <3>1 DEF EditorInv, BatchesInv, Is
    <3>3. UNCHANGED <<net, rev>>
      BY <1>3
    <3> QED BY <3>2, <3>3 DEF BatchOK, SeenBy, SeenAt, Twice, Fits, Leaves
  <2>4. Explained(batches[b])'
    <3> SUFFICES ASSUME ~batches[b].undone, ~Twice(batches[b].ops),
                        \A i \in DOMAIN batches[b].ops : ~(batches[b].ops[i].seen < rev)
                 PROVE  FALSE
      BY <2>1 DEF Explained, Twice
    <3>1. /\ batches[b].ops \in Seq(Operation) /\ batches[b].ops # <<>>
          /\ batches[b].rev \in Nat /\ batches[b].rev <= rev /\ rev \in Nat
      BY <1>1 DEF BatchOK, EditorInv, PageInv
    <3>2. \A i \in DOMAIN batches[b].ops :
            batches[b].ops[i].seen \in Nat /\ batches[b].ops[i].seen <= batches[b].rev
      BY <1>1, <3>1 DEF BatchOK, SeenBy, Operation
    <3>3. SeenAt(batches[b].ops, rev)
      BY <3>1, <3>2 DEF SeenAt
    <3>4. 1 \in DOMAIN batches[b].ops
      BY <3>1
    <3>5. batches[b].rev = rev
      BY <3>1, <3>2, <3>4
    <3>6. Fits(net, batches[b].ops)
      BY <1>1, <3>3, <3>5 DEF BatchOK
    <3> QED BY <1>2, <1>3, <3>6 DEF Fits
  <2>5. AnswerInv'
    BY <1>1, <2>1, <2>4, AnswerStep DEF EditorInv, Waiting
  <2> QED BY <2>2, <2>3, <2>5 DEF EditorInv
<1>4. CASE /\ result # None
           /\ batches' = [batches EXCEPT ![b] = [Ended(b) EXCEPT !.stage = "applied"]]
           /\ net' = result
           /\ rev' = rev + 1
  <2> DEFINE row == [Ended(b) EXCEPT !.stage = "applied"]
  <2>1. row.stage = "applied"
    BY DEF Ended, Unsent
  <2>2. batches'[b] = row /\ \A c \in Batch : c # b => batches'[c] = batches[c]
    <3> HIDE DEF row
    <3> QED BY <1>4 DEF IInv, Rows, row
  <2> HIDE DEF row
  <2>3. NetOK(net')
    BY <1>1, <1>2, <1>4, AppliedLeaves DEF EditorInv, PageInv, BatchOK
  <2>4. PageInv' /\ DraftInv'
    BY <1>1, <1>4, <2>3, LeftBehind DEF EditorInv
  <2>5. BatchesInv'
    <3> SUFFICES ASSUME NEW c \in Batch, (Is(c, "sent") \/ Is(c, "checked"))' PROVE BatchOK(batches[c])'
      BY DEF BatchesInv
    <3>1. c # b
      BY <2>1, <2>2 DEF Is
    <3>2. batches'[c] = batches[c] /\ BatchOK(batches[c])
      BY <2>2, <3>1 DEF EditorInv, BatchesInv, Is
    <3> QED BY <1>4, <3>2, LeftBehindBatch DEF EditorInv, PageInv
  <2>6. AnswerInv'
    BY <1>1, <2>1, <2>2, AnswerStep DEF EditorInv, Waiting, Is
  <2> QED BY <2>4, <2>5, <2>6 DEF EditorInv
<1> QED BY <1>3, <1>4 DEF Apply, result

LEMMA EditorOutside == ASSUME EditorInv, IInv, Outside PROVE EditorInv'
<1>1. /\ UNCHANGED <<batches, page, load, draft, undone, dialog, pending, conflict>>
      /\ rev' = rev + 1 /\ rev \in Nat /\ NetOK(net)
  BY DEF Outside, query, form, EditorInv, PageInv
<1>2. NetOK(net')
  <2>1. CASE net' = net
    BY <1>1, <2>1
  <2>2. ASSUME NEW ends \in net.links, net' = [net EXCEPT !.links = @ \ {ends}] PROVE NetOK(net')
    BY <1>1, <2>2 DEF NetOK, Network
  <2>3. ASSUME NEW ends \in Pairs, ends \cap Busy(net) = {},
               net' = [net EXCEPT !.links = @ \cup {ends}]
        PROVE  NetOK(net')
    <3>1. net' \in Network /\ net'.links = net.links \cup {ends} /\ net'.reserved = net.reserved
      BY <1>1, <2>3 DEF NetOK, Network
    <3>2. \A l \in net.links : l \cap ends = {} /\ ends \cap l = {}
      BY <2>3, BusyMembers
    <3>3. ends \cap net.reserved = {}
      BY <2>3, BusyMembers
    <3> QED BY <1>1, <3>1, <3>2, <3>3 DEF NetOK
  <2>4. ASSUME NEW t \in Terminal \ Busy(net), net' = [net EXCEPT !.reserved = @ \cup {t}]
        PROVE  NetOK(net')
    <3>1. net' \in Network /\ net'.links = net.links /\ net'.reserved = net.reserved \cup {t}
      BY <1>1, <2>4 DEF NetOK, Network
    <3>2. \A l \in net.links : t \notin l
      BY BusyMembers
    <3> QED BY <1>1, <3>1, <3>2 DEF NetOK
  <2>5. ASSUME NEW t \in net.reserved, net' = [net EXCEPT !.reserved = @ \ {t}] PROVE NetOK(net')
    BY <1>1, <2>5 DEF NetOK, Network
  <2> QED BY <2>1, <2>2, <2>3, <2>4, <2>5 DEF Outside
<1>3. PageInv' /\ DraftInv'
  BY <1>1, <1>2, LeftBehind DEF EditorInv
<1>4. BatchesInv'
  <2> SUFFICES ASSUME NEW c \in Batch, (Is(c, "sent") \/ Is(c, "checked"))' PROVE BatchOK(batches[c])'
    BY DEF BatchesInv
  <2>1. BatchOK(batches[c]) /\ batches'[c] = batches[c]
    BY <1>1 DEF EditorInv, BatchesInv, Is
  <2> QED BY <1>1, <2>1, LeftBehindBatch
<1>5. AnswerInv'
  BY <1>1, AnswerKept DEF EditorInv
<1> QED BY <1>3, <1>4, <1>5 DEF EditorInv

(***************************************************************************)
(* Answers and loads.                                                      *)
(***************************************************************************)
LEMMA EditorReceiveConflict ==
  ASSUME EditorInv, IInv, pending \in Batch, ReceiveConflict PROVE EditorInv'
<1>1. /\ UNCHANGED <<net, rev, page, load, draft, undone, dialog>>
      /\ batches' = [batches EXCEPT ![pending] = Ended(pending)]
      /\ Is(pending, "refused") /\ conflict' = batches[pending] /\ pending' = None /\ pending # None
  BY DEF ReceiveConflict, query, form, Is
<1>2. /\ \A c \in Batch : c # pending => batches'[c] = batches[c]
      /\ batches'[pending].stage = "refused"
  BY <1>1 DEF IInv, Rows, Ended, Unsent, Is
<1>3. PageInv' /\ DraftInv'
  BY <1>1, PageKept, DraftKept DEF EditorInv
<1>4. BatchesInv'
  <2> SUFFICES ASSUME NEW c \in Batch, (Is(c, "sent") \/ Is(c, "checked"))' PROVE BatchOK(batches[c])'
    BY DEF BatchesInv
  <2>1. c # pending
    BY <1>2 DEF Is
  <2>2. batches'[c] = batches[c] /\ BatchOK(batches[c])
    BY <1>2, <2>1 DEF EditorInv, BatchesInv, Is
  <2> QED BY <1>1, <2>2 DEF BatchOK, SeenBy, SeenAt, Twice, Fits, Leaves
<1>5. AnswerInv'
  <2>1. Explained(batches[pending])
    BY <1>1 DEF EditorInv, AnswerInv
  <2> QED BY <1>1, <2>1 DEF AnswerInv, Explained, Twice
<1> QED BY <1>3, <1>4, <1>5 DEF EditorInv

LEMMA EditorReceiveSuccess == ASSUME EditorInv, None \notin Network, ReceiveSuccess PROVE EditorInv'
<1>1. /\ UNCHANGED <<net, rev, batches, page, dialog, conflict>>
      /\ draft' = <<>> /\ undone' = (dialog # None) /\ load' = Asked /\ pending' = None
  BY DEF ReceiveSuccess, server
<1>2. PageInv'
  BY <1>1 DEF EditorInv, PageInv, NetOK, Asked
<1>3. Fits(net, <<>>) /\ <<>> \in Seq(Operation) /\ DOMAIN <<>> = {} /\ NetOK(net)
  BY FitsEmpty DEF EditorInv, PageInv, NetOK
<1>4. undone' \in BOOLEAN /\ (dialog # None => undone')
  BY <1>1
<1>5. DraftInv'
  BY <1>1, <1>3, <1>4 DEF EditorInv, DraftInv, SeenBy, Fits
<1>6. BatchesInv' /\ AnswerInv'
  BY <1>1, BatchesKept DEF EditorInv, AnswerInv, Explained, Twice
<1> QED BY <1>2, <1>5, <1>6 DEF EditorInv

LEMMA EditorLoadContent == ASSUME EditorInv, None \notin Network, LoadContent PROVE EditorInv'
<1>1. /\ UNCHANGED <<net, rev, batches, draft, undone, dialog, pending, conflict>>
      /\ page' = [net |-> net, rev |-> load] /\ load' = None /\ load # None /\ load # Asked
  BY DEF LoadContent, server, form
<1>2. /\ page'.net = net /\ page'.rev = load /\ load \in Nat /\ load <= rev /\ page.rev <= load
      /\ page.rev \in Nat /\ rev \in Nat /\ page.rev <= rev /\ page'.rev <= rev
  BY <1>1 DEF EditorInv, PageInv
<1>3. PageInv'
  BY <1>1, <1>2 DEF EditorInv, PageInv, NetOK
<1>4. \A i \in DOMAIN draft : draft[i].seen \in Nat /\ draft[i].seen <= page.rev
  BY DEF EditorInv, DraftInv, SeenBy, Operation
<1>5. SeenBy(draft, page'.rev)
  BY <1>2, <1>4 DEF SeenBy
<1>6. ASSUME page'.rev = rev, ~undone, ~Twice(draft), SeenAt(draft, rev) PROVE Fits(net, draft)
  <2>1. CASE draft = <<>>
    BY <2>1, FitsEmpty DEF EditorInv, PageInv, NetOK
  <2>2. CASE draft # <<>>
    <3>1. 1 \in DOMAIN draft
      BY <2>2 DEF EditorInv, DraftInv
    <3>2. page.rev = rev
      BY <1>2, <1>4, <1>6, <3>1 DEF SeenAt
    <3> QED BY <1>6, <3>2 DEF EditorInv, DraftInv
  <2> QED BY <2>1, <2>2
<1>7. dialog # None => dialog.seen <= page'.rev
  <2> SUFFICES ASSUME dialog # None PROVE dialog.seen <= page'.rev
    OBVIOUS
  <2>1. dialog.seen \in Nat /\ dialog.seen <= page.rev
    BY DEF EditorInv, DraftInv, Operation
  <2> QED BY <1>2, <2>1
<1>8. DraftInv'
  BY <1>1, <1>5, <1>6, <1>7 DEF EditorInv, DraftInv, SeenBy, SeenAt, Twice, Fits, Proper
<1>9. BatchesInv' /\ AnswerInv'
  BY <1>1, BatchesKept, AnswerKept DEF EditorInv
<1> QED BY <1>3, <1>8, <1>9 DEF EditorInv

\* The other steps move the query, or close what they waited for.
LEMMA EditorOthers ==
  ASSUME EditorInv, \/ FailRequest \/ Reconcile \/ CloseConflict \/ Reconnect
                    \/ LoadRevision \/ LoadFails \/ UNCHANGED vars
  PROVE  EditorInv'
<1>1. UNCHANGED <<net, rev, batches, page, draft, undone, dialog>>
  BY DEF FailRequest, Reconcile, CloseConflict, Reconnect, LoadRevision, LoadFails, vars,
         server, query, form
<1>2. load' \in {load, None, Asked} \/ (load = Asked /\ load' = rev)
  BY DEF FailRequest, Reconcile, CloseConflict, Reconnect, LoadRevision, LoadFails, vars, query
<1>3. PageInv'
  BY <1>1, <1>2 DEF EditorInv, PageInv, NetOK, Asked
<1>4. DraftInv' /\ BatchesInv'
  BY <1>1, DraftKept, BatchesKept DEF EditorInv
<1>5. pending' \in {pending, None} /\ conflict' \in {conflict, None}
  BY DEF FailRequest, Reconcile, CloseConflict, Reconnect, LoadRevision, LoadFails, vars, query
<1>6. AnswerInv'
  BY <1>1, <1>5 DEF EditorInv, AnswerInv, Is, Explained, Twice
<1> QED BY <1>3, <1>4, <1>6 DEF EditorInv

LEMMA EditorStep ==
  ASSUME EditorInv, IInv, Waiting, [Next]_vars PROVE EditorInv'
<1>1. CASE Drafts
  BY <1>1, NoNetworkIsNone, DraftsKeep
<1>2. ASSUME NEW b \in Batch, Submit(b) PROVE EditorInv'
  BY <1>2, EditorSubmit
<1>3. ASSUME NEW b \in Batch, Check(b) PROVE EditorInv'
  BY <1>3, EditorCheck
<1>4. ASSUME NEW b \in Batch, Apply(b) PROVE EditorInv'
  BY <1>4, EditorApply
<1>5. CASE Outside
  BY <1>5, EditorOutside
<1>6. CASE ReceiveConflict
  <2>1. pending \in Batch
    BY <1>6 DEF ReceiveConflict, Waiting
  <2> QED BY <1>6, <2>1, EditorReceiveConflict
<1>7. CASE ReceiveSuccess
  BY <1>7, NoNetworkIsNone, EditorReceiveSuccess
<1>8. CASE LoadContent
  BY <1>8, NoNetworkIsNone, EditorLoadContent
<1>9. CASE \/ FailRequest \/ Reconcile \/ CloseConflict \/ Reconnect
           \/ LoadRevision \/ LoadFails \/ UNCHANGED vars
  BY <1>9, EditorOthers
<1> QED BY <1>1, <1>2, <1>3, <1>4, <1>5, <1>6, <1>7, <1>8, <1>9 DEF Next, Drafts

Whole == IInv /\ Waiting /\ EditorInv

LEMMA WholeHolds == Spec => []Whole
<1>1. Init => Whole
  BY InitIInv, EditorInit, NoNetworkIsNone DEF Init, Waiting, Whole
<1>2. Whole /\ [Next]_vars => Whole'
  BY NextIInv, WaitingStep, EditorStep DEF Whole
<1> QED BY <1>1, <1>2, PTL DEF Spec

\* A batch that handleSubmitBatch sent is refused only if something was taken out
\* of its draft, a connection was disconnected twice, or the network it was drafted
\* on has moved on: the conflict dialog's reproach of a change meanwhile is just.
THEOREM ConflictsAreExplained == Spec => []ConflictExplained
<1>1. Whole => ConflictExplained
  BY DEF Whole, EditorInv, AnswerInv, ConflictExplained, Explained, Twice
<1> QED BY <1>1, WholeHolds, PTL

\* Only the server's step turns a batch into an applied one.
LEMMA AppliedByApply ==
  ASSUME IInv, Waiting, [Next]_vars, NEW b \in Batch,
         batches[b].stage # "applied", batches'[b].stage = "applied"
  PROVE  Apply(b)
<1>1. ASSUME NEW c \in Batch, Submit(c) PROVE Apply(b)
  <2> DEFINE row == [Unsent EXCEPT !.stage = "sent", !.ops = draft, !.rev = page.rev,
                                   !.undone = undone, !.shown = Preview(draft)]
  <2>1. row.stage = "sent" /\ batches' = [batches EXCEPT ![c] = row]
    BY <1>1 DEF Submit, Unsent
  <2> HIDE DEF row
  <2> QED BY <2>1 DEF IInv, Rows
<1>2. ASSUME NEW c \in Batch, Check(c) PROVE Apply(b)
  <2>1. /\ batches'[c].stage \in {"checked", "refused"}
        /\ \A d \in Batch : d # c => batches'[d] = batches[d]
    BY <1>2 DEF Check, IInv, Rows, Fields
  <2> QED BY <2>1
<1>3. ASSUME NEW c \in Batch, Apply(c) PROVE Apply(b)
  <2>1. \A d \in Batch : d # c => batches'[d] = batches[d]
    BY <1>3 DEF Apply, IInv, Rows
  <2> QED BY <1>3, <2>1
<1>4. CASE ReceiveConflict
  <2>1. pending \in Batch /\ Ended(pending).stage = "refused"
        /\ batches' = [batches EXCEPT ![pending] = Ended(pending)]
    BY <1>4 DEF ReceiveConflict, Waiting, Ended, Unsent
  <2> QED BY <2>1 DEF IInv, Rows
<1>5. CASE batches' = batches
  BY <1>5
<1> QED
  BY <1>1, <1>2, <1>3, <1>4, <1>5
  DEF Next, vars, server, AddConnect, OpenDisconnect, OpenReserve, Open, Confirm, Dismiss, Clear,
      RemoveOp, Outside, ReceiveSuccess, FailRequest, Reconcile, CloseConflict, Reconnect,
      LoadRevision, LoadContent, LoadFails

\* The step of execute_batch_connections that applies a batch leaves every terminal
\* of its operations as occupiedTerminalIds showed it at the submission.
THEOREM BatchesLandAsPreviewed == Spec => AppliedAsPreviewed
<1>1. ASSUME Whole, [Next]_vars
      PROVE  [\A b \in Batch :
                batches[b].stage # "applied" /\ batches'[b].stage = "applied" =>
                  \A i \in DOMAIN batches[b].ops : \A t \in batches[b].ops[i].ends :
                    t \in Busy(net') <=> t \in batches[b].shown]_vars
  <2> SUFFICES ASSUME NEW b \in Batch,
                      batches[b].stage # "applied", batches'[b].stage = "applied",
                      NEW i \in DOMAIN batches[b].ops, NEW t \in batches[b].ops[i].ends
               PROVE  t \in Busy(net') <=> t \in batches[b].shown
    OBVIOUS
  <2>1. Apply(b)
    BY <1>1, AppliedByApply DEF Whole
  <2> DEFINE ops == batches[b].ops
  <2>2. BatchOK(batches[b]) /\ NetOK(net)
    BY <1>1, <2>1 DEF Whole, EditorInv, BatchesInv, PageInv, Is, Apply
  <2>3. net' = AppliedTo(net, ops) /\ AppliedTo(net, ops) # None
    <3>1. batches'[b].stage # "refused"
      OBVIOUS
    <3>2. ~(batches' = [batches EXCEPT ![b].stage = "refused", ![b].at = rev])
      BY <1>1, <3>1 DEF Whole, IInv, Rows, Fields
    <3> QED BY <2>1, <3>2, AppliedFolds DEF Apply
  <2>4. ops \in Seq(Operation) /\ Leaves(ops, batches[b].shown)
    BY <2>2 DEF BatchOK
  <2> HIDE DEF ops
  <2>5. Leaves(ops, Busy(AppliedTo(net, ops)))
    BY <2>2, <2>3, <2>4, AppliedLeaves
  <2>6. t \in Busy(AppliedTo(net, ops)) <=> t \in batches[b].shown
    BY <2>4, <2>5, LeavesAgree DEF ops
  <2> QED BY <2>3, <2>6
<1> QED BY <1>1, WholeHolds, PTL DEF Spec, AppliedAsPreviewed
=============================================================================
