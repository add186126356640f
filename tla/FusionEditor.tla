----------------------------- MODULE FusionEditor -----------------------------
(***************************************************************************)
(* The fusion editor of one structure in one browser (FusionEditor and its *)
(* dialogs), the batch handler it posts to (execute_batch_connections) and *)
(* everybody else who changes the network meanwhile.                       *)
(*                                                                         *)
(* The editor keeps a page, the answer of its last load, and a draft of    *)
(* operations that it sends as one batch with the revision of the page.    *)
(* The row locks inside the handler are the matter of Connectivity; here   *)
(* the batch is a check under the lock of the structure and an             *)
(* application.  That a page with a current revision is a current page is  *)
(* shown in ConnectivityReader; here its content is read in one step.      *)
(* Labels, filters, tabs, losses and feedback texts are left out.          *)
(***************************************************************************)
EXTENDS Naturals, Sequences, SequencesExt, FiniteSets

CONSTANTS
  Terminal,     \* the terminals of the structure
  Batch,        \* numbers of the batches submitted, in order
  None,
  MaxRevision,  \* bound: the others change nothing from this revision on
  MaxDraft      \* bound on a draft: its operations and the batches sent before it

ASSUME BatchAssumption == Batch \subseteq Nat
ASSUME BoundAssumption == MaxRevision \in Nat /\ MaxDraft \in Nat
ASSUME NoneAssumption == None \notin Batch \cup Nat

VARIABLES
  net,       \* the tables: active connections and reservations of the structure
  rev,       \* topology_revision
  batches,   \* what each batch carries, and how far the server is with it
  page,      \* connectivity, the data of the query
  load,      \* the query in flight: None, Asked, or the revision read first
  draft,     \* draftOperations
  undone,    \* operations were taken away that others of this draft may rely on
  dialog,    \* the operation a disconnect or reservation dialog would add
  pending,   \* the batch whose answer the mutation waits for, or None
  conflict   \* the refused batch that the conflict dialog is about, or None

server == <<net, rev, batches>>
query == <<page, load>>
form == <<draft, undone, dialog>>
vars == <<server, query, form, pending, conflict>>

Pairs == {ends \in SUBSET Terminal : Cardinality(ends) = 2}
Network == [links : SUBSET Pairs, reserved : SUBSET Terminal]
Operation == [act : {"connect", "disconnect"}, ends : Pairs, seen : Nat]
             \cup [act : {"reserve"}, ends : {{t} : t \in Terminal}, seen : Nat]

\* A network is its two tables, never nothing.
ASSUME NoNetworkIsNone == None \notin Network

Op(act, ends) == [act |-> act, ends |-> ends, seen |-> page.rev]

Asked == 0

Busy(n) == (UNION n.links) \cup n.reserved
Dark == [links |-> {}, reserved |-> {}]
Unsent == [stage |-> "none", ops |-> <<>>, rev |-> 0, at |-> 0, undone |-> FALSE, shown |-> {}]
Ended(b) == [Unsent EXCEPT !.stage = batches[b].stage, !.rev = batches[b].rev]

Init ==
  /\ net \in {n \in [links : SUBSET Pairs, reserved : {{}}] :
                \A k, l \in n.links : k # l => k \cap l = {}}
  /\ rev = 1
  /\ batches = [b \in Batch |-> Unsent]
  /\ page = [net |-> net, rev |-> 1]
  /\ load = None
  /\ draft = <<>> /\ undone = FALSE /\ dialog = None
  /\ pending = None /\ conflict = None
-----------------------------------------------------------------------------
(***************************************************************************)
(* The draft                                                               *)
(***************************************************************************)
Shown(ops) == Busy(page.net)   \* fault: the draft is not looked at

ConnectsFirst(ops) ==   \* fault: what is disconnected counts as free, wherever it stands
  (Busy(page.net) \cup UNION {op.ends : op \in {o \in ToSet(ops) : o.act # "disconnect"}})
    \ UNION {op.ends : op \in {o \in ToSet(ops) : o.act = "disconnect"}}

\* occupiedTerminalIds: the page, then the operations of the draft in order.
Preview(ops) ==
  LET Next1(busy, op) == IF op.act = "disconnect" THEN busy \ op.ends ELSE busy \cup op.ends
  IN  FoldLeft(Next1, Busy(page.net), ops)

Idle == conflict = None /\ dialog = None   \* no modal dialog covers the editor
Room == Len(draft) + Cardinality({b \in Batch : batches[b].stage # "none"}) < MaxDraft

\* ConnectionModal: both terminals are looked at again when it is submitted.
AddConnect(ends) ==
  /\ Idle /\ Room
  /\ ends \cap Preview(draft) = {}
  /\ draft' = Append(draft, Op("connect", ends))
  /\ UNCHANGED <<server, query, undone, dialog, pending, conflict>>

Open(op) ==
  /\ Idle /\ Room
  /\ dialog' = op
  /\ UNCHANGED <<server, query, draft, undone, pending, conflict>>

\* The button follows the page: a connection that the draft already disconnects
\* can be disconnected again.
OpenDisconnect(ends) == ends \in page.net.links /\ Open(Op("disconnect", ends))
OpenReserve(t) == t \notin Preview(draft) /\ Open(Op("reserve", {t}))

\* What the dialog shows was captured when it opened; nothing is looked at again.
Confirm ==
  /\ conflict = None /\ dialog # None
  /\ draft' = Append(draft, dialog)
  /\ dialog' = None
  /\ UNCHANGED <<server, query, undone, pending, conflict>>

Dismiss ==
  /\ conflict = None /\ dialog # None
  /\ dialog' = None
  /\ undone' = (undone /\ draft # <<>>)
  /\ UNCHANGED <<server, query, draft, pending, conflict>>

\* handleRemoveDraftOperation: the operations after it stay.
RemoveOp(i) ==
  /\ Idle /\ i \in DOMAIN draft
  /\ draft' = RemoveAt(draft, i)
  /\ undone' = (draft' # <<>>)
  /\ UNCHANGED <<server, query, dialog, pending, conflict>>

Clear ==
  /\ Idle /\ draft # <<>>
  /\ draft' = <<>> /\ undone' = FALSE
  /\ UNCHANGED <<server, query, dialog, pending, conflict>>
-----------------------------------------------------------------------------
(***************************************************************************)
(* Submission.  The draft stays editable while the answer is awaited.      *)
(***************************************************************************)
Submit(b) ==
  /\ Idle /\ pending = None /\ draft # <<>>
  /\ batches[b].stage = "none" /\ \A c \in Batch : c < b => batches[c].stage # "none"
  /\ batches' = [batches EXCEPT ![b] =
                   [Unsent EXCEPT !.stage = "sent", !.ops = draft, !.rev = page.rev,
                                  !.undone = undone, !.shown = Preview(draft)]]
  /\ pending' = b
  /\ UNCHANGED <<net, rev, query, form, conflict>>

NeverLocked == FALSE   \* fault: the structure is not locked
Locked == \E b \in Batch : batches[b].stage = "checked"

\* execute_batch_connections: the structure FOR UPDATE, then the revision.
Check(b) ==
  /\ batches[b].stage = "sent" /\ ~Locked
  /\ batches' = [batches EXCEPT ![b].stage = IF batches[b].rev = rev
                                               THEN "checked" ELSE "refused",
                                ![b].at = rev]
  /\ UNCHANGED <<net, rev, query, form, pending, conflict>>

Allowed(n, op) ==
  IF op.act = "disconnect" THEN op.ends \in n.links ELSE op.ends \cap Busy(n) = {}

Effect(n, op) ==
  CASE op.act = "connect"    -> [n EXCEPT !.links = @ \cup {op.ends}]
    [] op.act = "disconnect" -> [n EXCEPT !.links = @ \ {op.ends}]
    [] op.act = "reserve"    -> [n EXCEPT !.reserved = @ \cup op.ends]

\* The operations in order; the first one that is not allowed undoes them all.
Applied(n, ops) ==
  LET After(m, op) == IF m # None /\ Allowed(m, op) THEN Effect(m, op) ELSE None
  IN  FoldLeft(After, n, ops)

Apply(b) ==
  /\ batches[b].stage = "checked"
  /\ LET result == Applied(net, batches[b].ops)
     IN  \/ /\ result = None
            /\ batches' = [batches EXCEPT ![b].stage = "refused", ![b].at = rev]
            /\ UNCHANGED <<net, rev>>
         \/ /\ result # None
            /\ batches' = [batches EXCEPT ![b] = [Ended(b) EXCEPT !.stage = "applied"]]
            /\ net' = result
            /\ rev' = rev + 1
  /\ UNCHANGED <<query, form, pending, conflict>>

\* Everybody else.  A deactivation takes no lock of the structure; a new
\* connection refers to it, and a batch of another editor locks it; what happens
\* in other structures shows in the revision only.
Outside ==
  /\ rev < MaxRevision
  /\ rev' = rev + 1
  /\ \/ net' = net
     \/ \E ends \in net.links : net' = [net EXCEPT !.links = @ \ {ends}]
     \/ \E ends \in Pairs : /\ ~Locked /\ ends \cap Busy(net) = {}
                            /\ net' = [net EXCEPT !.links = @ \cup {ends}]
     \/ \E t \in Terminal \ Busy(net) :
          ~Locked /\ net' = [net EXCEPT !.reserved = @ \cup {t}]
     \/ \E t \in net.reserved : ~Locked /\ net' = [net EXCEPT !.reserved = @ \ {t}]
  /\ UNCHANGED <<batches, query, form, pending, conflict>>
-----------------------------------------------------------------------------
(***************************************************************************)
(* Answers and loads                                                       *)
(***************************************************************************)
\* onSuccess drops the whole draft, with what was added since it was sent, and
\* has the query read again.  An open dialog stays open.
ReceiveSuccess ==
  /\ pending # None /\ batches[pending].stage = "applied"
  /\ draft' = <<>> /\ undone' = (dialog # None)
  /\ load' = Asked
  /\ pending' = None
  /\ UNCHANGED <<server, page, dialog, conflict>>

ReceiveConflict ==
  /\ pending # None /\ batches[pending].stage = "refused"
  /\ conflict' = batches[pending]
  /\ batches' = [batches EXCEPT ![pending] = Ended(pending)]
  /\ pending' = None
  /\ UNCHANGED <<net, rev, query, form>>

\* Any other error, with the network's: the batch may go on at the server.
FailRequest ==
  /\ pending # None
  /\ pending' = None
  /\ UNCHANGED <<server, query, form, conflict>>

Reconcile ==
  /\ conflict # None
  /\ load' = Asked
  /\ conflict' = None
  /\ UNCHANGED <<server, page, form, pending>>

CloseConflict ==
  /\ conflict # None
  /\ conflict' = None
  /\ UNCHANGED <<server, query, form, pending>>

\* refetchOnReconnect; a load in flight is not repeated.
Reconnect ==
  /\ load = None
  /\ load' = Asked
  /\ UNCHANGED <<server, page, form, pending, conflict>>

\* get_structure_connectivity reads the revision first.
LoadRevision ==
  /\ load = Asked
  /\ load' = rev
  /\ UNCHANGED <<server, page, form, pending, conflict>>

LoadContent ==
  /\ load # None /\ load # Asked
  /\ page' = [net |-> net, rev |-> load]
  /\ load' = None
  /\ UNCHANGED <<server, form, pending, conflict>>

LoadFails ==
  /\ load # None
  /\ load' = None
  /\ UNCHANGED <<server, page, form, pending, conflict>>

Next ==
  \/ \E ends \in Pairs : AddConnect(ends) \/ OpenDisconnect(ends)
  \/ \E t \in Terminal : OpenReserve(t)
  \/ Confirm \/ Dismiss \/ Clear
  \/ \E i \in 1 .. MaxDraft : RemoveOp(i)
  \/ \E b \in Batch : Submit(b) \/ Check(b) \/ Apply(b)
  \/ Outside
  \/ ReceiveSuccess \/ ReceiveConflict \/ FailRequest
  \/ Reconcile \/ CloseConflict \/ Reconnect
  \/ LoadRevision \/ LoadContent \/ LoadFails

Spec == Init /\ [][Next]_vars
-----------------------------------------------------------------------------
(***************************************************************************)
(* Properties                                                              *)
(***************************************************************************)
\* Types, and what the server's stages say about who waits.
TypeOK ==
  /\ net \in Network /\ rev \in Nat
  /\ page.net \in Network /\ page.rev \in Nat
  /\ load \in Nat \cup {None}
  /\ Len(draft) <= MaxDraft /\ \A i \in DOMAIN draft : draft[i] \in Operation
  /\ undone \in BOOLEAN
  /\ dialog \in Operation \cup {None}
  /\ pending \in Batch \cup {None}
  /\ \A b \in Batch : batches[b].stage \in {"none", "sent", "checked", "applied", "refused"}

\* A draft that is sent again, because its answer was lost or because the user
\* went on from the same page, is never applied twice: of the batches submitted
\* against one revision at most one is applied.
OneBatchPerRevision ==
  \A b, c \in Batch :
    /\ b # c
    /\ batches[b].stage = "applied" /\ batches[c].stage = "applied"
    => batches[b].rev # batches[c].rev

\* A batch leaves every terminal it names as the editor showed it when the user
\* pressed "Confirmar e Aplicar Lote": free or occupied, whatever was removed
\* from the draft, disconnected twice or changed by others in between.
AppliedAsPreviewed ==
  [][\A b \in Batch :
       batches[b].stage # "applied" /\ batches'[b].stage = "applied" =>
         \A i \in DOMAIN batches[b].ops : \A t \in batches[b].ops[i].ends :
           t \in Busy(net') <=> t \in batches[b].shown]_vars

\* The conflict dialog blames a change made "enquanto você editava".  It is right
\* unless operations were taken out of the draft that others rely on (by the user,
\* or by the success of an earlier batch under an open dialog) or one connection
\* was disconnected twice: otherwise some operation of the batch was
\* drafted on a page older than the network that refused it.
ConflictExplained ==
  conflict # None =>
    LET ops == conflict.ops
        twice == \E i, j \in DOMAIN ops :
                   /\ i # j /\ ops[i].act = "disconnect" /\ ops[j].act = "disconnect"
                   /\ ops[i].ends = ops[j].ends
    IN  conflict.undone \/ twice \/ \E i \in DOMAIN ops : ops[i].seen < conflict.at
=============================================================================
