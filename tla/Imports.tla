------------------------------- MODULE Imports -------------------------------
(***************************************************************************)
(* The import pipeline (modules/imports/service.py): a preview of a file   *)
(* is stored, its commit inserts a job under the client's idempotency key, *)
(* and the retention routine of the worker removes what expired            *)
(* (clean_expired_previews_and_exports).                                   *)
(*                                                                         *)
(* Requests run as transactions under READ COMMITTED: each SELECT is a     *)
(* step of its own.  A file is named after the hash of its content, so     *)
(* previews of the same content share it.  The execution of a job is one   *)
(* step here; module Jobs has its leases, retries and cancellations.       *)
(***************************************************************************)
EXTENDS Naturals, FiniteSets

CONSTANTS
  Preview, Content,    \* preview ids, and the contents that clients upload
  User, Key,           \* accounts, and the texts of Idempotency-Key
  Request,             \* slots for concurrent POST /imports/{id}/commit
  Job,                 \* job ids
  None

ASSUME IdAssumption == Job \subseteq Nat /\ Preview \subseteq Nat
ASSUME NoneAssumption == None \notin Job \cup Preview \cup User \cup Content \cup Request

VARIABLES
  previews,   \* import_previews by id; "saving" before the row is committed
  files,      \* contents under imports/ in the storage
  jobs,       \* async_jobs by id
  net,        \* contents whose entities the network holds
  pc, req,    \* what each request executes, and what it has read
  sweep,      \* the previews the retention routine has selected, or None
  answers     \* history: the requests answered with a job

vars == <<previews, files, jobs, net, pc, req, sweep, answers>>

NoPreview == [state |-> "none", content |-> None, clean |-> FALSE, expired |-> FALSE, job |-> None]
NoJob == [state |-> "none", user |-> None, key |-> None, import |-> None, content |-> None]
NoRequest == [user |-> None, key |-> None, import |-> None, seen |-> None, job |-> None]

Init ==
  /\ previews = [p \in Preview |-> NoPreview]
  /\ files = {}
  /\ jobs = [j \in Job |-> NoJob]
  /\ net = {}
  /\ pc = [r \in Request |-> "idle"]
  /\ req = [r \in Request |-> NoRequest]
  /\ sweep = None
  /\ answers = {}

(***************************************************************************)
(* create_import_preview: the file is parsed, its codes compared with the  *)
(* network and the file stored; then the row is committed.                 *)
(***************************************************************************)
SavePreview(p, c, wellFormed) ==
  /\ previews[p].state = "none" /\ \A q \in Preview : q < p => previews[q].state # "none"
  /\ previews' = [previews EXCEPT ![p] = [NoPreview EXCEPT !.state = "saving", !.content = c,
                                            !.clean = wellFormed /\ c \notin net]]
  /\ files' = files \cup {c}
  /\ UNCHANGED <<jobs, net, pc, req, sweep, answers>>

CommitPreview(p) ==
  /\ previews[p].state = "saving"
  /\ previews' = [previews EXCEPT ![p].state = "live"]
  /\ UNCHANGED <<files, jobs, net, pc, req, sweep, answers>>

\* The process dies in between: no row, and the file stays.
LosePreview(p) ==
  /\ previews[p].state = "saving"
  /\ previews' = [previews EXCEPT ![p].state = "gone"]
  /\ UNCHANGED <<files, jobs, net, pc, req, sweep, answers>>

\* expires_at passes.
Expire(p) ==
  /\ previews[p].state = "live" /\ ~previews[p].expired
  /\ previews' = [previews EXCEPT ![p].expired = TRUE]
  /\ UNCHANGED <<files, jobs, net, pc, req, sweep, answers>>

(***************************************************************************)
(* commit_import_job                                                       *)
(***************************************************************************)
Forget(r) == pc' = [pc EXCEPT ![r] = "idle"] /\ UNCHANGED req   \* fault: the request keeps its job
Goto(r, there) == pc' = [pc EXCEPT ![r] = there]
End(r) == pc' = [pc EXCEPT ![r] = "idle"] /\ req' = [req EXCEPT ![r] = NoRequest]
RowsUnchanged == UNCHANGED <<previews, files, jobs, net, sweep>>

Answer(r, j) ==
  answers' = answers \cup {[user |-> req[r].user, key |-> req[r].key, import |-> req[r].import,
                            job |-> j]}

SameText(j, r) == jobs[j].key = req[r].key   \* fault: the key of any user

\* The key is scoped by the user.
SameKey(j, r) == jobs[j].user = req[r].user /\ jobs[j].key = req[r].key
Inserted(r) == {j \in Job : jobs[j].state # "none" /\ SameKey(j, r)}

\* db.get(ImportPreview): the row as it is now, of which committed_job_id may
\* still change; 404 needs no step.
ReadPreview(r, u, k, p) ==
  /\ pc[r] = "idle"
  /\ previews[p].state = "live"
  /\ req' = [req EXCEPT ![r] = [user |-> u, key |-> k, import |-> p, seen |-> previews[p].job,
                                job |-> None]]
  /\ Goto(r, "key")
  /\ UNCHANGED answers /\ RowsUnchanged

\* _idempotent_response: the same job for the same preview, else 409.
Repeat(r, j) ==
  /\ IF jobs[j].import = req[r].import THEN Answer(r, j) ELSE UNCHANGED answers
  /\ End(r)

FindKey(r) ==
  /\ pc[r] = "key"
  /\ \E j \in Inserted(r) : Repeat(r, j)
  /\ RowsUnchanged

\* Expired (410), another hash (409), errors or collisions (422), already
\* committed (409): judged on the row read before, and on the clock now.
Acceptable(r) ==
  /\ ~previews[req[r].import].expired
  /\ previews[req[r].import].clean
  /\ req[r].seen = None

CheckPreview(r) ==
  /\ pc[r] = "key" /\ Inserted(r) = {}
  /\ \E sameHash \in BOOLEAN :
       IF sameHash /\ Acceptable(r) THEN Goto(r, "insert") /\ UNCHANGED req ELSE End(r)
  /\ UNCHANGED answers /\ RowsUnchanged

\* INSERT ... ON CONFLICT DO NOTHING: it waits for the transaction of another
\* request that has inserted the same key, and then inserts or yields to it.
Pending(r) == {q \in Request \ {r} : pc[q] = "commit" /\ req[q].user = req[r].user
                                                      /\ req[q].key = req[r].key}

Unused == {j \in Job : jobs[j].state = "none" /\ \A q \in Request : req[q].job # j}

InsertJob(r, j) ==
  /\ pc[r] = "insert" /\ Pending(r) = {} /\ Inserted(r) = {}
  /\ j \in Unused /\ \A i \in Unused : j <= i
  /\ req' = [req EXCEPT ![r].job = j]
  /\ Goto(r, "commit")
  /\ UNCHANGED answers /\ RowsUnchanged

YieldToWinner(r) ==
  /\ pc[r] = "insert" /\ Pending(r) = {}
  /\ \E j \in Inserted(r) : Repeat(r, j)
  /\ RowsUnchanged

\* The UPDATE of the preview finds its row: the job and it are committed.
CommitJob(r) ==
  /\ pc[r] = "commit" /\ previews[req[r].import].state = "live"
  /\ previews' = [previews EXCEPT ![req[r].import].job = req[r].job]
  /\ jobs' = [jobs EXCEPT ![req[r].job] =
                [state |-> "queued", user |-> req[r].user, key |-> req[r].key,
                 import |-> req[r].import, content |-> previews[req[r].import].content]]
  /\ Answer(r, req[r].job)
  /\ End(r)
  /\ UNCHANGED <<files, net, sweep>>

\* The row is gone (StaleDataError), or the session is lost: a rollback.
RollbackJob(r) == pc[r] \in {"insert", "commit"} /\ End(r) /\ UNCHANGED answers /\ RowsUnchanged

(***************************************************************************)
(* The worker                                                              *)
(***************************************************************************)
\* execute_import_commit: a missing file or an existing code fails the job.
Execute(j) ==
  /\ jobs[j].state = "queued"
  /\ LET imported == jobs[j].content \in files \ net
     IN  /\ jobs' = [jobs EXCEPT ![j].state = IF imported THEN "succeeded" ELSE "failed"]
         /\ net' = IF imported THEN net \cup {jobs[j].content} ELSE net
  /\ UNCHANGED <<previews, files, pc, req, sweep, answers>>

\* clean_expired_previews_and_exports: the files of the selected previews go
\* one by one, whoever else uses them; the rows go at the commit.
LivePreviews == {p \in Preview : previews[p].state = "live"}   \* fault: expires_at is not compared

WithFile ==   \* fault: rows whose file is gone already are passed over
  {p \in Preview : previews[p].state = "live" /\ previews[p].expired /\ previews[p].content \in files}

ExpiredPreviews == {p \in Preview : previews[p].state = "live" /\ previews[p].expired}

SelectExpired ==
  /\ sweep = None /\ ExpiredPreviews # {}
  /\ sweep' = [rows |-> ExpiredPreviews, left |-> ExpiredPreviews]
  /\ UNCHANGED <<previews, files, jobs, net, pc, req, answers>>

DeleteFile(p) ==
  /\ sweep # None /\ p \in sweep.left
  /\ files' = files \ {previews[p].content}
  /\ sweep' = [sweep EXCEPT !.left = @ \ {p}]
  /\ UNCHANGED <<previews, jobs, net, pc, req, answers>>

CommitSweep ==
  /\ sweep # None /\ sweep.left = {}
  /\ previews' = [p \in Preview |-> IF p \in sweep.rows
                                      THEN [previews[p] EXCEPT !.state = "gone"]
                                      ELSE previews[p]]
  /\ sweep' = None
  /\ UNCHANGED <<files, jobs, net, pc, req, answers>>

\* The worker dies: the deleted files stay deleted, the rows stay.
CrashSweep ==
  /\ sweep # None
  /\ sweep' = None
  /\ UNCHANGED <<previews, files, jobs, net, pc, req, answers>>

RequestStep(r) ==
  \/ \E u \in User, k \in Key, p \in Preview : ReadPreview(r, u, k, p)
  \/ FindKey(r) \/ CheckPreview(r)
  \/ \E j \in Job : InsertJob(r, j)
  \/ YieldToWinner(r) \/ CommitJob(r) \/ RollbackJob(r)

Next ==
  \/ \E p \in Preview, c \in Content, ok \in BOOLEAN : SavePreview(p, c, ok)
  \/ \E p \in Preview : CommitPreview(p) \/ LosePreview(p) \/ Expire(p) \/ DeleteFile(p)
  \/ \E r \in Request : RequestStep(r)
  \/ \E j \in Job : Execute(j)
  \/ SelectExpired \/ CommitSweep \/ CrashSweep

Spec == Init /\ [][Next]_vars

\* The worker comes round for ever.
Sweep == SelectExpired \/ (\E p \in Preview : DeleteFile(p)) \/ CommitSweep
FairSpec == Spec /\ WF_vars(Sweep)
-----------------------------------------------------------------------------
(***************************************************************************)
(* Properties                                                              *)
(***************************************************************************)
\* Types of the rows and of what requests and the worker hold.
TypeOK ==
  /\ \A p \in Preview : /\ previews[p].state \in {"none", "saving", "live", "gone"}
                        /\ previews[p].content \in Content \cup {None}
                        /\ previews[p].job \in Job \cup {None}
  /\ files \subseteq Content /\ net \subseteq Content
  /\ \A j \in Job : /\ jobs[j].state \in {"none", "queued", "succeeded", "failed"}
                    /\ jobs[j].import \in Preview \cup {None}
  /\ pc \in [Request -> {"idle", "key", "insert", "commit"}]
  /\ \A r \in Request : pc[r] = "commit" <=> req[r].job # None
  /\ sweep # None => sweep.left \subseteq sweep.rows /\ sweep.rows \subseteq Preview

\* "Mesma chave + mesma previa devolve o mesmo job; mesma chave com outra previa
\* ... responde 409": whatever requests race, all answers for one user and key
\* name one job, which that user asked for, for the preview of the request.
Idempotent ==
  \A a \in answers :
    /\ jobs[a.job].user = a.user /\ jobs[a.job].import = a.import
    /\ \A b \in answers : a.user = b.user /\ a.key = b.key => a.job = b.job

\* "Metadados e rascunho com retencao de 24 horas": a live preview that has not
\* expired has its file, as long as nobody else ever uploaded the same content.
SolePreviewKeepsFile ==
  \A p \in Preview :
    LET v == previews[p]
        sole == \A q \in Preview : previews[q].content = v.content => q = p
    IN  v.state = "live" /\ ~v.expired /\ sole => v.content \in files

\* Once the worker stops dying in the middle of a pass, every expired preview is
\* removed, the rows whose files an interrupted pass deleted included.
ExpiredArePurged ==
  <>[][~CrashSweep]_vars => \A p \in Preview :
    previews[p].state = "live" /\ previews[p].expired ~> previews[p].state = "gone"
=============================================================================
