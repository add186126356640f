-------------------------------- MODULE Wizard --------------------------------
(***************************************************************************)
(* The import and the export wizard in one browser (ImportWizard,          *)
(* ExportWizard), the hook with which both follow a job (useJobPolling),   *)
(* and the jobs of this user on the server, which workers execute and      *)
(* other pages cancel.  Jobs and Imports model the server side in full.    *)
(*                                                                         *)
(* The download of an export, layers and formats are left out, of a        *)
(* preview stays whether it has errors or collisions.  A request whose answer  *)
(* is lost is served before or never; one request is under way at a time,  *)
(* beside the polls and a cancellation.                                    *)
(***************************************************************************)
EXTENDS Naturals, FiniteSets

CONSTANTS
  Job,       \* ids of the jobs that exist or are created, in this order
  MaxPolls,  \* bound: polls in flight; a slow server may leave more open
  None

VARIABLES
  kind,      \* which of the wizards the page is
  step,      \* "upload", "preview", "strategy" or "job"
  preview,   \* the preview shown: "clean", "collisions", "errors", or None
  strategy,  \* collisionStrategy
  request,   \* the preview, commit or export request under way, or None
  tracked,   \* jobId or exportId
  shown,     \* job, the last answer about a job
  timer,     \* the interval of the hook is running
  polls,     \* the polls in flight
  cancel,    \* the cancellation under way, or None
  status     \* async_jobs: the status of each job

vars == <<kind, step, preview, strategy, request, tracked, shown, timer, polls, cancel, status>>
form == <<kind, step, preview, strategy, request>>
hook == <<tracked, shown, timer, polls, cancel>>

Finished == {"succeeded", "failed", "cancelled"}
Created == {j \in Job : status[j] # "none"}
Answer(j) == [id |-> j, status |-> status[j]]

\* The body of POST /imports/{id}/commit, and what its schema requires.
CommitBody == {"collision_strategy"}
ImportCommitRequest == {"import_id", "file_hash"}

\* The page is opened afresh, or with the id of a job in its address.
Init ==
  /\ kind \in {"import", "export"}
  /\ status \in [Job -> {"none", "queued"}]
  /\ \A i, j \in Job : i < j /\ status[j] # "none" => status[i] # "none"
  /\ tracked \in Created \cup {None}
  /\ step = IF tracked = None THEN "upload" ELSE "job"
  /\ preview = None /\ strategy = "error" /\ request = None
  /\ shown = None /\ cancel = None
  /\ timer = (tracked # None)
  /\ polls = IF tracked = None THEN {} ELSE {None}
-----------------------------------------------------------------------------
(***************************************************************************)
(* useJobPolling: a poll at once, then one at each tick until the job      *)
(* shown has ended.  None among the polls is one the server has not read.  *)
(***************************************************************************)
\* The effect: the polls of the job followed before are aborted, and with no
\* job to follow nothing is shown.  A new job leaves shown as it is.
Track(j) ==
  /\ tracked' = j
  /\ timer' = (j # None)
  /\ polls' = IF j = None THEN {} ELSE {None}
  /\ shown' = IF j = None THEN None ELSE shown
  /\ UNCHANGED cancel

Tick ==
  /\ timer
  /\ IF shown # None /\ shown.status \in Finished
     THEN timer' = FALSE /\ UNCHANGED polls
     ELSE /\ Cardinality(polls) < MaxPolls
          /\ polls' = polls \cup {None} /\ UNCHANGED timer
  /\ UNCHANGED <<form, tracked, shown, cancel, status>>

ReadJob ==
  /\ None \in polls
  /\ polls' = (polls \ {None}) \cup {Answer(tracked)}
  /\ UNCHANGED <<form, tracked, shown, timer, cancel, status>>

PollArrives(p) ==
  /\ p # None
  /\ polls' = polls \ {p}
  /\ shown' = p
  /\ UNCHANGED <<form, tracked, timer, cancel, status>>

PollFails(p) ==
  /\ polls' = polls \ {p}
  /\ UNCHANGED <<form, tracked, shown, timer, cancel, status>>

Unfinished == {"queued", "running"}
CancelAsked == [stage |-> "sent", id |-> tracked, answer |-> None]

\* The button is offered for the job shown, and the request names the one followed.
Cancel ==
  /\ step = "job" /\ cancel = None
  /\ tracked # None /\ shown # None /\ shown.status \in Unfinished
  /\ cancel' = CancelAsked
  /\ UNCHANGED <<form, tracked, shown, timer, polls, status>>

Served(j) == [status EXCEPT ![j] = IF @ \in Finished THEN @ ELSE "cancelled"]
Lost(j) == status   \* fault: a running job is answered for as if it had been cancelled

CancelStored(j) == Served(j)

\* cancel_job_by_id answers with the job as it is then.
ServeCancel ==
  /\ cancel # None /\ cancel.stage = "sent"
  /\ status' = CancelStored(cancel.id)
  /\ cancel' = [cancel EXCEPT !.stage = "done",
                              !.answer = [id |-> cancel.id, status |-> Served(cancel.id)[cancel.id]]]
  /\ UNCHANGED <<form, tracked, shown, timer, polls>>

\* The answer is shown, whichever job is followed by now.
CancelAnswered ==
  /\ cancel # None /\ cancel.stage = "done"
  /\ shown' = cancel.answer
  /\ cancel' = None
  /\ UNCHANGED <<form, tracked, timer, polls, status>>

CancelFails ==
  /\ cancel # None
  /\ cancel' = None
  /\ UNCHANGED <<form, tracked, shown, timer, polls, status>>
-----------------------------------------------------------------------------
(***************************************************************************)
(* The steps                                                               *)
(***************************************************************************)
Sent(what) == [what |-> what, stage |-> "sent", job |-> None, preview |-> None]

\* Another file is a matter of the upload step; its preview replaces the old one.
GeneratePreview ==
  /\ kind = "import" /\ step = "upload" /\ request = None
  /\ request' = Sent("preview")
  /\ UNCHANGED <<kind, step, preview, strategy, hook, status>>

Go(from, to) ==
  /\ kind = "import" /\ step = from
  /\ step' = to
  /\ UNCHANGED <<kind, preview, strategy, request, hook, status>>

ChooseStrategy(s) ==
  /\ kind = "import" /\ step = "strategy"
  /\ strategy' = s
  /\ UNCHANGED <<kind, step, preview, request, hook, status>>

\* handleCommit: errors bar the way with the strategy "error" only.
Commit ==
  /\ kind = "import" /\ step = "strategy" /\ request = None
  /\ preview = "errors" => strategy # "error"
  /\ request' = [Sent("commit") EXCEPT !.preview = preview]
  /\ UNCHANGED <<kind, step, preview, strategy, hook, status>>

RequestExport ==
  /\ kind = "export" /\ step = "upload" /\ request = None
  /\ request' = Sent("export")
  /\ UNCHANGED <<kind, step, preview, strategy, hook, status>>

\* handleReset: an import has to have ended; a new export can be asked for at
\* any time.
Reset ==
  /\ step = "job"
  /\ kind = "import" => shown # None /\ shown.status \in Finished
  /\ step' = "upload" /\ preview' = None
  /\ Track(None)
  /\ UNCHANGED <<kind, strategy, request, status>>

\* The server creates a job, or answers 422 to a commit that lacks a field or a
\* preview that is not clean.
Valid(r) == r.what = "commit" => ImportCommitRequest \subseteq CommitBody /\ r.preview = "clean"

Serve ==
  /\ request # None /\ request.stage = "sent"
  /\ IF request.what = "preview"
     THEN /\ \E found \in {"clean", "collisions", "errors"} :
                 request' = [request EXCEPT !.stage = "done", !.preview = found]
          /\ UNCHANGED status
     ELSE IF ~Valid(request)
     THEN request' = [request EXCEPT !.stage = "refused"] /\ UNCHANGED status
     ELSE \E j \in Job \ Created :
            /\ \A i \in Job \ Created : j <= i
            /\ status' = [status EXCEPT ![j] = "queued"]
            /\ request' = [request EXCEPT !.stage = "done", !.job = j]
  /\ UNCHANGED <<kind, step, preview, strategy, hook>>

Succeeds ==
  /\ request # None /\ request.stage = "done"
  /\ request' = None
  /\ IF request.what = "preview"
     THEN preview' = request.preview /\ step' = "preview" /\ UNCHANGED hook
     ELSE Track(request.job) /\ step' = "job" /\ UNCHANGED preview
  /\ UNCHANGED <<kind, strategy, status>>

RequestFails ==
  /\ request # None
  /\ request' = None
  /\ UNCHANGED <<kind, step, preview, strategy, hook, status>>

\* Workers, and cancellations from elsewhere.
Proceed(j) ==
  /\ status[j] \in Unfinished
  /\ \E to \in {"running"} \cup Finished : to # status[j] /\ status' = [status EXCEPT ![j] = to]
  /\ UNCHANGED <<form, hook>>

Next ==
  \/ Tick \/ ReadJob \/ Cancel \/ ServeCancel \/ CancelAnswered \/ CancelFails
  \/ \E p \in polls : PollArrives(p) \/ PollFails(p)
  \/ GeneratePreview \/ Commit \/ RequestExport \/ Reset \/ Serve \/ Succeeds \/ RequestFails
  \/ Go("preview", "upload") \/ Go("preview", "strategy") \/ Go("strategy", "preview")
  \/ \E s \in {"error", "skip"} : ChooseStrategy(s)
  \/ \E j \in Job : Proceed(j)

Spec == Init /\ [][Next]_vars
-----------------------------------------------------------------------------
(***************************************************************************)
(* Properties                                                              *)
(***************************************************************************)
\* A wizard never shows the end of a job that may still run, although its polls
\* overtake each other and its cancellation races with the worker.
EndShownIsReal ==
  shown # None /\ shown.status \in Finished => status[shown.id] \in Finished

\* commitImport "confirma a importação de dados gerando um job": no commit of a
\* clean preview is refused.
CleanImportStarts ==
  [][request # None /\ request' # None /\ request.what = "commit" /\ request.preview = "clean" =>
       request'.stage # "refused"]_vars

TypeOK ==
  /\ step \in {"upload", "preview", "strategy", "job"}
  /\ tracked \in Job \cup {None} /\ timer \in BOOLEAN
  /\ timer => tracked # None
  /\ shown # None => shown.id \in Job
  /\ cancel # None => cancel.id \in Job
=============================================================================
