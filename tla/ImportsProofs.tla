----------------------------- MODULE ImportsProofs -----------------------------
(***************************************************************************)
(* All answers for one user and key name one job, of that user and of the   *)
(* preview asked for, however many requests race: theorem KeysAreIdempotent.*)
(*                                                                         *)
(* The inductive invariant says that a job that was inserted and not yet    *)
(* committed is alone with its user and key, and that the row it will take  *)
(* is free; so a commit never makes a second job of one user and key.       *)
(*                                                                         *)
(* A live preview keeps its file while nobody else uploads the content:     *)
(* theorem ValidPreviewsKeepFiles.  Its invariant says that the retention   *)
(* routine holds expired previews only, and that the promise begins with    *)
(* the file, before the row of the preview is committed.                    *)
(***************************************************************************)
EXTENDS Imports, TLAPS

JobFields == {"state", "user", "key", "import", "content"}

\* async_jobs rows; a committed one is named by its user and key.
Rows ==
  /\ jobs = [j \in Job |-> jobs[j]]
  /\ \A j \in Job : DOMAIN jobs[j] = JobFields

KeysAreUnique ==
  \A i, j \in Job :
    /\ jobs[i].state # "none" /\ jobs[j].state # "none"
    /\ jobs[i].user = jobs[j].user /\ jobs[i].key = jobs[j].key
    => i = j

\* What requests hold.
Sessions ==
  /\ pc = [r \in Request |-> pc[r]] /\ req = [r \in Request |-> req[r]]
  /\ \A r \in Request : DOMAIN req[r] = {"user", "key", "import", "seen", "job"}
  /\ \A r \in Request : pc[r] # "commit" => req[r].job = None

InsertedIsAlone ==
  \A r \in Request : pc[r] = "commit" =>
    /\ req[r].job \in Job /\ jobs[req[r].job].state = "none"
    /\ Inserted(r) = {} /\ Pending(r) = {}
    /\ \A q \in Request : q # r => req[q].job # req[r].job

AnswersAreRows ==
  \A a \in answers :
    /\ a.job \in Job /\ jobs[a.job].state # "none"
    /\ jobs[a.job].user = a.user /\ jobs[a.job].key = a.key /\ jobs[a.job].import = a.import

IInv == Rows /\ KeysAreUnique /\ Sessions /\ InsertedIsAlone /\ AnswersAreRows

LEMMA InitIInv == Init => IInv
<1>. SUFFICES ASSUME Init PROVE IInv
  OBVIOUS
<1>1. Rows /\ KeysAreUnique
  BY DEF Init, NoJob, Rows, JobFields, KeysAreUnique
<1>2. Sessions
  BY DEF Init, NoRequest, Sessions
<1>3. InsertedIsAlone /\ AnswersAreRows
  BY DEF Init, InsertedIsAlone, AnswersAreRows
<1>. QED BY <1>1, <1>2, <1>3 DEF IInv

LEMMA Consequence == IInv => Idempotent
  BY DEF IInv, AnswersAreRows, KeysAreUnique, Idempotent

\* A request goes on without inserting, or ends.
LEMMA RequestOnward ==
  ASSUME IInv, NEW r \in Request, jobs' = jobs, answers' = answers, NEW p, NEW q,
         p # "commit", pc' = [pc EXCEPT ![r] = p], req' = [req EXCEPT ![r] = q],
         DOMAIN q = {"user", "key", "import", "seen", "job"}, q.job = None
  PROVE  IInv'
<1>1. \A s \in Request : s # r => pc'[s] = pc[s] /\ req'[s] = req[s]
  BY DEF IInv, Sessions
<1>2. pc'[r] = p /\ req'[r] = q
  BY DEF IInv, Sessions
<1>3. Sessions'
  BY <1>1, <1>2 DEF IInv, Sessions
<1>4. ASSUME NEW s \in Request, pc'[s] = "commit"
      PROVE  /\ req'[s].job \in Job /\ jobs'[req'[s].job].state = "none"
             /\ Inserted(s)' = {} /\ Pending(s)' = {}
             /\ \A t \in Request : t # s => req'[t].job # req'[s].job
  <2>1. s # r /\ pc[s] = "commit" /\ req'[s] = req[s]
    BY <1>1, <1>2, <1>4
  <2>2. /\ req[s].job \in Job /\ jobs[req[s].job].state = "none"
        /\ Inserted(s) = {} /\ Pending(s) = {}
        /\ \A t \in Request : t # s => req[t].job # req[s].job
    BY <2>1 DEF IInv, InsertedIsAlone
  <2>3. Inserted(s)' = {}
    BY <2>1, <2>2 DEF Inserted, SameKey
  <2>4. Pending(s)' = {}
    BY <1>1, <1>2, <2>1, <2>2 DEF Pending
  <2>5. \A t \in Request : t # s => req'[t].job # req'[s].job
    BY <1>1, <1>2, <2>1, <2>2, NoneAssumption
  <2>. QED BY <2>1, <2>2, <2>3, <2>4, <2>5
<1>. QED BY <1>3, <1>4 DEF IInv, Rows, KeysAreUnique, InsertedIsAlone, AnswersAreRows

\* An answer with a job that was committed under this user and key.
LEMMA AnswerIsRow ==
  ASSUME IInv, NEW r \in Request, NEW j \in Inserted(r), jobs[j].import = req[r].import,
         Answer(r, j), jobs' = jobs
  PROVE  AnswersAreRows'
  BY DEF IInv, AnswersAreRows, Answer, Inserted, SameKey

LEMMA RepeatIInv ==
  ASSUME IInv, NEW r \in Request, pc[r] # "commit", NEW j \in Inserted(r), Repeat(r, j), jobs' = jobs
  PROVE  IInv'
<1>. DEFINE q == NoRequest
<1>1. DOMAIN q = {"user", "key", "import", "seen", "job"} /\ q.job = None
  BY DEF NoRequest
<1>2. AnswersAreRows'
  <2>1. CASE jobs[j].import = req[r].import
    BY <2>1, AnswerIsRow DEF Repeat
  <2>2. CASE jobs[j].import # req[r].import
    BY <2>2 DEF Repeat, IInv, AnswersAreRows
  <2>. QED BY <2>1, <2>2
<1>3. pc' = [pc EXCEPT ![r] = "idle"] /\ req' = [req EXCEPT ![r] = q]
  BY DEF Repeat, End
<1>. HIDE DEF q
<1>4. \A s \in Request : s # r => pc'[s] = pc[s] /\ req'[s] = req[s]
  BY <1>3 DEF IInv, Sessions
<1>5. pc'[r] = "idle" /\ req'[r] = q
  BY <1>3 DEF IInv, Sessions
<1>6. Sessions'
  BY <1>1, <1>3, <1>4, <1>5 DEF IInv, Sessions
<1>7. InsertedIsAlone'
  <2>. SUFFICES ASSUME NEW s \in Request, pc'[s] = "commit"
                PROVE  /\ req'[s].job \in Job /\ jobs'[req'[s].job].state = "none"
                       /\ Inserted(s)' = {} /\ Pending(s)' = {}
                       /\ \A t \in Request : t # s => req'[t].job # req'[s].job
    BY DEF InsertedIsAlone
  <2>1. s # r /\ pc[s] = "commit" /\ req'[s] = req[s]
    BY <1>4, <1>5
  <2>2. /\ req[s].job \in Job /\ jobs[req[s].job].state = "none"
        /\ Inserted(s) = {} /\ Pending(s) = {}
        /\ \A t \in Request : t # s => req[t].job # req[s].job
    BY <2>1 DEF IInv, InsertedIsAlone
  <2>3. Inserted(s)' = {}
    BY <2>1, <2>2 DEF Inserted, SameKey
  <2>4. Pending(s)' = {}
    BY <1>4, <1>5, <2>1, <2>2 DEF Pending
  <2>5. \A t \in Request : t # s => req'[t].job # req'[s].job
    BY <1>1, <1>4, <1>5, <2>1, <2>2, NoneAssumption
  <2>. QED BY <2>1, <2>2, <2>3, <2>4, <2>5
<1>. QED BY <1>2, <1>6, <1>7 DEF IInv, Rows, KeysAreUnique

LEMMA InsertIInv == ASSUME IInv, NEW r \in Request, NEW j \in Job, InsertJob(r, j) PROVE IInv'
<1>1. /\ pc[r] = "insert" /\ Pending(r) = {} /\ Inserted(r) = {}
      /\ j \in Unused
      /\ req' = [req EXCEPT ![r].job = j] /\ pc' = [pc EXCEPT ![r] = "commit"]
      /\ jobs' = jobs /\ answers' = answers
  BY DEF InsertJob, Goto, RowsUnchanged
<1>2. \A s \in Request : s # r => pc'[s] = pc[s] /\ req'[s] = req[s]
  BY <1>1 DEF IInv, Sessions
<1>3. /\ pc'[r] = "commit" /\ req'[r].job = j
      /\ req'[r].user = req[r].user /\ req'[r].key = req[r].key
  BY <1>1 DEF IInv, Sessions
<1>4. Sessions'
  BY <1>1, <1>2, <1>3 DEF IInv, Sessions
<1>5. jobs[j].state = "none" /\ \A q \in Request : req[q].job # j
  BY <1>1 DEF Unused
<1>6. ASSUME NEW s \in Request, s # r, pc'[s] = "commit"
      PROVE  /\ req'[s].job \in Job /\ jobs'[req'[s].job].state = "none"
             /\ Inserted(s)' = {} /\ Pending(s)' = {}
             /\ \A t \in Request : t # s => req'[t].job # req'[s].job
  <2>1. pc[s] = "commit" /\ req'[s] = req[s]
    BY <1>2, <1>6
  <2>2. /\ req[s].job \in Job /\ jobs[req[s].job].state = "none"
        /\ Inserted(s) = {} /\ Pending(s) = {}
        /\ \A t \in Request : t # s => req[t].job # req[s].job
    BY <2>1 DEF IInv, InsertedIsAlone
  <2>3. ~(req[s].user = req[r].user /\ req[s].key = req[r].key)
    BY <1>1, <1>6, <2>1 DEF Pending
  <2>4. Inserted(s)' = {}
    BY <1>1, <2>1, <2>2 DEF Inserted, SameKey
  <2>5. Pending(s)' = {}
    BY <1>2, <1>3, <2>1, <2>2, <2>3 DEF Pending
  <2>6. \A t \in Request : t # s => req'[t].job # req'[s].job
    BY <1>2, <1>3, <1>5, <2>1, <2>2
  <2>. QED BY <1>1, <2>1, <2>2, <2>4, <2>5, <2>6
<1>7. /\ req'[r].job \in Job /\ jobs'[req'[r].job].state = "none"
      /\ Inserted(r)' = {} /\ Pending(r)' = {}
      /\ \A t \in Request : t # r => req'[t].job # req'[r].job
  <2>1. Inserted(r)' = {}
    BY <1>1, <1>3 DEF Inserted, SameKey
  <2>2. Pending(r)' = {}
    BY <1>1, <1>2, <1>3 DEF Pending
  <2>. QED BY <1>1, <1>2, <1>3, <1>5, <2>1, <2>2
<1>. QED BY <1>1, <1>4, <1>6, <1>7 DEF IInv, Rows, KeysAreUnique, InsertedIsAlone, AnswersAreRows

LEMMA CommitIInv == ASSUME IInv, NEW r \in Request, CommitJob(r) PROVE IInv'
<1>. DEFINE j == req[r].job
            row == [state |-> "queued", user |-> req[r].user, key |-> req[r].key,
                    import |-> req[r].import, content |-> previews[req[r].import].content]
<1>1. /\ pc[r] = "commit" /\ jobs' = [jobs EXCEPT ![j] = row]
      /\ pc' = [pc EXCEPT ![r] = "idle"] /\ req' = [req EXCEPT ![r] = NoRequest]
      /\ Answer(r, j)
  BY DEF CommitJob, End
<1>2. /\ j \in Job /\ jobs[j].state = "none" /\ Inserted(r) = {} /\ Pending(r) = {}
      /\ \A q \in Request : q # r => req[q].job # j
  BY <1>1 DEF IInv, InsertedIsAlone
<1>3. /\ DOMAIN row = JobFields /\ row.state = "queued" /\ row.user = req[r].user
      /\ row.key = req[r].key /\ row.import = req[r].import
  BY DEF JobFields
<1>. HIDE DEF row
<1>4. jobs'[j] = row /\ \A i \in Job : i # j => jobs'[i] = jobs[i]
  BY <1>1, <1>2 DEF IInv, Rows
<1>5. Rows'
  BY <1>1, <1>2, <1>3, <1>4 DEF IInv, Rows
<1>6. KeysAreUnique'
  BY <1>2, <1>3, <1>4 DEF IInv, KeysAreUnique, Inserted, SameKey
<1>7. AnswersAreRows'
  <2>1. \A a \in answers : a.job # j
    BY <1>2 DEF IInv, AnswersAreRows
  <2>2. \A a \in answers : jobs'[a.job] = jobs[a.job]
    BY <1>4, <2>1 DEF IInv, AnswersAreRows
  <2>3. answers' = answers \cup {[user |-> req[r].user, key |-> req[r].key,
                                  import |-> req[r].import, job |-> j]}
    BY <1>1 DEF Answer
  <2>. QED BY <1>2, <1>3, <1>4, <2>2, <2>3 DEF IInv, AnswersAreRows
<1>8. DOMAIN NoRequest = {"user", "key", "import", "seen", "job"} /\ NoRequest.job = None
  BY DEF NoRequest
<1>9. \A s \in Request : s # r => pc'[s] = pc[s] /\ req'[s] = req[s]
  BY <1>1 DEF IInv, Sessions
<1>10. pc'[r] = "idle" /\ req'[r] = NoRequest
  BY <1>1 DEF IInv, Sessions
<1>11. Sessions'
  BY <1>1, <1>8, <1>9, <1>10 DEF IInv, Sessions
<1>12. ASSUME NEW s \in Request, pc'[s] = "commit"
       PROVE  /\ req'[s].job \in Job /\ jobs'[req'[s].job].state = "none"
              /\ Inserted(s)' = {} /\ Pending(s)' = {}
              /\ \A t \in Request : t # s => req'[t].job # req'[s].job
  <2>1. s # r /\ pc[s] = "commit" /\ req'[s] = req[s]
    BY <1>9, <1>10, <1>12
  <2>2. /\ req[s].job \in Job /\ jobs[req[s].job].state = "none"
        /\ Inserted(s) = {} /\ Pending(s) = {}
        /\ \A t \in Request : t # s => req[t].job # req[s].job
    BY <2>1 DEF IInv, InsertedIsAlone
  <2>3. ~(req[s].user = req[r].user /\ req[s].key = req[r].key)
    BY <1>1, <2>1 , <1>2 DEF Pending
  <2>4. Inserted(s)' = {}
    BY <1>3, <1>4, <2>1, <2>2, <2>3 DEF Inserted, SameKey
  <2>5. Pending(s)' = {}
    BY <1>9, <1>10, <2>1, <2>2 DEF Pending
  <2>6. jobs'[req'[s].job].state = "none"
    BY <1>2, <1>4, <2>1, <2>2
  <2>7. \A t \in Request : t # s => req'[t].job # req'[s].job
    BY <1>8, <1>9, <1>10, <2>1, <2>2, NoneAssumption
  <2>. QED BY <2>1, <2>2, <2>4, <2>5, <2>6, <2>7
<1>. QED BY <1>5, <1>6, <1>7, <1>11, <1>12 DEF IInv, InsertedIsAlone

LEMMA ExecuteIInv == ASSUME IInv, NEW j \in Job, Execute(j) PROVE IInv'
<1>1. PICK st \in {"succeeded", "failed"} : jobs' = [jobs EXCEPT ![j].state = st]
  BY DEF Execute
<1>2. /\ jobs[j].state = "queued" /\ UNCHANGED <<pc, req, answers>>
  BY DEF Execute
<1>3. /\ \A i \in Job : /\ DOMAIN jobs'[i] = JobFields
                        /\ jobs'[i].user = jobs[i].user /\ jobs'[i].key = jobs[i].key
                        /\ jobs'[i].import = jobs[i].import
                        /\ jobs'[i].state = "none" <=> jobs[i].state = "none"
      /\ jobs' = [i \in Job |-> jobs'[i]]
  BY <1>1, <1>2 DEF IInv, Rows, JobFields
<1>4. \A r \in Request : Inserted(r)' = Inserted(r) /\ Pending(r)' = Pending(r)
  BY <1>2, <1>3 DEF Inserted, SameKey, Pending
<1>. QED BY <1>2, <1>3, <1>4
         DEF IInv, Rows, KeysAreUnique, Sessions, InsertedIsAlone, AnswersAreRows

\* Previews, files and the sweep do not touch what the invariant is about.
LEMMA OtherIInv == ASSUME IInv, UNCHANGED <<jobs, pc, req, answers>> PROVE IInv'
  BY DEF IInv, Rows, KeysAreUnique, Sessions, InsertedIsAlone, AnswersAreRows, Inserted, SameKey,
         Pending

LEMMA RequestIInv == ASSUME IInv, NEW r \in Request, RequestStep(r) PROVE IInv'
<1>1. ASSUME NEW u, NEW k, NEW p, ReadPreview(r, u, k, p) PROVE IInv'
  <2>. DEFINE q == [user |-> u, key |-> k, import |-> p, seen |-> previews[p].job, job |-> None]
  <2>1. DOMAIN q = {"user", "key", "import", "seen", "job"} /\ q.job = None
    OBVIOUS
  <2>2. req' = [req EXCEPT ![r] = q] /\ pc' = [pc EXCEPT ![r] = "key"]
        /\ jobs' = jobs /\ answers' = answers
    BY <1>1 DEF ReadPreview, Goto, RowsUnchanged
  <2>. HIDE DEF q
  <2>. QED BY <2>1, <2>2, RequestOnward
<1>2. CASE FindKey(r)
  BY <1>2, RepeatIInv DEF FindKey, RowsUnchanged
<1>3. ASSUME End(r), jobs' = jobs, answers' = answers PROVE IInv'
  <2>1. DOMAIN NoRequest = {"user", "key", "import", "seen", "job"} /\ NoRequest.job = None
    BY DEF NoRequest
  <2>. QED BY <1>3, <2>1, RequestOnward DEF End
<1>4. CASE CheckPreview(r)
  <2>1. CASE End(r)
    BY <1>3, <1>4, <2>1 DEF CheckPreview, RowsUnchanged
  <2>2. CASE Goto(r, "insert") /\ UNCHANGED req
    <3>1. pc' = [pc EXCEPT ![r] = "insert"] /\ req' = [req EXCEPT ![r] = req[r]]
          /\ jobs' = jobs /\ answers' = answers
      BY <1>4, <2>2 DEF CheckPreview, Goto, RowsUnchanged, IInv, Sessions
    <3>2. DOMAIN req[r] = {"user", "key", "import", "seen", "job"} /\ req[r].job = None
      BY <1>4 DEF CheckPreview, IInv, Sessions
    <3>. QED BY <3>1, <3>2, RequestOnward
  <2>. QED BY <1>4, <2>1, <2>2 DEF CheckPreview
<1>5. ASSUME NEW j \in Job, InsertJob(r, j) PROVE IInv'
  BY <1>5, InsertIInv
<1>6. CASE YieldToWinner(r)
  BY <1>6, RepeatIInv DEF YieldToWinner, RowsUnchanged
<1>7. CASE CommitJob(r)
  BY <1>7, CommitIInv
<1>8. CASE RollbackJob(r)
  BY <1>3, <1>8 DEF RollbackJob, RowsUnchanged
<1>. QED BY <1>1, <1>2, <1>4, <1>5, <1>6, <1>7, <1>8 DEF RequestStep

LEMMA NextIInv == IInv /\ [Next]_vars => IInv'
<1>. SUFFICES ASSUME IInv, [Next]_vars PROVE IInv'
  OBVIOUS
<1>1. CASE \E r \in Request : RequestStep(r)
  BY <1>1, RequestIInv
<1>2. CASE \E j \in Job : Execute(j)
  BY <1>2, ExecuteIInv
<1>3. CASE \/ \E p \in Preview, c \in Content, ok \in BOOLEAN : SavePreview(p, c, ok)
           \/ \E p \in Preview : CommitPreview(p) \/ LosePreview(p) \/ Expire(p) \/ DeleteFile(p)
           \/ SelectExpired \/ CommitSweep \/ CrashSweep \/ UNCHANGED vars
  BY <1>3, OtherIInv DEF SavePreview, CommitPreview, LosePreview, Expire, DeleteFile,
     SelectExpired, CommitSweep, CrashSweep, vars
<1>. QED BY <1>1, <1>2, <1>3 DEF Next

\* "Mesma chave + mesma previa devolve o mesmo job": the unique key of async_jobs
\* and the two looks for it make POST /imports/{id}/commit idempotent.
THEOREM KeysAreIdempotent == Spec => []Idempotent
  BY InitIInv, NextIInv, Consequence, PTL DEF Spec
-----------------------------------------------------------------------------
PreviewFields == {"state", "content", "clean", "expired", "job"}

Sole(p) == \A q \in Preview : previews[q].content = previews[p].content => q = p

PreviewRows ==
  /\ previews = [p \in Preview |-> previews[p]]
  /\ \A p \in Preview :
       /\ DOMAIN previews[p] = PreviewFields
       /\ IF previews[p].state = "none" THEN previews[p] = NoPreview
                                        ELSE previews[p].content \in Content

\* A preview that is on its way or live, valid and alone with its content.
FileOK(p) ==
  previews[p].state \in {"saving", "live"} /\ ~previews[p].expired /\ Sole(p)
    => previews[p].content \in files

SweepsExpired ==
  sweep # None =>
    /\ sweep = [rows |-> sweep.rows, left |-> sweep.left]
    /\ \A p \in Preview : p \in sweep.left => previews[p].expired
    /\ \A p \in Preview : p \in sweep.rows => previews[p].state # "none"

FileInv == PreviewRows /\ SweepsExpired /\ \A p \in Preview : FileOK(p)

LEMMA InitFileInv == Init => FileInv
<1>. SUFFICES ASSUME Init PROVE FileInv
  OBVIOUS
<1>1. PreviewRows
  BY DEF Init, NoPreview, PreviewRows, PreviewFields
<1>2. \A p \in Preview : previews[p].state = "none"
  BY DEF Init, NoPreview
<1>. QED BY <1>1, <1>2 DEF Init, FileInv, FileOK, SweepsExpired

\* The previews keep their content and stay expired, and one that is valid and
\* on its way or live was so before: their files are what they were.
LEMMA FilesKept ==
  ASSUME FileInv, files' = files, sweep' = sweep, PreviewRows',
         \A p \in Preview :
           /\ previews'[p].content = previews[p].content
           /\ previews[p].expired => previews'[p].expired
           /\ previews[p].state # "none" => previews'[p].state # "none"
           /\ previews'[p].state \in {"saving", "live"} => previews[p].state \in {"saving", "live"}
  PROVE  FileInv'
<1>1. SweepsExpired'
  BY DEF FileInv, SweepsExpired
<1>2. ASSUME NEW p \in Preview PROVE FileOK(p)'
  <2>1. Sole(p)' => Sole(p)
    BY DEF Sole
  <2>. QED BY <2>1 DEF FileInv, FileOK
<1>. QED BY <1>1, <1>2 DEF FileInv

LEMMA SaveKeepsFiles ==
  ASSUME FileInv, NEW p \in Preview, NEW c \in Content, NEW ok, SavePreview(p, c, ok)
  PROVE  FileInv'
<1>. DEFINE row == [NoPreview EXCEPT !.state = "saving", !.content = c,
                                     !.clean = ok /\ c \notin net]
<1>1. /\ previews' = [previews EXCEPT ![p] = row] /\ previews[p].state = "none"
      /\ files' = files \cup {c} /\ sweep' = sweep
  BY DEF SavePreview
<1>2. DOMAIN row = PreviewFields /\ row.content = c /\ row.expired = FALSE
  BY DEF NoPreview, PreviewFields
<1>. HIDE DEF row
<1>a. row.state = "saving" /\ previews[p].content = None /\ ~previews[p].expired
  BY <1>1 DEF FileInv, PreviewRows, NoPreview, row
<1>3. previews'[p] = row /\ \A q \in Preview : q # p => previews'[q] = previews[q]
  BY <1>1 DEF FileInv, PreviewRows
<1>4. PreviewRows'
  BY <1>1, <1>2, <1>a, <1>3 DEF FileInv, PreviewRows
<1>5. ASSUME NEW q \in Preview PROVE FileOK(q)'
  <2>1. CASE q = p
    BY <1>1, <1>2, <1>3, <2>1 DEF FileOK
  <2>2. CASE q # p /\ previews[q].state # "none"
    <3>1. previews[q].content # None /\ previews'[q] = previews[q]
      BY <1>3, <2>2, NoneAssumption DEF FileInv, PreviewRows
    <3>2. Sole(q)' => Sole(q)
      BY <1>3, <1>a, <3>1 DEF Sole
    <3>. QED BY <1>1, <3>1, <3>2 DEF FileInv, FileOK
  <2>3. CASE q # p /\ previews[q].state = "none"
    BY <1>3, <2>3 DEF FileOK
  <2>. QED BY <2>1, <2>2, <2>3
<1>6. SweepsExpired'
  BY <1>1, <1>a, <1>3 DEF FileInv, SweepsExpired
<1>. QED BY <1>4, <1>5, <1>6 DEF FileInv

\* A row changes, and its file is what it was.
LEMMA RowKeepsFiles ==
  ASSUME FileInv, NEW p \in Preview, NEW row, previews' = [previews EXCEPT ![p] = row],
         files' = files, sweep' = sweep, DOMAIN row = PreviewFields,
         previews[p].state # "none", row.state # "none", row.content = previews[p].content,
         previews[p].expired => row.expired,
         row.state \in {"saving", "live"} => previews[p].state \in {"saving", "live"}
  PROVE  FileInv'
<1>1. previews'[p] = row /\ \A q \in Preview : q # p => previews'[q] = previews[q]
  BY DEF FileInv, PreviewRows
<1>2. PreviewRows'
  BY <1>1 DEF FileInv, PreviewRows
<1>. QED BY <1>1, <1>2, FilesKept

\* The file that the routine deletes is that of an expired preview; another one
\* that shares it is not alone with its content.
LEMMA DeleteKeepsFiles == ASSUME FileInv, NEW p \in Preview, DeleteFile(p) PROVE FileInv'
<1>1. /\ sweep # None /\ p \in sweep.left /\ previews' = previews
      /\ files' = files \ {previews[p].content}
      /\ sweep' = [sweep EXCEPT !.left = @ \ {p}]
  BY DEF DeleteFile
<1>2. previews[p].expired
  BY <1>1 DEF FileInv, SweepsExpired
<1>3. PreviewRows' /\ SweepsExpired'
  BY <1>1 DEF FileInv, PreviewRows, SweepsExpired
<1>4. ASSUME NEW q \in Preview PROVE FileOK(q)'
  <2>1. CASE q = p
    BY <1>1, <1>2, <2>1 DEF FileOK
  <2>2. CASE q # p
    BY <1>1, <2>2 DEF FileInv, FileOK, Sole
  <2>. QED BY <2>1, <2>2
<1>. QED BY <1>3, <1>4 DEF FileInv

LEMMA SweepKeepsFiles ==
  ASSUME FileInv, SelectExpired \/ CommitSweep \/ CrashSweep
  PROVE  FileInv'
<1>1. CASE SelectExpired
  <2>1. /\ sweep' = [rows |-> ExpiredPreviews, left |-> ExpiredPreviews]
        /\ previews' = previews /\ files' = files
    BY <1>1 DEF SelectExpired
  <2>2. SweepsExpired'
    BY <2>1 DEF SweepsExpired, ExpiredPreviews
  <2>. QED BY <2>1, <2>2 DEF FileInv, PreviewRows, FileOK, Sole
<1>2. CASE CommitSweep
  <2>. DEFINE Gone(p) == [previews[p] EXCEPT !.state = "gone"]
  <2>1. /\ previews' = [p \in Preview |-> IF p \in sweep.rows THEN Gone(p) ELSE previews[p]]
        /\ files' = files /\ sweep' = None
    BY <1>2 DEF CommitSweep
  <2>2. ASSUME NEW p \in Preview, previews[p].state # "none"
        PROVE  /\ DOMAIN Gone(p) = PreviewFields /\ Gone(p).state = "gone"
               /\ Gone(p).content = previews[p].content /\ Gone(p).expired = previews[p].expired
    BY <2>2 DEF FileInv, PreviewRows, PreviewFields
  <2>3. SweepsExpired'
    BY <2>1 DEF SweepsExpired
  <2>. HIDE DEF Gone
  <2>4. \A p \in sweep.rows \cap Preview : previews[p].state # "none"
    BY <1>2 DEF CommitSweep, FileInv, SweepsExpired
  <2>5. PreviewRows'
    BY <2>1, <2>2, <2>4 DEF FileInv, PreviewRows
  <2>6. ASSUME NEW p \in Preview PROVE FileOK(p)'
    <3>1. Sole(p)' => Sole(p)
      BY <2>1, <2>2, <2>4 DEF Sole
    <3>2. CASE p \in sweep.rows
      BY <2>1, <2>2, <2>4, <3>2 DEF FileOK
    <3>3. CASE p \notin sweep.rows
      BY <2>1, <3>1, <3>3 DEF FileInv, FileOK
    <3>. QED BY <3>2, <3>3
  <2>. QED BY <2>3, <2>5, <2>6 DEF FileInv
<1>3. CASE CrashSweep
  BY <1>3 DEF CrashSweep, FileInv, PreviewRows, SweepsExpired, FileOK, Sole
<1>. QED BY <1>1, <1>2, <1>3

LEMMA FilesUntouched == ASSUME FileInv, UNCHANGED <<previews, files, sweep>> PROVE FileInv'
<1>1. PreviewRows'
  BY DEF FileInv, PreviewRows
<1>. QED BY <1>1, FilesKept

LEMMA NextFileInv == FileInv /\ [Next]_vars => FileInv'
<1>. SUFFICES ASSUME FileInv, [Next]_vars PROVE FileInv'
  OBVIOUS
<1>1. CASE \E p \in Preview, c \in Content, ok \in BOOLEAN : SavePreview(p, c, ok)
  BY <1>1, SaveKeepsFiles
<1>2. ASSUME NEW p \in Preview, CommitPreview(p) \/ LosePreview(p) \/ Expire(p) PROVE FileInv'
  BY <1>2, RowKeepsFiles DEF CommitPreview, LosePreview, Expire, FileInv, PreviewRows,
     PreviewFields
<1>3. CASE \E p \in Preview : DeleteFile(p)
  BY <1>3, DeleteKeepsFiles
<1>4. CASE \/ \E r \in Request : RequestStep(r)
           \/ \E j \in Job : Execute(j)
           \/ UNCHANGED vars
  <2>1. CASE UNCHANGED vars \/ \E j \in Job : Execute(j)
    BY <2>1, FilesUntouched DEF Execute, vars
  <2>2. ASSUME NEW r \in Request, RequestStep(r), ~CommitJob(r) PROVE FileInv'
    <3>1. UNCHANGED <<previews, files, sweep>>
      BY <2>2 DEF RequestStep, ReadPreview, FindKey, CheckPreview, InsertJob, YieldToWinner,
         RollbackJob, RowsUnchanged
    <3>. QED BY <3>1, FilesUntouched
  <2>3. ASSUME NEW r \in Request, CommitJob(r) PROVE FileInv'
    <3>. DEFINE p == req[r].import
                row == [previews[p] EXCEPT !.job = req[r].job]
    <3>1. /\ previews' = [previews EXCEPT ![p] = row] /\ previews[p].state = "live"
          /\ UNCHANGED <<files, sweep>>
      BY <2>3 DEF CommitJob
    <3>2. CASE p \in Preview
      <4>1. /\ DOMAIN row = PreviewFields /\ row.state = previews[p].state
            /\ row.content = previews[p].content /\ row.expired = previews[p].expired
        BY <3>2 DEF FileInv, PreviewRows, PreviewFields
      <4>. HIDE DEF row
      <4>. QED BY <3>1, <3>2, <4>1, RowKeepsFiles
    <3>3. CASE p \notin Preview
      <4>1. previews' = previews
        BY <3>1, <3>3 DEF FileInv, PreviewRows
      <4>. QED BY <3>1, <4>1, FilesUntouched
    <3>. QED BY <3>2, <3>3
  <2>. QED BY <1>4, <2>1, <2>2, <2>3
<1>5. CASE SelectExpired \/ CommitSweep \/ CrashSweep
  BY <1>5, SweepKeepsFiles
<1>. QED BY <1>1, <1>2, <1>3, <1>4, <1>5 DEF Next

\* "Metadados e rascunho com retencao de 24 horas": whatever the retention routine
\* deletes, and wherever it dies, a valid preview whose content nobody else
\* uploaded still has its file when its job reads it.
THEOREM ValidPreviewsKeepFiles == Spec => []SolePreviewKeepsFile
<1>1. FileInv => SolePreviewKeepsFile
  BY DEF FileInv, FileOK, Sole, SolePreviewKeepsFile
<1>. QED BY <1>1, InitFileInv, NextFileInv, PTL DEF Spec
=============================================================================
