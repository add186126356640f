-------------------------------- MODULE Jobs --------------------------------
(* The background job queue: async_jobs rows, the workers that claim them    *)
(* under a lease (claim_next_job, process_claimed_job, LeaseKeeper,          *)
(* assert_lease_owner, execute_import_commit), operators who cancel          *)
(* (cancel_job_by_id), crashes and lost database connections.                *)
(*                                                                           *)
(* A statement that waits for a row lock is an action whose guard is the     *)
(* lock.  The clock is abstracted: a lease is live or expired.               *)
EXTENDS Naturals, FiniteSets

CONSTANTS
    Worker,         \* worker processes of run_worker.py
    Caller,         \* requests of POST /jobs/{id}/cancel
    Job,            \* job ids; their order is the order of created_at
    ImportJob,      \* jobs of type import_commit; the others are exports
    Codes,          \* the unique codes each import inserts
    Batches,        \* and in how many batches of IMPORT_BATCH_SIZE rows
    MaxRetries,     \* async_jobs.max_retries
    None

ASSUME JobAssumption == Job \subseteq Nat /\ ImportJob \subseteq Job
ASSUME RetryAssumption == MaxRetries \in Nat \ {0}
ASSUME FileAssumption == /\ Batches \in [Job -> Nat]
                         /\ \A j \in Job : Batches[j] = 0 => Codes[j] = {}
ASSUME NoWorkerAssumption == None \notin Worker \cup Job

VARIABLES
    status, owner, lease, retries,   \* columns of async_jobs
    attempts,   \* history: executions begun
    net,        \* import jobs whose entities the network holds
    row,        \* the worker that holds a job's row FOR UPDATE
    topo,       \* the worker that holds the topology row
    pc, task,   \* what each worker executes
    left,       \* batches it has still to insert
    wrote,      \* workers with inserted, uncommitted entities
    life,       \* incarnation of each worker: a restart draws a new id
    call        \* the job a cancel request has found unfinished

columns == <<status, owner, lease, retries>>
work == <<pc, task, left, wrote>>
vars == <<columns, attempts, net, row, topo, work, life, call>>

Id(w) == <<w, life[w]>>                 \* worker_id
Finished == {"succeeded", "failed", "cancelled"}
Statuses == {"absent", "queued", "running"} \cup Finished

Init ==
    /\ status = [j \in Job |-> "absent"]
    /\ owner = [j \in Job |-> None]
    /\ lease = [j \in Job |-> "none"]
    /\ retries = [j \in Job |-> 0]
    /\ attempts = [j \in Job |-> 0]
    /\ net = {}
    /\ row = [j \in Job |-> None]
    /\ topo = None
    /\ pc = [w \in Worker |-> "idle"]
    /\ task = [w \in Worker |-> None]
    /\ left = [w \in Worker |-> 0]
    /\ wrote = {}
    /\ life = [w \in Worker |-> 0]
    /\ call = [c \in Caller |-> None]

(* create_export_request and commit_import_job insert a queued row. *)
Enqueue(j) ==
    /\ status[j] = "absent"
    /\ status' = [status EXCEPT ![j] = "queued"]
    /\ UNCHANGED <<owner, lease, retries, attempts, net, row, topo, work, life, call>>
-----------------------------------------------------------------------------
(* Claiming *)

(* Faults: a reclaim that does not look at the status, and none at all. *)
ReclaimAny(j) == lease[j] = "expired" /\ retries[j] < MaxRetries
ReclaimNone(j) == FALSE
Reclaimable(j) == status[j] = "running" /\ lease[j] = "expired" /\ retries[j] < MaxRetries

(* A fault: no FOR UPDATE. *)
ClaimLocked(j) == status[j] = "queued" \/ Reclaimable(j)
Eligible(j) == row[j] = None /\ (status[j] = "queued" \/ Reclaimable(j))

(* ORDER BY created_at LIMIT 1 FOR UPDATE SKIP LOCKED: read, decided and     *)
(* committed while the row is locked.                                        *)
NextJob(j) == Eligible(j) /\ \A k \in Job : Eligible(k) => j <= k

(* A job found running is a retry; the last permitted one is not begun.      *)
Tries(j) == retries[j] + (IF status[j] = "running" THEN 1 ELSE 0)

(* A fault: one retry too many. *)
SpentLate(j) == status[j] = "running" /\ Tries(j) > MaxRetries
Spent(j) == status[j] = "running" /\ Tries(j) >= MaxRetries

Claim(w) ==
    /\ pc[w] = "idle"
    /\ \E j \in Job :
         /\ NextJob(j)
         /\ retries' = [retries EXCEPT ![j] = Tries(j)]
         /\ \/ /\ Spent(j)
               /\ status' = [status EXCEPT ![j] = "failed"]
               /\ UNCHANGED <<owner, lease, attempts, pc, task>>
            \/ /\ ~Spent(j)
               /\ status' = [status EXCEPT ![j] = "running"]
               /\ owner' = [owner EXCEPT ![j] = Id(w)]
               /\ lease' = [lease EXCEPT ![j] = "live"]
               /\ attempts' = [attempts EXCEPT ![j] = @ + 1]
               /\ pc' = [pc EXCEPT ![w] = "execute"]
               /\ task' = [task EXCEPT ![w] = j]
    /\ UNCHANGED <<net, row, topo, left, wrote, life, call>>

(* The lease thread renews while the job executes; its UPDATE matches only   *)
(* a running job this worker owns, and waits for a locked row.               *)
Beat(w) ==
    /\ pc[w] # "idle"
    /\ row[task[w]] = None
    /\ owner[task[w]] = Id(w) /\ status[task[w]] = "running"
    /\ lease' = [lease EXCEPT ![task[w]] = "live"]
    /\ UNCHANGED <<status, owner, retries, attempts, net, row, topo, work, life, call>>

(* lease_expires_at passes: the thread was late, failed or died. *)
Expire(j) ==
    /\ status[j] = "running" /\ lease[j] = "live"
    /\ lease' = [lease EXCEPT ![j] = "expired"]
    /\ UNCHANGED <<status, owner, retries, attempts, net, row, topo, work, life, call>>
-----------------------------------------------------------------------------
(* Executing *)

At(w, here) == pc[w] = here
Goto(w, there) == pc' = [pc EXCEPT ![w] = there]
JobRowsUnchanged == UNCHANGED <<columns, attempts, net, life, call>>

ReadFile(w) ==
    /\ At(w, "execute") /\ task[w] \in ImportJob
    /\ left' = [left EXCEPT ![w] = Batches[task[w]]]
    /\ Goto(w, "batch")
    /\ UNCHANGED <<row, topo, task, wrote>> /\ JobRowsUnchanged

(* The stored file appears only when complete, under the job's own name. *)
WriteExport(w) ==
    /\ At(w, "execute") /\ task[w] \notin ImportJob
    /\ Goto(w, "assert")
    /\ UNCHANGED <<row, topo, task, left, wrote>> /\ JobRowsUnchanged

(* The end of a transaction releases its locks; its task is done when the   *)
(* worker goes idle.                                                         *)
EndTransaction(w, there) ==
    /\ Goto(w, there)
    /\ left' = [left EXCEPT ![w] = 0]
    /\ wrote' = wrote \ {w}
    /\ row' = [j \in Job |-> IF row[j] = w THEN None ELSE row[j]]
    /\ topo' = IF topo = w THEN None ELSE topo
    /\ task' = IF there = "idle" THEN [task EXCEPT ![w] = None] ELSE task

(* db.rollback(), or the session closed by a dead process: uncommitted       *)
(* entities vanish.                                                          *)
Discard(w, there) == EndTransaction(w, there) /\ UNCHANGED <<columns, attempts, net, call>>

(* check_cancelled before each batch *)
CheckCancelled(w) ==
    /\ At(w, "batch") /\ left[w] > 0
    /\ \/ /\ status[task[w]] = "cancelled"
          /\ Discard(w, "interrupted")
          /\ UNCHANGED life
       \/ /\ status[task[w]] # "cancelled"
          /\ Goto(w, "insert")
          /\ UNCHANGED <<row, topo, task, left, wrote>> /\ JobRowsUnchanged

Clash(j, k) == Codes[j] \cap Codes[k] # {}

(* The unique index makes the INSERT wait for an uncommitted equal code ...  *)
(* (a fault: without the index) *)
NoIndex(w) == TRUE
IndexFree(w) == \A u \in wrote \ {w} : ~Clash(task[u], task[w])
Duplicate(w) == \E j \in net : Clash(j, task[w])

Insert(w) ==
    /\ At(w, "insert") /\ IndexFree(w) /\ ~Duplicate(w)
    /\ wrote' = wrote \cup {w}
    /\ left' = [left EXCEPT ![w] = @ - 1]
    /\ Goto(w, "batch")
    /\ UNCHANGED <<row, topo, task>> /\ JobRowsUnchanged

(* ... and refuses a committed one: IntegrityError. *)
InsertRefused(w) ==
    /\ At(w, "insert") /\ IndexFree(w) /\ Duplicate(w)
    /\ Discard(w, "failing")
    /\ UNCHANGED life

(* bump_topology_revision is the last statement before the commit. *)
BumpRevision(w) ==
    /\ At(w, "batch") /\ left[w] = 0
    /\ topo = None
    /\ topo' = w
    /\ Goto(w, "assert")
    /\ UNCHANGED <<row, task, left, wrote>> /\ JobRowsUnchanged

(* A fault: any running job will do. *)
AnyOwner(w) == status[task[w]] = "running"
LeaseHeld(w) == owner[task[w]] = Id(w) /\ status[task[w]] = "running"

(* SELECT lease_owner, status FOR UPDATE *)
AssertLease(w) ==
    /\ At(w, "assert") /\ row[task[w]] = None
    /\ \/ /\ status[task[w]] = "cancelled"
          /\ Discard(w, "interrupted")
          /\ UNCHANGED life
       \/ /\ status[task[w]] # "cancelled" /\ ~LeaseHeld(w)
          /\ Discard(w, "idle")
          /\ UNCHANGED life
       \/ /\ LeaseHeld(w)
          /\ row' = [row EXCEPT ![task[w]] = w]
          /\ Goto(w, "commit")
          /\ UNCHANGED <<topo, task, left, wrote>> /\ JobRowsUnchanged

CommitResult(w) ==
    /\ At(w, "commit")
    /\ status' = [status EXCEPT ![task[w]] = "succeeded"]
    /\ net' = net \cup ({task[w]} \cap ImportJob)
    /\ EndTransaction(w, "idle")
    /\ UNCHANGED <<owner, lease, retries, attempts, life, call>>
-----------------------------------------------------------------------------
(* Handling what execution raised *)

Executing == {"execute", "batch", "insert", "assert", "commit"}

(* An unavailable file, invalid content, a database error. *)
Raise(w) == pc[w] \in Executing /\ Discard(w, "failing") /\ UNCHANGED life

(* A fault: a status the table's CHECK does not know. *)
VerdictUnknown(w) == IF pc[w] \in {"interrupted", "cancelling"} THEN "aborted" ELSE "failed"
Verdict(w) == IF pc[w] \in {"interrupted", "cancelling"} THEN "cancelled" ELSE "failed"

(* The handler reloads the job in a new transaction without a lock; a status *)
(* that is already right is not written again.                               *)
Reload(w) ==
    /\ pc[w] \in {"interrupted", "failing"}
    /\ \/ status[task[w]] = Verdict(w) /\ Discard(w, "idle")
       \/ status[task[w]] # Verdict(w) /\ Discard(w, [failing |-> "marking",
                                                     interrupted |-> "cancelling"][pc[w]])
    /\ UNCHANGED life

(* UPDATE ... WHERE id = :id, whoever owns the job now. *)
WriteVerdict(w) ==
    /\ pc[w] \in {"marking", "cancelling"} /\ row[task[w]] = None
    /\ status' = [status EXCEPT ![task[w]] = Verdict(w)]
    /\ EndTransaction(w, "idle")
    /\ UNCHANGED <<owner, lease, retries, attempts, net, life, call>>

(* A second failure inside the handler ends the iteration; the job stays     *)
(* running until its lease expires.                                          *)
Abandon(w) == pc[w] # "idle" /\ Discard(w, "idle") /\ UNCHANGED life

(* The process dies and is started again under a new worker_id. *)
Crash(w) ==
    /\ pc[w] # "idle"
    /\ Discard(w, "idle")
    /\ life' = [life EXCEPT ![w] = @ + 1]
-----------------------------------------------------------------------------
(* cancel_job_by_id reads the status without a lock ... *)
CancelRead(c, j) ==
    /\ call[c] = None
    /\ status[j] \in {"queued", "running"}
    /\ call' = [call EXCEPT ![c] = j]
    /\ UNCHANGED <<columns, attempts, net, row, topo, work, life>>

(* ... and writes it by id. *)
CancelWrite(c) ==
    /\ call[c] # None /\ row[call[c]] = None
    /\ status' = [status EXCEPT ![call[c]] = "cancelled"]
    /\ call' = [call EXCEPT ![c] = None]
    /\ UNCHANGED <<owner, lease, retries, attempts, net, row, topo, work, life>>

Step(w) ==
    \/ Claim(w) \/ ReadFile(w) \/ WriteExport(w) \/ CheckCancelled(w)
    \/ Insert(w) \/ InsertRefused(w) \/ BumpRevision(w) \/ AssertLease(w)
    \/ CommitResult(w) \/ Reload(w) \/ WriteVerdict(w)

Next ==
    \/ \E w \in Worker : Step(w) \/ Beat(w) \/ Raise(w) \/ Abandon(w) \/ Crash(w)
    \/ \E j \in Job : Enqueue(j) \/ Expire(j)
    \/ \E c \in Caller : CancelWrite(c) \/ \E j \in Job : CancelRead(c, j)

Spec == Init /\ [][Next]_vars

(* Nobody renews the lease of a job its owner no longer executes. *)
Orphaned(j) == \A w \in Worker : task[w] = j => owner[j] # Id(w)
Lapse(j) == Orphaned(j) /\ Expire(j)

(* A worker loops for ever and PostgreSQL queues the waiters of a row; time  *)
(* passes.                                                                   *)
Fairness == /\ \A w \in Worker : SF_vars(Step(w))
            /\ \A j \in Job : WF_vars(Lapse(j))
FairSpec == Spec /\ Fairness
-----------------------------------------------------------------------------
(* Properties *)

Phases == {"idle", "interrupted", "failing", "marking", "cancelling"} \cup Executing

(* The columns keep their domains and a session refers to existing jobs.     *)
TypeOK ==
    /\ status \in [Job -> Statuses]
    /\ owner \in [Job -> (Worker \X Nat) \cup {None}]
    /\ lease \in [Job -> {"none", "live", "expired"}]
    /\ retries \in [Job -> Nat] /\ attempts \in [Job -> Nat]
    /\ net \subseteq ImportJob
    /\ row \in [Job -> Worker \cup {None}] /\ topo \in Worker \cup {None}
    /\ pc \in [Worker -> Phases]
    /\ task \in [Worker -> Job \cup {None}]
    /\ \A w \in Worker : pc[w] = "idle" <=> task[w] = None
    /\ left \in [Worker -> Nat] /\ wrote \subseteq Worker
    /\ life \in [Worker -> Nat] /\ call \in [Caller -> Job \cup {None}]

Recorded(j) == (status'[j] = "succeeded" /\ status[j] # "succeeded") \/ j \in net' \ net
ByOwner(j) == /\ status[j] = "running"
              /\ \E w \in Worker : pc[w] = "commit" /\ task[w] = j /\ owner[j] = Id(w)

(* A result is recorded, and entities enter the network, only for a running  *)
(* job and only by the worker whose lease it is: one that lost its lease, or *)
(* whose job was cancelled under it, discards everything (assert_lease_owner *)
(* holds the row until the commit).                                          *)
OnlyOwnerCommits == [][\A j \in Job : Recorded(j) => ByOwner(j)]_vars

(* A finished job is never claimed, run or queued again, whatever stale      *)
(* workers and late cancellations still write.                               *)
NoRevival ==
    [][\A j \in Job : status[j] \in Finished => status'[j] \in Finished]_vars

(* "Lease expirou após o número máximo de N tentativas": a job is executed   *)
(* at most max_retries times, and exactly so often when it is given up.      *)
AttemptsHonest ==
    \A j \in Job : /\ attempts[j] <= MaxRetries
                   /\ retries[j] = MaxRetries => attempts[j] = MaxRetries

(* An import that succeeded has put its entities into the network, and two   *)
(* imports of the same codes never both have.                                *)
AllOrNothing ==
    /\ \A j \in ImportJob : status[j] = "succeeded" => j \in net
    /\ \A j, k \in net : j # k => ~Clash(j, k)

(* Every queued job is finished in the end, although workers crash, lose     *)
(* their leases and lose the database.                                       *)
Finishes == \A j \in Job : status[j] = "queued" ~> status[j] \in Finished

-----------------------------------------------------------------------------
(* The inductive invariant behind OnlyOwnerCommits, AttemptsHonest and       *)
(* AllOrNothing.                                                             *)

(* Between assert_lease_owner and the commit the job's row is locked, so the *)
(* lease that was checked is still held.                                     *)
CommitInv ==
    \A w \in Worker : pc[w] = "commit" => row[task[w]] = w /\ LeaseHeld(w)

(* retry_count is one behind the executions begun, until it is spent.        *)
CountInv ==
    \A j \in Job :
      /\ status[j] \in {"absent", "queued"} => attempts[j] = 0 /\ retries[j] = 0
      /\ status[j] = "running" => attempts[j] = retries[j] + 1

(* Uncommitted entities clash with nothing committed or uncommitted, and     *)
(* whoever reaches its commit has inserted all its codes.                    *)
Importing(w) == pc[w] \in {"batch", "insert", "assert", "commit"}
WriteInv ==
    /\ \A w \in wrote : /\ Importing(w)
                        /\ \A u \in wrote \ {w} : ~Clash(task[u], task[w])
                        /\ \A j \in net : ~Clash(j, task[w])
    /\ \A w \in Worker \ wrote : Importing(w) /\ task[w] \in ImportJob =>
         /\ pc[w] \in {"batch", "insert"} => left[w] = Batches[task[w]]
         /\ pc[w] \in {"assert", "commit"} => Codes[task[w]] = {}
    /\ \A w \in Worker : pc[w] = "insert" => left[w] > 0

Inductive == TypeOK /\ CommitInv /\ CountInv /\ WriteInv /\ AttemptsHonest /\ AllOrNothing
=============================================================================
