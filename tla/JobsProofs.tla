----------------------------- MODULE JobsProofs -----------------------------
(* Proofs about Jobs: the lease discipline, the retry count and the imports' *)
(* atomicity, for any number of workers, callers and jobs.                   *)
EXTENDS Jobs, TLAPS

(* Every way a transaction ends without a commit.                            *)
Drop(w) ==
    \E there \in {"idle", "interrupted", "failing", "marking", "cancelling"} :
      Discard(w, there) /\ pc[w] # "idle" /\ life' \in {life, [life EXCEPT ![w] = @ + 1]}
                       /\ (there # "idle" => life' = life)

Proceed(w) ==
    /\ pc[w] = "batch" /\ left[w] > 0 /\ Goto(w, "insert")
    /\ UNCHANGED <<row, topo, task, left, wrote>> /\ JobRowsUnchanged

TakeLease(w) ==
    /\ At(w, "assert") /\ row[task[w]] = None /\ LeaseHeld(w)
    /\ row' = [row EXCEPT ![task[w]] = w]
    /\ Goto(w, "commit")
    /\ UNCHANGED <<topo, task, left, wrote>> /\ JobRowsUnchanged

(* A step of a worker that is not an end without commit.                     *)
Act(w) ==
    \/ Claim(w) \/ ReadFile(w) \/ WriteExport(w) \/ Proceed(w) \/ Insert(w)
    \/ BumpRevision(w) \/ TakeLease(w) \/ CommitResult(w) \/ WriteVerdict(w) \/ Beat(w)

(* The steps, with all the discarding ones gathered in Drop.                 *)
LEMMA Steps ==
    ASSUME TypeOK, [Next]_vars
    PROVE  \/ \E w \in Worker : Act(w) \/ Drop(w)
           \/ \E j \in Job : Enqueue(j) \/ Expire(j)
           \/ \E c \in Caller : CancelWrite(c) \/ \E j \in Job : CancelRead(c, j)
           \/ UNCHANGED vars
<1>1. ASSUME NEW w \in Worker, Step(w) \/ Beat(w) \/ Raise(w) \/ Abandon(w) \/ Crash(w)
      PROVE  Act(w) \/ Drop(w)
  <2>1. CASE CheckCancelled(w)
    BY <2>1 DEF CheckCancelled, At, Act, Proceed, Drop
  <2>2. CASE InsertRefused(w)
    BY <2>2 DEF InsertRefused, At, Drop
  <2>3. CASE AssertLease(w)
    BY <2>3 DEF AssertLease, At, Act, TakeLease, Drop
  <2>4. CASE Reload(w)
    BY <2>4 DEF Reload, Drop
  <2>5. CASE Raise(w)
    BY <2>5 DEF Raise, Executing, Drop
  <2>6. CASE Abandon(w) \/ Crash(w)
    BY <2>6 DEF Abandon, Crash, Drop
  <2>. QED BY <1>1, <2>1, <2>2, <2>3, <2>4, <2>5, <2>6 DEF Step, Act
<1>. QED BY <1>1 DEF Next

(* The columns and session states keep their domains.                        *)
LEMMA TypeStep == TypeOK /\ WriteInv /\ [Next]_vars => TypeOK'
<1>. SUFFICES ASSUME TypeOK, WriteInv, [Next]_vars PROVE TypeOK'
  OBVIOUS
<1>. USE RetryAssumption, NoWorkerAssumption, JobAssumption, FileAssumption
     DEF TypeOK, Phases, Executing, Statuses, Finished, Goto, At, columns, work, JobRowsUnchanged
<1>1. ASSUME NEW w \in Worker, Claim(w) PROVE TypeOK'
  BY <1>1 DEF Claim, Id, Tries
<1>2. ASSUME NEW w \in Worker, Beat(w) PROVE TypeOK'
  BY <1>2 DEF Beat
<1>3. ASSUME NEW w \in Worker, ReadFile(w) \/ WriteExport(w) \/ Proceed(w)
                               \/ BumpRevision(w) \/ TakeLease(w)
      PROVE TypeOK'
  <2>1. CASE ReadFile(w) BY <2>1 DEF ReadFile
  <2>2. CASE WriteExport(w) BY <2>2 DEF WriteExport
  <2>3. CASE Proceed(w) BY <2>3 DEF Proceed
  <2>4. CASE BumpRevision(w) BY <2>4 DEF BumpRevision
  <2>5. CASE TakeLease(w) BY <2>5 DEF TakeLease
  <2>. QED BY <1>3, <2>1, <2>2, <2>3, <2>4, <2>5
<1>4. ASSUME NEW w \in Worker, Insert(w) PROVE TypeOK'
  BY <1>4 DEF Insert, WriteInv
<1>5. ASSUME NEW w \in Worker, CommitResult(w) PROVE TypeOK'
  BY <1>5 DEF CommitResult, EndTransaction
<1>6. ASSUME NEW w \in Worker, WriteVerdict(w) PROVE TypeOK'
  BY <1>6 DEF WriteVerdict, EndTransaction, Verdict
<1>7. ASSUME NEW w \in Worker, Drop(w) PROVE TypeOK'
  BY <1>7 DEF Drop, Discard, EndTransaction
<1>8. ASSUME NEW j \in Job, Enqueue(j) \/ Expire(j) PROVE TypeOK'
  <2>1. CASE Enqueue(j) BY <2>1 DEF Enqueue
  <2>2. CASE Expire(j) BY <2>2 DEF Expire
  <2>. QED BY <1>8, <2>1, <2>2
<1>9. ASSUME NEW c \in Caller, CancelWrite(c) \/ \E j \in Job : CancelRead(c, j) PROVE TypeOK'
  <2>1. CASE CancelWrite(c) BY <2>1 DEF CancelWrite
  <2>2. ASSUME NEW j \in Job, CancelRead(c, j) PROVE TypeOK'
    BY <2>2 DEF CancelRead
  <2>. QED BY <1>9, <2>1, <2>2
<1>10. CASE UNCHANGED vars
  BY <1>10 DEF vars
<1>. QED BY Steps, <1>1, <1>2, <1>3, <1>4, <1>5, <1>6, <1>7, <1>8, <1>9, <1>10 DEF Act

(* The lease checked under the row lock is held until the commit.            *)
LEMMA CommitStep == TypeOK /\ CommitInv /\ [Next]_vars => CommitInv'
<1>. SUFFICES ASSUME TypeOK, CommitInv, [Next]_vars,
                     NEW u \in Worker, pc'[u] = "commit"
              PROVE  row'[task'[u]] = u /\ LeaseHeld(u)'
  BY DEF CommitInv
<1>. USE NoWorkerAssumption DEF TypeOK, CommitInv, LeaseHeld, Id, Goto, At, columns, work, JobRowsUnchanged
<1>1. ASSUME NEW w \in Worker, Claim(w) PROVE row'[task'[u]] = u /\ LeaseHeld(u)'
  BY <1>1 DEF Claim, NextJob, Eligible
<1>2. ASSUME NEW w \in Worker, Beat(w) PROVE row'[task'[u]] = u /\ LeaseHeld(u)'
  BY <1>2 DEF Beat
<1>3. ASSUME NEW w \in Worker, ReadFile(w) \/ WriteExport(w) \/ Proceed(w)
                               \/ BumpRevision(w) \/ TakeLease(w) \/ Insert(w)
      PROVE row'[task'[u]] = u /\ LeaseHeld(u)'
  BY <1>3 DEF ReadFile, WriteExport, Proceed, BumpRevision, TakeLease, Insert
<1>4. ASSUME NEW w \in Worker, CommitResult(w) PROVE row'[task'[u]] = u /\ LeaseHeld(u)'
  BY <1>4 DEF CommitResult, EndTransaction
<1>5. ASSUME NEW w \in Worker, WriteVerdict(w) PROVE row'[task'[u]] = u /\ LeaseHeld(u)'
  BY <1>5 DEF WriteVerdict, EndTransaction
<1>6. ASSUME NEW w \in Worker, Drop(w) PROVE row'[task'[u]] = u /\ LeaseHeld(u)'
  BY <1>6 DEF Drop, Discard, EndTransaction
<1>7. ASSUME NEW j \in Job, Enqueue(j) \/ Expire(j) PROVE row'[task'[u]] = u /\ LeaseHeld(u)'
  BY <1>7 DEF Enqueue, Expire
<1>8. ASSUME NEW c \in Caller, CancelWrite(c) \/ \E j \in Job : CancelRead(c, j)
      PROVE row'[task'[u]] = u /\ LeaseHeld(u)'
  BY <1>8 DEF CancelWrite, CancelRead
<1>9. CASE UNCHANGED vars
  BY <1>9 DEF vars
<1>. QED BY Steps, <1>1, <1>2, <1>3, <1>4, <1>5, <1>6, <1>7, <1>8, <1>9 DEF Act

(* Only these steps write the status, the owner or the counts of a job.      *)
LEMMA Columns ==
    ASSUME TypeOK, [Next]_vars
    PROVE  \/ UNCHANGED <<status, retries, attempts, net>>
           \/ \E w \in Worker : Claim(w) \/ CommitResult(w) \/ WriteVerdict(w)
           \/ \E j \in Job : Enqueue(j)
           \/ \E c \in Caller : CancelWrite(c)
<1>1. ASSUME NEW w \in Worker, Act(w)
      PROVE  \/ UNCHANGED <<status, retries, attempts, net>>
             \/ Claim(w) \/ CommitResult(w) \/ WriteVerdict(w)
  BY <1>1 DEF Act, ReadFile, WriteExport, Proceed, Insert, BumpRevision, TakeLease, Beat,
              JobRowsUnchanged, columns
<1>2. ASSUME NEW w \in Worker, Drop(w) PROVE UNCHANGED <<status, retries, attempts, net>>
  BY <1>2 DEF Drop, Discard, columns
<1>. QED BY Steps, <1>1, <1>2 DEF Expire, CancelRead, vars, columns

(* The retry count and the executions begun stay in step.                    *)
LEMMA CountStep ==
    TypeOK /\ CountInv /\ AttemptsHonest /\ [Next]_vars => CountInv' /\ AttemptsHonest'
<1>. SUFFICES ASSUME TypeOK, CountInv, AttemptsHonest, [Next]_vars,
                     NEW k \in Job
              PROVE  /\ status'[k] \in {"absent", "queued"} => attempts'[k] = 0 /\ retries'[k] = 0
                     /\ status'[k] = "running" => attempts'[k] = retries'[k] + 1
                     /\ attempts'[k] <= MaxRetries
                     /\ retries'[k] = MaxRetries => attempts'[k] = MaxRetries
  BY DEF CountInv, AttemptsHonest
<1>. USE RetryAssumption DEF CountInv, AttemptsHonest, TypeOK
<1>1. ASSUME NEW w \in Worker, Claim(w)
      PROVE  /\ status'[k] \in {"absent", "queued"} => attempts'[k] = 0 /\ retries'[k] = 0
             /\ status'[k] = "running" => attempts'[k] = retries'[k] + 1
             /\ attempts'[k] <= MaxRetries
             /\ retries'[k] = MaxRetries => attempts'[k] = MaxRetries
  <2>1. PICK j \in Job :
          /\ NextJob(j)
          /\ retries' = [retries EXCEPT ![j] = Tries(j)]
          /\ \/ /\ Spent(j)
                /\ status' = [status EXCEPT ![j] = "failed"]
                /\ UNCHANGED attempts
             \/ /\ ~Spent(j)
                /\ status' = [status EXCEPT ![j] = "running"]
                /\ attempts' = [attempts EXCEPT ![j] = @ + 1]
    BY <1>1 DEF Claim
  <2>2. CASE k # j
    BY <2>1, <2>2
  <2>3. CASE k = j /\ status[j] = "queued"
    BY <2>1, <2>3 DEF Tries, Spent
  <2>4. CASE k = j /\ Reclaimable(j)
    BY <2>1, <2>4 DEF Reclaimable, Tries, Spent
  <2>. QED BY <2>1, <2>2, <2>3, <2>4 DEF NextJob, Eligible
<1>2. ASSUME NEW w \in Worker, CommitResult(w) \/ WriteVerdict(w)
      PROVE  /\ status'[k] \in {"absent", "queued", "running"} => status'[k] = status[k]
             /\ UNCHANGED <<retries, attempts>>
  BY <1>2 DEF CommitResult, WriteVerdict, Verdict
<1>3. ASSUME NEW j \in Job, Enqueue(j)
      PROVE  /\ status'[k] = "queued" => status[k] \in {"absent", "queued"}
             /\ status'[k] # "queued" => status'[k] = status[k]
             /\ UNCHANGED <<retries, attempts>>
  BY <1>3 DEF Enqueue
<1>4. ASSUME NEW c \in Caller, CancelWrite(c)
      PROVE  /\ status'[k] \in {"absent", "queued", "running"} => status'[k] = status[k]
             /\ UNCHANGED <<retries, attempts>>
  BY <1>4 DEF CancelWrite
<1>. QED BY Columns, <1>1, <1>2, <1>3, <1>4

(* CommitResult changes nothing but the job of its worker.                   *)
LEMMA Committing ==
    ASSUME TypeOK, CommitInv, NEW w \in Worker, CommitResult(w)
    PROVE  /\ task[w] \in Job /\ status[task[w]] = "running" /\ owner[task[w]] = Id(w)
           /\ status' = [status EXCEPT ![task[w]] = "succeeded"]
           /\ net' = net \cup ({task[w]} \cap ImportJob)
BY NoWorkerAssumption DEF CommitResult, CommitInv, LeaseHeld, TypeOK, At

(* Two sets of codes clash either way or not at all.                         *)
LEMMA ClashSymmetric ==
    /\ \A j, k : Clash(j, k) <=> Clash(k, j)
    /\ \A j, k : Codes[j] = {} => ~Clash(j, k)
BY DEF Clash

(* Uncommitted entities stay as they are while their worker does nothing and *)
(* the network stays the same; w may give its own up.                        *)
LEMMA WriteFrame ==
    ASSUME TypeOK, WriteInv, NEW w \in Worker,
           wrote' = wrote \ {w}, net' = net, pc' \in [Worker -> Phases],
           ~Importing(w)',
           \A u \in Worker \ {w} : /\ pc'[u] = pc[u] /\ task'[u] = task[u]
                                   /\ left'[u] = left[u]
    PROVE  WriteInv'
<1>1. ASSUME NEW v \in wrote' PROVE
        /\ Importing(v)'
        /\ \A u \in wrote' \ {v} : ~Clash(task'[u], task'[v])
        /\ \A j \in net' : ~Clash(j, task'[v])
  <2>1. v \in wrote /\ v # w /\ v \in Worker BY <1>1 DEF TypeOK
  <2>2. Importing(v)' BY <2>1 DEF WriteInv, Importing
  <2>3. \A u \in wrote' \ {v} : ~Clash(task'[u], task'[v])
    BY <2>1 DEF WriteInv, TypeOK
  <2>4. \A j \in net' : ~Clash(j, task'[v])
    <3>1. task'[v] = task[v] BY <2>1
    <3>2. \A j \in net : ~Clash(j, task[v]) BY <2>1 DEF WriteInv
    <3>. QED BY <3>1, <3>2
  <2>. QED BY <2>2, <2>3, <2>4
<1>2. ASSUME NEW v \in Worker \ wrote', Importing(v)', task'[v] \in ImportJob PROVE
        /\ pc'[v] \in {"batch", "insert"} => left'[v] = Batches[task'[v]]
        /\ pc'[v] \in {"assert", "commit"} => Codes[task'[v]] = {}
  BY <1>2 DEF WriteInv, Importing
<1>3. ASSUME NEW v \in Worker, pc'[v] = "insert" PROVE left'[v] > 0
  BY <1>3 DEF WriteInv, Importing
<1>. QED BY <1>1, <1>2, <1>3 DEF WriteInv

(* Uncommitted entities stay disjoint from all others.                       *)
LEMMA WriteStep ==
    TypeOK /\ CommitInv /\ WriteInv /\ [Next]_vars => WriteInv'
<1>. SUFFICES ASSUME TypeOK, CommitInv, WriteInv, [Next]_vars PROVE WriteInv'
  OBVIOUS
<1>0. TypeOK' BY TypeStep
<1>. USE NoWorkerAssumption, JobAssumption, FileAssumption
     DEF Goto, At, columns, work, JobRowsUnchanged
<1>1. ASSUME NEW w \in Worker, Claim(w) PROVE WriteInv'
  <2>1. w \notin wrote BY <1>1 DEF Claim, WriteInv, Importing
  <2>2. ~Importing(w)' BY <1>1 DEF Claim, Importing, TypeOK
  <2>. QED BY <1>0, <1>1, <2>1, <2>2, WriteFrame DEF Claim, TypeOK
<1>2. ASSUME NEW w \in Worker, WriteVerdict(w) \/ Drop(w) PROVE WriteInv'
  <2>1. /\ wrote' = wrote \ {w} /\ net' = net /\ ~Importing(w)'
        /\ \A u \in Worker \ {w} : /\ pc'[u] = pc[u] /\ task'[u] = task[u]
                                   /\ left'[u] = left[u]
    BY <1>2 DEF WriteVerdict, Drop, Discard, EndTransaction, Importing, TypeOK
  <2>. QED BY <1>0, <2>1, WriteFrame DEF TypeOK
<1>3. ASSUME NEW w \in Worker, ReadFile(w) \/ WriteExport(w) \/ Proceed(w) \/ TakeLease(w)
                               \/ BumpRevision(w)
      PROVE WriteInv'
  <2>. USE DEF TypeOK, WriteInv, Importing
  <2>1. CASE ReadFile(w) BY <2>1 DEF ReadFile
  <2>2. CASE WriteExport(w) BY <2>2 DEF WriteExport
  <2>3. CASE Proceed(w) BY <2>3 DEF Proceed
  <2>4. CASE TakeLease(w)
    <3>1. /\ pc[w] = "assert" /\ pc' = [pc EXCEPT ![w] = "commit"]
          /\ task' = task /\ left' = left /\ wrote' = wrote /\ net' = net
      BY <2>4 DEF TakeLease
    <3>2. \A v \in Worker : /\ Importing(v)' <=> Importing(v)
                            /\ pc'[v] \in {"batch", "insert"} => pc[v] = pc'[v]
                            /\ pc'[v] \in {"assert", "commit"} =>
                                 pc[v] \in {"assert", "commit"}
      BY <3>1
    <3>. QED BY <3>1, <3>2
  <2>5. CASE BumpRevision(w) BY <2>5 DEF BumpRevision
  <2>. QED BY <1>3, <2>1, <2>2, <2>3, <2>4, <2>5
<1>4. ASSUME NEW w \in Worker, Insert(w) PROVE WriteInv'
  <2>1. \A v \in wrote' : /\ Importing(v)'
                          /\ \A u \in wrote' \ {v} : ~Clash(task'[u], task'[v])
                          /\ \A j \in net' : ~Clash(j, task'[v])
    BY <1>4, ClashSymmetric DEF Insert, IndexFree, Duplicate, TypeOK, WriteInv, Importing
  <2>2. \A v \in Worker \ wrote' : Importing(v)' /\ task'[v] \in ImportJob =>
          /\ pc'[v] \in {"batch", "insert"} => left'[v] = Batches[task'[v]]
          /\ pc'[v] \in {"assert", "commit"} => Codes[task'[v]] = {}
    BY <1>4 DEF Insert, TypeOK, WriteInv, Importing
  <2>3. \A v \in Worker : pc'[v] = "insert" => left'[v] > 0
    BY <1>4 DEF Insert, TypeOK, WriteInv
  <2>. QED BY <2>1, <2>2, <2>3 DEF WriteInv
<1>5. ASSUME NEW w \in Worker, CommitResult(w) PROVE WriteInv'
  <2>1. /\ pc[w] = "commit" /\ task[w] \in Job /\ wrote' = wrote \ {w}
        /\ net' = net \cup ({task[w]} \cap ImportJob)
        /\ \A u \in Worker \ {w} : /\ pc'[u] = pc[u] /\ task'[u] = task[u]
                                   /\ left'[u] = left[u]
        /\ pc'[w] = "idle"
    BY <1>5, Committing DEF CommitResult, EndTransaction, TypeOK
  <2>2. \A u \in wrote \ {w} : task[w] \in ImportJob => ~Clash(task[w], task[u])
    BY <2>1, ClashSymmetric DEF WriteInv, Importing, TypeOK
  <2>3. \A v \in wrote' : /\ Importing(v)'
                          /\ \A u \in wrote' \ {v} : ~Clash(task'[u], task'[v])
                          /\ \A j \in net' : ~Clash(j, task'[v])
    BY <2>1, <2>2 DEF TypeOK, WriteInv, Importing
  <2>4. \A v \in Worker \ wrote' : Importing(v)' /\ task'[v] \in ImportJob =>
          /\ pc'[v] \in {"batch", "insert"} => left'[v] = Batches[task'[v]]
          /\ pc'[v] \in {"assert", "commit"} => Codes[task'[v]] = {}
    BY <2>1 DEF WriteInv, Importing
  <2>5. \A v \in Worker : pc'[v] = "insert" => left'[v] > 0
    BY <2>1 DEF WriteInv
  <2>. QED BY <2>3, <2>4, <2>5 DEF WriteInv
<1>6. CASE UNCHANGED <<pc, task, left, wrote, net>>
  BY <1>6 DEF WriteInv, Importing
<1>. QED
  BY Steps, <1>1, <1>2, <1>3, <1>4, <1>5, <1>6
     DEF Act, Beat, Enqueue, Expire, CancelWrite, CancelRead, vars

(* A committed import is complete and disjoint from the others.              *)
LEMMA AllStep ==
    TypeOK /\ CommitInv /\ WriteInv /\ AllOrNothing /\ [Next]_vars => AllOrNothing'
<1>. SUFFICES ASSUME TypeOK, CommitInv, WriteInv, AllOrNothing, [Next]_vars
              PROVE  AllOrNothing'
  OBVIOUS
<1>1. ASSUME net' = net, \A j \in Job : status'[j] = "succeeded" => status[j] = "succeeded"
      PROVE  AllOrNothing'
  BY <1>1, JobAssumption DEF AllOrNothing
<1>2. ASSUME NEW w \in Worker, CommitResult(w) PROVE AllOrNothing'
  <2>1. pc[w] = "commit" BY <1>2 DEF CommitResult, At
  <2>2. task[w] \in ImportJob => \A j \in net : ~Clash(j, task[w]) /\ ~Clash(task[w], j)
    BY <2>1, ClashSymmetric DEF WriteInv, Importing, TypeOK
  <2>3. \A j \in ImportJob : status'[j] = "succeeded" => j \in net'
    BY <1>2, Committing, JobAssumption DEF AllOrNothing, TypeOK
  <2>4. \A j, k \in net' : j # k => ~Clash(j, k)
    BY <1>2, <2>2, Committing DEF AllOrNothing
  <2>. QED BY <2>3, <2>4 DEF AllOrNothing
<1>3. ASSUME NEW w \in Worker, Claim(w) \/ WriteVerdict(w) PROVE AllOrNothing'
  BY <1>1, <1>3 DEF Claim, WriteVerdict, Verdict, TypeOK
<1>4. ASSUME NEW j \in Job, Enqueue(j) PROVE AllOrNothing'
  BY <1>1, <1>4 DEF Enqueue, TypeOK
<1>5. ASSUME NEW c \in Caller, CancelWrite(c) PROVE AllOrNothing'
  BY <1>1, <1>5 DEF CancelWrite, TypeOK
<1>. QED BY Columns, <1>1, <1>2, <1>3, <1>4, <1>5

(* The empty queue satisfies the inductive invariant.                        *)
LEMMA InitInductive == Init => Inductive
<1>. SUFFICES ASSUME Init PROVE Inductive
  OBVIOUS
<1>. USE RetryAssumption DEF Init
<1>1. TypeOK BY DEF TypeOK, Statuses, Phases
<1>2. CommitInv /\ WriteInv BY DEF CommitInv, WriteInv, Importing
<1>3. CountInv /\ AttemptsHonest BY DEF CountInv, AttemptsHonest
<1>4. AllOrNothing BY JobAssumption DEF AllOrNothing
<1>. QED BY <1>1, <1>2, <1>3, <1>4 DEF Inductive

(* The lease, count and write disciplines hold in every state.               *)
THEOREM Invariance == Spec => []Inductive
<1>1. Inductive /\ [Next]_vars => Inductive'
  BY TypeStep, CommitStep, CountStep, WriteStep, AllStep DEF Inductive
<1>. QED BY InitInductive, <1>1, PTL DEF Spec

(* A job is executed at most max_retries times, and is given up only after   *)
(* exactly that many.                                                        *)
THEOREM RetriesCount == Spec => []AttemptsHonest
<1>1. Inductive => AttemptsHonest BY DEF Inductive
<1>. QED BY <1>1, Invariance, PTL

(* An import that succeeded is in the network, and no two committed imports  *)
(* share a code.                                                             *)
THEOREM ImportsAtomic == Spec => []AllOrNothing
<1>1. Inductive => AllOrNothing BY DEF Inductive
<1>. QED BY <1>1, Invariance, PTL

(* Only the worker that holds the lease of a running job records its result  *)
(* or brings its entities into the network.                                  *)
THEOREM LeaseGuardsResult == Spec => OnlyOwnerCommits
<1>1. ASSUME Inductive, [Next]_vars, NEW j \in Job, Recorded(j)
      PROVE  ByOwner(j)
  <2>. USE DEF Inductive, TypeOK
  <2>1. ASSUME NEW w \in Worker, CommitResult(w)
        PROVE  /\ status[j] = "running"
               /\ pc[w] = "commit" /\ task[w] = j /\ owner[j] = Id(w)
    <3>1. task[w] = j BY <1>1, <2>1, Committing DEF Recorded
    <3>. QED BY <1>1, <2>1, <3>1, Committing DEF CommitResult, At
  <2>2. ASSUME NEW w \in Worker, Claim(w) \/ WriteVerdict(w) PROVE FALSE
    BY <1>1, <2>2 DEF Claim, WriteVerdict, Verdict, Recorded
  <2>3. ASSUME NEW k \in Job, Enqueue(k) PROVE FALSE
    BY <1>1, <2>3 DEF Enqueue, Recorded
  <2>4. ASSUME NEW c \in Caller, CancelWrite(c) PROVE FALSE
    BY <1>1, <2>4 DEF CancelWrite, Recorded
  <2>. QED BY <1>1, <2>1, <2>2, <2>3, <2>4, Columns DEF Recorded, ByOwner
<1>2. Inductive /\ [Next]_vars => [\A j \in Job : Recorded(j) => ByOwner(j)]_vars
  BY <1>1
<1>. QED BY <1>2, Invariance, PTL DEF Spec, OnlyOwnerCommits

(* A finished job never becomes queued or running again.                     *)
THEOREM FinishedForGood == Spec => NoRevival
<1>1. ASSUME Inductive, [Next]_vars, NEW j \in Job, status[j] \in Finished
      PROVE  status'[j] \in Finished
  <2>. USE DEF Inductive, Finished
  <2>1. ASSUME NEW w \in Worker, Claim(w) PROVE status'[j] \in Finished
    BY <1>1, <2>1 DEF Claim, NextJob, Eligible, Reclaimable, TypeOK
  <2>2. ASSUME NEW w \in Worker, CommitResult(w) \/ WriteVerdict(w)
        PROVE  status'[j] \in Finished
    BY <1>1, <2>2 DEF CommitResult, WriteVerdict, Verdict, TypeOK
  <2>3. ASSUME NEW k \in Job, Enqueue(k) PROVE status'[j] \in Finished
    BY <1>1, <2>3 DEF Enqueue, TypeOK
  <2>4. ASSUME NEW c \in Caller, CancelWrite(c) PROVE status'[j] \in Finished
    BY <1>1, <2>4 DEF CancelWrite, TypeOK
  <2>. QED BY <1>1, <2>1, <2>2, <2>3, <2>4, Columns
<1>2. Inductive /\ [Next]_vars
        => [\A j \in Job : status[j] \in Finished => status'[j] \in Finished]_vars
  BY <1>1
<1>. QED BY <1>2, Invariance, PTL DEF Spec, NoRevival
=============================================================================
