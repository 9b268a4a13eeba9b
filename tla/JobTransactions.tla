---------------------------- MODULE JobTransactions ----------------------------
(***************************************************************************)
(* The transactions of the crawl repository (app/crawl/repository.py) on   *)
(* one job, statement by statement: which row locks each takes and in      *)
(* which order, what it reads under them, and what it does when another    *)
(* transaction was faster.  CrawlSystem.tla takes every transaction for    *)
(* one step; here claims, worker calls, cancellation, the finalizer and    *)
(* the reaper interleave between their statements, and PostgreSQL aborts   *)
(* one of two transactions that wait for each other.                       *)
(*                                                                         *)
(* Writes become visible at the commit, which also ends the locks: a       *)
(* transaction collects them, and its last statement and its commit are    *)
(* one step.  now() is the time a transaction began at, so it may find a   *)
(* deadline in the future that has passed.                                 *)
(***************************************************************************)
EXTENDS Naturals, FiniteSets

CONSTANTS
    Callers,        \* clients that submit with the same idempotency key
    NoCaller,
    Crawlers,       \* workers
    Rows, SeedRow,  \* tasks of the job
    RetriedRows,    \* tasks retry_failures adds in its second transaction
    FailCap,        \* maxFailures
    MaxLeases,      \* bound: leases of one task
    MaxAborts       \* bound: deadlocks and lost connections

VARIABLES
    request,    \* submit_job of each caller: where it is, the id it returns
    keyOwner,   \* whose insert of the idempotency key is in flight
    job,        \* the row of crawl_jobs
    taskRows,   \* the rows of crawl_tasks
    lockedBy,   \* row locks: of the tasks and of the job
    tx,         \* the transaction of each connection
    added,      \* what retry_failures added
    inTime,     \* what it added to a job that was neither cancelled nor finished
    aborts

jobTxVars == <<request, keyOwner, job, taskRows, lockedBy, tx, added, inTime, aborts>>

Sweepers == {"cancel", "finalize", "reap"}
Connections == Crawlers \cup Sweepers
JobRow == "job"
NoHolder == "nobody"
Queued == {"pending", "retry_wait"}
Ended == {"succeeded", "permanent_failed", "cancelled"}
JobEnded == {"completed", "failed", "cancelled", "timed_out"}

ASSUME JobAssumption ==
    /\ IsFiniteSet(Rows) /\ SeedRow \in Rows /\ RetriedRows \subseteq Rows \ {SeedRow}
    /\ JobRow \notin Rows /\ Crawlers \cap (Sweepers \cup {NoHolder}) = {}
    /\ {FailCap, MaxLeases, MaxAborts} \subseteq Nat
    /\ NoCaller \notin Callers

(* A transaction: the statement it is at, the task it is about, the rows    *)
(* its UPDATE or its loop has still to visit, what it has written, what it  *)
(* has added to the counters, and whether the deadline had passed when it   *)
(* began.                                                                   *)
NoTx == [at |-> "idle", row |-> SeedRow, todo |-> {}, due |-> {},
         writes |-> <<>>, terminal |-> 0, failed |-> 0, expired |-> FALSE]
NoRow == [state |-> "absent", owner |-> NoHolder, leases |-> 0, late |-> FALSE]

JobTxInit ==
    /\ request = [c \in Callers |-> [at |-> "select", id |-> NoCaller]]
    /\ keyOwner = NoCaller
    /\ job = [state |-> "absent", id |-> NoCaller, cancel |-> FALSE, expired |-> FALSE,
              terminal |-> 0, failed |-> 0]
    /\ taskRows = [r \in Rows |-> NoRow]
    /\ lockedBy = [x \in Rows \cup {JobRow} |-> NoHolder]
    /\ tx = [a \in Connections |-> NoTx]
    /\ added = {} /\ inTime = {} /\ aborts = 0

-------------------------------------------------------------------------------
(* submit_job with an idempotency key *)

Submitted == job.state # "absent"
Returns(c, id) == request' = [request EXCEPT ![c] = [at |-> "done", id |-> id]]
NoCrawl == UNCHANGED <<taskRows, lockedBy, tx, added, inTime>>

SelectKey(c) ==
    /\ request[c].at = "select"
    /\ IF Submitted THEN Returns(c, job.id)
       ELSE request' = [request EXCEPT ![c].at = "insert"]
    /\ UNCHANGED <<keyOwner, job, aborts>> /\ NoCrawl

(* The unique index makes the second insert wait for the first one's end;   *)
(* the loser rolls back and looks once more.                                *)
LoserLooksAgain(c) == Returns(c, job.id)

InsertKey(c) ==
    /\ request[c].at = "insert" /\ keyOwner = NoCaller
    /\ IF Submitted THEN LoserLooksAgain(c) /\ UNCHANGED keyOwner
       ELSE keyOwner' = c /\ request' = [request EXCEPT ![c].at = "commit"]
    /\ UNCHANGED <<job, aborts>> /\ NoCrawl

CommitJob(c) ==
    /\ request[c].at = "commit"
    /\ job' = [job EXCEPT !.state = "pending", !.id = c]
    /\ taskRows' = [taskRows EXCEPT ![SeedRow].state = "pending"]
    /\ keyOwner' = NoCaller
    /\ Returns(c, c)
    /\ UNCHANGED <<lockedBy, tx, added, inTime, aborts>>

(* The connection is lost before the commit: the caller gets an error. *)
SubmitAborts(c) ==
    /\ request[c].at = "commit" /\ aborts < MaxAborts
    /\ keyOwner' = NoCaller /\ aborts' = aborts + 1
    /\ request' = [request EXCEPT ![c].at = "failed"]
    /\ UNCHANGED job /\ NoCrawl

(* retry_failures: submit_job has committed the job with its first URL; the *)
(* second transaction adds the others, without a look at the job's state.   *)
(* The foreign key makes its inserts wait for whoever has the job locked.   *)
(* (It submits without a key; here the job is the one of the callers.)      *)
RetryAdds ==
    /\ Submitted /\ added = {} /\ RetriedRows # {} /\ lockedBy[JobRow] = NoHolder
    /\ LET new == {r \in RetriedRows : taskRows[r].state = "absent"}
       IN /\ added' = new /\ new # {}
          /\ inTime' = IF job.cancel \/ job.state \in JobEnded THEN {} ELSE new
          /\ taskRows' = [r \in Rows |-> IF r \in new THEN [taskRows[r] EXCEPT !.state = "pending"]
                                     ELSE taskRows[r]]
    /\ UNCHANGED <<request, keyOwner, job, lockedBy, tx, aborts>>

-------------------------------------------------------------------------------
(* Locks, writes and commits *)

LockFree(x) == lockedBy[x] = NoHolder
Locked(a, X) == lockedBy' = [x \in DOMAIN lockedBy |-> IF x \in X THEN a ELSE lockedBy[x]]
Begin(at, late) == [NoTx EXCEPT !.at = at, !.expired = late]
Others == UNCHANGED <<request, keyOwner, added, inTime, aborts>>
Statement(a, t) == tx' = [tx EXCEPT ![a] = t] /\ UNCHANGED <<job, taskRows>> /\ Others
(* The end of a transaction; its locks end with it. *)
EndTx(a) ==
    /\ tx' = [tx EXCEPT ![a] = NoTx]
    /\ lockedBy' = [x \in DOMAIN lockedBy |-> IF lockedBy[x] = a THEN NoHolder ELSE lockedBy[x]]

(* What transaction t sees of the rows. *)
Seen(t) == [r \in Rows |-> IF r \in DOMAIN t.writes THEN t.writes[r] ELSE taskRows[r].state]
InState(t, S) == {r \in Rows : Seen(t)[r] \in S}
UnendedRows(t) == InState(t, Queued \cup {"leased"})
QueuedRows(t) == InState(t, Queued)

Writing(t, r, state) ==
    [t EXCEPT !.writes = [q \in DOMAIN @ \cup {r} |-> IF q = r THEN state ELSE @[q]]]
(* _terminalize: the row and the counters; at the failure limit             *)
(* _enforce_failure_limit goes on with _drain_unleased.                     *)
CountedFailure(t) == [t EXCEPT !.terminal = @ + 1, !.failed = @ + 1]
Terminalizing(t, r, state) ==
    IF state = "permanent_failed"
    THEN LET u == CountedFailure(Writing(t, r, state))
         IN IF job.failed + u.failed >= FailCap THEN [u EXCEPT !.todo = QueuedRows(u)] ELSE u
    ELSE [Writing(t, r, state) EXCEPT !.terminal = @ + 1]

(* The rows and the counters are what the transaction made of them; a       *)
(* cancelled job ends with the last of its leases.                          *)
Commit(a, t, state) ==
    /\ taskRows' = [r \in Rows |->
          IF r \in DOMAIN t.writes
          THEN [taskRows[r] EXCEPT !.state = t.writes[r], !.owner = NoHolder, !.late = FALSE]
          ELSE taskRows[r]]
    /\ job' = [job EXCEPT !.terminal = @ + t.terminal, !.failed = @ + t.failed, !.state = state]
    /\ EndTx(a) /\ Others
EndState(t) ==
    IF job.cancel /\ t.terminal > 0 /\ InState(t, {"leased"}) = {} THEN "cancelled" ELSE job.state

(* Commit, or go on with the rows that have to be visited, the job locked.  *)
CommitOrGoOn(a, t) ==
    IF t.todo = {} /\ t.due = {} THEN Commit(a, t, EndState(t))
    ELSE Locked(a, {JobRow}) /\ Statement(a, [t EXCEPT !.at = "sweep"])

-------------------------------------------------------------------------------
(* claim_task: the task first, then the job *)

ClaimLocks(a, r) ==
    /\ tx[a].at = "idle" /\ taskRows[r].state \in Queued /\ taskRows[r].leases < MaxLeases
    /\ \A q \in Rows : taskRows[q].owner # a
    /\ ~job.cancel /\ ~job.expired /\ LockFree(r)
    /\ Locked(a, {r})
    /\ Statement(a, [Begin("claim", FALSE) EXCEPT !.row = r])

(* With the job locked its columns are read again; the deadline is compared *)
(* with the same now().                                                     *)
StillActive(a) == ~job.cancel /\ ~tx[a].expired

ClaimCommits(a) ==
    LET r == tx[a].row
    IN /\ tx[a].at = "claim" /\ LockFree(JobRow)
       /\ IF StillActive(a)
          THEN /\ taskRows' = [taskRows EXCEPT ![r].state = "leased", ![r].owner = a,
                                                ![r].leases = @ + 1]
               /\ job' = [job EXCEPT !.state = IF @ = "pending" THEN "running" ELSE @]
          ELSE UNCHANGED <<taskRows, job>>
       /\ EndTx(a) /\ Others

(* The origin is busy, cooling down or paced: the claim ends with nothing. *)
ClaimYields(a) ==
    /\ tx[a].at = "claim" /\ LockFree(JobRow) /\ StillActive(a)
    /\ EndTx(a) /\ UNCHANGED <<taskRows, job>> /\ Others

(* A budget is used up: _drain_unleased ends what is queued. *)
ClaimDrains(a) ==
    /\ tx[a].at = "claim" /\ LockFree(JobRow) /\ StillActive(a)
    /\ CommitOrGoOn(a, [tx[a] EXCEPT !.todo = QueuedRows(tx[a])])

-------------------------------------------------------------------------------
(* The calls of a lease's holder: FOR UPDATE OF t, j *)

LockOwnLease(a, r) ==
    /\ a \in Crawlers /\ tx[a].at = "idle" /\ taskRows[r].owner = a /\ LockFree(r)
    /\ Locked(a, {r})
    /\ \E late \in {FALSE, job.expired} :
          Statement(a, [Begin("fenced", late) EXCEPT !.row = r])

Fenced(a) == tx[a].at = "fenced" /\ LockFree(JobRow)

(* _reject_inactive_lease *)
RejectInactive(a) ==
    /\ Fenced(a) /\ ~StillActive(a)
    /\ CommitOrGoOn(a, Terminalizing(tx[a], tx[a].row,
                                     IF job.cancel THEN "cancelled" ELSE "permanent_failed"))

(* complete_task adds the pages it found. *)
CompleteCommits(a) ==
    /\ Fenced(a) /\ StillActive(a)
    /\ \E found \in SUBSET {q \in Rows : taskRows[q].state = "absent"} :
          Commit(a, [tx[a] EXCEPT
                        !.terminal = 1,
                        !.writes = [q \in found \cup {tx[a].row} |->
                                      IF q \in found THEN "pending" ELSE "succeeded"]], job.state)

RetryCommits(a) ==
    /\ Fenced(a) /\ StillActive(a)
    /\ Commit(a, Writing(tx[a], tx[a].row, "retry_wait"), job.state)

(* fail_task *)
FailCommits(a) ==
    /\ Fenced(a) /\ StillActive(a)
    /\ CommitOrGoOn(a, Terminalizing(tx[a], tx[a].row, "permanent_failed"))

-------------------------------------------------------------------------------
(* reap_expired_leases takes the late rows nobody has locked, and then the  *)
(* job, and works through them in one transaction.  Attempts are counted in *)
(* CrawlQueue.tla; here a task has one left or has spent them.              *)

ReapLocks ==
    LET late == {r \in Rows : taskRows[r].late /\ LockFree(r)}
    IN /\ tx["reap"].at = "idle" /\ late # {}
       /\ Locked("reap", late)
       /\ Statement("reap", [Begin("reap", job.expired) EXCEPT !.due = late])

ReapRow(r) ==
    LET t == tx["reap"]
        u == [t EXCEPT !.due = @ \ {r}]
    IN /\ r \in t.due
       /\ (t.at = "reap" /\ LockFree(JobRow)) \/ (t.at = "sweep" /\ t.todo = {})
       /\ \E spent \in BOOLEAN :
            CommitOrGoOn("reap",
              IF job.cancel THEN Terminalizing(u, r, "cancelled")
              ELSE IF t.expired \/ spent THEN Terminalizing(u, r, "permanent_failed")
                   ELSE Writing(u, r, "retry_wait"))

-------------------------------------------------------------------------------
(* request_cancel and finalize_jobs: the job first, then the queued tasks *)

ToCancel == QueuedRows(NoTx)

CancelLocks ==
    /\ tx["cancel"].at = "idle" /\ Submitted /\ LockFree(JobRow)
    /\ job.state \notin JobEnded
    /\ Locked("cancel", {JobRow})
    /\ Statement("cancel", [Begin("sweep", FALSE) EXCEPT !.todo = ToCancel])

FinalizeLocks ==
    /\ tx["finalize"].at = "idle" /\ LockFree(JobRow) /\ job.state \in {"pending", "running"}
    /\ Locked("finalize", {JobRow})
    /\ Statement("finalize", [Begin("sweep", job.expired) EXCEPT
                                 !.todo = IF job.expired THEN QueuedRows(NoTx) ELSE {}])

(* UPDATE crawl_tasks ... WHERE state IN (...), of _drain_unleased, of      *)
(* request_cancel and of finalize_jobs: row by row, each looked at again    *)
(* once it is locked; a row of the transaction itself does not wait.        *)
SweepRow(a, r) ==
    LET t == [tx[a] EXCEPT !.todo = @ \ {r}]
        u == IF a \in {"cancel", "finalize"}
             THEN [Writing(t, r, "cancelled") EXCEPT !.terminal = @ + 1]
             ELSE CountedFailure(Writing(t, r, "permanent_failed"))
    IN /\ tx[a].at = "sweep" /\ r \in tx[a].todo /\ lockedBy[r] \in {NoHolder, a}
       /\ Locked(a, {r})
       /\ Statement(a, IF Seen(t)[r] \in Queued THEN u ELSE t)

DrainCommits(a) ==
    /\ a \in Crawlers \cup {"reap"}
    /\ tx[a].at = "sweep" /\ tx[a].todo = {} /\ tx[a].due = {}
    /\ Commit(a, tx[a], EndState(tx[a]))

CancelCommits ==
    LET t == tx["cancel"]
    IN /\ t.at = "sweep" /\ t.todo = {}
       /\ taskRows' = [r \in Rows |-> IF r \in DOMAIN t.writes THEN [taskRows[r] EXCEPT !.state = "cancelled"]
                                  ELSE taskRows[r]]
       /\ job' = [job EXCEPT !.cancel = TRUE, !.terminal = @ + t.terminal,
                     !.state = IF InState(t, {"leased"}) = {} THEN "cancelled" ELSE @]
       /\ EndTx("cancel") /\ Others

(* "completed" stands for partial too, and no row is blocked here: the     *)
(* outcome in full is Outcome of CrawlQueue.tla.                            *)
FinishedOutcome(t) ==
    IF job.cancel THEN "cancelled" ELSE IF t.expired THEN "timed_out"
    ELSE IF InState(t, {"succeeded"}) # {} THEN "completed" ELSE "failed"
FinalizeOutcome(t) ==
    IF UnendedRows(t) # {} THEN job.state ELSE FinishedOutcome(t)

FinalizeCommits ==
    LET t == tx["finalize"]
    IN /\ t.at = "sweep" /\ t.todo = {}
       /\ Commit("finalize", t, FinalizeOutcome(t))

-------------------------------------------------------------------------------
(* Time, and PostgreSQL's deadlock detector: b waits for a row of a, which  *)
(* waits for the job that b has locked.                                     *)

LeaseLapses(r) ==
    /\ taskRows[r].state = "leased" /\ ~taskRows[r].late
    /\ taskRows' = [taskRows EXCEPT ![r].late = TRUE]
    /\ UNCHANGED <<job, lockedBy, tx>> /\ Others

DeadlineComes ==
    /\ Submitted /\ ~job.expired
    /\ job' = [job EXCEPT !.expired = TRUE]
    /\ UNCHANGED <<taskRows, lockedBy, tx>> /\ Others

WaitsForJob(a) == tx[a].at \in {"claim", "fenced", "reap"} /\ lockedBy[JobRow] # NoHolder
Deadlocked(a, b) ==
    /\ WaitsForJob(a) /\ lockedBy[JobRow] = b
    /\ \E r \in tx[b].todo : lockedBy[r] = a

AbortVictim(a) ==
    /\ aborts < MaxAborts
    /\ \E b \in Connections : Deadlocked(a, b) \/ Deadlocked(b, a)
    /\ aborts' = aborts + 1
    /\ EndTx(a)
    /\ UNCHANGED <<request, keyOwner, job, taskRows, added, inTime>>

JobTxNext ==
    \/ \E c \in Callers : SelectKey(c) \/ InsertKey(c) \/ CommitJob(c) \/ SubmitAborts(c)
    \/ RetryAdds
    \/ \E a \in Crawlers :
        \/ \E r \in Rows : ClaimLocks(a, r) \/ LockOwnLease(a, r)
        \/ ClaimCommits(a) \/ ClaimYields(a) \/ ClaimDrains(a)
        \/ RejectInactive(a) \/ CompleteCommits(a) \/ RetryCommits(a) \/ FailCommits(a)
    \/ \E a \in Connections :
        AbortVictim(a) \/ DrainCommits(a) \/ \E r \in Rows : SweepRow(a, r)
    \/ ReapLocks \/ (\E r \in Rows : ReapRow(r))
    \/ CancelLocks \/ CancelCommits \/ FinalizeLocks \/ FinalizeCommits
    \/ DeadlineComes \/ \E r \in Rows : LeaseLapses(r)

JobTxSpec == JobTxInit /\ [][JobTxNext]_jobTxVars

-------------------------------------------------------------------------------
(* Properties *)

(* The rows have the states of the migration, the locks an owner.     *)
JobTxTypeOK ==
    /\ job.state \in {"absent", "pending", "running"} \cup JobEnded
    /\ \A r \in Rows : taskRows[r].state \in Queued \cup Ended \cup {"absent", "leased"}
    /\ \A x \in DOMAIN lockedBy : lockedBy[x] \in Connections \cup {NoHolder}

(* All submissions with one key that return an id return the same one, and  *)
(* that job exists, whoever came first and whoever was cut off.             *)
OneJobPerKey ==
    \A c \in Callers : request[c].at = "done" => Submitted /\ request[c].id = job.id

(* terminal_count is the number of ended rows after every commit, although  *)
(* the sweeps count rows they saw before they had them locked.              *)
TerminalCountExact == job.terminal = Cardinality({r \in Rows : taskRows[r].state \in Ended})

(* A cancelled job has no queued row, whatever claims, completions and      *)
(* reapings were between their statements when it was cancelled; rows of a  *)
(* late second transaction of retry_failures apart.                         *)
CancelLeavesNoQueue == job.cancel => QueuedRows(NoTx) \subseteq added \ inTime

(* A job that was cancelled to the end has nobody working on it, whichever  *)
(* of its leases ended last and whoever ended it, and no claim that had its *)
(* task before the cancellation gets through.                               *)
CancelledIsQuiet == job.state = "cancelled" => InState(NoTx, {"leased"}) = {}

(* The lock orders differ, but only a claim can be in the way of a sweep:   *)
(* the calls that settle a page (complete, fail, retry, reap) wait for a    *)
(* job that is given back, and are never the victim of a deadlock while     *)
(* they wait.                                                               *)
SettlingNeverDeadlocks ==
    \A a, b \in Connections : Deadlocked(a, b) => tx[a].at = "claim"

(* What retry_failures added to a job that was neither cancelled nor        *)
(* finished ends with it: the finalizer never finishes a job over rows its  *)
(* second transaction was about to insert.                                  *)
RetriedInTimeEnds ==
    job.state \in JobEnded => \A r \in inTime : taskRows[r].state \in Ended

(* The same without the qualification, which the code does not promise:     *)
(* rows that come after the end stay queued in a finished job.              *)
RetriedRowsEnd ==
    job.state \in JobEnded => \A r \in added : taskRows[r].state \in Ended
===============================================================================
