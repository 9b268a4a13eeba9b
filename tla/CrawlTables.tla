----------------------------- MODULE CrawlTables -----------------------------
(***************************************************************************)
(* The PostgreSQL tables of the durable crawl queue (crawl_jobs,           *)
(* crawl_tasks, crawl_origins, crawl_origin_leases, crawl_results and      *)
(* live_sessions) and the private helpers of app/crawl/repository.py that  *)
(* every transaction is assembled from.                                    *)
(*                                                                         *)
(* Every public function of the repository is one transaction that locks   *)
(* the rows it reads, so each is one atomic action.  A NULL timestamp or   *)
(* token is 0, a row that is not there has state "absent".                 *)
(***************************************************************************)
EXTENDS Integers, FiniteSets

CONSTANTS
    Jobs, Urls, Origins, Workers,
    OriginOf,           \* normalize.origin_key of each URL
    Seed,               \* the URL each job is submitted with
    Capable,            \* the jobs whose required_capabilities a worker has
    InteractiveJobs,    \* jobs whose pages may ask for human input
    NoWorker,           \* lease_owner IS NULL
    MaxPages, MaxDepth, MaxAttempts, MaxFailures, MaxBrowserPages,
    Budget,             \* max_bytes and max_artifact_bytes of a job
    ResponseCap,        \* _response_cap of each URL
    ArtifactCap,        \* INLINE_ARTIFACT_CAP
    Timeout, LeaseSeconds, SessionTtl, MinDelay, RetryDelays,
    CircuitThreshold, CircuitSeconds,
    Reports,            \* byte counts a worker may report, per meter
    LastSubmit, MaxTime \* bounds: last submission time, end of the clock

Meters == {"bytes", "artifact"}

Tasks == [job : Jobs, url : Urls]

ASSUME TablesAssumption ==
    /\ OriginOf \in [Urls -> Origins]
    /\ Seed \in [Jobs -> Urls]
    /\ Capable \in [Workers -> SUBSET Jobs]
    /\ InteractiveJobs \subseteq Jobs
    /\ NoWorker \notin Workers
    /\ IsFiniteSet(Jobs) /\ IsFiniteSet(Urls)

ASSUME LimitsAssumption ==
    /\ MaxPages \in Nat \ {0} /\ MaxDepth \in Nat
    /\ MaxAttempts \in Nat \ {0} /\ MaxFailures \in Nat \ {0}
    /\ MaxBrowserPages \in Nat
    /\ Budget \in [Meters -> Nat]
    /\ ResponseCap \in [Urls -> Nat] /\ ArtifactCap \in Nat
    /\ Reports \subseteq [Meters -> Nat]

ASSUME TimeAssumption ==
    /\ Timeout \in Nat /\ LeaseSeconds \in Nat \ {0} /\ SessionTtl \in Nat
    /\ MinDelay \in Nat /\ RetryDelays \subseteq Nat
    /\ CircuitThreshold \in Nat \ {0} /\ CircuitSeconds \in Nat
    /\ LastSubmit \in Nat /\ MaxTime \in Nat

UnleasedStates == {"pending", "retry_wait", "waiting_input"}
FailedStates   == {"http_error", "extraction_failed", "permanent_failed"}
TerminalTaskStates == FailedStates \cup {"succeeded", "blocked_robots", "cancelled"}
TaskStates == {"absent", "leased"} \cup UnleasedStates \cup TerminalTaskStates

TerminalJobStates == {"completed", "partial", "failed", "cancelled", "timed_out"}
JobStates == {"absent", "pending", "running"} \cup TerminalJobStates

OpenSessionStates == {"waiting", "connected", "resuming"}
SessionStates == OpenSessionStates \cup {"none", "closed", "expired", "cancelled"}

VARIABLES
    now,             \* the database clock
    \* crawl_jobs
    jobState, deadline, cancelRequested, browserPages,
    count,           \* the cached counters discovered_count, terminal_count, ...
    used,            \* downloaded_bytes and artifact_bytes
    reserved,        \* reserved_bytes and reserved_artifact_bytes
    \* crawl_tasks
    taskState, depth, availableAt, attempts,
    owner, token, expires,   \* lease_owner, lease_token, lease_expires_at
    held,            \* byte_budget_reserved and artifact_budget_reserved
    \* the other tables
    origin,          \* crawl_origins
    originLeases,    \* crawl_origin_leases
    results,         \* crawl_results: the lease token a row was stored under
    session,         \* live_sessions, one row at most per task
    lastToken,       \* uuid4(): the tokens 1..lastToken have been handed out
    \* process memory, lost in a crash
    claims,          \* the ClaimedTask each worker's run_once is working on
    runners          \* the browser contexts OwnedSessionRunner retains

jobVars     == <<jobState, deadline, cancelRequested, browserPages, count, used, reserved>>
leaseVars   == <<owner, token, expires, held, originLeases>>
taskVars    == <<taskState, depth, availableAt, attempts, leaseVars>>
processVars == <<claims, runners>>
vars == <<now, jobVars, taskVars, origin, results, session, lastToken, processVars>>

-----------------------------------------------------------------------------
\* Row types.

Counters == [discovered : Nat, terminal : Nat, succeeded : Nat, failed : Nat, blocked : Nat]
OriginRows == [next_request_at : Nat, cooldown_until : Nat, consecutive_failures : Nat,
               circuit_state : {"closed", "open", "half_open"}, circuit_open_until : Nat]
OriginLeaseRows == [origin : Origins, task : Tasks, token : Nat]
SessionRows == [state : SessionStates, expires_at : Nat]
Claims == [worker : Workers, task : Tasks, token : Nat]

Nothing == [m \in Meters |-> 0]

Min2(a, b) == IF a <= b THEN a ELSE b
Max2(a, b) == IF a >= b THEN a ELSE b

TaskOf(j, u) == [job |-> j, url |-> u]
OriginKey(t) == OriginOf[t.url]
TasksIn(j, S) == {t \in Tasks : t.job = j /\ taskState[t] \in S}
Unleased(j) == TasksIn(j, UnleasedStates)

-----------------------------------------------------------------------------
\* _fenced_task: the row is leased under the token the caller presents.
Fenced(t, k) == taskState[t] = "leased" /\ token[t] = k

Expired(j) == deadline[j] <= now

\* _reject_inactive_lease turns every call on such a job into its terminalisation.
Inactive(j) == cancelRequested[j] \/ Expired(j)

\* min(remaining budget, cap) of claim_task and resume_live_session.
CapOf(u) == [m \in Meters |-> IF m = "bytes" THEN ResponseCap[u] ELSE ArtifactCap]
Allowance(t) ==
    [m \in Meters |-> Min2(Budget[m] - used[t.job][m] - reserved[t.job][m], CapOf(t.url)[m])]

Exhausted(t) == \E m \in Meters : Allowance(t)[m] <= 0

OriginBusy(o) == \E r \in originLeases : r.origin = o

\* Lease columns, origin permit and budget reservation of a fresh lease.
Lease(w, t) ==
    /\ lastToken' = lastToken + 1
    /\ taskState' = [taskState EXCEPT ![t] = "leased"]
    /\ owner' = [owner EXCEPT ![t] = w]
    /\ token' = [token EXCEPT ![t] = lastToken + 1]
    /\ expires' = [expires EXCEPT ![t] = now + LeaseSeconds]
    /\ held' = [held EXCEPT ![t] = Allowance(t)]
    /\ reserved' = [reserved EXCEPT ![t.job] = [m \in Meters |-> @[m] + Allowance(t)[m]]]
    /\ originLeases' = originLeases
            \cup {[origin |-> OriginKey(t), task |-> t, token |-> lastToken + 1]}

\* The UPDATE that sets the lease columns to NULL and the one that returns the
\* reservation to the job.
ClearLease(t) ==
    /\ owner' = [owner EXCEPT ![t] = NoWorker]
    /\ token' = [token EXCEPT ![t] = 0]
    /\ expires' = [expires EXCEPT ![t] = 0]
    /\ held' = [held EXCEPT ![t] = Nothing]
    /\ reserved' = [reserved EXCEPT ![t.job] = [m \in Meters |-> Max2(0, @[m] - held[t][m])]]

\* _release_lease also deletes the permit of this task and token.
ReleaseKeepingPermit(t) == ClearLease(t) /\ UNCHANGED originLeases
ReleaseLease(t) ==
    /\ ClearLease(t)
    /\ originLeases' = {r \in originLeases : ~(r.task = t /\ r.token = token[t])}

\* Rows of one job leave the queue together (_drain_unleased, cancellation,
\* deadline) while the others keep their state.
MoveTo(S, s) == [x \in Tasks |-> IF x \in S THEN s ELSE taskState[x]]

\* _charge_download and the usage columns of complete_task.
Charge(j, cost) == used' = [used EXCEPT ![j] = [m \in Meters |-> @[m] + cost[m]]]

\* _actual_bytes: what a report is charged, never more than was reserved.
ActualBytes(t, got) == [m \in Meters |-> IF m = "bytes" THEN Min2(held[t][m], got[m]) ELSE 0]

\* The increments of discovered_count, terminal_count, succeeded_count and
\* failed_count; no local transaction writes blocked_count.
Tally(j, discovered, terminal, succeeded, failed) ==
    count' = [count EXCEPT ![j] = [discovered |-> @.discovered + discovered,
                                   terminal |-> @.terminal + terminal,
                                   succeeded |-> @.succeeded + succeeded,
                                   failed |-> @.failed + failed,
                                   blocked |-> @.blocked]]

\* _enforce_failure_limit, evaluated once the failing task has been counted.
DrainedByFailure(j) == IF count[j].failed + 1 >= MaxFailures THEN Unleased(j) ELSE {}

\* _terminalize, with the rows the same transaction then drains and the bytes
\* it charges.  A cancelled job finishes with its last lease.
Terminalize(t, s, drained, cost) ==
    LET j == t.job
        n == Cardinality(drained)
        failures == n + (IF s = "permanent_failed" THEN 1 ELSE 0)
    IN /\ taskState' = [MoveTo(drained, "permanent_failed") EXCEPT ![t] = s]
       /\ ReleaseLease(t)
       /\ Charge(j, cost)
       /\ Tally(j, 0, 1 + n, 0, failures)
       /\ jobState' = IF cancelRequested[j] /\ TasksIn(j, {"leased"}) \subseteq {t}
                      THEN [jobState EXCEPT ![j] = "cancelled"] ELSE jobState
=============================================================================
