------------------------------ MODULE CrawlQueue ------------------------------
(***************************************************************************)
(* The transactions of app/crawl/repository.py and the processes that      *)
(* issue them: workers (CrawlWorker.run_once), API clients (submit,        *)
(* cancel) and the maintenance loop (reap, finalize).                      *)
(*                                                                         *)
(* A worker call that finds its fence gone changes nothing and ends        *)
(* run_once, which is EndRun.  EndRun is also the crash of a worker and    *)
(* may come at any time, so the claim a process still remembers can be     *)
(* older than the lease in the table: these are the stale workers, and a   *)
(* call repeated after a lost answer is such a call too.                   *)
(***************************************************************************)
EXTENDS CrawlTables

\* submit_job: one job and its seed task.  A job identity is used once.
SubmitJob(j) ==
    LET t == TaskOf(j, Seed[j])
    IN /\ jobState[j] = "absent" /\ now <= LastSubmit
       /\ jobState' = [jobState EXCEPT ![j] = "pending"]
       /\ deadline' = [deadline EXCEPT ![j] = now + Timeout]
       /\ Tally(j, 1, 0, 0, 0)
       /\ taskState' = [taskState EXCEPT ![t] = "pending"]
       /\ availableAt' = [availableAt EXCEPT ![t] = now]
       /\ UNCHANGED <<now, cancelRequested, browserPages, used, reserved, depth, attempts,
                      leaseVars, origin, results, session, lastToken, processVars>>

-----------------------------------------------------------------------------
\* claim_task.  The query takes the first eligible row that no concurrent
\* transaction has locked (FOR UPDATE SKIP LOCKED): any eligible row.

Idle(w) == \A c \in claims : c.worker # w

Eligible(w, t) ==
    /\ Idle(w) /\ t.job \in Capable[w]
    /\ taskState[t] \in {"pending", "retry_wait"} /\ availableAt[t] <= now
    /\ ~Inactive(t.job)

BlockedUntil(o) ==
    IF origin[o].circuit_state = "open"
    THEN Max2(origin[o].cooldown_until, origin[o].circuit_open_until)
    ELSE origin[o].cooldown_until

Spaced(row, at) ==
    [next_request_at |-> at, cooldown_until |-> row.cooldown_until,
     consecutive_failures |-> row.consecutive_failures,
     circuit_state |-> row.circuit_state, circuit_open_until |-> row.circuit_open_until]

\* An open circuit whose time has passed lets a probe through.
HalfOpen(row) ==
    [next_request_at |-> row.next_request_at, cooldown_until |-> row.cooldown_until,
     consecutive_failures |-> row.consecutive_failures,
     circuit_state |-> IF row.circuit_state = "open" THEN "half_open" ELSE row.circuit_state,
     circuit_open_until |-> row.circuit_open_until]
HalfOpened(o) == [origin EXCEPT ![o] = HalfOpen(origin[o])]

\* Cooldown, circuit breaker or request spacing: the task is put off.
DeferClaim(w, t) ==
    LET o == OriginKey(t)
        blocked == BlockedUntil(o) > now
    IN /\ Eligible(w, t)
       /\ blocked \/ origin[o].next_request_at > now
       /\ availableAt' = [availableAt EXCEPT ![t] =
                             IF blocked THEN BlockedUntil(o) ELSE origin[o].next_request_at]
       /\ origin' = IF blocked THEN origin ELSE HalfOpened(o)
       /\ UNCHANGED <<now, jobVars, taskState, depth, attempts, leaseVars, results, session,
                      lastToken, processVars>>

OriginReady(o) == BlockedUntil(o) <= now /\ origin[o].next_request_at <= now

\* The origin has a lease already: the claim gives up, the circuit stays half open.
BusyClaim(w, t) ==
    LET o == OriginKey(t)
    IN /\ Eligible(w, t) /\ OriginReady(o) /\ OriginBusy(o)
       /\ origin[o].circuit_state = "open"
       /\ origin' = HalfOpened(o)
       /\ UNCHANGED <<now, jobVars, taskVars, results, session, lastToken, processVars>>

\* No budget is left: _drain_unleased fails everything the job has queued.
ExhaustedClaim(w, t) ==
    LET j == t.job
        n == Cardinality(Unleased(j))
    IN /\ Eligible(w, t) /\ OriginReady(OriginKey(t)) /\ ~OriginBusy(OriginKey(t))
       /\ Exhausted(t)
       /\ taskState' = MoveTo(Unleased(j), "permanent_failed")
       /\ Tally(j, 0, n, 0, n)
       /\ origin' = HalfOpened(OriginKey(t))
       /\ UNCHANGED <<now, jobState, deadline, cancelRequested, browserPages, used, reserved,
                      depth, availableAt, attempts, leaseVars, results, session, lastToken,
                      processVars>>

ClaimGuard(w, t) ==
    /\ Eligible(w, t) /\ OriginReady(OriginKey(t)) /\ ~OriginBusy(OriginKey(t))
    /\ ~Exhausted(t)

ClaimTask(w, t) ==
    LET j == t.job
        o == OriginKey(t)
    IN /\ ClaimGuard(w, t)
       /\ Lease(w, t)
       /\ attempts' = [attempts EXCEPT ![t] = @ + 1]
       /\ jobState' = IF jobState[j] = "pending" THEN [jobState EXCEPT ![j] = "running"]
                      ELSE jobState
       /\ origin' = [origin EXCEPT ![o] = HalfOpen(Spaced(@, now + MinDelay))]
       /\ claims' = claims \cup {[worker |-> w, task |-> t, token |-> lastToken + 1]}
       /\ UNCHANGED <<now, deadline, cancelRequested, browserPages, count, used, depth,
                      availableAt, results, session, runners>>

-----------------------------------------------------------------------------
\* Calls of the process that holds claim c.

\* heartbeat.  It renews an expired lease the reaper has not met yet.
Heartbeat(c) ==
    /\ Fenced(c.task, c.token) /\ ~Inactive(c.task.job)
    /\ expires' = [expires EXCEPT ![c.task] = now + LeaseSeconds]
    /\ UNCHANGED <<now, jobVars, taskState, depth, availableAt, attempts, owner, token, held,
                   originLeases, origin, results, session, lastToken, processVars>>

\* The first thing heartbeat, reserve_browser_navigation, complete_task,
\* retry_task, fail_task, block_robots and the reaper do with a fenced task:
\* on a cancelled or expired job they end it.
RejectInactiveLease(t) ==
    LET j == t.job
    IN /\ Inactive(j)
       /\ IF cancelRequested[j]
          THEN Terminalize(t, "cancelled", {}, Nothing)
          ELSE Terminalize(t, "permanent_failed", DrainedByFailure(j), Nothing)
       /\ UNCHANGED <<now, deadline, cancelRequested, browserPages, depth, availableAt,
                      attempts, origin, results, session, lastToken, processVars>>

RejectedCall(c) == Fenced(c.task, c.token) /\ RejectInactiveLease(c.task)

\* reserve_browser_navigation.
ReserveBrowserNavigation(c) ==
    LET j == c.task.job
    IN /\ Fenced(c.task, c.token) /\ ~Inactive(j)
       /\ browserPages[j] < MaxBrowserPages
       /\ browserPages' = [browserPages EXCEPT ![j] = @ + 1]
       /\ UNCHANGED <<now, jobState, deadline, cancelRequested, count, used, reserved,
                      taskVars, origin, results, session, lastToken, processVars>>

\* _insert_discovered: of the links on the page, those of the same origin that
\* the job has not seen, up to the page limit, in the order the page lists them.
DiscoverableAgain(t, links) == {u \in links : OriginOf[u] = OriginKey(t)}
Discoverable(t, links) ==
    {u \in links : OriginOf[u] = OriginKey(t) /\ taskState[TaskOf(t.job, u)] = "absent"}
RoomUncounted(t) == IF depth[t] + 1 > MaxDepth THEN 0 ELSE MaxPages
Room(t) == IF depth[t] + 1 > MaxDepth THEN 0 ELSE Max2(0, MaxPages - count[t.job].discovered)
Accepted(t, links) ==
    {A \in SUBSET Discoverable(t, links) :
        Cardinality(A) = Min2(Room(t), Cardinality(Discoverable(t, links)))}

OverBudget(t, got) == \E m \in Meters : got[m] > held[t][m]

\* complete_task, when the report exceeds the reservation.
StoreOverBudget(c, got) ==
    LET t == c.task
    IN /\ Fenced(t, c.token) /\ ~Inactive(t.job) /\ OverBudget(t, got)
       /\ results' = [results EXCEPT ![t] = c.token]
       /\ Terminalize(t, "permanent_failed", Unleased(t.job), ActualBytes(t, got))
       /\ UNCHANGED <<now, deadline, cancelRequested, browserPages, depth, availableAt,
                      attempts, origin, session, lastToken, processVars>>
CompleteOverBudget(c, got) ==
    LET t == c.task
    IN /\ Fenced(t, c.token) /\ ~Inactive(t.job) /\ OverBudget(t, got)
       /\ Terminalize(t, "permanent_failed", Unleased(t.job), ActualBytes(t, got))
       /\ UNCHANGED <<now, deadline, cancelRequested, browserPages, depth, availableAt,
                      attempts, origin, results, session, lastToken, processVars>>

\* complete_task: the result, the discovered tasks, the released lease, the
\* closed circuit and the counters in one transaction.
CompleteTask(c, got, links) ==
    LET t == c.task
        j == t.job
    IN /\ Fenced(t, c.token) /\ ~Inactive(j) /\ ~OverBudget(t, got)
       /\ results[t] = 0
       /\ results' = [results EXCEPT ![t] = c.token]
       /\ \E A \in Accepted(t, links) :
            LET new == {TaskOf(j, u) : u \in A}
            IN /\ taskState' = [MoveTo(new, "pending") EXCEPT ![t] = "succeeded"]
               /\ depth' = [x \in Tasks |-> IF x \in new THEN depth[t] + 1 ELSE depth[x]]
               /\ availableAt' = [x \in Tasks |-> IF x \in new THEN now ELSE availableAt[x]]
               /\ Tally(j, Cardinality(A), 1, 1, 0)
       /\ ReleaseLease(t)
       /\ Charge(j, got)
       /\ origin' = [origin EXCEPT ![OriginKey(t)] =
                        [next_request_at |-> @.next_request_at, cooldown_until |-> 0,
                         consecutive_failures |-> 0, circuit_state |-> "closed",
                         circuit_open_until |-> 0]]
       /\ UNCHANGED <<now, jobState, deadline, cancelRequested, browserPages, attempts,
                      session, lastToken, processVars>>

\* retry_task with no attempt left, and fail_task.
FailTask(c, got) ==
    LET t == c.task
    IN /\ Fenced(t, c.token) /\ ~Inactive(t.job)
       /\ Terminalize(t, "permanent_failed", DrainedByFailure(t.job), ActualBytes(t, got))
       /\ UNCHANGED <<now, deadline, cancelRequested, browserPages, depth, availableAt,
                      attempts, origin, results, session, lastToken, processVars>>

\* The task returns to the queue; its lease is given back.
Requeue(t, at) ==
    /\ taskState' = [taskState EXCEPT ![t] = "retry_wait"]
    /\ availableAt' = [availableAt EXCEPT ![t] = at]
    /\ ReleaseLease(t)

AttemptsLeft(t) == attempts[t] < MaxAttempts

\* retry_task.  Every retryable FailureDecision has class transport or http,
\* which are the classes that count towards the circuit breaker.
RetryTask(c, got, delay) ==
    LET t == c.task
        at == now + delay
        o == OriginKey(t)
        failures == origin[o].consecutive_failures + 1
        trips == failures >= CircuitThreshold
    IN /\ Fenced(t, c.token) /\ ~Inactive(t.job) /\ AttemptsLeft(t)
       /\ Requeue(t, at)
       /\ Charge(t.job, ActualBytes(t, got))
       /\ origin' = [origin EXCEPT ![o] =
            [next_request_at |-> Max2(@.next_request_at, at),
             cooldown_until |-> Max2(@.cooldown_until, at),
             consecutive_failures |-> failures,
             circuit_state |-> IF trips THEN "open" ELSE @.circuit_state,
             circuit_open_until |-> IF trips THEN now + CircuitSeconds
                                    ELSE @.circuit_open_until]]
       /\ UNCHANGED <<now, jobState, deadline, cancelRequested, browserPages, count, depth,
                      attempts, results, session, lastToken, processVars>>

\* block_robots, whatever the task's depth.
BlockAsBlocked(c) ==
    LET t == c.task
    IN /\ Fenced(t, c.token) /\ ~Inactive(t.job)
       /\ Terminalize(t, "blocked", {}, Nothing)
       /\ UNCHANGED <<now, deadline, cancelRequested, browserPages, depth, availableAt,
                      attempts, origin, results, session, lastToken, processVars>>
BlockRobots(c) ==
    LET t == c.task
    IN /\ Fenced(t, c.token) /\ ~Inactive(t.job)
       /\ Terminalize(t, "blocked_robots", {}, Nothing)
       /\ UNCHANGED <<now, deadline, cancelRequested, browserPages, depth, availableAt,
                      attempts, origin, results, session, lastToken, processVars>>

\* run_once returns or the process dies: what it knew of its claim is gone.
EndRun(c) ==
    /\ claims' = claims \ {c}
    /\ UNCHANGED <<now, jobVars, taskVars, origin, results, session, lastToken, runners>>

-----------------------------------------------------------------------------
\* request_cancel.  Queued tasks and their sessions end at once; the job ends
\* at once unless a task is leased.
CancelOnlyJob(j) ==
    /\ jobState[j] \in {"pending", "running"}
    /\ cancelRequested' = [cancelRequested EXCEPT ![j] = TRUE]
    /\ jobState' = [jobState EXCEPT ![j] = "cancelled"]
    /\ taskState' = MoveTo(Unleased(j), "cancelled")
    /\ Tally(j, 0, Cardinality(Unleased(j)), 0, 0)
    /\ UNCHANGED <<now, deadline, browserPages, used, reserved, depth, availableAt, attempts,
                   leaseVars, origin, results, session, lastToken, processVars>>
RequestCancel(j) ==
    /\ jobState[j] \in {"pending", "running"}
    /\ cancelRequested' = [cancelRequested EXCEPT ![j] = TRUE]
    /\ jobState' = IF TasksIn(j, {"leased"}) # {} THEN jobState
                   ELSE [jobState EXCEPT ![j] = "cancelled"]
    /\ taskState' = MoveTo(Unleased(j), "cancelled")
    /\ Tally(j, 0, Cardinality(Unleased(j)), 0, 0)
    /\ session' = [t \in Tasks |->
                      IF t \in Unleased(j) /\ session[t].state \in OpenSessionStates
                      THEN [state |-> "cancelled", expires_at |-> session[t].expires_at] ELSE session[t]]
    /\ UNCHANGED <<now, deadline, browserPages, used, reserved, depth, availableAt, attempts,
                   leaseVars, origin, results, lastToken, processVars>>

\* finalize_jobs for one of the job rows it could lock.  At the deadline the
\* queue is emptied first; the job ends when nothing is left to do.
OutcomeIgnoringFailures(j, S) ==
    CASE cancelRequested[j] -> "cancelled"
      [] Expired(j) /\ ~cancelRequested[j] -> "timed_out"
      [] OTHER -> IF \E t \in Tasks : t.job = j /\ S[t] \in {"succeeded", "blocked_robots"}
                  THEN "completed" ELSE "failed"
Outcome(j, S) ==
    LET has(kind) == \E t \in Tasks : t.job = j /\ S[t] \in kind
    IN CASE cancelRequested[j] -> "cancelled"
         [] Expired(j) /\ ~cancelRequested[j] -> "timed_out"
         [] OTHER -> IF has({"succeeded"}) \/ (has({"blocked_robots"}) /\ ~has(FailedStates))
                     THEN IF has({"succeeded"}) /\ has(FailedStates) THEN "partial"
                          ELSE "completed"
                     ELSE "failed"

FinalizeJob(j) ==
    LET late == IF Expired(j) THEN Unleased(j) ELSE {}
        after == MoveTo(late, "cancelled")
        drained == \A t \in Tasks : t.job = j => after[t] \in TerminalTaskStates \cup {"absent"}
    IN /\ jobState[j] \in {"pending", "running"}
       /\ late # {} \/ drained
       /\ taskState' = after
       /\ Tally(j, 0, Cardinality(late), 0, 0)
       /\ jobState' = IF drained THEN [jobState EXCEPT ![j] = Outcome(j, after)] ELSE jobState
       /\ UNCHANGED <<now, deadline, cancelRequested, browserPages, used, reserved, depth,
                      availableAt, attempts, leaseVars, origin, results, session, lastToken,
                      processVars>>

\* reap_expired_leases for one of the expired leases it could lock.  Two leased
\* tasks belong to different jobs, so the order of the loop does not matter.
LeaseExpired(t) == taskState[t] = "leased" /\ expires[t] <= now

ReapInactive(t) == LeaseExpired(t) /\ RejectInactiveLease(t)

ReapExhausted(t) ==
    /\ LeaseExpired(t) /\ ~Inactive(t.job) /\ ~AttemptsLeft(t)
    /\ Terminalize(t, "permanent_failed", DrainedByFailure(t.job), Nothing)
    /\ UNCHANGED <<now, deadline, cancelRequested, browserPages, depth, availableAt, attempts,
                   origin, results, session, lastToken, processVars>>

ReapRetry(t) ==
    /\ LeaseExpired(t) /\ ~Inactive(t.job) /\ AttemptsLeft(t)
    /\ Requeue(t, now)
    /\ UNCHANGED <<now, jobState, deadline, cancelRequested, browserPages, count, used, depth,
                   attempts, origin, results, session, lastToken, processVars>>

ReapActiveOnly(t) == ReapExhausted(t) \/ ReapRetry(t)
ReapLease(t) == ReapInactive(t) \/ ReapExhausted(t) \/ ReapRetry(t)

Tick == now < MaxTime /\ now' = now + 1
        /\ UNCHANGED <<jobVars, taskVars, origin, results, session, lastToken, processVars>>
=============================================================================
