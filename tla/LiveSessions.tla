----------------------------- MODULE LiveSessions -----------------------------
(***************************************************************************)
(* Human-input sessions: app/acquisition/sessions.py, resume_live_session  *)
(* of the repository and the OwnedSessionRunner that keeps the browser     *)
(* context of a parked task outside the worker's claim capacity.           *)
(*                                                                         *)
(* A runner is a record of process memory: the worker it lives in, the     *)
(* task its session parked, and the token resume_live_session gave it      *)
(* (0 until then).                                                         *)
(***************************************************************************)
EXTENDS CrawlTables

SetSession(t, s) == session' = [session EXCEPT ![t] = [state |-> s, expires_at |-> @.expires_at]]

\* wait_for_input_local: the lease is exchanged for a session that ends with
\* the job at the latest.  live_sessions.task_id is unique, so a task that had
\* a session before gets an error instead, and the worker fails it.
WaitForInput(c) ==
    LET t == c.task
        j == t.job
    IN /\ j \in InteractiveJobs
       /\ Fenced(t, c.token) /\ owner[t] = c.worker /\ ~Inactive(j)
       /\ session[t].state = "none"
       /\ session' = [session EXCEPT ![t] =
                        [state |-> "waiting", expires_at |-> Min2(now + SessionTtl, deadline[j])]]
       /\ taskState' = [taskState EXCEPT ![t] = "waiting_input"]
       /\ ReleaseLease(t)
       /\ claims' = claims \ {c}
       /\ runners' = runners \cup {[worker |-> c.worker, task |-> t, token |-> 0]}
       /\ UNCHANGED <<now, jobState, deadline, cancelRequested, browserPages, count, used,
                      depth, availableAt, attempts, origin, results, lastToken>>

\* The session's row accepts the control client.
Live(t) == session[t].state \in {"waiting", "connected"} /\ session[t].expires_at > now

\* touch: the control client is there.
Touch(t) ==
    /\ Live(t) /\ session[t].state = "waiting"
    /\ SetSession(t, "connected")
    /\ UNCHANGED <<now, jobVars, taskVars, origin, results, lastToken, processVars>>

\* request_resume: the human is done.
RequestResume(t) ==
    /\ Live(t)
    /\ SetSession(t, "resuming")
    /\ UNCHANGED <<now, jobVars, taskVars, origin, results, lastToken, processVars>>

\* resume_live_session: the parked task is leased again, the attempt goes on.
ResumeGuardIgnoringPermits(r) ==
    LET t == r.task
    IN /\ r.token = 0
       /\ session[t].state = "resuming" /\ session[t].expires_at > now
       /\ taskState[t] = "waiting_input" /\ ~Inactive(t.job)
       /\ ~Exhausted(t)
ResumeGuard(r) ==
    LET t == r.task
    IN /\ r.token = 0
       /\ session[t].state = "resuming" /\ session[t].expires_at > now
       /\ taskState[t] = "waiting_input" /\ ~Inactive(t.job)
       /\ ~OriginBusy(OriginKey(t)) /\ ~Exhausted(t)

ResumeLiveSession(r) ==
    /\ ResumeGuard(r)
    /\ Lease(r.worker, r.task)
    /\ runners' = (runners \ {r}) \cup {[worker |-> r.worker, task |-> r.task, token |-> lastToken + 1]}
    /\ UNCHANGED <<now, jobState, deadline, cancelRequested, browserPages, count, used, depth,
                   availableAt, attempts, origin, results, session, claims>>

\* close: ends the session and the task it parked.  A leased task is ended too
\* when the user cancels or when the lease is of the closing runner's worker.
TerminalizedAlways(t, reason, w) == TRUE
Terminalized(t, reason, w) ==
    \/ taskState[t] = "waiting_input"
    \/ taskState[t] = "leased" /\ (reason = "cancelled" \/ owner[t] = w)

\* DELETE FROM crawl_origin_leases WHERE task_id = ..., whatever the token.  A
\* parked task has no permit and holds nothing: for it only the columns are set.
CloseLease(t) ==
    /\ ClearLease(t)
    /\ originLeases' = {r \in originLeases : r.task # t}

CloseSession(t, reason, w) ==
    /\ session[t].state \in OpenSessionStates
    /\ SetSession(t, IF taskState[t] = "succeeded" THEN "closed" ELSE reason)
    /\ IF Terminalized(t, reason, w)
       THEN /\ taskState' = [taskState EXCEPT ![t] =
                                IF reason = "cancelled" THEN "cancelled" ELSE "permanent_failed"]
            /\ CloseLease(t)
            /\ Tally(t.job, 0, 1, 0, IF reason = "cancelled" THEN 0 ELSE 1)
       ELSE UNCHANGED <<taskState, leaseVars, reserved, count>>
    /\ UNCHANGED <<now, jobState, deadline, cancelRequested, browserPages, used, depth,
                   availableAt, attempts, origin, results, lastToken, claims>>

\* cancel, by the user.
CancelSession(t) == CloseSession(t, "cancelled", NoWorker) /\ UNCHANGED runners

\* _local_loop's except clause and OwnedSessionRunner.close: anything that goes
\* wrong, a completion that lost its fence included, closes the session.
RunnerFails(r) ==
    /\ CloseSession(r.task, "expired", r.worker)
    /\ runners' = runners \ {r}

\* close_completed, after complete_task answered TRUE.
CloseCompleted(r) ==
    /\ r.token # 0 /\ results[r.task] = r.token
    /\ session[r.task].state = "resuming"
    /\ SetSession(r.task, "closed")
    /\ runners' = runners \ {r}
    /\ UNCHANGED <<now, jobVars, taskVars, origin, results, lastToken, claims>>

\* The loop sees a closed session, or the process dies with its contexts.
RunnerEnds(r) ==
    /\ runners' = runners \ {r}
    /\ UNCHANGED <<now, jobVars, taskVars, origin, results, session, lastToken, claims>>

\* expire_due for one session, in the maintenance loop.
ExpireSessionOnly(t) ==
    /\ session[t].state \in OpenSessionStates /\ session[t].expires_at <= now
    /\ SetSession(t, "expired")
    /\ UNCHANGED <<now, jobVars, taskVars, origin, results, lastToken, processVars>>
ExpireParkedOnly(t) ==
    /\ session[t].state \in OpenSessionStates /\ session[t].expires_at <= now
    /\ taskState[t] = "waiting_input"
    /\ SetSession(t, "expired")
    /\ taskState' = [taskState EXCEPT ![t] = "permanent_failed"]
    /\ Tally(t.job, 0, 1, 0, 1)
    /\ UNCHANGED <<now, jobState, deadline, cancelRequested, browserPages, used, reserved,
                   depth, availableAt, attempts, leaseVars, origin, results, lastToken,
                   processVars>>
ExpireSession(t) ==
    LET parked == taskState[t] = "waiting_input"
    IN /\ session[t].state \in OpenSessionStates /\ session[t].expires_at <= now
       /\ SetSession(t, "expired")
       /\ taskState' = IF parked THEN [taskState EXCEPT ![t] = "permanent_failed"] ELSE taskState
       /\ IF parked THEN Tally(t.job, 0, 1, 0, 1) ELSE UNCHANGED count
       /\ UNCHANGED <<now, jobState, deadline, cancelRequested, browserPages, used, reserved,
                      depth, availableAt, attempts, leaseVars, origin, results, lastToken,
                      processVars>>
=============================================================================
