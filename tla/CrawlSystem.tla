----------------------------- MODULE CrawlSystem -----------------------------
(***************************************************************************)
(* The durable crawl: workers, API clients, session runners and the        *)
(* maintenance loop over the tables they share, with the properties that   *)
(* make the queue correct.                                                 *)
(***************************************************************************)
EXTENDS CrawlQueue, LiveSessions

Init ==
    /\ now = 0
    /\ jobState = [j \in Jobs |-> "absent"]
    /\ deadline = [j \in Jobs |-> 0]
    /\ cancelRequested = [j \in Jobs |-> FALSE]
    /\ browserPages = [j \in Jobs |-> 0]
    /\ count = [j \in Jobs |-> [discovered |-> 0, terminal |-> 0, succeeded |-> 0,
                                failed |-> 0, blocked |-> 0]]
    /\ used = [j \in Jobs |-> Nothing]
    /\ reserved = [j \in Jobs |-> Nothing]
    /\ taskState = [t \in Tasks |-> "absent"]
    /\ depth = [t \in Tasks |-> 0]
    /\ availableAt = [t \in Tasks |-> 0]
    /\ attempts = [t \in Tasks |-> 0]
    /\ owner = [t \in Tasks |-> NoWorker]
    /\ token = [t \in Tasks |-> 0]
    /\ expires = [t \in Tasks |-> 0]
    /\ held = [t \in Tasks |-> Nothing]
    /\ origin = [o \in Origins |->
                   [next_request_at |-> 0, cooldown_until |-> 0, consecutive_failures |-> 0,
                    circuit_state |-> "closed", circuit_open_until |-> 0]]
    /\ originLeases = {}
    /\ results = [t \in Tasks |-> 0]
    /\ session = [t \in Tasks |-> [state |-> "none", expires_at |-> 0]]
    /\ lastToken = 0
    /\ claims = {}
    /\ runners = {}

ClientStep ==
    \E j \in Jobs : SubmitJob(j) \/ RequestCancel(j)

ClaimStep ==
    \E w \in Workers, t \in Tasks :
        DeferClaim(w, t) \/ BusyClaim(w, t) \/ ExhaustedClaim(w, t) \/ ClaimTask(w, t)

\* complete_task is called by run_once and, on a resumed session, by its runner.
CompleteStep ==
    \E c \in claims \cup runners, got \in Reports :
        \/ CompleteOverBudget(c, got)
        \/ \E links \in SUBSET Urls : CompleteTask(c, got, links)

WorkerStep ==
    \E c \in claims :
        \/ Heartbeat(c)
        \/ ReserveBrowserNavigation(c)
        \/ \E got \in Reports : FailTask(c, got) \/ \E d \in RetryDelays : RetryTask(c, got, d)
        \/ BlockRobots(c)
        \/ WaitForInput(c)
        \/ EndRun(c)

RejectStep == \E c \in claims \cup runners : RejectedCall(c)

RunnerStep ==
    \E r \in runners : ResumeLiveSession(r) \/ CloseCompleted(r) \/ RunnerFails(r) \/ RunnerEnds(r)

HumanStep ==
    \E t \in Tasks : Touch(t) \/ RequestResume(t) \/ CancelSession(t)

\* _run_maintenance: reap_expired_leases, expire_due, finalize_jobs.
MaintenanceStep ==
    \/ \E t \in Tasks : ReapLease(t) \/ ExpireSession(t)
    \/ \E j \in Jobs : FinalizeJob(j)

Next == ClientStep \/ ClaimStep \/ CompleteStep \/ WorkerStep \/ RejectStep
            \/ RunnerStep \/ HumanStep \/ MaintenanceStep \/ Tick

Spec == Init /\ [][Next]_vars

\* Only the clock and the maintenance loop, which runs every ten seconds, are
\* sure to go on.  Workers, clients and runners may stop for good.
FairSpec ==
    /\ Spec
    /\ WF_vars(Tick)
    /\ \A t \in Tasks : WF_vars(ReapLease(t)) /\ WF_vars(ExpireSession(t))
    /\ \A j \in Jobs : WF_vars(FinalizeJob(j))

-----------------------------------------------------------------------------
\* Every column has its type and every counter is a natural number.
TypeOK ==
    /\ now \in Nat
    /\ jobState \in [Jobs -> JobStates]
    /\ deadline \in [Jobs -> Nat]
    /\ cancelRequested \in [Jobs -> BOOLEAN]
    /\ browserPages \in [Jobs -> Nat]
    /\ count \in [Jobs -> Counters]
    /\ used \in [Jobs -> [Meters -> Nat]]
    /\ reserved \in [Jobs -> [Meters -> Nat]]
    /\ taskState \in [Tasks -> TaskStates]
    /\ depth \in [Tasks -> Nat]
    /\ availableAt \in [Tasks -> Nat]
    /\ attempts \in [Tasks -> Nat]
    /\ owner \in [Tasks -> Workers \cup {NoWorker}]
    /\ token \in [Tasks -> Nat]
    /\ expires \in [Tasks -> Nat]
    /\ held \in [Tasks -> [Meters -> Nat]]
    /\ origin \in [Origins -> OriginRows]
    /\ originLeases \subseteq OriginLeaseRows
    /\ results \in [Tasks -> Nat]
    /\ session \in [Tasks -> SessionRows]
    /\ lastToken \in Nat
    /\ claims \subseteq Claims
    /\ runners \subseteq Claims

\* The origin permits are exactly those of the leased tasks, under the tokens
\* the tasks carry: no path leaks a permit (which would block the origin for
\* good, nothing deletes an orphan) or leases without one.
PermitsMatchLeases ==
    originLeases = {[origin |-> OriginKey(t), task |-> t, token |-> token[t]] :
                        t \in {x \in Tasks : taskState[x] = "leased"}}

\* Whatever jobs and workers there are, an origin has one request in progress
\* (docs: "No origin exceeds configured concurrent top-level requests").
OneLeasePerOrigin ==
    \A t, x \in Tasks :
        taskState[t] = "leased" /\ taskState[x] = "leased" /\ OriginKey(t) = OriginKey(x)
            => t = x

\* A job never leaves the origin of its seed, so its leases share one permit.
OneOriginPerJob ==
    \A t \in Tasks : taskState[t] # "absent" => OriginKey(t) = OriginOf[Seed[t.job]]

\* A task that is not leased holds no reservation and no token.
UnleasedHoldsNothing ==
    \A t \in Tasks : taskState[t] # "leased" => held[t] = Nothing /\ token[t] = 0

\* Tokens are handed out once: whatever a process or a row carries is an old one.
TokensAreIssued ==
    /\ \A t \in Tasks : token[t] <= lastToken /\ (taskState[t] = "leased" => token[t] # 0)
    /\ \A c \in claims \cup runners : c.token <= lastToken

\* At most one process can pass the fence of a task: a worker that lost its
\* lease and the one that has it now never both can complete it.
SingleWriter ==
    \A c, d \in claims \cup runners :
        c.task = d.task /\ Fenced(c.task, c.token) /\ Fenced(d.task, d.token) => c = d

\* What a job has spent and what its leases may still spend fit its budget.
BudgetHolds == \A j \in Jobs, m \in Meters : used[j][m] + reserved[j][m] <= Budget[m]

\* A job's reservation is that of its leased task, and nothing is reserved when
\* it has none: no release is lost or done twice behind GREATEST(0, ...).
ReservationsExact ==
    \A j \in Jobs :
        /\ \A t \in TasksIn(j, {"leased"}) : reserved[j] = held[t]
        /\ TasksIn(j, {"leased"}) = {} => reserved[j] = Nothing

\* The inductive invariant of the lease protocol: these properties hold each
\* other up.  OneOriginPerJob makes the single permit of an origin a single
\* lease per job, so that the job's reservation is one task's.
LeaseInv ==
    /\ PermitsMatchLeases /\ OneLeasePerOrigin /\ OneOriginPerJob
    /\ UnleasedHoldsNothing /\ TokensAreIssued /\ SingleWriter
    /\ ReservationsExact /\ BudgetHolds

\* The cached counters are the numbers reconcile_job would compute (the docs'
\* "Job counters reconcile exactly with task rows"), blocked_count apart.
CountersReconcile ==
    \A j \in Jobs :
        /\ count[j].discovered = Cardinality(TasksIn(j, TaskStates \ {"absent"}))
        /\ count[j].terminal = Cardinality(TasksIn(j, TerminalTaskStates))
        /\ count[j].succeeded = Cardinality(TasksIn(j, {"succeeded"}))
        /\ count[j].failed = Cardinality(TasksIn(j, FailedStates))

\* The page limit holds for the rows themselves, however discovery interleaves.
PageLimit == \A j \in Jobs : Cardinality(TasksIn(j, TaskStates \ {"absent"})) <= MaxPages

\* No task is started more often than max_attempts, reaped leases included.
AttemptsBounded == \A t \in Tasks : attempts[t] <= MaxAttempts

\* A result is stored exactly for the tasks that succeeded.
ResultIffSucceeded == \A t \in Tasks : results[t] # 0 <=> taskState[t] = "succeeded"

\* A finished job has nothing queued, leased or parked that could still run.
FinishedJobIsDrained ==
    \A t \in Tasks : jobState[t.job] \in TerminalJobStates
        => taskState[t] \notin UnleasedStates \cup {"leased"}

\* crawl_tasks.job_id references a job.
TasksHaveJob ==
    /\ \A t \in Tasks : jobState[t.job] = "absent" => taskState[t] = "absent"
    /\ \A j \in Jobs : jobState[j] = "absent" => ~cancelRequested[j]

\* A cancellation leaves nothing queued behind the leases it waits for, and
\* nothing is queued again while it waits.
CancelledHasNoQueue ==
    \A t \in Tasks : cancelRequested[t.job] => taskState[t] \notin UnleasedStates

\* The inductive invariant behind FinishedJobIsDrained: the last lease of a
\* cancelled job finishes the job, so nothing may be queued at that moment.
DrainInv == FinishedJobIsDrained /\ TasksHaveJob /\ CancelledHasNoQueue

\* The final state tells the truth about the tasks (docs: "Partial and failed
\* jobs are never reported as completed") and about the cancellation.
OutcomeIsTrue ==
    \A j \in Jobs :
        /\ jobState[j] = "completed" => TasksIn(j, FailedStates) = {}
        /\ jobState[j] = "partial" => /\ TasksIn(j, {"succeeded"}) # {}
                                      /\ TasksIn(j, FailedStates) # {}
        /\ jobState[j] = "failed" => TasksIn(j, {"succeeded"}) = {}
        /\ jobState[j] \in TerminalJobStates => (jobState[j] = "cancelled" <=> cancelRequested[j])

\* A parked task always has an open session, so that expire_due finds it (its
\* docstring: "so no session can strand a job").
ParkedHasSession ==
    \A t \in Tasks : taskState[t] = "waiting_input" => session[t].state \in OpenSessionStates

\* Once the failure limit is reached nothing of the job stays queued.  The jobs
\* that may park pages are excepted: expire_due and close count a failure and
\* leave the queue as it is.
FailureLimitStops ==
    \A j \in Jobs \ InteractiveJobs : count[j].failed >= MaxFailures => Unleased(j) = {}

\* The limits a job was submitted with bind its rows, however claims, reaping
\* and discovery interleave.
LimitsHold == PageLimit /\ AttemptsBounded /\ FailureLimitStops

\* What a job and a task report is what happened: a result for each success and
\* for nothing else, and a final state that fits the tasks and the cancellation.
OutcomesAreTrue == OutcomeIsTrue /\ ResultIffSucceeded

\* Sessions end tasks outside the repository's helpers: none is left parked
\* without a session that expires, and each is counted once.
SessionsReconcile == ParkedHasSession /\ CountersReconcile

\* blocked_count is the number of blocked tasks (docs: "A robots-disallowed
\* non-seed URL is counted as `blocked`").
BlockedCountReconciles ==
    \A j \in Jobs : count[j].blocked = Cardinality(TasksIn(j, {"blocked_robots"}))

\* A job whose seed robots.txt disallows is not completed (docs: "A blocked,
\* failed, or invalid seed prevents a `completed` result").
BlockedSeedNotCompleted ==
    \A j \in Jobs : taskState[TaskOf(j, Seed[j])] = "blocked_robots" => jobState[j] # "completed"

KeepsTerminal ==
    /\ \A t \in Tasks : taskState[t] \in TerminalTaskStates => taskState'[t] = taskState[t]
    /\ \A j \in Jobs : jobState[j] \in TerminalJobStates => jobState'[j] = jobState[j]
    /\ \A t \in Tasks : results[t] # 0 => results'[t] = results[t]

\* No step takes a task or a job out of a terminal state, or replaces a result.
TerminalIsFinal == [][KeepsTerminal]_vars

\* Closing a session ends no lease that a worker's run_once is working under
\* (sessions.close: "terminalize any task still owned by it").
SessionEndsOnlyItsOwn ==
    [][\A t \in Tasks :
         /\ session[t].state \in OpenSessionStates /\ session'[t].state \notin OpenSessionStates
         /\ taskState[t] = "leased" /\ taskState'[t] # "leased"
         => \A c \in claims : ~Fenced(c.task, c.token) \/ c.task # t]_vars

\* The queue seen from outside: a task state is a phase of FencedQueue, a lease
\* token its grant.
PhaseOf(s) ==
    CASE s = "absent" -> "unknown"
      [] s = "leased" -> "held"
      [] s \in {"pending", "retry_wait"} -> "queued"
      [] s = "waiting_input" -> "parked"
      [] s = "succeeded" -> "done"
      [] OTHER -> "dropped"
Queue == INSTANCE FencedQueue WITH
    Items <- Tasks, phase <- [t \in Tasks |-> PhaseOf(taskState[t])],
    grant <- token, issued <- lastToken, kept <- results

\* The transactions of the repository implement the fenced queue: every step of
\* every process is a step the abstract queue allows, or none of its business.
ImplementsQueue == Queue!Spec

\* Every submitted job finishes although workers may all be dead: deadline,
\* reaper and finalizer are enough (docs: "No accepted task is lost").
EveryJobFinishes ==
    \A j \in Jobs : jobState[j] = "pending" ~> jobState[j] \in TerminalJobStates

\* An open session is closed in the end, even when its runner's process died.
SessionsEnd ==
    \A t \in Tasks : session[t].state \in OpenSessionStates
                        ~> session[t].state \notin OpenSessionStates
=============================================================================
