-------------------------- MODULE CrawlSystemProofs --------------------------
(***************************************************************************)
(* Theorems about CrawlSystem for any jobs, URLs, workers and limits.      *)
(***************************************************************************)
EXTENDS CrawlSystem, FiniteSetTheorems, TLAPS

\* There are finitely many task rows, so every set of them has a cardinality.
LEMMA TasksFinite == IsFiniteSet(Tasks)
<1> DEFINE f == [p \in Jobs \X Urls |-> [job |-> p[1], url |-> p[2]]]
<1>1. IsFiniteSet(Jobs \X Urls)
  BY FS_Product, TablesAssumption
<1>2. f \in [Jobs \X Urls -> Tasks]
  BY DEF Tasks
<1>3. ASSUME NEW t \in Tasks PROVE \E p \in Jobs \X Urls : f[p] = t
  <2>1. <<t.job, t.url>> \in Jobs \X Urls
    BY <1>3 DEF Tasks
  <2>2. f[<<t.job, t.url>>] = t
    BY <1>3, <2>1 DEF Tasks
  <2> QED BY <2>1, <2>2
<1>4. f \in Surjection(Jobs \X Urls, Tasks)
  BY <1>2, <1>3 DEF Surjection
<1> QED BY <1>1, <1>4, FS_Surjection

\* Every count of task rows (count(*) FILTER ...) is a natural number.
LEMMA CardinalityOfTasks ==
  ASSUME NEW S \in SUBSET Tasks
  PROVE  Cardinality(S) \in Nat
BY TasksFinite, FS_Subset, FS_CardinalityType

\* The rows _drain_unleased and request_cancel return can be counted.
LEMMA UnleasedCardinality ==
  ASSUME NEW j
  PROVE  Unleased(j) \in SUBSET Tasks /\ Cardinality(Unleased(j)) \in Nat
<1>1. Unleased(j) \in SUBSET Tasks
  BY DEF Unleased, TasksIn
<1> QED BY <1>1, CardinalityOfTasks

-----------------------------------------------------------------------------
\* What the helpers of CrawlTables do to the types.

\* Past the exhaustion test of claim_task both allowances are natural numbers.
LEMMA AllowanceType ==
  ASSUME TypeOK, NEW t \in Tasks, ~Exhausted(t)
  PROVE  Allowance(t) \in [Meters -> Nat]
<1> SUFFICES ASSUME NEW m \in Meters PROVE Allowance(t)[m] \in Nat
  BY DEF Allowance
<1>1. t.job \in Jobs /\ t.url \in Urls
  BY DEF Tasks
<1>2. CapOf(t.url)[m] \in Nat
  BY <1>1, LimitsAssumption DEF CapOf
<1>3. used[t.job][m] \in Nat /\ reserved[t.job][m] \in Nat
  BY <1>1 DEF TypeOK
<1>4. Budget[m] \in Nat
  BY LimitsAssumption
<1>5. Allowance(t)[m] \in Int
  BY <1>2, <1>3, <1>4 DEF Allowance, Min2
<1> QED BY <1>5 DEF Exhausted

\* A fresh lease (claim_task, resume_live_session) keeps the types of the
\* columns it writes.
LEMMA LeaseType ==
  ASSUME TypeOK, NEW w \in Workers, NEW t \in Tasks, ~Exhausted(t), Lease(w, t)
  PROVE  /\ lastToken' \in Nat
         /\ taskState' \in [Tasks -> TaskStates]
         /\ owner' \in [Tasks -> Workers \cup {NoWorker}]
         /\ token' \in [Tasks -> Nat]
         /\ expires' \in [Tasks -> Nat]
         /\ held' \in [Tasks -> [Meters -> Nat]]
         /\ reserved' \in [Jobs -> [Meters -> Nat]]
         /\ originLeases' \subseteq OriginLeaseRows
<1>1. Allowance(t) \in [Meters -> Nat]
  BY AllowanceType
<1>2. t.job \in Jobs /\ t.url \in Urls
  BY DEF Tasks
<1>3. lastToken' \in Nat /\ token' \in [Tasks -> Nat] /\ expires' \in [Tasks -> Nat]
  BY TimeAssumption DEF TypeOK, Lease
<1>4. taskState' \in [Tasks -> TaskStates]
  BY DEF TypeOK, Lease, TaskStates
<1>5. owner' \in [Tasks -> Workers \cup {NoWorker}]
  BY DEF TypeOK, Lease
<1>6. held' \in [Tasks -> [Meters -> Nat]]
  BY <1>1 DEF TypeOK, Lease
<1>7. reserved' \in [Jobs -> [Meters -> Nat]]
  <2>1. [m \in Meters |-> reserved[t.job][m] + Allowance(t)[m]] \in [Meters -> Nat]
    BY <1>1, <1>2 DEF TypeOK
  <2> QED BY <1>2, <2>1 DEF TypeOK, Lease
<1>8. originLeases' \subseteq OriginLeaseRows
  <2>1. OriginKey(t) \in Origins
    BY <1>2, TablesAssumption DEF OriginKey
  <2>2. [origin |-> OriginKey(t), task |-> t, token |-> lastToken + 1] \in OriginLeaseRows
    BY <2>1 DEF OriginLeaseRows, TypeOK
  <2> QED BY <2>2 DEF TypeOK, Lease
<1> QED BY <1>3, <1>4, <1>5, <1>6, <1>7, <1>8

\* Clearing a lease keeps the types: GREATEST(0, ...) is a natural number.
LEMMA ReleaseType ==
  ASSUME TypeOK, NEW t \in Tasks, ClearLease(t)
  PROVE  /\ owner' \in [Tasks -> Workers \cup {NoWorker}]
         /\ token' \in [Tasks -> Nat]
         /\ expires' \in [Tasks -> Nat]
         /\ held' \in [Tasks -> [Meters -> Nat]]
         /\ reserved' \in [Jobs -> [Meters -> Nat]]
<1>1. t.job \in Jobs
  BY DEF Tasks
<1>2. owner' \in [Tasks -> Workers \cup {NoWorker}]
  BY DEF TypeOK, ClearLease
<1>3. token' \in [Tasks -> Nat] /\ expires' \in [Tasks -> Nat]
  BY DEF TypeOK, ClearLease
<1>4. held' \in [Tasks -> [Meters -> Nat]]
  <2>1. Nothing \in [Meters -> Nat]
    BY DEF Nothing
  <2> QED BY <2>1 DEF TypeOK, ClearLease
<1>5. reserved' \in [Jobs -> [Meters -> Nat]]
  <2>1. [m \in Meters |-> Max2(0, reserved[t.job][m] - held[t][m])] \in [Meters -> Nat]
    BY <1>1 DEF TypeOK, Max2
  <2> QED BY <1>1, <2>1 DEF TypeOK, ClearLease
<1> QED BY <1>2, <1>3, <1>4, <1>5

\* _charge_download keeps the usage columns natural numbers.
LEMMA ChargeType ==
  ASSUME TypeOK, NEW j \in Jobs, NEW cost \in [Meters -> Nat], Charge(j, cost)
  PROVE  used' \in [Jobs -> [Meters -> Nat]]
<1>1. [m \in Meters |-> used[j][m] + cost[m]] \in [Meters -> Nat]
  BY DEF TypeOK
<1> QED BY <1>1 DEF TypeOK, Charge

\* _actual_bytes returns a natural number for every meter.
LEMMA ActualBytesType ==
  ASSUME TypeOK, NEW t \in Tasks, NEW got \in Reports
  PROVE  ActualBytes(t, got) \in [Meters -> Nat] /\ got \in [Meters -> Nat]
BY LimitsAssumption DEF TypeOK, ActualBytes, Min2

\* Moving rows to a task state keeps every row in a task state.
LEMMA MoveType ==
  ASSUME TypeOK, NEW S, NEW s \in TaskStates
  PROVE  MoveTo(S, s) \in [Tasks -> TaskStates]
BY DEF TypeOK, MoveTo

\* Adding natural numbers to the job counters keeps their type.
LEMMA TallyType ==
  ASSUME TypeOK, NEW j \in Jobs, NEW d \in Nat, NEW e \in Nat, NEW s \in Nat, NEW f \in Nat,
         Tally(j, d, e, s, f)
  PROVE  count' \in [Jobs -> Counters]
<1>1. count[j] \in Counters
  BY DEF TypeOK
<1>2. [discovered |-> count[j].discovered + d, terminal |-> count[j].terminal + e,
       succeeded |-> count[j].succeeded + s, failed |-> count[j].failed + f,
       blocked |-> count[j].blocked] \in Counters
  BY <1>1 DEF Counters
<1> QED BY <1>2 DEF TypeOK, Tally

\* _terminalize keeps the types of the task, counter, usage and job columns.
LEMMA TerminalizeType ==
  ASSUME TypeOK, NEW t \in Tasks, NEW s \in TaskStates, NEW drained \in SUBSET Tasks,
         NEW cost \in [Meters -> Nat], Terminalize(t, s, drained, cost)
  PROVE  /\ taskState' \in [Tasks -> TaskStates]
         /\ count' \in [Jobs -> Counters]
         /\ used' \in [Jobs -> [Meters -> Nat]]
         /\ jobState' \in [Jobs -> JobStates]
<1>1. t.job \in Jobs
  BY DEF Tasks
<1>2. taskState' \in [Tasks -> TaskStates]
  <2>1. MoveTo(drained, "permanent_failed") \in [Tasks -> TaskStates]
    BY MoveType DEF TaskStates, TerminalTaskStates, FailedStates
  <2> QED BY <2>1 DEF Terminalize
<1>3. count' \in [Jobs -> Counters]
  <2>1. Cardinality(drained) \in Nat
    BY CardinalityOfTasks
  <2>2. PICK f \in Nat : Tally(t.job, 0, 1 + Cardinality(drained), 0, f)
    BY <2>1 DEF Terminalize
  <2> QED BY <1>1, <2>1, <2>2, TallyType
<1>4. used' \in [Jobs -> [Meters -> Nat]]
  BY <1>1, ChargeType DEF Terminalize
<1>5. jobState' \in [Jobs -> JobStates]
  BY <1>1 DEF Terminalize, TypeOK, JobStates, TerminalJobStates
<1> QED BY <1>2, <1>3, <1>4, <1>5

\* The terminalizing calls, typed as a whole: what they share is Terminalize and
\* a frame, given here as the facts each call's UNCHANGED provides.
LEMMA TerminalizeStepType ==
  ASSUME TypeOK, NEW t \in Tasks, NEW s \in TaskStates, NEW drained \in SUBSET Tasks,
         NEW cost \in [Meters -> Nat], Terminalize(t, s, drained, cost),
         UNCHANGED <<now, deadline, cancelRequested, browserPages, depth, availableAt,
                     attempts, origin, results, session, lastToken, processVars>>
  PROVE  TypeOK'
<1>1. ClearLease(t) /\ originLeases' \subseteq originLeases
  BY DEF Terminalize, ReleaseLease
<1>2. originLeases' \subseteq OriginLeaseRows
  BY <1>1 DEF TypeOK
<1> QED BY <1>1, <1>2, ReleaseType, TerminalizeType DEF TypeOK, processVars

\* The spacing and the half-open updates of claim_task return origin rows.
LEMMA OriginRowTypes ==
  ASSUME NEW row \in OriginRows, NEW at \in Nat
  PROVE  HalfOpen(row) \in OriginRows /\ Spaced(row, at) \in OriginRows
BY DEF OriginRows, HalfOpen, Spaced

\* The half-open update keeps the type of crawl_origins.
LEMMA HalfOpenedType ==
  ASSUME TypeOK, NEW o \in Origins
  PROVE  HalfOpened(o) \in [Origins -> OriginRows]
BY OriginRowTypes DEF TypeOK, HalfOpened

\* The times claim_task compares with now() are natural numbers.
LEMMA BlockedUntilType ==
  ASSUME TypeOK, NEW o \in Origins
  PROVE  BlockedUntil(o) \in Nat /\ origin[o].next_request_at \in Nat
<1>1. origin[o] \in OriginRows
  BY DEF TypeOK
<1> QED BY <1>1 DEF OriginRows, BlockedUntil, Max2

\* A task row names a job, a URL and through it an origin.
LEMMA OriginKeyType ==
  ASSUME NEW t \in Tasks
  PROVE  t.job \in Jobs /\ t.url \in Urls /\ OriginKey(t) \in Origins
BY TablesAssumption DEF Tasks, OriginKey

\* submit_job preserves the type invariant.
LEMMA SubmitJobType ==
  ASSUME TypeOK, NEW j \in Jobs, SubmitJob(j)
  PROVE  TypeOK'
<1>1. TaskOf(j, Seed[j]) \in Tasks
  BY TablesAssumption DEF TaskOf, Tasks
<1>2. Tally(j, 1, 0, 0, 0)
  BY DEF SubmitJob
<1>3. count' \in [Jobs -> Counters]
  BY <1>2, TallyType
<1>4. jobState' \in [Jobs -> JobStates] /\ taskState' \in [Tasks -> TaskStates]
  BY <1>1 DEF SubmitJob, TypeOK, JobStates, TaskStates, UnleasedStates
<1>5. deadline' \in [Jobs -> Nat] /\ availableAt' \in [Tasks -> Nat]
  BY <1>1, TimeAssumption DEF SubmitJob, TypeOK
<1> QED BY <1>3, <1>4, <1>5 DEF SubmitJob, TypeOK, leaseVars, processVars

\* Every way claim_task can end preserves the type invariant.
LEMMA ClaimStepType ==
  ASSUME TypeOK, NEW w \in Workers, NEW t \in Tasks,
         DeferClaim(w, t) \/ BusyClaim(w, t) \/ ExhaustedClaim(w, t) \/ ClaimTask(w, t)
  PROVE  TypeOK'
<1> DEFINE j == t.job
           o == OriginKey(t)
<1>1. j \in Jobs /\ t.url \in Urls /\ o \in Origins
  BY OriginKeyType
<1>2. BlockedUntil(o) \in Nat /\ origin[o].next_request_at \in Nat
  BY <1>1, BlockedUntilType
<1>3. HalfOpened(o) \in [Origins -> OriginRows]
  BY <1>1, HalfOpenedType
<1>4. CASE DeferClaim(w, t)
  <2>1. availableAt' \in [Tasks -> Nat]
    BY <1>2, <1>4 DEF DeferClaim, TypeOK
  <2>2. origin' \in [Origins -> OriginRows]
    BY <1>3, <1>4 DEF DeferClaim, TypeOK
  <2> QED BY <1>4, <2>1, <2>2 DEF DeferClaim, TypeOK, jobVars, leaseVars, processVars
<1>5. CASE BusyClaim(w, t)
  <2>1. origin' \in [Origins -> OriginRows]
    BY <1>3, <1>5 DEF BusyClaim
  <2> QED BY <1>5, <2>1 DEF BusyClaim, TypeOK, jobVars, taskVars, leaseVars, processVars
<1>6. CASE ExhaustedClaim(w, t)
  <2>1. taskState' \in [Tasks -> TaskStates]
    BY <1>6, MoveType DEF ExhaustedClaim, TaskStates, TerminalTaskStates, FailedStates
  <2>2. count' \in [Jobs -> Counters]
    BY <1>1, <1>6, UnleasedCardinality, TallyType DEF ExhaustedClaim
  <2>3. origin' \in [Origins -> OriginRows]
    BY <1>3, <1>6 DEF ExhaustedClaim
  <2> QED BY <1>6, <2>1, <2>2, <2>3 DEF ExhaustedClaim, TypeOK, leaseVars, processVars
<1>7. CASE ClaimTask(w, t)
  <2>1. ~Exhausted(t) /\ Lease(w, t)
    BY <1>7 DEF ClaimTask, ClaimGuard
  <2>2. attempts' \in [Tasks -> Nat]
    BY <1>7 DEF ClaimTask, TypeOK
  <2>3. jobState' \in [Jobs -> JobStates]
    BY <1>1, <1>7 DEF ClaimTask, TypeOK, JobStates
  <2>4. origin' \in [Origins -> OriginRows]
    <3>1. now + MinDelay \in Nat /\ origin[o] \in OriginRows
      BY <1>1, TimeAssumption DEF TypeOK
    <3>2. HalfOpen(Spaced(origin[o], now + MinDelay)) \in OriginRows
      BY <3>1, OriginRowTypes
    <3> QED BY <1>1, <1>7, <3>2 DEF ClaimTask, TypeOK
  <2>5. claims' \subseteq Claims
    BY <1>7 DEF ClaimTask, TypeOK, Claims
  <2> QED BY <1>7, <2>1, <2>2, <2>3, <2>4, <2>5, LeaseType DEF ClaimTask, TypeOK
<1> QED BY <1>4, <1>5, <1>6, <1>7

\* _enforce_failure_limit drains task rows only.
LEMMA DrainedType ==
  ASSUME NEW j
  PROVE  DrainedByFailure(j) \in SUBSET Tasks
BY UnleasedCardinality DEF DrainedByFailure

\* _reject_inactive_lease preserves the type invariant.
LEMMA RejectType ==
  ASSUME TypeOK, NEW t \in Tasks, RejectInactiveLease(t)
  PROVE  TypeOK'
<1>1. Nothing \in [Meters -> Nat] /\ {} \in SUBSET Tasks
  BY DEF Nothing
<1>2. {"cancelled", "permanent_failed"} \subseteq TaskStates
  BY DEF TaskStates, TerminalTaskStates, FailedStates
<1>3. DrainedByFailure(t.job) \in SUBSET Tasks
  BY DrainedType
<1>4. PICK s \in TaskStates, D \in SUBSET Tasks : Terminalize(t, s, D, Nothing)
  BY <1>1, <1>2, <1>3 DEF RejectInactiveLease
<1> QED BY <1>1, <1>4, TerminalizeStepType DEF RejectInactiveLease

\* Returning a task to the queue keeps the types of the columns it writes.
LEMMA RequeueType ==
  ASSUME TypeOK, NEW t \in Tasks, NEW at \in Nat, Requeue(t, at)
  PROVE  /\ taskState' \in [Tasks -> TaskStates]
         /\ availableAt' \in [Tasks -> Nat]
         /\ owner' \in [Tasks -> Workers \cup {NoWorker}]
         /\ token' \in [Tasks -> Nat]
         /\ expires' \in [Tasks -> Nat]
         /\ held' \in [Tasks -> [Meters -> Nat]]
         /\ reserved' \in [Jobs -> [Meters -> Nat]]
         /\ originLeases' \subseteq OriginLeaseRows
<1>1. ClearLease(t) /\ originLeases' \subseteq originLeases
  BY DEF Requeue, ReleaseLease
<1>2. taskState' \in [Tasks -> TaskStates] /\ availableAt' \in [Tasks -> Nat]
  BY DEF Requeue, TypeOK, TaskStates, UnleasedStates
<1>3. originLeases' \subseteq OriginLeaseRows
  BY <1>1 DEF TypeOK
<1> QED BY <1>1, <1>2, <1>3, ReleaseType

\* complete_task preserves the type invariant.
LEMMA CompleteTaskType ==
  ASSUME TypeOK, NEW c \in Claims, NEW got \in Reports, NEW links \in SUBSET Urls,
         CompleteTask(c, got, links)
  PROVE  TypeOK'
<1> DEFINE t == c.task
           j == t.job
<1>1. t \in Tasks /\ c.token \in Nat
  BY DEF Claims
<1>2. j \in Jobs /\ t.url \in Urls /\ OriginKey(t) \in Origins
  BY <1>1, OriginKeyType
<1>3. ClearLease(t) /\ originLeases' \subseteq originLeases
  BY DEF CompleteTask, ReleaseLease
<1>4. PICK A \in Accepted(t, links) :
        LET new == {TaskOf(j, u) : u \in A}
        IN /\ taskState' = [MoveTo(new, "pending") EXCEPT ![t] = "succeeded"]
           /\ depth' = [x \in Tasks |-> IF x \in new THEN depth[t] + 1 ELSE depth[x]]
           /\ availableAt' = [x \in Tasks |-> IF x \in new THEN now ELSE availableAt[x]]
           /\ Tally(j, Cardinality(A), 1, 1, 0)
  BY DEF CompleteTask
<1>5. Cardinality(A) \in Nat
  <2>1. A \in SUBSET Urls
    BY <1>4 DEF Accepted, Discoverable
  <2> QED BY <2>1, TablesAssumption, FS_Subset, FS_CardinalityType
<1>6. count' \in [Jobs -> Counters]
  BY <1>2, <1>4, <1>5, TallyType
<1>7. taskState' \in [Tasks -> TaskStates]
  <2>1. MoveTo({TaskOf(j, u) : u \in A}, "pending") \in [Tasks -> TaskStates]
    BY MoveType DEF TaskStates, UnleasedStates
  <2> QED BY <1>4, <2>1 DEF TaskStates, TerminalTaskStates
<1>8. depth' \in [Tasks -> Nat] /\ availableAt' \in [Tasks -> Nat]
  BY <1>1, <1>4 DEF TypeOK
<1>9. used' \in [Jobs -> [Meters -> Nat]]
  BY <1>1, <1>2, ActualBytesType, ChargeType DEF CompleteTask
<1>10. origin' \in [Origins -> OriginRows]
  <2>1. origin[OriginKey(t)] \in OriginRows
    BY <1>2 DEF TypeOK
  <2>2. [next_request_at |-> origin[OriginKey(t)].next_request_at, cooldown_until |-> 0,
         consecutive_failures |-> 0, circuit_state |-> "closed",
         circuit_open_until |-> 0] \in OriginRows
    BY <2>1 DEF OriginRows
  <2> QED BY <1>2, <2>2 DEF CompleteTask, TypeOK
<1>11. results' \in [Tasks -> Nat]
  BY <1>1 DEF CompleteTask, TypeOK
<1>12. originLeases' \subseteq OriginLeaseRows
  BY <1>3 DEF TypeOK
<1> QED BY <1>1, <1>3, <1>6, <1>7, <1>8, <1>9, <1>10, <1>11, <1>12, ReleaseType
        DEF CompleteTask, TypeOK, processVars

\* retry_task preserves the type invariant.
LEMMA RetryTaskType ==
  ASSUME TypeOK, NEW c \in Claims, NEW got \in Reports, NEW d \in RetryDelays,
         RetryTask(c, got, d)
  PROVE  TypeOK'
<1> DEFINE t == c.task
           o == OriginKey(t)
<1>1. t \in Tasks /\ now + d \in Nat
  BY TimeAssumption DEF Claims, TypeOK
<1>2. t.job \in Jobs /\ o \in Origins
  BY <1>1, OriginKeyType
<1>3. Requeue(t, now + d)
  BY DEF RetryTask
<1>4. used' \in [Jobs -> [Meters -> Nat]]
  BY <1>1, <1>2, ActualBytesType, ChargeType DEF RetryTask
<1>5. origin' \in [Origins -> OriginRows]
  <2>1. origin[o] \in OriginRows /\ now \in Nat /\ CircuitSeconds \in Nat
    BY <1>2, TimeAssumption DEF TypeOK
  <2> DEFINE at == now + d
             failures == origin[o].consecutive_failures + 1
             row == [next_request_at |-> Max2(origin[o].next_request_at, at),
                     cooldown_until |-> Max2(origin[o].cooldown_until, at),
                     consecutive_failures |-> failures,
                     circuit_state |-> IF failures >= CircuitThreshold THEN "open"
                                       ELSE origin[o].circuit_state,
                     circuit_open_until |-> IF failures >= CircuitThreshold
                                            THEN now + CircuitSeconds
                                            ELSE origin[o].circuit_open_until]
  <2>2. row \in OriginRows
    BY <1>1, <2>1 DEF OriginRows, Max2
  <2>3. origin' = [origin EXCEPT ![o] = row]
    BY DEF RetryTask
  <2> QED BY <1>2, <2>2, <2>3 DEF TypeOK
<1> QED BY <1>1, <1>3, <1>4, <1>5, RequeueType DEF RetryTask, TypeOK, processVars

\* The other calls of a worker preserve the type invariant.
LEMMA WorkerStepType ==
  ASSUME TypeOK, NEW c \in Claims,
         \/ Heartbeat(c) \/ ReserveBrowserNavigation(c) \/ BlockRobots(c) \/ EndRun(c)
         \/ \E got \in Reports : FailTask(c, got) \/ CompleteOverBudget(c, got)
  PROVE  TypeOK'
<1>1. c.task \in Tasks /\ c.task.job \in Jobs
  BY DEF Claims, Tasks
<1>2. {"permanent_failed", "blocked_robots"} \subseteq TaskStates
  BY DEF TaskStates, TerminalTaskStates, FailedStates
<1>3. CASE Heartbeat(c)
  <2>1. expires' \in [Tasks -> Nat]
    BY <1>1, <1>3, TimeAssumption DEF Heartbeat, TypeOK
  <2> QED BY <1>3, <2>1 DEF Heartbeat, TypeOK, jobVars, processVars
<1>4. CASE ReserveBrowserNavigation(c)
  <2>1. browserPages' \in [Jobs -> Nat]
    BY <1>1, <1>4 DEF ReserveBrowserNavigation, TypeOK
  <2> QED BY <1>4, <2>1 DEF ReserveBrowserNavigation, TypeOK, taskVars, leaseVars, processVars
<1>5. CASE BlockRobots(c)
  <2>1. Nothing \in [Meters -> Nat] /\ {} \in SUBSET Tasks
    BY DEF Nothing
  <2>2. Terminalize(c.task, "blocked_robots", {}, Nothing)
    BY <1>5 DEF BlockRobots
  <2> QED BY <1>1, <1>2, <1>5, <2>1, <2>2, TerminalizeStepType DEF BlockRobots
<1>6. CASE EndRun(c)
  BY <1>6 DEF EndRun, TypeOK, jobVars, taskVars, leaseVars
<1>7. ASSUME NEW got \in Reports, FailTask(c, got) \/ CompleteOverBudget(c, got)
      PROVE  TypeOK'
  <2>1. DrainedByFailure(c.task.job) \in SUBSET Tasks /\ Unleased(c.task.job) \in SUBSET Tasks
    BY DrainedType, UnleasedCardinality
  <2>2. ActualBytes(c.task, got) \in [Meters -> Nat]
    BY <1>1, ActualBytesType
  <2>3. PICK D \in SUBSET Tasks :
          Terminalize(c.task, "permanent_failed", D, ActualBytes(c.task, got))
    BY <1>7, <2>1 DEF FailTask, CompleteOverBudget
  <2>4. UNCHANGED <<now, deadline, cancelRequested, browserPages, depth, availableAt,
                    attempts, origin, results, session, lastToken, processVars>>
    BY <1>7 DEF FailTask, CompleteOverBudget
  <2> QED BY <1>1, <1>2, <2>2, <2>3, <2>4, TerminalizeStepType
<1> QED BY <1>3, <1>4, <1>5, <1>6, <1>7

\* A change of session state keeps the type of live_sessions.
LEMMA SessionRowType ==
  ASSUME TypeOK, NEW t \in Tasks, NEW s \in SessionStates, SetSession(t, s)
  PROVE  session' \in [Tasks -> SessionRows]
<1>1. session[t] \in SessionRows
  BY DEF TypeOK
<1>2. [state |-> s, expires_at |-> session[t].expires_at] \in SessionRows
  BY <1>1 DEF SessionRows
<1> QED BY <1>2 DEF SetSession, TypeOK

\* sessions.close preserves the type invariant.
LEMMA CloseSessionType ==
  ASSUME TypeOK, NEW t \in Tasks, NEW reason \in {"cancelled", "expired"}, NEW w,
         CloseSession(t, reason, w), runners' \subseteq Claims
  PROVE  TypeOK'
<1>1. t.job \in Jobs
  BY DEF Tasks
<1>2. session' \in [Tasks -> SessionRows]
  <2>1. {"closed", "cancelled", "expired"} \subseteq SessionStates
    BY DEF SessionStates
  <2>2. PICK s \in SessionStates : SetSession(t, s)
    BY <2>1 DEF CloseSession
  <2> QED BY <2>2, SessionRowType
<1>3. CASE Terminalized(t, reason, w)
  <2>1. ClearLease(t) /\ originLeases' \subseteq originLeases
    BY <1>3 DEF CloseSession, CloseLease
  <2>2. taskState' \in [Tasks -> TaskStates]
    BY <1>3 DEF CloseSession, TypeOK, TaskStates, TerminalTaskStates, FailedStates
  <2>3. PICK n \in {0, 1} : Tally(t.job, 0, 1, 0, n)
    BY <1>3 DEF CloseSession
  <2>4. count' \in [Jobs -> Counters]
    BY <1>1, <2>3, TallyType
  <2>5. originLeases' \subseteq OriginLeaseRows
    BY <2>1 DEF TypeOK
  <2> QED BY <1>2, <2>1, <2>2, <2>4, <2>5, ReleaseType DEF CloseSession, TypeOK
<1>4. CASE ~Terminalized(t, reason, w)
  BY <1>2, <1>4 DEF CloseSession, TypeOK, leaseVars
<1> QED BY <1>3, <1>4

\* wait_for_input_local preserves the type invariant.
LEMMA WaitForInputType ==
  ASSUME TypeOK, NEW c \in claims, WaitForInput(c)
  PROVE  TypeOK'
<1>1. c \in Claims /\ c.task \in Tasks /\ c.task.job \in Jobs /\ c.worker \in Workers
  BY DEF TypeOK, Claims, Tasks
<1>2. ClearLease(c.task) /\ originLeases' \subseteq originLeases
  BY DEF WaitForInput, ReleaseLease
<1>3. taskState' \in [Tasks -> TaskStates]
  BY <1>1 DEF WaitForInput, TypeOK, TaskStates, UnleasedStates
<1>4. session' \in [Tasks -> SessionRows]
  <2>1. Min2(now + SessionTtl, deadline[c.task.job]) \in Nat
    BY <1>1, TimeAssumption DEF TypeOK, Min2
  <2>2. [state |-> "waiting", expires_at |-> Min2(now + SessionTtl, deadline[c.task.job])]
          \in SessionRows
    BY <2>1 DEF SessionRows, SessionStates, OpenSessionStates
  <2> QED BY <1>1, <2>2 DEF WaitForInput, TypeOK
<1>5. claims' \subseteq Claims /\ runners' \subseteq Claims
  BY <1>1 DEF WaitForInput, TypeOK, Claims
<1>6. originLeases' \subseteq OriginLeaseRows
  BY <1>2 DEF TypeOK
<1> QED BY <1>1, <1>2, <1>3, <1>4, <1>5, <1>6, ReleaseType DEF WaitForInput, TypeOK

\* The steps of OwnedSessionRunner preserve the type invariant.
LEMMA RunnerStepType ==
  ASSUME TypeOK, NEW r \in runners,
         ResumeLiveSession(r) \/ CloseCompleted(r) \/ RunnerFails(r) \/ RunnerEnds(r)
  PROVE  TypeOK'
<1>1. r \in Claims /\ r.task \in Tasks /\ r.worker \in Workers
  BY DEF TypeOK, Claims
<1>2. CASE ResumeLiveSession(r)
  <2>1. ~Exhausted(r.task) /\ Lease(r.worker, r.task)
    BY <1>2 DEF ResumeLiveSession, ResumeGuard
  <2>2. runners' \subseteq Claims
    BY <1>1, <1>2 DEF ResumeLiveSession, TypeOK, Claims
  <2> QED BY <1>1, <1>2, <2>1, <2>2, LeaseType DEF ResumeLiveSession, TypeOK
<1>3. CASE CloseCompleted(r)
  <2>1. session' \in [Tasks -> SessionRows]
    BY <1>1, <1>3, SessionRowType DEF CloseCompleted, SessionStates
  <2> QED BY <1>3, <2>1 DEF CloseCompleted, TypeOK, jobVars, taskVars, leaseVars
<1>4. CASE RunnerFails(r)
  <2>1. runners' \subseteq Claims /\ CloseSession(r.task, "expired", r.worker)
    BY <1>4 DEF RunnerFails, TypeOK
  <2> QED BY <1>1, <2>1, CloseSessionType
<1>5. CASE RunnerEnds(r)
  BY <1>5 DEF RunnerEnds, TypeOK, jobVars, taskVars, leaseVars
<1> QED BY <1>2, <1>3, <1>4, <1>5

\* The control client's calls preserve the type invariant.
LEMMA HumanStepType ==
  ASSUME TypeOK, NEW t \in Tasks, Touch(t) \/ RequestResume(t) \/ CancelSession(t)
  PROVE  TypeOK'
<1>1. CASE Touch(t) \/ RequestResume(t)
  <2>1. {"connected", "resuming"} \subseteq SessionStates
    BY DEF SessionStates, OpenSessionStates
  <2>2. session' \in [Tasks -> SessionRows]
    BY <1>1, <2>1, SessionRowType DEF Touch, RequestResume
  <2> QED BY <1>1, <2>2 DEF Touch, RequestResume, TypeOK, jobVars, taskVars, leaseVars, processVars
<1>2. CASE CancelSession(t)
  <2>1. runners' \subseteq Claims /\ CloseSession(t, "cancelled", NoWorker)
    BY <1>2 DEF CancelSession, TypeOK
  <2> QED BY <2>1, CloseSessionType
<1> QED BY <1>1, <1>2

\* The reaper and expire_due preserve the type invariant.
LEMMA MaintenanceTaskType ==
  ASSUME TypeOK, NEW t \in Tasks, ReapLease(t) \/ ExpireSession(t)
  PROVE  TypeOK'
<1>1. t.job \in Jobs
  BY DEF Tasks
<1>2. "permanent_failed" \in TaskStates
  BY DEF TaskStates, TerminalTaskStates, FailedStates
<1>3. CASE ReapInactive(t)
  BY <1>3, RejectType DEF ReapInactive
<1>4. CASE ReapExhausted(t)
  <2>1. Nothing \in [Meters -> Nat] /\ DrainedByFailure(t.job) \in SUBSET Tasks
    BY DrainedType DEF Nothing
  <2>2. Terminalize(t, "permanent_failed", DrainedByFailure(t.job), Nothing)
    BY <1>4 DEF ReapExhausted
  <2> QED BY <1>2, <1>4, <2>1, <2>2, TerminalizeStepType DEF ReapExhausted
<1>5. CASE ReapRetry(t)
  <2>1. now \in Nat /\ Requeue(t, now)
    BY <1>5 DEF ReapRetry, TypeOK
  <2> QED BY <1>5, <2>1, RequeueType DEF ReapRetry, TypeOK, processVars
<1>6. CASE ExpireSession(t)
  <2>1. session' \in [Tasks -> SessionRows]
    BY <1>6, SessionRowType DEF ExpireSession, SessionStates
  <2>2. taskState' \in [Tasks -> TaskStates]
    BY <1>2, <1>6 DEF ExpireSession, TypeOK
  <2>3. count' \in [Jobs -> Counters]
    <3>1. CASE taskState[t] = "waiting_input"
      BY <1>1, <1>6, <3>1, TallyType DEF ExpireSession
    <3>2. CASE taskState[t] # "waiting_input"
      BY <1>6, <3>2 DEF ExpireSession, TypeOK
    <3> QED BY <3>1, <3>2
  <2> QED BY <1>6, <2>1, <2>2, <2>3 DEF ExpireSession, TypeOK, leaseVars, processVars
<1> QED BY <1>3, <1>4, <1>5, <1>6 DEF ReapLease

\* request_cancel and finalize_jobs preserve the type invariant.
LEMMA JobStepType ==
  ASSUME TypeOK, NEW j \in Jobs, RequestCancel(j) \/ FinalizeJob(j)
  PROVE  TypeOK'
<1>1. "cancelled" \in TaskStates
  BY DEF TaskStates, TerminalTaskStates
<1>2. CASE RequestCancel(j)
  <2>1. cancelRequested' \in [Jobs -> BOOLEAN] /\ jobState' \in [Jobs -> JobStates]
    BY <1>2 DEF RequestCancel, TypeOK, JobStates, TerminalJobStates
  <2>2. taskState' \in [Tasks -> TaskStates]
    BY <1>1, <1>2, MoveType DEF RequestCancel
  <2>3. count' \in [Jobs -> Counters]
    BY <1>2, UnleasedCardinality, TallyType DEF RequestCancel
  <2>4. session' \in [Tasks -> SessionRows]
    <3>1. ASSUME NEW t \in Tasks
          PROVE  [state |-> "cancelled", expires_at |-> session[t].expires_at] \in SessionRows
      <4>1. session[t] \in SessionRows
        BY DEF TypeOK
      <4> QED BY <4>1 DEF SessionRows, SessionStates
    <3> QED BY <1>2, <3>1 DEF RequestCancel, TypeOK
  <2> QED BY <1>2, <2>1, <2>2, <2>3, <2>4 DEF RequestCancel, TypeOK, leaseVars, processVars
<1>3. CASE FinalizeJob(j)
  <2> DEFINE late == IF Expired(j) THEN Unleased(j) ELSE {}
             after == MoveTo(late, "cancelled")
  <2>1. taskState' \in [Tasks -> TaskStates]
    BY <1>1, <1>3, MoveType DEF FinalizeJob
  <2>2. late \in SUBSET Tasks
    BY UnleasedCardinality
  <2>3. Cardinality(late) \in Nat
    BY <2>2, CardinalityOfTasks
  <2>4. Tally(j, 0, Cardinality(late), 0, 0)
    BY <1>3 DEF FinalizeJob
  <2>5. count' \in [Jobs -> Counters]
    BY <2>3, <2>4, TallyType
  <2>6. Outcome(j, after) \in JobStates
    BY DEF Outcome, JobStates, TerminalJobStates
  <2>7. jobState' \in [Jobs -> JobStates]
    BY <1>3, <2>6 DEF FinalizeJob, TypeOK
  <2> QED BY <1>3, <2>1, <2>5, <2>7 DEF FinalizeJob, TypeOK, leaseVars, processVars
<1> QED BY <1>2, <1>3

\* Every step keeps every column in its type.
THEOREM TypeStep == TypeOK /\ [Next]_vars => TypeOK'
<1> SUFFICES ASSUME TypeOK, [Next]_vars PROVE TypeOK'
  OBVIOUS
<1>0. claims \subseteq Claims /\ runners \subseteq Claims /\ claims \cup runners \subseteq Claims
  BY DEF TypeOK
<1>1. CASE ClientStep
  BY <1>1, SubmitJobType, JobStepType DEF ClientStep
<1>2. CASE ClaimStep
  BY <1>2, ClaimStepType DEF ClaimStep
<1>3. CASE CompleteStep
  BY <1>0, <1>3, WorkerStepType, CompleteTaskType DEF CompleteStep
<1>4. CASE WorkerStep
  BY <1>0, <1>4, WorkerStepType, RetryTaskType, WaitForInputType DEF WorkerStep
<1>5. CASE RejectStep
  <2>1. PICK c \in claims \cup runners : RejectedCall(c)
    BY <1>5 DEF RejectStep
  <2>2. c.task \in Tasks
    BY <1>0 DEF Claims
  <2> QED BY <2>1, <2>2, RejectType DEF RejectedCall
<1>6. CASE RunnerStep
  BY <1>6, RunnerStepType DEF RunnerStep
<1>7. CASE HumanStep
  BY <1>7, HumanStepType DEF HumanStep
<1>8. CASE MaintenanceStep
  BY <1>8, MaintenanceTaskType, JobStepType DEF MaintenanceStep
<1>9. CASE Tick
  BY <1>9 DEF Tick, TypeOK, jobVars, taskVars, leaseVars, processVars
<1>10. CASE UNCHANGED vars
  BY <1>10 DEF vars, TypeOK, jobVars, taskVars, leaseVars, processVars
<1> QED BY <1>1, <1>2, <1>3, <1>4, <1>5, <1>6, <1>7, <1>8, <1>9, <1>10 DEF Next

\* The empty tables satisfy the type invariant.
LEMMA TypeInit == Init => TypeOK
BY DEF Init, TypeOK, Nothing, Counters, OriginRows, OriginLeaseRows, SessionRows, Claims,
       JobStates, TaskStates, SessionStates

\* The type invariant, for every instance.
THEOREM TypeCorrect == Spec => []TypeOK
BY TypeInit, TypeStep, PTL DEF Spec
-----------------------------------------------------------------------------
(***************************************************************************)
(* A finished job has nothing left to run, for every instance: DrainInv is *)
(* inductive.  From it, terminal states are final.                         *)
(***************************************************************************)

LiveStates == UnleasedStates \cup {"leased"}

\* Terminal, live and absent states do not overlap, for tasks and for jobs.
LEMMA StatesApart ==
  /\ TerminalTaskStates \cap (LiveStates \cup {"absent"}) = {}
  /\ "absent" \notin LiveStates /\ "leased" \notin UnleasedStates
  /\ TerminalJobStates \cap {"absent", "pending", "running"} = {}
BY DEF TerminalTaskStates, FailedStates, LiveStates, UnleasedStates, TerminalJobStates

\* Every transaction that ends a leased task is a _terminalize of it which may
\* drain rows the job has queued (all of them or, below the failure limit, none)
\* and charges no more than the lease held.
LEMMA EndingStep ==
  ASSUME TypeOK, NEW t \in Tasks,
         \/ RejectInactiveLease(t)
         \/ ReapExhausted(t)
         \/ \E c \in Claims : /\ c.task = t
                              /\ \/ BlockRobots(c)
                                 \/ \E got \in Reports : FailTask(c, got) \/ CompleteOverBudget(c, got)
  PROVE  \E s \in {"permanent_failed", "cancelled", "blocked_robots"},
            D \in SUBSET Unleased(t.job), cost \in [Meters -> Nat] :
            /\ \A m \in Meters : cost[m] <= held[t][m]
            /\ Terminalize(t, s, D, cost)
            /\ UNCHANGED <<now, deadline, cancelRequested, browserPages, depth, availableAt,
                           attempts, origin, results, session, lastToken, processVars>>
            /\ \/ D = Unleased(t.job)
               \/ D = {} /\ (s = "permanent_failed" => ~(count[t.job].failed + 1 >= MaxFailures))
<1> DEFINE frame == UNCHANGED <<now, deadline, cancelRequested, browserPages, depth, availableAt,
                               attempts, origin, results, session, lastToken, processVars>>
<1>1. Nothing \in [Meters -> Nat] /\ \A m \in Meters : Nothing[m] <= held[t][m]
  BY DEF TypeOK, Nothing
<1> DEFINE enough(D, s) == \/ D = Unleased(t.job)
                           \/ D = {} /\ (s = "permanent_failed" =>
                                            ~(count[t.job].failed + 1 >= MaxFailures))
<1>2. /\ DrainedByFailure(t.job) \in SUBSET Unleased(t.job)
      /\ enough(DrainedByFailure(t.job), "permanent_failed")
  BY DEF DrainedByFailure
<1>3. CASE RejectInactiveLease(t)
  <2>1. frame /\ (\/ Terminalize(t, "cancelled", {}, Nothing)
                  \/ Terminalize(t, "permanent_failed", DrainedByFailure(t.job), Nothing))
    BY <1>3 DEF RejectInactiveLease
  <2> QED BY <1>1, <1>2, <2>1
<1>4. CASE ReapExhausted(t)
  BY <1>1, <1>2, <1>4 DEF ReapExhausted
<1>5. ASSUME NEW c \in Claims, c.task = t, BlockRobots(c)
      PROVE  frame /\ Terminalize(t, "blocked_robots", {}, Nothing)
  BY <1>5 DEF BlockRobots
<1>6. ASSUME NEW c \in Claims, c.task = t, NEW got \in Reports,
             FailTask(c, got) \/ CompleteOverBudget(c, got)
      PROVE  \E D \in SUBSET Unleased(t.job), cost \in [Meters -> Nat] :
                /\ \A m \in Meters : cost[m] <= held[t][m]
                /\ Terminalize(t, "permanent_failed", D, cost)
                /\ frame /\ enough(D, "permanent_failed")
  <2>1. \A m \in Meters : held[t][m] \in Nat /\ got[m] \in Nat
    BY LimitsAssumption DEF TypeOK
  <2>2. /\ ActualBytes(t, got) \in [Meters -> Nat]
        /\ \A m \in Meters : ActualBytes(t, got)[m] <= held[t][m]
    BY <2>1 DEF ActualBytes, Min2
  <2>3. PICK D \in SUBSET Unleased(t.job) :
            /\ Terminalize(t, "permanent_failed", D, ActualBytes(t, got))
            /\ frame /\ enough(D, "permanent_failed")
    BY <1>2, <1>6 DEF FailTask, CompleteOverBudget
  <2> QED BY <2>2, <2>3
<1> QED BY <1>1, <1>3, <1>4, <1>5, <1>6

\* What the steps that leave crawl_jobs.state alone, or start a job, do to the
\* tasks: end some, or queue some of a job that is at work and not cancelled.
LEMMA DrainKept ==
  ASSUME TypeOK, TypeOK', DrainInv, UNCHANGED cancelRequested,
         \A j \in Jobs : \/ jobState'[j] = jobState[j]
                         \/ jobState[j] = "pending" /\ jobState'[j] = "running",
         \A x \in Tasks : \/ taskState'[x] = taskState[x]
                          \/ taskState[x] # "absent" /\ taskState'[x] \in TerminalTaskStates
                          \/ taskState[x] \in LiveStates /\ taskState'[x] = "leased"
                          \/ /\ ~cancelRequested[x.job] /\ taskState'[x] \in LiveStates
                             /\ \E y \in Tasks : y.job = x.job /\ taskState[y] \in LiveStates
  PROVE  DrainInv'
<1>1. \A j \in Jobs : /\ jobState'[j] \in TerminalJobStates <=> jobState[j] \in TerminalJobStates
                      /\ jobState'[j] = "absent" <=> jobState[j] = "absent"
  BY StatesApart
<1>2. \A x \in Tasks : x.job \in Jobs
  BY OriginKeyType
<1>3. FinishedJobIsDrained'
  BY <1>1, <1>2, StatesApart DEF DrainInv, FinishedJobIsDrained, LiveStates
<1>4. TasksHaveJob'
  BY <1>1, <1>2, StatesApart DEF DrainInv, TasksHaveJob
<1>5. CancelledHasNoQueue'
  BY StatesApart DEF DrainInv, CancelledHasNoQueue, LiveStates
<1> QED BY <1>3, <1>4, <1>5 DEF DrainInv

\* The last lease of a cancelled job finishes it: nothing else is live.
LEMMA EndingDrain ==
  ASSUME TypeOK, TypeOK', DrainInv, NEW t \in Tasks, taskState[t] = "leased",
         NEW s \in TerminalTaskStates, NEW D \in SUBSET Unleased(t.job), NEW cost,
         Terminalize(t, s, D, cost), UNCHANGED cancelRequested
  PROVE  DrainInv'
<1>1. taskState' = [MoveTo(D, "permanent_failed") EXCEPT ![t] = s]
  BY DEF Terminalize
<1>2. ASSUME NEW x \in Tasks
      PROVE  \/ taskState'[x] = taskState[x]
             \/ taskState[x] # "absent" /\ taskState'[x] \in TerminalTaskStates
  <2>1. x \in D => taskState[x] # "absent"
    BY DEF Unleased, TasksIn, UnleasedStates
  <2> QED BY <1>1, <2>1 DEF MoveTo, TerminalTaskStates, FailedStates
<1>3. CASE jobState' = jobState
  BY <1>2, <1>3, DrainKept
<1>4. CASE jobState' # jobState
  <2>1. /\ jobState' = [jobState EXCEPT ![t.job] = "cancelled"]
        /\ cancelRequested[t.job] /\ TasksIn(t.job, {"leased"}) \subseteq {t}
    BY <1>4 DEF Terminalize
  <2>2. t.job \in Jobs /\ \A x \in Tasks : x.job \in Jobs
    BY OriginKeyType
  <2>3. /\ jobState'[t.job] = "cancelled"
        /\ \A j \in Jobs : j # t.job => jobState'[j] = jobState[j]
    BY <2>1, <2>2 DEF TypeOK
  <2>4. ASSUME NEW x \in Tasks, x.job = t.job
        PROVE  taskState'[x] \notin LiveStates
    <3>1. CASE x = t
      BY <1>1, <3>1, StatesApart DEF MoveTo
    <3>2. CASE x # t
      <4>1. taskState[x] \notin LiveStates
        BY <2>1, <2>4, <3>2 DEF DrainInv, CancelledHasNoQueue, TasksIn, LiveStates
      <4> QED BY <1>2, <4>1, StatesApart
    <3> QED BY <3>1, <3>2
  <2>5. FinishedJobIsDrained'
    BY <1>2, <2>2, <2>3, <2>4, StatesApart DEF DrainInv, FinishedJobIsDrained, LiveStates
  <2>6. TasksHaveJob'
    BY <1>2, <2>2, <2>3, StatesApart DEF DrainInv, TasksHaveJob
  <2>7. CancelledHasNoQueue'
    BY <1>2, StatesApart DEF DrainInv, CancelledHasNoQueue, LiveStates
  <2> QED BY <2>5, <2>6, <2>7 DEF DrainInv
<1> QED BY <1>3, <1>4

\* submit_job queues only the seed of a job that was absent.
LEMMA SubmitDrain ==
  ASSUME TypeOK, TypeOK', DrainInv, NEW j \in Jobs, SubmitJob(j)
  PROVE  DrainInv'
<1> DEFINE t == TaskOf(j, Seed[j])
<1>1. t \in Tasks /\ t.job = j /\ \A x \in Tasks : x.job \in Jobs
  BY TablesAssumption, OriginKeyType DEF TaskOf, Tasks
<1>2. /\ taskState' = [taskState EXCEPT ![t] = "pending"]
      /\ jobState' = [jobState EXCEPT ![j] = "pending"]
      /\ cancelRequested' = cancelRequested /\ jobState[j] = "absent"
  BY DEF SubmitJob
<1>3. /\ taskState'[t] = "pending" /\ \A x \in Tasks : x # t => taskState'[x] = taskState[x]
      /\ jobState'[j] = "pending" /\ \A i \in Jobs : i # j => jobState'[i] = jobState[i]
  BY <1>1, <1>2 DEF TypeOK
<1>4. ~cancelRequested[j]
  BY <1>2 DEF DrainInv, TasksHaveJob
<1>5. FinishedJobIsDrained'
  BY <1>1, <1>3, StatesApart DEF DrainInv, FinishedJobIsDrained
<1>6. TasksHaveJob' /\ CancelledHasNoQueue'
  BY <1>1, <1>2, <1>3, <1>4 DEF DrainInv, TasksHaveJob, CancelledHasNoQueue
<1> QED BY <1>5, <1>6 DEF DrainInv

\* request_cancel and finalize_jobs empty what they then declare finished.
LEMMA JobStepDrain ==
  ASSUME TypeOK, TypeOK', DrainInv, NEW j \in Jobs, RequestCancel(j) \/ FinalizeJob(j)
  PROVE  DrainInv'
<1>1. \A x \in Tasks : x.job \in Jobs
  BY OriginKeyType
<1>2. jobState[j] \in {"pending", "running"}
  BY DEF RequestCancel, FinalizeJob
<1>3. PICK D \in SUBSET Unleased(j) : taskState' = MoveTo(D, "cancelled")
  BY DEF RequestCancel, FinalizeJob
<1>4. ASSUME NEW x \in Tasks
      PROVE  \/ taskState'[x] = taskState[x]
             \/ taskState[x] # "absent" /\ taskState'[x] \in TerminalTaskStates
  BY <1>3 DEF MoveTo, Unleased, TasksIn, UnleasedStates, TerminalTaskStates
<1>5. PICK s \in {jobState[j]} \cup TerminalJobStates : jobState' = [jobState EXCEPT ![j] = s]
  BY DEF RequestCancel, FinalizeJob, Outcome, TerminalJobStates, TypeOK
<1>6. jobState'[j] # "absent" /\ \A i \in Jobs : i # j => jobState'[i] = jobState[i]
  BY <1>2, <1>5, StatesApart DEF TypeOK
<1>7. ASSUME NEW x \in Tasks, x.job = j, jobState'[j] \in TerminalJobStates
      PROVE  taskState'[x] \notin LiveStates
  <2>1. CASE RequestCancel(j)
    <3>1. TasksIn(j, {"leased"}) = {}
      BY <1>2, <1>7, <2>1, StatesApart DEF RequestCancel
    <3>2. taskState[x] # "leased"
      BY <1>7, <3>1 DEF TasksIn
    <3> QED BY <1>7, <2>1, <3>2, StatesApart DEF RequestCancel, MoveTo, Unleased, TasksIn, LiveStates,
               TerminalTaskStates
  <2>2. CASE FinalizeJob(j)
    <3>1. taskState'[x] \in TerminalTaskStates \cup {"absent"}
      BY <1>2, <1>7, <2>2, StatesApart DEF FinalizeJob
    <3> QED BY <3>1, StatesApart
  <2> QED BY <2>1, <2>2
<1>8. FinishedJobIsDrained'
  BY <1>1, <1>4, <1>6, <1>7, StatesApart DEF DrainInv, FinishedJobIsDrained, LiveStates
<1>9. TasksHaveJob'
  <2>1. \A i \in Jobs : i # j => cancelRequested'[i] = cancelRequested[i]
    BY DEF RequestCancel, FinalizeJob, TypeOK
  <2> QED BY <1>1, <1>2, <1>4, <1>6, <2>1, StatesApart DEF DrainInv, TasksHaveJob
<1>10. CancelledHasNoQueue'
  <2>1. SUFFICES ASSUME NEW x \in Tasks, cancelRequested'[x.job]
                 PROVE  taskState'[x] \notin UnleasedStates
    BY DEF CancelledHasNoQueue
  <2>2. CASE cancelRequested[x.job]
    BY <1>4, <2>2, StatesApart DEF DrainInv, CancelledHasNoQueue, LiveStates
  <2>3. CASE ~cancelRequested[x.job]
    <3>1. RequestCancel(j) /\ x.job = j
      BY <1>1, <2>1, <2>3 DEF RequestCancel, FinalizeJob, TypeOK
    <3> QED BY <3>1 DEF RequestCancel, MoveTo, Unleased, TasksIn, UnleasedStates
  <2> QED BY <2>2, <2>3
<1> QED BY <1>8, <1>9, <1>10 DEF DrainInv

\* Steps that queue, lease, park or finish one task of a job that is at work.
LEMMA MoveOneDrain ==
  ASSUME TypeOK, TypeOK', DrainInv, UNCHANGED <<cancelRequested, jobState>>, NEW t \in Tasks,
         taskState[t] \in LiveStates, NEW s \in LiveStates \cup TerminalTaskStates,
         taskState' = [taskState EXCEPT ![t] = s],
         s \in UnleasedStates => ~cancelRequested[t.job]
  PROVE  DrainInv'
<1>1. taskState'[t] = s /\ \A x \in Tasks : x # t => taskState'[x] = taskState[x]
  BY DEF TypeOK
<1>2. taskState[t] # "absent"
  BY StatesApart
<1> QED BY <1>1, <1>2, DrainKept DEF LiveStates

\* claim_task moves only tasks of jobs that are neither cancelled nor late.
LEMMA ClaimDrain ==
  ASSUME TypeOK, TypeOK', DrainInv, NEW w \in Workers, NEW t \in Tasks,
         DeferClaim(w, t) \/ BusyClaim(w, t) \/ ExhaustedClaim(w, t) \/ ClaimTask(w, t)
  PROVE  DrainInv'
<1>1. CASE DeferClaim(w, t) \/ BusyClaim(w, t)
  BY <1>1, DrainKept DEF DeferClaim, BusyClaim, jobVars, taskVars
<1>2. CASE ExhaustedClaim(w, t)
  <2>1. \A x \in Tasks : \/ taskState'[x] = taskState[x]
                         \/ taskState[x] # "absent" /\ taskState'[x] \in TerminalTaskStates
    BY <1>2 DEF ExhaustedClaim, MoveTo, Unleased, TasksIn, UnleasedStates, TerminalTaskStates,
                FailedStates
  <2> QED BY <1>2, <2>1, DrainKept DEF ExhaustedClaim
<1>3. CASE ClaimTask(w, t)
  <2>1. taskState[t] \in LiveStates
    BY <1>3 DEF ClaimTask, ClaimGuard, Eligible, LiveStates, UnleasedStates
  <2>2. taskState' = [taskState EXCEPT ![t] = "leased"]
    BY <1>3 DEF ClaimTask, Lease
  <2>3. ASSUME NEW x \in Tasks
        PROVE  \/ taskState'[x] = taskState[x]
               \/ taskState[x] \in LiveStates /\ taskState'[x] = "leased"
    <3>1. taskState'[t] = "leased" /\ (x # t => taskState'[x] = taskState[x])
      BY <2>2 DEF TypeOK
    <3> QED BY <2>1, <3>1
  <2>4. \A j \in Jobs : \/ jobState'[j] = jobState[j]
                        \/ jobState[j] = "pending" /\ jobState'[j] = "running"
    <3>1. t.job \in Jobs
      BY OriginKeyType
    <3>2. \/ jobState' = jobState
          \/ jobState[t.job] = "pending" /\ jobState' = [jobState EXCEPT ![t.job] = "running"]
      BY <1>3 DEF ClaimTask
    <3> QED BY <3>1, <3>2 DEF TypeOK
  <2> QED BY <1>3, <2>3, <2>4, DrainKept DEF ClaimTask
<1> QED BY <1>1, <1>2, <1>3

\* complete_task: what it discovers belongs to the job of the task it ends.
LEMMA CompleteDrain ==
  ASSUME TypeOK, TypeOK', DrainInv, NEW c \in Claims, NEW got \in Reports,
         NEW links \in SUBSET Urls, CompleteTask(c, got, links)
  PROVE  DrainInv'
<1>1. c.task \in Tasks /\ taskState[c.task] = "leased" /\ ~cancelRequested[c.task.job]
  BY DEF Claims, CompleteTask, Fenced, Inactive
<1>2. PICK A \in SUBSET Urls :
        taskState' = [MoveTo({TaskOf(c.task.job, u) : u \in A}, "pending")
                         EXCEPT ![c.task] = "succeeded"]
  BY DEF CompleteTask, Accepted, Discoverable
<1>3. ASSUME NEW x \in Tasks
      PROVE  \/ taskState'[x] = taskState[x]
             \/ taskState[x] # "absent" /\ taskState'[x] \in TerminalTaskStates
             \/ x.job = c.task.job /\ taskState'[x] \in LiveStates
  BY <1>1, <1>2 DEF MoveTo, TaskOf, TerminalTaskStates, LiveStates, UnleasedStates
<1> QED BY <1>1, <1>3, DrainKept DEF CompleteTask, LiveStates

\* sessions.close ends a live task and finishes no job.
LEMMA CloseDrain ==
  ASSUME TypeOK, TypeOK', DrainInv, NEW t \in Tasks, NEW reason \in {"cancelled", "expired"},
         NEW w, CloseSession(t, reason, w)
  PROVE  DrainInv'
<1>1. CASE Terminalized(t, reason, w)
  <2>1. taskState[t] \in LiveStates
    BY <1>1 DEF Terminalized, LiveStates, UnleasedStates
  <2>2. PICK s \in TerminalTaskStates : taskState' = [taskState EXCEPT ![t] = s]
    BY <1>1 DEF CloseSession, TerminalTaskStates, FailedStates
  <2>3. UNCHANGED <<cancelRequested, jobState>>
    BY DEF CloseSession
  <2> QED BY <2>1, <2>2, <2>3, StatesApart, MoveOneDrain DEF LiveStates
<1>2. CASE ~Terminalized(t, reason, w)
  BY <1>2, DrainKept DEF CloseSession
<1> QED BY <1>1, <1>2

\* Every transaction that terminalizes a leased task preserves DrainInv.
LEMMA EndDrain ==
  ASSUME TypeOK, TypeOK', DrainInv, NEW t \in Tasks, taskState[t] = "leased",
         \/ RejectInactiveLease(t)
         \/ ReapExhausted(t)
         \/ \E c \in Claims : /\ c.task = t
                              /\ \/ BlockRobots(c)
                                 \/ \E got \in Reports : FailTask(c, got) \/ CompleteOverBudget(c, got)
  PROVE  DrainInv'
<1>1. PICK s \in {"permanent_failed", "cancelled", "blocked_robots"},
           D \in SUBSET Unleased(t.job), cost \in [Meters -> Nat] :
           Terminalize(t, s, D, cost) /\ UNCHANGED cancelRequested
  BY EndingStep
<1>2. s \in TerminalTaskStates
  BY DEF TerminalTaskStates, FailedStates
<1> QED BY <1>1, <1>2, EndingDrain

\* Every step keeps finished jobs drained and cancelled jobs without a queue.
THEOREM DrainStep == TypeOK /\ TypeOK' /\ DrainInv /\ [Next]_vars => DrainInv'
<1> SUFFICES ASSUME TypeOK, TypeOK', DrainInv, [Next]_vars PROVE DrainInv'
  OBVIOUS
<1>0. \A c \in claims \cup runners : c \in Claims /\ c.task \in Tasks
  BY DEF TypeOK, Claims
<1>1. CASE ClientStep
  BY <1>1, SubmitDrain, JobStepDrain DEF ClientStep
<1>2. CASE ClaimStep
  BY <1>2, ClaimDrain DEF ClaimStep
<1>3. CASE CompleteStep
  <2>1. PICK c \in claims \cup runners, got \in Reports :
           CompleteOverBudget(c, got) \/ \E links \in SUBSET Urls : CompleteTask(c, got, links)
    BY <1>3 DEF CompleteStep
  <2>2. CASE CompleteOverBudget(c, got)
    <3>1. taskState[c.task] = "leased"
      BY <2>2 DEF CompleteOverBudget, Fenced
    <3> QED BY <1>0, <2>2, <3>1, EndDrain
  <2> QED BY <1>0, <2>1, <2>2, CompleteDrain
<1>4. CASE WorkerStep
  <2>1. PICK c \in claims :
          \/ Heartbeat(c) \/ ReserveBrowserNavigation(c) \/ BlockRobots(c)
          \/ WaitForInput(c) \/ EndRun(c)
          \/ \E got \in Reports : FailTask(c, got) \/ \E d \in RetryDelays : RetryTask(c, got, d)
    BY <1>4 DEF WorkerStep
  <2>2. CASE Heartbeat(c) \/ ReserveBrowserNavigation(c) \/ EndRun(c)
    BY <2>2, DrainKept DEF Heartbeat, ReserveBrowserNavigation, EndRun, jobVars, taskVars
  <2>3. CASE BlockRobots(c) \/ \E got \in Reports : FailTask(c, got)
    <3>1. taskState[c.task] = "leased"
      BY <2>3 DEF BlockRobots, FailTask, Fenced
    <3> QED BY <1>0, <2>3, <3>1, EndDrain
  <2>4. CASE WaitForInput(c) \/ \E got \in Reports, d \in RetryDelays : RetryTask(c, got, d)
    <3>1. /\ taskState[c.task] = "leased" /\ ~cancelRequested[c.task.job]
          /\ UNCHANGED <<cancelRequested, jobState>>
      BY <2>4 DEF WaitForInput, RetryTask, Fenced, Inactive
    <3>2. PICK s \in UnleasedStates : taskState' = [taskState EXCEPT ![c.task] = s]
      BY <2>4 DEF WaitForInput, RetryTask, Requeue, UnleasedStates
    <3> QED BY <1>0, <3>1, <3>2, MoveOneDrain DEF LiveStates
  <2> QED BY <2>1, <2>2, <2>3, <2>4
<1>5. CASE RejectStep
  <2>1. PICK c \in claims \cup runners : RejectedCall(c)
    BY <1>5 DEF RejectStep
  <2> QED BY <1>0, <2>1, EndDrain DEF RejectedCall, Fenced
<1>6. CASE RunnerStep
  <2>1. PICK r \in runners :
          ResumeLiveSession(r) \/ CloseCompleted(r) \/ RunnerFails(r) \/ RunnerEnds(r)
    BY <1>6 DEF RunnerStep
  <2>2. CASE ResumeLiveSession(r)
    <3>1. /\ taskState[r.task] \in LiveStates /\ UNCHANGED <<cancelRequested, jobState>>
          /\ taskState' = [taskState EXCEPT ![r.task] = "leased"]
      BY <2>2 DEF ResumeLiveSession, ResumeGuard, Lease, LiveStates, UnleasedStates
    <3>2. "leased" \in LiveStates /\ "leased" \notin UnleasedStates
      BY DEF LiveStates, UnleasedStates
    <3> QED BY <1>0, <3>1, <3>2, MoveOneDrain
  <2>3. CASE CloseCompleted(r) \/ RunnerEnds(r)
    BY <2>3, DrainKept DEF CloseCompleted, RunnerEnds, jobVars, taskVars
  <2>4. CASE RunnerFails(r)
    BY <1>0, <2>4, CloseDrain DEF RunnerFails
  <2> QED BY <2>1, <2>2, <2>3, <2>4
<1>7. CASE HumanStep
  <2>1. PICK t \in Tasks : Touch(t) \/ RequestResume(t) \/ CancelSession(t)
    BY <1>7 DEF HumanStep
  <2>2. CASE Touch(t) \/ RequestResume(t)
    BY <2>2, DrainKept DEF Touch, RequestResume, jobVars, taskVars
  <2>3. CASE CancelSession(t)
    BY <2>3, CloseDrain DEF CancelSession
  <2> QED BY <2>1, <2>2, <2>3
<1>8. CASE MaintenanceStep
  <2>1. ASSUME NEW t \in Tasks, ReapLease(t) PROVE DrainInv'
    <3>1. taskState[t] = "leased"
      BY <2>1 DEF ReapLease, ReapInactive, ReapExhausted, ReapRetry, LeaseExpired
    <3>2. CASE ReapInactive(t) \/ ReapExhausted(t)
      BY <3>1, <3>2, EndDrain DEF ReapInactive
    <3>3. CASE ReapRetry(t)
      <4>1. /\ UNCHANGED <<cancelRequested, jobState>> /\ ~cancelRequested[t.job]
            /\ taskState' = [taskState EXCEPT ![t] = "retry_wait"]
        BY <3>3 DEF ReapRetry, Requeue, Inactive
      <4> QED BY <3>1, <4>1, MoveOneDrain DEF LiveStates, UnleasedStates
    <3> QED BY <2>1, <3>2, <3>3 DEF ReapLease
  <2>2. ASSUME NEW t \in Tasks, ExpireSession(t) PROVE DrainInv'
    <3>1. \A x \in Tasks : \/ taskState'[x] = taskState[x]
                           \/ taskState[x] # "absent" /\ taskState'[x] \in TerminalTaskStates
      BY <2>2 DEF ExpireSession, TypeOK, TerminalTaskStates, FailedStates
    <3> QED BY <2>2, <3>1, DrainKept DEF ExpireSession
  <2> QED BY <1>8, <2>1, <2>2, JobStepDrain DEF MaintenanceStep
<1>9. CASE Tick \/ UNCHANGED vars
  BY <1>9, DrainKept DEF Tick, vars, jobVars, taskVars
<1> QED BY <1>1, <1>2, <1>3, <1>4, <1>5, <1>6, <1>7, <1>8, <1>9 DEF Next

\* The empty tables satisfy DrainInv.
LEMMA DrainInit == Init => DrainInv
BY DEF Init, DrainInv, FinishedJobIsDrained, TasksHaveJob, CancelledHasNoQueue,
       TerminalJobStates, UnleasedStates, Tasks

\* DrainInv always holds: finished jobs are drained, tasks belong to jobs, and
\* cancellation (request_cancel) leaves no queue behind.
THEOREM DrainCorrect == Spec => []DrainInv
BY TypeInit, TypeStep, DrainInit, DrainStep, PTL DEF Spec

\* finalize_jobs, request_cancel and the last lease of a cancelled job declare a
\* job finished only when none of its tasks can still run, and no later step
\* gives it one, however many jobs, URLs and workers there are.
THEOREM FinishedIsDrained == Spec => []FinishedJobIsDrained
<1>1. DrainInv => FinishedJobIsDrained
  BY DEF DrainInv
<1> QED BY <1>1, DrainCorrect, PTL

-----------------------------------------------------------------------------
\* Terminal states are final.

\* A transaction that terminalizes a leased task leaves what has ended alone.
LEMMA EndKeeps ==
  ASSUME TypeOK, DrainInv, NEW t \in Tasks, taskState[t] = "leased",
         \/ RejectInactiveLease(t)
         \/ ReapExhausted(t)
         \/ \E c \in Claims : /\ c.task = t
                              /\ \/ BlockRobots(c)
                                 \/ \E got \in Reports : FailTask(c, got) \/ CompleteOverBudget(c, got)
  PROVE  KeepsTerminal
<1>1. PICK s \in {"permanent_failed", "cancelled", "blocked_robots"},
           D \in SUBSET Unleased(t.job), cost \in [Meters -> Nat] :
           Terminalize(t, s, D, cost) /\ UNCHANGED results
  BY EndingStep
<1>2. jobState[t.job] \notin TerminalJobStates /\ t.job \in Jobs
  BY OriginKeyType DEF DrainInv, FinishedJobIsDrained
<1>3. \A x \in D : taskState[x] \notin TerminalTaskStates
  BY StatesApart DEF Unleased, TasksIn, LiveStates
<1>4. \A x \in Tasks : taskState[x] \in TerminalTaskStates => taskState'[x] = taskState[x]
  BY <1>1, <1>3, StatesApart DEF Terminalize, MoveTo, LiveStates
<1>5. \A j \in Jobs : jobState[j] \in TerminalJobStates => jobState'[j] = jobState[j]
  BY <1>1, <1>2 DEF Terminalize, TypeOK
<1> QED BY <1>1, <1>4, <1>5 DEF KeepsTerminal

\* One live task moves, the jobs and the results stay.
LEMMA MoveOneKeeps ==
  ASSUME TypeOK, UNCHANGED <<jobState, results>>, NEW t \in Tasks,
         taskState[t] \in LiveStates, NEW s, taskState' = [taskState EXCEPT ![t] = s]
  PROVE  KeepsTerminal
BY StatesApart DEF KeepsTerminal, TypeOK

\* sessions.close touches only tasks that are parked or leased.
LEMMA CloseKeeps ==
  ASSUME TypeOK, NEW t \in Tasks, NEW reason, NEW w, CloseSession(t, reason, w)
  PROVE  KeepsTerminal
<1>1. CASE Terminalized(t, reason, w)
  <2>1. taskState[t] \in LiveStates /\ UNCHANGED <<jobState, results>>
    BY <1>1 DEF Terminalized, LiveStates, UnleasedStates, CloseSession
  <2>2. PICK s : taskState' = [taskState EXCEPT ![t] = s]
    BY <1>1 DEF CloseSession
  <2> QED BY <2>1, <2>2, MoveOneKeeps
<1>2. CASE ~Terminalized(t, reason, w)
  BY <1>2 DEF CloseSession, KeepsTerminal
<1> QED BY <1>1, <1>2

\* claim_task touches only queued tasks and unfinished jobs.
LEMMA ClaimKeeps ==
  ASSUME TypeOK, NEW w \in Workers, NEW t \in Tasks,
         DeferClaim(w, t) \/ BusyClaim(w, t) \/ ExhaustedClaim(w, t) \/ ClaimTask(w, t)
  PROVE  KeepsTerminal
<1>1. CASE DeferClaim(w, t) \/ BusyClaim(w, t)
  BY <1>1 DEF DeferClaim, BusyClaim, jobVars, taskVars, KeepsTerminal
<1>2. CASE ExhaustedClaim(w, t)
  <2>1. \A x \in Tasks : taskState[x] \in TerminalTaskStates => taskState'[x] = taskState[x]
    BY <1>2, StatesApart DEF ExhaustedClaim, MoveTo, Unleased, TasksIn, LiveStates
  <2> QED BY <1>2, <2>1 DEF ExhaustedClaim, KeepsTerminal
<1>3. CASE ClaimTask(w, t)
  <2>1. taskState[t] \in LiveStates /\ taskState' = [taskState EXCEPT ![t] = "leased"]
    BY <1>3 DEF ClaimTask, ClaimGuard, Eligible, LiveStates, UnleasedStates, Lease
  <2>2. \A x \in Tasks : taskState[x] \in TerminalTaskStates => taskState'[x] = taskState[x]
    BY <2>1, StatesApart DEF TypeOK
  <2>3. \/ jobState' = jobState
        \/ jobState[t.job] = "pending" /\ jobState' = [jobState EXCEPT ![t.job] = "running"]
    BY <1>3 DEF ClaimTask
  <2>4. \A j \in Jobs : jobState[j] \in TerminalJobStates => jobState'[j] = jobState[j]
    BY <2>3, StatesApart DEF TypeOK
  <2> QED BY <1>3, <2>2, <2>4 DEF ClaimTask, KeepsTerminal
<1> QED BY <1>1, <1>2, <1>3

\* complete_task changes a leased task, absent rows and a result that is not there.
LEMMA CompleteKeeps ==
  ASSUME TypeOK, NEW c \in Claims, NEW got \in Reports, NEW links \in SUBSET Urls,
         CompleteTask(c, got, links)
  PROVE  KeepsTerminal
<1>1. c.task \in Tasks /\ taskState[c.task] = "leased" /\ jobState' = jobState
  BY DEF Claims, CompleteTask, Fenced
<1>2. PICK A \in SUBSET Discoverable(c.task, links) :
        taskState' = [MoveTo({TaskOf(c.task.job, u) : u \in A}, "pending")
                         EXCEPT ![c.task] = "succeeded"]
  BY DEF CompleteTask, Accepted
<1>3. \A u \in A : taskState[TaskOf(c.task.job, u)] = "absent"
  BY DEF Discoverable
<1>4. \A x \in Tasks : taskState[x] \in TerminalTaskStates => taskState'[x] = taskState[x]
  BY <1>1, <1>2, <1>3, StatesApart DEF MoveTo, LiveStates
<1>5. \A x \in Tasks : results[x] # 0 => results'[x] = results[x]
  BY <1>1 DEF CompleteTask, TypeOK
<1> QED BY <1>1, <1>4, <1>5 DEF KeepsTerminal

\* submit_job finds no row of the job, request_cancel and finalize_jobs only
\* unfinished jobs.
LEMMA JobKeeps ==
  ASSUME TypeOK, DrainInv, NEW j \in Jobs, SubmitJob(j) \/ RequestCancel(j) \/ FinalizeJob(j)
  PROVE  KeepsTerminal
<1>1. jobState[j] \notin TerminalJobStates /\ UNCHANGED results
  BY StatesApart DEF SubmitJob, RequestCancel, FinalizeJob
<1>2. PICK s : jobState' = [jobState EXCEPT ![j] = s]
  BY DEF SubmitJob, RequestCancel, FinalizeJob, TypeOK
<1>3. ASSUME NEW x \in Tasks, taskState[x] \in TerminalTaskStates
      PROVE  taskState'[x] = taskState[x]
  <2>1. CASE SubmitJob(j)
    <3>1. TaskOf(j, Seed[j]) \in Tasks /\ TaskOf(j, Seed[j]).job = j
      BY TablesAssumption DEF TaskOf, Tasks
    <3>2. taskState[TaskOf(j, Seed[j])] = "absent"
      BY <2>1, <3>1 DEF SubmitJob, DrainInv, TasksHaveJob
    <3> QED BY <1>3, <2>1, <3>1, <3>2, StatesApart DEF SubmitJob, TypeOK
  <2>2. CASE RequestCancel(j) \/ FinalizeJob(j)
    <3>1. x \notin Unleased(j)
      BY <1>3, StatesApart DEF Unleased, TasksIn, LiveStates
    <3> QED BY <2>2, <3>1 DEF RequestCancel, FinalizeJob, MoveTo
  <2> QED BY <2>1, <2>2
<1> QED BY <1>1, <1>2, <1>3 DEF KeepsTerminal, TypeOK

\* No step of the system changes a terminal state or a stored result.
LEMMA KeepsStep == TypeOK /\ DrainInv /\ [Next]_vars => [KeepsTerminal]_vars
<1> SUFFICES ASSUME TypeOK, DrainInv, Next PROVE KeepsTerminal
  OBVIOUS
<1>0. \A c \in claims \cup runners : c \in Claims /\ c.task \in Tasks
  BY DEF TypeOK, Claims
<1>1. CASE ClientStep
  BY <1>1, JobKeeps DEF ClientStep
<1>2. CASE ClaimStep
  BY <1>2, ClaimKeeps DEF ClaimStep
<1>3. CASE CompleteStep
  <2>1. PICK c \in claims \cup runners, got \in Reports :
           CompleteOverBudget(c, got) \/ \E links \in SUBSET Urls : CompleteTask(c, got, links)
    BY <1>3 DEF CompleteStep
  <2>2. CASE CompleteOverBudget(c, got)
    <3>1. taskState[c.task] = "leased"
      BY <2>2 DEF CompleteOverBudget, Fenced
    <3> QED BY <1>0, <2>2, <3>1, EndKeeps
  <2> QED BY <1>0, <2>1, <2>2, CompleteKeeps
<1>4. CASE WorkerStep
  <2>1. PICK c \in claims :
          \/ Heartbeat(c) \/ ReserveBrowserNavigation(c) \/ BlockRobots(c)
          \/ WaitForInput(c) \/ EndRun(c)
          \/ \E got \in Reports : FailTask(c, got) \/ \E d \in RetryDelays : RetryTask(c, got, d)
    BY <1>4 DEF WorkerStep
  <2>2. CASE Heartbeat(c) \/ ReserveBrowserNavigation(c) \/ EndRun(c)
    BY <2>2 DEF Heartbeat, ReserveBrowserNavigation, EndRun, jobVars, taskVars, KeepsTerminal
  <2>3. CASE BlockRobots(c) \/ \E got \in Reports : FailTask(c, got)
    <3>1. taskState[c.task] = "leased"
      BY <2>3 DEF BlockRobots, FailTask, Fenced
    <3> QED BY <1>0, <2>3, <3>1, EndKeeps
  <2>4. CASE WaitForInput(c) \/ \E got \in Reports, d \in RetryDelays : RetryTask(c, got, d)
    <3>1. taskState[c.task] = "leased" /\ UNCHANGED <<jobState, results>>
      BY <2>4 DEF WaitForInput, RetryTask, Fenced
    <3>2. PICK s : taskState' = [taskState EXCEPT ![c.task] = s]
      BY <2>4 DEF WaitForInput, RetryTask, Requeue
    <3> QED BY <1>0, <3>1, <3>2, MoveOneKeeps DEF LiveStates
  <2> QED BY <2>1, <2>2, <2>3, <2>4
<1>5. CASE RejectStep
  <2>1. PICK c \in claims \cup runners : RejectedCall(c)
    BY <1>5 DEF RejectStep
  <2> QED BY <1>0, <2>1, EndKeeps DEF RejectedCall, Fenced
<1>6. CASE RunnerStep
  <2>1. PICK r \in runners :
          ResumeLiveSession(r) \/ CloseCompleted(r) \/ RunnerFails(r) \/ RunnerEnds(r)
    BY <1>6 DEF RunnerStep
  <2>2. CASE ResumeLiveSession(r)
    <3>1. /\ taskState[r.task] \in LiveStates /\ UNCHANGED <<jobState, results>>
          /\ taskState' = [taskState EXCEPT ![r.task] = "leased"]
      BY <2>2 DEF ResumeLiveSession, ResumeGuard, Lease, LiveStates, UnleasedStates
    <3> QED BY <1>0, <3>1, MoveOneKeeps
  <2>3. CASE CloseCompleted(r) \/ RunnerEnds(r)
    BY <2>3 DEF CloseCompleted, RunnerEnds, jobVars, taskVars, KeepsTerminal
  <2>4. CASE RunnerFails(r)
    BY <1>0, <2>4, CloseKeeps DEF RunnerFails
  <2> QED BY <2>1, <2>2, <2>3, <2>4
<1>7. CASE HumanStep
  <2>1. PICK t \in Tasks : Touch(t) \/ RequestResume(t) \/ CancelSession(t)
    BY <1>7 DEF HumanStep
  <2>2. CASE Touch(t) \/ RequestResume(t)
    BY <2>2 DEF Touch, RequestResume, jobVars, taskVars, KeepsTerminal
  <2>3. CASE CancelSession(t)
    BY <2>3, CloseKeeps DEF CancelSession
  <2> QED BY <2>1, <2>2, <2>3
<1>8. CASE MaintenanceStep
  <2>1. ASSUME NEW t \in Tasks, ReapLease(t) PROVE KeepsTerminal
    <3>1. taskState[t] = "leased"
      BY <2>1 DEF ReapLease, ReapInactive, ReapExhausted, ReapRetry, LeaseExpired
    <3>2. CASE ReapInactive(t) \/ ReapExhausted(t)
      BY <3>1, <3>2, EndKeeps DEF ReapInactive
    <3>3. CASE ReapRetry(t)
      <4>1. /\ UNCHANGED <<jobState, results>>
            /\ taskState' = [taskState EXCEPT ![t] = "retry_wait"]
        BY <3>3 DEF ReapRetry, Requeue
      <4> QED BY <3>1, <4>1, MoveOneKeeps DEF LiveStates
    <3> QED BY <2>1, <3>2, <3>3 DEF ReapLease
  <2>2. ASSUME NEW t \in Tasks, ExpireSession(t) PROVE KeepsTerminal
    <3>1. \A x \in Tasks : taskState[x] \in TerminalTaskStates => taskState'[x] = taskState[x]
      BY <2>2 DEF ExpireSession, TypeOK, TerminalTaskStates, FailedStates
    <3> QED BY <2>2, <3>1 DEF ExpireSession, KeepsTerminal
  <2> QED BY <1>8, <2>1, <2>2, JobKeeps DEF MaintenanceStep
<1>9. CASE Tick
  BY <1>9 DEF Tick, jobVars, taskVars, KeepsTerminal
<1> QED BY <1>1, <1>2, <1>3, <1>4, <1>5, <1>6, <1>7, <1>8, <1>9 DEF Next

\* No transaction moves a finished task or job or replaces a stored result: a
\* stale worker, the reaper, a late cancellation and a session that is closed
\* twice all meet a state guard.  A job's state needs DrainInv: _terminalize
\* writes "cancelled" without looking at the state it replaces.
THEOREM TerminalStatesAreFinal == Spec => TerminalIsFinal
BY TypeCorrect, DrainCorrect, KeepsStep, PTL DEF Spec, TerminalIsFinal
=============================================================================
