----------------------------- MODULE QueueProofs -----------------------------
(***************************************************************************)
(* What a job reports about its tasks, for every instance: the counters    *)
(* are the numbers of rows, the limits bind, results and outcomes are      *)
(* true, no parked task is stranded.  And the refinement: CrawlSystem      *)
(* implements FencedQueue.                                                 *)
(***************************************************************************)
EXTENDS LeaseProofs

\* What claim_task may take, now or once it is found, has an attempt left.
Retryable == {"absent", "pending", "retry_wait"}
QueuedHasAttempt == \A t \in Tasks : taskState[t] \in Retryable => attempts[t] < MaxAttempts

\* Sessions are for the jobs that allow human input.
PlainJobsHaveNoSession ==
    \A t \in Tasks : t.job \notin InteractiveJobs =>
        session[t].state = "none" /\ taskState[t] # "waiting_input"

\* At the failure limit a job that parks nothing has nothing left that could
\* queue again: no lease either.
FailureLimitEnds ==
    \A j \in Jobs \ InteractiveJobs :
        count[j].failed >= MaxFailures => TasksIn(j, LiveStates) = {}

\* The inductive invariant of what a job reports.
ReportInv ==
    /\ CountersReconcile /\ PageLimit
    /\ AttemptsBounded /\ QueuedHasAttempt
    /\ ResultIffSucceeded /\ OutcomeIsTrue
    /\ ParkedHasSession /\ PlainJobsHaveNoSession /\ FailureLimitEnds

-----------------------------------------------------------------------------
\* Counting rows.

\* The number of rows of a set and of rows outside it.
LEMMA CountBoth ==
  ASSUME NEW X \in SUBSET Tasks, NEW D \in SUBSET Tasks, X \cap D = {}
  PROVE  Cardinality(X \cup D) = Cardinality(X) + Cardinality(D)
<1>1. IsFiniteSet(X) /\ IsFiniteSet(D)
  BY TasksFinite, FS_Subset
<1>2. Cardinality(X \cap D) = 0
  BY FS_EmptySet
<1>3. Cardinality(X) \in Nat /\ Cardinality(D) \in Nat
  BY CardinalityOfTasks
<1>4. Cardinality(X \cup D) = Cardinality(X) + Cardinality(D) - Cardinality(X \cap D)
  BY <1>1, FS_Union
<1> QED BY <1>2, <1>3, <1>4

\* One row counts once, no row not at all.
LEMMA CountFew == Cardinality({}) = 0 /\ \A t : Cardinality({t}) = 1
BY FS_EmptySet, FS_Singleton

\* The four kinds of rows a job counts.
Discovered == TaskStates \ {"absent"}

\* What Tally does to the counters.
LEMMA TallyFields ==
  ASSUME TypeOK, NEW j \in Jobs, NEW d, NEW e, NEW s, NEW f, Tally(j, d, e, s, f)
  PROVE  /\ count'[j].discovered = count[j].discovered + d
         /\ count'[j].terminal = count[j].terminal + e
         /\ count'[j].succeeded = count[j].succeeded + s
         /\ count'[j].failed = count[j].failed + f
         /\ \A i \in Jobs : i # j => count'[i] = count[i]
BY DEF Tally, TypeOK

\* A transaction that adds the tasks New to job j and ends the tasks Ended, Good
\* of them with success and Bad of them with a failure, and says so to the
\* counters, keeps them exact.
LEMMA TallyExact ==
  ASSUME TypeOK, TypeOK', CountersReconcile, NEW j \in Jobs,
         NEW New \in SUBSET Tasks, NEW Ended \in SUBSET Tasks,
         NEW Good \in SUBSET Ended, NEW Bad \in SUBSET Ended,
         \A x \in New \cup Ended : x.job = j,
         \A x \in Tasks \ (New \cup Ended) :
            \/ taskState'[x] = taskState[x]
            \/ taskState[x] \in LiveStates /\ taskState'[x] \in LiveStates,
         \A x \in New : taskState[x] = "absent" /\ taskState'[x] \in LiveStates,
         \A x \in Ended : /\ taskState[x] \in LiveStates /\ taskState'[x] \in TerminalTaskStates
                          /\ taskState'[x] = "succeeded" <=> x \in Good
                          /\ taskState'[x] \in FailedStates <=> x \in Bad,
         NEW d, NEW e, NEW s, NEW f, Tally(j, d, e, s, f),
         d = Cardinality(New), e = Cardinality(Ended), s = Cardinality(Good), f = Cardinality(Bad)
  PROVE  CountersReconcile'
<1> DEFINE Add(S, X) == Cardinality(TasksIn(j, S)') = Cardinality(TasksIn(j, S)) + Cardinality(X)
<1>0. /\ "succeeded" \in TerminalTaskStates /\ FailedStates \subseteq TerminalTaskStates
      /\ LiveStates \subseteq Discovered /\ TerminalTaskStates \subseteq Discovered
      /\ "succeeded" \notin FailedStates
      /\ "absent" \notin Discovered /\ LiveStates \cap TerminalTaskStates = {}
  BY DEF TerminalTaskStates, FailedStates, LiveStates, UnleasedStates, Discovered, TaskStates
<1>1. Add(Discovered, New)
  <2>1. TasksIn(j, Discovered)' = TasksIn(j, Discovered) \cup New
    BY <1>0 DEF TasksIn
  <2>2. TasksIn(j, Discovered) \cap New = {} /\ TasksIn(j, Discovered) \subseteq Tasks
    BY <1>0 DEF TasksIn
  <2> QED BY <2>1, <2>2, CountBoth
<1>2. Add(TerminalTaskStates, Ended)
  <2>1. TasksIn(j, TerminalTaskStates)' = TasksIn(j, TerminalTaskStates) \cup Ended
    BY <1>0 DEF TasksIn
  <2>2. /\ TasksIn(j, TerminalTaskStates) \cap Ended = {}
        /\ TasksIn(j, TerminalTaskStates) \subseteq Tasks
    BY <1>0 DEF TasksIn
  <2> QED BY <2>1, <2>2, CountBoth
<1>3. Add({"succeeded"}, Good)
  <2>1. TasksIn(j, {"succeeded"})' = TasksIn(j, {"succeeded"}) \cup Good
    BY <1>0 DEF TasksIn
  <2>2. TasksIn(j, {"succeeded"}) \cap Good = {} /\ TasksIn(j, {"succeeded"}) \subseteq Tasks
    BY <1>0 DEF TasksIn
  <2> QED BY <2>1, <2>2, CountBoth
<1>4. Add(FailedStates, Bad)
  <2>1. TasksIn(j, FailedStates)' = TasksIn(j, FailedStates) \cup Bad
    BY <1>0 DEF TasksIn
  <2>2. TasksIn(j, FailedStates) \cap Bad = {} /\ TasksIn(j, FailedStates) \subseteq Tasks
    BY <1>0 DEF TasksIn
  <2> QED BY <2>1, <2>2, CountBoth
<1>5. ASSUME NEW i \in Jobs, i # j,
             NEW S \in {Discovered, TerminalTaskStates, {"succeeded"}, FailedStates}
      PROVE  TasksIn(i, S)' = TasksIn(i, S)
  <2>1. \A x \in Tasks : x.job = i => \/ taskState'[x] = taskState[x]
                                      \/ taskState[x] \in LiveStates /\ taskState'[x] \in LiveStates
    BY <1>5
  <2>2. LiveStates \subseteq S \/ LiveStates \cap S = {}
    BY <1>0
  <2> QED BY <2>1, <2>2 DEF TasksIn
<1>6. /\ count'[j].discovered = count[j].discovered + d
      /\ count'[j].terminal = count[j].terminal + e
      /\ count'[j].succeeded = count[j].succeeded + s
      /\ count'[j].failed = count[j].failed + f
      /\ \A i \in Jobs : i # j => count'[i] = count[i]
  BY TallyFields
<1> DEFINE Exact(i) ==
             /\ count[i].discovered = Cardinality(TasksIn(i, Discovered))
             /\ count[i].terminal = Cardinality(TasksIn(i, TerminalTaskStates))
             /\ count[i].succeeded = Cardinality(TasksIn(i, {"succeeded"}))
             /\ count[i].failed = Cardinality(TasksIn(i, FailedStates))
<1>7. \A i \in Jobs : Exact(i)
  BY DEF CountersReconcile, Discovered
<1>8. Exact(j)'
  BY <1>1, <1>2, <1>3, <1>4, <1>6, <1>7
<1>9. ASSUME NEW i \in Jobs, i # j
      PROVE  Exact(i)'
  BY <1>5, <1>6, <1>7, <1>9
<1> QED BY <1>8, <1>9 DEF CountersReconcile, Discovered

\* A step that counts nothing, discovers nothing and ends nothing.
LEMMA TallyQuiet ==
  ASSUME TypeOK, CountersReconcile, UNCHANGED count,
         \A x \in Tasks : \/ taskState'[x] = taskState[x]
                          \/ taskState[x] \in LiveStates /\ taskState'[x] \in LiveStates
  PROVE  CountersReconcile'
<1>0. /\ LiveStates \subseteq Discovered /\ LiveStates \cap TerminalTaskStates = {}
      /\ FailedStates \cup {"succeeded"} \subseteq TerminalTaskStates
  BY DEF TerminalTaskStates, FailedStates, LiveStates, UnleasedStates, Discovered, TaskStates
<1>1. ASSUME NEW i \in Jobs, NEW S \in {Discovered, TerminalTaskStates, {"succeeded"}, FailedStates}
      PROVE  TasksIn(i, S)' = TasksIn(i, S)
  <2>1. LiveStates \subseteq S \/ LiveStates \cap S = {}
    BY <1>0
  <2> QED BY <2>1 DEF TasksIn
<1> QED BY <1>1 DEF CountersReconcile, Discovered

-----------------------------------------------------------------------------
\* What keeps each part of ReportInv.

\* The page limit binds the counter, and the counter is the number of rows.
LEMMA PagesKept ==
  ASSUME TypeOK', PageLimit, CountersReconcile, CountersReconcile',
         \A j \in Jobs : \/ count'[j].discovered = count[j].discovered
                         \/ count'[j].discovered <= MaxPages
  PROVE  PageLimit'
BY DEF PageLimit, CountersReconcile

\* No attempt is started, and nothing is queued again that has none left.
LEMMA AttemptsKept ==
  ASSUME AttemptsBounded, QueuedHasAttempt, UNCHANGED attempts,
         \A x \in Tasks : taskState'[x] \in Retryable =>
                            taskState[x] \in Retryable \/ attempts[x] < MaxAttempts
  PROVE  AttemptsBounded' /\ QueuedHasAttempt'
BY DEF AttemptsBounded, QueuedHasAttempt, Retryable

\* Nothing succeeds and no result is stored.
LEMMA ResultsKept ==
  ASSUME ResultIffSucceeded, UNCHANGED results,
         \A x \in Tasks : taskState'[x] = "succeeded" <=> taskState[x] = "succeeded"
  PROVE  ResultIffSucceeded'
BY DEF ResultIffSucceeded

\* No job finishes, except that a cancelled one may.
JobsKept ==
    \A j \in Jobs :
        /\ jobState[j] \in TerminalJobStates => cancelRequested'[j] = cancelRequested[j]
        /\ jobState'[j] \in TerminalJobStates =>
              jobState[j] \in TerminalJobStates \/ (jobState'[j] = "cancelled" /\ cancelRequested'[j])

\* Then the outcomes stay true, because a finished job has no task left that
\* could still end.
LEMMA OutcomesKept ==
  ASSUME TypeOK, TypeOK', DrainInv, OutcomeIsTrue, KeepsTerminal,
         \A x \in Tasks : taskState[x] = "absent" => taskState'[x] \in {"absent", "pending"},
         JobsKept
  PROVE  OutcomeIsTrue'
<1>1. SUFFICES ASSUME NEW j \in Jobs, jobState'[j] \in TerminalJobStates
      PROVE /\ jobState'[j] = "completed" => TasksIn(j, FailedStates)' = {}
            /\ jobState'[j] = "partial" => /\ TasksIn(j, {"succeeded"})' # {}
                                           /\ TasksIn(j, FailedStates)' # {}
            /\ jobState'[j] = "failed" => TasksIn(j, {"succeeded"})' = {}
            /\ jobState'[j] = "cancelled" <=> cancelRequested'[j]
  BY DEF OutcomeIsTrue, TerminalJobStates
<1>2. CASE jobState[j] \in TerminalJobStates
  <2>1. jobState'[j] = jobState[j] /\ cancelRequested'[j] = cancelRequested[j]
    BY <1>2 DEF KeepsTerminal, JobsKept
  <2>2. \A x \in Tasks : x.job = j => \/ taskState'[x] = taskState[x]
                                      \/ taskState[x] = "absent" /\ taskState'[x] = "pending"
    BY <1>2 DEF DrainInv, FinishedJobIsDrained, KeepsTerminal, TypeOK, TaskStates
  <2>3. TasksIn(j, FailedStates)' = TasksIn(j, FailedStates)
    BY <2>2 DEF TasksIn, FailedStates
  <2>4. TasksIn(j, {"succeeded"})' = TasksIn(j, {"succeeded"})
    BY <2>2 DEF TasksIn
  <2> QED BY <1>2, <2>1, <2>3, <2>4 DEF OutcomeIsTrue
<1>3. CASE jobState[j] \notin TerminalJobStates
  BY <1>1, <1>3 DEF JobsKept
<1> QED BY <1>2, <1>3

\* Nothing is parked, no open session of a parked task ends, no session starts.
LEMMA SessionsKept ==
  ASSUME ParkedHasSession, PlainJobsHaveNoSession,
         \A x \in Tasks : taskState'[x] = "waiting_input" =>
            taskState[x] = "waiting_input" /\ session'[x].state \in OpenSessionStates,
         \A x \in Tasks : session[x].state = "none" => session'[x].state = "none"
  PROVE  ParkedHasSession' /\ PlainJobsHaveNoSession'
BY DEF ParkedHasSession, PlainJobsHaveNoSession

\* A job that is at the failure limit stays drained.
LEMMA FailuresKept ==
  ASSUME FailureLimitEnds,
         \A j \in Jobs \ InteractiveJobs :
            \/ ~(count'[j].failed >= MaxFailures)
            \/ TasksIn(j, LiveStates)' = {}
            \/ /\ count'[j].failed = count[j].failed
               /\ \A x \in Tasks : x.job = j /\ taskState'[x] \in LiveStates => taskState[x] \in LiveStates
  PROVE  FailureLimitEnds'
<1>1. SUFFICES ASSUME NEW j \in Jobs \ InteractiveJobs, count'[j].failed >= MaxFailures
               PROVE  TasksIn(j, LiveStates)' = {}
  BY DEF FailureLimitEnds
<1>2. CASE /\ count'[j].failed = count[j].failed
           /\ \A x \in Tasks : x.job = j /\ taskState'[x] \in LiveStates => taskState[x] \in LiveStates
  <2>1. TasksIn(j, LiveStates) = {}
    BY <1>1, <1>2 DEF FailureLimitEnds
  <2> QED BY <1>2, <2>1 DEF TasksIn
<1> QED BY <1>1, <1>2

\* The steps that start no attempt, find nothing, store no result and park
\* nothing keep ReportInv if they keep the counters and the failure limit.
LEMMA ReportKept ==
  ASSUME TypeOK, TypeOK', DrainInv, ReportInv, CountersReconcile', FailureLimitEnds', KeepsTerminal,
         UNCHANGED <<attempts, results>>,
         \A x \in Tasks :
            \/ taskState'[x] = taskState[x]
            \/ /\ taskState[x] \in LiveStates
               /\ \/ taskState'[x] \in TerminalTaskStates \ {"succeeded"}
                  \/ taskState'[x] = "leased"
                  \/ taskState'[x] = "retry_wait" /\ attempts[x] < MaxAttempts,
         \A j \in Jobs : count'[j].discovered = count[j].discovered,
         \A x \in Tasks : /\ session[x].state = "none" => session'[x].state = "none"
                          /\ taskState'[x] = "waiting_input" => session'[x].state \in OpenSessionStates,
         JobsKept \/ OutcomeIsTrue'
  PROVE  ReportInv'
<1>1. /\ LiveStates = {"pending", "retry_wait", "waiting_input", "leased"}
      /\ TerminalTaskStates \cap {"absent", "pending", "retry_wait", "waiting_input", "leased"} = {}
      /\ "succeeded" \in TerminalTaskStates
  BY DEF TerminalTaskStates, FailedStates, LiveStates, UnleasedStates
<1>2. PageLimit'
  BY PagesKept DEF ReportInv
<1>3. AttemptsBounded' /\ QueuedHasAttempt'
  <2>1. \A x \in Tasks : taskState'[x] \in Retryable =>
                            taskState[x] \in Retryable \/ attempts[x] < MaxAttempts
    BY <1>1 DEF Retryable
  <2> QED BY <2>1, AttemptsKept DEF ReportInv
<1>4. ResultIffSucceeded'
  <2>1. \A x \in Tasks : taskState'[x] = "succeeded" <=> taskState[x] = "succeeded"
    BY <1>1
  <2> QED BY <2>1, ResultsKept DEF ReportInv
<1>5. OutcomeIsTrue'
  <2>1. \A x \in Tasks : taskState[x] = "absent" => taskState'[x] \in {"absent", "pending"}
    BY <1>1
  <2> QED BY <2>1, OutcomesKept DEF ReportInv
<1>6. ParkedHasSession' /\ PlainJobsHaveNoSession'
  <2>1. \A x \in Tasks : taskState'[x] = "waiting_input" => taskState[x] = "waiting_input"
    BY <1>1
  <2> QED BY <2>1, SessionsKept DEF ReportInv
<1> QED BY <1>2, <1>3, <1>4, <1>5, <1>6 DEF ReportInv

-----------------------------------------------------------------------------
\* The actions.

\* Steps that move no task and no job: calls that only renew, count browser
\* pages, put off a claim, or tell a session row that its client is there.
LEMMA QuietReport ==
  ASSUME TypeOK, TypeOK', DrainInv, ReportInv, KeepsTerminal,
         UNCHANGED <<taskState, count, attempts, results, jobState, cancelRequested>>,
         \A x \in Tasks : /\ session[x].state = "none" => session'[x].state = "none"
                          /\ taskState[x] = "waiting_input" => session'[x].state \in OpenSessionStates
  PROVE  ReportInv'
<1>1. CountersReconcile'
  BY TallyQuiet DEF ReportInv
<1>2. FailureLimitEnds'
  BY FailuresKept DEF ReportInv
<1> QED BY <1>1, <1>2, ReportKept DEF JobsKept

\* A transaction ends the live tasks Ended of job j, Bad of them as failures.
LEMMA EndedReport ==
  ASSUME TypeOK, TypeOK', DrainInv, ReportInv, KeepsTerminal, NEW j \in Jobs,
         NEW Ended \in SUBSET TasksIn(j, LiveStates), NEW Bad \in SUBSET Ended,
         \A x \in Tasks \ Ended : taskState'[x] = taskState[x],
         \A x \in Ended : /\ taskState'[x] \in TerminalTaskStates \ {"succeeded"}
                          /\ taskState'[x] \in FailedStates <=> x \in Bad,
         NEW e, NEW f, Tally(j, 0, e, 0, f), e = Cardinality(Ended), f = Cardinality(Bad),
         \/ j \in InteractiveJobs \/ Bad = {} \/ Ended = TasksIn(j, LiveStates)
         \/ ~(count'[j].failed >= MaxFailures),
         UNCHANGED <<attempts, results>>,
         \A x \in Tasks : /\ session[x].state = "none" => session'[x].state = "none"
                          /\ taskState'[x] = "waiting_input" => session'[x].state \in OpenSessionStates,
         JobsKept \/ OutcomeIsTrue'
  PROVE  ReportInv'
<1>1. /\ Ended \in SUBSET Tasks /\ \A x \in Ended : x.job = j /\ taskState[x] \in LiveStates
      /\ TerminalTaskStates \cap LiveStates = {}
  BY StatesApart DEF TasksIn
<1>2. CountersReconcile'
  BY <1>1, CountFew, TallyExact, {} \in SUBSET Tasks, {} \in SUBSET Ended DEF ReportInv
<1>3. /\ \A i \in Jobs : i # j => count'[i] = count[i]
      /\ count'[j].failed = count[j].failed + f
      /\ count'[j].discovered = count[j].discovered + 0
  BY TallyFields
<1>4. \A x \in Tasks : taskState'[x] \in LiveStates => taskState[x] \in LiveStates
  BY <1>1
<1>5. ASSUME NEW i \in Jobs \ InteractiveJobs
      PROVE  \/ ~(count'[i].failed >= MaxFailures)
             \/ TasksIn(i, LiveStates)' = {}
             \/ count'[i].failed = count[i].failed
  <2>1. CASE i = j /\ Bad = {}
    <3>1. count[j].failed \in Nat /\ f = 0
      BY <2>1, CountFew DEF TypeOK, Counters
    <3> QED BY <1>3, <2>1, <3>1
  <2>2. CASE i = j /\ Ended = TasksIn(j, LiveStates)
    BY <1>1, <1>4, <2>2 DEF TasksIn
  <2> QED BY <1>3, <2>1, <2>2
<1>6. FailureLimitEnds'
  BY <1>4, <1>5, FailuresKept DEF ReportInv
<1>7. \A i \in Jobs : count'[i].discovered = count[i].discovered
  <2>1. count[j].discovered \in Nat
    BY DEF TypeOK, Counters
  <2> QED BY <1>3, <2>1
<1> QED BY <1>1, <1>2, <1>6, <1>7, ReportKept

\* A live task is leased, or queued again with an attempt left.
LEMMA MovedReport ==
  ASSUME TypeOK, TypeOK', DrainInv, ReportInv, KeepsTerminal, NEW t \in Tasks,
         taskState[t] \in LiveStates, NEW s \in {"leased", "retry_wait"},
         s = "retry_wait" => attempts[t] < MaxAttempts,
         taskState' = [taskState EXCEPT ![t] = s],
         UNCHANGED <<count, attempts, results, jobState, cancelRequested, session>>
  PROVE  ReportInv'
<1>1. taskState'[t] = s /\ \A x \in Tasks : x # t => taskState'[x] = taskState[x]
  BY DEF TypeOK
<1>2. s \in LiveStates
  BY DEF LiveStates, UnleasedStates
<1>3. CountersReconcile'
  BY <1>1, <1>2, TallyQuiet DEF ReportInv
<1>4. FailureLimitEnds'
  BY <1>1, FailuresKept DEF ReportInv
<1>5. \A x \in Tasks : taskState'[x] = "waiting_input" => session'[x].state \in OpenSessionStates
  BY <1>1 DEF ReportInv, ParkedHasSession
<1> QED BY <1>1, <1>3, <1>4, <1>5, ReportKept DEF JobsKept

\* A transaction that terminalizes a leased task.
LEMMA EndReport ==
  ASSUME TypeOK, TypeOK', DrainInv, LeaseInv, ReportInv, KeepsTerminal,
         NEW t \in Tasks, taskState[t] = "leased",
         \/ RejectInactiveLease(t)
         \/ ReapExhausted(t)
         \/ \E c \in Claims : /\ c.task = t
                              /\ \/ BlockRobots(c)
                                 \/ \E got \in Reports : FailTask(c, got) \/ CompleteOverBudget(c, got)
  PROVE  ReportInv'
<1> DEFINE j == t.job
<1>1. PICK s \in {"permanent_failed", "cancelled", "blocked_robots"},
           D \in SUBSET Unleased(j), cost \in [Meters -> Nat] :
           /\ Terminalize(t, s, D, cost)
           /\ UNCHANGED <<cancelRequested, attempts, results, session>>
           /\ \/ D = Unleased(j)
              \/ D = {} /\ (s = "permanent_failed" => ~(count[j].failed + 1 >= MaxFailures))
  BY EndingStep
<1> DEFINE Ended == D \cup {t}
           Bad == IF s = "permanent_failed" THEN Ended ELSE D
           f == Cardinality(D) + (IF s = "permanent_failed" THEN 1 ELSE 0)
<1>2. j \in Jobs
  BY OriginKeyType
<1>3. D \in SUBSET Tasks /\ {t} \in SUBSET Tasks /\ t \notin D
  BY DEF Unleased, TasksIn, UnleasedStates
<1>4. Ended \in SUBSET TasksIn(j, LiveStates) /\ Bad \in SUBSET Ended
  BY <1>3 DEF Unleased, TasksIn, LiveStates
<1>5. taskState' = [MoveTo(D, "permanent_failed") EXCEPT ![t] = s]
  BY <1>1 DEF Terminalize
<1>6. /\ taskState'[t] = s /\ \A x \in D : taskState'[x] = "permanent_failed"
      /\ \A x \in Tasks \ Ended : taskState'[x] = taskState[x]
  BY <1>3, <1>5 DEF MoveTo
<1>7. \A x \in Ended : /\ taskState'[x] \in TerminalTaskStates \ {"succeeded"}
                       /\ taskState'[x] \in FailedStates <=> x \in Bad
  BY <1>3, <1>6 DEF TerminalTaskStates, FailedStates
<1>8. Cardinality(Ended) = 1 + Cardinality(D) /\ f = Cardinality(Bad)
  <2>1. Cardinality(Ended) = Cardinality(D) + Cardinality({t}) /\ Cardinality({t}) = 1
    <3>1. D \cap {t} = {}
      BY <1>3
    <3>2. Cardinality(D \cup {t}) = Cardinality(D) + Cardinality({t})
      BY <1>3, <3>1, CountBoth
    <3> QED BY <3>2, CountFew
  <2>2. Cardinality(D) \in Nat
    BY <1>3, CardinalityOfTasks
  <2> QED BY <2>1, <2>2
<1>9. Tally(j, 0, Cardinality(Ended), 0, f)
  BY <1>1, <1>8 DEF Terminalize
<1>10. \/ Bad = {} \/ Ended = TasksIn(j, LiveStates) \/ ~(count'[j].failed >= MaxFailures)
  <2>1. CASE D = Unleased(j)
    <3>1. \A x \in TasksIn(j, {"leased"}) : x = t
      BY OneLeasePerJob DEF TasksIn
    <3> QED BY <1>4, <2>1, <3>1 DEF Unleased, TasksIn, LiveStates
  <2>2. CASE D = {} /\ s = "permanent_failed" /\ ~(count[j].failed + 1 >= MaxFailures)
    <3>1. f = 0 + 1 /\ count'[j].failed = count[j].failed + f
      BY <1>2, <1>9, <2>2, CountFew, TallyFields
    <3> QED BY <2>2, <3>1
  <2> QED BY <1>1, <2>1, <2>2
<1>11. \A x \in Tasks : taskState'[x] = "waiting_input" => session'[x].state \in OpenSessionStates
  <2>1. \A x \in Ended : taskState'[x] # "waiting_input"
    BY <1>7 DEF TerminalTaskStates, FailedStates
  <2> QED BY <1>1, <1>6, <2>1 DEF ReportInv, ParkedHasSession
<1>12. JobsKept
  BY <1>1, <1>2 DEF Terminalize, TypeOK, JobsKept
<1>13. UNCHANGED <<cancelRequested, attempts, results, session>>
  BY <1>1
<1> HIDE DEF Ended, Bad, f
<1> QED BY <1>2, <1>4, <1>6, <1>7, <1>8, <1>9, <1>10, <1>11, <1>12, <1>13, EndedReport

\* sessions.close and expire_due end the parked task with its session.  Only a
\* job that allows human input has one.
LEMMA SessionEndReport ==
  ASSUME TypeOK, TypeOK', DrainInv, ReportInv, KeepsTerminal, NEW t \in Tasks,
         \/ \E reason \in {"cancelled", "expired"} : \E w : CloseSession(t, reason, w)
         \/ ExpireSession(t)
  PROVE  ReportInv'
<1> DEFINE j == t.job
<1>1. /\ session[t].state \in OpenSessionStates
      /\ UNCHANGED <<cancelRequested, jobState, attempts, results>>
  BY DEF CloseSession, ExpireSession
<1>2. j \in Jobs /\ j \in InteractiveJobs
  BY <1>1, OriginKeyType DEF ReportInv, PlainJobsHaveNoSession, OpenSessionStates
<1>3. /\ \A x \in Tasks : session[x].state = "none" => session'[x].state = "none"
      /\ \A x \in Tasks : x # t => session'[x] = session[x]
  <2>1. PICK s : SetSession(t, s)
    BY DEF CloseSession, ExpireSession
  <2>2. session \in [Tasks -> SessionRows] /\ session[t].state # "none"
    BY <1>1 DEF TypeOK, OpenSessionStates
  <2>3. \A x \in Tasks : x # t => session'[x] = session[x]
    BY <2>1, <2>2 DEF SetSession
  <2> QED BY <2>2, <2>3
<1>4. CASE UNCHANGED <<taskState, count>> /\ taskState[t] # "waiting_input"
  <2>1. \A x \in Tasks : taskState[x] = "waiting_input" => session'[x].state \in OpenSessionStates
    BY <1>3, <1>4 DEF ReportInv, ParkedHasSession
  <2> QED BY <1>1, <1>3, <1>4, <2>1, QuietReport
<1>5. CASE /\ taskState[t] \in LiveStates
           /\ \/ taskState' = [taskState EXCEPT ![t] = "permanent_failed"] /\ Tally(j, 0, 1, 0, 1)
              \/ taskState' = [taskState EXCEPT ![t] = "cancelled"] /\ Tally(j, 0, 1, 0, 0)
  <2>1. PICK s \in {"permanent_failed", "cancelled"}, Bad \in {{}, {t}} :
           /\ taskState' = [taskState EXCEPT ![t] = s]
           /\ s = "permanent_failed" <=> Bad = {t}
           /\ Tally(j, 0, Cardinality({t}), 0, Cardinality(Bad))
    BY <1>5, CountFew
  <2>2. taskState'[t] = s /\ \A x \in Tasks \ {t} : taskState'[x] = taskState[x]
    BY <2>1 DEF TypeOK
  <2>3. \A x \in {t} : /\ taskState'[x] \in TerminalTaskStates \ {"succeeded"}
                       /\ taskState'[x] \in FailedStates <=> x \in Bad
    BY <2>1, <2>2 DEF TerminalTaskStates, FailedStates
  <2>4. {t} \in SUBSET TasksIn(j, LiveStates) /\ Bad \in SUBSET {t}
    BY <1>5 DEF TasksIn
  <2>5. \A x \in Tasks : taskState'[x] = "waiting_input" => session'[x].state \in OpenSessionStates
    BY <1>3, <2>1, <2>2 DEF ReportInv, ParkedHasSession
  <2> QED BY <1>1, <1>2, <1>3, <2>1, <2>2, <2>3, <2>4, <2>5, EndedReport DEF JobsKept
<1>6. CASE ExpireSession(t)
  BY <1>4, <1>5, <1>6 DEF ExpireSession, LiveStates, UnleasedStates
<1>7. ASSUME NEW reason \in {"cancelled", "expired"}, NEW w, CloseSession(t, reason, w)
      PROVE  ReportInv'
  <2>1. CASE Terminalized(t, reason, w)
    BY <1>5, <1>7, <2>1 DEF CloseSession, Terminalized, LiveStates, UnleasedStates
  <2>2. CASE ~Terminalized(t, reason, w)
    BY <1>4, <1>7, <2>2 DEF CloseSession, Terminalized
  <2> QED BY <2>1, <2>2
<1> QED BY <1>6, <1>7

\* request_cancel ends what the job has queued, without failures.
LEMMA CancelReport ==
  ASSUME TypeOK, TypeOK', DrainInv, ReportInv, KeepsTerminal, NEW j \in Jobs, RequestCancel(j)
  PROVE  ReportInv'
<1> DEFINE D == Unleased(j)
<1>1. /\ taskState' = MoveTo(D, "cancelled") /\ Tally(j, 0, Cardinality(D), 0, 0)
      /\ UNCHANGED <<attempts, results>> /\ jobState[j] \in {"pending", "running"}
      /\ cancelRequested' = [cancelRequested EXCEPT ![j] = TRUE]
      /\ jobState' = jobState \/ jobState' = [jobState EXCEPT ![j] = "cancelled"]
      /\ session' = [t \in Tasks |->
                      IF t \in D /\ session[t].state \in OpenSessionStates
                      THEN [state |-> "cancelled", expires_at |-> session[t].expires_at] ELSE session[t]]
  BY DEF RequestCancel
<1>2. D \in SUBSET TasksIn(j, LiveStates) /\ D \in SUBSET Tasks
  BY DEF Unleased, TasksIn, LiveStates
<1>3. /\ \A x \in D : taskState'[x] = "cancelled"
      /\ \A x \in Tasks \ D : taskState'[x] = taskState[x]
  BY <1>1, <1>2 DEF MoveTo
<1>4. \A x \in D : /\ taskState'[x] \in TerminalTaskStates \ {"succeeded"}
                   /\ taskState'[x] \in FailedStates <=> x \in {}
  BY <1>3 DEF TerminalTaskStates, FailedStates
<1>5. \A x \in Tasks : /\ session[x].state = "none" => session'[x].state = "none"
                       /\ taskState'[x] = "waiting_input" => session'[x].state \in OpenSessionStates
  BY <1>1, <1>3 DEF ReportInv, ParkedHasSession, OpenSessionStates
<1>6. JobsKept
  BY <1>1, StatesApart DEF TypeOK, JobsKept
<1>7. Cardinality({}) = 0 /\ {} \in SUBSET D
  BY CountFew
<1> QED BY <1>1, <1>2, <1>3, <1>4, <1>5, <1>6, <1>7, EndedReport

\* A claim that finds the budget spent fails what the job has queued.  The origin
\* is free, so the job has no lease: nothing of it is left.
LEMMA ExhaustedReport ==
  ASSUME TypeOK, TypeOK', DrainInv, LeaseInv, ReportInv, KeepsTerminal,
         NEW w \in Workers, NEW t \in Tasks, ExhaustedClaim(w, t)
  PROVE  ReportInv'
<1> DEFINE j == t.job
           D == Unleased(j)
           n == Cardinality(D)
<1>1. /\ taskState' = MoveTo(D, "permanent_failed") /\ Tally(j, 0, n, 0, n)
      /\ UNCHANGED <<attempts, results, session, jobState, cancelRequested>>
      /\ ~OriginBusy(OriginKey(t)) /\ taskState[t] \in {"pending", "retry_wait"}
  BY DEF ExhaustedClaim, Eligible
<1>2. D \in SUBSET Tasks /\ j \in Jobs
  BY OriginKeyType DEF Unleased, TasksIn
<1>3. D = TasksIn(j, LiveStates)
  <2>1. ASSUME NEW x \in Tasks, x.job = j, taskState[x] = "leased" PROVE FALSE
    <3>1. OriginKey(x) = OriginKey(t)
      BY <1>1, <2>1 DEF LeaseInv, OneOriginPerJob
    <3>2. [origin |-> OriginKey(x), task |-> x, token |-> token[x]] \in originLeases
      BY <2>1, PermitOf
    <3> QED BY <1>1, <3>1, <3>2 DEF OriginBusy
  <2> QED BY <2>1 DEF Unleased, TasksIn, LiveStates
<1>4. /\ \A x \in D : taskState'[x] = "permanent_failed"
      /\ \A x \in Tasks \ D : taskState'[x] = taskState[x]
  BY <1>1, <1>2 DEF MoveTo
<1>5. \A x \in D : /\ taskState'[x] \in TerminalTaskStates \ {"succeeded"}
                   /\ taskState'[x] \in FailedStates <=> x \in D
  BY <1>4 DEF TerminalTaskStates, FailedStates
<1>6. \A x \in Tasks : taskState'[x] = "waiting_input" => session'[x].state \in OpenSessionStates
  BY <1>1, <1>4 DEF ReportInv, ParkedHasSession
<1> HIDE DEF D
<1> QED BY <1>1, <1>2, <1>3, <1>4, <1>5, <1>6, EndedReport DEF JobsKept

\* claim_task starts an attempt, the last one at most.
LEMMA ClaimReport ==
  ASSUME TypeOK, TypeOK', DrainInv, ReportInv, KeepsTerminal,
         NEW w \in Workers, NEW t \in Tasks, ClaimTask(w, t)
  PROVE  ReportInv'
<1>1. /\ taskState' = [taskState EXCEPT ![t] = "leased"]
      /\ attempts' = [attempts EXCEPT ![t] = @ + 1]
      /\ taskState[t] \in {"pending", "retry_wait"}
      /\ UNCHANGED <<count, results, session, cancelRequested>>
      /\ \/ jobState' = jobState
         \/ jobState' = [jobState EXCEPT ![t.job] = "running"]
  BY DEF ClaimTask, ClaimGuard, Eligible, Lease
<1>2. /\ taskState'[t] = "leased" /\ \A x \in Tasks : x # t => taskState'[x] = taskState[x]
      /\ attempts'[t] = attempts[t] + 1 /\ \A x \in Tasks : x # t => attempts'[x] = attempts[x]
      /\ t.job \in Jobs
  BY <1>1, OriginKeyType DEF TypeOK
<1>3. taskState[t] \in LiveStates /\ taskState'[t] \in LiveStates
  BY <1>1, <1>2 DEF LiveStates, UnleasedStates
<1>4. CountersReconcile'
  BY <1>1, <1>2, <1>3, TallyQuiet DEF ReportInv
<1>5. PageLimit'
  BY <1>1, <1>4, PagesKept DEF ReportInv
<1>6. AttemptsBounded' /\ QueuedHasAttempt'
  <2>1. attempts[t] \in Nat /\ attempts[t] < MaxAttempts /\ MaxAttempts \in Nat
    BY <1>1, LimitsAssumption DEF ReportInv, QueuedHasAttempt, Retryable, TypeOK
  <2>2. attempts'[t] <= MaxAttempts
    BY <1>2, <2>1
  <2>3. taskState'[t] \notin Retryable
    BY <1>2 DEF Retryable
  <2> QED BY <1>2, <2>2, <2>3 DEF ReportInv, AttemptsBounded, QueuedHasAttempt
<1>7. ResultIffSucceeded'
  BY <1>1, <1>2, ResultsKept DEF ReportInv
<1>8. OutcomeIsTrue'
  <2>1. \A j \in Jobs : jobState'[j] = jobState[j] \/ jobState'[j] = "running"
    BY <1>1, <1>2 DEF TypeOK
  <2>2. \A j \in Jobs : jobState'[j] \in TerminalJobStates => jobState[j] \in TerminalJobStates
    BY <2>1, StatesApart
  <2> QED BY <1>1, <1>2, <2>2, OutcomesKept DEF ReportInv, JobsKept
<1>9. ParkedHasSession' /\ PlainJobsHaveNoSession'
  BY <1>1, <1>2 DEF ReportInv, ParkedHasSession, PlainJobsHaveNoSession
<1>10. FailureLimitEnds'
  BY <1>1, <1>2, <1>3, FailuresKept DEF ReportInv
<1> QED BY <1>4, <1>5, <1>6, <1>7, <1>8, <1>9, <1>10 DEF ReportInv

\* wait_for_input_local exchanges the lease for a session.
LEMMA WaitReport ==
  ASSUME TypeOK, TypeOK', DrainInv, ReportInv, KeepsTerminal, NEW c \in Claims, WaitForInput(c)
  PROVE  ReportInv'
<1> DEFINE t == c.task
<1>1. /\ t \in Tasks /\ taskState[t] = "leased" /\ t.job \in InteractiveJobs
      /\ taskState' = [taskState EXCEPT ![t] = "waiting_input"]
      /\ UNCHANGED <<count, attempts, results, cancelRequested, jobState>>
      /\ \E k : session' = [session EXCEPT ![t] = [state |-> "waiting", expires_at |-> k]]
  BY DEF WaitForInput, Fenced, Claims
<1>2. /\ taskState'[t] = "waiting_input" /\ \A x \in Tasks : x # t => taskState'[x] = taskState[x]
      /\ session'[t].state = "waiting" /\ \A x \in Tasks : x # t => session'[x] = session[x]
  BY <1>1 DEF TypeOK
<1>3. taskState[t] \in LiveStates /\ taskState'[t] \in LiveStates
  BY <1>1, <1>2 DEF LiveStates, UnleasedStates
<1>4. CountersReconcile'
  BY <1>1, <1>2, <1>3, TallyQuiet DEF ReportInv
<1>5. PageLimit'
  BY <1>1, <1>4, PagesKept DEF ReportInv
<1>6. AttemptsBounded' /\ QueuedHasAttempt'
  BY <1>1, <1>2, AttemptsKept DEF ReportInv, Retryable
<1>7. ResultIffSucceeded'
  BY <1>1, <1>2, ResultsKept DEF ReportInv
<1>8. OutcomeIsTrue'
  BY <1>1, <1>2, OutcomesKept DEF ReportInv, JobsKept
<1>9. ParkedHasSession' /\ PlainJobsHaveNoSession'
  BY <1>1, <1>2 DEF ReportInv, ParkedHasSession, PlainJobsHaveNoSession, OpenSessionStates
<1>10. FailureLimitEnds'
  BY <1>1, <1>2, <1>3, FailuresKept DEF ReportInv
<1> QED BY <1>4, <1>5, <1>6, <1>7, <1>8, <1>9, <1>10 DEF ReportInv

\* submit_job: the first task of a job that has none.
LEMMA SubmitReport ==
  ASSUME TypeOK, TypeOK', DrainInv, ReportInv, KeepsTerminal, NEW j \in Jobs, SubmitJob(j)
  PROVE  ReportInv'
<1> DEFINE t == TaskOf(j, Seed[j])
<1>1. /\ jobState[j] = "absent" /\ jobState' = [jobState EXCEPT ![j] = "pending"]
      /\ Tally(j, 1, 0, 0, 0) /\ taskState' = [taskState EXCEPT ![t] = "pending"]
      /\ UNCHANGED <<attempts, results, session, cancelRequested>>
  BY DEF SubmitJob
<1>2. t \in Tasks /\ t.job = j
  BY TablesAssumption DEF TaskOf, Tasks
<1>3. \A x \in Tasks : x.job = j => taskState[x] = "absent"
  BY <1>1 DEF DrainInv, TasksHaveJob
<1>4. taskState'[t] = "pending" /\ \A x \in Tasks : x # t => taskState'[x] = taskState[x]
  BY <1>1, <1>2 DEF TypeOK
<1>5. CountersReconcile'
  <2>1. {t} \in SUBSET Tasks /\ {} \in SUBSET Tasks /\ {} \in SUBSET {}
    BY <1>2
  <2>2. Cardinality({t}) = 1 /\ Cardinality({}) = 0
    BY CountFew
  <2>3. "pending" \in LiveStates
    BY DEF LiveStates, UnleasedStates
  <2> HIDE DEF t
  <2> QED BY <1>1, <1>2, <1>3, <1>4, <2>1, <2>2, <2>3, TallyExact DEF ReportInv
<1>6. /\ \A i \in Jobs : i # j => count'[i] = count[i]
      /\ count[j].discovered = 0 /\ count[j].failed = 0
      /\ count'[j].discovered = 1 /\ count'[j].failed = 0
  <2>1. TasksIn(j, Discovered) = {} /\ TasksIn(j, FailedStates) = {}
    BY <1>3 DEF TasksIn, FailedStates, Discovered
  <2>2. count[j].discovered = 0 /\ count[j].failed = 0
    BY <2>1, CountFew DEF ReportInv, CountersReconcile, Discovered
  <2>3. /\ \A i \in Jobs : i # j => count'[i] = count[i]
        /\ count'[j].discovered = count[j].discovered + 1 /\ count'[j].failed = count[j].failed + 0
    BY <1>1, TallyFields
  <2> QED BY <2>2, <2>3
<1>7. PageLimit'
  BY <1>5, <1>6, LimitsAssumption, PagesKept DEF ReportInv
<1>8. AttemptsBounded' /\ QueuedHasAttempt'
  BY <1>1, <1>2, <1>3, <1>4, AttemptsKept DEF ReportInv, Retryable
<1>9. ResultIffSucceeded'
  BY <1>1, <1>2, <1>3, <1>4, ResultsKept DEF ReportInv
<1>10. OutcomeIsTrue'
  <2>1. \A i \in Jobs : jobState'[i] \in TerminalJobStates => jobState[i] \in TerminalJobStates
    BY <1>1, StatesApart DEF TypeOK
  <2> QED BY <1>1, <1>2, <1>3, <1>4, <2>1, OutcomesKept DEF ReportInv, JobsKept
<1>11. ParkedHasSession' /\ PlainJobsHaveNoSession'
  BY <1>1, <1>4 DEF ReportInv, ParkedHasSession, PlainJobsHaveNoSession
<1>12. FailureLimitEnds'
  <2>1. ~(count'[j].failed >= MaxFailures)
    BY <1>6, LimitsAssumption
  <2> QED BY <1>2, <1>4, <1>6, <2>1, FailuresKept DEF ReportInv
<1> QED BY <1>5, <1>7, <1>8, <1>9, <1>10, <1>11, <1>12 DEF ReportInv

\* The tasks of distinct pages are distinct rows.
LEMMA TasksOfPages ==
  ASSUME NEW j \in Jobs, NEW A \in SUBSET Urls
  PROVE  /\ {TaskOf(j, u) : u \in A} \in SUBSET Tasks
         /\ Cardinality({TaskOf(j, u) : u \in A}) = Cardinality(A)
         /\ IsFiniteSet(A) /\ Cardinality(A) \in Nat
<1> DEFINE T == {TaskOf(j, u) : u \in A}
           f == [u \in A |-> TaskOf(j, u)]
<1>1. IsFiniteSet(A) /\ Cardinality(A) \in Nat
  BY TablesAssumption, FS_Subset, FS_CardinalityType
<1>2. T \in SUBSET Tasks
  BY DEF TaskOf, Tasks
<1>3. f \in [A -> T] /\ \A u, v \in A : f[u] = f[v] => u = v
  BY DEF TaskOf
<1>4. f \in Bijection(A, T)
  <2>1. f \in Injection(A, T)
    BY <1>3 DEF Injection, IsInjective
  <2>2. f \in Surjection(A, T)
    BY <1>3 DEF Surjection
  <2> QED BY <2>1, <2>2 DEF Bijection
<1>5. ExistsBijection(A, T)
  BY <1>4 DEF ExistsBijection
<1> QED BY <1>1, <1>2, <1>5, FS_Bijection

\* _insert_discovered never finds more than the page limit leaves room for.
LEMMA RoomIsLeft ==
  ASSUME TypeOK, ReportInv, NEW t \in Tasks, NEW links \in SUBSET Urls, NEW A \in Accepted(t, links)
  PROVE  count[t.job].discovered + Cardinality(A) <= MaxPages
<1>1. t.job \in Jobs /\ count[t.job].discovered \in Nat /\ MaxPages \in Nat
  BY OriginKeyType, LimitsAssumption DEF TypeOK, Counters
<1>2. count[t.job].discovered <= MaxPages
  BY <1>1 DEF ReportInv, PageLimit, CountersReconcile
<1>3. Room(t) \in Nat /\ count[t.job].discovered + Room(t) <= MaxPages
  BY <1>1, <1>2 DEF Room, Max2
<1>4. Discoverable(t, links) \in SUBSET Urls /\ A \in SUBSET Discoverable(t, links)
  BY DEF Discoverable, Accepted
<1>5. Cardinality(A) \in Nat /\ Cardinality(Discoverable(t, links)) \in Nat
  BY <1>1, <1>4, TasksOfPages
<1>6. Cardinality(A) <= Room(t)
  BY <1>3, <1>5 DEF Accepted, Min2
<1> QED BY <1>1, <1>3, <1>5, <1>6

\* complete_task: one task succeeds, the pages it found join the job.
LEMMA CompleteReport ==
  ASSUME TypeOK, TypeOK', DrainInv, LeaseInv, ReportInv, KeepsTerminal,
         NEW c \in Claims, NEW got \in Reports, NEW links \in SUBSET Urls, CompleteTask(c, got, links)
  PROVE  ReportInv'
<1> DEFINE t == c.task
           j == t.job
<1>1. /\ t \in Tasks /\ taskState[t] = "leased" /\ token[t] = c.token
      /\ results' = [results EXCEPT ![t] = c.token]
      /\ UNCHANGED <<attempts, session, cancelRequested, jobState>>
  BY DEF CompleteTask, Fenced, Claims
<1>2. PICK A \in Accepted(t, links) :
        /\ taskState' = [MoveTo({TaskOf(j, u) : u \in A}, "pending") EXCEPT ![t] = "succeeded"]
        /\ Tally(j, Cardinality(A), 1, 1, 0)
  BY DEF CompleteTask
<1> DEFINE New == {TaskOf(j, u) : u \in A}
<1>3. j \in Jobs /\ A \in SUBSET Urls /\ A \in SUBSET Discoverable(t, links)
  BY <1>1, OriginKeyType DEF Accepted, Discoverable
<1>4. New \in SUBSET Tasks /\ Cardinality(New) = Cardinality(A) /\ Cardinality(A) \in Nat
  BY <1>3, TasksOfPages
<1>5. \A x \in New : x.job = j /\ taskState[x] = "absent"
  BY <1>3 DEF TaskOf, Discoverable
<1>6. /\ taskState'[t] = "succeeded" /\ t \notin New
      /\ \A x \in New : taskState'[x] = "pending"
      /\ \A x \in Tasks \ (New \cup {t}) : taskState'[x] = taskState[x]
  BY <1>1, <1>2, <1>4, <1>5 DEF MoveTo
<1>7. CountersReconcile'
  <2>1. {t} \in SUBSET Tasks /\ {t} \in SUBSET {t} /\ {} \in SUBSET {t}
    BY <1>1
  <2>2. Cardinality({t}) = 1 /\ Cardinality({}) = 0
    BY CountFew
  <2>3. /\ "pending" \in LiveStates /\ "leased" \in LiveStates
        /\ "succeeded" \in TerminalTaskStates /\ "succeeded" \notin FailedStates
    BY DEF LiveStates, UnleasedStates, TerminalTaskStates, FailedStates
  <2>4. \A x \in New \cup {t} : x.job = j
    BY <1>5
  <2>5. \A x \in {t} : /\ taskState[x] \in LiveStates /\ taskState'[x] \in TerminalTaskStates
                       /\ taskState'[x] = "succeeded" <=> x \in {t}
                       /\ taskState'[x] \in FailedStates <=> x \in {}
    BY <1>1, <1>6, <2>3
  <2>6. \A x \in New : taskState[x] = "absent" /\ taskState'[x] \in LiveStates
    BY <1>5, <1>6, <2>3
  <2>7. Tally(j, Cardinality(New), 1, 1, 0) /\ CountersReconcile
    BY <1>2, <1>4 DEF ReportInv
  <2> HIDE DEF New, t
  <2> QED BY <1>3, <1>4, <1>6, <2>1, <2>2, <2>4, <2>5, <2>6, <2>7, TallyExact
<1>8. /\ \A i \in Jobs : i # j => count'[i] = count[i]
      /\ count'[j].discovered = count[j].discovered + Cardinality(A)
      /\ count'[j].failed = count[j].failed + 0
  BY <1>2, <1>3, TallyFields
<1>9. PageLimit'
  <2>1. count'[j].discovered <= MaxPages
    BY <1>1, <1>2, <1>8, RoomIsLeft
  <2> QED BY <1>7, <1>8, <2>1, PagesKept DEF ReportInv
<1>10. AttemptsBounded' /\ QueuedHasAttempt'
  <2>1. \A x \in Tasks : taskState'[x] \in Retryable => taskState[x] \in Retryable
    BY <1>5, <1>6 DEF Retryable
  <2> QED BY <1>1, <2>1, AttemptsKept DEF ReportInv
<1>11. ResultIffSucceeded'
  <2>1. c.token # 0
    BY <1>1 DEF LeaseInv, TokensAreIssued
  <2>2. results'[t] = c.token /\ \A x \in Tasks : x # t => results'[x] = results[x]
    BY <1>1 DEF TypeOK
  <2>3. \A x \in Tasks : x # t => (taskState'[x] = "succeeded" <=> taskState[x] = "succeeded")
    BY <1>5, <1>6
  <2> QED BY <1>6, <2>1, <2>2, <2>3 DEF ReportInv, ResultIffSucceeded
<1>12. OutcomeIsTrue'
  <2>1. \A x \in Tasks : taskState[x] = "absent" => taskState'[x] \in {"absent", "pending"}
    BY <1>1, <1>6
  <2> QED BY <1>1, <2>1, OutcomesKept DEF ReportInv, JobsKept
<1>13. ParkedHasSession' /\ PlainJobsHaveNoSession'
  BY <1>1, <1>6 DEF ReportInv, ParkedHasSession, PlainJobsHaveNoSession
<1>14. FailureLimitEnds'
  <2>0. count[j].failed \in Nat
    BY <1>3 DEF TypeOK, Counters
  <2>1. \A i \in Jobs : count'[i].failed = count[i].failed
    BY <1>8, <2>0
  <2>2. t \in TasksIn(j, LiveStates)
    BY <1>1 DEF TasksIn, LiveStates
  <2>3. j \notin InteractiveJobs => ~(count[j].failed >= MaxFailures)
    BY <1>3, <2>2 DEF ReportInv, FailureLimitEnds
  <2>4. \A x \in Tasks : x.job # j => taskState'[x] = taskState[x]
    BY <1>5, <1>6
  <2> QED BY <2>1, <2>3, <2>4, FailuresKept DEF ReportInv
<1> QED BY <1>7, <1>9, <1>10, <1>11, <1>12, <1>13, <1>14 DEF ReportInv

\* The outcome finalize_jobs computes from the rows is true of them.
LEMMA OutcomeOfRows ==
  ASSUME TypeOK, TypeOK', NEW j \in Jobs, UNCHANGED cancelRequested,
         jobState'[j] = Outcome(j, taskState')
  PROVE  /\ jobState'[j] = "completed" => TasksIn(j, FailedStates)' = {}
         /\ jobState'[j] = "partial" => /\ TasksIn(j, {"succeeded"})' # {}
                                        /\ TasksIn(j, FailedStates)' # {}
         /\ jobState'[j] = "failed" => TasksIn(j, {"succeeded"})' = {}
         /\ jobState'[j] = "cancelled" <=> cancelRequested'[j]
<1> DEFINE Has(kind) == \E t \in Tasks : t.job = j /\ taskState'[t] \in kind
<1>1. CASE cancelRequested[j]
  <2>1. jobState'[j] = "cancelled"
    BY <1>1 DEF Outcome
  <2> QED BY <1>1, <2>1
<1>2. CASE ~cancelRequested[j] /\ Expired(j)
  <2>1. jobState'[j] = "timed_out"
    BY <1>2 DEF Outcome
  <2> QED BY <1>2, <2>1
<1>3. CASE ~cancelRequested[j] /\ ~Expired(j)
  <2>1. jobState'[j] = IF Has({"succeeded"}) \/ (Has({"blocked_robots"}) /\ ~Has(FailedStates))
                       THEN IF Has({"succeeded"}) /\ Has(FailedStates) THEN "partial" ELSE "completed"
                       ELSE "failed"
    BY <1>3 DEF Outcome
  <2>2. /\ Has({"succeeded"}) <=> TasksIn(j, {"succeeded"})' # {}
        /\ Has(FailedStates) <=> TasksIn(j, FailedStates)' # {}
    BY DEF TasksIn
  <2> HIDE DEF Has
  <2> QED BY <1>3, <2>1, <2>2
<1> QED BY <1>1, <1>2, <1>3

\* finalize_jobs ends what is late without a failure and then tells the truth.
LEMMA FinalizeReport ==
  ASSUME TypeOK, TypeOK', DrainInv, ReportInv, KeepsTerminal, NEW j \in Jobs, FinalizeJob(j)
  PROVE  ReportInv'
<1>1. PICK D \in {{}, Unleased(j)} :
        /\ taskState' = MoveTo(D, "cancelled") /\ Tally(j, 0, Cardinality(D), 0, 0)
        /\ UNCHANGED <<attempts, results, session, cancelRequested>>
        /\ jobState[j] \in {"pending", "running"}
        /\ \/ jobState' = jobState
           \/ jobState' = [jobState EXCEPT ![j] = Outcome(j, MoveTo(D, "cancelled"))]
  BY DEF FinalizeJob
<1>2. D \in SUBSET TasksIn(j, LiveStates) /\ D \in SUBSET Tasks
  BY DEF Unleased, TasksIn, LiveStates
<1>3. /\ \A x \in D : taskState'[x] = "cancelled"
      /\ \A x \in Tasks \ D : taskState'[x] = taskState[x]
  BY <1>1, <1>2 DEF MoveTo
<1>4. \A x \in D : /\ taskState'[x] \in TerminalTaskStates \ {"succeeded"}
                   /\ taskState'[x] \in FailedStates <=> x \in {}
  BY <1>3 DEF TerminalTaskStates, FailedStates
<1>5. \A x \in Tasks : taskState'[x] = "waiting_input" => session'[x].state \in OpenSessionStates
  BY <1>1, <1>3 DEF ReportInv, ParkedHasSession
<1>6. JobsKept \/ OutcomeIsTrue'
  <2>1. CASE jobState' = jobState
    BY <1>1, <2>1 DEF JobsKept
  <2>2. CASE jobState' # jobState
    <3>1. jobState'[j] = Outcome(j, taskState') /\ \A i \in Jobs : i # j => jobState'[i] = jobState[i]
      BY <1>1, <2>2 DEF TypeOK
    <3>2. ASSUME NEW i \in Jobs, i # j, NEW S PROVE TasksIn(i, S)' = TasksIn(i, S)
      <4>1. \A x \in Tasks : x.job = i => taskState'[x] = taskState[x]
        BY <1>2, <1>3, <3>2 DEF TasksIn
      <4> QED BY <4>1 DEF TasksIn
    <3>3. /\ jobState'[j] = "completed" => TasksIn(j, FailedStates)' = {}
          /\ jobState'[j] = "partial" => /\ TasksIn(j, {"succeeded"})' # {}
                                         /\ TasksIn(j, FailedStates)' # {}
          /\ jobState'[j] = "failed" => TasksIn(j, {"succeeded"})' = {}
          /\ jobState'[j] = "cancelled" <=> cancelRequested'[j]
      BY <1>1, <3>1, OutcomeOfRows
    <3>4. ASSUME NEW i \in Jobs, i # j
          PROVE  /\ jobState'[i] = "completed" => TasksIn(i, FailedStates)' = {}
                 /\ jobState'[i] = "partial" => /\ TasksIn(i, {"succeeded"})' # {}
                                                /\ TasksIn(i, FailedStates)' # {}
                 /\ jobState'[i] = "failed" => TasksIn(i, {"succeeded"})' = {}
                 /\ jobState'[i] \in TerminalJobStates =>
                       (jobState'[i] = "cancelled" <=> cancelRequested'[i])
      BY <1>1, <3>1, <3>2, <3>4 DEF ReportInv, OutcomeIsTrue
    <3> QED BY <3>3, <3>4 DEF OutcomeIsTrue
  <2> QED BY <2>1, <2>2
<1>7. Cardinality({}) = 0 /\ {} \in SUBSET D
  BY CountFew
<1> QED BY <1>1, <1>2, <1>3, <1>4, <1>5, <1>6, <1>7, EndedReport

\* Every step of the system keeps what the jobs report true.
THEOREM ReportStep ==
  TypeOK /\ TypeOK' /\ DrainInv /\ LeaseInv /\ ReportInv /\ [Next]_vars => ReportInv'
<1> SUFFICES ASSUME TypeOK, TypeOK', DrainInv, LeaseInv, ReportInv, [Next]_vars PROVE ReportInv'
  OBVIOUS
<1>0. \A c \in claims \cup runners : c \in Claims /\ c.task \in Tasks
  BY DEF TypeOK, Claims
<1>kept. KeepsTerminal
  BY KeepsStep DEF KeepsTerminal, vars, jobVars, taskVars
<1>parked. \A x \in Tasks : taskState[x] = "waiting_input" => session[x].state \in OpenSessionStates
  BY DEF ReportInv, ParkedHasSession
<1>1. CASE ClientStep
  BY <1>kept, <1>1, SubmitReport, CancelReport DEF ClientStep
<1>2. CASE ClaimStep
  <2>1. PICK w \in Workers, t \in Tasks :
          DeferClaim(w, t) \/ BusyClaim(w, t) \/ ExhaustedClaim(w, t) \/ ClaimTask(w, t)
    BY <1>2 DEF ClaimStep
  <2>2. CASE DeferClaim(w, t) \/ BusyClaim(w, t)
    BY <1>kept, <1>parked, <2>2, QuietReport DEF DeferClaim, BusyClaim, jobVars, taskVars
  <2> QED BY <1>kept, <2>1, <2>2, ExhaustedReport, ClaimReport
<1>3. CASE CompleteStep
  <2>1. PICK c \in claims \cup runners, got \in Reports :
           CompleteOverBudget(c, got) \/ \E links \in SUBSET Urls : CompleteTask(c, got, links)
    BY <1>3 DEF CompleteStep
  <2>2. CASE CompleteOverBudget(c, got)
    <3>1. taskState[c.task] = "leased"
      BY <2>2 DEF CompleteOverBudget, Fenced
    <3> QED BY <1>0, <1>kept, <2>2, <3>1, EndReport
  <2> QED BY <1>0, <1>kept, <2>1, <2>2, CompleteReport
<1>4. CASE WorkerStep
  <2>1. PICK c \in claims :
          \/ Heartbeat(c) \/ ReserveBrowserNavigation(c) \/ BlockRobots(c)
          \/ WaitForInput(c) \/ EndRun(c)
          \/ \E got \in Reports : FailTask(c, got) \/ \E d \in RetryDelays : RetryTask(c, got, d)
    BY <1>4 DEF WorkerStep
  <2>2. CASE Heartbeat(c) \/ ReserveBrowserNavigation(c) \/ EndRun(c)
    BY <1>kept, <1>parked, <2>2, QuietReport
       DEF Heartbeat, ReserveBrowserNavigation, EndRun, jobVars, taskVars
  <2>3. CASE BlockRobots(c) \/ \E got \in Reports : FailTask(c, got)
    <3>1. taskState[c.task] = "leased"
      BY <2>3 DEF BlockRobots, FailTask, Fenced
    <3> QED BY <1>0, <1>kept, <2>3, <3>1, EndReport
  <2>4. CASE WaitForInput(c)
    BY <1>0, <1>kept, <2>4, WaitReport
  <2>5. CASE \E got \in Reports, d \in RetryDelays : RetryTask(c, got, d)
    <3>1. /\ taskState[c.task] = "leased" /\ attempts[c.task] < MaxAttempts
          /\ taskState' = [taskState EXCEPT ![c.task] = "retry_wait"]
          /\ UNCHANGED <<count, attempts, results, jobState, cancelRequested, session>>
      BY <2>5 DEF RetryTask, Requeue, Fenced, AttemptsLeft
    <3> QED BY <1>0, <1>kept, <3>1, MovedReport DEF LiveStates
  <2> QED BY <2>1, <2>2, <2>3, <2>4, <2>5
<1>5. CASE RejectStep
  <2>1. PICK c \in claims \cup runners : RejectedCall(c)
    BY <1>5 DEF RejectStep
  <2> QED BY <1>0, <1>kept, <2>1, EndReport DEF RejectedCall, Fenced
<1>6. CASE RunnerStep
  <2>1. PICK r \in runners :
          ResumeLiveSession(r) \/ CloseCompleted(r) \/ RunnerFails(r) \/ RunnerEnds(r)
    BY <1>6 DEF RunnerStep
  <2>2. CASE ResumeLiveSession(r)
    <3>1. /\ taskState[r.task] \in LiveStates /\ taskState' = [taskState EXCEPT ![r.task] = "leased"]
          /\ UNCHANGED <<count, attempts, results, jobState, cancelRequested, session>>
      BY <2>2 DEF ResumeLiveSession, ResumeGuard, Lease, LiveStates, UnleasedStates
    <3> QED BY <1>0, <1>kept, <3>1, MovedReport
  <2>3. CASE CloseCompleted(r)
    <3>1. /\ UNCHANGED <<taskState, count, attempts, results, jobState, cancelRequested>>
          /\ results[r.task] # 0 /\ session[r.task].state = "resuming" /\ SetSession(r.task, "closed")
      BY <2>3 DEF CloseCompleted, jobVars, taskVars
    <3>2. taskState[r.task] = "succeeded"
      BY <1>0, <3>1 DEF ReportInv, ResultIffSucceeded
    <3>3. \A x \in Tasks : x # r.task => session'[x] = session[x]
      BY <3>1 DEF SetSession, TypeOK
    <3> QED BY <1>kept, <1>parked, <3>1, <3>2, <3>3, QuietReport
  <2>4. CASE RunnerFails(r)
    BY <1>0, <1>kept, <2>4, SessionEndReport DEF RunnerFails
  <2>5. CASE RunnerEnds(r)
    BY <1>kept, <1>parked, <2>5, QuietReport DEF RunnerEnds, jobVars, taskVars
  <2> QED BY <2>1, <2>2, <2>3, <2>4, <2>5
<1>7. CASE HumanStep
  <2>1. PICK t \in Tasks : Touch(t) \/ RequestResume(t) \/ CancelSession(t)
    BY <1>7 DEF HumanStep
  <2>2. CASE Touch(t) \/ RequestResume(t)
    <3>1. /\ UNCHANGED <<taskState, count, attempts, results, jobState, cancelRequested>>
          /\ session[t].state # "none"
          /\ SetSession(t, "connected") \/ SetSession(t, "resuming")
      BY <2>2 DEF Touch, RequestResume, Live, jobVars, taskVars
    <3>2. /\ session'[t].state \in OpenSessionStates
          /\ \A x \in Tasks : x # t => session'[x] = session[x]
      BY <3>1 DEF SetSession, TypeOK, OpenSessionStates
    <3> QED BY <1>kept, <1>parked, <3>1, <3>2, QuietReport
  <2>3. CASE CancelSession(t)
    BY <1>kept, <2>3, SessionEndReport DEF CancelSession
  <2> QED BY <2>1, <2>2, <2>3
<1>8. CASE MaintenanceStep
  <2>1. ASSUME NEW t \in Tasks, ReapLease(t) PROVE ReportInv'
    <3>1. taskState[t] = "leased"
      BY <2>1 DEF ReapLease, ReapInactive, ReapExhausted, ReapRetry, LeaseExpired
    <3>2. CASE ReapInactive(t) \/ ReapExhausted(t)
      BY <1>kept, <3>1, <3>2, EndReport DEF ReapInactive
    <3>3. CASE ReapRetry(t)
      <4>1. /\ UNCHANGED <<count, attempts, results, jobState, cancelRequested, session>>
            /\ taskState' = [taskState EXCEPT ![t] = "retry_wait"] /\ attempts[t] < MaxAttempts
        BY <3>3 DEF ReapRetry, Requeue, AttemptsLeft
      <4> QED BY <1>kept, <3>1, <4>1, MovedReport DEF LiveStates
    <3> QED BY <2>1, <3>2, <3>3 DEF ReapLease
  <2>2. ASSUME NEW t \in Tasks, ExpireSession(t) PROVE ReportInv'
    BY <1>kept, <2>2, SessionEndReport
  <2> QED BY <1>kept, <1>8, <2>1, <2>2, FinalizeReport DEF MaintenanceStep
<1>9. CASE Tick \/ UNCHANGED vars
  BY <1>kept, <1>parked, <1>9, QuietReport DEF Tick, vars, jobVars, taskVars
<1> QED BY <1>1, <1>2, <1>3, <1>4, <1>5, <1>6, <1>7, <1>8, <1>9 DEF Next

\* The empty tables satisfy ReportInv.
LEMMA ReportInit == Init => ReportInv
<1> SUFFICES ASSUME Init PROVE ReportInv
  OBVIOUS
<1>1. \A t \in Tasks : /\ taskState[t] = "absent" /\ attempts[t] = 0 /\ results[t] = 0
                       /\ session[t].state = "none"
  BY DEF Init
<1>2. \A j \in Jobs : /\ jobState[j] = "absent"
                      /\ count[j].discovered = 0 /\ count[j].terminal = 0
                      /\ count[j].succeeded = 0 /\ count[j].failed = 0
  BY DEF Init
<1>3. ASSUME NEW j, NEW S, "absent" \notin S PROVE TasksIn(j, S) = {}
  BY <1>1, <1>3 DEF TasksIn
<1>4. /\ "absent" \notin Discovered /\ "absent" \notin TerminalTaskStates
      /\ "absent" \notin {"succeeded"} /\ "absent" \notin FailedStates
      /\ "absent" \notin LiveStates /\ "absent" \notin TerminalJobStates
  BY DEF Discovered, TerminalTaskStates, FailedStates, LiveStates, UnleasedStates, TerminalJobStates
<1>5. CountersReconcile /\ PageLimit
  <2>1. \A j \in Jobs : /\ TasksIn(j, Discovered) = {} /\ TasksIn(j, TerminalTaskStates) = {}
                        /\ TasksIn(j, {"succeeded"}) = {} /\ TasksIn(j, FailedStates) = {}
    BY <1>3, <1>4
  <2>2. Cardinality({}) = 0 /\ 0 <= MaxPages
    BY CountFew, LimitsAssumption
  <2> QED BY <1>2, <2>1, <2>2 DEF CountersReconcile, PageLimit, Discovered
<1>6. AttemptsBounded /\ QueuedHasAttempt /\ ResultIffSucceeded
  BY <1>1, LimitsAssumption DEF AttemptsBounded, QueuedHasAttempt, ResultIffSucceeded
<1>7. OutcomeIsTrue
  BY <1>2, <1>4 DEF OutcomeIsTrue
<1>8. ParkedHasSession /\ PlainJobsHaveNoSession
  BY <1>1 DEF ParkedHasSession, PlainJobsHaveNoSession
<1>9. FailureLimitEnds
  BY <1>3, <1>4 DEF FailureLimitEnds
<1> QED BY <1>5, <1>6, <1>7, <1>8, <1>9 DEF ReportInv

\* ReportInv holds in every reachable state of every instance.
THEOREM ReportCorrect == Spec => []ReportInv
BY TypeInit, TypeStep, DrainInit, DrainStep, LeaseInit, LeaseInvStep, ReportInit, ReportStep, PTL
   DEF Spec

\* The counters every transaction increments are what reconcile_job would count,
\* whatever ends a task: a worker, the reaper, a cancellation, a deadline, a
\* failure limit, an exhausted budget or a closed session.
THEOREM CountersAreExact == Spec => []CountersReconcile
<1>1. ReportInv => CountersReconcile
  BY DEF ReportInv
<1> QED BY <1>1, ReportCorrect, PTL

\* max_pages, max_attempts and the failure limit bind, for every number of jobs,
\* pages and workers.
THEOREM LimitsAlwaysHold == Spec => []LimitsHold
<1>1. ASSUME ReportInv PROVE LimitsHold
  <2>1. FailureLimitStops
    BY <1>1 DEF ReportInv, FailureLimitEnds, FailureLimitStops, Unleased, TasksIn, LiveStates
  <2> QED BY <1>1, <2>1 DEF ReportInv, LimitsHold
<1> QED BY <1>1, ReportCorrect, PTL

\* The state finalize_jobs, request_cancel or _terminalize gives a job fits its
\* tasks for good, and the tasks with a stored result are the succeeded ones.
THEOREM OutcomesStayTrue == Spec => []OutcomesAreTrue
<1>1. ReportInv => OutcomesAreTrue
  BY DEF ReportInv, OutcomesAreTrue
<1> QED BY <1>1, ReportCorrect, PTL

\* No task is parked without an open session, and sessions.close and expire_due,
\* which write the counters outside the repository, keep them exact.
THEOREM SessionsAreReconciled == Spec => []SessionsReconcile
<1>1. ReportInv => SessionsReconcile
  BY DEF ReportInv, SessionsReconcile
<1> QED BY <1>1, ReportCorrect, PTL

-----------------------------------------------------------------------------
\* The refinement of FencedQueue.

\* The phase of every state.
LEMMA PhaseValues ==
  /\ PhaseOf("absent") = "unknown" /\ PhaseOf("leased") = "held"
  /\ PhaseOf("pending") = "queued" /\ PhaseOf("retry_wait") = "queued"
  /\ PhaseOf("waiting_input") = "parked" /\ PhaseOf("succeeded") = "done"
  /\ \A s \in TerminalTaskStates \ {"succeeded"} : PhaseOf(s) = "dropped"
  /\ \A s \in UnleasedStates : PhaseOf(s) \in {"queued", "parked"}
BY DEF PhaseOf, TerminalTaskStates, FailedStates, UnleasedStates

\* Only the transactions that lease, release or end a task concern the queue.
LEMMA QuietQueue ==
  ASSUME UNCHANGED <<taskState, token, lastToken, results>>
  PROVE  UNCHANGED Queue!queueVars
BY DEF Queue!queueVars

\* claim_task and resume_live_session take a waiting page under a fresh grant.
LEMMA TakeQueue ==
  ASSUME TypeOK, NEW t \in Tasks, NEW w, taskState[t] \in UnleasedStates, Lease(w, t), UNCHANGED results
  PROVE  Queue!Next
<1>1. /\ taskState' = [taskState EXCEPT ![t] = "leased"] /\ lastToken' = lastToken + 1
      /\ token' = [token EXCEPT ![t] = lastToken + 1]
  BY DEF Lease
<1>2. taskState'[t] = "leased" /\ \A x \in Tasks : x # t => taskState'[x] = taskState[x]
  BY <1>1 DEF TypeOK
<1>3. [x \in Tasks |-> PhaseOf(taskState[x])]' =
        [[x \in Tasks |-> PhaseOf(taskState[x])] EXCEPT ![t] = "held"]
  BY <1>2, PhaseValues
<1>4. [x \in Tasks |-> PhaseOf(taskState[x])][t] \in Queue!Waiting
  BY PhaseValues DEF Queue!Waiting
<1>5. Queue!Take(t)
  BY <1>1, <1>3, <1>4 DEF Queue!Take
<1> QED BY <1>5 DEF Queue!Next

\* A lease ends without a result: its task waits again or is given up, and the
\* tasks D that wait are given up with it.
LEMMA GiveBackQueue ==
  ASSUME TypeOK, NEW t \in Tasks, taskState[t] = "leased", NEW D \in SUBSET Tasks,
         \A x \in D : taskState[x] \in UnleasedStates /\ taskState'[x] \in TerminalTaskStates \ {"succeeded"},
         \A x \in Tasks \ (D \cup {t}) : taskState'[x] = taskState[x],
         taskState'[t] \in UnleasedStates \cup (TerminalTaskStates \ {"succeeded"}),
         token' = [token EXCEPT ![t] = 0], UNCHANGED <<lastToken, results>>
  PROVE  Queue!Next
<1> DEFINE ph == [x \in Tasks |-> PhaseOf(taskState[x])]
           next == PhaseOf(taskState'[t])
<1>1. t \notin D
  BY DEF UnleasedStates
<1>2. next \in Queue!Waiting \cup {"dropped"}
  BY PhaseValues DEF Queue!Waiting
<1>3. D \in SUBSET {x \in Tasks : ph[x] \in Queue!Waiting}
  BY PhaseValues DEF Queue!Waiting
<1>4. ph' = [Queue!Dropped(D) EXCEPT ![t] = next]
  <2>1. \A x \in Tasks : PhaseOf(taskState'[x]) = IF x = t THEN next ELSE
                                                  IF x \in D THEN "dropped" ELSE PhaseOf(taskState[x])
    BY <1>1, PhaseValues
  <2> QED BY <2>1 DEF Queue!Dropped
<1>5. ph[t] = "held"
  BY PhaseValues
<1>6. Queue!GiveBack(t)
  BY <1>2, <1>3, <1>4, <1>5 DEF Queue!GiveBack
<1> QED BY <1>6 DEF Queue!Next

\* Waiting tasks are given up and no lease is touched.
LEMMA WithdrawQueue ==
  ASSUME TypeOK, NEW D \in SUBSET Tasks,
         \A x \in D : taskState[x] \in UnleasedStates /\ taskState'[x] \in TerminalTaskStates \ {"succeeded"},
         \A x \in Tasks \ D : taskState'[x] = taskState[x],
         UNCHANGED <<token, lastToken, results>>
  PROVE  [Queue!Next]_(Queue!queueVars)
<1> DEFINE ph == [x \in Tasks |-> PhaseOf(taskState[x])]
<1>1. D \in SUBSET {x \in Tasks : ph[x] \in Queue!Waiting}
  BY PhaseValues DEF Queue!Waiting
<1>2. ph' = Queue!Dropped(D)
  <2>1. \A x \in Tasks : PhaseOf(taskState'[x]) = IF x \in D THEN "dropped" ELSE PhaseOf(taskState[x])
    BY PhaseValues
  <2> QED BY <2>1 DEF Queue!Dropped
<1>3. CASE D = {}
  <2>1. ph' = ph
    BY <1>2, <1>3 DEF Queue!Dropped
  <2> QED BY <2>1 DEF Queue!queueVars
<1>4. CASE D # {}
  <2>1. Queue!Withdraw
    BY <1>1, <1>2, <1>4 DEF Queue!Withdraw
  <2> QED BY <2>1 DEF Queue!Next
<1> QED BY <1>3, <1>4

\* submit_job announces a task that was unknown to the queue.
LEMMA AnnounceQueue ==
  ASSUME TypeOK, TypeOK', DrainInv, NEW j \in Jobs, SubmitJob(j)
  PROVE  Queue!Next
<1> DEFINE t == TaskOf(j, Seed[j])
           ph == [x \in Tasks |-> PhaseOf(taskState[x])]
<1>1. t \in Tasks /\ t.job = j
  BY TablesAssumption DEF TaskOf, Tasks
<1>2. taskState[t] = "absent" /\ UNCHANGED <<token, lastToken, results>>
  BY <1>1 DEF SubmitJob, DrainInv, TasksHaveJob, leaseVars
<1>3. taskState'[t] = "pending" /\ \A x \in Tasks : x # t => taskState'[x] = taskState[x]
  BY <1>1 DEF SubmitJob, TypeOK
<1> HIDE DEF t
<1>4. ph' = [ph EXCEPT ![t] = "queued"] /\ ph[t] = "unknown"
  BY <1>1, <1>2, <1>3, PhaseValues
<1>5. Queue!Announce(t)
  BY <1>2, <1>4 DEF Queue!Announce
<1> QED BY <1>1, <1>5 DEF Queue!Next

\* complete_task finishes the held page; what it found was unknown.
LEMMA FinishQueue ==
  ASSUME TypeOK, TypeOK', NEW c \in Claims, NEW got \in Reports, NEW links \in SUBSET Urls,
         CompleteTask(c, got, links)
  PROVE  Queue!Next
<1> DEFINE t == c.task
           ph == [x \in Tasks |-> PhaseOf(taskState[x])]
<1>1. /\ t \in Tasks /\ taskState[t] = "leased" /\ token[t] = c.token
      /\ results' = [results EXCEPT ![t] = token[t]]
      /\ token' = [token EXCEPT ![t] = 0] /\ lastToken' = lastToken
  BY DEF CompleteTask, Fenced, Claims, ReleaseLease, ClearLease
<1>2. PICK A \in SUBSET Discoverable(t, links) :
        taskState' = [MoveTo({TaskOf(t.job, u) : u \in A}, "pending") EXCEPT ![t] = "succeeded"]
  BY DEF CompleteTask, Accepted
<1> DEFINE New == {TaskOf(t.job, u) : u \in A}
<1>3. New \in SUBSET Tasks /\ \A x \in New : taskState[x] = "absent"
  <2>1. t.job \in Jobs /\ A \in SUBSET Urls
    BY <1>1, OriginKeyType DEF Discoverable
  <2> QED BY <2>1, TasksOfPages DEF Discoverable
<1>4. \A x \in Tasks : taskState'[x] = IF x = t THEN "succeeded" ELSE
                                       IF x \in New THEN "pending" ELSE taskState[x]
  BY <1>2 DEF MoveTo
<1> HIDE DEF New, t
<1>5. New \in SUBSET {x \in Tasks : ph[x] = "unknown"} /\ ph[t] = "held"
  BY <1>1, <1>3, PhaseValues
<1>6. ph' = [x \in Tasks |-> IF x = t THEN "done" ELSE IF x \in New THEN "queued" ELSE ph[x]]
  BY <1>4, PhaseValues
<1>7. Queue!Finish(t)
  BY <1>1, <1>5, <1>6 DEF Queue!Finish
<1> QED BY <1>1, <1>7 DEF Queue!Next

\* A transaction that terminalizes a leased task.
LEMMA EndQueue ==
  ASSUME TypeOK, NEW t \in Tasks, taskState[t] = "leased",
         \/ RejectInactiveLease(t)
         \/ ReapExhausted(t)
         \/ \E c \in Claims : /\ c.task = t
                              /\ \/ BlockRobots(c)
                                 \/ \E got \in Reports : FailTask(c, got) \/ CompleteOverBudget(c, got)
  PROVE  Queue!Next
<1>1. PICK s \in {"permanent_failed", "cancelled", "blocked_robots"},
           D \in SUBSET Unleased(t.job), cost \in [Meters -> Nat] :
           Terminalize(t, s, D, cost) /\ UNCHANGED <<results, lastToken>>
  BY EndingStep
<1>2. /\ taskState' = [MoveTo(D, "permanent_failed") EXCEPT ![t] = s]
      /\ token' = [token EXCEPT ![t] = 0]
  BY <1>1 DEF Terminalize, ReleaseLease, ClearLease
<1>3. D \in SUBSET Tasks /\ \A x \in D : taskState[x] \in UnleasedStates
  BY DEF Unleased, TasksIn
<1>4. /\ taskState'[t] = s /\ \A x \in D : x # t => taskState'[x] = "permanent_failed"
      /\ \A x \in Tasks \ (D \cup {t}) : taskState'[x] = taskState[x]
  BY <1>2, <1>3 DEF MoveTo
<1>5. /\ s \in TerminalTaskStates \ {"succeeded"} /\ t \notin D
      /\ "permanent_failed" \in TerminalTaskStates \ {"succeeded"}
  BY <1>3 DEF TerminalTaskStates, FailedStates, UnleasedStates
<1>6. \A x \in D : taskState[x] \in UnleasedStates /\ taskState'[x] \in TerminalTaskStates \ {"succeeded"}
  BY <1>3, <1>4, <1>5
<1>7. taskState'[t] \in UnleasedStates \cup (TerminalTaskStates \ {"succeeded"})
  BY <1>4, <1>5
<1>8. \A x \in Tasks \ (D \cup {t}) : taskState'[x] = taskState[x]
  BY <1>4
<1>9. token' = [token EXCEPT ![t] = 0] /\ UNCHANGED <<lastToken, results>> /\ D \in SUBSET Tasks
  BY <1>1, <1>2, <1>3
<1> QED BY <1>6, <1>7, <1>8, <1>9, GiveBackQueue

\* retry_task, the reaper and wait_for_input_local: one task waits again.
LEMMA RequeueQueue ==
  ASSUME TypeOK, NEW t \in Tasks, taskState[t] = "leased", NEW s \in UnleasedStates,
         taskState' = [taskState EXCEPT ![t] = s], ReleaseLease(t), UNCHANGED <<lastToken, results>>
  PROVE  Queue!Next
<1>1. taskState'[t] = s /\ \A x \in Tasks \ ({} \cup {t}) : taskState'[x] = taskState[x]
  BY DEF TypeOK
<1>2. token' = [token EXCEPT ![t] = 0] /\ {} \in SUBSET Tasks
  BY DEF ReleaseLease, ClearLease
<1> QED BY <1>1, <1>2, GiveBackQueue

\* request_cancel, finalize_jobs and a claim without budget: waiting tasks end.
LEMMA DrainQueue ==
  ASSUME TypeOK, NEW j, NEW D \in SUBSET Unleased(j), NEW s \in {"cancelled", "permanent_failed"},
         taskState' = MoveTo(D, s), UNCHANGED <<token, lastToken, results>>
  PROVE  [Queue!Next]_(Queue!queueVars)
<1>1. D \in SUBSET Tasks /\ \A x \in D : taskState[x] \in UnleasedStates
  BY DEF Unleased, TasksIn
<1>2. /\ \A x \in D : taskState'[x] = s
      /\ \A x \in Tasks \ D : taskState'[x] = taskState[x]
  BY <1>1 DEF MoveTo
<1>3. s \in TerminalTaskStates \ {"succeeded"}
  BY DEF TerminalTaskStates, FailedStates
<1> QED BY <1>1, <1>2, <1>3, WithdrawQueue

\* sessions.close and expire_due.
LEMMA SessionEndQueue ==
  ASSUME TypeOK, LeaseInv, NEW t \in Tasks,
         \/ \E reason \in {"cancelled", "expired"} : \E w : CloseSession(t, reason, w)
         \/ ExpireSession(t)
  PROVE  [Queue!Next]_(Queue!queueVars)
<1>1. UNCHANGED <<results, lastToken>>
  BY DEF CloseSession, ExpireSession
<1>2. CASE UNCHANGED <<taskState, token>>
  BY <1>1, <1>2, QuietQueue
<1>3. ASSUME NEW s \in {"cancelled", "permanent_failed"}, taskState' = [taskState EXCEPT ![t] = s],
             \/ taskState[t] = "leased" /\ token' = [token EXCEPT ![t] = 0]
             \/ taskState[t] = "waiting_input" /\ token' \in {token, [token EXCEPT ![t] = 0]}
      PROVE  [Queue!Next]_(Queue!queueVars)
  <2>1. taskState'[t] = s /\ \A x \in Tasks : x # t => taskState'[x] = taskState[x]
    BY <1>3 DEF TypeOK
  <2>2. s \in TerminalTaskStates \ {"succeeded"} /\ "waiting_input" \in UnleasedStates
    BY DEF TerminalTaskStates, FailedStates, UnleasedStates
  <2>3. {t} \in SUBSET Tasks /\ {} \in SUBSET Tasks
    OBVIOUS
  <2>4. CASE taskState[t] = "leased"
    <3>1. taskState'[t] \in UnleasedStates \cup (TerminalTaskStates \ {"succeeded"})
      BY <2>1, <2>2
    <3>2. \A x \in Tasks \ ({} \cup {t}) : taskState'[x] = taskState[x]
      BY <2>1
    <3>3. token' = [token EXCEPT ![t] = 0] /\ UNCHANGED <<lastToken, results>>
      BY <1>1, <1>3, <2>4
    <3>4. Queue!Next
      BY <2>3, <2>4, <3>1, <3>2, <3>3, GiveBackQueue
    <3> QED BY <3>4
  <2>5. CASE taskState[t] = "waiting_input"
    <3>1. token' = token
      BY <1>3, <2>5 DEF LeaseInv, UnleasedHoldsNothing, TypeOK
    <3> QED BY <1>1, <2>1, <2>2, <2>3, <2>5, <3>1, WithdrawQueue
  <2> QED BY <1>3, <2>4, <2>5
<1>4. CASE ExpireSession(t)
  BY <1>2, <1>3, <1>4 DEF ExpireSession, leaseVars
<1>5. ASSUME NEW reason \in {"cancelled", "expired"}, NEW w, CloseSession(t, reason, w)
      PROVE  [Queue!Next]_(Queue!queueVars)
  <2>1. CASE Terminalized(t, reason, w)
    <3>1. /\ taskState' = [taskState EXCEPT ![t] =
                               IF reason = "cancelled" THEN "cancelled" ELSE "permanent_failed"]
          /\ token' = [token EXCEPT ![t] = 0] /\ taskState[t] \in {"leased", "waiting_input"}
      BY <1>5, <2>1 DEF CloseSession, Terminalized, CloseLease, ClearLease
    <3> QED BY <1>3, <3>1
  <2>2. CASE ~Terminalized(t, reason, w)
    BY <1>2, <1>5, <2>2 DEF CloseSession, leaseVars
  <2> QED BY <2>1, <2>2
<1> QED BY <1>4, <1>5

\* Every step of every process is a step of the fenced queue or none of it.
LEMMA QueueStep ==
  TypeOK /\ TypeOK' /\ DrainInv /\ LeaseInv /\ [Next]_vars => [Queue!Next]_(Queue!queueVars)
<1> SUFFICES ASSUME TypeOK, TypeOK', DrainInv, LeaseInv, [Next]_vars
             PROVE  [Queue!Next]_(Queue!queueVars)
  OBVIOUS
<1>0. \A c \in claims \cup runners : c \in Claims /\ c.task \in Tasks
  BY DEF TypeOK, Claims
<1>1. CASE ClientStep
  <2>1. ASSUME NEW j \in Jobs, RequestCancel(j) PROVE [Queue!Next]_(Queue!queueVars)
    BY <2>1, DrainQueue DEF RequestCancel, leaseVars
  <2> QED BY <1>1, <2>1, AnnounceQueue DEF ClientStep
<1>2. CASE ClaimStep
  <2>1. PICK w \in Workers, t \in Tasks :
          DeferClaim(w, t) \/ BusyClaim(w, t) \/ ExhaustedClaim(w, t) \/ ClaimTask(w, t)
    BY <1>2 DEF ClaimStep
  <2>2. CASE DeferClaim(w, t) \/ BusyClaim(w, t)
    BY <2>2, QuietQueue DEF DeferClaim, BusyClaim, taskVars, leaseVars
  <2>3. CASE ExhaustedClaim(w, t)
    BY <2>3, DrainQueue DEF ExhaustedClaim, leaseVars
  <2>4. CASE ClaimTask(w, t)
    BY <2>4, TakeQueue DEF ClaimTask, ClaimGuard, Eligible, UnleasedStates
  <2> QED BY <2>1, <2>2, <2>3, <2>4
<1>3. CASE CompleteStep
  <2>1. PICK c \in claims \cup runners, got \in Reports :
           CompleteOverBudget(c, got) \/ \E links \in SUBSET Urls : CompleteTask(c, got, links)
    BY <1>3 DEF CompleteStep
  <2>2. CASE CompleteOverBudget(c, got)
    <3>1. taskState[c.task] = "leased"
      BY <2>2 DEF CompleteOverBudget, Fenced
    <3> QED BY <1>0, <2>2, <3>1, EndQueue
  <2> QED BY <1>0, <2>1, <2>2, FinishQueue
<1>4. CASE WorkerStep
  <2>1. PICK c \in claims :
          \/ Heartbeat(c) \/ ReserveBrowserNavigation(c) \/ BlockRobots(c)
          \/ WaitForInput(c) \/ EndRun(c)
          \/ \E got \in Reports : FailTask(c, got) \/ \E d \in RetryDelays : RetryTask(c, got, d)
    BY <1>4 DEF WorkerStep
  <2>2. CASE Heartbeat(c) \/ ReserveBrowserNavigation(c) \/ EndRun(c)
    BY <2>2, QuietQueue DEF Heartbeat, ReserveBrowserNavigation, EndRun, taskVars, leaseVars
  <2>3. CASE BlockRobots(c) \/ \E got \in Reports : FailTask(c, got)
    <3>1. taskState[c.task] = "leased"
      BY <2>3 DEF BlockRobots, FailTask, Fenced
    <3> QED BY <1>0, <2>3, <3>1, EndQueue
  <2>4. CASE WaitForInput(c) \/ \E got \in Reports, d \in RetryDelays : RetryTask(c, got, d)
    <3>1. /\ taskState[c.task] = "leased" /\ UNCHANGED <<lastToken, results>>
          /\ ReleaseLease(c.task)
      BY <2>4 DEF WaitForInput, RetryTask, Requeue, Fenced
    <3>2. PICK s \in UnleasedStates : taskState' = [taskState EXCEPT ![c.task] = s]
      BY <2>4 DEF WaitForInput, RetryTask, Requeue, UnleasedStates
    <3> QED BY <1>0, <3>1, <3>2, RequeueQueue
  <2> QED BY <2>1, <2>2, <2>3, <2>4
<1>5. CASE RejectStep
  <2>1. PICK c \in claims \cup runners : RejectedCall(c)
    BY <1>5 DEF RejectStep
  <2> QED BY <1>0, <2>1, EndQueue DEF RejectedCall, Fenced
<1>6. CASE RunnerStep
  <2>1. PICK r \in runners :
          ResumeLiveSession(r) \/ CloseCompleted(r) \/ RunnerFails(r) \/ RunnerEnds(r)
    BY <1>6 DEF RunnerStep
  <2>2. CASE ResumeLiveSession(r)
    BY <1>0, <2>2, TakeQueue DEF ResumeLiveSession, ResumeGuard, UnleasedStates
  <2>3. CASE CloseCompleted(r) \/ RunnerEnds(r)
    BY <2>3, QuietQueue DEF CloseCompleted, RunnerEnds, taskVars, leaseVars
  <2>4. CASE RunnerFails(r)
    BY <1>0, <2>4, SessionEndQueue DEF RunnerFails
  <2> QED BY <2>1, <2>2, <2>3, <2>4
<1>7. CASE HumanStep
  <2>1. PICK t \in Tasks : Touch(t) \/ RequestResume(t) \/ CancelSession(t)
    BY <1>7 DEF HumanStep
  <2>2. CASE Touch(t) \/ RequestResume(t)
    BY <2>2, QuietQueue DEF Touch, RequestResume, taskVars, leaseVars
  <2>3. CASE CancelSession(t)
    BY <2>3, SessionEndQueue DEF CancelSession
  <2> QED BY <2>1, <2>2, <2>3
<1>8. CASE MaintenanceStep
  <2>1. ASSUME NEW t \in Tasks, ReapLease(t) PROVE Queue!Next
    <3>1. taskState[t] = "leased"
      BY <2>1 DEF ReapLease, ReapInactive, ReapExhausted, ReapRetry, LeaseExpired
    <3>2. CASE ReapInactive(t) \/ ReapExhausted(t)
      BY <3>1, <3>2, EndQueue DEF ReapInactive
    <3>3. CASE ReapRetry(t)
      BY <3>1, <3>3, RequeueQueue DEF ReapRetry, Requeue, UnleasedStates
    <3> QED BY <2>1, <3>2, <3>3 DEF ReapLease
  <2>2. ASSUME NEW j \in Jobs, FinalizeJob(j) PROVE [Queue!Next]_(Queue!queueVars)
    <3>1. PICK D \in SUBSET Unleased(j) : taskState' = MoveTo(D, "cancelled")
      BY <2>2 DEF FinalizeJob
    <3> QED BY <2>2, <3>1, DrainQueue DEF FinalizeJob, leaseVars
  <2> QED BY <1>8, <2>1, <2>2, SessionEndQueue DEF MaintenanceStep
<1>9. CASE Tick \/ UNCHANGED vars
  BY <1>9, QuietQueue DEF Tick, vars, taskVars, leaseVars
<1> QED BY <1>1, <1>2, <1>3, <1>4, <1>5, <1>6, <1>7, <1>8, <1>9 DEF Next

\* The transactions of repository.py and sessions.py implement the fenced queue
\* for any jobs, pages and workers: a page is held under one fresh grant at a
\* time, only the grant's holder settles it, and a result is kept for good.
THEOREM CrawlImplementsQueue == Spec => ImplementsQueue
<1>1. Init => Queue!Init
  BY PhaseValues DEF Init, Queue!Init
<1> QED BY <1>1, TypeCorrect, DrainCorrect, LeaseCorrect, QueueStep, PTL
       DEF Spec, ImplementsQueue, Queue!Spec
=============================================================================
