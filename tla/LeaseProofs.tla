----------------------------- MODULE LeaseProofs -----------------------------
(***************************************************************************)
(* The lease protocol, for every instance: LeaseInv is inductive and with  *)
(* it at most one lease per origin, one writer per task, exact budget      *)
(* reservations and permits that match the leases.                         *)
(***************************************************************************)
EXTENDS CrawlSystemProofs

\* The lease protocol.  Every step of the system is, for the lease columns, one
\* of three: a lease is taken (LeaseStep), given back (ReleaseStep), or no lease
\* is touched (QuietStep).

\* A step that changes no lease, permit, token or reservation preserves LeaseInv.
LEMMA QuietStep ==
  ASSUME TypeOK, TypeOK', LeaseInv, OneOriginPerJob',
         \A x \in Tasks : taskState'[x] = "leased" <=> taskState[x] = "leased",
         UNCHANGED <<token, held, originLeases, reserved, used, lastToken>>,
         claims' \subseteq claims, runners' \subseteq runners
  PROVE  LeaseInv'
<1>1. PermitsMatchLeases'
  BY DEF LeaseInv, PermitsMatchLeases, OriginKey
<1>2. OneLeasePerOrigin' /\ UnleasedHoldsNothing' /\ TokensAreIssued'
  BY DEF LeaseInv, OneLeasePerOrigin, UnleasedHoldsNothing, TokensAreIssued, OriginKey
<1>3. SingleWriter'
  BY DEF LeaseInv, SingleWriter, Fenced, TypeOK, Claims
<1>4. ReservationsExact' /\ BudgetHolds'
  BY DEF LeaseInv, ReservationsExact, BudgetHolds, TasksIn
<1> QED BY <1>1, <1>2, <1>3, <1>4 DEF LeaseInv

\* Permits and leased tasks correspond one to one.
LEMMA PermitOf ==
  ASSUME LeaseInv
  PROVE  /\ \A r \in originLeases : /\ r.task \in Tasks /\ taskState[r.task] = "leased"
                                    /\ r.origin = OriginKey(r.task) /\ r.token = token[r.task]
         /\ \A t \in Tasks : taskState[t] = "leased" =>
               [origin |-> OriginKey(t), task |-> t, token |-> token[t]] \in originLeases
BY DEF LeaseInv, PermitsMatchLeases

\* A job has one leased task at most: its tasks share the origin of the seed.
LEMMA OneLeasePerJob ==
  ASSUME LeaseInv, NEW t \in Tasks, NEW x \in Tasks, taskState[t] = "leased",
         taskState[x] = "leased", t.job = x.job
  PROVE  t = x
BY DEF LeaseInv, OneLeasePerOrigin, OneOriginPerJob

\* A fresh lease on a free origin (claim_task, resume_live_session) preserves LeaseInv.
LEMMA LeaseStep ==
  ASSUME TypeOK, TypeOK', LeaseInv, NEW w \in Workers, NEW t \in Tasks,
         Lease(w, t), ~Exhausted(t), ~OriginBusy(OriginKey(t)),
         taskState[t] \notin {"absent", "leased"}, used' = used,
         \A c \in (claims \cup runners)' :
            c \in claims \cup runners \/ c = [worker |-> w, task |-> t, token |-> lastToken + 1]
  PROVE  LeaseInv'
<1> DEFINE new == [origin |-> OriginKey(t), task |-> t, token |-> lastToken + 1]
<1>1. /\ taskState' = [taskState EXCEPT ![t] = "leased"]
      /\ token' = [token EXCEPT ![t] = lastToken + 1]
      /\ held' = [held EXCEPT ![t] = Allowance(t)]
      /\ reserved' = [reserved EXCEPT ![t.job] = [m \in Meters |-> @[m] + Allowance(t)[m]]]
      /\ originLeases' = originLeases \cup {new}
      /\ lastToken' = lastToken + 1
  BY DEF Lease
<1>2. \A x \in Tasks : taskState[x] = "leased" => OriginKey(x) # OriginKey(t)
  BY PermitOf DEF OriginBusy
<1>3. OneOriginPerJob' /\ UnleasedHoldsNothing'
  BY <1>1 DEF LeaseInv, OneOriginPerJob, UnleasedHoldsNothing, OriginKey, TypeOK
<1>4. OneLeasePerOrigin'
  BY <1>1, <1>2 DEF LeaseInv, OneLeasePerOrigin, OriginKey, TypeOK
<1>5. PermitsMatchLeases'
  <2>1. \A x \in Tasks : taskState'[x] = "leased" <=> x = t \/ taskState[x] = "leased"
    BY <1>1 DEF TypeOK
  <2>2. token'[t] = lastToken + 1 /\ \A x \in Tasks : x # t => token'[x] = token[x]
    BY <1>1 DEF TypeOK
  <2>3. ASSUME NEW r \in originLeases'
        PROVE  \E x \in Tasks : /\ taskState'[x] = "leased"
                                /\ r = [origin |-> OriginKey(x), task |-> x, token |-> token'[x]]
    <3>1. CASE r = new
      BY <2>1, <2>2, <3>1
    <3>2. CASE r \in originLeases
      <4>1. PICK x \in Tasks : /\ taskState[x] = "leased"
                               /\ r = [origin |-> OriginKey(x), task |-> x, token |-> token[x]]
        BY <3>2 DEF LeaseInv, PermitsMatchLeases
      <4> QED BY <2>1, <2>2, <4>1
    <3> QED BY <1>1, <2>3, <3>1, <3>2
  <2>4. ASSUME NEW x \in Tasks, taskState'[x] = "leased"
        PROVE  [origin |-> OriginKey(x), task |-> x, token |-> token'[x]] \in originLeases'
    <3>1. CASE x = t
      BY <1>1, <2>2, <3>1
    <3>2. CASE x # t
      BY <1>1, <2>1, <2>2, <2>4, <3>2, PermitOf
    <3> QED BY <3>1, <3>2
  <2> QED BY <2>3, <2>4 DEF PermitsMatchLeases, OriginKey
<1>6. TokensAreIssued'
  <2>1. lastToken \in Nat /\ lastToken' = lastToken + 1
    BY <1>1 DEF TypeOK
  <2>2. ASSUME NEW x \in Tasks
        PROVE  token'[x] <= lastToken' /\ (taskState'[x] = "leased" => token'[x] # 0)
    <3>1. token[x] \in Nat /\ token[x] <= lastToken /\ (taskState[x] = "leased" => token[x] # 0)
      BY DEF LeaseInv, TokensAreIssued, TypeOK
    <3>2. CASE x = t
      <4>1. token'[x] = lastToken + 1
        BY <1>1, <3>2 DEF TypeOK
      <4> QED BY <2>1, <4>1
    <3>3. CASE x # t
      <4>1. token'[x] = token[x] /\ taskState'[x] = taskState[x]
        BY <1>1, <3>3 DEF TypeOK
      <4> QED BY <2>1, <3>1, <4>1
    <3> QED BY <3>2, <3>3
  <2>3. ASSUME NEW c \in (claims \cup runners)'
        PROVE  c.token <= lastToken'
    <3>1. CASE c \in claims \cup runners
      <4>1. c.token \in Nat /\ c.token <= lastToken
        BY <3>1 DEF LeaseInv, TokensAreIssued, TypeOK, Claims
      <4> QED BY <2>1, <4>1
    <3>2. CASE c = [worker |-> w, task |-> t, token |-> lastToken + 1]
      <4>1. c.token = lastToken + 1
        BY <3>2
      <4> QED BY <2>1, <4>1
    <3> QED BY <2>3, <3>1, <3>2
  <2> QED BY <2>2, <2>3 DEF TokensAreIssued
<1>7. SingleWriter'
  <2> DEFINE mine == [worker |-> w, task |-> t, token |-> lastToken + 1]
  <2>1. \A c \in claims \cup runners : c.task \in Tasks /\ c.token \in Nat /\ c.token <= lastToken
    BY DEF LeaseInv, TokensAreIssued, TypeOK, Claims
  <2>2. SUFFICES ASSUME NEW c \in (claims \cup runners)', NEW d \in (claims \cup runners)',
                        c.task = d.task, Fenced(c.task, c.token)', Fenced(d.task, d.token)'
                 PROVE  c = d
    BY DEF SingleWriter
  <2>3. CASE c.task = t
    <3>1. token'[t] = lastToken + 1 /\ lastToken \in Nat
      BY <1>1 DEF TypeOK
    <3>2. c.token = lastToken + 1 /\ d.token = lastToken + 1
      BY <2>2, <2>3, <3>1 DEF Fenced
    <3>3. c \notin claims \cup runners /\ d \notin claims \cup runners
      BY <2>1, <3>1, <3>2
    <3> QED BY <2>2, <3>3
  <2>4. CASE c.task # t
    <3>1. c \in claims \cup runners /\ d \in claims \cup runners
      BY <2>2, <2>4
    <3>2. Fenced(c.task, c.token) /\ Fenced(d.task, d.token)
      BY <1>1, <2>1, <2>2, <2>4, <3>1 DEF Fenced, TypeOK
    <3> QED BY <2>2, <3>1, <3>2 DEF LeaseInv, SingleWriter
  <2> QED BY <2>3, <2>4
<1>8. t.job \in Jobs /\ Allowance(t) \in [Meters -> Nat]
  BY AllowanceType, OriginKeyType
<1>9. reserved[t.job] = Nothing
  <2>1. TasksIn(t.job, {"leased"}) = {}
    BY <1>2 DEF LeaseInv, OneOriginPerJob, TasksIn
  <2> QED BY <1>8, <2>1 DEF LeaseInv, ReservationsExact
<1>10. ReservationsExact'
  <2>1. reserved'[t.job] = Allowance(t)
    BY <1>1, <1>8, <1>9 DEF TypeOK, Nothing
  <2>2. SUFFICES ASSUME NEW j \in Jobs
                 PROVE  /\ \A x \in TasksIn(j, {"leased"})' : reserved'[j] = held'[x]
                        /\ TasksIn(j, {"leased"})' = {} => reserved'[j] = Nothing
    BY DEF ReservationsExact
  <2>3. CASE j = t.job
    <3>1. t \in TasksIn(j, {"leased"})'
      BY <1>1, <2>3 DEF TasksIn, TypeOK
    <3>2. ASSUME NEW x \in TasksIn(j, {"leased"})'
          PROVE  x = t
      <4>1. x \in Tasks /\ x.job = t.job /\ taskState'[x] = "leased"
        BY <2>3, <3>2 DEF TasksIn
      <4>2. CASE x # t
        <5>1. taskState[x] = "leased"
          BY <1>1, <4>1, <4>2 DEF TypeOK
        <5>2. OriginKey(x) = OriginKey(t)
          BY <4>1, <5>1 DEF LeaseInv, OneOriginPerJob
        <5> QED BY <1>2, <4>1, <5>1, <5>2
      <4> QED BY <4>2
    <3>3. held'[t] = Allowance(t)
      BY <1>1 DEF TypeOK
    <3> QED BY <2>1, <2>3, <3>1, <3>2, <3>3
  <2>4. CASE j # t.job
    <3>1. TasksIn(j, {"leased"})' = TasksIn(j, {"leased"}) /\ t \notin TasksIn(j, {"leased"})
      BY <1>1, <2>4 DEF TasksIn, TypeOK
    <3>2. reserved'[j] = reserved[j]
      BY <1>1, <2>4 DEF TypeOK
    <3>3. \A x \in TasksIn(j, {"leased"}) : held'[x] = held[x]
      BY <1>1, <3>1 DEF TypeOK, TasksIn
    <3> QED BY <3>1, <3>2, <3>3 DEF LeaseInv, ReservationsExact
  <2> QED BY <2>3, <2>4
<1>11. BudgetHolds'
  <2>1. SUFFICES ASSUME NEW j \in Jobs, NEW m \in Meters
                 PROVE  used[j][m] + reserved'[j][m] <= Budget[m]
    BY DEF BudgetHolds
  <2>2. Budget[m] \in Nat /\ used[j][m] \in Nat /\ reserved[j][m] \in Nat
    BY LimitsAssumption DEF TypeOK
  <2>3. CASE j = t.job
    <3>1. CapOf(t.url)[m] \in Nat
      BY OriginKeyType, LimitsAssumption DEF CapOf
    <3>2. Allowance(t)[m] <= Budget[m] - used[j][m] - reserved[j][m]
      BY <2>2, <2>3, <3>1 DEF Allowance, Min2
    <3>3. reserved'[j][m] = reserved[j][m] + Allowance(t)[m]
      BY <1>1, <1>8, <2>3 DEF TypeOK
    <3> QED BY <1>8, <2>2, <3>2, <3>3
  <2>4. CASE j # t.job
    BY <1>1, <2>2, <2>4 DEF LeaseInv, BudgetHolds, TypeOK
  <2> QED BY <2>3, <2>4
<1> QED BY <1>3, <1>4, <1>5, <1>6, <1>7, <1>10, <1>11 DEF LeaseInv

\* No task appears, so none appears on a foreign origin.
LEMMA OriginsKept ==
  ASSUME LeaseInv, \A x \in Tasks : taskState'[x] # "absent" => taskState[x] # "absent"
  PROVE  OneOriginPerJob'
BY DEF LeaseInv, OneOriginPerJob, OriginKey

\* A lease given back with its permit, its reservation returned and at most what
\* it held charged, preserves LeaseInv.
LEMMA ReleaseStep ==
  ASSUME TypeOK, TypeOK', LeaseInv, OneOriginPerJob', NEW t \in Tasks,
         taskState[t] = "leased", taskState'[t] # "leased",
         \A x \in Tasks : x # t => (taskState'[x] = "leased" <=> taskState[x] = "leased"),
         ClearLease(t),
         \A r : r \in originLeases' <=> r \in originLeases /\ r.task # t,
         \A j \in Jobs, m \in Meters : j # t.job => used'[j][m] = used[j][m],
         \A m \in Meters : used'[t.job][m] <= used[t.job][m] + held[t][m],
         lastToken' = lastToken,
         \A c \in (claims \cup runners)' : c \in claims \cup runners \/ c.token = 0
  PROVE  LeaseInv'
<1>1. /\ token' = [token EXCEPT ![t] = 0]
      /\ held' = [held EXCEPT ![t] = Nothing]
      /\ reserved' = [reserved EXCEPT ![t.job] = [m \in Meters |-> Max2(0, @[m] - held[t][m])]]
  BY DEF ClearLease
<1>2. /\ token'[t] = 0 /\ held'[t] = Nothing
      /\ \A x \in Tasks : x # t => token'[x] = token[x] /\ held'[x] = held[x]
  BY <1>1 DEF TypeOK
<1>3. t.job \in Jobs
  BY OriginKeyType
<1>4. reserved[t.job] = held[t]
  BY <1>3 DEF LeaseInv, ReservationsExact, TasksIn
<1>5. reserved'[t.job] = Nothing /\ \A j \in Jobs : j # t.job => reserved'[j] = reserved[j]
  <2>1. \A m \in Meters : held[t][m] \in Nat
    BY DEF TypeOK
  <2>2. \A m \in Meters : Max2(0, held[t][m] - held[t][m]) = 0
    BY <2>1 DEF Max2
  <2>3. reserved'[t.job] = [m \in Meters |-> Max2(0, held[t][m] - held[t][m])]
    BY <1>1, <1>3, <1>4 DEF TypeOK
  <2> QED BY <1>1, <2>2, <2>3 DEF TypeOK, Nothing
<1>6. PermitsMatchLeases'
  <2>1. ASSUME NEW r \in originLeases'
        PROVE  \E x \in Tasks : /\ taskState'[x] = "leased"
                                /\ r = [origin |-> OriginKey(x), task |-> x, token |-> token'[x]]
    <3>1. PICK x \in Tasks : /\ taskState[x] = "leased"
                             /\ r = [origin |-> OriginKey(x), task |-> x, token |-> token[x]]
      BY <2>1 DEF LeaseInv, PermitsMatchLeases
    <3>2. x # t
      BY <2>1, <3>1
    <3> QED BY <1>2, <3>1, <3>2
  <2>2. ASSUME NEW x \in Tasks, taskState'[x] = "leased"
        PROVE  [origin |-> OriginKey(x), task |-> x, token |-> token'[x]] \in originLeases'
    <3>1. x # t /\ taskState[x] = "leased" /\ token'[x] = token[x]
      BY <1>2, <2>2
    <3> QED BY <3>1, PermitOf
  <2> QED BY <2>1, <2>2 DEF PermitsMatchLeases, OriginKey
<1>7. OneLeasePerOrigin' /\ UnleasedHoldsNothing'
  BY <1>2 DEF LeaseInv, OneLeasePerOrigin, UnleasedHoldsNothing, OriginKey
<1>8. TokensAreIssued'
  <2>1. ASSUME NEW x \in Tasks
        PROVE  token'[x] <= lastToken /\ (taskState'[x] = "leased" => token'[x] # 0)
    <3>1. CASE x = t
      BY <1>2, <3>1 DEF TypeOK
    <3>2. CASE x # t
      BY <1>2, <3>2 DEF LeaseInv, TokensAreIssued
    <3> QED BY <3>1, <3>2
  <2>2. \A c \in claims \cup runners : c.token <= lastToken
    BY DEF LeaseInv, TokensAreIssued
  <2>3. lastToken \in Nat /\ 0 <= lastToken
    BY DEF TypeOK
  <2>4. ASSUME NEW c \in (claims \cup runners)' PROVE c.token <= lastToken
    BY <2>2, <2>3, <2>4
  <2> QED BY <2>1, <2>4 DEF TokensAreIssued
<1>9. SingleWriter'
  <2>1. SUFFICES ASSUME NEW c \in (claims \cup runners)', NEW d \in (claims \cup runners)',
                        c.task = d.task, Fenced(c.task, c.token)', Fenced(d.task, d.token)'
                 PROVE  c = d
    BY DEF SingleWriter
  <2>2. c.task \in Tasks
    BY DEF TypeOK, Claims
  <2>3. c.task # t
    BY <2>1 DEF Fenced
  <2>4. token'[c.task] # 0
    BY <1>8, <2>1, <2>2 DEF TokensAreIssued, Fenced
  <2>5. c \in claims \cup runners /\ d \in claims \cup runners
    BY <2>1, <2>4 DEF Fenced
  <2>6. Fenced(c.task, c.token) /\ Fenced(d.task, d.token)
    BY <1>2, <2>1, <2>2, <2>3 DEF Fenced
  <2> QED BY <2>1, <2>5, <2>6 DEF LeaseInv, SingleWriter
<1>10. ReservationsExact'
  <2>1. SUFFICES ASSUME NEW j \in Jobs
                 PROVE  /\ \A x \in TasksIn(j, {"leased"})' : reserved'[j] = held'[x]
                        /\ TasksIn(j, {"leased"})' = {} => reserved'[j] = Nothing
    BY DEF ReservationsExact
  <2>2. CASE j = t.job
    <3>1. ASSUME NEW x \in TasksIn(j, {"leased"})' PROVE FALSE
      <4>1. x \in Tasks /\ x.job = t.job /\ x # t /\ taskState[x] = "leased"
        BY <2>2, <3>1 DEF TasksIn
      <4> QED BY <4>1, OneLeasePerJob
    <3> QED BY <1>5, <2>2, <3>1
  <2>3. CASE j # t.job
    <3>1. TasksIn(j, {"leased"})' = TasksIn(j, {"leased"}) /\ t \notin TasksIn(j, {"leased"})
      BY <2>3 DEF TasksIn
    <3>2. \A x \in TasksIn(j, {"leased"}) : held'[x] = held[x]
      BY <1>2, <3>1 DEF TasksIn
    <3> QED BY <1>5, <2>3, <3>1, <3>2 DEF LeaseInv, ReservationsExact
  <2> QED BY <2>2, <2>3
<1>11. BudgetHolds'
  <2>1. SUFFICES ASSUME NEW j \in Jobs, NEW m \in Meters
                 PROVE  used'[j][m] + reserved'[j][m] <= Budget[m]
    BY DEF BudgetHolds
  <2>2. /\ Budget[m] \in Nat /\ used[j][m] \in Nat /\ reserved[j][m] \in Nat
        /\ used'[j][m] \in Nat /\ used[j][m] + reserved[j][m] <= Budget[m]
    BY LimitsAssumption DEF TypeOK, LeaseInv, BudgetHolds
  <2>3. CASE j = t.job
    <3>1. reserved'[j][m] = 0 /\ used'[j][m] <= used[j][m] + reserved[j][m]
      BY <1>4, <1>5, <2>3 DEF Nothing
    <3> QED BY <2>2, <3>1
  <2>4. CASE j # t.job
    BY <1>5, <2>2, <2>4
  <2> QED BY <2>3, <2>4
<1> QED BY <1>6, <1>7, <1>8, <1>9, <1>10, <1>11 DEF LeaseInv

\* The two ways a lease is given back delete the same permit.
LEMMA PermitsAfter ==
  ASSUME LeaseInv, NEW t \in Tasks, ReleaseLease(t) \/ CloseLease(t)
  PROVE  ClearLease(t) /\ \A r : r \in originLeases' <=> r \in originLeases /\ r.task # t
<1>1. CASE ReleaseLease(t)
  BY <1>1, PermitOf DEF ReleaseLease
<1>2. CASE CloseLease(t)
  BY <1>2 DEF CloseLease
<1> QED BY <1>1, <1>2

\* A charge of at most what the task holds moves the job's usage by at most that.
LEMMA ChargeWithin ==
  ASSUME TypeOK, NEW t \in Tasks, NEW cost \in [Meters -> Nat], Charge(t.job, cost),
         \A m \in Meters : cost[m] <= held[t][m]
  PROVE  /\ \A j \in Jobs, m \in Meters : j # t.job => used'[j][m] = used[j][m]
         /\ \A m \in Meters : used'[t.job][m] <= used[t.job][m] + held[t][m]
<1>1. t.job \in Jobs
  BY OriginKeyType
<1>2. \A m \in Meters : /\ used[t.job][m] \in Nat /\ held[t][m] \in Nat /\ cost[m] \in Nat
                        /\ used'[t.job][m] = used[t.job][m] + cost[m]
  BY <1>1 DEF TypeOK, Charge
<1>3. \A j \in Jobs : j # t.job => used'[j] = used[j]
  BY <1>1 DEF TypeOK, Charge
<1> QED BY <1>2, <1>3

\* _terminalize preserves LeaseInv.
LEMMA TerminalizeLease ==
  ASSUME TypeOK, TypeOK', LeaseInv, NEW t \in Tasks, taskState[t] = "leased",
         NEW s \in TerminalTaskStates, NEW drained \in SUBSET Unleased(t.job),
         NEW cost \in [Meters -> Nat], \A m \in Meters : cost[m] <= held[t][m],
         Terminalize(t, s, drained, cost), UNCHANGED <<lastToken, processVars>>
  PROVE  LeaseInv'
<1>1. /\ taskState' = [MoveTo(drained, "permanent_failed") EXCEPT ![t] = s]
      /\ ReleaseLease(t) /\ Charge(t.job, cost)
  BY DEF Terminalize
<1>2. s \notin {"leased", "absent"}
  BY DEF TerminalTaskStates, FailedStates
<1>3. taskState'[t] = s
  BY <1>1 DEF MoveTo
<1>4. ASSUME NEW x \in Tasks, x # t
      PROVE  /\ taskState'[x] = "leased" <=> taskState[x] = "leased"
             /\ taskState'[x] # "absent" => taskState[x] # "absent"
  <2>1. x \in drained => taskState[x] \notin {"leased", "absent"}
    BY DEF Unleased, TasksIn, UnleasedStates
  <2>2. taskState'[x] = IF x \in drained THEN "permanent_failed" ELSE taskState[x]
    BY <1>1, <1>4 DEF MoveTo
  <2> QED BY <2>1, <2>2
<1>5. OneOriginPerJob'
  BY <1>4, OriginsKept
<1> QED BY <1>1, <1>2, <1>3, <1>4, <1>5, PermitsAfter, ChargeWithin, ReleaseStep DEF processVars

\* A step that gives t back to the queue or parks it, charging at most what it held.
LEMMA GiveBackLease ==
  ASSUME TypeOK, TypeOK', LeaseInv, NEW t \in Tasks, taskState[t] = "leased",
         NEW s, s # "leased", taskState' = [taskState EXCEPT ![t] = s],
         ReleaseLease(t) \/ CloseLease(t), UNCHANGED lastToken,
         \A j \in Jobs, m \in Meters : j # t.job => used'[j][m] = used[j][m],
         \A m \in Meters : used'[t.job][m] <= used[t.job][m] + held[t][m],
         \A c \in (claims \cup runners)' : c \in claims \cup runners \/ c.token = 0
  PROVE  LeaseInv'
<1>1. taskState'[t] = s /\ \A x \in Tasks : x # t => taskState'[x] = taskState[x]
  BY DEF TypeOK
<1>2. OneOriginPerJob'
  BY <1>1, OriginsKept
<1> QED BY <1>1, <1>2, PermitsAfter, ReleaseStep

\* No charge is a charge within the reservation.
LEMMA UsedKept ==
  ASSUME TypeOK, NEW t \in Tasks, UNCHANGED used
  PROVE  /\ \A j \in Jobs, m \in Meters : j # t.job => used'[j][m] = used[j][m]
         /\ \A m \in Meters : used'[t.job][m] <= used[t.job][m] + held[t][m]
<1>1. \A m \in Meters : used[t.job][m] \in Nat /\ held[t][m] \in Nat
  BY OriginKeyType DEF TypeOK
<1> QED BY <1>1

\* submit_job preserves LeaseInv: by DrainInv an absent job has no tasks.
LEMMA SubmitJobLease ==
  ASSUME TypeOK, TypeOK', LeaseInv, DrainInv, NEW j \in Jobs, SubmitJob(j)
  PROVE  LeaseInv'
<1> DEFINE t == TaskOf(j, Seed[j])
<1>1. t \in Tasks /\ t.job = j /\ OriginKey(t) = OriginOf[Seed[j]]
  BY TablesAssumption DEF TaskOf, Tasks, OriginKey
<1>2. taskState' = [taskState EXCEPT ![t] = "pending"]
  BY DEF SubmitJob
<1>3. OneOriginPerJob'
  BY <1>1, <1>2 DEF LeaseInv, OneOriginPerJob, OriginKey, TypeOK
<1>4. taskState[t] = "absent"
  BY <1>1 DEF SubmitJob, DrainInv, TasksHaveJob
<1>5. \A x \in Tasks : taskState'[x] = "leased" <=> taskState[x] = "leased"
  BY <1>1, <1>2, <1>4 DEF TypeOK
<1> QED BY <1>3, <1>5, QuietStep DEF SubmitJob, leaseVars, processVars

\* Every transaction that terminalizes a leased task preserves LeaseInv.
LEMMA EndLease ==
  ASSUME TypeOK, TypeOK', LeaseInv, NEW t \in Tasks, taskState[t] = "leased",
         \/ RejectInactiveLease(t)
         \/ ReapExhausted(t)
         \/ \E c \in Claims : /\ c.task = t
                              /\ \/ BlockRobots(c)
                                 \/ \E got \in Reports : FailTask(c, got) \/ CompleteOverBudget(c, got)
  PROVE  LeaseInv'
<1>1. PICK s \in {"permanent_failed", "cancelled", "blocked_robots"},
           D \in SUBSET Unleased(t.job), cost \in [Meters -> Nat] :
           /\ \A m \in Meters : cost[m] <= held[t][m]
           /\ Terminalize(t, s, D, cost)
           /\ UNCHANGED <<lastToken, processVars>>
  BY EndingStep
<1>2. s \in TerminalTaskStates
  BY DEF TerminalTaskStates, FailedStates
<1> QED BY <1>1, <1>2, TerminalizeLease

\* A step that gives no task a lease or takes it away and leaves the lease
\* columns, the budgets and the processes alone.
LEMMA UntouchedLease ==
  ASSUME TypeOK, TypeOK', LeaseInv,
         \A x \in Tasks : /\ taskState'[x] = "leased" <=> taskState[x] = "leased"
                          /\ taskState'[x] # "absent" => taskState[x] # "absent",
         UNCHANGED <<token, held, originLeases, reserved, used, lastToken>>,
         claims' \subseteq claims, runners' \subseteq runners
  PROVE  LeaseInv'
BY OriginsKept, QuietStep

\* request_cancel and finalize_jobs preserve LeaseInv: they touch no lease.
LEMMA JobStepLease ==
  ASSUME TypeOK, TypeOK', LeaseInv, NEW j \in Jobs, RequestCancel(j) \/ FinalizeJob(j)
  PROVE  LeaseInv'
<1>1. PICK D \in SUBSET Unleased(j) : taskState' = MoveTo(D, "cancelled")
  BY DEF RequestCancel, FinalizeJob
<1>2. ASSUME NEW x \in Tasks
      PROVE  /\ taskState'[x] = "leased" <=> taskState[x] = "leased"
             /\ taskState'[x] # "absent" => taskState[x] # "absent"
  BY <1>1 DEF MoveTo, Unleased, TasksIn, UnleasedStates
<1>3. UNCHANGED <<token, held, originLeases, reserved, used, lastToken, claims, runners>>
  BY DEF RequestCancel, FinalizeJob, leaseVars, processVars
<1> QED BY <1>2, <1>3, UntouchedLease

\* Every way claim_task can end preserves LeaseInv.
LEMMA ClaimLease ==
  ASSUME TypeOK, TypeOK', LeaseInv, NEW w \in Workers, NEW t \in Tasks,
         DeferClaim(w, t) \/ BusyClaim(w, t) \/ ExhaustedClaim(w, t) \/ ClaimTask(w, t)
  PROVE  LeaseInv'
<1>1. CASE DeferClaim(w, t) \/ BusyClaim(w, t)
  BY <1>1, UntouchedLease DEF DeferClaim, BusyClaim, jobVars, taskVars, leaseVars, processVars
<1>2. CASE ExhaustedClaim(w, t)
  <2>1. \A x \in Tasks : /\ taskState'[x] = "leased" <=> taskState[x] = "leased"
                         /\ taskState'[x] # "absent" => taskState[x] # "absent"
    BY <1>2 DEF ExhaustedClaim, MoveTo, Unleased, TasksIn, UnleasedStates
  <2> QED BY <1>2, <2>1, UntouchedLease DEF ExhaustedClaim, leaseVars, processVars
<1>3. CASE ClaimTask(w, t)
  <2>1. /\ Lease(w, t) /\ ~Exhausted(t) /\ ~OriginBusy(OriginKey(t)) /\ used' = used
        /\ taskState[t] \notin {"absent", "leased"}
    BY <1>3 DEF ClaimTask, ClaimGuard, Eligible
  <2>2. (claims \cup runners)' =
            claims \cup runners \cup {[worker |-> w, task |-> t, token |-> lastToken + 1]}
    BY <1>3 DEF ClaimTask
  <2> QED BY <2>1, <2>2, LeaseStep
<1> QED BY <1>1, <1>2, <1>3

\* complete_task: the discovered tasks are on the origin of the page, and what
\* is charged has passed the over-budget test.
LEMMA CompleteLease ==
  ASSUME TypeOK, TypeOK', LeaseInv, NEW c \in Claims, NEW got \in Reports,
         NEW links \in SUBSET Urls, CompleteTask(c, got, links)
  PROVE  LeaseInv'
<1> DEFINE t == c.task
<1>1. /\ t \in Tasks /\ taskState[t] = "leased" /\ ~OverBudget(t, got)
      /\ ReleaseLease(t) /\ Charge(t.job, got) /\ UNCHANGED <<lastToken, processVars>>
  BY DEF Claims, CompleteTask, Fenced
<1>2. PICK A \in SUBSET Discoverable(t, links) :
        taskState' = [MoveTo({TaskOf(t.job, u) : u \in A}, "pending") EXCEPT ![t] = "succeeded"]
  BY DEF CompleteTask, Accepted
<1> DEFINE new == {TaskOf(t.job, u) : u \in A}
<1>3. \A x \in new : /\ taskState[x] = "absent" /\ x.job = t.job
                     /\ OriginKey(x) = OriginKey(t)
  BY DEF Discoverable, TaskOf, OriginKey
<1>4. taskState'[t] = "succeeded"
  BY <1>1, <1>2 DEF MoveTo
<1>5. \A x \in Tasks : x # t => taskState'[x] = IF x \in new THEN "pending" ELSE taskState[x]
  BY <1>2 DEF MoveTo
<1>6. OneOriginPerJob'
  <2>1. OriginKey(t) = OriginOf[Seed[t.job]]
    BY <1>1 DEF LeaseInv, OneOriginPerJob
  <2> QED BY <1>1, <1>3, <1>4, <1>5, <2>1 DEF LeaseInv, OneOriginPerJob, OriginKey
<1>7. got \in [Meters -> Nat] /\ \A m \in Meters : got[m] <= held[t][m]
  <2>1. got \in [Meters -> Nat] /\ \A m \in Meters : held[t][m] \in Nat
    BY <1>1, LimitsAssumption DEF TypeOK
  <2> QED BY <1>1, <2>1 DEF OverBudget
<1>8. \A x \in Tasks : x # t => (taskState'[x] = "leased" <=> taskState[x] = "leased")
  BY <1>3, <1>5
<1> QED BY <1>1, <1>4, <1>6, <1>7, <1>8, PermitsAfter, ChargeWithin, ReleaseStep DEF processVars

\* A parked task holds nothing, so closing its session releases nothing.
LEMMA CloseLeaseKept ==
  ASSUME TypeOK, TypeOK', LeaseInv, NEW t \in Tasks, NEW reason \in {"cancelled", "expired"},
         NEW w, CloseSession(t, reason, w), runners' \subseteq runners
  PROVE  LeaseInv'
<1>1. CASE taskState[t] = "leased" /\ Terminalized(t, reason, w)
  <2>1. /\ taskState' = [taskState EXCEPT ![t] =
                            IF reason = "cancelled" THEN "cancelled" ELSE "permanent_failed"]
        /\ CloseLease(t) /\ UNCHANGED <<used, lastToken, claims>>
    BY <1>1 DEF CloseSession
  <2>2. PICK s : s # "leased" /\ taskState' = [taskState EXCEPT ![t] = s]
    BY <2>1
  <2> QED BY <1>1, <2>1, <2>2, UsedKept, GiveBackLease
<1>2. CASE taskState[t] = "waiting_input"
  <2>1. held[t] = Nothing /\ token[t] = 0 /\ t.job \in Jobs
    BY <1>2, OriginKeyType DEF LeaseInv, UnleasedHoldsNothing
  <2>2. ClearLease(t) /\ originLeases' = {r \in originLeases : r.task # t}
    BY <1>2 DEF CloseSession, Terminalized, CloseLease
  <2>3. token' = token /\ held' = held
    BY <2>1, <2>2 DEF ClearLease, TypeOK
  <2>4. reserved' = reserved
    <3>1. \A m \in Meters : Max2(0, reserved[t.job][m] - held[t][m]) = reserved[t.job][m]
      BY <2>1 DEF TypeOK, Max2, Nothing
    <3>2. [m \in Meters |-> Max2(0, reserved[t.job][m] - held[t][m])] = reserved[t.job]
      BY <2>1, <3>1 DEF TypeOK
    <3> QED BY <2>1, <2>2, <3>2 DEF ClearLease, TypeOK
  <2>5. originLeases' = originLeases
    BY <1>2, <2>2, PermitOf
  <2>6. PICK s : s \notin {"leased", "absent"} /\ taskState' = [taskState EXCEPT ![t] = s]
    <3>1. taskState' = [taskState EXCEPT ![t] =
                            IF reason = "cancelled" THEN "cancelled" ELSE "permanent_failed"]
      BY <1>2 DEF CloseSession, Terminalized
    <3> QED BY <3>1
  <2>7. \A x \in Tasks : /\ taskState'[x] = "leased" <=> taskState[x] = "leased"
                         /\ taskState'[x] # "absent" => taskState[x] # "absent"
    BY <1>2, <2>6 DEF TypeOK
  <2>8. UNCHANGED <<used, lastToken, claims>>
    BY DEF CloseSession
  <2> QED BY <2>3, <2>4, <2>5, <2>7, <2>8, UntouchedLease
<1>3. CASE ~Terminalized(t, reason, w)
  BY <1>3, UntouchedLease DEF CloseSession, leaseVars
<1> QED BY <1>1, <1>2, <1>3 DEF Terminalized

\* Every step of the system keeps the lease protocol.
THEOREM LeaseInvStep == TypeOK /\ TypeOK' /\ DrainInv /\ LeaseInv /\ [Next]_vars => LeaseInv'
<1> SUFFICES ASSUME TypeOK, TypeOK', DrainInv, LeaseInv, [Next]_vars PROVE LeaseInv'
  OBVIOUS
<1>0. \A c \in claims \cup runners : c \in Claims /\ c.task \in Tasks /\ c.worker \in Workers
  BY DEF TypeOK, Claims
<1>1. CASE ClientStep
  BY <1>1, SubmitJobLease, JobStepLease DEF ClientStep
<1>2. CASE ClaimStep
  BY <1>2, ClaimLease DEF ClaimStep
<1>3. CASE CompleteStep
  <2>1. PICK c \in claims \cup runners, got \in Reports :
           CompleteOverBudget(c, got) \/ \E links \in SUBSET Urls : CompleteTask(c, got, links)
    BY <1>3 DEF CompleteStep
  <2>2. CASE CompleteOverBudget(c, got)
    <3>1. taskState[c.task] = "leased"
      BY <2>2 DEF CompleteOverBudget, Fenced
    <3> QED BY <1>0, <2>2, <3>1, EndLease
  <2> QED BY <1>0, <2>1, <2>2, CompleteLease
<1>4. CASE WorkerStep
  <2>1. PICK c \in claims :
          \/ Heartbeat(c) \/ ReserveBrowserNavigation(c) \/ BlockRobots(c)
          \/ WaitForInput(c) \/ EndRun(c)
          \/ \E got \in Reports : FailTask(c, got) \/ \E d \in RetryDelays : RetryTask(c, got, d)
    BY <1>4 DEF WorkerStep
  <2>2. CASE Heartbeat(c) \/ ReserveBrowserNavigation(c) \/ EndRun(c)
    BY <2>2, UntouchedLease DEF Heartbeat, ReserveBrowserNavigation, EndRun, jobVars, taskVars,
                                leaseVars, processVars
  <2>3. CASE BlockRobots(c) \/ \E got \in Reports : FailTask(c, got)
    <3>1. taskState[c.task] = "leased"
      BY <2>3 DEF BlockRobots, FailTask, Fenced
    <3> QED BY <1>0, <2>3, <3>1, EndLease
  <2>4. CASE WaitForInput(c)
    <3>1. /\ taskState[c.task] = "leased" /\ UNCHANGED <<used, lastToken>> /\ ReleaseLease(c.task)
          /\ taskState' = [taskState EXCEPT ![c.task] = "waiting_input"]
      BY <2>4 DEF WaitForInput, Fenced
    <3>2. \A d \in (claims \cup runners)' : d \in claims \cup runners \/ d.token = 0
      BY <2>4 DEF WaitForInput
    <3> QED BY <1>0, <3>1, <3>2, UsedKept, GiveBackLease
  <2>5. ASSUME NEW got \in Reports, NEW d \in RetryDelays, RetryTask(c, got, d) PROVE LeaseInv'
    <3>1. /\ taskState[c.task] = "leased" /\ UNCHANGED <<lastToken, claims, runners>>
          /\ ReleaseLease(c.task) /\ Charge(c.task.job, ActualBytes(c.task, got))
          /\ taskState' = [taskState EXCEPT ![c.task] = "retry_wait"]
      BY <2>5 DEF RetryTask, Requeue, Fenced, processVars
    <3>2. \A m \in Meters : held[c.task][m] \in Nat /\ got[m] \in Nat
      BY <1>0, LimitsAssumption DEF TypeOK
    <3>3. /\ ActualBytes(c.task, got) \in [Meters -> Nat]
          /\ \A m \in Meters : ActualBytes(c.task, got)[m] <= held[c.task][m]
      BY <3>2 DEF ActualBytes, Min2
    <3>4. /\ \A j \in Jobs, m \in Meters : j # c.task.job => used'[j][m] = used[j][m]
          /\ \A m \in Meters : used'[c.task.job][m] <= used[c.task.job][m] + held[c.task][m]
      BY <1>0, <3>1, <3>3, ChargeWithin
    <3> QED BY <1>0, <3>1, <3>4, GiveBackLease
  <2> QED BY <2>1, <2>2, <2>3, <2>4, <2>5
<1>5. CASE RejectStep
  <2>1. PICK c \in claims \cup runners : RejectedCall(c)
    BY <1>5 DEF RejectStep
  <2> QED BY <1>0, <2>1, EndLease DEF RejectedCall, Fenced
<1>6. CASE RunnerStep
  <2>1. PICK r \in runners :
          ResumeLiveSession(r) \/ CloseCompleted(r) \/ RunnerFails(r) \/ RunnerEnds(r)
    BY <1>6 DEF RunnerStep
  <2>2. CASE ResumeLiveSession(r)
    <3>1. /\ Lease(r.worker, r.task) /\ ~Exhausted(r.task) /\ ~OriginBusy(OriginKey(r.task))
          /\ used' = used /\ taskState[r.task] \notin {"absent", "leased"}
      BY <2>2 DEF ResumeLiveSession, ResumeGuard
    <3>2. \A c \in (claims \cup runners)' :
            \/ c \in claims \cup runners
            \/ c = [worker |-> r.worker, task |-> r.task, token |-> lastToken + 1]
      BY <2>2 DEF ResumeLiveSession
    <3> QED BY <1>0, <3>1, <3>2, LeaseStep
  <2>3. CASE CloseCompleted(r) \/ RunnerEnds(r)
    BY <2>3, UntouchedLease DEF CloseCompleted, RunnerEnds, jobVars, taskVars, leaseVars
  <2>4. CASE RunnerFails(r)
    BY <1>0, <2>4, CloseLeaseKept DEF RunnerFails
  <2> QED BY <2>1, <2>2, <2>3, <2>4
<1>7. CASE HumanStep
  <2>1. PICK t \in Tasks : Touch(t) \/ RequestResume(t) \/ CancelSession(t)
    BY <1>7 DEF HumanStep
  <2>2. CASE Touch(t) \/ RequestResume(t)
    BY <2>2, UntouchedLease DEF Touch, RequestResume, jobVars, taskVars, leaseVars, processVars
  <2>3. CASE CancelSession(t)
    BY <2>3, CloseLeaseKept DEF CancelSession
  <2> QED BY <2>1, <2>2, <2>3
<1>8. CASE MaintenanceStep
  <2>1. ASSUME NEW t \in Tasks, ReapLease(t) PROVE LeaseInv'
    <3>1. taskState[t] = "leased"
      BY <2>1 DEF ReapLease, ReapInactive, ReapExhausted, ReapRetry, LeaseExpired
    <3>2. CASE ReapInactive(t) \/ ReapExhausted(t)
      BY <3>1, <3>2, EndLease DEF ReapInactive
    <3>3. CASE ReapRetry(t)
      <4>1. /\ UNCHANGED <<used, lastToken, claims, runners>> /\ ReleaseLease(t)
            /\ taskState' = [taskState EXCEPT ![t] = "retry_wait"]
        BY <3>3 DEF ReapRetry, Requeue, processVars
      <4> QED BY <3>1, <4>1, UsedKept, GiveBackLease
    <3> QED BY <2>1, <3>2, <3>3 DEF ReapLease
  <2>2. ASSUME NEW t \in Tasks, ExpireSession(t) PROVE LeaseInv'
    <3>1. \A x \in Tasks : /\ taskState'[x] = "leased" <=> taskState[x] = "leased"
                           /\ taskState'[x] # "absent" => taskState[x] # "absent"
      BY <2>2 DEF ExpireSession, TypeOK
    <3> QED BY <2>2, <3>1, UntouchedLease DEF ExpireSession, leaseVars, processVars
  <2> QED BY <1>8, <2>1, <2>2, JobStepLease DEF MaintenanceStep
<1>9. CASE Tick \/ UNCHANGED vars
  BY <1>9, UntouchedLease DEF Tick, vars, jobVars, taskVars, leaseVars, processVars
<1> QED BY <1>1, <1>2, <1>3, <1>4, <1>5, <1>6, <1>7, <1>8, <1>9 DEF Next

\* The empty tables satisfy LeaseInv.
LEMMA LeaseInit == Init => LeaseInv
<1> SUFFICES ASSUME Init PROVE LeaseInv
  OBVIOUS
<1>1. \A t \in Tasks : /\ taskState[t] = "absent" /\ token[t] = 0 /\ held[t] = Nothing
                       /\ t.job \in Jobs
  BY OriginKeyType DEF Init
<1>2. /\ \A j \in Jobs : used[j] = Nothing /\ reserved[j] = Nothing
      /\ \A m \in Meters : Nothing[m] = 0
  BY DEF Init, Nothing
<1>3. originLeases = {} /\ claims = {} /\ runners = {} /\ lastToken = 0
  BY DEF Init
<1>4. PermitsMatchLeases /\ OneLeasePerOrigin /\ OneOriginPerJob /\ UnleasedHoldsNothing
  BY <1>1, <1>3 DEF PermitsMatchLeases, OneLeasePerOrigin, OneOriginPerJob, UnleasedHoldsNothing
<1>5. TokensAreIssued /\ SingleWriter
  BY <1>1, <1>3 DEF TokensAreIssued, SingleWriter
<1>6. ReservationsExact
  BY <1>1, <1>2 DEF ReservationsExact, TasksIn
<1>7. BudgetHolds
  BY <1>2, LimitsAssumption DEF BudgetHolds
<1> QED BY <1>4, <1>5, <1>6, <1>7 DEF LeaseInv

\* The lease protocol holds in every reachable state of every instance: permits
\* match leases, an origin has one lease, tokens are fresh, reservations are exact.
THEOREM LeaseCorrect == Spec => []LeaseInv
BY TypeInit, TypeStep, DrainInit, DrainStep, LeaseInit, LeaseInvStep, PTL DEF Spec

\* claim_task and resume_live_session never start a second request to an origin,
\* whatever jobs, workers and live sessions compete for it.
THEOREM OriginsAreExclusive == Spec => []OneLeasePerOrigin
<1>1. LeaseInv => OneLeasePerOrigin
  BY DEF LeaseInv
<1> QED BY <1>1, LeaseCorrect, PTL

\* Of the processes that remember a claim of a task, stale ones included, at most
\* one passes _fenced_task.
THEOREM WritersAreSingle == Spec => []SingleWriter
<1>1. LeaseInv => SingleWriter
  BY DEF LeaseInv
<1> QED BY <1>1, LeaseCorrect, PTL

\* max_bytes and max_artifact_bytes bound what a job has spent together with what
\* its leases may still spend.
THEOREM BudgetsHold == Spec => []BudgetHolds
<1>1. LeaseInv => BudgetHolds
  BY DEF LeaseInv
<1> QED BY <1>1, LeaseCorrect, PTL

\* The reservation of a job is that of its one lease, so GREATEST(0, ...) in
\* _release_lease never hides a release that was lost or done twice.
THEOREM ReservationsAreExact == Spec => []ReservationsExact
<1>1. LeaseInv => ReservationsExact
  BY DEF LeaseInv
<1> QED BY <1>1, LeaseCorrect, PTL

\* No path leaks an origin permit or leases without one.
THEOREM PermitsMatch == Spec => []PermitsMatchLeases
<1>1. LeaseInv => PermitsMatchLeases
  BY DEF LeaseInv
<1> QED BY <1>1, LeaseCorrect, PTL
=============================================================================
