----------------------------- MODULE LedgerProofs -----------------------------
(***************************************************************************)
(* The provider ledger, for every number of tasks, workers and attempts,   *)
(* every budget and price: reserved_value is exactly the price of the      *)
(* calls in progress, no budget is overspent, the attempt caps hold and an *)
(* attempt is settled once.  On it rests what is said of the routes, in    *)
(* the second half of the module.                                          *)
(***************************************************************************)
EXTENDS AcquisitionRouter, FiniteSetTheorems, WellFoundedInduction, TLAPS

\* The part of the typing that the usage rows and attempts have.
UsageTyped ==
    /\ reservedValue \in [Budgeted -> Nat]
    /\ consumedValue \in [Budgeted -> Nat]
    /\ attempts \in Seq(Attempts)

\* What the ledger's transactions preserve.
UsageInv == UsageTyped /\ UsageWithinBudget /\ CallReservationsExact /\ AttemptsCapped

\* What no transaction does to the attempts: a row keeps its task, route and
\* token, and a settled one all of it.
AttemptsKept ==
    /\ DOMAIN attempts \subseteq DOMAIN attempts'
    /\ \A i \in DOMAIN attempts :
          /\ attempts'[i].task = attempts[i].task
          /\ attempts'[i].route = attempts[i].route
          /\ attempts'[i].token = attempts[i].token
          /\ attempts[i].outcome # "open" => attempts'[i] = attempts[i]

\* The price of a set of calls less some of them.
LEMMA Distribute ==
  ASSUME NEW c \in Nat, NEW a \in Nat, NEW b \in Nat
  PROVE  c * (a - b) = c * a - c * b /\ c * (a + b) = c * a + c * b /\ c * a \in Nat /\ c * 1 = c
         /\ (b <= a => c * b <= c * a)
BY SMT

\* A set of attempts is finite.
LEMMA AttemptsFinite ==
  ASSUME attempts \in Seq(Attempts), NEW S \in SUBSET DOMAIN attempts
  PROVE  /\ IsFiniteSet(S) /\ Cardinality(S) \in Nat
         /\ \A T \in SUBSET S : IsFiniteSet(T) /\ Cardinality(T) \in Nat
                                /\ Cardinality(T) <= Cardinality(S)
                                /\ Cardinality(S \ T) = Cardinality(S) - Cardinality(T)
<1>1. DOMAIN attempts = 1 .. Len(attempts) /\ Len(attempts) \in Nat
  OBVIOUS
<1>2. IsFiniteSet(1 .. Len(attempts))
  BY <1>1, FS_Interval
<1>3. IsFiniteSet(S) /\ Cardinality(S) \in Nat
  BY <1>1, <1>2, FS_Subset, FS_CardinalityType
<1>4. ASSUME NEW T \in SUBSET S
      PROVE  IsFiniteSet(T) /\ Cardinality(T) \in Nat /\ Cardinality(T) <= Cardinality(S)
             /\ Cardinality(S \ T) = Cardinality(S) - Cardinality(T)
  <2>1. IsFiniteSet(T) /\ Cardinality(T) \in Nat /\ Cardinality(T) <= Cardinality(S)
    BY <1>3, FS_Subset, FS_CardinalityType
  <2>2. S \cap T = T
    OBVIOUS
  <2>3. Cardinality(S \ T) = Cardinality(S) - Cardinality(S \cap T)
    BY <1>3, FS_Difference
  <2> QED BY <2>1, <2>2, <2>3
<1> QED BY <1>3, <1>4

\* One more attempt.
LEMMA OneMore ==
  ASSUME NEW S, IsFiniteSet(S), NEW x, x \notin S
  PROVE  Cardinality(S \cup {x}) = Cardinality(S) + 1
BY FS_AddElement, Zenon

\* The sets that caps are counted over depend on the task and route of the rows only.
LEMMA SameCounts ==
  ASSUME DOMAIN attempts' = DOMAIN attempts, AttemptsKept, AttemptsCapped
  PROVE  AttemptsCapped'
<1>1. \A t \in Tasks : AttemptsOf(t)' = AttemptsOf(t)
  BY DEF AttemptsKept, AttemptsOf
<1>2. \A t \in Tasks, route \in Routes : AttemptsOn(t, route)' = AttemptsOn(t, route)
  BY <1>1 DEF AttemptsKept, AttemptsOf, AttemptsOn
<1> QED BY <1>1, <1>2 DEF AttemptsCapped, AttemptCap

\* _reconcile_abandoned_acquisition_attempts settles open attempts.
LEMMA SettleStep ==
  ASSUME UsageInv, NEW S, S \subseteq {i \in DOMAIN attempts : attempts[i].outcome = "open"},
         Settle(S)
  PROVE  UsageInv' /\ AttemptsKept /\ DOMAIN attempts' = DOMAIN attempts
<1> USE LedgerAssumption
<1> DEFINE T(p) == {i \in S : ProviderOf[attempts[i].route] = p}
<1>1. DOMAIN attempts = 1 .. Len(attempts) /\ \A i \in DOMAIN attempts : attempts[i] \in Attempts
  BY DEF UsageInv, UsageTyped
<1>2. \A i \in DOMAIN attempts : PriceOf(attempts[i].route) \in Nat
  BY <1>1 DEF PriceOf, ProviderOf, Routes, Providers, Attempts
<1>3. DOMAIN attempts' = DOMAIN attempts
  BY DEF Settle
<1>4. \A i \in DOMAIN attempts : attempts'[i] \in Attempts
  BY <1>1, <1>2 DEF Settle, Attempts, Outcomes
<1>5. attempts' \in Seq(Attempts)
  <2>1. Len(attempts) \in Nat
    BY DEF UsageInv, UsageTyped
  <2>2. attempts' \in [1 .. Len(attempts) -> Attempts]
    BY <1>1, <1>3, <1>4 DEF Settle
  <2> QED BY <2>1, <2>2
<1>6. AttemptsKept
  BY <1>1, <1>3 DEF AttemptsKept, Settle, Attempts
<1>7. ASSUME NEW p \in Budgeted
      PROVE  /\ OpenOn(p)' = OpenOn(p) \ T(p)
             /\ T(p) \subseteq OpenOn(p)
             /\ Cardinality(T(p)) \in Nat /\ Cardinality(OpenOn(p)) \in Nat
             /\ Cardinality(T(p)) <= Cardinality(OpenOn(p))
             /\ Cardinality(OpenOn(p)') = Cardinality(OpenOn(p)) - Cardinality(T(p))
  <2>1. T(p) \subseteq OpenOn(p) /\ OpenOn(p) \subseteq DOMAIN attempts
    BY DEF OpenOn
  <2>2. OpenOn(p)' = OpenOn(p) \ T(p)
    BY <1>1, <1>3 DEF OpenOn, Settle, Attempts
  <2>3. attempts \in Seq(Attempts)
    BY DEF UsageInv, UsageTyped
  <2> HIDE DEF T
  <2> QED BY <2>1, <2>2, <2>3, AttemptsFinite
<1>8. ASSUME NEW p \in Budgeted
      PROVE  /\ Owed(S, p) \in Nat /\ Owed(S, p) <= reservedValue[p]
             /\ reservedValue'[p] = reservedValue[p] - Owed(S, p)
             /\ consumedValue'[p] = consumedValue[p] + Owed(S, p)
             /\ reservedValue'[p] = Cost[p] * Cardinality(OpenOn(p)')
  <2>1. Cost[p] \in Nat
    BY DEF Providers
  <2>2. Owed(S, p) = Cost[p] * Cardinality(T(p))
    BY DEF Owed
  <2>3. reservedValue[p] = Cost[p] * Cardinality(OpenOn(p))
    BY DEF UsageInv, CallReservationsExact
  <2>4. reservedValue'[p] = reservedValue[p] - Owed(S, p)
        /\ consumedValue'[p] = consumedValue[p] + Owed(S, p)
    BY DEF Settle
  <2> HIDE DEF T
  <2>5. Cost[p] * (Cardinality(OpenOn(p)) - Cardinality(T(p)))
           = Cost[p] * Cardinality(OpenOn(p)) - Cost[p] * Cardinality(T(p))
        /\ Cost[p] * Cardinality(T(p)) \in Nat
        /\ Cost[p] * Cardinality(T(p)) <= Cost[p] * Cardinality(OpenOn(p))
    BY <1>7, <2>1, Distribute
  <2> QED BY <1>7, <2>2, <2>3, <2>4, <2>5
<1>9. reservedValue' \in [Budgeted -> Nat] /\ consumedValue' \in [Budgeted -> Nat]
      /\ UsageWithinBudget' /\ CallReservationsExact'
  <2>1. ASSUME NEW p \in Budgeted
        PROVE  /\ reservedValue'[p] \in Nat /\ consumedValue'[p] \in Nat
               /\ reservedValue'[p] + consumedValue'[p] <= Budget[p]
    <3>1. reservedValue[p] \in Nat /\ consumedValue[p] \in Nat /\ Budget[p] \in Nat
          /\ reservedValue[p] + consumedValue[p] <= Budget[p]
      BY DEF UsageInv, UsageTyped, UsageWithinBudget
    <3> QED BY <1>8, <3>1
  <2>2. CallReservationsExact'
    BY <1>8 DEF CallReservationsExact
  <2>3. reservedValue' \in [Budgeted -> Nat] /\ consumedValue' \in [Budgeted -> Nat]
    BY <2>1 DEF Settle
  <2> QED BY <2>1, <2>2, <2>3 DEF UsageWithinBudget
<1>10. AttemptsCapped'
  BY <1>3, <1>6, SameCounts DEF UsageInv
<1> QED BY <1>3, <1>5, <1>6, <1>9, <1>10 DEF UsageInv, UsageTyped

\* reserve_acquisition_attempt adds one open attempt at its price.
LEMMA ReserveStep ==
  ASSUME UsageInv, NEW t \in Tasks, NEW k \in Nat, NEW route \in Routes,
         ReserveAttempt(t, k, route)
  PROVE  /\ UsageInv' /\ AttemptsKept
         /\ DOMAIN attempts' = DOMAIN attempts \cup {Len(attempts) + 1}
         /\ Len(attempts) + 1 \notin DOMAIN attempts
         /\ attempts'[Len(attempts) + 1].task = t /\ attempts'[Len(attempts) + 1].token = k
<1> USE LedgerAssumption
<1> DEFINE n == Len(attempts) + 1
           new == [task |-> t, route |-> route, token |-> k, outcome |-> "open", charged |-> 0]
           pr == ProviderOf[route]
<1>1. /\ attempts \in Seq(Attempts) /\ DOMAIN attempts = 1 .. Len(attempts) /\ Len(attempts) \in Nat
      /\ \A i \in DOMAIN attempts : attempts[i] \in Attempts
  BY DEF UsageInv, UsageTyped
<1>2. new \in Attempts
  BY DEF Attempts, Outcomes
<1>3. attempts' = Append(attempts, new)
  BY DEF ReserveAttempt
<1>4. /\ attempts' \in Seq(Attempts)
      /\ DOMAIN attempts' = DOMAIN attempts \cup {n} /\ n \notin DOMAIN attempts
      /\ attempts'[n] = new /\ \A i \in DOMAIN attempts : attempts'[i] = attempts[i]
  <2> HIDE DEF new
  <2> QED BY <1>1, <1>2, <1>3
<1>5. AttemptsKept
  BY <1>4 DEF AttemptsKept
<1>6. pr \in Providers /\ Cost[pr] \in Nat /\ PriceOf(route) = Cost[pr]
  BY DEF ProviderOf, Routes, Providers, PriceOf
<1>7. ASSUME NEW p \in Budgeted
      PROVE  /\ reservedValue'[p] = Cost[p] * Cardinality(OpenOn(p)')
             /\ reservedValue'[p] \in Nat
             /\ reservedValue'[p] + consumedValue[p] <= Budget[p]
  <2>1. /\ reservedValue[p] = Cost[p] * Cardinality(OpenOn(p)) /\ Cost[p] \in Nat
        /\ reservedValue[p] \in Nat /\ consumedValue[p] \in Nat /\ Budget[p] \in Nat
        /\ reservedValue[p] + consumedValue[p] <= Budget[p] /\ p # "local"
    BY DEF UsageInv, UsageTyped, CallReservationsExact, UsageWithinBudget, Providers
  <2>2. OpenOn(p) \subseteq DOMAIN attempts
    BY DEF OpenOn
  <2>3. IsFiniteSet(OpenOn(p)) /\ Cardinality(OpenOn(p)) \in Nat /\ n \notin OpenOn(p)
    BY <1>1, <1>4, <2>2, AttemptsFinite
  <2>4. reservedValue'[p] = IF p = pr THEN reservedValue[p] + PriceOf(route) ELSE reservedValue[p]
    BY DEF ReserveAttempt, Add
  <2>5. CASE p = pr
    <3>1. OpenOn(p)' = OpenOn(p) \cup {n}
      BY <1>4, <2>5 DEF OpenOn
    <3>2. Cardinality(OpenOn(p)') = Cardinality(OpenOn(p)) + 1
      BY <2>3, <3>1, OneMore, Zenon
    <3>3. Cost[p] * (Cardinality(OpenOn(p)) + 1) = Cost[p] * Cardinality(OpenOn(p)) + Cost[p] * 1
          /\ Cost[p] * 1 = Cost[p]
      BY <2>1, <2>3, Distribute
    <3>4. Cost[p] <= Budget[p] - reservedValue[p] - consumedValue[p]
      BY <2>1, <2>5 DEF ReserveAttempt, Refused, Unaffordable
    <3>5. Cost[p] * Cardinality(OpenOn(p)') = reservedValue[p] + Cost[p]
      BY <2>1, <3>2, <3>3
    <3>6. reservedValue'[p] = reservedValue[p] + Cost[p]
      BY <1>6, <2>4, <2>5
    <3> QED BY <2>1, <3>4, <3>5, <3>6
  <2>6. CASE p # pr
    <3>1. OpenOn(p)' = OpenOn(p)
      BY <1>4, <2>6 DEF OpenOn
    <3> QED BY <2>1, <2>4, <2>6, <3>1
  <2> QED BY <2>5, <2>6
<1>8. /\ reservedValue' \in [Budgeted -> Nat] /\ consumedValue' \in [Budgeted -> Nat]
      /\ UsageWithinBudget' /\ CallReservationsExact'
  <2>1. reservedValue' \in [Budgeted -> Nat]
    BY <1>7 DEF ReserveAttempt, Add
  <2>2. consumedValue' = consumedValue
    BY DEF ReserveAttempt
  <2>3. UsageWithinBudget' /\ CallReservationsExact'
    BY <1>7, <2>2 DEF UsageWithinBudget, CallReservationsExact
  <2> QED BY <2>1, <2>2, <2>3 DEF UsageInv, UsageTyped
<1>9. AttemptsCapped'
  <2>1. AttemptCap(4) \in Nat /\ AttemptCap(2) \in Nat
    BY DEF AttemptCap
  <2>2. ASSUME NEW x \in Tasks
        PROVE  /\ AttemptsOf(x)' = IF x = t THEN AttemptsOf(x) \cup {n} ELSE AttemptsOf(x)
               /\ IsFiniteSet(AttemptsOf(x)) /\ Cardinality(AttemptsOf(x)) \in Nat
               /\ n \notin AttemptsOf(x)
    <3>1. AttemptsOf(x) \subseteq DOMAIN attempts
      BY DEF AttemptsOf
    <3> QED BY <1>1, <1>4, <3>1, AttemptsFinite DEF AttemptsOf
  <2>3. ASSUME NEW x \in Tasks, NEW r \in Routes
        PROVE  /\ AttemptsOn(x, r)' = IF x = t /\ r = route THEN AttemptsOn(x, r) \cup {n}
                                      ELSE AttemptsOn(x, r)
               /\ IsFiniteSet(AttemptsOn(x, r)) /\ Cardinality(AttemptsOn(x, r)) \in Nat
               /\ n \notin AttemptsOn(x, r)
    <3>1. AttemptsOn(x, r) \subseteq DOMAIN attempts
      BY DEF AttemptsOn, AttemptsOf
    <3>2. AttemptsOn(x, r)' = IF x = t /\ r = route THEN AttemptsOn(x, r) \cup {n}
                              ELSE AttemptsOn(x, r)
      BY <1>4 DEF AttemptsOn, AttemptsOf
    <3> QED BY <1>1, <1>4, <3>1, <3>2, AttemptsFinite
  <2>4. /\ ~(Cardinality(AttemptsOf(t)) >= AttemptCap(4))
        /\ ~(Cardinality(AttemptsOn(t, route)) >= AttemptCap(2))
    BY DEF ReserveAttempt, Refused, Capped
  <2>5. ASSUME NEW x \in Tasks PROVE Cardinality(AttemptsOf(x)') <= AttemptCap(4)
    <3>1. Cardinality(AttemptsOf(x)) <= AttemptCap(4)
      BY DEF UsageInv, AttemptsCapped
    <3>2. CASE x = t
      <4>1. Cardinality(AttemptsOf(x)') = Cardinality(AttemptsOf(x)) + 1
        BY <2>2, <3>2, OneMore, Zenon
      <4> QED BY <2>1, <2>2, <2>4, <3>2, <4>1
    <3> QED BY <2>2, <3>1, <3>2
  <2>6. ASSUME NEW x \in Tasks, NEW r \in Routes
        PROVE  Cardinality(AttemptsOn(x, r)') <= AttemptCap(2)
    <3>1. Cardinality(AttemptsOn(x, r)) <= AttemptCap(2)
      BY DEF UsageInv, AttemptsCapped
    <3>2. CASE x = t /\ r = route
      <4>1. Cardinality(AttemptsOn(x, r)') = Cardinality(AttemptsOn(x, r)) + 1
        BY <2>3, <3>2, OneMore, Zenon
      <4> QED BY <2>1, <2>3, <2>4, <3>2, <4>1
    <3> QED BY <2>3, <3>1, <3>2
  <2> QED BY <2>5, <2>6 DEF AttemptsCapped, AttemptCap
<1> QED BY <1>4, <1>5, <1>8, <1>9 DEF UsageInv, UsageTyped

\* finish_acquisition_attempt converts an open reservation into a charge.
LEMMA ConvertStep ==
  ASSUME UsageInv, NEW i \in DOMAIN attempts, attempts[i].outcome = "open",
         NEW outcome \in Outcomes \ {"open"}, NEW charge \in Nat,
         charge <= PriceOf(attempts[i].route), Convert(i, outcome, charge)
  PROVE  UsageInv' /\ AttemptsKept /\ DOMAIN attempts' = DOMAIN attempts
<1> USE LedgerAssumption
<1> DEFINE pr == ProviderOf[attempts[i].route]
           settled == [attempts[i] EXCEPT !.outcome = outcome, !.charged = charge]
<1>1. /\ attempts \in Seq(Attempts) /\ DOMAIN attempts = 1 .. Len(attempts) /\ Len(attempts) \in Nat
      /\ \A j \in DOMAIN attempts : attempts[j] \in Attempts
  BY DEF UsageInv, UsageTyped
<1>2. /\ settled \in Attempts /\ settled.outcome = outcome /\ settled.task = attempts[i].task
      /\ settled.route = attempts[i].route /\ settled.token = attempts[i].token
  BY <1>1 DEF Attempts
<1>3. /\ DOMAIN attempts' = DOMAIN attempts /\ attempts'[i] = settled
      /\ \A j \in DOMAIN attempts : j # i => attempts'[j] = attempts[j]
  BY DEF Convert
<1>4. attempts' \in Seq(Attempts)
  <2> HIDE DEF settled
  <2>1. attempts' \in [1 .. Len(attempts) -> Attempts]
    BY <1>1, <1>2, <1>3 DEF Convert
  <2> QED BY <1>1, <2>1
<1>5. AttemptsKept
  <2> HIDE DEF settled
  <2> QED BY <1>2, <1>3 DEF AttemptsKept
<1>6. PriceOf(attempts[i].route) = Cost[pr] /\ Cost[pr] \in Nat
  BY <1>1 DEF PriceOf, ProviderOf, Routes, Providers, Attempts
<1>7. ASSUME NEW p \in Budgeted
      PROVE  /\ reservedValue'[p] = Cost[p] * Cardinality(OpenOn(p)')
             /\ reservedValue'[p] \in Nat /\ consumedValue'[p] \in Nat
             /\ reservedValue'[p] + consumedValue'[p] <= Budget[p]
  <2>1. /\ reservedValue[p] = Cost[p] * Cardinality(OpenOn(p)) /\ Cost[p] \in Nat
        /\ reservedValue[p] \in Nat /\ consumedValue[p] \in Nat /\ Budget[p] \in Nat
        /\ reservedValue[p] + consumedValue[p] <= Budget[p]
    BY DEF UsageInv, UsageTyped, CallReservationsExact, UsageWithinBudget, Providers
  <2>2. /\ reservedValue'[p] = IF p = pr THEN reservedValue[p] + (-PriceOf(attempts[i].route))
                               ELSE reservedValue[p]
        /\ consumedValue'[p] = IF p = pr THEN consumedValue[p] + charge ELSE consumedValue[p]
    BY DEF Convert, Add
  <2>3. OpenOn(p) \subseteq DOMAIN attempts
    BY DEF OpenOn
  <2>4. CASE p = pr
    <3>1. OpenOn(p)' = OpenOn(p) \ {i} /\ {i} \subseteq OpenOn(p)
      <4> HIDE DEF settled
      <4> QED BY <1>2, <1>3, <2>4 DEF OpenOn
    <3>2. /\ Cardinality(OpenOn(p)') = Cardinality(OpenOn(p)) - Cardinality({i})
          /\ Cardinality({i}) <= Cardinality(OpenOn(p)) /\ Cardinality(OpenOn(p)) \in Nat
      BY <1>1, <2>3, <3>1, AttemptsFinite
    <3>3. Cardinality({i}) = 1
      BY FS_Singleton
    <3>4. /\ Cost[p] * (Cardinality(OpenOn(p)) - 1) = Cost[p] * Cardinality(OpenOn(p)) - Cost[p] * 1
          /\ Cost[p] * 1 = Cost[p] /\ Cost[p] * 1 <= Cost[p] * Cardinality(OpenOn(p))
      BY <2>1, <3>2, <3>3, Distribute
    <3> QED BY <1>6, <2>1, <2>2, <2>4, <3>2, <3>3, <3>4
  <2>5. CASE p # pr
    <3>1. OpenOn(p)' = OpenOn(p)
      <4> HIDE DEF settled
      <4> QED BY <1>2, <1>3, <2>5 DEF OpenOn
    <3> QED BY <2>1, <2>2, <2>5, <3>1
  <2> QED BY <2>4, <2>5
<1>8. /\ reservedValue' \in [Budgeted -> Nat] /\ consumedValue' \in [Budgeted -> Nat]
      /\ UsageWithinBudget' /\ CallReservationsExact'
  <2>1. reservedValue' \in [Budgeted -> Nat] /\ consumedValue' \in [Budgeted -> Nat]
    BY <1>7 DEF Convert, Add
  <2>2. UsageWithinBudget' /\ CallReservationsExact'
    BY <1>7 DEF UsageWithinBudget, CallReservationsExact
  <2> QED BY <2>1, <2>2
<1>9. AttemptsCapped'
  BY <1>3, <1>5, SameCounts DEF UsageInv
<1> QED BY <1>3, <1>4, <1>5, <1>8, <1>9 DEF UsageInv, UsageTyped

-----------------------------------------------------------------------------
\* The part of the typing that the leases have.
LeaseTyped ==
    /\ inactive \in BOOLEAN
    /\ state \in [Tasks -> {"queued", "leased", "ended"}]
    /\ token \in [Tasks -> Nat]
    /\ late \in [Tasks -> BOOLEAN]
    /\ leases \in [Tasks -> Nat]
    /\ lastToken \in Nat

\* What the ledger's part of a step shows when no attempt is added.
LedgerKept == LeaseTyped' /\ UsageInv' /\ AttemptsKept /\ DOMAIN attempts' = DOMAIN attempts

\* A step that leaves the usage rows alone.
LEMMA QuietUsage ==
  ASSUME UsageInv, UNCHANGED usageVars
  PROVE  UsageInv' /\ AttemptsKept /\ DOMAIN attempts' = DOMAIN attempts
<1>1. reservedValue' = reservedValue /\ consumedValue' = consumedValue /\ attempts' = attempts
  BY DEF usageVars
<1>2. \A p : OpenOn(p)' = OpenOn(p)
  BY <1>1 DEF OpenOn
<1>3. AttemptsKept
  BY <1>1 DEF AttemptsKept
<1>4. UsageTyped' /\ UsageWithinBudget' /\ CallReservationsExact'
  BY <1>1, <1>2 DEF UsageInv, UsageTyped, UsageWithinBudget, CallReservationsExact
<1>5. AttemptsCapped'
  BY <1>1, <1>3, SameCounts DEF UsageInv
<1> QED BY <1>1, <1>3, <1>4, <1>5 DEF UsageInv

\* Nothing of the ledger changes.
LEMMA QuietLedger ==
  ASSUME LeaseTyped, UsageInv, UNCHANGED ledgerVars
  PROVE  LedgerKept
BY QuietUsage DEF LedgerKept, ledgerVars, leaseVars, LeaseTyped

\* Clearing a lease keeps the types.
LEMMA ReleaseStep ==
  ASSUME LeaseTyped, NEW t \in Tasks, NEW to \in {"queued", "leased", "ended"}, Release(t, to)
  PROVE  LeaseTyped'
BY DEF LeaseTyped, Release

\* _reject_inactive_lease.
LEMMA RejectStep ==
  ASSUME LeaseTyped, UsageInv, NEW t \in Tasks, Reject(t)
  PROVE  LedgerKept
<1>1. LeaseTyped'
  BY ReleaseStep DEF Reject
<1>2. PICK S \in SUBSET OpenOf(t) : Settle(S)
  BY DEF Reject
<1>3. S \subseteq {i \in DOMAIN attempts : attempts[i].outcome = "open"}
  BY DEF OpenOf
<1> QED BY <1>1, <1>2, <1>3, SettleStep DEF LedgerKept

\* A call by a lease holder that is turned away, with or without a rejection.
LEMMA TurnedAwayStep ==
  ASSUME LeaseTyped, UsageInv, NEW t \in Tasks, NEW k, TurnedAway(t, k)
  PROVE  LedgerKept
BY RejectStep, QuietLedger DEF TurnedAway

\* Claims, renewals, the clock and draining.
LEMMA LeaseOnly ==
  ASSUME LeaseTyped, UsageInv,
         \/ PassDeadline
         \/ \E t \in Tasks : Claim(t) \/ RunLate(t) \/ Drain(t) \/ \E k \in Nat : Renew(t, k)
  PROVE  LedgerKept
<1>1. UNCHANGED usageVars
  BY DEF PassDeadline, Claim, RunLate, Drain, Renew
<1>2. LeaseTyped'
  <2>1. CASE PassDeadline
    BY <2>1 DEF PassDeadline, LeaseTyped
  <2>2. ASSUME NEW t \in Tasks, Claim(t) PROVE LeaseTyped'
    BY <2>2 DEF Claim, LeaseTyped
  <2>3. ASSUME NEW t \in Tasks, RunLate(t) PROVE LeaseTyped'
    BY <2>3 DEF RunLate, LeaseTyped
  <2>4. ASSUME NEW t \in Tasks, Drain(t) PROVE LeaseTyped'
    BY <2>4 DEF Drain, LeaseTyped
  <2>5. ASSUME NEW t \in Tasks, NEW k \in Nat, Renew(t, k) PROVE LeaseTyped'
    BY <2>5 DEF Renew, LeaseTyped
  <2> QED BY <2>1, <2>2, <2>3, <2>4, <2>5
<1> QED BY <1>1, <1>2, QuietUsage DEF LedgerKept

\* Cancellation, of this job or another, and reaping.
LEMMA ReconcileOnly ==
  ASSUME LeaseTyped, UsageInv, RequestCancel \/ ReconcileElsewhere \/ ReapSome
  PROVE  LedgerKept
<1> DEFINE Open == {i \in DOMAIN attempts : attempts[i].outcome = "open"}
<1>1. CASE RequestCancel
  <2>1. LeaseTyped'
    BY <1>1 DEF RequestCancel, LeaseTyped
  <2>2. PICK S \in SUBSET Open : Settle(S)
    BY <1>1 DEF RequestCancel
  <2> QED BY <2>1, <2>2, SettleStep DEF LedgerKept
<1>2. CASE ReconcileElsewhere
  <2>1. LeaseTyped'
    BY <1>2 DEF ReconcileElsewhere, LeaseTyped, leaseVars
  <2>2. PICK S \in SUBSET Abandoned : Settle(S)
    BY <1>2 DEF ReconcileElsewhere
  <2>3. S \subseteq Open
    BY DEF Abandoned
  <2> QED BY <2>1, <2>2, <2>3, SettleStep DEF LedgerKept
<1>3. CASE ReapSome
  <2>1. PICK S \in SUBSET Abandoned, L \in SUBSET LateLeases : Reap(S, L)
    BY <1>3 DEF ReapSome
  <2>2. LeaseTyped'
    BY <2>1 DEF Reap, LeaseTyped, RetryState
  <2>3. S \subseteq Open /\ Settle(S)
    BY <2>1 DEF Abandoned, Reap
  <2> QED BY <2>2, <2>3, SettleStep DEF LedgerKept
<1> QED BY <1>1, <1>2, <1>3

-----------------------------------------------------------------------------
\* RunsHaveAttempts for one run, after a step.
ReadyNext(r) ==
    /\ r.phase \in {"reserve", "call", "navigate", "finish"} => r.todo # <<>>
    /\ r.phase = "finish" => r.kind # "none"
    /\ r.phase \in {"call", "navigate", "finish"} =>
          /\ r.id \in DOMAIN attempts'
          /\ attempts'[r.id].task = r.task /\ attempts'[r.id].token = r.token

\* The part of the typing that the workers have.
RunTyped == run \in [Workers -> Runs \cup {NoRun}]

\* A worker goes on to phase r and the others stay where they are.
LEMMA RunChange ==
  ASSUME RunTyped, RunsHaveAttempts, AttemptsKept, NEW w \in Workers,
         NEW r \in Runs \cup {NoRun}, Become(w, r), ReadyNext(r)
  PROVE  RunTyped' /\ RunsHaveAttempts'
<1>1. RunTyped'
  BY DEF RunTyped, Become
<1>2. \A x \in Workers : run'[x] = IF x = w THEN r ELSE run[x]
  BY DEF RunTyped, Become
<1>3. \A x \in Workers : ReadyNext(run'[x])
  BY <1>2 DEF RunsHaveAttempts, AttemptsKept, ReadyNext
<1> QED BY <1>1, <1>3 DEF RunsHaveAttempts, ReadyNext

\* No worker's run changes.
LEMMA RunsStay ==
  ASSUME RunTyped, RunsHaveAttempts, AttemptsKept, run' = run
  PROVE  RunTyped' /\ RunsHaveAttempts'
BY DEF RunTyped, RunsHaveAttempts, AttemptsKept

\* A worker that is in a phase has a run with its fields.
LEMMA RunOf ==
  ASSUME RunTyped, NEW w \in Workers, run[w].phase # "none"
  PROVE  run[w] \in Runs
BY DEF RunTyped, NoRun

\* The run of a worker is over.
LEMMA NoRunIsReady == ReadyNext(NoRun) /\ NoRun \in Runs \cup {NoRun}
BY DEF ReadyNext, NoRun

\* A run that has its verdict reports it.
LEMMA VerdictIsReady ==
  ASSUME NEW r \in Runs, NEW v \in {"done", "retry", "fail", "human"}
  PROVE  Verdict(r, v) \in Runs /\ ReadyNext(Verdict(r, v))
<1>1. <<>> \in Seq(Routes) /\ 0 \in Nat
  OBVIOUS
<1>2. Verdict(r, v) \in Runs
  BY <1>1 DEF Verdict, Runs
<1>3. Verdict(r, v).phase = "report"
  BY DEF Verdict, Runs
<1> QED BY <1>2, <1>3 DEF ReadyNext

\* A run without a provider reports that.
LEMMA UnavailableIsReady ==
  ASSUME NEW r \in Runs
  PROVE  Unavailable(r) \in Runs /\ ReadyNext(Unavailable(r))
BY VerdictIsReady DEF Unavailable

\* The next route of the loop.
LEMMA NextRouteIsReady ==
  ASSUME NEW r \in Runs, r.todo # <<>>, NEW f \in {"blocked", "retryable", "budget"}
  PROVE  NextRoute(r, f) \in Runs /\ ReadyNext(NextRoute(r, f))
<1>1. r.todo \in Seq(Routes) /\ Tail(r.todo) \in Seq(Routes)
  BY DEF Runs
<1>2. NextRoute(r, f) \in Runs
  BY <1>1 DEF NextRoute, Runs
<1>3. NextRoute(r, f).phase = "route"
  BY DEF NextRoute, Runs
<1> QED BY <1>2, <1>3 DEF ReadyNext

\* _routes returns routes.
LEMMA RoutesForTyped ==
  ASSUME NEW c \in Capabilities
  PROVE  RoutesFor(c) \in Seq(Routes)
<1> USE RouterAssumption
<1>1. \A route \in Routes : Keep(route) \in Seq(Routes)
  BY DEF Keep
<1>2. \A route1, route2 \in Routes : Keep(route1) \o Keep(route2) \in Seq(Routes)
  BY <1>1
<1>3. {"local_http", "owned_proxy_http", "local_browser", "brightdata_unlocker",
       "firecrawl_scrape", "browserbase_session"} \subseteq Routes
  BY DEF Routes, ProviderOf
<1>4. Provider # "auto" => ExplicitRoute(c) \in Routes
  BY <1>3 DEF ExplicitRoute, Providers
<1>5. AutoRoutes[c][1] \in Routes /\ (Len(AutoRoutes[c]) # 1 => AutoRoutes[c][2] \in Routes)
  BY <1>3 DEF AutoRoutes, Capabilities
<1> HIDE DEF Routes
<1> QED BY <1>1, <1>2, <1>4, <1>5 DEF RoutesFor

-----------------------------------------------------------------------------
\* LedgerInv in the parts the lemmas use.
LEMMA InvParts ==
  LedgerInv <=> /\ LeaseTyped /\ UsageInv /\ RunTyped /\ RunsHaveAttempts
                /\ health \in [Providers -> {"configured", "disabled", "unhealthy"}]
                /\ browserPages \in Nat /\ billed \in [DOMAIN attempts -> Nat]
BY DEF LedgerInv, LedgerTypeOK, LeaseTyped, UsageInv, UsageTyped, RunTyped

\* What is left to show of a step once its effect on the ledger is known.
Side ==
    /\ RunTyped' /\ RunsHaveAttempts'
    /\ health' \in [Providers -> {"configured", "disabled", "unhealthy"}]
    /\ browserPages' \in Nat /\ billed' \in [DOMAIN attempts' -> Nat]

\* The steps of acquire that touch neither ledger nor registry.
LEMMA LocalSteps ==
  ASSUME LedgerInv, NEW w \in Workers,
         RefuseTarget(w) \/ BeginAcquire(w) \/ SelectRoute(w) \/ GiveUp(w) \/ CancelRun(w)
  PROVE  LedgerKept /\ Side
<1>1. /\ LeaseTyped /\ UsageInv /\ RunTyped /\ RunsHaveAttempts
      /\ health \in [Providers -> {"configured", "disabled", "unhealthy"}]
      /\ browserPages \in Nat /\ billed \in [DOMAIN attempts -> Nat]
  BY InvParts
<1>2. UNCHANGED <<ledgerVars, health, browserPages, billed>>
  BY DEF RefuseTarget, BeginAcquire, SelectRoute, GiveUp, CancelRun
<1>3. LedgerKept
  BY <1>1, <1>2, QuietLedger
<1>4. \E r \in Runs \cup {NoRun} : Become(w, r) /\ ReadyNext(r)
  <2>1. CASE RefuseTarget(w)
    BY <1>1, <2>1, RunOf, VerdictIsReady DEF RefuseTarget, In
  <2>2. CASE BeginAcquire(w)
    <3>1. run[w] \in Runs
      BY <1>1, <2>2, RunOf DEF BeginAcquire, In
    <3>2. RoutesFor(run[w].capability) \in Seq(Routes)
      BY <3>1, RoutesForTyped DEF Runs
    <3> DEFINE q == RoutesFor(run[w].capability)
               r == [run[w] EXCEPT !.phase = "route", !.todo = q, !.last = "none"]
    <3>3. r \in Runs /\ ReadyNext(r)
      <4> HIDE DEF q
      <4> QED BY <3>1, <3>2 DEF Runs, ReadyNext, q
    <3>4. Become(w, Unavailable(run[w])) \/ Become(w, r)
      BY <2>2 DEF BeginAcquire
    <3> QED BY <3>1, <3>3, <3>4, UnavailableIsReady
  <2>3. CASE SelectRoute(w)
    <3>1. run[w] \in Runs /\ run[w].todo # <<>>
      BY <1>1, <2>3, RunOf DEF SelectRoute, In
    <3>2. Tail(run[w].todo) \in Seq(Routes)
      BY <3>1 DEF Runs
    <3>3. [run[w] EXCEPT !.todo = Tail(@)] \in Runs /\ ReadyNext([run[w] EXCEPT !.todo = Tail(@)])
      BY <2>3, <3>1, <3>2 DEF Runs, ReadyNext, SelectRoute, In
    <3>4. [run[w] EXCEPT !.phase = "reserve"] \in Runs
          /\ ReadyNext([run[w] EXCEPT !.phase = "reserve"])
      BY <3>1 DEF Runs, ReadyNext
    <3> QED BY <2>3, <3>3, <3>4 DEF SelectRoute, Goto
  <2>4. CASE GiveUp(w)
    <3>1. run[w] \in Runs
      BY <1>1, <2>4, RunOf DEF GiveUp, In
    <3>2. \/ Become(w, Unavailable(run[w])) \/ Become(w, Verdict(run[w], "fail"))
          \/ Become(w, Verdict(run[w], "human")) \/ Become(w, Verdict(run[w], "retry"))
      BY <2>4 DEF GiveUp
    <3> QED BY <3>1, <3>2, UnavailableIsReady, VerdictIsReady
  <2>5. CASE CancelRun(w)
    BY <2>5, NoRunIsReady DEF CancelRun
  <2> QED BY <2>1, <2>2, <2>3, <2>4, <2>5
<1>5. RunTyped' /\ RunsHaveAttempts'
  BY <1>1, <1>3, <1>4, RunChange DEF LedgerKept
<1> QED BY <1>1, <1>2, <1>3, <1>5 DEF Side, LedgerKept

\* claim_task by an idle worker.
LEMMA ClaimStep ==
  ASSUME LedgerInv, NEW w \in Workers, NEW t \in Tasks, ClaimTask(w, t)
  PROVE  LedgerKept /\ Side
<1>1. /\ LeaseTyped /\ UsageInv /\ RunTyped /\ RunsHaveAttempts
      /\ health \in [Providers -> {"configured", "disabled", "unhealthy"}]
      /\ browserPages \in Nat /\ billed \in [DOMAIN attempts -> Nat]
  BY InvParts
<1>2. LedgerKept
  BY <1>1, LeaseOnly DEF ClaimTask
<1> DEFINE r == [phase |-> "claimed", task |-> t, token |-> lastToken + 1,
                 capability |-> FirstCapability, todo |-> <<>>, id |-> 0, kind |-> "none",
                 charge |-> 0, last |-> "none", verdict |-> "none", navigations |-> 0]
<1>3. FirstCapability \in Capabilities /\ lastToken + 1 \in Nat
  BY <1>1 DEF FirstCapability, Capabilities, LeaseTyped
<1>4. r \in Runs /\ ReadyNext(r)
  BY <1>3 DEF Runs, ReadyNext
<1>5. RunTyped' /\ RunsHaveAttempts'
  <2>1. Become(w, r)
    BY DEF ClaimTask
  <2> HIDE DEF r
  <2> QED BY <1>1, <1>2, <1>4, <2>1, RunChange DEF LedgerKept
<1> QED BY <1>1, <1>2, <1>5 DEF Side, LedgerKept, ClaimTask

\* The browser budget: before the reservation of the call and again in it.
LEMMA BrowserSteps ==
  ASSUME LedgerInv, NEW w \in Workers, SelectBrowser(w) \/ StartNavigation(w)
  PROVE  LedgerKept /\ Side
<1>1. /\ LeaseTyped /\ UsageInv /\ RunTyped /\ RunsHaveAttempts
      /\ health \in [Providers -> {"configured", "disabled", "unhealthy"}]
      /\ browserPages \in Nat /\ billed \in [DOMAIN attempts -> Nat]
  BY InvParts
<1>2. run[w] \in Runs /\ run[w].todo # <<>>
  BY <1>1, RunOf DEF SelectBrowser, StartNavigation, In, RunsHaveAttempts
<1>3. run[w].task \in Tasks /\ run[w].navigations \in Nat
  BY <1>2 DEF Runs
<1>4. NavigationGranted(run[w]) \/ NavigationRefused(run[w])
  BY DEF SelectBrowser, StartNavigation
<1>5. LedgerKept /\ browserPages' \in Nat
  <2>1. CASE NavigationGranted(run[w])
    BY <1>1, <2>1, QuietLedger DEF NavigationGranted
  <2>2. CASE NavigationRefused(run[w])
    BY <1>1, <1>3, <2>2, QuietLedger, TurnedAwayStep DEF NavigationRefused
  <2> QED BY <1>4, <2>1, <2>2
<1>6. \E r \in Runs \cup {NoRun} : Become(w, r) /\ ReadyNext(r)
  <2>1. CASE SelectBrowser(w)
    <3> DEFINE r == [run[w] EXCEPT !.phase = "reserve", !.navigations = 1]
    <3>1. r \in Runs /\ ReadyNext(r)
      BY <1>2 DEF Runs, ReadyNext
    <3>2. Become(w, r) \/ Become(w, NextRoute(run[w], "budget"))
      BY <2>1 DEF SelectBrowser
    <3> QED BY <1>2, <3>1, <3>2, NextRouteIsReady
  <2>2. CASE StartNavigation(w)
    <3> DEFINE r == [run[w] EXCEPT !.phase = "navigate", !.navigations = @ + 1]
               q == [run[w] EXCEPT !.phase = "finish", !.kind = "budget", !.charge = 0]
    <3>1. /\ run[w].id \in DOMAIN attempts' /\ attempts'[run[w].id].task = run[w].task
          /\ attempts'[run[w].id].token = run[w].token
      <4>1. run[w].phase = "call"
        BY <2>2 DEF StartNavigation, In
      <4>2. /\ run[w].id \in DOMAIN attempts /\ attempts[run[w].id].task = run[w].task
            /\ attempts[run[w].id].token = run[w].token
        BY <1>1, <4>1 DEF RunsHaveAttempts
      <4> QED BY <1>5, <4>2 DEF LedgerKept, AttemptsKept
    <3>2. r \in Runs /\ ReadyNext(r)
      <4> DEFINE k == run[w].navigations + 1
      <4>1. k \in Nat
        BY <1>3
      <4>2. r = [run[w] EXCEPT !.phase = "navigate", !.navigations = k]
        OBVIOUS
      <4> HIDE DEF k, r
      <4>3. r \in Runs
        BY <1>2, <4>1, <4>2 DEF Runs
      <4>4. /\ r.phase = "navigate" /\ r.todo = run[w].todo /\ r.id = run[w].id
            /\ r.task = run[w].task /\ r.token = run[w].token
        BY <1>2, <4>2 DEF Runs
      <4> QED BY <1>2, <3>1, <4>3, <4>4 DEF ReadyNext
    <3>3. q \in Runs /\ ReadyNext(q)
      BY <1>2, <3>1 DEF Runs, ReadyNext
    <3>4. Become(w, r) \/ Become(w, q)
      BY <2>2 DEF StartNavigation
    <3> QED BY <3>2, <3>3, <3>4
  <2> QED BY <2>1, <2>2
<1>7. RunTyped' /\ RunsHaveAttempts'
  BY <1>1, <1>5, <1>6, RunChange DEF LedgerKept
<1>8. UNCHANGED <<health, billed>>
  BY DEF SelectBrowser, StartNavigation
<1> QED BY <1>1, <1>5, <1>7, <1>8 DEF Side, LedgerKept

\* The reservation of a call.
LEMMA ReserveCallStep ==
  ASSUME LedgerInv, NEW w \in Workers, ReserveCall(w)
  PROVE  LeaseTyped' /\ UsageInv' /\ AttemptsKept /\ Side
<1>1. /\ LeaseTyped /\ UsageInv /\ RunTyped /\ RunsHaveAttempts
      /\ health \in [Providers -> {"configured", "disabled", "unhealthy"}]
      /\ browserPages \in Nat /\ billed \in [DOMAIN attempts -> Nat]
  BY InvParts
<1>2. run[w] \in Runs /\ run[w].todo # <<>>
  BY <1>1, RunOf DEF ReserveCall, In, RunsHaveAttempts
<1>3. run[w].task \in Tasks /\ run[w].token \in Nat /\ Head(run[w].todo) \in Routes
  BY <1>2 DEF Runs
<1> DEFINE n == Len(attempts) + 1
           r == [run[w] EXCEPT !.phase = "call", !.id = n]
<1>4. CASE /\ ReserveAttempt(run[w].task, run[w].token, Head(run[w].todo))
           /\ Become(w, r) /\ billed' = Append(billed, 0) /\ UNCHANGED <<health, browserPages>>
  <2>1. /\ UsageInv' /\ AttemptsKept
        /\ DOMAIN attempts' = DOMAIN attempts \cup {n} /\ n \notin DOMAIN attempts
        /\ attempts'[n].task = run[w].task /\ attempts'[n].token = run[w].token
    BY <1>1, <1>3, <1>4, ReserveStep
  <2>2. LeaseTyped'
    BY <1>1, <1>4 DEF ReserveAttempt, leaseVars, LeaseTyped
  <2>3. n \in Nat /\ Len(attempts) \in Nat /\ DOMAIN attempts = 1 .. Len(attempts)
    BY <1>1 DEF UsageInv, UsageTyped
  <2>4. billed' \in [DOMAIN attempts' -> Nat]
    <3>1. billed \in Seq(Nat) /\ Len(billed) = Len(attempts)
      BY <1>1, <2>3
    <3>2. /\ DOMAIN billed' = 1 .. n
          /\ \A i \in 1 .. n : billed'[i] = IF i = n THEN 0 ELSE billed[i]
      BY <1>4, <2>3, <3>1
    <3>3. \A i \in 1 .. n : billed'[i] \in Nat
      BY <2>3, <3>1, <3>2
    <3>4. DOMAIN attempts' = 1 .. n
      BY <2>1, <2>3
    <3>5. billed' \in Seq(Nat)
      BY <1>4, <3>1
    <3> QED BY <3>2, <3>3, <3>4, <3>5
  <2>5. r \in Runs /\ ReadyNext(r)
    <3> HIDE DEF n
    <3> QED BY <1>2, <2>1, <2>3 DEF Runs, ReadyNext
  <2>6. RunTyped' /\ RunsHaveAttempts'
    <3> HIDE DEF r
    <3> QED BY <1>1, <1>4, <2>1, <2>5, RunChange
  <2> QED BY <1>1, <1>4, <2>1, <2>2, <2>4, <2>6 DEF Side
<1>5. CASE /\ UNCHANGED ledgerVars \/ TurnedAway(run[w].task, run[w].token)
           /\ Become(w, Unavailable(run[w])) /\ UNCHANGED <<billed, health, browserPages>>
  <2>1. LedgerKept
    BY <1>1, <1>3, <1>5, QuietLedger, TurnedAwayStep
  <2>2. RunTyped' /\ RunsHaveAttempts'
    BY <1>1, <1>2, <1>5, <2>1, UnavailableIsReady, RunChange DEF LedgerKept
  <2> QED BY <1>1, <1>5, <2>1, <2>2 DEF Side, LedgerKept
<1> QED BY <1>4, <1>5 DEF ReserveCall

\* The answer of a provider.
LEMMA AnswerStep ==
  ASSUME LedgerInv, NEW w \in Workers, NEW kind \in Kinds, NEW bill, Answer(w, kind, bill)
  PROVE  LedgerKept /\ Side
<1> USE LedgerAssumption, RouterAssumption
<1>1. /\ LeaseTyped /\ UsageInv /\ RunTyped /\ RunsHaveAttempts
      /\ health \in [Providers -> {"configured", "disabled", "unhealthy"}]
      /\ browserPages \in Nat /\ billed \in [DOMAIN attempts -> Nat]
  BY InvParts
<1> DEFINE route == Head(run[w].todo)
           c == IF kind \in Unpriced THEN PriceOf(route) ELSE bill
           r == [run[w] EXCEPT !.phase = "finish", !.kind = kind, !.charge = c]
<1>2. run[w].phase \in {"call", "navigate"}
  BY DEF Answer, In
<1>3. /\ run[w] \in Runs /\ run[w].todo # <<>> /\ run[w].id \in DOMAIN attempts
      /\ attempts[run[w].id].task = run[w].task /\ attempts[run[w].id].token = run[w].token
  BY <1>1, <1>2, RunOf DEF RunsHaveAttempts
<1>4. route \in Routes /\ ProviderOf[route] \in Providers
  BY <1>3 DEF Runs, Routes, ProviderOf, Providers
<1>5. PriceOf(route) \in Nat /\ bill \in Nat
  <2>1. bill \in Bills[ProviderOf[route]]
    BY DEF Answer
  <2> HIDE DEF route
  <2> QED BY <1>4, <2>1 DEF PriceOf
<1>6. LedgerKept /\ attempts' = attempts
  BY <1>1, QuietLedger DEF Answer, ledgerVars, usageVars
<1>7. c \in Nat
  BY <1>5
<1>8. r \in Runs /\ ReadyNext(r)
  <2>1. kind # "none"
    BY DEF Kinds
  <2> HIDE DEF c
  <2> QED BY <1>3, <1>6, <1>7, <2>1 DEF Runs, ReadyNext
<1>9. RunTyped' /\ RunsHaveAttempts'
  <2>1. Become(w, r)
    BY DEF Answer
  <2> HIDE DEF r
  <2> QED BY <1>1, <1>6, <1>8, <2>1, RunChange DEF LedgerKept
<1>10. health' \in [Providers -> {"configured", "disabled", "unhealthy"}]
  <2>1. health' = [health EXCEPT ![ProviderOf[route]] = "unhealthy"] \/ health' = health
    BY DEF Answer
  <2> HIDE DEF route
  <2> QED BY <1>1, <2>1
<1>11. billed' \in [DOMAIN attempts' -> Nat] /\ browserPages' \in Nat
  BY <1>1, <1>5, <1>6 DEF Answer
<1> QED BY <1>6, <1>9, <1>10, <1>11 DEF Side

\* The end of a call.
LEMMA FinishSteps ==
  ASSUME LedgerInv, NEW w \in Workers, FinishCall(w) \/ FailFinish(w)
  PROVE  LedgerKept /\ Side
<1>1. /\ LeaseTyped /\ UsageInv /\ RunTyped /\ RunsHaveAttempts
      /\ health \in [Providers -> {"configured", "disabled", "unhealthy"}]
      /\ browserPages \in Nat /\ billed \in [DOMAIN attempts -> Nat]
  BY InvParts
<1>2. run[w].phase = "finish"
  BY DEF FinishCall, FailFinish, In
<1>3. run[w] \in Runs /\ run[w].todo # <<>> /\ run[w].id \in DOMAIN attempts
  BY <1>1, <1>2, RunOf DEF RunsHaveAttempts
<1>4. run[w].task \in Tasks /\ run[w].charge \in Nat /\ Head(run[w].todo) \in Routes
  BY <1>3 DEF Runs
<1>5. CASE FinishCall(w)
  <2>1. LedgerKept
    <3>1. CASE Finish(run[w].id, run[w].token, OutcomeOf(run[w].kind), run[w].charge)
      <4>1. OutcomeOf(run[w].kind) \in Outcomes \ {"open"}
        BY DEF OutcomeOf, Outcomes
      <4>2. /\ attempts[run[w].id].outcome = "open"
            /\ run[w].charge <= PriceOf(attempts[run[w].id].route)
            /\ Convert(run[w].id, OutcomeOf(run[w].kind), run[w].charge)
            /\ UNCHANGED leaseVars
        BY <3>1 DEF Finish, Unfinished
      <4>3. LeaseTyped'
        BY <1>1, <4>2 DEF LeaseTyped, leaseVars
      <4> QED BY <1>1, <1>3, <1>4, <4>1, <4>2, <4>3, ConvertStep DEF LedgerKept
    <3>2. CASE FinishSettled(run[w].id, run[w].token)
      BY <1>1, <3>2, QuietLedger DEF FinishSettled
    <3>3. CASE TurnedAway(run[w].task, run[w].token)
      BY <1>1, <1>4, <3>3, TurnedAwayStep
    <3> QED BY <1>5, <3>1, <3>2, <3>3 DEF FinishCall
  <2>2. AfterFinish(run[w]) \in Runs \cup {NoRun} /\ ReadyNext(AfterFinish(run[w]))
    <3> DEFINE r == [run[w] EXCEPT !.phase = "claimed", !.capability = "static_block",
                                   !.todo = <<>>, !.kind = "none", !.charge = 0]
    <3>1. r \in Runs /\ ReadyNext(r)
      <4>1. <<>> \in Seq(Routes)
        OBVIOUS
      <4>2. r \in Runs
        BY <1>3, <4>1 DEF Runs, Capabilities
      <4>3. r.phase = "claimed"
        BY <1>3 DEF Runs
      <4> QED BY <4>2, <4>3 DEF ReadyNext
    <3>2. run[w].kind \in Kinds \cup {"none", "budget"}
      BY <1>3 DEF Runs
    <3>3. run[w].kind # "none"
      BY <1>1, <1>2 DEF RunsHaveAttempts
    <3>4. \/ AfterFinish(run[w]) = Verdict(run[w], "done")
          \/ AfterFinish(run[w]) = Verdict(run[w], "fail")
          \/ AfterFinish(run[w]) = Verdict(run[w], "retry")
          \/ AfterFinish(run[w]) = NoRun
          \/ AfterFinish(run[w]) = r
          \/ /\ AfterFinish(run[w]) = NextRoute(run[w], run[w].kind)
             /\ run[w].kind \in {"blocked", "retryable"}
      BY <3>2, <3>3 DEF AfterFinish, Kinds
    <3> QED BY <1>3, <3>1, <3>4, VerdictIsReady, NextRouteIsReady, NoRunIsReady
  <2>3. RunTyped' /\ RunsHaveAttempts'
    BY <1>1, <1>5, <2>1, <2>2, RunChange DEF LedgerKept, FinishCall
  <2> QED BY <1>1, <1>5, <2>1, <2>3 DEF Side, LedgerKept, FinishCall
<1>6. CASE FailFinish(w)
  <2>1. LedgerKept
    BY <1>1, <1>6, QuietLedger DEF FailFinish, FinishOverspent
  <2>2. RunTyped' /\ RunsHaveAttempts'
    BY <1>1, <1>3, <1>6, <2>1, VerdictIsReady, RunChange DEF LedgerKept, FailFinish
  <2>3. ProviderOf[Head(run[w].todo)] \in Providers
    BY <1>4 DEF Routes, ProviderOf, Providers
  <2> QED BY <1>1, <1>6, <2>1, <2>2, <2>3 DEF Side, LedgerKept, FailFinish
<1> QED BY <1>5, <1>6

\* complete_task, retry_task and fail_task release the lease.
LEMMA ReportStep ==
  ASSUME LedgerInv, NEW w \in Workers, Report(w)
  PROVE  LedgerKept /\ Side
<1>1. /\ LeaseTyped /\ UsageInv /\ RunTyped /\ RunsHaveAttempts
      /\ health \in [Providers -> {"configured", "disabled", "unhealthy"}]
      /\ browserPages \in Nat /\ billed \in [DOMAIN attempts -> Nat]
  BY InvParts
<1>2. run[w] \in Runs
  BY <1>1, RunOf DEF Report, In
<1>3. run[w].task \in Tasks
  BY <1>2 DEF Runs
<1> DEFINE to == IF run[w].verdict = "retry" THEN RetryState(run[w].task) ELSE "ended"
<1>4. to \in {"queued", "leased", "ended"}
  BY DEF RetryState
<1>5. LedgerKept
  <2>1. CASE Release(run[w].task, to) /\ UNCHANGED usageVars
    <3> HIDE DEF to
    <3> QED BY <1>1, <1>3, <1>4, <2>1, ReleaseStep, QuietUsage DEF LedgerKept
  <2>2. CASE TurnedAway(run[w].task, run[w].token)
    BY <1>1, <1>3, <2>2, TurnedAwayStep
  <2> QED BY <2>1, <2>2 DEF Report
<1>6. RunTyped' /\ RunsHaveAttempts'
  BY <1>1, <1>5, NoRunIsReady, RunChange DEF LedgerKept, Report
<1> QED BY <1>1, <1>5, <1>6 DEF Side, LedgerKept, Report

\* heartbeat renews the lease, or ends the task of an inactive job.
LEMMA HeartbeatStep ==
  ASSUME LedgerInv, NEW w \in Workers, Heartbeat(w)
  PROVE  LedgerKept /\ Side
<1>1. /\ LeaseTyped /\ UsageInv /\ RunTyped /\ RunsHaveAttempts
      /\ health \in [Providers -> {"configured", "disabled", "unhealthy"}]
      /\ browserPages \in Nat /\ billed \in [DOMAIN attempts -> Nat]
  BY InvParts
<1>2. run[w] \in Runs
  BY <1>1 DEF Heartbeat, RunTyped
<1>3. run[w].task \in Tasks /\ run[w].token \in Nat
  BY <1>2 DEF Runs
<1>4. LedgerKept
  <2>1. CASE Renew(run[w].task, run[w].token)
    BY <1>1, <1>3, <2>1, LeaseOnly
  <2>2. CASE Reject(run[w].task)
    BY <1>1, <1>3, <2>2, RejectStep
  <2> QED BY <2>1, <2>2 DEF Heartbeat
<1>5. RunTyped' /\ RunsHaveAttempts'
  BY <1>1, <1>4, RunsStay DEF LedgerKept, Heartbeat
<1> QED BY <1>1, <1>4, <1>5 DEF Side, LedgerKept, Heartbeat

\* A restart loses every run and the health of the providers.
LEMMA RestartStep ==
  ASSUME LedgerInv, Restart
  PROVE  LedgerKept /\ Side
<1>1. /\ LeaseTyped /\ UsageInv /\ browserPages \in Nat /\ billed \in [DOMAIN attempts -> Nat]
  BY InvParts
<1>2. LedgerKept
  BY <1>1, QuietLedger DEF Restart
<1>3. run' = [w \in Workers |-> NoRun]
  BY DEF Restart
<1>4. RunTyped' /\ RunsHaveAttempts'
  BY <1>3 DEF RunTyped, RunsHaveAttempts, NoRun
<1>5. health' \in [Providers -> {"configured", "disabled", "unhealthy"}]
  BY DEF Restart, FirstHealth
<1> QED BY <1>1, <1>2, <1>4, <1>5 DEF Side, LedgerKept, Restart

\* The clock, draining, cancellation and the maintenance loop.
LEMMA ElsewhereSteps ==
  ASSUME LedgerInv, LeaseStep \/ ReconcileStep
  PROVE  LedgerKept /\ Side
<1>1. /\ LeaseTyped /\ UsageInv /\ RunTyped /\ RunsHaveAttempts
      /\ health \in [Providers -> {"configured", "disabled", "unhealthy"}]
      /\ browserPages \in Nat /\ billed \in [DOMAIN attempts -> Nat]
  BY InvParts
<1>2. LedgerKept
  BY <1>1, LeaseOnly, ReconcileOnly DEF LeaseStep, ReconcileStep
<1>3. run' = run /\ health' = health /\ browserPages' = browserPages /\ billed' = billed
  BY DEF LeaseStep, ReconcileStep
<1>4. RunTyped' /\ RunsHaveAttempts'
  BY <1>1, <1>2, <1>3, RunsStay DEF LedgerKept
<1> QED BY <1>1, <1>2, <1>3, <1>4 DEF Side, LedgerKept

-----------------------------------------------------------------------------
\* The invariant holds in the initial state: no row has been written.
LEMMA LedgerInvInit == Init => LedgerInv
<1> SUFFICES ASSUME Init PROVE LedgerInv
  OBVIOUS
<1> USE LedgerAssumption DEF Init, LedgerInit
<1>1. DOMAIN attempts = {} /\ attempts \in Seq(Attempts)
  OBVIOUS
<1>2. LedgerTypeOK
  <2>1. RunTyped
    BY DEF RunTyped
  <2>2. health \in [Providers -> {"configured", "disabled", "unhealthy"}]
    BY DEF FirstHealth
  <2>3. billed \in [DOMAIN attempts -> Nat]
    OBVIOUS
  <2> QED BY <1>1, <2>1, <2>2, <2>3 DEF LedgerTypeOK, RunTyped
<1>3. RunsHaveAttempts
  BY DEF RunsHaveAttempts, NoRun
<1>4. UsageWithinBudget
  BY DEF UsageWithinBudget
<1>5. Cardinality({}) = 0
  BY FS_EmptySet
<1>6. CallReservationsExact
  <2>1. \A p \in Budgeted : OpenOn(p) = {} /\ Cost[p] \in Nat /\ reservedValue[p] = 0
    BY <1>1 DEF OpenOn
  <2>2. \A c \in Nat : c * 0 = 0
    BY SMT
  <2>3. ASSUME NEW p \in Budgeted PROVE Cost[p] * Cardinality(OpenOn(p)) = 0
    <3>1. Cardinality(OpenOn(p)) = 0 /\ Cost[p] \in Nat
      BY <1>5, <2>1, Zenon
    <3>2. Cost[p] * 0 = 0
      BY <2>2, <3>1, Zenon
    <3> QED BY <3>1, <3>2, Zenon
  <2> QED BY <2>1, <2>3, Zenon DEF CallReservationsExact
<1>7. AttemptsCapped
  <2>1. \A t \in Tasks : AttemptsOf(t) = {} /\ \A route \in Routes : AttemptsOn(t, route) = {}
    BY <1>1 DEF AttemptsOf, AttemptsOn
  <2>2. 0 <= AttemptCap(4) /\ 0 <= AttemptCap(2)
    BY DEF AttemptCap
  <2> QED BY <1>5, <2>1, <2>2 DEF AttemptsCapped
<1> QED BY <1>2, <1>3, <1>4, <1>6, <1>7 DEF LedgerInv

\* Every step of a worker, the queue or the maintenance loop keeps the invariant
\* and leaves the settled attempts alone.
LEMMA LedgerInvStep ==
  ASSUME LedgerInv, [Next]_vars
  PROVE  LedgerInv' /\ AttemptsKept
<1>1. SUFFICES LeaseTyped' /\ UsageInv' /\ AttemptsKept /\ Side
  BY DEF Side, LedgerInv, LedgerTypeOK, LeaseTyped, UsageInv, UsageTyped, RunTyped
<1>2. CASE UNCHANGED vars
  <2>1. LedgerKept
    BY <1>2, InvParts, QuietLedger DEF vars
  <2>2. RunTyped' /\ RunsHaveAttempts'
    BY <1>2, <2>1, InvParts, RunsStay DEF LedgerKept, vars
  <2> QED BY <1>2, <2>1, <2>2, InvParts DEF LedgerKept, Side, vars
<1>3. ASSUME NEW w \in Workers, RunStep(w) PROVE LeaseTyped' /\ UsageInv' /\ AttemptsKept /\ Side
  <2>1. ASSUME NEW t \in Tasks, ClaimTask(w, t) PROVE LedgerKept /\ Side
    BY <2>1, ClaimStep
  <2>2. CASE RefuseTarget(w) \/ BeginAcquire(w) \/ SelectRoute(w) \/ GiveUp(w) \/ CancelRun(w)
    BY <2>2, LocalSteps DEF LedgerKept
  <2>3. CASE SelectBrowser(w) \/ StartNavigation(w)
    BY <2>3, BrowserSteps DEF LedgerKept
  <2>4. CASE ReserveCall(w)
    BY <2>4, ReserveCallStep
  <2>5. CASE FinishCall(w) \/ FailFinish(w)
    BY <2>5, FinishSteps DEF LedgerKept
  <2>6. ASSUME NEW kind \in Kinds, NEW bill, Answer(w, kind, bill) PROVE LedgerKept /\ Side
    BY <2>6, AnswerStep
  <2>7. CASE Report(w)
    BY <2>7, ReportStep DEF LedgerKept
  <2>8. CASE Heartbeat(w)
    BY <2>8, HeartbeatStep DEF LedgerKept
  <2> QED BY <1>3, <2>1, <2>2, <2>3, <2>4, <2>5, <2>6, <2>7, <2>8 DEF RunStep, LedgerKept
<1>4. CASE LeaseStep \/ ReconcileStep
  BY <1>4, ElsewhereSteps DEF LedgerKept
<1>5. CASE Restart
  BY <1>5, RestartStep DEF LedgerKept
<1> QED BY <1>2, <1>3, <1>4, <1>5 DEF Next

-----------------------------------------------------------------------------
\* The inductive invariant of the ledger under every interleaving of workers,
\* cancellations, deadlines, reaping and restarts.
THEOREM LedgerInvariant == Spec => []LedgerInv
BY LedgerInvInit, LedgerInvStep, PTL DEF Spec

\* reserved_value and consumed_value never become negative.
THEOREM LedgerTypes == Spec => []LedgerTypeOK
<1>1. LedgerInv => LedgerTypeOK
  BY DEF LedgerInv
<1> QED BY <1>1, LedgerInvariant, PTL

\* No job spends more of a provider than its budget.
THEOREM BudgetsHold == Spec => []UsageWithinBudget
<1>1. LedgerInv => UsageWithinBudget
  BY DEF LedgerInv
<1> QED BY <1>1, LedgerInvariant, PTL

\* No reservation is leaked or given back twice.
THEOREM ReservationsExact == Spec => []CallReservationsExact
<1>1. LedgerInv => CallReservationsExact
  BY DEF LedgerInv
<1> QED BY <1>1, LedgerInvariant, PTL

\* No task makes more provider calls than its caps, over all its leases.
THEOREM CapsHold == Spec => []AttemptsCapped
<1>1. LedgerInv => AttemptsCapped
  BY DEF LedgerInv
<1> QED BY <1>1, LedgerInvariant, PTL

\* An attempt that is settled, by its worker or by a reconciliation, stays as it is.
THEOREM AttemptsSettleOnce == Spec => SettledOnce
<1>1. LedgerInv /\ [Next]_vars =>
        [\A i \in DOMAIN attempts : attempts[i].outcome # "open" => attempts'[i] = attempts[i]]_vars
  BY LedgerInvStep DEF AttemptsKept
<1> QED BY <1>1, LedgerInvariant, PTL DEF Spec, SettledOnce

-------------------------------------------------------------------------------
(***************************************************************************)
(* The ladder of routes: under one lease there is one call at a time, a    *)
(* paid route comes after the free one it replaces, and no call is settled *)
(* below its bill.                                                         *)
(*                                                                         *)
(* None of this is visible in the rows alone.  A worker that lost its      *)
(* lease may still go on and on, so what its run has done counts only      *)
(* while the lease is fenced, and a fence that is lost never comes back:   *)
(* tokens are given out once.                                              *)
(***************************************************************************)

\* A call is made between these two phases of a run.
InCall == {"call", "navigate", "finish"}

\* A call by this route was made under the lease and is settled.
Tried(k, route) ==
    \E j \in DOMAIN attempts :
        attempts[j].route = route /\ attempts[j].token = k /\ attempts[j].outcome # "open"

\* Why Firecrawl may be asked to render a page.
Excused(k) ==
    \/ browserPages >= MaxBrowserPages \/ health["local"] # "configured"
    \/ "local_browser" \notin ServedRoutes \/ Tried(k, "local_browser")

\* The only call in progress under a run's lease is the one it waits for, which
\* was made by the first of its routes.
CallRight(r) ==
    /\ Fenced(r.task, r.token) /\ r.phase # "report" =>
          \A i \in DOMAIN attempts :
              attempts[i].outcome = "open" /\ attempts[i].token = r.token =>
                  r.phase \in InCall /\ i = r.id
    /\ r.phase \in InCall => attempts[r.id].route = Head(r.todo)

\* A paid route is on the list of the capability it serves only, after the free
\* one, and the free one was tried before.
LadderRight(r) ==
    Provider = "auto" =>
        /\ \A n \in DOMAIN r.todo :
              /\ r.todo[n] = "brightdata_unlocker" => r.capability = "static_block"
              /\ r.todo[n] = "firecrawl_scrape" => r.capability = "rendering"
              /\ r.todo[n] = "local_browser" => n = 1
        /\ r.capability = "static_block" /\ Fenced(r.task, r.token) =>
              Tried(r.token, "local_http")
        /\ /\ r.capability = "rendering" /\ r.phase \notin {"claimed", "report"}
           /\ Fenced(r.task, r.token)
           => \/ r.todo # <<>> /\ r.todo[1] = "local_browser"
              \/ Excused(r.token)

\* What the provider bills is known to nobody before it answers, and what the
\* run reports is not below it.
BillRight(r) ==
    /\ r.phase \in {"call", "navigate"} => billed[r.id] = 0
    /\ r.phase \in InCall =>
          \/ attempts[r.id].outcome = "open"
          \/ attempts[r.id].charged = PriceOf(attempts[r.id].route)
    /\ r.phase = "finish" =>
          r.charge >= billed[r.id] \/ r.charge = PriceOf(attempts[r.id].route)

RunRight(r) ==
    r # NoRun => r.token \in 1 .. lastToken /\ CallRight(r) /\ LadderRight(r) /\ BillRight(r)

\* A lease token is given out once.
TokensRight ==
    /\ \A t \in Tasks : token[t] <= lastToken
    /\ \A i \in DOMAIN attempts : attempts[i].token \in 1 .. lastToken
    /\ \A v, w \in Workers :
          run[v] # NoRun /\ run[w] # NoRun /\ run[v].token = run[w].token => v = w

RouterInv ==
    /\ TokensRight /\ \A w \in Workers : RunRight(run[w])
    /\ OneOpenCall /\ LocalComesFirst /\ BillsAreCovered

-----------------------------------------------------------------------------
\* What no step does to the fences: none comes back.
TokensKept ==
    /\ lastToken <= lastToken'
    /\ \A t \in Tasks : token'[t] <= lastToken'
    /\ \A t \in Tasks, k \in 1 .. lastToken :
          state'[t] = "leased" /\ token'[t] = k => Fenced(t, k)

\* What a reconciliation charges: the whole reservation.
PaidInFull ==
    /\ DOMAIN attempts' = DOMAIN attempts
    /\ \A i \in DOMAIN attempts :
          attempts[i].outcome = "open" /\ attempts'[i].outcome # "open" =>
              attempts'[i].charged = PriceOf(attempts[i].route)

\* A step that leaves the queue and the attempts alone.
LEMMA QuietFences ==
  ASSUME LeaseTyped, TokensRight, UNCHANGED ledgerVars
  PROVE  TokensKept /\ PaidInFull
<1>1. UNCHANGED <<state, token, lastToken, attempts>>
  BY DEF ledgerVars, leaseVars, usageVars
<1>2. TokensKept
  BY <1>1 DEF TokensKept, Fenced, LeaseTyped, TokensRight
<1> QED BY <1>1, <1>2 DEF PaidInFull

\* Clearing a lease.
LEMMA ReleaseFences ==
  ASSUME LeaseTyped, TokensRight, NEW t \in Tasks, NEW to \in {"queued", "ended"}, Release(t, to)
  PROVE  TokensKept /\ ~(state'[t] = "leased")
BY DEF TokensKept, Fenced, LeaseTyped, TokensRight, Release

\* Settling open attempts.
LEMMA SettlePays ==
  ASSUME UsageInv, NEW S, S \subseteq DOMAIN attempts, Settle(S)
  PROVE  PaidInFull
<1>1. \A i \in DOMAIN attempts : attempts[i] \in Attempts
  BY DEF UsageInv, UsageTyped
<1> QED BY <1>1 DEF Settle, PaidInFull, Attempts

\* _reject_inactive_lease ends the lease.
LEMMA RejectFences ==
  ASSUME LeaseTyped, UsageInv, TokensRight, NEW t \in Tasks, Reject(t)
  PROVE  TokensKept /\ PaidInFull /\ state'[t] # "leased"
<1>1. PICK S \in SUBSET OpenOf(t) : Settle(S)
  BY DEF Reject
<1>2. PaidInFull
  BY <1>1, SettlePays DEF OpenOf
<1> QED BY <1>2, ReleaseFences DEF Reject

\* A holder that is turned away has no lease afterwards.
LEMMA TurnedAwayFences ==
  ASSUME LeaseTyped, UsageInv, TokensRight, NEW t \in Tasks, NEW k, TurnedAway(t, k)
  PROVE  TokensKept /\ PaidInFull /\ ~(state'[t] = "leased" /\ token'[t] = k)
<1>1. CASE ~Fenced(t, k) /\ UNCHANGED ledgerVars
  <2>1. state' = state /\ token' = token
    BY <1>1 DEF ledgerVars, leaseVars
  <2> QED BY <1>1, <2>1, QuietFences DEF Fenced
<1>2. CASE Fenced(t, k) /\ Reject(t)
  BY <1>2, RejectFences
<1> QED BY <1>1, <1>2 DEF TurnedAway

\* Claims, renewals, the clock and draining.
LEMMA LeaseFences ==
  ASSUME LeaseTyped, TokensRight,
         \/ PassDeadline
         \/ \E t \in Tasks : Claim(t) \/ RunLate(t) \/ Drain(t) \/ \E k \in Nat : Renew(t, k)
  PROVE  TokensKept /\ PaidInFull
<1>1. attempts' = attempts
  BY DEF PassDeadline, Claim, RunLate, Drain, Renew, usageVars
<1>2. TokensKept
  <2>1. CASE PassDeadline
    BY <2>1 DEF PassDeadline, LeaseTyped, TokensKept, TokensRight, Fenced
  <2>2. ASSUME NEW t \in Tasks, Claim(t) PROVE TokensKept
    BY <2>2 DEF Claim, LeaseTyped, TokensKept, TokensRight, Fenced
  <2>3. ASSUME NEW t \in Tasks, RunLate(t) PROVE TokensKept
    BY <2>3 DEF RunLate, LeaseTyped, TokensKept, TokensRight, Fenced
  <2>4. ASSUME NEW t \in Tasks, Drain(t) PROVE TokensKept
    BY <2>4 DEF Drain, LeaseTyped, TokensKept, TokensRight, Fenced
  <2>5. ASSUME NEW t \in Tasks, NEW k \in Nat, Renew(t, k) PROVE TokensKept
    BY <2>5 DEF Renew, LeaseTyped, TokensKept, TokensRight, Fenced
  <2> QED BY <2>1, <2>2, <2>3, <2>4, <2>5
<1> QED BY <1>1, <1>2 DEF PaidInFull

\* Cancellation, of this job or another, and reaping.
LEMMA ReconcileFences ==
  ASSUME LeaseTyped, UsageInv, TokensRight, RequestCancel \/ ReconcileElsewhere \/ ReapSome
  PROVE  TokensKept /\ PaidInFull
<1>1. CASE RequestCancel
  <2>1. TokensKept
    BY <1>1 DEF RequestCancel, LeaseTyped, TokensKept, TokensRight, Fenced
  <2>2. PICK S \in SUBSET {i \in DOMAIN attempts : attempts[i].outcome = "open"} : Settle(S)
    BY <1>1 DEF RequestCancel
  <2> QED BY <2>1, <2>2, SettlePays
<1>2. CASE ReconcileElsewhere
  <2>1. TokensKept
    BY <1>2 DEF ReconcileElsewhere, leaseVars, LeaseTyped, TokensKept, TokensRight, Fenced
  <2>2. PICK S \in SUBSET Abandoned : Settle(S)
    BY <1>2 DEF ReconcileElsewhere
  <2> QED BY <2>1, <2>2, SettlePays DEF Abandoned
<1>3. CASE ReapSome
  <2>1. PICK S \in SUBSET Abandoned, L \in SUBSET LateLeases : Reap(S, L)
    BY <1>3 DEF ReapSome
  <2>2. TokensKept
    BY <2>1 DEF Reap, RetryState, LeaseTyped, TokensKept, TokensRight, Fenced
  <2> QED BY <2>1, <2>2, SettlePays DEF Abandoned, Reap
<1> QED BY <1>1, <1>2, <1>3

-----------------------------------------------------------------------------
\* What a step looks like to a run that takes no part in it.
Beside(r) ==
    /\ TokensKept /\ AttemptsKept
    /\ \A i \in DOMAIN attempts' \ DOMAIN attempts : attempts'[i].token # r.token
    /\ \A i \in DOMAIN attempts :
          /\ attempts[i].token = r.token
          /\ attempts[i].outcome = "open" /\ attempts'[i].outcome # "open"
          => attempts'[i].charged = PriceOf(attempts[i].route)
    /\ r.phase \in InCall => billed'[r.id] = billed[r.id]
    /\ browserPages <= browserPages'
    /\ health'["local"] = "configured" => health["local"] = "configured"

\* A call that was made and settled stays so.
LEMMA TriedStays ==
  ASSUME AttemptsKept, NEW k, NEW route, Tried(k, route)
  PROVE  Tried(k, route)'
BY DEF AttemptsKept, Tried

\* An excuse stays one until the process is started again.
LEMMA ExcusedStays ==
  ASSUME AttemptsKept, browserPages \in Nat, browserPages' \in Nat, browserPages <= browserPages',
         health'["local"] = "configured" => health["local"] = "configured",
         NEW k, Excused(k)
  PROVE  Excused(k)'
BY TriedStays, RouterAssumption DEF Excused

\* A run that takes no part in a step is as right as before.
LEMMA OthersStayRight ==
  ASSUME LedgerInv, LedgerInv', NEW v \in Workers, run'[v] = run[v], RunRight(run[v]),
         Beside(run[v]), lastToken \in Nat, lastToken' \in Nat
  PROVE  RunRight(run[v])'
<1> DEFINE r == run[v]
<1>1. CASE r = NoRun
  BY <1>1 DEF RunRight
<1>2. CASE r # NoRun
  <2>1. r \in Runs
    BY <1>2 DEF LedgerInv, LedgerTypeOK
  <2>2. r.task \in Tasks /\ r.token \in 1 .. lastToken /\ r.todo \in Seq(Routes)
    BY <1>2, <2>1 DEF RunRight, Runs
  <2>3. Fenced(r.task, r.token)' => Fenced(r.task, r.token)
    BY <2>2 DEF Beside, TokensKept, Fenced
  <2>4. r.phase \in InCall => /\ r.id \in DOMAIN attempts
                              /\ attempts[r.id].token = r.token
    BY DEF InCall, LedgerInv, RunsHaveAttempts
  <2>5. CallRight(run[v])'
    <3>1. ASSUME NEW i \in DOMAIN attempts', Fenced(r.task, r.token)', r.phase # "report",
                 attempts'[i].outcome = "open", attempts'[i].token = r.token
          PROVE  r.phase \in InCall /\ i = r.id
      <4>1. i \in DOMAIN attempts /\ attempts[i].outcome = "open" /\ attempts[i].token = r.token
        BY <3>1 DEF Beside, AttemptsKept
      <4> QED BY <1>2, <2>3, <3>1, <4>1 DEF RunRight, CallRight
    <3>2. r.phase \in InCall => attempts'[r.id].route = Head(r.todo)
      BY <1>2, <2>4 DEF RunRight, CallRight, Beside, AttemptsKept
    <3> QED BY <3>1, <3>2 DEF CallRight
  <2>6. LadderRight(run[v])'
    <3>1. Tried(r.token, "local_http") => Tried(r.token, "local_http")'
      BY TriedStays DEF Beside
    <3>2. Excused(r.token) => Excused(r.token)'
      BY ExcusedStays DEF Beside, LedgerInv, LedgerTypeOK
    <3> QED BY <1>2, <2>3, <3>1, <3>2 DEF RunRight, LadderRight
  <2>7. BillRight(run[v])'
    <3>1. r.phase \in InCall => \/ attempts'[r.id].outcome = "open"
                                \/ attempts'[r.id].charged = PriceOf(attempts'[r.id].route)
      BY <1>2, <2>4 DEF RunRight, BillRight, Beside, AttemptsKept
    <3>2. /\ r.phase \in InCall => /\ attempts'[r.id].route = attempts[r.id].route
                                   /\ billed'[r.id] = billed[r.id]
      BY <2>4 DEF Beside, AttemptsKept
    <3> QED BY <1>2, <3>1, <3>2 DEF RunRight, BillRight, InCall, PriceOf
  <2>8. r.token \in 1 .. lastToken'
    BY <2>2 DEF Beside, TokensKept
  <2> QED BY <2>5, <2>6, <2>7, <2>8 DEF RunRight
<1> QED BY <1>1, <1>2

-----------------------------------------------------------------------------
\* A step that adds no attempt, charges what was reserved and bills nothing.
Calm ==
    /\ TokensKept /\ AttemptsKept /\ PaidInFull /\ billed' = billed
    /\ browserPages <= browserPages'
    /\ health'["local"] = "configured" => health["local"] = "configured"

\* The attempts are as right after such a step as before.
LEMMA RowsStayRight ==
  ASSUME LedgerInv, RouterInv, TokensKept, AttemptsKept, PaidInFull, billed' = billed,
         lastToken' \in Nat
  PROVE  /\ \A t \in Tasks : token'[t] <= lastToken'
         /\ \A i \in DOMAIN attempts' : attempts'[i].token \in 1 .. lastToken'
         /\ OneOpenCall' /\ LocalComesFirst' /\ BillsAreCovered'
<1>1. /\ DOMAIN attempts' = DOMAIN attempts /\ AttemptsKept /\ billed' = billed
      /\ \A i \in DOMAIN attempts :
            attempts[i].outcome = "open" /\ attempts'[i].outcome # "open" =>
                attempts'[i].charged = PriceOf(attempts[i].route)
      /\ lastToken \in Nat /\ lastToken <= lastToken'
      /\ DOMAIN attempts = 1 .. Len(attempts) /\ Len(attempts) \in Nat
  BY DEF PaidInFull, TokensKept, LedgerInv, LedgerTypeOK
<1>2. \A i \in DOMAIN attempts' : attempts'[i].token \in 1 .. lastToken'
  BY <1>1 DEF AttemptsKept, RouterInv, TokensRight
<1>3. OneOpenCall'
  BY <1>1 DEF AttemptsKept, RouterInv, OneOpenCall
<1>4. LocalComesFirst'
  <2>1. \A i, j \in DOMAIN attempts : j \in 1 .. i - 1 => j \in DOMAIN attempts
    BY <1>1
  <2> QED BY <1>1, <2>1 DEF AttemptsKept, RouterInv, LocalComesFirst
<1>5. BillsAreCovered'
  BY <1>1 DEF AttemptsKept, RouterInv, BillsAreCovered, PriceOf
<1> QED BY <1>2, <1>3, <1>4, <1>5 DEF TokensKept

\* Such a step, taken by worker w with or without a change of its run.
LEMMA CalmStep ==
  ASSUME LedgerInv, LedgerInv', RouterInv, Calm, NEW w \in Workers,
         \A v \in Workers \ {w} : run'[v] = run[v],
         \/ run'[w] = NoRun
         \/ run[w] # NoRun /\ run'[w].token = run[w].token,
         RunRight(run[w])'
  PROVE  RouterInv'
<1>1. lastToken \in Nat /\ lastToken' \in Nat
  BY DEF LedgerInv, LedgerTypeOK
<1>2. ASSUME NEW v \in Workers \ {w} PROVE RunRight(run[v])'
  <2>1. Beside(run[v])
    BY DEF Calm, PaidInFull, Beside
  <2> QED BY <1>1, <1>2, <2>1, OthersStayRight DEF RouterInv
<1>3. \A u, v \in Workers :
         run'[u] # NoRun /\ run'[v] # NoRun /\ run'[u].token = run'[v].token => u = v
  BY DEF RouterInv, TokensRight
<1> QED BY <1>1, <1>2, <1>3, RowsStayRight DEF Calm, RouterInv, TokensRight

\* Such a step of the queue or the maintenance loop.
LEMMA CalmElsewhere ==
  ASSUME LedgerInv, LedgerInv', RouterInv, Calm, run' = run
  PROVE  RouterInv'
<1>1. lastToken \in Nat /\ lastToken' \in Nat
  BY DEF LedgerInv, LedgerTypeOK
<1>2. ASSUME NEW v \in Workers PROVE RunRight(run[v])'
  <2>1. Beside(run[v])
    BY DEF Calm, PaidInFull, Beside
  <2> QED BY <1>1, <1>2, <2>1, OthersStayRight DEF RouterInv
<1> QED BY <1>1, <1>2, RowsStayRight DEF Calm, RouterInv, TokensRight

\* A run that reports makes no more calls.
LEMMA ReportRight ==
  ASSUME LedgerInv, LedgerInv', NEW w \in Workers, run[w] # NoRun, RunRight(run[w]),
         TokensKept, AttemptsKept,
         run'[w].phase = "report", run'[w].task = run[w].task, run'[w].token = run[w].token,
         run'[w].capability = run[w].capability, run'[w].todo = <<>>
  PROVE  RunRight(run[w])'
<1>1. run[w] \in Runs /\ lastToken \in Nat /\ lastToken' \in Nat
  BY DEF LedgerInv, LedgerTypeOK
<1>2. run[w].task \in Tasks /\ run[w].token \in 1 .. lastToken
  BY <1>1 DEF RunRight, Runs
<1>3. Fenced(run[w].task, run[w].token)' => Fenced(run[w].task, run[w].token)
  BY <1>2 DEF TokensKept, Fenced
<1>4. Tried(run[w].token, "local_http") => Tried(run[w].token, "local_http")'
  BY TriedStays DEF Tried
<1>5. CallRight(run[w])' /\ BillRight(run[w])'
  BY DEF CallRight, BillRight, InCall
<1>6. LadderRight(run[w])'
  BY <1>3, <1>4 DEF RunRight, LadderRight
<1>7. run'[w].token \in 1 .. lastToken'
  BY <1>1, <1>2 DEF TokensKept
<1> QED BY <1>5, <1>6, <1>7 DEF RunRight

\* A run goes on along its list of routes, or to the next of them; the browser is
\* left behind only with an excuse.
LEMMA LadderAhead ==
  ASSUME LedgerInv, LedgerInv', NEW w \in Workers, run[w] # NoRun, RunRight(run[w]),
         TokensKept, AttemptsKept, browserPages <= browserPages',
         health'["local"] = "configured" => health["local"] = "configured",
         run[w].phase \notin {"claimed", "report"},
         run'[w].task = run[w].task, run'[w].token = run[w].token,
         run'[w].capability = run[w].capability,
         \/ run'[w].todo = run[w].todo
         \/ /\ run[w].todo # <<>> /\ run'[w].todo = Tail(run[w].todo)
            /\ Head(run[w].todo) = "local_browser" /\ Fenced(run[w].task, run[w].token)'
               => Excused(run[w].token)'
  PROVE  LadderRight(run[w])'
<1> DEFINE r == run[w]
<1>1. run[w] \in Runs
  BY DEF LedgerInv, LedgerTypeOK
<1>2. r.task \in Tasks /\ r.token \in 1 .. lastToken /\ r.todo \in Seq(Routes)
  BY <1>1 DEF RunRight, Runs
<1>3. Fenced(run[w].task, run[w].token)' => Fenced(run[w].task, run[w].token)
  BY <1>2 DEF TokensKept, Fenced
<1>4. Tried(run[w].token, "local_http") => Tried(run[w].token, "local_http")'
  BY TriedStays DEF Tried
<1>5. Excused(run[w].token) => Excused(run[w].token)'
  <2>1. browserPages \in Nat /\ browserPages' \in Nat /\ MaxBrowserPages \in Nat
    BY RouterAssumption DEF LedgerInv, LedgerTypeOK
  <2> QED BY <2>1 DEF Excused, Tried, AttemptsKept
<1>6. CASE run'[w].todo = run[w].todo
  BY <1>3, <1>4, <1>5, <1>6 DEF RunRight, LadderRight
<1>7. CASE /\ run[w].todo # <<>> /\ run'[w].todo = Tail(run[w].todo)
           /\ Head(run[w].todo) = "local_browser" /\ Fenced(run[w].task, run[w].token)'
              => Excused(run[w].token)'
  <2>1. Head(r.todo) = r.todo[1] /\ 1 \in DOMAIN r.todo
    BY <1>2, <1>7
  <2>2. \A n \in DOMAIN Tail(r.todo) :
           n \in Nat /\ n >= 1 /\ n + 1 \in DOMAIN r.todo /\ Tail(r.todo)[n] = r.todo[n + 1]
    BY <1>2, <1>7
  <2>3. ASSUME Provider = "auto", NEW n \in DOMAIN Tail(r.todo)
        PROVE  /\ Tail(r.todo)[n] = "brightdata_unlocker" => r.capability = "static_block"
               /\ Tail(r.todo)[n] = "firecrawl_scrape" => r.capability = "rendering"
               /\ Tail(r.todo)[n] # "local_browser"
    BY <2>2, <2>3 DEF RunRight, LadderRight
  <2>4. ASSUME Provider = "auto", r.capability = "rendering", Fenced(run[w].task, run[w].token)'
        PROVE  Excused(run[w].token)'
    BY <1>3, <1>5, <1>7, <2>1, <2>4 DEF RunRight, LadderRight
  <2> QED BY <1>3, <1>4, <1>7, <2>3, <2>4 DEF RunRight, LadderRight
<1> QED BY <1>6, <1>7

-----------------------------------------------------------------------------
\* What is known of a run before a step.
LEMMA OwnRun ==
  ASSUME LedgerInv, RouterInv, NEW w \in Workers, run[w] # NoRun
  PROVE  /\ run[w] \in Runs /\ RunRight(run[w]) /\ TokensRight
         /\ run[w].task \in Tasks /\ run[w].token \in 1 .. lastToken
         /\ run[w].todo \in Seq(Routes) /\ run[w].capability \in Capabilities
         /\ LeaseTyped /\ UsageInv
<1>1. run[w] \in Runs
  BY DEF LedgerInv, LedgerTypeOK
<1> QED BY <1>1, InvParts DEF Runs, RouterInv, RunRight

\* A run that is in a phase is a run.
LEMMA InPhase ==
  ASSUME NEW w, NEW p, p # "none", In(w, p)
  PROVE  run[w] # NoRun
BY DEF In, NoRun

\* A worker's step changes its own run only.
LEMMA BecomeOnly ==
  ASSUME LedgerInv, NEW w \in Workers, NEW r, Become(w, r)
  PROVE  run'[w] = r /\ \A v \in Workers \ {w} : run'[v] = run[v]
<1>1. run \in [Workers -> Runs \cup {NoRun}]
  BY DEF LedgerInv, LedgerTypeOK
<1> QED BY <1>1 DEF Become

\* A step that leaves ledger, registry and bills alone.
LEMMA QuietIsCalm ==
  ASSUME LedgerInv, RouterInv, UNCHANGED <<ledgerVars, health, browserPages, billed>>
  PROVE  Calm
<1>1. LeaseTyped /\ UsageInv /\ TokensRight /\ browserPages \in Nat
  BY InvParts DEF RouterInv
<1>2. TokensKept /\ PaidInFull
  BY <1>1, QuietFences
<1>3. AttemptsKept
  BY <1>1, QuietLedger DEF LedgerKept
<1> QED BY <1>1, <1>2, <1>3 DEF Calm

\* acquire ends with a verdict.
LEMMA VerdictFields ==
  ASSUME NEW r \in Runs, NEW v
  PROVE  /\ Verdict(r, v).phase = "report" /\ Verdict(r, v).task = r.task
         /\ Verdict(r, v).token = r.token /\ Verdict(r, v).capability = r.capability
         /\ Verdict(r, v).todo = <<>> /\ Verdict(r, v) # NoRun
BY DEF Verdict, Runs, NoRun

\* A run that ends with a verdict while nothing is charged or added.
LEMMA VerdictStep ==
  ASSUME LedgerInv, LedgerInv', RouterInv, Calm, NEW w \in Workers, run[w] # NoRun, NEW v,
         Become(w, Verdict(run[w], v))
  PROVE  RouterInv'
<1>1. run[w] \in Runs /\ RunRight(run[w])
  BY OwnRun
<1>2. run'[w] = Verdict(run[w], v) /\ \A u \in Workers \ {w} : run'[u] = run[u]
  BY BecomeOnly
<1>3. /\ run'[w].phase = "report" /\ run'[w].task = run[w].task
      /\ run'[w].token = run[w].token /\ run'[w].capability = run[w].capability
      /\ run'[w].todo = <<>>
  BY <1>1, <1>2, VerdictFields
<1>4. RunRight(run[w])'
  BY <1>1, <1>3, ReportRight DEF Calm
<1> QED BY <1>2, <1>3, <1>4, CalmStep

\* A run that is gone while nothing is charged or added.
LEMMA GoneStep ==
  ASSUME LedgerInv, LedgerInv', RouterInv, Calm, NEW w \in Workers, Become(w, NoRun)
  PROVE  RouterInv'
<1>1. run'[w] = NoRun /\ \A u \in Workers \ {w} : run'[u] = run[u]
  BY BecomeOnly
<1>2. RunRight(run[w])'
  BY <1>1 DEF RunRight
<1> QED BY <1>1, <1>2, CalmStep

\* The list of two routes, each of which may be missing.
LEMMA KeepBoth ==
  ASSUME NEW a \in Routes, NEW b \in Routes, NEW s, s = Keep(a) \o Keep(b)
  PROVE  /\ \A n \in DOMAIN s : s[n] = b \/ (n = 1 /\ s[n] = a)
         /\ RouteAvailable(a) => s # <<>> /\ s[1] = a
<1>1. /\ Keep(a) \in Seq(Routes) /\ Keep(b) \in Seq(Routes)
      /\ RouteAvailable(a) => Len(Keep(a)) = 1 /\ Keep(a)[1] = a
      /\ ~RouteAvailable(a) => Len(Keep(a)) = 0
      /\ RouteAvailable(b) => Len(Keep(b)) = 1 /\ Keep(b)[1] = b
      /\ ~RouteAvailable(b) => Len(Keep(b)) = 0
  BY DEF Keep
<1>2. /\ s \in Seq(Routes) /\ Len(s) = Len(Keep(a)) + Len(Keep(b))
      /\ DOMAIN s = 1 .. Len(s)
      /\ \A n \in 1 .. Len(s) :
            s[n] = IF n <= Len(Keep(a)) THEN Keep(a)[n] ELSE Keep(b)[n - Len(Keep(a))]
  BY <1>1
<1> QED BY <1>1, <1>2

\* _routes under "auto": each paid route with its capability, the browser first.
LEMMA RoutesLadder ==
  ASSUME Provider = "auto", NEW c \in Capabilities
  PROVE  /\ \A n \in DOMAIN RoutesFor(c) :
               /\ RoutesFor(c)[n] = "brightdata_unlocker" => c = "static_block"
               /\ RoutesFor(c)[n] = "firecrawl_scrape" => c = "rendering"
               /\ RoutesFor(c)[n] = "local_browser" => n = 1
         /\ c = "rendering" =>
               \/ RoutesFor(c) # <<>> /\ RoutesFor(c)[1] = "local_browser"
               \/ ~RouteAvailable("local_browser")
<1>1. {"local_http", "owned_proxy_http", "local_browser", "brightdata_unlocker",
       "firecrawl_scrape"} \subseteq Routes
  BY DEF Routes, ProviderOf
<1>2. CASE c = "ordinary"
  <2>1. AutoRoutes[c] = <<"local_http">>
    BY <1>2 DEF AutoRoutes
  <2>2. RoutesFor(c) = Keep("local_http")
    BY <2>1 DEF RoutesFor
  <2>3. \A n \in DOMAIN RoutesFor(c) : RoutesFor(c)[n] = "local_http"
    <3>1. CASE RoutesFor(c) = <<"local_http">>
      BY <3>1
    <3>2. CASE RoutesFor(c) = <<>>
      BY <3>2
    <3> QED BY <2>2, <3>1, <3>2 DEF Keep
  <2> QED BY <1>2, <2>3
<1>3. CASE c = "static_block"
  <2>1. AutoRoutes[c] = <<"owned_proxy_http", "brightdata_unlocker">>
    BY <1>3 DEF AutoRoutes
  <2>2. RoutesFor(c) = Keep("owned_proxy_http") \o Keep("brightdata_unlocker")
    BY <2>1 DEF RoutesFor
  <2>3. /\ \A n \in DOMAIN RoutesFor(c) :
              \/ RoutesFor(c)[n] = "brightdata_unlocker"
              \/ n = 1 /\ RoutesFor(c)[n] = "owned_proxy_http"
        /\ RouteAvailable("owned_proxy_http") =>
              RoutesFor(c) # <<>> /\ RoutesFor(c)[1] = "owned_proxy_http"
    BY <1>1, <2>2, KeepBoth
  <2> QED BY <1>3, <2>3
<1>4. CASE c = "rendering"
  <2>1. AutoRoutes[c] = <<"local_browser", "firecrawl_scrape">>
    BY <1>4 DEF AutoRoutes
  <2>2. RoutesFor(c) = Keep("local_browser") \o Keep("firecrawl_scrape")
    BY <2>1 DEF RoutesFor
  <2>3. /\ \A n \in DOMAIN RoutesFor(c) :
              RoutesFor(c)[n] = "firecrawl_scrape" \/ (n = 1 /\ RoutesFor(c)[n] = "local_browser")
        /\ RouteAvailable("local_browser") =>
              RoutesFor(c) # <<>> /\ RoutesFor(c)[1] = "local_browser"
    BY <1>1, <2>2, KeepBoth
  <2> QED BY <1>4, <2>3
<1> QED BY <1>2, <1>3, <1>4 DEF Capabilities

\* The start of the loop over routes.
LEMMA BeginRight ==
  ASSUME LedgerInv, LedgerInv', RouterInv, NEW w \in Workers, BeginAcquire(w)
  PROVE  RouterInv'
<1> DEFINE c == run[w].capability
           r == [run[w] EXCEPT !.phase = "route", !.todo = RoutesFor(c), !.last = "none"]
<1>1. run[w] # NoRun /\ run[w].phase = "claimed" /\ Calm
  BY InPhase, QuietIsCalm DEF BeginAcquire, In
<1>2. /\ run[w] \in Runs /\ RunRight(run[w]) /\ c \in Capabilities
      /\ run[w].task \in Tasks /\ run[w].token \in 1 .. lastToken
  BY <1>1, OwnRun
<1>3. CASE Become(w, Unavailable(run[w]))
  BY <1>1, <1>3, VerdictStep DEF Unavailable
<1>4. CASE Become(w, r)
  <2>1. run'[w] = r /\ \A u \in Workers \ {w} : run'[u] = run[u]
    BY <1>4, BecomeOnly
  <2>2. /\ run'[w].phase = "route" /\ run'[w].task = run[w].task
        /\ run'[w].token = run[w].token /\ run'[w].capability = c
        /\ run'[w].todo = RoutesFor(c)
    BY <1>2, <2>1 DEF Runs
  <2>3. UNCHANGED <<state, token, attempts, lastToken, health, browserPages>>
    BY DEF BeginAcquire, ledgerVars, leaseVars, usageVars
  <2>4. CallRight(run[w])'
    BY <1>1, <1>2, <2>2, <2>3 DEF RunRight, CallRight, InCall, Fenced
  <2>5. BillRight(run[w])'
    BY <2>2 DEF BillRight, InCall
  <2>6. LadderRight(run[w])'
    <3> SUFFICES ASSUME Provider = "auto" PROVE LadderRight(run[w])'
      BY DEF LadderRight
    <3>1. ~RouteAvailable("local_browser") => Excused(run[w].token)'
      BY <2>3 DEF RouteAvailable, Excused, ProviderOf
    <3>2. c = "static_block" /\ Fenced(run[w].task, run[w].token)' => Tried(run[w].token, "local_http")'
      BY <1>1, <1>2, <2>2, <2>3 DEF RunRight, LadderRight, Fenced, Tried
    <3> HIDE DEF c
    <3> QED BY <1>2, <2>2, <3>1, <3>2, RoutesLadder DEF LadderRight
  <2>7. RunRight(run[w])'
    BY <1>2, <2>2, <2>3, <2>4, <2>5, <2>6 DEF RunRight
  <2> QED BY <1>1, <2>1, <2>2, <2>7, CalmStep
<1> QED BY <1>3, <1>4 DEF BeginAcquire

\* The head of the loop: a route that is out of order is passed over.
LEMMA SelectRight ==
  ASSUME LedgerInv, LedgerInv', RouterInv, NEW w \in Workers, SelectRoute(w)
  PROVE  RouterInv'
<1>1. run[w] # NoRun /\ run[w].phase = "route" /\ run[w].todo # <<>> /\ Calm
  BY InPhase, QuietIsCalm DEF SelectRoute, In
<1>2. /\ run[w] \in Runs /\ RunRight(run[w])
      /\ run[w].task \in Tasks /\ run[w].token \in 1 .. lastToken /\ run[w].todo \in Seq(Routes)
  BY <1>1, OwnRun
<1>3. UNCHANGED <<state, token, attempts, lastToken, health, browserPages>>
  BY DEF SelectRoute, ledgerVars, leaseVars, usageVars
<1>4. /\ \A u \in Workers \ {w} : run'[u] = run[u]
      /\ run'[w].phase \in {"route", "reserve"} /\ run'[w].task = run[w].task
      /\ run'[w].token = run[w].token /\ run'[w].capability = run[w].capability
      /\ \/ run'[w].todo = run[w].todo
         \/ run'[w].todo = Tail(run[w].todo) /\ ~RouteAvailable(Head(run[w].todo))
  <2>1. CASE /\ ~RouteAvailable(Head(run[w].todo))
             /\ Become(w, [run[w] EXCEPT !.todo = Tail(@)])
    <3>1. /\ run'[w] = [run[w] EXCEPT !.todo = Tail(run[w].todo)]
          /\ \A u \in Workers \ {w} : run'[u] = run[u]
      BY <2>1, BecomeOnly
    <3> QED BY <1>1, <1>2, <2>1, <3>1 DEF Runs
  <2>2. CASE Goto(w, "reserve")
    BY <1>1, <1>2, <2>2, BecomeOnly DEF Goto, Runs
  <2> QED BY <2>1, <2>2 DEF SelectRoute
<1>5. CallRight(run[w])'
  BY <1>1, <1>2, <1>3, <1>4 DEF RunRight, CallRight, InCall, Fenced
<1>6. BillRight(run[w])'
  BY <1>4 DEF BillRight, InCall
<1>7. LadderRight(run[w])'
  <2>1. ~RouteAvailable("local_browser") => Excused(run[w].token)'
    BY <1>3 DEF RouteAvailable, Excused, ProviderOf
  <2>2. \/ run'[w].todo = run[w].todo
        \/ /\ run[w].todo # <<>> /\ run'[w].todo = Tail(run[w].todo)
           /\ Head(run[w].todo) = "local_browser" /\ Fenced(run[w].task, run[w].token)'
              => Excused(run[w].token)'
    BY <1>1, <1>4, <2>1
  <2>3. run[w].phase \notin {"claimed", "report"}
    BY <1>1
  <2> QED BY <1>1, <1>2, <1>4, <2>2, <2>3, LadderAhead DEF Calm
<1>8. RunRight(run[w])'
  BY <1>2, <1>3, <1>4, <1>5, <1>6, <1>7 DEF RunRight
<1> QED BY <1>1, <1>4, <1>8, CalmStep

\* A run that makes no call goes on without one.
LEMMA NoCallAhead ==
  ASSUME LedgerInv, LedgerInv', NEW w \in Workers, run[w] # NoRun, RunRight(run[w]),
         TokensKept, AttemptsKept, DOMAIN attempts' = DOMAIN attempts,
         run[w].phase \notin InCall \cup {"report"}, run'[w].phase \notin InCall,
         run'[w].task = run[w].task, run'[w].token = run[w].token
  PROVE  CallRight(run[w])' /\ BillRight(run[w])' /\ run'[w].token \in 1 .. lastToken'
<1>1. run[w] \in Runs /\ lastToken \in Nat /\ lastToken' \in Nat
  BY DEF LedgerInv, LedgerTypeOK
<1>2. run[w].task \in Tasks /\ run[w].token \in 1 .. lastToken
  BY <1>1 DEF RunRight, Runs
<1>3. Fenced(run[w].task, run[w].token)' => Fenced(run[w].task, run[w].token)
  BY <1>2 DEF TokensKept, Fenced
<1>4. \A i \in DOMAIN attempts' :
         attempts'[i].outcome = "open" =>
             attempts[i].outcome = "open" /\ attempts'[i].token = attempts[i].token
  BY DEF AttemptsKept
<1>5. CallRight(run[w])'
  BY <1>3, <1>4 DEF RunRight, CallRight
<1>6. BillRight(run[w])'
  BY DEF BillRight, InCall
<1> QED BY <1>1, <1>2, <1>5, <1>6 DEF TokensKept

\* reserve_browser_navigation refuses a lease that stays only when the budget is
\* used up.
LEMMA NavigationFences ==
  ASSUME LedgerInv, RouterInv, NEW w \in Workers, run[w] # NoRun,
         NavigationGranted(run[w]) \/ NavigationRefused(run[w])
  PROVE  /\ TokensKept /\ PaidInFull /\ browserPages <= browserPages'
         /\ NavigationRefused(run[w]) =>
               \/ ~(state'[run[w].task] = "leased" /\ token'[run[w].task] = run[w].token)
               \/ browserPages' >= MaxBrowserPages
<1>1. /\ LeaseTyped /\ UsageInv /\ TokensRight /\ browserPages \in Nat /\ run[w].task \in Tasks
  BY OwnRun, InvParts
<1>2. CASE NavigationGranted(run[w])
  <2>1. ~NavigationRefused(run[w])
    BY <1>1, <1>2 DEF NavigationRefused, NavigationGranted
  <2> QED BY <1>1, <1>2, <2>1, QuietFences DEF NavigationGranted
<1>3. CASE NavigationRefused(run[w]) /\ UNCHANGED ledgerVars /\ browserPages >= MaxBrowserPages
  BY <1>1, <1>3, QuietFences DEF NavigationRefused
<1>4. CASE NavigationRefused(run[w]) /\ TurnedAway(run[w].task, run[w].token)
  <2>1. /\ TokensKept /\ PaidInFull
        /\ ~(state'[run[w].task] = "leased" /\ token'[run[w].task] = run[w].token)
    BY <1>1, <1>4, TurnedAwayFences
  <2> QED BY <1>1, <1>4, <2>1 DEF NavigationRefused
<1> QED BY <1>2, <1>3, <1>4 DEF NavigationRefused

\* The browser is selected when the budget grants a navigation.
LEMMA BrowserRight ==
  ASSUME LedgerInv, LedgerInv', RouterInv, AttemptsKept, NEW w \in Workers, SelectBrowser(w)
  PROVE  RouterInv'
<1> DEFINE r == run[w]
<1>1. /\ run[w] # NoRun /\ run[w].phase = "route" /\ run[w].todo # <<>>
      /\ health' = health /\ billed' = billed
  BY InPhase DEF SelectBrowser, In
<1>2. run[w] \in Runs /\ RunRight(run[w]) /\ run[w].todo \in Seq(Routes)
  BY <1>1, OwnRun
<1>3. /\ TokensKept /\ PaidInFull /\ browserPages <= browserPages'
      /\ NavigationRefused(run[w]) =>
               \/ ~(state'[run[w].task] = "leased" /\ token'[run[w].task] = run[w].token)
               \/ browserPages' >= MaxBrowserPages
  BY <1>1, NavigationFences DEF SelectBrowser
<1>4. Calm
  BY <1>1, <1>3 DEF Calm
<1>5. /\ \A u \in Workers \ {w} : run'[u] = run[u]
      /\ run'[w].phase \in {"route", "reserve"} /\ run'[w].task = run[w].task
      /\ run'[w].token = run[w].token /\ run'[w].capability = run[w].capability
      /\ \/ run'[w].todo = run[w].todo
         \/ run'[w].todo = Tail(run[w].todo) /\ NavigationRefused(run[w])
  <2>1. CASE Become(w, [run[w] EXCEPT !.phase = "reserve", !.navigations = 1])
    <3>1. /\ run'[w] = [run[w] EXCEPT !.phase = "reserve", !.navigations = 1]
          /\ \A u \in Workers \ {w} : run'[u] = run[u]
      BY <2>1, BecomeOnly
    <3> QED BY <1>1, <1>2, <3>1 DEF Runs
  <2>2. CASE NavigationRefused(run[w]) /\ Become(w, NextRoute(run[w], "budget"))
    <3>1. /\ run'[w] = NextRoute(run[w], "budget")
          /\ \A u \in Workers \ {w} : run'[u] = run[u]
      BY <2>2, BecomeOnly
    <3> QED BY <1>1, <1>2, <2>2, <3>1 DEF Runs, NextRoute
  <2> QED BY <2>1, <2>2 DEF SelectBrowser
<1>6. CallRight(run[w])' /\ BillRight(run[w])' /\ run'[w].token \in 1 .. lastToken'
  <2>1. run[w].phase \notin InCall \cup {"report"} /\ run'[w].phase \notin InCall
    BY <1>1, <1>5 DEF InCall
  <2> QED BY <1>1, <1>2, <1>3, <1>5, <2>1, NoCallAhead DEF PaidInFull
<1>7. LadderRight(run[w])'
  <2>1. NavigationRefused(run[w]) /\ Fenced(run[w].task, run[w].token)' => Excused(run[w].token)'
    BY <1>3, <1>5 DEF Fenced, Excused
  <2>2. \/ run'[w].todo = run[w].todo
        \/ /\ run[w].todo # <<>> /\ run'[w].todo = Tail(run[w].todo)
           /\ Head(run[w].todo) = "local_browser" /\ Fenced(run[w].task, run[w].token)'
              => Excused(run[w].token)'
    BY <1>1, <1>5, <2>1
  <2>3. run[w].phase \notin {"claimed", "report"}
    BY <1>1
  <2> QED BY <1>1, <1>2, <1>4, <1>5, <2>2, <2>3, LadderAhead DEF Calm
<1>8. RunRight(run[w])'
  BY <1>6, <1>7 DEF RunRight
<1> QED BY <1>1, <1>4, <1>5, <1>8, CalmStep

\* before_browser: the navigation is reserved again, within the call.
LEMMA NavigateRight ==
  ASSUME LedgerInv, LedgerInv', RouterInv, AttemptsKept, NEW w \in Workers, StartNavigation(w)
  PROVE  RouterInv'
<1>1. /\ run[w] # NoRun /\ run[w].phase = "call" /\ health' = health /\ billed' = billed
  BY InPhase DEF StartNavigation, In
<1>2. /\ run[w] \in Runs /\ RunRight(run[w]) /\ run[w].task \in Tasks
      /\ run[w].token \in 1 .. lastToken /\ lastToken \in Nat /\ lastToken' \in Nat
  BY <1>1, OwnRun DEF LedgerInv, LedgerTypeOK
<1>3. TokensKept /\ PaidInFull /\ browserPages <= browserPages'
  BY <1>1, NavigationFences DEF StartNavigation
<1>4. Calm
  BY <1>1, <1>3 DEF Calm
<1>5. /\ \A u \in Workers \ {w} : run'[u] = run[u]
      /\ run'[w].phase \in {"navigate", "finish"} /\ run'[w].task = run[w].task
      /\ run'[w].token = run[w].token /\ run'[w].capability = run[w].capability
      /\ run'[w].todo = run[w].todo /\ run'[w].id = run[w].id
      /\ run'[w].phase = "finish" => run'[w].charge = 0
  <2>1. CASE Become(w, [run[w] EXCEPT !.phase = "navigate", !.navigations = @ + 1])
    <3>1. /\ run'[w] = [run[w] EXCEPT !.phase = "navigate", !.navigations = run[w].navigations + 1]
          /\ \A u \in Workers \ {w} : run'[u] = run[u]
      BY <2>1, BecomeOnly
    <3> QED BY <1>1, <1>2, <3>1 DEF Runs
  <2>2. CASE Become(w, [run[w] EXCEPT !.phase = "finish", !.kind = "budget", !.charge = 0])
    <3>1. /\ run'[w] = [run[w] EXCEPT !.phase = "finish", !.kind = "budget", !.charge = 0]
          /\ \A u \in Workers \ {w} : run'[u] = run[u]
      BY <2>2, BecomeOnly
    <3> QED BY <1>1, <1>2, <3>1 DEF Runs
  <2> QED BY <2>1, <2>2 DEF StartNavigation
<1>6. run[w].id \in DOMAIN attempts
  BY <1>1 DEF LedgerInv, RunsHaveAttempts
<1>7. Fenced(run[w].task, run[w].token)' => Fenced(run[w].task, run[w].token)
  BY <1>2, <1>3, <1>5 DEF TokensKept, Fenced
<1>8. CallRight(run[w])'
  <2>1. \A i \in DOMAIN attempts' :
           /\ attempts'[i].outcome = "open" => attempts[i].outcome = "open"
           /\ attempts'[i].token = attempts[i].token /\ attempts'[i].route = attempts[i].route
           /\ i \in DOMAIN attempts
    BY <1>3 DEF AttemptsKept, PaidInFull
  <2> QED BY <1>1, <1>2, <1>3, <1>5, <1>6, <1>7, <2>1 DEF RunRight, CallRight, InCall, PaidInFull
<1>9. BillRight(run[w])'
  <2>1. billed[run[w].id] = 0
    BY <1>1, <1>2 DEF RunRight, BillRight
  <2>2. \/ attempts'[run[w].id].outcome = "open"
        \/ attempts'[run[w].id].charged = PriceOf(attempts'[run[w].id].route)
    BY <1>1, <1>2, <1>3, <1>6 DEF RunRight, BillRight, InCall, AttemptsKept, PaidInFull
  <2> QED BY <1>1, <1>5, <2>1, <2>2 DEF BillRight, PriceOf
<1>10. LadderRight(run[w])'
  BY <1>1, <1>2, <1>4, <1>5, LadderAhead DEF Calm
<1>11. RunRight(run[w])'
  BY <1>2, <1>3, <1>5, <1>8, <1>9, <1>10 DEF RunRight, TokensKept
<1> QED BY <1>1, <1>4, <1>5, <1>11, CalmStep

-----------------------------------------------------------------------------
\* A task is claimed under a token nobody has had.
LEMMA ClaimRight ==
  ASSUME LedgerInv, LedgerInv', RouterInv, AttemptsKept, NEW w \in Workers, NEW t \in Tasks,
         ClaimTask(w, t)
  PROVE  RouterInv'
<1>1. LeaseTyped /\ TokensRight /\ lastToken \in Nat /\ lastToken' = lastToken + 1
  BY InvParts DEF RouterInv, ClaimTask, Claim, LeaseTyped
<1>2. TokensKept /\ PaidInFull /\ attempts' = attempts
  BY <1>1, LeaseFences DEF ClaimTask, Claim, usageVars
<1>3. Calm
  <2>1. browserPages' = browserPages /\ browserPages \in Nat
    BY InvParts DEF ClaimTask
  <2> QED BY <1>2, <2>1 DEF Calm, ClaimTask
<1>4. /\ \A u \in Workers \ {w} : run'[u] = run[u]
      /\ run'[w].phase = "claimed" /\ run'[w].token = lastToken + 1
      /\ run'[w].capability = FirstCapability /\ run'[w].todo = <<>>
  <2>1. run \in [Workers -> Runs \cup {NoRun}]
    BY DEF LedgerInv, LedgerTypeOK
  <2> QED BY <2>1 DEF ClaimTask, Become
<1>5. RunRight(run[w])'
  <2>1. \A i \in DOMAIN attempts' : attempts'[i].token # run'[w].token
    BY <1>1, <1>2, <1>4 DEF TokensRight
  <2>2. CallRight(run[w])' /\ BillRight(run[w])'
    BY <1>4, <2>1 DEF CallRight, BillRight, InCall
  <2>3. LadderRight(run[w])'
    <3>1. run'[w].capability # "static_block"
      BY <1>4 DEF FirstCapability
    <3> QED BY <1>4, <3>1 DEF LadderRight
  <2> QED BY <1>1, <1>4, <2>2, <2>3 DEF RunRight
<1>6. ASSUME NEW v \in Workers \ {w} PROVE RunRight(run[v])'
  <2>1. Beside(run[v])
    BY <1>3 DEF Calm, PaidInFull, Beside
  <2> QED BY <1>1, <1>4, <1>6, <2>1, OthersStayRight DEF RouterInv
<1>7. \A u, v \in Workers :
         run'[u] # NoRun /\ run'[v] # NoRun /\ run'[u].token = run'[v].token => u = v
  <2>1. \A v \in Workers \ {w} : run[v] # NoRun => run[v].token # lastToken + 1
    BY <1>1 DEF RouterInv, RunRight
  <2> QED BY <1>4, <2>1 DEF RouterInv, TokensRight
<1> QED BY <1>1, <1>3, <1>5, <1>6, <1>7, RowsStayRight DEF Calm, RouterInv, TokensRight

\* reserve_acquisition_attempt adds the only open attempt of the lease, and a paid
\* route's only after the free one.
LEMMA ReserveRight ==
  ASSUME LedgerInv, LedgerInv', RouterInv, AttemptsKept, NEW w \in Workers, ReserveCall(w)
  PROVE  RouterInv'
<1> DEFINE r == run[w]
           n == Len(attempts) + 1
           route == Head(run[w].todo)
<1>1. run[w] # NoRun /\ run[w].phase = "reserve" /\ health' = health /\ browserPages' = browserPages
  BY InPhase DEF ReserveCall, In
<1>2. /\ run[w] \in Runs /\ RunRight(run[w]) /\ run[w].task \in Tasks
      /\ run[w].token \in 1 .. lastToken /\ run[w].todo \in Seq(Routes) /\ TokensRight
      /\ LeaseTyped /\ UsageInv
  BY <1>1, OwnRun
<1>3. /\ lastToken \in Nat /\ browserPages \in Nat /\ attempts \in Seq(Attempts)
      /\ billed \in [DOMAIN attempts -> Nat] /\ run[w].todo # <<>>
  BY <1>1 DEF LedgerInv, LedgerTypeOK, RunsHaveAttempts
<1>4. CASE /\ \/ UNCHANGED ledgerVars
              \/ TurnedAway(r.task, r.token)
           /\ Become(w, Unavailable(r)) /\ UNCHANGED billed
  <2>1. TokensKept /\ PaidInFull
    BY <1>2, <1>4, QuietFences, TurnedAwayFences
  <2>2. Calm
    BY <1>1, <1>3, <1>4, <2>1 DEF Calm
  <2> QED BY <1>1, <1>4, <2>2, VerdictStep DEF Unavailable
<1>5. CASE /\ ReserveAttempt(r.task, r.token, route)
           /\ Become(w, [r EXCEPT !.phase = "call", !.id = n])
           /\ billed' = Append(billed, 0)
  <2>1. /\ Fenced(r.task, r.token) /\ UNCHANGED <<state, token, lastToken>>
        /\ attempts' = Append(attempts, [task |-> r.task, route |-> route, token |-> r.token,
                                         outcome |-> "open", charged |-> 0])
    BY <1>5 DEF ReserveAttempt, leaseVars
  <2>2. /\ DOMAIN attempts = 1 .. Len(attempts) /\ Len(attempts) \in Nat
        /\ DOMAIN attempts' = 1 .. n /\ n \in DOMAIN attempts' /\ n \notin DOMAIN attempts
        /\ \A i \in DOMAIN attempts : attempts'[i] = attempts[i]
        /\ attempts'[n].route = route /\ attempts'[n].token = r.token
        /\ attempts'[n].outcome = "open"
    BY <1>3, <2>1
  <2>3. billed'[n] = 0 /\ \A i \in DOMAIN attempts : billed'[i] = billed[i]
    <3>1. billed \in Seq(Nat) /\ Len(billed) = Len(attempts)
      BY <1>3, <2>2
    <3> QED BY <1>5, <2>2, <3>1
  <2>4. /\ \A u \in Workers \ {w} : run'[u] = run[u]
        /\ run'[w].phase = "call" /\ run'[w].id = n /\ run'[w].task = run[w].task
        /\ run'[w].token = run[w].token /\ run'[w].capability = run[w].capability
        /\ run'[w].todo = run[w].todo
    <3>1. /\ run'[w] = [run[w] EXCEPT !.phase = "call", !.id = n]
          /\ \A u \in Workers \ {w} : run'[u] = run[u]
      BY <1>5, BecomeOnly
    <3> QED BY <1>2, <3>1 DEF Runs
  <2>5. \A i \in DOMAIN attempts : attempts[i].token = r.token => attempts[i].outcome # "open"
    BY <1>1, <1>2, <2>1 DEF RunRight, CallRight, InCall
  <2> HIDE DEF n, route
  <2>6. TokensKept
    BY <1>2, <1>3, <2>1 DEF TokensKept, TokensRight, Fenced, LeaseTyped
  <2>7. RunRight(run[w])'
    <3>1. CallRight(run[w])'
      <4>1. \A i \in DOMAIN attempts' : i = n \/ i \in DOMAIN attempts
        BY <2>2 DEF n
      <4> QED BY <2>2, <2>4, <2>5, <4>1 DEF CallRight, InCall, route
    <3>2. BillRight(run[w])'
      BY <2>2, <2>3, <2>4 DEF BillRight, InCall
    <3>3. LadderRight(run[w])'
      BY <1>1, <1>2, <1>3, <2>4, <2>6, LadderAhead
    <3> QED BY <1>2, <2>1, <2>4, <3>1, <3>2, <3>3 DEF RunRight
  <2>8. ASSUME NEW v \in Workers \ {w} PROVE RunRight(run[v])'
    <3>1. CASE run[v] = NoRun
      BY <2>4, <3>1 DEF RunRight
    <3>2. CASE run[v] # NoRun
      <4>1. run[v].token # r.token
        BY <1>1, <1>2, <3>2 DEF TokensRight
      <4>2. run[v].phase \in InCall => run[v].id \in DOMAIN attempts
        BY DEF InCall, LedgerInv, RunsHaveAttempts
      <4>3. \A i \in DOMAIN attempts' \ DOMAIN attempts : i = n
        BY <2>2 DEF n
      <4>4. Beside(run[v])
        BY <1>1, <1>3, <2>2, <2>3, <2>6, <4>1, <4>2, <4>3 DEF Beside
      <4> QED BY <1>3, <2>1, <2>4, <2>8, <4>4, OthersStayRight DEF RouterInv
    <3> QED BY <3>1, <3>2
  <2>9. TokensRight'
    <3>1. \A i \in DOMAIN attempts' : attempts'[i].token \in 1 .. lastToken'
      BY <1>2, <2>1, <2>2 DEF TokensRight, n
    <3>2. \A u, v \in Workers :
             run'[u] # NoRun /\ run'[v] # NoRun /\ run'[u].token = run'[v].token => u = v
      BY <1>1, <1>2, <2>4 DEF TokensRight
    <3> QED BY <2>6, <3>1, <3>2 DEF TokensRight, TokensKept
  <2>10. \A i \in DOMAIN attempts' : i = n \/ i \in DOMAIN attempts
    BY <2>2 DEF n
  <2>11. OneOpenCall'
    BY <2>2, <2>5, <2>10 DEF OneOpenCall, RouterInv
  <2>12. LocalComesFirst'
    <3> SUFFICES ASSUME Provider = "auto", NEW i \in DOMAIN attempts',
                        attempts'[i].route = "brightdata_unlocker"
                 PROVE  \E j \in 1 .. i - 1 : /\ attempts'[j].route = "local_http"
                                              /\ attempts'[j].token = attempts'[i].token
                                              /\ attempts'[j].outcome # "open"
      BY DEF LocalComesFirst
    <3>1. CASE i = n
      <4>1. 1 \in DOMAIN run[w].todo /\ run[w].todo[1] = "brightdata_unlocker"
        BY <1>2, <1>3, <2>2, <3>1 DEF route
      <4>2. Tried(run[w].token, "local_http")
        BY <1>1, <1>2, <2>1, <4>1 DEF RunRight, LadderRight
      <4>3. PICK j \in DOMAIN attempts : /\ attempts[j].route = "local_http"
                                         /\ attempts[j].token = run[w].token
                                         /\ attempts[j].outcome # "open"
        BY <4>2 DEF Tried
      <4>4. j \in 1 .. i - 1
        BY <2>2, <3>1 DEF n
      <4> QED BY <2>2, <3>1, <4>3, <4>4
    <3>2. CASE i \in DOMAIN attempts
      <4>1. PICK j \in 1 .. i - 1 : /\ attempts[j].route = "local_http"
                                    /\ attempts[j].token = attempts[i].token
                                    /\ attempts[j].outcome # "open"
        BY <2>2, <3>2 DEF RouterInv, LocalComesFirst
      <4>2. j \in DOMAIN attempts
        BY <2>2, <3>2
      <4> QED BY <2>2, <3>2, <4>1, <4>2
    <3> QED BY <2>10, <3>1, <3>2
  <2>13. BillsAreCovered'
    BY <2>2, <2>3, <2>10 DEF BillsAreCovered, RouterInv, PriceOf
  <2> QED BY <2>7, <2>8, <2>9, <2>11, <2>12, <2>13 DEF RouterInv
<1> QED BY <1>4, <1>5 DEF ReserveCall

\* The provider answers; only the run that waits learns the bill.
LEMMA AnswerRight ==
  ASSUME LedgerInv, LedgerInv', RouterInv, AttemptsKept, NEW w \in Workers,
         NEW kind \in Kinds, NEW bill, Answer(w, kind, bill)
  PROVE  RouterInv'
<1> DEFINE id == run[w].id
           c == IF kind \in Unpriced THEN PriceOf(Head(run[w].todo)) ELSE bill
<1>1. run[w] # NoRun /\ run[w].phase \in {"call", "navigate"}
  BY DEF Answer, In, NoRun
<1>2. /\ run[w] \in Runs /\ RunRight(run[w]) /\ run[w].task \in Tasks
      /\ run[w].token \in 1 .. lastToken /\ TokensRight /\ LeaseTyped /\ UsageInv
  BY <1>1, OwnRun
<1>3. /\ lastToken \in Nat /\ browserPages \in Nat
      /\ billed \in [DOMAIN attempts -> Nat] /\ billed' \in [DOMAIN attempts' -> Nat]
      /\ health \in [Providers -> {"configured", "disabled", "unhealthy"}]
      /\ id \in DOMAIN attempts /\ attempts[id].token = run[w].token
  BY <1>1 DEF LedgerInv, LedgerTypeOK, RunsHaveAttempts
<1>4. /\ UNCHANGED <<state, token, lastToken, attempts, browserPages>> /\ UNCHANGED ledgerVars
  BY DEF Answer, ledgerVars, leaseVars, usageVars
<1>5. TokensKept /\ PaidInFull
  BY <1>2, <1>4, QuietFences
<1>6. health'["local"] = "configured" => health["local"] = "configured"
  <2>1. \/ health' = health
        \/ health' = [health EXCEPT ![ProviderOf[Head(run[w].todo)]] = "unhealthy"]
    BY DEF Answer
  <2> QED BY <1>3, <2>1 DEF Providers
<1>7. billed' = [billed EXCEPT ![id] = bill]
  BY DEF Answer
<1>8. /\ \A u \in Workers \ {w} : run'[u] = run[u]
      /\ run'[w].phase = "finish" /\ run'[w].id = id /\ run'[w].charge = c
      /\ run'[w].task = run[w].task /\ run'[w].token = run[w].token
      /\ run'[w].capability = run[w].capability /\ run'[w].todo = run[w].todo
  <2>1. /\ run'[w] = [run[w] EXCEPT !.phase = "finish", !.kind = kind, !.charge = c]
        /\ \A u \in Workers \ {w} : run'[u] = run[u]
    BY BecomeOnly DEF Answer
  <2> HIDE DEF c
  <2> QED BY <1>2, <2>1 DEF Runs
<1>9. RunRight(run[w])'
  <2>1. attempts[id].route = Head(run[w].todo)
    BY <1>1, <1>2 DEF RunRight, CallRight, InCall
  <2>2. CallRight(run[w])'
    BY <1>1, <1>2, <1>4, <1>8, <2>1 DEF RunRight, CallRight, InCall, Fenced
  <2>3. BillRight(run[w])'
    <3>1. billed'[id] = bill /\ bill \in Nat
      BY <1>3, <1>4, <1>7
    <3>2. \/ attempts'[id].outcome = "open"
          \/ attempts'[id].charged = PriceOf(attempts'[id].route)
      BY <1>1, <1>2, <1>4 DEF RunRight, BillRight, InCall, PriceOf
    <3>3. c >= billed'[id] \/ c = PriceOf(attempts'[id].route)
      BY <1>4, <2>1, <3>1 DEF PriceOf
    <3> HIDE DEF c, id
    <3> QED BY <1>8, <3>2, <3>3 DEF BillRight, InCall, PriceOf
  <2>4. LadderRight(run[w])'
    <3>1. run[w].phase \notin {"claimed", "report"}
      BY <1>1
    <3> QED BY <1>1, <1>2, <1>3, <1>4, <1>5, <1>6, <1>8, <3>1, LadderAhead
  <2> QED BY <1>2, <1>4, <1>8, <2>2, <2>3, <2>4 DEF RunRight
<1>10. ASSUME NEW v \in Workers \ {w} PROVE RunRight(run[v])'
  <2>1. CASE run[v] = NoRun
    BY <1>8, <2>1 DEF RunRight
  <2>2. CASE run[v] # NoRun
    <3>1. run[v].token # run[w].token
      BY <1>1, <1>2, <2>2 DEF TokensRight
    <3>2. run[v].phase \in InCall => run[v].id \in DOMAIN attempts /\ run[v].id # id
      BY <1>3, <3>1 DEF InCall, LedgerInv, RunsHaveAttempts
    <3>3. run[v].phase \in InCall => billed'[run[v].id] = billed[run[v].id]
      BY <1>3, <1>7, <3>2
    <3>4. Beside(run[v])
      BY <1>3, <1>4, <1>5, <1>6, <3>3 DEF Beside
    <3> QED BY <1>3, <1>4, <1>8, <1>10, <3>4, OthersStayRight DEF RouterInv
  <2> QED BY <2>1, <2>2
<1>11. BillsAreCovered'
  <2>1. attempts[id].outcome = "open" \/ attempts[id].charged = PriceOf(attempts[id].route)
    BY <1>1, <1>2 DEF RunRight, BillRight, InCall
  <2>2. \A i \in DOMAIN attempts : i # id => billed'[i] = billed[i]
    BY <1>3, <1>7
  <2> HIDE DEF id
  <2> QED BY <1>4, <2>1, <2>2 DEF RouterInv, BillsAreCovered, PriceOf
<1>12. OneOpenCall' /\ LocalComesFirst'
  BY <1>4 DEF RouterInv, OneOpenCall, LocalComesFirst
<1>13. TokensRight'
  BY <1>1, <1>4, <1>8 DEF RouterInv, TokensRight
<1> QED BY <1>9, <1>10, <1>11, <1>12, <1>13 DEF RouterInv

\* What a run becomes once its call is finished, when the attempt is settled or
\* the lease is gone.
LEMMA AfterFinishRight ==
  ASSUME LedgerInv, LedgerInv', RouterInv, TokensKept, AttemptsKept,
         DOMAIN attempts' = DOMAIN attempts, NEW w \in Workers, run[w].phase = "finish",
         UNCHANGED <<health, browserPages>>,
         \/ attempts'[run[w].id].outcome # "open"
         \/ ~(state'[run[w].task] = "leased" /\ token'[run[w].task] = run[w].token),
         run'[w] = AfterFinish(run[w])
  PROVE  RunRight(run[w])' /\ (run'[w] = NoRun \/ run'[w].token = run[w].token)
<1> DEFINE r == run[w]
           again == [run[w] EXCEPT !.phase = "claimed", !.capability = "static_block",
                                   !.todo = <<>>, !.kind = "none", !.charge = 0]
<1>1. run[w] # NoRun
  BY DEF NoRun
<1>2. /\ run[w] \in Runs /\ RunRight(run[w]) /\ run[w].task \in Tasks
      /\ run[w].token \in 1 .. lastToken /\ run[w].todo \in Seq(Routes)
  BY <1>1, OwnRun
<1>3. /\ lastToken \in Nat /\ lastToken' \in Nat /\ browserPages \in Nat
      /\ run[w].id \in DOMAIN attempts /\ attempts[run[w].id].token = run[w].token
      /\ run[w].todo # <<>> /\ run[w].kind # "none"
  BY DEF LedgerInv, LedgerTypeOK, RunsHaveAttempts
<1>4. attempts[r.id].route = Head(r.todo)
  BY <1>1, <1>2 DEF RunRight, CallRight, InCall
<1>5. /\ attempts'[r.id].route = Head(r.todo) /\ attempts'[r.id].token = r.token
      /\ r.id \in DOMAIN attempts'
  BY <1>3, <1>4 DEF AttemptsKept
<1>6. state'[r.task] = "leased" /\ token'[r.task] = r.token =>
         /\ Fenced(r.task, r.token)
         /\ attempts'[r.id].outcome # "open"
  BY <1>2 DEF TokensKept
<1>7. ASSUME state'[r.task] = "leased", token'[r.task] = r.token,
             NEW i \in DOMAIN attempts', attempts'[i].outcome = "open"
      PROVE  attempts'[i].token # r.token
  <2>1. i \in DOMAIN attempts /\ attempts[i].outcome = "open" /\ attempts'[i].token = attempts[i].token
    BY <1>7 DEF AttemptsKept
  <2>2. attempts[i].token = r.token => i = r.id
    BY <1>1, <1>2, <1>6, <1>7, <2>1 DEF RunRight, CallRight
  <2> QED BY <1>6, <1>7, <2>1, <2>2
<1>8. r.token \in 1 .. lastToken'
  BY <1>2, <1>3 DEF TokensKept
<1>9. \/ \E v : run'[w] = Verdict(r, v)
      \/ run'[w] = NoRun
      \/ run'[w] = again /\ Provider = "auto" /\ Head(r.todo) = "local_http"
      \/ run'[w] = NextRoute(r, r.kind)
  BY DEF AfterFinish
<1>10. CASE \E v : run'[w] = Verdict(r, v)
  <2>1. PICK v : run'[w] = Verdict(run[w], v)
    BY <1>10
  <2>2. /\ run'[w].phase = "report" /\ run'[w].task = run[w].task
        /\ run'[w].token = run[w].token /\ run'[w].capability = run[w].capability
        /\ run'[w].todo = <<>>
    BY <1>2, <2>1, VerdictFields
  <2> QED BY <1>1, <1>2, <2>2, ReportRight
<1>11. CASE run'[w] = NoRun
  BY <1>11 DEF RunRight
<1>12. CASE run'[w] = again /\ Provider = "auto" /\ Head(r.todo) = "local_http"
  <2>1. /\ run'[w].phase = "claimed" /\ run'[w].task = run[w].task
        /\ run'[w].token = run[w].token /\ run'[w].capability = "static_block"
        /\ run'[w].todo = <<>>
    BY <1>2, <1>12 DEF Runs
  <2>2. CallRight(run[w])' /\ BillRight(run[w])'
    BY <1>7, <2>1 DEF CallRight, BillRight, InCall, Fenced
  <2>3. LadderRight(run[w])'
    BY <1>5, <1>6, <1>12, <2>1 DEF LadderRight, Tried, Fenced
  <2> QED BY <1>8, <2>1, <2>2, <2>3 DEF RunRight
<1>13. CASE run'[w] = NextRoute(r, r.kind)
  <2>1. /\ run'[w].phase = "route" /\ run'[w].task = run[w].task
        /\ run'[w].token = run[w].token /\ run'[w].capability = run[w].capability
        /\ run'[w].todo = Tail(run[w].todo)
    BY <1>2, <1>13 DEF Runs, NextRoute
  <2>2. CallRight(run[w])' /\ BillRight(run[w])'
    BY <1>7, <2>1 DEF CallRight, BillRight, InCall, Fenced
  <2>3. Head(run[w].todo) = "local_browser" /\ Fenced(run[w].task, run[w].token)'
        => Excused(run[w].token)'
    BY <1>5, <1>6, <2>1 DEF Excused, Tried, Fenced
  <2>4. run[w].phase \notin {"claimed", "report"} /\ browserPages <= browserPages'
    BY <1>3
  <2>5. LadderRight(run[w])'
    BY <1>1, <1>2, <1>3, <2>1, <2>3, <2>4, LadderAhead
  <2> QED BY <1>8, <2>1, <2>2, <2>5 DEF RunRight
<1> QED BY <1>9, <1>10, <1>11, <1>12, <1>13

\* finish_acquisition_attempt: converted by the run itself at its charge, settled
\* before, or turned away.
LEMMA FinishRight ==
  ASSUME LedgerInv, LedgerInv', RouterInv, AttemptsKept, NEW w \in Workers, FinishCall(w)
  PROVE  RouterInv'
<1> DEFINE r == run[w]
           id == run[w].id
<1>1. /\ run[w] # NoRun /\ run[w].phase = "finish"
      /\ health' = health /\ browserPages' = browserPages /\ billed' = billed
  BY InPhase DEF FinishCall, In
<1>2. /\ run[w] \in Runs /\ RunRight(run[w]) /\ run[w].task \in Tasks /\ run[w].charge \in Nat
      /\ run[w].token \in 1 .. lastToken /\ TokensRight /\ LeaseTyped /\ UsageInv
  BY <1>1, OwnRun DEF Runs
<1>3. /\ lastToken \in Nat /\ lastToken' \in Nat /\ browserPages \in Nat
      /\ run[w].id \in DOMAIN attempts /\ attempts[run[w].id].token = run[w].token
      /\ attempts[run[w].id].task = run[w].task
      /\ attempts \in Seq(Attempts)
  BY <1>1 DEF LedgerInv, LedgerTypeOK, RunsHaveAttempts
<1>4. run'[w] = AfterFinish(run[w]) /\ \A u \in Workers \ {w} : run'[u] = run[u]
  BY BecomeOnly DEF FinishCall
<1>5. CASE Finish(r.id, r.token, OutcomeOf(r.kind), r.charge)
  <2>1. /\ UNCHANGED <<state, token, lastToken>> /\ attempts[id].outcome = "open"
        /\ attempts' = [attempts EXCEPT ![id] = [@ EXCEPT !.outcome = OutcomeOf(r.kind),
                                                          !.charged = r.charge]]
    BY <1>5 DEF Finish, Convert, Unfinished, leaseVars
  <2>2. OutcomeOf(r.kind) # "open"
    BY DEF OutcomeOf
  <2>3. /\ DOMAIN attempts' = DOMAIN attempts
        /\ \A i \in DOMAIN attempts : i # id => attempts'[i] = attempts[i]
        /\ attempts'[id].outcome # "open" /\ attempts'[id].charged = r.charge
        /\ attempts'[id].route = attempts[id].route /\ attempts'[id].token = attempts[id].token
    <3> DEFINE a == [attempts[id] EXCEPT !.outcome = OutcomeOf(r.kind), !.charged = r.charge]
    <3>1. attempts' = [attempts EXCEPT ![id] = a]
      BY <2>1
    <3>2. attempts[id] \in Attempts
      BY <1>3
    <3>3. /\ a.outcome # "open" /\ a.charged = r.charge /\ a.route = attempts[id].route
          /\ a.token = attempts[id].token
      BY <2>2, <3>2 DEF Attempts
    <3> HIDE DEF a
    <3> QED BY <1>3, <3>1, <3>3
  <2>4. TokensKept
    BY <1>2, <1>3, <2>1 DEF TokensKept, TokensRight, Fenced, LeaseTyped
  <2>5. RunRight(run[w])' /\ (run'[w] = NoRun \/ run'[w].token = run[w].token)
    BY <1>1, <1>4, <2>3, <2>4, AfterFinishRight
  <2>6. ASSUME NEW v \in Workers \ {w} PROVE RunRight(run[v])'
    <3>1. CASE run[v] = NoRun
      BY <1>4, <3>1 DEF RunRight
    <3>2. CASE run[v] # NoRun
      <4>1. run[v].token # run[w].token
        BY <1>1, <1>2, <3>2 DEF TokensRight
      <4>2. Beside(run[v])
        BY <1>1, <1>3, <2>3, <2>4, <4>1 DEF Beside
      <4> QED BY <1>3, <1>4, <2>6, <4>2, OthersStayRight DEF RouterInv
    <3> QED BY <3>1, <3>2
  <2>7. TokensRight'
    BY <1>1, <1>2, <1>4, <2>1, <2>3, <2>5 DEF TokensRight
  <2>8. OneOpenCall'
    BY <2>3 DEF RouterInv, OneOpenCall
  <2>9. LocalComesFirst'
    <3>1. \A i \in DOMAIN attempts : \A j \in 1 .. i - 1 : j \in DOMAIN attempts
      BY <1>3
    <3> QED BY <2>3, <3>1 DEF RouterInv, LocalComesFirst
  <2>10. BillsAreCovered'
    <3>1. r.charge >= billed[id] \/ r.charge = PriceOf(attempts[id].route)
      BY <1>1, <1>2 DEF RunRight, BillRight
    <3> HIDE DEF id
    <3> QED BY <1>1, <2>3, <3>1 DEF RouterInv, BillsAreCovered, PriceOf
  <2> QED BY <2>5, <2>6, <2>7, <2>8, <2>9, <2>10 DEF RouterInv
<1>6. CASE FinishSettled(r.id, r.token) \/ TurnedAway(r.task, r.token)
  <2>1. /\ TokensKept /\ PaidInFull
        /\ \/ attempts'[run[w].id].outcome # "open"
           \/ ~(state'[run[w].task] = "leased" /\ token'[run[w].task] = run[w].token)
    <3>1. CASE FinishSettled(r.id, r.token)
      <4>1. attempts' = attempts /\ attempts[id].outcome # "open" /\ UNCHANGED ledgerVars
        BY <3>1 DEF FinishSettled, Unfinished, ledgerVars, usageVars
      <4> QED BY <1>2, <4>1, QuietFences
    <3>2. CASE TurnedAway(r.task, r.token)
      BY <1>2, <3>2, TurnedAwayFences
    <3> QED BY <1>6, <3>1, <3>2
  <2>2. Calm
    BY <1>1, <1>3, <2>1 DEF Calm
  <2>3. RunRight(run[w])' /\ (run'[w] = NoRun \/ run'[w].token = run[w].token)
    BY <1>1, <1>4, <2>1, AfterFinishRight DEF PaidInFull
  <2> QED BY <1>1, <1>4, <2>2, <2>3, CalmStep
<1> QED BY <1>5, <1>6 DEF FinishCall

\* finish_acquisition_attempt raises, or the run reports and is over.
LEMMA EndRight ==
  ASSUME LedgerInv, LedgerInv', RouterInv, AttemptsKept, NEW w \in Workers,
         FailFinish(w) \/ Report(w)
  PROVE  RouterInv'
<1>1. run[w] # NoRun /\ billed' = billed /\ browserPages' = browserPages
  BY DEF FailFinish, Report, In, NoRun
<1>2. /\ run[w] \in Runs /\ run[w].task \in Tasks /\ TokensRight /\ LeaseTyped /\ UsageInv
  BY <1>1, OwnRun
<1>3. browserPages \in Nat /\ health \in [Providers -> {"configured", "disabled", "unhealthy"}]
  BY DEF LedgerInv, LedgerTypeOK
<1>4. CASE FailFinish(w)
  <2>1. TokensKept /\ PaidInFull
    BY <1>2, <1>4, QuietFences DEF FailFinish, FinishOverspent
  <2>2. health'["local"] = "configured" => health["local"] = "configured"
    <3>1. health' = [health EXCEPT ![ProviderOf[Head(run[w].todo)]] = "unhealthy"]
      BY <1>4 DEF FailFinish
    <3> QED BY <1>3, <3>1 DEF Providers
  <2>3. Calm
    BY <1>1, <1>3, <2>1, <2>2 DEF Calm
  <2> QED BY <1>1, <1>4, <2>3, VerdictStep DEF FailFinish
<1>5. CASE Report(w)
  <2>1. TokensKept /\ PaidInFull
    <3> DEFINE to == IF run[w].verdict = "retry" THEN RetryState(run[w].task) ELSE "ended"
    <3>1. CASE Release(run[w].task, to) /\ UNCHANGED usageVars
      <4>1. to \in {"queued", "ended"}
        BY DEF RetryState
      <4> HIDE DEF to
      <4>2. TokensKept
        BY <1>2, <3>1, <4>1, ReleaseFences
      <4> QED BY <3>1, <4>2 DEF PaidInFull, usageVars
    <3>2. CASE TurnedAway(run[w].task, run[w].token)
      BY <1>2, <3>2, TurnedAwayFences
    <3> QED BY <1>5, <3>1, <3>2 DEF Report
  <2>2. Calm
    BY <1>1, <1>3, <1>5, <2>1 DEF Calm, Report
  <2> QED BY <1>5, <2>2, GoneStep DEF Report
<1> QED BY <1>4, <1>5

\* Heartbeats, the clock, draining, cancellation and the maintenance loop.
LEMMA BesideRight ==
  ASSUME LedgerInv, LedgerInv', RouterInv, AttemptsKept,
         (\E w \in Workers : Heartbeat(w)) \/ LeaseStep \/ ReconcileStep
  PROVE  RouterInv'
<1>1. UNCHANGED <<run, health, browserPages, billed>> /\ browserPages \in Nat
  BY DEF Heartbeat, LeaseStep, ReconcileStep, LedgerInv, LedgerTypeOK
<1>2. LeaseTyped /\ UsageInv /\ TokensRight
  BY InvParts DEF RouterInv
<1>3. TokensKept /\ PaidInFull
  <2>1. ASSUME NEW w \in Workers, Heartbeat(w) PROVE TokensKept /\ PaidInFull
    <3>1. run[w].task \in Tasks /\ run[w].token \in Nat
      <4>1. run[w] # NoRun
        BY <2>1 DEF Heartbeat
      <4> QED BY <4>1, OwnRun DEF Runs
    <3> QED BY <1>2, <2>1, <3>1, LeaseFences, RejectFences DEF Heartbeat
  <2>2. CASE LeaseStep
    BY <1>2, <2>2, LeaseFences DEF LeaseStep
  <2>3. CASE ReconcileStep
    BY <1>2, <2>3, ReconcileFences DEF ReconcileStep
  <2> QED BY <2>1, <2>2, <2>3
<1>4. Calm
  BY <1>1, <1>3 DEF Calm
<1> QED BY <1>1, <1>4, CalmElsewhere

\* A restart: the rows stay and no run is left.
LEMMA RestartRight ==
  ASSUME LedgerInv, LedgerInv', RouterInv, AttemptsKept, Restart
  PROVE  RouterInv'
<1>1. \A w \in Workers : run'[w] = NoRun
  BY DEF Restart
<1>2. LeaseTyped /\ TokensRight /\ UNCHANGED ledgerVars /\ billed' = billed /\ lastToken' \in Nat
  BY InvParts DEF RouterInv, Restart, LedgerInv, LedgerTypeOK
<1>3. TokensKept /\ PaidInFull
  BY <1>2, QuietFences
<1>4. ASSUME NEW w \in Workers PROVE RunRight(run[w])'
  BY <1>1 DEF RunRight
<1> QED BY <1>1, <1>2, <1>3, <1>4, RowsStayRight DEF RouterInv, TokensRight

-----------------------------------------------------------------------------
\* Before the first claim there is neither a run nor a call.
LEMMA RouterInvInit == Init => RouterInv
<1> SUFFICES ASSUME Init PROVE RouterInv
  OBVIOUS
<1>1. /\ DOMAIN attempts = {} /\ lastToken = 0 /\ \A t \in Tasks : token[t] = 0
      /\ \A w \in Workers : run[w] = NoRun
  BY DEF Init, LedgerInit
<1>2. TokensRight /\ \A w \in Workers : RunRight(run[w])
  BY <1>1 DEF TokensRight, RunRight
<1> QED BY <1>1, <1>2 DEF RouterInv, OneOpenCall, LocalComesFirst, BillsAreCovered

\* Every step keeps it.
LEMMA RouterInvStep ==
  ASSUME LedgerInv, RouterInv, [Next]_vars
  PROVE  RouterInv'
<1>1. LedgerInv' /\ AttemptsKept
  BY LedgerInvStep
<1>2. CASE UNCHANGED vars
  <2>1. UNCHANGED <<ledgerVars, health, browserPages, billed>> /\ run' = run
    BY <1>2 DEF vars
  <2> QED BY <1>1, <2>1, QuietIsCalm, CalmElsewhere
<1>3. ASSUME NEW w \in Workers, RunStep(w) PROVE RouterInv'
  <2>1. ASSUME NEW t \in Tasks, ClaimTask(w, t) PROVE RouterInv'
    BY <1>1, <2>1, ClaimRight
  <2>2. CASE RefuseTarget(w) \/ GiveUp(w)
    <3>1. run[w] # NoRun /\ Calm
      BY <2>2, QuietIsCalm DEF RefuseTarget, GiveUp, In, NoRun
    <3>2. \E v : Become(w, Verdict(run[w], v))
      BY <2>2 DEF RefuseTarget, GiveUp, Unavailable
    <3> QED BY <1>1, <3>1, <3>2, VerdictStep
  <2>3. CASE BeginAcquire(w)
    BY <1>1, <2>3, BeginRight
  <2>4. CASE SelectRoute(w)
    BY <1>1, <2>4, SelectRight
  <2>5. CASE SelectBrowser(w)
    BY <1>1, <2>5, BrowserRight
  <2>6. CASE ReserveCall(w)
    BY <1>1, <2>6, ReserveRight
  <2>7. CASE StartNavigation(w)
    BY <1>1, <2>7, NavigateRight
  <2>8. CASE FinishCall(w)
    BY <1>1, <2>8, FinishRight
  <2>9. CASE FailFinish(w) \/ Report(w)
    BY <1>1, <2>9, EndRight
  <2>10. ASSUME NEW kind \in Kinds, NEW bill, Answer(w, kind, bill) PROVE RouterInv'
    BY <1>1, <2>10, AnswerRight
  <2>11. CASE Heartbeat(w)
    BY <1>1, <2>11, BesideRight
  <2>12. CASE CancelRun(w)
    <3>1. Calm /\ Become(w, NoRun)
      BY <2>12, QuietIsCalm DEF CancelRun
    <3> QED BY <1>1, <3>1, GoneStep
  <2> QED BY <1>3, <2>1, <2>2, <2>3, <2>4, <2>5, <2>6, <2>7, <2>8, <2>9, <2>10, <2>11, <2>12
          DEF RunStep
<1>4. CASE LeaseStep \/ ReconcileStep
  BY <1>1, <1>4, BesideRight
<1>5. CASE Restart
  BY <1>1, <1>5, RestartRight
<1> QED BY <1>2, <1>3, <1>4, <1>5 DEF Next

\* The inductive invariant of the ladder: what a run has done is what the rows
\* say, as long as its lease is fenced.
THEOREM RouterInvariant == Spec => [](LedgerInv /\ RouterInv)
<1>1. Init => LedgerInv /\ RouterInv
  BY LedgerInvInit, RouterInvInit
<1>2. (LedgerInv /\ RouterInv) /\ [Next]_vars => (LedgerInv /\ RouterInv)'
  BY LedgerInvStep, RouterInvStep
<1> QED BY <1>1, <1>2, PTL DEF Spec

\* What one page may cost, whatever workers, cancellations, reaping and restarts
\* do: the caps, one call at a time under a lease, the free route before the paid
\* one, and no settled call below its bill.
THEOREM RoutesAreRight == Spec => []RouteInv
<1>1. LedgerInv /\ RouterInv => RouteInv
  BY DEF LedgerInv, RouterInv, RouteInv
<1> QED BY <1>1, RouterInvariant, PTL

\* Firecrawl renders a page only after the browser of the same lease, or when
\* there is no browser to be had.
THEOREM FirecrawlComesLast == Spec => BrowserComesFirst
<1> DEFINE Late ==
      \A i \in DOMAIN attempts' :
          /\ Provider = "auto" /\ i \notin DOMAIN attempts
          /\ attempts'[i].route = "firecrawl_scrape"
          => \/ browserPages >= MaxBrowserPages \/ health["local"] # "configured"
             \/ "local_browser" \notin ServedRoutes
             \/ \E j \in DOMAIN attempts :
                   /\ attempts[j].route = "local_browser"
                   /\ attempts[j].token = attempts'[i].token
                   /\ attempts[j].outcome # "open"
<1>1. ASSUME LedgerInv, RouterInv, [Next]_vars PROVE Late
  <2>1. CASE DOMAIN attempts' = DOMAIN attempts
    BY <2>1
  <2>2. ASSUME NEW w \in Workers, ReserveCall(w), DOMAIN attempts' # DOMAIN attempts
        PROVE  Late
    <3>1. run[w] # NoRun /\ run[w].phase = "reserve"
      BY <2>2, InPhase DEF ReserveCall, In
    <3>2. /\ run[w] \in Runs /\ RunRight(run[w]) /\ run[w].task \in Tasks
          /\ run[w].todo \in Seq(Routes) /\ TokensRight /\ LeaseTyped /\ UsageInv
      BY <1>1, <3>1, OwnRun
    <3>3. run[w].todo # <<>> /\ attempts \in Seq(Attempts)
      BY <1>1, <3>1 DEF LedgerInv, LedgerTypeOK, RunsHaveAttempts
    <3>4. ReserveAttempt(run[w].task, run[w].token, Head(run[w].todo))
      <4>1. UNCHANGED ledgerVars => DOMAIN attempts' = DOMAIN attempts
        BY DEF ledgerVars, usageVars
      <4>2. TurnedAway(run[w].task, run[w].token) => DOMAIN attempts' = DOMAIN attempts
        BY <3>2, TurnedAwayFences DEF PaidInFull
      <4> QED BY <2>2, <4>1, <4>2 DEF ReserveCall
    <3>5. ASSUME Provider = "auto", NEW i \in DOMAIN attempts', i \notin DOMAIN attempts,
                 attempts'[i].route = "firecrawl_scrape"
          PROVE  Excused(attempts'[i].token)
      <4>1. attempts'[i].route = Head(run[w].todo) /\ attempts'[i].token = run[w].token
        BY <3>3, <3>4, <3>5 DEF ReserveAttempt
      <4>2. 1 \in DOMAIN run[w].todo /\ run[w].todo[1] = "firecrawl_scrape"
        BY <3>2, <3>3, <3>5, <4>1
      <4>3. Fenced(run[w].task, run[w].token)
        BY <3>4 DEF ReserveAttempt
      <4> QED BY <3>1, <3>2, <3>5, <4>1, <4>2, <4>3 DEF RunRight, LadderRight
    <3> QED BY <3>5 DEF Excused, Tried
  <2>3. DOMAIN attempts' = DOMAIN attempts \/ \E w \in Workers : ReserveCall(w)
    <3>1. ASSUME NEW w \in Workers, RunStep(w), ~ReserveCall(w)
          PROVE  DOMAIN attempts' = DOMAIN attempts
      BY <1>1, <3>1, ClaimStep, LocalSteps, BrowserSteps, FinishSteps, AnswerStep, ReportStep,
         HeartbeatStep DEF RunStep, LedgerKept
    <3>2. UNCHANGED vars => DOMAIN attempts' = DOMAIN attempts
      BY DEF vars, ledgerVars, usageVars
    <3> QED BY <1>1, <3>1, <3>2, ElsewhereSteps, RestartStep DEF Next, LedgerKept
  <2> QED BY <2>1, <2>2, <2>3
<1>2. LedgerInv /\ RouterInv /\ [Next]_vars => [Late]_vars
  BY <1>1
<1> QED BY <1>2, RouterInvariant, PTL DEF Spec, BrowserComesFirst

-----------------------------------------------------------------------------
(* Sums.                                                                     *)

\* The naturals are the least set with 0 that is closed under successor.
LEMMA NatSetInduction ==
  ASSUME NEW S \in SUBSET Nat, 0 \in S, \A n \in S : n + 1 \in S
  PROVE  S = Nat
<1> DEFINE R == OpToRel(<, Nat)
<1>1. IsWellFoundedOn(R, Nat)
  BY NatLessThanWellFounded
<1>2. \A x, y \in Nat : x < y => <<x, y>> \in R
  BY DEF OpToRel
<1> HIDE DEF R
<1>3. SUFFICES ASSUME Nat \ S # {} PROVE FALSE
  OBVIOUS
<1>4. PICK x \in Nat \ S : \A y \in Nat \ S : ~(<<y, x>> \in R)
  BY <1>1, <1>3, WFMin
<1>5. x # 0 /\ x - 1 \in Nat /\ x - 1 < x
  OBVIOUS
<1>6. x - 1 \in S
  BY <1>2, <1>4, <1>5
<1> QED BY <1>4, <1>5, <1>6

\* A loop of N rounds, whose body is the function G, has a value in every round.
Loop(f, T, base, G, N) ==
    f \in [0 .. N -> T] /\ f[0] = base /\ \A n \in 0 .. N : n # 0 => f[n] = G[n][f[n - 1]]

LEMMA LoopExists ==
  ASSUME NEW T, NEW base \in T, NEW G \in [Nat -> [T -> T]], NEW N \in Nat
  PROVE  \E f : Loop(f, T, base, G, N)
<1> DEFINE Ok(m, f) == f[0] = base /\ \A n \in 0 .. m : n # 0 => f[n] = G[n][f[n - 1]]
           S == {m \in Nat : \E f \in [0 .. m -> T] : Ok(m, f)}
<1>1. 0 \in S
  <2>1. [n \in 0 .. 0 |-> base] \in [0 .. 0 -> T] /\ Ok(0, [n \in 0 .. 0 |-> base])
    OBVIOUS
  <2> QED BY <2>1
<1>2. ASSUME NEW m \in S PROVE m + 1 \in S
  <2>0. m \in Nat /\ m \in 0 .. m /\ m + 1 \in 0 .. m + 1 /\ m # m + 1
    OBVIOUS
  <2>1. PICK f \in [0 .. m -> T] : Ok(m, f)
    OBVIOUS
  <2> DEFINE g == [n \in 0 .. m + 1 |-> IF n = m + 1 THEN G[m + 1][f[m]] ELSE f[n]]
  <2>2. g \in [0 .. m + 1 -> T]
    OBVIOUS
  <2>3. \A n \in 0 .. m : g[n] = f[n]
    OBVIOUS
  <2>4. g[m + 1] = G[m + 1][g[m]]
    <3>1. g[m + 1] = G[m + 1][f[m]]
      BY <2>0
    <3>2. g[m] = f[m]
      BY <2>0, <2>3
    <3> QED BY <3>1, <3>2
  <2>5. ASSUME NEW n \in 0 .. m + 1, n # 0 PROVE g[n] = G[n][g[n - 1]]
    <3>1. CASE n = m + 1
      BY <2>4, <3>1
    <3>2. CASE n \in 0 .. m
      <4>1. g[n] = f[n] /\ g[n - 1] = f[n - 1]
        BY <2>3, <2>5, <3>2
      <4> QED BY <2>1, <2>5, <3>2, <4>1
    <3> QED BY <3>1, <3>2
  <2>6. g[0] = base
    BY <2>1, <2>3
  <2> HIDE DEF g
  <2>7. Ok(m + 1, g)
    BY <2>5, <2>6
  <2>8. m + 1 \in Nat
    BY <2>0
  <2> HIDE DEF Ok
  <2> QED BY <2>2, <2>7, <2>8
<1> HIDE DEF S
<1>3. S = Nat
  BY <1>1, <1>2, NatSetInduction DEF S
<1> QED BY <1>3 DEF S, Loop

\* f holds what the first elements of s add up to.
Adds(f, s) ==
    /\ f \in [0 .. Len(s) -> Nat] /\ f[0] = 0
    /\ \A n \in 1 .. Len(s) : f[n] = f[n - 1] + s[n]

\* Every sequence of naturals can be added up.
LEMMA AddsExist ==
  ASSUME NEW s \in Seq(Nat)
  PROVE  \E f : Adds(f, s)
<1> DEFINE L == Len(s)
           G == [n \in Nat |-> [x \in Nat |-> IF n \in 1 .. L THEN x + s[n] ELSE x]]
<1>1. L \in Nat /\ 0 \in Nat /\ \A n \in 1 .. L : s[n] \in Nat
  OBVIOUS
<1>2. G \in [Nat -> [Nat -> Nat]]
  BY <1>1
<1>3. \A x \in Nat, n \in 1 .. L : n \in Nat /\ G[n][x] = x + s[n]
  BY <1>1
<1> HIDE DEF G
<1>4. \E f : Loop(f, Nat, 0, G, L)
  BY <1>1, <1>2, LoopExists
<1>5. PICK f \in [0 .. L -> Nat] : f[0] = 0 /\ \A n \in 0 .. L : n # 0 => f[n] = G[n][f[n - 1]]
  BY <1>4 DEF Loop
<1>6. ASSUME NEW n \in 1 .. L PROVE f[n] = f[n - 1] + s[n]
  <2>1. n \in 0 .. L /\ n # 0 /\ n - 1 \in 0 .. L
    BY <1>1
  <2>2. f[n - 1] \in Nat
    BY <2>1
  <2> QED BY <1>3, <1>5, <2>1, <2>2
<1> QED BY <1>5, <1>6 DEF Adds

\* There is one way to add a sequence up, and Total takes its last value.
LEMMA TotalIs ==
  ASSUME NEW s \in Seq(Nat), NEW f, Adds(f, s)
  PROVE  Total(s) = f[Len(s)] /\ Total(s) \in Nat
<1> DEFINE L == Len(s)
           Sums(g) == g = [n \in 0 .. L |-> IF n = 0 THEN 0 ELSE g[n - 1] + s[n]]
           h == CHOOSE g : Sums(g)
<1>0. L \in Nat
  OBVIOUS
<1>1. Total(s) = h[L]
  BY DEF Total
<1>2. Sums(f)
  <2>1. f \in [0 .. L -> Nat] /\ f[0] = 0 /\ \A n \in 1 .. L : f[n] = f[n - 1] + s[n]
    BY DEF Adds
  <2>2. ASSUME NEW n \in 0 .. L PROVE f[n] = IF n = 0 THEN 0 ELSE f[n - 1] + s[n]
    <3>1. n = 0 \/ n \in 1 .. L
      BY <1>0
    <3> QED BY <2>1, <3>1
  <2> QED BY <2>1, <2>2
<1>3. Sums(h)
  BY <1>2
<1> HIDE DEF h
<1>4. h[0] = 0 /\ \A n \in 1 .. L : h[n] = h[n - 1] + s[n]
  <2>1. 0 \in 0 .. L /\ \A n \in 1 .. L : n \in 0 .. L /\ n # 0
    BY <1>0
  <2> QED BY <1>3, <2>1
<1> HIDE DEF Sums
<1> DEFINE S == {n \in Nat : n <= L => h[n] = f[n]}
<1>5. 0 \in S
  BY <1>4 DEF Adds
<1>6. ASSUME NEW n \in S PROVE n + 1 \in S
  <2> SUFFICES ASSUME n + 1 <= L PROVE h[n + 1] = f[n + 1]
    OBVIOUS
  <2>1. n \in Nat /\ n + 1 \in 1 .. L /\ (n + 1) - 1 = n /\ h[n] = f[n]
    BY <1>0
  <2> QED BY <1>4, <2>1 DEF Adds
<1>7. S = Nat
  <2>1. S \in SUBSET Nat
    OBVIOUS
  <2> HIDE DEF S
  <2> QED BY <1>5, <1>6, <2>1, NatSetInduction
<1>8. h[L] = f[L]
  BY <1>0, <1>7
<1>9. f[L] \in Nat
  BY <1>0 DEF Adds
<1> QED BY <1>1, <1>8, <1>9

\* One more element.
LEMMA TotalAppend ==
  ASSUME NEW s \in Seq(Nat), NEW x \in Nat
  PROVE  Total(Append(s, x)) = Total(s) + x
<1> DEFINE L == Len(s)
           t == Append(s, x)
<1>1. PICK f : Adds(f, s)
  BY AddsExist
<1> DEFINE g == [n \in 0 .. L + 1 |-> IF n = L + 1 THEN f[L] + x ELSE f[n]]
<1>2. L \in Nat /\ t \in Seq(Nat) /\ Len(t) = L + 1 /\ t[L + 1] = x /\ \A n \in 1 .. L : t[n] = s[n]
  OBVIOUS
<1>3. f \in [0 .. L -> Nat] /\ f[0] = 0 /\ \A n \in 1 .. L : f[n] = f[n - 1] + s[n]
  BY <1>1 DEF Adds
<1> HIDE DEF t, L
<1>4. g \in [0 .. L + 1 -> Nat] /\ g[0] = 0 /\ g[L + 1] = f[L] + x /\ \A n \in 0 .. L : g[n] = f[n]
  BY <1>2, <1>3
<1> HIDE DEF g
<1>5. ASSUME NEW n \in 1 .. L + 1 PROVE g[n] = g[n - 1] + t[n]
  <2>1. CASE n = L + 1
    <3>1. n - 1 = L /\ L \in 0 .. L
      BY <1>2, <2>1
    <3> QED BY <1>2, <1>4, <2>1, <3>1
  <2>2. CASE n # L + 1
    <3>1. n \in 1 .. L /\ n \in 0 .. L /\ n - 1 \in 0 .. L
      BY <1>2, <2>2
    <3> QED BY <1>2, <1>3, <1>4, <3>1
  <2> QED BY <2>1, <2>2
<1>6. Adds(g, t)
  BY <1>2, <1>4, <1>5 DEF Adds
<1>7. Total(t) = g[L + 1]
  BY <1>2, <1>6, TotalIs
<1>8. Total(s) = f[L]
  BY <1>1, TotalIs DEF L
<1> QED BY <1>4, <1>7, <1>8 DEF t

\* Some elements, T, grow by c.
Grown(s, t, T, c) ==
    /\ t \in Seq(Nat) /\ Len(t) = Len(s)
    /\ \A n \in 1 .. Len(s) : t[n] = IF n \in T THEN s[n] + c ELSE s[n]

LEMMA TotalGrows ==
  ASSUME NEW s \in Seq(Nat), NEW t, NEW T \in SUBSET (1 .. Len(s)), NEW c \in Nat, Grown(s, t, T, c)
  PROVE  Total(t) = Total(s) + c * Cardinality(T)
<1> DEFINE L == Len(s)
           U(n) == T \cap (1 .. n)
<1>0. /\ L \in Nat /\ t \in Seq(Nat) /\ Len(t) = L /\ \A n \in 1 .. L : s[n] \in Nat
      /\ \A n \in 1 .. L : t[n] = IF n \in T THEN s[n] + c ELSE s[n]
      /\ T \subseteq 1 .. L
  BY DEF Grown
<1>1. PICK f : Adds(f, s)
  BY AddsExist
<1>2. PICK g : Adds(g, t)
  BY <1>0, AddsExist
<1> HIDE DEF L
<1>3. f \in [0 .. L -> Nat] /\ f[0] = 0 /\ \A n \in 1 .. L : f[n] = f[n - 1] + s[n]
  BY <1>1 DEF Adds, L
<1>4. g \in [0 .. L -> Nat] /\ g[0] = 0 /\ \A n \in 1 .. L : g[n] = g[n - 1] + t[n]
  BY <1>0, <1>2 DEF Adds
<1>5. \A n \in Nat : IsFiniteSet(U(n)) /\ Cardinality(U(n)) \in Nat
  <2> TAKE n \in Nat
  <2>1. IsFiniteSet(1 .. n) /\ U(n) \subseteq 1 .. n
    BY FS_Interval
  <2> HIDE DEF U
  <2> QED BY <2>1, FS_Subset, FS_CardinalityType
<1>6. ASSUME NEW n \in Nat PROVE U(n + 1) = IF n + 1 \in T THEN U(n) \cup {n + 1} ELSE U(n)
  <2>1. \A i : i \in 1 .. n + 1 <=> i \in 1 .. n \/ i = n + 1
    OBVIOUS
  <2> QED BY <2>1
<1>6a. \A n \in Nat : n + 1 \notin U(n)
  OBVIOUS
<1>7. U(0) = {} /\ U(L) = T
  <2>1. 1 .. 0 = {}
    OBVIOUS
  <2> QED BY <1>0, <2>1
<1> HIDE DEF U
<1> DEFINE S == {n \in Nat : n <= L => g[n] = f[n] + c * Cardinality(U(n))}
<1>8. 0 \in S
  <2>1. Cardinality(U(0)) = 0
    BY <1>7, FS_EmptySet
  <2>2. c * 0 = 0
    OBVIOUS
  <2> QED BY <1>3, <1>4, <2>1, <2>2
<1>9. ASSUME NEW n \in S PROVE n + 1 \in S
  <2> SUFFICES ASSUME n + 1 <= L PROVE g[n + 1] = f[n + 1] + c * Cardinality(U(n + 1))
    OBVIOUS
  <2>1. /\ n \in Nat /\ n + 1 \in 1 .. L /\ (n + 1) - 1 = n /\ n \in 0 .. L
        /\ g[n] = f[n] + c * Cardinality(U(n))
    BY <1>0
  <2>2. g[n + 1] = g[n] + t[n + 1] /\ f[n + 1] = f[n] + s[n + 1] /\ f[n] \in Nat /\ g[n] \in Nat
        /\ s[n + 1] \in Nat /\ t[n + 1] = IF n + 1 \in T THEN s[n + 1] + c ELSE s[n + 1]
    BY <1>0, <1>3, <1>4, <2>1
  <2>3. CASE n + 1 \in T
    <3>1. Cardinality(U(n + 1)) = Cardinality(U(n)) + 1
      <4>1. U(n + 1) = U(n) \cup {n + 1} /\ n + 1 \notin U(n) /\ IsFiniteSet(U(n))
        BY <1>5, <1>6, <1>6a, <2>1, <2>3
      <4> QED BY <4>1, OneMore, Zenon
    <3>2. Cardinality(U(n)) \in Nat
      BY <1>5, <2>1
    <3>3. c * (Cardinality(U(n)) + 1) = c * Cardinality(U(n)) + c * 1 /\ c * 1 = c
          /\ c * Cardinality(U(n)) \in Nat
      BY <3>2, Distribute
    <3> QED BY <2>1, <2>2, <2>3, <3>1, <3>3
  <2>4. CASE n + 1 \notin T
    <3>1. U(n + 1) = U(n)
      BY <1>6, <2>1, <2>4
    <3>2. Cardinality(U(n)) \in Nat
      BY <1>5, <2>1
    <3>3. c * Cardinality(U(n)) \in Nat
      BY <3>2, Distribute
    <3> QED BY <2>1, <2>2, <2>4, <3>1, <3>3
  <2> QED BY <2>3, <2>4
<1>10. S = Nat
  <2>1. S \in SUBSET Nat
    OBVIOUS
  <2> HIDE DEF S
  <2> QED BY <1>8, <1>9, <2>1, NatSetInduction
<1>11. g[L] = f[L] + c * Cardinality(T)
  <2>1. L \in S
    BY <1>0, <1>10
  <2>2. g[L] = f[L] + c * Cardinality(U(L))
    BY <1>0, <2>1
  <2> QED BY <1>7, <2>2
<1>12. Total(s) = f[L] /\ Total(t) = g[L]
  <2>1. Total(s) = f[L]
    BY <1>1, TotalIs DEF L
  <2>2. Total(t) = g[L]
    BY <1>0, <1>2, TotalIs
  <2> QED BY <2>1, <2>2
<1> QED BY <1>11, <1>12

-----------------------------------------------------------------------------
(* What the attempts were charged.                                           *)

OpenCalls == {i \in DOMAIN attempts : attempts[i].outcome = "open"}

\* A call that is not settled has not been charged.
OpenIsFree == \A i \in DOMAIN attempts : attempts[i].outcome = "open" => attempts[i].charged = 0

\* All that a step may do to the usage rows.
UsageStep ==
    \/ UNCHANGED usageVars
    \/ \E S \in SUBSET OpenCalls : Settle(S)
    \/ \E t \in Tasks, k \in Nat, route \in Routes : ReserveAttempt(t, k, route)
    \/ \E i \in OpenCalls, outcome \in Outcomes \ {"open"}, charge \in Nat : Convert(i, outcome, charge)

\* A holder that is turned away.
LEMMA TurnedAwayUsage ==
  ASSUME NEW t, NEW k, TurnedAway(t, k)
  PROVE  UsageStep
<1>1. CASE UNCHANGED ledgerVars
  BY <1>1 DEF ledgerVars, UsageStep
<1>2. CASE Reject(t)
  BY <1>2 DEF Reject, OpenOf, OpenCalls, UsageStep
<1> QED BY <1>1, <1>2 DEF TurnedAway

\* The end of a call.
LEMMA FinishUsage ==
  ASSUME LedgerInv, NEW w \in Workers, FinishCall(w)
  PROVE  UsageStep
<1>1. run[w].phase = "finish"
  BY DEF FinishCall, In
<1>2. run[w] \in Runs /\ run[w].id \in DOMAIN attempts
  BY <1>1, InvParts, RunOf DEF RunsHaveAttempts
<1>3. run[w].charge \in Nat
  BY <1>2 DEF Runs
<1>4. CASE Finish(run[w].id, run[w].token, OutcomeOf(run[w].kind), run[w].charge)
  <2>1. OutcomeOf(run[w].kind) \in Outcomes \ {"open"}
    BY DEF OutcomeOf, Outcomes
  <2>2. run[w].id \in OpenCalls /\ Convert(run[w].id, OutcomeOf(run[w].kind), run[w].charge)
    BY <1>2, <1>4 DEF Finish, Unfinished, OpenCalls
  <2> QED BY <1>3, <2>1, <2>2 DEF UsageStep
<1>5. CASE FinishSettled(run[w].id, run[w].token)
  BY <1>5 DEF FinishSettled, ledgerVars, UsageStep
<1>6. CASE TurnedAway(run[w].task, run[w].token)
  BY <1>6, TurnedAwayUsage
<1> QED BY <1>4, <1>5, <1>6 DEF FinishCall

\* Every step of the specification is one of these.
LEMMA UsageSteps ==
  ASSUME LedgerInv, [Next]_vars
  PROVE  UsageStep
<1>1. CASE UNCHANGED vars
  BY <1>1 DEF vars, ledgerVars, UsageStep
<1>2. ASSUME NEW w \in Workers, RunStep(w) PROVE UsageStep
  <2>1. CASE \/ RefuseTarget(w) \/ BeginAcquire(w) \/ SelectRoute(w) \/ GiveUp(w) \/ CancelRun(w)
             \/ \E kind, bill : Answer(w, kind, bill)
    BY <2>1 DEF RefuseTarget, BeginAcquire, SelectRoute, GiveUp, CancelRun, Answer, ledgerVars, UsageStep
  <2>2. CASE \E t \in Tasks : ClaimTask(w, t)
    BY <2>2 DEF ClaimTask, Claim, UsageStep
  <2>3. CASE SelectBrowser(w) \/ StartNavigation(w)
    <3>1. NavigationGranted(run[w]) \/ NavigationRefused(run[w])
      BY <2>3 DEF SelectBrowser, StartNavigation
    <3>2. UNCHANGED ledgerVars \/ TurnedAway(run[w].task, run[w].token)
      BY <3>1 DEF NavigationGranted, NavigationRefused
    <3> QED BY <3>2, TurnedAwayUsage DEF ledgerVars, UsageStep
  <2>4. CASE ReserveCall(w)
    <3>1. run[w] \in Runs /\ run[w].todo # <<>>
      BY <2>4, InvParts, RunOf DEF ReserveCall, In, RunsHaveAttempts
    <3>2. run[w].task \in Tasks /\ run[w].token \in Nat /\ Head(run[w].todo) \in Routes
      BY <3>1 DEF Runs
    <3>3. \/ ReserveAttempt(run[w].task, run[w].token, Head(run[w].todo))
          \/ UNCHANGED ledgerVars \/ TurnedAway(run[w].task, run[w].token)
      BY <2>4 DEF ReserveCall
    <3> QED BY <3>2, <3>3, TurnedAwayUsage DEF ledgerVars, UsageStep
  <2>5. CASE FinishCall(w)
    BY <2>5, FinishUsage
  <2>6. CASE FailFinish(w)
    BY <2>6 DEF FailFinish, FinishOverspent, ledgerVars, UsageStep
  <2>7. CASE Report(w)
    BY <2>7, TurnedAwayUsage DEF Report, UsageStep
  <2>8. CASE Heartbeat(w)
    BY <2>8 DEF Heartbeat, Renew, Reject, OpenOf, OpenCalls, UsageStep
  <2> QED BY <1>2, <2>1, <2>2, <2>3, <2>4, <2>5, <2>6, <2>7, <2>8 DEF RunStep
<1>3. CASE LeaseStep
  BY <1>3 DEF LeaseStep, RunLate, Drain, PassDeadline, UsageStep
<1>4. CASE ReconcileStep
  BY <1>4 DEF ReconcileStep, RequestCancel, ReconcileElsewhere, ReapSome, Reap, Abandoned, OpenCalls, UsageStep
<1>5. CASE Restart
  BY <1>5 DEF Restart, ledgerVars, UsageStep
<1> QED BY <1>1, <1>2, <1>3, <1>4, <1>5 DEF Next

\* The columns of a row.
LEMMA RowsTyped ==
  ASSUME NEW a \in Seq(Attempts)
  PROVE  /\ Len(a) \in Nat /\ DOMAIN a = 1 .. Len(a)
         /\ \A i \in 1 .. Len(a) : a[i].charged \in Nat
<1>1. Len(a) \in Nat /\ DOMAIN a = 1 .. Len(a) /\ \A i \in 1 .. Len(a) : a[i] \in Attempts
  OBVIOUS
<1>2. \A r \in Attempts : r.charged \in Nat
  BY DEF Attempts
<1> QED BY <1>1, <1>2

\* The charges of a provider are a sequence of numbers.
LEMMA ChargesTyped ==
  ASSUME attempts \in Seq(Attempts), NEW p
  PROVE  /\ ChargesTo(p) \in Seq(Nat) /\ Len(ChargesTo(p)) = Len(attempts)
         /\ \A i \in 1 .. Len(attempts) :
               ChargesTo(p)[i] = IF ProviderOf[attempts[i].route] = p THEN attempts[i].charged ELSE 0
<1>1. Len(attempts) \in Nat /\ DOMAIN attempts = 1 .. Len(attempts)
      /\ \A i \in 1 .. Len(attempts) : attempts[i].charged \in Nat
  BY RowsTyped
<1>2. ChargesTo(p) \in [1 .. Len(attempts) -> Nat]
  BY <1>1 DEF ChargesTo
<1> QED BY <1>1, <1>2 DEF ChargesTo

\* The rows T, all of provider p, are charged c for the first time.
LEMMA ChargesGrow ==
  ASSUME attempts \in Seq(Attempts), attempts' \in Seq(Attempts), Len(attempts') = Len(attempts),
         AttemptsKept, NEW p, NEW T \in SUBSET DOMAIN attempts, NEW c \in Nat,
         \A i \in T : /\ ProviderOf[attempts[i].route] = p
                      /\ attempts[i].charged = 0 /\ attempts'[i].charged = c,
         \A i \in DOMAIN attempts \ T :
             ProviderOf[attempts[i].route] = p => attempts'[i].charged = attempts[i].charged
  PROVE  Total(ChargesTo(p)') = Total(ChargesTo(p)) + c * Cardinality(T)
<1> DEFINE s == ChargesTo(p)
           t == ChargesTo(p)'
<1>1. /\ Len(attempts) \in Nat /\ DOMAIN attempts = 1 .. Len(attempts)
      /\ \A i \in 1 .. Len(attempts) : attempts[i].charged \in Nat
  BY RowsTyped
<1>2. /\ s \in Seq(Nat) /\ Len(s) = Len(attempts)
      /\ \A i \in 1 .. Len(attempts) :
            s[i] = IF ProviderOf[attempts[i].route] = p THEN attempts[i].charged ELSE 0
  BY ChargesTyped
<1>3. /\ t \in Seq(Nat) /\ Len(t) = Len(attempts)
      /\ \A i \in 1 .. Len(attempts) :
            t[i] = IF ProviderOf[attempts'[i].route] = p THEN attempts'[i].charged ELSE 0
  <2>1. /\ Len(attempts') \in Nat /\ DOMAIN attempts' = 1 .. Len(attempts')
        /\ \A i \in 1 .. Len(attempts') : attempts'[i].charged \in Nat
    BY RowsTyped
  <2>2. t = [i \in DOMAIN attempts' |-> IF ProviderOf[attempts'[i].route] = p THEN attempts'[i].charged ELSE 0]
    BY DEF ChargesTo
  <2>3. t \in [1 .. Len(attempts) -> Nat]
    BY <2>1, <2>2
  <2> HIDE DEF t
  <2>4. t \in Seq(Nat) /\ Len(t) = Len(attempts)
    BY <1>1, <2>3
  <2> QED BY <2>1, <2>2, <2>4
<1>4. \A i \in 1 .. Len(attempts) : attempts'[i].route = attempts[i].route
  BY <1>1 DEF AttemptsKept
<1>5. T \subseteq 1 .. Len(s)
  BY <1>1, <1>2
<1>6. ASSUME NEW i \in 1 .. Len(s) PROVE t[i] = IF i \in T THEN s[i] + c ELSE s[i]
  <2>1. i \in 1 .. Len(attempts) /\ i \in DOMAIN attempts
    BY <1>1, <1>2
  <2>2. /\ s[i] = IF ProviderOf[attempts[i].route] = p THEN attempts[i].charged ELSE 0
        /\ t[i] = IF ProviderOf[attempts[i].route] = p THEN attempts'[i].charged ELSE 0
    BY <1>2, <1>3, <1>4, <2>1
  <2> HIDE DEF s, t
  <2>3. CASE i \in T
    BY <2>2, <2>3
  <2>4. CASE i \notin T
    BY <2>1, <2>2, <2>4
  <2> QED BY <2>3, <2>4
<1> HIDE DEF s, t
<1>7. Grown(s, t, T, c)
  BY <1>2, <1>3, <1>6 DEF Grown
<1>8. Total(t) = Total(s) + c * Cardinality(T)
  BY <1>2, <1>5, <1>7, TotalGrows
<1> QED BY <1>8 DEF s, t

\* What the charges are after a step.
ChargesKept == OpenIsFree' /\ ChargesExact'

\* A reconciliation charges its calls their price.
LEMMA SettleCharges ==
  ASSUME UsageInv, OpenIsFree, ChargesExact, NEW S \in SUBSET OpenCalls, Settle(S)
  PROVE  ChargesKept
<1> USE LedgerAssumption
<1>1. UsageInv' /\ AttemptsKept /\ DOMAIN attempts' = DOMAIN attempts
  BY SettleStep DEF OpenCalls
<1>2. /\ attempts \in Seq(Attempts) /\ attempts' \in Seq(Attempts)
      /\ \A i \in DOMAIN attempts : attempts[i] \in Attempts
  BY <1>1 DEF UsageInv, UsageTyped
<1>3. Len(attempts') = Len(attempts)
  BY <1>1, <1>2
<1>4. \A i \in DOMAIN attempts :
         IF i \in S THEN /\ attempts'[i].outcome = "abandoned"
                         /\ attempts'[i].charged = PriceOf(attempts[i].route)
         ELSE attempts'[i] = attempts[i]
  BY <1>2 DEF Settle, Attempts
<1>5. OpenIsFree'
  BY <1>1, <1>4 DEF OpenIsFree
<1>6. ASSUME NEW p \in Budgeted PROVE consumedValue'[p] = Total(ChargesTo(p)')
  <2> DEFINE T == {i \in S : ProviderOf[attempts[i].route] = p}
  <2>1. T \in SUBSET DOMAIN attempts /\ Cost[p] \in Nat
    BY DEF OpenCalls, Providers
  <2>2. \A i \in T : /\ ProviderOf[attempts[i].route] = p
                      /\ attempts[i].charged = 0 /\ attempts'[i].charged = Cost[p]
    BY <1>4, <2>1 DEF OpenIsFree, OpenCalls, PriceOf
  <2>3. \A i \in DOMAIN attempts \ T :
           ProviderOf[attempts[i].route] = p => attempts'[i].charged = attempts[i].charged
    BY <1>4
  <2>4. consumedValue'[p] = consumedValue[p] + Cost[p] * Cardinality(T)
    BY DEF Settle, Owed
  <2> HIDE DEF T
  <2>5. Total(ChargesTo(p)') = Total(ChargesTo(p)) + Cost[p] * Cardinality(T)
    BY <1>1, <1>2, <1>3, <2>1, <2>2, <2>3, ChargesGrow
  <2> QED BY <2>4, <2>5 DEF ChargesExact
<1> QED BY <1>5, <1>6 DEF ChargesKept, ChargesExact

\* A finished call is charged once, to its provider.
LEMMA ConvertCharges ==
  ASSUME UsageInv, UsageInv', AttemptsKept, OpenIsFree, ChargesExact, NEW j \in OpenCalls,
         NEW outcome \in Outcomes \ {"open"}, NEW charge \in Nat, Convert(j, outcome, charge)
  PROVE  ChargesKept
<1> USE LedgerAssumption
<1>1. DOMAIN attempts' = DOMAIN attempts /\ j \in DOMAIN attempts
  BY DEF Convert, OpenCalls
<1>2. /\ attempts \in Seq(Attempts) /\ attempts' \in Seq(Attempts)
      /\ \A i \in DOMAIN attempts : attempts[i] \in Attempts
  BY DEF UsageInv, UsageTyped
<1>3. Len(attempts') = Len(attempts)
  BY <1>1, <1>2
<1>4. /\ \A i \in DOMAIN attempts : i # j => attempts'[i] = attempts[i]
      /\ attempts'[j].outcome = outcome /\ attempts'[j].charged = charge
  BY <1>1, <1>2 DEF Convert, Attempts
<1>5. OpenIsFree'
  BY <1>1, <1>4 DEF OpenIsFree
<1>6. ASSUME NEW p \in Budgeted PROVE consumedValue'[p] = Total(ChargesTo(p)')
  <2> DEFINE pr == ProviderOf[attempts[j].route]
             T == IF p = pr THEN {j} ELSE {}
  <2>1. T \in SUBSET DOMAIN attempts
    BY <1>1
  <2>2. \A i \in T : /\ ProviderOf[attempts[i].route] = p
                      /\ attempts[i].charged = 0 /\ attempts'[i].charged = charge
    BY <1>1, <1>4 DEF OpenIsFree, OpenCalls
  <2>3. \A i \in DOMAIN attempts \ T :
           ProviderOf[attempts[i].route] = p => attempts'[i].charged = attempts[i].charged
    BY <1>4
  <2>4. consumedValue'[p] = IF p = pr THEN consumedValue[p] + charge ELSE consumedValue[p]
    BY DEF Convert, Add
  <2>5. /\ Cardinality(T) = IF p = pr THEN 1 ELSE 0
        /\ charge * 1 = charge /\ charge * 0 = 0
    <3>1. Cardinality({j}) = 1 /\ Cardinality({}) = 0
      BY FS_Singleton, FS_EmptySet
    <3>2. charge * 1 = charge /\ charge * 0 = 0
      OBVIOUS
    <3> QED BY <3>1, <3>2
  <2> HIDE DEF T, pr
  <2>6. Total(ChargesTo(p)') = Total(ChargesTo(p)) + charge * Cardinality(T)
    BY <1>2, <1>3, <2>1, <2>2, <2>3, ChargesGrow
  <2>7. consumedValue[p] = Total(ChargesTo(p)) /\ consumedValue[p] \in Nat
    BY DEF ChargesExact, UsageInv, UsageTyped
  <2> QED BY <2>4, <2>5, <2>6, <2>7
<1> QED BY <1>5, <1>6 DEF ChargesKept, ChargesExact

\* A reservation charges nothing yet.
LEMMA ReserveCharges ==
  ASSUME UsageInv, OpenIsFree, ChargesExact, NEW t \in Tasks, NEW k \in Nat, NEW route \in Routes,
         ReserveAttempt(t, k, route)
  PROVE  ChargesKept
<1> DEFINE new == [task |-> t, route |-> route, token |-> k, outcome |-> "open", charged |-> 0]
           n == Len(attempts) + 1
<1>1. /\ attempts' = Append(attempts, new) /\ consumedValue' = consumedValue
      /\ attempts \in Seq(Attempts) /\ UsageInv'
  BY ReserveStep DEF ReserveAttempt, UsageInv, UsageTyped
<1>2. new \in Attempts /\ new.outcome = "open" /\ new.charged = 0
  BY DEF Attempts, Outcomes
<1> HIDE DEF new
<1>3. /\ Len(attempts) \in Nat /\ DOMAIN attempts = 1 .. Len(attempts)
      /\ DOMAIN attempts' = 1 .. n /\ attempts'[n] = new
      /\ \A i \in 1 .. Len(attempts) : attempts'[i] = attempts[i]
  BY <1>1, <1>2
<1>4. OpenIsFree'
  BY <1>2, <1>3 DEF OpenIsFree
<1>5. ASSUME NEW p \in Budgeted PROVE Total(ChargesTo(p)') = Total(ChargesTo(p))
  <2> DEFINE s == ChargesTo(p)
             u == ChargesTo(p)'
  <2>1. /\ s \in Seq(Nat) /\ Len(s) = Len(attempts)
        /\ \A i \in 1 .. Len(attempts) :
              s[i] = IF ProviderOf[attempts[i].route] = p THEN attempts[i].charged ELSE 0
    BY <1>1, ChargesTyped
  <2>2. u = [i \in 1 .. n |-> IF ProviderOf[attempts'[i].route] = p THEN attempts'[i].charged ELSE 0]
    BY <1>3 DEF ChargesTo
  <2>3. /\ Append(s, 0) \in Seq(Nat) /\ Len(Append(s, 0)) = n /\ Append(s, 0)[n] = 0
        /\ \A i \in 1 .. Len(attempts) : Append(s, 0)[i] = s[i]
    <3> HIDE DEF s
    <3> QED BY <1>3, <2>1
  <2>4. ASSUME NEW i \in 1 .. n
        PROVE  Append(s, 0)[i] = IF ProviderOf[attempts'[i].route] = p THEN attempts'[i].charged ELSE 0
    <3>1. i = n \/ i \in 1 .. Len(attempts)
      BY <1>3
    <3> HIDE DEF s
    <3> QED BY <1>2, <1>3, <2>1, <2>3, <3>1
  <2>5. u = Append(s, 0)
    <3> DEFINE v == Append(s, 0)
    <3>1. v = [i \in 1 .. n |-> v[i]]
      <4>1. v \in Seq(Nat) /\ Len(v) = n
        BY <2>3
      <4> HIDE DEF v
      <4>2. v \in [1 .. n -> Nat]
        BY <4>1
      <4> QED BY <4>2
    <3>2. \A i \in 1 .. n :
             v[i] = IF ProviderOf[attempts'[i].route] = p THEN attempts'[i].charged ELSE 0
      BY <2>4
    <3> HIDE DEF v, u
    <3>3. u = v
      BY <2>2, <3>1, <3>2
    <3> QED BY <3>3 DEF v
  <2>6. Total(Append(s, 0)) = Total(s) + 0
    <3> HIDE DEF s
    <3> QED BY <2>1, TotalAppend
  <2>7. Total(s) \in Nat
    <3> HIDE DEF s
    <3> QED BY <2>1, AddsExist, TotalIs
  <2>8. Total(u) = Total(s)
    <3> HIDE DEF s, u
    <3> QED BY <2>5, <2>6, <2>7
  <2> QED BY <2>8
<1> QED BY <1>1, <1>4, <1>5 DEF ChargesKept, ChargesExact

\* Nothing of the rows changes.
LEMMA QuietCharges ==
  ASSUME OpenIsFree, ChargesExact, UNCHANGED usageVars
  PROVE  ChargesKept
<1>1. consumedValue' = consumedValue /\ attempts' = attempts
  BY DEF usageVars
<1>2. \A p : ChargesTo(p)' = ChargesTo(p)
  BY <1>1 DEF ChargesTo
<1> QED BY <1>1, <1>2 DEF ChargesKept, OpenIsFree, ChargesExact

\* The empty table.
LEMMA NothingCharged ==
  ASSUME Init
  PROVE  OpenIsFree /\ ChargesExact
<1>1. attempts = <<>> /\ consumedValue = [p \in Budgeted |-> 0]
  BY DEF Init, LedgerInit
<1>2. OpenIsFree
  BY <1>1 DEF OpenIsFree
<1>3. ASSUME NEW p PROVE Total(ChargesTo(p)) = 0
  <2>1. ChargesTo(p) = <<>> /\ <<>> \in Seq(Nat) /\ Len(<<>>) = 0
    BY <1>1 DEF ChargesTo
  <2>2. PICK f : Adds(f, <<>>)
    BY <2>1, AddsExist
  <2>3. Total(<<>>) = f[0] /\ f[0] = 0
    BY <2>1, <2>2, TotalIs DEF Adds
  <2> QED BY <2>1, <2>3
<1> QED BY <1>1, <1>2, <1>3 DEF ChargesExact

\* Each call is charged once, to the provider's row, and not below its bill:
\* consumed_value is at every moment the sum of what the attempts were charged,
\* whoever finished or abandoned them (finish_acquisition_attempt,
\* _reconcile_abandoned_acquisition_attempts).
THEOREM ChargesHold == Spec => []ChargesAreRight
<1> DEFINE IInv == LedgerInv /\ RouterInv /\ OpenIsFree /\ ChargesExact
<1>1. Init => IInv
  BY LedgerInvInit, RouterInvInit, NothingCharged
<1>2. IInv /\ [Next]_vars => IInv'
  <2> SUFFICES ASSUME IInv, [Next]_vars PROVE IInv'
    OBVIOUS
  <2>1. LedgerInv' /\ AttemptsKept /\ RouterInv' /\ UsageStep
    BY LedgerInvStep, RouterInvStep, UsageSteps
  <2>2. UsageInv /\ UsageInv'
    BY <2>1, InvParts DEF LedgerInv, LedgerTypeOK, UsageInv, UsageTyped
  <2>3. CASE UNCHANGED usageVars
    BY <2>1, <2>3, QuietCharges DEF ChargesKept
  <2>4. ASSUME NEW S \in SUBSET OpenCalls, Settle(S) PROVE ChargesKept
    BY <2>2, <2>4, SettleCharges
  <2>5. ASSUME NEW t \in Tasks, NEW k \in Nat, NEW route \in Routes, ReserveAttempt(t, k, route)
        PROVE  ChargesKept
    BY <2>2, <2>5, ReserveCharges
  <2>6. ASSUME NEW i \in OpenCalls, NEW outcome \in Outcomes \ {"open"}, NEW charge \in Nat,
               Convert(i, outcome, charge)
        PROVE  ChargesKept
    BY <2>1, <2>2, <2>6, ConvertCharges
  <2>7. ChargesKept
    BY <2>1, <2>3, <2>4, <2>5, <2>6, QuietCharges DEF UsageStep
  <2> QED BY <2>1, <2>7 DEF ChargesKept
<1>3. IInv => ChargesAreRight
  BY DEF RouterInv, ChargesAreRight
<1> QED BY <1>1, <1>2, <1>3, PTL DEF Spec
=============================================================================
