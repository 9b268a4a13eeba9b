---------------------------- MODULE ProviderLedger ----------------------------
(***************************************************************************)
(* The budgets of managed providers within one job: the rows of            *)
(* crawl_provider_usage and acquisition_attempts and the transactions of   *)
(* app/crawl/repository.py on them.  A call is paid for in two steps: its  *)
(* full price is reserved before the call and converted into what the      *)
(* provider reports afterwards.  A call whose lease is gone is settled at  *)
(* its full price by whoever meets it.                                     *)
(*                                                                         *)
(* The queue is reduced to what these transactions read of it: the state,  *)
(* token and expiry of a task's lease and whether the job was cancelled or *)
(* is past its deadline.  CrawlQueue has the details.                      *)
(***************************************************************************)
EXTENDS Integers, Sequences, FiniteSets

CONSTANTS
    Tasks,        \* the tasks of the job
    Budget,       \* the limit of each provider the job has a credit budget for
    Cost,         \* the price reserve_cost asks for one call of a provider
    MaxAttempts   \* acquisition.maxAttempts, also the task's max_attempts

Providers == {"local", "brightdata", "firecrawl", "browserbase"}
Budgeted == DOMAIN Budget

\* Each managed provider has one route the router can reach and one meter that
\* is ever charged (Browserbase's proxyBytes must be 0).
ProviderOf ==
    [local_http |-> "local", owned_proxy_http |-> "local", local_browser |-> "local",
     brightdata_unlocker |-> "brightdata", firecrawl_scrape |-> "firecrawl",
     browserbase_session |-> "browserbase"]
Routes == DOMAIN ProviderOf
PriceOf(route) == Cost[ProviderOf[route]]

ASSUME LedgerAssumption ==
    /\ IsFiniteSet(Tasks)
    /\ Budgeted \subseteq Providers \ {"local"}
    /\ Budget \in [Budgeted -> Nat]
    /\ Cost \in [Providers -> Nat] /\ Cost["local"] = 0
    /\ MaxAttempts \in 1 .. 4

VARIABLES
    inactive,       \* the job is cancelled or past its deadline
    state,          \* of each task: queued, leased, or ended (no more acquisition)
    token,          \* its lease token, 0 when it has none
    late,           \* lease_expires_at has passed
    leases,         \* attempt_count
    lastToken,
    reservedValue,  \* crawl_provider_usage.reserved_value
    consumedValue,  \* crawl_provider_usage.consumed_value
    attempts        \* acquisition_attempts, in the order of their insertion

leaseVars == <<inactive, state, token, late, leases, lastToken>>
usageVars == <<reservedValue, consumedValue, attempts>>
ledgerVars == <<leaseVars, usageVars>>

Outcomes == {"open", "succeeded", "retryable_failure", "failed", "abandoned"}
Attempts ==
    [task : Tasks, route : Routes, token : Nat, outcome : Outcomes, charged : Nat]

LedgerInit ==
    /\ inactive = FALSE
    /\ state = [t \in Tasks |-> "queued"]
    /\ token = [t \in Tasks |-> 0]
    /\ late = [t \in Tasks |-> FALSE]
    /\ leases = [t \in Tasks |-> 0]
    /\ lastToken = 0
    /\ reservedValue = [p \in Budgeted |-> 0]
    /\ consumedValue = [p \in Budgeted |-> 0]
    /\ attempts = <<>>

-----------------------------------------------------------------------------
\* Leases.

\* _fenced_task
Fenced(t, k) == state[t] = "leased" /\ token[t] = k

\* claim_task
Claim(t) ==
    /\ state[t] = "queued" /\ ~inactive
    /\ state' = [state EXCEPT ![t] = "leased"]
    /\ token' = [token EXCEPT ![t] = lastToken + 1]
    /\ leases' = [leases EXCEPT ![t] = @ + 1]
    /\ lastToken' = lastToken + 1
    /\ UNCHANGED <<inactive, late, usageVars>>

\* The task's lease columns are cleared.
Release(t, to) ==
    /\ state' = [state EXCEPT ![t] = to]
    /\ token' = [token EXCEPT ![t] = 0]
    /\ late' = [late EXCEPT ![t] = FALSE]
    /\ UNCHANGED <<inactive, leases, lastToken>>

\* What retry_task and the reaper make of a lease that ended without a result.
RetryState(t) == IF inactive \/ leases[t] >= MaxAttempts THEN "ended" ELSE "queued"

\* heartbeat
Renew(t, k) ==
    /\ Fenced(t, k) /\ ~inactive
    /\ late' = [late EXCEPT ![t] = FALSE]
    /\ UNCHANGED <<inactive, state, token, leases, lastToken, usageVars>>

\* Time passes lease_expires_at.
RunLate(t) ==
    /\ state[t] = "leased" /\ ~late[t]
    /\ late' = [late EXCEPT ![t] = TRUE]
    /\ UNCHANGED <<inactive, state, token, leases, lastToken, usageVars>>

\* Time passes deadline_at.
PassDeadline ==
    /\ ~inactive
    /\ inactive' = TRUE
    /\ UNCHANGED <<state, token, late, leases, lastToken, usageVars>>

\* _drain_unleased and finalize_jobs end tasks that wait.
Drain(t) ==
    /\ state[t] = "queued"
    /\ state' = [state EXCEPT ![t] = "ended"]
    /\ UNCHANGED <<inactive, token, late, leases, lastToken, usageVars>>

-----------------------------------------------------------------------------
\* _reconcile_abandoned_acquisition_attempts.

\* The reservations a provider's row must cover.
OpenOn(p) ==
    {i \in DOMAIN attempts : attempts[i].outcome = "open" /\ ProviderOf[attempts[i].route] = p}

OpenOf(t) == {i \in DOMAIN attempts : attempts[i].outcome = "open" /\ attempts[i].task = t}

AbandonedUnderLease ==
    {i \in DOMAIN attempts :
        /\ attempts[i].outcome = "open"
        /\ Fenced(attempts[i].task, attempts[i].token)
        /\ late[attempts[i].task] \/ inactive}
Abandoned ==
    {i \in DOMAIN attempts :
        /\ attempts[i].outcome = "open"
        /\ \/ ~Fenced(attempts[i].task, attempts[i].token)
           \/ late[attempts[i].task] \/ inactive}

Owed(S, p) == Cost[p] * Cardinality({i \in S : ProviderOf[attempts[i].route] = p})

\* The attempts S are charged what they reserved.
SettleFree(S) ==
    /\ reservedValue' = [p \in Budgeted |-> reservedValue[p] - Owed(S, p)]
    /\ consumedValue' = consumedValue
    /\ attempts' = [i \in DOMAIN attempts |->
                      IF i \in S THEN [attempts[i] EXCEPT !.outcome = "abandoned"]
                      ELSE attempts[i]]
Settle(S) ==
    /\ reservedValue' = [p \in Budgeted |-> reservedValue[p] - Owed(S, p)]
    /\ consumedValue' = [p \in Budgeted |-> consumedValue[p] + Owed(S, p)]
    /\ attempts' = [i \in DOMAIN attempts |->
                      IF i \in S THEN [attempts[i] EXCEPT !.outcome = "abandoned",
                                                          !.charged = PriceOf(attempts[i].route)]
                      ELSE attempts[i]]

\* _reject_inactive_lease ends the task and settles its attempts.  Like every
\* reconciliation it passes over rows another transaction has locked (SKIP
\* LOCKED), for instance that of a finish_acquisition_attempt that waits for the
\* task: S is any part of the attempts.
Reject(t) ==
    /\ inactive
    /\ Release(t, "ended")
    /\ \E S \in SUBSET OpenOf(t) : Settle(S)

\* What a call by the holder of (t, k) does when it is turned away.
TurnedAway(t, k) ==
    \/ ~Fenced(t, k) /\ UNCHANGED ledgerVars
    \/ Fenced(t, k) /\ Reject(t)

\* request_cancel of this job: queued tasks end, leased ones will be rejected.
RequestCancel ==
    /\ \E t \in Tasks : state[t] # "ended"
    /\ inactive' = TRUE
    /\ state' = [t \in Tasks |-> IF state[t] = "queued" THEN "ended" ELSE state[t]]
    /\ \E S \in SUBSET {i \in DOMAIN attempts : attempts[i].outcome = "open"} : Settle(S)
    /\ UNCHANGED <<token, late, leases, lastToken>>

\* request_cancel of some other job reconciles the attempts of all jobs, those
\* of a late lease that its worker may still renew included.
ReconcileElsewhere ==
    /\ \E S \in SUBSET Abandoned : S # {} /\ Settle(S)
    /\ UNCHANGED leaseVars

\* reap_expired_leases: reconcile, then give up the late leases L.
Reap(S, L) ==
    /\ S \cup L # {}
    /\ Settle(S)
    /\ state' = [t \in Tasks |-> IF t \in L THEN RetryState(t) ELSE state[t]]
    /\ token' = [t \in Tasks |-> IF t \in L THEN 0 ELSE token[t]]
    /\ late' = [t \in Tasks |-> IF t \in L THEN FALSE ELSE late[t]]
    /\ UNCHANGED <<inactive, leases, lastToken>>

LateLeases == {t \in Tasks : state[t] = "leased" /\ late[t]}
ReapSome == \E S \in SUBSET Abandoned, L \in SUBSET LateLeases : Reap(S, L)
\* A round of the maintenance loop that no lock disturbs.
ReapAll == Reap(Abandoned, LateLeases)

-----------------------------------------------------------------------------
\* reserve_acquisition_attempt

AttemptsOf(t) == {i \in DOMAIN attempts : attempts[i].task = t}
AttemptsOn(t, route) == {i \in AttemptsOf(t) : attempts[i].route = route}
AttemptCap(n) == IF MaxAttempts < n THEN MaxAttempts ELSE n

Capped(t, route) ==
    \/ Cardinality(AttemptsOf(t)) >= AttemptCap(4)
    \/ Cardinality(AttemptsOn(t, route)) >= AttemptCap(2)
CappedPerLease(t, route) ==
    \/ Cardinality({i \in AttemptsOf(t) : attempts[i].token = token[t]}) >= AttemptCap(4)
    \/ Cardinality({i \in AttemptsOn(t, route) : attempts[i].token = token[t]}) >= AttemptCap(2)

\* A managed provider without a usage row, or without enough left.
Unaffordable(p) ==
    /\ p # "local"
    /\ p \notin Budgeted \/ Cost[p] > Budget[p] - reservedValue[p] - consumedValue[p]
UnaffordableUnspent(p) ==
    /\ p # "local"
    /\ p \notin Budgeted \/ Cost[p] > Budget[p] - reservedValue[p]

RefusedUnspent(t, route) == Capped(t, route) \/ UnaffordableUnspent(ProviderOf[route])
RefusedPerLease(t, route) == CappedPerLease(t, route) \/ Unaffordable(ProviderOf[route])
Refused(t, route) == Capped(t, route) \/ Unaffordable(ProviderOf[route])

Add(values, p, amount) == [q \in Budgeted |-> IF q = p THEN values[q] + amount ELSE values[q]]

ReserveAttempt(t, k, route) ==
    /\ Fenced(t, k) /\ ~inactive /\ ~Refused(t, route)
    /\ reservedValue' = Add(reservedValue, ProviderOf[route], PriceOf(route))
    /\ attempts' = Append(attempts, [task |-> t, route |-> route, token |-> k,
                                     outcome |-> "open", charged |-> 0])
    /\ UNCHANGED <<leaseVars, consumedValue>>

-----------------------------------------------------------------------------
\* finish_acquisition_attempt

Current(i, k) == attempts[i].token = k /\ Fenced(attempts[i].task, k) /\ ~inactive

Convert(i, outcome, charge) ==
    /\ reservedValue' = Add(reservedValue, ProviderOf[attempts[i].route],
                            -PriceOf(attempts[i].route))
    /\ consumedValue' = Add(consumedValue, ProviderOf[attempts[i].route], charge)
    /\ attempts' = [attempts EXCEPT ![i] = [@ EXCEPT !.outcome = outcome, !.charged = charge]]

NeverFinished(i) == TRUE
Unfinished(i) == attempts[i].outcome = "open"

Finish(i, k, outcome, charge) ==
    /\ Current(i, k)
    /\ Unfinished(i) /\ charge <= PriceOf(attempts[i].route)
    /\ Convert(i, outcome, charge)
    /\ UNCHANGED leaseVars

\* The attempt was settled behind the caller's back: nothing happens.
FinishSettled(i, k) == Current(i, k) /\ ~Unfinished(i) /\ UNCHANGED ledgerVars

\* More than the reservation is reported: ProviderProtocolError, rolled back.
FinishOverspent(i, k, charge) ==
    /\ Current(i, k) /\ Unfinished(i) /\ charge > PriceOf(attempts[i].route)
    /\ UNCHANGED ledgerVars
=============================================================================
