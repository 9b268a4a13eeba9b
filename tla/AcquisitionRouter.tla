-------------------------- MODULE AcquisitionRouter --------------------------
(***************************************************************************)
(* Workers that acquire pages through AcquisitionRouter.acquire            *)
(* (app/acquisition/router.py): route selection, the browser budget, one   *)
(* reservation per provider call, fallback, and the report to the queue.   *)
(* The workers of one process share a ProviderRegistry.  Each await of     *)
(* acquire is a phase of a run; between two phases the lease may be lost,  *)
(* the job cancelled and the attempt settled by somebody else.             *)
(***************************************************************************)
EXTENDS ProviderLedger

CONSTANTS
    Workers,
    Provider,         \* acquisition.provider of the job
    RenderPages,      \* engine = "browser"
    AllowHuman,       \* acquisition.allowHumanIntervention
    MaxBrowserPages,
    Configured,       \* providers whose adapter has its credentials
    ServedRoutes,     \* routes this process may use and its adapters serve
    Bills             \* what a provider may report for a call

ASSUME RouterAssumption ==
    /\ Provider \in Providers \cup {"auto"}
    /\ {RenderPages, AllowHuman} \subseteq BOOLEAN
    /\ MaxBrowserPages \in Nat
    /\ Configured \subseteq Providers /\ "local" \in Configured
    /\ ServedRoutes \subseteq Routes
    /\ Bills \in [Providers -> SUBSET Nat] /\ Bills["local"] = {0}

VARIABLES
    run,            \* of each worker, the acquire call it is in
    health,         \* ProviderRegistry._health
    browserPages,   \* crawl_jobs.browser_page_count
    billed          \* of each attempt, what the provider has charged for it

vars == <<ledgerVars, run, health, browserPages, billed>>

NoRun == [phase |-> "none"]
\* How a call ends: a result, which may still be unreadable (_normalize raises);
\* a ProviderFailure, of which "malformed" has the code provider_protocol_error;
\* a ProviderProtocolError; any other exception, "outage" being the transient
\* ones; cancellation.
Kinds == {"succeeded", "unreadable", "blocked", "retryable", "permanent", "malformed",
          "protocol", "defect", "outage", "cancelled"}
Capabilities == {"ordinary", "static_block", "rendering"}
Runs ==
    [phase : {"claimed", "route", "reserve", "call", "navigate", "finish", "report"},
     task : Tasks, token : Nat, capability : Capabilities, todo : Seq(Routes),
     id : Nat, kind : Kinds \cup {"none", "budget"}, charge : Nat,
     last : {"none", "blocked", "retryable", "budget"},
     verdict : {"none", "done", "retry", "fail", "human"}, navigations : Nat]

FirstHealth == [p \in Providers |-> IF p \in Configured THEN "configured" ELSE "disabled"]

Init ==
    /\ LedgerInit
    /\ run = [w \in Workers |-> NoRun]
    /\ health = FirstHealth
    /\ browserPages = 0
    /\ billed = <<>>

-----------------------------------------------------------------------------
RouteAvailable(route) == route \in ServedRoutes /\ health[ProviderOf[route]] = "configured"

AutoRoutesPaidFirst ==
    [ordinary |-> <<"local_http">>,
     static_block |-> <<"brightdata_unlocker", "owned_proxy_http">>,
     rendering |-> <<"firecrawl_scrape", "local_browser">>]
AutoRoutes ==
    [ordinary |-> <<"local_http">>,
     static_block |-> <<"owned_proxy_http", "brightdata_unlocker">>,
     rendering |-> <<"local_browser", "firecrawl_scrape">>]

ExplicitRoute(capability) ==
    CASE Provider = "local" -> IF capability = "rendering" THEN "local_browser" ELSE "local_http"
      [] Provider = "brightdata" -> "brightdata_unlocker"
      [] Provider = "browserbase" -> "browserbase_session"
      [] Provider = "firecrawl" -> "firecrawl_scrape"

Keep(route) == IF RouteAvailable(route) THEN <<route>> ELSE <<>>

\* _routes; an explicit provider that is not healthy has none.
RoutesFor(capability) ==
    LET routes == AutoRoutes[capability]
    IN IF Provider # "auto"
       THEN IF health[Provider] = "configured" THEN <<ExplicitRoute(capability)>> ELSE <<>>
       ELSE IF Len(routes) = 1 THEN Keep(routes[1]) ELSE Keep(routes[1]) \o Keep(routes[2])

FirstCapability == IF RenderPages THEN "rendering" ELSE "ordinary"

CanAskHuman == AllowHuman /\ Provider \in {"auto", "local"}

In(w, phase) == run[w].phase = phase
Become(w, r) == run' = [run EXCEPT ![w] = r]
Goto(w, phase) == Become(w, [run[w] EXCEPT !.phase = phase])
\* acquire returns or raises and its locals are gone.
Verdict(r, v) ==
    [r EXCEPT !.phase = "report", !.verdict = v, !.todo = <<>>, !.kind = "none", !.charge = 0,
              !.last = "none"]

\* ProviderUnavailable; in the static_block fallback it becomes a request for
\* human input where the job allows one.
Unavailable(r) ==
    Verdict(r, IF r.capability = "static_block" /\ CanAskHuman THEN "human" ELSE "fail")

NextRoute(r, failure) ==
    [r EXCEPT !.phase = "route", !.todo = Tail(@), !.kind = "none", !.charge = 0,
              !.last = failure]

-----------------------------------------------------------------------------
\* run_once up to the call of acquire.
ClaimTask(w, t) ==
    /\ run[w] = NoRun
    /\ Claim(t)
    /\ Become(w, [phase |-> "claimed", task |-> t, token |-> lastToken + 1,
                  capability |-> FirstCapability, todo |-> <<>>, id |-> 0, kind |-> "none",
                  charge |-> 0, last |-> "none", verdict |-> "none", navigations |-> 0])
    /\ UNCHANGED <<health, browserPages, billed>>

\* ensure_public_url refuses the target.
RefuseTarget(w) ==
    /\ In(w, "claimed")
    /\ Become(w, Verdict(run[w], "fail"))
    /\ UNCHANGED <<ledgerVars, health, browserPages, billed>>

BeginAcquire(w) ==
    LET routes == RoutesFor(run[w].capability)
    IN /\ In(w, "claimed")
       /\ Become(w, IF routes = <<>> THEN Unavailable(run[w])
                    ELSE [run[w] EXCEPT !.phase = "route", !.todo = routes, !.last = "none"])
       /\ UNCHANGED <<ledgerVars, health, browserPages, billed>>

\* The head of the loop over routes; health may have changed since _routes.
SelectRoute(w) ==
    /\ In(w, "route") /\ run[w].todo # <<>>
    /\ \/ /\ ~RouteAvailable(Head(run[w].todo))
          /\ Become(w, [run[w] EXCEPT !.todo = Tail(@)])
       \/ /\ RouteAvailable(Head(run[w].todo)) /\ Head(run[w].todo) # "local_browser"
          /\ Goto(w, "reserve")
    /\ UNCHANGED <<ledgerVars, health, browserPages, billed>>

\* reserve_browser_navigation, called by the holder of run r.
NavigationGranted(r) ==
    /\ Fenced(r.task, r.token) /\ ~inactive /\ browserPages < MaxBrowserPages
    /\ browserPages' = browserPages + 1
    /\ UNCHANGED ledgerVars
NavigationRefused(r) ==
    /\ \/ /\ Fenced(r.task, r.token) /\ ~inactive /\ browserPages >= MaxBrowserPages
          /\ UNCHANGED ledgerVars
       \/ TurnedAway(r.task, r.token)
    /\ UNCHANGED browserPages

SelectBrowser(w) ==
    /\ In(w, "route") /\ run[w].todo # <<>>
    /\ Head(run[w].todo) = "local_browser" /\ RouteAvailable("local_browser")
    /\ \/ /\ NavigationGranted(run[w])
          /\ Become(w, [run[w] EXCEPT !.phase = "reserve", !.navigations = 1])
       \/ /\ NavigationRefused(run[w])
          /\ Become(w, NextRoute(run[w], "budget"))
    /\ UNCHANGED <<health, billed>>

ReserveCall(w) ==
    LET r == run[w]
        route == Head(r.todo)
    IN /\ In(w, "reserve")
       /\ \/ /\ ReserveAttempt(r.task, r.token, route)
             /\ Become(w, [r EXCEPT !.phase = "call", !.id = Len(attempts) + 1])
             /\ billed' = Append(billed, 0)
          \/ /\ \/ /\ Fenced(r.task, r.token) /\ ~inactive /\ Refused(r.task, route)
                   /\ UNCHANGED ledgerVars
                \/ TurnedAway(r.task, r.token)
             /\ Become(w, Unavailable(r))
             /\ UNCHANGED billed
       /\ UNCHANGED <<health, browserPages>>

\* LocalAdapter._acquire_browser first calls before_browser, which reserves the
\* navigation again.
StartNavigation(w) ==
    LET r == run[w]
    IN /\ In(w, "call") /\ Head(r.todo) = "local_browser"
       /\ \/ /\ NavigationGranted(r)
             /\ Become(w, [r EXCEPT !.phase = "navigate", !.navigations = @ + 1])
          \/ /\ NavigationRefused(r)
             /\ Become(w, [r EXCEPT !.phase = "finish", !.kind = "budget", !.charge = 0])
       /\ UNCHANGED <<health, billed>>

Unpriced == {"protocol", "defect", "outage", "cancelled"}

\* How _acquire_browser ends before it navigates, other than by its budget.
BeforeNavigation == {"permanent", "defect", "outage", "cancelled"}

\* The end of the provider's call.  A failure or a result carries its own cost;
\* any other exception is counted with the whole reservation.
Answer(w, kind, bill) ==
    LET r == run[w]
        route == Head(r.todo)
        full == PriceOf(route)
    IN /\ \/ In(w, "navigate")
          \/ In(w, "call") /\ (route = "local_browser" => kind \in BeforeNavigation)
       /\ bill \in Bills[ProviderOf[route]]
       /\ Become(w, [r EXCEPT !.phase = "finish", !.kind = kind,
                              !.charge = IF kind \in Unpriced THEN full ELSE bill])
       /\ health' = IF kind \in {"protocol", "malformed"} THEN [health EXCEPT ![ProviderOf[route]] = "unhealthy"]
                    ELSE health
       /\ billed' = [billed EXCEPT ![r.id] = bill]
       /\ UNCHANGED <<ledgerVars, browserPages>>

OutcomeOf(kind) ==
    CASE kind \in {"succeeded", "unreadable"} -> "succeeded"
      [] kind \in {"blocked", "retryable"} -> "retryable_failure"
      [] OTHER -> "failed"

\* What acquire does once the attempt is finished.
AfterFinish(r) ==
    CASE r.kind = "succeeded" -> Verdict(r, "done")
      [] r.kind = "outage" -> Verdict(r, "retry")
      [] r.kind = "cancelled" -> NoRun
      [] r.kind \in {"unreadable", "permanent", "malformed", "protocol", "defect", "budget"} ->
            Verdict(r, "fail")
      [] /\ r.kind = "blocked" /\ Provider = "auto"
         /\ r.capability = "ordinary" /\ Head(r.todo) = "local_http"
         -> [r EXCEPT !.phase = "claimed", !.capability = "static_block", !.todo = <<>>,
                      !.kind = "none", !.charge = 0]
      [] OTHER -> NextRoute(r, r.kind)

FinishCall(w) ==
    LET r == run[w]
    IN /\ In(w, "finish")
       /\ \/ Finish(r.id, r.token, OutcomeOf(r.kind), r.charge)
          \/ FinishSettled(r.id, r.token)
          \* The attempt itself is locked by this call and not passed over.
          \/ /\ TurnedAway(r.task, r.token)
             /\ Fenced(r.task, r.token) => attempts'[r.id].outcome # "open"
       /\ Become(w, AfterFinish(r))
       /\ UNCHANGED <<health, browserPages, billed>>

\* finish_acquisition_attempt raises: the provider is not used any more.
FailFinish(w) ==
    LET r == run[w]
    IN /\ In(w, "finish")
       /\ FinishOverspent(r.id, r.token, r.charge)
       /\ health' = [health EXCEPT ![ProviderOf[Head(r.todo)]] = "unhealthy"]
       /\ Become(w, Verdict(r, "fail"))
       /\ UNCHANGED <<browserPages, billed>>

\* The loop is over without a result.
GiveUp(w) ==
    LET r == run[w]
    IN /\ In(w, "route") /\ r.todo = <<>>
       /\ Become(w, CASE r.last = "none" -> Unavailable(r)
                      [] r.last = "budget" -> Verdict(r, "fail")
                      [] r.last = "blocked" /\ CanAskHuman -> Verdict(r, "human")
                      [] OTHER -> Verdict(r, "retry"))
       /\ UNCHANGED <<ledgerVars, health, browserPages, billed>>

\* complete_task, retry_task, fail_task or the start of a live session.
Report(w) ==
    LET r == run[w]
    IN /\ In(w, "report")
       /\ \/ /\ Fenced(r.task, r.token) /\ ~inactive
             /\ Release(r.task, IF r.verdict = "retry" THEN RetryState(r.task) ELSE "ended")
             /\ UNCHANGED usageVars
          \/ TurnedAway(r.task, r.token)
       /\ Become(w, NoRun)
       /\ UNCHANGED <<health, browserPages, billed>>

\* _heartbeat, beside acquire.
Heartbeat(w) ==
    /\ run[w] # NoRun
    /\ \/ Renew(run[w].task, run[w].token)
       \/ Fenced(run[w].task, run[w].token) /\ Reject(run[w].task)
    /\ UNCHANGED <<run, health, browserPages, billed>>

\* run_once cancels acquire when the lease is lost, the deadline passes or the
\* service stops.  A call is finished even then (Answer with "cancelled"), unless
\* a cancellation hits the transaction that finishes it.
CancelRun(w) ==
    /\ run[w] # NoRun /\ run[w].phase \notin {"call", "navigate"}
    /\ Become(w, NoRun)
    /\ UNCHANGED <<ledgerVars, health, browserPages, billed>>

\* The process dies and is started again.
Restart ==
    /\ \E w \in Workers : run[w] # NoRun
    /\ run' = [w \in Workers |-> NoRun]
    /\ health' = FirstHealth
    /\ UNCHANGED <<ledgerVars, browserPages, billed>>

LeaseStep ==
    /\ \/ \E t \in Tasks : RunLate(t) \/ Drain(t)
       \/ PassDeadline
    /\ UNCHANGED <<run, health, browserPages, billed>>

ReconcileStep ==
    /\ RequestCancel \/ ReconcileElsewhere \/ ReapSome
    /\ UNCHANGED <<run, health, browserPages, billed>>

RunStep(w) ==
    \/ \E t \in Tasks : ClaimTask(w, t)
    \/ RefuseTarget(w) \/ BeginAcquire(w) \/ SelectRoute(w) \/ SelectBrowser(w)
    \/ ReserveCall(w) \/ StartNavigation(w) \/ FinishCall(w) \/ FailFinish(w)
    \/ \E kind \in Kinds, bill \in Bills["local"] \cup Bills["brightdata"]
                                   \cup Bills["firecrawl"] \cup Bills["browserbase"] :
           Answer(w, kind, bill)
    \/ GiveUp(w) \/ Report(w) \/ Heartbeat(w) \/ CancelRun(w)

Next == (\E w \in Workers : RunStep(w)) \/ LeaseStep \/ ReconcileStep \/ Restart

Spec == Init /\ [][Next]_vars

\* The clock reaches the deadline and the maintenance loop goes on; a reservation
\* is not passed over by every round.
FairSpec ==
    /\ Spec
    /\ WF_vars(PassDeadline /\ UNCHANGED <<run, health, browserPages, billed>>)
    /\ WF_vars(ReapAll /\ UNCHANGED <<run, health, browserPages, billed>>)

-----------------------------------------------------------------------------
\* Every column has its type; in particular reserved_value and consumed_value
\* never become negative (the CHECKs of crawl_provider_usage).
LedgerTypeOK ==
    /\ inactive \in BOOLEAN
    /\ state \in [Tasks -> {"queued", "leased", "ended"}]
    /\ token \in [Tasks -> Nat]
    /\ late \in [Tasks -> BOOLEAN]
    /\ leases \in [Tasks -> Nat]
    /\ lastToken \in Nat
    /\ reservedValue \in [Budgeted -> Nat]
    /\ consumedValue \in [Budgeted -> Nat]
    /\ attempts \in Seq(Attempts)
    /\ run \in [Workers -> Runs \cup {NoRun}]
    /\ health \in [Providers -> {"configured", "disabled", "unhealthy"}]
    /\ browserPages \in Nat
    /\ billed \in [DOMAIN attempts -> Nat]

\* Whatever workers reserve, finish and abandon at the same time, a job never
\* reserves and consumes more of a provider than its credit budget.
UsageWithinBudget == \A p \in Budgeted : reservedValue[p] + consumedValue[p] <= Budget[p]

\* reserved_value is the price of the calls in progress and nothing else: no
\* path (finish, rejection, reaping, cancellation of any job) leaks a
\* reservation or gives one back twice.
CallReservationsExact ==
    \A p \in Budgeted : reservedValue[p] = Cost[p] * Cardinality(OpenOn(p))

\* What each attempt was charged to the provider's row.
ChargesTo(p) ==
    [i \in DOMAIN attempts |->
        IF ProviderOf[attempts[i].route] = p THEN attempts[i].charged ELSE 0]
Total(s) ==
    LET sum[n \in 0 .. Len(s)] == IF n = 0 THEN 0 ELSE sum[n - 1] + s[n]
    IN sum[Len(s)]

\* consumed_value is the sum of what the attempts were charged.
ChargesExact == \A p \in Budgeted : consumedValue[p] = Total(ChargesTo(p))

\* A call is never charged below what the provider billed for it (up to its
\* reservation), even when worker and lease are gone before the answer.
BillsAreCovered ==
    \A i \in DOMAIN attempts :
        attempts[i].outcome # "open" =>
            \/ attempts[i].charged >= billed[i]
            \/ attempts[i].charged = PriceOf(attempts[i].route)

\* Each call is charged once, to the provider's row, and not below its bill.
ChargesAreRight == ChargesExact /\ BillsAreCovered

\* A page costs at most maxAttempts (and 4) provider calls, at most two of them
\* by one route, over all its leases.
AttemptsCapped ==
    \A t \in Tasks :
        /\ Cardinality(AttemptsOf(t)) <= AttemptCap(4)
        /\ \A route \in Routes : Cardinality(AttemptsOn(t, route)) <= AttemptCap(2)

\* A lease has at most one call in progress: a route is not tried while the
\* reservation of the one before is still open.
OneOpenCall ==
    \A i, j \in DOMAIN attempts :
        /\ attempts[i].outcome = "open" /\ attempts[j].outcome = "open"
        /\ attempts[i].token = attempts[j].token
        => i = j

\* With provider "auto" a page goes to Bright Data only under a lease whose own
\* local_http call was made and settled before.
LocalComesFirst ==
    Provider = "auto" =>
        \A i \in DOMAIN attempts :
            attempts[i].route = "brightdata_unlocker" =>
                \E j \in 1 .. i - 1 :
                    /\ attempts[j].route = "local_http"
                    /\ attempts[j].token = attempts[i].token
                    /\ attempts[j].outcome # "open"

\* What one page may cost: the caps over all its leases, one call at a time, the
\* free route before the paid one, and no call settled below its bill.
RouteInv == AttemptsCapped /\ OneOpenCall /\ LocalComesFirst /\ BillsAreCovered

\* With provider "auto" a page is rendered by Firecrawl only when the browser of
\* the same lease was tried and its call settled, when the browser budget is
\* used up, or when the local provider is out of order or serves no browser.
BrowserComesFirst ==
    [][\A i \in DOMAIN attempts' :
          /\ Provider = "auto" /\ i \notin DOMAIN attempts
          /\ attempts'[i].route = "firecrawl_scrape"
          => \/ browserPages >= MaxBrowserPages \/ health["local"] # "configured"
             \/ "local_browser" \notin ServedRoutes
             \/ \E j \in DOMAIN attempts :
                   /\ attempts[j].route = "local_browser"
                   /\ attempts[j].token = attempts'[i].token
                   /\ attempts[j].outcome # "open"]_vars

\* A run that is in a call has an attempt of its own, under its task and token,
\* and a route it is made by; a call that ends has ended somehow.
RunsHaveAttempts ==
    \A w \in Workers :
        /\ run[w].phase \in {"reserve", "call", "navigate", "finish"} => run[w].todo # <<>>
        /\ run[w].phase = "finish" => run[w].kind # "none"
        /\ run[w].phase \in {"call", "navigate", "finish"} =>
              /\ run[w].id \in DOMAIN attempts
              /\ attempts[run[w].id].task = run[w].task
              /\ attempts[run[w].id].token = run[w].token

LedgerInv ==
    /\ LedgerTypeOK /\ RunsHaveAttempts
    /\ UsageWithinBudget /\ CallReservationsExact /\ AttemptsCapped

\* An attempt is settled once: neither a late finish nor a second
\* reconciliation touches its outcome or its charge again.
SettledOnce ==
    [][\A i \in DOMAIN attempts :
          attempts[i].outcome # "open" => attempts'[i] = attempts[i]]_vars

\* Every reservation is settled in the end, whatever becomes of the worker.
EveryCallSettles ==
    []<>(\A i \in DOMAIN attempts : attempts[i].outcome # "open")

\* docs/crawltrove-engineering-spec.md:184: browser_page_count is the "Atomic
\* count of browser-tier navigation starts": one unit for one navigation.
OneUnitPerNavigation == \A w \in Workers : run[w] # NoRun => run[w].navigations <= 1
=============================================================================
