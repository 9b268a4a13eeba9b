--------------------------- MODULE BrowserRuntime ---------------------------
(***************************************************************************)
(* The shared browser of one process (BrowserRuntime in app/scraper.py):   *)
(* every render and every retained human session of the process uses the   *)
(* same runtime object.  start() and close() await the Playwright driver   *)
(* and Chromium between reading and writing the attributes they guard, and *)
(* nothing serialises them, so the calls of several tasks interleave at    *)
(* every await.                                                            *)
(*                                                                         *)
(* A driver and the Chromium it launches share the identity of the start() *)
(* that created them; 0 is Python's None.  `_playwright` is not a variable *)
(* of its own: start() uses it at once after assigning it.                 *)
(***************************************************************************)
EXTENDS Naturals, FiniteSets

CONSTANTS
    Renders,        \* tasks that call render()
    Humans,         \* tasks that call open_owned_session()
    MaxContexts,    \* max_contexts: permits of the semaphore
    RestartAfter,   \* BROWSER_RESTART_CONTEXTS
    MaxLaunches     \* identities of drivers: one per task is never used up

ASSUME RuntimeAssumption ==
    /\ Renders \cap Humans = {} /\ IsFiniteSet(Renders \cup Humans)
    /\ MaxContexts \in Nat \ {0}
    /\ RestartAfter \in Nat \ {0}
    /\ MaxLaunches \in Nat

VARIABLES
    manager,    \* self._playwright_manager
    browser,    \* self._browser
    drivers,    \* drivers that run, by identity
    chromiums,  \* Chromium processes that run, by identity
    stopped,    \* drivers that were told to stop
    launches,   \* start() calls that created a driver
    permits,    \* self._contexts
    completed,  \* self._completed_contexts
    task        \* where each task is, what it holds

browserVars == <<manager, browser, drivers, chromiums, stopped, launches,
                 permits, completed, task>>

Clients == Renders \cup Humans
Launches == 0 .. MaxLaunches
Steps == {"idle", "driver", "launch", "wait", "page", "kept", "unwind", "close",
          "killing", "stopping", "done", "lost"}

(* The attributes, the process table and the tasks have the types the code  *)
(* gives them.                                                              *)
RuntimeTypeOK ==
    /\ manager \in Launches /\ browser \in Launches /\ launches \in Launches
    /\ drivers \subseteq Launches \ {0} /\ chromiums \subseteq Launches \ {0}
    /\ stopped \subseteq Launches \ {0}
    /\ permits \in 0 .. MaxContexts
    /\ completed \in 0 .. RestartAfter - 1
    /\ task \in [Clients -> [at: Steps, own: Launches, context: Launches,
                             grabbed: Launches]]

RuntimeInit ==
    /\ manager = 0 /\ browser = 0 /\ launches = 0
    /\ drivers = {} /\ chromiums = {} /\ stopped = {}
    /\ permits = MaxContexts /\ completed = 0
    /\ task = [t \in Clients |-> [at |-> "idle", own |-> 0, context |-> 0,
                                  grabbed |-> 0]]

At(t, step) == task[t].at = step
Goes(t, step) == task' = [task EXCEPT ![t].at = step]

-----------------------------------------------------------------------------
(* start() *)

(* The check of `_browser` and the assignment of the manager, up to the     *)
(* first await.  A browser that is there ends start() at once.              *)
BrowserMissing == browser = 0

BeginStart(t) ==
    /\ At(t, "idle")
    /\ IF BrowserMissing
       THEN /\ launches < MaxLaunches
            /\ launches' = launches + 1
            /\ manager' = launches + 1
            /\ task' = [task EXCEPT ![t].at = "driver", ![t].own = launches + 1]
       ELSE Goes(t, "wait") /\ UNCHANGED <<launches, manager>>
    /\ UNCHANGED <<browser, drivers, chromiums, stopped, permits, completed>>

DriverStarts(t) ==
    /\ At(t, "driver") /\ task[t].own \notin stopped
    /\ drivers' = drivers \cup {task[t].own}
    /\ Goes(t, "launch")
    /\ UNCHANGED <<manager, browser, chromiums, stopped, launches, permits, completed>>

ChromiumStarts(t) ==
    /\ At(t, "launch") /\ task[t].own \in drivers
    /\ chromiums' = chromiums \cup {task[t].own}
    /\ browser' = task[t].own
    /\ task' = [task EXCEPT ![t].at = "wait", ![t].own = 0]
    /\ UNCHANGED <<manager, drivers, stopped, launches, permits, completed>>

(* The driver or Chromium does not come up, or the driver was stopped       *)
(* meanwhile: the exception leaves start() before any try block, so nothing *)
(* is undone and no context is counted.                                     *)
StartFails(t) ==
    /\ At(t, "driver") \/ At(t, "launch")
    /\ Goes(t, "done")
    /\ UNCHANGED <<manager, browser, drivers, chromiums, stopped, launches, permits, completed>>

-----------------------------------------------------------------------------
(* render() and open_owned_session() behind the semaphore *)

Alive(id) == id \in chromiums

(* The permit is taken and `self._browser.new_context` runs at once: it     *)
(* raises when a recycling has set the attribute to None or the process it  *)
(* names is gone.  A render gives its permit back on the way out of the     *)
(* `async with`; a session that fails to open gives it back in its `except` *)
(* block ("unwind"), after closing what it opened.                          *)
TakePermitAlive(t) ==
    /\ At(t, "wait") /\ permits > 0 /\ Alive(browser)
    /\ permits' = permits - 1
    /\ task' = [task EXCEPT ![t].at = "page", ![t].context = browser]
    /\ UNCHANGED <<manager, browser, drivers, chromiums, stopped, launches, completed>>

TakePermit(t) ==
    /\ At(t, "wait") /\ permits > 0
    /\ IF Alive(browser)
       THEN /\ permits' = permits - 1
            /\ task' = [task EXCEPT ![t].at = "page", ![t].context = browser]
       ELSE /\ permits' = IF t \in Humans THEN permits - 1 ELSE permits
            /\ Goes(t, IF t \in Humans THEN "unwind" ELSE "close")
    /\ UNCHANGED <<manager, browser, drivers, chromiums, stopped, launches, completed>>

LeavesPage(t) == permits' = IF t \in Renders THEN permits + 1 ELSE permits

(* The page was captured (a render) or is handed to the session runner.     *)
PageReady(t) ==
    /\ At(t, "page") /\ Alive(task[t].context)
    /\ LeavesPage(t)
    /\ Goes(t, IF t \in Renders THEN "close" ELSE "kept")
    /\ UNCHANGED <<manager, browser, drivers, chromiums, stopped, launches, completed>>

(* Navigation, the byte limits, the 90 s timeout, a cancelled render or a   *)
(* browser that died under the page.  When it is _new_guarded_page that     *)
(* fails, it has closed its context and the caller knows of none.           *)
PageFails(t) ==
    /\ At(t, "page")
    /\ LeavesPage(t)
    /\ \E known \in {0, task[t].context} :
          task' = [task EXCEPT ![t].at = IF t \in Renders THEN "close" ELSE "unwind",
                               ![t].context = known]
    /\ UNCHANGED <<manager, browser, drivers, chromiums, stopped, launches, completed>>

(* OwnedSessionContext.close() calls release() when the human is done, the  *)
(* session expired or its worker gave up.                                   *)
SessionEnds(t) ==
    /\ At(t, "kept")
    /\ Goes(t, "close")
    /\ UNCHANGED <<manager, browser, drivers, chromiums, stopped, launches, permits, completed>>

(* release() in its two finally blocks, or the end of the except block.     *)
Releasable(t) == t \in Humans /\ (At(t, "close") \/ At(t, "unwind"))

CloseOpened(t) ==
    /\ Releasable(t)
    /\ permits' = IF task[t].context = 0 THEN permits ELSE permits + 1
    /\ task' = [task EXCEPT ![t].at = "done", ![t].context = 0]
    /\ UNCHANGED <<manager, browser, drivers, chromiums, stopped, launches, completed>>

CloseSession(t) ==
    /\ Releasable(t)
    /\ permits' = permits + 1
    /\ task' = [task EXCEPT ![t].at = "done", ![t].context = 0]
    /\ UNCHANGED <<manager, browser, drivers, chromiums, stopped, launches, completed>>

(* The except block awaits context.close() and transport.close() before it  *)
(* releases: one of them may raise or be cancelled.  A cancellation while   *)
(* the page is opened does not enter `except Exception` at all.             *)
OpeningCutOff(t) ==
    /\ t \in Humans
    /\ At(t, "page") \/ (At(t, "unwind") /\ task[t].context # 0)
    /\ Goes(t, "lost")
    /\ UNCHANGED <<manager, browser, drivers, chromiums, stopped, launches, permits, completed>>

-----------------------------------------------------------------------------
(* render()'s finally and close() *)

(* close() up to its first await: `_browser` is taken away first; when it   *)
(* was None already the manager is taken at once.                           *)
Recycle(t) ==
    IF browser # 0
    THEN /\ browser' = 0
         /\ task' = [task EXCEPT ![t].at = "killing", ![t].context = 0,
                                 ![t].grabbed = browser]
         /\ UNCHANGED manager
    ELSE /\ manager' = 0
         /\ task' = [task EXCEPT ![t].at = IF manager = 0 THEN "done" ELSE "stopping",
                                 ![t].context = 0, ![t].grabbed = manager]
         /\ UNCHANGED browser

RecycleDue == completed + 1 >= RestartAfter

CloseRender(t) ==
    /\ t \in Renders /\ At(t, "close")
    /\ IF RecycleDue
       THEN completed' = 0 /\ Recycle(t)
       ELSE /\ completed' = completed + 1
            /\ task' = [task EXCEPT ![t].at = "done", ![t].context = 0]
            /\ UNCHANGED <<manager, browser>>
    /\ UNCHANGED <<drivers, chromiums, stopped, launches, permits>>

(* render()'s finally closes its context first; when that raises, nothing   *)
(* is counted and nothing recycled.                                         *)
RenderCloseRaises(t) ==
    /\ t \in Renders /\ At(t, "close") /\ task[t].context # 0
    /\ task' = [task EXCEPT ![t].at = "done", ![t].context = 0]
    /\ UNCHANGED <<manager, browser, drivers, chromiums, stopped, launches, permits, completed>>

(* `await browser.close()` returns and whatever manager is then current is  *)
(* taken to be stopped.                                                     *)
KillChromium(t) ==
    /\ At(t, "killing")
    /\ chromiums' = chromiums \ {task[t].grabbed}
    /\ manager' = 0
    /\ task' = [task EXCEPT ![t].at = IF manager = 0 THEN "done" ELSE "stopping",
                            ![t].grabbed = manager]
    /\ UNCHANGED <<browser, drivers, stopped, launches, permits, completed>>

StopDriver(t) ==
    /\ At(t, "stopping")
    /\ drivers' = drivers \ {task[t].grabbed}
    /\ chromiums' = chromiums \ {task[t].grabbed}
    /\ stopped' = stopped \cup {task[t].grabbed}
    /\ Goes(t, "done")
    /\ UNCHANGED <<manager, browser, launches, permits, completed>>

-----------------------------------------------------------------------------
(* A step the event loop takes for t whatever the outside world does.       *)
RuntimeStep(t) ==
    \/ BeginStart(t) \/ DriverStarts(t) \/ ChromiumStarts(t) \/ StartFails(t)
    \/ TakePermit(t) \/ PageReady(t) \/ PageFails(t) \/ SessionEnds(t)
    \/ CloseSession(t) \/ OpeningCutOff(t)
    \/ CloseRender(t) \/ RenderCloseRaises(t) \/ KillChromium(t) \/ StopDriver(t)

RuntimeNext == \E t \in Clients : RuntimeStep(t)

-----------------------------------------------------------------------------
(* A session that is cut off in its except block keeps its permit for good. *)
Lost == {t \in Humans : At(t, "lost")}
Holding(t) ==
    At(t, "page") \/ (t \in Humans /\ task[t].at \in {"kept", "unwind", "close", "lost"})

(* However renders and sessions fail, die with a recycled browser or race   *)
(* start(), none is given back twice, and none is missing but those of the  *)
(* tasks that have a page open, of the sessions still to close and of the   *)
(* sessions that open_owned_session cut off while it cleaned up.            *)
ContextPermitsExact ==
    permits + Cardinality({t \in Clients : Holding(t)}) = MaxContexts

(* Every call comes back, although the browser may be recycled under any of *)
(* them: nobody waits for a permit for ever unless all of them are lost to  *)
(* sessions that were cut off.                                              *)
EveryCallReturns ==
    \A t \in Clients :
        (~At(t, "idle")) ~> (At(t, "done") \/ At(t, "lost") \/ Cardinality(Lost) = MaxContexts)

(* docs/crawltrove-engineering-spec.md:572: one long-lived Chromium process *)
(* per worker process.                                                      *)
OneChromium == Cardinality(chromiums) <= 1
=============================================================================
