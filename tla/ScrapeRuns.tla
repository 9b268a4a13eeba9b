------------------------------ MODULE ScrapeRuns ------------------------------
(***************************************************************************)
(* The runs of the API process (app/runner.py, app/scheduler.py,           *)
(* app/batch.py, the run and job tables of app/db/repo.py, and the events  *)
(* of app/webhooks.py).  Every database call is swallowed when it fails;   *)
(* the process may restart, and its tasks are then gone.                   *)
(* The interval of a schedule is abstracted to the moment it has elapsed.  *)
(***************************************************************************)
EXTENDS Naturals, FiniteSets, Sequences, SequencesExt

CONSTANTS
    Defs,           \* rows of scrape_jobs
    KindOf,         \* "scrape" or "crawl"
    Scheduled,      \* definitions that are enabled and have an interval
    BatchUrls,      \* the URLs of a batch
    MaxRuns,        \* bound on the rows of scrape_runs
    MaxBoots        \* bound on the restarts of the process

ASSUME RunsAssumption ==
    /\ KindOf \in [Defs -> {"scrape", "crawl"}] /\ Scheduled \subseteq Defs
    /\ MaxRuns \in Nat /\ MaxBoots \in Nat /\ IsFiniteSet(Defs)

VARIABLES
    due,        \* definitions with next_run_at <= now()
    claimed,    \* the list claim_due_jobs returned, not launched yet
    runs,       \* scrape_runs, a sequence: the id of a run is its index
    tasks,      \* per run, the coroutine that executes it
    events,     \* webhook posts: run id and status
    boots

svars == <<due, claimed, runs, tasks, events, boots>>

Adhoc == "adhoc"
ActiveStatus == {"pending", "processing"}
Row(def, trigger, status) ==
    [def |-> def, trigger |-> trigger, status |-> status, pages |-> 0]
NoTask == [at |-> "none", left |-> {}, good |-> 0, bad |-> 0]
Task(at, urls) == [NoTask EXCEPT !.at = at, !.left = urls]

RunsInit ==
    /\ due = {} /\ claimed = <<>> /\ runs = <<>> /\ tasks = <<>>
    /\ events = <<>> /\ boots = 0

(* record_run_start: a row and the coroutine that owns it. *)
NewRunRow(row, task) ==
    /\ Len(runs) < MaxRuns
    /\ runs' = Append(runs, row)
    /\ tasks' = Append(tasks, task)

(* next_run_at of an enabled definition passes. *)
Elapse(d) ==
    /\ d \in Scheduled \ due /\ Len(runs) < MaxRuns
    /\ due' = due \cup {d}
    /\ UNCHANGED <<claimed, runs, tasks, events, boots>>

(* The overlap guard of claim_due_jobs. *)
HasStartedRun(d) == \E i \in DOMAIN runs : runs[i].def = d /\ runs[i].status = "processing"
HasActiveRun(d) == \E i \in DOMAIN runs : runs[i].def = d /\ runs[i].status \in ActiveStatus

(* claim_due_jobs: every due definition is rescheduled, those without an *)
(* active run are returned to be launched.                               *)
ClaimDue ==
    /\ claimed = <<>> /\ due # {}
    /\ due' = {}
    /\ claimed' = SetToSeq({d \in due : ~HasActiveRun(d)})
    /\ UNCHANGED <<runs, tasks, events, boots>>

(* The transaction fails after some rows: it is rolled back, and the rows *)
(* collected so far are launched all the same.                            *)
ClaimRolledBack ==
    /\ claimed = <<>>
    /\ \E some \in SUBSET {d \in due : ~HasActiveRun(d)} :
         some # {} /\ claimed' = SetToSeq(some)
    /\ UNCHANGED <<due, runs, tasks, events, boots>>

(* launch_job: a crawl is submitted to the durable queue, which owns the *)
(* run row from then on; a scrape gets a row and a background task.      *)
LaunchJob(d, trigger) ==
    /\ NewRunRow(Row(d, trigger, "pending"),
                 IF KindOf[d] = "crawl" THEN Task("durable", {}) ELSE Task("start", {d}))
    /\ UNCHANGED <<events, boots>>

(* The scheduler loop launches what it claimed; a failed INSERT loses it. *)
LaunchClaimed ==
    /\ claimed # <<>>
    /\ claimed' = Tail(claimed)
    /\ \/ LaunchJob(Head(claimed), "schedule") /\ UNCHANGED due
       \/ UNCHANGED <<due, runs, tasks, events, boots>>

RunJobNow(d) == LaunchJob(d, "manual") /\ UNCHANGED <<due, claimed>>

(* A scrape request persisted by persist_scrape_page, after its files. *)
PersistScrape ==
    /\ NewRunRow(Row(Adhoc, "manual", "processing"), [Task("page", {}) EXCEPT !.good = 1])
    /\ UNCHANGED <<due, claimed, events, boots>>

StartBatch ==
    /\ NewRunRow(Row(Adhoc, "batch", "processing"), Task("gather", BatchUrls))
    /\ UNCHANGED <<due, claimed, events, boots>>

(* The task of run i goes on at the await named at. *)
Advance(i, task) ==
    /\ tasks' = [tasks EXCEPT ![i] = task]
    /\ UNCHANGED <<due, claimed, boots>>

(* _execute: mark_run_processing, which may fail and is swallowed. *)
MarkProcessing(i) ==
    /\ tasks[i].at = "start"
    /\ runs' \in {runs, [runs EXCEPT ![i].status = "processing"]}
    /\ Advance(i, [tasks[i] EXCEPT !.at = "scrape"])
    /\ UNCHANGED events

(* _execute: the scrape fails or raises; or its artifact is saved. *)
ExecuteScrape(i) ==
    /\ tasks[i].at = "scrape"
    /\ \/ Advance(i, [tasks[i] EXCEPT !.at = "finish", !.bad = 1, !.left = {}])
       \/ Advance(i, [tasks[i] EXCEPT !.at = "page", !.good = 1, !.left = {}])
    /\ UNCHANGED <<runs, events>>

(* run_batch: one URL of the gather ends; its artifact is not the run's. *)
BatchOne(i, u) ==
    /\ tasks[i].at = "gather" /\ u \in tasks[i].left
    /\ \E good \in {0, 1} :
         LET task == [tasks[i] EXCEPT !.left = @ \ {u}, !.good = @ + good, !.bad = @ + (1 - good)]
         IN Advance(i, IF task.left = {} THEN [task EXCEPT !.at = "page"] ELSE task)
    /\ UNCHANGED <<runs, events>>

(* record_page of every page; a failure is swallowed. *)
RecordPages(i) ==
    /\ tasks[i].at = "page"
    /\ Advance(i, [tasks[i] EXCEPT !.at = "finish"])
    /\ UNCHANGED <<runs, events>>

(* The status a task ends its run with. *)
Verdict(i) == IF tasks[i].good > 0 THEN "completed" ELSE "failed"
MaybeSent(i) == events' \in {events, Append(events, [run |-> i, status |-> Verdict(i)])}

(* record_run_finish: the row, and when that worked the event. *)

RecordRunFinish(i) ==
    /\ tasks[i].at = "finish"
    /\ \/ /\ runs' = [runs EXCEPT ![i].status = Verdict(i), ![i].pages = tasks[i].good]
          /\ MaybeSent(i)
       \/ UNCHANGED <<runs, events>>
    /\ Advance(i, NoTask)

(* finalize_jobs of the durable queue ends the run row of a crawl. *)
DurableFinish(i) ==
    /\ tasks[i].at = "durable"
    /\ \E status \in {"completed", "failed", "cancelled"} :
         runs' = [runs EXCEPT ![i].status = status]
    /\ Advance(i, NoTask)
    /\ UNCHANGED events

(* The process restarts: tasks and claims are gone, the rows stay.       *)
(* A durable crawl goes on in its queue.                                 *)
Reboot ==
    /\ boots < MaxBoots
    /\ boots' = boots + 1
    /\ claimed' = <<>>
    /\ tasks' = [i \in DOMAIN tasks |-> IF tasks[i].at = "durable" THEN tasks[i] ELSE NoTask]
    /\ UNCHANGED <<due, runs, events>>

TaskStep(i) ==
    \/ MarkProcessing(i) \/ ExecuteScrape(i) \/ RecordPages(i) \/ RecordRunFinish(i)
    \/ DurableFinish(i) \/ \E u \in BatchUrls : BatchOne(i, u)

SchedulerStep == ClaimDue \/ LaunchClaimed

RunsNext ==
    \/ \E d \in Defs : Elapse(d) \/ RunJobNow(d)
    \/ SchedulerStep \/ ClaimRolledBack \/ PersistScrape \/ StartBatch
    \/ \E i \in DOMAIN tasks : TaskStep(i)
    \/ Reboot

-------------------------------------------------------------------------------
(* Properties *)

(* Rows and tasks go together, with the statuses of scrape_runs. *)
RunsTypeOK ==
    /\ due \subseteq Scheduled /\ DOMAIN runs = DOMAIN tasks
    /\ \A i \in DOMAIN runs : runs[i].status \in ActiveStatus \cup {"completed", "failed", "cancelled"}

Executing(i) == tasks[i].at # "none"

(* The overlap guard: a definition is never executed twice at once by the  *)
(* scheduler, although the claim, the INSERT of the run and the execution  *)
(* are separate steps that may each fail.                                  *)
NoScheduledOverlap ==
    \A i, j \in DOMAIN runs :
        /\ runs[i].trigger = "schedule" /\ runs[j].trigger = "schedule"
        /\ runs[i].def = runs[j].def /\ Executing(i) /\ Executing(j)
        => i = j

(* An event is sent once per run, says what the row says, and the row says *)
(* it for good.                                                            *)
EventsTellTheTruth ==
    /\ \A i, j \in DOMAIN events : events[i].run = events[j].run => i = j
    /\ \A i \in DOMAIN events : runs[events[i].run].status = events[i].status
===============================================================================
