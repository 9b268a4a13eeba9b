---------------------------- MODULE ProcessLife -----------------------------
(***************************************************************************)
(* How an API process comes up and goes down (app/main.py), with the       *)
(* migrations (app/db/migrate.py), the shared connection pool              *)
(* (app/db/pool.py) and the start and stop of the crawl service            *)
(* (app/crawl/service.py).  A process may migrate the database while       *)
(* another does (a redeployment, app/admin.py), and in each of them        *)
(* startup and the research runs it resumed ask for the pool.              *)
(***************************************************************************)
EXTENDS Naturals

CONSTANTS
    Procs,          \* API processes
    LastVersion     \* the migrations are 1 .. LastVersion, in the order of their names

ASSUME LifeAssumption == LastVersion \in Nat \ {0}

VARIABLES
    schema,     \* versions in schema_migrations
    functions,  \* the version that last replaced the stored functions
    known,      \* the versions a process believes applied (done)
    boot,       \* where startup or shutdown is
    loops,      \* the worker and maintenance tasks of the crawl service run
    ticking,    \* the scheduler task runs
    held,       \* _pool is set
    opened,     \* pools the process has open
    gate,       \* who holds _lock
    call,       \* where each caller of get_pool is
    cut         \* a run of the migrations ended early

bootVars == <<boot, loops, ticking>>
poolVars == <<held, opened, gate, call>>
lifeVars == <<schema, functions, known, cut, bootVars, poolVars>>

Migrations == 1 .. LastVersion
Callers == {"startup", "other"}
Unheld == "free"

LifeInit ==
    /\ schema = {} /\ functions = 0 /\ cut = FALSE
    /\ known = [p \in Procs |-> {}]
    /\ boot = [p \in Procs |-> "down"]
    /\ loops = [p \in Procs |-> FALSE] /\ ticking = [p \in Procs |-> FALSE]
    /\ held = [p \in Procs |-> FALSE] /\ opened = [p \in Procs |-> 0]
    /\ gate = [p \in Procs |-> Unheld]
    /\ call = [p \in Procs |-> [c \in Callers |-> "out"]]
-----------------------------------------------------------------------------
(* run_migrations: the versions done are read once; every other one runs in *)
(* a transaction of its own with the row that records it.  The statements   *)
(* may be run again (IF NOT EXISTS, OR REPLACE).                            *)

ReadDone(p) ==
    /\ boot[p] = "down"
    /\ boot' = [boot EXCEPT ![p] = "migrate"]
    /\ known' = [known EXCEPT ![p] = schema]
    /\ UNCHANGED <<schema, functions, cut, loops, ticking, poolVars>>

Unapplied(p) == Migrations \ known[p]

(* sorted(os.listdir(...))                                                  *)
IsNext(v, p) == v \in Unapplied(p) /\ \A w \in Unapplied(p) : v <= w

ApplyMigration(p) ==
    /\ boot[p] = "migrate"
    /\ \E v \in Unapplied(p) :
          /\ IsNext(v, p)
          /\ schema' = schema \union {v} /\ functions' = v
          /\ known' = [known EXCEPT ![p] = @ \union {v}]
    /\ UNCHANGED <<cut, bootVars, poolVars>>

AllApplied(p) == Unapplied(p) = {}

MigrationsDone(p) ==
    /\ boot[p] = "migrate" /\ AllApplied(p)
    /\ boot' = [boot EXCEPT ![p] = "open"]
    /\ UNCHANGED <<schema, functions, known, cut, loops, ticking, poolVars>>

(* A statement or the connection fails: startup logs it and returns, and    *)
(* the process serves without crawl service and scheduler.                  *)
GiveUp(p) ==
    /\ boot' = [boot EXCEPT ![p] = "serving"] /\ cut' = TRUE
    /\ UNCHANGED <<known, loops, ticking>>

MigrationFails(p) ==
    /\ boot[p] = "migrate"
    /\ GiveUp(p)
    /\ UNCHANGED <<schema, functions, poolVars>>
-----------------------------------------------------------------------------
(* get_pool, step by step: the look without the lock, the look with it, and *)
(* what create_pool answers.                                                *)

(* Only startup decides by what its call returned; the others call again.   *)
Returned(c, answer) == IF c = "startup" THEN answer ELSE "out"

LifeSame == UNCHANGED <<schema, functions, known, cut, bootVars>>

GetPool(p, c) ==
    /\ call[p][c] = "out"
    /\ IF c = "startup" THEN boot[p] = "open" ELSE boot[p] # "down"
    /\ call' = [call EXCEPT ![p][c] = IF held[p] THEN Returned(c, "got") ELSE "waiting"]
    /\ LifeSame /\ UNCHANGED <<held, opened, gate>>

(* The lock alone.                                                          *)
NoSecondLook(p) == FALSE
(* Another coroutine won the race.                                          *)
SecondLook(p) == held[p]

EnterLock(p, c) ==
    /\ call[p][c] = "waiting" /\ gate[p] = Unheld
    /\ IF SecondLook(p)
       THEN call' = [call EXCEPT ![p][c] = Returned(c, "got")] /\ UNCHANGED gate
       ELSE /\ call' = [call EXCEPT ![p][c] = "creating"]
            /\ gate' = [gate EXCEPT ![p] = c]
    /\ LifeSame /\ UNCHANGED <<held, opened>>

Unlocked(p, c) == gate' = [gate EXCEPT ![p] = IF @ = c THEN Unheld ELSE @]

PoolCreated(p, c) ==
    /\ call[p][c] = "creating"
    /\ held' = [held EXCEPT ![p] = TRUE] /\ opened' = [opened EXCEPT ![p] = @ + 1]
    /\ call' = [call EXCEPT ![p][c] = Returned(c, "got")]
    /\ Unlocked(p, c) /\ LifeSame

PoolFails(p, c) ==
    /\ call[p][c] = "creating"
    /\ held' = [held EXCEPT ![p] = FALSE]
    /\ call' = [call EXCEPT ![p][c] = Returned(c, "none")]
    /\ Unlocked(p, c) /\ LifeSame /\ UNCHANGED opened
-----------------------------------------------------------------------------
(* The rest of startup: with a pool the crawl service is started, which may *)
(* fail; with or without it the scheduler is.                               *)

StartService(p) ==
    /\ boot[p] = "open" /\ call[p]["startup"] \in {"got", "none"}
    /\ \E started \in IF call[p]["startup"] = "got" THEN BOOLEAN ELSE {FALSE} :
          loops' = [loops EXCEPT ![p] = started]
    /\ ticking' = [ticking EXCEPT ![p] = TRUE]
    /\ boot' = [boot EXCEPT ![p] = "serving"]
    /\ call' = [call EXCEPT ![p]["startup"] = "out"]
    /\ UNCHANGED <<schema, functions, known, cut, held, opened, gate>>

(* Shutdown, in this order: the service's tasks, the scheduler, the pool.   *)
ShutdownOrder == <<"service", "scheduler", "pool">>
ShutdownStage(p) == CASE boot[p] = "serving" -> 1 [] boot[p] = "stopping" -> 2
              [] boot[p] = "closing" -> 3 [] OTHER -> 0
NextStage(p) == [boot EXCEPT ![p] = CASE ShutdownStage(p) = 1 -> "stopping" [] ShutdownStage(p) = 2 -> "closing"
                                       [] OTHER -> "ended"]

StopService(p) ==
    /\ ShutdownStage(p) # 0 /\ ShutdownOrder[ShutdownStage(p)] = "service"
    /\ boot' = NextStage(p) /\ loops' = [loops EXCEPT ![p] = FALSE]
    /\ UNCHANGED <<schema, functions, known, cut, ticking, poolVars>>

StopScheduler(p) ==
    /\ ShutdownStage(p) # 0 /\ ShutdownOrder[ShutdownStage(p)] = "scheduler"
    /\ boot' = NextStage(p) /\ ticking' = [ticking EXCEPT ![p] = FALSE]
    /\ UNCHANGED <<schema, functions, known, cut, loops, poolVars>>

(* reset_pool: the pool is closed and forgotten, and so is the lock.        *)
ResetPool(p) ==
    /\ ShutdownStage(p) # 0 /\ ShutdownOrder[ShutdownStage(p)] = "pool"
    /\ boot' = NextStage(p)
    /\ opened' = [opened EXCEPT ![p] = IF held[p] THEN @ - 1 ELSE @]
    /\ held' = [held EXCEPT ![p] = FALSE] /\ gate' = [gate EXCEPT ![p] = Unheld]
    /\ UNCHANGED <<schema, functions, known, cut, loops, ticking, call>>

ProcessDies(p) ==
    /\ boot[p] # "down"
    /\ boot' = [boot EXCEPT ![p] = "down"]
    /\ cut' = (cut \/ boot[p] = "migrate")
    /\ known' = [known EXCEPT ![p] = {}]
    /\ loops' = [loops EXCEPT ![p] = FALSE] /\ ticking' = [ticking EXCEPT ![p] = FALSE]
    /\ held' = [held EXCEPT ![p] = FALSE] /\ opened' = [opened EXCEPT ![p] = 0]
    /\ gate' = [gate EXCEPT ![p] = Unheld]
    /\ call' = [call EXCEPT ![p] = [c \in Callers |-> "out"]]
    /\ UNCHANGED <<schema, functions>>

LifeNext ==
    \E p \in Procs :
       \/ ReadDone(p) \/ ApplyMigration(p) \/ MigrationsDone(p) \/ MigrationFails(p)
       \/ \E c \in Callers : GetPool(p, c) \/ EnterLock(p, c) \/ PoolCreated(p, c) \/ PoolFails(p, c)
       \/ StartService(p)
       \/ StopService(p) \/ StopScheduler(p) \/ ResetPool(p) \/ ProcessDies(p)

LifeSpec == LifeInit /\ [][LifeNext]_lifeVars
-----------------------------------------------------------------------------
(* Whichever processes migrate at once, fail or die, no migration is        *)
(* applied while an earlier one is not (run_migrations, _migration_files).  *)
SchemaIsPrefix == \A v \in schema : 1 .. v \subseteq schema

(* Processes that ran one migration twice, the older after the newer, end   *)
(* with the newest functions, unless a run was cut short in between         *)
(* (0009_proxy_worker_protocol.sql replaces functions of 0007).             *)
FunctionsAreNewest ==
    (~cut /\ \A p \in Procs : boot[p] # "migrate") => \A v \in schema : v <= functions

(* No worker, maintenance or scheduler task of any process runs on a schema *)
(* that is not complete (_on_startup returns when a migration failed).      *)
ServiceHasSchema == \A p \in Procs : loops[p] \/ ticking[p] => schema = Migrations

(* Until shutdown forgets the lock, callers of get_pool that race open one  *)
(* pool between them.                                                       *)
OnePool == \A p \in Procs : boot[p] # "ended" => opened[p] = (IF held[p] THEN 1 ELSE 0)

(* The tasks of the crawl service never outlive the pool they were started  *)
(* with (_on_shutdown stops the service first).                             *)
LoopsHavePool == \A p \in Procs : loops[p] => held[p]

(* Processes that migrate, connect and stop beside each other: the schema is *)
(* a prefix of the migrations, services run on all of it, and every loop     *)
(* uses the one open pool.                                                   *)
LifeInv == SchemaIsPrefix /\ FunctionsAreNewest /\ ServiceHasSchema /\ OnePool /\ LoopsHavePool
=============================================================================
