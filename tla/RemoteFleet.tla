----------------------------- MODULE RemoteFleet ------------------------------
(***************************************************************************)
(* Remote crawl workers: the process of app/worker_main.py, its restricted *)
(* client app/crawl/remote_repository.py, and the worker_api functions of  *)
(* the database the client calls.  Each function is one transaction that   *)
(* first looks up the identity of the caller (_identity) and raises unless *)
(* it is active.  One action of a worker is the code between two awaits.   *)
(*                                                                         *)
(* Time is abstracted: a lease nobody renews may lapse, and the reaper of  *)
(* the core then takes it back.  All tasks are of one job.                 *)
(***************************************************************************)
EXTENDS Naturals, FiniteSets

CONSTANTS
    Fleet,          \* enrolled workers
    Pages,          \* crawl_tasks
    Compatible,     \* workers whose protocol and capabilities are enrolled
    Nobody, NoPage,
    AttemptLimit,   \* max_attempts
    MaxStarts, MaxGrants    \* bounds: process starts per worker, lease tokens

ASSUME FleetAssumption ==
    /\ Compatible \subseteq Fleet /\ Nobody \notin Fleet /\ NoPage \notin Pages
    /\ {AttemptLimit, MaxStarts, MaxGrants} \subseteq Nat

VARIABLES
    identity,   \* workers.state
    proc,       \* the WorkerRuntime of each worker and its run_once
    row,        \* crawl_tasks: state, lease, attempts; late: the lease expired
    halted,     \* the job is cancelled or past its deadline
    objects,    \* artifact store: what was uploaded under which lease
    result,     \* crawl_results: the lease and the artifact of a page
    granted,    \* lease tokens handed out
    starts,
    refused     \* completions turned away although lease and job were good

fvars == <<identity, proc, row, halted, objects, result, granted, starts, refused>>

NoResult == [token |-> 0, worker |-> Nobody]
Stopped == [at |-> "down", draining |-> FALSE, known |-> FALSE, page |-> NoPage,
            token |-> 0, beats |-> FALSE, broken |-> FALSE, lost |-> FALSE]
NewRow == [state |-> "absent", owner |-> Nobody, token |-> 0, attempts |-> 0, late |-> FALSE]
Free(r, state) == [r EXCEPT !.state = state, !.owner = Nobody, !.token = 0, !.late = FALSE]

FleetInit ==
    /\ identity = [w \in Fleet |-> "active"]
    /\ proc = [w \in Fleet |-> Stopped]
    /\ row = [p \in Pages |-> NewRow]
    /\ halted = FALSE /\ objects = {}
    /\ result = [p \in Pages |-> NoResult]
    /\ granted = 0 /\ starts = [w \in Fleet |-> 0] /\ refused = {}

Working == {"work", "put", "complete", "fail"}
Holds(w) == proc[w].page
(* _identity: the functions raise for a worker that is not active. *)
Active(w) == identity[w] = "active"

(* The WHERE clause every fenced function shares. *)
AnyLease(w) == Holds(w) # NoPage /\ row[Holds(w)].state = "leased"
OwnLease(w) ==
    /\ Holds(w) # NoPage /\ row[Holds(w)].state = "leased"
    /\ row[Holds(w)].token = proc[w].token /\ row[Holds(w)].owner = w

Becomes(w, p) == proc' = [proc EXCEPT ![w] = p]
At(w, at) == Becomes(w, [proc[w] EXCEPT !.at = at])
(* An exception that leaves tick ends run, and with it the process. *)
Exits(w) == Becomes(w, Stopped)
Database == <<identity, row, halted, objects, result, granted, starts, refused>>

(* submit_job of the core: the seed is the first page of the job. *)
SubmitSeed(p) ==
    /\ \A q \in Pages : row[q].state = "absent"
    /\ ~halted
    /\ row' = [row EXCEPT ![p].state = "pending"]
    /\ UNCHANGED <<identity, proc, halted, objects, result, granted, starts, refused>>

-------------------------------------------------------------------------------
(* The process *)

StartProcess(w) ==
    /\ proc[w].at = "down" /\ starts[w] < MaxStarts
    /\ starts' = [starts EXCEPT ![w] = @ + 1]
    /\ At(w, "poll")
    /\ UNCHANGED <<identity, row, halted, objects, result, granted, refused>>

(* tick: a worker that knows itself registered goes on to its checks. *)
BeginTick(w) ==
    /\ proc[w].at = "poll" /\ ~proc[w].draining
    /\ At(w, IF proc[w].known THEN "check" ELSE "register")
    /\ UNCHANGED Database

(* register sets the row to active unless it is revoked. *)
Registered(w) ==
    IF identity[w] = "revoked" THEN "revoked"
    ELSE IF w \in Compatible THEN "active" ELSE "incompatible"

Register(w) ==
    /\ proc[w].at = "register"
    /\ \/ /\ identity' = [identity EXCEPT ![w] = Registered(w)]
          /\ Becomes(w, [proc[w] EXCEPT !.known = identity'[w] = "active",
                            !.at = IF identity'[w] = "active" THEN "check" ELSE "poll"])
       \/ At(w, "poll") /\ UNCHANGED identity       \* the call failed
    /\ UNCHANGED <<row, halted, objects, result, granted, starts, refused>>

(* _check_artifacts and _check_browser. *)
CheckHealth(w) ==
    /\ proc[w].at = "check"
    /\ \E at \in {"claim", "poll"} : At(w, at)
    /\ UNCHANGED Database

(* worker_api.claim; a refused or failed call ends the process. *)
Claim(w) ==
    /\ proc[w].at = "claim"
    /\ \/ \E p \in Pages :
            /\ Active(w) /\ ~halted /\ granted < MaxGrants
            /\ row[p].state \in {"pending", "retry_wait"}
            /\ granted' = granted + 1
            /\ row' = [row EXCEPT ![p] = [state |-> "leased", owner |-> w, token |-> granted + 1,
                                          attempts |-> @.attempts + 1, late |-> FALSE]]
            /\ Becomes(w, [proc[w] EXCEPT !.at = "needs", !.page = p, !.token = granted + 1])
       \/ At(w, "poll") /\ Active(w) /\ UNCHANGED <<row, granted>>
       \/ Exits(w) /\ UNCHANGED <<row, granted>>
    /\ UNCHANGED <<identity, halted, objects, result, starts, refused>>

(* task_capabilities, a second call: a claim whose lease went meanwhile is *)
(* none, and the lease of a failed call is left behind.                    *)
AskCapabilities(w) ==
    /\ proc[w].at = "needs"
    /\ \/ /\ Active(w)
          /\ Becomes(w, IF OwnLease(w)
                        THEN [proc[w] EXCEPT !.at = "work", !.beats = TRUE]
                        ELSE [proc[w] EXCEPT !.at = "poll", !.page = NoPage])
       \/ Exits(w)
    /\ UNCHANGED Database

(* run_once beside its heartbeat: the acquisition succeeds, fails, or is *)
(* cancelled because the lease is lost.                                  *)
Acquire(w) ==
    /\ proc[w].at = "work"
    /\ \E at \in (IF proc[w].lost THEN {"end"} ELSE {"put", "fail"}) : At(w, at)
    /\ UNCHANGED Database

(* heartbeat: renewed; rejected, and the lease is known to be lost; or the *)
(* call raises and no further heartbeat is sent.                           *)
Beat(w) ==
    /\ proc[w].at \in Working /\ proc[w].beats
    /\ \/ /\ Active(w) /\ OwnLease(w) /\ ~halted
          /\ row' = [row EXCEPT ![Holds(w)].late = FALSE]
          /\ UNCHANGED proc
       \/ /\ Active(w) /\ (~OwnLease(w) \/ halted)
          /\ Becomes(w, [proc[w] EXCEPT !.beats = FALSE, !.lost = TRUE, !.known = FALSE])
          /\ UNCHANGED row
       \/ /\ Becomes(w, [proc[w] EXCEPT !.beats = FALSE, !.broken = TRUE])
          /\ UNCHANGED row
    /\ UNCHANGED <<identity, halted, objects, result, granted, starts, refused>>

(* block_robots, before anything is fetched: fenced, and refused like a *)
(* completion when the job has ended.                                   *)
MayComplete(w) == OwnLease(w) /\ ~halted

BlockRobots(w) ==
    /\ proc[w].at = "work" /\ ~proc[w].lost
    /\ Active(w)
    /\ row' = IF MayComplete(w) THEN [row EXCEPT ![Holds(w)] = Free(@, "blocked_robots")] ELSE row
    /\ At(w, "end")
    /\ UNCHANGED <<identity, halted, objects, result, granted, starts, refused>>

(* The failure of a call is reported unless the lease is known to be lost. *)
Failing(w) == IF proc[w].lost THEN "end" ELSE "fail"

(* _ArtifactRepository.complete_task: upload and verify, then the row. *)
PutSwallowed(w) ==
    /\ proc[w].at = "put"
    /\ objects' \in {objects, objects \cup {[page |-> Holds(w), token |-> proc[w].token, worker |-> w]}}
    /\ At(w, "complete")
    /\ UNCHANGED <<identity, row, halted, result, granted, starts, refused>>

PutArtifact(w) ==
    /\ proc[w].at = "put"
    /\ \/ objects' = objects \cup {[page |-> Holds(w), token |-> proc[w].token, worker |-> w]}
          /\ At(w, "complete")
       \/ At(w, Failing(w)) /\ UNCHANGED objects
    /\ UNCHANGED <<identity, row, halted, result, granted, starts, refused>>

(* worker_api.complete stores the result, settles the page and inserts what *)
(* the page links to; it refuses a lease that is gone.                      *)
CompleteRemote(w) ==
    LET p == Holds(w)
    IN /\ proc[w].at = "complete"
       /\ \/ /\ Active(w) /\ MayComplete(w)
             /\ result[p] = NoResult
             /\ result' = [result EXCEPT ![p] = [token |-> proc[w].token, worker |-> w]]
             /\ \E found \in SUBSET {q \in Pages : row[q].state = "absent"} :
                  row' = [q \in Pages |-> IF q = p THEN Free(row[q], "succeeded")
                                          ELSE IF q \in found THEN [row[q] EXCEPT !.state = "pending"]
                                          ELSE row[q]]
             /\ At(w, "end") /\ UNCHANGED refused
          \/ /\ Active(w) /\ ~MayComplete(w)
             /\ At(w, "end") /\ UNCHANGED <<row, result, refused>>
          \/ /\ ~Active(w)
             /\ At(w, Failing(w))
             /\ refused' = IF MayComplete(w) /\ identity[w] = "draining"
                           THEN refused \cup {w} ELSE refused
             /\ UNCHANGED <<row, result>>
          \/ At(w, Failing(w)) /\ UNCHANGED <<row, result, refused>>   \* the call failed
    /\ UNCHANGED <<identity, halted, objects, granted, starts>>

(* retry and fail: no look at the job; an exception ends the process. *)
AfterFailure(p) == IF row[p].attempts >= AttemptLimit THEN {"permanent_failed"}
                   ELSE {"permanent_failed", "retry_wait"}

ReportFailure(w) ==
    /\ proc[w].at = "fail"
    /\ \/ /\ Active(w) /\ OwnLease(w)
          /\ \E state \in AfterFailure(Holds(w)) :
               row' = [row EXCEPT ![Holds(w)] = Free(@, state)]
          /\ At(w, "end")
       \/ Active(w) /\ ~OwnLease(w) /\ At(w, "end") /\ UNCHANGED row
       \/ Exits(w) /\ UNCHANGED row
    /\ UNCHANGED <<identity, halted, objects, result, granted, starts, refused>>

(* The finally clause awaits the heartbeat: what it raised is raised here. *)
EndRunOnce(w) ==
    /\ proc[w].at = "end"
    /\ IF proc[w].broken \/ proc[w].draining THEN Exits(w)
       ELSE Becomes(w, [Stopped EXCEPT !.at = "poll", !.known = proc[w].known])
    /\ UNCHANGED Database

(* SIGTERM: drain sets its flag and then tells the database, which may fail. *)
Sigterm(w) ==
    /\ proc[w].at # "down" /\ ~proc[w].draining
    /\ Becomes(w, IF proc[w].at = "poll" THEN Stopped ELSE [proc[w] EXCEPT !.draining = TRUE])
    /\ UNCHANGED Database

DrainIdentity(w) ==
    /\ proc[w].draining /\ identity[w] = "active"
    /\ identity' = [identity EXCEPT ![w] = "draining"]
    /\ UNCHANGED <<proc, row, halted, objects, result, granted, starts, refused>>

(* A tick that ends while draining is the last one. *)
DrainedTick(w) ==
    /\ proc[w].draining /\ proc[w].at = "poll"
    /\ Exits(w)
    /\ UNCHANGED Database

(* drain_timeout: the tick is cancelled, and the lease that run_once held is *)
(* released for another attempt.                                             *)
ReleaseLate(w) ==
    /\ proc[w].draining /\ proc[w].at \in Working
    /\ \/ /\ identity[w] \in {"active", "draining"} /\ OwnLease(w)
          /\ row' = [row EXCEPT ![Holds(w)] = Free(@, "retry_wait")]
       \/ UNCHANGED row
    /\ Exits(w)
    /\ UNCHANGED <<identity, halted, objects, result, granted, starts, refused>>

Crash(w) ==
    /\ proc[w].at # "down"
    /\ Exits(w)
    /\ UNCHANGED Database

-------------------------------------------------------------------------------
(* The operator and the core *)

Revoke(w) ==
    /\ identity[w] # "revoked"
    /\ identity' = [identity EXCEPT ![w] = "revoked"]
    /\ UNCHANGED <<proc, row, halted, objects, result, granted, starts, refused>>

(* request_cancel, or the deadline: what is queued ends, leases are left. *)
Halt ==
    /\ ~halted
    /\ halted' = TRUE
    /\ row' = [p \in Pages |-> IF row[p].state \in {"pending", "retry_wait"}
                               THEN Free(row[p], "cancelled") ELSE row[p]]
    /\ UNCHANGED <<identity, proc, objects, result, granted, starts, refused>>

Lapse(p) ==
    /\ row[p].state = "leased" /\ ~row[p].late
    /\ row' = [row EXCEPT ![p].late = TRUE]
    /\ UNCHANGED <<identity, proc, halted, objects, result, granted, starts, refused>>

ReapRemote(p) ==
    /\ row[p].state = "leased" /\ row[p].late
    /\ row' = [row EXCEPT ![p] =
            Free(@, IF halted THEN "cancelled"
                    ELSE IF @.attempts >= AttemptLimit THEN "permanent_failed" ELSE "retry_wait")]
    /\ UNCHANGED <<identity, proc, halted, objects, result, granted, starts, refused>>

(* finalize_jobs: a halted job gives up what was queued again meanwhile. *)
FinalizeHalted ==
    /\ halted /\ \E p \in Pages : row[p].state = "retry_wait"
    /\ row' = [p \in Pages |-> IF row[p].state = "retry_wait"
                               THEN Free(row[p], "cancelled") ELSE row[p]]
    /\ UNCHANGED <<identity, proc, halted, objects, result, granted, starts, refused>>

WorkerTick(w) ==
    \/ BeginTick(w) \/ Register(w) \/ CheckHealth(w) \/ Claim(w) \/ AskCapabilities(w)
    \/ Acquire(w) \/ BlockRobots(w) \/ Beat(w) \/ PutArtifact(w) \/ CompleteRemote(w) \/ ReportFailure(w)
    \/ EndRunOnce(w) \/ DrainedTick(w) \/ ReleaseLate(w)

FleetNext ==
    \/ \E w \in Fleet :
        StartProcess(w) \/ WorkerTick(w) \/ Sigterm(w) \/ DrainIdentity(w) \/ Crash(w) \/ Revoke(w)
    \/ \E p \in Pages : SubmitSeed(p) \/ Lapse(p) \/ ReapRemote(p)
    \/ Halt \/ FinalizeHalted

-------------------------------------------------------------------------------
(* Properties *)

(* Identities and rows have the states the migration allows. *)
FleetTypeOK ==
    /\ identity \in [Fleet -> {"active", "draining", "revoked", "incompatible"}]
    /\ \A p \in Pages : row[p].state \in {"absent", "pending", "retry_wait", "leased", "succeeded",
                                          "permanent_failed", "blocked_robots", "cancelled"}
    /\ granted \in 0 .. MaxGrants

(* A stored result names an artifact that was uploaded under the very lease  *)
(* the result was stored with, whatever uploads of other workers and earlier *)
(* leases of the page there are.                                             *)
ArtifactBehindResult ==
    \A p \in Pages : result[p] # NoResult =>
        [page |-> p, token |-> result[p].token, worker |-> result[p].worker] \in objects

(* A revoked worker has no more influence: nothing it still holds in memory  *)
(* completes, fails or renews a page (its steps leave the rows alone).       *)
RevokedIsPowerless ==
    [][\A w \in Fleet : identity[w] = "revoked" /\ proc'[w] # proc[w] => row' = row]_fvars

(* What became of a page, for the fenced queue. *)
RemotePhase(s) ==
    CASE s = "absent" -> "unknown"
      [] s \in {"pending", "retry_wait"} -> "queued"
      [] s = "leased" -> "held"
      [] s = "succeeded" -> "done"
      [] OTHER -> "dropped"

Remote == INSTANCE FencedQueue WITH
    Items <- Pages, phase <- [p \in Pages |-> RemotePhase(row[p].state)],
    grant <- [p \in Pages |-> row[p].token], issued <- granted,
    kept <- [p \in Pages |-> result[p].token]

(* The worker_api functions implement the fenced queue: two workers, a late *)
(* worker and the reaper never settle a page under a grant that is not the  *)
(* current one, and a settled page stays as it is.                          *)
RemoteImplementsQueue == Remote!Spec

(* "Let the fenced task finish while its own heartbeat continues": a worker *)
(* that drains may complete the page it holds.                              *)
DrainLetsFinish == refused = {}
===============================================================================
