------------------------------ MODULE ProxyPool -------------------------------
(***************************************************************************)
(* The pool of owned egress proxies (app/acquisition/proxy.py, the proxy   *)
(* functions of migration 0009, scripts/enroll_egress.py).  A worker that  *)
(* holds a task asks for a node, attests the address it was connected to,  *)
(* reports failures and releases the node in the end; it may be late or    *)
(* dead, and the task may be with another worker meanwhile.  Every call is *)
(* one transaction.                                                        *)
(***************************************************************************)
EXTENDS Naturals, FiniteSets

CONSTANTS
    Nodes,          \* proxy_nodes
    ProxyTasks,     \* crawl_tasks that require a proxy
    NoNode, NoTask,
    RemoteRuns,     \* claims made by remote workers; the others are local
    OfflineAfter,   \* offline_after
    MaxClaims, MaxReports   \* bounds: lease tokens, failure_count

ASSUME PoolAssumption ==
    /\ NoNode \notin Nodes /\ NoTask \notin ProxyTasks
    /\ {OfflineAfter, MaxClaims, MaxReports} \subseteq Nat

VARIABLES
    node,       \* state, failure_count; cooling: cooldown_until is ahead
    lent,       \* proxy_leases by task: node and token of the lease
    holder,     \* lease_token of a leased task, 0 when it is not leased
    claims,     \* tokens handed out
    user,       \* per token, the worker's run: task, node, where it is
    attempt     \* acquisition_attempts by token: proxy_id, connected IP, finished

poolVars == <<node, lent, holder, claims, user, attempt>>

Tokens == 1 .. MaxClaims
Unlent == [node |-> NoNode, token |-> 0]
NoUser == [task |-> NoTask, node |-> NoNode, at |-> "none"]
NoAttempt == [proxy |-> NoNode, ip |-> NoNode, finished |-> FALSE]

PoolInit ==
    /\ node = [n \in Nodes |-> [state |-> "absent", failures |-> 0, cooling |-> FALSE]]
    /\ lent = [t \in ProxyTasks |-> Unlent]
    /\ holder = [t \in ProxyTasks |-> 0]
    /\ claims = 0
    /\ user = [k \in Tokens |-> NoUser]
    /\ attempt = [k \in Tokens |-> NoAttempt]

-------------------------------------------------------------------------------
(* The task's lease, of the crawl repository *)

ClaimProxyTask(t) ==
    /\ holder[t] = 0 /\ claims < MaxClaims
    /\ claims' = claims + 1
    /\ holder' = [holder EXCEPT ![t] = claims + 1]
    /\ user' = [user EXCEPT ![claims + 1] = [task |-> t, node |-> NoNode, at |-> "select"]]
    /\ UNCHANGED <<node, lent, attempt>>

(* The reaper takes the lease of a silent worker and finishes its attempt. *)
ReapProxyTask(t) ==
    /\ holder[t] # 0
    /\ holder' = [holder EXCEPT ![t] = 0]
    /\ attempt' = [attempt EXCEPT ![holder[t]].finished = TRUE]
    /\ UNCHANGED <<node, lent, claims, user>>

(* A reconciliation of late attempts may finish one whose lease is renewed. *)
FinishAttempt(k) ==
    /\ user[k].at # "none" /\ ~attempt[k].finished
    /\ attempt' = [attempt EXCEPT ![k].finished = TRUE]
    /\ UNCHANGED <<node, lent, holder, claims, user>>

InForce(k) == user[k].task # NoTask /\ holder[user[k].task] = k
Moves(k, at) == user' = [user EXCEPT ![k].at = at]

-------------------------------------------------------------------------------
(* Nodes *)

(* register and _merge_configured: a revoked node stays revoked. *)
RegisterNode(n) ==
    /\ node[n].state \notin {"revoked", "active"}
    /\ node' = [node EXCEPT ![n].state = "active"]
    /\ UNCHANGED <<lent, holder, claims, user, attempt>>

RevokeNode(n) ==
    /\ node[n].state \notin {"revoked", "absent"}
    /\ node' = [node EXCEPT ![n].state = "revoked"]
    /\ UNCHANGED <<lent, holder, claims, user, attempt>>

(* cooldown_until passes; nothing changes the state with it. *)
CooldownEnds(n) ==
    /\ node[n].cooling
    /\ node' = [node EXCEPT ![n].cooling = FALSE]
    /\ UNCHANGED <<lent, holder, claims, user, attempt>>

LeaseExpires(t) ==
    /\ lent[t] # Unlent
    /\ lent' = [lent EXCEPT ![t] = Unlent]
    /\ UNCHANGED <<node, holder, claims, user, attempt>>

-------------------------------------------------------------------------------
(* The worker's calls *)

(* A concurrent selection may hold any node's row, and it is skipped then. *)
Selectable == {n \in Nodes : node[n].state = "active" /\ ~node[n].cooling}

Chosen(k, n) == user' = [user EXCEPT ![k].node = n, ![k].at = "held"]
(* No node: the worker reports a failure and is done. *)
NoneChosen(k) == Moves(k, "over") /\ UNCHANGED <<lent, attempt>>

(* select: the lease an earlier run left behind is kept, and the node is *)
(* returned all the same; without an open attempt the choice is undone.  *)
SelectLocal(k) ==
    LET t == user[k].task
    IN /\ user[k].at = "select" /\ k \notin RemoteRuns
       /\ \/ NoneChosen(k)
          \/ \E n \in Selectable :
               /\ InForce(k)
               /\ IF attempt[k].finished THEN NoneChosen(k)
                  ELSE /\ lent' = [lent EXCEPT ![t] = IF @ = Unlent
                                                     THEN [node |-> n, token |-> k] ELSE @]
                       /\ attempt' = [attempt EXCEPT ![k].proxy = n]
                       /\ Chosen(k, n)
       /\ UNCHANGED <<node, holder, claims>>

(* worker_api.assign_proxy replaces the lease of the task. *)
SelectRemote(k) ==
    LET t == user[k].task
    IN /\ user[k].at = "select" /\ k \in RemoteRuns
       /\ \/ NoneChosen(k)
          \/ /\ InForce(k) /\ lent' = [lent EXCEPT ![t] = Unlent]
             /\ Moves(k, "over") /\ UNCHANGED attempt
          \/ \E n \in Selectable :
               /\ InForce(k)
               /\ lent' = [lent EXCEPT ![t] = [node |-> n, token |-> k]]
               /\ attempt' = IF attempt[k].finished THEN attempt
                             ELSE [attempt EXCEPT ![k].proxy = n]
               /\ Chosen(k, n)
       /\ UNCHANGED <<node, holder, claims>>

(* The fence of the later calls: the proxy lease and the task's lease. *)
HasLease(k) == lent[user[k].task] = [node |-> user[k].node, token |-> k]
ProxyFence(k) == HasLease(k) /\ InForce(k)

(* record_connected_ip writes to the task's current attempt; rejected, the *)
(* bridge refuses the connection and the acquisition fails.                *)
RecordConnectedIp(k) ==
    LET current == holder[user[k].task]
    IN /\ user[k].at = "held"
       /\ IF ProxyFence(k)
          THEN /\ attempt' = IF current = 0 \/ attempt[current].finished THEN attempt
                             ELSE [attempt EXCEPT ![current].proxy = user[k].node,
                                                  ![current].ip = user[k].node]
               /\ UNCHANGED user
          ELSE Moves(k, "failed") /\ UNCHANGED attempt
       /\ UNCHANGED <<node, lent, holder, claims>>

AcquisitionFails(k) ==
    /\ user[k].at = "held"
    /\ Moves(k, "failed")
    /\ UNCHANGED <<node, lent, holder, claims, attempt>>

Blocked(x) == [x EXCEPT !.state = "cooldown", !.cooling = TRUE, !.failures = @ + 1]
Unreachable(x) ==
    [x EXCEPT !.failures = @ + 1, !.state = IF x.failures + 1 >= OfflineAfter THEN "offline" ELSE @]

(* mark_failure and worker_api.proxy_failure; only the first spares a node *)
(* that is revoked.                                                        *)
ReportCounts(k) ==
    ProxyFence(k) /\ (k \in RemoteRuns \/ node[user[k].node].state # "revoked")

MarkFailure(k) ==
    LET n == user[k].node
    IN /\ user[k].at = "failed" /\ node[n].failures < MaxReports
       /\ IF ReportCounts(k)
          THEN \E after \in {Blocked(node[n]), Unreachable(node[n])} :
                    node' = [node EXCEPT ![n] = after]
          ELSE UNCHANGED node
       /\ Moves(k, "over")
       /\ UNCHANGED <<lent, holder, claims, attempt>>

(* release_proxy in the finally clause, on success too. *)
ReleaseByTask(k) ==
    /\ user[k].at \in {"held", "over"}
    /\ lent' = [lent EXCEPT ![user[k].task] = Unlent]
    /\ Moves(k, "none")
    /\ UNCHANGED <<node, holder, claims, attempt>>

ReleaseProxy(k) ==
    LET t == user[k].task
    IN /\ user[k].at \in {"held", "over"}
       /\ lent' = IF lent[t].token = k THEN [lent EXCEPT ![t] = Unlent] ELSE lent
       /\ Moves(k, "none")
       /\ UNCHANGED <<node, holder, claims, attempt>>

(* The worker dies: nothing is released. *)
WorkerDies(k) ==
    /\ user[k].at \in {"select", "held", "failed", "over"}
    /\ Moves(k, "none")
    /\ UNCHANGED <<node, lent, holder, claims, attempt>>

PoolNext ==
    \/ \E t \in ProxyTasks : ClaimProxyTask(t) \/ ReapProxyTask(t) \/ LeaseExpires(t)
    \/ \E n \in Nodes : RegisterNode(n) \/ RevokeNode(n) \/ CooldownEnds(n)
    \/ \E k \in Tokens :
        \/ FinishAttempt(k) \/ SelectLocal(k) \/ SelectRemote(k) \/ RecordConnectedIp(k)
        \/ AcquisitionFails(k) \/ MarkFailure(k) \/ ReleaseProxy(k) \/ WorkerDies(k)

-------------------------------------------------------------------------------
(* Properties *)

(* Nodes and runs have the states the code gives them. *)
PoolTypeOK ==
    /\ \A n \in Nodes : node[n].state \in {"absent", "active", "cooldown", "offline", "revoked"}
    /\ \A t \in ProxyTasks : holder[t] \in 0 .. claims /\ lent[t].token \in 0 .. claims
    /\ \A k \in Tokens : user[k].at \in {"none", "select", "held", "failed", "over"}

(* The connected address on an attempt is of the node this attempt was given: *)
(* a worker whose task went to somebody else never writes to their attempt.   *)
AttestationsAreOwn ==
    \A k \in Tokens : attempt[k].ip # NoNode =>
        attempt[k].ip = attempt[k].proxy /\ attempt[k].ip = user[k].node

(* The proxy lease of the run that holds the task ends with a step of that *)
(* run or by expiring: the release of a late or dead run's proxy, or the   *)
(* selection of another, never takes it away.                              *)
NoLeaseStolen ==
    [][\A t \in ProxyTasks, k \in Tokens :
        /\ lent[t].token = k /\ holder[t] = k /\ user[k].at = "held"
        /\ lent'[t].token # k
        => user'[k].at # "held" \/ user' = user]_poolVars

(* "Update its revocation record only after the core will no longer select *)
(* the node": a node that was revoked is not lent out again.               *)
RevokedIsFinal ==
    [][\A n \in Nodes : node[n].state = "revoked" => node'[n].state = "revoked"]_poolVars
===============================================================================
