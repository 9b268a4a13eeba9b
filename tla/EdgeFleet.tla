------------------------------ MODULE EdgeFleet ------------------------------
(***************************************************************************)
(* What speaks to the control plane's tables and dictionaries through      *)
(* fenced calls: the remote workers of the task queue, the operator's      *)
(* tunnel to a remote browser, the leased proxy nodes, the transactions on *)
(* one job statement by statement, and the visitors of a live session.     *)
(* They keep their state in rows and dictionaries of their own, so a       *)
(* behaviour is a behaviour of one of them, chosen at the start, while the *)
(* others stand at their initial state.                                    *)
(***************************************************************************)
EXTENDS RemoteFleet, ControlTunnel, ProxyPool, JobTransactions, SessionAccess

VARIABLE edge   \* the part that runs

edgeVars == <<edge, fvars, controlVars, poolVars, jobTxVars, accessVars>>

Edges == {"fleet", "control", "pool", "transactions", "access"}

EdgeInit == edge \in Edges /\ FleetInit /\ ControlInit /\ PoolInit /\ JobTxInit /\ AccessInit

EdgeNext ==
    \/ edge = "fleet" /\ FleetNext /\ UNCHANGED <<edge, controlVars, poolVars, jobTxVars, accessVars>>
    \/ edge = "control" /\ ControlNext /\ UNCHANGED <<edge, fvars, poolVars, jobTxVars, accessVars>>
    \/ edge = "pool" /\ PoolNext /\ UNCHANGED <<edge, fvars, controlVars, jobTxVars, accessVars>>
    \/ /\ edge = "transactions" /\ JobTxNext
       /\ UNCHANGED <<edge, fvars, controlVars, poolVars, accessVars>>
    \/ edge = "access" /\ AccessNext /\ UNCHANGED <<edge, fvars, controlVars, poolVars, jobTxVars>>

EdgeSpec == EdgeInit /\ [][EdgeNext]_edgeVars

\* A result of a remote worker has its own artifact behind it, and an exit
\* address is attested for the run that uses it.
FleetInv ==
    /\ edge \in Edges /\ FleetTypeOK /\ PoolTypeOK
    /\ ArtifactBehindResult /\ AttestationsAreOwn

\* The operator's tunnel: a bridge opens once, an answer reaches who asked, no
\* client waits for a dead worker, screenshots fit their budget, and the browser
\* context is given back once.
TunnelInv ==
    /\ ControlTypeOK /\ BridgeOpensOnce /\ AnswersAreOwn /\ NobodyWaitsForTheDead
    /\ ShotsWithinBudget /\ ReleasedOnce

\* The transactions on one job, statement by statement: one job for a key, exact
\* counts, a cancellation that leaves nothing behind, no deadlock of those that
\* settle a job, and retried pages that end.
TransactionsInv ==
    /\ JobTxTypeOK /\ OneJobPerKey /\ TerminalCountExact /\ CancelLeavesNoQueue
    /\ CancelledIsQuiet /\ SettlingNeverDeadlocks /\ RetriedInTimeEnds

\* A session's token opens it once, and a screenshot that is shown is the one
\* that was taken.
AccessInv == TokenOpensOnce /\ ScreenshotIsGenuine

\* No call passes a fence that is not its own: a revoked identity changes
\* nothing, and no run gives away the proxy lease of another.
FencesHold == RevokedIsPowerless /\ NoLeaseStolen
=============================================================================
