-------------------------- MODULE ManagedProviders --------------------------
(***************************************************************************)
(* The paid adapters behind the acquisition router: Bright Data, Firecrawl *)
(* and Browserbase (app/acquisition/brightdata.py, firecrawl.py,           *)
(* browserbase.py), one acquire() call at a time, and the handle map of    *)
(* the Firecrawl and Browserbase session backends, whose operations        *)
(* interleave.  The vendor is the environment: it may bill a request it    *)
(* received whatever it answers, and an answer may be lost.                *)
(*                                                                         *)
(* `charge` is what the router settles for the call: the cost the adapter  *)
(* reports, or the reservation when the adapter raised something that      *)
(* carries no cost (AcquisitionRouter.tla settles it).                     *)
(***************************************************************************)
EXTENDS Naturals, FiniteSets

CONSTANTS
    Operators,      \* concurrent callers of one live session's backend
    ReservedUnits,  \* reserve_cost: credits, requests or browser minutes
    MaxOps          \* bound on the operations on one live session

ASSUME ProvidersAssumption == ReservedUnits \in Nat \ {0} /\ MaxOps \in Nat

VARIABLES
    call,       \* the acquire() call
    remote,     \* the vendor's browser session of that call
    live,       \* the live session in the backend's handle map
    op          \* what each operator is doing with it

providerVars == <<call, remote, live, op>>

Adapters == {"brightdata", "firecrawl", "browserbase"}
CallSteps == {"admit", "public", "send", "reply", "result", "capture", "final", "delete", "done"}
Verdicts == {"none", "ok", "failure", "raised", "cancelled"}
OpSteps == {"idle", "sending", "resuming", "closing"}

(* The call, the vendor's session and the handle map have their types, and  *)
(* the router is never asked to settle more than was reserved.              *)
ProvidersTypeOK ==
    /\ call \in [adapter: Adapters, at: CallSteps, sent: BOOLEAN, safe: BOOLEAN,
                 verdict: Verdicts, charge: 0 .. ReservedUnits]
    /\ remote \in [id: {"none", "lost", "known"}, deletes: Nat]
    /\ live \in [state: {"none", "open", "closed"}, kind: Adapters, deletes: Nat,
                 cost: 0 .. ReservedUnits, ops: 0 .. MaxOps]
    /\ op \in [Operators -> OpSteps]

ProvidersInit ==
    /\ \E a \in Adapters :
        call = [adapter |-> a, at |-> "admit", sent |-> FALSE, safe |-> FALSE,
                verdict |-> "none", charge |-> 0]
    /\ remote = [id |-> "none", deletes |-> 0]
    /\ \E k \in {"firecrawl", "browserbase"} :
        live = [state |-> "none", kind |-> k, deletes |-> 0, cost |-> 0, ops |-> 0]
    /\ op = [o \in Operators |-> "idle"]

CallAt(step) == call.at = step
(* How a call ends; a Browserbase session that has an identity is deleted   *)
(* first, in the finally block.                                             *)
EndCallAtOnce(verdict, charge) ==
    call' = [call EXCEPT !.at = "done", !.verdict = verdict, !.charge = charge]
EndCall(verdict, charge) ==
    call' = [call EXCEPT !.at = IF remote'.id = "known" THEN "delete" ELSE "done",
                         !.verdict = verdict, !.charge = charge]

(* ProviderFailure before anything was sent: Bright Data says so, Firecrawl *)
(* reports its one credit regardless.                                       *)
UnsentCost == IF call.adapter = "firecrawl" THEN 1 ELSE 0

-----------------------------------------------------------------------------
(* acquire() *)

Admit(available) ==
    /\ CallAt("admit")
    /\ IF available \/ call.adapter = "browserbase"
       THEN call' = [call EXCEPT !.at = "public"] /\ UNCHANGED remote
       ELSE UNCHANGED remote /\ EndCall("failure", UnsentCost)
    /\ UNCHANGED <<live, op>>

(* ensure_public_url(request.url): Bright Data turns the refusal into a     *)
(* free failure, the others let it through to the router.                   *)
CheckTarget(public) ==
    /\ CallAt("public")
    /\ UNCHANGED remote
    /\ IF public THEN call' = [call EXCEPT !.at = "send"]
       ELSE IF call.adapter = "brightdata" THEN EndCall("failure", 0)
       ELSE EndCall("raised", ReservedUnits)
    /\ UNCHANGED <<live, op>>

(* The request leaves; a Browserbase create may open a session whatever     *)
(* becomes of its answer.                                                   *)
SendCall(opens) ==
    /\ CallAt("send")
    /\ opens => call.adapter = "browserbase"
    /\ call' = [call EXCEPT !.at = "reply", !.sent = TRUE]
    /\ remote' = [remote EXCEPT !.id = IF opens THEN "lost" ELSE "none"]
    /\ UNCHANGED <<live, op>>

(* A transport error or an HTTP error status, as _classify_response and     *)
(* BrowserbaseAPI._request sort them.  Browserbase's own failures carry no  *)
(* cost, so acquire() prices them at the reservation.                       *)

RequestFails ==
    /\ CallAt("reply")
    /\ UNCHANGED remote
    /\ EndCall("failure", ReservedUnits)
    /\ UNCHANGED <<live, op>>

(* The answer is too large, malformed or a challenge: a priced failure of   *)
(* the HTTP adapters.                                                       *)
AnswerUnusable ==
    /\ CallAt("reply") /\ call.adapter # "browserbase"
    /\ UNCHANGED remote
    /\ EndCall("failure", ReservedUnits)
    /\ UNCHANGED <<live, op>>

(* A usable answer: raw HTML, or a session with or without its connect URL. *)
AnswerArrives(complete) ==
    /\ CallAt("reply")
    /\ IF call.adapter # "browserbase"
       THEN complete /\ call' = [call EXCEPT !.at = "final"] /\ UNCHANGED remote
       ELSE /\ remote.id = "lost"
            /\ remote' = [remote EXCEPT !.id = "known"]
            /\ IF complete THEN call' = [call EXCEPT !.at = "capture"]
                           ELSE EndCall("raised", ReservedUnits)
    /\ UNCHANGED <<live, op>>

(* PlaywrightCapture inside wait_for: a timeout or a browser fault is a     *)
(* priced failure, any other exception is raised as it is.                  *)
Capture(works) ==
    /\ CallAt("capture")
    /\ UNCHANGED remote
    /\ IF works THEN call' = [call EXCEPT !.at = "final"]
                ELSE \E v \in {"failure", "raised"} : EndCall(v, ReservedUnits)
    /\ UNCHANGED <<live, op>>

(* ensure_public_url(final_url), then the usage Browserbase reported.       *)
UsageAccepted(usage) == usage <= ReservedUnits

Deliver(public, usage) ==
    /\ CallAt("final")
    /\ UNCHANGED remote
    /\ IF ~public
       THEN EndCall(IF call.adapter = "brightdata" THEN "failure" ELSE "raised", ReservedUnits)
       ELSE IF call.adapter = "browserbase"
       THEN IF UsageAccepted(usage) THEN EndCall("ok", usage)
                                    ELSE EndCall("raised", ReservedUnits)
       ELSE EndCall("ok", ReservedUnits)
    /\ UNCHANGED <<live, op>>

(* The worker cancels the task at an await (lease lost or task timeout).    *)
CancelCall ==
    /\ call.at \in {"public", "reply", "capture", "final"}
    /\ UNCHANGED remote
    /\ EndCall("cancelled", ReservedUnits)
    /\ UNCHANGED <<live, op>>

(* finally: the delete may fail, which is logged.                           *)
DeleteRemote ==
    /\ CallAt("delete")
    /\ remote' = [remote EXCEPT !.deletes = @ + 1]
    /\ call' = [call EXCEPT !.at = "done"]
    /\ UNCHANGED <<live, op>>

-----------------------------------------------------------------------------
(* The session backends *)

CreateLive ==
    /\ live.state = "none"
    /\ live' = [live EXCEPT !.state = "open", !.cost = ReservedUnits]
    /\ UNCHANGED <<call, remote, op>>

(* send() and resume() look the handle up and then await the vendor; both   *)
(* of Firecrawl's and Browserbase's resume close the session in a finally.  *)
BeginOp(o, step) ==
    /\ op[o] = "idle" /\ live.ops < MaxOps
    /\ live.state = "open" \/ (live.state = "closed" /\ live.kind = "firecrawl")
    /\ step = "sending" => live.kind = "firecrawl"
    /\ op' = [op EXCEPT ![o] = step]
    /\ live' = [live EXCEPT !.ops = @ + 1]
    /\ UNCHANGED <<call, remote>>

(* An interaction that went well leaves the session open.                   *)
SendWorks(o) ==
    /\ op[o] = "sending"
    /\ op' = [op EXCEPT ![o] = "idle"]
    /\ UNCHANGED <<call, remote, live>>

(* close(): the state is marked before the DELETE is awaited, so a second   *)
(* close of the same session sends nothing.                                 *)

BeginClose(o) ==
    /\ op[o] \in {"sending", "resuming"}
    /\ IF live.state = "open"
       THEN /\ live' = [live EXCEPT !.state = "closed", !.deletes = @ + 1]
            /\ op' = [op EXCEPT ![o] = "closing"]
       ELSE op' = [op EXCEPT ![o] = "idle"] /\ UNCHANGED live
    /\ UNCHANGED <<call, remote>>

(* The vendor's bill replaces the estimate when it is within the            *)
(* reservation; no answer or a larger bill leaves the estimate.             *)
FinishClose(o, billed) ==
    /\ op[o] = "closing"
    /\ live' = [live EXCEPT !.cost =
            IF live.kind = "firecrawl" /\ UsageAccepted(billed) THEN billed ELSE @]
    /\ op' = [op EXCEPT ![o] = "idle"]
    /\ UNCHANGED <<call, remote>>

-----------------------------------------------------------------------------
Bills == 0 .. ReservedUnits + 1

ProvidersNext ==
    \/ \E b \in BOOLEAN :
        Admit(b) \/ CheckTarget(b) \/ SendCall(b) \/ AnswerArrives(b) \/ Capture(b)
    \/ RequestFails \/ AnswerUnusable \/ CancelCall \/ DeleteRemote \/ CreateLive
    \/ \E b \in BOOLEAN, usage \in Bills : Deliver(b, usage)
    \/ \E o \in Operators :
        \/ \E step \in {"sending", "resuming"} : BeginOp(o, step)
        \/ SendWorks(o) \/ BeginClose(o)
        \/ \E billed \in Bills : FinishClose(o, billed)

-----------------------------------------------------------------------------
(* A call that reached the vendor and did not succeed settles its whole     *)
(* reservation, whatever failed and wherever: the vendor may have billed it.*)
FailedCallIsCharged ==
    call.at = "done" /\ call.sent /\ call.verdict # "ok" => call.charge = ReservedUnits

(* A Browserbase session the adapter knows of is deleted exactly once,      *)
(* after its capture and on every way out, cancellation included.           *)
RemoteSessionDeleted ==
    remote.deletes = IF remote.id = "known" /\ call.at = "done" THEN 1 ELSE 0

(* Sends, resumes and closes of one live session interleave: its DELETE     *)
(* goes out once and its cost stays within the reservation.                 *)
LiveSessionDeletedOnce ==
    live.deletes = IF live.state = "closed" THEN 1 ELSE 0
=============================================================================
