---------------------------- MODULE SessionAccess ----------------------------
(***************************************************************************)
(* How a person gets to a live session: one-use tokens in                  *)
(* live_session_tokens (issue_token and consume_token of                   *)
(* app/acquisition/sessions.py), the requests that spend them and then     *)
(* look at the session (app/routes/routes_acquisition_sessions.py), and    *)
(* the one-use links to screenshots (app/acquisition/owned_session.py).    *)
(* A request gives up control at each await, so requests with the same     *)
(* token, the session's end and the clock interleave with it.              *)
(***************************************************************************)
EXTENDS Integers, FiniteSets

CONSTANTS
    Visits,         \* requests to open the session or to read a screenshot
    Passes,         \* tokens that are issued
    Digests,        \* contents of the artifact store
    MaxClock,       \* bound on time
    PassTtl         \* ttlSeconds

(* What a request answers with besides a picture. *)
Replies == {"none", "page", "401", "404", "409"}

ASSUME AccessAssumption == {MaxClock, PassTtl} \subseteq Nat /\ Digests \cap Replies = {}

VARIABLES
    clock,
    live,       \* the session: state, expires
    pass,       \* live_session_tokens: token -> scope, expires, consumed
    visit,      \* request -> what it is for, where it is, what it got
    bridge,     \* history: bridges made: token, time
    shot        \* one-use links to screenshots: link -> digest, expires

accessVars == <<clock, live, pass, visit, bridge, shot>>

Open == {"waiting", "connected"}
NoPass == [scope |-> "none", expires |-> 0, consumed |-> FALSE]
NoVisit == [at |-> "idle", pass |-> "none", got |-> "none"]
NoLink == [digest |-> "none", expires |-> 0]

AccessInit ==
    /\ clock = 0
    /\ live = [state |-> "waiting", expires |-> MaxClock - 1]
    /\ pass = [t \in Passes |-> NoPass]
    /\ visit = [v \in Visits |-> NoVisit]
    /\ bridge = {}
    /\ shot = [t \in Passes |-> NoLink]

Available == live.state \in Open /\ live.expires > clock
Least(a, b) == IF a < b THEN a ELSE b

(* A token never outlives its session.                                      *)
PassExpiry == Least(live.expires, clock + PassTtl)

IssueToken(t, scope) ==
    /\ Available /\ pass[t] = NoPass
    /\ pass' = [pass EXCEPT ![t] = [scope |-> scope, expires |-> PassExpiry, consumed |-> FALSE]]
    /\ UNCHANGED <<clock, live, visit, bridge, shot>>

(* The UPDATE of consume_token: one row, or none.                           *)
Unexpired(t) == pass[t].scope = "control" /\ pass[t].expires > clock
Usable(t) == pass[t].scope = "control" /\ pass[t].expires > clock /\ ~pass[t].consumed

(* open_session: exchange_control spends the token and makes a bridge.      *)
OpenSession(v, t) ==
    /\ visit[v].at = "idle"
    /\ IF Usable(t)
       THEN /\ pass' = [pass EXCEPT ![t].consumed = TRUE]
            /\ bridge' = bridge \cup {[pass |-> t, visit |-> v, made |-> clock]}
            /\ visit' = [visit EXCEPT ![v] = [at |-> "bridged", pass |-> t, got |-> "none"]]
       ELSE /\ visit' = [visit EXCEPT ![v] = [at |-> "done", pass |-> t, got |-> "401"]]
            /\ UNCHANGED <<pass, bridge>>
    /\ UNCHANGED <<clock, live, shot>>

(* Then inspect: a session that ended in between gets no page.              *)
InspectSession(v) ==
    /\ visit[v].at = "bridged"
    /\ visit' = [visit EXCEPT ![v].at = "done", ![v].got = IF Available THEN "page" ELSE "409"]
    /\ UNCHANGED <<clock, live, pass, bridge, shot>>

EndSession(state) ==
    /\ live.state \in Open
    /\ live' = [live EXCEPT !.state = state]
    /\ UNCHANGED <<clock, pass, visit, bridge, shot>>

(* expose_screenshot: a link of its own for 60 seconds.                     *)
ExposeScreenshot(t, d) ==
    /\ shot[t] = NoLink
    /\ shot' = [shot EXCEPT ![t] = [digest |-> d, expires |-> clock + 1]]
    /\ UNCHANGED <<clock, live, pass, visit, bridge>>

(* consume_screenshot pops the link, valid or not.                          *)
TakeLink(v, t) ==
    /\ visit[v].at = "idle"
    /\ visit' = [visit EXCEPT ![v] =
         IF shot[t].expires > clock THEN [at |-> "reading", pass |-> shot[t].digest, got |-> "none"]
         ELSE [at |-> "done", pass |-> "none", got |-> "404"]]
    /\ shot' = [shot EXCEPT ![t] = NoLink]
    /\ UNCHANGED <<clock, live, pass, bridge>>

(* session_screenshot: the bytes of the store, or none, against the digest. *)
Genuine(digest, bytes) == bytes = digest

ReadScreenshot(v, bytes) ==
    /\ visit[v].at = "reading"
    /\ visit' = [visit EXCEPT ![v].at = "done",
                   ![v].got = IF Genuine(visit[v].pass, bytes) THEN bytes ELSE "404"]
    /\ UNCHANGED <<clock, live, pass, bridge, shot>>

TimePasses ==
    /\ clock < MaxClock
    /\ clock' = clock + 1
    /\ UNCHANGED <<live, pass, visit, bridge, shot>>

AccessNext ==
    \/ \E t \in Passes, s \in {"view", "control"} : IssueToken(t, s)
    \/ \E v \in Visits, t \in Passes : OpenSession(v, t) \/ TakeLink(v, t)
    \/ \E v \in Visits : InspectSession(v)
    \/ \E v \in Visits, b \in Digests \cup {"absent"} : ReadScreenshot(v, b)
    \/ \E t \in Passes, d \in Digests : ExposeScreenshot(t, d)
    \/ \E s \in {"resuming", "cancelled"} : EndSession(s)
    \/ TimePasses

AccessSpec == AccessInit /\ [][AccessNext]_accessVars
-----------------------------------------------------------------------------
(* One token opens one bridge, whoever else holds it and however their      *)
(* requests interleave, and never after the session's time is over          *)
(* (consume_token: "exactly once"; issue_token's expiry).                   *)
TokenOpensOnce ==
    /\ \A a, b \in bridge : a.pass = b.pass => a = b
    /\ \A a \in bridge : a.made < live.expires

(* What a screenshot link returns is the picture it was made for.           *)
ScreenshotIsGenuine == \A v \in Visits : visit[v].got \in Digests => visit[v].got = visit[v].pass
=============================================================================
