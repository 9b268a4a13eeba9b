------------------------------ MODULE EdgeProofs ------------------------------
(***************************************************************************)
(* The fenced calls and the transactions of EdgeFleet, for every instance. *)
(* Each part has an inductive invariant of its own over its own variables; *)
(* EdgeParts says that a step of the composition is a step of each part or *)
(* leaves it alone.                                                        *)
(***************************************************************************)
EXTENDS EdgeFleet, SequenceTheorems, FiniteSetTheorems, TLAPS

\* A step of the composition, seen from each of its parts.
LEMMA EdgeParts ==
  ASSUME [EdgeNext]_edgeVars
  PROVE  /\ edge' = edge
         /\ [FleetNext]_fvars /\ [ControlNext]_controlVars /\ [PoolNext]_poolVars
         /\ [JobTxNext]_jobTxVars /\ [AccessNext]_accessVars
BY DEF EdgeNext, edgeVars

-------------------------------------------------------------------------------
(* Visitors of a live session *)

Stages == {"idle", "bridged", "reading", "done"}
Gets == Replies \cup Digests \cup {"absent"}
PassRows == [scope : {"none", "view", "control"}, expires : Int, consumed : BOOLEAN]
VisitRows == [at : Stages, pass : Passes \cup Digests \cup {"none"}, got : Gets]
LinkRows == [digest : Digests \cup {"none"}, expires : Int]

\* The tables of a session, with their types.
AccessTyped ==
    /\ clock \in Int /\ live \in [state : Open \cup {"resuming", "cancelled"}, expires : Int]
    /\ pass \in [Passes -> PassRows] /\ visit \in [Visits -> VisitRows]
    /\ shot \in [Passes -> LinkRows]

\* A token that was issued ends with its session at the latest.
PassesEndInTime == \A t \in Passes : pass[t].scope = "control" => pass[t].expires <= live.expires
\* A bridge was made for a token that is spent.
BridgesAreSpent == \A a \in bridge : a.pass \in Passes /\ pass[a.pass].consumed

AccessRight == AccessTyped /\ PassesEndInTime /\ BridgesAreSpent /\ AccessInv

\* A session nobody has asked for.
LEMMA AccessStart == AccessInit => AccessRight
<1> SUFFICES ASSUME AccessInit PROVE AccessRight
  OBVIOUS
<1>1. MaxClock - 1 \in Int
  BY AccessAssumption
<1>2. AccessTyped
  BY <1>1 DEF AccessInit, AccessTyped, PassRows, VisitRows, LinkRows, NoPass, NoVisit, NoLink,
              Stages, Gets, Replies, Open
<1>3. PassesEndInTime /\ BridgesAreSpent
  BY DEF AccessInit, PassesEndInTime, BridgesAreSpent, NoPass
<1>4. TokenOpensOnce
  BY DEF AccessInit, TokenOpensOnce
<1>5. ScreenshotIsGenuine
  BY AccessAssumption DEF AccessInit, ScreenshotIsGenuine, NoVisit, Replies
<1> QED BY <1>2, <1>3, <1>4, <1>5 DEF AccessRight, AccessInv

\* issue_token: the new token ends with its session at the latest.
LEMMA IssueRight ==
  ASSUME AccessRight, NEW t \in Passes, NEW s \in {"view", "control"}, IssueToken(t, s)
  PROVE  AccessRight'
<1>1. PassExpiry \in Int /\ PassExpiry <= live.expires
  BY AccessAssumption DEF AccessRight, AccessTyped, PassExpiry, Least
<1>2. AccessTyped'
  BY <1>1 DEF AccessRight, AccessTyped, IssueToken, PassRows
<1>3. PassesEndInTime'
  BY <1>1 DEF AccessRight, AccessTyped, PassesEndInTime, IssueToken, PassRows
<1>4. BridgesAreSpent'
  BY DEF AccessRight, AccessTyped, BridgesAreSpent, IssueToken, NoPass
<1>5. AccessInv'
  BY DEF AccessRight, AccessInv, TokenOpensOnce, ScreenshotIsGenuine, IssueToken
<1> QED BY <1>2, <1>3, <1>4, <1>5 DEF AccessRight

\* open_session: a token that opens a bridge was not spent, and its session is
\* not over.
LEMMA OpenRight ==
  ASSUME AccessRight, NEW v \in Visits, NEW t \in Passes, OpenSession(v, t)
  PROVE  AccessRight'
<1>1. AccessTyped'
  <2>1. pass' \in [Passes -> PassRows]
    <3>1. pass[t] \in PassRows /\ pass \in [Passes -> PassRows]
      BY DEF AccessRight, AccessTyped
    <3>2. [pass[t] EXCEPT !.consumed = TRUE] \in PassRows
      BY <3>1 DEF PassRows
    <3>3. pass' = pass \/ pass' = [pass EXCEPT ![t] = [pass[t] EXCEPT !.consumed = TRUE]]
      BY <3>1 DEF OpenSession
    <3> QED BY <3>1, <3>2, <3>3
  <2>2. \A at \in Stages, got \in Gets : [at |-> at, pass |-> t, got |-> got] \in VisitRows
    BY DEF VisitRows
  <2>3. visit' \in [Visits -> VisitRows]
    BY <2>2 DEF AccessRight, AccessTyped, OpenSession, Stages, Gets, Replies
  <2> QED BY <2>1, <2>3 DEF AccessRight, AccessTyped, OpenSession
<1>2. PassesEndInTime' /\ BridgesAreSpent'
  BY DEF AccessRight, AccessTyped, PassesEndInTime, BridgesAreSpent, OpenSession, PassRows
<1>3. TokenOpensOnce'
  <2>1. CASE Usable(t)
    <3>1. \A a \in bridge : a.pass # t
      BY <2>1 DEF Usable, AccessRight, BridgesAreSpent
    <3>2. clock < live.expires
      BY <2>1 DEF Usable, AccessRight, AccessTyped, PassesEndInTime, PassRows
    <3> QED BY <2>1, <3>1, <3>2 DEF OpenSession, AccessRight, AccessInv, TokenOpensOnce
  <2>2. CASE ~Usable(t)
    BY <2>2 DEF OpenSession, AccessRight, AccessInv, TokenOpensOnce
  <2> QED BY <2>1, <2>2
<1>4. ScreenshotIsGenuine'
  BY AccessAssumption DEF AccessRight, AccessTyped, AccessInv, ScreenshotIsGenuine, OpenSession, Replies
<1> QED BY <1>1, <1>2, <1>3, <1>4 DEF AccessRight, AccessInv

\* inspect, the two halves of a screenshot link, and its making.
LEMMA VisitRight ==
  ASSUME AccessRight, NEW v \in Visits,
         \/ InspectSession(v)
         \/ \E t \in Passes : TakeLink(v, t)
         \/ \E b \in Digests \cup {"absent"} : ReadScreenshot(v, b)
  PROVE  AccessRight'
<1>1. UNCHANGED <<clock, live, pass, bridge>>
  BY DEF InspectSession, TakeLink, ReadScreenshot
<1>2. AccessTyped'
  <2>1. visit[v] \in VisitRows /\ visit \in [Visits -> VisitRows]
    BY DEF AccessRight, AccessTyped
  <2>2. CASE InspectSession(v)
    <3>1. visit' = [visit EXCEPT ![v] = [visit[v] EXCEPT !.at = "done", !.got = visit'[v].got]]
      BY <2>1, <2>2 DEF InspectSession, VisitRows
    <3>2. visit'[v].got \in {"page", "409"}
      BY <2>1, <2>2 DEF InspectSession, VisitRows
    <3>3. visit' \in [Visits -> VisitRows]
      <4>1. "done" \in Stages /\ visit'[v].got \in Gets
        BY <3>2 DEF Stages, Gets, Replies
      <4>2. [visit[v] EXCEPT !.at = "done", !.got = visit'[v].got] \in VisitRows
        BY <2>1, <4>1 DEF VisitRows
      <4> QED BY <2>1, <3>1, <4>2
    <3> QED BY <1>1, <2>2, <3>3 DEF AccessRight, AccessTyped, InspectSession
  <2>3. ASSUME NEW t \in Passes, TakeLink(v, t)
        PROVE  AccessTyped'
    <3>1. shot[t].digest \in Digests \cup {"none"}
      BY DEF AccessRight, AccessTyped, LinkRows
    <3>2. visit' \in [Visits -> VisitRows]
      BY <2>1, <2>3, <3>1 DEF TakeLink, VisitRows, Stages, Gets, Replies
    <3>3. shot' \in [Passes -> LinkRows]
      BY <2>3 DEF TakeLink, AccessRight, AccessTyped, NoLink, LinkRows
    <3> QED BY <1>1, <3>2, <3>3 DEF AccessRight, AccessTyped
  <2>4. ASSUME NEW b \in Digests \cup {"absent"}, ReadScreenshot(v, b)
        PROVE  AccessTyped'
    <3>1. visit' = [visit EXCEPT ![v] = [visit[v] EXCEPT !.at = "done", !.got = visit'[v].got]]
      BY <2>1, <2>4 DEF ReadScreenshot, VisitRows
    <3>2. visit'[v].got \in {b, "404"}
      BY <2>1, <2>4 DEF ReadScreenshot, VisitRows
    <3>3. visit' \in [Visits -> VisitRows]
      <4>1. "done" \in Stages /\ visit'[v].got \in Gets
        BY <3>2 DEF Stages, Gets, Replies
      <4>2. [visit[v] EXCEPT !.at = "done", !.got = visit'[v].got] \in VisitRows
        BY <2>1, <4>1 DEF VisitRows
      <4> QED BY <2>1, <3>1, <4>2
    <3> QED BY <1>1, <2>4, <3>3 DEF AccessRight, AccessTyped, ReadScreenshot
  <2> QED BY <2>2, <2>3, <2>4
<1>3. PassesEndInTime' /\ BridgesAreSpent' /\ TokenOpensOnce'
  BY <1>1 DEF AccessRight, AccessInv, PassesEndInTime, BridgesAreSpent, TokenOpensOnce
<1>4. ScreenshotIsGenuine'
  BY AccessAssumption DEF AccessRight, AccessTyped, AccessInv, ScreenshotIsGenuine, InspectSession,
     TakeLink, ReadScreenshot, Genuine, VisitRows, Replies
<1> QED BY <1>2, <1>3, <1>4 DEF AccessRight, AccessInv

\* Every step on a session keeps its invariant.
LEMMA AccessStep == AccessRight /\ [AccessNext]_accessVars => AccessRight'
<1> SUFFICES ASSUME AccessRight, [AccessNext]_accessVars PROVE AccessRight'
  OBVIOUS
<1>1. ASSUME NEW t \in Passes, NEW s \in {"view", "control"}, IssueToken(t, s)
      PROVE  AccessRight'
  BY <1>1, IssueRight
<1>2. ASSUME NEW v \in Visits, NEW t \in Passes, OpenSession(v, t)
      PROVE  AccessRight'
  BY <1>2, OpenRight
<1>3. ASSUME NEW v \in Visits,
             \/ InspectSession(v)
             \/ \E t \in Passes : TakeLink(v, t)
             \/ \E b \in Digests \cup {"absent"} : ReadScreenshot(v, b)
      PROVE  AccessRight'
  BY <1>3, VisitRight
<1>4. ASSUME NEW t \in Passes, NEW d \in Digests, ExposeScreenshot(t, d)
      PROVE  AccessRight'
  BY <1>4 DEF ExposeScreenshot, AccessRight, AccessTyped, PassesEndInTime, BridgesAreSpent,
              AccessInv, TokenOpensOnce, ScreenshotIsGenuine, LinkRows
<1>5. ASSUME NEW s \in {"resuming", "cancelled"}, EndSession(s)
      PROVE  AccessRight'
  BY <1>5 DEF EndSession, AccessRight, AccessTyped, PassesEndInTime, BridgesAreSpent,
              AccessInv, TokenOpensOnce, ScreenshotIsGenuine
<1>6. CASE TimePasses
  BY <1>6 DEF TimePasses, AccessRight, AccessTyped, PassesEndInTime, BridgesAreSpent,
              AccessInv, TokenOpensOnce, ScreenshotIsGenuine
<1>7. CASE UNCHANGED accessVars
  BY <1>7 DEF accessVars, AccessRight, AccessTyped, PassesEndInTime, BridgesAreSpent,
              AccessInv, TokenOpensOnce, ScreenshotIsGenuine
<1> QED BY <1>1, <1>2, <1>3, <1>4, <1>5, <1>6, <1>7 DEF AccessNext

\* A session's token opens one bridge, in the session's time, and a screenshot
\* link shows its own picture (consume_token, consume_screenshot).
THEOREM TokensOpenOnce == EdgeSpec => []AccessInv
<1>1. EdgeInit => AccessRight
  BY AccessStart DEF EdgeInit
<1>2. AccessRight /\ [EdgeNext]_edgeVars => AccessRight'
  BY AccessStep, EdgeParts
<1>3. AccessRight => AccessInv
  BY DEF AccessRight
<1> QED BY <1>1, <1>2, <1>3, PTL DEF EdgeSpec

-------------------------------------------------------------------------------
(* Leased proxy nodes *)

NodeRows == [state : {"absent", "active", "cooldown", "offline", "revoked"},
             failures : Nat, cooling : BOOLEAN]
SomeNode == Nodes \cup {NoNode}
UserRows == [task : ProxyTasks \cup {NoTask}, node : SomeNode,
             at : {"none", "select", "held", "failed", "over"}]
AttemptRows == [proxy : SomeNode, ip : SomeNode, finished : BOOLEAN]

\* The tables of the pool, with their types.
PoolTyped ==
    /\ claims \in 0 .. MaxClaims
    /\ node \in [Nodes -> NodeRows]
    /\ lent \in [ProxyTasks -> [node : SomeNode, token : 0 .. claims]]
    /\ holder \in [ProxyTasks -> 0 .. claims]
    /\ user \in [Tokens -> UserRows]
    /\ attempt \in [Tokens -> AttemptRows]

\* A run that has no node yet has no address attested, and a lease token that
\* was not handed out has no run.
UnusedIsBlank ==
    \A k \in Tokens : k > claims \/ user[k].at = "select" => attempt[k].ip = NoNode

PoolRight == PoolTyped /\ UnusedIsBlank /\ AttestationsAreOwn

\* Tokens are positive numbers, and the next one is a token.
LEMMA TokensCount ==
  /\ \A k \in Tokens : k \in Nat /\ k # 0
  /\ \A c \in 0 .. MaxClaims : c < MaxClaims => c + 1 \in Tokens /\ c + 1 \in 0 .. MaxClaims
BY PoolAssumption DEF Tokens

\* An empty pool.
LEMMA PoolStart == PoolInit => PoolRight
BY PoolAssumption DEF PoolInit, PoolRight, PoolTyped, UnusedIsBlank, AttestationsAreOwn, NodeRows,
   UserRows, AttemptRows, SomeNode, Unlent, NoUser, NoAttempt, Tokens

\* claim_task: a new token, whose attempt has no address.
LEMMA ClaimKeepsPool ==
  ASSUME PoolRight, NEW t \in ProxyTasks, ClaimProxyTask(t)
  PROVE  PoolRight'
<1> DEFINE k == claims + 1
           new == [task |-> t, node |-> NoNode, at |-> "select"]
<1>1. k \in Tokens /\ claims' = k /\ k \in 0 .. MaxClaims /\ claims \in Nat
  BY TokensCount DEF PoolRight, PoolTyped, ClaimProxyTask
<1>2. \A c \in 0 .. claims : c \in 0 .. k
  BY <1>1
<1>3. user' = [user EXCEPT ![k] = new] /\ new \in UserRows
  BY DEF ClaimProxyTask, UserRows, SomeNode
<1>4. holder' \in [ProxyTasks -> 0 .. k]
  BY <1>1, <1>2 DEF ClaimProxyTask, PoolRight, PoolTyped
<1>5. lent' \in [ProxyTasks -> [node : SomeNode, token : 0 .. k]]
  <2>1. \A x \in ProxyTasks : lent[x] \in [node : SomeNode, token : 0 .. claims]
    BY DEF PoolRight, PoolTyped
  <2>2. \A x \in ProxyTasks : lent[x] \in [node : SomeNode, token : 0 .. k]
    BY <1>2, <2>1
  <2> QED BY <2>2 DEF ClaimProxyTask, PoolRight, PoolTyped
<1>6. PoolTyped'
  <2>1. user' \in [Tokens -> UserRows]
    BY <1>1, <1>3 DEF PoolRight, PoolTyped
  <2> QED BY <1>1, <1>4, <1>5, <2>1 DEF PoolRight, PoolTyped, ClaimProxyTask
<1>7. attempt' = attempt /\ attempt[k].ip = NoNode
  BY <1>1 DEF ClaimProxyTask, PoolRight, UnusedIsBlank
<1>8. \A x \in Tokens : x # k => user'[x] = user[x]
  BY <1>1, <1>3 DEF PoolRight, PoolTyped
<1>9. UnusedIsBlank'
  <2>1. \A x \in Tokens : x > k => x > claims
    BY <1>1, TokensCount
  <2> QED BY <1>1, <1>7, <1>8, <2>1 DEF PoolRight, UnusedIsBlank
<1>10. AttestationsAreOwn'
  BY <1>7, <1>8 DEF PoolRight, AttestationsAreOwn
<1> QED BY <1>6, <1>9, <1>10 DEF PoolRight

\* A step that leaves tokens, runs and attested addresses alone.
LEMMA PoolKept ==
  ASSUME PoolRight, PoolTyped', claims' = claims,
         \A k \in Tokens : /\ user'[k].node = user[k].node
                           /\ user'[k].at # "select" \/ user'[k].at = user[k].at
                           /\ attempt'[k].ip = attempt[k].ip
                           /\ attempt'[k].proxy = attempt[k].proxy
  PROVE  PoolRight'
BY DEF PoolRight, UnusedIsBlank, AttestationsAreOwn

\* The steps on nodes, and the ends of leases and attempts.
LEMMA NodesKeepPool ==
  ASSUME PoolRight,
         \/ \E n \in Nodes : RegisterNode(n) \/ RevokeNode(n) \/ CooldownEnds(n)
         \/ \E t \in ProxyTasks : ReapProxyTask(t) \/ LeaseExpires(t)
         \/ \E k \in Tokens : FinishAttempt(k)
  PROVE  PoolRight'
<1>1. ASSUME NEW n \in Nodes, RegisterNode(n) \/ RevokeNode(n) \/ CooldownEnds(n)
      PROVE  PoolRight'
  <2>1. node[n] \in NodeRows
    BY DEF PoolRight, PoolTyped
  <2>2. node' \in [Nodes -> NodeRows]
    <3>1. /\ \A state \in {"active", "revoked"} : [node[n] EXCEPT !.state = state] \in NodeRows
          /\ [node[n] EXCEPT !.cooling = FALSE] \in NodeRows
      BY <2>1 DEF NodeRows
    <3> QED BY <1>1, <3>1 DEF RegisterNode, RevokeNode, CooldownEnds, PoolRight, PoolTyped
  <2>3. UNCHANGED <<lent, holder, claims, user, attempt>>
    BY <1>1 DEF RegisterNode, RevokeNode, CooldownEnds
  <2>4. PoolTyped'
    BY <2>2, <2>3 DEF PoolRight, PoolTyped
  <2> QED BY <2>3, <2>4, PoolKept
<1>2. ASSUME NEW t \in ProxyTasks, ReapProxyTask(t)
      PROVE  PoolRight'
  <2>1. holder[t] \in Tokens /\ holder[t] \in 0 .. claims
    BY <1>2, PoolAssumption DEF ReapProxyTask, PoolRight, PoolTyped, Tokens
  <2>2. attempt[holder[t]] \in AttemptRows
    BY <2>1 DEF PoolRight, PoolTyped
  <2>3. attempt' = [attempt EXCEPT ![holder[t]] = [attempt[holder[t]] EXCEPT !.finished = TRUE]]
    BY <1>2 DEF ReapProxyTask
  <2>4. attempt' \in [Tokens -> AttemptRows] /\ holder' \in [ProxyTasks -> 0 .. claims]
    <3>1. [attempt[holder[t]] EXCEPT !.finished = TRUE] \in AttemptRows
      BY <2>2 DEF AttemptRows
    <3>2. attempt' \in [Tokens -> AttemptRows]
      BY <2>1, <2>3, <3>1 DEF PoolRight, PoolTyped
    <3>3. 0 \in 0 .. claims
      BY DEF PoolRight, PoolTyped
    <3> QED BY <1>2, <3>2, <3>3 DEF ReapProxyTask, PoolRight, PoolTyped
  <2>5. UNCHANGED <<node, lent, claims, user>>
    BY <1>2 DEF ReapProxyTask
  <2>6. PoolTyped'
    BY <2>4, <2>5 DEF PoolRight, PoolTyped
  <2>7. \A k \in Tokens : attempt'[k].ip = attempt[k].ip /\ attempt'[k].proxy = attempt[k].proxy
    BY <2>1, <2>2, <2>3 DEF PoolRight, PoolTyped, AttemptRows
  <2> QED BY <2>5, <2>6, <2>7, PoolKept
<1>3. ASSUME NEW t \in ProxyTasks, LeaseExpires(t)
      PROVE  PoolRight'
  <2>1. Unlent \in [node : SomeNode, token : 0 .. claims]
    BY DEF Unlent, SomeNode, PoolRight, PoolTyped
  <2>2. UNCHANGED <<node, holder, claims, user, attempt>>
    BY <1>3 DEF LeaseExpires
  <2>3. PoolTyped'
    BY <1>3, <2>1, <2>2 DEF LeaseExpires, PoolRight, PoolTyped
  <2> QED BY <2>2, <2>3, PoolKept
<1>4. ASSUME NEW k \in Tokens, FinishAttempt(k)
      PROVE  PoolRight'
  <2>1. attempt[k] \in AttemptRows
    BY DEF PoolRight, PoolTyped
  <2>2. attempt' = [attempt EXCEPT ![k] = [attempt[k] EXCEPT !.finished = TRUE]]
    BY <1>4 DEF FinishAttempt
  <2>3. UNCHANGED <<node, lent, holder, claims, user>>
    BY <1>4 DEF FinishAttempt
  <2>4. PoolTyped'
    BY <2>1, <2>2, <2>3 DEF PoolRight, PoolTyped, AttemptRows
  <2>5. \A x \in Tokens : attempt'[x].ip = attempt[x].ip /\ attempt'[x].proxy = attempt[x].proxy
    BY <2>1, <2>2 DEF PoolRight, PoolTyped, AttemptRows
  <2> QED BY <2>3, <2>4, <2>5, PoolKept
<1> QED BY <1>1, <1>2, <1>3, <1>4

\* A run that only moves on.
LEMMA MoveKeepsPool ==
  ASSUME PoolRight, NEW k \in Tokens, NEW at \in {"none", "held", "failed", "over"}, Moves(k, at),
         UNCHANGED <<holder, claims, attempt>>, node' \in [Nodes -> NodeRows],
         lent' \in [ProxyTasks -> [node : SomeNode, token : 0 .. claims]]
  PROVE  PoolRight'
<1>1. user[k] \in UserRows
  BY DEF PoolRight, PoolTyped
<1>2. user' = [user EXCEPT ![k] = [user[k] EXCEPT !.at = at]]
  BY DEF Moves
<1>3. user' \in [Tokens -> UserRows]
  BY <1>1, <1>2 DEF PoolRight, PoolTyped, UserRows
<1>4. PoolTyped'
  BY <1>3 DEF PoolRight, PoolTyped
<1>5. \A x \in Tokens : user'[x].node = user[x].node /\ (user'[x].at # "select" \/ user'[x].at = user[x].at)
  BY <1>1, <1>2 DEF PoolRight, PoolTyped, UserRows
<1> QED BY <1>4, <1>5, PoolKept

\* select and assign_proxy: the node of a run is chosen before anything is
\* attested for it.
LEMMA SelectKeepsPool ==
  ASSUME PoolRight, NEW k \in Tokens, SelectLocal(k) \/ SelectRemote(k)
  PROVE  PoolRight'
<1> DEFINE t == user[k].task
           Leases == [node : SomeNode, token : 0 .. claims]
<1>1. /\ user[k] \in UserRows /\ user[k].at = "select" /\ attempt[k] \in AttemptRows
      /\ attempt[k].ip = NoNode
  BY DEF PoolRight, PoolTyped, SelectLocal, SelectRemote, UnusedIsBlank
<1>2. UNCHANGED <<node, holder, claims>> /\ node' \in [Nodes -> NodeRows]
  BY DEF SelectLocal, SelectRemote, PoolRight, PoolTyped
<1>3. lent \in [ProxyTasks -> Leases] /\ Unlent \in Leases
  BY DEF Unlent, SomeNode, PoolRight, PoolTyped
<1>4. CASE NoneChosen(k)
  BY <1>2, <1>3, <1>4, MoveKeepsPool DEF NoneChosen
<1>5. CASE lent' = [lent EXCEPT ![t] = Unlent] /\ Moves(k, "over") /\ UNCHANGED attempt
  <2>1. lent' \in [ProxyTasks -> Leases]
    BY <1>3, <1>5
  <2> QED BY <1>2, <1>5, <2>1, MoveKeepsPool
<1>6. ASSUME NEW n \in Nodes, InForce(k), Chosen(k, n),
             lent' = [lent EXCEPT ![t] = [node |-> n, token |-> k]] \/ UNCHANGED lent,
             attempt' = attempt \/ attempt' = [attempt EXCEPT ![k].proxy = n]
      PROVE  PoolRight'
  <2>1. t \in ProxyTasks /\ k \in 0 .. claims
    BY <1>1, <1>6 DEF InForce, UserRows, PoolRight, PoolTyped
  <2>2. lent' \in [ProxyTasks -> Leases]
    BY <1>3, <1>6, <2>1 DEF SomeNode
  <2>3. user' = [user EXCEPT ![k] = [user[k] EXCEPT !.node = n, !.at = "held"]]
    BY <1>1, <1>6 DEF Chosen, PoolRight, PoolTyped
  <2>4. attempt' = attempt \/ attempt' = [attempt EXCEPT ![k] = [attempt[k] EXCEPT !.proxy = n]]
    BY <1>6
  <2>5. user' \in [Tokens -> UserRows] /\ attempt' \in [Tokens -> AttemptRows]
    <3>1. [user[k] EXCEPT !.node = n, !.at = "held"] \in UserRows
      BY <1>1 DEF UserRows, SomeNode
    <3>2. [attempt[k] EXCEPT !.proxy = n] \in AttemptRows
      BY <1>1 DEF AttemptRows, SomeNode
    <3> QED BY <2>3, <2>4, <3>1, <3>2 DEF PoolRight, PoolTyped
  <2>6. PoolTyped'
    BY <1>2, <2>2, <2>5 DEF PoolRight, PoolTyped
  <2>7. \A x \in Tokens : x # k => user'[x] = user[x] /\ attempt'[x] = attempt[x]
    BY <2>3, <2>4 DEF PoolRight, PoolTyped
  <2>8. attempt'[k].ip = NoNode
    BY <1>1, <2>4 DEF AttemptRows, PoolRight, PoolTyped
  <2> QED BY <1>2, <2>6, <2>7, <2>8 DEF PoolRight, UnusedIsBlank, AttestationsAreOwn
<1>7. \/ NoneChosen(k)
      \/ lent' = [lent EXCEPT ![t] = Unlent] /\ Moves(k, "over") /\ UNCHANGED attempt
      \/ \E n \in Nodes :
            /\ InForce(k) /\ Chosen(k, n)
            /\ lent' = [lent EXCEPT ![t] = [node |-> n, token |-> k]] \/ UNCHANGED lent
            /\ attempt' = attempt \/ attempt' = [attempt EXCEPT ![k].proxy = n]
  <2>1. CASE SelectRemote(k)
    BY <2>1 DEF SelectRemote, Selectable
  <2>2. CASE SelectLocal(k)
    <3>1. ASSUME NEW n \in Nodes, InForce(k),
                 lent' = [lent EXCEPT ![t] = IF @ = Unlent THEN [node |-> n, token |-> k] ELSE @]
          PROVE  lent' = [lent EXCEPT ![t] = [node |-> n, token |-> k]] \/ UNCHANGED lent
      <4>1. t \in ProxyTasks
        BY <1>1, <3>1 DEF InForce, UserRows
      <4> QED BY <1>3, <3>1, <4>1
    <3> QED BY <2>2, <3>1 DEF SelectLocal, Selectable
  <2> QED BY <2>1, <2>2
<1> HIDE DEF t, Leases
<1> QED BY <1>4, <1>5, <1>6, <1>7

\* record_connected_ip: the attempt it writes to is the run's own, since the
\* run's token is the task's current one.
LEMMA AttestKeepsPool ==
  ASSUME PoolRight, NEW k \in Tokens, RecordConnectedIp(k)
  PROVE  PoolRight'
<1>1. user[k] \in UserRows /\ attempt[k] \in AttemptRows
  BY DEF PoolRight, PoolTyped
<1>2. UNCHANGED <<node, lent, holder, claims>>
  BY DEF RecordConnectedIp
<1>3. CASE ~ProxyFence(k)
  <2>1. Moves(k, "failed") /\ UNCHANGED attempt
    BY <1>3 DEF RecordConnectedIp
  <2> QED BY <1>2, <2>1, MoveKeepsPool DEF PoolRight, PoolTyped
<1>4. CASE ProxyFence(k)
  <2>1. holder[user[k].task] = k /\ user' = user
    BY <1>4 DEF ProxyFence, InForce, RecordConnectedIp
  <2>2. \/ attempt' = attempt
        \/ attempt' = [attempt EXCEPT ![k] = [attempt[k] EXCEPT !.proxy = user[k].node, !.ip = user[k].node]]
    BY <1>1, <1>4, <2>1 DEF RecordConnectedIp, PoolRight, PoolTyped
  <2>3. attempt' \in [Tokens -> AttemptRows]
    <3>1. [attempt[k] EXCEPT !.proxy = user[k].node, !.ip = user[k].node] \in AttemptRows
      BY <1>1 DEF AttemptRows, UserRows
    <3> QED BY <2>2, <3>1 DEF PoolRight, PoolTyped
  <2>4. PoolTyped'
    BY <1>2, <2>1, <2>3 DEF PoolRight, PoolTyped
  <2>5. user[k].at = "held" /\ ~(k > claims)
    <3>1. user[k].task \in ProxyTasks
      BY <1>1, <1>4 DEF ProxyFence, InForce, UserRows
    <3> QED BY <2>1, <3>1 DEF RecordConnectedIp, PoolRight, PoolTyped
  <2>6. UnusedIsBlank'
    BY <1>2, <2>1, <2>2, <2>5 DEF PoolRight, PoolTyped, UnusedIsBlank
  <2>7. AttestationsAreOwn'
    <3>1. \A x \in Tokens : x # k => attempt'[x] = attempt[x]
      BY <2>2 DEF PoolRight, PoolTyped
    <3>2. attempt'[k] = attempt[k] \/ (attempt'[k].proxy = user[k].node /\ attempt'[k].ip = user[k].node)
      BY <1>1, <2>2 DEF PoolRight, PoolTyped, AttemptRows
    <3> QED BY <2>1, <3>1, <3>2 DEF PoolRight, AttestationsAreOwn
  <2> QED BY <2>4, <2>6, <2>7 DEF PoolRight
<1> QED BY <1>3, <1>4

\* Failure, its report, the release and the death of a run.
LEMMA EndKeepsPool ==
  ASSUME PoolRight, NEW k \in Tokens,
         AcquisitionFails(k) \/ MarkFailure(k) \/ ReleaseProxy(k) \/ WorkerDies(k)
  PROVE  PoolRight'
<1>1. node \in [Nodes -> NodeRows] /\ lent \in [ProxyTasks -> [node : SomeNode, token : 0 .. claims]]
  BY DEF PoolRight, PoolTyped
<1>2. CASE AcquisitionFails(k)
  BY <1>1, <1>2, MoveKeepsPool DEF AcquisitionFails
<1>3. CASE WorkerDies(k)
  BY <1>1, <1>3, MoveKeepsPool DEF WorkerDies
<1>4. CASE ReleaseProxy(k)
  <2>1. Unlent \in [node : SomeNode, token : 0 .. claims]
    BY DEF Unlent, SomeNode, PoolRight, PoolTyped
  <2>2. lent' \in [ProxyTasks -> [node : SomeNode, token : 0 .. claims]]
    BY <1>1, <1>4, <2>1 DEF ReleaseProxy
  <2> QED BY <1>1, <1>4, <2>2, MoveKeepsPool DEF ReleaseProxy
<1>5. CASE MarkFailure(k)
  <2>1. \A x \in NodeRows : Blocked(x) \in NodeRows /\ Unreachable(x) \in NodeRows
    <3> SUFFICES ASSUME NEW x \in NodeRows PROVE Blocked(x) \in NodeRows /\ Unreachable(x) \in NodeRows
      OBVIOUS
    <3>1. x.failures + 1 \in Nat
      BY DEF NodeRows
    <3>2. \A m \in Nat : /\ [x EXCEPT !.state = "cooldown", !.cooling = TRUE, !.failures = m] \in NodeRows
                         /\ [x EXCEPT !.failures = m, !.state = "offline"] \in NodeRows
                         /\ [x EXCEPT !.failures = m, !.state = x.state] \in NodeRows
      BY DEF NodeRows
    <3>3. Blocked(x) = [x EXCEPT !.state = "cooldown", !.cooling = TRUE, !.failures = x.failures + 1]
      BY DEF Blocked
    <3>4. \/ Unreachable(x) = [x EXCEPT !.failures = x.failures + 1, !.state = "offline"]
          \/ Unreachable(x) = [x EXCEPT !.failures = x.failures + 1, !.state = x.state]
      BY DEF Unreachable
    <3> QED BY <3>1, <3>2, <3>3, <3>4
  <2>2. node' \in [Nodes -> NodeRows]
    <3>1. CASE user[k].node \in Nodes
      BY <1>1, <1>5, <2>1, <3>1 DEF MarkFailure
    <3>2. CASE user[k].node \notin Nodes
      BY <1>1, <1>5, <3>2 DEF MarkFailure
    <3> QED BY <3>1, <3>2
  <2> QED BY <1>1, <1>5, <2>2, MoveKeepsPool DEF MarkFailure
<1> QED BY <1>2, <1>3, <1>4, <1>5

\* Every step of the pool keeps its invariant.
LEMMA PoolStep == PoolRight /\ [PoolNext]_poolVars => PoolRight'
<1>1. PoolRight /\ UNCHANGED poolVars => PoolRight'
  BY DEF poolVars, PoolRight, PoolTyped, UnusedIsBlank, AttestationsAreOwn
<1> QED
  BY <1>1, ClaimKeepsPool, NodesKeepPool, SelectKeepsPool, AttestKeepsPool, EndKeepsPool DEF PoolNext

\* No step takes the proxy lease of a run that holds its task, but the run's own
\* and the end of the lease.
LEMMA NothingStolen == PoolRight /\ [PoolNext]_poolVars =>
  [\A t \in ProxyTasks, k \in Tokens :
        /\ lent[t].token = k /\ holder[t] = k /\ user[k].at = "held"
        /\ lent'[t].token # k
        => user'[k].at # "held" \/ user' = user]_poolVars
<1> SUFFICES ASSUME PoolRight, PoolNext, NEW t \in ProxyTasks, NEW k \in Tokens,
                    lent[t].token = k, holder[t] = k, user[k].at = "held",
                    lent'[t].token # k, user' # user
             PROVE  user'[k].at # "held"
  OBVIOUS
<1>1. lent' # lent
  OBVIOUS
<1>2. PICK x \in Tokens : SelectLocal(x) \/ SelectRemote(x) \/ ReleaseProxy(x)
  BY <1>1 DEF PoolNext, ClaimProxyTask, ReapProxyTask, LeaseExpires, RegisterNode, RevokeNode,
     CooldownEnds, FinishAttempt, RecordConnectedIp, AcquisitionFails, MarkFailure, WorkerDies
<1>3. user[x].task \in ProxyTasks \/ lent' = lent
  BY <1>2 DEF PoolRight, PoolTyped, UserRows, SelectLocal, SelectRemote, ReleaseProxy, NoneChosen
<1>4. user[x].task = t
  BY <1>1, <1>2, <1>3 DEF PoolRight, PoolTyped, SelectLocal, SelectRemote, ReleaseProxy, NoneChosen
<1>5. CASE SelectLocal(x)
  <2>1. lent[t] # Unlent
    BY TokensCount DEF Unlent
  <2> QED BY <1>1, <1>4, <1>5, <2>1 DEF SelectLocal, NoneChosen, PoolRight, PoolTyped
<1>6. CASE SelectRemote(x)
  <2>1. holder[t] = x
    BY <1>1, <1>4, <1>6 DEF SelectRemote, NoneChosen, InForce
  <2> QED BY <1>6, <2>1 DEF SelectRemote
<1>7. CASE ReleaseProxy(x)
  BY <1>1, <1>4, <1>7 DEF ReleaseProxy, Moves, PoolRight, PoolTyped, UserRows
<1> QED BY <1>2, <1>5, <1>6, <1>7

-------------------------------------------------------------------------------
(* Remote workers *)

Identities == {"active", "draining", "revoked", "incompatible"}
Places == {"down", "poll", "register", "check", "claim", "needs", "end"} \cup Working
ProcRows == [at : Places, draining : BOOLEAN, known : BOOLEAN, page : Pages \cup {NoPage},
             token : Nat, beats : BOOLEAN, broken : BOOLEAN, lost : BOOLEAN]
RowStates == {"absent", "pending", "retry_wait", "leased", "succeeded",
              "permanent_failed", "blocked_robots", "cancelled"}
TaskRows == [state : RowStates, owner : Fleet \cup {Nobody}, token : Nat, attempts : Nat,
             late : BOOLEAN]

\* The tables and processes of the fleet, with their types.
FleetTyped ==
    /\ identity \in [Fleet -> Identities] /\ proc \in [Fleet -> ProcRows]
    /\ row \in [Pages -> TaskRows] /\ granted \in 0 .. MaxGrants
    /\ result \in [Pages -> [token : Nat, worker : Fleet \cup {Nobody}]]

\* A row that is not leased names no lease.
TokensAreLeases == \A p \in Pages : row[p].state # "leased" => row[p].token = 0

\* A worker that is about to report its page has stored what it reports.
UploadsComeFirst ==
    \A w \in Fleet : proc[w].at = "complete" =>
        [page |-> proc[w].page, token |-> proc[w].token, worker |-> w] \in objects

FleetRight == FleetTyped /\ TokensAreLeases /\ UploadsComeFirst /\ ArtifactBehindResult

\* No worker has started and no page is known.
LEMMA FleetStart == FleetInit => FleetRight
<1> SUFFICES ASSUME FleetInit PROVE FleetRight
  OBVIOUS
<1>1. Stopped \in ProcRows
  BY DEF Stopped, ProcRows, Places
<1>2. NewRow \in TaskRows
  BY DEF NewRow, TaskRows, RowStates
<1>3. NoResult \in [token : Nat, worker : Fleet \cup {Nobody}]
  BY DEF NoResult
<1>4. FleetTyped
  BY <1>1, <1>2, <1>3, FleetAssumption DEF FleetInit, FleetTyped, Identities
<1>5. TokensAreLeases
  BY DEF FleetInit, TokensAreLeases, NewRow
<1>6. UploadsComeFirst
  BY DEF FleetInit, UploadsComeFirst, Stopped
<1>7. ArtifactBehindResult
  BY DEF FleetInit, ArtifactBehindResult
<1> QED BY <1>4, <1>5, <1>6, <1>7 DEF FleetRight

\* A step of one worker: what it becomes is a process, the rows it leaves are
\* rows, and it comes to its report with an upload.
LEMMA WorkerKeeps ==
  ASSUME FleetRight, NEW w \in Fleet, NEW x \in ProcRows, Becomes(w, x),
         x.at = "complete" => [page |-> x.page, token |-> x.token, worker |-> w] \in objects',
         identity' \in [Fleet -> Identities], row' \in [Pages -> TaskRows], TokensAreLeases',
         granted' \in 0 .. MaxGrants, objects \subseteq objects', UNCHANGED result
  PROVE  FleetRight'
<1>1. proc' = [proc EXCEPT ![w] = x]
  BY DEF Becomes
<1>2. FleetTyped'
  BY <1>1 DEF FleetRight, FleetTyped
<1>3. UploadsComeFirst'
  BY <1>1 DEF FleetRight, FleetTyped, UploadsComeFirst
<1>4. ArtifactBehindResult'
  BY DEF FleetRight, ArtifactBehindResult
<1> QED BY <1>2, <1>3, <1>4 DEF FleetRight

\* The changes of one field that the actions make.
LEMMA ProcUpdates ==
  ASSUME NEW x \in ProcRows
  PROVE  /\ \A at \in Places : [x EXCEPT !.at = at] \in ProcRows
         /\ \A at \in Places, known \in BOOLEAN : [x EXCEPT !.known = known, !.at = at] \in ProcRows
         /\ \A p \in Pages, k \in Nat : [x EXCEPT !.at = "needs", !.page = p, !.token = k] \in ProcRows
         /\ [x EXCEPT !.at = "work", !.beats = TRUE] \in ProcRows
         /\ [x EXCEPT !.at = "poll", !.page = NoPage] \in ProcRows
         /\ [x EXCEPT !.beats = FALSE, !.lost = TRUE, !.known = FALSE] \in ProcRows
         /\ [x EXCEPT !.beats = FALSE, !.broken = TRUE] \in ProcRows
         /\ [x EXCEPT !.draining = TRUE] \in ProcRows
         /\ Stopped \in ProcRows
         /\ \A known \in BOOLEAN : [Stopped EXCEPT !.at = "poll", !.known = known] \in ProcRows
<1>1. {"down", "poll", "needs", "work"} \subseteq Places
  BY DEF Places, Working
<1>2. /\ \A at \in Places : [x EXCEPT !.at = at] \in ProcRows
      /\ \A at \in Places, known \in BOOLEAN : [x EXCEPT !.known = known, !.at = at] \in ProcRows
  BY DEF ProcRows
<1>3. \A p \in Pages, k \in Nat : [x EXCEPT !.at = "needs", !.page = p, !.token = k] \in ProcRows
  BY <1>1 DEF ProcRows
<1>4. /\ [x EXCEPT !.at = "work", !.beats = TRUE] \in ProcRows
      /\ [x EXCEPT !.at = "poll", !.page = NoPage] \in ProcRows
  BY <1>1 DEF ProcRows
<1>5. /\ [x EXCEPT !.beats = FALSE, !.lost = TRUE, !.known = FALSE] \in ProcRows
      /\ [x EXCEPT !.beats = FALSE, !.broken = TRUE] \in ProcRows
      /\ [x EXCEPT !.draining = TRUE] \in ProcRows
  BY DEF ProcRows
<1>6. Stopped \in ProcRows
  BY <1>1 DEF ProcRows, Stopped
<1>7. \A known \in BOOLEAN : [Stopped EXCEPT !.at = "poll", !.known = known] \in ProcRows
  BY <1>1, <1>6 DEF ProcRows
<1> QED BY <1>2, <1>3, <1>4, <1>5, <1>6, <1>7

\* A row whose lease ends, and one that is leased, found or late.
LEMMA RowUpdates ==
  ASSUME NEW r \in TaskRows
  PROVE  /\ \A s \in RowStates : /\ Free(r, s) \in TaskRows
                                 /\ Free(r, s).state = s /\ Free(r, s).token = 0
         /\ \A s \in RowStates : /\ [r EXCEPT !.state = s] \in TaskRows
                                 /\ [r EXCEPT !.state = s].state = s
                                 /\ [r EXCEPT !.state = s].token = r.token
         /\ \A b \in BOOLEAN : /\ [r EXCEPT !.late = b] \in TaskRows
                               /\ [r EXCEPT !.late = b].state = r.state
                               /\ [r EXCEPT !.late = b].token = r.token
BY DEF TaskRows, Free

\* Rows whose lease ends, and no other change.
LEMMA FreedRows ==
  ASSUME FleetRight, NEW S \in SUBSET Pages, NEW s \in [Pages -> RowStates \ {"leased"}],
         row' = [p \in Pages |-> IF p \in S THEN Free(row[p], s[p]) ELSE row[p]]
  PROVE  row' \in [Pages -> TaskRows] /\ TokensAreLeases'
<1>1. \A p \in Pages : row[p] \in TaskRows
  BY DEF FleetRight, FleetTyped
<1> QED BY <1>1, RowUpdates DEF FleetRight, TokensAreLeases

\* One row whose lease ends.
LEMMA FreedRow ==
  ASSUME FleetRight, NEW p \in Pages, NEW s \in RowStates \ {"leased"},
         row' = [row EXCEPT ![p] = Free(@, s)]
  PROVE  row' \in [Pages -> TaskRows] /\ TokensAreLeases'
<1>1. row[p] \in TaskRows /\ row' = [row EXCEPT ![p] = Free(row[p], s)]
  BY DEF FleetRight, FleetTyped
<1>2. \A q \in Pages : row'[q] = IF q = p THEN Free(row[p], s) ELSE row[q]
  BY <1>1 DEF FleetRight, FleetTyped
<1>3. row' \in [Pages -> TaskRows]
  BY <1>1, RowUpdates DEF FleetRight, FleetTyped
<1> QED BY <1>1, <1>2, <1>3, RowUpdates DEF FleetRight, TokensAreLeases

\* A row that becomes late, or whose lease is renewed.
LEMMA LateRow ==
  ASSUME FleetRight, NEW p \in Pages, NEW b \in BOOLEAN, row' = [row EXCEPT ![p].late = b]
  PROVE  /\ row' \in [Pages -> TaskRows] /\ TokensAreLeases'
         /\ \A q \in Pages : row'[q].state = row[q].state /\ row'[q].token = row[q].token
<1>1. row[p] \in TaskRows /\ row' = [row EXCEPT ![p] = [row[p] EXCEPT !.late = b]]
  BY DEF FleetRight, FleetTyped
<1>2. \A q \in Pages : row'[q] = IF q = p THEN [row[p] EXCEPT !.late = b] ELSE row[q]
  BY <1>1 DEF FleetRight, FleetTyped
<1>3. row' \in [Pages -> TaskRows]
  BY <1>1, RowUpdates DEF FleetRight, FleetTyped
<1> QED BY <1>1, <1>2, <1>3, RowUpdates DEF FleetRight, TokensAreLeases

\* The steps of a process that leave the database alone, and those that only
\* change its identity.
LEMMA QuietKeeps ==
  ASSUME FleetRight, NEW w \in Fleet,
         \/ StartProcess(w) \/ BeginTick(w) \/ Register(w) \/ CheckHealth(w) \/ AskCapabilities(w)
         \/ Acquire(w) \/ EndRunOnce(w) \/ DrainedTick(w) \/ Sigterm(w) \/ Crash(w)
  PROVE  FleetRight'
<1>1. proc[w] \in ProcRows /\ proc \in [Fleet -> ProcRows]
  BY DEF FleetRight, FleetTyped
<1>2. UNCHANGED <<row, halted, objects, result, granted>>
  BY DEF StartProcess, BeginTick, Register, CheckHealth, AskCapabilities, Acquire, EndRunOnce,
         DrainedTick, Sigterm, Crash, Database
<1>3. TokensAreLeases' /\ row' \in [Pages -> TaskRows] /\ granted' \in 0 .. MaxGrants
  BY <1>2 DEF FleetRight, FleetTyped, TokensAreLeases
<1>4. identity' \in [Fleet -> Identities]
  BY DEF FleetRight, FleetTyped, Identities, Registered,
         StartProcess, BeginTick, Register, CheckHealth, AskCapabilities, Acquire, EndRunOnce,
         DrainedTick, Sigterm, Crash, Database
<1>5. \E x \in ProcRows : Becomes(w, x) /\ (x.at # "complete" \/ x = [proc[w] EXCEPT !.draining = TRUE])
  <2>1. \A at \in Places : [proc[w] EXCEPT !.at = at] \in ProcRows /\ [proc[w] EXCEPT !.at = at].at = at
    <3>1. \A at \in Places : [proc[w] EXCEPT !.at = at] \in ProcRows
      BY <1>1, ProcUpdates
    <3>2. \A at \in Places : [proc[w] EXCEPT !.at = at].at = at
      BY <1>1 DEF ProcRows
    <3> QED BY <3>1, <3>2
  <2>2. CASE StartProcess(w) \/ BeginTick(w) \/ CheckHealth(w) \/ Acquire(w)
    <3>1. PICK at \in Places \ {"complete"} : At(w, at)
      BY <2>2 DEF StartProcess, BeginTick, CheckHealth, Acquire, Places, Working
    <3> QED BY <2>1, <3>1 DEF At
  <2>3. CASE Register(w)
    <3>1. CASE At(w, "poll")
      BY <2>1, <3>1 DEF At, Places
    <3>2. CASE Becomes(w, [proc[w] EXCEPT !.known = identity'[w] = "active",
                            !.at = IF identity'[w] = "active" THEN "check" ELSE "poll"])
      <4> DEFINE known == identity'[w] = "active"
                 at == IF identity'[w] = "active" THEN "check" ELSE "poll"
      <4>1. known \in BOOLEAN /\ at \in Places /\ at # "complete"
        BY DEF Places
      <4>2. [proc[w] EXCEPT !.known = known, !.at = at] \in ProcRows
        BY <1>1, <4>1, ProcUpdates
      <4>3. [proc[w] EXCEPT !.known = known, !.at = at].at = at
        BY <1>1 DEF ProcRows
      <4> QED BY <3>2, <4>1, <4>2, <4>3
    <3> QED BY <2>3, <3>1, <3>2 DEF Register
  <2>4. Stopped \in ProcRows /\ Stopped.at = "down"
    BY <1>1, ProcUpdates DEF Stopped
  <2>5. CASE Exits(w)
    BY <2>4, <2>5 DEF Exits
  <2>6. CASE AskCapabilities(w)
    <3> DEFINE x == [proc[w] EXCEPT !.at = "work", !.beats = TRUE]
               y == [proc[w] EXCEPT !.at = "poll", !.page = NoPage]
    <3>1. x.at = "work" /\ y.at = "poll"
      BY <1>1 DEF ProcRows
    <3>2. x \in ProcRows /\ y \in ProcRows
      BY <1>1, ProcUpdates
    <3>3. Becomes(w, x) \/ Becomes(w, y) \/ Exits(w)
      BY <2>6 DEF AskCapabilities
    <3> HIDE DEF x, y
    <3> QED BY <2>5, <3>1, <3>2, <3>3
  <2>7. CASE EndRunOnce(w)
    <3>1. proc[w].known \in BOOLEAN /\ [Stopped EXCEPT !.at = "poll", !.known = proc[w].known].at = "poll"
      BY <1>1 DEF ProcRows, Stopped
    <3> QED BY <1>1, <2>5, <2>7, <3>1, ProcUpdates DEF EndRunOnce
  <2>8. CASE Sigterm(w)
    <3> DEFINE x == [proc[w] EXCEPT !.draining = TRUE]
    <3>1. x \in ProcRows
      BY <1>1, ProcUpdates
    <3>2. Becomes(w, x) \/ Becomes(w, Stopped)
      BY <2>8 DEF Sigterm
    <3> QED BY <2>4, <3>1, <3>2
  <2> QED BY <2>2, <2>3, <2>5, <2>6, <2>7, <2>8 DEF DrainedTick, Crash
<1>6. PICK x \in ProcRows : Becomes(w, x) /\ (x.at # "complete" \/ x = [proc[w] EXCEPT !.draining = TRUE])
  BY <1>5
<1>7. x.at = "complete" => [page |-> x.page, token |-> x.token, worker |-> w] \in objects'
  BY <1>1, <1>2, <1>6 DEF FleetRight, UploadsComeFirst, ProcRows
<1> QED BY <1>2, <1>3, <1>4, <1>6, <1>7, WorkerKeeps

\* The phases of the rows' states.
LEMMA RemotePhases ==
  /\ RemotePhase("absent") = "unknown" /\ RemotePhase("pending") = "queued"
  /\ RemotePhase("retry_wait") = "queued" /\ RemotePhase("leased") = "held"
  /\ RemotePhase("succeeded") = "done" /\ RemotePhase("permanent_failed") = "dropped"
  /\ RemotePhase("blocked_robots") = "dropped" /\ RemotePhase("cancelled") = "dropped"
BY DEF RemotePhase

\* States, leases and results are as they were: the queue stands still.
LEMMA RemoteQuiet ==
  ASSUME \A p \in Pages : row'[p].state = row[p].state /\ row'[p].token = row[p].token,
         UNCHANGED <<granted, result>>
  PROVE  UNCHANGED Remote!queueVars
BY DEF Remote!queueVars

\* A lease ends without a result.
LEMMA RemoteGivesBack ==
  ASSUME NEW p \in Pages, row[p].state = "leased",
         row'[p].state \in {"retry_wait", "permanent_failed", "blocked_robots", "cancelled"},
         row'[p].token = 0, \A q \in Pages : q # p => row'[q] = row[q],
         UNCHANGED <<granted, result>>
  PROVE  Remote!Next
<1> DEFINE ph == [q \in Pages |-> RemotePhase(row[q].state)]
           next == RemotePhase(row'[p].state)
<1>1. next \in Remote!Waiting \cup {"dropped"} /\ ph[p] = "held"
  BY RemotePhases DEF Remote!Waiting
<1>2. ph' = [Remote!Dropped({}) EXCEPT ![p] = next]
  BY DEF Remote!Dropped
<1>3. [q \in Pages |-> row[q].token]' = [[q \in Pages |-> row[q].token] EXCEPT ![p] = 0]
  OBVIOUS
<1>4. Remote!GiveBack(p)
  BY <1>1, <1>2, <1>3 DEF Remote!GiveBack
<1> QED BY <1>4 DEF Remote!Next

\* Queued pages are given up.
LEMMA RemoteWithdraws ==
  ASSUME NEW S \in SUBSET Pages,
         \A p \in S : row[p].state \in {"pending", "retry_wait"} /\ row'[p].state = "cancelled",
         \A p \in Pages \ S : row'[p] = row[p],
         \A p \in Pages : row'[p].token = row[p].token,
         UNCHANGED <<granted, result>>
  PROVE  [Remote!Next]_(Remote!queueVars)
<1> DEFINE ph == [q \in Pages |-> RemotePhase(row[q].state)]
<1>1. S \in SUBSET {x \in Pages : ph[x] \in Remote!Waiting}
  BY RemotePhases DEF Remote!Waiting
<1>2. ph' = Remote!Dropped(S)
  BY RemotePhases DEF Remote!Dropped
<1>3. UNCHANGED <<[q \in Pages |-> row[q].token], granted, [q \in Pages |-> result[q].token]>>
  OBVIOUS
<1>4. CASE S = {}
  <2>1. ph' = ph
    BY <1>4
  <2> QED BY <1>3, <2>1 DEF Remote!queueVars
<1>5. CASE S # {}
  <2>1. Remote!Withdraw
    BY <1>1, <1>2, <1>3, <1>5 DEF Remote!Withdraw
  <2> QED BY <2>1 DEF Remote!Next
<1> QED BY <1>4, <1>5

\* A step is right when it keeps the invariant and is a step of the queue or
\* none.
RemoteRight == FleetRight' /\ [Remote!Next]_(Remote!queueVars)

\* The steps of a process between its calls.
LEMMA QuietRight ==
  ASSUME FleetRight, NEW w \in Fleet,
         \/ StartProcess(w) \/ BeginTick(w) \/ Register(w) \/ CheckHealth(w) \/ AskCapabilities(w)
         \/ Acquire(w) \/ EndRunOnce(w) \/ DrainedTick(w) \/ Sigterm(w) \/ Crash(w)
  PROVE  RemoteRight
<1>1. UNCHANGED <<row, granted, result>>
  BY DEF StartProcess, BeginTick, Register, CheckHealth, AskCapabilities, Acquire, EndRunOnce,
         DrainedTick, Sigterm, Crash, Database
<1> QED BY <1>1, QuietKeeps, RemoteQuiet DEF RemoteRight

\* A fenced call that ends its worker's lease.
LEMMA EndsLease ==
  ASSUME FleetRight, NEW w \in Fleet, OwnLease(w),
         NEW s \in {"retry_wait", "permanent_failed", "blocked_robots", "cancelled"},
         row' = [row EXCEPT ![Holds(w)] = Free(@, s)], UNCHANGED <<granted, result>>
  PROVE  row' \in [Pages -> TaskRows] /\ TokensAreLeases' /\ Remote!Next
<1> DEFINE p == Holds(w)
<1>1. p \in Pages /\ row[p].state = "leased" /\ row[p] \in TaskRows
  BY DEF OwnLease, Holds, FleetRight, FleetTyped, ProcRows
<1>2. s \in RowStates \ {"leased"}
  BY DEF RowStates
<1>3. \A q \in Pages : row'[q] = IF q = p THEN Free(row[p], s) ELSE row[q]
  BY <1>1 DEF FleetRight, FleetTyped
<1>4. row'[p].state = s /\ row'[p].token = 0
  BY <1>1, <1>2, <1>3, RowUpdates
<1> HIDE DEF p
<1>5. Remote!Next
  BY <1>1, <1>3, <1>4, RemoteGivesBack
<1> QED BY <1>1, <1>2, <1>5, FreedRow DEF p

\* The end of a call at a place of run_once other than the report.
LEMMA CallEnds ==
  ASSUME FleetRight, NEW w \in Fleet, NEW at \in Places \ {"complete"}, At(w, at) \/ Exits(w),
         row' \in [Pages -> TaskRows], TokensAreLeases', objects \subseteq objects',
         UNCHANGED <<identity, granted, result>>
  PROVE  FleetRight'
<1>1. proc[w] \in ProcRows
  BY DEF FleetRight, FleetTyped
<1>2. [proc[w] EXCEPT !.at = at] \in ProcRows /\ Stopped \in ProcRows
  BY <1>1, ProcUpdates
<1>3. [proc[w] EXCEPT !.at = at].at = at /\ Stopped.at = "down"
  BY <1>1 DEF ProcRows, Stopped
<1>4. identity' \in [Fleet -> Identities] /\ granted' \in 0 .. MaxGrants
  BY DEF FleetRight, FleetTyped
<1>5. PICK x \in ProcRows : Becomes(w, x) /\ x.at # "complete"
  BY <1>2, <1>3 DEF At, Exits
<1> QED BY <1>4, <1>5, WorkerKeeps

\* claim: a fresh token for a page that waits.
LEMMA ClaimRight ==
  ASSUME FleetRight, NEW w \in Fleet, Claim(w)
  PROVE  RemoteRight
<1>1. CASE UNCHANGED <<row, granted>> /\ (At(w, "poll") \/ Exits(w))
  <2>1. row' \in [Pages -> TaskRows] /\ TokensAreLeases'
    BY <1>1 DEF FleetRight, FleetTyped, TokensAreLeases
  <2>2. "poll" \in Places \ {"complete"} /\ UNCHANGED <<identity, objects, result>>
    BY DEF Places, Claim
  <2> QED BY <1>1, <2>1, <2>2, CallEnds, RemoteQuiet DEF RemoteRight
<1>2. ASSUME NEW p \in Pages, granted < MaxGrants, row[p].state \in {"pending", "retry_wait"},
             granted' = granted + 1,
             row' = [row EXCEPT ![p] = [state |-> "leased", owner |-> w, token |-> granted + 1,
                                        attempts |-> @.attempts + 1, late |-> FALSE]],
             Becomes(w, [proc[w] EXCEPT !.at = "needs", !.page = p, !.token = granted + 1])
      PROVE  RemoteRight
  <2> DEFINE k == granted + 1
             x == [proc[w] EXCEPT !.at = "needs", !.page = p, !.token = k]
             r == [state |-> "leased", owner |-> w, token |-> k, attempts |-> row[p].attempts + 1,
                   late |-> FALSE]
             ph == [q \in Pages |-> RemotePhase(row[q].state)]
  <2>1. k \in Nat /\ k \in 0 .. MaxGrants
    BY <1>2, FleetAssumption DEF FleetRight, FleetTyped
  <2>2. proc[w] \in ProcRows /\ row[p] \in TaskRows
    BY DEF FleetRight, FleetTyped
  <2>3. x \in ProcRows
    BY <2>1, <2>2, ProcUpdates
  <2>4. x.at = "needs"
    BY <2>2 DEF ProcRows
  <2>5. r \in TaskRows
    <3>1. row[p].attempts + 1 \in Nat
      BY <2>2 DEF TaskRows
    <3> QED BY <2>1, <3>1 DEF TaskRows, RowStates
  <2>6. row' = [row EXCEPT ![p] = r]
    BY <1>2
  <2>7. \A q \in Pages : row'[q] = IF q = p THEN r ELSE row[q]
    BY <2>6 DEF FleetRight, FleetTyped
  <2>8. row' \in [Pages -> TaskRows] /\ TokensAreLeases'
    BY <2>5, <2>6, <2>7 DEF FleetRight, FleetTyped, TokensAreLeases
  <2>9. UNCHANGED <<identity, objects, result>> /\ identity' \in [Fleet -> Identities]
    BY DEF Claim, FleetRight, FleetTyped
  <2>10. Becomes(w, x)
    BY <1>2
  <2>a. /\ row'[p].state = "leased" /\ row'[p].token = k
        /\ \A q \in Pages : q # p => row'[q] = row[q]
    BY <2>7
  <2> HIDE DEF r, k, x
  <2>b. ph[p] \in Remote!Waiting
    BY <1>2, RemotePhases DEF Remote!Waiting
  <2>11. ph' = [ph EXCEPT ![p] = "held"] /\ ph[p] \in Remote!Waiting
    BY <2>a, <2>b, RemotePhases
  <2>12. [q \in Pages |-> row[q].token]' = [[q \in Pages |-> row[q].token] EXCEPT ![p] = k]
    BY <2>a
  <2>13. Remote!Take(p)
    BY <1>2, <2>9, <2>11, <2>12 DEF Remote!Take, k
  <2>14. FleetRight'
    BY <1>2, <2>1, <2>3, <2>4, <2>8, <2>9, <2>10, WorkerKeeps DEF k
  <2> QED BY <2>13, <2>14 DEF RemoteRight, Remote!Next
<1> QED BY <1>1, <1>2 DEF Claim

\* heartbeat: renewed, rejected or failed; the lease stays what it was.
LEMMA BeatRight ==
  ASSUME FleetRight, NEW w \in Fleet, Beat(w)
  PROVE  RemoteRight
<1>1. UNCHANGED <<identity, objects, result, granted>>
  BY DEF Beat
<1>2. proc[w] \in ProcRows
  BY DEF FleetRight, FleetTyped
<1>3. CASE OwnLease(w) /\ row' = [row EXCEPT ![Holds(w)].late = FALSE] /\ UNCHANGED proc
  <2>1. Holds(w) \in Pages
    BY <1>2, <1>3 DEF OwnLease, Holds, ProcRows
  <2>2. /\ row' \in [Pages -> TaskRows] /\ TokensAreLeases'
        /\ \A q \in Pages : row'[q].state = row[q].state /\ row'[q].token = row[q].token
    BY <1>3, <2>1, LateRow
  <2>3. FleetRight'
    BY <1>1, <1>3, <2>2 DEF FleetRight, FleetTyped, UploadsComeFirst, ArtifactBehindResult
  <2> QED BY <1>1, <2>2, <2>3, RemoteQuiet DEF RemoteRight
<1>4. ASSUME NEW x \in {[proc[w] EXCEPT !.beats = FALSE, !.lost = TRUE, !.known = FALSE],
                        [proc[w] EXCEPT !.beats = FALSE, !.broken = TRUE]},
             Becomes(w, x), UNCHANGED row
      PROVE  RemoteRight
  <2>1. x \in ProcRows
    BY <1>2, ProcUpdates
  <2>2. x.at = proc[w].at /\ x.page = proc[w].page /\ x.token = proc[w].token
    BY <1>2 DEF ProcRows
  <2>3. x.at = "complete" => [page |-> x.page, token |-> x.token, worker |-> w] \in objects'
    BY <1>1, <2>2 DEF FleetRight, UploadsComeFirst
  <2>4. /\ row' \in [Pages -> TaskRows] /\ TokensAreLeases'
        /\ identity' \in [Fleet -> Identities] /\ granted' \in 0 .. MaxGrants
    BY <1>1, <1>4 DEF FleetRight, FleetTyped, TokensAreLeases
  <2>5. FleetRight'
    BY <1>1, <1>4, <2>1, <2>3, <2>4, WorkerKeeps
  <2> QED BY <1>1, <1>4, <2>5, RemoteQuiet DEF RemoteRight
<1> QED BY <1>3, <1>4 DEF Beat

\* block_robots, retry, fail and the release of a cancelled tick.
LEMMA FailureRight ==
  ASSUME FleetRight, NEW w \in Fleet, BlockRobots(w) \/ ReportFailure(w) \/ ReleaseLate(w)
  PROVE  RemoteRight
<1>1. UNCHANGED <<identity, objects, result, granted>> /\ (At(w, "end") \/ Exits(w))
  BY DEF BlockRobots, ReportFailure, ReleaseLate
<1>2. \/ row' = row
      \/ /\ OwnLease(w)
         /\ \E s \in {"retry_wait", "permanent_failed", "blocked_robots", "cancelled"} :
              row' = [row EXCEPT ![Holds(w)] = Free(@, s)]
  BY DEF BlockRobots, ReportFailure, ReleaseLate, MayComplete, AfterFailure
<1>3. /\ row' \in [Pages -> TaskRows] /\ TokensAreLeases'
      /\ row' = row \/ Remote!Next
  <2>1. CASE row' = row
    BY <2>1 DEF FleetRight, FleetTyped, TokensAreLeases
  <2> QED BY <1>1, <1>2, <2>1, EndsLease
<1>4. "end" \in Places \ {"complete"}
  BY DEF Places
<1> QED BY <1>1, <1>3, <1>4, CallEnds, RemoteQuiet DEF RemoteRight

\* The upload: the page comes to its report with its artifact.
LEMMA PutRight ==
  ASSUME FleetRight, NEW w \in Fleet, PutArtifact(w)
  PROVE  RemoteRight
<1>1. UNCHANGED <<identity, row, result, granted>> /\ objects \subseteq objects'
  BY DEF PutArtifact
<1>2. /\ row' \in [Pages -> TaskRows] /\ TokensAreLeases'
      /\ identity' \in [Fleet -> Identities] /\ granted' \in 0 .. MaxGrants
  BY <1>1 DEF FleetRight, FleetTyped, TokensAreLeases
<1>3. CASE At(w, Failing(w))
  <2>1. Failing(w) \in Places \ {"complete"}
    BY DEF Failing, Places, Working
  <2> QED BY <1>1, <1>2, <1>3, <2>1, CallEnds, RemoteQuiet DEF RemoteRight
<1>4. CASE /\ At(w, "complete")
           /\ objects' = objects \cup {[page |-> Holds(w), token |-> proc[w].token, worker |-> w]}
  <2> DEFINE x == [proc[w] EXCEPT !.at = "complete"]
  <2>1. proc[w] \in ProcRows /\ "complete" \in Places
    BY DEF FleetRight, FleetTyped, Places, Working
  <2>2. x \in ProcRows
    BY <2>1, ProcUpdates
  <2>3. x.page = proc[w].page /\ x.token = proc[w].token
    BY <2>1 DEF ProcRows
  <2>4. [page |-> x.page, token |-> x.token, worker |-> w] \in objects'
    BY <1>4, <2>3 DEF Holds
  <2>5. Becomes(w, x)
    BY <1>4 DEF At
  <2> HIDE DEF x
  <2> QED BY <1>1, <1>2, <2>2, <2>4, <2>5, WorkerKeeps, RemoteQuiet DEF RemoteRight
<1> QED BY <1>3, <1>4 DEF PutArtifact

\* complete: the result is stored with the lease its artifact was uploaded under.
LEMMA CompleteRight ==
  ASSUME FleetRight, NEW w \in Fleet, CompleteRemote(w)
  PROVE  RemoteRight
<1> DEFINE p == Holds(w)
<1>1. UNCHANGED <<identity, objects, granted>> /\ proc[w].at = "complete" /\ proc[w] \in ProcRows
  BY DEF CompleteRemote, FleetRight, FleetTyped
<1>2. CASE UNCHANGED <<row, result>> /\ (At(w, "end") \/ At(w, Failing(w)))
  <2>1. row' \in [Pages -> TaskRows] /\ TokensAreLeases'
    BY <1>2 DEF FleetRight, FleetTyped, TokensAreLeases
  <2>2. PICK at \in Places \ {"complete"} : At(w, at)
    BY <1>2 DEF Failing, Places, Working
  <2> QED BY <1>1, <1>2, <2>1, <2>2, CallEnds, RemoteQuiet DEF RemoteRight
<1>3. ASSUME MayComplete(w), At(w, "end"),
             NEW found \in SUBSET {q \in Pages : row[q].state = "absent"},
             row' = [q \in Pages |-> IF q = p THEN Free(row[q], "succeeded")
                                     ELSE IF q \in found THEN [row[q] EXCEPT !.state = "pending"]
                                     ELSE row[q]],
             result' = [result EXCEPT ![p] = [token |-> proc[w].token, worker |-> w]]
      PROVE  RemoteRight
  <2> DEFINE kept == [token |-> proc[w].token, worker |-> w]
             ph == [q \in Pages |-> RemotePhase(row[q].state)]
  <2>1. p \in Pages /\ row[p].state = "leased" /\ row[p].token = proc[w].token
    BY <1>1, <1>3 DEF MayComplete, OwnLease, Holds, ProcRows
  <2>2. kept \in [token : Nat, worker : Fleet \cup {Nobody}]
    BY <1>1 DEF ProcRows
  <2>3. \A q \in Pages : row[q] \in TaskRows
    BY DEF FleetRight, FleetTyped
  <2>4. "succeeded" \in RowStates /\ "pending" \in RowStates
    BY DEF RowStates
  <2>5. /\ row'[p] = Free(row[p], "succeeded")
        /\ \A q \in found : row'[q] = [row[q] EXCEPT !.state = "pending"]
        /\ \A q \in Pages \ ({p} \cup found) : row'[q] = row[q]
        /\ p \notin found
    BY <1>3, <2>1
  <2>6. /\ row'[p] \in TaskRows /\ row'[p].state = "succeeded" /\ row'[p].token = 0
        /\ \A q \in found : /\ row'[q] \in TaskRows /\ row'[q].state = "pending"
                            /\ row'[q].token = row[q].token
    <3>1. ASSUME NEW q \in found
          PROVE  row'[q] \in TaskRows /\ row'[q].state = "pending" /\ row'[q].token = row[q].token
      <4> DEFINE r == [row[q] EXCEPT !.state = "pending"]
      <4>1. r \in TaskRows /\ r.state = "pending" /\ r.token = row[q].token
        BY <2>3, <2>4, RowUpdates
      <4>2. row'[q] = r
        BY <2>5
      <4> HIDE DEF r
      <4> QED BY <4>1, <4>2
    <3>2. Free(row[p], "succeeded") \in TaskRows /\ row'[p].state = "succeeded" /\ row'[p].token = 0
      BY <2>1, <2>3, <2>4, <2>5, RowUpdates
    <3> QED BY <2>5, <3>1, <3>2
  <2>7. row' \in [Pages -> TaskRows]
    <3>1. \A q \in Pages : row'[q] \in TaskRows
      BY <2>3, <2>5, <2>6
    <3> QED BY <1>3, <3>1
  <2>8. TokensAreLeases'
    BY <2>1, <2>5, <2>6 DEF FleetRight, TokensAreLeases
  <2>9. result' = [result EXCEPT ![p] = kept] /\ result' \in [Pages -> [token : Nat, worker : Fleet \cup {Nobody}]]
    BY <1>3, <2>2 DEF FleetRight, FleetTyped
  <2>10. proc' = [proc EXCEPT ![w] = [proc[w] EXCEPT !.at = "end"]]
    BY <1>3 DEF At, Becomes
  <2>11. [proc[w] EXCEPT !.at = "end"] \in ProcRows /\ [proc[w] EXCEPT !.at = "end"].at = "end"
    <3>1. "end" \in Places
      BY DEF Places
    <3>2. [proc[w] EXCEPT !.at = "end"] \in ProcRows
      BY <1>1, <3>1, ProcUpdates
    <3>3. [proc[w] EXCEPT !.at = "end"].at = "end"
      BY <1>1 DEF ProcRows
    <3> QED BY <3>2, <3>3
  <2>12. FleetTyped'
    BY <1>1, <2>7, <2>9, <2>10, <2>11 DEF FleetRight, FleetTyped
  <2>13. UploadsComeFirst'
    BY <1>1, <2>10, <2>11 DEF FleetRight, FleetTyped, UploadsComeFirst
  <2>14. ArtifactBehindResult'
    <3>1. [page |-> p, token |-> proc[w].token, worker |-> w] \in objects'
      BY <1>1 DEF FleetRight, UploadsComeFirst, Holds
    <3>2. \A q \in Pages : q # p => result'[q] = result[q]
      BY <2>9 DEF FleetRight, FleetTyped
    <3>3. result'[p].token = proc[w].token /\ result'[p].worker = w
      BY <2>1, <2>9 DEF FleetRight, FleetTyped
    <3> QED BY <1>1, <3>1, <3>2, <3>3 DEF FleetRight, ArtifactBehindResult
  <2>a. PICK i \in Pages : i = p
    BY <2>1
  <2>b. /\ row[i].state = "leased" /\ row[i].token = proc[w].token /\ i \notin found
        /\ row'[i].state = "succeeded" /\ row'[i].token = 0
        /\ result' = [result EXCEPT ![i] = kept]
        /\ \A q \in found : row'[q].state = "pending" /\ row'[q].token = row[q].token
        /\ \A q \in Pages \ ({i} \cup found) : row'[q] = row[q]
    BY <2>1, <2>5, <2>6, <2>9, <2>a
  <2> HIDE DEF p
  <2>15. ph' = [q \in Pages |-> IF q = i THEN "done" ELSE IF q \in found THEN "queued" ELSE ph[q]]
    BY <2>b, RemotePhases
  <2>16. found \in SUBSET {q \in Pages : ph[q] = "unknown"} /\ ph[i] = "held"
    BY <2>b, RemotePhases
  <2>17. [q \in Pages |-> row[q].token]' = [[q \in Pages |-> row[q].token] EXCEPT ![i] = 0]
    BY <2>b
  <2>18. [q \in Pages |-> result[q].token]' =
           [[q \in Pages |-> result[q].token] EXCEPT ![i] = [q \in Pages |-> row[q].token][i]]
    BY <2>b DEF FleetRight, FleetTyped
  <2>19. Remote!Finish(i)
    BY <1>1, <2>15, <2>16, <2>17, <2>18 DEF Remote!Finish
  <2>20. FleetRight'
    BY <2>8, <2>12, <2>13, <2>14 DEF FleetRight
  <2>21. Remote!Next
    BY <2>19 DEF Remote!Next
  <2> QED BY <2>20, <2>21 DEF RemoteRight
<1> HIDE DEF p
<1>4. \/ UNCHANGED <<row, result>> /\ (At(w, "end") \/ At(w, Failing(w)))
      \/ /\ MayComplete(w) /\ At(w, "end")
         /\ result' = [result EXCEPT ![p] = [token |-> proc[w].token, worker |-> w]]
         /\ \E found \in SUBSET {q \in Pages : row[q].state = "absent"} :
              row' = [q \in Pages |-> IF q = p THEN Free(row[q], "succeeded")
                                      ELSE IF q \in found THEN [row[q] EXCEPT !.state = "pending"]
                                      ELSE row[q]]
  BY DEF CompleteRemote, p
<1> QED BY <1>2, <1>3, <1>4

\* The operator and the core: identities, the seed, lapses, the reaper and the
\* end of the job.
LEMMA CoreRight ==
  ASSUME FleetRight,
         \/ \E w \in Fleet : DrainIdentity(w) \/ Revoke(w)
         \/ \E p \in Pages : SubmitSeed(p) \/ Lapse(p) \/ ReapRemote(p)
         \/ Halt \/ FinalizeHalted
  PROVE  RemoteRight
<1>1. UNCHANGED <<proc, objects, result, granted>>
  BY DEF DrainIdentity, Revoke, SubmitSeed, Lapse, ReapRemote, Halt, FinalizeHalted
<1>2. \A p \in Pages : row[p] \in TaskRows
  BY DEF FleetRight, FleetTyped
<1>3. ASSUME identity' \in [Fleet -> Identities], row' \in [Pages -> TaskRows], TokensAreLeases'
      PROVE  FleetRight'
  BY <1>1, <1>3 DEF FleetRight, FleetTyped, UploadsComeFirst, ArtifactBehindResult
<1>4. ASSUME NEW w \in Fleet, DrainIdentity(w) \/ Revoke(w)
      PROVE  RemoteRight
  <2>1. row' = row /\ identity' \in [Fleet -> Identities]
    BY <1>4 DEF DrainIdentity, Revoke, FleetRight, FleetTyped, Identities
  <2>2. row' \in [Pages -> TaskRows] /\ TokensAreLeases'
    BY <2>1 DEF FleetRight, FleetTyped, TokensAreLeases
  <2> QED BY <1>1, <1>3, <2>1, <2>2, RemoteQuiet DEF RemoteRight
<1>5. ASSUME NEW p \in Pages, SubmitSeed(p)
      PROVE  RemoteRight
  <2> DEFINE ph == [q \in Pages |-> RemotePhase(row[q].state)]
  <2>1. row' = [row EXCEPT ![p] = [row[p] EXCEPT !.state = "pending"]] /\ row[p].state = "absent"
    BY <1>5 DEF SubmitSeed
  <2>2. "pending" \in RowStates
    BY DEF RowStates
  <2>3. \A q \in Pages : row'[q] = IF q = p THEN [row[p] EXCEPT !.state = "pending"] ELSE row[q]
    BY <2>1 DEF FleetRight, FleetTyped
  <2>4. row'[p] \in TaskRows /\ row'[p].state = "pending" /\ row'[p].token = row[p].token
    <3> DEFINE r == [row[p] EXCEPT !.state = "pending"]
    <3>1. r \in TaskRows /\ r.state = "pending" /\ r.token = row[p].token
      BY <1>2, <2>2, RowUpdates
    <3>2. row'[p] = r
      BY <2>3
    <3> HIDE DEF r
    <3> QED BY <3>1, <3>2
  <2>5. row' \in [Pages -> TaskRows] /\ TokensAreLeases'
    BY <2>1, <2>3, <2>4 DEF FleetRight, FleetTyped, TokensAreLeases
  <2>a. \A q \in Pages : q # p => row'[q] = row[q]
    BY <2>3
  <2>6. ph' = [ph EXCEPT ![p] = "queued"] /\ ph[p] = "unknown"
    <3>1. ph[p] = "unknown"
      BY <2>1, RemotePhases
    <3> QED BY <2>4, <2>a, <3>1, RemotePhases
  <2>7. [q \in Pages |-> row[q].token]' = [q \in Pages |-> row[q].token]
    BY <2>4, <2>a
  <2>8. Remote!Announce(p)
    BY <1>1, <2>6, <2>7 DEF Remote!Announce
  <2> QED BY <1>3, <1>5, <2>5, <2>8 DEF RemoteRight, Remote!Next, SubmitSeed, FleetRight, FleetTyped
<1>6. ASSUME NEW p \in Pages, Lapse(p)
      PROVE  RemoteRight
  <2>1. /\ row' \in [Pages -> TaskRows] /\ TokensAreLeases'
        /\ \A q \in Pages : row'[q].state = row[q].state /\ row'[q].token = row[q].token
    BY <1>6, LateRow DEF Lapse
  <2>2. identity' \in [Fleet -> Identities]
    BY <1>6 DEF Lapse, FleetRight, FleetTyped
  <2> QED BY <1>1, <1>3, <2>1, <2>2, RemoteQuiet DEF RemoteRight
<1>7. ASSUME NEW p \in Pages, ReapRemote(p)
      PROVE  RemoteRight
  <2>1. PICK s \in {"cancelled", "permanent_failed", "retry_wait"} : row' = [row EXCEPT ![p] = Free(@, s)]
    BY <1>7 DEF ReapRemote
  <2>2. s \in RowStates \ {"leased"}
    BY DEF RowStates
  <2>3. row' \in [Pages -> TaskRows] /\ TokensAreLeases'
    BY <2>1, <2>2, FreedRow
  <2>4. \A q \in Pages : row'[q] = IF q = p THEN Free(row[p], s) ELSE row[q]
    BY <2>1 DEF FleetRight, FleetTyped
  <2>5. row'[p].state = s /\ row'[p].token = 0 /\ row[p].state = "leased"
    BY <1>2, <1>7, <2>2, <2>4, RowUpdates DEF ReapRemote
  <2>6. Remote!Next
    BY <1>1, <2>4, <2>5, RemoteGivesBack
  <2>7. identity' \in [Fleet -> Identities]
    BY <1>7 DEF ReapRemote, FleetRight, FleetTyped
  <2> QED BY <1>3, <2>3, <2>6, <2>7 DEF RemoteRight
<1>8. ASSUME NEW S \in SUBSET Pages, \A p \in S : row[p].state \in {"pending", "retry_wait"},
             row' = [p \in Pages |-> IF p \in S THEN Free(row[p], "cancelled") ELSE row[p]],
             UNCHANGED identity
      PROVE  RemoteRight
  <2>1. "cancelled" \in RowStates \ {"leased"}
    BY DEF RowStates
  <2>2. /\ \A p \in S : row'[p].state = "cancelled" /\ row'[p].token = 0
        /\ \A p \in Pages \ S : row'[p] = row[p]
    BY <1>2, <1>8, <2>1, RowUpdates
  <2>3. \A p \in S : row[p].token = 0
    BY <1>8 DEF FleetRight, TokensAreLeases
  <2>4. row' \in [Pages -> TaskRows]
    BY <1>2, <1>8, <2>1, RowUpdates
  <2>5. TokensAreLeases'
    BY <2>2 DEF FleetRight, TokensAreLeases
  <2>6. \A p \in Pages : row'[p].token = row[p].token
    BY <2>2, <2>3
  <2>7. [Remote!Next]_(Remote!queueVars)
    BY <1>1, <1>8, <2>2, <2>6, RemoteWithdraws
  <2> QED BY <1>3, <1>8, <2>4, <2>5, <2>7 DEF RemoteRight, FleetRight, FleetTyped
<1>9. CASE Halt
  <2> DEFINE S == {p \in Pages : row[p].state \in {"pending", "retry_wait"}}
  <2>1. /\ S \in SUBSET Pages /\ \A p \in S : row[p].state \in {"pending", "retry_wait"}
        /\ row' = [p \in Pages |-> IF p \in S THEN Free(row[p], "cancelled") ELSE row[p]]
        /\ UNCHANGED identity
    BY <1>9 DEF Halt
  <2> QED BY <1>8, <2>1
<1>10. CASE FinalizeHalted
  <2> DEFINE S == {p \in Pages : row[p].state = "retry_wait"}
  <2>1. /\ S \in SUBSET Pages /\ \A p \in S : row[p].state \in {"pending", "retry_wait"}
        /\ row' = [p \in Pages |-> IF p \in S THEN Free(row[p], "cancelled") ELSE row[p]]
        /\ UNCHANGED identity
    BY <1>10 DEF FinalizeHalted
  <2> QED BY <1>8, <2>1
<1> QED BY <1>4, <1>5, <1>6, <1>7, <1>9, <1>10

\* Every step of the fleet keeps its invariant and is a step of the queue.
LEMMA FleetStep == FleetRight /\ [FleetNext]_fvars => RemoteRight
<1>1. FleetRight /\ UNCHANGED fvars => RemoteRight
  BY RemoteQuiet DEF fvars, FleetRight, FleetTyped, TokensAreLeases, UploadsComeFirst,
     ArtifactBehindResult, RemoteRight
<1> QED
  BY <1>1, QuietRight, ClaimRight, BeatRight, FailureRight, PutRight, CompleteRight, CoreRight
     DEF FleetNext, WorkerTick

\* A step in which a revoked worker moves leaves the rows alone.
LEMMA RevokedStandsStill == FleetRight /\ [FleetNext]_fvars =>
  [\A w \in Fleet : identity[w] = "revoked" /\ proc'[w] # proc[w] => row' = row]_fvars
<1> SUFFICES ASSUME FleetRight, FleetNext, NEW v \in Fleet, identity[v] = "revoked",
                    proc'[v] # proc[v], row' # row
             PROVE  FALSE
  OBVIOUS
<1>1. PICK w \in Fleet : \/ Claim(w) \/ Beat(w) \/ BlockRobots(w) \/ CompleteRemote(w)
                         \/ ReportFailure(w) \/ ReleaseLate(w)
  BY DEF FleetNext, WorkerTick, StartProcess, BeginTick, Register, CheckHealth, AskCapabilities,
         Acquire, PutArtifact, EndRunOnce, DrainedTick, Sigterm, DrainIdentity, Crash, Revoke,
         SubmitSeed, Lapse, ReapRemote, Halt, FinalizeHalted, Database
<1>2. identity[w] \in {"active", "draining"}
  BY <1>1 DEF Claim, Beat, BlockRobots, CompleteRemote, ReportFailure, ReleaseLate, Active
<1>3. \A x : Becomes(w, x) => proc'[v] = proc[v]
  BY <1>2 DEF Becomes, FleetRight, FleetTyped
<1> QED BY <1>1, <1>3 DEF Claim, Beat, BlockRobots, CompleteRemote, ReportFailure, ReleaseLate,
                          At, Exits

-------------------------------------------------------------------------------
(* The operator's tunnel: bridges *)

BridgeRows == [id : Nat, session : Sessions]

\* Bridges have ids of their own, and one that opened a connection is gone.
BridgesRight ==
    /\ bridgeCount \in Nat /\ bridges \in Seq(BridgeRows) /\ Len(bridges) <= BridgeCap
    /\ \A i \in 1 .. Len(bridges) : bridges[i].id <= bridgeCount
    /\ \A i, j \in 1 .. Len(bridges) : bridges[i].id = bridges[j].id => i = j
    /\ \A o \in opened : /\ o.bridge \in Nat /\ o.bridge <= bridgeCount
                         /\ \A i \in 1 .. Len(bridges) : bridges[i].id # o.bridge
    /\ BridgeOpensOnce

\* A sequence without one of its entries.
LEMMA RemoveAtFacts ==
  ASSUME NEW S, NEW s \in Seq(S), NEW k \in 1 .. Len(s)
  PROVE  /\ RemoveAt(s, k) \in Seq(S) /\ Len(RemoveAt(s, k)) = Len(s) - 1
         /\ \A i \in 1 .. Len(s) - 1 : RemoveAt(s, k)[i] = s[IF i < k THEN i ELSE i + 1]
<1> DEFINE a == SubSeq(s, 1, k - 1)
           b == SubSeq(s, k + 1, Len(s))
<1>1. a \in Seq(S) /\ Len(a) = k - 1 /\ \A i \in 1 .. k - 1 : a[i] = s[i]
  OBVIOUS
<1>2. b \in Seq(S) /\ Len(b) = Len(s) - k /\ \A i \in 1 .. Len(s) - k : b[i] = s[k + i]
  OBVIOUS
<1> HIDE DEF a, b
<1>3. a \o b \in Seq(S) /\ Len(a \o b) = Len(s) - 1
  <2>1. a \o b \in Seq(S) /\ Len(a \o b) = Len(a) + Len(b)
    BY <1>1, <1>2, ConcatProperties
  <2>2. Len(s) \in Nat /\ (k - 1) + (Len(s) - k) = Len(s) - 1
    OBVIOUS
  <2> QED BY <1>1, <1>2, <2>1, <2>2
<1>4. ASSUME NEW i \in 1 .. Len(s) - 1
      PROVE  (a \o b)[i] = s[IF i < k THEN i ELSE i + 1]
  <2>1. CASE i < k
    BY <1>1, <1>2, <2>1
  <2>2. CASE ~(i < k)
    <3>1. i - (k - 1) \in 1 .. Len(s) - k /\ (a \o b)[i] = b[i - (k - 1)]
      BY <1>1, <1>2, <2>2
    <3>2. k + (i - (k - 1)) = i + 1
      OBVIOUS
    <3> QED BY <1>2, <2>2, <3>1, <3>2
  <2> QED BY <2>1, <2>2
<1> QED BY <1>3, <1>4 DEF RemoveAt, a, b

\* What is left when one entry leaves.
LEMMA FewerBridges ==
  ASSUME BridgesRight, NEW k \in 1 .. Len(bridges), bridges' \in Seq(BridgeRows),
         Len(bridges') = Len(bridges) - 1,
         \A i \in 1 .. Len(bridges) - 1 : bridges'[i] = bridges[IF i < k THEN i ELSE i + 1]
  PROVE  /\ Len(bridges') <= BridgeCap
         /\ \A i, j \in 1 .. Len(bridges') : bridges'[i].id = bridges'[j].id => i = j
         /\ \A i \in 1 .. Len(bridges') : /\ bridges'[i].id <= bridgeCount
                                          /\ \A o \in opened : bridges'[i].id # o.bridge
                                          /\ bridges'[i].id # bridges[k].id
<1> DEFINE n == Len(bridges)
           f(i) == IF i < k THEN i ELSE i + 1
<1>1. n \in Nat /\ k \in Nat /\ 1 <= k /\ k <= n
  BY DEF BridgesRight
<1>2. /\ \A i \in 1 .. n - 1 : f(i) \in 1 .. n /\ f(i) # k
      /\ \A i, j \in 1 .. n - 1 : f(i) = f(j) => i = j
  BY <1>1
<1>3. \A i \in 1 .. Len(bridges') : i \in 1 .. n - 1 /\ bridges'[i] = bridges[f(i)]
  OBVIOUS
<1>4. Len(bridges') <= BridgeCap
  BY <1>1, ControlAssumption DEF BridgesRight
<1>5. /\ \A i \in 1 .. n : bridges[i].id <= bridgeCount /\ \A o \in opened : bridges[i].id # o.bridge
      /\ \A i, j \in 1 .. n : bridges[i].id = bridges[j].id => i = j
      /\ k \in 1 .. n
  BY DEF BridgesRight
<1> HIDE DEF n, f
<1>6. \A i \in 1 .. Len(bridges') : /\ bridges'[i].id <= bridgeCount
                                    /\ \A o \in opened : bridges'[i].id # o.bridge
                                    /\ bridges'[i].id # bridges[k].id
  BY <1>2, <1>3, <1>5
<1>7. ASSUME NEW i \in 1 .. Len(bridges'), NEW j \in 1 .. Len(bridges'), bridges'[i].id = bridges'[j].id
      PROVE  i = j
  <2>1. f(i) \in 1 .. n /\ f(j) \in 1 .. n /\ bridges[f(i)].id = bridges[f(j)].id
    BY <1>2, <1>3, <1>7
  <2>2. f(i) = f(j)
    BY <1>5, <2>1
  <2> QED BY <1>2, <1>3, <2>2
<1> QED BY <1>4, <1>6, <1>7

\* The oldest bridge makes room or expires.
LEMMA TailBridges ==
  ASSUME BridgesRight, bridges # <<>>
  PROVE  /\ Tail(bridges) \in Seq(BridgeRows) /\ Len(Tail(bridges)) = Len(bridges) - 1
         /\ \A i \in 1 .. Len(bridges) - 1 : Tail(bridges)[i] = bridges[i + 1]
         /\ 1 \in 1 .. Len(bridges)
BY DEF BridgesRight

\* exchange_control: an id nobody has had.
LEMMA ExchangeRight ==
  ASSUME BridgesRight, NEW s \in Sessions, ExchangeControl(s)
  PROVE  BridgesRight'
<1> DEFINE old == IF BridgesFull THEN Tail(bridges) ELSE bridges
           new == [id |-> bridgeCount + 1, session |-> s]
<1>1. /\ old \in Seq(BridgeRows) /\ Len(old) < BridgeCap
      /\ \A i \in 1 .. Len(old) : old[i].id <= bridgeCount /\ \A o \in opened : old[i].id # o.bridge
      /\ \A i, j \in 1 .. Len(old) : old[i].id = old[j].id => i = j
  <2>1. CASE BridgesFull
    <3>1. bridges # <<>> /\ Len(bridges) \in Nat
      BY <2>1, ControlAssumption DEF BridgesFull, BridgesRight
    <3>2. /\ Tail(bridges) \in Seq(BridgeRows) /\ Len(Tail(bridges)) = Len(bridges) - 1
          /\ \A i \in 1 .. Len(bridges) - 1 : Tail(bridges)[i] = bridges[i + 1]
      BY <3>1, TailBridges
    <3>3. \A i \in 1 .. Len(bridges) - 1 : i + 1 \in 1 .. Len(bridges)
      BY <3>1
    <3>4. Len(Tail(bridges)) < BridgeCap
      BY <3>1, <3>2, ControlAssumption DEF BridgesRight
    <3>5. \A i, j \in 1 .. Len(bridges) - 1 : Tail(bridges)[i].id = Tail(bridges)[j].id => i = j
      <4>1. \A i, j \in 1 .. Len(bridges) - 1 : i + 1 = j + 1 => i = j
        OBVIOUS
      <4> QED BY <3>2, <3>3, <4>1 DEF BridgesRight
    <3>6. old = Tail(bridges)
      BY <2>1
    <3>7. \A i \in 1 .. Len(bridges) - 1 :
            /\ Tail(bridges)[i].id <= bridgeCount
            /\ \A o \in opened : Tail(bridges)[i].id # o.bridge
      BY <3>2, <3>3 DEF BridgesRight
    <3> QED BY <3>2, <3>4, <3>5, <3>6, <3>7
  <2>2. CASE ~BridgesFull
    <3>1. Len(bridges) < BridgeCap
      BY <2>2, ControlAssumption DEF BridgesFull, BridgesRight
    <3> QED BY <2>2, <3>1 DEF BridgesRight
  <2> QED BY <2>1, <2>2
<1>2. bridges' = Append(old, new) /\ bridgeCount' = bridgeCount + 1 /\ opened' = opened
  BY DEF ExchangeControl
<1>3. new \in BridgeRows /\ new.id = bridgeCount + 1 /\ bridgeCount \in Nat
  BY DEF BridgesRight, BridgeRows
<1> HIDE DEF old, new
<1>4. /\ bridges' \in Seq(BridgeRows) /\ Len(bridges') = Len(old) + 1
      /\ \A i \in 1 .. Len(old) : bridges'[i] = old[i]
      /\ bridges'[Len(old) + 1] = new
  BY <1>1, <1>2, <1>3
<1>5. \A i \in 1 .. Len(bridges') : i \in 1 .. Len(old) \/ i = Len(old) + 1
  BY <1>1, <1>4
<1>6. \A i \in 1 .. Len(old) : old[i] \in BridgeRows
  BY <1>1
<1>7. \A i \in 1 .. Len(old) : bridges'[i].id <= bridgeCount /\ bridges'[i].id \in Nat
  BY <1>1, <1>4, <1>6 DEF BridgeRows
<1>8. \A i \in 1 .. Len(bridges') : bridges'[i].id <= bridgeCount'
  BY <1>2, <1>3, <1>4, <1>5, <1>7
<1>9. \A i, j \in 1 .. Len(bridges') : bridges'[i].id = bridges'[j].id => i = j
  BY <1>1, <1>3, <1>4, <1>5, <1>7
<1>10. \A o \in opened : /\ o.bridge \in Nat /\ o.bridge <= bridgeCount'
                         /\ \A i \in 1 .. Len(bridges') : bridges'[i].id # o.bridge
  <2>1. \A o \in opened : o.bridge \in Nat /\ o.bridge <= bridgeCount
    BY DEF BridgesRight
  <2> QED BY <1>1, <1>2, <1>3, <1>4, <1>5, <2>1
<1>11. Len(bridges') <= BridgeCap
  BY <1>1, <1>4, ControlAssumption
<1> QED BY <1>2, <1>3, <1>4, <1>8, <1>9, <1>10, <1>11 DEF BridgesRight, BridgeOpensOnce

\* consume_bridge: the bridge is gone, and if it opened a connection, that is
\* its first.
LEMMA ConsumeRight ==
  ASSUME BridgesRight, NEW c \in Clients, NEW id \in 1 .. MaxBridges, NEW s \in Sessions,
         OpenControl(c, id, s)
  PROVE  BridgesRight'
<1> DEFINE new == [client |-> c, bridge |-> id, session |-> s]
<1>1. bridges' = Without(id) /\ bridgeCount' = bridgeCount /\ id \in Nat /\ id <= bridgeCount
  BY DEF OpenControl, BridgesRight
<1>2. opened' = opened \/ (Known(id, s) /\ opened' = opened \cup {new})
  BY DEF OpenControl
<1>3. CASE Entries(id) = {}
  <2>1. ~Known(id, s)
    BY <1>3 DEF Known, Entries
  <2> QED BY <1>1, <1>2, <1>3, <2>1 DEF Without, BridgesRight, BridgeOpensOnce
<1>4. CASE Entries(id) # {}
  <2> DEFINE k == CHOOSE i \in Entries(id) : TRUE
  <2>1. k \in Entries(id)
    BY <1>4
  <2>2. k \in 1 .. Len(bridges) /\ bridges[k].id = id
    BY <2>1 DEF Entries, BridgesRight
  <2>3. bridges' = RemoveAt(bridges, k)
    BY <1>1, <1>4 DEF Without
  <2> HIDE DEF k
  <2>4. /\ bridges' \in Seq(BridgeRows) /\ Len(bridges') = Len(bridges) - 1
        /\ \A i \in 1 .. Len(bridges) - 1 : bridges'[i] = bridges[IF i < k THEN i ELSE i + 1]
    BY <2>2, <2>3, RemoveAtFacts DEF BridgesRight
  <2>5. \A o \in opened : o.bridge # id
    BY <2>2 DEF BridgesRight
  <2>6. /\ bridges' \in Seq(BridgeRows) /\ Len(bridges') <= BridgeCap
        /\ \A i \in 1 .. Len(bridges') : bridges'[i].id <= bridgeCount
        /\ \A i, j \in 1 .. Len(bridges') : bridges'[i].id = bridges'[j].id => i = j
        /\ \A o \in opened, i \in 1 .. Len(bridges') : bridges'[i].id # o.bridge
        /\ \A i \in 1 .. Len(bridges') : bridges'[i].id # id
    BY <2>2, <2>4, FewerBridges
  <2>7. \A o \in opened' : /\ o.bridge \in Nat /\ o.bridge <= bridgeCount
                           /\ \A i \in 1 .. Len(bridges') : bridges'[i].id # o.bridge
    BY <1>1, <1>2, <2>6 DEF BridgesRight
  <2>8. BridgeOpensOnce'
    BY <1>2, <2>5 DEF BridgesRight, BridgeOpensOnce
  <2> QED BY <1>1, <2>6, <2>7, <2>8 DEF BridgesRight
<1> QED BY <1>3, <1>4

\* A bridge whose time is over.
LEMMA ExpireRight ==
  ASSUME BridgesRight, ExpireBridge
  PROVE  BridgesRight'
<1>1. bridges # <<>> /\ bridges' = Tail(bridges) /\ UNCHANGED <<bridgeCount, opened>>
  BY DEF ExpireBridge
<1>2. /\ bridges' \in Seq(BridgeRows) /\ Len(bridges') = Len(bridges) - 1 /\ 1 \in 1 .. Len(bridges)
      /\ \A i \in 1 .. Len(bridges) - 1 : bridges'[i] = bridges[i + 1]
  BY <1>1, TailBridges
<1>3. \A i \in 1 .. Len(bridges) - 1 : (IF i < 1 THEN i ELSE i + 1) = i + 1
  OBVIOUS
<1>4. \A i \in 1 .. Len(bridges) - 1 : bridges'[i] = bridges[IF i < 1 THEN i ELSE i + 1]
  BY <1>2, <1>3
<1>5. /\ Len(bridges') <= BridgeCap
      /\ \A i, j \in 1 .. Len(bridges') : bridges'[i].id = bridges'[j].id => i = j
      /\ \A i \in 1 .. Len(bridges') : /\ bridges'[i].id <= bridgeCount
                                       /\ \A o \in opened : bridges'[i].id # o.bridge
  BY <1>2, <1>4, FewerBridges
<1> QED BY <1>1, <1>2, <1>5 DEF BridgesRight, BridgeOpensOnce

-------------------------------------------------------------------------------
(* The operator's tunnel: requests and answers *)

ClientRows == [session : Sessions, at : {"away", "open", "waiting", "gone"},
               request : Nat, answer : Nat]
PendingRows == [id : Nat, socket : Sockets, client : Clients]
FrameRows == [to : {"worker", "core"}, id : Nat, socket : Sockets]

\* Clients, sockets and requests, with their types.
RelayTyped ==
    /\ client \in [Clients -> ClientRows] /\ sock \in [Sockets -> {"new", "up", "down"}]
    /\ workers \in Sockets \cup {NoSocket} /\ sent \in 0 .. MaxRequests
    /\ pending \in SUBSET PendingRows /\ frames \in SUBSET FrameRows

\* A registered request is the one request of a client that waits for it, over a
\* socket that is up.
PendingIsAwaited ==
    \A p \in pending : /\ p.id <= sent /\ sock[p.socket] = "up"
                       /\ client[p.client].at = "waiting" /\ client[p.client].request = p.id
\* Requests have ids of their own.
PendingIdsDiffer == \A p, q \in pending : p.id = q.id => p = q
\* A message about a request goes over the request's socket.
FramesFollow ==
    \A m \in frames : m.id <= sent /\ \A p \in pending : p.id = m.id => p.socket = m.socket
\* The worker of the session is a socket that is up.
WorkerIsUp == workers # NoSocket => sock[workers] = "up"
\* Who waits is registered.
WaitersArePending ==
    \A c \in Clients : client[c].at = "waiting" =>
        \E p \in pending : p.client = c /\ p.id = client[c].request

RelayRight ==
    /\ RelayTyped /\ PendingIsAwaited /\ PendingIdsDiffer /\ FramesFollow /\ WorkerIsUp
    /\ WaitersArePending /\ AnswersAreOwn

\* With it nobody waits for a dead worker.
LEMMA RelayReaches == RelayRight => NobodyWaitsForTheDead
BY DEF RelayRight, WaitersArePending, PendingIsAwaited, NobodyWaitsForTheDead

\* One client moves on that was not waiting and does not wait then; requests
\* and sockets stay.
LEMMA ClientMoves ==
  ASSUME RelayRight, NEW c \in Clients, NEW x \in ClientRows, client[c].at # "waiting",
         x.at # "waiting", x.answer # 0 => x.answer = x.request,
         ClientIs(c, x), UNCHANGED RelayState
  PROVE  RelayRight'
<1>1. client' = [client EXCEPT ![c] = x]
  BY DEF ClientIs
<1>2. UNCHANGED <<workers, sock, pending, sent, frames>>
  BY DEF RelayState
<1>3. \A d \in Clients : client'[d] = IF d = c THEN x ELSE client[d]
  BY <1>1 DEF RelayRight, RelayTyped
<1>4. \A p \in pending : p.client \in Clients /\ p.client # c
  BY DEF RelayRight, RelayTyped, PendingRows, PendingIsAwaited
<1>5. RelayTyped'
  BY <1>1, <1>2 DEF RelayRight, RelayTyped
<1>6. PendingIsAwaited' /\ PendingIdsDiffer' /\ FramesFollow' /\ WorkerIsUp'
  BY <1>2, <1>3, <1>4 DEF RelayRight, PendingIsAwaited, PendingIdsDiffer, FramesFollow, WorkerIsUp
<1>7. WaitersArePending' /\ AnswersAreOwn'
  BY <1>2, <1>3 DEF RelayRight, WaitersArePending, AnswersAreOwn
<1> QED BY <1>5, <1>6, <1>7 DEF RelayRight

\* A client leaves that was not waiting.
LEMMA ClientLeaves ==
  ASSUME RelayRight, NEW c \in Clients, client[c].at # "waiting", Leaves(c), UNCHANGED RelayState
  PROVE  RelayRight'
<1> DEFINE x == [client[c] EXCEPT !.at = "gone"]
<1>1. client[c] \in ClientRows
  BY DEF RelayRight, RelayTyped
<1>2. x \in ClientRows /\ x.at = "gone" /\ x.answer = client[c].answer /\ x.request = client[c].request
  BY <1>1 DEF ClientRows
<1>3. ClientIs(c, x)
  BY DEF Leaves
<1>4. x.answer # 0 => x.answer = x.request
  BY <1>2 DEF RelayRight, AnswersAreOwn
<1> HIDE DEF x
<1> QED BY <1>2, <1>3, <1>4, ClientMoves

\* open_control: the connection starts without a request.
LEMMA OpenRelay ==
  ASSUME RelayRight, NEW c \in Clients, NEW id, NEW s \in Sessions, OpenControl(c, id, s)
  PROVE  RelayRight'
<1> DEFINE x == [Away EXCEPT !.session = s, !.at = "open"]
<1>1. client[c].at # "waiting" /\ UNCHANGED RelayState /\ (ClientIs(c, x) \/ Leaves(c))
  BY DEF OpenControl
<1>2. x \in ClientRows /\ x.at = "open" /\ x.answer = 0
  BY DEF Away, ClientRows
<1> HIDE DEF x
<1> QED BY <1>1, <1>2, ClientMoves, ClientLeaves

\* A worker's socket connects.
LEMMA ConnectRelay ==
  ASSUME RelayRight, NEW k \in Sockets, ConnectWorker(k)
  PROVE  RelayRight'
<1>1. /\ sock[k] = "new" /\ sock' = [sock EXCEPT ![k] = "up"] /\ workers' = k
      /\ UNCHANGED <<client, pending, sent, frames>>
  BY DEF ConnectWorker
<1>2. RelayTyped'
  BY <1>1 DEF RelayRight, RelayTyped
<1>3. \A x \in Sockets : sock'[x] = IF x = k THEN "up" ELSE sock[x]
  BY <1>1 DEF RelayRight, RelayTyped
<1>4. PendingIsAwaited'
  BY <1>1, <1>3 DEF RelayRight, RelayTyped, PendingIsAwaited, PendingRows
<1> QED BY <1>1, <1>2, <1>3, <1>4 DEF RelayRight, PendingIdsDiffer, FramesFollow, WorkerIsUp,
           WaitersArePending, AnswersAreOwn

\* A socket drops: whoever waited for an answer over it is told.
LEMMA DropRelay ==
  ASSUME RelayRight, NEW k \in Sockets, DropSocket(k)
  PROVE  RelayRight'
<1>1. /\ sock' = [sock EXCEPT ![k] = "down"] /\ workers' = IF workers = k THEN NoSocket ELSE workers
      /\ pending' = {p \in pending : p.socket # k} /\ frames' = {m \in frames : m.socket # k}
      /\ client' = [c \in Clients |-> IF \E p \in DroppedWith(k) : p.client = c
                                      THEN [client[c] EXCEPT !.at = "gone"] ELSE client[c]]
      /\ sent' = sent
  BY DEF DropSocket, DroppedWith
<1>2. \A c \in Clients : client[c] \in ClientRows
  BY DEF RelayRight, RelayTyped
<1>3. \A c \in Clients : /\ [client[c] EXCEPT !.at = "gone"] \in ClientRows
                         /\ [client[c] EXCEPT !.at = "gone"].at = "gone"
                         /\ [client[c] EXCEPT !.at = "gone"].request = client[c].request
                         /\ [client[c] EXCEPT !.at = "gone"].answer = client[c].answer
  BY <1>2 DEF ClientRows
<1>4. \A c \in Clients : /\ client'[c] \in ClientRows /\ client'[c].request = client[c].request
                         /\ client'[c].answer = client[c].answer
                         /\ client'[c] = client[c] \/ client'[c].at = "gone"
                         /\ (\E p \in DroppedWith(k) : p.client = c) => client'[c].at = "gone"
                         /\ (\A p \in DroppedWith(k) : p.client # c) => client'[c] = client[c]
  BY <1>1, <1>2, <1>3
<1>5. \A x \in Sockets : sock'[x] = IF x = k THEN "down" ELSE sock[x]
  BY <1>1 DEF RelayRight, RelayTyped
<1>6. RelayTyped'
  <2>1. client' \in [Clients -> ClientRows]
    BY <1>1, <1>4
  <2>2. sock' \in [Sockets -> {"new", "up", "down"}]
    BY <1>1 DEF RelayRight, RelayTyped
  <2> QED BY <1>1, <2>1, <2>2 DEF RelayRight, RelayTyped
<1>7. \A p \in pending' : client'[p.client] = client[p.client] /\ p.client \in Clients /\ p.socket \in Sockets
  <2> SUFFICES ASSUME NEW p \in pending' PROVE client'[p.client] = client[p.client] /\ p.client \in Clients /\ p.socket \in Sockets
    OBVIOUS
  <2>1. p \in pending /\ p.socket # k /\ p.client \in Clients /\ p.socket \in Sockets
    BY <1>1 DEF RelayRight, RelayTyped, PendingRows
  <2>2. ASSUME NEW q \in DroppedWith(k), q.client = p.client
        PROVE  FALSE
    <3>1. q \in pending /\ q.socket = k
      BY DEF DroppedWith
    <3>2. q.id = p.id
      BY <2>1, <2>2, <3>1 DEF RelayRight, PendingIsAwaited
    <3> QED BY <2>1, <3>1, <3>2 DEF RelayRight, PendingIdsDiffer
  <2> QED BY <1>4, <2>1, <2>2
<1>8. PendingIsAwaited' /\ PendingIdsDiffer'
  <2>1. (\A p \in pending' : p \in pending /\ p.socket # k) /\ sent' = sent
    BY <1>1
  <2>2. PendingIdsDiffer'
    BY <2>1 DEF RelayRight, PendingIdsDiffer
  <2>3. PendingIsAwaited'
    BY <1>5, <1>7, <2>1 DEF RelayRight, PendingIsAwaited
  <2> QED BY <2>2, <2>3
<1>9. FramesFollow' /\ WorkerIsUp'
  BY <1>1, <1>5 DEF RelayRight, RelayTyped, FramesFollow, WorkerIsUp
<1>10. WaitersArePending'
  <2> SUFFICES ASSUME NEW c \in Clients, client'[c].at = "waiting"
               PROVE  \E p \in pending' : p.client = c /\ p.id = client'[c].request
    BY DEF WaitersArePending
  <2>1. client'[c] = client[c] /\ \A p \in DroppedWith(k) : p.client # c
    BY <1>4
  <2>2. PICK p \in pending : p.client = c /\ p.id = client[c].request
    BY <2>1 DEF RelayRight, WaitersArePending
  <2>3. p.socket # k
    BY <2>1, <2>2 DEF DroppedWith
  <2> QED BY <1>1, <2>1, <2>2, <2>3
<1>11. AnswersAreOwn'
  BY <1>4 DEF RelayRight, AnswersAreOwn
<1> QED BY <1>6, <1>8, <1>9, <1>10, <1>11 DEF RelayRight

\* A request is sent: its id is new.
LEMMA SendRelay ==
  ASSUME RelayRight, NEW c \in Clients, SendAction(c)
  PROVE  RelayRight'
<1> DEFINE id == sent + 1
           p == [id |-> id, socket |-> workers, client |-> c]
           m == [to |-> "worker", id |-> id, socket |-> workers]
           x == [client[c] EXCEPT !.at = "waiting", !.request = id, !.answer = 0]
<1>1. /\ client[c].at = "open" /\ workers # NoSocket /\ sent' = id
      /\ pending' = pending \cup {p} /\ frames' = frames \cup {m}
      /\ client' = [client EXCEPT ![c] = x] /\ UNCHANGED <<workers, sock>>
  BY DEF SendAction, ClientIs
<1>2. id \in Nat /\ id \in 0 .. MaxRequests /\ sent \in Nat /\ sent < id
  BY ControlAssumption DEF RelayRight, RelayTyped, SendAction
<1>3. client[c] \in ClientRows /\ workers \in Sockets
  BY <1>1 DEF RelayRight, RelayTyped
<1>4. x \in ClientRows
  BY <1>2, <1>3 DEF ClientRows
<1>5. x.at = "waiting" /\ x.request = id /\ x.answer = 0
  BY <1>3 DEF ClientRows
<1>6. p \in PendingRows /\ m \in FrameRows
  BY <1>2, <1>3 DEF PendingRows, FrameRows
<1>7. p.id = id /\ p.socket = workers /\ p.client = c /\ m.id = id /\ m.socket = workers
  OBVIOUS
<1> HIDE DEF p, m, x, id
<1>8. \A d \in Clients : client'[d] = IF d = c THEN x ELSE client[d]
  BY <1>1 DEF RelayRight, RelayTyped
<1>9. RelayTyped'
  BY <1>1, <1>2, <1>4, <1>6 DEF RelayRight, RelayTyped
<1>10. \A q \in pending : /\ q.client \in Clients /\ q.client # c /\ q.id \in Nat
                          /\ q.id <= sent /\ q.id # id /\ q.id <= id
  <2>1. \A q \in pending : q.client \in Clients /\ q.client # c /\ q.id \in Nat /\ q.id <= sent
    BY <1>1 DEF RelayRight, RelayTyped, PendingRows, PendingIsAwaited
  <2> QED BY <1>2, <2>1
<1>11. PendingIsAwaited'
  BY <1>1, <1>2, <1>3, <1>5, <1>7, <1>8, <1>10 DEF RelayRight, PendingIsAwaited, WorkerIsUp
<1>12. PendingIdsDiffer'
  BY <1>1, <1>7, <1>10 DEF RelayRight, PendingIdsDiffer
<1>13. FramesFollow'
  <2>1. \A f \in frames : f.id \in Nat /\ f.id <= sent /\ f.id # id /\ f.id <= id
    <3>1. \A f \in frames : f.id \in Nat /\ f.id <= sent
      BY DEF RelayRight, RelayTyped, FrameRows, FramesFollow
    <3> QED BY <1>2, <3>1
  <2> QED BY <1>1, <1>2, <1>7, <1>10, <2>1 DEF RelayRight, FramesFollow
<1>14. WorkerIsUp' /\ WaitersArePending' /\ AnswersAreOwn'
  BY <1>1, <1>5, <1>7, <1>8 DEF RelayRight, WorkerIsUp, WaitersArePending, AnswersAreOwn
<1> QED BY <1>9, <1>11, <1>12, <1>13, <1>14 DEF RelayRight

\* The worker answers over the socket it was asked on.
LEMMA ServeRelay ==
  ASSUME RelayRight, NEW m \in frames, ServeRemote(m)
  PROVE  RelayRight'
<1> DEFINE a == [m EXCEPT !.to = "core"]
<1>1. frames' = (frames \ {m}) \cup {a} /\ UNCHANGED <<client, workers, sock, pending, sent>>
  BY DEF ServeRemote
<1>2. m \in FrameRows
  BY DEF RelayRight, RelayTyped
<1>3. a \in FrameRows /\ a.id = m.id /\ a.socket = m.socket
  BY <1>2 DEF FrameRows
<1> HIDE DEF a
<1>4. RelayTyped'
  BY <1>1, <1>3 DEF RelayRight, RelayTyped
<1>5. FramesFollow'
  BY <1>1, <1>3 DEF RelayRight, FramesFollow
<1> QED BY <1>1, <1>4, <1>5 DEF RelayRight, PendingIsAwaited, PendingIdsDiffer, WorkerIsUp,
           WaitersArePending, AnswersAreOwn

\* The answer is resolved for the client that registered it.
LEMMA AnswerRelay ==
  ASSUME RelayRight, NEW m \in frames, RelayAnswer(m)
  PROVE  RelayRight'
<1>1. /\ frames' = frames \ {m} /\ pending' = {p \in pending : p.id # m.id}
      /\ client' = [c \in Clients |->
            IF \E p \in Awaited(m) : p.client = c /\ p.socket = m.socket
            THEN [client[c] EXCEPT !.at = "open", !.answer = m.id] ELSE client[c]]
      /\ UNCHANGED <<workers, sock, sent>>
  BY DEF RelayAnswer, Awaited
<1>2. m.id \in Nat
  BY DEF RelayRight, RelayTyped, FrameRows
<1>3. \A c \in Clients : client[c] \in ClientRows
  BY DEF RelayRight, RelayTyped
<1>4. ASSUME NEW c \in Clients
      PROVE  LET x == [client[c] EXCEPT !.at = "open", !.answer = m.id]
             IN  x \in ClientRows /\ x.at = "open" /\ x.answer = m.id /\ x.request = client[c].request
  BY <1>2, <1>3 DEF ClientRows
<1>5. \A p \in Awaited(m) : p \in pending /\ p.id = m.id /\ p.socket = m.socket
  BY DEF Awaited, RelayRight, FramesFollow
<1>6. ASSUME NEW c \in Clients
      PROVE  /\ client'[c] \in ClientRows
             /\ (\E p \in Awaited(m) : p.client = c) =>
                  /\ client'[c].at = "open" /\ client'[c].answer = m.id
                  /\ client'[c].request = client[c].request
             /\ (\A p \in Awaited(m) : p.client # c) => client'[c] = client[c]
  <2>1. CASE \E p \in Awaited(m) : p.client = c
    <3>1. client'[c] = [client[c] EXCEPT !.at = "open", !.answer = m.id]
      BY <1>1, <1>5, <2>1
    <3> QED BY <1>4, <2>1, <3>1
  <2>2. CASE ~ \E p \in Awaited(m) : p.client = c
    BY <1>1, <1>3, <2>2
  <2> QED BY <2>1, <2>2
<1>7. RelayTyped'
  <2>1. client' \in [Clients -> ClientRows]
    BY <1>1, <1>6
  <2> QED BY <1>1, <2>1 DEF RelayRight, RelayTyped
<1>8. \A p \in pending' : /\ p \in pending /\ p.client \in Clients
                          /\ client'[p.client] = client[p.client]
  <2> SUFFICES ASSUME NEW p \in pending'
               PROVE  p \in pending /\ p.client \in Clients /\ client'[p.client] = client[p.client]
    OBVIOUS
  <2>1. p \in pending /\ p.id # m.id /\ p.client \in Clients
    BY <1>1 DEF RelayRight, RelayTyped, PendingRows
  <2>2. \A q \in Awaited(m) : q.client # p.client
    BY <1>5, <2>1 DEF RelayRight, PendingIsAwaited
  <2> QED BY <1>6, <2>1, <2>2
<1>9. PendingIsAwaited' /\ PendingIdsDiffer' /\ FramesFollow' /\ WorkerIsUp'
  <2>1. frames' \subseteq frames /\ UNCHANGED <<workers, sock, sent>>
    BY <1>1
  <2>2. PendingIsAwaited' /\ PendingIdsDiffer'
    BY <1>8, <2>1 DEF RelayRight, PendingIsAwaited, PendingIdsDiffer
  <2>3. FramesFollow' /\ WorkerIsUp'
    BY <1>8, <2>1 DEF RelayRight, FramesFollow, WorkerIsUp
  <2> QED BY <2>2, <2>3
<1>10. WaitersArePending'
  <2> SUFFICES ASSUME NEW c \in Clients, client'[c].at = "waiting"
               PROVE  \E p \in pending' : p.client = c /\ p.id = client'[c].request
    BY DEF WaitersArePending
  <2>1. client'[c] = client[c] /\ \A p \in Awaited(m) : p.client # c
    BY <1>6
  <2>2. PICK p \in pending : p.client = c /\ p.id = client[c].request
    BY <2>1 DEF RelayRight, WaitersArePending
  <2> QED BY <1>1, <2>1, <2>2 DEF Awaited
<1>11. AnswersAreOwn'
  <2> SUFFICES ASSUME NEW c \in Clients, client'[c].answer # 0
               PROVE  client'[c].answer = client'[c].request
    BY DEF AnswersAreOwn
  <2>1. CASE \A p \in Awaited(m) : p.client # c
    BY <1>6, <2>1 DEF RelayRight, AnswersAreOwn
  <2>2. ASSUME NEW p \in Awaited(m), p.client = c
        PROVE  client'[c].answer = client'[c].request
    BY <1>5, <1>6, <2>2 DEF RelayRight, PendingIsAwaited
  <2> QED BY <2>1, <2>2
<1> QED BY <1>7, <1>9, <1>10, <1>11 DEF RelayRight

\* The deadline of an action: the request is taken out, and its client leaves.
LEMMA GiveUpRelay ==
  ASSUME RelayRight, NEW c \in Clients, GiveUp(c)
  PROVE  RelayRight'
<1> DEFINE x == [client[c] EXCEPT !.at = "gone"]
<1>1. /\ client[c].at = "waiting" /\ pending' = {p \in pending : p.id # client[c].request}
      /\ client' = [client EXCEPT ![c] = x] /\ UNCHANGED <<workers, sock, sent, frames>>
  BY DEF GiveUp, Leaves, ClientIs
<1>2. client[c] \in ClientRows
  BY DEF RelayRight, RelayTyped
<1>3. x \in ClientRows /\ x.at = "gone" /\ x.answer = client[c].answer /\ x.request = client[c].request
  BY <1>2 DEF ClientRows
<1> HIDE DEF x
<1>4. \A d \in Clients : client'[d] = IF d = c THEN x ELSE client[d]
  BY <1>1 DEF RelayRight, RelayTyped
<1>5. RelayTyped'
  BY <1>1, <1>3 DEF RelayRight, RelayTyped
<1>6. PICK own \in pending : own.client = c /\ own.id = client[c].request
  BY <1>1 DEF RelayRight, WaitersArePending
<1>7. \A p \in pending' : p \in pending /\ p.client \in Clients /\ p.client # c
  BY <1>1 DEF RelayRight, RelayTyped, PendingRows, PendingIsAwaited
<1>8. PendingIsAwaited' /\ PendingIdsDiffer' /\ FramesFollow' /\ WorkerIsUp'
  BY <1>1, <1>4, <1>7 DEF RelayRight, PendingIsAwaited, PendingIdsDiffer, FramesFollow, WorkerIsUp
<1>9. WaitersArePending'
  <2> SUFFICES ASSUME NEW d \in Clients, client'[d].at = "waiting"
               PROVE  \E p \in pending' : p.client = d /\ p.id = client'[d].request
    BY DEF WaitersArePending
  <2>1. d # c /\ client'[d] = client[d]
    BY <1>3, <1>4
  <2>2. PICK p \in pending : p.client = d /\ p.id = client[d].request
    BY <2>1 DEF RelayRight, WaitersArePending
  <2>3. p.id # own.id
    BY <1>6, <2>1, <2>2 DEF RelayRight, PendingIdsDiffer
  <2> QED BY <1>1, <1>6, <2>1, <2>2, <2>3
<1>10. AnswersAreOwn'
  BY <1>3, <1>4 DEF RelayRight, AnswersAreOwn
<1> QED BY <1>5, <1>8, <1>9, <1>10 DEF RelayRight

-------------------------------------------------------------------------------
(* The operator's tunnel: the local context *)

ShotRows == [step : {"idle", "shoot", "store"}, size : Nat]
Contexts == [closed : BOOLEAN, releases : Nat, lock : Clients \cup {NoClient},
             shot : [Clients -> ShotRows], left : Nat, stored : Nat]

\* A picture is taken under the lock, what is about to be stored fits what is
\* left, and what is stored and left is the budget.
ContextRight ==
    /\ ctx \in Contexts
    /\ \A c \in Clients : ctx.shot[c].step # "idle" => ctx.lock = c
    /\ \A c \in Clients : ctx.shot[c].step = "store" => ctx.shot[c].size <= ctx.left
    /\ ctx.stored + ctx.left = ShotBudget
    /\ ctx.releases = (IF ctx.closed THEN 1 ELSE 0)

\* With it the pictures stay within the budget, and the context is given back
\* once.
LEMMA ContextKeepsBudget == ContextRight => ShotsWithinBudget /\ ReleasedOnce
<1> SUFFICES ASSUME ContextRight PROVE ShotsWithinBudget /\ ReleasedOnce
  OBVIOUS
<1>1. ctx.stored \in Nat /\ ctx.left \in Nat
  BY DEF ContextRight, Contexts
<1>2. ctx.stored <= ShotBudget
  BY <1>1 DEF ContextRight
<1>3. ctx.releases <= 1
  BY DEF ContextRight
<1> QED BY <1>2, <1>3 DEF ShotsWithinBudget, ReleasedOnce, ContextRight

\* A client's shot moves on under the lock.
LEMMA ShotMoves ==
  ASSUME ContextRight, NEW c \in Clients, NEW x \in ShotRows, NEW k \in {c, NoClient},
         NEW left \in Nat, NEW stored \in Nat, stored + left = ShotBudget,
         ctx.lock \in {c, NoClient}, x.step # "idle" => k = c,
         x.step = "store" => x.size <= left,
         ctx' = [ctx EXCEPT !.lock = k, !.shot = [ctx.shot EXCEPT ![c] = x],
                            !.left = left, !.stored = stored]
  PROVE  ContextRight'
<1>1. ctx \in Contexts /\ ctx.shot \in [Clients -> ShotRows]
  BY DEF ContextRight, Contexts
<1>2. [ctx.shot EXCEPT ![c] = x] \in [Clients -> ShotRows]
  BY <1>1
<1>3. /\ ctx'.lock = k /\ ctx'.shot = [ctx.shot EXCEPT ![c] = x]
      /\ ctx'.left = left /\ ctx'.stored = stored
      /\ ctx'.closed = ctx.closed /\ ctx'.releases = ctx.releases
  BY <1>1 DEF Contexts
<1>4. ctx' \in Contexts
  BY <1>1, <1>2 DEF Contexts
<1>5. \A d \in Clients : ctx'.shot[d] = IF d = c THEN x ELSE ctx.shot[d]
  BY <1>1, <1>3
<1>6. \A d \in Clients : d # c => ctx.shot[d].step = "idle"
  BY ControlAssumption DEF ContextRight
<1> QED BY <1>3, <1>4, <1>5, <1>6 DEF ContextRight

\* execute: the lock, the picture, the upload.
LEMMA ShotRight ==
  ASSUME ContextRight, NEW c \in Clients, BeginShot(c) \/ TakeShot(c) \/ StoreShot(c)
  PROVE  ContextRight'
<1>1. /\ ctx \in Contexts /\ ctx.shot \in [Clients -> ShotRows] /\ ctx.shot[c] \in ShotRows
      /\ ctx.left \in Nat /\ ctx.stored \in Nat
  BY DEF ContextRight, Contexts
<1>2. NoShot \in ShotRows /\ NoShot.step = "idle"
  BY DEF NoShot, ShotRows
<1>3. CASE UNCHANGED ctx
  BY <1>3 DEF ContextRight
<1>4. CASE ctx' = Unlocked(ctx, c) /\ ctx.shot[c].step # "idle"
  <2>1. ctx' = [ctx EXCEPT !.lock = NoClient, !.shot = [ctx.shot EXCEPT ![c] = NoShot],
                           !.left = ctx.left, !.stored = ctx.stored]
    BY <1>1, <1>4 DEF Unlocked, Contexts
  <2>2. ctx.lock = c /\ ctx.stored + ctx.left = ShotBudget
    BY <1>4 DEF ContextRight
  <2> QED BY <1>1, <1>2, <2>1, <2>2, ShotMoves
<1>5. CASE ctx.lock = NoClient /\ ctx' = [ctx EXCEPT !.lock = c, !.shot[c].step = "shoot"]
  <2> DEFINE x == [ctx.shot[c] EXCEPT !.step = "shoot"]
  <2>1. x \in ShotRows /\ x.step = "shoot"
    BY <1>1 DEF ShotRows
  <2>2. ctx' = [ctx EXCEPT !.lock = c, !.shot = [ctx.shot EXCEPT ![c] = x],
                           !.left = ctx.left, !.stored = ctx.stored]
    BY <1>1, <1>5 DEF Contexts
  <2>3. ctx.stored + ctx.left = ShotBudget
    BY DEF ContextRight
  <2> HIDE DEF x
  <2> QED BY <1>1, <1>5, <2>1, <2>2, <2>3, ShotMoves
<1>6. ASSUME NEW n \in ShotSizes, ctx.shot[c].step = "shoot", ~(n > ctx.left),
             ctx' = [ctx EXCEPT !.shot[c] = [step |-> "store", size |-> n]]
      PROVE  ContextRight'
  <2> DEFINE x == [step |-> "store", size |-> n]
  <2>1. n \in Nat /\ x \in ShotRows /\ x.step = "store" /\ x.size = n /\ n <= ctx.left
    BY <1>1, <1>6, ControlAssumption DEF ShotRows
  <2>2. ctx.lock = c /\ ctx.stored + ctx.left = ShotBudget
    BY <1>6 DEF ContextRight
  <2>3. ctx' = [ctx EXCEPT !.lock = c, !.shot = [ctx.shot EXCEPT ![c] = x],
                           !.left = ctx.left, !.stored = ctx.stored]
    BY <1>1, <1>6, <2>2 DEF Contexts
  <2> HIDE DEF x
  <2> QED BY <1>1, <2>1, <2>2, <2>3, ShotMoves
<1>7. CASE StoreShot(c)
  <2> DEFINE n == ctx.shot[c].size
             y == [ctx EXCEPT !.left = @ - n, !.stored = @ + n]
  <2>1. ctx.lock = c /\ n \in Nat /\ n <= ctx.left /\ ctx.stored + ctx.left = ShotBudget
    BY <1>1, <1>7 DEF StoreShot, ContextRight, ShotRows
  <2>2. ctx.left - n \in Nat /\ ctx.stored + n \in Nat /\ (ctx.stored + n) + (ctx.left - n) = ShotBudget
    BY <1>1, <2>1
  <2>3. ctx' = [y EXCEPT !.lock = NoClient, !.shot[c] = NoShot]
    BY <1>7 DEF StoreShot, Unlocked
  <2>4. ctx' = [ctx EXCEPT !.lock = NoClient, !.shot = [ctx.shot EXCEPT ![c] = NoShot],
                           !.left = ctx.left - n, !.stored = ctx.stored + n]
    BY <1>1, <2>3 DEF Contexts
  <2> HIDE DEF n
  <2> QED BY <1>2, <2>1, <2>2, <2>4, ShotMoves
<1> QED BY <1>3, <1>4, <1>5, <1>6, <1>7 DEF BeginShot, TakeShot, LockHeld

\* close, by whoever comes first.
LEMMA CloseRight ==
  ASSUME ContextRight, EndLoop
  PROVE  ContextRight'
<1>1. ~ctx.closed /\ ctx' = [ctx EXCEPT !.closed = TRUE, !.releases = ctx.releases + 1]
  BY DEF EndLoop, CloseOf
<1>2. ctx \in Contexts /\ ctx.releases = 0
  BY <1>1 DEF ContextRight
<1>3. ctx' = [ctx EXCEPT !.closed = TRUE, !.releases = 1]
  BY <1>1, <1>2
<1>4. ctx' \in Contexts
  BY <1>2, <1>3 DEF Contexts
<1>5. /\ ctx'.closed = TRUE /\ ctx'.releases = 1 /\ ctx'.lock = ctx.lock /\ ctx'.shot = ctx.shot
      /\ ctx'.left = ctx.left /\ ctx'.stored = ctx.stored
  BY <1>2, <1>3 DEF Contexts
<1> QED BY <1>4, <1>5 DEF ContextRight

-------------------------------------------------------------------------------
(* The operator's tunnel *)

\* Who takes a picture is a connected client of the local session.
ShootersAreOpen ==
    \A c \in Clients : ctx.shot[c].step # "idle" =>
        client[c].at = "open" /\ client[c].session = LocalSession

ControlRight == BridgesRight /\ RelayRight /\ ContextRight /\ ShootersAreOpen

\* Nobody is connected.
LEMMA ControlStart == ControlInit => ControlRight
<1> SUFFICES ASSUME ControlInit PROVE ControlRight
  OBVIOUS
<1>1. BridgesRight
  BY ControlAssumption DEF ControlInit, BridgesRight, BridgeOpensOnce
<1>2. Away \in ClientRows
  BY DEF Away, ClientRows, Sessions
<1>3. RelayRight
  BY <1>2, ControlAssumption DEF ControlInit, RelayRight, RelayTyped, PendingIsAwaited,
     PendingIdsDiffer, FramesFollow, WorkerIsUp, WaitersArePending, AnswersAreOwn, Away
<1>4. NoShot \in ShotRows
  BY DEF NoShot, ShotRows
<1>5. ctx \in Contexts
  BY <1>4, ControlAssumption DEF ControlInit, Contexts
<1>6. ContextRight
  BY <1>5, ControlAssumption DEF ControlInit, ContextRight, NoShot
<1>7. ShootersAreOpen
  BY DEF ControlInit, ShootersAreOpen, NoShot
<1> QED BY <1>1, <1>3, <1>6, <1>7 DEF ControlRight

\* No step of anybody else moves the client of a picture.
LEMMA ShootersStay ==
  ASSUME RelayRight, ContextRight, ShootersAreOpen, ControlNext
  PROVE  ShootersAreOpen'
<1> USE DEF ShootersAreOpen
<1>1. /\ client \in [Clients -> ClientRows] /\ ctx \in Contexts
      /\ ctx.shot \in [Clients -> ShotRows]
  BY DEF RelayRight, RelayTyped, ContextRight, Contexts
<1>2. \A p \in pending : p.client \in Clients /\ client[p.client].at = "waiting"
  BY DEF RelayRight, RelayTyped, PendingRows, PendingIsAwaited
<1>3. CASE UNCHANGED <<client, ctx>>
  BY <1>3
<1>4. ASSUME UNCHANGED ctx, NEW c \in Clients, ctx.shot[c].step = "idle", NEW x, ClientIs(c, x)
      PROVE  ShootersAreOpen'
  BY <1>1, <1>4 DEF ClientIs
<1>5. ASSUME NEW c \in Clients, SendAction(c) PROVE ShootersAreOpen'
  BY <1>4, <1>5, ControlAssumption DEF SendAction
<1>6. ASSUME NEW c \in Clients, GiveUp(c) PROVE ShootersAreOpen'
  BY <1>4, <1>6 DEF GiveUp, Leaves
<1>7. ASSUME NEW c \in Clients, NEW id, NEW s, OpenControl(c, id, s) PROVE ShootersAreOpen'
  BY <1>4, <1>7 DEF OpenControl, Leaves
<1>8. ASSUME NEW k \in Sockets, DropSocket(k) PROVE ShootersAreOpen'
  BY <1>2, <1>8 DEF DropSocket, DroppedWith
<1>9. ASSUME NEW m \in frames, RelayAnswer(m) PROVE ShootersAreOpen'
  BY <1>2, <1>9 DEF RelayAnswer, Awaited
<1>10. CASE EndLoop
  BY <1>1, <1>10 DEF EndLoop, CloseOf, Contexts
<1>11. ASSUME NEW c \in Clients, BeginShot(c) \/ TakeShot(c) \/ StoreShot(c)
       PROVE  ShootersAreOpen'
  <2>1. ASSUME NEW x, ctx'.shot = [ctx.shot EXCEPT ![c] = x], UNCHANGED client,
               client[c].at = "open", client[c].session = LocalSession
        PROVE  ShootersAreOpen'
    BY <1>1, <2>1
  <2>2. ASSUME ctx'.shot = [ctx.shot EXCEPT ![c] = NoShot], Leaves(c) \/ UNCHANGED client
        PROVE  ShootersAreOpen'
    BY <1>1, <2>2 DEF Leaves, ClientIs, NoShot
  <2>3. CASE BeginShot(c)
    <3>1. CASE ctx.closed
      BY <1>1, <1>4, <2>3, <3>1 DEF BeginShot, OnContext, NoShot, Leaves
    <3>2. CASE ~ctx.closed
      <4> DEFINE x == [ctx.shot[c] EXCEPT !.step = "shoot"]
      <4>1. ctx' = [ctx EXCEPT !.lock = c, !.shot[c].step = "shoot"] /\ UNCHANGED client
            /\ client[c].at = "open" /\ client[c].session = LocalSession
        BY <2>3, <3>2 DEF BeginShot, OnContext
      <4>2. ctx'.shot = [ctx.shot EXCEPT ![c] = x]
        BY <1>1, <4>1 DEF Contexts
      <4> HIDE DEF x
      <4> QED BY <2>1, <4>1, <4>2
    <3> QED BY <3>1, <3>2
  <2>4. ASSUME ctx' = Unlocked(ctx, c) PROVE ctx'.shot = [ctx.shot EXCEPT ![c] = NoShot]
    BY <1>1, <2>4 DEF Unlocked, Contexts
  <2>5. CASE TakeShot(c)
    <3>1. client[c].at = "open" /\ client[c].session = LocalSession
      BY <2>5 DEF TakeShot
    <3>2. PICK n \in ShotSizes :
            IF ctx.closed \/ n > ctx.left
            THEN ctx' = Unlocked(ctx, c) /\ Leaves(c)
            ELSE ctx' = [ctx EXCEPT !.shot[c] = [step |-> "store", size |-> n]] /\ UNCHANGED client
      BY <2>5 DEF TakeShot
    <3>3. CASE ctx.closed \/ n > ctx.left
      BY <2>2, <2>4, <3>2, <3>3
    <3>4. CASE ~(ctx.closed \/ n > ctx.left)
      <4> DEFINE x == [step |-> "store", size |-> n]
      <4>1. ctx' = [ctx EXCEPT !.shot[c] = x] /\ UNCHANGED client
        BY <3>2, <3>4
      <4> HIDE DEF x
      <4>2. ctx'.shot = [ctx.shot EXCEPT ![c] = x]
        BY <1>1, <4>1 DEF Contexts
      <4> QED BY <2>1, <3>1, <4>1, <4>2
    <3> QED BY <3>3, <3>4
  <2>6. CASE StoreShot(c)
    <3> DEFINE y == [ctx EXCEPT !.left = @ - ctx.shot[c].size, !.stored = @ + ctx.shot[c].size]
    <3>1. ctx' = [y EXCEPT !.lock = NoClient, !.shot[c] = NoShot] /\ UNCHANGED client
      BY <2>6 DEF StoreShot, Unlocked
    <3>2. ctx'.shot = [ctx.shot EXCEPT ![c] = NoShot]
      BY <1>1, <3>1 DEF Contexts
    <3> QED BY <2>2, <3>1, <3>2
  <2> QED BY <1>11, <2>3, <2>5, <2>6
<1> QED
  BY <1>3, <1>5, <1>6, <1>7, <1>8, <1>9, <1>10, <1>11
     DEF ControlNext, ExchangeControl, ExpireBridge, ConnectWorker, ServeRemote

\* Every step of the tunnel keeps its invariant.
LEMMA ControlStep == ControlRight /\ [ControlNext]_controlVars => ControlRight'
<1> SUFFICES ASSUME ControlRight, [ControlNext]_controlVars PROVE ControlRight'
  OBVIOUS
<1>1. BridgesRight /\ RelayRight /\ ContextRight /\ ShootersAreOpen
  BY DEF ControlRight
<1>2. UNCHANGED BridgeState => BridgesRight'
  BY <1>1 DEF BridgeState, BridgesRight, BridgeOpensOnce
<1>3. UNCHANGED RelayState /\ UNCHANGED client => RelayRight'
  BY <1>1 DEF RelayState, RelayRight, RelayTyped, PendingIsAwaited, PendingIdsDiffer, FramesFollow,
     WorkerIsUp, WaitersArePending, AnswersAreOwn
<1>4. UNCHANGED ctx => ContextRight'
  BY <1>1 DEF ContextRight
<1>5. ASSUME NEW s \in Sessions, ExchangeControl(s) PROVE BridgesRight' /\ RelayRight' /\ ContextRight'
  BY <1>1, <1>3, <1>4, <1>5, ExchangeRight DEF ExchangeControl
<1>6. ASSUME ExpireBridge PROVE BridgesRight' /\ RelayRight' /\ ContextRight'
  BY <1>1, <1>3, <1>4, <1>6, ExpireRight DEF ExpireBridge
<1>7. ASSUME EndLoop PROVE BridgesRight' /\ RelayRight' /\ ContextRight'
  BY <1>1, <1>2, <1>3, <1>7, CloseRight DEF EndLoop
<1>8. ASSUME NEW c \in Clients, SendAction(c) PROVE BridgesRight' /\ RelayRight' /\ ContextRight'
  BY <1>1, <1>2, <1>4, <1>8, SendRelay DEF SendAction
<1>9. ASSUME NEW c \in Clients, GiveUp(c) PROVE BridgesRight' /\ RelayRight' /\ ContextRight'
  BY <1>1, <1>2, <1>4, <1>9, GiveUpRelay DEF GiveUp
<1>10. ASSUME NEW c \in Clients, BeginShot(c) \/ TakeShot(c) \/ StoreShot(c) PROVE BridgesRight' /\ RelayRight' /\ ContextRight'
  <2>1. UNCHANGED BridgeState /\ UNCHANGED RelayState /\ (UNCHANGED client \/ Leaves(c))
    BY <1>10 DEF BeginShot, TakeShot, StoreShot
  <2>2. CASE UNCHANGED client
    BY <1>1, <1>2, <1>3, <1>10, <2>1, <2>2, ShotRight
  <2>3. CASE Leaves(c)
    <3>1. client[c].at # "waiting" \/ UNCHANGED client
      BY <1>1, <1>10 DEF BeginShot, TakeShot, StoreShot, OnContext, ShootersAreOpen
    <3> QED BY <1>1, <1>2, <1>3, <1>10, <2>1, <2>3, <3>1, ShotRight, ClientLeaves
  <2> QED BY <2>1, <2>2, <2>3
<1>11. ASSUME NEW c \in Clients, NEW id \in 1 .. MaxBridges, NEW s \in Sessions, OpenControl(c, id, s)
       PROVE  BridgesRight' /\ RelayRight' /\ ContextRight'
  BY <1>1, <1>4, <1>11, ConsumeRight, OpenRelay DEF OpenControl
<1>12. ASSUME NEW k \in Sockets, ConnectWorker(k) PROVE BridgesRight' /\ RelayRight' /\ ContextRight'
  BY <1>1, <1>2, <1>4, <1>12, ConnectRelay DEF ConnectWorker
<1>13. ASSUME NEW k \in Sockets, DropSocket(k) PROVE BridgesRight' /\ RelayRight' /\ ContextRight'
  BY <1>1, <1>2, <1>4, <1>13, DropRelay DEF DropSocket
<1>14. ASSUME NEW m \in frames, ServeRemote(m) PROVE BridgesRight' /\ RelayRight' /\ ContextRight'
  BY <1>1, <1>2, <1>4, <1>14, ServeRelay DEF ServeRemote
<1>15. ASSUME NEW m \in frames, RelayAnswer(m) PROVE BridgesRight' /\ RelayRight' /\ ContextRight'
  BY <1>1, <1>2, <1>4, <1>15, AnswerRelay DEF RelayAnswer
<1>16. ASSUME UNCHANGED controlVars PROVE BridgesRight' /\ RelayRight' /\ ContextRight'
  BY <1>2, <1>3, <1>4, <1>16 DEF controlVars, BridgeState, RelayState
<1>17. BridgesRight' /\ RelayRight' /\ ContextRight'
  BY <1>5, <1>6, <1>7, <1>8, <1>9, <1>10, <1>11, <1>12, <1>13, <1>14, <1>15, <1>16 DEF ControlNext
<1>18. ShootersAreOpen'
  <2>1. CASE UNCHANGED controlVars
    BY <1>1, <2>1 DEF controlVars, ShootersAreOpen
  <2> QED BY <1>1, <2>1, ShootersStay
<1> QED BY <1>17, <1>18 DEF ControlRight

-------------------------------------------------------------------------------
(* What the fleet and the tunnel promise *)

EdgeRight == edge \in Edges /\ FleetRight /\ PoolRight /\ ControlRight

\* Every part keeps its own invariant, whichever of them runs.
LEMMA EdgeInvariant == EdgeSpec => []EdgeRight
<1>1. EdgeInit => EdgeRight
  BY FleetStart, PoolStart, ControlStart DEF EdgeInit, EdgeRight
<1>2. EdgeRight /\ [EdgeNext]_edgeVars => EdgeRight'
  BY EdgeParts, FleetStep, PoolStep, ControlStep DEF RemoteRight, EdgeRight
<1> QED BY <1>1, <1>2, PTL DEF EdgeSpec

\* complete_remote and record_connected_ip: a stored result names an artifact that
\* was uploaded under the result's own lease, and an attested address is the
\* address of the node the attempt was given.
THEOREM FleetIsRight == EdgeSpec => []FleetInv
<1>1. FleetRight => FleetTypeOK /\ ArtifactBehindResult
  BY DEF FleetRight, FleetTyped, FleetTypeOK, Identities, TaskRows, RowStates
<1>2. PoolRight => PoolTypeOK /\ AttestationsAreOwn
  BY DEF PoolRight, PoolTyped, PoolTypeOK, NodeRows, UserRows
<1>3. EdgeRight => FleetInv
  BY <1>1, <1>2 DEF FleetInv, EdgeRight
<1> QED BY <1>3, EdgeInvariant, PTL

\* The relay of owned_session.py: a bridge opens one connection, an answer reaches
\* the client that asked, nobody waits for a socket that is gone, and a session's
\* screenshots and its browser context are accounted for.
THEOREM TunnelIsRight == EdgeSpec => []TunnelInv
<1>1. ControlRight => BridgesRight /\ RelayRight /\ ContextRight
  BY DEF ControlRight
<1>2. BridgesRight /\ RelayRight => ControlTypeOK /\ BridgeOpensOnce /\ AnswersAreOwn
  BY DEF BridgesRight, RelayRight, RelayTyped, ClientRows, ControlTypeOK
<1>3. ControlRight => TunnelInv
  BY <1>1, <1>2, RelayReaches, ContextKeepsBudget DEF TunnelInv
<1>4. EdgeRight => TunnelInv
  BY <1>3 DEF EdgeRight
<1> QED BY <1>4, EdgeInvariant, PTL

\* The fences of worker_api.py and proxy_pool.py: a revoked worker that still acts
\* changes no row, and a run loses its proxy by its own step or at the lease's end.
THEOREM NobodyPassesAFence == EdgeSpec => FencesHold
<1>1. EdgeRight /\ [EdgeNext]_edgeVars =>
        [\A w \in Fleet : identity[w] = "revoked" /\ proc'[w] # proc[w] => row' = row]_fvars
  BY EdgeParts, RevokedStandsStill DEF EdgeRight
<1>2. EdgeRight /\ [EdgeNext]_edgeVars =>
        [\A t \in ProxyTasks, k \in Tokens :
            /\ lent[t].token = k /\ holder[t] = k /\ user[k].at = "held"
            /\ lent'[t].token # k
            => user'[k].at # "held" \/ user' = user]_poolVars
  BY EdgeParts, NothingStolen DEF EdgeRight
<1> QED BY <1>1, <1>2, EdgeInvariant, PTL
       DEF EdgeSpec, FencesHold, RevokedIsPowerless, NoLeaseStolen

\* The functions of worker_api.py implement the fenced queue: a step of a worker,
\* of the core or of the reaper is a step of the queue or leaves it alone.
THEOREM FleetImplementsQueue == EdgeSpec => RemoteImplementsQueue
<1>1. EdgeInit => Remote!Init
  BY DEF EdgeInit, FleetInit, NewRow, NoResult, RemotePhase, Remote!Init
<1>2. EdgeRight /\ [EdgeNext]_edgeVars => [Remote!Next]_(Remote!queueVars)
  BY EdgeParts, FleetStep DEF RemoteRight, EdgeRight
<1> QED BY <1>1, <1>2, EdgeInvariant, PTL DEF EdgeSpec, RemoteImplementsQueue, Remote!Spec

-------------------------------------------------------------------------------
(* Transactions on one job *)

TxStates == Queued \cup Ended \cup {"absent", "leased"}
TxStages == {"idle", "claim", "fenced", "reap", "sweep"}
WriteSets == UNION {[D -> Ended \cup Queued] : D \in SUBSET Rows}
TxRows == [at : TxStages, row : Rows, todo : SUBSET Rows, due : SUBSET Rows,
           writes : WriteSets, terminal : Nat, failed : Nat, expired : BOOLEAN]
JobRows == [state : {"absent", "pending", "running"} \cup JobEnded, id : Callers \cup {NoCaller},
            cancel : BOOLEAN, expired : BOOLEAN, terminal : Nat, failed : Nat]
JobTaskRows == [state : TxStates, owner : Connections \cup {NoHolder}, leases : Nat, late : BOOLEAN]
RequestRows == [at : {"select", "insert", "commit", "done", "failed"}, id : Callers \cup {NoCaller}]

\* The rows, the locks and the open transactions, with their types.
JobTyped ==
    /\ request \in [Callers -> RequestRows] /\ keyOwner \in Callers \cup {NoCaller}
    /\ job \in JobRows /\ taskRows \in [Rows -> JobTaskRows]
    /\ lockedBy \in [Rows \cup {JobRow} -> Connections \cup {NoHolder}]
    /\ tx \in [Connections -> TxRows]

\* Whoever has the key in flight is alone, and before the job exists nothing
\* else does.
KeyRight ==
    /\ \A c \in Callers : request[c].at = "commit" <=> keyOwner = c
    /\ keyOwner # NoCaller => ~Submitted
    /\ OneJobPerKey
    /\ ~Submitted => /\ \A r \in Rows : taskRows[r].state = "absent"
                     /\ \A a \in Connections : tx[a].at = "idle"
                     /\ ~job.cancel /\ added = {}

\* Only a leased row has an owner or is late, and what was added in time is there.
RowsRight ==
    /\ \A r \in Rows : taskRows[r].owner # NoHolder \/ taskRows[r].late =>
                           taskRows[r].state = "leased"
    /\ inTime \subseteq Rows /\ \A r \in inTime : taskRows[r].state # "absent"
    /\ added = {} => inTime = {}

RowsOf(a) == {r \in Rows : lockedBy[r] = a}
EndedWrites(t) == {r \in DOMAIN t.writes : t.writes[r] \in Ended}

\* What a transaction has collected: it holds what it writes, writes over no end,
\* counts what it ends, and never queues a row of a cancelled job.
Collected(a, t, H) ==
    /\ DOMAIN t.writes \subseteq H /\ t.due \subseteq H \ DOMAIN t.writes
    /\ \A r \in t.due : taskRows[r].state = "leased"
    /\ \A r \in DOMAIN t.writes :
          /\ taskRows[r].state \in Queued \cup {"leased"}
          /\ job.cancel => t.writes[r] \in Ended
          /\ a \in {"cancel", "finalize"} =>
                taskRows[r].state \in Queued /\ t.writes[r] = "cancelled"
    /\ t.terminal = Cardinality(EndedWrites(t))

WaitsWith(t, j) == ~j /\ t.todo = {} /\ DOMAIN t.writes = {} /\ t.terminal = 0

\* A transaction t of connection a that holds the rows H, and the job if j.
TxOk(a, t, H, j) ==
    /\ t.at = "idle" => t = NoTx /\ H = {} /\ ~j
    /\ t.at = "claim" =>
          /\ WaitsWith(t, j) /\ a \in Crawlers /\ H = {t.row} /\ t.due = {}
          /\ taskRows[t.row].state \in Queued
    /\ t.at = "fenced" =>
          /\ WaitsWith(t, j) /\ a \in Crawlers /\ H = {t.row} /\ t.due = {}
          /\ taskRows[t.row].state = "leased"
    /\ t.at = "reap" =>
          /\ WaitsWith(t, j) /\ a = "reap" /\ H = t.due
          /\ \A r \in t.due : taskRows[r].state = "leased"
    /\ t.at = "sweep" =>
          /\ j /\ Collected(a, t, H) /\ \A r \in t.todo : Seen(t)[r] \in Queued
          /\ a = "cancel" => \A r \in Rows : taskRows[r].state \in Queued =>
                                  r \in t.todo \cup DOMAIN t.writes

TxRight(a) == TxOk(a, tx[a], RowsOf(a), lockedBy[JobRow] = a)

\* A cancelled job has no queue, and a job that has ended nobody working on it.
EndsRight ==
    /\ TerminalCountExact /\ CancelLeavesNoQueue /\ CancelledIsQuiet /\ RetriedInTimeEnds
    /\ job.state = "cancelled" => job.cancel

JobRight == JobTyped /\ KeyRight /\ RowsRight /\ (\A a \in Connections : TxRight(a)) /\ EndsRight

\* A transaction that has written nothing.
LEMMA NothingWritten == NoTx \in TxRows /\ DOMAIN NoTx.writes = {}
<1>1. <<>> \in [{} -> Ended \cup Queued] /\ DOMAIN <<>> = {}
  OBVIOUS
<1>2. <<>> \in WriteSets
  BY <1>1 DEF WriteSets
<1>3. SeedRow \in Rows
  BY JobAssumption
<1> QED BY <1>1, <1>2, <1>3 DEF NoTx, TxRows, TxStages

\* What a transaction sees of a row.
LEMMA SeenRows ==
  ASSUME NEW t, NEW r \in Rows
  PROVE  Seen(t)[r] = IF r \in DOMAIN t.writes THEN t.writes[r] ELSE taskRows[r].state
BY DEF Seen

\* The queue, seen by no transaction in particular.
LEMMA PlainView ==
  /\ \A r \in Rows : Seen(NoTx)[r] = taskRows[r].state
  /\ QueuedRows(NoTx) = {r \in Rows : taskRows[r].state \in Queued}
  /\ InState(NoTx, {"leased"}) = {r \in Rows : taskRows[r].state = "leased"}
<1>1. \A r \in Rows : Seen(NoTx)[r] = taskRows[r].state
  BY NothingWritten, SeenRows
<1> QED BY <1>1 DEF QueuedRows, InState

\* The writes of a transaction.
LEMMA WriteFacts ==
  ASSUME NEW t \in TxRows
  PROVE  /\ DOMAIN t.writes \subseteq Rows
         /\ \A r \in DOMAIN t.writes : t.writes[r] \in Ended \cup Queued
         /\ t.writes = [q \in DOMAIN t.writes |-> t.writes[q]]
<1>1. t.writes \in WriteSets
  BY DEF TxRows
<1>2. PICK D \in SUBSET Rows : t.writes \in [D -> Ended \cup Queued]
  BY <1>1 DEF WriteSets
<1> QED BY <1>2

\* One more row is written.
LEMMA WritingFacts ==
  ASSUME NEW t \in TxRows, NEW r \in Rows, NEW s \in Ended \cup Queued
  PROVE  /\ Writing(t, r, s) \in TxRows
         /\ DOMAIN Writing(t, r, s).writes = DOMAIN t.writes \cup {r}
         /\ Writing(t, r, s).writes[r] = s
         /\ \A q \in DOMAIN t.writes : q # r => Writing(t, r, s).writes[q] = t.writes[q]
         /\ Writing(t, r, s).at = t.at /\ Writing(t, r, s).row = t.row
         /\ Writing(t, r, s).todo = t.todo /\ Writing(t, r, s).due = t.due
         /\ Writing(t, r, s).terminal = t.terminal /\ Writing(t, r, s).failed = t.failed
         /\ Writing(t, r, s).expired = t.expired
<1> DEFINE w == [q \in DOMAIN t.writes \cup {r} |-> IF q = r THEN s ELSE t.writes[q]]
<1>1. w \in [DOMAIN t.writes \cup {r} -> Ended \cup Queued] /\ DOMAIN t.writes \cup {r} \in SUBSET Rows
  BY WriteFacts
<1>2. w \in WriteSets
  BY <1>1 DEF WriteSets
<1>3. DOMAIN w = DOMAIN t.writes \cup {r} /\ w[r] = s /\ \A q \in DOMAIN t.writes : q # r => w[q] = t.writes[q]
  OBVIOUS
<1>4. Writing(t, r, s) = [t EXCEPT !.writes = w]
  BY DEF Writing
<1> HIDE DEF w
<1>5. [t EXCEPT !.writes = w] \in TxRows /\ [t EXCEPT !.writes = w].writes = w
  BY <1>2 DEF TxRows
<1>6. \A u : u = [t EXCEPT !.writes = w] =>
        /\ u.at = t.at /\ u.row = t.row /\ u.todo = t.todo /\ u.due = t.due
        /\ u.terminal = t.terminal /\ u.failed = t.failed /\ u.expired = t.expired
  BY DEF TxRows
<1> QED BY <1>3, <1>4, <1>5, <1>6

\* A row that is ended is counted once.
LEMMA EndingCounts ==
  ASSUME NEW t \in TxRows, NEW u, NEW r \in Rows,
         r \notin DOMAIN t.writes \/ t.writes[r] \notin Ended,
         DOMAIN u.writes = DOMAIN t.writes \cup {r}, u.writes[r] \in Ended,
         \A q \in DOMAIN t.writes : q # r => u.writes[q] = t.writes[q]
  PROVE  Cardinality(EndedWrites(u)) = Cardinality(EndedWrites(t)) + 1
<1>1. EndedWrites(u) = EndedWrites(t) \cup {r} /\ r \notin EndedWrites(t)
  BY DEF EndedWrites
<1>2. EndedWrites(t) \subseteq Rows
  BY WriteFacts DEF EndedWrites
<1>3. IsFiniteSet(EndedWrites(t))
  BY <1>2, FS_Subset, JobAssumption
<1> QED BY <1>1, <1>3, FS_AddElement

\* A row that waits again is not counted.
LEMMA RequeueCounts ==
  ASSUME NEW t \in TxRows, NEW u, NEW r \in Rows, r \notin DOMAIN t.writes,
         DOMAIN u.writes = DOMAIN t.writes \cup {r}, u.writes[r] \in Queued,
         \A q \in DOMAIN t.writes : q # r => u.writes[q] = t.writes[q]
  PROVE  EndedWrites(u) = EndedWrites(t)
BY DEF EndedWrites, Ended, Queued

\* Nobody has submitted.
LEMMA JobStart == JobTxInit => JobRight
<1> SUFFICES ASSUME JobTxInit PROVE JobRight
  OBVIOUS
<1>1. JobTyped
  <2>1. NoRow \in JobTaskRows
    BY DEF NoRow, JobTaskRows, TxStates
  <2> QED BY <2>1, NothingWritten DEF JobTxInit, JobTyped, RequestRows, JobRows
<1>2. KeyRight
  BY JobAssumption DEF JobTxInit, KeyRight, Submitted, OneJobPerKey, NoRow, NoTx
<1>3. RowsRight
  BY DEF JobTxInit, RowsRight, NoRow
<1>4. ASSUME NEW a \in Connections PROVE TxRight(a)
  <2>1. NoHolder \notin Connections
    BY JobAssumption DEF Connections, Sweepers, NoHolder
  <2>2. RowsOf(a) = {} /\ lockedBy[JobRow] # a /\ tx[a] = NoTx
    BY <2>1 DEF JobTxInit, RowsOf
  <2> QED BY <2>2 DEF TxRight, TxOk, NoTx
<1>5. EndsRight
  <2>1. {r \in Rows : taskRows[r].state \in Ended} = {}
    BY DEF JobTxInit, NoRow, Ended
  <2> QED BY <2>1, FS_EmptySet DEF JobTxInit, EndsRight, TerminalCountExact, CancelLeavesNoQueue,
             CancelledIsQuiet, RetriedInTimeEnds, JobEnded
<1> QED BY <1>1, <1>2, <1>3, <1>4, <1>5 DEF JobRight

-------------------------------------------------------------------------------
(* A transaction beside the others *)

\* Connections have names of their own.
LEMMA ConnectionNames ==
  /\ NoHolder \notin Connections /\ JobRow \notin Rows
  /\ Crawlers \subseteq Connections /\ Sweepers \subseteq Connections
  /\ \A a \in Crawlers : a \notin Sweepers
BY JobAssumption DEF Connections, Sweepers, NoHolder

\* What is open stands as long as nobody changes its rows, and a sweep as long
\* as nobody changes any row or the cancellation.
LEMMA OthersRight ==
  ASSUME JobRight, NEW b \in Connections, tx'[b] = tx[b],
         \A x \in Rows \cup {JobRow} : lockedBy'[x] = b <=> lockedBy[x] = b,
         \A r \in Rows : taskRows'[r].state = taskRows[r].state
                         \/ (lockedBy[JobRow] # b /\ lockedBy[r] # b),
         job'.cancel = job.cancel \/ lockedBy[JobRow] # b
  PROVE  TxRight(b)'
<1> DEFINE t == tx[b]
<1>1. t \in TxRows /\ TxOk(b, t, RowsOf(b), lockedBy[JobRow] = b)
  BY DEF JobRight, JobTyped, TxRight
<1>2. RowsOf(b)' = RowsOf(b) /\ ((lockedBy[JobRow] = b)' <=> lockedBy[JobRow] = b)
  BY DEF RowsOf
<1>3. t.row \in Rows /\ t.due \subseteq Rows /\ t.todo \subseteq Rows /\ DOMAIN t.writes \subseteq Rows
  BY <1>1, WriteFacts DEF TxRows
<1>4. CASE t.at = "idle"
  BY <1>1, <1>2, <1>4 DEF TxOk, TxRight
<1>5. CASE t.at = "claim" \/ t.at = "fenced"
  <2>1. lockedBy[t.row] = b
    BY <1>1, <1>5 DEF TxOk, RowsOf
  <2>2. taskRows'[t.row].state = taskRows[t.row].state
    BY <1>3, <2>1
  <2> HIDE DEF t
  <2>3. tx'[b] = t
    BY DEF t
  <2> QED BY <1>1, <1>2, <1>5, <2>2, <2>3 DEF TxOk, TxRight, WaitsWith
<1>6. CASE t.at = "reap"
  <2>1. \A r \in t.due : lockedBy[r] = b
    BY <1>1, <1>6 DEF TxOk, RowsOf
  <2>2. \A r \in t.due : taskRows'[r].state = taskRows[r].state
    BY <1>3, <2>1
  <2> HIDE DEF t
  <2>3. tx'[b] = t
    BY DEF t
  <2> QED BY <1>1, <1>2, <1>6, <2>2, <2>3 DEF TxOk, TxRight, WaitsWith
<1>7. CASE t.at = "sweep"
  <2>1. lockedBy[JobRow] = b
    BY <1>1, <1>7 DEF TxOk
  <2>2. \A r \in Rows : taskRows'[r].state = taskRows[r].state
    BY <2>1
  <2>3. job'.cancel = job.cancel
    BY <2>1
  <2>4. \A r \in Rows : Seen(t)'[r] = Seen(t)[r]
    BY <2>2 DEF Seen
  <2>5. Collected(b, t, RowsOf(b)) /\ (\A r \in t.todo : Seen(t)[r] \in Queued)
        /\ (b = "cancel" => \A r \in Rows : taskRows[r].state \in Queued =>
                                r \in t.todo \cup DOMAIN t.writes)
    BY <1>1, <1>7 DEF TxOk
  <2> HIDE DEF t
  <2>6. tx'[b] = t
    BY DEF t
  <2>7. Collected(b, tx[b], RowsOf(b))'
    BY <1>2, <1>3, <2>2, <2>3, <2>5, <2>6 DEF Collected, EndedWrites
  <2>8. \A r \in tx'[b].todo : Seen(tx[b])'[r] \in Queued
    BY <1>3, <2>2, <2>5, <2>6 DEF Seen
  <2> QED BY <1>2, <1>3, <1>7, <2>1, <2>2, <2>5, <2>6, <2>7, <2>8 DEF TxOk, TxRight
<1> QED BY <1>1, <1>4, <1>5, <1>6, <1>7 DEF TxRows, TxStages

\* A row that is not there is locked by nobody who has not locked the job.
LEMMA AbsentIsFree ==
  ASSUME JobRight, NEW b \in Connections, lockedBy[JobRow] # b, NEW r \in Rows,
         taskRows[r].state = "absent"
  PROVE  lockedBy[r] # b
<1>1. tx[b] \in TxRows /\ TxOk(b, tx[b], RowsOf(b), lockedBy[JobRow] = b)
  BY DEF JobRight, JobTyped, TxRight
<1> QED BY <1>1 DEF TxOk, TxRows, TxStages, RowsOf, Queued

\* One statement: locks are taken, a transaction goes on.
LEMMA StatementRight ==
  ASSUME JobRight, Submitted, NEW a \in Connections, NEW t \in TxRows,
         NEW X \in SUBSET (Rows \cup {JobRow}),
         \A x \in X : lockedBy[x] \in {NoHolder, a},
         Locked(a, X), Statement(a, t),
         TxOk(a, t, RowsOf(a) \cup (X \cap Rows), JobRow \in X \/ lockedBy[JobRow] = a)
  PROVE  JobRight'
<1>1. /\ tx \in [Connections -> TxRows]
      /\ lockedBy \in [Rows \cup {JobRow} -> Connections \cup {NoHolder}]
  BY DEF JobRight, JobTyped
<1>2. /\ tx' = [tx EXCEPT ![a] = t]
      /\ lockedBy' = [x \in Rows \cup {JobRow} |-> IF x \in X THEN a ELSE lockedBy[x]]
      /\ UNCHANGED <<job, taskRows, request, keyOwner, added, inTime>>
  BY <1>1 DEF Statement, Locked, Others
<1>3. tx' \in [Connections -> TxRows]
      /\ lockedBy' \in [Rows \cup {JobRow} -> Connections \cup {NoHolder}]
  BY <1>1, <1>2
<1>4. JobTyped'
  BY <1>2, <1>3 DEF JobRight, JobTyped
<1>5. KeyRight' /\ RowsRight'
  BY <1>2 DEF JobRight, KeyRight, RowsRight, Submitted, OneJobPerKey
<1>6. EndsRight'
  BY <1>2, PlainView DEF JobRight, EndsRight, TerminalCountExact, CancelLeavesNoQueue,
     CancelledIsQuiet, RetriedInTimeEnds, QueuedRows, InState, Seen
<1>7. TxRight(a)'
  <2>1. RowsOf(a)' = RowsOf(a) \cup (X \cap Rows)
    BY <1>2 DEF RowsOf
  <2>2. (lockedBy[JobRow] = a)' <=> (JobRow \in X \/ lockedBy[JobRow] = a)
    BY <1>2
  <2>3. tx'[a] = t
    BY <1>1, <1>2
  <2> QED BY <1>2, <2>1, <2>2, <2>3 DEF TxRight, TxOk, WaitsWith, Collected, EndedWrites, Seen
<1>8. ASSUME NEW b \in Connections, b # a PROVE TxRight(b)'
  <2>1. tx'[b] = tx[b]
    BY <1>1, <1>2, <1>8
  <2>2. \A x \in Rows \cup {JobRow} : lockedBy'[x] = b <=> lockedBy[x] = b
    BY <1>2, <1>8, ConnectionNames
  <2> QED BY <1>2, <2>1, <2>2, OthersRight
<1> QED BY <1>4, <1>5, <1>6, <1>7, <1>8 DEF JobRight

\* A transaction that ends without a write.
LEMMA EndsQuietly ==
  ASSUME JobRight, NEW a \in Connections, EndTx(a),
         UNCHANGED <<job, taskRows, request, keyOwner, added, inTime>>
  PROVE  JobRight'
<1>1. /\ tx \in [Connections -> TxRows]
      /\ lockedBy \in [Rows \cup {JobRow} -> Connections \cup {NoHolder}]
  BY DEF JobRight, JobTyped
<1>2. /\ tx' = [tx EXCEPT ![a] = NoTx]
      /\ lockedBy' = [x \in Rows \cup {JobRow} |-> IF lockedBy[x] = a THEN NoHolder ELSE lockedBy[x]]
  BY <1>1 DEF EndTx
<1>3. tx' \in [Connections -> TxRows]
      /\ lockedBy' \in [Rows \cup {JobRow} -> Connections \cup {NoHolder}]
  BY <1>1, <1>2, NothingWritten
<1>4. JobTyped'
  BY <1>2, <1>3 DEF JobRight, JobTyped
<1>5. KeyRight' /\ RowsRight'
  BY <1>1, <1>2 DEF JobRight, KeyRight, RowsRight, Submitted, OneJobPerKey, NoTx
<1>6. EndsRight'
  BY <1>2, PlainView DEF JobRight, EndsRight, TerminalCountExact, CancelLeavesNoQueue,
     CancelledIsQuiet, RetriedInTimeEnds, QueuedRows, InState, Seen
<1>7. TxRight(a)'
  BY <1>1, <1>2, ConnectionNames DEF TxRight, TxOk, RowsOf, NoTx
<1>8. ASSUME NEW b \in Connections, b # a PROVE TxRight(b)'
  <2>1. tx'[b] = tx[b]
    BY <1>1, <1>2, <1>8
  <2>2. \A x \in Rows \cup {JobRow} : lockedBy'[x] = b <=> lockedBy[x] = b
    BY <1>2, <1>8, ConnectionNames
  <2> QED BY <2>1, <2>2, OthersRight
<1> QED BY <1>4, <1>5, <1>6, <1>7, <1>8 DEF JobRight

\* A commit writes rows of its own or new ones, over no end, and never queues a
\* row of a cancelled job.
WritesOk(a, t) ==
    /\ \A r \in DOMAIN t.writes :
          /\ taskRows[r].state = "absent" \/ (taskRows[r].state \notin Ended /\ lockedBy[r] = a)
          /\ job.cancel => t.writes[r] \in Ended
    /\ t.terminal = Cardinality(EndedWrites(t))

\* A job ends with the last of what it has to run.
EndsOk(t, state) ==
    /\ state \in {"pending", "running"} \cup JobEnded
    /\ state = "cancelled" => job.cancel
    /\ \/ state = job.state
       \/ InState(t, {"leased"}) = {} /\ (job.cancel \/ UnendedRows(t) = {})

\* The rows after a commit.
LEMMA CommittedRows ==
  ASSUME JobRight, NEW a \in Connections, NEW t \in TxRows, NEW state, Commit(a, t, state)
  PROVE  /\ taskRows' \in [Rows -> JobTaskRows]
         /\ \A r \in Rows : taskRows'[r].state = Seen(t)[r]
         /\ \A r \in Rows : r \in DOMAIN t.writes => taskRows'[r].owner = NoHolder /\ ~taskRows'[r].late
         /\ \A r \in Rows : r \notin DOMAIN t.writes => taskRows'[r] = taskRows[r]
<1>1. taskRows \in [Rows -> JobTaskRows]
  BY DEF JobRight, JobTyped
<1>2. \A r \in Rows : taskRows'[r] =
         IF r \in DOMAIN t.writes
         THEN [taskRows[r] EXCEPT !.state = t.writes[r], !.owner = NoHolder, !.late = FALSE]
         ELSE taskRows[r]
  BY DEF Commit
<1>3. ASSUME NEW r \in Rows, r \in DOMAIN t.writes
      PROVE  /\ taskRows'[r] \in JobTaskRows /\ taskRows'[r].state = t.writes[r]
             /\ taskRows'[r].owner = NoHolder /\ ~taskRows'[r].late
  <2>1. t.writes[r] \in TxStates
    BY <1>3, WriteFacts DEF TxStates
  <2>2. taskRows[r] \in JobTaskRows
    BY <1>1
  <2> QED BY <1>2, <1>3, <2>1, <2>2 DEF JobTaskRows
<1>4. \A r \in Rows : taskRows'[r] \in JobTaskRows
  BY <1>1, <1>2, <1>3
<1>5. taskRows' = [r \in Rows |-> taskRows'[r]]
  BY DEF Commit
<1> QED BY <1>2, <1>3, <1>4, <1>5, SeenRows

\* The job after a commit.
LEMMA CommittedJob ==
  ASSUME JobRight, NEW a \in Connections, NEW t \in TxRows,
         NEW state \in {"pending", "running"} \cup JobEnded, Commit(a, t, state)
  PROVE  /\ job' \in JobRows /\ job'.state = state /\ job'.id = job.id
         /\ job'.cancel = job.cancel /\ job'.terminal = job.terminal + t.terminal
<1>1. job \in JobRows /\ t.terminal \in Nat /\ t.failed \in Nat
  BY DEF JobRight, JobTyped, TxRows
<1>2. job' = [job EXCEPT !.terminal = @ + t.terminal, !.failed = @ + t.failed, !.state = state]
  BY DEF Commit
<1> DEFINE n == job.terminal + t.terminal
           f == job.failed + t.failed
<1>3. job' = [job EXCEPT !.terminal = n, !.failed = f, !.state = state]
  BY <1>2
<1>4. n \in Nat /\ f \in Nat
  BY <1>1 DEF JobRows
<1> HIDE DEF n, f
<1>5. /\ job' \in JobRows /\ job'.state = state /\ job'.id = job.id
      /\ job'.cancel = job.cancel /\ job'.terminal = n
  BY <1>1, <1>3, <1>4 DEF JobRows
<1> QED BY <1>5 DEF n

\* What ended before and what ends now add up.
LEMMA CommittedCount ==
  ASSUME JobRight, NEW a \in Connections, NEW t \in TxRows, WritesOk(a, t),
         \A r \in Rows : taskRows'[r].state = Seen(t)[r]
  PROVE  Cardinality({r \in Rows : taskRows'[r].state \in Ended}) = job.terminal + t.terminal
<1> DEFINE old == {r \in Rows : taskRows[r].state \in Ended}
           new == {r \in Rows : taskRows'[r].state \in Ended}
<1>1. job.terminal = Cardinality(old) /\ t.terminal = Cardinality(EndedWrites(t))
  BY DEF JobRight, EndsRight, TerminalCountExact, WritesOk
<1>2. EndedWrites(t) \subseteq Rows
  BY WriteFacts DEF EndedWrites
<1>3. old \cap EndedWrites(t) = {}
  BY DEF EndedWrites, WritesOk, Ended
<1>4. new = old \cup EndedWrites(t)
  <2>1. \A r \in Rows : r \in DOMAIN t.writes => r \notin old
    BY DEF WritesOk, Ended
  <2> QED BY <1>2, <2>1, SeenRows DEF EndedWrites
<1>5. IsFiniteSet(old) /\ IsFiniteSet(EndedWrites(t))
  BY <1>2, FS_Subset, JobAssumption
<1> HIDE DEF old
<1>6. Cardinality(old) \in Nat /\ Cardinality(EndedWrites(t)) \in Nat
  BY <1>5, FS_CardinalityType
<1>7. Cardinality(old \cup EndedWrites(t)) = Cardinality(old) + Cardinality(EndedWrites(t))
  <2>1. Cardinality(old \cup EndedWrites(t)) =
          Cardinality(old) + Cardinality(EndedWrites(t)) - Cardinality(old \cap EndedWrites(t))
    BY <1>5, FS_Union
  <2>2. Cardinality(old \cap EndedWrites(t)) = 0
    BY <1>3, FS_EmptySet
  <2> QED BY <1>6, <2>1, <2>2
<1> QED BY <1>1, <1>4, <1>7

\* A commit of somebody who has the job, or finds it free.
LEMMA CommitRight ==
  ASSUME JobRight, Submitted, NEW a \in Connections, NEW t \in TxRows, NEW state,
         lockedBy[JobRow] \in {NoHolder, a}, WritesOk(a, t), EndsOk(t, state), Commit(a, t, state)
  PROVE  JobRight'
<1>1. /\ tx \in [Connections -> TxRows]
      /\ lockedBy \in [Rows \cup {JobRow} -> Connections \cup {NoHolder}]
  BY DEF JobRight, JobTyped
<1>2. /\ tx' = [tx EXCEPT ![a] = NoTx]
      /\ lockedBy' = [x \in Rows \cup {JobRow} |-> IF lockedBy[x] = a THEN NoHolder ELSE lockedBy[x]]
      /\ UNCHANGED <<request, keyOwner, added, inTime>>
  BY <1>1 DEF Commit, EndTx, Others
<1>3. tx' \in [Connections -> TxRows]
      /\ lockedBy' \in [Rows \cup {JobRow} -> Connections \cup {NoHolder}]
  BY <1>1, <1>2, NothingWritten
<1>4. /\ taskRows' \in [Rows -> JobTaskRows]
      /\ \A r \in Rows : taskRows'[r].state = Seen(t)[r]
      /\ \A r \in Rows : r \in DOMAIN t.writes => taskRows'[r].owner = NoHolder /\ ~taskRows'[r].late
      /\ \A r \in Rows : r \notin DOMAIN t.writes => taskRows'[r] = taskRows[r]
  BY CommittedRows
<1>5. /\ job' \in JobRows /\ job'.state = state /\ job'.id = job.id
      /\ job'.cancel = job.cancel /\ job'.terminal = job.terminal + t.terminal
  BY CommittedJob DEF EndsOk
<1>6. \A r \in DOMAIN t.writes : r \in Rows /\ t.writes[r] \in Ended \cup Queued
  BY WriteFacts
<1>7. JobTyped'
  BY <1>2, <1>3, <1>4, <1>5 DEF JobRight, JobTyped
<1>8. KeyRight'
  <2>1. state # "absent"
    BY DEF EndsOk, JobEnded
  <2> QED BY <1>2, <1>5, <2>1 DEF JobRight, KeyRight, Submitted, OneJobPerKey
<1>9. RowsRight'
  <2>1. \A r \in Rows : taskRows'[r].owner # NoHolder \/ taskRows'[r].late => taskRows'[r].state = "leased"
    BY <1>4 DEF JobRight, RowsRight
  <2>2. \A r \in Rows : taskRows'[r].state = "absent" => taskRows[r].state = "absent"
    BY <1>4, <1>6, SeenRows DEF Ended, Queued
  <2> QED BY <1>2, <2>1, <2>2 DEF JobRight, RowsRight
<1>10. TxRight(a)'
  BY <1>1, <1>2, ConnectionNames DEF TxRight, TxOk, RowsOf, NoTx
<1>11. ASSUME NEW b \in Connections, b # a PROVE TxRight(b)'
  <2>1. tx'[b] = tx[b]
    BY <1>1, <1>2, <1>11
  <2>2. \A x \in Rows \cup {JobRow} : lockedBy'[x] = b <=> lockedBy[x] = b
    BY <1>2, <1>11, ConnectionNames
  <2>3. lockedBy[JobRow] # b
    BY <1>11, ConnectionNames
  <2>4. \A r \in DOMAIN t.writes : lockedBy[r] # b
    BY <1>6, <1>11, <2>3, AbsentIsFree DEF WritesOk
  <2> QED BY <1>4, <2>1, <2>2, <2>3, <2>4, OthersRight
<1>12. TerminalCountExact'
  BY <1>4, <1>5, CommittedCount DEF TerminalCountExact
<1>13. CancelLeavesNoQueue'
  <2> SUFFICES ASSUME job.cancel, NEW r \in Rows, taskRows'[r].state \in Queued
               PROVE  r \in added \ inTime
    BY <1>2, <1>5, NothingWritten DEF CancelLeavesNoQueue, QueuedRows, InState, Seen
  <2>1. r \notin DOMAIN t.writes
    BY <1>4, SeenRows DEF WritesOk, Ended, Queued
  <2> QED BY <1>4, <2>1, PlainView DEF JobRight, EndsRight, CancelLeavesNoQueue
<1>14. \A r \in Rows : state = "cancelled" => taskRows'[r].state # "leased"
  <2> SUFFICES ASSUME NEW r \in Rows, state = "cancelled", taskRows'[r].state = "leased" PROVE FALSE
    OBVIOUS
  <2>1. r \notin DOMAIN t.writes
    BY <1>4, <1>6, SeenRows DEF Ended, Queued
  <2>2. taskRows[r].state = "leased" /\ Seen(t)[r] = "leased"
    BY <1>4, <2>1
  <2>3. state # job.state
    BY <2>2, PlainView DEF JobRight, EndsRight, CancelledIsQuiet
  <2> QED BY <2>2, <2>3 DEF EndsOk, InState
<1>15. CancelledIsQuiet'
  BY <1>5, <1>14, NothingWritten DEF CancelledIsQuiet, InState, Seen
<1>16. RetriedInTimeEnds'
  <2> SUFFICES ASSUME state \in JobEnded, NEW r \in inTime PROVE taskRows'[r].state \in Ended
    BY <1>2, <1>5 DEF RetriedInTimeEnds
  <2>1. r \in Rows /\ taskRows[r].state # "absent"
    BY DEF JobRight, RowsRight
  <2>2. CASE state = job.state
    <3>1. taskRows[r].state \in Ended
      BY <2>2 DEF JobRight, EndsRight, RetriedInTimeEnds
    <3>2. r \notin DOMAIN t.writes
      BY <2>1, <3>1 DEF WritesOk
    <3> QED BY <1>4, <2>1, <3>1, <3>2
  <2>3. CASE state # job.state
    <3>1. taskRows'[r].state \in TxStates /\ taskRows'[r].state # "absent"
      BY <1>4, <1>6, <2>1, SeenRows DEF Ended, Queued, JobTaskRows
    <3>2. taskRows'[r].state # "leased"
      BY <1>4, <2>1, <2>3 DEF EndsOk, InState
    <3>3. taskRows'[r].state \notin Queued
      <4>1. CASE job.cancel
        <5>1. taskRows[r].state \notin Queued
          BY <2>1, <4>1, PlainView DEF JobRight, EndsRight, CancelLeavesNoQueue
        <5> QED BY <1>4, <2>1, <4>1, <5>1, SeenRows DEF WritesOk, Ended, Queued
      <4>2. CASE ~job.cancel
        BY <1>4, <2>1, <2>3, <4>2 DEF EndsOk, UnendedRows, InState
      <4> QED BY <4>1, <4>2
    <3> QED BY <3>1, <3>2, <3>3 DEF TxStates
  <2> QED BY <2>2, <2>3
<1>17. EndsRight'
  BY <1>5, <1>12, <1>13, <1>15, <1>16 DEF EndsRight, EndsOk
<1> QED BY <1>7, <1>8, <1>9, <1>10, <1>11, <1>17 DEF JobRight

-------------------------------------------------------------------------------
(* Submission *)

\* The rows of the crawl stand still.
LEMMA CrawlStands ==
  ASSUME JobRight, UNCHANGED <<taskRows, lockedBy, tx, job, added, inTime>>
  PROVE  RowsRight' /\ EndsRight' /\ \A a \in Connections : TxRight(a)'
<1>1. ASSUME NEW a \in Connections PROVE TxRight(a)'
  BY OthersRight
<1>2. RowsRight'
  BY DEF JobRight, RowsRight
<1>3. EndsRight'
  BY DEF JobRight, EndsRight, TerminalCountExact, CancelLeavesNoQueue,
     CancelledIsQuiet, RetriedInTimeEnds, QueuedRows, InState, Seen
<1> QED BY <1>1, <1>2, <1>3

\* submit_job up to its commit, or its end.
LEMMA KeyRightStays ==
  ASSUME JobRight, NEW c \in Callers, SelectKey(c) \/ InsertKey(c) \/ SubmitAborts(c)
  PROVE  JobRight'
<1>1. /\ UNCHANGED <<taskRows, lockedBy, tx, job, added, inTime>>
      /\ request \in [Callers -> RequestRows] /\ request[c] \in RequestRows
      /\ job \in JobRows /\ job.id \in Callers \cup {NoCaller}
  BY DEF SelectKey, InsertKey, SubmitAborts, NoCrawl, JobRight, JobTyped, JobRows
<1>2. NoCaller \notin Callers
  BY JobAssumption
<1>3. PICK x \in RequestRows : request' = [request EXCEPT ![c] = x]
                               /\ (x.at = "done" => Submitted /\ x.id = job.id)
                               /\ ((x.at = "commit" /\ keyOwner' = c /\ keyOwner = NoCaller /\ ~Submitted)
                                   \/ (x.at # "commit" /\ keyOwner' = NoCaller /\ request[c].at = "commit")
                                   \/ (x.at # "commit" /\ keyOwner' = keyOwner /\ request[c].at # "commit"))
  <2> DEFINE done == [at |-> "done", id |-> job.id]
             ins == [request[c] EXCEPT !.at = "insert"]
             com == [request[c] EXCEPT !.at = "commit"]
             fail == [request[c] EXCEPT !.at = "failed"]
  <2>1. done \in RequestRows /\ ins \in RequestRows /\ com \in RequestRows /\ fail \in RequestRows
    BY <1>1 DEF RequestRows
  <2>2. done.at = "done" /\ done.id = job.id /\ ins.at = "insert" /\ com.at = "commit" /\ fail.at = "failed"
    BY <1>1 DEF RequestRows
  <2>3. \/ request' = [request EXCEPT ![c] = done] /\ Submitted /\ UNCHANGED keyOwner /\ request[c].at # "commit"
        \/ request' = [request EXCEPT ![c] = ins] /\ UNCHANGED keyOwner /\ request[c].at # "commit"
        \/ request' = [request EXCEPT ![c] = com] /\ keyOwner' = c /\ keyOwner = NoCaller /\ ~Submitted
        \/ request' = [request EXCEPT ![c] = fail] /\ keyOwner' = NoCaller /\ request[c].at = "commit"
    BY DEF SelectKey, InsertKey, SubmitAborts, Returns, LoserLooksAgain
  <2> HIDE DEF done, ins, com, fail
  <2> QED BY <2>1, <2>2, <2>3
<1>4. JobTyped'
  BY <1>1, <1>3 DEF JobRight, JobTyped
<1>5. \A d \in Callers : request'[d] = IF d = c THEN x ELSE request[d]
  BY <1>1, <1>3
<1>6. /\ \A d \in Callers : request[d].at = "commit" <=> keyOwner = d
      /\ keyOwner # NoCaller => ~Submitted
      /\ OneJobPerKey
  BY DEF JobRight, KeyRight
<1>7. \A d \in Callers : request'[d].at = "commit" <=> keyOwner' = d
  BY <1>2, <1>3, <1>5, <1>6
<1>8. keyOwner' # NoCaller => ~Submitted
  BY <1>2, <1>3, <1>6
<1>9. OneJobPerKey'
  BY <1>1, <1>3, <1>5, <1>6 DEF OneJobPerKey, Submitted
<1>10. KeyRight'
  BY <1>1, <1>7, <1>8, <1>9 DEF JobRight, KeyRight, Submitted
<1> QED BY <1>1, <1>4, <1>10, CrawlStands DEF JobRight

\* Rows that were not there wait; nothing else changes about them.
NewRows(N) ==
    /\ N \subseteq Rows /\ \A r \in N : taskRows[r].state = "absent"
    /\ taskRows' = [r \in Rows |-> IF r \in N THEN [taskRows[r] EXCEPT !.state = "pending"]
                                   ELSE taskRows[r]]
    /\ UNCHANGED <<lockedBy, tx>> /\ job'.cancel = job.cancel /\ job'.terminal = job.terminal

LEMMA NewRowsFacts ==
  ASSUME JobRight, NEW N, NewRows(N), \A b \in Connections : lockedBy[JobRow] # b
  PROVE  /\ taskRows' \in [Rows -> JobTaskRows]
         /\ \A r \in Rows : taskRows'[r].state = IF r \in N THEN "pending" ELSE taskRows[r].state
         /\ \A r \in Rows : taskRows'[r].owner # NoHolder \/ taskRows'[r].late =>
                               taskRows'[r].state = "leased"
         /\ \A a \in Connections : TxRight(a)'
         /\ TerminalCountExact'
<1>1. taskRows \in [Rows -> JobTaskRows]
  BY DEF JobRight, JobTyped
<1>2. \A r \in Rows : taskRows'[r] = IF r \in N THEN [taskRows[r] EXCEPT !.state = "pending"]
                                     ELSE taskRows[r]
  BY DEF NewRows
<1>3. ASSUME NEW r \in Rows, r \in N
      PROVE  /\ taskRows'[r] \in JobTaskRows /\ taskRows'[r].state = "pending"
             /\ taskRows'[r].owner = taskRows[r].owner /\ taskRows'[r].late = taskRows[r].late
  <2>1. taskRows[r] \in JobTaskRows
    BY <1>1
  <2> QED BY <1>2, <1>3, <2>1 DEF JobTaskRows, TxStates, Queued
<1>4. \A r \in Rows : taskRows'[r] \in JobTaskRows
  BY <1>1, <1>2, <1>3
<1>5. taskRows' = [r \in Rows |-> taskRows'[r]]
  BY DEF NewRows
<1>6. \A r \in Rows : taskRows'[r].state = IF r \in N THEN "pending" ELSE taskRows[r].state
  BY <1>2, <1>3
<1>7. \A r \in Rows : taskRows'[r].owner # NoHolder \/ taskRows'[r].late => taskRows'[r].state = "leased"
  BY <1>2, <1>3 DEF JobRight, RowsRight, NewRows
<1>8. ASSUME NEW a \in Connections PROVE TxRight(a)'
  <2>1. \A r \in N : r \in Rows /\ lockedBy[r] # a
    BY AbsentIsFree DEF NewRows
  <2>2. UNCHANGED <<lockedBy, tx>>
    BY DEF NewRows
  <2> QED BY <1>6, <2>1, <2>2, OthersRight
<1>9. {r \in Rows : taskRows'[r].state \in Ended} = {r \in Rows : taskRows[r].state \in Ended}
  BY <1>6 DEF NewRows, Ended
<1>10. TerminalCountExact'
  BY <1>9 DEF TerminalCountExact, NewRows, JobRight, EndsRight
<1> QED BY <1>4, <1>5, <1>6, <1>7, <1>8, <1>10

\* submit_job commits the job with its seed.
LEMMA CommitJobRight ==
  ASSUME JobRight, NEW c \in Callers, CommitJob(c)
  PROVE  JobRight'
<1>1. /\ ~Submitted /\ ~job.cancel /\ added = {} /\ inTime = {}
      /\ \A r \in Rows : taskRows[r].state = "absent"
      /\ \A a \in Connections : tx[a].at = "idle"
      /\ keyOwner = c
  BY JobAssumption DEF JobRight, KeyRight, RowsRight, CommitJob
<1>2. /\ job \in JobRows /\ taskRows \in [Rows -> JobTaskRows] /\ request \in [Callers -> RequestRows]
      /\ SeedRow \in Rows /\ NoCaller \notin Callers
  BY JobAssumption DEF JobRight, JobTyped
<1>3. /\ job' = [job EXCEPT !.state = "pending", !.id = c]
      /\ request' = [request EXCEPT ![c] = [at |-> "done", id |-> c]]
      /\ keyOwner' = NoCaller /\ UNCHANGED <<lockedBy, tx, added, inTime>>
  BY DEF CommitJob, Returns
<1>4. /\ job' \in JobRows /\ job'.state = "pending" /\ job'.id = c
      /\ job'.cancel = job.cancel /\ job'.terminal = job.terminal
  BY <1>2, <1>3 DEF JobRows
<1>5. taskRows' = [r \in Rows |-> IF r \in {SeedRow} THEN [taskRows[r] EXCEPT !.state = "pending"]
                                  ELSE taskRows[r]]
  BY <1>2 DEF CommitJob
<1>6. NewRows({SeedRow})
  BY <1>1, <1>2, <1>3, <1>4, <1>5 DEF NewRows
<1>7. \A b \in Connections : lockedBy[JobRow] # b
  BY <1>1 DEF JobRight, TxRight, TxOk
<1>8. /\ taskRows' \in [Rows -> JobTaskRows]
      /\ \A r \in Rows : taskRows'[r].owner # NoHolder \/ taskRows'[r].late => taskRows'[r].state = "leased"
      /\ \A a \in Connections : TxRight(a)'
      /\ TerminalCountExact'
  BY <1>6, <1>7, NewRowsFacts
<1>9. /\ request' \in [Callers -> RequestRows] /\ request'[c].at = "done" /\ request'[c].id = c
      /\ \A d \in Callers : d # c => request'[d] = request[d]
  BY <1>2, <1>3 DEF RequestRows
<1>10. JobTyped'
  BY <1>3, <1>4, <1>8, <1>9 DEF JobRight, JobTyped
<1>11. KeyRight'
  <2>1. \A d \in Callers : request'[d].at = "commit" <=> keyOwner' = d
    BY <1>1, <1>2, <1>3, <1>9 DEF JobRight, KeyRight
  <2>2. OneJobPerKey'
    BY <1>1, <1>4, <1>9 DEF JobRight, KeyRight, OneJobPerKey, Submitted
  <2> QED BY <1>3, <1>4, <2>1, <2>2 DEF KeyRight, Submitted
<1>12. RowsRight'
  BY <1>1, <1>3, <1>8 DEF RowsRight
<1>13. EndsRight'
  BY <1>1, <1>3, <1>4, <1>8 DEF EndsRight, CancelLeavesNoQueue, CancelledIsQuiet,
     RetriedInTimeEnds, JobEnded
<1> QED BY <1>8, <1>10, <1>11, <1>12, <1>13 DEF JobRight

\* The second transaction of retry_failures.
LEMMA RetryRight ==
  ASSUME JobRight, RetryAdds
  PROVE  JobRight'
<1> DEFINE N == {r \in RetriedRows : taskRows[r].state = "absent"}
<1>1. /\ Submitted /\ added = {} /\ lockedBy[JobRow] = NoHolder /\ N # {} /\ added' = N
      /\ inTime' = (IF job.cancel \/ job.state \in JobEnded THEN {} ELSE N)
      /\ taskRows' = [r \in Rows |-> IF r \in N THEN [taskRows[r] EXCEPT !.state = "pending"]
                                     ELSE taskRows[r]]
      /\ UNCHANGED <<request, keyOwner, job, lockedBy, tx>>
  BY DEF RetryAdds
<1>2. N \subseteq Rows /\ \A r \in N : taskRows[r].state = "absent"
  BY JobAssumption
<1> HIDE DEF N
<1>3. NewRows(N)
  BY <1>1, <1>2 DEF NewRows
<1>4. \A b \in Connections : lockedBy[JobRow] # b
  BY <1>1, ConnectionNames
<1>5. /\ taskRows' \in [Rows -> JobTaskRows]
      /\ \A r \in Rows : taskRows'[r].state = IF r \in N THEN "pending" ELSE taskRows[r].state
      /\ \A r \in Rows : taskRows'[r].owner # NoHolder \/ taskRows'[r].late => taskRows'[r].state = "leased"
      /\ \A a \in Connections : TxRight(a)'
      /\ TerminalCountExact'
  BY <1>3, <1>4, NewRowsFacts
<1>6. inTime = {}
  BY <1>1 DEF JobRight, RowsRight
<1>7. JobTyped' /\ KeyRight'
  BY <1>1, <1>5 DEF JobRight, JobTyped, KeyRight, Submitted, OneJobPerKey
<1>8. RowsRight'
  BY <1>1, <1>2, <1>5 DEF RowsRight
<1>9. CancelLeavesNoQueue'
  <2> SUFFICES ASSUME job.cancel, NEW r \in Rows, taskRows'[r].state \in Queued
               PROVE  r \in added' \ inTime'
    BY <1>1, NothingWritten DEF CancelLeavesNoQueue, QueuedRows, InState, Seen
  <2>1. taskRows[r].state \notin Queued
    BY <1>1, PlainView DEF JobRight, EndsRight, CancelLeavesNoQueue
  <2> QED BY <1>1, <1>5, <2>1
<1>10. CancelledIsQuiet'
  <2>1. job.state = "cancelled" => \A r \in Rows : taskRows[r].state # "leased"
    BY PlainView DEF JobRight, EndsRight, CancelledIsQuiet
  <2> QED BY <1>1, <1>5, <2>1, NothingWritten DEF CancelledIsQuiet, InState, Seen
<1>11. RetriedInTimeEnds'
  BY <1>1 DEF RetriedInTimeEnds
<1>12. EndsRight'
  BY <1>1, <1>5, <1>9, <1>10, <1>11 DEF EndsRight, JobRight
<1> QED BY <1>5, <1>7, <1>8, <1>12 DEF JobRight

-------------------------------------------------------------------------------
(* Statements, sweeps and commits *)

\* Whoever has begun has a job to work on.
LEMMA BusyIsSubmitted ==
  ASSUME JobRight, NEW a \in Connections, tx[a].at # "idle" PROVE Submitted
BY DEF JobRight, KeyRight

\* A transaction that has not got the job yet.
LEMMA WaitingCollected ==
  ASSUME JobRight, NEW a \in Connections, tx[a].at \in {"claim", "fenced", "reap"}
  PROVE  /\ tx[a] \in TxRows /\ Collected(a, tx[a], RowsOf(a))
         /\ tx[a].todo = {} /\ DOMAIN tx[a].writes = {} /\ lockedBy[JobRow] # a /\ tx[a].terminal = 0
<1>1. tx[a] \in TxRows /\ TxOk(a, tx[a], RowsOf(a), lockedBy[JobRow] = a)
  BY DEF JobRight, JobTyped, TxRight
<1>2. WaitsWith(tx[a], lockedBy[JobRow] = a) /\ tx[a].due \subseteq RowsOf(a)
      /\ \A r \in tx[a].due : taskRows[r].state = "leased"
  BY <1>1 DEF TxOk
<1>3. EndedWrites(tx[a]) = {}
  BY <1>2 DEF EndedWrites, WaitsWith
<1>4. tx[a].terminal = Cardinality(EndedWrites(tx[a]))
  BY <1>2, <1>3, FS_EmptySet DEF WaitsWith
<1> QED BY <1>1, <1>2, <1>4 DEF Collected, WaitsWith

\* What is collected may be committed.
LEMMA CollectedCommits ==
  ASSUME NEW a \in Connections, NEW t \in TxRows, Collected(a, t, RowsOf(a))
  PROVE  WritesOk(a, t)
BY DEF Collected, WritesOk, RowsOf, Queued, Ended

\* A cancelled job ends with the last lease.
LEMMA EndStateOk ==
  ASSUME JobRight, Submitted, NEW t PROVE EndsOk(t, EndState(t))
<1>1. job.state \in {"pending", "running"} \cup JobEnded /\ (job.state = "cancelled" => job.cancel)
  BY DEF JobRight, JobTyped, JobRows, Submitted, EndsRight
<1> QED BY <1>1 DEF EndsOk, EndState, JobEnded

\* CommitOrGoOn, of a transaction that collects.
LEMMA GoOnRight ==
  ASSUME JobRight, Submitted, NEW a \in Connections, a # "cancel", NEW t \in TxRows,
         Collected(a, t, RowsOf(a)), \A r \in t.todo : Seen(t)[r] \in Queued,
         lockedBy[JobRow] \in {NoHolder, a}, CommitOrGoOn(a, t)
  PROVE  JobRight'
<1>1. CASE t.todo = {} /\ t.due = {}
  <2>1. Commit(a, t, EndState(t))
    BY <1>1 DEF CommitOrGoOn
  <2>2. WritesOk(a, t) /\ EndsOk(t, EndState(t))
    BY CollectedCommits, EndStateOk
  <2> QED BY <2>1, <2>2, CommitRight
<1>2. CASE ~(t.todo = {} /\ t.due = {})
  <2> DEFINE u == [t EXCEPT !.at = "sweep"]
  <2>1. Locked(a, {JobRow}) /\ Statement(a, u)
    BY <1>2 DEF CommitOrGoOn
  <2>2. u \in TxRows
    BY DEF TxRows, TxStages
  <2>3. /\ u.at = "sweep" /\ u.todo = t.todo /\ u.due = t.due /\ u.writes = t.writes
        /\ u.terminal = t.terminal
    BY DEF TxRows
  <2> HIDE DEF u
  <2>4. Collected(a, u, RowsOf(a))
    BY <2>3 DEF Collected, EndedWrites
  <2>5. \A r \in u.todo : Seen(u)[r] \in Queued
    BY <2>3 DEF Seen
  <2>6. RowsOf(a) \cup ({JobRow} \cap Rows) = RowsOf(a)
    BY ConnectionNames
  <2>7. TxOk(a, u, RowsOf(a) \cup ({JobRow} \cap Rows), JobRow \in {JobRow} \/ lockedBy[JobRow] = a)
    BY <2>3, <2>4, <2>5, <2>6 DEF TxOk
  <2> QED BY <2>1, <2>2, <2>7, StatementRight
<1> QED BY <1>1, <1>2

\* One more row of its own in a state of its choice.
LEMMA WritingCollects ==
  ASSUME NEW a \in Connections, NEW t \in TxRows, NEW H \in SUBSET Rows, Collected(a, t, H),
         NEW r \in H, r \notin t.due, taskRows[r].state \in Queued \cup {"leased"},
         NEW s \in Ended \cup Queued, job.cancel => s \in Ended,
         a \in {"cancel", "finalize"} => taskRows[r].state \in Queued /\ s = "cancelled",
         r \notin DOMAIN t.writes \/ (s \in Ended /\ t.writes[r] \notin Ended),
         NEW u \in TxRows, u.writes = Writing(t, r, s).writes, u.due = t.due,
         u.terminal = t.terminal + (IF s \in Ended THEN 1 ELSE 0)
  PROVE  Collected(a, u, H)
<1>1. /\ DOMAIN u.writes = DOMAIN t.writes \cup {r} /\ u.writes[r] = s
      /\ \A q \in DOMAIN t.writes : q # r => u.writes[q] = t.writes[q]
  BY WritingFacts
<1>2. t.terminal = Cardinality(EndedWrites(t)) /\ t.terminal \in Nat
  BY DEF Collected, TxRows
<1>3. u.terminal = Cardinality(EndedWrites(u))
  <2>1. CASE s \in Ended
    <3>1. Cardinality(EndedWrites(u)) = Cardinality(EndedWrites(t)) + 1
      BY <1>1, <2>1, EndingCounts
    <3> QED BY <1>2, <2>1, <3>1
  <2>2. CASE s \notin Ended
    <3>1. EndedWrites(u) = EndedWrites(t)
      BY <1>1, <2>2, RequeueCounts
    <3> QED BY <1>2, <2>2, <3>1
  <2> QED BY <2>1, <2>2
<1> QED BY <1>1, <1>3 DEF Collected

\* _terminalize with _enforce_failure_limit.
LEMMA TerminalizingCollects ==
  ASSUME NEW a \in Connections \ {"cancel", "finalize"}, NEW t \in TxRows, NEW H \in SUBSET Rows,
         Collected(a, t, H), t.todo = {}, job \in JobRows,
         NEW r \in H, r \notin t.due, r \notin DOMAIN t.writes,
         taskRows[r].state \in Queued \cup {"leased"}, NEW s \in {"cancelled", "permanent_failed"}
  PROVE  /\ Terminalizing(t, r, s) \in TxRows /\ Collected(a, Terminalizing(t, r, s), H)
         /\ \A q \in Terminalizing(t, r, s).todo : Seen(Terminalizing(t, r, s))[q] \in Queued
<1> DEFINE w == Writing(t, r, s)
           u == CountedFailure(w)
           v == [w EXCEPT !.terminal = @ + 1]
           x == [u EXCEPT !.todo = QueuedRows(u)]
<1>1. s \in Ended /\ s \in Ended \cup Queued
  BY DEF Ended
<1>2. w \in TxRows /\ w.todo = {} /\ w.due = t.due /\ w.terminal = t.terminal
  BY <1>1, WritingFacts
<1> HIDE DEF w
<1>3. w.terminal \in Nat /\ w.failed \in Nat
  BY <1>2 DEF TxRows
<1>4. u = [w EXCEPT !.terminal = w.terminal + 1, !.failed = w.failed + 1]
  BY DEF CountedFailure
<1>5. v = [w EXCEPT !.terminal = w.terminal + 1]
  OBVIOUS
<1> DEFINE n == w.terminal + 1
           f == w.failed + 1
<1>6. n \in Nat /\ f \in Nat
  BY <1>3
<1> HIDE DEF n, f
<1>7. /\ u = [w EXCEPT !.terminal = n, !.failed = f] /\ v = [w EXCEPT !.terminal = n]
  BY <1>4, <1>5 DEF n, f
<1> HIDE DEF u, v
<1>8. /\ u \in TxRows /\ u.writes = w.writes /\ u.due = w.due /\ u.todo = w.todo /\ u.terminal = n
      /\ v \in TxRows /\ v.writes = w.writes /\ v.due = w.due /\ v.todo = w.todo /\ v.terminal = n
  BY <1>2, <1>6, <1>7 DEF TxRows
<1>9. n = t.terminal + (IF s \in Ended THEN 1 ELSE 0)
  BY <1>1, <1>2 DEF n
<1>10. Collected(a, u, H) /\ Collected(a, v, H)
  <2>1. u.writes = Writing(t, r, s).writes /\ v.writes = Writing(t, r, s).writes
    BY <1>8 DEF w
  <2> QED BY <1>1, <1>2, <1>8, <1>9, <2>1, WritingCollects
<1>11. QueuedRows(u) \subseteq Rows /\ \A q \in QueuedRows(u) : Seen(u)[q] \in Queued
  BY DEF QueuedRows, InState
<1>12. x \in TxRows /\ x.writes = u.writes /\ x.due = u.due /\ x.todo = QueuedRows(u) /\ x.terminal = u.terminal
  BY <1>8, <1>11 DEF TxRows
<1> HIDE DEF x
<1>13. Collected(a, x, H)
  BY <1>10, <1>12 DEF Collected, EndedWrites
<1>14. \A q \in x.todo : Seen(x)[q] \in Queued
  BY <1>11, <1>12 DEF Seen
<1>15. Terminalizing(t, r, s) \in {u, v, x}
  BY DEF Terminalizing, u, v, x, w
<1> QED BY <1>2, <1>8, <1>10, <1>12, <1>13, <1>14, <1>15

-------------------------------------------------------------------------------
(* The first statement of each transaction *)

\* A transaction begins.
LEMMA BeginFacts ==
  ASSUME NEW at \in TxStages, NEW late \in BOOLEAN
  PROVE  /\ Begin(at, late) \in TxRows /\ Begin(at, late).at = at
         /\ Begin(at, late).todo = {} /\ Begin(at, late).due = {}
         /\ Begin(at, late).writes = NoTx.writes /\ Begin(at, late).terminal = 0
<1>1. NoTx \in TxRows /\ NoTx.todo = {} /\ NoTx.due = {} /\ NoTx.terminal = 0
  BY NothingWritten DEF NoTx
<1>2. Begin(at, late) = [NoTx EXCEPT !.at = at, !.expired = late]
  BY DEF Begin
<1> HIDE DEF NoTx
<1> QED BY <1>1, <1>2 DEF TxRows

\* Who is idle holds nothing.
LEMMA IdleHoldsNothing ==
  ASSUME JobRight, NEW a \in Connections, tx[a].at = "idle"
  PROVE  RowsOf(a) = {} /\ lockedBy[JobRow] # a
BY DEF JobRight, TxRight, TxOk

\* claim_task and the calls of a lease's holder lock the task first.
LEMMA OneRowLocked ==
  ASSUME JobRight, NEW a \in Crawlers, NEW r \in Rows, tx[a].at = "idle", LockFree(r),
         NEW at \in {"claim", "fenced"}, NEW late \in BOOLEAN,
         at = "claim" => taskRows[r].state \in Queued,
         at = "fenced" => taskRows[r].state = "leased",
         Locked(a, {r}), Statement(a, [Begin(at, late) EXCEPT !.row = r])
  PROVE  JobRight'
<1> DEFINE b == Begin(at, late)
           t == [b EXCEPT !.row = r]
<1>1. a \in Connections /\ Submitted
  BY ConnectionNames DEF JobRight, KeyRight, Queued
<1>2. /\ b \in TxRows /\ b.at = at /\ b.todo = {} /\ b.due = {}
      /\ b.writes = NoTx.writes /\ b.terminal = 0
  BY BeginFacts DEF TxStages
<1> HIDE DEF b
<1>3. /\ t \in TxRows /\ t.at = at /\ t.row = r /\ t.todo = {} /\ t.due = {}
      /\ t.writes = NoTx.writes /\ t.terminal = 0
  BY <1>2 DEF TxRows
<1>4. Statement(a, t)
  BY DEF b
<1> HIDE DEF t
<1>5. RowsOf(a) \cup ({r} \cap Rows) = {r} /\ lockedBy[JobRow] # a /\ JobRow # r
  BY <1>1, IdleHoldsNothing, ConnectionNames
<1>6. TxOk(a, t, RowsOf(a) \cup ({r} \cap Rows), JobRow \in {r} \/ lockedBy[JobRow] = a)
  BY <1>3, <1>5, NothingWritten DEF TxOk, WaitsWith
<1>7. \A x \in {r} : lockedBy[x] \in {NoHolder, a}
  BY DEF LockFree
<1> QED BY <1>1, <1>3, <1>4, <1>6, <1>7, StatementRight

LEMMA TaskLockedRight ==
  ASSUME JobRight, NEW a \in Crawlers, NEW r \in Rows, ClaimLocks(a, r) \/ LockOwnLease(a, r)
  PROVE  JobRight'
<1>1. CASE ClaimLocks(a, r)
  BY <1>1, OneRowLocked DEF ClaimLocks
<1>2. CASE LockOwnLease(a, r)
  <2>1. PICK late \in {FALSE, job.expired} : Statement(a, [Begin("fenced", late) EXCEPT !.row = r])
    BY <1>2 DEF LockOwnLease
  <2>2. late \in BOOLEAN
    BY DEF JobRight, JobTyped, JobRows
  <2>3. taskRows[r].state = "leased"
    <3>1. taskRows[r].owner = a /\ a # NoHolder
      BY <1>2, ConnectionNames DEF LockOwnLease
    <3> QED BY <3>1 DEF JobRight, RowsRight
  <2> QED BY <1>2, <2>1, <2>2, <2>3, OneRowLocked DEF LockOwnLease
<1> QED BY <1>1, <1>2

\* reap_expired_leases locks the late rows.
LEMMA ReapLocksRight ==
  ASSUME JobRight, ReapLocks
  PROVE  JobRight'
<1> DEFINE late == {r \in Rows : taskRows[r].late /\ LockFree(r)}
           b == Begin("reap", job.expired)
           t == [b EXCEPT !.due = late]
<1>1. tx["reap"].at = "idle" /\ late # {} /\ Locked("reap", late) /\ Statement("reap", t)
  BY DEF ReapLocks
<1>2. late \subseteq Rows /\ (\A r \in late : taskRows[r].state = "leased" /\ lockedBy[r] = NoHolder)
  BY DEF JobRight, RowsRight, LockFree
<1> HIDE DEF late
<1>3. "reap" \in Connections /\ Submitted
  BY <1>1, <1>2, ConnectionNames DEF JobRight, KeyRight, Sweepers
<1>4. /\ b \in TxRows /\ b.at = "reap" /\ b.todo = {}
      /\ b.writes = NoTx.writes /\ b.terminal = 0
  BY BeginFacts DEF TxStages, JobRight, JobTyped, JobRows
<1> HIDE DEF b
<1>5. /\ t \in TxRows /\ t.at = "reap" /\ t.todo = {} /\ t.due = late
      /\ t.writes = NoTx.writes /\ t.terminal = 0
  BY <1>2, <1>4 DEF TxRows
<1> HIDE DEF t
<1>6. RowsOf("reap") \cup (late \cap Rows) = late /\ lockedBy[JobRow] # "reap" /\ JobRow \notin late
  BY <1>1, <1>2, <1>3, IdleHoldsNothing, ConnectionNames
<1>7. TxOk("reap", t, RowsOf("reap") \cup (late \cap Rows), JobRow \in late \/ lockedBy[JobRow] = "reap")
  BY <1>2, <1>5, <1>6, NothingWritten DEF TxOk, WaitsWith
<1> QED BY <1>1, <1>2, <1>3, <1>5, <1>7, StatementRight

\* request_cancel and finalize_jobs lock the job first.
LEMMA JobLockedRight ==
  ASSUME JobRight, Submitted, NEW a \in {"cancel", "finalize"}, tx[a].at = "idle", LockFree(JobRow),
         NEW late \in BOOLEAN, NEW S, S \in {{}, QueuedRows(NoTx)},
         a = "cancel" => S = QueuedRows(NoTx),
         Locked(a, {JobRow}), Statement(a, [Begin("sweep", late) EXCEPT !.todo = S])
  PROVE  JobRight'
<1> DEFINE b == Begin("sweep", late)
           t == [b EXCEPT !.todo = S]
<1>1. a \in Connections
  BY ConnectionNames DEF Sweepers
<1>2. /\ b \in TxRows /\ b.at = "sweep" /\ b.due = {}
      /\ b.writes = NoTx.writes /\ b.terminal = 0
  BY BeginFacts DEF TxStages
<1>3. S \subseteq Rows /\ \A r \in S : taskRows[r].state \in Queued
  BY PlainView
<1> HIDE DEF b
<1>4. /\ t \in TxRows /\ t.at = "sweep" /\ t.todo = S /\ t.due = {}
      /\ t.writes = NoTx.writes /\ t.terminal = 0
  BY <1>2, <1>3 DEF TxRows
<1>5. Statement(a, t)
  BY DEF b
<1> HIDE DEF t
<1>6. RowsOf(a) \cup ({JobRow} \cap Rows) = {}
  BY <1>1, IdleHoldsNothing, ConnectionNames
<1>7. EndedWrites(t) = {} /\ DOMAIN t.writes = {}
  BY <1>4, NothingWritten DEF EndedWrites
<1>8. Collected(a, t, {})
  BY <1>4, <1>7, FS_EmptySet DEF Collected
<1>9. \A r \in t.todo : Seen(t)[r] \in Queued
  BY <1>3, <1>4, <1>7, SeenRows
<1>10. a = "cancel" => \A r \in Rows : taskRows[r].state \in Queued => r \in t.todo \cup DOMAIN t.writes
  BY <1>4, PlainView
<1>11. TxOk(a, t, RowsOf(a) \cup ({JobRow} \cap Rows), JobRow \in {JobRow} \/ lockedBy[JobRow] = a)
  BY <1>4, <1>6, <1>8, <1>9, <1>10 DEF TxOk
<1>12. \A x \in {JobRow} : lockedBy[x] \in {NoHolder, a}
  BY DEF LockFree
<1> QED BY <1>1, <1>4, <1>5, <1>11, <1>12, StatementRight

LEMMA JobFirstRight ==
  ASSUME JobRight, CancelLocks \/ FinalizeLocks
  PROVE  JobRight'
<1>1. CASE CancelLocks
  BY <1>1, JobLockedRight DEF CancelLocks, ToCancel
<1>2. CASE FinalizeLocks
  <2>1. Submitted /\ job.expired \in BOOLEAN
    BY <1>2 DEF FinalizeLocks, Submitted, JobRight, JobTyped, JobRows
  <2> DEFINE S == IF job.expired THEN QueuedRows(NoTx) ELSE {}
  <2>2. S \in {{}, QueuedRows(NoTx)}
    OBVIOUS
  <2>3. /\ tx["finalize"].at = "idle" /\ LockFree(JobRow) /\ Locked("finalize", {JobRow})
        /\ Statement("finalize", [Begin("sweep", job.expired) EXCEPT !.todo = S])
    BY <1>2 DEF FinalizeLocks
  <2> HIDE DEF S
  <2> QED BY <2>1, <2>2, <2>3, JobLockedRight
<1> QED BY <1>1, <1>2

-------------------------------------------------------------------------------
(* Sweeps *)

\* What a sweeping transaction knows.
LEMMA SweepFacts ==
  ASSUME JobRight, NEW a \in Connections, tx[a].at = "sweep"
  PROVE  /\ tx[a] \in TxRows /\ Submitted /\ lockedBy[JobRow] = a /\ RowsOf(a) \subseteq Rows
         /\ Collected(a, tx[a], RowsOf(a)) /\ \A r \in tx[a].todo : Seen(tx[a])[r] \in Queued
         /\ a = "cancel" => \A r \in Rows : taskRows[r].state \in Queued =>
                                r \in tx[a].todo \cup DOMAIN tx[a].writes
<1>1. tx[a] \in TxRows /\ TxOk(a, tx[a], RowsOf(a), lockedBy[JobRow] = a)
  BY DEF JobRight, JobTyped, TxRight
<1> QED BY <1>1, BusyIsSubmitted DEF TxOk, RowsOf

\* One row of an UPDATE: it still waits, whoever had it locked meanwhile.
LEMMA SweepRight ==
  ASSUME JobRight, NEW a \in Connections, NEW r \in Rows, SweepRow(a, r)
  PROVE  JobRight'
<1> DEFINE t == [tx[a] EXCEPT !.todo = @ \ {r}]
           s == IF a \in {"cancel", "finalize"} THEN "cancelled" ELSE "permanent_failed"
           w == Writing(t, r, s)
           u == IF a \in {"cancel", "finalize"}
                THEN [Writing(t, r, "cancelled") EXCEPT !.terminal = @ + 1]
                ELSE CountedFailure(Writing(t, r, "permanent_failed"))
           H == RowsOf(a) \cup {r}
<1>1. /\ tx[a].at = "sweep" /\ r \in tx[a].todo /\ lockedBy[r] \in {NoHolder, a}
      /\ Locked(a, {r}) /\ Statement(a, IF Seen(t)[r] \in Queued THEN u ELSE t)
  BY DEF SweepRow
<1>2. /\ tx[a] \in TxRows /\ Submitted /\ lockedBy[JobRow] = a /\ RowsOf(a) \subseteq Rows
      /\ Collected(a, tx[a], RowsOf(a)) /\ (\A q \in tx[a].todo : Seen(tx[a])[q] \in Queued)
      /\ a = "cancel" => \A q \in Rows : taskRows[q].state \in Queued =>
                             q \in tx[a].todo \cup DOMAIN tx[a].writes
  BY <1>1, SweepFacts
<1>3. /\ t \in TxRows /\ t.at = "sweep" /\ t.todo = tx[a].todo \ {r} /\ t.due = tx[a].due
      /\ t.writes = tx[a].writes /\ t.terminal = tx[a].terminal
  BY <1>1, <1>2 DEF TxRows
<1>4. s \in Ended /\ s \in Ended \cup Queued
  BY DEF Ended
<1>5. u = IF a \in {"cancel", "finalize"} THEN [w EXCEPT !.terminal = @ + 1] ELSE CountedFailure(w)
  OBVIOUS
<1> HIDE DEF t, u
<1>6. Seen(t)[r] \in Queued
  BY <1>1, <1>2, <1>3 DEF Seen
<1>7. Statement(a, u)
  BY <1>1, <1>6
<1>8. H \in SUBSET Rows /\ Collected(a, t, H)
  BY <1>2, <1>3 DEF Collected, EndedWrites
<1>9. r \in DOMAIN t.writes => t.writes[r] \in Queued
  BY <1>6, SeenRows
<1>10. r \notin DOMAIN t.writes => taskRows[r].state \in Queued
  BY <1>6, SeenRows
<1>11. taskRows[r].state \in Queued \cup {"leased"}
  BY <1>8, <1>10 DEF Collected
<1>12. r \notin t.due
  BY <1>8, <1>10 DEF Collected, Queued
<1>13. a \in {"cancel", "finalize"} => taskRows[r].state \in Queued /\ s = "cancelled"
  BY <1>8, <1>10 DEF Collected
<1>14. r \notin DOMAIN t.writes \/ (s \in Ended /\ t.writes[r] \notin Ended)
  BY <1>4, <1>9 DEF Queued, Ended
<1> HIDE DEF s
<1>15. /\ w \in TxRows /\ w.at = t.at /\ w.todo = t.todo /\ w.due = t.due /\ w.terminal = t.terminal
       /\ DOMAIN w.writes = DOMAIN t.writes \cup {r} /\ w.writes[r] = s
       /\ \A q \in DOMAIN t.writes : q # r => w.writes[q] = t.writes[q]
  BY <1>3, <1>4, WritingFacts
<1> HIDE DEF w
<1> DEFINE n == w.terminal + 1
           f == w.failed + 1
<1>16. n \in Nat /\ f \in Nat /\ n = t.terminal + (IF s \in Ended THEN 1 ELSE 0)
  BY <1>4, <1>15 DEF TxRows
<1>17. u = [w EXCEPT !.terminal = n] \/ u = [w EXCEPT !.terminal = n, !.failed = f]
  BY <1>5 DEF CountedFailure
<1> HIDE DEF n, f
<1>18. /\ u \in TxRows /\ u.at = w.at /\ u.todo = w.todo /\ u.due = w.due /\ u.writes = w.writes
       /\ u.terminal = n
  BY <1>15, <1>16, <1>17 DEF TxRows
<1>19. Collected(a, u, H)
  <2>1. u.writes = Writing(t, r, s).writes /\ u.due = t.due
        /\ u.terminal = t.terminal + (IF s \in Ended THEN 1 ELSE 0)
    BY <1>15, <1>16, <1>18 DEF w
  <2>2. r \in H
    OBVIOUS
  <2> HIDE DEF H
  <2> QED BY <1>3, <1>4, <1>8, <1>11, <1>12, <1>13, <1>14, <1>18, <2>1, <2>2, WritingCollects
<1>20. \A q \in u.todo : Seen(u)[q] \in Queued
  <2> SUFFICES ASSUME NEW q \in u.todo PROVE Seen(u)[q] \in Queued
    OBVIOUS
  <2>1. q # r /\ q \in tx[a].todo /\ q \in Rows
    BY <1>2, <1>3, <1>15, <1>18 DEF TxRows
  <2>2. q \in DOMAIN u.writes <=> q \in DOMAIN tx[a].writes
    BY <1>3, <1>15, <1>18, <2>1
  <2>3. q \in DOMAIN u.writes => u.writes[q] = tx[a].writes[q]
    BY <1>3, <1>15, <1>18, <2>1, <2>2
  <2> QED BY <1>2, <2>1, <2>2, <2>3, SeenRows
<1>21. a = "cancel" => \A q \in Rows : taskRows[q].state \in Queued => q \in u.todo \cup DOMAIN u.writes
  BY <1>2, <1>3, <1>15, <1>18
<1>22. RowsOf(a) \cup ({r} \cap Rows) = H
  OBVIOUS
<1>23. TxOk(a, u, RowsOf(a) \cup ({r} \cap Rows), JobRow \in {r} \/ lockedBy[JobRow] = a)
  <2> HIDE DEF H
  <2> QED BY <1>2, <1>3, <1>15, <1>18, <1>19, <1>20, <1>21, <1>22 DEF TxOk
<1>24. \A x \in {r} : lockedBy[x] \in {NoHolder, a}
  BY <1>1
<1> QED BY <1>1, <1>2, <1>7, <1>18, <1>23, <1>24, StatementRight

\* The sweeps of claims, workers, reaper and finalizer commit.
LEMMA SweepCommitsRight ==
  ASSUME JobRight, (\E a \in Connections : DrainCommits(a)) \/ FinalizeCommits
  PROVE  JobRight'
<1>1. ASSUME NEW a \in Connections, DrainCommits(a) PROVE JobRight'
  <2>1. tx[a].at = "sweep" /\ Commit(a, tx[a], EndState(tx[a]))
    BY <1>1 DEF DrainCommits
  <2>2. /\ tx[a] \in TxRows /\ Submitted /\ lockedBy[JobRow] = a
        /\ Collected(a, tx[a], RowsOf(a))
    BY <2>1, SweepFacts
  <2>3. WritesOk(a, tx[a]) /\ EndsOk(tx[a], EndState(tx[a]))
    BY <2>2, CollectedCommits, EndStateOk
  <2> QED BY <2>1, <2>2, <2>3, CommitRight
<1>2. CASE FinalizeCommits
  <2> DEFINE a == "finalize"
  <2>1. tx[a].at = "sweep" /\ Commit(a, tx[a], FinalizeOutcome(tx[a])) /\ a \in Connections
    BY <1>2, ConnectionNames DEF FinalizeCommits, Sweepers
  <2>2. /\ tx[a] \in TxRows /\ Submitted /\ lockedBy[JobRow] = a
        /\ Collected(a, tx[a], RowsOf(a))
    BY <2>1, SweepFacts
  <2>3. WritesOk(a, tx[a])
    BY <2>1, <2>2, CollectedCommits
  <2>4. job.state \in {"pending", "running"} \cup JobEnded /\ (job.state = "cancelled" => job.cancel)
    BY <2>2 DEF JobRight, JobTyped, JobRows, Submitted, EndsRight
  <2>5. UnendedRows(tx[a]) = {} => InState(tx[a], {"leased"}) = {}
    BY DEF UnendedRows, InState
  <2>6. EndsOk(tx[a], FinalizeOutcome(tx[a]))
    BY <2>4, <2>5 DEF EndsOk, FinalizeOutcome, FinishedOutcome, JobEnded
  <2> HIDE DEF a
  <2> QED BY <2>1, <2>2, <2>3, <2>6, CommitRight
<1> QED BY <1>1, <1>2

\* request_cancel commits: what it had queued before it is cancelled.
LEMMA CancelRight ==
  ASSUME JobRight, CancelCommits
  PROVE  JobRight'
<1> DEFINE t == tx["cancel"]
<1>1. /\ t.at = "sweep" /\ t.todo = {} /\ EndTx("cancel") /\ Others /\ "cancel" \in Connections
      /\ taskRows' = [r \in Rows |-> IF r \in DOMAIN t.writes THEN [taskRows[r] EXCEPT !.state = "cancelled"]
                                     ELSE taskRows[r]]
      /\ job' = [job EXCEPT !.cancel = TRUE, !.terminal = @ + t.terminal,
                    !.state = IF InState(t, {"leased"}) = {} THEN "cancelled" ELSE @]
  BY ConnectionNames DEF CancelCommits, Sweepers
<1>2. /\ t \in TxRows /\ Submitted /\ lockedBy[JobRow] = "cancel"
      /\ Collected("cancel", t, RowsOf("cancel"))
      /\ \A r \in Rows : taskRows[r].state \in Queued => r \in DOMAIN t.writes
  BY <1>1, SweepFacts
<1> HIDE DEF t
<1>3. \A r \in DOMAIN t.writes : r \in Rows /\ taskRows[r].state \in Queued /\ t.writes[r] = "cancelled"
  BY <1>2, WriteFacts DEF Collected
<1>4. /\ tx \in [Connections -> TxRows] /\ taskRows \in [Rows -> JobTaskRows] /\ job \in JobRows
      /\ lockedBy \in [Rows \cup {JobRow} -> Connections \cup {NoHolder}]
  BY DEF JobRight, JobTyped
<1>5. /\ tx' = [tx EXCEPT !["cancel"] = NoTx]
      /\ lockedBy' = [x \in Rows \cup {JobRow} |->
                         IF lockedBy[x] = "cancel" THEN NoHolder ELSE lockedBy[x]]
      /\ UNCHANGED <<request, keyOwner, added, inTime>>
  BY <1>1, <1>4 DEF EndTx, Others
<1>6. tx' \in [Connections -> TxRows]
      /\ lockedBy' \in [Rows \cup {JobRow} -> Connections \cup {NoHolder}]
  BY <1>4, <1>5, NothingWritten
<1>7. ASSUME NEW r \in Rows, r \in DOMAIN t.writes
      PROVE  /\ taskRows'[r] \in JobTaskRows /\ taskRows'[r].state = "cancelled"
             /\ taskRows'[r].owner = taskRows[r].owner /\ taskRows'[r].late = taskRows[r].late
  <2>1. taskRows[r] \in JobTaskRows /\ taskRows'[r] = [taskRows[r] EXCEPT !.state = "cancelled"]
    BY <1>1, <1>4, <1>7
  <2> QED BY <2>1 DEF JobTaskRows, TxStates, Ended
<1>8. \A r \in Rows : r \notin DOMAIN t.writes => taskRows'[r] = taskRows[r]
  BY <1>1
<1>9. taskRows' \in [Rows -> JobTaskRows]
  <2>1. \A r \in Rows : taskRows'[r] \in JobTaskRows
    BY <1>4, <1>7, <1>8
  <2>2. taskRows' = [r \in Rows |-> taskRows'[r]]
    BY <1>1
  <2> QED BY <2>1, <2>2
<1>10. \A r \in Rows : taskRows'[r].state = Seen(t)[r]
  BY <1>3, <1>7, <1>8, SeenRows
<1> DEFINE n == job.terminal + t.terminal
           e == IF InState(t, {"leased"}) = {} THEN "cancelled" ELSE job.state
<1>11. /\ n \in Nat /\ e \in {"pending", "running"} \cup JobEnded
       /\ job' = [job EXCEPT !.cancel = TRUE, !.terminal = n, !.state = e]
  BY <1>1, <1>2, <1>4 DEF JobRows, TxRows, Submitted, JobEnded
<1> HIDE DEF n, e
<1>12. /\ job' \in JobRows /\ job'.cancel = TRUE /\ job'.terminal = n /\ job'.state = e /\ job'.id = job.id
  BY <1>4, <1>11 DEF JobRows
<1>13. JobTyped'
  BY <1>5, <1>6, <1>9, <1>12 DEF JobRight, JobTyped
<1>14. KeyRight'
  <2>1. e # "absent"
    BY <1>11 DEF JobEnded
  <2> QED BY <1>2, <1>5, <1>12, <2>1 DEF JobRight, KeyRight, Submitted, OneJobPerKey
<1>15. RowsRight'
  <2>1. \A r \in Rows : taskRows'[r].owner # NoHolder \/ taskRows'[r].late => taskRows'[r].state = "leased"
    BY <1>3, <1>7, <1>8 DEF JobRight, RowsRight, Queued
  <2>2. \A r \in Rows : taskRows'[r].state = "absent" => taskRows[r].state = "absent"
    BY <1>7, <1>8
  <2> QED BY <1>5, <2>1, <2>2 DEF JobRight, RowsRight
<1>16. TxRight("cancel")'
  BY <1>1, <1>4, <1>5, ConnectionNames DEF TxRight, TxOk, RowsOf, NoTx
<1>17. ASSUME NEW b \in Connections, b # "cancel" PROVE TxRight(b)'
  <2>1. tx'[b] = tx[b]
    BY <1>4, <1>5, <1>17
  <2>2. \A x \in Rows \cup {JobRow} : lockedBy'[x] = b <=> lockedBy[x] = b
    BY <1>5, <1>17, ConnectionNames
  <2>3. lockedBy[JobRow] # b /\ \A r \in DOMAIN t.writes : lockedBy[r] # b
    BY <1>2, <1>17 DEF Collected, RowsOf
  <2> QED BY <1>8, <2>1, <2>2, <2>3, OthersRight
<1>18. TerminalCountExact'
  <2>1. WritesOk("cancel", t)
    BY <1>1, <1>2, CollectedCommits
  <2> QED BY <1>1, <1>2, <1>10, <1>12, <2>1, CommittedCount DEF TerminalCountExact, n
<1>19. \A r \in Rows : taskRows'[r].state \notin Queued
  BY <1>2, <1>7, <1>8 DEF Queued
<1>20. CancelLeavesNoQueue'
  BY <1>19, NothingWritten DEF CancelLeavesNoQueue, QueuedRows, InState, Seen
<1>21. e # job.state => \A r \in Rows : taskRows'[r].state # "leased"
  BY <1>10 DEF e, InState
<1>22. CancelledIsQuiet'
  <2>1. job.state = "cancelled" => \A r \in Rows : taskRows[r].state # "leased"
    BY PlainView DEF JobRight, EndsRight, CancelledIsQuiet
  <2>2. e = "cancelled" => \A r \in Rows : taskRows'[r].state # "leased"
    BY <1>7, <1>8, <1>21, <2>1
  <2> QED BY <1>12, <2>2, NothingWritten DEF CancelledIsQuiet, InState, Seen
<1>23. RetriedInTimeEnds'
  <2> SUFFICES ASSUME e \in JobEnded, NEW r \in inTime PROVE taskRows'[r].state \in Ended
    BY <1>5, <1>12 DEF RetriedInTimeEnds
  <2>1. r \in Rows /\ taskRows[r].state # "absent"
    BY DEF JobRight, RowsRight
  <2>2. CASE e = job.state
    <3>1. taskRows[r].state \in Ended
      BY <2>2 DEF JobRight, EndsRight, RetriedInTimeEnds
    <3> QED BY <1>7, <1>8, <2>1, <3>1 DEF Ended
  <2>3. CASE e # job.state
    <3>1. taskRows'[r].state \in TxStates /\ taskRows'[r].state # "absent"
      BY <1>7, <1>8, <1>9, <2>1 DEF JobTaskRows
    <3> QED BY <1>19, <1>21, <2>1, <2>3, <3>1 DEF TxStates
  <2> QED BY <2>2, <2>3
<1>24. EndsRight'
  BY <1>12, <1>18, <1>20, <1>22, <1>23 DEF EndsRight
<1> QED BY <1>13, <1>14, <1>15, <1>16, <1>17, <1>24 DEF JobRight

-------------------------------------------------------------------------------
(* Claims and the calls of a lease's holder *)

\* claim_task leases its task to a job that is still active.
LEMMA ClaimCommitsRight ==
  ASSUME JobRight, NEW a \in Crawlers, ClaimCommits(a)
  PROVE  JobRight'
<1> DEFINE r == tx[a].row
<1>1. tx[a].at = "claim" /\ lockedBy[JobRow] = NoHolder /\ EndTx(a) /\ Others /\ a \in Connections
  BY ConnectionNames DEF ClaimCommits, LockFree
<1>2. CASE ~StillActive(a)
  BY <1>1, <1>2, EndsQuietly DEF ClaimCommits, Others
<1>3. CASE StillActive(a)
  <2>1. /\ taskRows' = [taskRows EXCEPT ![r].state = "leased", ![r].owner = a, ![r].leases = @ + 1]
        /\ job' = [job EXCEPT !.state = IF @ = "pending" THEN "running" ELSE @]
        /\ ~job.cancel
    BY <1>3 DEF ClaimCommits, StillActive
  <2>2. /\ tx \in [Connections -> TxRows] /\ taskRows \in [Rows -> JobTaskRows] /\ job \in JobRows
        /\ lockedBy \in [Rows \cup {JobRow} -> Connections \cup {NoHolder}]
    BY DEF JobRight, JobTyped
  <2>3. r \in Rows /\ lockedBy[r] = a /\ taskRows[r].state \in Queued
    <3>1. tx[a] \in TxRows /\ TxOk(a, tx[a], RowsOf(a), lockedBy[JobRow] = a)
      BY <1>1 DEF JobRight, JobTyped, TxRight
    <3> QED BY <1>1, <3>1 DEF TxOk, TxRows, RowsOf
  <2> HIDE DEF r
  <2>4. /\ tx' = [tx EXCEPT ![a] = NoTx]
        /\ lockedBy' = [x \in Rows \cup {JobRow} |-> IF lockedBy[x] = a THEN NoHolder ELSE lockedBy[x]]
        /\ UNCHANGED <<request, keyOwner, added, inTime>>
    BY <1>1, <2>2 DEF EndTx, Others
  <2>5. tx' \in [Connections -> TxRows]
        /\ lockedBy' \in [Rows \cup {JobRow} -> Connections \cup {NoHolder}]
    BY <2>2, <2>4, NothingWritten
  <2> DEFINE n == taskRows[r].leases + 1
             x == [taskRows[r] EXCEPT !.state = "leased", !.owner = a, !.leases = n]
  <2>6. n \in Nat /\ taskRows' = [taskRows EXCEPT ![r] = x]
    <3>1. n \in Nat
      BY <2>2, <2>3 DEF JobTaskRows
    <3>2. taskRows' = [taskRows EXCEPT ![r] =
             [taskRows[r] EXCEPT !.state = "leased", !.owner = a, !.leases = taskRows[r].leases + 1]]
      BY <2>1, <2>2, <2>3 DEF JobTaskRows
    <3> QED BY <3>1, <3>2
  <2> HIDE DEF n
  <2>7. x \in JobTaskRows /\ x.state = "leased"
    BY <1>1, <2>2, <2>3, <2>6 DEF JobTaskRows, TxStates
  <2> HIDE DEF x
  <2>8. taskRows' \in [Rows -> JobTaskRows] /\ \A q \in Rows : taskRows'[q] = IF q = r THEN x ELSE taskRows[q]
    BY <2>2, <2>6, <2>7
  <2> DEFINE e == IF job.state = "pending" THEN "running" ELSE job.state
  <2>9. job' = [job EXCEPT !.state = e] /\ e \in {"absent", "pending", "running"} \cup JobEnded
    BY <2>1, <2>2 DEF JobRows
  <2>10. (e = "absent" <=> job.state = "absent") /\ (e # job.state => e = "running")
    OBVIOUS
  <2> HIDE DEF e
  <2>11. /\ job' \in JobRows /\ job'.state = e /\ job'.id = job.id /\ job'.cancel = job.cancel
         /\ job'.terminal = job.terminal
    BY <2>2, <2>9 DEF JobRows
  <2>12. JobTyped'
    BY <2>4, <2>5, <2>8, <2>11 DEF JobRight, JobTyped
  <2>13. KeyRight'
    <3>1. Submitted
      BY <1>1, BusyIsSubmitted
    <3> QED BY <2>4, <2>10, <2>11, <3>1 DEF JobRight, KeyRight, Submitted, OneJobPerKey
  <2>14. RowsRight'
    BY <2>4, <2>7, <2>8 DEF JobRight, RowsRight
  <2>15. TxRight(a)'
    BY <1>1, <2>2, <2>4, ConnectionNames DEF TxRight, TxOk, RowsOf, NoTx
  <2>16. ASSUME NEW b \in Connections, b # a PROVE TxRight(b)'
    <3>1. tx'[b] = tx[b]
      BY <2>2, <2>4, <2>16
    <3>2. \A y \in Rows \cup {JobRow} : lockedBy'[y] = b <=> lockedBy[y] = b
      BY <2>4, <2>16, ConnectionNames
    <3>3. lockedBy[JobRow] # b /\ lockedBy[r] # b
      BY <1>1, <2>3, <2>16, ConnectionNames
    <3> QED BY <2>8, <3>1, <3>2, <3>3, OthersRight
  <2>17. TerminalCountExact'
    <3>1. {q \in Rows : taskRows'[q].state \in Ended} = {q \in Rows : taskRows[q].state \in Ended}
      BY <2>3, <2>7, <2>8 DEF Ended, Queued
    <3> QED BY <2>11, <3>1 DEF JobRight, EndsRight, TerminalCountExact
  <2>18. job.state # "cancelled"
    BY <2>1 DEF JobRight, EndsRight
  <2>19. RetriedInTimeEnds'
    <3> SUFFICES ASSUME e \in JobEnded, NEW q \in inTime PROVE taskRows'[q].state \in Ended
      BY <2>4, <2>11 DEF RetriedInTimeEnds
    <3>1. job.state \in JobEnded
      BY <2>10 DEF JobEnded
    <3>2. taskRows[q].state \in Ended /\ q \in Rows
      BY <3>1 DEF JobRight, EndsRight, RetriedInTimeEnds, RowsRight
    <3> QED BY <2>3, <2>8, <3>2 DEF Ended, Queued
  <2>20. EndsRight'
    BY <2>1, <2>10, <2>11, <2>17, <2>18, <2>19 DEF EndsRight, CancelLeavesNoQueue, CancelledIsQuiet
  <2> QED BY <2>12, <2>13, <2>14, <2>15, <2>16, <2>20 DEF JobRight
<1> QED BY <1>2, <1>3

\* The other ends of a claim.
LEMMA ClaimEndsRight ==
  ASSUME JobRight, NEW a \in Crawlers, ClaimYields(a) \/ ClaimDrains(a)
  PROVE  JobRight'
<1>1. CASE ClaimYields(a)
  BY <1>1, EndsQuietly, ConnectionNames DEF ClaimYields, Others
<1>2. CASE ClaimDrains(a)
  <2> DEFINE t == [tx[a] EXCEPT !.todo = QueuedRows(tx[a])]
  <2>1. /\ tx[a].at = "claim" /\ lockedBy[JobRow] = NoHolder /\ a \in Connections /\ a # "cancel"
        /\ CommitOrGoOn(a, t)
    BY <1>2, ConnectionNames DEF ClaimDrains, LockFree, Sweepers
  <2>2. tx[a] \in TxRows /\ Collected(a, tx[a], RowsOf(a))
    BY <2>1, WaitingCollected
  <2>3. QueuedRows(tx[a]) \subseteq Rows /\ \A q \in QueuedRows(tx[a]) : Seen(tx[a])[q] \in Queued
    BY DEF QueuedRows, InState
  <2>4. /\ t \in TxRows /\ t.todo = QueuedRows(tx[a]) /\ t.due = tx[a].due /\ t.writes = tx[a].writes
        /\ t.terminal = tx[a].terminal
    BY <2>2, <2>3 DEF TxRows
  <2> HIDE DEF t
  <2>5. Collected(a, t, RowsOf(a))
    BY <2>2, <2>4 DEF Collected, EndedWrites
  <2>6. \A q \in t.todo : Seen(t)[q] \in Queued
    BY <2>3, <2>4 DEF Seen
  <2> QED BY <2>1, <2>4, <2>5, <2>6, BusyIsSubmitted, GoOnRight
<1> QED BY <1>1, <1>2

\* _reject_inactive_lease, complete_task, retry_task and fail_task.
LEMMA SettleRight ==
  ASSUME JobRight, NEW a \in Crawlers,
         RejectInactive(a) \/ CompleteCommits(a) \/ RetryCommits(a) \/ FailCommits(a)
  PROVE  JobRight'
<1> DEFINE r == tx[a].row
<1>1. /\ a \in Connections /\ a \notin {"cancel", "finalize"} /\ tx[a].at = "fenced"
      /\ lockedBy[JobRow] = NoHolder
  BY ConnectionNames DEF RejectInactive, CompleteCommits, RetryCommits, FailCommits, Fenced,
     LockFree, Sweepers
<1>2. /\ tx[a] \in TxRows /\ Collected(a, tx[a], RowsOf(a))
      /\ tx[a].todo = {} /\ DOMAIN tx[a].writes = {} /\ tx[a].terminal = 0
  BY <1>1, WaitingCollected
<1>3. r \in Rows /\ RowsOf(a) = {r} /\ tx[a].due = {} /\ taskRows[r].state = "leased" /\ lockedBy[r] = a
  <2>1. TxOk(a, tx[a], RowsOf(a), lockedBy[JobRow] = a)
    BY <1>1 DEF JobRight, TxRight
  <2> QED BY <1>1, <1>2, <2>1 DEF TxOk, TxRows, RowsOf
<1>4. Submitted /\ job \in JobRows
  BY <1>1, BusyIsSubmitted DEF JobRight, JobTyped
<1>5. ASSUME NEW s \in {"cancelled", "permanent_failed"}, CommitOrGoOn(a, Terminalizing(tx[a], r, s))
      PROVE  JobRight'
  <2> DEFINE t == Terminalizing(tx[a], r, s)
  <2>1. RowsOf(a) \in SUBSET Rows /\ r \in RowsOf(a) /\ r \notin tx[a].due /\ r \notin DOMAIN tx[a].writes
    BY <1>2, <1>3
  <2> HIDE DEF r
  <2>2. t \in TxRows /\ Collected(a, t, RowsOf(a)) /\ \A q \in t.todo : Seen(t)[q] \in Queued
    BY <1>1, <1>2, <1>3, <1>4, <2>1, TerminalizingCollects
  <2> HIDE DEF t
  <2>3. CommitOrGoOn(a, t)
    BY <1>5 DEF t, r
  <2> QED BY <1>1, <1>4, <2>2, <2>3, GoOnRight
<1>6. CASE RejectInactive(a)
  BY <1>5, <1>6 DEF RejectInactive
<1>7. CASE FailCommits(a)
  BY <1>5, <1>7 DEF FailCommits
<1>8. job.state \in {"pending", "running"} \cup JobEnded /\ (job.state = "cancelled" => job.cancel)
  BY <1>4 DEF JobRight, JobRows, Submitted, EndsRight
<1>9. CASE RetryCommits(a)
  <2> DEFINE t == Writing(tx[a], r, "retry_wait")
  <2>1. Commit(a, t, job.state) /\ ~job.cancel
    BY <1>9 DEF RetryCommits, StillActive
  <2>2. "retry_wait" \in Ended \cup Queued /\ "retry_wait" \notin Ended
    BY DEF Ended, Queued
  <2>3. t \in TxRows /\ t.due = tx[a].due /\ t.terminal = tx[a].terminal /\ tx[a].terminal \in Nat
    BY <1>2, <1>3, <2>2, WritingFacts DEF TxRows
  <2>4. RowsOf(a) \in SUBSET Rows /\ r \in RowsOf(a) /\ r \notin tx[a].due /\ r \notin DOMAIN tx[a].writes
    BY <1>2, <1>3
  <2>5. t.terminal = tx[a].terminal + (IF "retry_wait" \in Ended THEN 1 ELSE 0)
    BY <2>2, <2>3
  <2> DEFINE w == t
  <2>6. w.writes = Writing(tx[a], r, "retry_wait").writes
    OBVIOUS
  <2>7. taskRows[r].state \in Queued \cup {"leased"}
    BY <1>3
  <2> HIDE DEF t, r
  <2>8. Collected(a, t, RowsOf(a))
    BY <1>1, <1>2, <2>1, <2>2, <2>3, <2>4, <2>5, <2>6, <2>7, WritingCollects
  <2>9. WritesOk(a, t) /\ EndsOk(t, job.state)
    BY <1>1, <1>8, <2>3, <2>8, CollectedCommits DEF EndsOk
  <2> QED BY <1>1, <1>4, <2>1, <2>3, <2>9, CommitRight
<1>10. CASE CompleteCommits(a)
  <2>1. ~job.cancel
    BY <1>10 DEF CompleteCommits, StillActive
  <2>2. PICK found \in SUBSET {q \in Rows : taskRows[q].state = "absent"} :
          Commit(a, [tx[a] EXCEPT
                        !.terminal = 1,
                        !.writes = [q \in found \cup {r} |->
                                      IF q \in found THEN "pending" ELSE "succeeded"]], job.state)
    BY <1>10 DEF CompleteCommits
  <2> DEFINE w == [q \in found \cup {r} |-> IF q \in found THEN "pending" ELSE "succeeded"]
             t == [tx[a] EXCEPT !.terminal = 1, !.writes = w]
  <2>3. r \notin found /\ found \cup {r} \in SUBSET Rows
    BY <1>3
  <2>4. /\ w \in [found \cup {r} -> Ended \cup Queued] /\ DOMAIN w = found \cup {r}
        /\ (\A q \in found : w[q] = "pending") /\ w[r] = "succeeded"
    BY <2>3 DEF Ended, Queued
  <2>5. w \in WriteSets
    BY <2>3, <2>4 DEF WriteSets
  <2> HIDE DEF w
  <2>6. t \in TxRows /\ t.writes = w /\ t.terminal = 1
    BY <1>2, <2>5 DEF TxRows
  <2>7. Commit(a, t, job.state)
    BY <2>2 DEF w
  <2> HIDE DEF t
  <2>8. EndedWrites(t) = {r}
    BY <2>3, <2>4, <2>6 DEF EndedWrites, Ended
  <2>9. t.terminal = Cardinality(EndedWrites(t))
    BY <2>6, <2>8, FS_Singleton
  <2>10. WritesOk(a, t)
    BY <1>3, <2>1, <2>4, <2>6, <2>9 DEF WritesOk, Ended
  <2>11. EndsOk(t, job.state)
    BY <1>8 DEF EndsOk
  <2> QED BY <1>1, <1>4, <2>6, <2>7, <2>10, <2>11, CommitRight
<1> QED BY <1>6, <1>7, <1>9, <1>10

-------------------------------------------------------------------------------
(* The reaper, time and aborts *)

\* One row of reap_expired_leases.
LEMMA ReapRight ==
  ASSUME JobRight, NEW r \in Rows, ReapRow(r)
  PROVE  JobRight'
<1> DEFINE t == tx["reap"]
           u == [t EXCEPT !.due = @ \ {r}]
<1>1. PICK spent \in BOOLEAN :
        CommitOrGoOn("reap",
              IF job.cancel THEN Terminalizing(u, r, "cancelled")
              ELSE IF t.expired \/ spent THEN Terminalizing(u, r, "permanent_failed")
                   ELSE Writing(u, r, "retry_wait"))
  BY DEF ReapRow
<1>2. /\ r \in t.due
      /\ (t.at = "reap" /\ LockFree(JobRow)) \/ (t.at = "sweep" /\ t.todo = {})
      /\ "reap" \in Connections \ {"cancel", "finalize"}
  BY ConnectionNames DEF ReapRow, Sweepers
<1>3. /\ t \in TxRows /\ Collected("reap", t, RowsOf("reap")) /\ t.todo = {}
      /\ lockedBy[JobRow] \in {NoHolder, "reap"} /\ r \in t.due
  BY <1>2, WaitingCollected, SweepFacts DEF LockFree, ReapRow
<1>4. Submitted /\ job \in JobRows /\ RowsOf("reap") \in SUBSET Rows
  BY <1>2, BusyIsSubmitted DEF JobRight, JobTyped, RowsOf
<1>5. /\ r \in RowsOf("reap") /\ r \notin DOMAIN t.writes /\ taskRows[r].state = "leased"
  BY <1>3 DEF Collected
<1> HIDE DEF t
<1>6. /\ u \in TxRows /\ u.todo = {} /\ u.due = t.due \ {r} /\ u.writes = t.writes
      /\ u.terminal = t.terminal
  BY <1>3 DEF TxRows
<1> HIDE DEF u
<1>7. Collected("reap", u, RowsOf("reap")) /\ r \notin u.due /\ r \notin DOMAIN u.writes
  BY <1>3, <1>5, <1>6 DEF Collected, EndedWrites
<1>8. ASSUME NEW s \in {"cancelled", "permanent_failed"}, CommitOrGoOn("reap", Terminalizing(u, r, s))
      PROVE  JobRight'
  <2> DEFINE v == Terminalizing(u, r, s)
  <2>1. v \in TxRows /\ Collected("reap", v, RowsOf("reap")) /\ \A q \in v.todo : Seen(v)[q] \in Queued
    BY <1>2, <1>4, <1>5, <1>6, <1>7, TerminalizingCollects
  <2>2. CommitOrGoOn("reap", v)
    BY <1>8
  <2> HIDE DEF v
  <2> QED BY <1>2, <1>3, <1>4, <2>1, <2>2, GoOnRight
<1>9. ASSUME ~job.cancel, CommitOrGoOn("reap", Writing(u, r, "retry_wait"))
      PROVE  JobRight'
  <2> DEFINE v == Writing(u, r, "retry_wait")
  <2>1. "retry_wait" \in Ended \cup Queued /\ "retry_wait" \notin Ended
    BY DEF Ended, Queued
  <2>2. v \in TxRows /\ v.due = u.due /\ v.todo = {} /\ v.terminal = u.terminal /\ u.terminal \in Nat
    BY <1>6, <2>1, WritingFacts DEF TxRows
  <2>3. v.terminal = u.terminal + (IF "retry_wait" \in Ended THEN 1 ELSE 0)
    BY <2>1, <2>2
  <2>4. v.writes = Writing(u, r, "retry_wait").writes
    OBVIOUS
  <2>5. CommitOrGoOn("reap", v)
    BY <1>9
  <2> HIDE DEF v
  <2>6. Collected("reap", v, RowsOf("reap"))
    BY <1>2, <1>4, <1>5, <1>6, <1>7, <1>9, <2>1, <2>2, <2>3, <2>4, WritingCollects
  <2> QED BY <1>2, <1>3, <1>4, <2>2, <2>5, <2>6, GoOnRight
<1> QED BY <1>1, <1>8, <1>9

\* A lease or the deadline runs out; PostgreSQL aborts a transaction.
LEMMA TimeRight ==
  ASSUME JobRight, (\E r \in Rows : LeaseLapses(r)) \/ DeadlineComes
                   \/ (\E a \in Connections : AbortVictim(a))
  PROVE  JobRight'
<1>1. ASSUME NEW r \in Rows, LeaseLapses(r) PROVE JobRight'
  <2>1. /\ taskRows[r].state = "leased" /\ taskRows' = [taskRows EXCEPT ![r].late = TRUE]
        /\ UNCHANGED <<job, lockedBy, tx, request, keyOwner, added, inTime>>
    BY <1>1 DEF LeaseLapses, Others
  <2>2. taskRows \in [Rows -> JobTaskRows] /\ taskRows[r] \in JobTaskRows
    BY DEF JobRight, JobTyped
  <2> DEFINE x == [taskRows[r] EXCEPT !.late = TRUE]
  <2>3. x \in JobTaskRows /\ x.state = taskRows[r].state /\ taskRows' = [taskRows EXCEPT ![r] = x]
    BY <2>1, <2>2 DEF JobTaskRows
  <2> HIDE DEF x
  <2>4. /\ taskRows' \in [Rows -> JobTaskRows]
        /\ \A q \in Rows : taskRows'[q].state = taskRows[q].state /\ (q # r => taskRows'[q] = taskRows[q])
    BY <2>2, <2>3
  <2>5. JobTyped'
    BY <2>1, <2>4 DEF JobRight, JobTyped
  <2>6. KeyRight'
    BY <2>1, <2>4 DEF JobRight, KeyRight, Submitted, OneJobPerKey
  <2>7. RowsRight'
    BY <2>1, <2>4 DEF JobRight, RowsRight
  <2>8. ASSUME NEW b \in Connections PROVE TxRight(b)'
    BY <2>1, <2>4, OthersRight
  <2>9. TerminalCountExact'
    <3>1. {q \in Rows : taskRows'[q].state \in Ended} = {q \in Rows : taskRows[q].state \in Ended}
      BY <2>4
    <3> QED BY <2>1, <3>1 DEF JobRight, EndsRight, TerminalCountExact
  <2>10. EndsRight'
    <3>1. \A t, S : InState(t, S)' = InState(t, S)
      BY <2>1, <2>4 DEF InState, Seen
    <3>2. CancelLeavesNoQueue' /\ CancelledIsQuiet'
      BY <2>1, <3>1 DEF JobRight, EndsRight, CancelLeavesNoQueue, CancelledIsQuiet, QueuedRows
    <3>3. RetriedInTimeEnds'
      BY <2>1, <2>4 DEF JobRight, EndsRight, RetriedInTimeEnds, RowsRight
    <3> QED BY <2>1, <2>9, <3>2, <3>3 DEF JobRight, EndsRight
  <2> QED BY <2>5, <2>6, <2>7, <2>8, <2>10 DEF JobRight
<1>2. CASE DeadlineComes
  <2>1. job' = [job EXCEPT !.expired = TRUE] /\ job \in JobRows
        /\ UNCHANGED <<taskRows, lockedBy, tx, request, keyOwner, added, inTime>>
    BY <1>2 DEF DeadlineComes, Others, JobRight, JobTyped
  <2>2. /\ job' \in JobRows /\ job'.state = job.state /\ job'.id = job.id /\ job'.cancel = job.cancel
        /\ job'.terminal = job.terminal
    BY <2>1 DEF JobRows
  <2>3. JobTyped' /\ KeyRight' /\ RowsRight'
    BY <2>1, <2>2 DEF JobRight, JobTyped, KeyRight, Submitted, OneJobPerKey, RowsRight
  <2>4. ASSUME NEW b \in Connections PROVE TxRight(b)'
    BY <2>1, <2>2, OthersRight
  <2>5. EndsRight'
    BY <2>1, <2>2 DEF JobRight, EndsRight, TerminalCountExact, CancelLeavesNoQueue,
       CancelledIsQuiet, RetriedInTimeEnds, QueuedRows, InState, Seen
  <2> QED BY <2>3, <2>4, <2>5 DEF JobRight
<1>3. ASSUME NEW a \in Connections, AbortVictim(a) PROVE JobRight'
  BY <1>3, EndsQuietly DEF AbortVictim
<1> QED BY <1>1, <1>2, <1>3

\* Every statement of every transaction keeps the invariant.
LEMMA JobStep == JobRight /\ [JobTxNext]_jobTxVars => JobRight'
<1> SUFFICES ASSUME JobRight, [JobTxNext]_jobTxVars PROVE JobRight'
  OBVIOUS
<1>1. CASE UNCHANGED jobTxVars
  <2>1. JobTyped' /\ KeyRight'
    BY <1>1 DEF jobTxVars, JobRight, JobTyped, KeyRight, Submitted, OneJobPerKey
  <2> QED BY <1>1, <2>1, CrawlStands DEF jobTxVars, JobRight
<1>2. CASE JobTxNext
  BY <1>2, KeyRightStays, CommitJobRight, RetryRight, TaskLockedRight, ClaimCommitsRight,
     ClaimEndsRight, SettleRight, SweepRight, SweepCommitsRight, ReapLocksRight, ReapRight,
     JobFirstRight, CancelRight, TimeRight DEF JobTxNext
<1> QED BY <1>1, <1>2

\* Who settles a page never stands in the way of a sweep: what it has locked is
\* leased, and what the sweep is about to visit waits.
LEMMA SettlersStandClear == JobRight => SettlingNeverDeadlocks
<1> SUFFICES ASSUME JobRight, NEW a \in Connections, NEW b \in Connections, Deadlocked(a, b),
                    tx[a].at # "claim"
             PROVE  FALSE
  BY DEF SettlingNeverDeadlocks
<1>1. tx[a].at \in {"fenced", "reap"} /\ lockedBy[JobRow] = b
  BY DEF Deadlocked, WaitsForJob
<1>2. PICK r \in tx[b].todo : lockedBy[r] = a
  BY DEF Deadlocked
<1>3. /\ tx[a] \in TxRows /\ TxOk(a, tx[a], RowsOf(a), lockedBy[JobRow] = a)
      /\ tx[b] \in TxRows /\ TxOk(b, tx[b], RowsOf(b), lockedBy[JobRow] = b)
  BY DEF JobRight, JobTyped, TxRight
<1>4. a # b
  BY <1>1, <1>3 DEF TxOk, WaitsWith
<1>5. tx[b].at = "sweep"
  BY <1>1, <1>3 DEF TxOk, WaitsWith, TxRows, TxStages
<1>6. r \in Rows /\ Seen(tx[b])[r] \in Queued /\ r \notin DOMAIN tx[b].writes
  BY <1>2, <1>3, <1>4, <1>5 DEF TxOk, TxRows, Collected, RowsOf
<1>7. taskRows[r].state \in Queued
  BY <1>6, SeenRows
<1>8. taskRows[r].state = "leased"
  BY <1>1, <1>2, <1>3, <1>6 DEF TxOk, RowsOf
<1> QED BY <1>7, <1>8 DEF Queued

\* The repository's transactions on one job, statement by statement: one job for
\* an idempotency key, a terminal count that is exact at every commit, a
\* cancellation that leaves nothing queued but what a late retry_failures adds
\* and nobody working, no deadlock of those that settle a page, and retried rows
\* that end with their job.
THEOREM TransactionsAreRight == EdgeSpec => []TransactionsInv
<1>1. EdgeInit => JobRight
  BY JobStart DEF EdgeInit
<1>2. JobRight /\ [EdgeNext]_edgeVars => JobRight'
  BY JobStep, EdgeParts
<1>3. JobRight => JobTxTypeOK
  BY DEF JobRight, JobTyped, JobRows, JobTaskRows, TxStates, JobTxTypeOK
<1>4. JobRight => TransactionsInv
  BY <1>3, SettlersStandClear DEF JobRight, KeyRight, EndsRight, TransactionsInv
<1> QED BY <1>1, <1>2, <1>4, PTL DEF EdgeSpec
===============================================================================
