----------------------------- MODULE ControlTunnel ----------------------------
(***************************************************************************)
(* The relay between a human and an owned browser session                  *)
(* (app/acquisition/owned_session.py).  A control client exchanges its     *)
(* token for a bridge and opens a web socket with it; its actions go to    *)
(* the outbound socket of a remote worker and the answers come back, or    *)
(* run on the context itself when the session is local.  Sockets drop and  *)
(* reconnect at any time, several clients may drive one session.           *)
(***************************************************************************)
EXTENDS Naturals, Sequences, SequencesExt, FiniteSets

CONSTANTS
    RemoteSession, LocalSession,    \* one live session of each kind
    Clients,        \* control web sockets
    Sockets,        \* web sockets of the remote worker
    NoSocket, NoClient,
    BridgeCap,      \* 1024 in the code
    ShotBudget,     \* artifact_budget_bytes, in units
    ShotSizes,
    MaxBridges, MaxRequests     \* bounds: bridges issued, requests sent

ASSUME ControlAssumption ==
    /\ RemoteSession # LocalSession /\ NoSocket \notin Sockets /\ NoClient \notin Clients
    /\ ShotSizes \subseteq Nat /\ {ShotBudget, MaxBridges, MaxRequests} \subseteq Nat
    /\ BridgeCap \in Nat \ {0}

VARIABLES
    bridges,    \* _bridges, in order of insertion
    bridgeCount,    \* bridges issued so far
    opened,     \* control connections accepted: bridge and session
    client,     \* per client: session, where it is, its request, its answer
    workers,    \* _workers[RemoteSession]
    sock,       \* sockets: "new", "up" or "down"
    pending,    \* _pending: request, socket and client waiting for it
    sent,       \* requests sent so far
    frames,     \* messages under way between core and worker
    ctx         \* the local OwnedSessionContext

controlVars == <<bridges, bridgeCount, opened, client, workers, sock, pending, sent, frames, ctx>>

Sessions == {RemoteSession, LocalSession}
Away == [session |-> RemoteSession, at |-> "away", request |-> 0, answer |-> 0]

NoShot == [step |-> "idle", size |-> 0]

ControlInit ==
    /\ bridges = <<>> /\ bridgeCount = 0 /\ opened = {}
    /\ client = [c \in Clients |-> Away]
    /\ workers = NoSocket /\ sock = [k \in Sockets |-> "new"]
    /\ pending = {} /\ sent = 0 /\ frames = {}
    /\ ctx = [closed |-> FALSE, releases |-> 0, lock |-> NoClient,
              shot |-> [c \in Clients |-> NoShot], left |-> ShotBudget, stored |-> 0]

BridgeState == <<bridges, bridgeCount, opened>>
RelayState == <<workers, sock, pending, sent, frames>>
ClientIs(c, v) == client' = [client EXCEPT ![c] = v]
Leaves(c) == ClientIs(c, [client[c] EXCEPT !.at = "gone"])

-------------------------------------------------------------------------------
(* Bridges *)

BridgesFull == Len(bridges) >= BridgeCap

(* exchange_control: at the cap the oldest bridge makes room. *)
ExchangeControl(s) ==
    /\ bridgeCount < MaxBridges
    /\ bridgeCount' = bridgeCount + 1
    /\ bridges' = Append(IF BridgesFull THEN Tail(bridges) ELSE bridges,
                         [id |-> bridgeCount + 1, session |-> s])
    /\ UNCHANGED <<opened, client, ctx>> /\ UNCHANGED RelayState

ExpireBridge ==
    /\ bridges # <<>>
    /\ bridges' = Tail(bridges)
    /\ UNCHANGED <<bridgeCount, opened, client, ctx>> /\ UNCHANGED RelayState

Entries(id) == {i \in DOMAIN bridges : bridges[i].id = id}
(* The pop of a dictionary: the entry of this bridge, if there is one. *)
Without(id) ==
    IF Entries(id) = {} THEN bridges ELSE RemoveAt(bridges, CHOOSE i \in Entries(id) : TRUE)
Known(id, s) == \E i \in DOMAIN bridges : bridges[i] = [id |-> id, session |-> s]

(* consume_bridge takes the bridge out whether or not it is for the session *)
(* it is presented for; a client that never came may present any of them.   *)
OpenControl(c, id, s) ==
    /\ client[c].at = "away" /\ id \in 1 .. bridgeCount
    /\ bridges' = Without(id)
    /\ IF Known(id, s)
       THEN /\ ClientIs(c, [Away EXCEPT !.session = s, !.at = "open"])
            /\ opened' = opened \cup {[client |-> c, bridge |-> id, session |-> s]}
       ELSE Leaves(c) /\ UNCHANGED opened
    /\ UNCHANGED <<bridgeCount, ctx>> /\ UNCHANGED RelayState

-------------------------------------------------------------------------------
(* The remote worker's socket *)

(* worker(): a new socket replaces the one that was there. *)
ConnectWorker(k) ==
    /\ sock[k] = "new"
    /\ sock' = [sock EXCEPT ![k] = "up"]
    /\ workers' = k
    /\ UNCHANGED <<client, pending, sent, frames, ctx>> /\ UNCHANGED BridgeState

(* _drop_pending: whoever waits for an answer over this socket is told. *)
DroppedWith(k) == {p \in pending : p.socket = k}

DropSocket(k) ==
    /\ sock[k] = "up"
    /\ sock' = [sock EXCEPT ![k] = "down"]
    /\ workers' = IF workers = k THEN NoSocket ELSE workers
    /\ pending' = pending \ DroppedWith(k)
    /\ frames' = {m \in frames : m.socket # k}
    /\ client' = [c \in Clients |-> IF \E p \in DroppedWith(k) : p.client = c
                                    THEN [client[c] EXCEPT !.at = "gone"] ELSE client[c]]
    /\ UNCHANGED <<sent, ctx>> /\ UNCHANGED BridgeState

(* control(): one request at a time per client, to the socket of the moment. *)
SendAction(c) ==
    /\ client[c].at = "open" /\ client[c].session = RemoteSession
    /\ workers # NoSocket /\ sent < MaxRequests
    /\ sent' = sent + 1
    /\ pending' = pending \cup {[id |-> sent + 1, socket |-> workers, client |-> c]}
    /\ frames' = frames \cup {[to |-> "worker", id |-> sent + 1, socket |-> workers]}
    /\ ClientIs(c, [client[c] EXCEPT !.at = "waiting", !.request = sent + 1, !.answer = 0])
    /\ UNCHANGED <<workers, sock, ctx>> /\ UNCHANGED BridgeState

(* _serve_remote: the worker executes the action and answers it. *)
ServeRemote(m) ==
    /\ m \in frames /\ m.to = "worker"
    /\ frames' = (frames \ {m}) \cup {[m EXCEPT !.to = "core"]}
    /\ UNCHANGED <<client, workers, sock, pending, sent, ctx>> /\ UNCHANGED BridgeState

AwaitedAll(m) == {p \in pending : p.socket = m.socket}
Awaited(m) == {p \in pending : p.id = m.id}

(* worker(): the future of the request is resolved if it was sent here. *)
RelayAnswer(m) ==
    /\ m \in frames /\ m.to = "core"
    /\ frames' = frames \ {m}
    /\ pending' = pending \ Awaited(m)
    /\ client' = [c \in Clients |->
            IF \E p \in Awaited(m) : p.client = c /\ p.socket = m.socket
            THEN [client[c] EXCEPT !.at = "open", !.answer = m.id] ELSE client[c]]
    /\ UNCHANGED <<workers, sock, sent, ctx>> /\ UNCHANGED BridgeState

(* The deadline of the action, or the client is gone: the finally clause *)
(* takes the request out.                                                *)
GiveUp(c) ==
    /\ client[c].at = "waiting"
    /\ pending' = {p \in pending : p.id # client[c].request}
    /\ Leaves(c)
    /\ UNCHANGED <<workers, sock, sent, frames, ctx>> /\ UNCHANGED BridgeState

-------------------------------------------------------------------------------
(* The local context: actions under the action lock, close under its own *)

OnContext(c) ==
    client[c].at = "open" /\ client[c].session = LocalSession /\ ctx.shot[c] = NoShot
Unlocked(x, c) == [x EXCEPT !.lock = NoClient, !.shot[c] = NoShot]

(* execute: take the lock and check; an exception ends the connection. *)
LockHeld == ctx.lock # NoClient

BeginShot(c) ==
    /\ OnContext(c) /\ ~LockHeld
    /\ IF ctx.closed THEN Leaves(c) /\ UNCHANGED ctx
       ELSE ctx' = [ctx EXCEPT !.lock = c, !.shot[c].step = "shoot"] /\ UNCHANGED client
    /\ UNCHANGED BridgeState /\ UNCHANGED RelayState

(* The picture is taken and measured against what is left. *)
TakeShot(c) ==
    /\ ctx.shot[c].step = "shoot"
    /\ \E n \in ShotSizes :
         IF ctx.closed \/ n > ctx.left
         THEN ctx' = Unlocked(ctx, c) /\ Leaves(c)
         ELSE ctx' = [ctx EXCEPT !.shot[c] = [step |-> "store", size |-> n]] /\ UNCHANGED client
    /\ UNCHANGED BridgeState /\ UNCHANGED RelayState

StoreShot(c) ==
    /\ ctx.shot[c].step = "store"
    /\ ctx' = Unlocked([ctx EXCEPT !.left = @ - ctx.shot[c].size,
                                   !.stored = @ + ctx.shot[c].size], c)
    /\ UNCHANGED client /\ UNCHANGED BridgeState /\ UNCHANGED RelayState

(* close: once, by whoever comes first. *)
CloseOf(x) == IF x.closed THEN x ELSE [x EXCEPT !.closed = TRUE, !.releases = @ + 1]

(* The runner's loop ends: resume has read the page, the session is over, *)
(* or the process stops.  Nothing of this waits for an action under way   *)
(* but resume itself.                                                     *)
EndLoop ==
    /\ ctx' = CloseOf(ctx) /\ ctx' # ctx
    /\ UNCHANGED client /\ UNCHANGED BridgeState /\ UNCHANGED RelayState

ControlNext ==
    \/ \E s \in Sessions : ExchangeControl(s)
    \/ ExpireBridge \/ EndLoop
    \/ \E c \in Clients :
        \/ SendAction(c) \/ GiveUp(c) \/ BeginShot(c) \/ TakeShot(c) \/ StoreShot(c)
        \/ \E id \in 1 .. MaxBridges, s \in Sessions : OpenControl(c, id, s)
    \/ \E k \in Sockets : ConnectWorker(k) \/ DropSocket(k)
    \/ \E m \in frames : ServeRemote(m) \/ RelayAnswer(m)

-------------------------------------------------------------------------------
(* Properties *)

(* Bridges stay under the cap, clients and sockets are where they can be. *)
ControlTypeOK ==
    /\ Len(bridges) <= BridgeCap /\ sent \in 0 .. MaxRequests
    /\ \A c \in Clients : client[c].at \in {"away", "open", "waiting", "gone"}
    /\ workers \in Sockets \cup {NoSocket}

(* A bridge opens at most one connection, however often and for whichever *)
(* session it is presented.                                               *)
BridgeOpensOnce ==
    \A o, p \in opened : o.bridge = p.bridge => o = p

(* The answer a client gets is the answer to its own request, although two *)
(* clients, two sockets and late answers share the session.                *)
AnswersAreOwn ==
    \A c \in Clients : client[c].answer # 0 => client[c].answer = client[c].request

(* A client waits only for an answer that can still come: its request is    *)
(* registered, over a socket that is up.                                    *)
NobodyWaitsForTheDead ==
    \A c \in Clients : client[c].at = "waiting" =>
        \E p \in pending : p.client = c /\ p.id = client[c].request /\ sock[p.socket] = "up"

(* The pictures of a session stay within its byte budget, although size and *)
(* budget are compared before the upload and charged after it.              *)
ShotsWithinBudget == ctx.stored + ctx.left = ShotBudget /\ ctx.stored <= ShotBudget

(* The browser context is given back once, whoever closes it. *)
ReleasedOnce == ctx.releases <= 1
===============================================================================
