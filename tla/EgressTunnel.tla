----------------------------- MODULE EgressTunnel -----------------------------
(***************************************************************************)
(* One connection through an owned egress node: the browser, the worker's  *)
(* MtlsConnectBridge (app/acquisition/proxy.py), the EgressAgent           *)
(* (app/egress_agent.py) and the site.  The node checks the request,       *)
(* resolves the host once, connects to the address it checked and says     *)
(* which one that was; the bridge has the address attested before the      *)
(* browser sees anything; two pumps then share one byte budget.            *)
(***************************************************************************)
EXTENDS Naturals, Sequences, SequencesExt

CONSTANTS
    Requests,       \* CONNECT requests, as records of what parse_connect looks at
    AllowedPorts,
    PublicIps, PrivateIps, NoIp,
    Ceiling,        \* max_tunnel_bytes
    Chunk,          \* TUNNEL_BUFFER_BYTES
    MaxReads        \* bound: reads of each pump

ASSUME TunnelAssumption ==
    /\ {Ceiling, Chunk, MaxReads} \subseteq Nat \ {0}
    /\ NoIp \notin PublicIps \cup PrivateIps /\ PublicIps \cap PrivateIps = {}

VARIABLES
    bridge,     \* the bridge's handler
    agent,      \* the agent's handler
    answers,    \* what the resolver returned
    dialled,    \* the address the agent connected to
    told,       \* X-CrawlTrove-Connected-IP as the bridge read it
    attested,   \* record_connected_ip accepted that address
    used,       \* _ByteBudget.used
    pump,       \* the agent's pumps: where they are, what they carry
    reads,      \* reads of each pump
    relayed,    \* bytes the agent relayed in each direction
    seen        \* bytes that passed the bridge in each direction

tunnelVars == <<bridge, agent, answers, dialled, told, attested, used, pump, reads, relayed, seen>>

Directions == {"up", "down"}
Still == [at |-> "off", size |-> 0, allowed |-> 0]

TunnelInit ==
    /\ bridge = "request" /\ agent = "idle"
    /\ answers = <<>> /\ dialled = NoIp /\ told = NoIp /\ attested = FALSE
    /\ used = 0
    /\ pump = [d \in Directions |-> Still]
    /\ reads = [d \in Directions |-> 0]
    /\ relayed = [d \in Directions |-> 0] /\ seen = [d \in Directions |-> 0]

(* parse_connect: CONNECT only, an allowed port, exactly one Host header and *)
(* it names the authority, no forwarding headers and no body.                *)
Acceptable(r) ==
    /\ r.method = "CONNECT" /\ r.port \in AllowedPorts
    /\ r.hosts = <<r.authority>>
    /\ ~r.forwarded /\ ~r.body

(* validate_addresses: one answer that is not public rejects them all. *)
Validated(addresses) == addresses # <<>> /\ \A i \in DOMAIN addresses : addresses[i] \in PublicIps

Refuse == agent' = "closed" /\ bridge' = "closed"
Quiet == UNCHANGED <<used, pump, reads, relayed, seen>>

(* The bridge checks the browser's credentials and forwards the request. *)
ForwardConnect ==
    /\ bridge = "request"
    /\ \E r \in Requests :
         IF Acceptable(r) THEN bridge' = "upstream" /\ agent' = "resolve" ELSE Refuse
    /\ UNCHANGED <<answers, dialled, told, attested>> /\ Quiet

(* validate_connect_target: the resolver's answer. *)
ResolveTarget ==
    /\ agent = "resolve"
    /\ answers' \in SeqOf(PublicIps \cup PrivateIps, 2)
    /\ IF Validated(answers') THEN agent' = "dial" /\ UNCHANGED bridge ELSE Refuse
    /\ UNCHANGED <<dialled, told, attested>> /\ Quiet

(* open_connection to the first checked address, not to the name. *)
DialPinned ==
    /\ agent = "dial"
    /\ \/ /\ dialled' = answers[1] /\ told' = answers[1]
          /\ agent' = "relay" /\ bridge' = "attest"
          /\ pump' = [d \in Directions |-> [Still EXCEPT !.at = "read"]]
       \/ Refuse /\ UNCHANGED <<dialled, told, pump>>
    /\ UNCHANGED <<answers, attested, used, reads, relayed, seen>>

(* The bridge checks the address it was told, and asks the pool, which may *)
(* say no: only then is the browser answered and the pumps start.          *)

Attest ==
    /\ bridge = "attest"
    /\ \E accepted \in BOOLEAN : attested' = (accepted /\ told \in PublicIps)
    /\ bridge' = IF attested' THEN "open" ELSE "closed"
    /\ UNCHANGED <<agent, answers, dialled, told>> /\ Quiet

-------------------------------------------------------------------------------
(* _pump: read with a timeout, take from the budget, write *)

PumpAt(d, p) == pump' = [pump EXCEPT ![d] = p]
Relaying == UNCHANGED <<bridge, agent, answers, dialled, told, attested>>

(* Bytes of the browser reach the agent only through an open bridge. *)
CanRead(d) == d = "down" \/ bridge = "open"

PumpRead(d) ==
    /\ agent = "relay" /\ pump[d].at = "read"
    /\ \/ used >= Ceiling /\ PumpAt(d, Still) /\ UNCHANGED reads
       \/ /\ used < Ceiling /\ CanRead(d) /\ reads[d] < MaxReads
          /\ \E n \in 1 .. Chunk : PumpAt(d, [at |-> "take", size |-> n, allowed |-> 0])
          /\ reads' = [reads EXCEPT ![d] = @ + 1]
       \/ used < Ceiling /\ PumpAt(d, Still) /\ UNCHANGED reads     \* EOF, or idle too long
    /\ Relaying /\ UNCHANGED <<used, relayed, seen>>

GrantedWhole(n) == n
Granted(n) == IF n <= Ceiling - used THEN n ELSE Ceiling - used

(* consume, under the lock of the budget. *)
PumpTake(d) ==
    /\ pump[d].at = "take"
    /\ LET n == Granted(pump[d].size)
       IN /\ used' = used + n
          /\ PumpAt(d, IF n = 0 THEN Still ELSE [pump[d] EXCEPT !.at = "write", !.allowed = n])
    /\ Relaying /\ UNCHANGED <<reads, relayed, seen>>

PumpWrite(d) ==
    /\ pump[d].at = "write"
    /\ relayed' = [relayed EXCEPT ![d] = @ + pump[d].allowed]
    /\ PumpAt(d, IF pump[d].allowed < pump[d].size THEN Still ELSE [Still EXCEPT !.at = "read"])
    /\ Relaying /\ UNCHANGED <<used, reads, seen>>

(* The bridge hands on what the agent relayed. *)
BridgePump(d) ==
    /\ bridge = "open" /\ seen[d] < relayed[d]
    /\ seen' = [seen EXCEPT ![d] = relayed[d]]
    /\ Relaying /\ UNCHANGED <<used, pump, reads, relayed>>

(* Both pumps have ended: the agent closes both sides, the bridge follows. *)

TunnelEnds ==
    /\ agent = "relay" /\ \A d \in Directions : pump[d].at = "off"
    /\ agent' = "closed"
    /\ bridge' = IF bridge = "open" THEN "closed" ELSE bridge
    /\ UNCHANGED <<answers, dialled, told, attested>> /\ Quiet

(* The bridge gives up: the agent's pump of that side reads EOF later. *)
BridgeCloses ==
    /\ bridge = "open"
    /\ bridge' = "closed"
    /\ UNCHANGED <<agent, answers, dialled, told, attested>> /\ Quiet

PumpStep(d) == PumpRead(d) \/ PumpTake(d) \/ PumpWrite(d)
TunnelStep == ForwardConnect \/ ResolveTarget \/ DialPinned \/ Attest \/ TunnelEnds
TunnelNext ==
    \/ TunnelStep \/ BridgeCloses
    \/ \E d \in Directions : PumpStep(d) \/ BridgePump(d)

-------------------------------------------------------------------------------
(* Properties *)

(* The handlers and the pumps are at one of their awaits. *)
TunnelTypeOK ==
    /\ bridge \in {"request", "upstream", "attest", "open", "closed"}
    /\ agent \in {"idle", "resolve", "dial", "relay", "closed"}
    /\ \A d \in Directions : pump[d].at \in {"off", "read", "take", "write"}

(* max_tunnel_bytes holds for both directions together, although each pump  *)
(* reads first and asks the budget afterwards.                              *)
BytesWithinCeiling == relayed["up"] + relayed["down"] <= Ceiling

(* Every byte relayed was taken from the budget, and what was taken is *)
(* relayed: nothing is counted twice or slips through uncounted.       *)
BudgetIsExact ==
    LET Taken(d) == IF pump[d].at = "write" THEN pump[d].allowed ELSE 0
    IN used = relayed["up"] + relayed["down"] + Taken("up") + Taken("down")

(* Only a checked, public address is connected to, also when the resolver  *)
(* mixes public and private answers; and it is the one that was attested.  *)
OnlyPublicIsDialled ==
    /\ dialled \in PublicIps \cup {NoIp}
    /\ bridge = "open" => told = dialled /\ dialled # NoIp

(* Nothing passes the bridge, in either direction, before the connected *)
(* address is attested, however early the site begins to send.          *)
NothingBeforeAttest ==
    relayed["up"] > 0 \/ (\E d \in Directions : seen[d] > 0) => attested

(* A tunnel ends: each pump stops at the end of its stream, at the byte *)
(* ceiling or at the idle timeout, and both sides are closed then.      *)
TunnelCloses == agent = "relay" ~> agent = "closed"
===============================================================================
