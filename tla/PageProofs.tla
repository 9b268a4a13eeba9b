------------------------------ MODULE PageProofs ------------------------------
(***************************************************************************)
(* What one page acquisition is built from, for every instance.  Each      *)
(* component has an inductive invariant over its own variables; PageParts  *)
(* says that a step of the composition is a step of each component or      *)
(* leaves it alone.                                                        *)
(***************************************************************************)
EXTENDS PageAcquisition, FiniteSetTheorems, TLAPS

\* A step of the composition, seen from each of its components.
LEMMA PageParts ==
  ASSUME [PageNext]_pageVars
  PROVE  /\ component' = component
         /\ [RuntimeNext]_browserVars /\ [FetchNext]_fetchVars /\ [ProvidersNext]_providerVars
         /\ [CaptchaNext]_captchaVars /\ [TunnelNext]_tunnelVars
         /\ [ProfilesNext]_profileVars /\ [ArtifactNext]_artifactVars
BY DEF PageNext, pageVars, OnlyBrowser, OnlyFetch, OnlyProvider, OnlyCaptcha, OnlyTunnel,
       OnlyProfile, OnlyArtifact

-------------------------------------------------------------------------------
(* The shared browser *)

TaskPlaces == [at : Steps, own : Launches, context : Launches, grabbed : Launches]
Holders == {t \in Clients : Holding(t)}

\* The tasks that hold a permit are finitely many.
LEMMA HoldersFinite == IsFiniteSet(Holders) /\ Cardinality(Holders) \in Nat
BY RuntimeAssumption, FS_Subset, FS_CardinalityType DEF Holders, Clients

\* A step of one task changes only whether that task holds a permit.
LEMMA HoldersCounted ==
  ASSUME NEW t \in Clients, \A u \in Clients \ {t} : task'[u] = task[u]
  PROVE  /\ Holding(t) /\ Holding(t)' => Holders' = Holders
         /\ ~Holding(t) /\ ~Holding(t)' => Holders' = Holders
         /\ ~Holding(t) /\ Holding(t)' => Cardinality(Holders') = Cardinality(Holders) + 1
         /\ Holding(t) /\ ~Holding(t)' => Cardinality(Holders') = Cardinality(Holders) - 1
<1>1. \A u \in Clients \ {t} : Holding(u)' <=> Holding(u)
  BY DEF Holding, At
<1>2. Holding(t) = Holding(t)' => Holders' = Holders
  BY <1>1 DEF Holders
<1>3. ~Holding(t) /\ Holding(t)' => t \notin Holders /\ Holders' = Holders \cup {t}
  BY <1>1 DEF Holders
<1>4. Holding(t) /\ ~Holding(t)' => t \in Holders /\ Holders' = Holders \ {t}
  BY <1>1 DEF Holders
<1>5. ~Holding(t) /\ Holding(t)' => Cardinality(Holders') = Cardinality(Holders) + 1
  BY <1>3, HoldersFinite, FS_AddElement
<1>6. Holding(t) /\ ~Holding(t)' => Cardinality(Holders') = Cardinality(Holders) - 1
  BY <1>4, HoldersFinite, FS_RemoveElement
<1>7. Holding(t) \in BOOLEAN /\ Holding(t)' \in BOOLEAN
  BY DEF Holding
<1> QED BY <1>2, <1>5, <1>6, <1>7

\* Who starts a driver knows it, and so does who stops one.
HandlesKnown ==
    \A t \in Clients : /\ task[t].at \in {"driver", "launch"} => task[t].own # 0
                       /\ task[t].at \in {"killing", "stopping"} => task[t].grabbed # 0

RuntimeRight == RuntimeTypeOK /\ HandlesKnown /\ permits + Cardinality(Holders) = MaxContexts

\* A browser nobody has used.
LEMMA RuntimeStart == RuntimeInit => RuntimeRight
<1> SUFFICES ASSUME RuntimeInit PROVE RuntimeRight
  OBVIOUS
<1>1. RuntimeTypeOK
  BY RuntimeAssumption DEF RuntimeInit, RuntimeTypeOK, Launches, Steps
<1>2. Holders = {} /\ HandlesKnown
  BY DEF RuntimeInit, Holders, HandlesKnown, Holding, At
<1> QED BY <1>1, <1>2, FS_EmptySet, RuntimeAssumption DEF RuntimeRight, RuntimeInit

\* Permits move as the tasks that hold one do.
LEMMA PermitsFollow ==
  ASSUME RuntimeRight, NEW t \in Clients, \A u \in Clients \ {t} : task'[u] = task[u],
         permits' \in Int,
         permits' = permits + (IF Holding(t) THEN 1 ELSE 0) - (IF Holding(t)' THEN 1 ELSE 0)
  PROVE  permits' + Cardinality(Holders') = MaxContexts
<1>1. permits \in Nat /\ MaxContexts \in Nat
  BY RuntimeAssumption DEF RuntimeRight, RuntimeTypeOK
<1>2. Cardinality(Holders) \in Nat
  BY HoldersFinite
<1>3. CASE Holding(t) /\ Holding(t)'
  BY <1>1, <1>2, <1>3, HoldersCounted DEF RuntimeRight
<1>4. CASE ~Holding(t) /\ ~Holding(t)'
  BY <1>1, <1>2, <1>4, HoldersCounted DEF RuntimeRight
<1>5. CASE Holding(t) /\ ~Holding(t)'
  BY <1>1, <1>2, <1>5, HoldersCounted DEF RuntimeRight
<1>6. CASE ~Holding(t) /\ Holding(t)'
  BY <1>1, <1>2, <1>6, HoldersCounted DEF RuntimeRight
<1> QED BY <1>3, <1>4, <1>5, <1>6

\* start(): drivers and browsers have identities of their own; no permit moves.
LEMMA StartRight ==
  ASSUME RuntimeRight, NEW t \in Clients,
         BeginStart(t) \/ DriverStarts(t) \/ ChromiumStarts(t) \/ StartFails(t)
  PROVE  RuntimeRight'
<1> USE RuntimeAssumption
<1>1. /\ task \in [Clients -> TaskPlaces] /\ permits \in Nat /\ MaxContexts \in Nat \ {0}
      /\ launches \in Launches
  BY DEF RuntimeRight, RuntimeTypeOK, TaskPlaces
<1>2. task' \in [Clients -> TaskPlaces]
  <2>1. CASE BeginStart(t)
    <3>1. CASE BrowserMissing
      <4>1. launches + 1 \in Launches
        BY <2>1, <3>1, <1>1 DEF BeginStart, Launches
      <4>2. task' = [task EXCEPT ![t].at = "driver", ![t].own = launches + 1]
        BY <2>1, <3>1 DEF BeginStart
      <4> QED BY <4>1, <4>2, <1>1 DEF TaskPlaces, Steps
    <3>2. CASE ~BrowserMissing
      BY <2>1, <3>2, <1>1 DEF BeginStart, Goes, TaskPlaces, Steps
    <3> QED BY <3>1, <3>2
  <2>2. CASE DriverStarts(t) \/ StartFails(t)
    BY <2>2, <1>1 DEF DriverStarts, StartFails, Goes, TaskPlaces, Steps
  <2>3. CASE ChromiumStarts(t)
    <3>1. task' = [task EXCEPT ![t].at = "wait", ![t].own = 0] /\ 0 \in Launches
      BY <2>3 DEF ChromiumStarts, Launches
    <3> QED BY <3>1, <1>1 DEF TaskPlaces, Steps
  <2> QED BY <2>1, <2>2, <2>3
<1>3. \A u \in Clients \ {t} : task'[u] = task[u]
  BY <1>1 DEF BeginStart, DriverStarts, ChromiumStarts, StartFails, Goes
<1>4. permits' = permits /\ Holding(t)' = Holding(t)
  BY <1>1 DEF BeginStart, DriverStarts, ChromiumStarts, StartFails, Goes, At, Holding, TaskPlaces
<1>5. permits' + Cardinality(Holders') = MaxContexts
  BY <1>1, <1>3, <1>4, PermitsFollow
<1>6. HandlesKnown'
  BY <1>1, <1>3 DEF BeginStart, DriverStarts, ChromiumStarts, StartFails, Goes, At, RuntimeRight,
     HandlesKnown, TaskPlaces, Launches
<1>7. task[t].own \in Launches /\ (task[t].at \in {"driver", "launch"} => task[t].own # 0)
  BY <1>1 DEF TaskPlaces, RuntimeRight, HandlesKnown
<1>8. /\ manager' \in Launches /\ browser' \in Launches /\ launches' \in Launches
      /\ drivers' \subseteq Launches \ {0} /\ chromiums' \subseteq Launches \ {0}
      /\ UNCHANGED <<stopped, completed, permits>>
  BY <1>7 DEF BeginStart, DriverStarts, ChromiumStarts, StartFails, At, RuntimeRight, RuntimeTypeOK, Launches
<1>9. RuntimeTypeOK'
  BY <1>2, <1>8 DEF RuntimeRight, RuntimeTypeOK, TaskPlaces
<1> QED BY <1>5, <1>6, <1>9 DEF RuntimeRight

\* Taking a permit, leaving the page, ending a session: the permit goes with the task.
LEMMA PageStepRight ==
  ASSUME RuntimeRight, NEW t \in Clients,
         \/ TakePermit(t) \/ PageReady(t) \/ PageFails(t) \/ SessionEnds(t)
         \/ CloseSession(t) \/ OpeningCutOff(t)
  PROVE  RuntimeRight'
<1> USE RuntimeAssumption
<1>1. /\ task \in [Clients -> TaskPlaces] /\ permits \in Nat /\ MaxContexts \in Nat \ {0}
      /\ browser \in Launches /\ (t \in Humans <=> t \notin Renders)
  BY DEF RuntimeRight, RuntimeTypeOK, TaskPlaces, Clients
<1>2. task' \in [Clients -> TaskPlaces]
  BY <1>1 DEF TakePermit, PageReady, PageFails, SessionEnds, CloseSession, OpeningCutOff, Releasable, Goes, TaskPlaces, Steps, Launches
<1>3. \A u \in Clients \ {t} : task'[u] = task[u]
  BY <1>1 DEF TakePermit, PageReady, PageFails, SessionEnds, CloseSession, OpeningCutOff, Releasable, Goes
<1>4. permits' = permits + (IF Holding(t) THEN 1 ELSE 0) - (IF Holding(t)' THEN 1 ELSE 0)
  <2>1. CASE TakePermit(t)
    BY <2>1, <1>1 DEF TakePermit, Goes, At, Holding, TaskPlaces
  <2>2. CASE PageReady(t) \/ PageFails(t) \/ SessionEnds(t)
    BY <2>2, <1>1 DEF PageReady, PageFails, SessionEnds, LeavesPage, Goes, At, Holding, TaskPlaces
  <2>3. CASE CloseSession(t) \/ OpeningCutOff(t)
    BY <2>3, <1>1 DEF CloseSession, OpeningCutOff, Releasable, Goes, At, Holding, TaskPlaces
  <2> QED BY <2>1, <2>2, <2>3
<1>5. permits' \in Nat
  BY <1>1 DEF TakePermit, PageReady, PageFails, SessionEnds, CloseSession, OpeningCutOff, Releasable, LeavesPage
<1>6. permits' + Cardinality(Holders') = MaxContexts
  BY <1>3, <1>4, <1>5, PermitsFollow
<1>7. permits' \in 0 .. MaxContexts
  <2>1. IsFiniteSet(Holders') /\ Cardinality(Holders') \in Nat
    BY FS_Subset, FS_CardinalityType DEF Holders, Clients
  <2> QED BY <1>1, <1>5, <1>6, <2>1
<1>8. HandlesKnown'
  BY <1>1, <1>3 DEF TakePermit, PageReady, PageFails, SessionEnds, CloseSession, OpeningCutOff, Releasable, Goes, At, RuntimeRight,
     HandlesKnown, TaskPlaces
<1>9. UNCHANGED <<manager, browser, launches, drivers, chromiums, stopped, completed>>
  BY DEF TakePermit, PageReady, PageFails, SessionEnds, CloseSession, OpeningCutOff, Releasable
<1>10. RuntimeTypeOK'
  BY <1>2, <1>7, <1>9 DEF RuntimeRight, RuntimeTypeOK, TaskPlaces
<1> QED BY <1>6, <1>8, <1>10 DEF RuntimeRight

\* close(): whatever is taken to be stopped is there.
LEMMA RecycleRight ==
  ASSUME RuntimeRight, NEW t \in Clients,
         CloseRender(t) \/ RenderCloseRaises(t) \/ KillChromium(t) \/ StopDriver(t)
  PROVE  RuntimeRight'
<1> USE RuntimeAssumption
<1>1. /\ task \in [Clients -> TaskPlaces] /\ permits \in Nat /\ MaxContexts \in Nat \ {0}
      /\ browser \in Launches /\ manager \in Launches /\ (t \in Humans <=> t \notin Renders)
  BY DEF RuntimeRight, RuntimeTypeOK, TaskPlaces, Clients
<1>2. task' \in [Clients -> TaskPlaces]
  BY <1>1 DEF CloseRender, RenderCloseRaises, Recycle, KillChromium, StopDriver, Goes, TaskPlaces, Steps, Launches
<1>3. \A u \in Clients \ {t} : task'[u] = task[u]
  BY <1>1 DEF CloseRender, RenderCloseRaises, Recycle, KillChromium, StopDriver, Goes
<1>4. permits' = permits /\ Holding(t)' = Holding(t)
  BY <1>1 DEF CloseRender, RenderCloseRaises, Recycle, KillChromium, StopDriver, Goes, At, Holding, TaskPlaces
<1>5. permits' + Cardinality(Holders') = MaxContexts
  BY <1>1, <1>3, <1>4, PermitsFollow
<1>6. HandlesKnown'
  BY <1>1, <1>3 DEF CloseRender, RenderCloseRaises, Recycle, KillChromium, StopDriver, Goes, At, RuntimeRight,
     HandlesKnown, TaskPlaces, Launches
<1>7. task[t].grabbed \in Launches /\ (task[t].at = "stopping" => task[t].grabbed # 0)
  BY <1>1 DEF TaskPlaces, RuntimeRight, HandlesKnown
<1>8. /\ manager' \in Launches /\ browser' \in Launches /\ completed' \in 0 .. RestartAfter - 1
      /\ drivers' \subseteq Launches \ {0} /\ chromiums' \subseteq Launches \ {0}
      /\ stopped' \subseteq Launches \ {0} /\ UNCHANGED <<launches, permits>>
  BY <1>7 DEF CloseRender, RenderCloseRaises, RecycleDue, Recycle, KillChromium, StopDriver, At, RuntimeRight,
     RuntimeTypeOK, Launches
<1>9. RuntimeTypeOK'
  BY <1>2, <1>8 DEF RuntimeRight, RuntimeTypeOK, TaskPlaces
<1> QED BY <1>5, <1>6, <1>9 DEF RuntimeRight

\* Every step of the event loop keeps the browser's books.
LEMMA RuntimeKept == RuntimeRight /\ [RuntimeNext]_browserVars => RuntimeRight'
<1>1. CASE UNCHANGED browserVars
  BY <1>1 DEF browserVars, RuntimeRight, RuntimeTypeOK, HandlesKnown, Holders, Holding, At
<1> QED BY <1>1, StartRight, PageStepRight, RecycleRight DEF RuntimeNext, RuntimeStep

-------------------------------------------------------------------------------
(* The egress tunnel *)

PumpRows == [at : {"off", "read", "take", "write"}, size : Nat, allowed : Nat]
Taken(d) == IF pump[d].at = "write" THEN pump[d].allowed ELSE 0

\* The handlers, the addresses and the counters, with their types.
TunnelTyped ==
    /\ bridge \in {"request", "upstream", "attest", "open", "closed"}
    /\ agent \in {"idle", "resolve", "dial", "relay", "closed"}
    /\ attested \in BOOLEAN /\ used \in Nat
    /\ pump \in [Directions -> PumpRows]
    /\ relayed \in [Directions -> Nat] /\ seen \in [Directions -> Nat]

\* The two handlers keep in step until the address is attested.
HandlersAgree ==
    /\ bridge = "request" => agent = "idle"
    /\ agent \in {"resolve", "dial"} => bridge = "upstream"
    /\ bridge \in {"request", "upstream", "attest"} => ~attested
    /\ bridge = "open" => attested
    /\ agent # "relay" => \A d \in Directions : pump[d].at = "off"

\* What is dialled was validated, and what the bridge was told is what was dialled.
AddressesAgree ==
    /\ agent = "dial" => answers[1] \in PublicIps
    /\ dialled \in PublicIps \cup {NoIp}
    /\ bridge \in {"attest", "open"} => told = dialled /\ dialled \in PublicIps

\* Bytes of the browser are under way only behind an attested bridge.
UpAfterAttest ==
    /\ pump["up"].at \in {"take", "write"} => attested
    /\ NothingBeforeAttest

TunnelRight ==
    /\ TunnelTyped /\ HandlersAgree /\ AddressesAgree /\ UpAfterAttest
    /\ used <= Ceiling
    /\ used = relayed["up"] + relayed["down"] + Taken("up") + Taken("down")

\* A tunnel nobody has asked for.
LEMMA TunnelStart == TunnelInit => TunnelRight
<1> SUFFICES ASSUME TunnelInit PROVE TunnelRight
  OBVIOUS
<1>1. pump \in [Directions -> PumpRows] /\ \A d \in Directions : pump[d].at = "off"
  BY DEF TunnelInit, PumpRows, Still
<1>2. "up" \in Directions /\ "down" \in Directions
  BY DEF Directions
<1>3. TunnelTyped /\ HandlersAgree /\ AddressesAgree
  BY <1>1 DEF TunnelInit, TunnelTyped, HandlersAgree, AddressesAgree
<1>4. UpAfterAttest
  BY <1>1, <1>2 DEF TunnelInit, UpAfterAttest, NothingBeforeAttest
<1> QED BY <1>1, <1>2, <1>3, <1>4, TunnelAssumption DEF TunnelInit, TunnelRight, Taken

\* A step of the handlers moves no byte.
LEMMA HandlerRight ==
  ASSUME TunnelRight, TunnelStep \/ BridgeCloses
  PROVE  TunnelRight'
<1> USE TunnelAssumption
<1>1. pump \in [Directions -> PumpRows] /\ Directions = {"up", "down"}
  BY DEF TunnelRight, TunnelTyped, Directions
<1>2. CASE ForwardConnect \/ Attest \/ TunnelEnds \/ BridgeCloses
  <2>1. UNCHANGED <<used, pump, relayed, seen, answers, dialled, told>>
    BY <1>2 DEF ForwardConnect, Attest, TunnelEnds, BridgeCloses, Quiet
  <2>2. TunnelTyped'
    BY <1>2, <2>1 DEF ForwardConnect, Attest, TunnelEnds, BridgeCloses, Refuse, TunnelRight, TunnelTyped
  <2>3. HandlersAgree'
    BY <1>2, <2>1 DEF ForwardConnect, Attest, TunnelEnds, BridgeCloses, Refuse, TunnelRight, TunnelTyped,
       HandlersAgree
  <2>4. AddressesAgree'
    BY <1>2, <2>1 DEF ForwardConnect, Attest, TunnelEnds, BridgeCloses, Refuse, TunnelRight, TunnelTyped,
       HandlersAgree, AddressesAgree
  <2>5. UpAfterAttest'
    BY <1>2, <2>1 DEF ForwardConnect, Attest, TunnelEnds, BridgeCloses, TunnelRight, HandlersAgree,
       UpAfterAttest, NothingBeforeAttest
  <2> QED BY <2>1, <2>2, <2>3, <2>4, <2>5 DEF TunnelRight, Taken
<1>3. CASE ResolveTarget
  <2>1. UNCHANGED <<used, pump, relayed, seen, dialled, told, attested>>
    BY <1>3 DEF ResolveTarget, Quiet
  <2>2. agent' = "dial" => answers'[1] \in PublicIps
    <3>1. PICK m \in 0 .. 2 : answers' \in [1 .. m -> PublicIps \cup PrivateIps]
      BY <1>3 DEF ResolveTarget, SeqOf
    <3>2. CASE Validated(answers')
      <4>1. answers' # <<>> /\ \A i \in DOMAIN answers' : answers'[i] \in PublicIps
        BY <3>2 DEF Validated
      <4>2. m # 0
        BY <3>1, <4>1
      <4>3. 1 \in DOMAIN answers'
        BY <3>1, <4>2
      <4> QED BY <4>1, <4>3
    <3>3. CASE ~Validated(answers')
      BY <1>3, <3>3 DEF ResolveTarget, Refuse
    <3> QED BY <3>2, <3>3
  <2>3. agent = "resolve" /\ ((agent' = "dial" /\ bridge' = bridge) \/ (agent' = "closed" /\ bridge' = "closed"))
    BY <1>3 DEF ResolveTarget, Refuse
  <2>4. TunnelTyped' /\ HandlersAgree' /\ AddressesAgree'
    BY <2>1, <2>2, <2>3 DEF TunnelRight, TunnelTyped, HandlersAgree, AddressesAgree
  <2> QED BY <2>1, <2>4 DEF TunnelRight, Taken, UpAfterAttest, NothingBeforeAttest
<1>4. CASE DialPinned
  <2>1. UNCHANGED <<used, relayed, seen, answers, attested>> /\ agent = "dial"
    BY <1>4 DEF DialPinned
  <2>2. CASE agent' = "relay"
    <3>1. /\ dialled' = answers[1] /\ told' = answers[1] /\ bridge' = "attest"
          /\ pump' = [d \in Directions |-> [Still EXCEPT !.at = "read"]]
      BY <1>4, <2>2 DEF DialPinned, Refuse
    <3>2. pump' \in [Directions -> PumpRows] /\ \A d \in Directions : pump'[d].at = "read"
      BY <3>1 DEF Still, PumpRows
    <3>3. \A d \in Directions : pump[d].at = "off"
      BY <2>1 DEF TunnelRight, HandlersAgree
    <3>4. Taken("up") = 0 /\ Taken("down") = 0 /\ Taken("up")' = 0 /\ Taken("down")' = 0
      BY <1>1, <3>2, <3>3 DEF Taken
    <3>5. TunnelTyped' /\ HandlersAgree' /\ AddressesAgree'
      BY <2>1, <2>2, <3>1, <3>2 DEF TunnelRight, TunnelTyped, HandlersAgree, AddressesAgree
    <3>6. UpAfterAttest'
      BY <1>1, <2>1, <3>2 DEF TunnelRight, UpAfterAttest, NothingBeforeAttest
    <3> QED BY <2>1, <3>4, <3>5, <3>6 DEF TunnelRight
  <2>3. CASE agent' # "relay"
    <3>1. agent' = "closed" /\ bridge' = "closed" /\ UNCHANGED <<dialled, told, pump>>
      BY <1>4, <2>3 DEF DialPinned, Refuse
    <3> QED BY <2>1, <3>1 DEF TunnelRight, TunnelTyped, HandlersAgree, AddressesAgree, UpAfterAttest,
           NothingBeforeAttest, Taken
  <2> QED BY <2>2, <2>3
<1> QED BY <1>2, <1>3, <1>4 DEF TunnelStep

\* A pump relays what it took, and takes no more than there is.
LEMMA PumpRight ==
  ASSUME TunnelRight, NEW d \in Directions, PumpStep(d) \/ BridgePump(d)
  PROVE  TunnelRight'
<1> USE TunnelAssumption
<1>1. /\ pump \in [Directions -> PumpRows] /\ Directions = {"up", "down"}
      /\ used \in Nat /\ Ceiling \in Nat /\ used <= Ceiling
      /\ relayed \in [Directions -> Nat] /\ seen \in [Directions -> Nat]
  BY DEF TunnelRight, TunnelTyped, Directions
<1>2. UNCHANGED <<bridge, agent, answers, dialled, told, attested>>
  BY DEF PumpStep, PumpRead, PumpTake, PumpWrite, BridgePump, Relaying
<1>3. AddressesAgree'
  BY <1>2 DEF TunnelRight, AddressesAgree
<1>4. pump[d] \in PumpRows /\ Still \in PumpRows
  BY <1>1 DEF PumpRows, Still
<1>5. pump[d].at # "off" => agent = "relay"
  BY DEF TunnelRight, HandlersAgree
<1>6. CASE PumpRead(d)
  <2>1. PICK p \in PumpRows : pump' = [pump EXCEPT ![d] = p] /\ p.at \in {"off", "take"}
                               /\ (p.at = "take" => CanRead(d))
    <3>1. \A n \in 1 .. Chunk : [at |-> "take", size |-> n, allowed |-> 0] \in PumpRows
      BY DEF PumpRows
    <3>2. \/ pump' = [pump EXCEPT ![d] = Still]
          \/ /\ CanRead(d)
             /\ \E n \in 1 .. Chunk :
                   pump' = [pump EXCEPT ![d] = [at |-> "take", size |-> n, allowed |-> 0]]
      BY <1>6 DEF PumpRead, PumpAt
    <3> QED BY <1>4, <3>1, <3>2 DEF Still
  <2>2. UNCHANGED <<used, relayed, seen>> /\ agent = "relay" /\ pump[d].at = "read"
    BY <1>6 DEF PumpRead
  <2>3. pump' \in [Directions -> PumpRows] /\ pump'[d] = p /\ \A e \in Directions \ {d} : pump'[e] = pump[e]
    BY <1>1, <2>1
  <2>4. Taken("up")' = Taken("up") /\ Taken("down")' = Taken("down")
    BY <1>1, <2>1, <2>2, <2>3 DEF Taken
  <2>5. TunnelTyped' /\ HandlersAgree'
    BY <1>2, <2>2, <2>3 DEF TunnelRight, TunnelTyped, HandlersAgree
  <2>6. UpAfterAttest'
    BY <1>1, <1>2, <2>1, <2>2, <2>3 DEF TunnelRight, HandlersAgree, UpAfterAttest, NothingBeforeAttest,
       CanRead
  <2> QED BY <1>3, <2>2, <2>4, <2>5, <2>6 DEF TunnelRight
<1>7. CASE PumpTake(d)
  <2> DEFINE n == Granted(pump[d].size)
  <2>1. n \in Nat /\ n <= Ceiling - used
    BY <1>1, <1>4 DEF Granted, PumpRows
  <2>2. /\ used' = used + n /\ UNCHANGED <<relayed, seen>> /\ pump[d].at = "take"
        /\ pump' = [pump EXCEPT ![d] = IF n = 0 THEN Still ELSE [pump[d] EXCEPT !.at = "write", !.allowed = n]]
    BY <1>7 DEF PumpTake, PumpAt
  <2> HIDE DEF n
  <2>3. /\ pump' \in [Directions -> PumpRows] /\ \A e \in Directions \ {d} : pump'[e] = pump[e]
        /\ n = 0 => pump'[d] = Still
        /\ n # 0 => pump'[d].at = "write" /\ pump'[d].allowed = n
    BY <1>1, <1>4, <2>1, <2>2 DEF PumpRows
  <2>4. Taken(d) = 0 /\ Taken(d)' = n /\ \A e \in Directions \ {d} : Taken(e)' = Taken(e)
    BY <2>2, <2>3 DEF Taken, Still
  <2>5. \A e \in Directions : Taken(e) \in Nat
    BY <1>1 DEF Taken, PumpRows
  <2>6. used' = relayed'["up"] + relayed'["down"] + Taken("up")' + Taken("down")'
    <3>1. CASE d = "up"
      BY <1>1, <2>1, <2>2, <2>4, <2>5, <3>1 DEF TunnelRight
    <3>2. CASE d = "down"
      BY <1>1, <2>1, <2>2, <2>4, <2>5, <3>2 DEF TunnelRight
    <3> QED BY <1>1, <3>1, <3>2
  <2>7. TunnelTyped' /\ HandlersAgree'
    BY <1>1, <1>2, <1>5, <2>1, <2>2, <2>3 DEF TunnelRight, TunnelTyped, HandlersAgree
  <2>8. UpAfterAttest'
    BY <1>1, <1>2, <2>2, <2>3 DEF TunnelRight, UpAfterAttest, NothingBeforeAttest
  <2> QED BY <1>1, <1>3, <2>1, <2>2, <2>6, <2>7, <2>8 DEF TunnelRight
<1>8. CASE PumpWrite(d)
  <2>1. /\ relayed' = [relayed EXCEPT ![d] = @ + pump[d].allowed]
        /\ UNCHANGED <<used, seen>> /\ pump[d].at = "write"
    BY <1>8 DEF PumpWrite
  <2>2. PICK p \in PumpRows : pump' = [pump EXCEPT ![d] = p] /\ p.at \in {"off", "read"}
    <3>1. [Still EXCEPT !.at = "read"] \in PumpRows /\ [Still EXCEPT !.at = "read"].at = "read"
      BY DEF PumpRows, Still
    <3>2. \/ pump' = [pump EXCEPT ![d] = Still]
          \/ pump' = [pump EXCEPT ![d] = [Still EXCEPT !.at = "read"]]
      BY <1>8 DEF PumpWrite, PumpAt
    <3> QED BY <1>4, <3>1, <3>2 DEF Still
  <2>3. pump' \in [Directions -> PumpRows] /\ pump'[d] = p /\ \A e \in Directions \ {d} : pump'[e] = pump[e]
    BY <1>1, <2>2
  <2>4. /\ Taken(d) = pump[d].allowed /\ pump[d].allowed \in Nat /\ Taken(d)' = 0
        /\ \A e \in Directions \ {d} : Taken(e)' = Taken(e)
    BY <1>4, <2>1, <2>2, <2>3 DEF Taken, PumpRows
  <2>5. \A e \in Directions : Taken(e) \in Nat
    BY <1>1 DEF Taken, PumpRows
  <2>6. /\ relayed' \in [Directions -> Nat] /\ relayed'[d] = relayed[d] + pump[d].allowed
        /\ \A e \in Directions \ {d} : relayed'[e] = relayed[e]
    BY <1>1, <2>1, <2>4
  <2>7. used' = relayed'["up"] + relayed'["down"] + Taken("up")' + Taken("down")'
    <3>1. CASE d = "up"
      BY <1>1, <2>1, <2>4, <2>5, <2>6, <3>1 DEF TunnelRight
    <3>2. CASE d = "down"
      BY <1>1, <2>1, <2>4, <2>5, <2>6, <3>2 DEF TunnelRight
    <3> QED BY <1>1, <3>1, <3>2
  <2>8. TunnelTyped' /\ HandlersAgree'
    BY <1>2, <1>5, <2>1, <2>3, <2>6 DEF TunnelRight, TunnelTyped, HandlersAgree
  <2>9. UpAfterAttest'
    BY <1>1, <1>2, <2>1, <2>2, <2>3, <2>6 DEF TunnelRight, UpAfterAttest, NothingBeforeAttest
  <2> QED BY <1>3, <2>1, <2>7, <2>8, <2>9 DEF TunnelRight
<1>9. CASE BridgePump(d)
  <2>1. /\ UNCHANGED <<used, pump, relayed>> /\ bridge = "open"
        /\ seen' = [seen EXCEPT ![d] = relayed[d]]
    BY <1>9 DEF BridgePump
  <2>2. seen' \in [Directions -> Nat]
    BY <1>1, <2>1
  <2>3. TunnelTyped' /\ HandlersAgree' /\ attested'
    BY <1>2, <2>1, <2>2 DEF TunnelRight, TunnelTyped, HandlersAgree
  <2>4. UpAfterAttest'
    BY <2>3 DEF UpAfterAttest, NothingBeforeAttest
  <2> QED BY <1>3, <2>1, <2>3, <2>4 DEF TunnelRight, Taken
<1> QED BY <1>6, <1>7, <1>8, <1>9 DEF PumpStep

\* Every step of the tunnel keeps its invariant.
LEMMA TunnelKept == TunnelRight /\ [TunnelNext]_tunnelVars => TunnelRight'
<1>1. CASE UNCHANGED tunnelVars
  BY <1>1 DEF tunnelVars, TunnelRight, TunnelTyped, HandlersAgree, AddressesAgree, UpAfterAttest,
     NothingBeforeAttest, Taken
<1> QED BY <1>1, HandlerRight, PumpRight DEF TunnelNext

\* What the tunnel promises.
LEMMA TunnelPromises == TunnelRight => EgressInv
<1> SUFFICES ASSUME TunnelRight PROVE EgressInv
  OBVIOUS
<1>1. TunnelTypeOK /\ OnlyPublicIsDialled /\ NothingBeforeAttest
  BY TunnelAssumption DEF TunnelRight, TunnelTyped, PumpRows, TunnelTypeOK, AddressesAgree,
     OnlyPublicIsDialled, UpAfterAttest
<1>2. BudgetIsExact
  BY DEF TunnelRight, Taken, BudgetIsExact
<1>3. Taken("up") \in Nat /\ Taken("down") \in Nat /\ relayed["up"] \in Nat /\ relayed["down"] \in Nat
  BY DEF TunnelRight, TunnelTyped, PumpRows, Taken, Directions
<1>4. BytesWithinCeiling
  BY <1>3, TunnelAssumption DEF TunnelRight, TunnelTyped, BytesWithinCeiling
<1> QED BY <1>1, <1>2, <1>4 DEF EgressInv

-------------------------------------------------------------------------------
(* Encrypted profiles *)

RingKeys == UNION {Rings[i].keys : i \in DOMAIN Rings}
ProfileRows ==
    {NoProfile} \cup [version : RingKeys, sealed : RingKeys, bound : ProfileIds, payload : Payloads]
LoadedRows ==
    [profile : ProfileIds \cup {"none"}, host : SiteHosts \cup {<<>>}, payload : 0 .. 2, failed : BOOLEAN]

\* The rows and what the processes hold of them, with their types.
ProfilesTyped ==
    /\ stage \in [Readers -> 1 .. Len(Rings)]
    /\ profile \in [ProfileIds -> ProfileRows] /\ loaded \in [Readers -> LoadedRows]

\* A ring is rolled out to every process before the next one is.
RollOutInOrder == \A r, s \in Readers : stage[r] <= stage[s] + 1

ProfilesRight == ProfilesTyped /\ RollOutInOrder /\ NewestReadsAll /\ OnlyAllowedHosts

\* A ring and its successor.
LEMMA RingFacts ==
  /\ Len(Rings) \in Nat \ {0}
  /\ \A i \in 1 .. Len(Rings) : Rings[i].primary \in Rings[i].keys /\ Rings[i].primary \in RingKeys
  /\ \A i, j \in 1 .. Len(Rings) : j = i \/ j = i + 1 => Rings[i].keys \subseteq Rings[j].keys
BY RingAssumption DEF RingKeys

\* host_allowed compares whole labels from the right.
LEMMA SuffixMeans ==
  ASSUME NEW s \in Seq(STRING), NEW t \in Seq(STRING), IsSuffix(s, t)
  PROVE  Len(s) <= Len(t) /\ \A i \in DOMAIN s : t[i + (Len(t) - Len(s))] = s[i]
<1> DEFINE rs == Reverse(s)
           rt == Reverse(t)
<1>1. /\ rs \in Seq(STRING) /\ Len(rs) = Len(s) /\ \A i \in 1 .. Len(s) : rs[i] = s[(Len(s) - i) + 1]
      /\ rt \in Seq(STRING) /\ Len(rt) = Len(t) /\ \A i \in 1 .. Len(t) : rt[i] = t[(Len(t) - i) + 1]
  BY DEF Reverse
<1>2. Len(rs) <= Len(rt) /\ SubSeq(rs, 1, Len(rs)) = SubSeq(rt, 1, Len(rs))
  BY DEF IsSuffix, IsPrefix
<1> HIDE DEF rs, rt
<1>3. \A i \in 1 .. Len(s) : rs[i] = rt[i]
  <2> SUFFICES ASSUME NEW i \in 1 .. Len(s) PROVE rs[i] = rt[i]
    OBVIOUS
  <2>1. SubSeq(rs, 1, Len(rs))[i] = rs[i] /\ SubSeq(rt, 1, Len(rs))[i] = rt[i]
    BY <1>1, <1>2
  <2> QED BY <1>2, <2>1
<1>4. ASSUME NEW i \in DOMAIN s PROVE t[i + (Len(t) - Len(s))] = s[i]
  <2> DEFINE k == (Len(s) - i) + 1
  <2>1. i \in 1 .. Len(s) /\ Len(s) \in Nat /\ Len(t) \in Nat /\ Len(s) <= Len(t)
    BY <1>1, <1>2
  <2>3. k \in 1 .. Len(s) /\ k \in 1 .. Len(t) /\ (Len(s) - k) + 1 = i
        /\ (Len(t) - k) + 1 = i + (Len(t) - Len(s))
    BY <2>1
  <2> HIDE DEF k
  <2>2. rs[k] = s[i] /\ rt[k] = t[i + (Len(t) - Len(s))]
    BY <1>1, <2>3
  <2> QED BY <1>3, <2>2, <2>3
<1> QED BY <1>1, <1>2, <1>4

FitsPattern(h) ==
    \E q \in AllowPatterns :
        /\ Len(h) - Len(q.labels) >= 0 /\ (q.wildcard <=> Len(h) - Len(q.labels) > 0)
        /\ \A i \in DOMAIN q.labels : h[i + (Len(h) - Len(q.labels))] = q.labels[i]

\* A host that is allowed is one of the patterns or a name below one with a wildcard.
LEMMA AllowedMeans ==
  ASSUME NEW host \in SiteHosts, HostAllowed(host, AllowPatterns)
  PROVE  FitsPattern(host)
<1>1. PICK q \in AllowPatterns :
         IF q.wildcard THEN Len(host) > Len(q.labels) /\ IsSuffix(q.labels, host)
                       ELSE host = q.labels
  BY DEF HostAllowed
<1>2. host \in Seq(STRING) /\ q.labels \in Seq(STRING) /\ q.wildcard \in BOOLEAN
  BY HostAssumption
<1>3. CASE q.wildcard
  <2>1. \A i \in DOMAIN q.labels : host[i + (Len(host) - Len(q.labels))] = q.labels[i]
    BY <1>1, <1>2, <1>3, SuffixMeans
  <2>2. Len(host) - Len(q.labels) >= 0 /\ Len(host) - Len(q.labels) > 0
    BY <1>1, <1>2, <1>3
  <2> QED BY <1>3, <2>1, <2>2 DEF FitsPattern
<1>4. CASE ~q.wildcard
  <2>1. host = q.labels
    BY <1>1, <1>4
  <2>2. Len(host) - Len(q.labels) = 0
    BY <1>2, <2>1
  <2>3. \A i \in DOMAIN q.labels : host[i + (Len(host) - Len(q.labels))] = q.labels[i]
    BY <1>2, <2>1, <2>2
  <2>4. Len(host) - Len(q.labels) >= 0 /\ ~(Len(host) - Len(q.labels) > 0)
    BY <2>2
  <2> QED BY <1>4, <2>3, <2>4 DEF FitsPattern
<1> QED BY <1>2, <1>3, <1>4

\* The property, with the name for what a host must fit.
LEMMA HostsFit ==
  OnlyAllowedHosts <=> \A r \in Readers : loaded[r].host # <<>> => FitsPattern(loaded[r].host)
BY DEF OnlyAllowedHosts, FitsPattern

\* The same after a step.
LEMMA HostsStillFit ==
  OnlyAllowedHosts' <=> \A r \in Readers : loaded'[r].host # <<>> => FitsPattern(loaded'[r].host)
BY DEF OnlyAllowedHosts, FitsPattern

\* No profile yet.
LEMMA ProfilesStart == ProfilesInit => ProfilesRight
<1> SUFFICES ASSUME ProfilesInit PROVE ProfilesRight
  OBVIOUS
<1>1. ProfilesTyped
  BY RingFacts DEF ProfilesInit, ProfilesTyped, ProfileRows, LoadedRows, Nothing
<1>2. RollOutInOrder /\ NewestReadsAll /\ OnlyAllowedHosts
  BY DEF ProfilesInit, RollOutInOrder, NewestReadsAll, OnlyAllowedHosts, Nothing
<1> QED BY <1>1, <1>2 DEF ProfilesRight

\* A row sealed by any process is a row the newest processes can read.
LEMMA SealedIsRead ==
  ASSUME ProfilesTyped, RollOutInOrder, NEW r \in Readers, NEW p \in ProfileIds,
         NEW payload \in Payloads
  PROVE  /\ Sealed(r, p, payload) \in ProfileRows /\ Sealed(r, p, payload) # NoProfile
         /\ \A s \in Readers : Newest(s) => Ring(r).primary \in Ring(s).keys
<1>1. /\ \A s \in Readers : stage[s] \in 1 .. Len(Rings)
      /\ Ring(r).primary \in RingKeys /\ Ring(r).primary \in Ring(r).keys
  BY RingFacts DEF ProfilesTyped, Ring
<1>2. Sealed(r, p, payload) \in ProfileRows
  BY <1>1 DEF Sealed, ProfileRows
<1>3. Sealed(r, p, payload).payload # NoProfile.payload
  BY DEF Sealed, NoProfile, Payloads
<1>4. ASSUME NEW s \in Readers, Newest(s) PROVE Ring(r).primary \in Ring(s).keys
  <2>1. stage[s] = stage[r] \/ stage[s] = stage[r] + 1
    BY <1>1, <1>4, RingFacts DEF Newest, RollOutInOrder
  <2>2. Rings[stage[r]].keys \subseteq Rings[stage[s]].keys
    BY <1>1, <2>1, RingFacts
  <2> QED BY <1>1, <2>2 DEF Ring
<1> QED BY <1>2, <1>3, <1>4

\* create and load seal a row with the process's own key.
LEMMA SealingRight ==
  ASSUME ProfilesRight, NEW r \in Readers, NEW p \in ProfileIds, NEW payload \in Payloads,
         stage' = stage, profile' = [profile EXCEPT ![p] = Sealed(r, p, payload)]
  PROVE  profile' \in [ProfileIds -> ProfileRows] /\ NewestReadsAll'
<1>1. /\ Sealed(r, p, payload) \in ProfileRows
      /\ \A s \in Readers : Newest(s) => Ring(r).primary \in Ring(s).keys
  BY SealedIsRead DEF ProfilesRight
<1>2. profile' \in [ProfileIds -> ProfileRows] /\ profile'[p] = Sealed(r, p, payload)
      /\ \A q \in ProfileIds \ {p} : profile'[q] = profile[q]
  BY <1>1 DEF ProfilesRight, ProfilesTyped
<1>3. ASSUME NEW s \in Readers, NEW q \in ProfileIds, profile'[q] # NoProfile, Newest(s)'
      PROVE  Decrypts(s, q)'
  <2>1. Newest(s) /\ Ring(s)' = Ring(s)
    BY <1>3 DEF Newest, Ring
  <2>2. CASE q = p
    BY <1>1, <1>2, <2>1, <2>2 DEF Decrypts, Sealed
  <2>3. CASE q # p
    BY <1>2, <1>3, <2>1, <2>3 DEF ProfilesRight, NewestReadsAll, Decrypts
  <2> QED BY <2>2, <2>3
<1> QED BY <1>2, <1>3 DEF NewestReadsAll

\* load, under the row's lock.
LEMMA LoadRight ==
  ASSUME ProfilesRight, NEW r \in Readers, NEW p \in ProfileIds, NEW host \in SiteHosts,
         LoadProfile(r, p, host)
  PROVE  ProfilesRight'
<1>1. stage' = stage /\ profile[p] # NoProfile
  BY DEF LoadProfile
<1>2. profile[p] \in ProfileRows /\ profile[p].payload \in Payloads
  BY <1>1 DEF ProfilesRight, ProfilesTyped, ProfileRows
<1>3. RollOutInOrder'
  BY <1>1 DEF ProfilesRight, RollOutInOrder
<1>4. profile' = profile \/ profile' = [profile EXCEPT ![p] = Sealed(r, p, profile[p].payload)]
  BY DEF LoadProfile, Rotated, ProfilesRight, ProfilesTyped
<1>5. profile' \in [ProfileIds -> ProfileRows] /\ NewestReadsAll'
  <2>1. CASE profile' = profile
    BY <1>1, <2>1 DEF ProfilesRight, ProfilesTyped, NewestReadsAll, Newest, Decrypts, Ring
  <2> QED BY <1>1, <1>2, <1>4, <2>1, SealingRight
<1>6. PICK x \in LoadedRows :
         /\ loaded' = [loaded EXCEPT ![r] = x]
         /\ x.host # <<>> => x.host = host /\ HostAllowed(host, AllowPatterns)
  <2>1. CASE HostAllowed(host, AllowPatterns) /\ Decrypts(r, p)
    <3> DEFINE x == [profile |-> p, host |-> host, payload |-> profile[p].payload, failed |-> FALSE]
    <3>1. loaded' = [loaded EXCEPT ![r] = x]
      BY <2>1 DEF LoadProfile
    <3>2. x \in LoadedRows
      BY <1>2 DEF LoadedRows, Payloads
    <3> QED BY <2>1, <3>1, <3>2
  <2>2. CASE ~(HostAllowed(host, AllowPatterns) /\ Decrypts(r, p))
    <3>1. loaded' = [loaded EXCEPT ![r] = [Nothing EXCEPT !.failed = TRUE]]
      BY <2>2 DEF LoadProfile
    <3>2. Nothing \in LoadedRows /\ Nothing.host = <<>>
      BY DEF Nothing, LoadedRows
    <3>3. [Nothing EXCEPT !.failed = TRUE] \in LoadedRows /\ [Nothing EXCEPT !.failed = TRUE].host = <<>>
      BY <3>2 DEF LoadedRows
    <3> QED BY <3>1, <3>3
  <2> QED BY <2>1, <2>2
<1>7. /\ loaded' \in [Readers -> LoadedRows] /\ loaded'[r] = x
      /\ \A s \in Readers \ {r} : loaded'[s] = loaded[s]
  BY <1>6 DEF ProfilesRight, ProfilesTyped
<1>8. OnlyAllowedHosts'
  <2> SUFFICES ASSUME NEW s \in Readers, loaded'[s].host # <<>> PROVE FitsPattern(loaded'[s].host)
    BY HostsStillFit
  <2>1. CASE s = r
    BY <1>6, <1>7, <2>1, AllowedMeans
  <2>2. CASE s # r
    BY <1>7, <2>2, HostsFit DEF ProfilesRight
  <2> QED BY <2>1, <2>2
<1> QED BY <1>1, <1>3, <1>5, <1>7, <1>8 DEF ProfilesRight, ProfilesTyped

\* The next ring is given to a process that is furthest behind: it reads what the
\* newest processes read.
LEMMA RollOutRight ==
  ASSUME ProfilesRight, NEW r \in Readers, RollOut(r)
  PROVE  ProfilesRight'
<1>1. /\ stage' = [stage EXCEPT ![r] = stage[r] + 1] /\ profile' = profile
      /\ loaded' = [loaded EXCEPT ![r] = Nothing]
      /\ stage[r] < Len(Rings) /\ \A s \in Readers : stage[s] >= stage[r]
  BY DEF RollOut
<1>2. /\ stage \in [Readers -> 1 .. Len(Rings)] /\ Len(Rings) \in Nat
      /\ \A s, q \in Readers : stage[s] <= stage[q] + 1
  BY RingFacts DEF ProfilesRight, ProfilesTyped, RollOutInOrder
<1>3. /\ stage' \in [Readers -> 1 .. Len(Rings)] /\ stage'[r] = stage[r] + 1
      /\ \A s \in Readers \ {r} : stage'[s] = stage[s]
  BY <1>1, <1>2
<1>4. RollOutInOrder'
  <2> SUFFICES ASSUME NEW s \in Readers, NEW q \in Readers PROVE stage'[s] <= stage'[q] + 1
    BY DEF RollOutInOrder
  <2>1. /\ stage[s] \in Nat /\ stage[q] \in Nat /\ stage[r] \in Nat /\ stage[r] <= stage[q]
        /\ stage[s] <= stage[q] + 1
    BY <1>1, <1>2
  <2> QED BY <1>3, <2>1
<1>5. Nothing \in LoadedRows /\ Nothing.host = <<>>
  BY DEF Nothing, LoadedRows
<1>6. /\ loaded' \in [Readers -> LoadedRows] /\ loaded'[r].host = <<>>
      /\ \A s \in Readers \ {r} : loaded'[s] = loaded[s]
  BY <1>1, <1>5 DEF ProfilesRight, ProfilesTyped
<1>7. OnlyAllowedHosts'
  BY <1>6, HostsFit, HostsStillFit DEF ProfilesRight
<1>8. ASSUME NEW s \in Readers, Newest(s)'
      PROVE  \E o \in Readers : Newest(o) /\ Rings[stage[o]].keys \subseteq Rings[stage'[s]].keys
  <2>1. \A o \in Readers : stage'[o] <= stage'[s]
    BY <1>8 DEF Newest
  <2>2. CASE s # r
    <3>1. \A o \in Readers : stage[o] <= stage[s]
      BY <1>2, <1>3, <2>1, <2>2
    <3> QED BY <1>3, <2>2, <3>1 DEF Newest
  <2>3. CASE s = r /\ \A o \in Readers : stage[o] <= stage[r]
    <3>1. Rings[stage[r]].keys \subseteq Rings[stage'[r]].keys
      BY <1>2, <1>3, RingFacts
    <3> QED BY <2>3, <3>1 DEF Newest
  <2>4. CASE s = r /\ \E o \in Readers : ~(stage[o] <= stage[r])
    <3>1. PICK o \in Readers : ~(stage[o] <= stage[r])
      BY <2>4
    <3>2. stage[o] = stage'[r] /\ \A q \in Readers : stage[q] <= stage[o]
      BY <1>2, <1>3, <3>1
    <3> QED BY <2>4, <3>2 DEF Newest
  <2> QED BY <2>2, <2>3, <2>4
<1>9. NewestReadsAll'
  <2> SUFFICES ASSUME NEW s \in Readers, NEW p \in ProfileIds, profile[p] # NoProfile, Newest(s)'
               PROVE  Decrypts(s, p)'
    BY <1>1 DEF NewestReadsAll
  <2>1. PICK o \in Readers : Newest(o) /\ Rings[stage[o]].keys \subseteq Rings[stage'[s]].keys
    BY <1>8
  <2>2. Decrypts(o, p)
    BY <2>1 DEF ProfilesRight, NewestReadsAll
  <2> QED BY <1>1, <2>1, <2>2 DEF Decrypts, Ring
<1> QED BY <1>1, <1>3, <1>4, <1>6, <1>7, <1>9 DEF ProfilesRight, ProfilesTyped

\* Every call on the profiles keeps their invariant.
LEMMA ProfilesKept == ProfilesRight /\ [ProfilesNext]_profileVars => ProfilesRight'
<1> SUFFICES ASSUME ProfilesRight, [ProfilesNext]_profileVars PROVE ProfilesRight'
  OBVIOUS
<1>1. CASE UNCHANGED profileVars
  BY <1>1 DEF profileVars, ProfilesRight, ProfilesTyped, RollOutInOrder, NewestReadsAll, OnlyAllowedHosts,
     Newest, Decrypts, Ring
<1>2. ASSUME NEW r \in Readers, NEW p \in ProfileIds, NEW payload \in Payloads,
             CreateProfile(r, p, payload)
      PROVE  ProfilesRight'
  <2>1. UNCHANGED <<stage, loaded>> /\ profile' = [profile EXCEPT ![p] = Sealed(r, p, payload)]
    BY <1>2 DEF CreateProfile
  <2>2. profile' \in [ProfileIds -> ProfileRows] /\ NewestReadsAll'
    BY <2>1, SealingRight
  <2>3. OnlyAllowedHosts'
    BY <2>1, HostsFit, HostsStillFit DEF ProfilesRight
  <2> QED BY <2>1, <2>2, <2>3 DEF ProfilesRight, ProfilesTyped, RollOutInOrder
<1>3. ASSUME NEW p \in ProfileIds, DeleteProfile(p) PROVE ProfilesRight'
  <2>1. UNCHANGED <<stage, loaded>> /\ profile' = [profile EXCEPT ![p] = NoProfile]
    BY <1>3 DEF DeleteProfile
  <2>2. profile' \in [ProfileIds -> ProfileRows] /\ profile'[p] = NoProfile
        /\ \A q \in ProfileIds \ {p} : profile'[q] = profile[q]
    BY <2>1 DEF ProfilesRight, ProfilesTyped, ProfileRows
  <2>3. NewestReadsAll'
    BY <2>1, <2>2 DEF ProfilesRight, NewestReadsAll, Newest, Decrypts, Ring
  <2>4. OnlyAllowedHosts'
    BY <2>1, HostsFit, HostsStillFit DEF ProfilesRight
  <2> QED BY <2>1, <2>2, <2>3, <2>4 DEF ProfilesRight, ProfilesTyped, RollOutInOrder
<1> QED BY <1>1, <1>2, <1>3, LoadRight, RollOutRight DEF ProfilesNext

-------------------------------------------------------------------------------
(* Artifacts *)

\* A put that has its content, one that has nothing (left), one that is verified.
FullPuts == [at : {"spool", "visible", "cleanup", "verify"}, content : Contents, read : Nat]
BarePuts == [at : {"idle", "cleanup", "done"}]
CheckedPuts == [at : {"done"}, verified : BOOLEAN]

\* Under each digest there is nothing or all of its content.
ObjectsRight ==
    /\ store \in {"filesystem", "s3"} /\ DOMAIN temps \subseteq Puts
    /\ objects \in [Contents -> {NoObject} \cup {Complete(c) : c \in Contents}]
    /\ \A c \in Contents : objects[c] \in {NoObject, Complete(c)}
    /\ \A c \in Contents : objects[c] # NoObject => SizeOf[c] <= SizeLimit
    /\ refs \subseteq Contents /\ \A c \in refs : Verifies(c)

\* What a put u under the name p has spooled, uploaded or made visible.
PutOk(p, u) ==
    /\ u \in FullPuts \cup BarePuts \cup CheckedPuts
    /\ u \in FullPuts =>
          /\ u.read <= SizeOf[u.content] /\ u.read <= SizeLimit
          /\ u.at = "spool" /\ store = "filesystem" => p \in DOMAIN temps /\ temps[p] = u.read
          /\ u.at = "visible" =>
                store = "s3" /\ p \in DOMAIN temps /\ temps[p] = u.read /\ u.read = SizeOf[u.content]
          /\ u.at \in {"cleanup", "verify"} => Verifies(u.content)
    /\ u \in CheckedPuts => u.verified

StoreRight ==
    /\ upload \in [Puts -> FullPuts \cup BarePuts \cup CheckedPuts]
    /\ ObjectsRight /\ \A p \in Puts : PutOk(p, upload[p])

\* The three kinds of put are told apart by their fields.
LEMMA PutKinds ==
  /\ \A u \in FullPuts : /\ "content" \in DOMAIN u /\ "verified" \notin DOMAIN u
                         /\ u \notin BarePuts /\ u \notin CheckedPuts
  /\ \A u \in BarePuts : /\ "content" \notin DOMAIN u /\ "verified" \notin DOMAIN u
                         /\ u \notin FullPuts /\ u \notin CheckedPuts
  /\ \A u \in CheckedPuts : /\ "content" \notin DOMAIN u
                            /\ u \notin BarePuts /\ u \notin FullPuts
<1>1. \A u \in FullPuts : DOMAIN u = {"at", "content", "read"}
  BY DEF FullPuts
<1>2. \A u \in BarePuts : DOMAIN u = {"at"}
  BY DEF BarePuts
<1>3. \A u \in CheckedPuts : DOMAIN u = {"at", "verified"}
  BY DEF CheckedPuts
<1> QED BY <1>1, <1>2, <1>3

\* A put begins.
LEMMA PutBegins ==
  ASSUME NEW c \in Contents
  PROVE  /\ [at |-> "spool", content |-> c, read |-> 0] \in FullPuts
         /\ [at |-> "spool", content |-> c, read |-> 0].at = "spool"
         /\ [at |-> "spool", content |-> c, read |-> 0].read = 0
         /\ [at |-> "spool", content |-> c, read |-> 0].content = c
BY DEF FullPuts

\* A put that has nothing to show is in order.
LEMMA BareOk ==
  /\ [at |-> "idle"] \in BarePuts /\ [at |-> "done"] \in BarePuts /\ [at |-> "cleanup"] \in BarePuts
  /\ \A p \in Puts : \A u \in BarePuts : PutOk(p, u)
  /\ (\A p \in Puts : \A u \in BarePuts : PutOk(p, u))'
BY PutKinds DEF BarePuts, PutOk

\* An empty store.
LEMMA StoreStart == ArtifactInit => StoreRight
<1> SUFFICES ASSUME ArtifactInit PROVE StoreRight
  OBVIOUS
<1>1. Idle \in BarePuts
  BY BareOk DEF Idle
<1>2. upload \in [Puts -> FullPuts \cup BarePuts \cup CheckedPuts] /\ \A p \in Puts : upload[p] = Idle
  BY <1>1 DEF ArtifactInit
<1>3. ObjectsRight
  BY DEF ArtifactInit, ObjectsRight
<1> QED BY <1>1, <1>2, <1>3, BareOk DEF StoreRight

\* What one put does leaves the others in order: their temporaries are their own,
\* and a content that is there stays.
LEMMA OtherPutsOk ==
  ASSUME StoreRight, NEW p \in Puts, NEW u \in FullPuts \cup BarePuts \cup CheckedPuts,
         upload' = [upload EXCEPT ![p] = u], store' = store,
         \A q \in Puts \ {p} : q \in DOMAIN temps => q \in DOMAIN temps' /\ temps'[q] = temps[q],
         \A c \in Contents : Verifies(c) => Verifies(c)',
         ObjectsRight', PutOk(p, u)'
  PROVE  StoreRight'
<1>1. /\ upload' \in [Puts -> FullPuts \cup BarePuts \cup CheckedPuts] /\ upload'[p] = u
      /\ \A q \in Puts \ {p} : upload'[q] = upload[q]
  BY DEF StoreRight
<1>2. ASSUME NEW q \in Puts \ {p} PROVE PutOk(q, upload[q])'
  <2>1. PutOk(q, upload[q]) /\ upload'[q] = upload[q]
    BY <1>1 DEF StoreRight
  <2>2. upload[q] \in FullPuts => upload[q].content \in Contents
    BY DEF FullPuts
  <2> QED BY <2>1, <2>2 DEF PutOk
<1>3. PutOk(p, upload[p])'
  BY <1>1
<1> QED BY <1>1, <1>2, <1>3 DEF StoreRight

\* A step that changes no object keeps what is said of them.
LEMMA SameObjects ==
  ASSUME StoreRight, UNCHANGED <<store, objects, refs>>, DOMAIN temps' \subseteq Puts
  PROVE  ObjectsRight' /\ \A c \in Contents : Verifies(c) => Verifies(c)'
BY DEF StoreRight, ObjectsRight, Verifies

\* The temporary of one put.
LEMMA TempFacts ==
  ASSUME NEW p \in Puts, NEW n, DOMAIN temps \subseteq Puts
  PROVE  /\ DOMAIN WithTemp(p, n) \subseteq Puts /\ p \in DOMAIN WithTemp(p, n) /\ WithTemp(p, n)[p] = n
         /\ DOMAIN WithoutTemp(p) \subseteq Puts
         /\ \A q \in Puts \ {p} : q \in DOMAIN temps =>
               /\ q \in DOMAIN WithTemp(p, n) /\ WithTemp(p, n)[q] = temps[q]
               /\ q \in DOMAIN WithoutTemp(p) /\ WithoutTemp(p)[q] = temps[q]
BY DEF WithTemp, WithoutTemp

\* A put that gives up has nothing to show.
LEMMA PutGivesUp ==
  ASSUME StoreRight, NEW p \in Puts, NEW u \in BarePuts,
         upload' = [upload EXCEPT ![p] = u], UNCHANGED <<store, objects, refs>>,
         DOMAIN temps' \subseteq Puts,
         \A q \in Puts \ {p} : q \in DOMAIN temps => q \in DOMAIN temps' /\ temps'[q] = temps[q]
  PROVE  StoreRight'
<1>1. ObjectsRight' /\ \A x \in Contents : Verifies(x) => Verifies(x)'
  BY SameObjects
<1>2. PutOk(p, u)'
  BY BareOk
<1>3. u \in FullPuts \cup BarePuts \cup CheckedPuts
  OBVIOUS
<1> QED BY <1>1, <1>2, <1>3, OtherPutsOk

\* Reading the source, chunk by chunk.
LEMMA SpoolRight ==
  ASSUME StoreRight, NEW p \in Puts, store' = store,
         ReadChunk(p) \/ \E c \in Contents : BeginPut(p, c)
  PROVE  StoreRight'
<1> USE ArtifactAssumption
<1>1. /\ DOMAIN temps \subseteq Puts /\ upload[p] \in FullPuts \cup BarePuts \cup CheckedPuts
      /\ PutOk(p, upload[p])
  BY DEF StoreRight, ObjectsRight
<1>2. CASE \E c \in Contents : BeginPut(p, c)
  <2>1. PICK c \in Contents : BeginPut(p, c)
    BY <1>2
  <2>2. PICK u \in FullPuts : /\ u = [at |-> "spool", content |-> c, read |-> 0]
                              /\ u.at = "spool" /\ u.read = 0 /\ u.content = c
    BY PutBegins
  <2>3. /\ upload' = [upload EXCEPT ![p] = u] /\ UNCHANGED <<objects, refs>>
        /\ temps' = IF store = "filesystem" THEN WithTemp(p, 0) ELSE temps
    BY <2>1, <2>2 DEF BeginPut
  <2>4. ObjectsRight' /\ \A x \in Contents : Verifies(x) => Verifies(x)'
    BY <1>1, <2>3, TempFacts, SameObjects
  <2>5. store = "filesystem" => p \in DOMAIN temps' /\ temps'[p] = 0
    BY <1>1, <2>3, TempFacts
  <2>6. SizeOf[c] \in Nat
    OBVIOUS
  <2>7. PutOk(p, u)'
    BY <2>2, <2>5, <2>6, PutKinds DEF PutOk
  <2>8. \A q \in Puts \ {p} : q \in DOMAIN temps => q \in DOMAIN temps' /\ temps'[q] = temps[q]
    BY <1>1, <2>3, TempFacts
  <2> QED BY <2>2, <2>3, <2>4, <2>7, <2>8, OtherPutsOk
<1>3. CASE ReadChunk(p)
  <2>1. /\ upload[p].at = "spool" /\ upload[p].read < SizeOf[upload[p].content]
        /\ UNCHANGED <<objects, refs>>
    BY <1>3 DEF ReadChunk, Uploading
  <2>2. upload[p] \in FullPuts
    BY <1>1, <2>1 DEF BarePuts, CheckedPuts
  <2>3. /\ upload[p].read \in Nat /\ upload[p].content \in Contents
        /\ SizeOf[upload[p].content] \in Nat
    BY <2>2 DEF FullPuts
  <2>4. CASE TooLarge(upload[p].read + 1)
    <3>1. upload' = [upload EXCEPT ![p] = [at |-> "done"]] /\ temps' = WithoutTemp(p)
      BY <1>3, <2>4 DEF ReadChunk
    <3>2. /\ DOMAIN temps' \subseteq Puts
          /\ \A q \in Puts \ {p} : q \in DOMAIN temps => q \in DOMAIN temps' /\ temps'[q] = temps[q]
      BY <1>1, <3>1, TempFacts
    <3>3. [at |-> "done"] \in BarePuts
      BY BareOk
    <3> QED BY <2>1, <3>1, <3>2, <3>3, PutGivesUp
  <2>5. CASE ~TooLarge(upload[p].read + 1)
    <3>2. PICK u \in FullPuts : /\ u = [upload[p] EXCEPT !.read = upload[p].read + 1]
                                /\ u.at = "spool" /\ u.read = upload[p].read + 1
                                /\ u.content = upload[p].content
      <4>1. /\ [upload[p] EXCEPT !.read = upload[p].read + 1] \in FullPuts
            /\ [upload[p] EXCEPT !.read = upload[p].read + 1].at = upload[p].at
            /\ [upload[p] EXCEPT !.read = upload[p].read + 1].read = upload[p].read + 1
            /\ [upload[p] EXCEPT !.read = upload[p].read + 1].content = upload[p].content
        BY <2>2, <2>3 DEF FullPuts
      <4> QED BY <2>1, <4>1
    <3>1. /\ upload' = [upload EXCEPT ![p] = u]
          /\ temps' = IF store = "filesystem" THEN WithTemp(p, upload[p].read + 1) ELSE temps
      BY <1>3, <2>5, <3>2 DEF ReadChunk
    <3>3. ObjectsRight' /\ \A x \in Contents : Verifies(x) => Verifies(x)'
      BY <1>1, <2>1, <3>1, TempFacts, SameObjects
    <3>4. store = "filesystem" => p \in DOMAIN temps' /\ temps'[p] = upload[p].read + 1
      BY <1>1, <3>1, TempFacts
    <3>5. u.read <= SizeOf[u.content] /\ u.read <= SizeLimit
      BY <2>1, <2>3, <2>5, <3>2 DEF TooLarge
    <3>6. PutOk(p, u)'
      BY <3>2, <3>4, <3>5, PutKinds DEF PutOk
    <3>7. \A q \in Puts \ {p} : q \in DOMAIN temps => q \in DOMAIN temps' /\ temps'[q] = temps[q]
      BY <1>1, <3>1, TempFacts
    <3> QED BY <3>1, <3>2, <3>3, <3>6, <3>7, OtherPutsOk
  <2> QED BY <2>4, <2>5
<1> QED BY <1>2, <1>3

\* The temporary object of the S3 store.
LEMMA TempRight ==
  ASSUME StoreRight, NEW p \in Puts, store' = store,
         UploadTemp(p) \/ CopyFails(p) \/ \E n \in 0 .. SizeLimit : UploadFails(p, n)
  PROVE  StoreRight'
<1> USE ArtifactAssumption
<1>1. /\ DOMAIN temps \subseteq Puts /\ upload[p] \in FullPuts \cup BarePuts \cup CheckedPuts
      /\ PutOk(p, upload[p]) /\ UNCHANGED <<objects, refs>>
  BY DEF StoreRight, ObjectsRight, UploadTemp, CopyFails, UploadFails
<1>2. CASE CopyFails(p) \/ \E n \in 0 .. SizeLimit : UploadFails(p, n)
  <2>1. /\ upload' = [upload EXCEPT ![p] = [at |-> "cleanup"]]
        /\ temps' = temps \/ \E n \in 0 .. SizeLimit : temps' = WithTemp(p, n)
    BY <1>2 DEF CopyFails, UploadFails
  <2>2. /\ DOMAIN temps' \subseteq Puts
        /\ \A q \in Puts \ {p} : q \in DOMAIN temps => q \in DOMAIN temps' /\ temps'[q] = temps[q]
    BY <1>1, <2>1, TempFacts
  <2>3. [at |-> "cleanup"] \in BarePuts
    BY BareOk
  <2> QED BY <1>1, <2>1, <2>2, <2>3, PutGivesUp
<1>3. CASE UploadTemp(p)
  <2>1. /\ store = "s3" /\ upload[p].at = "spool" /\ upload[p].read = SizeOf[upload[p].content]
        /\ temps' = WithTemp(p, upload[p].read)
    BY <1>3 DEF UploadTemp, Spooled, Uploading
  <2>2. upload[p] \in FullPuts
    BY <1>1, <2>1 DEF BarePuts, CheckedPuts
  <2>4. PICK u \in FullPuts : /\ u = [upload[p] EXCEPT !.at = "visible"] /\ u.at = "visible"
                              /\ u.read = upload[p].read /\ u.content = upload[p].content
    <3>1. /\ [upload[p] EXCEPT !.at = "visible"] \in FullPuts
          /\ [upload[p] EXCEPT !.at = "visible"].at = "visible"
          /\ [upload[p] EXCEPT !.at = "visible"].read = upload[p].read
          /\ [upload[p] EXCEPT !.at = "visible"].content = upload[p].content
      BY <2>2 DEF FullPuts
    <3> QED BY <3>1
  <2>3. upload' = [upload EXCEPT ![p] = u]
    BY <1>3, <2>4 DEF UploadTemp, Becomes
  <2>5. ObjectsRight' /\ \A x \in Contents : Verifies(x) => Verifies(x)'
    BY <1>1, <2>1, TempFacts, SameObjects
  <2>6. p \in DOMAIN temps' /\ temps'[p] = upload[p].read
    BY <1>1, <2>1, TempFacts
  <2>7. u.read <= SizeOf[u.content] /\ u.read <= SizeLimit
    BY <1>1, <2>2, <2>4 DEF PutOk
  <2>8. PutOk(p, u)'
    BY <2>1, <2>4, <2>6, <2>7, PutKinds DEF PutOk
  <2>9. \A q \in Puts \ {p} : q \in DOMAIN temps => q \in DOMAIN temps' /\ temps'[q] = temps[q]
    BY <1>1, <2>1, TempFacts
  <2> QED BY <2>3, <2>4, <2>5, <2>8, <2>9, OtherPutsOk
<1> QED BY <1>2, <1>3

\* os.replace, or copy_object: all of the content comes at once.
LEMMA VisibleRight ==
  ASSUME StoreRight, NEW p \in Puts, store' = store, MakeVisible(p)
  PROVE  StoreRight'
<1> USE ArtifactAssumption
<1>1. /\ DOMAIN temps \subseteq Puts /\ upload[p] \in FullPuts \cup BarePuts \cup CheckedPuts
      /\ PutOk(p, upload[p]) /\ ObjectsRight
  BY DEF StoreRight, ObjectsRight
<1>2. upload[p].at = IF store = "s3" THEN "visible" ELSE "spool"
  BY DEF MakeVisible, Uploading, Spooled
<1>3. upload[p] \in FullPuts
  BY <1>1, <1>2 DEF BarePuts, CheckedPuts
<1>4. PICK c \in Contents : c = upload[p].content /\ upload[p].read \in Nat /\ SizeOf[c] \in Nat
  BY <1>3 DEF FullPuts
<1>5. temps[p] = SizeOf[c] /\ upload[p].read = SizeOf[c] /\ SizeOf[c] <= SizeLimit
  <2>1. CASE store = "s3"
    BY <1>1, <1>2, <1>3, <1>4, <2>1 DEF PutOk
  <2>2. CASE store # "s3"
    BY <1>1, <1>2, <1>3, <1>4, <2>2 DEF PutOk, ObjectsRight, MakeVisible, Spooled
  <2> QED BY <2>1, <2>2
<1>6. objects' = [objects EXCEPT ![c] = Complete(c)]
  BY <1>4, <1>5 DEF MakeVisible, Complete
<1>8. PICK u \in FullPuts :
         /\ u = [upload[p] EXCEPT !.at = IF store = "s3" THEN "cleanup" ELSE "verify"]
         /\ u.at \in {"cleanup", "verify"} /\ u.read = upload[p].read /\ u.content = c
  <2>1. PICK a \in {"cleanup", "verify"} : a = IF store = "s3" THEN "cleanup" ELSE "verify"
    OBVIOUS
  <2>2. /\ [upload[p] EXCEPT !.at = a] \in FullPuts /\ [upload[p] EXCEPT !.at = a].at = a
        /\ [upload[p] EXCEPT !.at = a].read = upload[p].read
        /\ [upload[p] EXCEPT !.at = a].content = upload[p].content
    BY <1>3 DEF FullPuts
  <2> QED BY <1>4, <2>1, <2>2
<1>7. /\ upload' = [upload EXCEPT ![p] = u] /\ (temps' = temps \/ temps' = WithoutTemp(p))
      /\ refs' \subseteq refs \cup {c}
  BY <1>4, <1>8 DEF MakeVisible, Becomes
<1>9. /\ objects' \in [Contents -> {NoObject} \cup {Complete(x) : x \in Contents}]
      /\ objects'[c] = Complete(c) /\ \A x \in Contents \ {c} : objects'[x] = objects[x]
  BY <1>1, <1>4, <1>6 DEF ObjectsRight
<1>10. /\ \A x \in Contents : Verifies(x) => Verifies(x)'
       /\ Verifies(c)'
  BY <1>4, <1>9 DEF Verifies
<1>11. /\ DOMAIN temps' \subseteq Puts
       /\ \A q \in Puts \ {p} : q \in DOMAIN temps => q \in DOMAIN temps' /\ temps'[q] = temps[q]
  BY <1>1, <1>7, TempFacts
<1>12. ObjectsRight'
  <2>1. \A x \in Contents : objects'[x] \in {NoObject, Complete(x)}
    BY <1>1, <1>9 DEF ObjectsRight
  <2>2. \A x \in Contents : objects'[x] # NoObject => SizeOf[x] <= SizeLimit
    BY <1>1, <1>5, <1>9 DEF ObjectsRight
  <2>3. refs' \subseteq Contents /\ \A x \in refs' : Verifies(x)'
    BY <1>1, <1>4, <1>7, <1>10 DEF ObjectsRight
  <2> QED BY <1>1, <1>9, <1>11, <2>1, <2>2, <2>3 DEF ObjectsRight
<1>13. PutOk(p, u)'
  BY <1>4, <1>5, <1>8, <1>10, PutKinds DEF PutOk
<1> QED BY <1>7, <1>8, <1>10, <1>11, <1>12, <1>13, OtherPutsOk

\* Removing the temporary object, and the check of the reference.
LEMMA CleanupRight ==
  ASSUME StoreRight, NEW p \in Puts, store' = store,
         VerifyPut(p) \/ \E works \in BOOLEAN : Cleanup(p, works)
  PROVE  StoreRight'
<1> USE ArtifactAssumption
<1>1. /\ DOMAIN temps \subseteq Puts /\ upload[p] \in FullPuts \cup BarePuts \cup CheckedPuts
      /\ PutOk(p, upload[p]) /\ ObjectsRight /\ objects' = objects
  BY DEF StoreRight, ObjectsRight, VerifyPut, Cleanup
<1>2. CASE VerifyPut(p)
  <2>1. upload[p].at = "verify" /\ UNCHANGED <<temps, refs>>
    BY <1>2 DEF VerifyPut, Uploading
  <2>2. upload[p] \in FullPuts
    BY <1>1, <2>1 DEF BarePuts, CheckedPuts
  <2>3. Verifies(upload[p].content) = TRUE
    BY <1>1, <2>1, <2>2 DEF PutOk, Verifies
  <2>4. upload' = [upload EXCEPT ![p] = [at |-> "done", verified |-> TRUE]]
    BY <1>2, <2>3 DEF VerifyPut
  <2>5. [at |-> "done", verified |-> TRUE] \in CheckedPuts /\ [at |-> "done", verified |-> TRUE].verified
    BY DEF CheckedPuts
  <2>6. PutOk(p, [at |-> "done", verified |-> TRUE])'
    BY <2>5, PutKinds DEF PutOk
  <2>7. ObjectsRight' /\ \A x \in Contents : Verifies(x) => Verifies(x)'
    BY <1>1, <2>1, SameObjects
  <2> QED BY <2>1, <2>4, <2>5, <2>6, <2>7, OtherPutsOk
<1>3. ASSUME NEW works \in BOOLEAN, Cleanup(p, works) PROVE StoreRight'
  <2>1. upload[p].at = "cleanup" /\ (temps' = temps \/ temps' = WithoutTemp(p))
    BY <1>3 DEF Cleanup, Uploading
  <2>2. /\ DOMAIN temps' \subseteq Puts
        /\ \A q \in Puts \ {p} : q \in DOMAIN temps => q \in DOMAIN temps' /\ temps'[q] = temps[q]
    BY <1>1, <2>1, TempFacts
  <2>3. CASE upload[p] \in FullPuts /\ works
    <3>2. PICK u \in FullPuts : /\ u = [upload[p] EXCEPT !.at = "verify"] /\ u.at = "verify"
                                /\ u.read = upload[p].read /\ u.content = upload[p].content
      <4>1. /\ [upload[p] EXCEPT !.at = "verify"] \in FullPuts
            /\ [upload[p] EXCEPT !.at = "verify"].at = "verify"
            /\ [upload[p] EXCEPT !.at = "verify"].read = upload[p].read
            /\ [upload[p] EXCEPT !.at = "verify"].content = upload[p].content
        BY <2>3 DEF FullPuts
      <4> QED BY <4>1
    <3>7. u.content \in Contents
      BY DEF FullPuts
    <3>1. upload' = [upload EXCEPT ![p] = u] /\ refs' = refs \cup {upload[p].content}
      BY <1>3, <2>3, <3>2, PutKinds DEF Cleanup, Becomes
    <3>3. Verifies(u.content)
      BY <1>1, <2>1, <2>3, <3>2 DEF PutOk
    <3>4. \A x \in Contents : Verifies(x)' = Verifies(x)
      BY <1>1 DEF Verifies
    <3>5. ObjectsRight'
      BY <1>1, <2>2, <3>1, <3>2, <3>3, <3>4, <3>7 DEF ObjectsRight
    <3>6. PutOk(p, u)'
      BY <1>1, <2>3, <3>2, <3>3, <3>4, <3>7, PutKinds DEF PutOk
    <3> QED BY <2>2, <3>1, <3>2, <3>4, <3>5, <3>6, OtherPutsOk
  <2>4. CASE ~(upload[p] \in FullPuts /\ works)
    <3>1. /\ refs' = refs
          /\ \/ upload' = [upload EXCEPT ![p] = [at |-> "cleanup"]]
             \/ upload' = [upload EXCEPT ![p] = [at |-> "done"]]
      BY <1>1, <1>3, <2>4, PutKinds DEF Cleanup
    <3>2. [at |-> "done"] \in BarePuts /\ [at |-> "cleanup"] \in BarePuts
      BY BareOk
    <3> QED BY <1>1, <2>2, <3>1, <3>2, PutGivesUp
  <2> QED BY <2>3, <2>4
<1> QED BY <1>2, <1>3

\* Every step of every put, and a crash, keeps the store in order.
LEMMA StoreKept == StoreRight /\ [ArtifactNext]_artifactVars => StoreRight'
<1> SUFFICES ASSUME StoreRight, [ArtifactNext]_artifactVars PROVE StoreRight'
  OBVIOUS
<1>1. CASE UNCHANGED artifactVars
  BY <1>1 DEF artifactVars, StoreRight, ObjectsRight, PutOk, Verifies
<1>2. CASE CrashStore /\ store' = store
  <2>1. /\ upload' = [q \in Puts |-> IF upload[q] = Idle THEN Idle ELSE [at |-> "done"]]
        /\ UNCHANGED <<temps, objects, refs>>
    BY <1>2 DEF CrashStore
  <2>2. /\ \A q \in Puts : upload'[q] \in BarePuts
        /\ upload' \in [Puts -> FullPuts \cup BarePuts \cup CheckedPuts]
    BY <2>1, BareOk DEF Idle
  <2>3. ObjectsRight'
    BY <1>2, <2>1, SameObjects DEF StoreRight, ObjectsRight
  <2> QED BY <2>2, <2>3, BareOk DEF StoreRight
<1> QED BY <1>1, <1>2, SpoolRight, TempRight, VisibleRight, CleanupRight DEF ArtifactNext, ArtifactStep

\* What the store promises.
LEMMA StorePromises == StoreRight => ArtifactTypeOK /\ DigestsAreTrue
<1> SUFFICES ASSUME StoreRight PROVE ArtifactTypeOK /\ DigestsAreTrue
  OBVIOUS
<1>1. \A p \in Puts : upload[p] \in FullPuts \cup BarePuts \cup CheckedPuts /\ PutOk(p, upload[p])
  BY DEF StoreRight
<1>2. \A p \in Puts : upload[p].at \in UploadSteps
  BY <1>1 DEF FullPuts, BarePuts, CheckedPuts, UploadSteps
<1>3. \A p \in Puts : "verified" \in DOMAIN upload[p] => upload[p].verified
  BY <1>1, PutKinds DEF PutOk
<1>4. ArtifactTypeOK
  BY <1>2 DEF StoreRight, ObjectsRight, ArtifactTypeOK
<1> QED BY <1>3, <1>4 DEF StoreRight, ObjectsRight, DigestsAreTrue

-------------------------------------------------------------------------------
(* The pinned fetch and the render *)

ScrapeRows ==
    [at : FetchSteps, engine : Engines, host : Hosts, addrs : SUBSET Addrs,
     ip : Addrs \cup {NoAddr}, hops : 0 .. MaxRedirects, paid : BOOLEAN,
     page : Pages \cup {"none"}, outcome : Outcomes]
AskedRows == [at : {"idle", "asked", "answered", "aborted", "fulfilled"}, limit : Nat, size : Nat]

\* The steps of a fetch between its `async with self._lock` and the end of it.
LockedSteps == {"resolve", "connect", "verify", "body"}

\* What a guard has handed out and what it has left are the allowance.
GuardRight ==
    /\ remaining \in [Scrapes -> 0 .. Allowance] /\ delivered \in [Scrapes -> Nat]
    /\ \A s \in Scrapes : delivered[s] + remaining[s] = Allowance
    /\ sub \in [Scrapes -> [Subrequests -> AskedRows]]

\* What is known of a scrape s in the state r.
ScrapeOk(s, r) ==
    /\ (holder = s) <=> (r.at \in LockedSteps)
    /\ r.at = "idle" => r.page = "none"
    /\ r.at \in LockedSteps \cup {"lock", "classify"} => r.engine # "browser"
    /\ r.at = "connect" => pin = [host |-> r.host, addrs |-> r.addrs]
    /\ r.at \in {"connect", "verify"} => r.addrs \subseteq PublicAddrs
    /\ r.at \in {"body", "classify"} => r.ip \in PublicAddrs \cap r.addrs
    /\ r.at # "done" => r.outcome = "none"
    /\ r.outcome = "ok" => r.host = Home /\ (r.engine # "http" => r.page # "challenge")
    /\ r.at \in {"public", "reserve", "render"} => r.page # "document"
    /\ r.at = "render" => r.paid

FetchRight ==
    /\ holder \in Scrapes \cup {NoScrape} /\ open \in [Hosts -> Addrs \cup {NoAddr}]
    /\ scrape \in [Scrapes -> ScrapeRows] /\ \A s \in Scrapes : ScrapeOk(s, scrape[s])
    /\ GuardRight

\* Nothing is fetched and nobody holds the lock.
LEMMA FetchStart == FetchInit => FetchRight
<1> SUFFICES ASSUME FetchInit PROVE FetchRight
  OBVIOUS
<1> USE FetchAssumption
<1>1. PICK engine \in Engines :
        scrape = [s \in Scrapes |->
                    [at |-> "idle", engine |-> engine, host |-> Home, addrs |-> {},
                     ip |-> NoAddr, hops |-> 0, paid |-> FALSE, page |-> "none",
                     outcome |-> "none"]]
  BY DEF FetchInit
<1>2. scrape \in [Scrapes -> ScrapeRows]
  BY <1>1 DEF ScrapeRows, FetchSteps, Engines, Outcomes
<1>3. \A s \in Scrapes : /\ scrape[s].at = "idle" /\ scrape[s].page = "none"
                         /\ scrape[s].outcome = "none"
  BY <1>1
<1>4. \A s \in Scrapes : holder # s
  BY DEF FetchInit
<1>5. \A s \in Scrapes : ScrapeOk(s, scrape[s])
  BY <1>3, <1>4 DEF ScrapeOk, LockedSteps
<1>6. Unasked \in AskedRows
  BY DEF Unasked, AskedRows
<1>7. GuardRight
  BY <1>6 DEF FetchInit, GuardRight
<1> QED BY <1>2, <1>5, <1>7 DEF FetchInit, FetchRight

\* A step of one scrape leaves the others as they were: only the holder of the
\* lock changes the pins.
LEMMA OtherScrapesOk ==
  ASSUME FetchRight, NEW s \in Scrapes,
         scrape' \in [Scrapes -> ScrapeRows], \A o \in Scrapes \ {s} : scrape'[o] = scrape[o],
         holder' \in Scrapes \cup {NoScrape},
         \A o \in Scrapes \ {s} : (holder' = o) = (holder = o),
         pin' = pin \/ holder = s, open' \in [Hosts -> Addrs \cup {NoAddr}],
         ScrapeOk(s, scrape[s])', GuardRight'
  PROVE  FetchRight'
<1>1. ASSUME NEW o \in Scrapes \ {s} PROVE ScrapeOk(o, scrape[o])'
  <2>1. ScrapeOk(o, scrape[o])
    BY DEF FetchRight
  <2>2. scrape'[o] = scrape[o] /\ (holder' = o) = (holder = o)
    OBVIOUS
  <2>3. scrape[o].at = "connect" => holder = o
    BY <2>1 DEF ScrapeOk, LockedSteps
  <2>4. scrape[o].at = "connect" => pin' = pin
    BY <2>3
  <2> QED BY <2>1, <2>2, <2>4 DEF ScrapeOk
<1> QED BY <1>1 DEF FetchRight

\* A step that no guard takes part in leaves the guards alone.
LEMMA SameGuard == FetchRight /\ UNCHANGED <<guardVars, sub>> => GuardRight'
BY DEF FetchRight, GuardRight, guardVars

\* The row of a scrape that has ended.
LEMMA EndedRow ==
  ASSUME FetchRight, NEW s \in Scrapes, NEW o \in Outcomes, Ends(s, o)
  PROVE  /\ scrape' \in [Scrapes -> ScrapeRows] /\ \A x \in Scrapes \ {s} : scrape'[x] = scrape[x]
         /\ scrape'[s].at = "done" /\ scrape'[s].outcome = o /\ scrape'[s].host = scrape[s].host
         /\ scrape'[s].engine = scrape[s].engine /\ scrape'[s].page = scrape[s].page
<1> DEFINE r == [scrape[s] EXCEPT !.at = "done", !.outcome = o, !.addrs = {}, !.ip = NoAddr, !.hops = 0]
<1>1. scrape[s] \in ScrapeRows /\ scrape \in [Scrapes -> ScrapeRows]
  BY DEF FetchRight
<1>2. "done" \in FetchSteps /\ {} \in SUBSET Addrs /\ NoAddr \in Addrs \cup {NoAddr} /\ 0 \in 0 .. MaxRedirects
  BY FetchAssumption DEF FetchSteps
<1>4. r \in ScrapeRows
  BY <1>1, <1>2 DEF ScrapeRows
<1>5. /\ r.at = "done" /\ r.outcome = o /\ r.host = scrape[s].host
      /\ r.engine = scrape[s].engine /\ r.page = scrape[s].page
  BY <1>1 DEF ScrapeRows
<1>3. scrape' = [scrape EXCEPT ![s] = r]
  BY <1>1 DEF Ends
<1> HIDE DEF r
<1> QED BY <1>1, <1>3, <1>4, <1>5

\* A scrape may end with anything but a page, and with the page it has when that
\* is of the origin that was asked for; the lock it held is given back.
LEMMA EndedRight ==
  ASSUME FetchRight, NEW s \in Scrapes, NEW o \in Outcomes, Ends(s, o),
         o = "ok" => /\ scrape[s].host = Home
                     /\ scrape[s].engine # "http" => scrape[s].page # "challenge",
         IF scrape[s].at \in LockedSteps THEN Unlock ELSE UNCHANGED holder,
         UNCHANGED <<pin, open>>, GuardRight'
  PROVE  FetchRight'
<1>1. /\ scrape' \in [Scrapes -> ScrapeRows] /\ \A x \in Scrapes \ {s} : scrape'[x] = scrape[x]
      /\ scrape'[s].at = "done" /\ scrape'[s].outcome = o /\ scrape'[s].host = scrape[s].host
      /\ scrape'[s].engine = scrape[s].engine /\ scrape'[s].page = scrape[s].page
  BY EndedRow
<1>2. (holder = s) <=> (scrape[s].at \in LockedSteps)
  BY DEF FetchRight, ScrapeOk
<1>3. /\ holder' # s /\ holder' \in Scrapes \cup {NoScrape}
      /\ \A x \in Scrapes \ {s} : (holder' = x) = (holder = x)
  BY <1>2, FetchAssumption DEF FetchRight, Unlock
<1>4. ScrapeOk(s, scrape[s])'
  BY <1>1, <1>3 DEF ScrapeOk, LockedSteps
<1> QED BY <1>1, <1>3, <1>4, OtherScrapesOk DEF FetchRight

\* A scrape goes on to the row r.
LEMMA TurnsRight ==
  ASSUME FetchRight, NEW s \in Scrapes, NEW r \in ScrapeRows, scrape' = [scrape EXCEPT ![s] = r],
         holder' \in Scrapes \cup {NoScrape},
         \A o \in Scrapes \ {s} : (holder' = o) = (holder = o),
         pin' = pin \/ holder = s, open' \in [Hosts -> Addrs \cup {NoAddr}],
         ScrapeOk(s, r)', GuardRight'
  PROVE  FetchRight'
<1>1. /\ scrape' \in [Scrapes -> ScrapeRows] /\ \A o \in Scrapes \ {s} : scrape'[o] = scrape[o]
      /\ scrape'[s] = r
  BY DEF FetchRight
<1>2. ScrapeOk(s, scrape[s])'
  BY <1>1
<1> QED BY <1>1, <1>2, OtherScrapesOk

\* The fields of a scrape's row.
LEMMA RowFields ==
  ASSUME NEW r \in ScrapeRows
  PROVE  /\ r.at \in FetchSteps /\ r.engine \in Engines /\ r.host \in Hosts
         /\ r.addrs \in SUBSET Addrs /\ r.ip \in Addrs \cup {NoAddr} /\ r.hops \in 0 .. MaxRedirects
         /\ r.page \in Pages \cup {"none"} /\ r.outcome \in Outcomes
BY DEF ScrapeRows

\* Where the lock is: with s when s is between its two ends.
LEMMA LockPlace ==
  ASSUME FetchRight, NEW s \in Scrapes
  PROVE  /\ scrape[s] \in ScrapeRows /\ ScrapeOk(s, scrape[s])
         /\ scrape[s].at \in LockedSteps => holder = s
         /\ scrape[s].at \notin LockedSteps => holder # s
         /\ holder \in Scrapes \cup {NoScrape} /\ open \in [Hosts -> Addrs \cup {NoAddr}]
BY DEF FetchRight, ScrapeOk

\* A scrape begins, and waits for the lock.
LEMMA BeginRight ==
  ASSUME FetchRight, NEW s \in Scrapes, BeginScrape(s) \/ TakeLock(s)
  PROVE  FetchRight'
<1>1. GuardRight'
  BY SameGuard DEF BeginScrape, TakeLock
<1>2. CASE BeginScrape(s)
  <2>1. PICK a \in {"public", "lock"} :
           a = IF scrape[s].engine = "browser" THEN "public" ELSE "lock"
    OBVIOUS
  <2>2. a \in FetchSteps
    BY <2>1 DEF FetchSteps
  <2>3. PICK r \in ScrapeRows :
          /\ r = [scrape[s] EXCEPT !.at = a]
          /\ r.at = a /\ r.engine = scrape[s].engine /\ r.page = scrape[s].page
          /\ r.outcome = scrape[s].outcome
    <3>1. [scrape[s] EXCEPT !.at = a] \in ScrapeRows
      BY <2>2, LockPlace DEF ScrapeRows
    <3> QED BY <3>1, LockPlace DEF ScrapeRows
  <2>4. scrape' = [scrape EXCEPT ![s] = r] /\ UNCHANGED <<holder, pin, open>>
    BY <1>2, <2>1, <2>3 DEF BeginScrape
  <2>5. /\ scrape[s].page = "none" /\ scrape[s].outcome = "none" /\ holder # s
        /\ r.at = "lock" => r.engine # "browser"
    BY <1>2, <2>1, <2>3, LockPlace DEF BeginScrape, In, ScrapeOk, LockedSteps
  <2>6. ScrapeOk(s, r)'
    BY <2>1, <2>3, <2>4, <2>5 DEF ScrapeOk, LockedSteps
  <2> QED BY <1>1, <2>4, <2>6, LockPlace, TurnsRight
<1>3. CASE TakeLock(s)
  <2>1. "resolve" \in FetchSteps
    BY DEF FetchSteps
  <2>2. PICK r \in ScrapeRows :
          /\ r = [scrape[s] EXCEPT !.at = "resolve"]
          /\ r.at = "resolve" /\ r.engine = scrape[s].engine /\ r.outcome = scrape[s].outcome
    <3>1. [scrape[s] EXCEPT !.at = "resolve"] \in ScrapeRows
      BY <2>1, LockPlace DEF ScrapeRows
    <3> QED BY <3>1, LockPlace DEF ScrapeRows
  <2>3. /\ scrape' = [scrape EXCEPT ![s] = r] /\ UNCHANGED <<pin, open>> /\ holder' = s
        /\ holder = NoScrape /\ scrape[s].at = "lock"
    BY <1>3, <2>2 DEF TakeLock, LockFree, In
  <2>4. \A o \in Scrapes \ {s} : (holder' = o) = (holder = o)
    BY <2>3, FetchAssumption
  <2>5. ScrapeOk(s, r)'
    BY <2>2, <2>3, LockPlace DEF ScrapeOk, LockedSteps
  <2> QED BY <1>1, <2>3, <2>4, <2>5, LockPlace, TurnsRight
<1> QED BY <1>2, <1>3

\* The lookup: the addresses that are pinned are the ones that were validated.
LEMMA ResolveRight ==
  ASSUME FetchRight, NEW s \in Scrapes, NEW answer \in Answers, Resolve(s, answer)
  PROVE  FetchRight'
<1>1. /\ GuardRight' /\ scrape[s].at = "resolve" /\ scrape[s].at \in LockedSteps /\ holder = s
      /\ open' = open
  BY SameGuard, LockPlace DEF Resolve, In, LockedSteps
<1>2. CASE AllPublic(answer)
  <2>1. "connect" \in FetchSteps /\ answer \in SUBSET Addrs /\ answer \subseteq PublicAddrs
    BY <1>2 DEF FetchSteps, Answers, AllPublic
  <2>2. [scrape[s] EXCEPT !.at = "connect", !.addrs = answer] \in ScrapeRows
    BY <2>1, LockPlace DEF ScrapeRows
  <2>3. PICK r \in ScrapeRows :
          /\ r = [scrape[s] EXCEPT !.at = "connect", !.addrs = answer]
          /\ r.at = "connect" /\ r.addrs = answer /\ r.host = scrape[s].host
          /\ r.engine = scrape[s].engine /\ r.outcome = scrape[s].outcome
    BY <2>2, LockPlace DEF ScrapeRows
  <2>4. /\ scrape' = [scrape EXCEPT ![s] = r] /\ holder' = holder
        /\ pin' = [host |-> r.host, addrs |-> r.addrs]
    BY <1>2, <2>3, LockPlace DEF Resolve, FetchRight
  <2>5. ScrapeOk(s, r)'
    BY <1>1, <2>1, <2>3, <2>4, LockPlace DEF ScrapeOk, LockedSteps
  <2> QED BY <1>1, <2>4, <2>5, LockPlace, TurnsRight
<1>3. CASE ~AllPublic(answer)
  <2>1. Ends(s, "unsafe") /\ Unlock /\ pin' = pin /\ "unsafe" \in Outcomes
    BY <1>3 DEF Resolve, Outcomes
  <2> QED BY <1>1, <2>1, EndedRight
<1> QED BY <1>2, <1>3

\* The connection, and the answer of a server that was validated.
LEMMA ConnectRight ==
  ASSUME FetchRight, NEW s \in Scrapes, Answered(s) \/ \E ip \in Addrs : Connect(s, ip)
  PROVE  FetchRight'
<1>1. GuardRight' /\ holder' = holder /\ pin' = pin
  BY SameGuard DEF Answered, Connect
<1>2. ASSUME NEW ip \in Addrs, Connect(s, ip) PROVE FetchRight'
  <2>1. "verify" \in FetchSteps /\ ip \in Addrs \cup {NoAddr} /\ scrape[s].at = "connect"
    BY <1>2 DEF FetchSteps, Connect, In
  <2>2. [scrape[s] EXCEPT !.at = "verify", !.ip = ip] \in ScrapeRows
    BY <2>1, LockPlace DEF ScrapeRows
  <2>3. PICK r \in ScrapeRows :
          /\ r = [scrape[s] EXCEPT !.at = "verify", !.ip = ip]
          /\ r.at = "verify" /\ r.addrs = scrape[s].addrs
          /\ r.engine = scrape[s].engine /\ r.outcome = scrape[s].outcome
    BY <2>2, LockPlace DEF ScrapeRows
  <2>4. /\ scrape' = [scrape EXCEPT ![s] = r] /\ open' \in [Hosts -> Addrs \cup {NoAddr}]
    BY <1>2, <2>1, <2>3, LockPlace DEF Connect, FetchRight
  <2>5. ScrapeOk(s, r)'
    BY <1>1, <2>1, <2>3, LockPlace DEF ScrapeOk, LockedSteps
  <2> QED BY <1>1, <2>4, <2>5, LockPlace, TurnsRight
<1>3. CASE Answered(s)
  <2>1. /\ "body" \in FetchSteps /\ scrape[s].at = "verify" /\ open' = open
        /\ scrape[s].ip \in scrape[s].addrs
    BY <1>3 DEF FetchSteps, Answered, In, Verified
  <2>2. PICK r \in ScrapeRows :
          /\ r = [scrape[s] EXCEPT !.at = "body"] /\ r.at = "body" /\ r.addrs = scrape[s].addrs
          /\ r.ip = scrape[s].ip /\ r.engine = scrape[s].engine /\ r.outcome = scrape[s].outcome
    <3>1. [scrape[s] EXCEPT !.at = "body"] \in ScrapeRows
      BY <2>1, LockPlace DEF ScrapeRows
    <3> QED BY <3>1, LockPlace DEF ScrapeRows
  <2>3. scrape' = [scrape EXCEPT ![s] = r]
    BY <1>3, <2>2, LockPlace DEF Answered
  <2>4. ScrapeOk(s, r)'
    BY <1>1, <2>1, <2>2, LockPlace DEF ScrapeOk, LockedSteps
  <2> QED BY <1>1, <2>1, <2>3, <2>4, LockPlace, TurnsRight
<1> QED BY <1>2, <1>3

\* Every way out of the locked part: the error, the refusal, the redirect.
LEMMA LeaveRight ==
  ASSUME FetchRight, NEW s \in Scrapes,
         FetchFails(s) \/ RefuseConnected(s) \/ \E h \in Hosts : Redirected(s, h)
  PROVE  FetchRight'
<1>1. /\ GuardRight' /\ scrape[s].at \in LockedSteps /\ holder = s /\ UNCHANGED <<pin, open>>
      /\ "transport_error" \in Outcomes /\ "unsafe" \in Outcomes
  BY SameGuard, LockPlace DEF FetchFails, RefuseConnected, Redirected, In, LockedSteps, Outcomes
<1>2. CASE FetchFails(s) \/ RefuseConnected(s)
  <2>1. (Ends(s, "transport_error") \/ Ends(s, "unsafe")) /\ Unlock
    BY <1>2 DEF FetchFails, RefuseConnected
  <2> QED BY <1>1, <2>1, EndedRight
<1>3. ASSUME NEW h \in Hosts, Redirected(s, h) PROVE FetchRight'
  <2>1. CASE scrape[s].hops = MaxRedirects
    <3>1. Ends(s, "transport_error") /\ Unlock
      BY <1>3, <2>1 DEF Redirected
    <3> QED BY <1>1, <3>1, EndedRight
  <2>2. CASE scrape[s].hops # MaxRedirects
    <3>1. /\ scrape[s].hops + 1 \in 0 .. MaxRedirects /\ {} \in SUBSET Addrs
          /\ NoAddr \in Addrs \cup {NoAddr} /\ "resolve" \in FetchSteps
      BY <2>2, LockPlace, RowFields, FetchAssumption DEF FetchSteps
    <3>2. [scrape[s] EXCEPT !.at = "resolve", !.host = h, !.hops = scrape[s].hops + 1, !.addrs = {},
                            !.ip = NoAddr] \in ScrapeRows
      BY <3>1, LockPlace DEF ScrapeRows
    <3>3. PICK r \in ScrapeRows :
            /\ r = [scrape[s] EXCEPT !.at = "resolve", !.host = h, !.hops = scrape[s].hops + 1,
                                     !.addrs = {}, !.ip = NoAddr]
            /\ r.at = "resolve" /\ r.engine = scrape[s].engine /\ r.outcome = scrape[s].outcome
      BY <3>2, LockPlace DEF ScrapeRows
    <3>4. scrape' = [scrape EXCEPT ![s] = r] /\ holder' = holder
      BY <1>3, <2>2, <3>3 DEF Redirected
    <3>5. ScrapeOk(s, r)'
      BY <1>1, <3>3, <3>4, LockPlace DEF ScrapeOk, LockedSteps
    <3> QED BY <1>1, <3>4, <3>5, LockPlace, TurnsRight
  <2> QED BY <2>1, <2>2
<1> QED BY <1>2, <1>3

\* The body is read from the server that was verified.
LEMMA BodyRight ==
  ASSUME FetchRight, NEW s \in Scrapes, NEW size \in BodySizes, NEW p \in Pages, ReadBody(s, size, p)
  PROVE  FetchRight'
<1>1. /\ GuardRight' /\ scrape[s].at = "body" /\ scrape[s].at \in LockedSteps /\ holder = s
      /\ UNCHANGED <<pin, open>> /\ holder' = NoScrape /\ "transport_error" \in Outcomes
  BY SameGuard, LockPlace DEF ReadBody, In, LockedSteps, Outcomes, Unlock
<1>2. CASE size > Allowance
  <2>1. Ends(s, "transport_error") /\ Unlock
    BY <1>2 DEF ReadBody
  <2> QED BY <1>1, <2>1, EndedRight
<1>3. CASE ~(size > Allowance)
  <2>1. "classify" \in FetchSteps /\ p \in Pages \cup {"none"}
    BY DEF FetchSteps
  <2>2. [scrape[s] EXCEPT !.at = "classify", !.page = p] \in ScrapeRows
    BY <2>1, LockPlace DEF ScrapeRows
  <2>3. PICK r \in ScrapeRows :
          /\ r = [scrape[s] EXCEPT !.at = "classify", !.page = p]
          /\ r.at = "classify" /\ r.engine = scrape[s].engine /\ r.outcome = scrape[s].outcome
          /\ r.ip = scrape[s].ip /\ r.addrs = scrape[s].addrs
    BY <2>2, LockPlace DEF ScrapeRows
  <2>4. scrape' = [scrape EXCEPT ![s] = r]
    BY <1>3, <2>3, LockPlace DEF ReadBody
  <2>5. ScrapeOk(s, r)'
    BY <1>1, <2>3, LockPlace, FetchAssumption DEF ScrapeOk, LockedSteps
  <2>6. \A o \in Scrapes \ {s} : (holder' = o) = (holder = o)
    BY <1>1, FetchAssumption
  <2> QED BY <1>1, <2>4, <2>5, <2>6, LockPlace, TurnsRight
<1> QED BY <1>2, <1>3

\* The decision after the first tier.
LEMMA ClassifyRight ==
  ASSUME FetchRight, NEW s \in Scrapes, Classify(s) \/ ClassifyError(s)
  PROVE  FetchRight'
<1>1. /\ GuardRight' /\ scrape[s].at = "classify" /\ scrape[s].at \notin LockedSteps /\ holder # s
      /\ UNCHANGED <<holder, pin, open>>
      /\ {"policy_error", "http_status_error", "ok"} \subseteq Outcomes
  BY SameGuard, LockPlace DEF Classify, ClassifyError, In, LockedSteps, Outcomes
<1>2. /\ scrape[s].engine # "browser" /\ scrape[s].outcome = "none" /\ scrape[s].engine \in Engines
      /\ scrape[s].page \in Pages \cup {"none"}
  BY <1>1, LockPlace, RowFields DEF ScrapeOk
<1>3. CASE Ends(s, "policy_error") \/ Ends(s, "http_status_error")
  BY <1>1, <1>3, EndedRight
<1>4. CASE Classify(s) /\ SameOrigin(s) /\ Escalates(s)
  <2>1. /\ "public" \in FetchSteps /\ {} \in SUBSET Addrs /\ NoAddr \in Addrs \cup {NoAddr}
        /\ 0 \in 0 .. MaxRedirects
    BY FetchAssumption DEF FetchSteps
  <2>2. [scrape[s] EXCEPT !.at = "public", !.addrs = {}, !.ip = NoAddr, !.hops = 0] \in ScrapeRows
    BY <2>1, LockPlace DEF ScrapeRows
  <2>3. PICK r \in ScrapeRows :
          /\ r = [scrape[s] EXCEPT !.at = "public", !.addrs = {}, !.ip = NoAddr, !.hops = 0]
          /\ r.at = "public" /\ r.outcome = scrape[s].outcome /\ r.page = scrape[s].page
    BY <2>2, LockPlace DEF ScrapeRows
  <2>4. scrape' = [scrape EXCEPT ![s] = r]
    BY <1>4, <2>3, LockPlace DEF Classify
  <2>5. scrape[s].page \in {"shell", "challenge"}
    BY <1>4 DEF Escalates, NeedsBrowser
  <2>6. ScrapeOk(s, r)'
    BY <1>1, <1>2, <2>3, <2>5 DEF ScrapeOk, LockedSteps
  <2> QED BY <1>1, <2>4, <2>6, LockPlace, TurnsRight
<1>5. CASE Classify(s) /\ SameOrigin(s) /\ ~Escalates(s)
  <2>1. Ends(s, "ok")
    BY <1>5 DEF Classify
  <2>2. scrape[s].host = Home /\ (scrape[s].engine # "http" => scrape[s].page # "challenge")
    BY <1>2, <1>5 DEF SameOrigin, Escalates, NeedsBrowser, Engines
  <2> QED BY <1>1, <2>1, <2>2, EndedRight
<1>6. Classify(s) /\ ~SameOrigin(s) => Ends(s, "policy_error")
  BY DEF Classify
<1>7. ClassifyError(s) => Ends(s, "policy_error") \/ Ends(s, "http_status_error")
  BY DEF ClassifyError
<1> QED BY <1>3, <1>4, <1>5, <1>6, <1>7

\* Before the browser: the address is public and the render is paid for.
LEMMA BeforeRenderRight ==
  ASSUME FetchRight, NEW s \in Scrapes,
         \/ \E answer \in Answers : CheckPublic(s, answer)
         \/ \E granted \in BOOLEAN : ReserveBrowser(s, granted)
  PROVE  FetchRight'
<1>1. /\ GuardRight' /\ scrape[s].at \in {"public", "reserve"} /\ scrape[s].at \notin LockedSteps
      /\ holder # s /\ UNCHANGED <<holder, pin, open>>
      /\ {"unsafe", "browser_budget_exhausted"} \subseteq Outcomes
      /\ {"reserve", "render"} \subseteq FetchSteps
  BY SameGuard, LockPlace DEF CheckPublic, ReserveBrowser, In, LockedSteps, Outcomes, FetchSteps
<1>2. scrape[s].page # "document" /\ scrape[s].outcome = "none"
  BY <1>1, LockPlace DEF ScrapeOk
<1>3. CASE Ends(s, "unsafe") \/ Ends(s, "browser_budget_exhausted")
  BY <1>1, <1>3, EndedRight
<1>4. CASE scrape' = [scrape EXCEPT ![s].at = "reserve", ![s].host = Home]
  <2>1. "reserve" \in FetchSteps /\ Home \in Hosts /\ scrape[s] \in ScrapeRows
    BY <1>1, LockPlace, FetchAssumption
  <2>2. [scrape[s] EXCEPT !.at = "reserve", !.host = Home] \in ScrapeRows
    BY <2>1 DEF ScrapeRows
  <2>3. PICK r \in ScrapeRows :
          /\ r = [scrape[s] EXCEPT !.at = "reserve", !.host = Home]
          /\ r.at = "reserve" /\ r.outcome = scrape[s].outcome /\ r.page = scrape[s].page
    BY <2>2, LockPlace DEF ScrapeRows
  <2>4. scrape' = [scrape EXCEPT ![s] = r]
    BY <1>4, <2>3, LockPlace
  <2>6. ScrapeOk(s, r)'
    BY <1>1, <1>2, <2>3 DEF ScrapeOk, LockedSteps
  <2> QED BY <1>1, <2>4, <2>6, LockPlace, TurnsRight
<1>5. CASE scrape' = [scrape EXCEPT ![s].at = "render", ![s].paid = TRUE]
  <2>2. [scrape[s] EXCEPT !.at = "render", !.paid = TRUE] \in ScrapeRows
    BY <1>1, LockPlace DEF ScrapeRows
  <2>3. PICK r \in ScrapeRows :
          /\ r = [scrape[s] EXCEPT !.at = "render", !.paid = TRUE]
          /\ r.at = "render" /\ r.outcome = scrape[s].outcome /\ r.page = scrape[s].page /\ r.paid
    BY <2>2, LockPlace DEF ScrapeRows
  <2>4. scrape' = [scrape EXCEPT ![s] = r]
    BY <1>5, <2>3, LockPlace
  <2>6. ScrapeOk(s, r)'
    BY <1>1, <1>2, <2>3 DEF ScrapeOk, LockedSteps
  <2> QED BY <1>1, <2>4, <2>6, LockPlace, TurnsRight
<1>6. \/ Ends(s, "unsafe") \/ Ends(s, "browser_budget_exhausted")
      \/ scrape' = [scrape EXCEPT ![s].at = "reserve", ![s].host = Home]
      \/ scrape' = [scrape EXCEPT ![s].at = "render", ![s].paid = TRUE]
  BY DEF CheckPublic, ReserveBrowser
<1> QED BY <1>3, <1>4, <1>5, <1>6

\* The render ends and its guard starts afresh.
LEMMA RenderRight ==
  ASSUME FetchRight, NEW s \in Scrapes,
         \/ \E h \in Hosts, p \in Pages \ {"document"}, good \in BOOLEAN : Rendered(s, h, p, good)
         \/ \E unsafe \in BOOLEAN : RenderFails(s, unsafe)
  PROVE  FetchRight'
<1>1. /\ scrape[s].at = "render" /\ scrape[s].at \notin LockedSteps /\ holder # s
      /\ UNCHANGED <<holder, pin, open>> /\ GuardCloses(s)
  BY LockPlace DEF Rendered, RenderFails, In, LockedSteps
<1>2. GuardRight'
  <2>1. Unasked \in AskedRows
    BY DEF Unasked, AskedRows
  <2>2. [q \in Subrequests |-> Unasked] \in [Subrequests -> AskedRows]
    BY <2>1
  <2> QED BY <1>1, <2>2, FetchAssumption DEF FetchRight, GuardRight, GuardCloses
<1>3. ASSUME NEW unsafe \in BOOLEAN, RenderFails(s, unsafe) PROVE FetchRight'
  <2>1. /\ Ends(s, "unsafe") \/ Ends(s, "failed")
        /\ {"unsafe", "failed"} \subseteq Outcomes
    BY <1>3 DEF RenderFails, Outcomes
  <2> QED BY <1>1, <1>2, <2>1, EndedRight
<1>4. ASSUME NEW h \in Hosts, NEW p \in Pages \ {"document"}, NEW good \in BOOLEAN, Rendered(s, h, p, good)
      PROVE  FetchRight'
  <2>1. PICK o \in Outcomes :
          /\ o = IF h # Home THEN "policy_error" ELSE IF p = "challenge" THEN "blocked_challenge"
                 ELSE IF good THEN "ok" ELSE "http_status_error"
          /\ o = "ok" => h = Home /\ p # "challenge"
    BY DEF Outcomes
  <2>2. "done" \in FetchSteps /\ p \in Pages \cup {"none"}
    BY DEF FetchSteps
  <2>3. [scrape[s] EXCEPT !.at = "done", !.host = h, !.page = p, !.outcome = o] \in ScrapeRows
    BY <2>2, LockPlace DEF ScrapeRows
  <2>4. PICK r \in ScrapeRows :
          /\ r = [scrape[s] EXCEPT !.at = "done", !.host = h, !.page = p, !.outcome = o]
          /\ r.at = "done" /\ r.host = h /\ r.page = p /\ r.outcome = o
    BY <2>3, LockPlace DEF ScrapeRows
  <2>5. scrape' = [scrape EXCEPT ![s] = r]
    BY <1>4, <2>1, <2>4, LockPlace DEF Rendered
  <2>6. ScrapeOk(s, r)'
    BY <1>1, <2>1, <2>4 DEF ScrapeOk, LockedSteps
  <2> QED BY <1>1, <1>2, <2>5, <2>6, LockPlace, TurnsRight
<1> QED BY <1>3, <1>4

\* The requests of a rendered page.
LEMMA GuardKept == ASSUME FetchRight, NEW s \in Scrapes, GuardStep(s) PROVE FetchRight'
<1>1. UNCHANGED <<holder, pin, open, scrape>>
  BY DEF GuardStep, GuardAsks, GuardAnswered, GuardFulfils
<1>2. PICK q \in Subrequests :
        GuardAsks(s, q) \/ GuardFulfils(s, q) \/ \E size \in BodySizes : GuardAnswered(s, q, size)
  BY DEF GuardStep
<1>3. /\ sub[s] \in [Subrequests -> AskedRows] /\ sub[s][q] \in AskedRows
      /\ remaining[s] \in 0 .. Allowance /\ delivered[s] \in Nat /\ Allowance \in Nat
      /\ delivered[s] + remaining[s] = Allowance /\ GuardRight
  BY FetchAssumption DEF FetchRight, GuardRight
<1>4. ASSUME NEW u \in AskedRows, sub' = [sub EXCEPT ![s] = [sub[s] EXCEPT ![q] = u]]
      PROVE  sub' \in [Scrapes -> [Subrequests -> AskedRows]]
  BY <1>3, <1>4 DEF GuardRight
<1>5. CASE GuardAsks(s, q)
  <2>1. [at |-> "asked", limit |-> remaining[s], size |-> 0] \in AskedRows
    BY <1>3 DEF AskedRows
  <2>2. sub' = [sub EXCEPT ![s] = [sub[s] EXCEPT ![q] = [at |-> "asked", limit |-> remaining[s], size |-> 0]]]
    BY <1>5 DEF GuardAsks
  <2>3. sub' \in [Scrapes -> [Subrequests -> AskedRows]] /\ UNCHANGED <<remaining, delivered>>
    BY <1>4, <1>5, <2>1, <2>2 DEF GuardAsks, guardVars
  <2>4. GuardRight'
    BY <1>3, <2>3 DEF GuardRight
  <2> QED BY <1>1, <2>4 DEF FetchRight, ScrapeOk
<1>6. ASSUME NEW size \in BodySizes, GuardAnswered(s, q, size) PROVE FetchRight'
  <2>1. /\ [sub[s][q] EXCEPT !.at = "answered", !.size = size] \in AskedRows
        /\ [sub[s][q] EXCEPT !.at = "aborted"] \in AskedRows
    BY <1>3, FetchAssumption DEF AskedRows
  <2>2. \/ sub' = [sub EXCEPT ![s] = [sub[s] EXCEPT ![q] =
                                        [sub[s][q] EXCEPT !.at = "answered", !.size = size]]]
        \/ sub' = [sub EXCEPT ![s] = [sub[s] EXCEPT ![q] = [sub[s][q] EXCEPT !.at = "aborted"]]]
    BY <1>6 DEF GuardAnswered
  <2>3. sub' \in [Scrapes -> [Subrequests -> AskedRows]] /\ UNCHANGED <<remaining, delivered>>
    BY <1>4, <1>6, <2>1, <2>2 DEF GuardAnswered, guardVars
  <2>4. GuardRight'
    BY <1>3, <2>3 DEF GuardRight
  <2> QED BY <1>1, <2>4 DEF FetchRight, ScrapeOk
<1>7. CASE GuardFulfils(s, q)
  <2>1. /\ [sub[s][q] EXCEPT !.at = "fulfilled"] \in AskedRows
        /\ [sub[s][q] EXCEPT !.at = "aborted"] \in AskedRows /\ sub[s][q].size \in Nat
    BY <1>3 DEF AskedRows
  <2>2. \/ sub' = [sub EXCEPT ![s] = [sub[s] EXCEPT ![q] = [sub[s][q] EXCEPT !.at = "fulfilled"]]]
        \/ sub' = [sub EXCEPT ![s] = [sub[s] EXCEPT ![q] = [sub[s][q] EXCEPT !.at = "aborted"]]]
    BY <1>7 DEF GuardFulfils
  <2>3. sub' \in [Scrapes -> [Subrequests -> AskedRows]]
    BY <1>4, <2>1, <2>2
  <2>4. CASE StillFits(s, q)
    <3>1. /\ remaining' = [remaining EXCEPT ![s] = remaining[s] - sub[s][q].size]
          /\ delivered' = [delivered EXCEPT ![s] = delivered[s] + sub[s][q].size]
          /\ sub[s][q].size <= remaining[s]
      BY <1>3, <1>7, <2>1, <2>4 DEF GuardFulfils, StillFits
    <3>2. GuardRight'
      BY <1>3, <2>1, <2>3, <3>1 DEF GuardRight
    <3> QED BY <1>1, <3>2 DEF FetchRight, ScrapeOk
  <2>5. CASE ~StillFits(s, q)
    <3>1. GuardRight'
      BY <1>3, <1>7, <2>3, <2>5 DEF GuardRight, GuardFulfils, guardVars
    <3> QED BY <1>1, <3>1 DEF FetchRight, ScrapeOk
  <2> QED BY <2>4, <2>5
<1> QED BY <1>2, <1>5, <1>6, <1>7

\* Every step of every scrape keeps what is known of all of them.
LEMMA FetchKept == FetchRight /\ [FetchNext]_fetchVars => FetchRight'
<1> SUFFICES ASSUME FetchRight, [FetchNext]_fetchVars PROVE FetchRight'
  OBVIOUS
<1>1. CASE UNCHANGED fetchVars
  BY <1>1 DEF fetchVars, guardVars, FetchRight, ScrapeOk, GuardRight
<1>2. ASSUME NEW s \in Scrapes, ScrapeStep(s) PROVE FetchRight'
  BY <1>2, BeginRight, ResolveRight, ConnectRight, LeaveRight, BodyRight, ClassifyRight,
     BeforeRenderRight, RenderRight DEF ScrapeStep
<1> QED BY <1>1, <1>2, GuardKept DEF FetchNext

\* What the scrapes promise.
LEMMA FetchPromises == FetchRight => FetchInv
<1> SUFFICES ASSUME FetchRight PROVE FetchInv
  OBVIOUS
<1>1. \A s \in Scrapes : scrape[s] \in ScrapeRows /\ ScrapeOk(s, scrape[s])
  BY DEF FetchRight
<1>2. FetchTypeOK
  BY <1>1, RowFields DEF FetchRight, GuardRight, FetchTypeOK
<1>3. OnlyValidatedBodies /\ PinsAreOwn
  BY <1>1 DEF OnlyValidatedBodies, PinsAreOwn, ScrapeOk, In
<1>4. OutcomeFits
  BY <1>1 DEF OutcomeFits, ScrapeOk
<1>5. LockIsGivenBack
  BY <1>1 DEF LockIsGivenBack, ScrapeOk, LockedSteps
<1>6. RenderWithinAllowance
  BY FetchAssumption DEF FetchRight, GuardRight, RenderWithinAllowance
<1> QED BY <1>2, <1>3, <1>4, <1>5, <1>6 DEF FetchInv

-------------------------------------------------------------------------------
(* The managed providers *)

CallRows == [adapter: Adapters, at: CallSteps, sent: BOOLEAN, safe: BOOLEAN,
             verdict: Verdicts, charge: 0 .. ReservedUnits]
RemoteRows == [id: {"none", "lost", "known"}, deletes: Nat]
LiveRows == [state: {"none", "open", "closed"}, kind: Adapters, deletes: Nat,
             cost: 0 .. ReservedUnits, ops: 0 .. MaxOps]

\* A call that waits for its delete has a session, and owes what it will be
\* charged when it is done.
CallRight ==
    /\ call \in CallRows /\ remote \in RemoteRows
    /\ call.at \in {"admit", "public", "send"} => ~call.sent
    /\ call.at = "delete" => remote.id = "known"
    /\ call.at \in {"delete", "done"} /\ call.sent /\ call.verdict # "ok" => call.charge = ReservedUnits
    /\ RemoteSessionDeleted

LiveRight == live \in LiveRows /\ op \in [Operators -> OpSteps] /\ LiveSessionDeletedOnce

ProvidersRight == CallRight /\ LiveRight

\* Nothing is asked and no session is open.
LEMMA ProvidersStart == ProvidersInit => ProvidersRight
<1> SUFFICES ASSUME ProvidersInit PROVE ProvidersRight
  OBVIOUS
<1> USE ProvidersAssumption
<1>1. PICK a \in Adapters :
        call = [adapter |-> a, at |-> "admit", sent |-> FALSE, safe |-> FALSE,
                verdict |-> "none", charge |-> 0]
  BY DEF ProvidersInit
<1>2. PICK k \in {"firecrawl", "browserbase"} :
        live = [state |-> "none", kind |-> k, deletes |-> 0, cost |-> 0, ops |-> 0]
  BY DEF ProvidersInit
<1>3. /\ "admit" \in CallSteps /\ "none" \in Verdicts /\ 0 \in 0 .. ReservedUnits /\ 0 \in 0 .. MaxOps
      /\ k \in Adapters /\ "idle" \in OpSteps
  BY <1>2 DEF CallSteps, Verdicts, Adapters, OpSteps
<1>4. call \in CallRows /\ call.at = "admit" /\ ~call.sent
  BY <1>1, <1>3 DEF CallRows
<1>5. live \in LiveRows /\ live.state = "none" /\ live.deletes = 0
  BY <1>2, <1>3 DEF LiveRows
<1>6. remote \in RemoteRows /\ remote.id = "none" /\ remote.deletes = 0
  BY DEF ProvidersInit, RemoteRows
<1>7. CallRight
  BY <1>4, <1>6 DEF CallRight, RemoteSessionDeleted
<1>8. LiveRight
  BY <1>3, <1>5 DEF ProvidersInit, LiveRight, LiveSessionDeletedOnce
<1> QED BY <1>7, <1>8 DEF ProvidersRight

\* A call that goes on: where to, and whether it has been sent.
LEMMA CallMoves ==
  ASSUME CallRight, NEW a \in CallSteps \ {"delete", "done"}, NEW b \in BOOLEAN,
         b => a \notin {"admit", "public", "send"}, call.at # "done",
         call' = [call EXCEPT !.at = a, !.sent = b], remote' \in RemoteRows,
         remote'.deletes = remote.deletes
  PROVE  CallRight'
<1>1. call' \in CallRows /\ call'.at = a /\ call'.sent = b
  BY DEF CallRight, CallRows
<1>2. remote'.deletes = 0
  BY DEF CallRight, RemoteSessionDeleted
<1> QED BY <1>1, <1>2 DEF CallRight, RemoteSessionDeleted

\* A call that ends: what it is charged for when it failed.
LEMMA CallEnds ==
  ASSUME CallRight, NEW v \in Verdicts, NEW c \in 0 .. ReservedUnits, EndCall(v, c),
         call.at \notin {"delete", "done"}, call.sent /\ v # "ok" => c = ReservedUnits,
         remote' \in RemoteRows, remote'.deletes = remote.deletes
  PROVE  CallRight'
<1>1. PICK a \in {"delete", "done"} : a = IF remote'.id = "known" THEN "delete" ELSE "done"
  OBVIOUS
<1>2. call' = [call EXCEPT !.at = a, !.verdict = v, !.charge = c] /\ a \in CallSteps
  BY <1>1 DEF EndCall, CallSteps
<1>3. /\ call' \in CallRows /\ call'.at = a /\ call'.sent = call.sent /\ call'.verdict = v
      /\ call'.charge = c
  BY <1>2 DEF CallRight, CallRows
<1>4. remote'.deletes = 0
  BY DEF CallRight, RemoteSessionDeleted
<1>5. a = "delete" => remote'.id = "known"
  BY <1>1
<1>6. a = "done" => remote'.id # "known"
  BY <1>1
<1> QED BY <1>3, <1>4, <1>5, <1>6 DEF CallRight, RemoteSessionDeleted

\* Setting a field to what it is changes nothing.
LEMMA SameSent ==
  ASSUME CallRight, NEW a
  PROVE  [call EXCEPT !.at = a] = [call EXCEPT !.at = a, !.sent = call.sent] /\ call.sent \in BOOLEAN
BY DEF CallRight, CallRows

\* Up to the request.
LEMMA AskKept ==
  ASSUME CallRight, NEW b \in BOOLEAN, Admit(b) \/ CheckTarget(b) \/ SendCall(b)
  PROVE  CallRight'
<1> USE ProvidersAssumption
<1>1. /\ {"public", "send", "reply"} \subseteq CallSteps /\ {"failure", "raised"} \subseteq Verdicts
      /\ {0, UnsentCost, ReservedUnits} \subseteq 0 .. ReservedUnits
      /\ remote \in RemoteRows /\ ~call.sent /\ call.at \notin {"delete", "done"}
  BY DEF CallSteps, Verdicts, UnsentCost, CallRight, Admit, CheckTarget, SendCall, CallAt
<1>2. CASE Admit(b) \/ CheckTarget(b)
  <2>1. remote' = remote
    BY <1>2 DEF Admit, CheckTarget
  <2>2. \/ \E a \in {"public", "send"} : call' = [call EXCEPT !.at = a]
        \/ \E v \in {"failure", "raised"}, c \in {0, UnsentCost, ReservedUnits} : EndCall(v, c)
    BY <1>2 DEF Admit, CheckTarget
  <2>3. ASSUME NEW a \in {"public", "send"}, call' = [call EXCEPT !.at = a] PROVE CallRight'
    <3>1. call' = [call EXCEPT !.at = a, !.sent = call.sent] /\ call.sent \in BOOLEAN
      BY <2>3, SameSent
    <3> QED BY <1>1, <2>1, <3>1, CallMoves
  <2>4. ASSUME NEW v \in {"failure", "raised"}, NEW c \in {0, UnsentCost, ReservedUnits}, EndCall(v, c)
        PROVE  CallRight'
    <3>1. v \in Verdicts /\ c \in 0 .. ReservedUnits
      BY <1>1
    <3> QED BY <1>1, <2>1, <2>4, <3>1, CallEnds
  <2> QED BY <2>2, <2>3, <2>4
<1>3. CASE SendCall(b)
  <2>1. call' = [call EXCEPT !.at = "reply", !.sent = TRUE]
    BY <1>3 DEF SendCall
  <2>2. remote' \in RemoteRows /\ remote'.deletes = remote.deletes
    BY <1>1, <1>3 DEF SendCall, RemoteRows
  <2> QED BY <1>1, <2>1, <2>2, CallMoves
<1> QED BY <1>2, <1>3

\* From the answer to the end of the call, the cancellation included.
LEMMA AnswerKept ==
  ASSUME CallRight,
         \/ RequestFails \/ AnswerUnusable \/ CancelCall
         \/ \E b \in BOOLEAN : AnswerArrives(b) \/ Capture(b)
         \/ \E b \in BOOLEAN, usage \in Bills : Deliver(b, usage)
  PROVE  CallRight'
<1> USE ProvidersAssumption
<1>1. /\ {"capture", "final"} \subseteq CallSteps
      /\ {"ok", "failure", "raised", "cancelled"} \subseteq Verdicts
      /\ ReservedUnits \in 0 .. ReservedUnits
      /\ remote \in RemoteRows /\ call.at \notin {"delete", "done"}
  BY DEF CallSteps, Verdicts, CallRight, RequestFails, AnswerUnusable, CancelCall, AnswerArrives,
     Capture, Deliver, CallAt
<1>2. remote' \in RemoteRows /\ remote'.deletes = remote.deletes
  <2>1. [remote EXCEPT !.id = "known"] \in RemoteRows
        /\ [remote EXCEPT !.id = "known"].deletes = remote.deletes
    BY <1>1 DEF RemoteRows
  <2>2. remote' = remote \/ remote' = [remote EXCEPT !.id = "known"]
    BY DEF RequestFails, AnswerUnusable, CancelCall, AnswerArrives, Capture, Deliver
  <2> QED BY <1>1, <2>1, <2>2
<1>3. CASE \E v \in {"failure", "raised", "cancelled"} : EndCall(v, ReservedUnits)
  <2>1. PICK v \in {"failure", "raised", "cancelled"} : EndCall(v, ReservedUnits)
    BY <1>3
  <2>2. v \in Verdicts
    BY <1>1
  <2> QED BY <1>1, <1>2, <2>1, <2>2, CallEnds
<1>4. CASE \E c \in 0 .. ReservedUnits : EndCall("ok", c)
  <2>1. PICK c \in 0 .. ReservedUnits : EndCall("ok", c)
    BY <1>4
  <2> QED BY <1>1, <1>2, <2>1, CallEnds
<1>5. CASE \E a \in {"capture", "final"} : call' = [call EXCEPT !.at = a]
  <2>1. PICK a \in {"capture", "final"} : call' = [call EXCEPT !.at = a]
    BY <1>5
  <2>2. call' = [call EXCEPT !.at = a, !.sent = call.sent] /\ call.sent \in BOOLEAN
    BY <2>1, SameSent
  <2> QED BY <1>1, <1>2, <2>2, CallMoves
<1>6. ASSUME NEW b \in BOOLEAN, NEW usage \in Bills, Deliver(b, usage)
      PROVE  \/ \E v \in {"failure", "raised", "cancelled"} : EndCall(v, ReservedUnits)
             \/ \E c \in 0 .. ReservedUnits : EndCall("ok", c)
  <2>1. UsageAccepted(usage) => usage \in 0 .. ReservedUnits
    BY DEF UsageAccepted, Bills
  <2> QED BY <1>1, <1>6, <2>1 DEF Deliver
<1>7. ASSUME NEW b \in BOOLEAN, AnswerArrives(b) \/ Capture(b)
      PROVE  \/ \E v \in {"failure", "raised", "cancelled"} : EndCall(v, ReservedUnits)
             \/ \E a \in {"capture", "final"} : call' = [call EXCEPT !.at = a]
  BY <1>7 DEF AnswerArrives, Capture
<1>8. RequestFails \/ AnswerUnusable \/ CancelCall
      => \E v \in {"failure", "raised", "cancelled"} : EndCall(v, ReservedUnits)
  BY DEF RequestFails, AnswerUnusable, CancelCall
<1> QED BY <1>3, <1>4, <1>5, <1>6, <1>7, <1>8

\* The finally block: the one delete of a session that is known.
LEMMA DeleteKept == ASSUME CallRight, DeleteRemote PROVE CallRight'
<1>1. /\ call.at = "delete" /\ remote.id = "known" /\ remote.deletes = 0 /\ "done" \in CallSteps
      /\ call \in CallRows /\ remote \in RemoteRows
  BY DEF CallRight, DeleteRemote, CallAt, RemoteSessionDeleted, CallSteps
<1>2. /\ call' \in CallRows /\ call'.at = "done" /\ call'.sent = call.sent
      /\ call'.verdict = call.verdict /\ call'.charge = call.charge
  BY <1>1 DEF DeleteRemote, CallRows
<1>3. remote' \in RemoteRows /\ remote'.id = "known" /\ remote'.deletes = 1
  BY <1>1 DEF DeleteRemote, RemoteRows
<1> QED BY <1>1, <1>2, <1>3 DEF CallRight, RemoteSessionDeleted

\* The live session: it is marked closed before its delete is awaited.
LEMMA LiveKept ==
  ASSUME LiveRight,
         \/ CreateLive
         \/ \E o \in Operators :
               \/ \E step \in {"sending", "resuming"} : BeginOp(o, step)
               \/ SendWorks(o) \/ BeginClose(o)
               \/ \E billed \in Bills : FinishClose(o, billed)
  PROVE  LiveRight'
<1> USE ProvidersAssumption
<1>1. live \in LiveRows /\ {"idle", "sending", "resuming", "closing"} \subseteq OpSteps
      /\ op \in [Operators -> OpSteps]
      /\ live.deletes = IF live.state = "closed" THEN 1 ELSE 0
  BY DEF LiveRight, LiveSessionDeletedOnce, OpSteps
<1>2. op' \in [Operators -> OpSteps]
  BY <1>1 DEF CreateLive, BeginOp, SendWorks, BeginClose, FinishClose
<1>3. CASE CreateLive
  <2>2. /\ live' = [live EXCEPT !.state = "open", !.cost = ReservedUnits] /\ live.state = "none"
        /\ ReservedUnits \in 0 .. ReservedUnits
    BY <1>3 DEF CreateLive
  <2>1. live' \in LiveRows /\ live'.state = "open" /\ live'.deletes = live.deletes
    BY <1>1, <2>2 DEF LiveRows
  <2> QED BY <2>2, <1>1, <1>2, <2>1 DEF LiveRight, LiveSessionDeletedOnce
<1>4. ASSUME NEW o \in Operators, NEW step \in {"sending", "resuming"}, BeginOp(o, step)
      PROVE  LiveRight'
  <2>1. live.ops + 1 \in 0 .. MaxOps
    <3>1. live.ops \in 0 .. MaxOps
      BY <1>1 DEF LiveRows
    <3>2. live.ops < MaxOps
      BY <1>4 DEF BeginOp
    <3> QED BY <3>1, <3>2
  <2>3. live' = [live EXCEPT !.ops = live.ops + 1]
    BY <1>4 DEF BeginOp
  <2>2. live' \in LiveRows /\ live'.state = live.state /\ live'.deletes = live.deletes
    BY <1>1, <2>1, <2>3 DEF LiveRows
  <2> QED BY <1>1, <1>2, <2>2 DEF LiveRight, LiveSessionDeletedOnce
<1>5. ASSUME NEW o \in Operators, BeginClose(o) PROVE LiveRight'
  <2>1. CASE live.state = "open"
    <3>1. live' = [live EXCEPT !.state = "closed", !.deletes = 1]
      BY <1>1, <1>5, <2>1 DEF BeginClose
    <3>2. live' \in LiveRows /\ live'.state = "closed" /\ live'.deletes = 1
      BY <1>1, <3>1 DEF LiveRows
    <3> QED BY <1>2, <3>2 DEF LiveRight, LiveSessionDeletedOnce
  <2>2. CASE live.state # "open"
    BY <1>1, <1>2, <1>5, <2>2 DEF BeginClose, LiveRight, LiveSessionDeletedOnce
  <2> QED BY <2>1, <2>2
<1>6. ASSUME NEW o \in Operators, NEW billed \in Bills, FinishClose(o, billed) PROVE LiveRight'
  <2>1. UsageAccepted(billed) => billed \in 0 .. ReservedUnits
    BY DEF UsageAccepted, Bills
  <2>2. PICK c \in 0 .. ReservedUnits :
          c = IF live.kind = "firecrawl" /\ UsageAccepted(billed) THEN billed ELSE live.cost
    BY <1>1, <2>1 DEF LiveRows
  <2>3. live' = [live EXCEPT !.cost = c]
    BY <1>6, <2>2 DEF FinishClose
  <2>4. live' \in LiveRows /\ live'.state = live.state /\ live'.deletes = live.deletes
    BY <1>1, <2>3 DEF LiveRows
  <2> QED BY <1>1, <1>2, <2>4 DEF LiveRight, LiveSessionDeletedOnce
<1>7. ASSUME NEW o \in Operators, SendWorks(o) PROVE LiveRight'
  BY <1>1, <1>2, <1>7 DEF SendWorks, LiveRight, LiveSessionDeletedOnce
<1> QED BY <1>3, <1>4, <1>5, <1>6, <1>7

\* Every step of a provider's call and of a live session.
LEMMA ProvidersKept == ProvidersRight /\ [ProvidersNext]_providerVars => ProvidersRight'
<1> SUFFICES ASSUME ProvidersRight, [ProvidersNext]_providerVars PROVE ProvidersRight'
  OBVIOUS
<1>1. CallRight /\ UNCHANGED <<call, remote>> => CallRight'
  BY DEF CallRight, RemoteSessionDeleted
<1>2. LiveRight /\ UNCHANGED <<live, op>> => LiveRight'
  BY DEF LiveRight, LiveSessionDeletedOnce
<1>3. CASE UNCHANGED providerVars
  BY <1>1, <1>2, <1>3 DEF providerVars, ProvidersRight
<1>4. ASSUME NEW b \in BOOLEAN, Admit(b) \/ CheckTarget(b) \/ SendCall(b) PROVE ProvidersRight'
  <2>1. UNCHANGED <<live, op>>
    BY <1>4 DEF Admit, CheckTarget, SendCall
  <2> QED BY <1>2, <1>4, <2>1, AskKept DEF ProvidersRight
<1>5. CASE \/ RequestFails \/ AnswerUnusable \/ CancelCall
           \/ \E b \in BOOLEAN : AnswerArrives(b) \/ Capture(b)
           \/ \E b \in BOOLEAN, usage \in Bills : Deliver(b, usage)
  <2>1. UNCHANGED <<live, op>>
    BY <1>5 DEF RequestFails, AnswerUnusable, CancelCall, AnswerArrives, Capture, Deliver
  <2> QED BY <1>2, <1>5, <2>1, AnswerKept DEF ProvidersRight
<1>6. CASE DeleteRemote
  BY <1>2, <1>6, DeleteKept DEF ProvidersRight, DeleteRemote
<1>7. CASE \/ CreateLive
           \/ \E o \in Operators :
                 \/ \E step \in {"sending", "resuming"} : BeginOp(o, step)
                 \/ SendWorks(o) \/ BeginClose(o)
                 \/ \E billed \in Bills : FinishClose(o, billed)
  <2>1. UNCHANGED <<call, remote>>
    BY <1>7 DEF CreateLive, BeginOp, SendWorks, BeginClose, FinishClose
  <2> QED BY <1>1, <1>7, <2>1, LiveKept DEF ProvidersRight
<1> QED BY <1>3, <1>4, <1>5, <1>6, <1>7 DEF ProvidersNext

\* What the providers promise.
LEMMA ProvidersPromise ==
  ProvidersRight => ProvidersTypeOK /\ FailedCallIsCharged /\ RemoteSessionDeleted /\ LiveSessionDeletedOnce
BY DEF ProvidersRight, CallRight, LiveRight, ProvidersTypeOK, FailedCallIsCharged, CallRows, RemoteRows,
       LiveRows

-------------------------------------------------------------------------------
(* Image challenges *)

SolveSteps == {"start", "classify", "recheck", "capture", "ask", "fill", "click", "check", "done"}
SolveRows == [at : SolveSteps, kind : ChallengeKinds \cup {"none"}, doc : Nat,
              host : PageHosts \cup {"none"}, taken : PageHosts \cup {"none"}, score : Nat]
SubmitRows == [doc : Nat, host : PageHosts]

\* What is known at each await: from the second check of the host on, the page is
\* still on the host that was checked or is another document.
SolveRight ==
    /\ page \in [host : PageHosts, doc : Nat] /\ solve \in SolveRows
    /\ solve.doc <= page.doc
    /\ solve.at \in {"capture", "ask", "fill", "click"} =>
          Allows(solve.host) /\ (page.doc = solve.doc => page.host = solve.host)
    /\ solve.at \in {"ask", "fill", "click"} => solve.taken = solve.host
    /\ solve.at \in {"fill", "click"} => \E q \in posted : q.doc = solve.doc
    /\ solve.at \in {"fill", "click", "check"} => solve.score >= MinScore

\* What has left the process so far.
SentRight ==
    /\ OnlyAuthorizedImages
    /\ submits \in Seq(SubmitRows) /\ OneAuthorizedSubmission
    /\ solve.at \notin {"check", "done"} => submits = <<>>
    /\ solve.at = "check" => Len(submits) = 1
    /\ solve.at # "done" => outcome = "none"
    /\ SubmittedIsTrue

CaptchaRight == SolveRight /\ SentRight

\* The call has not begun.
LEMMA CaptchaStart == CaptchaInit => CaptchaRight
<1> SUFFICES ASSUME CaptchaInit PROVE CaptchaRight
  OBVIOUS
<1>1. PICK h \in PageHosts : page = [host |-> h, doc |-> 0]
  BY DEF CaptchaInit
<1>2. "start" \in SolveSteps
  BY DEF SolveSteps
<1>3. solve \in SolveRows /\ solve.at = "start" /\ solve.doc = 0
  BY <1>2 DEF CaptchaInit, NoCall, SolveRows
<1>4. SolveRight
  BY <1>1, <1>3 DEF SolveRight
<1>5. submits = <<>> /\ posted = {} /\ outcome = "none"
  BY DEF CaptchaInit
<1>6. <<>> \in Seq(SubmitRows) /\ Len(<<>>) = 0 /\ DOMAIN <<>> = {}
  OBVIOUS
<1>7. SentRight
  BY <1>3, <1>5, <1>6 DEF SentRight, OnlyAuthorizedImages, OneAuthorizedSubmission, SubmittedIsTrue
<1> QED BY <1>4, <1>7 DEF CaptchaRight

\* A call that goes on to another await without sending anything.
LEMMA NothingSent ==
  ASSUME SentRight, UNCHANGED <<submits, outcome>>, solve.at \notin {"check", "done"},
         solve'.at \notin {"check", "done"}, OnlyAuthorizedImages', posted \subseteq posted'
  PROVE  SentRight'
BY DEF SentRight, OneAuthorizedSubmission, SubmittedIsTrue

\* A call that ends before anything is submitted.
LEMMA Concluded ==
  ASSUME CaptchaRight, NEW state, state # "submitted", Concludes(state), UNCHANGED <<page, submits>>,
         solve.at # "done", OnlyAuthorizedImages', posted \subseteq posted'
  PROVE  CaptchaRight'
<1>1. "done" \in SolveSteps /\ solve \in SolveRows
  BY DEF SolveSteps, CaptchaRight, SolveRight
<1>2. solve' \in SolveRows /\ solve'.at = "done" /\ solve'.doc = solve.doc
  BY <1>1 DEF Concludes, SolveRows
<1>3. SolveRight'
  BY <1>2 DEF CaptchaRight, SolveRight
<1>4. outcome' = state
  BY DEF Concludes
<1>5. SentRight'
  BY <1>2, <1>4 DEF CaptchaRight, SentRight, OneAuthorizedSubmission, SubmittedIsTrue
<1> QED BY <1>3, <1>5 DEF CaptchaRight

\* The page goes elsewhere: whatever was found in it belongs to a document that is gone.
LEMMA NavigateKept ==
  ASSUME CaptchaRight, NEW h \in PageHosts, Navigate(h)
  PROVE  CaptchaRight'
<1>1. /\ page' = [host |-> h, doc |-> page.doc + 1] /\ page.doc \in Nat /\ solve.doc \in Nat
      /\ UNCHANGED <<solve, posted, submits, outcome>>
  BY DEF Navigate, CaptchaRight, SolveRight, SolveRows
<1>2. page' \in [host : PageHosts, doc : Nat] /\ page'.doc = page.doc + 1
  BY <1>1
<1>3. solve.doc <= page.doc
  BY DEF CaptchaRight, SolveRight
<1>4. page'.doc # solve.doc /\ solve.doc <= page'.doc
  BY <1>1, <1>2, <1>3
<1>5. SolveRight'
  BY <1>1, <1>2, <1>4 DEF CaptchaRight, SolveRight
<1>6. SentRight'
  BY <1>1 DEF CaptchaRight, SentRight, OneAuthorizedSubmission, OnlyAuthorizedImages, SubmittedIsTrue
<1> QED BY <1>5, <1>6 DEF CaptchaRight

\* The checks before the picture is taken.
LEMMA ChecksKept ==
  ASSUME CaptchaRight, CheckInitialHost \/ ClassifyChallenge \/ RecheckHost
  PROVE  CaptchaRight'
<1>1. /\ UNCHANGED <<page, posted, submits>> /\ solve.at \in {"start", "classify", "recheck"}
      /\ OnlyAuthorizedImages' /\ solve \in SolveRows /\ page \in [host : PageHosts, doc : Nat]
      /\ page.host \in PageHosts /\ page.doc \in Nat /\ solve.doc <= page.doc
      /\ {"classify", "recheck", "capture"} \subseteq SolveSteps
  BY DEF CheckInitialHost, ClassifyChallenge, RecheckHost, CaptchaRight, SolveRight, SentRight,
     OnlyAuthorizedImages, SolveSteps
<1>2. CASE \E state \in {"not_authorized", "not_image_text_challenge", "requires_human_or_provider"} :
              Concludes(state)
  BY <1>1, <1>2, Concluded
<1>3. CASE MovesTo("classify")
  <2>1. solve' \in SolveRows /\ solve'.at = "classify" /\ solve'.doc = solve.doc /\ outcome' = outcome
    BY <1>1, <1>3 DEF MovesTo, SolveRows
  <2>2. SolveRight' /\ SentRight'
    BY <1>1, <2>1, NothingSent DEF CaptchaRight, SolveRight
  <2> QED BY <2>2 DEF CaptchaRight
<1>4. ASSUME NEW kind \in ChallengeKinds, outcome' = outcome,
             solve' = [solve EXCEPT !.at = "recheck", !.kind = kind, !.doc = page.doc]
      PROVE  CaptchaRight'
  <2>1. solve' \in SolveRows /\ solve'.at = "recheck" /\ solve'.doc = page.doc
    BY <1>1, <1>4 DEF SolveRows
  <2>2. SolveRight' /\ SentRight'
    BY <1>1, <1>4, <2>1, NothingSent DEF CaptchaRight, SolveRight
  <2> QED BY <2>2 DEF CaptchaRight
<1>5. CASE /\ Allows(page.host) /\ outcome' = outcome
           /\ solve' = [solve EXCEPT !.at = "capture", !.host = page.host]
  <2>1. /\ solve' \in SolveRows /\ solve'.at = "capture" /\ solve'.doc = solve.doc
        /\ solve'.host = page.host
    BY <1>1, <1>5 DEF SolveRows
  <2>2. Allows(page.host)' /\ page' = page
    BY <1>1, <1>5
  <2>3. SolveRight'
    BY <1>1, <2>1, <2>2 DEF SolveRight
  <2>4. SentRight'
    BY <1>1, <1>5, <2>1, NothingSent DEF CaptchaRight
  <2> QED BY <2>3, <2>4 DEF CaptchaRight
<1>6. CheckInitialHost => MovesTo("classify") \/ Concludes("not_authorized")
  BY DEF CheckInitialHost
<1>7. ClassifyChallenge =>
        \/ Concludes("not_image_text_challenge")
        \/ \E kind \in ChallengeKinds :
              /\ solve' = [solve EXCEPT !.at = "recheck", !.kind = kind, !.doc = page.doc]
              /\ outcome' = outcome
  BY DEF ClassifyChallenge
<1>8. RecheckHost =>
        \/ Concludes("not_authorized") \/ Concludes("requires_human_or_provider")
        \/ /\ Allows(page.host) /\ outcome' = outcome
           /\ solve' = [solve EXCEPT !.at = "capture", !.host = page.host]
  BY DEF RecheckHost
<1> QED BY <1>2, <1>3, <1>4, <1>5, <1>6, <1>7, <1>8

\* The picture, the question and the answer.
LEMMA AnsweringKept ==
  ASSUME CaptchaRight, CaptureImage \/ AskSolver \/ FillAnswer
  PROVE  CaptchaRight'
<1>1. /\ UNCHANGED <<page, submits>> /\ solve.at \in {"capture", "ask", "fill"}
      /\ solve \in SolveRows /\ page \in [host : PageHosts, doc : Nat]
      /\ page.host \in PageHosts /\ page.doc \in Nat /\ solve.doc <= page.doc
      /\ {"ask", "fill", "click"} \subseteq SolveSteps
      /\ Allows(solve.host) /\ (page.doc = solve.doc => page.host = solve.host)
  BY DEF CaptureImage, AskSolver, FillAnswer, Human, CaptchaRight, SolveRight, SolveSteps
<1>2. CASE CaptureImage
  <2>1. posted' = posted /\ OnlyAuthorizedImages'
    BY <1>2 DEF CaptureImage, Human, CaptchaRight, SentRight, OnlyAuthorizedImages
  <2>2. CASE Concludes("requires_human_or_provider")
    BY <1>1, <2>1, <2>2, Concluded
  <2>3. CASE /\ page.doc = solve.doc /\ outcome' = outcome
             /\ solve' = [solve EXCEPT !.at = "ask", !.taken = page.host]
    <3>1. /\ solve' \in SolveRows /\ solve'.at = "ask" /\ solve'.doc = solve.doc
          /\ solve'.host = solve.host /\ solve'.taken = page.host
      BY <1>1, <2>3 DEF SolveRows
    <3>2. SolveRight'
      BY <1>1, <2>3, <3>1 DEF SolveRight
    <3>3. SentRight'
      BY <1>1, <2>1, <2>3, <3>1, NothingSent DEF CaptchaRight
    <3> QED BY <3>2, <3>3 DEF CaptchaRight
  <2> QED BY <1>2, <2>2, <2>3 DEF CaptureImage, Human, SameDocument
<1>3. CASE AskSolver
  <2>1. /\ solve.at = "ask" /\ solve.taken = solve.host
        /\ posted' = posted \cup {[said |-> solve.host, taken |-> solve.taken, doc |-> solve.doc]}
    BY <1>3 DEF AskSolver, CaptchaRight, SolveRight
  <2>2. /\ OnlyAuthorizedImages' /\ posted \subseteq posted'
        /\ \E q \in posted' : q.doc = solve.doc
    <3> DEFINE i == [said |-> solve.host, taken |-> solve.taken, doc |-> solve.doc]
    <3>1. i.said = solve.host /\ i.taken = solve.host /\ i.doc = solve.doc
      BY <2>1
    <3>2. posted' = posted \cup {i} /\ OnlyAuthorizedImages
      BY <2>1, <3>1 DEF CaptchaRight, SentRight
    <3> HIDE DEF i
    <3> QED BY <1>1, <3>1, <3>2 DEF OnlyAuthorizedImages
  <2>3. CASE Concludes("requires_human_or_provider")
    BY <1>1, <2>2, <2>3, Concluded
  <2>4. ASSUME NEW sc \in Scores, Confident(sc), outcome' = outcome,
               solve' = [solve EXCEPT !.at = "fill", !.score = sc]
        PROVE  CaptchaRight'
    <3>1. /\ solve' \in SolveRows /\ solve'.at = "fill" /\ solve'.doc = solve.doc
          /\ solve'.host = solve.host /\ solve'.taken = solve.taken /\ solve'.score = sc
      BY <1>1, <2>4, CaptchaAssumption DEF SolveRows
    <3>2. SolveRight'
      BY <1>1, <2>1, <2>2, <2>4, <3>1 DEF SolveRight, Confident
    <3>3. SentRight'
      BY <1>1, <2>2, <2>4, <3>1, NothingSent DEF CaptchaRight
    <3> QED BY <3>2, <3>3 DEF CaptchaRight
  <2> QED BY <1>3, <2>3, <2>4 DEF AskSolver
<1>4. CASE FillAnswer
  <2>1. /\ posted' = posted /\ OnlyAuthorizedImages' /\ solve.at = "fill"
        /\ solve.taken = solve.host /\ solve.score >= MinScore /\ \E q \in posted : q.doc = solve.doc
    BY <1>4 DEF FillAnswer, Human, CaptchaRight, SentRight, SolveRight, OnlyAuthorizedImages
  <2>2. CASE Concludes("requires_human_or_provider")
    BY <1>1, <2>1, <2>2, Concluded
  <2>3. CASE MovesTo("click")
    <3>1. /\ solve' \in SolveRows /\ solve'.at = "click" /\ solve'.doc = solve.doc
          /\ solve'.host = solve.host /\ solve'.taken = solve.taken /\ solve'.score = solve.score
          /\ outcome' = outcome
      BY <1>1, <2>3 DEF MovesTo, SolveRows
    <3>2. SolveRight'
      BY <1>1, <2>1, <3>1 DEF SolveRight
    <3>3. SentRight'
      BY <1>1, <2>1, <3>1, NothingSent DEF CaptchaRight
    <3> QED BY <3>2, <3>3 DEF CaptchaRight
  <2> QED BY <1>4, <2>2, <2>3 DEF FillAnswer, Human
<1> QED BY <1>2, <1>3, <1>4

\* The click: the one submission, in the document the picture was taken of.
LEMMA ClickKept == ASSUME CaptchaRight, ClickSubmit PROVE CaptchaRight'
<1>1. /\ posted' = posted /\ solve.at = "click" /\ submits = <<>> /\ outcome = "none"
      /\ solve \in SolveRows /\ page \in [host : PageHosts, doc : Nat]
      /\ page.host \in PageHosts /\ page.doc \in Nat /\ solve.doc \in Nat /\ solve.doc <= page.doc
      /\ {"check", "done"} \subseteq SolveSteps /\ OnlyAuthorizedImages'
      /\ Allows(solve.host) /\ (page.doc = solve.doc => page.host = solve.host)
      /\ solve.score >= MinScore /\ \E q \in posted : q.doc = solve.doc
  BY DEF ClickSubmit, Human, CaptchaRight, SolveRight, SentRight, SolveRows, SolveSteps,
     OnlyAuthorizedImages
<1>2. CASE Human
  <2>1. Concludes("requires_human_or_provider") /\ UNCHANGED <<page, submits>>
    BY <1>2 DEF Human
  <2> QED BY <1>1, <2>1, Concluded
<1>3. CASE ~Human
  <2>1. /\ page.doc = solve.doc /\ submits' = Append(submits, [doc |-> page.doc, host |-> page.host])
        /\ \E h \in PageHosts : page' = [host |-> h, doc |-> page.doc + 1]
        /\ MovesTo("check") \/ Concludes("requires_human_or_provider")
    BY <1>3 DEF ClickSubmit, SameDocument
  <2>2. PICK row \in SubmitRows : row = [doc |-> page.doc, host |-> page.host]
                                  /\ row.doc = page.doc /\ row.host = page.host
    BY <1>1 DEF SubmitRows
  <2>3. /\ submits' \in Seq(SubmitRows) /\ Len(submits') = 1 /\ DOMAIN submits' = {1}
        /\ submits'[1] = row
    BY <1>1, <2>1, <2>2
  <2>4. OneAuthorizedSubmission'
    BY <1>1, <2>1, <2>2, <2>3 DEF OneAuthorizedSubmission
  <2>5. page' \in [host : PageHosts, doc : Nat] /\ solve.doc <= page'.doc
    BY <1>1, <2>1
  <2>6. /\ solve' \in SolveRows /\ solve'.at \in {"check", "done"} /\ solve'.doc = solve.doc
        /\ solve'.score = solve.score
    BY <1>1, <2>1 DEF MovesTo, Concludes, SolveRows
  <2>7. SolveRight'
    BY <1>1, <2>5, <2>6 DEF SolveRight
  <2>8. outcome' # "submitted" /\ (solve'.at # "done" => outcome' = "none")
    BY <1>1, <2>1 DEF MovesTo, Concludes, SolveRows
  <2>9. SentRight'
    BY <1>1, <2>3, <2>4, <2>6, <2>8 DEF SentRight, SubmittedIsTrue
  <2> QED BY <2>7, <2>9 DEF CaptchaRight
<1> QED BY <1>2, <1>3

\* The check of the host the page ends on.
LEMMA FinalCheckKept == ASSUME CaptchaRight, CheckFinalHost PROVE CaptchaRight'
<1>1. /\ UNCHANGED <<page, posted, submits>> /\ solve.at = "check" /\ solve.score >= MinScore
      /\ Len(submits) = 1 /\ solve \in SolveRows /\ "done" \in SolveSteps
  BY DEF CheckFinalHost, CaptchaRight, SolveRight, SentRight, SolveSteps
<1>2. solve' = [solve EXCEPT !.at = "done"]
  BY DEF CheckFinalHost, Concludes
<1>3. /\ solve' \in SolveRows /\ solve'.at = "done" /\ solve'.doc = solve.doc
      /\ solve'.score = solve.score
  BY <1>1, <1>2 DEF SolveRows
<1>4. SolveRight'
  BY <1>1, <1>3 DEF CaptchaRight, SolveRight
<1>5. SentRight'
  BY <1>1, <1>3 DEF CaptchaRight, SentRight, OnlyAuthorizedImages, OneAuthorizedSubmission, SubmittedIsTrue
<1> QED BY <1>4, <1>5 DEF CaptchaRight

\* Every step of the call and of the page.
LEMMA CaptchaKept == CaptchaRight /\ [CaptchaNext]_captchaVars => CaptchaRight'
<1> SUFFICES ASSUME CaptchaRight, [CaptchaNext]_captchaVars PROVE CaptchaRight'
  OBVIOUS
<1>1. CASE UNCHANGED captchaVars
  BY <1>1 DEF captchaVars, CaptchaRight, SolveRight, SentRight, OnlyAuthorizedImages,
     OneAuthorizedSubmission, SubmittedIsTrue
<1> QED BY <1>1, NavigateKept, ChecksKept, AnsweringKept, ClickKept, FinalCheckKept DEF CaptchaNext

\* What the handling of challenges promises.
LEMMA CaptchaPromises ==
  CaptchaRight => CaptchaTypeOK /\ OnlyAuthorizedImages /\ OneAuthorizedSubmission /\ SubmittedIsTrue
BY DEF CaptchaRight, SolveRight, SentRight, SolveRows, SolveSteps, CaptchaTypeOK

-------------------------------------------------------------------------------
(* The page acquisition *)

\* What is known of all the components at once.
PageRight ==
    /\ component \in Components
    /\ RuntimeRight /\ FetchRight /\ ProvidersRight /\ CaptchaRight
    /\ TunnelRight /\ ProfilesRight /\ StoreRight

\* The invariant of the composition: each component starts in order, and a step
\* of one leaves the others where they are.
LEMMA PageInvariant == PageSpec => []PageRight
<1>1. PageInit => PageRight
  BY RuntimeStart, FetchStart, ProvidersStart, CaptchaStart, TunnelStart, ProfilesStart, StoreStart
     DEF PageInit, PageRight
<1>2. PageRight /\ [PageNext]_pageVars => PageRight'
  BY PageParts, RuntimeKept, FetchKept, ProvidersKept, CaptchaKept, TunnelKept, ProfilesKept, StoreKept
     DEF PageRight
<1> QED BY <1>1, <1>2, PTL DEF PageSpec

\* The permits of the shared browser and the tasks that hold one are as many as
\* there are contexts, whatever fails while a context is opened, used, closed or
\* recycled (BrowserRuntime.render, open_owned_session and release).
THEOREM RuntimeIsRight == PageSpec => []RuntimeInv
<1>1. PageRight => RuntimeInv
  BY DEF PageRight, RuntimeRight, RuntimeInv, ContextPermitsExact, Holders
<1> QED BY <1>1, PageInvariant, PTL

\* A body is read from an address that was validated for its own hop, under pins
\* of its own; the lock of the shared client is given back on every way out; a
\* rendered page gets no more than its allowance; and what is returned fits the
\* request (HttpFetcher.fetch, WebScraper.scrape, guard_request).
THEOREM FetchIsRight == PageSpec => []FetchInv
<1>1. PageRight => FetchInv
  BY FetchPromises DEF PageRight
<1> QED BY <1>1, PageInvariant, PTL

\* A failed call that was sent is charged its reservation, a remote session that
\* is known is deleted once, a live one is deleted once, and an image challenge
\* is looked at and answered, once, on authorized hosts only (the adapters'
\* acquire, the session backends' close, solve_if_authorized).
THEOREM ServicesAreRight == PageSpec => []ServicesInv
<1>1. PageRight => ServicesInv
  BY ProvidersPromise, CaptchaPromises DEF PageRight, ServicesInv
<1> QED BY <1>1, PageInvariant, PTL

\* The egress tunnel dials public addresses only, passes nothing before the
\* address is attested, and its two pumps together stay within the ceiling.
THEOREM EgressIsRight == PageSpec => []EgressInv
<1>1. PageRight => EgressInv
  BY TunnelPromises DEF PageRight
<1> QED BY <1>1, PageInvariant, PTL

\* While key rings are rolled out one process at a time, the newest ring reads
\* every profile; a profile goes to allowed hosts only; and what is visible under
\* a digest is all of its content, whatever crashes (ProfileStore.load, put of the
\* filesystem and S3 artifact stores).
THEOREM StoreIsRight == PageSpec => []StoreInv
<1>1. ProfilesRight => ProfilesTypeOK
  <2> SUFFICES ASSUME ProfilesRight PROVE ProfilesTypeOK
    OBVIOUS
  <2>1. DOMAIN Rings = 1 .. Len(Rings)
    BY RingAssumption
  <2>2. \A p \in ProfileIds : profile[p] \in ProfileRows
    BY DEF ProfilesRight, ProfilesTyped
  <2>3. \A row \in ProfileRows : row.payload \in 0 .. 2
    BY DEF ProfileRows, NoProfile, Payloads
  <2> QED BY <2>1, <2>2, <2>3 DEF ProfilesRight, ProfilesTyped, ProfilesTypeOK
<1>2. PageRight => StoreInv
  BY <1>1, StorePromises DEF PageRight, ProfilesRight, StoreInv
<1> QED BY <1>2, PageInvariant, PTL
===============================================================================
