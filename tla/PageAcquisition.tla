--------------------------- MODULE PageAcquisition ---------------------------
(***************************************************************************)
(* The components one page acquisition is built from: the shared browser   *)
(* runtime, the pinned HTTP fetch and local scrape, the managed providers, *)
(* captcha handling, the egress tunnel, the encrypted browser profiles and *)
(* the artifact store.  AcquisitionRouter models who calls them; here each *)
(* runs against every answer its environment can give.  They share no      *)
(* variable, so a behaviour is a behaviour of one component, chosen at the *)
(* start, while the others stand at their initial state.                   *)
(***************************************************************************)
EXTENDS BrowserRuntime, PageFetch, ManagedProviders, CaptchaSolving,
        EgressTunnel, SessionProfiles, ArtifactStore

VARIABLE component  \* the component that runs

pageVars == <<component, browserVars, fetchVars, providerVars, captchaVars,
              tunnelVars, profileVars, artifactVars>>

Components == {"browser", "fetch", "provider", "captcha", "tunnel", "profile", "artifact"}

PageInit ==
    /\ component \in Components
    /\ RuntimeInit /\ TunnelInit /\ ProfilesInit
    /\ FetchInit /\ ProvidersInit /\ CaptchaInit /\ ArtifactInit
    /\ component # "fetch" => \A s \in Scrapes : scrape[s].engine = "http"
    /\ component # "provider" => call.adapter = "firecrawl" /\ live.kind = "firecrawl"
    /\ component # "captcha" => page.host = CHOOSE h \in PageHosts : TRUE
    /\ component # "artifact" => store = "filesystem"

OnlyBrowser == UNCHANGED <<component, fetchVars, providerVars, captchaVars, tunnelVars,
                           profileVars, artifactVars>>
OnlyFetch == UNCHANGED <<component, browserVars, providerVars, captchaVars, tunnelVars,
                         profileVars, artifactVars>>
OnlyProvider == UNCHANGED <<component, browserVars, fetchVars, captchaVars, tunnelVars,
                            profileVars, artifactVars>>
OnlyCaptcha == UNCHANGED <<component, browserVars, fetchVars, providerVars, tunnelVars,
                           profileVars, artifactVars>>
OnlyTunnel == UNCHANGED <<component, browserVars, fetchVars, providerVars, captchaVars,
                          profileVars, artifactVars>>
OnlyProfile == UNCHANGED <<component, browserVars, fetchVars, providerVars, captchaVars,
                           tunnelVars, artifactVars>>
OnlyArtifact == UNCHANGED <<component, browserVars, fetchVars, providerVars, captchaVars,
                            tunnelVars, profileVars>>

PageNext ==
    \/ component = "browser" /\ RuntimeNext /\ OnlyBrowser
    \/ component = "fetch" /\ FetchNext /\ OnlyFetch
    \/ component = "provider" /\ ProvidersNext /\ OnlyProvider
    \/ component = "captcha" /\ CaptchaNext /\ OnlyCaptcha
    \/ component = "tunnel" /\ TunnelNext /\ OnlyTunnel
    \/ component = "profile" /\ ProfilesNext /\ OnlyProfile
    \/ component = "artifact" /\ ArtifactNext /\ OnlyArtifact

(* A coroutine that can run runs in the end: every await of these calls is  *)
(* bounded by a timeout of the code (launch, navigation, dial and idle      *)
(* timeouts), whose failure is a step too.                                  *)
PageFairness ==
    /\ \A t \in Clients :
        WF_pageVars(component = "browser" /\ RuntimeStep(t) /\ OnlyBrowser)
    /\ WF_pageVars(component = "tunnel" /\ TunnelStep /\ OnlyTunnel)
    /\ \A d \in Directions :
        WF_pageVars(component = "tunnel" /\ PumpStep(d) /\ OnlyTunnel)

PageSpec == PageInit /\ [][PageNext]_pageVars /\ PageFairness

\* The browser's permits are those of the contexts in use, whatever fails while
\* one is opened, used, closed or recycled.
RuntimeInv == component \in Components /\ RuntimeTypeOK /\ ContextPermitsExact

\* A body comes from a validated address of its own host, whatever DNS answers
\* meanwhile; the shared client is given back; a rendered page stays within its
\* allowance and the ladder ends in an outcome that fits.
FetchInv ==
    /\ FetchTypeOK /\ OnlyValidatedBodies /\ PinsAreOwn /\ RenderWithinAllowance
    /\ OutcomeFits /\ LockIsGivenBack

\* Calls of outside services: a failed call is charged, a remote session is
\* deleted (once), and a captcha is looked at and answered, once, only on a page
\* of an authorized host.
ServicesInv ==
    /\ ProvidersTypeOK /\ FailedCallIsCharged /\ RemoteSessionDeleted
    /\ LiveSessionDeletedOnce
    /\ CaptchaTypeOK /\ OnlyAuthorizedImages /\ OneAuthorizedSubmission /\ SubmittedIsTrue

\* The egress tunnel dials public addresses, passes nothing before the address
\* is attested, and forwards no more bytes than its two pumps were granted.
EgressInv ==
    /\ TunnelTypeOK /\ BytesWithinCeiling /\ BudgetIsExact
    /\ OnlyPublicIsDialled /\ NothingBeforeAttest

\* The newest key ring reads every profile, profiles go to allowed hosts, and a
\* visible artifact has the content its digest names.
StoreInv ==
    /\ ProfilesTypeOK /\ NewestReadsAll /\ OnlyAllowedHosts
    /\ ArtifactTypeOK /\ DigestsAreTrue

\* Every call of the shared browser returns and every tunnel closes.
CallsEnd == EveryCallReturns /\ TunnelCloses
=============================================================================
