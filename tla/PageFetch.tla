----------------------------- MODULE PageFetch -----------------------------
(***************************************************************************)
(* One page through WebScraper.scrape (app/scraper.py): the HTTP tier of   *)
(* app/fetch.py with its DNS pinning, the decision to escalate, and the    *)
(* render whose every request goes through guard_request.  The same tiers  *)
(* serve LocalAdapter (app/acquisition/local.py), which reports the same   *)
(* classes as provider failures.                                           *)
(*                                                                         *)
(* All scrapes of a process share one HttpFetcher: one curl session, one   *)
(* set of session-wide DNS pins, one lock.  The network answers as it      *)
(* likes: a name may resolve differently at every lookup, and a session    *)
(* may reuse the connection it still has open to a host.                   *)
(***************************************************************************)
EXTENDS Naturals, FiniteSets

CONSTANTS
    Scrapes,            \* scrape() calls of this process
    Hosts, Home,        \* hosts redirects lead to; the one that is scraped
    PublicAddrs,        \* addresses _is_public_address accepts
    PrivateAddrs,       \* addresses it refuses
    NoAddr, NoScrape,
    MaxRedirects,       \* MAX_REDIRECTS
    Allowance,          \* max_decoded_bytes
    BodySizes,          \* sizes of bodies, some over the allowance
    Subrequests         \* requests a rendered page makes

ASSUME FetchAssumption ==
    /\ Home \in Hosts
    /\ PublicAddrs \cap PrivateAddrs = {} /\ PublicAddrs # {}
    /\ NoAddr \notin PublicAddrs \cup PrivateAddrs /\ NoScrape \notin Scrapes
    /\ MaxRedirects \in Nat /\ Allowance \in Nat /\ BodySizes \subseteq Nat

VARIABLES
    holder,     \* who holds HttpFetcher._lock
    pin,        \* curl_options RESOLVE of the shared session
    open,       \* connections the session keeps open, per host
    scrape,     \* the scrape() calls
    remaining,  \* remaining_bytes of each render's guard
    delivered,  \* bytes of bodies each rendered page was given
    sub         \* guard_request calls in flight, per render

guardVars == <<remaining, delivered>>
fetchVars == <<holder, pin, open, scrape, guardVars, sub>>

Addrs == PublicAddrs \cup PrivateAddrs
NoPin == [host |-> "none", addrs |-> {}]
Engines == {"auto", "http", "browser"}
Unasked == [at |-> "idle", limit |-> 0, size |-> 0]
(* What needs_browser, is_challenge_html and documents.sniff tell apart.    *)
Pages == {"article", "shell", "challenge", "document"}

FetchSteps == {"idle", "lock", "resolve", "connect", "verify", "body", "classify",
               "public", "reserve", "render", "done"}
Outcomes == {"none", "ok", "transport_error", "policy_error", "http_status_error",
             "unsafe", "browser_budget_exhausted", "blocked_challenge", "failed"}

(* The lock, the session and the scrapes have the types the code gives them.*)
FetchTypeOK ==
    /\ holder \in Scrapes \cup {NoScrape}
    /\ open \in [Hosts -> Addrs \cup {NoAddr}]
    /\ \A s \in Scrapes :
        /\ scrape[s].at \in FetchSteps /\ scrape[s].outcome \in Outcomes
        /\ scrape[s].host \in Hosts /\ scrape[s].engine \in Engines
        /\ scrape[s].addrs \subseteq Addrs
        /\ scrape[s].hops \in 0 .. MaxRedirects
    /\ remaining \in [Scrapes -> 0 .. Allowance]

FetchInit ==
    /\ holder = NoScrape /\ pin = NoPin
    /\ open = [h \in Hosts |-> NoAddr]
    /\ \E engine \in Engines :
        scrape = [s \in Scrapes |->
                    [at |-> "idle", engine |-> engine, host |-> Home, addrs |-> {},
                     ip |-> NoAddr, hops |-> 0, paid |-> FALSE, page |-> "none",
                     outcome |-> "none"]]
    /\ remaining = [s \in Scrapes |-> Allowance]
    /\ delivered = [s \in Scrapes |-> 0]
    /\ sub = [s \in Scrapes |-> [q \in Subrequests |-> Unasked]]

In(s, step) == scrape[s].at = step
Ends(s, outcome) ==
    scrape' = [scrape EXCEPT ![s].at = "done", ![s].outcome = outcome,
                             ![s].addrs = {}, ![s].ip = NoAddr, ![s].hops = 0]
(* The end of `async with self._lock` on every path out of _fetch.          *)
Unlock == holder' = NoScrape

-----------------------------------------------------------------------------
(* Tier 1: HttpFetcher.fetch *)

BeginScrape(s) ==
    /\ In(s, "idle")
    /\ scrape' = [scrape EXCEPT ![s].at =
            IF scrape[s].engine = "browser" THEN "public" ELSE "lock"]
    /\ UNCHANGED <<holder, pin, open, guardVars, sub>>

LockIgnored == TRUE
LockFree == holder = NoScrape

TakeLock(s) ==
    /\ In(s, "lock") /\ LockFree
    /\ holder' = s
    /\ scrape' = [scrape EXCEPT ![s].at = "resolve"]
    /\ UNCHANGED <<pin, open, guardVars, sub>>

(* ensure_public_url: every address of the answer must be public; then      *)
(* _pin replaces the pins of the whole session.                             *)
AllPublic(answer) == answer # {} /\ answer \subseteq PublicAddrs

Resolve(s, answer) ==
    /\ In(s, "resolve")
    /\ IF AllPublic(answer)
       THEN /\ scrape' = [scrape EXCEPT ![s].at = "connect", ![s].addrs = answer]
            /\ pin' = [host |-> scrape[s].host, addrs |-> answer]
            /\ UNCHANGED holder
       ELSE Ends(s, "unsafe") /\ Unlock /\ UNCHANGED pin
    /\ UNCHANGED <<open, guardVars, sub>>

(* curl connects where the pin of the host says, to an answer of its own    *)
(* when the session pins another host, or reuses an open connection.        *)
Reachable(h) ==
    (IF pin.host = h THEN pin.addrs ELSE Addrs)
        \cup (IF open[h] = NoAddr THEN {} ELSE {open[h]})

Connect(s, ip) ==
    /\ In(s, "connect")
    /\ ip \in Reachable(scrape[s].host)
    /\ scrape' = [scrape EXCEPT ![s].at = "verify", ![s].ip = ip]
    /\ open' = [open EXCEPT ![scrape[s].host] = ip]
    /\ UNCHANGED <<holder, pin, guardVars, sub>>

(* A transport error, a read timeout or the 20 s of asyncio.timeout.        *)
FetchFails(s) ==
    /\ scrape[s].at \in {"resolve", "connect", "verify", "body"}
    /\ Ends(s, "transport_error") /\ Unlock
    /\ UNCHANGED <<pin, open, guardVars, sub>>

(* _verify_connected: the server that answered is one that was validated    *)
(* for this hop.                                                            *)
Verified(s) == scrape[s].ip \in scrape[s].addrs

Redirected(s, h) ==
    /\ In(s, "verify") /\ Verified(s)
    /\ IF scrape[s].hops = MaxRedirects
       THEN Ends(s, "transport_error") /\ Unlock
       ELSE /\ scrape' = [scrape EXCEPT ![s].at = "resolve", ![s].host = h,
                                        ![s].hops = @ + 1, ![s].addrs = {},
                                        ![s].ip = NoAddr]
            /\ UNCHANGED holder
    /\ UNCHANGED <<pin, open, guardVars, sub>>

RefuseConnected(s) ==
    /\ In(s, "verify") /\ ~Verified(s)
    /\ Ends(s, "unsafe") /\ Unlock
    /\ UNCHANGED <<pin, open, guardVars, sub>>

Answered(s) ==
    /\ In(s, "verify") /\ Verified(s)
    /\ scrape' = [scrape EXCEPT ![s].at = "body"]
    /\ UNCHANGED <<holder, pin, open, guardVars, sub>>

(* _body reads until the allowance is passed; status and page are the       *)
(* server's.                                                                *)
ReadBody(s, size, page) ==
    /\ In(s, "body")
    /\ IF size > Allowance
       THEN Ends(s, "transport_error")
       ELSE scrape' = [scrape EXCEPT ![s].at = "classify", ![s].page = page]
    /\ Unlock
    /\ UNCHANGED <<pin, open, guardVars, sub>>

-----------------------------------------------------------------------------
(* The decision after tier 1, in the order of scrape() *)

SameOrigin(s) == scrape[s].host = Home
NeedsBrowser(s) == scrape[s].page \in {"shell", "challenge"}
Escalates(s) == scrape[s].engine = "auto" /\ NeedsBrowser(s)

(* A 2xx answer: the origin is checked first, a document is kept whatever   *)
(* its extraction yields, and only an HTML shell or a challenge goes on.    *)
Classify(s) ==
    /\ In(s, "classify")
    /\ IF ~SameOrigin(s) THEN Ends(s, "policy_error")
       ELSE IF Escalates(s) THEN scrape' = [scrape EXCEPT ![s].at = "public", ![s].addrs = {},
                                                       ![s].ip = NoAddr, ![s].hops = 0]
       ELSE Ends(s, "ok")
    /\ UNCHANGED <<holder, pin, open, guardVars, sub>>

ClassifyError(s) ==
    /\ In(s, "classify")
    /\ Ends(s, IF SameOrigin(s) THEN "http_status_error" ELSE "policy_error")
    /\ UNCHANGED <<holder, pin, open, guardVars, sub>>

(* ensure_public_url(url) before the browser.                               *)
CheckPublic(s, answer) ==
    /\ In(s, "public")
    /\ IF AllPublic(answer)
       THEN scrape' = [scrape EXCEPT ![s].at = "reserve", ![s].host = Home]
       ELSE Ends(s, "unsafe")
    /\ UNCHANGED <<holder, pin, open, guardVars, sub>>

(* before_browser: the durable crawl's budget may refuse.                   *)
ReserveBrowser(s, granted) ==
    /\ In(s, "reserve")
    /\ IF granted
       THEN scrape' = [scrape EXCEPT ![s].at = "render", ![s].paid = TRUE]
       ELSE Ends(s, "browser_budget_exhausted")
    /\ UNCHANGED <<holder, pin, open, guardVars, sub>>

-----------------------------------------------------------------------------
(* Tier 2: guard_request and the classification of what was rendered *)

(* The limit handed to the transport is read before the fetch is awaited.   *)
GuardAsks(s, q) ==
    /\ In(s, "render") /\ sub[s][q].at = "idle"
    /\ sub' = [sub EXCEPT ![s][q] = [at |-> "asked", limit |-> remaining[s], size |-> 0]]
    /\ UNCHANGED <<holder, pin, open, scrape, guardVars>>

(* fetch_request returns a body within that limit, or nothing (aborted).    *)
GuardAnswered(s, q, size) ==
    /\ In(s, "render") /\ sub[s][q].at = "asked"
    /\ sub' = [sub EXCEPT ![s][q] =
            IF size <= sub[s][q].limit THEN [@ EXCEPT !.at = "answered", !.size = size]
                                       ELSE [@ EXCEPT !.at = "aborted"]]
    /\ UNCHANGED <<holder, pin, open, scrape, guardVars>>

(* After the await the body is compared with what remains now.              *)
StillFits(s, q) == sub[s][q].size <= remaining[s]

GuardFulfils(s, q) ==
    /\ In(s, "render") /\ sub[s][q].at = "answered"
    /\ IF StillFits(s, q)
       THEN /\ sub' = [sub EXCEPT ![s][q].at = "fulfilled"]
            /\ remaining' = [remaining EXCEPT ![s] =
                    IF sub[s][q].size > @ THEN 0 ELSE @ - sub[s][q].size]
            /\ delivered' = [delivered EXCEPT ![s] = @ + sub[s][q].size]
       ELSE sub' = [sub EXCEPT ![s][q].at = "aborted"] /\ UNCHANGED guardVars
    /\ UNCHANGED <<holder, pin, open, scrape>>

(* The context is closed and with it the requests still in flight.          *)
GuardCloses(s) ==
    /\ sub' = [sub EXCEPT ![s] = [q \in Subrequests |-> Unasked]]
    /\ remaining' = [remaining EXCEPT ![s] = Allowance]
    /\ delivered' = [delivered EXCEPT ![s] = 0]

(* The render returns: h is the host of the final URL, page what the DOM    *)
(* holds, good whether the navigation had a 2xx status.                     *)
Rendered(s, h, page, good) ==
    /\ In(s, "render")
    /\ scrape' = [scrape EXCEPT
            ![s].at = "done", ![s].host = h, ![s].page = page,
            ![s].outcome = IF h # Home THEN "policy_error"
                           ELSE IF page = "challenge" THEN "blocked_challenge"
                           ELSE IF good THEN "ok" ELSE "http_status_error"]
    /\ GuardCloses(s)
    /\ UNCHANGED <<holder, pin, open>>

RenderFails(s, unsafe) ==
    /\ In(s, "render")
    /\ Ends(s, IF unsafe THEN "unsafe" ELSE "failed")
    /\ GuardCloses(s)
    /\ UNCHANGED <<holder, pin, open>>

-----------------------------------------------------------------------------
Answers == SUBSET Addrs

ScrapeStep(s) ==
    \/ BeginScrape(s) \/ TakeLock(s)
    \/ \E answer \in Answers : Resolve(s, answer) \/ CheckPublic(s, answer)
    \/ \E ip \in Addrs : Connect(s, ip)
    \/ \E h \in Hosts : Redirected(s, h)
    \/ RefuseConnected(s) \/ Answered(s) \/ FetchFails(s)
    \/ \E size \in BodySizes, page \in Pages : ReadBody(s, size, page)
    \/ Classify(s) \/ ClassifyError(s)
    \/ \E granted \in BOOLEAN : ReserveBrowser(s, granted)
    \/ \E h \in Hosts, page \in Pages \ {"document"}, good \in BOOLEAN :
            Rendered(s, h, page, good)
    \/ \E unsafe \in BOOLEAN : RenderFails(s, unsafe)

GuardStep(s) ==
    \E q \in Subrequests :
        \/ GuardAsks(s, q) \/ GuardFulfils(s, q)
        \/ \E size \in BodySizes : GuardAnswered(s, q, size)

FetchNext == \E s \in Scrapes : ScrapeStep(s) \/ GuardStep(s)

-----------------------------------------------------------------------------
(* Whatever the name server answers, at whichever lookup, and whichever     *)
(* connection curl reuses: a body is read only from a public address, and   *)
(* from one that was validated for the very hop that is read.               *)
OnlyValidatedBodies ==
    \A s \in Scrapes :
        scrape[s].at \in {"body", "classify"} =>
            scrape[s].ip \in PublicAddrs \cap scrape[s].addrs

(* The pins are session-wide, the scrapes are many: while one connects the  *)
(* session pins exactly the addresses that scrape has validated.            *)
PinsAreOwn ==
    \A s \in Scrapes : In(s, "connect") =>
        pin = [host |-> scrape[s].host, addrs |-> scrape[s].addrs]

(* The requests of a page run concurrently and each was given a limit read  *)
(* before it awaited: together the page never gets more than the allowance. *)
RenderWithinAllowance == \A s \in Scrapes : delivered[s] <= Allowance

(* What is returned as a page is of the origin that was asked for; only a   *)
(* forced HTTP engine may return a challenge; a document fetched by the     *)
(* HTTP tier is never handed to the browser; and a render is paid for.      *)
OutcomeFits ==
    \A s \in Scrapes :
        /\ scrape[s].outcome = "ok" =>
            /\ scrape[s].host = Home
            /\ scrape[s].engine # "http" => scrape[s].page # "challenge"
        /\ scrape[s].at \in {"public", "reserve", "render"} => scrape[s].page # "document"
        /\ scrape[s].at = "render" => scrape[s].paid

(* The lock of the shared session is held exactly while a scrape resolves,  *)
(* connects and reads: no way out of a fetch (refusal, redirect limit,      *)
(* timeout, oversized body) leaves it locked for everybody else.            *)
LockIsGivenBack ==
    \A s \in Scrapes :
        (holder = s) = (scrape[s].at \in {"resolve", "connect", "verify", "body"})
=============================================================================
