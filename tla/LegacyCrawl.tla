----------------------------- MODULE LegacyCrawl ------------------------------
(***************************************************************************)
(* WebCrawler (app/crawler.py): the in-process crawl that pre-dates the    *)
(* durable queue.  Workers of one event loop share a queue, its mirror on  *)
(* the checkpoint, and a visited set; one action is the code between two   *)
(* awaits.  The process may die between any two actions.  URLs stand for   *)
(* their normalized form.                                                  *)
(***************************************************************************)
EXTENDS Naturals, FiniteSets, Sequences, SequencesExt

CONSTANTS
    Sites,          \* URLs on the domain of the crawl
    BaseUrl, SitemapUrls, Links,
    Fetchers,       \* the worker tasks of run_crawl
    CrawlLimit, CrawlDepth,
    MaxRestarts     \* bound on the restarts of the process

ASSUME LegacyAssumption ==
    /\ BaseUrl \in Sites /\ SitemapUrls \in Seq(Sites)
    /\ Links \in [Sites -> SUBSET Sites] /\ \A u \in Sites : IsFiniteSet(Links[u])
    /\ {CrawlLimit, CrawlDepth, MaxRestarts} \subseteq Nat

VARIABLES
    crawl,      \* the job dict: status, results, errors
    visited, pending,   \* the loop state a checkpoint holds
    queue,      \* the asyncio.Queue
    fetching,   \* what each worker is scraping
    saved,      \* the checkpoint file, or NoFile
    stage,      \* where run_crawl stands
    kept,       \* crawl artifacts written
    restarts

lvars == <<crawl, visited, pending, queue, fetching, saved, stage, kept, restarts>>

NoPage == [url |-> "none", depth |-> 0]
NoFile == [status |-> "none"]
NewCrawl == [status |-> "pending", results |-> <<>>, errors |-> {}]
EndedCrawl == {"completed", "failed"}

LegacyInit ==
    /\ crawl = NewCrawl /\ visited = {} /\ pending = <<[url |-> BaseUrl, depth |-> 0]>>
    /\ queue = <<>> /\ fetching = [f \in Fetchers |-> NoPage]
    /\ saved = NoFile /\ stage = "seed" /\ kept = 0 /\ restarts = 0

Snapshot(job, seen, frontier) ==
    [status |-> job.status, job |-> job, visited |-> seen, pending |-> frontier]

(* _checkpoint: throttled unless forced, and a failed write is swallowed. *)
MaybeCheckpoint(job, seen, frontier) ==
    saved' \in {saved, Snapshot(job, seen, frontier)}

(* The URLs of the sitemap join the frontier at depth 1. *)
SeedItems(found) ==
    LET items[n \in 0 .. Len(found)] ==
            IF n = 0 THEN <<>>
            ELSE IF found[n] = BaseUrl THEN items[n - 1]
                 ELSE Append(items[n - 1], [url |-> found[n], depth |-> 1])
    IN  items[Len(found)]

(* The head of run_crawl: seed from the sitemap (a resumed crawl does not), *)
(* fill the queue, force a checkpoint.                                      *)
Seed ==
    /\ stage \in {"seed", "reseed"}
    /\ \E found \in (IF stage = "seed" THEN {<<>>, SitemapUrls} ELSE {<<>>}) :
         pending' = pending \o SeedItems(found)
    /\ queue' = pending'
    /\ crawl' = [crawl EXCEPT !.status = "processing"]
    /\ MaybeCheckpoint(crawl', visited, pending')
    /\ stage' = "fetch"
    /\ UNCHANGED <<visited, fetching, kept, restarts>>

(* The mirror of the frontier without an item. *)
Unpend(item) == IF Contains(pending, item) THEN RemoveFirst(pending, item) ELSE pending

Claimable(item) == item.url \notin visited /\ Cardinality(visited) < CrawlLimit

(* A worker takes an item and claims it, or drops it. *)
TakeUrl(f) ==
    LET item == Head(queue)
    IN /\ stage = "fetch" /\ queue # <<>> /\ fetching[f] = NoPage
       /\ queue' = Tail(queue)
       /\ pending' = Unpend(item)
       /\ IF Claimable(item)
          THEN /\ visited' = visited \cup {item.url}
               /\ fetching' = [fetching EXCEPT ![f] = item]
          ELSE UNCHANGED <<visited, fetching>>
       /\ UNCHANGED <<crawl, saved, stage, kept, restarts>>

(* What _extract_links finds on a page, in any order. *)
Discovered(item) ==
    IF item.depth < CrawlDepth /\ Cardinality(visited) < CrawlLimit
    THEN SetToSeq({[url |-> u, depth |-> item.depth + 1] : u \in Links[item.url] \ visited})
    ELSE <<>>

(* The scrape answers: a result and its links; or an error; or a result *)
(* whose links cannot be extracted, which is an error as well.          *)
Scraped(f) ==
    LET item == fetching[f]
        good == [crawl EXCEPT !.results = Append(@, item.url)]
        bad(job) == [job EXCEPT !.errors = @ \cup {item.url}]
    IN /\ stage = "fetch" /\ item # NoPage
       /\ \/ /\ crawl' = good
             /\ pending' = pending \o Discovered(item)
             /\ queue' = queue \o Discovered(item)
          \/ crawl' \in {bad(crawl), bad(good)} /\ UNCHANGED <<pending, queue>>
       /\ fetching' = [fetching EXCEPT ![f] = NoPage]
       /\ MaybeCheckpoint(crawl', visited, pending')
       /\ UNCHANGED <<visited, stage, kept, restarts>>

(* queue.join returns: every item is done. *)
AllDone == queue = <<>> /\ \A f \in Fetchers : fetching[f] = NoPage

(* The artifact is saved, then the checkpoint is deleted. *)
FinishCrawl ==
    /\ stage = "fetch" /\ AllDone
    /\ crawl' = [crawl EXCEPT !.status = IF crawl.results # <<>> THEN "completed" ELSE "failed"]
    /\ \/ kept' = kept + 1 /\ stage' = "unlink"
       \/ kept' = kept /\ stage' = "over"
    /\ UNCHANGED <<visited, pending, queue, fetching, saved, restarts>>

DropCheckpoint ==
    /\ stage = "unlink"
    /\ saved' = NoFile /\ stage' = "over"
    /\ UNCHANGED <<crawl, visited, pending, queue, fetching, kept, restarts>>

(* The process dies; restore_from_checkpoints of the next one. *)
RestartCrawl ==
    /\ restarts < MaxRestarts
    /\ restarts' = restarts + 1
    /\ queue' = <<>> /\ fetching' = [f \in Fetchers |-> NoPage]
    /\ IF saved # NoFile /\ saved.status \notin EndedCrawl
       THEN /\ crawl' = [saved.job EXCEPT !.status = "interrupted"]
            /\ visited' = saved.visited /\ pending' = saved.pending
            /\ stage' = "parked" /\ UNCHANGED saved
       ELSE /\ crawl' = NewCrawl /\ visited' = {} /\ pending' = <<>>
            /\ stage' = "gone" /\ saved' = NoFile
    /\ UNCHANGED kept

(* resume_crawl: URLs claimed but neither scraped nor failed lose their *)
(* claim.                                                               *)
ResumeCrawl ==
    /\ stage = "parked" /\ crawl.status = "interrupted"
    /\ visited' = visited \cap (ToSet(crawl.results) \cup crawl.errors)
    /\ crawl' = [crawl EXCEPT !.status = "pending"]
    /\ stage' = "reseed"
    /\ UNCHANGED <<pending, queue, fetching, saved, kept, restarts>>

LegacyStep ==
    \/ Seed \/ FinishCrawl \/ DropCheckpoint
    \/ \E f \in Fetchers : TakeUrl(f) \/ Scraped(f)

LegacyNext == LegacyStep \/ RestartCrawl \/ ResumeCrawl

-------------------------------------------------------------------------------
(* Properties *)

(* URLs and stages are the ones the code knows. *)
LegacyTypeOK ==
    /\ visited \subseteq Sites /\ ToSet(crawl.results) \cup crawl.errors \subseteq Sites
    /\ stage \in {"seed", "reseed", "fetch", "unlink", "over", "parked", "gone"}

(* The page limit and the once-per-page rule hold over restarts: a resumed *)
(* crawl continues with the results of the checkpoint and never stores a   *)
(* second result of a URL, nor touches more than limit of them.            *)
CrawlOncePerUrl ==
    /\ IsInjective(crawl.results)
    /\ Cardinality(ToSet(crawl.results) \cup crawl.errors) <= CrawlLimit

(* The checkpointed frontier is the queue: a page is lost to a crash only *)
(* while a worker has it.                                                 *)
FrontierIsMirrored == stage = "fetch" => pending = queue

(* A crawl that runs ends, when queue.join returns, or the process restarts. *)
CrawlBegun == stage = "fetch"
CrawlEnded == stage \in {"over", "parked", "gone"}
===============================================================================
