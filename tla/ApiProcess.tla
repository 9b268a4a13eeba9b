----------------------------- MODULE ApiProcess -----------------------------
(***************************************************************************)
(* The API process outside the durable crawl queue: research runs, the     *)
(* in-memory crawler, scheduled and batch runs, the page signals, the      *)
(* search side (vector index, hybrid retrieval, chunking), URL discovery,  *)
(* the scripts that make a corpus of what it stored, the data directory,   *)
(* and the start and stop of the process.  app/main.py                     *)
(* creates each as a singleton of its own; they share no                   *)
(* variable of these models, so a behaviour of the composition is a        *)
(* behaviour of one part, chosen at the start, while the others stand at   *)
(* their initial state.  Fairness is the event loop's: a coroutine that    *)
(* can run runs in the end.                                                *)
(***************************************************************************)
EXTENDS ResearchRuns, LegacyCrawl, ScrapeRuns, PageSignals, SemanticSearch,
        Chunking, SiteDiscovery, CorpusPipeline,
        DataDirectory, ProcessLife

VARIABLE part   \* the part that runs

offlineVars == <<siteVars, corpusVars, rebuildVars, dataVars, lifeVars>>
apiVars == <<part, rvars, lvars, svars, pvars, indexVars, retrievalVars, chunkVars, offlineVars>>

Parts == {"research", "crawl", "runs", "signals", "index", "retrieval", "chunking",
          "site", "corpus", "rebuild", "data", "life"}

(* Initial states of the parts whose Init leaves a choice, without it.      *)
IndexIdle == IndexInit /\ fts /\ backend = CHOOSE d \in Dimensions : TRUE
RetrievalIdle ==
    /\ ranking = [semantic |-> <<>>, db |-> <<>>, file |-> <<>>] /\ mode = "hybrid"
    /\ depth = FirstDepth /\ fused = <<>> /\ nearest = <<>> /\ merged = <<>>
    /\ answer = Searching
ChunkIdle ==
    /\ chunker = "text" /\ input = <<>> /\ next = 1 /\ current = <<>> /\ tokens = 0
    /\ stack = <<>> /\ path = <<>> /\ body = FALSE /\ chunks = <<>> /\ leads = <<>>

ApiInit ==
    /\ part \in Parts
    /\ ResearchInit /\ LegacyInit /\ RunsInit /\ SignalsInit
    /\ IF part = "index" THEN IndexInit ELSE IndexIdle
    /\ IF part = "retrieval" THEN RetrievalInit ELSE RetrievalIdle
    /\ IF part = "chunking" THEN ChunkInit ELSE ChunkIdle
    /\ IF part = "site" THEN SiteInit ELSE SiteIdle
    /\ CorpusInit /\ RebuildInit /\ DataInit /\ LifeInit

OnlyResearch == UNCHANGED <<part, lvars, svars, pvars, indexVars, retrievalVars, chunkVars, offlineVars>>
OnlyLegacy == UNCHANGED <<part, rvars, svars, pvars, indexVars, retrievalVars, chunkVars, offlineVars>>
OnlyRuns == UNCHANGED <<part, rvars, lvars, pvars, indexVars, retrievalVars, chunkVars, offlineVars>>
OnlySignals == UNCHANGED <<part, rvars, lvars, svars, indexVars, retrievalVars, chunkVars, offlineVars>>
OnlyIndex == UNCHANGED <<part, rvars, lvars, svars, pvars, retrievalVars, chunkVars, offlineVars>>
OnlyRetrieval == UNCHANGED <<part, rvars, lvars, svars, pvars, indexVars, chunkVars, offlineVars>>
OnlyChunking == UNCHANGED <<part, rvars, lvars, svars, pvars, indexVars, retrievalVars, offlineVars>>
ApiOnly == <<part, rvars, lvars, svars, pvars, indexVars, retrievalVars, chunkVars>>
OnlySite == UNCHANGED <<ApiOnly, corpusVars, rebuildVars, dataVars, lifeVars>>
OnlyCorpus == UNCHANGED <<ApiOnly, siteVars, rebuildVars, dataVars, lifeVars>>
OnlyRebuild == UNCHANGED <<ApiOnly, siteVars, corpusVars, dataVars, lifeVars>>
OnlyData == UNCHANGED <<ApiOnly, siteVars, corpusVars, rebuildVars, lifeVars>>
OnlyLife == UNCHANGED <<ApiOnly, siteVars, corpusVars, rebuildVars, dataVars>>

ApiNext ==
    \/ part = "research" /\ ResearchNext /\ OnlyResearch
    \/ part = "crawl" /\ LegacyNext /\ OnlyLegacy
    \/ part = "runs" /\ RunsNext /\ OnlyRuns
    \/ part = "signals" /\ SignalsNext /\ OnlySignals
    \/ part = "index" /\ IndexNext /\ OnlyIndex
    \/ part = "retrieval" /\ RetrievalNext /\ OnlyRetrieval
    \/ part = "chunking" /\ ChunkNext /\ OnlyChunking
    \/ part = "site" /\ SiteNext /\ OnlySite
    \/ part = "corpus" /\ CorpusNext /\ OnlyCorpus
    \/ part = "rebuild" /\ RebuildNext /\ OnlyRebuild
    \/ part = "data" /\ DataNext /\ OnlyData
    \/ part = "life" /\ LifeNext /\ OnlyLife

(* The coroutines of a research run and of the crawl's workers keep running. *)
ApiFairness ==
    /\ \A r \in Runs : WF_rvars(part = "research" /\ ResearchStep(r))
    /\ WF_lvars(part = "crawl" /\ LegacyStep)

ApiSpec == ApiInit /\ [][ApiNext]_apiVars /\ ApiFairness

\* A part that does not run is as it began: the promises are about the part that does.

\* A research run and an in-memory crawl may die at every await and resume
\* from their checkpoints: budgets hold over all lives, no entry of a list is read
\* and no page crawled twice, a cancellation decides the status, a run is reported once, and
\* the checkpoint holds the whole frontier.
ResumeInv ==
    /\ part \in Parts
    /\ part = "research" =>
          ResearchTypeOK /\ ResearchBudgets /\ NoEntryReadAgain /\ CancelIsHonoured /\ ReportedOnce
    /\ part = "crawl" => LegacyTypeOK /\ CrawlOncePerUrl /\ FrontierIsMirrored

\* A scheduled definition never runs twice at once although guard, insertion and
\* launch are separate steps, and a webhook tells the status the row has.
RunsInv == part = "runs" => RunsTypeOK /\ NoScheduledOverlap /\ EventsTellTheTruth

\* Change and duplicate signals of concurrent scrapes: compared with the scrape
\* before, one original per text, no invented duplicate, and two index files
\* that agree after a restart.
SignalsInv ==
    part = "signals" => ComparedWithPrevious /\ OneOriginal /\ DuplicateIsReal /\ IndexesAgree

\* The two tables of the vector index mirror each other, a filtered search is
\* the exact one, and hybrid retrieval hides no source and stops only when its
\* answer is complete.
SearchInv ==
    /\ part = "index" => IndexTypeOK /\ TablesMirror /\ SearchIsExact
    /\ part = "retrieval" => RetrievalTypeOK /\ FileHitsNotHidden /\ FusionIsMonotone /\ AnswerIsComplete

\* Chunks lose no text, hold their size and carry the headings they stand under;
\* URLs have one identity, and a page's links, a sitemap walk and a site map are
\* those of their reference definitions.
TextInv ==
    /\ part = "chunking" => NothingIsLost /\ WindowsHold /\ BreadcrumbIsTrue
    /\ part = "site" => SiteTypeOK /\ IdentityIsStable /\ ScanIsExact /\ WalkIsComplete /\ MapIsMerged

\* The corpus scripts, cut short at any file operation: hosts are spared, the
\* drain moves on, ledgers and states claim only what is in the files, and the
\* newest complete corpus survives a rebuild.
CorpusInv ==
    /\ part = "corpus" =>
          /\ CorpusTypeOK /\ HostsAreSpared /\ DrainNeverStuck /\ CopiesOnlyFromGaps
          /\ LedgerIsBacked /\ OkMeansBuilt /\ SeenHasPairs
    /\ part = "rebuild" => NewestSurvives

\* Retention keeps the newest records and leaves an orphan only where the removal
\* of a pair was cut in half; checkpoints and llms.txt files are whole when seen.
FilesInv ==
    part = "data" => NewestAreKept /\ OrphansOnlyFromHalves /\ CheckpointIsLast /\ ReadyIsWhole

Begun(r) == IF part = "research" THEN RunBegun(r) ELSE CrawlBegun
Ended(r) == IF part = "research" THEN RunEnded(r) ELSE CrawlEnded

\* Runs end: the deadline of a research run survives its restarts, a queued run
\* always comes to an end, and queue.join of a crawl returns on every path of its
\* workers (run_research, run_crawl).
RunsEnd == DeadlineSurvives /\ \A r \in Runs : Begun(r) ~> Ended(r)
=============================================================================
