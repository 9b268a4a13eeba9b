----------------------------- MODULE ResearchRuns -----------------------------
(***************************************************************************)
(* ResearchManager (app/research.py): runs that plan, search, read, assess *)
(* and synthesize, with a checkpoint on disk at every expensive step.  One *)
(* action is the code between two awaits of run_research.  The process may *)
(* die at any await; the next one restores the checkpoints.                *)
(* Several URLs may be spellings of one page, and a list may repeat one.   *)
(***************************************************************************)
EXTENDS Naturals, FiniteSets, Sequences, SequencesExt

CONSTANTS
    Runs,           \* research jobs
    Urls, Pages,    \* URLs as they are spelled, and the pages they stand for
    Norm,           \* normalize_url: the page of a URL
    SeedUrls,       \* seed_urls of the request
    MaxConcurrent, MaxRounds, MaxPages, LlmCap, PickPerRound,
    MaxCrashes      \* bound on the restarts of the process

ASSUME ResearchAssumption ==
    /\ IsFiniteSet(Urls) /\ Norm \in [Urls -> Pages] /\ SeedUrls \in Seq(Urls)
    /\ {MaxConcurrent, MaxRounds, MaxPages, LlmCap, PickPerRound, MaxCrashes} \subseteq Nat

VARIABLES
    research,   \* self.jobs: the job dict of every run, Absent when unknown
    frame,      \* where the coroutine of a run stands, and its loop state
    parked,     \* _pending_resume: loop state restored and not resumed yet
    ckpt,       \* data/research/checkpoints: job and loop state, or Absent
    late,       \* deadline_utc has passed
    outcome,    \* artifacts and webhook events of a run
    facts,      \* what happened: job ids given out, the list a round settled on and what
                \* was read of it, the pages of earlier lists, cancels, failed writes
    crashes

rvars == <<research, frame, parked, ckpt, late, outcome, facts, crashes>>

Absent == [status |-> "absent"]
Terminal == {"completed", "failed", "cancelled"}

(* _fresh_state *)
FreshLoop == [seen |-> {}, pending |-> <<>>, planned |-> FALSE,
              round |-> 0, phase |-> "search"]

(* create_job *)
NewRun == [status |-> "queued", rounds |-> 0, pages |-> 0, llm |-> 0,
           relevant |-> FALSE, cancel |-> FALSE, error |-> FALSE, timed |-> FALSE]

Idle == [at |-> "none", loop |-> FreshLoop]

(* active_jobs: an interrupted run does not count against MAX_CONCURRENT. *)
ActiveRuns == {r \in Runs : research[r].status \notin Terminal \cup {"interrupted", "absent"}}

ResearchInit ==
    /\ research = [r \in Runs |-> Absent]
    /\ frame = [r \in Runs |-> Idle]
    /\ parked = [r \in Runs |-> FreshLoop]
    /\ ckpt = [r \in Runs |-> Absent]
    /\ late = [r \in Runs |-> FALSE]
    /\ outcome = [r \in Runs |-> [artifacts |-> 0, events |-> 0]]
    /\ facts = [r \in Runs |-> [born |-> FALSE, listed |-> <<>>, read |-> <<>>, earlier |-> {},
                                cancelled |-> FALSE, unsaved |-> FALSE]]
    /\ crashes = 0

(* _checkpoint swallows a failed write: the older checkpoint stays.  From  *)
(* then on the lists of the run are not recorded any more.                 *)
Unsaved(fact) == [fact EXCEPT !.unsaved = TRUE, !.listed = <<>>, !.read = <<>>, !.earlier = {}]

CheckpointWith(r, job, loop, fact) ==
    \/ /\ ckpt' = [ckpt EXCEPT ![r] = [status |-> job.status, job |-> job, loop |-> loop]]
       /\ facts' = [facts EXCEPT ![r] = IF facts[r].unsaved THEN facts[r] ELSE fact]
    \/ /\ facts' = [facts EXCEPT ![r] = Unsaved(facts[r])]
       /\ UNCHANGED ckpt

Checkpoint(r, job, loop) == CheckpointWith(r, job, loop, facts[r])

(* The coroutine of r goes on at the await named at. *)
Goto(r, job, at, loop) ==
    /\ research' = [research EXCEPT ![r] = job]
    /\ frame' = [frame EXCEPT ![r] = [at |-> at, loop |-> loop]]
    /\ UNCHANGED <<parked, late, outcome, crashes>>

(* StopRun or an exception of the loop: _synthesize is next. *)
Stopped(r, job) ==
    /\ Goto(r, [job EXCEPT !.status = "synthesizing"], "synthesize", frame[r].loop)
    /\ UNCHANGED <<ckpt, facts>>

(* _check *)
MustStop(r) == research[r].cancel \/ late[r]

(* _llm: the calls of the loop are capped. *)
Spent(calls) == calls >= LlmCap

StartResearch(r) ==
    /\ ~facts[r].born          \* job ids are fresh UUIDs
    /\ Cardinality(ActiveRuns) < MaxConcurrent
    /\ research' = [research EXCEPT ![r] = NewRun]
    /\ frame' = [frame EXCEPT ![r] = [at |-> "begin", loop |-> FreshLoop]]
    /\ facts' = [facts EXCEPT ![r].born = TRUE]
    /\ UNCHANGED <<parked, ckpt, late, outcome, crashes>>

CancelResearch(r) ==
    /\ research[r] # Absent /\ research[r].status \notin Terminal
    /\ research' = [research EXCEPT ![r].cancel = TRUE]
    /\ facts' = [facts EXCEPT ![r].cancelled = TRUE]
    /\ UNCHANGED <<frame, parked, ckpt, late, outcome, crashes>>

(* The wall-clock budget runs out; it is fixed by the first run_research. *)
DeadlinePasses(r) ==
    /\ research[r] # Absent /\ research[r].timed /\ ~late[r]
    /\ late' = [late EXCEPT ![r] = TRUE]
    /\ UNCHANGED <<research, frame, parked, ckpt, outcome, facts, crashes>>

(* Head of run_research: the deadline, the first checkpoint, then _loop. *)
BeginRun(r) ==
    LET job == [research[r] EXCEPT !.timed = TRUE]
        loop == frame[r].loop
        next == IF late[r] THEN "stop"
                ELSE IF loop.planned THEN "round" ELSE "plan"
    IN /\ frame[r].at = "begin"
       /\ Goto(r, job, next, loop)
       /\ Checkpoint(r, job, loop)

(* The deadline passed while the run was interrupted: StopRun at once. *)
StopUncaught(r) ==
    /\ frame[r].at = "stop"
    /\ frame' = [frame EXCEPT ![r] = Idle]
    /\ UNCHANGED <<research, parked, ckpt, late, outcome, facts, crashes>>

StopLate(r) == frame[r].at = "stop" /\ Stopped(r, research[r])

(* The URLs of a list that are wanted, in their order. *)
Only(urls, wanted) ==
    LET kept[n \in 0 .. Len(urls)] ==
            IF n = 0 THEN <<>>
            ELSE IF urls[n] \in wanted THEN Append(kept[n - 1], urls[n]) ELSE kept[n - 1]
    IN  kept[Len(urls)]

UnseenUrls(seen) == {u \in Urls : Norm[u] \notin seen}

PagesIn(urls) == {Norm[u] : u \in ToSet(urls)}

(* plan_queries: a budgeted LLM call; the seeds become the frontier. *)
Plan(r) ==
    LET job == [research[r] EXCEPT !.status = "planning", !.llm = @ + 1]
        loop == [frame[r].loop EXCEPT !.planned = TRUE,
                    !.pending = Only(SeedUrls, UnseenUrls(frame[r].loop.seen))]
    IN /\ frame[r].at = "plan"
       /\ \/ /\ Spent(research[r].llm)
             /\ Stopped(r, research[r])
          \/ /\ ~Spent(research[r].llm)
             /\ \/ Stopped(r, [job EXCEPT !.error = TRUE])
                \/ Goto(r, job, "round", loop) /\ Checkpoint(r, job, loop)

(* Head of one round: a search, unless the restored phase is "read". *)
BeginRound(r) ==
    LET loop == frame[r].loop
        round == IF loop.phase = "read" THEN loop.round ELSE loop.round + 1
        job == [research[r] EXCEPT !.rounds = IF @ < round THEN round ELSE @]
    IN /\ frame[r].at = "round"
       /\ \/ (round > MaxRounds \/ MustStop(r) \/ research[r].pages >= MaxPages)
             /\ Stopped(r, research[r])
          \/ /\ ~(round > MaxRounds \/ MustStop(r) \/ research[r].pages >= MaxPages)
             /\ IF loop.phase = "read"
                THEN Goto(r, [job EXCEPT !.status = "reading"], "read",
                          [loop EXCEPT !.round = round])
                ELSE Goto(r, [job EXCEPT !.status = "searching"], "select",
                          [loop EXCEPT !.round = round])
             /\ UNCHANGED <<ckpt, facts>>

(* The results of the searches: one URL of every page not seen. *)
Fresh(seen) ==
    {urls \in SUBSET UnseenUrls(seen) :
        \A u, v \in urls : Norm[u] = Norm[v] => u = v}

(* select_urls keeps what the model repeats; the loop drops what its list has *)
(* already, spelled the same.                                                 *)
Picked(fresh, k) == UNION {[1 .. n -> fresh] : n \in 0 .. k}
NotListed(picked, urls) == Only(picked, Urls \ ToSet(urls))

(* The list a round settled on, and the pages of the lists before it. *)
NewList(fact, urls) ==
    [fact EXCEPT !.earlier = @ \cup PagesIn(fact.read), !.listed = urls, !.read = <<>>]

SettleOn(r, job, urls) ==
    LET new == [frame[r].loop EXCEPT !.pending = urls, !.phase = "read"]
    IN  /\ Goto(r, [job EXCEPT !.status = "reading"], "read", new)
        /\ CheckpointWith(r, job, new, NewList(facts[r], urls))

SelectUrls(r) ==
    LET loop == frame[r].loop
        left == MaxPages - research[r].pages
        kept == Only(loop.pending, UnseenUrls(loop.seen))
        urls == SubSeq(kept, 1, IF Len(kept) < left THEN Len(kept) ELSE left)
        room == left - Len(urls)
        asked == [research[r] EXCEPT !.llm = @ + 1]
    IN /\ frame[r].at = "select"
       /\ \E fresh \in Fresh(loop.seen) :
            \/ (fresh = {} \/ room = 0) /\ SettleOn(r, research[r], urls)
            \/ /\ fresh # {} /\ room # 0
               /\ \/ Spent(research[r].llm) /\ Stopped(r, research[r])
                  \/ ~Spent(research[r].llm) /\ Stopped(r, [asked EXCEPT !.error = TRUE])
                  \/ /\ ~Spent(research[r].llm)
                     /\ \E picked \in Picked(fresh, IF PickPerRound < room THEN PickPerRound ELSE room) :
                          SettleOn(r, asked, urls \o NotListed(picked, urls))

(* The while loop over pending: claim the URL on disk, then scrape it. *)
ClaimedUnseen(loop) == [loop EXCEPT !.pending = Tail(@)]
Claimed(loop) == [loop EXCEPT !.pending = Tail(@), !.seen = @ \cup {Norm[Head(loop.pending)]}]

ClaimPage(r) ==
    LET loop == frame[r].loop
        url == Head(loop.pending)
        new == Claimed(loop)
    IN /\ frame[r].at = "read"
       /\ loop.pending # <<>>
       /\ \/ (MustStop(r) \/ research[r].pages >= MaxPages) /\ Stopped(r, research[r])
          \/ /\ ~MustStop(r) /\ research[r].pages < MaxPages
             /\ Goto(r, research[r], "scrape", new)
             /\ CheckpointWith(r, research[r], new, [facts[r] EXCEPT !.read = Append(@, url)])

(* _read_page: a crash of the scraper counts nothing, a failure a page, a *)
(* success a page and the budgeted notes, which may find it irrelevant.   *)
ReadPage(r) ==
    LET loop == frame[r].loop
        paged == [research[r] EXCEPT !.pages = @ + 1]
        noted(relevant) == [paged EXCEPT !.llm = @ + 1, !.relevant = @ \/ relevant]
    IN /\ frame[r].at = "scrape"
       /\ \/ \E job \in {research[r], paged} :
               Goto(r, job, "read", loop) /\ Checkpoint(r, job, loop)
          \/ /\ Spent(paged.llm)
             /\ Stopped(r, paged)
          \/ /\ ~Spent(paged.llm)
             /\ \/ \E relevant \in BOOLEAN :
                    Goto(r, noted(relevant), "read", loop) /\ Checkpoint(r, noted(relevant), loop)
                \/ Stopped(r, [paged EXCEPT !.llm = @ + 1, !.error = TRUE])

(* assess: enough, or another round with new queries. *)
Assess(r) ==
    LET job == [research[r] EXCEPT !.status = "planning", !.llm = @ + 1]
        loop == [frame[r].loop EXCEPT !.phase = "search"]
    IN /\ frame[r].at = "read"
       /\ frame[r].loop.pending = <<>>
       /\ \/ (MustStop(r) \/ Spent(research[r].llm)) /\ Stopped(r, research[r])
          \/ /\ ~MustStop(r) /\ ~Spent(research[r].llm)
             /\ \/ \E failed \in BOOLEAN : Stopped(r, [job EXCEPT !.error = failed])
                \/ Goto(r, job, "round", loop) /\ Checkpoint(r, job, loop)

FinalStatus(job) ==
    IF job.error THEN "failed" ELSE IF job.cancel THEN "cancelled" ELSE "completed"

(* _synthesize, and the terminal status; it never raises. *)
Synthesize(r) ==
    /\ frame[r].at = "synthesize"
    /\ \E failed \in (IF research[r].relevant THEN BOOLEAN ELSE {FALSE}) :
         LET job == [research[r] EXCEPT !.error = @ \/ failed,
                        !.llm = IF research[r].relevant THEN @ + 1 ELSE @]
         IN Goto(r, [job EXCEPT !.status = FinalStatus(job)], "save", frame[r].loop)
    /\ UNCHANGED <<ckpt, facts>>

(* save_research and the removal of the checkpoint are two file operations *)
(* of one stretch of code: only a crash separates them.                    *)
SaveResearch(r) ==
    /\ frame[r].at = "save"
    /\ \/ outcome' = [outcome EXCEPT ![r].artifacts = @ + 1]
          /\ frame' = [frame EXCEPT ![r].at = "unlink"]
          /\ UNCHANGED facts
       \/ frame' = [frame EXCEPT ![r].at = "deliver"]
          /\ facts' = [facts EXCEPT ![r].unsaved = TRUE]
          /\ UNCHANGED outcome
    /\ UNCHANGED <<research, parked, ckpt, late, crashes>>

DeleteCheckpoint(r) ==
    /\ frame[r].at = "unlink"
    /\ ckpt' = [ckpt EXCEPT ![r] = Absent]
    /\ frame' = [frame EXCEPT ![r].at = "deliver"]
    /\ UNCHANGED <<research, parked, late, outcome, facts, crashes>>

(* deliver_research: the receiver may or may not get the event. *)
DeliverResearch(r) ==
    /\ frame[r].at = "deliver"
    /\ \E got \in {0, 1} : outcome' = [outcome EXCEPT ![r].events = @ + got]
    /\ frame' = [frame EXCEPT ![r] = Idle]
    /\ UNCHANGED <<research, parked, ckpt, late, facts, crashes>>

(* A terminal run is in memory only; a restart forgets it. *)
Restorable == {r \in Runs : ckpt[r] # Absent /\ ckpt[r].status \notin Terminal}

(* The process dies and starts again: restore_from_checkpoints, then the *)
(* startup hook resumes up to MAX_CONCURRENT of the restored runs.       *)
RestartResearch ==
    /\ crashes < MaxCrashes
    /\ crashes' = crashes + 1
    /\ \E auto \in SUBSET Restorable :
         /\ \/ auto = {}
            \/ auto = Restorable
            \/ Cardinality(auto) = MaxConcurrent
         /\ Cardinality(auto) <= MaxConcurrent
         /\ research' = [r \in Runs |->
                IF r \notin Restorable THEN Absent
                ELSE [ckpt[r].job EXCEPT !.status =
                        IF r \in auto THEN "queued" ELSE "interrupted"]]
         /\ frame' = [r \in Runs |->
                IF r \in auto THEN [at |-> "begin", loop |-> ckpt[r].loop] ELSE Idle]
         /\ parked' = [r \in Runs |->
                IF r \in Restorable \ auto THEN ckpt[r].loop ELSE FreshLoop]
    /\ ckpt' = [r \in Runs |-> IF r \in Restorable THEN ckpt[r] ELSE Absent]
    /\ facts' = [r \in Runs |-> [facts[r] EXCEPT !.cancelled = FALSE]]
    /\ UNCHANGED <<late, outcome>>

ResumeResearch(r) ==
    /\ research[r] # Absent /\ research[r].status = "interrupted"
    /\ Cardinality(ActiveRuns) < MaxConcurrent
    /\ research' = [research EXCEPT ![r].status = "queued"]
    /\ frame' = [frame EXCEPT ![r] = [at |-> "begin", loop |-> parked[r]]]
    /\ parked' = [parked EXCEPT ![r] = FreshLoop]
    /\ UNCHANGED <<ckpt, late, outcome, facts, crashes>>

(* The steps a run takes by itself once its calls answer. *)
ResearchStep(r) ==
    \/ BeginRun(r) \/ StopLate(r) \/ Plan(r) \/ BeginRound(r) \/ SelectUrls(r)
    \/ ClaimPage(r) \/ ReadPage(r) \/ Assess(r) \/ Synthesize(r)
    \/ SaveResearch(r) \/ DeleteCheckpoint(r) \/ DeliverResearch(r)

ResearchNext ==
    \/ \E r \in Runs :
        \/ StartResearch(r) \/ CancelResearch(r) \/ DeadlinePasses(r)
        \/ ResumeResearch(r) \/ ResearchStep(r)
    \/ RestartResearch

-------------------------------------------------------------------------------
(* Properties *)

(* Jobs have the fields create_job gives them. *)
ResearchTypeOK ==
    /\ \A r \in Runs : research[r] = Absent \/ DOMAIN research[r] = DOMAIN NewRun
    /\ crashes \in 0 .. MaxCrashes

(* Budgets hold over all the lives of a run: pages_scraped and llm_calls of *)
(* a restored job continue where the checkpoint left them; the synthesis is *)
(* the one call outside the cap.                                            *)
ResearchBudgets ==
    \A r \in Runs : research[r] # Absent =>
        research[r].pages <= MaxPages /\ research[r].llm <= LlmCap + 1

(* "without re-reading pages": a URL is claimed on disk before it is read,  *)
(* so over all the lives of a run the reads follow the list a round settled *)
(* on, every entry once and in order, and the list has no page that an      *)
(* earlier round read; unless a checkpoint could not be written.  A list    *)
(* may still name one page twice, by the seeds or by what the model picked. *)
NoEntryReadAgain ==
    \A r \in Runs : ~facts[r].unsaved =>
        /\ IsPrefix(facts[r].read, facts[r].listed)
        /\ PagesIn(facts[r].listed) \cap facts[r].earlier = {}

(* A cancellation the API accepted is in the final status, unless the    *)
(* process restarted after it (the flag is part of the next checkpoint). *)
CancelIsHonoured ==
    \A r \in Runs : facts[r].cancelled =>
        research[r] # Absent /\ research[r].status # "completed"

(* One event per terminal run: the checkpoint goes before the event is sent, *)
(* so that no restart reports a run twice, as long as its files can be       *)
(* written.                                                                  *)
ReportedOnce == \A r \in Runs : ~facts[r].unsaved => outcome[r].events <= 1

(* The wall-clock deadline survives restarts: once it has passed, no run *)
(* begins to read another page, resumed or not.                          *)
DeadlineSurvives ==
    [][\A r \in Runs : late[r] /\ frame[r].at # "scrape" => frame'[r].at # "scrape"]_rvars

(* "Always terminates the job": a queued run ends, with a terminal status  *)
(* or because the process restarts.                                        *)
RunBegun(r) == research[r].status = "queued"
RunEnded(r) == research[r].status \in Terminal \cup {"interrupted", "absent"}
===============================================================================
