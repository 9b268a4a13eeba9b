--------------------------- MODULE CorpusPipeline ---------------------------
(***************************************************************************)
(* The offline corpus: the drain loop (scripts/scrape_swift64_loop.py)     *)
(* scrapes batches in parallel under a global and a per-host limit         *)
(* (app/corpus/workflow.py), routes their pages into append-only files     *)
(* with a ledger beside them (scripts/build_corpus.py), derives SFT pairs  *)
(* (scripts/generate_sft.py) and saves its own state last.  The process    *)
(* may die between any two writes, and within the write of a state file,    *)
(* which is not atomic; an appended line is taken as whole.                 *)
(***************************************************************************)
EXTENDS Integers, Sequences, SequencesExt, FiniteSets, FiniteSetsExt

CONSTANTS
    Batches,        \* the manifest's batches, in order
    HostOf,         \* batch -> host
    NoHost,         \* a batch without a single host
    Concurrency, PerHost,
    PagesOf,        \* batch -> the pages it scrapes
    BucketOf,       \* page -> license bucket
    LowTier,        \* pages of the low quality tier
    ChunksOf,       \* page -> the content hashes of its chunks
    MaxDrains, MaxDeaths    \* bounds

ASSUME CorpusAssumption ==
    /\ Batches \in Seq(ToSet(Batches) \ {"none"})
    /\ \A b \in ToSet(Batches) :
          PagesOf[b] \in Seq(ToSet(PagesOf[b])) /\ \A p \in ToSet(PagesOf[b]) : ChunksOf[p] \in Seq(ToSet(ChunksOf[p]))
    /\ Concurrency \in Nat \ {0} /\ PerHost \in Int /\ {MaxDrains, MaxDeaths} \subseteq Nat

VARIABLES
    drain,      \* the process: phase, todo, state it will save
    slot,       \* fan_out: where each batch is
    build,      \* write_records: lines still to write, known and seen hashes, step
    corpus,     \* files: <<target, hash>> -> lines with it
    hashes,     \* content-hashes.jsonl
    sources,    \* sources.jsonl: the hashes it cites
    loopState,  \* .loop_state.json: batch -> ok or failed
    sft,        \* generate_sft: records left, seen, pairs not yet on disk
    pairs,      \* synthetic-sft.jsonl: hash -> times its pairs were written
    sftState,   \* .sft_state.json
    broken,     \* the state files left cut short: no later run can parse them
    barren,     \* history: records whose last generation gave no pair
    gaps,       \* history: interruptions after a line, after a ledger row, in SFT
    drains, deaths

corpusVars == <<drain, slot, build, corpus, hashes, sources, loopState, sft, pairs,
                sftState, broken, barren, gaps, drains, deaths>>

Names == ToSet(Batches)
Targets == {"dapt", "rag", "sft"}
AllPages == UNION {ToSet(PagesOf[b]) : b \in Names}
Hashes == AllPages \cup UNION {ToSet(ChunksOf[p]) : p \in AllPages}

(* router.POLICY and the low-tier rule.                                     *)
Policy(bucket) ==
    CASE bucket = "own-content" -> Targets
      [] bucket = "permissive" -> {"rag", "dapt"}
      [] bucket = "review-required" -> {"rag"}
      [] OTHER -> {}
Route(p) == IF p \in LowTier THEN Policy(BucketOf[p]) \cap {"rag"} ELSE Policy(BucketOf[p])

(* One record per chunk for RAG, the page itself elsewhere, target by       *)
(* target in sorted order.                                                  *)
RecordsFor(p, t) ==
    LET hs == IF t = "rag" THEN ChunksOf[p] ELSE <<p>>
    IN  IF t \in Route(p) THEN [i \in DOMAIN hs |-> <<t, hs[i]>>] ELSE <<>>
PageLines(p) == RecordsFor(p, "dapt") \o RecordsFor(p, "rag") \o RecordsFor(p, "sft")
BatchLines(b) ==
    LET out[n \in 0 .. Len(PagesOf[b])] ==
            IF n = 0 THEN <<>> ELSE out[n - 1] \o PageLines(PagesOf[b][n])
    IN  out[Len(PagesOf[b])]

NoDrain == [phase |-> "idle", todo |-> {}, state |-> <<>>]
NoBuild == [batch |-> "none", lines |-> <<>>, known |-> {}, seen |-> {}, step |-> "write"]
NoSft == [left |-> <<>>, seen |-> {}, buffer |-> <<>>]

(* Batches are taken in the manifest's order.                               *)
Before(a, b) == \E i, j \in DOMAIN Batches : i < j /\ Batches[i] = a /\ Batches[j] = b
FirstOf(S) == Batches[Min({i \in DOMAIN Batches : Batches[i] \in S})]

Pending == Names \ DOMAIN loopState

RestOfCorpus ==
    UNCHANGED <<corpus, hashes, sources, loopState, sft, pairs, sftState, broken, barren, gaps, deaths>>

(* main: --all, nothing (the first pending one), --batch or --batches.      *)
(* load_state comes first, and raises for a file that was cut short.        *)
StartDrain(todo) ==
    /\ drain.phase = "idle" /\ drains < MaxDrains
    /\ "loop" \notin broken
    /\ todo # {}
    /\ drain' = [phase |-> "scrape", todo |-> todo, state |-> <<>>]
    /\ slot' = [b \in Names |-> IF b \in todo THEN "queued" ELSE "out"]
    /\ drains' = drains + 1
    /\ UNCHANGED build /\ RestOfCorpus
-----------------------------------------------------------------------------
(* fan_out: the global semaphore first, then the host's, both in order.     *)

In(states) == {b \in Names : slot[b] \in states}
Moves(b, to) == /\ slot' = [slot EXCEPT ![b] = to]
                /\ UNCHANGED <<drain, build, drains>> /\ RestOfCorpus

TakeSlot(b) ==
    /\ slot[b] = "queued" /\ Cardinality(In({"slot", "running"})) < Concurrency
    /\ \A a \in In({"queued"}) : ~Before(a, b)
    /\ Moves(b, "slot")

OnHost(b) == {a \in In({"running"}) : HostOf[a] = HostOf[b]}
HostFree(b) == HostOf[b] = NoHost \/ PerHost < 1 \/ Cardinality(OnHost(b)) < PerHost

BeginScrapeBatch(b) ==
    /\ slot[b] = "slot" /\ HostFree(b)
    /\ HostOf[b] # NoHost => \A a \in In({"slot"}) : HostOf[a] = HostOf[b] => ~Before(a, b)
    /\ Moves(b, "running")

EndScrapeBatch(b, ok) ==
    /\ slot[b] = "running"
    /\ Moves(b, IF ok THEN "ok" ELSE "failed")

(* gather returned: the failed ones are settled at once, the others built.  *)
FanOutReturns ==
    /\ drain.phase = "scrape" /\ In({"queued", "slot", "running"}) = {}
    /\ drain' = [drain EXCEPT !.phase = "build", !.state = [b \in In({"failed"}) |-> "failed"]]
    /\ UNCHANGED <<slot, build, drains>> /\ RestOfCorpus
-----------------------------------------------------------------------------
(* write_records, one write to disk at a time.                              *)

Unbuilt == drain.todo \ DOMAIN drain.state
KnownHashes == hashes

BeginBuild ==
    /\ drain.phase = "build" /\ build = NoBuild /\ Unbuilt # {}
    /\ build' = [batch |-> FirstOf(Unbuilt), lines |-> BatchLines(FirstOf(Unbuilt)),
                 known |-> KnownHashes, seen |-> {}, step |-> "write"]
    /\ UNCHANGED <<drain, slot, drains>> /\ RestOfCorpus

(* Known, or written in this run: counted as unchanged.                     *)
SkipLine ==
    /\ build # NoBuild /\ build.step = "write" /\ build.lines # <<>>
    /\ Head(build.lines)[2] \in build.known \cup build.seen
    /\ build' = [build EXCEPT !.lines = Tail(@)]
    /\ UNCHANGED <<drain, slot, drains>> /\ RestOfCorpus

WriteLine ==
    /\ build # NoBuild /\ build.step = "write" /\ build.lines # <<>>
    /\ Head(build.lines)[2] \notin build.known \cup build.seen
    /\ corpus' = [corpus EXCEPT ![Head(build.lines)] = @ + 1]
    /\ build' = [build EXCEPT !.step = "ledger", !.seen = @ \cup {Head(build.lines)[2]}]
    /\ UNCHANGED <<drain, slot, hashes, sources, loopState, sft, pairs, sftState, broken, barren, gaps, drains, deaths>>

RecordHash ==
    /\ build.step = "ledger"
    /\ hashes' = hashes \cup {Head(build.lines)[2]}
    /\ build' = [build EXCEPT !.step = "source"]
    /\ UNCHANGED <<drain, slot, corpus, sources, loopState, sft, pairs, sftState, broken, barren, gaps, drains, deaths>>

RecordSource ==
    /\ build.step = "source"
    /\ sources' = sources \cup {Head(build.lines)[2]}
    /\ build' = [build EXCEPT !.step = "write", !.lines = Tail(@)]
    /\ UNCHANGED <<drain, slot, corpus, hashes, loopState, sft, pairs, sftState, broken, barren, gaps, drains, deaths>>

Mark(b, status) == [drain EXCEPT !.state = [x \in DOMAIN @ \cup {b} |-> IF x = b THEN status ELSE @[x]]]

BuildDone ==
    /\ build # NoBuild /\ build.step = "write" /\ build.lines = <<>>
    /\ drain' = Mark(build.batch, "ok")
    /\ build' = NoBuild
    /\ UNCHANGED <<slot, drains>> /\ RestOfCorpus

(* What an interruption leaves behind, by the write it came after.          *)
Interrupted ==
    [gaps EXCEPT !.line = @ + (IF build.step = "ledger" THEN 1 ELSE 0),
                 !.row = @ + (IF build.step = "source" THEN 1 ELSE 0),
                 !.sft = @ + (IF drain.phase = "sft" THEN 1 ELSE 0)]

(* An exception in write_records: the batch is marked failed.               *)
BuildFails ==
    /\ build # NoBuild /\ deaths < MaxDeaths
    /\ drain' = Mark(build.batch, "failed")
    /\ build' = NoBuild
    /\ gaps' = Interrupted /\ deaths' = deaths + 1
    /\ UNCHANGED <<slot, corpus, hashes, sources, loopState, sft, pairs, sftState, broken, barren, drains>>
-----------------------------------------------------------------------------
(* generate_sft.run                                                         *)

RagHashes == {h \in Hashes : corpus[<<"rag", h>>] > 0}

BeginSft ==
    /\ drain.phase = "build" /\ build = NoBuild /\ Unbuilt = {}
    /\ "sft" \notin broken
    /\ drain' = [drain EXCEPT !.phase = "sft"]
    /\ sft' = [left |-> SetToSeq(RagHashes \ sftState), seen |-> sftState, buffer |-> <<>>]
    /\ UNCHANGED <<slot, build, corpus, hashes, sources, loopState, pairs, sftState, broken, barren, gaps, drains, deaths>>

(* generate_pairs: deterministic pairs for a record that states its          *)
(* availability, and what the model answers.  Without either - no backend,  *)
(* a failed call, an empty answer - the record has none, and is seen.       *)
GeneratePairs(some) ==
    LET h == Head(sft.left)
    IN  /\ drain.phase = "sft" /\ sft.left # <<>>
        /\ sft' = [left |-> Tail(sft.left), seen |-> sft.seen \cup {h},
                   buffer |-> IF some THEN Append(sft.buffer, h) ELSE sft.buffer]
        /\ barren' = IF some THEN barren \ {h} ELSE barren \cup {h}
        /\ UNCHANGED <<drain, slot, build, corpus, hashes, sources, loopState, pairs, sftState,
                       broken, gaps, drains, deaths>>

(* eligible: sft_include_restricted is off, the record is passed over and    *)
(* not seen.                                                                *)
Restricted(h) == \E p \in AllPages : BucketOf[p] = "review-required" /\ h \in ToSet(ChunksOf[p])
SkipRestricted ==
    /\ drain.phase = "sft" /\ sft.left # <<>> /\ Restricted(Head(sft.left))
    /\ sft' = [sft EXCEPT !.left = Tail(@)]
    /\ UNCHANGED <<drain, slot, build, corpus, hashes, sources, loopState, pairs, sftState,
                   broken, barren, gaps, drains, deaths>>

OnDisk(n) == [h \in Hashes |-> pairs[h] + Cardinality({i \in 1 .. n : sft.buffer[i] = h})]

(* The file is closed, then the state is saved.                             *)
CloseSft ==
    /\ drain.phase = "sft" /\ sft.left = <<>> /\ sft.buffer # <<>>
    /\ pairs' = OnDisk(Len(sft.buffer))
    /\ sft' = [sft EXCEPT !.buffer = <<>>]
    /\ UNCHANGED <<drain, slot, build, corpus, hashes, sources, loopState, sftState, broken, barren, gaps, drains, deaths>>

ClosedFirst == sft.left = <<>> /\ sft.buffer = <<>>
ReadyToSave == ClosedFirst

(* _save_state, in place: an error within it leaves the file cut short.      *)
SaveSft ==
    /\ drain.phase = "sft" /\ ReadyToSave
    /\ sftState' = sft.seen
    /\ drain' = [drain EXCEPT !.phase = "save"]
    /\ UNCHANGED <<slot, build, corpus, hashes, sources, loopState, sft, pairs, broken, barren, gaps, drains, deaths>>

WithinSave == (IF drain.phase = "sft" /\ ReadyToSave THEN {"sft"} ELSE {})
                  \cup (IF drain.phase = "save" THEN {"loop"} ELSE {})

(* An exception in the pass, caught by run_drain: the file is closed, the    *)
(* state not saved.                                                         *)
SftFails ==
    /\ drain.phase = "sft" /\ deaths < MaxDeaths
    /\ pairs' = OnDisk(Len(sft.buffer))
    /\ \E half \in SUBSET WithinSave : broken' = broken \cup half
    /\ gaps' = Interrupted /\ deaths' = deaths + 1
    /\ drain' = [drain EXCEPT !.phase = "save"] /\ sft' = NoSft
    /\ UNCHANGED <<slot, build, corpus, hashes, sources, loopState, sftState, barren, drains>>

(* --no-sft; or a pass that fails in _load_state, before it writes a pair.   *)
SkipSft ==
    /\ drain.phase = "build" /\ build = NoBuild /\ Unbuilt = {}
    /\ drain' = [drain EXCEPT !.phase = "save"]
    /\ UNCHANGED <<slot, build, drains>> /\ RestOfCorpus

SaveLoopState ==
    /\ drain.phase = "save"
    /\ loopState' = [b \in DOMAIN loopState \cup DOMAIN drain.state |->
                       IF b \in DOMAIN drain.state THEN drain.state[b] ELSE loopState[b]]
    /\ drain' = NoDrain /\ sft' = NoSft
    /\ UNCHANGED <<slot, build, corpus, hashes, sources, pairs, sftState, broken, barren, gaps, drains, deaths>>

(* The process dies.  Of the pairs in the buffer some are on disk, and a     *)
(* state file it was writing may be cut short.                              *)
DrainDies ==
    /\ drain.phase # "idle" /\ deaths < MaxDeaths
    /\ deaths' = deaths + 1
    /\ gaps' = Interrupted
    /\ drain' = NoDrain /\ build' = NoBuild /\ sft' = NoSft
    /\ slot' = [b \in Names |-> "out"]
    /\ \E n \in 0 .. Len(sft.buffer) : pairs' = OnDisk(n)
    /\ \E half \in SUBSET WithinSave : broken' = broken \cup half
    /\ UNCHANGED <<corpus, hashes, sources, loopState, sftState, barren, drains>>
-----------------------------------------------------------------------------
CorpusInit ==
    /\ drain = NoDrain /\ build = NoBuild /\ sft = NoSft
    /\ slot = [b \in Names |-> "out"]
    /\ corpus = [l \in Targets \X Hashes |-> 0]
    /\ hashes = {} /\ sources = {} /\ loopState = <<>>
    /\ pairs = [h \in Hashes |-> 0] /\ sftState = {} /\ broken = {} /\ barren = {}
    /\ gaps = [line |-> 0, row |-> 0, sft |-> 0]
    /\ drains = 0 /\ deaths = 0

CorpusNext ==
    \/ StartDrain(Pending)
    \/ Pending # {} /\ StartDrain({FirstOf(Pending)})
    \/ \E named \in SUBSET Names : StartDrain(named)
    \/ \E b \in Names : TakeSlot(b) \/ BeginScrapeBatch(b)
    \/ \E b \in Names, ok \in BOOLEAN : EndScrapeBatch(b, ok)
    \/ FanOutReturns \/ BeginBuild \/ SkipLine \/ WriteLine \/ RecordHash \/ RecordSource
    \/ BuildDone \/ BuildFails
    \/ \E some \in BOOLEAN : GeneratePairs(some)
    \/ BeginSft \/ SkipRestricted \/ CloseSft \/ SaveSft \/ SftFails \/ SkipSft
    \/ SaveLoopState
    \/ DrainDies

CorpusSpec == CorpusInit /\ [][CorpusNext]_corpusVars
-----------------------------------------------------------------------------
Lines(h) == corpus[<<"dapt", h>>] + corpus[<<"rag", h>>] + corpus[<<"sft", h>>]
Written == {h \in Hashes : Lines(h) > 0}

(* A batch is somewhere in the fan-out, and the drain's notes are about its *)
(* own batches.                                                             *)
CorpusTypeOK ==
    /\ slot \in [Names -> {"out", "queued", "slot", "running", "ok", "failed"}]
    /\ DOMAIN drain.state \subseteq drain.todo
    /\ build.step \in {"write", "ledger", "source"}

(* The two nested semaphores keep their limits: concurrency batches in all, *)
(* per_host on one host (fan_out).                                          *)
HostsAreSpared ==
    /\ Cardinality(In({"slot", "running"})) <= Concurrency
    /\ \A b \in In({"running"}) : HostOf[b] # NoHost /\ PerHost > 0 => Cardinality(OnHost(b)) <= PerHost

(* A batch that holds a slot and waits for its host waits for a batch that  *)
(* runs: slots full of waiters never stop the drain (fan_out).              *)
DrainNeverStuck ==
    drain.phase = "scrape" /\ In({"queued", "slot", "running"}) # {} =>
        \/ In({"running"}) # {}
        \/ \E b \in In({"slot"}) : HostFree(b)
        \/ Cardinality(In({"slot"})) < Concurrency /\ In({"queued"}) # {}

(* A record is repeated in the corpus only where an interruption came       *)
(* between the line and its ledger row, and once for each (write_records).  *)
CopiesOnlyFromGaps ==
    LET repeated == {h \in Hashes : Lines(h) > 1}
    IN  /\ Cardinality(repeated) <= gaps.line
        /\ \A h \in repeated : Lines(h) <= 1 + gaps.line

(* The ledger never claims a record that is not in the corpus, which every  *)
(* later run would then skip; and what it claims can be cited, except where *)
(* an interruption came between the two rows (write_records, provenance.py). *)
LedgerIsBacked ==
    /\ hashes \subseteq Written
    /\ Cardinality(hashes \ sources) <= gaps.row + (IF build.step = "source" THEN 1 ELSE 0)

(* A batch that the loop state calls ok, and that no later run will look at *)
(* again, has every record in the corpus (run_drain, main).                 *)
OkMeansBuilt ==
    \A b \in DOMAIN loopState :
        loopState[b] = "ok" => {l[2] : l \in ToSet(BatchLines(b))} \subseteq Written

(* A record that generate_sft will skip has its pairs on disk, unless its    *)
(* last generation gave none; and it has them one more time at most for      *)
(* each interrupted pass (generate_sft.run).                                *)
SeenHasPairs ==
    /\ \A h \in sftState : pairs[h] > 0 \/ h \in barren
    /\ \A h \in Hashes : pairs[h] <= 1 + gaps.sft

(* router.py: own content goes to RAG, SFT and DAPT; _records_for_target:   *)
(* "DAPT/SFT keep the whole-page record".  Not so: the hash written for     *)
(* DAPT makes write_records skip the same page for SFT.                     *)
RoutedEverywhere ==
    \A b \in DOMAIN loopState :
        loopState[b] = "ok" => \A l \in ToSet(BatchLines(b)) : corpus[l] > 0
=============================================================================
