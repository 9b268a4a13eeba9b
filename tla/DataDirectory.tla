---------------------------- MODULE DataDirectory ----------------------------
(***************************************************************************)
(* What the program keeps in files (app/storage.py, app/llmstxt.py): the   *)
(* .json and .md pair of every artifact, the checkpoints of running jobs,  *)
(* the generated llms.txt pair with its status file, and the retention     *)
(* sweep (prune).  A script saves artifacts while the API process sweeps;  *)
(* in that process none of these operations awaits, so one runs at a time, *)
(* and everything may die between two system calls.  One kind of artifact  *)
(* stands for the three that are pairs of files.                           *)
(***************************************************************************)
EXTENDS Integers, FiniteSets

CONSTANTS
    Stems,      \* 1, 2, ...: the names of artifacts, in the order of their timestamps
    KeepRuns,   \* DATA_KEEP_RUNS
    MaxAge,     \* DATA_RETENTION_DAYS
    Makers,     \* run_for_job tasks of one durable job
    MaxDay, MaxVersions, MaxFaults      \* bounds

ASSUME DataAssumption ==
    /\ Stems \subseteq Nat \ {0} /\ IsFiniteSet(Stems)
    /\ {KeepRuns, MaxAge, MaxDay, MaxVersions, MaxFaults} \subseteq Nat

VARIABLES
    day,        \* the clock, in days
    artifact,   \* the two files of each stem, and their mtime
    saver,      \* the save in progress
    checkpoint, \* the checkpoint file of a job, and its writer
    sweep,      \* the prune in progress
    maker,      \* where each run_for_job is
    texts,      \* the llms.txt pairs, one of each maker
    sidecar,    \* the status file of the job
    faults,     \* deaths, failed writes and failed removals
    halves      \* pairs of which only the first file was removed

dataVars == <<day, artifact, saver, checkpoint, sweep, maker, texts, sidecar, faults, halves>>

Missing == "absent"
NoStem == 0
NoSave == [stem |-> NoStem, at |-> "json"]
NoSweep == [on |-> FALSE, left |-> {}, stem |-> NoStem]

DataInit ==
    /\ day = 0
    /\ artifact = [s \in Stems |-> [json |-> Missing, md |-> Missing, day |-> 0, saved |-> FALSE]]
    /\ saver = NoSave /\ sweep = NoSweep
    /\ checkpoint = [file |-> 0, day |-> 0, writing |-> 0, good |-> 0]
    /\ maker = [m \in Makers |-> "wait"]
    /\ texts = [m \in Makers |-> 0]
    /\ sidecar = [status |-> "none", of |-> Makers]
    /\ faults = 0 /\ halves = 0

LlmsSame == UNCHANGED <<maker, texts, sidecar>>

(* The event loop is inside one of the operations below.                    *)
LoopBusy ==
    checkpoint.writing # 0 \/ sweep # NoSweep \/ \E m \in Makers : maker[m] \in {"text", "ready", "error"}
-----------------------------------------------------------------------------
(* save_scrape, save_crawl, save_research: the .json, then the .md; a file  *)
(* that is open is torn until it is written.                                *)

BeginSave(s) ==
    /\ saver = NoSave /\ ~artifact[s].saved
    /\ \A r \in Stems : r < s => artifact[r].saved
    /\ artifact' = [artifact EXCEPT ![s] = [json |-> "torn", md |-> Missing, day |-> day, saved |-> TRUE]]
    /\ saver' = [stem |-> s, at |-> "json"]
    /\ UNCHANGED <<day, checkpoint, sweep, faults, halves>> /\ LlmsSame

SaveStep ==
    LET s == saver.stem
    IN  /\ saver # NoSave
        /\ CASE saver.at = "json" -> artifact' = [artifact EXCEPT ![s].json = "whole", ![s].md = "torn",
                                                    ![s].day = day]
             [] OTHER -> artifact' = [artifact EXCEPT ![s].md = "whole"]
        /\ saver' = IF saver.at = "json" THEN [saver EXCEPT !.at = "md"] ELSE NoSave
        /\ UNCHANGED <<day, checkpoint, sweep, faults, halves>> /\ LlmsSame
-----------------------------------------------------------------------------
(* _save_checkpoint: a temporary file of its own, then os.replace.          *)

BeginCheckpoint ==
    /\ ~LoopBusy /\ checkpoint.good < MaxVersions
    /\ checkpoint' = [checkpoint EXCEPT !.writing = checkpoint.good + 1]
    /\ UNCHANGED <<day, artifact, saver, sweep, faults, halves>> /\ LlmsSame

(* The file itself is opened for writing.                                   *)
BeginInPlace ==
    /\ ~LoopBusy /\ checkpoint.good < MaxVersions
    /\ checkpoint' = [checkpoint EXCEPT !.writing = checkpoint.good + 1, !.file = 0]
    /\ UNCHANGED <<day, artifact, saver, sweep, faults, halves>> /\ LlmsSame

OpenCheckpoint == BeginCheckpoint

ReplaceCheckpoint ==
    /\ checkpoint.writing # 0
    /\ checkpoint' = [file |-> checkpoint.writing, day |-> day, writing |-> 0, good |-> checkpoint.writing]
    /\ UNCHANGED <<day, artifact, saver, sweep, faults, halves>> /\ LlmsSame

(* The run is over, its artifact saved.                                     *)
RunIsOver ==
    /\ ~LoopBusy /\ checkpoint.good # 0
    /\ checkpoint' = [file |-> 0, day |-> 0, writing |-> 0, good |-> 0]
    /\ UNCHANGED <<day, artifact, saver, sweep, faults, halves>> /\ LlmsSame
-----------------------------------------------------------------------------
(* prune.  mtimes are compared in days; sorted() is stable, so of two with  *)
(* one mtime the one with the smaller name comes first.                     *)

Recorded == {s \in Stems : artifact[s].json # Missing}
Ahead(s) == {r \in Recorded : artifact[r].day > artifact[s].day
                              \/ (artifact[r].day = artifact[s].day /\ r < s)}
Younger(s) == Cardinality(Ahead(s))
Stale(d) == d + MaxAge < day
Victims == {s \in Recorded : Younger(s) >= KeepRuns /\ Stale(artifact[s].day)}

BeginPrune ==
    /\ ~LoopBusy
    /\ Victims # {} \/ (checkpoint.file # 0 /\ Stale(checkpoint.day))
    /\ sweep' = [on |-> TRUE, left |-> Victims, stem |-> NoStem]
    /\ UNCHANGED <<day, artifact, saver, checkpoint, faults, halves>> /\ LlmsSame

(* for ext in (".json", ".md"): os.remove                                   *)
RemoveJson(s) ==
    /\ sweep.stem = NoStem /\ s \in sweep.left
    /\ artifact' = [artifact EXCEPT ![s].json = Missing]
    /\ sweep' = [sweep EXCEPT !.left = @ \ {s}, !.stem = s]
    /\ UNCHANGED <<day, saver, checkpoint, faults, halves>> /\ LlmsSame

RemoveMd ==
    /\ sweep.stem # NoStem
    /\ artifact' = [artifact EXCEPT ![sweep.stem].md = Missing]
    /\ sweep' = [sweep EXCEPT !.stem = NoStem]
    /\ UNCHANGED <<day, saver, checkpoint, faults, halves>> /\ LlmsSame

(* os.remove raises: prune logs it and goes on with the next pair, which    *)
(* leaves all of this one, or its markdown.                                 *)
RemovalFails ==
    /\ sweep.on /\ faults < MaxFaults /\ faults' = faults + 1
    /\ \/ /\ sweep.stem = NoStem
          /\ \E s \in sweep.left : sweep' = [sweep EXCEPT !.left = @ \ {s}]
          /\ UNCHANGED halves
       \/ /\ sweep.stem # NoStem
          /\ sweep' = [sweep EXCEPT !.stem = NoStem] /\ halves' = halves + 1
    /\ UNCHANGED <<day, artifact, saver, checkpoint>> /\ LlmsSame

(* Last, the stale checkpoints, which nothing protects;   *)
(* one that cannot be removed stays.                                        *)
EndPrune ==
    /\ sweep.on /\ sweep.left = {} /\ sweep.stem = NoStem
    /\ sweep' = NoSweep
    /\ IF checkpoint.file # 0 /\ Stale(checkpoint.day)
       THEN \/ /\ checkpoint' = [file |-> 0, day |-> 0, writing |-> 0, good |-> 0]
               /\ UNCHANGED faults
            \/ /\ faults < MaxFaults /\ faults' = faults + 1
               /\ UNCHANGED checkpoint
       ELSE UNCHANGED <<checkpoint, faults>>
    /\ UNCHANGED <<day, artifact, saver, halves>> /\ LlmsSame
-----------------------------------------------------------------------------
(* run_for_job: the crawl is over, or it cannot be waited for; two texts,   *)
(* then the status.  A job submitted twice with one key has two of them.    *)

DirSame == UNCHANGED <<day, artifact, saver, checkpoint, sweep, halves>>
MakerAt(m, to) == maker' = [maker EXCEPT ![m] = to]

WaitEnds(m) ==
    /\ maker[m] = "wait" /\ ~LoopBusy
    /\ \/ MakerAt(m, "text")
       \/ MakerAt(m, "error")
    /\ UNCHANGED <<texts, sidecar, faults>> /\ DirSame

WriteText(m) ==
    /\ maker[m] = "text"
    /\ texts' = [texts EXCEPT ![m] = @ + 1]
    /\ IF texts[m] = 1 THEN MakerAt(m, "ready") ELSE UNCHANGED maker
    /\ UNCHANGED <<sidecar, faults>> /\ DirSame

TextsWritten(m) == maker[m] = "ready"

WriteStatus(m) ==
    /\ TextsWritten(m) \/ maker[m] = "error"
    /\ sidecar' = [status |-> IF maker[m] = "error" THEN "error" ELSE "ready", of |-> {m}]
    /\ MakerAt(m, "done")
    /\ UNCHANGED <<texts, faults>> /\ DirSame

(* generate or a write fails: the status says so.                           *)
TextFails(m) ==
    /\ maker[m] \in {"text", "ready"} /\ faults < MaxFaults
    /\ MakerAt(m, "error") /\ faults' = faults + 1
    /\ UNCHANGED <<texts, sidecar>> /\ DirSame
-----------------------------------------------------------------------------
DayPasses ==
    /\ day < MaxDay /\ saver = NoSave /\ ~LoopBusy
    /\ day' = day + 1
    /\ UNCHANGED <<artifact, saver, checkpoint, sweep, faults, halves>> /\ LlmsSame

(* Every process dies: what was open stays as it is, a temporary file is    *)
(* left behind unread.                                                      *)
EveryoneDies ==
    /\ faults < MaxFaults
    /\ faults' = faults + 1
    /\ halves' = halves + (IF sweep.stem # NoStem THEN 1 ELSE 0)
    /\ saver' = NoSave /\ sweep' = NoSweep
    /\ checkpoint' = [checkpoint EXCEPT !.writing = 0]
    /\ maker' = [m \in Makers |-> "gone"]
    /\ UNCHANGED <<day, artifact, texts, sidecar>>

DataNext ==
    \/ (\E s \in Stems : BeginSave(s)) \/ SaveStep
    \/ OpenCheckpoint \/ ReplaceCheckpoint \/ RunIsOver
    \/ BeginPrune \/ (\E s \in Stems : RemoveJson(s)) \/ RemoveMd \/ RemovalFails \/ EndPrune
    \/ \E m \in Makers : WaitEnds(m) \/ WriteText(m) \/ WriteStatus(m) \/ TextFails(m)
    \/ DayPasses \/ EveryoneDies

DataSpec == DataInit /\ [][DataNext]_dataVars
-----------------------------------------------------------------------------
(* A sweep takes an artifact only when KeepRuns others, at least as young,  *)
(* are kept, whatever is saved or swept meanwhile and whenever it is cut    *)
(* short (prune: "Always keeps the `keep_runs` most-recent entries").       *)
NewestAreKept ==
    \A s \in Stems : artifact[s].saved /\ artifact[s].json = Missing =>
        Cardinality({r \in Recorded : artifact[r].day >= artifact[s].day}) >= KeepRuns

(* A markdown file without its record, which no later sweep would find, is  *)
(* left only by a pair whose second removal did not come: the process died  *)
(* in between, or os.remove raised.                                         *)
OrphansOnlyFromHalves ==
    Cardinality({s \in Stems : artifact[s].json = Missing /\ artifact[s].md # Missing
                                 /\ sweep.stem # s}) <= halves

(* A restart finds the last checkpoint that was finished, not the one that  *)
(* was being written, or none after the job's end or the retention time.    *)
CheckpointIsLast == checkpoint.file = checkpoint.good

(* A job that is reported ready has both texts, complete, whichever of its  *)
(* makers wrote the status and whoever died.                                *)
ReadyIsWhole == sidecar.status = "ready" => \A m \in sidecar.of : texts[m] = 2
-----------------------------------------------------------------------------
(***************************************************************************)
(* The swap of scripts/rebuild_corpus.py: a new corpus tree is staged in   *)
(* corpus.new, the SFT state is carried over, the old tree becomes         *)
(* corpus.bak and the new one corpus.  The process may die between two     *)
(* file operations, and the operator runs it again.  A tree is the         *)
(* generation it holds, 0 where there is none and -1 for one that is only  *)
(* partly written or deleted, with its .sft_state.json and the SFT pairs.  *)
(***************************************************************************)

CONSTANT MaxGenerations     \* bound: rebuilds that are started

VARIABLES
    tree,       \* the trees at corpus, new and bak
    swap,       \* the step the rebuild is at
    newest,     \* history: the last generation that became corpus
    generation

rebuildVars == <<tree, swap, newest, generation>>

NoTree == [gen |-> 0, state |-> FALSE, pairs |-> FALSE]

RebuildInit ==
    /\ tree = [corpus |-> [gen |-> 1, state |-> TRUE, pairs |-> TRUE], new |-> NoTree, bak |-> NoTree]
    /\ swap = "idle" /\ newest = 1 /\ generation = 1

Step(from, to, next) == swap = from /\ swap' = to /\ tree' = next /\ UNCHANGED generation
Keeps(from, to, next) == Step(from, to, next) /\ UNCHANGED newest

(* What an earlier rebuild left in corpus.new goes first.                   *)
Stage ==
    /\ generation < MaxGenerations
    /\ swap = "idle" /\ swap' = "staging" /\ generation' = generation + 1
    /\ tree' = [tree EXCEPT !.new = [NoTree EXCEPT !.gen = -1]]
    /\ UNCHANGED newest
Staged == Keeps("staging", "staged", [tree EXCEPT !.new.gen = generation])

CarrySftState ==
    Keeps("staged", "carried", [tree EXCEPT !.new.state = tree.corpus.gen # 0 /\ tree.corpus.state])

(* The backup goes whether or not there is a tree to take its place.        *)
DropAnyBackup == Keeps("carried", "dropping", [tree EXCEPT !.bak.gen = IF @ = 0 THEN 0 ELSE -1])
DropBackup ==
    IF tree.corpus.gen = 0 THEN Keeps("carried", "moved", tree)
    ELSE DropAnyBackup
MoveOld == Keeps("dropping", "moved", [tree EXCEPT !.bak = tree.corpus, !.corpus = NoTree])
MoveNew ==
    /\ Step("moved", "idle", [tree EXCEPT !.corpus = tree.new, !.new = NoTree])
    /\ newest' = tree.new.gen

Dies == swap # "idle" /\ Keeps(swap, "idle", tree)

(* generate_sft on the tree in place: what its state lists is skipped.      *)
DeriveSft ==
    /\ tree.corpus.gen > 0 /\ ~tree.corpus.state
    /\ Keeps("idle", "idle", [tree EXCEPT !.corpus.state = TRUE, !.corpus.pairs = TRUE])

RebuildNext ==
    Stage \/ Staged \/ CarrySftState \/ DropBackup \/ MoveOld \/ MoveNew \/ Dies \/ DeriveSft

RebuildSpec == RebuildInit /\ [][RebuildNext]_rebuildVars

(* Whenever the process dies, the newest corpus is complete in corpus or in *)
(* corpus.bak, also when the rebuild after it dies (the swap in rebuild).   *)
NewestSurvives == newest \in {tree.corpus.gen, tree.bak.gen}

(* The comment of rebuild: "record ids changed, so generate_sft will        *)
(* re-derive".  A chunk whose text is the same keeps its id: the state says *)
(* its pairs are there, and they stay behind in corpus.bak.                 *)
CarriedStateIsTrue == tree.corpus.state => tree.corpus.pairs
=============================================================================
