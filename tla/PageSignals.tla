----------------------------- MODULE PageSignals ------------------------------
(***************************************************************************)
(* The two signals every scrape computes from shared indexes:              *)
(* deduplication (app/dedup.py) and change tracking (app/changes.py).      *)
(* Scrapes are tasks of one event loop; the indexes are in memory and in   *)
(* files.  dedup rewrites its two files in place, changes replaces its     *)
(* file atomically.                                                        *)
(***************************************************************************)
EXTENDS Naturals, FiniteSets

CONSTANTS
    Scrapes, UrlOf, TextOf,     \* executions of a scrape, their page and text
    Similar,                    \* pairs of texts over the Jaccard threshold
    KnownPages,                 \* scraped_pages before change tracking existed
    None,
    MaxReboots                  \* bound on the restarts of the process

SignalUrls == {UrlOf[s] : s \in Scrapes}
Texts == {TextOf[s] : s \in Scrapes}

ASSUME SignalAssumption ==
    /\ \A u \in DOMAIN KnownPages : u \in SignalUrls
    /\ MaxReboots \in Nat /\ None \notin SignalUrls \cup Texts

VARIABLES
    exact,      \* text -> first URL: memory and file
    lsh,        \* URL -> text of its signature: memory and file
    history,    \* URL -> text last registered: memory and file
    pages,      \* URL -> text of the newest scraped_pages row, None without a hash
    step,       \* where a scrape stands
    dedup,      \* its dedup report, and whether it has one
    change,     \* its changeTracking report
    registered, \* what happened: URL -> text registered last, and per scrape that text
                \* when it began; scrapes another scrape of their URL came between;
                \* scrapes the database failed; URLs whose last registration may be
                \* gone (unsure), and the scrapes that were compared while it was
    torn,       \* a restart loaded less than the dedup indexes held
    reboots

pvars == <<exact, lsh, history, pages, step, dedup, change, registered, torn, reboots>>

Lookup(index, key) == IF key \in DOMAIN index THEN index[key] ELSE None
With(index, key, value) ==
    [k \in DOMAIN index \cup {key} |-> IF k = key THEN value ELSE index[k]]
Empty == [k \in {} |-> None]
NoReport == [status |-> None, prior |-> None]
NoDedup == [hashed |-> FALSE, exact |-> None, near |-> None]

SignalsInit ==
    /\ exact = [mem |-> Empty, file |-> Empty] /\ lsh = [mem |-> Empty, file |-> Empty]
    /\ history = [mem |-> Empty, file |-> Empty] /\ pages = KnownPages
    /\ step = [s \in Scrapes |-> "dedup"]
    /\ dedup = [s \in Scrapes |-> NoDedup]
    /\ change = [s \in Scrapes |-> NoReport]
    /\ registered = [last |-> KnownPages, began |-> [s \in Scrapes |-> None], crossed |-> {},
                      missed |-> {}, unsure |-> {}, blind |-> {}]
    /\ torn = FALSE /\ reboots = 0

(* dedup.check_and_register, the whole of it under its thread lock. *)
ForgottenIndex(s) == exact.mem
ExactIndex(s) ==
    IF Lookup(exact.mem, TextOf[s]) = None THEN With(exact.mem, TextOf[s], UrlOf[s]) ELSE exact.mem

DuplicateOf(s) ==
    LET prior == Lookup(exact.mem, TextOf[s]) IN IF prior # UrlOf[s] THEN prior ELSE None

NearDuplicates(s) ==
    IF DuplicateOf(s) # None THEN {None}
    ELSE LET near == {u \in DOMAIN lsh.mem \ {UrlOf[s]} : <<lsh.mem[u], TextOf[s]>> \in Similar}
         IN IF near = {} THEN {None} ELSE near

CheckAndRegister(s) ==
    LET index == ExactIndex(s)
        signatures == With(lsh.mem, UrlOf[s], TextOf[s])
    IN /\ step[s] = "dedup"
       /\ \E near \in NearDuplicates(s) :
            dedup' = [dedup EXCEPT ![s] = [hashed |-> TRUE, exact |-> DuplicateOf(s), near |-> near]]
       /\ exact' = [mem |-> index, file |-> index]
       /\ lsh' = [mem |-> signatures, file |-> signatures]
       /\ step' = [step EXCEPT ![s] = "history"]
       /\ registered' = [registered EXCEPT !.began[s] = Lookup(registered.last, UrlOf[s])]
       /\ UNCHANGED <<history, pages, change, torn, reboots>>

(* What dedup._save may have written when it ends half-way: the exact hashes *)
(* are truncated and written first, the signatures after them; _load takes   *)
(* an unreadable file for an empty index.                                    *)
HalfSaved(s) ==
    {[exact |-> Empty, lsh |-> lsh.file], [exact |-> ExactIndex(s), lsh |-> lsh.file],
     [exact |-> ExactIndex(s), lsh |-> Empty]}

(* The directory cannot be made, or _save raises when the memory has the page *)
(* already: the caller goes on without a dedup report and without a hash, so  *)
(* that change tracking is skipped.                                           *)
DedupFails(s) ==
    /\ step[s] = "dedup"
    /\ \/ UNCHANGED <<exact, lsh>>
       \/ \E files \in HalfSaved(s) \cup {[exact |-> exact.file, lsh |-> lsh.file]} :
            /\ exact' = [mem |-> ExactIndex(s), file |-> files.exact]
            /\ lsh' = [mem |-> With(lsh.mem, UrlOf[s], TextOf[s]), file |-> files.lsh]
    /\ step' = [step EXCEPT ![s] = "nohash"]
    /\ UNCHANGED <<history, pages, dedup, change, registered, torn, reboots>>

(* Other scrapes of the URL that are on their way to their comparison. *)
Crossing(s) ==
    {t \in Scrapes \ {s} : UrlOf[t] = UrlOf[s] /\ step[t] \in {"history", "db"}}

(* The end of changes.check_and_register: register and report. *)
Register(s, previous, missed) ==
    LET entries == With(history.mem, UrlOf[s], TextOf[s]) IN
    /\ history' = [mem |-> entries, file |-> entries]
    /\ change' = [change EXCEPT ![s] =
          [prior |-> previous,
           status |-> IF previous = None THEN "new"
                      ELSE IF previous = TextOf[s] THEN "same" ELSE "changed"]]
    /\ step' = [step EXCEPT ![s] = "record"]
    /\ registered' = [registered EXCEPT !.last = With(@, UrlOf[s], TextOf[s]),
          !.crossed = @ \cup Crossing(s), !.missed = @ \cup missed,
          !.blind = @ \cup (IF UrlOf[s] \in registered.unsure THEN {s} ELSE {}),
          !.unsure = @ \ {UrlOf[s]}]
    /\ UNCHANGED <<exact, lsh, pages, dedup, torn, reboots>>

(* changes._save raises: the memory has the page, its file the one before; *)
(* there is no report.                                                     *)
RegisterFails(s) ==
    /\ step[s] \in {"history", "db"}
    /\ history' = [history EXCEPT !.mem = With(@, UrlOf[s], TextOf[s])]
    /\ step' = [step EXCEPT ![s] = "record"]
    /\ registered' = [registered EXCEPT !.last = With(@, UrlOf[s], TextOf[s]),
          !.crossed = @ \cup Crossing(s), !.unsure = @ \cup {UrlOf[s]}]
    /\ UNCHANGED <<exact, lsh, pages, dedup, change, torn, reboots>>

(* A URL the history knows is compared and registered without an await. *)
CompareKnown(s) ==
    /\ step[s] = "history" /\ Lookup(history.mem, UrlOf[s]) # None
    /\ Register(s, Lookup(history.mem, UrlOf[s]), {})

(* Otherwise the newest row of the database is awaited, outside the lock. *)
AskDatabase(s) ==
    /\ step[s] = "history" /\ Lookup(history.mem, UrlOf[s]) = None
    /\ step' = [step EXCEPT ![s] = "db"]
    /\ UNCHANGED <<exact, lsh, history, pages, dedup, change, registered, torn, reboots>>

(* _db_previous takes a database that fails for one without a row. *)
CompareWithDatabase(s) ==
    /\ step[s] = "db"
    /\ \/ Register(s, Lookup(pages, UrlOf[s]), {})
       \/ Register(s, None, {s})

(* record_page of the pipeline the scrape belongs to; it may fail.  The row *)
(* of a scrape without a hash hides the row before it from _db_previous.    *)
RecordPage(s) ==
    /\ step[s] \in {"record", "nohash"}
    /\ \/ UNCHANGED <<pages, registered>>
       \/ /\ step[s] = "record"
          /\ pages' = With(pages, UrlOf[s], TextOf[s])
          /\ UNCHANGED registered
       \/ /\ step[s] = "nohash"
          /\ pages' = With(pages, UrlOf[s], None)
          /\ registered' = [registered EXCEPT !.unsure =
                IF Lookup(history.mem, UrlOf[s]) = None THEN @ \cup {UrlOf[s]} ELSE @]
    /\ step' = [step EXCEPT ![s] = "done"]
    /\ UNCHANGED <<exact, lsh, history, dedup, change, torn, reboots>>

(* The process dies and the next one loads the files. *)
Dropped(s) == step[s] \in {"history", "db", "record", "nohash"}

RebootSignals ==
    /\ reboots < MaxReboots
    /\ reboots' = reboots + 1
    /\ step' = [s \in Scrapes |-> IF Dropped(s) THEN "lost" ELSE step[s]]
    /\ exact' = [exact EXCEPT !.mem = exact.file]
    /\ lsh' = [lsh EXCEPT !.mem = lsh.file]
    /\ history' = [history EXCEPT !.mem = history.file]
    /\ torn' = (torn \/ exact.file # exact.mem \/ lsh.file # lsh.mem)
    /\ UNCHANGED <<pages, dedup, change, registered>>

(* A death inside dedup._save leaves half of it in the files. *)
RebootInSave(s) ==
    /\ step[s] = "dedup" /\ reboots < MaxReboots
    /\ reboots' = reboots + 1
    /\ torn' = TRUE
    /\ step' = [t \in Scrapes |-> IF t = s \/ Dropped(t) THEN "lost" ELSE step[t]]
    /\ \E files \in HalfSaved(s) :
         /\ exact' = [mem |-> files.exact, file |-> files.exact]
         /\ lsh' = [mem |-> files.lsh, file |-> files.lsh]
    /\ history' = [history EXCEPT !.mem = history.file]
    /\ UNCHANGED <<pages, dedup, change, registered>>

SignalsNext ==
    \/ \E s \in Scrapes :
        \/ CheckAndRegister(s) \/ DedupFails(s) \/ CompareKnown(s) \/ AskDatabase(s)
        \/ CompareWithDatabase(s) \/ RegisterFails(s) \/ RecordPage(s)
        \/ RebootInSave(s)
    \/ RebootSignals

-------------------------------------------------------------------------------
(* Properties *)

(* change tracking compares a scrape with the previous one of its URL: the *)
(* reported hash is the one registered last when the scrape began, over    *)
(* restarts too; a page is wrongly new only where its database failed.     *)
(* Not when another scrape of the URL came between, or the registration    *)
(* before it could not be saved; the next one that is saved mends that.    *)
ComparedWithPrevious ==
    \A s \in Scrapes :
        change[s].status # None /\ s \notin registered.crossed \cup registered.blind =>
            \/ change[s].prior = registered.began[s]
            \/ change[s].prior = None /\ s \in registered.missed

(* Of several reported pages with one text at most one is the original,    *)
(* unless a restart loaded less than the indexes held.                     *)
OneOriginal ==
    \A s, t \in Scrapes :
        /\ ~torn /\ UrlOf[s] # UrlOf[t] /\ TextOf[s] = TextOf[t]
        /\ dedup[s].hashed /\ dedup[t].hashed
        => dedup[s].exact # None \/ dedup[t].exact # None

(* A duplicate is reported of a page that had that text. *)
DuplicateIsReal ==
    \A s \in Scrapes : dedup[s].exact # None =>
        \E t \in Scrapes : UrlOf[t] = dedup[s].exact /\ TextOf[t] = TextOf[s]
                           /\ step[t] # "dedup"

(* The two indexes are saved one after the other and loaded apart; every *)
(* owner of an exact hash has a signature, unless a crash came between.  *)
IndexesAgree ==
    ~torn => {exact.mem[h] : h \in DOMAIN exact.mem} \subseteq DOMAIN lsh.mem
===============================================================================
