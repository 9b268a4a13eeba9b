--------------------------- MODULE SemanticSearch ---------------------------
(***************************************************************************)
(* The semantic index (app/vecindex.py): documents are chunked, embedded   *)
(* by a backend the process awaits (app/embeddings.py) and written, one    *)
(* transaction per document, to three tables that must stay mirrors of     *)
(* each other.  The hooks of the scrape, crawl and research paths call     *)
(* index_document, and so does scripts/build_embeddings.py, which can also *)
(* wipe the file.                                                          *)
(*                                                                         *)
(* A chunk is abstracted to the document and version it comes from, its    *)
(* position and its distance to the query.  The distance is the vector.    *)
(* A row also carries what was left out of its document (skipped).         *)
(*                                                                         *)
(* Hybrid search (app/retrieval.py): a semantic ranking and a keyword      *)
(* ranking, the latter merged from Postgres and the file index, are fused  *)
(* by reciprocal rank and collapsed to one chunk per parent document; the  *)
(* candidate depth is doubled until k parents are found or the limit is    *)
(* reached.  Either signal may fail in a round and is then empty.          *)
(*                                                                         *)
(* A hit is its chunk identity (kind, ref, chunkIndex), a number that also *)
(* gives the order of equal scores; the rankings are inputs.               *)
(***************************************************************************)
EXTENDS Naturals, FiniteSets, Sequences, SequencesExt, Functions

CONSTANTS
    Refs,           \* documents, (kind, ref) pairs
    CorpusRefs,     \* those of kind "corpus"
    Writers,        \* index_document calls that may be in flight together
    ChunkCount,     \* number of chunks of each version of a text
    DistanceOf,     \* <<version, position>> -> distance to the query
    Dimensions,     \* dimensions of the embedding models in use
    FirstWindow,    \* the floor of candidate_k in a filtered search (50)
    MaxRows         \* bound on the rows ever inserted

ASSUME IndexAssumption ==
    /\ CorpusRefs \subseteq Refs /\ "gone" \notin Refs
    /\ Dimensions \subseteq Nat \ {0}
    /\ FirstWindow \in Nat \ {0} /\ MaxRows \in Nat
    /\ \A v \in DOMAIN ChunkCount :
          /\ ChunkCount[v] \in Nat \ {0}
          /\ \A i \in 1 .. ChunkCount[v] : DistanceOf[<<v, i>>] \in Nat

VARIABLES
    rows,       \* chunks
    vectors,    \* vec_chunks, by rowid
    words,      \* chunks_fts, by rowid
    stamp,      \* vec_meta dim, 0 before the first write
    lastRow,    \* AUTOINCREMENT
    fts,        \* _fts_available
    backend,    \* dimension the embedding backend answers with
    writer      \* index_document calls

indexVars == <<rows, vectors, words, stamp, lastRow, fts, backend, writer>>

Versions == DOMAIN ChunkCount
Free == [at |-> "idle"]

(* The tables, the stamp and the writers have the types the code gives.     *)
IndexTypeOK ==
    /\ \A r \in rows : r.id \in 1 .. lastRow /\ r.ref \in Refs /\ r.version \in Versions
    /\ vectors \subseteq (1 .. lastRow) \X Dimensions
    /\ words \subseteq 1 .. lastRow
    /\ stamp \in Dimensions \cup {0} /\ backend \in Dimensions
    /\ lastRow \in 0 .. MaxRows /\ fts \in BOOLEAN
    /\ \A w \in Writers : writer[w].at \in {"idle", "embedding", "upsert"}

IndexInit ==
    /\ rows = {} /\ vectors = {} /\ words = {}
    /\ stamp = 0 /\ lastRow = 0 /\ fts \in BOOLEAN
    /\ backend \in Dimensions
    /\ writer = [w \in Writers |-> Free]

-----------------------------------------------------------------------------
(* index_document: chunk_text, then the await, then upsert *)

BeginIndex(w, ref, version) ==
    /\ writer[w] = Free
    /\ writer' = [writer EXCEPT ![w] = [at |-> "embedding", ref |-> ref, version |-> version]]
    /\ UNCHANGED <<rows, vectors, words, stamp, lastRow, fts, backend>>

(* embed() answers with one vector per chunk, or with None; nothing checks  *)
(* that the vectors have the length of the first: the others are odd.       *)
Embedded(w) ==
    /\ writer[w].at = "embedding"
    /\ \E odd \in SUBSET (2 .. ChunkCount[writer[w].version]) :
         writer' = [writer EXCEPT ![w] = [at |-> "upsert", ref |-> writer[w].ref, dim |-> backend,
                                          version |-> writer[w].version, odd |-> odd]]
    /\ UNCHANGED <<rows, vectors, words, stamp, lastRow, fts, backend>>

EmbedFails(w) ==
    /\ writer[w].at = "embedding"
    /\ writer' = [writer EXCEPT ![w] = Free]
    /\ UNCHANGED <<rows, vectors, words, stamp, lastRow, fts, backend>>

OldIds(ref) == {r.id : r \in {x \in rows : x.ref = ref}}

(* A chunk whose vector is odd is skipped.  Only the order of the rowids is *)
(* meant: the ones the skipped chunks would have had are left out.          *)
NewRows(ref, version, odd) ==
    {[id |-> lastRow + i, ref |-> ref, version |-> version, pos |-> i, skipped |-> odd,
      distance |-> DistanceOf[<<version, i>>]] : i \in (1 .. ChunkCount[version]) \ odd}

(* The replacement of all chunks of a document, in one transaction: the old *)
(* rows leave all three tables before the new ones enter them.              *)
Replace(w) ==
    LET ref == writer[w].ref
        fresh == NewRows(ref, writer[w].version, writer[w].odd)
        ids == {r.id : r \in fresh}
    IN  /\ rows' = {r \in rows : r.ref # ref} \cup fresh
        /\ vectors' = {v \in vectors : v[1] \notin OldIds(ref)} \cup (ids \X {writer[w].dim})
        /\ words' = IF fts THEN (words \ OldIds(ref)) \cup ids ELSE words
        /\ lastRow' = lastRow + ChunkCount[writer[w].version]

(* _ensure_vec_table: the first write stamps the dimension and commits; a   *)
(* later one has to agree.                                                  *)
DimensionFits(w) == stamp \in {0, writer[w].dim}

Upsert(w) ==
    /\ writer[w].at = "upsert"
    /\ lastRow + ChunkCount[writer[w].version] <= MaxRows
    /\ IF DimensionFits(w)
       THEN stamp' = writer[w].dim /\ Replace(w)
       ELSE UNCHANGED <<rows, vectors, words, stamp, lastRow>>
    /\ writer' = [writer EXCEPT ![w] = Free]
    /\ UNCHANGED <<fts, backend>>

(* An exception inside the transaction rolls it back; the stamp, committed  *)
(* before it, stays.                                                        *)
UpsertFails(w) ==
    /\ writer[w].at = "upsert" /\ DimensionFits(w)
    /\ stamp' = writer[w].dim
    /\ writer' = [writer EXCEPT ![w] = Free]
    /\ UNCHANGED <<rows, vectors, words, lastRow, fts, backend>>

(* The process restarts with another embedding model; what was in flight    *)
(* is lost.                                                                 *)
ChangeModel(dim) ==
    /\ backend' = dim
    /\ writer' = [w \in Writers |-> Free]
    /\ UNCHANGED <<rows, vectors, words, stamp, lastRow, fts>>

(* build_embeddings --reindex removes the file and starts over.             *)
Reindex ==
    /\ rows # {} \/ stamp # 0
    /\ rows' = {} /\ vectors' = {} /\ words' = {} /\ stamp' = 0 /\ lastRow' = 0
    /\ writer' = [w \in Writers |-> Free]
    /\ UNCHANGED <<fts, backend>>

IndexNext ==
    \/ \E w \in Writers :
        \/ \E ref \in Refs, version \in Versions : BeginIndex(w, ref, version)
        \/ Embedded(w) \/ EmbedFails(w) \/ Upsert(w) \/ UpsertFails(w)
    \/ \E dim \in Dimensions \ {backend} : ChangeModel(dim)
    \/ Reindex

-----------------------------------------------------------------------------
(* search() *)

(* The members of a finite set in their order: each stands at the place     *)
(* that the number of those before it gives.                                *)
InOrder(S, before(_, _)) ==
    [n \in 1 .. Cardinality(S) |-> CHOOSE x \in S : Cardinality({y \in S : before(y, x)}) = n - 1]

Prefix(s, n) == SubSeq(s, 1, IF n < Len(s) THEN n ELSE Len(s))
Rank(s, hit) == CHOOSE i \in DOMAIN s : s[i] = hit
Listed(s) == Range(s)
(* The elements of s at the positions in keep, in their order.              *)
Pick(s, keep) ==
    LET order == InOrder(keep, LAMBDA a, b : a < b)
    IN  [n \in 1 .. Cardinality(keep) |-> s[order[n]]]

Closer(a, b) == a.distance < b.distance \/ (a.distance = b.distance /\ a.id < b.id)

(* The rows vec_chunks ranks, joined with chunks: a vector without its row  *)
(* takes a place among the candidates and is then skipped.                  *)
Ranked ==
    LET known == {r \in rows : \E v \in vectors : v[1] = r.id}
        orphans == {[id |-> v[1], ref |-> "gone", version |-> 0, pos |-> 0, distance |-> 0] :
                    v \in {x \in vectors : \A r \in rows : r.id # x[1]}}
    IN  InOrder(known \cup orphans, Closer)

Matches(r, filtered) == r.ref # "gone" /\ (filtered => r.ref \in CorpusRefs)

Hits(ranked, window, k, filtered) ==
    Prefix(Pick(ranked, {i \in DOMAIN ranked : i <= window /\ Matches(ranked[i], filtered)}), k)

Least(a, b) == IF a < b THEN a ELSE b
Most(a, b) == IF a < b THEN b ELSE a

(* The candidate windows search() tries: the first one, then doubled until  *)
(* it holds every row.                                                      *)
WindowsOnce(total, k, filtered) ==
    [n \in 0 .. total |-> IF filtered THEN Least(total, Most(k, FirstWindow)) ELSE Least(total, k)]

Windows(total, k, filtered) ==
    LET window[n \in 0 .. total] ==
            IF n = 0
            THEN IF filtered THEN Least(total, Most(k, FirstWindow)) ELSE Least(total, k)
            ELSE Least(total, 2 * window[n - 1])
    IN  window

(* What the loop finds: the first window that yields k hits, or the last.   *)
Widened(k, filtered) ==
    LET total == Cardinality(rows)
        windows == Windows(total, k, filtered)
        ranked == Ranked
        answers == [n \in 0 .. total |-> Hits(ranked, windows[n], k, filtered)]
        full == {n \in 0 .. total : Len(answers[n]) >= k}
    IN  answers[IF full = {} THEN total ELSE CHOOSE n \in full : \A m \in full : n <= m]

(* The answer of search(): nothing when the query, embedded by the backend  *)
(* in use, has another length than the index, or when one of the queries to *)
(* vec_chunks raises, whatever the windows before it gave.                  *)
Search(k, filtered, raises) ==
    IF stamp # backend \/ raises THEN <<>> ELSE Widened(k, filtered)

(* What a search promises: the k nearest of the rows that match.            *)
Nearest(k, filtered) == Prefix(InOrder({r \in rows : Matches(r, filtered)}, Closer), k)

-----------------------------------------------------------------------------
(* Whatever was replaced, rolled back or refused, and whoever wrote last:   *)
(* the three tables hold the same rows, all of the stamped dimension, and   *)
(* the chunks of a document are all those of one version of its text that   *)
(* one answer of the backend gave a vector of that dimension.               *)
TablesMirror ==
    /\ {v[1] : v \in vectors} = {r.id : r \in rows}
    /\ \A v \in vectors : v[2] = stamp
    /\ fts => words = {r.id : r \in rows}
    /\ \A a, b \in rows : a.ref = b.ref => a.version = b.version /\ a.skipped = b.skipped
    /\ \A a \in rows :
        {r.pos : r \in {x \in rows : x.ref = a.ref}} = (1 .. ChunkCount[a.version]) \ a.skipped

(* A search, filtered or not, returns the nearest chunks that match: the    *)
(* window of candidates is widened far enough, although the matching rows   *)
(* may all lie behind the ones the filter drops.  Or it returns nothing,    *)
(* and only over an index of another model or after a failed query; a part  *)
(* of the answer is never returned.                                         *)
SearchIsExact ==
    rows # {} =>
        \A k \in 1 .. 3, filtered, raises \in BOOLEAN :
            LET answered == Search(k, filtered, raises) IN
            \/ answered = Nearest(k, filtered)
            \/ answered = <<>> /\ (stamp # backend \/ raises)

-----------------------------------------------------------------------------
(* Hybrid search. *)

CONSTANTS
    ChunkIds,       \* identities of chunks, numbers
    ParentOf,       \* _parent_id of each chunk
    RrfK,           \* rrf_k
    WantedK,        \* k
    FirstDepth,     \* max(50, k * 5)
    MaxDepth        \* max_depth

ASSUME RetrievalAssumption ==
    /\ ChunkIds \subseteq Nat /\ IsFiniteSet(ChunkIds) /\ ParentOf \in [ChunkIds -> Nat]
    /\ RrfK \in Nat /\ WantedK \in Nat \ {0}
    /\ FirstDepth \in Nat \ {0} /\ MaxDepth \in Nat /\ FirstDepth <= MaxDepth

VARIABLES
    ranking,    \* what each source would return without a limit
    mode,       \* "hybrid", "semantic" or "keyword"
    depth,      \* candidates per signal in this round
    fused,      \* the candidates of the last round, before collapsing
    nearest,    \* the semantic candidates of the last round
    merged,     \* the keyword candidates of the last round
    answer      \* whether search() has returned, and the hits it returns

retrievalVars == <<ranking, mode, depth, fused, nearest, merged, answer>>

(* _merge_keyword_sources: the sources take turns, each giving its next hit *)
(* that is not in the list yet; a source that has none passes.              *)
TakeTurn(out, hits, limit) ==
    LET unseen == {i \in DOMAIN hits : hits[i] \notin Listed(out)}
    IN  IF Len(out) >= limit \/ unseen = {} THEN out
        ELSE Append(out, hits[CHOOSE i \in unseen : \A j \in unseen : i <= j])

MergeKeywords(db, file, limit) ==
    LET turn[n \in 0 .. Len(db) + Len(file)] ==
            IF n = 0 THEN <<>> ELSE TakeTurn(TakeTurn(turn[n - 1], db, limit), file, limit)
    IN  turn[Len(db) + Len(file)]

(* reciprocal_rank_fusion: 1 / (rrf_k + rank) summed over the signals, on a *)
(* common denominator; equal scores are ordered by identity.                *)
Denominator ==
    LET product[n \in 0 .. Cardinality(ChunkIds)] ==
            IF n = 0 THEN 1 ELSE product[n - 1] * (RrfK + n)
    IN  product[Cardinality(ChunkIds)]

RankScore(s, hit) ==
    IF hit \in Listed(s) THEN Denominator \div (RrfK + Rank(s, hit)) ELSE 0

Fuse(semantic, keyword) ==
    LET hits == Listed(semantic) \cup Listed(keyword)
        score == [h \in hits |-> RankScore(semantic, h) + RankScore(keyword, h)]
        before(a, b) == score[a] > score[b] \/ (score[a] = score[b] /\ a < b)
    IN  InOrder(hits, before)

(* collapse_results: the best chunk of each parent, in rank order.          *)
Collapse(hits, k) ==
    Prefix(Pick(hits, {i \in DOMAIN hits :
                        \A j \in 1 .. i - 1 : ParentOf[hits[j]] # ParentOf[hits[i]]}), k)

-----------------------------------------------------------------------------
Rankings == {Prefix(p, n) : p \in SetToSeqs(ChunkIds), n \in 0 .. Cardinality(ChunkIds)}
Searching == [done |-> FALSE, hits |-> <<>>]

(* The pieces of a search have their types.                                 *)
RetrievalTypeOK ==
    /\ DOMAIN ranking = {"semantic", "db", "file"}
    /\ mode \in {"hybrid", "semantic", "keyword"}
    /\ depth \in FirstDepth .. MaxDepth
    /\ Listed(fused) \subseteq ChunkIds /\ Listed(merged) \subseteq ChunkIds
    /\ answer.done \in BOOLEAN /\ Len(answer.hits) <= WantedK

RetrievalInit ==
    /\ \E semantic, db, file \in Rankings :
        ranking = [semantic |-> semantic, db |-> db, file |-> file]
    /\ mode \in {"hybrid", "semantic", "keyword"}
    /\ depth = FirstDepth /\ fused = <<>> /\ nearest = <<>> /\ merged = <<>>
    /\ answer = Searching

NextDepth(d) == IF 2 * d < MaxDepth THEN 2 * d ELSE MaxDepth
Enough(result) == Len(result) >= WantedK

(* One round of search(): a signal that raises is logged and empty.         *)
Round(semanticWorks, dbWorks) ==
    /\ ~ answer.done
    /\ LET semantic == IF semanticWorks /\ mode # "keyword"
                       THEN Prefix(ranking.semantic, depth) ELSE <<>>
           db == IF dbWorks THEN Prefix(ranking.db, depth) ELSE <<>>
           keyword == IF mode = "semantic" THEN <<>>
                      ELSE MergeKeywords(db, Prefix(ranking.file, depth), depth)
           all == Fuse(semantic, keyword)
           result == Collapse(all, WantedK)
       IN  /\ fused' = all /\ nearest' = semantic /\ merged' = keyword
           /\ IF Enough(result) \/ depth >= MaxDepth
              THEN answer' = [done |-> TRUE, hits |-> result] /\ UNCHANGED depth
              ELSE depth' = NextDepth(depth) /\ UNCHANGED answer
    /\ UNCHANGED <<ranking, mode>>

RetrievalNext == \E semanticWorks, dbWorks \in BOOLEAN : Round(semanticWorks, dbWorks)

-----------------------------------------------------------------------------
(* "Interleave providers so optional Postgres cannot hide file results":    *)
(* the i-th hit of the file index is among the first 2i of the merged list, *)
(* and no chunk is in it twice.                                             *)
FileHitsNotHidden ==
    /\ IsInjective(merged)
    /\ merged # <<>> =>
        \A i \in DOMAIN ranking.file :
            2 * i <= depth /\ 2 * i <= Len(merged) =>
                ranking.file[i] \in Listed(Prefix(merged, 2 * i))

(* A chunk that is ahead of another in every list that has either is ahead  *)
(* of it in the fused list.                                                 *)
FusionIsMonotone ==
    LET ahead(s, a, b) ==
            b \in Listed(s) => a \in Listed(s) /\ Rank(s, a) < Rank(s, b)
    IN  \A a, b \in Listed(fused) :
            a # b /\ ahead(nearest, a, b) /\ ahead(merged, a, b)
                => Rank(fused, a) < Rank(fused, b)

(* A search returns one chunk per parent and gives up with fewer than k     *)
(* parents only when the candidates of the full depth hold no more.         *)
AnswerIsComplete ==
    LET hits == answer.hits IN
    answer.done =>
        /\ \A i, j \in DOMAIN hits : i # j => ParentOf[hits[i]] # ParentOf[hits[j]]
        /\ Len(hits) < WantedK =>
            /\ depth = MaxDepth
            /\ {ParentOf[h] : h \in Listed(hits)} = {ParentOf[h] : h \in Listed(fused)}
=============================================================================
