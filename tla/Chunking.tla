------------------------------ MODULE Chunking ------------------------------
(***************************************************************************)
(* The two chunkers: vecindex.chunk_text packs paragraphs into windows of  *)
(* characters and cuts oversized ones with an overlap; the corpus's        *)
(* chunk_markdown (app/corpus/chunking.py) packs headings, paragraphs and  *)
(* code blocks into windows of tokens under a breadcrumb of headings.      *)
(* Each step is one turn of the loop over the input, or of the one that    *)
(* prepends the overlap afterwards.  A block is its kind, its size and, for *)
(* a heading, its level, an overlap its number of words; the text itself   *)
(* is left out.                                                            *)
(***************************************************************************)
EXTENDS Naturals, Sequences, SequencesExt, FiniteSets

CONSTANTS
    Sizes,          \* sizes of paragraphs and blocks
    MaxBlocks,      \* length of the inputs
    MaxChars, Overlap, MaxChunks,   \* chunk_text
    TargetTokens, MaxTokens, OverlapTokens  \* chunk_markdown

ASSUME ChunkingAssumption ==
    /\ Sizes \subseteq Nat \ {0}
    /\ MaxBlocks \in Nat /\ MaxChunks \in Nat \ {0}
    /\ MaxChars \in Nat \ {0} /\ Overlap \in Nat
    /\ TargetTokens \in Nat \ {0} /\ MaxTokens \in Nat /\ OverlapTokens \in Nat

VARIABLES
    chunker,    \* which of the two runs
    input,      \* the blocks
    next,       \* the next block
    current,    \* pieces of the open chunk (cur, cur_blocks)
    tokens,     \* its size (len(cur), cur_tokens)
    stack,      \* heading_stack: indexes of the open headings
    path,       \* cur_path
    body,       \* cur_has_body
    chunks,     \* the finished chunks
    leads       \* words prepended to the first chunks, as an overlap

chunkVars == <<chunker, input, next, current, tokens, stack, path, body, chunks, leads>>

Levels == 1 .. 2
Paragraphs == {[kind |-> "para", size |-> n, level |-> 0] : n \in Sizes}
Blocks == Paragraphs
    \cup {[kind |-> "code", size |-> n, level |-> 0] : n \in Sizes}
    \cup {[kind |-> "heading", size |-> 1, level |-> l] : l \in Levels}

Inputs(c) == UNION {[1 .. n -> IF c = "text" THEN Paragraphs ELSE Blocks] : n \in 0 .. MaxBlocks}

ChunkInit ==
    /\ chunker \in {"text", "markdown"}
    /\ input \in Inputs(chunker)
    /\ next = 1 /\ current = <<>> /\ tokens = 0
    /\ stack = <<>> /\ path = <<>> /\ body = FALSE /\ chunks = <<>> /\ leads = <<>>

(* A piece of the input: characters from + 1 .. to of a block.              *)
Piece(i, from, to) == [block |-> i, from |-> from, to |-> to]
Whole(i) == Piece(i, 0, input[i].size)
Closed(pieces, size, crumbs) == [pieces |-> pieces, size |-> size, path |-> crumbs]

(* The open chunk joins the finished ones, if it holds anything.            *)
Flushed == IF current = <<>> THEN chunks ELSE Append(chunks, Closed(current, tokens, path))

Cut(s, n) == SubSeq(s, 1, IF n < Len(s) THEN n ELSE Len(s))
Smaller(a, b) == IF a < b THEN a ELSE b

(* The elements of s that are in S, in their order.                         *)
Kept(s, S) ==
    LET kept[n \in 0 .. Len(s)] ==
            IF n = 0 THEN <<>> ELSE IF s[n] \in S THEN Append(kept[n - 1], s[n]) ELSE kept[n - 1]
    IN  kept[Len(s)]

-----------------------------------------------------------------------------
(* chunk_text *)

StrideAndOverlap == MaxChars + Overlap
Stride == IF MaxChars > Overlap THEN MaxChars - Overlap ELSE 1

(* The windows of an oversized paragraph: range(0, len(p), step).           *)
CutUp(i) ==
    LET size == input[i].size
    IN  [n \in 1 .. (size - 1) \div Stride + 1 |->
            LET from == (n - 1) * Stride
                to == Smaller(from + MaxChars, size)
            IN  Closed(<<Piece(i, from, to)>>, to - from, <<>>)]

(* Once there are max_chunks the function returns with what it has: the     *)
(* rest of the input is dropped and the open chunk with it.                 *)
Full(done) == Len(done) >= MaxChunks
TextGoesOn(done) == IF Full(done) THEN next' = Len(input) + 2 ELSE next' = next + 1

PackParagraph ==
    LET size == input[next].size
        apart == IF current = <<>> THEN 0 ELSE 2
    IN
    /\ chunker = "text" /\ next <= Len(input)
    /\ IF size > MaxChars
       THEN /\ chunks' = Cut(Flushed \o CutUp(next), MaxChunks)
            /\ current' = <<>> /\ tokens' = 0
       ELSE IF current # <<>> /\ tokens + size + 2 > MaxChars
       THEN /\ chunks' = Cut(Flushed, MaxChunks)
            /\ current' = <<Whole(next)>> /\ tokens' = size
       ELSE /\ current' = Append(current, Whole(next))
            /\ tokens' = tokens + apart + size
            /\ UNCHANGED chunks
    /\ TextGoesOn(chunks')
    /\ UNCHANGED <<chunker, input, stack, path, body, leads>>

FinishText ==
    /\ chunker = "text" /\ next = Len(input) + 1
    /\ chunks' = Cut(Flushed, MaxChunks)
    /\ current' = <<>> /\ tokens' = 0 /\ next' = next + 1
    /\ UNCHANGED <<chunker, input, stack, path, body, leads>>

-----------------------------------------------------------------------------
(* chunk_markdown *)

Opened(i) ==
    Append(Kept(stack, {h \in ToSet(stack) : input[h].level < input[i].level}), i)

ReadHeading ==
    /\ chunker = "markdown" /\ next <= Len(input) /\ input[next].kind = "heading"
    /\ LET fullWindow == tokens >= TargetTokens
           started == ~fullWindow /\ body
       IN  /\ chunks' = IF fullWindow THEN Flushed ELSE chunks
           /\ current' = Append(IF fullWindow THEN <<>> ELSE current, Whole(next))
           /\ tokens' = (IF fullWindow THEN 0 ELSE tokens) + input[next].size
           /\ body' = started
           /\ path' = IF started THEN path ELSE Opened(next)
    /\ stack' = Opened(next)
    /\ next' = next + 1
    /\ UNCHANGED <<chunker, input, leads>>

(* A code block larger than the window is a chunk of its own.               *)
ReadLargeCode ==
    /\ chunker = "markdown" /\ next <= Len(input)
    /\ input[next].kind = "code" /\ input[next].size > MaxTokens
    /\ chunks' = Append(Flushed, Closed(<<Whole(next)>>, input[next].size, stack))
    /\ current' = <<>> /\ tokens' = 0 /\ body' = FALSE /\ path' = stack
    /\ next' = next + 1
    /\ UNCHANGED <<chunker, input, stack, leads>>

StartsAnew(size) == current # <<>> /\ tokens + size > MaxTokens

ReadBlock ==
    LET size == input[next].size
        anew == StartsAnew(size)
        base == IF anew THEN <<>> ELSE current
        sum == (IF anew THEN 0 ELSE tokens) + size
        crumbs == IF base = <<>> THEN stack ELSE path
        before == IF anew THEN Flushed ELSE chunks
    IN
    /\ chunker = "markdown" /\ next <= Len(input)
    /\ input[next].kind # "heading"
    /\ ~(input[next].kind = "code" /\ size > MaxTokens)
    /\ path' = crumbs
    /\ IF sum >= TargetTokens
       THEN /\ chunks' = Append(before, Closed(Append(base, Whole(next)), sum, crumbs))
            /\ current' = <<>> /\ tokens' = 0 /\ body' = FALSE
       ELSE /\ chunks' = before
            /\ current' = Append(base, Whole(next)) /\ tokens' = sum /\ body' = TRUE
    /\ next' = next + 1
    /\ UNCHANGED <<chunker, input, stack, leads>>

FinishMarkdown ==
    /\ chunker = "markdown" /\ next = Len(input) + 1
    /\ chunks' = Flushed
    /\ current' = <<>> /\ tokens' = 0 /\ next' = next + 1
    /\ UNCHANGED <<chunker, input, stack, path, body, leads>>

Done == next = Len(input) + 2

(* The words of a chunk before its overlap: its tokens and the # of every   *)
(* heading, which are in its text and not counted.                          *)
Markers(i) == Cardinality({n \in DOMAIN chunks[i].pieces :
                            input[chunks[i].pieces[n].block].kind = "heading"})
WordsOf(i) == chunks[i].size + Markers(i)

(* _tail_overlap of the text of chunk i, its own overlap included.          *)
TailOverlap(i) == Smaller(OverlapTokens, WordsOf(i) + leads[i])

(* The last words of the chunk before are prepended, unless the text of the *)
(* chunk, which is then as long at least, has them already.                 *)
PrependOverlap ==
    LET i == Len(leads) + 1 IN
    /\ chunker = "markdown" /\ Done /\ i <= Len(chunks)
    /\ \/ i = 1 /\ leads' = Append(leads, 0)
       \/ i > 1 /\ leads' = Append(leads, TailOverlap(i - 1))
       \/ i > 1 /\ TailOverlap(i - 1) <= WordsOf(i) /\ leads' = Append(leads, 0)
    /\ UNCHANGED <<chunker, input, next, current, tokens, stack, path, body, chunks>>

ChunkNext ==
    \/ PackParagraph \/ FinishText
    \/ ReadHeading \/ ReadLargeCode \/ ReadBlock \/ FinishMarkdown \/ PrependOverlap

-----------------------------------------------------------------------------
Pieces(seq) == UNION {ToSet(seq[i].pieces) : i \in DOMAIN seq}
Covered(i, n) == \E p \in Pieces(chunks) : p.block = i /\ p.from < n /\ n <= p.to

(* Nothing is lost: unless chunk_text stopped at max_chunks, every          *)
(* character of every block is in a chunk when the chunker is done, and     *)
(* chunk_markdown puts every block whole into exactly one.                  *)
NothingIsLost ==
    Done =>
        /\ chunker = "markdown" \/ Len(chunks) < MaxChunks =>
            \A i \in DOMAIN input : \A n \in 1 .. input[i].size : Covered(i, n)
        /\ chunker = "markdown" =>
            FlattenSeq([i \in DOMAIN chunks |-> chunks[i].pieces])
                = [i \in DOMAIN input |-> Whole(i)]

(* The words of a chunk as it is returned.                                 *)
Length(i) == WordsOf(i) + (IF i \in DOMAIN leads THEN leads[i] ELSE 0)

(* The windows hold: no chunk of chunk_text is longer than max_chars and    *)
(* there are at most max_chunks; what chunk_markdown packed is larger than  *)
(* max_tokens, and what it returns longer than max_tokens, the overlap and  *)
(* the marks of the headings, only for one oversized block or for headings. *)
WindowsHold ==
    IF chunker = "text"
    THEN Len(chunks) <= MaxChunks /\ \A i \in DOMAIN chunks : chunks[i].size <= MaxChars
    ELSE \A i \in DOMAIN chunks :
            \/ chunks[i].size > MaxTokens
            \/ Length(i) > MaxTokens + OverlapTokens + Markers(i)
            => Len(chunks[i].pieces) = 1 \/ input[Last(chunks[i].pieces).block].kind = "heading"

(* The headings open at block i.                                            *)
Breadcrumb(i) ==
    Kept([n \in 1 .. i |-> n],
         {h \in 1 .. i : /\ input[h].kind = "heading"
                         /\ \A m \in h + 1 .. i : input[m].kind = "heading" =>
                                                   input[m].level > input[h].level})

(* A chunk's breadcrumb is the section of its first paragraph or code       *)
(* block, however many headings came before it and were merged.             *)
BreadcrumbIsTrue ==
    chunker = "markdown" =>
        \A i \in DOMAIN chunks :
            LET pieces == chunks[i].pieces
            IN  \A n \in DOMAIN pieces :
                    /\ input[pieces[n].block].kind # "heading"
                    /\ \A m \in 1 .. n - 1 : input[pieces[m].block].kind = "heading"
                    => chunks[i].path = Breadcrumb(pieces[n].block)
=============================================================================
