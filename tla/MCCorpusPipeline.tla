-------------------------- MODULE MCCorpusPipeline --------------------------
(* An instance of CorpusPipeline alone: two batches of one host, one of own  *)
(* content, which the router sends to all three targets.                    *)
EXTENDS CorpusPipeline

MCBatches == <<"x", "y">>
MCHostOf == [b \in {"x", "y"} |-> "h1"]
MCPagesOf == [b \in {"x", "y"} |-> IF b = "x" THEN <<"own">> ELSE <<"doc">>]
MCBucketOf == [p \in {"own", "doc"} |-> IF p = "own" THEN "own-content" ELSE "review-required"]
MCChunksOf == [p \in {"own", "doc"} |-> IF p = "own" THEN <<"k1">> ELSE <<"k2">>]
=============================================================================
