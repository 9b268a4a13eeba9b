---------------------------- MODULE MCApiProcess ----------------------------
(* Instances of ApiProcess: one research run over two pages (one with two URLs), a crawl of     *)
(* four pages, two scheduled definitions, three scrapes of two URLs, two    *)
(* writers of the index and three chunks of two documents, pages of three   *)
(* elements, sitemaps that refer to each other, three corpus batches,       *)
(* three artifacts over two days, and two processes that migrate.           *)
EXTENDS ApiProcess

CONSTANTS p1, p2, u1, v1, s1, s2

(* The seeds name one page twice.                                           *)
MCNorm == [u \in Urls |-> IF u \in {u1, v1} THEN p1 ELSE p2]
MCSeedUrls == <<u1, v1>>

(* The base page links to the others, which link back and to each other.    *)
MCSitemapUrls == <<s2>>
MCLinks == [s \in Sites |-> IF s = s1 THEN Sites \ {s1} ELSE Sites \ {s2}]

MCKindOf == [d \in Defs |-> IF d = "daily" THEN "crawl" ELSE "scrape"]

(* Scrapes 1 and 2 are of one URL whose text changes; 3 is of another       *)
(* with the first one's text; the database knows the other's old text.      *)
MCUrlOf == [s \in Scrapes |-> IF s \in {1, 2} THEN "a" ELSE "b"]
MCTextOf == [s \in Scrapes |-> IF s = 2 THEN "y" ELSE "x"]
MCKnownPages == [u \in {"b"} |-> "y"]
MCSimilar == {<<"x", "y">>, <<"y", "x">>}

(* The second version of a document has more chunks, nearer to the query.   *)
MCChunkCount == [v \in {1, 2} |-> v]
MCDistanceOf == [x \in {1, 2} \X (1 .. 2) |-> IF x[1] = 1 THEN 4 ELSE x[2]]

MCParentOf == [c \in ChunkIds |-> IF c = 3 THEN 2 ELSE 1]

(* Elements of every kind, two spellings of one URL, and the traps.         *)
U(o, p, q) == [origin |-> o, path |-> p, query |-> q]
El(t, r, u) == [tag |-> t, rel |-> r, url |-> u]
MCSpelled == [o \in {"http://S:80", "https://s", "http://s"} |-> IF o = "https://s" THEN "https://s" ELSE "http://s"]
MCEscaped == [s \in {"%61", "%2e", "%2f"} |-> CASE s = "%61" -> "a" [] s = "%2e" -> "." [] OTHER -> "%2F"]
MCTooLong == {U("http://s", <<"long">>, <<>>)}
MCElements == {
  El("a", {}, U("http://s", <<"a">>, <<>>)),
  El("a", {}, U("http://S:80", <<"b", "..", "%61", "">>, <<"utm">>)),
  El("area", {}, U("http://s", <<"%2e", "b", "%2f", "x.pdf">>, <<>>)),
  El("a", {}, U("http://s", <<"b", ".", "..", "a">>, <<"q">>)),
  El("a", {"nofollow"}, U("http://s", <<"n">>, <<>>)),
  El("link", {"canonical", "next"}, U("http://s", <<"c">>, <<>>)),
  El("link", {"next"}, U("http://s", <<>>, <<"p9999">>)),
  El("img", {}, U("http://s", <<"i.png">>, <<>>)),
  El("iframe", {}, U("http://s", <<"f">>, <<"sid">>)),
  El("object", {}, U("http://s", <<"o">>, <<>>)),
  El("embed", {}, U("http://s", <<"x.pdf">>, <<>>)),
  El("a", {}, U("https://s", <<"a">>, <<>>)),
  El("a", {}, U("mailto", <<"a">>, <<>>)),
  El("a", {}, U("http://s", <<"long">>, <<>>)),
  El("a", {}, U("http://s", <<"a", "a", "a">>, <<>>)),
  El("a", {}, U("http://s", <<"z.zip">>, <<>>)),
  El("a", {}, U("http://s", <<"f">>, <<"facet1", "facet2", "sid">>)),
  El("a", {}, U("http://s", <<"f">>, <<"facet1", "utm", "facet2">>)),
  El("a", {}, U("http://s", <<"events", "2024-05">>, <<>>)),
  El("a", {}, NoUrl) }

(* m1 and m2 refer to each other.                                           *)
MCLocsOf == [m \in {"m1", "m2", "m3", "m4.gz", "sm", "smi"} |->
   CASE m = "m1" -> <<"m2", "p1", "m1", "p2">> [] m = "m2" -> <<"p2", "p3", "m1", "m3">>
     [] m = "m3" -> <<"p4", "m4.gz">> [] m = "m4.gz" -> <<"p5">> [] m = "sm" -> <<"p1", "smi">> [] OTHER -> <<"m2", "sm">>]
MCListed == <<"m1", "m4.gz">>
MCFallback == <<"sm", "smi">>
MCHomeLinks == <<"p6", "p1", "home">>

(* Two batches are of one host; the third, of the low tier, has the chunk   *)
(* of one of them.                                                          *)
MCBatches == <<"x", "y", "z">>
MCHostOf == [b \in {"x", "y", "z"} |-> IF b = "z" THEN "h2" ELSE "h1"]
MCPagesOf == [b \in {"x", "y", "z"} |-> CASE b = "x" -> <<"own">> [] b = "y" -> <<"doc">> [] OTHER -> <<"other">>]
MCBucketOf == [p \in {"own", "doc", "other"} |->
    CASE p = "own" -> "own-content" [] p = "doc" -> "review-required" [] OTHER -> "permissive"]
MCChunksOf == [p \in {"own", "doc", "other"} |-> CASE p = "own" -> <<"k1">> [] p = "doc" -> <<"k2">> [] OTHER -> <<"k2">>]
=============================================================================
