---------------------------- MODULE SiteDiscovery ----------------------------
(***************************************************************************)
(* Which URLs a site offers: the identity of a URL (app/normalize.py), the *)
(* links of a durable crawl's page (app/crawl/discovery.py), the walk over *)
(* its sitemaps and POST /api/map (app/sitemap.py).                        *)
(*                                                                         *)
(* A URL is a record of its spelled origin, its path as a sequence of      *)
(* segments and the keys of its query; percent escapes and spellings of an *)
(* origin are constants.  The scans run one element or one document at a   *)
(* time, on a page and a set of sitemaps chosen at the start.              *)
(***************************************************************************)
EXTENDS Integers, Sequences, SequencesExt, FiniteSets, FiniteSetsExt

CONSTANTS
    Spelled,        \* spelled origin -> origin_key; none for what is not HTTP
    Escaped,        \* segment with percent escapes -> its normalised spelling
    TooLong,        \* URLs over MAX_URL_BYTES
    NoUrl,
    Tracking,       \* trackingParameters: query keys to drop
    SiteOrigin,     \* origin_key of the crawl's URL
    DocumentNames, ImageNames, SkippedNames,    \* segments by their suffix
    SessionKeys, DeepPageKeys, FacetKeys, CalendarNames,
    MaxSegments, MaxRepeats, FacetLimit,        \* crawl_trap_reason
    PageElements,   \* the elements of the pages that are scanned
    MaxElements,    \* bound: elements of a page
    Follow, WithDocuments, WithImages, WithFrames, WithEmbedded,    \* CrawlConfig
    ChildCap,       \* maxChildrenPerPage
    LocsOf,         \* sitemap -> its <loc> entries, sitemaps and pages
    ListedMaps,     \* same-origin Sitemap: lines of robots.txt
    FallbackMaps,   \* /sitemap.xml, /sitemap_index.xml
    PackedMaps,     \* sitemaps ending in .gz
    MaxSitemapFetches,
    MapLimit,       \* limit of POST /api/map, the cap of the walk
    HomePage, HomeLinks,    \* the base URL and the links of its page
    Wanted          \* the URLs that contain the search string

(* What normalising an origin or a segment gives is normalised already; the *)
(* limits are numbers, and there are finitely many sitemaps.                *)
ASSUME SiteAssumption ==
    /\ \A o \in DOMAIN Spelled : Spelled[o] \in DOMAIN Spelled => Spelled[Spelled[o]] = Spelled[o]
    /\ \A s \in DOMAIN Escaped :
          /\ Escaped[s] \in STRING
          /\ Escaped[s] \in DOMAIN Escaped => Escaped[Escaped[s]] = Escaped[s]
    /\ \A e \in PageElements :
          e.url # NoUrl =>
              /\ e.url = [origin |-> e.url.origin, path |-> e.url.path, query |-> e.url.query]
              /\ e.url.path \in Seq(STRING) /\ e.url.query \in Seq(STRING)
    /\ MaxElements \in Nat /\ ChildCap \in Nat /\ MaxSitemapFetches \in Nat /\ MapLimit \in Nat
    /\ IsFiniteSet(DOMAIN LocsOf)
    /\ \A m \in DOMAIN LocsOf : LocsOf[m] \in Seq(STRING)
    /\ ListedMaps \in Seq(DOMAIN LocsOf) /\ FallbackMaps \in Seq(DOMAIN LocsOf)
    /\ HomePage \in STRING /\ HomeLinks \in Seq(STRING)

VARIABLES
    scan,       \* page: the elements, next, output, rejected: reason -> count
    walk,       \* the sitemap walk: at, queue, seen, fetches, failed, pages
    links       \* the answer of /api/map

siteVars == <<scan, walk, links>>
-----------------------------------------------------------------------------
(* normalize.py                                                             *)

Unescaped(s) == IF s \in DOMAIN Escaped THEN Escaped[s] ELSE s

Blank == ""     \* the segment after a slash that ends a path

(* "." stands for nothing, ".." takes back the segment before it.           *)
Resolve(out, s) ==
    CASE s = "." -> out
      [] s = ".." -> IF out = <<>> THEN out ELSE Front(out)
      [] OTHER -> Append(out, s)

RemoveDotSegments(path) ==
    LET out[n \in 0 .. Len(path)] == IF n = 0 THEN <<>> ELSE Resolve(out[n - 1], path[n])
    IN  out[Len(path)]

(* rstrip("/"): empty segments at the end.                                  *)
WithoutSlashes(path) ==
    SubSeq(path, 1, Max({0} \cup {i \in DOMAIN path : path[i] # Blank}))

NormalPath(path) == WithoutSlashes(RemoveDotSegments([i \in DOMAIN path |-> Unescaped(path[i])]))

KeptKeys(query) ==
    LET kept[n \in 0 .. Len(query)] ==
            IF n = 0 THEN <<>>
            ELSE IF query[n] \in Tracking THEN kept[n - 1] ELSE Append(kept[n - 1], query[n])
    IN  kept[Len(query)]

NormalizeUrl(u) ==
    IF u = NoUrl \/ u \in TooLong THEN NoUrl
    ELSE LET url == [origin |-> IF u.origin \in DOMAIN Spelled THEN Spelled[u.origin] ELSE u.origin,
                     path |-> NormalPath(u.path), query |-> KeptKeys(u.query)]
         IN  IF url \in TooLong THEN NoUrl ELSE url
-----------------------------------------------------------------------------
(* discovery.py                                                             *)

Name(u) == IF u.path = <<>> THEN Blank ELSE Last(u.path)

LinkKind(u) ==
    CASE Name(u) \in DocumentNames -> "document"
      [] Name(u) \in ImageNames -> "image"
      [] OTHER -> "page"

(* What _candidate takes an element for; "none" is skipped.                 *)
Candidate(e) ==
    CASE "nofollow" \in e.rel -> "none"
      [] e.tag \in {"a", "area"} -> "anchor"
      [] e.tag = "link" /\ "canonical" \notin e.rel /\ e.rel \cap {"next", "prev", "alternate"} # {} -> "link"
      [] e.tag = "iframe" /\ WithFrames -> "iframe"
      [] e.tag \in {"img", "source"} /\ WithEmbedded -> "embedded"
      [] e.tag \in {"object", "embed"} -> "embedded"
      [] OTHER -> "none"

Count(seq, S) == Cardinality({i \in DOMAIN seq : seq[i] \in S})

(* The reasons of crawl_trap_reason in the order of its checks.             *)
TrapChecks(u) ==
    << <<"path_segments", Count(u.path, ToSet(u.path) \ {Blank}) > MaxSegments>>,
       <<"repeated_path_segment", \E s \in ToSet(u.path) \ {Blank} : Count(u.path, {s}) > MaxRepeats>>,
       <<"session_identifier", Count(u.query, SessionKeys) > 0>>,
       <<"pagination", Count(u.query, DeepPageKeys) > 0>>,
       <<"faceted_search", Count(u.query, FacetKeys) >= FacetLimit>>,
       <<"calendar", Count(u.path, CalendarNames) > 0>> >>

TrapReason(u) ==
    LET found == SelectSeq(TrapChecks(u), LAMBDA c : c[2])
    IN  IF found = <<>> THEN "none" ELSE Head(found)[1]

(* The filters between the element and the trap check.                      *)
InScope(e) ==
    LET u == NormalizeUrl(e.url)
        source == Candidate(e)
        kind == LinkKind(u)
    IN  /\ source # "none"
        /\ e.url # NoUrl /\ e.url.origin \in DOMAIN Spelled
        /\ u # NoUrl /\ u.origin = SiteOrigin
        /\ kind = "document" => WithDocuments
        /\ kind = "image" => WithImages
        /\ kind = "page" => Name(u) \notin SkippedNames /\ source # "embedded"

ListedBefore(s, e) == NormalizeUrl(e.url) \in ToSet(s.output)

(* One element of the page.                                                 *)
Scanned(s) ==
    LET e == s.page[s.next]
        u == NormalizeUrl(e.url)
        reason == TrapReason(u)
        passed == [s EXCEPT !.next = @ + 1]
    IN  IF ~InScope(e) THEN passed
        ELSE IF reason # "none" THEN [passed EXCEPT !.rejected[reason] = @ + 1]
        ELSE IF ListedBefore(s, e) THEN passed
        ELSE [passed EXCEPT !.output = Append(@, u)]

ScanFull(s) == Len(s.output) >= ChildCap
ScanDone(s) == ~Follow \/ ScanFull(s) \/ s.next > Len(s.page)

DiscoverLinks ==
    /\ ~ScanDone(scan)
    /\ scan' = Scanned(scan)
    /\ UNCHANGED <<walk, links>>
-----------------------------------------------------------------------------
(* sitemap.py                                                               *)

Sitemaps == DOMAIN LocsOf

(* robots.txt was read, or not; its sitemaps or the conventional ones.      *)
ReadRobots(answered) ==
    /\ walk.at = "robots"
    /\ walk' = [walk EXCEPT !.at = "walk",
                  !.queue = IF answered /\ ListedMaps # <<>> THEN ListedMaps ELSE FallbackMaps]
    /\ UNCHANGED <<scan, links>>

WalkOver == walk.queue = <<>> \/ walk.fetches >= MaxSitemapFetches \/ Len(walk.pages) >= MapLimit

SkipsMap(m) == m \in walk.seen \/ m \in PackedMaps

(* The entries of one sitemap: sitemaps to the queue, new pages to the list *)
(* until it is full.                                                        *)
TakeLoc(w, loc) ==
    IF Len(w.pages) >= MapLimit THEN w
    ELSE IF loc \in Sitemaps THEN [w EXCEPT !.queue = Append(@, loc)]
    ELSE IF loc \in ToSet(w.pages) THEN w
    ELSE [w EXCEPT !.pages = Append(@, loc)]

TakeLocs(w, locs) ==
    LET taken[n \in 0 .. Len(locs)] == IF n = 0 THEN w ELSE TakeLoc(taken[n - 1], locs[n])
    IN  taken[Len(locs)]

FetchSitemap(answered) ==
    /\ walk.at = "walk" /\ ~WalkOver
    /\ LET m == Head(walk.queue)
           taken == [walk EXCEPT !.queue = Tail(@)]
           fetched == [taken EXCEPT !.seen = @ \cup {m}, !.fetches = @ + 1]
       IN  walk' = IF SkipsMap(m) THEN taken
                   ELSE IF answered THEN TakeLocs(fetched, LocsOf[m])
                   ELSE [fetched EXCEPT !.failed = TRUE]
    /\ UNCHANGED <<scan, links>>

(* map_site merges: the base URL, the sitemaps' pages, the page's links.    *)
Merge(out, u) ==
    IF Len(out) >= MapLimit \/ u \in ToSet(out) \/ u \notin Wanted THEN out ELSE Append(out, u)

MergeAll(urls) ==
    LET out[n \in 0 .. Len(urls)] == IF n = 0 THEN <<>> ELSE Merge(out[n - 1], urls[n])
    IN  out[Len(urls)]

MapSite(homeAnswered) ==
    /\ walk.at = "walk" /\ WalkOver
    /\ walk' = [walk EXCEPT !.at = "done"]
    /\ links' = MergeAll(<<HomePage>> \o walk.pages \o
                           (IF homeAnswered THEN HomeLinks ELSE <<>>))
    /\ UNCHANGED scan
-----------------------------------------------------------------------------
Reasons == {"path_segments", "repeated_path_segment", "session_identifier", "pagination",
            "faceted_search", "calendar"}

EmptyScan == [page |-> <<>>, next |-> 1, output |-> <<>>, rejected |-> [r \in Reasons |-> 0]]

SiteIdle ==
    /\ scan = EmptyScan
    /\ walk = [at |-> "robots", queue |-> <<>>, seen |-> {}, fetches |-> 0,
               failed |-> FALSE, pages |-> <<>>]
    /\ links = <<>>

(* A page to scan, or none and the sitemaps to walk.                        *)
SiteInit ==
    \/ SiteIdle
    \/ /\ scan \in {[EmptyScan EXCEPT !.page = p] : p \in TupleOf(PageElements, MaxElements)}
       /\ walk = [at |-> "none", queue |-> <<>>, seen |-> {}, fetches |-> 0,
                  failed |-> FALSE, pages |-> <<>>]
       /\ links = <<>>

SiteNext ==
    \/ DiscoverLinks
    \/ \E answered \in BOOLEAN : ReadRobots(answered)
    \/ \E answered \in BOOLEAN : FetchSitemap(answered)
    \/ \E answered \in BOOLEAN : MapSite(answered)

SiteSpec == SiteInit /\ [][SiteNext]_siteVars
-----------------------------------------------------------------------------
(* A counter of the walk never passes its bound and a scan never its page.  *)
SiteTypeOK ==
    /\ walk.fetches \in 0 .. MaxSitemapFetches
    /\ scan.next \in 1 .. Len(scan.page) + 1
    /\ walk.seen \subseteq Sitemaps

(* An identity is its own identity: the frontier, the database and a later  *)
(* crawl normalise what discovery normalised, and must not find a new URL.  *)
IdentityIsStable ==
    \A i \in DOMAIN scan.page :
        LET u == NormalizeUrl(scan.page[i].url)
        IN  u # NoUrl =>
              /\ NormalizeUrl(u) = u
              /\ "." \notin ToSet(u.path) /\ ".." \notin ToSet(u.path)

(* The k-th link of a page is the k-th in document order among the first    *)
(* occurrences of its admissible links; a page gives up one only to the cap,*)
(* and every trap that was passed is counted (discover_links).              *)
Admissible(i) == InScope(scan.page[i]) /\ TrapReason(NormalizeUrl(scan.page[i].url)) = "none"
FirstOnes ==
    {i \in 1 .. scan.next - 1 :
        /\ Admissible(i)
        /\ \A j \in 1 .. i - 1 :
              Admissible(j) => NormalizeUrl(scan.page[j].url) # NormalizeUrl(scan.page[i].url)}
ScanIsExact ==
    /\ Len(scan.output) = Cardinality(FirstOnes) /\ Len(scan.output) <= ChildCap
    /\ \A i \in FirstOnes :
          scan.output[Cardinality({j \in FirstOnes : j <= i})] = NormalizeUrl(scan.page[i].url)
    /\ \A r \in Reasons :
          scan.rejected[r] = Cardinality({i \in 1 .. scan.next - 1 :
              InScope(scan.page[i]) /\ TrapReason(NormalizeUrl(scan.page[i].url)) = r})

(* A walk that met no limit and no failed fetch has found every page that a *)
(* chain of sitemaps leads to, however they refer to each other (discover). *)
MapsFrom(S) ==
    LET within[n \in 0 .. Cardinality(Sitemaps)] ==
          IF n = 0 THEN S
          ELSE within[n - 1] \cup {m \in Sitemaps \ PackedMaps :
                                     \E k \in within[n - 1] : m \in ToSet(LocsOf[k])}
    IN  within[Cardinality(Sitemaps)]
WalkIsComplete ==
    walk.at = "done" /\ ~walk.failed /\ walk.fetches < MaxSitemapFetches /\ Len(walk.pages) < MapLimit =>
        \E start \in {ListedMaps, FallbackMaps} :
            ToSet(walk.pages) =
                UNION {ToSet(LocsOf[m]) \ Sitemaps :
                         m \in MapsFrom(ToSet(start) \ PackedMaps)}

(* The answer of /api/map repeats nothing, and while there is room in it    *)
(* lists every wanted page the walk found (map_site).                       *)
MapIsMerged ==
    walk.at = "done" =>
        /\ \A i, j \in DOMAIN links : links[i] = links[j] => i = j
        /\ Len(links) < MapLimit => ToSet(walk.pages) \cap Wanted \subseteq ToSet(links)
=============================================================================
