---------------------------- MODULE MCCrawlSystem ----------------------------
(***************************************************************************)
(* Small instances of CrawlSystem.  URL u4 is on a second origin.          *)
(***************************************************************************)
EXTENDS CrawlSystem, TLC

CONSTANTS j1, j2, u1, u2, u3, u4, w1, w2, o1, o2

MCOriginOf == [u \in Urls |-> IF u = u4 THEN o2 ELSE o1]
MCOneOrigin == [u \in Urls |-> o1]
MCSeed == [j \in Jobs |-> u1]
MCCapable == [w \in Workers |-> Jobs]
MCBudget == [m \in Meters |-> IF m = "bytes" THEN 2 ELSE 1]
MCResponseCap == [u \in Urls |-> 1]
MCReports == {Nothing, [Nothing EXCEPT !["bytes"] = 1], [Nothing EXCEPT !["bytes"] = 2]}
MCReportsBoth == {Nothing, [m \in Meters |-> 1], [Nothing EXCEPT !["artifact"] = 2]}
MCReportsNone == {Nothing}
MCDelays == {1}

Symmetry == Permutations(Workers)
PageSymmetry == Permutations(Workers) \cup Permutations(Urls \ {u1})
=============================================================================
