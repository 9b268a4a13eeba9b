---------------------------- MODULE MCAcquisition ----------------------------
(***************************************************************************)
(* Small instances of AcquisitionRouter.  Every call of a managed provider *)
(* costs 2; a provider may report less, and a faulty one more.             *)
(***************************************************************************)
EXTENDS AcquisitionRouter, TLC

CONSTANTS t1, t2, w1, w2

MCBudget == [p \in {"brightdata", "firecrawl", "browserbase"} |-> 3]
MCOneBudget == [p \in {"brightdata"} |-> 3]
MCCost == [p \in Providers |-> IF p = "local" THEN 0 ELSE 2]
MCBills == [p \in Providers |-> IF p = "local" THEN {0} ELSE {1, 3}]
MCNoProxy == Routes \ {"owned_proxy_http"}

Symmetry == Permutations(Workers) \cup Permutations(Tasks)
=============================================================================
