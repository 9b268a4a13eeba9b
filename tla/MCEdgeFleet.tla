----------------------------- MODULE MCEdgeFleet -----------------------------
(* Instances of EdgeFleet: two workers and two pages, two operators and two *)
(* worker sockets, two proxy nodes and one task that is claimed again, two  *)
(* submissions with one key and a job of two tasks, one of them added by    *)
(* a second transaction, and two visits with one token.                     *)
EXTENDS EdgeFleet, TLC

(* The workers and the pages of the fleet are interchangeable.              *)
MCSymmetry == Permutations(Fleet) \cup Permutations(Pages)
=============================================================================
