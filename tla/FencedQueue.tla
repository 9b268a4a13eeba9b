----------------------------- MODULE FencedQueue -----------------------------
(***************************************************************************)
(* What a queue of pages promises its callers, whoever works on it: a page *)
(* is held under one fresh grant at a time, only the holder of the current *)
(* grant settles it, a result is the result of that grant, and what is     *)
(* settled stays.  CrawlSystem (the repository's transactions) and         *)
(* RemoteFleet (the worker_api functions) implement it.                    *)
(***************************************************************************)
EXTENDS Naturals

CONSTANT Items

VARIABLES
    phase,      \* what became of each page so far
    grant,      \* the grant a page is held under, 0 when it is not held
    issued,     \* grants handed out
    kept        \* the grant a result was stored under, 0 without one

queueVars == <<phase, grant, issued, kept>>

Waiting == {"queued", "parked"}
Phases == Waiting \cup {"unknown", "held", "done", "dropped"}

Init ==
    /\ phase = [i \in Items |-> "unknown"]
    /\ grant = [i \in Items |-> 0] /\ kept = [i \in Items |-> 0]
    /\ issued = 0

(* Waiting pages that leave the queue without being worked on. *)
Dropped(S) == [i \in Items |-> IF i \in S THEN "dropped" ELSE phase[i]]

Announce(i) ==
    /\ phase[i] = "unknown"
    /\ phase' = [phase EXCEPT ![i] = "queued"]
    /\ UNCHANGED <<grant, issued, kept>>

Take(i) ==
    /\ phase[i] \in Waiting
    /\ phase' = [phase EXCEPT ![i] = "held"]
    /\ issued' = issued + 1
    /\ grant' = [grant EXCEPT ![i] = issued + 1]
    /\ UNCHANGED kept

(* The holder is done: the result is stored, and pages may have been found. *)
Finish(i) ==
    /\ phase[i] = "held"
    /\ \E found \in SUBSET {x \in Items : phase[x] = "unknown"} :
         phase' = [x \in Items |-> IF x = i THEN "done"
                                   ELSE IF x \in found THEN "queued" ELSE phase[x]]
    /\ kept' = [kept EXCEPT ![i] = grant[i]]
    /\ grant' = [grant EXCEPT ![i] = 0]
    /\ UNCHANGED issued

(* The grant ends without a result: the page waits again or is given up, and *)
(* giving it up may take waiting pages along.                                *)
GiveBack(i) ==
    /\ phase[i] = "held"
    /\ \E S \in SUBSET {x \in Items : phase[x] \in Waiting}, next \in Waiting \cup {"dropped"} :
         phase' = [Dropped(S) EXCEPT ![i] = next]
    /\ grant' = [grant EXCEPT ![i] = 0]
    /\ UNCHANGED <<issued, kept>>

Withdraw ==
    /\ \E S \in SUBSET {x \in Items : phase[x] \in Waiting} : S # {} /\ phase' = Dropped(S)
    /\ UNCHANGED <<grant, issued, kept>>

Next == Withdraw \/ \E i \in Items : Announce(i) \/ Take(i) \/ Finish(i) \/ GiveBack(i)

Spec == Init /\ [][Next]_queueVars
===============================================================================
