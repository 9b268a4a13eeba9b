---------------------------- MODULE SessionProfiles ---------------------------
(***************************************************************************)
(* Encrypted browser profiles (app/acquisition/profiles.py).  A profile is *)
(* sealed with the primary key of the process that wrote it and bound to   *)
(* its identity; a process that reads it and has another primary key seals *)
(* it anew in the same transaction.  Keys are rolled out process by        *)
(* process, so processes with different rings read the same rows.          *)
(***************************************************************************)
EXTENDS Naturals, Sequences, FiniteSets, SequencesExt

CONSTANTS
    Readers,        \* processes
    Rings,          \* the key rings the operator deploys, one after the other:
                    \* records of the primary key and the set of keys
    ProfileIds,
    SiteHosts,      \* hosts, as sequences of labels, top-level domain last
    AllowPatterns,  \* patterns: labels and whether they start with a wildcard
    MaxDeletes      \* bound: deletions

(* Each ring holds its primary and every key of the ring before it. *)
ASSUME RingAssumption ==
    /\ Len(Rings) \in Nat \ {0} /\ DOMAIN Rings = 1 .. Len(Rings)
    /\ \A i \in DOMAIN Rings : Rings[i].primary \in Rings[i].keys
    /\ \A i \in 1 .. Len(Rings) - 1 : Rings[i].keys \subseteq Rings[i + 1].keys
ASSUME HostAssumption ==
    /\ SiteHosts \subseteq Seq(STRING)
    /\ \A q \in AllowPatterns : q.labels \in Seq(STRING) /\ q.wildcard \in BOOLEAN

VARIABLES
    stage,      \* the ring each process runs with
    profile,    \* session_profiles: key_version, the key it is sealed with, payload
    loaded,     \* what load returned last, per process
    deletes

profileVars == <<stage, profile, loaded, deletes>>

NoProfile == [version |-> "none", sealed |-> "none", bound |-> "none", payload |-> 0]
Nothing == [profile |-> "none", host |-> <<>>, payload |-> 0, failed |-> FALSE]

ProfilesInit ==
    /\ stage = [r \in Readers |-> 1]
    /\ profile = [p \in ProfileIds |-> NoProfile]
    /\ loaded = [r \in Readers |-> Nothing]
    /\ deletes = 0

(* host_allowed: the domain itself, or with a wildcard any name below it. *)

HostAllowed(host, patterns) ==
    \E q \in patterns :
        IF q.wildcard
        THEN Len(host) > Len(q.labels) /\ IsSuffix(q.labels, host)
        ELSE host = q.labels

Ring(r) == Rings[stage[r]]
Sealed(r, p, payload) ==
    [version |-> Ring(r).primary, sealed |-> Ring(r).primary, bound |-> p, payload |-> payload]

CreateProfile(r, p, payload) ==
    /\ profile[p] = NoProfile
    /\ profile' = [profile EXCEPT ![p] = Sealed(r, p, payload)]
    /\ UNCHANGED <<stage, loaded, deletes>>

(* decrypt: the key of that version is in the ring, it is the key that *)
(* sealed the row, and the row is the one it was sealed for.           *)
Decrypts(r, p) ==
    /\ profile[p].version \in Ring(r).keys
    /\ profile[p].sealed = profile[p].version /\ profile[p].bound = p

NeedsRotation(r, p) == profile[p].version # Ring(r).primary

Rotated(r, p) == IF NeedsRotation(r, p) THEN Sealed(r, p, profile[p].payload) ELSE profile[p]

(* load, in one transaction with the row locked: the host is checked before *)
(* anything is decrypted.                                                   *)
LoadProfile(r, p, host) ==
    /\ profile[p] # NoProfile
    /\ IF HostAllowed(host, AllowPatterns) /\ Decrypts(r, p)
       THEN /\ profile' = [profile EXCEPT ![p] = Rotated(r, p)]
            /\ loaded' = [loaded EXCEPT ![r] = [profile |-> p, host |-> host,
                                                payload |-> profile[p].payload, failed |-> FALSE]]
       ELSE /\ loaded' = [loaded EXCEPT ![r] = [Nothing EXCEPT !.failed = TRUE]]
            /\ UNCHANGED profile
    /\ UNCHANGED <<stage, deletes>>

DeleteProfile(p) ==
    /\ profile[p] # NoProfile /\ deletes < MaxDeletes
    /\ profile' = [profile EXCEPT ![p] = NoProfile]
    /\ deletes' = deletes + 1
    /\ UNCHANGED <<stage, loaded>>

(* The operator restarts one process with the next ring. *)
RollOut(r) ==
    /\ stage[r] < Len(Rings)
    /\ \A other \in Readers : stage[other] >= stage[r]
    /\ stage' = [stage EXCEPT ![r] = @ + 1]
    /\ loaded' = [loaded EXCEPT ![r] = Nothing]
    /\ UNCHANGED <<profile, deletes>>

Payloads == {1, 2}

ProfilesNext ==
    \/ \E r \in Readers, p \in ProfileIds :
        \/ \E payload \in Payloads : CreateProfile(r, p, payload)
        \/ \E host \in SiteHosts : LoadProfile(r, p, host)
    \/ \E p \in ProfileIds : DeleteProfile(p)
    \/ \E r \in Readers : RollOut(r)

-------------------------------------------------------------------------------
(* Properties *)

(* Every process runs a ring that was deployed. *)
ProfilesTypeOK ==
    /\ stage \in [Readers -> DOMAIN Rings]
    /\ \A p \in ProfileIds : profile[p].payload \in 0 .. 2

Newest(r) == \A other \in Readers : stage[other] <= stage[r]

(* Whatever mix of old and new processes has read and sealed a profile, a   *)
(* process with the newest ring can still read it.                          *)
NewestReadsAll ==
    \A r \in Readers, p \in ProfileIds : profile[p] # NoProfile /\ Newest(r) => Decrypts(r, p)

(* A profile is handed out for a host below an allowed domain only: not for *)
(* the parent of a wildcard, nor for a name that merely ends alike.         *)
OnlyAllowedHosts ==
    \A r \in Readers : loaded[r].host # <<>> =>
        \E q \in AllowPatterns :
            LET n == Len(loaded[r].host) - Len(q.labels)
            IN /\ n >= 0 /\ (q.wildcard <=> n > 0)
               /\ \A i \in DOMAIN q.labels : loaded[r].host[i + n] = q.labels[i]
===============================================================================
