----------------------------- MODULE ApiProofs ------------------------------
(***************************************************************************)
(* The invariants of the API process for every value of the constants.     *)
(* The parts share no variable, so each is proved of its own next-state    *)
(* relation and carried to ApiSpec by a lemma that a step of the process   *)
(* is a step of the part or leaves it alone.  The first lemmas are about   *)
(* data: induction over the naturals in the form of sets, the values of a  *)
(* loop, and what SetToSeq makes of a finite set.                          *)
(***************************************************************************)
EXTENDS ApiProcess, FiniteSetTheorems, SequenceTheorems, WellFoundedInduction, TLAPS

\* The naturals are the least set with 0 that is closed under successor.
LEMMA NatSetInduction ==
  ASSUME NEW S \in SUBSET Nat, 0 \in S, \A n \in S : n + 1 \in S
  PROVE  S = Nat
<1> DEFINE R == OpToRel(<, Nat)
<1>1. IsWellFoundedOn(R, Nat)
  BY NatLessThanWellFounded
<1>2. \A x, y \in Nat : x < y => <<x, y>> \in R
  BY DEF OpToRel
<1> HIDE DEF R
<1>3. SUFFICES ASSUME Nat \ S # {} PROVE FALSE
  OBVIOUS
<1>4. PICK x \in Nat \ S : \A y \in Nat \ S : ~(<<y, x>> \in R)
  BY <1>1, <1>3, WFMin
<1>5. x # 0 /\ x - 1 \in Nat /\ x - 1 < x
  OBVIOUS
<1>6. x - 1 \in S
  BY <1>2, <1>4, <1>5
<1> QED BY <1>4, <1>5, <1>6

\* A set of naturals has a least element.
LEMMA LeastNatural ==
  ASSUME NEW S \in SUBSET Nat, S # {}
  PROVE  \E n \in S : \A k \in S : n <= k
<1> DEFINE R == OpToRel(<, Nat)
<1>1. IsWellFoundedOn(R, Nat)
  BY NatLessThanWellFounded
<1>2. \A x, y \in Nat : x < y => <<x, y>> \in R
  BY DEF OpToRel
<1> HIDE DEF R
<1>3. S \subseteq Nat /\ S # {}
  OBVIOUS
<1>4. PICK n \in S : \A k \in S : ~(<<k, n>> \in R)
  BY <1>1, <1>3, WFMin
<1>5. ASSUME NEW k \in S PROVE n <= k
  <2>1. k \in Nat /\ n \in Nat
    BY <1>3
  <2>2. ~(k < n)
    BY <1>2, <1>4, <2>1
  <2> QED BY <2>1, <2>2
<1> QED BY <1>5

\* A loop of N rounds, whose body is the function G, has a value in every round.
Loop(f, T, base, G, N) ==
    f \in [0 .. N -> T] /\ f[0] = base /\ \A n \in 0 .. N : n # 0 => f[n] = G[n][f[n - 1]]

LEMMA LoopExists ==
  ASSUME NEW T, NEW base \in T, NEW G \in [Nat -> [T -> T]], NEW N \in Nat
  PROVE  \E f : Loop(f, T, base, G, N)
<1> DEFINE Ok(m, f) == f[0] = base /\ \A n \in 0 .. m : n # 0 => f[n] = G[n][f[n - 1]]
           S == {m \in Nat : \E f \in [0 .. m -> T] : Ok(m, f)}
<1>1. 0 \in S
  <2>1. [n \in 0 .. 0 |-> base] \in [0 .. 0 -> T] /\ Ok(0, [n \in 0 .. 0 |-> base])
    OBVIOUS
  <2> QED BY <2>1
<1>2. ASSUME NEW m \in S PROVE m + 1 \in S
  <2>0. m \in Nat /\ m \in 0 .. m /\ m + 1 \in 0 .. m + 1 /\ m # m + 1
    OBVIOUS
  <2>1. PICK f \in [0 .. m -> T] : Ok(m, f)
    OBVIOUS
  <2> DEFINE g == [n \in 0 .. m + 1 |-> IF n = m + 1 THEN G[m + 1][f[m]] ELSE f[n]]
  <2>2. g \in [0 .. m + 1 -> T]
    OBVIOUS
  <2>3. \A n \in 0 .. m : g[n] = f[n]
    OBVIOUS
  <2>4. g[m + 1] = G[m + 1][g[m]]
    <3>1. g[m + 1] = G[m + 1][f[m]]
      BY <2>0
    <3>2. g[m] = f[m]
      BY <2>0, <2>3
    <3> QED BY <3>1, <3>2
  <2>5. ASSUME NEW n \in 0 .. m + 1, n # 0 PROVE g[n] = G[n][g[n - 1]]
    <3>1. CASE n = m + 1
      BY <2>4, <3>1
    <3>2. CASE n \in 0 .. m
      <4>1. g[n] = f[n] /\ g[n - 1] = f[n - 1]
        BY <2>3, <2>5, <3>2
      <4> QED BY <2>1, <2>5, <3>2, <4>1
    <3> QED BY <3>1, <3>2
  <2>6. g[0] = base
    BY <2>1, <2>3
  <2> HIDE DEF g
  <2>7. Ok(m + 1, g)
    BY <2>5, <2>6
  <2>8. m + 1 \in Nat
    BY <2>0
  <2> HIDE DEF Ok
  <2> QED BY <2>2, <2>7, <2>8
<1> HIDE DEF S
<1>3. S = Nat
  BY <1>1, <1>2, NatSetInduction DEF S
<1> QED BY <1>3 DEF S, Loop

\* What SetToSeq makes of a finite set.
LEMMA SetToSeqFacts ==
  ASSUME NEW S, IsFiniteSet(S)
  PROVE  /\ SetToSeq(S) \in Seq(S) /\ IsInjective(SetToSeq(S))
         /\ Len(SetToSeq(S)) = Cardinality(S)
         /\ ToSet(SetToSeq(S)) = S
<1>1. Cardinality(S) \in Nat /\ \E f : f \in Bijection(1 .. Cardinality(S), S)
  BY FS_CardinalityType DEF ExistsBijection
<1>2. PICK f \in [1 .. Cardinality(S) -> S] : IsInjective(f)
  BY <1>1 DEF Bijection, Injection, IsInjective
<1>3. SetToSeq(S) \in [1 .. Cardinality(S) -> S] /\ IsInjective(SetToSeq(S))
  BY <1>2 DEF SetToSeq
<1>4. SetToSeq(S) \in Seq(S) /\ Len(SetToSeq(S)) = Cardinality(S) /\ DOMAIN SetToSeq(S) = 1 .. Cardinality(S)
  BY <1>1, <1>3
<1>5. ToSet(SetToSeq(S)) = S
  <2> DEFINE g == SetToSeq(S)
  <2>1. g \in Injection(1 .. Cardinality(S), S)
    BY <1>3 DEF Injection, IsInjective
  <2>2. IsFiniteSet(1 .. Cardinality(S)) /\ Cardinality(1 .. Cardinality(S)) = Cardinality(S)
    BY <1>1, FS_Interval
  <2>3. g \in Surjection(1 .. Cardinality(S), S)
    BY <2>1, <2>2, FS_Injection
  <2> QED BY <1>4, <2>3 DEF Surjection, ToSet
<1> QED BY <1>3, <1>4, <1>5

-----------------------------------------------------------------------------
(* Scheduled and batch runs (ScrapeRuns).                                    *)

Statuses == ActiveStatus \cup {"completed", "failed", "cancelled"}
RunRows == [def : Defs \cup {Adhoc}, trigger : {"schedule", "manual", "batch"}, status : Statuses,
            pages : Nat]
TaskRows == [at : {"none", "durable", "start", "scrape", "gather", "page", "finish"},
             left : SUBSET (Defs \cup BatchUrls), good : Nat, bad : Nat]

(* The tables of the runs, with their types.                                 *)
RunsTyped ==
    /\ due \subseteq Scheduled /\ claimed \in Seq(Defs)
    /\ runs \in Seq(RunRows) /\ tasks \in Seq(TaskRows) /\ Len(runs) = Len(tasks)
    /\ events \in Seq([run : Nat, status : Statuses])

(* While a task executes a run, the row of the run is active: the overlap    *)
(* guard sees it.                                                            *)
ExecutingIsActive == \A i \in DOMAIN runs : tasks[i].at # "none" => runs[i].status \in ActiveStatus

(* What the scheduler has claimed and not launched yet is executed by no     *)
(* scheduled run, and is claimed once.                                       *)
ClaimedIsFree ==
    /\ IsInjective(claimed)
    /\ \A k \in DOMAIN claimed, i \in DOMAIN runs :
          runs[i].trigger = "schedule" /\ runs[i].def = claimed[k] => tasks[i].at = "none"

(* A run that was reported is over.                                          *)
ReportedIsOver == \A k \in DOMAIN events : events[k].run \in DOMAIN runs /\ tasks[events[k].run].at = "none"

RunsRight ==
    /\ RunsTyped /\ ExecutingIsActive /\ ClaimedIsFree /\ ReportedIsOver
    /\ NoScheduledOverlap /\ EventsTellTheTruth

LEMMA RunsStart == RunsInit => RunsRight
BY DEF RunsInit, RunsRight, RunsTyped, ExecutingIsActive, ClaimedIsFree, ReportedIsOver,
       NoScheduledOverlap, EventsTellTheTruth, IsInjective

LEMMA RunsDomains ==
  ASSUME RunsRight
  PROVE  /\ DOMAIN runs = 1 .. Len(runs) /\ DOMAIN tasks = 1 .. Len(runs) /\ Len(runs) \in Nat
         /\ DOMAIN claimed = 1 .. Len(claimed) /\ Len(claimed) \in Nat
         /\ DOMAIN events = 1 .. Len(events) /\ Len(events) \in Nat
         /\ \A i \in DOMAIN runs : runs[i] \in RunRows /\ tasks[i] \in TaskRows
BY DEF RunsRight, RunsTyped

\* A new row and its task, which no scheduled run of its definition executes.
LEMMA NewRunRight ==
  ASSUME RunsRight, NEW row \in RunRows, NEW task \in TaskRows, NewRunRow(row, task),
         row.status \in ActiveStatus, UNCHANGED events, due' \subseteq Scheduled,
         claimed' \in Seq(Defs), IsInjective(claimed'),
         \A k \in DOMAIN claimed' : \E l \in DOMAIN claimed : claimed[l] = claimed'[k],
         row.trigger = "schedule" =>
            /\ \A k \in DOMAIN claimed' : claimed'[k] # row.def
            /\ \E k \in DOMAIN claimed : claimed[k] = row.def
  PROVE  RunsRight'
<1> DEFINE n == Len(runs) + 1
<1>0. /\ DOMAIN runs = 1 .. Len(runs) /\ DOMAIN tasks = 1 .. Len(runs) /\ Len(runs) \in Nat
  BY RunsDomains
<1>1. /\ runs' \in Seq(RunRows) /\ Len(runs') = n /\ DOMAIN runs' = 1 .. n
      /\ tasks' \in Seq(TaskRows) /\ Len(tasks') = n
      /\ runs'[n] = row /\ tasks'[n] = task
      /\ \A i \in DOMAIN runs : runs'[i] = runs[i] /\ tasks'[i] = tasks[i]
  <2>1. runs' = Append(runs, row) /\ tasks' = Append(tasks, task)
    BY DEF NewRunRow
  <2>2. runs \in Seq(RunRows) /\ tasks \in Seq(TaskRows) /\ Len(runs) = Len(tasks)
    BY DEF RunsRight, RunsTyped
  <2> QED BY <2>1, <2>2, <1>0
<1>2. \A i \in DOMAIN runs' : i = n \/ i \in DOMAIN runs
  BY <1>0, <1>1
<1> HIDE DEF n
<1>3. RunsTyped'
  BY <1>1 DEF RunsRight, RunsTyped
<1>4. ExecutingIsActive'
  BY <1>1, <1>2 DEF RunsRight, ExecutingIsActive
<1>5. ClaimedIsFree'
  <2>1. ASSUME NEW k \in DOMAIN claimed', NEW i \in DOMAIN runs',
               runs'[i].trigger = "schedule", runs'[i].def = claimed'[k]
        PROVE  tasks'[i].at = "none"
    <3>1. i \in DOMAIN runs
      BY <1>1, <1>2, <2>1
    <3>2. PICK l \in DOMAIN claimed : claimed[l] = claimed'[k]
      OBVIOUS
    <3> QED BY <1>1, <2>1, <3>1, <3>2 DEF RunsRight, ClaimedIsFree
  <2> QED BY <2>1 DEF ClaimedIsFree
<1>6. ReportedIsOver'
  <2>1. DOMAIN runs \subseteq DOMAIN runs'
    BY <1>0, <1>1 DEF n
  <2> QED BY <1>1, <2>1 DEF RunsRight, ReportedIsOver
<1>7. NoScheduledOverlap'
  <2>1. ASSUME NEW i \in DOMAIN runs, row.trigger = "schedule", runs[i].trigger = "schedule",
               runs[i].def = row.def
        PROVE  tasks[i].at = "none"
    BY <2>1 DEF RunsRight, ClaimedIsFree
  <2> QED BY <1>1, <1>2, <2>1 DEF RunsRight, NoScheduledOverlap, Executing
<1>8. EventsTellTheTruth'
  BY <1>1 DEF RunsRight, EventsTellTheTruth, ReportedIsOver
<1> QED BY <1>3, <1>4, <1>5, <1>6, <1>7, <1>8 DEF RunsRight

\* The task of a run goes on; the row keeps its definition and trigger, and an
\* event is about a task that ends.
LEMMA TaskRight ==
  ASSUME RunsRight, NEW i \in DOMAIN tasks, tasks[i].at # "none",
         NEW x \in TaskRows, NEW y \in RunRows,
         y.def = runs[i].def, y.trigger = runs[i].trigger,
         x.at # "none" => y.status \in ActiveStatus,
         tasks' = [tasks EXCEPT ![i] = x], runs' = [runs EXCEPT ![i] = y],
         UNCHANGED <<due, claimed>>,
         \/ UNCHANGED events
         \/ events' = Append(events, [run |-> i, status |-> y.status]) /\ x.at = "none"
  PROVE  RunsRight'
<1>0. /\ DOMAIN runs = 1 .. Len(runs) /\ DOMAIN tasks = 1 .. Len(runs) /\ Len(runs) \in Nat
      /\ DOMAIN events = 1 .. Len(events) /\ Len(events) \in Nat
      /\ i \in DOMAIN runs /\ i \in Nat
  BY RunsDomains
<1>1. /\ runs' \in Seq(RunRows) /\ Len(runs') = Len(runs) /\ DOMAIN runs' = DOMAIN runs
      /\ tasks' \in Seq(TaskRows) /\ Len(tasks') = Len(runs)
      /\ runs'[i] = y /\ tasks'[i] = x
      /\ \A h \in DOMAIN runs : h # i => runs'[h] = runs[h] /\ tasks'[h] = tasks[h]
  <2>1. runs \in Seq(RunRows) /\ tasks \in Seq(TaskRows) /\ Len(runs) = Len(tasks)
    BY DEF RunsRight, RunsTyped
  <2> QED BY <2>1, <1>0
<1>2. /\ \A h \in DOMAIN runs : runs'[h].def = runs[h].def /\ runs'[h].trigger = runs[h].trigger
      /\ \A h \in DOMAIN runs : tasks[h].at = "none" => runs'[h] = runs[h] /\ tasks'[h] = tasks[h]
  BY <1>1
<1>3. \A k \in DOMAIN events : events[k].run \in DOMAIN runs /\ events[k].run # i
  BY DEF RunsRight, ReportedIsOver
<1>4. RunsTyped' /\ ReportedIsOver' /\ EventsTellTheTruth'
  <2>1. CASE UNCHANGED events
    BY <1>1, <1>2, <2>1 DEF RunsRight, RunsTyped, ReportedIsOver, EventsTellTheTruth
  <2>2. CASE events' = Append(events, [run |-> i, status |-> y.status]) /\ x.at = "none"
    <3> DEFINE m == Len(events) + 1
    <3>1. [run |-> i, status |-> y.status] \in [run : Nat, status : Statuses]
      BY <1>0 DEF RunRows
    <3>2. events \in Seq([run : Nat, status : Statuses])
      BY DEF RunsRight, RunsTyped
    <3>3. /\ events' \in Seq([run : Nat, status : Statuses]) /\ DOMAIN events' = 1 .. m
          /\ events'[m].run = i /\ events'[m].status = y.status
          /\ \A k \in DOMAIN events : events'[k] = events[k]
          /\ \A k \in DOMAIN events' : k = m \/ k \in DOMAIN events
      BY <1>0, <2>2, <3>1, <3>2
    <3> HIDE DEF m
    <3>4. RunsTyped'
      BY <1>1, <3>3 DEF RunsRight, RunsTyped
    <3>5. ReportedIsOver'
      BY <1>0, <1>1, <1>2, <2>2, <3>3 DEF RunsRight, ReportedIsOver
    <3>6. EventsTellTheTruth'
      BY <1>1, <1>3, <3>3 DEF RunsRight, EventsTellTheTruth
    <3> QED BY <3>4, <3>5, <3>6
  <2> QED BY <2>1, <2>2
<1>5. ExecutingIsActive'
  BY <1>1 DEF RunsRight, ExecutingIsActive
<1>6. ClaimedIsFree' /\ NoScheduledOverlap'
  <2>1. \A h \in DOMAIN runs : tasks'[h].at # "none" => tasks[h].at # "none"
    BY <1>2
  <2> QED BY <1>1, <1>2, <2>1 DEF RunsRight, ClaimedIsFree, NoScheduledOverlap, Executing
<1> QED BY <1>4, <1>5, <1>6 DEF RunsRight

\* The claims of the scheduler: definitions without an active run, once each.
LEMMA ClaimRight ==
  ASSUME RunsRight, NEW some \in SUBSET {d \in due : ~HasActiveRun(d)},
         claimed' = SetToSeq(some), due' \subseteq Scheduled, UNCHANGED <<runs, tasks, events>>
  PROVE  RunsRight'
<1>1. some \subseteq Defs /\ IsFiniteSet(some)
  BY RunsAssumption, FS_Subset DEF RunsRight, RunsTyped
<1>2. /\ claimed' \in Seq(some) /\ IsInjective(claimed')
  BY <1>1, SetToSeqFacts
<1>3. \A k \in DOMAIN claimed' : claimed'[k] \in some
  BY <1>2
<1>4. ASSUME NEW k \in DOMAIN claimed', NEW i \in DOMAIN runs, runs[i].def = claimed'[k]
      PROVE  tasks[i].at = "none"
  <2>1. runs[i].status \notin ActiveStatus
    BY <1>3, <1>4 DEF HasActiveRun
  <2> QED BY <2>1 DEF RunsRight, ExecutingIsActive
<1>5. claimed' \in Seq(Defs)
  BY <1>1, <1>2, SeqMonotonic
<1> QED BY <1>2, <1>4, <1>5
        DEF RunsRight, RunsTyped, ExecutingIsActive, ClaimedIsFree, ReportedIsOver,
            NoScheduledOverlap, EventsTellTheTruth, Executing

\* A shorter list of claims: its head was taken, or the process restarted.
LEMMA TailOfClaims ==
  ASSUME RunsRight, claimed # <<>>
  PROVE  /\ Tail(claimed) \in Seq(Defs) /\ IsInjective(Tail(claimed))
         /\ \A k \in DOMAIN Tail(claimed) : \E l \in DOMAIN claimed : claimed[l] = Tail(claimed)[k]
         /\ \A k \in DOMAIN Tail(claimed) : Tail(claimed)[k] # Head(claimed)
         /\ \E k \in DOMAIN claimed : claimed[k] = Head(claimed)
         /\ Head(claimed) \in Defs
<1>1. claimed \in Seq(Defs) /\ IsInjective(claimed)
  BY DEF RunsRight, RunsTyped, ClaimedIsFree
<1>2. /\ Tail(claimed) \in Seq(Defs) /\ Head(claimed) \in Defs /\ Head(claimed) = claimed[1]
      /\ DOMAIN claimed = 1 .. Len(claimed) /\ Len(claimed) \in Nat /\ Len(claimed) >= 1
      /\ DOMAIN Tail(claimed) = 1 .. Len(claimed) - 1
      /\ \A k \in DOMAIN Tail(claimed) : Tail(claimed)[k] = claimed[k + 1] /\ k + 1 \in DOMAIN claimed /\ k \in Nat
  BY <1>1
<1>3. 1 \in DOMAIN claimed /\ \A k \in DOMAIN Tail(claimed) : k + 1 # 1
  BY <1>2
<1> QED BY <1>1, <1>2, <1>3 DEF IsInjective

LEMMA FewerClaims ==
  ASSUME RunsRight, claimed' \in Seq(Defs), IsInjective(claimed'),
         \A k \in DOMAIN claimed' : \E l \in DOMAIN claimed : claimed[l] = claimed'[k],
         due' \subseteq Scheduled, UNCHANGED <<runs, tasks, events>>
  PROVE  RunsRight'
BY DEF RunsRight, RunsTyped, ExecutingIsActive, ClaimedIsFree, ReportedIsOver,
       NoScheduledOverlap, EventsTellTheTruth, Executing

LEMMA TaskUpdates ==
  ASSUME NEW x \in TaskRows
  PROVE  /\ [x EXCEPT !.at = "scrape"] \in TaskRows /\ [x EXCEPT !.at = "finish"] \in TaskRows
         /\ [x EXCEPT !.at = "page"] \in TaskRows
         /\ [x EXCEPT !.at = "finish", !.bad = 1, !.left = {}] \in TaskRows
         /\ [x EXCEPT !.at = "page", !.good = 1, !.left = {}] \in TaskRows
BY DEF TaskRows

LEMMA BatchTask ==
  ASSUME NEW x \in TaskRows, NEW u, NEW g \in {0, 1}
  PROVE  [x EXCEPT !.left = @ \ {u}, !.good = @ + g, !.bad = @ + (1 - g)] \in TaskRows
<1>1. x.good + g \in Nat /\ x.bad + (1 - g) \in Nat /\ x.left \ {u} \in SUBSET (Defs \cup BatchUrls)
  BY DEF TaskRows
<1> QED BY <1>1 DEF TaskRows

LEMMA RowKinds ==
  /\ \A d \in Defs : \A t \in {"schedule", "manual"} : Row(d, t, "pending") \in RunRows
  /\ \A t \in {"manual", "batch"} : Row(Adhoc, t, "processing") \in RunRows
  /\ \A d \in Defs : Task("start", {d}) \in TaskRows
  /\ \A at \in {"durable", "page"} : Task(at, {}) \in TaskRows
  /\ [Task("page", {}) EXCEPT !.good = 1] \in TaskRows
  /\ Task("gather", BatchUrls) \in TaskRows
  /\ NoTask \in TaskRows
<1>1. NoTask \in TaskRows
  BY DEF NoTask, TaskRows
<1>2. ASSUME NEW at \in {"durable", "page", "gather", "start"}, NEW S \in SUBSET (Defs \cup BatchUrls)
      PROVE  Task(at, S) \in TaskRows
  BY <1>1 DEF Task, TaskRows
<1>3. [Task("page", {}) EXCEPT !.good = 1] \in TaskRows
  BY <1>2 DEF TaskRows
<1>4. ASSUME NEW d \in Defs \cup {Adhoc}, NEW t \in {"schedule", "manual", "batch"}, NEW s \in ActiveStatus
      PROVE  Row(d, t, s) \in RunRows
  BY DEF Row, RunRows, Statuses
<1> QED BY <1>1, <1>2, <1>3, <1>4 DEF ActiveStatus

LEMMA LaunchRight ==
  ASSUME RunsRight, NEW d \in Defs, NEW t \in {"schedule", "manual"}, LaunchJob(d, t),
         due' \subseteq Scheduled,
         claimed' \in Seq(Defs), IsInjective(claimed'),
         \A k \in DOMAIN claimed' : \E l \in DOMAIN claimed : claimed[l] = claimed'[k],
         t = "schedule" =>
            /\ \A k \in DOMAIN claimed' : claimed'[k] # d
            /\ \E k \in DOMAIN claimed : claimed[k] = d
  PROVE  RunsRight'
<1>1. PICK task \in TaskRows : NewRunRow(Row(d, t, "pending"), task)
  BY RowKinds DEF LaunchJob
<1>2. /\ Row(d, t, "pending") \in RunRows /\ Row(d, t, "pending").status \in ActiveStatus
      /\ Row(d, t, "pending").def = d /\ Row(d, t, "pending").trigger = t
  BY RowKinds DEF Row, ActiveStatus
<1>3. UNCHANGED events
  BY DEF LaunchJob
<1> QED BY <1>1, <1>2, <1>3, NewRunRight

LEMMA TaskStepRight ==
  ASSUME RunsRight, NEW i \in DOMAIN tasks, TaskStep(i)
  PROVE  RunsRight'
<1>0. /\ runs[i] \in RunRows /\ tasks[i] \in TaskRows /\ NoTask \in TaskRows /\ NoTask.at = "none"
      /\ runs \in Seq(RunRows) /\ i \in DOMAIN runs
      /\ tasks[i].at # "none" => runs[i].status \in ActiveStatus
      /\ runs = [runs EXCEPT ![i] = runs[i]]
  BY RunsDomains, RowKinds DEF NoTask, RunsRight, RunsTyped, ExecutingIsActive
<1>1. CASE MarkProcessing(i)
  <2>1. PICK s \in {runs[i].status, "processing"} : runs' = [runs EXCEPT ![i] = [runs[i] EXCEPT !.status = s]]
    BY <1>0, <1>1 DEF MarkProcessing, RunRows
  <2> DEFINE y == [runs[i] EXCEPT !.status = s]
             x == [tasks[i] EXCEPT !.at = "scrape"]
  <2>2. tasks[i].at # "none" /\ tasks' = [tasks EXCEPT ![i] = x] /\ UNCHANGED <<due, claimed, events>>
    BY <1>1 DEF MarkProcessing, Advance
  <2>3. y \in RunRows /\ y.def = runs[i].def /\ y.trigger = runs[i].trigger /\ y.status \in ActiveStatus
    BY <1>0, <2>2 DEF RunRows, Statuses, ActiveStatus
  <2>4. x \in TaskRows
    BY <1>0, TaskUpdates
  <2> HIDE DEF x, y
  <2> QED BY <2>1, <2>2, <2>3, <2>4, TaskRight DEF y
<1>2. ASSUME NEW x \in TaskRows, tasks[i].at # "none", Advance(i, x), UNCHANGED <<runs, events>>
      PROVE  RunsRight'
  <2>1. tasks' = [tasks EXCEPT ![i] = x] /\ runs' = [runs EXCEPT ![i] = runs[i]] /\ UNCHANGED <<due, claimed>>
    BY <1>0, <1>2 DEF Advance
  <2> QED BY <1>0, <1>2, <2>1, TaskRight
<1>3. CASE ExecuteScrape(i)
  BY <1>0, <1>2, <1>3, TaskUpdates DEF ExecuteScrape
<1>4. CASE RecordPages(i)
  BY <1>0, <1>2, <1>4, TaskUpdates DEF RecordPages
<1>5. ASSUME NEW u \in BatchUrls, BatchOne(i, u)
      PROVE  RunsRight'
  <2>1. PICK g \in {0, 1} :
          LET task == [tasks[i] EXCEPT !.left = @ \ {u}, !.good = @ + g, !.bad = @ + (1 - g)]
          IN  Advance(i, IF task.left = {} THEN [task EXCEPT !.at = "page"] ELSE task)
    BY <1>5 DEF BatchOne
  <2> DEFINE task == [tasks[i] EXCEPT !.left = @ \ {u}, !.good = @ + g, !.bad = @ + (1 - g)]
  <2>2. task \in TaskRows
    BY <1>0, BatchTask
  <2>3. (IF task.left = {} THEN [task EXCEPT !.at = "page"] ELSE task) \in TaskRows
    BY <2>2, TaskUpdates
  <2>4. tasks[i].at # "none" /\ UNCHANGED <<runs, events>>
    BY <1>5 DEF BatchOne
  <2> QED BY <1>2, <2>1, <2>3, <2>4
<1>6. CASE RecordRunFinish(i)
  <2>1. tasks[i].at # "none" /\ Advance(i, NoTask)
    BY <1>6 DEF RecordRunFinish
  <2>2. CASE UNCHANGED <<runs, events>>
    BY <1>0, <1>2, <2>1, <2>2
  <2>3. CASE /\ runs' = [runs EXCEPT ![i].status = Verdict(i), ![i].pages = tasks[i].good]
             /\ MaybeSent(i)
    <3> DEFINE y == [runs[i] EXCEPT !.status = Verdict(i), !.pages = tasks[i].good]
    <3>1. runs' = [runs EXCEPT ![i] = y]
      BY <1>0, <2>3
    <3>2. Verdict(i) \in Statuses
      BY DEF Verdict, Statuses
    <3>3. /\ y \in RunRows /\ y.def = runs[i].def /\ y.trigger = runs[i].trigger /\ y.status = Verdict(i)
      BY <1>0, <3>2 DEF RunRows, TaskRows
    <3>4. tasks' = [tasks EXCEPT ![i] = NoTask] /\ UNCHANGED <<due, claimed>>
      BY <2>1 DEF Advance
    <3>5. UNCHANGED events \/ events' = Append(events, [run |-> i, status |-> y.status])
      BY <2>3, <3>3 DEF MaybeSent
    <3> HIDE DEF y
    <3> QED BY <1>0, <2>1, <3>1, <3>3, <3>4, <3>5, TaskRight
  <2> QED BY <1>6, <2>2, <2>3 DEF RecordRunFinish
<1>7. CASE DurableFinish(i)
  <2>1. PICK s \in {"completed", "failed", "cancelled"} : runs' = [runs EXCEPT ![i].status = s]
    BY <1>7 DEF DurableFinish
  <2> DEFINE y == [runs[i] EXCEPT !.status = s]
  <2>2. runs' = [runs EXCEPT ![i] = y]
    BY <1>0, <2>1
  <2>3. y \in RunRows /\ y.def = runs[i].def /\ y.trigger = runs[i].trigger
    BY <1>0 DEF RunRows, Statuses
  <2>4. tasks[i].at # "none" /\ tasks' = [tasks EXCEPT ![i] = NoTask] /\ UNCHANGED <<due, claimed, events>>
    BY <1>7 DEF DurableFinish, Advance
  <2> HIDE DEF y
  <2> QED BY <1>0, <2>2, <2>3, <2>4, TaskRight
<1> QED BY <1>1, <1>3, <1>4, <1>5, <1>6, <1>7 DEF TaskStep

LEMMA RebootRight ==
  ASSUME RunsRight, Reboot
  PROVE  RunsRight'
<1>1. /\ claimed' = <<>> /\ UNCHANGED <<due, runs, events>>
      /\ tasks' = [i \in DOMAIN tasks |-> IF tasks[i].at = "durable" THEN tasks[i] ELSE NoTask]
  BY DEF Reboot
<1>2. /\ DOMAIN tasks = 1 .. Len(runs) /\ DOMAIN runs = 1 .. Len(runs) /\ Len(runs) \in Nat
      /\ \A i \in DOMAIN tasks : tasks[i] \in TaskRows
      /\ NoTask \in TaskRows /\ NoTask.at = "none"
  BY RunsDomains, RowKinds DEF NoTask
<1>3. tasks' \in Seq(TaskRows) /\ Len(tasks') = Len(runs)
  <2>1. tasks' \in [1 .. Len(runs) -> TaskRows]
    BY <1>1, <1>2
  <2> QED BY <1>2, <2>1
<1>4. \A i \in DOMAIN runs : tasks'[i].at # "none" => tasks'[i] = tasks[i]
  BY <1>1, <1>2
<1>5. /\ DOMAIN runs' = DOMAIN runs /\ DOMAIN events' = DOMAIN events
      /\ \A i \in DOMAIN runs : runs'[i] = runs[i]
      /\ \A i \in DOMAIN runs : tasks[i].at = "none" => tasks'[i].at = "none"
  BY <1>1, <1>4
<1>6. RunsTyped'
  BY <1>1, <1>3 DEF RunsRight, RunsTyped
<1>7. ExecutingIsActive'
  BY <1>4, <1>5 DEF RunsRight, ExecutingIsActive
<1>8. ReportedIsOver' /\ EventsTellTheTruth'
  BY <1>1, <1>5 DEF RunsRight, ReportedIsOver, EventsTellTheTruth
<1>9. ClaimedIsFree'
  BY <1>1 DEF ClaimedIsFree, IsInjective
<1>10. NoScheduledOverlap'
  BY <1>1, <1>4, <1>5 DEF RunsRight, NoScheduledOverlap, Executing
<1> QED BY <1>6, <1>7, <1>8, <1>9, <1>10 DEF RunsRight

LEMMA RunsStep ==
  ASSUME RunsRight, [RunsNext]_svars
  PROVE  RunsRight'
<1>0. /\ due \subseteq Scheduled /\ Scheduled \subseteq Defs /\ claimed \in Seq(Defs)
      /\ IsInjective(claimed)
  BY RunsAssumption DEF RunsRight, RunsTyped, ClaimedIsFree
<1>1. ASSUME NEW d \in Defs, Elapse(d)
      PROVE  RunsRight'
  BY <1>0, <1>1, FewerClaims DEF Elapse
<1>2. ASSUME NEW d \in Defs, RunJobNow(d)
      PROVE  RunsRight'
  BY <1>0, <1>2, LaunchRight DEF RunJobNow
<1>3. CASE ClaimDue
  <2>1. {d \in due : ~HasActiveRun(d)} \in SUBSET {d \in due : ~HasActiveRun(d)}
    OBVIOUS
  <2>2. claimed' = SetToSeq({d \in due : ~HasActiveRun(d)}) /\ due' \subseteq Scheduled
    BY <1>3 DEF ClaimDue
  <2>3. UNCHANGED <<runs, tasks, events>>
    BY <1>3 DEF ClaimDue
  <2> QED BY <2>1, <2>2, <2>3, ClaimRight
<1>4. CASE ClaimRolledBack
  <2>1. PICK some \in SUBSET {d \in due : ~HasActiveRun(d)} : claimed' = SetToSeq(some)
    BY <1>4 DEF ClaimRolledBack
  <2>2. UNCHANGED <<due, runs, tasks, events>>
    BY <1>4 DEF ClaimRolledBack
  <2> QED BY <1>0, <2>1, <2>2, ClaimRight
<1>5. CASE LaunchClaimed
  <2>1. claimed # <<>> /\ claimed' = Tail(claimed) /\ UNCHANGED due
    BY <1>5 DEF LaunchClaimed
  <2>2. CASE LaunchJob(Head(claimed), "schedule")
    BY <1>0, <2>1, <2>2, TailOfClaims, LaunchRight
  <2>3. CASE UNCHANGED <<runs, tasks, events>>
    BY <1>0, <2>1, <2>3, TailOfClaims, FewerClaims
  <2> QED BY <1>5, <2>2, <2>3 DEF LaunchClaimed
<1>6. CASE PersistScrape
  <2> DEFINE y == Row(Adhoc, "manual", "processing")
             x == [Task("page", {}) EXCEPT !.good = 1]
  <2>1. /\ y \in RunRows /\ x \in TaskRows /\ y.status \in ActiveStatus /\ y.trigger # "schedule"
    BY RowKinds DEF Row, ActiveStatus
  <2>2. NewRunRow(y, x) /\ UNCHANGED <<due, claimed, events>>
    BY <1>6 DEF PersistScrape
  <2> HIDE DEF x, y
  <2> QED BY <1>0, <2>1, <2>2, NewRunRight
<1>7. CASE StartBatch
  <2> DEFINE y == Row(Adhoc, "batch", "processing")
             x == Task("gather", BatchUrls)
  <2>1. /\ y \in RunRows /\ x \in TaskRows /\ y.status \in ActiveStatus /\ y.trigger # "schedule"
    BY RowKinds DEF Row, ActiveStatus
  <2>2. NewRunRow(y, x) /\ UNCHANGED <<due, claimed, events>>
    BY <1>7 DEF StartBatch
  <2> HIDE DEF x, y
  <2> QED BY <1>0, <2>1, <2>2, NewRunRight
<1>8. CASE UNCHANGED svars
  BY <1>0, <1>8, FewerClaims DEF svars
<1> QED BY <1>1, <1>2, <1>3, <1>4, <1>5, <1>6, <1>7, <1>8, TaskStepRight, RebootRight
        DEF RunsNext, SchedulerStep

\* A behaviour of the process is, for the runs, one of their own.
LEMMA RunsIsPart == ApiSpec => RunsInit /\ [][RunsNext]_svars
<1>1. ApiInit => RunsInit
  BY DEF ApiInit
<1>2. [ApiNext]_apiVars => [RunsNext]_svars
  BY DEF ApiNext, apiVars, OnlyResearch, OnlyLegacy, OnlyRuns, OnlySignals, OnlyIndex, OnlyRetrieval,
         OnlyChunking, ApiOnly, OnlySite, OnlyCorpus, OnlyRebuild, OnlyData, OnlyLife
<1> QED BY <1>1, <1>2, PTL DEF ApiSpec

\* A definition is never executed twice at once by the scheduler, and an event
\* tells the status its run has for good, for any number of definitions and
\* runs and whatever fails or restarts between the claim and the end
\* (claim_due_jobs, launch_job, _execute, record_run_finish).
THEOREM RunsAreRight == ApiSpec => []RunsInv
<1>1. RunsRight => RunsInv
  BY RunsDomains DEF RunsRight, RunsTyped, RunsInv, RunsTypeOK, RunRows, Statuses
<1> QED BY <1>1, RunsIsPart, RunsStart, RunsStep, PTL

-----------------------------------------------------------------------------
(* Change and duplicate signals (PageSignals).                               *)

(* The shape of the indexes, reports and the history.                        *)
SignalSteps == {"dedup", "nohash", "history", "db", "record", "done", "lost"}
SignalsShape ==
    /\ exact = [mem |-> exact.mem, file |-> exact.file]
    /\ lsh = [mem |-> lsh.mem, file |-> lsh.file]
    /\ history = [mem |-> history.mem, file |-> history.file]
    /\ step \in [Scrapes -> SignalSteps]
    /\ dedup = [s \in Scrapes |-> dedup[s]] /\ change = [s \in Scrapes |-> change[s]]
    /\ registered = [last |-> registered.last, began |-> registered.began, crossed |-> registered.crossed,
                      missed |-> registered.missed, unsure |-> registered.unsure, blind |-> registered.blind]
    /\ registered.began = [s \in Scrapes |-> registered.began[s]]
    /\ torn \in BOOLEAN

(* The history, and the database for a URL the history does not know, hold   *)
(* what was registered last, in the file too, unless that may be gone; a     *)
(* scrape on its way to its comparison, which no other crossed, began with   *)
(* that.                                                                     *)
HistoryIsLast ==
    \A u \in SignalUrls \ registered.unsure :
        /\ Lookup(history.file, u) = Lookup(history.mem, u)
        /\ Lookup(registered.last, u) =
              IF Lookup(history.mem, u) # None THEN Lookup(history.mem, u) ELSE Lookup(pages, u)
OnTheWay ==
    \A s \in Scrapes :
        /\ step[s] \in {"dedup", "history", "db"} => change[s].status = None
        /\ step[s] \in {"history", "db"} /\ s \notin registered.crossed =>
              registered.began[s] = Lookup(registered.last, UrlOf[s])
        /\ step[s] = "db" /\ s \notin registered.crossed => Lookup(history.mem, UrlOf[s]) = None
        /\ step[s] = "record" => Lookup(history.mem, UrlOf[s]) # None

(* The owner of a text is a page that has it; a page with a report has an    *)
(* owner for its text, itself when it is reported as the original.           *)
OwnersIn(index) ==
    \A h \in DOMAIN index :
        \E t \in Scrapes : UrlOf[t] = index[h] /\ TextOf[t] = h /\ step[t] # "dedup"
OwnersAreReal == OwnersIn(exact.mem) /\ OwnersIn(exact.file)
CheckedHasOwner ==
    ~torn => \A s \in Scrapes : dedup[s].hashed =>
        /\ TextOf[s] \in DOMAIN exact.mem
        /\ dedup[s].exact = None => exact.mem[TextOf[s]] = UrlOf[s]

SignalsRight ==
    /\ SignalsShape /\ HistoryIsLast /\ OnTheWay /\ OwnersAreReal /\ CheckedHasOwner
    /\ ComparedWithPrevious /\ DuplicateIsReal /\ IndexesAgree

LEMMA LookupWith ==
  ASSUME NEW index, NEW k, NEW v, NEW x
  PROVE  /\ Lookup(With(index, k, v), x) = IF x = k THEN v ELSE Lookup(index, x)
         /\ DOMAIN With(index, k, v) = DOMAIN index \cup {k}
         /\ x \in DOMAIN index => With(index, k, v)[x] = IF x = k THEN v ELSE index[x]
         /\ With(index, k, v)[k] = v
BY DEF Lookup, With

LEMMA NamesAreReal ==
  ASSUME NEW s \in Scrapes
  PROVE  UrlOf[s] \in SignalUrls /\ TextOf[s] \in Texts /\ UrlOf[s] # None /\ TextOf[s] # None
BY SignalAssumption DEF SignalUrls, Texts

LEMMA SignalsStart == SignalsInit => SignalsRight
<1> SUFFICES ASSUME SignalsInit PROVE SignalsRight
  OBVIOUS
<1>1. SignalsShape
  BY DEF SignalsInit, SignalsShape, SignalSteps
<1>2. HistoryIsLast
  BY DEF SignalsInit, HistoryIsLast, Lookup, Empty
<1>3. OnTheWay
  BY DEF SignalsInit, OnTheWay, NoReport
<1>4. OwnersAreReal /\ IndexesAgree
  BY DEF SignalsInit, OwnersAreReal, OwnersIn, IndexesAgree, Empty
<1>5. CheckedHasOwner /\ ComparedWithPrevious /\ DuplicateIsReal
  BY DEF SignalsInit, CheckedHasOwner, ComparedWithPrevious, DuplicateIsReal, NoReport, NoDedup
<1> QED BY <1>1, <1>2, <1>3, <1>4, <1>5 DEF SignalsRight

\* What the exact index of a scrape adds: an owner for its text.
LEMMA ExactIndexFacts ==
  ASSUME SignalsRight, NEW s \in Scrapes
  PROVE  /\ DOMAIN ExactIndex(s) = DOMAIN exact.mem \cup {TextOf[s]}
         /\ \A h \in DOMAIN exact.mem : ExactIndex(s)[h] = exact.mem[h]
         /\ ExactIndex(s)[TextOf[s]] =
               IF TextOf[s] \in DOMAIN exact.mem THEN exact.mem[TextOf[s]] ELSE UrlOf[s]
<1>1. CASE TextOf[s] \in DOMAIN exact.mem
  <2>1. exact.mem[TextOf[s]] # None
    BY <1>1, NamesAreReal DEF SignalsRight, OwnersAreReal, OwnersIn
  <2> QED BY <1>1, <2>1 DEF ExactIndex, Lookup
<1>2. CASE TextOf[s] \notin DOMAIN exact.mem
  BY <1>2, LookupWith DEF ExactIndex, Lookup
<1> QED BY <1>1, <1>2

LEMMA CheckRight ==
  ASSUME SignalsRight, NEW s \in Scrapes, CheckAndRegister(s)
  PROVE  SignalsRight'
<1> DEFINE owners == ExactIndex(s)
<1>0. SignalsShape /\ UrlOf[s] # None
  BY NamesAreReal DEF SignalsRight
<1>1. PICK near : dedup' = [dedup EXCEPT ![s] = [hashed |-> TRUE, exact |-> DuplicateOf(s), near |-> near]]
  BY DEF CheckAndRegister
<1>2. /\ step[s] = "dedup" /\ exact' = [mem |-> owners, file |-> owners]
      /\ lsh' = [mem |-> With(lsh.mem, UrlOf[s], TextOf[s]), file |-> With(lsh.mem, UrlOf[s], TextOf[s])]
      /\ step' = [step EXCEPT ![s] = "history"]
      /\ registered' = [registered EXCEPT !.began[s] = Lookup(registered.last, UrlOf[s])]
      /\ UNCHANGED <<history, pages, change, torn, reboots>>
  BY DEF CheckAndRegister
<1>3. /\ registered'.last = registered.last /\ registered'.crossed = registered.crossed
      /\ registered'.missed = registered.missed /\ registered'.unsure = registered.unsure
      /\ registered'.blind = registered.blind
      /\ registered'.began = [registered.began EXCEPT ![s] = Lookup(registered.last, UrlOf[s])]
      /\ registered' = [last |-> registered'.last, began |-> registered'.began, crossed |-> registered'.crossed,
                        missed |-> registered'.missed, unsure |-> registered'.unsure, blind |-> registered'.blind]
  BY <1>0, <1>2 DEF SignalsShape
<1>4. /\ step'[s] = "history" /\ \A t \in Scrapes : t # s => step'[t] = step[t]
      /\ dedup'[s].exact = DuplicateOf(s) /\ \A t \in Scrapes : t # s => dedup'[t] = dedup[t]
      /\ registered'.began[s] = Lookup(registered.last, UrlOf[s])
      /\ \A t \in Scrapes : t # s => registered'.began[t] = registered.began[t]
      /\ exact'.mem = owners /\ exact'.file = owners /\ lsh'.mem = With(lsh.mem, UrlOf[s], TextOf[s])
      /\ exact' = [mem |-> exact'.mem, file |-> exact'.file]
      /\ lsh' = [mem |-> lsh'.mem, file |-> lsh'.file]
  BY <1>0, <1>1, <1>2, <1>3 DEF SignalsShape
<1>a. /\ DOMAIN owners = DOMAIN exact.mem \cup {TextOf[s]}
      /\ \A h \in DOMAIN exact.mem : owners[h] = exact.mem[h]
      /\ TextOf[s] \notin DOMAIN exact.mem => owners[TextOf[s]] = UrlOf[s]
  BY ExactIndexFacts
<1> HIDE DEF owners
<1>5. SignalsShape'
  <2>1. /\ step' \in [Scrapes -> SignalSteps]
        /\ dedup' = [t \in Scrapes |-> dedup'[t]] /\ change' = [t \in Scrapes |-> change'[t]]
        /\ registered'.began = [t \in Scrapes |-> registered'.began[t]] /\ torn' \in BOOLEAN
    BY <1>0, <1>1, <1>2, <1>3 DEF SignalsShape, SignalSteps
  <2>2. history' = [mem |-> history'.mem, file |-> history'.file]
    BY <1>0, <1>2 DEF SignalsShape
  <2> QED BY <1>3, <1>4, <2>1, <2>2 DEF SignalsShape
<1>6. HistoryIsLast'
  BY <1>2, <1>3 DEF SignalsRight, HistoryIsLast
<1>7. OnTheWay'
  BY <1>2, <1>3, <1>4 DEF SignalsRight, OnTheWay
<1>8. ComparedWithPrevious'
  <2>1. change[s].status = None
    BY <1>2 DEF SignalsRight, OnTheWay
  <2> QED BY <1>2, <1>3, <1>4, <2>1 DEF SignalsRight, ComparedWithPrevious
<1>9. OwnersAreReal'
  <2>1. ASSUME NEW h \in DOMAIN exact'.mem
        PROVE  \E t \in Scrapes : UrlOf[t] = exact'.mem[h] /\ TextOf[t] = h /\ step'[t] # "dedup"
    <3>1. CASE h \in DOMAIN exact.mem
      <4>1. PICK t \in Scrapes : UrlOf[t] = exact.mem[h] /\ TextOf[t] = h /\ step[t] # "dedup"
        BY <3>1 DEF SignalsRight, OwnersAreReal, OwnersIn
      <4> QED BY <1>2, <1>4, <3>1, <4>1, <1>a
    <3>2. CASE h \notin DOMAIN exact.mem
      <4>1. h = TextOf[s] /\ exact'.mem[h] = UrlOf[s]
        BY <1>4, <2>1, <3>2, <1>a
      <4> QED BY <1>4, <4>1
    <3> QED BY <3>1, <3>2
  <2> QED BY <1>4, <2>1 DEF OwnersAreReal, OwnersIn
<1>10. DuplicateOf(s) = IF TextOf[s] \in DOMAIN exact.mem /\ exact.mem[TextOf[s]] # UrlOf[s]
                        THEN exact.mem[TextOf[s]] ELSE None
  BY <1>0 DEF DuplicateOf, Lookup
<1>11. CheckedHasOwner'
  <2>1. ASSUME ~torn, NEW t \in Scrapes, dedup'[t].hashed
        PROVE  /\ TextOf[t] \in DOMAIN exact'.mem
               /\ dedup'[t].exact = None => exact'.mem[TextOf[t]] = UrlOf[t]
    <3>1. CASE t = s
      <4>1. TextOf[s] \in DOMAIN exact.mem => exact.mem[TextOf[s]] # None
        BY NamesAreReal DEF SignalsRight, OwnersAreReal, OwnersIn
      <4> QED BY <1>4, <1>10, <3>1, <4>1, <1>a
    <3>2. CASE t # s
      BY <1>4, <2>1, <3>2, <1>a DEF SignalsRight, CheckedHasOwner
    <3> QED BY <3>1, <3>2
  <2> QED BY <1>2, <2>1 DEF CheckedHasOwner
<1>12. DuplicateIsReal'
  <2>1. ASSUME NEW t \in Scrapes, dedup'[t].exact # None
        PROVE  \E r \in Scrapes : UrlOf[r] = dedup'[t].exact /\ TextOf[r] = TextOf[t] /\ step'[r] # "dedup"
    <3>1. CASE t = s
      <4>1. PICK r \in Scrapes : UrlOf[r] = exact.mem[TextOf[s]] /\ TextOf[r] = TextOf[s] /\ step[r] # "dedup"
        BY <1>4, <1>10, <2>1, <3>1 DEF SignalsRight, OwnersAreReal, OwnersIn
      <4> QED BY <1>2, <1>4, <1>10, <2>1, <3>1, <4>1
    <3>2. CASE t # s
      <4>1. PICK r \in Scrapes : UrlOf[r] = dedup[t].exact /\ TextOf[r] = TextOf[t] /\ step[r] # "dedup"
        BY <1>4, <2>1, <3>2 DEF SignalsRight, DuplicateIsReal
      <4> QED BY <1>2, <1>4, <3>2, <4>1
    <3> QED BY <3>1, <3>2
  <2> QED BY <2>1 DEF DuplicateIsReal
<1>13. IndexesAgree'
  <2>1. DOMAIN lsh'.mem = DOMAIN lsh.mem \cup {UrlOf[s]}
    BY <1>4 DEF With
  <2>2. ASSUME ~torn, NEW h \in DOMAIN exact'.mem
        PROVE  exact'.mem[h] \in DOMAIN lsh'.mem
    <3>1. h \in DOMAIN exact.mem => exact'.mem[h] = exact.mem[h] /\ exact.mem[h] \in DOMAIN lsh.mem
      BY <1>4, <2>2, <1>a DEF SignalsRight, IndexesAgree
    <3>2. h \notin DOMAIN exact.mem => exact'.mem[h] = UrlOf[s]
      BY <1>4, <2>2, <1>a
    <3> QED BY <2>1, <3>1, <3>2
  <2> QED BY <1>2, <2>2 DEF IndexesAgree
<1> QED BY <1>5, <1>6, <1>7, <1>8, <1>9, <1>11, <1>12, <1>13 DEF SignalsRight

\* The parts of the invariant that are about duplicates, when only the later
\* steps of a scrape move.
LEMMA DedupSame ==
  ASSUME SignalsRight, UNCHANGED <<exact, lsh, dedup, torn>>,
         \A t \in Scrapes : step'[t] = "dedup" <=> step[t] = "dedup"
  PROVE  OwnersAreReal' /\ CheckedHasOwner' /\ DuplicateIsReal' /\ IndexesAgree'
<1>1. OwnersAreReal' /\ DuplicateIsReal'
  BY DEF SignalsRight, OwnersAreReal, OwnersIn, DuplicateIsReal
<1>2. CheckedHasOwner' /\ IndexesAgree'
  BY DEF SignalsRight, CheckedHasOwner, IndexesAgree
<1> QED BY <1>1, <1>2

LEMMA RegisterRight ==
  ASSUME SignalsRight, NEW s \in Scrapes, NEW previous, NEW missed, Register(s, previous, missed),
         step[s] \in {"history", "db"},
         s \notin registered.crossed /\ UrlOf[s] \notin registered.unsure =>
            previous = Lookup(registered.last, UrlOf[s]) \/ (previous = None /\ s \in missed)
  PROVE  SignalsRight'
<1> DEFINE over == Crossing(s)
           dim == IF UrlOf[s] \in registered.unsure THEN {s} ELSE {}
<1>0. SignalsShape /\ TextOf[s] # None
  BY NamesAreReal DEF SignalsRight
<1>1. PICK status : change' = [change EXCEPT ![s] = [prior |-> previous, status |-> status]]
  BY DEF Register
<1>2. /\ history' = [mem |-> With(history.mem, UrlOf[s], TextOf[s]), file |-> With(history.mem, UrlOf[s], TextOf[s])]
      /\ step' = [step EXCEPT ![s] = "record"]
      /\ registered' = [registered EXCEPT !.last = With(@, UrlOf[s], TextOf[s]), !.crossed = @ \cup over,
                           !.missed = @ \cup missed, !.blind = @ \cup dim, !.unsure = @ \ {UrlOf[s]}]
      /\ UNCHANGED <<exact, lsh, pages, dedup, torn, reboots>>
  BY DEF Register
<1> HIDE DEF over, dim
<1>3. /\ registered'.last = With(registered.last, UrlOf[s], TextOf[s])
      /\ registered'.crossed = registered.crossed \cup over
      /\ registered'.missed = registered.missed \cup missed
      /\ registered'.blind = registered.blind \cup dim
      /\ registered'.unsure = registered.unsure \ {UrlOf[s]}
      /\ registered'.began = registered.began
      /\ registered' = [last |-> registered'.last, began |-> registered'.began, crossed |-> registered'.crossed,
                        missed |-> registered'.missed, unsure |-> registered'.unsure, blind |-> registered'.blind]
  BY <1>0, <1>2 DEF SignalsShape
<1>4. /\ step'[s] = "record" /\ \A t \in Scrapes : t # s => step'[t] = step[t]
      /\ change'[s].prior = previous /\ \A t \in Scrapes : t # s => change'[t] = change[t]
  BY <1>0, <1>1, <1>2 DEF SignalsShape
<1>5. SignalsShape'
  <2>1. /\ step' \in [Scrapes -> SignalSteps]
        /\ change' = [t \in Scrapes |-> change'[t]] /\ dedup' = [t \in Scrapes |-> dedup'[t]]
        /\ registered'.began = [t \in Scrapes |-> registered'.began[t]] /\ torn' \in BOOLEAN
        /\ exact' = [mem |-> exact'.mem, file |-> exact'.file]
        /\ lsh' = [mem |-> lsh'.mem, file |-> lsh'.file]
        /\ history' = [mem |-> history'.mem, file |-> history'.file]
    BY <1>0, <1>1, <1>2, <1>3 DEF SignalsShape, SignalSteps
  <2> QED BY <1>3, <2>1 DEF SignalsShape
<1>6. \A x : /\ Lookup(history'.mem, x) = IF x = UrlOf[s] THEN TextOf[s] ELSE Lookup(history.mem, x)
             /\ Lookup(history'.file, x) = Lookup(history'.mem, x)
             /\ Lookup(registered'.last, x) = IF x = UrlOf[s] THEN TextOf[s] ELSE Lookup(registered.last, x)
  BY <1>2, <1>3 DEF Lookup, With
<1>7. HistoryIsLast'
  BY <1>0, <1>2, <1>3, <1>6 DEF SignalsRight, HistoryIsLast
<1>8. OnTheWay'
  <2>1. ASSUME NEW t \in Scrapes, t # s, step[t] \in {"history", "db"}, t \notin registered'.crossed
        PROVE  UrlOf[t] # UrlOf[s] /\ t \notin registered.crossed
    BY <1>3, <2>1 DEF over, Crossing
  <2> QED BY <1>0, <1>3, <1>4, <1>6, <2>1 DEF SignalsRight, OnTheWay
<1>9. ComparedWithPrevious'
  <2>1. s \notin registered.crossed => registered.began[s] = Lookup(registered.last, UrlOf[s])
    BY DEF SignalsRight, OnTheWay
  <2>2. s \notin registered'.blind => UrlOf[s] \notin registered.unsure
    BY <1>3 DEF dim
  <2> QED BY <1>3, <1>4, <2>1, <2>2 DEF SignalsRight, ComparedWithPrevious
<1>10. OwnersAreReal' /\ CheckedHasOwner' /\ DuplicateIsReal' /\ IndexesAgree'
  BY <1>2, <1>4, DedupSame
<1> QED BY <1>5, <1>7, <1>8, <1>9, <1>10 DEF SignalsRight

LEMMA LaterStepsRight ==
  ASSUME SignalsRight, NEW s \in Scrapes,
         \/ CompareKnown(s) \/ AskDatabase(s) \/ CompareWithDatabase(s)
         \/ RegisterFails(s) \/ RecordPage(s)
  PROVE  SignalsRight'
<1>0. SignalsShape /\ UrlOf[s] \in SignalUrls /\ TextOf[s] # None
  BY NamesAreReal DEF SignalsRight
<1>1. CASE CompareKnown(s)
  <2>1. UrlOf[s] \notin registered.unsure =>
           Lookup(history.mem, UrlOf[s]) = Lookup(registered.last, UrlOf[s])
    BY <1>0, <1>1 DEF CompareKnown, SignalsRight, HistoryIsLast
  <2> QED BY <1>1, <2>1, RegisterRight DEF CompareKnown
<1>2. CASE CompareWithDatabase(s)
  <2>1. s \notin registered.crossed /\ UrlOf[s] \notin registered.unsure =>
           Lookup(pages, UrlOf[s]) = Lookup(registered.last, UrlOf[s])
    BY <1>0, <1>2 DEF CompareWithDatabase, SignalsRight, HistoryIsLast, OnTheWay
  <2>2. CASE Register(s, Lookup(pages, UrlOf[s]), {})
    BY <1>2, <2>1, <2>2, RegisterRight DEF CompareWithDatabase
  <2>3. CASE Register(s, None, {s})
    BY <1>2, <2>3, RegisterRight DEF CompareWithDatabase
  <2> QED BY <1>2, <2>2, <2>3 DEF CompareWithDatabase
<1>3. CASE AskDatabase(s)
  <2>1. /\ step[s] = "history" /\ Lookup(history.mem, UrlOf[s]) = None
        /\ step'[s] = "db" /\ \A t \in Scrapes : t # s => step'[t] = step[t]
        /\ step' \in [Scrapes -> SignalSteps]
        /\ UNCHANGED <<exact, lsh, history, pages, dedup, change, registered, torn>>
    BY <1>0, <1>3 DEF AskDatabase, SignalsShape, SignalSteps
  <2>2. SignalsShape' /\ HistoryIsLast' /\ ComparedWithPrevious'
    BY <2>1 DEF SignalsRight, SignalsShape, HistoryIsLast, ComparedWithPrevious
  <2>3. OnTheWay'
    BY <2>1 DEF SignalsRight, OnTheWay
  <2>4. OwnersAreReal' /\ CheckedHasOwner' /\ DuplicateIsReal' /\ IndexesAgree'
    BY <2>1, DedupSame
  <2> QED BY <2>2, <2>3, <2>4 DEF SignalsRight
<1>4. CASE RecordPage(s)
  <2>1. /\ step[s] \in {"record", "nohash"}
        /\ step'[s] = "done" /\ \A t \in Scrapes : t # s => step'[t] = step[t]
        /\ step' \in [Scrapes -> SignalSteps]
        /\ UNCHANGED <<exact, lsh, history, dedup, change, torn>>
    BY <1>0, <1>4 DEF RecordPage, SignalsShape, SignalSteps
  <2>2. /\ registered'.last = registered.last /\ registered'.began = registered.began
        /\ registered'.crossed = registered.crossed /\ registered'.missed = registered.missed
        /\ registered'.blind = registered.blind
        /\ registered.unsure \subseteq registered'.unsure
        /\ registered' = [last |-> registered'.last, began |-> registered'.began, crossed |-> registered'.crossed,
                          missed |-> registered'.missed, unsure |-> registered'.unsure, blind |-> registered'.blind]
    BY <1>0, <1>4 DEF RecordPage, SignalsShape
  <2>3. SignalsShape' /\ ComparedWithPrevious'
    BY <2>1, <2>2 DEF SignalsRight, SignalsShape, ComparedWithPrevious
  <2>4. /\ \A x : x # UrlOf[s] => Lookup(pages', x) = Lookup(pages, x)
        /\ \/ pages' = pages
           \/ UrlOf[s] \in registered'.unsure \/ Lookup(history.mem, UrlOf[s]) # None
    <3>1. CASE UNCHANGED <<pages, registered>>
      BY <3>1
    <3>2. CASE step[s] = "record" /\ pages' = With(pages, UrlOf[s], TextOf[s])
      BY <3>2 DEF Lookup, With, SignalsRight, OnTheWay
    <3>3. CASE /\ pages' = With(pages, UrlOf[s], None)
               /\ registered' = [registered EXCEPT !.unsure =
                     IF Lookup(history.mem, UrlOf[s]) = None THEN @ \cup {UrlOf[s]} ELSE @]
      <4>1. \A x : x # UrlOf[s] => Lookup(pages', x) = Lookup(pages, x)
        BY <3>3 DEF Lookup, With
      <4>2. Lookup(history.mem, UrlOf[s]) = None => UrlOf[s] \in registered'.unsure
        BY <1>0, <3>3 DEF SignalsShape
      <4> QED BY <4>1, <4>2
    <3> QED BY <1>4, <3>1, <3>2, <3>3 DEF RecordPage
  <2>5. HistoryIsLast'
    BY <2>1, <2>2, <2>4 DEF SignalsRight, HistoryIsLast
  <2>6. OnTheWay'
    BY <2>1, <2>2 DEF SignalsRight, OnTheWay
  <2>7. OwnersAreReal' /\ CheckedHasOwner' /\ DuplicateIsReal' /\ IndexesAgree'
    BY <2>1, DedupSame
  <2> QED BY <2>3, <2>5, <2>6, <2>7 DEF SignalsRight
<1>5. CASE RegisterFails(s)
  <2> DEFINE over == Crossing(s)
  <2>1. /\ step[s] \in {"history", "db"}
        /\ step'[s] = "record" /\ \A t \in Scrapes : t # s => step'[t] = step[t]
        /\ step' \in [Scrapes -> SignalSteps]
        /\ UNCHANGED <<exact, lsh, pages, dedup, change, torn>>
    BY <1>0, <1>5 DEF RegisterFails, SignalsShape, SignalSteps
  <2>2. history' = [mem |-> With(history.mem, UrlOf[s], TextOf[s]), file |-> history.file]
    BY <1>0, <1>5 DEF RegisterFails, SignalsShape
  <2>3. registered' = [registered EXCEPT !.last = With(@, UrlOf[s], TextOf[s]),
                          !.crossed = @ \cup over, !.unsure = @ \cup {UrlOf[s]}]
    BY <1>5 DEF RegisterFails
  <2> HIDE DEF over
  <2>4. /\ registered'.last = With(registered.last, UrlOf[s], TextOf[s])
        /\ registered'.crossed = registered.crossed \cup over
        /\ registered'.missed = registered.missed /\ registered'.blind = registered.blind
        /\ registered'.unsure = registered.unsure \cup {UrlOf[s]}
        /\ registered'.began = registered.began
        /\ registered' = [last |-> registered'.last, began |-> registered'.began, crossed |-> registered'.crossed,
                          missed |-> registered'.missed, unsure |-> registered'.unsure, blind |-> registered'.blind]
    BY <1>0, <2>3 DEF SignalsShape
  <2>5. SignalsShape'
    BY <1>0, <2>1, <2>2, <2>4 DEF SignalsShape
  <2>6. \A x : /\ Lookup(history'.mem, x) = IF x = UrlOf[s] THEN TextOf[s] ELSE Lookup(history.mem, x)
               /\ Lookup(history'.file, x) = Lookup(history.file, x)
               /\ Lookup(registered'.last, x) = IF x = UrlOf[s] THEN TextOf[s] ELSE Lookup(registered.last, x)
    BY <2>2, <2>4 DEF Lookup, With
  <2>7. HistoryIsLast'
    BY <2>1, <2>4, <2>6 DEF SignalsRight, HistoryIsLast
  <2>8. OnTheWay'
    <3>1. ASSUME NEW t \in Scrapes, t # s, step[t] \in {"history", "db"}, t \notin registered'.crossed
          PROVE  UrlOf[t] # UrlOf[s] /\ t \notin registered.crossed
      BY <2>4, <3>1 DEF over, Crossing
    <3> QED BY <1>0, <2>1, <2>4, <2>6, <3>1 DEF SignalsRight, OnTheWay
  <2>9. ComparedWithPrevious'
    <3>1. change[s].status = None
      BY <2>1 DEF SignalsRight, OnTheWay
    <3> QED BY <2>1, <2>4, <3>1 DEF SignalsRight, ComparedWithPrevious
  <2>10. OwnersAreReal' /\ CheckedHasOwner' /\ DuplicateIsReal' /\ IndexesAgree'
    BY <2>1, DedupSame
  <2> QED BY <2>5, <2>7, <2>8, <2>9, <2>10 DEF SignalsRight
<1> QED BY <1>1, <1>2, <1>3, <1>4, <1>5

\* A page that _save or _load left without a report.
LEMMA DedupFailsRight ==
  ASSUME SignalsRight, NEW s \in Scrapes, DedupFails(s)
  PROVE  SignalsRight'
<1>0. SignalsShape
  BY DEF SignalsRight
<1>1. /\ step[s] = "dedup" /\ step'[s] = "nohash" /\ \A t \in Scrapes : t # s => step'[t] = step[t]
      /\ step' \in [Scrapes -> SignalSteps]
      /\ UNCHANGED <<history, pages, dedup, change, registered, torn>>
  BY <1>0 DEF DedupFails, SignalsShape, SignalSteps
<1>2. \/ UNCHANGED <<exact, lsh>>
      \/ /\ exact' = [mem |-> ExactIndex(s), file |-> exact'.file]
         /\ lsh' = [mem |-> With(lsh.mem, UrlOf[s], TextOf[s]), file |-> lsh'.file]
         /\ exact'.file \in {Empty, ExactIndex(s), exact.file}
  BY DEF DedupFails, HalfSaved
<1>3. SignalsShape'
  BY <1>0, <1>1, <1>2 DEF SignalsShape
<1>4. HistoryIsLast' /\ ComparedWithPrevious' /\ OnTheWay'
  BY <1>1 DEF SignalsRight, HistoryIsLast, ComparedWithPrevious, OnTheWay
<1>5. DuplicateIsReal'
  BY <1>1 DEF SignalsRight, DuplicateIsReal
<1>6. OwnersIn(exact.mem)' /\ OwnersIn(exact.file)' /\ CheckedHasOwner' /\ IndexesAgree'
  <2>0. /\ DOMAIN ExactIndex(s) = DOMAIN exact.mem \cup {TextOf[s]}
        /\ \A h \in DOMAIN exact.mem : ExactIndex(s)[h] = exact.mem[h]
        /\ TextOf[s] \notin DOMAIN exact.mem => ExactIndex(s)[TextOf[s]] = UrlOf[s]
    BY ExactIndexFacts
  <2> DEFINE owners == ExactIndex(s)
  <2> HIDE DEF owners
  <2>1. CASE UNCHANGED <<exact, lsh>>
    BY <1>1, <2>1 DEF SignalsRight, OwnersAreReal, OwnersIn, CheckedHasOwner, IndexesAgree
  <2>2. CASE /\ exact'.mem = ExactIndex(s) /\ lsh'.mem = With(lsh.mem, UrlOf[s], TextOf[s])
             /\ exact'.file \in {Empty, ExactIndex(s), exact.file}
    <3>0. /\ exact'.mem = owners /\ exact'.file \in {Empty, owners, exact.file}
          /\ DOMAIN owners = DOMAIN exact.mem \cup {TextOf[s]}
          /\ \A h \in DOMAIN exact.mem : owners[h] = exact.mem[h]
          /\ TextOf[s] \notin DOMAIN exact.mem => owners[TextOf[s]] = UrlOf[s]
          /\ DOMAIN lsh'.mem = DOMAIN lsh.mem \cup {UrlOf[s]}
      BY <2>0, <2>2 DEF owners, With
    <3>1. ASSUME NEW h \in DOMAIN owners
          PROVE  \E t \in Scrapes : UrlOf[t] = owners[h] /\ TextOf[t] = h /\ step'[t] # "dedup"
      <4>1. CASE h \in DOMAIN exact.mem
        <5>1. PICK t \in Scrapes : UrlOf[t] = exact.mem[h] /\ TextOf[t] = h /\ step[t] # "dedup"
          BY <4>1 DEF SignalsRight, OwnersAreReal, OwnersIn
        <5> QED BY <1>1, <3>0, <4>1, <5>1
      <4>2. CASE h \notin DOMAIN exact.mem
        <5>1. h = TextOf[s] /\ owners[h] = UrlOf[s]
          BY <3>0, <3>1, <4>2
        <5> QED BY <1>1, <5>1
      <4> QED BY <4>1, <4>2
    <3>2. OwnersIn(exact.mem)'
      BY <3>0, <3>1 DEF OwnersIn
    <3>3. OwnersIn(exact.file)'
      <4>1. CASE exact'.file = Empty
        BY <4>1 DEF OwnersIn, Empty
      <4>2. CASE exact'.file = owners
        BY <3>1, <4>2 DEF OwnersIn
      <4>3. CASE exact'.file = exact.file
        BY <1>1, <4>3 DEF SignalsRight, OwnersAreReal, OwnersIn
      <4> QED BY <3>0, <4>1, <4>2, <4>3
    <3>4. CheckedHasOwner'
      BY <1>1, <3>0 DEF SignalsRight, CheckedHasOwner
    <3>5. IndexesAgree'
      <4>1. ASSUME ~torn, NEW h \in DOMAIN exact'.mem
            PROVE  exact'.mem[h] \in DOMAIN lsh'.mem
        <5>1. h \in DOMAIN exact.mem => exact'.mem[h] = exact.mem[h] /\ exact.mem[h] \in DOMAIN lsh.mem
          BY <3>0, <4>1 DEF SignalsRight, IndexesAgree
        <5>2. h \notin DOMAIN exact.mem => exact'.mem[h] = UrlOf[s]
          BY <3>0, <4>1
        <5> QED BY <3>0, <5>1, <5>2
      <4> QED BY <1>1, <4>1 DEF IndexesAgree
    <3> QED BY <3>2, <3>3, <3>4, <3>5
  <2> QED BY <1>2, <2>1, <2>2
<1> QED BY <1>3, <1>4, <1>5, <1>6 DEF SignalsRight, OwnersAreReal

LEMMA RebootsRight ==
  ASSUME SignalsRight, RebootSignals \/ \E s \in Scrapes : RebootInSave(s)
  PROVE  SignalsRight'
<1>0. SignalsShape
  BY DEF SignalsRight
<1>1. /\ UNCHANGED <<pages, dedup, change, registered>>
      /\ history' = [mem |-> history.file, file |-> history.file]
      /\ step' \in [Scrapes -> SignalSteps]
      /\ \A t \in Scrapes : step'[t] \in {step[t], "lost"}
                             /\ step'[t] \notin {"nohash", "history", "db", "record"}
  BY <1>0 DEF RebootSignals, RebootInSave, SignalsShape, Dropped, SignalSteps
<1>2. HistoryIsLast' /\ ComparedWithPrevious'
  BY <1>1 DEF SignalsRight, HistoryIsLast, ComparedWithPrevious
<1>3. OnTheWay'
  BY <1>1 DEF SignalsRight, OnTheWay
<1>4. DuplicateIsReal'
  BY <1>1 DEF SignalsRight, DuplicateIsReal
<1>5. CASE RebootSignals
  <2>1. /\ exact' = [mem |-> exact.file, file |-> exact.file] /\ lsh' = [mem |-> lsh.file, file |-> lsh.file]
        /\ torn' \in BOOLEAN
        /\ ~torn' => ~torn /\ exact'.mem = exact.mem /\ lsh'.mem = lsh.mem
    BY <1>0, <1>5 DEF RebootSignals, SignalsShape
  <2>2. SignalsShape'
    BY <1>0, <1>1, <2>1 DEF SignalsShape
  <2>3. OwnersAreReal'
    BY <1>1, <2>1 DEF SignalsRight, OwnersAreReal, OwnersIn
  <2>4. CheckedHasOwner' /\ IndexesAgree'
    BY <1>1, <2>1 DEF SignalsRight, CheckedHasOwner, IndexesAgree
  <2> QED BY <1>2, <1>3, <1>4, <2>2, <2>3, <2>4 DEF SignalsRight
<1>6. ASSUME NEW s \in Scrapes, RebootInSave(s)
      PROVE  SignalsRight'
  <2>1. /\ torn' = TRUE /\ step'[s] = "lost"
        /\ exact' = [mem |-> exact'.mem, file |-> exact'.mem]
        /\ lsh' = [mem |-> lsh'.mem, file |-> lsh'.mem]
        /\ exact'.mem \in {Empty, ExactIndex(s)}
    BY <1>0, <1>6 DEF RebootInSave, SignalsShape, HalfSaved
  <2>2. SignalsShape'
    BY <1>0, <1>1, <2>1 DEF SignalsShape
  <2>3. CheckedHasOwner' /\ IndexesAgree'
    BY <2>1 DEF CheckedHasOwner, IndexesAgree
  <2>4. OwnersIn(exact.mem)'
    <3>1. CASE exact'.mem = Empty
      BY <3>1 DEF OwnersIn, Empty
    <3>2. CASE exact'.mem = ExactIndex(s)
      <4>0. /\ DOMAIN exact'.mem = DOMAIN exact.mem \cup {TextOf[s]}
            /\ \A h \in DOMAIN exact.mem : exact'.mem[h] = exact.mem[h]
            /\ TextOf[s] \notin DOMAIN exact.mem => exact'.mem[TextOf[s]] = UrlOf[s]
        BY <3>2, ExactIndexFacts
      <4>1. ASSUME NEW h \in DOMAIN exact'.mem
            PROVE  \E t \in Scrapes : UrlOf[t] = exact'.mem[h] /\ TextOf[t] = h /\ step'[t] # "dedup"
        <5>1. CASE h \in DOMAIN exact.mem
          <6>1. PICK t \in Scrapes : UrlOf[t] = exact.mem[h] /\ TextOf[t] = h /\ step[t] # "dedup"
            BY <5>1 DEF SignalsRight, OwnersAreReal, OwnersIn
          <6> QED BY <1>1, <4>0, <5>1, <6>1
        <5>2. CASE h \notin DOMAIN exact.mem
          <6>1. h = TextOf[s] /\ exact'.mem[h] = UrlOf[s]
            BY <4>0, <4>1, <5>2
          <6> QED BY <2>1, <6>1
        <5> QED BY <5>1, <5>2
      <4> QED BY <4>1 DEF OwnersIn
    <3> QED BY <2>1, <3>1, <3>2
  <2>5. exact'.file = exact'.mem
    BY <2>1
  <2>6. OwnersAreReal'
    BY <2>4, <2>5 DEF OwnersAreReal, OwnersIn
  <2> QED BY <1>2, <1>3, <1>4, <2>2, <2>3, <2>6 DEF SignalsRight
<1> QED BY <1>5, <1>6

LEMMA SignalsStep ==
  ASSUME SignalsRight, [SignalsNext]_pvars
  PROVE  SignalsRight'
<1>1. CASE UNCHANGED pvars
  <2>1. UNCHANGED <<exact, lsh, history, pages, step, dedup, change, registered, torn>>
    BY <1>1 DEF pvars
  <2>2. SignalsShape' /\ HistoryIsLast' /\ ComparedWithPrevious' /\ OnTheWay'
    BY <2>1 DEF SignalsRight, SignalsShape, HistoryIsLast, ComparedWithPrevious, OnTheWay
  <2> QED BY <2>1, <2>2, DedupSame DEF SignalsRight
<1> QED BY <1>1, CheckRight, DedupFailsRight, LaterStepsRight, RebootsRight DEF SignalsNext

\* A behaviour of the process is, for the signals, one of their own.
LEMMA SignalsIsPart == ApiSpec => SignalsInit /\ [][SignalsNext]_pvars
<1>1. ApiInit => SignalsInit
  BY DEF ApiInit
<1>2. [ApiNext]_apiVars => [SignalsNext]_pvars
  BY DEF ApiNext, apiVars, OnlyResearch, OnlyLegacy, OnlyRuns, OnlySignals, OnlyIndex, OnlyRetrieval,
         OnlyChunking, ApiOnly, OnlySite, OnlyCorpus, OnlyRebuild, OnlyData, OnlyLife
<1> QED BY <1>1, <1>2, PTL DEF ApiSpec

\* Two pages with one text have two owners only over a torn index file.
LEMMA SignalsEnough == SignalsRight => SignalsInv
<1>1. SignalsRight => OneOriginal
  BY DEF SignalsRight, CheckedHasOwner, OneOriginal
<1> QED BY <1>1 DEF SignalsRight, SignalsInv

\* The change signal compares a scrape with the one before it, one page per text
\* is the original and a duplicate is real, for any number of scrapes, pages and
\* texts and over restarts (dedup.check_and_register, changes.check_and_register).
THEOREM SignalsAreRight == ApiSpec => []SignalsInv
BY SignalsEnough, SignalsIsPart, SignalsStart, SignalsStep, PTL

-----------------------------------------------------------------------------
(* The data directory (DataDirectory).                                       *)

FileStates == {Missing, "torn", "whole"}
DataTyped ==
    /\ day \in Nat /\ faults \in Nat /\ halves \in Nat
    /\ artifact \in [Stems -> [json : FileStates, md : FileStates, day : Nat, saved : BOOLEAN]]
    /\ saver \in [stem : Stems \cup {NoStem}, at : {"json", "md"}]
    /\ sweep \in [on : BOOLEAN, left : SUBSET Stems, stem : Stems \cup {NoStem}]
    /\ checkpoint \in [file : Nat, day : Nat, writing : Nat, good : Nat]
    /\ maker \in [Makers -> {"wait", "text", "ready", "error", "done", "gone"}]
    /\ texts \in [Makers -> Nat]
    /\ sidecar \in [status : {"none", "ready", "error"}, of : SUBSET Makers]

(* A save and a sweep never hold the same artifact: the sweep takes what has *)
(* its record and is old, the save's is of today.                            *)
SaveIsApart ==
    saver # NoSave =>
        /\ saver.stem \in Stems /\ artifact[saver.stem].saved
        /\ artifact[saver.stem].json # Missing /\ artifact[saver.stem].day = day
        /\ saver.stem \notin sweep.left /\ saver.stem # sweep.stem
SweepIsOfRecords ==
    /\ \A s \in sweep.left : artifact[s].json # Missing
    /\ sweep.stem # NoStem => artifact[sweep.stem].json = Missing /\ artifact[sweep.stem].saved
UnsavedIsAbsent ==
    \A s \in Stems : ~artifact[s].saved => artifact[s].json = Missing /\ artifact[s].md = Missing

(* What is gone, and what the sweep in progress will still take, has KeepRuns *)
(* others as young that the sweep leaves.                                     *)
Spare(s) == {r \in Recorded \ sweep.left : artifact[r].day >= artifact[s].day}
SpareIsEnough ==
    \A s \in Stems : s \in sweep.left \/ (artifact[s].saved /\ artifact[s].json = Missing) =>
        Cardinality(Spare(s)) >= KeepRuns

(* A maker past its texts has written both, also the one that wrote the      *)
(* status that is read.                                                      *)
MakersCount ==
    /\ \A m \in Makers : /\ maker[m] = "text" => texts[m] \in {0, 1}
                         /\ maker[m] = "ready" => texts[m] = 2
                         /\ maker[m] = "wait" => texts[m] = 0
    /\ sidecar.status = "ready" => \A m \in sidecar.of : maker[m] \in {"done", "gone"} /\ texts[m] = 2

FilesRight ==
    /\ DataTyped /\ SaveIsApart /\ SweepIsOfRecords /\ UnsavedIsAbsent /\ SpareIsEnough
    /\ MakersCount /\ OrphansOnlyFromHalves /\ CheckpointIsLast

LEMMA StemFacts ==
  ASSUME NEW S, S \subseteq Stems
  PROVE  /\ IsFiniteSet(S) /\ Cardinality(S) \in Nat
         /\ \A T \in SUBSET S : Cardinality(T) <= Cardinality(S) /\ Cardinality(T) \in Nat
                                /\ (T # S => Cardinality(T) < Cardinality(S))
<1>1. IsFiniteSet(S)
  BY DataAssumption, FS_Subset
<1> QED BY <1>1, FS_Subset, FS_CardinalityType

\* The sweep spares, of as many artifacts as it must keep, as many.
LEMMA VictimsAreSpared ==
  ASSUME DataTyped, NEW d \in Nat,
         Cardinality({r \in Recorded : artifact[r].day >= d}) >= KeepRuns
  PROVE  Cardinality({r \in Recorded \ Victims : artifact[r].day >= d}) >= KeepRuns
<1> DEFINE A == {r \in Recorded : artifact[r].day >= d}
           K == {r \in Recorded \ Victims : artifact[r].day >= d}
           V == A \cap Victims
<1>0. /\ KeepRuns \in Nat /\ Stems \subseteq Nat /\ \A s \in Stems : artifact[s].day \in Nat
      /\ Recorded \subseteq Stems /\ \A s \in Stems : Ahead(s) \subseteq Stems
  BY DataAssumption DEF DataTyped, Recorded, Ahead
<1>1. A \subseteq Stems /\ K \subseteq Stems /\ V \subseteq Stems
  BY <1>0
<1>2. CASE V = {}
  <2>1. A = K
    BY <1>2
  <2> QED BY <2>1
<1>3. CASE V # {}
  <2> DEFINE N == {Younger(v) : v \in V}
  <2>1. N \subseteq Nat /\ N # {}
    BY <1>0, <1>1, <1>3, StemFacts DEF Younger
  <2>2. PICK n \in N : \A k \in N : n <= k
    BY <2>1, LeastNatural
  <2>3. PICK v \in V : n = Younger(v)
    BY <2>2
  <2> HIDE DEF N
  <2>4. ASSUME NEW r \in Ahead(v) PROVE r \in K
    <3>1. r \in Recorded /\ r \in A /\ v \in Stems /\ r \in Stems
      BY <1>0, <1>1, <2>3 DEF Ahead
    <3>2. ASSUME r \in Victims PROVE FALSE
      <4>1. Younger(r) \in N
        BY <3>1, <3>2 DEF N
      <4>0. /\ artifact[r].day \in Nat /\ artifact[v].day \in Nat /\ r \in Nat /\ v \in Nat
            /\ artifact[r].day > artifact[v].day \/ (artifact[r].day = artifact[v].day /\ r < v)
        BY <1>0, <2>4, <3>1 DEF Ahead
      <4>1a. ASSUME NEW t \in Ahead(r) PROVE t \in Ahead(v)
        <5>1. /\ artifact[t].day \in Nat /\ t \in Nat /\ t \in Recorded
              /\ artifact[t].day > artifact[r].day \/ (artifact[t].day = artifact[r].day /\ t < r)
          BY <1>0 DEF Ahead
        <5>2. artifact[t].day > artifact[v].day \/ (artifact[t].day = artifact[v].day /\ t < v)
          BY <4>0, <5>1
        <5> QED BY <5>1, <5>2 DEF Ahead
      <4>1b. r \notin Ahead(r)
        BY <4>0 DEF Ahead
      <4>2. Ahead(r) \subseteq Ahead(v) /\ r \notin Ahead(r) /\ Ahead(v) \subseteq Stems
        BY <1>0, <3>1, <4>1a, <4>1b
      <4>3. Younger(r) < Younger(v)
        BY <2>4, <4>2, StemFacts DEF Younger
      <4> QED BY <2>1, <2>2, <2>3, <4>1, <4>3
    <3> QED BY <3>1, <3>2
  <2>5. Cardinality(Ahead(v)) <= Cardinality(K) /\ Cardinality(Ahead(v)) \in Nat /\ Cardinality(K) \in Nat
    BY <1>1, <2>4, StemFacts
  <2>6. Cardinality(Ahead(v)) >= KeepRuns
    BY <2>3 DEF Victims, Younger
  <2> QED BY <1>0, <2>5, <2>6
<1> QED BY <1>2, <1>3

LEMMA FilesStart == DataInit => FilesRight
<1> SUFFICES ASSUME DataInit PROVE FilesRight
  OBVIOUS
<1>1. DataTyped
  BY DataAssumption DEF DataInit, DataTyped, FileStates, NoSave, NoSweep
<1>2. SaveIsApart /\ SweepIsOfRecords /\ UnsavedIsAbsent /\ SpareIsEnough
  BY DEF DataInit, SaveIsApart, SweepIsOfRecords, UnsavedIsAbsent, SpareIsEnough, NoSweep
<1>3. MakersCount /\ CheckpointIsLast
  BY DEF DataInit, MakersCount, CheckpointIsLast
<1>4. OrphansOnlyFromHalves
  <2>1. {s \in Stems : artifact[s].json = Missing /\ artifact[s].md # Missing /\ sweep.stem # s} = {}
    BY DEF DataInit
  <2>2. Cardinality({}) = 0 /\ halves = 0
    BY FS_EmptySet DEF DataInit
  <2> QED BY <2>1, <2>2 DEF OrphansOnlyFromHalves
<1> QED BY <1>1, <1>2, <1>3, <1>4 DEF FilesRight

\* A step that keeps the days and records of what the sweep does not take, and
\* lets no more go, keeps enough.
LEMMA SpareGrows ==
  ASSUME FilesRight, DataTyped',
         \A r \in Recorded \ sweep.left : r \in Recorded' \ sweep'.left /\ artifact'[r].day = artifact[r].day,
         \A s \in Stems : s \in sweep'.left \/ (artifact'[s].saved /\ artifact'[s].json = Missing) =>
            /\ s \in sweep.left \/ (artifact[s].saved /\ artifact[s].json = Missing)
            /\ artifact'[s].day = artifact[s].day
  PROVE  SpareIsEnough'
<1>1. ASSUME NEW s \in Stems, s \in sweep'.left \/ (artifact'[s].saved /\ artifact'[s].json = Missing)
      PROVE  Cardinality(Spare(s)') >= KeepRuns
  <2>1. Cardinality(Spare(s)) >= KeepRuns
    BY <1>1 DEF FilesRight, SpareIsEnough
  <2>2. Spare(s) \subseteq Spare(s)' /\ Spare(s)' \subseteq Stems
    BY <1>1 DEF Spare, Recorded
  <2>3. Cardinality(Spare(s)) <= Cardinality(Spare(s)') /\ Cardinality(Spare(s)) \in Nat
        /\ Cardinality(Spare(s)') \in Nat
    BY <2>2, StemFacts
  <2> QED BY <2>1, <2>3, DataAssumption
<1> QED BY <1>1 DEF SpareIsEnough

Orphans == {s \in Stems : artifact[s].json = Missing /\ artifact[s].md # Missing /\ sweep.stem # s}

LEMMA OrphansSame ==
  ASSUME FilesRight, halves' = halves, Orphans' \subseteq Orphans
  PROVE  OrphansOnlyFromHalves'
<1>1. Cardinality(Orphans') <= Cardinality(Orphans) /\ Cardinality(Orphans) \in Nat /\ Cardinality(Orphans') \in Nat
  BY StemFacts DEF Orphans
<1> QED BY <1>1 DEF FilesRight, DataTyped, OrphansOnlyFromHalves, Orphans

\* One more orphan where one more pair was cut in half.
LEMMA OrphansMore ==
  ASSUME FilesRight, NEW s, Orphans' \subseteq Orphans \cup {s}, halves' = halves + 1
  PROVE  OrphansOnlyFromHalves'
<1>1. IsFiniteSet(Orphans) /\ IsFiniteSet(Orphans') /\ Cardinality(Orphans) \in Nat /\ Cardinality(Orphans') \in Nat
  BY StemFacts DEF Orphans
<1>2. /\ IsFiniteSet(Orphans \cup {s})
      /\ Cardinality(Orphans \cup {s}) <= Cardinality(Orphans) + 1
      /\ Cardinality(Orphans \cup {s}) \in Nat
  <2> DEFINE T == Orphans
             n == Cardinality(T)
             m == Cardinality(T \cup {s})
  <2> HIDE DEF T
  <2>1. IsFiniteSet(T)
    BY <1>1 DEF T
  <2>2. IsFiniteSet(T \cup {s}) /\ m = IF s \in T THEN n ELSE n + 1
    BY <2>1, FS_AddElement
  <2>3. n \in Nat
    BY <1>1 DEF T
  <2> HIDE DEF n, m
  <2>4. m <= n + 1 /\ m \in Nat
    BY <2>2, <2>3
  <2> QED BY <2>2, <2>4 DEF T, n, m
<1>3. Cardinality(Orphans') <= Cardinality(Orphans \cup {s})
  BY <1>2, FS_Subset
<1>4. Cardinality(Orphans) <= halves /\ halves' = halves + 1 /\ halves \in Nat
  BY DEF FilesRight, OrphansOnlyFromHalves, Orphans, DataTyped
<1>5. Cardinality(Orphans') <= halves'
  BY <1>1, <1>2, <1>3, <1>4
<1> QED BY <1>5 DEF OrphansOnlyFromHalves, Orphans

LEMMA BeginSaveFiles ==
  ASSUME FilesRight, NEW s \in Stems, BeginSave(s)
  PROVE  FilesRight'
<1>0. /\ DataTyped /\ SaveIsApart /\ SweepIsOfRecords /\ UnsavedIsAbsent
      /\ saver = NoSave /\ ~artifact[s].saved /\ artifact[s].json = Missing /\ artifact[s].md = Missing
  BY DEF FilesRight, BeginSave, UnsavedIsAbsent
<1>1. /\ artifact'[s] = [json |-> "torn", md |-> Missing, day |-> day, saved |-> TRUE]
      /\ \A r \in Stems : r # s => artifact'[r] = artifact[r]
      /\ saver' = [stem |-> s, at |-> "json"]
      /\ UNCHANGED <<day, checkpoint, sweep, faults, halves, maker, texts, sidecar>>
  BY <1>0 DEF BeginSave, LlmsSame, DataTyped
<1>2. s \notin sweep.left /\ sweep.stem # s /\ s \notin Recorded
  BY <1>0, DataAssumption DEF SweepIsOfRecords, Recorded, NoStem
<1>3. DataTyped'
  BY <1>0, <1>1 DEF BeginSave, LlmsSame, DataTyped, FileStates, Missing
<1>4. SaveIsApart' /\ UnsavedIsAbsent'
  BY <1>0, <1>1, <1>2 DEF SaveIsApart, UnsavedIsAbsent, Missing
<1>5. SweepIsOfRecords'
  BY <1>0, <1>1, <1>2 DEF SweepIsOfRecords, DataTyped, Missing
<1>6. SpareIsEnough'
  <2>1. \A r \in Recorded \ sweep.left : r \in Recorded' \ sweep'.left /\ artifact'[r].day = artifact[r].day
    BY <1>1, <1>2 DEF Recorded
  <2>2. artifact'[s].json # Missing /\ s \notin sweep'.left
    BY <1>1, <1>2 DEF Missing
  <2> QED BY <1>1, <1>3, <2>1, <2>2, SpareGrows
<1>7. MakersCount' /\ CheckpointIsLast'
  BY <1>1 DEF FilesRight, MakersCount, CheckpointIsLast
<1>8. OrphansOnlyFromHalves'
  <2>1. Orphans' \subseteq Orphans
    BY <1>1 DEF Orphans, Missing
  <2> QED BY <1>1, <2>1, OrphansSame
<1> QED BY <1>3, <1>4, <1>5, <1>6, <1>7, <1>8 DEF FilesRight

LEMMA SaveStepFiles ==
  ASSUME FilesRight, SaveStep
  PROVE  FilesRight'
<1> DEFINE s == saver.stem
<1>0. /\ DataTyped /\ SaveIsApart /\ SweepIsOfRecords /\ UnsavedIsAbsent
      /\ s \in Stems /\ artifact[s].saved /\ artifact[s].json # Missing /\ artifact[s].day = day
      /\ s \notin sweep.left /\ s # sweep.stem
  BY DEF FilesRight, SaveStep, SaveIsApart
<1>1. /\ artifact'[s].saved /\ artifact'[s].json # Missing /\ artifact'[s].day = day
      /\ artifact'[s].json \in FileStates /\ artifact'[s].md \in FileStates
      /\ \A r \in Stems : r # s => artifact'[r] = artifact[r]
      /\ artifact' \in [Stems -> [json : FileStates, md : FileStates, day : Nat, saved : BOOLEAN]]
  <2>1. CASE saver.at = "json"
    BY <1>0, <2>1 DEF SaveStep, DataTyped, FileStates, Missing
  <2>2. CASE saver.at # "json"
    BY <1>0, <2>2 DEF SaveStep, DataTyped, FileStates, Missing
  <2> QED BY <2>1, <2>2
<1>2. /\ saver' = NoSave \/ saver' = [stem |-> s, at |-> "md"]
      /\ UNCHANGED <<day, checkpoint, sweep, faults, halves, maker, texts, sidecar>>
  BY <1>0 DEF SaveStep, LlmsSame, DataTyped
<1> HIDE DEF s
<1>3. DataTyped'
  BY <1>0, <1>1, <1>2 DEF DataTyped, NoSave
<1>4. SaveIsApart' /\ UnsavedIsAbsent'
  BY <1>0, <1>1, <1>2 DEF SaveIsApart, UnsavedIsAbsent
<1>5. SweepIsOfRecords'
  BY <1>0, <1>1, <1>2 DEF SweepIsOfRecords, DataTyped
<1>6. SpareIsEnough'
  <2>1. \A r \in Recorded \ sweep.left : r \in Recorded' \ sweep'.left /\ artifact'[r].day = artifact[r].day
    BY <1>0, <1>1, <1>2 DEF Recorded
  <2> QED BY <1>0, <1>1, <1>2, <1>3, <2>1, SpareGrows
<1>7. MakersCount' /\ CheckpointIsLast'
  BY <1>2 DEF FilesRight, MakersCount, CheckpointIsLast
<1>8. OrphansOnlyFromHalves'
  <2>1. Orphans' \subseteq Orphans
    BY <1>1, <1>2 DEF Orphans
  <2> QED BY <1>2, <2>1, OrphansSame
<1> QED BY <1>3, <1>4, <1>5, <1>6, <1>7, <1>8 DEF FilesRight

\* A step of the checkpoints, the makers or the clock: no artifact is touched.
LEMMA ArtifactsSame ==
  ASSUME FilesRight, DataTyped', UNCHANGED <<artifact, sweep, halves>>,
         saver' = saver, day' = day \/ saver = NoSave
  PROVE  /\ SaveIsApart' /\ SweepIsOfRecords' /\ UnsavedIsAbsent' /\ SpareIsEnough'
         /\ OrphansOnlyFromHalves'
<1>1. SaveIsApart'
  BY DEF FilesRight, SaveIsApart
<1>2. SweepIsOfRecords' /\ UnsavedIsAbsent' /\ SpareIsEnough'
  BY DEF FilesRight, SweepIsOfRecords, UnsavedIsAbsent, SpareIsEnough, Spare, Recorded
<1>3. OrphansOnlyFromHalves'
  BY DEF FilesRight, OrphansOnlyFromHalves
<1> QED BY <1>1, <1>2, <1>3

LEMMA CheckpointFiles ==
  ASSUME FilesRight, OpenCheckpoint \/ ReplaceCheckpoint \/ RunIsOver \/ DayPasses
  PROVE  FilesRight'
<1>0. DataTyped /\ CheckpointIsLast
  BY DEF FilesRight
<1>1. /\ UNCHANGED <<artifact, saver, sweep, faults, halves, maker, texts, sidecar>>
      /\ day' = day \/ (saver = NoSave /\ day' = day + 1)
      /\ checkpoint' \in [file : Nat, day : Nat, writing : Nat, good : Nat]
      /\ checkpoint'.file = checkpoint'.good
  BY <1>0 DEF OpenCheckpoint, BeginCheckpoint, ReplaceCheckpoint, RunIsOver, DayPasses, LlmsSame,
              DataTyped, CheckpointIsLast
<1>2. DataTyped'
  BY <1>0, <1>1 DEF DataTyped
<1>3. MakersCount' /\ CheckpointIsLast'
  BY <1>1 DEF FilesRight, MakersCount, CheckpointIsLast
<1> QED BY <1>1, <1>2, <1>3, ArtifactsSame DEF FilesRight

LEMMA MakerFiles ==
  ASSUME FilesRight, NEW m \in Makers, WaitEnds(m) \/ WriteText(m) \/ WriteStatus(m) \/ TextFails(m)
  PROVE  FilesRight'
<1>0. DataTyped /\ CheckpointIsLast /\ MakersCount
  BY DEF FilesRight
<1>1. UNCHANGED <<day, artifact, saver, checkpoint, sweep, halves>>
  BY DEF WaitEnds, WriteText, WriteStatus, TextFails, DirSame
<1>2. DataTyped'
  BY <1>0, <1>1 DEF DataTyped, WaitEnds, WriteText, WriteStatus, TextFails, MakerAt
<1>3. MakersCount'
  <2>1. CASE WaitEnds(m)
    BY <1>0, <2>1 DEF DataTyped, MakersCount, WaitEnds, MakerAt
  <2>2. CASE WriteText(m)
    BY <1>0, <2>2 DEF DataTyped, MakersCount, WriteText, MakerAt
  <2>3. CASE WriteStatus(m)
    BY <1>0, <2>3 DEF DataTyped, MakersCount, WriteStatus, TextsWritten, MakerAt
  <2>4. CASE TextFails(m)
    BY <1>0, <2>4 DEF DataTyped, MakersCount, TextFails, MakerAt
  <2> QED BY <2>1, <2>2, <2>3, <2>4
<1>4. CheckpointIsLast'
  BY <1>0, <1>1 DEF CheckpointIsLast
<1> QED BY <1>1, <1>2, <1>3, <1>4, ArtifactsSame DEF FilesRight

LEMMA BeginPruneFiles ==
  ASSUME FilesRight, BeginPrune
  PROVE  FilesRight'
<1>0. DataTyped /\ CheckpointIsLast /\ sweep = NoSweep /\ SaveIsApart
  BY DEF FilesRight, BeginPrune, LoopBusy
<1>1. /\ sweep' = [on |-> TRUE, left |-> Victims, stem |-> NoStem]
      /\ UNCHANGED <<day, artifact, saver, checkpoint, faults, halves, maker, texts, sidecar>>
  BY DEF BeginPrune, LlmsSame
<1>2. Victims \subseteq Recorded /\ Recorded \subseteq Stems
  BY DEF Victims, Recorded
<1>3. DataTyped'
  BY <1>0, <1>1, <1>2 DEF DataTyped
<1>4. SaveIsApart'
  <2>1. ASSUME saver # NoSave PROVE saver.stem \notin Victims /\ saver.stem # NoStem
    BY <1>0, <2>1, DataAssumption DEF SaveIsApart, Victims, Stale, DataTyped, NoStem
  <2> QED BY <1>0, <1>1, <2>1 DEF SaveIsApart
<1>5. SweepIsOfRecords' /\ UnsavedIsAbsent'
  BY <1>1, <1>2 DEF FilesRight, SweepIsOfRecords, UnsavedIsAbsent, Recorded
<1>6. SpareIsEnough'
  <2>1. ASSUME NEW s \in Stems, s \in Victims \/ (artifact[s].saved /\ artifact[s].json = Missing)
        PROVE  Cardinality({r \in Recorded \ Victims : artifact[r].day >= artifact[s].day}) >= KeepRuns
    <3> DEFINE A == {r \in Recorded : artifact[r].day >= artifact[s].day}
    <3>0. /\ artifact[s].day \in Nat /\ KeepRuns \in Nat /\ A \subseteq Stems
          /\ \A r \in Stems : artifact[r].day \in Nat
      BY <1>0, <1>2, DataAssumption DEF DataTyped
    <3>1. Cardinality(A) >= KeepRuns
      <4>1. CASE s \in Victims
        <5>1. Ahead(s) \subseteq A /\ Cardinality(Ahead(s)) >= KeepRuns
          BY <1>2, <3>0, <4>1 DEF Ahead, Victims, Younger
        <5>2. Cardinality(Ahead(s)) <= Cardinality(A) /\ Cardinality(Ahead(s)) \in Nat /\ Cardinality(A) \in Nat
          BY <3>0, <5>1, StemFacts
        <5> QED BY <3>0, <5>1, <5>2
      <4>2. CASE s \notin Victims
        <5>1. Spare(s) = A
          BY <1>0 DEF Spare, NoSweep
        <5>2. Cardinality(Spare(s)) >= KeepRuns
          BY <2>1, <4>2 DEF FilesRight, SpareIsEnough
        <5> QED BY <5>1, <5>2
      <4> QED BY <4>1, <4>2
    <3> QED BY <1>0, <3>0, <3>1, VictimsAreSpared
  <2>2. \A s \in Stems : Spare(s)' = {r \in Recorded \ Victims : artifact[r].day >= artifact[s].day}
    BY <1>1 DEF Spare, Recorded
  <2> QED BY <1>1, <2>1, <2>2 DEF SpareIsEnough
<1>7. MakersCount' /\ CheckpointIsLast'
  BY <1>1 DEF FilesRight, MakersCount, CheckpointIsLast
<1>8. OrphansOnlyFromHalves'
  <2>1. Orphans' \subseteq Orphans
    BY <1>0, <1>1 DEF Orphans, NoSweep
  <2> QED BY <1>1, <2>1, OrphansSame
<1> QED BY <1>3, <1>4, <1>5, <1>6, <1>7, <1>8 DEF FilesRight

LEMMA RemoveJsonFiles ==
  ASSUME FilesRight, NEW s \in Stems, RemoveJson(s)
  PROVE  FilesRight'
<1>0. /\ DataTyped /\ SaveIsApart /\ SweepIsOfRecords /\ UnsavedIsAbsent
      /\ sweep.stem = NoStem /\ s \in sweep.left /\ artifact[s].json # Missing /\ artifact[s].saved
  BY DEF FilesRight, RemoveJson, SweepIsOfRecords, UnsavedIsAbsent
<1>1. /\ artifact'[s].json = Missing /\ artifact'[s].saved /\ artifact'[s].day = artifact[s].day
      /\ \A r \in Stems : r # s => artifact'[r] = artifact[r]
      /\ sweep'.left = sweep.left \ {s} /\ sweep'.stem = s
      /\ UNCHANGED <<day, saver, checkpoint, faults, halves, maker, texts, sidecar>>
  BY <1>0 DEF RemoveJson, LlmsSame, DataTyped
<1>2. DataTyped'
  <2>1. artifact' \in [Stems -> [json : FileStates, md : FileStates, day : Nat, saved : BOOLEAN]]
    BY <1>0 DEF RemoveJson, DataTyped, FileStates
  <2>2. sweep' \in [on : BOOLEAN, left : SUBSET Stems, stem : Stems \cup {NoStem}]
    BY <1>0 DEF RemoveJson, DataTyped
  <2> QED BY <1>0, <1>1, <2>1, <2>2 DEF DataTyped
<1>3. SaveIsApart' /\ SweepIsOfRecords' /\ UnsavedIsAbsent'
  BY <1>0, <1>1 DEF SaveIsApart, SweepIsOfRecords, UnsavedIsAbsent, DataTyped
<1>4. SpareIsEnough'
  <2>1. \A r \in Recorded \ sweep.left : r \in Recorded' \ sweep'.left /\ artifact'[r].day = artifact[r].day
    BY <1>0, <1>1 DEF Recorded
  <2>2. \A t \in Stems : t \in sweep'.left \/ (artifact'[t].saved /\ artifact'[t].json = Missing) =>
            /\ t \in sweep.left \/ (artifact[t].saved /\ artifact[t].json = Missing)
            /\ artifact'[t].day = artifact[t].day
    BY <1>0, <1>1
  <2> QED BY <1>2, <2>1, <2>2, SpareGrows
<1>5. MakersCount' /\ CheckpointIsLast'
  BY <1>1 DEF FilesRight, MakersCount, CheckpointIsLast
<1>6. OrphansOnlyFromHalves'
  <2>1. Orphans' \subseteq Orphans
    BY <1>0, <1>1, DataAssumption DEF Orphans, NoStem
  <2> QED BY <1>1, <2>1, OrphansSame
<1> QED BY <1>2, <1>3, <1>4, <1>5, <1>6 DEF FilesRight

LEMMA RemoveMdFiles ==
  ASSUME FilesRight, RemoveMd
  PROVE  FilesRight'
<1> DEFINE s == sweep.stem
<1>0. /\ DataTyped /\ SaveIsApart /\ SweepIsOfRecords /\ UnsavedIsAbsent
      /\ s \in Stems /\ artifact[s].json = Missing /\ artifact[s].saved
  BY DEF FilesRight, RemoveMd, SweepIsOfRecords, DataTyped
<1>1. /\ artifact'[s].json = Missing /\ artifact'[s].saved /\ artifact'[s].day = artifact[s].day
      /\ artifact'[s].md = Missing
      /\ \A r \in Stems : r # s => artifact'[r] = artifact[r]
      /\ sweep'.left = sweep.left /\ sweep'.stem = NoStem
      /\ UNCHANGED <<day, saver, checkpoint, faults, halves, maker, texts, sidecar>>
  BY <1>0 DEF RemoveMd, LlmsSame, DataTyped
<1>2. DataTyped'
  BY <1>0 DEF RemoveMd, LlmsSame, DataTyped, FileStates
<1> HIDE DEF s
<1>3. SaveIsApart' /\ SweepIsOfRecords' /\ UnsavedIsAbsent'
  <2>1. s = sweep.stem /\ NoStem \notin Stems /\ sweep.left \subseteq Stems /\ s \notin sweep.left
    BY <1>0, DataAssumption DEF NoStem, s, DataTyped, SweepIsOfRecords
  <2>2. SaveIsApart'
    BY <1>0, <1>1, <2>1 DEF SaveIsApart
  <2>3. SweepIsOfRecords' /\ UnsavedIsAbsent'
    BY <1>0, <1>1, <2>1 DEF SweepIsOfRecords, UnsavedIsAbsent
  <2> QED BY <2>2, <2>3
<1>4. SpareIsEnough'
  <2>1. \A r \in Recorded \ sweep.left : r \in Recorded' \ sweep'.left /\ artifact'[r].day = artifact[r].day
    BY <1>0, <1>1 DEF Recorded
  <2>2. \A t \in Stems : t \in sweep'.left \/ (artifact'[t].saved /\ artifact'[t].json = Missing) =>
            /\ t \in sweep.left \/ (artifact[t].saved /\ artifact[t].json = Missing)
            /\ artifact'[t].day = artifact[t].day
    BY <1>0, <1>1
  <2> QED BY <1>2, <2>1, <2>2, SpareGrows
<1>5. MakersCount' /\ CheckpointIsLast'
  BY <1>1 DEF FilesRight, MakersCount, CheckpointIsLast
<1>6. OrphansOnlyFromHalves'
  <2>1. Orphans' \subseteq Orphans
    BY <1>0, <1>1 DEF Orphans, s
  <2> QED BY <1>1, <2>1, OrphansSame
<1> QED BY <1>2, <1>3, <1>4, <1>5, <1>6 DEF FilesRight

LEMMA EndPruneFiles ==
  ASSUME FilesRight, EndPrune
  PROVE  FilesRight'
<1>0. DataTyped /\ CheckpointIsLast
  BY DEF FilesRight
<1>1. /\ UNCHANGED <<day, artifact, saver, halves, maker, texts, sidecar>> /\ faults' \in Nat
      /\ sweep' = NoSweep /\ sweep.left = {} /\ sweep.stem = NoStem
      /\ checkpoint' \in [file : Nat, day : Nat, writing : Nat, good : Nat]
      /\ checkpoint'.file = checkpoint'.good
  BY <1>0 DEF EndPrune, LlmsSame, DataTyped, CheckpointIsLast
<1>2. DataTyped'
  BY <1>0, <1>1 DEF DataTyped, NoSweep
<1>3. sweep'.left = sweep.left /\ sweep'.stem = sweep.stem
  BY <1>1 DEF NoSweep
<1>4. MakersCount' /\ CheckpointIsLast'
  BY <1>1 DEF FilesRight, MakersCount, CheckpointIsLast
<1>5. SaveIsApart' /\ SweepIsOfRecords' /\ UnsavedIsAbsent'
  BY <1>1, <1>3 DEF FilesRight, SaveIsApart, SweepIsOfRecords, UnsavedIsAbsent
<1>6. SpareIsEnough' /\ OrphansOnlyFromHalves'
  BY <1>1, <1>3 DEF FilesRight, SpareIsEnough, Spare, Recorded, OrphansOnlyFromHalves
<1> QED BY <1>2, <1>4, <1>5, <1>6 DEF FilesRight

\* A removal that raises leaves one pair as it is.
LEMMA RemovalFailsFiles ==
  ASSUME FilesRight, RemovalFails
  PROVE  FilesRight'
<1>0. DataTyped /\ SaveIsApart /\ SweepIsOfRecords
  BY DEF FilesRight
<1>1. /\ UNCHANGED <<day, artifact, saver, checkpoint, maker, texts, sidecar>> /\ faults' = faults + 1
      /\ sweep'.left \subseteq sweep.left /\ sweep'.stem = NoStem
      /\ sweep' \in [on : BOOLEAN, left : SUBSET Stems, stem : Stems \cup {NoStem}]
      /\ \/ sweep.stem = NoStem /\ halves' = halves
         \/ sweep.stem # NoStem /\ halves' = halves + 1
  BY <1>0 DEF RemovalFails, LlmsSame, DataTyped
<1>2. DataTyped'
  BY <1>0, <1>1 DEF DataTyped
<1>3. SaveIsApart'
  <2>1. saver # NoSave => saver.stem # NoStem
    BY <1>0, DataAssumption DEF SaveIsApart, NoStem
  <2> QED BY <1>0, <1>1, <2>1 DEF SaveIsApart
<1>4. SweepIsOfRecords' /\ UnsavedIsAbsent' /\ MakersCount' /\ CheckpointIsLast'
  BY <1>1 DEF FilesRight, SweepIsOfRecords, UnsavedIsAbsent, MakersCount, CheckpointIsLast
<1>5. SpareIsEnough'
  <2>1. \A r \in Recorded \ sweep.left : r \in Recorded' \ sweep'.left /\ artifact'[r].day = artifact[r].day
    BY <1>1 DEF Recorded
  <2>2. \A t \in Stems : t \in sweep'.left \/ (artifact'[t].saved /\ artifact'[t].json = Missing) =>
            /\ t \in sweep.left \/ (artifact[t].saved /\ artifact[t].json = Missing)
            /\ artifact'[t].day = artifact[t].day
    BY <1>1
  <2> QED BY <1>2, <2>1, <2>2, SpareGrows
<1>6. OrphansOnlyFromHalves'
  <2>1. Orphans' \subseteq Orphans \cup {sweep.stem} /\ (sweep.stem = NoStem => Orphans' \subseteq Orphans)
    BY <1>1 DEF Orphans
  <2>2. CASE sweep.stem = NoStem
    BY <1>1, <2>1, <2>2, OrphansSame
  <2>3. CASE sweep.stem # NoStem
    BY <1>1, <2>1, <2>3, OrphansMore
  <2> QED BY <2>2, <2>3
<1> QED BY <1>2, <1>3, <1>4, <1>5, <1>6 DEF FilesRight

LEMMA DeathFiles ==
  ASSUME FilesRight, EveryoneDies
  PROVE  FilesRight'
<1>0. DataTyped /\ CheckpointIsLast /\ MakersCount
  BY DEF FilesRight
<1>1. /\ UNCHANGED <<day, artifact, texts, sidecar>> /\ saver' = NoSave /\ sweep' = NoSweep
      /\ checkpoint' = [checkpoint EXCEPT !.writing = 0]
      /\ maker' = [m \in Makers |-> "gone"] /\ faults' = faults + 1
      /\ halves' = halves + (IF sweep.stem # NoStem THEN 1 ELSE 0)
  BY DEF EveryoneDies
<1>2. DataTyped'
  BY <1>0, <1>1 DEF DataTyped, NoSave, NoSweep
<1>3. MakersCount'
  BY <1>0, <1>1 DEF MakersCount, DataTyped
<1>4. CheckpointIsLast'
  BY <1>0, <1>1 DEF CheckpointIsLast, DataTyped
<1>5. SaveIsApart' /\ SweepIsOfRecords' /\ UnsavedIsAbsent'
  BY <1>1 DEF FilesRight, SaveIsApart, SweepIsOfRecords, UnsavedIsAbsent, NoSweep
<1>6. SpareIsEnough'
  <2>1. \A r \in Recorded \ sweep.left : r \in Recorded' \ sweep'.left /\ artifact'[r].day = artifact[r].day
    BY <1>1 DEF Recorded, NoSweep
  <2>2. \A t \in Stems : t \in sweep'.left \/ (artifact'[t].saved /\ artifact'[t].json = Missing) =>
            /\ t \in sweep.left \/ (artifact[t].saved /\ artifact[t].json = Missing)
            /\ artifact'[t].day = artifact[t].day
    BY <1>1 DEF NoSweep
  <2> QED BY <1>2, <2>1, <2>2, SpareGrows
<1>7. OrphansOnlyFromHalves'
  <2>1. Orphans' \subseteq Orphans \cup {sweep.stem} /\ (sweep.stem = NoStem => Orphans' \subseteq Orphans)
    BY <1>1, DataAssumption DEF Orphans, NoSweep, NoStem
  <2>2. IsFiniteSet(Orphans) /\ IsFiniteSet(Orphans') /\ Cardinality(Orphans) \in Nat /\ Cardinality(Orphans') \in Nat
        /\ Orphans \subseteq Stems
    BY StemFacts DEF Orphans
  <2>3. CASE sweep.stem = NoStem
    <3>1. halves' = halves
      BY <1>0, <1>1, <2>3 DEF DataTyped
    <3> QED BY <2>1, <2>3, <3>1, OrphansSame
  <2>4. CASE sweep.stem # NoStem
    BY <1>0, <1>1, <2>1, <2>4, OrphansMore DEF DataTyped
  <2> QED BY <2>3, <2>4
<1> QED BY <1>2, <1>3, <1>4, <1>5, <1>6, <1>7 DEF FilesRight

LEMMA FilesStep ==
  ASSUME FilesRight, [DataNext]_dataVars
  PROVE  FilesRight'
<1>1. CASE UNCHANGED dataVars
  <2>1. UNCHANGED <<day, artifact, saver, checkpoint, sweep, maker, texts, sidecar, faults, halves>>
    BY <1>1 DEF dataVars
  <2>2. DataTyped'
    BY <2>1 DEF FilesRight, DataTyped
  <2>3. MakersCount' /\ CheckpointIsLast'
    BY <2>1 DEF FilesRight, MakersCount, CheckpointIsLast
  <2> QED BY <2>1, <2>2, <2>3, ArtifactsSame DEF FilesRight
<1> QED BY <1>1, BeginSaveFiles, SaveStepFiles, CheckpointFiles, MakerFiles, BeginPruneFiles,
           RemoveJsonFiles, RemoveMdFiles, RemovalFailsFiles, EndPruneFiles, DeathFiles DEF DataNext

LEMMA FilesEnough == FilesRight => FilesInv
<1> SUFFICES ASSUME FilesRight PROVE FilesInv
  OBVIOUS
<1>1. NewestAreKept
  <2>1. ASSUME NEW s \in Stems, artifact[s].saved, artifact[s].json = Missing
        PROVE  Cardinality({r \in Recorded : artifact[r].day >= artifact[s].day}) >= KeepRuns
    <3> DEFINE A == {r \in Recorded : artifact[r].day >= artifact[s].day}
    <3>1. Cardinality(Spare(s)) >= KeepRuns /\ KeepRuns \in Nat
      BY <2>1, DataAssumption DEF FilesRight, SpareIsEnough
    <3>2. Spare(s) \subseteq A /\ A \subseteq Stems
      BY DEF Spare, Recorded
    <3>3. Cardinality(Spare(s)) <= Cardinality(A) /\ Cardinality(Spare(s)) \in Nat /\ Cardinality(A) \in Nat
      BY <3>2, StemFacts
    <3> QED BY <3>1, <3>3
  <2> QED BY <2>1 DEF NewestAreKept
<1>2. ReadyIsWhole
  BY DEF FilesRight, MakersCount, ReadyIsWhole
<1> QED BY <1>1, <1>2 DEF FilesRight, FilesInv

\* A behaviour of the process is, for the data directory, one of its own.
LEMMA FilesIsPart == ApiSpec => DataInit /\ [][DataNext]_dataVars
<1>1. ApiInit => DataInit
  BY DEF ApiInit
<1>2. [ApiNext]_apiVars => [DataNext]_dataVars
  BY DEF ApiNext, apiVars, offlineVars, OnlyResearch, OnlyLegacy, OnlyRuns, OnlySignals, OnlyIndex, OnlyRetrieval,
         OnlyChunking, ApiOnly, OnlySite, OnlyCorpus, OnlyRebuild, OnlyData, OnlyLife
<1> QED BY <1>1, <1>2, PTL DEF ApiSpec

\* Retention keeps the newest records, whatever is saved meanwhile and whenever it
\* is cut short, orphans come from deaths only, and checkpoints and llms.txt files
\* are whole when they are seen, for any number of artifacts, makers and faults.
THEOREM FilesAreRight == ApiSpec => []FilesInv
BY FilesEnough, FilesIsPart, FilesStart, FilesStep, PTL

-----------------------------------------------------------------------------
(* The swap of a rebuilt corpus (DataDirectory, RebuildSpec).                *)

SwapSteps == {"idle", "staging", "staged", "carried", "dropping", "moved"}
SwapRight ==
    /\ tree = [corpus |-> tree.corpus, new |-> tree.new, bak |-> tree.bak]
    /\ tree.corpus = [gen |-> tree.corpus.gen, state |-> tree.corpus.state, pairs |-> tree.corpus.pairs]
    /\ tree.new = [gen |-> tree.new.gen, state |-> tree.new.state, pairs |-> tree.new.pairs]
    /\ tree.bak = [gen |-> tree.bak.gen, state |-> tree.bak.state, pairs |-> tree.bak.pairs]
    /\ swap \in SwapSteps /\ newest \in Nat \ {0} /\ generation \in Nat \ {0}
    /\ NewestSurvives
    /\ swap \in {"staged", "carried", "dropping", "moved"} => tree.new.gen \in Nat \ {0}
    /\ swap = "dropping" \/ tree.corpus.gen # 0 => newest = tree.corpus.gen

LEMMA SwapStep ==
  ASSUME SwapRight, [RebuildNext]_rebuildVars
  PROVE  SwapRight'
<1>1. CASE UNCHANGED rebuildVars
  BY <1>1 DEF rebuildVars, SwapRight, NewestSurvives
<1>2. CASE Stage
  BY <1>2 DEF Stage, SwapRight, NewestSurvives, NoTree, SwapSteps
<1>3. CASE Staged
  BY <1>3 DEF Staged, Keeps, Step, SwapRight, NewestSurvives, SwapSteps
<1>4. CASE CarrySftState
  BY <1>4 DEF CarrySftState, Keeps, Step, SwapRight, NewestSurvives, SwapSteps
<1>5. CASE DropBackup
  BY <1>5 DEF DropBackup, DropAnyBackup, Keeps, Step, SwapRight, NewestSurvives, SwapSteps
<1>6. CASE MoveOld
  BY <1>6 DEF MoveOld, Keeps, Step, SwapRight, NewestSurvives, NoTree, SwapSteps
<1>7. CASE MoveNew
  BY <1>7 DEF MoveNew, Step, SwapRight, NewestSurvives, NoTree, SwapSteps
<1>8. CASE Dies
  BY <1>8 DEF Dies, Keeps, Step, SwapRight, NewestSurvives, SwapSteps
<1>9. CASE DeriveSft
  BY <1>9 DEF DeriveSft, Keeps, Step, SwapRight, NewestSurvives, SwapSteps
<1> QED BY <1>1, <1>2, <1>3, <1>4, <1>5, <1>6, <1>7, <1>8, <1>9 DEF RebuildNext

LEMMA SwapIsPart == ApiSpec => RebuildInit /\ [][RebuildNext]_rebuildVars
<1>1. ApiInit => RebuildInit
  BY DEF ApiInit
<1>2. [ApiNext]_apiVars => [RebuildNext]_rebuildVars
  BY DEF ApiNext, apiVars, offlineVars, OnlyResearch, OnlyLegacy, OnlyRuns, OnlySignals, OnlyIndex, OnlyRetrieval,
         OnlyChunking, ApiOnly, OnlySite, OnlyCorpus, OnlyRebuild, OnlyData, OnlyLife
<1> QED BY <1>1, <1>2, PTL DEF ApiSpec

LEMMA SwapIsRight == ApiSpec => []SwapRight
<1>1. RebuildInit => SwapRight
  BY DEF RebuildInit, SwapRight, NewestSurvives, NoTree, SwapSteps
<1> QED BY <1>1, SwapStep, SwapIsPart, PTL

CorpusLines == Targets \X Hashes

\* The lines of a page are lines of the corpus.
LEMMA PageLinesTyped ==
  ASSUME NEW b \in Names, NEW p \in ToSet(PagesOf[b])
  PROVE  PageLines(p) \in Seq(CorpusLines)
<1>0. ChunksOf[p] \in Seq(Hashes) /\ p \in Hashes
  <2>1. p \in AllPages /\ ToSet(ChunksOf[p]) \subseteq Hashes /\ ChunksOf[p] \in Seq(ToSet(ChunksOf[p]))
    BY CorpusAssumption DEF AllPages, Hashes, Names
  <2> QED BY <2>1 DEF Hashes
<1>1. ASSUME NEW t \in Targets PROVE RecordsFor(p, t) \in Seq(CorpusLines)
  <2> DEFINE hs == IF t = "rag" THEN ChunksOf[p] ELSE <<p>>
  <2>1. hs \in Seq(Hashes)
    BY <1>0
  <2> HIDE DEF hs
  <2>2. [i \in DOMAIN hs |-> <<t, hs[i]>>] \in Seq(CorpusLines)
    BY <2>1 DEF CorpusLines
  <2> QED BY <2>2 DEF RecordsFor, hs
<1> QED BY <1>1 DEF PageLines, Targets

LEMMA BatchLinesTyped ==
  ASSUME NEW b \in Names
  PROVE  BatchLines(b) \in Seq(CorpusLines)
<1> DEFINE L == Len(PagesOf[b])
           T == Seq(CorpusLines)
           Page(n) == PageLines(PagesOf[b][n])
           IsLoop(f) == f = [n \in 0 .. L |-> IF n = 0 THEN <<>> ELSE f[n - 1] \o Page(n)]
           G == [n \in Nat |-> [q \in T |-> IF n \in 1 .. L THEN q \o Page(n) ELSE q]]
<1>0. L \in Nat /\ \A n \in 1 .. L : Page(n) \in T
  <2>1. PagesOf[b] \in Seq(ToSet(PagesOf[b]))
    BY CorpusAssumption DEF Names
  <2>2. \A n \in 1 .. L : PagesOf[b][n] \in ToSet(PagesOf[b])
    BY <2>1
  <2> QED BY <2>1, <2>2, PageLinesTyped
<1>1. BatchLines(b) = (CHOOSE f : IsLoop(f))[L]
  BY DEF BatchLines
<1> HIDE DEF L, Page
<1>2. <<>> \in T /\ \A q \in T, n \in 1 .. L : q \o Page(n) \in T
  BY <1>0
<1>3. G \in [Nat -> [T -> T]]
  BY <1>2
<1>4. \A q \in T, n \in Nat : G[n][q] = IF n \in 1 .. L THEN q \o Page(n) ELSE q
  OBVIOUS
<1> HIDE DEF G, T
<1>a. L \in Nat /\ <<>> \in T
  BY <1>0, <1>2
<1>b. \E f : Loop(f, T, <<>>, G, L)
  BY <1>a, <1>3, LoopExists
<1>5. PICK f \in [0 .. L -> T] : f[0] = <<>> /\ \A n \in 0 .. L : n # 0 => f[n] = G[n][f[n - 1]]
  BY <1>b DEF Loop
<1>6. IsLoop(f)
  <2>1. ASSUME NEW n \in 0 .. L, n # 0 PROVE f[n] = f[n - 1] \o Page(n)
    <3>1. n \in 1 .. L /\ n \in Nat /\ n - 1 \in 0 .. L
      BY <1>0, <2>1
    <3>2. f[n - 1] \in T
      BY <3>1
    <3> QED BY <1>4, <1>5, <2>1, <3>1, <3>2
  <2>2. f = [n \in 0 .. L |-> f[n]]
    OBVIOUS
  <2> QED BY <1>5, <2>1, <2>2
<1> DEFINE out == CHOOSE g : IsLoop(g)
<1>7. IsLoop(out)
  BY <1>6
<1>8. out[0] = <<>> /\ \A n \in 1 .. L : out[n] = out[n - 1] \o Page(n)
  <2> HIDE DEF out
  <2>1. \A n \in 0 .. L : out[n] = IF n = 0 THEN <<>> ELSE out[n - 1] \o Page(n)
    BY <1>7
  <2>2. 0 \in 0 .. L /\ \A n \in 1 .. L : n \in 0 .. L /\ n # 0
    BY <1>a
  <2> QED BY <2>1, <2>2
<1> DEFINE S == {n \in Nat : n <= L => out[n] \in T}
<1> HIDE DEF out, IsLoop
<1>9. 0 \in S
  BY <1>2, <1>8
<1>10. ASSUME NEW n \in S PROVE n + 1 \in S
  <2>1. CASE n + 1 <= L
    <3>1. n \in Nat /\ n <= L /\ n + 1 \in 1 .. L /\ (n + 1) - 1 = n
      BY <1>0, <2>1
    <3>2. out[n] \in T /\ out[n + 1] = out[n] \o Page(n + 1)
      BY <1>8, <3>1
    <3>3. out[n + 1] \in T
      BY <1>2, <3>1, <3>2
    <3> QED BY <3>1, <3>3
  <2>2. CASE ~(n + 1 <= L)
    BY <2>2
  <2> QED BY <2>1, <2>2
<1>11. S = Nat
  <2> HIDE DEF S
  <2>1. S \in SUBSET Nat
    BY DEF S
  <2> QED BY <1>9, <1>10, <2>1, NatSetInduction
<1>12. out[L] \in T
  BY <1>0, <1>11
<1> QED BY <1>1, <1>12 DEF out, T, IsLoop

-----------------------------------------------------------------------------
(* The inductive invariant of the drain.                                     *)

CorpusShape ==
    /\ drain = [phase |-> drain.phase, todo |-> drain.todo, state |-> drain.state]
    /\ drain.phase \in {"idle", "scrape", "build", "sft", "save"}
    /\ drain.todo \subseteq Names /\ DOMAIN drain.state \subseteq drain.todo
    /\ slot \in [Names -> {"out", "queued", "slot", "running", "ok", "failed"}]
    /\ build \in [batch : Names \cup {"none"}, lines : Seq(CorpusLines), known : SUBSET Hashes,
                  seen : SUBSET Hashes, step : {"write", "ledger", "source"}]
    /\ corpus \in [CorpusLines -> Nat] /\ hashes \subseteq Hashes /\ sources \subseteq hashes
    /\ sft \in [left : Seq(Hashes), seen : SUBSET Hashes, buffer : Seq(Hashes)]
    /\ pairs \in [Hashes -> Nat] /\ sftState \subseteq Hashes
    /\ gaps \in [line : Nat, row : Nat, sft : Nat]

(* The fan-out is about the drain's batches.                                 *)
SlotsAreOfDrain == drain.phase = "scrape" => \A b \in Names : slot[b] # "out" => b \in drain.todo
SlotsRight == HostsAreSpared /\ SlotsAreOfDrain

(* The ledger with the row that is about to be written; the known and seen   *)
(* hashes of write_records are exactly these.                                *)
LineHash == Head(build.lines)[2]
Ledgered == hashes \cup (IF build.step = "ledger" THEN {LineHash} ELSE {})
HashesOf(b) == {l[2] : l \in ToSet(BatchLines(b))}
InBuild ==
    build # NoBuild =>
        /\ drain.phase = "build" /\ build.batch \in drain.todo
        /\ build.known \cup build.seen = Ledgered
        /\ build.step # "write" => build.lines # <<>>
        /\ build.step = "ledger" => LineHash \notin hashes
        /\ build.step = "source" => LineHash \in hashes \ sources
        /\ HashesOf(build.batch) \subseteq Written \cup {l[2] : l \in ToSet(build.lines)}

(* A hash has one line for its row, and others only from interruptions.      *)
Quota(h) == IF h \in Ledgered THEN 1 ELSE 0
Stray == {h \in Hashes : Lines(h) > Quota(h)}
LinesAreCounted ==
    /\ Ledgered \subseteq Written /\ Cardinality(Stray) <= gaps.line
    /\ \A h \in Hashes : Lines(h) <= Quota(h) + gaps.line
RowsAreCounted ==
    Cardinality(hashes \ sources) <= gaps.row + (IF build.step = "source" THEN 1 ELSE 0)
OkNotes == \A b \in DOMAIN drain.state : drain.state[b] = "ok" => HashesOf(b) \subseteq Written
BuildRight == InBuild /\ LinesAreCounted /\ RowsAreCounted /\ OkNotes /\ OkMeansBuilt

(* A record has its pairs on disk once when it is listed or closed, and      *)
(* others only from interruptions.                                           *)
Paired == IF drain.phase = "sft" THEN sft.seen \ ToSet(sft.buffer) ELSE sftState
InSft ==
    /\ drain.phase # "sft" => sft.buffer = <<>>
    /\ drain.phase = "sft" =>
        /\ IsInjective(sft.left) /\ ToSet(sft.left) \cap sft.seen = {}
        /\ IsInjective(sft.buffer) /\ ToSet(sft.buffer) \subseteq sft.seen \ sftState
        /\ sftState \subseteq sft.seen
PairsAreCounted ==
    \A h \in Hashes : /\ h \in Paired => pairs[h] > 0 \/ h \in barren
                      /\ pairs[h] <= gaps.sft + (IF h \in Paired THEN 1 ELSE 0)
SftRight == InSft /\ PairsAreCounted

CorpusRight == CorpusShape /\ SlotsRight /\ BuildRight /\ SftRight

-----------------------------------------------------------------------------
LEMMA SequenceIsFinite ==
  ASSUME NEW S, NEW q \in Seq(S)
  PROVE  IsFiniteSet(ToSet(q))
<1> DEFINE T == 1 .. Len(q)
           f == [i \in T |-> q[i]]
<1>1. IsFiniteSet(T)
  BY FS_Interval
<1>2. f \in Surjection(T, ToSet(q))
  BY DEF Surjection, ToSet
<1> HIDE DEF f, T
<1> QED BY <1>1, <1>2, FS_Surjection

LEMMA ImageIsFinite ==
  ASSUME NEW S, IsFiniteSet(S), NEW f
  PROVE  IsFiniteSet({f[x] : x \in S})
<1> DEFINE g == [x \in S |-> f[x]]
<1>1. g \in Surjection(S, {f[x] : x \in S})
  BY DEF Surjection
<1> HIDE DEF g
<1> QED BY <1>1, FS_Surjection

LEMMA AddOne ==
  ASSUME NEW S, IsFiniteSet(S), NEW x
  PROVE  /\ IsFiniteSet(S \cup {x}) /\ Cardinality(S \cup {x}) \in Nat /\ Cardinality(S) \in Nat
         /\ Cardinality(S \cup {x}) <= Cardinality(S) + 1
<1>1. Cardinality(S) \in Nat
  BY FS_CardinalityType
<1>2. IsFiniteSet(S \cup {x}) /\ Cardinality(S \cup {x}) = IF x \in S THEN Cardinality(S) ELSE Cardinality(S) + 1
  BY FS_AddElement
<1> QED BY <1>1, <1>2

LEMMA NamesAreFinite == IsFiniteSet(Names)
BY CorpusAssumption, SequenceIsFinite DEF Names

LEMMA HashesAreFinite == IsFiniteSet(Hashes)
<1>1. \A b \in Names : IsFiniteSet(ToSet(PagesOf[b]))
  BY CorpusAssumption, SequenceIsFinite DEF Names
<1> DEFINE F == {ToSet(PagesOf[b]) : b \in Names}
<1>2. IsFiniteSet(F)
  <2> DEFINE f == [b \in Names |-> ToSet(PagesOf[b])]
  <2>1. F = {f[b] : b \in Names}
    OBVIOUS
  <2> HIDE DEF f
  <2> QED BY <2>1, NamesAreFinite, ImageIsFinite
<1>3. IsFiniteSet(AllPages)
  <2> HIDE DEF F
  <2>1. \A T \in F : IsFiniteSet(T)
    BY <1>1 DEF F
  <2>2. IsFiniteSet(UNION F)
    BY <1>2, <2>1, FS_UNION
  <2> QED BY <2>2 DEF AllPages, F
<1> DEFINE H == {ToSet(ChunksOf[p]) : p \in AllPages}
<1>4. IsFiniteSet(H)
  <2> DEFINE f == [p \in AllPages |-> ToSet(ChunksOf[p])]
  <2>1. H = {f[p] : p \in AllPages}
    OBVIOUS
  <2> HIDE DEF f
  <2> QED BY <1>3, <2>1, ImageIsFinite
<1>5. \A p \in AllPages : IsFiniteSet(ToSet(ChunksOf[p]))
  BY CorpusAssumption, SequenceIsFinite DEF AllPages, Names
<1>6. IsFiniteSet(UNION H)
  <2> HIDE DEF H
  <2>1. \A T \in H : IsFiniteSet(T)
    BY <1>5 DEF H
  <2> QED BY <1>4, <2>1, FS_UNION
<1> QED BY <1>3, <1>6, FS_Union DEF Hashes

LEMMA CorpusStart == CorpusInit => CorpusRight
<1> SUFFICES ASSUME CorpusInit PROVE CorpusRight
  OBVIOUS
<1>1. CorpusShape
  BY DEF CorpusInit, CorpusShape, NoDrain, NoBuild, NoSft, CorpusLines
<1>2. SlotsRight
  <2>1. In({"slot", "running"}) = {} /\ In({"running"}) = {}
    BY DEF CorpusInit, In
  <2>2. HostsAreSpared
    <3>1. Cardinality({}) = 0 /\ Concurrency \in Nat
      BY FS_EmptySet, CorpusAssumption
    <3> QED BY <2>1, <3>1 DEF HostsAreSpared
  <2> QED BY <2>2 DEF SlotsRight, SlotsAreOfDrain, CorpusInit, NoDrain
<1>3. BuildRight
  <2>1. /\ Ledgered = {} /\ Stray = {} /\ hashes \ sources = {} /\ build.step = "write"
        /\ \A h \in Hashes : Lines(h) = 0 /\ Quota(h) = 0
    BY DEF CorpusInit, Ledgered, NoBuild, Stray, Lines, Quota, Targets
  <2>2. LinesAreCounted /\ RowsAreCounted
    BY <2>1, FS_EmptySet DEF LinesAreCounted, RowsAreCounted, CorpusInit
  <2>3. InBuild /\ OkNotes /\ OkMeansBuilt
    BY DEF CorpusInit, InBuild, OkNotes, OkMeansBuilt, NoDrain
  <2> QED BY <2>2, <2>3 DEF BuildRight
<1>4. SftRight
  BY DEF CorpusInit, SftRight, InSft, PairsAreCounted, Paired, NoDrain, NoSft
<1> QED BY <1>1, <1>2, <1>3, <1>4 DEF CorpusRight

-----------------------------------------------------------------------------
(* What a step keeps that leaves a part alone.                               *)

LEMMA SlotsKept ==
  ASSUME SlotsRight, UNCHANGED slot, drain'.phase # "scrape" \/ UNCHANGED drain
  PROVE  SlotsRight'
BY DEF SlotsRight, HostsAreSpared, SlotsAreOfDrain, In, OnHost

LEMMA BuildKept ==
  ASSUME BuildRight, UNCHANGED <<build, corpus, hashes, sources, loopState>>,
         gaps'.line = gaps.line, gaps'.row = gaps.row,
         build = NoBuild \/ UNCHANGED drain, OkNotes'
  PROVE  BuildRight'
<1>1. UNCHANGED <<Ledgered, Stray, Written>> /\ \A h : Lines(h)' = Lines(h) /\ Quota(h)' = Quota(h)
  BY DEF Ledgered, LineHash, Stray, Written, Lines, Quota
<1>2. LinesAreCounted' /\ RowsAreCounted'
  BY <1>1 DEF BuildRight, LinesAreCounted, RowsAreCounted
<1>3. InBuild'
  BY <1>1 DEF BuildRight, InBuild, LineHash
<1>4. OkMeansBuilt'
  BY <1>1 DEF BuildRight, OkMeansBuilt
<1> QED BY <1>2, <1>3, <1>4 DEF BuildRight

LEMMA NotesKept ==
  ASSUME BuildRight, UNCHANGED corpus, drain'.state = drain.state \/ DOMAIN drain'.state = {}
  PROVE  OkNotes'
BY DEF BuildRight, OkNotes, Written, Lines

LEMMA SftKept ==
  ASSUME SftRight, UNCHANGED <<sft, pairs, sftState, barren>>, gaps'.sft = gaps.sft,
         drain'.phase = drain.phase \/ {drain.phase, drain'.phase} \cap {"sft"} = {}
  PROVE  SftRight'
<1>1. Paired' = Paired
  BY DEF Paired
<1> QED BY <1>1 DEF SftRight, InSft, PairsAreCounted

-----------------------------------------------------------------------------
LEMMA StartDrainRight ==
  ASSUME CorpusRight, NEW todo \in SUBSET Names, StartDrain(todo)
  PROVE  CorpusRight'
<1>0. CorpusShape
  BY DEF CorpusRight
<1>1. /\ drain' = [phase |-> "scrape", todo |-> todo, state |-> <<>>]
      /\ slot' = [b \in Names |-> IF b \in todo THEN "queued" ELSE "out"]
      /\ drain.phase = "idle"
      /\ UNCHANGED <<build, corpus, hashes, sources, loopState, sft, pairs, sftState, barren, gaps>>
  BY DEF StartDrain, RestOfCorpus
<1>2. CorpusShape'
  BY <1>0, <1>1 DEF CorpusShape
<1>3. SlotsRight'
  <2>1. In({"slot", "running"})' = {} /\ In({"running"})' = {}
    BY <1>1 DEF In
  <2>2. HostsAreSpared'
    <3>1. Cardinality({}) = 0 /\ Concurrency \in Nat
      BY FS_EmptySet, CorpusAssumption
    <3> QED BY <2>1, <3>1 DEF HostsAreSpared
  <2>3. SlotsAreOfDrain'
    BY <1>1 DEF SlotsAreOfDrain
  <2> QED BY <2>2, <2>3 DEF SlotsRight
<1>4. BuildRight'
  <2>1. build = NoBuild
    BY <1>1 DEF CorpusRight, BuildRight, InBuild
  <2>2. OkNotes'
    BY <1>1, NotesKept DEF CorpusRight
  <2> QED BY <1>1, <2>1, <2>2, BuildKept DEF CorpusRight
<1>5. SftRight'
  BY <1>1, SftKept DEF CorpusRight
<1> QED BY <1>2, <1>3, <1>4, <1>5 DEF CorpusRight

LEMMA FanOutRight ==
  ASSUME CorpusRight, NEW b \in Names,
         TakeSlot(b) \/ BeginScrapeBatch(b) \/ \E ok \in BOOLEAN : EndScrapeBatch(b, ok)
  PROVE  CorpusRight'
<1>0. CorpusShape /\ HostsAreSpared /\ SlotsAreOfDrain
  BY DEF CorpusRight, SlotsRight
<1>1. PICK to \in {"slot", "running", "ok", "failed"} :
         /\ Moves(b, to)
         /\ to = "slot" => slot[b] = "queued" /\ Cardinality(In({"slot", "running"})) < Concurrency
         /\ to = "running" => slot[b] = "slot" /\ HostFree(b)
         /\ to \in {"ok", "failed"} => slot[b] = "running"
  BY DEF TakeSlot, BeginScrapeBatch, EndScrapeBatch
<1>2. /\ slot' = [slot EXCEPT ![b] = to]
      /\ UNCHANGED <<drain, build, corpus, hashes, sources, loopState, sft, pairs, sftState, barren, gaps>>
  BY <1>1 DEF Moves, RestOfCorpus
<1>3. slot'[b] = to /\ \A a \in Names : a # b => slot'[a] = slot[a]
  BY <1>0, <1>2 DEF CorpusShape
<1>4. CorpusShape'
  BY <1>0, <1>2 DEF CorpusShape
<1>5. SlotsAreOfDrain'
  BY <1>0, <1>1, <1>2, <1>3 DEF SlotsAreOfDrain
<1>6. HostsAreSpared'
  <2> DEFINE A == In({"slot", "running"})
  <2>0. /\ IsFiniteSet(A) /\ Cardinality(A) \in Nat /\ Cardinality(A) <= Concurrency /\ Concurrency \in Nat
        /\ PerHost \in Int
    BY <1>0, NamesAreFinite, FS_Subset, FS_CardinalityType, CorpusAssumption DEF In, HostsAreSpared
  <2>1. Cardinality(A') <= Concurrency
    <3>1. CASE to = "slot"
      <4>1. A' \subseteq A \cup {b}
        BY <1>3 DEF In
      <4>2. IsFiniteSet(A \cup {b}) /\ Cardinality(A \cup {b}) <= Cardinality(A) + 1
            /\ Cardinality(A \cup {b}) \in Nat
        BY <2>0, AddOne
      <4>3. Cardinality(A') <= Cardinality(A \cup {b}) /\ Cardinality(A') \in Nat
        BY <4>1, <4>2, FS_Subset, FS_CardinalityType
      <4> QED BY <1>1, <2>0, <3>1, <4>2, <4>3
    <3>2. CASE to # "slot"
      <4>1. A' \subseteq A
        BY <1>1, <1>3, <3>2 DEF In
      <4>2. Cardinality(A') <= Cardinality(A) /\ Cardinality(A') \in Nat
        BY <2>0, <4>1, FS_Subset, FS_CardinalityType
      <4> QED BY <2>0, <4>2
    <3> QED BY <3>1, <3>2
  <2>2. ASSUME NEW a \in In({"running"})', HostOf[a] # NoHost, PerHost > 0
        PROVE  Cardinality(OnHost(a)') <= PerHost
    <3>0. \A x \in Names : OnHost(x) \subseteq Names /\ IsFiniteSet(OnHost(x)) /\ Cardinality(OnHost(x)) \in Nat
      BY NamesAreFinite, FS_Subset, FS_CardinalityType DEF OnHost, In
    <3>1. CASE to = "running" /\ HostOf[a] = HostOf[b]
      <4>1. OnHost(a)' \subseteq OnHost(b) \cup {b}
        BY <1>3, <3>1 DEF OnHost, In
      <4>2. Cardinality(OnHost(b)) < PerHost
        BY <1>1, <2>0, <2>2, <3>1 DEF HostFree
      <4>3. IsFiniteSet(OnHost(b) \cup {b}) /\ Cardinality(OnHost(b) \cup {b}) <= Cardinality(OnHost(b)) + 1
            /\ Cardinality(OnHost(b) \cup {b}) \in Nat
        BY <3>0, AddOne
      <4>4. Cardinality(OnHost(a)') <= Cardinality(OnHost(b) \cup {b}) /\ Cardinality(OnHost(a)') \in Nat
        BY <4>1, <4>3, FS_Subset, FS_CardinalityType
      <4> QED BY <2>0, <3>0, <4>2, <4>3, <4>4
    <3>2. CASE ~(to = "running" /\ HostOf[a] = HostOf[b])
      <4>0. a \in Names
        BY DEF In
      <4>1. OnHost(a)' \subseteq OnHost(a) /\ a \in In({"running"})
        BY <1>1, <1>3, <3>2 DEF OnHost, In
      <4>2. Cardinality(OnHost(a)) <= PerHost
        BY <1>0, <2>2, <4>1 DEF HostsAreSpared
      <4>3. Cardinality(OnHost(a)') <= Cardinality(OnHost(a)) /\ Cardinality(OnHost(a)') \in Nat
        BY <3>0, <4>0, <4>1, FS_Subset, FS_CardinalityType
      <4> QED BY <2>0, <3>0, <4>0, <4>2, <4>3
    <3> QED BY <3>1, <3>2
  <2> QED BY <2>1, <2>2 DEF HostsAreSpared
<1>7. BuildRight'
  <2>1. OkNotes'
    BY <1>2, NotesKept DEF CorpusRight
  <2> QED BY <1>2, <2>1, BuildKept DEF CorpusRight
<1>8. SftRight'
  BY <1>2, SftKept DEF CorpusRight
<1> QED BY <1>4, <1>5, <1>6, <1>7, <1>8 DEF CorpusRight, SlotsRight

LEMMA FanOutReturnsRight ==
  ASSUME CorpusRight, FanOutReturns
  PROVE  CorpusRight'
<1>0. CorpusShape /\ SlotsAreOfDrain
  BY DEF CorpusRight, SlotsRight
<1>1. /\ drain' = [phase |-> "build", todo |-> drain.todo, state |-> [b \in In({"failed"}) |-> "failed"]]
      /\ drain.phase = "scrape"
      /\ UNCHANGED <<slot, build, corpus, hashes, sources, loopState, sft, pairs, sftState, barren, gaps>>
  BY <1>0 DEF FanOutReturns, RestOfCorpus, CorpusShape
<1>2. CorpusShape'
  <2>1. In({"failed"}) \subseteq drain.todo
    BY <1>0, <1>1 DEF SlotsAreOfDrain, In
  <2> QED BY <1>0, <1>1, <2>1 DEF CorpusShape
<1>3. SlotsRight'
  BY <1>1, SlotsKept DEF CorpusRight
<1>4. BuildRight'
  <2>1. build = NoBuild
    BY <1>1 DEF CorpusRight, BuildRight, InBuild
  <2>2. OkNotes'
    BY <1>1 DEF OkNotes
  <2> QED BY <1>1, <2>1, <2>2, BuildKept DEF CorpusRight
<1>5. SftRight'
  BY <1>1, SftKept DEF CorpusRight
<1> QED BY <1>2, <1>3, <1>4, <1>5 DEF CorpusRight

-----------------------------------------------------------------------------
(* write_records                                                             *)

LEMMA HeadAndTail ==
  ASSUME NEW S, NEW q \in Seq(S), q # <<>>
  PROVE  /\ Head(q) \in S /\ Tail(q) \in Seq(S) /\ ToSet(q) = {Head(q)} \cup ToSet(Tail(q))
         /\ Len(q) \in Nat \ {0} /\ Head(q) = q[1] /\ Len(Tail(q)) = Len(q) - 1
         /\ \A i \in 1 .. Len(q) - 1 : Tail(q)[i] = q[i + 1]
<1>1. /\ Head(q) \in S /\ Tail(q) \in Seq(S) /\ Len(q) \in Nat \ {0} /\ Head(q) = q[1] /\ Len(Tail(q)) = Len(q) - 1
      /\ \A i \in 1 .. Len(q) - 1 : Tail(q)[i] = q[i + 1]
  OBVIOUS
<1>2. ToSet(q) = {Head(q)} \cup ToSet(Tail(q))
  <2>1. ASSUME NEW i \in 1 .. Len(q) PROVE q[i] \in {Head(q)} \cup ToSet(Tail(q))
    <3>1. CASE i = 1
      BY <1>1, <3>1
    <3>2. CASE i # 1
      <4>1. i - 1 \in 1 .. Len(q) - 1 /\ q[i] = Tail(q)[i - 1] /\ i - 1 \in DOMAIN Tail(q)
        BY <1>1, <3>2
      <4> QED BY <4>1 DEF ToSet
    <3> QED BY <3>1, <3>2
  <2>2. ASSUME NEW i \in 1 .. Len(q) - 1 PROVE Tail(q)[i] \in ToSet(q)
    <3>1. i + 1 \in DOMAIN q /\ Tail(q)[i] = q[i + 1]
      BY <1>1
    <3> QED BY <3>1 DEF ToSet
  <2>3. Head(q) \in ToSet(q)
    BY <1>1 DEF ToSet
  <2>4. DOMAIN q = 1 .. Len(q) /\ DOMAIN Tail(q) = 1 .. Len(q) - 1
    BY <1>1
  <2> QED BY <2>1, <2>2, <2>3, <2>4 DEF ToSet
<1> QED BY <1>1, <1>2

LEMMA InjectiveTail ==
  ASSUME NEW S, NEW q \in Seq(S), q # <<>>, IsInjective(q)
  PROVE  IsInjective(Tail(q)) /\ Head(q) \notin ToSet(Tail(q))
<1>1. /\ Len(q) \in Nat \ {0} /\ Head(q) = q[1] /\ Len(Tail(q)) = Len(q) - 1
      /\ \A i \in 1 .. Len(q) - 1 : Tail(q)[i] = q[i + 1]
      /\ DOMAIN q = 1 .. Len(q) /\ DOMAIN Tail(q) = 1 .. Len(q) - 1
  BY HeadAndTail
<1>2. ASSUME NEW i \in 1 .. Len(q) - 1 PROVE i + 1 \in DOMAIN q /\ 1 \in DOMAIN q /\ i + 1 # 1
  BY <1>1
<1>3. \A i, j \in DOMAIN q : q[i] = q[j] => i = j
  BY DEF IsInjective
<1>4. ASSUME NEW i \in 1 .. Len(q) - 1, NEW j \in 1 .. Len(q) - 1, Tail(q)[i] = Tail(q)[j] PROVE i = j
  <2>1. q[i + 1] = q[j + 1]
    BY <1>1, <1>4
  <2>2. i + 1 = j + 1
    BY <1>2, <1>3, <2>1
  <2> QED BY <1>1, <2>2
<1>5. ASSUME NEW i \in 1 .. Len(q) - 1 PROVE Tail(q)[i] # Head(q)
  BY <1>1, <1>2, <1>3
<1> QED BY <1>1, <1>4, <1>5 DEF IsInjective, ToSet

LEMMA InjectiveAppend ==
  ASSUME NEW S, NEW q \in Seq(S), NEW x \in S
  PROVE  /\ Append(q, x) \in Seq(S) /\ ToSet(Append(q, x)) = ToSet(q) \cup {x}
         /\ IsInjective(q) /\ x \notin ToSet(q) => IsInjective(Append(q, x))
<1> DEFINE r == Append(q, x)
           n == Len(q)
<1>1. /\ r \in Seq(S) /\ n \in Nat /\ Len(r) = n + 1 /\ r[n + 1] = x
      /\ \A i \in 1 .. n : r[i] = q[i]
      /\ DOMAIN q = 1 .. n /\ DOMAIN r = 1 .. n + 1
  OBVIOUS
<1> HIDE DEF r, n
<1>2. \A i \in 1 .. n + 1 : i \in 1 .. n \/ i = n + 1
  BY <1>1
<1>3. n + 1 \in 1 .. n + 1 /\ \A i \in 1 .. n : i \in 1 .. n + 1
  BY <1>1
<1>4. ToSet(r) = ToSet(q) \cup {x}
  BY <1>1, <1>2, <1>3 DEF ToSet
<1>5. ASSUME IsInjective(q), x \notin ToSet(q) PROVE IsInjective(r)
  <2>1. \A i, j \in 1 .. n : q[i] = q[j] => i = j
    BY <1>1, <1>5 DEF IsInjective
  <2>2. \A i \in 1 .. n : q[i] # x
    BY <1>1, <1>5 DEF ToSet
  <2> QED BY <1>1, <1>2, <2>1, <2>2 DEF IsInjective
<1> QED BY <1>1, <1>4, <1>5 DEF r

\* The line that is next.
LEMMA LineFacts ==
  ASSUME CorpusShape, build.lines # <<>>
  PROVE  /\ Head(build.lines) \in CorpusLines /\ LineHash \in Hashes
         /\ Tail(build.lines) \in Seq(CorpusLines)
         /\ \E t \in Targets : Head(build.lines) = <<t, LineHash>>
         /\ {l[2] : l \in ToSet(build.lines)} = {LineHash} \cup {l[2] : l \in ToSet(Tail(build.lines))}
<1>1. build.lines \in Seq(CorpusLines)
  BY DEF CorpusShape
<1>2. /\ Head(build.lines) \in CorpusLines /\ Tail(build.lines) \in Seq(CorpusLines)
      /\ ToSet(build.lines) = {Head(build.lines)} \cup ToSet(Tail(build.lines))
  BY <1>1, HeadAndTail
<1>3. {l[2] : l \in ToSet(build.lines)} = {LineHash} \cup {l[2] : l \in ToSet(Tail(build.lines))}
  BY <1>2 DEF LineHash
<1> QED BY <1>2, <1>3 DEF CorpusLines, LineHash

LEMMA FirstIsMember ==
  ASSUME NEW S \in SUBSET Names, S # {}
  PROVE  FirstOf(S) \in S
<1> DEFINE I == {i \in DOMAIN Batches : Batches[i] \in S}
<1>1. I \in SUBSET Nat /\ I # {}
  BY CorpusAssumption DEF Names, ToSet
<1>2. \E i \in I : \A j \in I : i <= j
  BY <1>1, LeastNatural
<1> HIDE DEF I
<1>3. Min(I) \in I
  BY <1>2 DEF Min
<1> QED BY <1>3 DEF I, FirstOf

LEMMA BeginBuildRight ==
  ASSUME CorpusRight, BeginBuild
  PROVE  CorpusRight'
<1>0. CorpusShape /\ BuildRight
  BY DEF CorpusRight
<1> DEFINE b == FirstOf(Unbuilt)
<1>1. /\ drain.phase = "build" /\ build = NoBuild /\ Unbuilt # {}
      /\ build' = [batch |-> b, lines |-> BatchLines(b), known |-> hashes, seen |-> {}, step |-> "write"]
      /\ UNCHANGED <<drain, slot, corpus, hashes, sources, loopState, sft, pairs, sftState, barren, gaps>>
  BY DEF BeginBuild, RestOfCorpus, KnownHashes
<1>2. b \in drain.todo /\ b \in Names
  <2>1. Unbuilt \in SUBSET Names /\ Unbuilt \subseteq drain.todo
    BY <1>0 DEF Unbuilt, CorpusShape
  <2>2. b \in Unbuilt
    BY <1>1, <2>1, FirstIsMember
  <2> QED BY <2>1, <2>2
<1>3. BatchLines(b) \in Seq(CorpusLines)
  BY <1>2, BatchLinesTyped
<1> HIDE DEF b
<1>4. CorpusShape'
  BY <1>0, <1>1, <1>2, <1>3 DEF CorpusShape
<1>5. build.step = "write" /\ build'.step = "write"
  BY <1>1 DEF NoBuild
<1>6. BuildRight'
  <2>1. /\ UNCHANGED <<Ledgered, Stray, Written>> /\ \A h : Lines(h)' = Lines(h) /\ Quota(h)' = Quota(h)
        /\ Ledgered' = hashes
    BY <1>1, <1>5 DEF Ledgered, Stray, Written, Lines, Quota
  <2>2. LinesAreCounted' /\ RowsAreCounted' /\ OkNotes' /\ OkMeansBuilt'
    BY <1>0, <1>1, <1>5, <2>1 DEF BuildRight, LinesAreCounted, RowsAreCounted, OkNotes, OkMeansBuilt
  <2>3. InBuild'
    BY <1>1, <1>2, <2>1 DEF InBuild, HashesOf
  <2> QED BY <2>2, <2>3 DEF BuildRight
<1>7. SlotsRight' /\ SftRight'
  BY <1>1, SlotsKept, SftKept DEF CorpusRight
<1> QED BY <1>4, <1>6, <1>7 DEF CorpusRight

LEMMA SkipLineRight ==
  ASSUME CorpusRight, SkipLine
  PROVE  CorpusRight'
<1>0. CorpusShape /\ BuildRight
  BY DEF CorpusRight
<1>1. /\ build # NoBuild /\ build.step = "write" /\ build.lines # <<>> /\ LineHash \in build.known \cup build.seen
      /\ build' = [build EXCEPT !.lines = Tail(build.lines)]
      /\ UNCHANGED <<drain, slot, corpus, hashes, sources, loopState, sft, pairs, sftState, barren, gaps>>
  BY DEF SkipLine, RestOfCorpus, LineHash
<1>2. /\ build'.lines = Tail(build.lines) /\ build'.step = "write" /\ build'.batch = build.batch
      /\ build'.known = build.known /\ build'.seen = build.seen
  BY <1>0, <1>1 DEF CorpusShape
<1>3. CorpusShape'
  BY <1>0, <1>1, LineFacts DEF CorpusShape
<1>4. BuildRight'
  <2>1. /\ UNCHANGED <<Ledgered, Stray, Written>> /\ \A h : Lines(h)' = Lines(h) /\ Quota(h)' = Quota(h)
        /\ Ledgered = hashes
    BY <1>1, <1>2 DEF Ledgered, Stray, Written, Lines, Quota
  <2>2. LinesAreCounted' /\ RowsAreCounted' /\ OkNotes' /\ OkMeansBuilt'
    BY <1>0, <1>1, <1>2, <2>1 DEF BuildRight, LinesAreCounted, RowsAreCounted, OkNotes, OkMeansBuilt
  <2>3. InBuild'
    <3>1. LineHash \in Written
      BY <1>0, <1>1 DEF BuildRight, InBuild, LinesAreCounted
    <3> QED BY <1>0, <1>1, <1>2, <2>1, <3>1, LineFacts DEF BuildRight, InBuild, HashesOf
  <2> QED BY <2>2, <2>3 DEF BuildRight
<1>5. SlotsRight' /\ SftRight'
  BY <1>1, SlotsKept, SftKept DEF CorpusRight
<1> QED BY <1>3, <1>4, <1>5 DEF CorpusRight

LEMMA WriteLineRight ==
  ASSUME CorpusRight, WriteLine
  PROVE  CorpusRight'
<1> DEFINE h == LineHash
<1>0. CorpusShape /\ BuildRight
  BY DEF CorpusRight
<1>1. /\ build # NoBuild /\ build.step = "write" /\ build.lines # <<>> /\ h \notin build.known \cup build.seen
      /\ corpus' = [corpus EXCEPT ![Head(build.lines)] = @ + 1]
      /\ build' = [build EXCEPT !.step = "ledger", !.seen = @ \cup {h}]
      /\ UNCHANGED <<drain, slot, hashes, sources, loopState, sft, pairs, sftState, barren, gaps>>
  BY DEF WriteLine, LineHash
<1>2. /\ build'.lines = build.lines /\ build'.step = "ledger" /\ build'.batch = build.batch
      /\ build'.known = build.known /\ build'.seen = build.seen \cup {h} /\ h \in Hashes
      /\ LineHash' = h
  BY <1>0, <1>1, LineFacts DEF CorpusShape, LineHash
<1>3. CorpusShape'
  <2>1. corpus' \in [CorpusLines -> Nat]
    BY <1>0, <1>1, LineFacts DEF CorpusShape
  <2> QED BY <1>0, <1>1, <1>2, <2>1 DEF CorpusShape
<1>4. \A x \in Hashes : Lines(x) \in Nat /\ Lines(x)' = Lines(x) + (IF x = h THEN 1 ELSE 0)
  <2>1. PICK t \in Targets : Head(build.lines) = <<t, h>>
    BY <1>0, <1>1, LineFacts
  <2>2. \A x \in Hashes, s \in Targets :
           corpus[<<s, x>>] \in Nat /\ corpus'[<<s, x>>] = corpus[<<s, x>>] + (IF s = t /\ x = h THEN 1 ELSE 0)
    <3>1. ASSUME NEW x \in Hashes, NEW s \in Targets
          PROVE  corpus[<<s, x>>] \in Nat /\ corpus'[<<s, x>>] = corpus[<<s, x>>] + (IF s = t /\ x = h THEN 1 ELSE 0)
      <4>1. <<s, x>> \in CorpusLines /\ <<t, h>> \in CorpusLines
        BY <1>2 DEF CorpusLines
      <4>2. corpus \in [CorpusLines -> Nat] /\ corpus' = [corpus EXCEPT ![<<t, h>>] = @ + 1]
        BY <1>0, <1>1, <2>1 DEF CorpusShape
      <4>3. <<s, x>> = <<t, h>> <=> s = t /\ x = h
        OBVIOUS
      <4> HIDE DEF h
      <4> QED BY <4>1, <4>2, <4>3
    <3> QED BY <3>1
  <2>3. {"dapt", "rag", "sft"} = Targets
    BY DEF Targets
  <2> HIDE DEF h
  <2> QED BY <2>2, <2>3 DEF Lines
<1>5. /\ Ledgered = hashes /\ Ledgered' = hashes \cup {h} /\ h \notin hashes
      /\ build.known \cup build.seen = hashes
  BY <1>0, <1>1, <1>2 DEF Ledgered, BuildRight, InBuild
<1>6. Written \subseteq Written' /\ h \in Written'
  BY <1>2, <1>4 DEF Written
<1> HIDE DEF h
<1>7. LinesAreCounted'
  <2>1. \A x \in Hashes : /\ Quota(x) \in Nat /\ Quota(x)' = Quota(x) + (IF x = h THEN 1 ELSE 0)
    BY <1>5 DEF Quota
  <2>2. Stray' = Stray
    BY <1>4, <2>1 DEF Stray
  <2>3. gaps'.line = gaps.line /\ gaps.line \in Nat
    BY <1>0, <1>1 DEF CorpusShape
  <2>4. \A x \in Hashes : Lines(x)' <= Quota(x)' + gaps.line
    BY <1>0, <1>4, <2>1, <2>3 DEF BuildRight, LinesAreCounted
  <2> QED BY <1>0, <1>5, <1>6, <2>2, <2>3, <2>4 DEF BuildRight, LinesAreCounted
<1>8. RowsAreCounted'
  BY <1>0, <1>1, <1>2 DEF BuildRight, RowsAreCounted
<1>9. OkNotes' /\ OkMeansBuilt'
  BY <1>0, <1>1, <1>6 DEF BuildRight, OkNotes, OkMeansBuilt
<1>10. InBuild'
  BY <1>0, <1>1, <1>2, <1>5, <1>6 DEF BuildRight, InBuild
<1>11. SlotsRight' /\ SftRight'
  BY <1>1, SlotsKept, SftKept DEF CorpusRight
<1> QED BY <1>3, <1>7, <1>8, <1>9, <1>10, <1>11 DEF CorpusRight, BuildRight

LEMMA RecordHashRight ==
  ASSUME CorpusRight, RecordHash
  PROVE  CorpusRight'
<1> DEFINE h == LineHash
<1>0. CorpusShape /\ BuildRight
  BY DEF CorpusRight
<1>1. /\ build.step = "ledger" /\ hashes' = hashes \cup {h} /\ build' = [build EXCEPT !.step = "source"]
      /\ UNCHANGED <<drain, slot, corpus, sources, loopState, sft, pairs, sftState, barren, gaps>>
  BY DEF RecordHash, LineHash
<1>2. build # NoBuild /\ build.lines # <<>> /\ h \notin hashes /\ h \in Hashes
  <2>1. build # NoBuild
    BY <1>1 DEF NoBuild
  <2>2. build.lines # <<>> /\ h \notin hashes
    BY <1>0, <1>1, <2>1 DEF BuildRight, InBuild
  <2> QED BY <1>0, <2>1, <2>2, LineFacts
<1>3. /\ build'.lines = build.lines /\ build'.step = "source" /\ build'.batch = build.batch
      /\ build'.known = build.known /\ build'.seen = build.seen /\ LineHash' = h
  BY <1>0, <1>1 DEF CorpusShape, LineHash
<1>4. CorpusShape'
  BY <1>0, <1>1, <1>2 DEF CorpusShape
<1> HIDE DEF h
<1>5. /\ UNCHANGED <<Ledgered, Stray, Written>> /\ \A x : Lines(x)' = Lines(x) /\ Quota(x)' = Quota(x)
  <2>1. Ledgered' = Ledgered
    BY <1>1, <1>3 DEF Ledgered, h
  <2> QED BY <1>1, <2>1 DEF Stray, Written, Lines, Quota
<1>6. LinesAreCounted' /\ OkNotes' /\ OkMeansBuilt'
  BY <1>0, <1>1, <1>5 DEF BuildRight, LinesAreCounted, OkNotes, OkMeansBuilt
<1>7. RowsAreCounted'
  <2>1. IsFiniteSet(hashes \ sources)
    BY <1>0, HashesAreFinite, FS_Subset DEF CorpusShape
  <2>2. h \notin sources
    BY <1>0, <1>2 DEF CorpusShape
  <2>3. hashes' \ sources' = (hashes \ sources) \cup {h}
    BY <1>1, <2>2
  <2>4. Cardinality(hashes' \ sources') <= Cardinality(hashes \ sources) + 1
        /\ Cardinality(hashes' \ sources') \in Nat /\ Cardinality(hashes \ sources) \in Nat
    BY <2>1, <2>3, AddOne
  <2>5. Cardinality(hashes \ sources) <= gaps.row /\ gaps.row \in Nat /\ gaps' = gaps
    BY <1>0, <1>1 DEF BuildRight, RowsAreCounted, CorpusShape
  <2> QED BY <1>3, <2>4, <2>5 DEF RowsAreCounted
<1>8. InBuild'
  <2>1. h \in hashes' \ sources'
    BY <1>0, <1>1, <1>2 DEF CorpusShape
  <2> QED BY <1>0, <1>1, <1>2, <1>3, <1>5, <2>1 DEF BuildRight, InBuild
<1>9. SlotsRight' /\ SftRight'
  BY <1>1, SlotsKept, SftKept DEF CorpusRight
<1> QED BY <1>4, <1>6, <1>7, <1>8, <1>9 DEF CorpusRight, BuildRight

LEMMA RecordSourceRight ==
  ASSUME CorpusRight, RecordSource
  PROVE  CorpusRight'
<1> DEFINE h == LineHash
<1>0. CorpusShape /\ BuildRight
  BY DEF CorpusRight
<1>1. /\ build.step = "source" /\ sources' = sources \cup {h}
      /\ build' = [build EXCEPT !.step = "write", !.lines = Tail(@)]
      /\ UNCHANGED <<drain, slot, corpus, hashes, loopState, sft, pairs, sftState, barren, gaps>>
  BY DEF RecordSource, LineHash
<1>2. build # NoBuild /\ build.lines # <<>> /\ h \in hashes /\ h \notin sources
  <2>1. build # NoBuild
    BY <1>1 DEF NoBuild
  <2> QED BY <1>0, <1>1, <2>1 DEF BuildRight, InBuild
<1>3. /\ build'.lines = Tail(build.lines) /\ build'.step = "write" /\ build'.batch = build.batch
      /\ build'.known = build.known /\ build'.seen = build.seen
  BY <1>0, <1>1 DEF CorpusShape
<1>4. CorpusShape'
  <2>1. Tail(build.lines) \in Seq(CorpusLines)
    BY <1>0, <1>2, LineFacts
  <2>2. build' \in [batch : Names \cup {"none"}, lines : Seq(CorpusLines), known : SUBSET Hashes,
                    seen : SUBSET Hashes, step : {"write", "ledger", "source"}]
    BY <1>0, <1>1, <2>1 DEF CorpusShape
  <2>3. sources' \subseteq hashes'
    BY <1>0, <1>1, <1>2 DEF CorpusShape
  <2> QED BY <1>0, <1>1, <2>2, <2>3 DEF CorpusShape
<1>5. /\ UNCHANGED <<Ledgered, Stray, Written>> /\ \A x : Lines(x)' = Lines(x) /\ Quota(x)' = Quota(x)
      /\ Ledgered = hashes
  BY <1>1, <1>3 DEF Ledgered, Stray, Written, Lines, Quota
<1>6. LinesAreCounted' /\ OkNotes' /\ OkMeansBuilt'
  BY <1>0, <1>1, <1>5 DEF BuildRight, LinesAreCounted, OkNotes, OkMeansBuilt
<1>7. InBuild'
  <2>1. h \in Written
    BY <1>0, <1>2, <1>5 DEF BuildRight, LinesAreCounted
  <2>2. {l[2] : l \in ToSet(build.lines)} = {h} \cup {l[2] : l \in ToSet(Tail(build.lines))}
    BY <1>0, <1>2, LineFacts
  <2> HIDE DEF h
  <2> QED BY <1>0, <1>1, <1>2, <1>3, <1>5, <2>1, <2>2 DEF BuildRight, InBuild
<1> HIDE DEF h
<1>8. RowsAreCounted'
  <2>1. IsFiniteSet(hashes \ sources)
    BY <1>0, HashesAreFinite, FS_Subset DEF CorpusShape
  <2>2. hashes' \ sources' = (hashes \ sources) \ {h} /\ h \in hashes \ sources
    BY <1>1, <1>2
  <2>3. Cardinality(hashes' \ sources') = Cardinality(hashes \ sources) - 1 /\ Cardinality(hashes \ sources) \in Nat
    BY <2>1, <2>2, FS_RemoveElement, FS_CardinalityType
  <2>4. Cardinality(hashes \ sources) <= gaps.row + 1 /\ gaps.row \in Nat /\ gaps' = gaps
    BY <1>0, <1>1 DEF BuildRight, RowsAreCounted, CorpusShape
  <2> QED BY <1>3, <2>3, <2>4 DEF RowsAreCounted
<1>9. SlotsRight' /\ SftRight'
  BY <1>1, SlotsKept, SftKept DEF CorpusRight
<1> QED BY <1>4, <1>6, <1>7, <1>8, <1>9 DEF CorpusRight, BuildRight

\* A batch gets its note.
LEMMA MarkFacts ==
  ASSUME CorpusShape, NEW b \in drain.todo, NEW status, drain' = Mark(b, status)
  PROVE  /\ drain'.phase = drain.phase /\ drain'.todo = drain.todo
         /\ drain' = [phase |-> drain'.phase, todo |-> drain'.todo, state |-> drain'.state]
         /\ DOMAIN drain'.state = DOMAIN drain.state \cup {b} /\ DOMAIN drain'.state \subseteq drain.todo
         /\ \A x \in DOMAIN drain'.state : drain'.state[x] = IF x = b THEN status ELSE drain.state[x]
BY DEF CorpusShape, Mark

LEMMA BuildDoneRight ==
  ASSUME CorpusRight, BuildDone
  PROVE  CorpusRight'
<1>0. CorpusShape /\ BuildRight
  BY DEF CorpusRight
<1>1. /\ build # NoBuild /\ build.step = "write" /\ build.lines = <<>>
      /\ drain' = Mark(build.batch, "ok") /\ build' = NoBuild
      /\ UNCHANGED <<slot, corpus, hashes, sources, loopState, sft, pairs, sftState, barren, gaps>>
  BY DEF BuildDone, RestOfCorpus
<1>2. build.batch \in drain.todo /\ drain.phase = "build" /\ HashesOf(build.batch) \subseteq Written
  BY <1>0, <1>1 DEF BuildRight, InBuild, ToSet
<1>3. /\ drain'.phase = "build" /\ drain'.todo = drain.todo
      /\ drain' = [phase |-> drain'.phase, todo |-> drain'.todo, state |-> drain'.state]
      /\ DOMAIN drain'.state = DOMAIN drain.state \cup {build.batch} /\ DOMAIN drain'.state \subseteq drain.todo
      /\ \A x \in DOMAIN drain'.state : drain'.state[x] = IF x = build.batch THEN "ok" ELSE drain.state[x]
  BY <1>0, <1>1, <1>2, MarkFacts
<1>4. CorpusShape'
  BY <1>0, <1>1, <1>3 DEF CorpusShape, NoBuild
<1>5. BuildRight'
  <2>0. build'.step = "write"
    BY <1>1 DEF NoBuild
  <2>1. /\ UNCHANGED <<Ledgered, Stray, Written>> /\ \A h : Lines(h)' = Lines(h) /\ Quota(h)' = Quota(h)
    BY <1>1, <2>0 DEF Ledgered, Stray, Written, Lines, Quota
  <2>2. LinesAreCounted' /\ RowsAreCounted' /\ OkMeansBuilt'
    BY <1>0, <1>1, <2>0, <2>1 DEF BuildRight, LinesAreCounted, RowsAreCounted, OkMeansBuilt
  <2>3. InBuild'
    BY <1>1 DEF InBuild
  <2>4. OkNotes'
    BY <1>0, <1>2, <1>3, <2>1 DEF BuildRight, OkNotes
  <2> QED BY <2>2, <2>3, <2>4 DEF BuildRight
<1>6. SlotsRight' /\ SftRight'
  BY <1>1, <1>2, <1>3, SlotsKept, SftKept DEF CorpusRight
<1> QED BY <1>4, <1>5, <1>6 DEF CorpusRight

\* What an interruption of write_records leaves is counted.
LEMMA InterruptedBuild ==
  ASSUME CorpusRight, build' = NoBuild, gaps' = Interrupted,
         UNCHANGED <<corpus, hashes, sources, loopState>>, OkNotes'
  PROVE  BuildRight'
<1>0. CorpusShape /\ BuildRight /\ build'.step = "write" /\ Ledgered' = hashes
  BY DEF CorpusRight, NoBuild, Ledgered
<1>1. /\ gaps'.line = gaps.line + (IF build.step = "ledger" THEN 1 ELSE 0)
      /\ gaps'.row = gaps.row + (IF build.step = "source" THEN 1 ELSE 0)
      /\ gaps.line \in Nat /\ gaps.row \in Nat
  BY <1>0 DEF Interrupted, CorpusShape
<1>2. UNCHANGED Written /\ \A h \in Hashes : Lines(h)' = Lines(h) /\ Lines(h) \in Nat
  BY <1>0 DEF Written, Lines, CorpusShape, CorpusLines, Targets
<1>3. LinesAreCounted'
  <2>1. IsFiniteSet(Stray) /\ Cardinality(Stray) \in Nat /\ Cardinality(Stray) <= gaps.line
    BY <1>0, HashesAreFinite, FS_Subset, FS_CardinalityType DEF Stray, BuildRight, LinesAreCounted
  <2>2. CASE build.step = "ledger"
    <3>1. Ledgered = hashes \cup {LineHash}
      BY <2>2 DEF Ledgered
    <3>2. \A h \in Hashes : Quota(h) \in {0, 1} /\ Quota(h)' \in {0, 1} /\ Quota(h) <= Quota(h)' + 1
                            /\ (h # LineHash => Quota(h)' = Quota(h))
      BY <1>0, <3>1 DEF Quota
    <3>3. Stray' \subseteq Stray \cup {LineHash}
      BY <1>2, <3>2 DEF Stray
    <3>4. IsFiniteSet(Stray \cup {LineHash}) /\ Cardinality(Stray \cup {LineHash}) <= Cardinality(Stray) + 1
          /\ Cardinality(Stray \cup {LineHash}) \in Nat
      BY <2>1, AddOne
    <3>5. Cardinality(Stray') <= Cardinality(Stray \cup {LineHash}) /\ Cardinality(Stray') \in Nat
      BY <3>3, <3>4, FS_Subset, FS_CardinalityType
    <3>6. Cardinality(Stray') <= gaps'.line
      BY <1>1, <2>1, <2>2, <3>4, <3>5
    <3>7. \A h \in Hashes : Lines(h)' <= Quota(h)' + gaps'.line
      BY <1>0, <1>1, <1>2, <2>2, <3>2 DEF BuildRight, LinesAreCounted
    <3> QED BY <1>0, <1>2, <3>1, <3>6, <3>7 DEF BuildRight, LinesAreCounted
  <2>3. CASE build.step # "ledger"
    <3>1. Ledgered = hashes
      BY <2>3 DEF Ledgered
    <3>2. \A h \in Hashes : Quota(h)' = Quota(h)
      BY <1>0, <3>1 DEF Quota
    <3>3. Stray' = Stray
      BY <1>2, <3>2 DEF Stray
    <3>4. gaps'.line = gaps.line
      BY <1>1, <2>3
    <3> QED BY <1>0, <1>2, <3>1, <3>2, <3>3, <3>4 DEF BuildRight, LinesAreCounted
  <2> QED BY <2>2, <2>3
<1>4. RowsAreCounted'
  <2>1. Cardinality(hashes \ sources) \in Nat
    BY <1>0, HashesAreFinite, FS_Subset, FS_CardinalityType DEF CorpusShape
  <2> QED BY <1>0, <1>1, <2>1 DEF BuildRight, RowsAreCounted
<1>5. InBuild' /\ OkMeansBuilt'
  BY <1>0, <1>2 DEF BuildRight, InBuild, OkMeansBuilt
<1> QED BY <1>3, <1>4, <1>5 DEF BuildRight

LEMMA GapsTyped ==
  ASSUME CorpusShape, gaps' = Interrupted
  PROVE  /\ gaps' \in [line : Nat, row : Nat, sft : Nat]
         /\ gaps'.sft = gaps.sft + (IF drain.phase = "sft" THEN 1 ELSE 0)
<1>1. gaps \in [line : Nat, row : Nat, sft : Nat]
  BY DEF CorpusShape
<1> DEFINE a == IF build.step = "ledger" THEN 1 ELSE 0
           b == IF build.step = "source" THEN 1 ELSE 0
           c == IF drain.phase = "sft" THEN 1 ELSE 0
<1>2. a \in Nat /\ b \in Nat /\ c \in Nat
  OBVIOUS
<1>3. gaps' = [gaps EXCEPT !.line = @ + a, !.row = @ + b, !.sft = @ + c]
  BY DEF Interrupted
<1> HIDE DEF a, b, c
<1>4. gaps' \in [line : Nat, row : Nat, sft : Nat] /\ gaps'.sft = gaps.sft + c
  <2>1. gaps = [line |-> gaps.line, row |-> gaps.row, sft |-> gaps.sft]
        /\ gaps.line \in Nat /\ gaps.row \in Nat /\ gaps.sft \in Nat
    BY <1>1
  <2>2. gaps' = [line |-> gaps.line + a, row |-> gaps.row + b, sft |-> gaps.sft + c]
    BY <1>3, <2>1
  <2>3. gaps.line + a \in Nat /\ gaps.row + b \in Nat /\ gaps.sft + c \in Nat
    BY <1>2, <2>1
  <2> QED BY <2>2, <2>3
<1> QED BY <1>4 DEF c

LEMMA BuildFailsRight ==
  ASSUME CorpusRight, BuildFails
  PROVE  CorpusRight'
<1>0. CorpusShape /\ BuildRight
  BY DEF CorpusRight
<1>1. /\ build # NoBuild /\ drain' = Mark(build.batch, "failed") /\ build' = NoBuild /\ gaps' = Interrupted
      /\ UNCHANGED <<slot, corpus, hashes, sources, loopState, sft, pairs, sftState, barren>>
  BY DEF BuildFails
<1>2. build.batch \in drain.todo /\ drain.phase = "build"
  BY <1>0, <1>1 DEF BuildRight, InBuild
<1>3. /\ drain'.phase = "build" /\ drain'.todo = drain.todo
      /\ drain' = [phase |-> drain'.phase, todo |-> drain'.todo, state |-> drain'.state]
      /\ DOMAIN drain'.state = DOMAIN drain.state \cup {build.batch} /\ DOMAIN drain'.state \subseteq drain.todo
      /\ \A x \in DOMAIN drain'.state : drain'.state[x] = IF x = build.batch THEN "failed" ELSE drain.state[x]
  BY <1>0, <1>1, <1>2, MarkFacts
<1>4. gaps' \in [line : Nat, row : Nat, sft : Nat] /\ gaps'.sft = gaps.sft
  BY <1>0, <1>1, <1>2, GapsTyped DEF CorpusShape
<1>5. CorpusShape'
  BY <1>0, <1>1, <1>3, <1>4 DEF CorpusShape, NoBuild
<1>6. BuildRight'
  <2>1. Written' = Written
    BY <1>1 DEF Written, Lines
  <2>2. OkNotes'
    BY <1>0, <1>3, <2>1 DEF BuildRight, OkNotes
  <2> QED BY <1>1, <2>2, InterruptedBuild
<1>7. SlotsRight' /\ SftRight'
  BY <1>1, <1>2, <1>3, <1>4, SlotsKept, SftKept DEF CorpusRight
<1> QED BY <1>5, <1>6, <1>7 DEF CorpusRight

-----------------------------------------------------------------------------
(* generate_sft and the end of the drain                                     *)

\* What is on disk when the first n pairs of the buffer are.
LEMMA OnDiskFacts ==
  ASSUME CorpusShape, IsInjective(sft.buffer), NEW n \in 0 .. Len(sft.buffer)
  PROVE  /\ OnDisk(n) \in [Hashes -> Nat]
         /\ \A h \in Hashes :
              /\ pairs[h] <= OnDisk(n)[h]
              /\ OnDisk(n)[h] <= pairs[h] + (IF h \in ToSet(sft.buffer) THEN 1 ELSE 0)
              /\ n = Len(sft.buffer) /\ h \in ToSet(sft.buffer) => OnDisk(n)[h] > 0
<1> DEFINE q == sft.buffer
           At(h) == {i \in 1 .. n : q[i] = h}
<1>0. q \in Seq(Hashes) /\ pairs \in [Hashes -> Nat] /\ DOMAIN q = 1 .. Len(q) /\ n \in Nat /\ Len(q) \in Nat
  BY DEF CorpusShape
<1>1. ASSUME NEW h \in Hashes
      PROVE  /\ Cardinality(At(h)) \in {0, 1}
             /\ h \notin ToSet(q) => Cardinality(At(h)) = 0
             /\ n = Len(q) /\ h \in ToSet(q) => Cardinality(At(h)) = 1
  <2>1. CASE At(h) = {}
    <3>1. Cardinality(At(h)) = 0
      BY <2>1, FS_EmptySet
    <3>2. ~(n = Len(q) /\ h \in ToSet(q))
      BY <1>0, <2>1 DEF ToSet
    <3> QED BY <3>1, <3>2
  <2>2. CASE At(h) # {}
    <3>1. PICK i \in At(h) : TRUE
      BY <2>2
    <3>2. i \in DOMAIN q /\ h \in ToSet(q)
      BY <1>0, <3>1 DEF ToSet
    <3>3. At(h) = {i}
      <4>1. ASSUME NEW j \in At(h) PROVE j = i
        <5>1. i \in DOMAIN q /\ j \in DOMAIN q /\ q[i] = q[j]
          BY <1>0, <3>1
        <5> QED BY <5>1 DEF IsInjective
      <4> QED BY <3>1, <4>1
    <3>4. Cardinality(At(h)) = 1
      BY <3>3, FS_Singleton
    <3> QED BY <3>2, <3>4
  <2> QED BY <2>1, <2>2
<1>2. OnDisk(n) = [h \in Hashes |-> pairs[h] + Cardinality(At(h))]
  BY DEF OnDisk
<1> HIDE DEF q, At
<1>3. ASSUME NEW h \in Hashes
      PROVE  /\ OnDisk(n)[h] = pairs[h] + Cardinality(At(h)) /\ pairs[h] \in Nat
             /\ OnDisk(n)[h] \in Nat
  <2>1. OnDisk(n)[h] = pairs[h] + Cardinality(At(h))
    BY <1>2
  <2>2. Cardinality(At(h)) \in {0, 1} /\ pairs[h] \in Nat
    BY <1>0, <1>1
  <2> QED BY <2>1, <2>2
<1>4. OnDisk(n) \in [Hashes -> Nat]
  BY <1>2, <1>3
<1> QED BY <1>1, <1>3, <1>4 DEF q

LEMMA BeginSftRight ==
  ASSUME CorpusRight, BeginSft
  PROVE  CorpusRight'
<1>0. CorpusShape /\ SftRight
  BY DEF CorpusRight
<1> DEFINE fresh == RagHashes \ sftState
<1>1. /\ drain.phase = "build" /\ build = NoBuild
      /\ drain' = [drain EXCEPT !.phase = "sft"]
      /\ sft' = [left |-> SetToSeq(fresh), seen |-> sftState, buffer |-> <<>>]
      /\ UNCHANGED <<slot, build, corpus, hashes, sources, loopState, pairs, sftState, barren, gaps>>
  BY DEF BeginSft
<1>2. fresh \subseteq Hashes /\ IsFiniteSet(fresh) /\ fresh \cap sftState = {}
  BY HashesAreFinite, FS_Subset DEF RagHashes
<1> HIDE DEF fresh
<1>3. SetToSeq(fresh) \in Seq(Hashes) /\ IsInjective(SetToSeq(fresh)) /\ ToSet(SetToSeq(fresh)) = fresh
  BY <1>2, SetToSeqFacts
<1>4. drain' = [phase |-> "sft", todo |-> drain.todo, state |-> drain.state]
  BY <1>0, <1>1 DEF CorpusShape
<1>5. CorpusShape'
  <2>1. sft' \in [left : Seq(Hashes), seen : SUBSET Hashes, buffer : Seq(Hashes)]
    BY <1>0, <1>1, <1>3 DEF CorpusShape
  <2> QED BY <1>0, <1>1, <1>4, <2>1 DEF CorpusShape
<1>6. SlotsRight'
  BY <1>1, <1>4, SlotsKept DEF CorpusRight
<1>7. BuildRight'
  <2>1. OkNotes'
    BY <1>1, <1>4, NotesKept DEF CorpusRight
  <2> QED BY <1>1, <2>1, BuildKept DEF CorpusRight
<1>8. InSft'
  BY <1>1, <1>2, <1>3, <1>4 DEF InSft, ToSet, IsInjective
<1>9. PairsAreCounted'
  <2>1. Paired = sftState /\ Paired' = sftState
    BY <1>1, <1>4 DEF Paired, ToSet
  <2> QED BY <1>0, <1>1, <2>1 DEF SftRight, PairsAreCounted
<1> QED BY <1>5, <1>6, <1>7, <1>8, <1>9 DEF CorpusRight, SftRight

LEMMA GeneratePairsRight ==
  ASSUME CorpusRight, NEW some \in BOOLEAN, GeneratePairs(some)
  PROVE  CorpusRight'
<1>0. CorpusShape /\ SftRight
  BY DEF CorpusRight
<1> DEFINE h == Head(sft.left)
           b == IF some THEN Append(sft.buffer, h) ELSE sft.buffer
<1>1. /\ drain.phase = "sft" /\ sft.left # <<>>
      /\ sft' = [left |-> Tail(sft.left), seen |-> sft.seen \cup {h}, buffer |-> b]
      /\ barren' = IF some THEN barren \ {h} ELSE barren \cup {h}
      /\ UNCHANGED <<drain, slot, build, corpus, hashes, sources, loopState, pairs, sftState, gaps>>
  BY DEF GeneratePairs
<1>2. sft.left \in Seq(Hashes) /\ sft.buffer \in Seq(Hashes)
  BY <1>0 DEF CorpusShape
<1>3. /\ IsInjective(sft.left) /\ ToSet(sft.left) \cap sft.seen = {}
      /\ IsInjective(sft.buffer) /\ ToSet(sft.buffer) \subseteq sft.seen \ sftState
      /\ sftState \subseteq sft.seen
  BY <1>0, <1>1 DEF SftRight, InSft
<1>4. /\ h \in Hashes /\ Tail(sft.left) \in Seq(Hashes) /\ ToSet(sft.left) = {h} \cup ToSet(Tail(sft.left))
  BY <1>1, <1>2, HeadAndTail
<1>5. h \notin ToSet(Tail(sft.left)) /\ IsInjective(Tail(sft.left))
  BY <1>1, <1>2, <1>3, InjectiveTail
<1>6. h \notin sft.seen /\ h \notin ToSet(sft.buffer)
  BY <1>3, <1>4
<1>7. /\ b \in Seq(Hashes) /\ IsInjective(b)
      /\ ToSet(b) = ToSet(sft.buffer) \cup (IF some THEN {h} ELSE {})
  <2>1. /\ Append(sft.buffer, h) \in Seq(Hashes) /\ IsInjective(Append(sft.buffer, h))
        /\ ToSet(Append(sft.buffer, h)) = ToSet(sft.buffer) \cup {h}
    BY <1>2, <1>3, <1>4, <1>6, InjectiveAppend
  <2> QED BY <1>2, <1>3, <2>1
<1> HIDE DEF h, b
<1>8. CorpusShape'
  BY <1>0, <1>1, <1>4, <1>7 DEF CorpusShape
<1>9. SlotsRight'
  BY <1>1, SlotsKept DEF CorpusRight
<1>10. BuildRight'
  <2>1. OkNotes'
    BY <1>1, NotesKept DEF CorpusRight
  <2> QED BY <1>1, <2>1, BuildKept DEF CorpusRight
<1>11. /\ sft'.left = Tail(sft.left) /\ sft'.seen = sft.seen \cup {h}
       /\ sft'.buffer = b
  BY <1>1
<1>12. InSft'
  BY <1>1, <1>3, <1>4, <1>5, <1>6, <1>7, <1>11 DEF InSft
<1>13. PairsAreCounted'
  <2>1. Paired' = (IF some THEN Paired ELSE Paired \cup {h}) /\ h \notin Paired
    BY <1>1, <1>3, <1>6, <1>7, <1>11 DEF Paired
  <2>2. /\ \A x \in Hashes : /\ x \in Paired => pairs[x] > 0 \/ x \in barren
                             /\ pairs[x] <= gaps.sft + (IF x \in Paired THEN 1 ELSE 0)
                             /\ pairs[x] \in Nat
        /\ gaps.sft \in Nat
    BY <1>0 DEF SftRight, PairsAreCounted, CorpusShape
  <2> HIDE DEF Paired
  <2>3. ASSUME NEW x \in Hashes
        PROVE  /\ x \in Paired' => pairs'[x] > 0 \/ x \in barren'
               /\ pairs'[x] <= gaps'.sft + (IF x \in Paired' THEN 1 ELSE 0)
    <3>1. x \in Paired' => pairs'[x] > 0 \/ x \in barren'
      BY <1>1, <2>1, <2>2
    <3>2. pairs'[x] <= gaps'.sft + (IF x \in Paired' THEN 1 ELSE 0)
      BY <1>1, <2>1, <2>2
    <3> QED BY <3>1, <3>2
  <2> QED BY <2>3 DEF PairsAreCounted
<1> QED BY <1>8, <1>9, <1>10, <1>12, <1>13 DEF CorpusRight, SftRight

LEMMA SkipRestrictedRight ==
  ASSUME CorpusRight, SkipRestricted
  PROVE  CorpusRight'
<1>0. CorpusShape /\ SftRight
  BY DEF CorpusRight
<1>1. /\ drain.phase = "sft" /\ sft.left # <<>> /\ sft' = [sft EXCEPT !.left = Tail(@)]
      /\ UNCHANGED <<drain, slot, build, corpus, hashes, sources, loopState, pairs, sftState, barren, gaps>>
  BY DEF SkipRestricted
<1>2. /\ sft' = [left |-> Tail(sft.left), seen |-> sft.seen, buffer |-> sft.buffer]
      /\ sft.left \in Seq(Hashes)
  BY <1>0, <1>1 DEF CorpusShape
<1>3. /\ Tail(sft.left) \in Seq(Hashes) /\ ToSet(sft.left) = {Head(sft.left)} \cup ToSet(Tail(sft.left))
  BY <1>1, <1>2, HeadAndTail
<1>4. IsInjective(Tail(sft.left))
  <2>1. IsInjective(sft.left)
    BY <1>0, <1>1 DEF SftRight, InSft
  <2> QED BY <1>1, <1>2, <2>1, InjectiveTail
<1>5. CorpusShape'
  BY <1>0, <1>1, <1>2, <1>3 DEF CorpusShape
<1>6. SlotsRight'
  BY <1>1, SlotsKept DEF CorpusRight
<1>7. BuildRight'
  <2>1. OkNotes'
    BY <1>1, NotesKept DEF CorpusRight
  <2> QED BY <1>1, <2>1, BuildKept DEF CorpusRight
<1>8. SftRight'
  <2>1. Paired' = Paired
    BY <1>1, <1>2 DEF Paired
  <2>2. sft'.left = Tail(sft.left) /\ sft'.seen = sft.seen /\ sft'.buffer = sft.buffer
    BY <1>2
  <2>3. InSft'
    BY <1>0, <1>1, <1>3, <1>4, <2>2 DEF SftRight, InSft
  <2>4. PairsAreCounted'
    BY <1>0, <1>1, <2>1 DEF SftRight, PairsAreCounted
  <2> QED BY <2>3, <2>4 DEF SftRight
<1> QED BY <1>5, <1>6, <1>7, <1>8 DEF CorpusRight

LEMMA CloseSftRight ==
  ASSUME CorpusRight, CloseSft
  PROVE  CorpusRight'
<1>0. CorpusShape /\ SftRight
  BY DEF CorpusRight
<1>1. /\ drain.phase = "sft" /\ sft.left = <<>>
      /\ pairs' = OnDisk(Len(sft.buffer)) /\ sft' = [sft EXCEPT !.buffer = <<>>]
      /\ UNCHANGED <<drain, slot, build, corpus, hashes, sources, loopState, sftState, barren, gaps>>
  BY DEF CloseSft
<1>2. /\ IsInjective(sft.buffer) /\ ToSet(sft.buffer) \subseteq sft.seen \ sftState
      /\ sftState \subseteq sft.seen /\ Len(sft.buffer) \in 0 .. Len(sft.buffer)
  BY <1>0, <1>1 DEF SftRight, InSft, CorpusShape
<1>3. /\ pairs' \in [Hashes -> Nat]
      /\ \A h \in Hashes :
              /\ pairs[h] <= pairs'[h]
              /\ pairs'[h] <= pairs[h] + (IF h \in ToSet(sft.buffer) THEN 1 ELSE 0)
              /\ h \in ToSet(sft.buffer) => pairs'[h] > 0
  BY <1>0, <1>1, <1>2, OnDiskFacts
<1>4. sft'.left = <<>> /\ sft'.seen = sft.seen /\ sft'.buffer = <<>>
  BY <1>0, <1>1 DEF CorpusShape
<1>5. CorpusShape'
  BY <1>0, <1>1, <1>3 DEF CorpusShape
<1>6. SlotsRight'
  BY <1>1, SlotsKept DEF CorpusRight
<1>7. BuildRight'
  <2>1. OkNotes'
    BY <1>1, NotesKept DEF CorpusRight
  <2> QED BY <1>1, <2>1, BuildKept DEF CorpusRight
<1>8. InSft'
  BY <1>1, <1>2, <1>4 DEF InSft, ToSet, IsInjective
<1>9. PairsAreCounted'
  <2>1. Paired = sft.seen \ ToSet(sft.buffer) /\ Paired' = sft.seen
    BY <1>1, <1>4 DEF Paired, ToSet
  <2>2. \A h \in Hashes : pairs[h] \in Nat /\ pairs'[h] \in Nat /\ gaps.sft \in Nat
    BY <1>0, <1>3 DEF CorpusShape
  <2>3. \A h \in Hashes : /\ h \in sft.seen \ ToSet(sft.buffer) => pairs[h] > 0 \/ h \in barren
                          /\ pairs[h] <= gaps.sft + (IF h \in sft.seen \ ToSet(sft.buffer) THEN 1 ELSE 0)
    BY <1>0, <2>1 DEF SftRight, PairsAreCounted
  <2>4. ASSUME NEW h \in Hashes
        PROVE  /\ h \in sft.seen => pairs'[h] > 0 \/ h \in barren
               /\ pairs'[h] <= gaps.sft + (IF h \in sft.seen THEN 1 ELSE 0)
    BY <1>2, <1>3, <2>2, <2>3
  <2> QED BY <1>1, <2>1, <2>4 DEF PairsAreCounted
<1> QED BY <1>5, <1>6, <1>7, <1>8, <1>9 DEF CorpusRight, SftRight

LEMMA SaveSftRight ==
  ASSUME CorpusRight, SaveSft
  PROVE  CorpusRight'
<1>0. CorpusShape /\ SftRight
  BY DEF CorpusRight
<1>1. /\ drain.phase = "sft" /\ sft.buffer = <<>> /\ sftState' = sft.seen
      /\ drain' = [drain EXCEPT !.phase = "save"]
      /\ UNCHANGED <<slot, build, corpus, hashes, sources, loopState, sft, pairs, barren, gaps>>
  BY DEF SaveSft, ReadyToSave, ClosedFirst
<1>2. drain' = [phase |-> "save", todo |-> drain.todo, state |-> drain.state] /\ build = NoBuild
  BY <1>0, <1>1 DEF CorpusShape, CorpusRight, BuildRight, InBuild
<1>3. CorpusShape'
  BY <1>0, <1>1, <1>2 DEF CorpusShape
<1>4. SlotsRight'
  BY <1>1, <1>2, SlotsKept DEF CorpusRight
<1>5. BuildRight'
  <2>1. OkNotes'
    BY <1>1, <1>2, NotesKept DEF CorpusRight
  <2> QED BY <1>1, <1>2, <2>1, BuildKept DEF CorpusRight
<1>6. SftRight'
  <2>1. Paired = sft.seen /\ Paired' = sft.seen
    BY <1>1, <1>2 DEF Paired, ToSet
  <2> QED BY <1>0, <1>1, <1>2, <2>1 DEF SftRight, PairsAreCounted, InSft
<1> QED BY <1>3, <1>4, <1>5, <1>6 DEF CorpusRight

LEMMA SkipSftRight ==
  ASSUME CorpusRight, SkipSft
  PROVE  CorpusRight'
<1>0. CorpusShape
  BY DEF CorpusRight
<1>1. /\ drain.phase = "build" /\ build = NoBuild /\ drain' = [drain EXCEPT !.phase = "save"]
      /\ UNCHANGED <<slot, build, corpus, hashes, sources, loopState, sft, pairs, sftState, barren, gaps>>
  BY DEF SkipSft, RestOfCorpus
<1>2. drain' = [phase |-> "save", todo |-> drain.todo, state |-> drain.state]
  BY <1>0, <1>1 DEF CorpusShape
<1>3. CorpusShape'
  BY <1>0, <1>1, <1>2 DEF CorpusShape
<1>4. SlotsRight' /\ SftRight'
  BY <1>1, <1>2, SlotsKept, SftKept DEF CorpusRight
<1>5. BuildRight'
  <2>1. OkNotes'
    BY <1>1, <1>2, NotesKept DEF CorpusRight
  <2> QED BY <1>1, <2>1, BuildKept DEF CorpusRight
<1> QED BY <1>3, <1>4, <1>5 DEF CorpusRight

\* The pass is cut short with n pairs of its buffer on disk.
LEMMA InterruptedSft ==
  ASSUME CorpusRight, gaps' = Interrupted, UNCHANGED <<sftState, barren>>, sft' = NoSft, drain'.phase # "sft",
         NEW n \in 0 .. Len(sft.buffer), pairs' = OnDisk(n)
  PROVE  SftRight' /\ pairs' \in [Hashes -> Nat]
<1>0. CorpusShape /\ SftRight /\ sft.buffer \in Seq(Hashes)
  BY DEF CorpusRight, CorpusShape
<1>1. IsInjective(sft.buffer) /\ (drain.phase # "sft" => ToSet(sft.buffer) = {})
  BY <1>0 DEF SftRight, InSft, IsInjective, ToSet
<1>2. /\ pairs' \in [Hashes -> Nat]
      /\ \A h \in Hashes :
              /\ pairs[h] <= pairs'[h]
              /\ pairs'[h] <= pairs[h] + (IF h \in ToSet(sft.buffer) THEN 1 ELSE 0)
  BY <1>0, <1>1, OnDiskFacts
<1>3. InSft'
  BY DEF InSft, NoSft
<1>4. PairsAreCounted'
  <2>1. Paired' = sftState
    BY DEF Paired
  <2>2. gaps'.sft = gaps.sft + (IF drain.phase = "sft" THEN 1 ELSE 0) /\ gaps.sft \in Nat
    BY <1>0, GapsTyped DEF CorpusShape
  <2>3. ASSUME NEW h \in Hashes
        PROVE  /\ h \in sftState => pairs'[h] > 0 \/ h \in barren
               /\ pairs'[h] <= gaps'.sft + (IF h \in sftState THEN 1 ELSE 0)
    <3>1. pairs[h] \in Nat /\ pairs'[h] \in Nat
      BY <1>0, <1>2 DEF CorpusShape
    <3>2. CASE drain.phase = "sft"
      <4>1. sftState \subseteq Paired /\ ToSet(sft.buffer) \cap Paired = {}
        BY <1>0, <3>2 DEF SftRight, InSft, Paired
      <4>2. /\ h \in Paired => pairs[h] > 0 \/ h \in barren
            /\ pairs[h] <= gaps.sft + (IF h \in Paired THEN 1 ELSE 0)
        BY <1>0 DEF SftRight, PairsAreCounted
      <4> HIDE DEF Paired
      <4>3. gaps'.sft = gaps.sft + 1
        BY <2>2, <3>2
      <4> QED BY <1>2, <2>2, <3>1, <4>1, <4>2, <4>3
    <3>3. CASE drain.phase # "sft"
      <4>1. Paired = sftState
        BY <3>3 DEF Paired
      <4>2. /\ h \in sftState => pairs[h] > 0 \/ h \in barren
            /\ pairs[h] <= gaps.sft + (IF h \in sftState THEN 1 ELSE 0)
        BY <1>0, <4>1 DEF SftRight, PairsAreCounted
      <4>3. gaps'.sft = gaps.sft
        BY <2>2, <3>3
      <4> QED BY <1>1, <1>2, <2>2, <3>1, <3>3, <4>2, <4>3
    <3> QED BY <3>2, <3>3
  <2> QED BY <2>1, <2>3 DEF PairsAreCounted
<1> QED BY <1>2, <1>3, <1>4 DEF SftRight

LEMMA SftFailsRight ==
  ASSUME CorpusRight, SftFails
  PROVE  CorpusRight'
<1>0. CorpusShape
  BY DEF CorpusRight
<1>1. /\ drain.phase = "sft" /\ pairs' = OnDisk(Len(sft.buffer)) /\ gaps' = Interrupted
      /\ drain' = [drain EXCEPT !.phase = "save"] /\ sft' = NoSft
      /\ UNCHANGED <<slot, build, corpus, hashes, sources, loopState, sftState, barren>>
  BY DEF SftFails
<1>2. drain' = [phase |-> "save", todo |-> drain.todo, state |-> drain.state] /\ build = NoBuild
  BY <1>0, <1>1 DEF CorpusShape, CorpusRight, BuildRight, InBuild
<1>3. Len(sft.buffer) \in 0 .. Len(sft.buffer)
  BY <1>0 DEF CorpusShape
<1>4. SftRight' /\ pairs' \in [Hashes -> Nat]
  BY <1>1, <1>2, <1>3, InterruptedSft
<1>5. CorpusShape'
  <2>1. sft' \in [left : Seq(Hashes), seen : SUBSET Hashes, buffer : Seq(Hashes)]
    BY <1>1 DEF NoSft
  <2>2. gaps' \in [line : Nat, row : Nat, sft : Nat]
    BY <1>0, <1>1, GapsTyped
  <2> QED BY <1>0, <1>1, <1>2, <1>4, <2>1, <2>2 DEF CorpusShape
<1>6. SlotsRight'
  BY <1>1, <1>2, SlotsKept DEF CorpusRight
<1>7. BuildRight'
  <2>1. OkNotes'
    BY <1>1, <1>2, NotesKept DEF CorpusRight
  <2> QED BY <1>1, <1>2, <2>1, InterruptedBuild
<1> QED BY <1>4, <1>5, <1>6, <1>7 DEF CorpusRight

LEMMA SaveLoopStateRight ==
  ASSUME CorpusRight, SaveLoopState
  PROVE  CorpusRight'
<1>0. CorpusShape /\ BuildRight /\ SftRight
  BY DEF CorpusRight
<1>1. /\ drain.phase = "save" /\ drain' = NoDrain /\ sft' = NoSft
      /\ loopState' = [b \in DOMAIN loopState \cup DOMAIN drain.state |->
                         IF b \in DOMAIN drain.state THEN drain.state[b] ELSE loopState[b]]
      /\ UNCHANGED <<slot, build, corpus, hashes, sources, pairs, sftState, barren, gaps>>
  BY DEF SaveLoopState
<1>2. build = NoBuild /\ drain'.phase = "idle" /\ drain'.state = <<>> /\ DOMAIN drain'.state = {}
  BY <1>0, <1>1 DEF BuildRight, InBuild, NoDrain
<1>3. CorpusShape'
  BY <1>0, <1>1 DEF CorpusShape, NoDrain, NoSft
<1>4. SlotsRight'
  BY <1>1, <1>2, SlotsKept DEF CorpusRight
<1>5. BuildRight'
  <2>1. UNCHANGED <<Ledgered, Stray, Written>> /\ \A h : Lines(h)' = Lines(h) /\ Quota(h)' = Quota(h)
    BY <1>1 DEF Ledgered, LineHash, Stray, Written, Lines, Quota
  <2>2. LinesAreCounted' /\ RowsAreCounted'
    BY <1>0, <1>1, <2>1 DEF BuildRight, LinesAreCounted, RowsAreCounted
  <2>3. InBuild' /\ OkNotes'
    BY <1>1, <1>2 DEF InBuild, OkNotes
  <2>4. OkMeansBuilt'
    BY <1>0, <1>1, <2>1 DEF BuildRight, OkMeansBuilt, OkNotes, HashesOf
  <2> QED BY <2>2, <2>3, <2>4 DEF BuildRight
<1>6. SftRight'
  <2>1. Paired = sftState /\ Paired' = sftState
    BY <1>1, <1>2 DEF Paired
  <2> QED BY <1>0, <1>1, <1>2, <2>1 DEF SftRight, PairsAreCounted, InSft, NoSft
<1> QED BY <1>3, <1>4, <1>5, <1>6 DEF CorpusRight

LEMMA DrainDiesRight ==
  ASSUME CorpusRight, DrainDies
  PROVE  CorpusRight'
<1>0. CorpusShape
  BY DEF CorpusRight
<1>1. /\ gaps' = Interrupted /\ drain' = NoDrain /\ build' = NoBuild /\ sft' = NoSft
      /\ slot' = [b \in Names |-> "out"]
      /\ UNCHANGED <<corpus, hashes, sources, loopState, sftState, barren>>
  BY DEF DrainDies
<1>2. PICK n \in 0 .. Len(sft.buffer) : pairs' = OnDisk(n)
  BY DEF DrainDies
<1>3. drain'.phase = "idle" /\ DOMAIN drain'.state = {}
  BY <1>1 DEF NoDrain
<1>4. SftRight' /\ pairs' \in [Hashes -> Nat]
  BY <1>1, <1>2, <1>3, InterruptedSft
<1>5. CorpusShape'
  <2>1. gaps' \in [line : Nat, row : Nat, sft : Nat]
    BY <1>0, <1>1, GapsTyped
  <2> QED BY <1>0, <1>1, <1>4, <2>1 DEF CorpusShape, NoSft, NoDrain, NoBuild
<1>6. SlotsRight'
  <2>1. In({"slot", "running"})' = {} /\ In({"running"})' = {}
    BY <1>1 DEF In
  <2>2. HostsAreSpared'
    <3>1. Cardinality({}) = 0 /\ Concurrency \in Nat
      BY FS_EmptySet, CorpusAssumption
    <3>2. 0 <= Concurrency
      BY <3>1
    <3> QED BY <2>1, <3>1, <3>2 DEF HostsAreSpared
  <2> QED BY <1>3, <2>2 DEF SlotsRight, SlotsAreOfDrain
<1>7. BuildRight'
  <2>1. OkNotes'
    BY <1>1, <1>3, NotesKept DEF CorpusRight
  <2> QED BY <1>1, <2>1, InterruptedBuild
<1> QED BY <1>4, <1>5, <1>6, <1>7 DEF CorpusRight

LEMMA CorpusStep ==
  ASSUME CorpusRight, [CorpusNext]_corpusVars
  PROVE  CorpusRight'
<1>1. CASE UNCHANGED corpusVars
  <2>1. UNCHANGED <<drain, slot, build, corpus, hashes, sources, loopState, sft, pairs, sftState, barren, gaps>>
    BY <1>1 DEF corpusVars
  <2>2. CorpusShape'
    BY <2>1 DEF CorpusRight, CorpusShape
  <2>3. SlotsRight' /\ SftRight'
    BY <2>1, SlotsKept, SftKept DEF CorpusRight
  <2>4. OkNotes'
    BY <2>1, NotesKept DEF CorpusRight
  <2>5. BuildRight'
    BY <2>1, <2>4, BuildKept DEF CorpusRight
  <2> QED BY <2>2, <2>3, <2>5 DEF CorpusRight
<1>2. CASE StartDrain(Pending)
  BY <1>2, StartDrainRight DEF Pending
<1>3. CASE Pending # {} /\ StartDrain({FirstOf(Pending)})
  <2>1. FirstOf(Pending) \in Names
    BY <1>3, FirstIsMember DEF Pending
  <2> QED BY <1>3, <2>1, StartDrainRight
<1>4. ASSUME NEW named \in SUBSET Names, StartDrain(named) PROVE CorpusRight'
  BY <1>4, StartDrainRight
<1>5. ASSUME NEW b \in Names, TakeSlot(b) \/ BeginScrapeBatch(b) \/ \E ok \in BOOLEAN : EndScrapeBatch(b, ok)
      PROVE CorpusRight'
  BY <1>5, FanOutRight
<1> QED BY <1>1, <1>2, <1>3, <1>4, <1>5, FanOutReturnsRight, BeginBuildRight, SkipLineRight, WriteLineRight,
           RecordHashRight, RecordSourceRight, BuildDoneRight, BuildFailsRight, BeginSftRight,
           GeneratePairsRight, SkipRestrictedRight, CloseSftRight, SaveSftRight, SftFailsRight, SkipSftRight,
           SaveLoopStateRight, DrainDiesRight DEF CorpusNext

\* The drain is never stuck: whoever waits for a host waits for one that runs.
LEMMA NeverStuck ==
  ASSUME CorpusShape
  PROVE  DrainNeverStuck
<1> SUFFICES ASSUME In({"queued", "slot", "running"}) # {}, In({"running"}) = {}
             PROVE  \/ \E b \in In({"slot"}) : HostFree(b)
                    \/ Cardinality(In({"slot"})) < Concurrency /\ In({"queued"}) # {}
  BY DEF DrainNeverStuck
<1>1. Cardinality({}) = 0 /\ Concurrency \in Nat \ {0} /\ PerHost \in Int
  BY FS_EmptySet, CorpusAssumption
<1>2. CASE In({"slot"}) # {}
  <2>1. \A b : OnHost(b) = {}
    BY DEF OnHost
  <2>2. \A b : HostFree(b)
    BY <1>1, <2>1 DEF HostFree
  <2> QED BY <1>2, <2>2
<1>3. CASE In({"slot"}) = {}
  <2>1. In({"queued"}) # {}
    BY <1>3 DEF In
  <2> QED BY <1>1, <1>3, <2>1
<1> QED BY <1>2, <1>3

LEMMA CorpusEnough == CorpusRight /\ SwapRight => CorpusInv
<1> SUFFICES ASSUME CorpusRight, SwapRight PROVE CorpusInv
  OBVIOUS
<1>0. CorpusShape /\ BuildRight /\ SftRight /\ SlotsRight /\ NewestSurvives
  BY DEF CorpusRight, SwapRight
<1>1. CorpusTypeOK
  BY <1>0 DEF CorpusShape, CorpusTypeOK
<1>2. HostsAreSpared /\ DrainNeverStuck
  BY <1>0, NeverStuck DEF SlotsRight
<1>3. CopiesOnlyFromGaps
  <2> DEFINE repeated == {h \in Hashes : Lines(h) > 1}
  <2>a. \A h \in Hashes : Lines(h) \in Nat
    <3>1. corpus \in [CorpusLines -> Nat]
      BY <1>0 DEF CorpusShape
    <3>2. ASSUME NEW h \in Hashes PROVE Lines(h) \in Nat
      <4>1. corpus[<<"dapt", h>>] \in Nat /\ corpus[<<"rag", h>>] \in Nat /\ corpus[<<"sft", h>>] \in Nat
        BY <3>1 DEF CorpusLines, Targets
      <4> QED BY <4>1 DEF Lines
    <3> QED BY <3>2
  <2>0. \A h \in Hashes : Lines(h) \in Nat /\ Quota(h) \in {0, 1}
    BY <2>a DEF Quota
  <2>1. repeated \subseteq Stray /\ IsFiniteSet(Stray) /\ gaps.line \in Nat
    <3>1. repeated \subseteq Stray
      BY <2>0 DEF Stray
    <3>2. Stray \subseteq Hashes
      BY DEF Stray
    <3> QED BY <1>0, <3>1, <3>2, HashesAreFinite, FS_Subset DEF CorpusShape
  <2>2. Cardinality(repeated) <= Cardinality(Stray) /\ Cardinality(repeated) \in Nat /\ Cardinality(Stray) \in Nat
    BY <2>1, FS_Subset, FS_CardinalityType
  <2>3. Cardinality(repeated) <= gaps.line
    BY <1>0, <2>1, <2>2 DEF BuildRight, LinesAreCounted
  <2>4. \A h \in repeated : Lines(h) <= 1 + gaps.line
    BY <1>0, <2>0, <2>1 DEF BuildRight, LinesAreCounted
  <2> QED BY <2>3, <2>4 DEF CopiesOnlyFromGaps
<1>4. LedgerIsBacked
  BY <1>0 DEF BuildRight, LinesAreCounted, Ledgered, RowsAreCounted, LedgerIsBacked
<1>5. SeenHasPairs
  <2>0. \A h \in Hashes : pairs[h] \in Nat /\ gaps.sft \in Nat
    BY <1>0 DEF CorpusShape
  <2>1. sftState \subseteq Paired /\ sftState \subseteq Hashes
    BY <1>0 DEF SftRight, InSft, Paired, CorpusShape
  <2> QED BY <1>0, <2>0, <2>1 DEF SftRight, PairsAreCounted, SeenHasPairs
<1> QED BY <1>0, <1>1, <1>2, <1>3, <1>4, <1>5 DEF BuildRight, CorpusInv

\* A behaviour of the process is, for the corpus, one of its own.
LEMMA CorpusIsPart == ApiSpec => CorpusInit /\ [][CorpusNext]_corpusVars
<1>1. ApiInit => CorpusInit
  BY DEF ApiInit
<1>2. [ApiNext]_apiVars => [CorpusNext]_corpusVars
  BY DEF ApiNext, apiVars, offlineVars, OnlyResearch, OnlyLegacy, OnlyRuns, OnlySignals, OnlyIndex, OnlyRetrieval,
         OnlyChunking, ApiOnly, OnlySite, OnlyCorpus, OnlyRebuild, OnlyData, OnlyLife
<1> QED BY <1>1, <1>2, PTL DEF ApiSpec

\* The corpus scripts, for any manifest and cut short at any file operation.
THEOREM CorpusIsRight == ApiSpec => []CorpusInv
BY CorpusEnough, CorpusIsPart, CorpusStart, CorpusStep, SwapIsRight, PTL

-----------------------------------------------------------------------------
(* Research runs (ResearchRuns).                                             *)

\* A filter that is a loop has what is wanted of its list, and nothing else.
LEMMA OnlyFacts ==
  ASSUME NEW urls \in Seq(Urls), NEW wanted
  PROVE  Only(urls, wanted) \in Seq(Urls) /\ ToSet(Only(urls, wanted)) \subseteq ToSet(urls) \cap wanted
<1> DEFINE L == Len(urls)
           T == Seq(Urls)
           IsLoop(f) == f = [n \in 0 .. L |->
                IF n = 0 THEN <<>> ELSE IF urls[n] \in wanted THEN Append(f[n - 1], urls[n]) ELSE f[n - 1]]
           G == [n \in Nat |-> [q \in T |->
                IF n \in 1 .. L /\ urls[n] \in wanted THEN Append(q, urls[n]) ELSE q]]
<1>0. L \in Nat /\ \A n \in 1 .. L : urls[n] \in Urls /\ urls[n] \in ToSet(urls)
  BY DEF ToSet
<1>1. Only(urls, wanted) = (CHOOSE f : IsLoop(f))[L]
  BY DEF Only
<1> HIDE DEF L
<1>2. <<>> \in T /\ \A q \in T, n \in 1 .. L : Append(q, urls[n]) \in T
  BY <1>0
<1>3. G \in [Nat -> [T -> T]]
  BY <1>2
<1>4. \A q \in T, n \in Nat : G[n][q] = IF n \in 1 .. L /\ urls[n] \in wanted THEN Append(q, urls[n]) ELSE q
  OBVIOUS
<1> HIDE DEF G, T
<1>a. \E f : Loop(f, T, <<>>, G, L)
  BY <1>0, <1>2, <1>3, LoopExists
<1>5. PICK f0 \in [0 .. L -> T] : f0[0] = <<>> /\ \A n \in 0 .. L : n # 0 => f0[n] = G[n][f0[n - 1]]
  BY <1>a DEF Loop
<1>6. IsLoop(f0)
  <2>1. ASSUME NEW n \in 0 .. L, n # 0
        PROVE  f0[n] = IF urls[n] \in wanted THEN Append(f0[n - 1], urls[n]) ELSE f0[n - 1]
    <3>1. n \in 1 .. L /\ n \in Nat /\ n - 1 \in 0 .. L
      BY <1>0, <2>1
    <3>2. f0[n - 1] \in T
      BY <3>1
    <3> QED BY <1>4, <1>5, <2>1, <3>1, <3>2
  <2> QED BY <1>5, <2>1
<1> DEFINE g == CHOOSE f : IsLoop(f)
<1>7. IsLoop(g)
  BY <1>6
<1> HIDE DEF g
<1>8. g[0] = <<>> /\ \A n \in 1 .. L : g[n] = IF urls[n] \in wanted THEN Append(g[n - 1], urls[n]) ELSE g[n - 1]
  <2>1. 0 \in 0 .. L /\ \A n \in 1 .. L : n \in 0 .. L /\ n # 0
    BY <1>0
  <2> QED BY <1>7, <2>1
<1> HIDE DEF IsLoop
<1> DEFINE Gathered(n) == g[n] \in Seq(Urls) /\ ToSet(g[n]) \subseteq ToSet(urls) \cap wanted
           S == {n \in Nat : n <= L => Gathered(n)}
<1>9. 0 \in S
  <2>1. <<>> \in Seq(Urls) /\ ToSet(<<>>) = {}
    BY DEF ToSet
  <2> QED BY <1>8, <2>1
<1>10. ASSUME NEW n \in S PROVE n + 1 \in S
  <2> SUFFICES ASSUME n + 1 <= L PROVE Gathered(n + 1)
    OBVIOUS
  <2>1. /\ n \in Nat /\ n + 1 \in 1 .. L /\ (n + 1) - 1 = n /\ Gathered(n)
        /\ urls[n + 1] \in Urls /\ urls[n + 1] \in ToSet(urls)
    BY <1>0
  <2>2. CASE urls[n + 1] \notin wanted
    <3>1. g[n + 1] = g[n]
      BY <1>8, <2>1, <2>2
    <3> QED BY <2>1, <3>1
  <2>3. CASE urls[n + 1] \in wanted
    <3>1. g[n + 1] = Append(g[n], urls[n + 1])
      BY <1>8, <2>1, <2>3
    <3>2. g[n + 1] \in Seq(Urls) /\ ToSet(g[n + 1]) = ToSet(g[n]) \cup {urls[n + 1]}
      BY <2>1, <3>1, InjectiveAppend
    <3> QED BY <2>1, <2>3, <3>2
  <2> QED BY <2>2, <2>3
<1>11. S = Nat
  <2> HIDE DEF Gathered
  <2>1. S \in SUBSET Nat
    OBVIOUS
  <2> HIDE DEF S
  <2> QED BY <1>9, <1>10, <2>1, NatSetInduction
<1>12. Gathered(L)
  <2>1. L \in S
    BY <1>0, <1>11
  <2> HIDE DEF Gathered
  <2> QED BY <1>0, <2>1
<1> QED BY <1>1, <1>12 DEF g

\* The pages of URLs not seen are not seen.
LEMMA UnseenFacts ==
  ASSUME NEW urls \in Seq(Urls), NEW seen, ToSet(urls) \subseteq UnseenUrls(seen)
  PROVE  PagesIn(urls) \cap seen = {}
BY DEF PagesIn, UnseenUrls

RunPlaces == {"none", "begin", "stop", "plan", "round", "select", "read", "scrape", "synthesize",
              "save", "unlink", "deliver"}
Working == {"begin", "stop", "plan", "round", "select", "read", "scrape", "synthesize"}
RunStatuses == Terminal \cup {"queued", "planning", "searching", "reading", "synthesizing", "interrupted"}
ResearchJobs == [status : RunStatuses, rounds : Nat, pages : Nat, llm : Nat, relevant : BOOLEAN,
                 cancel : BOOLEAN, error : BOOLEAN, timed : BOOLEAN]
LoopStates == [seen : SUBSET Pages, pending : Seq(Urls), planned : BOOLEAN, round : Nat,
               phase : {"search", "read"}]
Checkpoints == [status : RunStatuses, job : ResearchJobs, loop : LoopStates]
Frames == [at : RunPlaces, loop : LoopStates]
Outcomes == [artifacts : Nat, events : Nat]
FactRows == [born : BOOLEAN, listed : Seq(Urls), read : Seq(Urls), earlier : SUBSET Pages,
             cancelled : BOOLEAN, unsaved : BOOLEAN]

ResearchTyped ==
    /\ research \in [Runs -> ResearchJobs \cup {Absent}]
    /\ frame \in [Runs -> Frames]
    /\ parked \in [Runs -> LoopStates]
    /\ ckpt \in [Runs -> Checkpoints \cup {Absent}]
    /\ late \in [Runs -> BOOLEAN]
    /\ outcome \in [Runs -> Outcomes]
    /\ facts \in [Runs -> FactRows]
    /\ crashes \in 0 .. MaxCrashes

(* No list is read before the plan; the phases where a coroutine stands.     *)
LoopOk(loop) == ~loop.planned => loop.phase = "search"
PhaseOk(at, loop) ==
    /\ at = "plan" => ~loop.planned
    /\ at \in {"round", "select", "read", "scrape"} => loop.planned
    /\ at \in {"read", "scrape"} => loop.phase = "read"

(* What is left of the list is what the loop goes on with; what was read of  *)
(* it, and the pages of earlier lists, are seen.                             *)
Left(loop) == IF loop.phase = "read" THEN loop.pending ELSE <<>>
Follows(loop, fact) ==
    /\ fact.listed = fact.read \o Left(loop)
    /\ PagesIn(fact.read) \cup fact.earlier \subseteq loop.seen
ListOk(fact) == IsPrefix(fact.read, fact.listed) /\ PagesIn(fact.listed) \cap fact.earlier = {}

(* Only the synthesis may spend the call outside the cap, and it comes after *)
(* the last checkpoint.                                                      *)
BudgetOk(job, at, ck) ==
    /\ job # Absent =>
        /\ job.pages <= MaxPages /\ job.llm <= LlmCap + 1
        /\ at \in Working \/ job.status = "interrupted" => job.llm <= LlmCap
        /\ at = "scrape" => job.pages < MaxPages
    /\ ck # Absent => ck.job.pages <= MaxPages /\ ck.job.llm <= LlmCap

(* A coroutine has a job; once the job is over it only reports.              *)
PlaceOk(job, at) ==
    /\ at # "none" => job # Absent /\ job.status # "interrupted"
    /\ at \in {"save", "unlink", "deliver"} => job.status \in Terminal

CancelOk(job, fact) == fact.cancelled => job # Absent /\ job.cancel /\ job.status # "completed"

(* Every loop state the run may go on with follows what was read.            *)
ReadOk(job, fr, pk, ck, fact) ==
    ~fact.unsaved =>
        /\ ListOk(fact)
        /\ fr.at # "none" => Follows(fr.loop, fact)
        /\ job.status = "interrupted" => Follows(pk, fact)
        /\ ck # Absent => Follows(ck.loop, fact)

(* A run that was reported cannot go on.                                     *)
ReportOk(job, at, ck, ev, fact) ==
    ~fact.unsaved =>
        /\ ev <= 1
        /\ at # "none" \/ ck # Absent \/ job.status = "interrupted" => ev = 0
        /\ at = "deliver" => ck = Absent

(* A job id that was not given out is nowhere.                               *)
UnbornOk(job, at, ck, ev, fact) ==
    ~fact.born => /\ job = Absent /\ at = "none" /\ ck = Absent /\ ev = 0 /\ ~fact.cancelled
                  /\ fact.listed = <<>> /\ fact.read = <<>> /\ fact.earlier = {}

RunOk(job, fr, pk, ck, ev, fact) ==
    /\ LoopOk(fr.loop) /\ LoopOk(pk) /\ (ck # Absent => LoopOk(ck.loop)) /\ PhaseOk(fr.at, fr.loop)
    /\ BudgetOk(job, fr.at, ck) /\ PlaceOk(job, fr.at) /\ CancelOk(job, fact)
    /\ ReadOk(job, fr, pk, ck, fact) /\ ReportOk(job, fr.at, ck, ev, fact)
    /\ UnbornOk(job, fr.at, ck, ev, fact)

RunIsOk(r) == RunOk(research[r], frame[r], parked[r], ckpt[r], outcome[r].events, facts[r])

ResearchRight == ResearchTyped /\ \A r \in Runs : RunIsOk(r)

LEMMA JobsAreKnown ==
  /\ \A job \in ResearchJobs \cup {Absent} : (job # Absent <=> job \in ResearchJobs)
  /\ \A ck \in Checkpoints \cup {Absent} : (ck # Absent <=> ck \in Checkpoints)
  /\ Absent.status = "absent" /\ NewRun \in ResearchJobs /\ FreshLoop \in LoopStates /\ LoopOk(FreshLoop)
<1>1. \A job \in ResearchJobs : job.status # "absent"
  BY DEF ResearchJobs, RunStatuses, Terminal
<1>2. \A ck \in Checkpoints : ck.status # "absent"
  BY DEF Checkpoints, RunStatuses, Terminal
<1>3. Absent.status = "absent"
  BY DEF Absent
<1>4. NewRun \in ResearchJobs
  BY DEF NewRun, ResearchJobs, RunStatuses
<1>5. FreshLoop \in LoopStates /\ LoopOk(FreshLoop)
  BY DEF FreshLoop, LoopStates, LoopOk
<1> QED BY <1>1, <1>2, <1>3, <1>4, <1>5

\* The facts of the list are those they were.
SameList(fact, fact1) == fact1.listed = fact.listed /\ fact1.read = fact.read /\ fact1.earlier = fact.earlier

LEMMA SameListFacts ==
  ASSUME NEW fact, NEW fact1, SameList(fact, fact1)
  PROVE  /\ ListOk(fact) => ListOk(fact1)
         /\ \A loop : Follows(loop, fact) => Follows(loop, fact1)
BY DEF SameList, ListOk, Follows

\* Nothing was listed.
LEMMA NothingRead ==
  ASSUME NEW fact, fact.listed = <<>>, fact.read = <<>>, fact.earlier = {}
  PROVE  ListOk(fact) /\ \A loop : loop.phase = "search" => Follows(loop, fact)
<1>1. IsPrefix(<<>>, <<>>)
  BY DEF IsPrefix
<1>2. PagesIn(<<>>) = {} /\ <<>> \o <<>> = <<>>
  BY DEF PagesIn, ToSet
<1>3. ListOk(fact)
  BY <1>1 DEF ListOk
<1>4. ASSUME NEW loop, loop.phase = "search" PROVE Follows(loop, fact)
  <2>1. Left(loop) = <<>>
    BY <1>4 DEF Left
  <2> QED BY <1>2, <2>1 DEF Follows
<1> QED BY <1>3, <1>4

LEMMA ResearchStart == ResearchInit => ResearchRight
<1> SUFFICES ASSUME ResearchInit PROVE ResearchRight
  OBVIOUS
<1>1. ResearchTyped
  BY JobsAreKnown, ResearchAssumption DEF ResearchInit, ResearchTyped, Frames, Idle, RunPlaces, FactRows,
     Outcomes
<1>2. ASSUME NEW r \in Runs PROVE RunIsOk(r)
  <2>1. /\ research[r] = Absent /\ frame[r].at = "none" /\ frame[r].loop = FreshLoop /\ parked[r] = FreshLoop
        /\ ckpt[r] = Absent /\ outcome[r].events = 0 /\ facts[r].listed = <<>> /\ facts[r].read = <<>>
        /\ facts[r].earlier = {} /\ ~facts[r].cancelled /\ ~facts[r].unsaved /\ ~facts[r].born
    BY DEF ResearchInit, Idle
  <2>2. ListOk(facts[r])
    BY <2>1, NothingRead
  <2> QED BY <2>1, <2>2, JobsAreKnown DEF RunIsOk, RunOk, PhaseOk, BudgetOk, PlaceOk, CancelOk, ReadOk, ReportOk,
            UnbornOk, Working
<1> QED BY <1>1, <1>2 DEF ResearchRight

\* A step of one run leaves the others alone.
LEMMA OtherRuns ==
  ASSUME ResearchRight, NEW r \in Runs, ResearchTyped', RunIsOk(r)',
         \A q \in Runs : q # r =>
            /\ research'[q] = research[q] /\ frame'[q] = frame[q] /\ parked'[q] = parked[q]
            /\ ckpt'[q] = ckpt[q] /\ outcome'[q] = outcome[q] /\ facts'[q] = facts[q]
  PROVE  ResearchRight'
<1>1. ASSUME NEW q \in Runs, q # r PROVE RunIsOk(q)'
  <2>1. RunIsOk(q)
    BY DEF ResearchRight
  <2>2. /\ research'[q] = research[q] /\ frame'[q] = frame[q] /\ parked'[q] = parked[q]
        /\ ckpt'[q] = ckpt[q] /\ outcome'[q] = outcome[q] /\ facts'[q] = facts[q]
    BY <1>1
  <2> QED BY <2>1, <2>2 DEF RunIsOk
<1> QED BY <1>1 DEF ResearchRight

\* Where a coroutine stands the job and the checkpoint are what they should be.
LEMMA AtFacts ==
  ASSUME ResearchRight, NEW r \in Runs
  PROVE  /\ research[r] \in ResearchJobs \cup {Absent} /\ frame[r] \in Frames
         /\ parked[r] \in LoopStates /\ ckpt[r] \in Checkpoints \cup {Absent} /\ facts[r] \in FactRows
         /\ outcome[r] \in Outcomes /\ RunIsOk(r)
         /\ frame[r].at # "none" => research[r] \in ResearchJobs
BY JobsAreKnown DEF ResearchRight, ResearchTyped, RunIsOk, RunOk, PlaceOk

(* Room for what the run does next.                                          *)
WithinBudget(job) == job.pages <= MaxPages /\ job.llm <= LlmCap
MayScrape(at, job) == at = "scrape" => job.pages < MaxPages

StatusKept(job, new) ==
    new.status # "interrupted" /\ (new.status = "completed" => job.status = "completed")

(* A list that was followed still is, or there is a new one.                 *)
Carries(loop, fact, loop1, fact1) ==
    Follows(loop, fact) /\ ListOk(fact) => Follows(loop1, fact1) /\ ListOk(fact1)

SameFlags(fact, fact1) ==
    fact1.born = fact.born /\ fact1.cancelled = fact.cancelled /\ (fact.unsaved => fact1.unsaved)

(* The run goes on, with or without a checkpoint of where it is.             *)
GoesOn(job, fr, ck, fact, new, fr1, ck1, fact1) ==
    /\ fr.at \in Working /\ fr1.at \in Working /\ LoopOk(fr1.loop) /\ PhaseOk(fr1.at, fr1.loop)
    /\ job.cancel => new.cancel
    /\ StatusKept(job, new) /\ WithinBudget(new) /\ MayScrape(fr1.at, new)
    /\ SameFlags(fact, fact1)
    /\ ~fact1.unsaved => Carries(fr.loop, fact, fr1.loop, fact1)
    /\ \/ ck1 = ck /\ (fact1.unsaved \/ SameList(fact, fact1))
       \/ ck1 # Absent /\ ck1.loop = fr1.loop /\ WithinBudget(ck1.job)

LEMMA ProgressOk ==
  ASSUME NEW job \in ResearchJobs, NEW fr \in Frames, NEW pk \in LoopStates,
         NEW ck \in Checkpoints \cup {Absent}, NEW ev \in Nat, NEW fact \in FactRows,
         NEW new \in ResearchJobs, NEW fr1 \in Frames, NEW ck1 \in Checkpoints \cup {Absent},
         NEW fact1 \in FactRows, RunOk(job, fr, pk, ck, ev, fact),
         GoesOn(job, fr, ck, fact, new, fr1, ck1, fact1)
  PROVE  RunOk(new, fr1, pk, ck1, ev, fact1)
<1> USE DEF GoesOn, StatusKept, SameFlags
<1>0. /\ job # Absent /\ new # Absent /\ new.pages \in Nat /\ new.llm \in Nat
      /\ LlmCap \in Nat /\ MaxPages \in Nat /\ fr1.at # "none" /\ fr.at # "none" /\ fr.at # "deliver"
      /\ fr1.at \notin {"save", "unlink", "deliver"}
  BY JobsAreKnown, ResearchAssumption DEF ResearchJobs, Working
<1>1. LoopOk(fr1.loop) /\ LoopOk(pk) /\ (ck1 # Absent => LoopOk(ck1.loop)) /\ PhaseOk(fr1.at, fr1.loop)
  BY <1>0 DEF RunOk
<1>2. BudgetOk(new, fr1.at, ck1)
  BY <1>0 DEF RunOk, BudgetOk, WithinBudget, MayScrape
<1>3. PlaceOk(new, fr1.at) /\ CancelOk(new, fact1)
  BY <1>0 DEF RunOk, PlaceOk, CancelOk
<1>4. ReadOk(new, fr1, pk, ck1, fact1)
  <2> SUFFICES ASSUME ~fact1.unsaved
               PROVE  /\ ListOk(fact1) /\ Follows(fr1.loop, fact1)
                      /\ ck1 # Absent => Follows(ck1.loop, fact1)
    BY <1>0 DEF ReadOk
  <2>1. /\ ~fact.unsaved /\ ListOk(fact) /\ Follows(fr.loop, fact)
        /\ ck # Absent => Follows(ck.loop, fact)
    BY <1>0 DEF RunOk, ReadOk
  <2>2. ListOk(fact1) /\ Follows(fr1.loop, fact1)
    BY <2>1 DEF Carries
  <2>3. CASE ck1 = ck /\ SameList(fact, fact1)
    BY <2>1, <2>2, <2>3, SameListFacts
  <2> QED BY <2>2, <2>3
<1>5. ReportOk(new, fr1.at, ck1, ev, fact1)
  BY <1>0 DEF RunOk, ReportOk
<1>6. UnbornOk(new, fr1.at, ck1, ev, fact1)
  BY <1>0 DEF RunOk, UnbornOk
<1> QED BY <1>1, <1>2, <1>3, <1>4, <1>5, <1>6 DEF RunOk

\* The row of facts after a failed write.
LEMMA UnsavedRow ==
  ASSUME NEW fact \in FactRows
  PROVE  Unsaved(fact) \in FactRows /\ Unsaved(fact).unsaved /\ SameFlags(fact, Unsaved(fact))
<1> DEFINE nothing == <<>>
           fact1 == [fact EXCEPT !.unsaved = TRUE, !.listed = nothing, !.read = nothing, !.earlier = {}]
<1>1. nothing \in Seq(Urls)
  OBVIOUS
<1>2. Unsaved(fact) = fact1
  BY DEF Unsaved
<1> HIDE DEF nothing
<1>3. /\ fact1 \in FactRows /\ fact1.unsaved
      /\ fact1.born = fact.born /\ fact1.cancelled = fact.cancelled
  BY <1>1 DEF FactRows
<1> QED BY <1>2, <1>3 DEF SameFlags

\* Goto, with the checkpoint that follows it or without one.
LEMMA GotoRight ==
  ASSUME ResearchRight, NEW r \in Runs, frame[r].at \in Working,
         NEW new \in ResearchJobs, NEW at \in Working, NEW loop \in LoopStates, LoopOk(loop),
         PhaseOk(at, loop), NEW fact \in FactRows, SameFlags(facts[r], fact),
         Carries(frame[r].loop, facts[r], loop, fact), research[r].cancel => new.cancel,
         StatusKept(research[r], new), WithinBudget(new),
         MayScrape(at, new), NEW taken \in ResearchJobs,
         WithinBudget(taken), Goto(r, new, at, loop),
         (UNCHANGED <<ckpt, facts>> /\ fact = facts[r]) \/ CheckpointWith(r, taken, loop, fact)
  PROVE  ResearchRight'
<1>0. /\ research[r] \in ResearchJobs /\ frame[r] \in Frames
      /\ parked[r] \in LoopStates /\ ckpt[r] \in Checkpoints \cup {Absent} /\ facts[r] \in FactRows
      /\ outcome[r] \in Outcomes /\ RunIsOk(r)
  BY AtFacts DEF Working
<1> DEFINE fr1 == [at |-> at, loop |-> loop]
           ck0 == [status |-> taken.status, job |-> taken, loop |-> loop]
           fact0 == Unsaved(facts[r])
           fact2 == IF facts[r].unsaved THEN facts[r] ELSE fact
<1>1. fr1 \in Frames /\ ck0 \in Checkpoints /\ ck0 # Absent
  BY JobsAreKnown DEF RunPlaces, Frames, Working, Checkpoints, ResearchJobs
<1>2. /\ fact0 \in FactRows /\ fact0.unsaved /\ SameFlags(facts[r], fact0)
      /\ fact2 \in FactRows /\ SameFlags(facts[r], fact2) /\ (fact2.unsaved \/ fact2 = fact)
  BY <1>0, UnsavedRow DEF SameFlags
<1>3. /\ research' = [research EXCEPT ![r] = new] /\ frame' = [frame EXCEPT ![r] = fr1]
      /\ UNCHANGED <<parked, late, outcome, crashes>>
  BY DEF Goto
<1>4. \/ ckpt' = ckpt /\ facts' = facts /\ fact = facts[r]
      \/ ckpt' = [ckpt EXCEPT ![r] = ck0] /\ facts' = [facts EXCEPT ![r] = fact2]
      \/ ckpt' = ckpt /\ facts' = [facts EXCEPT ![r] = fact0]
  BY DEF CheckpointWith
<1>c. ck0.loop = loop /\ ck0.job = taken /\ fr1.at = at /\ fr1.loop = loop
  OBVIOUS
<1> HIDE DEF fr1, ck0, fact0, fact2
<1>5. ResearchTyped'
  <2>1. research' \in [Runs -> ResearchJobs \cup {Absent}] /\ frame' \in [Runs -> Frames]
    BY <1>1, <1>3 DEF ResearchRight, ResearchTyped
  <2>2. ckpt' \in [Runs -> Checkpoints \cup {Absent}]
    BY <1>1, <1>4 DEF ResearchRight, ResearchTyped
  <2>3. facts' \in [Runs -> FactRows]
    BY <1>2, <1>4 DEF ResearchRight, ResearchTyped
  <2> QED BY <1>3, <2>1, <2>2, <2>3 DEF ResearchRight, ResearchTyped
<1>6. /\ research'[r] = new /\ frame'[r] = fr1 /\ parked'[r] = parked[r] /\ outcome'[r] = outcome[r]
      /\ \A q \in Runs : q # r => research'[q] = research[q] /\ frame'[q] = frame[q]
  BY <1>3 DEF ResearchRight, ResearchTyped
<1>7. /\ \/ ckpt'[r] = ckpt[r] /\ facts'[r] = fact /\ fact = facts[r]
         \/ ckpt'[r] = ck0 /\ facts'[r] = fact2
         \/ ckpt'[r] = ckpt[r] /\ facts'[r] = fact0
      /\ \A q \in Runs : q # r => ckpt'[q] = ckpt[q] /\ facts'[q] = facts[q]
  BY <1>4 DEF ResearchRight, ResearchTyped
<1>9. RunIsOk(r)'
  <2>1. ckpt'[r] \in Checkpoints \cup {Absent} /\ facts'[r] \in FactRows /\ outcome[r].events \in Nat
    BY <1>0, <1>5 DEF ResearchTyped, Outcomes
  <2>2. /\ SameFlags(facts[r], facts'[r])
        /\ ~facts'[r].unsaved => Carries(frame[r].loop, facts[r], loop, facts'[r])
    BY <1>2, <1>7
  <2>3. \/ ckpt'[r] = ckpt[r] /\ (facts'[r].unsaved \/ SameList(facts[r], facts'[r]))
        \/ ckpt'[r] # Absent /\ ckpt'[r].loop = loop /\ WithinBudget(ckpt'[r].job)
    BY <1>1, <1>2, <1>7, <1>c DEF SameList
  <2>4. RunOk(research[r], frame[r], parked[r], ckpt[r], outcome[r].events, facts[r])
    BY <1>0 DEF RunIsOk
  <2>a. GoesOn(research[r], frame[r], ckpt[r], facts[r], new, fr1, ckpt'[r], facts'[r])
    BY <1>0, <1>1, <1>c, <2>1, <2>2, <2>3 DEF GoesOn
  <2>5. RunOk(new, fr1, parked[r], ckpt'[r], outcome[r].events, facts'[r])
    BY <1>0, <1>1, <2>1, <2>4, <2>a, ProgressOk
  <2> QED BY <1>6, <2>5 DEF RunIsOk
<1> QED BY <1>3, <1>5, <1>6, <1>7, <1>9, OtherRuns

\* The same with the list as it was.
LEMMA GotoSameRight ==
  ASSUME ResearchRight, NEW r \in Runs, frame[r].at \in Working,
         NEW new \in ResearchJobs, NEW at \in Working, NEW loop \in LoopStates, LoopOk(loop),
         PhaseOk(at, loop), loop.seen = frame[r].loop.seen, Left(loop) = Left(frame[r].loop),
         research[r].cancel => new.cancel, StatusKept(research[r], new), WithinBudget(new),
         MayScrape(at, new), NEW taken \in ResearchJobs,
         WithinBudget(taken), Goto(r, new, at, loop),
         UNCHANGED <<ckpt, facts>> \/ Checkpoint(r, taken, loop)
  PROVE  ResearchRight'
<1>1. facts[r] \in FactRows /\ SameFlags(facts[r], facts[r])
  BY AtFacts DEF SameFlags
<1>2. Carries(frame[r].loop, facts[r], loop, facts[r])
  BY DEF Carries, Follows
<1>3. UNCHANGED <<ckpt, facts>> \/ CheckpointWith(r, taken, loop, facts[r])
  BY DEF Checkpoint
<1> QED BY <1>1, <1>2, <1>3, GotoRight

\* Stopped.
LEMMA StoppedRight ==
  ASSUME ResearchRight, NEW r \in Runs, frame[r].at \in Working, NEW new \in ResearchJobs,
         research[r].cancel => new.cancel, WithinBudget(new), Stopped(r, new)
  PROVE  ResearchRight'
<1> DEFINE done == [new EXCEPT !.status = "synthesizing"]
<1>1. /\ done \in ResearchJobs /\ done.status = "synthesizing" /\ done.pages = new.pages /\ done.llm = new.llm
      /\ done.cancel = new.cancel
  BY DEF ResearchJobs, RunStatuses
<1>2. frame[r].loop \in LoopStates /\ LoopOk(frame[r].loop)
  BY AtFacts DEF RunIsOk, RunOk, Frames
<1>3. Goto(r, done, "synthesize", frame[r].loop) /\ UNCHANGED <<ckpt, facts>>
  BY DEF Stopped
<1> HIDE DEF done
<1>4. "synthesize" \in Working /\ MayScrape("synthesize", done) /\ WithinBudget(done) /\ StatusKept(research[r], done)
  BY <1>1 DEF Working, MayScrape, WithinBudget, StatusKept
<1>5. PhaseOk("synthesize", frame[r].loop)
  BY DEF PhaseOk
<1> QED BY <1>1, <1>2, <1>3, <1>4, <1>5, GotoSameRight

\* What a coroutine at work knows of its job.
LEMMA WorkFacts ==
  ASSUME ResearchRight, NEW r \in Runs, frame[r].at \in Working
  PROVE  /\ research[r] \in ResearchJobs /\ WithinBudget(research[r]) /\ MayScrape(frame[r].at, research[r])
         /\ research[r].status # "interrupted" /\ research[r].pages \in Nat /\ research[r].llm \in Nat
         /\ frame[r].loop \in LoopStates /\ LoopOk(frame[r].loop) /\ PhaseOk(frame[r].at, frame[r].loop)
         /\ LlmCap \in Nat /\ MaxPages \in Nat
<1>1. /\ research[r] \in ResearchJobs /\ RunIsOk(r) /\ frame[r] \in Frames
  BY AtFacts DEF Working
<1>2. research[r] # Absent /\ frame[r].at # "none"
  BY <1>1, JobsAreKnown DEF Working
<1>3. /\ WithinBudget(research[r]) /\ MayScrape(frame[r].at, research[r]) /\ research[r].status # "interrupted"
      /\ LoopOk(frame[r].loop) /\ PhaseOk(frame[r].at, frame[r].loop)
  BY <1>1, <1>2 DEF RunIsOk, RunOk, BudgetOk, PlaceOk, WithinBudget, MayScrape
<1> QED BY <1>1, <1>3, ResearchAssumption DEF ResearchJobs, Frames

LEMMA BeginRunRight ==
  ASSUME ResearchRight, NEW r \in Runs, BeginRun(r)
  PROVE  ResearchRight'
<1> DEFINE job == [research[r] EXCEPT !.timed = TRUE]
           loop == frame[r].loop
           at == IF late[r] THEN "stop" ELSE IF loop.planned THEN "round" ELSE "plan"
<1>1. frame[r].at \in Working /\ Goto(r, job, at, loop) /\ Checkpoint(r, job, loop) /\ at \in Working /\ at # "scrape"
  BY DEF BeginRun, Working
<1>2. job \in ResearchJobs /\ (research[r].cancel => job.cancel) /\ StatusKept(research[r], job) /\ WithinBudget(job)
  BY <1>1, WorkFacts DEF ResearchJobs, StatusKept, WithinBudget
<1>3. loop \in LoopStates /\ LoopOk(loop)
  BY <1>1, WorkFacts
<1>5. PhaseOk(at, loop)
  BY DEF PhaseOk
<1> HIDE DEF job, at
<1>4. MayScrape(at, job)
  BY <1>1 DEF MayScrape
<1> QED BY <1>1, <1>2, <1>3, <1>4, <1>5, GotoSameRight

LEMMA StopLateRight ==
  ASSUME ResearchRight, NEW r \in Runs, StopLate(r)
  PROVE  ResearchRight'
<1>1. frame[r].at \in Working /\ Stopped(r, research[r])
  BY DEF StopLate, Working
<1> QED BY <1>1, WorkFacts, StoppedRight

\* One more budgeted call.
LEMMA CallFacts ==
  ASSUME ResearchRight, NEW r \in Runs, frame[r].at \in Working, ~Spent(research[r].llm),
         NEW job \in ResearchJobs, job.llm = research[r].llm + 1, job.pages = research[r].pages
  PROVE  WithinBudget(job)
BY WorkFacts DEF Spent, WithinBudget

\* The job with one field changed.
LEMMA JobUpdates ==
  ASSUME NEW old \in ResearchJobs
  PROVE  /\ \A status \in RunStatuses : LET new == [old EXCEPT !.status = status] IN
              new \in ResearchJobs /\ new.status = status /\ new.llm = old.llm /\ new.pages = old.pages /\ new.cancel = old.cancel
         /\ \A failed \in BOOLEAN : LET new == [old EXCEPT !.error = failed] IN
              new \in ResearchJobs /\ new.status = old.status /\ new.llm = old.llm /\ new.pages = old.pages /\ new.cancel = old.cancel
         /\ \A found \in BOOLEAN : LET new == [old EXCEPT !.relevant = found] IN
              new \in ResearchJobs /\ new.status = old.status /\ new.llm = old.llm /\ new.pages = old.pages /\ new.cancel = old.cancel
         /\ \A n \in Nat : LET new == [old EXCEPT !.llm = n] IN
              new \in ResearchJobs /\ new.status = old.status /\ new.llm = n /\ new.pages = old.pages /\ new.cancel = old.cancel
         /\ \A n \in Nat : LET new == [old EXCEPT !.pages = n] IN
              new \in ResearchJobs /\ new.status = old.status /\ new.llm = old.llm /\ new.pages = n /\ new.cancel = old.cancel
         /\ old.llm \in Nat /\ old.pages \in Nat /\ old.llm + 1 \in Nat /\ old.pages + 1 \in Nat /\ old.relevant \in BOOLEAN
BY DEF ResearchJobs

LEMMA PlanRight ==
  ASSUME ResearchRight, NEW r \in Runs, Plan(r)
  PROVE  ResearchRight'
<1> DEFINE asked == [research[r] EXCEPT !.status = "planning"]
           job == [asked EXCEPT !.llm = asked.llm + 1]
           urls == Only(SeedUrls, UnseenUrls(frame[r].loop.seen))
           loop == [frame[r].loop EXCEPT !.planned = TRUE, !.pending = urls]
<1>1. frame[r].at \in Working
  BY DEF Plan, Working
<1>a. /\ asked \in ResearchJobs /\ asked.status = "planning" /\ asked.llm = research[r].llm /\ asked.pages = research[r].pages
      /\ asked.cancel = research[r].cancel
  BY <1>1, WorkFacts, JobUpdates DEF RunStatuses
<1>c. job = [research[r] EXCEPT !.status = "planning", !.llm = @ + 1]
  BY <1>1, WorkFacts DEF ResearchJobs
<1> HIDE DEF asked
<1>b. /\ job \in ResearchJobs /\ job.status = "planning" /\ job.llm = research[r].llm + 1 /\ job.pages = research[r].pages
      /\ job.cancel = research[r].cancel
  BY <1>a, JobUpdates
<1> HIDE DEF job
<1>2. \/ Stopped(r, research[r])
      \/ ~Spent(research[r].llm) /\ Stopped(r, [job EXCEPT !.error = TRUE])
      \/ ~Spent(research[r].llm) /\ Goto(r, job, "round", loop) /\ Checkpoint(r, job, loop)
  BY <1>c DEF Plan
<1>3. CASE Stopped(r, research[r])
  BY <1>1, <1>3, WorkFacts, StoppedRight
<1>4. CASE ~Spent(research[r].llm) /\ Stopped(r, [job EXCEPT !.error = TRUE])
  <2> DEFINE bad == [job EXCEPT !.error = TRUE]
  <2>1. /\ bad \in ResearchJobs /\ bad.llm = research[r].llm + 1 /\ bad.pages = research[r].pages
        /\ (research[r].cancel => bad.cancel)
    BY <1>a, <1>b, JobUpdates
  <2> HIDE DEF bad
  <2>2. Stopped(r, bad)
    BY <1>4 DEF bad
  <2>3. WithinBudget(bad)
    BY <1>1, <1>4, <2>1, CallFacts
  <2> QED BY <1>1, <2>1, <2>2, <2>3, StoppedRight
<1>5. CASE ~Spent(research[r].llm) /\ Goto(r, job, "round", loop) /\ Checkpoint(r, job, loop)
  <2>1. /\ job \in ResearchJobs /\ job.llm = research[r].llm + 1 /\ job.pages = research[r].pages
        /\ (research[r].cancel => job.cancel) /\ StatusKept(research[r], job)
    BY <1>a, <1>b DEF StatusKept
  <2>2. urls \in Seq(Urls)
    BY OnlyFacts, ResearchAssumption
  <2>3. frame[r].loop \in LoopStates /\ frame[r].loop.phase = "search"
    <3>1. frame[r].at = "plan"
      BY DEF Plan
    <3> QED BY <1>1, <3>1, WorkFacts DEF LoopOk, PhaseOk
  <2> HIDE DEF urls
  <2>4. loop \in LoopStates /\ loop.seen = frame[r].loop.seen /\ loop.planned /\ loop.phase = "search"
    BY <2>2, <2>3 DEF LoopStates
  <2> HIDE DEF loop
  <2>5. LoopOk(loop) /\ PhaseOk("round", loop) /\ Left(loop) = Left(frame[r].loop)
    BY <2>3, <2>4 DEF LoopOk, PhaseOk, Left
  <2>6. WithinBudget(job) /\ MayScrape("round", job) /\ "round" \in Working
    BY <1>1, <1>5, <2>1, CallFacts DEF MayScrape, Working
  <2> QED BY <1>1, <1>5, <2>1, <2>4, <2>5, <2>6, GotoSameRight
<1> QED BY <1>2, <1>3, <1>4, <1>5

LEMMA BeginRoundRight ==
  ASSUME ResearchRight, NEW r \in Runs, BeginRound(r)
  PROVE  ResearchRight'
<1> DEFINE old == frame[r].loop
           n == IF old.phase = "read" THEN old.round ELSE old.round + 1
           job == [research[r] EXCEPT !.rounds = IF @ < n THEN n ELSE @]
           loop == [old EXCEPT !.round = n]
<1>1. frame[r].at \in Working
  BY DEF BeginRound, Working
<1>2. \/ Stopped(r, research[r])
      \/ /\ UNCHANGED <<ckpt, facts>>
         /\ \/ Goto(r, [job EXCEPT !.status = "reading"], "read", loop) /\ old.phase = "read"
            \/ Goto(r, [job EXCEPT !.status = "searching"], "select", loop)
  BY DEF BeginRound
<1>3. old \in LoopStates /\ LoopOk(old) /\ old.planned
  <2>1. frame[r].at = "round"
    BY DEF BeginRound
  <2> QED BY <1>1, <2>1, WorkFacts DEF PhaseOk
<1>4. /\ n \in Nat /\ loop \in LoopStates /\ loop.seen = old.seen /\ loop.pending = old.pending
      /\ loop.phase = old.phase /\ loop.planned
  BY <1>3 DEF LoopStates
<1>5. ASSUME NEW status \in {"reading", "searching"}, NEW job1, job1 = [job EXCEPT !.status = status]
      PROVE  /\ job1 \in ResearchJobs /\ (research[r].cancel => job1.cancel)
             /\ StatusKept(research[r], job1) /\ WithinBudget(job1)
  <2> HIDE DEF n
  <2>1. research[r] \in ResearchJobs /\ WithinBudget(research[r])
    BY <1>1, WorkFacts
  <2>2. /\ job \in ResearchJobs /\ job.cancel = research[r].cancel /\ job.pages = research[r].pages
        /\ job.llm = research[r].llm
    BY <1>4, <2>1 DEF ResearchJobs
  <2> HIDE DEF job
  <2>3. /\ job1 \in ResearchJobs /\ job1.cancel = job.cancel /\ job1.pages = job.pages
        /\ job1.llm = job.llm /\ job1.status = status
    BY <1>5, <2>2 DEF ResearchJobs, RunStatuses
  <2> QED BY <2>1, <2>2, <2>3 DEF StatusKept, WithinBudget
<1>6. LoopOk(loop) /\ Left(loop) = Left(old)
  BY <1>3, <1>4 DEF LoopOk, Left
<1> HIDE DEF job, loop, old
<1>7. \A j : MayScrape("read", j) /\ MayScrape("select", j) /\ "read" \in Working /\ "select" \in Working
  BY DEF MayScrape, Working
<1>8. CASE Stopped(r, research[r])
  BY <1>1, <1>8, WorkFacts, StoppedRight
<1>9. ASSUME NEW status \in {"reading", "searching"}, NEW at \in {"read", "select"},
             at = "read" => old.phase = "read", Goto(r, [job EXCEPT !.status = status], at, loop), UNCHANGED <<ckpt, facts>>
      PROVE  ResearchRight'
  <2> DEFINE job1 == [job EXCEPT !.status = status]
  <2>1. /\ job1 \in ResearchJobs /\ (research[r].cancel => job1.cancel)
        /\ StatusKept(research[r], job1) /\ WithinBudget(job1)
    BY <1>5
  <2>2. Goto(r, job1, at, loop) /\ UNCHANGED <<ckpt, facts>>
    BY <1>9
  <2> HIDE DEF job1
  <2>3. frame[r].loop.seen = loop.seen /\ Left(loop) = Left(frame[r].loop)
    BY <1>4, <1>6 DEF old
  <2>4. at \in Working /\ MayScrape(at, job1) /\ PhaseOk(at, loop)
    BY <1>4, <1>7, <1>9 DEF PhaseOk
  <2> QED BY <1>1, <1>4, <1>6, <2>1, <2>2, <2>3, <2>4, GotoSameRight
<1> QED BY <1>2, <1>8, <1>9

LEMMA PrefixFacts ==
  ASSUME NEW S, NEW q \in Seq(S), NEW n \in 0 .. Len(q)
  PROVE  SubSeq(q, 1, n) \in Seq(S) /\ ToSet(SubSeq(q, 1, n)) \subseteq ToSet(q)
<1> DEFINE p == SubSeq(q, 1, n)
<1>1. /\ p \in Seq(S) /\ DOMAIN p = 1 .. n /\ DOMAIN q = 1 .. Len(q) /\ n \in Nat /\ Len(q) \in Nat
      /\ \A i \in 1 .. n : p[i] = q[i] /\ i \in 1 .. Len(q)
  OBVIOUS
<1> HIDE DEF p
<1>2. ToSet(p) \subseteq ToSet(q)
  BY <1>1 DEF ToSet
<1> QED BY <1>1, <1>2 DEF p

LEMMA ConcatFacts ==
  ASSUME NEW S, NEW q \in Seq(S), NEW p \in Seq(S)
  PROVE  q \o p \in Seq(S) /\ ToSet(q \o p) = ToSet(q) \cup ToSet(p) /\ IsPrefix(q, q \o p)
<1> DEFINE c == q \o p
           m == Len(q)
           n == Len(p)
<1>1. /\ c \in Seq(S) /\ DOMAIN c = 1 .. m + n /\ DOMAIN q = 1 .. m /\ DOMAIN p = 1 .. n /\ n \in Nat /\ m \in Nat
      /\ \A i \in 1 .. m : c[i] = q[i]
      /\ \A i \in 1 .. n : c[m + i] = p[i]
      /\ Len(c) = m + n
  OBVIOUS
<1>5. IsPrefix(q, c)
  <2>1. Len(q) <= Len(c)
    BY <1>1
  <2>2. SubSeq(q, 1, m) = q /\ SubSeq(c, 1, m) = q
    OBVIOUS
  <2> QED BY <2>1, <2>2 DEF IsPrefix
<1> HIDE DEF c, m, n
<1>2. ASSUME NEW i \in 1 .. m + n PROVE i \in 1 .. m \/ (i - m \in 1 .. n /\ c[i] = p[i - m])
  <2>1. i \in 1 .. m \/ (i - m \in 1 .. n /\ m + (i - m) = i)
    BY <1>1
  <2> QED BY <1>1, <2>1
<1>3. (\A i \in 1 .. m : i \in 1 .. m + n) /\ (\A i \in 1 .. n : m + i \in 1 .. m + n)
  BY <1>1
<1>4. ToSet(c) = ToSet(q) \cup ToSet(p)
  <2>1. \A x \in ToSet(c) : x \in ToSet(q) \cup ToSet(p)
    BY <1>1, <1>2 DEF ToSet
  <2>2. ASSUME NEW i \in 1 .. m PROVE q[i] \in ToSet(c)
    BY <1>1, <1>3 DEF ToSet
  <2>3. ASSUME NEW i \in 1 .. n PROVE p[i] \in ToSet(c)
    <3>1. m + i \in DOMAIN c /\ c[m + i] = p[i]
      BY <1>1, <1>3
    <3> QED BY <3>1 DEF ToSet
  <2> QED BY <1>1, <2>1, <2>2, <2>3 DEF ToSet
<1> QED BY <1>1, <1>4, <1>5 DEF c

\* The row of facts with a new list.
LEMMA NewListRow ==
  ASSUME NEW fact \in FactRows, NEW urls
  PROVE  /\ NewList(fact, urls).listed = urls /\ NewList(fact, urls).read = <<>>
         /\ NewList(fact, urls).earlier = fact.earlier \cup PagesIn(fact.read)
         /\ SameFlags(fact, NewList(fact, urls))
         /\ urls \in Seq(Urls) => NewList(fact, urls) \in FactRows
<1> DEFINE old == PagesIn(fact.read)
           none == <<>>
           fact1 == [fact EXCEPT !.earlier = @ \cup old, !.listed = urls, !.read = none]
<1>1. old \in SUBSET Pages
  <2>1. \A u \in ToSet(fact.read) : u \in Urls
    BY DEF FactRows, ToSet
  <2> QED BY <2>1, ResearchAssumption DEF PagesIn
<1>2. none \in Seq(Urls)
  OBVIOUS
<1>3. NewList(fact, urls) = fact1
  BY DEF NewList
<1> HIDE DEF old, none
<1>4. /\ fact1.listed = urls /\ fact1.read = none /\ fact1.earlier = fact.earlier \cup old
      /\ fact1.born = fact.born /\ fact1.cancelled = fact.cancelled /\ fact1.unsaved = fact.unsaved
      /\ "read" \in DOMAIN fact1
  BY DEF FactRows
<1>5. urls \in Seq(Urls) => fact1 \in FactRows
  BY <1>1, <1>2 DEF FactRows
<1> HIDE DEF fact1
<1> QED BY <1>3, <1>4, <1>5 DEF none, old, SameFlags

\* The list a round settles on has no page that is seen, so it can be followed.
LEMMA NewListFacts ==
  ASSUME NEW old \in LoopStates, old.planned, NEW fact \in FactRows, NEW urls \in Seq(Urls),
         ToSet(urls) \subseteq UnseenUrls(old.seen),
         NEW loop, loop = [old EXCEPT !.pending = urls, !.phase = "read"]
  PROVE  /\ loop \in LoopStates /\ LoopOk(loop) /\ PhaseOk("read", loop)
         /\ NewList(fact, urls) \in FactRows /\ SameFlags(fact, NewList(fact, urls))
         /\ Carries(old, fact, loop, NewList(fact, urls))
<1> DEFINE fact1 == NewList(fact, urls)
<1>1. /\ loop \in LoopStates /\ loop.seen = old.seen /\ loop.pending = urls /\ loop.phase = "read"
      /\ loop.planned
  BY DEF LoopStates
<1>3. /\ fact1 \in FactRows /\ fact1.listed = urls /\ fact1.read = <<>>
      /\ fact1.earlier = fact.earlier \cup PagesIn(fact.read) /\ SameFlags(fact, fact1)
  BY NewListRow
<1> HIDE DEF fact1
<1>4. ASSUME Follows(old, fact) PROVE Follows(loop, fact1) /\ ListOk(fact1)
  <2>1. fact1.earlier \subseteq old.seen
    BY <1>3, <1>4 DEF Follows
  <2>2. PagesIn(<<>>) = {} /\ <<>> \o urls = urls
    BY DEF PagesIn, ToSet
  <2>3. IsPrefix(<<>>, urls)
    <3>1. <<>> \in Seq(Urls)
      OBVIOUS
    <3>2. IsPrefix(<<>>, <<>> \o urls)
      BY <3>1, ConcatFacts
    <3> QED BY <2>2, <3>2
  <2>4. PagesIn(urls) \cap old.seen = {}
    BY UnseenFacts
  <2>5. Follows(loop, fact1)
    BY <1>1, <1>3, <2>1, <2>2 DEF Follows, Left
  <2> QED BY <1>3, <2>1, <2>3, <2>4, <2>5 DEF ListOk
<1> QED BY <1>1, <1>3, <1>4 DEF LoopOk, PhaseOk, Carries, fact1

LEMMA SelectUrlsRight ==
  ASSUME ResearchRight, NEW r \in Runs, SelectUrls(r)
  PROVE  ResearchRight'
<1> DEFINE loop == frame[r].loop
           left == MaxPages - research[r].pages
           wanted == UnseenUrls(loop.seen)
           unread == Only(loop.pending, wanted)
           urls == SubSeq(unread, 1, IF Len(unread) < left THEN Len(unread) ELSE left)
           called == [research[r] EXCEPT !.llm = @ + 1]
<1>1. frame[r].at \in Working /\ frame[r].at = "select"
  BY DEF SelectUrls, Working
<1>2. /\ research[r] \in ResearchJobs /\ WithinBudget(research[r]) /\ loop \in LoopStates /\ loop.planned
      /\ research[r].status # "interrupted"
  BY <1>1, WorkFacts DEF PhaseOk
<1>3. left \in Nat
  BY <1>1, <1>2, WorkFacts DEF WithinBudget
<1>4. urls \in Seq(Urls) /\ ToSet(urls) \subseteq wanted
  <2>1. loop.pending \in Seq(Urls)
    BY <1>2 DEF LoopStates
  <2>2. unread \in Seq(Urls) /\ ToSet(unread) \subseteq wanted
    BY <2>1, OnlyFacts
  <2> HIDE DEF unread, left
  <2>3. (IF Len(unread) < left THEN Len(unread) ELSE left) \in 0 .. Len(unread)
    BY <1>3, <2>2
  <2>4. urls \in Seq(Urls) /\ ToSet(urls) \subseteq ToSet(unread)
    BY <2>2, <2>3, PrefixFacts
  <2> QED BY <2>2, <2>4
<1>5. /\ called \in ResearchJobs /\ called.llm = research[r].llm + 1 /\ called.pages = research[r].pages
      /\ called.cancel = research[r].cancel /\ called.status = research[r].status
  BY <1>2, JobUpdates
<1>6. \E fresh \in SUBSET wanted : \E k :
      \/ SettleOn(r, research[r], urls)
      \/ Stopped(r, research[r])
      \/ ~Spent(research[r].llm) /\ Stopped(r, [called EXCEPT !.error = TRUE])
      \/ /\ ~Spent(research[r].llm)
         /\ \E picked \in Picked(fresh, k) : SettleOn(r, called, urls \o NotListed(picked, urls))
  BY DEF SelectUrls, Fresh
<1> HIDE DEF called, urls
<1>7. ASSUME NEW job \in ResearchJobs, WithinBudget(job), job.cancel = research[r].cancel, NEW more \in Seq(Urls),
             ToSet(more) \subseteq wanted, SettleOn(r, job, more)
      PROVE  ResearchRight'
  <2> DEFINE new == [job EXCEPT !.status = "reading"]
             onward == [loop EXCEPT !.pending = more, !.phase = "read"]
             fact == NewList(facts[r], more)
  <2>1. /\ new \in ResearchJobs /\ new.status = "reading" /\ new.llm = job.llm /\ new.pages = job.pages
        /\ new.cancel = job.cancel
    BY <1>7, JobUpdates DEF RunStatuses
  <2>2. facts[r] \in FactRows
    BY AtFacts
  <2>3. Goto(r, new, "read", onward) /\ CheckpointWith(r, job, onward, fact)
    BY <1>7 DEF SettleOn
  <2>4. /\ onward \in LoopStates /\ LoopOk(onward) /\ PhaseOk("read", onward)
        /\ fact \in FactRows /\ SameFlags(facts[r], fact) /\ Carries(loop, facts[r], onward, fact)
    BY <1>2, <1>7, <2>2, NewListFacts
  <2> HIDE DEF new, onward, fact
  <2>5. /\ StatusKept(research[r], new) /\ WithinBudget(new) /\ MayScrape("read", new) /\ "read" \in Working
        /\ (research[r].cancel => new.cancel)
    BY <1>7, <2>1 DEF StatusKept, WithinBudget, MayScrape, Working
  <2> QED BY <1>1, <1>7, <2>1, <2>3, <2>4, <2>5, GotoRight
<1>8. CASE SettleOn(r, research[r], urls)
  BY <1>2, <1>4, <1>7, <1>8
<1>9. CASE Stopped(r, research[r])
  BY <1>1, <1>2, <1>9, StoppedRight
<1>10. CASE ~Spent(research[r].llm) /\ Stopped(r, [called EXCEPT !.error = TRUE])
  <2> DEFINE bad == [called EXCEPT !.error = TRUE]
  <2>1. /\ bad \in ResearchJobs /\ bad.llm = research[r].llm + 1 /\ bad.pages = research[r].pages
        /\ (research[r].cancel => bad.cancel)
    BY <1>5, JobUpdates
  <2>2. Stopped(r, bad)
    BY <1>10
  <2> HIDE DEF bad
  <2>3. WithinBudget(bad)
    BY <1>1, <1>10, <2>1, CallFacts
  <2> QED BY <1>1, <2>1, <2>2, <2>3, StoppedRight
<1>11. ASSUME ~Spent(research[r].llm), NEW fresh \in SUBSET wanted, NEW k, NEW picked \in Picked(fresh, k),
              SettleOn(r, called, urls \o NotListed(picked, urls))
       PROVE  ResearchRight'
  <2> DEFINE more == NotListed(picked, urls)
  <2>1. picked \in Seq(Urls) /\ ToSet(picked) \subseteq wanted
    <3>1. PICK n \in 0 .. k : picked \in [1 .. n -> fresh]
      BY DEF Picked
    <3>2. n \in Nat /\ fresh \subseteq Urls
      BY DEF UnseenUrls
    <3>3. picked \in [1 .. n -> Urls]
      BY <3>1, <3>2
    <3>4. picked \in Seq(Urls) /\ DOMAIN picked = 1 .. n
      BY <3>2, <3>3
    <3> QED BY <3>1, <3>4 DEF ToSet
  <2>2. more \in Seq(Urls) /\ ToSet(more) \subseteq ToSet(picked)
    BY <2>1, OnlyFacts DEF NotListed
  <2> HIDE DEF more, loop
  <2>3. urls \o more \in Seq(Urls) /\ ToSet(urls \o more) \subseteq wanted
    BY <1>4, <2>1, <2>2, ConcatFacts
  <2>4. WithinBudget(called)
    BY <1>1, <1>5, <1>11, CallFacts
  <2> QED BY <1>5, <1>7, <1>11, <2>3, <2>4 DEF more
<1> QED BY <1>6, <1>8, <1>9, <1>10, <1>11

\* The head of a list may be appended to what comes before it.
LEMMA HeadMoves ==
  ASSUME NEW S, NEW s \in Seq(S), NEW q \in Seq(S), q # <<>>
  PROVE  s \o q = Append(s, Head(q)) \o Tail(q)
<1> DEFINE more == Append(s, Head(q))
           rest == Tail(q)
           m == Len(s)
           n == Len(q)
<1>1. /\ m \in Nat /\ n \in Nat \ {0} /\ Head(q) \in S /\ Head(q) = q[1]
      /\ \A i \in 1 .. n : q[i] \in S
  OBVIOUS
<1>2. more \in Seq(S) /\ Len(more) = m + 1 /\ more[m + 1] = q[1] /\ \A i \in 1 .. m : more[i] = s[i]
  BY <1>1
<1>3. rest \in Seq(S) /\ Len(rest) = n - 1 /\ \A i \in 1 .. n - 1 : rest[i] = q[i + 1]
  BY <1>1
<1> HIDE DEF more, rest
<1>c. ASSUME NEW a \in Seq(S), NEW b \in Seq(S)
      PROVE  /\ a \o b \in Seq(S) /\ Len(a \o b) = Len(a) + Len(b)
             /\ \A i \in 1 .. Len(a) : (a \o b)[i] = a[i]
             /\ \A i \in 1 .. Len(b) : (a \o b)[Len(a) + i] = b[i]
  OBVIOUS
<1>4. /\ s \o q \in Seq(S) /\ Len(s \o q) = m + n
      /\ \A i \in 1 .. m : (s \o q)[i] = s[i]
      /\ \A i \in 1 .. n : (s \o q)[m + i] = q[i]
  BY <1>c
<1>5. /\ more \o rest \in Seq(S) /\ Len(more \o rest) = (m + 1) + (n - 1)
      /\ \A i \in 1 .. m + 1 : (more \o rest)[i] = more[i]
      /\ \A i \in 1 .. n - 1 : (more \o rest)[(m + 1) + i] = rest[i]
  <2>1. /\ more \o rest \in Seq(S) /\ Len(more \o rest) = Len(more) + Len(rest)
        /\ \A i \in 1 .. Len(more) : (more \o rest)[i] = more[i]
        /\ \A i \in 1 .. Len(rest) : (more \o rest)[Len(more) + i] = rest[i]
    BY <1>2, <1>3, <1>c
  <2>2. Len(more) = m + 1 /\ Len(rest) = n - 1
    BY <1>2, <1>3
  <2> HIDE DEF m, n
  <2> QED BY <2>1, <2>2
<1> DEFINE x == s \o q
           y == more \o rest
<1> HIDE DEF x, y, m, n
<1>6. x \in Seq(S) /\ y \in Seq(S) /\ Len(x) = m + n /\ Len(y) = m + n
  BY <1>1, <1>4, <1>5 DEF x, y
<1>7. ASSUME NEW i \in 1 .. m + n PROVE x[i] = y[i]
  <2>1. CASE i \in 1 .. m
    <3>1. i \in 1 .. m + 1
      BY <1>1, <2>1
    <3>2. x[i] = s[i] /\ y[i] = more[i] /\ more[i] = s[i]
      BY <1>2, <1>4, <1>5, <2>1, <3>1 DEF x, y, m
    <3> QED BY <3>2
  <2>2. CASE i = m + 1
    <3>1. 1 \in 1 .. n /\ m + 1 \in 1 .. m + 1
      BY <1>1
    <3>2. x[m + 1] = q[1]
      BY <1>4, <3>1 DEF x
    <3>3. y[m + 1] = more[m + 1]
      BY <1>5, <3>1 DEF y
    <3> QED BY <1>2, <2>2, <3>2, <3>3
  <2>3. CASE i \in m + 2 .. m + n
    <3> DEFINE j == i - (m + 1)
    <3>1. j \in 1 .. n - 1 /\ i = (m + 1) + j /\ j + 1 \in 1 .. n /\ i = m + (j + 1)
      BY <1>1, <2>3
    <3> HIDE DEF j
    <3>2. x[m + (j + 1)] = q[j + 1]
      BY <1>4, <3>1 DEF x
    <3>3. y[(m + 1) + j] = rest[j] /\ rest[j] = q[j + 1]
      BY <1>3, <1>5, <3>1 DEF y
    <3> QED BY <3>1, <3>2, <3>3
  <2> QED BY <1>1, <2>1, <2>2, <2>3
<1> HIDE DEF x, y
<1>8. x = y
  <2>1. DOMAIN x = 1 .. m + n /\ DOMAIN y = 1 .. m + n
    BY <1>6
  <2> QED BY <1>6, <1>7, <2>1
<1> QED BY <1>8 DEF x, y, more, rest

\* Claimed: the head of what is left of the list moves to what was read.
LEMMA ClaimedFacts ==
  ASSUME NEW loop \in LoopStates, loop.pending # <<>>, loop.phase = "read", loop.planned,
         NEW fact \in FactRows, NEW fact1, fact1 = [fact EXCEPT !.read = Append(@, Head(loop.pending))]
  PROVE  /\ Claimed(loop) \in LoopStates /\ LoopOk(Claimed(loop)) /\ PhaseOk("scrape", Claimed(loop))
         /\ fact1 \in FactRows /\ SameFlags(fact, fact1)
         /\ Carries(loop, fact, Claimed(loop), fact1)
<1> DEFINE q == loop.pending
           url == Head(q)
           rest == Tail(q)
           more == Append(fact.read, url)
<1>1. q \in Seq(Urls) /\ loop.seen \subseteq Pages /\ fact.read \in Seq(Urls)
  BY DEF LoopStates, FactRows
<1>2. url \in Urls /\ rest \in Seq(Urls) /\ Norm[url] \in Pages
  BY <1>1, HeadAndTail, ResearchAssumption
<1>3. more \in Seq(Urls) /\ ToSet(more) = ToSet(fact.read) \cup {url}
  BY <1>1, <1>2, InjectiveAppend
<1>4. fact.read \o q = more \o rest
  BY <1>1, HeadMoves
<1>5. /\ Claimed(loop) \in LoopStates /\ Claimed(loop).pending = rest /\ Claimed(loop).phase = "read"
      /\ Claimed(loop).planned /\ Claimed(loop).seen = loop.seen \cup {Norm[url]}
  BY <1>1, <1>2 DEF Claimed, LoopStates
<1> HIDE DEF url, rest, q
<1>6. /\ fact1 \in FactRows /\ fact1.listed = fact.listed /\ fact1.read = more /\ fact1.earlier = fact.earlier
      /\ fact1.born = fact.born /\ fact1.cancelled = fact.cancelled /\ fact1.unsaved = fact.unsaved
  BY <1>3 DEF FactRows, url, q
<1> HIDE DEF more
<1>7. ASSUME Follows(loop, fact), ListOk(fact) PROVE Follows(Claimed(loop), fact1) /\ ListOk(fact1)
  <2>1. fact.listed = fact.read \o q /\ PagesIn(fact.read) \cup fact.earlier \subseteq loop.seen
    BY <1>7 DEF Follows, Left, q
  <2>2. PagesIn(more) = PagesIn(fact.read) \cup {Norm[url]}
    BY <1>3 DEF PagesIn
  <2>3. Follows(Claimed(loop), fact1)
    BY <1>4, <1>5, <1>6, <2>1, <2>2 DEF Follows, Left
  <2>4. IsPrefix(more, more \o rest)
    BY <1>2, <1>3, ConcatFacts
  <2> QED BY <1>4, <1>6, <1>7, <2>1, <2>3, <2>4 DEF ListOk
<1> QED BY <1>5, <1>6, <1>7 DEF LoopOk, PhaseOk, SameFlags, Carries

LEMMA ClaimPageRight ==
  ASSUME ResearchRight, NEW r \in Runs, ClaimPage(r)
  PROVE  ResearchRight'
<1> DEFINE loop == frame[r].loop
           new == Claimed(loop)
           fact == [facts[r] EXCEPT !.read = Append(@, Head(loop.pending))]
<1>1. frame[r].at \in Working /\ frame[r].at = "read" /\ loop.pending # <<>>
  BY DEF ClaimPage, Working
<1>2. /\ research[r] \in ResearchJobs /\ WithinBudget(research[r]) /\ loop \in LoopStates
      /\ loop.phase = "read" /\ loop.planned /\ research[r].status # "interrupted"
  BY <1>1, WorkFacts DEF PhaseOk
<1>3. CASE Stopped(r, research[r])
  BY <1>1, <1>2, <1>3, StoppedRight
<1>4. CASE /\ research[r].pages < MaxPages /\ Goto(r, research[r], "scrape", new)
           /\ CheckpointWith(r, research[r], new, fact)
  <2>1. facts[r] \in FactRows
    BY AtFacts
  <2>2. /\ new \in LoopStates /\ LoopOk(new) /\ PhaseOk("scrape", new)
        /\ fact \in FactRows /\ SameFlags(facts[r], fact) /\ Carries(loop, facts[r], new, fact)
    BY <1>1, <1>2, <2>1, ClaimedFacts
  <2> HIDE DEF new, fact
  <2>3. StatusKept(research[r], research[r]) /\ MayScrape("scrape", research[r]) /\ "scrape" \in Working
    BY <1>2, <1>4 DEF StatusKept, MayScrape, Working
  <2> QED BY <1>1, <1>2, <1>4, <2>2, <2>3, GotoRight
<1> QED BY <1>3, <1>4 DEF ClaimPage

LEMMA ReadPageRight ==
  ASSUME ResearchRight, NEW r \in Runs, ReadPage(r)
  PROVE  ResearchRight'
<1> DEFINE loop == frame[r].loop
           paged == [research[r] EXCEPT !.pages = research[r].pages + 1]
           called == [paged EXCEPT !.llm = paged.llm + 1]
<1>1. frame[r].at \in Working /\ frame[r].at = "scrape"
  BY DEF ReadPage, Working
<1>2. /\ research[r] \in ResearchJobs /\ WithinBudget(research[r]) /\ loop \in LoopStates /\ LoopOk(loop)
      /\ PhaseOk(frame[r].at, loop) /\ MayScrape(frame[r].at, research[r]) /\ research[r].status # "interrupted" /\ LlmCap \in Nat /\ MaxPages \in Nat
  BY <1>1, WorkFacts
<1>3. /\ paged \in ResearchJobs /\ paged.status = research[r].status /\ paged.llm = research[r].llm
      /\ paged.pages = research[r].pages + 1 /\ paged.cancel = research[r].cancel
  BY <1>2, JobUpdates
<1>4. \/ \E job \in {research[r], paged} : Goto(r, job, "read", loop) /\ Checkpoint(r, job, loop)
      \/ Stopped(r, paged)
      \/ /\ ~Spent(paged.llm)
         /\ \/ \E job \in {[called EXCEPT !.relevant = paged.relevant \/ found] : found \in BOOLEAN} :
                   Goto(r, job, "read", loop) /\ Checkpoint(r, job, loop)
            \/ Stopped(r, [called EXCEPT !.error = TRUE])
  <2>1. paged = [research[r] EXCEPT !.pages = @ + 1]
    OBVIOUS
  <2> HIDE DEF paged, loop
  <2>2. [paged EXCEPT !.llm = @ + 1, !.error = TRUE] = [called EXCEPT !.error = TRUE]
    BY <1>3 DEF ResearchJobs
  <2>3. ASSUME NEW found \in BOOLEAN
        PROVE  [paged EXCEPT !.llm = @ + 1, !.relevant = @ \/ found] = [called EXCEPT !.relevant = paged.relevant \/ found]
    BY <1>3 DEF ResearchJobs
  <2> HIDE DEF called
  <2>4. \/ \E job \in {research[r], paged} : Goto(r, job, "read", loop) /\ Checkpoint(r, job, loop)
        \/ Spent(paged.llm) /\ Stopped(r, paged)
        \/ /\ ~Spent(paged.llm)
           /\ \/ \E found \in BOOLEAN :
                    /\ Goto(r, [paged EXCEPT !.llm = @ + 1, !.relevant = @ \/ found], "read", loop)
                    /\ Checkpoint(r, [paged EXCEPT !.llm = @ + 1, !.relevant = @ \/ found], loop)
              \/ Stopped(r, [paged EXCEPT !.llm = @ + 1, !.error = TRUE])
    BY <2>1 DEF ReadPage, loop
  <2> QED BY <2>2, <2>3, <2>4
<1> HIDE DEF paged
<1>5. called \in ResearchJobs /\ called.status = research[r].status /\ called.llm = research[r].llm + 1
      /\ called.pages = research[r].pages + 1 /\ called.cancel = research[r].cancel
  BY <1>3, JobUpdates
<1>6. WithinBudget(paged) /\ (~Spent(paged.llm) => called.pages <= MaxPages /\ called.llm <= LlmCap)
  <2>1. research[r].pages < MaxPages /\ research[r].pages \in Nat /\ research[r].llm \in Nat
    BY <1>1, <1>2 DEF MayScrape, ResearchJobs
  <2> QED BY <1>2, <1>3, <1>5, <2>1 DEF WithinBudget, Spent
<1> HIDE DEF called
<1>7. ASSUME NEW job \in ResearchJobs, job.status = research[r].status, job.cancel = research[r].cancel,
             WithinBudget(job), Goto(r, job, "read", loop), Checkpoint(r, job, loop)
      PROVE  ResearchRight'
  <2>1. StatusKept(research[r], job) /\ MayScrape("read", job) /\ "read" \in Working /\ (research[r].cancel => job.cancel)
    BY <1>2, <1>7 DEF StatusKept, MayScrape, Working
  <2>2. PhaseOk("read", loop)
    BY <1>1, <1>2 DEF PhaseOk
  <2> QED BY <1>1, <1>2, <1>7, <2>1, <2>2, GotoSameRight
<1>8. CASE \E job \in {research[r], paged} : Goto(r, job, "read", loop) /\ Checkpoint(r, job, loop)
  BY <1>2, <1>3, <1>6, <1>7, <1>8
<1>9. CASE Stopped(r, paged)
  BY <1>1, <1>3, <1>6, <1>9, StoppedRight
<1>10. ASSUME ~Spent(paged.llm), NEW found \in BOOLEAN, NEW job, job = [called EXCEPT !.relevant = paged.relevant \/ found],
              Goto(r, job, "read", loop), Checkpoint(r, job, loop)
       PROVE  ResearchRight'
  <2>1. (paged.relevant \/ found) \in BOOLEAN
    OBVIOUS
  <2>2. /\ job \in ResearchJobs /\ job.status = called.status /\ job.llm = called.llm
        /\ job.pages = called.pages /\ job.cancel = called.cancel
    BY <1>5, <1>10, <2>1, JobUpdates
  <2>3. WithinBudget(job)
    BY <1>6, <1>10, <2>2 DEF WithinBudget
  <2> QED BY <1>5, <1>7, <1>10, <2>2, <2>3
<1>11. CASE ~Spent(paged.llm) /\ Stopped(r, [called EXCEPT !.error = TRUE])
  <2> DEFINE bad == [called EXCEPT !.error = TRUE]
  <2>1. bad \in ResearchJobs /\ bad.llm = called.llm /\ bad.pages = called.pages /\ (research[r].cancel => bad.cancel)
    BY <1>5, JobUpdates
  <2>2. Stopped(r, bad)
    BY <1>11
  <2> HIDE DEF bad
  <2>3. WithinBudget(bad)
    BY <1>6, <1>11, <2>1 DEF WithinBudget
  <2> QED BY <1>1, <2>1, <2>2, <2>3, StoppedRight
<1> QED BY <1>4, <1>8, <1>9, <1>10, <1>11

LEMMA AssessRight ==
  ASSUME ResearchRight, NEW r \in Runs, Assess(r)
  PROVE  ResearchRight'
<1> DEFINE asked == [research[r] EXCEPT !.status = "planning"]
           job == [asked EXCEPT !.llm = asked.llm + 1]
           old == frame[r].loop
           loop == [old EXCEPT !.phase = "search"]
<1>1. frame[r].at \in Working
  BY DEF Assess, Working
<1>2. /\ research[r] \in ResearchJobs /\ WithinBudget(research[r]) /\ old \in LoopStates
      /\ old.planned /\ old.phase = "read" /\ old.pending = <<>>
  <2>1. frame[r].at = "read" /\ old.pending = <<>>
    BY DEF Assess
  <2> QED BY <1>1, <2>1, WorkFacts DEF PhaseOk
<1>3. job = [research[r] EXCEPT !.status = "planning", !.llm = @ + 1]
  BY <1>2 DEF ResearchJobs
<1>4. /\ asked \in ResearchJobs /\ asked.status = "planning" /\ asked.llm = research[r].llm
      /\ asked.pages = research[r].pages /\ asked.cancel = research[r].cancel
  <2>1. research[r] \in ResearchJobs /\ "planning" \in RunStatuses
    BY <1>2 DEF RunStatuses
  <2> QED BY <2>1, JobUpdates
<1> HIDE DEF asked
<1>5. /\ job \in ResearchJobs /\ job.status = "planning" /\ job.llm = research[r].llm + 1
      /\ job.pages = research[r].pages /\ job.cancel = research[r].cancel
  BY <1>4, JobUpdates
<1> HIDE DEF job
<1>6. \/ Stopped(r, research[r])
      \/ /\ ~Spent(research[r].llm)
         /\ \/ \E failed \in BOOLEAN : Stopped(r, [job EXCEPT !.error = failed])
            \/ Goto(r, job, "round", loop) /\ Checkpoint(r, job, loop)
  BY <1>3 DEF Assess
<1>7. CASE Stopped(r, research[r])
  BY <1>1, <1>2, <1>7, StoppedRight
<1>8. ASSUME ~Spent(research[r].llm), NEW failed \in BOOLEAN, NEW bad, bad = [job EXCEPT !.error = failed], Stopped(r, bad)
      PROVE  ResearchRight'
  <2>1. /\ bad \in ResearchJobs /\ bad.llm = research[r].llm + 1 /\ bad.pages = research[r].pages
        /\ (research[r].cancel => bad.cancel)
    BY <1>5, <1>8, JobUpdates
  <2>2. WithinBudget(bad)
    BY <1>1, <1>8, <2>1, CallFacts
  <2> QED BY <1>1, <1>8, <2>1, <2>2, StoppedRight
<1>9. CASE ~Spent(research[r].llm) /\ Goto(r, job, "round", loop) /\ Checkpoint(r, job, loop)
  <2>1. loop \in LoopStates /\ loop.seen = old.seen /\ loop.phase = "search" /\ loop.planned
    BY <1>2 DEF LoopStates
  <2> HIDE DEF loop
  <2>2. LoopOk(loop) /\ PhaseOk("round", loop) /\ Left(loop) = Left(old)
    BY <1>2, <2>1 DEF LoopOk, PhaseOk, Left
  <2>3. /\ WithinBudget(job) /\ MayScrape("round", job) /\ "round" \in Working /\ StatusKept(research[r], job)
        /\ (research[r].cancel => job.cancel)
    BY <1>1, <1>5, <1>9, CallFacts DEF MayScrape, Working, StatusKept
  <2> QED BY <1>1, <1>5, <1>9, <2>1, <2>2, <2>3, GotoSameRight
<1> QED BY <1>6, <1>7, <1>8, <1>9

\* A step of one run, by the values it leaves.
RunBecomes(r, job, fr, pk, ck, out, fact) ==
    /\ research' = [research EXCEPT ![r] = job] /\ frame' = [frame EXCEPT ![r] = fr]
    /\ parked' = [parked EXCEPT ![r] = pk] /\ ckpt' = [ckpt EXCEPT ![r] = ck]
    /\ outcome' = [outcome EXCEPT ![r] = out] /\ facts' = [facts EXCEPT ![r] = fact]
    /\ late' \in [Runs -> BOOLEAN] /\ crashes' = crashes

LEMMA OneRunRight ==
  ASSUME ResearchRight, NEW r \in Runs,
         NEW job \in ResearchJobs \cup {Absent}, NEW fr \in Frames, NEW pk \in LoopStates,
         NEW ck \in Checkpoints \cup {Absent}, NEW out \in Outcomes, NEW fact \in FactRows,
         RunOk(job, fr, pk, ck, out.events, fact),
         RunBecomes(r, job, fr, pk, ck, out, fact)
  PROVE  ResearchRight'
<1>1. /\ research' \in [Runs -> ResearchJobs \cup {Absent}] /\ frame' \in [Runs -> Frames]
      /\ parked' \in [Runs -> LoopStates]
  BY DEF RunBecomes, ResearchRight, ResearchTyped
<1>2. /\ ckpt' \in [Runs -> Checkpoints \cup {Absent}] /\ facts' \in [Runs -> FactRows]
      /\ outcome' \in [Runs -> Outcomes]
  BY DEF RunBecomes, ResearchRight, ResearchTyped
<1>3. ResearchTyped'
  BY <1>1, <1>2 DEF RunBecomes, ResearchRight, ResearchTyped
<1>4. /\ research'[r] = job /\ frame'[r] = fr /\ parked'[r] = pk /\ ckpt'[r] = ck
      /\ outcome'[r] = out /\ facts'[r] = fact
  BY DEF RunBecomes, ResearchRight, ResearchTyped
<1>5. RunIsOk(r)'
  BY <1>4 DEF RunIsOk
<1>6. \A q \in Runs : q # r =>
            /\ research'[q] = research[q] /\ frame'[q] = frame[q] /\ parked'[q] = parked[q]
            /\ ckpt'[q] = ckpt[q] /\ outcome'[q] = outcome[q] /\ facts'[q] = facts[q]
  BY DEF RunBecomes, ResearchRight, ResearchTyped
<1> QED BY <1>3, <1>5, <1>6, OtherRuns

\* What a step leaves alone, in the form of the lemma above.
LEMMA SameRuns ==
  ASSUME ResearchRight, NEW r \in Runs
  PROVE  /\ research = [research EXCEPT ![r] = research[r]] /\ frame = [frame EXCEPT ![r] = frame[r]]
         /\ parked = [parked EXCEPT ![r] = parked[r]] /\ ckpt = [ckpt EXCEPT ![r] = ckpt[r]]
         /\ outcome = [outcome EXCEPT ![r] = outcome[r]] /\ facts = [facts EXCEPT ![r] = facts[r]]
         /\ late \in [Runs -> BOOLEAN]
BY DEF ResearchRight, ResearchTyped

LEMMA SynthesizeRight ==
  ASSUME ResearchRight, NEW r \in Runs, Synthesize(r)
  PROVE  ResearchRight'
<1>1. frame[r].at = "synthesize" /\ frame[r].at \in Working
  BY DEF Synthesize, Working
<1>2. /\ research[r] \in ResearchJobs /\ WithinBudget(research[r]) /\ research[r].pages \in Nat /\ research[r].llm \in Nat
      /\ frame[r].loop \in LoopStates /\ LlmCap \in Nat /\ MaxPages \in Nat
  BY <1>1, WorkFacts
<1>3. PICK failed \in BOOLEAN :
        LET job == [research[r] EXCEPT !.error = @ \/ failed,
                        !.llm = IF research[r].relevant THEN @ + 1 ELSE @]
        IN Goto(r, [job EXCEPT !.status = FinalStatus(job)], "save", frame[r].loop)
  BY DEF Synthesize
<1> DEFINE job == [research[r] EXCEPT !.error = @ \/ failed,
                        !.llm = IF research[r].relevant THEN @ + 1 ELSE @]
           new == [job EXCEPT !.status = FinalStatus(job)]
           fr1 == [at |-> "save", loop |-> frame[r].loop]
<1>4. /\ job \in ResearchJobs /\ job.llm <= LlmCap + 1 /\ job.pages = research[r].pages /\ job.cancel = research[r].cancel
  <2> DEFINE n == IF research[r].relevant THEN research[r].llm + 1 ELSE research[r].llm
             e == research[r].error \/ failed
             mid == [research[r] EXCEPT !.error = e]
  <2>1. job = [mid EXCEPT !.llm = n]
    BY <1>2 DEF ResearchJobs
  <2>2. n \in Nat /\ n <= LlmCap + 1 /\ e \in BOOLEAN
    BY <1>2 DEF WithinBudget
  <2> HIDE DEF job, n, e
  <2>3. mid \in ResearchJobs /\ mid.pages = research[r].pages /\ mid.cancel = research[r].cancel
    BY <1>2, <2>2, JobUpdates
  <2> HIDE DEF mid
  <2>4. job \in ResearchJobs /\ job.llm = n /\ job.pages = mid.pages /\ job.cancel = mid.cancel
    BY <2>1, <2>2, <2>3, JobUpdates
  <2> QED BY <2>2, <2>3, <2>4
<1> HIDE DEF job
<1>5. FinalStatus(job) \in Terminal /\ (job.cancel => FinalStatus(job) # "completed")
  BY DEF FinalStatus, Terminal
<1>6. /\ new \in ResearchJobs /\ new.llm = job.llm /\ new.pages = job.pages /\ new.cancel = job.cancel
      /\ new.status = FinalStatus(job)
  BY <1>4, <1>5, JobUpdates DEF RunStatuses
<1>7. /\ research' = [research EXCEPT ![r] = new] /\ frame' = [frame EXCEPT ![r] = fr1]
      /\ UNCHANGED <<parked, late, outcome, crashes, ckpt, facts>>
  BY <1>3 DEF Goto, Synthesize, job
<1> HIDE DEF new
<1>8. fr1 \in Frames /\ fr1.at = "save" /\ fr1.loop = frame[r].loop
  BY <1>2 DEF Frames, RunPlaces
<1> HIDE DEF fr1
<1>9. /\ parked[r] \in LoopStates /\ ckpt[r] \in Checkpoints \cup {Absent} /\ facts[r] \in FactRows
      /\ outcome[r] \in Outcomes
      /\ RunOk(research[r], frame[r], parked[r], ckpt[r], outcome[r].events, facts[r])
  BY AtFacts DEF RunIsOk
<1>10. RunOk(new, fr1, parked[r], ckpt[r], outcome[r].events, facts[r])
  <2>1. new # Absent /\ research[r] # Absent /\ new.status \in Terminal /\ new.status # "interrupted" /\ fr1.at \notin Working
    BY <1>2, <1>5, <1>6, <1>8, JobsAreKnown DEF Terminal, Working
  <2>2. BudgetOk(new, fr1.at, ckpt[r]) /\ PlaceOk(new, fr1.at)
    BY <1>2, <1>4, <1>6, <1>8, <1>9, <2>1 DEF RunOk, BudgetOk, PlaceOk, WithinBudget
  <2>3. CancelOk(new, facts[r])
    BY <1>4, <1>5, <1>6, <1>9, <2>1 DEF RunOk, CancelOk
  <2>4. /\ ReadOk(new, fr1, parked[r], ckpt[r], facts[r]) /\ ReportOk(new, fr1.at, ckpt[r], outcome[r].events, facts[r])
        /\ UnbornOk(new, fr1.at, ckpt[r], outcome[r].events, facts[r])
    BY <1>1, <1>8, <1>9, <2>1 DEF RunOk, ReadOk, ReportOk, UnbornOk
  <2>5. PhaseOk(fr1.at, fr1.loop)
    BY <1>8 DEF PhaseOk
  <2> QED BY <1>8, <1>9, <2>2, <2>3, <2>4, <2>5 DEF RunOk
<1>11. RunBecomes(r, new, fr1, parked[r], ckpt[r], outcome[r], facts[r])
  BY <1>7, SameRuns DEF RunBecomes
<1> QED BY <1>6, <1>8, <1>9, <1>10, <1>11, OneRunRight

\* A coroutine that only reports is in no phase of the loop.
LEMMA PastTheLoop ==
  ASSUME NEW at \in {"none", "begin", "unlink", "deliver"}, NEW loop
  PROVE  PhaseOk(at, loop)
BY DEF PhaseOk

LEMMA ReportRight ==
  ASSUME ResearchRight, NEW r \in Runs, SaveResearch(r) \/ DeleteCheckpoint(r) \/ DeliverResearch(r)
  PROVE  ResearchRight'
<1>1. /\ research[r] \in ResearchJobs \cup {Absent} /\ parked[r] \in LoopStates /\ facts[r] \in FactRows
      /\ ckpt[r] \in Checkpoints \cup {Absent} /\ frame[r] \in Frames
      /\ outcome[r] \in Outcomes
      /\ RunOk(research[r], frame[r], parked[r], ckpt[r], outcome[r].events, facts[r])
  BY AtFacts DEF RunIsOk
<1>2. frame[r].at \in {"save", "unlink", "deliver"}
  BY DEF SaveResearch, DeleteCheckpoint, DeliverResearch
<1>3. research[r].status \in Terminal /\ research[r] # Absent /\ facts[r].born /\ research[r].status # "interrupted"
  BY <1>1, <1>2 DEF RunOk, PlaceOk, UnbornOk
<1> DEFINE lost == [facts[r] EXCEPT !.unsaved = TRUE]
           next1(at) == [frame[r] EXCEPT !.at = at]
<1>4. lost \in FactRows /\ lost.unsaved /\ lost.born = facts[r].born /\ lost.cancelled = facts[r].cancelled
  BY <1>1 DEF FactRows
<1>5. ASSUME NEW at \in {"unlink", "deliver"}
      PROVE  next1(at) \in Frames /\ next1(at).at = at /\ next1(at).loop = frame[r].loop
  BY <1>1 DEF Frames, RunPlaces
<1>6. CASE SaveResearch(r)
  <2>1. CASE /\ outcome' = [outcome EXCEPT ![r].artifacts = @ + 1] /\ frame' = [frame EXCEPT ![r] = next1("unlink")]
             /\ UNCHANGED facts
    <3> DEFINE out == [outcome[r] EXCEPT !.artifacts = @ + 1]
    <3>1. out \in Outcomes /\ out.events = outcome[r].events /\ outcome' = [outcome EXCEPT ![r] = out]
      BY <1>1, <2>1 DEF Outcomes
    <3> HIDE DEF out, next1
    <3>2. RunOk(research[r], next1("unlink"), parked[r], ckpt[r], out.events, facts[r])
      BY <1>1, <1>2, <1>3, <1>5, <3>1, PastTheLoop
         DEF RunOk, BudgetOk, PlaceOk, CancelOk, ReadOk, ReportOk, UnbornOk, Working
    <3>3. RunBecomes(r, research[r], next1("unlink"), parked[r], ckpt[r], out, facts[r])
      BY <1>6, <2>1, <3>1, SameRuns DEF RunBecomes, SaveResearch
    <3> QED BY <1>1, <1>5, <3>1, <3>2, <3>3, OneRunRight
  <2>2. CASE /\ frame' = [frame EXCEPT ![r] = next1("deliver")] /\ facts' = [facts EXCEPT ![r] = lost]
             /\ UNCHANGED outcome
    <3> HIDE DEF lost, next1
    <3>1. RunOk(research[r], next1("deliver"), parked[r], ckpt[r], outcome[r].events, lost)
      BY <1>1, <1>2, <1>3, <1>4, <1>5, PastTheLoop DEF RunOk, BudgetOk, PlaceOk, CancelOk, ReadOk, ReportOk, UnbornOk, Working
    <3>2. RunBecomes(r, research[r], next1("deliver"), parked[r], ckpt[r], outcome[r], lost)
      BY <1>6, <2>2, SameRuns DEF RunBecomes, SaveResearch
    <3> QED BY <1>1, <1>4, <1>5, <3>1, <3>2, OneRunRight
  <2> QED BY <1>6, <2>1, <2>2 DEF SaveResearch
<1>7. CASE DeleteCheckpoint(r)
  <2>1. frame' = [frame EXCEPT ![r] = next1("deliver")] /\ ckpt' = [ckpt EXCEPT ![r] = Absent]
    BY <1>7 DEF DeleteCheckpoint
  <2> HIDE DEF next1
  <2>2. RunOk(research[r], next1("deliver"), parked[r], Absent, outcome[r].events, facts[r])
    BY <1>1, <1>2, <1>3, <1>5, PastTheLoop DEF RunOk, BudgetOk, PlaceOk, CancelOk, ReadOk, ReportOk, UnbornOk, Working
  <2>3. RunBecomes(r, research[r], next1("deliver"), parked[r], Absent, outcome[r], facts[r])
    BY <1>7, <2>1, SameRuns DEF RunBecomes, DeleteCheckpoint
  <2> QED BY <1>1, <1>5, <2>2, <2>3, OneRunRight
<1>8. CASE DeliverResearch(r)
  <2>1. PICK got \in {0, 1} : outcome' = [outcome EXCEPT ![r].events = @ + got]
    BY <1>8 DEF DeliverResearch
  <2> DEFINE out == [outcome[r] EXCEPT !.events = @ + got]
  <2>2. /\ out \in Outcomes /\ out.events = outcome[r].events + got
        /\ outcome' = [outcome EXCEPT ![r] = out] /\ outcome[r].events \in Nat
    BY <1>1, <2>1 DEF Outcomes
  <2>3. Idle \in Frames /\ Idle.at = "none" /\ LoopOk(Idle.loop)
    BY JobsAreKnown DEF Idle, Frames, RunPlaces
  <2> HIDE DEF out
  <2>4. frame[r].at = "deliver"
    BY <1>8 DEF DeliverResearch
  <2>5. ReportOk(research[r], Idle.at, ckpt[r], out.events, facts[r])
    BY <1>1, <1>3, <2>2, <2>3, <2>4 DEF RunOk, ReportOk
  <2>6. RunOk(research[r], Idle, parked[r], ckpt[r], out.events, facts[r])
    BY <1>1, <1>3, <2>3, <2>4, <2>5, PastTheLoop DEF RunOk, BudgetOk, PlaceOk, CancelOk, ReadOk, UnbornOk, Working
  <2>7. RunBecomes(r, research[r], Idle, parked[r], ckpt[r], out, facts[r])
    BY <1>8, <2>2, SameRuns DEF RunBecomes, DeliverResearch
  <2> QED BY <1>1, <2>2, <2>3, <2>6, <2>7, OneRunRight
<1> QED BY <1>6, <1>7, <1>8

\* start_research, cancel, the deadline, and resume.
LEMMA OutsideRight ==
  ASSUME ResearchRight, NEW r \in Runs,
         StartResearch(r) \/ CancelResearch(r) \/ DeadlinePasses(r) \/ ResumeResearch(r)
  PROVE  ResearchRight'
<1>1. /\ research[r] \in ResearchJobs \cup {Absent} /\ parked[r] \in LoopStates /\ facts[r] \in FactRows
      /\ ckpt[r] \in Checkpoints \cup {Absent} /\ frame[r] \in Frames /\ outcome[r] \in Outcomes
      /\ RunOk(research[r], frame[r], parked[r], ckpt[r], outcome[r].events, facts[r])
  BY AtFacts DEF RunIsOk
<1>2. LlmCap \in Nat /\ MaxPages \in Nat
  BY ResearchAssumption
<1>3. CASE StartResearch(r)
  <2> DEFINE fr1 == [at |-> "begin", loop |-> FreshLoop]
             fact1 == [facts[r] EXCEPT !.born = TRUE]
  <2>1. fr1 \in Frames /\ fr1.at = "begin" /\ fr1.loop = FreshLoop /\ LoopOk(FreshLoop) /\ NewRun \in ResearchJobs /\ NewRun # Absent
    BY JobsAreKnown DEF Frames, RunPlaces
  <2>2. /\ fact1 \in FactRows /\ fact1.born /\ SameList(facts[r], fact1) /\ fact1.cancelled = facts[r].cancelled
        /\ fact1.unsaved = facts[r].unsaved
    BY <1>1 DEF FactRows, SameList
  <2>3. RunBecomes(r, NewRun, fr1, parked[r], ckpt[r], outcome[r], fact1)
    BY <1>3, SameRuns DEF RunBecomes, StartResearch
  <2> HIDE DEF fr1, fact1
  <2>4. /\ ckpt[r] = Absent /\ outcome[r].events = 0 /\ ~facts[r].cancelled
        /\ facts[r].listed = <<>> /\ facts[r].read = <<>> /\ facts[r].earlier = {}
    BY <1>1, <1>3 DEF RunOk, UnbornOk, StartResearch
  <2>5. ListOk(fact1) /\ Follows(FreshLoop, fact1)
    <3>1. FreshLoop.phase = "search"
      BY DEF FreshLoop
    <3> QED BY <2>2, <2>4, <3>1, NothingRead DEF SameList
  <2>6. NewRun.pages = 0 /\ NewRun.llm = 0 /\ NewRun.status = "queued" /\ ~NewRun.cancel
    BY DEF NewRun
  <2>7. BudgetOk(NewRun, fr1.at, ckpt[r]) /\ PlaceOk(NewRun, fr1.at) /\ CancelOk(NewRun, fact1)
    BY <1>2, <2>1, <2>2, <2>4, <2>6 DEF BudgetOk, PlaceOk, CancelOk
  <2>8. /\ ReadOk(NewRun, fr1, parked[r], ckpt[r], fact1) /\ ReportOk(NewRun, fr1.at, ckpt[r], outcome[r].events, fact1)
        /\ UnbornOk(NewRun, fr1.at, ckpt[r], outcome[r].events, fact1)
    BY <2>1, <2>2, <2>4, <2>5, <2>6 DEF ReadOk, ReportOk, UnbornOk
  <2>9. RunOk(NewRun, fr1, parked[r], ckpt[r], outcome[r].events, fact1)
    BY <1>1, <2>1, <2>4, <2>7, <2>8, PastTheLoop DEF RunOk
  <2> QED BY <1>1, <2>1, <2>2, <2>3, <2>9, OneRunRight
<1>4. CASE CancelResearch(r)
  <2> DEFINE job == [research[r] EXCEPT !.cancel = TRUE]
             fact1 == [facts[r] EXCEPT !.cancelled = TRUE]
  <2>0. research[r] # Absent /\ research[r] \in ResearchJobs /\ research[r].status # "completed"
    BY <1>1, <1>4 DEF CancelResearch, Terminal
  <2>1. /\ job \in ResearchJobs /\ job.cancel /\ job.status = research[r].status /\ job.pages = research[r].pages
        /\ job.llm = research[r].llm
    BY <2>0 DEF ResearchJobs
  <2>2. /\ fact1 \in FactRows /\ fact1.born = facts[r].born /\ SameList(facts[r], fact1) /\ fact1.cancelled
        /\ fact1.unsaved = facts[r].unsaved
    BY <1>1 DEF FactRows, SameList
  <2>3. RunBecomes(r, job, frame[r], parked[r], ckpt[r], outcome[r], fact1)
    BY <1>4, SameRuns DEF RunBecomes, CancelResearch
  <2> HIDE DEF job, fact1
  <2>4. job # Absent /\ facts[r].born
    BY <1>1, <2>0, <2>1, JobsAreKnown DEF RunOk, UnbornOk
  <2>5. BudgetOk(job, frame[r].at, ckpt[r]) /\ PlaceOk(job, frame[r].at) /\ CancelOk(job, fact1)
    BY <1>1, <2>0, <2>1, <2>2, <2>4 DEF RunOk, BudgetOk, PlaceOk, CancelOk
  <2>6. /\ ReadOk(job, frame[r], parked[r], ckpt[r], fact1) /\ ReportOk(job, frame[r].at, ckpt[r], outcome[r].events, fact1)
        /\ UnbornOk(job, frame[r].at, ckpt[r], outcome[r].events, fact1)
    BY <1>1, <2>1, <2>2, <2>4, SameListFacts DEF RunOk, ReadOk, ReportOk, UnbornOk
  <2>7. RunOk(job, frame[r], parked[r], ckpt[r], outcome[r].events, fact1)
    BY <1>1, <2>5, <2>6 DEF RunOk
  <2> QED BY <1>1, <2>1, <2>2, <2>3, <2>7, OneRunRight
<1>5. CASE DeadlinePasses(r)
  <2>1. RunBecomes(r, research[r], frame[r], parked[r], ckpt[r], outcome[r], facts[r])
    BY <1>5, SameRuns DEF RunBecomes, DeadlinePasses
  <2> QED BY <1>1, <2>1, OneRunRight
<1>6. CASE ResumeResearch(r)
  <2> DEFINE job == [research[r] EXCEPT !.status = "queued"]
             fr1 == [at |-> "begin", loop |-> parked[r]]
  <2>0. research[r] # Absent /\ research[r] \in ResearchJobs /\ research[r].status = "interrupted"
    BY <1>1, <1>6 DEF ResumeResearch
  <2>1. /\ job \in ResearchJobs /\ job.status = "queued" /\ job.llm = research[r].llm /\ job.pages = research[r].pages
        /\ job.cancel = research[r].cancel
    BY <2>0, JobUpdates DEF RunStatuses
  <2>2. fr1 \in Frames /\ fr1.at = "begin" /\ fr1.loop = parked[r] /\ FreshLoop \in LoopStates /\ LoopOk(FreshLoop)
    BY <1>1, JobsAreKnown DEF Frames, RunPlaces
  <2>3. RunBecomes(r, job, fr1, FreshLoop, ckpt[r], outcome[r], facts[r])
    BY <1>6, SameRuns DEF RunBecomes, ResumeResearch
  <2> HIDE DEF job, fr1
  <2>4. job # Absent /\ facts[r].born
    BY <1>1, <2>0, <2>1, JobsAreKnown DEF RunOk, UnbornOk
  <2>5. BudgetOk(job, fr1.at, ckpt[r]) /\ PlaceOk(job, fr1.at) /\ CancelOk(job, facts[r])
    BY <1>1, <1>2, <2>0, <2>1, <2>2, <2>4 DEF RunOk, BudgetOk, PlaceOk, CancelOk
  <2>6. /\ ReadOk(job, fr1, FreshLoop, ckpt[r], facts[r]) /\ ReportOk(job, fr1.at, ckpt[r], outcome[r].events, facts[r])
        /\ UnbornOk(job, fr1.at, ckpt[r], outcome[r].events, facts[r])
    BY <1>1, <2>0, <2>1, <2>2, <2>4 DEF RunOk, ReadOk, ReportOk, UnbornOk
  <2>7. RunOk(job, fr1, FreshLoop, ckpt[r], outcome[r].events, facts[r])
    BY <1>1, <2>2, <2>5, <2>6, PastTheLoop DEF RunOk
  <2> QED BY <1>1, <2>1, <2>2, <2>3, <2>7, OneRunRight
<1> QED BY <1>3, <1>4, <1>5, <1>6

\* The next process has what the checkpoints say.
LEMMA RestartRight ==
  ASSUME ResearchRight, RestartResearch
  PROVE  ResearchRight'
<1>1. PICK auto \in SUBSET Restorable :
         /\ research' = [r \in Runs |->
                IF r \notin Restorable THEN Absent
                ELSE [ckpt[r].job EXCEPT !.status = IF r \in auto THEN "queued" ELSE "interrupted"]]
         /\ frame' = [r \in Runs |-> IF r \in auto THEN [at |-> "begin", loop |-> ckpt[r].loop] ELSE Idle]
         /\ parked' = [r \in Runs |-> IF r \in Restorable \ auto THEN ckpt[r].loop ELSE FreshLoop]
  BY DEF RestartResearch
<1>2. /\ ckpt' = [r \in Runs |-> IF r \in Restorable THEN ckpt[r] ELSE Absent]
      /\ facts' = [r \in Runs |-> [facts[r] EXCEPT !.cancelled = FALSE]]
      /\ UNCHANGED <<late, outcome>> /\ crashes' \in 0 .. MaxCrashes
  BY ResearchAssumption DEF RestartResearch, ResearchRight, ResearchTyped
<1>3. Idle \in Frames /\ Idle.at = "none" /\ Idle.loop = FreshLoop /\ FreshLoop \in LoopStates /\ LoopOk(FreshLoop)
  BY JobsAreKnown DEF Idle, Frames, RunPlaces
<1>4. ASSUME NEW r \in Runs
      PROVE  /\ research'[r] \in ResearchJobs \cup {Absent} /\ frame'[r] \in Frames /\ parked'[r] \in LoopStates
             /\ ckpt'[r] \in Checkpoints \cup {Absent} /\ facts'[r] \in FactRows /\ RunIsOk(r)'
  <2>1. /\ ckpt[r] \in Checkpoints \cup {Absent} /\ facts[r] \in FactRows
        /\ RunOk(research[r], frame[r], parked[r], ckpt[r], outcome[r].events, facts[r])
    BY AtFacts DEF RunIsOk
  <2>2. /\ facts'[r] \in FactRows /\ ~facts'[r].cancelled /\ SameList(facts[r], facts'[r])
        /\ facts'[r].unsaved = facts[r].unsaved /\ facts'[r].born = facts[r].born
    BY <1>2, <2>1 DEF FactRows, SameList
  <2>c. /\ ListOk(facts[r]) => ListOk(facts'[r])
        /\ \A loop : Follows(loop, facts[r]) => Follows(loop, facts'[r])
    BY <2>2, SameListFacts
  <2>3. CASE r \notin Restorable
    <3>1. /\ research'[r] = Absent /\ frame'[r] = Idle /\ parked'[r] = FreshLoop /\ ckpt'[r] = Absent
          /\ outcome'[r] = outcome[r]
      BY <1>1, <1>2, <2>3
    <3>2. Absent.status = "absent"
      BY JobsAreKnown
    <3>3. RunOk(Absent, Idle, FreshLoop, Absent, outcome[r].events, facts'[r])
      BY <1>3, <2>1, <2>2, <2>c, <3>2, PastTheLoop
         DEF RunOk, BudgetOk, PlaceOk, CancelOk, ReadOk, ReportOk, UnbornOk, SameList
    <3> QED BY <1>3, <2>2, <3>1, <3>3 DEF RunIsOk
  <2>4. CASE r \in Restorable
    <3> DEFINE job == [ckpt[r].job EXCEPT !.status = IF r \in auto THEN "queued" ELSE "interrupted"]
               fr1 == IF r \in auto THEN [at |-> "begin", loop |-> ckpt[r].loop] ELSE Idle
               pk1 == IF r \in Restorable \ auto THEN ckpt[r].loop ELSE FreshLoop
    <3>1. research'[r] = job /\ frame'[r] = fr1 /\ parked'[r] = pk1 /\ ckpt'[r] = ckpt[r] /\ outcome'[r] = outcome[r]
      BY <1>1, <1>2, <2>4
    <3>2. ckpt[r] # Absent /\ ckpt[r] \in Checkpoints /\ ckpt[r].job \in ResearchJobs /\ ckpt[r].loop \in LoopStates
      BY <2>1, <2>4 DEF Restorable, Checkpoints
    <3>3. /\ job \in ResearchJobs /\ job.status = (IF r \in auto THEN "queued" ELSE "interrupted")
          /\ job.llm = ckpt[r].job.llm /\ job.pages = ckpt[r].job.pages
      <4>1. (IF r \in auto THEN "queued" ELSE "interrupted") \in RunStatuses
        BY DEF RunStatuses
      <4> QED BY <3>2, <4>1, JobUpdates
    <3>4. /\ fr1 \in Frames /\ (r \in auto => fr1.at = "begin" /\ fr1.loop = ckpt[r].loop)
          /\ (r \notin auto => fr1.at = "none" /\ fr1.loop = FreshLoop)
      BY <1>3, <3>2 DEF Frames, RunPlaces
    <3>5. pk1 \in LoopStates /\ (r \notin auto => pk1 = ckpt[r].loop) /\ (r \in auto => pk1 = FreshLoop)
      BY <1>3, <2>4, <3>2
    <3> HIDE DEF job, fr1, pk1
    <3>6. job # Absent /\ facts[r].born /\ job.llm \in Nat /\ LlmCap \in Nat
      BY <2>1, <3>2, <3>3, JobsAreKnown, ResearchAssumption DEF RunOk, UnbornOk, ResearchJobs
    <3>7. LoopOk(fr1.loop) /\ LoopOk(pk1) /\ LoopOk(ckpt[r].loop) /\ PhaseOk(fr1.at, fr1.loop)
      BY <1>3, <2>1, <3>2, <3>4, <3>5, PastTheLoop DEF RunOk
    <3>8. BudgetOk(job, fr1.at, ckpt[r]) /\ PlaceOk(job, fr1.at) /\ CancelOk(job, facts'[r])
      BY <2>1, <2>2, <3>2, <3>3, <3>4, <3>6 DEF RunOk, BudgetOk, PlaceOk, CancelOk
    <3>9. ReadOk(job, fr1, pk1, ckpt[r], facts'[r])
      BY <2>1, <2>2, <2>c, <3>2, <3>3, <3>4, <3>5 DEF RunOk, ReadOk
    <3>10. ReportOk(job, fr1.at, ckpt[r], outcome[r].events, facts'[r]) /\ UnbornOk(job, fr1.at, ckpt[r], outcome[r].events, facts'[r])
      BY <2>1, <2>2, <3>2, <3>4, <3>6 DEF RunOk, ReportOk, UnbornOk
    <3>11. RunOk(job, fr1, pk1, ckpt[r], outcome[r].events, facts'[r])
      BY <3>7, <3>8, <3>9, <3>10 DEF RunOk
    <3> QED BY <2>1, <2>2, <3>1, <3>3, <3>4, <3>5, <3>11 DEF RunIsOk
  <2> QED BY <2>3, <2>4
<1>5. ResearchTyped'
  <2>1. research' \in [Runs -> ResearchJobs \cup {Absent}]
    <3>1. research' = [r \in Runs |-> research'[r]]
      BY <1>1
    <3> QED BY <1>4, <3>1
  <2>2. frame' \in [Runs -> Frames] /\ parked' \in [Runs -> LoopStates]
    <3>1. frame' = [r \in Runs |-> frame'[r]] /\ parked' = [r \in Runs |-> parked'[r]]
      BY <1>1
    <3> QED BY <1>4, <3>1
  <2>3. ckpt' \in [Runs -> Checkpoints \cup {Absent}] /\ facts' \in [Runs -> FactRows]
    <3>1. ckpt' = [r \in Runs |-> ckpt'[r]] /\ facts' = [r \in Runs |-> facts'[r]]
      BY <1>2
    <3> QED BY <1>4, <3>1
  <2> QED BY <1>2, <2>1, <2>2, <2>3 DEF ResearchRight, ResearchTyped
<1> QED BY <1>4, <1>5 DEF ResearchRight

LEMMA ResearchStepRight == ResearchRight /\ [ResearchNext]_rvars => ResearchRight'
<1> SUFFICES ASSUME ResearchRight, [ResearchNext]_rvars PROVE ResearchRight'
  OBVIOUS
<1>1. ASSUME NEW r \in Runs, ResearchStep(r) PROVE ResearchRight'
  BY <1>1, BeginRunRight, StopLateRight, PlanRight, BeginRoundRight, SelectUrlsRight, ClaimPageRight, ReadPageRight,
     AssessRight, SynthesizeRight, ReportRight DEF ResearchStep
<1>2. CASE UNCHANGED rvars
  BY <1>2 DEF rvars, ResearchRight, ResearchTyped, RunIsOk
<1> QED BY <1>1, <1>2, OutsideRight, RestartRight DEF ResearchNext

LEMMA ResearchEnough ==
  ResearchRight => ResearchTypeOK /\ ResearchBudgets /\ NoEntryReadAgain /\ CancelIsHonoured /\ ReportedOnce
<1> SUFFICES ASSUME ResearchRight
             PROVE  ResearchTypeOK /\ ResearchBudgets /\ NoEntryReadAgain /\ CancelIsHonoured /\ ReportedOnce
  OBVIOUS
<1>1. ResearchTypeOK
  BY DEF ResearchRight, ResearchTyped, ResearchTypeOK, ResearchJobs, NewRun
<1>2. ASSUME NEW r \in Runs PROVE RunOk(research[r], frame[r], parked[r], ckpt[r], outcome[r].events, facts[r])
  BY DEF ResearchRight, RunIsOk
<1>3. ResearchBudgets /\ CancelIsHonoured
  BY <1>2 DEF ResearchBudgets, CancelIsHonoured, RunOk, BudgetOk, CancelOk
<1>4. NoEntryReadAgain /\ ReportedOnce
  BY <1>2 DEF NoEntryReadAgain, ReportedOnce, RunOk, ReadOk, ReportOk, ListOk
<1> QED BY <1>1, <1>3, <1>4

-----------------------------------------------------------------------------
(* The in-memory crawl (LegacyCrawl).                                        *)

CrawlItems == [url : Sites, depth : Nat]
CrawlStatuses == EndedCrawl \cup {"pending", "processing", "interrupted"}
CrawlJobs == [status : CrawlStatuses, results : Seq(Sites), errors : SUBSET Sites]
Snapshots == [status : CrawlStatuses, job : CrawlJobs, visited : SUBSET Sites, pending : Seq(CrawlItems)]
CrawlStages == {"seed", "reseed", "fetch", "unlink", "over", "parked", "gone"}

LegacyTyped ==
    /\ crawl \in CrawlJobs /\ visited \in SUBSET Sites /\ pending \in Seq(CrawlItems)
    /\ queue \in Seq(CrawlItems) /\ fetching \in [Fetchers -> CrawlItems \cup {NoPage}]
    /\ saved \in Snapshots \cup {NoFile} /\ stage \in CrawlStages

Handled(job) == ToSet(job.results) \cup job.errors

(* Results and errors are claimed URLs, and the claims are within the limit. *)
ClaimsOk(job, seen) ==
    /\ IsInjective(job.results) /\ Handled(job) \subseteq seen
    /\ IsFiniteSet(seen) /\ Cardinality(seen) <= CrawlLimit

(* What a worker has is claimed, by it alone, and not handled yet.           *)
FetchingOk ==
    \A f \in Fetchers : fetching[f] # NoPage =>
        /\ stage = "fetch" /\ fetching[f].url \in visited /\ fetching[f].url \notin Handled(crawl)
        /\ \A g \in Fetchers : g # f /\ fetching[g] # NoPage => fetching[g].url # fetching[f].url

SavedOk == saved # NoFile => ClaimsOk(saved.job, saved.visited)

LegacyRight ==
    /\ LegacyTyped /\ ClaimsOk(crawl, visited) /\ FetchingOk /\ SavedOk /\ FrontierIsMirrored

LEMMA CrawlKinds ==
  /\ \A ck \in Snapshots \cup {NoFile} : (ck # NoFile <=> ck \in Snapshots)
  /\ NewCrawl \in CrawlJobs /\ Handled(NewCrawl) = {} /\ IsInjective(NewCrawl.results) /\ CrawlLimit \in Nat
  /\ IsFiniteSet({}) /\ Cardinality({}) = 0 /\ ClaimsOk(NewCrawl, {})
<1>1. \A ck \in Snapshots : ck.status # "none"
  BY DEF Snapshots, CrawlStatuses, EndedCrawl
<1>2. NoFile.status = "none"
  BY DEF NoFile
<1>3. NewCrawl \in CrawlJobs /\ NewCrawl.results = <<>> /\ NewCrawl.errors = {}
  BY DEF NewCrawl, CrawlJobs, CrawlStatuses
<1>4. ToSet(<<>>) = {} /\ IsInjective(<<>>)
  BY DEF ToSet, IsInjective
<1>5. Handled(NewCrawl) = {} /\ IsInjective(NewCrawl.results)
  BY <1>3, <1>4 DEF Handled
<1>6. IsFiniteSet({}) /\ Cardinality({}) = 0 /\ CrawlLimit \in Nat
  BY FS_EmptySet, LegacyAssumption
<1>7. ClaimsOk(NewCrawl, {})
  BY <1>5, <1>6 DEF ClaimsOk
<1> QED BY <1>1, <1>2, <1>3, <1>5, <1>6, <1>7

LEMMA LegacyStart == LegacyInit => LegacyRight
<1> SUFFICES ASSUME LegacyInit PROVE LegacyRight
  OBVIOUS
<1>1. LegacyTyped
  BY CrawlKinds, LegacyAssumption DEF LegacyInit, LegacyTyped, CrawlItems, CrawlStages
<1> QED BY <1>1, CrawlKinds DEF LegacyInit, LegacyRight, FetchingOk, SavedOk, FrontierIsMirrored

\* The sitemap's URLs as items of the frontier.
LEMMA SeedItemsTyped ==
  ASSUME NEW found \in Seq(Sites)
  PROVE  SeedItems(found) \in Seq(CrawlItems)
<1> DEFINE L == Len(found)
           T == Seq(CrawlItems)
           Item(n) == [url |-> found[n], depth |-> 1]
           IsLoop(f) == f = [n \in 0 .. L |->
                IF n = 0 THEN <<>> ELSE IF found[n] = BaseUrl THEN f[n - 1] ELSE Append(f[n - 1], Item(n))]
           G == [n \in Nat |-> [q \in T |->
                IF n \in 1 .. L /\ found[n] # BaseUrl THEN Append(q, Item(n)) ELSE q]]
<1>0. L \in Nat /\ \A n \in 1 .. L : Item(n) \in CrawlItems
  BY DEF CrawlItems
<1>1. SeedItems(found) = (CHOOSE f : IsLoop(f))[L]
  BY DEF SeedItems
<1> HIDE DEF L, Item
<1>2. <<>> \in T /\ \A q \in T, n \in 1 .. L : Append(q, Item(n)) \in T
  BY <1>0
<1>3. G \in [Nat -> [T -> T]]
  BY <1>2
<1>4. \A q \in T, n \in Nat : G[n][q] = IF n \in 1 .. L /\ found[n] # BaseUrl THEN Append(q, Item(n)) ELSE q
  OBVIOUS
<1> HIDE DEF G, T
<1>a. \E f : Loop(f, T, <<>>, G, L)
  BY <1>0, <1>2, <1>3, LoopExists
<1>5. PICK f0 \in [0 .. L -> T] : f0[0] = <<>> /\ \A n \in 0 .. L : n # 0 => f0[n] = G[n][f0[n - 1]]
  BY <1>a DEF Loop
<1>6. IsLoop(f0)
  <2>1. ASSUME NEW n \in 0 .. L, n # 0
        PROVE  f0[n] = IF found[n] = BaseUrl THEN f0[n - 1] ELSE Append(f0[n - 1], Item(n))
    <3>1. n \in 1 .. L /\ n \in Nat /\ n - 1 \in 0 .. L
      BY <1>0, <2>1
    <3>2. f0[n - 1] \in T
      BY <3>1
    <3> QED BY <1>4, <1>5, <2>1, <3>1, <3>2
  <2> QED BY <1>5, <2>1
<1> DEFINE g == CHOOSE f : IsLoop(f)
<1>7. IsLoop(g)
  BY <1>6
<1> HIDE DEF g
<1>8. g[0] = <<>> /\ \A n \in 1 .. L : g[n] = IF found[n] = BaseUrl THEN g[n - 1] ELSE Append(g[n - 1], Item(n))
  <2>1. 0 \in 0 .. L /\ \A n \in 1 .. L : n \in 0 .. L /\ n # 0
    BY <1>0
  <2> QED BY <1>7, <2>1
<1> HIDE DEF IsLoop
<1> DEFINE S == {n \in Nat : n <= L => g[n] \in T}
<1>9. 0 \in S
  BY <1>2, <1>8
<1>10. ASSUME NEW n \in S PROVE n + 1 \in S
  <2> SUFFICES ASSUME n + 1 <= L PROVE g[n + 1] \in T
    OBVIOUS
  <2>1. n \in Nat /\ n + 1 \in 1 .. L /\ (n + 1) - 1 = n /\ g[n] \in T
    BY <1>0
  <2> QED BY <1>2, <1>8, <2>1
<1>11. S = Nat
  <2>1. S \in SUBSET Nat
    OBVIOUS
  <2> HIDE DEF S
  <2> QED BY <1>9, <1>10, <2>1, NatSetInduction
<1>12. g[L] \in T
  BY <1>0, <1>11
<1> QED BY <1>1, <1>12 DEF g, T

\* A checkpoint of a state that is right.
LEMMA SnapshotOk ==
  ASSUME NEW job \in CrawlJobs, NEW seen \in SUBSET Sites, NEW frontier \in Seq(CrawlItems), ClaimsOk(job, seen),
         LegacyRight, MaybeCheckpoint(job, seen, frontier)
  PROVE  saved' \in Snapshots \cup {NoFile} /\ SavedOk'
<1>1. Snapshot(job, seen, frontier) \in Snapshots
  BY DEF Snapshot, Snapshots, CrawlJobs
<1>2. Snapshot(job, seen, frontier).job = job /\ Snapshot(job, seen, frontier).visited = seen
  BY DEF Snapshot
<1>3. saved' = saved \/ saved' = Snapshot(job, seen, frontier)
  BY DEF MaybeCheckpoint
<1> QED BY <1>1, <1>2, <1>3 DEF LegacyRight, LegacyTyped, SavedOk

LEMMA SeedRight ==
  ASSUME LegacyRight, Seed
  PROVE  LegacyRight'
<1>1. PICK found \in {<<>>, SitemapUrls} : pending' = pending \o SeedItems(found)
  BY DEF Seed
<1>2. pending' \in Seq(CrawlItems)
  <2>1. found \in Seq(Sites)
    <3>1. <<>> \in Seq(Sites) /\ SitemapUrls \in Seq(Sites)
      BY LegacyAssumption
    <3> QED BY <3>1
  <2>2. pending \in Seq(CrawlItems) /\ SeedItems(found) \in Seq(CrawlItems)
    BY <2>1, SeedItemsTyped DEF LegacyRight, LegacyTyped
  <2> QED BY <1>1, <2>2
<1>3. crawl' \in CrawlJobs /\ crawl'.results = crawl.results /\ crawl'.errors = crawl.errors
  BY DEF Seed, LegacyRight, LegacyTyped, CrawlJobs, CrawlStatuses
<1>4. ClaimsOk(crawl', visited) /\ Handled(crawl') = Handled(crawl)
  BY <1>3 DEF LegacyRight, ClaimsOk, Handled
<1>5. saved' \in Snapshots \cup {NoFile} /\ SavedOk'
  BY <1>2, <1>3, <1>4, SnapshotOk DEF Seed, LegacyRight, LegacyTyped
<1>6. queue' = pending' /\ stage' = "fetch" /\ UNCHANGED <<visited, fetching>>
  BY DEF Seed
<1>7. FetchingOk' /\ FrontierIsMirrored'
  BY <1>4, <1>6 DEF LegacyRight, FetchingOk, FrontierIsMirrored
<1>8. LegacyTyped'
  BY <1>2, <1>3, <1>5, <1>6 DEF LegacyRight, LegacyTyped, CrawlStages
<1> QED BY <1>4, <1>5, <1>6, <1>7, <1>8 DEF LegacyRight

\* The first occurrence of the head is the head.
LEMMA RemoveHead ==
  ASSUME NEW S, NEW q \in Seq(S), q # <<>>
  PROVE  Contains(q, Head(q)) /\ RemoveFirst(q, Head(q)) = Tail(q)
<1> DEFINE I == {i \in 1 .. Len(q) : q[i] = Head(q)}
<1>1. 1 \in 1 .. Len(q) /\ q[1] = Head(q)
  OBVIOUS
<1>2. Min(I) = 1
  <2>1. 1 \in I /\ \A y \in I : 1 <= y
    BY <1>1
  <2>2. \A x \in I : (\A y \in I : x <= y) => x = 1
    BY <2>1
  <2> HIDE DEF I
  <2> QED BY <2>1, <2>2 DEF Min
<1>3. SelectInSeq(q, LAMBDA v : v = Head(q)) = 1
  <2>1. I # {}
    BY <1>1
  <2> QED BY <1>2, <2>1 DEF SelectInSeq
<1>4. RemoveAt(q, 1) = Tail(q)
  <2>1. /\ SubSeq(q, 1, 1 - 1) = <<>> /\ SubSeq(q, 1 + 1, Len(q)) = Tail(q) /\ Tail(q) \in Seq(S)
    OBVIOUS
  <2> QED BY <2>1 DEF RemoveAt
<1>5. Contains(q, Head(q))
  BY <1>1 DEF Contains
<1>6. RemoveFirst(q, Head(q)) = RemoveAt(q, SelectInSeq(q, LAMBDA v : v = Head(q)))
  BY <1>1 DEF RemoveFirst
<1> QED BY <1>3, <1>4, <1>5, <1>6

LEMMA TakeUrlRight ==
  ASSUME LegacyRight, NEW f \in Fetchers, TakeUrl(f)
  PROVE  LegacyRight'
<1> DEFINE item == Head(queue)
<1>1. stage = "fetch" /\ queue # <<>> /\ pending = queue /\ queue \in Seq(CrawlItems) /\ fetching[f] = NoPage
  BY DEF TakeUrl, LegacyRight, LegacyTyped, FrontierIsMirrored
<1>2. queue' = Tail(queue) /\ pending' = Tail(queue) /\ Tail(queue) \in Seq(CrawlItems) /\ item \in CrawlItems
  <2>1. Contains(queue, item) /\ RemoveFirst(queue, item) = Tail(queue)
    BY <1>1, RemoveHead
  <2>2. Tail(queue) \in Seq(CrawlItems) /\ item \in CrawlItems
    BY <1>1
  <2> QED BY <1>1, <2>1, <2>2 DEF TakeUrl, Unpend
<1>3. UNCHANGED <<crawl, saved, stage>>
  BY DEF TakeUrl
<1>4. SavedOk' /\ FrontierIsMirrored'
  BY <1>2, <1>3 DEF LegacyRight, SavedOk, FrontierIsMirrored
<1>5. CASE ~Claimable(item)
  <2>1. UNCHANGED <<visited, fetching>>
    BY <1>5 DEF TakeUrl
  <2>2. LegacyTyped'
    BY <1>2, <1>3, <2>1 DEF LegacyRight, LegacyTyped
  <2>3. ClaimsOk(crawl, visited)' /\ FetchingOk'
    BY <1>3, <2>1 DEF LegacyRight, FetchingOk, ClaimsOk, Handled
  <2> QED BY <1>4, <2>2, <2>3 DEF LegacyRight
<1>6. CASE Claimable(item)
  <2>1. visited' = visited \cup {item.url} /\ fetching' = [fetching EXCEPT ![f] = item] /\ item.url \in Sites
    BY <1>2, <1>6 DEF TakeUrl, CrawlItems
  <2>2. LegacyTyped'
    BY <1>2, <1>3, <2>1 DEF LegacyRight, LegacyTyped
  <2>3. ClaimsOk(crawl, visited)'
    <3>1. IsFiniteSet(visited) /\ Cardinality(visited) < CrawlLimit /\ CrawlLimit \in Nat
      BY <1>6, LegacyAssumption DEF Claimable, LegacyRight, ClaimsOk
    <3>2. IsFiniteSet(visited') /\ Cardinality(visited') <= CrawlLimit
      <4>1. /\ IsFiniteSet(visited \cup {item.url}) /\ Cardinality(visited) \in Nat
            /\ Cardinality(visited \cup {item.url}) \in Nat
            /\ Cardinality(visited \cup {item.url}) <= Cardinality(visited) + 1
        BY <3>1, AddOne
      <4>2. Cardinality(visited \cup {item.url}) <= CrawlLimit
        BY <3>1, <4>1
      <4> QED BY <2>1, <4>1, <4>2
    <3> QED BY <1>3, <2>1, <3>2 DEF LegacyRight, ClaimsOk, Handled
  <2>4. FetchingOk'
    <3>1. item.url \notin visited /\ Handled(crawl) \subseteq visited /\ crawl' = crawl /\ stage' = "fetch"
      BY <1>1, <1>3, <1>6 DEF Claimable, LegacyRight, ClaimsOk
    <3>2. fetching'[f] = item /\ \A g \in Fetchers : g # f => fetching'[g] = fetching[g]
      BY <2>1 DEF LegacyRight, LegacyTyped
    <3>3. \A g \in Fetchers : g # f /\ fetching[g] # NoPage => fetching[g].url \in visited /\ fetching[g].url \notin Handled(crawl)
      BY DEF LegacyRight, FetchingOk
    <3>4. ASSUME NEW g \in Fetchers, fetching'[g] # NoPage, NEW h \in Fetchers, h # g, fetching'[h] # NoPage
          PROVE  fetching'[h].url # fetching'[g].url
      BY <3>1, <3>2, <3>3, <3>4 DEF LegacyRight, FetchingOk
    <3>5. ASSUME NEW g \in Fetchers, fetching'[g] # NoPage
          PROVE  fetching'[g].url \in visited' /\ fetching'[g].url \notin Handled(crawl)
      BY <2>1, <3>1, <3>2, <3>3, <3>5
    <3> QED BY <3>1, <3>4, <3>5 DEF FetchingOk
  <2> QED BY <1>4, <2>2, <2>3, <2>4 DEF LegacyRight
<1> QED BY <1>5, <1>6

LEMMA DiscoveredTyped ==
  ASSUME LegacyRight, NEW item \in CrawlItems
  PROVE  Discovered(item) \in Seq(CrawlItems)
<1> DEFINE S == Links[item.url] \ visited
           t == [u \in Sites |-> [url |-> u, depth |-> item.depth + 1]]
           D == {[url |-> u, depth |-> item.depth + 1] : u \in S}
<1>1. S \subseteq Sites /\ IsFiniteSet(S) /\ item.depth + 1 \in Nat
  <2>1. item.url \in Sites /\ item.depth + 1 \in Nat
    BY DEF CrawlItems
  <2>2. IsFiniteSet(Links[item.url]) /\ Links[item.url] \subseteq Sites
    BY <2>1, LegacyAssumption
  <2> QED BY <2>1, <2>2, FS_Subset
<1>2. D = {t[u] : u \in S}
  BY <1>1
<1>3. IsFiniteSet(D)
  <2> HIDE DEF S, t, D
  <2> QED BY <1>1, <1>2, ImageIsFinite
<1>4. D \subseteq CrawlItems
  BY <1>1 DEF CrawlItems
<1>5. Discovered(item) = SetToSeq(D) \/ Discovered(item) = <<>>
  BY DEF Discovered
<1> HIDE DEF D
<1>6. SetToSeq(D) \in Seq(CrawlItems)
  <2>1. SetToSeq(D) \in Seq(D)
    BY <1>3, SetToSeqFacts
  <2> QED BY <1>4, <2>1
<1>7. <<>> \in Seq(CrawlItems)
  OBVIOUS
<1> QED BY <1>5, <1>6, <1>7

LEMMA ScrapedRight ==
  ASSUME LegacyRight, NEW f \in Fetchers, Scraped(f)
  PROVE  LegacyRight'
<1> DEFINE item == fetching[f]
           good == [crawl EXCEPT !.results = Append(@, item.url)]
           bad(job) == [job EXCEPT !.errors = @ \cup {item.url}]
<1>1. stage = "fetch" /\ item # NoPage /\ item \in CrawlItems /\ item.url \in Sites
  BY DEF Scraped, LegacyRight, LegacyTyped, CrawlItems
<1>2. item.url \in visited /\ item.url \notin Handled(crawl)
  BY <1>1 DEF LegacyRight, FetchingOk
<1>3. crawl \in CrawlJobs /\ crawl.results \in Seq(Sites) /\ crawl.errors \subseteq Sites
  BY DEF LegacyRight, LegacyTyped, CrawlJobs
<1> DEFINE more == Append(crawl.results, item.url)
<1>4. more \in Seq(Sites) /\ ToSet(more) = ToSet(crawl.results) \cup {item.url} /\ IsInjective(more)
  <2>1. IsInjective(crawl.results) /\ item.url \notin ToSet(crawl.results)
    BY <1>2 DEF LegacyRight, ClaimsOk, Handled
  <2> HIDE DEF item
  <2> QED BY <1>1, <1>3, <2>1, InjectiveAppend
<1> HIDE DEF item
<1>5. good \in CrawlJobs /\ good.results = more /\ good.errors = crawl.errors
  <2>1. good = [crawl EXCEPT !.results = more]
    OBVIOUS
  <2> HIDE DEF more, good
  <2> QED BY <1>3, <1>4, <2>1 DEF CrawlJobs
<1> HIDE DEF good, more
<1>6. ASSUME NEW job \in CrawlJobs
      PROVE  bad(job) \in CrawlJobs /\ bad(job).results = job.results /\ bad(job).errors = job.errors \cup {item.url}
  BY <1>1 DEF CrawlJobs
<1>7. crawl' \in {good, bad(crawl), bad(good)}
  BY DEF Scraped, good, item
<1>8. /\ crawl' \in CrawlJobs /\ IsInjective(crawl'.results)
      /\ Handled(crawl') \subseteq Handled(crawl) \cup {item.url}
  <2>1. IsInjective(crawl.results)
    BY DEF LegacyRight, ClaimsOk
  <2>2. CASE crawl' = good
    BY <1>4, <1>5, <2>2 DEF Handled
  <2>3. CASE crawl' = bad(crawl)
    BY <1>3, <1>6, <2>1, <2>3 DEF Handled
  <2>4. CASE crawl' = bad(good)
    BY <1>4, <1>5, <1>6, <2>4 DEF Handled
  <2> QED BY <1>7, <2>2, <2>3, <2>4
<1> HIDE DEF bad
<1>9. ClaimsOk(crawl', visited)
  BY <1>2, <1>8 DEF LegacyRight, ClaimsOk
<1>10. pending' \in Seq(CrawlItems) /\ queue' = pending'
  <2>1. pending = queue /\ pending \in Seq(CrawlItems)
    BY <1>1 DEF LegacyRight, FrontierIsMirrored, LegacyTyped
  <2>2. Discovered(item) \in Seq(CrawlItems)
    BY <1>1, DiscoveredTyped
  <2>3. pending \o Discovered(item) \in Seq(CrawlItems)
    BY <2>1, <2>2
  <2>4. \/ pending' = pending \o Discovered(item) /\ queue' = queue \o Discovered(item)
        \/ UNCHANGED <<pending, queue>>
    BY DEF Scraped, item
  <2> QED BY <2>1, <2>3, <2>4
<1>11. fetching' = [fetching EXCEPT ![f] = NoPage] /\ UNCHANGED <<visited, stage>> /\ MaybeCheckpoint(crawl', visited, pending')
  BY DEF Scraped
<1>12. saved' \in Snapshots \cup {NoFile} /\ SavedOk'
  BY <1>8, <1>9, <1>10, <1>11, SnapshotOk DEF LegacyRight, LegacyTyped
<1>13. LegacyTyped'
  BY <1>8, <1>10, <1>11, <1>12 DEF LegacyRight, LegacyTyped
<1>14. FetchingOk'
  <2>1. fetching'[f] = NoPage /\ \A g \in Fetchers : g # f => fetching'[g] = fetching[g]
    BY <1>11 DEF LegacyRight, LegacyTyped
  <2>2. ASSUME NEW g \in Fetchers, fetching'[g] # NoPage
        PROVE  /\ fetching[g] = fetching'[g] /\ fetching[g].url \in visited /\ fetching[g].url \notin Handled(crawl)
               /\ fetching[g].url # item.url
    <3>1. g # f /\ fetching[g] = fetching'[g] /\ fetching[g] # NoPage
      BY <2>1, <2>2
    <3> QED BY <1>1, <3>1 DEF LegacyRight, FetchingOk, item
  <2>3. ASSUME NEW g \in Fetchers, fetching'[g] # NoPage, NEW h \in Fetchers, h # g, fetching'[h] # NoPage
        PROVE  fetching'[h].url # fetching'[g].url
    BY <2>2, <2>3 DEF LegacyRight, FetchingOk
  <2> QED BY <1>1, <1>8, <1>11, <2>2, <2>3 DEF FetchingOk
<1>15. FrontierIsMirrored' /\ ClaimsOk(crawl, visited)'
  BY <1>9, <1>10, <1>11 DEF FrontierIsMirrored, ClaimsOk, Handled
<1> QED BY <1>12, <1>13, <1>14, <1>15 DEF LegacyRight

LEMMA FinishCrawlRight ==
  ASSUME LegacyRight, FinishCrawl
  PROVE  LegacyRight'
<1>1. crawl' \in CrawlJobs /\ crawl'.results = crawl.results /\ crawl'.errors = crawl.errors
  BY DEF FinishCrawl, LegacyRight, LegacyTyped, CrawlJobs, CrawlStatuses, EndedCrawl
<1>2. stage' \in {"unlink", "over"} /\ (\A f \in Fetchers : fetching[f] = NoPage) /\ UNCHANGED <<visited, pending, queue, fetching, saved>>
  BY DEF FinishCrawl, AllDone
<1>3. LegacyTyped'
  BY <1>1, <1>2 DEF LegacyRight, LegacyTyped, CrawlStages
<1> QED BY <1>1, <1>2, <1>3 DEF LegacyRight, ClaimsOk, Handled, FetchingOk, SavedOk, FrontierIsMirrored

LEMMA DropCheckpointRight ==
  ASSUME LegacyRight, DropCheckpoint
  PROVE  LegacyRight'
<1>1. LegacyTyped'
  BY DEF DropCheckpoint, LegacyRight, LegacyTyped, CrawlStages
<1>2. ClaimsOk(crawl, visited)' /\ SavedOk' /\ FrontierIsMirrored'
  BY DEF DropCheckpoint, LegacyRight, ClaimsOk, Handled, SavedOk, FrontierIsMirrored
<1>3. \A f \in Fetchers : fetching[f] = NoPage
  BY DEF DropCheckpoint, LegacyRight, FetchingOk
<1> QED BY <1>1, <1>2, <1>3 DEF DropCheckpoint, LegacyRight, FetchingOk

LEMMA RestartCrawlRight ==
  ASSUME LegacyRight, RestartCrawl
  PROVE  LegacyRight'
<1>1. queue' = <<>> /\ fetching' = [f \in Fetchers |-> NoPage] /\ <<>> \in Seq(CrawlItems)
  BY DEF RestartCrawl
<1>2. CASE saved # NoFile /\ saved.status \notin EndedCrawl
  <2>1. crawl' = [saved.job EXCEPT !.status = "interrupted"] /\ visited' = saved.visited /\ pending' = saved.pending
        /\ stage' = "parked" /\ UNCHANGED saved
    BY <1>2 DEF RestartCrawl
  <2>2. saved \in Snapshots /\ saved.job \in CrawlJobs /\ saved.visited \in SUBSET Sites /\ saved.pending \in Seq(CrawlItems)
    BY <1>2 DEF LegacyRight, LegacyTyped, Snapshots
  <2>3. crawl' \in CrawlJobs /\ crawl'.results = saved.job.results /\ crawl'.errors = saved.job.errors
    BY <2>1, <2>2 DEF CrawlJobs, CrawlStatuses
  <2>4. LegacyTyped'
    BY <1>1, <2>1, <2>2, <2>3 DEF LegacyRight, LegacyTyped, CrawlStages
  <2>5. ClaimsOk(crawl, visited)'
    BY <1>2, <2>1, <2>3 DEF LegacyRight, SavedOk, ClaimsOk, Handled
  <2> QED BY <1>1, <2>1, <2>4, <2>5 DEF LegacyRight, FetchingOk, SavedOk, FrontierIsMirrored
<1>3. CASE ~(saved # NoFile /\ saved.status \notin EndedCrawl)
  <2>1. crawl' = NewCrawl /\ visited' = {} /\ pending' = <<>> /\ stage' = "gone" /\ saved' = NoFile
    BY <1>3 DEF RestartCrawl
  <2>2. LegacyTyped'
    BY <1>1, <2>1, CrawlKinds DEF LegacyTyped, CrawlStages
  <2>3. ClaimsOk(crawl, visited)'
    BY <2>1, CrawlKinds DEF ClaimsOk, Handled
  <2> QED BY <1>1, <2>1, <2>2, <2>3 DEF LegacyRight, FetchingOk, SavedOk, FrontierIsMirrored
<1> QED BY <1>2, <1>3

LEMMA ResumeCrawlRight ==
  ASSUME LegacyRight, ResumeCrawl
  PROVE  LegacyRight'
<1>1. crawl' \in CrawlJobs /\ crawl'.results = crawl.results /\ crawl'.errors = crawl.errors
  BY DEF ResumeCrawl, LegacyRight, LegacyTyped, CrawlJobs, CrawlStatuses
<1>2. visited' = visited \cap Handled(crawl) /\ stage' = "reseed" /\ stage = "parked" /\ UNCHANGED <<pending, queue, fetching, saved>>
  BY DEF ResumeCrawl, Handled
<1>3. LegacyTyped'
  BY <1>1, <1>2 DEF LegacyRight, LegacyTyped, CrawlStages
<1>4. ClaimsOk(crawl, visited)'
  <2>1. IsFiniteSet(visited) /\ Cardinality(visited) <= CrawlLimit /\ visited' \subseteq visited /\ CrawlLimit \in Nat
    BY <1>2, LegacyAssumption DEF LegacyRight, ClaimsOk
  <2>2. IsFiniteSet(visited') /\ Cardinality(visited') <= Cardinality(visited)
    BY <2>1, FS_Subset
  <2>3. Cardinality(visited) \in Nat /\ Cardinality(visited') \in Nat
    BY <2>1, <2>2, FS_CardinalityType
  <2>4. Cardinality(visited') <= CrawlLimit
    BY <2>1, <2>2, <2>3
  <2> QED BY <1>1, <1>2, <2>2, <2>4 DEF LegacyRight, ClaimsOk, Handled
<1>5. \A f \in Fetchers : fetching[f] = NoPage
  BY <1>2 DEF LegacyRight, FetchingOk
<1> QED BY <1>2, <1>3, <1>4, <1>5 DEF LegacyRight, FetchingOk, SavedOk, FrontierIsMirrored

LEMMA LegacyStepRight == LegacyRight /\ [LegacyNext]_lvars => LegacyRight'
<1> SUFFICES ASSUME LegacyRight, [LegacyNext]_lvars PROVE LegacyRight'
  OBVIOUS
<1>1. CASE UNCHANGED lvars
  BY <1>1 DEF lvars, LegacyRight, LegacyTyped, ClaimsOk, Handled, FetchingOk, SavedOk, FrontierIsMirrored
<1> QED BY <1>1, SeedRight, TakeUrlRight, ScrapedRight, FinishCrawlRight, DropCheckpointRight, RestartCrawlRight,
           ResumeCrawlRight DEF LegacyNext, LegacyStep

LEMMA LegacyEnough == LegacyRight => LegacyTypeOK /\ CrawlOncePerUrl /\ FrontierIsMirrored
<1> SUFFICES ASSUME LegacyRight PROVE LegacyTypeOK /\ CrawlOncePerUrl
  BY DEF LegacyRight
<1>1. crawl \in CrawlJobs /\ visited \subseteq Sites /\ Handled(crawl) \subseteq visited /\ IsInjective(crawl.results)
  BY DEF LegacyRight, LegacyTyped, ClaimsOk
<1>2. Cardinality(Handled(crawl)) <= CrawlLimit
  <2>1. IsFiniteSet(visited) /\ Cardinality(visited) <= CrawlLimit /\ CrawlLimit \in Nat
    BY LegacyAssumption DEF LegacyRight, ClaimsOk
  <2>2. IsFiniteSet(Handled(crawl)) /\ Cardinality(Handled(crawl)) <= Cardinality(visited)
    BY <1>1, <2>1, FS_Subset
  <2>3. Cardinality(visited) \in Nat /\ Cardinality(Handled(crawl)) \in Nat
    BY <2>1, <2>2, FS_CardinalityType
  <2> QED BY <2>1, <2>2, <2>3
<1> QED BY <1>1, <1>2 DEF LegacyTypeOK, CrawlOncePerUrl, Handled, LegacyRight, LegacyTyped, CrawlStages

-----------------------------------------------------------------------------
\* A behaviour of the process is, for each part that resumes, one of its own.
LEMMA ResumeParts ==
  ApiSpec => /\ ResearchInit /\ [][ResearchNext]_rvars
             /\ LegacyInit /\ [][LegacyNext]_lvars
             /\ part \in Parts /\ [][part' = part]_part
<1>1. ApiInit => ResearchInit /\ LegacyInit /\ part \in Parts
  BY DEF ApiInit
<1>2. [ApiNext]_apiVars => [ResearchNext]_rvars /\ [LegacyNext]_lvars /\ [part' = part]_part
  BY DEF ApiNext, apiVars, OnlyResearch, OnlyLegacy, OnlyRuns, OnlySignals, OnlyIndex, OnlyRetrieval,
         OnlyChunking, ApiOnly, OnlySite, OnlyCorpus, OnlyRebuild, OnlyData, OnlyLife
<1> QED BY <1>1, <1>2, PTL DEF ApiSpec

\* A research run and an in-memory crawl that die at any await, any number of
\* times, and resume from their checkpoints keep their budgets, read their lists
\* entry by entry and no page of an earlier list, honour a cancellation, are
\* reported once and lose no frontier
\* (ResearchManager.run_research, WebCrawler.run_crawl).
THEOREM ResumeIsRight == ApiSpec => []ResumeInv
<1>1. ResearchRight /\ LegacyRight /\ part \in Parts => ResumeInv
  BY ResearchEnough, LegacyEnough DEF ResumeInv
<1>2. ApiSpec => []ResearchRight
  BY ResumeParts, ResearchStart, ResearchStepRight, PTL
<1>3. ApiSpec => []LegacyRight
  BY ResumeParts, LegacyStart, LegacyStepRight, PTL
<1>4. part \in Parts /\ [part' = part]_part => (part \in Parts)'
  OBVIOUS
<1>5. ApiSpec => [](part \in Parts)
  BY ResumeParts, <1>4, PTL
<1> QED BY <1>1, <1>2, <1>3, <1>5, PTL

\* A page is claimed only after a look at the deadline.
LEMMA ReadsInTime ==
  ASSUME ResearchRight, [ResearchNext]_rvars, NEW r \in Runs, late[r], frame[r].at # "scrape"
  PROVE  frame'[r].at # "scrape"
<1> DEFINE InTime == frame'[r].at # "scrape"
<1>0. frame \in [Runs -> Frames]
  BY DEF ResearchRight, ResearchTyped
<1>a. ASSUME NEW q \in Runs, NEW job, NEW at, NEW loop, at # "scrape", Goto(q, job, at, loop)
      PROVE  InTime
  BY <1>0, <1>a DEF Goto, Frames
<1>b. ASSUME NEW q \in Runs, NEW job, Stopped(q, job) PROVE InTime
  BY <1>a, <1>b DEF Stopped
<1>c. ASSUME NEW q \in Runs, NEW fr \in Frames, fr.at # "scrape", frame' = [frame EXCEPT ![q] = fr] PROVE InTime
  BY <1>0, <1>c
<1>d. ASSUME UNCHANGED frame PROVE InTime
  BY <1>d
<1>i. Idle \in Frames /\ Idle.at # "scrape"
  BY JobsAreKnown DEF Idle, Frames, RunPlaces
<1> HIDE DEF InTime
<1>2. ASSUME NEW q \in Runs, ResearchStep(q) PROVE InTime
  <2>1. CASE BeginRun(q)
    <3> DEFINE at == IF late[q] THEN "stop" ELSE IF frame[q].loop.planned THEN "round" ELSE "plan"
    <3>1. at # "scrape" /\ \E job : Goto(q, job, at, frame[q].loop)
      BY <2>1 DEF BeginRun
    <3> QED BY <1>a, <3>1
  <2>2. CASE Plan(q) \/ BeginRound(q) \/ Assess(q)
    BY <1>a, <1>b, <2>2 DEF Plan, BeginRound, Assess
  <2>3. CASE ClaimPage(q)
    <3>1. CASE Stopped(q, research[q])
      BY <1>b, <3>1
    <3>2. CASE ~late[q] /\ Goto(q, research[q], "scrape", Claimed(frame[q].loop))
      <4>1. frame'[r] = frame[r]
        BY <1>0, <3>2 DEF Goto
      <4> QED BY <4>1 DEF InTime
    <3> QED BY <2>3, <3>1, <3>2 DEF ClaimPage, MustStop
  <2>4. CASE SelectUrls(q)
    <3>1. ASSUME NEW job, NEW urls, SettleOn(q, job, urls) PROVE InTime
      BY <1>a, <3>1 DEF SettleOn
    <3> QED BY <1>b, <2>4, <3>1 DEF SelectUrls
  <2>5. CASE ReadPage(q)
    BY <1>a, <1>b, <2>5 DEF ReadPage
  <2>6. CASE StopLate(q) \/ Synthesize(q)
    BY <1>a, <1>b, <2>6 DEF StopLate, Synthesize
  <2>7. CASE SaveResearch(q) \/ DeleteCheckpoint(q)
    <3>1. \E at \in {"unlink", "deliver"} : frame' = [frame EXCEPT ![q] = [frame[q] EXCEPT !.at = at]]
      BY <2>7 DEF SaveResearch, DeleteCheckpoint
    <3>2. PICK at \in {"unlink", "deliver"} : frame' = [frame EXCEPT ![q] = [frame[q] EXCEPT !.at = at]]
      BY <3>1
    <3> DEFINE fr == [frame[q] EXCEPT !.at = at]
    <3>3. fr \in Frames /\ fr.at # "scrape"
      BY <1>0 DEF Frames, RunPlaces
    <3>4. frame' = [frame EXCEPT ![q] = fr]
      BY <3>2
    <3> HIDE DEF fr
    <3> QED BY <1>c, <3>3, <3>4
  <2>8. CASE DeliverResearch(q)
    BY <1>c, <1>i, <2>8 DEF DeliverResearch
  <2> QED BY <1>2, <2>1, <2>2, <2>3, <2>4, <2>5, <2>6, <2>7, <2>8 DEF ResearchStep
<1>3. ASSUME NEW q \in Runs, StartResearch(q) \/ CancelResearch(q) \/ DeadlinePasses(q) \/ ResumeResearch(q)
      PROVE  InTime
  <2>1. CASE CancelResearch(q) \/ DeadlinePasses(q)
    BY <1>d, <2>1 DEF CancelResearch, DeadlinePasses
  <2>2. CASE StartResearch(q) \/ ResumeResearch(q)
    <3>1. PICK loop \in LoopStates : frame' = [frame EXCEPT ![q] = [at |-> "begin", loop |-> loop]]
      BY <2>2, JobsAreKnown DEF StartResearch, ResumeResearch, ResearchRight, ResearchTyped
    <3> DEFINE fr == [at |-> "begin", loop |-> loop]
    <3>2. fr \in Frames /\ fr.at # "scrape" /\ frame' = [frame EXCEPT ![q] = fr]
      BY <3>1 DEF Frames, RunPlaces
    <3> HIDE DEF fr
    <3> QED BY <1>c, <3>2
  <2> QED BY <1>3, <2>1, <2>2
<1>4. CASE RestartResearch
  <2>1. PICK auto \in SUBSET Restorable :
           frame' = [q \in Runs |-> IF q \in auto THEN [at |-> "begin", loop |-> ckpt[q].loop] ELSE Idle]
    BY <1>4 DEF RestartResearch
  <2>2. frame'[r] = [at |-> "begin", loop |-> ckpt[r].loop] \/ frame'[r] = Idle
    BY <2>1
  <2> QED BY <1>i, <2>2 DEF InTime
<1>5. CASE UNCHANGED rvars
  BY <1>d, <1>5 DEF rvars
<1> QED BY <1>2, <1>3, <1>4, <1>5 DEF ResearchNext, InTime

\* Once the deadline of a run has passed, no life of it begins to read another
\* page, however often the process died since (_check, deadline_utc).
THEOREM DeadlinesSurvive == ApiSpec => DeadlineSurvives
<1>1. ResearchRight /\ [ResearchNext]_rvars =>
        [\A r \in Runs : late[r] /\ frame[r].at # "scrape" => frame'[r].at # "scrape"]_rvars
  BY ReadsInTime
<1>2. ApiSpec => []ResearchRight
  BY ResumeParts, ResearchStart, ResearchStepRight, PTL
<1> QED BY <1>1, <1>2, ResumeParts, PTL DEF DeadlineSurvives

-----------------------------------------------------------------------------
(* The start and stop of the process (ProcessLife).                          *)

Stages == {"down", "migrate", "open", "serving", "stopping", "closing", "ended"}

LifeTypeOK ==
    /\ schema \in SUBSET Migrations /\ functions \in Nat /\ cut \in BOOLEAN
    /\ known \in [Procs -> SUBSET Migrations]
    /\ boot \in [Procs -> Stages]
    /\ loops \in [Procs -> BOOLEAN] /\ ticking \in [Procs -> BOOLEAN]
    /\ held \in [Procs -> BOOLEAN] /\ opened \in [Procs -> Nat]
    /\ gate \in [Procs -> Callers \cup {Unheld}]
    /\ call \in [Procs -> [Callers -> {"out", "waiting", "creating", "got", "none"}]]

(* What a process believes applied is applied, and a prefix.                *)
KnownIsPrefix ==
    \A p \in Procs :
        /\ known[p] \subseteq schema
        /\ \A v \in known[p] : 1 .. v \subseteq known[p]

(* The process that ran the last migration stands there, or has nothing     *)
(* left to run.                                                             *)
LastRunner ==
    \/ cut \/ \A v \in schema : v <= functions
    \/ \E p \in Procs : boot[p] = "migrate" /\ known[p] = 1 .. functions

(* Past the migrations there is nothing left to apply.                      *)
OpenHasSchema == \A p \in Procs : boot[p] = "open" => schema = Migrations

(* Until shutdown forgets the lock, who creates the pool holds it alone.    *)
CreatorIsAlone ==
    \A p \in Procs : boot[p] # "ended" =>
        \A c \in Callers : call[p][c] = "creating" => gate[p] = c /\ ~held[p]

(* Startup asks for the pool between the migrations and the service, and if  *)
(* it got it still has it; only a serving process has loops.                *)
StartupHasPool ==
    \A p \in Procs :
        /\ call[p]["startup"] # "out" => boot[p] = "open"
        /\ call[p]["startup"] = "got" => held[p]
        /\ loops[p] => boot[p] = "serving"

LifeIndInv ==
    /\ LifeTypeOK /\ KnownIsPrefix /\ LastRunner /\ OpenHasSchema
    /\ CreatorIsAlone /\ StartupHasPool
    /\ SchemaIsPrefix /\ ServiceHasSchema /\ OnePool /\ LoopsHavePool
-----------------------------------------------------------------------------
LEMMA IndInit == LifeInit => LifeIndInv
<1>1. LifeInit => LifeTypeOK
  <2>1. ASSUME LifeInit
        PROVE  call \in [Procs -> [Callers -> {"out", "waiting", "creating", "got", "none"}]]
    <3>1. [c \in Callers |-> "out"] \in [Callers -> {"out", "waiting", "creating", "got", "none"}]
      OBVIOUS
    <3> QED
      BY <2>1, <3>1 DEF LifeInit
  <2>2. ASSUME LifeInit
        PROVE  /\ schema \in SUBSET Migrations /\ functions \in Nat /\ cut \in BOOLEAN
               /\ known \in [Procs -> SUBSET Migrations] /\ boot \in [Procs -> Stages]
    BY <2>2 DEF LifeInit, Stages
  <2>3. ASSUME LifeInit
        PROVE  /\ loops \in [Procs -> BOOLEAN] /\ ticking \in [Procs -> BOOLEAN]
               /\ held \in [Procs -> BOOLEAN] /\ opened \in [Procs -> Nat]
               /\ gate \in [Procs -> Callers \cup {Unheld}]
    BY <2>3 DEF LifeInit
  <2> QED
    BY <2>1, <2>2, <2>3 DEF LifeTypeOK
<1>2. LifeInit => KnownIsPrefix /\ LastRunner /\ OpenHasSchema /\ CreatorIsAlone /\ StartupHasPool
  BY DEF LifeInit, KnownIsPrefix, LastRunner, OpenHasSchema, CreatorIsAlone, StartupHasPool,
         Callers
<1>3. LifeInit => SchemaIsPrefix /\ ServiceHasSchema /\ OnePool /\ LoopsHavePool
  BY DEF LifeInit, SchemaIsPrefix, ServiceHasSchema, OnePool, LoopsHavePool
<1> QED
  BY <1>1, <1>2, <1>3 DEF LifeIndInv

(* What is applied is the least version the process believes missing.       *)
LEMMA AppliedInOrder ==
    ASSUME LifeTypeOK, KnownIsPrefix, NEW p \in Procs, NEW v \in Unapplied(p), IsNext(v, p)
    PROVE  /\ v \in Migrations /\ v \in Nat
           /\ known[p] = 1 .. v - 1
           /\ known[p] \cup {v} = 1 .. v
<1>1. known[p] \subseteq Migrations /\ Migrations \subseteq Nat
  BY LifeAssumption DEF LifeTypeOK, Migrations
<1>2. v \in Migrations /\ v \in Nat /\ v \notin known[p]
  BY <1>1 DEF Unapplied
<1>3. \A w \in 1 .. v - 1 : w \in known[p]
  BY <1>1, <1>2, LifeAssumption DEF Unapplied, IsNext, Migrations
<1>4. \A w \in known[p] : w \in 1 .. v - 1
  <2>1. SUFFICES ASSUME NEW w \in known[p], w >= v PROVE FALSE
    BY <1>1, <1>2, LifeAssumption DEF Migrations
  <2>2. v \in 1 .. w
    BY <1>1, <1>2, <2>1, LifeAssumption DEF Migrations
  <2> QED
    BY <1>2, <2>2 DEF KnownIsPrefix
<1>5. known[p] = 1 .. v - 1
  BY <1>3, <1>4
<1>6. 1 .. v = (1 .. v - 1) \cup {v}
  BY <1>2, LifeAssumption DEF Migrations
<1> QED
  BY <1>2, <1>5, <1>6
-----------------------------------------------------------------------------
LEMMA TypeStep == ASSUME LifeIndInv, [LifeNext]_lifeVars PROVE LifeTypeOK'
<1> USE DEF LifeIndInv, LifeTypeOK
<1>1. ASSUME NEW p \in Procs, ReadDone(p)
      PROVE  LifeTypeOK'
  BY <1>1 DEF Stages, Callers, Unheld, ReadDone, poolVars
<1>2. ASSUME NEW p \in Procs, ApplyMigration(p)
      PROVE  LifeTypeOK'
  <2>1. PICK v \in Unapplied(p) :
              /\ IsNext(v, p)
              /\ schema' = schema \union {v} /\ functions' = v
              /\ known' = [known EXCEPT ![p] = @ \union {v}]
    BY <1>2 DEF ApplyMigration
  <2>2. /\ v \in Migrations /\ v \in Nat
        /\ known[p] = 1 .. v - 1 /\ known[p] \cup {v} = 1 .. v
    BY <2>1, AppliedInOrder
  <2>3. UNCHANGED <<cut, boot, loops, ticking, held, opened, gate, call>>
    BY <1>2 DEF ApplyMigration, bootVars, poolVars
  <2>4. schema' \in SUBSET Migrations /\ functions' \in Nat /\ known' \in [Procs -> SUBSET Migrations]
    BY <2>1, <2>2
  <2> QED
    BY <2>3, <2>4
<1>3. ASSUME NEW p \in Procs, MigrationsDone(p)
      PROVE  LifeTypeOK'
  BY <1>3 DEF Stages, Callers, Unheld, MigrationsDone, AllApplied, Unapplied, poolVars
<1>4. ASSUME NEW p \in Procs, MigrationFails(p)
      PROVE  LifeTypeOK'
  BY <1>4 DEF Stages, Callers, Unheld, MigrationFails, GiveUp, poolVars
<1>5. ASSUME NEW p \in Procs, NEW c \in Callers, GetPool(p, c)
      PROVE  LifeTypeOK'
  BY <1>5 DEF Stages, Callers, Unheld, GetPool, Returned, LifeSame, bootVars
<1>6. ASSUME NEW p \in Procs, NEW c \in Callers, EnterLock(p, c)
      PROVE  LifeTypeOK'
  <2>1. UNCHANGED <<schema, functions, cut, known, boot, loops, ticking, held, opened>>
    BY <1>6 DEF EnterLock, LifeSame, bootVars
  <2>2. gate' \in [Procs -> Callers \cup {Unheld}]
    <3>1. gate' = gate \/ gate' = [gate EXCEPT ![p] = c]
      BY <1>6 DEF EnterLock
    <3> QED
      BY <3>1
  <2>3. \E s \in {"got", "out", "creating"} : call' = [call EXCEPT ![p][c] = s]
    BY <1>6 DEF EnterLock, Returned
  <2> QED
    BY <2>1, <2>2, <2>3
<1>7. ASSUME NEW p \in Procs, NEW c \in Callers, PoolCreated(p, c)
      PROVE  LifeTypeOK'
  BY <1>7 DEF Stages, Callers, Unheld, PoolCreated, Returned, Unlocked, LifeSame, bootVars
<1>8. ASSUME NEW p \in Procs, NEW c \in Callers, PoolFails(p, c)
      PROVE  LifeTypeOK'
  BY <1>8 DEF Stages, Callers, Unheld, PoolFails, Returned, Unlocked, LifeSame, bootVars
<1>9. ASSUME NEW p \in Procs, StartService(p)
      PROVE  LifeTypeOK'
  BY <1>9 DEF Stages, Callers, Unheld, StartService
<1>10. ASSUME NEW p \in Procs, StopService(p)
      PROVE  LifeTypeOK'
  BY <1>10 DEF Stages, Callers, Unheld, StopService, ShutdownOrder, ShutdownStage,
     NextStage, poolVars
<1>11. ASSUME NEW p \in Procs, StopScheduler(p)
      PROVE  LifeTypeOK'
  BY <1>11 DEF Stages, Callers, Unheld, StopScheduler, ShutdownOrder, ShutdownStage,
     NextStage, poolVars
<1>12. ASSUME NEW p \in Procs, ResetPool(p)
      PROVE  LifeTypeOK'
  BY <1>12 DEF Stages, Callers, Unheld, ResetPool, ShutdownOrder, ShutdownStage,
     NextStage, OnePool
<1>13. ASSUME NEW p \in Procs, ProcessDies(p)
      PROVE  LifeTypeOK'
  BY <1>13 DEF Stages, Callers, Unheld, ProcessDies
<1>14. CASE UNCHANGED lifeVars
  BY <1>14 DEF Stages, Callers, Unheld, lifeVars, bootVars, poolVars
<1> QED
  BY <1>1, <1>2, <1>3, <1>4, <1>5, <1>6, <1>7, <1>8, <1>9, <1>10, <1>11, <1>12, <1>13,
     <1>14 DEF LifeNext

(* Versions are applied in order, by whoever applies them.                  *)
LEMMA PrefixStep == ASSUME LifeIndInv, [LifeNext]_lifeVars PROVE KnownIsPrefix' /\ SchemaIsPrefix'
<1> USE DEF LifeIndInv, LifeTypeOK
<1>1. ASSUME NEW p \in Procs, ReadDone(p)
      PROVE  KnownIsPrefix' /\ SchemaIsPrefix'
  BY <1>1 DEF KnownIsPrefix, SchemaIsPrefix, ReadDone, poolVars
<1>2. ASSUME NEW p \in Procs, ApplyMigration(p)
      PROVE  KnownIsPrefix' /\ SchemaIsPrefix'
  <2>1. PICK v \in Unapplied(p) :
              /\ IsNext(v, p)
              /\ schema' = schema \union {v} /\ functions' = v
              /\ known' = [known EXCEPT ![p] = @ \union {v}]
    BY <1>2 DEF ApplyMigration
  <2>2. /\ v \in Migrations /\ v \in Nat
        /\ known[p] = 1 .. v - 1 /\ known[p] \cup {v} = 1 .. v
    BY <2>1, AppliedInOrder
  <2>3. known'[p] = 1 .. v /\ \A q \in Procs \ {p} : known'[q] = known[q]
    BY <2>1, <2>2
  <2>4. schema' = schema \cup 1 .. v /\ schema \in SUBSET Nat
    BY <2>1, <2>2, LifeAssumption DEF KnownIsPrefix, Migrations
  <2>5. \A w \in 1 .. v : 1 .. w \subseteq 1 .. v
    BY <2>2
  <2>6. KnownIsPrefix'
    BY <2>1, <2>3, <2>4, <2>5 DEF KnownIsPrefix
  <2>7. SchemaIsPrefix'
    BY <2>4, <2>5 DEF SchemaIsPrefix
  <2> QED
    BY <2>6, <2>7
<1>3. ASSUME NEW p \in Procs, MigrationsDone(p)
      PROVE  KnownIsPrefix' /\ SchemaIsPrefix'
  BY <1>3 DEF KnownIsPrefix, SchemaIsPrefix, MigrationsDone, AllApplied, Unapplied, poolVars
<1>4. ASSUME NEW p \in Procs, MigrationFails(p)
      PROVE  KnownIsPrefix' /\ SchemaIsPrefix'
  BY <1>4 DEF KnownIsPrefix, SchemaIsPrefix, MigrationFails, GiveUp, poolVars
<1>5. ASSUME NEW p \in Procs, NEW c \in Callers, GetPool(p, c)
      PROVE  KnownIsPrefix' /\ SchemaIsPrefix'
  BY <1>5 DEF KnownIsPrefix, SchemaIsPrefix, GetPool, Returned, LifeSame, bootVars
<1>6. ASSUME NEW p \in Procs, NEW c \in Callers, EnterLock(p, c)
      PROVE  KnownIsPrefix' /\ SchemaIsPrefix'
  BY <1>6 DEF KnownIsPrefix, SchemaIsPrefix, EnterLock, SecondLook, Returned, LifeSame,
     bootVars
<1>7. ASSUME NEW p \in Procs, NEW c \in Callers, PoolCreated(p, c)
      PROVE  KnownIsPrefix' /\ SchemaIsPrefix'
  BY <1>7 DEF KnownIsPrefix, SchemaIsPrefix, PoolCreated, Returned, Unlocked, LifeSame,
     bootVars
<1>8. ASSUME NEW p \in Procs, NEW c \in Callers, PoolFails(p, c)
      PROVE  KnownIsPrefix' /\ SchemaIsPrefix'
  BY <1>8 DEF KnownIsPrefix, SchemaIsPrefix, PoolFails, Returned, Unlocked, LifeSame,
     bootVars
<1>9. ASSUME NEW p \in Procs, StartService(p)
      PROVE  KnownIsPrefix' /\ SchemaIsPrefix'
  BY <1>9 DEF KnownIsPrefix, SchemaIsPrefix, StartService
<1>10. ASSUME NEW p \in Procs, StopService(p)
      PROVE  KnownIsPrefix' /\ SchemaIsPrefix'
  BY <1>10 DEF KnownIsPrefix, SchemaIsPrefix, StopService, ShutdownOrder, ShutdownStage,
     NextStage, poolVars
<1>11. ASSUME NEW p \in Procs, StopScheduler(p)
      PROVE  KnownIsPrefix' /\ SchemaIsPrefix'
  BY <1>11 DEF KnownIsPrefix, SchemaIsPrefix, StopScheduler, ShutdownOrder, ShutdownStage,
     NextStage, poolVars
<1>12. ASSUME NEW p \in Procs, ResetPool(p)
      PROVE  KnownIsPrefix' /\ SchemaIsPrefix'
  BY <1>12 DEF KnownIsPrefix, SchemaIsPrefix, ResetPool, ShutdownOrder, ShutdownStage,
     NextStage
<1>13. ASSUME NEW p \in Procs, ProcessDies(p)
      PROVE  KnownIsPrefix' /\ SchemaIsPrefix'
  BY <1>13 DEF KnownIsPrefix, SchemaIsPrefix, ProcessDies
<1>14. CASE UNCHANGED lifeVars
  BY <1>14 DEF KnownIsPrefix, SchemaIsPrefix, lifeVars, bootVars, poolVars
<1> QED
  BY <1>1, <1>2, <1>3, <1>4, <1>5, <1>6, <1>7, <1>8, <1>9, <1>10, <1>11, <1>12, <1>13,
     <1>14 DEF LifeNext

LEMMA RunnerStep == ASSUME LifeIndInv, [LifeNext]_lifeVars PROVE LastRunner'
<1> USE DEF LifeIndInv, LifeTypeOK
<1>1. ASSUME NEW p \in Procs, ReadDone(p)
      PROVE  LastRunner'
  BY <1>1 DEF LastRunner, ReadDone, poolVars
<1>2. ASSUME NEW p \in Procs, ApplyMigration(p)
      PROVE  LastRunner'
  <2>1. PICK v \in Unapplied(p) :
              /\ IsNext(v, p)
              /\ schema' = schema \union {v} /\ functions' = v
              /\ known' = [known EXCEPT ![p] = @ \union {v}]
    BY <1>2 DEF ApplyMigration
  <2>2. /\ v \in Migrations /\ v \in Nat
        /\ known[p] = 1 .. v - 1 /\ known[p] \cup {v} = 1 .. v
    BY <2>1, AppliedInOrder
  <2>3. boot'[p] = "migrate" /\ known'[p] = 1 .. functions'
    BY <1>2, <2>1, <2>2 DEF ApplyMigration, bootVars
  <2> QED
    BY <2>3 DEF LastRunner
<1>3. ASSUME NEW p \in Procs, MigrationsDone(p)
      PROVE  LastRunner'
  BY <1>3 DEF LastRunner, MigrationsDone, AllApplied, Unapplied, poolVars
<1>4. ASSUME NEW p \in Procs, MigrationFails(p)
      PROVE  LastRunner'
  BY <1>4 DEF LastRunner, MigrationFails, GiveUp, poolVars
<1>5. ASSUME NEW p \in Procs, NEW c \in Callers, GetPool(p, c)
      PROVE  LastRunner'
  BY <1>5 DEF LastRunner, GetPool, Returned, LifeSame, bootVars
<1>6. ASSUME NEW p \in Procs, NEW c \in Callers, EnterLock(p, c)
      PROVE  LastRunner'
  BY <1>6 DEF LastRunner, EnterLock, SecondLook, Returned, LifeSame, bootVars
<1>7. ASSUME NEW p \in Procs, NEW c \in Callers, PoolCreated(p, c)
      PROVE  LastRunner'
  BY <1>7 DEF LastRunner, PoolCreated, Returned, Unlocked, LifeSame, bootVars
<1>8. ASSUME NEW p \in Procs, NEW c \in Callers, PoolFails(p, c)
      PROVE  LastRunner'
  BY <1>8 DEF LastRunner, PoolFails, Returned, Unlocked, LifeSame, bootVars
<1>9. ASSUME NEW p \in Procs, StartService(p)
      PROVE  LastRunner'
  BY <1>9 DEF LastRunner, StartService
<1>10. ASSUME NEW p \in Procs, StopService(p)
      PROVE  LastRunner'
  BY <1>10 DEF LastRunner, StopService, ShutdownOrder, ShutdownStage, NextStage, poolVars
<1>11. ASSUME NEW p \in Procs, StopScheduler(p)
      PROVE  LastRunner'
  BY <1>11 DEF LastRunner, StopScheduler, ShutdownOrder, ShutdownStage, NextStage, poolVars
<1>12. ASSUME NEW p \in Procs, ResetPool(p)
      PROVE  LastRunner'
  BY <1>12 DEF LastRunner, ResetPool, ShutdownOrder, ShutdownStage, NextStage
<1>13. ASSUME NEW p \in Procs, ProcessDies(p)
      PROVE  LastRunner'
  BY <1>13 DEF LastRunner, ProcessDies
<1>14. CASE UNCHANGED lifeVars
  BY <1>14 DEF LastRunner, lifeVars, bootVars, poolVars
<1> QED
  BY <1>1, <1>2, <1>3, <1>4, <1>5, <1>6, <1>7, <1>8, <1>9, <1>10, <1>11, <1>12, <1>13,
     <1>14 DEF LifeNext

(* Past the migrations, and wherever a service runs, the schema is whole.   *)
LEMMA SchemaStep == ASSUME LifeIndInv, [LifeNext]_lifeVars PROVE OpenHasSchema' /\ ServiceHasSchema'
<1> USE DEF LifeIndInv, LifeTypeOK
<1>1. ASSUME NEW p \in Procs, ReadDone(p)
      PROVE  OpenHasSchema' /\ ServiceHasSchema'
  BY <1>1 DEF OpenHasSchema, ServiceHasSchema, KnownIsPrefix, ReadDone, poolVars
<1>2. ASSUME NEW p \in Procs, ApplyMigration(p)
      PROVE  OpenHasSchema' /\ ServiceHasSchema'
  <2>1. PICK v \in Unapplied(p) :
              /\ IsNext(v, p)
              /\ schema' = schema \union {v} /\ functions' = v
              /\ known' = [known EXCEPT ![p] = @ \union {v}]
    BY <1>2 DEF ApplyMigration
  <2>2. /\ v \in Migrations /\ v \in Nat
        /\ known[p] = 1 .. v - 1 /\ known[p] \cup {v} = 1 .. v
    BY <2>1, AppliedInOrder
  <2>3. UNCHANGED <<boot, loops, ticking>> /\ (schema = Migrations => schema' = Migrations)
    BY <1>2, <2>1, <2>2 DEF ApplyMigration, bootVars
  <2> QED
    BY <2>3 DEF OpenHasSchema, ServiceHasSchema
<1>3. ASSUME NEW p \in Procs, MigrationsDone(p)
      PROVE  OpenHasSchema' /\ ServiceHasSchema'
  BY <1>3 DEF OpenHasSchema, ServiceHasSchema, KnownIsPrefix, MigrationsDone, AllApplied,
     Unapplied, poolVars
<1>4. ASSUME NEW p \in Procs, MigrationFails(p)
      PROVE  OpenHasSchema' /\ ServiceHasSchema'
  BY <1>4 DEF OpenHasSchema, ServiceHasSchema, KnownIsPrefix, MigrationFails, GiveUp,
     poolVars
<1>5. ASSUME NEW p \in Procs, NEW c \in Callers, GetPool(p, c)
      PROVE  OpenHasSchema' /\ ServiceHasSchema'
  BY <1>5 DEF OpenHasSchema, ServiceHasSchema, KnownIsPrefix, GetPool, Returned, LifeSame,
     bootVars
<1>6. ASSUME NEW p \in Procs, NEW c \in Callers, EnterLock(p, c)
      PROVE  OpenHasSchema' /\ ServiceHasSchema'
  BY <1>6 DEF OpenHasSchema, ServiceHasSchema, KnownIsPrefix, EnterLock, SecondLook,
     Returned, LifeSame, bootVars
<1>7. ASSUME NEW p \in Procs, NEW c \in Callers, PoolCreated(p, c)
      PROVE  OpenHasSchema' /\ ServiceHasSchema'
  BY <1>7 DEF OpenHasSchema, ServiceHasSchema, KnownIsPrefix, PoolCreated, Returned,
     Unlocked, LifeSame, bootVars
<1>8. ASSUME NEW p \in Procs, NEW c \in Callers, PoolFails(p, c)
      PROVE  OpenHasSchema' /\ ServiceHasSchema'
  BY <1>8 DEF OpenHasSchema, ServiceHasSchema, KnownIsPrefix, PoolFails, Returned,
     Unlocked, LifeSame, bootVars
<1>9. ASSUME NEW p \in Procs, StartService(p)
      PROVE  OpenHasSchema' /\ ServiceHasSchema'
  BY <1>9 DEF OpenHasSchema, ServiceHasSchema, KnownIsPrefix, StartService
<1>10. ASSUME NEW p \in Procs, StopService(p)
      PROVE  OpenHasSchema' /\ ServiceHasSchema'
  BY <1>10 DEF OpenHasSchema, ServiceHasSchema, KnownIsPrefix, StopService, ShutdownOrder,
     ShutdownStage, NextStage, poolVars
<1>11. ASSUME NEW p \in Procs, StopScheduler(p)
      PROVE  OpenHasSchema' /\ ServiceHasSchema'
  BY <1>11 DEF OpenHasSchema, ServiceHasSchema, KnownIsPrefix, StopScheduler,
     ShutdownOrder, ShutdownStage, NextStage, poolVars
<1>12. ASSUME NEW p \in Procs, ResetPool(p)
      PROVE  OpenHasSchema' /\ ServiceHasSchema'
  BY <1>12 DEF OpenHasSchema, ServiceHasSchema, KnownIsPrefix, ResetPool, ShutdownOrder,
     ShutdownStage, NextStage
<1>13. ASSUME NEW p \in Procs, ProcessDies(p)
      PROVE  OpenHasSchema' /\ ServiceHasSchema'
  BY <1>13 DEF OpenHasSchema, ServiceHasSchema, KnownIsPrefix, ProcessDies
<1>14. CASE UNCHANGED lifeVars
  BY <1>14 DEF OpenHasSchema, ServiceHasSchema, KnownIsPrefix, lifeVars, bootVars, poolVars
<1> QED
  BY <1>1, <1>2, <1>3, <1>4, <1>5, <1>6, <1>7, <1>8, <1>9, <1>10, <1>11, <1>12, <1>13,
     <1>14 DEF LifeNext

LEMMA LockStep == ASSUME LifeIndInv, [LifeNext]_lifeVars PROVE CreatorIsAlone' /\ OnePool'
<1> USE DEF LifeIndInv, LifeTypeOK
<1>1. ASSUME NEW p \in Procs, ReadDone(p)
      PROVE  CreatorIsAlone' /\ OnePool'
  BY <1>1 DEF CreatorIsAlone, OnePool, Callers, Unheld, Stages, ReadDone, poolVars
<1>2. ASSUME NEW p \in Procs, ApplyMigration(p)
      PROVE  CreatorIsAlone' /\ OnePool'
  BY <1>2 DEF CreatorIsAlone, OnePool, Callers, Unheld, Stages, ApplyMigration, bootVars,
     poolVars
<1>3. ASSUME NEW p \in Procs, MigrationsDone(p)
      PROVE  CreatorIsAlone' /\ OnePool'
  BY <1>3 DEF CreatorIsAlone, OnePool, Callers, Unheld, Stages, MigrationsDone,
     AllApplied, Unapplied, poolVars
<1>4. ASSUME NEW p \in Procs, MigrationFails(p)
      PROVE  CreatorIsAlone' /\ OnePool'
  BY <1>4 DEF CreatorIsAlone, OnePool, Callers, Unheld, Stages, MigrationFails, GiveUp,
     poolVars
<1>5. ASSUME NEW p \in Procs, NEW c \in Callers, GetPool(p, c)
      PROVE  CreatorIsAlone' /\ OnePool'
  BY <1>5 DEF CreatorIsAlone, OnePool, Callers, Unheld, Stages, GetPool, Returned,
     LifeSame, bootVars
<1>6. ASSUME NEW p \in Procs, NEW c \in Callers, EnterLock(p, c)
      PROVE  CreatorIsAlone' /\ OnePool'
  BY <1>6 DEF CreatorIsAlone, OnePool, Callers, Unheld, Stages, EnterLock, SecondLook,
     Returned, LifeSame, bootVars
<1>7. ASSUME NEW p \in Procs, NEW c \in Callers, PoolCreated(p, c)
      PROVE  CreatorIsAlone' /\ OnePool'
  BY <1>7 DEF CreatorIsAlone, OnePool, Callers, Unheld, Stages, PoolCreated, Returned,
     Unlocked, LifeSame, bootVars
<1>8. ASSUME NEW p \in Procs, NEW c \in Callers, PoolFails(p, c)
      PROVE  CreatorIsAlone' /\ OnePool'
  BY <1>8 DEF CreatorIsAlone, OnePool, Callers, Unheld, Stages, PoolFails, Returned,
     Unlocked, LifeSame, bootVars
<1>9. ASSUME NEW p \in Procs, StartService(p)
      PROVE  CreatorIsAlone' /\ OnePool'
  BY <1>9 DEF CreatorIsAlone, OnePool, Callers, Unheld, Stages, StartService
<1>10. ASSUME NEW p \in Procs, StopService(p)
      PROVE  CreatorIsAlone' /\ OnePool'
  BY <1>10 DEF CreatorIsAlone, OnePool, Callers, Unheld, Stages, StopService,
     ShutdownOrder, ShutdownStage, NextStage, poolVars
<1>11. ASSUME NEW p \in Procs, StopScheduler(p)
      PROVE  CreatorIsAlone' /\ OnePool'
  BY <1>11 DEF CreatorIsAlone, OnePool, Callers, Unheld, Stages, StopScheduler,
     ShutdownOrder, ShutdownStage, NextStage, poolVars
<1>12. ASSUME NEW p \in Procs, ResetPool(p)
      PROVE  CreatorIsAlone' /\ OnePool'
  BY <1>12 DEF CreatorIsAlone, OnePool, Callers, Unheld, Stages, ResetPool, ShutdownOrder,
     ShutdownStage, NextStage
<1>13. ASSUME NEW p \in Procs, ProcessDies(p)
      PROVE  CreatorIsAlone' /\ OnePool'
  BY <1>13 DEF CreatorIsAlone, OnePool, Callers, Unheld, Stages, ProcessDies
<1>14. CASE UNCHANGED lifeVars
  BY <1>14 DEF CreatorIsAlone, OnePool, Callers, Unheld, Stages, lifeVars, bootVars,
     poolVars
<1> QED
  BY <1>1, <1>2, <1>3, <1>4, <1>5, <1>6, <1>7, <1>8, <1>9, <1>10, <1>11, <1>12, <1>13,
     <1>14 DEF LifeNext

LEMMA LoopStep == ASSUME LifeIndInv, [LifeNext]_lifeVars PROVE StartupHasPool' /\ LoopsHavePool'
<1> USE DEF LifeIndInv, LifeTypeOK
<1>1. ASSUME NEW p \in Procs, ReadDone(p)
      PROVE  StartupHasPool' /\ LoopsHavePool'
  BY <1>1 DEF StartupHasPool, LoopsHavePool, CreatorIsAlone, Callers, Stages, ReadDone,
     poolVars
<1>2. ASSUME NEW p \in Procs, ApplyMigration(p)
      PROVE  StartupHasPool' /\ LoopsHavePool'
  BY <1>2 DEF StartupHasPool, LoopsHavePool, CreatorIsAlone, Callers, Stages,
     ApplyMigration, bootVars, poolVars
<1>3. ASSUME NEW p \in Procs, MigrationsDone(p)
      PROVE  StartupHasPool' /\ LoopsHavePool'
  BY <1>3 DEF StartupHasPool, LoopsHavePool, CreatorIsAlone, Callers, Stages,
     MigrationsDone, AllApplied, Unapplied, poolVars
<1>4. ASSUME NEW p \in Procs, MigrationFails(p)
      PROVE  StartupHasPool' /\ LoopsHavePool'
  BY <1>4 DEF StartupHasPool, LoopsHavePool, CreatorIsAlone, Callers, Stages,
     MigrationFails, GiveUp, poolVars
<1>5. ASSUME NEW p \in Procs, NEW c \in Callers, GetPool(p, c)
      PROVE  StartupHasPool' /\ LoopsHavePool'
  BY <1>5 DEF StartupHasPool, LoopsHavePool, CreatorIsAlone, Callers, Stages, GetPool,
     Returned, LifeSame, bootVars
<1>6. ASSUME NEW p \in Procs, NEW c \in Callers, EnterLock(p, c)
      PROVE  StartupHasPool' /\ LoopsHavePool'
  BY <1>6 DEF StartupHasPool, LoopsHavePool, CreatorIsAlone, Callers, Stages, EnterLock,
     SecondLook, Returned, LifeSame, bootVars
<1>7. ASSUME NEW p \in Procs, NEW c \in Callers, PoolCreated(p, c)
      PROVE  StartupHasPool' /\ LoopsHavePool'
  BY <1>7 DEF StartupHasPool, LoopsHavePool, CreatorIsAlone, Callers, Stages, PoolCreated,
     Returned, Unlocked, LifeSame, bootVars
<1>8. ASSUME NEW p \in Procs, NEW c \in Callers, PoolFails(p, c)
      PROVE  StartupHasPool' /\ LoopsHavePool'
  BY <1>8 DEF StartupHasPool, LoopsHavePool, CreatorIsAlone, Callers, Stages, PoolFails,
     Returned, Unlocked, LifeSame, bootVars
<1>9. ASSUME NEW p \in Procs, StartService(p)
      PROVE  StartupHasPool' /\ LoopsHavePool'
  <2>1. /\ boot' = [boot EXCEPT ![p] = "serving"] /\ UNCHANGED held
        /\ call' = [call EXCEPT ![p]["startup"] = "out"]
    BY <1>9 DEF StartService
  <2>2. PICK s \in BOOLEAN :
              loops' = [loops EXCEPT ![p] = s] /\ (s => call[p]["startup"] = "got")
    BY <1>9 DEF StartService
  <2>3. /\ \A q \in Procs \ {p} : /\ call'[q] = call[q] /\ boot'[q] = boot[q]
                                 /\ loops'[q] = loops[q] /\ held'[q] = held[q]
        /\ call'[p]["startup"] = "out" /\ boot'[p] = "serving"
        /\ loops'[p] = s /\ held'[p] = held[p]
    BY <2>1, <2>2 DEF Callers
  <2>4. StartupHasPool'
    BY <2>3 DEF StartupHasPool
  <2>5. LoopsHavePool'
    BY <2>2, <2>3 DEF StartupHasPool, LoopsHavePool
  <2> QED
    BY <2>4, <2>5
<1>10. ASSUME NEW p \in Procs, StopService(p)
      PROVE  StartupHasPool' /\ LoopsHavePool'
  BY <1>10 DEF StartupHasPool, LoopsHavePool, CreatorIsAlone, Callers, Stages,
     StopService, ShutdownOrder, ShutdownStage, NextStage, poolVars
<1>11. ASSUME NEW p \in Procs, StopScheduler(p)
      PROVE  StartupHasPool' /\ LoopsHavePool'
  BY <1>11 DEF StartupHasPool, LoopsHavePool, CreatorIsAlone, Callers, Stages,
     StopScheduler, ShutdownOrder, ShutdownStage, NextStage, poolVars
<1>12. ASSUME NEW p \in Procs, ResetPool(p)
      PROVE  StartupHasPool' /\ LoopsHavePool'
  BY <1>12 DEF StartupHasPool, LoopsHavePool, CreatorIsAlone, Callers, Stages, ResetPool,
     ShutdownOrder, ShutdownStage, NextStage
<1>13. ASSUME NEW p \in Procs, ProcessDies(p)
      PROVE  StartupHasPool' /\ LoopsHavePool'
  BY <1>13 DEF StartupHasPool, LoopsHavePool, CreatorIsAlone, Callers, Stages, ProcessDies
<1>14. CASE UNCHANGED lifeVars
  BY <1>14 DEF StartupHasPool, LoopsHavePool, CreatorIsAlone, Callers, Stages, lifeVars,
     bootVars, poolVars
<1> QED
  BY <1>1, <1>2, <1>3, <1>4, <1>5, <1>6, <1>7, <1>8, <1>9, <1>10, <1>11, <1>12, <1>13,
     <1>14 DEF LifeNext

LEMMA IndStep == LifeIndInv /\ [LifeNext]_lifeVars => LifeIndInv'
BY TypeStep, PrefixStep, RunnerStep, SchemaStep, LockStep, LoopStep DEF LifeIndInv
-----------------------------------------------------------------------------
(* With no one migrating there is no last runner, so the functions are the  *)
(* newest.                                                                  *)
LEMMA IndImpliesLifeInv == LifeIndInv => LifeInv
BY DEF LifeIndInv, LifeInv, LastRunner, FunctionsAreNewest

(* However many processes migrate, connect, serve, stop and die at once:     *)
(* the schema is a prefix, nothing runs on part of it, and a process has one *)
(* pool, which its service never outlives (_on_startup, run_migrations,      *)
(* get_pool, _on_shutdown).                                                  *)
THEOREM LifeCorrect == LifeSpec => []LifeInv
<1>1. LifeSpec => []LifeIndInv
  BY IndInit, IndStep, PTL DEF LifeSpec
<1> QED
  BY <1>1, IndImpliesLifeInv, PTL

\* A behaviour of the process is, for its start and stop, one of LifeSpec.
LEMMA LifeIsPart == ApiSpec => LifeSpec
<1>1. ApiInit => LifeInit
  BY DEF ApiInit
<1>2. [ApiNext]_apiVars => [LifeNext]_lifeVars
  BY DEF ApiNext, apiVars, OnlyResearch, OnlyLegacy, OnlyRuns, OnlySignals, OnlyIndex, OnlyRetrieval,
         OnlyChunking, ApiOnly, offlineVars, OnlySite, OnlyCorpus, OnlyRebuild, OnlyData, OnlyLife
<1> QED BY <1>1, <1>2, PTL DEF ApiSpec, LifeSpec

\* The same of the composition (_on_startup, run_migrations, get_pool,
\* _on_shutdown).
THEOREM LifeIsRight == ApiSpec => []LifeInv
BY LifeCorrect, LifeIsPart, PTL
=============================================================================
