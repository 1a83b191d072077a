--------------------------- MODULE FixityJobs_proofs ---------------------------
(***************************************************************************)
(* Theorems about FixityJobs, for every set of checks and of periods, in   *)
(* any interleaving of cron, runs by hand, edits, deletions and failures.  *)
(***************************************************************************)
EXTENDS FixityJobs, TLAPS

------------------------------------------------------------------------------
(* The parts of the type invariant. *)
NodeOK == node \in [Checks -> Node]
JobOK == job \in [Ids -> Job] /\ items \in Nat
CronOK == now \in Nat /\ cron \in [start : Nat, due : SUBSET Fetched]
(* A run has loaded a node that was there. *)
WorkOK ==
    /\ work \in [Workers -> [check : Checks \cup {None}, start : Nat, copy : Node]]
    /\ \A w \in Workers : work[w].check # None => work[w].copy.state = "live"
HistoryOK ==
    /\ intent \in [Checks -> Schedules] /\ reported \in [Checks -> SUBSET Nat]
    /\ adrift \in SUBSET Checks /\ crossed \in SUBSET Checks
CountsOK == edits \in Nat /\ runs \in Nat /\ faults \in Nat

Typed == NodeOK /\ JobOK /\ CronOK /\ WorkOK /\ HistoryOK /\ CountsOK

LEMMA TypedMeansTypeOK == Typed => TypeOK
BY DEF Typed, TypeOK, NodeOK, JobOK, CronOK, WorkOK, HistoryOK, CountsOK

LEMMA Defaults ==
    /\ Schedules \subseteq Nat /\ 0 \in Schedules
    /\ NoNode \in Node /\ NoJob \in Job
    /\ NoCron \in [start : Nat, due : SUBSET Fetched]
    /\ NoWork \in [check : Checks \cup {None}, start : Nat, copy : Node]
    /\ NoWork.check = None
BY FixityJobsAssumption DEF Schedules, NoNode, Node, NoJob, Job, NoCron, NoWork

(* A saved node, and the job that its save sets. *)
SetJob(n, t, i) ==
    IF n.schedule = 0 THEN NoJob
    ELSE [item |-> i + 1, next |-> t + n.schedule, period |-> n.schedule]

LEMMA SavedNode ==
    ASSUME NEW n \in Node, NEW t \in Nat
    PROVE  /\ Presaved(n, t) \in Node
           /\ Presaved(n, t).state = n.state /\ Presaved(n, t).schedule = n.schedule
           /\ Presaved(n, t).reports = n.reports
           /\ Presaved(n, t).next = IF n.schedule = 0 THEN 0 ELSE t + n.schedule
<1> DEFINE next == IF n.schedule = 0 THEN 0 ELSE t + n.schedule
<1>0. n.schedule \in Schedules /\ n.schedule \in Nat
  BY Defaults DEF Node
<1>1. next \in Nat
  BY <1>0
<1>2. Presaved(n, t) = [n EXCEPT !.next = next]
  BY DEF Presaved
<1> HIDE DEF next
<1>3. /\ [n EXCEPT !.next = next] \in Node
      /\ [n EXCEPT !.next = next].next = next
      /\ [n EXCEPT !.next = next].state = n.state
      /\ [n EXCEPT !.next = next].schedule = n.schedule
      /\ [n EXCEPT !.next = next].reports = n.reports
  BY <1>1 DEF Node
<1> QED BY <1>2, <1>3 DEF next

LEMMA SavedJob ==
    ASSUME JobOK, NEW id \in Ids, NEW n \in Node, NEW t \in Nat, PresaveJob(id, n, t)
    PROVE  /\ JobOK' /\ job' = [job EXCEPT ![id] = SetJob(n, t, items)]
           /\ job'[id] = SetJob(n, t, items)
<1>1. SetJob(n, t, items) \in Job
  <2>1. CASE n.schedule = 0
    BY <2>1, Defaults DEF SetJob
  <2>2. CASE n.schedule # 0
    <3>1. n.schedule \in Schedules /\ n.schedule \in Nat
      BY Defaults DEF Node
    <3>2. items + 1 \in Nat /\ t + n.schedule \in Nat
      BY <3>1 DEF JobOK
    <3> QED BY <2>2, <3>1, <3>2 DEF SetJob, Job
  <2> QED BY <2>1, <2>2
<1>2. job' = [job EXCEPT ![id] = SetJob(n, t, items)] /\ items' = items + 1
  BY DEF PresaveJob, SetJob
<1> QED BY <1>1, <1>2 DEF JobOK

LEMMA InitTyped == Init => Typed
<1> SUFFICES ASSUME Init PROVE Typed
  OBVIOUS
<1> QED BY Defaults DEF Init, Typed, NodeOK, JobOK, CronOK, WorkOK, HistoryOK, CountsOK

------------------------------------------------------------------------------
(* What a node and its job say of each other, but for the check that cron is
   running: cron has put its job off and not saved its node yet.  A run by hand
   touches neither before it saves both. *)
InStep(c) ==
    IF node[c].schedule = 0 THEN job[c] = NoJob /\ node[c].next = 0
    ELSE /\ job[c].item # 0
         /\ job[c].period = node[c].schedule
         /\ job[c].next = node[c].next

Settled(c) ==
    node[c].state = "live" /\ work["cron"].check # c /\ c \notin adrift => InStep(c)

Kept(c) ==
    node[c].state = "live" /\ c \notin crossed
    => node[c].schedule = intent[c] /\ node[c].reports = reported[c]

(* Of a check that is not saved yet there is neither job nor report. *)
Fresh(c) == node[c].state = "unborn" => job[c] = NoJob /\ reported[c] = {}

OfCheck(c) == Settled(c) /\ Kept(c) /\ Fresh(c)

JobInvariant == Typed /\ \A c \in Checks : OfCheck(c)

LEMMA InitJobs == Init => JobInvariant
<1> SUFFICES ASSUME Init PROVE JobInvariant
  OBVIOUS
<1>1. \A c \in Checks : node[c].state = "unborn" /\ job[c] = NoJob /\ reported[c] = {}
  BY DEF Init, NoNode, Ids
<1> QED BY <1>1, InitTyped DEF JobInvariant, OfCheck, Settled, Kept, Fresh

LEMMA JobsFollow == JobInvariant => JobFollowsNode
<1> SUFFICES ASSUME JobInvariant, NEW c \in Checks,
                    node[c].state = "live", ~Busy(c), c \notin adrift
             PROVE  InStep(c)
  BY DEF JobFollowsNode, InStep
<1>1. work["cron"].check # c
  BY DEF Busy, Workers
<1> QED BY <1>1 DEF JobInvariant, OfCheck, Settled

LEMMA NothingIsLost == JobInvariant => NothingLost
BY DEF JobInvariant, OfCheck, Kept, NothingLost

(* A step that leaves a check and its job alone. *)
LEMMA Untouched ==
    ASSUME NEW c \in Checks, OfCheck(c),
           node'[c] = node[c], job'[c] = job[c], intent'[c] = intent[c],
           reported'[c] = reported[c], work'["cron"].check = c \/ work["cron"].check # c \/ c \in adrift',
           c \in adrift' \/ c \notin adrift, c \in crossed' \/ c \notin crossed
    PROVE  OfCheck(c)'
BY DEF OfCheck, Settled, Kept, Fresh, InStep

------------------------------------------------------------------------------
LEMMA NextJobs == JobInvariant /\ [Next]_vars => JobInvariant'
<1> SUFFICES ASSUME JobInvariant, [Next]_vars PROVE JobInvariant'
  OBVIOUS
<1>0. /\ NodeOK /\ JobOK /\ CronOK /\ WorkOK /\ HistoryOK /\ CountsOK
      /\ \A c \in Checks : OfCheck(c)
      /\ None \notin Checks
  BY FixityJobsAssumption DEF JobInvariant, Typed
<1>a. "cron" \in Workers
  BY DEF Workers
<1>1. CASE Tick
  <2>1. now' \in Nat /\ UNCHANGED <<node, job, items, cron, work, intent, reported, adrift,
                                    crossed, edits, runs, faults>>
    BY <1>0, <1>1 DEF Tick, CronOK
  <2>2. Typed'
    BY <1>0, <2>1 DEF Typed, NodeOK, JobOK, CronOK, WorkOK, HistoryOK, CountsOK
  <2> QED BY <1>0, <2>1, <2>2, Untouched DEF JobInvariant
<1>2. ASSUME NEW c \in Checks, NEW s \in Schedules, Create(c, s)
      PROVE  JobInvariant'
  <2> DEFINE n == [NoNode EXCEPT !.state = "live", !.schedule = s]
  <2>1. n \in Node /\ n.state = "live" /\ n.schedule = s /\ n.reports = {}
    BY Defaults DEF Node, NoNode
  <2>2. /\ node' = [node EXCEPT ![c] = Presaved(n, now)] /\ PresaveJob(None, n, now)
        /\ intent' = [intent EXCEPT ![c] = s]
        /\ adrift' = (IF s = 0 THEN adrift ELSE adrift \cup {c})
        /\ node[c].state = "unborn"
        /\ UNCHANGED <<now, cron, work, reported, crossed, runs, faults>>
    BY <1>2 DEF Create
  <2>3. edits' \in Nat
    BY <1>0, <1>2 DEF Create, Edited, CountsOK
  <2> HIDE DEF n
  <2>4. /\ Presaved(n, now) \in Node /\ Presaved(n, now).schedule = s
        /\ Presaved(n, now).reports = {} /\ (s = 0 => Presaved(n, now).next = 0)
        /\ Presaved(n, now).state = "live"
    BY <1>0, <2>1, SavedNode DEF CronOK
  <2>5. JobOK' /\ job' = [job EXCEPT ![None] = SetJob(n, now, items)]
    BY <1>0, <2>1, <2>2, SavedJob DEF CronOK, Ids
  <2>6. Typed'
    BY <1>0, <2>2, <2>3, <2>4, <2>5 DEF Typed, NodeOK, CronOK, WorkOK, HistoryOK, CountsOK
  <2>7. ASSUME NEW x \in Checks, x # c
        PROVE  OfCheck(x)'
    <3>1. node'[x] = node[x] /\ job'[x] = job[x] /\ intent'[x] = intent[x]
      BY <1>0, <2>2, <2>5, <2>7 DEF NodeOK, JobOK, HistoryOK, Ids
    <3> QED BY <1>0, <2>2, <2>7, <3>1, Untouched
  <2>8. OfCheck(c)'
    <3>1. node'[c] = Presaved(n, now) /\ job'[c] = job[c] /\ intent'[c] = s
      BY <1>0, <2>2, <2>5 DEF NodeOK, JobOK, HistoryOK, Ids
    <3>2. job[c] = NoJob /\ reported[c] = {}
      BY <1>0, <2>2 DEF OfCheck, Fresh
    <3> QED BY <2>2, <2>4, <3>1, <3>2 DEF OfCheck, Settled, Kept, Fresh, InStep
  <2> QED BY <2>6, <2>7, <2>8 DEF JobInvariant
<1>3. ASSUME NEW c \in Checks, NEW n \in Node, NEW t \in Nat,
             node' = [node EXCEPT ![c] = Presaved(n, t)], PresaveJob(c, n, t),
             n.state = "live", adrift' = adrift \ {c}, Typed',
             \A x \in Checks \ {c} : /\ intent'[x] = intent[x] /\ reported'[x] = reported[x]
                                     /\ work'["cron"].check = work["cron"].check \/ work["cron"].check = c
                                     /\ x \in crossed' <=> x \in crossed,
             c \notin crossed' => n.schedule = intent'[c] /\ n.reports = reported'[c]
      PROVE  JobInvariant'
  <2>1. job' = [job EXCEPT ![c] = SetJob(n, t, items)] /\ job'[c] = SetJob(n, t, items)
    BY <1>0, <1>3, SavedJob DEF Ids
  <2>2. node'[c] = Presaved(n, t)
    BY <1>0, <1>3 DEF NodeOK
  <2>3. ASSUME NEW x \in Checks, x # c
        PROVE  OfCheck(x)'
    <3>1. node'[x] = node[x] /\ job'[x] = job[x]
      BY <1>0, <1>3, <2>1, <2>3 DEF NodeOK, JobOK, Ids
    <3> QED BY <1>0, <1>3, <2>3, <3>1, Untouched
  <2>4. InStep(c)'
    <3>1. CASE n.schedule = 0
      BY <2>1, <2>2, <3>1, <1>3, SavedNode DEF InStep, SetJob
    <3>2. CASE n.schedule # 0
      <4>1. items + 1 # 0
        BY <1>0 DEF JobOK
      <4>2. job'[c] = [item |-> items + 1, next |-> t + n.schedule, period |-> n.schedule]
        BY <2>1, <3>2 DEF SetJob
      <4>3. /\ node'[c].schedule = n.schedule /\ node'[c].next = t + n.schedule
        BY <2>2, <3>2, <1>3, SavedNode
      <4> QED BY <3>2, <4>1, <4>2, <4>3 DEF InStep
    <3> QED BY <3>1, <3>2
  <2>5. OfCheck(c)'
    <3>1. /\ node'[c].state = "live" /\ node'[c].schedule = n.schedule
          /\ node'[c].reports = n.reports
      BY <2>2, <1>3, SavedNode
    <3> QED BY <1>3, <2>4, <3>1 DEF OfCheck, Settled, Kept, Fresh
  <2> QED BY <1>3, <2>3, <2>5 DEF JobInvariant
<1>4. ASSUME NEW c \in Checks, NEW s \in Schedules, Edit(c, s)
      PROVE  JobInvariant'
  <2> DEFINE n == [node[c] EXCEPT !.schedule = s]
  <2>1. /\ n \in Node /\ n.state = "live" /\ n.schedule = s
        /\ n.reports = node[c].reports
    BY <1>0, <1>4 DEF Edit, NodeOK, Node
  <2>2. /\ node' = [node EXCEPT ![c] = Presaved(n, now)] /\ PresaveJob(c, n, now)
        /\ intent' = [intent EXCEPT ![c] = s] /\ adrift' = adrift \ {c}
        /\ node[c].state = "live"
        /\ UNCHANGED <<now, cron, work, reported, crossed, runs, faults>>
    BY <1>4 DEF Edit
  <2>3. edits' \in Nat /\ now \in Nat
    BY <1>0, <1>4 DEF Edit, Edited, CountsOK, CronOK
  <2> HIDE DEF n
  <2>4. Typed'
    <3>1. Presaved(n, now) \in Node
      BY <2>1, <2>3, SavedNode
    <3>2. JobOK'
      BY <1>0, <2>1, <2>2, <2>3, SavedJob DEF Ids
    <3> QED BY <1>0, <2>2, <2>3, <3>1, <3>2
            DEF Typed, NodeOK, CronOK, WorkOK, HistoryOK, CountsOK
  <2>5. intent'[c] = s /\ \A x \in Checks \ {c} : intent'[x] = intent[x]
    BY <1>0, <2>2 DEF HistoryOK
  <2>6. c \notin crossed => node[c].reports = reported[c]
    BY <1>0, <2>2 DEF OfCheck, Kept
  <2> QED BY <1>3, <2>1, <2>2, <2>3, <2>4, <2>5, <2>6
<1>5. ASSUME NEW w \in Workers, FinishRun(w)
      PROVE  JobInvariant'
  <2>1. PICK c \in Checks : c = work[w].check
    BY <1>0, <1>5 DEF FinishRun, Idle, WorkOK
  <2>2. PICK copy \in Node : copy = work[w].copy
    BY <1>0 DEF WorkOK
  <2>3. PICK t \in Nat : t = work[w].start
    BY <1>0 DEF WorkOK
  <2>4. PICK n : n = Report(copy, items + 1)
    OBVIOUS
  <2>5. /\ n \in Node /\ n.state = copy.state /\ n.schedule = copy.schedule
        /\ n.reports = copy.reports \cup {items + 1} /\ items + 1 \in Nat
    BY <1>0, <2>4 DEF Report, Node, JobOK
  <2>6. /\ node' = [node EXCEPT ![c] = Presaved(n, t)] /\ PresaveJob(c, n, t)
        /\ reported' = [reported EXCEPT ![c] = @ \cup {items + 1}]
        /\ adrift' = adrift \ {c} /\ node[c].state = "live"
        /\ crossed' = (IF node[c] = copy THEN crossed ELSE crossed \cup {c})
        /\ work' = [work EXCEPT ![w] = NoWork]
        /\ UNCHANGED <<now, cron, intent, edits, runs, faults>>
    BY <1>5, <2>1, <2>2, <2>3, <2>4 DEF FinishRun
  <2>7. Typed'
    <3>1. Presaved(n, t) \in Node
      BY <2>5, SavedNode
    <3>2. JobOK'
      BY <1>0, <2>5, <2>6, SavedJob DEF Ids
    <3>3. WorkOK'
      BY <1>0, <2>6, Defaults DEF WorkOK
    <3>4. HistoryOK'
      BY <1>0, <2>5, <2>6 DEF HistoryOK
    <3> QED BY <1>0, <2>6, <3>1, <3>2, <3>3, <3>4 DEF Typed, NodeOK, CronOK, CountsOK
  <2>8. \A x \in Checks \ {c} :
           /\ intent'[x] = intent[x] /\ reported'[x] = reported[x]
           /\ work'["cron"].check = work["cron"].check \/ work["cron"].check = c
           /\ x \in crossed' <=> x \in crossed
    <3>1. w # "cron" => work'["cron"] = work["cron"]
      BY <1>0, <1>a, <2>6 DEF WorkOK
    <3> QED BY <1>0, <2>1, <2>6, <3>1 DEF HistoryOK
  <2>9. c \notin crossed' => n.schedule = intent'[c] /\ n.reports = reported'[c]
    <3> SUFFICES ASSUME c \notin crossed'
                 PROVE  n.schedule = intent'[c] /\ n.reports = reported'[c]
      OBVIOUS
    <3>1. node[c] = copy /\ c \notin crossed
      BY <2>6
    <3>2. copy.schedule = intent[c] /\ copy.reports = reported[c]
      BY <1>0, <2>6, <3>1 DEF OfCheck, Kept
    <3>3. reported'[c] = reported[c] \cup {items + 1}
      BY <1>0, <2>6 DEF HistoryOK
    <3> QED BY <2>5, <2>6, <3>2, <3>3
  <2>a. n.state = "live"
    BY <1>0, <1>5, <2>1, <2>2, <2>5 DEF WorkOK
  <2> QED BY <1>3, <2>5, <2>6, <2>7, <2>8, <2>9, <2>a
<1>6. ASSUME NEW i \in Ids, Typed',
             UNCHANGED <<node, intent, reported, crossed>>,
             \A x \in Ids : x # i => job'[x] = job[x],
             i \in Checks => node[i].state # "live" \/ i \in adrift',
             i \in Checks => job'[i] = NoJob \/ node[i].state # "unborn",
             adrift \subseteq adrift',
             \A x \in Checks : work["cron"].check = x /\ x # i
                              => work'["cron"].check = x \/ x \in adrift' 
      PROVE  JobInvariant'
  <2>1. ASSUME NEW x \in Checks
        PROVE  OfCheck(x)'
    <3>1. CASE x # i
      BY <1>0, <1>6, <3>1, Untouched DEF Ids
    <3>2. CASE x = i
      BY <1>0, <1>6, <3>2 DEF OfCheck, Settled, Kept, Fresh
    <3> QED BY <3>1, <3>2
  <2> QED BY <1>6, <2>1 DEF JobInvariant
<1>7. ASSUME NEW c \in Checks, Delete(c)
      PROVE  JobInvariant'
  <2> DEFINE gone == [NoNode EXCEPT !.state = "deleted"]
  <2>1. gone \in Node /\ gone.state = "deleted"
    BY Defaults DEF Node
  <2>2. /\ node' = [node EXCEPT ![c] = gone] /\ job' = [job EXCEPT ![c] = NoJob]
        /\ UNCHANGED <<now, items, cron, work, intent, reported, adrift, crossed, runs,
                       faults>>
    BY <1>7 DEF Delete
  <2>3. edits' \in Nat
    BY <1>0, <1>7 DEF Delete, Edited, CountsOK
  <2> HIDE DEF gone
  <2>4. Typed'
    BY <1>0, <2>1, <2>2, <2>3, Defaults
       DEF Typed, NodeOK, JobOK, CronOK, WorkOK, HistoryOK, CountsOK
  <2>5. ASSUME NEW x \in Checks
        PROVE  OfCheck(x)'
    <3>1. CASE x # c
      <4>1. node'[x] = node[x] /\ job'[x] = job[x]
        BY <1>0, <2>2, <3>1 DEF NodeOK, JobOK, Ids
      <4> QED BY <1>0, <2>2, <4>1, Untouched
    <3>2. CASE x = c
      <4>1. node'[x].state = "deleted"
        BY <1>0, <2>1, <2>2, <3>2 DEF NodeOK
      <4> QED BY <4>1 DEF OfCheck, Settled, Kept, Fresh
    <3> QED BY <3>1, <3>2
  <2> QED BY <2>4, <2>5 DEF JobInvariant
<1>8. CASE StartCron
  <2>1. /\ cron' = [start |-> now, due |-> DueJobs]
        /\ UNCHANGED <<now, node, job, items, work, intent, reported, adrift, crossed,
                       edits, runs, faults>>
    BY <1>8 DEF StartCron
  <2>2. DueJobs \in SUBSET Fetched
    BY <1>0 DEF DueJobs, Fetched, JobOK, Job
  <2>3. Typed'
    BY <1>0, <2>1, <2>2 DEF Typed, NodeOK, JobOK, CronOK, WorkOK, HistoryOK, CountsOK
  <2> QED BY <1>0, <2>1, <2>3, Untouched DEF JobInvariant
<1>b. ASSUME NEW d \in cron.due, FetchedDone(d), UNCHANGED now
      PROVE  CronOK'
  <2>1. CASE cron.due = {d}
    BY <1>0, <1>b, <2>1, Defaults DEF FetchedDone, CronOK
  <2>2. CASE cron.due # {d}
    BY <1>0, <1>b, <2>2 DEF FetchedDone, CronOK
  <2> QED BY <2>1, <2>2
<1>9. ASSUME NEW d \in cron.due, Execute(d)
      PROVE  JobInvariant'
  <2> DEFINE load == [check |-> d.id, start |-> cron.start, copy |-> node[d.id]]
  <2>1. /\ d.id \in Live /\ job' = Rescheduled(d) /\ Idle("cron")
        /\ work' = [work EXCEPT !["cron"] = load] /\ FetchedDone(d)
        /\ UNCHANGED <<now, node, items, intent, reported, adrift, crossed, edits, runs,
                       faults>>
    BY <1>9 DEF Execute
  <2>2. PICK c \in Checks : c = d.id /\ node[c].state = "live"
    BY <2>1 DEF Live
  <2>3. /\ load \in [check : Checks \cup {None}, start : Nat, copy : Node]
        /\ load.check = c /\ load.copy.state = "live"
    BY <1>0, <2>2 DEF NodeOK, CronOK
  <2> HIDE DEF load
  <2>4. WorkOK'
    BY <1>0, <2>1, <2>3 DEF WorkOK
  <2>5. cron.start + d.period \in Nat
    <3>1. d \in Fetched
      BY <1>0 DEF CronOK
    <3>2. cron.start \in Nat /\ d.period \in Nat
      BY <1>0, <3>1, Defaults DEF CronOK, Fetched
    <3> QED BY <3>2
  <2>6. /\ JobOK' /\ \A x \in Checks : x # c => job'[x] = job[x]
    <3>1. c \in Ids /\ job[c] \in Job
      BY <1>0 DEF Ids, JobOK
    <3>2. [job[c] EXCEPT !.next = cron.start + d.period] \in Job
      BY <2>5, <3>1 DEF Job
    <3> QED BY <1>0, <2>1, <2>2, <3>1, <3>2 DEF Rescheduled, JobOK, Ids
  <2>7. Typed'
    BY <1>0, <1>b, <2>1, <2>4, <2>6 DEF Typed, NodeOK, HistoryOK, CountsOK
  <2>8. work["cron"].check = None /\ work'["cron"].check = c
    BY <1>0, <1>a, <2>1, <2>3 DEF Idle, WorkOK
  <2>9. ASSUME NEW x \in Checks
        PROVE  OfCheck(x)'
    <3>1. CASE x # c
      <4>1. work["cron"].check # x
        BY <1>0, <2>8
      <4> QED BY <1>0, <2>1, <2>6, <3>1, <4>1, Untouched
    <3>2. CASE x = c
      BY <1>0, <2>1, <2>2, <2>8, <3>2 DEF OfCheck, Settled, Kept, Fresh
    <3> QED BY <3>1, <3>2
  <2> QED BY <2>7, <2>9 DEF JobInvariant
<1>c. \A i \in Ids : LET j == [job EXCEPT ![i] = NoJob]
                    IN  /\ j \in [Ids -> Job] /\ j[i] = NoJob
                        /\ \A x \in Ids : x # i => j[x] = job[x]
  BY <1>0, Defaults DEF JobOK
<1>10. ASSUME NEW d \in cron.due, ExecuteMissing(d)
       PROVE  JobInvariant'
  <2>1. /\ d.id \notin Live /\ job' = [job EXCEPT ![d.id] = NoJob] /\ FetchedDone(d)
        /\ UNCHANGED <<now, node, items, work, intent, reported, adrift, crossed, edits,
                       runs, faults>>
    BY <1>10 DEF ExecuteMissing
  <2>2. PICK i \in Ids : i = d.id
    BY <1>0 DEF CronOK, Fetched
  <2>3. Typed'
    BY <1>0, <1>b, <1>c, <2>1, <2>2 DEF Typed, NodeOK, JobOK, WorkOK, HistoryOK, CountsOK
  <2>4. i \in Checks => node[i].state # "live"
    BY <2>1, <2>2 DEF Live
  <2>5. job'[i] = NoJob /\ \A x \in Ids : x # i => job'[x] = job[x]
    BY <1>c, <2>1, <2>2
  <2> QED BY <1>6, <2>1, <2>3, <2>4, <2>5
<1>11. CASE StopCron
  <2>1. Typed'
    BY <1>0, <1>11, Defaults
       DEF StopCron, Typed, NodeOK, JobOK, CronOK, WorkOK, HistoryOK, CountsOK
  <2> QED BY <1>0, <1>11, <2>1, Untouched DEF StopCron, JobInvariant
<1>12. ASSUME NEW c \in Checks, RunManually(c)
       PROVE  JobInvariant'
  <2> DEFINE load == [check |-> c, start |-> now, copy |-> node[c]]
  <2>1. /\ node[c].state = "live" /\ work' = [work EXCEPT !["manual"] = load]
        /\ UNCHANGED <<now, node, job, items, cron, intent, reported, adrift, crossed,
                       edits, faults>>
    BY <1>12 DEF RunManually
  <2>2. /\ load \in [check : Checks \cup {None}, start : Nat, copy : Node]
        /\ load.copy.state = "live"
    BY <1>0, <2>1 DEF NodeOK, CronOK
  <2> HIDE DEF load
  <2>3. WorkOK' /\ work'["cron"] = work["cron"]
    BY <1>0, <1>a, <2>1, <2>2 DEF WorkOK
  <2>4. runs' \in Nat
    BY <1>0, <1>12 DEF RunManually, CountsOK
  <2>5. Typed'
    BY <1>0, <2>1, <2>3, <2>4 DEF Typed, NodeOK, JobOK, CronOK, HistoryOK, CountsOK
  <2> QED BY <1>0, <2>1, <2>3, <2>5, Untouched DEF JobInvariant
<1>d. ASSUME NEW w \in Workers, work' = [work EXCEPT ![w] = NoWork]
      PROVE  /\ WorkOK'
             /\ \A x \in Checks : x # work[w].check
                   => (work'["cron"].check = x <=> work["cron"].check = x)
             /\ w # "cron" => work'["cron"] = work["cron"]
  BY <1>0, <1>a, <1>d, Defaults DEF WorkOK
<1>13. ASSUME NEW w \in Workers, FinishDeleted(w)
       PROVE  JobInvariant'
  <2>1. PICK c \in Checks : c = work[w].check
    BY <1>0, <1>13 DEF FinishDeleted, Idle, WorkOK
  <2>2. /\ node[c].state = "deleted" /\ PresaveJob(c, work[w].copy, work[w].start)
        /\ work' = [work EXCEPT ![w] = NoWork]
        /\ UNCHANGED <<now, node, cron, intent, reported, adrift, crossed, edits, runs,
                       faults>>
    BY <1>13, <2>1 DEF FinishDeleted
  <2>3. c \in Ids /\ work[w].copy \in Node /\ work[w].start \in Nat
    BY <1>0 DEF WorkOK, Ids
  <2>4. /\ JobOK' /\ \A x \in Ids : x # c => job'[x] = job[x]
    <3>1. JobOK' /\ job' = [job EXCEPT ![c] = SetJob(work[w].copy, work[w].start, items)]
      BY <1>0, <2>2, <2>3, SavedJob
    <3> QED BY <1>0, <3>1 DEF JobOK
  <2>5. Typed'
    BY <1>0, <1>d, <2>2, <2>4 DEF Typed, NodeOK, CronOK, HistoryOK, CountsOK
  <2> QED BY <1>0, <1>6, <1>d, <2>1, <2>2, <2>3, <2>4, <2>5
<1>14. ASSUME NEW w \in Workers, RunThrows(w)
       PROVE  JobInvariant'
  <2>1. PICK c \in Checks : c = work[w].check
    BY <1>0, <1>14 DEF RunThrows, Idle, WorkOK
  <2>2. /\ job' = (IF w = "cron" THEN [job EXCEPT ![c] = NoJob] ELSE job)
        /\ adrift' = (IF w = "cron" THEN adrift \cup {c} ELSE adrift)
        /\ work' = [work EXCEPT ![w] = NoWork]
        /\ UNCHANGED <<now, node, items, cron, intent, reported, crossed, edits, runs>>
    BY <1>14, <2>1 DEF RunThrows
  <2>3. faults' \in Nat
    BY <1>0, <1>14 DEF RunThrows, Fault, CountsOK
  <2>4. c \in Ids
    BY DEF Ids
  <2>5. Typed'
    <3>1. JobOK' /\ HistoryOK'
      BY <1>0, <1>c, <2>2, <2>4 DEF JobOK, HistoryOK
    <3> QED BY <1>0, <1>d, <2>2, <2>3, <3>1 DEF Typed, NodeOK, CronOK, CountsOK
  <2>6. CASE w = "cron"
    <3>1. job'[c] = NoJob /\ \A x \in Ids : x # c => job'[x] = job[x]
      BY <1>c, <2>2, <2>4, <2>6
    <3> QED BY <1>0, <1>6, <1>d, <2>1, <2>2, <2>4, <2>5, <2>6, <3>1
  <2>7. CASE w # "cron"
    BY <1>0, <1>d, <2>2, <2>5, <2>7, Untouched DEF JobInvariant
  <2> QED BY <2>6, <2>7
<1>15. ASSUME NEW w \in Workers, RunDies(w)
       PROVE  JobInvariant'
  <2>1. PICK c \in Checks : c = work[w].check
    BY <1>0, <1>15 DEF RunDies, Idle, WorkOK
  <2>2. /\ cron' = (IF w = "cron" THEN NoCron ELSE cron)
        /\ adrift' = (IF w = "cron" THEN adrift \cup {c} ELSE adrift)
        /\ work' = [work EXCEPT ![w] = NoWork]
        /\ UNCHANGED <<now, node, job, items, intent, reported, crossed, edits, runs>>
    BY <1>15, <2>1 DEF RunDies
  <2>3. faults' \in Nat
    BY <1>0, <1>15 DEF RunDies, Fault, CountsOK
  <2>4. Typed'
    <3>1. CronOK' /\ HistoryOK'
      BY <1>0, <2>2, Defaults DEF CronOK, HistoryOK
    <3> QED BY <1>0, <1>d, <2>2, <2>3, <3>1 DEF Typed, NodeOK, JobOK, CountsOK
  <2>5. \A x \in Checks : /\ x \in adrift' \/ x \notin adrift
                          /\ \/ work'["cron"].check = x \/ work["cron"].check # x
                             \/ x \in adrift'
    BY <1>d, <2>1, <2>2
  <2> QED BY <1>0, <2>2, <2>4, <2>5, Untouched DEF JobInvariant
<1>16. CASE UNCHANGED vars
  <2>1. Typed'
    BY <1>0, <1>16 DEF vars, Typed, NodeOK, JobOK, CronOK, WorkOK, HistoryOK, CountsOK
  <2> QED BY <1>0, <1>16, <2>1, Untouched DEF vars, JobInvariant
<1> QED
  BY <1>1, <1>2, <1>4, <1>5, <1>7, <1>8, <1>9, <1>10, <1>11, <1>12, <1>13, <1>14, <1>15,
     <1>16 DEF Next, CronStep, Finish

(* Nodes, jobs and what cron has fetched are well typed; a job always has a
   time and a period of days. *)
THEOREM TypeCorrect == Spec => []TypeOK
<1>1. JobInvariant => TypeOK
  BY TypedMeansTypeOK DEF JobInvariant
<1> QED BY <1>1, InitJobs, NextJobs, PTL DEF Spec

(* A check that shows a next run has the job of that run, however cron, runs by
   hand, edits and deletions cross: whoever saves last sets both. *)
THEOREM JobsFollowNodes == Spec => []JobFollowsNode
BY InitJobs, NextJobs, JobsFollow, PTL DEF Spec

(* Schedules and reports are lost only by a run that saves an outdated copy. *)
THEOREM NothingElseIsLost == Spec => []NothingLost
BY InitJobs, NextJobs, NothingIsLost, PTL DEF Spec
===============================================================================
