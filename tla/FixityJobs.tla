------------------------------- MODULE FixityJobs -------------------------------
(***************************************************************************)
(* Scheduled fixity checks: ma_file_fixity on top of job_scheduler.        *)
(*                                                                         *)
(* A check is a node with a schedule, the time of its next run, and the    *)
(* reports of its runs.  Its presave hook keeps a job in the schedule      *)
(* table.  Cron fetches the jobs that are due and runs them one by one: a  *)
(* job is put off by its period, then the worker loads the node, hashes    *)
(* files for as long as that takes, adds a report and saves the node it    *)
(* has loaded, which sets the job again.  A user may run a check by hand,  *)
(* edit or delete it meanwhile.                                            *)
(***************************************************************************)
EXTENDS Integers

CONSTANTS
    Checks,
    Periods,     \* the schedules: days between two runs
    None,        \* no check; also the id of a check that is not saved yet
    MaxTime,     \* days
    MaxEdits,    \* checks created, edited or deleted
    MaxRuns,     \* checks run by hand
    MaxFaults    \* runs that die or throw

ASSUME FixityJobsAssumption ==
    /\ None \notin Checks
    /\ Periods \subseteq Nat \ {0}
    /\ MaxTime \in Nat /\ MaxEdits \in Nat /\ MaxRuns \in Nat /\ MaxFaults \in Nat

VARIABLES
    now,
    node,       \* the checks
    job,        \* job_schedule: the job of each id
    items,      \* the last item_id
    cron,       \* the cron run: its start and the jobs it has fetched
    work,       \* the runs of checks, by cron and by hand
    intent,     \* history: the schedule users gave a check last
    reported,   \* history: the reports of the runs that ended
    adrift,     \* history: checks shown a next run that nothing has arranged
    crossed,    \* history: checks saved by a run from an outdated copy
    edits, runs, faults    \* how many there have been

vars == <<now, node, job, items, cron, work, intent, reported, adrift, crossed,
          edits, runs, faults>>

Ids == Checks \cup {None}
Workers == {"cron", "manual"}
Schedules == Periods \cup {0}    \* 0: "Unscheduled"

(* next = 0: no time is set. *)
Node == [state : {"unborn", "live", "deleted"}, schedule : Schedules, next : Nat,
         reports : SUBSET Nat]
NoNode == [state |-> "unborn", schedule |-> 0, next |-> 0, reports |-> {}]

(* item = 0: there is no such job. *)
Job == [item : Nat, next : Nat, period : Schedules]
NoJob == [item |-> 0, next |-> 0, period |-> 0]
Fetched == [id : Ids, item : Nat, next : Nat, period : Schedules]

NoCron == [start |-> 0, due |-> {}]
NoWork == [check |-> None, start |-> 0, copy |-> NoNode]

TypeOK ==
    /\ now \in Nat
    /\ node \in [Checks -> Node]
    /\ job \in [Ids -> Job]
    /\ items \in Nat
    /\ cron \in [start : Nat, due : SUBSET Fetched]
    /\ work \in [Workers -> [check : Checks \cup {None}, start : Nat, copy : Node]]
    /\ intent \in [Checks -> Schedules]
    /\ reported \in [Checks -> SUBSET Nat]
    /\ adrift \in SUBSET Checks
    /\ crossed \in SUBSET Checks
    /\ edits \in Nat /\ runs \in Nat /\ faults \in Nat

Init ==
    /\ now = 1
    /\ node = [c \in Checks |-> NoNode]
    /\ job = [i \in Ids |-> NoJob]
    /\ items = 0
    /\ cron = NoCron
    /\ work = [w \in Workers |-> NoWork]
    /\ intent = [c \in Checks |-> 0]
    /\ reported = [c \in Checks |-> {}]
    /\ adrift = {}
    /\ crossed = {}
    /\ edits = 0 /\ runs = 0 /\ faults = 0

Edited == edits < MaxEdits /\ edits' = edits + 1
Fault == faults < MaxFaults /\ faults' = faults + 1

Idle(w) == work[w].check = None
Live == {c \in Checks : node[c].state = "live"}
Busy(c) == \E w \in Workers : work[w].check = c

Tick ==
    /\ now < MaxTime
    /\ now' = now + 1
    /\ UNCHANGED <<node, job, items, cron, work, intent, reported, adrift, crossed,
                   edits, runs, faults>>

------------------------------------------------------------------------------
(* Saving a check, in a request that began at time t. *)

(* ma_file_fixity_entity_presave(): the node *)
Presaved(n, t) == [n EXCEPT !.next = IF n.schedule = 0 THEN 0 ELSE t + n.schedule]

(* Mutant: the job of a check that is unscheduled now is not removed. *)
PresaveJob_Keeps(id, n, t) ==
    /\ job' = IF n.schedule = 0 THEN job
              ELSE [job EXCEPT ![id] = [item |-> items + 1, next |-> t + n.schedule,
                                        period |-> n.schedule]]
    /\ items' = items + 1

(* Mutant: the job is set without its period. *)
PresaveJob_NoPeriod(id, n, t) ==
    /\ job' = [job EXCEPT ![id] =
                 IF n.schedule = 0 THEN NoJob
                 ELSE [item |-> items + 1, next |-> t + n.schedule, period |-> None]]
    /\ items' = items + 1

(* and its job: JobScheduler set() or remove(). *)
PresaveJob(id, n, t) ==
    /\ job' = [job EXCEPT ![id] =
                 IF n.schedule = 0 THEN NoJob
                 ELSE [item |-> items + 1, next |-> t + n.schedule,
                       period |-> n.schedule]]
    /\ items' = items + 1

(* A new check has no nid when the hook asks for it. *)
Create(c, s) ==
    /\ node[c].state = "unborn"
    /\ Edited
    /\ LET n == [NoNode EXCEPT !.state = "live", !.schedule = s]
       IN  /\ node' = [node EXCEPT ![c] = Presaved(n, now)]
           /\ PresaveJob(None, n, now)
    /\ intent' = [intent EXCEPT ![c] = s]
    /\ adrift' = IF s = 0 THEN adrift ELSE adrift \cup {c}
    /\ UNCHANGED <<now, cron, work, reported, crossed, runs, faults>>

(* The form refuses a node that was saved since the form was built. *)
Edit(c, s) ==
    /\ node[c].state = "live"
    /\ Edited
    /\ LET n == [node[c] EXCEPT !.schedule = s]
       IN  /\ node' = [node EXCEPT ![c] = Presaved(n, now)]
           /\ PresaveJob(c, n, now)
    /\ intent' = [intent EXCEPT ![c] = s]
    /\ adrift' = adrift \ {c}
    /\ UNCHANGED <<now, cron, work, reported, crossed, runs, faults>>

Delete(c) ==
    /\ node[c].state = "live"
    /\ Edited
    /\ node' = [node EXCEPT ![c] = [NoNode EXCEPT !.state = "deleted"]]
    /\ job' = [job EXCEPT ![c] = NoJob]
    /\ UNCHANGED <<now, items, cron, work, intent, reported, adrift, crossed, runs,
                   faults>>

------------------------------------------------------------------------------
(* Cron. *)

DueJobs == {[id |-> i, item |-> job[i].item, next |-> job[i].next,
             period |-> job[i].period] : i \in {j \in Ids : /\ job[j].item # 0
                                                            /\ job[j].next <= now}}

(* job_scheduler_cron() fetches the jobs that are due. *)
StartCron ==
    /\ cron = NoCron /\ Idle("cron")
    /\ DueJobs # {}
    /\ cron' = [start |-> now, due |-> DueJobs]
    /\ UNCHANGED <<now, node, job, items, work, intent, reported, adrift, crossed,
                   edits, runs, faults>>

FetchedDone(d) ==
    cron' = IF cron.due = {d} THEN NoCron ELSE [cron EXCEPT !.due = @ \ {d}]

(* JobScheduler reschedule(): an UPDATE by item_id. *)
Rescheduled(d) ==
    [job EXCEPT ![d.id] = IF @.item = d.item
                          THEN [@ EXCEPT !.next = cron.start + d.period] ELSE @]

(* The job fetched with the earliest time is executed: it is put off, and the
   worker loads its node. *)
Execute(d) ==
    /\ d \in cron.due /\ Idle("cron")
    /\ \A e \in cron.due : d.next <= e.next
    /\ d.id \in Live
    /\ job' = Rescheduled(d)
    /\ work' = [work EXCEPT !["cron"] =
                  [check |-> d.id, start |-> cron.start, copy |-> node[d.id]]]
    /\ FetchedDone(d)
    /\ UNCHANGED <<now, node, items, intent, reported, adrift, crossed, edits, runs,
                   faults>>

(* Mutant: a job without a node is passed over. *)
ExecuteMissing_Keeps(d) ==
    /\ d \in cron.due /\ Idle("cron")
    /\ \A e \in cron.due : d.next <= e.next
    /\ d.id \notin Live
    /\ FetchedDone(d)
    /\ UNCHANGED <<now, node, job, items, work, intent, reported, adrift, crossed, edits,
                   runs, faults>>

(* There is no such node: the worker throws, and the job is dropped. *)
ExecuteMissing(d) ==
    /\ d \in cron.due /\ Idle("cron")
    /\ \A e \in cron.due : d.next <= e.next
    /\ d.id \notin Live
    /\ job' = [job EXCEPT ![d.id] = NoJob]
    /\ FetchedDone(d)
    /\ UNCHANGED <<now, node, items, work, intent, reported, adrift, crossed, edits,
                   runs, faults>>

(* After 30 seconds the jobs that remain are left for the next cron run. *)
StopCron ==
    /\ cron # NoCron /\ Idle("cron")
    /\ cron' = NoCron
    /\ UNCHANGED <<now, node, job, items, work, intent, reported, adrift, crossed,
                   edits, runs, faults>>

------------------------------------------------------------------------------
(* Runs. *)

(* ma_file_fixity_run_check_manually() *)
RunManually(c) ==
    /\ Idle("manual") /\ node[c].state = "live"
    /\ runs < MaxRuns
    /\ runs' = runs + 1
    /\ work' = [work EXCEPT !["manual"] = [check |-> c, start |-> now, copy |-> node[c]]]
    /\ UNCHANGED <<now, node, job, items, cron, intent, reported, adrift, crossed,
                   edits, faults>>

(* Reports are numbered with the item ids, which only grow. *)
Report(n, r) == [n EXCEPT !.reports = @ \cup {r}]

(* Mutant: a run leaves its own report only. *)
FinishRun_LastReport(w) ==
    LET c == work[w].check
        n == Report([work[w].copy EXCEPT !.reports = {}], items + 1)
    IN  /\ ~Idle(w) /\ node[c].state = "live"
        /\ node' = [node EXCEPT ![c] = Presaved(n, work[w].start)]
        /\ PresaveJob(c, n, work[w].start)
        /\ reported' = [reported EXCEPT ![c] = @ \cup {items + 1}]
        /\ adrift' = adrift \ {c}
        /\ crossed' = IF node[c] = work[w].copy THEN crossed ELSE crossed \cup {c}
        /\ work' = [work EXCEPT ![w] = NoWork]
        /\ UNCHANGED <<now, cron, intent, edits, runs, faults>>

(* The worker saves the node it has loaded, whatever the node is now. *)
FinishRun(w) ==
    LET c == work[w].check
        n == Report(work[w].copy, items + 1)
    IN  /\ ~Idle(w) /\ node[c].state = "live"
        /\ node' = [node EXCEPT ![c] = Presaved(n, work[w].start)]
        /\ PresaveJob(c, n, work[w].start)
        /\ reported' = [reported EXCEPT ![c] = @ \cup {items + 1}]
        /\ adrift' = adrift \ {c}
        /\ crossed' = IF node[c] = work[w].copy THEN crossed ELSE crossed \cup {c}
        /\ work' = [work EXCEPT ![w] = NoWork]
        /\ UNCHANGED <<now, cron, intent, edits, runs, faults>>

(* The node is gone: the save updates no row of it, but sets its job. *)
FinishDeleted(w) ==
    LET c == work[w].check
    IN  /\ ~Idle(w) /\ node[c].state = "deleted"
        /\ PresaveJob(c, work[w].copy, work[w].start)
        /\ work' = [work EXCEPT ![w] = NoWork]
        /\ UNCHANGED <<now, node, cron, intent, reported, adrift, crossed, edits, runs,
                       faults>>

(* The run throws.  Cron drops its job. *)
RunThrows(w) ==
    LET c == work[w].check
    IN  /\ ~Idle(w)
        /\ Fault
        /\ job' = IF w = "cron" THEN [job EXCEPT ![c] = NoJob] ELSE job
        /\ adrift' = IF w = "cron" THEN adrift \cup {c} ELSE adrift
        /\ work' = [work EXCEPT ![w] = NoWork]
        /\ UNCHANGED <<now, node, items, cron, intent, reported, crossed, edits, runs>>

(* The process dies, and with that of cron the jobs it has fetched. *)
RunDies(w) ==
    /\ ~Idle(w)
    /\ Fault
    /\ work' = [work EXCEPT ![w] = NoWork]
    /\ cron' = IF w = "cron" THEN NoCron ELSE cron
    /\ adrift' = IF w = "cron" THEN adrift \cup {work[w].check} ELSE adrift
    /\ UNCHANGED <<now, node, job, items, intent, reported, crossed, edits, runs>>

------------------------------------------------------------------------------
CronStep == \E d \in cron.due : Execute(d) \/ ExecuteMissing(d)
Finish(w) == FinishRun(w) \/ FinishDeleted(w)

Next ==
    \/ Tick
    \/ \E c \in Checks, s \in Schedules : Create(c, s) \/ Edit(c, s)
    \/ \E c \in Checks : Delete(c) \/ RunManually(c)
    \/ StartCron
    \/ CronStep
    \/ StopCron
    \/ \E w \in Workers : Finish(w) \/ RunThrows(w) \/ RunDies(w)

Spec == Init /\ [][Next]_vars

(* Cron is started again and again, and executes one job at least of those it
   has fetched; runs end. *)
FairSpec ==
    /\ Spec
    /\ WF_vars(StartCron)
    /\ SF_vars(CronStep)
    /\ \A w \in Workers : WF_vars(Finish(w))

------------------------------------------------------------------------------
(* Properties. *)

(* The job of a check is what its node shows: one of the period of its
   schedule, due at the next run shown, or none.  A run overtaken by an edit,
   by a run by hand, or by both leaves node and job in step.  Checks that have
   not been saved since they were created, or since a run of theirs failed,
   are excepted: any save mends them. *)
JobFollowsNode ==
    \A c \in Checks :
        node[c].state = "live" /\ ~Busy(c) /\ c \notin adrift
        => IF node[c].schedule = 0 THEN job[c] = NoJob /\ node[c].next = 0
           ELSE /\ job[c].item # 0
                /\ job[c].period = node[c].schedule
                /\ job[c].next = node[c].next

(* Nothing is lost between users and runs: a check has the schedule users gave
   it last and the reports of all its runs, unless a run saved an outdated
   copy. *)
NothingLost ==
    \A c \in Checks :
        node[c].state = "live" /\ c \notin crossed
        => node[c].schedule = intent[c] /\ node[c].reports = reported[c]

(* The next run that a check shows does not stay in the past: cron gets to it,
   whatever else is in the table, and although it stops after 30 seconds. *)
Overdue(c) ==
    node[c].state = "live" /\ c \notin adrift /\ node[c].next \in 1..now

DueIsRun == \A c \in Checks : Overdue(c) ~> ~Overdue(c)

(* The job that a run leaves behind for a check deleted meanwhile does not stay
   in the table once it is due. *)
Orphaned(c) == node[c].state = "deleted" /\ job[c].item # 0 /\ job[c].next <= now

OrphansGo == \A c \in Checks : Orphaned(c) ~> ~Orphaned(c)
===============================================================================
