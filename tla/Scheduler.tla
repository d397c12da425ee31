------------------------------- MODULE Scheduler -------------------------------
(****************************************************************************)
(* The scheduled jobs: the persistent store of APScheduler, the loop that    *)
(* fires what is due, and what administrators ask of it on the Scheduler     *)
(* page: schedule, run once, cancel, pause, resume, modify (to run a job now *)
(* changes nothing of it).                                                   *)
(*                                                                           *)
(* The scheduler's own calls change the store under its lock, one step each; *)
(* schedule_job looks at a job first and changes it later. APScheduler is    *)
(* modelled by how the code uses it. Triggers repeat or are for one date;    *)
(* which times they repeat at, zones and descriptions are left out. The      *)
(* scheduler is never stopped or paused as a whole, so that starting it      *)
(* again has nothing to do.                                                  *)
(****************************************************************************)
EXTENDS Integers, FiniteSets

CONSTANTS
    BuiltIn,     \* jobs of the configuration
    PausedFirst, \* those whose configuration has next_run_time None
    Admins,      \* administrators, each with one request at a time
    MaxOneOffs,  \* bound: one-off runs waiting
    MaxTicks      \* bound: ticks

ASSUME SchedulerAssumption ==
    /\ PausedFirst \subseteq BuiltIn /\ MaxOneOffs \in Nat /\ MaxTicks \in Nat
    /\ \A j \in BuiltIn, t \in 0..MaxTicks : <<j, t>> \notin BuiltIn

VARIABLES
    store,    \* apscheduler_jobs: id -> [trigger, next]; a one-off's id is <<job, time>>
    now,
    asked,    \* Admins -> request under way
    stopped,  \* history: jobs paused for good, until someone asks them to go on
    ran,      \* history: jobs that ran on their schedule although they were stopped
    dated     \* history: jobs modified to run at a date

schedulerVars == <<store, now, asked, stopped, ran, dated>>

-----------------------------------------------------------------------------
Paused == MaxTicks + 2
Never == MaxTicks + 3
Times == 0..MaxTicks
Jobs == DOMAIN store
OneOffs == BuiltIn \X Times
is_one_off_job_id(id) == id \in OneOffs
NoRequest == [op |-> "none"]

\* JOBS: an id, a trigger, and next_run_time where the job is paused at first.
Configured(j) == [trigger |-> "repeating", next |-> IF j \in PausedFirst THEN Paused ELSE now + 1]

SchedulerInit ==
    /\ now = 0
    /\ store = [j \in BuiltIn |-> Configured(j)]
    /\ asked = [a \in Admins |-> NoRequest]
    /\ stopped = PausedFirst
    /\ ran = {} /\ dated = {}

Put(id, job) == store' = [x \in Jobs \cup {id} |-> IF x = id THEN job ELSE store[x]]
Drop(ids) == store' = [x \in Jobs \ ids |-> store[x]]

\* The next time a trigger fires, by when it fired last: a date fires once.
Following(job) == IF job.trigger = "date" THEN Never ELSE now + 1

-----------------------------------------------------------------------------
(* APScheduler and the process. *)

\* Jobs that are due run, or are missed where the server was down; either way they
\* get their next time, or leave the store when there is none.
ProcessJobs ==
    LET due == {id \in Jobs : store[id].next <= now}
    IN  /\ due # {}
        /\ store' = [id \in {x \in Jobs : x \notin due \/ Following(store[x]) # Never} |->
                        IF id \in due THEN [store[id] EXCEPT !.next = Following(store[id])]
                        ELSE store[id]]
        /\ ran' = ran \cup (due \cap stopped)
        /\ UNCHANGED <<now, asked, stopped, dated>>

ClockTicks ==
    /\ now < MaxTicks
    /\ \A id \in Jobs : store[id].next > now
    /\ now' = now + 1
    /\ UNCHANGED <<store, asked, stopped, ran, dated>>

\* add_job of every configured job; SQLJobStore leaves one it has as it is.
ProcessStarts ==
    /\ store' = [id \in Jobs \cup BuiltIn |-> IF id \in Jobs THEN store[id] ELSE Configured(id)]
    /\ asked' = [a \in Admins |-> NoRequest]
    /\ stopped' = (stopped \cap Jobs) \cup (PausedFirst \ Jobs)
    /\ dated' = dated \cap Jobs
    /\ UNCHANGED <<now, ran>>

-----------------------------------------------------------------------------
(* What administrators ask. *)
Does(a, q) == asked' = [asked EXCEPT ![a] = q]
Free(a) == asked[a] = NoRequest
Looking(j) == \E a \in Admins : asked[a].op = "schedule" /\ asked[a].job = j

\* schedule_job looks at the job, and at whether it is paused ...
LookAtJob(a, j, resume) ==
    /\ Free(a) /\ j \in Jobs
    /\ Does(a, [op |-> "schedule", job |-> j, resume |-> resume,
                paused |-> store[j].next = Paused])
    /\ stopped' = IF resume THEN stopped \ {j} ELSE stopped
    /\ UNCHANGED <<store, now, ran, dated>>

\* Mutant: a new trigger always comes with its next time.
RescheduleAlways(a) ==
    LET q == asked[a]
    IN  /\ q.op = "schedule"
        /\ IF q.job \notin Jobs THEN UNCHANGED store
           ELSE Put(q.job, [trigger |-> "repeating", next |-> now + 1])
        /\ Does(a, NoRequest)
        /\ UNCHANGED <<now, stopped, ran, dated>>

\* ... and gives it a trigger: with its next time, or without where it was paused
\* and is to stay so.
ScheduleJob(a) ==
    LET q == asked[a]
    IN  /\ q.op = "schedule"
        /\ IF q.job \notin Jobs THEN UNCHANGED store
           ELSE IF ~q.resume /\ q.paused
           THEN Put(q.job, [store[q.job] EXCEPT !.trigger = "repeating"])
           ELSE Put(q.job, [trigger |-> "repeating", next |-> now + 1])
        /\ Does(a, NoRequest)
        /\ UNCHANGED <<now, stopped, ran, dated>>

\* repeat "once": a copy of its own, by the time it is for.
ScheduleOnce(j, t) ==
    /\ j \in Jobs \cap BuiltIn /\ t \in Times /\ t > now
    /\ Cardinality((Jobs \cap OneOffs) \cup {<<j, t>>}) <= MaxOneOffs
    /\ Put(<<j, t>>, [trigger |-> "date", next |-> t])
    /\ stopped' = stopped \ {<<j, t>>}
    /\ UNCHANGED <<now, asked, ran, dated>>

CancelJob(id) ==
    /\ id \in Jobs /\ is_one_off_job_id(id)
    /\ Drop({id})
    /\ UNCHANGED <<now, asked, stopped, ran, dated>>

\* A job somebody is rescheduling may go on after all: the trigger it gets then has
\* a next time if the job was not paused when it was looked at.
PauseJob(j) ==
    /\ j \in Jobs
    /\ Put(j, [store[j] EXCEPT !.next = Paused])
    /\ stopped' = IF Looking(j) THEN stopped ELSE stopped \cup {j}
    /\ UNCHANGED <<now, asked, ran, dated>>

ResumeJob(j) ==
    /\ j \in Jobs
    /\ Put(j, [store[j] EXCEPT !.next = now + 1])
    /\ stopped' = stopped \ {j}
    /\ UNCHANGED <<now, asked, ran, dated>>

\* modify_job, the older form, takes any trigger for the job itself; its next time
\* stays what it is.
ModifyJob(j, trigger) ==
    /\ j \in Jobs
    /\ Put(j, [store[j] EXCEPT !.trigger = trigger])
    /\ dated' = IF trigger = "date" THEN dated \cup ({j} \cap BuiltIn) ELSE dated
    /\ UNCHANGED <<now, asked, stopped, ran>>

SchedulerNext ==
    \/ ProcessJobs \/ ClockTicks \/ ProcessStarts
    \/ \E a \in Admins :
          \/ \E j \in BuiltIn, resume \in BOOLEAN : LookAtJob(a, j, resume)
          \/ ScheduleJob(a)
    \/ \E j \in BuiltIn, t \in Times : ScheduleOnce(j, t)
    \/ \E id \in Jobs :
          \/ CancelJob(id) \/ PauseJob(id) \/ ResumeJob(id)
          \/ \E trigger \in {"repeating", "date"} : ModifyJob(id, trigger)

SchedulerSpec == SchedulerInit /\ [][SchedulerNext]_schedulerVars

-----------------------------------------------------------------------------
\* A job that is paused (some are from the start: they wipe data) does not run on its
\* schedule before somebody resumes it or reschedules it with "resume": a new
\* schedule, a run once, a restart leave it paused. And no job is lost but one that
\* modify_job made a dated one.
PausedStaysPaused == ran = {} /\ BuiltIn \subseteq Jobs \cup dated
=============================================================================
