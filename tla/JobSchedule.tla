----------------------------- MODULE JobSchedule -----------------------------
(***************************************************************************)
(* When the season jobs run, and what catches the runs that did not happen *)
(* (src/schedule.py, catch_up in src/cli.py, .github/workflows/jobs.yml).  *)
(*                                                                         *)
(* GitHub delivers each cron late, or never; one workflow runs at a time   *)
(* and one more may wait.  A workflow run is a chain of processes: doctor, *)
(* sync, the job, the reminders that ride along, and, whatever failed      *)
(* before, `fcc catchup`.  Each process leaves a row in job_runs; catch_up *)
(* asks those rows what was due today and has not run, and runs it.        *)
(*                                                                         *)
(* Time is in half hours, UTC, from midnight of a day FirstDay.            *)
(***************************************************************************)
EXTENDS Integers, FiniteSets

CONSTANTS
  FirstDay,    \* cron weekday (0 = Sunday) of the first day
  Moments,     \* bound: the half hours of a day at which things happen
  Horizon,     \* bound: the last half hour
  Crons,       \* the schedule lines GitHub delivers at least sometimes
  MaxLate,     \* bound: how late it delivers one
  TimeLimit,   \* timeout-minutes of a workflow run, in half hours
  Stoppable,   \* bound: the jobs a person starts at the terminal and stops
  Talkative,   \* jobs whose finding stays the same and is worth a message
  Window,      \* notifications.dedup_window_hours, in half hours
  MaxFaults    \* bound: jobs that fail, rows that are lost, runs that die

HoursOfDay == 0..47
Weekdays == 0..6
Daily == Weekdays

ScheduleBeforeFix ==
  <<[job |-> "waivers",   days |-> {2},   at |-> 22],
    [job |-> "injuries",  days |-> Daily, at |-> 24],
    [job |-> "lineup",    days |-> {4},   at |-> 28],
    [job |-> "lineup",    days |-> {0},   at |-> 26],
    [job |-> "byes",      days |-> {3},   at |-> 22],
    [job |-> "recap",     days |-> {1},   at |-> 24],
    [job |-> "reminders", days |-> {4},   at |-> 22]>>

SCHEDULE ==
  <<[job |-> "waivers",   days |-> {2},   at |-> 22],
    [job |-> "injuries",  days |-> Daily, at |-> 24],
    [job |-> "lineup",    days |-> {4},   at |-> 28],
    [job |-> "lineup",    days |-> {0},   at |-> 29],
    [job |-> "byes",      days |-> {3},   at |-> 22],
    [job |-> "recap",     days |-> {1},   at |-> 24],
    [job |-> "reminders", days |-> {4},   at |-> 22]>>

Lines == 1..7
Job(i) == SCHEDULE[i].job
Jobs == {"waivers", "injuries", "lineup", "byes", "recap", "reminders"}

ASSUME ScheduleAssumption ==
  /\ FirstDay \in Weekdays
  /\ Moments \subseteq HoursOfDay
  /\ Horizon \in Nat /\ MaxLate \in Nat /\ TimeLimit \in Nat
  /\ Window \in Nat /\ MaxFaults \in Nat
  /\ Crons \subseteq Lines
  /\ Talkative \subseteq Jobs
  /\ Stoppable \subseteq Jobs

Day(t) == t \div 48
Weekday(day) == (FirstDay + day) % 7
DueAt(i, day) == (48 * day) + SCHEDULE[i].at
OnDay(day) == {i \in Lines : Weekday(day) \in SCHEDULE[i].days}

(* due_on: today's lines whose time has come.                               *)
DueOn(t) == {i \in OnDay(Day(t)) : DueAt(i, Day(t)) <= t}

NoJob == "none"
Facts == [job: Jobs \cup {"catchup"}, names: SUBSET (Jobs \X HoursOfDay)]
Ok == "ok"
Failed == "failed"
RAN_STATUSES == {Ok}

VARIABLES
  now,
  fired,     \* <<day, line>> delivered, while it could still be delivered
  waiting,   \* the job of the workflow run that waits for its turn
  pc,        \* idle, or the step of the workflow run
  started,   \* when the workflow run started
  job,       \* the job of the step, or the one catch_up is running
  outcome,   \* what it came to: NoJob until it has run
  began,     \* catch_up's `now`
  missing,   \* the lines it has not dealt with
  failures,  \* the lines it could not recover
  verdict,   \* the colour of the last catchup step
  job_runs,  \* per job and status, when the latest such row was finished
  covered,   \* history: when each job was last carried through
  stopped,   \* history: when a person last stopped it in the middle
  mailed,    \* what was said, and when: recommendations with notified_at
  faults

step == <<pc, started, job, outcome>>
catching == <<began, missing, failures, verdict>>
github == <<fired, waiting>>
carried == <<covered, stopped>>
vars == <<now, github, step, catching, job_runs, carried, mailed, faults>>

Init ==
  /\ now = 0
  /\ fired = {}
  /\ waiting = NoJob
  /\ pc = "idle" /\ started = 0 /\ job = NoJob /\ outcome = NoJob
  /\ began = 0 /\ missing = {} /\ failures = {} /\ verdict = "none"
  /\ job_runs = [j \in Jobs |-> [s \in {Ok, Failed} |-> 0]]
  /\ covered = [j \in Jobs |-> 0]
  /\ stopped = [j \in Jobs |-> 0]
  /\ mailed = {}
  /\ faults = 0

Fault == faults < MaxFaults /\ faults' = faults + 1

(* The workflow run ends, or is ended by its time limit.                    *)
End ==
  /\ pc' = "idle" /\ started' = 0 /\ job' = NoJob /\ outcome' = NoJob
  /\ began' = 0 /\ missing' = {} /\ failures' = {}
----------------------------------------------------------------------------
(* The clock moves to the next moment of a day.  A workflow run does not    *)
(* outlive its time limit, and one that waits starts when it is its turn.   *)
CanBeFired(day, i, t) ==
  /\ i \in OnDay(day)
  /\ DueAt(i, day) <= t
  /\ t <= DueAt(i, day) + MaxLate

Tick ==
  /\ \E t \in (now + 1)..(now + 48) :
       /\ t <= Horizon
       /\ t % 48 \in Moments
       /\ IF pc = "idle" THEN waiting = NoJob ELSE t - started <= TimeLimit
       /\ \A u \in (now + 1)..(t - 1) : u % 48 \notin Moments
       /\ now' = t
       /\ fired' = {f \in fired : CanBeFired(f[1], f[2], t)}
  /\ UNCHANGED <<waiting, step, catching, job_runs, carried, mailed, faults>>

(* GitHub delivers a cron: `fcc which-job` names its job, and the new run   *)
(* takes the one place in the queue.                                        *)
JobForStaleCron(i) == IF i = 4 THEN "daily" ELSE Job(i)
JobForCron(i) == Job(i)

Deliver(day, i) ==
  /\ CanBeFired(day, i, now)
  /\ <<day, i>> \notin fired
  /\ fired' = fired \cup {<<day, i>>}
  /\ waiting' = JobForCron(i)
  /\ UNCHANGED <<now, step, catching, job_runs, carried, mailed, faults>>

(* The next run starts with doctor and sync; if one of them fails, the job  *)
(* is skipped, and only the step that always runs is left.                  *)
Start ==
  /\ pc = "idle"
  /\ waiting # NoJob
  /\ pc' = "job"
  /\ started' = now
  /\ job' = waiting
  /\ waiting' = NoJob
  /\ verdict' = "none"
  /\ UNCHANGED <<now, fired, outcome, began, missing, failures, job_runs,
                 carried, mailed, faults>>

StartFails ==
  /\ pc = "idle"
  /\ waiting # NoJob
  /\ Fault
  /\ pc' = "catchup"
  /\ started' = now
  /\ waiting' = NoJob
  /\ verdict' = "none"
  /\ UNCHANGED <<now, fired, job, outcome, began, missing, failures, job_runs,
                 carried, mailed>>

----------------------------------------------------------------------------
(* cmd_job, of a step or of catch_up.  A message that says what another     *)
(* said inside the window is suppressed; a channel that fails, a missing    *)
(* roster or an exception leave nothing said.                               *)
Says(j) == [job |-> j, names |-> {}]

AlreadySent(fact) == \E m \in mailed : m.fact = fact /\ m.at > now - Window

Working == pc \in {"job", "ride", "recover"} /\ outcome = NoJob /\ job # NoJob

RunQuiet ==
  /\ Working
  /\ job \notin Talkative
  /\ outcome' = "quiet"
  /\ UNCHANGED <<now, github, pc, started, job, catching, job_runs,
                 carried, mailed, faults>>

RunTells ==
  /\ Working
  /\ job \in Talkative
  /\ \/ /\ AlreadySent(Says(job))
        /\ outcome' = "suppressed"
        /\ UNCHANGED mailed
     \/ /\ ~AlreadySent(Says(job))
        /\ outcome' = "told"
        /\ mailed' = mailed \cup {[fact |-> Says(job), at |-> now]}
  /\ UNCHANGED <<now, github, pc, started, job, catching, job_runs,
                 carried, faults>>

RunFails ==
  /\ Working
  /\ Fault
  /\ outcome' \in {"failed", "raised"}
  /\ UNCHANGED <<now, github, pc, started, job, catching, job_runs,
                 carried, mailed>>

Succeeded == outcome \in {"quiet", "told", "suppressed"}
Cover ==
  /\ covered' = IF Succeeded THEN [covered EXCEPT ![job] = now] ELSE covered
  /\ UNCHANGED stopped

(* main's finally block: the row of a step's process, which a database      *)
(* error loses in silence.  A failed step skips the ones that follow.       *)
RidesAlong(j) == j \in {"lineup", "waivers"}

AfterStep ==
  IF Succeeded /\ pc = "job" /\ RidesAlong(job)
    THEN pc' = "ride" /\ job' = "reminders"
    ELSE pc' = "catchup" /\ job' = NoJob

FinishStep ==
  /\ pc \in {"job", "ride"}
  /\ outcome # NoJob
  /\ \E s \in {Ok, Failed} :
       /\ Succeeded <=> s = Ok
       /\ job_runs' = [job_runs EXCEPT ![job][s] = now]
  /\ Cover
  /\ AfterStep
  /\ outcome' = NoJob
  /\ UNCHANGED <<now, github, started, catching, mailed, faults>>

FinishStepUnrecorded ==
  /\ pc \in {"job", "ride"}
  /\ outcome # NoJob
  /\ Fault
  /\ Cover
  /\ AfterStep
  /\ outcome' = NoJob
  /\ UNCHANGED <<now, github, started, catching, job_runs, mailed>>

(* A person runs a job at the terminal and stops it with Ctrl-C before it   *)
(* has said anything: main takes that for EXIT_OK, and the row says "ok".   *)
Interrupted(j) ==
  /\ Fault
  /\ job_runs' = [job_runs EXCEPT ![j][Ok] = now]
  /\ stopped' = [stopped EXCEPT ![j] = now]
  /\ UNCHANGED <<now, github, step, catching, covered, mailed>>

----------------------------------------------------------------------------
(* overdue: a line of today is missing unless a row that counts was         *)
(* finished at or after its time.                                           *)
RanSinceInAnyState(j, t) == \E s \in {Ok, Failed} : job_runs[j][s] >= t
RanSince(j, t) == \E s \in RAN_STATUSES : job_runs[j][s] >= t

Overdue == {i \in DueOn(now) : ~RanSince(Job(i), DueAt(i, Day(now)))}

CatchUp ==
  /\ pc = "catchup"
  /\ began' = now
  /\ missing' = Overdue
  /\ pc' = "recover"
  /\ UNCHANGED <<now, github, started, job, outcome, failures, verdict,
                 job_runs, carried, mailed, faults>>

(* The loop over the missing lines, in the order of the list.               *)
Recover ==
  /\ pc = "recover"
  /\ job = NoJob
  /\ \E i \in missing : (\A k \in missing : i <= k) /\ job' = Job(i)
  /\ UNCHANGED <<now, github, pc, started, outcome, catching, job_runs,
                 carried, mailed, faults>>

(* The process is catch_up's, so the job leaves no row of its own; `failed` *)
(* goes on to the next line, an exception leaves catch_up altogether.       *)
Recovered ==
  /\ pc = "recover"
  /\ outcome \notin {NoJob, "raised"}
  /\ missing' = {i \in missing : Job(i) # job}
  /\ failures' = failures \cup
       {i \in missing : ~Succeeded /\ Job(i) = job /\ \A k \in missing : i <= k}
  /\ Cover
  /\ job' = NoJob /\ outcome' = NoJob
  /\ UNCHANGED <<now, github, pc, started, began, verdict, job_runs,
                 mailed, faults>>

RecoveryRaises ==
  /\ pc = "recover"
  /\ outcome = "raised"
  /\ verdict' = "red"
  /\ End
  /\ UNCHANGED <<now, github, job_runs, carried, mailed, faults>>

(* "n scheduled job(s) did not run": each by its name and the time of day   *)
(* it was due, without the day.  What send returns is not looked at.        *)
Notice ==
  [job |-> "catchup", names |-> {<<Job(i), SCHEDULE[i].at>> : i \in failures}]

AllDealtWith == pc = "recover" /\ missing = {} /\ job = NoJob

CatchUpEnds ==
  /\ AllDealtWith
  /\ failures = {}
  /\ verdict' = "green"
  /\ End
  /\ UNCHANGED <<now, github, job_runs, carried, mailed, faults>>

CatchUpReports ==
  /\ AllDealtWith
  /\ failures # {}
  /\ verdict' = "red"
  /\ mailed' = IF AlreadySent(Notice) THEN mailed
               ELSE mailed \cup {[fact |-> Notice, at |-> now]}
  /\ End
  /\ UNCHANGED <<now, github, job_runs, carried, faults>>

CatchUpReportFails ==
  /\ AllDealtWith
  /\ failures # {}
  /\ Fault
  /\ verdict' = "red"
  /\ End
  /\ UNCHANGED <<now, github, job_runs, carried, mailed>>

(* timeout-minutes: the runner is taken away between two steps.             *)
Killed ==
  /\ pc # "idle"
  /\ Fault
  /\ verdict' = "red"
  /\ End
  /\ UNCHANGED <<now, github, job_runs, carried, mailed>>

Next ==
  \/ Tick
  \/ \E day \in 0..Day(Horizon), i \in Crons : Deliver(day, i)
  \/ Start \/ StartFails
  \/ RunQuiet \/ RunTells \/ RunFails
  \/ FinishStep \/ FinishStepUnrecorded
  \/ \E j \in Stoppable : Interrupted(j)
  \/ CatchUp \/ Recover \/ Recovered \/ RecoveryRaises
  \/ CatchUpEnds \/ CatchUpReports \/ CatchUpReportFails
  \/ Killed

Spec == Init /\ [][Next]_vars
----------------------------------------------------------------------------
TypeOK ==
  /\ now \in 0..Horizon
  /\ fired \subseteq (0..Day(Horizon)) \X Lines
  /\ waiting \in Jobs \cup {NoJob}
  /\ pc \in {"idle", "job", "ride", "catchup", "recover"}
  /\ started \in 0..Horizon
  /\ job \in Jobs \cup {NoJob}
  /\ outcome \in {NoJob, "quiet", "told", "suppressed", "failed", "raised"}
  /\ began \in 0..Horizon
  /\ missing \subseteq Lines
  /\ failures \subseteq Lines
  /\ verdict \in {"none", "green", "red"}
  /\ job_runs \in [Jobs -> [{Ok, Failed} -> 0..Horizon]]
  /\ covered \in [Jobs -> 0..Horizon]
  /\ stopped \in [Jobs -> 0..Horizon]
  /\ mailed \subseteq [fact: Facts, at: 0..Horizon]
  /\ faults \in 0..MaxFaults

TurnsGreen == verdict # "green" /\ verdict' = "green"

(* catch_up: "A slot the scheduler dropped is picked up by the next run     *)
(* that day": when a catchup step exits 0, every line of that day whose     *)
(* time had come when it began was carried through at or after its time, or *)
(* stopped by a person, whatever was dropped, replaced in the queue, failed *)
(* or killed before.                                                        *)
GreenMeansCovered ==
  [][TurnsGreen =>
       \A i \in DueOn(began) :
         \/ covered[Job(i)] >= DueAt(i, Day(began))
         \/ stopped[Job(i)] >= DueAt(i, Day(began))]_vars

(* Why the first holds: while catch_up is at work, each line that was due   *)
(* when it began is still missing, or among its failures with a line of the *)
(* same job, or carried through or stopped since its time; a row that       *)
(* counts is never newer than the history.  This is the invariant the proof *)
(* uses.                                                                    *)
Accounted(i) ==
  \/ i \in missing
  \/ \E k \in failures : Job(k) = Job(i)
  \/ covered[Job(i)] >= DueAt(i, Day(began))
  \/ stopped[Job(i)] >= DueAt(i, Day(began))

InHand(i) == i \in missing /\ (\A k \in missing : i <= k) /\ Job(i) = job

Evidence(j) ==
  /\ job_runs[j][Ok] <= covered[j] \/ job_runs[j][Ok] <= stopped[j]
  /\ covered[j] <= now

CatchUpInv ==
  /\ \A j \in Jobs : Evidence(j)
  /\ pc \in {"job", "ride"} => job # NoJob
  /\ pc \in {"idle", "catchup"} => job = NoJob /\ outcome = NoJob
  /\ pc = "recover" =>
       /\ began <= now
       /\ outcome # NoJob => job # NoJob
       /\ job # NoJob => \E i \in Lines : InHand(i)
       /\ \A i \in DueOn(began) : Accounted(i)

(* The comment on the Sunday cron: with the Thursday run on time, Sunday's  *)
(* unchanged lineup is never suppressed as a duplicate of it.  A lineup is  *)
(* only ever silenced by a mail of the same day, or by one that went out    *)
(* later than its cron says.                                                *)
SentOnTime(m) ==
  \A i \in OnDay(Day(m.at)) : Job(i) = "lineup" => m.at <= DueAt(i, Day(m.at))

OnlyLateMailsSilence ==
  [][outcome' = "suppressed" /\ outcome # "suppressed" /\ job = "lineup" =>
       \E m \in mailed : /\ m.fact = Says("lineup")
                         /\ m.at > now - Window
                         /\ Day(m.at) = Day(now) \/ ~SentOnTime(m)]_vars
=============================================================================
