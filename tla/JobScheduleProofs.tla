-------------------------- MODULE JobScheduleProofs --------------------------
(***************************************************************************)
(* Proofs about JobSchedule: its type invariant, and that a green catchup  *)
(* means that every job due that day was carried through, for every clock, *)
(* lateness, time limit and number of faults; and that only a lineup       *)
(* mailed late silences one of another day, as long as a day's runs end on *)
(* their day.                                                              *)
(***************************************************************************)
EXTENDS JobSchedule, TLAPS

(* Every line of the schedule names a season job, at an hour of the day.    *)
LEMMA LineType ==
  ASSUME NEW i \in Lines
  PROVE  Job(i) \in Jobs /\ SCHEDULE[i].at \in HoursOfDay
<1>1. i = 1 \/ i = 2 \/ i = 3 \/ i = 4 \/ i = 5 \/ i = 6 \/ i = 7
  BY DEF Lines
<1> QED BY <1>1 DEF Job, SCHEDULE, Jobs, HoursOfDay

(* When a line is due is a time.                                            *)
LEMMA DueAtType ==
  ASSUME NEW i \in Lines, NEW t \in 0..Horizon
  PROVE  DueAt(i, Day(t)) \in Int
<1>1. t \div 48 \in Int
  BY ScheduleAssumption DEF ScheduleAssumption
<1>2. SCHEDULE[i].at \in Int
  BY LineType DEF HoursOfDay
<1> QED BY <1>1, <1>2 DEF DueAt, Day

(* No job is called "none".                                                 *)
LEMMA NoJobIsNone == NoJob \notin Jobs
BY DEF NoJob, Jobs

(* The initial states are of the right type.                                *)
LEMMA TypeInit == Init => TypeOK
BY ScheduleAssumption DEF Init, TypeOK, ScheduleAssumption, NoJob, Facts

(* What the steps share: a fault stays inside its bound, an ended workflow  *)
(* run is of the right type, and so is the history after a job.             *)
LEMMA FaultType == TypeOK /\ Fault => faults' \in 0..MaxFaults
BY ScheduleAssumption DEF TypeOK, Fault, ScheduleAssumption

(* A workflow run that ends leaves its variables of the right type.         *)
LEMMA EndType ==
  ASSUME End
  PROVE  /\ pc' = "idle" /\ started' \in 0..Horizon
         /\ job' \in Jobs \cup {NoJob}
         /\ outcome' = NoJob /\ began' \in 0..Horizon
         /\ missing' \subseteq Lines /\ failures' \subseteq Lines
BY ScheduleAssumption DEF End, ScheduleAssumption

(* So does what is noted when a job was carried through.                    *)
LEMMA CoverType ==
  TypeOK /\ Cover => /\ covered' \in [Jobs -> 0..Horizon]
                     /\ stopped' \in [Jobs -> 0..Horizon]
BY DEF TypeOK, Cover

(* Every step keeps the type invariant.                                     *)
LEMMA TypeInductive == TypeOK /\ [Next]_vars => TypeOK'
<1> SUFFICES ASSUME TypeOK, [Next]_vars PROVE TypeOK'
  OBVIOUS
<1>0. CASE UNCHANGED vars
  BY <1>0 DEF TypeOK, vars, github, step, catching, carried
<1>1. CASE Tick
  <2>1. now' \in 0..Horizon
    BY <1>1, ScheduleAssumption DEF Tick, TypeOK, ScheduleAssumption
  <2>2. fired' \subseteq fired
    BY <1>1 DEF Tick
  <2> QED BY <1>1, <2>1, <2>2 DEF Tick, TypeOK, step, catching, carried
<1>2. ASSUME NEW day \in 0..Day(Horizon), NEW i \in Crons, Deliver(day, i)
      PROVE  TypeOK'
  <2>1. i \in Lines /\ JobForCron(i) \in Jobs
    BY ScheduleAssumption, LineType DEF ScheduleAssumption, JobForCron
  <2>2. fired' \subseteq (0..Day(Horizon)) \X Lines
    BY <1>2, <2>1 DEF Deliver, TypeOK
  <2>3. waiting' \in Jobs \cup {NoJob}
    BY <1>2, <2>1 DEF Deliver
  <2> QED BY <1>2, <2>2, <2>3 DEF Deliver, TypeOK, step, catching, carried
<1>3. CASE Start
  BY <1>3 DEF Start, TypeOK, carried
<1>4. CASE StartFails
  <2>1. faults' \in 0..MaxFaults
    BY <1>4, FaultType DEF StartFails
  <2> QED BY <1>4, <2>1 DEF StartFails, TypeOK, carried
<1>5. CASE RunQuiet
  BY <1>5 DEF RunQuiet, TypeOK, github, catching, carried
<1>6. CASE RunTells
  <2>1. [fact |-> Says(job), at |-> now] \in [fact: Facts, at: 0..Horizon]
    BY <1>6 DEF RunTells, Working, Says, Facts, TypeOK
  <2>2. mailed' \subseteq [fact: Facts, at: 0..Horizon]
    BY <1>6, <2>1 DEF RunTells, TypeOK
  <2>3. outcome' \in {"told", "suppressed"}
    BY <1>6 DEF RunTells
  <2> QED BY <1>6, <2>2, <2>3 DEF RunTells, TypeOK, github, catching, carried
<1>7. CASE RunFails
  <2>1. faults' \in 0..MaxFaults
    BY <1>7, FaultType DEF RunFails
  <2> QED BY <1>7, <2>1 DEF RunFails, TypeOK, github, catching, carried
<1>8. CASE FinishStep
  <2>1. /\ covered' \in [Jobs -> 0..Horizon]
       /\ stopped' \in [Jobs -> 0..Horizon]
    BY <1>8, CoverType DEF FinishStep
  <2>2. PICK s \in {Ok, Failed} : job_runs' = [job_runs EXCEPT ![job][s] = now]
    BY <1>8 DEF FinishStep
  <2>3. job_runs' \in [Jobs -> [{Ok, Failed} -> 0..Horizon]]
    BY <2>2 DEF TypeOK
  <2>4. pc' \in {"ride", "catchup"} /\ job' \in Jobs \cup {NoJob}
    BY <1>8 DEF FinishStep, AfterStep, Jobs
  <2> QED
    BY <1>8, <2>1, <2>3, <2>4 DEF FinishStep, TypeOK, github, catching, carried
<1>9. CASE FinishStepUnrecorded
  <2>1. /\ covered' \in [Jobs -> 0..Horizon]
       /\ stopped' \in [Jobs -> 0..Horizon]
    BY <1>9, CoverType DEF FinishStepUnrecorded
  <2>2. pc' \in {"ride", "catchup"} /\ job' \in Jobs \cup {NoJob}
    BY <1>9 DEF FinishStepUnrecorded, AfterStep, Jobs
  <2>3. faults' \in 0..MaxFaults
    BY <1>9, FaultType DEF FinishStepUnrecorded
  <2> QED
    BY <1>9, <2>1, <2>2, <2>3 DEF FinishStepUnrecorded, TypeOK, github, catching, carried
<1>10. CASE CatchUp
  <2>1. Overdue \subseteq Lines
    BY DEF Overdue, DueOn, OnDay
  <2> QED BY <1>10, <2>1 DEF CatchUp, TypeOK, github, carried
<1>11. CASE Recover
  <2>1. job' \in Jobs
    BY <1>11, LineType DEF Recover, TypeOK
  <2> QED BY <1>11, <2>1 DEF Recover, TypeOK, github, catching, carried
<1>12. CASE Recovered
  <2>1. /\ covered' \in [Jobs -> 0..Horizon]
       /\ stopped' \in [Jobs -> 0..Horizon]
    BY <1>12, CoverType DEF Recovered
  <2> QED BY <1>12, <2>1 DEF Recovered, TypeOK, github, carried
<1>13. CASE RecoveryRaises \/ CatchUpEnds
  <2>1. End /\ verdict' \in {"green", "red"}
    BY <1>13 DEF RecoveryRaises, CatchUpEnds
  <2> QED
    BY <1>13, <2>1, EndType DEF RecoveryRaises, CatchUpEnds, TypeOK, github, carried
<1>14. CASE CatchUpReports
  <2>1. Notice \in Facts
    BY LineType DEF Notice, Facts, TypeOK
  <2>2. mailed' \subseteq [fact: Facts, at: 0..Horizon]
    BY <1>14, <2>1 DEF CatchUpReports, TypeOK
  <2> QED BY <1>14, <2>2, EndType DEF CatchUpReports, TypeOK, github, carried
<1>15. CASE CatchUpReportFails \/ Killed
  <2>1. End /\ faults' \in 0..MaxFaults
    BY <1>15, FaultType DEF CatchUpReportFails, Killed
  <2> QED
    BY <1>15, <2>1, EndType DEF CatchUpReportFails, Killed, TypeOK, github, carried
<1>16. ASSUME NEW j \in Stoppable, Interrupted(j) PROVE TypeOK'
  <2>1. faults' \in 0..MaxFaults
    BY <1>16, FaultType DEF Interrupted
  <2>2. job_runs' \in [Jobs -> [{Ok, Failed} -> 0..Horizon]]
    BY <1>16 DEF Interrupted, TypeOK
  <2>3. stopped' \in [Jobs -> 0..Horizon]
    BY <1>16 DEF Interrupted, TypeOK
  <2> QED
    BY <1>16, <2>1, <2>2, <2>3 DEF Interrupted, TypeOK, github, step, catching
<1> QED
  BY <1>0, <1>1, <1>2, <1>3, <1>4, <1>5, <1>6, <1>7, <1>8, <1>9, <1>10, <1>11,
     <1>12, <1>13, <1>14, <1>15, <1>16
  DEF Next

(* Type correctness, for every value of the constants.                      *)
THEOREM TypeCorrect == Spec => []TypeOK
BY TypeInit, TypeInductive, PTL DEF Spec

----------------------------------------------------------------------------
(* The initial states satisfy the accounting invariant: nobody is at work.  *)
LEMMA CatchUpInit == Init => CatchUpInv
BY ScheduleAssumption DEF Init, CatchUpInv, Evidence, ScheduleAssumption, Ok

(* A step that neither works for a catch-up nor writes a row keeps every    *)
(* line accounted for.                                                      *)
LEMMA Unmoved ==
  ASSUME CatchUpInv,
         UNCHANGED <<pc, job, outcome, began, missing, failures>>,
         UNCHANGED <<job_runs, covered, stopped>>,
         now \in Nat, now' \in Nat, now <= now',
         TypeOK
  PROVE  CatchUpInv'
<1>1. \A j \in Jobs : Evidence(j)'
  <2> TAKE j \in Jobs
  <2>1. Evidence(j) /\ covered[j] \in Int
    BY ScheduleAssumption DEF CatchUpInv, TypeOK, ScheduleAssumption
  <2> QED BY <2>1 DEF Evidence
<1>2. DueOn(began) = DueOn(began)' /\ \A i : Accounted(i) <=> Accounted(i)'
  BY DEF DueOn, Accounted, OnDay
<1>3. \A i : InHand(i) <=> InHand(i)'
  BY DEF InHand
<1>4. pc = "recover" => began' <= now'
  BY DEF CatchUpInv, TypeOK
<1> QED BY <1>1, <1>2, <1>3, <1>4 DEF CatchUpInv

(* A job that was carried through is so from now on, and no other changes.  *)
LEMMA CoverKeeps ==
  ASSUME TypeOK, CatchUpInv, Cover, UNCHANGED <<now>>
  PROVE  /\ \A j \in Jobs : covered[j] <= covered'[j] /\ covered'[j] <= now
         /\ Succeeded /\ job \in Jobs => covered'[job] = now
BY ScheduleAssumption
DEF TypeOK, CatchUpInv, Evidence, Cover, ScheduleAssumption

(* The history of a job grows, and no row of it is written.                 *)
LEMMA EvidenceKeeps ==
  ASSUME NEW j \in Jobs, TypeOK, CatchUpInv, Cover,
         UNCHANGED <<now, job_runs>>
  PROVE  Evidence(j)'
<1>1. covered[j] <= covered'[j] /\ covered'[j] <= now
  BY CoverKeeps
<1>2. /\ job_runs[j][Ok] \in Int /\ covered[j] \in Int
      /\ stopped[j] \in Int
  BY ScheduleAssumption DEF TypeOK, ScheduleAssumption
<1>3. covered'[j] \in Int /\ stopped' = stopped
  BY CoverType, ScheduleAssumption DEF ScheduleAssumption, Cover
<1>4. Evidence(j)
  BY DEF CatchUpInv
<1> QED BY <1>1, <1>2, <1>3, <1>4 DEF Evidence

(* A run that ended has nothing left to account for.                        *)
LEMMA EndKeeps ==
  ASSUME TypeOK, CatchUpInv, End, UNCHANGED <<now, job_runs, carried>>
  PROVE  CatchUpInv'
<1>1. \A j \in Jobs : Evidence(j)'
  BY DEF CatchUpInv, Evidence, carried
<1> QED BY <1>1 DEF CatchUpInv, End

(* Every step keeps the accounting invariant.                               *)
LEMMA CatchUpInductive == TypeOK /\ CatchUpInv /\ [Next]_vars => CatchUpInv'
<1> SUFFICES ASSUME TypeOK, CatchUpInv, [Next]_vars PROVE CatchUpInv'
  OBVIOUS
<1>t. now \in Nat /\ now <= now
  BY ScheduleAssumption DEF TypeOK, ScheduleAssumption
<1>0. CASE UNCHANGED vars
  BY <1>0, <1>t, Unmoved DEF vars, step, catching, carried
<1>1. CASE Tick
  <2>1. now' \in Nat /\ now <= now'
    BY <1>1, <1>t DEF Tick
  <2> QED BY <1>1, <1>t, <2>1, Unmoved DEF Tick, step, catching, carried
<1>2. ASSUME NEW day \in 0..Day(Horizon), NEW i \in Crons, Deliver(day, i)
      PROVE  CatchUpInv'
  BY <1>2, <1>t, Unmoved DEF Deliver, step, catching, carried
<1>3. CASE Start \/ StartFails
  <2>1. pc' # "recover" /\ UNCHANGED <<now, job_runs, covered, stopped>>
    BY <1>3 DEF Start, StartFails, carried
  <2>2. pc' = "job" => job' # NoJob
    BY <1>3 DEF Start, StartFails
  <2>3. outcome' = NoJob /\ pc' \in {"job", "catchup"}
    BY <1>3 DEF Start, StartFails, CatchUpInv
  <2>4. pc' = "catchup" => job' = NoJob
    BY <1>3 DEF Start, StartFails, CatchUpInv
  <2>5. \A j \in Jobs : Evidence(j)'
    BY <2>1 DEF CatchUpInv, Evidence
  <2> QED BY <2>1, <2>2, <2>3, <2>4, <2>5 DEF CatchUpInv
<1>4. CASE RunQuiet \/ RunTells \/ RunFails
  <2>1. UNCHANGED <<now, pc, job, began, missing, failures, job_runs, covered,
                    stopped>>
    BY <1>4 DEF RunQuiet, RunTells, RunFails, catching, carried
  <2>2. pc \in {"job", "ride", "recover"} /\ job # NoJob
    BY <1>4 DEF RunQuiet, RunTells, RunFails, Working
  <2>3. DueOn(began) = DueOn(began)' /\ \A i : Accounted(i) <=> Accounted(i)'
    BY <2>1 DEF DueOn, Accounted, OnDay
  <2>4. \A i : InHand(i) <=> InHand(i)'
    BY <2>1 DEF InHand
  <2>5. \A j \in Jobs : Evidence(j)'
    BY <2>1 DEF CatchUpInv, Evidence
  <2> QED BY <2>1, <2>2, <2>3, <2>4, <2>5 DEF CatchUpInv
<1>5. CASE FinishStep \/ FinishStepUnrecorded
  <2>1. Cover /\ UNCHANGED now /\ job \in Jobs
    BY <1>5 DEF FinishStep, FinishStepUnrecorded, CatchUpInv, TypeOK
  <2>2. \A j \in Jobs : Evidence(j)'
    <3> TAKE j \in Jobs
    <3>1. CASE FinishStepUnrecorded
      BY <3>1, <2>1, EvidenceKeeps DEF FinishStepUnrecorded
    <3>2. CASE FinishStep
      <4>1. PICK s \in {Ok, Failed} :
              /\ Succeeded <=> s = Ok
              /\ job_runs' = [job_runs EXCEPT ![job][s] = now]
        BY <3>2 DEF FinishStep
      <4>2. covered[j] <= covered'[j] /\ covered'[j] <= now /\ stopped' = stopped
        BY <2>1, CoverKeeps DEF Cover
      <4>3. CASE s = Ok /\ j = job
        <5>1. covered'[job] = now
          BY <4>1, <4>3, <2>1, CoverKeeps
        <5>2. job_runs'[j][Ok] = now
          BY <4>1, <4>3 DEF TypeOK
        <5> QED BY <5>1, <5>2, <4>3, <2>1, <1>t DEF Evidence
      <4>4. CASE ~(s = Ok /\ j = job)
        <5>1. job_runs'[j][Ok] = job_runs[j][Ok]
          BY <4>1, <4>4 DEF TypeOK, Ok, Failed
        <5>2. /\ job_runs[j][Ok] \in Int /\ covered[j] \in Int
              /\ stopped[j] \in Int /\ covered'[j] \in Int
          <6>1. covered' \in [Jobs -> 0..Horizon]
            BY <2>1, CoverType
          <6> QED BY <6>1, ScheduleAssumption DEF TypeOK, ScheduleAssumption
        <5>3. Evidence(j)
          BY DEF CatchUpInv
        <5> QED BY <5>1, <5>2, <5>3, <4>2, <2>1 DEF Evidence
      <4> QED BY <4>3, <4>4
    <3> QED BY <1>5, <3>1, <3>2
  <2>3. \/ pc' = "ride" /\ job' # NoJob
        \/ pc' = "catchup" /\ job' = NoJob /\ outcome' = NoJob
    BY <1>5, NoJobIsNone DEF FinishStep, FinishStepUnrecorded, AfterStep, Jobs
  <2> QED BY <2>2, <2>3 DEF CatchUpInv
<1>6. CASE CatchUp
  <2>1. job' = NoJob /\ outcome' = NoJob /\ pc' = "recover" /\ began' = now
    BY <1>6 DEF CatchUp, CatchUpInv
  <2>2. ASSUME NEW i \in DueOn(began') PROVE Accounted(i)'
    <3>1. i \in Lines /\ i \in DueOn(now)
      BY <2>1 DEF DueOn, OnDay
    <3>2. CASE i \in Overdue
      BY <1>6, <3>2 DEF CatchUp, Accounted
    <3>3. CASE i \notin Overdue
      <4>1. job_runs[Job(i)][Ok] >= DueAt(i, Day(now))
        BY <3>1, <3>3 DEF Overdue, RanSince, RAN_STATUSES
      <4>2. Job(i) \in Jobs
        BY <3>1, LineType
      <4>3. /\ job_runs[Job(i)][Ok] \in Int /\ covered[Job(i)] \in Int
            /\ stopped[Job(i)] \in Int
        BY <4>2, ScheduleAssumption DEF TypeOK, ScheduleAssumption
      <4>4. \/ job_runs[Job(i)][Ok] <= covered[Job(i)]
            \/ job_runs[Job(i)][Ok] <= stopped[Job(i)]
        BY <4>2 DEF CatchUpInv, Evidence
      <4>5. DueAt(i, Day(now)) \in Int
        BY <3>1, DueAtType DEF TypeOK
      <4>6. \/ covered[Job(i)] >= DueAt(i, Day(now))
            \/ stopped[Job(i)] >= DueAt(i, Day(now))
        BY <4>1, <4>3, <4>4, <4>5
      <4> QED BY <4>6, <2>1, <1>6 DEF CatchUp, Accounted, carried
    <3> QED BY <3>2, <3>3
  <2>3. DueOn(began)' = DueOn(began')
    BY DEF DueOn, OnDay
  <2>4. \A j \in Jobs : Evidence(j)'
    BY <1>6 DEF CatchUp, CatchUpInv, Evidence, carried
  <2> QED BY <1>6, <1>t, <2>1, <2>2, <2>3, <2>4 DEF CatchUp, CatchUpInv
<1>7. CASE Recover
  <2>1. PICK i \in missing : (\A k \in missing : i <= k) /\ job' = Job(i)
    BY <1>7 DEF Recover
  <2>2. i \in Lines /\ InHand(i)'
    BY <1>7, <2>1 DEF Recover, InHand, TypeOK, catching
  <2>3. DueOn(began) = DueOn(began)' /\ \A k : Accounted(k) <=> Accounted(k)'
    BY <1>7 DEF Recover, catching, carried, DueOn, Accounted, OnDay
  <2>4. outcome = NoJob
    BY <1>7 DEF Recover, CatchUpInv
  <2>5. \A j \in Jobs : Evidence(j)'
    BY <1>7 DEF Recover, CatchUpInv, Evidence, carried
  <2> QED BY <1>7, <2>2, <2>3, <2>4, <2>5 DEF Recover, catching, CatchUpInv
<1>8. CASE Recovered
  <2>1. pc = "recover" /\ Cover /\ UNCHANGED <<now, job_runs, began, pc>>
    BY <1>8 DEF Recovered
  <2>2. PICK h \in Lines : InHand(h)
    BY <1>8 DEF Recovered, CatchUpInv
  <2>3. job \in Jobs /\ Job(h) = job
    BY <2>2, LineType DEF InHand
  <2>4. ASSUME NEW i \in DueOn(began) PROVE Accounted(i)'
    <3>1. i \in Lines /\ Job(i) \in Jobs /\ Accounted(i)
      BY <2>1, LineType DEF DueOn, OnDay, CatchUpInv
    <3>2. CASE i \in missing /\ Job(i) # job
      BY <1>8, <3>2 DEF Recovered, Accounted
    <3>3. CASE i \in missing /\ Job(i) = job /\ ~Succeeded
      BY <1>8, <2>2, <3>3 DEF Recovered, Accounted, InHand
    <3>4. CASE i \in missing /\ Job(i) = job /\ Succeeded
      <4>1. covered'[Job(i)] = now
        BY <2>1, <2>3, <3>4, CoverKeeps
      <4>2. DueAt(i, Day(began)) <= began /\ began <= now
        BY <2>1 DEF DueOn, CatchUpInv
      <4>3. /\ DueAt(i, Day(began)) \in Int
            /\ began \in 0..Horizon /\ now \in 0..Horizon
        BY <3>1, DueAtType DEF TypeOK
      <4>5. began \in Int /\ now \in Int
        BY <4>3, ScheduleAssumption DEF ScheduleAssumption
      <4>4. covered'[Job(i)] >= DueAt(i, Day(began'))
        BY <4>1, <4>2, <4>3, <4>5, <2>1
      <4> QED BY <4>4 DEF Accounted
    <3>5. CASE \E k \in failures : Job(k) = Job(i)
      BY <1>8, <3>5 DEF Recovered, Accounted
    <3>6. CASE covered[Job(i)] >= DueAt(i, Day(began))
      <4>1. covered[Job(i)] <= covered'[Job(i)]
        BY <2>1, <3>1, CoverKeeps
      <4>2. DueAt(i, Day(began)) \in Int /\ covered[Job(i)] \in 0..Horizon
        BY <3>1, DueAtType DEF TypeOK
      <4>5. covered[Job(i)] \in Int
        BY <4>2, ScheduleAssumption DEF ScheduleAssumption
      <4>3. covered'[Job(i)] \in Int
        BY <2>1, <3>1, CoverType, ScheduleAssumption DEF ScheduleAssumption
      <4>4. covered'[Job(i)] >= DueAt(i, Day(began'))
        BY <3>6, <4>1, <4>2, <4>3, <4>5, <2>1
      <4> QED BY <4>4 DEF Accounted
    <3>7. CASE stopped[Job(i)] >= DueAt(i, Day(began))
      BY <2>1, <3>7 DEF Cover, Accounted
    <3> QED BY <3>1, <3>2, <3>3, <3>4, <3>5, <3>6, <3>7 DEF Accounted
  <2>5. \A j \in Jobs : Evidence(j)'
    BY <2>1, EvidenceKeeps
  <2>6. DueOn(began)' = DueOn(began)
    BY <2>1 DEF DueOn, OnDay
  <2>7. job' = NoJob /\ outcome' = NoJob
    BY <1>8 DEF Recovered
  <2> QED BY <2>1, <2>4, <2>5, <2>6, <2>7 DEF CatchUpInv
<1>9. CASE RecoveryRaises \/ CatchUpEnds \/ CatchUpReports
             \/ CatchUpReportFails \/ Killed
  <2>1. End /\ UNCHANGED <<now, job_runs, carried>>
    BY <1>9
    DEF RecoveryRaises, CatchUpEnds, CatchUpReports, CatchUpReportFails, Killed
  <2> QED BY <2>1, EndKeeps
<1>10. ASSUME NEW j \in Stoppable, Interrupted(j) PROVE CatchUpInv'
  <2>1. /\ job_runs' = [job_runs EXCEPT ![j][Ok] = now]
        /\ stopped' = [stopped EXCEPT ![j] = now]
        /\ UNCHANGED <<now, covered, pc, job, outcome, began, missing, failures>>
    BY <1>10 DEF Interrupted, step, catching
  <2>2. \A k \in Jobs : Evidence(k)'
    <3> TAKE k \in Jobs
    <3>1. Evidence(k)
      BY DEF CatchUpInv
    <3>2. CASE k = j
      <4>1. job_runs'[k][Ok] = now /\ stopped'[k] = now
        BY <2>1, <3>2 DEF TypeOK
      <4> QED BY <4>1, <2>1, <3>1, <1>t DEF Evidence
    <3>3. CASE k # j
      <4>1. job_runs'[k] = job_runs[k] /\ stopped'[k] = stopped[k]
        BY <2>1, <3>3 DEF TypeOK
      <4> QED BY <4>1, <2>1, <3>1 DEF Evidence
    <3> QED BY <3>2, <3>3
  <2>3. ASSUME pc = "recover", NEW i \in DueOn(began) PROVE Accounted(i)'
    <3>1. i \in Lines /\ Job(i) \in Jobs /\ Accounted(i)
      BY <2>3, LineType DEF DueOn, OnDay, CatchUpInv
    <3>2. stopped'[Job(i)] = stopped[Job(i)] \/ stopped'[Job(i)] = now
      BY <2>1, <3>1 DEF TypeOK
    <3>3. DueAt(i, Day(began)) <= began /\ began <= now
      BY <2>3 DEF DueOn, CatchUpInv
    <3>4. DueAt(i, Day(began)) \in Int /\ began \in Int
      BY <3>1, DueAtType, ScheduleAssumption DEF TypeOK, ScheduleAssumption
    <3>5. now >= DueAt(i, Day(began))
      BY <3>3, <3>4, <1>t
    <3>6. UNCHANGED <<missing, failures, covered, began>>
      BY <2>1
    <3> QED BY <3>1, <3>2, <3>5, <3>6 DEF Accounted
  <2>4. DueOn(began)' = DueOn(began) /\ \A i : InHand(i)' <=> InHand(i)
    BY <2>1 DEF DueOn, OnDay, InHand
  <2> QED BY <2>1, <2>2, <2>3, <2>4 DEF CatchUpInv
<1> QED
  BY <1>0, <1>1, <1>2, <1>3, <1>4, <1>5, <1>6, <1>7, <1>8, <1>9, <1>10 DEF Next

(* Only catch_up's clean exit turns the step green, and then nothing of the *)
(* day is left.                                                             *)
LEMMA GreenStep ==
  ASSUME TypeOK, CatchUpInv, [Next]_vars, TurnsGreen
  PROVE  \A i \in DueOn(began) :
           \/ covered[Job(i)] >= DueAt(i, Day(began))
           \/ stopped[Job(i)] >= DueAt(i, Day(began))
<1>1. CatchUpEnds
  BY DEF Next, TurnsGreen, vars, catching, step, Interrupted, Tick, Deliver, Start,
         StartFails, RunQuiet, RunTells, RunFails, FinishStep,
         FinishStepUnrecorded, CatchUp, Recover, Recovered, RecoveryRaises,
         CatchUpReports, CatchUpReportFails, Killed
<1>2. pc = "recover" /\ missing = {} /\ failures = {}
  BY <1>1 DEF CatchUpEnds, AllDealtWith
<1> QED BY <1>2 DEF CatchUpInv, Accounted

(* catch_up's exit code can be believed, for every clock, queue, number of  *)
(* failures and kills: when it is 0, every job due that day ran, or was     *)
(* stopped by a person.                                                     *)
THEOREM GreenIsCovered == Spec => GreenMeansCovered
<1>1. TypeOK /\ CatchUpInv /\ [Next]_vars =>
        (TurnsGreen =>
           \A i \in DueOn(began) :
             \/ covered[Job(i)] >= DueAt(i, Day(began))
             \/ stopped[Job(i)] >= DueAt(i, Day(began)))
  BY GreenStep
<1>2. Spec => [](TypeOK /\ CatchUpInv)
  BY TypeInit, TypeInductive, CatchUpInit, CatchUpInductive, PTL DEF Spec
<1>3. TypeOK /\ CatchUpInv /\ [Next]_vars =>
        [TurnsGreen =>
           \A i \in DueOn(began) :
             \/ covered[Job(i)] >= DueAt(i, Day(began))
             \/ stopped[Job(i)] >= DueAt(i, Day(began))]_vars
  BY <1>1
<1> QED BY <1>2, <1>3, PTL DEF Spec, GreenMeansCovered

----------------------------------------------------------------------------
(***************************************************************************)
(* When a lineup is set.  As long as lateness and two workflow runs do not *)
(* reach past midnight, a workflow run stays on the day of its cron, so    *)
(* that a lineup is only ever set, by the step or by catch_up, on a day    *)
(* that has a lineup line and after its time.                              *)
(***************************************************************************)
\* The last line of a day is due at half past two in the afternoon.
LastCron(day) == 48 * day + 29 + MaxLate

EndOnTheirDay == 29 + MaxLate + 2 * TimeLimit < 48

Scheduled(j, t) ==
  \E i \in Lines : i \in OnDay(Day(t)) /\ Job(i) = j /\ DueAt(i, Day(t)) <= t

OnTheirDay ==
  /\ waiting # NoJob =>
       /\ Scheduled(waiting, now)
       /\ now <= LastCron(Day(now)) + TimeLimit
       /\ pc # "idle" => started <= LastCron(Day(now))
  /\ pc # "idle" =>
       /\ started <= now /\ now <= started + TimeLimit
       /\ Day(started) = Day(now)
       /\ started <= LastCron(Day(now)) + TimeLimit
  /\ pc = "job" => Scheduled(job, now)
  /\ pc = "ride" => job = "reminders"
  /\ pc = "recover" => \A i \in missing : i \in OnDay(Day(now)) /\ DueAt(i, Day(now)) <= now

LineupsOnTheirDay ==
  \A m \in mailed : m.fact = Says("lineup") =>
    m.at <= now /\ \E i \in Lines : i \in OnDay(Day(m.at)) /\ Job(i) = "lineup"

(* A time is on a day when it lies between its midnights.                   *)
LEMMA DayIs ==
  ASSUME NEW t \in Nat
  PROVE  /\ Day(t) \in Nat /\ 48 * Day(t) <= t /\ t < 48 * Day(t) + 48
         /\ \A d \in Nat : 48 * d <= t /\ t < 48 * d + 48 => Day(t) = d
BY DEF Day

(* The lines and their times of the day.                                    *)
LEMMA LineTimes ==
  ASSUME NEW i \in Lines, NEW d \in Nat
  PROVE  /\ DueAt(i, d) \in Nat /\ 48 * d <= DueAt(i, d) /\ DueAt(i, d) <= 48 * d + 29
         /\ Job(i) = "lineup" => \/ i = 3 /\ SCHEDULE[i].days = {4} /\ DueAt(i, d) = 48 * d + 28
                                 \/ i = 4 /\ SCHEDULE[i].days = {0} /\ DueAt(i, d) = 48 * d + 29
<1>1. i = 1 \/ i = 2 \/ i = 3 \/ i = 4 \/ i = 5 \/ i = 6 \/ i = 7
  BY DEF Lines
<1>2. SCHEDULE[i].at \in 0..29
  BY <1>1 DEF SCHEDULE
<1>3. Job(i) = "lineup" => \/ i = 3 /\ SCHEDULE[i].days = {4} /\ SCHEDULE[i].at = 28
                           \/ i = 4 /\ SCHEDULE[i].days = {0} /\ SCHEDULE[i].at = 29
  BY <1>1 DEF Job, SCHEDULE
<1> QED BY <1>2, <1>3 DEF DueAt

(* Two lineup lines of different days are at least three days apart, and    *)
(* the second of them is at least an hour into it.                          *)
LEMMA LineupsApart ==
  ASSUME NEW i \in Lines, NEW k \in Lines, Job(i) = "lineup", Job(k) = "lineup",
         NEW d \in Nat, NEW e \in Nat, d < e,
         i \in OnDay(d), k \in OnDay(e)
  PROVE  DueAt(i, d) + 144 < DueAt(k, e)
<1>1. /\ (i = 3 /\ Weekday(d) = 4 /\ DueAt(i, d) = 48 * d + 28)
         \/ (i = 4 /\ Weekday(d) = 0 /\ DueAt(i, d) = 48 * d + 29)
      /\ (k = 3 /\ Weekday(e) = 4 /\ DueAt(k, e) = 48 * e + 28)
         \/ (k = 4 /\ Weekday(e) = 0 /\ DueAt(k, e) = 48 * e + 29)
  BY LineTimes DEF OnDay
<1>2. PICK a \in Nat : a = FirstDay + d
  BY ScheduleAssumption DEF ScheduleAssumption, Weekdays
<1>3. PICK b \in Nat : b = FirstDay + e
  BY ScheduleAssumption DEF ScheduleAssumption, Weekdays
<1>4. Weekday(d) = a % 7 /\ Weekday(e) = b % 7 /\ a < b /\ b - a = e - d
  BY <1>2, <1>3, ScheduleAssumption DEF Weekday, ScheduleAssumption, Weekdays
<1>5. CASE Weekday(d) = 4 /\ Weekday(e) = 0
  <2>1. b - a >= 3
    BY <1>4, <1>5
  <2> QED BY <1>1, <1>4, <1>5, <2>1
<1>6. CASE ~(Weekday(d) = 4 /\ Weekday(e) = 0)
  <2>1. b - a >= 4
    BY <1>1, <1>4, <1>6
  <2> QED BY <1>1, <1>4, <2>1
<1> QED BY <1>5, <1>6

(* A notice of catch_up is not a lineup.                                    *)
LEMMA NoticeIsNoLineup == Notice # Says("lineup")
<1>1. Notice.job = "catchup" /\ Says("lineup").job = "lineup"
  BY DEF Notice, Says
<1> QED BY <1>1

(* A line whose time has come stays so to the end of the day.               *)
LEMMA StaysScheduled ==
  ASSUME NEW j, NEW t \in Nat, NEW u \in Nat, t <= u, Day(u) = Day(t), Scheduled(j, t)
  PROVE  Scheduled(j, u)
<1>1. PICK i \in Lines : i \in OnDay(Day(t)) /\ Job(i) = j /\ DueAt(i, Day(t)) <= t
  BY DEF Scheduled
<1>2. DueAt(i, Day(t)) <= u
  <2>1. DueAt(i, Day(t)) \in Nat
    BY DayIs, LineTimes
  <2> QED BY <1>1, <2>1
<1> QED BY <1>1, <1>2 DEF Scheduled

(* The times of a state are times.                                          *)
LEMMA TimesAreTimes ==
  ASSUME TypeOK
  PROVE  /\ now \in Nat /\ started \in Nat /\ MaxLate \in Nat /\ TimeLimit \in Nat
         /\ \A m \in mailed : m.at \in Nat
<1>1. Horizon \in Nat /\ MaxLate \in Nat /\ TimeLimit \in Nat
  BY ScheduleAssumption DEF ScheduleAssumption
<1>2. now \in 0..Horizon /\ started \in 0..Horizon /\ mailed \subseteq [fact: Facts, at: 0..Horizon]
  BY DEF TypeOK
<1>3. \A m \in mailed : m.at \in 0..Horizon
  BY <1>2
<1> QED BY <1>1, <1>2, <1>3

(* A step at which no time passes and nobody is queued.                     *)
LEMMA StaysOnItsDay ==
  ASSUME OnTheirDay, UNCHANGED <<now, waiting>>,
         pc' # "idle" => pc # "idle" /\ started' = started,
         pc' = "job" => pc = "job" /\ job' = job,
         pc' = "ride" => job' = "reminders",
         pc' = "recover" => \A i \in missing' : i \in OnDay(Day(now)) /\ DueAt(i, Day(now)) <= now
  PROVE  OnTheirDay'
<1>1. /\ waiting' # NoJob => Scheduled(waiting, now)
      /\ pc' = "job" => Scheduled(job', now)
  BY DEF OnTheirDay
<1>2. /\ Scheduled(waiting, now)' <=> Scheduled(waiting, now)
      /\ Scheduled(job, now)' <=> Scheduled(job', now)
      /\ LastCron(Day(now))' = LastCron(Day(now)) /\ Day(now)' = Day(now)
      /\ \A i : OnDay(Day(now))' = OnDay(Day(now)) /\ DueAt(i, Day(now))' = DueAt(i, Day(now))
  BY DEF Scheduled, LastCron, OnDay, DueAt, Day, Weekday
<1>3. (waiting # NoJob =>
       /\ Scheduled(waiting, now)
       /\ now <= LastCron(Day(now)) + TimeLimit
       /\ pc # "idle" => started <= LastCron(Day(now)))'
  BY <1>1, <1>2 DEF OnTheirDay
<1>4. (pc # "idle" =>
       /\ started <= now /\ now <= started + TimeLimit
       /\ Day(started) = Day(now)
       /\ started <= LastCron(Day(now)) + TimeLimit)'
  BY <1>2 DEF OnTheirDay
<1>5. (pc = "recover" => \A i \in missing : i \in OnDay(Day(now)) /\ DueAt(i, Day(now)) <= now)'
  BY <1>2
<1> QED BY <1>1, <1>2, <1>3, <1>4, <1>5 DEF OnTheirDay

LEMMA OnTheirDayInductive ==
  ASSUME TypeOK, EndOnTheirDay, OnTheirDay, CatchUpInv, [Next]_vars
  PROVE  OnTheirDay'
<1>0. now \in Nat /\ started \in Nat /\ MaxLate \in Nat /\ TimeLimit \in Nat
  BY TimesAreTimes
<1>1. CASE Tick
  <2>1. PICK t \in Nat : /\ now < t /\ now' = t
                         /\ IF pc = "idle" THEN waiting = NoJob ELSE t - started <= TimeLimit
    BY <1>0, <1>1 DEF Tick
  <2>2. UNCHANGED <<waiting, pc, started, job, missing>>
    BY <1>1 DEF Tick, step, catching
  <2>3. CASE pc = "idle"
    BY <2>1, <2>2, <2>3 DEF OnTheirDay
  <2>4. CASE pc # "idle"
    <3>1. PICK d : d = Day(now)
      OBVIOUS
    <3>2. d \in Nat /\ 48 * d <= now
      BY <1>0, <3>1, DayIs
    <3>3. started <= 48 * d + 29 + MaxLate + TimeLimit /\ Day(started) = d
      BY <2>4, <3>1 DEF OnTheirDay, LastCron
    <3>4. t <= started + TimeLimit /\ started <= t
      BY <1>0, <2>1, <2>4 DEF OnTheirDay
    <3>5. t < 48 * d + 48 /\ 48 * d <= t
      BY <1>0, <2>1, <3>2, <3>3, <3>4 DEF EndOnTheirDay
    <3>6. Day(t) = d
      BY <3>2, <3>5, DayIs
    <3>7. ASSUME waiting # NoJob
          PROVE  Scheduled(waiting, t) /\ started <= LastCron(d) /\ t <= LastCron(d) + TimeLimit
      <4>1. Scheduled(waiting, now) /\ started <= LastCron(d)
        BY <2>4, <3>1, <3>7 DEF OnTheirDay
      <4>2. Scheduled(waiting, t)
        BY <1>0, <2>1, <3>1, <3>6, <4>1, StaysScheduled
      <4>3. LastCron(d) \in Int
        BY <1>0, <3>2 DEF LastCron
      <4>4. t <= LastCron(d) + TimeLimit
        BY <1>0, <2>1, <3>4, <4>1, <4>3
      <4> QED BY <4>1, <4>2, <4>4
    <3>8. pc = "job" => Scheduled(job, t)
      <4>1. ASSUME pc = "job"
            PROVE  Scheduled(job, t)
        <5>1. Scheduled(job, now)
          BY <4>1 DEF OnTheirDay
        <5> QED BY <1>0, <2>1, <3>1, <3>6, <5>1, StaysScheduled
      <4> QED BY <4>1
    <3>9. ASSUME pc = "recover", NEW i \in missing
          PROVE  i \in OnDay(d) /\ DueAt(i, d) <= t
      <4>1. i \in OnDay(d) /\ DueAt(i, d) <= now
        BY <3>1, <3>9 DEF OnTheirDay
      <4>2. DueAt(i, d) \in Nat
        BY <3>2, <4>1, LineTimes DEF OnDay
      <4> QED BY <1>0, <2>1, <4>1, <4>2
    <3>10. started <= LastCron(d) + TimeLimit
      BY <3>3 DEF LastCron
    <3>11. Day(now') = d /\ now' = t
      BY <2>1, <3>6
    <3>12. /\ Scheduled(waiting, now)' <=> Scheduled(waiting, t)
           /\ Scheduled(job, now)' <=> Scheduled(job, t)
      BY <2>1, <2>2 DEF Scheduled, OnDay, DueAt, Day, Weekday
    <3>13. pc = "ride" => job = "reminders"
      BY DEF OnTheirDay
    <3> QED BY <2>2, <3>3, <3>4, <3>7, <3>8, <3>9, <3>10, <3>11, <3>12, <3>13 DEF OnTheirDay
  <2> QED BY <2>3, <2>4
<1>2. ASSUME NEW day \in 0..Day(Horizon), NEW i \in Crons, Deliver(day, i)
      PROVE  OnTheirDay'
  <2>1. /\ i \in OnDay(day) /\ DueAt(i, day) <= now /\ now <= DueAt(i, day) + MaxLate
        /\ waiting' = Job(i) /\ UNCHANGED <<now, pc, started, job, missing>>
    BY <1>2 DEF Deliver, CanBeFired, JobForCron, step, catching
  <2>2. i \in Lines /\ day \in Nat
    BY <2>1, ScheduleAssumption, DayIs DEF OnDay, ScheduleAssumption
  <2>3. /\ DueAt(i, day) \in Nat /\ 48 * day <= DueAt(i, day) /\ DueAt(i, day) <= 48 * day + 29
    BY <2>2, LineTimes
  <2>4. 48 * day <= now /\ now <= 48 * day + 29 + MaxLate /\ now < 48 * day + 48
    BY <1>0, <2>1, <2>2, <2>3 DEF EndOnTheirDay
  <2>5. Day(now) = day
    BY <1>0, <2>2, <2>4, DayIs
  <2>6. Scheduled(waiting', now)
    BY <2>1, <2>2, <2>5 DEF Scheduled
  <2>7. now <= LastCron(day) /\ LastCron(day) \in Nat
    BY <1>0, <2>2, <2>4 DEF LastCron
  <2>8. now <= LastCron(day) + TimeLimit /\ (pc # "idle" => started <= LastCron(day))
    BY <1>0, <2>7 DEF OnTheirDay
  <2>9. /\ Scheduled(waiting, now)' <=> Scheduled(waiting', now)
        /\ Scheduled(job, now)' <=> Scheduled(job, now)
        /\ LastCron(Day(now))' = LastCron(day) /\ Day(now)' = day
    BY <2>1, <2>5 DEF Scheduled, LastCron, OnDay, DueAt, Day, Weekday
  <2> QED BY <2>1, <2>5, <2>6, <2>8, <2>9 DEF OnTheirDay
<1>3. CASE Start \/ StartFails
  <2>1. /\ pc = "idle" /\ waiting # NoJob /\ waiting' = NoJob /\ started' = now /\ UNCHANGED now
        /\ ((pc' = "job" /\ job' = waiting) \/ pc' = "catchup")
    BY <1>3 DEF Start, StartFails
  <2>2. Scheduled(waiting, now) /\ now <= LastCron(Day(now)) + TimeLimit
    BY <2>1 DEF OnTheirDay
  <2>3. /\ Scheduled(job, now)' <=> Scheduled(job', now)
        /\ LastCron(Day(now))' = LastCron(Day(now)) /\ Day(now)' = Day(now)
        /\ Day(started)' = Day(now)
    BY <2>1 DEF Scheduled, LastCron, OnDay, DueAt, Day, Weekday
  <2>4. now <= now + TimeLimit
    BY <1>0
  <2>5. pc' = "job" => Scheduled(job', now)
    BY <2>1, <2>2
  <2>6. pc' # "idle" /\ pc' # "ride" /\ pc' # "recover"
    BY <2>1
  <2>7. started' <= now' /\ now' <= started' + TimeLimit /\ Day(started)' = Day(now)'
    BY <1>0, <2>1, <2>3, <2>4
  <2>8. started' <= LastCron(Day(now))' + TimeLimit
    BY <2>1, <2>2, <2>3
  <2>9. (waiting # NoJob =>
         /\ Scheduled(waiting, now)
         /\ now <= LastCron(Day(now)) + TimeLimit
         /\ pc # "idle" => started <= LastCron(Day(now)))'
    BY <2>1
  <2>10. (pc = "job" => Scheduled(job, now))'
    BY <2>3, <2>5
  <2> QED BY <2>6, <2>7, <2>8, <2>9, <2>10 DEF OnTheirDay
<1>4. CASE RunQuiet \/ RunTells \/ RunFails
  <2>1. UNCHANGED <<now, waiting, pc, started, job, missing>>
    BY <1>4 DEF RunQuiet, RunTells, RunFails, github, catching
  <2> QED BY <2>1, StaysOnItsDay DEF OnTheirDay
<1>5. CASE FinishStep \/ FinishStepUnrecorded
  <2>1. UNCHANGED <<now, waiting, started>> /\ pc # "idle" /\ AfterStep
    BY <1>5 DEF FinishStep, FinishStepUnrecorded, github
  <2>2. (pc' = "ride" /\ job' = "reminders") \/ pc' = "catchup"
    BY <2>1 DEF AfterStep
  <2> QED BY <2>1, <2>2, StaysOnItsDay
<1>6. CASE CatchUp
  <2>1. /\ UNCHANGED <<now, waiting, started>> /\ pc # "idle" /\ pc' = "recover"
        /\ missing' = Overdue
    BY <1>6 DEF CatchUp, github
  <2>2. \A i \in missing' : i \in OnDay(Day(now)) /\ DueAt(i, Day(now)) <= now
    BY <2>1 DEF Overdue, DueOn
  <2> QED BY <2>1, <2>2, StaysOnItsDay
<1>7. CASE Recover \/ Recovered
  <2>1. UNCHANGED <<now, waiting, started, pc>> /\ pc = "recover" /\ missing' \subseteq missing
    BY <1>7 DEF Recover, Recovered, github, catching
  <2>2. \A i \in missing' : i \in OnDay(Day(now)) /\ DueAt(i, Day(now)) <= now
    BY <2>1 DEF OnTheirDay
  <2> QED BY <2>1, <2>2, StaysOnItsDay
<1>8. CASE RecoveryRaises \/ CatchUpEnds \/ CatchUpReports \/ CatchUpReportFails \/ Killed
  <2>1. UNCHANGED <<now, waiting>> /\ pc' = "idle"
    BY <1>8 DEF RecoveryRaises, CatchUpEnds, CatchUpReports, CatchUpReportFails, Killed,
       End, github
  <2> QED BY <2>1, StaysOnItsDay
<1>9. CASE (\E j \in Stoppable : Interrupted(j)) \/ UNCHANGED vars
  <2>1. UNCHANGED <<now, waiting, pc, started, job, missing>>
    BY <1>9 DEF Interrupted, vars, github, step, catching
  <2> QED BY <2>1, StaysOnItsDay DEF OnTheirDay
<1> QED BY <1>1, <1>2, <1>3, <1>4, <1>5, <1>6, <1>7, <1>8, <1>9 DEF Next

(* Whoever sets a lineup does so on a day that has one, after its time.     *)
LEMMA LineupIsScheduled ==
  ASSUME TypeOK, OnTheirDay, CatchUpInv, Working, job = "lineup"
  PROVE  Scheduled("lineup", now)
<1>1. CASE pc = "job"
  BY <1>1 DEF OnTheirDay
<1>2. CASE pc = "ride"
  BY <1>2 DEF OnTheirDay
<1>3. CASE pc = "recover"
  <2>1. PICK i \in Lines : InHand(i)
    BY <1>3 DEF CatchUpInv, NoJob
  <2>2. i \in missing /\ Job(i) = "lineup"
    BY <2>1 DEF InHand
  <2> QED BY <1>3, <2>1, <2>2 DEF OnTheirDay, Scheduled
<1> QED BY <1>1, <1>2, <1>3 DEF Working

LEMMA LineupsInductive ==
  ASSUME TypeOK, OnTheirDay, CatchUpInv, LineupsOnTheirDay, [Next]_vars
  PROVE  LineupsOnTheirDay'
<1>0. now \in Nat /\ \A m \in mailed : m.at \in Nat
  BY TimesAreTimes
<1> DEFINE Fine(m, t) == m.at <= t /\ \E i \in Lines : i \in OnDay(Day(m.at)) /\ Job(i) = "lineup"
<1>1. now' \in Nat /\ now <= now'
  <2>1. now' = now \/ Tick
    BY DEF Next, vars, Deliver, Start, StartFails, RunQuiet, RunTells, RunFails, FinishStep,
       FinishStepUnrecorded, Interrupted, CatchUp, Recover, Recovered, RecoveryRaises,
       CatchUpEnds, CatchUpReports, CatchUpReportFails, Killed
  <2> QED BY <1>0, <2>1 DEF Tick
<1>2. ASSUME NEW m \in mailed', m.fact = Says("lineup"), m \notin mailed
      PROVE  m.at = now /\ Scheduled("lineup", now) /\ now' = now
  <2>1. RunTells \/ CatchUpReports
    <3>1. CASE Tick \/ (\E day \in 0..Day(Horizon), i \in Crons : Deliver(day, i))
               \/ Start \/ StartFails \/ RunQuiet \/ RunFails
      BY <1>2, <3>1 DEF Tick, Deliver, Start, StartFails, RunQuiet, RunFails
    <3>2. CASE FinishStep \/ FinishStepUnrecorded \/ CatchUp \/ Recover \/ Recovered
               \/ (\E j \in Stoppable : Interrupted(j))
      BY <1>2, <3>2 DEF FinishStep, FinishStepUnrecorded, CatchUp, Recover, Recovered, Interrupted
    <3>3. CASE RecoveryRaises \/ CatchUpEnds \/ CatchUpReportFails \/ Killed \/ UNCHANGED vars
      BY <1>2, <3>3 DEF RecoveryRaises, CatchUpEnds, CatchUpReportFails, Killed, vars
    <3> QED BY <3>1, <3>2, <3>3 DEF Next
  <2>2. CASE RunTells
    <3>1. Working /\ mailed' \subseteq mailed \cup {[fact |-> Says(job), at |-> now]} /\ now' = now
      BY <2>2 DEF RunTells
    <3>2. m.fact = Says(job) /\ m.at = now
      BY <1>2, <3>1
    <3>3. job = "lineup"
      BY <1>2, <3>2 DEF Says
    <3> QED BY <3>1, <3>2, <3>3, LineupIsScheduled
  <2>3. CASE CatchUpReports
    <3>1. mailed' \subseteq mailed \cup {[fact |-> Notice, at |-> now]}
      BY <2>3 DEF CatchUpReports
    <3>2. m.fact = Notice
      BY <1>2, <3>1
    <3> QED BY <1>2, <3>2, NoticeIsNoLineup
  <2> QED BY <2>1, <2>2, <2>3
<1>3. ASSUME NEW m \in mailed', m.fact = Says("lineup")
      PROVE  Fine(m, now')
  <2>1. CASE m \in mailed
    <3>1. Fine(m, now)
      BY <1>3, <2>1 DEF LineupsOnTheirDay
    <3>2. m.at <= now'
      BY <1>0, <1>1, <2>1, <3>1
    <3> QED BY <3>1, <3>2
  <2>2. CASE m \notin mailed
    <3>1. m.at = now /\ Scheduled("lineup", now) /\ now' = now
      BY <1>2, <1>3, <2>2
    <3> QED BY <1>0, <3>1 DEF Scheduled
  <2> QED BY <2>1, <2>2
<1>4. Says("lineup")' = Says("lineup") /\ \A m : Fine(m, now)' <=> Fine(m, now')
  BY DEF Says, OnDay, Day, Weekday
<1> QED BY <1>3, <1>4 DEF LineupsOnTheirDay

(* The comment on the Sunday cron, whatever is dropped, fails, is killed or *)
(* is caught up: as long as a day's runs end on their day and the window of *)
(* the duplicates is three days (notifications.dedup_window_hours: 72), a   *)
(* lineup is silenced by another of its day, or by one that went out later  *)
(* than its cron says.                                                      *)
THEOREM OnlyLateLineupsSilence ==
  ASSUME EndOnTheirDay, Window <= 3 * 48
  PROVE  Spec => OnlyLateMailsSilence
<1> DEFINE Silenced ==
             outcome' = "suppressed" /\ outcome # "suppressed" /\ job = "lineup" =>
               \E m \in mailed : /\ m.fact = Says("lineup")
                                 /\ m.at > now - Window
                                 /\ Day(m.at) = Day(now) \/ ~SentOnTime(m)
<1>1. Init => OnTheirDay /\ LineupsOnTheirDay
  BY DEF Init, OnTheirDay, LineupsOnTheirDay
<1>2. TypeOK /\ CatchUpInv /\ OnTheirDay /\ LineupsOnTheirDay /\ [Next]_vars =>
        OnTheirDay' /\ LineupsOnTheirDay'
  BY OnTheirDayInductive, LineupsInductive
<1>3. TypeOK /\ CatchUpInv /\ OnTheirDay /\ LineupsOnTheirDay /\ [Next]_vars => [Silenced]_vars
  <2> SUFFICES ASSUME TypeOK, CatchUpInv, OnTheirDay, LineupsOnTheirDay, Next,
                      outcome' = "suppressed", outcome # "suppressed", job = "lineup"
               PROVE  \E m \in mailed : /\ m.fact = Says("lineup")
                                        /\ m.at > now - Window
                                        /\ Day(m.at) = Day(now) \/ ~SentOnTime(m)
    OBVIOUS
  <2>1. RunTells
    <3>1. CASE Tick \/ (\E day \in 0..Day(Horizon), i \in Crons : Deliver(day, i))
               \/ Start \/ StartFails \/ RunQuiet \/ RunFails
      BY <3>1 DEF Tick, Deliver, Start, StartFails, RunQuiet, RunFails, step
    <3>2. CASE FinishStep \/ FinishStepUnrecorded \/ CatchUp \/ Recover \/ Recovered
               \/ (\E j \in Stoppable : Interrupted(j))
      BY <3>2 DEF FinishStep, FinishStepUnrecorded, CatchUp, Recover, Recovered, Interrupted,
         NoJob, step
    <3>3. CASE RecoveryRaises \/ CatchUpEnds \/ CatchUpReports \/ CatchUpReportFails \/ Killed
      BY <3>3 DEF RecoveryRaises, CatchUpEnds, CatchUpReports, CatchUpReportFails, Killed,
         End, NoJob
    <3> QED BY <3>1, <3>2, <3>3 DEF Next
  <2>2. Working /\ AlreadySent(Says("lineup"))
    BY <2>1 DEF RunTells
  <2>3. PICK m \in mailed : m.fact = Says("lineup") /\ m.at > now - Window
    BY <2>2 DEF AlreadySent
  <2>4. now \in Nat /\ m.at \in Nat /\ Window \in Nat
    BY TimesAreTimes, ScheduleAssumption DEF ScheduleAssumption
  <2>5. ASSUME Day(m.at) # Day(now), SentOnTime(m)
        PROVE  FALSE
    <3>1. PICK i \in Lines : i \in OnDay(Day(m.at)) /\ Job(i) = "lineup"
      BY <2>3 DEF LineupsOnTheirDay
    <3>2. PICK k \in Lines : k \in OnDay(Day(now)) /\ Job(k) = "lineup" /\ DueAt(k, Day(now)) <= now
      BY <2>2, LineupIsScheduled DEF Scheduled
    <3>3. PICK d : d = Day(m.at)
      OBVIOUS
    <3>4. PICK e : e = Day(now)
      OBVIOUS
    <3>5. d \in Nat /\ e \in Nat /\ 48 * d <= m.at /\ now < 48 * e + 48
      BY <2>4, <3>3, <3>4, DayIs
    <3>6. m.at <= now
      BY <2>3 DEF LineupsOnTheirDay
    <3>7. d < e
      <4>1. d # e
        BY <2>5, <3>3, <3>4
      <4>2. PICK a \in Nat : a = m.at
        BY <2>4
      <4>3. 48 * d <= a /\ a <= now
        BY <3>5, <3>6, <4>2
      <4> QED BY <2>4, <3>5, <4>1, <4>3
    <3>8. DueAt(i, d) + 144 < DueAt(k, e)
      BY <3>1, <3>2, <3>3, <3>4, <3>5, <3>7, LineupsApart
    <3>9. m.at <= DueAt(i, d)
      BY <2>5, <3>1, <3>3 DEF SentOnTime
    <3>10. DueAt(i, d) \in Nat /\ DueAt(k, e) \in Nat /\ DueAt(k, e) <= now
      BY <3>2, <3>4, <3>5, LineTimes
    <3> QED BY <2>3, <2>4, <3>8, <3>9, <3>10
  <2> QED BY <2>3, <2>5
<1>4. Spec => [](TypeOK /\ CatchUpInv)
  BY TypeInit, TypeInductive, CatchUpInit, CatchUpInductive, PTL DEF Spec
<1> QED BY <1>1, <1>2, <1>3, <1>4, PTL DEF Spec, OnlyLateMailsSilence
=============================================================================
