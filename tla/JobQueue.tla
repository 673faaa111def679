------------------------------ MODULE JobQueue ------------------------------
(***************************************************************************)
(* The jobs of one engine with a store: the schedules of timer start       *)
(* events, which belong to a deployment, and the timers of the instances   *)
(* they start.  execute_due_jobs runs a round of due jobs under the engine *)
(* lock; a command commits in more than one transaction, and the process   *)
(* may be killed between any two.                                          *)
(*                                                                         *)
(* A timer is a period in whole seconds (format_iso cuts the rest) and a   *)
(* count, 0 for R/...; a date or a duration is a cycle that runs once; a   *)
(* cron expression fires at the multiples of its period.  A job is known   *)
(* by its key, deployment, node and instance.  "nth", "fired" and          *)
(* "halfway" are history.                                                  *)
(***************************************************************************)
EXTENDS Integers, FiniteSets

CONSTANTS
  Keys,            \* process keys
  Models,          \* what may be deployed: its start events and their timers
  Waits,           \* per start event: the timers its instances wait for
  None,
  MaxRetries, RetryDelay,
  MaxDeployments, MaxFaults, LastMoment  \* bounds; failures, crashes and deletions are faults

StartEvent == [kind: {"none", "cycle", "cron"}, period: Nat \ {0}, count: Nat, valid: BOOLEAN]

QueueAssumption ==
  /\ {RetryDelay, MaxDeployments, MaxFaults, LastMoment} \subseteq Nat
  /\ MaxRetries \in Nat \ {0}
  /\ \A m \in Models : DOMAIN m \subseteq DOMAIN Waits /\ \A s \in DOMAIN m : m[s] \in StartEvent

ASSUME QueueAssumption

VARIABLES
  now,
  defs,        \* _definitions: per key the model in force
  jobs,        \* _jobs
  round,       \* the due jobs execute_due_jobs has yet to run
  step,        \* the command between two of its commits, if there is one
  sdefs, rows, \* ACT_RE_PROCDEF, latest version, and ACT_RU_JOB
  saved,       \* the instances in the store
  instances,   \* how many were created
  fired,       \* the planned moments whose instance was started
  halfway,     \* the keys whose last deployment did not go through
  deployments, faults

vars == <<now, defs, jobs, round, step, sdefs, rows, saved, instances, fired, halfway,
          deployments, faults>>

Undeployed == [nth |-> 0, model |-> <<>>]
NoJob == [key |-> None, nth |-> 0, node |-> None, inst |-> 0, due |-> 0, retries |-> 0,
          left |-> 0, period |-> 0, cron |-> FALSE]
Rest == [at |-> "rest", key |-> None, job |-> NoJob]

\* The start events of m that have a timer.
Timed(m) == {s \in DOMAIN m : m[s].kind # "none"}

NextOfCron(period) == period * (now \div period + 1)

NewSchedule(k, nth, s, timer) ==
  [key |-> k, nth |-> nth, node |-> s, inst |-> 0,
   due |-> IF timer.kind = "cron" THEN NextOfCron(timer.period) ELSE now + timer.period,
   retries |-> MaxRetries, left |-> timer.count, period |-> timer.period,
   cron |-> timer.kind = "cron"]

\* What instance n, started by job j, registers before it comes to rest.
NewWaits(j, n) ==
  {[key |-> j.key, nth |-> j.nth, node |-> w, inst |-> n, due |-> now + 1,
    retries |-> MaxRetries, left |-> 1, period |-> j.period, cron |-> FALSE] : w \in Waits[j.node]}

Schedules(q) == {j \in q : j.inst = 0}
Of(q, n) == {j \in q : j.inst = n}
Slot(j) == <<j.key, j.nth, j.node, j.due>>

\* Faulty variant of DueJobs: a job that failed is not taken again.
DueUnlessFailed == {j \in jobs : j.due <= now /\ j.retries = MaxRetries}

DueJobs == {j \in jobs : j.due <= now /\ j.retries > 0}

\* A failure costs a retry and puts the job off; the last one makes it a dead letter.
Degraded(j) ==
  [j EXCEPT !.retries = @ - 1, !.due = IF j.retries > 1 THEN now + RetryDelay ELSE @]

\* The next turn of a cycle is planned from the last, after the last turn there is
\* none; a cron goes on from now.
Rescheduled(j) ==
  IF j.cron THEN {[j EXCEPT !.due = NextOfCron(j.period)]}
  ELSE IF j.left = 1 THEN {}
  ELSE {[j EXCEPT !.due = @ + j.period, !.left = IF @ = 0 THEN 0 ELSE @ - 1]}

\* save_timer_start_jobs: the rows of all schedules are those in memory.
Synced(q) == {r \in rows : r.inst # 0} \cup Schedules(q)

\* save_proc_inst: the rows of instance n are those in memory.
SavedInstance(q, n) == (rows \ Of(rows, n)) \cup Of(q, n)

Init ==
  /\ now = 0
  /\ defs = [k \in Keys |-> Undeployed]
  /\ sdefs = defs
  /\ jobs = {} /\ round = {} /\ rows = {}
  /\ saved = {} /\ fired = {} /\ halfway = {}
  /\ step = Rest
  /\ instances = 0 /\ deployments = 0 /\ faults = 0

Free == step = Rest /\ round = {}

-----------------------------------------------------------------------------
(* deploy: the definition and its schedules change in memory, the          *)
(* deployment is saved, then the schedules are.                            *)

\* Faulty variant of WithoutSchedules: the schedules of the old version stay.
KeepSchedules(k) == jobs

WithoutSchedules(k) == {j \in jobs : ~(j.inst = 0 /\ j.key = k)}

InForce(k, m) == defs' = [defs EXCEPT ![k] = [nth |-> deployments + 1, model |-> m]]

Registered(k, m, starts) ==
  WithoutSchedules(k) \cup {NewSchedule(k, deployments + 1, s, m[s]) : s \in starts}

Deploy(k, m) ==
  /\ Free
  /\ deployments < MaxDeployments
  /\ \A s \in Timed(m) : m[s].valid
  /\ InForce(k, m)
  /\ jobs' = Registered(k, m, Timed(m))
  /\ step' = [at |-> "deployed", key |-> k, job |-> NoJob]
  /\ deployments' = deployments + 1
  /\ UNCHANGED <<now, round, sdefs, rows, saved, instances, fired, halfway, faults>>

\* The date or the cycle of a start event cannot be read: deploy raises on the
\* way, after the old schedules are gone, and saves nothing.
DeployRaises(k, m) ==
  /\ Free
  /\ deployments < MaxDeployments
  /\ \E s \in Timed(m) : ~m[s].valid
  /\ InForce(k, m)
  /\ \E done \in SUBSET {s \in Timed(m) : m[s].valid} : jobs' = Registered(k, m, done)
  /\ halfway' = halfway \cup {k}
  /\ deployments' = deployments + 1
  /\ UNCHANGED <<now, round, step, sdefs, rows, saved, instances, fired, faults>>

SaveDeployment ==
  /\ step.at = "deployed"
  /\ sdefs' = [sdefs EXCEPT ![step.key] = defs[step.key]]
  /\ step' = [at |-> "saved", key |-> step.key, job |-> NoJob]
  /\ UNCHANGED <<now, defs, jobs, round, rows, saved, instances, fired, halfway,
                 deployments, faults>>

SyncSchedules ==
  /\ step.at = "saved"
  /\ rows' = Synced(jobs)
  /\ halfway' = halfway \ {step.key}
  /\ step' = Rest
  /\ UNCHANGED <<now, defs, jobs, round, sdefs, saved, instances, fired, deployments, faults>>

-----------------------------------------------------------------------------
(* execute_due_jobs: the jobs due at the start, by due date.               *)

Poll ==
  /\ Free
  /\ DueJobs # {}
  /\ round' = DueJobs
  /\ UNCHANGED <<now, defs, jobs, step, sdefs, rows, saved, instances, fired, halfway,
                 deployments, faults>>

Turn(j) ==
  /\ step = Rest
  /\ j \in round
  /\ \A k \in round : j.due <= k.due
  /\ round' = round \ {j}

\* A job that ran earlier in the round has removed this one.
SkipJob(j) ==
  /\ Turn(j)
  /\ j \notin jobs
  /\ UNCHANGED <<now, defs, jobs, step, sdefs, rows, saved, instances, fired, halfway,
                 deployments, faults>>

\* A schedule starts an instance at its node, which may have lost its timer in the
\* version in force; the instance is saved with its timers before the schedule is.
FireTimerStart(j) ==
  /\ Turn(j)
  /\ j \in Schedules(jobs)
  /\ j.node \in DOMAIN defs[j.key].model
  /\ instances' = instances + 1
  /\ LET waits == NewWaits(j, instances + 1)
     IN  jobs' = jobs \cup waits /\ rows' = rows \cup waits
  /\ saved' = saved \cup {instances + 1}
  /\ fired' = fired \cup {Slot(j)}
  /\ step' = [at |-> "started", key |-> j.key, job |-> j]
  /\ UNCHANGED <<now, defs, sdefs, halfway, deployments, faults>>

\* Faulty variant of RescheduleJob: the new plan is not saved.
RescheduleUnsaved ==
  /\ step.at = "started"
  /\ jobs' = (jobs \ {step.job}) \cup Rescheduled(step.job)
  /\ step' = Rest
  /\ UNCHANGED <<now, defs, round, sdefs, rows, saved, instances, fired, halfway,
                 deployments, faults>>

RescheduleJob ==
  /\ step.at = "started"
  /\ jobs' = (jobs \ {step.job}) \cup Rescheduled(step.job)
  /\ rows' = Synced(jobs')
  /\ step' = Rest
  /\ UNCHANGED <<now, defs, round, sdefs, saved, instances, fired, halfway,
                 deployments, faults>>

\* The start raises in the pump: the instance stays behind, unsaved, with some of
\* its timers.
FailTimerStart(j) ==
  /\ Turn(j)
  /\ faults < MaxFaults
  /\ faults' = faults + 1
  /\ j \in Schedules(jobs)
  /\ j.node \in DOMAIN defs[j.key].model
  /\ instances' = instances + 1
  /\ \E waits \in SUBSET NewWaits(j, instances + 1) :
       jobs' = (jobs \ {j}) \cup {Degraded(j)} \cup waits
  /\ rows' = Synced(jobs')
  /\ UNCHANGED <<now, defs, step, sdefs, saved, fired, halfway, deployments>>

\* The version in force has no such node.
MissTimerStart(j) ==
  /\ Turn(j)
  /\ j \in Schedules(jobs)
  /\ j.node \notin DOMAIN defs[j.key].model
  /\ jobs' = (jobs \ {j}) \cup {Degraded(j)}
  /\ rows' = Synced(jobs')
  /\ UNCHANGED <<now, defs, step, sdefs, saved, instances, fired, halfway, deployments, faults>>

\* The timers that go with timer j of an instance when it runs.
Withdrawn(j) == SUBSET (Of(jobs, j.inst) \ {j})

\* A timer of an instance: the instance goes on and is saved.
RunWait(j) ==
  /\ Turn(j)
  /\ j \in jobs \ Schedules(jobs)
  /\ \E gone \in Withdrawn(j) : jobs' = jobs \ (gone \cup {j})
  /\ rows' = SavedInstance(jobs', j.inst)
  /\ saved' = saved \cup {j.inst}
  /\ UNCHANGED <<now, defs, step, sdefs, instances, fired, halfway, deployments, faults>>

\* It raises: an instance in the store is read back, one that is not keeps what
\* was done; the job is degraded and the instance saved.
FailWait(j) ==
  /\ Turn(j)
  /\ faults < MaxFaults
  /\ faults' = faults + 1
  /\ j \in jobs \ Schedules(jobs)
  /\ \E gone \in Withdrawn(j) :
       LET kept == IF j.inst \in saved THEN Of(rows, j.inst) ELSE Of(jobs, j.inst) \ gone
       IN  jobs' = (jobs \ Of(jobs, j.inst)) \cup (kept \ {j}) \cup {Degraded(j)}
  /\ rows' = SavedInstance(jobs', j.inst)
  /\ saved' = saved \cup {j.inst}
  /\ UNCHANGED <<now, defs, step, sdefs, instances, fired, halfway, deployments>>

-----------------------------------------------------------------------------

DeleteJob(j) ==
  /\ Free
  /\ faults < MaxFaults
  /\ faults' = faults + 1
  /\ j \in jobs
  /\ jobs' = jobs \ {j}
  /\ rows' = IF j.inst = 0 THEN Synced(jobs') ELSE SavedInstance(jobs', j.inst)
  /\ saved' = IF j.inst = 0 THEN saved ELSE saved \cup {j.inst}
  /\ UNCHANGED <<now, defs, round, step, sdefs, instances, fired, halfway, deployments>>

\* The process is killed; from_database reads definitions, schedules and instances.
CrashAndRestart ==
  /\ faults < MaxFaults
  /\ faults' = faults + 1
  /\ defs' = sdefs
  /\ jobs' = {r \in rows : r.inst # 0 \/ sdefs[r.key] # Undeployed}
  /\ round' = {}
  /\ step' = Rest
  /\ fired' = IF step.at = "started" THEN fired \ {Slot(step.job)} ELSE fired
  /\ halfway' = IF step.at = "saved" THEN halfway \cup {step.key} ELSE halfway
  /\ UNCHANGED <<now, sdefs, rows, saved, instances, deployments>>

Tick ==
  /\ now < LastMoment
  /\ now' = now + 1
  /\ UNCHANGED <<defs, jobs, round, step, sdefs, rows, saved, instances, fired, halfway,
                 deployments, faults>>

Deployment == SaveDeployment \/ SyncSchedules
RunJob(j) == SkipJob(j) \/ FireTimerStart(j) \/ FailTimerStart(j) \/ MissTimerStart(j)
             \/ RunWait(j) \/ FailWait(j)

Next ==
  \/ \E k \in Keys, m \in Models : Deploy(k, m) \/ DeployRaises(k, m)
  \/ SaveDeployment
  \/ SyncSchedules
  \/ Poll
  \/ \E j \in round : SkipJob(j)
  \/ \E j \in round : FireTimerStart(j)
  \/ \E j \in round : FailTimerStart(j)
  \/ \E j \in round : MissTimerStart(j)
  \/ \E j \in round : RunWait(j)
  \/ \E j \in round : FailWait(j)
  \/ RescheduleJob
  \/ \E j \in jobs : DeleteJob(j)
  \/ CrashAndRestart
  \/ Tick

Spec == Init /\ [][Next]_vars

\* A command under the engine lock goes on, execute_due_jobs is called again and
\* again, and time passes.
LiveSpec ==
  /\ Spec
  /\ WF_vars(Deployment)
  /\ WF_vars(Poll)
  /\ WF_vars(RescheduleJob)
  /\ WF_vars(\E j \in round : RunJob(j))
  /\ WF_vars(Tick)

-----------------------------------------------------------------------------
(* Properties.                                                             *)

\* deploy (:265): the schedules in memory are those of the version in force, one
\* for a start event, whatever was deployed, fired, failed or restarted, unless
\* the last deployment of the key raised or was cut off by a crash.
SchedulesAreCurrent ==
  \A j \in Schedules(jobs) : j.key \notin halfway =>
    /\ j.nth = defs[j.key].nth
    /\ j.node \in Timed(defs[j.key].model)
    /\ \A k \in Schedules(jobs) : k.key = j.key /\ k.node = j.node => k = j

\* _fire_timer_start and _reschedule_or_remove: no planned moment starts two
\* instances, over failures and restarts, except the one whose plan a crash kept
\* from being saved.
MomentsFireOnce ==
  [][step'.at = "started" /\ step.at # "started" => Slot(step'.job) \notin fired]_vars

\* execute_due_jobs: whatever fails, no due job is left behind: each comes to
\* run, is a dead letter, or is put off past the last moment.
EveryDueJobSettles == <>[](\A j \in jobs : j.due > now \/ j.retries = 0)
=============================================================================
