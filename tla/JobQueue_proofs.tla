--------------------------- MODULE JobQueue_proofs ---------------------------
(***************************************************************************)
(* Proofs about JobQueue: schedules are those of the version in force, and *)
(* no planned moment starts two instances.                                 *)
(*                                                                         *)
(* Both follow from one invariant.  It looks at the schedules of memory    *)
(* and table together (Known): a start event of one deployment has one     *)
(* record in both, and its due date is past every moment it has fired at   *)
(* (Past leaves out the one whose plan is not saved yet).  For each key it *)
(* says whether memory and store are those of the last deployment.         *)
(***************************************************************************)
EXTENDS JobQueue, TLAPS

Node == DOMAIN Waits \cup UNION {Waits[s] : s \in DOMAIN Waits}

Job == [key: Keys, nth: Nat, node: Node, inst: Nat, due: Int, retries: Int,
        left: Int, period: Nat \ {0}, cron: BOOLEAN]

Deployed == [nth: Nat, model: Models \cup {<<>>}]

Known == Schedules(jobs) \cup Schedules(rows)
Past == IF step.at = "started" THEN fired \ {Slot(step.job)} ELSE fired
During(at, k) == step.at = at /\ step.key = k

Types ==
  /\ now \in Nat
  /\ deployments \in Nat
  /\ instances \in Nat
  /\ defs \in [Keys -> Deployed]
  /\ sdefs \in [Keys -> Deployed]
  /\ jobs \subseteq Job
  /\ rows \subseteq Job
  /\ round \subseteq Job
  /\ step.at = "started" => step.job \in Schedules(jobs)
  /\ step.at \in {"deployed", "saved"} => step.key \in Keys

RoundIsDue ==
  /\ \A j \in round : j.due <= now
  /\ step.at = "started" => step.job.due <= now

\* One record for a start event of a deployment, in memory and table together.
OneRecord(S) ==
  \A j, k \in S : j.key = k.key /\ j.nth = k.nth /\ j.node = k.node => j = k

\* It is planned after every moment of P at which it was fired.
PlannedAfter(S, P) ==
  \A j \in S, f \in P : f[1] = j.key /\ f[2] = j.nth /\ f[3] = j.node => f[4] < j.due

\* The deployment to come is in no record and has not fired.
NextIsNew(S, F) ==
  /\ \A j \in S : j.nth <= deployments
  /\ \A f \in F : f[2] \in Nat /\ f[2] <= deployments /\ f[4] \in Int

AreOf(S, d, k) == \A j \in S : j.key = k => j.nth = d[k].nth /\ j.node \in Timed(d[k].model)

MemoryCurrent ==
  \A k \in Keys : k \notin halfway \/ During("deployed", k) \/ During("saved", k)
                    => AreOf(Schedules(jobs), defs, k)

TableCurrent ==
  \A k \in Keys : k \notin halfway /\ ~During("saved", k) => AreOf(Schedules(rows), sdefs, k)

DeploymentSaved ==
  \A k \in Keys : (k \notin halfway /\ ~During("deployed", k)) \/ During("saved", k)
                    => defs[k] = sdefs[k]

IInv ==
  /\ Types
  /\ RoundIsDue
  /\ OneRecord(Known)
  /\ PlannedAfter(Known, Past)
  /\ NextIsNew(Known, fired)
  /\ MemoryCurrent
  /\ TableCurrent
  /\ DeploymentSaved

-----------------------------------------------------------------------------
(* What the operators on jobs return.                                      *)

\* k is known by the same key, deployment, node and instance as j.
Same(j, k) == k.key = j.key /\ k.nth = j.nth /\ k.node = j.node /\ k.inst = j.inst

\* A failed job keeps its name and is not planned earlier (_degrade_after_failure).
LEMMA DegradedJob ==
  ASSUME QueueAssumption, now \in Nat, NEW j \in Job, j.due <= now
  PROVE  /\ Degraded(j) \in Job
         /\ Same(j, Degraded(j))
         /\ Degraded(j).due >= j.due
<1> DEFINE due == IF j.retries > 1 THEN now + RetryDelay ELSE j.due
           next == [j EXCEPT !.retries = j.retries - 1, !.due = due]
<1>1. due \in Int /\ due >= j.due
  BY DEF Job, QueueAssumption
<1>2. next \in Job /\ Same(j, next) /\ next.due = due
  <2>1. j.retries - 1 \in Int
    BY DEF Job
  <2> HIDE DEF due
  <2>2. next \in Job
    BY <1>1, <2>1 DEF Job
  <2>3. Same(j, next)
    BY DEF Job, Same
  <2>4. next.due = due
    BY DEF Job
  <2> QED BY <2>2, <2>3, <2>4
<1>3. Degraded(j) = next
  BY DEF Degraded
<1> HIDE DEF due, next
<1> QED
  BY <1>1, <1>2, <1>3

\* A cron fires next after now (next_trigger).
LEMMA CronIsAhead ==
  ASSUME now \in Nat, NEW p \in Nat \ {0}
  PROVE  NextOfCron(p) \in Int /\ NextOfCron(p) > now
<1>1. \A n \in Nat, d \in Nat \ {0} : n \div d \in Int /\ d * (n \div d + 1) > n
  BY SMTT(30)
<1>2. \A d, e \in Int : d * (e + 1) \in Int
  OBVIOUS
<1> QED
  BY <1>1, <1>2 DEF NextOfCron

\* The next turn of a schedule keeps its name and is planned later (_reschedule_or_remove).
LEMMA RescheduledJob ==
  ASSUME now \in Nat, NEW j \in Job, j.due <= now
  PROVE  /\ Rescheduled(j) \subseteq Job
         /\ \A k \in Rescheduled(j) : Same(j, k) /\ k.due > j.due
         /\ \A k, l \in Rescheduled(j) : k = l
<1> DEFINE left == IF j.left = 0 THEN 0 ELSE j.left - 1
           cron == NextOfCron(j.period)
           turn == [j EXCEPT !.due = j.due + j.period, !.left = left]
           call == [j EXCEPT !.due = cron]
<1>1. left \in Int
  BY DEF Job
<1>2. j.due + j.period \in Int /\ j.due + j.period > j.due
  BY DEF Job
<1>3. cron \in Int /\ cron > j.due
  <2>1. j.due \in Int /\ j.period \in Nat \ {0}
    BY DEF Job
  <2> QED BY <2>1, CronIsAhead
<1>4. turn \in Job /\ Same(j, turn) /\ turn.due > j.due
  <2> HIDE DEF left
  <2> QED BY <1>1, <1>2 DEF Job, Same
<1>5. call \in Job /\ Same(j, call) /\ call.due > j.due
  <2> HIDE DEF cron
  <2> QED BY <1>3 DEF Job, Same
<1>6. Rescheduled(j) = IF j.cron THEN {call} ELSE IF j.left = 1 THEN {} ELSE {turn}
  BY DEF Rescheduled
<1> HIDE DEF turn, call
<1> QED
  BY <1>4, <1>5, <1>6

\* The timers of a new instance are jobs of that instance.
LEMMA NewWaitsJobs ==
  ASSUME QueueAssumption, now \in Nat, NEW j \in Job, j.node \in DOMAIN Waits, NEW n \in Nat
  PROVE  NewWaits(j, n) \subseteq Job /\ \A k \in NewWaits(j, n) : k.inst = n
<1>1. \A w \in Waits[j.node] : w \in Node
  BY DEF Node
<1>2. now + 1 \in Int /\ MaxRetries \in Int /\ j.period \in Nat \ {0}
  BY DEF Job, QueueAssumption
<1>3. ASSUME NEW w \in Waits[j.node]
      PROVE  [key |-> j.key, nth |-> j.nth, node |-> w, inst |-> n, due |-> now + 1,
              retries |-> MaxRetries, left |-> 1, period |-> j.period, cron |-> FALSE] \in Job
  <2>1. j.key \in Keys /\ j.nth \in Nat /\ w \in Node
    BY <1>1, <1>3 DEF Job
  <2> QED BY <1>2, <2>1 DEF Job
<1> QED
  BY <1>3 DEF NewWaits

\* A schedule is a job (_make_timer_start_job).
LEMMA NewScheduleJob ==
  ASSUME QueueAssumption, now \in Nat, NEW k \in Keys, NEW nth \in Nat,
         NEW m \in Models, NEW s \in Timed(m)
  PROVE  /\ NewSchedule(k, nth, s, m[s]) \in Job
         /\ NewSchedule(k, nth, s, m[s]).key = k
         /\ NewSchedule(k, nth, s, m[s]).nth = nth
         /\ NewSchedule(k, nth, s, m[s]).node = s
         /\ NewSchedule(k, nth, s, m[s]).inst = 0
<1> DEFINE due == IF m[s].kind = "cron" THEN NextOfCron(m[s].period) ELSE now + m[s].period
<1>1. m[s] \in StartEvent /\ s \in Node
  BY DEF QueueAssumption, Node, Timed
<1>2. due \in Int
  <2>1. m[s].period \in Nat \ {0}
    BY <1>1 DEF StartEvent
  <2>2. NextOfCron(m[s].period) \in Int
    BY <2>1, CronIsAhead
  <2> QED BY <2>1, <2>2
<1>3. NewSchedule(k, nth, s, m[s])
        = [key |-> k, nth |-> nth, node |-> s, inst |-> 0, due |-> due,
           retries |-> MaxRetries, left |-> m[s].count, period |-> m[s].period,
           cron |-> m[s].kind = "cron"]
  BY DEF NewSchedule
<1> HIDE DEF due
<1> QED
  BY <1>1, <1>2, <1>3 DEF Job, StartEvent, QueueAssumption

-----------------------------------------------------------------------------
(* A step that takes no schedule away from its table, adds none and deploys *)
(* nothing keeps the invariant but for the types.                          *)

Others ==
  /\ OneRecord(Known)
  /\ PlannedAfter(Known, Past)
  /\ NextIsNew(Known, fired)
  /\ MemoryCurrent
  /\ TableCurrent
  /\ DeploymentSaved

LEMMA SchedulesUntouched ==
  ASSUME Others, Schedules(jobs)' = Schedules(jobs), Schedules(rows)' = Schedules(rows),
         UNCHANGED <<defs, sdefs, step, fired, halfway, deployments>>
  PROVE  Others'
<1>1. Known' = Known /\ Past' = Past
  BY DEF Known, Past
<1>2. OneRecord(Known)' /\ PlannedAfter(Known, Past)'
  BY <1>1 DEF Others, OneRecord, PlannedAfter
<1>3. NextIsNew(Known, fired)'
  BY <1>1 DEF Others, NextIsNew
<1>4. MemoryCurrent' /\ TableCurrent' /\ DeploymentSaved'
  BY DEF Others, MemoryCurrent, TableCurrent, DeploymentSaved, AreOf, During
<1> QED
  BY <1>2, <1>3, <1>4 DEF Others

\* A step that replaces schedule j by at most one of the same name that is not
\* planned at a past moment, and then saves all schedules.
LEMMA ScheduleReplaced ==
  ASSUME Types, Others, NEW j \in Schedules(jobs), NEW N,
         \A k \in N : Same(j, k),
         \A k, l \in N : k = l,
         PlannedAfter(N, fired),
         Schedules(jobs)' = (Schedules(jobs) \ {j}) \cup N,
         Schedules(rows)' = Schedules(jobs)',
         step.at \notin {"deployed", "saved"},
         step.at = "started" => step.job = j,
         step' = Rest,
         UNCHANGED <<defs, sdefs, fired, halfway, deployments>>
  PROVE  Others'
<1>1. Known' = (Schedules(jobs) \ {j}) \cup N
  BY DEF Known
<1>2. Past' = fired /\ \A k : ~During("deployed", k)' /\ ~During("saved", k)'
  BY DEF Past, Rest, During
<1>3. j \in Known /\ Schedules(jobs) \subseteq Known
  BY DEF Known
<1>4. OneRecord(Known)'
  BY <1>1, <1>3 DEF Others, OneRecord, Same
<1>5. PlannedAfter(Known, Past)'
  <2> SUFFICES ASSUME NEW k \in Known', NEW f \in fired,
                      f[1] = k.key /\ f[2] = k.nth /\ f[3] = k.node
               PROVE  f[4] < k.due
    BY <1>2 DEF PlannedAfter
  <2>1. CASE k \in N
    BY <2>1 DEF PlannedAfter
  <2>2. CASE k \in Schedules(jobs) \ {j}
    <3>1. f \in Past
      <4>1. CASE step.at = "started" /\ f = Slot(step.job)
        <5>1. j.key = k.key /\ j.nth = k.nth /\ j.node = k.node
          BY <4>1 DEF Slot
        <5> QED BY <5>1, <2>2, <1>3 DEF Others, OneRecord
      <4> QED BY <4>1 DEF Past
    <3> QED BY <3>1, <2>2, <1>3 DEF Others, PlannedAfter
  <2> QED BY <1>1, <2>1, <2>2
<1>6. NextIsNew(Known, fired)'
  BY <1>1, <1>3 DEF Others, NextIsNew, Same
<1>7. \A k \in Keys : k \notin halfway => AreOf(Known', defs, k) /\ defs[k] = sdefs[k]
  BY <1>1 DEF Others, MemoryCurrent, DeploymentSaved, AreOf, During, Same
<1>8. MemoryCurrent' /\ TableCurrent' /\ DeploymentSaved'
  BY <1>2, <1>7 DEF MemoryCurrent, TableCurrent, DeploymentSaved, AreOf, Known
<1> QED
  BY <1>4, <1>5, <1>6, <1>8 DEF Others

-----------------------------------------------------------------------------
(* The initial states, and the steps that leave schedules alone.           *)

LEMMA InitIInv == ASSUME QueueAssumption, Init PROVE IInv
<1>1. Types
  BY DEF Init, Types, Deployed, Undeployed, Rest, Schedules
<1>2. Known = {} /\ Past = {} /\ step.at = "rest"
  BY DEF Init, Known, Past, Rest, Schedules
<1>3. OneRecord(Known) /\ PlannedAfter(Known, Past) /\ NextIsNew(Known, fired)
  BY <1>2 DEF OneRecord, PlannedAfter, NextIsNew, Init
<1>4. MemoryCurrent /\ TableCurrent /\ DeploymentSaved
  BY DEF Init, MemoryCurrent, TableCurrent, DeploymentSaved, AreOf, Schedules
<1> QED
  BY <1>1, <1>2, <1>3, <1>4 DEF IInv, RoundIsDue, Init

\* The invariant, its types and the rest.
LEMMA Parts == IInv <=> Types /\ RoundIsDue /\ Others
BY DEF IInv, Others

\* A poll takes the due jobs, and a job that is gone is skipped.
LEMMA PollKeeps ==
  ASSUME IInv, Poll \/ (\E j \in round : SkipJob(j)) \/ Tick \/ UNCHANGED vars
  PROVE  IInv'
<1>1. UNCHANGED <<defs, sdefs, jobs, rows, step, fired, halfway, deployments, instances>>
  BY DEF Poll, SkipJob, Turn, Tick, vars
<1>2. Others'
  BY <1>1, SchedulesUntouched, Parts DEF Schedules
<1>3. now' \in Nat /\ now' >= now /\ round' \subseteq round \cup DueJobs
  BY DEF IInv, Types, Poll, SkipJob, Turn, Tick, vars
<1>4. Types'
  BY <1>1, <1>3 DEF IInv, Types, DueJobs, Schedules
<1>5. RoundIsDue'
  <2>1. \A j \in round' : j.due <= now'
    BY <1>3 DEF IInv, Types, RoundIsDue, DueJobs, Job
  <2>2. step.at = "started" => step.job.due <= now'
    <3>1. step.at = "started" => step.job \in Job /\ step.job.due <= now
      BY DEF IInv, Types, RoundIsDue, Schedules
    <3> QED BY <3>1, <1>3 DEF IInv, Types, Job
  <2> QED BY <1>1, <2>1, <2>2 DEF RoundIsDue
<1> QED
  BY <1>2, <1>4, <1>5 DEF IInv, Others

\* A step that writes the jobs of instance n, but for the types.
LEMMA InstanceSaved ==
  ASSUME Others, NEW n \in Nat \ {0}, NEW q, NEW r,
         q \in SUBSET Job, r \in SUBSET Job,
         jobs' = (jobs \ Of(jobs, n)) \cup q, rows' = (rows \ Of(rows, n)) \cup r,
         \A j \in q \cup r : j.inst = n,
         UNCHANGED <<defs, sdefs, step, fired, halfway, deployments>>
  PROVE  Others' /\ Schedules(jobs)' = Schedules(jobs)
<1>1. Schedules(jobs)' = Schedules(jobs) /\ Schedules(rows)' = Schedules(rows)
  BY DEF Schedules, Of
<1> QED
  BY <1>1, SchedulesUntouched

\* A timer of an instance runs or is deleted; it fails.
LEMMA WaitKeeps ==
  ASSUME QueueAssumption, IInv, NEW j \in jobs \ Schedules(jobs),
         \/ j \in round /\ (RunWait(j) \/ FailWait(j))
         \/ DeleteJob(j)
  PROVE  IInv'
<1>1. j \in Job /\ j.inst \in Nat \ {0}
  BY DEF IInv, Types, Schedules, Job
<1>2. /\ UNCHANGED <<now, defs, sdefs, step, fired, halfway, deployments, instances>>
      /\ round' \subseteq round
      /\ rows' = SavedInstance(jobs', j.inst)
  BY <1>1 DEF RunWait, FailWait, DeleteJob, Turn
<1>3. PICK q \in SUBSET Job : /\ jobs' = (jobs \ Of(jobs, j.inst)) \cup q
                              /\ \A k \in q : k.inst = j.inst
  <2>1. CASE RunWait(j)
    <3>1. PICK gone \in Withdrawn(j) : jobs' = jobs \ (gone \cup {j})
      BY <2>1 DEF RunWait
    <3> DEFINE q == Of(jobs, j.inst) \ (gone \cup {j})
    <3>2. q \in SUBSET Job /\ (\A k \in q : k.inst = j.inst) /\ jobs' = (jobs \ Of(jobs, j.inst)) \cup q
      BY <3>1 DEF IInv, Types, Of, Withdrawn
    <3> QED BY <3>2
  <2>2. CASE FailWait(j) /\ j \in round
    <3>1. PICK gone \in Withdrawn(j) :
             jobs' = (jobs \ Of(jobs, j.inst))
                       \cup ((IF j.inst \in saved THEN Of(rows, j.inst) ELSE Of(jobs, j.inst) \ gone) \ {j})
                       \cup {Degraded(j)}
      BY <2>2 DEF FailWait
    <3>2. Degraded(j) \in Job /\ Degraded(j).inst = j.inst
      BY <1>1, <2>2, DegradedJob DEF IInv, Types, RoundIsDue, Same
    <3> DEFINE q == ((IF j.inst \in saved THEN Of(rows, j.inst) ELSE Of(jobs, j.inst) \ gone) \ {j})
                       \cup {Degraded(j)}
    <3>3. q \in SUBSET Job /\ (\A k \in q : k.inst = j.inst) /\ jobs' = (jobs \ Of(jobs, j.inst)) \cup q
      BY <3>1, <3>2 DEF IInv, Types, Of
    <3> QED BY <3>3
  <2>3. CASE DeleteJob(j)
    <3> DEFINE q == Of(jobs, j.inst) \ {j}
    <3>1. q \in SUBSET Job /\ (\A k \in q : k.inst = j.inst) /\ jobs' = (jobs \ Of(jobs, j.inst)) \cup q
      BY <2>3 DEF DeleteJob, IInv, Types, Of
    <3> QED BY <3>1
  <2> QED BY <2>1, <2>2, <2>3
<1>4. rows' = (rows \ Of(rows, j.inst)) \cup q
  BY <1>2, <1>3 DEF SavedInstance, Of
<1>5. Others' /\ Schedules(jobs)' = Schedules(jobs)
  BY <1>1, <1>2, <1>3, <1>4, InstanceSaved, Parts
<1>6. Types'
  BY <1>2, <1>3, <1>4, <1>5 DEF IInv, Types
<1>7. RoundIsDue'
  BY <1>2 DEF IInv, RoundIsDue
<1> QED
  BY <1>5, <1>6, <1>7 DEF IInv, Others

-----------------------------------------------------------------------------
(* The steps of schedules.                                                 *)

\* A schedule starts an instance; its moment is past once the plan is saved.
LEMMA FireKeeps ==
  ASSUME QueueAssumption, IInv, NEW j \in round, FireTimerStart(j)
  PROVE  IInv' /\ Slot(j) \notin fired
<1>1. j \in Job /\ j \in Schedules(jobs) /\ j \in Known /\ step = Rest
  BY DEF IInv, Types, FireTimerStart, Turn, Known
<1>2. Past = fired
  BY <1>1 DEF Past, Rest
<1>3. Slot(j) \notin fired
  <2> SUFFICES ASSUME Slot(j) \in fired PROVE FALSE
    OBVIOUS
  <2>1. j.due < j.due
    BY <1>1, <1>2 DEF IInv, PlannedAfter, Slot
  <2> QED BY <1>1, <2>1 DEF Job
<1>4. j.node \in DOMAIN Waits
  <2>1. j.key \in Keys /\ defs[j.key].model \in Models \cup {<<>>}
    BY <1>1 DEF IInv, Types, Deployed, Job
  <2>2. j.node \in DOMAIN defs[j.key].model
    BY DEF FireTimerStart
  <2>3. defs[j.key].model # <<>>
    BY <2>2
  <2> QED BY <2>1, <2>2, <2>3 DEF QueueAssumption
<1>5. instances + 1 \in Nat \ {0}
  BY DEF IInv, Types
<1> DEFINE waits == NewWaits(j, instances + 1)
<1>6. waits \subseteq Job /\ \A k \in waits : k.inst = instances + 1
  BY <1>1, <1>4, <1>5, NewWaitsJobs DEF IInv, Types
<1>7. jobs' = jobs \cup waits /\ rows' = rows \cup waits
  BY DEF FireTimerStart
<1> HIDE DEF waits
<1>8. Schedules(jobs)' = Schedules(jobs) /\ Schedules(rows)' = Schedules(rows)
  BY <1>5, <1>6, <1>7 DEF Schedules
<1>9. step'.at = "started" /\ step'.job = j /\ fired' = fired \cup {Slot(j)}
      /\ UNCHANGED <<now, defs, sdefs, halfway, deployments>>
      /\ instances' = instances + 1 /\ round' \subseteq round
  BY DEF FireTimerStart, Turn
<1>10. Past' = Past /\ Known' = Known
  BY <1>2, <1>3, <1>8, <1>9 DEF Past, Known, Slot
<1>11. OneRecord(Known)' /\ PlannedAfter(Known, Past)'
  BY <1>10 DEF IInv, OneRecord, PlannedAfter
<1>12. NextIsNew(Known, fired)'
  BY <1>1, <1>9, <1>10 DEF IInv, NextIsNew, Slot, Job
<1>13. \A k : /\ ~During("deployed", k) /\ ~During("saved", k)
              /\ ~During("deployed", k)' /\ ~During("saved", k)'
  BY <1>1, <1>9 DEF During, Rest
<1>14. MemoryCurrent' /\ TableCurrent' /\ DeploymentSaved'
  BY <1>8, <1>9, <1>13 DEF IInv, MemoryCurrent, TableCurrent, DeploymentSaved, AreOf
<1>15. Types'
  BY <1>1, <1>5, <1>6, <1>7, <1>8, <1>9 DEF IInv, Types
<1>16. RoundIsDue'
  BY <1>9 DEF IInv, RoundIsDue
<1> QED
  BY <1>3, <1>11, <1>12, <1>14, <1>15, <1>16 DEF IInv

\* The schedules are saved: table and memory have the same.
LEMMA SyncedSchedules ==
  ASSUME rows' = Synced(jobs')
  PROVE  /\ Schedules(rows)' = Schedules(jobs)'
         /\ rows' \subseteq rows \cup jobs'
BY DEF Synced, Schedules

\* A schedule fails, with or without an instance that stays behind.
LEMMA FailKeeps ==
  ASSUME QueueAssumption, IInv, NEW j \in round, FailTimerStart(j) \/ MissTimerStart(j)
  PROVE  IInv'
<1>1. j \in Job /\ j \in Schedules(jobs) /\ j \in Known /\ step = Rest /\ j.due <= now
  BY DEF IInv, Types, RoundIsDue, FailTimerStart, MissTimerStart, Turn, Known
<1>2. /\ Degraded(j) \in Job /\ Same(j, Degraded(j)) /\ Degraded(j).due >= j.due
      /\ Degraded(j).inst = 0
  BY <1>1, DegradedJob DEF IInv, Types, Same, Schedules
<1>3. PICK waits \in SUBSET Job : /\ jobs' = (jobs \ {j}) \cup {Degraded(j)} \cup waits
                                  /\ \A k \in waits : k.inst # 0
  <2>1. CASE MissTimerStart(j)
    <3>1. jobs' = (jobs \ {j}) \cup {Degraded(j)} \cup {}
      BY <2>1 DEF MissTimerStart
    <3>2. {} \in SUBSET Job /\ \A k \in {} : k.inst # 0
      OBVIOUS
    <3> QED BY <3>1, <3>2
  <2>2. CASE FailTimerStart(j)
    <3>1. j.node \in DOMAIN Waits
      <4>1. j.key \in Keys /\ defs[j.key].model \in Models \cup {<<>>}
        BY <1>1 DEF IInv, Types, Deployed, Job
      <4>2. j.node \in DOMAIN defs[j.key].model
        BY <2>2 DEF FailTimerStart
      <4>3. defs[j.key].model # <<>>
        BY <4>2
      <4> QED BY <4>1, <4>2, <4>3 DEF QueueAssumption
    <3>2. instances + 1 \in Nat /\ instances + 1 # 0
      BY DEF IInv, Types
    <3>3. NewWaits(j, instances + 1) \subseteq Job
          /\ \A k \in NewWaits(j, instances + 1) : k.inst # 0
      BY <1>1, <3>1, <3>2, NewWaitsJobs DEF IInv, Types
    <3>4. PICK waits \in SUBSET NewWaits(j, instances + 1) :
             jobs' = (jobs \ {j}) \cup {Degraded(j)} \cup waits
      BY <2>2 DEF FailTimerStart
    <3> QED BY <3>3, <3>4
  <2> QED BY <2>1, <2>2
<1>4. /\ UNCHANGED <<now, defs, sdefs, step, fired, halfway, deployments>>
      /\ instances' \in Nat /\ round' \subseteq round /\ rows' = Synced(jobs')
  BY DEF FailTimerStart, MissTimerStart, Turn, IInv, Types
<1>5. Schedules(jobs)' = (Schedules(jobs) \ {j}) \cup {Degraded(j)}
  BY <1>1, <1>2, <1>3 DEF Schedules
<1>6. PlannedAfter({Degraded(j)}, fired)
  <2>1. \A f \in fired : f[1] = j.key /\ f[2] = j.nth /\ f[3] = j.node => f[4] < j.due
    BY <1>1 DEF IInv, PlannedAfter, Past, Rest
  <2>2. \A f \in fired : f[4] \in Int
    BY DEF IInv, NextIsNew
  <2>3. j.due \in Int /\ Degraded(j).due \in Int
    BY <1>1, <1>2 DEF Job
  <2> QED BY <1>2, <2>1, <2>2, <2>3 DEF PlannedAfter, Same
<1>7. Others'
  <2>1. step' = Rest /\ step.at = "rest"
    BY <1>1, <1>4 DEF Rest
  <2> HIDE DEF Rest
  <2> QED BY <1>1, <1>2, <1>4, <1>5, <1>6, <2>1, SyncedSchedules, ScheduleReplaced, Parts
<1>8. Types'
  BY <1>1, <1>2, <1>3, <1>4, SyncedSchedules DEF IInv, Types, Rest
<1>9. RoundIsDue'
  BY <1>4 DEF IInv, RoundIsDue
<1> QED
  BY <1>7, <1>8, <1>9 DEF IInv, Others

\* The next turn is planned and saved.
LEMMA RescheduleKeeps ==
  ASSUME QueueAssumption, IInv, RescheduleJob
  PROVE  IInv'
<1> DEFINE j == step.job
           N == Rescheduled(j)
<1>1. step.at = "started" /\ j \in Job /\ j \in Schedules(jobs) /\ j \in Known
  BY DEF IInv, Types, RescheduleJob, Known, Schedules
<1>2. N \subseteq Job /\ (\A k \in N : Same(j, k) /\ k.due > j.due) /\ (\A k, l \in N : k = l)
  <2>1. now \in Nat /\ j.due <= now
    BY <1>1 DEF IInv, Types, RoundIsDue
  <2> QED BY <1>1, <2>1, RescheduledJob
<1>3. /\ UNCHANGED <<now, defs, sdefs, round, fired, halfway, deployments, instances>>
      /\ jobs' = (jobs \ {j}) \cup N /\ rows' = Synced(jobs') /\ step' = Rest
  BY DEF RescheduleJob
<1> HIDE DEF N
<1>4. Schedules(jobs)' = (Schedules(jobs) \ {j}) \cup N
  BY <1>1, <1>2, <1>3 DEF Schedules, Same
<1>5. PlannedAfter(N, fired)
  <2> SUFFICES ASSUME NEW k \in N, NEW f \in fired, f[1] = k.key /\ f[2] = k.nth /\ f[3] = k.node
               PROVE  f[4] < k.due
    BY DEF PlannedAfter
  <2>1. f[4] \in Int /\ j.due \in Int /\ k.due \in Int /\ j.due < k.due
    BY <1>1, <1>2 DEF IInv, NextIsNew, Job
  <2>2. f[4] <= j.due
    <3>1. CASE f = Slot(j)
      BY <3>1, <2>1 DEF Slot
    <3>2. CASE f # Slot(j)
      <4>1. f \in Past
        BY <1>1, <3>2 DEF Past
      <4>2. f[4] < j.due
        BY <1>1, <1>2, <4>1 DEF IInv, PlannedAfter, Same
      <4> QED BY <2>1, <4>2
    <3> QED BY <3>1, <3>2
  <2> QED BY <2>1, <2>2
<1>6. Others'
  BY <1>1, <1>2, <1>3, <1>4, <1>5, SyncedSchedules, ScheduleReplaced, Parts
<1>7. Types'
  BY <1>1, <1>2, <1>3, SyncedSchedules DEF IInv, Types, Rest
<1>8. RoundIsDue'
  BY <1>3 DEF IInv, RoundIsDue, Rest
<1> QED
  BY <1>6, <1>7, <1>8 DEF IInv, Others

LEMMA DeleteKeeps ==
  ASSUME QueueAssumption, IInv, NEW j \in Schedules(jobs), DeleteJob(j)
  PROVE  IInv'
<1>1. j \in Job /\ j.inst = 0 /\ step = Rest
  BY DEF IInv, Types, Schedules, DeleteJob, Free
<1>2. /\ UNCHANGED <<now, defs, sdefs, step, round, fired, halfway, deployments, instances>>
      /\ jobs' = jobs \ {j} /\ rows' = Synced(jobs')
  BY <1>1 DEF DeleteJob
<1>3. Schedules(jobs)' = (Schedules(jobs) \ {j}) \cup {}
  BY <1>2 DEF Schedules
<1>4. PlannedAfter({}, fired)
  BY DEF PlannedAfter
<1>5. Others'
  <2>1. step' = Rest /\ step.at = "rest"
    BY <1>1, <1>2 DEF Rest
  <2> HIDE DEF Rest
  <2> QED BY <1>2, <1>3, <1>4, <2>1, SyncedSchedules, ScheduleReplaced, Parts
<1>6. Types'
  BY <1>1, <1>2, SyncedSchedules DEF IInv, Types, Rest
<1>7. RoundIsDue'
  BY <1>2 DEF IInv, RoundIsDue
<1> QED
  BY <1>5, <1>6, <1>7 DEF IInv, Others

-----------------------------------------------------------------------------
(* Deployments and restarts.                                               *)

\* The key is deployed, whole or up to a timer that cannot be read.
LEMMA DeployKeeps ==
  ASSUME QueueAssumption, IInv, NEW k \in Keys, NEW m \in Models,
         Deploy(k, m) \/ DeployRaises(k, m)
  PROVE  IInv'
<1> DEFINE new == {NewSchedule(k, deployments + 1, s, m[s]) : s \in Timed(m)}
           kept == {j \in jobs : ~(j.inst = 0 /\ j.key = k)}
<1>1. step = Rest /\ deployments' = deployments + 1 /\ deployments \in Nat
      /\ UNCHANGED <<now, round, sdefs, rows, instances, fired>>
      /\ defs' = [defs EXCEPT ![k] = [nth |-> deployments + 1, model |-> m]]
  BY DEF Deploy, DeployRaises, Free, InForce, IInv, Types
<1>2. PICK S \in SUBSET new : jobs' = kept \cup S
  <2>1. CASE Deploy(k, m)
    BY <2>1 DEF Deploy, Registered, WithoutSchedules
  <2>2. CASE DeployRaises(k, m)
    <3>1. PICK done \in SUBSET {s \in Timed(m) : m[s].valid} : jobs' = Registered(k, m, done)
      BY <2>2 DEF DeployRaises
    <3>2. {NewSchedule(k, deployments + 1, s, m[s]) : s \in done} \in SUBSET new
      OBVIOUS
    <3> QED BY <3>1, <3>2 DEF Registered, WithoutSchedules
  <2> QED BY <2>1, <2>2
<1>3. \/ step' = [at |-> "deployed", key |-> k, job |-> NoJob] /\ halfway' = halfway
      \/ step' = Rest /\ halfway' = halfway \cup {k}
  BY <1>1 DEF Deploy, DeployRaises
<1>4. \A j \in S : j \in Job /\ j.key = k /\ j.nth = deployments + 1 /\ j.inst = 0
                   /\ j.node \in Timed(m)
  BY <1>1, <1>2, NewScheduleJob DEF IInv, Types
<1>5. \A i, j \in S : i.node = j.node => i = j
  <2>1. \A s \in Timed(m) : NewSchedule(k, deployments + 1, s, m[s]).node = s
    BY <1>1, NewScheduleJob DEF IInv, Types
  <2> QED BY <1>2, <2>1
<1> HIDE DEF new
<1>6. Schedules(jobs)' = {j \in Schedules(jobs) : j.key # k} \cup S
  BY <1>2, <1>4 DEF Schedules
<1>7. Known' \subseteq Known \cup S /\ Past' = fired /\ Past = fired
  BY <1>1, <1>3, <1>6 DEF Known, Past, Rest, Schedules
<1>8. OneRecord(Known)'
  <2>1. \A j \in Known : j.nth <= deployments /\ j.nth \in Nat
    BY DEF IInv, Types, NextIsNew, Known, Schedules, Job
  <2>2. \A i \in Known, j \in S : i.nth # j.nth
    BY <1>1, <1>4, <2>1
  <2> QED BY <1>4, <1>5, <1>7, <2>2 DEF IInv, OneRecord
<1>9. PlannedAfter(Known, Past)'
  <2>1. \A f \in fired : f[2] \in Nat /\ f[2] <= deployments
    BY DEF IInv, NextIsNew
  <2>2. \A f \in fired, j \in S : f[2] # j.nth
    BY <1>1, <1>4, <2>1
  <2> QED BY <1>7, <2>2 DEF IInv, PlannedAfter
<1>10. NextIsNew(Known, fired)'
  <2>1. \A j \in Known : j.nth <= deployments /\ j.nth \in Nat
    BY DEF IInv, Types, NextIsNew, Known, Schedules, Job
  <2> QED BY <1>1, <1>4, <1>7, <2>1 DEF IInv, NextIsNew
<1>11. /\ \A c : ~During("deployed", c) /\ ~During("saved", c) /\ ~During("saved", c)'
       /\ \A c : c # k => ~During("deployed", c)'
       /\ k \in halfway' \/ During("deployed", k)'
       /\ \A c : c # k => (c \in halfway' <=> c \in halfway)
       /\ halfway \subseteq halfway'
  BY <1>1, <1>3 DEF During, Rest
<1>12. defs'[k].nth = deployments + 1 /\ defs'[k].model = m
       /\ \A c \in Keys : c # k => defs'[c] = defs[c]
  BY <1>1 DEF IInv, Types
<1>13. MemoryCurrent'
  <2> SUFFICES ASSUME NEW c \in Keys, c \notin halfway' \/ During("deployed", c)' \/ During("saved", c)'
               PROVE  AreOf(Schedules(jobs)', defs', c)
    BY DEF MemoryCurrent, AreOf
  <2>1. CASE c = k
    BY <1>4, <1>6, <1>12, <2>1 DEF AreOf
  <2>2. CASE c # k
    <3>1. AreOf(Schedules(jobs), defs, c)
      BY <1>11, <2>2 DEF IInv, MemoryCurrent
    <3> QED BY <1>4, <1>6, <1>12, <2>2, <3>1 DEF AreOf
  <2> QED BY <2>1, <2>2
<1>14. TableCurrent'
  <2>1. Schedules(rows)' = Schedules(rows)
    BY <1>1 DEF Schedules
  <2> QED BY <1>1, <1>11, <2>1 DEF IInv, TableCurrent, AreOf
<1>15. DeploymentSaved'
  BY <1>1, <1>11, <1>12 DEF IInv, DeploymentSaved
<1>16. Types'
  <2>1. defs' \in [Keys -> Deployed]
    BY <1>1 DEF IInv, Types, Deployed
  <2>2. jobs' \subseteq Job
    BY <1>2, <1>4 DEF IInv, Types
  <2>3. step'.at \in {"deployed", "rest"} /\ (step'.at = "deployed" => step'.key = k)
    BY <1>3 DEF Rest
  <2> QED BY <1>1, <2>1, <2>2, <2>3 DEF IInv, Types
<1>17. RoundIsDue'
  BY <1>1, <1>3 DEF IInv, RoundIsDue, Rest
<1> QED
  BY <1>8, <1>9, <1>10, <1>13, <1>14, <1>15, <1>16, <1>17 DEF IInv

\* The deployment is saved, then its schedules are.
LEMMA SaveKeeps ==
  ASSUME IInv, SaveDeployment
  PROVE  IInv'
<1>1. /\ step.at = "deployed" /\ step.key \in Keys /\ step'.at = "saved" /\ step'.key = step.key
      /\ UNCHANGED <<now, defs, jobs, round, rows, instances, fired, halfway, deployments>>
      /\ sdefs' = [sdefs EXCEPT ![step.key] = defs[step.key]]
  BY DEF SaveDeployment, IInv, Types
<1>2. Known' = Known /\ Past' = Past /\ Schedules(rows)' = Schedules(rows)
      /\ Schedules(jobs)' = Schedules(jobs)
  BY <1>1 DEF Known, Past, Schedules
<1>3. OneRecord(Known)' /\ PlannedAfter(Known, Past)' /\ NextIsNew(Known, fired)'
  BY <1>1, <1>2 DEF IInv, OneRecord, PlannedAfter, NextIsNew
<1>4. \A c \in Keys : c # step.key => sdefs'[c] = sdefs[c]
  BY <1>1
<1>5. sdefs'[step.key] = defs[step.key] /\ sdefs' \in [Keys -> Deployed]
  BY <1>1 DEF IInv, Types
<1>6. MemoryCurrent'
  BY <1>1, <1>2 DEF IInv, MemoryCurrent, AreOf, During
<1>7. TableCurrent'
  BY <1>1, <1>2, <1>4 DEF IInv, TableCurrent, AreOf, During
<1>8. DeploymentSaved'
  BY <1>1, <1>4, <1>5 DEF IInv, DeploymentSaved, During
<1>9. Types' /\ RoundIsDue'
  BY <1>1, <1>5 DEF IInv, Types, RoundIsDue
<1> QED
  BY <1>3, <1>6, <1>7, <1>8, <1>9 DEF IInv

LEMMA SyncKeeps ==
  ASSUME IInv, SyncSchedules
  PROVE  IInv'
<1>1. /\ step.at = "saved" /\ step.key \in Keys /\ step' = Rest
      /\ UNCHANGED <<now, defs, sdefs, jobs, round, instances, fired, deployments>>
      /\ halfway' = halfway \ {step.key}
  BY DEF SyncSchedules, IInv, Types
<1>2. Schedules(rows)' = Schedules(jobs) /\ Schedules(jobs)' = Schedules(jobs)
      /\ rows' \subseteq rows \cup jobs
  BY <1>1, SyncedSchedules DEF SyncSchedules, Schedules
<1>3. Known' \subseteq Known /\ Past' = fired /\ Past = fired
  BY <1>1, <1>2 DEF Known, Past, Rest
<1>4. OneRecord(Known)' /\ PlannedAfter(Known, Past)'
  BY <1>3 DEF IInv, OneRecord, PlannedAfter
<1>5. NextIsNew(Known, fired)'
  BY <1>1, <1>3 DEF IInv, NextIsNew
<1>6. \A c \in Keys : c \notin halfway' => AreOf(Schedules(jobs), defs, c) /\ defs[c] = sdefs[c]
  BY <1>1 DEF IInv, MemoryCurrent, DeploymentSaved, During
<1>7. \A c : ~During("deployed", c)' /\ ~During("saved", c)'
  BY <1>1 DEF During, Rest
<1>8. MemoryCurrent' /\ TableCurrent' /\ DeploymentSaved'
  BY <1>1, <1>2, <1>6, <1>7 DEF MemoryCurrent, TableCurrent, DeploymentSaved, AreOf
<1>9. Types' /\ RoundIsDue'
  BY <1>1, <1>2 DEF IInv, Types, RoundIsDue, Rest
<1> QED
  BY <1>4, <1>5, <1>8, <1>9 DEF IInv

\* A restart knows what the store has; a deployment cut off is halfway, and a
\* moment whose plan was not saved may come again.
LEMMA RestartKeeps ==
  ASSUME IInv, CrashAndRestart
  PROVE  IInv'
<1>1. /\ jobs' \subseteq rows /\ rows' = rows /\ defs' = sdefs /\ sdefs' = sdefs
      /\ step' = Rest /\ round' = {}
      /\ halfway' = IF step.at = "saved" THEN halfway \cup {step.key} ELSE halfway
      /\ UNCHANGED <<now, instances, deployments>>
  BY DEF CrashAndRestart
<1>2. fired' = Past /\ Past' = Past
  BY DEF CrashAndRestart, Past, Rest
<1>3. Schedules(jobs)' \subseteq Schedules(rows) /\ Schedules(rows)' = Schedules(rows)
      /\ Known' \subseteq Known
  BY <1>1 DEF Schedules, Known
<1>4. OneRecord(Known)' /\ PlannedAfter(Known, Past)'
  BY <1>2, <1>3 DEF IInv, OneRecord, PlannedAfter
<1>5. NextIsNew(Known, fired)'
  BY <1>1, <1>2, <1>3 DEF IInv, NextIsNew, Past
<1>6. \A c \in Keys : c \notin halfway' => AreOf(Schedules(rows), sdefs, c)
  BY <1>1 DEF IInv, TableCurrent, During
<1>7. \A c : ~During("deployed", c)' /\ ~During("saved", c)'
  BY <1>1 DEF During, Rest
<1>8. MemoryCurrent' /\ TableCurrent' /\ DeploymentSaved'
  BY <1>1, <1>3, <1>6, <1>7 DEF MemoryCurrent, TableCurrent, DeploymentSaved, AreOf
<1>9. Types' /\ RoundIsDue'
  BY <1>1 DEF IInv, Types, RoundIsDue, Rest
<1> QED
  BY <1>4, <1>5, <1>8, <1>9 DEF IInv

-----------------------------------------------------------------------------

LEMMA StepKeeps ==
  ASSUME QueueAssumption, IInv, [Next]_vars
  PROVE  IInv'
<1>1. CASE Poll \/ (\E j \in round : SkipJob(j)) \/ Tick \/ UNCHANGED vars
  BY <1>1, PollKeeps
<1>2. ASSUME NEW k \in Keys, NEW m \in Models, Deploy(k, m) \/ DeployRaises(k, m)
      PROVE  IInv'
  BY <1>2, DeployKeeps
<1>3. CASE SaveDeployment
  BY <1>3, SaveKeeps
<1>4. CASE SyncSchedules
  BY <1>4, SyncKeeps
<1>5. ASSUME NEW j \in round, FireTimerStart(j) PROVE IInv'
  BY <1>5, FireKeeps
<1>6. ASSUME NEW j \in round, FailTimerStart(j) \/ MissTimerStart(j) PROVE IInv'
  BY <1>6, FailKeeps
<1>7. ASSUME NEW j \in round, RunWait(j) \/ FailWait(j) PROVE IInv'
  <2>1. j \in jobs \ Schedules(jobs)
    BY <1>7 DEF RunWait, FailWait
  <2> QED BY <1>7, <2>1, WaitKeeps
<1>8. CASE RescheduleJob
  BY <1>8, RescheduleKeeps
<1>9. ASSUME NEW j \in jobs, DeleteJob(j) PROVE IInv'
  <2>1. CASE j \in Schedules(jobs)
    BY <1>9, <2>1, DeleteKeeps
  <2>2. CASE j \notin Schedules(jobs)
    BY <1>9, <2>2, WaitKeeps
  <2> QED BY <2>1, <2>2
<1>10. CASE CrashAndRestart
  BY <1>10, RestartKeeps
<1> QED
  BY <1>1, <1>2, <1>3, <1>4, <1>5, <1>6, <1>7, <1>8, <1>9, <1>10 DEF Next

LEMMA Invariant == QueueAssumption /\ Spec => []IInv
<1>1. QueueAssumption /\ Init => IInv
  BY InitIInv
<1>2. QueueAssumption /\ IInv /\ [Next]_vars => IInv'
  BY StepKeeps
<1> QED
  BY <1>1, <1>2, QueueAssumption, PTL DEF Spec

\* deploy, for any keys, models, instances and bounds: unless its last deployment
\* raised or was cut off, the schedules of a key are those of the version in
\* force, one for a start event.
THEOREM Current == Spec => []SchedulesAreCurrent
<1>1. IInv => SchedulesAreCurrent
  <2> SUFFICES ASSUME IInv, NEW j \in Schedules(jobs), j.key \notin halfway
               PROVE  /\ j.nth = defs[j.key].nth
                      /\ j.node \in Timed(defs[j.key].model)
                      /\ \A k \in Schedules(jobs) : k.key = j.key /\ k.node = j.node => k = j
    BY DEF SchedulesAreCurrent
  <2>1. j.key \in Keys
    BY DEF IInv, Types, Schedules, Job
  <2>2. AreOf(Schedules(jobs), defs, j.key)
    BY <2>1 DEF IInv, MemoryCurrent
  <2> QED BY <2>2 DEF AreOf, IInv, OneRecord, Known
<1> QED
  BY <1>1, Invariant, QueueAssumption, PTL

\* _execute_job, for any number of failures, restarts and deployments: a planned
\* moment starts one instance, unless a crash kept its plan from being saved.
THEOREM FiresOnce == Spec => MomentsFireOnce
<1>1. ASSUME IInv, [Next]_vars
      PROVE  [step'.at = "started" /\ step.at # "started" => Slot(step'.job) \notin fired]_vars
  <2> SUFFICES ASSUME Next, step'.at = "started", step.at # "started"
               PROVE  Slot(step'.job) \notin fired
    BY <1>1
  <2>1. PICK j \in round : FireTimerStart(j)
    BY DEF Next, Deploy, DeployRaises, SaveDeployment, SyncSchedules, Poll, SkipJob, Turn,
           FailTimerStart, MissTimerStart, RunWait, FailWait, RescheduleJob, DeleteJob,
           CrashAndRestart, Tick, Rest
  <2>2. step'.job = j
    BY <2>1 DEF FireTimerStart
  <2> QED BY <1>1, <2>1, <2>2, FireKeeps, QueueAssumption
<1> QED
  BY <1>1, Invariant, QueueAssumption, PTL DEF Spec, MomentsFireOnce

=============================================================================
