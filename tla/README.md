# Verification of camunda-python

TLA+ models of the process engine in `camunda/`, TLC configurations that check
them on small instances, and theorems that TLAPS proves for every instance. Every
definition is translated from the source; `PROJECT.json` maps each to its lines.
Line numbers below are of `camunda/engine/process_engine.py` unless another file
is named.

## The system

`ProcessEngine` executes BPMN processes in memory, under one re-entrant lock, and
optionally writes every instance to a database through `Store`. `JobExecutor`
threads, in one or several OS processes, execute due jobs. A DMN engine evaluates
decision tables for business rule tasks.

| component | state | operations | interacts with | modelled in |
|---|---|---|---|---|
| token engine | executions (a tree), tasks, jobs, join arrivals of each instance | start, complete_task, job bodies, `_pump`, `_collapse_scopes` | persistence (save after each command), behaviours (delegates) | `TokenEngine` |
| message and signal events | `_event_subs` | correlate_message, throw_signal, throw events | token engine (a `_pump` inside a `_pump`) | `EventEngine` |
| multi-instance | counters on executions (`mi`) | `_enter_multi_instance`, `_complete_mi_instance` | token engine | `MultiEngine` |
| persistence | `ACT_RU_*`, `ACT_HI_*` | save_proc_inst, load_active_instances, from_database, `_rollback_instance` | every command | `DurableEngine` |
| job leases | lock columns of `ACT_RU_JOB` | acquire_due_jobs, complete_job_cas, reschedule_job_cas, extend_lock | executors, clock | `JobLease` |
| job executors | a polling thread with a lock owner | tick, start, shutdown | engine (`_execute_due_jobs_db`), leases | `JobCluster` |
| jobs in memory | `_jobs`, retries, due dates | `execute_due_jobs`, `_execute_job`, `_degrade_after_failure`, `_reschedule_or_remove` | token engine, clock | `JobQueue` |
| deployment, timer starts | definitions, versions, schedules | deploy, `_sync_timer_start_jobs`, `_fire_timer_start` | jobs, store | `JobQueue` |
| DMN and FEEL | deployed tables | evaluate | business rule tasks | `Feel`, `Decisions` |
| parsers | none | XML to model objects | deployment | not modelled |
| REST API | none | routers, pagination | engine | not modelled |

Where it is hard:

* **Tokens.** An execution is a TOKEN at a node or a SCOPE with children. The
  container of a token (which process its node ids belong to) is not stored but
  derived from what its ancestors are parked on; a join resumes the nearest SCOPE
  above the last arrival; boundary timers are kept per node, not per token;
  `_collapse_scopes` revives subProcesses bottom up. Each is right only as long as
  all the others kept their part.
* **Cancellation.** Boundaries, event subprocesses and completion conditions end
  subtrees of any shape, and must take with them tasks, jobs, join arrivals,
  subscriptions and loop counters.
* **Nested pumps.** A throw event or a loop runs a `_pump` of its own in the middle
  of another, which finds a changed instance when it goes on.
* **Exceptions.** Without a store a command that raises leaves what it had done;
  with one, a job is rolled back and a user command is not.
* **What is not stored.** Joins and subscriptions are derived from the executions
  by a restart; whatever is not derived is lost.
* **Leases.** Between the SELECT and the UPDATE of an acquisition others commit;
  leases run out while a job runs; executors crash holding them.
* **Two memories, one table.** `save_proc_inst` rewrites all rows of an instance
  from one engine's memory, and `_execute_due_jobs_db` runs without the engine lock.
* **Commands of two transactions.** deploy and a timer start commit twice; a crash
  may come between.

What correct means: no token is lost or doubled and every wait has exactly the
timers and subscriptions it should (engine); a loop leaves its activity once and
with no instance left over (multi-instance); a command is on disk as a whole or not
at all, and a restart forgets nothing (persistence); one holder per live lease
(leases); no job dropped or run twice (executors); each planned moment starts one
instance, under the version in force (timer starts); a rule hits when it says so,
and the hit policies agree with one another (DMN).

## Modules

Every `MC…` module holds the instances on which its namesake is checked.

| module | models | extends or refines |
|---|---|---|
| `TokenEngine` | one instance of any process definition, in an engine without a store | |
| `EventEngine` | messages and signals | extends `TokenEngine` |
| `DurableEngine` | the store, rollback, crash and restart | extends `EventEngine`; implements `Transactions` |
| `Transactions` | abstract: what the store promises about commands | |
| `MultiEngine` | multi-instance activities | extends `TokenEngine`, `LoopCounters`; implements `MultiInstance` |
| `LoopCounters` | the counters of a loop and when it is done | |
| `MultiInstance` | abstract: what a loop promises | |
| `JobLease` | the lock columns of the job table, one SQL statement per step | |
| `JobCluster` | engines with memories of their own on one job table, executor threads and user commands | |
| `JobQueue` | one engine with a store: deployments, timer starts, retries, dead letters | |
| `Feel` | FEEL expressions and unary tests by recursive descent | |
| `Decisions` | decision tables and hit policies | extends `Feel` |
| `TokenEngine_proofs`, `EventEngine_proofs`, `DurableEngine_proofs`, `JobLease_proofs`, `JobCluster_proofs`, `JobQueue_proofs`, `MultiInstance_proofs` | theorems | extend their namesakes; the first three also one another |
| `TokenPlaces_proofs` | theorems on where tokens wait, and that none is lost | extends `TokenEngine_proofs` |

### TokenEngine

`Proc` is the deployed definition: kind, outgoing flows, container, boundary host,
error code of each node, which nodes are async, interrupt or may raise.
`ProcAssumption` states what the parser guarantees (flows stay in their container,
event subprocesses and boundaries have no incoming flow).

| variable | code |
|---|---|
| `ex` | `pi.executions` in creation order; `path` the parent chain, `role`, `live` = state ACTIVE, `act` = activity_id, `open` = open_activity |
| `tasks`, `jobs` | `_tasks` and `_jobs` of the instance; a job's `scope` is its activity_id, `nth` tells a new job from the equal one that is running |
| `joins` | `pi.join_arrivals`, without the order of the lists, which nothing reads |
| `queue` | the arrival list of `_pump` |
| `collapsing` | inside `_collapse_scopes` |
| `cmd` | the command that holds the lock |
| `completed` | `pi.is_completed` |

Every public command is an action that does what the code does before it pumps and
leaves the arrivals in `queue`; each node kind of `_dispatch_node` is an action that
takes the head of the queue; each scope that `_collapse_scopes` ends or revives is
a step, as is the end of its scan; `Return` is what follows the pump. Since the lock
is held throughout, cutting a command into steps adds no interleavings: only
`AtRest` states are visible to callers, and most properties speak of them. A step
that raises (`Raise`) keeps what was changed and drops the queue, as the exception
unwinds `_pump`. `_collapse_scopes` scans in creation order; the model leaves the
order open. Behaviours (delegates, conditions) are nondeterministic: an exclusive
gateway takes any flow, or raises when it has none to take; a node in `Proc.fail` may
raise; a subProcess refuses a boundary that does not interrupt (`Refuses`), after it has
registered some of the others (`UntilRefused`). Values of variables, names,
due dates and history rows are left out: a job is due at any time.

### EventEngine

`subs` is `_event_subs` as a set; `at` is the place of a subscription in the order of
registration, which decides who hears a message first. `calls` is the Python stack of suspended pumps: `ThrowEvent` and the
caller's `CorrelateMessage` and `ThrowSignal` push a record of the subscriptions
still to be fired, each `Hear…` action fires one (a stale one is dropped by
`DropStaleSub`), and `ResumeThrower` or `AnswerCaller` pops it when the inner pump is
done. `correlate_message` first reaps the subscriptions whose execution is gone and
takes the earliest left; `throw_signal` works on the list it took. `TokenEngine`'s actions are reused with the registration that goes
with them (`HostWaits`, `ScopeOpens`, `ScopeCloses`, `ErrorTakesOver`).

### DurableEngine

`disk` is the rows of the instance, what `_build_snap` reaches from the root
(`Image`). `Save` is the end of a command; `SaveHit` is the save of
`correlate_message` and `throw_signal` after each subscription they fired, before the
next one is (`Settle`). A job that raises is kept in `failed`; `Rollback` reads the
rows back (`Restore`), spends a retry of the job and saves. `left` and `kept` are the
retries of the jobs in memory and on disk; a job without any is a dead letter, which is
not run again (`Runnable`). An instance that was never saved is not rolled back. `Crash` ends the process at any step and starts it
again with `from_database`, which finds an instance by its executions and tasks
(`Found`). `Touch` and `DeleteInstance` are the commands that move no token (claim,
variables, delete). Variables and history tables are left out.

`Restore` takes executions, tasks and jobs from the rows and derives the rest, as
`_restore_instance` and `_rebuild_event_subscriptions` do: the joins
(`RestoredJoins`), the subscriptions (`RestoredSubs`, on top of those there are) and
the boundary timers (`RestoredTimers`, one for each boundary, which goes to the first
host that comes by). They walk over the executions in the order the rows were read
in, which is none in particular: `Orders` are all of them.

`Transactions` is the promise, in three variables: what is saved, what is in memory
and who works on it. What can be found on disk and what reads back as what are
parameters (`Found`, `Restores`), so that the promise says "a restart brings back
what is saved" and not that the two are equal: boundary timers may be registered
again. The refinement maps `saved` to `disk`, `working` to `Image`, `busy` to `Worker`.

### MultiEngine

`loops` is `Execution.mi` by holder, `outer` the suspended pumps of loops that
started inside a pump. A sequential loop is its own instance; a parallel one is a
scope with a child for each. `StartSequence`, `StartParallel`, `RunServices`,
`CompleteCounted` (a task) and `CollapseCounted` (a subProcess) are the branches of
`_enter_multi_instance` and `_complete_mi_instance`, with the second question to the
completion condition after the others are cancelled (:2197). `RefuseLoop` is a collection
or cardinality that cannot be used, `FailService` a service that raises when some
instances have run. A condition is a set of pairs of completed and active instances.

`MultiInstance` knows the loops that run and which executions are around which, and nothing of
how the engine counts. A loop may only end by `LastOver`: the instance that ends now is the
last of all, or the condition holds of those completed and those left. `InstanceOver` is
for all others, so to end earlier is no step of it, nor is to go on. The only other way to go is with
everything inside an execution that is itself cleared and goes on (`Interrupt`), or inside the
process when an event subprocess takes it over (`TakeOver`). The refinement counts the running
instances in the tree, not from `nrOfActiveInstances`.

### JobLease

`acquire_due_jobs` is three steps, `SelectCandidates`, `ClaimCandidates` (all
conditional UPDATEs; they commit together) and `FetchClaimed`. `asof` is the
`due_before` of the call, `until` the expiry the executor was told. It may then
complete or reschedule its jobs by CAS, extend a lease, or crash. `Free` and `Due` are the
WHERE clauses. The clock is one counter in units of a second.

### JobCluster

`mem` is an engine's `_jobs` (ids and retries), `row` the table. The executor thread
follows `_execute_due_jobs_db`: acquire, then per job look it up in memory
(`BeginJob`, `DropUnknown`), run the body (`FinishJob`, `FailJob` with
`_rollback_instance` and `_degrade_after_failure`), CAS (`WriteBack`), `_build_snap`,
`save_proc_inst`. User commands take the engine lock, which this path does not, so
they come between any two of these steps. What a body or a command does to an
instance is reduced to the jobs it cancels and creates (`Advance`). A body is one
step of the model; the threads it races with read and write what it leaves, so the
model has fewer interleavings than the code, never more. Rows inserted by
`save_proc_inst` have no lock columns (`Unlocked`). Schedules are left to `JobQueue`.

### JobQueue

An engine with a store whose `execute_due_jobs` is called without a lock owner:
`Poll` takes the due jobs into `round`, and each is run, dropped or degraded in turn.
`step` is where a command of two transactions stands: `SaveDeployment` then
`SyncSchedules`, a timer start that saves its instance and then `RescheduleJob`.
`CrashAndRestart` may come at each. An instance is the timers it waits for. A
schedule's `nth` is the version of its definition; `fired` and `halfway` are history. A start
event has no timer, a cycle or a cron expression: a cycle is planned on from its last turn, a cron
from now (`NextOfCron`, the next multiple of its period). A schedule whose node is a start
without a timer in the version in force starts an instance all the same (:3156).

### Feel and Decisions

`Feel` has the token sequences, the recursive descent (`Expr`, `Primary`, `Interval`,
`Comparison`, `Disjunction`, …), which evaluates while it parses as `dmn/feel.py` does,
and a reference: `Written` gives the text of a tree, `Meaning` and `TestMeaning` its
value. `Decisions` deploys a table, evaluates the inputs, tests the rules in order and
applies the hit policy to what hit (`Converged`). Numbers are fractions: float rounding is abstracted.
PRIORITY compares texts without their quotes as well as values: `Spelling` says which strings
a name or a number is spelled like (`Unquoted`).

## Runs

| run | states | question |
|---|---|---|
| flows | 2 460 | fork, join, choice, reminders and deadlines, async services that may fail, a forked subProcess, errors caught inside, by the process or by nobody, event subprocesses that interrupt or run beside; does the instance end |
| raising | 441 | commands that raise halfway: failing behaviours, instances of loops and refused boundaries; stale and repeated jobs |
| events | 9 890 | messages and signals caught, at boundaries, starting event subprocesses, thrown inside the process, and heard by several waits of one scope |
| durable | 244 796 | jobs that fail and become dead letters, crash and restart at any step, on joins, catches, boundaries, subProcess and limits |
| multi_instance | 5 943 | sequential and parallel loops of tasks, services and subProcesses, within one another, cancelled by a condition, a deadline or an event |
| lease | 349 286 | two executors, two jobs, races, failures, extensions, crashes, expiry |
| one_node | 88 566 | executor thread beside user commands, or failing bodies with crash and restart |
| job_queue | 191 237 | deployments, cycles and cron, timers of instances, failures, dead letters, deletions, a crash between any two commits |
| decisions | 84 946 | every expression of depth two, every unary test and lists of them, every policy |

### Properties

`AtRest` means between commands. TypeOK (EventTypeOK) is the type invariant.

Token engine:

* `EveryTokenWaits`: a live execution waits for a task, job or join or for its children, and
  not for both. A lost token and a scope nobody will collapse violate it.
* `NeverInTwoPlaces`: it waits for one task, job or join at most.
* `WaitsAreCurrent`: tasks and wait jobs belong to live tokens still on that node.
* `BoundariesGuardHost`: boundary timers stand on open hosts, and each open host has its
  interrupting ones.
* `JoinsHoldWaitingTokens`: joins hold live tokens on the gateway, none twice, never enough.
* `InterruptingTakesOver`: an interrupting event subprocess is alone in the scope it took over.
* `SubscriptionsFollowScopes`: event subprocess timers belong to scopes that still run.
* `CompletedIsInert`: completion leaves nothing behind.
* `EndedForever` (step): executions do not come back or move in the tree, completed instances
  stay completed and get no jobs.
* `SubtreeEndsFirst`: a completed instance has no execution left (violated, see below).
* `InstanceEnds` (liveness).

Events:

* `EveryTokenWaitsOrListens`: the same with catch events: one who catches has the one
  subscription it needs.
* `SubscriptionsAreCurrent`: between commands nobody is subscribed to what it does not wait for.
* `ListenersInPlace`: hosts with event boundaries and scopes with event subprocesses have all
  their subscriptions, unless the scope was interrupted.
* `OnlyHeldFire` (step): what was withdrawn while the event was on its way is not fired all the same. A signal
  of `events` cancels a subProcess through one boundary while a second boundary of it and a catch inside it
  are still to hear it. The formula names the one exception, which `events` has too: of two starts in one scope that
  hear the same signal, the first withdraws the second, and the second is fired (:596).
* `CommandReturns` (liveness).

Persistence:

* `StoredTokensWait`: at every moment, on disk, each execution waits for exactly one thing.
* `RestartForgetsNothing`: what a restart derives contains every join arrival, subscription and
  timer the engine had.
* `CommandsAreTransactions`: the refinement of `Transactions`.
* `EndsOrDeadLetter` (liveness): what is on disk ends, or a job it waits for is a dead letter there (`Stuck`).

Multi-instance:

* `CountersMatch`: nrOfActive and nrOfCompleted are what the executions say.
* `InstancesAreCounted`: nobody carries an instance of a loop that does not count it.
* `LoopsKeepCount`: the refinement of `MultiInstance`: a loop ends as soon as enough instances are completed and not before.

Jobs:

* `ExclusiveHold`, `LiveLeaseProtects`, `EveryJobSettles` (leases).
* `RunsOnce`: a job runs once, or again after a crash between body and save;
  `JobsNotDropped`: a row goes only when its job ran or was cancelled; `EveryJobSettles` (cluster).
* `SchedulesAreCurrent`: the schedules in memory are those of the version in force, one per start
  event; `MomentsFireOnce`: no planned moment starts two instances; `EveryDueJobSettles` (queue).
  Each names its exceptions: a deployment that raised or was cut off (`halfway`), and the plan a
  crash kept from being saved.

Decisions:

* `RulesHitAsTheySay`: inputs, tests and outputs have the value of the trees they were written
  from, and no rule that raises is passed. `NullCut` names the texts for which this does not
  hold (below).
* `PoliciesAgree`: the policies make the same of the same hits: UNIQUE, ANY and FIRST give the
  head of RULE ORDER, COUNT counts it, SUM lies between the extremes, PRIORITY is FIRST or MIN where it must be.

### Bounds, and why they are enough

The process definitions are small, but each puts the constructs whose code shares state next to
each other; longer ones repeat the same situations. Tokens are few because a join,
scope or boundary interacts with its parent, its host and its siblings only.

* `MaxLines` (events 9, durable 5): an instance with that many executions is sent no
  event that may start a further line. Without it reminders could be told again for ever. The main
  line needs at most four, so at least one extra line is always possible.
* `Retries` and `MaxFaults` (durable 2 and 3; the code starts with 3 retries): a job becomes a dead letter, with a
  fault to spare for a crash before, between or after its failures, or for a failure of another job.
* `raising` needs no bound: no job of its definition adds executions each time it fails. An async subProcess that
  refuses a boundary would, so the refusal is run at a plain one only (`ScheduleAsyncBefore` models the other).
* Loops have 0 to 3 instances, with no condition, "at least one (two) are completed" or "at most one is still active".
* `lease`: a lease of 1, faults up to moment 2 and a clock up to 4 let a lease be taken, run out,
  be taken over, run out again and settle.
* `one_node`: three jobs of one instance and either two commands, or two failures and a restart
  (`Budgets`); commands and failures together break the store (see below).
* `job_queue`: one key, two deployments of four versions, two faults, two retries, a retry delay of 1 and moments up to 3: a cycle
  fires, fails, is retried, catches up, and is replaced by a second version. More keys are covered by the proof.
* `decisions`: each operator above and below each other one; lists of two and three tests; three rules.

`raising` checks only what must hold however a command breaks off: the stronger
invariants do not hold there, since nothing is rolled back without a store.
Deadlock is not checked anywhere: an instance that has ended, a bounded clock and a used up
budget stop every system here.

### Violations: what the code does and a text denies

| run | what happens | text |
|---|---|---|
| run_twice | two nodes with the instance in memory: a rewrite by one brings back, or unlocks, what the other took, and the job runs again | lines 2944-2945, `README.md:21` |
| partial_join | two of three branches of a subProcess join and end: nobody looks for the third, the subProcess is left and the instance completes while its task still waits | lines 2337 and 2370 |
| mixed_instances | two parallel instances of a subProcess share the joins in it: a token of one completes the join of the other | `docs/USER_GUIDE.md:669` |

The same models show more departures that no run is spent on.

* Roles: an interrupting boundary on a subProcess sends its token on with the role SCOPE. At a join
  it is no longer known after a restart, so that the join never passes (:2764, against :21); at a
  catch event, or a task with event boundaries, it loses its subscriptions the same way (:2851);
  and without any restart `_collapse_scopes` (:2385, :2415) may end it as an empty scope while
  the join still counts it.
* Tokens: the token of a non-interrupting event subprocess is looked up in the subProcess the root
  is parked in (:1004); a task with two outgoing flows leaves a scope nobody collapses (:2416); a
  join counts every incoming flow, also those of boundaries, so they must be merged by an
  exclusive gateway first; two tokens at one task share its deadline; a join of a task with its own
  reminder line leaves an instance that never completes.
* Events: throw_signal fires a subscription that was withdrawn while it walked its list, when two event
  subprocesses of one scope hear the same signal and the first takes the scope over (:596, the exception of
  `OnlyHeldFire`); whoever hears
  an event thrown by another token of its instance saves the instance in the middle of the thrower's
  command (:678), and a crash then forgets the thrower, against `persistence/store.py:5` and :7; a
  non-interrupting boundary is fired without a save (:714).
* Restart and rollback: a rollback doubles catch subscriptions (:2853); the scope of a stored event
  subprocess timer is forgotten (:2621); a scope that was taken over listens again (:2831); a
  reminder that fired is registered again (:2872); an asyncBefore parallel gateway is taken for an
  arrival (:2758); the order of subscriptions is lost; a user command that raises leaves memory that
  the next save writes.
* Cluster: the result of the CAS is ignored, a node that lost its lease rewrites the rows (:3044, :3065,
  against `docs/USER_GUIDE.md:1055`); the executor's snapshot may overwrite a command's save (against
  `camunda/job/executor.py:12`); a node deletes the row of a job whose instance it never loaded (:2998); the update
  of `acquire_due_jobs` takes dead letters (`store.py:584`); a rollback beside a user command reads
  rows back that the command is about to change (:3282); one node's `save_timer_start_jobs` deletes
  the schedules of another (`store.py:493`).
* Multi-instance: the completion condition is asked again after the others are cancelled and may
  then say no (:2195-2197). With a condition like "exactly one instance is still active", which held when the others
  were cancelled and does not any more, the loop is left with no instance and never ends, against
  `docs/USER_GUIDE.md:679`; `LoopsKeepCount` is violated as soon as such a condition is among the
  `ends` of a loop, and the loops of the run have none. The deadline of a loop belongs to the node and not to
  an instance (:1621); loopCounter and elementVariable are variables of the process instance; a
  service that raises in a loop leaves the scope of the loop half done.
* Schedules: an overdue cycle fires once per round until it has caught up (:3249), where the docstring near :2942
  says missed turns are skipped; retries are not given back by a success, so a cycle dies after
  three failures in all; a period below a second never advances; a timer that cannot be read makes
  deploy raise after the old schedules are gone (:279); a crash between the two commits of deploy leaves the new version
  with the old schedules (:285), one between the instance and its plan starts an instance twice
  (:3161); each failed start leaves an instance in memory; R0/… fires once.
* FEEL: an ordered comparison of a missing value answers before it reads its right side
  (`dmn/feel.py:226`), so `< 5, null` never sees its second item and `not(< 5)` raises; what follows a complete test is
  ignored (:191); `(1+2)` is read as an interval; a string "]" closes one (:246); names in input entries
  are null (:387). ANY takes 1 and true for equal; the SUM of nulls is 0 where MIN and MAX are
  nothing.

## Fairness

* `EngineFairness`, `Work`, `MWork`, and `Inside \/ Settle \/ SaveHit \/ Save \/ Rollback`: the thread that runs a
  command is not suspended for ever; a command has no blocking step.
* `JobFairness`, `Answers`: of the jobs only those a token waits for must run (`WaitKinds`); no
  deadline, reminder or limit need ever be due, so none rescues a stuck instance. `JobExecutor._run` polls until it is
  shut down and goes on after an exception.
* `UsersWork`, `UserActs` and the tasks and caught messages in `Answers`: an assumption about users, only for
  `InstanceEnds` and `EndsOrDeadLetter`.
* `WF(Acquire)`, `WF(WriteBack)`, `WF(ExecuteDueJobs)`, `WF(Poll)` and the steps of a round: polling again.
* `WF(SaveCommand)`, `WF(Deployment)`, `WF(RescheduleJob)`: a command that began reaches its save.
* `WF(Tick)`: time passes. Clocks stop at `LastMoment` so that TLC terminates; failures and crashes stop
  earlier so that leases can run out.

Weak fairness suffices everywhere: no step waits for a condition that others keep withdrawing.

## Proofs

What is proved below was first checked by TLC on instances, the inductive invariants included where TLC
can evaluate them.

`TokenEngine_proofs`, for any process definition, from `ProcAssumption`:

* `TypeCorrect`: `Spec => []TypeOK`. `EndedStaysEnded`: `Spec => EndedForever`, whatever commands raise
  halfway.
* `TypeOK` is not inductive, because a handler reads the execution that an event, a task or a job
  names. `IInv` adds that all of them, and every path of the tree, name executions that exist
  (`Tree`, `TaskIn`, `JobIn`, `EventIn`), that a path is a chain of parents (`Linked`), that a timer start belongs to a node's container, that a
  completed instance has no jobs (so no job can fire in it), and that a command runs on an instance
  with a root. `EndedForever` comes from the same steps, each of which is shown to make the tree grow
  (`Grows`). Lemmas on the tree operators come first, then the four ways a handler
  ends (`Raise`, `Continue`, `EndToken`, `Leave`), then one lemma per action.

`TokenPlaces_proofs`, for any process definition whose interrupting deadlines are those of user
and service tasks (`PlainDeadlines`), as long as no command raises (`[][~Raises]_vars`):

* `WaitsStayCurrent` (`WaitsAreCurrent`), `OnePlaceAtMost` (`NeverInTwoPlaces`) and
  `JoinsStayShort` (`JoinsHoldWaitingTokens`).
* `PInv` says that a live execution is held by one task, wait job, join arrival or event of the
  queue, and stands on its node. That is not inductive: what ends, forks or is revived must be held by
  nothing, so what is held has the role TOKEN (`Held`, `Moves`); a deadline takes its host from
  the one place it knows of, so a SCOPE has no open task (`ScopesShut`); the event a command starts
  with is alone in the queue (`OnlyEnters`, `FirstEvent`); and a join passes as soon as it can
  (`NeverEnough`). A job that runs is not pending, and the one it may register again is another (`nth`).
* Both hypotheses are needed: a command that raises leaves its job to a token that went on, and a
  subProcess that is cancelled keeps the role SCOPE and may be collapsed while it waits at a join (see Roles above).

The second half of `TokenPlaces_proofs` is about the tree, for definitions with `PlainDeadlines` where
only gateways fork (`ForksAtGateways`), and for the behaviours `WellRun`:

* `NoTokenLost` (`EveryTokenWaits`), `SubscriptionsHaveScopes` (`SubscriptionsFollowScopes`),
  `RootEndsLast` (`SubtreeEndsFirst`) and `CompletedStaysInert` (`CompletedIsInert`).
* `WellRun` is `Spec` where no command raises and at every moment: `JoinsWhole`, a join that passes takes exactly the
  branches of the fork it revives (at the root other lines may go on beside them), and `Resolves`, a live execution
  finds the node it stands on in its own container. `RootEndsLast` is the property that `partial_join` refutes:
  the theorem says that what is wrong with that definition is its join, and nothing else in the engine. A command
  that raises loses its tokens (`raising`), a task with two outgoing flows makes its token a scope nobody
  collapses, and so would a scope whose node is not found. The container of an execution
  is computed down the tree (`Container`), so that to derive `Resolves` takes induction over the tree, which is
  out of the prover's reach. None of the conditions names what is to be proved: they speak of the
  definition, of one lookup and of the moment a join passes.
* `TInv` says that a live execution is busy (a task, a wait job, a join arrival or an event of the queue is its own)
  or waits for its subtree in a way `_collapse_scopes` will notice: on a subProcess or a fork, or at the root with
  nothing open (`Parked`), with a live child, or else the scopes are being collapsed (`Attended`). Beside it stand
  the shape of what lives: every path reaches the root and lives as a whole (`Rooted`, `LiveUp`), a token below the root
  has no children (`Leaves`), a fork has nothing open (`ForksShut`), a subscription is of a live scope parked on its
  subProcess (`SubsFollow`), the event that starts a command has closed its activity (`FirstLeaves`), and the
  instance is completed when the root is dead (`RootEnds`).
* The steps change the tree in few ways, each with a lemma: an execution changes in place (`AltersTended`), subtrees end
  (`CutsTended`, `PruneTended`), children are added (`AddsTended`, `ForkTended`, `BesideTended`), a join revives its fork
  (`JoinTended`), an event subprocess takes over (`TakeOverTended`). Their premises are packed into a predicate
  of their own (`Cutting`, `Adding`, ...). Then comes one lemma per action.
* The conditions can be met: in all 2314 states of the process of `flows` with the deadline of its subProcess moved to
  the task `ship` (`[FlowTable EXCEPT !.host["slow"] = "ship"]`, so that `PlainDeadlines` holds) TLC finds `TInv`,
  `Resolves` and `JoinsWhole` true, and no step that raises.

`EventEngine_proofs`, for any definition and any events, from `ProcAssumption` and `EventAssumption`:

* `EventTypeCorrect` (`EventTypeOK`) and `EventsEndedStayEnded` (`EndedForever`), with nested pumps
  and whatever raises.
* A suspended throw holds events and subscriptions while what it set off changes the tree. `EInv` adds to
  `IInv` that these, and the table, refer to executions that exist, and that the places in the order
  of registration are bounded, so that a new subscription comes behind all others. The handlers taken
  over from `TokenEngine` keep `IInv` by the lemmas there; a handler that fires a subscription is
  shown to leave the tree as the job it resembles does.

`DurableEngine_proofs`, for any definition without throw events (`NoThrows`), any commands, failures and
restarts at any step:

* `DurableImplements`: `DSpec => CommandsAreTransactions`, step by step: every action is one of
  `Transactions` under the mapping, or a stutter. `DurableInvariant` and `DurableTypeCorrect`
  (`EventTypeOK`) come on the way.
* That a restart brings back exactly what is on disk needs to know what is on disk. `DInv` adds to `EInv`
  that the stored executions are alive, stand where the executions of the memory with the same ids
  stand, and hang below the root by one another (`RowsOf`, `Hangs`), so that what is read back would be
  written as it was (`RestoredReach`); and that a command that ends leaves no event and no
  suspended call behind (`Idle`), so that a failed job is told from one that runs. The restored
  memory satisfies `EInv` again, for every order of the rows (`RestoreSound`).
* The hypothesis is needed: who hears an event thrown by a job saves the instance in the middle of it
  (:678, see Events above), and then the job is not all or nothing.

`JobLease_proofs`, for any executors, jobs, lease, batch, delays and clock, from `LeaseAssumption`:

* `TypeCorrect`, `Exclusive` (`ExclusiveHold`), `LeaseProtects` (`LiveLeaseProtects`).
* That two memories do not hold one live lease follows from `LeaseBacked`, a lease an executor takes for
  live is the one in the row, which needs `AcquiresNow` (no acquisition began in the future, so a row
  free at `asof` has expired by `now`) and `HoldsAtWork` (an acquisition does not start with jobs in hand).

`JobCluster_proofs`, for any instances, jobs, lease, retries and budgets, from `ClusterAssumption`:

* `TypeCorrect` for any number of engines.
* `OneEngineRunsOnce`: `RunsOnce` on one engine (`Alone`) when commands and failures do not come
  together (`Apart`). A job runs from memory, and memory is read back from the rows after a failure; so
  `OnceInv` says that what is in memory, at hand, or in a row that is not just being written back has
  not run since the last restart, and that what has run or is stored was born, so that no advance
  creates it anew. Both hypotheses are needed: `run_twice` shows the first, a rollback beside
  a command the second.
* `OneEngineKeepsJobs`: `JobsNotDropped` on one engine. `InMemory` says that the job of every row that was neither
  run nor cancelled is in memory, which makes `DropUnknown` safe; `SnapIsMemory` that a snapshot is
  what memory holds, which makes the rewrite safe.

`JobQueue_proofs`, for any keys, models, retries, faults and clock, from `QueueAssumption`:

* `Current` (`SchedulesAreCurrent`) and `FiresOnce` (`MomentsFireOnce`).
* Schedules live in two places that differ between the commits of a command, so `IInv` speaks of `Known`, those
  in memory and in the table together: `OneRecord` of a slot, `PlannedAfter` every moment that fired
  (less the one whose plan is not saved yet), `NextIsNew`, `MemoryCurrent`, `TableCurrent` and
  `DeploymentSaved`. A cron is planned from now, which is past the moment that fired because a job only runs when
  it is due (`RoundIsDue`).

`MultiInstance_proofs`, for any loops and conditions:

* `LoopsAreSound`: what keeps the promise is sound. A loop that runs has an instance to wait for, one at
  a time or all that are not completed, and is not past its end, whatever is interrupted or taken over around it.

Only model-checked:

* `BoundariesGuardHost` and `InterruptingTakesOver` do not hold for every definition: an async activity that
  another token enters in the same command finds its deadline already registered, and a process whose error start took over while it
  was started gets its root's timer starts all the same (`Return`). They are properties of the definitions
  checked, which have neither. The proved `EveryTokenWaits`, `SubscriptionsFollowScopes` and `CompletedIsInert` are
  checked on definitions with an interrupting deadline at a subProcess too, to which the theorems do not apply.
* Nor do `EveryTokenWaitsOrListens`, `SubscriptionsAreCurrent`, `ListenersInPlace`, `OnlyHeldFire`, `StoredTokensWait`,
  `RestartForgetsNothing`, `CountersMatch`, `InstancesAreCounted` and `LoopsKeepCount` hold for every definition: a
  join may be partial, a deadline may cancel a subProcess, and a join inside an instance may resume what carries it.
* `Feel` and `Decisions`, whose operators are recursive, and all liveness, which is out of the prover's
  reach.

## Not modelled

* The BPMN and DMN parsers translate XML to objects and keep no state; their result is the constant
  `Proc`, `Events`, `Loops`, `Models` or `Tables`. `ProcAssumption` names what the engine relies on.
* REST routers, schemas and pagination translate requests to engine calls and keep no state.
* Variables, history tables, assignment of tasks, expressions on Python values, the tokenizer of FEEL,
  cron and ISO 8601 texts: data the properties do not tell apart. A condition is any answer or an
  exception.
* Several instances at once, in the engine modules: instances share only the table of subscriptions,
  which `EventEngine` has for one, and the job table, which `JobCluster` and `JobQueue` have for
  all. (No instance can be started by a message, :371.)
* Daylight saving: times are local strings compared as strings; in the models time is a counter
  that grows.

## What could come next

1. `DurableEngine` with several instances on `JobCluster`, so that one run shows what a lost update
   does to tokens.
2. `StoredTokensWait` and `RestartForgetsNothing` for the definitions without partial joins and takeovers,
   on top of `RowsOf` and of what `TokenPlaces_proofs` knows of the waits.
3. `PlainDeadlines` weakened to deadlines of a subProcess whose token is not at a join afterwards, and
   `JoinsWhole` derived from conditions on the definition alone.
4. Two engines that deploy on one store (`store.py:493`).
