---------------------------- MODULE DurableEngine ----------------------------
(***************************************************************************)
(* The engine with a store: at the end of a command the instance is written *)
(* to the tables as a whole, a job that raises is rolled back to what the  *)
(* tables hold, and an engine that is started again goes on from there.    *)
(*                                                                         *)
(* The joins and the subscriptions are not stored: a restart and a rollback *)
(* derive them from the executions.  A rollback does so on top of the      *)
(* subscriptions there are.                                                *)
(***************************************************************************)
EXTENDS EventEngine, Functions

CONSTANTS
  Retries,   \* DEFAULT_MAX_RETRIES: how often a job may fail
  MaxFaults  \* how often a job fails, or the engine ends and is started again

DurableAssumption == Retries \in Nat \ {0} /\ MaxFaults \in Nat

ASSUME DurableAssumption

VARIABLES
  disk,    \* the rows of the instance
  left,    \* the retries each job in memory has left
  kept,    \* the same column of the stored jobs
  failed,  \* the job whose exception _execute_job is handling
  faults   \* the failures and restarts so far

dvars == <<evars, disk, left, kept, failed, faults>>

failing == failed # NoCmd

-----------------------------------------------------------------------------
(* What is written and what is read back.                                  *)

\* The executions that _build_snap reaches from the root.
Reached(x) ==
  Below(x, Root) \cup (IF Root \in DOMAIN x /\ x[Root].live THEN {Root} ELSE {})

\* A stored job has no activity_id, the scope of an event subprocess.
Row(j) == [j EXCEPT !.scope = None]

\* Faulty variant of Image: a snapshot without the jobs.
ImageWithoutJobs ==
  [ex |-> [e \in Reached(ex) |-> ex[e]], tasks |-> tasks, jobs |-> {}, over |-> completed]

Image ==
  [ex |-> [e \in Reached(ex) |-> ex[e]],
   tasks |-> tasks,
   jobs |-> {Row(j) : j \in jobs},
   over |-> completed]

\* The retries of row r, and of every job in memory; a job that is new has them all.
RetriesOf(f, r) == IF r \in DOMAIN f THEN f[r] ELSE Retries
Counts(f) == left' = [r \in {Row(j) : j \in jobs'} |-> RetriesOf(f, r)]

\* The snapshot of the instance is written as a whole.
Written == disk' = Image' /\ kept' = left'

\* Faulty variant of Runnable: the last retry is never taken.
RunnableBeforeLast(j) == RetriesOf(left, Row(j)) > 1

\* A dead letter stays on disk and is not run any more.
Runnable(j) == RetriesOf(left, Row(j)) > 0

\* load_active_instances finds an instance by its executions and its tasks.
Found(d) == d.ex # <<>> \/ d.tasks # {}

RestoredExecutions ==
  [e \in DOMAIN ex |-> IF e \in DOMAIN disk.ex THEN disk.ex[e] ELSE [ex[e] EXCEPT !.live = FALSE]]

RestoredJobs ==
  {IF j.kind = "timer-event-start" THEN [j EXCEPT !.scope = Top] ELSE j : j \in disk.jobs}

\* Faulty variant of RestoredJoins: what waits at a join is not told from a fork.
NoJoins(x) == {}

\* A token that stands at a parallel gateway waits there.
RestoredJoins(x) ==
  {[node |-> x[e].act, ex |-> e, nth |-> 0] :
     e \in {e \in DOMAIN x : /\ x[e].live
                             /\ x[e].role # "SCOPE"
                             /\ x[e].act \in Nodes
                             /\ Kind(x[e].act) = "parallel"
                             /\ Here(x, e, x[e].act)}}

\* The executions of x that wait on an activity that is open.
Waiting(x) ==
  {e \in DOMAIN x : x[e].live /\ x[e].open # None /\ x[e].act \in Nodes /\ Here(x, e, x[e].act)}

\* Execution e waits inside a subProcess, for an event, or at a host of boundaries.
OpensScope(x, e) == x[e].role = "SCOPE" /\ Kind(x[e].act) \in SubKinds
Catches(x, e) == x[e].role # "SCOPE" /\ Kind(x[e].act) = "eventCatch"
IsHost(x, e) ==
  /\ Attached(x[e].act) # {}
  /\ IF x[e].role = "SCOPE"
     THEN Kind(x[e].act) = "sub"
     ELSE /\ Kind(x[e].act) = "user" \/ x[e].act \in Proc.before
          /\ Kind(x[e].act) \notin {"catch", "eventCatch"}

Listeners(x) == {e \in Waiting(x) : OpensScope(x, e) \/ Catches(x, e) \/ IsHost(x, e)}

\* The event subprocesses and the events that e listens for and is not registered
\* for in s; a catch is registered without a look at s.
StartsMissing(x, s, e) ==
  IF OpensScope(x, e)
  THEN EventStarts(x[e].act, "eventStart") \ Registered(s, e, x[e].act)
  ELSE {}
EventsMissing(x, s, e) ==
  CASE Catches(x, e) -> {x[e].act}
    [] IsHost(x, e) ->
         {b \in Attached(x[e].act) : Kind(b) = "eventBoundary"} \ Registered(s, e, None)
    [] OTHER -> {}

\* _rebuild_event_subscriptions, over the executions in that order: what is
\* registered for one comes behind what was registered for those before it.
RestoredSubs(x, old, order) ==
  LET s == WithStartSubs(old, Root, Top)
      Places(e, c, ns, k) ==
        {[node |-> Events[i].node, ex |-> e, scope |-> c, at |-> Latest(s) + k * Len(Events) + i] :
           i \in {i \in DOMAIN Events : Events[i].node \in ns}}
  IN  s \cup UNION {Places(e, x[e].act, StartsMissing(x, s, e), 2 * order[e])
                      \cup Places(e, None, EventsMissing(x, s, e), 2 * order[e] + 1) : e \in Listeners(x)}

\* ... and its boundary timers, each for the first host in that order.
RestoredTimers(x, order) ==
  LET Hosts == {e \in Listeners(x) : IsHost(x, e)}
      First == {e \in Hosts : \A d \in Hosts : x[d].act = x[e].act => order[e] <= order[d]}
  IN  RestoredJobs \cup UNION {WithBoundaries(RestoredJobs, e, x[e].act) : e \in First}

\* The rows are read in no particular order.
Orders(x) == Injection(Listeners(x), 1..Cardinality(Listeners(x)))

\* _restore_instance: an instance that is over, or has no root, listens for nothing.
Restore(old) ==
  LET x == RestoredExecutions
  IN  /\ ex' = x
      /\ tasks' = disk.tasks
      /\ joins' = RestoredJoins(x)
      /\ completed' = disk.over
      /\ IF disk.over \/ Root \notin DOMAIN disk.ex
         THEN jobs' = RestoredJobs /\ subs' = old
         ELSE \E order \in Orders(x) :
                /\ jobs' = RestoredTimers(x, order)
                /\ subs' = RestoredSubs(x, old, order)

\* No row is left: there is no such instance.
Absent ==
  /\ ex' = Ended(ex, DOMAIN ex)
  /\ tasks' = {}
  /\ joins' = {}
  /\ jobs' = {}
  /\ subs' = {}
  /\ completed' = TRUE

-----------------------------------------------------------------------------
(* The steps of the engine.                                                *)

\* An exception in a job is handled before the lock is released.
Failing ==
  /\ failed' = IF cmd \in Job /\ cmd' = NoCmd THEN cmd ELSE NoCmd
  /\ failing' => faults < MaxFaults
  /\ faults' = IF failing' THEN faults + 1 ELSE faults

Unsaved == Counts(left) /\ UNCHANGED <<disk, kept>>
Saved   == Counts(left) /\ Written

\* A step that writes nothing.
Quiet ==
  \/ Engine \/ HostWaits \/ ScopeOpens \/ ScopeCloses \/ ErrorTakesOver
  \/ EnterEventCatch \/ ThrowEvent
Inside ==
  /\ Quiet
  /\ Failing
  /\ Unsaved

\* The event fired last has been dealt with; a boundary that does not interrupt
\* is the one that is not saved.
HitIsSaved ==
  /\ Answered
  /\ Current.firing # None
  /\ Kind(Current.firing) = "eventBoundary" => Current.firing \in Proc.cancel

\* What it did is written before the next one is fired.
SaveHit ==
  /\ HitIsSaved
  /\ disk' = Image
  /\ kept' = left
  /\ calls' = [calls EXCEPT ![1].firing = None]
  /\ UNCHANGED <<vars, subs, left, failed, faults>>

Settle ==
  /\ ~HitIsSaved
  /\ DropStaleSub \/ HearCatch \/ HearInterruptingBoundary \/ HearNonInterruptingBoundary
     \/ HearInterruptingStart \/ HearNonInterruptingStart \/ ResumeThrower \/ AnswerCaller
  /\ Failing
  /\ Unsaved

\* The command is over, or the job is thrown away, and what it did is written.
Save ==
  /\ ~failing
  /\ ReturnCommand \/ \E j \in jobs : Runnable(j) /\ DropStale(j)
  /\ Saved
  /\ UNCHANGED <<failed, faults>>

Begins ==
  /\ ~failing
  /\ \/ Command0
     \/ \E t \in tasks : Complete(t)
     \/ \E j \in jobs : TimerCancelsHost(j) \/ TimerTakesOver(j) \/ TimerStartsBeside(j)
     \/ \E n \in EventNodes : CorrelateMessage(n) \/ ThrowSignal(n)
  /\ cmd' \in Job => Runnable(cmd')
  /\ Unsaved
  /\ UNCHANGED <<failed, faults>>

\* Faulty variant of Rollback: the memory stays as the job has left it.
RollbackNothing ==
  /\ failing
  /\ failed' = NoCmd
  /\ disk' = Image
  /\ kept' = left
  /\ UNCHANGED <<evars, left, faults>>

\* _rollback_instance, the retry the job has spent, and the save after it; an instance
\* that was never saved cannot be rolled back.
Rollback ==
  /\ failing
  /\ IF Found(disk) THEN Restore(subs) ELSE UNCHANGED <<ex, tasks, jobs, joins, subs, completed>>
  /\ UNCHANGED <<queue, collapsing, cmd, calls>>
  /\ LET before == IF Found(disk) THEN kept ELSE left
     IN  left' = [r \in {Row(j) : j \in jobs'} |->
                    RetriesOf(before, r) - (IF r = Row(failed) THEN 1 ELSE 0)]
  /\ Written
  /\ failed' = NoCmd
  /\ UNCHANGED faults

\* claim_task, set_variable and the like save the instance as it is.
Touch ==
  /\ AtRest /\ ~failing /\ ~completed
  /\ disk # Image
  /\ disk' = Image
  /\ kept' = left
  /\ UNCHANGED <<evars, left, failed, faults>>

DeleteInstance ==
  /\ AtRest /\ ~failing
  /\ ex # <<>> /\ ~completed
  /\ Absent
  /\ Saved
  /\ UNCHANGED <<queue, collapsing, cmd, calls, failed, faults>>

\* The process of the engine ends at any moment and is started again.
Crash ==
  /\ faults < MaxFaults
  /\ ex # <<>>
  /\ IF Found(disk) THEN Restore({}) ELSE Absent
  /\ queue' = <<>>
  /\ collapsing' = FALSE
  /\ cmd' = NoCmd
  /\ calls' = <<>>
  /\ Counts(kept)
  /\ failed' = NoCmd
  /\ faults' = faults + 1
  /\ UNCHANGED <<disk, kept>>

-----------------------------------------------------------------------------
DInit == EInit /\ disk = Image /\ left = <<>> /\ kept = <<>> /\ failed = NoCmd /\ faults = 0

DNext ==
  \/ Inside
  \/ Settle
  \/ SaveHit
  \/ Save
  \/ Begins
  \/ Rollback
  \/ Touch
  \/ DeleteInstance
  \/ Crash

DSpec == DInit /\ [][DNext]_dvars

\* What a token waits for comes: its task is done, its job is run, its message is
\* sent.
Answers ==
  /\ ~failing
  /\ \/ \E t \in tasks : Complete(t)
     \/ \E j \in jobs : /\ Runnable(j)
                        /\ FireTimerCatch(j) \/ RunAsyncContinuation(j)
                        /\ UNCHANGED <<subs, calls>>
     \/ \E n \in EventNodes : Kind(n) = "eventCatch" /\ CorrelateMessage(n)
  /\ Unsaved
  /\ UNCHANGED <<failed, faults>>

\* The engine runs on, and what is waited for comes.  No deadline or limit need be
\* due; nobody need restart, delete or touch anything.
DLiveSpec == DSpec /\ WF_dvars(Inside \/ Settle \/ SaveHit \/ Save \/ Rollback) /\ WF_dvars(Answers)

-----------------------------------------------------------------------------
(* Properties.                                                             *)

\* Whatever moment the engine is started again at, nobody is forgotten: on disk
\* every execution waits for exactly one task, job, join or event, or for its
\* subtree (a command that did not finish is lost as a whole).
StoredTokensWait ==
  \A e \in DOMAIN disk.ex :
    LET d == disk.ex[e]
        n == Cardinality({t \in disk.tasks : t.ex = e})
             + Cardinality({j \in disk.jobs : j.ex = e /\ j.kind \notin {"timer-boundary", "timer-event-start"}})
             + Cardinality({w \in RestoredJoins(RestoredExecutions) : w.ex = e})
             + (IF d.act \in Nodes /\ Kind(d.act) = "eventCatch" /\ d.open # None THEN 1 ELSE 0)
    IN  /\ n <= 1
        /\ n = 0 => \E c \in DOMAIN disk.ex : disk.ex[c].path # <<>> /\ Head(disk.ex[c].path) = e

\* What a restart at this moment would make of the rows.
AfterRestart ==
  LET x == RestoredExecutions
      order == CHOOSE order \in Orders(x) : TRUE
  IN  [joins |-> {[w EXCEPT !.nth = 0] : w \in RestoredJoins(x)},
       subs |-> {[s EXCEPT !.at = 0] : s \in RestoredSubs(x, {}, order)},
       jobs |-> RestoredTimers(x, order)]
InMemory ==
  [joins |-> {[w EXCEPT !.nth = 0] : w \in joins},
   subs |-> {[s EXCEPT !.at = 0] : s \in {s \in subs : ~Gone(s) /\ ~Left(s)}},
   jobs |-> jobs]

Clean == AtRest /\ ~failing /\ ~completed /\ disk = Image

\* What is derived from the rows is what the engine had: whoever waits at a join
\* or listens for an event still does so after a restart, and no timer is lost.
RestartForgetsNothing ==
  Clean =>
    /\ InMemory.joins \subseteq AfterRestart.joins
    /\ InMemory.subs \subseteq AfterRestart.subs
    /\ InMemory.jobs \subseteq AfterRestart.jobs

\* A job that a token waits for has failed too often.
Stuck == \E r \in disk.jobs : r.kind \in WaitKinds /\ kept[r] = 0

\* An instance that is on disk ends, however often the engine is restarted or a job
\* fails, unless a job that a token waits for has become a dead letter.
EndsOrDeadLetter == Found(disk) ~> disk.over \/ Stuck

\* A reads back as b: joins and subscriptions aside, b has in addition only the
\* boundary timers that are registered again.
Restores(a, b) ==
  /\ b.ex = a.ex /\ b.tasks = a.tasks /\ b.over = a.over
  /\ a.jobs \subseteq b.jobs
  /\ \A j \in b.jobs \ a.jobs : j.kind = "timer-boundary"

\* Who works on the instance.
Worker ==
  IF failing THEN "undo"
  ELSE IF cmd \in Job THEN "job"
  ELSE IF cmd = NoCmd THEN "no" ELSE "user"

Abs ==
  INSTANCE Transactions WITH
    Found <- Found,
    Restores <- Restores,
    saved <- disk,
    working <- Image,
    busy <- Worker

\* The engine keeps what the store promises about its commands.
CommandsAreTransactions == Abs!Spec
=============================================================================
