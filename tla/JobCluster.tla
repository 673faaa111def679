----------------------------- MODULE JobCluster -----------------------------
(***************************************************************************)
(* The job executors of several engines that share one store, as           *)
(* _execute_due_jobs_db runs them: take a batch of leases, run each job on *)
(* this engine's memory, write the outcome back by CAS, then rewrite the   *)
(* rows of the whole instance from memory (save_proc_inst).                *)
(*                                                                         *)
(* An executor thread does not hold the engine lock, so the commands of    *)
(* users run beside it on the same memory.  An instance is the set of its  *)
(* pending jobs; an acquisition is one step (JobLease has its races) and a *)
(* retry is not put off.  "ran", "born" and "cancelled" are history.       *)
(***************************************************************************)
EXTENDS Integers, FiniteSets

CONSTANTS
  Nodes,         \* the engines, each with a JobExecutor of its own
  Instances,
  Jobs,
  InstanceOf,    \* the instance of each job
  FirstJobs,     \* the jobs that exist at the start
  None,
  LeaseSeconds,
  MaxRetries,
  Budgets,       \* bounds: the user commands, the job bodies that raise, and the crashes,
                 \* each followed by from_database, that may come together
  LastMoment     \* bound: the clock stops here; a crash comes a lease before

ClusterAssumption ==
  /\ InstanceOf \in [Jobs -> Instances]
  /\ FirstJobs \subseteq Jobs
  /\ None \notin Nodes \cup Jobs
  /\ LeaseSeconds \in Nat \ {0}
  /\ {MaxRetries, LastMoment} \subseteq Nat
  /\ Budgets \subseteq [commands: Nat, failures: Nat, restarts: Nat]

ASSUME ClusterAssumption

VARIABLES
  now,
  row,        \* ACT_RU_JOB
  known,      \* per node: its instances in memory
  mem,        \* per node: the jobs in memory, with their retries
  batch,      \* per node: the jobs acquired and not yet begun
  job,        \* per node: the job at hand
  stage,      \* per node: where its executor thread is
  snap,       \* per node: the snapshot its executor is about to write
  cmdSnap,    \* per node: the snapshot a user command is about to write
  ran, born, cancelled,
  commands, failures, restarts,  \* those so far
  budget                         \* ... and how many there may be

store == <<now, row>>
engine == <<known, mem>>
executor == <<batch, job, stage, snap>>
history == <<ran, born, cancelled>>
bounds == <<commands, failures, restarts, budget>>
vars == <<store, engine, executor, cmdSnap, history, bounds>>

Row == [there: BOOLEAN, retries: Int, owner: Nodes \cup {None}, exp: Nat]
Gone == [there |-> FALSE, retries |-> 0, owner |-> None, exp |-> 0]
\* Faulty variant of Unlocked: the lock columns are swapped.
UnlockedSwapped(retries) == [there |-> TRUE, retries |-> retries, owner |-> 0, exp |-> None]

Unlocked(retries) == [there |-> TRUE, retries |-> retries, owner |-> None, exp |-> 0]

\* The jobs of instance i.
JobsOf(i) == {j \in Jobs : InstanceOf[j] = i}

\* A memory image, or a snapshot: jobs and the retries each has left.
Image == [jobs: SUBSET Jobs, retries: [Jobs -> Int]]
Snap == [inst: Instances \cup {None}, jobs: SUBSET Jobs, retries: [Jobs -> Int]]
NoSnap == [inst |-> None, jobs |-> {}, retries |-> [j \in Jobs |-> 0]]

TypeOK ==
  /\ now \in Nat
  /\ row \in [Jobs -> Row]
  /\ known \in [Nodes -> SUBSET Instances]
  /\ mem \in [Nodes -> Image]
  /\ batch \in [Nodes -> SUBSET Jobs]
  /\ job \in [Nodes -> Jobs \cup {None}]
  /\ stage \in [Nodes -> {"idle", "run", "complete", "reschedule", "save", "write"}]
  /\ {snap, cmdSnap} \subseteq [Nodes -> Snap]
  /\ ran \in [Jobs -> 0..3]
  /\ born \subseteq Jobs
  /\ cancelled \subseteq Jobs
  /\ {commands, failures, restarts} \subseteq Nat
  /\ budget \in Budgets

-----------------------------------------------------------------------------
(* Snapshots. _build_snap copies the jobs the engine has in memory for an  *)
(* instance; save_proc_inst deletes the rows of the instance and inserts   *)
(* the snapshot, which has no lock columns.                                *)

Snapshot(m, i) ==
  [inst |-> i, jobs |-> m.jobs \cap JobsOf(i), retries |-> m.retries]

Rewritten(s) ==
  [j \in Jobs |->
     IF InstanceOf[j] # s.inst THEN row[j]
     ELSE IF j \in s.jobs THEN Unlocked(s.retries[j]) ELSE Gone]

\* Faulty variant of Loaded: a row that is locked is not read.
LoadedUnlocked(i) == {j \in JobsOf(i) : row[j].there /\ row[j].owner = None}

\* The jobs of instance i that load_active_instances reads.
Loaded(i) == {j \in JobsOf(i) : row[j].there}

\* The memory of node n after instance i is read back from the store.
Restored(n, i) ==
  [jobs |-> (mem[n].jobs \ JobsOf(i)) \cup Loaded(i),
   retries |-> [j \in Jobs |-> IF j \in JobsOf(i) THEN row[j].retries ELSE mem[n].retries[j]]]

\* Instance i moves on in the memory of node n: some of its jobs are cancelled,
\* others are created; "done" is the job that moved it, if one did.
Advance(n, i, done) ==
  \E gone \in SUBSET ((mem[n].jobs \cap JobsOf(i)) \ done), new \in SUBSET (JobsOf(i) \ born) :
    /\ mem' = [mem EXCEPT ![n] =
                 [jobs |-> (mem[n].jobs \ (gone \cup done)) \cup new,
                  retries |-> [j \in Jobs |-> IF j \in new THEN MaxRetries ELSE @.retries[j]]]]
    /\ cancelled' = cancelled \cup gone
    /\ born' = born \cup new

-----------------------------------------------------------------------------
(* The executor thread of node n: _execute_due_jobs_db.                    *)

Due == {j \in Jobs : /\ row[j].there
                     /\ row[j].retries > 0
                     /\ row[j].owner = None \/ row[j].exp < now}

Acquire(n) ==
  /\ stage[n] = "idle" /\ batch[n] = {}
  /\ Due # {}
  /\ row' = [j \in Jobs |-> IF j \in Due
                            THEN [row[j] EXCEPT !.owner = n, !.exp = now + LeaseSeconds]
                            ELSE row[j]]
  /\ batch' = [batch EXCEPT ![n] = Due]
  /\ UNCHANGED <<now, engine, job, stage, snap, cmdSnap, history, bounds>>

Owned(n, j) == row[j].there /\ row[j].owner = n

\* A job this engine does not have in memory is taken for done elsewhere.
DropUnknown(n, j) ==
  /\ stage[n] = "idle" /\ j \in batch[n]
  /\ j \notin mem[n].jobs
  /\ row' = IF Owned(n, j) THEN [row EXCEPT ![j] = Gone] ELSE row
  /\ batch' = [batch EXCEPT ![n] = @ \ {j}]
  /\ UNCHANGED <<now, engine, job, stage, snap, cmdSnap, history, bounds>>

\* Faulty variant of BeginJob: memory is not looked at.
BeginAny(n, j) ==
  /\ stage[n] = "idle" /\ j \in batch[n]
  /\ batch' = [batch EXCEPT ![n] = @ \ {j}]
  /\ job' = [job EXCEPT ![n] = j]
  /\ stage' = [stage EXCEPT ![n] = "run"]
  /\ UNCHANGED <<store, engine, snap, cmdSnap, history, bounds>>

BeginJob(n, j) ==
  /\ stage[n] = "idle" /\ j \in batch[n]
  /\ j \in mem[n].jobs
  /\ batch' = [batch EXCEPT ![n] = @ \ {j}]
  /\ job' = [job EXCEPT ![n] = j]
  /\ stage' = [stage EXCEPT ![n] = "run"]
  /\ UNCHANGED <<store, engine, snap, cmdSnap, history, bounds>>

\* The body returns: the token moved on, and the job leaves the memory.
FinishJob(n) ==
  /\ stage[n] = "run"
  /\ Advance(n, InstanceOf[job[n]], {job[n]})
  /\ ran' = [ran EXCEPT ![job[n]] = IF @ = 3 THEN 3 ELSE @ + 1]
  /\ stage' = [stage EXCEPT ![n] = "complete"]
  /\ UNCHANGED <<store, known, batch, job, snap, cmdSnap, bounds>>

\* Faulty variant of FailJob: the instance is read back, the retries are not spent.
FailFreely(n) ==
  /\ stage[n] = "run"
  /\ mem' = [mem EXCEPT ![n] = Restored(n, InstanceOf[job[n]])]
  /\ stage' = [stage EXCEPT ![n] = "reschedule"]
  /\ UNCHANGED <<store, known, batch, job, snap, cmdSnap, history, bounds>>

\* The body raises: the instance is read back from the store, a retry is spent.
FailJob(n) ==
  /\ stage[n] = "run"
  /\ failures < budget.failures
  /\ failures' = failures + 1
  /\ mem' = [mem EXCEPT ![n] =
               [Restored(n, InstanceOf[job[n]]) EXCEPT !.retries[job[n]] = @ - 1]]
  /\ stage' = [stage EXCEPT ![n] = "reschedule"]
  /\ UNCHANGED <<store, known, batch, job, snap, cmdSnap, history, commands, restarts, budget>>

\* complete_job_cas, or reschedule_job_cas; its result is not looked at.
WriteBack(n) ==
  /\ stage[n] \in {"complete", "reschedule"}
  /\ row' = IF ~Owned(n, job[n]) THEN row
            ELSE [row EXCEPT ![job[n]] =
                    IF stage[n] = "complete" THEN Gone ELSE Unlocked(mem[n].retries[job[n]])]
  /\ stage' = [stage EXCEPT ![n] = "save"]
  /\ UNCHANGED <<now, engine, batch, job, snap, cmdSnap, history, bounds>>

BuildSnap(n) ==
  /\ stage[n] = "save"
  /\ snap' = [snap EXCEPT ![n] = Snapshot(mem[n], InstanceOf[job[n]])]
  /\ stage' = [stage EXCEPT ![n] = "write"]
  /\ UNCHANGED <<store, engine, batch, job, cmdSnap, history, bounds>>

SaveInstance(n) ==
  /\ stage[n] = "write"
  /\ row' = Rewritten(snap[n])
  /\ snap' = [snap EXCEPT ![n] = NoSnap]
  /\ job' = [job EXCEPT ![n] = None]
  /\ stage' = [stage EXCEPT ![n] = "idle"]
  /\ UNCHANGED <<now, engine, batch, cmdSnap, history, bounds>>

-----------------------------------------------------------------------------
(* The users' thread of node n, which holds the engine lock: a command     *)
(* cancels jobs of an instance and creates others, then saves it.          *)

Command(n, i) ==
  /\ cmdSnap[n] = NoSnap
  /\ i \in known[n]
  /\ commands < budget.commands
  /\ commands' = commands + 1
  /\ Advance(n, i, {})
  /\ cmdSnap' = [cmdSnap EXCEPT ![n] = Snapshot(mem'[n], i)]
  /\ UNCHANGED <<store, known, executor, ran, failures, restarts, budget>>

SaveCommand(n) ==
  /\ cmdSnap[n] # NoSnap
  /\ row' = Rewritten(cmdSnap[n])
  /\ cmdSnap' = [cmdSnap EXCEPT ![n] = NoSnap]
  /\ UNCHANGED <<now, engine, executor, history, bounds>>

-----------------------------------------------------------------------------
\* The process dies and starts again: from_database reads every instance.
Restart(n) ==
  /\ restarts < budget.restarts
  /\ now + LeaseSeconds < LastMoment
  /\ restarts' = restarts + 1
  /\ known' = [known EXCEPT ![n] = Instances]
  /\ mem' = [mem EXCEPT ![n] = [jobs |-> UNION {Loaded(i) : i \in Instances},
                                retries |-> [j \in Jobs |-> row[j].retries]]]
  /\ batch' = [batch EXCEPT ![n] = {}]
  /\ job' = [job EXCEPT ![n] = None]
  /\ stage' = [stage EXCEPT ![n] = "idle"]
  /\ snap' = [snap EXCEPT ![n] = NoSnap]
  /\ cmdSnap' = [cmdSnap EXCEPT ![n] = NoSnap]
  /\ UNCHANGED <<store, history, commands, failures, budget>>

Tick ==
  /\ now < LastMoment
  /\ now' = now + 1
  /\ UNCHANGED <<row, engine, executor, cmdSnap, history, bounds>>

-----------------------------------------------------------------------------
\* Every instance was started on a node, or restored by it.
Init ==
  /\ now = 1
  /\ row = [j \in Jobs |-> IF j \in FirstJobs THEN Unlocked(MaxRetries) ELSE Gone]
  /\ known \in [Nodes -> SUBSET Instances]
  /\ \A i \in Instances : \E n \in Nodes : i \in known[n]
  /\ mem = [n \in Nodes |-> [jobs |-> {j \in FirstJobs : InstanceOf[j] \in known[n]},
                             retries |-> [j \in Jobs |-> MaxRetries]]]
  /\ batch = [n \in Nodes |-> {}]
  /\ job = [n \in Nodes |-> None]
  /\ stage = [n \in Nodes |-> "idle"]
  /\ snap = [n \in Nodes |-> NoSnap]
  /\ cmdSnap = [n \in Nodes |-> NoSnap]
  /\ ran = [j \in Jobs |-> 0]
  /\ born = FirstJobs
  /\ cancelled = {}
  /\ budget \in Budgets
  /\ commands = 0 /\ failures = 0 /\ restarts = 0

ExecuteDueJobs(n) ==
  \/ Acquire(n)
  \/ \E j \in Jobs : DropUnknown(n, j) \/ BeginJob(n, j)
  \/ FinishJob(n)
  \/ FailJob(n)
  \/ WriteBack(n)
  \/ BuildSnap(n)
  \/ SaveInstance(n)

Next ==
  \/ \E n \in Nodes :
       \/ ExecuteDueJobs(n)
       \/ \E i \in Instances : Command(n, i)
       \/ SaveCommand(n)
       \/ Restart(n)
  \/ Tick

Spec == Init /\ [][Next]_vars

\* Executors keep polling, a command that began ends, and time passes.
Fairness ==
  /\ WF_vars(Tick)
  /\ \A n \in Nodes : WF_vars(ExecuteDueJobs(n)) /\ WF_vars(SaveCommand(n))

LiveSpec == Spec /\ Fairness

-----------------------------------------------------------------------------
(* Properties.                                                             *)

\* No job is run twice, unless a crash came between the job and its save.
RunsOnce == \A j \in Jobs : ran[j] <= 1 + restarts

\* No executor clears away a job that nobody ran: a row goes when its job was run
\* or cancelled.  A user command beside the executor may lose one: each saves the
\* instance as it saw it.
JobsNotDropped ==
  [][\A j \in Jobs :
       /\ budget.commands = 0
       /\ row[j].there
       /\ ~row'[j].there
       => ran[j] > 0 \/ j \in cancelled]_vars

\* Every job in the table is run in the end, is cancelled, or has used up its
\* retries, whatever fails and whenever the engine is restarted; again as long as
\* no user command ran beside the executor.
EveryJobSettles ==
  \A j \in Jobs :
    row[j].there ~>
      \/ ran[j] > 0
      \/ j \in cancelled
      \/ row[j].there /\ row[j].retries <= 0
      \/ budget.commands > 0
=============================================================================
