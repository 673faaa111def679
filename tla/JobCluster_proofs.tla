-------------------------- MODULE JobCluster_proofs --------------------------
(***************************************************************************)
(* For any instances, jobs, leases and retries: the tables, the memories   *)
(* and the executors keep their types whatever the number of engines; on   *)
(* one engine no job is run twice, and without user commands beside the    *)
(* executor none is cleared away unless it was run or cancelled.           *)
(*                                                                         *)
(* RunsOnce is not inductive: a job runs from memory, and the memory comes *)
(* from the rows when a failed job is rolled back.  So the invariant says  *)
(* of the memory, of the job at hand and, unless users interfere, of the   *)
(* rows that what is still to run was not run since the last restart.      *)
(***************************************************************************)
EXTENDS JobCluster, TLAPS

\* There is one engine.
Alone == \A m, n \in Nodes : m = n

\* Users and failures do not come together: a rollback beside a user command is
\* not safe.
Apart == \A b \in Budgets : b.commands = 0 \/ b.failures = 0

AtWork == \A n \in Nodes : stage[n] # "idle" => job[n] \in Jobs

Types == TypeOK /\ AtWork

\* Executor n has run its job and not yet written so.
RunUnsaved(n, j) == job[n] = j /\ stage[n] \in {"complete", "save", "write"}

\* What is to run was not run since the last restart.
ToRun == \A n \in Nodes : \A j \in mem[n].jobs : ran[j] <= restarts
AtHand == \A n \in Nodes : stage[n] = "run" => ran[job[n]] <= restarts /\ job[n] \in born
Stored ==
  budget.commands = 0 =>
    \A j \in Jobs : row[j].there => ran[j] <= restarts \/ \E n \in Nodes : RunUnsaved(n, j)
Born ==
  /\ \A j \in Jobs : ran[j] > 0 \/ row[j].there => j \in born
  /\ \A n \in Nodes : mem[n].jobs \cup snap[n].jobs \cup cmdSnap[n].jobs \subseteq born

OnceInv == RunsOnce /\ ToRun /\ AtHand /\ Stored /\ Born

\* As long as no user command runs, a snapshot is what the memory holds.
SnapIsMemory ==
  budget.commands = 0 =>
    \A n \in Nodes :
      /\ cmdSnap[n] = NoSnap
      /\ stage[n] = "write" => snap[n] = Snapshot(mem[n], InstanceOf[job[n]])

\* Every row of a job that was neither run nor cancelled has its job in memory.
Finished == \A n \in Nodes : stage[n] = "complete" => ran[job[n]] > 0
InMemory ==
  budget.commands = 0 =>
    \A n \in Nodes : \A j \in Jobs :
      row[j].there => j \in mem[n].jobs \/ ran[j] > 0 \/ j \in cancelled

KeptInv == Finished /\ InMemory

-----------------------------------------------------------------------------
(* Types.                                                                  *)

\* What a write makes of a row, and what is copied from memory.
LEMMA RowsAreRows ==
  ASSUME Types
  PROVE  /\ Gone \in Row
         /\ \A k \in Int : Unlocked(k) \in Row
         /\ \A r \in Row, n \in Nodes, t \in Nat : [r EXCEPT !.owner = n, !.exp = t] \in Row
         /\ \A j \in Jobs : row[j].retries \in Int
  <1>1. Gone \in Row /\ \A k \in Int : Unlocked(k) \in Row
    BY DEF Gone, Unlocked, Row
  <1>2. ASSUME NEW r \in Row, NEW n \in Nodes, NEW t \in Nat
        PROVE  [r EXCEPT !.owner = n, !.exp = t] \in Row
    BY DEF Row
  <1>3. ASSUME NEW j \in Jobs PROVE row[j].retries \in Int
    <2>1. row[j] \in Row
      BY DEF Types, TypeOK
    <2> QED BY <2>1 DEF Row
  <1> QED BY <1>1, <1>2, <1>3

LEMMA SnapshotType ==
  ASSUME NEW m \in Image, NEW i \in Instances
  PROVE  Snapshot(m, i) \in Snap
  BY DEF Snapshot, Snap, Image, JobsOf

LEMMA NoSnapType == NoSnap \in Snap
  BY DEF NoSnap, Snap

LEMMA RewrittenType ==
  ASSUME Types, NEW s \in Snap
  PROVE  Rewritten(s) \in [Jobs -> Row]
  <1>1. \A j \in Jobs : row[j] \in Row /\ s.retries[j] \in Int
    BY DEF Types, TypeOK, Snap
  <1> QED BY <1>1, RowsAreRows DEF Rewritten

LEMMA RestoredType ==
  ASSUME Types, NEW n \in Nodes, NEW i \in Instances
  PROVE  Restored(n, i) \in Image
  <1>1. mem[n].jobs \subseteq Jobs /\ \A j \in Jobs : mem[n].retries[j] \in Int
    BY DEF Types, TypeOK, Image
  <1>2. \A j \in Jobs : row[j].retries \in Int
    BY RowsAreRows
  <1> QED BY <1>1, <1>2 DEF Restored, Loaded, JobsOf, Image

\* What an advance does to the memory of its node, and to the histories.
LEMMA Advances ==
  ASSUME Types, ClusterAssumption, NEW n \in Nodes, NEW i \in Instances,
         NEW done \in SUBSET Jobs, Advance(n, i, done)
  PROVE  /\ mem' \in [Nodes -> Image]
         /\ cancelled \subseteq cancelled' /\ cancelled' \subseteq Jobs
         /\ born \subseteq born' /\ born' \subseteq Jobs
         /\ \A m \in Nodes \ {n} : mem'[m] = mem[m]
         /\ mem'[n].jobs \subseteq (mem[n].jobs \ done) \cup (born' \ born)
         /\ mem'[n].jobs \subseteq mem[n].jobs \cup born'
         /\ mem[n].jobs \subseteq mem'[n].jobs \cup done \cup cancelled'
  <1>1. PICK gone \in SUBSET ((mem[n].jobs \cap JobsOf(i)) \ done), new \in SUBSET (JobsOf(i) \ born) :
          /\ mem' = [mem EXCEPT ![n] =
                       [jobs |-> (mem[n].jobs \ (gone \cup done)) \cup new,
                        retries |-> [j \in Jobs |-> IF j \in new THEN MaxRetries ELSE mem[n].retries[j]]]]
          /\ cancelled' = cancelled \cup gone
          /\ born' = born \cup new
    BY DEF Advance, Types, TypeOK
  <1>2. /\ mem \in [Nodes -> Image]
        /\ mem[n].jobs \subseteq Jobs
        /\ \A j \in Jobs : mem[n].retries[j] \in Int
        /\ cancelled \subseteq Jobs /\ born \subseteq Jobs
    BY DEF Types, TypeOK, Image
  <1>3. MaxRetries \in Int /\ gone \subseteq Jobs /\ new \subseteq Jobs
    BY <1>2 DEF ClusterAssumption, JobsOf
  <1>4. [jobs |-> (mem[n].jobs \ (gone \cup done)) \cup new,
         retries |-> [j \in Jobs |-> IF j \in new THEN MaxRetries ELSE mem[n].retries[j]]] \in Image
    BY <1>2, <1>3 DEF Image
  <1>5. mem' \in [Nodes -> Image]
    BY <1>1, <1>2, <1>4
  <1>6. mem'[n].jobs = (mem[n].jobs \ (gone \cup done)) \cup new
    BY <1>1, <1>2
  <1>7. \A m \in Nodes \ {n} : mem'[m] = mem[m]
    BY <1>1, <1>2
  <1> QED BY <1>1, <1>2, <1>3, <1>5, <1>6, <1>7

LEMMA InitTypes == ASSUME Init, ClusterAssumption PROVE Types
  <1>1. row \in [Jobs -> Row]
    BY DEF Init, Row, Unlocked, Gone, ClusterAssumption
  <1>2. mem \in [Nodes -> Image]
    BY DEF Init, Image, ClusterAssumption
  <1>3. {snap, cmdSnap} \subseteq [Nodes -> Snap]
    BY NoSnapType DEF Init
  <1>4. ran \in [Jobs -> 0..3] /\ born \subseteq Jobs /\ cancelled \subseteq Jobs
    BY DEF Init, ClusterAssumption
  <1>5. /\ now \in Nat /\ {commands, failures, restarts} \subseteq Nat /\ budget \in Budgets
        /\ known \in [Nodes -> SUBSET Instances] /\ batch \in [Nodes -> SUBSET Jobs]
        /\ job \in [Nodes -> Jobs \cup {None}]
        /\ stage \in [Nodes -> {"idle", "run", "complete", "reschedule", "save", "write"}]
    BY DEF Init
  <1>6. AtWork
    BY DEF Init, AtWork
  <1> QED BY <1>1, <1>2, <1>3, <1>4, <1>5, <1>6 DEF Types, TypeOK

LEMMA NextTypes ==
  ASSUME Types, ClusterAssumption, [Next]_vars
  PROVE  Types'
  <1> USE DEF Types, TypeOK, AtWork
  <1> USE DEF store, engine, executor, history, bounds
  <1>0. /\ None \notin Nodes \cup Jobs
        /\ InstanceOf \in [Jobs -> Instances]
        /\ LeaseSeconds \in Nat
    BY DEF ClusterAssumption
  <1>1. ASSUME NEW n \in Nodes, Acquire(n) PROVE Types'
    <2>0. now + LeaseSeconds \in Nat
      BY <1>0
    <2>1. \A j \in Jobs : [row[j] EXCEPT !.owner = n, !.exp = now + LeaseSeconds] \in Row
      BY <2>0, RowsAreRows
    <2>9. row' \in [Jobs -> Row]
      BY <1>1, <2>1 DEF Acquire
    <2>2. Due \subseteq Jobs
      BY DEF Due
    <2> QED BY <1>1, <2>9, <2>2 DEF Acquire
  <1>2. ASSUME NEW n \in Nodes, NEW j \in Jobs, DropUnknown(n, j) PROVE Types'
    <2>1. row' \in [Jobs -> Row]
      BY <1>2, RowsAreRows DEF DropUnknown
    <2> QED BY <1>2, <2>1 DEF DropUnknown
  <1>3. ASSUME NEW n \in Nodes, NEW j \in Jobs, BeginJob(n, j) PROVE Types'
    BY <1>3 DEF BeginJob
  <1>4. ASSUME NEW n \in Nodes, FinishJob(n) PROVE Types'
    <2>1. job[n] \in Jobs /\ InstanceOf[job[n]] \in Instances
      BY <1>4, <1>0 DEF FinishJob
    <2>2. mem' \in [Nodes -> Image] /\ cancelled' \subseteq Jobs /\ born' \subseteq Jobs
      BY <1>4, <2>1, Advances DEF FinishJob
    <2>3. ran' \in [Jobs -> 0..3]
      BY <1>4, <2>1 DEF FinishJob
    <2> QED BY <1>4, <2>1, <2>2, <2>3 DEF FinishJob
  <1>5. ASSUME NEW n \in Nodes, FailJob(n) PROVE Types'
    <2>1. job[n] \in Jobs /\ InstanceOf[job[n]] \in Instances
      BY <1>5, <1>0 DEF FailJob
    <2>2. Restored(n, InstanceOf[job[n]]) \in Image
      BY <2>1, RestoredType
    <2>3. ASSUME NEW m \in Image, NEW j \in Jobs PROVE [m EXCEPT !.retries[j] = @ - 1] \in Image
      <3>1. m.jobs \in SUBSET Jobs /\ m.retries \in [Jobs -> Int] /\ m = [jobs |-> m.jobs, retries |-> m.retries]
        BY DEF Image
      <3>2. [m.retries EXCEPT ![j] = @ - 1] \in [Jobs -> Int]
        BY <3>1
      <3>3. [m EXCEPT !.retries[j] = @ - 1] = [jobs |-> m.jobs, retries |-> [m.retries EXCEPT ![j] = @ - 1]]
        BY <3>1
      <3> QED BY <3>1, <3>2, <3>3 DEF Image
    <2>4. mem' \in [Nodes -> Image]
      BY <1>5, <2>1, <2>2, <2>3 DEF FailJob
    <2> QED BY <1>5, <2>1, <2>4 DEF FailJob
  <1>6. ASSUME NEW n \in Nodes, WriteBack(n) PROVE Types'
    <2>1. job[n] \in Jobs /\ mem[n].retries[job[n]] \in Int
      BY <1>6 DEF WriteBack, Image
    <2>2. row' \in [Jobs -> Row]
      BY <1>6, <2>1, RowsAreRows DEF WriteBack
    <2> QED BY <1>6, <2>1, <2>2 DEF WriteBack
  <1>7. ASSUME NEW n \in Nodes, BuildSnap(n) PROVE Types'
    <2>1. Snapshot(mem[n], InstanceOf[job[n]]) \in Snap
      BY <1>7, <1>0, SnapshotType DEF BuildSnap
    <2> QED BY <1>7, <2>1 DEF BuildSnap
  <1>8. ASSUME NEW n \in Nodes, SaveInstance(n) PROVE Types'
    <2>1. row' \in [Jobs -> Row]
      BY <1>8, RewrittenType DEF SaveInstance
    <2> QED BY <1>8, <2>1, NoSnapType DEF SaveInstance
  <1>9. ASSUME NEW n \in Nodes, NEW i \in Instances, Command(n, i) PROVE Types'
    <2>1. mem' \in [Nodes -> Image] /\ cancelled' \subseteq Jobs /\ born' \subseteq Jobs
      BY <1>9, Advances DEF Command
    <2>2. mem'[n] \in Image
      BY <2>1
    <2>3. Snapshot(mem'[n], i) \in Snap
      BY <2>2 DEF Snapshot, Snap, Image, JobsOf
    <2>4. cmdSnap' \in [Nodes -> Snap] /\ snap' \in [Nodes -> Snap]
      BY <1>9, <2>3 DEF Command
    <2>5. {commands', failures', restarts'} \subseteq Nat /\ now' \in Nat
      BY <1>9 DEF Command
    <2> QED BY <1>9, <2>1, <2>4, <2>5 DEF Command
  <1>10. ASSUME NEW n \in Nodes, SaveCommand(n) PROVE Types'
    <2>1. row' \in [Jobs -> Row]
      BY <1>10, RewrittenType DEF SaveCommand
    <2> QED BY <1>10, <2>1, NoSnapType DEF SaveCommand
  <1>11. ASSUME NEW n \in Nodes, Restart(n) PROVE Types'
    <2>1. [jobs |-> UNION {Loaded(i) : i \in Instances}, retries |-> [j \in Jobs |-> row[j].retries]] \in Image
      BY RowsAreRows DEF Image, Loaded, JobsOf
    <2>2. mem' \in [Nodes -> Image]
      BY <1>11, <2>1 DEF Restart
    <2> QED BY <1>11, <2>2, NoSnapType DEF Restart
  <1>12. ASSUME Tick PROVE Types'
    BY <1>12 DEF Tick
  <1>13. ASSUME UNCHANGED vars PROVE Types'
    BY <1>13 DEF vars
  <1> QED
    BY <1>1, <1>2, <1>3, <1>4, <1>5, <1>6, <1>7, <1>8, <1>9, <1>10, <1>11, <1>12, <1>13
    DEF Next, ExecuteDueJobs

\* The tables, the memories and the executors keep their types on any number of
\* engines.
THEOREM TypeCorrect == Spec => []TypeOK
  <1>1. Init => Types
    BY InitTypes, ClusterAssumption
  <1>2. Types /\ [Next]_vars => Types'
    BY NextTypes, ClusterAssumption
  <1>3. Types => TypeOK
    BY DEF Types
  <1> QED BY <1>1, <1>2, <1>3, PTL DEF Spec

-----------------------------------------------------------------------------
(* One engine.                                                             *)

\* A write leaves in the table what was there, or is in the snapshot.
LEMMA WhatIsThere ==
  ASSUME Types, NEW s \in Snap, NEW j \in Jobs
  PROVE  Rewritten(s)[j].there <=>
           (IF InstanceOf[j] # s.inst THEN row[j].there ELSE j \in s.jobs)
  BY DEF Rewritten, Unlocked, Gone

LEMMA SnapStep ==
  ASSUME Types, ClusterAssumption, Alone, SnapIsMemory, [Next]_vars
  PROVE  SnapIsMemory'
  <1> SUFFICES ASSUME budget'.commands = 0, NEW m \in Nodes
               PROVE  /\ cmdSnap'[m] = NoSnap
                      /\ stage'[m] = "write" => snap'[m] = Snapshot(mem'[m], InstanceOf[job'[m]])
    BY DEF SnapIsMemory
  <1> USE DEF store, engine, executor, history, bounds
  <1>0. /\ stage \in [Nodes -> {"idle", "run", "complete", "reschedule", "save", "write"}]
        /\ snap \in [Nodes -> Snap] /\ cmdSnap \in [Nodes -> Snap]
        /\ job \in [Nodes -> Jobs \cup {None}]
        /\ commands \in Nat
    BY DEF Types, TypeOK
  <1>a. budget' = budget
    BY DEF Next, ExecuteDueJobs, Acquire, DropUnknown, BeginJob, FinishJob, FailJob, WriteBack,
           BuildSnap, SaveInstance, Command, SaveCommand, Restart, Tick, vars
  <1>b. /\ cmdSnap[m] = NoSnap
        /\ stage[m] = "write" => snap[m] = Snapshot(mem[m], InstanceOf[job[m]])
    BY <1>a DEF SnapIsMemory
  <1>1. ASSUME NEW n \in Nodes, NEW j \in Jobs, DropUnknown(n, j) \/ BeginJob(n, j)
        PROVE  /\ cmdSnap'[m] = NoSnap
               /\ stage'[m] = "write" => snap'[m] = Snapshot(mem'[m], InstanceOf[job'[m]])
    BY <1>0, <1>1, <1>b DEF Alone, DropUnknown, BeginJob
  <1>9. ASSUME NEW n \in Nodes, Acquire(n)
        PROVE  /\ cmdSnap'[m] = NoSnap
               /\ stage'[m] = "write" => snap'[m] = Snapshot(mem'[m], InstanceOf[job'[m]])
    BY <1>0, <1>9, <1>b DEF Alone, Acquire
  <1>2. ASSUME NEW n \in Nodes, FinishJob(n) \/ FailJob(n) \/ WriteBack(n)
        PROVE  cmdSnap'[m] = NoSnap /\ stage'[m] # "write"
    BY <1>0, <1>2, <1>b DEF Alone, FinishJob, FailJob, WriteBack
  <1>3. ASSUME NEW n \in Nodes, BuildSnap(n)
        PROVE  cmdSnap'[m] = NoSnap /\ snap'[m] = Snapshot(mem'[m], InstanceOf[job'[m]])
    BY <1>0, <1>3, <1>b DEF Alone, BuildSnap
  <1>4. ASSUME NEW n \in Nodes, SaveInstance(n) \/ Restart(n)
        PROVE  cmdSnap'[m] = NoSnap /\ stage'[m] # "write"
    BY <1>0, <1>4, <1>b DEF Alone, SaveInstance, Restart
  <1>5. ASSUME NEW n \in Nodes, NEW i \in Instances, Command(n, i) PROVE FALSE
    BY <1>0, <1>5, <1>a DEF Command
  <1>6. ASSUME NEW n \in Nodes, SaveCommand(n) PROVE FALSE
    BY <1>6, <1>b DEF Alone, SaveCommand
  <1>7. ASSUME Tick \/ UNCHANGED vars
        PROVE  /\ cmdSnap'[m] = NoSnap
               /\ stage'[m] = "write" => snap'[m] = Snapshot(mem'[m], InstanceOf[job'[m]])
    BY <1>7, <1>b DEF Tick, vars
  <1> QED
    BY <1>1, <1>2, <1>3, <1>4, <1>5, <1>6, <1>7, <1>9 DEF Next, ExecuteDueJobs

-----------------------------------------------------------------------------
(* No job runs twice.                                                      *)

\* A step that runs nothing, adds no row and leaves the memory keeps OnceInv, when
\* whoever ran a job still has to write so.
LEMMA OnceKept ==
  ASSUME Types, OnceInv, NEW n \in Nodes,
         ran' = ran, restarts' = restarts, born' = born, budget' = budget, mem' = mem,
         \A m \in Nodes : snap'[m].jobs \cup cmdSnap'[m].jobs \subseteq born,
         \A m \in Nodes : stage'[m] = "run" => ran[job'[m]] <= restarts /\ job'[m] \in born,
         \A j \in Jobs : row'[j].there =>
           \/ ran[j] <= restarts /\ j \in born
           \/ row[j].there /\ ~\E m \in Nodes : RunUnsaved(m, j)
           \/ row[j].there /\ \E m \in Nodes : RunUnsaved(m, j)'
           \/ budget.commands # 0 /\ j \in born
  PROVE  OnceInv'
  <1>1. RunsOnce' /\ ToRun' /\ AtHand'
    BY DEF OnceInv, RunsOnce, ToRun, AtHand
  <1>2. Stored'
    BY DEF OnceInv, Stored
  <1>3. Born'
    BY DEF OnceInv, Born
  <1> QED BY <1>1, <1>2, <1>3 DEF OnceInv

LEMMA OnceFinish ==
  ASSUME Types, ClusterAssumption, Alone, OnceInv, NEW n \in Nodes, FinishJob(n)
  PROVE  OnceInv'
  <1> DEFINE j == job[n]
  <1>0. /\ j \in Jobs /\ InstanceOf[j] \in Instances /\ stage[n] = "run"
        /\ stage \in [Nodes -> {"idle", "run", "complete", "reschedule", "save", "write"}]
        /\ ran \in [Jobs -> 0..3] /\ restarts \in Nat
        /\ mem[n].jobs \subseteq Jobs
    BY DEF FinishJob, Types, TypeOK, AtWork, ClusterAssumption, Image
  <1>1. ran[j] <= restarts /\ j \in born
    BY <1>0 DEF OnceInv, AtHand
  <1>2. /\ restarts' = restarts /\ budget' = budget /\ row' = row /\ job' = job
        /\ snap' = snap /\ cmdSnap' = cmdSnap
        /\ stage' = [stage EXCEPT ![n] = "complete"]
        /\ ran' = [ran EXCEPT ![j] = IF @ = 3 THEN 3 ELSE @ + 1]
    BY DEF FinishJob, store, bounds
  <1>3. /\ born \subseteq born' /\ born' \subseteq Jobs
        /\ mem'[n].jobs \subseteq (mem[n].jobs \ {j}) \cup (born' \ born)
        /\ mem'[n].jobs \subseteq mem[n].jobs \cup born'
    BY <1>0, Advances DEF FinishJob
  <1>4. /\ ran'[j] <= 1 + restarts
        /\ \A k \in Jobs \ {j} : ran'[k] = ran[k]
    BY <1>0, <1>1, <1>2
  <1>5. RunsOnce'
    BY <1>2, <1>4 DEF OnceInv, RunsOnce
  <1>6. ASSUME NEW k \in mem'[n].jobs PROVE ran'[k] <= restarts
    <2>1. CASE k \in mem[n].jobs \ {j}
      BY <2>1, <1>0, <1>4 DEF OnceInv, ToRun
    <2>2. CASE k \in born' \ born
      <3>1. k \in Jobs /\ k # j /\ ~(ran[k] > 0)
        BY <2>2, <1>1, <1>3 DEF OnceInv, Born
      <3> QED BY <3>1, <1>0, <1>4
    <2> QED BY <1>6, <1>3, <2>1, <2>2
  <1>7. ToRun'
    BY <1>2, <1>6 DEF ToRun, Alone
  <1>8. AtHand'
    BY <1>0, <1>2 DEF AtHand, Alone
  <1>9. Stored'
    <2> SUFFICES ASSUME budget.commands = 0, NEW k \in Jobs, row[k].there
                 PROVE  ran'[k] <= restarts \/ RunUnsaved(n, k)'
      BY <1>2 DEF Stored
    <2>1. CASE k = j
      BY <2>1, <1>0, <1>2 DEF RunUnsaved
    <2>2. CASE k # j
      <3>1. ran[k] <= restarts
        BY <1>0 DEF OnceInv, Stored, RunUnsaved, Alone
      <3> QED BY <3>1, <2>2, <1>4
    <2> QED BY <2>1, <2>2
  <1>10. Born'
    <2>1. \A k \in Jobs : ran'[k] > 0 \/ row'[k].there => k \in born'
      BY <1>1, <1>2, <1>3, <1>4 DEF OnceInv, Born
    <2>2. \A m \in Nodes : mem'[m].jobs \cup snap'[m].jobs \cup cmdSnap'[m].jobs \subseteq born'
      BY <1>2, <1>3 DEF OnceInv, Born, Alone
    <2> QED BY <2>1, <2>2 DEF Born
  <1> QED BY <1>5, <1>7, <1>8, <1>9, <1>10 DEF OnceInv

\* A rolled back job brings rows into memory that have not been run.
LEMMA OnceFail ==
  ASSUME Types, ClusterAssumption, Alone, Apart, OnceInv, NEW n \in Nodes, FailJob(n)
  PROVE  OnceInv'
  <1> DEFINE j == job[n]
  <1>0. /\ j \in Jobs /\ InstanceOf[j] \in Instances /\ stage[n] = "run"
        /\ stage \in [Nodes -> {"idle", "run", "complete", "reschedule", "save", "write"}]
        /\ mem \in [Nodes -> Image] /\ failures \in Nat
        /\ budget \in Budgets
    BY DEF FailJob, Types, TypeOK, AtWork, ClusterAssumption
  <1>1. budget.commands = 0
    <2>1. budget.failures # 0
      BY <1>0 DEF FailJob, ClusterAssumption
    <2> QED BY <2>1, <1>0 DEF Apart
  <1>2. /\ restarts' = restarts /\ budget' = budget /\ row' = row /\ job' = job
        /\ ran' = ran /\ born' = born /\ snap' = snap /\ cmdSnap' = cmdSnap
        /\ stage' = [stage EXCEPT ![n] = "reschedule"]
    BY DEF FailJob, store, history
  <1>3. mem'[n].jobs = Restored(n, InstanceOf[j]).jobs
    BY <1>0 DEF FailJob, Restored
  <1>4. mem'[n].jobs \subseteq mem[n].jobs \cup {k \in Jobs : row[k].there}
    BY <1>3 DEF Restored, Loaded, JobsOf
  <1>5. \A k \in Jobs : row[k].there => ran[k] <= restarts /\ k \in born
    BY <1>0, <1>1 DEF OnceInv, Stored, RunUnsaved, Born, Alone
  <1>6. RunsOnce' /\ AtHand'
    BY <1>0, <1>2 DEF OnceInv, RunsOnce, AtHand, Alone
  <1>7. ToRun'
    BY <1>2, <1>4, <1>5 DEF OnceInv, ToRun, Alone
  <1>8. Stored'
    BY <1>2, <1>5 DEF Stored
  <1>9. Born'
    BY <1>2, <1>4, <1>5 DEF OnceInv, Born, Alone
  <1> QED BY <1>6, <1>7, <1>8, <1>9 DEF OnceInv

LEMMA OnceSave ==
  ASSUME Types, ClusterAssumption, Alone, OnceInv, SnapIsMemory, NEW n \in Nodes, SaveInstance(n)
  PROVE  OnceInv'
  <1>0. /\ stage[n] = "write" /\ job[n] \in Jobs /\ snap[n] \in Snap
        /\ snap \in [Nodes -> Snap]
        /\ stage \in [Nodes -> {"idle", "run", "complete", "reschedule", "save", "write"}]
    BY DEF SaveInstance, Types, TypeOK, AtWork
  <1>1. /\ ran' = ran /\ restarts' = restarts /\ born' = born /\ budget' = budget /\ mem' = mem
        /\ cmdSnap' = cmdSnap
        /\ row' = Rewritten(snap[n])
        /\ snap' = [snap EXCEPT ![n] = NoSnap]
        /\ stage' = [stage EXCEPT ![n] = "idle"]
    BY DEF SaveInstance, engine, history, bounds
  <1>2. \A m \in Nodes : snap'[m].jobs \cup cmdSnap'[m].jobs \subseteq born
    BY <1>0, <1>1 DEF OnceInv, Born, NoSnap, Alone
  <1>3. \A m \in Nodes : stage'[m] # "run"
    BY <1>0, <1>1 DEF Alone
  <1>4. ASSUME NEW j \in Jobs, row'[j].there
        PROVE  \/ ran[j] <= restarts /\ j \in born
               \/ row[j].there /\ ~\E m \in Nodes : RunUnsaved(m, j)
               \/ row[j].there /\ \E m \in Nodes : RunUnsaved(m, j)'
               \/ budget.commands # 0 /\ j \in born
    <2>1. IF InstanceOf[j] # snap[n].inst THEN row[j].there ELSE j \in snap[n].jobs
      BY <1>0, <1>1, <1>4, WhatIsThere
    <2>2. j \in born
      BY <2>1 DEF OnceInv, Born
    <2>3. CASE budget.commands = 0
      <3>1. snap[n].inst = InstanceOf[job[n]] /\ snap[n].jobs \subseteq mem[n].jobs
        BY <2>3, <1>0 DEF SnapIsMemory, Snapshot
      <3>2. CASE j \in snap[n].jobs
        BY <3>1, <3>2, <2>2 DEF OnceInv, ToRun
      <3>3. CASE InstanceOf[j] # snap[n].inst
        BY <3>1, <3>3, <2>1 DEF RunUnsaved, Alone
      <3> QED BY <2>1, <3>2, <3>3
    <2> QED BY <2>2, <2>3
  <1> QED BY <1>1, <1>2, <1>3, <1>4, OnceKept

LEMMA OnceCommand ==
  ASSUME Types, ClusterAssumption, Alone, OnceInv, NEW n \in Nodes, NEW i \in Instances, Command(n, i)
  PROVE  OnceInv'
  <1>0. /\ ran \in [Jobs -> 0..3] /\ restarts \in Nat /\ commands \in Nat
        /\ cmdSnap \in [Nodes -> Snap]
    BY DEF Types, TypeOK
  <1>1. /\ ran' = ran /\ restarts' = restarts /\ budget' = budget /\ row' = row /\ job' = job
        /\ stage' = stage /\ snap' = snap
        /\ cmdSnap' = [cmdSnap EXCEPT ![n] = Snapshot(mem'[n], i)]
        /\ budget.commands # 0
    BY <1>0 DEF Command, store, executor, ClusterAssumption
  <1>2. /\ born \subseteq born' /\ born' \subseteq Jobs
        /\ mem'[n].jobs \subseteq mem[n].jobs \cup (born' \ born)
        /\ mem'[n].jobs \subseteq mem[n].jobs \cup born'
    BY Advances DEF Command
  <1>3. RunsOnce' /\ AtHand' /\ Stored'
    BY <1>1, <1>2 DEF OnceInv, RunsOnce, AtHand, Stored
  <1>4. \A k \in born' \ born : ran[k] <= restarts
    BY <1>0, <1>2 DEF OnceInv, Born
  <1>5. ToRun'
    BY <1>1, <1>2, <1>4 DEF OnceInv, ToRun, Alone
  <1>6. cmdSnap'[n].jobs \subseteq mem'[n].jobs
    BY <1>0, <1>1 DEF Snapshot
  <1>7. Born'
    <2>1. \A k \in Jobs : ran'[k] > 0 \/ row'[k].there => k \in born'
      BY <1>1, <1>2 DEF OnceInv, Born
    <2>2. \A m \in Nodes : mem'[m].jobs \cup snap'[m].jobs \cup cmdSnap'[m].jobs \subseteq born'
      BY <1>1, <1>2, <1>6 DEF OnceInv, Born, Alone
    <2> QED BY <2>1, <2>2 DEF Born
  <1> QED BY <1>3, <1>5, <1>7 DEF OnceInv

LEMMA OnceRestart ==
  ASSUME Types, ClusterAssumption, Alone, OnceInv, NEW n \in Nodes, Restart(n)
  PROVE  OnceInv'
  <1>0. /\ ran \in [Jobs -> 0..3] /\ restarts \in Nat /\ restarts' = restarts + 1
        /\ stage \in [Nodes -> {"idle", "run", "complete", "reschedule", "save", "write"}]
        /\ mem \in [Nodes -> Image]
        /\ snap \in [Nodes -> Snap] /\ cmdSnap \in [Nodes -> Snap]
    BY DEF Types, TypeOK, Restart
  <1>1. /\ ran' = ran /\ budget' = budget /\ row' = row /\ born' = born
        /\ stage' = [stage EXCEPT ![n] = "idle"]
        /\ snap' = [snap EXCEPT ![n] = NoSnap]
        /\ cmdSnap' = [cmdSnap EXCEPT ![n] = NoSnap]
    BY DEF Restart, store, history
  <1>2. mem'[n].jobs \subseteq {j \in Jobs : row[j].there}
    BY <1>0 DEF Restart, Loaded, JobsOf
  <1>3. \A j \in Jobs : ran'[j] <= restarts'
    BY <1>0, <1>1 DEF OnceInv, RunsOnce
  <1>4. RunsOnce' /\ Stored'
    BY <1>0, <1>1, <1>3 DEF RunsOnce, Stored
  <1>5. ToRun' /\ AtHand'
    BY <1>0, <1>1, <1>2, <1>3 DEF ToRun, AtHand, Alone
  <1>6. Born'
    BY <1>0, <1>1, <1>2 DEF OnceInv, Born, NoSnap, Alone
  <1> QED BY <1>4, <1>5, <1>6 DEF OnceInv

LEMMA OnceStep ==
  ASSUME Types, ClusterAssumption, Alone, Apart, SnapIsMemory, OnceInv, [Next]_vars
  PROVE  OnceInv'
  <1> USE DEF store, engine, executor, history, bounds
  <1>0. /\ stage \in [Nodes -> {"idle", "run", "complete", "reschedule", "save", "write"}]
        /\ job \in [Nodes -> Jobs \cup {None}]
        /\ snap \in [Nodes -> Snap] /\ cmdSnap \in [Nodes -> Snap]
        /\ row \in [Jobs -> Row]
    BY DEF Types, TypeOK
  <1>a. /\ \A m \in Nodes : snap[m].jobs \cup cmdSnap[m].jobs \subseteq born
        /\ \A m \in Nodes : stage[m] = "run" => ran[job[m]] <= restarts /\ job[m] \in born
    BY DEF OnceInv, Born, AtHand
  <1>1. ASSUME NEW n \in Nodes, Acquire(n) PROVE OnceInv'
    <2>1. \A j \in Jobs : row'[j].there <=> row[j].there
      BY <1>0, <1>1 DEF Acquire, Row
    <2>2. /\ ran' = ran /\ restarts' = restarts /\ born' = born /\ budget' = budget /\ mem' = mem
          /\ snap' = snap /\ cmdSnap' = cmdSnap /\ stage' = stage /\ job' = job
      BY <1>1 DEF Acquire
    <2> QED BY <2>1, <2>2, <1>a, OnceKept DEF RunUnsaved
  <1>2. ASSUME NEW n \in Nodes, NEW j \in Jobs, DropUnknown(n, j) PROVE OnceInv'
    <2>1. \A k \in Jobs : row'[k].there => row[k].there
      BY <1>0, <1>2 DEF DropUnknown, Gone
    <2>2. /\ ran' = ran /\ restarts' = restarts /\ born' = born /\ budget' = budget /\ mem' = mem
          /\ snap' = snap /\ cmdSnap' = cmdSnap /\ stage' = stage /\ job' = job
      BY <1>2 DEF DropUnknown
    <2> QED BY <2>1, <2>2, <1>a, OnceKept DEF RunUnsaved
  <1>3. ASSUME NEW n \in Nodes, NEW j \in Jobs, BeginJob(n, j) PROVE OnceInv'
    <2>1. /\ ran' = ran /\ restarts' = restarts /\ born' = born /\ budget' = budget /\ mem' = mem
          /\ snap' = snap /\ cmdSnap' = cmdSnap /\ row' = row
          /\ job' = [job EXCEPT ![n] = j]
          /\ stage' = [stage EXCEPT ![n] = "run"]
          /\ stage[n] = "idle"
      BY <1>3 DEF BeginJob
    <2>2. ran[j] <= restarts /\ j \in born
      BY <1>3 DEF BeginJob, OnceInv, ToRun, Born
    <2>3. \A m \in Nodes : stage'[m] = "run" => ran[job'[m]] <= restarts /\ job'[m] \in born
      BY <1>0, <2>1, <2>2 DEF Alone
    <2>4. \A k \in Jobs : ~\E m \in Nodes : RunUnsaved(m, k)
      BY <2>1 DEF RunUnsaved, Alone
    <2> QED BY <2>1, <2>3, <2>4, <1>a, OnceKept
  <1>4. ASSUME NEW n \in Nodes, WriteBack(n) PROVE OnceInv'
    <2>1. /\ ran' = ran /\ restarts' = restarts /\ born' = born /\ budget' = budget /\ mem' = mem
          /\ snap' = snap /\ cmdSnap' = cmdSnap /\ job' = job
          /\ stage' = [stage EXCEPT ![n] = "save"]
      BY <1>4 DEF WriteBack
    <2>2. \A j \in Jobs : row'[j].there => row[j].there
      BY <1>0, <1>4 DEF WriteBack, Owned, Gone, Unlocked
    <2>3. \A m \in Nodes : stage'[m] # "run"
      BY <1>0, <2>1 DEF Alone
    <2>4. \A j \in Jobs : (\E m \in Nodes : RunUnsaved(m, j)) => \E m \in Nodes : RunUnsaved(m, j)'
      BY <1>0, <2>1 DEF RunUnsaved, Alone
    <2> QED BY <2>1, <2>2, <2>3, <2>4, <1>a, OnceKept
  <1>5. ASSUME NEW n \in Nodes, BuildSnap(n) PROVE OnceInv'
    <2>1. /\ ran' = ran /\ restarts' = restarts /\ born' = born /\ budget' = budget /\ mem' = mem
          /\ cmdSnap' = cmdSnap /\ job' = job /\ row' = row
          /\ snap' = [snap EXCEPT ![n] = Snapshot(mem[n], InstanceOf[job[n]])]
          /\ stage' = [stage EXCEPT ![n] = "write"]
      BY <1>5 DEF BuildSnap
    <2>2. \A m \in Nodes : snap'[m].jobs \cup cmdSnap'[m].jobs \subseteq born
      BY <1>0, <2>1, <1>a DEF Snapshot, OnceInv, Born, Alone
    <2>3. \A m \in Nodes : stage'[m] # "run"
      BY <1>0, <2>1 DEF Alone
    <2>4. \A j \in Jobs : (\E m \in Nodes : RunUnsaved(m, j)) => \E m \in Nodes : RunUnsaved(m, j)'
      BY <1>0, <2>1 DEF RunUnsaved, Alone
    <2> QED BY <2>1, <2>2, <2>3, <2>4, OnceKept
  <1>6. ASSUME NEW n \in Nodes, SaveCommand(n) PROVE OnceInv'
    <2>1. /\ ran' = ran /\ restarts' = restarts /\ born' = born /\ budget' = budget /\ mem' = mem
          /\ snap' = snap /\ job' = job /\ stage' = stage
          /\ row' = Rewritten(cmdSnap[n])
          /\ cmdSnap' = [cmdSnap EXCEPT ![n] = NoSnap]
          /\ cmdSnap[n] # NoSnap /\ cmdSnap[n] \in Snap
      BY <1>0, <1>6 DEF SaveCommand
    <2>2. budget.commands # 0
      BY <2>1 DEF SnapIsMemory
    <2>3. \A j \in Jobs : row'[j].there => j \in born
      BY <2>1, WhatIsThere DEF OnceInv, Born
    <2>4. \A m \in Nodes : snap'[m].jobs \cup cmdSnap'[m].jobs \subseteq born
      BY <1>0, <2>1, <1>a DEF NoSnap, Alone
    <2> QED BY <2>1, <2>2, <2>3, <2>4, <1>a, OnceKept
  <1>7. ASSUME Tick \/ UNCHANGED vars PROVE OnceInv'
    BY <1>7 DEF Tick, vars, OnceInv, RunsOnce, ToRun, AtHand, Stored, Born, RunUnsaved
  <1> QED
    BY <1>1, <1>2, <1>3, <1>4, <1>5, <1>6, <1>7,
       OnceFinish, OnceFail, OnceSave, OnceCommand, OnceRestart
    DEF Next, ExecuteDueJobs

\* On one engine no job is run twice, unless the engine was restarted between the
\* job and its save, whatever users do beside it or however often jobs fail.
THEOREM OneEngineRunsOnce == ASSUME Alone, Apart PROVE Spec => []RunsOnce
  <1>1. Init => Types /\ SnapIsMemory /\ OnceInv
    <2> SUFFICES ASSUME Init PROVE Types /\ SnapIsMemory /\ OnceInv
      OBVIOUS
    <2>1. Types
      BY InitTypes, ClusterAssumption
    <2>2. SnapIsMemory
      BY DEF Init, SnapIsMemory
    <2>3. RunsOnce /\ ToRun /\ AtHand /\ Stored
      BY ClusterAssumption DEF Init, RunsOnce, ToRun, AtHand, Stored, ClusterAssumption
    <2>4. Born
      BY DEF Init, Born, Gone, Unlocked, NoSnap
    <2> QED BY <2>1, <2>2, <2>3, <2>4 DEF OnceInv
  <1>2. Types /\ SnapIsMemory /\ OnceInv /\ [Next]_vars => (Types /\ SnapIsMemory /\ OnceInv)'
    BY NextTypes, SnapStep, OnceStep, ClusterAssumption
  <1>3. OnceInv => RunsOnce
    BY DEF OnceInv
  <1> QED BY <1>1, <1>2, <1>3, PTL DEF Spec

-----------------------------------------------------------------------------
(* No job is cleared away.                                                 *)

\* A step that keeps the memory and the histories and adds no row keeps KeptInv.
LEMMA KeptKept ==
  ASSUME KeptInv, ran' = ran, cancelled' = cancelled, budget' = budget, mem' = mem,
         \A j \in Jobs : row'[j].there => row[j].there,
         \A m \in Nodes : stage'[m] = "complete" => stage[m] = "complete" /\ job'[m] = job[m]
  PROVE  KeptInv'
  BY DEF KeptInv, Finished, InMemory

LEMMA KeptStep ==
  ASSUME Types, ClusterAssumption, Alone, SnapIsMemory, KeptInv, [Next]_vars
  PROVE  KeptInv'
  <1> USE DEF store, engine, executor, history, bounds
  <1>0. /\ stage \in [Nodes -> {"idle", "run", "complete", "reschedule", "save", "write"}]
        /\ job \in [Nodes -> Jobs \cup {None}]
        /\ snap \in [Nodes -> Snap] /\ cmdSnap \in [Nodes -> Snap]
        /\ row \in [Jobs -> Row]
        /\ mem \in [Nodes -> Image]
        /\ ran \in [Jobs -> 0..3]
        /\ commands \in Nat
    BY DEF Types, TypeOK
  <1>1. ASSUME NEW n \in Nodes, Acquire(n) PROVE KeptInv'
    <2>1. \A j \in Jobs : row'[j].there <=> row[j].there
      BY <1>0, <1>1 DEF Acquire, Row
    <2> QED BY <1>1, <2>1, KeptKept DEF Acquire
  <1>2. ASSUME NEW n \in Nodes, NEW j \in Jobs, DropUnknown(n, j) PROVE KeptInv'
    <2>1. \A k \in Jobs : row'[k].there => row[k].there
      BY <1>0, <1>2 DEF DropUnknown, Gone
    <2> QED BY <1>2, <2>1, KeptKept DEF DropUnknown
  <1>3. ASSUME NEW n \in Nodes, NEW j \in Jobs, BeginJob(n, j) PROVE KeptInv'
    BY <1>0, <1>3, KeptKept DEF BeginJob, Alone
  <1>4. ASSUME NEW n \in Nodes, FinishJob(n) PROVE KeptInv'
    <2>1. job[n] \in Jobs /\ InstanceOf[job[n]] \in Instances
      BY <1>4 DEF FinishJob, Types, AtWork, ClusterAssumption
    <2>2. /\ mem[n].jobs \subseteq mem'[n].jobs \cup {job[n]} \cup cancelled'
          /\ cancelled \subseteq cancelled'
      BY <1>4, <2>1, Advances DEF FinishJob
    <2>3. ran'[job[n]] > 0 /\ \A j \in Jobs \ {job[n]} : ran'[j] = ran[j]
      BY <1>0, <1>4, <2>1 DEF FinishJob
    <2>4. row' = row /\ budget' = budget /\ job' = job
      BY <1>4 DEF FinishJob
    <2>5. Finished'
      BY <2>3, <2>4 DEF Finished, Alone
    <2>6. InMemory'
      BY <2>2, <2>3, <2>4 DEF KeptInv, InMemory, Alone
    <2> QED BY <2>5, <2>6 DEF KeptInv
  <1>5. ASSUME NEW n \in Nodes, FailJob(n) PROVE KeptInv'
    <2>1. mem'[n].jobs = Restored(n, InstanceOf[job[n]]).jobs
      BY <1>0, <1>5 DEF FailJob, Restored
    <2>2. /\ ran' = ran /\ cancelled' = cancelled /\ budget' = budget /\ row' = row
          /\ stage' = [stage EXCEPT ![n] = "reschedule"]
      BY <1>5 DEF FailJob
    <2>4. \A j \in Jobs : row[j].there /\ j \in mem[n].jobs => j \in mem'[n].jobs
      BY <2>1 DEF Restored, Loaded
    <2>5. Finished'
      BY <1>0, <2>2 DEF Finished, Alone
    <2>6. InMemory'
      BY <2>2, <2>4 DEF KeptInv, InMemory, Alone
    <2> QED BY <2>5, <2>6 DEF KeptInv
  <1>6. ASSUME NEW n \in Nodes, WriteBack(n) PROVE KeptInv'
    <2>1. \A j \in Jobs : row'[j].there => row[j].there
      BY <1>0, <1>6 DEF WriteBack, Owned, Gone, Unlocked
    <2> QED BY <1>0, <1>6, <2>1, KeptKept DEF WriteBack, Alone
  <1>7. ASSUME NEW n \in Nodes, BuildSnap(n) PROVE KeptInv'
    BY <1>0, <1>7, KeptKept DEF BuildSnap, Alone
  <1>8. ASSUME NEW n \in Nodes, SaveInstance(n) PROVE KeptInv'
    <2>1. /\ ran' = ran /\ cancelled' = cancelled /\ budget' = budget /\ mem' = mem
          /\ row' = Rewritten(snap[n])
          /\ stage' = [stage EXCEPT ![n] = "idle"]
          /\ stage[n] = "write" /\ snap[n] \in Snap
      BY <1>0, <1>8 DEF SaveInstance
    <2>2. ASSUME budget.commands = 0, NEW j \in Jobs, row'[j].there
          PROVE  j \in mem[n].jobs \/ row[j].there
      <3>1. Rewritten(snap[n])[j].there
        BY <2>1, <2>2
      <3>2. IF InstanceOf[j] # snap[n].inst THEN row[j].there ELSE j \in snap[n].jobs
        BY <2>1, <3>1, WhatIsThere
      <3>3. snap[n] = Snapshot(mem[n], InstanceOf[job[n]])
        BY <2>1, <2>2 DEF SnapIsMemory
      <3>4. snap[n].jobs \subseteq mem[n].jobs
        BY <3>3 DEF Snapshot
      <3> QED BY <3>2, <3>4
    <2>3. Finished'
      BY <1>0, <2>1 DEF Finished, Alone
    <2>4. InMemory'
      BY <2>1, <2>2 DEF KeptInv, InMemory, Alone
    <2> QED BY <2>3, <2>4 DEF KeptInv
  <1>9. ASSUME NEW n \in Nodes, NEW i \in Instances, Command(n, i) PROVE KeptInv'
    <2>1. budget'.commands # 0
      BY <1>0, <1>9 DEF Command
    <2>2. ran' = ran /\ stage' = stage /\ job' = job
      BY <1>9 DEF Command
    <2> QED BY <2>1, <2>2 DEF KeptInv, Finished, InMemory
  <1>10. ASSUME NEW n \in Nodes, SaveCommand(n) PROVE KeptInv'
    <2>1. /\ ran' = ran /\ stage' = stage /\ job' = job /\ budget' = budget
          /\ cmdSnap[n] # NoSnap
      BY <1>10 DEF SaveCommand
    <2>2. budget.commands # 0
      BY <2>1 DEF SnapIsMemory
    <2> QED BY <2>1, <2>2 DEF KeptInv, Finished, InMemory
  <1>11. ASSUME NEW n \in Nodes, Restart(n) PROVE KeptInv'
    <2>1. /\ row' = row /\ stage' = [stage EXCEPT ![n] = "idle"]
          /\ mem'[n].jobs = UNION {Loaded(i) : i \in Instances}
      BY <1>0, <1>11 DEF Restart
    <2>2. \A j \in Jobs : row[j].there => j \in mem'[n].jobs
      BY <2>1 DEF Loaded, JobsOf, ClusterAssumption
    <2> QED BY <1>0, <2>1, <2>2 DEF KeptInv, Finished, InMemory, Alone
  <1>12. ASSUME Tick \/ UNCHANGED vars PROVE KeptInv'
    BY <1>12 DEF Tick, vars, KeptInv, Finished, InMemory
  <1> QED
    BY <1>1, <1>2, <1>3, <1>4, <1>5, <1>6, <1>7, <1>8, <1>9, <1>10, <1>11, <1>12
    DEF Next, ExecuteDueJobs

\* A row goes when its job was run or cancelled.
LEMMA GoesWhenDone ==
  ASSUME Types, ClusterAssumption, Alone, SnapIsMemory, KeptInv, [Next]_vars,
         NEW j \in Jobs, budget.commands = 0, row[j].there, ~row'[j].there
  PROVE  ran[j] > 0 \/ j \in cancelled
  <1> USE DEF store, engine, executor, history, bounds
  <1>0. snap \in [Nodes -> Snap] /\ row \in [Jobs -> Row]
    BY DEF Types, TypeOK
  <1>1. ASSUME NEW n \in Nodes, Acquire(n) PROVE FALSE
    BY <1>0, <1>1 DEF Acquire, Row
  <1>2. ASSUME NEW n \in Nodes, NEW k \in Jobs, DropUnknown(n, k)
        PROVE  ran[j] > 0 \/ j \in cancelled
    BY <1>0, <1>2 DEF DropUnknown, KeptInv, InMemory
  <1>3. ASSUME NEW n \in Nodes, WriteBack(n) PROVE ran[j] > 0
    <2>1. job[n] = j /\ stage[n] = "complete"
      BY <1>0, <1>3 DEF WriteBack, Unlocked
    <2> QED BY <2>1 DEF KeptInv, Finished
  <1>4. ASSUME NEW n \in Nodes, SaveInstance(n)
        PROVE  ran[j] > 0 \/ j \in cancelled
    <2>1. row' = Rewritten(snap[n]) /\ stage[n] = "write" /\ snap[n] \in Snap
      BY <1>0, <1>4 DEF SaveInstance
    <2>2. InstanceOf[j] = snap[n].inst /\ j \notin snap[n].jobs
      BY <2>1, WhatIsThere
    <2>3. j \notin mem[n].jobs
      <3>1. snap[n] = Snapshot(mem[n], InstanceOf[job[n]])
        BY <2>1 DEF SnapIsMemory
      <3>2. snap[n].jobs = mem[n].jobs \cap JobsOf(snap[n].inst)
        BY <3>1 DEF Snapshot
      <3> QED BY <2>2, <3>2 DEF JobsOf
    <2> QED BY <2>3 DEF KeptInv, InMemory
  <1>5. ASSUME NEW n \in Nodes, SaveCommand(n) PROVE FALSE
    BY <1>5 DEF SaveCommand, SnapIsMemory
  <1>6. CASE row' = row
    BY <1>6
  <1> QED
    BY <1>1, <1>2, <1>3, <1>4, <1>5, <1>6
    DEF Next, ExecuteDueJobs, BeginJob, FinishJob, FailJob, BuildSnap, Command, Restart, Tick, vars

\* On one engine, with no user commands beside the executor, a job leaves the table
\* only when it was run or cancelled, whatever fails and whenever it is restarted.
THEOREM OneEngineKeepsJobs == ASSUME Alone PROVE Spec => JobsNotDropped
  <1>1. Init => Types /\ SnapIsMemory /\ KeptInv
    <2> SUFFICES ASSUME Init PROVE Types /\ SnapIsMemory /\ KeptInv
      OBVIOUS
    <2>1. Types
      BY InitTypes, ClusterAssumption
    <2>2. SnapIsMemory /\ Finished
      BY DEF Init, SnapIsMemory, Finished
    <2>3. InMemory
      BY ClusterAssumption DEF Init, InMemory, Gone, Unlocked, Alone, ClusterAssumption
    <2> QED BY <2>1, <2>2, <2>3 DEF KeptInv
  <1>2. Types /\ SnapIsMemory /\ KeptInv /\ [Next]_vars => (Types /\ SnapIsMemory /\ KeptInv)'
    BY NextTypes, SnapStep, KeptStep, ClusterAssumption
  <1>3. Types /\ SnapIsMemory /\ KeptInv /\ [Next]_vars =>
          [\A j \in Jobs :
             /\ budget.commands = 0
             /\ row[j].there
             /\ ~row'[j].there
             => ran[j] > 0 \/ j \in cancelled]_vars
    BY GoesWhenDone, ClusterAssumption
  <1> QED BY <1>1, <1>2, <1>3, PTL DEF Spec, JobsNotDropped
=============================================================================
