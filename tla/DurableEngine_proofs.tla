------------------------- MODULE DurableEngine_proofs -------------------------
(***************************************************************************)
(* For every process definition that throws no events, any faults and any  *)
(* commands: the engine with a store implements Transactions.              *)
(*                                                                         *)
(* That a restart or a rollback brings back what is on disk needs to know  *)
(* what is on disk.  DInv says so: the executions that are stored are      *)
(* alive, they form a tree below the root, and they stand where the        *)
(* executions of the memory with the same ids stand; the tasks and jobs    *)
(* that are stored are theirs.  It also says that a command that ends      *)
(* leaves no event and no suspended call behind, so that "nobody", "user", *)
(* "job" and "undo" can be told from the variables.                        *)
(*                                                                         *)
(* A throw event is the exception: what hears it is saved in the middle of *)
(* the command, also of a job, so a job that throws is not all or nothing. *)
(***************************************************************************)
EXTENDS DurableEngine, EventEngine_proofs

NoThrows == \A n \in Nodes : Kind(n) \notin ThrowKinds

\* Execution e, whose path is p, hangs below the root by executions of D.
Hangs(D, e, p) ==
  \/ e = Root
  \/ \E k \in DOMAIN p : p[k] = Root /\ \A m \in 1..(k - 1) : p[m] \in D

\* The rows of an instance whose executions are x in memory.
RowsOf(d, x) ==
  /\ DOMAIN d.ex \subseteq DOMAIN x
  /\ d.ex \in [DOMAIN d.ex -> ExecutionIn(x)]
  /\ \A e \in DOMAIN d.ex :
       d.ex[e].live /\ d.ex[e].path = x[e].path /\ Hangs(DOMAIN d.ex, e, x[e].path)
  /\ d.tasks \subseteq TaskIn(x)
  /\ d.jobs \subseteq {j \in JobIn(x) : j.scope = None}
  /\ d.over \in BOOLEAN
  /\ d.over => d.jobs = {}

\* Between commands there is nothing left to do, and only a caller waits for
\* an event to be heard.
Idle ==
  /\ cmd = NoCmd => queue = <<>> /\ collapsing = FALSE /\ calls = <<>>
  /\ calls # <<>> => cmd = CompleteC /\ \A k \in DOMAIN calls : calls[k].tok = 0
  /\ failing => cmd = NoCmd

DInv == EInv /\ RowsOf(disk, ex) /\ Idle

-----------------------------------------------------------------------------
(* What is on disk.                                                        *)

\* What would be written of these executions, tasks and jobs.
Snapshot(x, t, j, o) ==
  [ex |-> [e \in Reached(x) |-> x[e]],
   tasks |-> t,
   jobs |-> {[k EXCEPT !.scope = None] : k \in j},
   over |-> o]

\* Nodes are no words.
LEMMA Names ==
  /\ None \notin Nodes /\ Top \notin Nodes
  /\ NoCmd \notin Job /\ StartC \notin Job /\ CompleteC \notin Job
  /\ NoCmd # StartC /\ NoCmd # CompleteC
  <1>1. None \notin Nodes /\ Top \notin Nodes
    BY ProcAssumption DEF ProcAssumption
  <1>2. \A j \in Job : j.kind \notin {"none", "start", "complete"}
    BY DEF Job, JobKinds
  <1>3. NoCmd.kind = "none" /\ StartC.kind = "start" /\ CompleteC.kind = "complete"
    BY DEF NoCmd, StartC, CompleteC
  <1>4. ASSUME NEW c, c.kind = "none" \/ c.kind = "start" \/ c.kind = "complete" PROVE c \notin Job
    BY <1>2, <1>4
  <1>6. NoCmd # StartC /\ NoCmd # CompleteC
    BY <1>3
  <1> QED BY <1>1, <1>3, <1>4, <1>6

\* Every execution between one that is reached and the root is reached.
LEMMA ReachedAbove ==
  ASSUME NEW x, Tree(x), NEW e \in DOMAIN x, NEW k \in DOMAIN x[e].path, x[e].path[k] = Root,
         \A m \in 1..(k - 1) : x[x[e].path[m]].live, NEW m \in 1..(k - 1)
  PROVE  x[e].path[m] \in Below(x, Root)
  <1> DEFINE p == x[e].path
             d == p[m]
             q == SubSeq(p, m + 1, Len(p))
  <1>1. p \in Seq(DOMAIN x) /\ Chain(x, p)
    BY ChildPath
  <1>2. Len(p) \in Nat /\ DOMAIN p = 1..Len(p) /\ k \in 1..Len(p) /\ m \in DOMAIN p
    BY <1>1
  <1>3. d \in DOMAIN x /\ x[d].path = q
    BY <1>1, <1>2 DEF Chain
  <1>4. q \in Seq(DOMAIN x) /\ Len(q) = Len(p) - m /\ \A i \in 1..(Len(p) - m) : q[i] = p[m + i]
    <2>1. \A i \in (m + 1)..Len(p) : p[i] \in DOMAIN x
      BY <1>1, <1>2
    <2>2. /\ q \in Seq(DOMAIN x) /\ Len(q) = IF m + 1 <= Len(p) THEN Len(p) - (m + 1) + 1 ELSE 0
          /\ \A i \in 1..(Len(p) - (m + 1) + 1) : q[i] = p[(m + 1) + i - 1]
      BY <1>2, <2>1, SubSeqProperties
    <2>3. m + 1 <= Len(p) /\ Len(p) - (m + 1) + 1 = Len(p) - m /\ m \in Nat
      BY <1>2
    <2> HIDE DEF p, q
    <2>4. \A i \in 1..(Len(p) - m) : (m + 1) + i - 1 = m + i
      BY <2>3
    <2> QED BY <2>2, <2>3, <2>4
  <1>5. x[d].live /\ p[k] = Root /\ \A l \in 1..(k - 1) : x[p[l]].live
    OBVIOUS
  <1> HIDE DEF p, q, d
  <1>6. k - m \in DOMAIN q /\ q[k - m] = Root
    BY <1>2, <1>4, <1>5
  <1>7. \A i \in 1..(k - m - 1) : x[q[i]].live
    <2> SUFFICES ASSUME NEW i \in 1..(k - m - 1) PROVE x[q[i]].live
      OBVIOUS
    <2>1. i \in 1..(Len(p) - m) /\ m + i \in 1..(k - 1)
      BY <1>2
    <2>2. q[i] = p[m + i]
      BY <1>4, <2>1
    <2> QED BY <2>1, <2>2, <1>5
  <1>8. d \in Below(x, Root)
    BY <1>3, <1>5, <1>6, <1>7 DEF Below
  <1> QED BY <1>8 DEF d, p

\* What is written are the rows of the instance.
LEMMA SnapshotRows ==
  ASSUME NEW x, Tree(x), NEW t, t \subseteq TaskIn(x), NEW j, j \subseteq JobIn(x), NEW o \in BOOLEAN,
         o => j = {}
  PROVE  RowsOf(Snapshot(x, t, j, o), x)
  <1> DEFINE d == Snapshot(x, t, j, o)
  <1>1. /\ d.ex = [e \in Reached(x) |-> x[e]] /\ d.tasks = t /\ d.over = o
        /\ d.jobs = {[k EXCEPT !.scope = None] : k \in j}
    BY DEF Snapshot
  <1> HIDE DEF d
  <1>2. DOMAIN d.ex = Reached(x) /\ Reached(x) \subseteq DOMAIN x /\ \A e \in Reached(x) : x[e].live
    BY <1>1 DEF Reached, Below
  <1>3. d.ex \in [DOMAIN d.ex -> ExecutionIn(x)]
    BY <1>1, <1>2, TreeDomain
  <1>4. ASSUME NEW e \in DOMAIN d.ex
        PROVE  d.ex[e].live /\ d.ex[e].path = x[e].path /\ Hangs(DOMAIN d.ex, e, x[e].path)
    <2>1. d.ex[e] = x[e] /\ e \in DOMAIN x
      BY <1>1, <1>2, <1>4
    <2>2. CASE e = Root
      BY <1>2, <1>4, <2>1, <2>2 DEF Hangs
    <2>3. CASE e # Root
      <3>1. e \in Below(x, Root)
        BY <1>2, <1>4, <2>3 DEF Reached
      <3>2. PICK k \in DOMAIN x[e].path : x[e].path[k] = Root /\ \A m \in 1..(k - 1) : x[x[e].path[m]].live
        BY <3>1 DEF Below
      <3>3. \A m \in 1..(k - 1) : x[e].path[m] \in Below(x, Root)
        BY <2>1, <3>2, ReachedAbove
      <3> QED BY <1>2, <1>4, <2>1, <3>2, <3>3 DEF Hangs, Reached
    <2> QED BY <2>2, <2>3
  <1>5. d.jobs \subseteq {k \in JobIn(x) : k.scope = None}
    <2> SUFFICES ASSUME NEW k \in j PROVE [k EXCEPT !.scope = None] \in {i \in JobIn(x) : i.scope = None}
      BY <1>1
    <2>1. k \in Job /\ k \in JobIn(x)
      BY DEF JobIn
    <2>2. [k EXCEPT !.scope = None] \in Job /\ [k EXCEPT !.scope = None].scope = None
      BY <2>1 DEF Job
    <2>3. /\ [k EXCEPT !.scope = None].kind = k.kind
          /\ [k EXCEPT !.scope = None].ex = k.ex
          /\ [k EXCEPT !.scope = None].node = k.node
      BY <2>1 DEF Job
    <2> QED BY <2>1, <2>2, <2>3 DEF JobIn
  <1>6. d.over => d.jobs = {}
    BY <1>1
  <1> QED BY <1>1, <1>2, <1>3, <1>4, <1>5, <1>6 DEF RowsOf, d

\* The rows stay good while the instance grows and stays in shape.
LEMMA RowsKept ==
  ASSUME NEW d, NEW x, NEW y, RowsOf(d, x), DOMAIN x \subseteq DOMAIN y,
         \A i \in DOMAIN x : y[i].path = x[i].path
  PROVE  RowsOf(d, y)
  <1>1. ExecutionIn(x) \subseteq ExecutionIn(y) /\ TaskIn(x) \subseteq TaskIn(y) /\ JobIn(x) \subseteq JobIn(y)
    BY InMonotone
  <1>2. \A e \in DOMAIN d.ex : e \in DOMAIN x /\ y[e].path = x[e].path
    BY DEF RowsOf
  <1> QED BY <1>1, <1>2 DEF RowsOf

\* What is in memory can be written, and is then read back as it is.
LEMMA ImageRows ==
  ASSUME EInv
  PROVE  RowsOf(Image, ex)
  <1>1. RowsOf(Snapshot(ex, tasks, jobs, completed), ex)
    BY SnapshotRows DEF EInv, IInv
  <1> QED BY <1>1 DEF Image, Row, Snapshot

LEMMA ImageRowsNext ==
  ASSUME EInv'
  PROVE  RowsOf(Image', ex')
  <1>1. /\ Tree(ex') /\ tasks' \subseteq TaskIn(ex') /\ jobs' \subseteq JobIn(ex') /\ completed' \in BOOLEAN
        /\ completed' => jobs' = {}
    BY DEF EInv, IInv
  <1>2. RowsOf(Snapshot(ex', tasks', jobs', completed'), ex')
    BY <1>1, SnapshotRows
  <1> QED BY <1>2 DEF Image, Row, Snapshot

-----------------------------------------------------------------------------
(* What is read back.                                                      *)

LEMMA RestoredTree ==
  ASSUME EInv, RowsOf(disk, ex), NEW x, x = RestoredExecutions
  PROVE  /\ Tree(x) /\ DOMAIN x = DOMAIN ex
         /\ \A i \in DOMAIN ex : x[i].path = ex[i].path
         /\ \A i \in DOMAIN disk.ex : i \in DOMAIN x /\ x[i] = disk.ex[i]
         /\ \A i \in DOMAIN x \ DOMAIN disk.ex : ~x[i].live
  <1>1. Tree(ex) /\ ex \in [DOMAIN ex -> ExecutionIn(ex)]
    BY TreeDomain DEF EInv, IInv
  <1>2. x = [i \in DOMAIN ex |-> IF i \in DOMAIN disk.ex THEN disk.ex[i] ELSE [ex[i] EXCEPT !.live = FALSE]]
    BY DEF RestoredExecutions
  <1>3. \A i \in DOMAIN ex :
          KeepsPlace(ex, ex[i], [ex[i] EXCEPT !.live = FALSE]) /\ ~[ex[i] EXCEPT !.live = FALSE].live
    <2> SUFFICES ASSUME NEW i \in DOMAIN ex
                 PROVE  KeepsPlace(ex, ex[i], [ex[i] EXCEPT !.live = FALSE])
                        /\ ~[ex[i] EXCEPT !.live = FALSE].live
      OBVIOUS
    <2>1. ex[i] \in ExecutionIn(ex)
      BY <1>1
    <2>2. KeepsPlace(ex, ex[i], [ex[i] EXCEPT !.live = FALSE])
      BY <2>1, Updates
    <2>3. [ex[i] EXCEPT !.live = FALSE].live = FALSE
      BY <2>1 DEF ExecutionIn
    <2> QED BY <2>2, <2>3
  <1>4. \A i \in DOMAIN ex : x[i] \in ExecutionIn(ex) /\ x[i].path = ex[i].path
    BY <1>2, <1>3 DEF RowsOf, KeepsPlace
  <1>5. x \in [DOMAIN ex -> ExecutionIn(ex)] /\ DOMAIN x = DOMAIN ex
    BY <1>2, <1>4
  <1>6. Tree(x)
    BY <1>1, <1>4, <1>5, SameShape
  <1>7. \A i \in DOMAIN disk.ex : i \in DOMAIN x /\ x[i] = disk.ex[i]
    BY <1>2, <1>5 DEF RowsOf
  <1>8. \A i \in DOMAIN x \ DOMAIN disk.ex : ~x[i].live
    BY <1>2, <1>3, <1>5
  <1> QED BY <1>4, <1>5, <1>6, <1>7, <1>8

\* What is read back would be written as it was.
LEMMA RestoredReach ==
  ASSUME EInv, RowsOf(disk, ex), NEW x, x = RestoredExecutions
  PROVE  [e \in Reached(x) |-> x[e]] = disk.ex
  <1>1. /\ Tree(x) /\ DOMAIN x = DOMAIN ex
        /\ \A i \in DOMAIN ex : x[i].path = ex[i].path
        /\ \A i \in DOMAIN disk.ex : i \in DOMAIN x /\ x[i] = disk.ex[i]
        /\ \A i \in DOMAIN x \ DOMAIN disk.ex : ~x[i].live
    BY RestoredTree
  <1>2. Reached(x) \subseteq DOMAIN disk.ex
    <2>1. \A e \in Reached(x) : e \in DOMAIN x /\ x[e].live
      BY DEF Reached, Below
    <2> QED BY <1>1, <2>1
  <1>3. ASSUME NEW e \in DOMAIN disk.ex PROVE e \in Reached(x)
    <2>1. e \in DOMAIN x /\ x[e].live /\ x[e].path = ex[e].path /\ Hangs(DOMAIN disk.ex, e, x[e].path)
      BY <1>1 DEF RowsOf
    <2>2. CASE e = Root
      BY <2>1, <2>2 DEF Reached
    <2>3. CASE e # Root
      <3>1. PICK k \in DOMAIN x[e].path :
              x[e].path[k] = Root /\ \A m \in 1..(k - 1) : x[e].path[m] \in DOMAIN disk.ex
        BY <2>1, <2>3 DEF Hangs
      <3>2. \A m \in 1..(k - 1) : x[x[e].path[m]].live
        BY <1>1, <3>1 DEF RowsOf
      <3> QED BY <2>1, <3>1, <3>2 DEF Reached, Below
    <2> QED BY <2>2, <2>3
  <1>4. disk.ex = [e \in DOMAIN disk.ex |-> disk.ex[e]]
    BY DEF RowsOf
  <1> QED BY <1>1, <1>2, <1>3, <1>4

\* The jobs as they are read back, and what a save would make of them.
LEMMA RestoredJobsBack ==
  ASSUME RowsOf(disk, ex)
  PROVE  /\ RestoredJobs \subseteq JobIn(ex)
         /\ {[k EXCEPT !.scope = None] : k \in RestoredJobs} = disk.jobs
  <1> DEFINE back(j) == IF j.kind = "timer-event-start" THEN [j EXCEPT !.scope = Top] ELSE j
  <1>1. ASSUME NEW j \in disk.jobs
        PROVE  back(j) \in JobIn(ex) /\ [back(j) EXCEPT !.scope = None] = j
    <2>1. j \in JobIn(ex) /\ j \in Job /\ j.scope = None
      BY DEF RowsOf, JobIn
    <2>2. CASE j.kind = "timer-event-start"
      <3> DEFINE r == [j EXCEPT !.scope = Top]
      <3>1. r \in Job /\ r.kind = j.kind /\ r.ex = j.ex /\ r.node = j.node
        BY <2>1 DEF Job
      <3>2. [r EXCEPT !.scope = None] = j
        BY <2>1 DEF Job
      <3>3. r \in JobIn(ex)
        BY <2>1, <3>1 DEF JobIn
      <3> QED BY <2>2, <3>2, <3>3
    <2>3. CASE j.kind # "timer-event-start"
      <3>1. [j EXCEPT !.scope = None] = j
        BY <2>1 DEF Job
      <3> QED BY <2>1, <2>3, <3>1
    <2> QED BY <2>2, <2>3
  <1>2. RestoredJobs = {back(j) : j \in disk.jobs}
    BY DEF RestoredJobs
  <1> HIDE DEF back
  <1> QED BY <1>1, <1>2

\* Some boundary timers come in addition.
LEMMA RestoredTimersIn ==
  ASSUME RowsOf(disk, ex), NEW x, Tree(x), DOMAIN x = DOMAIN ex, NEW order
  PROVE  /\ RestoredTimers(x, order) \subseteq JobIn(x)
         /\ RestoredJobs \subseteq RestoredTimers(x, order)
         /\ \A j \in RestoredTimers(x, order) \ RestoredJobs : j.kind = "timer-boundary"
  <1> DEFINE Hosts == {e \in Listeners(x) : IsHost(x, e)}
             First == {e \in Hosts : \A d \in Hosts : x[d].act = x[e].act => order[e] <= order[d]}
  <1>1. RestoredJobs \subseteq JobIn(x)
    <2>1. RestoredJobs \subseteq JobIn(ex)
      BY RestoredJobsBack
    <2>2. JobIn(ex) = JobIn(x)
      BY DEF JobIn
    <2> QED BY <2>1, <2>2
  <1>2. First \subseteq DOMAIN x
    BY DEF Listeners, Waiting
  <1>3. RestoredTimers(x, order) = RestoredJobs \cup UNION {WithBoundaries(RestoredJobs, e, x[e].act) : e \in First}
    BY DEF RestoredTimers
  <1> HIDE DEF First, Hosts
  <1>4. ASSUME NEW e \in First
        PROVE  /\ WithBoundaries(RestoredJobs, e, x[e].act) \subseteq JobIn(x)
               /\ \A j \in WithBoundaries(RestoredJobs, e, x[e].act) \ RestoredJobs : j.kind = "timer-boundary"
    <2> DEFINE h == x[e].act
    <2>1. e \in DOMAIN x
      BY <1>2
    <2> HIDE DEF h
    <2>2. WithBoundaries(RestoredJobs, e, h) \subseteq JobIn(x)
      BY <1>1, <2>1, WithBoundariesIn
    <2>3. \A j \in WithBoundaries(RestoredJobs, e, h) \ RestoredJobs : j.kind = "timer-boundary"
      BY DEF WithBoundaries, NewJob
    <2> QED BY <2>2, <2>3 DEF h
  <1> QED BY <1>1, <1>3, <1>4

LEMMA JobsReadBack ==
  ASSUME RowsOf(disk, ex), NEW j, RestoredJobs \subseteq j, j \subseteq Job,
         \A k \in j \ RestoredJobs : k.kind = "timer-boundary",
         NEW J, J = {[k EXCEPT !.scope = None] : k \in j}
  PROVE  disk.jobs \subseteq J /\ \A k \in J \ disk.jobs : k.kind = "timer-boundary"
  <1>1. disk.jobs = {[k EXCEPT !.scope = None] : k \in RestoredJobs}
    BY RestoredJobsBack
  <1>2. disk.jobs \subseteq J
    BY <1>1
  <1>3. ASSUME NEW i \in J \ disk.jobs PROVE i.kind = "timer-boundary"
    <2>1. PICK k \in j : i = [k EXCEPT !.scope = None]
      OBVIOUS
    <2>2. k \notin RestoredJobs /\ k \in Job
      BY <1>1, <1>3, <2>1
    <2>3. i.kind = k.kind
      BY <2>1, <2>2 DEF Job
    <2> QED BY <2>2, <2>3
  <1> QED BY <1>2, <1>3

\* a * n grows with a.
LEMMA Times ==
  ASSUME NEW a \in Nat, NEW c \in Nat, a <= c, NEW n \in Nat
  PROVE  a * n <= c * n /\ a * n \in Nat /\ c * n \in Nat
  <1>1. PICK d \in Nat : c = a + d
    <2>1. c - a \in Nat /\ c = a + (c - a)
      OBVIOUS
    <2> QED BY <2>1
  <1>2. c * n = a * n + d * n
    BY <1>1
  <1>3. a * n \in Nat /\ d * n \in Nat
    OBVIOUS
  <1> QED BY <1>2, <1>3

LEMMA OrderIn ==
  ASSUME NEW x, Tree(x), NEW order \in Orders(x)
  PROVE  LET c == Cardinality(Listeners(x)) IN
         c \in Nat /\ \A e \in Listeners(x) : e \in DOMAIN x /\ order[e] \in 1..c
  <1>1. Listeners(x) \subseteq DOMAIN x
    BY DEF Listeners, Waiting
  <1>2. IsFiniteSet(Listeners(x))
    <2>1. DOMAIN x = 1..Len(x) /\ Len(x) \in Nat
      BY TreeDomain
    <2>2. IsFiniteSet(1..Len(x))
      BY <2>1, FS_Interval
    <2> QED BY <1>1, <2>1, <2>2, FS_Subset
  <1>3. Cardinality(Listeners(x)) \in Nat
    BY <1>2, FS_CardinalityType
  <1>4. order \in [Listeners(x) -> 1..Cardinality(Listeners(x))]
    BY DEF Orders, Injection
  <1> QED BY <1>1, <1>3, <1>4

LEMMA EventList ==
  /\ Len(Events) \in Nat /\ DOMAIN Events = 1..Len(Events)
  /\ \A i \in DOMAIN Events : Events[i].node \in Nodes
  <1> DEFINE E == [node: Nodes, kind: {"message", "signal"}, name: STRING]
  <1>1. Events \in Seq(E)
    BY EventAssumption DEF EventAssumption
  <1>2. \A v \in E : v.node \in Nodes
    OBVIOUS
  <1> HIDE DEF E
  <1>3. Len(Events) \in Nat /\ DOMAIN Events = 1..Len(Events) /\ \A i \in DOMAIN Events : Events[i] \in E
    BY <1>1
  <1> QED BY <1>2, <1>3

\* The k-th block of new places comes behind the latest one.
LEMMA RestoredSubsIn ==
  ASSUME NEW x, Tree(x), Root \in DOMAIN x, NEW b \in Nat, NEW old, EventsIn(x, b, old, calls),
         NEW order \in Orders(x)
  PROVE  \E a \in Nat : RestoredSubs(x, old, order) \subseteq SubIn(x, a)
  <1> DEFINE s == WithStartSubs(old, Root, Top)
             n == Len(Events)
             c == Cardinality(Listeners(x))
             l == Latest(s)
             top == 2 * c + 1
             a == l + top * n + n
             Place(e, k, i, sc) == [node |-> Events[i].node, ex |-> e, scope |-> sc, at |-> l + k * n + i]
  <1>1. EventsIn(x, b + n, s, calls) /\ b + n \in Nat /\ n \in Nat /\ DOMAIN Events = 1..n
    <2>1. Root \in DOMAIN x /\ Top \in Nodes \cup {Top, None}
      OBVIOUS
    <2>2. EventsIn(x, b + n, s, calls) /\ b + n \in Nat
      BY <2>1, WithSubsIn
    <2> QED BY <2>2, EventList
  <1>2. \A i \in DOMAIN Events : Events[i].node \in Nodes
    BY EventList
  <1>3. c \in Nat /\ \A e \in Listeners(x) : e \in DOMAIN x /\ order[e] \in 1..c
    BY OrderIn
  <1> HIDE DEF s, n, c
  <1>4. l \in Nat /\ \A r \in s : r.at \in Nat /\ r.at <= l
    <2>1. /\ Latest(s) \in Nat /\ Latest(s) <= b + n
          /\ \A r \in Known(s) : r.at \in Nat /\ r.at <= Latest(s)
      BY <1>1, LatestBounds
    <2>2. s \subseteq Known(s)
      BY DEF Known
    <2> QED BY <2>1, <2>2
  <1> HIDE DEF l
  <1>5. top \in Nat /\ top * n \in Nat /\ a \in Nat /\ l <= a
    <2>1. top \in Nat
      BY <1>3
    <2> HIDE DEF top
    <2>2. top * n \in Nat
      BY <1>1, <2>1
    <2> QED BY <1>1, <1>4, <2>1, <2>2
  <1>6. s \subseteq SubIn(x, a)
    <2>1. s \subseteq SubIn(x, b + n)
      BY <1>1 DEF EventsIn
    <2> HIDE DEF a
    <2>2. \A r \in s : r \in SubIn(x, a)
      BY <1>4, <1>5, <2>1 DEF SubIn, Subscription
    <2> QED BY <2>2
  <1>7. ASSUME NEW e \in Listeners(x), NEW k \in Nat, k <= top, NEW i \in DOMAIN Events,
               NEW sc \in Nodes \cup {Top, None},
               Kind(Events[i].node) = "eventStart" => Home(Events[i].node) \in Nodes
        PROVE  Place(e, k, i, sc) \in SubIn(x, a)
    <2>1. k * n <= top * n /\ k * n \in Nat
      BY <1>1, <1>5, <1>7, Times
    <2>2. i \in Nat /\ i <= n
      BY <1>1
    <2> DEFINE kn == k * n
               tn == top * n
               v == l + kn + i
    <2> HIDE DEF kn, tn, top
    <2>3. v \in Nat /\ v <= a
      BY <1>1, <1>4, <1>5, <2>1, <2>2 DEF kn, tn
    <2>4. e \in DOMAIN x /\ e \in Nat
      BY <1>3, TreeDomain
    <2> DEFINE r == [node |-> Events[i].node, ex |-> e, scope |-> sc, at |-> v]
    <2>5. r \in Subscription
      BY <1>2, <2>3, <2>4 DEF Subscription
    <2>6. r \in SubIn(x, a)
      <3> HIDE DEF a, v
      <3> QED BY <1>7, <2>3, <2>4, <2>5 DEF SubIn
    <2> QED BY <2>6 DEF kn
  <1>8. ASSUME NEW e \in Listeners(x)
        PROVE  /\ e \in DOMAIN x /\ x[e].act \in Nodes
               /\ 2 * order[e] \in Nat /\ 2 * order[e] <= top
               /\ 2 * order[e] + 1 \in Nat /\ 2 * order[e] + 1 <= top
               /\ \A m \in StartsMissing(x, s, e) : Home(m) \in Nodes
               /\ \A m \in EventsMissing(x, s, e) : Kind(m) # "eventStart"
    <2>1. e \in DOMAIN x /\ x[e].act \in Nodes
      BY <1>8 DEF Listeners, Waiting
    <2>2. order[e] \in 1..c
      BY <1>3
    <2>3. /\ 2 * order[e] \in Nat /\ 2 * order[e] <= top
          /\ 2 * order[e] + 1 \in Nat /\ 2 * order[e] + 1 <= top
      BY <1>3, <2>2
    <2>4. \A m \in StartsMissing(x, s, e) : Home(m) \in Nodes
      BY EventStartHome DEF StartsMissing
    <2>5. \A m \in EventsMissing(x, s, e) : Kind(m) # "eventStart"
      BY DEF EventsMissing, Catches
    <2> QED BY <2>1, <2>3, <2>4, <2>5
  <1> DEFINE Places(e, sc, ns, k) == {Place(e, k, i, sc) : i \in {i \in DOMAIN Events : Events[i].node \in ns}}
             Starts(e) == Places(e, x[e].act, StartsMissing(x, s, e), 2 * order[e])
             Events1(e) == Places(e, None, EventsMissing(x, s, e), 2 * order[e] + 1)
  <1>9. RestoredSubs(x, old, order) = s \cup UNION {Starts(e) \cup Events1(e) : e \in Listeners(x)}
    BY DEF RestoredSubs, s, l, n
  <1> HIDE DEF Place, top, a
  <1>10. ASSUME NEW e \in Listeners(x) PROVE Starts(e) \subseteq SubIn(x, a)
    BY <1>7, <1>8
  <1>11. ASSUME NEW e \in Listeners(x) PROVE Events1(e) \subseteq SubIn(x, a)
    BY <1>7, <1>8
  <1> HIDE DEF Starts, Events1
  <1>12. RestoredSubs(x, old, order) \subseteq SubIn(x, a)
    BY <1>6, <1>9, <1>10, <1>11
  <1> QED BY <1>5, <1>12

\* A function without arguments is the empty sequence.
LEMMA EmptyFunction ==
  ASSUME NEW f, f = [e \in DOMAIN f |-> f[e]]
  PROVE  DOMAIN f = {} <=> f = <<>>
  <1>1. ASSUME DOMAIN f = {} PROVE f = <<>>
    <2>1. f \in [1..0 -> {}] /\ 0 \in Nat
      BY <1>1
    <2>2. f \in Seq({}) /\ Len(f) = 0
      BY <2>1, FunctionIsSeq
    <2> QED BY <2>2
  <1>2. DOMAIN <<>> = {}
    OBVIOUS
  <1> QED BY <1>1, <1>2

\* _restore_instance: the instance is well formed again, and is what is on disk.
LEMMA RestoreSound ==
  ASSUME EInv, RowsOf(disk, ex), Found(disk), NEW old, old \subseteq subs, Restore(old),
         cmd' = NoCmd, queue' = <<>>, collapsing' = FALSE, calls' = <<>>
  PROVE  EInv' /\ RowsOf(disk, ex') /\ Restores(disk, Image')
  <1> DEFINE x == RestoredExecutions
             over == disk.over \/ Root \notin DOMAIN disk.ex
  <1>1. /\ ex' = x /\ tasks' = disk.tasks /\ joins' = RestoredJoins(x) /\ completed' = disk.over
        /\ over => jobs' = RestoredJobs /\ subs' = old
        /\ ~over => \E order \in Orders(x) : /\ jobs' = RestoredTimers(x, order)
                                             /\ subs' = RestoredSubs(x, old, order)
    BY DEF Restore
  <1>2. /\ Tree(x) /\ DOMAIN x = DOMAIN ex
        /\ \A i \in DOMAIN ex : x[i].path = ex[i].path
        /\ \A i \in DOMAIN disk.ex : i \in DOMAIN x /\ x[i] = disk.ex[i]
    BY RestoredTree
  <1>3. [e \in Reached(x) |-> x[e]] = disk.ex
    BY RestoredReach
  <1>4. RowsOf(disk, x)
    BY <1>2, RowsKept
  <1> HIDE DEF x, over
  <1>5. /\ jobs' \subseteq JobIn(x)
        /\ RestoredJobs \subseteq jobs'
        /\ \A j \in jobs' \ RestoredJobs : j.kind = "timer-boundary"
    <2>1. RestoredJobs \subseteq JobIn(ex) /\ JobIn(ex) = JobIn(x)
      BY <1>2, RestoredJobsBack DEF JobIn
    <2>2. CASE over
      BY <1>1, <2>1, <2>2
    <2>3. CASE ~over
      <3>1. PICK order \in Orders(x) : jobs' = RestoredTimers(x, order)
        BY <1>1, <2>3
      <3> QED BY <1>2, <3>1, RestoredTimersIn
    <2> QED BY <2>2, <2>3
  <1>6. completed' \in BOOLEAN /\ (completed' => jobs' = {})
    <2>1. disk.over \in BOOLEAN /\ (disk.over => over /\ disk.jobs = {})
      BY DEF RowsOf, over
    <2>2. disk.jobs = {} => RestoredJobs = {}
      BY DEF RestoredJobs
    <2> QED BY <1>1, <2>1, <2>2
  <1>7. joins' \subseteq Arrival /\ IsFiniteSet(joins')
    <2> DEFINE Standing == {e \in DOMAIN x : /\ x[e].live
                                             /\ x[e].role # "SCOPE"
                                             /\ x[e].act \in Nodes
                                             /\ Kind(x[e].act) = "parallel"
                                             /\ Here(x, e, x[e].act)}
               at(e) == [node |-> x[e].act, ex |-> e, nth |-> 0]
    <2>1. Standing \subseteq DOMAIN x /\ \A e \in Standing : x[e].act \in Nodes
      OBVIOUS
    <2>2. joins' = {at(e) : e \in Standing}
      BY <1>1 DEF RestoredJoins
    <2> HIDE DEF Standing
    <2>3. DOMAIN x = 1..Len(x) /\ Len(x) \in Nat
      BY <1>2, TreeDomain
    <2>4. IsFiniteSet(Standing)
      <3>1. IsFiniteSet(1..Len(x))
        BY <2>3, FS_Interval
      <3> QED BY <2>1, <2>3, <3>1, FS_Subset
    <2>5. IsFiniteSet({at(e) : e \in Standing})
      <3> DEFINE f == [e \in Standing |-> at(e)]
                 S == {at(e) : e \in Standing}
      <3>1. f \in Surjection(Standing, S)
        BY DEF Surjection
      <3> HIDE DEF f, S
      <3>2. IsFiniteSet(S)
        BY <2>4, <3>1, FS_Surjection
      <3> QED BY <3>2 DEF S
    <2>6. \A e \in Standing : at(e) \in Arrival
      BY <2>1, <2>3 DEF Arrival
    <2> HIDE DEF at
    <2> QED BY <2>2, <2>5, <2>6
  <1>8. IInv'
    <2>1. tasks' \subseteq TaskIn(x)
      BY <1>1, <1>4 DEF RowsOf
    <2>2. queue' \in Seq(EventIn(x))
      OBVIOUS
    <2>3. cmd' \in Command
      BY DEF Command
    <2>4. collapsing' \in BOOLEAN
      OBVIOUS
    <2>5. ~(cmd' # NoCmd)
      OBVIOUS
    <2> QED BY <1>1, <1>2, <1>5, <1>6, <1>7, <2>1, <2>2, <2>3, <2>4, <2>5 DEF IInv
  <1>9. Registers
    <2>1. PICK b \in Nat : EventsIn(ex, b, subs, calls)
      BY DEF EInv
    <2>2. EventsIn(ex, b, old, calls)
      BY <2>1 DEF EventsIn
    <2>3. b <= b
      OBVIOUS
    <2>4. EventsIn(x, b, old, calls)
      BY <1>2, <2>2, <2>3, EventsMonotone
    <2>5. \E a \in Nat : subs' \subseteq SubIn(x, a)
      <3>1. CASE over
        BY <1>1, <2>4, <3>1 DEF EventsIn
      <3>2. CASE ~over
        <4>1. PICK order \in Orders(x) : subs' = RestoredSubs(x, old, order)
          BY <1>1, <3>2
        <4>2. Root \in DOMAIN x
          BY <1>2, <3>2 DEF over
        <4> QED BY <1>2, <2>4, <4>1, <4>2, RestoredSubsIn
      <3> QED BY <3>1, <3>2
    <2>6. \A a : calls' \in Seq(CallIn(x, a))
      OBVIOUS
    <2> QED BY <1>1, <2>5, <2>6 DEF Registers, EventsIn
  <1>10. EInv'
    BY <1>8, <1>9, EventsStep
  <1>11. Restores(disk, Image')
    <2> DEFINE J == {[k EXCEPT !.scope = None] : k \in jobs'}
    <2>1. Image'.ex = disk.ex /\ Image'.tasks = disk.tasks /\ Image'.over = disk.over /\ Image'.jobs = J
      BY <1>1, <1>3 DEF Image, Row
    <2>2. jobs' \subseteq Job
      BY <1>5 DEF JobIn
    <2> HIDE DEF J
    <2>3. disk.jobs \subseteq J /\ \A k \in J \ disk.jobs : k.kind = "timer-boundary"
      BY <1>5, <2>2, JobsReadBack DEF J
    <2> QED BY <2>1, <2>3 DEF Restores
  <1> QED BY <1>1, <1>4, <1>10, <1>11

\* An instance that is over and gone.
LEMMA AbsentSound ==
  ASSUME EInv, RowsOf(disk, ex), Absent, cmd' = NoCmd, queue' = <<>>, collapsing' = FALSE, calls' = <<>>
  PROVE  EInv' /\ RowsOf(disk, ex') /\ ~Found(Image')
  <1>1. /\ ex' = Ended(ex, DOMAIN ex) /\ tasks' = {} /\ joins' = {} /\ jobs' = {} /\ subs' = {}
        /\ completed' = TRUE
    BY DEF Absent
  <1>2. Grows(ex, ex')
    BY <1>1, EndedTree DEF EInv, IInv
  <1>3. IInv'
    <2>1. queue' \in Seq(EventIn(ex')) /\ cmd' \in Command /\ IsFiniteSet(joins')
      BY <1>1, FS_EmptySet DEF Command
    <2> QED BY <1>1, <1>2, <2>1 DEF IInv, Grows
  <1>4. Registers
    <2>1. 0 \in Nat /\ calls' \in Seq(CallIn(ex', 0)) /\ subs' \subseteq SubIn(ex', 0)
      BY <1>1
    <2> QED BY <2>1 DEF Registers, EventsIn
  <1>5. EInv'
    BY <1>3, <1>4, EventsStep
  <1>6. RowsOf(disk, ex')
    BY <1>2, RowsKept DEF Grows
  <1>7. \A i \in DOMAIN ex' : ~ex'[i].live
    <2>1. ex \in [DOMAIN ex -> ExecutionIn(ex)]
      BY TreeDomain DEF EInv, IInv
    <2>2. DOMAIN ex' = DOMAIN ex /\ \A i \in DOMAIN ex : ex'[i] = [ex[i] EXCEPT !.live = FALSE]
      BY <1>1 DEF Ended
    <2> QED BY <2>1, <2>2 DEF ExecutionIn
  <1>8. Reached(ex') = {}
    BY <1>7 DEF Reached, Below
  <1>9. Image'.ex = [e \in {} |-> ex'[e]] /\ Image'.tasks = {}
    BY <1>1, <1>8 DEF Image
  <1>10. [e \in {} |-> ex'[e]] = <<>>
    BY EmptyFunction
  <1> QED BY <1>5, <1>6, <1>9, <1>10 DEF Found

-----------------------------------------------------------------------------
(* Who works, and when nobody does.                                        *)

LEMMA WorkerIs ==
  /\ failing => Worker = "undo"
  /\ ~failing /\ cmd \in Job => Worker = "job"
  /\ ~failing /\ cmd = NoCmd => Worker = "no"
  /\ ~failing /\ cmd \notin Job /\ cmd # NoCmd => Worker = "user"
  BY Names DEF Worker

LEMMA WorkerNext ==
  /\ failing' => Worker' = "undo"
  /\ ~failing' /\ cmd' \in Job => Worker' = "job"
  /\ ~failing' /\ cmd' = NoCmd => Worker' = "no"
  /\ ~failing' /\ cmd' \notin Job /\ cmd' # NoCmd => Worker' = "user"
  BY Names DEF Worker

\* A command runs on, or is over.
Runs ==
  /\ cmd # NoCmd
  /\ cmd' = cmd \/ (cmd' = NoCmd /\ queue' = <<>> /\ collapsing' = FALSE)

\* Who is suspended is still suspended or has been answered.
SameCallers ==
  /\ calls' # <<>> => calls # <<>>
  /\ \A k \in DOMAIN calls' : k \in DOMAIN calls /\ calls'[k].tok = calls[k].tok
  /\ cmd' = NoCmd => calls' = <<>>

LEMMA StaysIdle ==
  ASSUME Idle, Runs, SameCallers, failing' => cmd' = NoCmd
  PROVE  Idle'
  BY DEF Idle, Runs, SameCallers

\* A step of a command that writes nothing: a job that ends by it is undone.
LEMMA RunsImplements ==
  ASSUME Idle, Runs, Failing, UNCHANGED disk
  PROVE  Abs!Next
  <1>1. ~failing /\ cmd # NoCmd
    BY DEF Idle, Runs
  <1>2. failing' <=> cmd \in Job /\ cmd' = NoCmd
    BY Names DEF Failing, failing
  <1>3. CASE cmd' = cmd
    <2>1. Worker' = Worker /\ Worker # "no"
      BY <1>1, <1>2, <1>3, WorkerIs, WorkerNext
    <2>2. Abs!DoStep
      BY <2>1 DEF Abs!DoStep
    <2> QED BY <2>2 DEF Abs!Next
  <1>4. CASE cmd' = NoCmd /\ cmd \in Job
    <2>1. Worker = "job" /\ Worker' = "undo"
      BY <1>1, <1>2, <1>4, WorkerIs, WorkerNext
    <2>2. Abs!Fail
      BY <2>1 DEF Abs!Fail
    <2> QED BY <2>2 DEF Abs!Next
  <1>5. CASE cmd' = NoCmd /\ cmd \notin Job
    <2>1. Worker = "user" /\ Worker' = "no"
      BY <1>1, <1>2, <1>5, WorkerIs, WorkerNext
    <2>2. Abs!GiveUp
      BY <2>1 DEF Abs!GiveUp
    <2> QED BY <2>2 DEF Abs!Next
  <1> QED BY <1>3, <1>4, <1>5 DEF Runs

LEMMA EndTokenRuns == ASSUME NEW x, NEW j, NEW q, NEW e, EndToken(x, j, q, e) PROVE cmd' = cmd
  BY DEF EndToken, Continue, CompleteInstance

LEMMA LeaveRuns ==
  ASSUME cmd # NoCmd, NEW x, NEW j, NEW q, NEW e, NEW n, Leave(x, j, q, e, n)
  PROVE  Runs
  BY EndTokenRuns DEF Leave, Continue, Raise, Runs

LEMMA ChooseRuns ==
  ASSUME cmd # NoCmd, NEW x, NEW q, NEW e, NEW n, Choose(x, q, e, n)
  PROVE  Runs
  BY DEF Choose, Continue, Raise, Runs

\* Every step of the token engine is one of a command.
LEMMA PumpRuns ==
  ASSUME \/ DropEvent \/ ScheduleAsyncBefore \/ PassStart \/ ReachEnd \/ UncaughtError
         \/ RunService \/ ChooseFlow \/ EnterUserTaskWait \/ EnterTimerCatch \/ EnterSubprocess
         \/ PassGateway \/ WaitAtJoin \/ DepartNode \/ ThrowError
  PROVE  Runs
  <1>1. cmd # NoCmd
    BY DEF DropEvent, ScheduleAsyncBefore, PassStart, ReachEnd, UncaughtError, RunService, ChooseFlow,
           EnterUserTaskWait, EnterTimerCatch, EnterSubprocess, PassGateway, WaitAtJoin,
           DepartNode, ThrowError, Behaves, Pumping
  <1>2. CASE DropEvent
    BY <1>1, <1>2 DEF DropEvent, Runs
  <1>3. CASE ScheduleAsyncBefore \/ EnterUserTaskWait \/ EnterTimerCatch \/ EnterSubprocess
    BY <1>1, <1>3 DEF ScheduleAsyncBefore, EnterUserTaskWait, EnterTimerCatch, EnterSubprocess,
                      Continue, Raise, Runs
  <1>4. CASE PassStart
    BY <1>1, <1>4, LeaveRuns DEF PassStart
  <1>5. CASE ReachEnd \/ UncaughtError
    BY <1>1, <1>5, EndTokenRuns DEF ReachEnd, UncaughtError, Runs
  <1>6. CASE RunService
    BY <1>1, <1>6, LeaveRuns DEF RunService, Continue, Raise, Runs
  <1>7. CASE ChooseFlow
    BY <1>1, <1>7, ChooseRuns DEF ChooseFlow, Continue, Runs
  <1>8. CASE PassGateway
    BY <1>1, <1>8, LeaveRuns DEF PassGateway
  <1>9. CASE WaitAtJoin
    BY <1>1, <1>9 DEF WaitAtJoin, Continue, Raise, Runs
  <1>10. CASE DepartNode
    BY <1>1, <1>10, LeaveRuns, ChooseRuns DEF DepartNode
  <1>11. CASE ThrowError
    BY <1>1, <1>11 DEF ThrowError, Continue, Runs
  <1> QED BY <1>2, <1>3, <1>4, <1>5, <1>6, <1>7, <1>8, <1>9, <1>10, <1>11

LEMMA CollapseRuns ==
  ASSUME Idle,
         \/ \E e \in DOMAIN ex : CollapseSubprocess(e) \/ CollapseFork(e)
         \/ FinishCollapse
  PROVE  Runs
  <1>1. cmd # NoCmd
    BY DEF Idle, CollapseSubprocess, CollapseFork, FinishCollapse
  <1>2. ASSUME NEW e, CollapseSubprocess(e) PROVE Runs
    BY <1>1, <1>2, LeaveRuns DEF CollapseSubprocess
  <1>3. ASSUME NEW e, CollapseFork(e) PROVE Runs
    BY <1>1, <1>3 DEF CollapseFork, CompleteInstance, Continue, Runs
  <1>4. CASE FinishCollapse
    BY <1>1, <1>4 DEF FinishCollapse, Runs
  <1> QED BY <1>2, <1>3, <1>4

LEMMA KeepsCallers ==
  ASSUME cmd # NoCmd, cmd' = cmd, calls' = calls
  PROVE  Runs /\ SameCallers
  BY DEF Runs, SameCallers

LEMMA Unwinds ==
  ASSUME Runs, Unwind
  PROVE  SameCallers
  BY DEF SameCallers, Unwind, Raised

\* Who called is in hand.
LEMMA Callers ==
  ASSUME DInv, calls # <<>>
  PROVE  /\ 1 \in DOMAIN calls /\ calls[1] \in Call /\ Current = calls[1] /\ Current.tok = 0
         /\ cmd = CompleteC /\ cmd # NoCmd /\ cmd \notin Job /\ ~failing
  <1>1. PICK b \in Nat : EventsIn(ex, b, subs, calls)
    BY DEF DInv, EInv
  <1>2. calls \in Seq(CallIn(ex, b)) /\ CallIn(ex, b) \subseteq Call
    BY <1>1 DEF EventsIn, CallIn
  <1>3. calls \in Seq(Call)
    BY <1>2
  <1>4. 1 \in DOMAIN calls /\ calls[1] \in Call /\ Current = calls[1]
    BY <1>3 DEF Current
  <1>5. cmd = CompleteC /\ calls[1].tok = 0 /\ (failing => cmd = NoCmd)
    BY <1>4 DEF DInv, Idle
  <1>6. CompleteC # NoCmd /\ CompleteC \notin Job
    BY Names
  <1> QED BY <1>4, <1>5, <1>6

\* A subscription is fired, or what it did is saved.
LEMMA FiresRuns ==
  ASSUME DInv, Answered, cmd' = cmd, NEW r, NEW n,
         \/ calls' = [calls EXCEPT ![1].hits = @ \ {r}, ![1].firing = n]
         \/ calls' = [calls EXCEPT ![1].firing = n]
  PROVE  Runs /\ SameCallers
  <1>1. cmd # NoCmd /\ calls # <<>>
    BY DEF Answered
  <1>2. 1 \in DOMAIN calls /\ calls[1] \in Call
    BY <1>1, Callers
  <1>3. DOMAIN calls' = DOMAIN calls /\ \A k \in DOMAIN calls : k # 1 => calls'[k] = calls[k]
    OBVIOUS
  <1>4. \/ calls'[1] = [calls[1] EXCEPT !.hits = @ \ {r}, !.firing = n]
        \/ calls'[1] = [calls[1] EXCEPT !.firing = n]
    BY <1>2
  <1>5. calls'[1].tok = calls[1].tok
    BY <1>2, <1>4 DEF Call
  <1> QED BY <1>1, <1>3, <1>5 DEF Runs, SameCallers

LEMMA QuietRuns ==
  ASSUME DInv, NoThrows, Quiet
  PROVE  Runs /\ SameCallers
  <1>1. CASE Engine
    <2>1. Runs
      BY <1>1, PumpRuns, CollapseRuns DEF DInv, Engine
    <2> QED BY <1>1, <2>1, Unwinds DEF Engine
  <1>2. CASE HostWaits
    <2>1. Runs
      BY <1>2, PumpRuns DEF HostWaits
    <2> QED BY <1>2, <2>1, Unwinds DEF HostWaits
  <1>3. CASE ScopeOpens
    <2>1. Runs
      BY <1>3, PumpRuns DEF ScopeOpens
    <2> QED BY <1>3, <2>1, Unwinds DEF ScopeOpens
  <1>4. CASE ScopeCloses
    <2>1. Runs
      BY <1>4, CollapseRuns DEF DInv, ScopeCloses
    <2> QED BY <1>4, <2>1, Unwinds DEF ScopeCloses
  <1>5. CASE ErrorTakesOver
    <2>1. Runs /\ cmd' = cmd
      BY <1>5, PumpRuns DEF ErrorTakesOver, ThrowError, Continue
    <2>2. calls' = calls
      BY <1>5 DEF ErrorTakesOver
    <2> QED BY <2>1, <2>2, KeepsCallers DEF Runs
  <1>6. CASE EnterEventCatch
    <2>1. cmd # NoCmd /\ cmd' = cmd /\ calls' = calls
      BY <1>6 DEF EnterEventCatch, Behaves, Pumping, Continue
    <2> QED BY <2>1, KeepsCallers
  <1>7. ~ThrowEvent
    <2> SUFFICES ASSUME ThrowEvent PROVE FALSE
      OBVIOUS
    <2>1. Pumping /\ Kind(At) \in ThrowKinds
      BY DEF ThrowEvent, Behaves
    <2>2. At \in Nodes
      BY <2>1, HeadEvent DEF DInv, EInv
    <2> QED BY <2>1, <2>2 DEF NoThrows
  <1> QED BY <1>1, <1>2, <1>3, <1>4, <1>5, <1>6, <1>7 DEF Quiet

Settles ==
  \/ DropStaleSub \/ HearCatch \/ HearInterruptingBoundary \/ HearNonInterruptingBoundary
  \/ HearInterruptingStart \/ HearNonInterruptingStart \/ ResumeThrower \/ AnswerCaller

LEMMA SettleRuns ==
  ASSUME DInv, Settles
  PROVE  Runs /\ SameCallers
  <1>1. CASE DropStaleSub
    <2>1. Answered /\ cmd' = cmd /\ calls' = [calls EXCEPT ![1].hits = @ \ {Hit}, ![1].firing = None]
      BY <1>1 DEF DropStaleSub
    <2> QED BY <2>1, FiresRuns
  <1>2. ASSUME NEW kind, Hears(kind), cmd' = cmd PROVE Runs /\ SameCallers
    <2>1. Answered /\ calls' = [calls EXCEPT ![1].hits = @ \ {Hit}, ![1].firing = Hit.node]
      BY <1>2 DEF Hears
    <2> QED BY <1>2, <2>1, FiresRuns
  <1>3. CASE HearCatch
    BY <1>2, <1>3 DEF HearCatch
  <1>4. CASE HearInterruptingBoundary
    BY <1>2, <1>4 DEF HearInterruptingBoundary
  <1>5. CASE HearNonInterruptingBoundary
    BY <1>2, <1>5 DEF HearNonInterruptingBoundary
  <1>6. CASE HearInterruptingStart
    BY <1>2, <1>6 DEF HearInterruptingStart
  <1>7. CASE HearNonInterruptingStart
    BY <1>2, <1>7 DEF HearNonInterruptingStart
  <1>8. ~ResumeThrower
    BY Callers DEF ResumeThrower, Answered
  <1>9. CASE AnswerCaller
    <2>1. cmd # NoCmd /\ cmd' = NoCmd /\ queue' = <<>> /\ calls' = <<>> /\ collapsing' = collapsing /\ ~collapsing
      BY <1>9 DEF AnswerCaller, Answered
    <2>2. collapsing = FALSE
      BY <2>1 DEF DInv, EInv, IInv
    <2> QED BY <2>1, <2>2 DEF Runs, SameCallers
  <1> QED BY <1>1, <1>3, <1>4, <1>5, <1>6, <1>7, <1>8, <1>9 DEF Settles

-----------------------------------------------------------------------------
(* The steps, one kind after the other: they keep DInv, and are steps of   *)
(* Transactions.                                                           *)

\* A step that leaves the disk alone and lets the instance grow.
LEMMA DiskStays ==
  ASSUME RowsOf(disk, ex), Sound, disk' = disk
  PROVE  RowsOf(disk', ex')
  BY RowsKept DEF Sound, Grows

\* What is written at the end of a step.
LEMMA Commits ==
  ASSUME Worker # "undo", disk' = Image', Worker' = "no" \/ (Worker = "user" /\ Worker' = "user")
  PROVE  Abs!Next
  <1>1. Abs!Commit
    BY DEF Abs!Commit
  <1> QED BY <1>1 DEF Abs!Next

LEMMA WorkStep ==
  ASSUME NoThrows, DInv, Quiet \/ Settles, Failing, disk' = disk
  PROVE  DInv' /\ Abs!Next
  <1>1. Runs /\ SameCallers
    BY QuietRuns, SettleRuns
  <1>2. ENext
    BY DEF Quiet, Settles, ENext, Work, Fire
  <1>3. Sound /\ EInv'
    BY <1>2, ENextSound DEF DInv
  <1>4. Idle'
    BY <1>1, StaysIdle, Names DEF DInv, Failing, failing
  <1>5. RowsOf(disk', ex')
    BY <1>3, DiskStays DEF DInv
  <1>6. Abs!Next
    BY <1>1, RunsImplements DEF DInv
  <1> QED BY <1>3, <1>4, <1>5, <1>6 DEF DInv

LEMMA SaveHitStep ==
  ASSUME DInv, SaveHit
  PROVE  DInv' /\ Abs!Next
  <1>1. /\ UNCHANGED vars /\ subs' = subs /\ failing' = failing /\ disk' = Image
        /\ calls' = [calls EXCEPT ![1].firing = None]
        /\ Answered /\ calls # <<>>
    BY DEF SaveHit, HitIsSaved, Answered, failing
  <1>2. UNCHANGED <<ex, tasks, jobs, joins, queue, collapsing, cmd, completed>>
    BY <1>1 DEF vars
  <1>3. Sound /\ IInv'
    BY <1>1, StandsStill DEF DInv, EInv
  <1>4. Registers
    <2>1. PICK b \in Nat : EventsIn(ex, b, subs, calls)
      BY DEF DInv, EInv
    <2> DEFINE S == CallIn(ex, b)
               c == [calls[1] EXCEPT !.firing = None]
    <2>2. calls \in Seq(S) /\ 1 \in DOMAIN calls /\ calls[1] \in S /\ calls[1] \in Call
      <3>1. calls \in Seq(S)
        BY <2>1 DEF EventsIn
      <3>2. 1 \in DOMAIN calls /\ calls[1] \in Call
        BY <1>1, Callers
      <3> HIDE DEF S
      <3> QED BY <3>1, <3>2
    <2>3. c \in S
      <3>1. c \in Call
        BY <2>2 DEF Call
      <3>2. c.rest = calls[1].rest /\ c.tok = calls[1].tok /\ c.node = calls[1].node /\ c.hits = calls[1].hits
        BY <2>2 DEF Call
      <3> HIDE DEF c
      <3> QED BY <2>2, <3>1, <3>2 DEF CallIn
    <2>4. calls' = [calls EXCEPT ![1] = c]
      BY <1>1
    <2> HIDE DEF S, c
    <2>5. calls' \in Seq(S)
      BY <2>2, <2>3, <2>4, ExceptSeq
    <2>6. EventsIn(ex', b, subs', calls')
      BY <1>1, <1>2, <2>1, <2>5 DEF EventsIn, S
    <2> QED BY <2>6 DEF Registers
  <1>5. EInv'
    BY <1>3, <1>4, EventsStep
  <1>6. Runs /\ SameCallers
    BY <1>1, <1>2, FiresRuns
  <1>7. cmd \notin Job /\ cmd # NoCmd /\ ~failing
    BY <1>1, Callers
  <1>8. Idle'
    BY <1>1, <1>6, <1>7, StaysIdle DEF DInv
  <1>9. Image' = Image
    BY <1>2 DEF Image, Reached, Below
  <1>10. RowsOf(disk', ex')
    BY <1>1, <1>2, ImageRows DEF DInv
  <1>11. Worker = "user" /\ Worker' = "user"
    BY <1>1, <1>2, <1>7, WorkerIs, WorkerNext
  <1>12. Abs!Next
    BY <1>1, <1>9, <1>11, Commits
  <1> QED BY <1>5, <1>8, <1>10, <1>12 DEF DInv

LEMMA SaveStep ==
  ASSUME DInv, Save
  PROVE  DInv' /\ Abs!Next
  <1>1. ~failing /\ disk' = Image' /\ failing' = failing /\ (ReturnCommand \/ \E j \in jobs : DropStale(j))
    BY DEF Save, Saved, Written, failing
  <1>2. ENext
    BY <1>1 DEF ENext, Work
  <1>3. Sound /\ EInv'
    BY <1>2, ENextSound DEF DInv
  <1>4. RowsOf(disk', ex')
    BY <1>1, <1>3, ImageRowsNext
  <1>5. cmd' = NoCmd /\ queue' = <<>> /\ collapsing' = FALSE /\ calls' = <<>>
    <2>1. CASE ReturnCommand
      <3>1. cmd' = NoCmd /\ queue' = <<>> /\ collapsing' = collapsing /\ ~collapsing /\ calls' = <<>>
        BY <2>1 DEF ReturnCommand, Return
      <3>2. collapsing \in BOOLEAN
        BY DEF DInv, EInv, IInv
      <3> QED BY <3>1, <3>2
    <2>2. CASE \E j \in jobs : DropStale(j)
      <3>1. cmd = NoCmd /\ UNCHANGED <<cmd, queue, collapsing, calls>>
        BY <2>2 DEF DropStale, DropStaleJob, AtRest
      <3> QED BY <3>1 DEF DInv, Idle
    <2> QED BY <1>1, <2>1, <2>2
  <1>6. Idle'
    BY <1>5 DEF Idle
  <1>7. Worker # "undo" /\ Worker' = "no"
    <2>1. cmd \in Job \/ cmd = NoCmd \/ (cmd \notin Job /\ cmd # NoCmd)
      OBVIOUS
    <2> QED BY <1>1, <1>5, <2>1, WorkerIs, WorkerNext
  <1>8. Abs!Next
    BY <1>1, <1>7, Commits
  <1> QED BY <1>3, <1>4, <1>6, <1>8 DEF DInv

\* What a command is that begins: a message or a signal comes with a call of its own.
LEMMA BeginsFacts ==
  ASSUME DInv, Begins
  PROVE  /\ cmd = NoCmd /\ collapsing' = collapsing
         /\ cmd' = NoCmd => queue' = queue
         /\ calls' = calls \/ (cmd' = CompleteC /\ \A k \in DOMAIN calls' : calls'[k].tok = 0)
  <1>1. ASSUME NEW j \in jobs PROVE j # NoCmd
    BY <1>1, Names DEF DInv, EInv, IInv, JobIn
  <1>2. CASE Command0
    <2>1. CASE StartProcess
      BY <1>2, <2>1, Names DEF Command0, StartProcess, AtRest
    <2>2. ASSUME NEW j \in jobs,
                 \/ FireTimerCatch(j) \/ RunAsyncContinuation(j) \/ RunAsyncAfter(j)
                 \/ FireNonInterruptingBoundary(j)
          PROVE  cmd = NoCmd /\ collapsing' = collapsing /\ cmd' = j
      BY <2>2 DEF FireTimerCatch, RunAsyncContinuation, RunAsyncAfter, FireNonInterruptingBoundary,
                  Due, AtRest
    <2>3. calls' = calls
      BY <1>2 DEF Command0
    <2>4. CASE \E j \in jobs : \/ FireTimerCatch(j) \/ RunAsyncContinuation(j) \/ RunAsyncAfter(j)
                               \/ FireNonInterruptingBoundary(j)
      BY <1>1, <2>2, <2>3, <2>4
    <2> QED BY <1>2, <2>1, <2>4 DEF Command0
  <1>3. ASSUME NEW t \in tasks, Complete(t)
        PROVE  /\ cmd = NoCmd /\ collapsing' = collapsing /\ calls' = calls
               /\ cmd' = NoCmd => queue' = queue
    BY <1>3, Names DEF Complete, CompleteTask, AtRest
  <1>4. ASSUME NEW j \in jobs, TimerCancelsHost(j) \/ TimerTakesOver(j) \/ TimerStartsBeside(j)
        PROVE  cmd = NoCmd /\ collapsing' = collapsing /\ calls' = calls /\ cmd' # NoCmd
    <2>1. cmd = NoCmd /\ collapsing' = collapsing /\ cmd' = j
      BY <1>4 DEF TimerCancelsHost, TimerTakesOver, TimerStartsBeside, FireInterruptingBoundary,
                  FireInterruptingEventStart, FireNonInterruptingEventStart, Due, AtRest
    <2>2. calls' = calls
      BY <1>4 DEF TimerCancelsHost, TimerTakesOver, TimerStartsBeside
    <2> QED BY <1>1, <2>1, <2>2
  <1>5. ASSUME NEW n, Calls(n) PROVE \A k \in DOMAIN calls' : calls'[k].tok = 0
    BY <1>5 DEF Calls
  <1>6. ASSUME NEW n, CorrelateMessage(n) \/ ThrowSignal(n)
        PROVE  /\ cmd = NoCmd /\ collapsing' = collapsing
               /\ cmd' = NoCmd => queue' = queue
               /\ calls' = calls \/ (cmd' = CompleteC /\ Calls(n))
    BY <1>6 DEF CorrelateMessage, ThrowSignal, AtRest, vars
  <1> QED BY <1>2, <1>3, <1>4, <1>5, <1>6 DEF Begins

LEMMA BeginsStep ==
  ASSUME DInv, Begins
  PROVE  DInv' /\ Abs!Next
  <1>1. ~failing /\ failing' = failing /\ disk' = disk
    BY DEF Begins, Unsaved, failing
  <1>2. ENext
    BY DEF Begins, ENext
  <1>3. Sound /\ EInv'
    BY <1>2, ENextSound DEF DInv
  <1>4. RowsOf(disk', ex')
    BY <1>1, <1>3, DiskStays DEF DInv
  <1>5. /\ cmd = NoCmd /\ collapsing' = collapsing
        /\ cmd' = NoCmd => queue' = queue
        /\ calls' = calls \/ (cmd' = CompleteC /\ \A k \in DOMAIN calls' : calls'[k].tok = 0)
    BY BeginsFacts
  <1>6. Idle'
    BY <1>1, <1>5, Names DEF DInv, Idle
  <1>7. Worker = "no"
    BY <1>1, <1>5, WorkerIs
  <1>8. CASE cmd' = NoCmd
    <2>1. Worker' = "no"
      BY <1>1, <1>8, WorkerNext
    <2>2. Abs!GiveUp
      BY <1>1, <1>7, <2>1 DEF Abs!GiveUp
    <2> QED BY <1>3, <1>4, <1>6, <2>2 DEF DInv, Abs!Next
  <1>9. CASE cmd' # NoCmd
    <2>1. Worker' \in {"user", "job"}
      BY <1>1, <1>9, WorkerNext
    <2>2. Abs!Begin
      BY <1>1, <1>7, <2>1 DEF Abs!Begin
    <2> QED BY <1>3, <1>4, <1>6, <2>2 DEF DInv, Abs!Next
  <1> QED BY <1>8, <1>9

\* A job that failed is undone.
LEMMA RollbackStep ==
  ASSUME DInv, Rollback
  PROVE  DInv' /\ Abs!Next
  <1>1. failing /\ failing' = FALSE /\ disk' = Image' /\ UNCHANGED <<queue, collapsing, cmd, calls>>
    BY DEF Rollback, Written, failing
  <1>2. cmd' = NoCmd /\ queue' = <<>> /\ collapsing' = FALSE /\ calls' = <<>>
    BY <1>1 DEF DInv, Idle
  <1>3. EInv' /\ (Found(disk) => Restores(disk, Image'))
    <2>1. CASE Found(disk)
      <3>1. Restore(subs) /\ subs \subseteq subs
        BY <2>1 DEF Rollback
      <3> QED BY <1>2, <2>1, <3>1, RestoreSound DEF DInv
    <2>2. CASE ~Found(disk)
      <3>1. UNCHANGED evars
        BY <1>1, <2>2 DEF Rollback, evars, vars
      <3> QED BY <2>2, <3>1, EventsStutter DEF DInv
    <2> QED BY <2>1, <2>2
  <1>4. RowsOf(disk', ex')
    BY <1>1, <1>3, ImageRowsNext
  <1>5. Idle'
    BY <1>1, <1>2 DEF Idle
  <1>6. Worker = "undo" /\ Worker' = "no"
    BY <1>1, <1>2, WorkerIs, WorkerNext
  <1>7. Abs!Undo
    BY <1>1, <1>3, <1>6 DEF Abs!Undo
  <1> QED BY <1>3, <1>4, <1>5, <1>7 DEF DInv, Abs!Next

\* An instance is saved as it is, or deleted.
LEMMA AtRestStep ==
  ASSUME DInv, Touch \/ DeleteInstance
  PROVE  DInv' /\ Abs!Next
  <1>1. cmd = NoCmd /\ ~failing /\ UNCHANGED <<queue, collapsing, cmd, calls, failing>>
    BY DEF Touch, DeleteInstance, AtRest, evars, vars, failing
  <1>2. cmd' = NoCmd /\ queue' = <<>> /\ collapsing' = FALSE /\ calls' = <<>>
    BY <1>1 DEF DInv, Idle
  <1>3. Idle'
    BY <1>1, <1>2 DEF Idle
  <1>4. EInv' /\ disk' = Image'
    <2>1. CASE Touch
      <3>1. UNCHANGED evars /\ disk' = Image
        BY <2>1 DEF Touch
      <3>2. EInv'
        BY <3>1, EventsStutter DEF DInv
      <3>3. Image' = Image
        BY <3>1 DEF Image, Reached, Below, evars, vars
      <3> QED BY <3>1, <3>2, <3>3
    <2>2. CASE DeleteInstance
      <3>1. Absent /\ disk' = Image'
        BY <2>2 DEF DeleteInstance, Saved, Written
      <3> QED BY <1>2, <3>1, AbsentSound DEF DInv
    <2> QED BY <2>1, <2>2
  <1>5. RowsOf(disk', ex')
    BY <1>4, ImageRowsNext
  <1>6. Worker = "no" /\ Worker' = "no"
    BY <1>1, <1>2, WorkerIs, WorkerNext
  <1>7. Abs!Next
    BY <1>4, <1>6, Commits
  <1> QED BY <1>3, <1>4, <1>5, <1>7 DEF DInv

\* The engine is started again.
LEMMA CrashStep ==
  ASSUME DInv, Crash
  PROVE  DInv' /\ Abs!Next
  <1>1. /\ cmd' = NoCmd /\ queue' = <<>> /\ collapsing' = FALSE /\ calls' = <<>>
        /\ failing' = FALSE /\ disk' = disk
    BY DEF Crash, failing
  <1>2. /\ EInv' /\ RowsOf(disk, ex')
        /\ IF Found(disk) THEN Restores(disk, Image') ELSE ~Found(Image')
    <2>1. CASE Found(disk)
      <3>1. Restore({}) /\ {} \subseteq subs
        BY <2>1 DEF Crash
      <3> QED BY <1>1, <2>1, <3>1, RestoreSound DEF DInv
    <2>2. CASE ~Found(disk)
      <3>1. Absent
        BY <2>2 DEF Crash
      <3> QED BY <1>1, <2>2, <3>1, AbsentSound DEF DInv
    <2> QED BY <2>1, <2>2
  <1>3. Idle'
    BY <1>1 DEF Idle
  <1>4. Worker' = "no"
    BY <1>1, WorkerNext
  <1>5. Abs!Restart
    BY <1>1, <1>2, <1>4 DEF Abs!Restart
  <1> QED BY <1>1, <1>2, <1>3, <1>5 DEF DInv, Abs!Next

\* The engine starts with nothing on disk.
LEMMA InitStep ==
  ASSUME DInit
  PROVE  DInv /\ Abs!Init
  <1>1. EInv
    BY EventsInit DEF DInit
  <1>2. /\ disk = Image /\ failing = FALSE /\ cmd = NoCmd /\ queue = <<>> /\ collapsing = FALSE
        /\ calls = <<>> /\ ex = <<>> /\ tasks = {}
    BY DEF DInit, EInit, Init, failing
  <1>3. RowsOf(disk, ex)
    BY <1>1, <1>2, ImageRows
  <1>4. Idle
    BY <1>2 DEF Idle
  <1>5. Reached(ex) = {}
    BY <1>2 DEF Reached, Below
  <1>6. disk.ex = [e \in {} |-> ex[e]] /\ disk.tasks = {}
    BY <1>2, <1>5 DEF Image
  <1>7. [e \in {} |-> ex[e]] = <<>>
    BY EmptyFunction
  <1>8. ~Found(disk)
    BY <1>6, <1>7 DEF Found
  <1>9. Worker = "no"
    BY <1>2, WorkerIs
  <1> QED BY <1>1, <1>2, <1>3, <1>4, <1>8, <1>9 DEF DInv, Abs!Init

LEMMA StepImplements ==
  ASSUME NoThrows, DInv, [DNext]_dvars
  PROVE  DInv' /\ [Abs!Next]_<<disk, Image, Worker>>
  <1>1. CASE Inside
    BY <1>1, WorkStep DEF Inside, Unsaved
  <1>2. CASE Settle
    <2>1. Settles /\ Failing /\ disk' = disk
      BY <1>2 DEF Settle, Settles, Unsaved
    <2> QED BY <2>1, WorkStep
  <1>3. CASE SaveHit \/ Save \/ Begins \/ Rollback
    BY <1>3, SaveHitStep, SaveStep, BeginsStep, RollbackStep
  <1>4. CASE Touch \/ DeleteInstance \/ Crash
    BY <1>4, AtRestStep, CrashStep
  <1>5. CASE UNCHANGED dvars
    <2>1. UNCHANGED evars /\ disk' = disk /\ failing' = failing
      BY <1>5 DEF dvars, failing
    <2>2. UNCHANGED <<ex, tasks, jobs, queue, collapsing, cmd, completed, calls>>
      BY <2>1 DEF evars, vars
    <2>3. EInv'
      BY <2>1, EventsStutter DEF DInv
    <2>4. RowsOf(disk', ex') /\ Idle'
      BY <2>1, <2>2 DEF DInv, Idle
    <2>5. Image' = Image /\ Worker' = Worker
      BY <2>1, <2>2 DEF Image, Reached, Below, Worker
    <2> QED BY <2>1, <2>3, <2>4, <2>5 DEF DInv
  <1> QED BY <1>1, <1>2, <1>3, <1>4, <1>5 DEF DNext

-----------------------------------------------------------------------------
(* The theorems.                                                           *)

\* What is on disk is always a tree of live executions with their tasks and jobs,
\* which stand where the memory has them.
THEOREM DurableInvariant == NoThrows => (DSpec => []DInv)
  <1> SUFFICES ASSUME NoThrows PROVE DSpec => []DInv
    OBVIOUS
  <1>1. DInit => DInv
    BY InitStep
  <1>2. DInv /\ [DNext]_dvars => DInv'
    BY StepImplements
  <1> QED BY <1>1, <1>2, PTL DEF DSpec

\* In particular the memory stays well typed, whatever fails and however often the
\* engine is started again.
THEOREM DurableTypeCorrect == NoThrows => (DSpec => []EventTypeOK)
  <1>1. DInv => EventTypeOK
    BY EventsTyped DEF DInv
  <1> QED BY <1>1, DurableInvariant, PTL

\* The store keeps its promise: the disk holds what some command left at its end,
\* a job is all or nothing, and a restart goes on with what is on disk.
THEOREM DurableImplements == NoThrows => (DSpec => CommandsAreTransactions)
  <1> SUFFICES ASSUME NoThrows PROVE DSpec => CommandsAreTransactions
    OBVIOUS
  <1>1. DInit => DInv /\ Abs!Init
    BY InitStep
  <1>2. DInv /\ [DNext]_dvars => DInv' /\ [Abs!Next]_<<disk, Image, Worker>>
    BY StepImplements
  <1>3. DSpec => Abs!Spec
    BY <1>1, <1>2, PTL DEF DSpec, Abs!Spec, Abs!tvars
  <1> QED BY <1>3 DEF CommandsAreTransactions

=============================================================================
