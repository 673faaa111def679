----------------------------- MODULE TokenEngine -----------------------------
(***************************************************************************)
(* The token engine of one process instance: how ProcessEngine moves the   *)
(* executions of an instance through a deployed process (start, fork and   *)
(* join, user tasks, service tasks, embedded and event subprocesses, timer *)
(* boundaries, error ends, async continuations), in an engine without a    *)
(* store.                                                                  *)
(*                                                                         *)
(* A public command (start, complete_task, one job) holds the engine lock  *)
(* from its first step to Return: "cmd" is the command that holds it.  In  *)
(* between, _pump takes one event of "queue" per step and _collapse_scopes *)
(* ends or revives one scope per step.  Within a command the steps follow  *)
(* the code's order, so cutting it into steps adds no outcome; it makes    *)
(* the intermediate states visible.                                        *)
(***************************************************************************)
EXTENDS Naturals, Sequences, FiniteSets

CONSTANT Proc  \* the deployed process definition, see ProcAssumption

None == "none"
Top  == "top"   \* the root Process; an inner Process is named by its subProcess

Nodes == DOMAIN Proc.kind

SubKinds   == {"sub", "esub"}
StartKinds == {"start", "timerStart", "errorStart", "eventStart"}
EventKinds == {"eventCatch", "eventBoundary", "throw", "throwEnd"}  \* see EventEngine
NodeKinds  == SubKinds \cup StartKinds \cup EventKinds \cup
              {"end", "user", "service", "xor", "parallel", "catch", "boundary"}

(***************************************************************************)
(* A process definition: every node's kind, its outgoing targets in order, *)
(* the container it is declared in, the plain start of each container, the *)
(* activity a boundary event is attached to, the nodes that interrupt      *)
(* (cancelActivity, isInterrupting), the asyncBefore and asyncAfter nodes, *)
(* the error code an end throws or an error start catches, and the nodes   *)
(* whose behaviour may raise.                                              *)
(***************************************************************************)
ProcAssumption ==
  /\ IsFiniteSet(Nodes)
  /\ Proc.kind \in [Nodes -> NodeKinds]
  /\ Proc.out \in [Nodes -> Seq(Nodes)]
  /\ Proc.home \in [Nodes -> Nodes \cup {Top}]
  /\ Proc.start \in [Nodes \cup {Top} -> Nodes \cup {None}]
  /\ Proc.host \in [Nodes -> Nodes \cup {None}]
  /\ Proc.code \in [Nodes -> STRING]
  /\ \A f \in {Proc.cancel, Proc.before, Proc.after, Proc.fail} : f \subseteq Nodes
  /\ {None, Top} \cap Nodes = {}
  /\ Proc.start[Top] \in Nodes
  /\ \A n \in Nodes :
       /\ Proc.kind[n] = "sub" => Proc.start[n] \in Nodes
       /\ Proc.kind[n] \in {"boundary", "eventBoundary"} => Proc.host[n] \in Nodes
       /\ n \in Proc.after => Proc.kind[n] \in {"service", "xor"}
       /\ \A i \in DOMAIN Proc.out[n] :
            /\ Proc.home[Proc.out[n][i]] = Proc.home[n]
            /\ Proc.kind[Proc.out[n][i]] \notin {"esub", "boundary", "eventBoundary"}

ASSUME ProcAssumption

Kind(n) == Proc.kind[n]
Out(n)  == Proc.out[n]
Home(n) == Proc.home[n]

\* The boundary events attached to n, and those of them that are timers.
Attached(n) == {b \in Nodes : Kind(b) \in {"boundary", "eventBoundary"} /\ Proc.host[b] = n}
Boundaries(n) == {b \in Attached(n) : Kind(b) = "boundary"}

\* The sequence flows that lead into n, each as its source and its position there.
Incoming(n) == {f \in UNION {{m} \X DOMAIN Out(m) : m \in Nodes} : Out(f[1])[f[2]] = n}

\* The starts of that kind of the event subprocesses declared in container c.
EventStarts(c, kind) ==
  {s \in Nodes : Kind(s) = kind /\ Home(s) # Top /\ Kind(Home(s)) = "esub" /\ Home(Home(s)) = c}

VARIABLES
  ex,          \* the executions of the instance, by id in creation order
  tasks,       \* the active user tasks
  jobs,        \* the pending jobs of the instance
  joins,       \* join_arrivals: which execution waits at which gateway
  queue,       \* the events _pump still has to process
  collapsing,  \* _collapse_scopes is running
  cmd,         \* the command that holds the engine lock
  completed    \* ProcessInstance.is_completed

vars == <<ex, tasks, jobs, joins, queue, collapsing, cmd, completed>>

-----------------------------------------------------------------------------
(* Types. Root is the first execution created; "path" is the chain of parent *)
(* ids, nearest first.                                                       *)

Root == 1

\* A "LOOP" is a SCOPE that only holds the instances of an activity, see MultiEngine.
Roles == {"TOKEN", "SCOPE", "LOOP"}

Execution == [path: Seq(Nat \ {0}), role: Roles, live: BOOLEAN,
              act: Nodes \cup {None}, open: Nodes \cup {None}]

JobKinds == {"timer-catch", "timer-boundary", "timer-event-start",
             "async-continuation", "async-after"}

Task  == [ex: Nat, node: Nodes]
Job   == [kind: JobKinds, ex: Nat, node: Nodes, scope: Nodes \cup {Top, None}, nth: {0, 1}]
Arrival == [node: Nodes, ex: Nat, nth: Nat]  \* the nth of ex at that gateway
Event == [ex: Nat, node: Nodes, mode: {"enter", "resume", "leave"}]

NoCmd   == [kind |-> "none"]
StartC  == [kind |-> "start"]
CompleteC == [kind |-> "complete"]
Command == {NoCmd, StartC, CompleteC} \cup Job

TypeOK ==
  /\ ex \in Seq(Execution)
  /\ tasks \subseteq Task
  /\ jobs \subseteq Job
  /\ joins \subseteq Arrival
  /\ queue \in Seq(Event)
  /\ collapsing \in BOOLEAN
  /\ cmd \in Command
  /\ completed \in BOOLEAN

-----------------------------------------------------------------------------
(* The execution tree.                                                     *)

\* Faulty variant of NewExecution: role and activity swapped.
NewExecutionSwapped(path, role, act) ==
  [path |-> path, role |-> act, live |-> TRUE, act |-> role, open |-> None]

NewExecution(path, role, act) ==
  [path |-> path, role |-> role, live |-> TRUE, act |-> act, open |-> None]

\* The children list of e: an ended execution is detached from its parent.
Children(x, e) == {c \in DOMAIN x : x[c].live /\ x[c].path # <<>> /\ Head(x[c].path) = e}

\* The container of each execution: the inner process of the nearest ancestor
\* that is a SCOPE parked on a subProcess of its own container.
Container(x) ==
  LET c[i \in DOMAIN x] ==
        IF x[i].path = <<>> THEN Top
        ELSE LET p == Head(x[i].path) IN
             IF /\ x[p].role = "SCOPE"
                /\ x[p].act \in Nodes
                /\ Kind(x[p].act) \in SubKinds
                /\ Home(x[p].act) = c[p]
             THEN x[p].act
             ELSE c[p]
  IN  c

\* proc.flow_nodes and proc.sequence_flows of e's container know node n.
Here(x, e, n) == Home(n) = Container(x)[e]

\* The live subtree below e, without e.
Below(x, e) ==
  {d \in DOMAIN x :
     /\ x[d].live
     /\ \E k \in DOMAIN x[d].path :
          /\ x[d].path[k] = e
          /\ \A m \in 1..(k - 1) : x[x[d].path[m]].live}

\* The executions of D end and are detached; a killed one also closes its activity.
Ended(x, D) ==
  [i \in DOMAIN x |-> IF i \in D THEN [x[i] EXCEPT !.live = FALSE] ELSE x[i]]

Killed(x, D) ==
  [i \in DOMAIN x |-> IF i \in D THEN [x[i] EXCEPT !.live = FALSE, !.open = None] ELSE x[i]]

\* Faulty variant of Without: what the dead waited for stays.
KeptAll(s, D) == s

Without(s, D) == {w \in s : w.ex \notin D}

\* Who carries on after a join that e completed: its nearest SCOPE ancestor,
\* itself if it has none.
JoinActors(x, e) ==
  LET p == x[e].path
      Scopes == {k \in DOMAIN p : x[p[k]].role # "TOKEN"}
  IN  IF Scopes = {} THEN {e} ELSE {p[k] : k \in {k \in Scopes : \A m \in Scopes : k <= m}}

-----------------------------------------------------------------------------
(* Jobs.                                                                   *)

NewJob(kind, e, n, scope) == [kind |-> kind, ex |-> e, node |-> n, scope |-> scope, nth |-> 0]

\* Faulty variant of NewWait: a job that comes round again is the one that runs.
SameWait(kind, e, n) == NewJob(kind, e, n, None)

\* The job that token e waits for at node n: not the one that brought it back there.
NewWait(kind, e, n) ==
  LET j == NewJob(kind, e, n, None) IN IF cmd = j THEN [j EXCEPT !.nth = 1] ELSE j

\* A boundary timer is registered unless the instance already has one for it.
WithBoundaries(j, e, h) ==
  j \cup {NewJob("timer-boundary", e, b, None) :
            b \in {b \in Boundaries(h) :
                     \A k \in j : k.kind = "timer-boundary" => k.node # b}}

\* A subProcess takes no boundary that does not interrupt: the first of them stops the
\* registration by an exception, after some of the interrupting timers.
Refuses(h) == Kind(h) = "sub" /\ ~(Attached(h) \subseteq Proc.cancel)

UntilRefused(j, e, h) ==
  {j \cup b : b \in SUBSET {k \in WithBoundaries(j, e, h) \ j : k.node \in Proc.cancel}}

\* Faulty variant of DropBoundaries: the timers outlive the wait.
KeepBoundaries(j, h) == j

DropBoundaries(j, h) ==
  {k \in j : ~(k.kind = "timer-boundary" /\ k.node \in Boundaries(h))}

\* Faulty variant of DropContinuation: a cancelled activity is still resumed.
KeepContinuation(j, e, h) == j

DropContinuation(j, e, h) ==
  {k \in j : ~(k.kind = "async-continuation" /\ k.ex = e /\ k.node = h)}

EventTimers(e, c) ==
  {NewJob("timer-event-start", e, s, c) : s \in EventStarts(c, "timerStart")}

\* Faulty variant of DropEventTimers: the subscriptions outlive their scope.
KeepEventTimers(j, e, c) == j

DropEventTimers(j, e, c) ==
  {k \in j : ~(k.kind = "timer-event-start" /\ k.ex = e /\ k.scope = c)}

-----------------------------------------------------------------------------
(* How a handler ends: by an exception, by ending its token, or by leaving *)
(* its node.  x, j and q are the executions, the jobs and the events as    *)
(* the handler has left them so far.                                       *)

Enter(e, n)  == [ex |-> e, node |-> n, mode |-> "enter"]
Resume(e, n) == [ex |-> e, node |-> n, mode |-> "resume"]
Depart(e, n) == [ex |-> e, node |-> n, mode |-> "leave"]

\* Faulty variant of Raise: what the command built is thrown away.
RaiseDiscards(x, j) ==
  /\ ex' = <<>>
  /\ jobs' = j
  /\ queue' = <<>>
  /\ collapsing' = FALSE
  /\ cmd' = NoCmd
  /\ UNCHANGED completed

\* An exception unwinds the command: what it changed stays, its events are lost.
Raise(x, j) ==
  /\ ex' = x
  /\ jobs' = j
  /\ queue' = <<>>
  /\ collapsing' = FALSE
  /\ cmd' = NoCmd
  /\ UNCHANGED completed

Continue(x, j, q) ==
  /\ ex' = x
  /\ jobs' = j
  /\ queue' = q
  /\ UNCHANGED <<collapsing, cmd, completed>>

CompleteInstance(x, q) ==
  /\ ex' = Ended(x, {Root})
  /\ jobs' = {}
  /\ queue' = q
  /\ completed' = TRUE
  /\ UNCHANGED <<collapsing, cmd>>

EndToken(x, j, q, e) ==
  \/ /\ e # Root
     /\ ex' = Ended(x, {e})
     /\ collapsing' = (collapsing \/ x[Root].live)
     /\ jobs' = j
     /\ queue' = q
     /\ UNCHANGED <<cmd, completed>>
  \/ /\ e = Root
     /\ Children(x, Root) # {}
     /\ Continue([x EXCEPT ![Root].role = "SCOPE", ![Root].act = None], j, q)
  \/ /\ e = Root
     /\ Children(x, Root) = {}
     /\ CompleteInstance(x, q)

Fork(x, e, k) ==
  [x EXCEPT ![e].role = "SCOPE"]
    \o [i \in 1..k |-> NewExecution(<<e>> \o x[e].path, "TOKEN", None)]

Leave(x, j, q, e, n) ==
  \/ /\ Out(n) = <<>>
     /\ EndToken(x, j, q, e)
  \/ /\ Out(n) # <<>>
     /\ ~Here(x, e, n)
     /\ Raise(x, j)
  \/ /\ Len(Out(n)) = 1
     /\ Here(x, e, n)
     /\ Continue(x, j, Append(q, Enter(e, Out(n)[1])))
  \/ /\ Len(Out(n)) > 1
     /\ Here(x, e, n)
     /\ Continue(Fork(x, e, Len(Out(n))), j,
                 q \o [i \in DOMAIN Out(n) |-> Enter(Len(x) + i, Out(n)[i])])

\* An exclusive gateway leaves by one flow, which the variables select.  It raises when
\* they select none: no condition holds and there is no default (such gateways are in
\* Proc.fail), or nothing leads out of it.
Choose(x, q, e, n) ==
  \/ /\ Here(x, e, n)
     /\ \E i \in DOMAIN Out(n) : Continue(x, jobs, Append(q, Enter(e, Out(n)[i])))
  \/ /\ n \in Proc.fail \/ Out(n) = <<>> \/ ~Here(x, e, n)
     /\ Raise(x, jobs)

\* An event subprocess below host: its scope, and the token that enters start s.
WithEventSubprocess(x, host, s) ==
  LET scope == NewExecution(<<host>> \o x[host].path, "SCOPE", Home(s))
  IN  x \o <<[scope EXCEPT !.open = Home(s)],
             NewExecution(<<Len(x) + 1>> \o scope.path, "TOKEN", None)>>

\* Faulty variant of Victims: what the root itself waits for stays.
VictimsBelow(x, host, scope) == Below(x, host)

\* An event subprocess takes over the scope of its host: all that runs below
\* ends; the root, which hosts those of the root process, is itself freed.
Victims(x, host, scope) ==
  Below(x, host) \cup (IF scope = Top THEN {host} ELSE {})

\* Faulty variant of TakenOver: nothing is cancelled.
LeftRunning(x, host, scope) == x

TakenOver(x, host, scope) ==
  LET k == Killed(x, Below(x, host))
  IN  IF scope = Top
      THEN [k EXCEPT ![host].open = None, ![host].act = None, ![host].role = "TOKEN"]
      ELSE k

JoinsTakenOver(dead, scope) ==
  IF scope = Top THEN {} ELSE Without(joins, dead)

-----------------------------------------------------------------------------
(* _pump: the event at the head of the queue.                              *)

Tok  == Head(queue).ex
At   == Head(queue).node
Mode == Head(queue).mode
Rest == Tail(queue)

Pumping == cmd # NoCmd /\ ~collapsing /\ ~completed /\ queue # <<>>

\* The token ended after the event was queued: the event is dropped.
DropEvent ==
  /\ Pumping
  /\ ~ex[Tok].live
  /\ queue' = Rest
  /\ UNCHANGED <<ex, tasks, jobs, joins, collapsing, cmd, completed>>

\* asyncBefore: the behaviour is left to a job, the token waits on the node.
ScheduleAsyncBefore ==
  /\ Pumping
  /\ ex[Tok].live
  /\ Mode = "enter"
  /\ At \in Proc.before
  /\ LET x == [ex EXCEPT ![Tok].act = At, ![Tok].open = At]
         j == jobs \cup {NewWait("async-continuation", Tok, At)}
     IN  \/ /\ Attached(At) = {} \/ Here(x, Tok, At)
            /\ ~Refuses(At)
            /\ Continue(x, WithBoundaries(j, Tok, At), Rest)
         \/ /\ Attached(At) # {} /\ ~Here(x, Tok, At)
            /\ Raise(x, j)
         \/ /\ Here(x, Tok, At)
            /\ Refuses(At)
            /\ \E k \in UntilRefused(j, Tok, At) : Raise(x, k)
  /\ UNCHANGED <<tasks, joins>>

\* The token arrives at a node of these kinds, or a job resumes it there.
Behaves(kinds) ==
  /\ Pumping
  /\ ex[Tok].live
  /\ Kind(At) \in kinds
  /\ Mode = "resume" \/ (Mode = "enter" /\ At \notin Proc.before)

Moved  == IF Mode = "enter" THEN [ex EXCEPT ![Tok].act = At] ELSE ex
Opened == [Moved EXCEPT ![Tok].open = At]
Closed == [Moved EXCEPT ![Tok].open = None]

PassStart ==
  /\ Behaves(StartKinds)
  /\ Leave(Closed, jobs, Rest, Tok, At)
  /\ UNCHANGED <<tasks, joins>>

ReachEnd ==
  /\ Behaves({"end"})
  /\ Proc.code[At] = None
  /\ EndToken(Closed, jobs, Rest, Tok)
  /\ UNCHANGED <<tasks, joins>>

RunService ==
  /\ Behaves({"service"})
  /\ \/ /\ At \in Proc.fail
        /\ Raise(Opened, jobs)
     \/ /\ At \in Proc.after
        /\ Continue(Closed, jobs \cup {NewWait("async-after", Tok, At)}, Rest)
     \/ /\ At \notin Proc.after
        /\ Leave(Closed, jobs, Rest, Tok, At)
  /\ UNCHANGED <<tasks, joins>>

ChooseFlow ==
  /\ Behaves({"xor"})
  /\ \/ /\ At \in Proc.after
        /\ Continue(Closed, jobs \cup {NewWait("async-after", Tok, At)}, Rest)
     \/ /\ At \notin Proc.after
        /\ Choose(Closed, Rest, Tok, At)
  /\ UNCHANGED <<tasks, joins>>

EnterUserTaskWait ==
  /\ Behaves({"user"})
  /\ tasks' = tasks \cup {[ex |-> Tok, node |-> At]}
  /\ IF At \in Proc.before \/ Attached(At) = {}
     THEN Continue(Opened, jobs, Rest)
     ELSE IF Here(Opened, Tok, At)
     THEN Continue(Opened, WithBoundaries(jobs, Tok, At), Rest)
     ELSE Raise(Opened, jobs)
  /\ UNCHANGED joins

EnterTimerCatch ==
  /\ Behaves({"catch"})
  /\ Continue(Opened, jobs \cup {NewWait("timer-catch", Tok, At)}, Rest)
  /\ UNCHANGED <<tasks, joins>>

EnterSubprocess ==
  /\ Behaves({"sub"})
  /\ LET x == Append([Opened EXCEPT ![Tok].role = "SCOPE"],
                     NewExecution(<<Tok>> \o ex[Tok].path, "TOKEN", None))
     IN  \/ /\ Attached(At) = {} \/ Here(Opened, Tok, At)
            /\ ~Refuses(At)
            /\ Continue(x, WithBoundaries(jobs, Tok, At) \cup EventTimers(Tok, At),
                        Append(Rest, Enter(Len(x), Proc.start[At])))
         \/ /\ Attached(At) # {} /\ ~Here(Opened, Tok, At)
            /\ Raise(x, jobs)
         \/ /\ Here(Opened, Tok, At)
            /\ Refuses(At)
            /\ \E j \in UntilRefused(jobs, Tok, At) : Raise(x, j)
  /\ UNCHANGED <<tasks, joins>>

Arrivals(g) == {w \in joins : w.node = g}

NewArrival(g, e) ==
  [node |-> g, ex |-> e, nth |-> Cardinality({w \in Arrivals(g) : w.ex = e})]

\* A gateway with one incoming flow, or a token that completes the join, leaves.
PassGateway ==
  /\ Behaves({"parallel"})
  /\ Here(Moved, Tok, At)
  /\ IF Cardinality(Incoming(At)) <= 1
     THEN /\ Leave(Closed, jobs, Rest, Tok, At)
          /\ UNCHANGED joins
     ELSE LET x == Ended(Closed, {Tok} \cup {w.ex : w \in Arrivals(At)})
          IN  /\ Cardinality(Arrivals(At)) + 1 >= Cardinality(Incoming(At))
              /\ joins' = joins \ Arrivals(At)
              /\ \E a \in JoinActors(x, Tok) :
                   Leave([x EXCEPT ![a].role = "TOKEN"], jobs, Rest, a, At)
  /\ UNCHANGED tasks

\* Faulty variant of WaitAtJoin: it compares before it registers.
WaitAtJoinLate ==
  /\ Behaves({"parallel"})
  /\ Here(Moved, Tok, At)
  /\ Cardinality(Arrivals(At)) < Cardinality(Incoming(At))
  /\ joins' = joins \cup {NewArrival(At, Tok)}
  /\ Continue(Moved, jobs, Rest)
  /\ UNCHANGED tasks

\* A token that does not complete the join waits at it; one that resolves to another
\* container does not find the gateway there.
WaitAtJoin ==
  /\ Behaves({"parallel"})
  /\ IF Here(Moved, Tok, At)
     THEN /\ Cardinality(Arrivals(At)) + 1 < Cardinality(Incoming(At))
          /\ joins' = joins \cup {NewArrival(At, Tok)}
          /\ Continue(Moved, jobs, Rest)
     ELSE /\ Raise(Moved, jobs)
          /\ UNCHANGED joins
  /\ UNCHANGED tasks

-----------------------------------------------------------------------------
(* An error end: the error climbs from the inner scope to the root.        *)

\* The hosts whose container declares an interrupting start for the error code.
Catchers(x, e, code) ==
  LET Catching(c) == {s \in EventStarts(c, "errorStart") : s \in Proc.cancel /\ Proc.code[s] = code}
      Scope(p) == /\ x[p].role # "TOKEN"
                  /\ x[p].act \in Nodes
                  /\ Kind(x[p].act) \in SubKinds
                  /\ Here(x, p, x[p].act)
      path == x[e].path
      Hits == {k \in DOMAIN path : Scope(path[k]) /\ Catching(x[path[k]].act) # {}}
      Near == {k \in Hits : \A m \in Hits : k <= m}
  IN  IF Hits # {}
      THEN UNION {{[host |-> path[k], scope |-> x[path[k]].act, start |-> s] :
                      s \in Catching(x[path[k]].act)} : k \in Near}
      ELSE {[host |-> Root, scope |-> Top, start |-> s] : s \in Catching(Top)}

\* Faulty variant of UncaughtError: the token is dropped, not ended.
UncaughtErrorSwallowed ==
  /\ Behaves({"end"})
  /\ Proc.code[At] # None
  /\ Catchers(Closed, Tok, Proc.code[At]) = {}
  /\ Continue(Closed, jobs, Rest)
  /\ UNCHANGED <<tasks, joins>>

UncaughtError ==
  /\ Behaves({"end"})
  /\ Proc.code[At] # None
  /\ Catchers(Closed, Tok, Proc.code[At]) = {}
  /\ EndToken(Closed, jobs, Rest, Tok)
  /\ UNCHANGED <<tasks, joins>>

ThrowError ==
  /\ Behaves({"end"})
  /\ Proc.code[At] # None
  /\ \E c \in Catchers(Closed, Tok, Proc.code[At]) :
       LET x == IF Tok = Root THEN Closed ELSE Ended(Closed, {Tok})
           dead == Victims(x, c.host, c.scope)
       IN  /\ Continue(WithEventSubprocess(TakenOver(x, c.host, c.scope), c.host, c.start),
                       DropEventTimers(Without(jobs, dead), c.host, c.scope)
                         \cup EventTimers(Len(ex) + 1, Home(c.start)),
                       Append(Rest, Enter(Len(ex) + 2, c.start)))
           /\ tasks' = Without(tasks, dead)
           /\ joins' = JoinsTakenOver(dead, c.scope)

-----------------------------------------------------------------------------
(* The rest of a command that already acted on its token: it leaves the node. *)

DepartNode ==
  /\ Pumping
  /\ Mode = "leave"
  /\ ex[Tok].live
  /\ IF Kind(At) = "xor"
     THEN Choose(ex, Rest, Tok, At)
     ELSE Leave(ex, jobs, Rest, Tok, At)
  /\ UNCHANGED <<tasks, joins>>

-----------------------------------------------------------------------------
(* _collapse_scopes: the scopes whose subtree is empty.  The code scans them *)
(* in creation order until none is left; here the order is open.             *)

Collapsible ==
  {e \in DOMAIN ex :
     /\ ex[e].live
     /\ ex[e].role # "TOKEN"
     /\ Children(ex, e) = {}
     /\ ex[e].act \in Nodes
     /\ Kind(ex[e].act) \in SubKinds \cup {"parallel"}
     /\ Here(ex, e, ex[e].act)}

\* Everything inside a subProcess is over: it leaves along its own flows.
CollapseSubprocess(e) ==
  /\ collapsing
  /\ e \in Collapsible
  /\ Kind(ex[e].act) \in SubKinds
  /\ Leave([ex EXCEPT ![e].open = None, ![e].role = "TOKEN"],
           DropEventTimers(DropBoundaries(jobs, ex[e].act), e, ex[e].act),
           queue, e, ex[e].act)
  /\ UNCHANGED <<tasks, joins>>

\* Every branch of a fork ended without a join: the fork ends.
CollapseFork(e) ==
  /\ collapsing
  /\ e \in Collapsible
  /\ Kind(ex[e].act) = "parallel"
  /\ IF e = Root
     THEN CompleteInstance(ex, queue)
     ELSE Continue(Ended(ex, {e}), jobs, queue)
  /\ UNCHANGED <<tasks, joins>>

\* Faulty variant of FinishCollapse: the scan never finds that it is done.
ScanForever ==
  /\ collapsing
  /\ Collapsible = {}
  /\ UNCHANGED vars

\* Nothing left to collapse: a root that waited for its subtree completes.
FinishCollapse ==
  /\ collapsing
  /\ Collapsible = {}
  /\ collapsing' = FALSE
  /\ LET over == /\ ex[Root].live
                 /\ Children(ex, Root) = {}
                 /\ ex[Root].act = None
                 /\ ex[Root].open = None
     IN  /\ ex' = IF over THEN Ended(ex, {Root}) ELSE ex
         /\ jobs' = IF over THEN {} ELSE jobs
         /\ completed' = (completed \/ over)
  /\ UNCHANGED <<tasks, joins, queue, cmd>>

-----------------------------------------------------------------------------
(* The commands.                                                           *)

AtRest == cmd = NoCmd

StartProcess ==
  /\ AtRest
  /\ ex = <<>>
  /\ ex' = <<NewExecution(<<>>, "TOKEN", None)>>
  /\ queue' = <<Enter(Root, Proc.start[Top])>>
  /\ cmd' = StartC
  /\ UNCHANGED <<tasks, jobs, joins, collapsing, completed>>

\* The task is archived before its node is looked up in the token's container.
CompleteTask(t) ==
  /\ AtRest
  /\ t \in tasks
  /\ ~completed
  /\ ex[t.ex].live
  /\ tasks' = tasks \ {t}
  /\ IF Here(ex, t.ex, t.node)
     THEN /\ ex' = [ex EXCEPT ![t.ex].open = None]
          /\ jobs' = DropBoundaries(jobs, t.node)
          /\ queue' = <<Depart(t.ex, t.node)>>
          /\ cmd' = CompleteC
     ELSE UNCHANGED <<ex, jobs, queue, cmd>>
  /\ UNCHANGED <<joins, collapsing, completed>>

\* The token is no longer where the job expects it.
Stale(j) ==
  LET e == ex[j.ex]
      host == IF j.kind = "timer-boundary" THEN Proc.host[j.node] ELSE j.node
  IN  \/ completed
      \/ ~e.live
      \/ /\ j.kind \in {"timer-catch", "async-after", "timer-boundary"}
         /\ e.act # host
      \/ /\ j.kind = "timer-boundary"
         /\ e.open = None \/ ~Here(ex, j.ex, j.node)
      \/ /\ j.kind = "timer-event-start"
         /\ j.scope # Top
         /\ e.role = "TOKEN" \/ e.act # j.scope \/ ~Here(ex, j.ex, j.scope)
      \/ /\ j.kind = "timer-event-start"
         /\ j.node \notin EventStarts(j.scope, "timerStart")

Due(j, kind) == AtRest /\ j \in jobs /\ j.kind = kind

DropStaleJob(j) ==
  /\ AtRest
  /\ j \in jobs
  /\ Stale(j)
  /\ jobs' = jobs \ {j}
  /\ UNCHANGED <<ex, tasks, joins, queue, collapsing, cmd, completed>>

FireTimerCatch(j) ==
  /\ Due(j, "timer-catch")
  /\ ~Stale(j)
  /\ Here(ex, j.ex, j.node)
  /\ ex' = [ex EXCEPT ![j.ex].open = None]
  /\ queue' = <<Depart(j.ex, j.node)>>
  /\ cmd' = j
  /\ UNCHANGED <<tasks, jobs, joins, collapsing, completed>>

RunAsyncContinuation(j) ==
  /\ Due(j, "async-continuation")
  /\ ~Stale(j)
  /\ Here(ex, j.ex, j.node)
  /\ queue' = <<Resume(j.ex, j.node)>>
  /\ cmd' = j
  /\ UNCHANGED <<ex, tasks, jobs, joins, collapsing, completed>>

RunAsyncAfter(j) ==
  /\ Due(j, "async-after")
  /\ ~Stale(j)
  /\ Here(ex, j.ex, j.node)
  /\ queue' = <<Depart(j.ex, j.node)>>
  /\ cmd' = j
  /\ UNCHANGED <<ex, tasks, jobs, joins, collapsing, completed>>

\* An interrupting boundary cancels its host; the host's token takes its flow.
FireInterruptingBoundary(j) ==
  LET h == Proc.host[j.node]
      dead == IF Kind(h) \in SubKinds THEN Below(ex, j.ex) ELSE {}
      j1 == DropContinuation(DropBoundaries(Without(jobs, dead), h), j.ex, h)
  IN  /\ Due(j, "timer-boundary")
      /\ ~Stale(j)
      /\ j.node \in Proc.cancel
      /\ ex' = [Killed(ex, dead) EXCEPT ![j.ex].open = None]
      /\ tasks' = Without(tasks, dead) \ {[ex |-> j.ex, node |-> h]}
      /\ jobs' = IF Kind(h) \in SubKinds THEN DropEventTimers(j1, j.ex, h) ELSE j1
      /\ joins' = Without(joins, dead)
      /\ queue' = <<Depart(j.ex, j.node)>>
      /\ cmd' = j
      /\ UNCHANGED <<collapsing, completed>>

\* A non-interrupting boundary starts a line beside its host: below the host's
\* parent, or below the root when the root itself is the host's token.
FireNonInterruptingBoundary(j) ==
  /\ Due(j, "timer-boundary")
  /\ ~Stale(j)
  /\ j.node \notin Proc.cancel
  /\ LET path == IF j.ex = Root THEN <<Root>> ELSE ex[j.ex].path
     IN  ex' = Append(ex, NewExecution(path, "TOKEN", None))
  /\ queue' = <<Depart(Len(ex) + 1, j.node)>>
  /\ cmd' = j
  /\ UNCHANGED <<tasks, jobs, joins, collapsing, completed>>

\* The timer of an event subprocess.  An interrupting start first takes over
\* its scope, with every subscription of that scope ...
FireInterruptingEventStart(j) ==
  LET dead == Victims(ex, j.ex, j.scope) IN
  /\ Due(j, "timer-event-start")
  /\ ~Stale(j)
  /\ j.node \in Proc.cancel
  /\ ex' = WithEventSubprocess(TakenOver(ex, j.ex, j.scope), j.ex, j.node)
  /\ tasks' = Without(tasks, dead)
  /\ jobs' = DropEventTimers(Without(jobs, dead), j.ex, j.scope)
               \cup EventTimers(Len(ex) + 1, Home(j.node))
  /\ joins' = JoinsTakenOver(dead, j.scope)
  /\ queue' = <<Enter(Len(ex) + 2, j.node)>>
  /\ cmd' = j
  /\ UNCHANGED <<collapsing, completed>>

\* ... the other one runs beside it and only consumes its own.
FireNonInterruptingEventStart(j) ==
  /\ Due(j, "timer-event-start")
  /\ ~Stale(j)
  /\ j.node \notin Proc.cancel
  /\ ex' = WithEventSubprocess(ex, j.ex, j.node)
  /\ jobs' = (jobs \ {j}) \cup EventTimers(Len(ex) + 1, Home(j.node))
  /\ queue' = <<Enter(Len(ex) + 2, j.node)>>
  /\ cmd' = j
  /\ UNCHANGED <<tasks, joins, collapsing, completed>>

\* The token of an executed job still waits on the job's node, not at a join.
StillWaits(j) ==
  /\ ex[j.ex].live
  /\ ex[j.ex].act = j.node
  /\ ex[j.ex].open # None
  /\ \A w \in Arrivals(j.node) : w.ex # j.ex

\* The command ran an async node, which is over: its boundaries go with it.
AsyncOver == cmd.kind = "async-continuation" /\ ~StillWaits(cmd)

\* The command is over: the lock is released.  A started instance subscribes the
\* event subprocesses of the root process; a job is removed.
Return ==
  /\ cmd # NoCmd
  /\ ~collapsing
  /\ queue = <<>> \/ completed
  /\ queue' = <<>>
  /\ cmd' = NoCmd
  /\ jobs' = IF cmd = StartC
             THEN IF completed THEN jobs ELSE jobs \cup EventTimers(Root, Top)
             ELSE (IF AsyncOver THEN DropBoundaries(jobs, cmd.node) ELSE jobs) \ {cmd}
  /\ UNCHANGED <<ex, tasks, joins, collapsing, completed>>

\* A step that ends its command by an exception.
Raises == cmd # NoCmd /\ cmd' = NoCmd /\ ~Return

-----------------------------------------------------------------------------
Init ==
  /\ ex = <<>>
  /\ tasks = {}
  /\ jobs = {}
  /\ joins = {}
  /\ queue = <<>>
  /\ collapsing = FALSE
  /\ cmd = NoCmd
  /\ completed = FALSE

Pump ==
  \/ DropEvent
  \/ ScheduleAsyncBefore
  \/ PassStart
  \/ ReachEnd
  \/ UncaughtError
  \/ ThrowError
  \/ RunService
  \/ ChooseFlow
  \/ EnterUserTaskWait
  \/ EnterTimerCatch
  \/ EnterSubprocess
  \/ PassGateway
  \/ WaitAtJoin
  \/ DepartNode

Collapse ==
  \/ \E e \in DOMAIN ex : CollapseSubprocess(e) \/ CollapseFork(e)
  \/ FinishCollapse

FireJob(j) ==
  \/ DropStaleJob(j)
  \/ FireTimerCatch(j)
  \/ RunAsyncContinuation(j)
  \/ RunAsyncAfter(j)
  \/ FireInterruptingBoundary(j)
  \/ FireNonInterruptingBoundary(j)
  \/ FireInterruptingEventStart(j)
  \/ FireNonInterruptingEventStart(j)

Next ==
  \/ StartProcess
  \/ \E t \in tasks : CompleteTask(t)
  \/ \E j \in jobs : FireJob(j)
  \/ Pump
  \/ Collapse
  \/ Return

Spec == Init /\ [][Next]_vars

\* The jobs that a token waits for.
WaitKinds == {"timer-catch", "async-continuation", "async-after"}

\* The thread that runs a command runs it to its end, and the job executor keeps
\* polling: the jobs a token waits for run, but deadlines, reminders and limits
\* may be far off.  Users need not complete their tasks: UsersWork is an assumption.
EngineFairness == WF_vars(Pump \/ Collapse \/ Return)
JobFairness    == WF_vars(\E j \in jobs : j.kind \in WaitKinds /\ FireJob(j))
UsersWork      == WF_vars(\E t \in tasks : CompleteTask(t))

LiveSpec == Spec /\ EngineFairness /\ JobFairness /\ UsersWork

-----------------------------------------------------------------------------
(* Properties.                                                             *)

Live(e) == e \in DOMAIN ex /\ ex[e].live

\* What execution e waits for, each as a distinct element.
Waits(e) ==
  {t \in tasks : t.ex = e}
  \cup {j \in jobs : j.ex = e /\ j.kind \in WaitKinds}
  \cup {w \in joins : w.ex = e}

\* Between commands no token is lost: a live execution waits for a task, a job or
\* a join, or it waits for its subtree; only the root may wait for something while
\* lines run below it.
EveryTokenWaits ==
  AtRest =>
    \A e \in DOMAIN ex : ex[e].live =>
      /\ Waits(e) = {} => Children(ex, e) # {}
      /\ Waits(e) # {} /\ e # Root => Children(ex, e) = {}

\* Between commands no token is in two places: it waits for one task, job or join
\* at most, so completing the one cannot leave the other behind.
NeverInTwoPlaces ==
  AtRest => \A e \in DOMAIN ex : ex[e].live => Cardinality(Waits(e)) <= 1

\* Between commands a task, and the job a token waits for, belong to a live
\* token that is still on that node: nothing is left to complete or to fire
\* for a token that moved on.
WaitsAreCurrent ==
  AtRest =>
    /\ \A t \in tasks : Live(t.ex) /\ ex[t.ex].act = t.node /\ ex[t.ex].open = t.node
    /\ \A j \in jobs : j.kind \notin {"timer-boundary", "timer-event-start"} =>
         Live(j.ex) /\ ex[j.ex].act = j.node

\* Between commands the boundary timers match the waiting hosts: a timer stands
\* on a token whose host activity is open, and a token with an open host has each
\* of the interrupting timers attached to it.
BoundariesGuardHost ==
  AtRest =>
    /\ \A j \in jobs : j.kind = "timer-boundary" =>
         Live(j.ex) /\ ex[j.ex].act = Proc.host[j.node] /\ ex[j.ex].open = Proc.host[j.node]
    /\ \A e \in DOMAIN ex : ex[e].live /\ ex[e].open # None =>
         \A b \in Boundaries(ex[e].open) \cap Proc.cancel :
           NewJob("timer-boundary", e, b, None) \in jobs

\* A join holds live tokens that stand at it, no token twice, and never enough of
\* them to go on.
JoinsHoldWaitingTokens ==
  \A w \in joins :
    /\ Live(w.ex) /\ ex[w.ex].act = w.node
    /\ \A v \in Arrivals(w.node) : v.ex = w.ex => v = w
    /\ Cardinality(Arrivals(w.node)) < Cardinality(Incoming(w.node))

\* While an event subprocess that interrupts runs, it is all that runs in the
\* scope it took over.
InterruptingTakesOver ==
  \A e \in DOMAIN ex :
    /\ ex[e].live
    /\ ex[e].act \in Nodes
    /\ Kind(ex[e].act) = "esub"
    /\ {s \in Nodes : Home(s) = ex[e].act /\ Kind(s) \in StartKinds} \subseteq Proc.cancel
    => Children(ex, Head(ex[e].path)) = {e}

\* Between commands a subscription of an event subprocess belongs to a scope that
\* still runs: the root, or a SCOPE parked on that very subProcess.
SubscriptionsFollowScopes ==
  AtRest =>
    \A j \in jobs : j.kind = "timer-event-start" =>
      /\ Live(j.ex)
      /\ j.scope = Top => j.ex = Root
      /\ j.scope # Top => ex[j.ex].act = j.scope /\ Children(ex, j.ex) # {}

\* The root ends last: an instance completes only when its whole subtree is over.
SubtreeEndsFirst == completed => \A e \in DOMAIN ex : ~ex[e].live

\* A completed instance is inert: no execution runs, nothing can be completed
\* or fired any more; and between commands one in which nothing runs is completed.
CompletedIsInert ==
  LET Over == \A e \in DOMAIN ex : ~ex[e].live IN
  /\ completed => Over /\ tasks = {} /\ jobs = {} /\ joins = {}
  /\ AtRest /\ ex # <<>> /\ Over => completed

\* What has ended stays ended: an execution never comes back, keeps its place in
\* the tree, and a completed instance is never resumed nor given new jobs.
EndedForever ==
  [][/\ \A e \in DOMAIN ex :
          e \in DOMAIN ex' /\ ex'[e].path = ex[e].path /\ (ex'[e].live => ex[e].live)
     /\ completed => completed' /\ jobs' = {}]_vars

\* A command that started comes to its end and releases the engine lock.
CommandReturns == cmd # NoCmd ~> cmd = NoCmd

\* An instance whose users do their tasks completes.
InstanceEnds == ex # <<>> ~> completed
=============================================================================
