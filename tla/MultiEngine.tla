----------------------------- MODULE MultiEngine -----------------------------
(***************************************************************************)
(* The token engine with its multi-instance activities: user tasks, service *)
(* tasks and subProcesses that run once for each element of a collection,  *)
(* one after the other or all at once, until all are over or a condition   *)
(* on the counters says that enough of them are.                           *)
(*                                                                         *)
(* The token that arrives holds the counters.  Of a sequential loop it is  *)
(* itself the instance; of a parallel one it becomes a SCOPE with a child  *)
(* for each instance (role "LOOP": only the children are inside the         *)
(* activity).  A loop that starts runs a _pump of its own; the suspended   *)
(* ones go on afterwards: "outer" holds their events, the innermost first. *)
(***************************************************************************)
EXTENDS TokenEngine, LoopCounters, TLC
LOCAL INSTANCE Functions

CONSTANT Loops  \* the multi-instance activities

LoopAssumption ==
  /\ DOMAIN Loops \subseteq {n \in Nodes : Kind(n) \in {"user", "service", "sub"}}
  /\ \A n \in DOMAIN Loops :
       /\ Loops[n] \in [sequential: BOOLEAN, sizes: SUBSET Nat, ends: SUBSET SUBSET (Nat \X Nat)]
       /\ n \notin Proc.before \cup Proc.after  \* or every arrival raises
       /\ Attached(n) = {}

ASSUME LoopAssumption

VARIABLES
  loops,  \* Execution.mi of the executions that hold the counters of a loop
  outer   \* the events of the suspended calls of _pump

mvars == <<vars, loops, outer>>

IsLoop(e) == e \in DOMAIN loops

\* _mi_scope_of: who counts the instance that execution e carries.
LoopsOf(e) ==
  IF IsLoop(e) /\ loops[e].sequential
  THEN {e}
  ELSE {p \in DOMAIN loops : ex[e].path # <<>> /\ p = Head(ex[e].path) /\ ~loops[p].sequential}

-----------------------------------------------------------------------------
(* A loop starts: the token arrives at multi-instance activity m for the   *)
(* first time.                                                             *)

Arrives(m) ==
  /\ Pumping
  /\ ex[Tok].live
  /\ Mode = "enter"
  /\ At = m
  /\ ~IsLoop(Tok)

\* Faulty variant of Nested: the events of this one are forgotten.
NestedAlone == outer' = IF cmd' = NoCmd THEN <<>> ELSE outer

\* The events it causes are those of a _pump within this one.
Nested == outer' = IF cmd' = NoCmd THEN <<>> ELSE <<Rest>> \o outer

\* An exception ends the suspended ones with the command.
Unwind == outer' = IF cmd' = NoCmd THEN <<>> ELSE outer

Holding(e, c) == (e :> c) @@ loops

\* The inside of a subProcess that execution e enters.
Inner(x, e) == Append(x, NewExecution(<<e>> \o x[e].path, "TOKEN", None))

\* x with n executions below e that each carry an instance of m; an instance of
\* a subProcess is entered at once.
WithCarriers(x, e, m, n) ==
  LET path == <<e>> \o x[e].path
      Carrier(role) == [NewExecution(path, role, m) EXCEPT !.open = m]
  IN  x \o IF Kind(m) = "sub"
           THEN [i \in 1..(2 * n) |->
                   IF i % 2 = 1 THEN Carrier("SCOPE")
                   ELSE NewExecution(<<Len(x) + i - 1>> \o path, "TOKEN", None)]
           ELSE [i \in 1..n |-> Carrier("TOKEN")]

\* There is nothing to do: the token leaves at once.
SkipLoop(m) ==
  /\ Arrives(m)
  /\ 0 \in Loops[m].sizes
  /\ Leave(Moved, jobs, <<>>, Tok, m)
  /\ UNCHANGED <<tasks, joins, loops>>
  /\ Nested

\* There is no saying how many instances there are: the collection is none, or the
\* cardinality no number.
RefuseLoop(m) ==
  /\ Arrives(m)
  /\ m \in Proc.fail
  /\ Raise(Moved, jobs)
  /\ UNCHANGED <<tasks, joins, loops>>
  /\ Nested

StartSequence(m, n, ends) ==
  /\ Arrives(m)
  /\ Loops[m].sequential
  /\ Kind(m) # "service"
  /\ loops' = Holding(Tok, Entered(TRUE, n, ends))
  /\ IF Kind(m) = "user"
     THEN /\ tasks' = tasks \cup {[ex |-> Tok, node |-> m]}
          /\ Continue(Opened, jobs, <<>>)
     ELSE /\ Continue(Inner([Opened EXCEPT ![Tok].role = "SCOPE"], Tok),
                      jobs \cup EventTimers(Tok, m),
                      <<Enter(Len(ex) + 1, Proc.start[m])>>)
          /\ UNCHANGED tasks
  /\ UNCHANGED joins
  /\ Nested

StartParallel(m, n, ends) ==
  /\ Arrives(m)
  /\ ~Loops[m].sequential
  /\ Kind(m) # "service"
  /\ loops' = Holding(Tok, Entered(FALSE, n, ends))
  /\ LET x == WithCarriers([Moved EXCEPT ![Tok].role = "LOOP"], Tok, m, n)
         New == Children(x, Tok) \ Children(ex, Tok)
     IN  IF Kind(m) = "user"
         THEN /\ tasks' = tasks \cup [ex: New, node: {m}]
              /\ Continue(x, jobs, <<>>)
         ELSE /\ Continue(x, jobs \cup UNION {EventTimers(e, m) : e \in New},
                          [i \in 1..n |-> Enter(Len(ex) + 2 * i, Proc.start[m])])
              /\ UNCHANGED tasks
  /\ UNCHANGED joins
  /\ Nested

\* The counters after k instances of a service.
Ran(c, k) ==
  [c EXCEPT !.completed = k, !.next = k, !.active = IF c.sequential THEN 0 ELSE c.total - k]

\* The executions when k instances of a parallel service have run, and maybe one more
\* has begun.
Carried(m, k, begun) ==
  Killed(WithCarriers([Moved EXCEPT ![Tok].role = "LOOP"], Tok, m, k + begun),
         (Len(ex) + 1)..(Len(ex) + k))

\* Services run on the spot, up to the instance after which the loop is over.
RunServices(m, n, ends) ==
  LET c == Entered(Loops[m].sequential, n, ends)
      Last(k) == Done(Ran(c, k)) /\ \A i \in 1..(k - 1) : ~Done(Ran(c, i))
      Over(k) == IF c.sequential THEN Closed ELSE [Carried(m, k, 0) EXCEPT ![Tok].role = "TOKEN"]
  IN  /\ Arrives(m)
      /\ Kind(m) = "service"
      /\ \E k \in 1..n : Last(k) /\ Leave(Over(k), jobs, <<>>, Tok, m)
      /\ UNCHANGED <<tasks, joins, loops>>
      /\ Nested

\* ... or up to one that raises: the loop stays as it is.
FailService(m, n, ends) ==
  LET c == Entered(Loops[m].sequential, n, ends) IN
  /\ Arrives(m)
  /\ Kind(m) = "service"
  /\ m \in Proc.fail
  /\ \E k \in 0..(n - 1) :
       /\ \A i \in 1..k : ~Done(Ran(c, i))
       /\ loops' = Holding(Tok, [Ran(c, k) EXCEPT !.next = k + 1, !.active = IF c.sequential THEN 1 ELSE @])
       /\ Raise(IF c.sequential THEN Opened ELSE Carried(m, k, 1), jobs)
  /\ UNCHANGED <<tasks, joins>>
  /\ Nested

EnterLoop(m) ==
  \/ SkipLoop(m) \/ RefuseLoop(m)
  \/ \E n \in Loops[m].sizes \ {0}, ends \in Loops[m].ends :
       \/ StartSequence(m, n, ends) \/ StartParallel(m, n, ends)
       \/ RunServices(m, n, ends) \/ FailService(m, n, ends)

\* The suspended _pump goes on when the one within it has nothing left to do.
ResumeOuter ==
  /\ cmd # NoCmd
  /\ ~collapsing
  /\ ~completed
  /\ queue = <<>>
  /\ outer # <<>>
  /\ queue' = Head(outer)
  /\ outer' = Tail(outer)
  /\ UNCHANGED <<ex, tasks, jobs, joins, collapsing, cmd, completed, loops>>

-----------------------------------------------------------------------------
(* _complete_mi_instance: execution e has done its instance of loop s, on   *)
(* node m.  x and j are the executions and jobs, q the events so far.       *)

Dropped(s) == [d \in DOMAIN loops \ {s} |-> loops[d]]

\* The loop is over: its token goes on along the flows of the activity.
FinishLoop(x, j, q, s, m) ==
  /\ loops' = Dropped(s)
  /\ Leave([x EXCEPT ![s].role = "TOKEN"], j, q, s, m)

\* The token of a sequential loop starts the next instance, if there is one.
NextInstance(x, j, q, s, m) ==
  LET c == [OneOver(loops[s]) EXCEPT !.active = 0] IN
  \/ /\ Done(c)
     /\ FinishLoop(x, j, q, s, m)
     /\ UNCHANGED <<tasks, joins>>
  \/ /\ ~Done(c)
     /\ loops' = Holding(s, NextStarted(c))
     /\ IF Kind(m) = "user"
        THEN /\ tasks' = tasks \cup {[ex |-> s, node |-> m]}
             /\ Continue([x EXCEPT ![s].open = m], j, q)
        ELSE /\ Continue(Inner([x EXCEPT ![s].open = m], s), j \cup EventTimers(s, m),
                         Append(q, Enter(Len(x) + 1, Proc.start[m])))
             /\ UNCHANGED tasks
     /\ UNCHANGED joins

\* Faulty variant of InstanceOver: the other instances run on.
NobodyCancelled(x, s) == {}

\* The instances that are left are cancelled with all that runs inside them.
Cancelled(x, s) == Below(x, s)

\* Faulty variant of InstanceOver: the condition is not looked at.
InstanceOverOfAll(x, j, q, e, s, m) ==
  /\ IF OneOver(loops[s]).completed = loops[s].total
     THEN FinishLoop(Ended(x, {e}), j, q, s, m)
     ELSE loops' = Holding(s, OneOver(loops[s])) /\ Continue(Ended(x, {e}), j, q)
  /\ UNCHANGED <<tasks, joins>>

\* An instance of a parallel loop ends; when enough of them are over so are the
\* others, and the loop.
InstanceOver(x, j, q, e, s, m) ==
  LET one == OneOver(loops[s])
      left == Ended(x, {e})
      c == IF Early(one) THEN Fewer(one, Cardinality(Children(left, s))) ELSE one
      dead == IF Early(one) THEN Cancelled(left, s) ELSE {}
      y == Killed(left, dead)
  IN  /\ tasks' = Without(tasks, dead)
      /\ joins' = Without(joins, dead)
      /\ IF Done(c)
         THEN FinishLoop(y, Without(j, dead), q, s, m)
         ELSE loops' = Holding(s, c) /\ Continue(y, Without(j, dead), q)

CompleteInstanceOf(s, x, j, q, e, m) ==
  IF loops[s].sequential THEN NextInstance(x, j, q, s, m) ELSE InstanceOver(x, j, q, e, s, m)

\* A user task that a loop counts.
CompleteCounted ==
  /\ Pumping
  /\ Mode = "leave"
  /\ ex[Tok].live
  /\ Kind(At) = "user"
  /\ \E s \in LoopsOf(Tok) : CompleteInstanceOf(s, ex, jobs, Rest, Tok, At)
  /\ Unwind

\* A subProcess that a loop counts: everything inside this instance is over.
CollapseCounted(e) ==
  /\ collapsing
  /\ e \in Collapsible
  /\ ex[e].act \in DOMAIN Loops
  /\ \E s \in LoopsOf(e) :
       CompleteInstanceOf(s, [ex EXCEPT ![e].open = None],
                          DropEventTimers(DropBoundaries(jobs, ex[e].act), e, ex[e].act),
                          queue, e, ex[e].act)
  /\ Unwind

-----------------------------------------------------------------------------
(* The rest of the token engine: an arrival that starts a loop, a task and a *)
(* subProcess that a loop counts are not those of a plain activity.        *)

Starts(m) == Mode = "enter" /\ m \in DOMAIN Loops /\ ~IsLoop(Tok)
CountedTask(m) == Mode = "leave" /\ Kind(m) = "user" /\ LoopsOf(Tok) # {}
CountedScope(e) == ex[e].act \in DOMAIN Loops /\ LoopsOf(e) # {}

PlainPump ==
  /\ Pump
  /\ ex[Tok].live => ~Starts(At) /\ ~CountedTask(At)
  /\ Unwind
  /\ UNCHANGED loops

PlainCollapse ==
  /\ \/ \E e \in DOMAIN ex : CollapseFork(e) \/ (~CountedScope(e) /\ CollapseSubprocess(e))
     \/ FinishCollapse
  /\ Unwind
  /\ UNCHANGED loops

UserActs == (\E t \in tasks : CompleteTask(t)) /\ UNCHANGED <<loops, outer>>

OtherCommand ==
  /\ StartProcess \/ \E j \in jobs : FireJob(j)
  /\ UNCHANGED <<loops, outer>>

MReturn ==
  /\ Return
  /\ outer = <<>> \/ completed
  /\ outer' = <<>>
  /\ UNCHANGED loops

-----------------------------------------------------------------------------
MInit == Init /\ loops = <<>> /\ outer = <<>>

MWork ==
  \/ PlainPump
  \/ PlainCollapse
  \/ \E m \in DOMAIN Loops : EnterLoop(m)
  \/ ResumeOuter
  \/ CompleteCounted
  \/ \E e \in DOMAIN ex : CollapseCounted(e)
  \/ MReturn

MNext == UserActs \/ OtherCommand \/ MWork

MSpec == MInit /\ [][MNext]_mvars

\* The thread that holds the engine lock runs on, and users do their tasks.  No
\* timer need be due, so none can rescue a loop that is stuck.
MLiveSpec == MSpec /\ WF_mvars(MWork) /\ WF_mvars(UserActs)

-----------------------------------------------------------------------------
(* Properties.                                                             *)

\* The loops that run: a loop on the root is left behind when an event
\* subprocess takes the process over.
Running == {e \in DOMAIN loops : ex[e].live /\ ex[e].act \in DOMAIN Loops}

Instances(e) == {c \in Children(ex, e) : ex[c].act = ex[e].act}

\* Between commands the counters of a loop are true: as many instances run as
\* it counts, there is at least one, and nothing else runs below a parallel loop.
CountersMatch ==
  AtRest =>
    \A e \in Running :
      LET c == loops[e] IN
      /\ c.active > 0
      /\ ~c.sequential => Children(ex, e) = Instances(e) /\ Cardinality(Instances(e)) = c.active
      /\ c.sequential => ex[e].open = ex[e].act /\ c.next = c.completed + 1

\* Between commands every execution that waits in, or stands on, an activity with
\* a parallel loop belongs to one: no instance outlives its loop.
InstancesAreCounted ==
  AtRest =>
    \A e \in DOMAIN ex :
      ex[e].live /\ ex[e].act \in DOMAIN Loops /\ ~Loops[ex[e].act].sequential =>
        \/ e \in Running
        \/ \E s \in Running : e \in Instances(s)

\* The instances of parallel loops that execution e is part of.
Around(e) == {c \in Range(<<e>> \o ex[e].path) : \E s \in Running : c \in Instances(s)}

\* The instances of a subProcess are independent: a token that arrives at a join
\* meets tokens of its own instance only.
JoinsStayInside ==
  Pumping /\ ex[Tok].live /\ Mode = "enter" /\ Kind(At) = "parallel" =>
    \A w \in Arrivals(At) : Around(w.ex) = Around(Tok)

\* Every loop keeps what a multi-instance activity promises: it ends as soon as, and
\* not before, enough of its instances are completed, counted by the executions that
\* carry them and not by nrOfActiveInstances, or when what it is part of is cancelled.
Promise ==
  INSTANCE MultiInstance WITH
    loops <- [e \in Running |->
                [sequential |-> loops[e].sequential, total |-> loops[e].total,
                 ends |-> loops[e].ends, completed |-> loops[e].completed,
                 running |-> IF loops[e].sequential THEN 1 ELSE Cardinality(Instances(e))]],
    around <- [e \in {e \in DOMAIN ex : ex[e].live} |-> Range(ex[e].path)]
LoopsKeepCount == Promise!Spec
=============================================================================
