-------------------------- MODULE TokenPlaces_proofs --------------------------
(***************************************************************************)
(* For every process definition whose interrupting deadlines are those of  *)
(* user and service tasks, and as long as no command raises: a token is in *)
(* one place at most, and stands on the node it waits at.                  *)
(*                                                                         *)
(* A live execution is held by at most one of the tasks, the jobs a token  *)
(* waits for, the joins, and the events of the queue.  That alone is not   *)
(* inductive: what ends, forks or is revived must not be held at all, so   *)
(* what is held has the role TOKEN; a deadline takes its host from the one *)
(* place it knows of, so a SCOPE has no open task; and the event a command *)
(* starts with is the only one of the queue.                               *)
(*                                                                         *)
(* Both hypotheses are needed.  A command that raises leaves its job to a  *)
(* token that went on; a subProcess that is cancelled keeps its role SCOPE *)
(* and may be collapsed while it waits at a join.                          *)
(*                                                                         *)
(* The second half, from "No token is lost" on, is about the tree: where   *)
(* besides only gateways fork, every node is found in its container and a  *)
(* join takes the branches of its fork and no others, what nothing moves   *)
(* or waits for has a subtree that lives.  So no token is lost, the root   *)
(* ends last, and subscriptions go with their scopes.                      *)
(***************************************************************************)
EXTENDS TokenEngine_proofs

USE DEF Roles

PlainDeadlines ==
  \A b \in Proc.cancel : Kind(b) = "boundary" => Kind(Proc.host[b]) \in {"user", "service"}

\* The jobs among j that a token waits for; the one that runs has fetched its token.
Pend(j) == {k \in j : k.kind \in WaitKinds /\ k # cmd}
Pending == Pend(jobs)

\* What waits for execution w.ex at w.node finds it there in the tree x.
Stands(x, w) ==
  w.ex \in DOMAIN x /\ x[w.ex].live /\ x[w.ex].role = "TOKEN" /\ x[w.ex].act = w.node

TaskStands(x, t) == Stands(x, t) /\ x[t.ex].open = t.node
JobStands(x, k) ==
  /\ Stands(x, k)
  /\ k.kind = "timer-catch" => Kind(k.node) = "catch"
  /\ k.kind = "async-after" => x[k.ex].open = None
JoinStands(x, w) == Stands(x, w) /\ Kind(w.node) = "parallel"

Single(A)   == \A u, v \in A : u.ex = v.ex => u = v
Apart(A, B) == \A u \in A, v \in B : u.ex # v.ex

\* Nothing among the tasks t, the jobs p and the arrivals a waits for e.
Unheld(e, t, p, a) == \A A \in {t, p, a} : \A u \in A : u.ex # e

\* ... nor does an event of q move it.
Idle(e, t, p, a, q) == Unheld(e, t, p, a) /\ \A i \in DOMAIN q : q[i].ex # e

Held(x, t, p, a) ==
  /\ \A u \in t : TaskStands(x, u)
  /\ \A u \in p : JobStands(x, u)
  /\ \A u \in a : JoinStands(x, u)
  /\ Single(t) /\ Single(p) /\ Single(a)
  /\ Apart(t, p) /\ Apart(t, a) /\ Apart(p, a)

\* The events of q move tokens; those that live wait nowhere and are moved once.
Moves(x, t, p, a, q) ==
  \A i \in DOMAIN q :
    /\ x[q[i].ex].role = "TOKEN"
    /\ x[q[i].ex].live =>
         /\ Unheld(q[i].ex, t, p, a)
         /\ \A k \in DOMAIN q : q[k].ex = q[i].ex => k = i

Placed(x, t, p, a, q) == Held(x, t, p, a) /\ Moves(x, t, p, a, q)

\* Execution e has no open task.
Shut(x, e) ==
  x[e].live /\ x[e].act \in Nodes /\ Kind(x[e].act) \in {"user", "service"} => x[e].open = None

ScopesShut(x) == \A e \in DOMAIN x : x[e].role # "TOKEN" => Shut(x, e)

OnlyEnters(q) == \A i \in DOMAIN q : q[i].mode = "enter"

\* The event that a command starts with.
FirstEvent ==
  /\ Len(queue) = 1
  /\ ~collapsing
  /\ Mode = "resume" => ex[Tok].act = At
  /\ Mode = "leave" => Shut(ex, Tok)

NeverEnough ==
  \A w \in joins : Cardinality(Arrivals(w.node)) < Cardinality(Incoming(w.node))

PInv ==
  /\ Placed(ex, tasks, Pending, joins, queue)
  /\ ScopesShut(ex)
  /\ OnlyEnters(queue) \/ FirstEvent
  /\ AtRest => queue = <<>> /\ ~collapsing
  /\ NeverEnough

-----------------------------------------------------------------------------
\* Fewer things wait.
LEMMA FewerHeld ==
  ASSUME NEW x, NEW t, NEW p, NEW a, NEW q, Placed(x, t, p, a, q),
         NEW t2, t2 \subseteq t, NEW p2, p2 \subseteq p, NEW a2, a2 \subseteq a
  PROVE  Placed(x, t2, p2, a2, q)
  <1>1. Held(x, t2, p2, a2)
    BY DEF Placed, Held, Single, Apart
  <1>2. Moves(x, t2, p2, a2, q)
    BY DEF Placed, Moves, Unheld
  <1> QED BY <1>1, <1>2 DEF Placed

\* The tree changes, but for the executions that something waits for.
LEMMA OthersChange ==
  ASSUME NEW x, NEW t, NEW p, NEW a, NEW q, Placed(x, t, p, a, q), NEW y,
         \A e \in DOMAIN x : Unheld(e, t, p, a) \/ (e \in DOMAIN y /\ y[e] = x[e]),
         \A i \in DOMAIN q : y[q[i].ex].role = "TOKEN" /\ (y[q[i].ex].live => x[q[i].ex].live)
  PROVE  Placed(y, t, p, a, q)
  <1>1. ASSUME NEW A \in {t, p, a}, NEW u \in A PROVE u.ex \in DOMAIN y /\ y[u.ex] = x[u.ex]
    <2>1. ~Unheld(u.ex, t, p, a)
      BY <1>1 DEF Unheld
    <2>2. u.ex \in DOMAIN x
      BY <1>1 DEF Placed, Held, TaskStands, JobStands, JoinStands, Stands
    <2> QED BY <2>1, <2>2
  <1>2. \A u \in t : TaskStands(y, u)
    BY <1>1 DEF Placed, Held, TaskStands, Stands
  <1>3. \A u \in p : JobStands(y, u)
    BY <1>1 DEF Placed, Held, JobStands, Stands
  <1>4. \A u \in a : JoinStands(y, u)
    BY <1>1 DEF Placed, Held, JoinStands, Stands
  <1>5. Moves(y, t, p, a, q)
    BY DEF Placed, Moves
  <1> QED BY <1>2, <1>3, <1>4, <1>5 DEF Placed, Held

\* What is held is idle no more than what an event moves.
LEMMA IdleUnheld ==
  ASSUME NEW e, NEW t, NEW p, NEW a, NEW q, Idle(e, t, p, a, q)
  PROVE  Unheld(e, t, p, a) /\ \A i \in DOMAIN q : q[i].ex # e
  BY DEF Idle

\* An idle execution changes.
LEMMA IdleChanges ==
  ASSUME NEW x, NEW t, NEW p, NEW a, NEW q, Placed(x, t, p, a, q),
         NEW e, Idle(e, t, p, a, q), NEW y,
         \A i \in DOMAIN x \ {e} : i \in DOMAIN y /\ y[i] = x[i],
         \A i \in DOMAIN q : q[i].ex \in DOMAIN x
  PROVE  Placed(y, t, p, a, q)
  <1>1. \A i \in DOMAIN x : Unheld(i, t, p, a) \/ (i \in DOMAIN y /\ y[i] = x[i])
    BY IdleUnheld
  <1>2. ASSUME NEW i \in DOMAIN q
        PROVE  y[q[i].ex].role = "TOKEN" /\ (y[q[i].ex].live => x[q[i].ex].live)
    <2>1. y[q[i].ex] = x[q[i].ex]
      BY IdleUnheld
    <2> QED BY <2>1 DEF Placed, Moves
  <1> QED BY <1>1, <1>2, OthersChange

\* An idle token is given a task, a job or an arrival to wait for ...
LEMMA Waits1 ==
  ASSUME NEW x, NEW t, NEW p, NEW a, NEW q, Placed(x, t, p, a, q), NEW u, Idle(u.ex, t, p, a, q)
  PROVE  /\ TaskStands(x, u) => Placed(x, t \cup {u}, p, a, q)
         /\ JobStands(x, u)  => Placed(x, t, p \cup {u}, a, q)
         /\ JoinStands(x, u) => Placed(x, t, p, a \cup {u}, q)
  <1>1. Unheld(u.ex, t, p, a) /\ \A i \in DOMAIN q : q[i].ex # u.ex
    BY IdleUnheld
  <1>2. Held(x, t, p, a) /\ Moves(x, t, p, a, q)
    BY DEF Placed
  <1>3. /\ TaskStands(x, u) => Held(x, t \cup {u}, p, a)
        /\ JobStands(x, u)  => Held(x, t, p \cup {u}, a)
        /\ JoinStands(x, u) => Held(x, t, p, a \cup {u})
    BY <1>1, <1>2 DEF Held, Single, Apart, Unheld
  <1>4. /\ Moves(x, t \cup {u}, p, a, q)
        /\ Moves(x, t, p \cup {u}, a, q)
        /\ Moves(x, t, p, a \cup {u}, q)
    BY <1>1, <1>2 DEF Moves, Unheld
  <1> QED BY <1>3, <1>4 DEF Placed

\* ... or an event that moves it.
LEMMA Enqueued ==
  ASSUME NEW x, NEW t, NEW p, NEW a, NEW S, NEW q \in Seq(S), Placed(x, t, p, a, q), OnlyEnters(q),
         NEW e, Idle(e, t, p, a, q), x[e].role = "TOKEN", NEW n
  PROVE  Placed(x, t, p, a, Append(q, Enter(e, n))) /\ OnlyEnters(Append(q, Enter(e, n)))
  <1> DEFINE v == Enter(e, n)
             r == Append(q, v)
  <1>1. v.ex = e /\ v.mode = "enter"
    BY DEF Enter
  <1> HIDE DEF v
  <1>2. /\ DOMAIN r = 1..(Len(q) + 1) /\ DOMAIN q = 1..Len(q) /\ Len(q) \in Nat
        /\ \A i \in DOMAIN q : r[i] = q[i]
        /\ r[Len(q) + 1] = v
    <2>1. q \in Seq(S \cup {v})
      BY SeqMonotonic
    <2> QED BY <2>1, AppendProperties, LenProperties
  <1> HIDE DEF r
  <1>3. Unheld(e, t, p, a) /\ \A i \in DOMAIN q : q[i].ex # e
    BY IdleUnheld
  <1>4. Moves(x, t, p, a, r)
    <2>1. ASSUME NEW i \in DOMAIN r
          PROVE  /\ x[r[i].ex].role = "TOKEN"
                 /\ x[r[i].ex].live =>
                      /\ Unheld(r[i].ex, t, p, a)
                      /\ \A k \in DOMAIN r : r[k].ex = r[i].ex => k = i
      <3>1. CASE i \in DOMAIN q
        BY <1>1, <1>2, <1>3, <2>1, <3>1 DEF Placed, Moves
      <3>2. CASE i = Len(q) + 1
        BY <1>1, <1>2, <1>3, <2>1, <3>2
      <3> QED BY <1>2, <3>1, <3>2
    <2> QED BY <2>1 DEF Moves
  <1>5. OnlyEnters(r)
    BY <1>1, <1>2 DEF OnlyEnters
  <1> QED BY <1>4, <1>5 DEF Placed, r, v

\* Several idle tokens are each given an event that moves them.
LEMMA EnqueuedAll ==
  ASSUME NEW x, NEW t, NEW p, NEW a, NEW S, NEW q \in Seq(S), Placed(x, t, p, a, q), OnlyEnters(q),
         NEW s \in Seq(S),
         \A i \in DOMAIN s : /\ s[i].mode = "enter"
                             /\ Idle(s[i].ex, t, p, a, q)
                             /\ x[s[i].ex].role = "TOKEN"
                             /\ \A k \in DOMAIN s : s[k].ex = s[i].ex => k = i
  PROVE  Placed(x, t, p, a, q \o s) /\ OnlyEnters(q \o s)
  <1> DEFINE r == q \o s
  <1>1. /\ Len(q) \in Nat /\ Len(s) \in Nat
        /\ DOMAIN q = 1..Len(q) /\ DOMAIN s = 1..Len(s) /\ DOMAIN r = 1..(Len(q) + Len(s))
        /\ \A i \in DOMAIN r : \/ /\ i \in DOMAIN q
                                 /\ r[i] = q[i]
                              \/ /\ i \notin DOMAIN q
                                 /\ i - Len(q) \in DOMAIN s
                                 /\ r[i] = s[i - Len(q)]
    <2>1. /\ Len(q) \in Nat /\ Len(s) \in Nat
          /\ DOMAIN q = 1..Len(q) /\ DOMAIN s = 1..Len(s)
      BY LenProperties
    <2>2. /\ r \in Seq(S) /\ Len(r) = Len(q) + Len(s)
          /\ \A i \in 1..(Len(q) + Len(s)) : r[i] = IF i <= Len(q) THEN q[i] ELSE s[i - Len(q)]
      BY ConcatProperties
    <2> HIDE DEF r
    <2>3. DOMAIN r = 1..(Len(q) + Len(s))
      BY <2>2, LenProperties
    <2> QED BY <2>1, <2>2, <2>3
  <1> HIDE DEF r
  <1>2. ASSUME NEW i \in DOMAIN s
        PROVE  Unheld(s[i].ex, t, p, a) /\ \A k \in DOMAIN q : q[k].ex # s[i].ex
    BY IdleUnheld
  <1>3. Moves(x, t, p, a, r)
    <2>1. ASSUME NEW i \in DOMAIN r
          PROVE  /\ x[r[i].ex].role = "TOKEN"
                 /\ x[r[i].ex].live =>
                      /\ Unheld(r[i].ex, t, p, a)
                      /\ \A k \in DOMAIN r : r[k].ex = r[i].ex => k = i
      <3>1. CASE i \in DOMAIN q /\ r[i] = q[i]
        BY <1>1, <1>2, <2>1, <3>1 DEF Placed, Moves
      <3>2. CASE i \notin DOMAIN q /\ i - Len(q) \in DOMAIN s /\ r[i] = s[i - Len(q)]
        <4>1. ASSUME NEW k \in DOMAIN r, r[k].ex = r[i].ex PROVE k = i
          <5>1. CASE k \in DOMAIN q /\ r[k] = q[k]
            BY <1>2, <3>2, <4>1, <5>1
          <5>2. CASE k \notin DOMAIN q /\ k - Len(q) \in DOMAIN s /\ r[k] = s[k - Len(q)]
            <6>1. k - Len(q) = i - Len(q)
              BY <3>2, <4>1, <5>2
            <6> QED BY <1>1, <6>1
          <5> QED BY <1>1, <5>1, <5>2
        <4> QED BY <1>2, <2>1, <3>2, <4>1
      <3> QED BY <1>1, <3>1, <3>2
    <2> QED BY <2>1 DEF Moves
  <1>4. OnlyEnters(r)
    BY <1>1 DEF OnlyEnters
  <1> QED BY <1>3, <1>4 DEF Placed, r

\* An execution that is still to be created is idle.
LEMMA FreshIdle ==
  ASSUME NEW x, NEW t, NEW p, NEW a, NEW q \in Seq(EventIn(x)), Placed(x, t, p, a, q),
         NEW e, e \notin DOMAIN x
  PROVE  Idle(e, t, p, a, q)
  <1>1. \A i \in DOMAIN q : q[i].ex \in DOMAIN x
    <2>1. \A i \in DOMAIN q : q[i] \in EventIn(x)
      BY ElementOfSeq, LenProperties
    <2> QED BY <2>1 DEF EventIn
  <1>2. Unheld(e, t, p, a)
    BY DEF Unheld, Placed, Held, TaskStands, JobStands, JoinStands, Stands
  <1> QED BY <1>1, <1>2 DEF Idle

\* The events of a queue are for executions of the tree.
LEMMA QueueIn ==
  ASSUME NEW x, NEW q \in Seq(EventIn(x))
  PROVE  \A i \in DOMAIN q : q[i].ex \in DOMAIN x /\ q[i] \in EventIn(x)
  <1>1. \A i \in DOMAIN q : q[i] \in EventIn(x)
    BY ElementOfSeq, LenProperties
  <1> QED BY <1>1 DEF EventIn

-----------------------------------------------------------------------------
\* What a handler has built when it ends its token or leaves its node.
Ready(x, t, j, a, q) == Placed(x, t, Pend(j), a, q) /\ ScopesShut(x) /\ OnlyEnters(q)

\* What a step has made of the places.
Settled ==
  /\ Placed(ex', tasks', Pending', joins', queue')
  /\ ScopesShut(ex')
  /\ OnlyEnters(queue')
  /\ cmd' # NoCmd

\* Executions that nothing waits for end.
LEMMA EndedPlaced ==
  ASSUME NEW x, Tree(x), NEW t, NEW p, NEW a, NEW q, Placed(x, t, p, a, q), ScopesShut(x),
         q \in Seq(EventIn(x)), NEW D, \A e \in D : Unheld(e, t, p, a)
  PROVE  Placed(Ended(x, D), t, p, a, q) /\ ScopesShut(Ended(x, D))
  <1> DEFINE y == Ended(x, D)
  <1>1. /\ DOMAIN y = DOMAIN x
        /\ \A i \in DOMAIN x : y[i] = IF i \in D THEN [x[i] EXCEPT !.live = FALSE] ELSE x[i]
    BY DEF Ended
  <1>2. \A i \in DOMAIN x : x[i] \in ExecutionIn(x)
    BY TreeDomain
  <1> HIDE DEF y
  <1>3. \A i \in DOMAIN x : /\ i \in D => ~y[i].live
                            /\ y[i].role = x[i].role
                            /\ y[i].live => x[i].live
    BY <1>1, <1>2 DEF ExecutionIn
  <1>4. Placed(y, t, p, a, q)
    <2>1. \A e \in DOMAIN x : Unheld(e, t, p, a) \/ (e \in DOMAIN y /\ y[e] = x[e])
      BY <1>1
    <2>2. \A i \in DOMAIN q : y[q[i].ex].role = "TOKEN" /\ (y[q[i].ex].live => x[q[i].ex].live)
      BY <1>3, QueueIn DEF Placed, Moves
    <2> QED BY <2>1, <2>2, OthersChange
  <1>5. ASSUME NEW i \in DOMAIN x, y[i].role # "TOKEN" PROVE Shut(y, i)
    <2>1. Shut(x, i)
      BY <1>3, <1>5 DEF ScopesShut
    <2> QED BY <1>1, <1>3, <2>1 DEF Shut
  <1> QED BY <1>1, <1>4, <1>5 DEF ScopesShut, y

\* Executions are killed with all that waits for them.
LEMMA KilledPlaced ==
  ASSUME NEW x, Tree(x), NEW t, NEW p, NEW a, NEW q, Placed(x, t, p, a, q), ScopesShut(x),
         q \in Seq(EventIn(x)), NEW D,
         NEW t2, t2 \subseteq Without(t, D), NEW p2, p2 \subseteq Without(p, D),
         NEW a2, a2 \subseteq Without(a, D)
  PROVE  Placed(Killed(x, D), t2, p2, a2, q) /\ ScopesShut(Killed(x, D))
  <1> DEFINE y == Killed(x, D)
  <1>1. /\ DOMAIN y = DOMAIN x
        /\ \A i \in DOMAIN x : y[i] = IF i \in D THEN [x[i] EXCEPT !.live = FALSE, !.open = None] ELSE x[i]
    BY DEF Killed
  <1>2. \A i \in DOMAIN x : x[i] \in ExecutionIn(x)
    BY TreeDomain
  <1> HIDE DEF y
  <1>3. \A i \in DOMAIN x : /\ i \in D => ~y[i].live
                            /\ y[i].role = x[i].role
                            /\ y[i].live => x[i].live
    BY <1>1, <1>2 DEF ExecutionIn
  <1>4. Placed(y, t2, p2, a2, q)
    <2>1. Placed(x, t2, p2, a2, q)
      BY FewerHeld, DropsOnly
    <2>2. \A e \in DOMAIN x : Unheld(e, t2, p2, a2) \/ (e \in DOMAIN y /\ y[e] = x[e])
      BY <1>1 DEF Unheld, Without
    <2>3. \A i \in DOMAIN q : y[q[i].ex].role = "TOKEN" /\ (y[q[i].ex].live => x[q[i].ex].live)
      BY <1>3, QueueIn DEF Placed, Moves
    <2> QED BY <2>1, <2>2, <2>3, OthersChange
  <1>5. ASSUME NEW i \in DOMAIN x, y[i].role # "TOKEN" PROVE Shut(y, i)
    <2>1. Shut(x, i)
      BY <1>3, <1>5 DEF ScopesShut
    <2> QED BY <1>1, <1>3, <2>1 DEF Shut
  <1> QED BY <1>1, <1>4, <1>5 DEF ScopesShut, y

-----------------------------------------------------------------------------
\* The timers that are not waited for change nothing: those of boundaries ...
LEMMA PendBoundaries ==
  ASSUME NEW j, NEW e, NEW h
  PROVE  Pend(WithBoundaries(j, e, h)) = Pend(j)
  BY DEF Pend, WaitKinds, WithBoundaries, NewJob

LEMMA PendDropBoundaries ==
  ASSUME NEW j, NEW h
  PROVE  Pend(DropBoundaries(j, h)) = Pend(j)
  BY DEF Pend, WaitKinds, DropBoundaries

\* ... and those of event subprocesses.
LEMMA PendTimers ==
  ASSUME NEW j, NEW e, NEW c
  PROVE  Pend(j \cup EventTimers(e, c)) = Pend(j)
  BY DEF Pend, WaitKinds, EventTimers, NewJob

\* The job that a handler adds for its token is waited for.
LEMMA PendAdded ==
  ASSUME NEW j, NEW w, w # cmd, w.kind \in WaitKinds
  PROVE  Pend(j \cup {w}) = Pend(j) \cup {w}
  BY DEF Pend

\* A handler that goes on.
LEMMA ContinueSettled ==
  ASSUME NEW x, NEW t, NEW j, NEW a, NEW q, Ready(x, t, j, a, q), Continue(x, j, q),
         tasks' = t, joins' = a, cmd # NoCmd
  PROVE  Settled
  BY DEF Ready, Continue, Settled, Pend, Pending

\* The root's token has ended, its subtree has not: the root waits for it.
LEMMA RootWaits ==
  ASSUME NEW x, Tree(x), NEW t, NEW j, NEW a, NEW q, Ready(x, t, j, a, q), q \in Seq(EventIn(x)),
         Root \in DOMAIN x, Idle(Root, t, Pend(j), a, q)
  PROVE  Ready([x EXCEPT ![Root].role = "SCOPE", ![Root].act = None], t, j, a, q)
  <1> DEFINE y == [x EXCEPT ![Root].role = "SCOPE", ![Root].act = None]
  <1>1. x[Root] \in ExecutionIn(x)
    BY TreeDomain
  <1>2. /\ DOMAIN y = DOMAIN x
        /\ \A i \in DOMAIN x \ {Root} : y[i] = x[i]
        /\ y[Root].act = None
    BY <1>1 DEF ExecutionIn
  <1> HIDE DEF y
  <1>3. Placed(y, t, Pend(j), a, q)
    BY <1>2, IdleChanges, QueueIn DEF Ready
  <1>4. None \notin Nodes
    BY ProcAssumption DEF ProcAssumption
  <1>5. ASSUME NEW i \in DOMAIN y, y[i].role # "TOKEN" PROVE Shut(y, i)
    BY <1>2, <1>4, <1>5 DEF Ready, ScopesShut, Shut
  <1> QED BY <1>3, <1>5 DEF Ready, ScopesShut, y

\* The end of a token that nothing else holds.
LEMMA EndTokenSettled ==
  ASSUME NEW x, Tree(x), NEW t, NEW j, NEW a, NEW q, Ready(x, t, j, a, q), q \in Seq(EventIn(x)),
         NEW e \in DOMAIN x, Idle(e, t, Pend(j), a, q), EndToken(x, j, q, e),
         tasks' = t, joins' = a, cmd # NoCmd
  PROVE  Settled
  <1>1. Unheld(e, t, Pend(j), a)
    BY IdleUnheld
  <1>2. Placed(Ended(x, {e}), t, Pend(j), a, q) /\ ScopesShut(Ended(x, {e}))
    BY <1>1, EndedPlaced DEF Ready
  <1>3. CASE e # Root /\ ex' = Ended(x, {e}) /\ jobs' = j /\ queue' = q /\ UNCHANGED cmd
    <2>1. Pending' = Pend(j)
      BY <1>3 DEF Pending, Pend
    <2> QED BY <1>2, <1>3, <2>1 DEF Settled, Ready
  <1>4. CASE e = Root /\ Continue([x EXCEPT ![Root].role = "SCOPE", ![Root].act = None], j, q)
    <2>1. Ready([x EXCEPT ![Root].role = "SCOPE", ![Root].act = None], t, j, a, q)
      BY <1>4, RootWaits
    <2> QED BY <1>4, <2>1, ContinueSettled
  <1>5. CASE e = Root /\ CompleteInstance(x, q)
    <2>1. ex' = Ended(x, {e}) /\ jobs' = {} /\ queue' = q /\ cmd' = cmd
      BY <1>5 DEF CompleteInstance
    <2>2. Pending' = {}
      BY <2>1 DEF Pending, Pend
    <2>3. Placed(Ended(x, {e}), t, {}, a, q)
      BY <1>2, FewerHeld
    <2> QED BY <1>2, <2>1, <2>2, <2>3 DEF Settled, Ready
  <1> QED BY <1>3, <1>4, <1>5 DEF EndToken

\* What a fork adds to the tree.
LEMMA ForkShape ==
  ASSUME NEW x, Tree(x), NEW e \in DOMAIN x, NEW k \in Nat
  PROVE  /\ DOMAIN Fork(x, e, k) = 1..(Len(x) + k)
         /\ \A i \in DOMAIN x \ {e} : Fork(x, e, k)[i] = x[i]
         /\ Fork(x, e, k)[e] = [x[e] EXCEPT !.role = "SCOPE"]
         /\ \A i \in 1..k : Fork(x, e, k)[Len(x) + i] = NewExecution(<<e>> \o x[e].path, "TOKEN", None)
  <1> DEFINE y == [x EXCEPT ![e].role = "SCOPE"]
             r == NewExecution(<<e>> \o x[e].path, "TOKEN", None)
             s == [i \in 1..k |-> r]
             S == {r}
  <1>1. Grows(x, y) /\ Len(y) = Len(x)
    BY SetRole
  <1>2. DOMAIN y = DOMAIN x /\ (\A i \in DOMAIN x \ {e} : y[i] = x[i])
        /\ y[e] = [x[e] EXCEPT !.role = "SCOPE"]
    BY TreeDomain
  <1>3. Fork(x, e, k) = y \o s
    BY DEF Fork
  <1>4. \A i \in 1..k : s[i] = r
    OBVIOUS
  <1> HIDE DEF r, y
  <1>5. s \in [1..k -> S]
    OBVIOUS
  <1> HIDE DEF s, S
  <1>6. s \in Seq(S) /\ Len(s) = k
    BY <1>5, FunctionIsSeq
  <1>7. Tree(y)
    BY <1>1 DEF Grows
  <1>8. DOMAIN (y \o s) = 1..(Len(y) + Len(s))
    BY <1>6, <1>7, ConcatDomain
  <1>9. \A i \in DOMAIN y : (y \o s)[i] = y[i]
    BY <1>6, <1>7, ConcatDomain
  <1>10. \A i \in 1..Len(s) : (y \o s)[Len(y) + i] = s[i]
    BY <1>6, <1>7, ConcatDomain
  <1> QED BY <1>1, <1>2, <1>3, <1>4, <1>6, <1>8, <1>9, <1>10 DEF r

\* A fork of an idle token: its branches are entered.
LEMMA ForkReady ==
  ASSUME NEW x, Tree(x), NEW t, NEW j, NEW a, NEW q, Ready(x, t, j, a, q), q \in Seq(EventIn(x)),
         NEW e \in DOMAIN x, Idle(e, t, Pend(j), a, q), Shut(x, e), NEW n \in Nodes
  PROVE  Ready(Fork(x, e, Len(Out(n))), t, j, a,
               q \o [i \in DOMAIN Out(n) |-> Enter(Len(x) + i, Out(n)[i])])
  <1> DEFINE k == Len(Out(n))
             y == Fork(x, e, k)
             s == [i \in DOMAIN Out(n) |-> Enter(Len(x) + i, Out(n)[i])]
             p == Pend(j)
  <1>1. k \in Nat /\ DOMAIN Out(n) = 1..k
    BY OutNodes
  <1>2. /\ DOMAIN y = 1..(Len(x) + k)
        /\ \A i \in DOMAIN x \ {e} : y[i] = x[i]
        /\ y[e] = [x[e] EXCEPT !.role = "SCOPE"]
        /\ \A i \in 1..k : y[Len(x) + i] = NewExecution(<<e>> \o x[e].path, "TOKEN", None)
    BY <1>1, ForkShape
  <1>3. /\ Len(x) \in Nat /\ DOMAIN x = 1..Len(x) /\ x[e] \in ExecutionIn(x)
    BY TreeDomain
  <1>4. \A i \in 1..k : s[i] = Enter(Len(x) + i, Out(n)[i]) /\ s[i].ex = Len(x) + i /\ s[i].mode = "enter"
    BY <1>1 DEF Enter
  <1>5. \A i \in 1..k : Len(x) + i \in DOMAIN y /\ Enter(Len(x) + i, Out(n)[i]) \in EventIn(y)
    BY <1>1, <1>2, <1>3, OutNodes DEF Enter, EventIn
  <1>6. s \in [1..k -> EventIn(y)]
    BY <1>1, <1>4, <1>5
  <1>7. \A i \in 1..k : y[Len(x) + i].role = "TOKEN"
    BY <1>2 DEF NewExecution
  <1>8. y[e].live = x[e].live /\ y[e].act = x[e].act /\ y[e].open = x[e].open
    BY <1>2, <1>3 DEF ExecutionIn
  <1> HIDE DEF y, s, k
  <1>9. s \in Seq(EventIn(y)) /\ DOMAIN s = 1..k
    BY <1>1, <1>6, FunctionIsSeq
  <1>10. q \in Seq(EventIn(y))
    BY <1>1, <1>2, <1>3, InMonotone
  <1>11. Placed(x, t, p, a, q) /\ ScopesShut(x) /\ OnlyEnters(q)
    BY DEF Ready
  <1> HIDE DEF p
  <1>12. Placed(y, t, p, a, q)
    <2>1. \A i \in DOMAIN x \ {e} : i \in DOMAIN y /\ y[i] = x[i]
      BY <1>1, <1>2, <1>3
    <2>2. Idle(e, t, p, a, q)
      BY DEF p
    <2> QED BY <1>11, <2>1, <2>2, IdleChanges, QueueIn
  <1>13. ScopesShut(y)
    <2>1. ASSUME NEW i \in DOMAIN y, y[i].role # "TOKEN" PROVE Shut(y, i)
      <3>1. i \in DOMAIN x
        <4>1. \A m \in 1..(Len(x) + k) : m \in 1..Len(x) \/ (m - Len(x) \in 1..k /\ m = Len(x) + (m - Len(x)))
          BY <1>1, <1>3
        <4> QED BY <1>2, <1>3, <1>7, <2>1, <4>1
      <3>2. CASE i = e
        BY <1>8, <3>2 DEF Shut
      <3>3. CASE i # e
        BY <1>2, <1>11, <2>1, <3>1, <3>3 DEF ScopesShut, Shut
      <3> QED BY <3>2, <3>3
    <2> QED BY <2>1 DEF ScopesShut
  <1>14. ASSUME NEW i \in DOMAIN s
         PROVE  /\ s[i].mode = "enter"
                /\ Idle(s[i].ex, t, p, a, q)
                /\ y[s[i].ex].role = "TOKEN"
                /\ \A m \in DOMAIN s : s[m].ex = s[i].ex => m = i
    <2>1. s[i].ex = Len(x) + i /\ s[i].mode = "enter" /\ i \in 1..k
      BY <1>4, <1>9
    <2>2. s[i].ex \notin DOMAIN x
      BY <1>1, <1>3, <2>1
    <2>3. Idle(s[i].ex, t, p, a, q)
      BY <1>11, <2>2, FreshIdle
    <2>4. \A m \in 1..k : Len(x) + m = Len(x) + i => m = i
      BY <1>1, <1>3, <2>1
    <2> QED BY <1>4, <1>7, <1>9, <2>1, <2>3, <2>4
  <1> DEFINE S == EventIn(y)
  <1>15. s \in Seq(S) /\ q \in Seq(S) /\ OnlyEnters(q)
    BY <1>9, <1>10, <1>11
  <1> HIDE DEF S
  <1>16. Placed(y, t, p, a, q \o s) /\ OnlyEnters(q \o s)
    BY <1>12, <1>14, <1>15, EnqueuedAll
  <1> QED BY <1>13, <1>16 DEF Ready, y, s, p, k

\* An idle token leaves a node.
LEMMA LeaveSettled ==
  ASSUME NEW x, Tree(x), NEW t, NEW j, NEW a, NEW q, Ready(x, t, j, a, q), q \in Seq(EventIn(x)),
         NEW e \in DOMAIN x, Idle(e, t, Pend(j), a, q), x[e].role = "TOKEN", Shut(x, e),
         NEW n \in Nodes, Leave(x, j, q, e, n),
         tasks' = t, joins' = a, cmd # NoCmd, cmd' # NoCmd
  PROVE  Settled
  <1>1. CASE EndToken(x, j, q, e)
    BY <1>1, EndTokenSettled
  <1>2. CASE Raise(x, j)
    BY <1>2 DEF Raise
  <1>3. CASE Continue(x, j, Append(q, Enter(e, Out(n)[1])))
    <2>1. Ready(x, t, j, a, Append(q, Enter(e, Out(n)[1])))
      BY Enqueued DEF Ready
    <2> QED BY <1>3, <2>1, ContinueSettled
  <1>4. CASE Continue(Fork(x, e, Len(Out(n))), j,
                      q \o [i \in DOMAIN Out(n) |-> Enter(Len(x) + i, Out(n)[i])])
    BY <1>4, ForkReady, ContinueSettled
  <1> QED BY <1>1, <1>2, <1>3, <1>4 DEF Leave

\* An idle token leaves an exclusive gateway.
LEMMA ChooseSettled ==
  ASSUME NEW x, Tree(x), NEW t, NEW a, NEW q, Ready(x, t, jobs, a, q), q \in Seq(EventIn(x)),
         NEW e \in DOMAIN x, Idle(e, t, Pending, a, q), x[e].role = "TOKEN",
         NEW n \in Nodes, Choose(x, q, e, n),
         tasks' = t, joins' = a, cmd # NoCmd, cmd' # NoCmd
  PROVE  Settled
  <1>1. CASE \E i \in DOMAIN Out(n) : Continue(x, jobs, Append(q, Enter(e, Out(n)[i])))
    <2>1. PICK i \in DOMAIN Out(n) : Continue(x, jobs, Append(q, Enter(e, Out(n)[i])))
      BY <1>1
    <2>2. Ready(x, t, jobs, a, Append(q, Enter(e, Out(n)[i])))
      BY Enqueued DEF Ready, Pending
    <2> QED BY <2>1, <2>2, ContinueSettled
  <1>2. CASE Raise(x, jobs)
    BY <1>2 DEF Raise
  <1> QED BY <1>1, <1>2 DEF Choose

\* Executions are added to the tree.
LEMMA ExtendedPlaced ==
  ASSUME NEW x, NEW t, NEW p, NEW a, NEW q, Placed(x, t, p, a, q), q \in Seq(EventIn(x)),
         NEW y, \A i \in DOMAIN x : i \in DOMAIN y /\ y[i] = x[i]
  PROVE  Placed(y, t, p, a, q)
  <1>1. \A i \in DOMAIN x : Unheld(i, t, p, a) \/ (i \in DOMAIN y /\ y[i] = x[i])
    OBVIOUS
  <1>2. \A i \in DOMAIN q : y[q[i].ex].role = "TOKEN" /\ (y[q[i].ex].live => x[q[i].ex].live)
    BY QueueIn DEF Placed, Moves
  <1> QED BY <1>1, <1>2, OthersChange

\* The event that starts a command, for an idle token.
LEMMA OneEvent ==
  ASSUME NEW x, NEW t, NEW p, NEW a, NEW q, Placed(x, t, p, a, q), NEW v,
         Unheld(v.ex, t, p, a), x[v.ex].role = "TOKEN"
  PROVE  /\ Placed(x, t, p, a, <<v>>)
         /\ v.mode = "enter" => OnlyEnters(<<v>>)
         /\ Head(<<v>>) = v /\ Len(<<v>>) = 1
  BY DEF Placed, Moves, OnlyEnters

-----------------------------------------------------------------------------
\* What _pump takes from the queue.
LEMMA Popped ==
  ASSUME IInv, PInv, Pumping
  PROVE  /\ Ready(ex, tasks, jobs, joins, Rest)
         /\ Rest \in Seq(EventIn(ex))
         /\ Tree(ex)
         /\ ex[Tok].role = "TOKEN"
         /\ ex[Tok].live => Idle(Tok, tasks, Pending, joins, Rest)
         /\ Mode # "enter" => FirstEvent
         /\ cmd # NoCmd /\ ~Return
  <1>1. /\ queue \in Seq(EventIn(ex)) /\ queue # <<>> /\ Tree(ex)
        /\ cmd # NoCmd /\ ~Return
    BY DEF IInv, Pumping, Return
  <1>2. /\ Rest \in Seq(EventIn(ex))
        /\ Len(queue) \in Nat \ {0}
        /\ DOMAIN queue = 1..Len(queue)
        /\ Len(Rest) = Len(queue) - 1
        /\ \A i \in 1..Len(Rest) : Rest[i] = queue[i + 1]
        /\ Head(queue) = queue[1]
    BY <1>1, HeadTailProperties, EmptySeq, LenProperties DEF Rest
  <1>3. DOMAIN Rest = 1..Len(Rest)
    BY <1>2, LenProperties
  <1>4. \A i \in DOMAIN Rest : i + 1 \in DOMAIN queue /\ Rest[i] = queue[i + 1] /\ i + 1 # 1
    BY <1>2, <1>3
  <1>5. 1 \in DOMAIN queue /\ Tok = queue[1].ex /\ Mode = queue[1].mode
    BY <1>2 DEF Tok, Mode
  <1>6. Held(ex, tasks, Pending, joins) /\ Moves(ex, tasks, Pending, joins, queue)
    BY DEF PInv, Placed
  <1>7. Moves(ex, tasks, Pending, joins, Rest)
    <2>1. \A i, k \in DOMAIN Rest : i + 1 = k + 1 => i = k
      BY <1>2, <1>3
    <2> QED BY <1>4, <1>6, <2>1 DEF Moves
  <1>8. OnlyEnters(Rest)
    <2>1. CASE OnlyEnters(queue)
      BY <1>4, <2>1 DEF OnlyEnters
    <2>2. CASE FirstEvent
      <3>1. Len(Rest) = 0
        BY <1>2, <2>2 DEF FirstEvent
      <3> QED BY <1>3, <3>1 DEF OnlyEnters
    <2> QED BY <2>1, <2>2 DEF PInv
  <1>9. Ready(ex, tasks, jobs, joins, Rest)
    BY <1>6, <1>7, <1>8 DEF Ready, Placed, Pending, PInv
  <1>10. ex[Tok].role = "TOKEN"
    BY <1>5, <1>6 DEF Moves
  <1>11. ASSUME ex[Tok].live PROVE Idle(Tok, tasks, Pending, joins, Rest)
    BY <1>4, <1>5, <1>6, <1>11 DEF Moves, Idle
  <1>12. Mode # "enter" => FirstEvent
    BY <1>5 DEF PInv, OnlyEnters
  <1> QED BY <1>1, <1>2, <1>9, <1>10, <1>11, <1>12

\* The tree a handler starts from, its token on the node.
LEMMA Arrived ==
  ASSUME IInv, PInv, Pumping, ex[Tok].live, Mode \in {"enter", "resume"},
         NEW x \in {Moved, Opened, Closed}
  PROVE  /\ Tree(x) /\ DOMAIN x = DOMAIN ex /\ Tok \in DOMAIN x /\ At \in Nodes
         /\ x[Tok].live /\ x[Tok].role = "TOKEN" /\ x[Tok].act = At
         /\ Opened[Tok].open = At /\ Closed[Tok].open = None
         /\ Ready(x, tasks, jobs, joins, Rest)
         /\ Rest \in Seq(EventIn(x))
         /\ Idle(Tok, tasks, Pending, joins, Rest)
  <1>1. Tok \in DOMAIN ex /\ At \in Nodes /\ Tree(ex) /\ ex[Tok] \in ExecutionIn(ex)
    BY HeadEvent, TreeDomain DEF IInv
  <1>2. Tree(x) /\ Rest \in Seq(EventIn(x))
    BY HeadEvent DEF Prepared, Grows
  <1>3. Mode = "resume" => ex[Tok].act = At
    BY Popped DEF FirstEvent
  <1>4. /\ DOMAIN Moved = DOMAIN ex
        /\ \A i \in DOMAIN ex \ {Tok} : Moved[i] = ex[i]
        /\ Moved[Tok] = [ex[Tok] EXCEPT !.act = At]
    BY <1>1, <1>3 DEF Moved, ExecutionIn
  <1> DEFINE r == Moved[Tok]
             Set(n) == [Moved EXCEPT ![Tok].open = n]
  <1>5. r \in ExecutionIn(ex) /\ r.live /\ r.act = At /\ r.role = ex[Tok].role
    BY <1>1, <1>4 DEF ExecutionIn
  <1>6. ASSUME NEW n \in Nodes \cup {None}
        PROVE  /\ DOMAIN Set(n) = DOMAIN ex
               /\ \A i \in DOMAIN ex \ {Tok} : Set(n)[i] = ex[i]
               /\ Set(n)[Tok].live /\ Set(n)[Tok].act = At /\ Set(n)[Tok].role = ex[Tok].role
               /\ Set(n)[Tok].open = n
    <2>1. /\ DOMAIN Set(n) = DOMAIN ex
          /\ \A i \in DOMAIN ex \ {Tok} : Set(n)[i] = ex[i]
          /\ Set(n)[Tok] = [r EXCEPT !.open = n]
      BY <1>1, <1>4
    <2> HIDE DEF r, Set
    <2> QED BY <1>5, <2>1 DEF ExecutionIn
  <1>7. Opened = Set(At) /\ Closed = Set(None)
    BY DEF Opened, Closed
  <1>8. r = Moved[Tok]
    OBVIOUS
  <1> HIDE DEF r, Set
  <1>9. /\ DOMAIN x = DOMAIN ex
        /\ \A i \in DOMAIN ex \ {Tok} : x[i] = ex[i]
        /\ x[Tok].live /\ x[Tok].act = At /\ x[Tok].role = ex[Tok].role
    <2>1. CASE x = Moved
      BY <1>4, <1>5, <1>8, <2>1
    <2>2. CASE x = Opened
      BY <1>1, <1>6, <1>7, <2>2
    <2>3. CASE x = Closed
      BY <1>6, <1>7, <2>3
    <2> QED BY <2>1, <2>2, <2>3
  <1>13. Opened[Tok].open = At /\ Closed[Tok].open = None
    BY <1>1, <1>6, <1>7
  <1>10. /\ Ready(ex, tasks, jobs, joins, Rest)
         /\ ex[Tok].role = "TOKEN"
         /\ Idle(Tok, tasks, Pending, joins, Rest)
         /\ Rest \in Seq(EventIn(ex))
    BY Popped
  <1>11. Placed(x, tasks, Pend(jobs), joins, Rest)
    <2>1. \A i \in DOMAIN Rest : Rest[i].ex \in DOMAIN ex
      BY <1>10, QueueIn
    <2> QED BY <1>9, <1>10, <2>1, IdleChanges DEF Ready, Pending
  <1>12. ScopesShut(x)
    BY <1>9, <1>10 DEF Ready, ScopesShut, Shut
  <1> QED BY <1>1, <1>2, <1>9, <1>10, <1>11, <1>12, <1>13 DEF Ready

-----------------------------------------------------------------------------
\* A step of _pump that does not raise keeps the lock.
LEMMA PumpKeepsLock ==
  ASSUME IInv, PInv, Pumping, ~Raises
  PROVE  cmd' # NoCmd /\ cmd # NoCmd
  BY Popped DEF Raises

\* A token that arrives can close its activity and leave.
LEMMA ClosedReady ==
  ASSUME IInv, PInv, NEW kinds, Behaves(kinds)
  PROVE  /\ Pumping /\ ex[Tok].live /\ Mode \in {"enter", "resume"} /\ At \in Nodes
         /\ Tok \in DOMAIN ex
         /\ Tree(Closed) /\ Tok \in DOMAIN Closed
         /\ Closed[Tok].role = "TOKEN" /\ Closed[Tok].live /\ Closed[Tok].act = At
         /\ Closed[Tok].open = None /\ Shut(Closed, Tok)
         /\ Ready(Closed, tasks, jobs, joins, Rest)
         /\ Rest \in Seq(EventIn(Closed))
         /\ Idle(Tok, tasks, Pend(jobs), joins, Rest)
  <1>1. Pumping /\ ex[Tok].live /\ Mode \in {"enter", "resume"}
    BY DEF Behaves
  <1> QED BY <1>1, Arrived, HeadEvent DEF Shut, Pending

\* Nodes that are left at once.
LEMMA LeavesSettled ==
  ASSUME IInv, PInv, ~Raises, NEW kinds, Behaves(kinds), UNCHANGED <<tasks, joins>>,
         \/ Leave(Closed, jobs, Rest, Tok, At)
         \/ EndToken(Closed, jobs, Rest, Tok)
         \/ Choose(Closed, Rest, Tok, At)
  PROVE  Settled
  <1>1. cmd # NoCmd /\ cmd' # NoCmd
    BY ClosedReady, PumpKeepsLock
  <1>2. Idle(Tok, tasks, Pending, joins, Rest)
    BY ClosedReady DEF Pending
  <1>3. CASE Leave(Closed, jobs, Rest, Tok, At)
    BY <1>1, <1>3, ClosedReady, LeaveSettled
  <1>4. CASE EndToken(Closed, jobs, Rest, Tok)
    BY <1>1, <1>4, ClosedReady, EndTokenSettled
  <1>5. CASE Choose(Closed, Rest, Tok, At)
    BY <1>1, <1>2, <1>5, ClosedReady, ChooseSettled
  <1> QED BY <1>3, <1>4, <1>5

\* A node left by a job: the token waits for it.
LEMMA AfterSettled ==
  ASSUME IInv, PInv, ~Raises, NEW kinds, Behaves(kinds), UNCHANGED <<tasks, joins>>,
         Continue(Closed, jobs \cup {NewWait("async-after", Tok, At)}, Rest)
  PROVE  Settled
  <1> DEFINE w == NewWait("async-after", Tok, At)
  <1>1. cmd # NoCmd
    BY ClosedReady, PumpKeepsLock
  <1>2. w # cmd /\ w.kind = "async-after" /\ w.ex = Tok /\ w.node = At
    BY ClosedReady, NewWaitIn DEF WaitKinds
  <1> HIDE DEF w
  <1>3. Pend(jobs \cup {w}) = Pend(jobs) \cup {w}
    BY <1>2, PendAdded DEF WaitKinds
  <1>4. JobStands(Closed, w)
    BY <1>2, ClosedReady DEF JobStands, Stands
  <1>5. Placed(Closed, tasks, Pend(jobs) \cup {w}, joins, Rest)
    BY <1>2, <1>4, ClosedReady, Waits1 DEF Ready
  <1>6. Ready(Closed, tasks, jobs \cup {w}, joins, Rest)
    BY <1>3, <1>5, ClosedReady DEF Ready
  <1> QED BY <1>1, <1>6, ContinueSettled DEF w

LEMMA StraightSettled ==
  ASSUME IInv, PInv, ~Raises,
         PassStart \/ ReachEnd \/ UncaughtError \/ RunService \/ ChooseFlow
  PROVE  Settled /\ joins' = joins
  <1>1. CASE PassStart
    BY <1>1, LeavesSettled DEF PassStart
  <1>2. CASE ReachEnd
    BY <1>2, LeavesSettled DEF ReachEnd
  <1>3. CASE UncaughtError
    BY <1>3, LeavesSettled DEF UncaughtError
  <1>4. CASE RunService
    <2>1. Behaves({"service"}) /\ UNCHANGED <<tasks, joins>>
      BY <1>4 DEF RunService
    <2>2. cmd' # NoCmd
      BY <2>1, PumpKeepsLock DEF Behaves
    <2>3. ~Raise(Opened, jobs)
      BY <2>2 DEF Raise
    <2>4. \/ Continue(Closed, jobs \cup {NewWait("async-after", Tok, At)}, Rest)
          \/ Leave(Closed, jobs, Rest, Tok, At)
      BY <1>4, <2>3 DEF RunService
    <2> QED BY <2>1, <2>4, AfterSettled, LeavesSettled
  <1>5. CASE ChooseFlow
    <2>1. Behaves({"xor"}) /\ UNCHANGED <<tasks, joins>>
      BY <1>5 DEF ChooseFlow
    <2>2. \/ Continue(Closed, jobs \cup {NewWait("async-after", Tok, At)}, Rest)
          \/ Choose(Closed, Rest, Tok, At)
      BY <1>5 DEF ChooseFlow
    <2> QED BY <2>1, <2>2, AfterSettled, LeavesSettled
  <1> QED BY <1>1, <1>2, <1>3, <1>4, <1>5

LEMMA DropEventSettled ==
  ASSUME IInv, PInv, DropEvent
  PROVE  Settled /\ joins' = joins
  <1>1. /\ Pumping /\ queue' = Rest
        /\ ex' = ex /\ tasks' = tasks /\ jobs' = jobs /\ joins' = joins /\ cmd' = cmd
    BY DEF DropEvent
  <1>2. Ready(ex, tasks, jobs, joins, Rest) /\ cmd # NoCmd
    BY <1>1, Popped
  <1>3. Pending' = Pend(jobs)
    BY <1>1 DEF Pending, Pend
  <1> QED BY <1>1, <1>2, <1>3 DEF Settled, Ready

LEMMA DepartNodeSettled ==
  ASSUME IInv, PInv, ~Raises, DepartNode
  PROVE  Settled /\ joins' = joins
  <1>1. Pumping /\ Mode = "leave" /\ ex[Tok].live /\ UNCHANGED <<tasks, joins>>
    BY DEF DepartNode
  <1>2. /\ Ready(ex, tasks, jobs, joins, Rest) /\ Rest \in Seq(EventIn(ex)) /\ Tree(ex)
        /\ ex[Tok].role = "TOKEN" /\ Idle(Tok, tasks, Pending, joins, Rest)
        /\ Shut(ex, Tok)
    BY <1>1, Popped DEF FirstEvent
  <1>3. Tok \in DOMAIN ex /\ At \in Nodes
    BY <1>1, HeadEvent
  <1>4. cmd # NoCmd /\ cmd' # NoCmd
    BY <1>1, PumpKeepsLock
  <1>5. CASE Choose(ex, Rest, Tok, At)
    BY <1>1, <1>2, <1>3, <1>4, <1>5, ChooseSettled
  <1>6. CASE Leave(ex, jobs, Rest, Tok, At)
    <2>1. Idle(Tok, tasks, Pend(jobs), joins, Rest)
      BY <1>2 DEF Pending
    <2> QED BY <1>1, <1>2, <1>3, <1>4, <1>6, <2>1, LeaveSettled
  <1> QED BY <1>1, <1>5, <1>6 DEF DepartNode

\* A job is added for the token, on a node it stands on.
LEMMA JobWaits ==
  ASSUME NEW x, Tree(x), NEW q, Ready(x, tasks, jobs, joins, q),
         NEW e \in DOMAIN x, Idle(e, tasks, Pend(jobs), joins, q),
         x[e].live, x[e].role = "TOKEN", NEW n \in Nodes, x[e].act = n,
         NEW kind \in WaitKinds, kind = "timer-catch" => Kind(n) = "catch", kind # "async-after"
  PROVE  Ready(x, tasks, jobs \cup {NewWait(kind, e, n)}, joins, q)
  <1> DEFINE w == NewWait(kind, e, n)
  <1>1. w # cmd /\ w.kind = kind /\ w.ex = e /\ w.node = n
    BY NewWaitIn
  <1> HIDE DEF w
  <1>2. Pend(jobs \cup {w}) = Pend(jobs) \cup {w}
    BY <1>1, PendAdded
  <1>3. JobStands(x, w)
    BY <1>1 DEF JobStands, Stands
  <1>4. Placed(x, tasks, Pend(jobs) \cup {w}, joins, q)
    BY <1>1, <1>3, Waits1 DEF Ready
  <1> QED BY <1>2, <1>4 DEF Ready, w

LEMMA ScheduleAsyncBeforeSettled ==
  ASSUME IInv, PInv, ~Raises, ScheduleAsyncBefore
  PROVE  Settled /\ joins' = joins
  <1> DEFINE x == [ex EXCEPT ![Tok].act = At, ![Tok].open = At]
             j == jobs \cup {NewWait("async-continuation", Tok, At)}
  <1>1. Pumping /\ ex[Tok].live /\ Mode = "enter" /\ UNCHANGED <<tasks, joins>>
    BY DEF ScheduleAsyncBefore
  <1>2. cmd # NoCmd /\ cmd' # NoCmd
    BY <1>1, PumpKeepsLock
  <1>3. Continue(x, WithBoundaries(j, Tok, At), Rest)
    BY <1>2 DEF ScheduleAsyncBefore, Raise
  <1>4. x = Opened
    BY <1>1 DEF Opened, Moved
  <1>5. Ready(Opened, tasks, j, joins, Rest)
    BY <1>1, Arrived, JobWaits DEF WaitKinds, Pending
  <1> HIDE DEF x, j
  <1>6. Ready(Opened, tasks, WithBoundaries(j, Tok, At), joins, Rest)
    BY <1>5, PendBoundaries DEF Ready
  <1> QED BY <1>1, <1>2, <1>3, <1>4, <1>6, ContinueSettled

LEMMA EnterTimerCatchSettled ==
  ASSUME IInv, PInv, EnterTimerCatch
  PROVE  Settled /\ joins' = joins
  <1>1. /\ Pumping /\ ex[Tok].live /\ Mode \in {"enter", "resume"} /\ Kind(At) = "catch"
        /\ UNCHANGED <<tasks, joins>>
        /\ Continue(Opened, jobs \cup {NewWait("timer-catch", Tok, At)}, Rest)
    BY DEF EnterTimerCatch, Behaves
  <1>2. Ready(Opened, tasks, jobs \cup {NewWait("timer-catch", Tok, At)}, joins, Rest)
    BY <1>1, Arrived, JobWaits DEF WaitKinds, Pending
  <1> QED BY <1>1, <1>2, Popped, ContinueSettled

LEMMA EnterUserTaskWaitSettled ==
  ASSUME IInv, PInv, ~Raises, EnterUserTaskWait
  PROVE  Settled /\ joins' = joins
  <1> DEFINE w == [ex |-> Tok, node |-> At]
             t == tasks \cup {w}
  <1>1. /\ Pumping /\ ex[Tok].live /\ Mode \in {"enter", "resume"}
        /\ tasks' = t /\ joins' = joins
    BY DEF EnterUserTaskWait, Behaves
  <1>2. cmd # NoCmd /\ cmd' # NoCmd
    BY <1>1, PumpKeepsLock
  <1>3. w.ex = Tok /\ w.node = At
    OBVIOUS
  <1>4. PICK j \in {jobs, WithBoundaries(jobs, Tok, At)} : Continue(Opened, j, Rest)
    BY <1>2 DEF EnterUserTaskWait, Raise
  <1>5. Pend(j) = Pend(jobs)
    BY PendBoundaries
  <1> HIDE DEF w
  <1>6. TaskStands(Opened, w)
    BY <1>1, <1>3, Arrived DEF TaskStands, Stands
  <1>7. Placed(Opened, t, Pend(jobs), joins, Rest)
    <2>1. Idle(w.ex, tasks, Pend(jobs), joins, Rest)
      BY <1>1, <1>3, Arrived DEF Pending
    <2>2. Placed(Opened, tasks, Pend(jobs), joins, Rest)
      BY <1>1, Arrived DEF Ready
    <2> QED BY <1>6, <2>1, <2>2, Waits1
  <1>8. Ready(Opened, t, j, joins, Rest)
    BY <1>1, <1>5, <1>7, Arrived DEF Ready
  <1> HIDE DEF t
  <1> QED BY <1>1, <1>2, <1>4, <1>8, ContinueSettled

\* What an append adds to the tree.
LEMMA Appended ==
  ASSUME NEW x, Tree(x), NEW r
  PROVE  /\ Len(Append(x, r)) = Len(x) + 1
         /\ DOMAIN Append(x, r) = DOMAIN x \cup {Len(x) + 1}
         /\ \A i \in DOMAIN x : Append(x, r)[i] = x[i]
         /\ Append(x, r)[Len(x) + 1] = r
         /\ Len(x) + 1 \notin DOMAIN x
  <1> DEFINE S == ExecutionIn(x) \cup {r}
  <1>1. x \in Seq(S) /\ r \in S
    BY SeqMonotonic DEF Tree
  <1> HIDE DEF S
  <1>2. Len(x) \in Nat /\ DOMAIN x = 1..Len(x)
    BY TreeDomain
  <1>3. /\ Append(x, r) \in Seq(S)
        /\ Len(Append(x, r)) = Len(x) + 1
        /\ \A i \in 1..Len(x) : Append(x, r)[i] = x[i]
        /\ Append(x, r)[Len(x) + 1] = r
    BY <1>1, AppendProperties
  <1>4. DOMAIN Append(x, r) = 1..(Len(x) + 1)
    BY <1>3, LenProperties
  <1> QED BY <1>2, <1>3, <1>4

\* A child token is added and is to enter a node.
LEMMA ChildEnters ==
  ASSUME NEW x, Tree(x), NEW t, NEW j, NEW a, NEW q, Ready(x, t, j, a, q), q \in Seq(EventIn(x)),
         NEW path, NEW n
  PROVE  Ready(Append(x, NewExecution(path, "TOKEN", None)), t, j, a,
               Append(q, Enter(Len(x) + 1, n)))
  <1> DEFINE r == NewExecution(path, "TOKEN", None)
             y == Append(x, r)
             e == Len(x) + 1
  <1>1. r.role = "TOKEN"
    BY DEF NewExecution
  <1>2. /\ DOMAIN y = DOMAIN x \cup {e} /\ e \notin DOMAIN x
        /\ (\A i \in DOMAIN x : y[i] = x[i]) /\ y[e] = r
    BY Appended
  <1> HIDE DEF y, e, r
  <1>3. Placed(y, t, Pend(j), a, q)
    BY <1>2, ExtendedPlaced DEF Ready
  <1>4. Idle(e, t, Pend(j), a, q)
    BY <1>2, FreshIdle DEF Ready
  <1>5. y[e].role = "TOKEN"
    BY <1>1, <1>2
  <1>6. Placed(y, t, Pend(j), a, Append(q, Enter(e, n))) /\ OnlyEnters(Append(q, Enter(e, n)))
    BY <1>3, <1>4, <1>5, Enqueued DEF Ready
  <1>7. ScopesShut(y)
    BY <1>2, <1>5 DEF Ready, ScopesShut, Shut
  <1> QED BY <1>6, <1>7 DEF Ready, y, e, r

LEMMA EnterSubprocessSettled ==
  ASSUME IInv, PInv, ~Raises, EnterSubprocess
  PROVE  Settled /\ joins' = joins
  <1> DEFINE s == [Opened EXCEPT ![Tok].role = "SCOPE"]
             x == Append(s, NewExecution(<<Tok>> \o ex[Tok].path, "TOKEN", None))
             j == WithBoundaries(jobs, Tok, At) \cup EventTimers(Tok, At)
             q == Append(Rest, Enter(Len(x), Proc.start[At]))
  <1>1. /\ Pumping /\ ex[Tok].live /\ Mode \in {"enter", "resume"} /\ Kind(At) = "sub"
        /\ UNCHANGED <<tasks, joins>>
    BY DEF EnterSubprocess, Behaves
  <1>2. cmd # NoCmd /\ cmd' # NoCmd
    BY <1>1, PumpKeepsLock
  <1>3. Continue(x, j, q)
    BY <1>2 DEF EnterSubprocess, Raise
  <1>4. /\ Tree(Opened) /\ Tok \in DOMAIN Opened /\ Opened[Tok] \in ExecutionIn(Opened)
        /\ Opened[Tok].act = At
        /\ Ready(Opened, tasks, jobs, joins, Rest) /\ Rest \in Seq(EventIn(Opened))
        /\ Idle(Tok, tasks, Pend(jobs), joins, Rest)
    BY <1>1, Arrived, TreeDomain DEF Pending
  <1>5. /\ DOMAIN s = DOMAIN Opened
        /\ \A i \in DOMAIN Opened \ {Tok} : s[i] = Opened[i]
        /\ s[Tok].act = At
    BY <1>4 DEF ExecutionIn
  <1>6. Grows(Opened, s)
    BY <1>4, SetRole
  <1> HIDE DEF s
  <1>7. Tree(s) /\ Rest \in Seq(EventIn(s))
    BY <1>4, <1>5, <1>6, InMonotone DEF Grows
  <1>8. Ready(s, tasks, jobs, joins, Rest)
    <2>1. \A i \in DOMAIN Rest : Rest[i].ex \in DOMAIN Opened
      BY <1>4, QueueIn
    <2>2. Placed(s, tasks, Pend(jobs), joins, Rest)
      BY <1>4, <1>5, <2>1, IdleChanges DEF Ready
    <2>3. ScopesShut(s)
      BY <1>1, <1>4, <1>5 DEF Ready, ScopesShut, Shut
    <2> QED BY <1>4, <2>2, <2>3 DEF Ready
  <1>9. Len(x) = Len(s) + 1
    BY <1>7, Appended
  <1>10. Ready(x, tasks, jobs, joins, q)
    BY <1>7, <1>8, <1>9, ChildEnters
  <1>11. Pend(j) = Pend(jobs)
    BY PendBoundaries, PendTimers
  <1> HIDE DEF x, j, q
  <1>12. Ready(x, tasks, j, joins, q)
    BY <1>10, <1>11 DEF Ready
  <1> QED BY <1>1, <1>2, <1>3, <1>12, ContinueSettled

-----------------------------------------------------------------------------
\* A node has finitely many incoming flows.
LEMMA IncomingFinite ==
  ASSUME NEW g
  PROVE  IsFiniteSet(Incoming(g))
  <1> DEFINE Flows(m) == {m} \X DOMAIN Out(m)
             All == {Flows(m) : m \in Nodes}
  <1>1. ASSUME NEW m \in Nodes PROVE IsFiniteSet(Flows(m))
    <2>1. Len(Out(m)) \in Nat /\ DOMAIN Out(m) = 1..Len(Out(m))
      BY OutNodes
    <2>2. IsFiniteSet(DOMAIN Out(m))
      BY <2>1, FS_Interval
    <2>3. IsFiniteSet({m})
      BY FS_Singleton
    <2> QED BY <2>2, <2>3, FS_Product
  <1>2. IsFiniteSet(Nodes)
    BY ProcAssumption DEF ProcAssumption
  <1> HIDE DEF Flows
  <1>3. IsFiniteSet(All)
    <2> DEFINE f == [m \in Nodes |-> Flows(m)]
    <2>1. f \in Surjection(Nodes, All)
      BY DEF Surjection
    <2> QED BY <1>2, <2>1, FS_Surjection
  <1>4. \A F \in All : IsFiniteSet(F)
    BY <1>1
  <1>5. IsFiniteSet(UNION All)
    BY <1>3, <1>4, FS_UNION
  <1>6. Incoming(g) \subseteq UNION All
    BY DEF Incoming, Flows
  <1> QED BY <1>5, <1>6, FS_Subset

\* Fewer arrivals are not enough either.
LEMMA FewerArrivals ==
  ASSUME IInv, PInv, joins' \subseteq joins
  PROVE  NeverEnough'
  <1>1. ASSUME NEW w \in joins' PROVE Cardinality(Arrivals(w.node)') < Cardinality(Incoming(w.node))
    <2>1. w \in joins /\ IsFiniteSet(joins)
      BY <1>1 DEF IInv
    <2>2. Arrivals(w.node)' \subseteq Arrivals(w.node) /\ Arrivals(w.node) \subseteq joins
      BY DEF Arrivals
    <2>3. IsFiniteSet(Arrivals(w.node))
      BY <2>1, <2>2, FS_Subset
    <2>4. /\ Cardinality(Arrivals(w.node)') <= Cardinality(Arrivals(w.node))
          /\ Cardinality(Arrivals(w.node)) \in Nat
          /\ Cardinality(Arrivals(w.node)') \in Nat
      BY <2>2, <2>3, FS_Subset, FS_CardinalityType
    <2>5. Cardinality(Arrivals(w.node)) < Cardinality(Incoming(w.node))
      BY <2>1 DEF PInv, NeverEnough
    <2>6. Cardinality(Incoming(w.node)) \in Nat
      BY IncomingFinite, FS_CardinalityType
    <2> QED BY <2>4, <2>5, <2>6
  <1> QED BY <1>1 DEF NeverEnough

LEMMA WaitAtJoinSettled ==
  ASSUME IInv, PInv, ~Raises, WaitAtJoin
  PROVE  Settled /\ NeverEnough'
  <1> DEFINE w == NewArrival(At, Tok)
  <1>1. /\ Pumping /\ ex[Tok].live /\ Mode \in {"enter", "resume"} /\ Kind(At) = "parallel"
        /\ tasks' = tasks /\ joins' = joins \cup {w}
        /\ Continue(Moved, jobs, Rest)
        /\ Cardinality(Arrivals(At)) + 1 < Cardinality(Incoming(At))
    BY PumpKeepsLock DEF WaitAtJoin, Behaves, Raise
  <1>2. w.ex = Tok /\ w.node = At
    BY DEF NewArrival
  <1> HIDE DEF w
  <1>3. /\ Ready(Moved, tasks, jobs, joins, Rest) /\ cmd # NoCmd
        /\ Idle(Tok, tasks, Pend(jobs), joins, Rest)
        /\ Tok \in DOMAIN Moved /\ Moved[Tok].live /\ Moved[Tok].role = "TOKEN" /\ Moved[Tok].act = At
    BY <1>1, Arrived, Popped DEF Pending
  <1>4. JoinStands(Moved, w)
    BY <1>1, <1>2, <1>3 DEF JoinStands, Stands
  <1>5. Ready(Moved, tasks, jobs, joins \cup {w}, Rest)
    BY <1>2, <1>3, <1>4, Waits1 DEF Ready
  <1>6. Settled
    BY <1>1, <1>3, <1>5, ContinueSettled
  <1>7. ASSUME NEW v \in joins'
        PROVE  Cardinality(Arrivals(v.node)') < Cardinality(Incoming(v.node))
    <2>1. Arrivals(At) \subseteq joins /\ IsFiniteSet(joins)
      BY DEF Arrivals, IInv
    <2>2. IsFiniteSet(Arrivals(At)) /\ Cardinality(Arrivals(At)) \in Nat
      BY <2>1, FS_Subset, FS_CardinalityType
    <2>3. CASE v.node = At
      <3>2. /\ Cardinality(Arrivals(At) \cup {w}) <= Cardinality(Arrivals(At)) + 1
            /\ Cardinality(Arrivals(At) \cup {w}) \in Nat
        <4>1. IsFiniteSet(Arrivals(At) \cup {w})
              /\ Cardinality(Arrivals(At) \cup {w}) =
                   IF w \in Arrivals(At) THEN Cardinality(Arrivals(At)) ELSE Cardinality(Arrivals(At)) + 1
          BY <2>2, FS_AddElement
        <4> QED BY <2>2, <4>1
      <3>3. Cardinality(Incoming(At)) \in Nat
        BY IncomingFinite, FS_CardinalityType
      <3>4. Arrivals(v.node)' = Arrivals(At) \cup {w}
        BY <1>1, <1>2, <2>3 DEF Arrivals
      <3> QED BY <1>1, <2>2, <2>3, <3>2, <3>3, <3>4
    <2>4. CASE v.node # At
      <3>1. v \in joins
        BY <1>1, <1>2, <1>7, <2>4
      <3>2. Arrivals(v.node)' = Arrivals(v.node)
        BY <1>1, <1>2, <2>4 DEF Arrivals
      <3>3. Cardinality(Arrivals(v.node)) < Cardinality(Incoming(v.node))
        BY <3>1 DEF PInv, NeverEnough
      <3> QED BY <3>2, <3>3
    <2> QED BY <2>3, <2>4
  <1>8. NeverEnough'
    BY <1>7 DEF NeverEnough
  <1> QED BY <1>6, <1>8

\* What the join of a gateway ends holds nothing but its arrivals.
LEMMA ArrivalsLeave ==
  ASSUME NEW x, NEW t, NEW p, NEW q, Placed(x, t, p, joins, q), NEW e, Idle(e, t, p, joins, q), NEW g
  PROVE  /\ Placed(x, t, p, joins \ Arrivals(g), q)
         /\ Idle(e, t, p, joins \ Arrivals(g), q)
         /\ \A d \in {e} \cup {w.ex : w \in Arrivals(g)} : Unheld(d, t, p, joins \ Arrivals(g))
  <1>1. Placed(x, t, p, joins \ Arrivals(g), q)
    BY FewerHeld
  <1>2. Unheld(e, t, p, joins) /\ \A i \in DOMAIN q : q[i].ex # e
    BY IdleUnheld
  <1>3. Unheld(e, t, p, joins \ Arrivals(g))
    BY <1>2 DEF Unheld
  <1>4. Idle(e, t, p, joins \ Arrivals(g), q)
    BY <1>2, <1>3 DEF Idle
  <1>5. ASSUME NEW w \in Arrivals(g) PROVE Unheld(w.ex, t, p, joins \ Arrivals(g))
    <2>1. w \in joins
      BY DEF Arrivals
    <2> QED BY <2>1 DEF Placed, Held, Single, Apart, Unheld
  <1> QED BY <1>1, <1>3, <1>4, <1>5

\* What has another role than a token's is idle.
LEMMA ScopeIdle ==
  ASSUME NEW x, NEW t, NEW p, NEW a, NEW q, Placed(x, t, p, a, q), NEW e, x[e].role # "TOKEN"
  PROVE  Idle(e, t, p, a, q)
  <1>1. Unheld(e, t, p, a)
    BY DEF Unheld, Placed, Held, TaskStands, JobStands, JoinStands, Stands
  <1>2. \A i \in DOMAIN q : q[i].ex # e
    BY DEF Placed, Moves
  <1> QED BY <1>1, <1>2 DEF Idle

LEMMA PassGatewaySettled ==
  ASSUME IInv, PInv, ~Raises, PassGateway
  PROVE  Settled /\ joins' \subseteq joins
  <1>1. Behaves({"parallel"}) /\ tasks' = tasks
    BY DEF PassGateway
  <1>2. /\ At \in Nodes /\ Tree(Closed) /\ Tok \in DOMAIN Closed
        /\ Ready(Closed, tasks, jobs, joins, Rest)
        /\ Rest \in Seq(EventIn(Closed))
        /\ Idle(Tok, tasks, Pend(jobs), joins, Rest)
        /\ cmd # NoCmd /\ cmd' # NoCmd
    BY <1>1, ClosedReady, PumpKeepsLock
  <1>3. CASE Leave(Closed, jobs, Rest, Tok, At) /\ joins' = joins
    BY <1>1, <1>3, LeavesSettled
  <1> DEFINE D == {Tok} \cup {w.ex : w \in Arrivals(At)}
             x == Ended(Closed, D)
             y(e) == [x EXCEPT ![e].role = "TOKEN"]
             a == joins \ Arrivals(At)
             p == Pend(jobs)
  <1>4. CASE joins' = a /\ \E e \in JoinActors(x, Tok) : Leave(y(e), jobs, Rest, e, At)
    <2>1. PICK e \in JoinActors(x, Tok) : Leave(y(e), jobs, Rest, e, At)
      BY <1>4
    <2>2. /\ Placed(Closed, tasks, p, a, Rest)
          /\ Idle(Tok, tasks, p, a, Rest)
          /\ \A d \in D : Unheld(d, tasks, p, a)
      BY <1>2, ArrivalsLeave DEF Ready
    <2>3. ScopesShut(Closed) /\ OnlyEnters(Rest)
      BY <1>2 DEF Ready
    <2>4. Tok \in D
      OBVIOUS
    <2> HIDE DEF D, a, p
    <2>5. Placed(x, tasks, p, a, Rest) /\ ScopesShut(x)
      BY <1>2, <2>2, <2>3, EndedPlaced
    <2>6. Grows(Closed, x)
      BY <1>2, EndedTree
    <2>7. DOMAIN x = DOMAIN Closed /\ ~x[Tok].live
      BY <1>2, <2>4, TreeDomain DEF Ended, ExecutionIn
    <2> HIDE DEF x
    <2>8. Tree(x) /\ Rest \in Seq(EventIn(x)) /\ Tok \in DOMAIN x
      BY <1>2, <2>6, <2>7, InMonotone DEF Grows
    <2>9. e \in DOMAIN x
      BY <2>1, <2>8, JoinActorsIn
    <2>10. e = Tok \/ x[e].role # "TOKEN"
      BY <2>1 DEF JoinActors
    <2>11. Idle(e, tasks, p, a, Rest)
      BY <2>2, <2>5, <2>10, ScopeIdle
    <2>12. Shut(x, e)
      BY <2>5, <2>7, <2>9, <2>10 DEF ScopesShut, Shut
    <2> DEFINE z == y(e)
    <2>13. x[e] \in ExecutionIn(x)
      BY <2>8, <2>9, TreeDomain
    <2>14. /\ DOMAIN z = DOMAIN x
           /\ \A i \in DOMAIN x \ {e} : z[i] = x[i]
           /\ z[e].role = "TOKEN" /\ z[e].live = x[e].live /\ z[e].act = x[e].act /\ z[e].open = x[e].open
      BY <2>9, <2>13 DEF ExecutionIn
    <2>15. Grows(x, z) /\ Leave(z, jobs, Rest, e, At)
      BY <2>1, <2>8, SetRole
    <2> HIDE DEF z
    <2>16. Tree(z) /\ Rest \in Seq(EventIn(z)) /\ e \in DOMAIN z
      BY <2>8, <2>9, <2>14, <2>15, InMonotone DEF Grows
    <2>17. Placed(z, tasks, p, a, Rest)
      <3>1. \A i \in DOMAIN Rest : Rest[i].ex \in DOMAIN x
        BY <2>8, QueueIn
      <3> QED BY <2>5, <2>11, <2>14, <3>1, IdleChanges
    <2>18. ScopesShut(z) /\ Shut(z, e)
      BY <2>5, <2>12, <2>14 DEF ScopesShut, Shut
    <2>19. Ready(z, tasks, jobs, a, Rest) /\ Idle(e, tasks, Pend(jobs), a, Rest)
      BY <2>3, <2>11, <2>17, <2>18 DEF Ready, p
    <2>20. Settled
      BY <1>1, <1>2, <1>4, <2>14, <2>15, <2>16, <2>18, <2>19, LeaveSettled
    <2> QED BY <1>4, <2>20 DEF a
  <1> QED BY <1>3, <1>4 DEF PassGateway

-----------------------------------------------------------------------------
\* What takes a scope over opens no task of another scope.
LEMMA TakenOverShut ==
  ASSUME NEW x, Tree(x), ScopesShut(x), NEW host \in DOMAIN x, NEW scope
  PROVE  ScopesShut(TakenOver(x, host, scope))
  <1> DEFINE k == Killed(x, Below(x, host))
             y == TakenOver(x, host, scope)
  <1>1. /\ DOMAIN k = DOMAIN x
        /\ \A i \in DOMAIN x : k[i] = x[i] \/ k[i] = [x[i] EXCEPT !.live = FALSE, !.open = None]
    BY DEF Killed
  <1>2. \A i \in DOMAIN x : x[i] \in ExecutionIn(x)
    BY TreeDomain
  <1> HIDE DEF k
  <1>3. ASSUME NEW i \in DOMAIN x
        PROVE  k[i] \in ExecutionIn(x) /\ k[i].role = x[i].role /\ (k[i] = x[i] \/ ~k[i].live)
    <2>1. ASSUME NEW u \in ExecutionIn(x), NEW v, v = [u EXCEPT !.live = FALSE, !.open = None]
          PROVE  v \in ExecutionIn(x) /\ v.role = u.role /\ ~v.live
      BY <2>1 DEF ExecutionIn
    <2> QED BY <1>1, <1>2, <2>1
  <1>4. /\ DOMAIN y = DOMAIN k
        /\ \A i \in DOMAIN k : y[i] = k[i] \/ (i = host /\ y[i].role = "TOKEN")
    <2>1. y = IF scope = Top
              THEN [k EXCEPT ![host].open = None, ![host].act = None, ![host].role = "TOKEN"]
              ELSE k
      BY DEF TakenOver, k
    <2> HIDE DEF y
    <2>2. k[host] \in ExecutionIn(x)
      BY <1>3
    <2> QED BY <1>1, <2>1, <2>2 DEF ExecutionIn
  <1> HIDE DEF y
  <1>5. ASSUME NEW i \in DOMAIN y, y[i].role # "TOKEN" PROVE Shut(y, i)
    <2>1. i \in DOMAIN x /\ y[i] = k[i]
      BY <1>1, <1>4, <1>5
    <2>2. k[i].role = x[i].role /\ (k[i] = x[i] \/ ~k[i].live)
      BY <1>3, <2>1
    <2>3. Shut(x, i)
      BY <1>5, <2>1, <2>2 DEF ScopesShut
    <2> QED BY <2>1, <2>2, <2>3 DEF Shut
  <1> QED BY <1>5 DEF ScopesShut, y

\* Taking a scope over frees all that it ends.
LEMMA TakenOverPlaced ==
  ASSUME NEW x, Tree(x), NEW t, NEW p, NEW a, NEW q, Placed(x, t, p, a, q), ScopesShut(x),
         q \in Seq(EventIn(x)), NEW host \in DOMAIN x, NEW scope, NEW dead,
         dead = Victims(x, host, scope),
         NEW t2, t2 \subseteq Without(t, dead), NEW p2, p2 \subseteq Without(p, dead),
         NEW a2, a2 = IF scope = Top THEN {} ELSE Without(a, dead)
  PROVE  Placed(TakenOver(x, host, scope), t2, p2, a2, q)
  <1> DEFINE D == Below(x, host)
             k == Killed(x, D)
             y == [k EXCEPT ![host].open = None, ![host].act = None, ![host].role = "TOKEN"]
  <1>1. TakenOver(x, host, scope) = IF scope = Top THEN y ELSE k
    BY DEF TakenOver
  <1>2. D \subseteq dead /\ (scope = Top => host \in dead)
    BY DEF Victims
  <1>3. k[host] \in ExecutionIn(k) /\ host \in DOMAIN k
    <2>1. Tree(k) /\ DOMAIN x \subseteq DOMAIN k
      BY KilledTree DEF Grows
    <2> QED BY <2>1, TreeDomain
  <1> HIDE DEF D
  <1>4. t2 \subseteq Without(t, D) /\ p2 \subseteq Without(p, D) /\ a2 \subseteq Without(a, D)
    BY <1>2 DEF Without
  <1>5. Placed(k, t2, p2, a2, q)
    BY <1>4, KilledPlaced
  <1> HIDE DEF k
  <1>6. /\ DOMAIN y = DOMAIN k
        /\ \A i \in DOMAIN k \ {host} : y[i] = k[i]
        /\ y[host].role = "TOKEN" /\ y[host].live = k[host].live
    BY <1>3 DEF ExecutionIn
  <1> HIDE DEF y
  <1>7. ASSUME scope = Top PROVE Placed(y, t2, p2, a2, q)
    <2>1. Unheld(host, t2, p2, a2)
      BY <1>2, <1>7 DEF Unheld, Without
    <2>2. \A e \in DOMAIN k : Unheld(e, t2, p2, a2) \/ (e \in DOMAIN y /\ y[e] = k[e])
      BY <1>6, <2>1
    <2>3. \A i \in DOMAIN q : q[i].ex \in DOMAIN k
      <3>1. DOMAIN x \subseteq DOMAIN k
        BY KilledTree DEF Grows, k
      <3> QED BY <3>1, QueueIn
    <2>4. \A i \in DOMAIN q : y[q[i].ex].role = "TOKEN" /\ (y[q[i].ex].live => k[q[i].ex].live)
      BY <1>5, <1>6, <2>3 DEF Placed, Moves
    <2> QED BY <1>5, <2>2, <2>4, OthersChange
  <1> QED BY <1>1, <1>5, <1>7

\* What an event subprocess adds to the tree.
LEMMA EventSubprocessShape ==
  ASSUME NEW x, Tree(x), NEW host \in DOMAIN x, NEW s
  PROVE  LET y == WithEventSubprocess(x, host, s)
         IN  /\ DOMAIN y = DOMAIN x \cup {Len(x) + 1, Len(x) + 2}
             /\ \A i \in DOMAIN x : y[i] = x[i]
             /\ Len(x) + 1 \notin DOMAIN x /\ Len(x) + 2 \notin DOMAIN x
             /\ y[Len(x) + 1].act = Home(s)
             /\ y[Len(x) + 2].role = "TOKEN"
  <1> DEFINE path == <<host>> \o x[host].path
             scope == NewExecution(path, "SCOPE", Home(s))
             u == [scope EXCEPT !.open = Home(s)]
             v == NewExecution(<<Len(x) + 1>> \o path, "TOKEN", None)
             y == x \o <<u, v>>
             S == {u, v}
  <1>1. WithEventSubprocess(x, host, s) = y
    BY DEF WithEventSubprocess, NewExecution
  <1>2. u.act = Home(s) /\ v.role = "TOKEN"
    BY DEF NewExecution
  <1>3. Len(x) \in Nat /\ DOMAIN x = 1..Len(x)
    BY TreeDomain
  <1> HIDE DEF u, v
  <1>4. <<u, v>> \in Seq(S) /\ Len(<<u, v>>) = 2 /\ <<u, v>>[1] = u /\ <<u, v>>[2] = v
    OBVIOUS
  <1> HIDE DEF S
  <1>5. DOMAIN y = 1..(Len(x) + Len(<<u, v>>))
    BY <1>4, ConcatDomain
  <1>6. \A i \in DOMAIN x : y[i] = x[i]
    BY <1>4, ConcatDomain
  <1>7. \A i \in 1..Len(<<u, v>>) : y[Len(x) + i] = <<u, v>>[i]
    BY <1>4, ConcatDomain
  <1> HIDE DEF y
  <1>8. y[Len(x) + 1] = u /\ y[Len(x) + 2] = v
    BY <1>4, <1>7
  <1>9. DOMAIN y = DOMAIN x \cup {Len(x) + 1, Len(x) + 2}
    BY <1>3, <1>4, <1>5
  <1> QED BY <1>1, <1>2, <1>3, <1>6, <1>8, <1>9

\* The token of an event subprocess is to enter its start.
LEMMA EventSubprocessEnters ==
  ASSUME NEW x, Tree(x), NEW t, NEW p, NEW a, NEW q, Placed(x, t, p, a, q), ScopesShut(x),
         OnlyEnters(q), q \in Seq(EventIn(x)), NEW host \in DOMAIN x, NEW s, Kind(Home(s)) = "esub"
  PROVE  LET y == WithEventSubprocess(x, host, s)
             r == Append(q, Enter(Len(x) + 2, s))
         IN  Placed(y, t, p, a, r) /\ ScopesShut(y) /\ OnlyEnters(r)
  <1> DEFINE y == WithEventSubprocess(x, host, s)
             e == Len(x) + 2
  <1>1. /\ DOMAIN y = DOMAIN x \cup {Len(x) + 1, e}
        /\ \A i \in DOMAIN x : y[i] = x[i]
        /\ e \notin DOMAIN x
        /\ y[Len(x) + 1].act = Home(s)
        /\ y[e].role = "TOKEN"
    BY EventSubprocessShape
  <1> HIDE DEF y, e
  <1>2. Placed(y, t, p, a, q)
    BY <1>1, ExtendedPlaced
  <1>3. Idle(e, t, p, a, q)
    BY <1>1, FreshIdle
  <1>4. Placed(y, t, p, a, Append(q, Enter(e, s))) /\ OnlyEnters(Append(q, Enter(e, s)))
    BY <1>1, <1>2, <1>3, Enqueued
  <1>5. ASSUME NEW i \in DOMAIN y, y[i].role # "TOKEN" PROVE Shut(y, i)
    BY <1>1, <1>5 DEF ScopesShut, Shut
  <1> QED BY <1>4, <1>5 DEF ScopesShut, y, e

LEMMA ThrowErrorSettled ==
  ASSUME IInv, PInv, ThrowError
  PROVE  Settled /\ joins' \subseteq joins
  <1> DEFINE x == IF Tok = Root THEN Closed ELSE Ended(Closed, {Tok})
  <1>1. Behaves({"end"})
    BY DEF ThrowError
  <1>2. /\ Tree(Closed) /\ Tok \in DOMAIN Closed /\ Root \in DOMAIN Closed /\ Len(Closed) = Len(ex)
        /\ Ready(Closed, tasks, jobs, joins, Rest) /\ Rest \in Seq(EventIn(Closed))
        /\ Idle(Tok, tasks, Pend(jobs), joins, Rest)
        /\ cmd # NoCmd
    <2>1. Pumping
      BY <1>1, ClosedReady
    <2>2. Root \in DOMAIN Closed
      BY <2>1, HeadEvent DEF Prepared, Grows
    <2> QED BY <1>1, <2>1, <2>2, ClosedReady, HeadEvent, Popped
  <1>3. PICK c \in Catchers(Closed, Tok, Proc.code[At]) :
          /\ Continue(WithEventSubprocess(TakenOver(x, c.host, c.scope), c.host, c.start),
                      DropEventTimers(Without(jobs, Victims(x, c.host, c.scope)), c.host, c.scope)
                        \cup EventTimers(Len(ex) + 1, Home(c.start)),
                      Append(Rest, Enter(Len(ex) + 2, c.start)))
          /\ tasks' = Without(tasks, Victims(x, c.host, c.scope))
          /\ joins' = JoinsTakenOver(Victims(x, c.host, c.scope), c.scope)
    BY DEF ThrowError
  <1>4. c.host \in DOMAIN Closed /\ Kind(Home(c.start)) = "esub"
    BY <1>2, CatchersIn
  <1>5. /\ Placed(x, tasks, Pend(jobs), joins, Rest) /\ ScopesShut(x)
        /\ Grows(Closed, x) /\ Len(x) = Len(ex)
    <2>1. CASE Tok = Root
      BY <1>2, <2>1, GrowsReflexive DEF Ready
    <2>2. CASE Tok # Root
      <3>1. \A e \in {Tok} : Unheld(e, tasks, Pend(jobs), joins)
        BY <1>2, IdleUnheld
      <3>2. Placed(Ended(Closed, {Tok}), tasks, Pend(jobs), joins, Rest) /\ ScopesShut(Ended(Closed, {Tok}))
        BY <1>2, <3>1, EndedPlaced DEF Ready
      <3> QED BY <1>2, <2>2, <3>2, EndedTree
    <2> QED BY <2>1, <2>2
  <1> HIDE DEF x
  <1>6. Tree(x) /\ Rest \in Seq(EventIn(x)) /\ c.host \in DOMAIN x
    BY <1>2, <1>4, <1>5, InMonotone DEF Grows
  <1> DEFINE dead == Victims(x, c.host, c.scope)
             z == TakenOver(x, c.host, c.scope)
             y == WithEventSubprocess(z, c.host, c.start)
             k == Without(jobs, dead)
             d == DropEventTimers(k, c.host, c.scope)
             j == d \cup EventTimers(Len(ex) + 1, Home(c.start))
             r == Append(Rest, Enter(Len(ex) + 2, c.start))
  <1>7. Continue(y, j, r) /\ tasks' = Without(tasks, dead) /\ joins' = JoinsTakenOver(dead, c.scope)
    BY <1>3
  <1>8. Pend(j) \subseteq Without(Pend(jobs), dead)
    <2>1. Pend(j) \subseteq Pend(d)
      BY PendTimers
    <2>2. d \subseteq k
      BY DropsOnly
    <2> HIDE DEF d, j
    <2> QED BY <2>1, <2>2 DEF Pend, Without
  <1>9. joins' = IF c.scope = Top THEN {} ELSE Without(joins, dead)
    BY <1>7 DEF JoinsTakenOver
  <1>10. Grows(x, z) /\ Len(z) = Len(x)
    BY <1>6, TakenOverTree
  <1>11. y = WithEventSubprocess(z, c.host, c.start) /\ dead = Victims(x, c.host, c.scope)
    OBVIOUS
  <1> HIDE DEF dead, k, d, j, y
  <1>12. Placed(z, tasks', Pend(j), joins', Rest) /\ ScopesShut(z)
    <2>1. tasks' \subseteq Without(tasks, dead)
      BY <1>7
    <2>2. Placed(TakenOver(x, c.host, c.scope), tasks', Pend(j), joins', Rest)
      BY <1>5, <1>6, <1>8, <1>9, <1>11, <2>1, TakenOverPlaced
    <2>3. ScopesShut(TakenOver(x, c.host, c.scope))
      BY <1>5, <1>6, TakenOverShut
    <2> QED BY <2>2, <2>3
  <1> HIDE DEF z
  <1>13. Tree(z) /\ c.host \in DOMAIN z /\ Rest \in Seq(EventIn(z)) /\ OnlyEnters(Rest)
    BY <1>2, <1>6, <1>10, InMonotone DEF Grows, Ready
  <1>14. Placed(y, tasks', Pend(j), joins', r) /\ ScopesShut(y) /\ OnlyEnters(r)
    BY <1>4, <1>5, <1>10, <1>11, <1>12, <1>13, EventSubprocessEnters
  <1> HIDE DEF r
  <1>15. Ready(y, tasks', j, joins', r)
    BY <1>14 DEF Ready
  <1>16. Settled
    BY <1>2, <1>7, <1>15, ContinueSettled
  <1>17. joins' \subseteq joins
    BY <1>7, JoinsTakenOverIn
  <1> QED BY <1>16, <1>17

\* Every event of the queue.
LEMMA PumpSettled ==
  ASSUME IInv, PInv, ~Raises, Pump
  PROVE  Settled /\ NeverEnough'
  <1>1. CASE WaitAtJoin
    BY <1>1, WaitAtJoinSettled
  <1>2. CASE ~WaitAtJoin
    <2>1. Settled /\ joins' \subseteq joins
      BY <1>2, DropEventSettled, ScheduleAsyncBeforeSettled, StraightSettled, ThrowErrorSettled,
         EnterUserTaskWaitSettled, EnterTimerCatchSettled, EnterSubprocessSettled,
         PassGatewaySettled, DepartNodeSettled
      DEF Pump
    <2> QED BY <2>1, FewerArrivals
  <1> QED BY <1>1, <1>2

-----------------------------------------------------------------------------
\* The steps of _collapse_scopes.
LEMMA CollapseSettled ==
  ASSUME IInv, PInv, ~Raises, Collapse
  PROVE  Settled /\ joins' = joins
  <1>1. collapsing /\ ~Return
    BY DEF Collapse, CollapseSubprocess, CollapseFork, FinishCollapse, Return
  <1>2. cmd # NoCmd /\ cmd' # NoCmd
    BY <1>1 DEF PInv, AtRest, Raises
  <1>3. /\ Placed(ex, tasks, Pend(jobs), joins, queue) /\ ScopesShut(ex) /\ OnlyEnters(queue)
        /\ Tree(ex) /\ queue \in Seq(EventIn(ex))
    BY <1>1 DEF PInv, FirstEvent, IInv, Pending
  <1>4. Ready(ex, tasks, jobs, joins, queue)
    BY <1>3 DEF Ready
  <1>5. ASSUME NEW e \in DOMAIN ex, CollapseSubprocess(e) PROVE Settled /\ joins' = joins
    <2> DEFINE n == ex[e].act
               x == [ex EXCEPT ![e].open = None, ![e].role = "TOKEN"]
               b == DropBoundaries(jobs, n)
               j == DropEventTimers(b, e, n)
    <2>1. /\ Leave(x, j, queue, e, n) /\ tasks' = tasks /\ joins' = joins /\ n \in Nodes
          /\ ex[e].role # "TOKEN"
      BY <1>5 DEF CollapseSubprocess, Collapsible
    <2>2. Idle(e, tasks, Pend(jobs), joins, queue)
      BY <1>3, <2>1, ScopeIdle
    <2>3. Pend(j) \subseteq Pend(jobs)
      BY DropsOnly DEF Pend
    <2>4. ex[e] \in ExecutionIn(ex)
      BY <1>3, TreeDomain
    <2>5. /\ DOMAIN x = DOMAIN ex
          /\ \A i \in DOMAIN ex \ {e} : x[i] = ex[i]
          /\ x[e].role = "TOKEN" /\ x[e].open = None /\ x[e] \in ExecutionIn(ex)
      BY <2>4 DEF ExecutionIn
    <2>6. Tree(x)
      <3> DEFINE x1 == [ex EXCEPT ![e].open = None]
      <3>1. Tree(x1)
        BY <1>3, SetOpen DEF Grows
      <3>2. x = [x1 EXCEPT ![e].role = "TOKEN"]
        OBVIOUS
      <3> HIDE DEF x1, x
      <3>3. Grows(x1, x)
        BY <3>1, <3>2, SetRole
      <3> QED BY <3>3 DEF Grows
    <2> HIDE DEF x, j, n
    <2>7. queue \in Seq(EventIn(x))
      BY <1>3, <2>5, InMonotone
    <2>8. Placed(x, tasks, Pend(jobs), joins, queue)
      BY <1>3, <2>2, <2>5, IdleChanges, QueueIn
    <2>9. ScopesShut(x) /\ Shut(x, e)
      BY <1>3, <2>5 DEF ScopesShut, Shut
    <2>10. Placed(x, tasks, Pend(j), joins, queue)
      BY <2>3, <2>8, FewerHeld
    <2>11. Idle(e, tasks, Pend(j), joins, queue)
      BY <2>2, <2>3 DEF Idle, Unheld
    <2>12. Ready(x, tasks, j, joins, queue)
      BY <1>3, <2>9, <2>10 DEF Ready
    <2>13. e \in DOMAIN x
      BY <2>5
    <2>14. Settled
      BY <1>2, <2>1, <2>5, <2>6, <2>7, <2>9, <2>11, <2>12, <2>13, LeaveSettled
    <2> QED BY <2>1, <2>14
  <1>6. ASSUME NEW e \in DOMAIN ex, CollapseFork(e) PROVE Settled /\ joins' = joins
    <2>1. /\ tasks' = tasks /\ joins' = joins /\ ex[e].role # "TOKEN"
          /\ e = Root => Children(ex, Root) = {}
          /\ EndToken(ex, jobs, queue, e) \/ Continue(Ended(ex, {e}), jobs, queue)
      BY <1>6 DEF CollapseFork, Collapsible, EndToken
    <2>2. Idle(e, tasks, Pend(jobs), joins, queue)
      BY <1>3, <2>1, ScopeIdle
    <2>3. CASE EndToken(ex, jobs, queue, e)
      BY <1>2, <1>3, <1>4, <2>1, <2>2, <2>3, EndTokenSettled
    <2>4. CASE Continue(Ended(ex, {e}), jobs, queue)
      <3>1. \A i \in {e} : Unheld(i, tasks, Pend(jobs), joins)
        BY <2>2, IdleUnheld
      <3>2. Placed(Ended(ex, {e}), tasks, Pend(jobs), joins, queue) /\ ScopesShut(Ended(ex, {e}))
        BY <1>3, <3>1, EndedPlaced
      <3>3. Ready(Ended(ex, {e}), tasks, jobs, joins, queue)
        BY <1>3, <3>2 DEF Ready
      <3> QED BY <1>2, <2>1, <2>4, <3>3, ContinueSettled
    <2> QED BY <2>1, <2>3, <2>4
  <1>7. ASSUME FinishCollapse PROVE Settled /\ joins' = joins
    <2>1. /\ tasks' = tasks /\ joins' = joins /\ queue' = queue /\ cmd' = cmd
          /\ jobs' \subseteq jobs
          /\ ex' = ex \/ (ex' = Ended(ex, {Root}) /\ ex[Root].act = None)
      BY <1>7 DEF FinishCollapse
    <2>2. Pending' \subseteq Pend(jobs)
      BY <2>1 DEF Pending, Pend
    <2>3. ASSUME ex[Root].act = None PROVE Unheld(Root, tasks, Pend(jobs), joins)
      <3>1. None \notin Nodes
        BY ProcAssumption DEF ProcAssumption
      <3>2. ASSUME NEW A \in {tasks, Pend(jobs), joins}, NEW u \in A PROVE u.node \in Nodes /\ ex[u.ex].act = u.node
        <4>1. u.node \in Nodes
          BY <3>2 DEF IInv, TaskIn, JobIn, Job, Arrival, Pend
        <4>2. ex[u.ex].act = u.node
          BY <1>3, <3>2 DEF Placed, Held, TaskStands, JobStands, JoinStands, Stands
        <4> QED BY <4>1, <4>2
      <3> QED BY <2>3, <3>1, <3>2 DEF Unheld
    <2>4. Placed(ex', tasks, Pend(jobs), joins, queue) /\ ScopesShut(ex')
      <3>1. CASE ex' = ex
        BY <1>3, <3>1
      <3>2. CASE ex' = Ended(ex, {Root}) /\ ex[Root].act = None
        <4>1. \A i \in {Root} : Unheld(i, tasks, Pend(jobs), joins)
          BY <2>3, <3>2
        <4> QED BY <1>3, <3>2, <4>1, EndedPlaced
      <3> QED BY <2>1, <3>1, <3>2
    <2>5. Placed(ex', tasks, Pending', joins, queue)
      BY <2>2, <2>4, FewerHeld
    <2> QED BY <1>2, <1>3, <2>1, <2>4, <2>5 DEF Settled
  <1> QED BY <1>5, <1>6, <1>7 DEF Collapse

-----------------------------------------------------------------------------
\* What a step keeps, when it keeps the lock.
LEMMA SettledStep ==
  ASSUME Settled, NeverEnough'
  PROVE  PInv'
  BY DEF Settled, PInv, AtRest

\* What a command finds when it takes the lock.
LEMMA Resting ==
  ASSUME IInv, PInv, AtRest
  PROVE  /\ queue = <<>> /\ ~collapsing
         /\ Placed(ex, tasks, Pending, joins, <<>>) /\ ScopesShut(ex)
         /\ Tree(ex) /\ <<>> \in Seq(EventIn(ex))
         /\ \A j \in jobs : j.kind \in WaitKinds => j \in Pending
         /\ cmd' # NoCmd => Pending' = {k \in jobs' : k.kind \in WaitKinds /\ k # cmd'}
  <1>1. queue = <<>> /\ ~collapsing
    BY DEF PInv
  <1>2. Placed(ex, tasks, Pending, joins, <<>>) /\ ScopesShut(ex)
    BY <1>1 DEF PInv
  <1>3. ASSUME NEW j \in jobs, j.kind \in WaitKinds PROVE j \in Pending
    <2>1. j # NoCmd
      BY <1>3 DEF NoCmd, WaitKinds
    <2> QED BY <1>3, <2>1 DEF Pending, Pend, AtRest
  <1>4. Pending' = {k \in jobs' : k.kind \in WaitKinds /\ k # cmd'}
    BY DEF Pending, Pend
  <1> QED BY <1>1, <1>2, <1>3, <1>4 DEF IInv

\* A command that starts with one event, for an idle token.
LEMMA StartedSettled ==
  ASSUME IInv, PInv, AtRest, collapsing' = collapsing, cmd' # NoCmd, joins' \subseteq joins,
         NEW q, Placed(ex', tasks', Pending', joins', q), ScopesShut(ex'),
         NEW v, queue' = <<v>>, Unheld(v.ex, tasks', Pending', joins'), ex'[v.ex].role = "TOKEN",
         v.mode = "resume" => ex'[v.ex].act = v.node,
         v.mode = "leave" => Shut(ex', v.ex)
  PROVE  PInv'
  <1>1. Placed(ex', tasks', Pending', joins', queue')
    BY OneEvent
  <1>2. Head(queue') = v /\ Len(queue') = 1
    BY OneEvent
  <1>3. ~collapsing'
    BY Resting
  <1>4. FirstEvent'
    BY <1>2, <1>3 DEF FirstEvent, Mode, Tok, At
  <1>5. NeverEnough'
    BY FewerArrivals
  <1> QED BY <1>1, <1>4, <1>5 DEF PInv, AtRest

LEMMA StartProcessSettled ==
  ASSUME IInv, PInv, StartProcess
  PROVE  PInv'
  <1> DEFINE r == NewExecution(<<>>, "TOKEN", None)
             v == Enter(Root, Proc.start[Top])
  <1>1. /\ AtRest /\ ex = <<>> /\ ex' = <<r>> /\ queue' = <<v>> /\ cmd' = StartC
        /\ tasks' = tasks /\ jobs' = jobs /\ joins' = joins /\ collapsing' = collapsing
    BY DEF StartProcess
  <1>2. r.role = "TOKEN" /\ v.ex = 1 /\ v.mode = "enter" /\ StartC # NoCmd
    BY DEF NewExecution, Enter, Root, StartC, NoCmd
  <1> HIDE DEF r, v
  <1>3. /\ Placed(ex, tasks, Pending, joins, <<>>) /\ Tree(ex) /\ <<>> \in Seq(EventIn(ex))
        /\ Pending' \subseteq Pending
    BY <1>1, <1>2, Resting
  <1>4. ex'[1] = r /\ DOMAIN ex' = {1} /\ DOMAIN ex = {}
    BY <1>1
  <1>5. Placed(ex', tasks', Pending', joins', <<>>)
    <2>1. Placed(ex', tasks, Pending, joins, <<>>)
      BY <1>3, <1>4, ExtendedPlaced
    <2> QED BY <1>1, <1>3, <2>1, FewerHeld
  <1>6. ScopesShut(ex')
    BY <1>2, <1>4 DEF ScopesShut
  <1>7. Unheld(1, tasks', Pending', joins')
    <2>1. Idle(1, tasks, Pending, joins, <<>>)
      BY <1>3, <1>4, FreshIdle
    <2> QED BY <1>1, <1>3, <2>1, IdleUnheld DEF Unheld
  <1> QED BY <1>1, <1>2, <1>4, <1>5, <1>6, <1>7, StartedSettled

\* A token that has one place, and leaves it.
LEMMA LeavesPlace ==
  ASSUME NEW x, NEW t, NEW p, NEW a, NEW q, Placed(x, t, p, a, q)
  PROVE  /\ \A u \in t : Unheld(u.ex, t \ {u}, p, a) /\ TaskStands(x, u)
         /\ \A u \in p : Unheld(u.ex, t, p \ {u}, a) /\ JobStands(x, u)
  BY DEF Placed, Held, Single, Apart, Unheld

\* Execution e has no activity open in tree y any more; y is otherwise the tree x.
Closes(y, x, e) ==
  /\ DOMAIN y = DOMAIN x
  /\ \A i \in DOMAIN x \ {e} : y[i] = x[i]
  /\ y[e].role = x[e].role /\ y[e].live = x[e].live /\ y[e].act = x[e].act /\ y[e].open = None

LEMMA OpenCloses ==
  ASSUME NEW x, Tree(x), NEW e \in DOMAIN x
  PROVE  Closes([x EXCEPT ![e].open = None], x, e)
  <1>1. x[e] \in ExecutionIn(x)
    BY TreeDomain
  <1> QED BY <1>1 DEF ExecutionIn, Closes

\* A task or a timer catch is over: its token closes it and leaves the node.
LEMMA ClosesPlace ==
  ASSUME NEW x, NEW t, NEW p, NEW a, Placed(x, t, p, a, <<>>), ScopesShut(x),
         NEW e \in DOMAIN x, Unheld(e, t, p, a), x[e].role = "TOKEN", NEW y, Closes(y, x, e)
  PROVE  Placed(y, t, p, a, <<>>) /\ ScopesShut(y) /\ y[e].role = "TOKEN" /\ Shut(y, e)
  <1>2. /\ DOMAIN y = DOMAIN x
        /\ \A i \in DOMAIN x \ {e} : y[i] = x[i]
        /\ y[e].role = "TOKEN" /\ y[e].open = None
    BY DEF Closes
  <1>3. Placed(y, t, p, a, <<>>)
    <2>1. \A i \in DOMAIN x : Unheld(i, t, p, a) \/ (i \in DOMAIN y /\ y[i] = x[i])
      BY <1>2
    <2> DEFINE q == <<>>
    <2>2. \A i \in DOMAIN q : y[q[i].ex].role = "TOKEN" /\ (y[q[i].ex].live => x[q[i].ex].live)
      OBVIOUS
    <2>3. Placed(x, t, p, a, q)
      OBVIOUS
    <2> HIDE DEF q
    <2>4. Placed(y, t, p, a, q)
      BY <2>1, <2>2, <2>3, OthersChange
    <2> QED BY <2>4 DEF q
  <1>4. ScopesShut(y) /\ Shut(y, e)
    BY <1>2 DEF ScopesShut, Shut
  <1> QED BY <1>2, <1>3, <1>4

LEMMA CompleteTaskSettled ==
  ASSUME IInv, PInv, NEW t \in tasks, CompleteTask(t)
  PROVE  PInv'
  <1>1. /\ AtRest /\ tasks' = tasks \ {t} /\ joins' = joins /\ collapsing' = collapsing
    BY DEF CompleteTask
  <1>2. /\ Placed(ex, tasks, Pending, joins, <<>>) /\ ScopesShut(ex) /\ Tree(ex)
        /\ queue = <<>> /\ ~collapsing
        /\ cmd' # NoCmd => Pending' = {k \in jobs' : k.kind \in WaitKinds /\ k # cmd'}
        /\ \A j \in jobs : j.kind \in WaitKinds => j \in Pending
    BY <1>1, Resting
  <1>3. Unheld(t.ex, tasks \ {t}, Pending, joins) /\ TaskStands(ex, t)
    BY <1>2, LeavesPlace
  <1>4. t.ex \in DOMAIN ex /\ ex[t.ex].role = "TOKEN"
    BY <1>3 DEF TaskStands, Stands
  <1>5. Placed(ex, tasks \ {t}, Pending, joins, <<>>)
    BY <1>2, FewerHeld
  <1>6. CASE Here(ex, t.ex, t.node)
    <2> DEFINE v == Depart(t.ex, t.node)
    <2>1. /\ ex' = [ex EXCEPT ![t.ex].open = None] /\ jobs' = DropBoundaries(jobs, t.node)
          /\ queue' = <<v>> /\ cmd' = CompleteC
      BY <1>6 DEF CompleteTask
    <2>2. v.ex = t.ex /\ v.mode = "leave" /\ CompleteC # NoCmd
      BY DEF Depart, CompleteC, NoCmd
    <2> HIDE DEF v
    <2>3. Pending' \subseteq Pending
      <3>1. jobs' \subseteq jobs
        BY <2>1, DropsOnly
      <3> QED BY <1>2, <2>1, <2>2, <3>1
    <2>4. /\ Placed(ex', tasks \ {t}, Pending, joins, <<>>) /\ ScopesShut(ex')
          /\ ex'[t.ex].role = "TOKEN" /\ Shut(ex', t.ex)
      <3> DEFINE e == t.ex
                 s == tasks \ {t}
      <3>1. e \in DOMAIN ex /\ ex[e].role = "TOKEN" /\ Unheld(e, s, Pending, joins)
        BY <1>3, <1>4
      <3>2. Placed(ex, s, Pending, joins, <<>>) /\ ScopesShut(ex)
        BY <1>2, <1>5
      <3>4. Closes(ex', ex, e)
        BY <1>2, <1>4, <2>1, OpenCloses
      <3> HIDE DEF e, s
      <3>3. /\ Placed(ex', s, Pending, joins, <<>>) /\ ScopesShut(ex')
            /\ ex'[e].role = "TOKEN" /\ Shut(ex', e)
        BY <3>1, <3>2, <3>4, ClosesPlace
      <3> QED BY <3>3 DEF e, s
    <2>5. Placed(ex', tasks', Pending', joins', <<>>)
      BY <1>1, <2>3, <2>4, FewerHeld
    <2>6. Unheld(t.ex, tasks', Pending', joins')
      BY <1>1, <1>3, <2>3 DEF Unheld
    <2> QED BY <1>1, <2>1, <2>2, <2>4, <2>5, <2>6, StartedSettled
  <1>7. CASE ~Here(ex, t.ex, t.node)
    <2>1. UNCHANGED <<ex, jobs, queue, cmd>>
      BY <1>7 DEF CompleteTask
    <2>2. Pending' = Pending
      BY <2>1 DEF Pending, Pend
    <2>3. NeverEnough'
      BY <1>1, FewerArrivals
    <2>4. Placed(ex', tasks', Pending', joins', queue') /\ ScopesShut(ex')
      BY <1>1, <1>2, <1>5, <2>1, <2>2
    <2>5. OnlyEnters(queue')
      BY <1>2, <2>1 DEF OnlyEnters
    <2> QED BY <1>1, <1>2, <2>1, <2>3, <2>4, <2>5 DEF PInv
  <1> QED BY <1>6, <1>7

\* A job that found nothing to do is removed.
LEMMA DropStaleJobSettled ==
  ASSUME IInv, PInv, NEW j, DropStaleJob(j)
  PROVE  PInv'
  <1>1. /\ AtRest /\ jobs' = jobs \ {j}
        /\ UNCHANGED <<ex, tasks, joins, queue, collapsing, cmd, completed>>
    BY DEF DropStaleJob
  <1>2. /\ Placed(ex, tasks, Pending, joins, <<>>) /\ ScopesShut(ex)
        /\ queue = <<>> /\ ~collapsing
    BY <1>1, Resting
  <1>3. Pending' \subseteq Pending
    BY <1>1 DEF Pending, Pend
  <1>4. Placed(ex, tasks, Pending', joins, <<>>)
    BY <1>2, <1>3, FewerHeld
  <1>5. Placed(ex', tasks', Pending', joins', queue') /\ ScopesShut(ex')
    BY <1>1, <1>2, <1>4
  <1>6. OnlyEnters(queue')
    BY <1>1, <1>2 DEF OnlyEnters
  <1>7. NeverEnough'
    BY <1>1, FewerArrivals
  <1> QED BY <1>1, <1>2, <1>5, <1>6, <1>7 DEF PInv

\* The job that a token waits for fetches it.
LEMMA JobFetched ==
  ASSUME IInv, PInv, AtRest, NEW j \in jobs, j.kind \in WaitKinds, cmd' = j,
         UNCHANGED <<tasks, jobs, joins>>
  PROVE  /\ cmd' # NoCmd
         /\ Placed(ex, tasks', Pending', joins', <<>>) /\ ScopesShut(ex) /\ Tree(ex)
         /\ Unheld(j.ex, tasks', Pending', joins')
         /\ JobStands(ex, j) /\ j.ex \in DOMAIN ex
  <1>1. j # NoCmd
    BY DEF NoCmd, WaitKinds
  <1>2. /\ Placed(ex, tasks, Pending, joins, <<>>) /\ ScopesShut(ex) /\ Tree(ex)
        /\ j \in Pending
        /\ \A k \in jobs : k.kind \in WaitKinds => k \in Pending
        /\ Pending' = {k \in jobs : k.kind \in WaitKinds /\ k # j}
    BY <1>1, Resting
  <1>3. Pending' \subseteq Pending \ {j}
    BY <1>2
  <1>4. Unheld(j.ex, tasks, Pending \ {j}, joins) /\ JobStands(ex, j)
    BY <1>2, LeavesPlace
  <1>5. Placed(ex, tasks, Pending', joins, <<>>)
    BY <1>2, <1>3, FewerHeld
  <1>6. j.ex \in DOMAIN ex
    BY <1>4 DEF JobStands, Stands
  <1>7. Unheld(j.ex, tasks, Pending', joins)
    BY <1>3, <1>4 DEF Unheld
  <1> QED BY <1>1, <1>2, <1>4, <1>5, <1>6, <1>7

LEMMA FireTimerCatchSettled ==
  ASSUME IInv, PInv, NEW j, FireTimerCatch(j)
  PROVE  PInv'
  <1> DEFINE v == Depart(j.ex, j.node)
             e == j.ex
  <1>1. /\ AtRest /\ j \in jobs /\ j.kind \in WaitKinds /\ cmd' = j /\ queue' = <<v>>
        /\ ex' = [ex EXCEPT ![e].open = None]
        /\ UNCHANGED <<tasks, jobs, joins>> /\ collapsing' = collapsing
    BY DEF FireTimerCatch, Due, WaitKinds
  <1>2. v.ex = e /\ v.mode = "leave"
    BY DEF Depart
  <1> HIDE DEF v
  <1>3. /\ cmd' # NoCmd
        /\ Placed(ex, tasks', Pending', joins', <<>>) /\ ScopesShut(ex) /\ Tree(ex)
        /\ Unheld(e, tasks', Pending', joins') /\ e \in DOMAIN ex /\ ex[e].role = "TOKEN"
    BY <1>1, JobFetched DEF JobStands, Stands
  <1> HIDE DEF e
  <1>4. Closes(ex', ex, e)
    BY <1>1, <1>3, OpenCloses
  <1>5. /\ Placed(ex', tasks', Pending', joins', <<>>) /\ ScopesShut(ex')
        /\ ex'[e].role = "TOKEN" /\ Shut(ex', e)
    BY <1>3, <1>4, ClosesPlace
  <1> QED BY <1>1, <1>2, <1>3, <1>5, StartedSettled

LEMMA RunAsyncContinuationSettled ==
  ASSUME IInv, PInv, NEW j, RunAsyncContinuation(j)
  PROVE  PInv'
  <1> DEFINE v == Resume(j.ex, j.node)
  <1>1. /\ AtRest /\ j \in jobs /\ j.kind \in WaitKinds /\ cmd' = j /\ queue' = <<v>>
        /\ ex' = ex /\ UNCHANGED <<tasks, jobs, joins>> /\ collapsing' = collapsing
    BY DEF RunAsyncContinuation, Due, WaitKinds
  <1>2. v.ex = j.ex /\ v.mode = "resume" /\ v.node = j.node
    BY DEF Resume
  <1> HIDE DEF v
  <1>3. /\ cmd' # NoCmd
        /\ Placed(ex', tasks', Pending', joins', <<>>) /\ ScopesShut(ex')
        /\ Unheld(v.ex, tasks', Pending', joins')
        /\ ex'[v.ex].role = "TOKEN" /\ ex'[v.ex].act = v.node
    BY <1>1, <1>2, JobFetched DEF JobStands, Stands
  <1> QED BY <1>1, <1>2, <1>3, StartedSettled

LEMMA RunAsyncAfterSettled ==
  ASSUME IInv, PInv, NEW j, RunAsyncAfter(j)
  PROVE  PInv'
  <1> DEFINE v == Depart(j.ex, j.node)
  <1>1. /\ AtRest /\ j \in jobs /\ j.kind = "async-after" /\ j.kind \in WaitKinds
        /\ cmd' = j /\ queue' = <<v>>
        /\ ex' = ex /\ UNCHANGED <<tasks, jobs, joins>> /\ collapsing' = collapsing
    BY DEF RunAsyncAfter, Due, WaitKinds
  <1>2. v.ex = j.ex /\ v.mode = "leave"
    BY DEF Depart
  <1> HIDE DEF v
  <1>3. /\ cmd' # NoCmd
        /\ Placed(ex', tasks', Pending', joins', <<>>) /\ ScopesShut(ex')
        /\ Unheld(v.ex, tasks', Pending', joins')
        /\ ex'[v.ex].role = "TOKEN" /\ Shut(ex', v.ex)
    BY <1>1, <1>2, JobFetched DEF JobStands, Stands, Shut
  <1> QED BY <1>1, <1>2, <1>3, StartedSettled

\* A line that starts beside its host: its token is new.
LEMMA FireNonInterruptingBoundarySettled ==
  ASSUME IInv, PInv, NEW j \in jobs, FireNonInterruptingBoundary(j)
  PROVE  PInv'
  <1> DEFINE path == IF j.ex = Root THEN <<Root>> ELSE ex[j.ex].path
             r == NewExecution(path, "TOKEN", None)
             e == Len(ex) + 1
             v == Depart(e, j.node)
  <1>1. /\ AtRest /\ j.kind = "timer-boundary" /\ cmd' = j /\ queue' = <<v>>
        /\ ex' = Append(ex, r)
        /\ UNCHANGED <<tasks, jobs, joins>> /\ collapsing' = collapsing
    BY DEF FireNonInterruptingBoundary, Due
  <1>2. v.ex = e /\ v.mode = "leave" /\ r.role = "TOKEN" /\ r.act = None /\ j # NoCmd
    BY <1>1 DEF Depart, NewExecution, NoCmd
  <1> HIDE DEF r, v
  <1>3. /\ Placed(ex, tasks, Pending, joins, <<>>) /\ ScopesShut(ex) /\ Tree(ex)
        /\ <<>> \in Seq(EventIn(ex)) /\ Pending' \subseteq Pending
    BY <1>1, <1>2, Resting
  <1>4. /\ DOMAIN ex' = DOMAIN ex \cup {e} /\ e \notin DOMAIN ex
        /\ (\A i \in DOMAIN ex : ex'[i] = ex[i]) /\ ex'[e] = r
    BY <1>1, <1>3, Appended
  <1> HIDE DEF e
  <1>5. None \notin Nodes
    BY ProcAssumption DEF ProcAssumption
  <1>6. Placed(ex', tasks', Pending', joins', <<>>)
    <2>1. Placed(ex', tasks, Pending, joins, <<>>)
      BY <1>3, <1>4, ExtendedPlaced
    <2> QED BY <1>1, <1>3, <2>1, FewerHeld
  <1>7. Unheld(e, tasks', Pending', joins')
    <2>1. Idle(e, tasks, Pending, joins, <<>>)
      BY <1>3, <1>4, FreshIdle
    <2> QED BY <1>1, <1>3, <2>1, IdleUnheld DEF Unheld
  <1>8. ScopesShut(ex') /\ Shut(ex', e) /\ ex'[e].role = "TOKEN"
    BY <1>2, <1>3, <1>4, <1>5 DEF ScopesShut, Shut
  <1> QED BY <1>1, <1>2, <1>6, <1>7, <1>8, StartedSettled

\* The only event of a command is that a token enters.
LEMMA FirstEnters ==
  ASSUME NEW v
  PROVE  Append(<<>>, v) = <<v>>
  OBVIOUS

\* A timer starts an event subprocess, which takes its scope over ...
LEMMA FireInterruptingEventStartSettled ==
  ASSUME IInv, PInv, NEW j \in jobs, FireInterruptingEventStart(j)
  PROVE  PInv'
  <1> DEFINE dead == Victims(ex, j.ex, j.scope)
             host == j.ex
             z == TakenOver(ex, host, j.scope)
             v == Enter(Len(ex) + 2, j.node)
             k == Without(jobs, dead)
             d == DropEventTimers(k, host, j.scope)
  <1>1. /\ AtRest /\ j.kind = "timer-event-start" /\ ~Stale(j) /\ cmd' = j /\ queue' = <<v>>
        /\ ex' = WithEventSubprocess(z, host, j.node)
        /\ tasks' = Without(tasks, dead)
        /\ jobs' = d \cup EventTimers(Len(ex) + 1, Home(j.node))
        /\ joins' = JoinsTakenOver(dead, j.scope)
        /\ collapsing' = collapsing
    BY DEF FireInterruptingEventStart, Due
  <1>2. j # NoCmd
    BY <1>1 DEF NoCmd
  <1>3. j.node \in EventStarts(j.scope, "timerStart") /\ host \in DOMAIN ex
    BY <1>1 DEF Stale, IInv, JobIn
  <1>4. Kind(Home(j.node)) = "esub"
    BY <1>3, EventStartHome
  <1>5. /\ Placed(ex, tasks, Pending, joins, <<>>) /\ ScopesShut(ex) /\ Tree(ex)
        /\ <<>> \in Seq(EventIn(ex)) /\ ~collapsing
        /\ \A u \in jobs : u.kind \in WaitKinds => u \in Pending
        /\ Pending' = {u \in jobs' : u.kind \in WaitKinds /\ u # j}
    BY <1>1, <1>2, Resting
  <1>6. Pending' \subseteq Without(Pending, dead)
    <2>1. d \subseteq k
      BY DropsOnly
    <2>2. \A u \in EventTimers(Len(ex) + 1, Home(j.node)) : u.kind \notin WaitKinds
      BY DEF EventTimers, NewJob, WaitKinds
    <2> HIDE DEF d
    <2> QED BY <1>1, <1>5, <2>1, <2>2 DEF Without
  <1>7. joins' = IF j.scope = Top THEN {} ELSE Without(joins, dead)
    BY <1>1 DEF JoinsTakenOver
  <1>8. Grows(ex, z) /\ Len(z) = Len(ex)
    BY <1>5, TakenOverTree
  <1>9. dead = Victims(ex, host, j.scope) /\ tasks' \subseteq Without(tasks, dead)
    BY <1>1
  <1> HIDE DEF dead, k, d, host
  <1>10. Placed(z, tasks', Pending', joins', <<>>)
    BY <1>3, <1>5, <1>6, <1>7, <1>9, TakenOverPlaced
  <1>11. ScopesShut(z)
    BY <1>3, <1>5, TakenOverShut
  <1> HIDE DEF z
  <1>12. Tree(z) /\ host \in DOMAIN z /\ <<>> \in Seq(EventIn(z)) /\ OnlyEnters(<<>>)
    BY <1>3, <1>8 DEF Grows, OnlyEnters
  <1>13. queue' = Append(<<>>, Enter(Len(z) + 2, j.node))
    BY <1>1, <1>8, FirstEnters
  <1>14. Placed(ex', tasks', Pending', joins', queue') /\ ScopesShut(ex') /\ OnlyEnters(queue')
    BY <1>1, <1>4, <1>10, <1>11, <1>12, <1>13, EventSubprocessEnters
  <1>15. Settled
    BY <1>1, <1>2, <1>14 DEF Settled
  <1>16. NeverEnough'
    BY <1>1, JoinsTakenOverIn, FewerArrivals
  <1> QED BY <1>15, <1>16, SettledStep

\* ... or runs beside it.
LEMMA FireNonInterruptingEventStartSettled ==
  ASSUME IInv, PInv, NEW j \in jobs, FireNonInterruptingEventStart(j)
  PROVE  PInv'
  <1> DEFINE v == Enter(Len(ex) + 2, j.node)
             host == j.ex
  <1>1. /\ AtRest /\ j.kind = "timer-event-start" /\ ~Stale(j) /\ cmd' = j /\ queue' = <<v>>
        /\ ex' = WithEventSubprocess(ex, host, j.node)
        /\ jobs' = (jobs \ {j}) \cup EventTimers(Len(ex) + 1, Home(j.node))
        /\ tasks' = tasks /\ joins' = joins
    BY DEF FireNonInterruptingEventStart, Due
  <1>2. j # NoCmd
    BY <1>1 DEF NoCmd
  <1>3. j.node \in EventStarts(j.scope, "timerStart") /\ host \in DOMAIN ex
    BY <1>1 DEF Stale, IInv, JobIn
  <1>4. Kind(Home(j.node)) = "esub"
    BY <1>3, EventStartHome
  <1>5. /\ Placed(ex, tasks, Pending, joins, <<>>) /\ ScopesShut(ex) /\ Tree(ex)
        /\ <<>> \in Seq(EventIn(ex))
        /\ \A u \in jobs : u.kind \in WaitKinds => u \in Pending
        /\ Pending' = {u \in jobs' : u.kind \in WaitKinds /\ u # j}
    BY <1>1, <1>2, Resting
  <1>6. Pending' \subseteq Pending
    <2>1. \A u \in EventTimers(Len(ex) + 1, Home(j.node)) : u.kind \notin WaitKinds
      BY DEF EventTimers, NewJob, WaitKinds
    <2> QED BY <1>1, <1>5, <2>1
  <1>7. Placed(ex, tasks', Pending', joins', <<>>)
    BY <1>1, <1>5, <1>6, FewerHeld
  <1>8. OnlyEnters(<<>>) /\ queue' = Append(<<>>, v)
    BY <1>1, FirstEnters DEF OnlyEnters
  <1> HIDE DEF host
  <1>9. Placed(ex', tasks', Pending', joins', queue') /\ ScopesShut(ex') /\ OnlyEnters(queue')
    BY <1>1, <1>3, <1>4, <1>5, <1>7, <1>8, EventSubprocessEnters
  <1>10. Settled
    BY <1>1, <1>2, <1>9 DEF Settled
  <1>11. NeverEnough'
    BY <1>1, FewerArrivals
  <1> QED BY <1>10, <1>11, SettledStep

-----------------------------------------------------------------------------
\* A deadline cancels its host: the one place of the host's token is freed.
LEMMA FireInterruptingBoundarySettled ==
  ASSUME PlainDeadlines, IInv, PInv, NEW j \in jobs, FireInterruptingBoundary(j)
  PROVE  PInv'
  <1> DEFINE h == Proc.host[j.node]
             e == j.ex
             dead == IF Kind(h) \in SubKinds THEN Below(ex, e) ELSE {}
             b == DropBoundaries(Without(jobs, dead), h)
             d == DropContinuation(b, e, h)
             v == Depart(e, j.node)
  <1>1. /\ AtRest /\ j.kind = "timer-boundary" /\ ~Stale(j) /\ j.node \in Proc.cancel
        /\ ex' = [Killed(ex, dead) EXCEPT ![e].open = None]
        /\ tasks' = Without(tasks, dead) \ {[ex |-> e, node |-> h]}
        /\ jobs' = IF Kind(h) \in SubKinds THEN DropEventTimers(d, e, h) ELSE d
        /\ joins' = Without(joins, dead)
        /\ queue' = <<v>> /\ cmd' = j /\ collapsing' = collapsing
    BY DEF FireInterruptingBoundary, Due
  <1>2. /\ ex[e].live /\ ex[e].act = h /\ ex[e].open # None
        /\ j.node \in Nodes /\ Kind(j.node) = "boundary" /\ e \in DOMAIN ex
    BY <1>1 DEF Stale, IInv, JobIn, Job
  <1>3. h \in Nodes /\ Kind(h) \in {"user", "service"} /\ Kind(h) \notin SubKinds
    BY <1>1, <1>2, ProcAssumption DEF PlainDeadlines, ProcAssumption, Kind, SubKinds
  <1>4. dead = {}
    BY <1>3
  <1> HIDE DEF h, e, dead, b, d, v
  <1>5. /\ Placed(ex, tasks, Pending, joins, <<>>) /\ ScopesShut(ex) /\ Tree(ex)
        /\ \A u \in jobs : u.kind \in WaitKinds => u \in Pending
        /\ cmd' # NoCmd /\ Pending' = {u \in jobs' : u.kind \in WaitKinds /\ u # j}
    <2>1. j # NoCmd
      BY <1>1 DEF NoCmd
    <2> QED BY <1>1, <2>1, Resting
  <1>6. ex[e].role = "TOKEN"
    BY <1>2, <1>3, <1>5 DEF ScopesShut, Shut
  <1>7. /\ tasks' = tasks \ {[ex |-> e, node |-> h]} /\ joins' = joins
        /\ jobs' \subseteq jobs
        /\ \A u \in jobs' : ~(u.kind = "async-continuation" /\ u.ex = e /\ u.node = h)
    <2>1. tasks' = tasks \ {[ex |-> e, node |-> h]} /\ joins' = joins /\ jobs' = d
      BY <1>1, <1>3, <1>4 DEF Without
    <2>2. d = DropContinuation(b, e, h) /\ b \subseteq jobs
      BY DropsOnly DEF d, b
    <2> QED BY <2>1, <2>2 DEF DropContinuation
  <1>8. Pending' \subseteq Pending
    BY <1>5, <1>7
  <1>9. Placed(ex, tasks', Pending', joins', <<>>)
    BY <1>5, <1>7, <1>8, FewerHeld
  <1>10. Unheld(e, tasks', Pending', joins')
    <2>1. ASSUME NEW u \in tasks', u.ex = e PROVE FALSE
      <3>1. u \in tasks /\ u # [ex |-> e, node |-> h]
        BY <1>7, <2>1
      <3>2. ex[u.ex].act = u.node
        BY <1>5, <3>1 DEF Placed, Held, TaskStands, Stands
      <3>3. u \in TaskIn(ex)
        BY <3>1 DEF IInv
      <3> QED BY <1>2, <2>1, <3>1, <3>2, <3>3 DEF TaskIn
    <2>2. ASSUME NEW u \in Pending', u.ex = e PROVE FALSE
      <3>1. JobStands(ex, u) /\ u \in jobs' /\ u.kind \in WaitKinds
        BY <1>5, <1>8 DEF Placed, Held
      <3>2. /\ u.node = h
            /\ u.kind = "timer-catch" => Kind(h) = "catch"
            /\ u.kind = "async-after" => ex[e].open = None
        BY <1>2, <2>2, <3>1 DEF JobStands, Stands
      <3> QED BY <1>2, <1>3, <1>7, <2>2, <3>1, <3>2 DEF WaitKinds
    <2>3. ASSUME NEW u \in joins', u.ex = e PROVE FALSE
      <3>1. ex[u.ex].act = u.node /\ Kind(u.node) = "parallel"
        BY <1>5, <1>7 DEF Placed, Held, JoinStands, Stands
      <3> QED BY <1>2, <1>3, <2>3, <3>1
    <2> QED BY <2>1, <2>2, <2>3 DEF Unheld
  <1>11. Closes(ex', ex, e)
    <2> DEFINE k == Killed(ex, dead)
    <2>1. DOMAIN k = DOMAIN ex /\ \A i \in DOMAIN ex : k[i] = ex[i]
      BY <1>4 DEF Killed
    <2>2. Tree(k)
      BY <1>5, KilledTree DEF Grows
    <2>3. ex' = [k EXCEPT ![e].open = None]
      BY <1>1
    <2> HIDE DEF k
    <2>4. Closes(ex', k, e)
      BY <1>2, <2>1, <2>2, <2>3, OpenCloses
    <2> QED BY <1>2, <2>1, <2>4 DEF Closes
  <1>12. /\ Placed(ex', tasks', Pending', joins', <<>>) /\ ScopesShut(ex')
         /\ ex'[e].role = "TOKEN" /\ Shut(ex', e)
    BY <1>2, <1>5, <1>6, <1>9, <1>10, <1>11, ClosesPlace
  <1>13. v.ex = e /\ v.mode = "leave" /\ joins' \subseteq joins
    BY <1>7 DEF v, Depart
  <1> QED BY <1>1, <1>5, <1>10, <1>12, <1>13, StartedSettled

\* The command is over: its job is done, no event is left.
LEMMA ReturnSettled ==
  ASSUME IInv, PInv, Return
  PROVE  PInv'
  <1>1. /\ cmd # NoCmd /\ ~collapsing /\ queue' = <<>> /\ cmd' = NoCmd
        /\ jobs' = IF cmd = StartC
                   THEN IF completed THEN jobs ELSE jobs \cup EventTimers(Root, Top)
                   ELSE (IF AsyncOver THEN DropBoundaries(jobs, cmd.node) ELSE jobs) \ {cmd}
        /\ UNCHANGED <<ex, tasks, joins, collapsing, completed>>
    BY DEF Return
  <1>2. Pending' \subseteq Pending
    <2>1. ASSUME NEW u \in jobs', u.kind \in WaitKinds PROVE u \in jobs /\ u # cmd
      <3>1. CASE cmd = StartC
        <4>1. \A k \in EventTimers(Root, Top) : k.kind \notin WaitKinds
          BY DEF EventTimers, NewJob, WaitKinds
        <4>2. u # cmd
          BY <2>1, <3>1 DEF StartC, WaitKinds
        <4> QED BY <1>1, <2>1, <3>1, <4>1, <4>2
      <3>2. CASE cmd # StartC
        <4>1. DropBoundaries(jobs, cmd.node) \subseteq jobs
          BY DropsOnly
        <4> QED BY <1>1, <2>1, <3>2, <4>1
      <3> QED BY <3>1, <3>2
    <2>2. Pending' \subseteq {u \in jobs' : u.kind \in WaitKinds}
      BY DEF Pending, Pend
    <2> QED BY <2>1, <2>2 DEF Pending, Pend
  <1>3. Placed(ex, tasks, Pending', joins, <<>>)
    <2>1. Held(ex, tasks, Pending, joins)
      BY DEF PInv, Placed
    <2>2. Placed(ex, tasks, Pending, joins, <<>>)
      BY <2>1 DEF Placed, Moves
    <2> QED BY <1>2, <2>2, FewerHeld
  <1>4. Placed(ex', tasks', Pending', joins', queue') /\ ScopesShut(ex')
    BY <1>1, <1>3 DEF PInv
  <1>5. OnlyEnters(queue') /\ ~collapsing'
    BY <1>1 DEF OnlyEnters
  <1>6. NeverEnough'
    BY <1>1, FewerArrivals
  <1> QED BY <1>1, <1>4, <1>5, <1>6 DEF PInv

-----------------------------------------------------------------------------
\* Nothing is placed at first.
LEMMA InitPlaced ==
  ASSUME Init
  PROVE  PInv
  <1>1. /\ ex = <<>> /\ tasks = {} /\ jobs = {} /\ joins = {} /\ queue = <<>> /\ ~collapsing
    BY DEF Init
  <1>2. Pending = {} /\ NeverEnough
    BY <1>1 DEF Pending, Pend, NeverEnough
  <1>3. Placed(ex, tasks, Pending, joins, queue)
    BY <1>1, <1>2 DEF Placed, Held, Moves, Single, Apart
  <1>4. ScopesShut(ex) /\ OnlyEnters(queue)
    BY <1>1 DEF ScopesShut, OnlyEnters
  <1> QED BY <1>1, <1>2, <1>3, <1>4 DEF PInv

\* One step per action: the places are kept.
LEMMA StepPlaced ==
  ASSUME PlainDeadlines, IInv, PInv, [Next]_vars, [~Raises]_vars
  PROVE  PInv'
  <1>1. CASE UNCHANGED vars
    BY <1>1 DEF vars, PInv, Pending, Pend, AtRest, FirstEvent, NeverEnough, Arrivals, Mode, Tok, At
  <1>2. ASSUME ~(UNCHANGED vars), StartProcess PROVE PInv'
    BY <1>2, StartProcessSettled
  <1>3. ASSUME ~(UNCHANGED vars), NEW t \in tasks, CompleteTask(t) PROVE PInv'
    BY <1>3, CompleteTaskSettled
  <1>4. ASSUME ~(UNCHANGED vars), NEW j \in jobs, FireJob(j) PROVE PInv'
    BY <1>4, DropStaleJobSettled, FireTimerCatchSettled, RunAsyncContinuationSettled,
       RunAsyncAfterSettled, FireInterruptingBoundarySettled, FireNonInterruptingBoundarySettled,
       FireInterruptingEventStartSettled, FireNonInterruptingEventStartSettled DEF FireJob
  <1>5. ASSUME ~(UNCHANGED vars), Pump PROVE PInv'
    BY <1>5, PumpSettled, SettledStep
  <1>6. ASSUME ~(UNCHANGED vars), Collapse PROVE PInv'
    BY <1>6, CollapseSettled, FewerArrivals, SettledStep
  <1>7. ASSUME ~(UNCHANGED vars), Return PROVE PInv'
    BY <1>7, ReturnSettled
  <1> QED BY <1>1, <1>2, <1>3, <1>4, <1>5, <1>6, <1>7 DEF Next

\* The places are kept for ever, as long as no command raises.
THEOREM TokensPlaced ==
  ASSUME PlainDeadlines
  PROVE  Spec /\ [][~Raises]_vars => [](IInv /\ PInv)
  <1>1. Init => IInv /\ PInv
    BY InitInv, InitPlaced
  <1>2. IInv /\ PInv /\ [Next]_vars /\ [~Raises]_vars => (IInv /\ PInv)'
    BY NextSound, StutterInv, StepPlaced
  <1> QED BY <1>1, <1>2, PTL DEF Spec

\* What is placed waits where its token stands ...
LEMMA PlacedCurrent ==
  ASSUME IInv, PInv
  PROVE  WaitsAreCurrent
  <1>1. SUFFICES ASSUME AtRest PROVE
          /\ \A t \in tasks : Live(t.ex) /\ ex[t.ex].act = t.node /\ ex[t.ex].open = t.node
          /\ \A j \in jobs : j.kind \notin {"timer-boundary", "timer-event-start"} =>
               Live(j.ex) /\ ex[j.ex].act = j.node
    BY DEF WaitsAreCurrent
  <1>2. Held(ex, tasks, Pending, joins) /\ \A j \in jobs : j.kind \in WaitKinds => j \in Pending
    BY <1>1, Resting DEF Placed
  <1>3. ASSUME NEW t \in tasks
        PROVE  Live(t.ex) /\ ex[t.ex].act = t.node /\ ex[t.ex].open = t.node
    BY <1>2 DEF Held, TaskStands, Stands, Live
  <1>4. ASSUME NEW j \in jobs, j.kind \notin {"timer-boundary", "timer-event-start"}
        PROVE  Live(j.ex) /\ ex[j.ex].act = j.node
    <2>1. j.kind \in WaitKinds
      BY <1>4 DEF IInv, JobIn, Job, JobKinds, WaitKinds
    <2> QED BY <1>2, <2>1 DEF Held, JobStands, Stands, Live
  <1> QED BY <1>3, <1>4

\* ... in no two places ...
LEMMA PlacedOnce ==
  ASSUME IInv, PInv
  PROVE  NeverInTwoPlaces
  <1>1. SUFFICES ASSUME AtRest, NEW e \in DOMAIN ex PROVE Cardinality(Waits(e)) <= 1
    BY DEF NeverInTwoPlaces
  <1>2. Held(ex, tasks, Pending, joins) /\ \A j \in jobs : j.kind \in WaitKinds => j \in Pending
    BY <1>1, Resting DEF Placed
  <1>3. \A u, v \in Waits(e) : u = v
    BY <1>2 DEF Held, Single, Apart, Waits
  <1>4. CASE Waits(e) = {}
    BY <1>4, FS_EmptySet
  <1>5. CASE Waits(e) # {}
    <2>1. PICK u : Waits(e) = {u}
      BY <1>3, <1>5
    <2>2. Cardinality({u}) = 1
      BY FS_Singleton
    <2> QED BY <2>1, <2>2
  <1> QED BY <1>4, <1>5

\* ... and at a join as one token among too few.
LEMMA PlacedAtJoins ==
  ASSUME PInv
  PROVE  JoinsHoldWaitingTokens
  <1>1. Held(ex, tasks, Pending, joins) /\ NeverEnough
    BY DEF PInv, Placed
  <1> QED BY <1>1 DEF JoinsHoldWaitingTokens, Held, JoinStands, Stands, Single, Live, Arrivals, NeverEnough

\* Between commands every task, and every job a token waits for, belongs to a live
\* token that still stands on that node: whatever the process, if its interrupting
\* deadlines are those of tasks, and as long as no command raises.
THEOREM WaitsStayCurrent ==
  ASSUME PlainDeadlines
  PROVE  Spec /\ [][~Raises]_vars => []WaitsAreCurrent
  <1>1. IInv /\ PInv => WaitsAreCurrent
    BY PlacedCurrent
  <1> QED BY <1>1, TokensPlaced, PTL

\* Under the same conditions no token waits in two places: no task, job and join
\* arrival of one execution stand side by side between commands.
THEOREM OnePlaceAtMost ==
  ASSUME PlainDeadlines
  PROVE  Spec /\ [][~Raises]_vars => []NeverInTwoPlaces
  <1>1. IInv /\ PInv => NeverInTwoPlaces
    BY PlacedOnce
  <1> QED BY <1>1, TokensPlaced, PTL

\* Under the same conditions, and in the middle of a command too: a join holds live
\* tokens that stand at it, none of them twice, and never enough to go on.
THEOREM JoinsStayShort ==
  ASSUME PlainDeadlines
  PROVE  Spec /\ [][~Raises]_vars => []JoinsHoldWaitingTokens
  <1>1. PInv => JoinsHoldWaitingTokens
    BY PlacedAtJoins
  <1> QED BY <1>1, TokensPlaced, PTL


-----------------------------------------------------------------------------
(* No token is lost.  More than its places, an execution has a part in the   *)
(* tree: what is not busy waits for its subtree.                             *)

\* A node forks only if it is a gateway.
ForksAtGateways == \A n \in Nodes : Len(Out(n)) > 1 => Kind(n) \in {"parallel", "xor"}

\* A live execution finds the node it stands on in its own container, where
\* _container_for_execution looks for it.
Resolves == \A e \in DOMAIN ex : ex[e].live /\ ex[e].act \in Nodes => Here(ex, e, ex[e].act)

\* A join takes all the branches of the fork it revives, and nothing else; only
\* below the root other lines may go on.
JoinsWhole ==
  Behaves({"parallel"}) /\ Cardinality(Incoming(At)) > 1
    /\ Cardinality(Arrivals(At)) + 1 >= Cardinality(Incoming(At)) =>
    LET taken == {Tok} \cup {w.ex : w \in Arrivals(At)} IN
    \A a \in JoinActors(ex, Tok) :
      /\ ex[a].act \in Nodes /\ Kind(ex[a].act) = "parallel"
      /\ taken \subseteq Children(ex, a)
      /\ a = Root \/ Children(ex, a) = taken

\* What something among the tasks t, the jobs p and the arrivals a waits for, or
\* an event of q moves.
Busy(t, p, a, q) == {u.ex : u \in t \cup p \cup a} \cup {q[i].ex : i \in DOMAIN q}

\* Every path leads to the root, and what lives hangs from what lives.
Rooted(x) == \A e \in DOMAIN x \ {Root} : \E k \in DOMAIN x[e].path : x[e].path[k] = Root
LiveUp(x) == \A e \in DOMAIN x : x[e].live => \A k \in DOMAIN x[e].path : x[x[e].path[k]].live

\* A token has no children, but the root may have some beside it.
Leaves(x) == \A e \in DOMAIN x \ {Root} : x[e].live /\ x[e].role = "TOKEN" => Children(x, e) = {}

\* Execution e can wait for its subtree: it will be collapsed when that is over.
Parked(x, e) ==
  \/ e = Root /\ x[e].act = None /\ x[e].open = None
  \/ x[e].role # "TOKEN" /\ x[e].act \in Nodes /\ Kind(x[e].act) \in SubKinds \cup {"parallel"}

\* What is not in B waits for its subtree, which is over only while c says that
\* the scopes are being collapsed.
Attended(x, B, c) ==
  \A e \in DOMAIN x : x[e].live /\ e \notin B => Parked(x, e) /\ (c \/ Children(x, e) # {})

\* A fork has no activity open.
ForksShut(x) ==
  \A e \in DOMAIN x : x[e].live /\ x[e].role # "TOKEN" /\ x[e].act \in Nodes /\ Kind(x[e].act) = "parallel"
    => x[e].open = None

\* The subscriptions among j belong to live scopes: the root, or one parked on a subProcess.
SubsFollow(x, j) ==
  \A k \in j : k.kind = "timer-event-start" =>
    /\ x[k.ex].live
    /\ k.scope = Top => k.ex = Root
    /\ k.scope # Top => x[k.ex].role # "TOKEN" /\ x[k.ex].act = k.scope /\ Kind(k.scope) \in SubKinds

Tended(x, B, c, j) ==
  Rooted(x) /\ LiveUp(x) /\ Leaves(x) /\ Attended(x, B, c) /\ ForksShut(x) /\ SubsFollow(x, j)

\* A command that starts with a token that leaves has closed its activity.
FirstLeaves ==
  queue # <<>> /\ Mode = "leave" /\ ex[Tok].live =>
    ex[Tok].open = None /\ (Kind(At) # "boundary" => ex[Tok].act = At)

RootEnds == IF ex = <<>> THEN ~completed ELSE completed <=> ~ex[Root].live

TInv == Tended(ex, Busy(tasks, Pending, joins, queue), collapsing, jobs) /\ FirstLeaves /\ RootEnds

\* What a step has made of the tree.
Tilled ==
  /\ Tended(ex', Busy(tasks', Pending', joins', queue'), collapsing', jobs')
  /\ RootEnds'

-----------------------------------------------------------------------------
\* More is busy, or the scopes begin to be collapsed.
LEMMA TendedMore ==
  ASSUME NEW x, NEW B, NEW c, NEW j, Tended(x, B, c, j),
         NEW B2, \A e \in B \cap DOMAIN x : x[e].live => e \in B2, NEW c2, c => c2,
         NEW j2, \A k \in j2 : k.kind = "timer-event-start" => k \in j
  PROVE  Tended(x, B2, c2, j2)
  BY DEF Tended, Attended, SubsFollow

\* What can wait for its subtree need not be busy.
LEMMA Parks ==
  ASSUME NEW x, NEW B, NEW c, NEW j, NEW e, Tended(x, B \cup {e}, c, j),
         Parked(x, e), c \/ Children(x, e) # {}
  PROVE  Tended(x, B, c, j)
  BY DEF Tended, Attended

\* What a path has before an element is a child of it.
LEMMA LineTo ==
  ASSUME NEW x, Tree(x), LiveUp(x), NEW d \in DOMAIN x, x[d].live,
         NEW k \in DOMAIN x[d].path, NEW e, x[d].path[k] = e
  PROVE  /\ e \in DOMAIN x /\ x[e].live
         /\ k = 1 => d \in Children(x, e)
         /\ k # 1 => x[d].path[k - 1] \in Children(x, e)
         /\ x[e].path = SubSeq(x[d].path, k + 1, Len(x[d].path))
  <1> DEFINE p == x[d].path
  <1>1. p \in Seq(DOMAIN x) /\ Chain(x, p)
    BY ChildPath
  <1>2. Len(p) \in Nat /\ DOMAIN p = 1..Len(p) /\ k \in 1..Len(p)
    BY <1>1, LenProperties
  <1>3. \A i \in DOMAIN p : p[i] \in DOMAIN x /\ x[p[i]].live /\ x[p[i]].path = SubSeq(p, i + 1, Len(p))
    BY <1>1 DEF Chain, LiveUp
  <1>4. ASSUME k = 1 PROVE d \in Children(x, e)
    <2>1. p # <<>> /\ Head(p) = p[1]
      BY <1>1, <1>2
    <2> QED BY <1>4, <2>1 DEF Children
  <1>5. ASSUME k # 1 PROVE p[k - 1] \in Children(x, e)
    <2>1. k - 1 \in DOMAIN p /\ (k - 1) + 1 = k
      BY <1>2, <1>5
    <2> DEFINE s == SubSeq(p, k, Len(p))
    <2>2. x[p[k - 1]].path = s /\ p[k - 1] \in DOMAIN x /\ x[p[k - 1]].live
      BY <1>3, <2>1
    <2> HIDE DEF p
    <2>4. s \in Seq(DOMAIN x) /\ Len(s) = Len(p) - k + 1 /\ s[1] = p[k]
      BY <1>1, <1>2
    <2>3. s # <<>> /\ Head(s) = p[k]
      BY <1>2, <2>4
    <2> QED BY <2>2, <2>3 DEF Children, p
  <1> QED BY <1>3, <1>4, <1>5

\* Nothing is above itself.
LEMMA Acyclic ==
  ASSUME NEW x, Tree(x), NEW e \in DOMAIN x, NEW k \in DOMAIN x[e].path
  PROVE  x[e].path[k] # e
  <1> DEFINE p == x[e].path
  <1>1. p \in Seq(DOMAIN x) /\ Chain(x, p)
    BY ChildPath
  <1>2. Len(p) \in Nat /\ DOMAIN p = 1..Len(p) /\ k \in 1..Len(p)
    BY <1>1, LenProperties
  <1>3. ASSUME p[k] = e PROVE FALSE
    <2>1. p = SubSeq(p, k + 1, Len(p))
      BY <1>1, <1>3 DEF Chain
    <2> HIDE DEF p
    <2>2. Len(SubSeq(p, k + 1, Len(p))) = Len(p) - k
      BY <1>1, <1>2
    <2> QED BY <1>2, <2>1, <2>2
  <1> QED BY <1>3

\* A child is not its own parent.
LEMMA NotOwnChild ==
  ASSUME NEW x, Tree(x), NEW a, NEW e \in Children(x, a)
  PROVE  /\ e \in DOMAIN x /\ x[e].live /\ a # e /\ e # Root
         /\ 1 \in DOMAIN x[e].path /\ x[e].path[1] = a /\ a \in DOMAIN x
  <1>1. e \in DOMAIN x /\ x[e].live /\ x[e].path # <<>> /\ Head(x[e].path) = a
    BY DEF Children
  <1>2. x[e].path \in Seq(DOMAIN x)
    BY <1>1, ChildPath
  <1>3. 1 \in DOMAIN x[e].path /\ x[e].path[1] = a /\ a \in DOMAIN x
    BY <1>1, <1>2
  <1>4. a # e
    BY <1>1, <1>3, Acyclic
  <1>5. e # Root
    <2>1. x # <<>>
      BY <1>1
    <2> QED BY <1>1, <2>1 DEF Tree, Linked
  <1> QED BY <1>1, <1>3, <1>4, <1>5

\* Below a childless execution nothing lives.
LEMMA NoneBelow ==
  ASSUME NEW x, Tree(x), LiveUp(x), NEW e, Children(x, e) = {},
         NEW d \in DOMAIN x, x[d].live, NEW k \in DOMAIN x[d].path
  PROVE  x[d].path[k] # e
  BY LineTo

\* While anything lives, the root does ...
LEMMA RootLives ==
  ASSUME NEW x, Rooted(x), LiveUp(x), NEW e \in DOMAIN x, x[e].live
  PROVE  x[Root].live
  BY DEF Rooted, LiveUp

\* ... and when the root has no children, only the root can live.
LEMMA RootAlone ==
  ASSUME NEW x, Tree(x), Rooted(x), LiveUp(x), Children(x, Root) = {}, NEW e \in DOMAIN x, x[e].live
  PROVE  e = Root
  BY NoneBelow DEF Rooted

\* Where nothing lives all is in order.
LEMMA AllDead ==
  ASSUME NEW x, Rooted(x), \A e \in DOMAIN x : ~x[e].live, NEW B, NEW c
  PROVE  Tended(x, B, c, {})
  BY DEF Tended, LiveUp, Leaves, Attended, ForksShut, SubsFollow

-----------------------------------------------------------------------------
\* y is the tree x but for what execution e does: e neither moves nor ends.
Alters(x, e, y) ==
  /\ DOMAIN y = DOMAIN x
  /\ \A i \in DOMAIN x \ {e} : y[i] = x[i]
  /\ e \in DOMAIN x => y[e].path = x[e].path /\ y[e].live = x[e].live

LEMMA AltersShape ==
  ASSUME NEW x, NEW e, NEW y, Alters(x, e, y)
  PROVE  /\ \A i \in DOMAIN x : y[i].path = x[i].path /\ y[i].live = x[i].live
         /\ \A i : Children(y, i) = Children(x, i)
  <1>1. DOMAIN y = DOMAIN x /\ \A i \in DOMAIN x : y[i].path = x[i].path /\ y[i].live = x[i].live
    BY DEF Alters
  <1> QED BY <1>1 DEF Children

\* A busy execution changes: it may be a token or a scope, as its children,
\* its activity and its subscriptions allow.
Altering(x, B, c, j, e, y, j2) ==
  /\ Tree(x) /\ Tended(x, B, c, j) /\ e \in B /\ Alters(x, e, y)
  /\ x[e].live /\ y[e].role = "TOKEN" /\ e # Root => Children(x, e) = {}
  /\ y[e].role # "TOKEN" /\ y[e].act \in Nodes /\ Kind(y[e].act) = "parallel" => y[e].open = None
  /\ \A k \in j2 : k.kind = "timer-event-start" =>
       /\ k \in j
       /\ k.ex \in DOMAIN x
       /\ k.ex = e /\ k.scope # Top => y[e].role # "TOKEN" /\ y[e].act = k.scope

LEMMA AltersTended ==
  ASSUME NEW x, NEW B, NEW c, NEW j, NEW e, NEW y, NEW j2, Altering(x, B, c, j, e, y, j2)
  PROVE  Tended(y, B, c, j2)
  <1> USE DEF Altering
  <1>1. /\ \A i \in DOMAIN x : y[i].path = x[i].path /\ y[i].live = x[i].live
        /\ \A i : Children(y, i) = Children(x, i)
        /\ DOMAIN y = DOMAIN x
        /\ \A i \in DOMAIN x \ {e} : y[i] = x[i]
    BY AltersShape DEF Alters
  <1>2. Rooted(y)
    BY <1>1 DEF Tended, Rooted
  <1>3. LiveUp(y)
    <2>1. ASSUME NEW i \in DOMAIN y, y[i].live, NEW k \in DOMAIN y[i].path PROVE y[y[i].path[k]].live
      <3>1. i \in DOMAIN x /\ x[i].live /\ k \in DOMAIN x[i].path /\ y[i].path = x[i].path
        BY <1>1, <2>1
      <3>2. x[i].path[k] \in DOMAIN x /\ x[x[i].path[k]].live
        BY <3>1, LineTo DEF Tended
      <3> QED BY <1>1, <3>1, <3>2
    <2> QED BY <2>1 DEF LiveUp
  <1>4. Leaves(y)
    BY <1>1 DEF Tended, Leaves
  <1>5. Attended(y, B, c)
    BY <1>1 DEF Tended, Attended, Parked
  <1>6. ForksShut(y)
    BY <1>1 DEF Tended, ForksShut
  <1>7. SubsFollow(y, j2)
    BY <1>1 DEF Tended, SubsFollow
  <1> QED BY <1>2, <1>3, <1>4, <1>5, <1>6, <1>7 DEF Tended

\* The executions of D end: y is otherwise the tree x.
Cuts(x, D, y) ==
  /\ DOMAIN y = DOMAIN x
  /\ \A i \in DOMAIN x \ D : y[i] = x[i]
  /\ \A i \in DOMAIN x \cap D : y[i].path = x[i].path /\ ~y[i].live

LEMMA EndedCuts ==
  ASSUME NEW x, Tree(x), NEW D
  PROVE  Cuts(x, D, Ended(x, D))
  <1>1. \A i \in DOMAIN x : x[i] \in ExecutionIn(x)
    BY TreeDomain
  <1>2. \A r \in ExecutionIn(x) : ~[r EXCEPT !.live = FALSE].live /\ [r EXCEPT !.live = FALSE].path = r.path
    BY DEF ExecutionIn
  <1> QED BY <1>1, <1>2 DEF Ended, Cuts

LEMMA KilledCuts ==
  ASSUME NEW x, Tree(x), NEW D
  PROVE  Cuts(x, D, Killed(x, D))
  <1>1. \A i \in DOMAIN x : x[i] \in ExecutionIn(x)
    BY TreeDomain
  <1>2. \A r \in ExecutionIn(x) : /\ ~[r EXCEPT !.live = FALSE, !.open = None].live
                                  /\ [r EXCEPT !.live = FALSE, !.open = None].path = r.path
    BY DEF ExecutionIn
  <1> QED BY <1>1, <1>2 DEF Killed, Cuts

\* Whole subtrees end, with their subscriptions; whom that leaves without
\* children is collapsed or busy.
Cutting(x, B, c, j, D, y, B2, c2, j2) ==
  /\ Tree(x) /\ Tended(x, B, c, j) /\ j \subseteq JobIn(x) /\ Cuts(x, D, y)
  /\ \A d \in DOMAIN x \ D : x[d].live => \A k \in DOMAIN x[d].path : x[d].path[k] \notin D
  /\ c => c2
  /\ \A i \in DOMAIN x \ (D \cup B2) : x[i].live => i \notin B /\ (c2 \/ Children(x, i) \cap D = {})
  /\ \A k \in j2 : k.kind = "timer-event-start" => k \in j /\ k.ex \notin D

LEMMA CutsTended ==
  ASSUME NEW x, NEW B, NEW c, NEW j, NEW D, NEW y, NEW B2, NEW c2, NEW j2,
         Cutting(x, B, c, j, D, y, B2, c2, j2)
  PROVE  Tended(y, B2, c2, j2) /\ \A i : Children(y, i) = Children(x, i) \ D
  <1> USE DEF Cutting
  <1>1. /\ DOMAIN y = DOMAIN x
        /\ \A i \in DOMAIN x \ D : y[i] = x[i]
        /\ \A i \in DOMAIN x \cap D : ~y[i].live
        /\ \A i \in DOMAIN x : y[i].path = x[i].path
    BY DEF Cuts
  <1>2. \A i : Children(y, i) = Children(x, i) \ D
    BY <1>1 DEF Children
  <1>3. Rooted(y)
    BY <1>1 DEF Tended, Rooted
  <1>4. LiveUp(y)
    <2>1. ASSUME NEW i \in DOMAIN y, y[i].live, NEW k \in DOMAIN y[i].path PROVE y[y[i].path[k]].live
      <3>1. i \in DOMAIN x \ D /\ x[i].live /\ y[i].path = x[i].path /\ k \in DOMAIN x[i].path
        BY <1>1, <2>1
      <3>2. x[x[i].path[k]].live /\ x[i].path[k] \notin D
        BY <3>1 DEF Tended, LiveUp
      <3>3. x[i].path[k] \in DOMAIN x
        BY <3>1, LineTo DEF Tended
      <3> QED BY <1>1, <3>1, <3>2, <3>3
    <2> QED BY <2>1 DEF LiveUp
  <1>5. Leaves(y)
    BY <1>1, <1>2 DEF Tended, Leaves
  <1>6. Attended(y, B2, c2)
    BY <1>1, <1>2 DEF Tended, Attended, Parked
  <1>7. ForksShut(y)
    BY <1>1 DEF Tended, ForksShut
  <1>8. SubsFollow(y, j2)
    BY <1>1 DEF Tended, SubsFollow, JobIn
  <1> QED BY <1>2, <1>3, <1>4, <1>5, <1>6, <1>7, <1>8 DEF Tended

\* The path of a child of a live execution.
LEMMA ChildLine ==
  ASSUME NEW x, Tree(x), Rooted(x), LiveUp(x), NEW e \in DOMAIN x, x[e].live
  PROVE  LET p == <<e>> \o x[e].path
         IN  /\ p # <<>> /\ Head(p) = e
             /\ \A k \in DOMAIN p : p[k] \in DOMAIN x /\ x[p[k]].live
             /\ \E k \in DOMAIN p : p[k] = Root
  <1> DEFINE p == x[e].path
             q == <<e>> \o p
  <1>1. p \in Seq(DOMAIN x) /\ <<e>> \in Seq(DOMAIN x)
    <2>1. <<e>> \in Seq(DOMAIN x)
      OBVIOUS
    <2> QED BY <2>1, ChildPath
  <1>2. \A k \in DOMAIN p : p[k] \in DOMAIN x /\ x[p[k]].live
    BY LineTo
  <1>3. e # Root => \E k \in DOMAIN p : p[k] = Root
    BY DEF Rooted
  <1> HIDE DEF p
  <1>4. /\ Len(p) \in Nat /\ DOMAIN p = 1..Len(p)
        /\ q \in Seq(DOMAIN x) /\ Len(q) = Len(p) + 1 /\ DOMAIN q = 1..(Len(p) + 1)
        /\ q[1] = e /\ \A k \in 2..(Len(p) + 1) : q[k] = p[k - 1]
    BY <1>1, ConcatProperties, LenProperties
  <1> HIDE DEF q
  <1>5. q # <<>> /\ Head(q) = e
    BY <1>4
  <1>6. ASSUME NEW k \in DOMAIN q PROVE q[k] \in DOMAIN x /\ x[q[k]].live
    <2>1. k = 1 \/ (k \in 2..(Len(p) + 1) /\ k - 1 \in DOMAIN p)
      BY <1>4
    <2> QED BY <1>2, <1>4, <2>1
  <1>7. \E k \in DOMAIN q : q[k] = Root
    <2>1. CASE e = Root
      BY <1>4, <2>1
    <2>2. CASE e # Root
      <3>1. PICK k \in DOMAIN p : p[k] = Root
        BY <1>3, <2>2
      <3>2. k + 1 \in DOMAIN q /\ k + 1 \in 2..(Len(p) + 1) /\ (k + 1) - 1 = k
        BY <1>4
      <3>3. q[k + 1] = Root
        BY <1>4, <3>1, <3>2
      <3> QED BY <3>2, <3>3
    <2> QED BY <2>1, <2>2
  <1> QED BY <1>5, <1>6, <1>7 DEF q, p

\* The executions of N are added to the tree x, below live ones that are no tokens.
Hangs(y, n) ==
  /\ y[n].live /\ y[n].path # <<>>
  /\ \A k \in DOMAIN y[n].path : y[y[n].path[k]].live
  /\ \E k \in DOMAIN y[n].path : y[n].path[k] = Root

Adds(x, N, y) ==
  /\ DOMAIN y = DOMAIN x \cup N
  /\ DOMAIN x \cap N = {}
  /\ \A i \in DOMAIN x : y[i] = x[i]
  /\ \A n \in N : Hangs(y, n) /\ (Head(y[n].path) = Root \/ y[Head(y[n].path)].role # "TOKEN")

Adding(x, B, c, j, N, y, B2, j2) ==
  /\ Tree(x) /\ Tended(x, B, c, j) /\ j \subseteq JobIn(x) /\ Adds(x, N, y) /\ B \subseteq B2
  /\ \A n \in N \ B2 : Parked(y, n) /\ Children(y, n) # {}
  /\ \A n \in N : y[n].act \in Nodes => Kind(y[n].act) # "parallel"
  /\ \A k \in j2 : k.kind = "timer-event-start" =>
       k \in j \/ ( /\ k.ex \in N /\ k.scope # Top /\ y[k.ex].role # "TOKEN"
                    /\ y[k.ex].act = k.scope /\ Kind(k.scope) \in SubKinds)

LEMMA AddsTended ==
  ASSUME NEW x, NEW B, NEW c, NEW j, NEW N, NEW y, NEW B2, NEW j2,
         Adding(x, B, c, j, N, y, B2, j2)
  PROVE  Tended(y, B2, c, j2)
  <1> USE DEF Adding
  <1>1. /\ DOMAIN y = DOMAIN x \cup N
        /\ DOMAIN x \cap N = {}
        /\ \A i \in DOMAIN x : y[i] = x[i]
    BY DEF Adds
  <1>10. ASSUME NEW n \in N
         PROVE  Hangs(y, n) /\ (Head(y[n].path) = Root \/ y[Head(y[n].path)].role # "TOKEN")
    BY DEF Adds
  <1>2. \A i : Children(x, i) \subseteq Children(y, i)
    BY <1>1 DEF Children
  <1>3. ASSUME NEW i, NEW d \in Children(y, i) \ Children(x, i)
        PROVE  d \in N /\ (i = Root \/ y[i].role # "TOKEN")
    <2>1. d \in DOMAIN y /\ y[d].live /\ y[d].path # <<>> /\ Head(y[d].path) = i
      BY DEF Children
    <2>2. d \notin DOMAIN x
      BY <1>1, <2>1 DEF Children
    <2>3. d \in N
      BY <1>1, <2>1, <2>2
    <2> QED BY <1>10, <2>1, <2>3
  <1>4. Rooted(y)
    <2>1. ASSUME NEW i \in DOMAIN y \ {Root} PROVE \E k \in DOMAIN y[i].path : y[i].path[k] = Root
      <3>1. CASE i \in DOMAIN x
        BY <1>1, <2>1, <3>1 DEF Tended, Rooted
      <3>2. CASE i \in N
        BY <1>10, <3>2 DEF Hangs
      <3> QED BY <1>1, <2>1, <3>1, <3>2
    <2> QED BY <2>1 DEF Rooted
  <1>5. LiveUp(y)
    <2>1. ASSUME NEW i \in DOMAIN x, y[i].live, NEW k \in DOMAIN y[i].path PROVE y[y[i].path[k]].live
      <3>1. x[i].live /\ k \in DOMAIN x[i].path /\ y[i].path = x[i].path
        BY <1>1, <2>1
      <3>2. x[i].path[k] \in DOMAIN x /\ x[x[i].path[k]].live
        BY <3>1, LineTo DEF Tended
      <3> QED BY <1>1, <3>1, <3>2
    <2> QED BY <1>1, <1>10, <2>1 DEF LiveUp, Hangs
  <1>6. Leaves(y)
    <2>1. ASSUME NEW i \in DOMAIN y \ {Root}, y[i].live, y[i].role = "TOKEN" PROVE Children(y, i) = {}
      <3>1. Children(y, i) \subseteq Children(x, i)
        BY <1>3, <2>1
      <3>2. CASE i \in DOMAIN x
        BY <1>1, <2>1, <3>1, <3>2 DEF Tended, Leaves
      <3>3. CASE i \notin DOMAIN x
        <4>1. Children(x, i) = {}
          BY <3>3, NotOwnChild
        <4> QED BY <3>1, <4>1
      <3> QED BY <3>2, <3>3
    <2> QED BY <2>1 DEF Leaves
  <1>7. Attended(y, B2, c)
    <2>1. ASSUME NEW i \in DOMAIN x, y[i].live, i \notin B2
          PROVE  Parked(y, i) /\ (c \/ Children(y, i) # {})
      <3>1. Parked(x, i) /\ (c \/ Children(x, i) # {})
        BY <1>1, <2>1 DEF Tended, Attended
      <3>2. Children(x, i) \subseteq Children(y, i)
        BY <1>2
      <3>3. Parked(y, i)
        BY <1>1, <3>1 DEF Parked
      <3> QED BY <3>1, <3>2, <3>3
    <2> QED BY <1>1, <2>1 DEF Attended
  <1>8. ForksShut(y)
    BY <1>1 DEF Tended, ForksShut
  <1>9. SubsFollow(y, j2)
    BY <1>1, <1>10 DEF Tended, SubsFollow, JobIn, Hangs
  <1> QED BY <1>4, <1>5, <1>6, <1>7, <1>8, <1>9 DEF Tended

\* ... all of them busy.
LEMMA AddsBusy ==
  ASSUME NEW x, Tree(x), NEW B, NEW c, NEW j, Tended(x, B, c, j), j \subseteq JobIn(x),
         NEW N, NEW y, Adds(x, N, y), NEW B2, B \subseteq B2, N \subseteq B2,
         \A n \in N : y[n].act \notin Nodes,
         NEW j2, \A k \in j2 : k.kind = "timer-event-start" => k \in j
  PROVE  Tended(y, B2, c, j2)
  <1>1. \A n \in N \ B2 : Parked(y, n) /\ Children(y, n) # {}
    OBVIOUS
  <1>2. \A n \in N : y[n].act \in Nodes => Kind(y[n].act) # "parallel"
    OBVIOUS
  <1>3. Tended(y, B2, c, j)
    <2>1. Adding(x, B, c, j, N, y, B2, j)
      BY <1>1, <1>2 DEF Adding
    <2> QED BY <2>1, AddsTended
  <1> QED BY <1>3, TendedMore

-----------------------------------------------------------------------------
\* Who is busy, one by one.
LEMMA BusyWith ==
  ASSUME NEW t, NEW p, NEW a, NEW q, NEW t2, NEW p2, NEW a2,
         t \subseteq t2, p \subseteq p2, a \subseteq a2
  PROVE  /\ Busy(t, p, a, q) \subseteq Busy(t2, p2, a2, q)
         /\ \A u \in t2 \cup p2 \cup a2 : u.ex \in Busy(t2, p2, a2, q)
         /\ \A i \in DOMAIN q : q[i].ex \in Busy(t2, p2, a2, q)
  BY DEF Busy

\* An event keeps one more token busy, a fork one for each branch.
LEMMA BusyNext ==
  ASSUME NEW t, NEW p, NEW a, NEW S, NEW q \in Seq(S), NEW e, NEW n
  PROVE  Busy(t, p, a, q) \cup {e} \subseteq Busy(t, p, a, Append(q, Enter(e, n)))
  <1> DEFINE v == Enter(e, n)
             r == Append(q, v)
  <1>1. v.ex = e
    BY DEF Enter
  <1> HIDE DEF v
  <1>2. /\ DOMAIN r = 1..(Len(q) + 1) /\ DOMAIN q = 1..Len(q) /\ Len(q) \in Nat
        /\ \A i \in DOMAIN q : r[i] = q[i]
        /\ r[Len(q) + 1] = v
    <2>1. q \in Seq(S \cup {v})
      BY SeqMonotonic
    <2> QED BY <2>1, AppendProperties, LenProperties
  <1> HIDE DEF r
  <1>3. DOMAIN q \subseteq DOMAIN r /\ Len(q) + 1 \in DOMAIN r
    BY <1>2
  <1>4. Busy(t, p, a, q) \cup {e} \subseteq Busy(t, p, a, r)
    BY <1>1, <1>2, <1>3 DEF Busy
  <1> QED BY <1>4 DEF r, v

LEMMA BusyBranches ==
  ASSUME NEW t, NEW p, NEW a, NEW S, NEW q \in Seq(S), NEW s \in Seq(S)
  PROVE  /\ Busy(t, p, a, q) \subseteq Busy(t, p, a, q \o s)
         /\ \A i \in DOMAIN s : s[i].ex \in Busy(t, p, a, q \o s)
  <1> DEFINE r == q \o s
  <1>1. /\ Len(q) \in Nat /\ Len(s) \in Nat
        /\ DOMAIN q = 1..Len(q) /\ DOMAIN s = 1..Len(s)
    BY LenProperties
  <1>2. /\ r \in Seq(S) /\ Len(r) = Len(q) + Len(s)
        /\ \A i \in 1..(Len(q) + Len(s)) : r[i] = IF i <= Len(q) THEN q[i] ELSE s[i - Len(q)]
    BY ConcatProperties
  <1> HIDE DEF r
  <1>3. DOMAIN r = 1..(Len(q) + Len(s))
    BY <1>2, LenProperties
  <1>4. \A i \in DOMAIN q : i \in DOMAIN r /\ r[i] = q[i]
    BY <1>1, <1>2, <1>3
  <1>5. ASSUME NEW i \in DOMAIN s PROVE Len(q) + i \in DOMAIN r /\ r[Len(q) + i] = s[i]
    <2>1. Len(q) + i \in 1..(Len(q) + Len(s)) /\ ~(Len(q) + i <= Len(q)) /\ (Len(q) + i) - Len(q) = i
      BY <1>1
    <2> QED BY <1>2, <1>3, <2>1
  <1>6. Busy(t, p, a, q) \subseteq Busy(t, p, a, r)
    BY <1>4 DEF Busy
  <1>7. \A i \in DOMAIN s : s[i].ex \in Busy(t, p, a, r)
    BY <1>5 DEF Busy
  <1> QED BY <1>6, <1>7 DEF r

-----------------------------------------------------------------------------
\* The tree x, the jobs j and the events q as a handler has left them so far, while
\* it moves the token e; t are the tasks and a the arrivals it will leave.
AtWork(x, t, j, a, q, e) ==
  /\ Tree(x) /\ j \subseteq JobIn(x) /\ q \in Seq(EventIn(x))
  /\ e \in DOMAIN x /\ x[e].live /\ ~completed
  /\ Tended(x, Busy(t, Pend(j), a, q) \cup {e}, collapsing, j)

\* A handler that goes on.
LEMMA ContinueTilled ==
  ASSUME NEW x, NEW t, NEW j, NEW a, NEW q, NEW e \in DOMAIN x, x[e].live, ~completed,
         Tended(x, Busy(t, Pend(j), a, q), collapsing, j),
         Continue(x, j, q), tasks' = t, joins' = a
  PROVE  Tilled
  <1>1. /\ ex' = x /\ jobs' = j /\ queue' = q
        /\ collapsing' = collapsing /\ cmd' = cmd /\ completed' = completed
    BY DEF Continue
  <1>2. Pending' = Pend(j)
    BY <1>1 DEF Pending, Pend
  <1>3. x[Root].live
    BY RootLives DEF Tended
  <1> QED BY <1>1, <1>2, <1>3 DEF Tilled, RootEnds

\* The root ends last.
LEMMA CompleteTilled ==
  ASSUME NEW x, Tree(x), NEW B, NEW c, NEW j, Tended(x, B, c, j), Root \in DOMAIN x,
         Children(x, Root) = {}, ex' = Ended(x, {Root}), jobs' = {}, completed' = TRUE
  PROVE  Tilled
  <1>1. Cuts(x, {Root}, ex')
    BY EndedCuts
  <1>2. \A e \in DOMAIN x : x[e].live => e = Root
    BY RootAlone DEF Tended
  <1>3. \A e \in DOMAIN ex' : ~ex'[e].live
    BY <1>1, <1>2 DEF Cuts
  <1>4. Rooted(ex') /\ Root \in DOMAIN ex'
    BY <1>1 DEF Tended, Rooted, Cuts
  <1>5. Tended(ex', Busy(tasks', Pending', joins', queue'), collapsing', {})
    BY <1>3, <1>4, AllDead
  <1>6. ex' # <<>> /\ ~ex'[Root].live
    <2>1. Root \in DOMAIN ex' /\ ~ex'[Root].live
      BY <1>3, <1>4
    <2>2. DOMAIN <<>> = {}
      OBVIOUS
    <2> QED BY <2>1, <2>2
  <1>7. RootEnds'
    BY <1>6 DEF RootEnds
  <1> QED BY <1>5, <1>7 DEF Tilled

\* A token ends.
LEMMA EndTokenTilled ==
  ASSUME NEW x, NEW t, NEW j, NEW a, NEW q, NEW e, AtWork(x, t, j, a, q, e),
         x[e].role = "TOKEN", x[e].open = None,
         EndToken(x, j, q, e), tasks' = t, joins' = a
  PROVE  Tilled
  <1> DEFINE B == Busy(t, Pend(j), a, q)
  <1>1. /\ Tree(x) /\ j \subseteq JobIn(x) /\ e \in DOMAIN x /\ x[e].live /\ ~completed
        /\ Tended(x, B \cup {e}, collapsing, j)
    BY DEF AtWork
  <1> HIDE DEF B
  <1>2. x[Root].live
    BY <1>1, RootLives DEF Tended
  <1>3. CASE /\ e # Root /\ ex' = Ended(x, {e}) /\ collapsing' = (collapsing \/ x[Root].live)
             /\ jobs' = j /\ queue' = q /\ UNCHANGED <<cmd, completed>>
    <2>1. Children(x, e) = {}
      BY <1>1, <1>3 DEF Tended, Leaves
    <2>2. \A k \in j : k.kind = "timer-event-start" => k.ex # e
      BY <1>1, <1>3 DEF Tended, SubsFollow
    <2>3. \A d \in DOMAIN x \ {e} : x[d].live => \A k \in DOMAIN x[d].path : x[d].path[k] # e
      BY <1>1, <2>1, NoneBelow DEF Tended
    <2>4. Cuts(x, {e}, ex')
      BY <1>1, <1>3, EndedCuts
    <2> DEFINE D == {e}
               B1 == B \cup {e}
               c2 == collapsing'
    <2>7. Pending' = Pend(j) /\ collapsing'
      BY <1>2, <1>3 DEF Pending, Pend
    <2>5. /\ \A d \in DOMAIN x \ D : x[d].live => \A k \in DOMAIN x[d].path : x[d].path[k] \notin D
          /\ \A i \in DOMAIN x \ (D \cup B) : x[i].live => i \notin B1 /\ (c2 \/ Children(x, i) \cap D = {})
          /\ \A k \in j : k.kind = "timer-event-start" => k \in j /\ k.ex \notin D
          /\ Cuts(x, D, ex')
          /\ Tended(x, B1, collapsing, j)
          /\ collapsing => c2
      BY <1>1, <2>2, <2>3, <2>4, <2>7
    <2> HIDE DEF D, B1, c2
    <2>6. Tended(ex', B, c2, j)
      <3>1. Cutting(x, B1, collapsing, j, D, ex', B, c2, j)
        BY <1>1, <2>5 DEF Cutting
      <3> QED BY <3>1, CutsTended
    <2>8. ex'[Root].live /\ ~completed'
      <3>1. x # <<>>
        BY <1>1
      <3>2. Root \in DOMAIN x
        BY <1>1, <3>1 DEF Tree, Linked
      <3> QED BY <1>1, <1>2, <1>3, <2>4, <3>2 DEF Cuts
    <2> QED BY <1>3, <2>6, <2>7, <2>8 DEF Tilled, RootEnds, B, c2
  <1>4. CASE /\ e = Root /\ Children(x, Root) # {}
             /\ Continue([x EXCEPT ![Root].role = "SCOPE", ![Root].act = None], j, q)
    <2> DEFINE y == [x EXCEPT ![Root].role = "SCOPE", ![Root].act = None]
    <2>1. x[e] \in ExecutionIn(x)
      BY <1>1, TreeDomain
    <2> DEFINE r == x[e]
               s == [[r EXCEPT !.role = "SCOPE"] EXCEPT !.act = None]
    <2>9. DOMAIN y = DOMAIN x /\ (\A i \in DOMAIN x \ {e} : y[i] = x[i]) /\ y[e] = s
      BY <1>1, <1>4
    <2>10. s.path = x[e].path /\ s.live = x[e].live /\ s.act = None /\ s.open = x[e].open
      <3> HIDE DEF r
      <3>1. s.path = r.path /\ s.live = r.live /\ s.act = None /\ s.open = r.open
        BY <2>1 DEF ExecutionIn, r
      <3> QED BY <3>1 DEF r
    <2> HIDE DEF y, s
    <2>2. /\ Alters(x, e, y)
          /\ y[e].act = None /\ y[e].open = None
      BY <2>9, <2>10 DEF Alters
    <2>3. None \notin Nodes
      BY ProcAssumption DEF ProcAssumption
    <2>4. \A k \in j : k.kind = "timer-event-start" =>
            k \in j /\ k.ex \in DOMAIN x /\ ~(k.ex = e /\ k.scope # Top)
      BY <1>1 DEF Tended, SubsFollow, JobIn
    <2>5. Tended(y, B \cup {e}, collapsing, j)
      <3>1. Altering(x, B \cup {e}, collapsing, j, e, y, j)
        BY <1>1, <1>4, <2>2, <2>3, <2>4 DEF Altering
      <3> QED BY <3>1, AltersTended
    <2>6. Parked(y, e) /\ Children(y, e) # {}
      BY <1>4, <2>2, AltersShape DEF Parked
    <2>7. Tended(y, B, collapsing, j)
      BY <2>5, <2>6, Parks
    <2>8. e \in DOMAIN y /\ y[e].live
      BY <1>1, <2>2 DEF Alters
    <2> QED BY <1>1, <1>4, <2>7, <2>8, ContinueTilled DEF B, y
  <1>5. CASE e = Root /\ Children(x, Root) = {} /\ CompleteInstance(x, q)
    BY <1>1, <1>5, CompleteTilled DEF CompleteInstance
  <1> QED BY <1>3, <1>4, <1>5 DEF EndToken

\* A fork: its branches hang from it, and it waits for them.
LEMMA ForkTended ==
  ASSUME NEW x, Tree(x), NEW B, NEW j, j \subseteq JobIn(x), NEW e \in DOMAIN x, x[e].live,
         Tended(x, B \cup {e}, collapsing, j),
         x[e].role = "TOKEN", x[e].open = None, x[e].act \in Nodes, Kind(x[e].act) = "parallel",
         NEW k \in Nat \ {0}, NEW B2, B \subseteq B2, \A i \in 1..k : Len(x) + i \in B2
  PROVE  /\ Tended(Fork(x, e, k), B2, collapsing, j)
         /\ e \in DOMAIN Fork(x, e, k) /\ Fork(x, e, k)[e].live
  <1> DEFINE y1 == [x EXCEPT ![e].role = "SCOPE"]
             y == Fork(x, e, k)
             N == {Len(x) + i : i \in 1..k}
             r == x[e]
             s == [r EXCEPT !.role = "SCOPE"]
             path == <<e>> \o x[e].path
  <1>1. Tree(y1) /\ Len(y1) = Len(x) /\ DOMAIN y1 = DOMAIN x
    <2>1. Grows(x, y1) /\ Len(y1) = Len(x)
      BY SetRole
    <2>2. DOMAIN y1 = DOMAIN x
      OBVIOUS
    <2> HIDE DEF y1
    <2> QED BY <2>1, <2>2 DEF Grows
  <1>2. y1[e] = s /\ \A i \in DOMAIN x \ {e} : y1[i] = x[i]
    OBVIOUS
  <1>3. s.path = x[e].path /\ s.live = x[e].live /\ s.act = x[e].act /\ s.open = x[e].open /\ s.role = "SCOPE"
    <2>1. r \in ExecutionIn(x)
      BY TreeDomain
    <2> HIDE DEF r
    <2>2. s.path = r.path /\ s.live = r.live /\ s.act = r.act /\ s.open = r.open /\ s.role = "SCOPE"
      BY <2>1 DEF ExecutionIn
    <2> QED BY <2>2 DEF r
  <1>4. Len(x) \in Nat /\ DOMAIN x = 1..Len(x)
    BY TreeDomain
  <1>5. /\ DOMAIN y = 1..(Len(x) + k)
        /\ \A i \in DOMAIN x \ {e} : y[i] = x[i]
        /\ y[e] = s
        /\ \A i \in 1..k : y[Len(x) + i] = NewExecution(path, "TOKEN", None)
    BY ForkShape
  <1> HIDE DEF y1, y, s, path
  <1>6. Alters(x, e, y1) /\ y1[e].role # "TOKEN" /\ y1[e].open = None
    BY <1>1, <1>2, <1>3 DEF Alters
  <1>7. \A w \in j : w.kind = "timer-event-start" =>
          w \in j /\ w.ex \in DOMAIN x /\ ~(w.ex = e /\ w.scope # Top)
    BY DEF Tended, SubsFollow, JobIn
  <1>8. Tended(y1, B \cup {e}, collapsing, j)
    <2>1. Altering(x, B \cup {e}, collapsing, j, e, y1, j)
      BY <1>6, <1>7 DEF Altering
    <2> QED BY <2>1, AltersTended
  <1>9. /\ path # <<>> /\ Head(path) = e
        /\ \A m \in DOMAIN path : path[m] \in DOMAIN x /\ x[path[m]].live
        /\ \E m \in DOMAIN path : path[m] = Root
    <2>1. Rooted(x) /\ LiveUp(x)
      BY DEF Tended
    <2> QED BY <2>1, ChildLine DEF path
  <1>10. ASSUME NEW n \in N
         PROVE  /\ y[n].path = path /\ y[n].live /\ y[n].act = None
                /\ n \in DOMAIN y /\ n \notin DOMAIN x /\ n \in B2
    <2>1. PICK i \in 1..k : n = Len(x) + i
      OBVIOUS
    <2>2. y[n] = NewExecution(path, "TOKEN", None)
      BY <1>5, <2>1
    <2> QED BY <1>4, <1>5, <2>1, <2>2 DEF NewExecution
  <1>11. DOMAIN y = DOMAIN y1 \cup N
    <2>1. ASSUME NEW i \in 1..(Len(x) + k) PROVE i \in 1..Len(x) \/ (i - Len(x) \in 1..k /\ i = Len(x) + (i - Len(x)))
      BY <1>4
    <2>2. ASSUME NEW i \in 1..(Len(x) + k) PROVE i \in 1..Len(x) \/ i \in N
      BY <2>1
    <2>3. 1..Len(x) \subseteq 1..(Len(x) + k)
      BY <1>4
    <2> HIDE DEF N
    <2> QED BY <1>1, <1>4, <1>5, <1>10, <2>2, <2>3
  <1> HIDE DEF N
  <1>12. \A i \in DOMAIN y1 : y[i] = y1[i]
    BY <1>1, <1>2, <1>5
  <1>13. ASSUME NEW n \in N PROVE Hangs(y, n) /\ Head(y[n].path) = e
    <2>1. ASSUME NEW m \in DOMAIN path PROVE y[path[m]].live
      BY <1>1, <1>2, <1>3, <1>9, <1>12
    <2> QED BY <1>9, <1>10, <2>1 DEF Hangs
  <1>14. Adds(y1, N, y)
    BY <1>1, <1>6, <1>10, <1>11, <1>12, <1>13 DEF Adds
  <1> DEFINE BB == B \cup {e}
             B3 == B2 \cup {e}
  <1>15. /\ j \subseteq JobIn(y1)
         /\ BB \subseteq B3 /\ N \subseteq B3 /\ Tended(y1, BB, collapsing, j)
         /\ \A n \in N : y[n].act \notin Nodes
    <2>1. None \notin Nodes
      BY ProcAssumption DEF ProcAssumption
    <2> QED BY <1>1, <1>8, <1>10, <2>1 DEF JobIn
  <1> HIDE DEF BB, B3
  <1>16. Tended(y, B3, collapsing, j)
    BY <1>1, <1>14, <1>15, AddsBusy
  <1>17. Parked(y, e) /\ Children(y, e) # {}
    <2>1. Len(x) + 1 \in N
      BY DEF N
    <2>2. Len(x) + 1 \in Children(y, e)
      BY <1>9, <1>10, <1>13, <2>1 DEF Children
    <2> QED BY <1>3, <1>5, <2>2 DEF Parked
  <1>18. e \in DOMAIN y /\ y[e].live
    BY <1>1, <1>3, <1>5, <1>11
  <1>19. Tended(y, B2, collapsing, j)
    BY <1>16, <1>17, Parks DEF B3
  <1> QED BY <1>18, <1>19 DEF y

\* A token leaves its node.
LEMMA LeaveTilled ==
  ASSUME NEW x, NEW t, NEW j, NEW a, NEW q, NEW e, AtWork(x, t, j, a, q, e),
         x[e].role = "TOKEN", x[e].open = None, NEW n \in Nodes,
         Len(Out(n)) > 1 => x[e].act \in Nodes /\ Kind(x[e].act) = "parallel",
         Leave(x, j, q, e, n), tasks' = t, joins' = a, cmd' # NoCmd
  PROVE  Tilled
  <1> DEFINE B == Busy(t, Pend(j), a, q)
  <1>1. /\ Tree(x) /\ j \subseteq JobIn(x) /\ e \in DOMAIN x /\ x[e].live /\ ~completed
        /\ Tended(x, B \cup {e}, collapsing, j) /\ q \in Seq(EventIn(x))
    BY DEF AtWork
  <1> HIDE DEF B
  <1>2. CASE EndToken(x, j, q, e)
    BY <1>2, EndTokenTilled
  <1>3. CASE Raise(x, j)
    BY <1>3 DEF Raise
  <1>4. CASE Continue(x, j, Append(q, Enter(e, Out(n)[1])))
    <2> DEFINE v == Out(n)[1]
               q2 == Append(q, Enter(e, v))
    <2> HIDE DEF v
    <2>1. B \cup {e} \subseteq Busy(t, Pend(j), a, q2)
      BY <1>1, BusyNext DEF B
    <2> DEFINE B1 == B \cup {e}
               B2 == Busy(t, Pend(j), a, q2)
    <2>2. B1 \subseteq B2 /\ Tended(x, B1, collapsing, j)
      BY <1>1, <2>1
    <2> HIDE DEF B1, B2, q2
    <2>3. Tended(x, B2, collapsing, j)
      BY <2>2, TendedMore
    <2> QED BY <1>1, <1>4, <2>3, ContinueTilled DEF B2, q2, v
  <1>5. CASE /\ Len(Out(n)) > 1
             /\ Continue(Fork(x, e, Len(Out(n))), j,
                         q \o [i \in DOMAIN Out(n) |-> Enter(Len(x) + i, Out(n)[i])])
    <2> DEFINE k == Len(Out(n))
               y == Fork(x, e, k)
               s == [i \in DOMAIN Out(n) |-> Enter(Len(x) + i, Out(n)[i])]
               q2 == q \o s
               B2 == Busy(t, Pend(j), a, q2)
    <2>1. k \in Nat \ {0} /\ DOMAIN Out(n) = 1..k /\ \A i \in DOMAIN Out(n) : Out(n)[i] \in Nodes
      BY <1>5, OutNodes
    <2>2. Grows(x, y) /\ \A i \in 1..k : Len(x) + i \in DOMAIN y
      BY <1>1, <2>1, ForkTree
    <2>3. DOMAIN x \subseteq DOMAIN y
      BY <2>2 DEF Grows
    <2>4. s \in Seq(EventIn(y))
      <3>1. \A i \in 1..k : Enter(Len(x) + i, Out(n)[i]) \in EventIn(y)
        <4> HIDE DEF k, y
        <4> QED BY <2>1, <2>2 DEF Enter, EventIn
      <3>2. s \in [1..k -> EventIn(y)]
        BY <2>1, <3>1
      <3> QED BY <2>1, <3>2, FunctionIsSeq
    <2>5. q \in Seq(EventIn(y))
      BY <1>1, <2>3, InMonotone
    <2>6. \A i \in DOMAIN s : s[i].ex \in B2
      <3> HIDE DEF s, y
      <3> QED BY <2>4, <2>5, BusyBranches
    <2>7. B \subseteq B2
      <3> HIDE DEF s, y
      <3> QED BY <2>4, <2>5, BusyBranches DEF B
    <2>8. \A i \in 1..k : Len(x) + i \in B2
      <3>1. \A i \in 1..k : i \in DOMAIN s /\ s[i].ex = Len(x) + i
        BY <2>1 DEF Enter
      <3> HIDE DEF s, B2
      <3> QED BY <2>6, <3>1
    <2> HIDE DEF k, B2
    <2>9. Tended(y, B2, collapsing, j) /\ e \in DOMAIN y /\ y[e].live
      BY <1>1, <1>5, <2>1, <2>7, <2>8, ForkTended DEF k
    <2> HIDE DEF y, s
    <2> QED BY <1>1, <1>5, <2>9, ContinueTilled DEF B2, y, s, k
  <1> QED BY <1>2, <1>3, <1>4, <1>5 DEF Leave

\* An exclusive gateway.
LEMMA ChooseTilled ==
  ASSUME NEW x, NEW t, NEW a, NEW q, NEW e, AtWork(x, t, jobs, a, q, e), NEW n,
         Choose(x, q, e, n), tasks' = t, joins' = a, cmd' # NoCmd
  PROVE  Tilled
  <1>1. PICK v : Continue(x, jobs, Append(q, Enter(e, v)))
    BY DEF Choose, Raise
  <1> DEFINE B1 == Busy(t, Pend(jobs), a, q) \cup {e}
             q2 == Append(q, Enter(e, v))
             B2 == Busy(t, Pend(jobs), a, q2)
  <1>2. /\ Tree(x) /\ e \in DOMAIN x /\ x[e].live /\ ~completed
        /\ Tended(x, B1, collapsing, jobs) /\ q \in Seq(EventIn(x))
    BY DEF AtWork
  <1>3. B1 \subseteq B2
    BY <1>2, BusyNext
  <1> HIDE DEF B1, B2, q2
  <1>4. Tended(x, B2, collapsing, jobs)
    BY <1>2, <1>3, TendedMore
  <1> QED BY <1>1, <1>2, <1>4, ContinueTilled DEF B2, q2

\* The token whose event is taken stays busy.
LEMMA HeadTended ==
  ASSUME IInv, TInv, Pumping
  PROVE  /\ Tended(ex, Busy(tasks, Pend(jobs), joins, Rest) \cup {Tok}, collapsing, jobs)
         /\ \A e \in Busy(tasks, Pend(jobs), joins, queue) \ {Tok} : e \in Busy(tasks, Pend(jobs), joins, Rest)
         /\ ~collapsing /\ ~completed
  <1>1. /\ queue \in Seq(EventIn(ex)) /\ queue # <<>> /\ ~collapsing /\ ~completed
    BY DEF IInv, Pumping
  <1>2. /\ Rest \in Seq(EventIn(ex))
        /\ Len(queue) \in Nat \ {0}
        /\ DOMAIN queue = 1..Len(queue)
        /\ Len(Rest) = Len(queue) - 1
        /\ \A i \in 1..Len(Rest) : Rest[i] = queue[i + 1]
        /\ Head(queue) = queue[1]
    BY <1>1, HeadTailProperties, EmptySeq, LenProperties DEF Rest
  <1>3. DOMAIN Rest = 1..Len(Rest) /\ Tok = queue[1].ex
    BY <1>2, LenProperties DEF Tok
  <1>4. ASSUME NEW i \in DOMAIN queue
        PROVE  i = 1 \/ (i - 1 \in DOMAIN Rest /\ Rest[i - 1] = queue[i])
    <2>1. i # 1 => i - 1 \in 1..Len(Rest) /\ (i - 1) + 1 = i
      BY <1>2
    <2> QED BY <1>2, <1>3, <2>1
  <1>5. ASSUME NEW e \in Busy(tasks, Pend(jobs), joins, queue)
        PROVE  e \in Busy(tasks, Pend(jobs), joins, Rest) \/ e = Tok
    <2>1. CASE \E i \in DOMAIN queue : e = queue[i].ex
      BY <1>3, <1>4, <2>1 DEF Busy
    <2> QED BY <2>1 DEF Busy
  <1> DEFINE B == Busy(tasks, Pend(jobs), joins, queue)
             B2 == Busy(tasks, Pend(jobs), joins, Rest) \cup {Tok}
  <1>6. B \subseteq B2 /\ Tended(ex, B, collapsing, jobs)
    BY <1>5 DEF TInv, Pending
  <1> HIDE DEF B, B2
  <1>7. Tended(ex, B2, collapsing, jobs)
    BY <1>6, TendedMore
  <1> QED BY <1>1, <1>5, <1>7 DEF B, B2

\* A handler moves its token only.
LEMMA ArrivedAlters ==
  ASSUME IInv, PInv, Pumping, ex[Tok].live, Mode \in {"enter", "resume"},
         NEW x \in {Moved, Opened, Closed}
  PROVE  Alters(ex, Tok, x)
  <1>1. Tok \in DOMAIN ex /\ At \in Nodes /\ Tree(ex) /\ ex[Tok] \in ExecutionIn(ex)
    BY HeadEvent, TreeDomain DEF IInv
  <1>2. Mode = "resume" => ex[Tok].act = At
    BY Popped DEF FirstEvent
  <1>3. /\ DOMAIN Moved = DOMAIN ex
        /\ \A i \in DOMAIN ex \ {Tok} : Moved[i] = ex[i]
        /\ Moved[Tok] = [ex[Tok] EXCEPT !.act = At]
    BY <1>1, <1>2 DEF Moved, ExecutionIn
  <1> DEFINE r == Moved[Tok]
             Set(n) == [Moved EXCEPT ![Tok].open = n]
  <1>4. r \in ExecutionIn(ex) /\ r.path = ex[Tok].path /\ r.live = ex[Tok].live
    BY <1>1, <1>3 DEF ExecutionIn
  <1>5. ASSUME NEW n \in Nodes \cup {None}
        PROVE  /\ DOMAIN Set(n) = DOMAIN ex
               /\ \A i \in DOMAIN ex \ {Tok} : Set(n)[i] = ex[i]
               /\ Set(n)[Tok].path = ex[Tok].path /\ Set(n)[Tok].live = ex[Tok].live
    <2>1. /\ DOMAIN Set(n) = DOMAIN ex
          /\ \A i \in DOMAIN ex \ {Tok} : Set(n)[i] = ex[i]
          /\ Set(n)[Tok] = [r EXCEPT !.open = n]
      BY <1>1, <1>3
    <2> HIDE DEF r, Set
    <2> QED BY <1>4, <2>1 DEF ExecutionIn
  <1>6. Opened = Set(At) /\ Closed = Set(None)
    BY DEF Opened, Closed
  <1>7. r = Moved[Tok]
    OBVIOUS
  <1> HIDE DEF r, Set
  <1>8. Alters(ex, Tok, Moved)
    BY <1>3, <1>4, <1>7 DEF Alters
  <1>9. \A n \in Nodes \cup {None} : Alters(ex, Tok, Set(n))
    BY <1>5 DEF Alters
  <1> QED BY <1>1, <1>6, <1>8, <1>9

LEMMA ArrivedTended ==
  ASSUME IInv, PInv, TInv, Pumping, ex[Tok].live, Mode \in {"enter", "resume"},
         NEW x \in {Moved, Opened, Closed}
  PROVE  AtWork(x, tasks, jobs, joins, Rest, Tok)
  <1> DEFINE B == Busy(tasks, Pend(jobs), joins, Rest) \cup {Tok}
  <1>1. Alters(ex, Tok, x)
    BY ArrivedAlters
  <1>2. /\ Tree(x) /\ DOMAIN x = DOMAIN ex /\ Tok \in DOMAIN x /\ x[Tok].live
        /\ x[Tok].role = "TOKEN" /\ Rest \in Seq(EventIn(x))
    BY Arrived
  <1>3. Tree(ex) /\ ex[Tok].role = "TOKEN" /\ Tok \in B /\ jobs \subseteq JobIn(ex)
    BY Popped DEF IInv
  <1>4. Tended(ex, B, collapsing, jobs) /\ ~completed
    BY HeadTended
  <1> HIDE DEF B
  <1>5. Tok # Root => Children(ex, Tok) = {}
    BY <1>2, <1>3, <1>4 DEF Tended, Leaves
  <1>6. \A k \in jobs : k.kind = "timer-event-start" =>
          k \in jobs /\ k.ex \in DOMAIN ex /\ ~(k.ex = Tok /\ k.scope # Top)
    BY <1>3, <1>4 DEF Tended, SubsFollow, JobIn
  <1>7. Tended(x, B, collapsing, jobs)
    <2>1. Altering(ex, B, collapsing, jobs, Tok, x, jobs)
      BY <1>1, <1>2, <1>3, <1>4, <1>5, <1>6 DEF Altering
    <2> QED BY <2>1, AltersTended
  <1>8. jobs \subseteq JobIn(x)
    BY <1>2, <1>3 DEF JobIn
  <1> QED BY <1>2, <1>4, <1>7, <1>8 DEF AtWork, B

\* A token waits for what its handler leaves.
LEMMA WaitsTilled ==
  ASSUME NEW x, NEW q, NEW e, AtWork(x, tasks, jobs, joins, q, e),
         NEW t, tasks \subseteq t, NEW j, Pend(jobs) \subseteq Pend(j), NEW a, joins \subseteq a,
         \E u \in t \cup Pend(j) \cup a : u.ex = e,
         \A k \in j : k.kind = "timer-event-start" => k \in jobs,
         Continue(x, j, q), tasks' = t, joins' = a
  PROVE  Tilled
  <1> DEFINE B == Busy(tasks, Pend(jobs), joins, q)
             B1 == B \cup {e}
             B2 == Busy(t, Pend(j), a, q)
  <1>1. e \in DOMAIN x /\ x[e].live /\ ~completed /\ Tended(x, B1, collapsing, jobs)
    BY DEF AtWork
  <1>2. B \subseteq B2 /\ e \in B2
    BY BusyWith
  <1>3. B1 \subseteq B2
    BY <1>2
  <1> HIDE DEF B1, B2
  <1>4. Tended(x, B2, collapsing, j)
    BY <1>1, <1>3, TendedMore
  <1> QED BY <1>1, <1>4, ContinueTilled DEF B2

LEMMA BoundarySubs ==
  ASSUME NEW j, NEW e, NEW h
  PROVE  /\ \A k \in WithBoundaries(j, e, h) : k.kind = "timer-event-start" => k \in j
         /\ j \subseteq WithBoundaries(j, e, h)
  BY DEF WithBoundaries, NewJob

LEMMA PassStartTilled ==
  ASSUME ForksAtGateways, IInv, PInv, TInv, ~Raises, PassStart
  PROVE  Tilled
  <1>1. /\ Pumping /\ ex[Tok].live /\ Mode \in {"enter", "resume"} /\ Kind(At) \in StartKinds
        /\ Leave(Closed, jobs, Rest, Tok, At) /\ tasks' = tasks /\ joins' = joins
    BY DEF PassStart, Behaves
  <1>2. AtWork(Closed, tasks, jobs, joins, Rest, Tok)
    BY <1>1, ArrivedTended
  <1>3. /\ Closed[Tok].role = "TOKEN" /\ Closed[Tok].open = None /\ At \in Nodes
    BY <1>1, Arrived
  <1>4. ~(Len(Out(At)) > 1)
    BY <1>1, <1>3 DEF ForksAtGateways, StartKinds
  <1> QED BY <1>1, <1>2, <1>3, <1>4, PumpKeepsLock, LeaveTilled

LEMMA ReachEndTilled ==
  ASSUME IInv, PInv, TInv, ReachEnd \/ UncaughtError
  PROVE  Tilled
  <1>1. /\ Pumping /\ ex[Tok].live /\ Mode \in {"enter", "resume"}
        /\ EndToken(Closed, jobs, Rest, Tok) /\ tasks' = tasks /\ joins' = joins
    BY DEF ReachEnd, UncaughtError, Behaves
  <1>2. AtWork(Closed, tasks, jobs, joins, Rest, Tok)
    BY <1>1, ArrivedTended
  <1>3. /\ Closed[Tok].role = "TOKEN" /\ Closed[Tok].open = None
    BY <1>1, Arrived
  <1> QED BY <1>1, <1>2, <1>3, EndTokenTilled

\* A node left by a job.
LEMMA AfterTilled ==
  ASSUME IInv, PInv, TInv, NEW kinds, Behaves(kinds), UNCHANGED <<tasks, joins>>,
         Continue(Closed, jobs \cup {NewWait("async-after", Tok, At)}, Rest)
  PROVE  Tilled
  <1> DEFINE w == NewWait("async-after", Tok, At)
  <1>1. w # cmd /\ w.kind = "async-after" /\ w.ex = Tok
    BY ClosedReady, NewWaitIn DEF WaitKinds
  <1>2. Closed = Closed /\ Continue(Closed, jobs \cup {w}, Rest) /\ tasks' = tasks /\ joins' = joins
    OBVIOUS
  <1> HIDE DEF w
  <1>3. Pend(jobs \cup {w}) = Pend(jobs) \cup {w}
    BY <1>1, PendAdded DEF WaitKinds
  <1>4. AtWork(Closed, tasks, jobs, joins, Rest, Tok)
    BY ClosedReady, ArrivedTended
  <1>5. \A k \in jobs \cup {w} : k.kind = "timer-event-start" => k \in jobs
    BY <1>1
  <1>6. \E u \in tasks \cup Pend(jobs \cup {w}) \cup joins : u.ex = Tok
    BY <1>1, <1>3
  <1>7. Pend(jobs) \subseteq Pend(jobs \cup {w})
    BY <1>3
  <1> QED BY <1>2, <1>4, <1>5, <1>6, <1>7, WaitsTilled

LEMMA RunServiceTilled ==
  ASSUME ForksAtGateways, IInv, PInv, TInv, ~Raises, RunService
  PROVE  Tilled
  <1>1. Behaves({"service"}) /\ UNCHANGED <<tasks, joins>>
    BY DEF RunService
  <1>2. /\ Pumping /\ ex[Tok].live /\ Mode \in {"enter", "resume"} /\ Kind(At) = "service" /\ cmd' # NoCmd
    BY <1>1, PumpKeepsLock DEF Behaves
  <1>3. CASE Continue(Closed, jobs \cup {NewWait("async-after", Tok, At)}, Rest)
    BY <1>1, <1>3, AfterTilled
  <1>4. CASE Leave(Closed, jobs, Rest, Tok, At)
    <2>1. AtWork(Closed, tasks, jobs, joins, Rest, Tok)
      BY <1>2, ArrivedTended
    <2>2. /\ Closed[Tok].role = "TOKEN" /\ Closed[Tok].open = None /\ At \in Nodes
      BY <1>2, Arrived
    <2>3. ~(Len(Out(At)) > 1)
      BY <1>2, <2>2 DEF ForksAtGateways
    <2> QED BY <1>1, <1>2, <1>4, <2>1, <2>2, <2>3, LeaveTilled
  <1> QED BY <1>2, <1>3, <1>4 DEF RunService, Raise

LEMMA ChooseFlowTilled ==
  ASSUME IInv, PInv, TInv, ~Raises, ChooseFlow
  PROVE  Tilled
  <1>1. Behaves({"xor"}) /\ UNCHANGED <<tasks, joins>>
    BY DEF ChooseFlow
  <1>2. /\ Pumping /\ ex[Tok].live /\ Mode \in {"enter", "resume"} /\ cmd' # NoCmd
    BY <1>1, PumpKeepsLock DEF Behaves
  <1>3. CASE Continue(Closed, jobs \cup {NewWait("async-after", Tok, At)}, Rest)
    BY <1>1, <1>3, AfterTilled
  <1>4. CASE Choose(Closed, Rest, Tok, At)
    <2>1. AtWork(Closed, tasks, jobs, joins, Rest, Tok)
      BY <1>2, ArrivedTended
    <2> QED BY <1>1, <1>2, <1>4, <2>1, ChooseTilled
  <1> QED BY <1>3, <1>4 DEF ChooseFlow

LEMMA DropEventTilled ==
  ASSUME IInv, TInv, DropEvent
  PROVE  Tilled
  <1>1. /\ Pumping /\ ~ex[Tok].live /\ queue' = Rest /\ collapsing' = collapsing
        /\ ex' = ex /\ tasks' = tasks /\ jobs' = jobs /\ joins' = joins /\ cmd' = cmd
        /\ completed' = completed
    BY DEF DropEvent
  <1> DEFINE B == Busy(tasks, Pend(jobs), joins, queue)
             B2 == Busy(tasks, Pend(jobs), joins, Rest)
  <1>2. \A e \in B \ {Tok} : e \in B2
    BY <1>1, HeadTended
  <1>3. Tended(ex, B, collapsing, jobs) /\ RootEnds
    BY DEF TInv, Pending
  <1>4. Pending' = Pend(jobs)
    BY <1>1 DEF Pending, Pend
  <1> HIDE DEF B, B2
  <1>5. \A e \in B \cap DOMAIN ex : ex[e].live => e \in B2
    BY <1>1, <1>2
  <1>6. Tended(ex, B2, collapsing, jobs)
    BY <1>3, <1>5, TendedMore
  <1> QED BY <1>1, <1>3, <1>4, <1>6 DEF Tilled, RootEnds, B2

LEMMA ScheduleAsyncBeforeTilled ==
  ASSUME IInv, PInv, TInv, ~Raises, ScheduleAsyncBefore
  PROVE  Tilled
  <1> DEFINE x == [ex EXCEPT ![Tok].act = At, ![Tok].open = At]
             w == NewWait("async-continuation", Tok, At)
             j1 == jobs \cup {w}
             j == WithBoundaries(j1, Tok, At)
  <1>1. Pumping /\ ex[Tok].live /\ Mode = "enter" /\ tasks' = tasks /\ joins' = joins
    BY DEF ScheduleAsyncBefore
  <1>2. cmd' # NoCmd
    BY <1>1, PumpKeepsLock
  <1>3. Continue(x, j, Rest)
    BY <1>2 DEF ScheduleAsyncBefore, Raise
  <1>4. x = Opened
    BY <1>1 DEF Opened, Moved
  <1>5. w # cmd /\ w.kind = "async-continuation" /\ w.ex = Tok
    BY <1>1, Arrived, NewWaitIn DEF WaitKinds
  <1> HIDE DEF x, w
  <1>6. Pend(j1) = Pend(jobs) \cup {w}
    BY <1>5, PendAdded DEF WaitKinds
  <1>7. \A k \in j1 : k.kind = "timer-event-start" => k \in jobs
    BY <1>5
  <1> HIDE DEF j1
  <1>8. Pend(j) = Pend(jobs) \cup {w}
    BY <1>6, PendBoundaries
  <1>9. \A k \in j : k.kind = "timer-event-start" => k \in jobs
    BY <1>7, BoundarySubs
  <1>10. AtWork(Opened, tasks, jobs, joins, Rest, Tok)
    BY <1>1, ArrivedTended
  <1> HIDE DEF j
  <1>11. Continue(Opened, j, Rest) /\ Pend(jobs) \subseteq Pend(j)
    BY <1>3, <1>4, <1>8
  <1>12. \E u \in tasks \cup Pend(j) \cup joins : u.ex = Tok
    BY <1>5, <1>8
  <1> QED BY <1>1, <1>9, <1>10, <1>11, <1>12, WaitsTilled

LEMMA EnterTimerCatchTilled ==
  ASSUME IInv, PInv, TInv, EnterTimerCatch
  PROVE  Tilled
  <1> DEFINE w == NewWait("timer-catch", Tok, At)
             j == jobs \cup {w}
  <1>1. /\ Pumping /\ ex[Tok].live /\ Mode \in {"enter", "resume"} /\ Kind(At) = "catch"
        /\ tasks' = tasks /\ joins' = joins
        /\ Continue(Opened, j, Rest)
    BY DEF EnterTimerCatch, Behaves
  <1>2. w # cmd /\ w.kind = "timer-catch" /\ w.ex = Tok
    BY <1>1, Arrived, NewWaitIn DEF WaitKinds
  <1> HIDE DEF w
  <1>3. Pend(j) = Pend(jobs) \cup {w}
    BY <1>2, PendAdded DEF WaitKinds
  <1>4. \A k \in j : k.kind = "timer-event-start" => k \in jobs
    BY <1>2
  <1>5. AtWork(Opened, tasks, jobs, joins, Rest, Tok)
    BY <1>1, ArrivedTended
  <1>6. \E u \in tasks \cup Pend(j) \cup joins : u.ex = Tok
    BY <1>2, <1>3
  <1> HIDE DEF j
  <1>7. Pend(jobs) \subseteq Pend(j)
    BY <1>3
  <1> QED BY <1>1, <1>4, <1>5, <1>6, <1>7, WaitsTilled

LEMMA EnterUserTaskWaitTilled ==
  ASSUME IInv, PInv, TInv, ~Raises, EnterUserTaskWait
  PROVE  Tilled
  <1> DEFINE w == [ex |-> Tok, node |-> At]
             t == tasks \cup {w}
  <1>1. /\ Pumping /\ ex[Tok].live /\ Mode \in {"enter", "resume"}
        /\ tasks' = t /\ joins' = joins
    BY DEF EnterUserTaskWait, Behaves
  <1>2. cmd' # NoCmd
    BY <1>1, PumpKeepsLock
  <1>3. w.ex = Tok
    OBVIOUS
  <1>4. PICK j \in {jobs, WithBoundaries(jobs, Tok, At)} : Continue(Opened, j, Rest)
    BY <1>2 DEF EnterUserTaskWait, Raise
  <1>5. Pend(j) = Pend(jobs)
    BY PendBoundaries
  <1>6. \A k \in j : k.kind = "timer-event-start" => k \in jobs
    BY <1>4, BoundarySubs
  <1> HIDE DEF w
  <1>7. AtWork(Opened, tasks, jobs, joins, Rest, Tok)
    BY <1>1, ArrivedTended
  <1>8. \E u \in t \cup Pend(j) \cup joins : u.ex = Tok
    BY <1>3
  <1>9. tasks \subseteq t /\ Pend(jobs) \subseteq Pend(j)
    BY <1>5
  <1> HIDE DEF t
  <1> QED BY <1>1, <1>4, <1>6, <1>7, <1>8, <1>9, WaitsTilled

LEMMA WaitAtJoinTilled ==
  ASSUME IInv, PInv, TInv, ~Raises, WaitAtJoin
  PROVE  Tilled
  <1> DEFINE w == NewArrival(At, Tok)
             a == joins \cup {w}
  <1>1. /\ Pumping /\ ex[Tok].live /\ Mode \in {"enter", "resume"}
        /\ tasks' = tasks /\ joins' = a
        /\ Continue(Moved, jobs, Rest)
    BY PumpKeepsLock DEF WaitAtJoin, Behaves, Raise
  <1>2. w.ex = Tok
    BY DEF NewArrival
  <1> HIDE DEF w
  <1>3. AtWork(Moved, tasks, jobs, joins, Rest, Tok)
    BY <1>1, ArrivedTended
  <1>4. (\E u \in tasks \cup Pend(jobs) \cup a : u.ex = Tok) /\ joins \subseteq a
    BY <1>2
  <1> HIDE DEF a
  <1> QED BY <1>1, <1>3, <1>4, WaitsTilled

LEMMA DepartNodeTilled ==
  ASSUME ForksAtGateways, IInv, PInv, TInv, ~Raises, DepartNode
  PROVE  Tilled
  <1>1. Pumping /\ Mode = "leave" /\ ex[Tok].live /\ tasks' = tasks /\ joins' = joins /\ queue # <<>>
    BY DEF DepartNode, Pumping
  <1>2. /\ Rest \in Seq(EventIn(ex)) /\ Tree(ex) /\ ex[Tok].role = "TOKEN" /\ jobs \subseteq JobIn(ex)
    BY <1>1, Popped DEF IInv
  <1>3. Tok \in DOMAIN ex /\ At \in Nodes
    BY <1>1, HeadEvent
  <1>4. cmd' # NoCmd
    BY <1>1, PumpKeepsLock
  <1>5. AtWork(ex, tasks, jobs, joins, Rest, Tok)
    BY <1>1, <1>2, <1>3, HeadTended DEF AtWork
  <1>6. CASE Choose(ex, Rest, Tok, At)
    BY <1>1, <1>4, <1>5, <1>6, ChooseTilled
  <1>7. CASE Kind(At) # "xor" /\ Leave(ex, jobs, Rest, Tok, At)
    <2>1. ex[Tok].open = None /\ (Kind(At) # "boundary" => ex[Tok].act = At)
      BY <1>1 DEF TInv, FirstLeaves
    <2>2. Len(Out(At)) > 1 => ex[Tok].act \in Nodes /\ Kind(ex[Tok].act) = "parallel"
      BY <1>3, <1>7, <2>1 DEF ForksAtGateways
    <2> QED BY <1>1, <1>2, <1>3, <1>4, <1>5, <1>7, <2>1, <2>2, LeaveTilled
  <1> QED BY <1>6, <1>7 DEF DepartNode

\* Subscriptions of a live scope.
LEMMA SubsAdded ==
  ASSUME NEW x, NEW B, NEW c, NEW j, Tended(x, B, c, j), NEW j2,
         \A k \in j2 : k.kind = "timer-event-start" =>
           k \in j \/ ( /\ x[k.ex].live /\ k.scope # Top /\ x[k.ex].role # "TOKEN"
                        /\ x[k.ex].act = k.scope /\ Kind(k.scope) \in SubKinds)
  PROVE  Tended(x, B, c, j2)
  BY DEF Tended, SubsFollow

LEMMA EnterSubprocessTilled ==
  ASSUME IInv, PInv, TInv, ~Raises, EnterSubprocess
  PROVE  Tilled
  <1> DEFINE s == [Opened EXCEPT ![Tok].role = "SCOPE"]
             path == <<Tok>> \o ex[Tok].path
             r == NewExecution(path, "TOKEN", None)
             x == Append(s, r)
             j1 == WithBoundaries(jobs, Tok, At)
             j == j1 \cup EventTimers(Tok, At)
             q == Append(Rest, Enter(Len(x), Proc.start[At]))
  <1>1. /\ Pumping /\ ex[Tok].live /\ Mode \in {"enter", "resume"} /\ Kind(At) = "sub"
        /\ tasks' = tasks /\ joins' = joins
    BY DEF EnterSubprocess, Behaves
  <1>2. cmd' # NoCmd
    BY <1>1, PumpKeepsLock
  <1>3. Continue(x, j, q)
    BY <1>2 DEF EnterSubprocess, Raise
  <1>4. /\ Tree(Opened) /\ Tok \in DOMAIN Opened /\ Opened[Tok] \in ExecutionIn(Opened)
        /\ Opened[Tok].act = At /\ Opened[Tok].live /\ At \in Nodes
        /\ Opened[Tok].role = "TOKEN"
        /\ DOMAIN Opened = DOMAIN ex
        /\ Rest \in Seq(EventIn(Opened))
    BY <1>1, Arrived, TreeDomain
  <1>5. Opened[Tok].path = ex[Tok].path
    BY <1>1, <1>4, ArrivedAlters DEF Alters
  <1>6. /\ DOMAIN s = DOMAIN Opened
        /\ \A i \in DOMAIN Opened \ {Tok} : s[i] = Opened[i]
        /\ s[Tok].path = Opened[Tok].path /\ s[Tok].live = Opened[Tok].live
        /\ s[Tok].act = At /\ s[Tok].role = "SCOPE"
    BY <1>4 DEF ExecutionIn
  <1>7. Grows(Opened, s)
    BY <1>4, SetRole
  <1> HIDE DEF s, path
  <1>8. Tree(s) /\ Rest \in Seq(EventIn(s)) /\ jobs \subseteq JobIn(s)
    <2>1. jobs \subseteq JobIn(Opened)
      BY <1>1, ArrivedTended DEF AtWork
    <2> QED BY <1>4, <1>6, <1>7, <2>1, InMonotone DEF Grows
  <1> DEFINE B == Busy(tasks, Pend(jobs), joins, Rest)
             B1 == B \cup {Tok}
  <1>9. Tended(Opened, B1, collapsing, jobs) /\ ~completed
    BY <1>1, ArrivedTended DEF AtWork
  <1>10. Alters(Opened, Tok, s) /\ Tok \in B1
    BY <1>6 DEF Alters
  <1> HIDE DEF B, B1
  <1>11. \A k \in jobs : k.kind = "timer-event-start" =>
           k \in jobs /\ k.ex \in DOMAIN Opened /\ ~(k.ex = Tok /\ k.scope # Top)
    BY <1>4, <1>6, <1>8, <1>9 DEF Tended, SubsFollow, JobIn
  <1>12. Tended(s, B1, collapsing, jobs)
    <2>1. Altering(Opened, B1, collapsing, jobs, Tok, s, jobs)
      BY <1>1, <1>4, <1>6, <1>9, <1>10, <1>11 DEF Altering
    <2> QED BY <2>1, AltersTended
  <1>13. /\ path # <<>> /\ Head(path) = Tok
         /\ \A m \in DOMAIN path : path[m] \in DOMAIN s /\ s[path[m]].live
         /\ \E m \in DOMAIN path : path[m] = Root
    <2>1. Rooted(s) /\ LiveUp(s)
      BY <1>12 DEF Tended
    <2>2. Tok \in DOMAIN s /\ s[Tok].live /\ path = <<Tok>> \o s[Tok].path
      BY <1>4, <1>5, <1>6 DEF path
    <2> QED BY <1>8, <2>1, <2>2, ChildLine
  <1> DEFINE e == Len(s) + 1
             N == {e}
  <1>14. r.path = path /\ r.live /\ r.act = None /\ r.role = "TOKEN"
    BY DEF NewExecution
  <1> HIDE DEF r
  <1>15. /\ Len(x) = e /\ DOMAIN x = DOMAIN s \cup N /\ (\A i \in DOMAIN s : x[i] = s[i])
         /\ x[e] = r /\ e \notin DOMAIN s
    BY <1>8, Appended
  <1> HIDE DEF x, e
  <1>16. Adds(s, N, x)
    <2>1. Hangs(x, e) /\ Head(x[e].path) = Tok
      BY <1>13, <1>14, <1>15 DEF Hangs
    <2>2. x[Tok].role # "TOKEN"
      BY <1>4, <1>6, <1>15
    <2> QED BY <1>15, <2>1, <2>2 DEF Adds
  <1>17. Pend(j) = Pend(jobs)
    BY PendBoundaries, PendTimers
  <1> DEFINE B2 == Busy(tasks, Pend(j), joins, q)
             B3 == B2 \cup {Tok}
  <1>18. B \cup {e} \subseteq B2
    <2>1. B \cup {e} \subseteq Busy(tasks, Pend(jobs), joins, Append(Rest, Enter(e, Proc.start[At])))
      BY <1>8, BusyNext DEF B
    <2> QED BY <1>15, <1>17, <2>1
  <1> HIDE DEF B2
  <1>19. B1 \subseteq B3 /\ N \subseteq B3
    BY <1>18 DEF B1
  <1>20. \A k \in j1 : k.kind = "timer-event-start" => k \in jobs
    BY BoundarySubs
  <1>21. \A n \in N : x[n].act \notin Nodes
    BY <1>14, <1>15, ProcAssumption DEF ProcAssumption
  <1> HIDE DEF N, B3, j1
  <1>22. Tended(x, B3, collapsing, j1)
    BY <1>8, <1>12, <1>16, <1>19, <1>20, <1>21, AddsBusy
  <1>23. /\ Tok \in DOMAIN x /\ x[Tok].live /\ x[Tok].role # "TOKEN" /\ x[Tok].act = At
    BY <1>4, <1>6, <1>15
  <1>24. e \in Children(x, Tok)
    BY <1>13, <1>14, <1>15 DEF Children, N
  <1>25. Parked(x, Tok)
    BY <1>1, <1>4, <1>23 DEF Parked, SubKinds
  <1>26. Tended(x, B2, collapsing, j1)
    BY <1>22, <1>24, <1>25, Parks DEF B3
  <1>27. Tended(x, B2, collapsing, j)
    <2>1. At # Top
      BY <1>4, ProcAssumption DEF ProcAssumption
    <2>2. \A k \in EventTimers(Tok, At) : k.ex = Tok /\ k.scope = At
      BY DEF EventTimers, NewJob
    <2> QED BY <1>1, <1>23, <1>26, <2>1, <2>2, SubsAdded DEF SubKinds
  <1> HIDE DEF j, q
  <1> QED BY <1>1, <1>3, <1>9, <1>23, <1>27, ContinueTilled DEF B2

\* Who carries on after a join depends on the roles above the token only.
LEMMA SameActors ==
  ASSUME NEW x, NEW y, NEW e, y[e].path = x[e].path,
         \A k \in DOMAIN x[e].path : y[x[e].path[k]].role = x[x[e].path[k]].role
  PROVE  JoinActors(y, e) = JoinActors(x, e)
  <1> DEFINE p == x[e].path
             S(v) == {k \in DOMAIN p : v[p[k]].role # "TOKEN"}
             Q(T) == IF T = {} THEN {e} ELSE {p[k] : k \in {k \in T : \A m \in T : k <= m}}
  <1>1. S(x) = S(y)
    OBVIOUS
  <1>2. JoinActors(x, e) = Q(S(x)) /\ JoinActors(y, e) = Q(S(y))
    BY DEF JoinActors
  <1> HIDE DEF Q, S
  <1> QED BY <1>1, <1>2

\* Tokens end.
LEMMA TokensCut ==
  ASSUME NEW u, Tree(u), NEW B, NEW c, NEW j, j \subseteq JobIn(u), Tended(u, B, c, j),
         NEW D, \A d \in D : d \in DOMAIN u /\ d # Root /\ u[d].live /\ u[d].role = "TOKEN",
         NEW B2, \A i \in B \ D : i \in B2,
         \A i \in DOMAIN u \ B2 : Children(u, i) \cap D = {}
  PROVE  Tended(Ended(u, D), B2, c, j) /\ \A i : Children(Ended(u, D), i) = Children(u, i) \ D
  <1> DEFINE x == Ended(u, D)
  <1>1. \A d \in D : Children(u, d) = {}
    BY DEF Tended, Leaves
  <1>2. \A d \in DOMAIN u \ D : u[d].live => \A k \in DOMAIN u[d].path : u[d].path[k] \notin D
    <2>1. LiveUp(u)
      BY DEF Tended
    <2>2. ASSUME NEW d \in DOMAIN u, u[d].live, NEW k \in DOMAIN u[d].path, u[d].path[k] \in D PROVE FALSE
      BY <1>1, <2>1, <2>2, NoneBelow
    <2> QED BY <2>2
  <1>3. \A k \in j : k.kind = "timer-event-start" => k \in j /\ k.ex \notin D
    BY DEF Tended, SubsFollow
  <1>4. Cuts(u, D, x)
    BY EndedCuts
  <1>5. \A i \in DOMAIN u \ (D \cup B2) : u[i].live => i \notin B /\ (c \/ Children(u, i) \cap D = {})
    OBVIOUS
  <1>6. c => c
    OBVIOUS
  <1> HIDE DEF x
  <1>7. Tended(x, B2, c, j) /\ \A i : Children(x, i) = Children(u, i) \ D
    <2>1. Cutting(u, B, c, j, D, x, B2, c, j)
      BY <1>2, <1>3, <1>4, <1>5, <1>6 DEF Cutting
    <2> QED BY <2>1, CutsTended
  <1> QED BY <1>7 DEF x

\* A fork whose branches are over is a token again.
Reviving(x, B, c, j, a, z) ==
  /\ Tree(x) /\ j \subseteq JobIn(x) /\ Tended(x, B, c, j)
  /\ a \in B /\ a \in DOMAIN x /\ x[a].role # "TOKEN"
  /\ x[a].act \in Nodes /\ Kind(x[a].act) = "parallel"
  /\ a # Root => Children(x, a) = {}
  /\ z = [x EXCEPT ![a].role = "TOKEN"]

LEMMA ForkRevived ==
  ASSUME NEW x, NEW B, NEW c, NEW j, NEW a, NEW z, Reviving(x, B, c, j, a, z)
  PROVE  /\ Tree(z) /\ DOMAIN z = DOMAIN x
         /\ z[a].role = "TOKEN" /\ z[a].open = x[a].open /\ z[a].act = x[a].act /\ z[a].live = x[a].live
         /\ Tended(z, B, c, j)
  <1> USE DEF Reviving
  <1>1. x[a] \in ExecutionIn(x)
    BY TreeDomain
  <1>2. /\ DOMAIN z = DOMAIN x
        /\ \A i \in DOMAIN x \ {a} : z[i] = x[i]
        /\ z[a].path = x[a].path /\ z[a].role = "TOKEN" /\ z[a].live = x[a].live
        /\ z[a].act = x[a].act /\ z[a].open = x[a].open
    BY <1>1 DEF ExecutionIn
  <1>3. Grows(x, z)
    BY SetRole
  <1>4. Alters(x, a, z)
    BY <1>2 DEF Alters
  <1>5. x[a].live /\ z[a].role = "TOKEN" /\ a # Root => Children(x, a) = {}
    OBVIOUS
  <1>6. \A k \in j : k.kind = "timer-event-start" =>
           k \in j /\ k.ex \in DOMAIN x /\ ~(k.ex = a /\ k.scope # Top)
    BY DEF Tended, SubsFollow, JobIn, SubKinds
  <1>7. Tended(z, B, c, j)
    <2>1. Altering(x, B, c, j, a, z, j)
      BY <1>2, <1>4, <1>5, <1>6 DEF Altering
    <2> QED BY <2>1, AltersTended
  <1> QED BY <1>2, <1>3, <1>7 DEF Grows

\* The tokens of D, all of them children of the fork a, have arrived at its join.
Joining(u, B, c, j, a, D, B2, x, z) ==
  /\ Tree(u) /\ j \subseteq JobIn(u) /\ Tended(u, B, c, j)
  /\ D # {} /\ D \subseteq Children(u, a) /\ (a = Root \/ Children(u, a) = D)
  /\ \A d \in D : u[d].role = "TOKEN"
  /\ u[a].role # "TOKEN" /\ u[a].act \in Nodes /\ Kind(u[a].act) = "parallel"
  /\ \A i \in B \ D : i \in B2
  /\ x = Ended(u, D) /\ z = [x EXCEPT ![a].role = "TOKEN"]

LEMMA JoinTended ==
  ASSUME NEW u, NEW B, NEW c, NEW j, NEW a, NEW D, NEW B2, NEW x, NEW z,
         Joining(u, B, c, j, a, D, B2, x, z)
  PROVE  /\ Tree(z) /\ DOMAIN z = DOMAIN u /\ a \in DOMAIN z /\ z[a].live
         /\ z[a].role = "TOKEN" /\ z[a].open = None /\ z[a].act = u[a].act
         /\ Tended(z, B2 \cup {a}, c, j)
  <1> USE DEF Joining
  <1>1. PICK d0 \in D : TRUE
    OBVIOUS
  <1>2. /\ a \in DOMAIN u /\ d0 \in DOMAIN u /\ u[d0].live /\ 1 \in DOMAIN u[d0].path /\ u[d0].path[1] = a
        /\ \A d \in D : d \in DOMAIN u /\ u[d].live /\ d # a /\ d # Root
    BY NotOwnChild
  <1>3. u[a].live
    BY <1>2, LineTo DEF Tended
  <1>4. u[a].open = None
    BY <1>2, <1>3 DEF Tended, ForksShut
  <1> DEFINE BB == B2 \cup {a}
  <1>5. \A i \in DOMAIN u \ BB : Children(u, i) \cap D = {}
    <2>1. ASSUME NEW i, NEW d \in Children(u, i), d \in D PROVE i = a
      BY <2>1 DEF Children
    <2> QED BY <2>1
  <1>6. (\A i \in B \ D : i \in BB) /\ a \in BB
    OBVIOUS
  <1>7. Cuts(u, D, x) /\ Grows(u, x)
    BY EndedCuts, EndedTree
  <1> HIDE DEF BB
  <1>8. Tended(x, BB, c, j) /\ \A i : Children(x, i) = Children(u, i) \ D
    BY <1>2, <1>5, <1>6, TokensCut
  <1>9. /\ Tree(x) /\ DOMAIN x = DOMAIN u /\ x[a] = u[a] /\ a \in DOMAIN x
        /\ j \subseteq JobIn(x) /\ (a # Root => Children(x, a) = {})
    BY <1>2, <1>7, <1>8 DEF Grows, Cuts, JobIn
  <1>10. /\ Tree(z) /\ DOMAIN z = DOMAIN x
         /\ z[a].role = "TOKEN" /\ z[a].open = x[a].open /\ z[a].act = x[a].act /\ z[a].live = x[a].live
         /\ Tended(z, BB, c, j)
    <2>1. Reviving(x, BB, c, j, a, z)
      BY <1>6, <1>8, <1>9 DEF Reviving
    <2> HIDE DEF Joining
    <2> QED BY <2>1, ForkRevived
  <1> QED BY <1>3, <1>4, <1>9, <1>10 DEF BB

LEMMA PassGatewayTilled ==
  ASSUME JoinsWhole, IInv, PInv, TInv, ~Raises, PassGateway
  PROVE  Tilled
  <1>1. Behaves({"parallel"}) /\ tasks' = tasks
    BY DEF PassGateway
  <1>2. /\ Pumping /\ ex[Tok].live /\ Mode \in {"enter", "resume"} /\ Kind(At) = "parallel" /\ cmd' # NoCmd
    BY <1>1, PumpKeepsLock DEF Behaves
  <1>3. AtWork(Closed, tasks, jobs, joins, Rest, Tok)
    BY <1>2, ArrivedTended
  <1>4. /\ Closed[Tok].role = "TOKEN" /\ Closed[Tok].open = None /\ At \in Nodes /\ Closed[Tok].act = At
        /\ DOMAIN Closed = DOMAIN ex /\ Tok \in DOMAIN ex /\ ex[Tok].role = "TOKEN"
        /\ Ready(Closed, tasks, jobs, joins, Rest)
    BY <1>2, Arrived, Popped
  <1>5. CASE Leave(Closed, jobs, Rest, Tok, At) /\ joins' = joins
    BY <1>1, <1>2, <1>3, <1>4, <1>5, LeaveTilled
  <1> DEFINE D == {Tok} \cup {w.ex : w \in Arrivals(At)}
             x == Ended(Closed, D)
             y(e) == [x EXCEPT ![e].role = "TOKEN"]
             a == joins \ Arrivals(At)
             p == Pend(jobs)
  <1>6. CASE /\ joins' = a /\ \E e \in JoinActors(x, Tok) : Leave(y(e), jobs, Rest, e, At)
             /\ Cardinality(Incoming(At)) > 1 /\ Cardinality(Arrivals(At)) + 1 >= Cardinality(Incoming(At))
    <2>1. PICK e \in JoinActors(x, Tok) : Leave(y(e), jobs, Rest, e, At)
      BY <1>6
    <2>2. Alters(ex, Tok, Closed) /\ \A i : Children(Closed, i) = Children(ex, i)
      BY <1>2, ArrivedAlters, AltersShape
    <2>3. /\ Tree(Closed) /\ jobs \subseteq JobIn(Closed) /\ Rest \in Seq(EventIn(Closed)) /\ ~completed
          /\ Tended(Closed, Busy(tasks, p, joins, Rest) \cup {Tok}, collapsing, jobs)
      BY <1>3 DEF AtWork
    <2> DEFINE u == Closed
    <2>4. \A i \in DOMAIN u : x[i].role = u[i].role /\ x[i].path = u[i].path
      <3>1. \A i \in DOMAIN u : u[i] \in ExecutionIn(u)
        BY <2>3, TreeDomain
      <3>2. \A r \in ExecutionIn(u) : /\ [r EXCEPT !.live = FALSE].role = r.role
                                      /\ [r EXCEPT !.live = FALSE].path = r.path
        BY DEF ExecutionIn
      <3> HIDE DEF u, D
      <3> QED BY <3>1, <3>2 DEF Ended, u
    <2> HIDE DEF u, x
    <2>5. \A i \in DOMAIN ex : u[i].role = ex[i].role /\ u[i].path = ex[i].path
      BY <1>4, <2>2 DEF Alters, u
    <2>6. JoinActors(x, Tok) = JoinActors(ex, Tok)
      <3>1. ex[Tok].path \in Seq(DOMAIN ex)
        BY <1>4, ChildPath DEF IInv
      <3> DEFINE path == ex[Tok].path
      <3>2. \A k \in DOMAIN path : path[k] \in DOMAIN ex
        <4> HIDE DEF path
        <4> QED BY <3>1 DEF path
      <3>3. \A i \in DOMAIN ex : x[i].role = ex[i].role /\ x[i].path = ex[i].path
        BY <1>4, <2>4, <2>5 DEF u
      <3>4. \A k \in DOMAIN ex[Tok].path : x[ex[Tok].path[k]].role = ex[ex[Tok].path[k]].role
        BY <3>2, <3>3
      <3> QED BY <1>4, <3>3, <3>4, SameActors
    <2>7. /\ ex[e].act \in Nodes /\ Kind(ex[e].act) = "parallel"
          /\ D \subseteq Children(ex, e)
          /\ e = Root \/ Children(ex, e) = D
      BY <1>1, <1>6, <2>1, <2>6 DEF JoinsWhole
    <2>8. Tok \in Children(ex, e)
      BY <2>7
    <2>9. e # Tok /\ e \in DOMAIN ex
      BY <2>8, NotOwnChild DEF IInv
    <2>10. x[e].role # "TOKEN"
      BY <2>1, <2>9 DEF JoinActors
    <2>11. u[e].role # "TOKEN" /\ u[e].act = ex[e].act
      BY <1>4, <2>2, <2>4, <2>9, <2>10 DEF u, Alters
    <2>12. \A d \in D : u[d].role = "TOKEN"
      <3>1. \A w \in Arrivals(At) : w \in joins
        BY DEF Arrivals
      <3>2. \A w \in joins : u[w.ex].role = "TOKEN"
        BY <1>4 DEF Ready, Placed, Held, JoinStands, Stands, u
      <3> QED BY <1>4, <3>1, <3>2 DEF u
    <2> DEFINE B == Busy(tasks, p, joins, Rest) \cup {Tok}
               B2 == Busy(tasks, p, a, Rest)
    <2>13. \A i \in B \ D : i \in B2
      <3>1. \A w \in joins : w \in a \/ w.ex \in D
        OBVIOUS
      <3>2. Tok \in D
        OBVIOUS
      <3> HIDE DEF a, D
      <3> QED BY <3>1, <3>2 DEF Busy
    <2>14. D # {} /\ D \subseteq Children(u, e) /\ (e = Root \/ Children(u, e) = D)
      BY <2>2, <2>7 DEF u
    <2>15. Tree(u) /\ jobs \subseteq JobIn(u) /\ Tended(u, B, collapsing, jobs) /\ x = Ended(u, D)
      BY <2>3 DEF u, x
    <2> DEFINE z == y(e)
    <2>16. z = [x EXCEPT ![e].role = "TOKEN"]
      OBVIOUS
    <2> HIDE DEF B, B2, D, z
    <2>17. /\ Tree(z) /\ DOMAIN z = DOMAIN u /\ e \in DOMAIN z /\ z[e].live
           /\ z[e].role = "TOKEN" /\ z[e].open = None /\ z[e].act = u[e].act
           /\ Tended(z, B2 \cup {e}, collapsing, jobs)
      <3>1. Joining(u, B, collapsing, jobs, e, D, B2, x, z)
        BY <2>7, <2>11, <2>12, <2>13, <2>14, <2>15, <2>16 DEF Joining
      <3> QED BY <3>1, JoinTended
    <2>18. jobs \subseteq JobIn(z) /\ Rest \in Seq(EventIn(z))
      BY <2>3, <2>17, InMonotone DEF u
    <2> HIDE DEF a
    <2>19. AtWork(z, tasks, jobs, a, Rest, e)
      BY <2>3, <2>17, <2>18 DEF AtWork, B2
    <2>20. Leave(z, jobs, Rest, e, At) /\ z[e].act \in Nodes /\ Kind(z[e].act) = "parallel"
      BY <2>1, <2>7, <2>11, <2>17 DEF z
    <2> QED BY <1>1, <1>2, <1>4, <1>6, <2>17, <2>19, <2>20, LeaveTilled
  <1>7. Cardinality(Incoming(At)) <= 1 \/ Cardinality(Incoming(At)) > 1
    <2>1. Cardinality(Incoming(At)) \in Nat
      BY IncomingFinite, FS_CardinalityType
    <2> QED BY <2>1
  <1> QED BY <1>5, <1>6, <1>7 DEF PassGateway

-----------------------------------------------------------------------------
\* The scope d of an event subprocess below host, and its token e.
HasParts(x, y, host, s, d, e) ==
  /\ DOMAIN y = DOMAIN x \cup {d, e}
  /\ \A i \in DOMAIN x : y[i] = x[i]
  /\ d \notin DOMAIN x /\ e \notin DOMAIN x /\ d # e
  /\ y[d].path = <<host>> \o x[host].path /\ y[d].role = "SCOPE" /\ y[d].live /\ y[d].act = Home(s)
  /\ y[e].path = <<d>> \o y[d].path /\ y[e].role = "TOKEN" /\ y[e].live /\ y[e].act = None

LEMMA EventSubprocessParts ==
  ASSUME NEW x, Tree(x), NEW host \in DOMAIN x, NEW s, NEW y, y = WithEventSubprocess(x, host, s),
         NEW d, d = Len(x) + 1, NEW e, e = Len(x) + 2
  PROVE  HasParts(x, y, host, s, d, e)
  <1> DEFINE path == <<host>> \o x[host].path
             scope == NewExecution(path, "SCOPE", Home(s))
             u == [scope EXCEPT !.open = Home(s)]
             v == NewExecution(<<Len(x) + 1>> \o path, "TOKEN", None)
             z == x \o <<u, v>>
             S == {u, v}
  <1>1. y = z
    BY DEF WithEventSubprocess, NewExecution
  <1>2. /\ u.path = path /\ u.role = "SCOPE" /\ u.live /\ u.act = Home(s)
        /\ v.path = <<Len(x) + 1>> \o path /\ v.role = "TOKEN" /\ v.live /\ v.act = None
    <2> HIDE DEF path
    <2> QED BY DEF NewExecution
  <1>3. Len(x) \in Nat /\ DOMAIN x = 1..Len(x)
    BY TreeDomain
  <1> HIDE DEF u, v, path
  <1>4. <<u, v>> \in Seq(S) /\ Len(<<u, v>>) = 2 /\ <<u, v>>[1] = u /\ <<u, v>>[2] = v
    OBVIOUS
  <1> HIDE DEF S
  <1>5. DOMAIN z = 1..(Len(x) + Len(<<u, v>>))
    BY <1>4, ConcatDomain
  <1>6. \A i \in DOMAIN x : z[i] = x[i]
    BY <1>4, ConcatDomain
  <1>7. \A i \in 1..Len(<<u, v>>) : z[Len(x) + i] = <<u, v>>[i]
    BY <1>4, ConcatDomain
  <1> HIDE DEF z
  <1>8. z[Len(x) + 1] = u /\ z[Len(x) + 2] = v
    BY <1>4, <1>7
  <1>9. DOMAIN z = DOMAIN x \cup {Len(x) + 1, Len(x) + 2}
    BY <1>3, <1>4, <1>5
  <1>10. d \notin DOMAIN x /\ e \notin DOMAIN x /\ d # e
    BY <1>3
  <1> QED BY <1>1, <1>2, <1>6, <1>8, <1>9, <1>10 DEF path, HasParts

\* An event subprocess starts below a host that waits for its subtree or is busy.
Besides(x, B, c, j, host, s, B2, j2) ==
  /\ Tree(x) /\ j \subseteq JobIn(x) /\ Tended(x, B \cup {host}, c, j)
  /\ host \in DOMAIN x /\ x[host].live /\ (Parked(x, host) \/ host \in B2)
  /\ host = Root \/ x[host].role # "TOKEN"
  /\ Home(s) \in Nodes /\ Kind(Home(s)) = "esub"
  /\ B \subseteq B2 /\ Len(x) + 2 \in B2
  /\ \A k \in j2 : k.kind = "timer-event-start" => k \in j \cup EventTimers(Len(x) + 1, Home(s))

LEMMA BesideTended ==
  ASSUME NEW x, NEW B, NEW c, NEW j, NEW host, NEW s, NEW B2, NEW j2,
         Besides(x, B, c, j, host, s, B2, j2),
         NEW y, y = WithEventSubprocess(x, host, s)
  PROVE  Tended(y, B2, c, j2) /\ host \in DOMAIN y /\ y[host].live
  <1> DEFINE d == Len(x) + 1
             e == Len(x) + 2
             N == {d, e}
             BB == B \cup {host}
             B3 == B2 \cup {host}
  <1>1. /\ Tree(x) /\ j \subseteq JobIn(x) /\ Tended(x, BB, c, j)
        /\ host \in DOMAIN x /\ x[host].live /\ (Parked(x, host) \/ host \in B2)
        /\ host = Root \/ x[host].role # "TOKEN"
        /\ Home(s) \in Nodes /\ Kind(Home(s)) = "esub"
        /\ B \subseteq B2 /\ e \in B2
        /\ \A k \in j2 : k.kind = "timer-event-start" => k \in j \cup EventTimers(d, Home(s))
    BY DEF Besides
  <1>2. \A k \in EventTimers(d, Home(s)) : k.ex = d /\ k.scope = Home(s)
    BY DEF EventTimers, NewJob
  <1>3. BB \subseteq B3 /\ e \in B3
    BY <1>1
  <1> HIDE DEF d, e
  <1>4. /\ DOMAIN y = DOMAIN x \cup {d, e}
        /\ \A i \in DOMAIN x : y[i] = x[i]
        /\ d \notin DOMAIN x /\ e \notin DOMAIN x /\ d # e
        /\ y[d].path = <<host>> \o x[host].path /\ y[d].role = "SCOPE" /\ y[d].live /\ y[d].act = Home(s)
        /\ y[e].path = <<d>> \o y[d].path /\ y[e].role = "TOKEN" /\ y[e].live /\ y[e].act = None
    <2>1. Tree(x) /\ host \in DOMAIN x
      BY <1>1
    <2>2. d = Len(x) + 1 /\ e = Len(x) + 2
      BY DEF d, e
    <2>3. HasParts(x, y, host, s, d, e)
      BY <2>1, <2>2, EventSubprocessParts
    <2> QED BY <2>3 DEF HasParts
  <1>5. Rooted(x) /\ LiveUp(x)
    BY <1>1 DEF Tended
  <1> DEFINE p == y[d].path
  <1>6. /\ p \in Seq(DOMAIN x) /\ p # <<>> /\ Head(p) = host
        /\ \A k \in DOMAIN p : p[k] \in DOMAIN x /\ x[p[k]].live
        /\ \E k \in DOMAIN p : p[k] = Root
    <2>1. <<host>> \o x[host].path \in Seq(DOMAIN x)
      BY <1>1, ChildPath
    <2>2. LET r == <<host>> \o x[host].path
          IN  /\ r # <<>> /\ Head(r) = host
              /\ \A k \in DOMAIN r : r[k] \in DOMAIN x /\ x[r[k]].live
              /\ \E k \in DOMAIN r : r[k] = Root
      BY <1>1, <1>5, ChildLine
    <2> QED BY <1>4, <2>1, <2>2
  <1> DEFINE r == <<d>> \o p
  <1>7. /\ r # <<>> /\ Head(r) = d
        /\ \A k \in DOMAIN r : r[k] = d \/ (r[k] \in DOMAIN x /\ x[r[k]].live)
        /\ \E k \in DOMAIN r : r[k] = Root
    <2> DEFINE S == DOMAIN x \cup {d}
    <2>1. p \in Seq(S) /\ <<d>> \in Seq(S)
      <3>1. <<d>> \in Seq(S)
        OBVIOUS
      <3> HIDE DEF S, p
      <3>3. DOMAIN x \subseteq S
        BY DEF S
      <3> QED BY <1>6, <3>1, <3>3, SeqMonotonic
    <2> HIDE DEF p, S
    <2>3. /\ Len(p) \in Nat /\ DOMAIN p = 1..Len(p)
          /\ r \in Seq(S) /\ Len(r) = Len(p) + 1 /\ DOMAIN r = 1..(Len(p) + 1)
          /\ r[1] = d /\ \A k \in 2..(Len(p) + 1) : r[k] = p[k - 1]
      BY <2>1, ConcatProperties, LenProperties
    <2> HIDE DEF r
    <2>5. r # <<>> /\ Head(r) = d
      BY <2>3
    <2>6. ASSUME NEW k \in DOMAIN r PROVE r[k] = d \/ (r[k] \in DOMAIN x /\ x[r[k]].live)
      <3>1. k = 1 \/ (k \in 2..(Len(p) + 1) /\ k - 1 \in DOMAIN p)
        BY <2>3
      <3>2. CASE k = 1
        BY <2>3, <3>2
      <3>3. CASE k \in 2..(Len(p) + 1) /\ k - 1 \in DOMAIN p
        <4>1. r[k] = p[k - 1]
          BY <2>3, <3>3
        <4> QED BY <1>6, <3>3, <4>1
      <3> QED BY <3>1, <3>2, <3>3
    <2>7. \E k \in DOMAIN r : r[k] = Root
      <3>1. PICK k \in DOMAIN p : p[k] = Root
        BY <1>6
      <3>2. k + 1 \in DOMAIN r /\ k + 1 \in 2..(Len(p) + 1) /\ (k + 1) - 1 = k
        BY <2>3
      <3> QED BY <2>3, <3>1, <3>2
    <2> QED BY <2>5, <2>6, <2>7
  <1>8. Hangs(y, d) /\ Head(y[d].path) = host
    <2> HIDE DEF p
    <2>1. y[d].path = p
      BY DEF p
    <2>2. \A k \in DOMAIN p : y[p[k]].live
      BY <1>4, <1>6
    <2>3. Hangs(y, d)
      BY <1>4, <1>6, <2>1, <2>2 DEF Hangs
    <2> QED BY <1>6, <2>1, <2>3
  <1>9. Hangs(y, e) /\ Head(y[e].path) = d
    <2>1. y[e].path = r
      BY <1>4
    <2> HIDE DEF p, r
    <2>2. \A k \in DOMAIN r : y[r[k]].live
      BY <1>4, <1>7
    <2>3. Hangs(y, e)
      BY <1>4, <1>7, <2>1, <2>2 DEF Hangs
    <2> QED BY <1>7, <2>1, <2>3
  <1> HIDE DEF p, r
  <1>10. Adds(x, N, y)
    <2>1. host = Root \/ y[host].role # "TOKEN"
      BY <1>1, <1>4
    <2> QED BY <1>4, <1>8, <1>9, <2>1 DEF Adds
  <1>11. /\ d \in Children(y, host) /\ e \in Children(y, d)
    BY <1>4, <1>8, <1>9 DEF Children, Hangs
  <1>12. Parked(y, d) /\ (Parked(y, host) \/ host \in B2)
    BY <1>1, <1>4 DEF Parked, SubKinds
  <1>13. \A n \in N : y[n].act \in Nodes => Kind(y[n].act) # "parallel"
    BY <1>1, <1>4, ProcAssumption DEF ProcAssumption
  <1>14. \A k \in j2 : k.kind = "timer-event-start" =>
           k \in j \/ ( /\ k.ex \in N /\ k.scope # Top /\ y[k.ex].role # "TOKEN"
                        /\ y[k.ex].act = k.scope /\ Kind(k.scope) \in SubKinds)
    <2>1. Home(s) # Top
      BY <1>1, ProcAssumption DEF ProcAssumption
    <2> QED BY <1>1, <1>2, <1>4, <2>1 DEF SubKinds
  <1>15. \A n \in N \ B3 : Parked(y, n) /\ Children(y, n) # {}
    BY <1>3, <1>11, <1>12
  <1> HIDE DEF N, BB, B3
  <1>16. Adding(x, BB, c, j, N, y, B3, j2)
    BY <1>1, <1>3, <1>10, <1>13, <1>14, <1>15 DEF Adding
  <1>17. Tended(y, B3, c, j2)
    BY <1>16, AddsTended
  <1>18. c \/ Children(y, host) # {}
    BY <1>11
  <1>19. Tended(y, B2, c, j2)
    <2>1. CASE host \in B2
      <3>1. B3 = B2
        BY <2>1 DEF B3
      <3> QED BY <1>17, <3>1
    <2>2. CASE Parked(y, host)
      BY <1>17, <1>18, <2>2, Parks DEF B3
    <2> QED BY <1>12, <2>1, <2>2
  <1> QED BY <1>1, <1>4, <1>19

\* What lives below e: whatever has e on its path.
LEMMA BelowLive ==
  ASSUME NEW x, Tree(x), LiveUp(x), NEW e
  PROVE  /\ \A d \in DOMAIN x : d \in Below(x, e) <=> x[d].live /\ \E k \in DOMAIN x[d].path : x[d].path[k] = e
         /\ e \notin Below(x, e)
         /\ \A d \in DOMAIN x : x[d].live => \A k \in DOMAIN x[d].path :
              x[d].path[k] \in Below(x, e) => d \in Below(x, e)
         /\ \A i : \A d \in Children(x, i) : d \in Below(x, e) => i = e \/ i \in Below(x, e)
         /\ Children(x, e) \subseteq Below(x, e)
  <1>1. ASSUME NEW d \in DOMAIN x, x[d].live, NEW k \in DOMAIN x[d].path, x[d].path[k] = e
        PROVE  d \in Below(x, e)
    <2>1. x[d].path \in Seq(DOMAIN x)
      BY ChildPath
    <2>2. \A m \in 1..(k - 1) : m \in DOMAIN x[d].path
      BY <2>1, LenProperties
    <2>3. \A m \in 1..(k - 1) : x[x[d].path[m]].live
      BY <1>1, <2>2 DEF LiveUp
    <2> QED BY <1>1, <2>3 DEF Below
  <1>2. \A d \in DOMAIN x : d \in Below(x, e) <=> x[d].live /\ \E k \in DOMAIN x[d].path : x[d].path[k] = e
    <2>1. ASSUME NEW d \in Below(x, e) PROVE x[d].live /\ \E k \in DOMAIN x[d].path : x[d].path[k] = e
      BY DEF Below
    <2> QED BY <1>1, <2>1
  <1>3. e \notin Below(x, e)
    <2>1. e \in Below(x, e) => e \in DOMAIN x
      BY DEF Below
    <2> QED BY <1>2, <2>1, Acyclic
  <1>4. ASSUME NEW d \in DOMAIN x, x[d].live, NEW k \in DOMAIN x[d].path, x[d].path[k] \in Below(x, e)
        PROVE  d \in Below(x, e)
    <2> DEFINE p == x[d].path
               i == p[k]
    <2>1. p \in Seq(DOMAIN x) /\ Len(p) \in Nat /\ DOMAIN p = 1..Len(p)
      <3>1. p \in Seq(DOMAIN x)
        BY ChildPath
      <3> QED BY <3>1, LenProperties
    <2>2. x[i].path = SubSeq(p, k + 1, Len(p)) /\ i \in DOMAIN x
      BY <1>4, LineTo
    <2>3. PICK m \in DOMAIN x[i].path : x[i].path[m] = e
      BY <1>2, <1>4, <2>2
    <2>4. k \in 1..Len(p)
      BY <2>1
    <2> HIDE DEF p, i
    <2>5. m \in 1..(Len(p) - k) /\ SubSeq(p, k + 1, Len(p))[m] = p[k + m]
      BY <2>1, <2>2, <2>3, <2>4
    <2>6. k + m \in DOMAIN p /\ p[k + m] = e
      BY <2>1, <2>2, <2>3, <2>4, <2>5
    <2> QED BY <1>1, <1>4, <2>6 DEF p
  <1>5. ASSUME NEW i, NEW d \in Children(x, i), d \in Below(x, e) PROVE i = e \/ i \in Below(x, e)
    <2>1. /\ d \in DOMAIN x /\ x[d].live /\ 1 \in DOMAIN x[d].path /\ x[d].path[1] = i /\ i \in DOMAIN x
      BY NotOwnChild
    <2> DEFINE p == x[d].path
    <2>2. p \in Seq(DOMAIN x) /\ Len(p) \in Nat /\ DOMAIN p = 1..Len(p)
      <3>1. p \in Seq(DOMAIN x)
        BY <2>1, ChildPath
      <3> QED BY <3>1, LenProperties
    <2>3. x[i].path = SubSeq(p, 2, Len(p)) /\ x[i].live
      <3>1. ASSUME NEW k \in DOMAIN x[d].path, x[d].path[k] = i
            PROVE  x[i].path = SubSeq(x[d].path, k + 1, Len(x[d].path)) /\ x[i].live
        <4>1. d \in DOMAIN x /\ x[d].live
          BY <2>1
        <4> QED BY <3>1, <4>1, LineTo
      <3> HIDE DEF p
      <3>2. x[i].path = SubSeq(x[d].path, 1 + 1, Len(x[d].path)) /\ x[i].live
        BY <2>1, <3>1
      <3> QED BY <3>2 DEF p
    <2>4. PICK k \in DOMAIN p : p[k] = e
      BY <1>2, <1>5, <2>1
    <2>5. CASE k = 1
      BY <2>1, <2>4, <2>5
    <2>6. CASE k # 1
      <3> HIDE DEF p
      <3>1. k - 1 \in 1..(Len(p) - 1) /\ SubSeq(p, 2, Len(p))[k - 1] = p[k]
        BY <2>2, <2>4, <2>6
      <3>2. DOMAIN SubSeq(p, 2, Len(p)) = 1..(Len(p) - 1)
        BY <2>2, <2>4
      <3>3. k - 1 \in DOMAIN x[i].path /\ x[i].path[k - 1] = e
        BY <2>3, <2>4, <3>1, <3>2
      <3> QED BY <1>1, <2>1, <2>3, <3>3
    <2> QED BY <2>5, <2>6
  <1>6. Children(x, e) \subseteq Below(x, e)
    BY <1>1, NotOwnChild
  <1> QED BY <1>2, <1>3, <1>4, <1>5, <1>6

\* All that lives below a host is killed.
Pruning(x, B, c, j, host, B2, j2) ==
  /\ Tree(x) /\ Tended(x, B, c, j) /\ j \subseteq JobIn(x) /\ host \in DOMAIN x /\ x[host].live
  /\ \A i \in B \cap DOMAIN x : x[i].live => i = host \/ i \in Below(x, host) \/ i \in B2
  /\ \A k \in j2 : k.kind = "timer-event-start" => k \in j /\ k.ex \notin Below(x, host)

LEMMA PruneTended ==
  ASSUME NEW x, NEW B, NEW c, NEW j, NEW host, NEW B2, NEW j2, Pruning(x, B, c, j, host, B2, j2),
         NEW z, z = Killed(x, Below(x, host))
  PROVE  /\ Tree(z) /\ DOMAIN z = DOMAIN x /\ Len(z) = Len(x) /\ z[host] = x[host]
         /\ Tended(z, B2 \cup {host}, c, j2)
         /\ Children(z, host) = {}
  <1> DEFINE D == Below(x, host)
             B3 == B2 \cup {host}
  <1>1. /\ Tree(x) /\ Tended(x, B, c, j) /\ j \subseteq JobIn(x) /\ host \in DOMAIN x /\ x[host].live
        /\ \A i \in B \cap DOMAIN x : x[i].live => i = host \/ i \in D \/ i \in B2
        /\ \A k \in j2 : k.kind = "timer-event-start" => k \in j /\ k.ex \notin D
    BY DEF Pruning
  <1>2. LiveUp(x)
    BY <1>1 DEF Tended
  <1>3. /\ host \notin D
        /\ \A d \in DOMAIN x : x[d].live => \A k \in DOMAIN x[d].path : x[d].path[k] \in D => d \in D
        /\ \A i : \A d \in Children(x, i) : d \in D => i = host \/ i \in D
        /\ Children(x, host) \subseteq D
    BY <1>1, <1>2, BelowLive
  <1>4. Cuts(x, D, z) /\ Tree(z) /\ Len(z) = Len(x)
    <2>1. Grows(x, z) /\ Len(z) = Len(x) /\ Cuts(x, D, z)
      BY <1>1, KilledTree, KilledCuts
    <2> QED BY <2>1 DEF Grows
  <1> HIDE DEF D
  <1>5. \A i \in DOMAIN x \ (D \cup B3) : x[i].live => i \notin B /\ Children(x, i) \cap D = {}
    BY <1>1, <1>3
  <1>6. \A d \in DOMAIN x \ D : x[d].live => \A k \in DOMAIN x[d].path : x[d].path[k] \notin D
    BY <1>3
  <1> HIDE DEF B3
  <1>7. Tended(z, B3, c, j2) /\ \A i : Children(z, i) = Children(x, i) \ D
    <2>1. Cutting(x, B, c, j, D, z, B3, c, j2)
      BY <1>1, <1>4, <1>5, <1>6 DEF Cutting
    <2> QED BY <2>1, CutsTended
  <1> QED BY <1>1, <1>3, <1>4, <1>7 DEF Cuts, B3

\* An interrupting event subprocess takes over the scope of its host.
TakingOver(x, B, c, j, host, scope, s, dead, B2, j2) ==
  /\ Tree(x) /\ Tended(x, B, c, j) /\ j \subseteq JobIn(x) /\ host \in DOMAIN x /\ x[host].live
  /\ scope = Top => host = Root
  /\ scope # Top => /\ x[host].role # "TOKEN" /\ x[host].act = scope
                    /\ scope \in Nodes /\ Kind(scope) \in SubKinds
                    /\ \A i \in B : i \in dead \/ i = host \/ i \in B2
  /\ Home(s) \in Nodes /\ Kind(Home(s)) = "esub"
  /\ dead = Victims(x, host, scope) /\ Len(x) + 2 \in B2
  /\ \A k \in j2 : k.kind = "timer-event-start" =>
       k \in DropEventTimers(Without(j, dead), host, scope) \cup EventTimers(Len(x) + 1, Home(s))

LEMMA TakeOverTended ==
  ASSUME NEW x, NEW B, NEW c, NEW j, NEW host, NEW scope, NEW s, NEW dead, NEW B2, NEW j2,
         TakingOver(x, B, c, j, host, scope, s, dead, B2, j2),
         NEW y, y = WithEventSubprocess(TakenOver(x, host, scope), host, s)
  PROVE  Tended(y, B2, c, j2) /\ host \in DOMAIN y /\ y[host].live
  <1> DEFINE z == Killed(x, Below(x, host))
             u == TakenOver(x, host, scope)
             j1 == DropEventTimers(Without(j, dead), host, scope)
             B3 == B2 \cup {host}
  <1>1. /\ Tree(x) /\ Tended(x, B, c, j) /\ j \subseteq JobIn(x) /\ host \in DOMAIN x /\ x[host].live
        /\ scope = Top => host = Root
        /\ scope # Top => /\ x[host].role # "TOKEN" /\ x[host].act = scope
                          /\ scope \in Nodes /\ Kind(scope) \in SubKinds
                          /\ \A i \in B : i \in dead \/ i = host \/ i \in B2
        /\ Home(s) \in Nodes /\ Kind(Home(s)) = "esub" /\ Len(x) + 2 \in B2
        /\ \A k \in j2 : k.kind = "timer-event-start" => k \in j1 \cup EventTimers(Len(x) + 1, Home(s))
    BY DEF TakingOver
  <1>2. dead = Below(x, host) \cup (IF scope = Top THEN {host} ELSE {})
    BY DEF TakingOver, Victims
  <1>3. \A k \in j1 : k \in j /\ k.ex \notin dead /\ ~(k.kind = "timer-event-start" /\ k.ex = host /\ k.scope = scope)
    BY DEF Without, DropEventTimers
  <1>4. Rooted(x) /\ LiveUp(x)
    BY <1>1 DEF Tended
  <1>5. \A i \in B \cap DOMAIN x : x[i].live => i = host \/ i \in Below(x, host) \/ i \in B2
    <2>1. CASE scope # Top
      BY <1>1, <1>2, <2>1
    <2>2. CASE scope = Top
      <3>1. ASSUME NEW i \in DOMAIN x, x[i].live, i # Root PROVE i \in Below(x, Root)
        BY <1>1, <1>4, <3>1, BelowLive DEF Rooted
      <3> QED BY <1>1, <2>2, <3>1
    <2> QED BY <2>1, <2>2
  <1> HIDE DEF j1, B3, z, u
  <1>6. /\ Tree(z) /\ DOMAIN z = DOMAIN x /\ Len(z) = Len(x) /\ z[host] = x[host]
        /\ Tended(z, B3, c, j1) /\ Children(z, host) = {}
    <2>1. Pruning(x, B, c, j, host, B2, j1)
      BY <1>1, <1>2, <1>3, <1>5 DEF Pruning
    <2> QED BY <2>1, PruneTended DEF z, B3
  <1>7. host \in B3
    BY DEF B3
  <1>8. /\ Tree(u) /\ Len(u) = Len(x) /\ host \in DOMAIN u /\ u[host].live /\ Parked(u, host)
        /\ j1 \subseteq JobIn(u) /\ Tended(u, B3, c, j1)
    <2>1. CASE scope # Top
      <3>1. u = z
        BY <2>1 DEF u, z, TakenOver
      <3> QED BY <1>1, <1>3, <1>6, <2>1, <3>1 DEF Parked, JobIn
    <2>2. CASE scope = Top
      <3>1. u = [z EXCEPT ![host].open = None, ![host].act = None, ![host].role = "TOKEN"]
        BY <2>2 DEF u, z, TakenOver
      <3>2. z \in [DOMAIN z -> ExecutionIn(z)] /\ host \in DOMAIN z /\ z[host] \in ExecutionIn(z)
        BY <1>1, <1>6, TreeDomain
      <3> DEFINE r == z[host]
                 v == [[[r EXCEPT !.open = None] EXCEPT !.act = None] EXCEPT !.role = "TOKEN"]
      <3>3. DOMAIN u = DOMAIN z /\ (\A i \in DOMAIN z \ {host} : u[i] = z[i]) /\ u[host] = v
        BY <3>1, <3>2
      <3>4. v.path = z[host].path /\ v.live = z[host].live /\ v.act = None /\ v.open = None /\ v.role = "TOKEN"
        <4> HIDE DEF r
        <4>1. v.path = r.path /\ v.live = r.live /\ v.act = None /\ v.open = None /\ v.role = "TOKEN"
          BY <3>2 DEF ExecutionIn, r
        <4> QED BY <4>1 DEF r
      <3> HIDE DEF v
      <3>5. /\ Alters(z, host, u) /\ u[host].act = None /\ u[host].open = None /\ u[host].role = "TOKEN"
            /\ host \in DOMAIN u /\ u[host].live
        BY <1>1, <1>6, <3>2, <3>3, <3>4 DEF Alters
      <3>6. \A k \in j1 : k.kind = "timer-event-start" => k \in j1 /\ k.ex \in DOMAIN z /\ k.ex # host
        BY <1>1, <1>2, <1>3, <1>6, <2>2 DEF JobIn
      <3>7. Tended(u, B3, c, j1)
        <4>1. Altering(z, B3, c, j1, host, u, j1)
          BY <1>1, <1>6, <1>7, <2>2, <3>5, <3>6 DEF Altering
        <4> QED BY <4>1, AltersTended
      <3>8. Tree(u) /\ Len(u) = Len(x)
        <4>1. Grows(x, u) /\ Len(u) = Len(x)
          BY <1>1, TakenOverTree DEF u
        <4> QED BY <4>1 DEF Grows
      <3>9. Parked(u, host)
        BY <1>1, <2>2, <3>5 DEF Parked
      <3>10. j1 \subseteq JobIn(u)
        BY <1>1, <1>3, <1>6, <3>3 DEF JobIn
      <3> QED BY <3>5, <3>7, <3>8, <3>9, <3>10
    <2> QED BY <2>1, <2>2
  <1>9. y = WithEventSubprocess(u, host, s)
    BY DEF u
  <1>10. Besides(u, B2, c, j1, host, s, B2, j2)
    <2>1. host = Root \/ u[host].role # "TOKEN"
      BY <1>8 DEF Parked
    <2> QED BY <1>1, <1>8, <2>1 DEF Besides, B3
  <1> QED BY <1>9, <1>10, BesideTended

\* The host of the start that catches an error.
LEMMA CatcherHost ==
  ASSUME NEW x, NEW e, NEW code, NEW c \in Catchers(x, e, code)
  PROVE  \/ c.scope = Top /\ c.host = Root
         \/ /\ \E k \in DOMAIN x[e].path : x[e].path[k] = c.host
            /\ x[c.host].role # "TOKEN" /\ x[c.host].act = c.scope
            /\ c.scope \in Nodes /\ Kind(c.scope) \in SubKinds
  <1> DEFINE Catching(d) == {s \in EventStarts(d, "errorStart") : s \in Proc.cancel /\ Proc.code[s] = code}
             At1(p) == {[host |-> p, scope |-> x[p].act, start |-> s] : s \in Catching(x[p].act)}
             AtTop == {[host |-> Root, scope |-> Top, start |-> s] : s \in Catching(Top)}
             Scope(p) == /\ x[p].role # "TOKEN"
                         /\ x[p].act \in Nodes
                         /\ Kind(x[p].act) \in SubKinds
                         /\ Here(x, p, x[p].act)
             Hits == {k \in DOMAIN x[e].path : Scope(x[e].path[k]) /\ Catching(x[x[e].path[k]].act) # {}}
             Near == {k \in Hits : \A m \in Hits : k <= m}
  <1>1. Catchers(x, e, code) = IF Hits # {} THEN UNION {At1(x[e].path[k]) : k \in Near} ELSE AtTop
    BY Zenon DEF Catchers
  <1>2. \A k \in Near : k \in DOMAIN x[e].path /\ Scope(x[e].path[k])
    OBVIOUS
  <1>3. \A p : c \in At1(p) => c.host = p /\ c.scope = x[p].act
    OBVIOUS
  <1>4. c \in AtTop => c.host = Root /\ c.scope = Top
    OBVIOUS
  <1> HIDE DEF Catching, At1, AtTop, Hits, Near
  <1>5. CASE c \in AtTop
    BY <1>4, <1>5
  <1>6. CASE \E k \in Near : c \in At1(x[e].path[k])
    BY <1>2, <1>3, <1>6
  <1> QED BY <1>1, <1>5, <1>6

\* What was busy and is not dead still is.
LEMMA SurvivorsBusy ==
  ASSUME NEW t, NEW p, NEW a, NEW q, NEW D, NEW p2, \A u \in p : u.ex \in D \/ u \in p2,
         NEW i \in Busy(t, p, a, q), i \notin D
  PROVE  i \in Busy(Without(t, D), p2, Without(a, D), q)
  BY DEF Busy, Without

\* The tree in which an error looks for its host: the token that threw it has ended.
Throwing(u, B, c, j, e, h, x) ==
  /\ Tree(u) /\ j \subseteq JobIn(u) /\ Root \in DOMAIN u
  /\ e \in DOMAIN u /\ u[e].live /\ u[e].role = "TOKEN" /\ Tended(u, B \cup {e}, c, j)
  /\ \E code : h \in Catchers(u, e, code)
  /\ x = IF e = Root THEN u ELSE Ended(u, {e})

LEMMA Thrown ==
  ASSUME NEW u, NEW B, NEW c, NEW j, NEW e, NEW h, NEW x, Throwing(u, B, c, j, e, h, x)
  PROVE  /\ Tree(x) /\ DOMAIN x = DOMAIN u /\ Len(x) = Len(u)
         /\ h.host \in DOMAIN x /\ x[h.host].live
         /\ h.scope = Top => h.host = Root
         /\ h.scope # Top => /\ x[h.host].role # "TOKEN" /\ x[h.host].act = h.scope
                             /\ h.scope \in Nodes /\ Kind(h.scope) \in SubKinds
         /\ \E p : /\ Tended(x, B \cup {p}, c, j)
                   /\ h.scope # Top => p = h.host \/ p \in Below(x, h.host)
  <1> USE DEF Throwing
  <1> PICK code : h \in Catchers(u, e, code)
    OBVIOUS
  <1>1. Rooted(u) /\ LiveUp(u)
    BY DEF Tended
  <1>2. u[Root].live
    BY <1>1, RootLives
  <1>3. h.host \in DOMAIN u
    BY CatchersIn
  <1>4. \/ h.scope = Top /\ h.host = Root
        \/ /\ \E k \in DOMAIN u[e].path : u[e].path[k] = h.host
           /\ u[h.host].role # "TOKEN" /\ u[h.host].act = h.scope
           /\ h.scope \in Nodes /\ Kind(h.scope) \in SubKinds
    BY CatcherHost
  <1>5. u[h.host].live
    BY <1>1, <1>2, <1>4 DEF LiveUp
  <1>6. h.scope \in Nodes => h.scope # Top
    BY ProcAssumption DEF ProcAssumption
  <1>7. CASE e = Root
    <2>1. u[Root].path = <<>>
      <3>1. u # <<>>
        OBVIOUS
      <3> QED BY <3>1 DEF Tree, Linked
    <2>2. h.scope = Top /\ h.host = Root
      BY <1>4, <1>7, <2>1
    <2> QED BY <1>2, <1>7, <2>2
  <1>8. CASE e # Root
    <2> DEFINE D == {e}
               f == Head(u[e].path)
               B1 == B \cup {e}
               B2 == B \cup {f}
    <2>1. u[e].path # <<>>
      BY <1>1, <1>8 DEF Rooted
    <2>2. e \in Children(u, f)
      BY <2>1 DEF Children
    <2>3. f # e
      BY <2>2, NotOwnChild
    <2>4. \A d \in D : d \in DOMAIN u /\ d # Root /\ u[d].live /\ u[d].role = "TOKEN"
      BY <1>8
    <2>5. \A i \in B1 \ D : i \in B2
      OBVIOUS
    <2>6. \A i \in DOMAIN u \ B2 : Children(u, i) \cap D = {}
      BY DEF Children
    <2>7. Tended(u, B1, c, j) /\ x = Ended(u, D)
      BY <1>8
    <2> HIDE DEF B1, B2, D
    <2>8. Tended(x, B2, c, j)
      BY <2>4, <2>5, <2>6, <2>7, TokensCut
    <2>9. Cuts(u, D, x) /\ Tree(x) /\ Len(x) = Len(u)
      <3>1. Cuts(u, D, x) /\ Grows(u, x) /\ Len(x) = Len(u)
        BY <2>7, EndedCuts, EndedTree
      <3> QED BY <3>1 DEF Grows
    <2>10. DOMAIN x = DOMAIN u /\ (\A i \in DOMAIN u \ {e} : x[i] = u[i])
      BY <2>9 DEF Cuts, D
    <2>11. h.host # e
      BY <1>4, <1>8, Acyclic
    <2>12. x[h.host] = u[h.host]
      BY <1>3, <2>10, <2>11
    <2>13. ASSUME h.scope # Top PROVE f = h.host \/ f \in Below(x, h.host)
      <3>1. e \in Below(u, h.host)
        BY <1>1, <1>4, <2>13, BelowLive
      <3>2. f = h.host \/ f \in Below(u, h.host)
        BY <1>1, <2>2, <3>1, BelowLive
      <3>3. f \in Below(u, h.host) =>
              f \in DOMAIN u /\ u[f].live /\ \E k \in DOMAIN u[f].path : u[f].path[k] = h.host
        BY <1>1, BelowLive DEF Below
      <3>4. LiveUp(x)
        BY <2>8 DEF Tended
      <3>5. ASSUME f \in Below(u, h.host) PROVE f \in Below(x, h.host)
        <4>1. f \in DOMAIN x /\ x[f] = u[f] /\ Tree(x)
          BY <2>3, <2>9, <2>10, <3>3, <3>5
        <4>2. x[f].live /\ \E k \in DOMAIN x[f].path : x[f].path[k] = h.host
          BY <3>3, <3>5, <4>1
        <4> QED BY <3>4, <4>1, <4>2, BelowLive
      <3> QED BY <3>2, <3>5
    <2> QED BY <1>3, <1>4, <1>5, <1>6, <2>8, <2>9, <2>10, <2>12, <2>13 DEF B2
  <1> QED BY <1>7, <1>8

LEMMA ThrowErrorTilled ==
  ASSUME IInv, PInv, TInv, ThrowError
  PROVE  Tilled
  <1> DEFINE x == IF Tok = Root THEN Closed ELSE Ended(Closed, {Tok})
             B == Busy(tasks, Pend(jobs), joins, Rest)
  <1>1. Behaves({"end"})
    BY DEF ThrowError
  <1>2. /\ Pumping /\ ex[Tok].live /\ Mode \in {"enter", "resume"}
    BY <1>1 DEF Behaves
  <1>3. AtWork(Closed, tasks, jobs, joins, Rest, Tok)
    BY <1>2, ArrivedTended
  <1>4. /\ Tree(Closed) /\ jobs \subseteq JobIn(Closed) /\ Rest \in Seq(EventIn(Closed)) /\ ~completed
        /\ Tok \in DOMAIN Closed /\ Closed[Tok].live
        /\ Tended(Closed, B \cup {Tok}, collapsing, jobs)
    BY <1>3 DEF AtWork
  <1>5. Closed[Tok].role = "TOKEN" /\ Len(Closed) = Len(ex) /\ Root \in DOMAIN Closed
    <2>1. Root \in DOMAIN Closed /\ Len(Closed) = Len(ex)
      BY <1>2, HeadEvent DEF Prepared, Grows
    <2> QED BY <1>2, <2>1, Arrived
  <1>6. PICK h \in Catchers(Closed, Tok, Proc.code[At]) :
          /\ Continue(WithEventSubprocess(TakenOver(x, h.host, h.scope), h.host, h.start),
                      DropEventTimers(Without(jobs, Victims(x, h.host, h.scope)), h.host, h.scope)
                        \cup EventTimers(Len(ex) + 1, Home(h.start)),
                      Append(Rest, Enter(Len(ex) + 2, h.start)))
          /\ tasks' = Without(tasks, Victims(x, h.host, h.scope))
          /\ joins' = JoinsTakenOver(Victims(x, h.host, h.scope), h.scope)
    BY DEF ThrowError
  <1>7. Home(h.start) \in Nodes /\ Kind(Home(h.start)) = "esub"
    BY <1>4, <1>5, CatchersIn
  <1> DEFINE host == h.host
             scope == h.scope
             s == h.start
             dead == Victims(x, host, scope)
             y == WithEventSubprocess(TakenOver(x, host, scope), host, s)
             j == DropEventTimers(Without(jobs, dead), host, scope) \cup EventTimers(Len(ex) + 1, Home(s))
             v == Enter(Len(ex) + 2, s)
             q == Append(Rest, v)
             B2 == Busy(tasks', Pend(j), joins', q)
  <1>8. /\ Continue(y, j, q) /\ tasks' = Without(tasks, dead) /\ joins' = JoinsTakenOver(dead, scope)
    BY <1>6
  <1>9. x = IF Tok = Root THEN Closed ELSE Ended(Closed, {Tok})
    OBVIOUS
  <1> HIDE DEF x, B
  <1>10. /\ Tree(x) /\ DOMAIN x = DOMAIN Closed /\ Len(x) = Len(Closed)
         /\ host \in DOMAIN x /\ x[host].live
         /\ scope = Top => host = Root
         /\ scope # Top => /\ x[host].role # "TOKEN" /\ x[host].act = scope
                           /\ scope \in Nodes /\ Kind(scope) \in SubKinds
         /\ \E p : /\ Tended(x, B \cup {p}, collapsing, jobs)
                   /\ scope # Top => p = host \/ p \in Below(x, host)
    <2>1. Throwing(Closed, B, collapsing, jobs, Tok, h, x)
      BY <1>4, <1>5, <1>9 DEF Throwing
    <2> QED BY <2>1, Thrown
  <1>11. PICK p : /\ Tended(x, B \cup {p}, collapsing, jobs)
                  /\ scope # Top => p = host \/ p \in Below(x, host)
    BY <1>10
  <1>12. jobs \subseteq JobIn(x)
    BY <1>4, <1>10 DEF JobIn
  <1> HIDE DEF host, scope, s
  <1>13. \A u \in Pend(jobs) : u.ex \in dead \/ u \in Pend(j)
    BY DEF Pend, Without, DropEventTimers, WaitKinds
  <1>14. dead = Victims(x, host, scope) /\ y = WithEventSubprocess(TakenOver(x, host, scope), host, s)
    OBVIOUS
  <1> HIDE DEF dead, j, y
  <1>15. Busy(tasks', Pend(j), joins', Rest) \cup {Len(ex) + 2} \subseteq B2
    BY <1>4, BusyNext
  <1>16. ASSUME scope # Top PROVE \A i \in B : i \in dead \/ i \in B2
    <2>1. joins' = Without(joins, dead)
      BY <1>8, <1>16 DEF JoinsTakenOver
    <2> HIDE DEF B2, q
    <2> QED BY <1>8, <1>13, <1>15, <2>1, SurvivorsBusy DEF B
  <1> HIDE DEF B2, q
  <1>17. /\ Len(x) + 2 \in B2
         /\ j = DropEventTimers(Without(jobs, dead), host, scope) \cup EventTimers(Len(x) + 1, Home(s))
    BY <1>5, <1>10, <1>15 DEF j
  <1>18. ASSUME scope # Top PROVE \A i \in B \cup {p} : i \in dead \/ i = host \/ i \in B2
    <2>1. Below(x, host) \subseteq dead
      BY <1>14 DEF Victims
    <2> QED BY <1>11, <1>16, <1>18, <2>1
  <1> DEFINE B1 == B \cup {p}
  <1>19. TakingOver(x, B1, collapsing, jobs, host, scope, s, dead, B2, j)
    <2>1. Home(s) \in Nodes /\ Kind(Home(s)) = "esub"
      BY <1>7 DEF s
    <2>2. \A k \in j : k.kind = "timer-event-start" =>
            k \in DropEventTimers(Without(jobs, dead), host, scope) \cup EventTimers(Len(x) + 1, Home(s))
      BY <1>17
    <2>3. Tended(x, B1, collapsing, jobs) /\ (scope # Top => \A i \in B1 : i \in dead \/ i = host \/ i \in B2)
      BY <1>11, <1>18
    <2> HIDE DEF B1
    <2> QED BY <1>10, <1>12, <1>14, <1>17, <2>1, <2>2, <2>3 DEF TakingOver
  <1> HIDE DEF B1
  <1>20. Tended(y, B2, collapsing, j) /\ host \in DOMAIN y /\ y[host].live
    BY <1>14, <1>19, TakeOverTended
  <1> QED BY <1>4, <1>8, <1>20, ContinueTilled DEF B2

\* Every event of the queue.
LEMMA PumpTilled ==
  ASSUME ForksAtGateways, JoinsWhole, IInv, PInv, TInv, ~Raises, Pump
  PROVE  Tilled
  BY DropEventTilled, ScheduleAsyncBeforeTilled, PassStartTilled, ReachEndTilled,
     ThrowErrorTilled, RunServiceTilled, ChooseFlowTilled, EnterUserTaskWaitTilled,
     EnterTimerCatchTilled, EnterSubprocessTilled, PassGatewayTilled, WaitAtJoinTilled,
     DepartNodeTilled
  DEF Pump

-----------------------------------------------------------------------------
\* The steps of _collapse_scopes.  A scope that is over leaves its node ...
LEMMA CollapseSubprocessTilled ==
  ASSUME ForksAtGateways, IInv, PInv, TInv, ~Raises, NEW e \in DOMAIN ex, CollapseSubprocess(e)
  PROVE  Tilled
  <1> DEFINE n == ex[e].act
             x == [ex EXCEPT ![e].open = None, ![e].role = "TOKEN"]
             j1 == DropBoundaries(jobs, n)
             j == DropEventTimers(j1, e, n)
             B == Busy(tasks, Pend(jobs), joins, queue)
             B1 == B \cup {e}
  <1>1. /\ collapsing /\ ex[e].live /\ ex[e].role # "TOKEN" /\ Children(ex, e) = {}
        /\ n \in Nodes /\ Kind(n) \in SubKinds
        /\ Leave(x, j, queue, e, n) /\ tasks' = tasks /\ joins' = joins
    BY DEF CollapseSubprocess, Collapsible
  <1>2. cmd' # NoCmd
    <2>1. ~Return
      BY <1>1 DEF Return
    <2> QED BY <1>1, <2>1 DEF PInv, AtRest, Raises
  <1>3. Tree(ex) /\ jobs \subseteq JobIn(ex) /\ queue \in Seq(EventIn(ex))
    BY DEF IInv
  <1>4. Tended(ex, B, collapsing, jobs)
    BY DEF TInv, Pending
  <1>5. ~completed
    <2>1. ex[Root].live
      BY <1>1, <1>4, RootLives DEF Tended
    <2> QED BY <1>1, <2>1 DEF TInv, RootEnds
  <1>6. Pend(j) = Pend(jobs)
    <2>1. Pend(j) = Pend(j1)
      BY DEF Pend, DropEventTimers, WaitKinds
    <2> QED BY <2>1, PendDropBoundaries
  <1>7. \A k \in j : k \in jobs /\ ~(k.kind = "timer-event-start" /\ k.ex = e /\ k.scope = n)
    BY DEF DropEventTimers, DropBoundaries
  <1>8. ex[e] \in ExecutionIn(ex)
    BY <1>3, TreeDomain
  <1>9. /\ DOMAIN x = DOMAIN ex
        /\ \A i \in DOMAIN ex \ {e} : x[i] = ex[i]
        /\ x[e].role = "TOKEN" /\ x[e].open = None
        /\ x[e].path = ex[e].path /\ x[e].live = ex[e].live
    BY <1>8 DEF ExecutionIn
  <1>10. Tree(x)
    <2> DEFINE x1 == [ex EXCEPT ![e].open = None]
    <2>1. Tree(x1)
      BY <1>3, SetOpen DEF Grows
    <2>2. x = [x1 EXCEPT ![e].role = "TOKEN"]
      OBVIOUS
    <2> HIDE DEF x1, x
    <2>3. Grows(x1, x)
      BY <2>1, <2>2, SetRole
    <2> QED BY <2>3 DEF Grows
  <1>11. B \subseteq B1 /\ e \in B1
    OBVIOUS
  <1> HIDE DEF x, j, B1
  <1>12. Alters(ex, e, x)
    BY <1>9 DEF Alters
  <1>13. Tended(ex, B1, collapsing, jobs)
    BY <1>4, <1>11, TendedMore
  <1>14. \A k \in j : k.kind = "timer-event-start" =>
           k \in jobs /\ k.ex \in DOMAIN ex /\ ~(k.ex = e /\ k.scope # Top)
    BY <1>3, <1>4, <1>7 DEF Tended, SubsFollow, JobIn
  <1>15. Tended(x, B1, collapsing, j)
    <2>1. Altering(ex, B1, collapsing, jobs, e, x, j)
      BY <1>1, <1>3, <1>9, <1>11, <1>12, <1>13, <1>14 DEF Altering
    <2> QED BY <2>1, AltersTended
  <1>16. j \subseteq JobIn(x) /\ queue \in Seq(EventIn(x)) /\ e \in DOMAIN x /\ x[e].live
    <2>1. queue \in Seq(EventIn(x))
      BY <1>3, <1>9, InMonotone
    <2> QED BY <1>1, <1>3, <1>7, <1>9, <2>1 DEF JobIn
  <1>17. AtWork(x, tasks, j, joins, queue, e)
    BY <1>5, <1>6, <1>10, <1>15, <1>16 DEF AtWork, B1
  <1>18. ~(Len(Out(n)) > 1)
    BY <1>1 DEF ForksAtGateways, SubKinds
  <1> QED BY <1>1, <1>2, <1>9, <1>17, <1>18, LeaveTilled

\* ... a fork that is over ends ...
LEMMA CollapseForkTilled ==
  ASSUME IInv, PInv, TInv, NEW e \in DOMAIN ex, CollapseFork(e)
  PROVE  Tilled
  <1> DEFINE B == Busy(tasks, Pend(jobs), joins, queue)
             D == {e}
             x == Ended(ex, D)
  <1>1. /\ collapsing /\ ex[e].live /\ ex[e].role # "TOKEN" /\ Children(ex, e) = {}
        /\ ex[e].act \in Nodes /\ Kind(ex[e].act) = "parallel" /\ tasks' = tasks /\ joins' = joins
        /\ IF e = Root THEN CompleteInstance(ex, queue) ELSE Continue(x, jobs, queue)
    BY DEF CollapseFork, Collapsible
  <1>2. Tree(ex) /\ jobs \subseteq JobIn(ex)
    BY DEF IInv
  <1>3. Tended(ex, B, collapsing, jobs)
    BY DEF TInv, Pending
  <1>4. ex[Root].live /\ ~completed
    <2>1. ex[Root].live
      BY <1>1, <1>3, RootLives DEF Tended
    <2> QED BY <1>1, <2>1 DEF TInv, RootEnds
  <1>5. Root \in DOMAIN ex
    <2>1. ex # <<>>
      OBVIOUS
    <2> QED BY <1>2, <2>1 DEF Tree, Linked
  <1> HIDE DEF B
  <1>6. CASE e = Root
    BY <1>1, <1>2, <1>3, <1>5, <1>6, CompleteTilled DEF CompleteInstance
  <1>7. CASE e # Root
    <2>1. Cuts(ex, D, x)
      BY <1>2, EndedCuts
    <2>2. \A d \in DOMAIN ex \ D : ex[d].live => \A k \in DOMAIN ex[d].path : ex[d].path[k] \notin D
      BY <1>1, <1>2, <1>3, NoneBelow DEF Tended
    <2>3. \A k \in jobs : k.kind = "timer-event-start" => k \in jobs /\ k.ex \notin D
      <3>1. ASSUME NEW k \in jobs, k.kind = "timer-event-start", k.ex = e PROVE FALSE
        <4>1. k.scope # Top => Kind(ex[e].act) \in SubKinds
          BY <1>3, <3>1 DEF Tended, SubsFollow
        <4>2. k.scope = Top => e = Root
          BY <1>3, <3>1 DEF Tended, SubsFollow
        <4> QED BY <1>1, <1>7, <4>1, <4>2 DEF SubKinds
      <3> QED BY <3>1
    <2>4. Root \in DOMAIN x /\ x[Root].live
      BY <1>4, <1>5, <1>7, <2>1 DEF Cuts
    <2> HIDE DEF D, x
    <2>5. Tended(x, B, collapsing, jobs)
      <3>1. Cutting(ex, B, collapsing, jobs, D, x, B, collapsing, jobs)
        <4>1. \A i \in DOMAIN ex \ (D \cup B) :
                ex[i].live => i \notin B /\ (collapsing \/ Children(ex, i) \cap D = {})
          BY <1>1
        <4> QED BY <1>2, <1>3, <2>1, <2>2, <2>3, <4>1 DEF Cutting
      <3> QED BY <3>1, CutsTended
    <2> QED BY <1>1, <1>4, <1>7, <2>4, <2>5, ContinueTilled DEF B
  <1> QED BY <1>6, <1>7

\* ... and when no scope is over, each still has children.
LEMMA FinishCollapseTilled ==
  ASSUME Resolves, IInv, PInv, TInv, FinishCollapse
  PROVE  Tilled
  <1> DEFINE over == /\ ex[Root].live
                     /\ Children(ex, Root) = {}
                     /\ ex[Root].act = None
                     /\ ex[Root].open = None
             B == Busy(tasks, Pend(jobs), joins, queue)
  <1>1. /\ Collapsible = {} /\ collapsing' = FALSE
        /\ ex' = IF over THEN Ended(ex, {Root}) ELSE ex
        /\ jobs' = IF over THEN {} ELSE jobs
        /\ completed' = (completed \/ over)
        /\ tasks' = tasks /\ joins' = joins /\ queue' = queue /\ cmd' = cmd
    BY DEF FinishCollapse
  <1>2. Tended(ex, B, collapsing, jobs) /\ RootEnds
    BY DEF TInv, Pending
  <1>3. CASE over
    <2>1. Tree(ex)
      BY DEF IInv
    <2>2. Root \in DOMAIN ex
      <3>1. cmd # NoCmd
        BY DEF FinishCollapse, PInv, AtRest
      <3> QED BY <3>1 DEF IInv
    <2>3. Children(ex, Root) = {} /\ ex' = Ended(ex, {Root}) /\ jobs' = {} /\ completed' = TRUE
      BY <1>1, <1>3
    <2> HIDE DEF B
    <2> QED BY <1>2, <2>1, <2>2, <2>3, CompleteTilled
  <1>4. CASE ~over
    <2>1. ex' = ex /\ jobs' = jobs /\ completed' = completed
      <3>1. completed \in BOOLEAN
        BY DEF IInv
      <3> HIDE DEF over
      <3> QED BY <1>1, <1>4, <3>1
    <2>2. ASSUME NEW e \in DOMAIN ex, ex[e].live, e \notin B
          PROVE  Parked(ex, e) /\ Children(ex, e) # {}
      <3>1. Parked(ex, e)
        BY <1>2, <2>2 DEF Tended, Attended
      <3>2. CASE e = Root /\ ex[e].act = None /\ ex[e].open = None
        BY <1>4, <2>2, <3>1, <3>2
      <3>3. CASE ex[e].role # "TOKEN" /\ ex[e].act \in Nodes /\ Kind(ex[e].act) \in SubKinds \cup {"parallel"}
        <4>1. Here(ex, e, ex[e].act)
          BY <2>2, <3>3 DEF Resolves
        <4> QED BY <1>1, <2>2, <3>1, <3>3, <4>1 DEF Collapsible
      <3> QED BY <3>1, <3>2, <3>3 DEF Parked
    <2>3. Tended(ex, B, FALSE, jobs)
      BY <1>2, <2>2 DEF Tended, Attended
    <2>4. Pending' = Pend(jobs)
      BY <1>1, <2>1 DEF Pending, Pend
    <2>5. tasks' = tasks /\ joins' = joins /\ queue' = queue /\ collapsing' = FALSE
      BY <1>1
    <2>6. Tended(ex', Busy(tasks', Pending', joins', queue'), collapsing', jobs')
      BY <2>1, <2>3, <2>4, <2>5
    <2>7. RootEnds'
      BY <1>2, <2>1 DEF RootEnds
    <2> QED BY <2>6, <2>7 DEF Tilled
  <1> QED BY <1>3, <1>4

LEMMA CollapseTilled ==
  ASSUME ForksAtGateways, Resolves, IInv, PInv, TInv, ~Raises, Collapse
  PROVE  Tilled
  BY CollapseSubprocessTilled, CollapseForkTilled, FinishCollapseTilled DEF Collapse

-----------------------------------------------------------------------------
\* What a command finds: the busy wait, and a live execution means a live root.
LEMMA RestTended ==
  ASSUME IInv, PInv, TInv, AtRest
  PROVE  /\ Tended(ex, Busy(tasks, Pending, joins, <<>>), FALSE, jobs)
         /\ collapsing = FALSE
         /\ \A e \in DOMAIN ex : ex[e].live => ~completed
  <1>1. queue = <<>> /\ ~collapsing
    BY Resting
  <1>2. Tended(ex, Busy(tasks, Pending, joins, queue), collapsing, jobs) /\ RootEnds
    BY DEF TInv
  <1>3. collapsing \in BOOLEAN
    BY DEF IInv
  <1>4. ASSUME NEW e \in DOMAIN ex, ex[e].live PROVE ~completed
    <2>1. ex[Root].live
      BY <1>2, <1>4, RootLives DEF Tended
    <2> QED BY <1>2, <1>4, <2>1 DEF RootEnds
  <1> QED BY <1>1, <1>2, <1>3, <1>4

\* A command that starts with the event v has taken what v moves from its place.
LEMMA StartedTilled ==
  ASSUME NEW B, Tended(ex', B, FALSE, jobs'), collapsing' = FALSE, ~completed',
         NEW v, queue' = <<v>>, v.ex \in DOMAIN ex', ex'[v.ex].live,
         \A i \in B : i = v.ex \/ \E u \in tasks' \cup Pending' \cup joins' : u.ex = i,
         v.mode = "leave" => ex'[v.ex].open = None /\ (Kind(v.node) # "boundary" => ex'[v.ex].act = v.node)
  PROVE  TInv'
  <1> DEFINE B2 == Busy(tasks', Pending', joins', queue')
  <1>1. queue'[1] = v /\ 1 \in DOMAIN queue' /\ Head(queue') = v
    OBVIOUS
  <1>2. \A i \in B : i \in B2
    BY <1>1 DEF Busy
  <1> HIDE DEF B2
  <1>3. Tended(ex', B2, collapsing', jobs')
    BY <1>2, TendedMore
  <1>4. ex'[Root].live /\ ex' # <<>>
    BY RootLives DEF Tended
  <1>5. RootEnds'
    BY <1>4 DEF RootEnds
  <1>6. FirstLeaves'
    BY <1>1 DEF FirstLeaves, Mode, Tok, At
  <1> QED BY <1>3, <1>5, <1>6 DEF TInv, B2

\* A token closes its activity and is still busy.
LEMMA ClosesTended ==
  ASSUME NEW x, Tree(x), NEW B, NEW c, NEW j, Tended(x, B, c, j), j \subseteq JobIn(x),
         NEW e \in B, e \in DOMAIN x, x[e].role = "TOKEN", NEW y, Closes(y, x, e), y[e].path = x[e].path,
         NEW j2, \A k \in j2 : k.kind = "timer-event-start" => k \in j
  PROVE  Tended(y, B, c, j2)
  <1>1. Alters(x, e, y) /\ y[e].role = "TOKEN"
    BY DEF Closes, Alters
  <1>2. x[e].live /\ e # Root => Children(x, e) = {}
    BY DEF Tended, Leaves
  <1>3. \A k \in j2 : k.kind = "timer-event-start" => k \in j /\ k.ex \in DOMAIN x /\ ~(k.ex = e /\ k.scope # Top)
    BY DEF Tended, SubsFollow, JobIn
  <1>4. Altering(x, B, c, j, e, y, j2)
    BY <1>1, <1>2, <1>3 DEF Altering
  <1> QED BY <1>4, AltersTended

\* A process starts with its root.
LEMMA StartProcessTilled ==
  ASSUME IInv, PInv, TInv, StartProcess
  PROVE  TInv'
  <1> DEFINE r == NewExecution(<<>>, "TOKEN", None)
             v == Enter(Root, Proc.start[Top])
  <1>1. /\ AtRest /\ ex = <<>> /\ ex' = <<r>> /\ queue' = <<v>>
        /\ jobs' = jobs /\ collapsing' = collapsing /\ completed' = completed
    BY DEF StartProcess
  <1>2. r.live /\ r.role = "TOKEN" /\ r.path = <<>> /\ v.ex = 1 /\ v.mode = "enter"
    BY DEF NewExecution, Enter, Root
  <1> HIDE DEF r, v
  <1>3. ex'[1] = r /\ DOMAIN ex' = {1} /\ DOMAIN ex = {}
    BY <1>1
  <1>4. collapsing = FALSE
    BY <1>1, RestTended
  <1>5. jobs = {}
    BY <1>3 DEF IInv, JobIn
  <1>6. ~completed
    BY <1>1 DEF TInv, RootEnds
  <1>7. Tended(ex', {1}, FALSE, jobs')
    <2>1. \A e : Children(ex', e) = {}
      BY <1>2, <1>3 DEF Children
    <2>2. DOMAIN ex' \ {Root} = {} /\ \A e \in DOMAIN ex' : DOMAIN ex'[e].path = {}
      BY <1>2, <1>3 DEF Root
    <2> QED BY <1>1, <1>2, <1>3, <1>5, <2>1, <2>2
            DEF Tended, Rooted, LiveUp, Leaves, Attended, ForksShut, SubsFollow
  <1>8. /\ v.ex \in DOMAIN ex' /\ ex'[v.ex].live /\ v.mode # "leave" /\ queue' = <<v>>
        /\ collapsing' = FALSE /\ ~completed'
    BY <1>1, <1>2, <1>3, <1>4, <1>6
  <1> DEFINE B == {1}
  <1>9. \A i \in B : i = v.ex \/ \E u \in tasks' \cup Pending' \cup joins' : u.ex = i
    BY <1>2
  <1>10. Tended(ex', B, FALSE, jobs')
    BY <1>7
  <1> HIDE DEF B
  <1> QED BY <1>8, <1>9, <1>10, StartedTilled

\* A task is completed by the token that waits for it.
LEMMA CompleteTaskTilled ==
  ASSUME Resolves, IInv, PInv, TInv, NEW t \in tasks, CompleteTask(t)
  PROVE  TInv'
  <1> DEFINE e == t.ex
             v == Depart(e, t.node)
             B == Busy(tasks, Pending, joins, <<>>)
  <1>1. AtRest /\ tasks' = tasks \ {t} /\ joins' = joins /\ collapsing' = collapsing /\ completed' = completed
    BY DEF CompleteTask
  <1>2. /\ Placed(ex, tasks, Pending, joins, <<>>) /\ Tree(ex)
        /\ cmd' # NoCmd => Pending' = {k \in jobs' : k.kind \in WaitKinds /\ k # cmd'}
    BY <1>1, Resting
  <1>3. Tended(ex, B, FALSE, jobs) /\ collapsing = FALSE /\ (\A i \in DOMAIN ex : ex[i].live => ~completed)
    BY <1>1, RestTended
  <1>4. TaskStands(ex, t)
    BY <1>2, LeavesPlace
  <1>5. /\ e \in DOMAIN ex /\ ex[e].live /\ ex[e].role = "TOKEN" /\ ex[e].act = t.node
    BY <1>4 DEF TaskStands, Stands
  <1>6. t.node \in Nodes
    BY DEF IInv, TaskIn
  <1>7. Here(ex, e, t.node)
    BY <1>5, <1>6 DEF Resolves
  <1>8. /\ ex' = [ex EXCEPT ![e].open = None] /\ jobs' = DropBoundaries(jobs, t.node)
        /\ queue' = <<v>> /\ cmd' = CompleteC
    BY <1>7 DEF CompleteTask
  <1>9. v.ex = e /\ v.mode = "leave" /\ v.node = t.node
    BY DEF Depart
  <1>10. e \in B
    BY DEF Busy
  <1>11. \A u \in Pending : u \in Pending'
    <2>1. CompleteC # NoCmd /\ \A u \in Pending : u # CompleteC
      BY DEF CompleteC, NoCmd, Pending, Pend, WaitKinds
    <2>2. \A u \in Pending : u \in DropBoundaries(jobs, t.node)
      BY DEF Pending, Pend, DropBoundaries, WaitKinds
    <2> QED BY <1>2, <1>8, <2>1, <2>2 DEF Pending, Pend
  <1>12. \A i \in B : i = e \/ \E u \in tasks' \cup Pending' \cup joins' : u.ex = i
    <2>1. \A u \in tasks : u.ex = e \/ u \in tasks'
      BY <1>1
    <2>2. \A u \in joins : u.ex = e \/ u \in joins'
      BY <1>1
    <2>3. \A u \in Pending : u.ex = e \/ u \in Pending'
      BY <1>11
    <2> HIDE DEF e
    <2> QED BY <2>1, <2>2, <2>3 DEF Busy
  <1> HIDE DEF e, v, B
  <1>13. Closes(ex', ex, e) /\ ex'[e].path = ex[e].path
    <2>1. None \in Nodes \cup {None}
      OBVIOUS
    <2>2. Grows(ex, ex')
      BY <1>2, <1>8, <2>1, SetOpen
    <2> QED BY <1>2, <1>5, <1>8, <2>2, OpenCloses DEF Grows
  <1>14. Tended(ex', B, FALSE, jobs')
    <2>1. jobs \subseteq JobIn(ex)
      BY DEF IInv
    <2>2. \A k \in jobs' : k.kind = "timer-event-start" => k \in jobs
      BY <1>8, DropsOnly
    <2> QED BY <1>2, <1>3, <1>5, <1>10, <1>13, <2>1, <2>2, ClosesTended
  <1>15. /\ v.ex \in DOMAIN ex' /\ ex'[v.ex].live /\ collapsing' = FALSE /\ ~completed'
         /\ ex'[v.ex].open = None /\ ex'[v.ex].act = v.node
    BY <1>1, <1>3, <1>5, <1>9, <1>13 DEF Closes
  <1>16. queue' = <<v>>
    BY <1>8
  <1>17. \A i \in B : i = v.ex \/ \E u \in tasks' \cup Pending' \cup joins' : u.ex = i
    BY <1>9, <1>12
  <1> QED BY <1>14, <1>15, <1>16, <1>17, StartedTilled

\* A job that a token waits for is not stale.
LEMMA DropStaleJobTilled ==
  ASSUME IInv, PInv, TInv, NEW j, DropStaleJob(j)
  PROVE  TInv'
  <1>1. /\ AtRest /\ j \in jobs /\ Stale(j) /\ jobs' = jobs \ {j}
        /\ UNCHANGED <<ex, tasks, joins, queue, collapsing, cmd, completed>>
    BY DEF DropStaleJob
  <1>2. /\ Placed(ex, tasks, Pending, joins, <<>>) /\ queue = <<>>
        /\ \A k \in jobs : k.kind \in WaitKinds => k \in Pending
    BY <1>1, Resting
  <1>3. j.kind \notin WaitKinds
    <2>1. SUFFICES ASSUME j.kind \in WaitKinds PROVE FALSE
      OBVIOUS
    <2>2. JobStands(ex, j)
      BY <1>1, <1>2, <2>1, LeavesPlace
    <2>3. ~completed
      BY <1>1 DEF IInv
    <2> QED BY <1>1, <2>1, <2>2, <2>3 DEF Stale, JobStands, Stands, WaitKinds
  <1>4. Pending' = Pending
    BY <1>1, <1>3 DEF Pending, Pend
  <1>5. Tended(ex, Busy(tasks, Pending, joins, queue), collapsing, jobs')
    <2>1. \A k \in jobs' : k.kind = "timer-event-start" => k \in jobs
      BY <1>1
    <2>2. Tended(ex, Busy(tasks, Pending, joins, queue), collapsing, jobs)
      BY DEF TInv
    <2> DEFINE B == Busy(tasks, Pending, joins, queue)
    <2> HIDE DEF B
    <2> QED BY <2>1, <2>2, TendedMore DEF B
  <1>6. FirstLeaves'
    BY <1>1, <1>2 DEF FirstLeaves
  <1>7. RootEnds'
    BY <1>1 DEF TInv, RootEnds
  <1> QED BY <1>1, <1>4, <1>5, <1>6, <1>7 DEF TInv

\* The job fetches its token: the others wait on.
LEMMA FetchedTended ==
  ASSUME IInv, PInv, TInv, AtRest, NEW j \in jobs, j.kind \in WaitKinds, cmd' = j,
         UNCHANGED <<tasks, jobs, joins>>
  PROVE  LET B == Busy(tasks, Pending, joins, <<>>)
         IN  /\ Tended(ex, B, FALSE, jobs) /\ collapsing = FALSE /\ Tree(ex)
             /\ j.ex \in B /\ j.ex \in DOMAIN ex /\ ~completed
             /\ ex[j.ex].live /\ ex[j.ex].role = "TOKEN" /\ ex[j.ex].act = j.node
             /\ j.kind = "async-after" => ex[j.ex].open = None
             /\ \A i \in B : i = j.ex \/ \E u \in tasks' \cup Pending' \cup joins' : u.ex = i
  <1> DEFINE B == Busy(tasks, Pending, joins, <<>>)
             e == j.ex
  <1>1. JobStands(ex, j) /\ j.ex \in DOMAIN ex
    BY JobFetched
  <1>2. /\ \A k \in jobs : k.kind \in WaitKinds => k \in Pending
        /\ Tree(ex)
        /\ Pending' = {k \in jobs : k.kind \in WaitKinds /\ k # j}
    <2>1. j # NoCmd
      BY DEF NoCmd, WaitKinds
    <2> QED BY <2>1, Resting
  <1>3. \A u \in Pending : u.ex = e \/ u \in Pending'
    BY <1>2 DEF Pending, Pend
  <1>4. \A i \in B : i = e \/ \E u \in tasks' \cup Pending' \cup joins' : u.ex = i
    <2>1. \A u \in tasks : u.ex = e \/ u \in tasks'
      OBVIOUS
    <2>2. \A u \in joins : u.ex = e \/ u \in joins'
      OBVIOUS
    <2> HIDE DEF e
    <2> QED BY <1>3, <2>1, <2>2 DEF Busy
  <1>5. e \in B
    BY <1>2 DEF Busy
  <1>6. Tended(ex, B, FALSE, jobs) /\ collapsing = FALSE /\ (\A i \in DOMAIN ex : ex[i].live => ~completed)
    BY RestTended
  <1> QED BY <1>1, <1>2, <1>4, <1>5, <1>6 DEF JobStands, Stands

LEMMA FireTimerCatchTilled ==
  ASSUME IInv, PInv, TInv, NEW j, FireTimerCatch(j)
  PROVE  TInv'
  <1> DEFINE v == Depart(j.ex, j.node)
             e == j.ex
             B == Busy(tasks, Pending, joins, <<>>)
  <1>1. /\ AtRest /\ j \in jobs /\ j.kind \in WaitKinds /\ cmd' = j /\ queue' = <<v>>
        /\ ex' = [ex EXCEPT ![e].open = None]
        /\ UNCHANGED <<tasks, jobs, joins>> /\ collapsing' = collapsing /\ completed' = completed
    BY DEF FireTimerCatch, Due, WaitKinds
  <1>2. v.ex = e /\ v.mode = "leave" /\ v.node = j.node
    BY DEF Depart
  <1>3. /\ Tended(ex, B, FALSE, jobs) /\ collapsing = FALSE /\ Tree(ex)
        /\ e \in B /\ e \in DOMAIN ex /\ ~completed
        /\ ex[e].live /\ ex[e].role = "TOKEN" /\ ex[e].act = j.node
        /\ \A i \in B : i = e \/ \E u \in tasks' \cup Pending' \cup joins' : u.ex = i
    BY <1>1, FetchedTended
  <1> HIDE DEF e, v, B
  <1>4. Closes(ex', ex, e) /\ ex'[e].path = ex[e].path
    <2>1. None \in Nodes \cup {None}
      OBVIOUS
    <2>2. Grows(ex, ex')
      BY <1>1, <1>3, <2>1, SetOpen
    <2> QED BY <1>1, <1>3, <2>2, OpenCloses DEF Grows
  <1>5. Tended(ex', B, FALSE, jobs')
    <2>1. jobs \subseteq JobIn(ex)
      BY DEF IInv
    <2>2. \A k \in jobs' : k.kind = "timer-event-start" => k \in jobs
      BY <1>1
    <2> QED BY <1>3, <1>4, <2>1, <2>2, ClosesTended
  <1>6. /\ v.ex \in DOMAIN ex' /\ ex'[v.ex].live /\ collapsing' = FALSE /\ ~completed'
        /\ ex'[v.ex].open = None /\ ex'[v.ex].act = v.node
    BY <1>1, <1>2, <1>3, <1>4 DEF Closes
  <1>7. \A i \in B : i = v.ex \/ \E u \in tasks' \cup Pending' \cup joins' : u.ex = i
    BY <1>2, <1>3
  <1> QED BY <1>1, <1>2, <1>5, <1>6, <1>7, StartedTilled

LEMMA RunAsyncTilled ==
  ASSUME IInv, PInv, TInv, NEW j, RunAsyncContinuation(j) \/ RunAsyncAfter(j)
  PROVE  TInv'
  <1> DEFINE B == Busy(tasks, Pending, joins, <<>>)
  <1>1. PICK v : /\ queue' = <<v>> /\ v.ex = j.ex /\ v.node = j.node
                 /\ v.mode = "leave" => j.kind = "async-after"
    BY DEF RunAsyncContinuation, RunAsyncAfter, Due, Resume, Depart
  <1>2. /\ AtRest /\ j \in jobs /\ j.kind \in WaitKinds /\ cmd' = j
        /\ ex' = ex /\ UNCHANGED <<tasks, jobs, joins>> /\ collapsing' = collapsing /\ completed' = completed
    BY DEF RunAsyncContinuation, RunAsyncAfter, Due, WaitKinds
  <1>3. /\ Tended(ex, B, FALSE, jobs) /\ collapsing = FALSE
        /\ j.ex \in DOMAIN ex /\ ~completed
        /\ ex[j.ex].live /\ ex[j.ex].act = j.node
        /\ j.kind = "async-after" => ex[j.ex].open = None
        /\ \A i \in B : i = j.ex \/ \E u \in tasks' \cup Pending' \cup joins' : u.ex = i
    BY <1>2, FetchedTended
  <1> HIDE DEF B
  <1>4. /\ v.ex \in DOMAIN ex' /\ ex'[v.ex].live /\ collapsing' = FALSE /\ ~completed'
        /\ v.mode = "leave" => ex'[v.ex].open = None /\ ex'[v.ex].act = v.node
        /\ Tended(ex', B, FALSE, jobs')
    BY <1>1, <1>2, <1>3
  <1>5. \A i \in B : i = v.ex \/ \E u \in tasks' \cup Pending' \cup joins' : u.ex = i
    BY <1>1, <1>3
  <1> QED BY <1>1, <1>4, <1>5, StartedTilled

\* A deadline takes its host's token from wherever it waits.
LEMMA FireInterruptingBoundaryTilled ==
  ASSUME PlainDeadlines, IInv, PInv, TInv, NEW j \in jobs, FireInterruptingBoundary(j)
  PROVE  TInv'
  <1> DEFINE h == Proc.host[j.node]
             e == j.ex
             dead == IF Kind(h) \in SubKinds THEN Below(ex, e) ELSE {}
             b == DropBoundaries(Without(jobs, dead), h)
             d == DropContinuation(b, e, h)
             v == Depart(e, j.node)
             B == Busy(tasks, Pending, joins, <<>>)
             B1 == B \cup {e}
  <1>1. /\ AtRest /\ j.kind = "timer-boundary" /\ ~Stale(j) /\ j.node \in Proc.cancel
        /\ ex' = [Killed(ex, dead) EXCEPT ![e].open = None]
        /\ tasks' = Without(tasks, dead) \ {[ex |-> e, node |-> h]}
        /\ jobs' = IF Kind(h) \in SubKinds THEN DropEventTimers(d, e, h) ELSE d
        /\ joins' = Without(joins, dead)
        /\ queue' = <<v>> /\ cmd' = j /\ collapsing' = collapsing /\ completed' = completed
    BY DEF FireInterruptingBoundary, Due
  <1>2. /\ ex[e].live /\ ex[e].act = h /\ ex[e].open # None
        /\ j.node \in Nodes /\ Kind(j.node) = "boundary" /\ e \in DOMAIN ex
    BY <1>1 DEF Stale, IInv, JobIn, Job
  <1>3. h \in Nodes /\ Kind(h) \in {"user", "service"} /\ Kind(h) \notin SubKinds
    BY <1>1, <1>2, ProcAssumption DEF PlainDeadlines, ProcAssumption, Kind, SubKinds
  <1>4. dead = {}
    BY <1>3
  <1> HIDE DEF h, e, dead, b, d, v
  <1>5. /\ Tree(ex) /\ ScopesShut(ex)
        /\ Pending' = {u \in jobs' : u.kind \in WaitKinds /\ u # j}
    <2>1. j # NoCmd
      BY <1>1 DEF NoCmd
    <2> QED BY <1>1, <2>1, Resting
  <1>6. ex[e].role = "TOKEN"
    BY <1>2, <1>3, <1>5 DEF ScopesShut, Shut
  <1>7. tasks' = tasks \ {[ex |-> e, node |-> h]} /\ joins' = joins /\ jobs' = d
    BY <1>1, <1>3, <1>4 DEF Without
  <1>8. /\ \A k \in jobs : k.kind \in WaitKinds => k \in d \/ k.ex = e
        /\ \A k \in d : k \in jobs
    BY <1>4 DEF d, b, DropContinuation, DropBoundaries, Without, WaitKinds
  <1>9. \A u \in Pending : u.ex = e \/ u \in Pending'
    <2>1. \A u \in Pending : u \in jobs /\ u.kind \in WaitKinds /\ u # j
      BY <1>1 DEF Pending, Pend, WaitKinds
    <2> QED BY <1>5, <1>7, <1>8, <2>1
  <1>10. \A i \in B : i = e \/ \E u \in tasks' \cup Pending' \cup joins' : u.ex = i
    <2>1. \A u \in tasks : u.ex = e \/ u \in tasks'
      BY <1>7
    <2>2. \A u \in joins : u.ex = e \/ u \in joins'
      BY <1>7
    <2> QED BY <1>9, <2>1, <2>2 DEF Busy
  <1>11. Tended(ex, B, FALSE, jobs) /\ collapsing = FALSE /\ (\A i \in DOMAIN ex : ex[i].live => ~completed)
    BY <1>1, RestTended
  <1> HIDE DEF B
  <1>12. Tended(ex, B1, FALSE, jobs)
    <2>1. \A i \in B : i \in B1
      OBVIOUS
    <2> HIDE DEF B1
    <2> QED BY <1>11, <2>1, TendedMore
  <1>13. Closes(ex', ex, e) /\ ex'[e].path = ex[e].path
    <2> DEFINE k == Killed(ex, dead)
    <2>1. DOMAIN k = DOMAIN ex /\ \A i \in DOMAIN ex : k[i] = ex[i]
      BY <1>4 DEF Killed
    <2>2. Tree(k)
      BY <1>5, KilledTree DEF Grows
    <2>3. ex' = [k EXCEPT ![e].open = None]
      BY <1>1
    <2>4. None \in Nodes \cup {None}
      OBVIOUS
    <2> HIDE DEF k
    <2>5. Closes(ex', k, e)
      BY <1>2, <2>1, <2>2, <2>3, OpenCloses
    <2>6. Grows(k, ex')
      BY <2>2, <2>3, <2>4, SetOpen
    <2> QED BY <1>2, <2>1, <2>5, <2>6 DEF Closes, Grows
  <1>14. Tended(ex', B1, FALSE, jobs')
    <2>1. jobs \subseteq JobIn(ex) /\ e \in B1
      BY DEF IInv
    <2>2. \A k \in jobs' : k.kind = "timer-event-start" => k \in jobs
      BY <1>7, <1>8
    <2> HIDE DEF B1
    <2> QED BY <1>2, <1>5, <1>6, <1>12, <1>13, <2>1, <2>2, ClosesTended
  <1>15. /\ v.ex = e /\ v.node = j.node
         /\ \A i \in B1 : i = v.ex \/ \E u \in tasks' \cup Pending' \cup joins' : u.ex = i
    <2>1. v.ex = e /\ v.node = j.node
      BY DEF v, Depart
    <2> QED BY <1>10, <2>1
  <1>16. /\ v.ex \in DOMAIN ex' /\ ex'[v.ex].live /\ collapsing' = FALSE /\ ~completed'
         /\ ex'[v.ex].open = None /\ Kind(v.node) = "boundary" /\ queue' = <<v>>
    BY <1>1, <1>2, <1>11, <1>13, <1>15 DEF Closes
  <1> HIDE DEF B1
  <1> QED BY <1>14, <1>15, <1>16, StartedTilled

\* A line beside the host: below its parent, which is no token.
LEMMA FireNonInterruptingBoundaryTilled ==
  ASSUME IInv, PInv, TInv, NEW j \in jobs, FireNonInterruptingBoundary(j)
  PROVE  TInv'
  <1> DEFINE path == IF j.ex = Root THEN <<Root>> ELSE ex[j.ex].path
             r == NewExecution(path, "TOKEN", None)
             e == Len(ex) + 1
             v == Depart(e, j.node)
             B == Busy(tasks, Pending, joins, <<>>)
             N == {e}
             B1 == B \cup N
  <1>1. /\ AtRest /\ j.kind = "timer-boundary" /\ ~Stale(j) /\ cmd' = j /\ queue' = <<v>>
        /\ ex' = Append(ex, r)
        /\ UNCHANGED <<tasks, jobs, joins>> /\ collapsing' = collapsing /\ completed' = completed
    BY DEF FireNonInterruptingBoundary, Due
  <1>2. /\ v.ex = e /\ v.node = j.node /\ j # NoCmd
        /\ r.role = "TOKEN" /\ r.act = None /\ r.open = None /\ r.live /\ r.path = path
    BY <1>1 DEF Depart, NewExecution, NoCmd
  <1>3. /\ Kind(j.node) = "boundary" /\ j.ex \in DOMAIN ex /\ ex[j.ex].live /\ jobs \subseteq JobIn(ex)
    BY <1>1 DEF Stale, IInv, JobIn
  <1> HIDE DEF r, v
  <1>4. Tree(ex) /\ Pending' = {u \in jobs' : u.kind \in WaitKinds /\ u # j}
    BY <1>1, <1>2, Resting
  <1>5. Pending \subseteq Pending'
    BY <1>1, <1>4 DEF Pending, Pend, WaitKinds
  <1>6. Tended(ex, B, FALSE, jobs) /\ collapsing = FALSE /\ (\A i \in DOMAIN ex : ex[i].live => ~completed)
    BY <1>1, RestTended
  <1>7. /\ DOMAIN ex' = DOMAIN ex \cup {e} /\ e \notin DOMAIN ex
        /\ (\A i \in DOMAIN ex : ex'[i] = ex[i]) /\ ex'[e] = r
    BY <1>1, <1>4, Appended
  <1> HIDE DEF e
  <1>8. /\ path # <<>> /\ (\A k \in DOMAIN path : path[k] \in DOMAIN ex /\ ex[path[k]].live)
        /\ \E k \in DOMAIN path : path[k] = Root
        /\ Head(path) = Root \/ ex[Head(path)].role # "TOKEN"
    <2>1. CASE j.ex = Root
      <3>1. path = <<Root>>
        BY <2>1
      <3> HIDE DEF path
      <3>2. DOMAIN path = {1} /\ path[1] = Root /\ Head(path) = Root /\ path # <<>>
        BY <3>1
      <3> QED BY <1>3, <2>1, <3>2
    <2>2. CASE j.ex # Root
      <3>1. path = ex[j.ex].path
        BY <2>2
      <3> HIDE DEF path
      <3>2. path \in Seq(DOMAIN ex)
        BY <1>3, <1>4, <3>1, ChildPath
      <3>3. \A k \in DOMAIN path : path[k] \in DOMAIN ex /\ ex[path[k]].live
        BY <1>3, <1>4, <1>6, <3>1, LineTo DEF Tended
      <3>4. PICK k \in DOMAIN path : path[k] = Root
        BY <1>3, <1>6, <2>2, <3>1 DEF Tended, Rooted
      <3>5. path # <<>> /\ 1 \in DOMAIN path /\ Head(path) = path[1]
        BY <3>2, <3>4
      <3>6. j.ex \in Children(ex, path[1])
        BY <1>3, <3>1, <3>5 DEF Children
      <3>7. path[1] = Root \/ ex[path[1]].role # "TOKEN"
        BY <1>6, <3>3, <3>5, <3>6 DEF Tended, Leaves
      <3> QED BY <3>3, <3>4, <3>5, <3>7
    <2> QED BY <2>1, <2>2
  <1> HIDE DEF path, B
  <1>9. Adds(ex, N, ex')
    <2>1. Hangs(ex', e)
      BY <1>2, <1>7, <1>8 DEF Hangs
    <2>2. Head(path) \in DOMAIN ex
      <3>1. path \in Seq(DOMAIN ex)
        BY <1>3, <1>4, BesideIn DEF PathBeside, path
      <3>2. Head(path) = path[1] /\ 1 \in DOMAIN path
        BY <1>8, <3>1
      <3> QED BY <1>8, <3>2
    <2>3. Head(ex'[e].path) = Root \/ ex'[Head(ex'[e].path)].role # "TOKEN"
      BY <1>2, <1>7, <1>8, <2>2
    <2> QED BY <1>7, <2>1, <2>3 DEF Adds
  <1>10. Tended(ex', B1, FALSE, jobs')
    <2>1. ex'[e].act \notin Nodes
      BY <1>2, <1>7, ProcAssumption DEF ProcAssumption
    <2>2. /\ B \subseteq B1 /\ N \subseteq B1 /\ \A n \in N : ex'[n].act \notin Nodes
          /\ \A k \in jobs' : k.kind = "timer-event-start" => k \in jobs
      BY <1>1, <2>1
    <2> HIDE DEF N, B1
    <2> QED BY <1>3, <1>4, <1>6, <1>9, <2>2, AddsBusy
  <1>11. \A i \in B1 : i = v.ex \/ \E u \in tasks' \cup Pending' \cup joins' : u.ex = i
    BY <1>1, <1>2, <1>5 DEF B, Busy
  <1>12. /\ v.ex \in DOMAIN ex' /\ ex'[v.ex].live /\ collapsing' = FALSE /\ ~completed'
         /\ ex'[v.ex].open = None /\ Kind(v.node) = "boundary" /\ queue' = <<v>>
    BY <1>1, <1>2, <1>3, <1>6, <1>7
  <1> HIDE DEF B1
  <1> QED BY <1>10, <1>11, <1>12, StartedTilled

\* The command is over: the next waits begin with its subscriptions.
LEMMA ReturnTilled ==
  ASSUME IInv, PInv, TInv, Return
  PROVE  TInv'
  <1> DEFINE B == Busy(tasks, Pending, joins, queue)
             B2 == Busy(tasks', Pending', joins', queue')
  <1>1. /\ cmd # NoCmd /\ (queue = <<>> \/ completed) /\ queue' = <<>> /\ cmd' = NoCmd
        /\ jobs' = IF cmd = StartC
                   THEN IF completed THEN jobs ELSE jobs \cup EventTimers(Root, Top)
                   ELSE (IF AsyncOver THEN DropBoundaries(jobs, cmd.node) ELSE jobs) \ {cmd}
        /\ UNCHANGED <<ex, tasks, joins, collapsing, completed>>
    BY DEF Return
  <1>2. FirstLeaves'
    BY <1>1 DEF FirstLeaves
  <1>3. RootEnds'
    BY <1>1 DEF TInv, RootEnds
  <1>4. Tended(ex, B, collapsing, jobs) /\ ex # <<>>
    BY <1>1 DEF TInv, IInv
  <1>5. CASE completed
    <2>1. ~ex[Root].live
      BY <1>4, <1>5 DEF TInv, RootEnds
    <2>2. Rooted(ex') /\ \A e \in DOMAIN ex' : ~ex'[e].live
      BY <1>1, <1>4, <2>1, RootLives DEF Tended
    <2>3. jobs' = {}
      <3>1. jobs = {}
        BY <1>5 DEF IInv
      <3>2. DropBoundaries(jobs, cmd.node) = {}
        BY <3>1, DropsOnly
      <3> QED BY <1>1, <1>5, <3>1, <3>2
    <2>4. Tended(ex', B2, collapsing', {})
      BY <2>2, AllDead
    <2> QED BY <1>2, <1>3, <2>3, <2>4 DEF TInv
  <1>6. CASE ~completed
    <2>1. ex[Root].live /\ queue = <<>>
      BY <1>1, <1>4, <1>6 DEF TInv, RootEnds
    <2>2. \A u \in Pending : u \in Pending'
      <3>1. ASSUME NEW u \in jobs, u.kind \in WaitKinds, u # cmd PROVE u \in jobs'
        BY <1>1, <1>6, <3>1 DEF DropBoundaries, WaitKinds
      <3>2. \A u \in jobs : u.kind \in WaitKinds => u # NoCmd
        BY DEF NoCmd, WaitKinds
      <3>3. \A u \in Pending : u \in jobs /\ u.kind \in WaitKinds /\ u # cmd
        BY DEF Pending, Pend
      <3>4. Pending' = {u \in jobs' : u.kind \in WaitKinds /\ u # NoCmd}
        BY <1>1 DEF Pending, Pend
      <3> QED BY <3>1, <3>2, <3>3, <3>4
    <2>3. \A i \in B : i \in B2
      BY <1>1, <2>1, <2>2 DEF Busy
    <2>4. \A k \in jobs' : k \in jobs \/ k \in EventTimers(Root, Top)
      BY <1>1, DropsOnly
    <2>5. \A k \in EventTimers(Root, Top) : k.ex = Root /\ k.scope = Top
      BY DEF EventTimers, NewJob
    <2>6. SubsFollow(ex, jobs')
      BY <1>4, <2>1, <2>4, <2>5 DEF Tended, SubsFollow
    <2> HIDE DEF B, B2
    <2>7. Tended(ex, B, collapsing, jobs')
      BY <1>4, <2>6 DEF Tended
    <2>8. Tended(ex, B2, collapsing, jobs')
      <3>1. \A k \in jobs' : k.kind = "timer-event-start" => k \in jobs'
        OBVIOUS
      <3> QED BY <2>3, <2>7, <3>1, TendedMore
    <2>9. ex' = ex /\ collapsing' = collapsing
      BY <1>1
    <2> QED BY <1>2, <1>3, <2>8, <2>9 DEF TInv, B2
  <1> QED BY <1>5, <1>6

\* What the job of an event subprocess finds: its host, and the start it names.
LEMMA EventStartDue ==
  ASSUME IInv, PInv, TInv, AtRest, NEW j \in jobs, j.kind = "timer-event-start", ~Stale(j)
  PROVE  /\ j.ex \in DOMAIN ex /\ ex[j.ex].live /\ Tree(ex) /\ jobs \subseteq JobIn(ex)
         /\ Home(j.node) \in Nodes /\ Kind(Home(j.node)) = "esub"
         /\ j.scope = Top => j.ex = Root
         /\ j.scope # Top => /\ ex[j.ex].role # "TOKEN" /\ ex[j.ex].act = j.scope
                             /\ j.scope \in Nodes /\ Kind(j.scope) \in SubKinds
  <1>1. j.node \in EventStarts(j.scope, "timerStart") /\ j.ex \in DOMAIN ex /\ ex[j.ex].live
    BY DEF Stale, IInv, JobIn
  <1>2. Home(j.node) \in Nodes /\ Kind(Home(j.node)) = "esub"
    BY <1>1, EventStartHome
  <1>3. Home(Home(j.node)) = j.scope
    BY <1>1 DEF EventStarts
  <1>4. j.scope \in Nodes \cup {Top}
    BY <1>2, <1>3, ProcAssumption DEF ProcAssumption, Home, Nodes
  <1>5. SubsFollow(ex, jobs)
    BY DEF TInv, Tended
  <1>6. Tree(ex) /\ jobs \subseteq JobIn(ex)
    BY DEF IInv
  <1> QED BY <1>1, <1>2, <1>4, <1>5, <1>6 DEF SubsFollow

\* A timer starts an event subprocess, which takes its scope over ...
LEMMA FireInterruptingEventStartTilled ==
  ASSUME IInv, PInv, TInv, NEW j \in jobs, FireInterruptingEventStart(j)
  PROVE  TInv'
  <1> DEFINE host == j.ex
             scope == j.scope
             s == j.node
             dead == Victims(ex, host, scope)
             y == WithEventSubprocess(TakenOver(ex, host, scope), host, s)
             e == Len(ex) + 2
             v == Enter(e, s)
             B == Busy(tasks, Pending, joins, <<>>)
             B3 == {u.ex : u \in tasks' \cup Pending' \cup joins'} \cup {e}
             B2 == B3 \cup {host}
  <1>1. /\ AtRest /\ j.kind = "timer-event-start" /\ ~Stale(j) /\ cmd' = j /\ queue' = <<v>>
        /\ ex' = y
        /\ tasks' = Without(tasks, dead)
        /\ jobs' = DropEventTimers(Without(jobs, dead), host, scope)
                     \cup EventTimers(Len(ex) + 1, Home(s))
        /\ joins' = JoinsTakenOver(dead, scope)
        /\ collapsing' = collapsing /\ completed' = completed
    BY DEF FireInterruptingEventStart, Due
  <1>2. /\ host \in DOMAIN ex /\ ex[host].live /\ Tree(ex) /\ jobs \subseteq JobIn(ex)
        /\ Home(s) \in Nodes /\ Kind(Home(s)) = "esub"
        /\ scope = Top => host = Root
        /\ scope # Top => /\ ex[host].role # "TOKEN" /\ ex[host].act = scope
                          /\ scope \in Nodes /\ Kind(scope) \in SubKinds
    BY <1>1, EventStartDue
  <1>3. Tended(ex, B, FALSE, jobs) /\ collapsing = FALSE /\ (\A i \in DOMAIN ex : ex[i].live => ~completed)
    BY <1>1, RestTended
  <1>4. v.ex = e /\ v.mode = "enter"
    BY DEF Enter
  <1>5. /\ j # NoCmd /\ Pending' = {u \in jobs' : u.kind \in WaitKinds /\ u # j}
    <2>1. j # NoCmd
      BY <1>1 DEF NoCmd
    <2> QED BY <1>1, <2>1, Resting
  <1> HIDE DEF host, scope, s, v, y
  <1>6. \A u \in Pending : u.ex \in dead \/ u \in Pending'
    <2>1. \A u \in Pending : u \in jobs /\ u.kind \in WaitKinds /\ u # j
      BY <1>1 DEF Pending, Pend, WaitKinds
    <2>2. \A u \in jobs : u.kind \in WaitKinds => u.ex \in dead \/ u \in jobs'
      BY <1>1 DEF Without, DropEventTimers, WaitKinds
    <2> QED BY <1>5, <2>1, <2>2
  <1> HIDE DEF dead
  <1>7. ASSUME scope # Top PROVE \A i \in B : i \in dead \/ i = host \/ i \in B3
    <2>1. joins' = Without(joins, dead)
      BY <1>1, <1>7 DEF JoinsTakenOver
    <2>2. \A u \in tasks : u.ex \in dead \/ u \in tasks'
      BY <1>1 DEF Without
    <2>3. \A u \in joins : u.ex \in dead \/ u \in joins'
      BY <2>1 DEF Without
    <2> QED BY <1>6, <2>2, <2>3 DEF Busy
  <1>8. dead = Victims(ex, host, scope) /\ e \in B3 /\ e = Len(ex) + 2
    BY DEF dead
  <1> HIDE DEF B, B3, e
  <1>9. TakingOver(ex, B, FALSE, jobs, host, scope, s, dead, B3, jobs')
    <2>1. \A k \in jobs' : k.kind = "timer-event-start" =>
            k \in DropEventTimers(Without(jobs, dead), host, scope) \cup EventTimers(Len(ex) + 1, Home(s))
      BY <1>1
    <2> DEFINE c == FALSE
    <2>2. Tended(ex, B, c, jobs)
      BY <1>3
    <2> HIDE DEF c
    <2>3. TakingOver(ex, B, c, jobs, host, scope, s, dead, B3, jobs')
      BY <1>2, <1>7, <1>8, <2>1, <2>2 DEF TakingOver
    <2> QED BY <2>3 DEF c
  <1>10. Tended(ex', B3, FALSE, jobs')
    <2>1. ex' = WithEventSubprocess(TakenOver(ex, host, scope), host, s)
      BY <1>1 DEF y
    <2> DEFINE c == FALSE
    <2>2. TakingOver(ex, B, c, jobs, host, scope, s, dead, B3, jobs')
      BY <1>9
    <2> HIDE DEF c
    <2>3. Tended(ex', B3, c, jobs')
      BY <2>1, <2>2, TakeOverTended
    <2> QED BY <2>3 DEF c
  <1>11. e \in DOMAIN ex' /\ ex'[e].live
    <2> DEFINE z == TakenOver(ex, host, scope)
    <2>1. Tree(z) /\ Len(z) = Len(ex) /\ host \in DOMAIN z
      BY <1>2, TakenOverTree DEF Grows
    <2>2. ex' = WithEventSubprocess(z, host, s)
      BY <1>1 DEF y
    <2> DEFINE d == Len(z) + 1
               f == Len(z) + 2
    <2>3. f = e
      BY <1>8, <2>1
    <2> HIDE DEF z
    <2>4. d = Len(z) + 1 /\ f = Len(z) + 2
      OBVIOUS
    <2> HIDE DEF d, f
    <2>5. HasParts(z, ex', host, s, d, f)
      BY <2>1, <2>2, <2>4, EventSubprocessParts
    <2> QED BY <2>3, <2>5 DEF HasParts
  <1>12. \A i \in B3 : i = v.ex \/ \E u \in tasks' \cup Pending' \cup joins' : u.ex = i
    BY <1>4 DEF B3
  <1>13. queue' = <<v>> /\ collapsing' = FALSE /\ ~completed' /\ v.ex \in DOMAIN ex' /\ ex'[v.ex].live
    BY <1>1, <1>2, <1>3, <1>4, <1>11
  <1>14. v.mode # "leave"
    BY <1>4
  <1> QED BY <1>10, <1>12, <1>13, <1>14, StartedTilled

\* ... or runs beside it.
LEMMA FireNonInterruptingEventStartTilled ==
  ASSUME IInv, PInv, TInv, NEW j \in jobs, FireNonInterruptingEventStart(j)
  PROVE  TInv'
  <1> DEFINE host == j.ex
             s == j.node
             e == Len(ex) + 2
             v == Enter(e, s)
             B == Busy(tasks, Pending, joins, <<>>)
             B1 == B \cup {host}
             B2 == B \cup {e}
  <1>1. /\ AtRest /\ j.kind = "timer-event-start" /\ ~Stale(j) /\ cmd' = j /\ queue' = <<v>>
        /\ ex' = WithEventSubprocess(ex, host, s)
        /\ jobs' = (jobs \ {j}) \cup EventTimers(Len(ex) + 1, Home(s))
        /\ tasks' = tasks /\ joins' = joins /\ collapsing' = collapsing /\ completed' = completed
    BY DEF FireNonInterruptingEventStart, Due
  <1>2. /\ host \in DOMAIN ex /\ ex[host].live /\ Tree(ex) /\ jobs \subseteq JobIn(ex)
        /\ Home(s) \in Nodes /\ Kind(Home(s)) = "esub"
        /\ host = Root \/ ex[host].role # "TOKEN"
    BY <1>1, EventStartDue
  <1>3. Tended(ex, B, FALSE, jobs) /\ collapsing = FALSE /\ (\A i \in DOMAIN ex : ex[i].live => ~completed)
    BY <1>1, RestTended
  <1>4. v.ex = e /\ v.mode = "enter"
    BY DEF Enter
  <1>5. \A u \in Pending : u \in Pending'
    <2>1. j # NoCmd
      BY <1>1 DEF NoCmd
    <2>2. Pending' = {u \in jobs' : u.kind \in WaitKinds /\ u # j}
      BY <1>1, <2>1, Resting
    <2>3. \A u \in Pending : u \in jobs /\ u.kind \in WaitKinds /\ u # j
      BY <1>1 DEF Pending, Pend, WaitKinds
    <2> QED BY <1>1, <2>2, <2>3
  <1> HIDE DEF host, s, v
  <1>6. \A i \in B2 : i = v.ex \/ \E u \in tasks' \cup Pending' \cup joins' : u.ex = i
    BY <1>1, <1>4, <1>5 DEF Busy
  <1>7. e = Len(ex) + 2 /\ e \in B2 /\ B \subseteq B2 /\ \A i \in B : i \in B1
    OBVIOUS
  <1> HIDE DEF B, e
  <1>8. Parked(ex, host) \/ host \in B2
    BY <1>2, <1>3, <1>7 DEF Tended, Attended
  <1> DEFINE c == FALSE
  <1>9. Tended(ex, B1, c, jobs)
    <2>1. Tended(ex, B, c, jobs)
      BY <1>3
    <2> HIDE DEF B1, c
    <2> QED BY <1>7, <2>1, TendedMore
  <1>10. \A k \in jobs' : k.kind = "timer-event-start" => k \in jobs \cup EventTimers(Len(ex) + 1, Home(s))
    BY <1>1
  <1> HIDE DEF c, B2
  <1>11. Besides(ex, B, c, jobs, host, s, B2, jobs')
    BY <1>2, <1>7, <1>8, <1>9, <1>10 DEF Besides, B1
  <1>12. Tended(ex', B2, FALSE, jobs')
    <2>1. Tended(ex', B2, c, jobs')
      BY <1>1, <1>11, BesideTended
    <2> QED BY <2>1 DEF c
  <1>13. e \in DOMAIN ex' /\ ex'[e].live
    <2> DEFINE d == Len(ex) + 1
    <2>1. d = Len(ex) + 1
      OBVIOUS
    <2> HIDE DEF d
    <2>2. HasParts(ex, ex', host, s, d, e)
      BY <1>1, <1>2, <1>7, <2>1, EventSubprocessParts
    <2> QED BY <2>2 DEF HasParts
  <1>14. queue' = <<v>> /\ collapsing' = FALSE /\ ~completed' /\ v.ex \in DOMAIN ex' /\ ex'[v.ex].live
    BY <1>1, <1>2, <1>3, <1>4, <1>13
  <1>15. v.mode # "leave"
    BY <1>4
  <1> QED BY <1>6, <1>12, <1>14, <1>15, StartedTilled

-----------------------------------------------------------------------------
\* A command that goes on has only tokens that enter.
LEMMA NoneLeaves ==
  ASSUME OnlyEnters(queue'), NEW S, queue' \in Seq(S)
  PROVE  FirstLeaves'
  <1>1. ASSUME queue' # <<>> PROVE Mode' # "leave"
    <2>1. 1 \in DOMAIN queue' /\ Head(queue') = queue'[1]
      BY <1>1
    <2>2. queue'[1].mode = "enter"
      BY <2>1 DEF OnlyEnters
    <2> QED BY <2>1, <2>2 DEF Mode
  <1> QED BY <1>1 DEF FirstLeaves

LEMMA TilledStep ==
  ASSUME IInv, Next, Tilled, OnlyEnters(queue')
  PROVE  TInv'
  <1>1. IInv'
    BY NextSound
  <1>2. queue' \in Seq(EventIn(ex)')
    BY <1>1 DEF IInv
  <1>3. FirstLeaves'
    BY <1>2, NoneLeaves
  <1> QED BY <1>3 DEF Tilled, TInv

\* There is no tree at first.
LEMMA InitTended ==
  ASSUME Init
  PROVE  TInv
  <1>1. ex = <<>> /\ jobs = {} /\ queue = <<>> /\ ~completed
    BY DEF Init
  <1>2. DOMAIN ex = {}
    BY <1>1
  <1> DEFINE B == Busy(tasks, Pending, joins, queue)
  <1> HIDE DEF B
  <1>3. Tended(ex, B, collapsing, {})
    BY <1>2, AllDead DEF Rooted
  <1>4. FirstLeaves /\ RootEnds
    BY <1>1 DEF FirstLeaves, RootEnds
  <1> QED BY <1>1, <1>3, <1>4 DEF TInv, B

\* One step per action: the tree stays tended.
LEMMA StepTended ==
  ASSUME PlainDeadlines, ForksAtGateways, Resolves, JoinsWhole,
         IInv, PInv, TInv, [Next]_vars, [~Raises]_vars
  PROVE  TInv'
  <1>1. CASE UNCHANGED vars
    BY <1>1 DEF vars, TInv, Pending, Pend, FirstLeaves, RootEnds, Mode, Tok, At
  <1>2. ASSUME ~(UNCHANGED vars), StartProcess PROVE TInv'
    BY <1>2, StartProcessTilled
  <1>3. ASSUME ~(UNCHANGED vars), NEW t \in tasks, CompleteTask(t) PROVE TInv'
    BY <1>3, CompleteTaskTilled
  <1>4. ASSUME ~(UNCHANGED vars), NEW j \in jobs, FireJob(j) PROVE TInv'
    BY <1>4, DropStaleJobTilled, FireTimerCatchTilled, RunAsyncTilled,
       FireInterruptingBoundaryTilled, FireNonInterruptingBoundaryTilled,
       FireInterruptingEventStartTilled, FireNonInterruptingEventStartTilled DEF FireJob
  <1>5. ASSUME ~(UNCHANGED vars), Pump PROVE TInv'
    <2>1. Settled /\ ~Raises /\ Next
      BY <1>5, PumpSettled DEF Next
    <2>2. Tilled
      BY <1>5, <2>1, PumpTilled
    <2> QED BY <2>1, <2>2, TilledStep DEF Settled
  <1>6. ASSUME ~(UNCHANGED vars), Collapse PROVE TInv'
    <2>1. Settled /\ ~Raises /\ Next
      BY <1>6, CollapseSettled DEF Next
    <2>2. Tilled
      BY <1>6, <2>1, CollapseTilled
    <2> QED BY <2>1, <2>2, TilledStep DEF Settled
  <1>7. ASSUME ~(UNCHANGED vars), Return PROVE TInv'
    BY <1>7, ReturnTilled
  <1> QED BY <1>1, <1>2, <1>3, <1>4, <1>5, <1>6, <1>7 DEF Next

\* The behaviours the theorems are about: no command raises, every node is found
\* in its container, and a join takes exactly the branches of its fork.
WellRun == Spec /\ [][~Raises]_vars /\ []Resolves /\ []JoinsWhole

\* The tree is tended for ever: each of its executions is busy or waits for others.
THEOREM TreeTended ==
  ASSUME PlainDeadlines, ForksAtGateways
  PROVE  WellRun => [](IInv /\ PInv /\ TInv)
  <1>1. Init => IInv /\ PInv /\ TInv
    BY InitInv, InitPlaced, InitTended
  <1>2. Resolves /\ JoinsWhole /\ IInv /\ PInv /\ TInv /\ [Next]_vars /\ [~Raises]_vars
          => (IInv /\ PInv /\ TInv)'
    BY NextSound, StutterInv, StepPlaced, StepTended
  <1> QED BY <1>1, <1>2, PTL DEF Spec, WellRun

\* What is busy between commands waits for a task, a job or a join.
LEMMA BusyWaits ==
  ASSUME IInv, PInv, TInv, AtRest
  PROVE  /\ Tended(ex, Busy(tasks, Pending, joins, <<>>), FALSE, jobs)
         /\ \A e : e \in Busy(tasks, Pending, joins, <<>>) <=> Waits(e) # {}
         /\ \A e : Waits(e) # {} => ex[e].role = "TOKEN"
  <1>1. /\ Placed(ex, tasks, Pending, joins, <<>>)
        /\ \A j \in jobs : j.kind \in WaitKinds => j \in Pending
    BY Resting
  <1>2. \A j \in Pending : j \in jobs /\ j.kind \in WaitKinds
    BY DEF Pending, Pend
  <1>3. ASSUME NEW e, e \in Busy(tasks, Pending, joins, <<>>) PROVE Waits(e) # {}
    <2>1. PICK u \in tasks \cup Pending \cup joins : u.ex = e
      BY <1>3 DEF Busy
    <2>2. u \in Waits(e)
      BY <1>2, <2>1 DEF Waits
    <2> QED BY <2>2
  <1>4. ASSUME NEW e, Waits(e) # {}
        PROVE  e \in Busy(tasks, Pending, joins, <<>>) /\ ex[e].role = "TOKEN"
    <2>1. PICK u : u \in Waits(e)
      BY <1>4
    <2>2. u.ex = e /\ (u \in tasks \/ u \in Pending \/ u \in joins)
      BY <1>1, <2>1 DEF Waits
    <2>3. ex[e].role = "TOKEN"
      BY <1>1, <2>2 DEF Placed, Held, TaskStands, JobStands, JoinStands, Stands
    <2> QED BY <2>2, <2>3 DEF Busy
  <1> QED BY <1>3, <1>4, RestTended

\* No token is lost ...
LEMMA TendedWaits ==
  ASSUME IInv, PInv, TInv
  PROVE  EveryTokenWaits
  <1>1. SUFFICES ASSUME AtRest, NEW e \in DOMAIN ex, ex[e].live
                 PROVE  /\ Waits(e) = {} => Children(ex, e) # {}
                        /\ Waits(e) # {} /\ e # Root => Children(ex, e) = {}
    BY DEF EveryTokenWaits
  <1>2. /\ Attended(ex, Busy(tasks, Pending, joins, <<>>), FALSE) /\ Leaves(ex)
        /\ e \in Busy(tasks, Pending, joins, <<>>) <=> Waits(e) # {}
        /\ Waits(e) # {} => ex[e].role = "TOKEN"
    BY <1>1, BusyWaits DEF Tended
  <1>3. Waits(e) = {} => Children(ex, e) # {}
    BY <1>1, <1>2 DEF Attended
  <1>4. Waits(e) # {} /\ e # Root => Children(ex, e) = {}
    BY <1>1, <1>2 DEF Leaves
  <1> QED BY <1>3, <1>4

\* ... a subscription has a scope that runs ...
LEMMA TendedSubscriptions ==
  ASSUME IInv, PInv, TInv
  PROVE  SubscriptionsFollowScopes
  <1>1. SUFFICES ASSUME AtRest, NEW j \in jobs, j.kind = "timer-event-start"
                 PROVE  /\ Live(j.ex)
                        /\ j.scope = Top => j.ex = Root
                        /\ j.scope # Top => ex[j.ex].act = j.scope /\ Children(ex, j.ex) # {}
    BY DEF SubscriptionsFollowScopes
  <1>2. j.ex \in DOMAIN ex
    BY DEF IInv, JobIn
  <1> DEFINE e == j.ex
             B == Busy(tasks, Pending, joins, <<>>)
  <1>3. /\ Attended(ex, B, FALSE) /\ SubsFollow(ex, jobs)
        /\ e \in B <=> Waits(e) # {}
        /\ Waits(e) # {} => ex[e].role = "TOKEN"
    BY <1>1, BusyWaits DEF Tended
  <1> HIDE DEF B
  <1>4. /\ ex[e].live
        /\ j.scope = Top => j.ex = Root
        /\ j.scope # Top => ex[e].role # "TOKEN" /\ ex[e].act = j.scope
    BY <1>1, <1>3 DEF SubsFollow
  <1>5. j.scope # Top => Children(ex, e) # {}
    BY <1>2, <1>3, <1>4 DEF Attended
  <1> QED BY <1>2, <1>4, <1>5 DEF Live

\* ... the root ends last ...
LEMMA TendedEnds ==
  ASSUME TInv
  PROVE  SubtreeEndsFirst
  <1>1. ASSUME completed, NEW e \in DOMAIN ex, ex[e].live PROVE FALSE
    <2>1. ex[Root].live /\ ex # <<>>
      BY <1>1, RootLives DEF TInv, Tended
    <2> QED BY <1>1, <2>1 DEF TInv, RootEnds
  <1> QED BY <1>1 DEF SubtreeEndsFirst

\* ... and then nothing is left to do.
LEMMA TendedInert ==
  ASSUME IInv, PInv, TInv
  PROVE  CompletedIsInert
  <1>1. ASSUME completed
        PROVE  (\A e \in DOMAIN ex : ~ex[e].live) /\ tasks = {} /\ jobs = {} /\ joins = {}
    <2>1. \A e \in DOMAIN ex : ~ex[e].live
      BY <1>1, TendedEnds DEF SubtreeEndsFirst
    <2>2. \A u \in tasks \cup joins : u.ex \in DOMAIN ex /\ ex[u.ex].live
      BY DEF PInv, Placed, Held, TaskStands, JoinStands, Stands
    <2>3. jobs = {}
      BY <1>1 DEF IInv
    <2> QED BY <2>1, <2>2, <2>3
  <1>2. ASSUME ex # <<>>, \A e \in DOMAIN ex : ~ex[e].live PROVE completed
    <2>1. Root \in DOMAIN ex
      BY <1>2 DEF IInv, Tree, Linked
    <2> QED BY <1>2, <2>1 DEF TInv, RootEnds
  <1> QED BY <1>1, <1>2 DEF CompletedIsInert

\* No token is lost: between commands every live execution waits for a task, a job
\* or a join, or for a subtree that lives; and only the root waits while lines run
\* below it.
THEOREM NoTokenLost ==
  ASSUME PlainDeadlines, ForksAtGateways
  PROVE  WellRun => []EveryTokenWaits
  <1>1. IInv /\ PInv /\ TInv => EveryTokenWaits
    BY TendedWaits
  <1> QED BY <1>1, TreeTended, PTL

\* Between commands the timer of an event subprocess belongs to a scope that still
\* runs: the root, or a scope that is parked on that subProcess and has children.
THEOREM SubscriptionsHaveScopes ==
  ASSUME PlainDeadlines, ForksAtGateways
  PROVE  WellRun => []SubscriptionsFollowScopes
  <1>1. IInv /\ PInv /\ TInv => SubscriptionsFollowScopes
    BY TendedSubscriptions
  <1> QED BY <1>1, TreeTended, PTL

\* The root ends last: an instance completes only when its whole subtree is over.
\* Where a join takes fewer than all the branches of its fork this is false.
THEOREM RootEndsLast ==
  ASSUME PlainDeadlines, ForksAtGateways
  PROVE  WellRun => []SubtreeEndsFirst
  <1>1. TInv => SubtreeEndsFirst
    BY TendedEnds
  <1> QED BY <1>1, TreeTended, PTL

\* A completed instance is inert, with no execution, task, job or join left; and an
\* instance in which nothing runs is completed.
THEOREM CompletedStaysInert ==
  ASSUME PlainDeadlines, ForksAtGateways
  PROVE  WellRun => []CompletedIsInert
  <1>1. IInv /\ PInv /\ TInv => CompletedIsInert
    BY TendedInert
  <1> QED BY <1>1, TreeTended, PTL

=============================================================================
