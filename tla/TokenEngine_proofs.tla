------------------------- MODULE TokenEngine_proofs -------------------------
(***************************************************************************)
(* For every process definition that satisfies ProcAssumption, and any     *)
(* commands, the engine's state is well typed, and what ended stays ended. *)
(*                                                                         *)
(* TypeOK is not inductive: a handler reads the execution that an event, a *)
(* task or a job names, so these must name executions that exist.  IInv    *)
(* says so, and that a timer of an event subprocess is for a start that is *)
(* declared inside a node, that a completed instance has no jobs, and that *)
(* a command runs only on an instance that has a root.                     *)
(*                                                                         *)
(* Each handler builds an execution tree, then raises, goes on, ends its   *)
(* token or leaves its node.  So the proof has three layers: what each     *)
(* operator makes of a tree (Grows), what each way to end makes of what    *)
(* was Prepared (Sound), and one lemma for each action.                    *)
(***************************************************************************)
EXTENDS TokenEngine, SequenceTheorems, FiniteSetTheorems, TLAPS

USE DEF Roles

\* An execution, task, job or event of a tree x refers to executions of x only.
ExecutionIn(x) == [path: Seq(DOMAIN x), role: Roles, live: BOOLEAN,
                   act: Nodes \cup {None}, open: Nodes \cup {None}]
TaskIn(x)  == [ex: DOMAIN x, node: Nodes]
JobIn(x)   == {j \in Job : /\ j.ex \in DOMAIN x
                           /\ j.kind = "timer-boundary" => Kind(j.node) = "boundary"
                           /\ j.kind = "timer-event-start" => Home(j.node) \in Nodes}
EventIn(x) == [ex: DOMAIN x, node: Nodes, mode: {"enter", "resume", "leave"}]

\* A path goes on, after each execution on it, as the path of that execution does.
Chain(x, p) ==
  \A k \in DOMAIN p : p[k] \in DOMAIN x /\ x[p[k]].path = SubSeq(p, k + 1, Len(p))

\* Every execution has a path of its own up to the root, which was there first.
Linked(x) ==
  /\ x # <<>> => Root \in DOMAIN x /\ x[Root].path = <<>>
  /\ \A i \in DOMAIN x : Chain(x, x[i].path)

Tree(x) == x \in Seq(ExecutionIn(x)) /\ Linked(x)

\* y is what x may become: nothing is forgotten, moved or revived.
Grows(x, y) ==
  /\ Tree(y)
  /\ DOMAIN x \subseteq DOMAIN y
  /\ \A i \in DOMAIN x : y[i].path = x[i].path /\ (y[i].live => x[i].live)

IInv ==
  /\ Tree(ex)
  /\ tasks \subseteq TaskIn(ex)
  /\ jobs \subseteq JobIn(ex)
  /\ joins \subseteq Arrival /\ IsFiniteSet(joins)
  /\ queue \in Seq(EventIn(ex))
  /\ collapsing \in BOOLEAN
  /\ cmd \in Command
  /\ completed \in BOOLEAN
  /\ cmd # NoCmd => Root \in DOMAIN ex
  /\ completed => jobs = {}

-----------------------------------------------------------------------------
\* A function on an initial segment of the naturals is a sequence.
LEMMA FunctionIsSeq ==
  ASSUME NEW S, NEW n \in Nat, NEW f \in [1..n -> S]
  PROVE  f \in Seq(S) /\ Len(f) = n
  OBVIOUS

\* The identifiers of a tree are the positive numbers up to its length.
LEMMA TreeDomain ==
  ASSUME NEW x, Tree(x)
  PROVE  /\ Len(x) \in Nat
         /\ DOMAIN x = 1..Len(x)
         /\ DOMAIN x \subseteq Nat \ {0}
         /\ x \in [DOMAIN x -> ExecutionIn(x)]
  BY LenProperties DEF Tree

\* What a tree refers to stays when the tree grows.
LEMMA InMonotone ==
  ASSUME NEW x, NEW y, DOMAIN x \subseteq DOMAIN y
  PROVE  /\ ExecutionIn(x) \subseteq ExecutionIn(y)
         /\ TaskIn(x) \subseteq TaskIn(y)
         /\ JobIn(x) \subseteq JobIn(y)
         /\ EventIn(x) \subseteq EventIn(y)
         /\ \A q \in Seq(EventIn(x)) : q \in Seq(EventIn(y))
  <1>1. Seq(DOMAIN x) \subseteq Seq(DOMAIN y)
    BY SeqMonotonic
  <1>2. ExecutionIn(x) \subseteq ExecutionIn(y)
    BY <1>1 DEF ExecutionIn
  <1>3. TaskIn(x) \subseteq TaskIn(y)
    BY DEF TaskIn
  <1>4. JobIn(x) \subseteq JobIn(y)
    BY DEF JobIn
  <1>5. EventIn(x) \subseteq EventIn(y)
    BY DEF EventIn
  <1>6. \A q \in Seq(EventIn(x)) : q \in Seq(EventIn(y))
    BY <1>5, SeqMonotonic
  <1> QED BY <1>2, <1>3, <1>4, <1>5, <1>6

\* A tree that stays the same grows ...
LEMMA GrowsReflexive ==
  ASSUME NEW x, Tree(x)
  PROVE  Grows(x, x)
  BY DEF Grows

\* ... and growing twice is growing.
LEMMA GrowsTransitive ==
  ASSUME NEW x, NEW y, NEW z, Grows(x, y), Grows(y, z)
  PROVE  Grows(x, z)
  BY DEF Grows

\* A path stays one when nothing on it moves.
LEMMA ChainKept ==
  ASSUME NEW x, NEW y, DOMAIN x \subseteq DOMAIN y, \A i \in DOMAIN x : y[i].path = x[i].path,
         NEW p, Chain(x, p)
  PROVE  Chain(y, p)
  BY DEF Chain

\* Everyone has a place in what the tree was put together with.
LEMMA LinkedKept ==
  ASSUME NEW x, Tree(x), x # <<>>,
         NEW y, DOMAIN x \subseteq DOMAIN y, \A i \in DOMAIN x : y[i].path = x[i].path,
         \A i \in DOMAIN y \ DOMAIN x : Chain(y, y[i].path)
  PROVE  Linked(y)
  <1>1. ASSUME NEW i \in DOMAIN x PROVE Chain(y, y[i].path)
    <2>1. Chain(x, x[i].path)
      BY DEF Tree, Linked
    <2>2. Chain(y, x[i].path)
      BY <2>1, ChainKept
    <2> QED BY <2>2
  <1>2. Root \in DOMAIN y /\ y[Root].path = <<>>
    BY DEF Tree, Linked
  <1> QED BY <1>1, <1>2 DEF Linked

\* Changing executions in place, paths aside.
LEMMA SameShape ==
  ASSUME NEW x, Tree(x), NEW y \in [DOMAIN x -> ExecutionIn(x)],
         \A i \in DOMAIN x : y[i].path = x[i].path
  PROVE  Tree(y) /\ Len(y) = Len(x) /\ DOMAIN y = DOMAIN x
  <1>1. y \in [1..Len(x) -> ExecutionIn(x)] /\ Len(x) \in Nat
    BY TreeDomain
  <1>2. y \in Seq(ExecutionIn(x)) /\ Len(y) = Len(x)
    BY <1>1, FunctionIsSeq
  <1>3. DOMAIN y = DOMAIN x
    OBVIOUS
  <1>4. ExecutionIn(x) = ExecutionIn(y)
    BY <1>3 DEF ExecutionIn
  <1>5. ASSUME x = <<>> PROVE Linked(y)
    <2>1. Len(x) = 0
      BY <1>5
    <2>2. DOMAIN y = {} /\ y = <<>>
      BY <1>1, <2>1
    <2> QED BY <2>2 DEF Linked
  <1>6. ASSUME x # <<>> PROVE Linked(y)
    BY <1>3, <1>6, LinkedKept
  <1> QED BY <1>2, <1>3, <1>4, <1>5, <1>6 DEF Tree

\* ... and the dead.
LEMMA SameDomain ==
  ASSUME NEW x, Tree(x), NEW y \in [DOMAIN x -> ExecutionIn(x)],
         \A i \in DOMAIN x : y[i].path = x[i].path /\ (y[i].live => x[i].live)
  PROVE  Grows(x, y) /\ Len(y) = Len(x)
  BY SameShape DEF Grows

\* What an update makes of execution r of the tree x: it keeps its place.
KeepsPlace(x, r, u) == u \in ExecutionIn(x) /\ u.path = r.path /\ (u.live => r.live)

\* The assignments to one execution keep its place.
LEMMA Updates ==
  ASSUME NEW x, NEW r \in ExecutionIn(x)
  PROVE  /\ \A n \in Nodes \cup {None} : KeepsPlace(x, r, [r EXCEPT !.act = n])
         /\ \A n \in Nodes \cup {None} : KeepsPlace(x, r, [r EXCEPT !.open = n])
         /\ \A k \in Roles : KeepsPlace(x, r, [r EXCEPT !.role = k])
         /\ KeepsPlace(x, r, [r EXCEPT !.live = FALSE])
         /\ KeepsPlace(x, r, [r EXCEPT !.live = FALSE, !.open = None])
         /\ KeepsPlace(x, r, r)
  BY DEF ExecutionIn, KeepsPlace

\* A tree whose executions keep their place grows.
LEMMA UpdatedTree ==
  ASSUME NEW x, Tree(x), NEW y, DOMAIN y = DOMAIN x, y = [i \in DOMAIN y |-> y[i]],
         \A i \in DOMAIN x : KeepsPlace(x, x[i], y[i])
  PROVE  Grows(x, y) /\ Len(y) = Len(x)
  <1>1. y \in [DOMAIN x -> ExecutionIn(x)]
    BY DEF KeepsPlace
  <1> QED BY <1>1, SameDomain DEF KeepsPlace

\* Entering a node: the tree grows.
LEMMA SetAct ==
  ASSUME NEW x, Tree(x), NEW e, NEW n \in Nodes \cup {None}
  PROVE  Grows(x, [x EXCEPT ![e].act = n]) /\ Len([x EXCEPT ![e].act = n]) = Len(x)
  <1> DEFINE y == [x EXCEPT ![e].act = n]
  <1>1. \A i \in DOMAIN x : y[i] = IF i = e THEN [x[i] EXCEPT !.act = n] ELSE x[i]
    OBVIOUS
  <1>2. \A i \in DOMAIN x : KeepsPlace(x, x[i], y[i])
    BY <1>1, Updates, TreeDomain
  <1>3. DOMAIN y = DOMAIN x /\ y = [i \in DOMAIN y |-> y[i]]
    BY TreeDomain
  <1> HIDE DEF y
  <1>4. Grows(x, y) /\ Len(y) = Len(x)
    BY <1>2, <1>3, UpdatedTree
  <1> QED BY <1>4 DEF y

\* Opening or closing an activity: the tree grows.
LEMMA SetOpen ==
  ASSUME NEW x, Tree(x), NEW e, NEW n \in Nodes \cup {None}
  PROVE  Grows(x, [x EXCEPT ![e].open = n]) /\ Len([x EXCEPT ![e].open = n]) = Len(x)
  <1> DEFINE y == [x EXCEPT ![e].open = n]
  <1>1. \A i \in DOMAIN x : y[i] = IF i = e THEN [x[i] EXCEPT !.open = n] ELSE x[i]
    OBVIOUS
  <1>2. \A i \in DOMAIN x : KeepsPlace(x, x[i], y[i])
    BY <1>1, Updates, TreeDomain
  <1>3. DOMAIN y = DOMAIN x /\ y = [i \in DOMAIN y |-> y[i]]
    BY TreeDomain
  <1> HIDE DEF y
  <1>4. Grows(x, y) /\ Len(y) = Len(x)
    BY <1>2, <1>3, UpdatedTree
  <1> QED BY <1>4 DEF y

\* A change of role: the tree grows.
LEMMA SetRole ==
  ASSUME NEW x, Tree(x), NEW e, NEW k \in Roles
  PROVE  Grows(x, [x EXCEPT ![e].role = k]) /\ Len([x EXCEPT ![e].role = k]) = Len(x)
  <1> DEFINE y == [x EXCEPT ![e].role = k]
  <1>1. \A i \in DOMAIN x : y[i] = IF i = e THEN [x[i] EXCEPT !.role = k] ELSE x[i]
    OBVIOUS
  <1>2. \A i \in DOMAIN x : KeepsPlace(x, x[i], y[i])
    BY <1>1, Updates, TreeDomain
  <1>3. DOMAIN y = DOMAIN x /\ y = [i \in DOMAIN y |-> y[i]]
    BY TreeDomain
  <1> HIDE DEF y
  <1>4. Grows(x, y) /\ Len(y) = Len(x)
    BY <1>2, <1>3, UpdatedTree
  <1> QED BY <1>4 DEF y

\* Ending executions: the tree grows.
LEMMA EndedTree ==
  ASSUME NEW x, Tree(x), NEW D
  PROVE  Grows(x, Ended(x, D)) /\ Len(Ended(x, D)) = Len(x)
  <1>1. \A i \in DOMAIN x :
          Ended(x, D)[i] = IF i \in D THEN [x[i] EXCEPT !.live = FALSE] ELSE x[i]
    BY DEF Ended
  <1>2. ASSUME NEW i \in DOMAIN x PROVE KeepsPlace(x, x[i], Ended(x, D)[i])
    <2>1. x[i] \in ExecutionIn(x)
      BY TreeDomain
    <2>2. CASE i \in D
      BY <1>1, <2>1, <2>2 DEF KeepsPlace, ExecutionIn
    <2>3. CASE i \notin D
      BY <1>1, <2>1, <2>3, Updates
    <2> QED BY <2>2, <2>3
  <1>3. DOMAIN Ended(x, D) = DOMAIN x /\ Ended(x, D) = [i \in DOMAIN Ended(x, D) |-> Ended(x, D)[i]]
    BY DEF Ended
  <1> QED BY <1>2, <1>3, UpdatedTree

\* Killing executions: the tree grows.
LEMMA KilledTree ==
  ASSUME NEW x, Tree(x), NEW D
  PROVE  Grows(x, Killed(x, D)) /\ Len(Killed(x, D)) = Len(x)
  <1>1. \A i \in DOMAIN x :
          Killed(x, D)[i] = IF i \in D THEN [x[i] EXCEPT !.live = FALSE, !.open = None] ELSE x[i]
    BY DEF Killed
  <1>2. ASSUME NEW i \in DOMAIN x PROVE KeepsPlace(x, x[i], Killed(x, D)[i])
    <2>1. x[i] \in ExecutionIn(x)
      BY TreeDomain
    <2>2. CASE i \in D
      <3>1. KeepsPlace(x, x[i], [x[i] EXCEPT !.live = FALSE, !.open = None])
        BY <2>1, Updates
      <3>2. Killed(x, D)[i] = [x[i] EXCEPT !.live = FALSE, !.open = None]
        BY <1>1, <2>2
      <3> QED BY <3>1, <3>2
    <2>3. CASE i \notin D
      BY <1>1, <2>1, <2>3, Updates
    <2> QED BY <2>2, <2>3
  <1>3. DOMAIN Killed(x, D) = DOMAIN x /\ Killed(x, D) = [i \in DOMAIN Killed(x, D) |-> Killed(x, D)[i]]
    BY DEF Killed
  <1> QED BY <1>2, <1>3, UpdatedTree

\* A new execution below executions of the tree.
LEMMA NewExecutionIn ==
  ASSUME NEW x, NEW path \in Seq(DOMAIN x), NEW role \in Roles,
         NEW act \in Nodes \cup {None}
  PROVE  NewExecution(path, role, act) \in ExecutionIn(x)
  BY DEF NewExecution, ExecutionIn

\* A path can be begun with an execution whose path it is.
LEMMA LongerChain ==
  ASSUME NEW x, NEW e \in DOMAIN x, NEW p \in Seq(DOMAIN x), x[e].path = p, Chain(x, p)
  PROVE  Chain(x, <<e>> \o p)
  <1> DEFINE q == <<e>> \o p
  <1>1. <<e>> \in Seq(DOMAIN x)
    OBVIOUS
  <1>2. /\ Len(p) \in Nat /\ DOMAIN p = 1..Len(p)
        /\ q \in Seq(DOMAIN x) /\ Len(q) = Len(p) + 1 /\ DOMAIN q = 1..(Len(p) + 1)
        /\ q[1] = e /\ \A k \in 2..(Len(p) + 1) : q[k] = p[k - 1]
    BY <1>1, ConcatProperties, LenProperties
  <1>3. ASSUME NEW k \in DOMAIN q PROVE q[k] \in DOMAIN x /\ x[q[k]].path = SubSeq(q, k + 1, Len(q))
    <2>1. CASE k = 1
      <3>1. SubSeq(q, 2, Len(q)) = p
        BY <1>2
      <3> QED BY <2>1, <1>2, <3>1
    <2>2. CASE k # 1
      <3>1. k - 1 \in DOMAIN p /\ q[k] = p[k - 1]
        BY <1>2, <2>2
      <3>2. q[k] \in DOMAIN x /\ x[q[k]].path = SubSeq(p, k, Len(p))
        BY <1>2, <3>1 DEF Chain
      <3>3. SubSeq(p, k, Len(p)) = SubSeq(q, k + 1, Len(q))
        BY <1>2, <3>1
      <3> QED BY <3>2, <3>3
    <2> QED BY <2>1, <2>2
  <1> QED BY <1>3 DEF Chain

\* The path of a child of execution e.
LEMMA ChildPath ==
  ASSUME NEW x, Tree(x), NEW e \in DOMAIN x
  PROVE  /\ x[e].path \in Seq(DOMAIN x)
         /\ <<e>> \o x[e].path \in Seq(DOMAIN x)
         /\ Chain(x, x[e].path)
         /\ Chain(x, <<e>> \o x[e].path)
  <1>1. x[e].path \in Seq(DOMAIN x)
    BY TreeDomain DEF ExecutionIn
  <1>2. <<e>> \in Seq(DOMAIN x)
    OBVIOUS
  <1>3. Chain(x, x[e].path)
    BY DEF Tree, Linked
  <1>4. Chain(x, <<e>> \o x[e].path)
    BY <1>1, <1>3, LongerChain
  <1> QED BY <1>1, <1>2, <1>3, <1>4, ConcatProperties

\* The path of a line beside execution e.
PathBeside(x, e) == IF e = Root THEN <<Root>> ELSE x[e].path

LEMMA BesideIn ==
  ASSUME NEW x, Tree(x), NEW e \in DOMAIN x
  PROVE  PathBeside(x, e) \in Seq(DOMAIN x) /\ Chain(x, PathBeside(x, e)) /\ x # <<>>
  <1>1. x # <<>>
    OBVIOUS
  <1>2. CASE e = Root
    <2>1. x[Root].path = <<>>
      BY <1>1 DEF Tree, Linked
    <2>2. SubSeq(<<Root>>, 2, 1) = <<>>
      OBVIOUS
    <2>3. Len(<<Root>>) = 1 /\ DOMAIN <<Root>> = {1} /\ <<Root>>[1] = Root
      OBVIOUS
    <2> DEFINE p == <<Root>>
    <2>4. DOMAIN p = {1} /\ p[1] = Root /\ SubSeq(p, 1 + 1, Len(p)) = <<>>
      BY <2>2, <2>3
    <2> HIDE DEF p
    <2>6. \A k \in DOMAIN p : p[k] \in DOMAIN x /\ x[p[k]].path = SubSeq(p, k + 1, Len(p))
      BY <1>2, <2>1, <2>4
    <2>7. Chain(x, p)
      BY <2>6 DEF Chain
    <2>5. <<Root>> \in Seq(DOMAIN x)
      BY <1>2
    <2> QED BY <1>1, <1>2, <2>5, <2>7 DEF PathBeside, p
  <1>3. CASE e # Root
    BY <1>1, <1>3, ChildPath DEF PathBeside
  <1> QED BY <1>2, <1>3

\* What a concatenation to a tree contains.
LEMMA ConcatDomain ==
  ASSUME NEW x, Tree(x), NEW S, NEW s \in Seq(S)
  PROVE  /\ Len(x \o s) = Len(x) + Len(s)
         /\ DOMAIN (x \o s) = 1..(Len(x) + Len(s))
         /\ DOMAIN x \subseteq DOMAIN (x \o s)
         /\ \A i \in DOMAIN x : (x \o s)[i] = x[i]
         /\ \A i \in 1..Len(s) : (x \o s)[Len(x) + i] = s[i]
  <1> DEFINE T == S \cup ExecutionIn(x)
  <1>1. x \in Seq(T) /\ s \in Seq(T)
    BY SeqMonotonic DEF Tree
  <1>2. Len(x) \in Nat /\ DOMAIN x = 1..Len(x) /\ Len(s) \in Nat
    BY TreeDomain, LenProperties
  <1> HIDE DEF T
  <1>3. /\ x \o s \in Seq(T)
        /\ Len(x \o s) = Len(x) + Len(s)
        /\ \A i \in 1..(Len(x) + Len(s)) : (x \o s)[i] = IF i <= Len(x) THEN x[i] ELSE s[i - Len(x)]
    BY <1>1, ConcatProperties
  <1>4. DOMAIN (x \o s) = 1..(Len(x) + Len(s))
    BY <1>3, LenProperties
  <1> QED BY <1>2, <1>3, <1>4

\* Adding executions that refer to old or new ones.
LEMMA ConcatTree ==
  ASSUME NEW x, Tree(x), x # <<>>, NEW s, s \in Seq(ExecutionIn(x \o s)),
         \A i \in 1..Len(s) : Chain(x \o s, s[i].path)
  PROVE  Grows(x, x \o s)
  <1>1. DOMAIN x \subseteq DOMAIN (x \o s) /\ \A i \in DOMAIN x : (x \o s)[i] = x[i]
    BY ConcatDomain
  <1>2. x \in Seq(ExecutionIn(x \o s))
    BY <1>1, InMonotone, SeqMonotonic DEF Tree
  <1>3. x \o s \in Seq(ExecutionIn(x \o s))
    BY <1>2, ConcatProperties
  <1>4. ASSUME NEW i \in DOMAIN (x \o s) \ DOMAIN x PROVE Chain(x \o s, (x \o s)[i].path)
    <2>1. /\ DOMAIN (x \o s) = 1..(Len(x) + Len(s)) /\ DOMAIN x = 1..Len(x)
          /\ Len(x) \in Nat /\ Len(s) \in Nat
      BY ConcatDomain, TreeDomain, LenProperties
    <2>2. i - Len(x) \in 1..Len(s) /\ i = Len(x) + (i - Len(x))
      BY <1>4, <2>1
    <2>3. (x \o s)[Len(x) + (i - Len(x))] = s[i - Len(x)]
      BY <2>2, ConcatDomain
    <2> QED BY <2>2, <2>3
  <1>5. Linked(x \o s)
    BY <1>1, <1>4, LinkedKept
  <1> QED BY <1>1, <1>3, <1>5 DEF Grows, Tree

\* Adding one execution.
LEMMA AppendTree ==
  ASSUME NEW x, Tree(x), x # <<>>, NEW r \in ExecutionIn(x), Chain(x, r.path)
  PROVE  /\ Grows(x, Append(x, r))
         /\ Len(Append(x, r)) = Len(x) + 1
         /\ Len(x) + 1 \in DOMAIN Append(x, r)
  <1>1. /\ Append(x, r) \in Seq(ExecutionIn(x))
        /\ Len(Append(x, r)) = Len(x) + 1
        /\ \A i \in 1..Len(x) : Append(x, r)[i] = x[i]
    BY AppendProperties DEF Tree
  <1>2. DOMAIN x = 1..Len(x) /\ Len(x) \in Nat
    BY TreeDomain
  <1>3. DOMAIN Append(x, r) = 1..(Len(x) + 1)
    BY <1>1, LenProperties
  <1>4. DOMAIN x \subseteq DOMAIN Append(x, r)
    BY <1>2, <1>3
  <1>5. ExecutionIn(x) \subseteq ExecutionIn(Append(x, r))
    BY <1>4, InMonotone
  <1>6. Append(x, r) \in Seq(ExecutionIn(Append(x, r)))
    BY <1>1, <1>5, SeqMonotonic
  <1>7. Append(x, r)[Len(x) + 1] = r
    BY <1>2, AppendProperties DEF Tree
  <1>8. \A i \in DOMAIN x : Append(x, r)[i].path = x[i].path
    BY <1>1, <1>2
  <1>9. Chain(Append(x, r), r.path)
    BY <1>4, <1>8, ChainKept
  <1>10. \A i \in DOMAIN Append(x, r) \ DOMAIN x : i = Len(x) + 1
    BY <1>2, <1>3
  <1>11. Linked(Append(x, r))
    BY <1>4, <1>7, <1>8, <1>9, <1>10, LinkedKept
  <1> QED BY <1>1, <1>2, <1>3, <1>4, <1>6, <1>11 DEF Grows, Tree

\* A fork adds as many executions as there are branches.
LEMMA ForkTree ==
  ASSUME NEW x, Tree(x), NEW e \in DOMAIN x, NEW k \in Nat
  PROVE  /\ Grows(x, Fork(x, e, k))
         /\ \A i \in 1..k : Len(x) + i \in DOMAIN Fork(x, e, k)
  <1> DEFINE y == [x EXCEPT ![e].role = "SCOPE"]
             r == NewExecution(<<e>> \o x[e].path, "TOKEN", None)
             s == [i \in 1..k |-> r]
  <1>1. Grows(x, y) /\ Len(y) = Len(x)
    BY SetRole
  <1>2. r \in ExecutionIn(x)
    BY ChildPath, NewExecutionIn
  <1>3. Fork(x, e, k) = y \o s
    BY DEF Fork
  <1> HIDE DEF r
  <1>4. s \in Seq(ExecutionIn(x)) /\ Len(s) = k
    BY <1>2, FunctionIsSeq
  <1> HIDE DEF y, s
  <1>5. Tree(y) /\ DOMAIN x = DOMAIN y
    BY <1>1, TreeDomain DEF Grows
  <1>6. DOMAIN (y \o s) = 1..(Len(x) + k) /\ DOMAIN x \subseteq DOMAIN (y \o s)
    BY <1>1, <1>4, <1>5, ConcatDomain
  <1>7. s \in Seq(ExecutionIn(y \o s))
    BY <1>4, <1>6, InMonotone, SeqMonotonic
  <1>11. y # <<>>
    BY <1>5
  <1>12. ASSUME NEW i \in 1..k PROVE Chain(y \o s, s[i].path)
    <2>1. s[i].path = <<e>> \o x[e].path
      BY DEF s, r, NewExecution
    <2>2. Chain(x, <<e>> \o x[e].path)
      BY ChildPath
    <2>3. \A j \in DOMAIN x : (y \o s)[j].path = x[j].path
      <3>1. \A j \in DOMAIN y : (y \o s)[j] = y[j]
        BY <1>4, <1>5, ConcatDomain
      <3> QED BY <1>1, <1>5, <3>1 DEF Grows
    <2> DEFINE p == <<e>> \o x[e].path
               z == y \o s
    <2> HIDE DEF r, p, z
    <2>4. Chain(x, p) /\ DOMAIN x \subseteq DOMAIN z /\ \A j \in DOMAIN x : z[j].path = x[j].path
      BY <1>6, <2>2, <2>3 DEF p, z
    <2>5. Chain(z, p)
      BY <2>4, ChainKept
    <2> QED BY <2>1, <2>5 DEF p, z
  <1>8. Grows(y, y \o s)
    BY <1>4, <1>5, <1>7, <1>11, <1>12, ConcatTree
  <1>9. Len(x) \in Nat
    BY TreeDomain
  <1> QED BY <1>1, <1>3, <1>6, <1>8, <1>9, GrowsTransitive

\* An event subprocess adds its scope and its token.
LEMMA EventSubprocessTree ==
  ASSUME NEW x, Tree(x), NEW host \in DOMAIN x, NEW s, Home(s) \in Nodes
  PROVE  /\ Grows(x, WithEventSubprocess(x, host, s))
         /\ Len(x) + 1 \in DOMAIN WithEventSubprocess(x, host, s)
         /\ Len(x) + 2 \in DOMAIN WithEventSubprocess(x, host, s)
  <1> DEFINE path == <<host>> \o x[host].path
             scope == NewExecution(path, "SCOPE", Home(s))
             a == [scope EXCEPT !.open = Home(s)]
             b == NewExecution(<<Len(x) + 1>> \o path, "TOKEN", None)
             y == x \o <<a, b>>
  <1>1. WithEventSubprocess(x, host, s) = y
    BY DEF WithEventSubprocess, NewExecution
  <1>2. path \in Seq(DOMAIN x)
    BY ChildPath
  <1>3. Len(x) \in Nat /\ DOMAIN x = 1..Len(x)
    BY TreeDomain
  <1> HIDE DEF path
  <1>4. scope \in ExecutionIn(x)
    BY <1>2, NewExecutionIn
  <1> HIDE DEF scope
  <1>5. a \in ExecutionIn(x)
    BY <1>4, Updates DEF KeepsPlace
  <1> HIDE DEF a, b
  <1>6. DOMAIN y = 1..(Len(x) + 2) /\ DOMAIN x \subseteq DOMAIN y
    <2>1. <<a, b>> \in Seq({a, b}) /\ Len(<<a, b>>) = 2
      OBVIOUS
    <2> QED BY <1>3, <2>1, ConcatDomain
  <1> HIDE DEF y
  <1>7. path \in Seq(DOMAIN y) /\ <<Len(x) + 1>> \in Seq(DOMAIN y)
    BY <1>2, <1>3, <1>6, SeqMonotonic
  <1>8. <<Len(x) + 1>> \o path \in Seq(DOMAIN y)
    BY <1>7, ConcatProperties
  <1>9. b \in ExecutionIn(y)
    BY <1>8, NewExecutionIn DEF b
  <1>10. a \in ExecutionIn(y)
    BY <1>5, <1>6, InMonotone
  <1>11. <<a, b>> \in Seq(ExecutionIn(y))
    BY <1>9, <1>10
  <1>13. /\ \A i \in DOMAIN x : y[i] = x[i]
         /\ y[Len(x) + 1] = a
    <2>1. <<a, b>> \in Seq({a, b}) /\ Len(<<a, b>>) = 2 /\ <<a, b>>[1] = a
      OBVIOUS
    <2> QED BY <2>1, ConcatDomain DEF y
  <1>14. Chain(x, path) /\ a.path = path /\ b.path = <<Len(x) + 1>> \o path
    BY ChildPath DEF path, a, b, scope, NewExecution
  <1>15. Chain(y, path)
    BY <1>6, <1>13, <1>14, ChainKept
  <1>16. Chain(y, <<Len(x) + 1>> \o path)
    <2> DEFINE c == Len(x) + 1
    <2>1. c \in DOMAIN y /\ y[c].path = path
      BY <1>3, <1>6, <1>13, <1>14
    <2> HIDE DEF c
    <2>2. Chain(y, <<c>> \o path)
      BY <1>7, <1>15, <2>1, LongerChain
    <2> QED BY <2>2 DEF c
  <1>17. x # <<>>
    BY <1>3
  <1>18. \A i \in 1..2 : Chain(y, <<a, b>>[i].path)
    <2>1. <<a, b>>[1].path = path /\ <<a, b>>[2].path = <<Len(x) + 1>> \o path
      BY <1>14
    <2>2. \A i \in 1..2 : i = 1 \/ i = 2
      OBVIOUS
    <2> QED BY <1>15, <1>16, <2>1, <2>2
  <1>19. Len(<<a, b>>) = 2
    OBVIOUS
  <1>12. Grows(x, y)
    BY <1>11, <1>17, <1>18, <1>19, ConcatTree DEF y
  <1> QED BY <1>1, <1>3, <1>6, <1>12

\* Taking a scope over adds and revives nothing.
LEMMA TakenOverTree ==
  ASSUME NEW x, Tree(x), NEW host, NEW scope
  PROVE  Grows(x, TakenOver(x, host, scope)) /\ Len(TakenOver(x, host, scope)) = Len(x)
  <1> DEFINE k == Killed(x, Below(x, host))
             k1 == [k EXCEPT ![host].open = None]
             k2 == [k1 EXCEPT ![host].act = None]
             k3 == [k2 EXCEPT ![host].role = "TOKEN"]
  <1>1. TakenOver(x, host, scope) = IF scope = Top THEN k3 ELSE k
    BY DEF TakenOver
  <1>2. Grows(x, k) /\ Len(k) = Len(x)
    BY KilledTree
  <1> HIDE DEF k
  <1>3. Grows(k, k1) /\ Len(k1) = Len(k)
    <2>1. Tree(k)
      BY <1>2 DEF Grows
    <2> QED BY <2>1, SetOpen
  <1> HIDE DEF k1
  <1>4. Grows(k1, k2) /\ Len(k2) = Len(k1)
    <2>1. Tree(k1)
      BY <1>3 DEF Grows
    <2> QED BY <2>1, SetAct
  <1> HIDE DEF k2
  <1>5. Grows(k2, k3) /\ Len(k3) = Len(k2)
    <2>1. Tree(k2)
      BY <1>4 DEF Grows
    <2> QED BY <2>1, SetRole
  <1> HIDE DEF k3
  <1>6. Grows(x, k3)
    BY <1>2, <1>3, <1>4, <1>5, GrowsTransitive
  <1> QED BY <1>1, <1>2, <1>3, <1>4, <1>5, <1>6

\* Who carries on after a join is an execution of the tree.
LEMMA JoinActorsIn ==
  ASSUME NEW x, Tree(x), NEW e \in DOMAIN x
  PROVE  JoinActors(x, e) \subseteq DOMAIN x
  <1>1. x[e].path \in Seq(DOMAIN x)
    BY ChildPath
  <1>2. \A k \in DOMAIN x[e].path : x[e].path[k] \in DOMAIN x
    BY <1>1, LenProperties, ElementOfSeq
  <1> QED BY <1>2 DEF JoinActors

-----------------------------------------------------------------------------
\* A job for an execution of the tree.
LEMMA NewJobIn ==
  ASSUME NEW x, Tree(x), NEW e \in DOMAIN x, NEW n \in Nodes, NEW kind \in JobKinds,
         NEW c \in Nodes \cup {Top, None},
         kind = "timer-boundary" => Kind(n) = "boundary",
         kind = "timer-event-start" => Home(n) \in Nodes
  PROVE  NewJob(kind, e, n, c) \in JobIn(x)
  BY TreeDomain DEF NewJob, JobIn, Job

\* The job a token of the tree waits for.
LEMMA NewWaitIn ==
  ASSUME NEW x, Tree(x), NEW e \in DOMAIN x, NEW n \in Nodes, NEW kind \in WaitKinds
  PROVE  /\ NewWait(kind, e, n) \in JobIn(x)
         /\ NewWait(kind, e, n) # cmd
         /\ NewWait(kind, e, n).kind = kind
         /\ NewWait(kind, e, n).ex = e
         /\ NewWait(kind, e, n).node = n
  <1> DEFINE j == NewJob(kind, e, n, None)
             k == [j EXCEPT !.nth = 1]
  <1>1. NewWait(kind, e, n) = IF cmd = j THEN k ELSE j
    BY DEF NewWait
  <1>2. j \in JobIn(x) /\ j.kind = kind /\ j.ex = e /\ j.node = n /\ j.nth = 0
    <2>1. kind \in JobKinds /\ kind \notin {"timer-boundary", "timer-event-start"}
      BY DEF WaitKinds, JobKinds
    <2>2. j \in JobIn(x)
      BY <2>1, NewJobIn
    <2>3. j.kind = kind /\ j.ex = e /\ j.node = n /\ j.nth = 0
      BY DEF NewJob
    <2> QED BY <2>2, <2>3
  <1> HIDE DEF j
  <1>3. k \in JobIn(x) /\ k.kind = kind /\ k.ex = e /\ k.node = n /\ k.nth = 1
    BY <1>2 DEF JobIn, Job
  <1> HIDE DEF k
  <1>4. k # j
    BY <1>2, <1>3
  <1>5. CASE cmd = j
    BY <1>1, <1>3, <1>4, <1>5
  <1>6. CASE cmd # j
    BY <1>1, <1>2, <1>6
  <1> QED BY <1>5, <1>6

\* The start of an event subprocess is declared in a node, not in the root.
LEMMA EventStartHome ==
  ASSUME NEW c, NEW kind, NEW s \in EventStarts(c, kind)
  PROVE  s \in Nodes /\ Home(s) \in Nodes /\ Kind(Home(s)) = "esub"
  BY ProcAssumption DEF EventStarts, ProcAssumption, Home

\* The subscriptions of a scope belong to the tree.
LEMMA EventTimersIn ==
  ASSUME NEW x, Tree(x), NEW e \in DOMAIN x, NEW c \in Nodes \cup {Top, None}
  PROVE  EventTimers(e, c) \subseteq JobIn(x)
  <1>1. ASSUME NEW s \in EventStarts(c, "timerStart")
        PROVE  NewJob("timer-event-start", e, s, c) \in JobIn(x)
    BY EventStartHome, NewJobIn DEF JobKinds
  <1> QED BY <1>1 DEF EventTimers

\* So do the boundary timers that an activity registers.
LEMMA WithBoundariesIn ==
  ASSUME NEW x, Tree(x), NEW j, j \subseteq JobIn(x), NEW e \in DOMAIN x, NEW h
  PROVE  WithBoundaries(j, e, h) \subseteq JobIn(x)
  <1>1. ASSUME NEW b \in Boundaries(h) PROVE NewJob("timer-boundary", e, b, None) \in JobIn(x)
    BY NewJobIn DEF Boundaries, Attached, JobKinds
  <1> QED BY <1>1 DEF WithBoundaries

\* What drops waits drops nothing else.
LEMMA DropsOnly ==
  ASSUME NEW s, NEW D, NEW e, NEW c, NEW h
  PROVE  /\ Without(s, D) \subseteq s
         /\ DropBoundaries(s, h) \subseteq s
         /\ DropEventTimers(s, e, c) \subseteq s
         /\ DropContinuation(s, e, h) \subseteq s
  BY DEF Without, DropBoundaries, DropEventTimers, DropContinuation

-----------------------------------------------------------------------------
\* What every step does, but for the tasks and the joins.
Sound ==
  /\ Grows(ex, ex')
  /\ jobs' \subseteq JobIn(ex')
  /\ queue' \in Seq(EventIn(ex'))
  /\ collapsing' \in BOOLEAN
  /\ cmd' \in Command
  /\ cmd' # NoCmd => Root \in DOMAIN ex'
  /\ completed' \in BOOLEAN
  /\ completed => completed'
  /\ completed' => jobs' = {}

\* What a handler has built when it ends its token or leaves its node.
Prepared(x, j, q) ==
  /\ Grows(ex, x)
  /\ j \subseteq JobIn(x)
  /\ q \in Seq(EventIn(x))
  /\ completed => j = {}

\* The command at hand stays legal in a tree that grew.
LEMMA CommandStays ==
  ASSUME IInv, NEW x, Grows(ex, x)
  PROVE  cmd \in Command /\ NoCmd \in Command /\ (cmd # NoCmd => Root \in DOMAIN x)
  BY DEF IInv, Grows, Command

\* What a handler built stays prepared when its tree grows.
LEMMA PreparedGrows ==
  ASSUME NEW x, NEW j, NEW q, Prepared(x, j, q), NEW y, Grows(x, y)
  PROVE  Prepared(y, j, q)
  <1>1. Grows(ex, y)
    BY GrowsTransitive DEF Prepared
  <1>2. DOMAIN x \subseteq DOMAIN y
    BY DEF Grows
  <1> QED BY <1>1, <1>2, InMonotone DEF Prepared

\* A handler that raises.
LEMMA RaiseSound ==
  ASSUME IInv, NEW x, NEW j, NEW q, Prepared(x, j, q), Raise(x, j)
  PROVE  Sound
  <1>1. ex' = x /\ jobs' = j /\ queue' = <<>> /\ collapsing' = FALSE /\ cmd' = NoCmd
        /\ completed' = completed
    BY DEF Raise
  <1>2. Grows(ex, x) /\ j \subseteq JobIn(x) /\ (completed => j = {})
    BY DEF Prepared
  <1>3. <<>> \in Seq(EventIn(x)) /\ completed \in BOOLEAN /\ NoCmd \in Command
    BY DEF IInv, Command
  <1> QED BY <1>1, <1>2, <1>3 DEF Sound

\* A handler that goes on.
LEMMA ContinueSound ==
  ASSUME IInv, NEW x, NEW j, NEW q, Prepared(x, j, q), Continue(x, j, q)
  PROVE  Sound
  <1>1. /\ ex' = x /\ jobs' = j /\ queue' = q
        /\ collapsing' = collapsing /\ cmd' = cmd /\ completed' = completed
    BY DEF Continue
  <1>2. Grows(ex, x) /\ j \subseteq JobIn(x) /\ q \in Seq(EventIn(x)) /\ (completed => j = {})
    BY DEF Prepared
  <1>3. cmd \in Command /\ (cmd # NoCmd => Root \in DOMAIN x)
    BY <1>2, CommandStays
  <1>4. collapsing \in BOOLEAN /\ completed \in BOOLEAN
    BY DEF IInv
  <1> QED BY <1>1, <1>2, <1>3, <1>4 DEF Sound

\* The completion of the instance.
LEMMA CompleteInstanceSound ==
  ASSUME IInv, NEW x, NEW j, NEW q, Prepared(x, j, q), CompleteInstance(x, q)
  PROVE  Sound
  <1> DEFINE y == Ended(x, {Root})
  <1>1. /\ ex' = y /\ jobs' = {} /\ queue' = q
        /\ collapsing' = collapsing /\ cmd' = cmd /\ completed' = TRUE
    BY DEF CompleteInstance
  <1>2. Tree(x)
    BY DEF Prepared, Grows
  <1>3. Grows(x, y)
    BY <1>2, EndedTree
  <1> HIDE DEF y
  <1>4. Grows(ex, y) /\ q \in Seq(EventIn(y))
    BY <1>3, PreparedGrows DEF Prepared
  <1>5. cmd \in Command /\ (cmd # NoCmd => Root \in DOMAIN y)
    BY <1>4, CommandStays
  <1>6. collapsing \in BOOLEAN
    BY DEF IInv
  <1> QED BY <1>1, <1>4, <1>5, <1>6 DEF Sound

\* The end of a token.
LEMMA EndTokenSound ==
  ASSUME IInv, NEW x, NEW j, NEW q, Prepared(x, j, q), NEW e, EndToken(x, j, q, e)
  PROVE  Sound
  <1>1. Tree(x)
    BY DEF Prepared, Grows
  <1>2. CASE e # Root
    <2> DEFINE y == Ended(x, {e})
    <2>1. /\ ex' = y /\ jobs' = j /\ queue' = q
          /\ collapsing' = (collapsing \/ x[Root].live) /\ cmd' = cmd /\ completed' = completed
      BY <1>2 DEF EndToken
    <2>2. Grows(x, y)
      BY <1>1, EndedTree
    <2> HIDE DEF y
    <2>3. Grows(ex, y) /\ j \subseteq JobIn(y) /\ q \in Seq(EventIn(y)) /\ (completed => j = {})
      BY <2>2, PreparedGrows DEF Prepared
    <2>4. cmd \in Command /\ (cmd # NoCmd => Root \in DOMAIN y)
      BY <2>3, CommandStays
    <2>5. collapsing' \in BOOLEAN /\ completed \in BOOLEAN
      BY <2>1 DEF IInv
    <2> QED BY <2>1, <2>3, <2>4, <2>5 DEF Sound
  <1>3. CASE e = Root /\ Children(x, Root) # {}
    <2> DEFINE y1 == [x EXCEPT ![Root].role = "SCOPE"]
               y == [y1 EXCEPT ![Root].act = None]
    <2>1. Continue(y, j, q)
      BY <1>3 DEF EndToken
    <2>2. Grows(x, y1)
      BY <1>1, SetRole
    <2> HIDE DEF y1
    <2>3. Tree(y1)
      BY <2>2 DEF Grows
    <2>4. Grows(y1, y)
      BY <2>3, SetAct
    <2> HIDE DEF y
    <2>5. Prepared(y, j, q)
      BY <2>2, <2>4, GrowsTransitive, PreparedGrows
    <2> QED BY <2>1, <2>5, ContinueSound
  <1>4. CASE e = Root /\ Children(x, Root) = {}
    BY <1>4, CompleteInstanceSound DEF EndToken
  <1> QED BY <1>2, <1>3, <1>4

\* An event for a token of the tree is appended.
LEMMA EventAppended ==
  ASSUME NEW x, NEW j, NEW q, Prepared(x, j, q), NEW e \in DOMAIN x, NEW n \in Nodes
  PROVE  /\ Prepared(x, j, Append(q, Enter(e, n)))
         /\ Enter(e, n) \in EventIn(x) /\ Resume(e, n) \in EventIn(x) /\ Depart(e, n) \in EventIn(x)
  <1>1. Enter(e, n) \in EventIn(x) /\ Resume(e, n) \in EventIn(x) /\ Depart(e, n) \in EventIn(x)
    BY DEF Enter, Resume, Depart, EventIn
  <1>2. Append(q, Enter(e, n)) \in Seq(EventIn(x))
    BY <1>1, AppendProperties DEF Prepared
  <1> QED BY <1>1, <1>2 DEF Prepared

\* The targets of a node are nodes.
LEMMA OutNodes ==
  ASSUME NEW n \in Nodes
  PROVE  /\ Out(n) \in Seq(Nodes)
         /\ Len(Out(n)) \in Nat
         /\ DOMAIN Out(n) = 1..Len(Out(n))
         /\ \A i \in DOMAIN Out(n) : Out(n)[i] \in Nodes
  <1>1. Out(n) \in Seq(Nodes)
    BY ProcAssumption DEF ProcAssumption, Out
  <1> QED BY <1>1, LenProperties, ElementOfSeq

\* Leaving a node, by its end, one flow or a fork.
LEMMA LeaveSound ==
  ASSUME IInv, NEW x, NEW j, NEW q, Prepared(x, j, q),
         NEW e \in DOMAIN x, NEW n \in Nodes, Leave(x, j, q, e, n)
  PROVE  Sound
  <1>1. CASE Out(n) = <<>> /\ EndToken(x, j, q, e)
    BY <1>1, EndTokenSound
  <1>2. CASE Raise(x, j)
    BY <1>2, RaiseSound
  <1>3. CASE Len(Out(n)) = 1 /\ Continue(x, j, Append(q, Enter(e, Out(n)[1])))
    <2>1. Out(n)[1] \in Nodes
      BY <1>3, OutNodes
    <2>2. Prepared(x, j, Append(q, Enter(e, Out(n)[1])))
      BY <2>1, EventAppended
    <2> QED BY <1>3, <2>2, ContinueSound
  <1>4. CASE Continue(Fork(x, e, Len(Out(n))), j,
                      q \o [i \in DOMAIN Out(n) |-> Enter(Len(x) + i, Out(n)[i])])
    <2> DEFINE y == Fork(x, e, Len(Out(n)))
               s == [i \in DOMAIN Out(n) |-> Enter(Len(x) + i, Out(n)[i])]
    <2>1. Tree(x)
      BY DEF Prepared, Grows
    <2>2. /\ Grows(x, y)
          /\ \A i \in DOMAIN Out(n) : Len(x) + i \in DOMAIN y
      BY <2>1, OutNodes, ForkTree
    <2>3. Continue(y, j, q \o s)
      BY <1>4
    <2> HIDE DEF y
    <2>4. ASSUME NEW i \in DOMAIN Out(n) PROVE Enter(Len(x) + i, Out(n)[i]) \in EventIn(y)
      BY <2>2, OutNodes DEF Enter, EventIn
    <2>5. s \in [1..Len(Out(n)) -> EventIn(y)]
      BY <2>4, OutNodes
    <2> HIDE DEF s
    <2>6. s \in Seq(EventIn(y))
      BY <2>5, OutNodes, FunctionIsSeq
    <2>7. Prepared(y, j, q)
      BY <2>2, PreparedGrows
    <2>8. q \o s \in Seq(EventIn(y))
      BY <2>6, <2>7, ConcatProperties DEF Prepared
    <2>9. Prepared(y, j, q \o s)
      BY <2>7, <2>8 DEF Prepared
    <2> QED BY <2>3, <2>9, ContinueSound
  <1> QED BY <1>1, <1>2, <1>3, <1>4 DEF Leave

\* Leaving an exclusive gateway.
LEMMA ChooseSound ==
  ASSUME IInv, NEW x, NEW q, Prepared(x, jobs, q),
         NEW e \in DOMAIN x, NEW n \in Nodes, Choose(x, q, e, n)
  PROVE  Sound
  <1>1. CASE \E i \in DOMAIN Out(n) : Continue(x, jobs, Append(q, Enter(e, Out(n)[i])))
    <2>1. PICK i \in DOMAIN Out(n) : Continue(x, jobs, Append(q, Enter(e, Out(n)[i])))
      BY <1>1
    <2>2. Prepared(x, jobs, Append(q, Enter(e, Out(n)[i])))
      BY OutNodes, EventAppended
    <2> QED BY <2>1, <2>2, ContinueSound
  <1>2. CASE Raise(x, jobs)
    BY <1>2, RaiseSound
  <1> QED BY <1>1, <1>2 DEF Choose

-----------------------------------------------------------------------------
\* A sound step that keeps the tasks and the joins typed keeps the invariant.
LEMMA SoundStep ==
  ASSUME IInv, Sound, tasks' \subseteq TaskIn(ex'), joins' \subseteq Arrival, IsFiniteSet(joins')
  PROVE  IInv'
  BY DEF IInv, Sound, Grows

\* ... and so does one that drops some of them or adds none.
LEMMA SoundFrame ==
  ASSUME IInv, Sound
  PROVE  /\ TaskIn(ex) \subseteq TaskIn(ex')
         /\ tasks' \subseteq tasks /\ joins' \subseteq joins => IInv'
  <1>1. TaskIn(ex) \subseteq TaskIn(ex')
    BY InMonotone DEF Sound, Grows
  <1>2. ASSUME tasks' \subseteq tasks, joins' \subseteq joins PROVE IInv'
    <2>1. tasks' \subseteq TaskIn(ex') /\ joins' \subseteq Arrival
      BY <1>1, <1>2 DEF IInv
    <2>2. IsFiniteSet(joins')
      BY <1>2, FS_Subset DEF IInv
    <2> QED BY <2>1, <2>2, SoundStep
  <1> QED BY <1>1, <1>2

\* What an event of the queue carries, and the tree a handler starts from.
LEMMA HeadEvent ==
  ASSUME IInv, Pumping
  PROVE  /\ Tok \in DOMAIN ex /\ At \in Nodes /\ ~completed /\ Root \in DOMAIN ex
         /\ Prepared(ex, jobs, Rest)
         /\ Prepared(Moved, jobs, Rest) /\ Len(Moved) = Len(ex)
         /\ Prepared(Opened, jobs, Rest) /\ Len(Opened) = Len(ex)
         /\ Prepared(Closed, jobs, Rest) /\ Len(Closed) = Len(ex)
  <1>1. queue \in Seq(EventIn(ex)) /\ queue # <<>> /\ ~completed /\ cmd # NoCmd
    BY DEF IInv, Pumping
  <1>2. Head(queue) \in EventIn(ex) /\ Tail(queue) \in Seq(EventIn(ex))
    BY <1>1, HeadTailProperties
  <1>3. Tok \in DOMAIN ex /\ At \in Nodes /\ Rest \in Seq(EventIn(ex))
    BY <1>2 DEF Tok, At, Rest, EventIn
  <1>4. Tree(ex) /\ jobs \subseteq JobIn(ex) /\ Root \in DOMAIN ex
    BY <1>1 DEF IInv
  <1>5. Prepared(ex, jobs, Rest)
    BY <1>1, <1>3, <1>4, GrowsReflexive DEF Prepared
  <1>6. Grows(ex, Moved) /\ Len(Moved) = Len(ex)
    <2>1. CASE Mode = "enter"
      BY <1>3, <1>4, <2>1, SetAct DEF Moved
    <2>2. CASE Mode # "enter"
      BY <1>4, <2>2, GrowsReflexive DEF Moved
    <2> QED BY <2>1, <2>2
  <1>7. Tree(Moved)
    BY <1>6 DEF Grows
  <1>8. Grows(Moved, Opened) /\ Len(Opened) = Len(ex)
    BY <1>3, <1>6, <1>7, SetOpen DEF Opened
  <1>9. Grows(Moved, Closed) /\ Len(Closed) = Len(ex)
    BY <1>3, <1>6, <1>7, SetOpen DEF Closed
  <1>10. Prepared(Moved, jobs, Rest)
    BY <1>5, <1>6, PreparedGrows
  <1> QED BY <1>1, <1>3, <1>4, <1>5, <1>6, <1>8, <1>9, <1>10, PreparedGrows

\* A job a handler adds for its token.
LEMMA JobAdded ==
  ASSUME NEW x, NEW q, Prepared(x, jobs, q), ~completed, NEW e \in DOMAIN x, NEW n \in Nodes,
         NEW kind \in WaitKinds
  PROVE  Prepared(x, jobs \cup {NewWait(kind, e, n)}, q)
  <1>1. Tree(x)
    BY DEF Prepared, Grows
  <1>2. NewWait(kind, e, n) \in JobIn(x)
    BY <1>1, NewWaitIn
  <1> QED BY <1>2 DEF Prepared

\* The boundary timers a handler adds for its token.
LEMMA BoundariesAdded ==
  ASSUME NEW x, NEW j, NEW q, Prepared(x, j, q), ~completed, NEW e \in DOMAIN x, NEW h
  PROVE  Prepared(x, WithBoundaries(j, e, h), q)
  <1>1. Tree(x) /\ j \subseteq JobIn(x)
    BY DEF Prepared, Grows
  <1>2. WithBoundaries(j, e, h) \subseteq JobIn(x)
    BY <1>1, WithBoundariesIn
  <1> QED BY <1>2 DEF Prepared

\* Those it adds before it refuses a boundary.
LEMMA RefusedAdded ==
  ASSUME NEW x, NEW j, NEW q, Prepared(x, j, q), ~completed, NEW e \in DOMAIN x, NEW h,
         NEW k \in UntilRefused(j, e, h)
  PROVE  Prepared(x, k, q)
  <1>1. Prepared(x, WithBoundaries(j, e, h), q)
    BY BoundariesAdded
  <1>2. k \subseteq WithBoundaries(j, e, h)
    BY DEF UntilRefused, WithBoundaries
  <1> QED BY <1>1, <1>2 DEF Prepared

\* An event whose token has ended.
LEMMA DropEventSound == ASSUME IInv, DropEvent PROVE Sound /\ IInv'
  <1>1. Prepared(ex, jobs, Rest)
    BY HeadEvent DEF DropEvent
  <1>2. Continue(ex, jobs, Rest) /\ UNCHANGED <<tasks, joins>>
    BY DEF DropEvent, Continue
  <1>3. Sound
    BY <1>1, <1>2, ContinueSound
  <1> QED BY <1>2, <1>3, SoundFrame

\* A token that reaches an asyncBefore node.
LEMMA ScheduleAsyncBeforeSound == ASSUME IInv, ScheduleAsyncBefore PROVE Sound /\ IInv'
  <1> DEFINE x1 == [ex EXCEPT ![Tok].act = At]
             x == [x1 EXCEPT ![Tok].open = At]
             j == jobs \cup {NewWait("async-continuation", Tok, At)}
  <1>1. /\ \/ Continue(x, WithBoundaries(j, Tok, At), Rest)
           \/ \E k \in {j} \cup UntilRefused(j, Tok, At) : Raise(x, k)
        /\ UNCHANGED <<tasks, joins>>
    BY DEF ScheduleAsyncBefore
  <1>2. Tok \in DOMAIN ex /\ At \in Nodes /\ ~completed /\ Prepared(ex, jobs, Rest) /\ Tree(ex)
    BY HeadEvent DEF ScheduleAsyncBefore, IInv
  <1>3. Grows(ex, x1)
    BY <1>2, SetAct
  <1> HIDE DEF x1
  <1>4. Tree(x1)
    BY <1>3 DEF Grows
  <1>5. Grows(x1, x)
    BY <1>2, <1>4, SetOpen
  <1> HIDE DEF x
  <1>6. Prepared(x, jobs, Rest) /\ Tok \in DOMAIN x
    BY <1>2, <1>3, <1>5, GrowsTransitive, PreparedGrows DEF Grows
  <1>7. Prepared(x, j, Rest)
    BY <1>2, <1>6, JobAdded DEF WaitKinds
  <1> HIDE DEF j
  <1>8. Prepared(x, WithBoundaries(j, Tok, At), Rest)
    BY <1>2, <1>6, <1>7, BoundariesAdded
  <1>10. \A k \in UntilRefused(j, Tok, At) : Prepared(x, k, Rest)
    BY <1>2, <1>6, <1>7, RefusedAdded
  <1>9. Sound
    BY <1>1, <1>7, <1>8, <1>10, ContinueSound, RaiseSound
  <1> QED BY <1>1, <1>9, SoundFrame

\* A token that passes a start event.
LEMMA PassStartSound == ASSUME IInv, PassStart PROVE Sound /\ IInv'
  <1>1. Leave(Closed, jobs, Rest, Tok, At) /\ UNCHANGED <<tasks, joins>> /\ Pumping
    BY DEF PassStart, Behaves
  <1>2. Prepared(Closed, jobs, Rest) /\ Tok \in DOMAIN Closed /\ At \in Nodes
    BY <1>1, HeadEvent DEF Prepared, Grows
  <1>3. Sound
    BY <1>1, <1>2, LeaveSound
  <1> QED BY <1>1, <1>3, SoundFrame

\* A token that ends on an end event, or on an error nobody catches.
LEMMA ReachEndSound == ASSUME IInv, ReachEnd \/ UncaughtError PROVE Sound /\ IInv'
  <1>1. EndToken(Closed, jobs, Rest, Tok) /\ UNCHANGED <<tasks, joins>> /\ Pumping
    BY DEF ReachEnd, UncaughtError, Behaves
  <1>2. Prepared(Closed, jobs, Rest)
    BY <1>1, HeadEvent
  <1>3. Sound
    BY <1>1, <1>2, EndTokenSound
  <1> QED BY <1>1, <1>3, SoundFrame

\* A token that runs a service task.
LEMMA RunServiceSound == ASSUME IInv, RunService PROVE Sound /\ IInv'
  <1> DEFINE j == jobs \cup {NewWait("async-after", Tok, At)}
  <1>1. /\ Raise(Opened, jobs) \/ Continue(Closed, j, Rest) \/ Leave(Closed, jobs, Rest, Tok, At)
        /\ UNCHANGED <<tasks, joins>>
        /\ Pumping
    BY DEF RunService, Behaves
  <1>2. /\ Prepared(Closed, jobs, Rest) /\ Prepared(Opened, jobs, Rest)
        /\ Tok \in DOMAIN Closed /\ At \in Nodes /\ ~completed
    BY <1>1, HeadEvent DEF Prepared, Grows
  <1>3. Prepared(Closed, j, Rest)
    BY <1>2, JobAdded DEF WaitKinds
  <1> HIDE DEF j
  <1>4. Sound
    BY <1>1, <1>2, <1>3, LeaveSound, RaiseSound, ContinueSound
  <1> QED BY <1>1, <1>4, SoundFrame

\* A token at an exclusive gateway.
LEMMA ChooseFlowSound == ASSUME IInv, ChooseFlow PROVE Sound /\ IInv'
  <1> DEFINE j == jobs \cup {NewWait("async-after", Tok, At)}
  <1>1. /\ Continue(Closed, j, Rest) \/ Choose(Closed, Rest, Tok, At)
        /\ UNCHANGED <<tasks, joins>>
        /\ Pumping
    BY DEF ChooseFlow, Behaves
  <1>2. Prepared(Closed, jobs, Rest) /\ Tok \in DOMAIN Closed /\ At \in Nodes /\ ~completed
    BY <1>1, HeadEvent DEF Prepared, Grows
  <1>3. Prepared(Closed, j, Rest)
    BY <1>2, JobAdded DEF WaitKinds
  <1> HIDE DEF j
  <1>4. Sound
    BY <1>1, <1>2, <1>3, ChooseSound, ContinueSound
  <1> QED BY <1>1, <1>4, SoundFrame

\* A token that waits for a user.
LEMMA EnterUserTaskWaitSound == ASSUME IInv, EnterUserTaskWait PROVE Sound /\ IInv'
  <1>1. /\ \/ Continue(Opened, jobs, Rest)
           \/ Continue(Opened, WithBoundaries(jobs, Tok, At), Rest)
           \/ Raise(Opened, jobs)
        /\ tasks' = tasks \cup {[ex |-> Tok, node |-> At]}
        /\ joins' = joins
        /\ Pumping
    BY DEF EnterUserTaskWait, Behaves
  <1>2. /\ Prepared(Opened, jobs, Rest) /\ Tok \in DOMAIN ex /\ Tok \in DOMAIN Opened
        /\ At \in Nodes /\ ~completed
    BY <1>1, HeadEvent DEF Prepared, Grows
  <1>3. Prepared(Opened, WithBoundaries(jobs, Tok, At), Rest)
    BY <1>2, BoundariesAdded
  <1>4. Sound
    BY <1>1, <1>2, <1>3, ContinueSound, RaiseSound
  <1>5. [ex |-> Tok, node |-> At] \in TaskIn(ex)
    BY <1>2 DEF TaskIn
  <1>6. tasks' \subseteq TaskIn(ex')
    BY <1>1, <1>4, <1>5, SoundFrame DEF IInv
  <1>7. joins' \subseteq Arrival /\ IsFiniteSet(joins')
    BY <1>1 DEF IInv
  <1> QED BY <1>4, <1>6, <1>7, SoundStep

\* A token that waits for a timer.
LEMMA EnterTimerCatchSound == ASSUME IInv, EnterTimerCatch PROVE Sound /\ IInv'
  <1> DEFINE j == jobs \cup {NewWait("timer-catch", Tok, At)}
  <1>1. Continue(Opened, j, Rest) /\ UNCHANGED <<tasks, joins>> /\ Pumping
    BY DEF EnterTimerCatch, Behaves
  <1>2. Prepared(Opened, jobs, Rest) /\ Tok \in DOMAIN Opened /\ At \in Nodes /\ ~completed
    BY <1>1, HeadEvent DEF Prepared, Grows
  <1>3. Prepared(Opened, j, Rest)
    BY <1>2, JobAdded DEF WaitKinds
  <1> HIDE DEF j
  <1>4. Sound
    BY <1>1, <1>3, ContinueSound
  <1> QED BY <1>1, <1>4, SoundFrame

\* A token whose wait is over.
LEMMA DepartNodeSound == ASSUME IInv, DepartNode PROVE Sound /\ IInv'
  <1>1. /\ Choose(ex, Rest, Tok, At) \/ Leave(ex, jobs, Rest, Tok, At)
        /\ UNCHANGED <<tasks, joins>>
        /\ Pumping
    BY DEF DepartNode
  <1>2. Prepared(ex, jobs, Rest) /\ Tok \in DOMAIN ex /\ At \in Nodes
    BY <1>1, HeadEvent
  <1>3. Sound
    BY <1>1, <1>2, ChooseSound, LeaveSound
  <1> QED BY <1>1, <1>3, SoundFrame

\* A token that enters a subProcess.
LEMMA EnterSubprocessSound == ASSUME IInv, EnterSubprocess PROVE Sound /\ IInv'
  <1> DEFINE y == [Opened EXCEPT ![Tok].role = "SCOPE"]
             r == NewExecution(<<Tok>> \o ex[Tok].path, "TOKEN", None)
             x == Append(y, r)
             b == WithBoundaries(jobs, Tok, At)
             q == Append(Rest, Enter(Len(x), Proc.start[At]))
  <1>1. /\ \/ Continue(x, b \cup EventTimers(Tok, At), q)
           \/ \E j \in {jobs} \cup UntilRefused(jobs, Tok, At) : Raise(x, j)
        /\ UNCHANGED <<tasks, joins>>
        /\ Pumping /\ Kind(At) = "sub"
    BY DEF EnterSubprocess, Behaves
  <1>2. Prepared(Opened, jobs, Rest) /\ Len(Opened) = Len(ex) /\ Tok \in DOMAIN ex /\ At \in Nodes /\ ~completed
    BY <1>1, HeadEvent
  <1>3. Tree(Opened) /\ DOMAIN Opened = DOMAIN ex
    BY <1>2, TreeDomain DEF Prepared, Grows, IInv
  <1>4. Grows(Opened, y) /\ Len(y) = Len(ex)
    BY <1>2, <1>3, SetRole
  <1> HIDE DEF y
  <1>5. Tree(y) /\ DOMAIN y = DOMAIN ex
    BY <1>4, TreeDomain DEF Grows, IInv
  <1>6. <<Tok>> \o ex[Tok].path \in Seq(DOMAIN y)
    BY <1>2, <1>5, ChildPath DEF IInv
  <1>7. r \in ExecutionIn(y)
    BY <1>6, NewExecutionIn
  <1> HIDE DEF r
  <1>16. Chain(y, r.path)
    <2>1. y[Tok].path = ex[Tok].path /\ r.path = <<Tok>> \o ex[Tok].path
      BY <1>2, <1>3, <1>4 DEF Grows, Prepared, r, NewExecution
    <2>2. Chain(y, <<Tok>> \o y[Tok].path)
      BY <1>2, <1>5, ChildPath
    <2> QED BY <2>1, <2>2
  <1>8. Grows(y, x) /\ Len(x) \in DOMAIN x
    <2>1. y # <<>>
      BY <1>2, <1>5
    <2> QED BY <1>5, <1>7, <1>16, <2>1, AppendTree
  <1> HIDE DEF x
  <1>9. Prepared(x, jobs, Rest) /\ Tok \in DOMAIN x /\ Tree(x)
    BY <1>2, <1>4, <1>5, <1>8, GrowsTransitive, PreparedGrows DEF Grows
  <1>10. Proc.start[At] \in Nodes
    BY <1>1, <1>2, ProcAssumption DEF ProcAssumption, Kind
  <1>11. Prepared(x, jobs, q)
    BY <1>8, <1>9, <1>10, EventAppended
  <1> HIDE DEF q
  <1>12. Prepared(x, b, q)
    BY <1>2, <1>9, <1>11, BoundariesAdded
  <1> HIDE DEF b
  <1>13. EventTimers(Tok, At) \subseteq JobIn(x)
    BY <1>2, <1>9, EventTimersIn
  <1>14. Prepared(x, b \cup EventTimers(Tok, At), q)
    BY <1>2, <1>12, <1>13 DEF Prepared
  <1>17. \A j \in UntilRefused(jobs, Tok, At) : Prepared(x, j, q)
    BY <1>2, <1>9, <1>11, RefusedAdded
  <1>15. Sound
    BY <1>1, <1>11, <1>14, <1>17, ContinueSound, RaiseSound
  <1> QED BY <1>1, <1>15, SoundFrame

\* A token that passes a parallel gateway or completes its join.
LEMMA PassGatewaySound == ASSUME IInv, PassGateway PROVE Sound /\ IInv'
  <1>1. Pumping /\ tasks' = tasks
    BY DEF PassGateway, Behaves
  <1>2. Prepared(Closed, jobs, Rest) /\ Tok \in DOMAIN Closed /\ At \in Nodes /\ Tree(Closed)
    BY <1>1, HeadEvent DEF Prepared, Grows
  <1>3. CASE Leave(Closed, jobs, Rest, Tok, At) /\ UNCHANGED joins
    <2>1. Sound
      BY <1>2, <1>3, LeaveSound
    <2> QED BY <1>1, <1>3, <2>1, SoundFrame
  <1>4. CASE ~(Cardinality(Incoming(At)) <= 1)
    <2> DEFINE x == Ended(Closed, {Tok} \cup {w.ex : w \in Arrivals(At)})
    <2>1. PICK a \in JoinActors(x, Tok) : Leave([x EXCEPT ![a].role = "TOKEN"], jobs, Rest, a, At)
      BY <1>4 DEF PassGateway
    <2>2. joins' = joins \ Arrivals(At)
      BY <1>4 DEF PassGateway
    <2>3. Grows(Closed, x)
      BY <1>2, EndedTree
    <2> HIDE DEF x
    <2>4. Tree(x) /\ Tok \in DOMAIN x
      BY <1>2, <2>3 DEF Grows
    <2>5. a \in DOMAIN x
      BY <2>1, <2>4, JoinActorsIn
    <2> DEFINE y == [x EXCEPT ![a].role = "TOKEN"]
    <2>6. Grows(x, y)
      BY <2>4, SetRole
    <2>7. Leave(y, jobs, Rest, a, At)
      BY <2>1
    <2> HIDE DEF y
    <2>8. Prepared(y, jobs, Rest) /\ a \in DOMAIN y
      BY <1>2, <2>3, <2>5, <2>6, GrowsTransitive, PreparedGrows DEF Grows
    <2>9. Sound
      BY <1>2, <2>7, <2>8, LeaveSound
    <2> QED BY <1>1, <2>2, <2>9, SoundFrame
  <1> QED BY <1>3, <1>4 DEF PassGateway

\* A token that waits at a join, or whose container does not know the gateway.
LEMMA WaitAtJoinSound == ASSUME IInv, WaitAtJoin PROVE Sound /\ IInv'
  <1>1. /\ Pumping /\ tasks' = tasks
        /\ \/ Continue(Moved, jobs, Rest) /\ joins' = joins \cup {NewArrival(At, Tok)}
           \/ Raise(Moved, jobs) /\ joins' = joins
    BY DEF WaitAtJoin, Behaves
  <1>2. Prepared(Moved, jobs, Rest) /\ Tok \in DOMAIN ex /\ At \in Nodes
    BY <1>1, HeadEvent
  <1>3. Sound
    BY <1>1, <1>2, ContinueSound, RaiseSound
  <1>4. NewArrival(At, Tok) \in Arrival
    <2>1. IsFiniteSet({w \in Arrivals(At) : w.ex = Tok})
      BY FS_Subset DEF Arrivals, IInv
    <2>2. Cardinality({w \in Arrivals(At) : w.ex = Tok}) \in Nat
      BY <2>1, FS_CardinalityType
    <2>3. Tok \in Nat
      BY <1>2, TreeDomain DEF IInv
    <2> QED BY <1>2, <2>2, <2>3 DEF NewArrival, Arrival
  <1>5. joins' \subseteq Arrival /\ IsFiniteSet(joins')
    BY <1>1, <1>4, FS_AddElement DEF IInv
  <1>6. tasks' \subseteq TaskIn(ex')
    BY <1>1, <1>3, SoundFrame DEF IInv
  <1> QED BY <1>3, <1>5, <1>6, SoundStep

\* Who catches an error is an execution of the tree.
LEMMA CatchersIn ==
  ASSUME NEW x, Tree(x), Root \in DOMAIN x, NEW e \in DOMAIN x, NEW code,
         NEW c \in Catchers(x, e, code)
  PROVE  /\ c.host \in DOMAIN x /\ c.start \in Nodes
         /\ Home(c.start) \in Nodes /\ Kind(Home(c.start)) = "esub"
  <1>1. x[e].path \in Seq(DOMAIN x)
    BY ChildPath
  <1>2. \A k \in DOMAIN x[e].path : x[e].path[k] \in DOMAIN x
    BY <1>1, LenProperties, ElementOfSeq
  <1> DEFINE Catching(d) == {s \in EventStarts(d, "errorStart") : s \in Proc.cancel /\ Proc.code[s] = code}
             At1(p) == {[host |-> p, scope |-> x[p].act, start |-> s] : s \in Catching(x[p].act)}
             AtTop == {[host |-> Root, scope |-> Top, start |-> s] : s \in Catching(Top)}
             Scope(p) == /\ x[p].role # "TOKEN"
                         /\ x[p].act \in Nodes
                         /\ Kind(x[p].act) \in SubKinds
                         /\ Here(x, p, x[p].act)
             Hits == {k \in DOMAIN x[e].path : Scope(x[e].path[k]) /\ Catching(x[x[e].path[k]].act) # {}}
             Near == {k \in Hits : \A m \in Hits : k <= m}
  <1>3. (\E k \in DOMAIN x[e].path : c \in At1(x[e].path[k])) \/ c \in AtTop
    <2>1. Catchers(x, e, code) = IF Hits # {} THEN UNION {At1(x[e].path[k]) : k \in Near} ELSE AtTop
      BY Zenon DEF Catchers
    <2>2. Near \subseteq DOMAIN x[e].path
      OBVIOUS
    <2> HIDE DEF Catching, At1, AtTop, Scope, Hits, Near
    <2> QED BY <2>1, <2>2
  <1>4. ASSUME NEW p \in DOMAIN x, c \in At1(p)
        PROVE  /\ c.host \in DOMAIN x /\ c.start \in Nodes
               /\ Home(c.start) \in Nodes /\ Kind(Home(c.start)) = "esub"
    BY <1>4, EventStartHome
  <1>5. ASSUME c \in AtTop
        PROVE  /\ c.host \in DOMAIN x /\ c.start \in Nodes
               /\ Home(c.start) \in Nodes /\ Kind(Home(c.start)) = "esub"
    BY <1>5, EventStartHome
  <1> QED BY <1>2, <1>3, <1>4, <1>5

\* An event subprocess that takes over the scope of host in the tree x.
LEMMA TakeOver ==
  ASSUME NEW x, NEW q, Prepared(x, jobs, q), ~completed, NEW host \in DOMAIN x, NEW scope, NEW dead,
         NEW s \in Nodes, Home(s) \in Nodes, NEW y, NEW j,
         y = WithEventSubprocess(TakenOver(x, host, scope), host, s),
         j = DropEventTimers(Without(jobs, dead), host, scope) \cup EventTimers(Len(x) + 1, Home(s))
  PROVE  Prepared(y, j, q) /\ Len(x) + 2 \in DOMAIN y
  <1> DEFINE k == TakenOver(x, host, scope)
  <1>1. Tree(x)
    BY DEF Prepared, Grows
  <1>2. Grows(x, k) /\ Len(k) = Len(x)
    BY <1>1, TakenOverTree
  <1>3. y = WithEventSubprocess(k, host, s)
    OBVIOUS
  <1> HIDE DEF k
  <1>4. Tree(k) /\ host \in DOMAIN k
    BY <1>2 DEF Grows
  <1>5. Grows(k, y) /\ Len(x) + 1 \in DOMAIN y /\ Len(x) + 2 \in DOMAIN y
    BY <1>2, <1>3, <1>4, EventSubprocessTree
  <1>6. Prepared(y, jobs, q) /\ Tree(y)
    <2>1. Grows(x, y)
      BY <1>2, <1>5, GrowsTransitive
    <2>2. Tree(y)
      BY <2>1 DEF Grows
    <2> QED BY <2>1, <2>2, PreparedGrows
  <1>7. EventTimers(Len(x) + 1, Home(s)) \subseteq JobIn(y)
    BY <1>5, <1>6, EventTimersIn
  <1>8. DropEventTimers(Without(jobs, dead), host, scope) \subseteq jobs
    BY DropsOnly
  <1>9. Prepared(y, j, q)
    BY <1>6, <1>7, <1>8 DEF Prepared
  <1> QED BY <1>5, <1>9

\* Taking a scope over registers no arrival.
LEMMA JoinsTakenOverIn ==
  ASSUME NEW dead, NEW scope
  PROVE  JoinsTakenOver(dead, scope) \subseteq joins
  BY DropsOnly DEF JoinsTakenOver

\* A token that throws an error which is caught.
LEMMA ThrowErrorSound == ASSUME IInv, ThrowError PROVE Sound /\ IInv'
  <1>1. Pumping
    BY DEF ThrowError, Behaves
  <1>2. /\ Prepared(Closed, jobs, Rest) /\ Len(Closed) = Len(ex) /\ Tree(Closed) /\ ~completed
        /\ Tok \in DOMAIN Closed /\ Root \in DOMAIN Closed
    BY <1>1, HeadEvent DEF Prepared, Grows
  <1> DEFINE x == IF Tok = Root THEN Closed ELSE Ended(Closed, {Tok})
  <1>3. PICK c \in Catchers(Closed, Tok, Proc.code[At]) :
          /\ Continue(WithEventSubprocess(TakenOver(x, c.host, c.scope), c.host, c.start),
                      DropEventTimers(Without(jobs, Victims(x, c.host, c.scope)), c.host, c.scope)
                        \cup EventTimers(Len(ex) + 1, Home(c.start)),
                      Append(Rest, Enter(Len(ex) + 2, c.start)))
          /\ tasks' = Without(tasks, Victims(x, c.host, c.scope))
          /\ joins' = JoinsTakenOver(Victims(x, c.host, c.scope), c.scope)
    BY DEF ThrowError
  <1>4. c.host \in DOMAIN Closed /\ c.start \in Nodes /\ Home(c.start) \in Nodes
    BY <1>2, CatchersIn
  <1>5. Grows(Closed, x) /\ Len(x) = Len(ex)
    BY <1>2, EndedTree, GrowsReflexive
  <1> HIDE DEF x
  <1>6. Prepared(x, jobs, Rest) /\ c.host \in DOMAIN x
    BY <1>2, <1>4, <1>5, PreparedGrows DEF Grows
  <1> DEFINE dead == Victims(x, c.host, c.scope)
             y == WithEventSubprocess(TakenOver(x, c.host, c.scope), c.host, c.start)
             j == DropEventTimers(Without(jobs, dead), c.host, c.scope)
                    \cup EventTimers(Len(ex) + 1, Home(c.start))
             q == Append(Rest, Enter(Len(ex) + 2, c.start))
  <1>7. Continue(y, j, q) /\ tasks' \subseteq tasks /\ joins' \subseteq joins
    BY <1>3, DropsOnly, JoinsTakenOverIn
  <1>8. j = DropEventTimers(Without(jobs, dead), c.host, c.scope) \cup EventTimers(Len(x) + 1, Home(c.start))
    BY <1>5
  <1>9. y = WithEventSubprocess(TakenOver(x, c.host, c.scope), c.host, c.start)
    OBVIOUS
  <1> HIDE DEF dead, y, j
  <1>10. Prepared(y, j, Rest) /\ Len(x) + 2 \in DOMAIN y
    BY <1>2, <1>4, <1>6, <1>8, <1>9, TakeOver
  <1>11. Prepared(y, j, q)
    BY <1>4, <1>5, <1>10, EventAppended
  <1>12. Sound
    BY <1>7, <1>11, ContinueSound
  <1> QED BY <1>7, <1>12, SoundFrame

-----------------------------------------------------------------------------
\* Every event of the queue.
LEMMA PumpSound == ASSUME IInv, Pump PROVE Sound /\ IInv'
  BY DropEventSound, ScheduleAsyncBeforeSound, PassStartSound, ReachEndSound, ThrowErrorSound,
     RunServiceSound, ChooseFlowSound, EnterUserTaskWaitSound, EnterTimerCatchSound,
     EnterSubprocessSound, PassGatewaySound, WaitAtJoinSound, DepartNodeSound
  DEF Pump

\* Every step of _collapse_scopes.
LEMMA CollapseSound == ASSUME IInv, Collapse PROVE Sound /\ IInv'
  <1>1. ASSUME NEW e \in DOMAIN ex, CollapseSubprocess(e) PROVE Sound /\ IInv'
    <2> DEFINE n == ex[e].act
               x1 == [ex EXCEPT ![e].open = None]
               x == [x1 EXCEPT ![e].role = "TOKEN"]
               j == DropEventTimers(DropBoundaries(jobs, n), e, n)
    <2>1. Leave(x, j, queue, e, n) /\ UNCHANGED <<tasks, joins>> /\ n \in Nodes
      BY <1>1 DEF CollapseSubprocess, Collapsible
    <2>2. Tree(ex) /\ jobs \subseteq JobIn(ex) /\ queue \in Seq(EventIn(ex)) /\ (completed => jobs = {})
      BY DEF IInv
    <2>3. j \subseteq jobs
      BY DropsOnly
    <2> HIDE DEF n, j
    <2>4. Grows(ex, x1)
      BY <2>2, SetOpen
    <2> HIDE DEF x1
    <2>5. Grows(x1, x)
      <3>1. Tree(x1)
        BY <2>4 DEF Grows
      <3> QED BY <3>1, SetRole
    <2> HIDE DEF x
    <2>6. Prepared(ex, j, queue)
      BY <2>2, <2>3, GrowsReflexive DEF Prepared
    <2>7. Prepared(x, j, queue) /\ e \in DOMAIN x
      BY <2>4, <2>5, <2>6, GrowsTransitive, PreparedGrows DEF Grows
    <2>8. Sound
      BY <2>1, <2>7, LeaveSound
    <2> QED BY <2>1, <2>8, SoundFrame
  <1>2. ASSUME NEW e \in DOMAIN ex, CollapseFork(e) PROVE Sound /\ IInv'
    <2>1. Tree(ex) /\ Prepared(ex, jobs, queue)
      BY GrowsReflexive DEF IInv, Prepared
    <2>2. /\ CompleteInstance(ex, queue) \/ Continue(Ended(ex, {e}), jobs, queue)
          /\ UNCHANGED <<tasks, joins>>
      BY <1>2 DEF CollapseFork
    <2>3. Prepared(Ended(ex, {e}), jobs, queue)
      BY <2>1, EndedTree, PreparedGrows
    <2>4. Sound
      BY <2>1, <2>2, <2>3, CompleteInstanceSound, ContinueSound
    <2> QED BY <2>2, <2>4, SoundFrame
  <1>3. ASSUME FinishCollapse PROVE Sound /\ IInv'
    <2>1. Tree(ex) /\ Prepared(ex, jobs, queue)
      BY GrowsReflexive DEF IInv, Prepared
    <2>2. /\ ex' = Ended(ex, {Root}) \/ ex' = ex
          /\ (jobs' = {} /\ completed' = TRUE) \/ (jobs' = jobs /\ completed' = completed)
          /\ queue' = queue /\ cmd' = cmd /\ collapsing' = FALSE
          /\ UNCHANGED <<tasks, joins>>
      BY <1>3 DEF FinishCollapse, IInv
    <2>3. Grows(ex, ex')
      BY <2>1, <2>2, EndedTree, GrowsReflexive
    <2>4. Prepared(ex', jobs, queue)
      BY <2>1, <2>3, PreparedGrows
    <2>5. cmd \in Command /\ (cmd # NoCmd => Root \in DOMAIN ex')
      BY <2>3, CommandStays
    <2>6. jobs \subseteq JobIn(ex') /\ queue \in Seq(EventIn(ex')) /\ (completed => jobs = {})
      BY <2>4 DEF Prepared
    <2>7. completed \in BOOLEAN
      BY DEF IInv
    <2>8. /\ completed' \in BOOLEAN /\ collapsing' \in BOOLEAN
          /\ completed => completed'
          /\ completed' => jobs' = {}
      <3>1. CASE jobs' = {} /\ completed' = TRUE
        BY <2>2, <3>1
      <3>2. CASE jobs' = jobs /\ completed' = completed
        BY <2>2, <2>6, <2>7, <3>2
      <3> QED BY <2>2, <3>1, <3>2
    <2>9. jobs' \subseteq JobIn(ex')
      BY <2>2, <2>6
    <2>10. queue' \in Seq(EventIn(ex')) /\ cmd' \in Command /\ (cmd' # NoCmd => Root \in DOMAIN ex')
      BY <2>2, <2>5, <2>6
    <2>11. Sound
      BY <2>3, <2>8, <2>9, <2>10 DEF Sound
    <2> QED BY <2>2, <2>11, SoundFrame
  <1> QED BY <1>1, <1>2, <1>3 DEF Collapse

\* start_process_instance_by_key.
LEMMA StartProcessSound == ASSUME IInv, StartProcess PROVE Sound /\ IInv'
  <1> DEFINE r == NewExecution(<<>>, "TOKEN", None)
  <1>1. /\ ex = <<>> /\ ex' = <<r>> /\ queue' = <<Enter(Root, Proc.start[Top])>>
        /\ cmd' = StartC /\ UNCHANGED <<tasks, jobs, joins, collapsing, completed>>
    BY DEF StartProcess
  <1>2. r \in ExecutionIn(<<r>>)
    <2>1. <<>> \in Seq(DOMAIN <<r>>)
      OBVIOUS
    <2> QED BY <2>1, NewExecutionIn
  <1> HIDE DEF r
  <1>3. <<r>> \in Seq(ExecutionIn(<<r>>)) /\ DOMAIN <<r>> = {Root}
    BY <1>2 DEF Root
  <1>11. Linked(<<r>>)
    <2>1. \A i \in DOMAIN <<r>> : <<r>>[i].path = <<>>
      BY <1>3 DEF r, NewExecution, Root
    <2> QED BY <1>3, <2>1 DEF Linked, Chain
  <1>4. Grows(ex, ex') /\ Root \in DOMAIN ex' /\ DOMAIN ex \subseteq DOMAIN ex'
    BY <1>1, <1>3, <1>11 DEF Grows, Tree
  <1>5. Proc.start[Top] \in Nodes
    BY ProcAssumption DEF ProcAssumption
  <1>6. Enter(Root, Proc.start[Top]) \in EventIn(ex')
    BY <1>4, <1>5 DEF Enter, EventIn
  <1>7. queue' \in Seq(EventIn(ex'))
    BY <1>1, <1>6
  <1>8. jobs' \subseteq JobIn(ex')
    BY <1>1, <1>4, InMonotone DEF IInv
  <1>9. cmd' \in Command
    BY <1>1 DEF Command
  <1>10. Sound
    BY <1>1, <1>4, <1>7, <1>8, <1>9 DEF Sound, IInv
  <1> QED BY <1>1, <1>10, SoundFrame

\* complete_task.
LEMMA CompleteTaskSound == ASSUME IInv, NEW t \in tasks, CompleteTask(t) PROVE Sound /\ IInv'
  <1>1. /\ ~completed /\ completed' = completed /\ collapsing' = collapsing
        /\ tasks' \subseteq tasks /\ joins' = joins
    BY DEF CompleteTask
  <1>2. t.ex \in DOMAIN ex /\ t.node \in Nodes /\ Tree(ex) /\ Prepared(ex, jobs, queue)
    BY GrowsReflexive DEF IInv, TaskIn, Prepared
  <1>3. CASE Here(ex, t.ex, t.node)
    <2> DEFINE x == [ex EXCEPT ![t.ex].open = None]
    <2>1. ex' = x /\ jobs' = DropBoundaries(jobs, t.node)
          /\ queue' = <<Depart(t.ex, t.node)>> /\ cmd' = CompleteC
      BY <1>3 DEF CompleteTask
    <2>2. Grows(ex, x)
      BY <1>2, SetOpen
    <2> HIDE DEF x
    <2>3. Prepared(x, jobs, queue) /\ t.ex \in DOMAIN x
      BY <1>2, <2>2, PreparedGrows DEF Grows
    <2>4. Depart(t.ex, t.node) \in EventIn(x)
      BY <1>2, <2>3, EventAppended
    <2>5. queue' \in Seq(EventIn(x)) /\ cmd' \in Command
      BY <2>1, <2>4 DEF Command
    <2>6. jobs' \subseteq JobIn(x)
      BY <2>1, <2>3, DropsOnly DEF Prepared
    <2>7. Root \in DOMAIN x
      BY <1>2, <2>2, TreeDomain DEF Grows, Root
    <2>8. completed' = FALSE /\ collapsing' \in BOOLEAN
      BY <1>1 DEF IInv
    <2> QED BY <1>1, <2>1, <2>2, <2>5, <2>6, <2>7, <2>8, SoundFrame DEF Sound
  <1>4. CASE ~Here(ex, t.ex, t.node)
    <2>1. Continue(ex, jobs, queue)
      BY <1>1, <1>4 DEF CompleteTask, Continue
    <2>2. Sound
      BY <1>2, <2>1, ContinueSound
    <2> QED BY <1>1, <2>2, SoundFrame
  <1> QED BY <1>3, <1>4

\* The job that fires, and the tree it finds.
LEMMA JobFacts ==
  ASSUME IInv, NEW j \in jobs
  PROVE  /\ ~completed /\ Tree(ex) /\ Prepared(ex, jobs, <<>>)
         /\ j \in Command /\ j.ex \in DOMAIN ex /\ j.node \in Nodes /\ j.kind \in JobKinds
         /\ j.kind = "timer-event-start" => Home(j.node) \in Nodes
  <1>1. j \in Job /\ j.ex \in DOMAIN ex /\ (j.kind = "timer-event-start" => Home(j.node) \in Nodes)
    BY DEF IInv, JobIn
  <1>2. j \in Command /\ j.node \in Nodes /\ j.kind \in JobKinds
    BY <1>1 DEF Command, Job
  <1>3. ~completed /\ Tree(ex) /\ jobs \subseteq JobIn(ex)
    BY DEF IInv
  <1>4. Prepared(ex, jobs, <<>>)
    BY <1>3, GrowsReflexive DEF Prepared
  <1> QED BY <1>1, <1>2, <1>3, <1>4

\* A job that fires on a tree it prepared, with one event for a token of it.
LEMMA FiredSound ==
  ASSUME IInv, NEW j \in jobs, NEW x, NEW k, Prepared(x, k, <<>>), NEW v, v \in EventIn(x),
         ex' = x, jobs' = k, queue' = <<v>>, cmd' = j, UNCHANGED <<collapsing, completed>>
  PROVE  Sound
  <1>1. Grows(ex, ex') /\ jobs' \subseteq JobIn(ex') /\ queue' \in Seq(EventIn(ex'))
    BY DEF Prepared
  <1>2. cmd' \in Command
    BY JobFacts
  <1>3. Root \in DOMAIN ex'
    BY <1>1, JobFacts, TreeDomain DEF Grows, Root
  <1>4. completed' = FALSE /\ collapsing' \in BOOLEAN /\ ~completed
    BY JobFacts DEF IInv
  <1> QED BY <1>1, <1>2, <1>3, <1>4 DEF Sound

\* A job that finds its token elsewhere.
LEMMA DropStaleJobSound == ASSUME IInv, NEW j \in jobs, DropStaleJob(j) PROVE Sound /\ IInv'
  <1>1. Continue(ex, jobs \ {j}, queue) /\ UNCHANGED <<tasks, joins>>
    BY DEF DropStaleJob, Continue
  <1>2. Prepared(ex, jobs \ {j}, queue)
    BY GrowsReflexive DEF IInv, Prepared
  <1>3. Sound
    BY <1>1, <1>2, ContinueSound
  <1> QED BY <1>1, <1>3, SoundFrame

\* A timer catch.
LEMMA FireTimerCatchSound == ASSUME IInv, NEW j \in jobs, FireTimerCatch(j) PROVE Sound /\ IInv'
  <1> DEFINE x == [ex EXCEPT ![j.ex].open = None]
  <1>1. /\ ex' = x /\ queue' = <<Depart(j.ex, j.node)>> /\ cmd' = j /\ jobs' = jobs
        /\ UNCHANGED <<tasks, joins>> /\ UNCHANGED <<collapsing, completed>>
    BY DEF FireTimerCatch
  <1>2. Grows(ex, x)
    BY JobFacts, SetOpen
  <1> HIDE DEF x
  <1>3. Prepared(x, jobs, <<>>) /\ j.ex \in DOMAIN x /\ j.node \in Nodes
    BY <1>2, JobFacts, PreparedGrows DEF Grows
  <1>4. Depart(j.ex, j.node) \in EventIn(x)
    BY <1>3, EventAppended
  <1>5. Sound
    BY <1>1, <1>3, <1>4, FiredSound
  <1> QED BY <1>1, <1>5, SoundFrame

\* An async continuation, or the async part after a node.
LEMMA RunAsyncSound ==
  ASSUME IInv, NEW j \in jobs, RunAsyncContinuation(j) \/ RunAsyncAfter(j)
  PROVE  Sound /\ IInv'
  <1>1. /\ ex' = ex /\ cmd' = j /\ jobs' = jobs
        /\ queue' = <<Resume(j.ex, j.node)>> \/ queue' = <<Depart(j.ex, j.node)>>
        /\ UNCHANGED <<tasks, joins>> /\ UNCHANGED <<collapsing, completed>>
    BY DEF RunAsyncContinuation, RunAsyncAfter
  <1>2. Resume(j.ex, j.node) \in EventIn(ex) /\ Depart(j.ex, j.node) \in EventIn(ex)
    BY JobFacts, EventAppended
  <1>3. Sound
    BY <1>1, <1>2, JobFacts, FiredSound
  <1> QED BY <1>1, <1>3, SoundFrame

\* An interrupting boundary timer.
LEMMA FireInterruptingBoundarySound ==
  ASSUME IInv, NEW j \in jobs, FireInterruptingBoundary(j)
  PROVE  Sound /\ IInv'
  <1> DEFINE h == Proc.host[j.node]
             dead == IF Kind(h) \in SubKinds THEN Below(ex, j.ex) ELSE {}
             x1 == Killed(ex, dead)
             x == [x1 EXCEPT ![j.ex].open = None]
             drop == DropBoundaries(Without(jobs, dead), h)
  <1>1. /\ ex' = x /\ queue' = <<Depart(j.ex, j.node)>> /\ cmd' = j
        /\ UNCHANGED <<collapsing, completed>>
    BY DEF FireInterruptingBoundary
  <1>2. tasks' \subseteq tasks /\ joins' \subseteq joins
    BY DropsOnly DEF FireInterruptingBoundary
  <1>3. jobs' \subseteq jobs
    <2>1. drop \subseteq jobs
      BY DropsOnly
    <2>2. \/ jobs' = DropContinuation(drop, j.ex, h)
          \/ jobs' = DropEventTimers(DropContinuation(drop, j.ex, h), j.ex, h)
      BY DEF FireInterruptingBoundary
    <2>3. DropContinuation(drop, j.ex, h) \subseteq drop
      BY DropsOnly
    <2> DEFINE cont == DropContinuation(drop, j.ex, h)
    <2> HIDE DEF drop, cont
    <2>4. DropEventTimers(cont, j.ex, h) \subseteq cont
      BY DropsOnly
    <2> QED BY <2>1, <2>2, <2>3, <2>4 DEF cont
  <1>4. Grows(ex, x1)
    BY JobFacts, KilledTree
  <1> HIDE DEF x1
  <1>5. Grows(x1, x)
    <2>1. Tree(x1)
      BY <1>4 DEF Grows
    <2> QED BY <2>1, SetOpen
  <1> HIDE DEF x
  <1>6. Grows(ex, x)
    BY <1>4, <1>5, GrowsTransitive
  <1>7. Prepared(x, jobs, <<>>)
    BY <1>6, JobFacts, PreparedGrows
  <1>8. Prepared(x, jobs', <<>>)
    BY <1>3, <1>7 DEF Prepared
  <1>9. j.ex \in DOMAIN x /\ j.node \in Nodes
    BY <1>6, JobFacts DEF Grows
  <1>10. Depart(j.ex, j.node) \in EventIn(x)
    BY <1>7, <1>9, EventAppended
  <1>11. Sound
    BY <1>1, <1>8, <1>10, FiredSound
  <1> QED BY <1>2, <1>11, SoundFrame

\* A non-interrupting boundary timer.
LEMMA FireNonInterruptingBoundarySound ==
  ASSUME IInv, NEW j \in jobs, FireNonInterruptingBoundary(j)
  PROVE  Sound /\ IInv'
  <1> DEFINE path == PathBeside(ex, j.ex)
             r == NewExecution(path, "TOKEN", None)
             x == Append(ex, r)
  <1>1. /\ ex' = x /\ queue' = <<Depart(Len(ex) + 1, j.node)>> /\ cmd' = j /\ jobs' = jobs
        /\ UNCHANGED <<tasks, joins>> /\ UNCHANGED <<collapsing, completed>>
    BY DEF FireNonInterruptingBoundary, PathBeside
  <1>2. path \in Seq(DOMAIN ex) /\ Chain(ex, path) /\ ex # <<>>
    BY JobFacts, BesideIn
  <1> HIDE DEF path
  <1>3. r \in ExecutionIn(ex) /\ r.path = path
    BY <1>2, NewExecutionIn DEF NewExecution
  <1> HIDE DEF r
  <1>4. Grows(ex, x) /\ Len(ex) + 1 \in DOMAIN x
    BY <1>2, <1>3, JobFacts, AppendTree
  <1> HIDE DEF x
  <1>5. Prepared(x, jobs, <<>>)
    BY <1>4, JobFacts, PreparedGrows
  <1>6. Depart(Len(ex) + 1, j.node) \in EventIn(x)
    BY <1>4, <1>5, JobFacts, EventAppended
  <1>7. Sound
    BY <1>1, <1>5, <1>6, FiredSound
  <1> QED BY <1>1, <1>7, SoundFrame

\* An interrupting event subprocess.
LEMMA FireInterruptingEventStartSound ==
  ASSUME IInv, NEW j \in jobs, FireInterruptingEventStart(j)
  PROVE  Sound /\ IInv'
  <1> DEFINE dead == Victims(ex, j.ex, j.scope)
             x == WithEventSubprocess(TakenOver(ex, j.ex, j.scope), j.ex, j.node)
             k == DropEventTimers(Without(jobs, dead), j.ex, j.scope) \cup EventTimers(Len(ex) + 1, Home(j.node))
  <1>1. /\ ex' = x /\ jobs' = k /\ queue' = <<Enter(Len(ex) + 2, j.node)>> /\ cmd' = j
        /\ UNCHANGED <<collapsing, completed>>
    BY DEF FireInterruptingEventStart
  <1>2. tasks' \subseteq tasks /\ joins' \subseteq joins
    BY DropsOnly, JoinsTakenOverIn DEF FireInterruptingEventStart
  <1>3. j.ex \in DOMAIN ex /\ j.node \in Nodes /\ Home(j.node) \in Nodes /\ ~completed
        /\ Prepared(ex, jobs, <<>>)
    BY JobFacts DEF FireInterruptingEventStart, Due
  <1>4. Prepared(x, k, <<>>) /\ Len(ex) + 2 \in DOMAIN x
    BY <1>3, TakeOver
  <1> HIDE DEF x, k
  <1>5. Enter(Len(ex) + 2, j.node) \in EventIn(x)
    BY <1>3, <1>4, EventAppended
  <1>6. Sound
    BY <1>1, <1>4, <1>5, FiredSound
  <1> QED BY <1>2, <1>6, SoundFrame

\* A non-interrupting event subprocess.
LEMMA FireNonInterruptingEventStartSound ==
  ASSUME IInv, NEW j \in jobs, FireNonInterruptingEventStart(j)
  PROVE  Sound /\ IInv'
  <1> DEFINE x == WithEventSubprocess(ex, j.ex, j.node)
             k == (jobs \ {j}) \cup EventTimers(Len(ex) + 1, Home(j.node))
  <1>1. /\ ex' = x /\ jobs' = k /\ queue' = <<Enter(Len(ex) + 2, j.node)>> /\ cmd' = j
        /\ UNCHANGED <<tasks, joins>> /\ UNCHANGED <<collapsing, completed>>
    BY DEF FireNonInterruptingEventStart
  <1>2. j.ex \in DOMAIN ex /\ j.node \in Nodes /\ Home(j.node) \in Nodes /\ ~completed /\ Tree(ex)
    BY JobFacts DEF FireNonInterruptingEventStart, Due
  <1>3. Grows(ex, x) /\ Len(ex) + 1 \in DOMAIN x /\ Len(ex) + 2 \in DOMAIN x
    BY <1>2, EventSubprocessTree
  <1> HIDE DEF x
  <1>4. Prepared(x, jobs, <<>>) /\ Tree(x)
    BY <1>3, JobFacts, PreparedGrows DEF Grows
  <1>5. EventTimers(Len(ex) + 1, Home(j.node)) \subseteq JobIn(x)
    BY <1>2, <1>3, <1>4, EventTimersIn
  <1>6. Prepared(x, k, <<>>)
    BY <1>2, <1>4, <1>5 DEF Prepared
  <1> HIDE DEF k
  <1>7. Enter(Len(ex) + 2, j.node) \in EventIn(x)
    BY <1>2, <1>3, <1>6, EventAppended
  <1>8. Sound
    BY <1>1, <1>6, <1>7, FiredSound
  <1> QED BY <1>1, <1>8, SoundFrame

\* The end of a command.
LEMMA ReturnSound == ASSUME IInv, Return PROVE Sound /\ IInv'
  <1>1. /\ ex' = ex /\ queue' = <<>> /\ cmd' = NoCmd /\ cmd # NoCmd
        /\ UNCHANGED <<tasks, joins>> /\ collapsing' = collapsing /\ completed' = completed
    BY DEF Return
  <1>2. Grows(ex, ex')
    BY <1>1, GrowsReflexive DEF IInv
  <1>3. jobs' \subseteq jobs \/ (~completed /\ jobs' = jobs \cup EventTimers(Root, Top))
    BY DropsOnly DEF Return
  <1>4. jobs' \subseteq JobIn(ex) /\ (completed => jobs' = {})
    <2>1. EventTimers(Root, Top) \subseteq JobIn(ex)
      BY <1>1, EventTimersIn DEF IInv
    <2>2. jobs \subseteq JobIn(ex) /\ (completed => jobs = {})
      BY DEF IInv
    <2> QED BY <1>3, <2>1, <2>2
  <1>5. completed' \in BOOLEAN /\ collapsing' \in BOOLEAN /\ (completed => completed') /\ (completed' => jobs' = {})
    BY <1>1, <1>4 DEF IInv
  <1>6. queue' \in Seq(EventIn(ex')) /\ cmd' \in Command
    BY <1>1 DEF Command
  <1>7. Sound
    BY <1>1, <1>2, <1>4, <1>5, <1>6 DEF Sound
  <1> QED BY <1>1, <1>7, SoundFrame

-----------------------------------------------------------------------------
\* The engine starts in the invariant ...
LEMMA InitInv == ASSUME Init PROVE IInv
  <1>1. Tree(<<>>)
    BY DEF Tree, Linked
  <1>2. queue \in Seq(EventIn(ex)) /\ cmd \in Command
    BY DEF Init, Command
  <1>3. IsFiniteSet(joins)
    BY FS_EmptySet DEF Init
  <1> QED BY <1>1, <1>2, <1>3 DEF Init, IInv

\* ... every step keeps it ...
LEMMA NextSound == ASSUME IInv, Next PROVE Sound /\ IInv'
  <1>1. ASSUME NEW j \in jobs, FireJob(j) PROVE Sound /\ IInv'
    BY <1>1, DropStaleJobSound, FireTimerCatchSound, RunAsyncSound, FireInterruptingBoundarySound,
       FireNonInterruptingBoundarySound, FireInterruptingEventStartSound,
       FireNonInterruptingEventStartSound
    DEF FireJob
  <1> QED
    BY <1>1, StartProcessSound, CompleteTaskSound, PumpSound, CollapseSound, ReturnSound DEF Next

\* ... and so does a step of something else.
LEMMA StutterInv == ASSUME IInv, UNCHANGED vars PROVE IInv'
  BY DEF IInv, vars, Tree, TaskIn, JobIn, EventIn, ExecutionIn

\* IInv holds in every reachable state of the engine.
THEOREM Invariant == Spec => []IInv
  <1>1. Init => IInv
    BY InitInv
  <1>2. IInv /\ [Next]_vars => IInv'
    BY NextSound, StutterInv
  <1> QED BY <1>1, <1>2, PTL DEF Spec

\* The invariant implies that the state is well typed.
LEMMA InvTypes == ASSUME IInv PROVE TypeOK
  <1>1. DOMAIN ex \subseteq Nat \ {0}
    BY TreeDomain DEF IInv
  <1>2. Seq(DOMAIN ex) \subseteq Seq(Nat \ {0})
    BY <1>1, SeqMonotonic
  <1>3. ExecutionIn(ex) \subseteq Execution
    BY <1>2 DEF ExecutionIn, Execution
  <1>4. ex \in Seq(Execution)
    BY <1>3, SeqMonotonic DEF IInv, Tree
  <1>5. tasks \subseteq Task
    BY <1>1 DEF IInv, TaskIn, Task
  <1>6. jobs \subseteq Job
    BY DEF IInv, JobIn
  <1>7. EventIn(ex) \subseteq Event
    BY <1>1 DEF EventIn, Event
  <1>8. queue \in Seq(Event)
    BY <1>7, SeqMonotonic DEF IInv
  <1> QED BY <1>4, <1>5, <1>6, <1>8 DEF TypeOK, IInv

\* Whatever the process definition, the engine's state is well typed: no
\* execution, task, job or event ever refers to an execution that does not exist.
THEOREM TypeCorrect == Spec => []TypeOK
  BY Invariant, InvTypes, PTL

\* Whatever the process definition, and whatever commands raise halfway: an
\* execution that ended never runs again, none moves in the tree, and a
\* completed instance stays completed and without jobs.
THEOREM EndedStaysEnded == Spec => EndedForever
  <1> DEFINE Kept == /\ \A e \in DOMAIN ex :
                         e \in DOMAIN ex' /\ ex'[e].path = ex[e].path /\ (ex'[e].live => ex[e].live)
                     /\ completed => completed' /\ jobs' = {}
  <1>1. IInv /\ [Next]_vars => [Kept]_vars
    <2>1. ASSUME Sound PROVE Kept
      BY <2>1 DEF Sound, Grows
    <2> QED BY <2>1, NextSound
  <1>2. [][Kept]_vars => EndedForever
    BY DEF EndedForever
  <1> HIDE DEF Kept
  <1> QED BY <1>1, <1>2, Invariant, PTL DEF Spec
=============================================================================
