---------------------------- MODULE MultiInstance ----------------------------
(***************************************************************************)
(* What a multi-instance activity promises, whatever runs inside it: each  *)
(* instance that is completed counts once; the loop is over as soon as all *)
(* instances are completed or the condition holds after one of them, and   *)
(* not before.  What still runs inside it then ends with it.  Otherwise a  *)
(* loop goes only with the scope around it, which is cancelled as a whole. *)
(***************************************************************************)
EXTENDS Naturals

\* "ends" stands for the completion condition: the numbers of completed and running
\* instances it holds for.
Loop == [sequential: BOOLEAN, total: Nat, completed: Nat, running: Nat,
         ends: SUBSET (Nat \X Nat)]

VARIABLES
  loops,  \* the loops that run, by the execution that counts for them
  around  \* the executions around each execution that runs

\* What runs inside e, e itself apart.
Inside(e) == {d \in DOMAIN around : e \in around[d]}

\* All that ran inside e has ended.
Cleared(e) == \A d \in Inside(e) : d \notin DOMAIN around'

\* These loops, and no others, run on.
Remaining(D) == [e \in D |-> loops[e]]

\* Loop l with one more instance completed, which ran until now.
Counted(l) == [l EXCEPT !.completed = @ + 1, !.running = @ - 1]

Enough(l) == l.completed = l.total \/ <<l.completed, l.running>> \in l.ends

-----------------------------------------------------------------------------
\* A loop is begun, on an activity that has something to do.
Begin(e, l) ==
  /\ l \in Loop
  /\ l.total > 0
  /\ l.completed = 0
  /\ l.running = IF l.sequential THEN 1 ELSE l.total
  /\ loops' = [d \in DOMAIN loops \cup {e} |-> IF d = e THEN l ELSE loops[d]]

\* One of its instances is completed and the loop goes on; one after the other means
\* that the next one takes its place.
InstanceOver(e) ==
  LET l == Counted(loops[e]) IN
  /\ ~Enough(l)
  /\ loops' = [loops EXCEPT ![e] = IF l.sequential THEN [l EXCEPT !.running = 1] ELSE l]

\* It was the last one that is needed: the loop is over, with all that runs inside it.
LastOver(e) ==
  /\ Enough(Counted(loops[e]))
  /\ Cleared(e)
  /\ loops' = Remaining(DOMAIN loops \ (Inside(e) \cup {e}))

\* Execution a goes on, and all that ran inside it is cancelled, the loops among it.
Interrupt(a) ==
  /\ a \in DOMAIN around'
  /\ Cleared(a)
  /\ loops' = Remaining(DOMAIN loops \ Inside(a))

\* An event subprocess takes the process over: it is all that runs in it, also when
\* the loop was that of the root.
TakeOver(a) ==
  /\ around[a] = {}
  /\ Cleared(a)
  /\ \E d \in DOMAIN around' : a \in around'[d]
  /\ loops' = Remaining({})

Init == loops = <<>> /\ around = <<>>

Next ==
  \/ \E e \in DOMAIN loops' \ DOMAIN loops : Begin(e, loops'[e])
  \/ \E e \in DOMAIN loops : InstanceOver(e) \/ LastOver(e)
  \/ \E a \in DOMAIN around : Interrupt(a) \/ TakeOver(a)

Spec == Init /\ [][Next]_loops

-----------------------------------------------------------------------------
\* A loop that runs has an instance to wait for and is not past its end: one at
\* a time, or all that are not completed yet.
Sound ==
  /\ loops \in [DOMAIN loops -> Loop]
  /\ \A e \in DOMAIN loops :
       LET l == loops[e] IN
       /\ l.completed < l.total
       /\ l.running = IF l.sequential THEN 1 ELSE l.total - l.completed
=============================================================================
