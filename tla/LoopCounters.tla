----------------------------- MODULE LoopCounters -----------------------------
(***************************************************************************)
(* The counters of one multi-instance activity (Execution.mi), and when    *)
(* they say that the activity is over.                                     *)
(***************************************************************************)
EXTENDS Naturals

\* "ends" stands for the completion condition: the numbers of completed and
\* active instances it holds for.
Loop == [sequential: BOOLEAN, total: Nat, active: Nat, completed: Nat, next: Nat,
         ends: SUBSET (Nat \X Nat)]

\* A loop that is entered; the instances of a parallel one all start at once.
Entered(sequential, total, ends) ==
  [sequential |-> sequential, total |-> total, ends |-> ends, completed |-> 0,
   active |-> IF sequential THEN 1 ELSE total,
   next |-> IF sequential THEN 1 ELSE total]

\* Faulty variant of Done: one instance more is waited for.
DoneLate(c) == c.completed > c.total \/ <<c.completed, c.active>> \in c.ends

Done(c) == c.completed >= c.total \/ <<c.completed, c.active>> \in c.ends

\* Faulty variant of Fewer: the instance is still counted as active.
FewerLate(c, n) == c

\* n instances are active no more.
Fewer(c, n) == [c EXCEPT !.active = IF @ >= n THEN @ - n ELSE 0]

\* One instance is completed.
OneOver(c) == [Fewer(c, 1) EXCEPT !.completed = @ + 1]

\* A sequential loop goes on with its next instance.
NextStarted(c) == [c EXCEPT !.active = 1, !.next = @ + 1]

\* The condition holds while instances of a parallel loop are left to cancel.
Early(c) == c.completed < c.total /\ Done(c)
===============================================================================
