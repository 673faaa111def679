---------------------------- MODULE Transactions ----------------------------
(***************************************************************************)
(* What the store promises about the commands of one process instance: the *)
(* state on disk is the one some command left at its end.  A job is all or *)
(* nothing; a user command that raises is not undone in memory, but it     *)
(* writes nothing.  A restart goes on with what is on disk.                *)
(***************************************************************************)
CONSTANTS
  Found(_),       \* an instance can be read back from this state on disk
  Restores(_, _)  \* the first state on disk is read back as the second

VARIABLES
  saved,    \* the instance on disk
  working,  \* the instance in memory
  busy      \* who works on it: "no" one, a "user" command, a "job", or its "undo"

tvars == <<saved, working, busy>>

\* There is no instance yet.
Init == ~Found(saved) /\ working = saved /\ busy = "no"

Begin ==
  /\ busy = "no"
  /\ busy' \in {"user", "job"}
  /\ UNCHANGED saved

\* A command does one step of its work, and nothing of it is on disk yet.
DoStep ==
  /\ busy # "no"
  /\ UNCHANGED <<saved, busy>>

\* It ends with what it did on disk; a signal is saved for each that heard it.
Commit ==
  /\ busy # "undo"
  /\ saved' = working'
  /\ busy' = "no" \/ (busy = "user" /\ busy' = "user")

\* A user command ends without a save, at once or later, and leaves the memory
\* ahead of the disk.
GiveUp ==
  /\ busy \in {"no", "user"}
  /\ busy' = "no"
  /\ UNCHANGED saved

\* A job raises, and is undone; what is not on disk has nothing to go back to.
Fail ==
  /\ busy = "job"
  /\ busy' = "undo"
  /\ UNCHANGED saved

Undo ==
  /\ busy = "undo"
  /\ busy' = "no"
  /\ saved' = working'
  /\ Found(saved) => Restores(saved, working')

\* What is not on disk is lost by a restart.
Restart ==
  /\ IF Found(saved) THEN Restores(saved, working') ELSE ~Found(working')
  /\ busy' = "no"
  /\ UNCHANGED saved

Next == Begin \/ DoStep \/ Commit \/ GiveUp \/ Fail \/ Undo \/ Restart

Spec == Init /\ [][Next]_tvars
=============================================================================
