----------------------------- MODULE MCJobQueue -----------------------------
(* Deployments on which JobQueue is checked. *)
EXTENDS JobQueue, TLC

CONSTANTS s, t, u, w

Plan(kind, period, count) ==
  [kind |-> kind, period |-> period, count |-> count, valid |-> TRUE]

Cycle(period, count) == Plan("cycle", period, count)

\* A cycle of two turns; a cron beside a single shot whose instances wait for two
\* timers; a cycle beside a timer that cannot be read; a start without a timer,
\* where the other versions have one, beside an endless cycle.
Versions ==
  {s :> Cycle(1, 2), (s :> Plan("cron", 2, 0)) @@ (t :> Cycle(1, 1)),
   (s :> Cycle(1, 2)) @@ (t :> [Cycle(1, 1) EXCEPT !.valid = FALSE]),
   (s :> Plan("none", 1, 0)) @@ (t :> Cycle(2, 0))}

TwoTimers == (s :> {}) @@ (t :> {u, w})
=============================================================================
