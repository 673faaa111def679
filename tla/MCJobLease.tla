----------------------------- MODULE MCJobLease -----------------------------
(* Two executors that compete for two jobs. *)
EXTENDS JobLease, TLC

CONSTANTS a, b, j, k

TwoExecutors == {a, b}
TwoJobs == {j, k}
=============================================================================
