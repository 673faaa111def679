---------------------------- MODULE MCJobCluster ----------------------------
(* One or two engines on one store, with the jobs of one instance. *)
EXTENDS JobCluster, TLC

OneInstance == [j \in Jobs |-> CHOOSE i \in Instances : TRUE]

\* User commands beside the executor, or failures and a restart.
UsersOrFaults ==
  {[commands |-> 2, failures |-> 0, restarts |-> 0],
   [commands |-> 0, failures |-> 2, restarts |-> 1]}
Undisturbed == {[commands |-> 0, failures |-> 0, restarts |-> 0]}
=============================================================================
