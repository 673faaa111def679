------------------------------ MODULE JobLease ------------------------------
(***************************************************************************)
(* The lease on the rows of ACT_RU_JOB that job executors take through the *)
(* Store: acquire_due_jobs (a SELECT of candidates, one conditional UPDATE *)
(* per candidate, a SELECT of what was won), complete_job_cas,             *)
(* reschedule_job_cas and extend_lock.                                     *)
(*                                                                         *)
(* The three statements of acquire_due_jobs are steps of their own: other  *)
(* executors commit between them.  All updates of one acquisition commit   *)
(* together and take effect in one step.  What an executor does with a job *)
(* it won is not modelled here (see JobCluster): it may write back success *)
(* or failure, extend its lease, take any time, or crash.                  *)
(***************************************************************************)
EXTENDS Integers, FiniteSets

CONSTANTS
  Executors,     \* the lock owners
  Jobs,
  None,          \* no lock owner
  LeaseSeconds,  \* how long a lease is taken or extended
  BatchSize,     \* how many jobs one acquisition may take
  RetryDelay,    \* how far a failed job is put off
  MaxRetries,
  LastFault,     \* bound: no failure, extension or crash after this moment
  LastMoment     \* bound: the clock stops here

LeaseAssumption ==
  /\ None \notin Executors
  /\ LeaseSeconds \in Nat \ {0}
  /\ BatchSize \in Nat \ {0}
  /\ RetryDelay \in Nat
  /\ MaxRetries \in Nat
  /\ LastFault \in Nat
  /\ LastMoment \in Nat

ASSUME LeaseAssumption

VARIABLES
  now,    \* clock.now(), the same for every executor
  row,    \* the job table
  phase,  \* where each executor is in acquire_due_jobs
  asof,   \* due_before: the moment at which its acquisition began
  cands,  \* cand_ids
  held,   \* the jobs it won and has not written back
  until   \* lock_expire_time of each job it won, as it knows it

vars == <<now, row, phase, asof, cands, held, until>>

Row == [there: BOOLEAN, due: Nat, retries: Int, owner: Executors \cup {None}, exp: Nat]

TypeOK ==
  /\ now \in Nat
  /\ row \in [Jobs -> Row]
  /\ phase \in [Executors -> {"idle", "claim", "fetch", "work"}]
  /\ asof \in [Executors -> Nat]
  /\ cands \in [Executors -> SUBSET Jobs]
  /\ held \in [Executors -> SUBSET Jobs]
  /\ until \in [Executors -> [Jobs -> Nat]]

-----------------------------------------------------------------------------
(* The WHERE clauses.                                                      *)

\* Faulty variants of Free: the bound is off by one; a lease never expires.
FreeAtExpiry(r, t) == r.there /\ (r.owner = None \/ r.exp <= t)
FreeIfUnlocked(r, t) == r.there /\ r.owner = None

\* Nobody has a lease on the row, or it expired before t.
Free(r, t) == r.there /\ (r.owner = None \/ r.exp < t)

Due(t) == {j \in Jobs : Free(row[j], t) /\ row[j].due <= t /\ row[j].retries > 0}

\* Some executor's conditional write may touch the row.
Owned(w, j) == row[j].there /\ row[j].owner = w

-----------------------------------------------------------------------------
(* acquire_due_jobs                                                        *)

\* The candidates: the jobs due first, at most a batch of them.
SelectCandidates(w) ==
  /\ phase[w] = "idle"
  /\ \E S \in SUBSET Due(now) :
       /\ S # {}
       /\ Cardinality(S) <= BatchSize
       /\ Cardinality(S) = BatchSize \/ S = Due(now)
       /\ \A j \in S, k \in Due(now) \ S : row[j].due <= row[k].due
       /\ cands' = [cands EXCEPT ![w] = S]
  /\ asof' = [asof EXCEPT ![w] = now]
  /\ phase' = [phase EXCEPT ![w] = "claim"]
  /\ UNCHANGED <<now, row, held, until>>

\* Faulty variant of ClaimCandidates: owner and expiry swapped.
ClaimSwapped(w) ==
  /\ phase[w] = "claim"
  /\ row' = [j \in Jobs |->
               IF j \in cands[w] /\ Free(row[j], asof[w])
               THEN [row[j] EXCEPT !.exp = w, !.owner = asof[w] + LeaseSeconds]
               ELSE row[j]]
  /\ phase' = [phase EXCEPT ![w] = "fetch"]
  /\ UNCHANGED <<now, asof, cands, held, until>>

\* The conditional updates look at the lease again, not at duedate and retries.
ClaimCandidates(w) ==
  /\ phase[w] = "claim"
  /\ row' = [j \in Jobs |->
               IF j \in cands[w] /\ Free(row[j], asof[w])
               THEN [row[j] EXCEPT !.owner = w, !.exp = asof[w] + LeaseSeconds]
               ELSE row[j]]
  /\ phase' = [phase EXCEPT ![w] = "fetch"]
  /\ UNCHANGED <<now, asof, cands, held, until>>

FetchClaimed(w) ==
  /\ phase[w] = "fetch"
  /\ LET won == {j \in cands[w] : Owned(w, j) /\ row[j].exp > asof[w]} IN
       /\ held' = [held EXCEPT ![w] = won]
       /\ until' = [until EXCEPT ![w] =
                      [j \in Jobs |-> IF j \in won THEN row[j].exp ELSE @[j]]]
       /\ phase' = [phase EXCEPT ![w] = IF won = {} THEN "idle" ELSE "work"]
  /\ cands' = [cands EXCEPT ![w] = {}]
  /\ UNCHANGED <<now, row, asof>>

-----------------------------------------------------------------------------
(* What an executor writes back.  A write by one that lost the row to another *)
(* matches no row.                                                            *)

\* Executor w is through with job j, and idle after its last one.
Through(w, j) ==
  /\ held' = [held EXCEPT ![w] = @ \ {j}]
  /\ phase' = [phase EXCEPT ![w] = IF held[w] = {j} THEN "idle" ELSE @]
  /\ UNCHANGED <<now, asof, cands, until>>

\* Faulty variant of CompleteJob: the delete does not look at the owner.
CompleteUnfenced(w, j) ==
  /\ j \in held[w]
  /\ row' = [row EXCEPT ![j].there = FALSE]
  /\ Through(w, j)

CompleteJob(w, j) ==
  /\ j \in held[w]
  /\ row' = IF Owned(w, j) THEN [row EXCEPT ![j].there = FALSE] ELSE row
  /\ Through(w, j)

\* A failed job is put off and loses its lock.
RescheduleJob(w, j) ==
  /\ j \in held[w]
  /\ now <= LastFault
  /\ row' = IF Owned(w, j)
            THEN [row EXCEPT ![j].due = now + RetryDelay,
                             ![j].retries = row[j].retries - 1,
                             ![j].owner = None,
                             ![j].exp = 0]
            ELSE row
  /\ Through(w, j)

ExtendLock(w, j) ==
  /\ j \in held[w]
  /\ now <= LastFault
  /\ Owned(w, j)
  /\ row' = [row EXCEPT ![j].exp = now + LeaseSeconds]
  /\ until' = [until EXCEPT ![w][j] = now + LeaseSeconds]
  /\ UNCHANGED <<now, phase, asof, cands, held>>

\* A crash, or a shutdown: leases are not given back.
Crash(w) ==
  /\ phase[w] # "idle"
  /\ now <= LastFault
  /\ phase' = [phase EXCEPT ![w] = "idle"]
  /\ cands' = [cands EXCEPT ![w] = {}]
  /\ held' = [held EXCEPT ![w] = {}]
  /\ UNCHANGED <<now, row, asof, until>>

Tick ==
  /\ now < LastMoment
  /\ now' = now + 1
  /\ UNCHANGED <<row, phase, asof, cands, held, until>>

-----------------------------------------------------------------------------
Init ==
  /\ now = 1
  /\ row \in [Jobs -> [there: {TRUE}, due: {1, 2}, retries: {MaxRetries}, owner: {None}, exp: {0}]]
  /\ phase = [w \in Executors |-> "idle"]
  /\ asof = [w \in Executors |-> 0]
  /\ cands = [w \in Executors |-> {}]
  /\ held = [w \in Executors |-> {}]
  /\ until = [w \in Executors |-> [j \in Jobs |-> 0]]

Acquire(w) == SelectCandidates(w) \/ ClaimCandidates(w) \/ FetchClaimed(w)

WriteBack(w) == \E j \in Jobs : CompleteJob(w, j) \/ RescheduleJob(w, j)

Next ==
  \/ \E w \in Executors :
       \/ Acquire(w)
       \/ WriteBack(w)
       \/ \E j \in Jobs : ExtendLock(w, j)
       \/ Crash(w)
  \/ Tick

Spec == Init /\ [][Next]_vars

\* Time passes, and an executor that runs polls and gets through its jobs.
Fairness ==
  /\ WF_vars(Tick)
  /\ \A w \in Executors : WF_vars(Acquire(w)) /\ WF_vars(WriteBack(w))

LiveSpec == Spec /\ Fairness

-----------------------------------------------------------------------------
(* Properties.                                                             *)

\* One executor at a time works on a job under a lease that has not expired.
ExclusiveHold ==
  \A v, w \in Executors : \A j \in held[v] \cap held[w] :
    v # w => until[v][j] < now \/ until[w][j] < now

\* A row under a lease that has not expired changes only while its owner holds
\* the job: neither a late write-back nor another acquisition touches it.
LiveLeaseProtects ==
  [][\A j \in Jobs :
       row[j].there /\ row[j].owner # None /\ row[j].exp >= now /\ row'[j] # row[j]
       => j \in held[row[j].owner]]_vars

\* A job nobody gave up is taken over after a crash: every job is done in the
\* end or has used up its retries.
EveryJobSettles == \A j \in Jobs : <>(~row[j].there \/ row[j].retries <= 0)
=============================================================================
