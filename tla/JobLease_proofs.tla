--------------------------- MODULE JobLease_proofs ---------------------------
(***************************************************************************)
(* For any executors, jobs and lease length: the rows and the executors    *)
(* keep their types, no job is held twice under leases that have not       *)
(* expired, and a lease that has not expired shields its row.              *)
(*                                                                         *)
(* ExclusiveHold is not inductive: what keeps two executors apart is that  *)
(* a live lease in an executor's memory is backed by the row, so that the  *)
(* conditional updates of the others do not match it.                      *)
(***************************************************************************)
EXTENDS JobLease, TLAPS

\* A lease an executor takes for live is the one in the row.
LeaseBacked ==
  \A w \in Executors : \A j \in held[w] :
    until[w][j] >= now =>
      /\ row[j].there
      /\ row[j].owner = w
      /\ row[j].exp = until[w][j]

\* No acquisition began in the future; only an executor at work holds jobs.
AcquiresNow == \A w \in Executors : asof[w] <= now
HoldsAtWork == \A w \in Executors : phase[w] # "work" => held[w] = {}

IInv == TypeOK /\ AcquiresNow /\ HoldsAtWork /\ LeaseBacked

-----------------------------------------------------------------------------
\* An executor that is through with a job holds no other than before.
LEMMA ThroughHolds ==
  ASSUME TypeOK, HoldsAtWork, NEW w \in Executors, NEW j \in held[w], Through(w, j)
  PROVE  /\ phase' \in [Executors -> {"idle", "claim", "fetch", "work"}]
         /\ held' \in [Executors -> SUBSET Jobs]
         /\ \A v \in Executors : held'[v] \subseteq held[v]
         /\ j \notin held'[w]
         /\ HoldsAtWork'
  BY DEF TypeOK, HoldsAtWork, Through

\* What the statements that update a row make of it is a row.
LEMMA RowUpdates ==
  ASSUME NEW r \in Row
  PROVE  /\ \A w \in Executors, t \in Nat : [r EXCEPT !.owner = w, !.exp = t] \in Row
         /\ [r EXCEPT !.there = FALSE] \in Row
         /\ \A n \in Int, t \in Nat :
              [r EXCEPT !.due = t, !.retries = n, !.owner = None, !.exp = 0] \in Row
         /\ \A t \in Nat : [r EXCEPT !.exp = t] \in Row
  <1>1. ASSUME NEW w \in Executors, NEW t \in Nat PROVE [r EXCEPT !.owner = w, !.exp = t] \in Row
    BY DEF Row
  <1>2. [r EXCEPT !.there = FALSE] \in Row
    BY DEF Row
  <1>3. ASSUME NEW n \in Int, NEW t \in Nat
        PROVE  [r EXCEPT !.due = t, !.retries = n, !.owner = None, !.exp = 0] \in Row
    BY DEF Row
  <1>4. ASSUME NEW t \in Nat PROVE [r EXCEPT !.exp = t] \in Row
    BY DEF Row
  <1> QED BY <1>1, <1>2, <1>3, <1>4

\* The invariant holds at the start.
LEMMA InitInv == ASSUME Init PROVE IInv
  <1>1. row \in [Jobs -> Row]
    <2> DEFINE first == [there: {TRUE}, due: {1, 2}, retries: {MaxRetries}, owner: {None}, exp: {0}]
    <2>1. ASSUME NEW r \in first PROVE r \in Row
      <3>1. r.there \in BOOLEAN
        OBVIOUS
      <3>2. r.due \in Nat /\ r.owner = None /\ r.exp \in Nat
        OBVIOUS
      <3>3. r.retries \in Int
        BY LeaseAssumption DEF LeaseAssumption
      <3>4. r = [there |-> r.there, due |-> r.due, retries |-> r.retries,
                 owner |-> r.owner, exp |-> r.exp]
        OBVIOUS
      <3> QED BY <3>1, <3>2, <3>3, <3>4 DEF Row
    <2>2. row \in [Jobs -> first]
      BY DEF Init
    <2> HIDE DEF first
    <2> QED BY <2>1, <2>2
  <1>2. TypeOK
    BY <1>1 DEF Init, TypeOK
  <1> QED
    BY <1>2 DEF Init, IInv, AcquiresNow, HoldsAtWork, LeaseBacked

-----------------------------------------------------------------------------
\* Every step keeps the invariant, whichever executor takes it.
LEMMA NextInv == ASSUME IInv, [Next]_vars PROVE IInv'
  <1> USE LeaseAssumption DEF LeaseAssumption, IInv
  <1>1. ASSUME NEW w \in Executors, SelectCandidates(w) PROVE IInv'
    <2>1. cands' \in [Executors -> SUBSET Jobs]
      BY <1>1 DEF SelectCandidates, TypeOK, Due
    <2>2. TypeOK'
      <3>1. asof' \in [Executors -> Nat] /\ UNCHANGED <<now, row, held, until>>
        BY <1>1 DEF SelectCandidates, TypeOK
      <3>2. phase' \in [Executors -> {"idle", "claim", "fetch", "work"}]
        BY <1>1 DEF SelectCandidates, TypeOK
      <3> QED BY <2>1, <3>1, <3>2 DEF TypeOK
    <2>3. AcquiresNow' /\ HoldsAtWork' /\ LeaseBacked'
      BY <1>1 DEF SelectCandidates, TypeOK, AcquiresNow, HoldsAtWork, LeaseBacked
    <2> QED BY <2>2, <2>3
  <1>2. ASSUME NEW w \in Executors, ClaimCandidates(w) PROVE IInv'
    <2>1. ASSUME NEW j \in Jobs
          PROVE  row'[j] = row[j] \/ (Free(row[j], asof[w]) /\ row'[j] \in Row)
      <3>1. row[j] \in Row /\ asof[w] + LeaseSeconds \in Nat
        BY DEF TypeOK
      <3>2. [row[j] EXCEPT !.owner = w, !.exp = asof[w] + LeaseSeconds] \in Row
        BY <3>1, RowUpdates
      <3> QED BY <1>2, <3>2 DEF ClaimCandidates
    <2>2. TypeOK'
      <3>1. row' \in [Jobs -> Row]
        BY <1>2, <2>1 DEF ClaimCandidates, TypeOK
      <3>2. phase' \in [Executors -> {"idle", "claim", "fetch", "work"}]
        BY <1>2 DEF ClaimCandidates, TypeOK
      <3> QED BY <1>2, <3>1, <3>2 DEF ClaimCandidates, TypeOK
    <2>3. AcquiresNow' /\ HoldsAtWork'
      BY <1>2 DEF ClaimCandidates, TypeOK, AcquiresNow, HoldsAtWork
    <2>4. ASSUME NEW v \in Executors, NEW j \in held[v], until[v][j] >= now
          PROVE  row'[j] = row[j]
      <3>1. j \in Jobs /\ row[j].owner = v /\ row[j].exp >= now
        BY <2>4 DEF TypeOK, LeaseBacked
      <3>2. ~Free(row[j], asof[w])
        BY <3>1 DEF Free, AcquiresNow, TypeOK, Row
      <3> QED BY <2>1, <3>1, <3>2
    <2>5. UNCHANGED <<now, held, until>>
      BY <1>2 DEF ClaimCandidates
    <2>6. LeaseBacked'
      BY <2>4, <2>5 DEF LeaseBacked
    <2> QED BY <2>2, <2>3, <2>6
  <1>3. ASSUME NEW w \in Executors, FetchClaimed(w) PROVE IInv'
    <2> DEFINE won == {j \in cands[w] : Owned(w, j) /\ row[j].exp > asof[w]}
    <2>1. won \subseteq Jobs
      BY DEF TypeOK
    <2>2. /\ held' = [held EXCEPT ![w] = won]
          /\ until' = [until EXCEPT ![w] =
                         [j \in Jobs |-> IF j \in won THEN row[j].exp ELSE until[w][j]]]
          /\ phase' = [phase EXCEPT ![w] = IF won = {} THEN "idle" ELSE "work"]
          /\ cands' = [cands EXCEPT ![w] = {}]
          /\ UNCHANGED <<now, row, asof>>
      BY <1>3 DEF FetchClaimed, TypeOK
    <2>3. until' \in [Executors -> [Jobs -> Nat]]
      BY <2>2 DEF TypeOK, Row
    <2>4. TypeOK'
      <3>1. held' \in [Executors -> SUBSET Jobs] /\ cands' \in [Executors -> SUBSET Jobs]
        BY <2>1, <2>2 DEF TypeOK
      <3>2. phase' \in [Executors -> {"idle", "claim", "fetch", "work"}]
        BY <2>2 DEF TypeOK
      <3> QED BY <2>2, <2>3, <3>1, <3>2 DEF TypeOK
    <2>5. AcquiresNow' /\ HoldsAtWork'
      BY <2>2 DEF TypeOK, AcquiresNow, HoldsAtWork
    <2>6. \A j \in won : until'[w][j] = row[j].exp /\ row[j].there /\ row[j].owner = w
      BY <2>1, <2>2 DEF TypeOK, Owned
    <2>7. \A v \in Executors \ {w} : held'[v] = held[v] /\ until'[v] = until[v]
      BY <2>2 DEF TypeOK
    <2>8. held'[w] = won /\ UNCHANGED <<now, row>>
      BY <2>2 DEF TypeOK
    <2>9. LeaseBacked'
      <3> HIDE DEF won
      <3> QED BY <2>6, <2>7, <2>8 DEF LeaseBacked
    <2> QED BY <2>4, <2>5, <2>9
  <1>4. ASSUME NEW w \in Executors, NEW j \in Jobs, CompleteJob(w, j) \/ RescheduleJob(w, j)
        PROVE  IInv'
    <2>1. j \in held[w] /\ Through(w, j)
      BY <1>4 DEF CompleteJob, RescheduleJob
    <2>2. /\ phase' \in [Executors -> {"idle", "claim", "fetch", "work"}]
          /\ held' \in [Executors -> SUBSET Jobs]
          /\ \A v \in Executors : held'[v] \subseteq held[v]
          /\ j \notin held'[w]
          /\ HoldsAtWork'
      BY <2>1, ThroughHolds
    <2>3. row' \in [Jobs -> Row] /\ \A i \in Jobs : row'[i] = row[i] \/ (i = j /\ Owned(w, j))
      <3> DEFINE off == [row[j] EXCEPT !.due = now + RetryDelay,
                                       !.retries = row[j].retries - 1,
                                       !.owner = None,
                                       !.exp = 0]
      <3>1. /\ row \in [Jobs -> Row]
            /\ now + RetryDelay \in Nat
            /\ row[j].retries - 1 \in Int
        BY DEF TypeOK, Row
      <3>2. [row[j] EXCEPT !.there = FALSE] \in Row /\ off \in Row
        BY <3>1, RowUpdates
      <3>3. CASE CompleteJob(w, j)
        BY <3>1, <3>2, <3>3 DEF CompleteJob
      <3>4. CASE RescheduleJob(w, j)
        <4>1. row' = IF Owned(w, j) THEN [row EXCEPT ![j] = off] ELSE row
          BY <3>1, <3>4 DEF RescheduleJob
        <4> HIDE DEF off
        <4> QED BY <3>1, <3>2, <4>1
      <3> QED BY <1>4, <3>3, <3>4
    <2>4. TypeOK' /\ AcquiresNow'
      <3>1. UNCHANGED <<now, asof, cands, until>>
        BY <2>1 DEF Through
      <3> QED BY <2>2, <2>3, <3>1 DEF TypeOK, AcquiresNow
    <2>5. LeaseBacked'
      BY <2>1, <2>2, <2>3 DEF Through, TypeOK, LeaseBacked, Owned
    <2> QED BY <2>2, <2>4, <2>5
  <1>5. ASSUME NEW w \in Executors, NEW j \in Jobs, ExtendLock(w, j) PROVE IInv'
    <2>1. TypeOK'
      <3>1. row' \in [Jobs -> Row]
        <4>1. row \in [Jobs -> Row] /\ now + LeaseSeconds \in Nat
          BY DEF TypeOK
        <4>2. [row[j] EXCEPT !.exp = now + LeaseSeconds] \in Row
          BY <4>1, RowUpdates
        <4> QED BY <1>5, <4>1, <4>2 DEF ExtendLock
      <3>2. until' \in [Executors -> [Jobs -> Nat]]
        BY <1>5 DEF ExtendLock, TypeOK
      <3> QED BY <1>5, <3>1, <3>2 DEF ExtendLock, TypeOK
    <2>2. AcquiresNow' /\ HoldsAtWork'
      BY <1>5 DEF ExtendLock, AcquiresNow, HoldsAtWork
    <2>3. LeaseBacked'
      BY <1>5 DEF ExtendLock, Owned, TypeOK, Row, LeaseBacked
    <2> QED BY <2>1, <2>2, <2>3
  <1>6. ASSUME NEW w \in Executors, Crash(w) PROVE IInv'
    BY <1>6 DEF Crash, TypeOK, AcquiresNow, HoldsAtWork, LeaseBacked
  <1>7. ASSUME Tick PROVE IInv'
    BY <1>7 DEF Tick, TypeOK, AcquiresNow, HoldsAtWork, LeaseBacked
  <1>8. CASE UNCHANGED vars
    BY <1>8 DEF vars, TypeOK, AcquiresNow, HoldsAtWork, LeaseBacked
  <1> QED
    BY <1>1, <1>2, <1>3, <1>4, <1>5, <1>6, <1>7, <1>8 DEF Next, Acquire, WriteBack

-----------------------------------------------------------------------------
\* The job table, the leases and the executors' memories keep their types.
THEOREM TypeCorrect == Spec => []TypeOK
  <1>1. Init => IInv
    BY InitInv
  <1>2. IInv /\ [Next]_vars => IInv'
    BY NextInv
  <1>3. IInv => TypeOK
    BY DEF IInv
  <1> QED BY <1>1, <1>2, <1>3, PTL DEF Spec

\* Of two executors that hold one job, one has let its lease expire.
THEOREM Exclusive == Spec => []ExclusiveHold
  <1>1. Init => IInv
    BY InitInv
  <1>2. IInv /\ [Next]_vars => IInv'
    BY NextInv
  <1>3. IInv => ExclusiveHold
    BY DEF IInv, LeaseBacked, ExclusiveHold, TypeOK
  <1> QED BY <1>1, <1>2, <1>3, PTL DEF Spec

\* The part of LiveLeaseProtects one step is about.
Protects ==
  \A j \in Jobs :
    row[j].there /\ row[j].owner # None /\ row[j].exp >= now /\ row'[j] # row[j]
    => j \in held[row[j].owner]

\* A step that changes a row under a live lease is its owner's.
LEMMA StepProtects == ASSUME IInv, [Next]_vars PROVE Protects
  <1> USE LeaseAssumption DEF LeaseAssumption, IInv
  <1>1. ASSUME NEW w \in Executors, ClaimCandidates(w) PROVE Protects
    <2>1. \A j \in Jobs : row'[j] = row[j] \/ Free(row[j], asof[w])
      BY <1>1 DEF ClaimCandidates, TypeOK
    <2> QED BY <2>1 DEF Protects, Free, AcquiresNow, TypeOK, Row
  <1>2. ASSUME NEW w \in Executors, NEW j \in Jobs,
               CompleteJob(w, j) \/ RescheduleJob(w, j) \/ ExtendLock(w, j)
        PROVE  Protects
    <2>1. j \in held[w] /\ \A i \in Jobs : row'[i] = row[i] \/ (i = j /\ Owned(w, j))
      BY <1>2 DEF CompleteJob, RescheduleJob, ExtendLock, TypeOK
    <2> QED BY <2>1 DEF Protects, Owned
  <1>3. CASE row' = row
    BY <1>3 DEF Protects
  <1>4. ASSUME NEW w \in Executors, SelectCandidates(w) \/ FetchClaimed(w) \/ Crash(w) PROVE row' = row
    BY <1>4 DEF SelectCandidates, FetchClaimed, Crash
  <1>5. Tick \/ UNCHANGED vars => row' = row
    BY DEF Tick, vars
  <1> QED
    BY <1>1, <1>2, <1>3, <1>4, <1>5 DEF Next, Acquire, WriteBack

\* A live lease shields its row from late write-backs and other acquisitions.
THEOREM LeaseProtects == Spec => LiveLeaseProtects
  <1>1. Init => IInv
    BY InitInv
  <1>2. IInv /\ [Next]_vars => IInv'
    BY NextInv
  <1>3. IInv /\ [Next]_vars => [Protects]_vars
    BY StepProtects
  <1> QED BY <1>1, <1>2, <1>3, PTL DEF Spec, LiveLeaseProtects, Protects
=============================================================================
