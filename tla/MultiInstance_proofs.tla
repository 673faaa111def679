------------------------- MODULE MultiInstance_proofs -------------------------
(* Proofs about what a multi-instance activity promises, for any number of   *)
(* loops, instances, and any condition.                                     *)
EXTENDS MultiInstance, TLAPS

\* What Sound says of one loop.
Right(l) ==
  /\ l \in Loop
  /\ l.completed < l.total
  /\ l.running = IF l.sequential THEN 1 ELSE l.total - l.completed

\* A loop that has just begun is right (_enter_multi_instance).
LEMMA BegunRight ==
  ASSUME NEW l \in Loop, l.total > 0, l.completed = 0,
         l.running = IF l.sequential THEN 1 ELSE l.total
  PROVE  Right(l)
  <1>1. l.total \in Nat /\ l.sequential \in BOOLEAN
    BY DEF Loop
  <1> QED BY <1>1 DEF Right

\* An instance of a loop that goes on leaves it right (_complete_mi_instance).
LEMMA CountedRight ==
  ASSUME NEW l, Right(l), ~Enough(Counted(l))
  PROVE  Right(IF Counted(l).sequential THEN [Counted(l) EXCEPT !.running = 1] ELSE Counted(l))
  <1>1. /\ l \in Loop /\ l.sequential \in BOOLEAN /\ l.total \in Nat /\ l.completed \in Nat
        /\ l.running \in Nat /\ l.completed < l.total
    BY DEF Right, Loop
  <1>2. l.running >= 1
    BY <1>1 DEF Right
  <1>3. PICK k \in Nat, r \in Nat : k = l.completed + 1 /\ r = l.running - 1
    BY <1>1, <1>2
  <1> DEFINE c == [l EXCEPT !.completed = k, !.running = r]
  <1>4. Counted(l) = c
    BY <1>1, <1>3 DEF Counted, Loop
  <1>5. /\ c \in Loop /\ c.completed = k /\ c.running = r
        /\ c.total = l.total /\ c.sequential = l.sequential
    BY <1>1 DEF Loop
  <1> HIDE DEF c
  <1>6. c.completed < c.total
    BY <1>1, <1>3, <1>4, <1>5 DEF Enough
  <1>7. CASE c.sequential
    <2> DEFINE d == [c EXCEPT !.running = 1]
    <2>1. d \in Loop /\ d.completed = c.completed /\ d.total = c.total /\ d.running = 1
          /\ d.sequential = c.sequential
      BY <1>5 DEF Loop
    <2> HIDE DEF d
    <2>2. Right(d)
      BY <1>6, <1>7, <2>1 DEF Right
    <2> QED BY <1>4, <1>7, <2>2 DEF d
  <1>8. CASE ~c.sequential
    <2>1. c.running = c.total - c.completed
      BY <1>1, <1>3, <1>5, <1>8 DEF Right
    <2> QED BY <1>4, <1>5, <1>6, <1>8, <2>1 DEF Right
  <1> QED BY <1>7, <1>8

\* Sound, loop by loop.
LEMMA SoundIsRight ==
  Sound <=> /\ loops = [e \in DOMAIN loops |-> loops[e]]
            /\ \A e \in DOMAIN loops : Right(loops[e])
  <1>1. ASSUME Sound
        PROVE  /\ loops = [e \in DOMAIN loops |-> loops[e]]
               /\ \A e \in DOMAIN loops : Right(loops[e])
    <2>1. loops \in [DOMAIN loops -> Loop]
      BY <1>1 DEF Sound
    <2>2. \A e \in DOMAIN loops : loops[e] \in Loop
      BY <2>1
    <2>3. loops = [e \in DOMAIN loops |-> loops[e]]
      BY <2>1
    <2> QED BY <1>1, <2>2, <2>3 DEF Sound, Right
  <1>2. ASSUME loops = [e \in DOMAIN loops |-> loops[e]],
               \A e \in DOMAIN loops : Right(loops[e])
        PROVE  Sound
    <2>1. \A e \in DOMAIN loops : loops[e] \in Loop
      BY <1>2 DEF Right
    <2>2. loops \in [DOMAIN loops -> Loop]
      BY <1>2, <2>1
    <2> QED BY <1>2, <2>2 DEF Sound, Right
  <1> QED BY <1>1, <1>2

\* The loops that run on after others end are those they were.
LEMMA RemainingSound ==
  ASSUME Sound, NEW D \in SUBSET DOMAIN loops, loops' = Remaining(D)
  PROVE  Sound'
  <1>1. /\ DOMAIN loops' = D
        /\ loops' = [e \in DOMAIN loops' |-> loops'[e]]
        /\ \A e \in D : loops'[e] = loops[e]
    BY DEF Remaining
  <1>2. \A e \in DOMAIN loops : Right(loops[e])
    BY SoundIsRight
  <1>3. \A e \in DOMAIN loops' : Right(loops'[e])
    BY <1>1, <1>2
  <1>4. loops' \in [DOMAIN loops' -> Loop]
    <2>1. \A e \in DOMAIN loops' : loops'[e] \in Loop
      BY <1>3 DEF Right
    <2> QED BY <1>1, <2>1
  <1> QED BY <1>3, <1>4 DEF Sound, Right

LEMMA InitSound == Init => Sound
BY DEF Init, Sound

\* Every step keeps the counters sound.
LEMMA NextSound == Sound /\ [Next]_loops => Sound'
  <1> SUFFICES ASSUME Sound, [Next]_loops PROVE Sound'
    OBVIOUS
  <1>0. /\ loops = [e \in DOMAIN loops |-> loops[e]]
        /\ \A e \in DOMAIN loops : Right(loops[e])
    BY SoundIsRight
  <1>1. ASSUME NEW e \in DOMAIN loops' \ DOMAIN loops, Begin(e, loops'[e])
        PROVE  Sound'
    <2> DEFINE l == loops'[e]
    <2>1. Right(l)
      BY <1>1, BegunRight DEF Begin
    <2>2. loops' = [d \in DOMAIN loops \cup {e} |-> IF d = e THEN l ELSE loops[d]]
      BY <1>1 DEF Begin
    <2>3. DOMAIN loops' = DOMAIN loops \cup {e}
      BY <2>2
    <2> HIDE DEF l
    <2>4. \A d \in DOMAIN loops' : Right(loops'[d])
      BY <2>1, <2>2, <2>3, <1>0
    <2>5. loops' \in [DOMAIN loops' -> Loop]
      <3>1. \A d \in DOMAIN loops' : loops'[d] \in Loop
        BY <2>4 DEF Right
      <3> QED BY <3>1, <2>2, <2>3
    <2> QED BY <2>4, <2>5 DEF Sound, Right
  <1>2. ASSUME NEW e \in DOMAIN loops, InstanceOver(e)
        PROVE  Sound'
    <2> DEFINE c == Counted(loops[e])
               l == IF c.sequential THEN [c EXCEPT !.running = 1] ELSE c
    <2>1. Right(l)
      BY <1>0, <1>2, CountedRight DEF InstanceOver
    <2>2. loops' = [loops EXCEPT ![e] = l]
      BY <1>2 DEF InstanceOver
    <2> HIDE DEF c, l
    <2>3. DOMAIN loops' = DOMAIN loops
      BY <2>2
    <2>4. \A d \in DOMAIN loops' : Right(loops'[d])
      BY <2>1, <2>2, <2>3, <1>0
    <2>5. loops' \in [DOMAIN loops' -> Loop]
      <3>1. \A d \in DOMAIN loops' : loops'[d] \in Loop
        BY <2>4 DEF Right
      <3>2. loops' = [d \in DOMAIN loops |-> IF d = e THEN l ELSE loops[d]]
        BY <2>2, <1>0
      <3> QED BY <3>1, <3>2, <2>3
    <2> QED BY <2>4, <2>5 DEF Sound, Right
  <1>3. ASSUME NEW e \in DOMAIN loops, LastOver(e)
        PROVE  Sound'
    BY <1>3, RemainingSound DEF LastOver
  <1>4. ASSUME NEW a \in DOMAIN around, Interrupt(a) \/ TakeOver(a)
        PROVE  Sound'
    BY <1>4, RemainingSound DEF Interrupt, TakeOver
  <1>5. ASSUME UNCHANGED loops
        PROVE  Sound'
    BY <1>5 DEF Sound
  <1> QED BY <1>1, <1>2, <1>3, <1>4, <1>5 DEF Next

\* A loop that runs has as many instances running as are not completed yet, or one if
\* they come one after the other, and never none: it is neither stuck nor past its end.
THEOREM LoopsAreSound == Spec => []Sound
  <1>1. Init => Sound
    BY InitSound
  <1>2. Sound /\ [Next]_loops => Sound'
    BY NextSound
  <1> QED BY <1>1, <1>2, PTL DEF Spec
===============================================================================
