------------------------- MODULE EventEngine_proofs -------------------------
(***************************************************************************)
(* For every process definition, every list of its events, and any         *)
(* commands: the token engine stays well typed when its handlers also      *)
(* listen, throw, and hear in the middle of one another, and what ended    *)
(* stays ended.                                                            *)
(*                                                                         *)
(* A suspended throw keeps events and subscriptions in hand while what it  *)
(* set off changes the tree.  EInv says that these, and the table, refer   *)
(* to executions that exist, and that there is a last place in the order   *)
(* of registration: a new subscription comes behind all that are known.    *)
(* The steps taken over from TokenEngine keep IInv as they did there; a    *)
(* step that fires a subscription is prepared like the job it resembles.   *)
(***************************************************************************)
EXTENDS EventEngine, TokenEngine_proofs, WellFoundedInduction

\* A subscription or a suspended call of a tree x, no subscription behind place b.
SubIn(x, b) == {s \in Subscription : /\ s.ex \in DOMAIN x
                                     /\ s.at <= b
                                     /\ Kind(s.node) = "eventStart" => Home(s.node) \in Nodes}
CallIn(x, b) == {c \in Call : /\ c.rest \in Seq(EventIn(x))
                              /\ c.hits \subseteq SubIn(x, b)
                              /\ c.tok # 0 => c.tok \in DOMAIN x /\ c.node \in Nodes}

EventsIn(x, b, s, c) == s \subseteq SubIn(x, b) /\ c \in Seq(CallIn(x, b))

EInv == IInv /\ \E b \in Nat : EventsIn(ex, b, subs, calls)

\* What a step leaves of the listeners.
Registers == \E b \in Nat : EventsIn(ex', b, subs', calls')

-----------------------------------------------------------------------------
(* The order of registration.                                              *)

\* A set of numbers has a least one, if it has any.
LEMMA Least ==
  ASSUME NEW S \in SUBSET Nat, S # {}
  PROVE  \E m \in S : \A k \in S : m <= k
  <1> DEFINE Less == {p \in Nat \X Nat : p[1] < p[2]}
  <1>1. IsWellFoundedOn(Less, Nat)
    <2>1. OpToRel(<, Nat) = Less
      BY DEF OpToRel
    <2> QED BY <2>1, NatLessThanWellFounded
  <1>2. PICK m \in S : \A k \in S : ~(<<k, m>> \in Less)
    BY <1>1, WFMin
  <1>3. ASSUME NEW k \in S PROVE m <= k
    <2>1. ~(k < m)
      BY <1>2
    <2> QED BY <2>1
  <1> QED BY <1>3

\* A set of numbers with an upper bound has a greatest one, if it has any.
LEMMA Greatest ==
  ASSUME NEW S \in SUBSET Nat, S # {}, NEW b \in Nat, \A a \in S : a <= b
  PROVE  \E m \in S : \A a \in S : a <= m
  <1> DEFINE B == {k \in Nat : \A a \in S : a <= k}
  <1>1. PICK m \in B : \A k \in B : m <= k
    BY Least
  <1>2. CASE m \in S
    BY <1>1, <1>2
  <1>3. CASE m \notin S
    <2>1. \A a \in S : a < m
      BY <1>1, <1>3
    <2>2. m # 0
      <3>1. PICK a \in S : TRUE
        OBVIOUS
      <3>2. a \in Nat /\ a < m
        BY <2>1, <3>1
      <3> QED BY <3>2
    <2>3. m - 1 \in Nat /\ \A a \in S : a <= m - 1
      BY <2>1, <2>2
    <2> QED BY <1>1, <2>3
  <1> QED BY <1>2, <1>3

\* What is well typed in a tree stays so when the tree grows and more is registered.
LEMMA EventsMonotone ==
  ASSUME NEW x, NEW y, DOMAIN x \subseteq DOMAIN y, NEW a \in Nat, NEW b \in Nat, a <= b
  PROVE  /\ SubIn(x, a) \subseteq SubIn(y, b)
         /\ \A c \in Seq(CallIn(x, a)) : c \in Seq(CallIn(y, b))
         /\ \A s, c : EventsIn(x, a, s, c) => EventsIn(y, b, s, c)
  <1>1. SubIn(x, a) \subseteq SubIn(y, b)
    BY DEF SubIn, Subscription
  <1>2. \A q \in Seq(EventIn(x)) : q \in Seq(EventIn(y))
    BY InMonotone
  <1>3. CallIn(x, a) \subseteq CallIn(y, b)
    BY <1>1, <1>2 DEF CallIn
  <1>4. \A c \in Seq(CallIn(x, a)) : c \in Seq(CallIn(y, b))
    BY <1>3, SeqMonotonic
  <1> QED BY <1>1, <1>4 DEF EventsIn

\* The subscriptions that are known have a latest.
LEMMA LatestBounds ==
  ASSUME NEW x, NEW b \in Nat, NEW s, EventsIn(x, b, s, calls)
  PROVE  /\ Latest(s) \in Nat /\ Latest(s) <= b
         /\ \A r \in Known(s) : r.at \in Nat /\ r.at <= Latest(s)
  <1> DEFINE S == {0} \cup {r.at : r \in Known(s)}
  <1>1. ASSUME NEW r \in SubIn(x, b) PROVE r.at \in Nat /\ r.at <= b
    BY DEF SubIn, Subscription
  <1>2. ASSUME NEW k \in DOMAIN calls PROVE calls[k].hits \subseteq SubIn(x, b)
    <2>1. calls[k] \in CallIn(x, b)
      BY ElementOfSeq, LenProperties DEF EventsIn
    <2> QED BY <2>1 DEF CallIn
  <1>3. Known(s) \subseteq SubIn(x, b)
    BY <1>2 DEF Known, EventsIn
  <1>4. S \in SUBSET Nat /\ S # {} /\ \A a \in S : a <= b
    BY <1>1, <1>3
  <1>5. \E m \in S : \A a \in S : a <= m
    BY <1>4, Greatest
  <1>6. PICK m \in S : \A r \in Known(s) : r.at <= m
    BY <1>5
  <1>7. Latest(s) \in S /\ \A r \in Known(s) : r.at <= Latest(s)
    BY <1>6 DEF Latest
  <1> QED BY <1>1, <1>3, <1>4, <1>7

\* A new subscription is well typed, and comes behind all that are known.
LEMMA SubscribedIn ==
  ASSUME NEW x, Tree(x), NEW b \in Nat, NEW s, EventsIn(x, b, s, calls),
         NEW e \in DOMAIN x, NEW c \in Nodes \cup {Top, None},
         NEW ns, \A n \in ns : Kind(n) = "eventStart" => Home(n) \in Nodes
  PROVE  EventsIn(x, b + Len(Events), Subscribed(s, e, ns, c), calls)
  <1> DEFINE last == Latest(s)
             new(i) == [node |-> Events[i].node, ex |-> e, scope |-> c, at |-> last + i]
             B == b + Len(Events)
  <1>1. Events \in Seq([node: Nodes, kind: {"message", "signal"}, name: STRING])
    BY EventAssumption DEF EventAssumption
  <1>2. Len(Events) \in Nat /\ DOMAIN Events = 1..Len(Events)
    BY <1>1, LenProperties
  <1>3. last \in Nat /\ last <= b
    BY LatestBounds
  <1>4. B \in Nat /\ b <= B
    BY <1>2
  <1> HIDE DEF last, B
  <1>5. ASSUME NEW i \in DOMAIN Events, Events[i].node \in ns PROVE new(i) \in SubIn(x, B)
    <2> DEFINE n == Events[i].node
               r == new(i)
    <2>1. n \in Nodes /\ (Kind(n) = "eventStart" => Home(n) \in Nodes)
      <3>1. Events[i] \in [node: Nodes, kind: {"message", "signal"}, name: STRING]
        BY <1>1, <1>2, ElementOfSeq
      <3>2. Events[i].node \in Nodes
        BY <3>1
      <3> QED BY <1>5, <3>2
    <2>2. e \in Nat
      BY TreeDomain
    <2>3. last + i \in Nat /\ last + i <= B
      BY <1>2, <1>3 DEF B
    <2>4. r.node = n /\ r.ex = e /\ r.at = last + i
      OBVIOUS
    <2>5. r \in Subscription
      BY <2>1, <2>2, <2>3 DEF Subscription
    <2> HIDE DEF r
    <2>6. r \in SubIn(x, B)
      BY <2>1, <2>3, <2>4, <2>5 DEF SubIn
    <2> QED BY <2>6 DEF r
  <1>6. EventsIn(x, B, s, calls)
    BY <1>4, EventsMonotone
  <1>7. Subscribed(s, e, ns, c) = s \cup {new(i) : i \in {k \in DOMAIN Events : Events[k].node \in ns}}
    BY DEF Subscribed, last
  <1> HIDE DEF new
  <1>8. Subscribed(s, e, ns, c) \subseteq SubIn(x, B)
    BY <1>5, <1>6, <1>7 DEF EventsIn
  <1> QED BY <1>6, <1>8 DEF EventsIn, B

\* So is what a host and a scope register.
LEMMA WithSubsIn ==
  ASSUME NEW x, Tree(x), NEW b \in Nat, NEW s, EventsIn(x, b, s, calls),
         NEW e \in DOMAIN x, NEW h, NEW c \in Nodes \cup {Top, None}
  PROVE  /\ EventsIn(x, b + Len(Events), WithBoundarySubs(s, e, h), calls)
         /\ EventsIn(x, b + Len(Events), WithStartSubs(s, e, c), calls)
         /\ b + Len(Events) \in Nat
  <1>1. b + Len(Events) \in Nat
    BY EventAssumption, LenProperties DEF EventAssumption
  <1>2. \A n \in {k \in Attached(h) : Kind(k) = "eventBoundary"} \ Registered(s, e, None) :
           Kind(n) = "eventStart" => Home(n) \in Nodes
    OBVIOUS
  <1>3. EventsIn(x, b + Len(Events), WithBoundarySubs(s, e, h), calls)
    BY <1>2, SubscribedIn DEF WithBoundarySubs
  <1>4. \A n \in EventStarts(c, "eventStart") \ Registered(s, e, c) :
           Kind(n) = "eventStart" => Home(n) \in Nodes
    BY EventStartHome
  <1>5. EventsIn(x, b + Len(Events), WithStartSubs(s, e, c), calls)
    BY <1>4, SubscribedIn DEF WithStartSubs
  <1> QED BY <1>1, <1>3, <1>5

\* And what it registers until a boundary is refused.
LEMMA UntilRefusedSubsIn ==
  ASSUME NEW x, Tree(x), NEW b \in Nat, NEW s, EventsIn(x, b, s, calls),
         NEW e \in DOMAIN x, NEW h, NEW r \in UntilRefusedSubs(s, e, h)
  PROVE  EventsIn(x, b + Len(Events), r, calls)
  <1>1. EventsIn(x, b + Len(Events), WithBoundarySubs(s, e, h), calls)
    BY WithSubsIn DEF Top
  <1>2. s \subseteq WithBoundarySubs(s, e, h)
    BY DEF WithBoundarySubs, Subscribed
  <1>3. r \subseteq WithBoundarySubs(s, e, h)
    BY <1>2 DEF UntilRefusedSubs
  <1> QED BY <1>1, <1>3 DEF EventsIn

\* What withdraws subscriptions, or selects some, adds none.
LEMMA SubsDropOnly ==
  ASSUME NEW s, NEW dead, NEW e, NEW h, NEW c, NEW n
  PROVE  /\ SubsWithout(s, dead) \subseteq s
         /\ DropBoundarySubs(s, h) \subseteq s
         /\ DropStartSubs(s, e, c) \subseteq s
         /\ CancelledSubs(e, h) \subseteq subs
         /\ Reaped(n) \subseteq subs
         /\ Hits(n) \subseteq subs
  <1>1. /\ \A q : SubsWithout(q, dead) \subseteq q /\ DropStartSubs(q, e, h) \subseteq q
        /\ \A q : SubsWithout(q, Below(ex, e)) \subseteq q
        /\ DropBoundarySubs(s, h) \subseteq s /\ DropBoundarySubs(subs, h) \subseteq subs
        /\ DropStartSubs(s, e, c) \subseteq s
    BY DEF SubsWithout, DropBoundarySubs, DropStartSubs
  <1>2. CancelledSubs(e, h) \subseteq subs
    <2> DEFINE q == DropBoundarySubs(subs, h)
               r == SubsWithout(q, Below(ex, e))
    <2>1. CancelledSubs(e, h) = IF Kind(h) \in SubKinds THEN DropStartSubs(r, e, h) ELSE q
      BY DEF CancelledSubs
    <2>2. q \subseteq subs /\ r \subseteq q
      BY <1>1
    <2> HIDE DEF r, q
    <2>3. DropStartSubs(r, e, h) \subseteq r
      BY <1>1
    <2> QED BY <2>1, <2>2, <2>3
  <1>3. Reaped(n) \subseteq subs /\ Hits(n) \subseteq subs
    BY DEF Reaped, Hits, Earliest, Listening
  <1> QED BY <1>1, <1>2, <1>3

\* ... and what takes a scope over listens for the starts inside the event subprocess.
LEMMA TakenOverSubsIn ==
  ASSUME NEW b \in Nat, EventsIn(ex, b, subs, calls), Grows(ex, ex'),
         NEW host, NEW scope, NEW e \in DOMAIN ex'
  PROVE  /\ EventsIn(ex', b + Len(Events), TakenOverSubs(host, scope, e), calls)
         /\ b + Len(Events) \in Nat
  <1> DEFINE q == SubsWithout(subs, Victims(ex, host, scope))
             r == DropStartSubs(q, host, scope)
             c == ex'[e].act
  <1>1. TakenOverSubs(host, scope, e) = WithStartSubs(r, e, c)
    BY DEF TakenOverSubs
  <1>2. q \subseteq subs /\ r \subseteq q
    BY SubsDropOnly
  <1> HIDE DEF r, q
  <1>3. Tree(ex') /\ DOMAIN ex \subseteq DOMAIN ex'
    BY DEF Grows
  <1>4. c \in Nodes \cup {Top, None}
    <2>1. ex'[e] \in ExecutionIn(ex')
      BY <1>3, ElementOfSeq, LenProperties DEF Tree
    <2> QED BY <2>1 DEF ExecutionIn
  <1> HIDE DEF c
  <1>5. EventsIn(ex', b, subs, calls)
    BY <1>3, EventsMonotone
  <1>6. EventsIn(ex', b, r, calls)
    BY <1>2, <1>5 DEF EventsIn
  <1> QED BY <1>1, <1>3, <1>4, <1>6, WithSubsIn

-----------------------------------------------------------------------------
(* What a sound step leaves of the listeners.                              *)

\* It withdraws some, and goes on with the same calls, the outer ones, or none.
LEMMA Withdraws ==
  ASSUME EInv, Sound, subs' \subseteq subs,
         calls' = calls \/ calls' = <<>> \/ (calls # <<>> /\ calls' = Tail(calls))
  PROVE  Registers
  <1>1. PICK b \in Nat : EventsIn(ex, b, subs, calls)
    BY DEF EInv
  <1>2. DOMAIN ex \subseteq DOMAIN ex'
    BY DEF Sound, Grows
  <1>3. EventsIn(ex', b, subs, calls)
    <2>1. b <= b
      OBVIOUS
    <2> QED BY <1>1, <1>2, <2>1, EventsMonotone
  <1> DEFINE S == CallIn(ex', b)
  <1>4. subs \subseteq SubIn(ex', b) /\ calls \in Seq(S)
    BY <1>3 DEF EventsIn
  <1> HIDE DEF S
  <1>5. calls' \in Seq(S)
    <2>1. calls # <<>> => Tail(calls) \in Seq(S)
      BY <1>4, HeadTailProperties
    <2>2. <<>> \in Seq(S)
      BY EmptySeq
    <2>3. CASE calls' = calls
      BY <1>4, <2>3
    <2>4. CASE calls' = <<>>
      BY <2>2, <2>4
    <2>5. CASE calls # <<>> /\ calls' = Tail(calls)
      BY <2>1, <2>5
    <2> QED BY <2>3, <2>4, <2>5
  <1>6. EventsIn(ex', b, subs', calls')
    BY <1>4, <1>5 DEF EventsIn, S
  <1> QED BY <1>6 DEF Registers

\* It registers some.
LEMMA Adds ==
  ASSUME NEW b \in Nat, EventsIn(ex', b, subs', calls), calls' = calls \/ calls' = <<>>
  PROVE  Registers
  <1> DEFINE S == CallIn(ex', b)
  <1>1. subs' \subseteq SubIn(ex', b) /\ calls \in Seq(S)
    BY DEF EventsIn
  <1> HIDE DEF S
  <1>2. calls' \in Seq(S)
    <2>1. <<>> \in Seq(S)
      BY EmptySeq
    <2>2. CASE calls' = calls
      BY <1>1, <2>2
    <2>3. CASE calls' = <<>>
      BY <2>1, <2>3
    <2> QED BY <2>2, <2>3
  <1>3. EventsIn(ex', b, subs', calls')
    BY <1>1, <1>2 DEF EventsIn, S
  <1> QED BY <1>3 DEF Registers

\* It registers some in the tree it started from.
LEMMA AddsHere ==
  ASSUME Sound, NEW b \in Nat, EventsIn(ex, b, subs', calls), calls' = calls \/ calls' = <<>>
  PROVE  Registers
  <1>1. DOMAIN ex \subseteq DOMAIN ex' /\ b <= b
    BY DEF Sound, Grows
  <1>2. EventsIn(ex', b, subs', calls)
    BY <1>1, EventsMonotone
  <1> QED BY <1>2, Adds

\* The invariant after a sound step.
LEMMA EventsStep == ASSUME IInv', Registers PROVE EInv'
  BY DEF EInv, Registers

\* When an event for the second execution added is queued, so is the first added.
LEMMA ScopeAdded ==
  ASSUME IInv, Sound, NEW q \in Seq(EventIn(ex)), NEW n, queue' = Append(q, Enter(Len(ex) + 2, n))
  PROVE  Len(ex) + 1 \in DOMAIN ex'
  <1> DEFINE v == Enter(Len(ex) + 2, n)
             S == EventIn(ex')
  <1>1. queue' \in Seq(S) /\ Tree(ex') /\ Tree(ex)
    BY DEF Sound, Grows, IInv
  <1>2. queue' = Append(q, v)
    OBVIOUS
  <1>3. v.ex = Len(ex) + 2
    BY DEF Enter
  <1> HIDE DEF v, S
  <1>4. v \in S
    <2>1. Len(q) \in Nat /\ Len(queue') = Len(q) + 1 /\ queue'[Len(q) + 1] = v
      BY <1>2, LenProperties, AppendProperties
    <2>2. Len(q) + 1 \in 1..Len(queue')
      BY <2>1
    <2> QED BY <1>1, <2>1, <2>2, ElementOfSeq
  <1>5. Len(ex) + 2 \in DOMAIN ex'
    BY <1>3, <1>4 DEF S, EventIn
  <1>6. Len(ex) \in Nat /\ DOMAIN ex' = 1..Len(ex') /\ Len(ex') \in Nat
    BY <1>1, TreeDomain
  <1> QED BY <1>5, <1>6

\* ... also when it is the only event.
LEMMA FirstAdded ==
  ASSUME IInv, Sound, NEW n, queue' = <<Enter(Len(ex) + 2, n)>>
  PROVE  Len(ex) + 1 \in DOMAIN ex'
  <1> DEFINE q == SubSeq(queue, 1, 0)
  <1>1. q = <<>> /\ q \in Seq(EventIn(ex))
    BY DEF IInv
  <1>2. queue' = Append(q, Enter(Len(ex) + 2, n))
    BY <1>1
  <1> HIDE DEF q
  <1> QED BY <1>1, <1>2, ScopeAdded

-----------------------------------------------------------------------------
(* The steps of the token engine.                                          *)

\* A handler that touches no subscription.
LEMMA EngineSound == ASSUME EInv, Engine PROVE Sound /\ EInv'
  <1>1. IInv /\ Next
    BY DEF EInv, Engine, Next, Pump, Collapse
  <1>2. Sound /\ IInv'
    BY <1>1, NextSound
  <1>3. subs' \subseteq subs /\ (calls' = calls \/ calls' = <<>>)
    BY DEF Engine, Unwind
  <1> QED BY <1>2, <1>3, Withdraws, EventsStep

\* A subProcess that refuses a boundary.
LEMMA RefusedSound ==
  ASSUME EInv, Pumping, Sound, IInv', calls' = calls \/ calls' = <<>>,
         subs' \in UntilRefusedSubs(subs, Tok, At)
  PROVE  Sound /\ EInv'
  <1>1. PICK b \in Nat : EventsIn(ex, b, subs, calls)
    BY DEF EInv
  <1>2. Tok \in DOMAIN ex /\ Tree(ex) /\ IInv
    BY HeadEvent DEF IInv, EInv
  <1>3. EventsIn(ex, b + Len(Events), subs', calls) /\ b + Len(Events) \in Nat
    BY <1>1, <1>2, UntilRefusedSubsIn, WithSubsIn
  <1> QED BY <1>3, AddsHere, EventsStep

\* A host that enters its wait.
LEMMA HostWaitsSound == ASSUME EInv, HostWaits PROVE Sound /\ EInv'
  <1>1. IInv /\ Next /\ Pumping
    BY DEF EInv, HostWaits, Next, Pump, ScheduleAsyncBefore, EnterUserTaskWait, Behaves
  <1>2. Sound /\ IInv'
    BY <1>1, NextSound
  <1>3. calls' = calls \/ calls' = <<>>
    BY DEF HostWaits, Unwind
  <1>4. CASE subs' = subs
    BY <1>2, <1>3, <1>4, Withdraws, EventsStep
  <1>5. CASE subs' = WithBoundarySubs(subs, Tok, At)
    <2>1. PICK b \in Nat : EventsIn(ex, b, subs, calls)
      BY DEF EInv
    <2>2. Tok \in DOMAIN ex /\ Tree(ex)
      BY <1>1, HeadEvent DEF IInv
    <2>3. EventsIn(ex, b + Len(Events), subs', calls) /\ b + Len(Events) \in Nat
      BY <1>5, <2>1, <2>2, WithSubsIn
    <2> QED BY <1>2, <1>3, <2>3, AddsHere, EventsStep
  <1>6. CASE subs' \in UntilRefusedSubs(subs, Tok, At)
    BY <1>1, <1>2, <1>3, <1>6, RefusedSound
  <1> QED BY <1>4, <1>5, <1>6 DEF HostWaits, Unless

\* A subProcess that opens.
LEMMA ScopeOpensSound == ASSUME EInv, ScopeOpens PROVE Sound /\ EInv'
  <1>1. IInv /\ Next /\ Pumping
    BY DEF EInv, ScopeOpens, Next, Pump, EnterSubprocess, Behaves
  <1>2. Sound /\ IInv'
    BY <1>1, NextSound
  <1>3. calls' = calls \/ calls' = <<>>
    BY DEF ScopeOpens, Unwind
  <1>4. CASE subs' = subs
    BY <1>2, <1>3, <1>4, Withdraws, EventsStep
  <1>5. CASE subs' = WithStartSubs(WithBoundarySubs(subs, Tok, At), Tok, At)
    <2>1. PICK b \in Nat : EventsIn(ex, b, subs, calls)
      BY DEF EInv
    <2>2. Tok \in DOMAIN ex /\ At \in Nodes /\ Tree(ex)
      BY <1>1, HeadEvent DEF IInv
    <2> DEFINE s == WithBoundarySubs(subs, Tok, At)
               c == b + Len(Events)
    <2>3. EventsIn(ex, c, s, calls) /\ c \in Nat
      BY <2>1, <2>2, WithSubsIn
    <2>4. subs' = WithStartSubs(s, Tok, At)
      BY <1>5
    <2> HIDE DEF s, c
    <2>5. EventsIn(ex, c + Len(Events), subs', calls) /\ c + Len(Events) \in Nat
      BY <2>2, <2>3, <2>4, WithSubsIn
    <2> QED BY <1>2, <1>3, <2>5, AddsHere, EventsStep
  <1>6. CASE subs' \in UntilRefusedSubs(subs, Tok, At)
    BY <1>1, <1>2, <1>3, <1>6, RefusedSound
  <1> QED BY <1>4, <1>5, <1>6 DEF ScopeOpens, Unless

\* A subProcess, or an event subprocess, that closes.
LEMMA ScopeClosesSound == ASSUME EInv, ScopeCloses PROVE Sound /\ EInv'
  <1>1. IInv /\ Next
    BY DEF EInv, ScopeCloses, Next, Collapse
  <1>2. Sound /\ IInv'
    BY <1>1, NextSound
  <1>3. calls' = calls \/ calls' = <<>>
    BY DEF ScopeCloses, Unwind
  <1>4. subs' \subseteq subs
    <2>1. PICK e \in DOMAIN ex : subs' = DropStartSubs(DropBoundarySubs(subs, ex[e].act), e, ex[e].act)
      BY DEF ScopeCloses
    <2> DEFINE q == DropBoundarySubs(subs, ex[e].act)
    <2>2. q \subseteq subs
      BY SubsDropOnly
    <2>3. subs' = DropStartSubs(q, e, ex[e].act)
      BY <2>1
    <2> HIDE DEF q
    <2>4. subs' \subseteq q
      BY <2>3, SubsDropOnly
    <2> QED BY <2>2, <2>4
  <1> QED BY <1>2, <1>3, <1>4, Withdraws, EventsStep

\* An error that is caught.
LEMMA ErrorTakesOverSound == ASSUME EInv, ErrorTakesOver PROVE Sound /\ EInv'
  <1>1. IInv /\ Next /\ Pumping
    BY DEF EInv, ErrorTakesOver, Next, Pump, ThrowError, Behaves
  <1>2. Sound /\ IInv'
    BY <1>1, NextSound
  <1>3. PICK n : queue' = Append(Rest, Enter(Len(ex) + 2, n))
    BY DEF ErrorTakesOver, ThrowError, Continue
  <1>4. Rest \in Seq(EventIn(ex))
    BY <1>1, HeadEvent DEF Prepared
  <1>5. Len(ex) + 1 \in DOMAIN ex' /\ Grows(ex, ex')
    BY <1>1, <1>2, <1>3, <1>4, ScopeAdded DEF Sound
  <1>6. PICK b \in Nat : EventsIn(ex, b, subs, calls)
    BY DEF EInv
  <1>7. PICK host, scope : subs' = TakenOverSubs(host, scope, Len(ex) + 1)
    BY DEF ErrorTakesOver
  <1>8. EventsIn(ex', b + Len(Events), subs', calls) /\ b + Len(Events) \in Nat
    BY <1>5, <1>6, <1>7, TakenOverSubsIn
  <1>9. calls' = calls
    BY DEF ErrorTakesOver
  <1> QED BY <1>2, <1>8, <1>9, Adds, EventsStep

\* A command or a job of the token engine that touches no subscription, or drops some.
LEMMA CommandsSound ==
  ASSUME EInv,
         \/ Command0
         \/ \E j \in jobs : DropStale(j) \/ TimerCancelsHost(j)
         \/ \E t \in tasks : Complete(t)
  PROVE  Sound /\ EInv'
  <1>1. IInv /\ Next
    BY DEF EInv, Next, FireJob, Command0, DropStale, TimerCancelsHost, Complete
  <1>2. Sound /\ IInv'
    BY <1>1, NextSound
  <1>3. subs' \subseteq subs /\ calls' = calls
    BY SubsDropOnly DEF Command0, DropStale, TimerCancelsHost, Complete
  <1> QED BY <1>2, <1>3, Withdraws, EventsStep

\* The timer of an event subprocess that takes a scope over, or runs beside it.
LEMMA TimerStartsSound ==
  ASSUME EInv, NEW j \in jobs, TimerTakesOver(j) \/ TimerStartsBeside(j)
  PROVE  Sound /\ EInv'
  <1>1. IInv /\ Next
    BY DEF EInv, Next, FireJob, TimerTakesOver, TimerStartsBeside
  <1>2. Sound /\ IInv'
    BY <1>1, NextSound
  <1>3. Len(ex) + 1 \in DOMAIN ex' /\ Grows(ex, ex')
    <2>1. queue' = <<Enter(Len(ex) + 2, j.node)>>
      BY DEF TimerTakesOver, TimerStartsBeside, FireInterruptingEventStart, FireNonInterruptingEventStart
    <2> QED BY <1>1, <1>2, <2>1, FirstAdded DEF Sound
  <1>4. PICK b \in Nat : EventsIn(ex, b, subs, calls)
    BY DEF EInv
  <1>5. calls' = calls
    BY DEF TimerTakesOver, TimerStartsBeside
  <1>6. CASE TimerTakesOver(j)
    <2>1. EventsIn(ex', b + Len(Events), subs', calls) /\ b + Len(Events) \in Nat
      BY <1>3, <1>4, <1>6, TakenOverSubsIn DEF TimerTakesOver
    <2> QED BY <1>2, <1>5, <2>1, Adds, EventsStep
  <1>7. CASE TimerStartsBeside(j)
    <2>1. subs' = WithStartSubs(subs, Len(ex) + 1, Home(j.node)) /\ j.kind = "timer-event-start"
      BY <1>7 DEF TimerStartsBeside, FireNonInterruptingEventStart, Due
    <2>2. Home(j.node) \in Nodes
      BY <1>1, <2>1, JobFacts
    <2>3. b <= b /\ Tree(ex') /\ DOMAIN ex \subseteq DOMAIN ex'
      BY <1>3 DEF Grows
    <2>4. EventsIn(ex', b, subs, calls)
      BY <1>4, <2>3, EventsMonotone
    <2>5. EventsIn(ex', b + Len(Events), subs', calls) /\ b + Len(Events) \in Nat
      BY <1>3, <2>1, <2>2, <2>3, <2>4, WithSubsIn
    <2> QED BY <1>2, <1>5, <2>5, Adds, EventsStep
  <1> QED BY <1>6, <1>7

\* The end of a command.
LEMMA ReturnCommandSound == ASSUME EInv, ReturnCommand PROVE Sound /\ EInv'
  <1>1. IInv /\ Next /\ Root \in DOMAIN ex /\ Tree(ex)
    BY DEF EInv, IInv, Next, ReturnCommand, Return
  <1>2. Sound /\ IInv'
    BY <1>1, NextSound
  <1>3. calls' = calls
    BY DEF ReturnCommand
  <1>4. CASE subs' = subs \/ subs' = DropBoundarySubs(subs, cmd.node)
    <2>1. subs' \subseteq subs
      BY <1>4, SubsDropOnly
    <2> QED BY <1>2, <1>3, <2>1, Withdraws, EventsStep
  <1>5. CASE subs' = WithStartSubs(subs, Root, Top)
    <2>1. PICK b \in Nat : EventsIn(ex, b, subs, calls)
      BY DEF EInv
    <2>2. EventsIn(ex, b + Len(Events), subs', calls) /\ b + Len(Events) \in Nat
      BY <1>1, <1>5, <2>1, WithSubsIn
    <2> QED BY <1>2, <1>3, <2>2, AddsHere, EventsStep
  <1> QED BY <1>4, <1>5 DEF ReturnCommand

-----------------------------------------------------------------------------
(* Catching and throwing.                                                  *)

\* A handler that goes on and leaves the tasks and the joins alone.
LEMMA GoesOn ==
  ASSUME IInv, NEW x, NEW j, NEW q, Prepared(x, j, q), Continue(x, j, q), UNCHANGED <<tasks, joins>>
  PROVE  Sound /\ IInv'
  <1>1. Sound
    BY ContinueSound
  <1> QED BY <1>1, SoundFrame

\* A token that waits for an event.
LEMMA EnterEventCatchSound == ASSUME EInv, EnterEventCatch PROVE Sound /\ EInv'
  <1>1. IInv /\ Pumping /\ Kind(At) = "eventCatch"
    BY DEF EInv, EnterEventCatch, Behaves
  <1>2. Prepared(Opened, jobs, Rest) /\ Tok \in DOMAIN ex /\ Tree(ex)
    BY <1>1, HeadEvent DEF IInv
  <1>3. Continue(Opened, jobs, Rest) /\ UNCHANGED <<tasks, joins>> /\ calls' = calls
        /\ subs' = Subscribed(subs, Tok, {At}, None)
    BY DEF EnterEventCatch
  <1>4. Sound /\ IInv'
    BY <1>1, <1>2, <1>3, GoesOn
  <1>5. PICK b \in Nat : EventsIn(ex, b, subs, calls)
    BY DEF EInv
  <1>6. \A n \in {At} : Kind(n) = "eventStart" => Home(n) \in Nodes
    BY <1>1
  <1>7. EventsIn(ex, b + Len(Events), subs', calls)
    BY <1>2, <1>3, <1>5, <1>6, SubscribedIn
  <1>8. b + Len(Events) \in Nat
    BY EventAssumption, LenProperties DEF EventAssumption
  <1> QED BY <1>3, <1>4, <1>7, <1>8, AddsHere, EventsStep

\* A new call before those suspended.
LEMMA CallAdded ==
  ASSUME NEW x, NEW b \in Nat, NEW c, c \in Seq(CallIn(x, b)),
         NEW tok \in Nat, NEW node \in Nodes \cup {None},
         tok # 0 => tok \in DOMAIN x /\ node \in Nodes,
         NEW rest \in Seq(EventIn(x)), NEW hits, hits \subseteq SubIn(x, b), Tree(x)
  PROVE  <<[tok |-> tok, node |-> node, rest |-> rest, hits |-> hits, firing |-> None]>> \o c
           \in Seq(CallIn(x, b))
  <1> DEFINE r == [tok |-> tok, node |-> node, rest |-> rest, hits |-> hits, firing |-> None]
  <1>1. EventIn(x) \subseteq Event
    BY TreeDomain DEF EventIn, Event
  <1>2. rest \in Seq(Event) /\ hits \in SUBSET Subscription
    BY <1>1, SeqMonotonic DEF SubIn
  <1>3. r \in Call
    BY <1>2 DEF Call
  <1>4. r.tok = tok /\ r.node = node /\ r.rest = rest /\ r.hits = hits
    OBVIOUS
  <1> HIDE DEF r
  <1>5. r \in CallIn(x, b)
    BY <1>3, <1>4 DEF CallIn
  <1>6. <<r>> \in Seq(CallIn(x, b))
    BY <1>5
  <1>7. <<r>> \o c \in Seq(CallIn(x, b))
    BY <1>6, ConcatProperties
  <1> QED BY <1>7 DEF r

\* A token that throws.
LEMMA ThrowEventSound == ASSUME EInv, ThrowEvent PROVE Sound /\ EInv'
  <1>1. IInv /\ Pumping
    BY DEF EInv, ThrowEvent, Behaves
  <1>2. /\ Prepared(Closed, jobs, Rest) /\ Prepared(ex, jobs, Rest) /\ Grows(ex, Closed)
        /\ Tok \in DOMAIN ex /\ At \in Nodes /\ Tree(ex)
    BY <1>1, HeadEvent DEF IInv, Prepared
  <1>3. Prepared(Closed, jobs, <<>>)
    BY <1>2 DEF Prepared
  <1>4. ex' = Closed /\ Continue(Closed, jobs, <<>>) /\ UNCHANGED <<tasks, joins>>
    BY DEF ThrowEvent, Continue
  <1>5. Sound /\ IInv'
    BY <1>1, <1>3, <1>4, GoesOn
  <1>6. PICK b \in Nat : EventsIn(ex, b, subs, calls)
    BY DEF EInv
  <1>7. b <= b /\ DOMAIN ex \subseteq DOMAIN ex' /\ Tree(ex')
    BY <1>2, <1>4 DEF Grows
  <1>8. EventsIn(ex', b, subs, calls)
    BY <1>6, <1>7, EventsMonotone
  <1>9. subs' \subseteq subs /\ Hits(At) \subseteq subs
    BY SubsDropOnly DEF ThrowEvent
  <1>10. Hits(At) \subseteq SubIn(ex', b) /\ calls \in Seq(CallIn(ex', b)) /\ subs' \subseteq SubIn(ex', b)
    BY <1>8, <1>9 DEF EventsIn
  <1>11. Rest \in Seq(EventIn(ex')) /\ Tok \in DOMAIN ex' /\ Tok \in Nat
    BY <1>2, <1>4, <1>7, TreeDomain DEF Prepared
  <1>12. calls' = <<[tok |-> Tok, node |-> At, rest |-> Rest, hits |-> Hits(At), firing |-> None]>> \o calls
    BY DEF ThrowEvent
  <1>13. calls' \in Seq(CallIn(ex', b))
    BY <1>2, <1>7, <1>10, <1>11, <1>12, CallAdded
  <1>14. Registers
    BY <1>10, <1>13 DEF Registers, EventsIn
  <1> QED BY <1>5, <1>14, EventsStep

\* The innermost call.
LEMMA CurrentFacts ==
  ASSUME EInv, Answered, NEW b \in Nat, EventsIn(ex, b, subs, calls)
  PROVE  /\ Current \in CallIn(ex, b)
         /\ Current.rest \in Seq(EventIn(ex)) /\ Current.hits \subseteq SubIn(ex, b)
         /\ Current.tok # 0 => Current.tok \in DOMAIN ex /\ Current.node \in Nodes
         /\ Prepared(ex, jobs, Current.rest)
  <1>1. calls \in Seq(CallIn(ex, b)) /\ calls # <<>>
    BY DEF EventsIn, Answered
  <1>2. Current \in CallIn(ex, b)
    BY <1>1, HeadTailProperties DEF Current
  <1>3. /\ Current.rest \in Seq(EventIn(ex)) /\ Current.hits \subseteq SubIn(ex, b)
        /\ Current.tok # 0 => Current.tok \in DOMAIN ex /\ Current.node \in Nodes
    BY <1>2 DEF CallIn
  <1>4. Prepared(ex, jobs, Current.rest)
    BY <1>3, GrowsReflexive DEF Prepared, EInv, IInv
  <1> QED BY <1>2, <1>3, <1>4

\* The thrower goes on.
LEMMA ResumeThrowerSound == ASSUME EInv, ResumeThrower PROVE Sound /\ EInv'
  <1>1. PICK b \in Nat : EventsIn(ex, b, subs, calls)
    BY DEF EInv
  <1>2. IInv /\ Answered /\ Current.tok # 0 /\ UNCHANGED <<tasks, joins, subs>>
    BY DEF EInv, ResumeThrower
  <1>3. Prepared(ex, jobs, Current.rest) /\ Current.tok \in DOMAIN ex /\ Current.node \in Nodes
    BY <1>1, <1>2, CurrentFacts
  <1>4. Sound
    <2>1. CASE Continue(ex, jobs, Current.rest)
      BY <1>2, <1>3, <2>1, ContinueSound
    <2>2. CASE Leave(ex, jobs, Current.rest, Current.tok, Current.node)
      BY <1>2, <1>3, <2>2, LeaveSound
    <2>3. CASE EndToken(ex, jobs, Current.rest, Current.tok)
      BY <1>2, <1>3, <2>3, EndTokenSound
    <2> QED BY <2>1, <2>2, <2>3 DEF ResumeThrower
  <1>5. IInv'
    BY <1>2, <1>4, SoundFrame
  <1>6. calls' = <<>> \/ (calls # <<>> /\ calls' = Tail(calls))
    BY DEF ResumeThrower, Answered
  <1> QED BY <1>2, <1>4, <1>5, <1>6, Withdraws, EventsStep

\* The caller is answered.
LEMMA AnswerCallerSound == ASSUME EInv, AnswerCaller PROVE Sound /\ EInv'
  <1>1. /\ ex' = ex /\ jobs' = jobs /\ queue' = <<>> /\ cmd' = NoCmd /\ calls' = <<>> /\ subs' = subs
        /\ UNCHANGED <<tasks, joins>> /\ collapsing' = collapsing /\ completed' = completed
    BY DEF AnswerCaller
  <1>2. IInv
    BY DEF EInv
  <1>3. Grows(ex, ex') /\ queue' \in Seq(EventIn(ex')) /\ cmd' \in Command
    BY <1>1, <1>2, GrowsReflexive DEF IInv, Command
  <1>4. Sound
    BY <1>1, <1>2, <1>3 DEF Sound, IInv
  <1>5. IInv'
    BY <1>1, <1>2, <1>4, SoundFrame
  <1> QED BY <1>1, <1>4, <1>5, Withdraws, EventsStep

-----------------------------------------------------------------------------
(* Firing a subscription.                                                  *)

\* The subscription that is fired next.
LEMMA HitFacts ==
  ASSUME EInv, Answered, Current.hits # {}
  PROVE  /\ Hit \in Current.hits /\ Tree(ex) /\ Prepared(ex, jobs, <<>>)
         /\ Hit.ex \in DOMAIN ex /\ Hit.node \in Nodes
         /\ Kind(Hit.node) = "eventStart" => Home(Hit.node) \in Nodes
  <1>1. PICK b \in Nat : EventsIn(ex, b, subs, calls)
    BY DEF EInv
  <1>2. Current.hits \subseteq SubIn(ex, b) /\ Prepared(ex, jobs, Current.rest)
    BY <1>1, CurrentFacts
  <1> DEFINE S == {r.at : r \in Current.hits}
  <1>3. S \in SUBSET Nat /\ S # {}
    BY <1>2 DEF SubIn, Subscription
  <1>4. PICK m \in S : \A k \in S : m <= k
    BY <1>3, Least
  <1>5. Hit \in Current.hits
    <2>1. PICK s \in Current.hits : s.at = m
      OBVIOUS
    <2>2. \A r \in Current.hits : s.at <= r.at
      BY <1>4, <2>1
    <2> QED BY <2>2 DEF Hit
  <1>6. Hit \in SubIn(ex, b)
    BY <1>2, <1>5
  <1>7. Hit.ex \in DOMAIN ex /\ Hit.node \in Nodes /\ (Kind(Hit.node) = "eventStart" => Home(Hit.node) \in Nodes)
    BY <1>6 DEF SubIn, Subscription
  <1>8. Tree(ex) /\ Prepared(ex, jobs, <<>>)
    BY <1>2 DEF Prepared, EInv, IInv
  <1> QED BY <1>5, <1>7, <1>8

\* The innermost call has one subscription less to fire.
LEMMA CallFires ==
  ASSUME NEW x, NEW b \in Nat, calls \in Seq(CallIn(x, b)), calls # <<>>, NEW r,
         NEW n \in Nodes \cup {None},
         calls' = [calls EXCEPT ![1].hits = @ \ {r}, ![1].firing = n]
  PROVE  calls' \in Seq(CallIn(x, b))
  <1> DEFINE S == CallIn(x, b)
             c == [calls[1] EXCEPT !.hits = @ \ {r}, !.firing = n]
  <1>1. calls[1] \in S
    BY ElementOfSeq, LenProperties
  <1>2. c \in S
    <2>1. calls[1] \in Call
      BY <1>1 DEF CallIn
    <2>2. c \in Call
      BY <2>1 DEF Call
    <2>3. c.rest = calls[1].rest /\ c.tok = calls[1].tok /\ c.node = calls[1].node
          /\ c.hits \subseteq calls[1].hits
      BY <2>1 DEF Call
    <2> HIDE DEF c
    <2> QED BY <1>1, <2>2, <2>3 DEF CallIn
  <1>3. calls' = [calls EXCEPT ![1] = c]
    OBVIOUS
  <1> HIDE DEF S, c
  <1>4. [calls EXCEPT ![1] = c] \in Seq(S)
    BY <1>2, ExceptSeq DEF S
  <1> QED BY <1>3, <1>4 DEF S

\* What firing a subscription leaves of the listeners.
LEMMA Fires ==
  ASSUME Answered, NEW b \in Nat, EventsIn(ex', b, subs', calls), NEW r, NEW n \in Nodes \cup {None},
         calls' = [calls EXCEPT ![1].hits = @ \ {r}, ![1].firing = n]
  PROVE  Registers
  <1>1. calls \in Seq(CallIn(ex', b)) /\ calls # <<>>
    BY DEF EventsIn, Answered
  <1>2. calls' \in Seq(CallIn(ex', b))
    BY <1>1, CallFires
  <1>3. EventsIn(ex', b, subs', calls')
    BY <1>2 DEF EventsIn
  <1> QED BY <1>3 DEF Registers

\* ... when it registers none.
LEMMA FiresOnly ==
  ASSUME EInv, Answered, Sound, subs' \subseteq subs, NEW r, NEW n \in Nodes \cup {None},
         calls' = [calls EXCEPT ![1].hits = @ \ {r}, ![1].firing = n]
  PROVE  Registers
  <1>1. PICK b \in Nat : EventsIn(ex, b, subs, calls)
    BY DEF EInv
  <1>2. DOMAIN ex \subseteq DOMAIN ex' /\ b <= b
    BY DEF Sound, Grows
  <1>3. EventsIn(ex', b, subs, calls)
    BY <1>1, <1>2, EventsMonotone
  <1>4. EventsIn(ex', b, subs', calls)
    BY <1>3 DEF EventsIn
  <1> QED BY <1>4, Fires

\* A subscription that is heard, on a tree prepared for it, with one event for a token of it.
LEMMA HeardSound ==
  ASSUME IInv, NEW x, NEW k, Prepared(x, k, <<>>), NEW v, v \in EventIn(x),
         ex' = x, jobs' = k, queue' = <<v>>, UNCHANGED <<collapsing, cmd, completed>>
  PROVE  Sound
  <1>1. <<v>> \in Seq(EventIn(x))
    OBVIOUS
  <1>2. Prepared(x, k, <<v>>) /\ Continue(x, k, <<v>>)
    BY <1>1 DEF Prepared, Continue
  <1> QED BY <1>2, ContinueSound

\* A subscription that is heard.
LEMMA HearsFacts ==
  ASSUME EInv, NEW kind, Hears(kind)
  PROVE  /\ IInv /\ Answered /\ ~completed
         /\ Hit \in Current.hits /\ Tree(ex) /\ Prepared(ex, jobs, <<>>)
         /\ Hit.ex \in DOMAIN ex /\ Hit.node \in Nodes
         /\ kind = "eventStart" => Home(Hit.node) \in Nodes
         /\ calls' = [calls EXCEPT ![1].hits = @ \ {Hit}, ![1].firing = Hit.node]
  <1>1. /\ IInv /\ Answered /\ ~completed /\ Current.hits # {} /\ Kind(Hit.node) = kind
        /\ calls' = [calls EXCEPT ![1].hits = @ \ {Hit}, ![1].firing = Hit.node]
    BY DEF Hears, Gone, EInv
  <1> QED BY <1>1, HitFacts

\* A subscription whose token has gone.
LEMMA DropStaleSubSound == ASSUME EInv, DropStaleSub PROVE Sound /\ EInv'
  <1>1. /\ IInv /\ Answered /\ Current.hits # {} /\ None \in Nodes \cup {None}
        /\ calls' = [calls EXCEPT ![1].hits = @ \ {Hit}, ![1].firing = None]
        /\ subs' \subseteq subs /\ Continue(ex, jobs, <<>>) /\ UNCHANGED <<tasks, joins>>
    BY DEF DropStaleSub, EInv, Continue
  <1>2. Prepared(ex, jobs, <<>>)
    BY <1>1, HitFacts
  <1>3. Sound /\ IInv'
    BY <1>1, <1>2, GoesOn
  <1>4. Registers
    BY <1>1, <1>3, FiresOnly
  <1> QED BY <1>3, <1>4, EventsStep

\* A token that waits for the event.
LEMMA HearCatchSound == ASSUME EInv, HearCatch PROVE Sound /\ EInv'
  <1> DEFINE x == [ex EXCEPT ![Hit.ex].open = None]
  <1>1. /\ Hears("eventCatch") /\ ex' = x /\ jobs' = jobs /\ queue' = <<Depart(Hit.ex, Hit.node)>>
        /\ subs' \subseteq subs /\ UNCHANGED <<tasks, joins>> /\ UNCHANGED <<collapsing, cmd, completed>>
    BY DEF HearCatch
  <1>2. /\ IInv /\ Answered /\ Tree(ex) /\ Prepared(ex, jobs, <<>>) /\ Hit.ex \in DOMAIN ex /\ Hit.node \in Nodes
        /\ calls' = [calls EXCEPT ![1].hits = @ \ {Hit}, ![1].firing = Hit.node]
    BY <1>1, HearsFacts
  <1>3. Grows(ex, x)
    BY <1>2, SetOpen
  <1> HIDE DEF x
  <1>4. Prepared(x, jobs, <<>>) /\ Hit.ex \in DOMAIN x
    BY <1>2, <1>3, PreparedGrows DEF Grows
  <1>5. Depart(Hit.ex, Hit.node) \in EventIn(x)
    BY <1>2, <1>4, EventAppended
  <1>6. Sound
    BY <1>1, <1>2, <1>4, <1>5, HeardSound
  <1>7. IInv'
    BY <1>1, <1>2, <1>6, SoundFrame
  <1>8. Registers
    BY <1>1, <1>2, <1>6, FiresOnly
  <1> QED BY <1>6, <1>7, <1>8, EventsStep

\* An interrupting boundary.
LEMMA HearInterruptingBoundarySound == ASSUME EInv, HearInterruptingBoundary PROVE Sound /\ EInv'
  <1> DEFINE h == Proc.host[Hit.node]
             dead == IF Kind(h) \in SubKinds THEN Below(ex, Hit.ex) ELSE {}
             x1 == Killed(ex, dead)
             x == [x1 EXCEPT ![Hit.ex].open = None]
             drop == DropBoundaries(Without(jobs, dead), h)
             cont == DropContinuation(drop, Hit.ex, h)
  <1>1. /\ Hears("eventBoundary") /\ ex' = x /\ queue' = <<Depart(Hit.ex, Hit.node)>>
        /\ UNCHANGED <<collapsing, cmd, completed>>
        /\ jobs' = cont \/ jobs' = DropEventTimers(cont, Hit.ex, h)
        /\ subs' = CancelledSubs(Hit.ex, h)
    BY DEF HearInterruptingBoundary
  <1>2. tasks' \subseteq tasks /\ joins' \subseteq joins
    BY DropsOnly DEF HearInterruptingBoundary
  <1>3. /\ IInv /\ Answered /\ Tree(ex) /\ Prepared(ex, jobs, <<>>) /\ Hit.ex \in DOMAIN ex /\ Hit.node \in Nodes
        /\ calls' = [calls EXCEPT ![1].hits = @ \ {Hit}, ![1].firing = Hit.node]
    BY <1>1, HearsFacts
  <1>4. jobs' \subseteq jobs
    <2>1. drop \subseteq jobs
      BY DropsOnly
    <2> HIDE DEF drop
    <2>2. cont \subseteq drop
      BY DropsOnly
    <2> HIDE DEF cont
    <2>3. DropEventTimers(cont, Hit.ex, h) \subseteq cont
      BY DropsOnly
    <2> QED BY <1>1, <2>1, <2>2, <2>3
  <1>5. Grows(ex, x1)
    BY <1>3, KilledTree
  <1> HIDE DEF x1
  <1>6. Grows(x1, x)
    <2>1. Tree(x1)
      BY <1>5 DEF Grows
    <2> QED BY <2>1, SetOpen
  <1> HIDE DEF x
  <1>7. Grows(ex, x)
    BY <1>5, <1>6, GrowsTransitive
  <1>8. Prepared(x, jobs, <<>>)
    BY <1>3, <1>7, PreparedGrows
  <1>9. Prepared(x, jobs', <<>>)
    BY <1>4, <1>8 DEF Prepared
  <1>10. Hit.ex \in DOMAIN x
    BY <1>3, <1>7 DEF Grows
  <1>11. Depart(Hit.ex, Hit.node) \in EventIn(x)
    BY <1>3, <1>8, <1>10, EventAppended
  <1>12. Sound
    BY <1>1, <1>3, <1>9, <1>11, HeardSound
  <1>13. IInv'
    BY <1>2, <1>3, <1>12, SoundFrame
  <1>14. subs' \subseteq subs
    BY <1>1, SubsDropOnly
  <1>15. Registers
    BY <1>3, <1>12, <1>14, FiresOnly
  <1> QED BY <1>12, <1>13, <1>15, EventsStep

\* A boundary that does not interrupt.
LEMMA HearNonInterruptingBoundarySound == ASSUME EInv, HearNonInterruptingBoundary PROVE Sound /\ EInv'
  <1> DEFINE path == PathBeside(ex, Hit.ex)
             r == NewExecution(path, "TOKEN", None)
             x == Append(ex, r)
  <1>1. /\ Hears("eventBoundary") /\ ex' = x /\ queue' = <<Depart(Len(ex) + 1, Hit.node)>> /\ jobs' = jobs
        /\ UNCHANGED <<tasks, joins>> /\ UNCHANGED <<collapsing, cmd, completed>> /\ subs' \subseteq subs
    BY DEF HearNonInterruptingBoundary, PathBeside
  <1>2. /\ IInv /\ Answered /\ Tree(ex) /\ Prepared(ex, jobs, <<>>) /\ Hit.ex \in DOMAIN ex /\ Hit.node \in Nodes
        /\ calls' = [calls EXCEPT ![1].hits = @ \ {Hit}, ![1].firing = Hit.node]
    BY <1>1, HearsFacts
  <1>3. path \in Seq(DOMAIN ex) /\ Chain(ex, path) /\ ex # <<>>
    BY <1>2, BesideIn
  <1> HIDE DEF path
  <1>4. r \in ExecutionIn(ex) /\ r.path = path
    BY <1>3, NewExecutionIn DEF Roles, NewExecution
  <1> HIDE DEF r
  <1>5. Grows(ex, x) /\ Len(ex) + 1 \in DOMAIN x
    BY <1>2, <1>3, <1>4, AppendTree
  <1> HIDE DEF x
  <1>6. Prepared(x, jobs, <<>>)
    BY <1>2, <1>5, PreparedGrows
  <1>7. Depart(Len(ex) + 1, Hit.node) \in EventIn(x)
    BY <1>2, <1>5, <1>6, EventAppended
  <1>8. Sound
    BY <1>1, <1>2, <1>6, <1>7, HeardSound
  <1>9. IInv'
    BY <1>1, <1>2, <1>8, SoundFrame
  <1>10. Registers
    BY <1>1, <1>2, <1>8, FiresOnly
  <1> QED BY <1>8, <1>9, <1>10, EventsStep

\* An interrupting event subprocess.
LEMMA HearInterruptingStartSound == ASSUME EInv, HearInterruptingStart PROVE Sound /\ EInv'
  <1> DEFINE dead == Victims(ex, Hit.ex, Hit.scope)
             x == WithEventSubprocess(TakenOver(ex, Hit.ex, Hit.scope), Hit.ex, Hit.node)
             k == DropEventTimers(Without(jobs, dead), Hit.ex, Hit.scope)
                    \cup EventTimers(Len(ex) + 1, Home(Hit.node))
  <1>1. /\ Hears("eventStart") /\ ex' = x /\ jobs' = k /\ queue' = <<Enter(Len(ex) + 2, Hit.node)>>
        /\ UNCHANGED <<collapsing, cmd, completed>>
        /\ subs' = TakenOverSubs(Hit.ex, Hit.scope, Len(ex) + 1)
    BY DEF HearInterruptingStart
  <1>2. tasks' \subseteq tasks /\ joins' \subseteq joins
    BY DropsOnly, JoinsTakenOverIn DEF HearInterruptingStart
  <1>3. /\ IInv /\ Answered /\ ~completed /\ Prepared(ex, jobs, <<>>)
        /\ Hit.ex \in DOMAIN ex /\ Hit.node \in Nodes /\ Home(Hit.node) \in Nodes
        /\ calls' = [calls EXCEPT ![1].hits = @ \ {Hit}, ![1].firing = Hit.node]
    BY <1>1, HearsFacts
  <1>4. Prepared(x, k, <<>>) /\ Len(ex) + 2 \in DOMAIN x
    BY <1>3, TakeOver
  <1> HIDE DEF x, k
  <1>5. Enter(Len(ex) + 2, Hit.node) \in EventIn(x)
    BY <1>3, <1>4, EventAppended
  <1>6. Sound
    BY <1>1, <1>3, <1>4, <1>5, HeardSound
  <1>7. IInv'
    BY <1>2, <1>3, <1>6, SoundFrame
  <1>8. PICK b \in Nat : EventsIn(ex, b, subs, calls)
    BY DEF EInv
  <1>9. Len(ex) + 1 \in DOMAIN ex' /\ Grows(ex, ex')
    BY <1>1, <1>3, <1>6, FirstAdded DEF Sound
  <1>10. EventsIn(ex', b + Len(Events), subs', calls) /\ b + Len(Events) \in Nat
    BY <1>1, <1>8, <1>9, TakenOverSubsIn
  <1>11. Registers
    BY <1>3, <1>10, Fires
  <1> QED BY <1>6, <1>7, <1>11, EventsStep

\* An event subprocess that runs beside its scope.
LEMMA HearNonInterruptingStartSound == ASSUME EInv, HearNonInterruptingStart PROVE Sound /\ EInv'
  <1> DEFINE x == WithEventSubprocess(ex, Hit.ex, Hit.node)
             k == jobs \cup EventTimers(Len(ex) + 1, Home(Hit.node))
  <1>1. /\ Hears("eventStart") /\ ex' = x /\ jobs' = k /\ queue' = <<Enter(Len(ex) + 2, Hit.node)>>
        /\ UNCHANGED <<tasks, joins>> /\ UNCHANGED <<collapsing, cmd, completed>>
        /\ subs' = WithStartSubs(subs, Len(ex) + 1, Home(Hit.node))
    BY DEF HearNonInterruptingStart
  <1>2. /\ IInv /\ Answered /\ ~completed /\ Tree(ex) /\ Prepared(ex, jobs, <<>>)
        /\ Hit.ex \in DOMAIN ex /\ Hit.node \in Nodes /\ Home(Hit.node) \in Nodes
        /\ calls' = [calls EXCEPT ![1].hits = @ \ {Hit}, ![1].firing = Hit.node]
    BY <1>1, HearsFacts
  <1>3. Grows(ex, x) /\ Len(ex) + 1 \in DOMAIN x /\ Len(ex) + 2 \in DOMAIN x
    BY <1>2, EventSubprocessTree
  <1> HIDE DEF x
  <1>4. Prepared(x, jobs, <<>>) /\ Tree(x) /\ DOMAIN ex \subseteq DOMAIN x
    BY <1>2, <1>3, PreparedGrows DEF Grows
  <1>5. EventTimers(Len(ex) + 1, Home(Hit.node)) \subseteq JobIn(x)
    BY <1>2, <1>3, <1>4, EventTimersIn
  <1>6. Prepared(x, k, <<>>)
    BY <1>2, <1>4, <1>5 DEF Prepared
  <1> HIDE DEF k
  <1>7. Enter(Len(ex) + 2, Hit.node) \in EventIn(x)
    BY <1>2, <1>3, <1>6, EventAppended
  <1>8. Sound
    BY <1>1, <1>2, <1>6, <1>7, HeardSound
  <1>9. IInv'
    BY <1>1, <1>2, <1>8, SoundFrame
  <1>10. PICK b \in Nat : EventsIn(ex, b, subs, calls)
    BY DEF EInv
  <1>11. EventsIn(x, b, subs, calls)
    <2>1. b <= b
      OBVIOUS
    <2> QED BY <1>4, <1>10, <2>1, EventsMonotone
  <1>12. EventsIn(ex', b + Len(Events), subs', calls) /\ b + Len(Events) \in Nat
    BY <1>1, <1>2, <1>3, <1>4, <1>11, WithSubsIn
  <1>13. Registers
    BY <1>2, <1>12, Fires
  <1> QED BY <1>8, <1>9, <1>13, EventsStep

-----------------------------------------------------------------------------
(* The commands, and the theorems.                                         *)

\* A step of the listeners alone.
LEMMA StandsStill == ASSUME IInv, UNCHANGED vars PROVE Sound /\ IInv'
  <1>1. Prepared(ex, jobs, queue)
    BY GrowsReflexive DEF IInv, Prepared
  <1>2. Continue(ex, jobs, queue)
    BY DEF Continue, vars
  <1>3. Sound
    BY <1>1, <1>2, ContinueSound
  <1> QED BY <1>3, StutterInv

\* A command that sends an event to those who hear it.
LEMMA SendSound ==
  ASSUME EInv, NEW n, Hits(n) # {}, Calls(n), cmd' = CompleteC, subs' \subseteq subs,
         UNCHANGED <<ex, tasks, jobs, joins, queue, collapsing, completed>>
  PROVE  Sound /\ EInv'
  <1>1. PICK b \in Nat : EventsIn(ex, b, subs, calls)
    BY DEF EInv
  <1>2. Hits(n) \subseteq SubIn(ex, b) /\ subs' \subseteq SubIn(ex, b)
    BY <1>1, SubsDropOnly DEF EventsIn
  <1>3. Tree(ex) /\ IInv
    BY DEF EInv, IInv
  <1>4. Root \in DOMAIN ex
    <2>1. PICK s \in Hits(n) : TRUE
      OBVIOUS
    <2>2. s.ex \in DOMAIN ex
      BY <1>2, <2>1 DEF SubIn
    <2> QED BY <1>3, <2>2, TreeDomain DEF Root
  <1>5. Sound
    BY <1>3, <1>4, GrowsReflexive DEF Sound, IInv, Command
  <1>6. IInv'
    BY <1>3, <1>5, SoundFrame
  <1> DEFINE r == [tok |-> 0, node |-> None, rest |-> <<>>, hits |-> Hits(n), firing |-> None]
             S == CallIn(ex, b)
  <1>7. <<r>> \o <<>> \in Seq(S)
    <2> DEFINE c == SubSeq(queue, 1, 0)
    <2>1. c = <<>>
      BY <1>3 DEF IInv
    <2>2. c \in Seq(S) /\ c \in Seq(EventIn(ex))
      BY <2>1
    <2> HIDE DEF c
    <2>3. <<[tok |-> 0, node |-> None, rest |-> c, hits |-> Hits(n), firing |-> None]>> \o c \in Seq(S)
      BY <1>2, <1>3, <2>2, CallAdded
    <2> QED BY <2>1, <2>3
  <1>8. calls' = <<r>>
    BY DEF Calls
  <1> HIDE DEF r, S
  <1>9. calls' \in Seq(S)
    BY <1>7, <1>8
  <1>10. EventsIn(ex, b, subs', calls')
    BY <1>2, <1>9 DEF EventsIn, S
  <1>11. Registers
    BY <1>10 DEF Registers
  <1> QED BY <1>5, <1>6, <1>11, EventsStep

\* correlate_message and throw_signal.
LEMMA EventCommandsSound ==
  ASSUME EInv, NEW n \in EventNodes, CorrelateMessage(n) \/ ThrowSignal(n)
  PROVE  Sound /\ EInv'
  <1>1. subs' \subseteq subs
    BY SubsDropOnly DEF CorrelateMessage, ThrowSignal
  <1>2. CASE UNCHANGED vars /\ UNCHANGED calls
    <2>1. Sound /\ IInv'
      BY <1>2, StandsStill DEF EInv
    <2> QED BY <1>1, <1>2, <2>1, Withdraws, EventsStep
  <1>3. CASE Hits(n) # {} /\ Calls(n)
    <2>1. cmd' = CompleteC /\ UNCHANGED <<ex, tasks, jobs, joins, queue, collapsing, completed>>
      BY <1>3 DEF CorrelateMessage, ThrowSignal, Hits
    <2> QED BY <1>1, <1>3, <2>1, SendSound
  <1> QED BY <1>2, <1>3 DEF CorrelateMessage, ThrowSignal, Hits

\* The engine starts with no listener ...
LEMMA EventsInit == ASSUME EInit PROVE EInv
  <1>1. IInv
    BY InitInv DEF EInit
  <1>2. EventsIn(ex, 0, subs, calls)
    BY DEF EInit, EventsIn
  <1> QED BY <1>1, <1>2 DEF EInv

\* ... every step keeps the invariant ...
LEMMA ENextSound == ASSUME EInv, ENext PROVE Sound /\ EInv'
  <1>1. CASE Fire
    BY <1>1, DropStaleSubSound, HearCatchSound, HearInterruptingBoundarySound,
       HearNonInterruptingBoundarySound, HearInterruptingStartSound, HearNonInterruptingStartSound
    DEF Fire
  <1>2. CASE Work
    BY <1>1, <1>2, EngineSound, HostWaitsSound, ScopeOpensSound, ScopeClosesSound, ErrorTakesOverSound,
       EnterEventCatchSound, ThrowEventSound, ResumeThrowerSound, AnswerCallerSound, ReturnCommandSound
    DEF Work
  <1>3. CASE \/ Command0
             \/ \E t \in tasks : Complete(t)
             \/ \E j \in jobs : DropStale(j) \/ TimerCancelsHost(j)
    BY <1>3, CommandsSound
  <1>4. CASE \E j \in jobs : TimerTakesOver(j) \/ TimerStartsBeside(j)
    BY <1>4, TimerStartsSound
  <1>5. CASE \E n \in EventNodes : CorrelateMessage(n) \/ ThrowSignal(n)
    BY <1>5, EventCommandsSound
  <1> QED BY <1>2, <1>3, <1>4, <1>5 DEF ENext

\* ... and so does a step of something else.
LEMMA EventsStutter == ASSUME EInv, UNCHANGED evars PROVE EInv'
  <1>1. UNCHANGED vars /\ subs' \subseteq subs /\ calls' = calls
    BY DEF evars
  <1>2. Sound /\ IInv'
    BY <1>1, StandsStill DEF EInv
  <1> QED BY <1>1, <1>2, Withdraws, EventsStep

\* EInv holds in every reachable state of the engine with its events.
THEOREM EventsInvariant == ESpec => []EInv
  <1>1. EInit => EInv
    BY EventsInit
  <1>2. EInv /\ [ENext]_evars => EInv'
    BY ENextSound, EventsStutter
  <1> QED BY <1>1, <1>2, PTL DEF ESpec

\* The invariant implies that the state is well typed.
LEMMA EventsTyped == ASSUME EInv PROVE EventTypeOK
  <1>1. PICK b \in Nat : EventsIn(ex, b, subs, calls)
    BY DEF EInv
  <1>2. subs \subseteq Subscription
    BY <1>1 DEF EventsIn, SubIn
  <1>3. CallIn(ex, b) \subseteq Call
    BY DEF CallIn
  <1>4. calls \in Seq(Call)
    BY <1>1, <1>3, SeqMonotonic DEF EventsIn
  <1> QED BY <1>2, <1>4, InvTypes DEF EventTypeOK, EInv

\* Whatever the process definition and its events: no subscription, no suspended
\* throw, and no event it kept for later ever refers to an execution that does not exist.
THEOREM EventTypeCorrect == ESpec => []EventTypeOK
  BY EventsInvariant, EventsTyped, PTL

\* Whatever is thrown into an instance, from outside or by its own tokens in the
\* middle of a handler: an execution that ended never runs again, none moves in
\* the tree, and a completed instance stays completed and without jobs.
THEOREM EventsEndedStayEnded == ESpec => EndedForever
  <1> DEFINE Kept == /\ \A e \in DOMAIN ex :
                         e \in DOMAIN ex' /\ ex'[e].path = ex[e].path /\ (ex'[e].live => ex[e].live)
                     /\ completed => completed' /\ jobs' = {}
  <1>1. EInv /\ [ENext]_evars => [Kept]_vars
    <2>1. ASSUME Sound PROVE Kept
      BY <2>1 DEF Sound, Grows
    <2> QED BY <2>1, ENextSound DEF evars
  <1>2. [][Kept]_vars => EndedForever
    BY DEF EndedForever
  <1> HIDE DEF Kept
  <1> QED BY <1>1, <1>2, EventsInvariant, PTL DEF ESpec

=============================================================================
