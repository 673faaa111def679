----------------------------- MODULE EventEngine -----------------------------
(***************************************************************************)
(* The token engine with its message and signal events: catch events,      *)
(* boundary events, starts of event subprocesses, throw events, and the    *)
(* commands correlate_message and throw_signal.                            *)
(*                                                                         *)
(* What a token listens for is a subscription in the table _event_subs.    *)
(* Firing one runs a _pump of its own to the end; a throw event fires      *)
(* subscriptions from within a _pump, which is suspended meanwhile: "calls" *)
(* is the stack of those suspended, "queue" belongs to the running one.    *)
(***************************************************************************)
EXTENDS TokenEngine

CONSTANTS
  Events,   \* the message and signal events, in the order of the definition
  MaxLines  \* an instance with that many executions is sent no event that may start a line

EventNodes == {Events[i].node : i \in DOMAIN Events}
HeardKinds == {"eventCatch", "eventBoundary", "eventStart"}
ThrowKinds == {"throw", "throwEnd"}

EventAssumption ==
  /\ Events \in Seq([node: Nodes, kind: {"message", "signal"}, name: STRING])
  /\ \A i, j \in DOMAIN Events : Events[i].node = Events[j].node => i = j
  /\ EventNodes = {n \in Nodes : Kind(n) \in HeardKinds \cup ThrowKinds}
  /\ MaxLines \in Nat

ASSUME EventAssumption

VARIABLES
  subs,   \* _event_subs
  calls   \* the suspended calls, the innermost first

evars == <<vars, subs, calls>>

\* What execution ex listens for: the event of a node.  "at" is its place in the
\* order of registration.
Subscription == [node: Nodes, ex: Nat, scope: Nodes \cup {Top, None}, at: Nat]

\* A throw by token "tok" at "node", or by a caller (tok = 0): the subscriptions
\* it has still to fire, the event it is firing, and the events its own _pump
\* goes on with.
Call == [tok: Nat, node: Nodes \cup {None}, rest: Seq(Event), hits: SUBSET Subscription,
         firing: Nodes \cup {None}]

EventTypeOK ==
  /\ TypeOK
  /\ subs \subseteq Subscription
  /\ calls \in Seq(Call)

-----------------------------------------------------------------------------
(* The table of subscriptions.                                             *)

EventOf(n) == Events[CHOOSE i \in DOMAIN Events : Events[i].node = n]
SameEvent(n, m) == EventOf(n).kind = EventOf(m).kind /\ EventOf(n).name = EventOf(m).name

\* The subscriptions that the table or a suspended throw still refers to, and the
\* place of the latest of them.
Known(s) == s \cup UNION {calls[k].hits : k \in DOMAIN calls}
Latest(s) == CHOOSE a \in {0} \cup {r.at : r \in Known(s)} : \A r \in Known(s) : r.at <= a

\* s with a new subscription of e to each of these nodes, in their order.
Subscribed(s, e, ns, c) ==
  LET last == Latest(s)
  IN  s \cup {[node |-> Events[i].node, ex |-> e, scope |-> c, at |-> last + i] :
                 i \in {i \in DOMAIN Events : Events[i].node \in ns}}

Registered(s, e, c) == {r.node : r \in {r \in s : r.ex = e /\ r.scope = c}}

WithBoundarySubs(s, e, h) ==
  Subscribed(s, e, {b \in Attached(h) : Kind(b) = "eventBoundary"} \ Registered(s, e, None), None)

\* A subProcess that refuses a boundary listens for some of the interrupting ones.
UntilRefusedSubs(s, e, h) ==
  {s \cup b : b \in SUBSET {r \in WithBoundarySubs(s, e, h) \ s : r.node \in Proc.cancel}}

\* Faulty variant of WithStartSubs: only the process is looked at.
WithTopStartSubs(s, e, c) == IF c = Top THEN Subscribed(s, e, EventStarts(c, "eventStart"), c) ELSE s

WithStartSubs(s, e, c) ==
  Subscribed(s, e, EventStarts(c, "eventStart") \ Registered(s, e, c), c)

\* Faulty variant of SubsWithout: the dead still listen.
KeepSubs(s, dead) == s

SubsWithout(s, dead) == {r \in s : r.ex \notin dead}

DropBoundarySubs(s, h) ==
  {r \in s : ~(Kind(r.node) = "eventBoundary" /\ r.node \in Attached(h))}

DropStartSubs(s, e, c) ==
  {r \in s : ~(Kind(r.node) = "eventStart" /\ r.ex = e /\ r.scope = c)}

\* Faulty variant of Left: a boundary only asks whether the activity of its token is over.
LeftIfClosed(s) ==
  LET e == ex[s.ex] IN
  CASE Kind(s.node) = "eventCatch" ->
         ~Here(ex, s.ex, s.node) \/ e.act # s.node \/ e.open = None
    [] Kind(s.node) = "eventBoundary" ->
         ~Here(ex, s.ex, s.node) \/ e.open = None
    [] OTHER ->
         /\ s.scope # Top
         /\ e.role # "SCOPE" \/ e.act # s.scope \/ ~Here(ex, s.ex, s.scope)

\* The token is no longer where the subscription expects it.
Left(s) ==
  LET e == ex[s.ex] IN
  CASE Kind(s.node) = "eventCatch" ->
         ~Here(ex, s.ex, s.node) \/ e.act # s.node \/ e.open = None
    [] Kind(s.node) = "eventBoundary" ->
         ~Here(ex, s.ex, s.node) \/ e.act # Proc.host[s.node] \/ e.open = None
    [] OTHER ->
         /\ s.scope # Top
         /\ e.role # "SCOPE" \/ e.act # s.scope \/ ~Here(ex, s.ex, s.scope)

Gone(s) == completed \/ ~ex[s.ex].live

\* _find_event_subscription: the earliest that listens for the event of node n;
\* those before it whose token or instance is over are reaped.
Listening(n) == {s \in subs : SameEvent(s.node, n)}
Earliest(n) ==
  {s \in Listening(n) : ~Gone(s) /\ \A r \in Listening(n) : r.at < s.at => Gone(r)}

\* Faulty variant of Reaped: all that listen for the event are.
ReapedAll(n) == subs \ Listening(n)

Reaped(n) == subs \ {s \in Listening(n) : Gone(s) /\ \A r \in Earliest(n) : s.at < r.at}

\* Who hears the event of node n: a message the earliest, a signal all of them.
Hits(n) == IF EventOf(n).kind = "message" THEN Earliest(n) ELSE Listening(n)

-----------------------------------------------------------------------------
(* The steps of the token engine, with the subscriptions they register and  *)
(* withdraw.  An exception ends the suspended calls with the command.       *)

Raised == cmd' = NoCmd
Unwind == calls' = IF Raised THEN <<>> ELSE calls

Engine ==
  /\ \/ DropEvent \/ PassStart \/ ReachEnd \/ UncaughtError \/ RunService \/ ChooseFlow
     \/ EnterTimerCatch \/ PassGateway \/ WaitAtJoin \/ DepartNode
     \/ \E e \in DOMAIN ex : CollapseFork(e)
     \/ FinishCollapse
  /\ UNCHANGED subs
  /\ Unwind

\* s unless the step raises, on its container or on a boundary it refuses.
Unless(s) ==
  IF ~Raised THEN {s} ELSE IF Refuses(At) THEN UntilRefusedSubs(subs, Tok, At) ELSE {subs}

\* A host that enters its wait listens for its boundary events.
HostWaits ==
  /\ ScheduleAsyncBefore \/ EnterUserTaskWait
  /\ subs' \in IF Mode = "resume" /\ At \in Proc.before
               THEN {subs}
               ELSE Unless(WithBoundarySubs(subs, Tok, At))
  /\ Unwind

\* A subProcess listens for its boundary events and its event subprocesses.
ScopeOpens ==
  /\ EnterSubprocess
  /\ subs' \in Unless(WithStartSubs(WithBoundarySubs(subs, Tok, At), Tok, At))
  /\ Unwind

\* ... and stops listening when everything inside it is over.
ScopeCloses ==
  /\ \E e \in DOMAIN ex :
       /\ CollapseSubprocess(e)
       /\ subs' = DropStartSubs(DropBoundarySubs(subs, ex[e].act), e, ex[e].act)
  /\ Unwind

\* What the interrupted scope listened for is over; its event subprocess listens
\* for those it contains.
TakenOverSubs(host, scope, e) ==
  LET dead == Victims(ex, host, scope)
  IN  WithStartSubs(DropStartSubs(SubsWithout(subs, dead), host, scope), e, ex'[e].act)

ErrorTakesOver ==
  /\ ThrowError
  /\ LET e == Len(ex) + 1
         host == Head(ex'[e].path)
     IN  subs' = TakenOverSubs(host, Home(ex'[e].act), e)
  /\ UNCHANGED calls

\* The commands of the token engine and the jobs it runs.
Command0 ==
  /\ \/ StartProcess
     \/ \E j \in jobs : \/ FireTimerCatch(j)
                        \/ RunAsyncContinuation(j)
                        \/ RunAsyncAfter(j)
                        \/ FireNonInterruptingBoundary(j)
  /\ UNCHANGED <<subs, calls>>

DropStale(j) == DropStaleJob(j) /\ UNCHANGED <<subs, calls>>

Complete(t) ==
  /\ CompleteTask(t)
  /\ subs' = IF Raised THEN subs ELSE DropBoundarySubs(subs, t.node)
  /\ UNCHANGED calls

\* An activity is cancelled: what runs inside a subProcess stops listening too.
CancelledSubs(e, h) ==
  LET s == DropBoundarySubs(subs, h)
  IN  IF Kind(h) \in SubKinds THEN DropStartSubs(SubsWithout(s, Below(ex, e)), e, h) ELSE s

TimerCancelsHost(j) ==
  /\ FireInterruptingBoundary(j)
  /\ subs' = CancelledSubs(j.ex, Proc.host[j.node])
  /\ UNCHANGED calls

TimerTakesOver(j) ==
  /\ FireInterruptingEventStart(j)
  /\ subs' = TakenOverSubs(j.ex, j.scope, Len(ex) + 1)
  /\ UNCHANGED calls

TimerStartsBeside(j) ==
  /\ FireNonInterruptingEventStart(j)
  /\ subs' = WithStartSubs(subs, Len(ex) + 1, Home(j.node))
  /\ UNCHANGED calls

-----------------------------------------------------------------------------
(* Catching and throwing in the process.                                   *)

EnterEventCatch ==
  /\ Behaves({"eventCatch"})
  /\ Continue(Opened, jobs, Rest)
  /\ subs' = Subscribed(subs, Tok, {At}, None)
  /\ UNCHANGED <<tasks, joins, calls>>

\* _throw_event_in_instance: a message nobody waits for is lost.
ThrowEvent ==
  /\ Behaves(ThrowKinds)
  /\ ex' = Closed
  /\ queue' = <<>>
  /\ calls' = <<[tok |-> Tok, node |-> At, rest |-> Rest, hits |-> Hits(At), firing |-> None]>> \o calls
  /\ subs' = IF EventOf(At).kind = "message" THEN Reaped(At) ELSE subs
  /\ UNCHANGED <<tasks, jobs, joins, collapsing, cmd, completed>>

\* The innermost call, once the _pump it runs is over.
Current == Head(calls)
Answered ==
  /\ cmd # NoCmd
  /\ ~collapsing
  /\ queue = <<>> \/ completed
  /\ calls # <<>>

\* The throwing token goes on, unless the event ended it or its instance.
ResumeThrower ==
  /\ Answered
  /\ Current.hits = {}
  /\ Current.tok # 0
  /\ IF completed \/ ~ex[Current.tok].live
     THEN Continue(ex, jobs, Current.rest)
     ELSE IF Kind(Current.node) = "throw"
     THEN Leave(ex, jobs, Current.rest, Current.tok, Current.node)
     ELSE EndToken(ex, jobs, Current.rest, Current.tok)
  /\ calls' = IF Raised THEN <<>> ELSE Tail(calls)
  /\ UNCHANGED <<tasks, joins, subs>>

AnswerCaller ==
  /\ Answered
  /\ Current.hits = {}
  /\ Current.tok = 0
  /\ calls' = <<>>
  /\ queue' = <<>>
  /\ cmd' = NoCmd
  /\ UNCHANGED <<ex, tasks, jobs, joins, collapsing, completed, subs>>

-----------------------------------------------------------------------------
(* _fire_subscription: the next subscription of the innermost call.        *)

Hit == CHOOSE s \in Current.hits : \A r \in Current.hits : s.at <= r.at

Hears(kind) ==
  /\ Answered
  /\ Current.hits # {}
  /\ ~Gone(Hit) /\ ~Left(Hit)
  /\ Kind(Hit.node) = kind
  /\ calls' = [calls EXCEPT ![1].hits = @ \ {Hit}, ![1].firing = Hit.node]

\* The token has gone since: the subscription is thrown away.
DropStaleSub ==
  /\ Answered
  /\ Current.hits # {}
  /\ Gone(Hit) \/ Left(Hit)
  /\ calls' = [calls EXCEPT ![1].hits = @ \ {Hit}, ![1].firing = None]
  /\ subs' = subs \ {Hit}
  /\ queue' = <<>>
  /\ UNCHANGED <<ex, tasks, jobs, joins, collapsing, cmd, completed>>

HearCatch ==
  /\ Hears("eventCatch")
  /\ ex' = [ex EXCEPT ![Hit.ex].open = None]
  /\ queue' = <<Depart(Hit.ex, Hit.node)>>
  /\ subs' = subs \ {Hit}
  /\ UNCHANGED <<tasks, jobs, joins, collapsing, cmd, completed>>

HearInterruptingBoundary ==
  LET h == Proc.host[Hit.node]
      dead == IF Kind(h) \in SubKinds THEN Below(ex, Hit.ex) ELSE {}
      j1 == DropContinuation(DropBoundaries(Without(jobs, dead), h), Hit.ex, h)
  IN  /\ Hears("eventBoundary")
      /\ Hit.node \in Proc.cancel
      /\ ex' = [Killed(ex, dead) EXCEPT ![Hit.ex].open = None]
      /\ tasks' = Without(tasks, dead) \ {[ex |-> Hit.ex, node |-> h]}
      /\ jobs' = IF Kind(h) \in SubKinds THEN DropEventTimers(j1, Hit.ex, h) ELSE j1
      /\ joins' = Without(joins, dead)
      /\ queue' = <<Depart(Hit.ex, Hit.node)>>
      /\ subs' = CancelledSubs(Hit.ex, h)
      /\ UNCHANGED <<collapsing, cmd, completed>>

\* A boundary that does not interrupt keeps listening.
HearNonInterruptingBoundary ==
  /\ Hears("eventBoundary")
  /\ Hit.node \notin Proc.cancel
  /\ LET path == IF Hit.ex = Root THEN <<Root>> ELSE ex[Hit.ex].path
     IN  ex' = Append(ex, NewExecution(path, "TOKEN", None))
  /\ queue' = <<Depart(Len(ex) + 1, Hit.node)>>
  /\ UNCHANGED <<tasks, jobs, joins, collapsing, cmd, completed, subs>>

HearInterruptingStart ==
  LET dead == Victims(ex, Hit.ex, Hit.scope) IN
  /\ Hears("eventStart")
  /\ Hit.node \in Proc.cancel
  /\ ex' = WithEventSubprocess(TakenOver(ex, Hit.ex, Hit.scope), Hit.ex, Hit.node)
  /\ tasks' = Without(tasks, dead)
  /\ jobs' = DropEventTimers(Without(jobs, dead), Hit.ex, Hit.scope)
               \cup EventTimers(Len(ex) + 1, Home(Hit.node))
  /\ joins' = JoinsTakenOver(dead, Hit.scope)
  /\ queue' = <<Enter(Len(ex) + 2, Hit.node)>>
  /\ subs' = TakenOverSubs(Hit.ex, Hit.scope, Len(ex) + 1)
  /\ UNCHANGED <<collapsing, cmd, completed>>

\* A start that does not interrupt keeps listening.
HearNonInterruptingStart ==
  /\ Hears("eventStart")
  /\ Hit.node \notin Proc.cancel
  /\ ex' = WithEventSubprocess(ex, Hit.ex, Hit.node)
  /\ jobs' = jobs \cup EventTimers(Len(ex) + 1, Home(Hit.node))
  /\ queue' = <<Enter(Len(ex) + 2, Hit.node)>>
  /\ subs' = WithStartSubs(subs, Len(ex) + 1, Home(Hit.node))
  /\ UNCHANGED <<tasks, joins, collapsing, cmd, completed>>

-----------------------------------------------------------------------------
(* correlate_message and throw_signal, for the event of node n.            *)

Calls(n) == calls' = <<[tok |-> 0, node |-> None, rest |-> <<>>, hits |-> Hits(n), firing |-> None]>>

\* Bound: see MaxLines.
Room(n) ==
  Len(ex) < MaxLines \/ \A s \in Hits(n) : Kind(s.node) = "eventCatch"

\* A message that nobody waits for is an error; it reaps what it passes over.
CorrelateMessage(n) ==
  /\ AtRest
  /\ Room(n)
  /\ EventOf(n).kind = "message"
  /\ subs' = Reaped(n)
  /\ IF Earliest(n) = {}
     THEN Reaped(n) # subs /\ UNCHANGED vars /\ UNCHANGED calls
     ELSE /\ Calls(n)
          /\ cmd' = CompleteC
          /\ UNCHANGED <<ex, tasks, jobs, joins, queue, collapsing, completed>>

ThrowSignal(n) ==
  /\ AtRest
  /\ Room(n)
  /\ EventOf(n).kind = "signal"
  /\ Hits(n) # {}
  /\ Calls(n)
  /\ cmd' = CompleteC
  /\ UNCHANGED <<ex, tasks, jobs, joins, queue, collapsing, completed, subs>>

\* Only once it has started does the instance listen for the event subprocesses
\* of the root process.
ReturnCommand ==
  /\ Return
  /\ calls = <<>>
  /\ subs' = IF cmd = StartC THEN IF completed THEN subs ELSE WithStartSubs(subs, Root, Top)
             ELSE IF AsyncOver THEN DropBoundarySubs(subs, cmd.node)
             ELSE subs
  /\ UNCHANGED calls

-----------------------------------------------------------------------------
EInit == Init /\ subs = {} /\ calls = <<>>

Fire ==
  \/ DropStaleSub
  \/ HearCatch
  \/ HearInterruptingBoundary
  \/ HearNonInterruptingBoundary
  \/ HearInterruptingStart
  \/ HearNonInterruptingStart

Work ==
  \/ Engine
  \/ HostWaits
  \/ ScopeOpens
  \/ ScopeCloses
  \/ ErrorTakesOver
  \/ EnterEventCatch
  \/ ThrowEvent
  \/ ResumeThrower
  \/ AnswerCaller
  \/ Fire
  \/ ReturnCommand

ENext ==
  \/ Work
  \/ Command0
  \/ \E t \in tasks : Complete(t)
  \/ \E j \in jobs :
       DropStale(j) \/ TimerCancelsHost(j) \/ TimerTakesOver(j) \/ TimerStartsBeside(j)
  \/ \E n \in EventNodes : CorrelateMessage(n) \/ ThrowSignal(n)

ESpec == EInit /\ [][ENext]_evars

\* The thread that holds the engine lock runs on.
ELiveSpec == ESpec /\ WF_evars(Work)

-----------------------------------------------------------------------------
(* Properties.                                                             *)

CaughtBy(e) == {s \in subs : s.ex = e /\ Kind(s.node) = "eventCatch"}

\* Between commands no token is lost and none is in two places: a live execution
\* waits for one thing, a task, a job, a join or an event, or for its subtree;
\* only the root may wait for something while lines run below it.
EveryTokenWaitsOrListens ==
  AtRest =>
    \A e \in DOMAIN ex : ex[e].live =>
      LET n == Cardinality(Waits(e)) + Cardinality(CaughtBy(e)) IN
      /\ n <= 1
      /\ n = 0 => Children(ex, e) # {}
      /\ n = 1 /\ e # Root => Children(ex, e) = {}

\* Between commands every subscription of a running instance stands for
\* something that still waits where it was registered, and none is registered
\* twice: no event is swallowed by what is over, or heard twice by one token.
SubscriptionsAreCurrent ==
  AtRest /\ ~completed =>
    \A s \in subs :
      /\ ~Gone(s) /\ ~Left(s)
      /\ Kind(s.node) = "eventStart" => Children(ex, s.ex) # {} \/ s.ex = Root
      /\ \A r \in subs : r.node = s.node /\ r.ex = s.ex => r = s

\* The event subprocess that took scope c of execution e over.
InterruptedBy(e, c) ==
  {d \in Children(ex, e) :
     /\ ex[d].act \in Nodes
     /\ Kind(ex[d].act) = "esub"
     /\ Home(ex[d].act) = c
     /\ {s \in Nodes : Home(s) = ex[d].act /\ Kind(s) \in StartKinds} \subseteq Proc.cancel}

\* Between commands everything that may be interrupted or told is listening: an
\* open host for each of its boundary events, a scope that runs for the start of
\* each of its event subprocesses until one of them takes it over.
ListenersInPlace ==
  AtRest /\ ~completed =>
    \A e \in DOMAIN ex : ex[e].live =>
      /\ ex[e].open # None =>
           {b \in Attached(ex[e].open) : Kind(b) = "eventBoundary"} \subseteq Registered(subs, e, None)
      /\ \A c \in {ex[e].act} \cup (IF e = Root THEN {Top} ELSE {}) :
           /\ c = Top \/ (c \in Nodes /\ Kind(c) \in SubKinds /\ ex[e].role = "SCOPE")
           /\ InterruptedBy(e, c) = {}
           => EventStarts(c, "eventStart") \subseteq Registered(subs, e, c)

\* What hears an event still has its subscription: nothing that was withdrawn while the
\* event was on its way is fired all the same.  The exception is a start of an event
\* subprocess: of two in one scope that hear the same signal the first takes the scope
\* over and withdraws the other, which still finds the scope as it expects it.
OnlyHeldFire ==
  [][\A kind \in HeardKinds : Hears(kind) =>
       \/ Hit \in subs
       \/ kind = "eventStart" /\ InterruptedBy(Hit.ex, Hit.scope) # {}]_evars

=============================================================================
