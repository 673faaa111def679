---------------------------- MODULE MCMultiEngine ----------------------------
(* Process definitions on which MultiEngine is checked. *)
EXTENDS MultiEngine, MCTokenEngine

Upto == 0..3

\* Completion conditions: none, "at least k instances are completed".
Never == {}
AtLeast(k) == {c \in Upto : c >= k} \X Upto

\* ... or "at most k instances are still active".
AtMost(k) == Upto \X {a \in Upto : a <= k}

Many(sequential, sizes, ends) == [sequential |-> sequential, sizes |-> sizes, ends |-> ends]

\* Three ways to go.  A vote beside a fork's other branch, on any number of
\* ballots; services for a list, then services at once, then a list of steps that
\* each fork and join; a subProcess with a deadline whose parts run at once.
LoopTable ==
  Define(
    ("s"     :> <<"start", "top", <<"way">>>>) @@
    ("way"   :> <<"xor", "top", <<"fork", "mail", "parcel", "teams">>>>) @@
    ("fork"  :> <<"parallel", "top", <<"vote", "count">>>>) @@
    ("vote"  :> <<"user", "top", <<"join">>>>) @@
    ("count" :> <<"user", "top", <<"join">>>>) @@
    ("join"  :> <<"parallel", "top", <<"done">>>>) @@
    ("mail"  :> <<"service", "top", <<"calls">>>>) @@
    ("calls" :> <<"service", "top", <<"steps">>>>) @@
    ("steps" :> <<"sub", "top", <<"sign">>>>) @@
    ("s1"    :> <<"start", "steps", <<"f1">>>>) @@
    ("f1"    :> <<"parallel", "steps", <<"a1", "b1">>>>) @@
    ("a1"    :> <<"user", "steps", <<"j1">>>>) @@
    ("b1"    :> <<"service", "steps", <<"j1">>>>) @@
    ("j1"    :> <<"parallel", "steps", <<"e1">>>>) @@
    ("e1"    :> <<"end", "steps", <<>>>>) @@
    ("sign"  :> <<"user", "top", <<"done">>>>) @@
    ("parcel" :> <<"sub", "top", <<"done">>>>) @@
    ("limit" :> <<"boundary", "top", <<"done">>>>) @@
    ("s2"    :> <<"start", "parcel", <<"parts">>>>) @@
    ("parts" :> <<"sub", "parcel", <<"e2">>>>) @@
    ("e2"    :> <<"end", "parcel", <<>>>>) @@
    ("s3"    :> <<"start", "parts", <<"check">>>>) @@
    ("check" :> <<"user", "parts", <<"e3">>>>) @@
    ("e3"    :> <<"end", "parts", <<>>>>) @@
    ("teams" :> <<"sub", "top", <<"done">>>>) @@
    ("s4"    :> <<"start", "teams", <<"ask">>>>) @@
    ("ask"   :> <<"user", "teams", <<"tell">>>>) @@
    ("tell"  :> <<"service", "teams", <<"e4">>>>) @@
    ("e4"    :> <<"end", "teams", <<>>>>) @@
    ("note"  :> <<"esub", "teams", <<>>>>) @@
    ("s5"    :> <<"timerStart", "note", <<"e5">>>>) @@
    ("e5"    :> <<"end", "note", <<>>>>) @@
    ("stop"  :> <<"esub", "top", <<>>>>) @@
    ("s6"    :> <<"timerStart", "stop", <<"why">>>>) @@
    ("why"   :> <<"user", "stop", <<"e6">>>>) @@
    ("e6"    :> <<"end", "stop", <<>>>>) @@
    ("done"  :> <<"end", "top", <<>>>>),
    "top" :> "s" @@ "steps" :> "s1" @@ "parcel" :> "s2" @@ "parts" :> "s3" @@ "teams" :> "s4",
    "limit" :> "parcel", <<>>, {"limit", "s6"}, {}, {}, {})
LoopFlows == LoopTable

LoopHosts ==
  "vote" :> Many(FALSE, {0, 2, 3}, {Never, AtLeast(1), AtLeast(2)}) @@
  "mail" :> Many(TRUE, {0, 2}, {Never, AtLeast(1)}) @@
  "calls" :> Many(FALSE, {2}, {Never, AtLeast(1)}) @@
  "steps" :> Many(TRUE, {1, 2}, {Never, AtLeast(1)}) @@
  "sign" :> Many(TRUE, {2}, {Never, AtLeast(1)}) @@
  "parts" :> Many(FALSE, {1, 3}, {AtMost(1), AtLeast(2)}) @@
  "teams" :> Many(FALSE, {2}, {Never, AtLeast(1)}) @@
  "ask"   :> Many(FALSE, {2}, {Never, AtLeast(1)}) @@
  "tell"  :> Many(TRUE, {0, 2}, {Never}) @@
  "why"   :> Many(FALSE, {2}, {Never})
LoopList == LoopHosts

\* Two subProcess instances that each fork and join.
PairTable ==
  Define(
    ("s"   :> <<"start", "top", <<"parts">>>>) @@
    ("parts" :> <<"sub", "top", <<"done">>>>) @@
    ("s1"  :> <<"start", "parts", <<"f1">>>>) @@
    ("f1"  :> <<"parallel", "parts", <<"a1", "b1">>>>) @@
    ("a1"  :> <<"user", "parts", <<"j1">>>>) @@
    ("b1"  :> <<"user", "parts", <<"j1">>>>) @@
    ("j1"  :> <<"parallel", "parts", <<"e1">>>>) @@
    ("e1"  :> <<"end", "parts", <<>>>>) @@
    ("done" :> <<"end", "top", <<>>>>),
    "top" :> "s" @@ "parts" :> "s1", <<>>, <<>>, {}, {}, {}, {})
PairFlows == PairTable
PairHosts == "parts" :> Many(FALSE, {2}, {Never})
PairList == PairHosts

\* The loops of Raising: a service each, and a user task without a list.
RaisingHosts ==
  "each" :> Many(FALSE, {2}, {Never, AtLeast(1)}) @@
  "row"  :> Many(TRUE, {2}, {Never}) @@
  "bag"  :> Many(FALSE, {1}, {Never})
RaisingList == RaisingHosts
==============================================================================
