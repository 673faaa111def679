---------------------------- MODULE MCTokenEngine ----------------------------
(* Process definitions on which TokenEngine is checked. *)
EXTENDS TokenEngine, TLC

\* A definition from a table that gives each node its kind, its container and
\* its outgoing targets; hosts and codes list the exceptions.
Define(table, starts, hosts, codes, cancel, before, after, fail) ==
  LET N == DOMAIN table
      Given(f, n) == IF n \in DOMAIN f THEN f[n] ELSE "none" IN
  [kind   |-> [n \in N |-> table[n][1]],
   home   |-> [n \in N |-> table[n][2]],
   out    |-> [n \in N |-> table[n][3]],
   start  |-> [n \in N \cup {"top"} |-> Given(starts, n)],
   host   |-> [n \in N |-> Given(hosts, n)],
   code   |-> [n \in N |-> Given(codes, n)],
   cancel |-> cancel, before |-> before, after |-> after, fail |-> fail]

\* Four ways to go.  A fork of a user task with a reminder beside it, an async
\* service and a timer wait; a join; a choice; a task with a deadline.  A
\* subProcess that throws an error it catches, one the process catches, or one
\* nobody catches.  An async subProcess with a deadline, a fork and join inside
\* it and a reminder that runs beside them.  Jobs before and after nodes: a
\* service, a user task with a deadline, a choice, a subProcess.  The process
\* has a time limit that takes it over; every path ends.
FlowTable ==
  Define(
    ("s"      :> <<"start", "top", <<"way">>>>) @@
    ("way"    :> <<"xor", "top", <<"fork", "sub", "inn", "pull">>>>) @@
    ("fork"   :> <<"parallel", "top", <<"review", "bill", "wait">>>>) @@
    ("review" :> <<"user", "top", <<"join">>>>) @@
    ("remind" :> <<"boundary", "top", <<"note">>>>) @@
    ("note"   :> <<"user", "top", <<"noted">>>>) @@
    ("noted"  :> <<"end", "top", <<>>>>) @@
    ("bill"   :> <<"service", "top", <<"join">>>>) @@
    ("wait"   :> <<"catch", "top", <<"join">>>>) @@
    ("join"   :> <<"parallel", "top", <<"choose">>>>) @@
    ("choose" :> <<"xor", "top", <<"ship", "done">>>>) @@
    ("ship"   :> <<"user", "top", <<"done">>>>) @@
    ("late"   :> <<"boundary", "top", <<"gone">>>>) @@
    ("gone"   :> <<"end", "top", <<>>>>) @@
    ("done"   :> <<"end", "top", <<>>>>) @@
    ("sub"    :> <<"sub", "top", <<"check">>>>) @@
    ("check"  :> <<"user", "top", <<"pick">>>>) @@
    ("pick"   :> <<"xor", "top", <<"done", "fail">>>>) @@
    ("fail"   :> <<"end", "top", <<>>>>) @@
    ("s1"     :> <<"start", "sub", <<"split">>>>) @@
    ("split"  :> <<"parallel", "sub", <<"test", "prep", "a">>>>) @@
    ("test"   :> <<"xor", "sub", <<"inner", "outer", "loose", "b">>>>) @@
    ("inner"  :> <<"end", "sub", <<>>>>) @@
    ("outer"  :> <<"end", "sub", <<>>>>) @@
    ("loose"  :> <<"end", "sub", <<>>>>) @@
    ("prep"   :> <<"service", "sub", <<"b">>>>) @@
    ("a"      :> <<"user", "sub", <<"test">>>>) @@
    ("b"      :> <<"user", "sub", <<"e1">>>>) @@
    ("e1"     :> <<"end", "sub", <<>>>>) @@
    ("heal"   :> <<"esub", "sub", <<>>>>) @@
    ("s2"     :> <<"errorStart", "heal", <<"r">>>>) @@
    ("r"      :> <<"user", "heal", <<"e2">>>>) @@
    ("e2"     :> <<"end", "heal", <<>>>>) @@
    ("rescue" :> <<"esub", "top", <<>>>>) @@
    ("s3"     :> <<"errorStart", "rescue", <<"q">>>>) @@
    ("q"      :> <<"user", "rescue", <<"e3">>>>) @@
    ("e3"     :> <<"end", "rescue", <<>>>>) @@
    ("inn"    :> <<"sub", "top", <<"look">>>>) @@
    ("slow"   :> <<"boundary", "top", <<"fix">>>>) @@
    ("fix"    :> <<"user", "top", <<"done">>>>) @@
    ("look"   :> <<"user", "top", <<"done">>>>) @@
    ("s4"     :> <<"start", "inn", <<"part">>>>) @@
    ("part"   :> <<"parallel", "inn", <<"c", "d">>>>) @@
    ("c"      :> <<"user", "inn", <<"unite">>>>) @@
    ("d"      :> <<"catch", "inn", <<"unite">>>>) @@
    ("unite"  :> <<"parallel", "inn", <<"e4">>>>) @@
    ("e4"     :> <<"end", "inn", <<>>>>) @@
    ("nag"    :> <<"esub", "inn", <<>>>>) @@
    ("s5"     :> <<"timerStart", "nag", <<"n">>>>) @@
    ("n"      :> <<"user", "nag", <<"e5">>>>) @@
    ("e5"     :> <<"end", "nag", <<>>>>) @@
    ("halt"   :> <<"esub", "inn", <<>>>>) @@
    ("s6"     :> <<"timerStart", "halt", <<"h">>>>) @@
    ("h"      :> <<"user", "halt", <<>>>>) @@
    ("limit"  :> <<"esub", "top", <<>>>>) @@
    ("s7"     :> <<"timerStart", "limit", <<"l">>>>) @@
    ("l"      :> <<"catch", "limit", <<"e7">>>>) @@
    ("e7"     :> <<"end", "limit", <<>>>>) @@
    ("pull"   :> <<"service", "top", <<"send">>>>) @@
    ("send"   :> <<"parallel", "top", <<"ask", "call", "say">>>>) @@
    ("ask"    :> <<"user", "top", <<"meet">>>>) @@
    ("tired"  :> <<"boundary", "top", <<"quit">>>>) @@
    ("quit"   :> <<"service", "top", <<"meet">>>>) @@
    ("meet"   :> <<"xor", "top", <<"back">>>>) @@
    ("call"   :> <<"sub", "top", <<"back">>>>) @@
    ("s8"     :> <<"start", "call", <<"hold">>>>) @@
    ("hold"   :> <<"catch", "call", <<"e8">>>>) @@
    ("e8"     :> <<"end", "call", <<>>>>) @@
    ("say"    :> <<"user", "top", <<"back">>>>) @@
    ("back"   :> <<"parallel", "top", <<"route">>>>) @@
    ("route"  :> <<"xor", "top", <<"book", "done">>>>) @@
    ("book"   :> <<"service", "top", <<"done">>>>),
    ("top" :> "s") @@ ("sub" :> "s1") @@ ("inn" :> "s4") @@ ("call" :> "s8"),
    ("remind" :> "review") @@ ("late" :> "ship") @@ ("slow" :> "inn") @@ ("tired" :> "ask"),
    ("inner" :> "E1") @@ ("outer" :> "E2") @@ ("loose" :> "E3") @@ ("fail" :> "E2") @@
      ("s2" :> "E1") @@ ("s3" :> "E2"),
    {"late", "s2", "s3", "slow", "s6", "s7", "tired"},
    {"bill", "inn", "pull", "ask", "call"}, {"choose", "pull", "route", "book"}, {})
Flows == FlowTable

\* Five ways to raise.  Behaviours that fail after a job has moved its token: a
\* job is left for a token that has moved on, or is run again.  Two of five
\* branches join and go on into a subProcess while the others, still outside it,
\* are looked up inside.  A loop (see MCMultiEngine) that a job comes to.  A
\* subProcess with a boundary that does not interrupt.
Raising ==
  Define(
    ("s"    :> <<"start", "top", <<"way">>>>) @@
    ("way"  :> <<"xor", "top", <<"part", "fork", "load", "room">>>>) @@
    ("part" :> <<"parallel", "top", <<"hold", "post", "say">>>>) @@
    ("hold" :> <<"catch", "top", <<"call">>>>) @@
    ("call" :> <<"service", "top", <<"meet">>>>) @@
    ("post" :> <<"service", "top", <<"choose">>>>) @@
    ("late" :> <<"boundary", "top", <<"choose">>>>) @@
    ("choose" :> <<"xor", "top", <<"meet">>>>) @@
    ("say"  :> <<"user", "top", <<"meet">>>>) @@
    ("meet" :> <<"parallel", "top", <<"done">>>>) @@
    ("fork" :> <<"parallel", "top", <<"join", "join", "pick", "w", "x">>>>) @@
    ("join" :> <<"parallel", "top", <<"sub">>>>) @@
    ("sub"  :> <<"sub", "top", <<"done">>>>) @@
    ("s1"   :> <<"start", "sub", <<"u">>>>) @@
    ("u"    :> <<"user", "sub", <<"e1">>>>) @@
    ("e1"   :> <<"end", "sub", <<>>>>) @@
    ("pick" :> <<"xor", "top", <<"a", "b", "c", "d", "e", "f", "g">>>>) @@
    ("a"    :> <<"user", "top", <<"done">>>>) @@
    ("a1"   :> <<"boundary", "top", <<"done">>>>) @@
    ("b"    :> <<"sub", "top", <<"done">>>>) @@
    ("b1"   :> <<"boundary", "top", <<"done">>>>) @@
    ("s2"   :> <<"start", "b", <<"e2">>>>) @@
    ("e2"   :> <<"end", "b", <<>>>>) @@
    ("c"    :> <<"service", "top", <<"done">>>>) @@
    ("c1"   :> <<"boundary", "top", <<"done">>>>) @@
    ("d"    :> <<"xor", "top", <<"done">>>>) @@
    ("e"    :> <<"parallel", "top", <<"done">>>>) @@
    ("f"    :> <<"service", "top", <<"done">>>>) @@
    ("g"    :> <<"catch", "top", <<"done">>>>) @@
    ("w"    :> <<"user", "top", <<"done">>>>) @@
    ("w1"   :> <<"boundary", "top", <<"v">>>>) @@
    ("v"    :> <<"service", "top", <<"t">>>>) @@
    ("t"    :> <<"catch", "top", <<"done">>>>) @@
    ("x"    :> <<"user", "top", <<"done">>>>) @@
    ("load" :> <<"service", "top", <<"list">>>>) @@
    ("list" :> <<"xor", "top", <<"each", "row", "bag">>>>) @@
    ("each" :> <<"service", "top", <<"done">>>>) @@
    ("row"  :> <<"service", "top", <<"done">>>>) @@
    ("bag"  :> <<"user", "top", <<"done">>>>) @@
    ("room" :> <<"sub", "top", <<"done">>>>) @@
    ("r1"   :> <<"boundary", "top", <<"done">>>>) @@
    ("r2"   :> <<"boundary", "top", <<"done">>>>) @@
    ("s3"   :> <<"start", "room", <<"e3">>>>) @@
    ("e3"   :> <<"end", "room", <<>>>>) @@
    ("done" :> <<"end", "top", <<>>>>),
    ("top" :> "s") @@ ("sub" :> "s1") @@ ("b" :> "s2") @@ ("room" :> "s3"),
    ("a1" :> "a") @@ ("b1" :> "b") @@ ("c1" :> "c") @@ ("w1" :> "w") @@ ("late" :> "post") @@
      ("r1" :> "room") @@ ("r2" :> "room"), <<>>,
    {"a1", "b1", "c1", "late", "r2"}, {"c", "v", "post", "load"}, {"choose"},
    {"call", "post", "choose", "each", "row", "bag"})

\* A fork of three inside a subProcess: two of its branches join and end, while
\* the third still runs.
PartialJoin ==
  Define(
    ("s"    :> <<"start", "top", <<"sub">>>>) @@
    ("sub"  :> <<"sub", "top", <<"done">>>>) @@
    ("done" :> <<"end", "top", <<>>>>) @@
    ("s1"   :> <<"start", "sub", <<"fork">>>>) @@
    ("fork" :> <<"parallel", "sub", <<"a", "b", "c">>>>) @@
    ("a"    :> <<"user", "sub", <<"join">>>>) @@
    ("b"    :> <<"user", "sub", <<"join">>>>) @@
    ("c"    :> <<"user", "sub", <<"e2">>>>) @@
    ("join" :> <<"parallel", "sub", <<"e1">>>>) @@
    ("e1"   :> <<"end", "sub", <<>>>>) @@
    ("e2"   :> <<"end", "sub", <<>>>>),
    ("top" :> "s") @@ ("sub" :> "s1"), <<>>, <<>>, {}, {}, {}, {})

=============================================================================
