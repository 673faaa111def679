---------------------------- MODULE MCEventEngine ----------------------------
(* Process definitions on which EventEngine is checked. *)
EXTENDS EventEngine, MCTokenEngine

E(n, kind, name) == [node |-> n, kind |-> kind, name |-> name]

\* Five ways to go.  A token that waits for a message, a task with a message
\* that cancels it and a signal that only tells, and a branch that sends that
\* message, then another.  An async subProcess with a message for its deadline,
\* in which one branch throws a message to an event subprocess that takes it
\* over, a signal to the outside, or an error; beside it a note can be sent, and a job comes round.
\* A choice to tell the process itself by an end event.  A subProcess that a signal
\* interrupts, which two of its boundaries and a catch inside it hear, and in which two
\* event subprocesses hear another.  The process can be
\* stopped by a signal, by a timer, and asked for news by a message.
EventTable ==
  Define(
    ("s"     :> <<"start", "top", <<"way">>>>) @@
    ("way"   :> <<"xor", "top", <<"fork", "part", "pair", "twin">>>>) @@
    ("part"  :> <<"parallel", "top", <<"sub", "post">>>>) @@
    ("post"  :> <<"user", "top", <<"again">>>>) @@
    ("again" :> <<"xor", "top", <<"done", "beat">>>>) @@
    ("beat"  :> <<"service", "top", <<"again">>>>) @@
    ("fork"  :> <<"parallel", "top", <<"hear", "work", "ring">>>>) @@
    ("hear"  :> <<"eventCatch", "top", <<"join">>>>) @@
    ("work"  :> <<"user", "top", <<"meet">>>>) @@
    ("stop"  :> <<"eventBoundary", "top", <<"meet">>>>) @@
    ("meet"  :> <<"xor", "top", <<"join">>>>) @@
    ("tell"  :> <<"eventBoundary", "top", <<"told">>>>) @@
    ("told"  :> <<"end", "top", <<>>>>) @@
    ("ring"  :> <<"user", "top", <<"send">>>>) @@
    ("send"  :> <<"throw", "top", <<"cue">>>>) @@
    ("cue"   :> <<"eventCatch", "top", <<"bye">>>>) @@
    ("bye"   :> <<"throwEnd", "top", <<>>>>) @@
    ("join"  :> <<"parallel", "top", <<"done">>>>) @@
    ("done"  :> <<"end", "top", <<>>>>) @@
    ("sub"   :> <<"sub", "top", <<"check">>>>) @@
    ("quit"  :> <<"eventBoundary", "top", <<"gone">>>>) @@
    ("gone"  :> <<"throwEnd", "top", <<>>>>) @@
    ("check" :> <<"user", "top", <<"done">>>>) @@
    ("tick"  :> <<"boundary", "top", <<"done">>>>) @@
    ("beep"  :> <<"eventBoundary", "top", <<"done">>>>) @@
    ("s1"    :> <<"start", "sub", <<"split">>>>) @@
    ("split" :> <<"parallel", "sub", <<"wait", "pick">>>>) @@
    ("wait"  :> <<"eventCatch", "sub", <<"e1">>>>) @@
    ("pick"  :> <<"xor", "sub", <<"out", "in", "err">>>>) @@
    ("out"   :> <<"throw", "sub", <<"e1">>>>) @@
    ("in"    :> <<"throwEnd", "sub", <<>>>>) @@
    ("err"   :> <<"end", "sub", <<>>>>) @@
    ("e1"    :> <<"end", "sub", <<>>>>) @@
    ("heal"  :> <<"esub", "sub", <<>>>>) @@
    ("s2"    :> <<"eventStart", "heal", <<"h">>>>) @@
    ("h"     :> <<"user", "heal", <<"e2">>>>) @@
    ("e2"    :> <<"end", "heal", <<>>>>) @@
    ("mend"  :> <<"esub", "sub", <<>>>>) @@
    ("s9"    :> <<"eventStart", "mend", <<"e9">>>>) @@
    ("e9"    :> <<"end", "mend", <<>>>>) @@
    ("deep"  :> <<"esub", "heal", <<>>>>) @@
    ("s3"    :> <<"eventStart", "deep", <<"e3">>>>) @@
    ("e3"    :> <<"end", "deep", <<>>>>) @@
    ("save"  :> <<"esub", "sub", <<>>>>) @@
    ("s4"    :> <<"errorStart", "save", <<"v">>>>) @@
    ("v"     :> <<"user", "save", <<"e4">>>>) @@
    ("e4"    :> <<"end", "save", <<>>>>) @@
    ("side"  :> <<"esub", "sub", <<>>>>) @@
    ("s5"    :> <<"timerStart", "side", <<"w">>>>) @@
    ("w"     :> <<"eventCatch", "side", <<"e5">>>>) @@
    ("e5"    :> <<"end", "side", <<>>>>) @@
    ("pair"  :> <<"parallel", "top", <<"one", "two">>>>) @@
    ("one"   :> <<"eventCatch", "top", <<"after">>>>) @@
    ("two"   :> <<"eventCatch", "top", <<"once">>>>) @@
    ("once"  :> <<"throwEnd", "top", <<>>>>) @@
    ("after" :> <<"user", "top", <<"done">>>>) @@
    ("twin"  :> <<"parallel", "top", <<"case", "rest">>>>) @@
    ("rest"  :> <<"user", "top", <<"done">>>>) @@
    ("case"  :> <<"sub", "top", <<"done">>>>) @@
    ("cut"   :> <<"eventBoundary", "top", <<"after">>>>) @@
    ("stray" :> <<"eventBoundary", "top", <<"done">>>>) @@
    ("s10"   :> <<"start", "case", <<"idle">>>>) @@
    ("idle"  :> <<"eventCatch", "case", <<"e10">>>>) @@
    ("e10"   :> <<"end", "case", <<>>>>) @@
    ("grab"  :> <<"esub", "case", <<>>>>) @@
    ("s11"   :> <<"eventStart", "grab", <<"held">>>>) @@
    ("held"  :> <<"user", "grab", <<"e11">>>>) @@
    ("e11"   :> <<"end", "grab", <<>>>>) @@
    ("seize" :> <<"esub", "case", <<>>>>) @@
    ("s12"   :> <<"eventStart", "seize", <<"kept">>>>) @@
    ("kept"  :> <<"user", "seize", <<"e12">>>>) @@
    ("e12"   :> <<"end", "seize", <<>>>>) @@
    ("halt"  :> <<"esub", "top", <<>>>>) @@
    ("s6"    :> <<"eventStart", "halt", <<"x">>>>) @@
    ("x"     :> <<"user", "halt", <<"e6">>>>) @@
    ("e6"    :> <<"end", "halt", <<>>>>) @@
    ("limit" :> <<"esub", "top", <<>>>>) @@
    ("s7"    :> <<"timerStart", "limit", <<"l">>>>) @@
    ("l"     :> <<"eventCatch", "limit", <<"e7">>>>) @@
    ("e7"    :> <<"end", "limit", <<>>>>) @@
    ("news"  :> <<"esub", "top", <<>>>>) @@
    ("s8"    :> <<"eventStart", "news", <<"e8">>>>) @@
    ("e8"    :> <<"end", "news", <<>>>>),
    ("top" :> "s") @@ ("sub" :> "s1") @@ ("case" :> "s10"),
    ("stop" :> "work") @@ ("tell" :> "work") @@ ("quit" :> "sub") @@
      ("tick" :> "check") @@ ("beep" :> "check") @@ ("cut" :> "case") @@ ("stray" :> "case"),
    ("err" :> "E") @@ ("s4" :> "E"),
    {"stop", "quit", "tick", "beep", "s2", "s3", "s4", "s6", "s7", "s9",
      "cut", "stray", "s11", "s12"}, {"sub", "work", "beat"}, {}, {})
EventFlows == EventTable

EventList ==
  <<E("hear", "signal", "go"), E("stop", "message", "stop"), E("tell", "signal", "go"),
    E("send", "message", "stop"), E("cue", "message", "cue"), E("bye", "signal", "go"),
    E("quit", "message", "stop"), E("gone", "signal", "end"), E("beep", "signal", "go"),
    E("wait", "signal", "go"), E("out", "signal", "go"), E("in", "message", "mend"),
    E("s2", "message", "mend"), E("s9", "message", "mend"), E("s3", "message", "mend"),
    E("w", "signal", "go"), E("one", "message", "cue"), E("two", "message", "cue"),
    E("once", "message", "news"), E("s6", "signal", "end"), E("l", "message", "cue"),
    E("s8", "message", "news"), E("cut", "signal", "go"), E("stray", "signal", "go"),
    E("s11", "signal", "off"), E("s12", "signal", "off"), E("idle", "signal", "go")>>
Heard == EventList

=============================================================================
