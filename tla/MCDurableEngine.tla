--------------------------- MODULE MCDurableEngine ---------------------------
(* Process definitions on which DurableEngine is checked. *)
EXTENDS DurableEngine, MCEventEngine

\* Two ways to go.  Three branches that join: a token waits for a message, a task
\* with a deadline can be stopped or told about, a job may fail.  Or a subProcess
\* with a message for its deadline, beside whose task another message starts a
\* line.  The process has a time limit.
SavedTable ==
  Define(
    ("s"     :> <<"start", "top", <<"way">>>>) @@
    ("way"   :> <<"xor", "top", <<"fork", "sub">>>>) @@
    ("fork"  :> <<"parallel", "top", <<"hear", "work", "bill">>>>) @@
    ("hear"  :> <<"eventCatch", "top", <<"join">>>>) @@
    ("work"  :> <<"user", "top", <<"meet">>>>) @@
    ("late"  :> <<"boundary", "top", <<"meet">>>>) @@
    ("stop"  :> <<"eventBoundary", "top", <<"meet">>>>) @@
    ("meet"  :> <<"xor", "top", <<"join">>>>) @@
    ("tell"  :> <<"eventBoundary", "top", <<"told">>>>) @@
    ("told"  :> <<"user", "top", <<"done">>>>) @@
    ("bill"  :> <<"service", "top", <<"join">>>>) @@
    ("join"  :> <<"parallel", "top", <<"done">>>>) @@
    ("sub"   :> <<"sub", "top", <<"done">>>>) @@
    ("quit"  :> <<"eventBoundary", "top", <<"fix">>>>) @@
    ("fix"   :> <<"user", "top", <<"done">>>>) @@
    ("done"  :> <<"end", "top", <<>>>>) @@
    ("s1"    :> <<"start", "sub", <<"u">>>>) @@
    ("u"     :> <<"user", "sub", <<"e1">>>>) @@
    ("e1"    :> <<"end", "sub", <<>>>>) @@
    ("news"  :> <<"esub", "sub", <<>>>>) @@
    ("s2"    :> <<"eventStart", "news", <<"v">>>>) @@
    ("v"     :> <<"user", "news", <<"e2">>>>) @@
    ("e2"    :> <<"end", "news", <<>>>>) @@
    ("limit" :> <<"esub", "top", <<>>>>) @@
    ("s3"    :> <<"timerStart", "limit", <<"w">>>>) @@
    ("w"     :> <<"catch", "limit", <<"e3">>>>) @@
    ("e3"    :> <<"end", "limit", <<>>>>),
    ("top" :> "s") @@ ("sub" :> "s1"),
    ("late" :> "work") @@ ("stop" :> "work") @@ ("tell" :> "work") @@ ("quit" :> "sub"), <<>>,
    {"late", "stop", "quit", "s3"}, {"bill"}, {}, {"bill"})
SavedFlows == SavedTable
SavedList ==
  <<E("hear", "message", "m"), E("stop", "message", "stop"), E("tell", "signal", "tell"),
    E("quit", "message", "stop"), E("s2", "message", "news")>>
SavedEvents == SavedList

=============================================================================
