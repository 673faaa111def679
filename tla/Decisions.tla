------------------------------ MODULE Decisions ------------------------------
(***************************************************************************)
(* The decision engine: a deployed decision table is evaluated rule by     *)
(* rule for given variables, and the hit policy makes one answer of the    *)
(* rules that hit (dmn/engine.py).                                         *)
(*                                                                         *)
(* An entry is a tree of Feel, deployed as the text that Written gives it; *)
(* None is an empty entry.  An answer has a kind: a row, the list of all   *)
(* rows, a number, nothing, or an exception.                               *)
(***************************************************************************)
EXTENDS Feel, FiniteSets, SequencesExt

CONSTANTS
  Tables,        \* the tables that may be deployed
  Environments,  \* the variables a decision may be asked for
  Spelling,      \* names and numbers that are spelled as strings: their letters
  None

VARIABLES
  table,     \* the deployed table: policy, agg, inputs, rules, priority, columns
  version,
  env,       \* the variables of the evaluation
  inputs,    \* the values of the input columns
  rule,      \* the rule to test next
  hits,      \* the rules that hit so far
  outputs,   \* their output entries; an exception counts when a policy reads it
  answer

vars == <<table, version, env, inputs, rule, hits, outputs, answer>>

Policies == {"UNIQUE", "FIRST", "ANY", "PRIORITY", "RULE ORDER", "COLLECT"}
Aggregators == {"SUM", "MIN", "MAX", "COUNT"}

Answer(kind, rows, n) == [kind |-> kind, rows |-> rows, n |-> n]
Nothing == Answer("nothing", <<>>, Null)
Exception == Answer("exception", <<>>, Null)
Row(r) == Answer("row", <<r>>, Null)
Pending == Answer("pending", <<>>, Null)

-----------------------------------------------------------------------------
(* The hit policies.                                                       *)

\* _row_result: what the output entries of rule r evaluate to; at the position 0 of
\* Feel for one that raises.
Outputs(r) ==
  [c \in DOMAIN table.rules[r].outs |->
     IF table.rules[r].outs[c] = None THEN Result(Null, 1)
     ELSE EvalExpression(Written(table.rules[r].outs[c]) \o Eof, env)]

Raising(outs) == \E c \in DOMAIN outs : Raises(outs[c])
RowOf(outs) == [c \in DOMAIN outs |-> outs[c].v]
Rows == [i \in DOMAIN outputs |-> RowOf(outputs[i])]

\* Python's == on values: a boolean is the number 0 or 1.
Plain(v) == IF v.t = "bool" THEN Num(v.p) ELSE v
SameRow(r, s) == \A c \in DOMAIN r : Equal(Plain(r[c]), Plain(s[c]))

NoHit(t) ==
  CASE t.policy = "COLLECT" /\ t.agg = "COUNT" -> Answer("number", <<>>, Num(0))
    [] t.policy = "COLLECT" /\ t.agg \in Aggregators -> Nothing
    [] t.policy \in {"RULE ORDER", "COLLECT"} -> Answer("list", <<>>, Null)
    [] OTHER -> Nothing

\* _literal_text: the text of an entry without quotes, by which the name x and the
\* string "x" are one.
Unquoted(e) ==
  CASE e = None -> <<"text", <<>>>>
    [] e \in DOMAIN Spelling -> <<"text", Spelling[e]>>
    [] e[1] = "lit" /\ e[2].t = "str" -> <<"text", e[2].s>>
    [] OTHER -> <<"tree", e>>

\* The place of the i-th hit in the declared order of outputs: by the text of its
\* entry or by its value, a number with Python's ==.
Rank(t, i) ==
  LET v == outputs[i][1].v
      Fits(p) == \/ Unquoted(t.rules[hits[i]].outs[1]) = Unquoted(<<"lit", p>>)
                 \/ v.t = "str" /\ <<"text", v.s>> = Unquoted(<<"lit", p>>)
                 \/ p.t = "num" /\ Equal(Plain(v), p)
  IN  Min({k \in DOMAIN t.priority : Fits(t.priority[k])} \cup {Len(t.priority) + 1})

\* Faulty variant of Best: the last of equals is taken.
BestLast(t) ==
  CHOOSE i \in DOMAIN hits :
    \A k \in DOMAIN hits : Rank(t, i) < Rank(t, k) \/ (Rank(t, i) = Rank(t, k) /\ k <= i)

\* The hit of the least rank, the first among equals.
Best(t) ==
  CHOOSE i \in DOMAIN hits :
    \A k \in DOMAIN hits : Rank(t, i) < Rank(t, k) \/ (Rank(t, i) = Rank(t, k) /\ i <= k)

Priority(t) ==
  IF t.columns # 1 \/ t.priority = <<>> \/ \E i \in DOMAIN hits : Raising(outputs[i])
  THEN Exception ELSE Row(Rows[Best(t)])

\* The sum of no numbers is 0, their least and greatest is nothing.
Totalled(agg, nums) ==
  LET Extreme(op) == CHOOSE v \in Range(nums) : \A w \in Range(nums) : InOrder(op, v, w)
  IN  CASE \E i \in DOMAIN nums : nums[i].t # "num" -> Exception
        [] agg = "SUM" ->
             Answer("number", <<>>, FoldSeq(LAMBDA v, s : Arith("+", s, v, 1).v, Num(0), nums))
        [] nums = <<>> -> Nothing
        [] OTHER -> Answer("number", <<>>, Extreme(IF agg = "MIN" THEN "<=" ELSE ">="))

Column(rows) == [i \in DOMAIN rows |-> rows[i][1]]
NotNull(v) == v # Null

Collected(t, rows) ==
  CASE t.agg = None -> Answer("list", rows, Null)
    [] t.agg = "COUNT" -> Answer("number", <<>>, Num(Len(rows)))
    [] t.columns # 1 -> Exception
    [] OTHER -> Totalled(t.agg, SelectSeq(Column(rows), NotNull))

\* What the policy of table t makes of the rules that hit.
Converged(t) ==
  LET OneRaises(S) == \E i \in S : Raising(outputs[i])
      Differ == \E i \in DOMAIN hits : ~SameRow(Rows[i], Rows[1])
  IN  CASE hits = <<>> -> NoHit(t)
        [] t.policy = "PRIORITY" -> Priority(t)
        [] \/ t.policy = "UNIQUE" /\ Len(hits) > 1
           \/ OneRaises(IF t.policy \in {"UNIQUE", "FIRST"} THEN {1} ELSE DOMAIN hits)
           \/ t.policy = "ANY" /\ Differ -> Exception
        [] t.policy \in {"UNIQUE", "FIRST", "ANY"} -> Row(Rows[1])
        [] t.policy = "RULE ORDER" -> Answer("list", Rows, Null)
        [] t.policy = "COLLECT" -> Collected(t, Rows)

-----------------------------------------------------------------------------
(* Evaluation.                                                             *)

Init ==
  /\ table = None
  /\ version = 0
  /\ env = <<>>
  /\ inputs = <<>> /\ rule = 0 /\ hits = <<>> /\ outputs = <<>>
  /\ answer = Nothing

Deploy(t) ==
  /\ version = 0   \* bound: one version
  /\ table' = t
  /\ version' = version + 1
  /\ answer' = Nothing
  /\ UNCHANGED <<env, inputs, rule, hits, outputs>>

\* get_decision: nothing is deployed under the key.
AskUnknown ==
  /\ version = 0
  /\ answer' = Exception
  /\ UNCHANGED <<table, version, env, inputs, rule, hits, outputs>>

Taken(ins) ==
  IF Raising(ins)
  THEN answer' = Exception /\ UNCHANGED <<inputs, rule, hits, outputs>>
  ELSE /\ inputs' = RowOf(ins)
       /\ rule' = 1
       /\ hits' = <<>>
       /\ outputs' = <<>>
       /\ answer' = Pending

\* evaluate_decision: the input expressions, for the variables e.
EvaluateInputs(e) ==
  /\ version > 0 /\ rule = 0
  /\ env' = e
  /\ Taken([c \in DOMAIN table.inputs |-> EvalExpression(Written(table.inputs[c]) \o Eof, e)])
  /\ UNCHANGED <<table, version>>

\* Whether a test of the current rule holds; an empty one always does.
Held(test, x) ==
  IF test = None THEN Result(Bool(TRUE), 1) ELSE EvalUnaryTest(WrittenTest(test) \o Eof, x)

\* The columns are read up to the first that does not hold.
Tested(held) ==
  LET stops == {c \in DOMAIN held : Raises(held[c]) \/ held[c].v # Bool(TRUE)}
  IN  CASE stops = {} ->
             /\ rule' = rule + 1
             /\ hits' = Append(hits, rule)
             /\ outputs' = Append(outputs, Outputs(rule))
             /\ UNCHANGED answer
        [] stops # {} /\ Raises(held[Min(stops)]) ->
             answer' = Exception /\ rule' = 0 /\ UNCHANGED <<hits, outputs>>
        [] OTHER -> rule' = rule + 1 /\ UNCHANGED <<hits, outputs, answer>>

TestRule ==
  /\ rule > 0 /\ rule <= Len(table.rules)
  /\ Tested([c \in DOMAIN inputs |-> Held(table.rules[rule].tests[c], inputs[c])])
  /\ UNCHANGED <<table, version, env, inputs>>

Converge ==
  /\ rule > 0 /\ rule > Len(table.rules)
  /\ answer' = Converged(table)
  /\ rule' = 0
  /\ UNCHANGED <<table, version, env, inputs, hits, outputs>>

Next ==
  \/ \E t \in Tables : Deploy(t)
  \/ AskUnknown
  \/ \E e \in Environments : EvaluateInputs(e)
  \/ TestRule
  \/ Converge

Spec == Init /\ [][Next]_vars

-----------------------------------------------------------------------------
(* Properties.                                                             *)

\* What the tests of a rule say: it hits, it misses, or one raises before one misses.
Says(said) ==
  LET stops == {c \in DOMAIN said : said[c] # "yes"}
  IN  IF stops = {} THEN "yes" ELSE said[Min(stops)]

Means(test, x) == IF test = None THEN "yes" ELSE TestMeaning(test, x)
SaidOf(r) == Says([c \in DOMAIN inputs |-> Means(table.rules[r].tests[c], inputs[c])])

\* A test that feel.py:226 cuts short for a null input.
NullCut(r) ==
  \E c \in DOMAIN inputs :
    inputs[c] = Null /\ table.rules[r].tests[c] # None /\ CutShort(table.rules[r].tests[c])

OutputMeaning(out) == IF out = None THEN Result(Null, 1) ELSE Meaning(out, env)

\* What rule r says of itself is what the engine made of it.
ReadAsMeant(r, said) ==
  /\ said # "raises"
  /\ (said = "yes") = Contains(hits, r)

\* feel.py: however the entries are written, precedence, sides, brackets, lists and
\* negations are read as they mean. The inputs and the outputs of the hits have the
\* value of their trees, or raise where those do; a rule is a hit when all its tests
\* hold, and no rule that raises is passed; an evaluation raises only for an input
\* or a rule that says so, or when all rules are read.
RulesHitAsTheySay ==
  version > 0 =>
    /\ rule > 0 => \A c \in DOMAIN inputs : Equal(inputs[c], Meaning(table.inputs[c], env).v)
    /\ \A r \in 1..(rule - 1) : NullCut(r) \/ ReadAsMeant(r, SaidOf(r))
    /\ rule > 0 => \A i \in DOMAIN hits : \A c \in DOMAIN outputs[i] :
         SameResult(outputs[i][c], OutputMeaning(table.rules[hits[i]].outs[c]))
    /\ answer.kind = "exception" =>
         \/ \E c \in DOMAIN table.inputs : Raises(Meaning(table.inputs[c], env))
         \/ \E r \in DOMAIN table.rules : NullCut(r) \/ SaidOf(r) = "raises"
         \/ \A r \in DOMAIN table.rules : ReadAsMeant(r, SaidOf(r))

Under(p, a) == Converged([table EXCEPT !.policy = p, !.agg = a])
Ranked(order) == Converged([table EXCEPT !.policy = "PRIORITY", !.priority = order])
Holds(a) == a.kind # "exception"
Unknown == Str(<<9>>)   \* an output of no table
Ascending(order) ==
  \A i, k \in DOMAIN order : i < k => Comparable(order[i], order[k]) /\ Less(order[i], order[k])

\* The head, the list, the count and the only row are the same rows.
OneListOfRows(list, first) ==
  Holds(list) =>
    /\ first = Row(list.rows[1])
    /\ Under("COLLECT", None) = list
    /\ Under("COLLECT", "COUNT").n = Num(Len(list.rows))
    /\ Under("UNIQUE", None) = IF Len(list.rows) > 1 THEN Exception ELSE first
    /\ Under("ANY", None) \in {Exception, first}
    /\ table.columns = 1 => Ranked(<<Unknown>>) = first

\* The sum of column c lies between its extremes times the number of its values.
BetweenExtremes(c, least, sum, most) ==
  LET n == Num(Len(SelectSeq(c, NotNull)))
  IN  Holds(least) /\ least.kind = "number" =>
        /\ ~Less(sum.n, Arith("*", least.n, n, 1).v)
        /\ ~Less(Arith("*", most.n, n, 1).v, sum.n)
        /\ Range(c) \subseteq Range(table.priority) /\ Ascending(table.priority) =>
             Ranked(table.priority) = Row(<<least.n>>)

\* dmn/engine.py:97: the policies make the same of the same hits. UNIQUE, ANY and
\* FIRST give the head of the list; COUNT counts it; the sum lies between the
\* extremes; PRIORITY is FIRST when no output is declared, and MIN when all of them
\* are, from the least to the greatest.
PoliciesAgree ==
  version > 0 /\ rule > Len(table.rules) /\ hits # <<>> =>
    /\ OneListOfRows(Under("RULE ORDER", None), Under("FIRST", None))
    /\ BetweenExtremes(Column(Rows), Under("COLLECT", "MIN"), Under("COLLECT", "SUM"),
                       Under("COLLECT", "MAX"))
=============================================================================
