-------------------------------- MODULE Feel --------------------------------
(***************************************************************************)
(* The FEEL subset of decision tables: a recursive descent that evaluates  *)
(* while it parses (dmn/feel.py), and what the texts mean.                 *)
(*                                                                         *)
(* A text is the sequence of its tokens, the last one "eof": a literal     *)
(* (true, false and null too), a name, or an operator.  A number is a      *)
(* ratio p/q with q > 0, a string a sequence of letters, a boolean 0 or 1. *)
(* An operator that parses returns a value and the position after it;      *)
(* position 0 says that it raised.                                         *)
(***************************************************************************)
EXTENDS Integers, Sequences

Value(t, p, q, s) == [t |-> t, p |-> p, q |-> q, s |-> s]
Null    == Value("null", 0, 1, <<>>)
Num(i)  == Value("num", i, 1, <<>>)
Str(s)  == Value("str", 0, 1, s)
Bool(b) == Value("bool", IF b THEN 1 ELSE 0, 1, <<>>)

Result(v, i) == [v |-> v, at |-> i]
Raised == Result(Null, 0)
Raises(r) == r.at = 0

-----------------------------------------------------------------------------
(* Values.                                                                 *)

\* _values_equal: null only equals null, a boolean only a boolean.
Equal(a, b) ==
  /\ a.t = b.t
  /\ a.p * b.q = b.p * a.q
  /\ a.s = b.s

SameResult(r, s) == Raises(r) = Raises(s) /\ (Raises(r) \/ Equal(r.v, s.v))

\* _order_cmp and _cmp_key: two numbers or two strings.
Comparable(a, b) == {a.t, b.t} \in {{"num"}, {"str"}}

Before(s, t) ==
  \E k \in 1..Len(t) :
    /\ \A i \in 1..(k - 1) : i <= Len(s) /\ s[i] = t[i]
    /\ k > Len(s) \/ s[k] < t[k]

Less(a, b) == IF a.t = "num" THEN a.p * b.q < b.p * a.q ELSE Before(a.s, b.s)

Orders == {"<", "<=", ">", ">="}

\* _cmp_bool, on two values that can be compared.
InOrder(op, a, b) ==
  CASE op = "<"  -> Less(a, b)
    [] op = "<=" -> ~Less(b, a)
    [] op = ">"  -> Less(b, a)
    [] op = ">=" -> ~Less(a, b)

Ratio(p, q) == IF q < 0 THEN Value("num", -p, -q, <<>>) ELSE Value("num", p, q, <<>>)

\* _arith, with the concatenation of strings.
Arith(op, a, b, i) ==
  IF op = "+" /\ {a.t, b.t} = {"str"} THEN Result(Str(a.s \o b.s), i)
  ELSE IF {a.t, b.t} # {"num"} \/ (op = "/" /\ b.p = 0) THEN Raised
  ELSE Result(CASE op = "+" -> Ratio(a.p * b.q + b.p * a.q, a.q * b.q)
                [] op = "-" -> Ratio(a.p * b.q - b.p * a.q, a.q * b.q)
                [] op = "*" -> Ratio(a.p * b.p, a.q * b.q)
                [] op = "/" -> Ratio(a.p * b.q, a.q * b.p), i)

Minus(r) ==
  IF Raises(r) \/ r.v.t # "num" THEN Raised ELSE Result([r.v EXCEPT !.p = -@], r.at)

-----------------------------------------------------------------------------
(* Expressions.                                                            *)

IsOp(ts, i, ops) == ts[i].k = "op" /\ ts[i].v \in ops

RECURSIVE Additive(_, _, _), AdditiveOn(_, _, _), Mult(_, _, _), MultOn(_, _, _),
          UnaryExpr(_, _, _)

Primary(ts, env, i) ==
  CASE ts[i].k = "lit" -> Result(ts[i].v, i + 1)
    [] ts[i].k = "name" ->
         IF IsOp(ts, i + 1, {"("}) THEN Raised
         ELSE Result(IF ts[i].v \in DOMAIN env THEN env[ts[i].v] ELSE Null, i + 1)
    [] IsOp(ts, i, {"("}) ->
         LET e == Additive(ts, env, i + 1)
         IN  IF ~Raises(e) /\ IsOp(ts, e.at, {")"}) THEN Result(e.v, e.at + 1) ELSE Raised
    [] OTHER -> Raised

UnaryExpr(ts, env, i) ==
  IF IsOp(ts, i, {"-"}) THEN Minus(UnaryExpr(ts, env, i + 1)) ELSE Primary(ts, env, i)

\* The operators of one level are taken from the left.
MultOn(ts, env, l) ==
  IF Raises(l) \/ ~IsOp(ts, l.at, {"*", "/"}) THEN l
  ELSE LET r == UnaryExpr(ts, env, l.at + 1)
       IN  IF Raises(r) THEN Raised
           ELSE MultOn(ts, env, Arith(ts[l.at].v, l.v, r.v, r.at))

Mult(ts, env, i) == MultOn(ts, env, UnaryExpr(ts, env, i))

AdditiveOn(ts, env, l) ==
  IF Raises(l) \/ ~IsOp(ts, l.at, {"+", "-"}) THEN l
  ELSE LET r == Mult(ts, env, l.at + 1)
       IN  IF Raises(r) THEN Raised
           ELSE AdditiveOn(ts, env, Arith(ts[l.at].v, l.v, r.v, r.at))

Additive(ts, env, i) == AdditiveOn(ts, env, Mult(ts, env, i))

\* eval_expression: the whole text is an expression.
EvalExpression(ts, env) ==
  LET e == Additive(ts, env, 1) IN IF ~Raises(e) /\ ts[e.at].k = "eof" THEN e ELSE Raised

-----------------------------------------------------------------------------
(* Unary tests of an input x.  No variable is known inside them.           *)

Expr(ts, i) == Additive(ts, <<>>, i)

\* The tokens from..end hold the bounds low and high.
Within(ts, x, from, low, high) ==
  IF \/ Raises(low) \/ Raises(high) \/ ~IsOp(ts, low.at, {".."})
     \/ ~IsOp(ts, high.at, {"]", "[", ")"})
  THEN Raised
  ELSE IF x = Null THEN Result(Bool(FALSE), high.at + 1)
  ELSE IF ~Comparable(x, low.v) \/ ~Comparable(x, high.v) THEN Raised
  ELSE Result(Bool(/\ InOrder(IF IsOp(ts, from, {"["}) THEN ">=" ELSE ">", x, low.v)
                   /\ InOrder(IF IsOp(ts, high.at, {"]"}) THEN "<=" ELSE "<", x, high.v)),
              high.at + 1)

IntervalFrom(ts, x, from, low) ==
  IF Raises(low) THEN Raised ELSE Within(ts, x, from, low, Expr(ts, low.at + 1))

Interval(ts, x, i) == IntervalFrom(ts, x, i, Expr(ts, i + 1))

Compared(op, x, rhs) ==
  CASE Raises(rhs) -> Raised
    [] op \in {"=", "!="} -> Result(Bool(Equal(x, rhs.v) = (op = "=")), rhs.at)
    [] ~Comparable(x, rhs.v) -> Raised
    [] OTHER -> Result(Bool(InOrder(op, x, rhs.v)), rhs.at)

\* An ordered comparison of null is false at once: its operand is not read.
Comparison(ts, x, i) ==
  IF ts[i].v \in Orders /\ x = Null THEN Result(Bool(FALSE), i + 1)
  ELSE Compared(ts[i].v, x, Expr(ts, i + 1))

Positive(ts, x, i) ==
  IF IsOp(ts, i, Orders \cup {"=", "!="}) THEN Comparison(ts, x, i)
  ELSE IF IsOp(ts, i, {"[", "]", "("}) THEN Interval(ts, x, i)
  ELSE LET e == Expr(ts, i)
       IN  IF Raises(e) THEN Raised ELSE Result(Bool(Equal(x, e.v)), e.at)

RECURSIVE Disjunction(_, _, _), DisjunctionOn(_, _, _)

Item(ts, x, i) ==
  IF ts[i].k = "name" /\ ts[i].v = "not" /\ IsOp(ts, i + 1, {"("})
  THEN LET d == Disjunction(ts, x, i + 2)
       IN  IF ~Raises(d) /\ IsOp(ts, d.at, {")"})
           THEN Result(Bool(d.v = Bool(FALSE)), d.at + 1) ELSE Raised
  ELSE Positive(ts, x, i)

\* Faulty variant of DisjunctionOn: the items after one that holds are not read.
DisjunctionShort(ts, x, l) ==
  IF Raises(l) \/ ~IsOp(ts, l.at, {","}) \/ l.v = Bool(TRUE) THEN l
  ELSE DisjunctionOn(ts, x, Item(ts, x, l.at + 1))

\* Every item of the list is evaluated; one that holds is enough.
DisjunctionOn(ts, x, l) ==
  IF Raises(l) \/ ~IsOp(ts, l.at, {","}) THEN l
  ELSE LET r == Item(ts, x, l.at + 1)
       IN  IF Raises(r) THEN Raised
           ELSE DisjunctionOn(ts, x, Result(IF r.v = Bool(TRUE) THEN r.v ELSE l.v, r.at))

Disjunction(ts, x, i) == DisjunctionOn(ts, x, Item(ts, x, i))

\* eval_unary_test: what follows the test is ignored.
EvalUnaryTest(ts, x) == Disjunction(ts, x, 1)

-----------------------------------------------------------------------------
(* What texts mean, from their trees.  An expression is a literal, a name, *)
(* <<"neg", e>> or <<op, e, f>>; a test is <<"cmp", op, e>>,               *)
(* <<"in", open, e, f, close>>, <<"is", e>>, <<"any", tests>> or           *)
(* <<"not", test>>.                                                        *)

RECURSIVE Meaning(_, _), Written(_), TestMeaning(_, _), WrittenTest(_), WrittenList(_),
          HasOrder(_), CutShort(_)

Meaning(e, env) ==
  CASE e[1] = "lit" -> Result(e[2], 1)
    [] e[1] = "name" -> Result(IF e[2] \in DOMAIN env THEN env[e[2]] ELSE Null, 1)
    [] e[1] = "neg" -> Minus(Meaning(e[2], env))
    [] OTHER -> LET l == Meaning(e[2], env)
                    r == Meaning(e[3], env)
                IN  IF Raises(l) \/ Raises(r) THEN Raised ELSE Arith(e[1], l.v, r.v, 1)

Op(o) == <<[k |-> "op", v |-> o]>>
Eof == <<[k |-> "eof", v |-> ""]>>

\* How tightly the outermost operator of e binds.
Level(e) == CASE e[1] \in {"+", "-"} -> 1 [] e[1] \in {"*", "/"} -> 2 [] e[1] = "neg" -> 3 [] OTHER -> 4

\* The operand e where an operator of a level is wanted: in parentheses if need be.
Operand(e, level) ==
  IF Level(e) >= level THEN Written(e) ELSE Op("(") \o Written(e) \o Op(")")

Written(e) ==
  CASE e[1] = "lit" -> <<[k |-> "lit", v |-> e[2]]>>
    [] e[1] = "name" -> <<[k |-> "name", v |-> e[2]]>>
    [] e[1] = "neg" -> Op("-") \o Operand(e[2], 3)
    [] OTHER -> Operand(e[2], Level(e)) \o Op(e[1]) \o Operand(e[3], Level(e) + 1)

\* Yes, no, or raises.
TestMeaning(t, x) ==
  CASE t[1] = "cmp" ->
         LET e == Meaning(t[3], <<>>)
         IN  CASE t[2] \in Orders /\ x = Null -> "no"
               [] Raises(e) -> "raises"
               [] t[2] \in {"=", "!="} -> IF Equal(x, e.v) = (t[2] = "=") THEN "yes" ELSE "no"
               [] ~Comparable(x, e.v) -> "raises"
               [] OTHER -> IF InOrder(t[2], x, e.v) THEN "yes" ELSE "no"
    [] t[1] = "in" ->
         LET low == Meaning(t[3], <<>>)
             high == Meaning(t[4], <<>>)
             lower == IF t[2] = "[" THEN ">=" ELSE ">"
             upper == IF t[5] = "]" THEN "<=" ELSE "<"
         IN  CASE Raises(low) \/ Raises(high) -> "raises"
               [] x = Null -> "no"
               [] ~Comparable(x, low.v) \/ ~Comparable(x, high.v) -> "raises"
               [] OTHER -> IF InOrder(lower, x, low.v) /\ InOrder(upper, x, high.v)
                           THEN "yes" ELSE "no"
    [] t[1] = "is" ->
         LET e == Meaning(t[2], <<>>)
         IN  IF Raises(e) THEN "raises" ELSE IF Equal(x, e.v) THEN "yes" ELSE "no"
    [] t[1] = "any" ->
         LET items == {TestMeaning(t[2][i], x) : i \in DOMAIN t[2]}
         IN  IF "raises" \in items THEN "raises" ELSE IF "yes" \in items THEN "yes" ELSE "no"
    [] t[1] = "not" ->
         LET m == TestMeaning(t[2], x)
         IN  CASE m = "raises" -> m [] m = "yes" -> "no" [] m = "no" -> "yes"

WrittenList(ts) ==
  IF Len(ts) = 1 THEN WrittenTest(ts[1]) ELSE WrittenTest(ts[1]) \o Op(",") \o WrittenList(Tail(ts))

WrittenTest(t) ==
  CASE t[1] = "cmp" -> Op(t[2]) \o Written(t[3])
    [] t[1] = "in" -> Op(t[2]) \o Written(t[3]) \o Op("..") \o Written(t[4]) \o Op(t[5])
    [] t[1] = "is" -> Written(t[2])
    [] t[1] = "any" -> WrittenList(t[2])
    [] t[1] = "not" -> <<[k |-> "name", v |-> "not"]>> \o Op("(") \o WrittenTest(t[2]) \o Op(")")

HasOrder(t) ==
  CASE t[1] = "cmp" -> t[2] \in Orders
    [] t[1] = "any" -> \E i \in DOMAIN t[2] : HasOrder(t[2][i])
    [] t[1] = "not" -> HasOrder(t[2])
    [] OTHER -> FALSE

\* The text goes on after an ordered comparison: for null the rest is not read.
CutShort(t) ==
  CASE t[1] = "any" -> \/ \E i \in 1..(Len(t[2]) - 1) : HasOrder(t[2][i])
                       \/ CutShort(t[2][Len(t[2])])
    [] t[1] = "not" -> HasOrder(t[2])
    [] OTHER -> FALSE
=============================================================================
