----------------------------- MODULE MCDecisions -----------------------------
(* Decision tables on which Decisions is checked: every small expression, every *)
(* test and lists of them, and every policy over rules that hit alike or not.   *)
EXTENDS Decisions

L(v) == <<"lit", v>>
X == <<"name", "x">>
a == Str(<<1>>)
b == Str(<<2>>)

Leaves == {L(Num(2)), L(Num(3)), X}
Pairs(S, T) == {<<o, e, f>> : o \in {"+", "-", "*", "/"}, e \in S, f \in T}
Shallow == Leaves \cup {<<"neg", e>> : e \in Leaves} \cup Pairs({L(Num(2)), X}, {L(Num(3)), X})
Expressions == Pairs(Shallow, Shallow) \cup {<<"neg", e>> : e \in Shallow}

Bounds == {L(Num(1)), <<"+", L(Num(1)), L(Num(1))>>, L(a), L(Null)}
Atoms ==
  {<<"cmp", o, e>> : o \in Orders \cup {"=", "!="}, e \in Bounds}
  \cup {<<"in", o, e, f, c>> : o \in {"[", "]", "("}, e \in {L(Num(1)), L(a)},
                              f \in {L(Num(2)), L(b)}, c \in {"]", "[", ")"}}
  \cup {<<"is", e>> : e \in Bounds \cup {L(Bool(TRUE))}}
Few == {<<"cmp", "<", L(Num(2))>>, <<"cmp", "!=", L(Num(2))>>, <<"is", L(Null)>>,
        <<"in", "(", L(Num(1)), L(Num(3)), "]">>}
Lists == {<<"any", <<t, u>>>> : t \in Atoms, u \in Few} \cup {<<"any", <<t, u, t>>>> : t, u \in Few}
Tests == Atoms \cup Lists \cup {<<"not", t>> : t \in Atoms \cup Lists}

Table(policy, agg, ins, rules, priority) ==
  [policy |-> policy, agg |-> agg, inputs |-> ins, rules |-> rules, priority |-> priority,
   columns |-> Len(rules[1].outs)]
Rule(tests, outs) == [tests |-> tests, outs |-> outs]

\* An expression as an input and as the output of a list.
OfExpressions ==
  {Table("RULE ORDER", None, <<e>>, <<Rule(<<None>>, <<e>>)>>, <<>>) : e \in Expressions}

\* A test in the second column, after one that may miss.
OfTests ==
  {Table("FIRST", None, <<X, X>>, <<Rule(<<None, t>>, <<L(a)>>), Rule(<<<<"is", X>>, t>>, <<None>>)>>,
         <<>>) : t \in Tests}

\* The string a reads as the name x does, the string b as the number 2.
Spelled == [e \in {X, L(Num(2))} |-> IF e = X THEN a.s ELSE b.s]

Outs == {L(Num(1)), L(Num(2)), <<"+", L(Num(1)), L(Num(1))>>, L(Bool(TRUE)), L(a), L(b), X, None}
Converging == {<<p, None>> : p \in Policies} \cup {<<"COLLECT", g>> : g \in Aggregators}
Orderings == {<<>>, <<Num(1), Num(2)>>, <<a, Num(2), Num(1)>>}

\* Three rules: for numbers above 1, for every input, for anything but the number 1.
Three(ch, outs, order) ==
  Table(ch[1], ch[2], <<X>>,
        <<Rule(<<<<"cmp", ">", L(Num(1))>>>>, <<outs[1]>>), Rule(<<None>>, <<outs[2]>>),
          Rule(<<<<"any", <<<<"is", L(Null)>>, <<"cmp", "!=", L(Num(1))>>>>>>>>, <<outs[3]>>)>>,
        order)

OfPolicies ==
  {Three(<<"FIRST", None>>, <<o, p, q>>, order) : o, p, q \in Outs, order \in Orderings}
  \cup {Three(ch, <<o, p, o>>, <<a, Num(2), Num(1)>>) : ch \in Converging, o, p \in Outs}
  \cup {Table(ch[1], ch[2], <<X>>, <<Rule(<<None>>, <<L(a), o>>), Rule(<<None>>, <<L(a), X>>)>>,
              <<a>>) : ch \in Converging, o \in Outs}

Decided == OfExpressions \cup OfTests \cup OfPolicies

Given == {<<>>} \cup {[x |-> v] : v \in {Num(1), Num(2), Bool(TRUE), a}}
==============================================================================
