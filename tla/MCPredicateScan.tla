---------------------------- MODULE MCPredicateScan ----------------------------
(* Columns of two numbers, strings or timestamps with nulls and NaN; every comparison, *)
(* BETWEEN, IN, LIKE and null check with literals at, between and beyond the  *)
(* values, alone, negated, and two by two under AND and OR.                  *)
EXTENDS PredicateScan

Number(n) == [type |-> "number", at |-> n, instant |-> NoInstant]
Text(n) == [type |-> "string", at |-> n, instant |-> NoInstant]
Time(n) == [type |-> "timestamp", at |-> n, instant |-> n]
Iso(n) == [type |-> "string", at |-> 100 + n, instant |-> n]

Compares(columns, sides, values) ==
  [kind : {"compare"}, column : columns, op : Ops, flipped : sides, value : values]
Ins(column, lists) == [kind : {"in"}, column : {column}, values : lists, negated : BOOLEAN]
Betweens(pairs) == {[kind |-> "between", column |-> "v", low |-> b[1], high |-> b[2]] : b \in pairs}
NullChecks == [kind : {"null-check"}, column : {"v"}, negated : BOOLEAN]
Likes == {[kind |-> "like", column |-> "p", like |-> {Text(1)}]}

Alone(leaves) == {<<x>> : x \in leaves}
Negated(leaves) == {<<x, [kind |-> "not", operands |-> <<1>>]>> : x \in leaves}
Pairs(lefts, rights) ==
  {<<x, y, [kind |-> k, operands |-> <<1, 2>>]>> : x \in lefts, y \in rights, k \in {"and", "or"}}
NegatedPairs(lefts, rights) ==
  {Append(e, [kind |-> "not", operands |-> <<3>>]) : e \in Pairs(lefts, rights)}

Straights == {FALSE}
PathLeaves == Compares({"p"}, Straights, {Text(1), Null}) \cup Likes \cup Ins("p", {<<Text(2), Null>>, <<Text(2)>>})
Leaves ==
  Compares({"v"}, BOOLEAN, {Number(1), Number(2), Null, Time(4), Iso(2)})
    \cup Compares({"v"}, Straights, {Number(3), Text(1)})
    \cup Betweens({<<Number(1), Number(2)>>, <<Number(2), Number(3)>>, <<Time(2), Time(4)>>, <<Number(0), Null>>})
    \cup Ins("v", {<<Number(1), Number(3)>>, <<Number(2), Null>>, <<Text(1), Iso(4)>>, <<Time(2), Iso(4)>>, <<>>})
    \cup NullChecks \cup PathLeaves
FewLeaves ==
  {[kind |-> "compare", column |-> "v", op |-> o[1], flipped |-> FALSE, value |-> o[2]] :
     o \in {<<"eq", Number(1)>>, <<"lt", Number(2)>>, <<"gte", Number(2)>>, <<"ne", Text(1)>>, <<"gt", Time(2)>>}}
    \cup NullChecks \cup Likes
    \cup {x \in PathLeaves : x.kind = "compare" /\ x.op = "ne"}

MCExprs == Alone(Leaves) \cup Negated(Leaves) \cup Pairs(FewLeaves, FewLeaves) \cup NegatedPairs(FewLeaves, FewLeaves)
MCIndexedExprs == {e \in MCExprs : IsIndexed(e)}

TwoOf(values) == [1..2 -> values]
MCColumns ==
  TwoOf({Number(1), Number(2), Null}) \cup {<<Number(NaN), Number(2)>>, <<Number(1), Number(NaN)>>, <<Number(NaN), Null>>}
    \cup TwoOf({Text(1), Text(2), Null}) \cup TwoOf({Time(2), Time(4), Null})
MCPaths == {Text(1), Text(2)}
=============================================================================
