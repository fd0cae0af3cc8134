------------------------------- MODULE KExpr -------------------------------
(***************************************************************************)
(* The dependency expressions of kconfig (nemu/tools/kconfig/expr.c) and   *)
(* the rewriting that menu_finalize relies on.  Values are 0, 1, 2 for n,  *)
(* m, y.  An expression is a record; the C code rewrites it in place, the  *)
(* operators here return the rewritten tree.  A position in a tree is a    *)
(* sequence of "l" and "r", which stands for the address of a node.        *)
(***************************************************************************)
EXTENDS Integers, Sequences

CONSTANT SymType        \* "bool" or "tri" for every symbol

Consts == [y |-> 2, m |-> 1, n |-> 0]
NULL == [t |-> "null"]

Sym(s) == [t |-> "sym", l |-> s]
Not(e) == [t |-> "not", l |-> e]
Two(t, e, f) == [t |-> t, l |-> e, r |-> f]
Relations == {"=", "!=", "<", "<=", ">", ">="}
YES == Sym("y")
NO == Sym("n")
\* The constant symbols have no type (S_UNKNOWN).
IsTri(s) == s \in DOMAIN SymType /\ SymType[s] = "tri"
IsBool(s) == s \in DOMAIN SymType /\ SymType[s] = "bool"

-----------------------------------------------------------------------------
\* The value of a symbol under an assignment to the symbols that are not
\* constants.
SymValue(s, v) == IF s \in DOMAIN Consts THEN Consts[s] ELSE v[s]

\* expr_parse_string finds no number in "n", "m" or "y" unless the symbol is
\* of type bool or tristate: next to a constant the strings are compared.
Rank(x, asString) == IF asString THEN CASE x = 1 -> 0 [] x = 0 -> 1 [] OTHER -> 2 ELSE x

Holds(rel, a, b) ==
  CASE rel = "=" -> a = b [] rel = "!=" -> a # b [] rel = "<" -> a < b
    [] rel = "<=" -> a <= b [] rel = ">" -> a > b [] OTHER -> a >= b

\* EXPR_AND and EXPR_OR.
And2(a, b) == IF a < b THEN a ELSE b
Or2(a, b) == IF a > b THEN a ELSE b

\* A relation between two symbols.
Compared(e, v, asString) == IF Holds(e.t, Rank(SymValue(e.l, v), asString), Rank(SymValue(e.r, v), asString)) THEN 2 ELSE 0

RECURSIVE expr_calc_value(_, _)
expr_calc_value(e, v) ==
  CASE e.t = "null" -> 2
    [] e.t = "sym" -> SymValue(e.l, v)
    [] e.t = "not" -> 2 - expr_calc_value(e.l, v)
    [] e.t = "and" -> And2(expr_calc_value(e.l, v), expr_calc_value(e.r, v))
    [] e.t = "or"  -> Or2(expr_calc_value(e.l, v), expr_calc_value(e.r, v))
    [] OTHER -> Compared(e, v, {e.l, e.r} \cap DOMAIN Consts # {})

-----------------------------------------------------------------------------
RECURSIVE At(_, _)
At(e, p) == IF p = <<>> THEN e ELSE At(e[Head(p)], Tail(p))

RECURSIVE Put(_, _, _)
Put(e, p, x) == IF p = <<>> THEN x ELSE [e EXCEPT ![Head(p)] = Put(@, Tail(p), x)]

\* What the operand of && or || may be dropped for.
Neutral(type) == IF type = "and" THEN YES ELSE NO
Absorbing(type) == IF type = "and" THEN NO ELSE YES

\* expr && n, expr && y, expr || n, expr || y and their mirror images.
WithoutConstants(type, f, g) ==
  CASE f = Absorbing(type) -> f
    [] f = Neutral(type) -> g
    [] g = Absorbing(type) -> g
    [] g = Neutral(type) -> f
    [] OTHER -> Two(type, f, g)
RECURSIVE expr_eliminate_yn(_)
expr_eliminate_yn(e) ==
  IF e.t \notin {"and", "or"} THEN e ELSE WithoutConstants(e.t, expr_eliminate_yn(e.l), expr_eliminate_yn(e.r))

\* Equal constants are not eliminated.
KeepLeaf(e, f) == e = f /\ e \in {YES, NO}

\* Faulty variant of Eliminated: y takes the place of a common operand of ||.
Eliminated_yes(type) == YES

\* What takes the place of a common operand.
Eliminated(type) == Neutral(type)

\* Without their common operands, equal expressions are the same symbol.
SameRest(s) == s.a.t = "sym" /\ s.a = s.b

\* __expr_eliminate_eq on the trees s.a and s.b at the positions p and q;
\* expr_eq on two leaves of one level, and on the levels below them.
RECURSIVE EliminateEq(_, _, _, _), expr_eq(_, _), expr_eliminate_eq(_)
EliminateLeaf(type, s, p, q) ==
  IF KeepLeaf(At(s.a, p), At(s.b, q)) \/ ~expr_eq(At(s.a, p), At(s.b, q)) THEN s
  ELSE [a |-> Put(s.a, p, Eliminated(type)), b |-> Put(s.b, q, Eliminated(type))]
EliminateEq(type, s, p, q) ==
  IF At(s.a, p).t = type THEN EliminateEq(type, EliminateEq(type, s, p \o <<"l">>, q), p \o <<"r">>, q)
  ELSE IF At(s.b, q).t = type THEN EliminateEq(type, EliminateEq(type, s, p, q \o <<"l">>), p, q \o <<"r">>)
  ELSE EliminateLeaf(type, s, p, q)

\* On the level of the first expression, then on that of the second.
EliminateFirst(s) == IF s.a.t \in {"and", "or"} THEN EliminateEq(s.a.t, s, <<>>, <<>>) ELSE s
EliminateSecond(s) == IF s.a.t # s.b.t /\ s.b.t \in {"and", "or"} THEN EliminateEq(s.b.t, s, <<>>, <<>>) ELSE s
EliminateBoth(s) == [a |-> expr_eliminate_yn(s.a), b |-> expr_eliminate_yn(s.b)]
expr_eliminate_eq(s) == IF NULL \in {s.a, s.b} THEN s ELSE EliminateBoth(EliminateSecond(EliminateFirst(s)))

expr_eq(e, f) ==
  CASE NULL \in {e, f} -> {e, f} \subseteq {NULL, YES}
    [] NULL \notin {e, f} /\ e.t # f.t -> FALSE
    [] e.t = "not" /\ f.t = "not" -> expr_eq(e.l, f.l)
    [] e.t \in {"and", "or"} /\ f.t = e.t ->
         SameRest(expr_eliminate_eq([a |-> e, b |-> f]))
    [] OTHER -> e = f

-----------------------------------------------------------------------------
\* The symbol an operand is about, or "none": the checks before the rules of
\* expr_join_or and expr_join_and.
About1(e) ==
  CASE e.t \in {"=", "!=", "sym"} -> e.l
    [] e.t = "not" -> IF e.l.t \in {"=", "!=", "sym"} THEN e.l.l ELSE "none"
    [] OTHER -> "none"
About2(e) ==
  CASE e.t \in {"=", "!=", "sym"} -> e.l
    [] e.t = "not" -> IF e.l.t = "sym" THEN e.l.l ELSE "none"
    [] OTHER -> "none"

\* The third of the values n, m, y.
Other(a, b) == CHOOSE c \in DOMAIN Consts : c \notin {a, b}

\* Two comparisons of the given kind with two different constants.
Pair(rel, e, f) ==
  e.t = rel /\ f.t = rel /\ e.r \in DOMAIN Consts /\ f.r \in DOMAIN Consts /\ e.r # f.r

\* e or f is the plain symbol, the other one the comparison.
Beside(rel, c, e, f) ==
  \/ e.t = "sym" /\ f.t = rel /\ f.r = c
  \/ f.t = "sym" /\ e.t = rel /\ e.r = c

\* The two operands are about the same symbol.
SameSymbol(e, f) == About1(e) \in DOMAIN SymType /\ About1(e) = About2(f)

\* expr_join_or: one expression for e || f, or NULL.
JoinOr(e, f, s) ==
  CASE IsTri(s) /\ Pair("=", e, f) -> Two("!=", s, Other(e.r, f.r))
    [] IsBool(s) /\ \/ e.t = "not" /\ e.l.t = "sym" /\ f.t = "sym"
                    \/ f.t = "not" /\ f.l.t = "sym" /\ e.t = "sym" -> YES
    [] OTHER -> NULL
expr_join_or(e, f) == IF expr_eq(e, f) THEN e ELSE IF SameSymbol(e, f) THEN JoinOr(e, f, About1(e)) ELSE NULL

\* Faulty variant of EqualAndUnequal: equal constants are not told apart.
EqualAndUnequal_same(s, b, c) ==
  IF b \in DOMAIN Consts /\ c \in DOMAIN Consts THEN Two("=", s, b) ELSE NULL

\* (a='b') && (a!='c') for two constants.
EqualAndUnequal(s, b, c) ==
  IF b \in DOMAIN Consts /\ c \in DOMAIN Consts
  THEN IF b = c THEN NO ELSE Two("=", s, b)
  ELSE NULL

\* expr_join_and: one expression for e && f, or NULL.
JoinAnd(e, f, s) ==
  CASE Beside("=", "y", e, f) \/ Beside("!=", "m", e, f) -> Two("=", s, "y")
    [] Beside("!=", "n", e, f) -> Sym(s)
    [] ~IsTri(s) -> NULL
    [] IsTri(s) /\ e.t = "=" /\ f.t = "!=" -> EqualAndUnequal(s, e.r, f.r)
    [] IsTri(s) /\ e.t = "!=" /\ f.t = "=" -> EqualAndUnequal(s, f.r, e.r)
    [] IsTri(s) /\ Pair("!=", e, f) -> Two("=", s, Other(e.r, f.r))
    [] OTHER -> NULL
expr_join_and(e, f) == IF expr_eq(e, f) THEN e ELSE IF SameSymbol(e, f) THEN JoinAnd(e, f, About1(e)) ELSE NULL

\* expr_eliminate_dups1 on the tree s.e, counting the changes in s.n.  The
\* two positions are of the same tree; a level is compared with itself.
Joined(type, s, p, q, j) ==
  IF j = NULL THEN s ELSE [e |-> Put(Put(s.e, p, Neutral(type)), q, j), n |-> s.n + 1]
JoinLeaves(type, s, p, q) ==
  Joined(type, s, p, q, IF type = "or" THEN expr_join_or(At(s.e, p), At(s.e, q)) ELSE expr_join_and(At(s.e, p), At(s.e, q)))

RECURSIVE EliminateDups1(_, _, _, _)
WithinLeaf(s, p) == IF At(s.e, p).t \in {"and", "or"} THEN EliminateDups1(At(s.e, p).t, s, p, p) ELSE s
EliminateDups1(type, s, p, q) ==
  IF At(s.e, p).t = type THEN EliminateDups1(type, EliminateDups1(type, s, p \o <<"l">>, q), p \o <<"r">>, q)
  ELSE IF At(s.e, q).t = type THEN EliminateDups1(type, EliminateDups1(type, s, p, q \o <<"l">>), p, q \o <<"r">>)
  ELSE IF p = q THEN s
  ELSE JoinLeaves(type, WithinLeaf(s, p), p, q)

RECURSIVE expr_eliminate_dups(_)
UntilUnchanged(s) == IF s.n = 0 THEN s.e ELSE expr_eliminate_dups(expr_eliminate_yn(s.e))
expr_eliminate_dups(e) ==
  UntilUnchanged(IF e.t \in {"and", "or"} THEN EliminateDups1(e.t, [e |-> e, n |-> 0], <<>>, <<>>) ELSE [e |-> e, n |-> 0])

-----------------------------------------------------------------------------
Negated == [r \in Relations |->
  CASE r = "=" -> "!=" [] r = "!=" -> "=" [] r = "<" -> ">=" [] r = ">=" -> "<" [] r = "<=" -> ">" [] OTHER -> "<="]

\* Faulty variant of TransformBool: a boolean is compared with m as with y.
TransformBool_m(e) ==
  LET a == Sym(e.l) IN
  CASE e.r = "n" -> IF e.t = "=" THEN Not(a) ELSE a
    [] e.r \in {"y", "m"} -> IF e.t = "=" THEN a ELSE Not(a)
    [] OTHER -> e

\* The comparisons of a boolean with a constant.
TransformBool(e) ==
  LET a == Sym(e.l) IN
  CASE e.r = "n" -> IF e.t = "=" THEN Not(a) ELSE a
    [] e.r = "y" -> IF e.t = "=" THEN a ELSE Not(a)
    [] e.r = "m" -> IF e.t = "=" THEN NO ELSE YES
    [] OTHER -> e

\* expr_transform: the operands first, then the expression itself.
RECURSIVE expr_transform(_)
TransformNot(e, a) ==
  CASE a.t = "not" -> expr_transform(a.l)
    [] a.t \in Relations -> Two(Negated[a.t], a.l, a.r)
    [] a.t = "or"  -> expr_transform(Two("and", Not(a.l), Not(a.r)))
    [] a.t = "and" -> expr_transform(Two("or", Not(a.l), Not(a.r)))
    [] a.t = "sym" /\ a.l \in DOMAIN Consts -> CASE a.l = "y" -> NO [] a.l = "n" -> YES [] OTHER -> a
    [] OTHER -> e
TransformRoot(e) ==
  CASE e.t \in {"=", "!="} -> IF IsBool(e.l) THEN TransformBool(e) ELSE e
    [] e.t = "not" -> TransformNot(e, e.l)
    [] OTHER -> e
expr_transform(e) ==
  TransformRoot(CASE e.t \in {"and", "or"} -> Two(e.t, expr_transform(e.l), expr_transform(e.r))
                  [] e.t = "not" -> Not(expr_transform(e.l))
                  [] OTHER -> e)

\* expr_trans_bool: in the conditions of a symbol that is not a tristate.
RECURSIVE expr_trans_bool(_)
expr_trans_bool(e) ==
  CASE e.t \in {"and", "or"} -> Two(e.t, expr_trans_bool(e.l), expr_trans_bool(e.r))
    [] e.t = "not" -> Not(expr_trans_bool(e.l))
    [] e.t = "!=" -> IF IsTri(e.l) /\ e.r = "n" THEN Sym(e.l) ELSE e
    [] OTHER -> e

RECURSIVE expr_contains_symbol(_, _)
expr_contains_symbol(e, s) ==
  CASE e.t \in {"and", "or"} -> expr_contains_symbol(e.l, s) \/ expr_contains_symbol(e.r, s)
    [] e.t = "not" -> expr_contains_symbol(e.l, s)
    [] e.t = "sym" -> e.l = s
    [] e.t \in Relations -> s \in {e.l, e.r}
    [] OTHER -> FALSE

RECURSIVE expr_depends_symbol(_, _)
expr_depends_symbol(e, s) ==
  CASE e.t = "and" -> expr_depends_symbol(e.l, s) \/ expr_depends_symbol(e.r, s)
    [] e.t = "sym" -> e.l = s
    [] e.t = "=" -> e.l = s /\ e.r \in {"y", "m"}
    [] e.t = "!=" -> e.l = s /\ e.r = "n"
    [] OTHER -> FALSE

\* (a && b) = n is a = n || b = n; (a && b) = y is a = y && b = y.
Dual(type, s) == IF s = "y" THEN type ELSE IF type = "and" THEN "or" ELSE "and"

\* expr_trans_compare for the symbols y and n.
RECURSIVE expr_trans_compare(_, _, _)
expr_trans_compare(e, type, s) ==
  LET negate(x) == IF type = "!=" THEN Not(x) ELSE x IN
  CASE e = NULL -> negate(Sym(s))
    [] e.t \in {"and", "or"} ->
         negate(Two(Dual(e.t, s), expr_trans_compare(e.l, "=", s), expr_trans_compare(e.r, "=", s)))
    [] e.t = "not" -> expr_trans_compare(e.l, IF type = "=" THEN "!=" ELSE "=", s)
    [] e.t \in Relations -> IF (type = "=") = (s = "y") THEN e ELSE Not(e)
    [] OTHER -> Two(type, e.l, s)
-----------------------------------------------------------------------------
\* Faulty variant of Parenthesized: an || below && is printed without parentheses.
Parenthesized_or(prev, t) == prev = "not" /\ t \in {"and", "or"}

\* expr_compare_type(prev, t) > 0 for the types expr_print meets.
Parenthesized(prev, t) ==
  \/ prev = "not" /\ t \in {"and", "or"}
  \/ prev = "and" /\ t = "or"

Token(t) == <<[t |-> t]>>

\* expr_print as a sequence of tokens; an operand is one token.
RECURSIVE expr_print(_, _)
expr_print(e, prev) ==
  LET inner == CASE e.t = "not" -> Token("!") \o expr_print(e.l, "not")
                 [] e.t \in {"and", "or"} ->
                      expr_print(e.l, e.t) \o Token(IF e.t = "and" THEN "&&" ELSE "||") \o expr_print(e.r, e.t)
                 [] OTHER -> <<e>>
  IN CASE e = NULL -> <<YES>>
       [] e # NULL /\ Parenthesized(prev, e.t) -> Token("(") \o inner \o Token(")")
       [] OTHER -> inner

\* expr of parser.y with its precedences: an expression that starts at token
\* i, and the position after it.
RECURSIVE Parse(_, _, _), ParseMore(_, _, _)
Parse(op, w, i) ==
  IF op = "!"
  THEN CASE w[i].t = "!" -> LET p == Parse("!", w, i + 1) IN [p EXCEPT !.e = Not(p.e)]
         [] w[i].t = "(" -> LET p == Parse("||", w, i + 1) IN [p EXCEPT !.i = @ + 1]
         [] OTHER -> [e |-> w[i], i |-> i + 1]
  ELSE ParseMore(op, w, Parse(IF op = "||" THEN "&&" ELSE "!", w, i))
ParseMore(op, w, p) ==
  IF p.i > Len(w) \/ (p.i <= Len(w) /\ w[p.i].t # op) THEN p
  ELSE LET q == Parse(IF op = "||" THEN "&&" ELSE "!", w, p.i + 1)
       IN ParseMore(op, w, [e |-> Two(IF op = "||" THEN "or" ELSE "and", p.e, q.e), i |-> q.i])

\* expr_print_revdep: the operands of the top || that have the given value.
RECURSIVE RevdepLines(_, _, _)
RevdepLines(e, v, type) ==
  IF e.t = "or" THEN RevdepLines(e.l, v, type) \o RevdepLines(e.r, v, type)
  ELSE IF expr_calc_value(e, v) = type THEN <<e>> ELSE <<>>
=============================================================================
