-------------------------------- MODULE Expr --------------------------------
(***************************************************************************)
(* The expression evaluator of the debugger (nemu/src/monitor/sdb/expr.c;  *)
(* npc/csrc holds a copy).  A string is seen as the sequence of its        *)
(* lexemes, records of a type and a value; the regular expressions that    *)
(* find them are left out, and a register is the value it holds.           *)
(***************************************************************************)
EXTENDS Integers, Sequences, SequencesExt, FiniteSets, FiniteSetsExt

-----------------------------------------------------------------------------
(***************************************************************************)
(* The expression evaluator of the debugger (nemu/src/monitor/sdb/expr.c;  *)
(* npc/csrc holds a copy).  A string is seen as the sequence of its        *)
(* lexemes, records of a type and a value; the regular expressions that    *)
(* find them are left out, and a register is the value it holds.           *)
(***************************************************************************)

CONSTANTS Modulus,     \* 2^32 in the code
          mem          \* what vaddr_read returns: a function on the words

Word == 0..(Modulus - 1)
Panic == -1            \* the program has ended in panic() or assert()

Lex(type) == [type |-> type, val |-> 0]
Num(n) == [type |-> "num", val |-> n]

prec(type) ==
  CASE type = "&&" -> 1
    [] type = "==" -> 2
    [] type \in {"TK_LT", "TK_GT", "TK_LE", "TK_GE"} -> 3
    [] type \in {"+", "-"} -> 4
    [] type \in {"*", "/"} -> 5
    [] type = "deref" -> 6
    [] type = "reg" -> 7
    [] OTHER -> 100

\* rules: the token made of a lexeme.
rules(type) ==
  CASE type = ">" -> "TK_LT" [] type = "<" -> "TK_GT"
    [] type = "<=" -> "TK_LE" [] type = ">=" -> "TK_GE" [] OTHER -> type

\* A star is a dereference at the beginning and after an operator.
Token(tokens, l) ==
  [l EXCEPT !.type = IF l.type = "*" /\ (tokens = <<>> \/ prec(Last(tokens).type) <= 5)
                     THEN "deref" ELSE rules(l.type)]

\* Spaces, and the tokens the switch has no case for, are dropped.
make_token(e) ==
  FoldLeft(LAMBDA tokens, l :
             IF rules(l.type) \in {"space", "TK_LE", "TK_GE"} THEN tokens
             ELSE Append(tokens, Token(tokens, l)), <<>>, e)

\* How many parentheses of tokens p..q stay open.
Open(tokens, p, q) ==
  Len(SelectSeq(SubSeq(tokens, p, q), LAMBDA t : t.type = "("))
    - Len(SelectSeq(SubSeq(tokens, p, q), LAMBDA t : t.type = ")"))

check_parentheses(tokens, p, q) ==
  IF tokens[p].type # "(" \/ tokens[q].type # ")" THEN "false"
  ELSE IF \E i \in p..(q - 1) : Open(tokens, p, i) = 0 THEN "false"
  ELSE IF Open(tokens, p, q - 1) = 1 THEN "true" ELSE "panic"

\* Faulty variant of find_op_position: the first of the weakest operators.
find_op_position_first(tokens, p, q) ==
  LET outside == {i \in p..q : Open(tokens, p, i - 1) = 0}
      weakest == {i \in outside : \A j \in outside : prec(tokens[i].type) <= prec(tokens[j].type)}
  IN  CHOOSE i \in weakest : \A j \in weakest : i <= j

\* The last of the weakest operators outside parentheses.
find_op_position(tokens, p, q) ==
  LET outside == {i \in p..q : Open(tokens, p, i - 1) = 0}
      weakest == {i \in outside : \A j \in outside : prec(tokens[i].type) <= prec(tokens[j].type)}
  IN  CHOOSE i \in weakest : \A j \in weakest : i >= j

Bool(b) == IF b THEN 1 ELSE 0

\* The switch in eval.
apply(op, v1, v2) ==
  CASE op = "+" -> (v1 + v2) % Modulus
    [] op = "-" -> (v1 - v2) % Modulus
    [] op = "*" -> (v1 * v2) % Modulus
    [] op = "/" -> IF v2 # 0 THEN v1 \div v2 ELSE v1
    [] op = "==" -> Bool(v1 = v2)
    [] op = "TK_LT" -> Bool(v1 <= v2)
    [] op = "&&" -> Bool(v1 # 0 /\ v2 # 0)
    [] OTHER -> Panic

RECURSIVE eval(_, _, _)
eval(tokens, p, q) ==
  IF p > q THEN Panic
  ELSE IF p = q THEN (IF tokens[p].type \in {"num", "reg"} THEN tokens[p].val ELSE 0)
  ELSE CASE check_parentheses(tokens, p, q) = "true" -> eval(tokens, p + 1, q - 1)
         [] check_parentheses(tokens, p, q) = "panic" -> Panic
         [] OTHER ->
              LET op == find_op_position(tokens, p, q)
                  v1 == IF tokens[op].type = "deref" THEN 0 ELSE eval(tokens, p, op - 1)
                  v2 == IF v1 = Panic THEN Panic ELSE eval(tokens, op + 1, q)
              IN  IF v2 = Panic THEN Panic
                  ELSE IF tokens[op].type = "deref" THEN mem[v2]
                  ELSE apply(tokens[op].type, v1, v2)

expr(e) == eval(make_token(e), 1, Len(make_token(e)))

-----------------------------------------------------------------------------
(***************************************************************************)
(* Test expressions for the evaluator of module Expr: those that           *)
(* nemu/tools/gen-expr/gen-expr.c generates together with their value, and *)
(* flat ones without parentheses.                                          *)
(***************************************************************************)

CONSTANTS Nums,        \* numbers rand() % 1000000 may return
          MaxCalls,    \* 100 in gen_rand_expr
          MaxOperands  \* operands of a flat expression

VARIABLES buf,         \* the expression under test
          ret          \* the value it should have; Panic: no C expression

\* gen_num prints no digit for zero, only the suffix u: gcc rejects that.
gen_num(n) == IF n = 0 THEN <<Lex("u")>> ELSE <<Num(n)>>

Paren(e) == <<Lex("(")>> \o e \o <<Lex(")")>>

\* A division by zero is replaced by one by 1.
gen_binary(l, op, r) ==
  [text |-> Paren(l.text) \o <<Lex(op)>> \o
              (IF op = "/" /\ r.val = 0 THEN <<Num(1)>> ELSE Paren(r.text)),
   cnt |-> r.cnt, val |-> apply(op, l.val, r.val)]

\* Everything gen_rand_expr can generate when it has been called cnt times:
\* the text, its value and the number of calls after it.
RECURSIVE gen_rand_expr(_)
gen_rand_expr(cnt) ==
  LET num == {[text |-> gen_num(n), val |-> n, cnt |-> cnt + 1] : n \in Nums}
  IN  IF cnt + 1 >= MaxCalls THEN num
      ELSE num \cup gen_rand_expr(cnt + 1)
               \cup UNION {{gen_binary(l, op, r) : op \in {"+", "-", "*", "/"},
                                                   r \in gen_rand_expr(l.cnt)} :
                           l \in gen_rand_expr(cnt + 1)}

\* gcc compiles what has a digit in every number.
Compiles(e) == \A i \in DOMAIN e : e[i].type # "u"

\* One turn of the loop in main, which prints expressions that compile.
Generate ==
  \E g \in gen_rand_expr(0) :
    /\ buf' = g.text
    /\ ret' = IF Compiles(g.text) THEN g.val ELSE Panic
-----------------------------------------------------------------------------
(* Reference: the value of a flat expression in C, as nested lists.  Its     *)
(* operands are numbers or dereferenced numbers.                            *)
Flat(n) == [1..n -> Nums \X BOOLEAN] \X [1..(n - 1) -> {"+", "-", "*", "/", "==", "&&"}]

FlatText(f) ==
  LET operand(i) == (IF f[1][i][2] THEN <<Lex("*")>> ELSE <<>>) \o <<Num(f[1][i][1])>>
  IN  FoldLeft(LAMBDA t, i : t \o <<Lex(f[2][i - 1])>> \o operand(i), operand(1),
               [i \in 1..(Len(f[1]) - 1) |-> i + 1])

\* Binds(op): operators that are applied before op when they stand to its right.
Binds(op) == CASE op = "&&" -> {"==", "+", "-", "*", "/"} [] op = "==" -> {"+", "-", "*", "/"}
               [] op \in {"+", "-"} -> {"*", "/"} [] OTHER -> {}

\* Operator precedence parsing with a stack, as a compiler does it: the stack
\* holds pairs of a value and the operator that follows it.
RECURSIVE Reduce(_, _, _)
Reduce(stack, v, op) ==
  IF stack = <<>> \/ (op # "" /\ op \in Binds(Last(stack)[2])) THEN Append(stack, <<v, op>>)
  ELSE Reduce(Front(stack), apply(Last(stack)[2], Last(stack)[1], v), op)

FlatValue(f) ==
  LET v(i) == IF f[1][i][2] THEN mem[f[1][i][1]] ELSE f[1][i][1]
      n    == Len(f[1])
  IN  Last(FoldLeft(LAMBDA st, i : Reduce(st, v(i), IF i = n THEN "" ELSE f[2][i]),
                    <<>>, [i \in 1..n |-> i]))[1]

TestFlat ==
  \E n \in 1..MaxOperands : \E f \in Flat(n) : buf' = FlatText(f) /\ ret' = FlatValue(f)

Init == buf = <<Num(0)>> /\ ret = 0

\* Every expression is a test of its own.
First == buf = <<Num(0)>>
Tested == ~First /\ UNCHANGED <<buf, ret>>
Next == (First /\ Generate) \/ (First /\ TestFlat) \/ Tested
-----------------------------------------------------------------------------
Agrees == ret # Panic => expr(buf) = ret
=============================================================================
