------------------------------- MODULE KFiles -------------------------------
(***************************************************************************)
(* The reading of Kconfig files (nemu/tools/kconfig): the preprocessor     *)
(* (preprocess.c), the menu tree (menu.c) and the check for recursive      *)
(* dependencies (symbol.c).                                                *)
(***************************************************************************)
EXTENDS KExpr, SequencesExt, FiniteSets

-----------------------------------------------------------------------------
(***************************************************************************)
(* The preprocessor of Kconfig files (nemu/tools/kconfig/preprocess.c):    *)
(* variables and functions $(name,argument,...), in text that is a         *)
(* sequence of characters.  The result of an expansion is its text, the    *)
(* error it ended with (fatal, in pperror) or "none", and the environment  *)
(* variables it has remembered, with their values.                         *)
(***************************************************************************)

CONSTANTS MaxExp,    \* the most expansions of a function within itself (1000)
          MaxArgs    \* the size of new_argv (FUNCTION_MAX_ARGS, 16)

None == "none"

\* What one step of an expansion adds to the result of the steps before it.
Result(out, err, seen, most) == [out |-> out, err |-> err, seen |-> seen, most |-> most]
Text(t, seen) == Result(t, None, seen, 0)
Error(e, seen) == Result(<<>>, e, seen, 0)
LargerOf(a, b) == IF a > b THEN a ELSE b
Then(r, s) == IF r.err # None THEN r
              ELSE Result(r.out \o s.out, s.err, s.seen, LargerOf(r.most, s.most))

\* The position of the ')' that closes a reference whose text begins at i, or
\* 0.
RECURSIVE Closing(_, _, _)
Closing(t, i, nest) ==
  CASE i > Len(t) -> 0
    [] i <= Len(t) /\ t[i] = "(" -> Closing(t, i + 1, nest + 1)
    [] i <= Len(t) /\ t[i] = ")" -> IF nest = 0 THEN i ELSE Closing(t, i + 1, nest - 1)
    [] OTHER -> Closing(t, i + 1, nest)

\* Faulty variant of Split: every comma separates arguments.
Split_all(t) ==
  FoldLeft(LAMBDA s, c : IF c = "," THEN [s EXCEPT !.list = Append(@, <<>>)]
                         ELSE [s EXCEPT !.list[Len(s.list)] = Append(@, c)],
           [list |-> <<<<>>>>, nest |-> 0], t).list

\* The name and the arguments of a clause: the commas outside parentheses
\* separate them.
Split(t) ==
  FoldLeft(LAMBDA s, c : IF c = "," /\ s.nest = 0 THEN [s EXCEPT !.list = Append(@, <<>>)]
                         ELSE [list |-> [s.list EXCEPT ![Len(s.list)] = Append(@, c)],
                               nest |-> s.nest + (CASE c = "(" -> 1 [] c = ")" -> -1 [] OTHER -> 0)],
           [list |-> <<<<>>>>, nest |-> 0], t).list

\* new_argv is full when the comma after a token is met.
TooManyTokens(t) == Len(Split(t)) - 1 > MaxArgs

\* The arguments of the function around, $(1), $(2).
Digits == [c \in {"1", "2"} |-> IF c = "1" THEN 1 ELSE 2]
IsArgument(t, args) == Len(t) = 1 /\ t[1] \in DOMAIN Digits /\ Digits[t[1]] <= Len(args)

-----------------------------------------------------------------------------
\* Where an expansion takes place: the variables, the built-in functions with
\* the number of their arguments, and the environment.  count is exp_count.
\* x.seen has what env_list has.
Lookup(x, name) == IF name \in DOMAIN x.seen THEN x.seen[name] ELSE x.env[name]

\* Faulty variant of Remember: a variable is not put on the list.
Remember_not(x, name) == x.seen

Remember(x, name) == [n \in DOMAIN x.seen \cup {name} |-> Lookup(x, n)]

\* env_expand: a variable that is not set is not remembered.
env_expand(x, name) ==
  IF name \in DOMAIN x.seen \cup DOMAIN x.env
  THEN Text(Lookup(x, name), Remember(x, name))
  ELSE Text(<<>>, x.seen)

function_expand(x, name, argc) ==
  CASE argc < x.functions[name] -> Error("too few arguments", x.seen)
    [] argc > x.functions[name] -> Error("too many arguments", x.seen)
    [] OTHER -> Text(<<>>, x.seen)

RECURSIVE expand_string_with_args(_, _, _), eval_clause(_, _, _), ExpandAll(_, _, _)

\* A variable within itself, or a function too deep within itself.
TooDeep(x, name, argc) == (argc = 0 /\ x.count[name] > 0) \/ x.count[name] > MaxExp

Deepest(r, n) == [r EXCEPT !.most = LargerOf(@, n)]
variable_expand(x, name, args) ==
  IF TooDeep(x, name, Len(args)) THEN Error("recursive", x.seen)
  ELSE IF x.vars[name].flavor # "recursive" THEN Text(x.vars[name].value, x.seen)
  ELSE Deepest(expand_string_with_args([x EXCEPT !.count[name] = @ + 1], x.vars[name].value, args), x.count[name] + 1)

\* The list of texts expanded one after the other, up to the first error.
AndRest(h, t) == [r |-> [Then(h, t.r) EXCEPT !.out = <<>>], list |-> <<h.out>> \o t.list]
ExpandRest(x, h, list, args) ==
  AndRest(h, IF h.err # None THEN [r |-> h, list |-> <<>>] ELSE ExpandAll([x EXCEPT !.seen = h.seen], list, args))
ExpandAll(x, list, args) ==
  IF list = <<>> THEN [r |-> Text(<<>>, x.seen), list |-> <<>>]
  ELSE ExpandRest(x, expand_string_with_args(x, Head(list), args), Tail(list), args)

\* The value of a name with its expanded arguments: of a variable, a built-in
\* function or an environment variable.
ValueOf(x, name, new) ==
  CASE name \in DOMAIN x.vars -> variable_expand(x, name, new)
    [] name \notin DOMAIN x.vars /\ name \in DOMAIN x.functions -> function_expand(x, name, Len(new))
    [] name \notin DOMAIN x.vars \cup DOMAIN x.functions /\ new = <<>> -> env_expand(x, name)
    [] OTHER -> Text(<<>>, x.seen)
Evaluate(x, parts) ==
  IF parts.r.err # None THEN parts.r
  ELSE Then(parts.r, ValueOf([x EXCEPT !.seen = parts.r.seen], Head(parts.list), Tail(parts.list)))

\* The text between $( and ).
eval_clause(x, t, args) ==
  CASE IsArgument(t, args) -> Text(args[Digits[t[1]]], x.seen)
    [] ~IsArgument(t, args) /\ TooManyTokens(t) -> Error("too many tokens", x.seen)
    [] OTHER -> Evaluate(x, ExpandAll(x, Split(t), args))

\* __expand_string and expand_dollar_with_args: the text up to the first
\* reference, the reference, and the rest.
AtReference(t) == Len(t) > 1 /\ t[1] = "$" /\ t[2] = "("
ExpandFirst(x, t, q, args) ==
  CASE q = 0 -> Error("unterminated", x.seen)
    [] q > 1 -> eval_clause(x, SubSeq(t, 3, q - 1), args)
    [] OTHER -> Text(<<t[1]>>, x.seen)
ThenExpand(x, h, t, args) ==
  IF h.err # None THEN h ELSE Then(h, expand_string_with_args([x EXCEPT !.seen = h.seen], t, args))
ExpandTo(x, t, q, args) == ThenExpand(x, ExpandFirst(x, t, q, args), SubSeq(t, q + 1, Len(t)), args)
expand_string_with_args(x, t, args) ==
  IF t = <<>> THEN Text(<<>>, x.seen) ELSE ExpandTo(x, t, IF AtReference(t) THEN Closing(t, 3, 0) ELSE 1, args)

-----------------------------------------------------------------------------
\* A place without expansions going on.
Place(vars, functions, env, seen) ==
  [vars |-> vars, functions |-> functions, env |-> env, seen |-> seen,
   count |-> [n \in DOMAIN vars |-> 0]]

expand_string(x, t) == expand_string_with_args(x, t, <<>>)

\* variable_add: := expands now, = when the variable is used, += like the
\* definition it adds to.  The new variables are the text of the result.
FlavorOf(x, name, flavor) ==
  IF flavor # "append" THEN flavor ELSE IF name \in DOMAIN x.vars THEN x.vars[name].flavor ELSE "recursive"
OldText(x, name, flavor) ==
  IF flavor = "append" /\ name \in DOMAIN x.vars THEN x.vars[name].value \o <<" ">> ELSE <<>>
Define(x, name, r, old, flavor) ==
  [r EXCEPT !.out = [n \in DOMAIN x.vars \cup {name} |->
     IF n = name THEN [value |-> old \o r.out, flavor |-> flavor] ELSE x.vars[n]]]
variable_add(x, name, t, flavor) ==
  Define(x, name, IF FlavorOf(x, name, flavor) = "simple" THEN expand_string(x, t) ELSE Text(t, x.seen),
         OldText(x, name, flavor), FlavorOf(x, name, flavor))

-----------------------------------------------------------------------------
(***************************************************************************)
(* The menu tree of kconfig (nemu/tools/kconfig/menu.c): menu_finalize     *)
(* gives every entry the conditions of what encloses it, moves entries     *)
(* below the symbol they depend on, and takes "if" blocks out of the tree. *)
(*                                                                         *)
(* An entry is a record of its name, its symbol (the same name, or "none"  *)
(* for a menu or an if), whether it is a choice and whether it has a       *)
(* prompt, its own conditions (dep: "depends on"; vis: that of the prompt; *)
(* sel: the selects, a sequence of targets and conditions; hide: the       *)
(* "visible if" of a menu) and its children.  The lists of the C code,     *)
(* linked by next, are sequences; an entry's later siblings are the rest   *)
(* that menu_finalize may take entries from.                               *)
(***************************************************************************)

CONSTANT Modules        \* the symbol with "option modules", or "n"

\* expr_alloc_and, expr_alloc_or: no expression is y for the first and
\* nothing for the second.
And(e, f) == IF e = NULL THEN f ELSE IF f = NULL THEN e ELSE Two("and", e, f)
Or(e, f) == IF e = NULL THEN f ELSE IF f = NULL THEN e ELSE Two("or", e, f)

\* menu_add_entry: a symbol with its condition; menu_add_menu: a menu or an if.
Entry(name, dep) ==
  [name |-> name, sym |-> name, choice |-> FALSE, prompt |-> TRUE, dep |-> dep, vis |-> NULL,
   sel |-> <<>>, hide |-> NULL, kids |-> <<>>]
Block(name, dep, kids) == [Entry(name, dep) EXCEPT !.sym = "none", !.kids = kids]

\* menu_add_prompt: a prompt gets a copy of the "visible if" of its menu.
Shown(hide, m) == [m EXCEPT !.vis = And(@, hide)]

RECURSIVE rewrite_m(_)
rewrite_m(e) ==
  CASE e.t = "not" -> Not(rewrite_m(e.l))
    [] e.t \in {"and", "or"} -> Two(e.t, rewrite_m(e.l), rewrite_m(e.r))
    [] e = Sym("m") -> Two("and", e, Sym(Modules))
    [] OTHER -> e

\* The condition of a part of an entry below the one of what encloses it.
Below(outer, e) == expr_eliminate_dups(And(outer, expr_transform(rewrite_m(e))))

OnTri(m, e) == IF m.sym # "none" /\ ~IsTri(m.sym) THEN expr_trans_bool(e) ELSE e

\* A child of a menu node gets the node's condition, and so do its prompt and
\* its selects.
Under(m, base) ==
  [m EXCEPT !.dep = base,
            !.vis = OnTri(m, Below(base, @)),
            !.sel = [i \in DOMAIN @ |-> [@[i] EXCEPT !.cond = OnTri(m, Below(base, @))]]]
Propagate(outer, m) == Under(m, Below(outer, m.dep))

\* Faulty variant of ParentDep: the values of a choice do not depend on it.
ParentDep_menu(m) == m.dep

\* The condition the children get: of a choice it is the choice itself.
ParentDep(m) == IF m.choice THEN Sym(m.sym) ELSE m.dep

\* The condition that dep is not n.
NotN(dep) == expr_eliminate_dups(expr_transform(expr_trans_compare(dep, "!=", "n")))

\* The condition of a sibling is a superset of the condition base of a symbol.
Superset(dep, base) == expr_eliminate_eq([a |-> NotN(dep), b |-> base]).b \in {NULL, YES}

\* Faulty variant of BelongsBelow: to mention the symbol is enough.
BelongsBelow_mention(m, sym, base) ==
  expr_contains_symbol(IF m.prompt THEN m.vis ELSE m.dep, sym)

\* The entry m depends on sym, whose own condition is base.
DependsOn(dep, sym, base) ==
  /\ expr_contains_symbol(dep, sym)
  /\ expr_depends_symbol(dep, sym) \/ Superset(dep, base)
BelongsBelow(m, sym, base) == DependsOn(IF m.prompt THEN m.vis ELSE m.dep, sym, base)

\* Entries without a prompt have no submenu: their children follow them.
Flatten(list) ==
  FlattenSeq([i \in DOMAIN list |->
    IF list[i].prompt THEN <<list[i]>> ELSE <<[list[i] EXCEPT !.kids = <<>>]>> \o list[i].kids])

\* The values of a choice that are bool when the choice is a tristate need the
\* choice to be y; the reverse dependencies their selects gave have been made
\* before.
OnlyY(c, m) ==
  IF c.choice /\ m.sym # "none" /\ IsTri(c.sym) /\ ~IsTri(m.sym)
  THEN LET y == Two("=", c.sym, "y")
       IN [m EXCEPT !.dep = And(y, @), !.vis = And(y, @)]
  ELSE m

\* menu_finalize of m; rest are the siblings after it, of which it may take
\* the first ones as children.
RECURSIVE menu_finalize(_, _), FinalizeList(_), TakeSiblings(_, _, _, _)
WithKids(m, kids, rest) == [m |-> [m EXCEPT !.kids = [i \in DOMAIN kids |-> OnlyY(m, kids[i])]], rest |-> rest]
Finish(m, r) == WithKids(m, Flatten(r.kids), r.rest)
menu_finalize(m, rest) ==
  Finish(m, CASE m.kids # <<>> ->
                   [kids |-> FinalizeList([i \in DOMAIN m.kids |-> Propagate(ParentDep(m), m.kids[i])]), rest |-> rest]
              [] m.kids = <<>> /\ m.sym # "none" ->
                   TakeSiblings(m.sym, NotN(IF m.prompt THEN m.vis ELSE NULL), <<>>, rest)
              [] OTHER -> [kids |-> <<>>, rest |-> rest])

FinalizeRest(r) == <<r.m>> \o FinalizeList(r.rest)
FinalizeList(list) == IF list = <<>> THEN <<>> ELSE FinalizeRest(menu_finalize(Head(list), Tail(list)))

\* Automatic submenu creation: consecutive entries that depend on the symbol.
Take(sym, base, kids, r) == TakeSiblings(sym, base, Append(kids, r.m), r.rest)
TakeSiblings(sym, base, kids, rest) ==
  IF rest = <<>> \/ ~BelongsBelow(Head(rest), sym, base) THEN [kids |-> kids, rest |-> rest]
  ELSE Take(sym, base, kids, menu_finalize(Head(rest), Tail(rest)))

\* The whole tree.
Finalized(root) == menu_finalize(root, <<>>).m

-----------------------------------------------------------------------------
\* All entries of a tree in the order of the file.
RECURSIVE Entries(_)
Entries(m) == <<m>> \o FlattenSeq([i \in DOMAIN m.kids |-> Entries(m.kids[i])])

\* The reverse dependency the selects of a finalized tree give to a symbol.
RevDep(root, t) ==
  FoldLeft(LAMBDA e, m : FoldLeft(LAMBDA f, p : IF p.target = t THEN Or(f, And(Sym(m.sym), p.cond)) ELSE f, e, m.sel),
           NULL, Entries(root))

\* menu_is_visible: an entry that is not n is shown for its children's sake.
RECURSIVE menu_is_visible(_, _)
menu_is_visible(m, v) ==
  /\ m.prompt /\ expr_calc_value(m.hide, v) # 0
  /\ \/ expr_calc_value(m.vis, v) # 0
     \/ /\ m.sym # "none" /\ SymValue(m.sym, v) # 0
        /\ \E i \in DOMAIN m.kids : menu_is_visible(m.kids[i], v)

\* The entries from the root of a tree to the one with the given name.
RECURSIVE Path(_, _)
Path(m, name) ==
  IF m.name = name THEN <<m>>
  ELSE LET ks == SelectSeq(m.kids, LAMBDA k : \E i \in DOMAIN Entries(k) : Entries(k)[i].name = name)
       IN IF ks = <<>> THEN <<>> ELSE <<m>> \o Path(ks[1], name)

-----------------------------------------------------------------------------
(***************************************************************************)
(* The check for recursive dependencies of kconfig (sym_check_deps of      *)
(* nemu/tools/kconfig/symbol.c), which conf_parse calls for every symbol.  *)
(*                                                                         *)
(* Deps[s] is the list of the symbols in the expressions of s that the     *)
(* check walks through, in its order: dependencies, reverse dependencies,  *)
(* implications, visibilities and defaults.  Choice[s] is the choice s is  *)
(* a value of; a value depends on its choice (menu_finalize).              *)
(*                                                                         *)
(*   checked   the symbols with SYMBOL_CHECKED                             *)
(*   todo      the symbols conf_parse has not called the check for yet     *)
(*   printed   the chains sym_check_print_recursive has printed            *)
(*   errors    yynerrs                                                     *)
(***************************************************************************)

CONSTANTS Syms,       \* the symbols, a sequence: the order of the hash table
          ChoiceOf,     \* the choice of every choice value
          MaxDeps,    \* bound on the symbols in the expressions of a symbol
          MaxRefs     \* bound on the symbols in all expressions together

NotFound == "none"
SymNames == ToSet(Syms)
ChoiceValues == DOMAIN ChoiceOf
ChoiceSyms == { ChoiceOf[v] : v \in ChoiceValues }
ValuesOf(c) == SelectSeq(Syms, LAMBDA v : v \in ChoiceValues /\ ChoiceOf[v] = c)

VARIABLES Deps, checked, todo, printed, errors
depsVars == <<Deps, checked, todo, printed, errors>>

-----------------------------------------------------------------------------
\* The state of a walk: the symbols with SYMBOL_CHECK and SYMBOL_CHECKED, the
\* stack of the symbols being looked at, and what has been printed.
Walk == [check |-> {}, checked |-> checked, stack |-> <<>>, printed |-> printed]

Push(w, s) == [w EXCEPT !.stack = Append(@, s)]
Pop(r) == [r EXCEPT !.w.stack = Front(@)]
Answer(w, found) == [w |-> w, found |-> found]

\* sym_check_print_recursive: the part of the stack from the symbol the check
\* came back to; for a choice value this is its choice.  <<>> stands for
\* "unexpected recursive dependency error".
Chain(stack, s) ==
  LET st == IF s \in ChoiceValues THEN Append(stack, s) ELSE stack
      last == IF s \in ChoiceValues THEN ChoiceOf[s] ELSE s
  IN IF last \notin ToSet(st) THEN <<>>
     ELSE SubSeq(st, CHOOSE i \in DOMAIN st : st[i] = last /\ \A j \in i + 1 .. Len(st) : st[j] # last, Len(st))

RECURSIVE sym_check_deps(_, _), sym_check_expr_deps(_, _)

\* The symbols of the expressions in turn, up to the first that is found.
NextDep(r, list) == IF r.found # NotFound THEN r ELSE sym_check_expr_deps(r.w, list)
sym_check_expr_deps(w, list) ==
  IF list = <<>> THEN Answer(w, NotFound) ELSE NextDep(sym_check_deps(w, Head(list)), Tail(list))

sym_check_sym_deps(w, s) == Pop(sym_check_expr_deps(Push(w, s), Deps[s]))

\* The values of a choice in turn.
RECURSIVE CheckValues(_, _)
NextValue(r, list) == IF r.found # NotFound THEN r ELSE CheckValues(r.w, list)
CheckValues(w, list) ==
  IF list = <<>> THEN Answer(w, NotFound) ELSE NextValue(sym_check_sym_deps(w, Head(list)), Tail(list))

\* The choice and its values are being looked at; then the walk is over.
BeginChoice(w, c, vs) == [Push(w, c) EXCEPT !.check = @ \cup vs \cup {c}, !.checked = @ \cup vs \cup {c}]
EndChoice(r, c, vs) == Pop(Answer([r.w EXCEPT !.check = @ \ ({c} \cup vs)], IF r.found \in vs THEN c ELSE r.found))

\* Faulty variant of sym_check_choice_deps: the values' own dependencies are
\* not looked at.
sym_check_choice_deps_short(w, c) ==
  EndChoice(sym_check_sym_deps(BeginChoice(w, c, ToSet(ValuesOf(c))), c), c, ToSet(ValuesOf(c)))

\* sym_check_choice_deps: a choice and its values are checked as one; while
\* the values are looked at the choice itself may be met again.
ThenValues(r, c) ==
  IF r.found # NotFound THEN r ELSE CheckValues([r.w EXCEPT !.check = @ \ {c}], ValuesOf(c))
sym_check_choice_deps(w, c) ==
  EndChoice(ThenValues(sym_check_sym_deps(BeginChoice(w, c, ToSet(ValuesOf(c))), c), c), c, ToSet(ValuesOf(c)))

\* sym_check_deps: the symbol by which the walk came back to itself, or none.
sym_check_deps(w, s) ==
  IF s \in w.check THEN Answer([w EXCEPT !.printed = @ \cup {Chain(w.stack, s)}], s)
  ELSE IF s \in w.checked THEN Answer(w, NotFound)
  ELSE IF s \in ChoiceValues THEN Pop(sym_check_deps(Push(w, s), ChoiceOf[s]))
  ELSE IF s \in ChoiceSyms THEN sym_check_choice_deps(w, s)
  ELSE LET r == sym_check_sym_deps([w EXCEPT !.check = @ \cup {s}, !.checked = @ \cup {s}], s)
       IN [r EXCEPT !.w.check = @ \ {s}]

-----------------------------------------------------------------------------
Sets(n) == { d \in SUBSET SymNames : Cardinality(d) <= n }

Listed(d) == SelectSeq(Syms, LAMBDA s : s \in d)

SumOver(f) == FoldSet(LAMBDA s, n : n + Cardinality(f[s]), 0, DOMAIN f)

DepsInit ==
  /\ \E f \in [SymNames \ ChoiceValues -> Sets(MaxDeps)], g \in [ChoiceValues -> Sets(MaxDeps - 1)] :
       /\ SumOver(f) + SumOver(g) <= MaxRefs
       /\ Deps = [s \in SymNames |-> Listed(IF s \in ChoiceValues THEN g[s] \cup {ChoiceOf[s]} ELSE f[s])]
  /\ checked = {} /\ todo = Syms /\ printed = {} /\ errors = 0

\* The loop of conf_parse.
CheckSymbol ==
  /\ todo # <<>>
  /\ todo' = Tail(todo)
  /\ \E r \in {sym_check_deps(Walk, Head(todo))} :
       /\ checked' = r.w.checked
       /\ printed' = r.w.printed
       /\ errors' = errors + (IF r.found # NotFound THEN 1 ELSE 0)
  /\ UNCHANGED Deps

DepsFinished == todo = <<>> /\ UNCHANGED depsVars

DepsNext == CheckSymbol \/ DepsFinished

-----------------------------------------------------------------------------
\* The values of a choice are worked out together, after the choice itself.
Group(s) == IF s \in ChoiceValues THEN "values of " \o ChoiceOf[s] ELSE s
Groups == { Group(s) : s \in SymNames }

\* Working out x takes y: y is in an expression of x.
Needs(x, y) == \E s \in SymNames : Group(s) = x /\ \E t \in ToSet(Deps[s]) : Group(t) = y

RECURSIVE Reach(_, _)
Reach(S, n) == IF n = 0 THEN S ELSE Reach(S \cup { y \in Groups : \E x \in S : Needs(x, y) }, n - 1)
Cyclic == \E x \in Groups : x \in Reach({ y \in Groups : Needs(x, y) }, Cardinality(Groups))

\* No configuration is accepted in which the value of a symbol takes the
\* value of the same symbol, directly or through choices: with such a cycle
\* the order of evaluation would decide the values.
CyclesRefused == (todo = <<>> /\ Cyclic) => errors > 0

\* What is printed is a way from a symbol back to itself, a choice and its
\* values being one, and never the "unexpected recursive dependency error".
ChainIsCycle ==
  \A c \in printed :
    /\ c # <<>>
    /\ \A i \in 1 .. Len(c) :
         LET next == IF i < Len(c) THEN c[i + 1] ELSE c[1]
         IN \/ next \in ToSet(Deps[c[i]])
            \/ c[i] \in ChoiceValues /\ next = ChoiceOf[c[i]]
            \/ next \in ChoiceValues /\ c[i] = ChoiceOf[next]
=============================================================================
