------------------------------ MODULE MCKFiles ------------------------------
(***************************************************************************)
(* The algorithms that read Kconfig files, checked part by part: the       *)
(* expressions (expr), the menu tree (menu), the check for recursive       *)
(* dependencies (deps) and the preprocessor (macro).  The variable part says *)
(* which of them a behaviour is about.                                     *)
(***************************************************************************)
EXTENDS KFiles, TLC

-----------------------------------------------------------------------------
(* Two symbols, the boolean A and the tristate B, operands about them and   *)
(* about the constants, and the expressions made of them with two levels of *)
(* operators.  A state is a pair of expressions, the first of which grows.  *)
CONSTANTS Leaves,   \* operands of the first expression alone
          Few       \* operands of the two expressions of a pair

MCSymType == [A |-> "bool", B |-> "tri", C |-> "bool", Q |-> "bool", R |-> "tri", X |-> "tri"]
Level(S) == S \cup {Not(e) : e \in S} \cup {Two(t, e, f) : t \in {"and", "or"}, e \in S, f \in S}

Cmp(s, rels, cs) == {Two(r, s, c) : r \in rels, c \in cs}
MCLeaves == {Sym(s) : s \in {"A", "B", "m"}} \cup Cmp("A", {"="}, {"y", "m"})
            \cup Cmp("B", {"=", "!="}, {"y", "m", "n"}) \cup Cmp("B", {"<="}, {"A"})
MCFew == {Sym("A"), Sym("B"), Two("!=", "B", "n")}

VARIABLES e1, e2, levels
exprVars == <<e1, e2, levels>>

ExprInit == /\ \/ e1 \in Leaves /\ e2 = YES
               \/ e1 \in Few /\ e2 \in Level(Few)
            /\ levels = 0

\* One more operator at the root of the first expression.
ExprNext == /\ levels < 2 /\ levels' = levels + 1
            /\ \/ e1' = Not(e1)
               \/ \E t \in {"and", "or"}, f \in IF e2 = YES THEN Leaves ELSE Few :
                    e1' \in {Two(t, e1, f), Two(t, f, e1)}
            /\ UNCHANGED e2
ExprFinished == levels = 2 /\ UNCHANGED exprVars

ExprAssignments == {v \in [{"A", "B"} -> 0 .. 2] : v["A"] # 1}
Same(e, f) == e = f \/ \A v \in ExprAssignments : expr_calc_value(e, v) = expr_calc_value(f, v)

\* Simplification never changes what a dependency means: expr_transform keeps
\* the value under every assignment, for booleans, tristates and m.
TransformPreserves == Same(expr_transform(e1), e1)

\* Nor does the removal of redundant operands, on which all menus depend.
DupsPreserves == Same(expr_eliminate_dups(e1), e1)

\* Expressions found equal are equal.
EqSound == expr_eq(e1, e2) => Same(e1, e2)

\* menu_finalize makes an entry a child of another one when nothing is left
\* of the parent's condition: then the child's condition implies it.
NothingLeftImplies ==
  expr_eliminate_eq([a |-> e1, b |-> e2]).b = YES =>
    \A v \in ExprAssignments : expr_calc_value(e1, v) <= expr_calc_value(e2, v)

\* An entry that depends on a symbol is n when the symbol is.
DependsSound ==
  \A s \in {"A", "B"} : expr_depends_symbol(e1, s) =>
    \A v \in ExprAssignments : v[s] = 0 => expr_calc_value(e1, v) = 0

RECURSIVE NegatesTristate(_)
NegatesTristate(e) ==
  CASE e.t \in {"and", "or"} -> NegatesTristate(e.l) \/ NegatesTristate(e.r)
    [] e.t = "not" -> expr_contains_symbol(e.l, "B") \/ expr_contains_symbol(e.l, "m")
    [] OTHER -> FALSE

\* The comparison menu_finalize inserts tells n from the other values, unless
\* a tristate is negated.
CompareMeans ==
  ~NegatesTristate(e1) =>
    \A v \in ExprAssignments, type \in {"=", "!="}, c \in {"y", "n"} :
      expr_calc_value(expr_trans_compare(e1, type, c), v) =
        IF Holds(type, expr_calc_value(e1, v), Consts[c]) THEN 2 ELSE 0

\* A dependency shown to the user reads as what it means: parsed again, the
\* printed text has the same value.
PrintReads == Same(Parse("||", expr_print(e1, "none"), 1).e, e1)

\* The warning about unmet dependencies lists the selecting expressions by
\* value: a selection of value y is listed under y, and under m there is one
\* only if a selection has value m.
RevdepExplains ==
  \A v \in ExprAssignments :
    /\ expr_calc_value(e1, v) = 2 <=> RevdepLines(e1, v, 2) # <<>>
    /\ expr_calc_value(e1, v) = 1 => RevdepLines(e1, v, 1) # <<>>


-----------------------------------------------------------------------------
(***************************************************************************)
(* Menus of a file with the symbols A, B and C in this order, B and C      *)
(* alone or in an if, a menu or a choice X, with conditions about each     *)
(* other and about the symbols Q and R of another file.  A state is the    *)
(* tree as parsed and, after menu_finalize, the finalized one.             *)
(***************************************************************************)

Either(s, t) == Two("or", Sym(s), Sym(t))
Both(e, s) == Two("and", e, Sym(s))

EntryA == {Entry("A", Sym("R")), Shown(Sym("Q"), Entry("A", NULL))}
DepB == {Sym("A"), Both(Either("A", "Q"), "R"), Not(Sym("A"))}
DepC == {Sym("B"), Either("A", "B"), Two("!=", "B", "n"), Both(Sym("m"), "A")}
Outer == {NULL, Sym("A"), Sym("R")}

Hide(e, m) == [Block("menu", e, <<Shown(Sym("Q"), m)>>) EXCEPT !.hide = Sym("Q")]
ChoiceBlock(e, b, c) == [Block("X", e, <<b, c>>) EXCEPT !.sym = "X", !.choice = TRUE]
If(e, kids) == [Block("if", e, kids) EXCEPT !.prompt = FALSE]

Files(b, c) == {<<b, c>>}
  \cup UNION { {<<If(e, <<b>>), c>>, <<If(e, <<b, c>>)>>, <<b, Block("menu", e, <<c>>)>>,
                <<b, Hide(e, c)>>, <<ChoiceBlock(e, b, c)>>} : e \in Outer }

Trees == UNION { { [Block("root", NULL, <<[a EXCEPT !.prompt = "A" # silent]>> \o rest) EXCEPT !.prompt = TRUE]
                     : rest \in Files([b EXCEPT !.prompt = "B" # silent], [c EXCEPT !.prompt = "C" # silent]) }
                 : a \in EntryA,
                   b \in {[Entry("B", d) EXCEPT !.sel = <<[target |-> "Q", cond |-> Two("!=", "R", "n")]>>] : d \in DepB},
                   c \in {[Entry("C", d) EXCEPT !.sel = <<[target |-> "Q", cond |-> NULL]>>] : d \in DepC},
                   silent \in {"A", "B", "none"} }

VARIABLES parsed, tree
menuVars == <<parsed, tree>>

MenuInit == parsed \in Trees /\ tree = parsed
Finalize == /\ tree = parsed
            /\ tree' = Finalized(parsed)
            /\ UNCHANGED parsed
MenuFinished == tree # parsed /\ UNCHANGED menuVars
MenuNext == Finalize \/ MenuFinished

EntryNames(m) == [i \in DOMAIN Entries(m) |-> Entries(m)[i].name]

\* Submenus and the removal of ifs never lose, repeat or reorder an entry.
OrderKept == EntryNames(tree) = EntryNames(parsed)

MenuAssignments ==
  { v \in [DOMAIN MCSymType -> 0 .. 2] :
      \A s \in DOMAIN MCSymType : (SymType[s] = "bool" => v[s] # 1) }

\* No symbol is selected against its condition; sym_calc_value warns of it.
Possible(es, v) ==
  \A i \in DOMAIN es :
    (es[i].sym # "none" /\ v[es[i].sym] # 0) => expr_calc_value(es[i].dep, v) # 0

\* Every entry whose prompt may be shown can be reached: all menus, choices
\* and symbols above it are visible too, automatic submenus included.
VisibleReachable ==
  tree # parsed =>
    \A es \in {Entries(tree)} : \A i \in DOMAIN es : es[i].prompt =>
      \A p \in {Path(tree, es[i].name)} : \A v \in MenuAssignments :
        (Possible(es, v) /\ expr_calc_value(es[i].hide, v) # 0 /\ expr_calc_value(es[i].vis, v) # 0) =>
          \A j \in DOMAIN p : menu_is_visible(p[j], v)

\* The entry is a value of the choice: it is not below another value.
IsValue(name) == \E p \in {Path(tree, name)} : p[Len(p) - 1].choice

\* What the file says of an entry: its own condition and those around it, m
\* standing for m && MODULES.
RECURSIVE Around(_, _)
Around(m, name) ==
  IF m.name = name THEN {rewrite_m(m.dep)}
  ELSE UNION { LET s == Around(m.kids[i], name)
               IN IF s = {} THEN {} ELSE s \cup {IF m.choice THEN Sym(m.sym) ELSE rewrite_m(m.dep)} : i \in DOMAIN m.kids }
AllNotN(S, v) == \A e \in S : expr_calc_value(e, v) # 0

\* A bool that is a value of a tristate choice needs the choice to be y.
NeedsY(m) == IF IsValue(m.name) /\ ~IsTri(m.sym) THEN {Two("=", "X", "y")} ELSE {}

\* After all the rewriting a prompt is shown, and a select is in force, in
\* exactly the configurations in which all the conditions written around it
\* in the file are not n.
ConditionsKept ==
  tree # parsed =>
    \A es \in {Entries(parsed)}, fs \in {Entries(tree)} :
      /\ \A i \in DOMAIN es : es[i].sym # "none" =>
           \A c \in {Around(parsed, es[i].name) \cup NeedsY(es[i]) \cup {rewrite_m(es[i].vis)}} : \A v \in MenuAssignments :
             (expr_calc_value(fs[i].vis, v) # 0) = AllNotN(c, v)
      /\ \A r \in {RevDep(tree, "Q")},
            cs \in {{ Around(parsed, m.name) \cup {Sym(m.sym), rewrite_m(m.sel[1].cond)} : m \in { x \in ToSet(es) : x.sel # <<>> } }} :
           \A v \in MenuAssignments : (expr_calc_value(r, v) # 0) = \E c \in cs : AllNotN(c, v)

-----------------------------------------------------------------------------
(***************************************************************************)
(* Dependencies of two plain symbols and a choice of two values, the choice *)
(* between its values in the order of the check.                            *)
(***************************************************************************)

MCSyms == <<"v", "p", "c", "w", "q">>
MCChoice == [v |-> "c", w |-> "c"]

-----------------------------------------------------------------------------
(***************************************************************************)
(* The preprocessor with the variables a and b defined by up to MaxAdds    *)
(* assignments, the function w of two arguments, and the environment       *)
(* variables e, which is set, and u, which is not.                         *)
(***************************************************************************)

CONSTANT MaxAdds     \* bound on the assignments before an expansion

Ref(t) == <<"$", "(">> \o t \o <<")">>
Call(n, t) == Ref(<<n, ",">> \o t)

Env == (<<"e">> :> <<"x">>)
Functions == (<<"w">> :> 2)
Names == {<<"a">>, <<"b">>}
Bodies == {<<"x">>, Ref(<<"1">>), Ref(<<"e">>), Ref(<<"b">>), Call("a", Ref(<<"1">>)), Call("b", <<"x">>)}
Pieces == {<<"x">>, <<"$">>, <<"$", "(">>, Ref(<<"a">>), Ref(<<"e">>), Ref(<<"u">>), Call("a", <<"x">>),
           Call("b", Ref(<<"a">>)), Call("a", <<"(", "x", ",", "x", ")">>), Call("w", <<"x", ",", "x">>),
           Call("w", <<"x">>), Ref(Ref(<<"b">>)), Ref(<<"a", ",", ",", ",">>)}
Texts == Pieces \cup { Ref(<<"e">>) \o p : p \in {<<"$", "(">>, Ref(<<"a">>), Call("b", Ref(<<"a">>))} }

VARIABLES hist, macros, seen, text, res
macroVars == <<hist, macros, seen, text, res>>

MacroInit == hist = <<>> /\ macros = <<>> /\ seen = <<>> /\ text = None /\ res = Text(<<>>, <<>>)

\* An assignment of a Kconfig file; an error ends the program.
Assign(n, t, f) ==
  /\ text = None /\ res.err = None /\ Len(hist) < MaxAdds
  /\ \E r \in {variable_add(Place(macros, Functions, Env, seen), n, t, f)} :
       /\ res' = [r EXCEPT !.out = <<>>]
       /\ macros' = IF r.err = None THEN r.out ELSE macros
       /\ seen' = r.seen
  /\ hist' = Append(hist, <<n, t, f>>)
  /\ UNCHANGED text

\* The expansion of the rest of the file.
ExpandText(t) ==
  /\ text = None /\ res.err = None
  /\ text' = t
  /\ res' = expand_string(Place(macros, Functions, Env, seen), t)
  /\ seen' = res'.seen
  /\ UNCHANGED <<hist, macros>>

MacroFinished == (text # None \/ res.err # None) /\ UNCHANGED macroVars

MacroNext ==
  \/ \E n \in Names, t \in Bodies, f \in {"simple", "recursive", "append"} : Assign(n, t, f)
  \/ \E t \in Texts : ExpandText(t)
  \/ MacroFinished


-----------------------------------------------------------------------------
\* The same file read again in another environment.
Added(s, r) == [vars |-> IF r.err = None THEN r.out ELSE s.vars, r |-> [r EXCEPT !.out = <<>>]]
RECURSIVE Replay(_, _, _)
Replay(env, s, h) ==
  IF h = <<>> \/ s.r.err # None THEN s
  ELSE Replay(env, Added(s, variable_add(Place(s.vars, Functions, env, s.r.seen), Head(h)[1], Head(h)[2], Head(h)[3])), Tail(h))
ReadRest(env, s) == IF s.r.err # None THEN s.r ELSE expand_string(Place(s.vars, Functions, env, s.r.seen), text)
Again(env) == ReadRest(env, Replay(env, [vars |-> <<>>, r |-> Text(<<>>, <<>>)], hist))

Agrees(env) == \A n \in DOMAIN seen : n \in DOMAIN env /\ env[n] = seen[n]

\* The result of reading the file is a function of the environment variables
\* that are remembered for auto.conf.cmd: as long as these keep their values,
\* and no other variable comes or goes, the file reads the same.
EnvRemembered ==
  text # None => \A env \in {(<<"e">> :> v) : v \in {<<"x">>, <<"y">>}} :
                    Agrees(env) => Again(env).out = res.out

\* An expansion never goes deeper into one function than MaxExp allows: it
\* ends with a text or with an error.
ExpansionStops == res.most <= MaxExp + 1

\* A variable keeps the text that := and later += gave it, whatever happens
\* to the variables it was made from: it holds no reference any more.
SimpleHoldsNoReference ==
  \A n \in DOMAIN macros : macros[n].flavor = "simple" =>
    \A r \in {expand_string(Place([m \in Names |-> [value |-> <<"z">>, flavor |-> "simple"]], Functions, Env, seen), macros[n].value)} :
      r.out = macros[n].value

Balanced(t) == \A i \in 1 .. Len(t) : t[i] = "(" => Closing(t, i + 1, 0) # 0

\* Every comma is within parentheses.
CommasInside(t) ==
  \A i \in 1 .. Len(t) : t[i] = "," => \E j \in 1 .. i - 1 : t[j] = "(" /\ Closing(t, j + 1, 0) > i

\* A function that returns its argument returns what its argument expands to,
\* commas within parentheses included.
ArgumentPassed ==
  (text # None /\ Balanced(text) /\ CommasInside(text)) =>
    \A x \in {[Place(macros, Functions, Env, seen) EXCEPT
                 !.vars = @ @@ (<<"i">> :> [value |-> Ref(<<"1">>), flavor |-> "recursive"]),
                 !.count = @ @@ (<<"i">> :> 0)]} :
      \A r \in {expand_string(x, Call("i", text))} : r.err = res.err /\ (r.err = None => r.out = res.out)

-----------------------------------------------------------------------------
CONSTANT Parts
VARIABLE part

depsIdle == Deps = [s \in SymNames |-> <<>>] /\ checked = {} /\ todo = <<>> /\ printed = {} /\ errors = 0

Init == /\ part \in Parts
        /\ IF part = "expr" THEN ExprInit ELSE e1 = YES /\ e2 = YES /\ levels = 0
        /\ IF part = "menu" THEN MenuInit ELSE parsed = Block("root", NULL, <<>>) /\ tree = parsed
        /\ IF part = "deps" THEN DepsInit ELSE depsIdle
        /\ MacroInit

Next == \/ part = "expr" /\ (ExprNext \/ ExprFinished) /\ UNCHANGED <<part, menuVars, depsVars, macroVars>>
        \/ part = "menu" /\ MenuNext /\ UNCHANGED <<part, exprVars, depsVars, macroVars>>
        \/ part = "deps" /\ DepsNext /\ UNCHANGED <<part, exprVars, menuVars, macroVars>>
        \/ part = "macro" /\ MacroNext /\ UNCHANGED <<part, exprVars, menuVars, depsVars>>

Spec == Init /\ [][Next]_<<part, exprVars, menuVars, depsVars, macroVars>>

-----------------------------------------------------------------------------
(* What the run checks.                                                    *)

\* Every function that rewrites, compares or prints an expression keeps what
\* it says.
ExpressionsKept ==
  part = "expr" => /\ TransformPreserves /\ DupsPreserves /\ EqSound /\ NothingLeftImplies
                   /\ DependsSound /\ CompareMeans /\ PrintReads /\ RevdepExplains

\* The finalized menu has every entry of the file, in order, within reach and
\* under the conditions of the file; and its symbols depend on each other
\* without a cycle, or the file is refused.
MenuKept ==
  /\ part = "menu" => OrderKept /\ VisibleReachable /\ ConditionsKept
  /\ part = "deps" => CyclesRefused /\ ChainIsCycle

\* The preprocessor ends, passes arguments whole, and its result depends on
\* nothing it does not remember.
ExpansionSound ==
  part = "macro" => EnvRemembered /\ ExpansionStops /\ SimpleHoldsNoReference /\ ArgumentPassed
=============================================================================
