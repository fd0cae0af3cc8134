----------------------------- MODULE MCKConfig -----------------------------
(***************************************************************************)
(* The configuration tools, part by part:                                  *)
(*   ui      a user interface on top of the symbols: it calculates a       *)
(*           symbol before it shows it, sets and toggles the values it     *)
(*           shows, saves, and loads what was saved                        *)
(*   conf    the program conf in its modes                                 *)
(*   save    the files on disk, with programs that are killed              *)
(*   fixdep  the dependencies of the objects                               *)
(***************************************************************************)
EXTENDS KConf, KSave

CONSTANTS Parts, Orders      \* the symbols of every Kconfig, in order

VARIABLE part

Symbol == [type |-> "bool", values |-> <<>>, of |-> "none", optional |-> FALSE, prompts |-> <<YES>>,
           defaults |-> <<>>, range |-> <<>>, dir |-> NULL, rev |-> NULL, imply |-> NULL]
Default(e, vis) == [e |-> e, num |-> 0, sel |-> "none", vis |-> vis]
DefaultNum(n, vis) == [Default(YES, vis) EXCEPT !.num = n]
DefaultSel(s, vis) == [Default(YES, vis) EXCEPT !.sel = s]
Const(n) == [sym |-> "none", num |-> n]
OfSym(s) == [sym |-> s, num |-> 0]

\* MODULES, a tristate T, and a tristate D that depends on T, is selected by
\* S and implied by MODULES; E is like D without the implication.  A choice C
\* of P and Q, where Q depends on S.  Numbers: N ranges up to M, L is shown
\* with P.  R is shown with Q.
MCDef ==
  [MODULES |-> Symbol,
   T |-> [Symbol EXCEPT !.type = "tri", !.defaults = <<Default(Sym("m"), YES)>>],
   D |-> [Symbol EXCEPT !.type = "tri", !.prompts = <<Sym("T")>>, !.dir = Sym("T"), !.rev = Sym("S"),
                        !.imply = Sym("MODULES")],
   E |-> [Symbol EXCEPT !.type = "tri", !.prompts = <<Sym("T")>>, !.dir = Sym("T"), !.rev = Sym("S")],
   S |-> Symbol,
   C |-> [Symbol EXCEPT !.values = <<"P", "Q">>, !.rev = Sym("m"), !.defaults = <<DefaultSel("Q", YES)>>],
   P |-> [Symbol EXCEPT !.of = "C", !.prompts = <<Sym("C")>>, !.dir = Sym("C")],
   Q |-> [Symbol EXCEPT !.of = "C", !.prompts = <<Two("and", Sym("S"), Sym("C"))>>,
                        !.dir = Two("and", Sym("S"), Sym("C"))],
   M |-> [Symbol EXCEPT !.type = "int", !.range = <<Const(1), Const(3)>>, !.defaults = <<DefaultNum(2, YES)>>],
   N |-> [Symbol EXCEPT !.type = "int", !.range = <<Const(1), OfSym("M")>>, !.defaults = <<DefaultNum(3, YES)>>],
   L |-> [Symbol EXCEPT !.type = "int", !.range = <<Const(1), Const(2)>>, !.prompts = <<Sym("P")>>,
                        !.defaults = <<DefaultNum(2, YES)>>],
   R |-> [Symbol EXCEPT !.prompts = <<Sym("Q")>>, !.dir = Sym("Q"), !.defaults = <<Default(YES, YES)>>]]
MCSymType == [s \in DOMAIN MCDef |-> MCDef[s].type]

MCOrders == {<<"MODULES", "T", "D", "S">>, <<"S", "C", "P", "Q">>, <<"M", "N">>}

\* conf runs on two Kconfigs.  The second has a menu with the choice, L below
\* its first value, and before the menu R.
Order1 == <<"MODULES", "T", "E", "S">>
Order2 == <<"S", "C", "P", "L", "Q", "R">>

Entry(s, kids) == [sym |-> s, up |-> "root1", kids |-> kids]
MCMenu ==
  [root1 |-> Entry("none", <<"eMODULES", "eT", "eS">>),
   root2 |-> Entry("none", <<"eS2", "eR", "sub">>),
   eS2 |-> [Entry("S", <<>>) EXCEPT !.up = "root2"],
   sub |-> Entry("none", <<"eC">>),
   eMODULES |-> Entry("MODULES", <<>>),
   eT |-> Entry("T", <<"eE">>),
   eE |-> Entry("E", <<>>),
   eS |-> Entry("S", <<>>),
   eC |-> [Entry("C", <<"eP", "eQ">>) EXCEPT !.up = "sub"],
   eP |-> [Entry("P", <<"eL">>) EXCEPT !.up = "sub"],
   eL |-> [Entry("L", <<>>) EXCEPT !.up = "sub"],
   eQ |-> [Entry("Q", <<>>) EXCEPT !.up = "sub"],
   eR |-> [Entry("R", <<>>) EXCEPT !.up = "root2"]]
MCRootMenu == [o \in {Order1, Order2} |-> IF o = Order1 THEN "root1" ELSE "root2"]

\* Configurations: nothing, or values that a user may have saved or edited.
File(order, file) == [order |-> order, file |-> file]
Partial(S, D) == UNION {[X -> D] : X \in SUBSET S}
MCFiles ==
  {File(Order1, f) : f \in Partial({"MODULES", "S"}, {0, 2}) \cup {[MODULES |-> 2, T |-> 2, E |-> 1]}}
  \cup {File(Order2, f) : f \in {<<>>, [S |-> 0, P |-> 2], [S |-> 2, P |-> 2, L |-> 1], [S |-> 2, P |-> 0, Q |-> 2],
                                  [S |-> 2, P |-> 0, Q |-> 2, R |-> 0], [L |-> 3, P |-> 2, Q |-> 2], [S |-> 2, P |-> 2, Q |-> 0, L |-> 2]}}

MCContents == [f |-> <<"C", "a", " ", "C", "_", "a">>, g |-> <<"a", "C", "a", " ", "C", "a", "M">>]

-----------------------------------------------------------------------------
Show(s) == s \in Symbols(k) /\ s \notin k.valid /\ k' = sym_calc_value(k, s)

Shown(s) == s \in k.valid /\ k.visible[s] # 0

SetTri(s, v) == Shown(s) /\ Def[s].type # "int" /\ SetAccepted(k, s, v) /\ k' = sym_set_tristate_value(k, s, v)

Toggle(s) == Shown(s) /\ Def[s].type # "int" /\ k' = sym_toggle_tristate_value(k, s)

SetNum(s, n) == Shown(s) /\ Def[s].type = "int" /\ NumWithinRange(k, s, n) /\ k' = sym_set_string_value(k, s, n)

Save == k' = conf_write(k).k

Reload == \E w \in {conf_write(k)} : k' = conf_read(k, w.file)

UiNext ==
  \/ \E s \in Symbols(k) : \/ Show(s)
                           \/ \E v \in 0 .. 2 : SetTri(s, v)
                           \/ Toggle(s)
                           \/ \E n \in 1 .. 3 : SetNum(s, n)
  \/ Save
  \/ Reload

-----------------------------------------------------------------------------
confIdle == <<mode, pc, todo, rootEntry, conf_cnt, nosilent, dotconfig>>

Init ==
  /\ part \in Parts
  /\ IF part = "conf" THEN ConfInit
     ELSE /\ \E o \in IF part = "ui" THEN Orders ELSE {Order1} : k = Fresh(o)
          /\ mode = "none" /\ pc = "none" /\ todo = <<>> /\ rootEntry = "none"
          /\ conf_cnt = FALSE /\ nosilent = FALSE /\ dotconfig = <<>>
  /\ Def = MCDef
  /\ SaveInit
  /\ IF part = "fixdep" THEN FixDepInit ELSE text = <<>> /\ depfile = <<>> /\ out = NotYet

Next ==
  \/ part = "ui" /\ UiNext /\ UNCHANGED <<part, Def, confIdle, saveVars, fixdepVars>>
  \/ part = "conf" /\ ConfNext /\ UNCHANGED <<part, Def, saveVars, fixdepVars>>
  \/ part = "save" /\ SaveNext /\ UNCHANGED <<part, Def, confVars, fixdepVars>>
  \/ part = "fixdep" /\ FixDepNext /\ UNCHANGED <<part, Def, confVars, saveVars>>

\* conf does not stop by itself and the user answers in the end: weak
\* fairness of its steps, written without ENABLED, because a step is possible
\* until the program has ended.
Progress == <>[]Ended \/ []<><<TRUE>>_confVars

Spec == Init /\ [][Next]_<<part, Def, confVars, saveVars, fixdepVars>> /\ (part = "conf" => Progress)

-----------------------------------------------------------------------------
\* expr.h: the flag VALID is set when the value is up to date.  Calculating
\* everything again gives the same values, in whatever order symbols were
\* shown, set, saved and loaded.
ValidIsUpToDate ==
  \/ part # "ui"
  \/ \A again \in {CalcAll(Clear(k, Symbols(k)), <<"MODULES">> \o k.order)} :
       \A s \in k.valid : again.curr[s] = k.curr[s]

\* A choice that is y has exactly one value that is y, if one is visible; a
\* choice that is m has none: at any time in the user interface, and at the
\* end of conf in every mode.
ChoiceExclusive ==
  \/ part # "ui" /\ pc # "done"
  \/ \A k1 \in {CalcAll(k, k.order)}, c \in {s \in Symbols(k) : IsChoice(s)} :
          LET on == {s \in ToSet(Def[c].values) : k1.curr[s].tri = 2}
          IN /\ k1.curr[c].tri = 2 => \E s \in on : on = {s}
             /\ k1.curr[c].tri # 2 => on = {}

\* A symbol is at least what selects it, and more than its dependencies allow
\* only when it is selected.
DependenciesHold ==
  \/ part # "ui"
  \/ \A s \in k.valid : Def[s].type # "int" /\ ~IsChoiceValue(s) =>
       /\ k.curr[s].tri >= k.rev[s]
       /\ k.curr[s].tri > k.dir[s] => k.curr[s].tri = k.rev[s]

\* A saved configuration that is loaded again, by a new process or by this
\* one, has the same values and nothing left to save.
SaveLoad ==
  \/ part # "ui"
  \/ Symbols(k) \subseteq k.valid =>
     \A w \in {conf_write(k)}, start \in {Fresh(k.order), k} :
     \A r \in {conf_read(start, w.file)} : Values(r) = Values(k) /\ ~r.changed

\* What the user sets is the value the symbol then has.
SetTakesEffect ==
  \/ part # "ui"
  \/ \A s \in Symbols(k), v \in 0 .. 2 : Shown(s) /\ Def[s].type # "int" /\ SetAccepted(k, s, v) =>
       sym_calc_value(sym_set_tristate_value(k, s, v), s).curr[s].tri = v

\* A number is always within its range.
NumbersInRange ==
  \/ part # "ui"
  \/ \A s \in k.valid : Def[s].type = "int" => NumWithinRange(k, s, k.curr[s].num)

\* The minimal configuration stands for the whole one.
DefconfigLoad ==
  \/ part # "ui"
  \/ Symbols(k) \subseteq k.valid =>
     \A w \in {conf_write_defconfig(k)} :
     \A r \in {conf_read(Fresh(k.order), w.file)} : Values(r) = Values(k)

\* Whatever the answers, conf ends.
Ends == part = "conf" => <>Ended

-----------------------------------------------------------------------------
(* What the run checks, beside ValidIsUpToDate.                            *)

\* Every value is one the Kconfig files allow, and one the user may set.
ValuesAllowed == ChoiceExclusive /\ DependenciesHold /\ NumbersInRange /\ SetTakesEffect

\* Neither the full nor the minimal file loses a value.
FilesComplete == SaveLoad /\ DefconfigLoad

\* conf has written what it ended with, has asked for all that is new, and has
\* set what its mode says.
ConfRight == ConfigAgrees /\ NothingNew /\ AllConfig /\ DefaultConfig

\* fixdep and kconfig name the same files: no dependency is missed, and none is
\* listed twice.
FixdepRight == WordsOnce /\ SameFile /\ AllWordsFound

\* conf ends, and on its way leaves alone what it was not asked to change.
ConfEnds == SettledKept /\ Ends
=============================================================================
