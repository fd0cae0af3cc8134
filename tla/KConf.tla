------------------------------- MODULE KConf --------------------------------
(***************************************************************************)
(* The values of kconfig (nemu/tools/kconfig): the evaluation of symbols   *)
(* and the reading and writing of configurations (symbol.c, confdata.c), and*)
(* the program conf (conf.c).                                              *)
(***************************************************************************)
EXTENDS KExpr, SequencesExt

-----------------------------------------------------------------------------
(***************************************************************************)
(* The values of kconfig symbols (nemu/tools/kconfig/symbol.c): lazy       *)
(* evaluation with the VALID flag, visibility, select and imply, choices,  *)
(* ranges, and what happens when the user sets a value.                    *)
(*                                                                         *)
(* The C code works on global symbols; here the symbols of one Kconfig are *)
(* a record k and every operator returns the changed record:               *)
(*   order    the symbols, in the order of for_all_symbols and the menu    *)
(*   valid, write, need   the flags VALID, WRITE, NEED_SET_CHOICE_VALUES   *)
(*   curr     the value; tri, and num for an int, sel for a choice         *)
(*   user     def[S_DEF_USER], with has for the flag DEF_USER              *)
(*   visible, dir, rev, imp   visibility and the values of dir_dep,        *)
(*            rev_dep and implied                                          *)
(*   modules  modules_val                                                  *)
(*   changed  sym_change_count is not zero                                 *)
(* The flags CHANGED and MENU_CHANGED only tell a GUI what to repaint and  *)
(* are left out.                                                           *)
(***************************************************************************)

\* What the parser and menu_finalize have found out about a symbol: its type
\* ("bool", "tri" or "int"), the values of a choice (empty for other symbols),
\* the choice it is a value of ("none" for other symbols), the conditions of
\* the prompts, the defaults, the range, and dir_dep, rev_dep and implied.
\* Nothing changes it afterwards.
VARIABLE Def

Empty == [tri |-> 0, num |-> 0, sel |-> "none"]
IsChoice(s) == Def[s].values # <<>>
IsChoiceValue(s) == Def[s].of # "none"
Symbols(k) == ToSet(k.order)
Clear(k, S) == [k EXCEPT !.valid = @ \ S]

\* A user interface that has just parsed the Kconfig files.
Fresh(order) ==
  LET all(x) == [s \in ToSet(order) |-> x]
  IN [order |-> order, valid |-> {}, write |-> {}, need |-> {}, curr |-> all(Empty),
      user |-> all([has |-> FALSE, tri |-> 0, num |-> 0, sel |-> "none"]),
      visible |-> all(0), dir |-> all(0), rev |-> all(0), imp |-> all(0), modules |-> 0, changed |-> FALSE]

sym_get_type(k, s) ==
  IF Def[s].type = "tri" /\ ((IsChoiceValue(s) /\ k.visible[s] = 2) \/ k.modules = 0)
  THEN "bool" ELSE Def[s].type

\* The symbols of an expression, in the order expr_calc_value meets them.
RECURSIVE SymsOf(_)
SymsOf(e) ==
  CASE e.t \in {"and", "or"} -> SymsOf(e.l) \o SymsOf(e.r)
    [] e.t = "not" -> SymsOf(e.l)
    [] e.t = "null" -> <<>>
    [] e.t = "sym" -> <<e.l>>
    [] OTHER -> <<e.l, e.r>>

\* The value of an expression whose symbols have been calculated.
ValueIn(k, e) == expr_calc_value(e, [s \in Symbols(k) |-> k.curr[s].tri])

\* m is y for a symbol that cannot be m.
NoMod(k, s, tri) == IF tri = 1 /\ sym_get_type(k, s) = "bool" THEN 2 ELSE tri

-----------------------------------------------------------------------------
\* Every non-assigned value of the choice becomes n.
set_all_choice_values(k, c) ==
  [k EXCEPT !.user = [s \in Symbols(k) |->
                        IF s \in ToSet(Def[c].values) /\ ~@[s].has THEN [@[s] EXCEPT !.tri = 0]
                        ELSE IF s = c THEN [@[s] EXCEPT !.has = TRUE] ELSE @[s]],
            !.valid = @ \ {c}, !.need = @ \ {c}]

\* What remains of the user's value under the visibility of the symbol.
UserValue(k, s) == And2(k.user[s].tri, k.visible[s])

\* Faulty variant of InRange: a number above the range stays.
InRange_above(n, lo, hi) == IF n < lo THEN lo ELSE n

\* The number sym_validate_range leaves.
InRange(n, lo, hi) == IF n >= lo /\ n <= hi THEN n ELSE IF n >= lo THEN hi ELSE lo

\* Faulty variant of ImpliedValue: the direct dependency is not looked at.
ImpliedValue_free(k, s, tri) == IF k.imp[s] = 0 THEN tri ELSE Or2(tri, k.imp[s])

\* imply raises the default as far as the direct dependency allows.
ImpliedValue(k, s, tri) == IF k.imp[s] = 0 THEN tri ELSE And2(Or2(tri, k.imp[s]), k.dir[s])

\* A prompt that is m is not shown for a value of a choice that is y.
PromptValue(k, s, v) ==
  IF IsChoiceValue(s) /\ Def[s].type = "tri" /\ v = 1 /\ k.curr[Def[s].of].tri = 2 THEN 0 ELSE v

\* The strongest visible prompt.
NotModular(k, s, tri) == IF tri = 1 /\ (Def[s].type # "tri" \/ k.modules = 0) THEN 2 ELSE tri
Visible(k, s) == NotModular(k, s, Max({0} \cup {PromptValue(k, s, ValueIn(k, e)) : e \in ToSet(Def[s].prompts)}))

\* The value of rev_dep or implied; there need not be one.
Dependency(k, s, e) == IF e = NULL THEN 0 ELSE NoMod(k, s, ValueIn(k, e))

\* The symbols sym_calc_visibility calculates, in order.
AskedBy(s) ==
  FlattenSeq([i \in DOMAIN Def[s].prompts |-> SymsOf(Def[s].prompts[i])])
  \o IF IsChoiceValue(s) THEN <<>> ELSE SymsOf(Def[s].dir) \o SymsOf(Def[s].rev) \o SymsOf(Def[s].imply)

RECURSIVE sym_calc_value(_, _), CalcAll(_, _), sym_calc_visibility(_, _), DefaultProp(_, _, _), IfDefault(_, _, _),
          ChoiceDefault(_, _, _), IfChoiceDefault(_, _, _), Visibilities(_, _), sym_calc_choice(_, _)

\* expr_calc_value calculates every symbol it meets.
CalcAll(k, syms) ==
  IF syms = <<>> THEN k ELSE CalcAll(sym_calc_value(k, Head(syms)), Tail(syms))

\* visible, dir_dep, rev_dep and implied, from calculated symbols.
SetVisibility(k, s) ==
  [k EXCEPT !.visible[s] = Visible(k, s),
            !.dir[s] = IF IsChoiceValue(s) THEN @ ELSE NoMod(k, s, ValueIn(k, Def[s].dir)),
            !.rev[s] = IF IsChoiceValue(s) THEN @ ELSE Dependency(k, s, Def[s].rev),
            !.imp[s] = IF IsChoiceValue(s) THEN @ ELSE Dependency(k, s, Def[s].imply)]
sym_calc_visibility(k, s) == SetVisibility(CalcAll(k, AskedBy(s)), s)

\* sym_get_default_prop: the first default whose condition is not n, as its
\* position, or 0, and the value of the condition.
TakeDefault(k, s, i, tri) == IF tri = 0 THEN DefaultProp(k, s, i + 1) ELSE [k |-> k, i |-> i, tri |-> tri]
IfDefault(k, s, i) == TakeDefault(k, s, i, ValueIn(k, Def[s].defaults[i].vis))
DefaultProp(k, s, i) ==
  IF i > Len(Def[s].defaults) THEN [k |-> k, i |-> 0, tri |-> 0]
  ELSE IfDefault(CalcAll(k, SymsOf(Def[s].defaults[i].vis)), s, i)

\* sym_choice_default: the first default that is visible, or the first visible
\* value, or "none".
IfChoiceDefault(k, c, i) ==
  IF ValueIn(k, Def[c].defaults[i].vis) # 0 /\ k.visible[Def[c].defaults[i].sel] # 0
  THEN [k |-> k, sel |-> Def[c].defaults[i].sel] ELSE ChoiceDefault(k, c, i + 1)
ChoiceDefault(k, c, i) ==
  IF i > Len(Def[c].defaults)
  THEN [k |-> k, sel |-> Head(SelectSeq(Def[c].values, LAMBDA s : k.visible[s] # 0) \o <<"none">>)]
  ELSE IfChoiceDefault(CalcAll(k, SymsOf(Def[c].defaults[i].vis)), c, i)

Visibilities(k, vs) ==
  IF vs = <<>> THEN k ELSE Visibilities(sym_calc_visibility(k, Head(vs)), Tail(vs))

\* A choice with a new visible value is new.
ChoiceStillSet(k, c) ==
  [k EXCEPT !.user[c].has = @ /\ \A s \in ToSet(Def[c].values) : k.visible[s] # 0 => k.user[s].has]

\* The user's selection is visible.
SelectionVisible(k, c) == k.user[c].sel # "none" /\ k.visible[IF k.user[c].sel = "none" THEN c ELSE k.user[c].sel] # 0
Selected(d, c) == [d.k EXCEPT !.curr[c].sel = d.sel, !.curr[c].tri = IF d.sel = "none" THEN 0 ELSE @]
SelectValue(k, c) ==
  IF SelectionVisible(k, c) THEN [k EXCEPT !.curr[c].sel = k.user[c].sel]
  ELSE Selected(ChoiceDefault(k, c, 1), c)

sym_calc_choice(k, c) == SelectValue(ChoiceStillSet(Visibilities(k, Def[c].values), c), c)

\* Faulty variant of Chosen: a value goes by its own user value.
Chosen_user(k, s) == k.user[s].tri

\* A visible value of a choice is y when the choice has selected it.
Chosen(k, s) == IF k.curr[Def[s].of].sel = s THEN 2 ELSE 0

Marked(k, s) == [k EXCEPT !.write = @ \cup {s}]

\* The value of the default found, as far as its condition allows.
DefaultTri(k, e, tri) == [k |-> k, tri |-> And2(ValueIn(k, e), tri)]
DefaultOf(p, s) ==
  IF p.i = 0 THEN p
  ELSE DefaultTri(CalcAll(p.k, SymsOf(Def[s].defaults[p.i].e)), Def[s].defaults[p.i].e, p.tri)

\* select is a lower limit.
Raised(k, s, tri) == [k EXCEPT !.curr[s].tri = NoMod(k, s, Or2(tri, k.rev[s]))]
ByDefault(d, s) ==
  Raised(IF d.tri # 0 \/ d.k.imp[s] # 0 THEN Marked(d.k, s) ELSE d.k, s, ImpliedValue(d.k, s, d.tri))
NotByUser(k, s) == IF IsChoice(s) THEN Raised(k, s, 0) ELSE ByDefault(DefaultOf(DefaultProp(k, s, 1), s), s)

\* The new value of a boolean or tristate, with the flag WRITE it may set.
TriValue(k, s) ==
  CASE IsChoiceValue(s) /\ k.visible[s] = 2 -> [k EXCEPT !.curr[s].tri = Chosen(k, s)]
    [] ~(IsChoiceValue(s) /\ k.visible[s] = 2) /\ k.visible[s] # 0 /\ k.user[s].has -> Raised(k, s, UserValue(k, s))
    [] OTHER -> NotByUser(IF k.rev[s] # 0 THEN Marked(k, s) ELSE k, s)

\* The new value of a number.
DefaultNumber(p, s) ==
  IF p.i = 0 THEN p.k ELSE Marked([p.k EXCEPT !.curr[s].num = Def[s].defaults[p.i].num], s)
NumValue(k, s) ==
  IF k.visible[s] # 0 /\ k.user[s].has THEN [k EXCEPT !.curr[s].num = k.user[s].num]
  ELSE DefaultNumber(DefaultProp(k, s, 1), s)

\* A bound of a range: a number, or the value of another symbol.
BoundOf(k, b) == IF b.sym = "none" THEN b.num ELSE k.curr[b.sym].num
BoundSyms(b) == IF b.sym = "none" THEN <<>> ELSE <<b.sym>>

WithBounds(k, s) == CalcAll(k, BoundSyms(Def[s].range[1]) \o BoundSyms(Def[s].range[2]))

Clamped(k, s) ==
  [k EXCEPT !.curr[s].num = InRange(k.curr[s].num, BoundOf(k, Def[s].range[1]), BoundOf(k, Def[s].range[2]))]
sym_validate_range(k, s) == IF Def[s].range = <<>> THEN k ELSE Clamped(WithBounds(k, s), s)

\* The values of a choice are written when the choice is and they are visible.
WriteChoice(k, c) ==
  [k EXCEPT !.write = (IF c \in @ THEN @ \cup {s \in ToSet(Def[c].values) : k.visible[s] # 0} ELSE @) \ {c}]

\* The parts of sym_calc_value: the choice that has to be set first, the flags,
\* the value by the type, the values of a choice, and what depends on the value.
ChoiceFirst(k, s) ==
  IF IsChoiceValue(s) /\ s \in k.need THEN sym_calc_value([k EXCEPT !.need = @ \ {s}], Def[s].of) ELSE k
Begun(k, s) == [k EXCEPT !.valid = @ \cup {s}, !.write = @ \ {s}]
Cleared(k, s) == [k EXCEPT !.curr[s] = Empty, !.write = IF k.visible[s] # 0 THEN @ \cup {s} ELSE @]
ValueByType(k, s) == IF Def[s].type = "int" THEN sym_validate_range(NumValue(k, s), s) ELSE TriValue(k, s)
WithChoice(k, s) ==
  IF ~IsChoice(s) THEN k ELSE WriteChoice(IF k.curr[s].tri = 2 THEN sym_calc_choice(k, s) ELSE k, s)
Calculated(k, s) ==
  CASE s = "MODULES" -> [k EXCEPT !.modules = k.curr[s].tri]
    [] s # "MODULES" /\ s \in k.need -> set_all_choice_values(k, s)
    [] OTHER -> k

sym_calc_value(k, s) ==
  IF s \notin Symbols(k) \/ s \in k.valid THEN k
  ELSE Calculated(WithChoice(ValueByType(
         Cleared(sym_calc_visibility(Begun(ChoiceFirst(k, s), s), s), s), s), s), s)

\* Faulty variant of sym_clear_all_valid: only what was already valid and no
\* choice is calculated again.
sym_clear_all_valid_keep(k) ==
  sym_calc_value([k EXCEPT !.valid = {s \in @ : IsChoice(s)}, !.changed = TRUE], "MODULES")

sym_clear_all_valid(k) == sym_calc_value([k EXCEPT !.valid = {}, !.changed = TRUE], "MODULES")

-----------------------------------------------------------------------------
sym_tristate_within_range(k, s, v) ==
  /\ k.visible[s] # 0
  /\ Def[s].type # "int"
  /\ ~(sym_get_type(k, s) = "bool" /\ v = 1)
  /\ k.visible[s] > k.rev[s]
  /\ IF IsChoiceValue(s) /\ k.visible[s] = 2 THEN v = 2 ELSE v >= k.rev[s] /\ v <= k.visible[s]

\* The value of a choice that is set is the user's selection; the choice and
\* its visible values are no longer new.
SelectIn(k, s) ==
  LET c == Def[s].of
  IN [k EXCEPT !.user = [x \in Symbols(k) |->
        IF x = c THEN [@[x] EXCEPT !.has = TRUE, !.sel = s]
        ELSE IF x \in ToSet(Def[c].values) /\ k.visible[x] # 0 THEN [@[x] EXCEPT !.has = TRUE] ELSE @[x]]]

UserSet(k, s, v) ==
  [IF IsChoiceValue(s) /\ v = 2 THEN SelectIn(k, s) ELSE k EXCEPT !.user[s].has = TRUE, !.user[s].tri = v]

SetAccepted(k, s, v) == k.curr[s].tri = v \/ sym_tristate_within_range(k, s, v)

sym_set_tristate_value(k, s, v) ==
  IF ~SetAccepted(k, s, v) THEN k
  ELSE IF k.curr[s].tri # v THEN sym_clear_all_valid(UserSet(k, s, v)) ELSE UserSet(k, s, v)

\* The value sym_toggle_tristate_value settles on: the next one accepted.
Toggled(k, s) ==
  LET next(v) == (v + 1) % 3
      v1 == next(k.curr[s].tri)
      v2 == next(v1)
  IN IF SetAccepted(k, s, v1) THEN v1 ELSE IF SetAccepted(k, s, v2) THEN v2 ELSE k.curr[s].tri

sym_toggle_tristate_value(k, s) == sym_set_tristate_value(k, s, Toggled(k, s))

\* sym_string_within_range for a number.
Between(k, s, n) == n >= BoundOf(k, Def[s].range[1]) /\ n <= BoundOf(k, Def[s].range[2])
NumWithinRange(k, s, n) == Def[s].range = <<>> \/ Between(WithBounds(k, s), s, n)

\* sym_set_string_value for a number.  When the user value is already this
\* text nothing is calculated again.  The text of a symbol that never had a
\* user value is NULL: num 0 stands for it, which is not within any range.
sym_set_string_value(k, s, n) ==
  LET k1 == [k EXCEPT !.user[s].has = TRUE]
  IN IF ~NumWithinRange(k, s, n) THEN k
     ELSE IF k.user[s].num = n THEN k1
     ELSE sym_clear_all_valid([k1 EXCEPT !.user[s].num = n])

sym_is_changeable(k, s) == k.visible[s] > k.rev[s]

-----------------------------------------------------------------------------
(***************************************************************************)
(* Reading and writing configurations (nemu/tools/kconfig/confdata.c).  A  *)
(* configuration file is a function from the symbols it has a line for to  *)
(* their values; "is not set" is the value 0.  Lines are read in the order *)
(* of the symbols, the order in which they are written.                    *)
(***************************************************************************)

\* sym_get_string_value: m without modules reads n.
Written(k, s) ==
  IF Def[s].type = "int" THEN k.curr[s].num
  ELSE IF k.curr[s].tri = 1 /\ k.modules = 0 THEN 0 ELSE k.curr[s].tri

\* All values, as they would be written, when everything has been calculated.
WrittenValues(k) == [s \in {x \in Symbols(k) : ~IsChoice(x)} |-> Written(k, s)]
Values(k) == WrittenValues(CalcAll(k, k.order))

-----------------------------------------------------------------------------
\* The symbols before a file is read: no user values; a choice counts as set.
Forget(k) ==
  [k EXCEPT !.valid = {},
            !.user = [s \in Symbols(k) |-> [has |-> IsChoice(s), tri |-> 0, num |-> 0, sel |-> "none"]]]

\* Faulty variant of JoinChoice: the selected value is not kept.
JoinChoice_unset(r, s) ==
  LET c == Def[s].of
  IN IF c = "none" THEN r ELSE [r EXCEPT !.k.user[c].tri = Or2(@, r.k.user[s].tri)]

\* A line about a value of a choice also sets the choice; r.warn counts the
\* warnings.
JoinChoice(r, s) ==
  LET c == Def[s].of
      t == r.k.user[s].tri
      u == r.k.user[c]
  IN IF c = "none" THEN r
     ELSE [k |-> [r.k EXCEPT !.user[c] =
                    [has |-> u.has /\ ~(t = 1 /\ u.tri = 2), tri |-> Or2(u.tri, t), num |-> 0,
                     sel |-> IF t = 2 THEN s ELSE u.sel]],
           warn |-> r.warn \/ (t = 1 /\ u.tri = 2) \/ (t = 2 /\ u.tri # 0)]

\* One line of the file: conf_set_sym_val, then the choice.
ReadLine(r, s, v) ==
  CASE Def[s].type = "int" -> [r EXCEPT !.k.user[s].num = v, !.k.user[s].has = TRUE]
    [] Def[s].type = "bool" /\ v = 1 -> [r EXCEPT !.warn = TRUE]
    [] OTHER -> JoinChoice([r EXCEPT !.k.user[s].tri = v, !.k.user[s].has = TRUE], s)

RECURSIVE ReadLines(_, _, _)
ReadLines(r, syms, file) ==
  IF syms = <<>> THEN r
  ELSE ReadLines(IF Head(syms) \in DOMAIN file THEN ReadLine(r, Head(syms), file[Head(syms)]) ELSE r,
                 Tail(syms), file)

conf_read_simple(k, file) == ReadLines([k |-> Forget(k), warn |-> FALSE], k.order, file)

\* The value read and the value calculated agree, or there is neither.
Agrees(k, s) ==
  \/ IsChoice(s)
  \/ k.user[s].has /\ s \in k.write
     /\ IF Def[s].type = "int" THEN k.curr[s].num = k.user[s].num ELSE k.curr[s].tri = k.user[s].tri
  \/ ~k.user[s].has /\ s \notin k.write

\* The first loop of conf_read: calculate everything and look for values that
\* will not be saved as they were read.
Unsaved(k) == [k |-> k, unsaved |-> \E s \in Symbols(k) : ~Agrees(k, s)]
CountUnsaved(k) == Unsaved(CalcAll(k, <<"MODULES">> \o k.order))

\* The second loop: a value that is not visible becomes new again, a number
\* that is out of range is dropped.
NewAgain(r, s) == IF r.k.visible[s] = 0 /\ ~r.unsaved THEN [r EXCEPT !.k.user[s].has = FALSE] ELSE r
DropOutOfRange(r, s) ==
  IF Def[s].type = "int" /\ ~NumWithinRange(r.k, s, r.k.user[s].num)
  THEN [k |-> [r.k EXCEPT !.valid = @ \ {s}, !.user[s].has = FALSE], unsaved |-> TRUE] ELSE r
ResetGenerated(r, syms) ==
  FoldLeft(LAMBDA x, s : IF x.k.user[s].has /\ ~IsChoiceValue(s) THEN DropOutOfRange(NewAgain(x, s), s) ELSE x, r, syms)

Changed(r, warn) == [r.k EXCEPT !.changed = warn \/ r.unsaved]
Checked(r, syms) == Changed(ResetGenerated(CountUnsaved(r.k), syms), r.warn)
conf_read(k, file) == Checked(conf_read_simple(k, file), k.order)

-----------------------------------------------------------------------------
\* conf_write: the symbols and the file.
Recalculated(k) == IF k.changed THEN k ELSE sym_clear_all_valid(k)
FileOf(k) ==
  [k |-> [k EXCEPT !.changed = FALSE], file |-> [s \in {x \in k.write : ~IsChoice(x)} |-> Written(k, s)]]
conf_write(k) == FileOf(CalcAll(Recalculated(k), SelectSeq(k.order, LAMBDA s : ~IsChoice(s))))

\* sym_get_string_default: the value the symbol would have without the user.
ModulesOn(k) == "MODULES" \in Symbols(k) /\ k.curr["MODULES"].tri # 0
StringTri(k, s, t) ==
  Or2(IF t = 1 /\ ((~IsChoiceValue(s) /\ ~ModulesOn(k)) \/ Def[s].type = "bool") THEN 2 ELSE t, k.imp[s])
TriDefault(d, s) == [k |-> d.k, value |-> StringTri(d.k, s, Or2(d.tri, d.k.rev[s]))]
DefaultText(p, s) ==
  IF Def[s].type = "int" THEN [k |-> p.k, value |-> IF p.i = 0 THEN 0 ELSE Def[s].defaults[p.i].num]
  ELSE TriDefault(DefaultOf(p, s), s)
StringDefault(k, s) == DefaultText(DefaultProp(sym_calc_value(sym_calc_visibility(k, s), "MODULES"), s, 1), s)

\* Faulty variant of IsChoiceDefault: any selected value is left out.
IsChoiceDefault_any(k, s, sel) == ~Def[Def[s].of].optional /\ Def[s].type = "bool" /\ k.curr[s].tri = 2

\* A value that is y because it is the default of its choice.
IsChoiceDefault(k, s, sel) ==
  ~Def[Def[s].of].optional /\ sel = s /\ Def[s].type = "bool" /\ k.curr[s].tri = 2

\* One symbol of conf_write_defconfig: file is what has been written so far.  A
\* symbol with its default value is left out, and so is the default of a choice.
LeftOut(k, s, file) == [k |-> [k EXCEPT !.write = @ \ {s}], file |-> file]
PutIn(k, s, file) == LeftOut(k, s, (s :> Written(k, s)) @@ file)
UnlessChoiceDefault(cd, s, file) ==
  IF IsChoiceDefault(cd.k, s, cd.sel) THEN LeftOut(cd.k, s, file) ELSE PutIn(cd.k, s, file)
UnlessDefault(d, s, file) ==
  CASE Written(d.k, s) = d.value -> LeftOut(d.k, s, file)
    [] Written(d.k, s) # d.value /\ ~IsChoiceValue(s) -> PutIn(d.k, s, file)
    [] OTHER -> UnlessChoiceDefault(ChoiceDefault(d.k, Def[s].of, 1), s, file)
DefconfigSymbol(k, s, file) ==
  CASE s \notin k.write -> [k |-> k, file |-> file]
    [] s \in k.write /\ ~sym_is_changeable(k, s) -> LeftOut(k, s, file)
    [] OTHER -> UnlessDefault(StringDefault(k, s), s, file)

RECURSIVE DefconfigSymbols(_, _)
DefconfigSymbols(w, syms) ==
  IF syms = <<>> THEN w
  ELSE DefconfigSymbols(DefconfigSymbol(sym_calc_value(w.k, Head(syms)), Head(syms), w.file), Tail(syms))

conf_write_defconfig(k) ==
  DefconfigSymbols([k |-> sym_clear_all_valid(k), file |-> <<>>], SelectSeq(k.order, LAMBDA s : ~IsChoice(s)))

-----------------------------------------------------------------------------
(***************************************************************************)
(* The command line interface of kconfig (nemu/tools/kconfig/conf.c and    *)
(* the functions of confdata.c it calls): conf --<mode> Kconfig reads a    *)
(* configuration, asks for or chooses the values of the symbols that have  *)
(* none, and writes the configuration.                                     *)
(*                                                                         *)
(* check_conf and conf walk the menus recursively and ask the user in      *)
(* between: todo is what remains of the walk, <<what, entry>> pairs, the   *)
(* next one first.  A line that is no answer (help, an unknown word, a     *)
(* value out of range) repeats the question and is a stuttering step; the  *)
(* end of the input leaves an empty line, which is the default answer.     *)
(***************************************************************************)

CONSTANTS
  Menu,     \* the entries: symbol or "none", parent menu, list of entries
  RootMenu, \* rootmenu, by the symbols
  Modes,    \* the modes of the command line
  Files     \* the configurations there may be, and the order of their symbols

VARIABLES
  k,            \* the symbols
  mode,         \* input_mode
  pc,           \* where main is
  todo,         \* what remains of check_conf and conf
  rootEntry,
  conf_cnt,     \* conf_cnt is not zero
  nosilent,     \* KCONFIG_NOSILENTUPDATE is set
  dotconfig     \* .config on the disk

confVars == <<k, mode, pc, todo, rootEntry, conf_cnt, nosilent, dotconfig>>

ConfInit ==
  \E f \in Files :
    /\ k = Fresh(f.order)
    /\ dotconfig = f.file
    /\ mode \in Modes
    /\ nosilent \in IF mode = "syncconfig" THEN BOOLEAN ELSE {FALSE}
    /\ pc = "read"
    /\ todo = <<>>
    /\ rootEntry = "none"
    /\ conf_cnt = FALSE

\* The modes that ask, and those that only print what is new.
Listing == {"listnewconfig", "helpnewconfig"}
Asking == {"oldaskconfig", "oldconfig", "syncconfig"} \cup Listing
SymOf(n) == Menu[n].sym
Root == RootMenu[k.order]
IsNew(s) == ~k.user[s].has

-----------------------------------------------------------------------------
\* The symbols menu_is_visible calculates for an entry, and whether the entry
\* is visible.  An entry of a symbol whose prompt is hidden is visible when
\* the symbol is not n and one of the entries below it is visible; the symbol
\* then counts as set by the user.
RECURSIVE menu_is_visible(_, _), AnyVisible(_, _)
FirstVisible(r, kids) == IF r.is THEN r ELSE AnyVisible(r.k, kids)
AnyVisible(x, kids) ==
  IF kids = <<>> THEN [k |-> x, is |-> FALSE] ELSE FirstVisible(menu_is_visible(x, Head(kids)), Tail(kids))
BelowVisible(b, s) == IF b.is THEN [b EXCEPT !.k.user[s].has = TRUE] ELSE b
EntryVisible(x, s, kids) ==
  CASE x.visible[s] # 0 -> [k |-> x, is |-> TRUE]
    [] x.visible[s] = 0 /\ (Def[s].type = "int" \/ x.curr[s].tri = 0) -> [k |-> x, is |-> FALSE]
    [] OTHER -> BelowVisible(AnyVisible(x, kids), s)
menu_is_visible(x, n) ==
  IF SymOf(n) = "none" THEN [k |-> x, is |-> TRUE]
  ELSE EntryVisible(sym_calc_value(x, SymOf(n)), SymOf(n), Menu[n].kids)

Each(what, kids) == [i \in DOMAIN kids |-> <<what, kids[i]>>]

\* check_conf stops at a symbol that is new and can be changed, or is a choice.
Asks(x, s) ==
  ~x.user[s].has /\ (sym_is_changeable(x, s) \/ (IsChoice(s) /\ x.curr[s].tri = 2))

Top == Head(todo)
Doing(what) == pc = "ask" /\ todo # <<>> /\ Top[1] = what

\* check_conf on the next entry: the menu of a new symbol is gone through.
MustAsk(r, s) == mode \notin Listing /\ r.is /\ s # "none" /\ Asks(r.k, IF s = "none" THEN r.k.order[1] ELSE s)
Check(n, r, ask) ==
  /\ k' = r.k
  /\ todo' = (IF ask THEN <<<<"conf", Menu[n].up>>>> ELSE <<>>)
             \o (IF r.is THEN Each("check", Menu[n].kids) ELSE <<>>) \o Tail(todo)
  /\ conf_cnt' = (conf_cnt \/ ask)
  /\ rootEntry' = IF ask THEN Menu[n].up ELSE rootEntry
check_conf ==
  /\ Doing("check")
  /\ \E r \in {menu_is_visible(k, Top[2])} : Check(Top[2], r, MustAsk(r, SymOf(Top[2])))
  /\ UNCHANGED <<mode, pc, nosilent, dotconfig>>

\* conf on the next entry: a menu, then what is below it; a symbol or a
\* choice is the subject of a question.
Below(n, s, visible) ==
  CASE ~visible -> <<>>
    [] visible /\ s = "none" /\ mode # "oldaskconfig" /\ rootEntry # n -> <<<<"check", n>>>>
    [] visible /\ s = "none" /\ (mode = "oldaskconfig" \/ rootEntry = n) -> Each("conf", Menu[n].kids)
    [] visible /\ s # "none" /\ IsChoice(IF s = "none" THEN k.order[1] ELSE s) -> <<<<"choice", n>>>>
    [] OTHER -> <<<<"sym", n>>>> \o Each("conf", Menu[n].kids)
conf ==
  /\ Doing("conf")
  /\ \E r \in {menu_is_visible(k, Top[2])} :
       k' = r.k /\ todo' = Below(Top[2], SymOf(Top[2]), r.is) \o Tail(todo)
  /\ UNCHANGED <<mode, pc, rootEntry, conf_cnt, nosilent, dotconfig>>

\* Faulty variant of Silent: a symbol that can be changed is always asked for.
Silent_never(s) == ~sym_is_changeable(k, s)

\* conf_askvalue does not ask for a symbol that cannot be changed, nor, in the
\* modes that only ask for new symbols, for one that has a value.
Silent(s) == ~sym_is_changeable(k, s) \/ (mode # "oldaskconfig" /\ ~IsNew(s))

\* The answers that conf_sym and conf_string accept; the default is one.
Accepted(s) ==
  IF Def[s].type = "int" THEN {x \in 1 .. 3 : NumWithinRange(k, s, x)}
  ELSE {v \in 0 .. 2 : SetAccepted(k, s, v)}
Answered(s, v) ==
  IF Def[s].type = "int" THEN sym_set_string_value(k, s, v) ELSE sym_set_tristate_value(k, s, v)

\* conf_sym and conf_string, of a symbol or of a choice.
conf_sym ==
  /\ Doing("sym")
  /\ LET s == SymOf(Top[2])
     IN IF Silent(s) THEN k' = k ELSE \E v \in Accepted(s) : k' = Answered(s, v)
  /\ todo' = Tail(todo)
  /\ UNCHANGED <<mode, pc, rootEntry, conf_cnt, nosilent, dotconfig>>

\* The visible values of a choice, and the symbols once they are calculated.
AddVisible(r, n, nodes) == [k |-> r.k, nodes |-> IF r.is THEN Append(nodes, n) ELSE nodes]
VisibleValues(x, kids) ==
  FoldLeft(LAMBDA v, n : AddVisible(menu_is_visible(v.k, n), n, v.nodes), [k |-> x, nodes |-> <<>>], kids)

\* The first part of conf_choice: the value of the choice itself.  A new
\* choice is remembered as "pick", one that is not new as "keep".
ChoiceTurn(n, c) == <<<<IF IsNew(c) \/ mode = "oldaskconfig" THEN "pick" ELSE "keep", n>>>>
ChoiceSet(c) ==
  IF sym_is_changeable(k, c) /\ ~Silent(c) THEN {sym_set_tristate_value(k, c, v) : v \in Accepted(c)} ELSE {k}
conf_choice ==
  /\ Doing("choice")
  /\ \E x \in ChoiceSet(SymOf(Top[2])) : k' = sym_calc_value(x, SymOf(Top[2]))
  /\ todo' = ChoiceTurn(Top[2], SymOf(Top[2])) \o Tail(todo)
  /\ UNCHANGED <<mode, pc, rootEntry, conf_cnt, nosilent, dotconfig>>

\* The values conf_choice can settle on: the only one, the one the choice has
\* (kept, or taken as the default), or any the user picks.
Picked(what, cur, nodes) ==
  IF Len(nodes) = 1 THEN ToSet(nodes)
  ELSE IF what = "keep" THEN {n \in ToSet(nodes) : SymOf(n) = cur} ELSE ToSet(nodes)

\* The second part of conf_choice: the value of a choice that is y, and the
\* entries below it.  A choice that is m is gone through like a menu.
conf_choice_value ==
  /\ Doing("pick") \/ Doing("keep")
  /\ LET n == Top[2]
         c == SymOf(n)
     IN \/ /\ k.curr[c].tri # 2
           /\ k' = k
           /\ todo' = (IF k.curr[c].tri = 1 THEN Each("conf", Menu[n].kids) ELSE <<>>) \o Tail(todo)
        \/ /\ k.curr[c].tri = 2
           /\ \E vis \in {VisibleValues(k, Menu[n].kids)} : \E p \in Picked(Top[1], k.curr[c].sel, vis.nodes) :
                /\ k' = sym_set_tristate_value(vis.k, SymOf(p), 2)
                /\ todo' = Each("conf", Menu[p].kids) \o Tail(todo)
  /\ UNCHANGED <<mode, pc, rootEntry, conf_cnt, nosilent, dotconfig>>

\* Faulty variant of Again: one pass.
Again_once ==
  /\ pc = "ask"
  /\ todo = <<>>
  /\ pc' = "write"
  /\ conf_cnt' = FALSE
  /\ UNCHANGED <<k, mode, todo, rootEntry, nosilent, dotconfig>>

\* Faulty variant of Again: conf_cnt is not reset.
Again_counting ==
  /\ pc = "ask"
  /\ todo = <<>>
  /\ IF conf_cnt \/ mode = "oldaskconfig"
     THEN todo' = <<<<"check", Root>>>> /\ mode' = (IF mode = "oldaskconfig" THEN "oldconfig" ELSE mode)
          /\ UNCHANGED pc
     ELSE pc' = "write" /\ UNCHANGED <<todo, mode>>
  /\ UNCHANGED <<k, rootEntry, conf_cnt, nosilent, dotconfig>>

\* check_conf(&rootmenu) is repeated until it asks for nothing.
Again ==
  /\ pc = "ask"
  /\ todo = <<>>
  /\ IF conf_cnt \/ mode = "oldaskconfig"
     THEN todo' = <<<<"check", Root>>>> /\ mode' = (IF mode = "oldaskconfig" THEN "oldconfig" ELSE mode)
          /\ UNCHANGED pc
     ELSE pc' = "write" /\ UNCHANGED <<todo, mode>>
  /\ conf_cnt' = FALSE
  /\ UNCHANGED <<k, rootEntry, nosilent, dotconfig>>

-----------------------------------------------------------------------------
\* The value a mode gives a new symbol; any value when it is random, for a
\* boolean one of two.
NewValues(s) ==
  CASE mode = "allyesconfig" -> {2}
    [] mode = "allmodconfig" -> {1}
    [] mode = "allnoconfig" -> {0}
    [] mode = "randconfig" -> IF Def[s].type = "tri" THEN 0 .. 2 ELSE {0, 2}

\* The symbols the first loop of conf_set_all_new_symbols sets.
NewSymbols == {s \in Symbols(k) : IsNew(s) /\ s \notin k.valid /\ Def[s].type # "int"}

\* Faulty variant of SetNew: the default mode also marks the symbols as set.
SetNew_marked(f) ==
  sym_clear_all_valid([k EXCEPT !.user = [s \in Symbols(k) |->
    IF s \in DOMAIN f
    THEN [@[s] EXCEPT !.tri = f[s], !.has = @ \/ ~(IsChoice(s) /\ mode = "randconfig")]
    ELSE [@[s] EXCEPT !.has = @ \/ s \in NewSymbols]]])

\* The symbols after that loop.  A random value does not settle a choice.
SetNew(f) ==
  sym_clear_all_valid([k EXCEPT !.user = [s \in Symbols(k) |->
    IF s \in DOMAIN f
    THEN [@[s] EXCEPT !.tri = f[s], !.has = @ \/ ~(IsChoice(s) /\ mode = "randconfig")] ELSE @[s]]])

\* The choices that have no value and all values of choices wait for their
\* choice to be set, unless they are set at random.
NeedChoice(x) ==
  IF mode = "randconfig" THEN x ELSE
  [x EXCEPT !.need = @ \cup {s \in Symbols(x) : (IsChoice(s) /\ ~x.user[s].has) \/ IsChoiceValue(s)}]

\* randomize_choice_values: one value becomes y and the others n.
randomize_choice_values(x, c, s) ==
  IF x.curr[c].tri # 2 THEN x
  ELSE [x EXCEPT !.user = [t \in Symbols(x) |->
                   IF t = c THEN [@[t] EXCEPT !.has = TRUE, !.sel = s]
                   ELSE IF t \in ToSet(Def[c].values) THEN [@[t] EXCEPT !.has = TRUE, !.tri = IF t = s THEN 2 ELSE 0]
                   ELSE @[t]],
                 !.valid = @ \ ({c} \cup ToSet(Def[c].values))]

\* The last loop: every choice without a value, in order; pick gives the value
\* of each choice that is chosen at random.
SettleChoice(x, c, pick) == IF mode = "randconfig" THEN randomize_choice_values(x, c, pick[c]) ELSE set_all_choice_values(x, c)
SetChoice(x, c, pick, changed) ==
  [k |-> SettleChoice(x, c, pick), changed |-> changed \/ mode # "randconfig" \/ x.curr[c].tri = 2]
SetChoices(r, syms, pick) ==
  FoldLeft(LAMBDA x, c : IF x.k.user[c].has THEN x ELSE SetChoice(sym_calc_value(x.k, c), c, pick, x.changed), r, syms)

ChoicesOf(x) == SelectSeq(x.order, IsChoice)
Picks(x) ==
  {p \in [ToSet(ChoicesOf(x)) -> Symbols(x)] : \A c \in DOMAIN p : p[c] \in ToSet(Def[c].values)}

\* randconfig repeats conf_set_all_new_symbols as long as it changes something.
RandAgain(changed) == mode = "randconfig" /\ changed

\* conf_set_all_new_symbols.
conf_set_all_new_symbols ==
  /\ pc = "set"
  /\ LET new == IF mode \in {"alldefconfig", "defconfig"} THEN {} ELSE NewSymbols
     IN \E f \in [new -> 0 .. 2], pick \in Picks(k) :
          /\ \A s \in new : f[s] \in NewValues(s)
          /\ \E r \in {SetChoices([k |-> NeedChoice(SetNew(f)), changed |-> NewSymbols # {}], ChoicesOf(k), pick)} :
               k' = r.k /\ pc' = IF RandAgain(r.changed) THEN "set" ELSE "write"
  /\ UNCHANGED <<mode, todo, rootEntry, conf_cnt, nosilent, dotconfig>>

\* conf_rewrite_mod_or_yes: tristates the user set to y become m, or back.
conf_rewrite_mod_or_yes ==
  /\ pc = "rewrite"
  /\ LET old == IF mode = "yes2modconfig" THEN 2 ELSE 1
     IN k' = sym_clear_all_valid([k EXCEPT !.user = [s \in Symbols(k) |->
               IF sym_get_type(k, s) = "tri" /\ @[s].tri = old THEN [@[s] EXCEPT !.tri = 3 - old] ELSE @[s]]])
  /\ pc' = "write"
  /\ UNCHANGED <<mode, todo, rootEntry, conf_cnt, nosilent, dotconfig>>

-----------------------------------------------------------------------------
\* main reads .config, except in the modes that start from nothing.
FromNothing == {"allnoconfig", "allyesconfig", "allmodconfig", "alldefconfig", "randconfig"}

\* Faulty variant of Refused: a silent update is refused only without .config.
Refused_empty(x) == nosilent /\ dotconfig = <<>> /\ x.changed

\* KCONFIG_NOSILENTUPDATE: the configuration must not need an update.
Refused(x) == nosilent /\ x.changed

Read ==
  /\ pc = "read"
  /\ k' = IF mode \in FromNothing THEN k ELSE conf_read(k, dotconfig)
  /\ pc' = CASE mode \in FromNothing \cup {"defconfig"} -> "set"
             [] mode \in {"yes2modconfig", "mod2yesconfig"} -> "rewrite"
             [] mode \in Asking -> IF Refused(k') THEN "refused" ELSE "ask"
             [] mode = "olddefconfig" -> "write"
  /\ todo' = IF mode = "oldaskconfig" THEN <<<<"conf", Root>>>>
             ELSE IF pc' = "ask" THEN <<<<"check", Root>>>> ELSE <<>>
  /\ rootEntry' = IF mode = "oldaskconfig" THEN Root ELSE rootEntry
  /\ UNCHANGED <<mode, conf_cnt, nosilent, dotconfig>>

\* conf_write, unless the update has to be silent or nothing but a list was
\* asked for.  conf_write_autoconf calculates everything again.
Write ==
  /\ pc = "write"
  /\ IF mode \in Listing THEN UNCHANGED <<k, dotconfig>>
     ELSE \E w \in {IF nosilent THEN [k |-> k, file |-> dotconfig] ELSE conf_write(k)} :
            /\ k' = CalcAll(sym_clear_all_valid(w.k), k.order)
            /\ dotconfig' = w.file
  /\ pc' = "done"
  /\ UNCHANGED <<mode, todo, rootEntry, conf_cnt, nosilent>>

Ended == pc \in {"done", "refused"}
ConfFinished == Ended /\ UNCHANGED confVars

ConfNext ==
  \/ Read \/ Write
  \/ check_conf \/ conf \/ conf_sym \/ conf_choice \/ conf_choice_value \/ Again
  \/ conf_set_all_new_symbols \/ conf_rewrite_mod_or_yes
  \/ ConfFinished

-----------------------------------------------------------------------------
\* Everything the program wrote, read again by a new process, gives the
\* values the program ended with: auto.conf and .config are the same
\* configuration in every mode, written or left alone.
ConfigAgrees ==
  pc = "done" /\ mode \notin Listing =>
    \A r \in {conf_read(Fresh(k.order), dotconfig)} : Values(r) = Values(k)

\* oldconfig: "Update until a loop caused no more changes".  When it is over
\* no visible symbol that could be changed is new.
NothingNew ==
  pc = "done" /\ mode \in Asking \ Listing =>
    \A s \in Symbols(k) : sym_is_changeable(k, s) => k.user[s].has

\* The modes that ask only about new symbols leave the others as they were
\* read: a number or a value outside of a choice the user once set is kept.
SettledKept ==
  [][pc = "ask" /\ mode # "oldaskconfig" =>
       \A s \in Symbols(k) : k.user[s].has /\ ~IsChoiceValue(s) /\ ~IsChoice(s) => k'.user[s] = k.user[s]]_confVars

\* allyesconfig and allnoconfig go as far as the dependencies allow: outside
\* of choices a symbol is as large, or as small, as it can be made.
AllConfig ==
  pc = "done" => \A s \in Symbols(k) : Def[s].type # "int" /\ ~IsChoiceValue(s) =>
    /\ mode = "allyesconfig" => k.curr[s].tri = Or2(k.visible[s], k.curr[s].tri)
    /\ mode = "allnoconfig" /\ k.visible[s] # 0 => k.curr[s].tri = k.rev[s]

\* The default configuration is the one of a user who sets nothing.
DefaultConfig == pc = "done" /\ mode = "alldefconfig" => Values(k) = Values(Fresh(k.order))
=============================================================================
