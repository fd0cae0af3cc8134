---------------------------- MODULE MCMenuconfig ----------------------------
(***************************************************************************)
(* The windows of menuconfig, one at a time: part says which of them is    *)
(* used, the others stay as they start.                                    *)
(***************************************************************************)
EXTENDS Lxdialog

CONSTANT Parts
VARIABLE part

\* Menus of up to five items; hotkeys that several items share, and an item
\* whose hotkey is the key that selects.
MCMenus ==
  {[i \in 0 .. n - 1 |-> f[i + 1]] : n \in 0 .. 5,
     f \in {<<"a", "none", "a", "s", "a">>, <<"none", "none", "none", "none", "none">>}}

\* The terminal gets smaller, or larger.
Smaller == {<<3, 1>>, <<1, 0>>}
Larger == {<<1, 3>>}

\* Lists of up to five items in a window of two; two items have the same
\* first letter, one has the letter of the key that selects.
MCLists ==
  {[i \in 0 .. n - 1 |-> f[i + 1]] : n \in 1 .. 5, f \in {<<"a", "b", "a", "s", "h">>, <<"b", "b", "b", "b", "b">>}}

\* A field of three characters for texts of up to five.
MCInits == {<<>>, <<"a", "b">>, <<"a", "b", "b">>, <<"b", "a", "b", "a">>}

\* Texts of up to five lines, empty ones among them, that end with a newline
\* as help texts and search results do.
Line == {<<"n">>, <<"c", "n">>, <<"c", "c", "n">>}
MCTexts == {a \o b \o c \o d \o e : a \in Line, b \in Line, c, d, e \in {<<>>, <<"n">>, <<"c", "n">>}}

Init ==
  /\ part \in Parts
  /\ MenuInit  /\ (part # "menu" => hot = <<>> /\ selected = -1 /\ height = 3)
  /\ ListInit  /\ (part # "list" => letters = [i \in {0} |-> "b"] /\ large)
  /\ InputInit /\ (part # "input" => instr = <<>>)
  /\ TextInit  /\ (part # "text" => buf = <<"n", "n">> /\ boxh = 1 /\ ~update)

Next ==
  \/ part = "menu" /\ MenuNext /\ UNCHANGED <<part, listVars, inputVars, textVars>>
  \/ part = "list" /\ ListNext /\ UNCHANGED <<part, menuVars, inputVars, textVars>>
  \/ part = "input" /\ InputNext /\ UNCHANGED <<part, menuVars, listVars, textVars>>
  \/ part = "text" /\ TextNext /\ UNCHANGED <<part, menuVars, listVars, inputVars>>

Spec == Init /\ [][Next]_<<part, menuVars, listVars, inputVars, textVars>>

\* Whatever keys and smaller terminals come, a window shows the part of its
\* items or its text that its variables say, and leaving and coming back does
\* not move the cursor.
WindowsTrue ==
  /\ RowsShowItems /\ ComesBack /\ HotkeySequences /\ ResizeSafe       \* menus
  /\ ListRowsShowItems                                                \* lists
  /\ CursorInField /\ FieldShowsText /\ TextIsTyped                    \* input fields
  /\ MovesBy /\ EdgesKnown                                            \* texts

\* A key acts on the highlighted item of a choice, and its help comes back to it.
KeysActOnShown == SetsHighlighted /\ HelpComesBack
=============================================================================
