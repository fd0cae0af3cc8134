------------------------------ MODULE Lxdialog ------------------------------
(***************************************************************************)
(* The windows of menuconfig (nemu/tools/kconfig/lxdialog): the two lists, *)
(* for menus and for choices (menubox.c, checklist.c), the input field     *)
(* (inputbox.c) and the text window (textbox.c).                           *)
(***************************************************************************)
EXTENDS Integers, Sequences, FiniteSets

(***************************************************************************)
(* The rows of a list in an lxdialog window                                *)
(* (nemu/tools/kconfig/lxdialog/menubox.c and checklist.c): which item     *)
(* stands in each row and whether it is highlighted.  Rows only change     *)
(* when the code prints an item or scrolls the window.                     *)
(***************************************************************************)

Blank == [item |-> -1, high |-> FALSE]
Cleared(height) == [i \in 0 .. height - 1 |-> Blank]

\* print_item: the row is overwritten.
Printed(rows, item, row, high) == [rows EXCEPT ![row] = [item |-> item, high |-> high]]

\* wscrl: the rows move up by d, or down for a negative d.
Scrolled(rows, d) == [i \in DOMAIN rows |-> IF i + d \in DOMAIN rows THEN rows[i + d] ELSE Blank]

\* The first lines of a window hold the items from first on.
Listed(height, max, first, choice) ==
  [i \in 0 .. height - 1 |-> IF i < max THEN [item |-> first + i, high |-> i = choice] ELSE Blank]

Least(a, b) == IF a < b THEN a ELSE b
Greatest(a, b) == IF a > b THEN a ELSE b

\* A button left or right of another one, with count buttons in a circle.
Turned(button, key, count) ==
  IF key = "left" THEN IF button = 0 THEN count - 1 ELSE button - 1
  ELSE IF button = count - 1 THEN 0 ELSE button + 1

-----------------------------------------------------------------------------
(***************************************************************************)
(* The menu of menuconfig (nemu/tools/kconfig/lxdialog/menubox.c).  mconf  *)
(* calls dialog_menu again and again with the items of a menu, the item to *)
(* start at and the place to keep the scroll position.                     *)
(***************************************************************************)

CONSTANTS
  Menus,      \* the menus: a hotkey for every item, counted from 0
  Heights,    \* the heights of the menu window, 0 for a terminal too small
  Resizes     \* the changes of that height, old and new

VARIABLES
  hot,          \* the hotkey of every item; its domain is the items
  selected,     \* the item to start at, or -1
  s_scroll,     \* where the caller keeps the scroll position
  height,       \* menu_height
  pc,           \* "call", "draw", "key", "out", or "crash"
  scroll, choice, first_item, button,
  rows,         \* the window
  shown,        \* the highlighted button
  result        \* what dialog_menu returned, and the item

menuVars == <<hot, selected, s_scroll, height, pc, scroll, choice, first_item, button, rows, shown, result>>
call == <<hot, selected>>

\* "a" and "s" are hotkeys; "none" stands for an item without a letter, whose
\* first character no key has.  "s" is also the key that selects.
Hotkeys == {"a", "s", "none"}
MaxChoice == Least(height, Cardinality(DOMAIN hot))
Count == Cardinality(DOMAIN hot)

MenuInit ==
  /\ hot \in Menus
  /\ selected \in -1 .. Count - 1
  /\ s_scroll = 0
  /\ height \in Heights
  /\ pc = "draw"
  /\ scroll = 0 /\ choice = 0 /\ first_item = 0 /\ button = 0 /\ shown = 0
  /\ rows = Cleared(height)
  /\ result = <<"none", -1>>

-----------------------------------------------------------------------------
\* Faulty variant of Placed: the saved position is not used.
Placed_forget(item, saved, count, max, first) ==
  LET s == IF item < max THEN 0 ELSE IF item >= count - (max \div 2) THEN count - max ELSE item - (max \div 2)
  IN [scroll |-> s, choice |-> item - s, first |-> s]

\* Where the menu starts: at the saved position if that shows the item and
\* fits, else at the top, else with the item in the middle.
Placed(item, saved, count, max, first) ==
  LET fits == saved <= item /\ saved + max > item /\ saved >= 0 /\ saved + max <= count
      c == IF fits THEN item - saved ELSE item
      s == IF c < max THEN (IF fits THEN saved ELSE 0)
           ELSE IF c >= count - (max \div 2) THEN count - max ELSE c - (max \div 2)
  IN [scroll |-> s, choice |-> IF c < max THEN c ELSE c - s,
      first |-> IF c < max THEN (IF fits THEN saved ELSE first) ELSE s]

\* From do_resize to the first key.  Printing an item that does not exist
\* dereferences NULL.
Draw ==
  /\ pc = "draw"
  /\ height # 0
  /\ LET p == Placed(IF selected >= 0 THEN selected ELSE choice, s_scroll, Count, MaxChoice, first_item)
         off == p.first < 0 \/ p.first + MaxChoice > Count
     IN /\ scroll' = p.scroll
        /\ choice' = p.choice
        /\ first_item' = p.first
        /\ rows' = IF off THEN Cleared(height) ELSE Listed(height, MaxChoice, p.first, p.choice)
        /\ pc' = IF off THEN "crash" ELSE "key"
  /\ shown' = 0
  /\ UNCHANGED <<call, s_scroll, height, button, result>>

TooSmall ==
  /\ pc = "draw"
  /\ height = 0
  /\ pc' = "out"
  /\ result' = <<"small", -1>>
  /\ UNCHANGED <<call, s_scroll, height, scroll, choice, first_item, button, rows, shown>>

\* The visible item with the key as its hotkey, first below the current one,
\* then from the top; MaxChoice when there is none.
NextHot(c, key) ==
  LET found == {i \in 0 .. MaxChoice - 1 : hot[scroll + i] = key}
      after == {i \in found : i > c}
      least(S) == CHOOSE i \in S : \A j \in S : i <= j
  IN IF found = {} THEN MaxChoice ELSE least(IF after # {} THEN after ELSE found)

\* The rows, the scroll position and the choice while a key is handled.
List == [rows |-> rows, scroll |-> scroll, choice |-> choice]
PrintRow(l, row, high) == [l EXCEPT !.rows = Printed(l.rows, l.scroll + row, row, high)]
do_scroll(l, d) == [l EXCEPT !.rows = Scrolled(l.rows, d), !.scroll = l.scroll + d]
Up1(l) == PrintRow(do_scroll(l, -1), 0, FALSE)

\* Faulty variant of Down1: the new last row is not printed.
Down1_unprinted(l) == do_scroll(l, 1)

Down1(l) == PrintRow(do_scroll(l, 1), MaxChoice - 1, FALSE)

KeyUp(l) ==
  IF l.choice < 2 /\ l.scroll # 0 THEN Up1(l) ELSE [l EXCEPT !.choice = Greatest(l.choice - 1, 0)]
KeyDown(l) ==
  IF l.choice > MaxChoice - 3 /\ l.scroll + MaxChoice < Count THEN Down1(l)
  ELSE [l EXCEPT !.choice = Least(l.choice + 1, MaxChoice - 1)]

\* One line of KEY_PPAGE and KEY_NPAGE.
PageUp1(l) == IF l.scroll > 0 THEN Up1(l) ELSE [l EXCEPT !.choice = Greatest(l.choice - 1, 0)]
PageDown1(l) ==
  IF l.scroll + MaxChoice < Count THEN Down1(l) ELSE [l EXCEPT !.choice = Least(l.choice + 1, MaxChoice - 1)]
RECURSIVE Repeat(_, _, _)
Repeat(op(_), l, times) == IF times = 0 THEN l ELSE Repeat(op, op(l), times - 1)

\* The keys that move the highlight.
Move(key) ==
  /\ pc = "key"
  /\ Count # 0
  /\ key \in Hotkeys => NextHot(choice, key) < MaxChoice
  /\ LET l0 == PrintRow(List, choice, FALSE)
         l1 == CASE key = "up" -> KeyUp(l0)
                 [] key = "down" -> KeyDown(l0)
                 [] key = "ppage" -> Repeat(PageUp1, l0, MaxChoice)
                 [] key = "npage" -> Repeat(PageDown1, l0, MaxChoice)
                 [] key \in Hotkeys -> [l0 EXCEPT !.choice = NextHot(choice, key)]
         l2 == PrintRow(l1, l1.choice, TRUE)
     IN rows' = l2.rows /\ scroll' = l2.scroll /\ choice' = l2.choice
  /\ UNCHANGED <<call, s_scroll, height, pc, first_item, button, shown, result>>

Button(key) ==
  /\ pc = "key"
  /\ button' = Turned(button, key, 5)
  /\ shown' = button'
  /\ UNCHANGED <<call, s_scroll, height, pc, scroll, choice, first_item, rows, result>>

\* The keys that leave the menu with the highlighted item: s where it is no
\* hotkey, Enter with the button, and the others ("y" stands for them).
Leave(key) ==
  /\ pc = "key"
  /\ key = "s" => NextHot(choice, key) = MaxChoice
  /\ s_scroll' = scroll
  /\ result' = <<IF key = "enter" THEN button ELSE key, IF Count = 0 THEN -1 ELSE scroll + choice>>
  /\ pc' = "out"
  /\ UNCHANGED <<call, height, scroll, choice, first_item, button, rows, shown>>

\* The keys e, x and Escape.
Escape ==
  /\ pc = "key"
  /\ result' = <<"esc", -1>>
  /\ pc' = "out"
  /\ UNCHANGED <<call, s_scroll, height, scroll, choice, first_item, button, rows, shown>>

Resize ==
  /\ pc = "key"
  /\ \E h \in Heights : <<height, h>> \in Resizes /\ height' = h
  /\ rows' = Cleared(height')
  /\ pc' = "draw"
  /\ UNCHANGED <<call, s_scroll, scroll, choice, first_item, button, shown, result>>

\* The next call: the same menu with what the user changed, or another one
\* whose own scroll position is still 0.
Call ==
  /\ pc = "out"
  /\ hot' \in Menus
  /\ selected' = IF result[2] \in DOMAIN hot' THEN result[2] ELSE -1
  /\ \/ UNCHANGED s_scroll
     \/ s_scroll' = 0
  /\ scroll' = 0 /\ choice' = 0 /\ first_item' = 0 /\ button' = 0
  /\ rows' = Cleared(height)
  /\ result' = <<"none", -1>>
  /\ pc' = "draw"
  /\ UNCHANGED <<height, shown>>

MenuNext ==
  \/ Draw \/ TooSmall \/ Escape \/ Resize \/ Call
  \/ \E key \in {"up", "down", "ppage", "npage", "a", "s"} : Move(key)
  \/ \E key \in {"left", "right"} : Button(key)
  \/ \E key \in {"s", "y", "enter"} : Leave(key)

MenuSpec == MenuInit /\ [][MenuNext]_menuVars

-----------------------------------------------------------------------------
\* Every row shows the item that a key in that row would select, and the
\* highlighted row is the current one, after any keys and in menus that
\* changed between two calls.
RowsShowItems ==
  pc = "key" =>
    /\ scroll >= 0 /\ scroll + MaxChoice <= Count
    /\ rows = Listed(height, MaxChoice, scroll, choice)
    /\ Count # 0 => choice \in 0 .. MaxChoice - 1

\* Leaving the menu at an item and coming back to it does not move the menu.
ComesBack ==
  pc = "key" /\ Count # 0 =>
    LET p == Placed(scroll + choice, scroll, Count, MaxChoice, 0)
    IN p.scroll = scroll /\ p.choice = choice /\ p.first = scroll

RECURSIVE Pressed(_, _, _)
Pressed(c, key, times) == IF times = 0 THEN {c} ELSE {c} \cup Pressed(NextHot(c, key), key, times - 1)

\* mconf.c: "Pressing a hotkey more than once will sequence through all
\* visible items which use that hotkey."
HotkeySequences ==
  pc = "key" => \A key \in {"a", "s"} :
    LET all == {i \in 0 .. MaxChoice - 1 : hot[scroll + i] = key}
    IN all # {} => all \subseteq Pressed(choice, key, Cardinality(all))

\* "menus change their size on the fly": drawing the menu in a new size never
\* runs off its items.
ResizeSafe == pc # "crash"

-----------------------------------------------------------------------------
(***************************************************************************)
(* The list of the values of a choice in menuconfig                        *)
(* (nemu/tools/kconfig/lxdialog/checklist.c and conf_choice in mconf.c).   *)
(* mconf shows the visible values; the help of a value leads back to the   *)
(* list with that value highlighted.                                       *)
(***************************************************************************)

CONSTANTS
  Lists,        \* the lists: the first letter of every item, counted from 0
  list_height,  \* CHECKLIST_HEIGTH_MIN
  Enough        \* the terminals that are large enough, a set of Booleans

VARIABLES
  letters,      \* the first letter of every item
  tagged,       \* the item with the tag X, the value of the choice
  marked,       \* the items that are selected
  list_pc,      \* "draw", "key", "out" or "set"
  large,        \* the terminal is large enough
  list_scroll, list_choice, list_button, list_rows, list_shown, list_result

listVars == <<letters, tagged, marked, list_pc, large, list_scroll, list_choice, list_button, list_rows, list_shown, list_result>>
list == <<letters, tagged>>

ListCount == Cardinality(DOMAIN letters)
ListMaxChoice == Least(list_height, ListCount)
First(S) == CHOOSE i \in S : \A j \in S : i <= j

\* Which item to highlight: the first that is selected, else the one with X.
StartAt(m, x) == IF m # {} THEN First(m) ELSE x

\* The value of the choice is always visible and selected at the start.
ListInit ==
  /\ letters \in Lists
  /\ tagged \in DOMAIN letters
  /\ marked = {tagged}
  /\ large \in Enough
  /\ list_pc = "draw"
  /\ list_scroll = 0 /\ list_button = 0 /\ list_shown = 0
  /\ list_choice = StartAt(marked, tagged)
  /\ list_rows = Cleared(list_height)
  /\ list_result = "none"

\* From do_resize to the first key.
ListDraw ==
  /\ list_pc = "draw"
  /\ large
  /\ LET s == IF list_choice >= list_height THEN list_choice - list_height + 1 ELSE list_scroll
         c == IF list_choice >= list_height THEN list_height - 1 ELSE list_choice
     IN list_scroll' = s /\ list_choice' = c /\ list_rows' = Listed(list_height, ListMaxChoice, s, c)
  /\ list_shown' = 0
  /\ list_pc' = "key"
  /\ UNCHANGED <<list, marked, large, list_button, list_result>>

ListTooSmall ==
  /\ list_pc = "draw"
  /\ ~large
  /\ list_pc' = "out"
  /\ list_result' = "small"
  /\ UNCHANGED <<list, marked, large, list_scroll, list_choice, list_button, list_rows, list_shown>>

\* The first visible item with the letter, or ListMaxChoice.
Lettered(key) ==
  LET found == {i \in 0 .. ListMaxChoice - 1 : letters[list_scroll + i] = key}
  IN IF found = {} THEN ListMaxChoice ELSE First(found)

\* A key whose letter a visible item has, or an arrow within the list, moves
\* the highlight.
MoveTo(i) ==
  IF i = list_choice THEN UNCHANGED <<list_choice, list_rows>>
  ELSE /\ list_choice' = i
       /\ list_rows' = Printed(Printed(list_rows, list_scroll + list_choice, list_choice, FALSE), list_scroll + i, i, TRUE)
Highlight(key) ==
  /\ list_pc = "key"
  /\ \/ key = "up" /\ list_choice # 0 /\ MoveTo(list_choice - 1)
     \/ key = "down" /\ list_choice # ListMaxChoice - 1 /\ MoveTo(list_choice + 1)
     \/ key \notin {"up", "down"} /\ Lettered(key) < ListMaxChoice /\ MoveTo(Lettered(key))
  /\ UNCHANGED <<list, marked, list_pc, large, list_scroll, list_button, list_shown, list_result>>

\* Faulty variant of ScrolledList: the row that leaves stays highlighted.
ScrolledList_high(d, row) == Printed(IF list_height > 1 THEN Scrolled(list_rows, d) ELSE list_rows, list_scroll + d + row, row, TRUE)

\* At the edge of the window the list scrolls by d; row is the edge.
ScrolledList(d, row) ==
  LET plain == Printed(list_rows, list_scroll + row, row, FALSE)
  IN Printed(IF list_height > 1 THEN Scrolled(plain, d) ELSE list_rows, list_scroll + d + row, row, TRUE)

Scroll(key) ==
  /\ list_pc = "key"
  /\ \/ key = "up" /\ list_choice = 0 /\ list_scroll # 0
        /\ list_scroll' = list_scroll - 1 /\ list_rows' = ScrolledList(-1, 0)
     \/ key = "down" /\ list_choice = ListMaxChoice - 1 /\ list_scroll + list_choice < ListCount - 1
        /\ list_scroll' = list_scroll + 1 /\ list_rows' = ScrolledList(1, ListMaxChoice - 1)
  /\ UNCHANGED <<list, marked, list_pc, large, list_choice, list_button, list_shown, list_result>>

ListButton(key) ==
  /\ list_pc = "key"
  /\ list_button' = Turned(list_button, key, 2)
  /\ list_shown' = list_button'
  /\ UNCHANGED <<list, marked, list_pc, large, list_scroll, list_choice, list_rows, list_result>>

\* h and ? ask for help, s and Space press the button; s and h only when they
\* are no first letters.
ListLeave(key) ==
  /\ list_pc = "key"
  /\ Lettered(key) = ListMaxChoice
  /\ list_button' = IF key = "h" THEN 1 ELSE list_button
  /\ marked' = {list_scroll + list_choice}
  /\ list_result' = IF list_button' = 1 THEN "help" ELSE "select"
  /\ list_pc' = "out"
  /\ UNCHANGED <<list, large, list_scroll, list_choice, list_rows, list_shown>>

ListEscape ==
  /\ list_pc = "key"
  /\ list_result' = "esc"
  /\ list_pc' = "out"
  /\ UNCHANGED <<list, marked, large, list_scroll, list_choice, list_button, list_rows, list_shown>>

ListResize ==
  /\ list_pc = "key"
  /\ large' \in Enough
  /\ list_rows' = Cleared(list_height)
  /\ list_pc' = "draw"
  /\ UNCHANGED <<list, marked, list_scroll, list_choice, list_button, list_shown, list_result>>

\* Faulty variant of conf_choice: asking for help sets the value as well.
conf_choice_help ==
  /\ list_pc = "out"
  /\ tagged' = IF list_result \in {"select", "help"} THEN First(marked) ELSE tagged
  /\ list_pc' = IF list_result = "help" THEN "draw" ELSE "set"
  /\ list_scroll' = 0 /\ list_button' = 0
  /\ list_choice' = StartAt(marked, tagged)
  /\ list_rows' = Cleared(list_height)
  /\ UNCHANGED <<letters, marked, large, list_shown, list_result>>

\* conf_choice (the lists here have no comments): a selected value is set,
\* help leads back to the list with its value selected, and everything else
\* ends it.
conf_choice ==
  /\ list_pc = "out"
  /\ tagged' = IF list_result = "select" THEN First(marked) ELSE tagged
  /\ list_pc' = IF list_result = "help" THEN "draw" ELSE "set"
  /\ list_scroll' = 0 /\ list_button' = 0
  /\ list_choice' = StartAt(marked, tagged)
  /\ list_rows' = Cleared(list_height)
  /\ UNCHANGED <<letters, marked, large, list_shown, list_result>>

ListFinished == list_pc = "set" /\ UNCHANGED listVars

ListNext ==
  \/ ListDraw \/ ListTooSmall \/ ListEscape \/ ListResize \/ conf_choice \/ ListFinished
  \/ \E key \in {"up", "down", "a", "s", "h"} : Highlight(key)
  \/ \E key \in {"up", "down"} : Scroll(key)
  \/ \E key \in {"left", "right"} : ListButton(key)
  \/ \E key \in {"s", "h", "enter"} : ListLeave(key)

ListSpec == ListInit /\ [][ListNext]_listVars

-----------------------------------------------------------------------------
\* The rows show the items from scroll on, and only the current one is
\* highlighted, also after the terminal changed its size.
ListRowsShowItems ==
  list_pc = "key" =>
    /\ list_scroll + ListMaxChoice <= ListCount
    /\ list_choice \in 0 .. ListMaxChoice - 1
    /\ list_rows = Listed(list_height, ListMaxChoice, list_scroll, list_choice)

\* Only the item that was highlighted becomes the value of the choice; help,
\* Escape and a terminal that is too small leave it alone.
SetsHighlighted ==
  [][tagged' # tagged => list_result = "select" /\ tagged' = list_scroll + list_choice]_listVars

\* Coming back from the help of an item, that item is highlighted.
HelpComesBack ==
  [][list_pc = "out" /\ list_result = "help" => list_choice' = list_scroll + list_choice]_listVars

-----------------------------------------------------------------------------
(***************************************************************************)
(* The input field of menuconfig                                           *)
(* (nemu/tools/kconfig/lxdialog/inputbox.c).  The text is edited in place; *)
(* the field shows a part of it and is only redrawn up to the end of the   *)
(* text and one blank.                                                     *)
(***************************************************************************)

CONSTANTS
  Inits,      \* the texts the field may start with
  Chars,      \* the characters that can be typed
  MAX_LEN,
  box_width

VARIABLES
  instr,      \* the text
  pos,        \* the cursor in the text
  show_x,     \* the first character shown
  input_x,    \* the cursor in the field
  field,      \* what stands in the field
  input_button,     \* -1 for the field, 0 for Ok, 1 for Help
  input_pc,         \* "draw", "key" or the result
  typed       \* what the user means: the text left and right of the cursor

inputVars == <<instr, pos, show_x, input_x, field, input_button, input_pc, typed>>

Space == "_"
len == Len(instr)

InputInit ==
  /\ instr \in Inits
  /\ pos = 0 /\ show_x = 0 /\ input_x = 0 /\ input_button = -1
  /\ field = [i \in 0 .. box_width - 1 |-> Space]
  /\ input_pc = "draw"
  /\ typed = <<instr, <<>>>>

\* From do_resize to the first key: the end of the text is shown.
InputDraw ==
  /\ input_pc = "draw"
  /\ pos' = len
  /\ show_x' = IF len >= box_width THEN len - box_width + 1 ELSE 0
  /\ input_x' = IF len >= box_width THEN box_width - 1 ELSE len
  /\ field' = [i \in 0 .. box_width - 1 |->
                 IF show_x' + i < len /\ i < box_width THEN instr[show_x' + i + 1] ELSE Space]
  /\ input_pc' = "key"
  /\ typed' = <<typed[1] \o typed[2], <<>>>>
  /\ UNCHANGED <<instr, input_button>>

\* The terminal may be too small each time the box is drawn.
InputTooSmall == input_pc = "draw" /\ input_pc' = "small" /\ UNCHANGED <<instr, pos, show_x, input_x, field, input_button, typed>>

\* Faulty variant of Redrawn: the blank behind the text is not printed.
Redrawn_short(s, x) == [i \in 0 .. box_width - 1 |-> IF x + i < Len(s) THEN s[x + i + 1] ELSE field[i]]

\* The loop over the field: the text from x on, then one blank, and what is
\* behind it stays.
Redrawn(s, x) ==
  [i \in 0 .. box_width - 1 |->
     IF x + i < Len(s) THEN s[x + i + 1] ELSE IF x + i = Len(s) THEN Space ELSE field[i]]

\* The text with the characters from i to Len(s) moved, as the loops do it.
Deleted(s, i) == SubSeq(s, 1, i - 1) \o SubSeq(s, i + 1, Len(s))

Inserted(s, i, c) == SubSeq(s, 1, i) \o <<c>> \o SubSeq(s, i + 1, Len(s))

Editing == input_pc = "key" /\ input_button = -1

Backspace ==
  /\ Editing
  /\ pos > 0
  /\ show_x' = IF input_x = 0 THEN show_x - 1 ELSE show_x
  /\ input_x' = IF input_x = 0 THEN 0 ELSE input_x - 1
  /\ instr' = Deleted(instr, pos)
  /\ pos' = pos - 1
  /\ field' = Redrawn(instr', show_x')
  /\ typed' = <<SubSeq(typed[1], 1, Len(typed[1]) - 1), typed[2]>>
  /\ UNCHANGED <<input_button, input_pc>>

Left ==
  /\ Editing
  /\ pos > 0
  /\ input_x' = IF input_x > 0 THEN input_x - 1 ELSE input_x
  /\ show_x' = IF input_x > 0 THEN show_x ELSE show_x - 1
  /\ field' = IF input_x > 0 THEN field ELSE Redrawn(instr, show_x')
  /\ pos' = pos - 1
  /\ typed' = <<SubSeq(typed[1], 1, Len(typed[1]) - 1), <<typed[1][Len(typed[1])]>> \o typed[2]>>
  /\ UNCHANGED <<instr, input_button, input_pc>>

Right ==
  /\ Editing
  /\ pos < len
  /\ input_x' = IF input_x < box_width - 1 THEN input_x + 1 ELSE input_x
  /\ show_x' = IF input_x < box_width - 1 THEN show_x ELSE show_x + 1
  /\ field' = IF input_x < box_width - 1 THEN field ELSE Redrawn(instr, show_x')
  /\ pos' = pos + 1
  /\ typed' = <<Append(typed[1], Head(typed[2])), Tail(typed[2])>>
  /\ UNCHANGED <<instr, input_button, input_pc>>

\* A character is inserted at the cursor, unless the text is full.
Type(c) ==
  /\ Editing
  /\ len < MAX_LEN
  /\ instr' = Inserted(instr, pos, c)
  /\ pos' = pos + 1
  /\ show_x' = IF input_x = box_width - 1 THEN show_x + 1 ELSE show_x
  /\ input_x' = IF input_x = box_width - 1 THEN input_x ELSE input_x + 1
  /\ field' = Redrawn(instr', show_x')
  /\ typed' = <<Append(typed[1], c), typed[2]>>
  /\ UNCHANGED <<input_button, input_pc>>

\* The keys Tab, Up and Down, and Left and Right on a button, go round from
\* the field to Ok and Help.
Turn(key) ==
  /\ input_pc = "key"
  /\ key \in {"left", "right"} => input_button # -1
  /\ input_button' = IF key \in {"up", "left"}
               THEN (IF input_button = -1 THEN 1 ELSE input_button - 1)
               ELSE (IF input_button = 1 THEN -1 ELSE input_button + 1)
  /\ UNCHANGED <<instr, pos, show_x, input_x, field, input_pc, typed>>

\* Enter presses the button, in the field it is Ok; Escape; o, h and x on a
\* button.  Space is a character in the field.
InputLeave(key) ==
  /\ input_pc = "key"
  /\ key \in {"o", "h", "x", "space"} => input_button # -1
  /\ input_pc' = CASE key \in {"enter", "space"} -> IF input_button = 1 THEN "help" ELSE "ok"
             [] key = "o" -> "ok"
             [] key = "h" -> "help"
             [] key \in {"x", "esc"} -> "esc"
  /\ UNCHANGED <<instr, pos, show_x, input_x, field, input_button, typed>>

InputResize == input_pc = "key" /\ input_pc' = "draw" /\ UNCHANGED <<instr, pos, show_x, input_x, field, input_button, typed>>

InputFinished == input_pc \in {"ok", "help", "esc", "small"} /\ UNCHANGED inputVars

InputNext ==
  \/ InputDraw \/ InputTooSmall \/ Backspace \/ Left \/ Right \/ InputResize \/ InputFinished
  \/ \E c \in Chars : Type(c)
  \/ \E key \in {"up", "down", "left", "right"} : Turn(key)
  \/ \E key \in {"enter", "esc", "o", "h", "x", "space"} : InputLeave(key)

InputSpec == InputInit /\ [][InputNext]_inputVars

-----------------------------------------------------------------------------
\* The cursor is in the field, at the place of the text it stands for, and the
\* text fits dialog_input_result.
CursorInField ==
  input_pc = "key" =>
    /\ input_x \in 0 .. box_width - 1
    /\ pos = show_x + input_x
    /\ pos <= len /\ len <= MAX_LEN

\* The field shows the text from show_x on and blanks behind it, although only
\* one blank is ever printed.
FieldShowsText ==
  input_pc = "key" => field = [i \in 0 .. box_width - 1 |-> IF show_x + i < len THEN instr[show_x + i + 1] ELSE Space]

\* The text is what the keys say: characters before and behind the cursor.
TextIsTyped == input_pc \notin {"draw", "small"} => instr = typed[1] \o typed[2] /\ pos = Len(typed[1])

-----------------------------------------------------------------------------
(***************************************************************************)
(* The text window of menuconfig                                           *)
(* (nemu/tools/kconfig/lxdialog/textbox.c).  The code keeps a pointer into *)
(* the text, page, that runs ahead of the page on the screen; to draw a    *)
(* page again it goes back as many lines as it printed.                    *)
(*                                                                         *)
(* A text is a sequence of "c" and "n" (newline); page is a position from  *)
(* 0 to its length, where the terminating NUL is.  Lines shorter than      *)
(* MAX_LEN are not cut and the horizontal position only moves the text.    *)
(***************************************************************************)

CONSTANTS
  Texts,      \* the texts
  BoxHeights,    \* the heights of the window, boxh
  Border,     \* how much higher the dialog is than boxh
  Updates     \* whether there is an update_text callback, a set of Booleans

VARIABLES
  buf, page, begin_reached, end_reached, page_length,
  boxh,
  update,     \* there is a callback
  top,        \* where the page on the screen starts
  last,       \* the key that drew it
  before      \* where the page started before the key

text == <<buf, update>>
textVars == <<buf, page, begin_reached, end_reached, page_length, boxh, update, top, last, before>>

At(b, p) == IF p = Len(b) THEN "nul" ELSE b[p + 1]

\* The pointer and the two flags while a key is handled.
Pos == [page |-> page, begin |-> begin_reached, end |-> end_reached, length |-> page_length, top |-> top]

\* get_line: to the start of the next line, or to the end.
get_line(b, r) ==
  LET stops == {p \in r.page .. Len(b) : At(b, p) # "c"}
      p == CHOOSE q \in stops : \A o \in stops : q <= o
      nul == At(b, p) = "nul"
  IN [r EXCEPT !.page = IF nul THEN p ELSE p + 1, !.end = nul]

RECURSIVE Lines(_, _, _), back(_, _, _)
Lines(b, r, n) == IF n = 0 THEN r ELSE Lines(b, get_line(b, r), n - 1)

\* The start of the line before p, or before the line p is in the middle of.
LineBefore(b, p) ==
  LET nls == {q \in 0 .. p - 2 : b[q + 1] = "n"}
  IN IF nls = {} THEN [page |-> 0, begin |-> TRUE]
     ELSE [page |-> 1 + CHOOSE q \in nls : \A o \in nls : o <= q, begin |-> FALSE]

\* The loop of back_lines.
back(b, r, n) ==
  IF n <= 0 THEN r
  ELSE IF At(b, r.page) = "nul" /\ r.end THEN back(b, [r EXCEPT !.end = FALSE], n - 1)
  ELSE IF r.page = 0 THEN [r EXCEPT !.begin = TRUE]
  ELSE LET l == LineBefore(b, r.page)
       IN IF l.begin THEN [r EXCEPT !.page = 0, !.begin = TRUE] ELSE back(b, [r EXCEPT !.page = l.page], n - 1)

back_lines(b, r, n) == back(b, [r EXCEPT !.begin = FALSE], n)

\* Faulty variant of PageLength: every row is counted.
PageLength_rows(b, r, n) == n

\* The lines print_page counts: up to the one that reaches the end.
RECURSIVE PageLength(_, _, _)
PageLength(b, r, n) ==
  LET r1 == get_line(b, r) IN IF n = 0 THEN 0 ELSE IF r1.end THEN 1 ELSE 1 + PageLength(b, r1, n - 1)

\* print_page: with a callback, the page is run through once before.
print_page(b, r, h, upd) ==
  LET r1 == IF upd THEN back_lines(b, Lines(b, r, h), h) ELSE r
      r2 == Lines(b, r1, h)
  IN [r2 EXCEPT !.top = r1.page, !.length = PageLength(b, r1, h)]

Start(b) == [page |-> 0, begin |-> TRUE, end |-> FALSE, length |-> 0, top |-> 0]

Becomes(r, key) ==
  /\ page' = r.page /\ begin_reached' = r.begin /\ end_reached' = r.end
  /\ page_length' = r.length /\ top' = r.top
  /\ last' = key /\ before' = top

TextInit ==
  \E b \in Texts, h \in BoxHeights, u \in Updates : \E r \in {print_page(b, Start(b), h, u)} :
    /\ buf = b /\ boxh = h /\ update = u
    /\ page = r.page /\ begin_reached = r.begin /\ end_reached = r.end
    /\ page_length = r.length /\ top = r.top
    /\ last = "none" /\ before = 0

Refresh(r) == print_page(buf, r, boxh, update)

Home ==
  /\ ~begin_reached
  /\ Becomes(Refresh([Pos EXCEPT !.begin = TRUE, !.page = 0]), "home")
  /\ UNCHANGED <<text, boxh>>

End ==
  /\ Becomes(Refresh(back_lines(buf, [Pos EXCEPT !.end = TRUE, !.page = Len(buf)], boxh)), "end")
  /\ UNCHANGED <<text, boxh>>

\* The keys that go back by as many lines as the page has and n more.
Back(key, n) ==
  /\ key \in {"up", "ppage"} => ~begin_reached
  /\ key = "down" => ~end_reached
  /\ Becomes(Refresh(back_lines(buf, Pos, page_length + n)), key)
  /\ UNCHANGED <<text, boxh>>

NextPage ==
  /\ ~end_reached
  /\ Becomes(Refresh([Pos EXCEPT !.begin = FALSE]), "npage")
  /\ UNCHANGED <<text, boxh>>

\* The dialog is drawn again in another size, from the height of the old one
\* further up.
TextResize ==
  /\ \E h \in BoxHeights :
       /\ boxh' = h
       /\ Becomes(print_page(buf, back_lines(buf, Pos, boxh + Border), h, update), "resize")
  /\ UNCHANGED text

\* The window is closed at a scroll position and opened there again, after a
\* jump to a search result.
Reopen ==
  /\ update
  /\ LET p == back_lines(buf, Pos, page_length).page
         v == Cardinality({q \in 0 .. p - 1 : buf[q + 1] = "n"})
         r == Lines(buf, [Start(buf) EXCEPT !.begin = v = 0], v)
     IN Becomes(Refresh(r), "reopen")
  /\ UNCHANGED <<text, boxh>>

TextNext ==
  \/ Home \/ End \/ NextPage \/ TextResize \/ Reopen
  \/ Back("up", 1)
  \/ Back("ppage", boxh)
  \/ Back("down", -1)
  \/ Back("scroll", 0)     \* left and right: the same page again

TextSpec == TextInit /\ [][TextNext]_textVars

-----------------------------------------------------------------------------
\* The number of the line that starts at p, and the number of lines; the end
\* of a text that ends with a newline counts as an empty line.
LineOf(b, p) == Cardinality({q \in 0 .. p - 1 : b[q + 1] = "n"})
LastLine(b) == LineOf(b, Len(b))

\* A page starts at the start of a line.  Up and Down move it by one line, Page
\* Up and Page Down by a page, as far as there are lines; Left and Right do not
\* move it.  With a callback the last page is a full one.
MovesBy ==
  LET from == LineOf(buf, before)
      to == LineOf(buf, top)
      max(a, b) == IF a > b THEN a ELSE b
  IN /\ top = 0 \/ buf[top] = "n"
     /\ last = "up" => to = max(from - 1, 0)
     /\ last = "ppage" => to = max(from - boxh, 0)
     /\ last = "down" => to = from + 1
     /\ last = "npage" => to = IF update /\ from + 2 * boxh > LastLine(buf) + 1
                               THEN LastLine(buf) + 1 - boxh ELSE from + boxh
     /\ last = "scroll" => to = from
     /\ last = "home" => to = 0
     /\ last = "reopen" => to = from

\* Up is refused only at the first line and Down only when the last line is on
\* the screen, so that every line can be brought to the screen.
EdgesKnown ==
  /\ begin_reached => top = 0
  /\ end_reached <=> LineOf(buf, top) + boxh > LastLine(buf)
=============================================================================
