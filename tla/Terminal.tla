------------------------------ MODULE Terminal ------------------------------
(***************************************************************************)
(* The terminal emulator of pexpect-dpty: the state machine of FSM.py, the *)
(* escape sequences that ANSI.py adds to it and the screen of screen.py.   *)
(* A program writes characters to it one at a time; a program may also     *)
(* call the methods of the screen that no escape sequence reaches.         *)
(*                                                                         *)
(* A method of the screen is an operator from a screen to a screen.  An    *)
(* exception leaves write() in the middle of a character: `error' names it *)
(* and nothing more is written.                                            *)
(***************************************************************************)
EXTENDS Integers, SequencesExt

CONSTANTS
  Rows, Cols,   \* dimensions of the screen
  Input,        \* characters written to it, see Symbol
  Text,         \* those printed outside an escape sequence
  MaxNumber,    \* largest number in an escape sequence
  MaxMemory,    \* bound on the numbers on the stack of the state machine
  MaxRows,      \* bound on the rows that scroll_down adds
  MaxWritten    \* bound on the characters written and the methods called

SPACE == " "
Digit == {"0", "1", "2", "3", "4", "5", "6", "7", "8", "9"}
Value == [d \in Digit |-> CASE d = "0" -> 0 [] d = "1" -> 1 [] d = "2" -> 2 [] d = "3" -> 3
                            [] d = "4" -> 4 [] d = "5" -> 5 [] d = "6" -> 6 [] d = "7" -> 7
                            [] d = "8" -> 8 [] d = "9" -> 9]

Letters == {"A", "B", "C", "D", "H", "J", "K", "M", "f", "h", "l", "m", "q", "r", "x"}
Marks   == {"(", ")", "<", ">", "=", "#", "[", "?", "SEMI"}    \* SEMI: semicolon
Control == {"ESC", "CR", "LF", "BS", "NUL"}       \* not printable
Printable == Digit \cup Letters \cup Marks
Symbol  == Printable \cup Control

ASSUME SizeAssumption  == Rows \in Nat \ {0} /\ Cols \in Nat \ {0}
ASSUME BoundAssumption == {MaxNumber, MaxMemory, MaxRows, MaxWritten} \subseteq Nat
ASSUME InputAssumption == Input \subseteq Symbol /\ Text \subseteq Printable

VARIABLES
  screen,         \* the screen object, see Blank
  memory,         \* FSM.memory above the screen: numbers read
  current_state,  \* FSM.current_state
  error,          \* the exception raised, or "none"
  base,           \* history: numbers on the stack when the escape sequence began
  written         \* characters written and methods called

vars == <<screen, memory, current_state, error, base, written>>
-----------------------------------------------------------------------------
(* screen.py.  Rows and columns are counted from 1.  w is a sequence of    *)
(* rows: there may come to be fewer or more than Rows of them, and to      *)
(* touch a row that is not there is an IndexError (`lost'), which puts an  *)
(* end to what the method does.                                            *)

constrain(n, min, max) == IF n < min THEN min ELSE IF n > max THEN max ELSE n
Row(r) == constrain(r, 1, Rows)
Col(c) == constrain(c, 1, Cols)

Blank == [w |-> [r \in 1 .. Rows |-> [c \in 1 .. Cols |-> SPACE]],
          cur_r |-> 1, cur_c |-> 1, cur_saved_r |-> 1, cur_saved_c |-> 1,
          scroll_row_start |-> 1, scroll_row_end |-> Rows, lost |-> FALSE]

\* fill_region: the corners are forced onto the screen, then put in order.
fill_region(s, rs, cs, re, ce, ch) ==
  LET top == Min({Row(rs), Row(re)})  bottom == Max({Row(rs), Row(re)})
      left == Min({Col(cs), Col(ce)}) right == Max({Col(cs), Col(ce)})
  IN  IF s.lost THEN s ELSE
      [s EXCEPT !.w = [r \in DOMAIN s.w |-> [c \in 1 .. Cols |->
                         IF r \in top .. bottom /\ c \in left .. right
                         THEN ch ELSE s.w[r][c]]],
                !.lost = @ \/ bottom > Len(s.w)]

put_abs(s, r, c, ch) == fill_region(s, r, c, r, c, ch)

insert(s, ch) ==
  IF s.cur_r > Len(s.w) THEN [s EXCEPT !.lost = TRUE]
  ELSE [s EXCEPT !.w[s.cur_r] = [c \in 1 .. Cols |->
          CASE c < s.cur_c -> s.w[s.cur_r][c]
            [] c = s.cur_c -> ch
            [] c > s.cur_c -> s.w[s.cur_r][c - 1]]]

\* Bug: the column is not constrained.
HomeAnyColumn(s, r, c) == [s EXCEPT !.cur_r = Row(r), !.cur_c = c]

cursor_home(s, r, c) == [s EXCEPT !.cur_r = Row(r), !.cur_c = Col(c)]
cursor_back(s, count)    == cursor_home(s, s.cur_r, s.cur_c - count)
cursor_down(s, count)    == cursor_home(s, s.cur_r + count, s.cur_c)
cursor_forward(s, count) == cursor_home(s, s.cur_r, s.cur_c + count)
cursor_up(s, count)      == cursor_home(s, s.cur_r - count, s.cur_c)
cr(s) == cursor_home(s, s.cur_r, 1)

cursor_save_attrs(s) == [s EXCEPT !.cur_saved_r = s.cur_r, !.cur_saved_c = s.cur_c]
cursor_restore_attrs(s) == cursor_home(s, s.cur_saved_r, s.cur_saved_c)

scroll_screen(s) == [s EXCEPT !.scroll_row_start = 1, !.scroll_row_end = Rows]

\* scroll_constrain looks at one end of each bound only.
scroll_screen_rows(s, rs, re) ==
  [s EXCEPT !.scroll_row_start = IF rs <= 0 THEN 1 ELSE rs,
            !.scroll_row_end   = IF re > Rows THEN Rows ELSE re]

\* The slices w[from:to] = w[from2:to2] of a list: a negative index counts from
\* the end, every index is forced into the list.
Replace(w, from, to, from2, to2) ==
  LET at(i) == IF i < 0 THEN Max({0, Len(w) + i}) ELSE Min({i, Len(w)})
      end   == Max({at(from), at(to)})
  IN  SubSeq(w, 1, at(from)) \o SubSeq(w, at(from2) + 1, at(to2)) \o SubSeq(w, end + 1, Len(w))

scroll_down(s) ==
  LET b == s.scroll_row_start - 1  e == s.scroll_row_end - 1
  IN  [s EXCEPT !.w = Replace(@, b + 1, e + 1, b, e)]

\* Bug: the slice that is assigned to is one row longer.
ScrollUpLongSlice(s) ==
  LET b == s.scroll_row_start - 1  e == s.scroll_row_end - 1
  IN  [s EXCEPT !.w = Replace(@, b, e + 1, b + 1, e + 1)]

\* Bug: the whole screen scrolls.
ScrollUpWholeScreen(s) == [s EXCEPT !.w = Replace(@, 0, Rows - 1, 1, Rows)]

scroll_up(s) ==
  LET b == s.scroll_row_start - 1  e == s.scroll_row_end - 1
  IN  [s EXCEPT !.w = Replace(@, b, e, b + 1, e + 1)]

erase_end_of_line(s)   == fill_region(s, s.cur_r, s.cur_c, s.cur_r, Cols, SPACE)
erase_start_of_line(s) == fill_region(s, s.cur_r, 1, s.cur_r, s.cur_c, SPACE)
erase_line(s)          == fill_region(s, s.cur_r, 1, s.cur_r, Cols, SPACE)

erase_down(s) ==
  fill_region(erase_end_of_line(s), s.cur_r + 1, 1, Rows, Cols, SPACE)

\* Bug: the rows above are counted from the row of the cursor.
EraseUpThisRow(s) == fill_region(erase_start_of_line(s), s.cur_r, 1, 1, Cols, SPACE)

erase_up(s) == fill_region(erase_start_of_line(s), s.cur_r - 1, 1, 1, Cols, SPACE)

erase_screen(s) == fill_region(s, 1, 1, Rows, Cols, SPACE)

\* Down one row; at the bottom the screen scrolls and the row is emptied.
lf(s) == LET d == cursor_down(s, 1)
         IN  IF d.cur_r = s.cur_r THEN erase_line(scroll_up(d)) ELSE d

crlf(s) == lf(cr(s))

cursor_up_reverse(s) == LET u == cursor_up(s, 1)
                        IN  IF u.cur_r = s.cur_r THEN scroll_up(u) ELSE u

\* ANSI.write_ch: the cursor moves on, at the end of a row to the next one.
write_ch(s, ch) ==
  LET back == cursor_back(s, 1)
      put  == put_abs(s, s.cur_r, s.cur_c, ch)
      next == cursor_forward(put, 1)
      down == cursor_down(next, 1)
  IN  CASE ch = "LF" -> crlf(s)
        [] ch = "BS" -> put_abs(back, back.cur_r, back.cur_c, SPACE)
        [] ch \in Control \ {"LF", "BS"} -> s
        [] ch \in Printable ->
             IF put.lost THEN put
             ELSE IF next.cur_c # s.cur_c THEN next
             ELSE IF down.cur_r # s.cur_r THEN cr(down)
             ELSE erase_line(cr(scroll_up(down)))
-----------------------------------------------------------------------------
(* FSM.py and the table of ANSI.__init__: in a state, on one of a set of   *)
(* symbols, an action and the next state.                                  *)

Transitions == {
  <<"INIT", {"ESC"}, "None", "ESC">>,
  <<"ESC", {"("}, "None", "G0SCS">>,
  <<"ESC", {")"}, "None", "G1SCS">>,
  <<"G0SCS", {"A", "B", "0", "1", "2"}, "None", "INIT">>,
  <<"G1SCS", {"A", "B", "0", "1", "2"}, "None", "INIT">>,
  <<"ESC", {"7"}, "DoCursorSave", "INIT">>,
  <<"ESC", {"8"}, "DoCursorRestore", "INIT">>,
  <<"ESC", {"M", ">", "<"}, "DoUpReverse", "INIT">>,
  <<"ESC", {"="}, "None", "INIT">>,
  <<"ESC", {"#"}, "None", "GRAPHICS_POUND">>,
  <<"ESC", {"["}, "None", "ELB">>,
  <<"ELB", {"H"}, "DoHomeOrigin", "INIT">>,
  <<"ELB", {"D"}, "DoBackOne", "INIT">>,
  <<"ELB", {"B"}, "DoDownOne", "INIT">>,
  <<"ELB", {"C"}, "DoForwardOne", "INIT">>,
  <<"ELB", {"A"}, "DoUpOne", "INIT">>,
  <<"ELB", {"J"}, "DoEraseDown", "INIT">>,
  <<"ELB", {"K"}, "DoEraseEndOfLine", "INIT">>,
  <<"ELB", {"r"}, "DoEnableScroll", "INIT">>,
  <<"ELB", {"m"}, "None", "INIT">>,
  <<"ELB", {"?"}, "None", "MODECRAP">>,
  <<"ELB", Digit, "StartNumber", "NUMBER_1">>,
  <<"NUMBER_1", Digit, "BuildNumber", "NUMBER_1">>,
  <<"NUMBER_1", {"D"}, "DoBack", "INIT">>,
  <<"NUMBER_1", {"B"}, "DoDown", "INIT">>,
  <<"NUMBER_1", {"C"}, "DoForward", "INIT">>,
  <<"NUMBER_1", {"A"}, "DoUp", "INIT">>,
  <<"NUMBER_1", {"J"}, "DoErase", "INIT">>,
  <<"NUMBER_1", {"K"}, "DoEraseLine", "INIT">>,
  <<"NUMBER_1", {"l"}, "DoMode", "INIT">>,
  <<"NUMBER_1", {"m", "q"}, "None", "INIT">>,
  <<"NUMBER_1", {"SEMI"}, "None", "SEMICOLON">>,
  <<"MODECRAP", Digit, "StartNumber", "MODECRAP_NUM">>,
  <<"MODECRAP_NUM", Digit, "BuildNumber", "MODECRAP_NUM">>,
  <<"MODECRAP_NUM", {"l", "h"}, "None", "INIT">>,
  <<"SEMICOLON", Digit, "StartNumber", "NUMBER_2">>,
  <<"NUMBER_2", Digit, "BuildNumber", "NUMBER_2">>,
  <<"NUMBER_2", {"H", "f"}, "DoHome", "INIT">>,
  <<"NUMBER_2", {"r"}, "DoScrollRegion", "INIT">>,
  <<"NUMBER_2", {"m", "q"}, "None", "INIT">>}

AnyTransitions == {
  <<"INIT", "Emit", "INIT">>, <<"ESC", "Log", "INIT">>, <<"GRAPHICS_POUND", "None", "INIT">>,
  <<"SEMICOLON", "Log", "INIT">>, <<"NUMBER_2", "Log", "INIT">>}

State == {t[1] : t \in Transitions} \cup {t[1] : t \in AnyTransitions}

\* The exact transition, else the one for any symbol, else the default one.
get_transition == [state \in State |-> [symbol \in Symbol |->
  LET exact == {t \in Transitions : t[1] = state /\ symbol \in t[2]}
      any   == {t \in AnyTransitions : t[1] = state}
  IN  IF exact # {} THEN LET t == CHOOSE t \in exact : TRUE IN [action |-> t[3], next |-> t[4]]
      ELSE IF any # {} THEN LET t == CHOOSE t \in any : TRUE IN [action |-> t[2], next |-> t[3]]
      ELSE [action |-> "Log", next |-> "INIT"]]]
-----------------------------------------------------------------------------
(* The actions.  Some pop numbers: a is the last one, b the one before.    *)

\* Bug: DoErase looks at its number and leaves it.
PopsNotErase(action) ==
  CASE action \in {"BuildNumber", "DoBack", "DoDown", "DoForward", "DoUp", "DoMode"} -> 1
    [] action \in {"DoHome", "DoScrollRegion"} -> 2
    [] OTHER -> 0

Pops(action) ==
  CASE action \in {"BuildNumber", "DoBack", "DoDown", "DoForward", "DoUp", "DoErase", "DoMode"} -> 1
    [] action \in {"DoHome", "DoScrollRegion"} -> 2
    [] OTHER -> 0

Erase(s, a) == CASE a = 0 -> erase_down(s) [] a = 1 -> erase_up(s)
                 [] a = 2 -> erase_screen(s) [] OTHER -> s

Drawn(action, s, symbol, a, b) ==
  CASE action = "Emit"             -> write_ch(s, symbol)
    [] action = "DoBackOne"        -> cursor_back(s, 1)
    [] action = "DoBack"           -> cursor_back(s, a)
    [] action = "DoDownOne"        -> cursor_down(s, 1)
    [] action = "DoDown"           -> cursor_down(s, a)
    [] action = "DoForwardOne"     -> cursor_forward(s, 1)
    [] action = "DoForward"        -> cursor_forward(s, a)
    [] action = "DoUpOne"          -> cursor_up(s, 1)
    [] action = "DoUp"             -> cursor_up(s, a)
    [] action = "DoUpReverse"      -> cursor_up_reverse(s)
    [] action = "DoHomeOrigin"     -> cursor_home(s, 1, 1)
    [] action = "DoHome"           -> cursor_home(s, b, a)
    [] action = "DoEraseDown"      -> erase_down(s)
    [] action = "DoErase"          -> Erase(s, a)
    [] action = "DoEraseEndOfLine" -> erase_end_of_line(s)
    [] action = "DoEnableScroll"   -> scroll_screen(s)
    [] action = "DoScrollRegion"   -> scroll_screen_rows(s, b, a)
    [] action = "DoCursorSave"     -> cursor_save_attrs(s)
    [] action = "DoCursorRestore"  -> cursor_restore_attrs(s)
    [] OTHER                       -> s

\* Bug: BuildNumber does not push the longer number.
RememberedNotBuilt(action, stack, symbol, a) ==
  LET rest == SubSeq(stack, 1, Len(stack) - Pops(action))
  IN  CASE action = "StartNumber" -> Append(stack, Value[symbol])
        [] action = "Log"         -> <<>>
        [] OTHER                  -> rest

Remembered(action, stack, symbol, a) ==
  LET rest == SubSeq(stack, 1, Len(stack) - Pops(action))
  IN  CASE action = "StartNumber" -> Append(stack, Value[symbol])
        [] action = "BuildNumber" -> Append(rest, 10 * a + Value[symbol])
        [] action = "Log"         -> <<>>
        [] OTHER                  -> rest

\* process: the action, then the next state; an exception leaves the state.  To
\* pop the screen object is one, as there are no numbers above it; DoEraseLine
\* refers to a name that does not exist.
process(symbol) ==
  LET t == get_transition[current_state][symbol]
      n == Len(memory)
      a == IF n >= 1 THEN memory[n] ELSE 0
      b == IF n >= 2 THEN memory[n - 1] ELSE 0
      drawn == Drawn(t.action, screen, symbol, a, b)
      raised == CASE t.action = "DoEraseLine" -> "NameError"
                  [] t.action # "DoEraseLine" /\ n < Pops(t.action) -> "AttributeError"
                  [] t.action # "DoEraseLine" /\ n >= Pops(t.action) ->
                       IF drawn.lost THEN "IndexError" ELSE "none"
  IN  /\ t.action = "StartNumber" => n < MaxMemory /\ Value[symbol] <= MaxNumber
      /\ t.action = "BuildNumber" => 10 * a + Value[symbol] <= MaxNumber
      /\ error' = raised
      /\ screen' = IF raised \in {"none", "IndexError"} THEN drawn ELSE screen
      /\ memory' = IF raised = "none" THEN Remembered(t.action, memory, symbol, a) ELSE memory
      /\ current_state' = IF raised = "none" THEN t.next ELSE current_state
      /\ base' = IF current_state = "INIT" THEN Len(memory) ELSE base

Step == /\ error = "none"
        /\ written < MaxWritten
        /\ written' = written + 1

Write == /\ Step
         /\ \E symbol \in (Input \cup Text) :
              /\ current_state = "INIT" => symbol \in Text \cup Control
              /\ process(symbol)

\* Methods of the screen that a program calls by itself.
Method ==
  /\ Step
  /\ \E s \in {scroll_down(screen), insert(screen, "x"), erase_start_of_line(screen)} :
       /\ Len(s.w) <= MaxRows
       /\ screen' = s
       /\ error' = IF s.lost THEN "IndexError" ELSE "none"
  /\ UNCHANGED <<memory, current_state, base>>

Init == /\ screen = Blank
        /\ memory = <<>>
        /\ current_state = "INIT"
        /\ error = "none"
        /\ base = 0
        /\ written = 0

Next == Write \/ Method

Spec == Init /\ [][Next]_vars
=============================================================================
