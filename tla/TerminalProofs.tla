---------------------------- MODULE TerminalProofs ----------------------------
(* Proofs about the terminal emulator, see TerminalProperties.             *)
EXTENDS TerminalProperties, TLAPS, SequenceTheorems

StateNames == {"INIT", "ESC", "G0SCS", "G1SCS", "GRAPHICS_POUND", "ELB", "MODECRAP",
               "MODECRAP_NUM", "NUMBER_1", "SEMICOLON", "NUMBER_2"}

\* The numbers that are on the stack in a state of the machine, at least.
Depth(state) == CASE state \in {"NUMBER_1", "SEMICOLON", "MODECRAP_NUM"} -> 1
                  [] state = "NUMBER_2" -> 2
                  [] OTHER -> 0

\* An action in one state leaves on the stack what the next state needs.
Fits(state, action, next) ==
  /\ Pops(action) <= Depth(state)
  /\ action = "Emit" => state = "INIT"
  /\ action = "Log" => Depth(next) = 0
  /\ action = "StartNumber" => Depth(next) <= Depth(state) + 1
  /\ action = "BuildNumber" => Depth(next) <= Depth(state)
  /\ action \notin {"Log", "StartNumber", "BuildNumber"} =>
       Depth(next) <= Depth(state) - Pops(action)

\* Every state that the table leads to is one it starts from.
LEMMA NamesAreStates == StateNames \subseteq State
<1>1. \A t \in Transitions : t[1] \in State
  BY DEF State
<1>2. \A t \in AnyTransitions : t[1] \in State
  BY DEF State
<1>3. "INIT" \in State
  <2>1. <<"INIT", {"ESC"}, "None", "ESC">> \in Transitions
    BY DEF Transitions
  <2> QED BY <2>1, <1>1
<1>4. "ESC" \in State
  <2>1. <<"ESC", {"("}, "None", "G0SCS">> \in Transitions
    BY DEF Transitions
  <2> QED BY <2>1, <1>1
<1>5. "G0SCS" \in State
  <2>1. <<"G0SCS", {"A", "B", "0", "1", "2"}, "None", "INIT">> \in Transitions
    BY DEF Transitions
  <2> QED BY <2>1, <1>1
<1>6. "G1SCS" \in State
  <2>1. <<"G1SCS", {"A", "B", "0", "1", "2"}, "None", "INIT">> \in Transitions
    BY DEF Transitions
  <2> QED BY <2>1, <1>1
<1>7. "GRAPHICS_POUND" \in State
  <2>1. <<"GRAPHICS_POUND", "None", "INIT">> \in AnyTransitions
    BY DEF AnyTransitions
  <2> QED BY <2>1, <1>2
<1>8. "ELB" \in State
  <2>1. <<"ELB", {"H"}, "DoHomeOrigin", "INIT">> \in Transitions
    BY DEF Transitions
  <2> QED BY <2>1, <1>1
<1>9. "MODECRAP" \in State
  <2>1. <<"MODECRAP", Digit, "StartNumber", "MODECRAP_NUM">> \in Transitions
    BY DEF Transitions
  <2> QED BY <2>1, <1>1
<1>10. "MODECRAP_NUM" \in State
  <2>1. <<"MODECRAP_NUM", {"l", "h"}, "None", "INIT">> \in Transitions
    BY DEF Transitions
  <2> QED BY <2>1, <1>1
<1>11. "NUMBER_1" \in State
  <2>1. <<"NUMBER_1", {"D"}, "DoBack", "INIT">> \in Transitions
    BY DEF Transitions
  <2> QED BY <2>1, <1>1
<1>12. "SEMICOLON" \in State /\ "NUMBER_2" \in State
  <2>1. <<"SEMICOLON", "Log", "INIT">> \in AnyTransitions
    BY DEF AnyTransitions
  <2>2. <<"NUMBER_2", "Log", "INIT">> \in AnyTransitions
    BY DEF AnyTransitions
  <2> QED BY <2>1, <2>2, <1>2
<1> QED BY <1>3, <1>4, <1>5, <1>6, <1>7, <1>8, <1>9, <1>10, <1>11, <1>12 DEF StateNames

\* The rows of the table, one by one.
LEMMA RowsFit ==
  ASSUME NEW t \in Transitions
  PROVE  /\ t[4] \in StateNames
         /\ Fits(t[1], t[3], t[4])
         /\ t[3] \in {"StartNumber", "BuildNumber"} => t[2] = Digit
<1>1. t[4] \in StateNames
  BY DEF Transitions, StateNames
<1>2. t[3] \in {"StartNumber", "BuildNumber"} => t[2] = Digit
  BY DEF Transitions
<1>3. Fits(t[1], t[3], t[4])
  BY DEF Transitions, Fits, Depth, Pops
<1> QED BY <1>1, <1>2, <1>3

\* The rows that hold for any symbol, one by one.
LEMMA AnyRowsFit ==
  ASSUME NEW t \in AnyTransitions
  PROVE  /\ t[3] \in StateNames
         /\ Fits(t[1], t[2], t[3])
         /\ t[2] \notin {"StartNumber", "BuildNumber"}
BY DEF AnyTransitions, StateNames, Fits, Depth, Pops

\* What get_transition returns, whichever of the three ways it is found: FSM.py
\* looks for the symbol, then for the state, then takes the default.
LEMMA TransitionFound ==
  ASSUME NEW symbol \in Symbol, NEW state \in StateNames
  PROVE  LET g == get_transition[state][symbol]
         IN  \/ \E t \in Transitions : /\ t[1] = state /\ symbol \in t[2]
                                       /\ g.action = t[3] /\ g.next = t[4]
             \/ \E t \in AnyTransitions : t[1] = state /\ g.action = t[2] /\ g.next = t[3]
             \/ g.action = "Log" /\ g.next = "INIT"
<1> DEFINE exact == {t \in Transitions : t[1] = state /\ symbol \in t[2]}
           any   == {t \in AnyTransitions : t[1] = state}
           x     == CHOOSE t \in exact : TRUE
           y     == CHOOSE t \in any : TRUE
<1>1. PICK g : /\ g = get_transition[state][symbol]
              /\ g = IF exact # {} THEN [action |-> x[3], next |-> x[4]]
                     ELSE IF any # {} THEN [action |-> y[2], next |-> y[3]]
                     ELSE [action |-> "Log", next |-> "INIT"]
  BY NamesAreStates DEF get_transition
<1> SUFFICES \/ \E t \in Transitions : /\ t[1] = state /\ symbol \in t[2]
                                       /\ g.action = t[3] /\ g.next = t[4]
             \/ \E t \in AnyTransitions : t[1] = state /\ g.action = t[2] /\ g.next = t[3]
             \/ g.action = "Log" /\ g.next = "INIT"
  BY <1>1, Zenon
<1>2. CASE exact # {}
  <2>1. x \in Transitions /\ x[1] = state /\ symbol \in x[2]
    BY <1>2
  <2>2. g = [action |-> x[3], next |-> x[4]]
    BY <1>1, <1>2
  <2> HIDE DEF x, exact
  <2>3. g.action = x[3] /\ g.next = x[4]
    BY <2>2
  <2> QED BY <2>1, <2>3
<1>3. CASE exact = {} /\ any # {}
  <2>1. y \in AnyTransitions /\ y[1] = state
    BY <1>3
  <2>2. g = [action |-> y[2], next |-> y[3]]
    BY <1>1, <1>3
  <2> HIDE DEF y, any
  <2>3. g.action = y[2] /\ g.next = y[3]
    BY <2>2
  <2> QED BY <2>1, <2>3
<1>4. CASE exact = {} /\ any = {}
  <2>1. g = [action |-> "Log", next |-> "INIT"]
    BY <1>1, <1>4
  <2> QED BY <1>1, <2>1
<1> QED BY <1>2, <1>3, <1>4

\* An action finds the numbers it pops on the stack of its state.
LEMMA TransitionFits ==
  ASSUME NEW symbol \in Symbol, NEW state \in StateNames
  PROVE  LET t == get_transition[state][symbol]
         IN  /\ t.next \in StateNames
             /\ Fits(state, t.action, t.next)
             /\ t.action \in {"StartNumber", "BuildNumber"} => symbol \in Digit
<1>1. "INIT" \in StateNames /\ Fits(state, "Log", "INIT")
  BY DEF StateNames, Fits, Depth, Pops
<1> QED BY <1>1, TransitionFound, RowsFit, AnyRowsFit
-----------------------------------------------------------------------------
(* The screen.  A screen is good if it has its type and a row that is not  *)
(* there was touched only when rows are missing.                           *)

Good(s) == s \in Screen /\ (s.lost => Len(s.w) < Rows)

Char == Text \cup {SPACE, "x"}

\* The smaller and the larger of two numbers.
LEMMA MinMaxOfTwo ==
  ASSUME NEW a \in Int, NEW b \in Int
  PROVE  /\ Min({a, b}) \in {a, b} /\ Min({a, b}) <= a /\ Min({a, b}) <= b
         /\ Max({a, b}) \in {a, b} /\ Max({a, b}) >= a /\ Max({a, b}) >= b
<1>1. \E m \in {a, b} : \A y \in {a, b} : m <= y
  OBVIOUS
<1>2. \E m \in {a, b} : \A y \in {a, b} : m >= y
  OBVIOUS
<1>3. Min({a, b}) \in {a, b} /\ \A y \in {a, b} : Min({a, b}) <= y
  BY <1>1 DEF Min
<1>4. Max({a, b}) \in {a, b} /\ \A y \in {a, b} : Max({a, b}) >= y
  BY <1>2 DEF Max
<1> QED BY <1>3, <1>4

\* constrain() does what its name says, for a screen that has a row and a column.
LEMMA OnScreen ==
  ASSUME NEW n \in Int
  PROVE  Row(n) \in 1 .. Rows /\ Col(n) \in 1 .. Cols
BY SizeAssumption DEF Row, Col, constrain

\* fill_region and all methods made of it.
LEMMA FillIsGood ==
  ASSUME NEW s, Good(s), NEW rs \in Int, NEW cs \in Int, NEW re \in Int, NEW ce \in Int,
         NEW ch \in Char
  PROVE  Good(fill_region(s, rs, cs, re, ce, ch))
<1> DEFINE top == Min({Row(rs), Row(re)})
           bottom == Max({Row(rs), Row(re)})
           left == Min({Col(cs), Col(ce)})
           right == Max({Col(cs), Col(ce)})
           w == [r \in DOMAIN s.w |-> [c \in 1 .. Cols |->
                   IF r \in top .. bottom /\ c \in left .. right THEN ch ELSE s.w[r][c]]]
<1>1. bottom \in 1 .. Rows
  <2>1. Row(rs) \in 1 .. Rows /\ Row(re) \in 1 .. Rows
    BY OnScreen
  <2>2. Row(rs) \in Int /\ Row(re) \in Int
    BY <2>1
  <2>3. bottom \in {Row(rs), Row(re)}
    BY <2>2, MinMaxOfTwo, Zenon
  <2> QED BY <2>1, <2>3
<1>2. s.w \in Seq(RowOf) /\ Len(s.w) \in Nat /\ DOMAIN s.w = 1 .. Len(s.w)
  BY DEF Good, Screen
<1>3. \A r \in 1 .. Len(s.w) : s.w[r] \in RowOf
  BY <1>2
<1> HIDE DEF top, bottom, left, right
<1>4. w \in Seq(RowOf) /\ Len(w) = Len(s.w)
  <2>1. \A r \in 1 .. Len(s.w) : w[r] \in RowOf
    BY <1>2, <1>3 DEF RowOf, Char
  <2>2. w = [r \in 1 .. Len(s.w) |-> w[r]]
    BY <1>2
  <2> HIDE DEF w
  <2> QED BY <1>2, <2>1, <2>2
<1> HIDE DEF w
<1>5. CASE s.lost
  BY <1>5 DEF fill_region
<1>6. CASE ~s.lost
  <2>1. fill_region(s, rs, cs, re, ce, ch)
          = [s EXCEPT !.w = w, !.lost = s.lost \/ bottom > Len(s.w)]
    BY <1>6, Zenon DEF fill_region, top, bottom, left, right, w
  <2>2. s.lost \in BOOLEAN /\ (s.lost \/ bottom > Len(s.w)) \in BOOLEAN
    BY DEF Good, Screen
  <2> DEFINE b == s.lost \/ bottom > Len(s.w)
  <2>3. b => Len(w) < Rows
    BY <1>1, <1>2, <1>4, <1>6, SizeAssumption
  <2> HIDE DEF b
  <2>4. [s EXCEPT !.w = w, !.lost = b] \in Screen
    BY <1>4, <2>2 DEF Good, Screen, b
  <2> QED BY <2>1, <2>3, <2>4 DEF Good, b, Screen
<1> QED BY <1>5, <1>6

\* cursor_home, of which the other cursor methods are made.
LEMMA HomeIsGood ==
  ASSUME NEW s, Good(s), NEW r \in Int, NEW c \in Int
  PROVE  Good(cursor_home(s, r, c)) /\ cursor_home(s, r, c).lost = s.lost
BY OnScreen DEF cursor_home, Good, Screen

\* An assignment to a slice leaves a list of rows.
LEMMA ReplaceIsSeq ==
  ASSUME NEW S, NEW w \in Seq(S), NEW from \in Int, NEW to \in Int,
         NEW from2 \in Int, NEW to2 \in Int
  PROVE  Replace(w, from, to, from2, to2) \in Seq(S)
<1> DEFINE at(i) == IF i < 0 THEN Max({0, Len(w) + i}) ELSE Min({i, Len(w)})
           end == Max({at(from), at(to)})
           one == SubSeq(w, 1, at(from))
           two == SubSeq(w, at(from2) + 1, at(to2))
           three == SubSeq(w, end + 1, Len(w))
<1>1. Len(w) \in Nat /\ \A i \in 1 .. Len(w) : w[i] \in S
  OBVIOUS
<1>2. ASSUME NEW i \in Int
      PROVE  at(i) \in 0 .. Len(w)
  <2>1. CASE i < 0
    <3> DEFINE m == Max({0, Len(w) + i})
    <3>1. 0 \in Int /\ Len(w) + i \in Int
      BY <1>1
    <3>2. m \in {0, Len(w) + i} /\ m >= 0
      BY <3>1, MinMaxOfTwo, Zenon
    <3>3. at(i) = m
      BY <2>1
    <3> HIDE DEF m
    <3> QED BY <3>2, <3>3, <2>1, <1>1
  <2>2. CASE ~(i < 0)
    <3> DEFINE m == Min({i, Len(w)})
    <3>1. i \in Int /\ Len(w) \in Int
      BY <1>1
    <3>2. m \in {i, Len(w)} /\ m <= Len(w)
      BY <3>1, MinMaxOfTwo, Zenon
    <3>3. at(i) = m
      BY <2>2
    <3> HIDE DEF m
    <3> QED BY <3>2, <3>3, <2>2, <1>1
  <2> QED BY <2>1, <2>2
<1>3. /\ at(from) \in 0 .. Len(w) /\ at(to) \in 0 .. Len(w)
      /\ at(from2) \in 0 .. Len(w) /\ at(to2) \in 0 .. Len(w)
  BY <1>2
<1>4. Replace(w, from, to, from2, to2) = one \o two \o three
  BY DEF Replace
<1> HIDE DEF at
<1>5. end \in 0 .. Len(w)
  <2>1. at(from) \in Int /\ at(to) \in Int
    BY <1>1, <1>3
  <2>2. end \in {at(from), at(to)}
    BY <2>1, MinMaxOfTwo, Zenon
  <2> QED BY <2>2, <1>3
<1> HIDE DEF end
<1>6. one \in Seq(S)
  BY <1>1, <1>3, SubSeqProperties
<1>7. two \in Seq(S)
  BY <1>1, <1>3, SubSeqProperties
<1>8. three \in Seq(S)
  BY <1>1, <1>5, SubSeqProperties
<1> HIDE DEF one, two, three
<1> QED BY <1>4, <1>6, <1>7, <1>8, ConcatProperties

\* Scrolling, in either direction, on a screen that has lost nothing.
LEMMA ScrollIsGood ==
  ASSUME NEW s, Good(s), ~s.lost
  PROVE  /\ Good(scroll_up(s)) /\ ~scroll_up(s).lost
         /\ Good(scroll_down(s)) /\ ~scroll_down(s).lost
<1> DEFINE b == s.scroll_row_start - 1
           e == s.scroll_row_end - 1
<1>1. s.w \in Seq(RowOf) /\ b \in Int /\ e \in Int
  BY SizeAssumption DEF Good, Screen
<1>2. Replace(s.w, b, e, b + 1, e + 1) \in Seq(RowOf)
  BY <1>1, ReplaceIsSeq
<1>3. Replace(s.w, b + 1, e + 1, b, e) \in Seq(RowOf)
  BY <1>1, ReplaceIsSeq
<1>4. scroll_up(s) = [s EXCEPT !.w = Replace(s.w, b, e, b + 1, e + 1)]
  BY DEF scroll_up
<1>5. scroll_down(s) = [s EXCEPT !.w = Replace(s.w, b + 1, e + 1, b, e)]
  BY DEF scroll_down
<1> QED BY <1>2, <1>3, <1>4, <1>5 DEF Good, Screen

\* The methods that set the scroll region.
LEMMA RegionIsGood ==
  ASSUME NEW s, Good(s), NEW rs \in Nat, NEW re \in Nat
  PROVE  Good(scroll_screen(s)) /\ Good(scroll_screen_rows(s, rs, re))
<1>1. ASSUME NEW x \in Nat \ {0}, NEW y \in 0 .. Rows
      PROVE  Good([s EXCEPT !.scroll_row_start = x, !.scroll_row_end = y])
  BY DEF Good, Screen
<1>2. 1 \in Nat \ {0} /\ Rows \in 0 .. Rows
  BY SizeAssumption
<1>3. Good(scroll_screen(s))
  BY <1>1, <1>2 DEF scroll_screen
<1> DEFINE x == IF rs <= 0 THEN 1 ELSE rs
           y == IF re > Rows THEN Rows ELSE re
<1>4. x \in Nat \ {0} /\ y \in 0 .. Rows
  BY SizeAssumption
<1>5. scroll_screen_rows(s, rs, re) = [s EXCEPT !.scroll_row_start = x, !.scroll_row_end = y]
  BY DEF scroll_screen_rows
<1> HIDE DEF x, y
<1>6. Good(scroll_screen_rows(s, rs, re))
  BY <1>1, <1>4, <1>5
<1> QED BY <1>3, <1>6

\* What the methods need of a good screen.
LEMMA Fields ==
  ASSUME NEW s, Good(s)
  PROVE  /\ {s.cur_r, s.cur_c, s.cur_saved_r, s.cur_saved_c, Rows, Cols} \subseteq Int
         /\ {s.cur_r + 1, s.cur_r - 1} \subseteq Int
         /\ s.lost \in BOOLEAN
         /\ SPACE \in Char /\ "x" \in Char
BY SizeAssumption DEF Good, Screen, Char

\* The cursor methods.
LEMMA CursorIsGood ==
  ASSUME NEW s, Good(s), NEW n \in Int
  PROVE  /\ Good(cursor_back(s, n)) /\ cursor_back(s, n).lost = s.lost
         /\ Good(cursor_down(s, n)) /\ cursor_down(s, n).lost = s.lost
         /\ Good(cursor_forward(s, n)) /\ cursor_forward(s, n).lost = s.lost
         /\ Good(cursor_up(s, n)) /\ cursor_up(s, n).lost = s.lost
         /\ Good(cr(s)) /\ cr(s).lost = s.lost
         /\ Good(cursor_restore_attrs(s)) /\ Good(cursor_save_attrs(s))
<1>1. /\ s.cur_r \in Int /\ s.cur_c \in Int
      /\ s.cur_c - n \in Int /\ s.cur_c + n \in Int
      /\ s.cur_r - n \in Int /\ s.cur_r + n \in Int
      /\ s.cur_saved_r \in Int /\ s.cur_saved_c \in Int /\ 1 \in Int
  BY SizeAssumption DEF Good, Screen
<1>2. Good(cursor_save_attrs(s))
  BY DEF cursor_save_attrs, Good, Screen
<1> QED BY <1>1, <1>2, HomeIsGood
        DEF cursor_back, cursor_down, cursor_forward, cursor_up, cr, cursor_restore_attrs

\* The erase methods.
LEMMA EraseIsGood ==
  ASSUME NEW s, Good(s)
  PROVE  /\ Good(erase_end_of_line(s)) /\ Good(erase_start_of_line(s)) /\ Good(erase_line(s))
         /\ Good(erase_down(s)) /\ Good(erase_up(s)) /\ Good(erase_screen(s))
<1>1. /\ s.cur_r \in Int /\ s.cur_c \in Int /\ 1 \in Int /\ Rows \in Int /\ Cols \in Int
      /\ s.cur_r + 1 \in Int /\ s.cur_r - 1 \in Int /\ SPACE \in Char
  BY Fields
<1>2. Good(erase_end_of_line(s)) /\ Good(erase_start_of_line(s)) /\ Good(erase_line(s))
      /\ Good(erase_screen(s))
  BY <1>1, FillIsGood DEF erase_end_of_line, erase_start_of_line, erase_line, erase_screen
<1>3. Good(erase_down(s)) /\ Good(erase_up(s))
  BY <1>1, <1>2, FillIsGood DEF erase_down, erase_up
<1> QED BY <1>2, <1>3

\* The methods that scroll at the edge of the screen.
LEMMA LfIsGood ==
  ASSUME NEW s, Good(s), ~s.lost
  PROVE  Good(lf(s)) /\ Good(crlf(s)) /\ Good(cursor_up_reverse(s))
<1>1. ASSUME NEW t, Good(t), ~t.lost
      PROVE  Good(lf(t))
  BY <1>1, CursorIsGood, ScrollIsGood, EraseIsGood DEF lf
<1>2. Good(crlf(s))
  BY <1>1, CursorIsGood DEF crlf
<1>3. Good(cursor_up_reverse(s))
  BY CursorIsGood, ScrollIsGood DEF cursor_up_reverse
<1> QED BY <1>1, <1>2, <1>3

\* insert(), whether or not the row is there.
LEMMA InsertIsGood ==
  ASSUME NEW s, Good(s)
  PROVE  Good(insert(s, "x"))
<1> DEFINE row == [c \in 1 .. Cols |-> CASE c < s.cur_c -> s.w[s.cur_r][c]
                                          [] c = s.cur_c -> "x"
                                          [] c > s.cur_c -> s.w[s.cur_r][c - 1]]
<1>1. /\ s.w \in Seq(RowOf) /\ Len(s.w) \in Nat
      /\ s.cur_r \in 1 .. Rows /\ s.cur_c \in 1 .. Cols
  BY DEF Good, Screen
<1>2. CASE s.cur_r > Len(s.w)
  <2>1. insert(s, "x") = [s EXCEPT !.lost = TRUE]
    BY <1>2 DEF insert
  <2>2. Len(s.w) < Rows
    BY <1>1, <1>2, SizeAssumption
  <2> QED BY <2>1, <2>2 DEF Good, Screen
<1>3. CASE ~(s.cur_r > Len(s.w))
  <2>1. s.cur_r \in 1 .. Len(s.w) /\ s.w[s.cur_r] \in RowOf
    BY <1>1, <1>3, SizeAssumption
  <2>2. row \in RowOf
    <3>1. ASSUME NEW c \in 1 .. Cols
          PROVE  row[c] \in Text \cup {SPACE, "x"}
      <4>1. CASE c < s.cur_c
        <5>1. row[c] = s.w[s.cur_r][c]
          BY <4>1, <1>1, SizeAssumption
        <5> QED BY <5>1, <2>1 DEF RowOf
      <4>2. CASE c = s.cur_c
        <5>1. row[c] = "x"
          BY <4>2, <1>1, SizeAssumption
        <5> QED BY <5>1
      <4>3. CASE c > s.cur_c
        <5>1. c - 1 \in 1 .. Cols
          BY <4>3, <1>1, SizeAssumption
        <5>2. row[c] = s.w[s.cur_r][c - 1]
          BY <4>3, <1>1, SizeAssumption
        <5> QED BY <5>1, <5>2, <2>1 DEF RowOf
      <4> QED BY <4>1, <4>2, <4>3, <1>1, SizeAssumption
    <3> QED BY <3>1 DEF RowOf
  <2>3. insert(s, "x") = [s EXCEPT !.w[s.cur_r] = row]
    BY <1>3 DEF insert
  <2> HIDE DEF row
  <2>4. [s.w EXCEPT ![s.cur_r] = row] \in Seq(RowOf)
        /\ Len([s.w EXCEPT ![s.cur_r] = row]) = Len(s.w)
    BY <1>1, <2>1, <2>2
  <2>5. insert(s, "x") = [s EXCEPT !.w = [s.w EXCEPT ![s.cur_r] = row]]
    BY <2>3
  <2> QED BY <2>4, <2>5 DEF Good, Screen
<1> QED BY <1>2, <1>3

\* A symbol that is shown is a text; the others are control characters.
LEMMA WriteIsGood ==
  ASSUME NEW s, Good(s), ~s.lost, NEW ch \in Text \cup Control
  PROVE  Good(write_ch(s, ch))
<1> DEFINE back == cursor_back(s, 1)
           put  == put_abs(s, s.cur_r, s.cur_c, ch)
           next == cursor_forward(put, 1)
           down == cursor_down(next, 1)
<1>1. CASE ch = "LF"
  <2>1. write_ch(s, ch) = crlf(s)
    BY <1>1 DEF write_ch, Printable, Control, Digit, Letters, Marks
  <2> QED BY <2>1, LfIsGood
<1>2. CASE ch = "BS"
  <2>1. Good(back)
    BY CursorIsGood
  <2>2. back.cur_r \in Int /\ back.cur_c \in Int /\ SPACE \in Char
    BY <2>1, Fields
  <2>3. Good(put_abs(back, back.cur_r, back.cur_c, SPACE))
    BY <2>1, <2>2, FillIsGood DEF put_abs
  <2>4. write_ch(s, ch) = put_abs(back, back.cur_r, back.cur_c, SPACE)
    BY <1>2 DEF write_ch, Printable, Control, Digit, Letters, Marks
  <2> QED BY <2>3, <2>4
<1>3. CASE ch \in Control \ {"LF", "BS"}
  <2>1. write_ch(s, ch) = s
    BY <1>3 DEF write_ch, Printable, Control, Digit, Letters, Marks
  <2> QED BY <2>1
<1>4. CASE ch \notin Control
  <2>1. ch \in Text /\ ch \in Printable /\ ch \in Char
    BY <1>4, InputAssumption DEF Char
  <2>2. s.cur_r \in Int /\ s.cur_c \in Int
    BY Fields
  <2>3. Good(put)
    BY <2>1, <2>2, FillIsGood DEF put_abs
  <2> HIDE DEF put
  <2>4. Good(next) /\ next.lost = put.lost
    BY <2>3, CursorIsGood
  <2> HIDE DEF next
  <2>5. Good(down) /\ down.lost = next.lost
    BY <2>4, CursorIsGood
  <2> HIDE DEF down
  <2>6. write_ch(s, ch) = IF put.lost THEN put
                          ELSE IF next.cur_c # s.cur_c THEN next
                          ELSE IF down.cur_r # s.cur_r THEN cr(down)
                          ELSE erase_line(cr(scroll_up(down)))
    BY <2>1, <1>4, Zenon DEF write_ch, Control, put, next, down
  <2>7. Good(cr(down))
    BY <2>5, CursorIsGood
  <2>8. ~put.lost => Good(erase_line(cr(scroll_up(down))))
    <3> SUFFICES ASSUME ~put.lost
                 PROVE  Good(erase_line(cr(scroll_up(down))))
      OBVIOUS
    <3>1. Good(scroll_up(down))
      BY <2>4, <2>5, ScrollIsGood
    <3>2. Good(cr(scroll_up(down)))
      BY <3>1, CursorIsGood
    <3> QED BY <3>2, EraseIsGood
  <2> QED BY <2>3, <2>4, <2>6, <2>7, <2>8
<1> QED BY <1>1, <1>2, <1>3, <1>4

\* Every action of ANSI.py leaves a good screen.
LEMMA DrawnIsGood ==
  ASSUME NEW s, Good(s), ~s.lost, NEW action, NEW symbol, NEW a \in Nat, NEW b \in Nat,
         action = "Emit" => symbol \in Text \cup Control
  PROVE  Good(Drawn(action, s, symbol, a, b))
<1>1. action = "Emit" => Good(write_ch(s, symbol))
  BY WriteIsGood
<1>2. /\ Good(cursor_back(s, 1)) /\ Good(cursor_back(s, a))
      /\ Good(cursor_down(s, 1)) /\ Good(cursor_down(s, a))
      /\ Good(cursor_forward(s, 1)) /\ Good(cursor_forward(s, a))
      /\ Good(cursor_up(s, 1)) /\ Good(cursor_up(s, a))
      /\ Good(cursor_save_attrs(s)) /\ Good(cursor_restore_attrs(s))
  BY CursorIsGood
<1>3. Good(cursor_home(s, 1, 1)) /\ Good(cursor_home(s, b, a)) /\ Good(cursor_up_reverse(s))
  BY HomeIsGood, LfIsGood
<1>4. Good(erase_down(s)) /\ Good(erase_end_of_line(s)) /\ Good(Erase(s, a))
  BY EraseIsGood DEF Erase
<1>5. Good(scroll_screen(s)) /\ Good(scroll_screen_rows(s, b, a))
  BY RegionIsGood
<1> QED BY <1>1, <1>2, <1>3, <1>4, <1>5 DEF Drawn

\* The stack keeps its type, and what the next state needs is on it.
LEMMA RememberedFits ==
  ASSUME NEW S, NEW stack \in Seq(S), NEW symbol, NEW a, NEW action, NEW state, NEW next,
         Fits(state, action, next), Depth(state) <= Len(stack),
         action = "StartNumber" => Value[symbol] \in S,
         action = "BuildNumber" => 10 * a + Value[symbol] \in S
  PROVE  LET new == Remembered(action, stack, symbol, a)
         IN  /\ new \in Seq(S)
             /\ Depth(next) <= Len(new)
             /\ \/ Len(new) <= Len(stack)
                \/ action = "StartNumber" /\ Len(new) = Len(stack) + 1
<1> DEFINE rest == SubSeq(stack, 1, Len(stack) - Pops(action))
           new  == Remembered(action, stack, symbol, a)
<1>1. /\ Len(stack) \in Nat /\ Pops(action) \in 0 .. Len(stack)
      /\ Depth(state) \in Nat /\ Depth(next) \in Nat
  BY DEF Fits, Pops, Depth
<1>2. rest \in Seq(S) /\ Len(rest) = Len(stack) - Pops(action)
  <2>1. \A i \in 1 .. (Len(stack) - Pops(action)) : stack[i] \in S
    BY <1>1
  <2> QED BY <2>1, <1>1, SubSeqProperties
<1>3. CASE action = "StartNumber"
  <2>1. new = Append(stack, Value[symbol])
    BY <1>3 DEF Remembered
  <2>2. Append(stack, Value[symbol]) \in Seq(S) /\ Len(Append(stack, Value[symbol])) = Len(stack) + 1
    BY <1>3
  <2>3. Depth(next) <= Len(stack) + 1
    BY <1>1, <1>3 DEF Fits
  <2> HIDE DEF rest, new
  <2> QED BY <2>1, <2>2, <2>3, <1>3 DEF new
<1>4. CASE action = "BuildNumber"
  <2>1. new = Append(rest, 10 * a + Value[symbol])
    BY <1>4 DEF Remembered
  <2>2. Pops(action) = 1
    BY <1>4 DEF Pops
  <2> HIDE DEF rest, new
  <2>3. new \in Seq(S) /\ Len(new) = Len(stack)
    BY <2>1, <2>2, <1>1, <1>2, <1>4
  <2>4. Depth(next) <= Len(stack)
    BY <1>1, <1>4 DEF Fits
  <2> QED BY <2>3, <2>4, <1>1 DEF new
<1>5. CASE action = "Log"
  <2>1. new = <<>>
    BY <1>5 DEF Remembered
  <2> QED BY <2>1, <1>1, <1>5 DEF Fits
<1>6. CASE action \notin {"StartNumber", "BuildNumber", "Log"}
  <2>1. new = rest
    BY <1>6 DEF Remembered
  <2> HIDE DEF rest, new
  <2>2. Depth(next) <= Len(stack) - Pops(action)
    BY <1>1, <1>6 DEF Fits
  <2> QED BY <2>1, <2>2, <1>1, <1>2 DEF new
<1> QED BY <1>3, <1>4, <1>5, <1>6
-----------------------------------------------------------------------------
(* The rows of the screen.  A screen is whole if it has all its rows and   *)
(* its scroll region does not end at row 0: every method but the one that  *)
(* sets the region leaves it whole.                                        *)

Whole(s) == Good(s) /\ Len(s.w) = Rows /\ s.scroll_row_end # 0

\* A row number as an index of the list: one behind the end is the end.
Within(w, i) == IF i <= Len(w) THEN i ELSE Len(w)

\* Where the slice from .. to of a list ends, and how long it is.
SliceEnd(w, from, to) ==
  IF Within(w, from) <= Within(w, to) THEN Within(w, to) ELSE Within(w, from)
SliceLen(w, from, to) == SliceEnd(w, from, to) - Within(w, from)

\* What an assignment to a slice makes of a list: its length, and, if the new rows are
\* as many as the old ones, that the rows outside of the slice stay where they are.
SliceAssigned(w, f, t, f2, t2) ==
  /\ Len(Replace(w, f, t, f2, t2))
       = Within(w, f) + SliceLen(w, f2, t2) + (Len(w) - SliceEnd(w, f, t))
  /\ SliceLen(w, f2, t2) = SliceLen(w, f, t) =>
       \A r \in 1 .. Len(w) :
         r <= Within(w, f) \/ r > SliceEnd(w, f, t) => Replace(w, f, t, f2, t2)[r] = w[r]

\* It does so for every pair of slices.
LEMMA ReplaceParts ==
  ASSUME NEW S, NEW w \in Seq(S), NEW f \in Nat, NEW t \in Nat, NEW f2 \in Nat, NEW t2 \in Nat
  PROVE  SliceAssigned(w, f, t, f2, t2)
<1> DEFINE at(i) == IF i < 0 THEN Max({0, Len(w) + i}) ELSE Min({i, Len(w)})
           end == Max({at(f), at(t)})
           moved == SliceLen(w, f2, t2)
           one == SubSeq(w, 1, at(f))
           two == SubSeq(w, at(f2) + 1, at(t2))
           three == SubSeq(w, end + 1, Len(w))
<1>1. Len(w) \in Nat /\ \A i \in 1 .. Len(w) : w[i] \in S
  OBVIOUS
<1>2. ASSUME NEW i \in Nat
      PROVE  at(i) = Within(w, i)
  <2> DEFINE m == Min({i, Len(w)})
  <2>1. i \in Int /\ Len(w) \in Int
    BY <1>1
  <2>2. m \in {i, Len(w)} /\ m <= i /\ m <= Len(w)
    BY <2>1, MinMaxOfTwo, Zenon
  <2>3. at(i) = m
    OBVIOUS
  <2> HIDE DEF m
  <2> QED BY <1>1, <2>2, <2>3 DEF Within
<1>3. Replace(w, f, t, f2, t2) = one \o two \o three
  BY DEF Replace
<1> HIDE DEF at
<1>4. {at(f), at(t), at(f2), at(t2)} \subseteq 0 .. Len(w)
  BY <1>1, <1>2 DEF Within
<1>5. end = SliceEnd(w, f, t)
  <2>1. at(f) \in Int /\ at(t) \in Int
    BY <1>1, <1>4
  <2>2. end \in {at(f), at(t)} /\ end >= at(f) /\ end >= at(t)
    BY <2>1, MinMaxOfTwo, Zenon
  <2> HIDE DEF end
  <2>3. end = IF at(f) <= at(t) THEN at(t) ELSE at(f)
    BY <2>1, <2>2
  <2> QED BY <1>2, <2>3 DEF SliceEnd
<1>6. end \in 0 .. Len(w)
  BY <1>2, <1>4, <1>5 DEF SliceEnd
<1> HIDE DEF end
<1>7. one \in Seq(S) /\ Len(one) = at(f) /\ \A i \in 1 .. at(f) : one[i] = w[i]
  BY <1>1, <1>4, SubSeqProperties
<1>8. two \in Seq(S) /\ Len(two) = moved
  <2>1. moved = IF at(f2) <= at(t2) THEN at(t2) - at(f2) ELSE 0
    <3>1. at(f2) = Within(w, f2) /\ at(t2) = Within(w, t2)
      BY <1>2
    <3> QED BY <1>1, <1>4, <3>1 DEF SliceLen, SliceEnd
  <2> HIDE DEF moved
  <2> QED BY <1>1, <1>4, <2>1, SubSeqProperties
<1>9. /\ three \in Seq(S) /\ Len(three) = Len(w) - end
      /\ \A i \in 1 .. (Len(w) - end) : three[i] = w[end + i]
  <2>1. CASE end = Len(w)
    <3>1. end + 1 \in Int /\ end + 1 > Len(w)
      BY <1>1, <2>1
    <3>2. three = << >>
      BY <1>1, <3>1, SubSeqProperties
    <3> QED BY <1>1, <3>2, <2>1
  <2>2. CASE end < Len(w)
    <3>1. end + 1 \in 1 .. Len(w) /\ Len(w) \in 1 .. Len(w)
      BY <1>1, <1>6, <2>2
    <3>2. /\ three \in Seq(S) /\ Len(three) = Len(w) - (end + 1) + 1
          /\ \A i \in 1 .. (Len(w) - (end + 1) + 1) : three[i] = w[end + 1 + i - 1]
      BY <1>1, <3>1, SubSeqProperties
    <3> QED BY <1>1, <3>2, <1>6
  <2> QED BY <1>1, <1>6, <2>1, <2>2
<1> HIDE DEF one, two, three
<1>10. /\ Len(one \o two \o three) = Len(one) + Len(two) + Len(three)
       /\ \A i \in 1 .. Len(one) : (one \o two \o three)[i] = one[i]
       /\ \A i \in 1 .. Len(three) : (one \o two \o three)[Len(one) + Len(two) + i] = three[i]
  <2>1. one \in Seq(S) /\ two \in Seq(S) /\ three \in Seq(S)
    BY <1>7, <1>8, <1>9
  <2>2. ASSUME NEW p \in Seq(S), NEW q \in Seq(S)
        PROVE  /\ p \o q \in Seq(S) /\ Len(p \o q) = Len(p) + Len(q)
               /\ \A i \in 1 .. Len(p) : (p \o q)[i] = p[i]
               /\ \A i \in 1 .. Len(q) : (p \o q)[Len(p) + i] = q[i]
    OBVIOUS
  <2> DEFINE both == one \o two
  <2>3. /\ both \in Seq(S) /\ Len(both) = Len(one) + Len(two)
        /\ \A i \in 1 .. Len(one) : both[i] = one[i]
    BY <2>1, <2>2
  <2> HIDE DEF both
  <2>4. /\ Len(both \o three) = Len(both) + Len(three)
        /\ \A i \in 1 .. Len(both) : (both \o three)[i] = both[i]
        /\ \A i \in 1 .. Len(three) : (both \o three)[Len(both) + i] = three[i]
    BY <2>1, <2>2, <2>3
  <2>5. Len(one) \in Nat /\ Len(two) \in Nat
    BY <2>1, LenProperties
  <2>6. \A i \in 1 .. Len(one) : i \in 1 .. Len(both)
    BY <2>3, <2>5
  <2> QED BY <2>3, <2>4, <2>6 DEF both
<1>12. at(f) = Within(w, f)
  BY <1>2
<1>11. ASSUME moved = SliceLen(w, f, t), NEW r \in 1 .. Len(w), r <= at(f) \/ r > end
       PROVE  Replace(w, f, t, f2, t2)[r] = w[r]
  <2> HIDE DEF moved
  <2>1. CASE r <= at(f)
    <3>1. r \in 1 .. at(f)
      BY <1>1, <1>4, <2>1
    <3> QED BY <1>3, <1>7, <1>10, <3>1
  <2>2. CASE r > end
    <3>1. r - end \in 1 .. (Len(w) - end)
      BY <1>1, <1>6, <2>2
    <3>2. moved = end - at(f)
      BY <1>5, <1>11, <1>12 DEF SliceLen
    <3>4. Len(one) + Len(two) + (r - end) = r /\ end + (r - end) = r
      BY <1>1, <1>4, <1>6, <1>7, <1>8, <3>2
    <3> QED BY <1>3, <1>9, <1>10, <3>1, <3>4
  <2> QED BY <1>11, <2>1, <2>2
<1> QED BY <1>3, <1>5, <1>7, <1>8, <1>9, <1>10, <1>11, <1>12 DEF SliceAssigned

\* The slice that a scroll moves is as long as the one that it overwrites, even
\* if the region begins behind its end or behind the end of the screen; the rows
\* outside the region b + 1 .. e + 1 stay.
LEMMA ReplaceKeeps ==
  ASSUME NEW S, NEW w \in Seq(S), NEW b \in Nat, NEW e \in Nat, e < Len(w)
  PROVE  /\ Len(Replace(w, b, e, b + 1, e + 1)) = Len(w)
         /\ Len(Replace(w, b + 1, e + 1, b, e)) = Len(w)
         /\ \A r \in 1 .. Len(w) : r \notin b + 1 .. e + 1 =>
              /\ Replace(w, b, e, b + 1, e + 1)[r] = w[r]
              /\ Replace(w, b + 1, e + 1, b, e)[r] = w[r]
<1> DEFINE at(i) == Within(w, i)
           up == Replace(w, b, e, b + 1, e + 1)
           down == Replace(w, b + 1, e + 1, b, e)
<1>1. /\ Len(w) \in Nat /\ b + 1 \in Nat /\ e + 1 \in Nat
      /\ e <= Len(w) /\ e + 1 <= Len(w)
  OBVIOUS
<1>2. at(e) = e /\ at(e + 1) = e + 1
  BY <1>1 DEF Within
<1>3. \/ b < Len(w) /\ at(b) = b /\ at(b + 1) = b + 1
      \/ b >= Len(w) /\ at(b) = Len(w) /\ at(b + 1) = Len(w)
  BY <1>1 DEF Within
<1> HIDE DEF at
<1>6. SliceEnd(w, b, e) = IF at(b) <= e THEN e ELSE at(b)
  BY <1>2 DEF SliceEnd, at
<1>7. SliceEnd(w, b + 1, e + 1) = IF at(b + 1) <= e + 1 THEN e + 1 ELSE at(b + 1)
  BY <1>2 DEF SliceEnd, at
<1>8. /\ SliceLen(w, b, e) = SliceEnd(w, b, e) - at(b)
      /\ SliceLen(w, b + 1, e + 1) = SliceEnd(w, b + 1, e + 1) - at(b + 1)
  BY DEF SliceLen, at
<1>9. SliceLen(w, b, e) = SliceLen(w, b + 1, e + 1)
  BY <1>1, <1>3, <1>6, <1>7, <1>8
<1>10. /\ SliceAssigned(w, b, e, b + 1, e + 1)
       /\ SliceAssigned(w, b + 1, e + 1, b, e)
  BY <1>1, ReplaceParts
<1> HIDE DEF at
<1>4. Len(up) = Len(w) /\ \A r \in 1 .. Len(w) : r \notin b + 1 .. e + 1 => up[r] = w[r]
  <2>1. /\ Len(up) = at(b) + SliceLen(w, b + 1, e + 1) + (Len(w) - SliceEnd(w, b, e))
        /\ \A r \in 1 .. Len(w) : r <= at(b) \/ r > SliceEnd(w, b, e) => up[r] = w[r]
    BY <1>9, <1>10, Zenon DEF SliceAssigned, at
  <2>2. at(b) + SliceLen(w, b + 1, e + 1) + (Len(w) - SliceEnd(w, b, e)) = Len(w)
    BY <1>1, <1>3, <1>6, <1>8, <1>9
  <2>3. \A r \in 1 .. Len(w) : r \notin b + 1 .. e + 1 => r <= at(b) \/ r > SliceEnd(w, b, e)
    BY <1>1, <1>3, <1>6
  <2> HIDE DEF up
  <2> QED BY <2>1, <2>2, <2>3
<1>5. Len(down) = Len(w) /\ \A r \in 1 .. Len(w) : r \notin b + 1 .. e + 1 => down[r] = w[r]
  <2>1. /\ Len(down) = at(b + 1) + SliceLen(w, b, e) + (Len(w) - SliceEnd(w, b + 1, e + 1))
        /\ \A r \in 1 .. Len(w) :
             r <= at(b + 1) \/ r > SliceEnd(w, b + 1, e + 1) => down[r] = w[r]
    BY <1>9, <1>10, Zenon DEF SliceAssigned, at
  <2>2. at(b + 1) + SliceLen(w, b, e) + (Len(w) - SliceEnd(w, b + 1, e + 1)) = Len(w)
    BY <1>1, <1>3, <1>7, <1>8, <1>9
  <2>3. \A r \in 1 .. Len(w) :
          r \notin b + 1 .. e + 1 => r <= at(b + 1) \/ r > SliceEnd(w, b + 1, e + 1)
    BY <1>1, <1>3, <1>7
  <2> HIDE DEF down
  <2> QED BY <2>1, <2>2, <2>3
<1> QED BY <1>4, <1>5

\* Nothing was lost from a whole screen.
LEMMA WholeIsThere ==
  ASSUME NEW s, Whole(s)
  PROVE  /\ Good(s) /\ ~s.lost
         /\ s.cur_r \in Int /\ s.cur_c \in Int
BY SizeAssumption DEF Whole, Good, Screen

\* Scrolling in either direction.
LEMMA ScrollKeepsRows ==
  ASSUME NEW s, Whole(s)
  PROVE  Whole(scroll_up(s)) /\ Whole(scroll_down(s))
<1> DEFINE b == s.scroll_row_start - 1
           e == s.scroll_row_end - 1
<1>1. s.w \in Seq(RowOf) /\ b \in Nat /\ e \in Nat /\ e < Len(s.w)
  BY SizeAssumption DEF Whole, Good, Screen
<1>2. Good(scroll_up(s)) /\ Good(scroll_down(s))
  BY WholeIsThere, ScrollIsGood
<1> DEFINE up == Replace(s.w, b, e, b + 1, e + 1)
           down == Replace(s.w, b + 1, e + 1, b, e)
<1>3. Len(up) = Rows /\ Len(down) = Rows
  BY <1>1, ReplaceKeeps DEF Whole
<1>4. scroll_up(s) = [s EXCEPT !.w = up] /\ scroll_down(s) = [s EXCEPT !.w = down]
  BY DEF scroll_up, scroll_down
<1> HIDE DEF up, down
<1> QED BY <1>2, <1>3, <1>4 DEF Whole, Good, Screen

\* Erasing and printing.
LEMMA FillKeepsRows ==
  ASSUME NEW s, Whole(s), NEW rs \in Int, NEW cs \in Int, NEW re \in Int, NEW ce \in Int,
         NEW ch \in Char
  PROVE  Whole(fill_region(s, rs, cs, re, ce, ch))
<1> DEFINE t == fill_region(s, rs, cs, re, ce, ch)
<1>1. Good(t)
  BY FillIsGood DEF Whole
<1>2. t.scroll_row_end = s.scroll_row_end /\ DOMAIN t.w = DOMAIN s.w
  BY DEF fill_region, Whole, Good, Screen
<1>3. s.w \in Seq(RowOf) /\ t.w \in Seq(RowOf)
  BY <1>1 DEF Whole, Good, Screen
<1> HIDE DEF t
<1>4. Len(t.w) = Len(s.w)
  BY <1>2, <1>3
<1> QED BY <1>1, <1>2, <1>4 DEF Whole, t

\* Moving the cursor.
LEMMA CursorKeepsRows ==
  ASSUME NEW s, Whole(s), NEW n \in Int
  PROVE  /\ Whole(cursor_back(s, n)) /\ Whole(cursor_down(s, n))
         /\ Whole(cursor_forward(s, n)) /\ Whole(cursor_up(s, n))
         /\ Whole(cr(s)) /\ Whole(cursor_restore_attrs(s)) /\ Whole(cursor_save_attrs(s))
<1>1. \A r, c : /\ cursor_home(s, r, c).w = s.w
                /\ cursor_home(s, r, c).scroll_row_end = s.scroll_row_end
  BY DEF cursor_home, Whole, Good, Screen
<1>2. /\ cursor_save_attrs(s).w = s.w
      /\ cursor_save_attrs(s).scroll_row_end = s.scroll_row_end
  BY DEF cursor_save_attrs, Whole, Good, Screen
<1>3. Good(s)
  BY WholeIsThere
<1>4. ASSUME NEW t, Good(t), t.w = s.w, t.scroll_row_end = s.scroll_row_end
      PROVE  Whole(t)
  BY <1>4 DEF Whole
<1>5. Whole(cursor_save_attrs(s))
  BY <1>2, <1>3, <1>4, CursorIsGood
<1>6. ASSUME NEW r, NEW c, Good(cursor_home(s, r, c))
      PROVE  Whole(cursor_home(s, r, c))
  BY <1>1, <1>4, <1>6
<1>7. /\ Good(cursor_back(s, n)) /\ Good(cursor_down(s, n))
      /\ Good(cursor_forward(s, n)) /\ Good(cursor_up(s, n))
      /\ Good(cr(s)) /\ Good(cursor_restore_attrs(s))
  BY <1>3, CursorIsGood
<1> QED BY <1>5, <1>6, <1>7
        DEF cursor_back, cursor_down, cursor_forward, cursor_up, cr, cursor_restore_attrs

\* The methods made of erasing alone.
LEMMA EraseKeepsRows ==
  ASSUME NEW s, Whole(s)
  PROVE  /\ Whole(erase_end_of_line(s)) /\ Whole(erase_start_of_line(s)) /\ Whole(erase_line(s))
         /\ Whole(erase_down(s)) /\ Whole(erase_up(s)) /\ Whole(erase_screen(s))
<1>1. /\ s.cur_r \in Int /\ s.cur_c \in Int /\ 1 \in Int /\ Rows \in Int /\ Cols \in Int
      /\ s.cur_r + 1 \in Int /\ s.cur_r - 1 \in Int /\ SPACE \in Char
  BY WholeIsThere, Fields
<1>2. /\ Whole(erase_end_of_line(s)) /\ Whole(erase_start_of_line(s))
      /\ Whole(erase_line(s)) /\ Whole(erase_screen(s))
  BY <1>1, FillKeepsRows DEF erase_end_of_line, erase_start_of_line, erase_line, erase_screen
<1>3. Whole(erase_down(s)) /\ Whole(erase_up(s))
  BY <1>1, <1>2, FillKeepsRows DEF erase_down, erase_up
<1> QED BY <1>2, <1>3

\* The methods that scroll at the edge of the screen.
LEMMA LfKeepsRows ==
  ASSUME NEW s, Whole(s)
  PROVE  Whole(crlf(s)) /\ Whole(cursor_up_reverse(s))
<1>1. ASSUME NEW t, Whole(t)
      PROVE  Whole(lf(t))
  <2> DEFINE d == cursor_down(t, 1)
  <2>1. Whole(d)
    BY <1>1, CursorKeepsRows
  <2> HIDE DEF d
  <2>2. Whole(erase_line(scroll_up(d)))
    BY <2>1, ScrollKeepsRows, EraseKeepsRows
  <2> QED BY <2>1, <2>2 DEF lf, d
<1>2. Whole(crlf(s))
  BY <1>1, CursorKeepsRows DEF crlf
<1>3. Whole(cursor_up_reverse(s))
  BY CursorKeepsRows, ScrollKeepsRows DEF cursor_up_reverse
<1> QED BY <1>2, <1>3

\* insert() changes a row that is there.
LEMMA InsertKeepsRows ==
  ASSUME NEW s, Whole(s)
  PROVE  Len(insert(s, "x").w) = Rows
BY WholeIsThere, SizeAssumption DEF insert, Whole, Good, Screen

\* Printing a character, with the scroll at the end of the last row.
LEMMA WriteKeepsRows ==
  ASSUME NEW s, Whole(s), NEW ch \in Text \cup Control
  PROVE  Len(write_ch(s, ch).w) = Rows
<1> DEFINE back == cursor_back(s, 1)
           put  == put_abs(s, s.cur_r, s.cur_c, ch)
           next == cursor_forward(put, 1)
           down == cursor_down(next, 1)
<1>1. CASE ch = "LF"
  <2>1. write_ch(s, ch) = crlf(s)
    BY <1>1 DEF write_ch, Printable, Control, Digit, Letters, Marks
  <2> QED BY <2>1, LfKeepsRows DEF Whole
<1>2. CASE ch = "BS"
  <2>1. Whole(back)
    BY CursorKeepsRows
  <2>2. back.cur_r \in Int /\ back.cur_c \in Int /\ SPACE \in Char
    BY <2>1, WholeIsThere, Fields
  <2>3. Whole(put_abs(back, back.cur_r, back.cur_c, SPACE))
    BY <2>1, <2>2, FillKeepsRows DEF put_abs
  <2>4. write_ch(s, ch) = put_abs(back, back.cur_r, back.cur_c, SPACE)
    BY <1>2 DEF write_ch, Printable, Control, Digit, Letters, Marks
  <2> QED BY <2>3, <2>4 DEF Whole
<1>3. CASE ch \in Control \ {"LF", "BS"}
  <2>1. write_ch(s, ch) = s
    BY <1>3 DEF write_ch, Printable, Control, Digit, Letters, Marks
  <2> QED BY <2>1 DEF Whole
<1>4. CASE ch \notin Control
  <2>1. ch \in Printable /\ ch \in Char
    BY <1>4, InputAssumption DEF Char
  <2>2. s.cur_r \in Int /\ s.cur_c \in Int
    BY WholeIsThere
  <2>3. Whole(put)
    BY <2>1, <2>2, FillKeepsRows DEF put_abs
  <2> HIDE DEF put
  <2>4. Whole(next)
    BY <2>3, CursorKeepsRows
  <2> HIDE DEF next
  <2>5. Whole(down)
    BY <2>4, CursorKeepsRows
  <2> HIDE DEF down
  <2>6. write_ch(s, ch) = IF put.lost THEN put
                          ELSE IF next.cur_c # s.cur_c THEN next
                          ELSE IF down.cur_r # s.cur_r THEN cr(down)
                          ELSE erase_line(cr(scroll_up(down)))
    BY <2>1, <1>4, Zenon DEF write_ch, Control, put, next, down
  <2>7. Whole(cr(down)) /\ Whole(erase_line(cr(scroll_up(down))))
    BY <2>5, CursorKeepsRows, ScrollKeepsRows, EraseKeepsRows
  <2> QED BY <2>3, <2>4, <2>6, <2>7 DEF Whole
<1> QED BY <1>1, <1>2, <1>3, <1>4

\* Every action of ANSI.py.
LEMMA DrawnKeepsRows ==
  ASSUME NEW s, Whole(s), NEW action, NEW symbol, NEW a \in Nat, NEW b \in Nat,
         action = "Emit" => symbol \in Text \cup Control
  PROVE  Len(Drawn(action, s, symbol, a, b).w) = Rows
<1>1. action = "Emit" => Len(write_ch(s, symbol).w) = Rows
  BY WriteKeepsRows
<1>2. /\ Whole(cursor_back(s, 1)) /\ Whole(cursor_back(s, a))
      /\ Whole(cursor_down(s, 1)) /\ Whole(cursor_down(s, a))
      /\ Whole(cursor_forward(s, 1)) /\ Whole(cursor_forward(s, a))
      /\ Whole(cursor_up(s, 1)) /\ Whole(cursor_up(s, a))
      /\ Whole(cursor_save_attrs(s)) /\ Whole(cursor_restore_attrs(s))
  BY CursorKeepsRows
<1>3. Whole(cursor_up_reverse(s)) /\ Whole(erase_down(s)) /\ Whole(erase_end_of_line(s))
      /\ Whole(Erase(s, a))
  BY LfKeepsRows, EraseKeepsRows DEF Erase
<1>4. /\ cursor_home(s, 1, 1).w = s.w /\ cursor_home(s, b, a).w = s.w
      /\ scroll_screen(s).w = s.w /\ scroll_screen_rows(s, b, a).w = s.w
  BY DEF cursor_home, scroll_screen, scroll_screen_rows, Whole, Good, Screen
<1> HIDE DEF Whole
<1>5. \A t : Whole(t) => Len(t.w) = Rows
  BY DEF Whole
<1>6. Len(s.w) = Rows
  BY <1>5
<1> QED BY <1>1, <1>2, <1>3, <1>4, <1>5, <1>6 DEF Drawn
-----------------------------------------------------------------------------
(* The inductive invariant.  TypeOK is not enough: the numbers that a      *)
(* sequence pops must be on the stack in the state where it ends, and the  *)
(* screen must not have lost its rows while characters are written.        *)

Lost == /\ error = "none" => ~screen.lost
        /\ error = "IndexError" => screen.lost

Stack == /\ memory \in Seq(0 .. MaxNumber)
         /\ Len(memory) <= MaxMemory
         /\ current_state \in StateNames
         /\ Depth(current_state) <= Len(memory)

Counts == base \in 0 .. MaxMemory /\ written \in 0 .. MaxWritten

IInv == /\ Good(screen)
        /\ Lost
        /\ Stack
        /\ Counts
        /\ error \in {"none", "NameError", "IndexError"}

\* The invariant says what is to be shown.
LEMMA IInvSuffices == IInv => TypeOK /\ ErrorsExplained
BY NamesAreStates DEF IInv, Good, Lost, Stack, Counts, TypeOK, ErrorsExplained

\* A blank screen is good.
LEMMA InitIInv == Init => IInv
<1> SUFFICES ASSUME Init
             PROVE  IInv
  OBVIOUS
<1>1. [c \in 1 .. Cols |-> SPACE] \in RowOf
  BY DEF RowOf
<1>2. [r \in 1 .. Rows |-> [c \in 1 .. Cols |-> SPACE]] \in Seq(RowOf)
  BY <1>1, SizeAssumption
<1>3. Good(Blank) /\ ~Blank.lost
  BY <1>2, SizeAssumption DEF Good, Screen, Blank
<1>4. Stack /\ Counts
  BY BoundAssumption DEF Init, Stack, Counts, StateNames, Depth
<1> QED BY <1>3, <1>4 DEF Init, IInv, Lost

\* A method of the screen that the program calls.
LEMMA MethodIInv ==
  ASSUME IInv, Method
  PROVE  IInv'
<1>1. Good(screen) /\ ~screen.lost /\ Stack /\ Counts
  BY DEF IInv, Lost, Method, Step
<1>2. PICK s \in {scroll_down(screen), insert(screen, "x"), erase_start_of_line(screen)} :
        screen' = s /\ error' = IF s.lost THEN "IndexError" ELSE "none"
  BY DEF Method
<1>3. Good(s) /\ s.lost \in BOOLEAN
  <2>1. Good(s)
    BY <1>1, <1>2, ScrollIsGood, InsertIsGood, EraseIsGood
  <2> QED BY <2>1, Fields
<1>4. Stack' /\ Counts'
  BY <1>1, BoundAssumption DEF Method, Step, Stack, Counts
<1>5. Good(screen)'
  BY <1>2, <1>3 DEF Good
<1> QED BY <1>2, <1>3, <1>4, <1>5 DEF IInv, Lost

\* A character, whatever the state of the machine.
LEMMA WriteIInv ==
  ASSUME IInv, Write
  PROVE  IInv'
<1>1. /\ Good(screen) /\ ~screen.lost /\ Stack /\ Counts
      /\ written < MaxWritten /\ written' = written + 1
  BY DEF IInv, Lost, Write, Step
<1>2. PICK symbol \in Input \cup Text : /\ current_state = "INIT" => symbol \in Text \cup Control
                                       /\ process(symbol)
  BY DEF Write
<1>3. symbol \in Symbol
  BY InputAssumption DEF Symbol
<1> DEFINE n == Len(memory)
           a == IF n >= 1 THEN memory[n] ELSE 0
           b == IF n >= 2 THEN memory[n - 1] ELSE 0
<1>4. PICK t : t = get_transition[current_state][symbol]
  OBVIOUS
<1> DEFINE drawn == Drawn(t.action, screen, symbol, a, b)
           raised == CASE t.action = "DoEraseLine" -> "NameError"
                       [] t.action # "DoEraseLine" /\ n < Pops(t.action) -> "AttributeError"
                       [] t.action # "DoEraseLine" /\ n >= Pops(t.action) ->
                            IF drawn.lost THEN "IndexError" ELSE "none"
           longer == Remembered(t.action, memory, symbol, a)
<1>5. /\ t.action = "StartNumber" => n < MaxMemory /\ Value[symbol] <= MaxNumber
      /\ t.action = "BuildNumber" => 10 * a + Value[symbol] <= MaxNumber
      /\ error' = raised
      /\ screen' = IF raised \in {"none", "IndexError"} THEN drawn ELSE screen
      /\ memory' = IF raised = "none" THEN longer ELSE memory
      /\ current_state' = IF raised = "none" THEN t.next ELSE current_state
      /\ base' = IF current_state = "INIT" THEN n ELSE base
  BY <1>2, <1>4, Zenon DEF process
<1>6. /\ t.next \in StateNames
      /\ Fits(current_state, t.action, t.next)
      /\ t.action \in {"StartNumber", "BuildNumber"} => symbol \in Digit
  BY <1>1, <1>3, <1>4, TransitionFits DEF Stack
<1>7. n \in Nat /\ n <= MaxMemory /\ a \in Nat /\ b \in Nat
  BY <1>1, BoundAssumption, SMTT(30) DEF Stack
<1> HIDE DEF a, b
<1>8. Good(drawn) /\ drawn.lost \in BOOLEAN
  <2>1. t.action = "Emit" => symbol \in Text \cup Control
    BY <1>2, <1>6 DEF Fits
  <2>2. Good(drawn)
    BY <1>1, <1>7, <2>1, DrawnIsGood
  <2> QED BY <2>2, Fields
<1>9. n >= Pops(t.action) /\ Pops(t.action) \in Nat
  <2>1. Pops(t.action) \in Nat /\ Depth(current_state) \in Nat
    BY DEF Pops, Depth
  <2> QED BY <1>1, <1>6, <1>7, <2>1 DEF Stack, Fits
<1> HIDE DEF drawn
<1>10. /\ raised \in {"none", "NameError", "IndexError"}
       /\ raised = "none" => ~drawn.lost
       /\ raised = "IndexError" => drawn.lost
  BY <1>7, <1>8, <1>9
<1> HIDE DEF raised
<1>11. Good(screen)' /\ Lost'
  BY <1>1, <1>5, <1>8, <1>10 DEF Good, Lost
<1>12. /\ longer \in Seq(0 .. MaxNumber)
       /\ Depth(t.next) <= Len(longer)
       /\ Len(longer) <= MaxMemory
  <2>1. memory \in Seq(0 .. MaxNumber) /\ Depth(current_state) <= Len(memory)
    BY <1>1 DEF Stack
  <2>2. symbol \in Digit => Value[symbol] \in Nat
    BY DEF Value, Digit
  <2>3. t.action = "StartNumber" => Value[symbol] \in 0 .. MaxNumber
    BY <1>5, <1>6, <2>2, BoundAssumption
  <2>4. t.action = "BuildNumber" => 10 * a + Value[symbol] \in 0 .. MaxNumber
    BY <1>5, <1>6, <1>7, <2>2, BoundAssumption
  <2>5. /\ longer \in Seq(0 .. MaxNumber)
        /\ Depth(t.next) <= Len(longer)
        /\ \/ Len(longer) <= n
           \/ t.action = "StartNumber" /\ Len(longer) = n + 1
    BY <1>6, <2>1, <2>3, <2>4, RememberedFits
  <2> HIDE DEF longer
  <2> QED BY <2>5, <1>5, <1>7, BoundAssumption
<1> HIDE DEF longer
<1>13. Stack'
  BY <1>1, <1>5, <1>6, <1>12 DEF Stack
<1>14. Counts'
  BY <1>1, <1>5, <1>7, BoundAssumption DEF Counts
<1> QED BY <1>5, <1>10, <1>11, <1>13, <1>14 DEF IInv

\* The invariant holds in every reachable state, for every size of the screen,
\* every set of characters and every bound.
LEMMA Invariance == Spec => []IInv
<1>1. IInv /\ [Next]_vars => IInv'
  <2> SUFFICES ASSUME IInv, [Next]_vars
               PROVE  IInv'
    OBVIOUS
  <2>1. CASE Write
    BY <2>1, WriteIInv
  <2>2. CASE Method
    BY <2>2, MethodIInv
  <2>3. CASE UNCHANGED vars
    BY <2>3 DEF vars, IInv, Good, Lost, Stack, Counts
  <2> QED BY <2>1, <2>2, <2>3 DEF Next
<1> QED BY <1>1, InitIInv, PTL DEF Spec

\* The cursor and the saved cursor never leave the screen, and every variable
\* keeps its type, whatever is written (screen.py: cursor_constrain,
\* scroll_constrain).
THEOREM TypeCorrect == Spec => []TypeOK
BY Invariance, IInvSuffices, PTL

\* No escape sequence pops the screen object that ANSI.__init__ puts at the
\* bottom of the stack of the state machine, and an IndexError of the screen is
\* raised only after rows were lost; for when they can be lost see RowsAreKept.
THEOREM ErrorsAreExplained == Spec => []ErrorsExplained
BY Invariance, IInvSuffices, PTL

\* No step takes a row from the screen, or adds one, while the scroll region does
\* not end at row 0 (screen.py: the slices of scroll_up and scroll_down).
THEOREM RowsAreKept == Spec => RowsKept
<1>1. ASSUME IInv, Next, Whole(screen)
      PROVE  Len(screen'.w) = Rows
  <2>1. CASE Write
    <3>1. PICK symbol \in Input \cup Text :
            /\ current_state = "INIT" => symbol \in Text \cup Control
            /\ process(symbol)
      BY <2>1 DEF Write
    <3> DEFINE n == Len(memory)
               a == IF n >= 1 THEN memory[n] ELSE 0
               b == IF n >= 2 THEN memory[n - 1] ELSE 0
    <3>2. PICK action : action = get_transition[current_state][symbol].action
      OBVIOUS
    <3>3. screen' \in {Drawn(action, screen, symbol, a, b), screen}
      BY <3>1, <3>2 DEF process
    <3>4. a \in Nat /\ b \in Nat
      BY <1>1, BoundAssumption DEF IInv, Stack
    <3>5. action = "Emit" => symbol \in Text \cup Control
      <4>1. symbol \in Symbol /\ current_state \in StateNames
        BY <1>1, InputAssumption DEF Symbol, IInv, Stack
      <4> QED BY <3>1, <3>2, <4>1, TransitionFits DEF Fits
    <3> HIDE DEF a, b
    <3>6. Len(Drawn(action, screen, symbol, a, b).w) = Rows
      BY <1>1, <3>4, <3>5, DrawnKeepsRows
    <3> QED BY <1>1, <3>3, <3>6 DEF Whole
  <2>2. CASE Method
    <3>1. screen' \in {scroll_down(screen), insert(screen, "x"), erase_start_of_line(screen)}
      BY <2>2 DEF Method
    <3> QED BY <1>1, <3>1, ScrollKeepsRows, InsertKeepsRows, EraseKeepsRows DEF Whole
  <2> QED BY <1>1, <2>1, <2>2 DEF Next
<1>2. ASSUME IInv, [Next]_vars
      PROVE  [Len(screen.w) = Rows => Len(screen'.w) = Rows \/ screen.scroll_row_end = 0]_vars
  <2>1. CASE UNCHANGED vars
    BY <2>1
  <2>2. CASE Next /\ Len(screen.w) = Rows /\ screen.scroll_row_end # 0
    BY <1>1, <1>2, <2>2 DEF Whole, IInv
  <2> QED BY <1>2, <2>1, <2>2
<1> QED BY <1>2, Invariance, PTL DEF Spec, RowsKept
-----------------------------------------------------------------------------
(* The stack of the state machine, against its height when the escape      *)
(* sequence began: this is what StackBalanced needs beyond IInv.           *)

Pushes(action) == IF action \in {"StartNumber", "BuildNumber"} THEN 1 ELSE 0

\* Inside an escape sequence an action moves the stack from what its state has to
\* what the next state has; at the end one that takes numbers takes all of them.
Exact(state, symbol, action, next) ==
  /\ next # "INIT" => action # "Log" /\ Depth(next) = Depth(state) - Pops(action) + Pushes(action)
  /\ (state \in {"NUMBER_1", "NUMBER_2"} /\ next = "INIT"
        /\ symbol \in {"A", "B", "C", "D", "J", "H", "r"}) =>
       \/ action = "Log"
       \/ Pops(action) = Depth(state) /\ Pushes(action) = 0

\* The rows of the table.
LEMMA RowsAreExact ==
  /\ \A t \in Transitions : \A symbol \in t[2] : Exact(t[1], symbol, t[3], t[4])
  /\ \A t \in AnyTransitions : \A symbol \in Symbol : Exact(t[1], symbol, t[2], t[3])
<1>1. ASSUME NEW t \in Transitions, NEW symbol \in t[2]
      PROVE  Exact(t[1], symbol, t[3], t[4])
  BY DEF Transitions, Exact, Depth, Pops, Pushes
<1>2. ASSUME NEW t \in AnyTransitions, NEW symbol \in Symbol
      PROVE  Exact(t[1], symbol, t[2], t[3])
  BY DEF AnyTransitions, Exact, Depth, Pops, Pushes
<1> QED BY <1>1, <1>2

\* What get_transition returns.
LEMMA TransitionExact ==
  ASSUME NEW symbol \in Symbol, NEW state \in StateNames
  PROVE  LET t == get_transition[state][symbol]
         IN  Exact(state, symbol, t.action, t.next)
<1>1. Exact(state, symbol, "Log", "INIT")
  BY DEF Exact, Depth, Pops, Pushes
<1> QED BY <1>1, TransitionFound, RowsAreExact

\* The height of the stack after an action.
LEMMA RememberedLength ==
  ASSUME NEW S, NEW stack \in Seq(S), NEW symbol, NEW a, NEW action,
         Pops(action) <= Len(stack)
  PROVE  Len(Remembered(action, stack, symbol, a))
           = IF action = "Log" THEN 0 ELSE Len(stack) - Pops(action) + Pushes(action)
<1> DEFINE rest == SubSeq(stack, 1, Len(stack) - Pops(action))
<1>1. Len(stack) \in Nat /\ Pops(action) \in 0 .. Len(stack)
  BY DEF Pops
<1>2. rest \in Seq(S) /\ Len(rest) = Len(stack) - Pops(action)
  <2>1. \A i \in 1 .. (Len(stack) - Pops(action)) : stack[i] \in S
    BY <1>1
  <2> QED BY <2>1, <1>1, SubSeqProperties
<1>3. action = "StartNumber" => Pops(action) = 0
  BY DEF Pops
<1> HIDE DEF rest
<1>4. CASE action = "StartNumber"
  <2>1. Remembered(action, stack, symbol, a) = Append(stack, Value[symbol])
    BY <1>4 DEF Remembered
  <2>2. Len(Append(stack, Value[symbol])) = Len(stack) + 1
    OBVIOUS
  <2> QED BY <2>1, <2>2, <1>1, <1>3, <1>4 DEF Pushes
<1>5. CASE action = "BuildNumber"
  <2>1. Remembered(action, stack, symbol, a) = Append(rest, 10 * a + Value[symbol])
    BY <1>5 DEF Remembered, rest
  <2>2. Len(Append(rest, 10 * a + Value[symbol])) = Len(rest) + 1
    BY <1>2
  <2> QED BY <2>1, <2>2, <1>1, <1>2, <1>5 DEF Pushes
<1>6. CASE action = "Log"
  <2>1. Remembered(action, stack, symbol, a) = <<>>
    BY <1>6 DEF Remembered
  <2> QED BY <2>1, <1>6
<1>7. CASE action \notin {"StartNumber", "BuildNumber", "Log"}
  <2>1. Remembered(action, stack, symbol, a) = rest
    BY <1>7 DEF Remembered, rest
  <2> QED BY <2>1, <1>1, <1>2, <1>7 DEF Pushes
<1> QED BY <1>4, <1>5, <1>6, <1>7

Balanced == current_state # "INIT" => Len(memory) = base + Depth(current_state)

\* What a character does to the stack and the state.
LEMMA ProcessMoves ==
  ASSUME IInv, NEW symbol \in Symbol, process(symbol)
  PROVE  LET t == get_transition[current_state][symbol]
         IN  /\ base' = IF current_state = "INIT" THEN Len(memory) ELSE base
             /\ \/ memory' = memory /\ current_state' = current_state
                \/ /\ current_state' = t.next
                   /\ Len(memory') = IF t.action = "Log" THEN 0
                                     ELSE Len(memory) - Pops(t.action) + Pushes(t.action)
<1>1. PICK t : t = get_transition[current_state][symbol]
  OBVIOUS
<1> DEFINE a == IF Len(memory) >= 1 THEN memory[Len(memory)] ELSE 0
<1>2. /\ base' = IF current_state = "INIT" THEN Len(memory) ELSE base
      /\ \/ memory' = memory /\ current_state' = current_state
         \/ /\ current_state' = t.next
            /\ memory' = Remembered(t.action, memory, symbol, a)
  BY <1>1 DEF process
<1> HIDE DEF a
<1>3. /\ memory \in Seq(0 .. MaxNumber) /\ current_state \in StateNames
      /\ Depth(current_state) <= Len(memory)
  BY DEF IInv, Stack
<1>4. Pops(t.action) <= Len(memory)
  <2>1. Pops(t.action) \in Nat /\ Depth(current_state) \in Nat
    BY DEF Pops, Depth
  <2>2. Pops(t.action) <= Depth(current_state)
    BY <1>1, <1>3, TransitionFits DEF Fits
  <2>3. Len(memory) \in Nat
    BY <1>3
  <2> QED BY <1>3, <2>1, <2>2, <2>3
<1>5. Len(Remembered(t.action, memory, symbol, a))
        = IF t.action = "Log" THEN 0 ELSE Len(memory) - Pops(t.action) + Pushes(t.action)
  BY <1>3, <1>4, RememberedLength
<1> QED BY <1>1, <1>2, <1>5

\* The height of the stack is known in every reachable state.
LEMMA BalancedInvariance == Spec => []Balanced
<1>1. Init => Balanced
  BY DEF Init, Balanced
<1>2. IInv /\ IInv' /\ Balanced /\ [Next]_vars => Balanced'
  <2> SUFFICES ASSUME IInv, IInv', Balanced, [Next]_vars
               PROVE  Balanced'
    OBVIOUS
  <2>1. CASE Write
    <3>1. PICK symbol \in Input \cup Text : process(symbol)
      BY <2>1 DEF Write
    <3>2. symbol \in Symbol /\ current_state \in StateNames
      BY InputAssumption DEF Symbol, IInv, Stack
    <3>3. PICK t : t = get_transition[current_state][symbol]
      OBVIOUS
    <3>4. /\ base' = IF current_state = "INIT" THEN Len(memory) ELSE base
          /\ \/ memory' = memory /\ current_state' = current_state
             \/ /\ current_state' = t.next
                /\ Len(memory') = IF t.action = "Log" THEN 0
                                  ELSE Len(memory) - Pops(t.action) + Pushes(t.action)
      BY <3>1, <3>2, <3>3, ProcessMoves
    <3>5. Exact(current_state, symbol, t.action, t.next)
      BY <3>2, <3>3, TransitionExact
    <3>6. /\ Len(memory) \in Nat /\ base \in Nat
          /\ Pops(t.action) \in Nat /\ Pushes(t.action) \in Nat
          /\ Depth(current_state) \in Nat /\ (current_state = "INIT" => Depth(current_state) = 0)
      BY DEF IInv, Stack, Counts, Pops, Pushes, Depth
    <3>7. CASE memory' = memory /\ current_state' = current_state
      <4>1. current_state # "INIT" => base' = base
        BY <3>4
      <4> QED BY <4>1, <3>7 DEF Balanced
    <3>8. CASE /\ current_state' = t.next
               /\ Len(memory') = IF t.action = "Log" THEN 0
                                 ELSE Len(memory) - Pops(t.action) + Pushes(t.action)
      <4> SUFFICES ASSUME t.next # "INIT"
                   PROVE  Len(memory') = base' + Depth(t.next)
        BY <3>8 DEF Balanced
      <4>1. /\ Depth(t.next) = Depth(current_state) - Pops(t.action) + Pushes(t.action)
            /\ Len(memory') = Len(memory) - Pops(t.action) + Pushes(t.action)
        BY <3>5, <3>8 DEF Exact
      <4>2. Len(memory) = base' + Depth(current_state)
        BY <3>4, <3>6 DEF Balanced
      <4>3. base' \in Nat
        BY <3>4, <3>6
      <4> QED BY <4>1, <4>2, <4>3, <3>6
    <3> QED BY <3>4, <3>7, <3>8
  <2>2. CASE Method
    BY <2>2 DEF Method, Balanced
  <2>3. CASE UNCHANGED vars
    BY <2>3 DEF vars, Balanced
  <2> QED BY <2>1, <2>2, <2>3 DEF Next
<1> QED BY <1>1, <1>2, Invariance, PTL DEF Spec

\* A sequence that moves the cursor, erases or sets the scroll region pops exactly
\* the numbers it has pushed (ANSI.py: DoBack, DoHome, DoErase, DoScrollRegion, ...),
\* or the stack is emptied by DoLog: no number is left for a later sequence to find.
THEOREM StackIsBalanced == Spec => StackBalanced
<1>1. ASSUME IInv, Balanced, [Next]_vars
      PROVE  [(current_state \in {"NUMBER_1", "NUMBER_2"} /\ current_state' = "INIT") =>
                \A symbol \in {"A", "B", "C", "D", "J", "H", "r"} :
                  process(symbol) => Len(memory') \in {0, base}]_vars
  <2> SUFFICES ASSUME current_state \in {"NUMBER_1", "NUMBER_2"}, current_state' = "INIT",
                      NEW symbol \in {"A", "B", "C", "D", "J", "H", "r"}, process(symbol)
               PROVE  Len(memory') \in {0, base}
    OBVIOUS
  <2>1. symbol \in Symbol /\ current_state \in StateNames
    BY DEF Symbol, Printable, Letters, StateNames
  <2>2. PICK t : t = get_transition[current_state][symbol]
    OBVIOUS
  <2>3. /\ current_state' = t.next
        /\ Len(memory') = IF t.action = "Log" THEN 0
                          ELSE Len(memory) - Pops(t.action) + Pushes(t.action)
    BY <1>1, <2>1, <2>2, ProcessMoves
  <2>4. \/ t.action = "Log"
        \/ Pops(t.action) = Depth(current_state) /\ Pushes(t.action) = 0
    BY <2>1, <2>2, <2>3, TransitionExact DEF Exact
  <2>5. Len(memory) = base + Depth(current_state)
    BY <1>1 DEF Balanced
  <2>6. base \in Nat /\ Depth(current_state) \in Nat
    BY <1>1 DEF IInv, Counts, Depth
  <2> QED BY <2>3, <2>4, <2>5, <2>6
<1> QED BY <1>1, Invariance, BalancedInvariance, PTL DEF Spec, StackBalanced
-----------------------------------------------------------------------------
(* What the methods change on the screen.                                  *)

Region(s) == s.scroll_row_start .. s.scroll_row_end

SameRegion(s, t) == /\ t.scroll_row_start = s.scroll_row_start
                    /\ t.scroll_row_end = s.scroll_row_end

\* The rows that are not of the scroll region and do not have the cursor, before or
\* after, stay.
OthersStay(s, t) ==
  \A r \in 1 .. Rows : t.w[r] = s.w[r] \/ r \in Region(s) \/ r \in {s.cur_r, t.cur_r}

\* The cursor methods change nothing but the cursor.
LEMMA CursorLeaves ==
  ASSUME NEW s, Whole(s), NEW n \in Int
  PROVE  \A t \in {cursor_back(s, n), cursor_down(s, n), cursor_forward(s, n), cursor_up(s, n),
                   cr(s), cursor_restore_attrs(s), cursor_save_attrs(s)} :
           t.w = s.w /\ SameRegion(s, t)
<1>1. \A r, c : cursor_home(s, r, c).w = s.w /\ SameRegion(s, cursor_home(s, r, c))
  BY DEF cursor_home, SameRegion, Whole, Good, Screen
<1>2. cursor_save_attrs(s).w = s.w /\ SameRegion(s, cursor_save_attrs(s))
  BY DEF cursor_save_attrs, SameRegion, Whole, Good, Screen
<1> QED BY <1>1, <1>2
        DEF cursor_back, cursor_down, cursor_forward, cursor_up, cr, cursor_restore_attrs

\* A scroll moves the rows of its region.
LEMMA ScrollLeaves ==
  ASSUME NEW s, Whole(s)
  PROVE  \A t \in {scroll_up(s), scroll_down(s)} :
           /\ t.cur_r = s.cur_r /\ SameRegion(s, t)
           /\ \A r \in 1 .. Rows : r \notin Region(s) => t.w[r] = s.w[r]
<1> DEFINE b == s.scroll_row_start - 1
           e == s.scroll_row_end - 1
           up == Replace(s.w, b, e, b + 1, e + 1)
           down == Replace(s.w, b + 1, e + 1, b, e)
<1>1. /\ s.w \in Seq(RowOf) /\ b \in Nat /\ e \in Nat /\ e < Len(s.w) /\ Len(s.w) = Rows
      /\ b + 1 = s.scroll_row_start /\ e + 1 = s.scroll_row_end
  BY SizeAssumption DEF Whole, Good, Screen
<1>2. \A r \in 1 .. Len(s.w) : r \notin b + 1 .. e + 1 => up[r] = s.w[r] /\ down[r] = s.w[r]
  <2> HIDE DEF b, e
  <2> QED BY <1>1, ReplaceKeeps DEF up, down
<1>3. scroll_up(s) = [s EXCEPT !.w = up] /\ scroll_down(s) = [s EXCEPT !.w = down]
  BY DEF scroll_up, scroll_down
<1> HIDE DEF up, down, b, e
<1>4. \A t \in {scroll_up(s), scroll_down(s)} :
        t.cur_r = s.cur_r /\ SameRegion(s, t) /\ (t.w = up \/ t.w = down)
  BY <1>3 DEF SameRegion, Whole, Good, Screen
<1> QED BY <1>1, <1>2, <1>4 DEF Region

\* What is erased or printed in a row stays in the row.
LEMMA FillLeaves ==
  ASSUME NEW s, Whole(s), NEW row \in 1 .. Rows, NEW cs, NEW ce, NEW ch
  PROVE  LET t == fill_region(s, row, cs, row, ce, ch)
         IN  /\ t.cur_r = s.cur_r /\ SameRegion(s, t)
             /\ \A r \in 1 .. Rows : r # row => t.w[r] = s.w[r]
<1> DEFINE left == Min({Col(cs), Col(ce)})
           right == Max({Col(cs), Col(ce)})
           w == [r \in DOMAIN s.w |-> [c \in 1 .. Cols |->
                  IF r \in row .. row /\ c \in left .. right THEN ch ELSE s.w[r][c]]]
           t == fill_region(s, row, cs, row, ce, ch)
<1>1. s.w \in Seq(RowOf) /\ Len(s.w) = Rows /\ DOMAIN s.w = 1 .. Rows
  BY DEF Whole, Good, Screen
<1>2. Row(row) = row /\ row \in Int
  BY SizeAssumption DEF Row, constrain
<1>3. Min({row, row}) = row /\ Max({row, row}) = row
  BY <1>2, MinMaxOfTwo
<1>4. ~s.lost
  BY WholeIsThere
<1>5. t = [s EXCEPT !.w = w, !.lost = s.lost \/ row > Len(s.w)]
  BY <1>2, <1>3, <1>4 DEF fill_region
<1>6. ASSUME NEW r \in 1 .. Rows, r # row
      PROVE  w[r] = s.w[r]
  <2>1. s.w[r] \in RowOf
    BY <1>1
  <2>2. r \notin row .. row
    BY <1>2, <1>6, SizeAssumption
  <2>3. w[r] = [c \in 1 .. Cols |-> s.w[r][c]]
    BY <1>1, <2>2
  <2> QED BY <2>1, <2>3 DEF RowOf
<1> HIDE DEF w
<1>7. t.w = w /\ t.cur_r = s.cur_r /\ SameRegion(s, t)
  BY <1>5 DEF SameRegion, Whole, Good, Screen
<1> QED BY <1>6, <1>7

\* The cursor is on a row.
LEMMA CursorRow ==
  ASSUME NEW s, Whole(s)
  PROVE  s.cur_r \in 1 .. Rows
BY DEF Whole, Good, Screen

\* The scroll at the bottom of the screen, with the row of the cursor emptied.
LEMMA NewLastRow ==
  ASSUME NEW s, Whole(s)
  PROVE  \A t \in {erase_line(scroll_up(s)), erase_line(cr(scroll_up(s)))} :
           \A r \in 1 .. Rows : t.w[r] = s.w[r] \/ r \in Region(s) \/ r = t.cur_r
<1> DEFINE u == scroll_up(s)
<1>1. /\ Whole(u) /\ SameRegion(s, u)
      /\ \A r \in 1 .. Rows : r \notin Region(s) => u.w[r] = s.w[r]
  BY ScrollKeepsRows, ScrollLeaves
<1> HIDE DEF u
<1>2. Whole(cr(u)) /\ cr(u).w = u.w
  BY <1>1, CursorKeepsRows, CursorLeaves
<1>3. ASSUME NEW v, Whole(v), v.w = u.w
      PROVE  \A r \in 1 .. Rows : \/ erase_line(v).w[r] = s.w[r]
                                  \/ r \in Region(s) \/ r = erase_line(v).cur_r
  <2>1. v.cur_r \in 1 .. Rows
    BY <1>3, CursorRow
  <2>2. /\ erase_line(v).cur_r = v.cur_r
        /\ \A r \in 1 .. Rows : r # v.cur_r => erase_line(v).w[r] = v.w[r]
    BY <1>3, <2>1, FillLeaves DEF erase_line
  <2> QED BY <1>1, <1>3, <2>2
<1> QED BY <1>1, <1>2, <1>3 DEF u

\* A new line.
LEMMA LineLeaves ==
  ASSUME NEW s, Whole(s)
  PROVE  OthersStay(s, crlf(s)) /\ OthersStay(s, cursor_up_reverse(s))
<1>1. OthersStay(s, crlf(s))
  <2> DEFINE c == cr(s)
             d == cursor_down(c, 1)
  <2>1. Whole(c) /\ c.w = s.w /\ SameRegion(s, c)
    BY CursorKeepsRows, CursorLeaves
  <2> HIDE DEF c
  <2>2. Whole(d) /\ d.w = s.w /\ Region(d) = Region(s)
    BY <2>1, CursorKeepsRows, CursorLeaves DEF SameRegion, Region
  <2>3. crlf(s) = IF d.cur_r = c.cur_r THEN erase_line(scroll_up(d)) ELSE d
    BY DEF crlf, lf, c
  <2> HIDE DEF d
  <2> QED BY <2>2, <2>3, NewLastRow DEF OthersStay
<1>2. OthersStay(s, cursor_up_reverse(s))
  <2> DEFINE u == cursor_up(s, 1)
  <2>1. Whole(u) /\ u.w = s.w /\ Region(u) = Region(s)
    BY CursorKeepsRows, CursorLeaves DEF SameRegion, Region
  <2>2. cursor_up_reverse(s) = IF u.cur_r = s.cur_r THEN scroll_up(u) ELSE u
    BY DEF cursor_up_reverse
  <2> HIDE DEF u
  <2> QED BY <2>1, <2>2, ScrollLeaves DEF OthersStay
<1> QED BY <1>1, <1>2

\* Printing a character.
LEMMA WriteLeaves ==
  ASSUME NEW s, Whole(s), NEW ch \in Text \cup Control
  PROVE  OthersStay(s, write_ch(s, ch))
<1> DEFINE back == cursor_back(s, 1)
           put  == put_abs(s, s.cur_r, s.cur_c, ch)
           next == cursor_forward(put, 1)
           down == cursor_down(next, 1)
<1>1. CASE ch = "LF"
  <2>1. write_ch(s, ch) = crlf(s)
    BY <1>1 DEF write_ch, Printable, Control, Digit, Letters, Marks
  <2> QED BY <2>1, LineLeaves
<1>2. CASE ch = "BS"
  <2>1. Whole(back) /\ back.w = s.w
    BY CursorKeepsRows, CursorLeaves
  <2> HIDE DEF back
  <2>2. back.cur_r \in 1 .. Rows
    BY <2>1, CursorRow
  <2> DEFINE t == put_abs(back, back.cur_r, back.cur_c, SPACE)
  <2>3. t.cur_r = back.cur_r /\ \A r \in 1 .. Rows : r # back.cur_r => t.w[r] = back.w[r]
    BY <2>1, <2>2, FillLeaves DEF put_abs
  <2>4. write_ch(s, ch) = t
    BY <1>2 DEF write_ch, Printable, Control, Digit, Letters, Marks, back
  <2> HIDE DEF t
  <2> QED BY <2>1, <2>3, <2>4 DEF OthersStay
<1>3. CASE ch \in Control \ {"LF", "BS"}
  <2>1. write_ch(s, ch) = s
    BY <1>3 DEF write_ch, Printable, Control, Digit, Letters, Marks
  <2> QED BY <2>1 DEF OthersStay
<1>4. CASE ch \notin Control
  <2>1. ch \in Printable /\ ch \in Char
    BY <1>4, InputAssumption DEF Char
  <2>2. s.cur_r \in 1 .. Rows /\ s.cur_r \in Int /\ s.cur_c \in Int
    BY CursorRow, WholeIsThere
  <2>3. /\ Whole(put) /\ SameRegion(s, put)
        /\ \A r \in 1 .. Rows : r # s.cur_r => put.w[r] = s.w[r]
    BY <2>1, <2>2, FillKeepsRows, FillLeaves DEF put_abs
  <2> HIDE DEF put
  <2>4. Whole(next) /\ next.w = put.w /\ SameRegion(put, next)
    BY <2>3, CursorKeepsRows, CursorLeaves
  <2> HIDE DEF next
  <2>5. Whole(down) /\ down.w = put.w /\ SameRegion(next, down)
    BY <2>4, CursorKeepsRows, CursorLeaves
  <2> HIDE DEF down
  <2>6. write_ch(s, ch) = IF put.lost THEN put
                          ELSE IF next.cur_c # s.cur_c THEN next
                          ELSE IF down.cur_r # s.cur_r THEN cr(down)
                          ELSE erase_line(cr(scroll_up(down)))
    BY <2>1, <1>4, Zenon DEF write_ch, Control, put, next, down
  <2>7. cr(down).w = put.w
    BY <2>5, CursorLeaves
  <2>8. Region(down) = Region(s)
    BY <2>3, <2>4, <2>5 DEF SameRegion, Region
  <2> DEFINE last == erase_line(cr(scroll_up(down)))
  <2>9. \A r \in 1 .. Rows : last.w[r] = down.w[r] \/ r \in Region(s) \/ r = last.cur_r
    BY <2>5, <2>8, NewLastRow
  <2> HIDE DEF last
  <2>10. \A t \in {put, next, cr(down), last} : OthersStay(s, t)
    BY <2>3, <2>4, <2>5, <2>7, <2>9 DEF OthersStay
  <2> QED BY <2>6, <2>10 DEF last
<1> QED BY <1>1, <1>2, <1>3, <1>4

\* The actions that leave the screen's rows alone.
Quiet == {"None", "Log", "StartNumber", "BuildNumber", "DoBackOne", "DoBack", "DoDownOne", "DoDown",
          "DoForwardOne", "DoForward", "DoUpOne", "DoUp", "DoHomeOrigin", "DoEnableScroll",
          "DoMode", "DoEraseLine", "DoCursorSave", "DoCursorRestore"}

\* What a state's transitions draw.
Draws(state, action) ==
  /\ state = "INIT" => action \in {"Emit"} \cup Quiet
  /\ state = "ESC" => action \in {"DoUpReverse"} \cup Quiet
  /\ state = "ELB" => action \in {"DoEraseDown", "DoEraseEndOfLine"} \cup Quiet
  /\ state = "NUMBER_1" => action \in {"DoErase"} \cup Quiet

\* What get_transition returns draws no more than that.
LEMMA TransitionDraws ==
  ASSUME NEW symbol \in Symbol, NEW state \in StateNames
  PROVE  Draws(state, get_transition[state][symbol].action)
<1>1. \A t \in Transitions : Draws(t[1], t[3])
  BY DEF Transitions, Draws, Quiet
<1>2. \A t \in AnyTransitions : Draws(t[1], t[2])
  BY DEF AnyTransitions, Draws, Quiet
<1>3. Draws(state, "Log")
  BY DEF Draws, Quiet
<1> QED BY <1>1, <1>2, <1>3, TransitionFound

\* Moving the cursor, setting the region and reading a number draw nothing.
LEMMA QuietIsQuiet ==
  ASSUME NEW s, Good(s), NEW action \in Quiet, NEW symbol, NEW a, NEW b
  PROVE  Drawn(action, s, symbol, a, b).w = s.w
<1>1. /\ \A r, c : cursor_home(s, r, c).w = s.w
      /\ cursor_save_attrs(s).w = s.w /\ scroll_screen(s).w = s.w
  BY DEF cursor_home, cursor_save_attrs, scroll_screen, Good, Screen
<1>2. /\ \A n : /\ cursor_back(s, n).w = s.w /\ cursor_down(s, n).w = s.w
                /\ cursor_forward(s, n).w = s.w /\ cursor_up(s, n).w = s.w
      /\ cursor_restore_attrs(s).w = s.w
  BY <1>1 DEF cursor_back, cursor_down, cursor_forward, cursor_up, cursor_restore_attrs
<1> QED BY <1>1, <1>2 DEF Drawn, Quiet

\* What a written character does to the screen.
LEMMA ProcessDraws ==
  ASSUME IInv, Write
  PROVE  \E symbol \in Symbol :
           /\ current_state = "INIT" => symbol \in Text \cup Control
           /\ LET t == get_transition[current_state][symbol]
                  n == Len(memory)
                  a == IF n >= 1 THEN memory[n] ELSE 0
                  b == IF n >= 2 THEN memory[n - 1] ELSE 0
              IN  /\ a \in Nat /\ b \in Nat
                  /\ Draws(current_state, t.action)
                  /\ screen' \in {screen, Drawn(t.action, screen, symbol, a, b)}
<1>1. PICK symbol \in Input \cup Text :
        /\ current_state = "INIT" => symbol \in Text \cup Control
        /\ process(symbol)
  BY DEF Write
<1>2. symbol \in Symbol /\ current_state \in StateNames
  BY InputAssumption DEF Symbol, IInv, Stack
<1>3. Draws(current_state, get_transition[current_state][symbol].action)
  BY <1>2, TransitionDraws
<1> DEFINE a == IF Len(memory) >= 1 THEN memory[Len(memory)] ELSE 0
           b == IF Len(memory) >= 2 THEN memory[Len(memory) - 1] ELSE 0
<1>4. a \in Nat /\ b \in Nat
  BY BoundAssumption DEF IInv, Stack
<1>5. screen' \in {screen, Drawn(get_transition[current_state][symbol].action, screen, symbol, a, b)}
  BY <1>1 DEF process
<1> HIDE DEF a, b
<1> QED BY <1>1, <1>2, <1>3, <1>4, <1>5 DEF a, b

\* insert() works in the row of the cursor.
LEMMA InsertLeaves ==
  ASSUME NEW s, Whole(s)
  PROVE  \A r \in 1 .. Rows : r # s.cur_r => insert(s, "x").w[r] = s.w[r]
<1>1. s.w \in Seq(RowOf) /\ Len(s.w) = Rows /\ s.cur_r \in 1 .. Rows
  BY DEF Whole, Good, Screen
<1> QED BY <1>1, SizeAssumption DEF insert, Whole, Good, Screen

\* A character that scrolls the screen keeps to the scroll region (screen.py:
\* scroll_up, ANSI.py: write_ch and do_up_reverse), but for the rows of the cursor.
THEOREM OutsideIsKept == Spec => OutsideKept
<1>1. ASSUME IInv, Next, Whole(screen), current_state \in {"INIT", "ESC"}
      PROVE  OthersStay(screen, screen')
  <2>1. CASE Write
    <3>1. PICK symbol, action, a, b :
            /\ current_state = "INIT" => symbol \in Text \cup Control
            /\ Draws(current_state, action)
            /\ screen' \in {screen, Drawn(action, screen, symbol, a, b)}
      BY <1>1, <2>1, ProcessDraws, Zenon
    <3>2. OthersStay(screen, screen)
      BY DEF OthersStay
    <3>3. CASE action \in Quiet
      BY <1>1, <3>1, <3>2, <3>3, QuietIsQuiet DEF OthersStay, Whole
    <3>4. CASE action = "Emit" /\ current_state = "INIT"
      <4>1. Drawn(action, screen, symbol, a, b) = write_ch(screen, symbol)
        BY <3>4 DEF Drawn
      <4> QED BY <1>1, <3>1, <3>2, <3>4, <4>1, WriteLeaves
    <3>5. CASE action = "DoUpReverse"
      <4>1. Drawn(action, screen, symbol, a, b) = cursor_up_reverse(screen)
        BY <3>5 DEF Drawn
      <4> QED BY <1>1, <3>1, <3>2, <4>1, LineLeaves
    <3> QED BY <1>1, <3>1, <3>3, <3>4, <3>5 DEF Draws
  <2>2. CASE Method
    <3>1. screen' \in {scroll_down(screen), insert(screen, "x"), erase_start_of_line(screen)}
      BY <2>2 DEF Method
    <3>2. screen.cur_r \in 1 .. Rows
      BY <1>1, CursorRow
    <3>3. \A r \in 1 .. Rows : r # screen.cur_r =>
            erase_start_of_line(screen).w[r] = screen.w[r]
      BY <1>1, <3>2, FillLeaves DEF erase_start_of_line
    <3> QED BY <1>1, <3>1, <3>3, ScrollLeaves, InsertLeaves DEF OthersStay
  <2> QED BY <1>1, <2>1, <2>2 DEF Next
<1>2. ASSUME IInv, [Next]_vars
      PROVE  [(screen'.w # screen.w /\ Len(screen.w) = Rows /\ screen.scroll_row_end # 0
                 /\ current_state \in {"INIT", "ESC"} /\ current_state' = "INIT"
                 /\ memory' = memory) =>
                \A r \in DOMAIN screen.w :
                  screen'.w[r] = screen.w[r] \/ InRegion(r)
                    \/ r \in {screen.cur_r, screen'.cur_r}]_vars
  <2> SUFFICES ASSUME screen'.w # screen.w, Len(screen.w) = Rows, screen.scroll_row_end # 0,
                      current_state \in {"INIT", "ESC"}, NEW r \in DOMAIN screen.w
               PROVE  screen'.w[r] = screen.w[r] \/ InRegion(r)
                        \/ r \in {screen.cur_r, screen'.cur_r}
    BY Zenon
  <2>1. Whole(screen) /\ DOMAIN screen.w = 1 .. Rows
    BY <1>2 DEF IInv, Whole, Good, Screen
  <2>2. OthersStay(screen, screen')
    BY <1>1, <1>2, <2>1 DEF vars
  <2> QED BY <2>1, <2>2 DEF OthersStay, Region, InRegion
<1> QED BY <1>2, Invariance, PTL DEF Spec, OutsideKept

\* The numbers from one to the other, in either order.
Between(x, y) == x .. y \cup y .. x

\* Erasing touches the cells of its region.
LEMMA FillCells ==
  ASSUME NEW s, Good(s), NEW rs \in Int, NEW cs \in Int, NEW re \in Int, NEW ce \in Int,
         NEW r \in DOMAIN s.w, NEW c \in 1 .. Cols,
         fill_region(s, rs, cs, re, ce, SPACE).w[r][c] # s.w[r][c]
  PROVE  r \in Between(Row(rs), Row(re)) /\ c \in Between(Col(cs), Col(ce))
<1> DEFINE top == Min({Row(rs), Row(re)})  bottom == Max({Row(rs), Row(re)})
           left == Min({Col(cs), Col(ce)}) right == Max({Col(cs), Col(ce)})
           w == [i \in DOMAIN s.w |-> [j \in 1 .. Cols |->
                  IF i \in top .. bottom /\ j \in left .. right THEN SPACE ELSE s.w[i][j]]]
           t == fill_region(s, rs, cs, re, ce, SPACE)
<1>1. ~s.lost /\ t = [s EXCEPT !.w = w, !.lost = @ \/ bottom > Len(s.w)]
  BY DEF fill_region
<1>2. t.w = w
  <2> HIDE DEF w, bottom
  <2> QED BY <1>1 DEF Good, Screen
<1>3. r \in top .. bottom /\ c \in left .. right
  <2>1. w[r][c] # s.w[r][c]
    BY <1>2
  <2> QED BY <2>1
<1>4. {Row(rs), Row(re), Col(cs), Col(ce)} \subseteq Int
  BY OnScreen, SizeAssumption
<1>5. top \in {Row(rs), Row(re)} /\ bottom \in {Row(rs), Row(re)}
  BY <1>4, MinMaxOfTwo
<1>6. left \in {Col(cs), Col(ce)} /\ right \in {Col(cs), Col(ce)}
  BY <1>4, MinMaxOfTwo
<1> HIDE DEF top, bottom, left, right
<1>7. r \in Int /\ c \in Int
  BY <1>3, <1>4, <1>5, <1>6
<1> QED BY <1>3, <1>4, <1>5, <1>6, <1>7 DEF Between

\* Erasing does not move the cursor, nor change which rows there are.
LEMMA FillShape ==
  ASSUME NEW s, Good(s), NEW rs \in Int, NEW cs \in Int, NEW re \in Int, NEW ce \in Int
  PROVE  LET t == fill_region(s, rs, cs, re, ce, SPACE)
         IN  DOMAIN t.w = DOMAIN s.w /\ t.cur_r = s.cur_r /\ t.cur_c = s.cur_c
BY DEF fill_region, Good, Screen

\* The cursor of a good screen is on the screen.
LEMMA CursorPlace ==
  ASSUME NEW s, Good(s)
  PROVE  /\ s.cur_r \in 1 .. Rows /\ s.cur_c \in 1 .. Cols
         /\ Row(s.cur_r) = s.cur_r /\ Col(s.cur_c) = s.cur_c
         /\ Row(Rows) = Rows /\ Row(1) = 1 /\ Col(1) = 1 /\ Col(Cols) = Cols
         /\ {Rows, Cols, s.cur_r, s.cur_c, s.cur_r + 1, s.cur_r - 1} \subseteq Int
BY SizeAssumption DEF Good, Screen, Row, Col, constrain

\* What the methods that erase change.
LEMMA EraseCells ==
  ASSUME NEW s, Good(s), NEW r \in DOMAIN s.w, NEW c \in 1 .. Cols
  PROVE  /\ erase_end_of_line(s).w[r][c] # s.w[r][c] => r = s.cur_r /\ c >= s.cur_c
         /\ erase_start_of_line(s).w[r][c] # s.w[r][c] => r = s.cur_r /\ c <= s.cur_c
         /\ erase_down(s).w[r][c] # s.w[r][c] =>
              IF s.cur_r = Rows THEN r = Rows
              ELSE r > s.cur_r \/ (r = s.cur_r /\ c >= s.cur_c)
         /\ erase_up(s).w[r][c] # s.w[r][c] =>
              IF s.cur_r = 1 THEN r = 1
              ELSE r < s.cur_r \/ (r = s.cur_r /\ c <= s.cur_c)
<1> DEFINE tail == erase_end_of_line(s)
           head == erase_start_of_line(s)
<1>1. /\ s.cur_r \in 1 .. Rows /\ s.cur_c \in 1 .. Cols
      /\ Row(s.cur_r) = s.cur_r /\ Col(s.cur_c) = s.cur_c
      /\ Row(Rows) = Rows /\ Row(1) = 1 /\ Col(1) = 1 /\ Col(Cols) = Cols
      /\ {Rows, Cols, s.cur_r, s.cur_c, s.cur_r + 1, s.cur_r - 1} \subseteq Int
  BY CursorPlace
<1>2. Rows \in Nat \ {0} /\ Cols \in Nat \ {0} /\ r \in Int /\ c \in Int
  BY SizeAssumption DEF Good, Screen
<1>3. tail.w[r][c] # s.w[r][c] => r = s.cur_r /\ c >= s.cur_c
  <2> SUFFICES ASSUME tail.w[r][c] # s.w[r][c] PROVE r = s.cur_r /\ c >= s.cur_c
    OBVIOUS
  <2>1. r \in Between(s.cur_r, s.cur_r) /\ c \in Between(s.cur_c, Cols)
    BY <1>1, FillCells DEF erase_end_of_line
  <2> QED BY <1>1, <1>2, <2>1 DEF Between
<1>4. head.w[r][c] # s.w[r][c] => r = s.cur_r /\ c <= s.cur_c
  <2> SUFFICES ASSUME head.w[r][c] # s.w[r][c] PROVE r = s.cur_r /\ c <= s.cur_c
    OBVIOUS
  <2>1. r \in Between(s.cur_r, s.cur_r) /\ c \in Between(1, s.cur_c)
    BY <1>1, FillCells DEF erase_start_of_line
  <2> QED BY <1>1, <1>2, <2>1 DEF Between
<1>5. /\ Good(tail) /\ DOMAIN tail.w = DOMAIN s.w
      /\ Good(head) /\ DOMAIN head.w = DOMAIN s.w
  BY <1>1, EraseIsGood, FillShape DEF erase_end_of_line, erase_start_of_line
<1>6. /\ erase_down(s) = fill_region(tail, s.cur_r + 1, 1, Rows, Cols, SPACE)
      /\ erase_up(s) = fill_region(head, s.cur_r - 1, 1, 1, Cols, SPACE)
  BY DEF erase_down, erase_up
<1> HIDE DEF tail, head
<1>7. /\ s.cur_r = Rows => Row(s.cur_r + 1) = Rows
      /\ s.cur_r # Rows => Row(s.cur_r + 1) = s.cur_r + 1
      /\ s.cur_r = 1 => Row(s.cur_r - 1) = 1
      /\ s.cur_r # 1 => Row(s.cur_r - 1) = s.cur_r - 1
  BY <1>1, <1>2 DEF Row, constrain
<1>8. ASSUME erase_down(s).w[r][c] # s.w[r][c]
      PROVE  IF s.cur_r = Rows THEN r = Rows
             ELSE r > s.cur_r \/ (r = s.cur_r /\ c >= s.cur_c)
  <2>1. CASE tail.w[r][c] # s.w[r][c]
    BY <1>3, <2>1
  <2>2. CASE erase_down(s).w[r][c] # tail.w[r][c]
    <3>1. r \in Between(Row(s.cur_r + 1), Rows)
      BY <1>1, <1>5, <1>6, <2>2, FillCells
    <3> QED BY <1>1, <1>2, <1>7, <3>1 DEF Between
  <2> QED BY <1>8, <2>1, <2>2
<1>9. ASSUME erase_up(s).w[r][c] # s.w[r][c]
      PROVE  IF s.cur_r = 1 THEN r = 1
             ELSE r < s.cur_r \/ (r = s.cur_r /\ c <= s.cur_c)
  <2>1. CASE head.w[r][c] # s.w[r][c]
    BY <1>4, <2>1
  <2>2. CASE erase_up(s).w[r][c] # head.w[r][c]
    <3>1. r \in Between(Row(s.cur_r - 1), 1)
      BY <1>1, <1>5, <1>6, <2>2, FillCells
    <3> QED BY <1>1, <1>2, <1>7, <3>1 DEF Between
  <2> QED BY <1>9, <2>1, <2>2
<1> QED BY <1>3, <1>4, <1>8, <1>9 DEF tail, head

\* Erasing from the cursor down leaves what is before the cursor, erasing up to it what
\* is behind it (screen.py: erase_down, erase_up), unless the row that is to be erased
\* next to the cursor's is not there: then constrain makes it the cursor's own.
THEOREM EraseIsKept == Spec => EraseKeeps
<1>1. ASSUME IInv, Write, current_state \in {"ELB", "NUMBER_1"},
             NEW r \in DOMAIN screen.w, NEW c \in 1 .. Cols, Blanked(r, c)
      PROVE  LET number == IF current_state = "ELB" THEN 0 ELSE Last(memory)
             IN  /\ number = 0 => IF screen.cur_r = Rows THEN r = Rows
                                  ELSE r > screen.cur_r \/ (r = screen.cur_r /\ c >= screen.cur_c)
                 /\ number = 1 => IF screen.cur_r = 1 THEN r = 1
                                  ELSE r < screen.cur_r \/ (r = screen.cur_r /\ c <= screen.cur_c)
  <2> DEFINE a == IF Len(memory) >= 1 THEN memory[Len(memory)] ELSE 0
             number == IF current_state = "ELB" THEN 0 ELSE Last(memory)
             down == IF screen.cur_r = Rows THEN r = Rows
                     ELSE r > screen.cur_r \/ (r = screen.cur_r /\ c >= screen.cur_c)
             up == IF screen.cur_r = 1 THEN r = 1
                   ELSE r < screen.cur_r \/ (r = screen.cur_r /\ c <= screen.cur_c)
  <2>1. PICK symbol, action, b :
          /\ Draws(current_state, action)
          /\ screen' \in {screen, Drawn(action, screen, symbol, a, b)}
    BY <1>1, ProcessDraws, ZenonT(40)
  <2>2. a \in Nat /\ (current_state = "NUMBER_1" => a = Last(memory))
    <3>1. memory \in Seq(0 .. MaxNumber) /\ Depth(current_state) <= Len(memory)
      BY <1>1 DEF IInv, Stack
    <3>2. current_state = "NUMBER_1" => Len(memory) >= 1
      BY <3>1 DEF Depth
    <3> QED BY <3>1, <3>2, BoundAssumption DEF Last
  <2> HIDE DEF a
  <2>3. Good(screen) /\ screen'.w[r][c] # screen.w[r][c]
    BY <1>1 DEF IInv, Blanked
  <2>4. screen' = Drawn(action, screen, symbol, a, b) /\ action \notin Quiet
    <3>1. screen' = Drawn(action, screen, symbol, a, b)
      BY <2>1, <2>3
    <3>2. action \in Quiet => screen'.w = screen.w
      BY <2>3, <3>1, QuietIsQuiet
    <3> QED BY <2>3, <3>1, <3>2
  <2>5. CASE current_state = "ELB"
    <3>1. screen' \in {erase_down(screen), erase_end_of_line(screen)}
      BY <2>1, <2>4, <2>5 DEF Draws, Drawn
    <3>2. number = 0
      BY <2>5
    <3>3. down
      <4>1. CASE screen' = erase_down(screen)
        BY <2>3, <4>1, EraseCells
      <4>2. CASE screen' = erase_end_of_line(screen)
        BY <2>3, <4>2, EraseCells
      <4> QED BY <3>1, <4>1, <4>2
    <3> HIDE DEF number, down, up
    <3> QED BY <3>2, <3>3 DEF number, down, up
  <2>6. CASE current_state = "NUMBER_1"
    <3>1. action = "DoErase"
      BY <2>1, <2>4, <2>6 DEF Draws
    <3>2. screen' = Erase(screen, a)
      BY <2>4, <3>1 DEF Drawn
    <3>3. number = a
      BY <2>2, <2>6
    <3>4. a = 0 => down
      BY <2>3, <3>2, EraseCells DEF Erase
    <3>5. a = 1 => up
      BY <2>3, <3>2, EraseCells DEF Erase
    <3> HIDE DEF number, down, up
    <3> QED BY <3>3, <3>4, <3>5 DEF number, down, up
  <2> QED BY <1>1, <2>5, <2>6
<1>2. ASSUME IInv, [Next]_vars
      PROVE  [LET number == IF current_state = "ELB" THEN 0 ELSE Last(memory)
                  before(r, c) == r < screen.cur_r \/ (r = screen.cur_r /\ c < screen.cur_c)
                  after(r, c)  == r > screen.cur_r \/ (r = screen.cur_r /\ c > screen.cur_c)
                  cells == {p \in (DOMAIN screen.w) \X (1 .. Cols) : Blanked(p[1], p[2])}
              IN  (current_state \in {"ELB", "NUMBER_1"} /\ current_state' = "INIT" /\ cells # {}) =>
                    /\ number = 0 => \/ \A p \in cells : ~before(p[1], p[2])
                                     \/ screen.cur_r = Rows /\ \A p \in cells : p[1] = Rows
                    /\ number = 1 => \/ \A p \in cells : ~after(p[1], p[2])
                                     \/ screen.cur_r = 1 /\ \A p \in cells : p[1] = 1]_vars
  <2> DEFINE number == IF current_state = "ELB" THEN 0 ELSE Last(memory)
             before(r, c) == r < screen.cur_r \/ (r = screen.cur_r /\ c < screen.cur_c)
             after(r, c)  == r > screen.cur_r \/ (r = screen.cur_r /\ c > screen.cur_c)
             cells == {p \in (DOMAIN screen.w) \X (1 .. Cols) : Blanked(p[1], p[2])}
  <2>1. ASSUME current_state \in {"ELB", "NUMBER_1"}, current_state' = "INIT"
        PROVE  Write
    BY <1>2, <2>1 DEF vars, Next, Method
  <2>2. ASSUME Write, current_state \in {"ELB", "NUMBER_1"}, NEW p \in cells
        PROVE  /\ number = 0 => IF screen.cur_r = Rows THEN p[1] = Rows ELSE ~before(p[1], p[2])
               /\ number = 1 => IF screen.cur_r = 1 THEN p[1] = 1 ELSE ~after(p[1], p[2])
    <3> DEFINE r == p[1]
               c == p[2]
    <3>1. r \in DOMAIN screen.w /\ c \in 1 .. Cols /\ Blanked(r, c)
      OBVIOUS
    <3>2. /\ number = 0 => IF screen.cur_r = Rows THEN r = Rows
                           ELSE r > screen.cur_r \/ (r = screen.cur_r /\ c >= screen.cur_c)
          /\ number = 1 => IF screen.cur_r = 1 THEN r = 1
                           ELSE r < screen.cur_r \/ (r = screen.cur_r /\ c <= screen.cur_c)
      BY <1>1, <1>2, <2>2, <3>1
    <3>3. r \in Int /\ c \in Int /\ screen.cur_r \in Int /\ screen.cur_c \in Int
      BY <1>2, <3>1, SizeAssumption DEF IInv, Good, Screen
    <3> HIDE DEF r, c, number
    <3>4. /\ number = 0 => IF screen.cur_r = Rows THEN r = Rows ELSE ~before(r, c)
          /\ number = 1 => IF screen.cur_r = 1 THEN r = 1 ELSE ~after(r, c)
      BY <3>2, <3>3
    <3> QED BY <3>4 DEF r, c
  <2> HIDE DEF number, before, after, cells
  <2>3. (current_state \in {"ELB", "NUMBER_1"} /\ current_state' = "INIT" /\ cells # {}) =>
          /\ number = 0 => \/ \A p \in cells : ~before(p[1], p[2])
                           \/ screen.cur_r = Rows /\ \A p \in cells : p[1] = Rows
          /\ number = 1 => \/ \A p \in cells : ~after(p[1], p[2])
                           \/ screen.cur_r = 1 /\ \A p \in cells : p[1] = 1
    BY <2>1, <2>2
  <2> QED BY <2>3 DEF number, before, after, cells
<1> QED BY <1>2, Invariance, PTL DEF Spec, EraseKeeps
=============================================================================
