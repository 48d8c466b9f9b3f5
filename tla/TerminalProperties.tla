------------------------- MODULE TerminalProperties -------------------------
(* What holds of the terminal emulator, see Terminal.                      *)
EXTENDS Terminal

RowOf == [1 .. Cols -> Text \cup {SPACE, "x"}]

Screen == [w : Seq(RowOf), cur_r : 1 .. Rows, cur_c : 1 .. Cols,
           cur_saved_r : 1 .. Rows, cur_saved_c : 1 .. Cols,
           scroll_row_start : Nat \ {0}, scroll_row_end : 0 .. Rows, lost : BOOLEAN]

\* Every variable has a value of its type; the cursor and the saved cursor are on
\* the screen, and the scroll region begins at or after its first row and ends at
\* or before its last one.
TypeOK ==
  /\ screen \in Screen
  /\ memory \in Seq(0 .. MaxNumber)
  /\ current_state \in State
  /\ error \in {"none", "NameError", "AttributeError", "IndexError"}
  /\ base \in 0 .. MaxMemory /\ written \in 0 .. MaxWritten

\* The only exceptions that writing raises are that of DoEraseLine and an IndexError
\* after rows were lost.  The numbers an escape sequence needs are on the stack
\* when it ends, whatever was written before: the screen object below them is
\* never popped.  A row that is not there is touched only when rows are missing.
ErrorsExplained ==
  /\ error # "AttributeError"
  /\ error = "IndexError" => Len(screen.w) < Rows

\* A sequence that moves the cursor, erases or sets the scroll region uses up the
\* numbers it has read and no number of an earlier one, or empties the stack.
\* (Those that take any number of arguments, m, q, h and l, leave theirs behind.)
StackBalanced ==
  [][(current_state \in {"NUMBER_1", "NUMBER_2"} /\ current_state' = "INIT") =>
       \A symbol \in {"A", "B", "C", "D", "J", "H", "r"} :
         process(symbol) => Len(memory') \in {0, base}]_vars

\* The screen keeps its number of rows whatever is written, except by scrolling
\* while the scroll region ends at row 0, which scroll_constrain lets pass.
RowsKept ==
  [][Len(screen.w) = Rows => Len(screen'.w) = Rows \/ screen.scroll_row_end = 0]_vars

InRegion(r) == r \in screen.scroll_row_start .. screen.scroll_row_end

\* A character that scrolls the screen changes no row outside the scroll region,
\* except the one where the cursor ends.
OutsideKept ==
  [][(screen'.w # screen.w /\ Len(screen.w) = Rows /\ screen.scroll_row_end # 0
        /\ current_state \in {"INIT", "ESC"} /\ current_state' = "INIT" /\ memory' = memory) =>
       \A r \in DOMAIN screen.w :
         screen'.w[r] = screen.w[r] \/ InRegion(r) \/ r \in {screen.cur_r, screen'.cur_r}]_vars

Blanked(r, c) == screen'.w[r][c] = SPACE /\ screen.w[r][c] # SPACE

\* Erasing from the cursor down leaves what is before the cursor, erasing up to it
\* what is behind it, unless the cursor is in the last, or first, row: there the
\* whole row is erased.
EraseKeeps ==
  [][LET number == IF current_state = "ELB" THEN 0 ELSE Last(memory)
         before(r, c) == r < screen.cur_r \/ (r = screen.cur_r /\ c < screen.cur_c)
         after(r, c)  == r > screen.cur_r \/ (r = screen.cur_r /\ c > screen.cur_c)
         cells == {p \in (DOMAIN screen.w) \X (1 .. Cols) : Blanked(p[1], p[2])}
     IN  (current_state \in {"ELB", "NUMBER_1"} /\ current_state' = "INIT" /\ cells # {}) =>
           /\ number = 0 => \/ \A p \in cells : ~before(p[1], p[2])
                            \/ screen.cur_r = Rows /\ \A p \in cells : p[1] = Rows
           /\ number = 1 => \/ \A p \in cells : ~after(p[1], p[2])
                            \/ screen.cur_r = 1 /\ \A p \in cells : p[1] = 1]_vars
=============================================================================
