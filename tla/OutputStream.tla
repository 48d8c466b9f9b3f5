---------------------------- MODULE OutputStream ----------------------------
(***************************************************************************)
(* What reading the output of a program through a pseudo terminal          *)
(* promises: the reader gets what the program printed, in the order in     *)
(* which it was printed, every character once, and is told that the        *)
(* output has ended only after the program is gone.  Expect implements it. *)
(***************************************************************************)
EXTENDS Naturals, Sequences

CONSTANT Script        \* what the program prints if it runs to its end

VARIABLES
  printed,             \* number of characters of Script printed so far
  taken,               \* the characters the reader has got
  running,             \* the program is running
  ended                \* the reader was told that the output has ended

vars == <<printed, taken, running, ended>>

Init == /\ printed = 0
        /\ taken = <<>>
        /\ running = TRUE
        /\ ended = FALSE

Emit == /\ running
        /\ printed < Len(Script)
        /\ printed' = printed + 1
        /\ UNCHANGED <<taken, running, ended>>

Exit == /\ running
        /\ running' = FALSE
        /\ UNCHANGED <<printed, taken, ended>>

Take == /\ \E n \in (Len(taken) + 1) .. printed : taken' = SubSeq(Script, 1, n)
        /\ UNCHANGED <<printed, running, ended>>

End == /\ ~running
       /\ ended' = TRUE
       /\ UNCHANGED <<printed, taken, running>>

Next == Emit \/ Exit \/ Take \/ End

Spec == Init /\ [][Next]_vars
=============================================================================
