----------------------------- MODULE MCPlumbing -----------------------------
EXTENDS PlumbingProperties

Line(progs, input, output, append, dup, bg) ==
  [progs |-> progs, input |-> input, output |-> output, append |-> append,
   dup |-> dup, bg |-> bg]

TwoItems == <<"x", "y">>

Typed == {
  Line(<<"copy", "copy", "copy">>, "in", "out", TRUE, FALSE, FALSE),
  Line(<<"copy", "head">>, "tty", "out", FALSE, TRUE, FALSE),
  Line(<<"copy", "none", "copy">>, "in", "out", FALSE, FALSE, FALSE),
  Line(<<"copy", "copy">>, "in", "tty", FALSE, FALSE, TRUE),
  Line(<<"copy">>, "missing", "locked", FALSE, TRUE, FALSE),
  Line(<<"copy", "copy">>, "missing", "out", TRUE, FALSE, FALSE),
  Line(<<"head">>, "in", "locked", FALSE, FALSE, FALSE)}
=============================================================================
