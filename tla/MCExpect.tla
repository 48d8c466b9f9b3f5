------------------------------ MODULE MCExpect ------------------------------
(* Expect on small instances.                                              *)
EXTENDS ExpectProperties

\* Two characters that the program may print in different reads, the second of
\* them again, and a line end.
Output == <<"a", "b", "\n">>

Straddle == expect_exact(<<TIMEOUT, Text(<<"b", "\n">>), Text(<<"a", "b">>)>>, -1)
Window   == expect_exact(<<Text(<<"b">>)>>, 1)

AllSearchers == {read, readline, Straddle, Window}

OnlyReadAll == {read}

Lines == {<<"c">>, <<" ", "c">>, <<"'", "'">>, <<"c", " ", "'", "a", " ">>}
Path  == {<<"c">>}
AllOps == {"expect", "close", "terminate", "wait", "isalive", "sendintr"}
=============================================================================
