----------------------------- MODULE ExpectProofs -----------------------------
(* Proofs about the spawn class, see ExpectProperties.                     *)
EXTENDS ExpectProperties, SequenceLemmas

\* Where isalive() may return to, and the places of a thread that runs it.
Returns == {"read", "late", "close", "terminate", "kill", "last", "wait", "waited", "isalive"}
Asking(t) == pc[t] \in {"isalive", "waitpid", "waithang", "reaped"}

\* A thread that runs isalive() has a place to return to; the drain thread runs it
\* for read_nonblocking only.
Control ==
  /\ pc \in [Threads -> Labels]
  /\ ret \in [Threads -> Returns \cup {"none"}]
  /\ \A t \in Threads : Asking(t) => ret[t] # "none"
  /\ ret["drain"] \in {"none", "read", "late"}

\* The places that isalive() returns to.
LEMMA ResumeAt ==
  ASSUME NEW t \in Threads, NEW alive \in BOOLEAN, ret[t] \in Returns
  PROVE  /\ Resume(t, alive) \in {"select", "eof", "timeout", "terminate", "killed", "escalate",
                                  "signal", "unkilled", "wait", "error", "return"}
         /\ Resume(t, alive) = "killed" => ~alive
         /\ Resume(t, alive) = "eof" => ~alive /\ ret[t] = "late"
         /\ Resume(t, alive) = "select" => ret[t] = "read"
         /\ Resume(t, alive) = "signal" => ret[t] = "kill" /\ alive
         /\ Resume(t, alive) = "wait" => alive
         /\ Resume(t, alive) \in {"select", "eof", "timeout"} <=> ret[t] \in {"read", "late"}
BY DEF Returns, Resume

\* A thread that goes on to a place of the program, with a place to return to if it
\* runs isalive() there.
LEMMA GoesTo ==
  ASSUME Control, NEW t \in Threads, NEW label \in Labels, pc' = [pc EXCEPT ![t] = label]
  PROVE  /\ (UNCHANGED ret /\ (label \in {"isalive", "waitpid", "waithang", "reaped"} =>
                                 ret[t] # "none")) => Control'
         /\ \A from \in Returns \cup {"none"} :
              /\ ret' = [ret EXCEPT ![t] = from]
              /\ label \in {"isalive", "waitpid", "waithang", "reaped"} => from # "none"
              /\ t = "drain" => from \in {"none", "read", "late"}
              => Control'
BY DEF Control, Asking, Threads

\* The control of both threads stays within the program.
LEMMA ControlStep ==
  ASSUME Control, [Next]_vars
  PROVE  Control'
<1>1. CASE ChildPrint
  BY <1>1
     DEF Control, Asking, Labels, Returns, Threads, ChildPrint, Running
<1>2. CASE ChildExit
  BY <1>2
     DEF Control, Asking, Labels, Returns, Threads, ChildExit, Running
<1>3. CASE ChildZombie
  BY <1>3
     DEF Control, Asking, Labels, Returns, Threads, ChildZombie
<1>4. CASE DrainStart
  BY <1>4
     DEF Control, Asking, Labels, Returns, Threads, DrainStart, Goto
<1>5. CASE DrainLoop
  BY <1>5
     DEF Control, Asking, Labels, Returns, Threads, DrainLoop, Goto
<1>6. CASE DrainPut
  BY <1>6
     DEF Control, Asking, Labels, Returns, Threads, DrainPut, Goto
<1>7. CASE DrainEof
  BY <1>7
     DEF Control, Asking, Labels, Returns, Threads, DrainEof, Goto
<1>8. CASE DrainLeave
  BY <1>8
     DEF Control, Asking, Labels, Returns, Threads, DrainLeave, Goto
<1>9. CASE StaleSelect
  <2>1. \/ Goto("drain", "os.read") /\ UNCHANGED ret
        \/ CallIsalive("drain", "late")
        \/ Goto("drain", Raise("drain")) /\ UNCHANGED ret
    BY <1>9 DEF StaleSelect
  <2>2. "drain" \in Threads
    BY DEF Threads
  <2> QED BY <2>1, <2>2, GoesTo DEF CallIsalive, Goto, Labels, Returns, Raise
<1>10. CASE ExpectSearch
  BY <1>10, ZenonT(40)
     DEF Control, Asking, Labels, Returns, Threads, ExpectSearch, Goto, Return
<1>11. CASE ExpectGet
  BY <1>11
     DEF Control, Asking, Labels, Returns, Threads, ExpectGet, Feed, Goto
<1>12. CASE ExpectGot
  BY <1>12
     DEF Control, Asking, Labels, Returns, Threads, ExpectGot, Feed, Goto
<1>13. CASE ExpectEof
  BY <1>13
     DEF Control, Asking, Labels, Returns, Threads, ExpectEof, Return, Goto
<1>14. CASE ExpectTimeout
  BY <1>14
     DEF Control, Asking, Labels, Returns, Threads, ExpectTimeout, Return, Goto
<1>15. CASE Error
  BY <1>15
     DEF Control, Asking, Labels, Returns, Threads, Error, Return, Goto
<1>16. CASE Terminate
  BY <1>16
     DEF Control, Asking, Labels, Returns, Threads, Terminate, CallIsalive, Goto
<1>17. CASE Escalate
  BY <1>17, ZenonT(40)
     DEF Control, Asking, Labels, Returns, Threads, Escalate, CallIsalive, Goto
<1>18. CASE Signal
  BY <1>18
     DEF Control, Asking, Labels, Returns, Threads, Signal, CallIsalive, Goto, Deliver,
         Running
<1>19. CASE Killed
  BY <1>19
     DEF Control, Asking, Labels, Returns, Threads, Killed, Return, Goto
<1>20. CASE Unkilled
  BY <1>20
     DEF Control, Asking, Labels, Returns, Threads, Unkilled, Return, Goto
<1>21. CASE Wait
  BY <1>21
     DEF Control, Asking, Labels, Returns, Threads, Wait, Goto
<1>22. CASE MethodReturns
  BY <1>22
     DEF Control, Asking, Labels, Returns, Threads, MethodReturns, Return, Goto
<1>23. CASE Spawn
  BY <1>23, ZenonT(40)
     DEF Control, Asking, Labels, Returns, Threads, Spawn, Goto
<1>24. CASE ExpectCall
  <2>1. pc' \in [Threads -> Labels] /\ UNCHANGED ret
    BY <1>24 DEF ExpectCall, Control, Labels, Threads
  <2>2. pc'["main"] \in {"error", "search"} /\ pc'["drain"] \in {"starting", pc["drain"]}
    BY <1>24 DEF ExpectCall, Control, Threads
  <2> QED BY <2>1, <2>2 DEF Control, Asking, Threads
<1>25. CASE CloseCall
  <2>1. /\ pc' \in [Threads -> Labels]
        /\ ret' \in [Threads -> Returns \cup {"none"}] /\ ret'["drain"] = ret["drain"]
    BY <1>25 DEF CloseCall, Control, Labels, Threads, Returns
  <2>2. pc'["main"] \in {"return", "error", "isalive"} /\ pc'["drain"] \in {"stale select", pc["drain"]}
    BY <1>25 DEF CloseCall, Control, Threads
  <2>3. pc'["main"] = "isalive" => ret'["main"] = "close"
    BY <1>25 DEF CloseCall, Control, Threads
  <2> QED BY <2>1, <2>2, <2>3 DEF Control, Asking, Threads
<1>26. CASE TerminateCall
  BY <1>26
     DEF Control, Asking, Labels, Returns, Threads, TerminateCall, Call, NoCall, CallIsalive,
         Goto
<1>27. CASE WaitCall
  BY <1>27
     DEF Control, Asking, Labels, Returns, Threads, WaitCall, Call, NoCall, CallIsalive,
         Goto
<1>28. CASE IsaliveCall
  BY <1>28
     DEF Control, Asking, Labels, Returns, Threads, IsaliveCall, Call, NoCall, CallIsalive,
         Goto
<1>29. CASE Sendintr
  BY <1>29, ZenonT(40)
     DEF Control, Asking, Labels, Returns, Threads, Sendintr, Call, NoCall, Goto, Deliver,
         Running
<1>30. ASSUME NEW t \in Threads, IsaliveTest(t)
      PROVE  Control'
  <2>1. ret[t] \in Returns
    BY <1>30 DEF IsaliveTest, Control, Asking
  <2>2. CASE terminated
    BY <1>30, <2>1, <2>2, ResumeAt, GoesTo DEF IsaliveTest, Answer, Goto, Labels
  <2>3. CASE ~terminated
    <3>1. \/ pc' = [pc EXCEPT ![t] = "waithang"]
          \/ pc' = [pc EXCEPT ![t] = "waitpid"]
      BY <1>30, <2>3 DEF IsaliveTest, Goto
    <3>2. UNCHANGED ret /\ ret[t] # "none"
      BY <1>30, <2>1, <2>3 DEF IsaliveTest, Returns
    <3> QED BY <3>1, <3>2, GoesTo DEF Labels
  <2> QED BY <2>2, <2>3
<1>31. ASSUME NEW t \in Threads, Waitpid(t)
      PROVE  Control'
  <2>1. ret[t] \in Returns
    BY <1>31 DEF Waitpid, Control, Asking
  <2>2. CASE child = "zombie" \/ child = "gone"
    <3>1. \/ pc' = [pc EXCEPT ![t] = "reaped"]
          \/ pc' = [pc EXCEPT ![t] = "dead"]
          \/ pc' = [pc EXCEPT ![t] = "error"]
      BY <1>31, <2>2 DEF Waitpid, Goto, Raise
    <3>2. UNCHANGED ret /\ ret[t] # "none"
      BY <1>31, <2>1, <2>2 DEF Waitpid, Returns
    <3> QED BY <3>1, <3>2, GoesTo DEF Labels
  <2>3. CASE child \in {"running", "exiting"}
    <3>1. pc' = [pc EXCEPT ![t] = Resume(t, TRUE)] /\ ret' = [ret EXCEPT ![t] = "none"]
      BY <1>31, <2>3 DEF Waitpid, Answer, Goto
    <3>2. Resume(t, TRUE) \in Labels \ {"isalive", "waitpid", "waithang", "reaped"}
      BY <2>1, ResumeAt DEF Labels
    <3> QED BY <3>1, <3>2, GoesTo
  <2> QED BY <1>31, <2>2, <2>3 DEF Waitpid
<1>32. ASSUME NEW t \in Threads, Reaped(t)
      PROVE  Control'
  <2>1. ret[t] \in Returns
    BY <1>32 DEF Reaped, Control, Asking
  <2> QED BY <1>32, <2>1, ResumeAt, GoesTo DEF Reaped, Answer, Goto, Labels
<1>33. ASSUME NEW t \in Threads, ReadNonblocking(t)
      PROVE  Control'
  <2>1. CASE closed
    BY <1>33, <2>1, GoesTo DEF ReadNonblocking, Goto, Labels, Raise
  <2>2. CASE ~closed
    BY <1>33, <2>2, GoesTo DEF ReadNonblocking, CallIsalive, Goto, Labels, Returns
  <2> QED BY <2>1, <2>2
<1>34. ASSUME NEW t \in Threads, Select(t)
      PROVE  Control'
  <2>1. \/ Goto(t, "os.read") /\ UNCHANGED ret
        \/ CallIsalive(t, "late")
        \/ Goto(t, Raise(t)) /\ UNCHANGED ret
    BY <1>34 DEF Select
  <2> QED BY <2>1, GoesTo DEF CallIsalive, Goto, Labels, Returns, Raise
<1>35. ASSUME NEW t \in Threads, OsRead(t)
      PROVE  Control'
  BY <1>35, ZenonT(40)
     DEF Control, Asking, Labels, Returns, Threads, OsRead, Goto
<1>36. CASE UNCHANGED vars
  BY <1>36 DEF Control, Asking, Labels, Returns, Threads, vars
<1> QED BY <1>1, <1>2, <1>3, <1>4, <1>5, <1>6, <1>7, <1>8, <1>9, <1>10, <1>11, <1>12, <1>13,
           <1>14, <1>15, <1>16, <1>17, <1>18, <1>19, <1>20, <1>21, <1>22, <1>23, <1>24,
           <1>25, <1>26, <1>27, <1>28, <1>29, <1>30, <1>31, <1>32, <1>33, <1>34, <1>35,
           <1>36
        DEF Next, DrainThread, MainThread, Test, Threads

\* The three steps of isalive() go on inside it or return to its caller.
LEMMA IsaliveGoes ==
  ASSUME Control, NEW t \in Threads, IsaliveTest(t) \/ Waitpid(t) \/ Reaped(t)
  PROVE  \E label \in Labels \ {"got", "os.read"} :
           /\ pc' = [pc EXCEPT ![t] = label]
           /\ label = "eof" => ret[t] = "late"
           /\ \/ UNCHANGED ret
              \/ /\ label \notin {"isalive", "waitpid", "waithang", "reaped"}
                 /\ ret' = [ret EXCEPT ![t] = "none"]
<1> DEFINE Good(label) == /\ pc' = [pc EXCEPT ![t] = label]
                          /\ label = "eof" => ret[t] = "late"
                          /\ \/ UNCHANGED ret
                             \/ /\ label \notin {"isalive", "waitpid", "waithang", "reaped"}
                                /\ ret' = [ret EXCEPT ![t] = "none"]
<1>1. ret[t] \in Returns
  BY DEF IsaliveTest, Waitpid, Reaped, Control, Asking
<1>2. ASSUME NEW alive \in BOOLEAN, Answer(t, alive)
      PROVE  \E label \in Labels \ {"got", "os.read"} : Good(label)
  <2>1. Resume(t, alive) \in Labels \ {"got", "os.read", "isalive", "waitpid", "waithang", "reaped"}
    BY <1>1, ResumeAt DEF Labels
  <2>2. Resume(t, alive) = "eof" => ret[t] = "late"
    BY <1>1, ResumeAt
  <2>3. Good(Resume(t, alive))
    BY <1>2, <2>1, <2>2 DEF Answer, Goto
  <2> QED BY <2>1, <2>3
<1>3. ASSUME NEW label \in {"waitpid", "waithang", "reaped", "dead", "error"},
             Goto(t, label), UNCHANGED ret
      PROVE  \E l \in Labels \ {"got", "os.read"} : Good(l)
  <2>1. label \in Labels \ {"got", "os.read"} /\ Good(label)
    BY <1>3 DEF Goto, Labels
  <2> QED BY <2>1
<1>4. \/ Answer(t, FALSE) \/ Answer(t, TRUE)
      \/ \E label \in {"waitpid", "waithang", "reaped", "dead", "error"} :
            Goto(t, label) /\ UNCHANGED ret
  <2>1. CASE IsaliveTest(t)
    BY <2>1 DEF IsaliveTest
  <2>2. CASE Waitpid(t)
    BY <2>2 DEF Waitpid, Raise
  <2>3. CASE Reaped(t)
    BY <2>3 DEF Reaped
  <2> QED BY <2>1, <2>2, <2>3
<1> QED BY <1>2, <1>3, <1>4

\* isalive() has noted the end of the child only after waitpid reported it, and
\* nothing reads or asks before there is a child.
ChildInv ==
  /\ terminated => child = "gone" /\ status = cause
  /\ \A t \in Threads : pc[t] = "reaped" => child = "gone"
  /\ child = "unborn" => pc["main"] \in {"new", "no command"} /\ pc["drain"] = "none"
  /\ pc["main"] = "new" => child = "unborn"

\* The pid stands for the child until it is reaped, whichever action comes.
LEMMA ChildStep ==
  ASSUME Control, ChildInv, [Next]_vars
  PROVE  ChildInv'
<1>1. CASE ChildPrint
  BY <1>1
     DEF Control, ChildInv, Threads, ChildPrint, Running, kernel, fields
<1>2. CASE ChildExit
  BY <1>2
     DEF Control, ChildInv, Threads, ChildExit, Running, kernel, fields
<1>3. CASE ChildZombie
  BY <1>3
     DEF Control, ChildInv, Threads, ChildZombie, kernel, fields
<1>4. CASE DrainStart
  BY <1>4
     DEF Control, ChildInv, Threads, DrainStart, Goto, kernel, fields
<1>5. CASE DrainLoop
  BY <1>5
     DEF Control, ChildInv, Threads, DrainLoop, Goto, kernel, fields
<1>6. CASE DrainPut
  BY <1>6
     DEF Control, ChildInv, Threads, DrainPut, Goto, kernel, fields
<1>7. CASE DrainEof
  BY <1>7
     DEF Control, ChildInv, Threads, DrainEof, Goto, kernel, fields
<1>8. CASE DrainLeave
  BY <1>8
     DEF Control, ChildInv, Threads, DrainLeave, Goto, kernel, fields
<1>9. CASE StaleSelect
  BY <1>9
     DEF Control, ChildInv, Threads, StaleSelect, Goto, CallIsalive, Raise, kernel, fields
<1>10. CASE ExpectSearch
  BY <1>10
     DEF Control, ChildInv, Threads, ExpectSearch, Goto, Return, kernel, fields
<1>11. CASE ExpectGet
  BY <1>11
     DEF Control, ChildInv, Threads, ExpectGet, Feed, Goto, kernel, fields
<1>12. CASE ExpectGot
  BY <1>12
     DEF Control, ChildInv, Threads, ExpectGot, Feed, Goto, kernel, fields
<1>13. CASE ExpectEof
  BY <1>13
     DEF Control, ChildInv, Threads, ExpectEof, Return, Goto, kernel, fields
<1>14. CASE ExpectTimeout
  BY <1>14
     DEF Control, ChildInv, Threads, ExpectTimeout, Return, Goto, kernel, fields
<1>15. CASE Error
  BY <1>15
     DEF Control, ChildInv, Threads, Error, Return, Goto, kernel, fields
<1>16. CASE Terminate
  BY <1>16
     DEF Control, ChildInv, Threads, Terminate, CallIsalive, Goto, kernel, fields
<1>17. CASE Escalate
  BY <1>17
     DEF Control, ChildInv, Threads, Escalate, CallIsalive, Goto, kernel, fields
<1>18. CASE Signal
  BY <1>18
     DEF Control, ChildInv, Threads, Signal, CallIsalive, Goto, Deliver, Running, kernel,
         fields
<1>19. CASE Killed
  BY <1>19
     DEF Control, ChildInv, Threads, Killed, Return, Goto, kernel, fields
<1>20. CASE Unkilled
  BY <1>20
     DEF Control, ChildInv, Threads, Unkilled, Return, Goto, kernel, fields
<1>21. CASE Wait
  BY <1>21
     DEF Control, ChildInv, Threads, Wait, Goto, kernel, fields
<1>22. CASE MethodReturns
  BY <1>22
     DEF Control, ChildInv, Threads, MethodReturns, Return, Goto, kernel, fields
<1>23. CASE Spawn
  BY <1>23
     DEF Control, ChildInv, Threads, Spawn, Goto, kernel, fields
<1>24. CASE ExpectCall
  BY <1>24
     DEF Control, ChildInv, Threads, ExpectCall, Call, NoCall, kernel, fields
<1>25. CASE CloseCall
  BY <1>25
     DEF Control, ChildInv, Threads, CloseCall, Call, NoCall, kernel, fields
<1>26. CASE TerminateCall
  BY <1>26
     DEF Control, ChildInv, Threads, TerminateCall, Call, NoCall, CallIsalive, Goto, kernel,
         fields
<1>27. CASE WaitCall
  BY <1>27
     DEF Control, ChildInv, Threads, WaitCall, Call, NoCall, CallIsalive, Goto, kernel,
         fields
<1>28. CASE IsaliveCall
  BY <1>28
     DEF Control, ChildInv, Threads, IsaliveCall, Call, NoCall, CallIsalive, Goto, kernel,
         fields
<1>29. CASE Sendintr
  BY <1>29
     DEF Control, ChildInv, Threads, Sendintr, Call, NoCall, Goto, Deliver, Running, kernel,
         fields
<1>30. ASSUME NEW t \in Threads, IsaliveTest(t)
      PROVE  ChildInv'
  <2>1. ret[t] \in Returns
    BY <1>30 DEF IsaliveTest, Control, Asking
  <2> QED BY <1>30, <2>1, ResumeAt
        DEF Control, ChildInv, Threads, IsaliveTest, Answer, Goto, kernel, fields
<1>31. ASSUME NEW t \in Threads, Waitpid(t)
      PROVE  ChildInv'
  <2>1. ret[t] \in Returns
    BY <1>31 DEF Waitpid, Control, Asking
  <2> QED BY <1>31, <2>1, ResumeAt, ZenonT(40)
        DEF Control, ChildInv, Threads, Waitpid, Answer, Goto, Raise, kernel, fields
<1>32. ASSUME NEW t \in Threads, Reaped(t)
      PROVE  ChildInv'
  <2>1. ret[t] \in Returns
    BY <1>32 DEF Reaped, Control, Asking
  <2> QED BY <1>32, <2>1, ResumeAt
        DEF Control, ChildInv, Threads, Reaped, Answer, Goto, kernel, fields
<1>33. ASSUME NEW t \in Threads, ReadNonblocking(t)
      PROVE  ChildInv'
  BY <1>33
     DEF Control, ChildInv, Threads, ReadNonblocking, CallIsalive, Goto, Raise, kernel,
         fields
<1>34. ASSUME NEW t \in Threads, Select(t)
      PROVE  ChildInv'
  BY <1>34
     DEF Control, ChildInv, Threads, Select, CallIsalive, Goto, Raise, Readable, kernel,
         fields
<1>35. ASSUME NEW t \in Threads, OsRead(t)
      PROVE  ChildInv'
  BY <1>35
     DEF Control, ChildInv, Threads, OsRead, Goto, kernel, fields
<1>36. CASE UNCHANGED vars
  BY <1>36 DEF Control, ChildInv, Threads, vars, kernel, fields
<1> QED BY <1>1, <1>2, <1>3, <1>4, <1>5, <1>6, <1>7, <1>8, <1>9, <1>10, <1>11, <1>12, <1>13,
           <1>14, <1>15, <1>16, <1>17, <1>18, <1>19, <1>20, <1>21, <1>22, <1>23, <1>24,
           <1>25, <1>26, <1>27, <1>28, <1>29, <1>30, <1>31, <1>32, <1>33, <1>34, <1>35,
           <1>36
        DEF Next, DrainThread, MainThread, Test, Threads

\* close() closes the descriptor before it looks for the child, and is complete
\* only when isalive() has noted that the child has ended.
CloseInv ==
  /\ closed => ~fd_open /\ terminated
  /\ call.op = "close" => ~fd_open
  /\ pc["main"] = "killed" => terminated

\* A closed object stays closed and its child ended.
LEMMA CloseStep ==
  ASSUME Control, CloseInv, [Next]_vars
  PROVE  CloseInv'
<1>1. CASE ChildPrint
  BY <1>1
     DEF Control, CloseInv, Threads, ChildPrint, Running, kernel, fields, caller
<1>2. CASE ChildExit
  BY <1>2
     DEF Control, CloseInv, Threads, ChildExit, Running, kernel, fields, caller
<1>3. CASE ChildZombie
  BY <1>3
     DEF Control, CloseInv, Threads, ChildZombie, kernel, fields, caller
<1>4. CASE DrainStart
  BY <1>4
     DEF Control, CloseInv, Threads, DrainStart, Goto, kernel, fields, caller
<1>5. CASE DrainLoop
  BY <1>5
     DEF Control, CloseInv, Threads, DrainLoop, Goto, kernel, fields, caller
<1>6. CASE DrainPut
  BY <1>6
     DEF Control, CloseInv, Threads, DrainPut, Goto, kernel, fields, caller
<1>7. CASE DrainEof
  BY <1>7
     DEF Control, CloseInv, Threads, DrainEof, Goto, kernel, fields, caller
<1>8. CASE DrainLeave
  BY <1>8
     DEF Control, CloseInv, Threads, DrainLeave, Goto, kernel, fields, caller
<1>9. CASE StaleSelect
  BY <1>9
     DEF Control, CloseInv, Threads, StaleSelect, Goto, CallIsalive, Raise, kernel, fields,
         caller
<1>10. CASE ExpectSearch
  BY <1>10
     DEF Control, CloseInv, Threads, ExpectSearch, Goto, Return, NoCall, kernel, fields,
         caller
<1>11. CASE ExpectGet
  BY <1>11
     DEF Control, CloseInv, Threads, ExpectGet, Feed, Goto, kernel, fields, caller
<1>12. CASE ExpectGot
  BY <1>12
     DEF Control, CloseInv, Threads, ExpectGot, Feed, Goto, kernel, fields, caller
<1>13. CASE ExpectEof
  BY <1>13
     DEF Control, CloseInv, Threads, ExpectEof, Return, Goto, NoCall, kernel, fields, caller
<1>14. CASE ExpectTimeout
  BY <1>14
     DEF Control, CloseInv, Threads, ExpectTimeout, Return, Goto, NoCall, kernel, fields,
         caller
<1>15. CASE Error
  BY <1>15
     DEF Control, CloseInv, Threads, Error, Return, Goto, NoCall, kernel, fields, caller
<1>16. CASE Terminate
  BY <1>16
     DEF Control, CloseInv, Threads, Terminate, CallIsalive, Goto, kernel, fields, caller
<1>17. CASE Escalate
  BY <1>17
     DEF Control, CloseInv, Threads, Escalate, CallIsalive, Goto, kernel, fields, caller
<1>18. CASE Signal
  BY <1>18
     DEF Control, CloseInv, Threads, Signal, CallIsalive, Goto, Deliver, Running, kernel,
         fields, caller
<1>19. CASE Killed
  BY <1>19
     DEF Control, CloseInv, Threads, Killed, Return, Goto, NoCall, kernel, fields, caller
<1>20. CASE Unkilled
  BY <1>20
     DEF Control, CloseInv, Threads, Unkilled, Return, Goto, NoCall, kernel, fields, caller
<1>21. CASE Wait
  BY <1>21
     DEF Control, CloseInv, Threads, Wait, Goto, kernel, fields, caller
<1>22. CASE MethodReturns
  BY <1>22
     DEF Control, CloseInv, Threads, MethodReturns, Return, Goto, NoCall, kernel, fields,
         caller
<1>23. CASE Spawn
  BY <1>23
     DEF Control, CloseInv, Threads, Spawn, Goto, kernel, fields, caller
<1>24. CASE ExpectCall
  BY <1>24
     DEF Control, CloseInv, Threads, ExpectCall, Call, NoCall, kernel, fields, caller
<1>25. CASE CloseCall
  BY <1>25
     DEF Control, CloseInv, Threads, CloseCall, Call, NoCall, kernel, fields, caller
<1>26. CASE TerminateCall
  BY <1>26
     DEF Control, CloseInv, Threads, TerminateCall, Call, NoCall, CallIsalive, Goto, kernel,
         fields, caller
<1>27. CASE WaitCall
  BY <1>27
     DEF Control, CloseInv, Threads, WaitCall, Call, NoCall, CallIsalive, Goto, kernel,
         fields, caller
<1>28. CASE IsaliveCall
  BY <1>28
     DEF Control, CloseInv, Threads, IsaliveCall, Call, NoCall, CallIsalive, Goto, kernel,
         fields, caller
<1>29. CASE Sendintr
  BY <1>29
     DEF Control, CloseInv, Threads, Sendintr, Call, NoCall, Goto, Deliver, Running, kernel,
         fields, caller
<1>30. ASSUME NEW t \in Threads, IsaliveTest(t)
      PROVE  CloseInv'
  <2>1. ret[t] \in Returns
    BY <1>30 DEF IsaliveTest, Control, Asking
  <2> QED BY <1>30, <2>1, ResumeAt
        DEF Control, CloseInv, Threads, IsaliveTest, Answer, Goto, kernel, fields, caller
<1>31. ASSUME NEW t \in Threads, Waitpid(t)
      PROVE  CloseInv'
  <2>1. ret[t] \in Returns
    BY <1>31 DEF Waitpid, Control, Asking
  <2> QED BY <1>31, <2>1, ResumeAt
        DEF Control, CloseInv, Threads, Waitpid, Answer, Goto, Raise, kernel, fields, caller
<1>32. ASSUME NEW t \in Threads, Reaped(t)
      PROVE  CloseInv'
  <2>1. ret[t] \in Returns
    BY <1>32 DEF Reaped, Control, Asking
  <2> QED BY <1>32, <2>1, ResumeAt
        DEF Control, CloseInv, Threads, Reaped, Answer, Goto, kernel, fields, caller
<1>33. ASSUME NEW t \in Threads, ReadNonblocking(t)
      PROVE  CloseInv'
  BY <1>33
     DEF Control, CloseInv, Threads, ReadNonblocking, CallIsalive, Goto, Raise, kernel,
         fields, caller
<1>34. ASSUME NEW t \in Threads, Select(t)
      PROVE  CloseInv'
  BY <1>34
     DEF Control, CloseInv, Threads, Select, CallIsalive, Goto, Raise, Readable, kernel,
         fields, caller
<1>35. ASSUME NEW t \in Threads, OsRead(t)
      PROVE  CloseInv'
  BY <1>35
     DEF Control, CloseInv, Threads, OsRead, Goto, kernel, fields, caller
<1>36. CASE UNCHANGED vars
  BY <1>36 DEF Control, CloseInv, Threads, vars, kernel, fields, caller
<1> QED BY <1>1, <1>2, <1>3, <1>4, <1>5, <1>6, <1>7, <1>8, <1>9, <1>10, <1>11, <1>12, <1>13,
           <1>14, <1>15, <1>16, <1>17, <1>18, <1>19, <1>20, <1>21, <1>22, <1>23, <1>24,
           <1>25, <1>26, <1>27, <1>28, <1>29, <1>30, <1>31, <1>32, <1>33, <1>34, <1>35,
           <1>36
        DEF Next, DrainThread, MainThread, Test, Threads

\* terminate() has chosen the signal that kill() sends.
ScalarInv ==
  /\ TypeOK
  /\ pc["main"] = "signal" \/ (Asking("main") /\ ret["main"] = "kill") => nsig \in 1 .. 4

\* The signals terminate() sends are in its list.
LEMMA SignalsAre == \A n \in 1 .. 4 : SIGNALS[n] \in Range(SIGNALS)
BY DEF Range, SIGNALS

\* The output is finite.
LEMMA ScriptLen == Len(Script) \in Nat
BY ScriptAssumption, LenProperties

\* No action leaves the types of the simple variables.
LEMMA ScalarStep ==
  ASSUME Control, Control', ScalarInv, [Next]_vars
  PROVE  ScalarInv'
<1>1. CASE ChildPrint
  BY <1>1, ScriptLen, BoundAssumption
     DEF Control, ScalarInv, TypeOK, Asking, Threads, ChildPrint, Running, kernel, fields,
         queue, loop, caller, history
<1>2. CASE ChildExit
  BY <1>2, ScriptLen, BoundAssumption
     DEF Control, ScalarInv, TypeOK, Asking, Threads, ChildExit, Running, kernel, fields,
         queue, loop, caller, history
<1>3. CASE ChildZombie
  BY <1>3, ScriptLen, BoundAssumption
     DEF Control, ScalarInv, TypeOK, Asking, Threads, ChildZombie, kernel, fields, queue,
         loop, caller, history
<1>4. CASE DrainStart
  BY <1>4, ScriptLen, BoundAssumption
     DEF Control, ScalarInv, TypeOK, Asking, Threads, DrainStart, Goto, kernel, fields,
         queue, loop, caller, history
<1>5. CASE DrainLoop
  BY <1>5, ScriptLen, BoundAssumption
     DEF Control, ScalarInv, TypeOK, Asking, Threads, DrainLoop, Goto, kernel, fields, queue,
         loop, caller, history
<1>6. CASE DrainPut
  BY <1>6, ScriptLen, BoundAssumption
     DEF Control, ScalarInv, TypeOK, Asking, Threads, DrainPut, Goto, kernel, fields, queue,
         loop, caller, history
<1>7. CASE DrainEof
  BY <1>7, ScriptLen, BoundAssumption
     DEF Control, ScalarInv, TypeOK, Asking, Threads, DrainEof, Goto, kernel, fields, queue,
         loop, caller, history
<1>8. CASE DrainLeave
  BY <1>8, ScriptLen, BoundAssumption
     DEF Control, ScalarInv, TypeOK, Asking, Threads, DrainLeave, Goto, kernel, fields,
         queue, loop, caller, history
<1>9. CASE StaleSelect
  BY <1>9, ScriptLen, BoundAssumption, ZenonT(40)
     DEF Control, ScalarInv, TypeOK, Asking, Threads, StaleSelect, Goto, CallIsalive, Raise,
         kernel, fields, queue, loop, caller, history
<1>10. CASE ExpectSearch
  <2>1. late' \in BOOLEAN
    BY <1>10
       DEF ScalarInv, TypeOK, ExpectSearch, Return, Goto, kernel, fields, queue, loop,
           caller, history
  <2>2. flag_eof' \in BOOLEAN
    BY <1>10
       DEF ScalarInv, TypeOK, ExpectSearch, Return, Goto, kernel, fields, queue, loop,
           caller, history
  <2>3. UNCHANGED <<kernel, terminated, closed, status, drainpty, keepReading, ret, history>>
    BY <1>10 DEF ExpectSearch, fields, queue
  <2>4. nsig' \in {0, nsig} /\ calls' \in 0 .. MaxCalls
    BY <1>10, BoundAssumption DEF ScalarInv, TypeOK, ExpectSearch, Return, Call, caller
  <2>5. pc'["main"] \notin {"signal", "isalive", "waitpid", "waithang", "reaped"}
    BY <1>10 DEF Control, Threads, ExpectSearch, Goto, Return
  <2> QED BY <2>1, <2>2, <2>3, <2>4, <2>5
        DEF Control, ScalarInv, TypeOK, Asking, Threads, kernel, fields, queue, loop, caller,
            history
<1>11. CASE ExpectGet
  BY <1>11, ScriptLen, BoundAssumption, ZenonT(40)
     DEF Control, ScalarInv, TypeOK, Asking, Threads, ExpectGet, Feed, Goto, kernel, fields,
         queue, loop, caller, history
<1>12. CASE ExpectGot
  BY <1>12, ScriptLen, BoundAssumption
     DEF Control, ScalarInv, TypeOK, Asking, Threads, ExpectGot, Feed, Goto, kernel, fields,
         queue, loop, caller, history
<1>13. CASE ExpectEof
  <2>1. late' \in BOOLEAN
    BY <1>13
       DEF ScalarInv, TypeOK, ExpectEof, Return, Goto, kernel, fields, queue, loop, caller,
           history
  <2>2. flag_eof' \in BOOLEAN
    BY <1>13
       DEF ScalarInv, TypeOK, ExpectEof, Return, Goto, kernel, fields, queue, loop, caller,
           history
  <2>3. UNCHANGED <<kernel, terminated, closed, status, drainpty, keepReading, ret, history>>
    BY <1>13 DEF ExpectEof, fields, queue
  <2>4. nsig' \in {0, nsig} /\ calls' \in 0 .. MaxCalls
    BY <1>13, BoundAssumption DEF ScalarInv, TypeOK, ExpectEof, Return, Call, caller
  <2>5. pc'["main"] \notin {"signal", "isalive", "waitpid", "waithang", "reaped"}
    BY <1>13 DEF Control, Threads, ExpectEof, Goto, Return
  <2> QED BY <2>1, <2>2, <2>3, <2>4, <2>5
        DEF Control, ScalarInv, TypeOK, Asking, Threads, kernel, fields, queue, loop, caller,
            history
<1>14. CASE ExpectTimeout
  <2>1. late' \in BOOLEAN
    BY <1>14
       DEF ScalarInv, TypeOK, ExpectTimeout, Return, Goto, kernel, fields, queue, loop,
           caller, history
  <2>2. flag_eof' \in BOOLEAN
    BY <1>14
       DEF ScalarInv, TypeOK, ExpectTimeout, Return, Goto, kernel, fields, queue, loop,
           caller, history
  <2>3. UNCHANGED <<kernel, terminated, closed, status, drainpty, keepReading, ret, history>>
    BY <1>14 DEF ExpectTimeout, fields, queue
  <2>4. nsig' \in {0, nsig} /\ calls' \in 0 .. MaxCalls
    BY <1>14, BoundAssumption DEF ScalarInv, TypeOK, ExpectTimeout, Return, Call, caller
  <2>5. pc'["main"] \notin {"signal", "isalive", "waitpid", "waithang", "reaped"}
    BY <1>14 DEF Control, Threads, ExpectTimeout, Goto, Return
  <2> QED BY <2>1, <2>2, <2>3, <2>4, <2>5
        DEF Control, ScalarInv, TypeOK, Asking, Threads, kernel, fields, queue, loop, caller,
            history
<1>15. CASE Error
  <2>1. late' \in BOOLEAN
    BY <1>15
       DEF ScalarInv, TypeOK, Error, Return, Goto, kernel, fields, queue, loop, caller,
           history
  <2>2. flag_eof' \in BOOLEAN
    BY <1>15
       DEF ScalarInv, TypeOK, Error, Return, Goto, kernel, fields, queue, loop, caller,
           history
  <2>3. UNCHANGED <<kernel, terminated, closed, status, drainpty, keepReading, ret, history>>
    BY <1>15 DEF Error, fields, queue
  <2>4. nsig' \in {0, nsig} /\ calls' \in 0 .. MaxCalls
    BY <1>15, BoundAssumption DEF ScalarInv, TypeOK, Error, Return, Call, caller
  <2>5. pc'["main"] \notin {"signal", "isalive", "waitpid", "waithang", "reaped"}
    BY <1>15 DEF Control, Threads, Error, Goto, Return
  <2> QED BY <2>1, <2>2, <2>3, <2>4, <2>5
        DEF Control, ScalarInv, TypeOK, Asking, Threads, kernel, fields, queue, loop, caller,
            history
<1>16. CASE Terminate
  BY <1>16, ScriptLen, BoundAssumption
     DEF Control, ScalarInv, TypeOK, Asking, Threads, Terminate, CallIsalive, Goto, kernel,
         fields, queue, loop, caller, history
<1>17. CASE Escalate
  BY <1>17, ScriptLen, BoundAssumption
     DEF Control, ScalarInv, TypeOK, Asking, Threads, Escalate, CallIsalive, Goto, kernel,
         fields, queue, loop, caller, history
<1>18. CASE Signal
  BY <1>18, ScriptLen, BoundAssumption, SignalsAre
     DEF Control, ScalarInv, TypeOK, Asking, Threads, Signal, CallIsalive, Goto, Deliver,
         Running, kernel, fields, queue, loop, caller, history
<1>19. CASE Killed
  BY <1>19, ScriptLen, BoundAssumption
     DEF Control, ScalarInv, TypeOK, Asking, Threads, Killed, Return, Goto, kernel, fields,
         queue, loop, caller, history
<1>20. CASE Unkilled
  BY <1>20, ScriptLen, BoundAssumption
     DEF Control, ScalarInv, TypeOK, Asking, Threads, Unkilled, Return, Goto, kernel, fields,
         queue, loop, caller, history
<1>21. CASE Wait
  BY <1>21, ScriptLen, BoundAssumption
     DEF Control, ScalarInv, TypeOK, Asking, Threads, Wait, Goto, kernel, fields, queue,
         loop, caller, history
<1>22. CASE MethodReturns
  BY <1>22, ScriptLen, BoundAssumption
     DEF Control, ScalarInv, TypeOK, Asking, Threads, MethodReturns, Return, Goto, kernel,
         fields, queue, loop, caller, history
<1>23. CASE Spawn
  BY <1>23, ScriptLen, BoundAssumption
     DEF Control, ScalarInv, TypeOK, Asking, Threads, Spawn, Goto, kernel, fields, queue,
         loop, caller, history
<1>24. CASE ExpectCall
  <2>1. late' \in BOOLEAN
    BY <1>24
       DEF ScalarInv, TypeOK, ExpectCall, Return, Goto, kernel, fields, queue, loop, caller,
           history
  <2>2. flag_eof' \in BOOLEAN
    BY <1>24
       DEF ScalarInv, TypeOK, ExpectCall, Return, Goto, kernel, fields, queue, loop, caller,
           history
  <2>3. UNCHANGED <<kernel, terminated, closed, status, drainpty, keepReading, ret, history>>
    BY <1>24 DEF ExpectCall, fields, queue
  <2>4. nsig' \in {0, nsig} /\ calls' \in 0 .. MaxCalls
    BY <1>24, BoundAssumption DEF ScalarInv, TypeOK, ExpectCall, Return, Call, caller
  <2>5. pc'["main"] \notin {"signal", "isalive", "waitpid", "waithang", "reaped"}
    BY <1>24 DEF Control, Threads, ExpectCall, Goto, Return
  <2> QED BY <2>1, <2>2, <2>3, <2>4, <2>5
        DEF Control, ScalarInv, TypeOK, Asking, Threads, kernel, fields, queue, loop, caller,
            history
<1>25. CASE CloseCall
  <2>1. keepReading' \in BOOLEAN /\ fd_open' \in BOOLEAN
    BY <1>25 DEF ScalarInv, TypeOK, CloseCall
  <2>2. UNCHANGED <<child, cause, written, fields, drainpty, late, nsig, history>>
    BY <1>25 DEF CloseCall, Call, loop
  <2>3. calls' \in 0 .. MaxCalls
    <3>1. calls' = calls + 1 /\ calls < MaxCalls
      BY <1>25 DEF CloseCall, Call
    <3> QED BY <3>1, BoundAssumption DEF ScalarInv, TypeOK
  <2>4. pc'["main"] = "return" \/ pc'["main"] = "error" \/ (pc'["main"] = "isalive" /\ ret'["main"] = "close")
    BY <1>25 DEF Control, Threads, CloseCall
  <2>5. TypeOK'
    BY <2>1, <2>2, <2>3 DEF Control, ScalarInv, TypeOK, fields, history
  <2> QED BY <2>2, <2>4, <2>5 DEF ScalarInv, Asking
<1>26. CASE TerminateCall
  BY <1>26, ScriptLen, BoundAssumption
     DEF Control, ScalarInv, TypeOK, Asking, Threads, TerminateCall, Call, NoCall,
         CallIsalive, Goto, kernel, fields, queue, loop, caller, history
<1>27. CASE WaitCall
  BY <1>27, ScriptLen, BoundAssumption
     DEF Control, ScalarInv, TypeOK, Asking, Threads, WaitCall, Call, NoCall, CallIsalive,
         Goto, kernel, fields, queue, loop, caller, history
<1>28. CASE IsaliveCall
  BY <1>28, ScriptLen, BoundAssumption
     DEF Control, ScalarInv, TypeOK, Asking, Threads, IsaliveCall, Call, NoCall, CallIsalive,
         Goto, kernel, fields, queue, loop, caller, history
<1>29. CASE Sendintr
  <2>1. child' \in {child, "exiting"} /\ cause' \in {cause, "SIGINT"}
    BY <1>29 DEF Sendintr, Deliver
  <2>2. "SIGINT" \in Range(SIGNALS)
    BY SignalsAre DEF SIGNALS
  <2>3. UNCHANGED <<written, fd_open, fields, queue, late, nsig, history>>
    BY <1>29 DEF Sendintr, Call, loop
  <2>4. calls' \in 0 .. MaxCalls
    BY <1>29, BoundAssumption DEF ScalarInv, TypeOK, Sendintr, Call
  <2>5. pc'["main"] \in {"return", "error"}
    BY <1>29 DEF Control, Threads, Sendintr, Goto
  <2> QED BY <2>1, <2>2, <2>3, <2>4, <2>5
        DEF Control, ScalarInv, TypeOK, Asking, Threads, fields, queue, history
<1>30. ASSUME NEW t \in Threads, IsaliveTest(t)
      PROVE  ScalarInv'
  <2>1. ret[t] \in Returns
    BY <1>30 DEF IsaliveTest, Control, Asking
  <2>2. pc'["main"] = "signal" \/ (Asking("main")' /\ ret'["main"] = "kill") => nsig \in 1 .. 4
    BY <1>30, <2>1, ResumeAt, ZenonT(40)
       DEF Control, ScalarInv, Asking, Threads, IsaliveTest, Answer, Goto, Raise
  <2>3. UNCHANGED <<cause, written, fd_open, flag_eof, closed, queue, late, nsig, calls, history>>
    BY <1>30 DEF IsaliveTest, kernel, fields, loop, caller
  <2>4. child' \in {child, "gone"} /\ terminated' \in {terminated, TRUE} /\ status' \in {status, cause}
    BY <1>30 DEF IsaliveTest, kernel, fields
  <2>5. status' \in {"none", "exit"} \cup Range(SIGNALS)
    BY <1>30 DEF IsaliveTest, fields, ScalarInv, TypeOK
  <2> QED BY <2>2, <2>3, <2>4, <2>5 DEF Control, ScalarInv, TypeOK, queue, history
<1>31. ASSUME NEW t \in Threads, Waitpid(t)
      PROVE  ScalarInv'
  <2>1. ret[t] \in Returns
    BY <1>31 DEF Waitpid, Control, Asking
  <2>2. pc'["main"] = "signal" \/ (Asking("main")' /\ ret'["main"] = "kill") => nsig \in 1 .. 4
    BY <1>31, <2>1, ResumeAt, ZenonT(40)
       DEF Control, ScalarInv, Asking, Threads, Waitpid, Answer, Goto, Raise
  <2>3. UNCHANGED <<cause, written, fd_open, flag_eof, closed, queue, late, nsig, calls, history>>
    BY <1>31 DEF Waitpid, kernel, fields, loop, caller
  <2>4. child' \in {child, "gone"} /\ terminated' \in {terminated, TRUE} /\ status' \in {status, cause}
    BY <1>31 DEF Waitpid, kernel, fields
  <2>5. status' \in {"none", "exit"} \cup Range(SIGNALS)
    BY <1>31 DEF Waitpid, fields, ScalarInv, TypeOK
  <2> QED BY <2>2, <2>3, <2>4, <2>5 DEF Control, ScalarInv, TypeOK, queue, history
<1>32. ASSUME NEW t \in Threads, Reaped(t)
      PROVE  ScalarInv'
  <2>1. ret[t] \in Returns
    BY <1>32 DEF Reaped, Control, Asking
  <2>2. pc'["main"] = "signal" \/ (Asking("main")' /\ ret'["main"] = "kill") => nsig \in 1 .. 4
    BY <1>32, <2>1, ResumeAt
       DEF Control, ScalarInv, Asking, Threads, Reaped, Answer, Goto, Raise
  <2>3. UNCHANGED <<cause, written, fd_open, flag_eof, closed, queue, late, nsig, calls, history>>
    BY <1>32 DEF Reaped, kernel, fields, loop, caller
  <2>4. child' \in {child, "gone"} /\ terminated' \in {terminated, TRUE} /\ status' \in {status, cause}
    BY <1>32 DEF Reaped, kernel, fields
  <2>5. status' \in {"none", "exit"} \cup Range(SIGNALS)
    BY <1>32 DEF Reaped, ScalarInv, TypeOK
  <2> QED BY <2>2, <2>3, <2>4, <2>5 DEF Control, ScalarInv, TypeOK, queue, history
<1>33. ASSUME NEW t \in Threads, ReadNonblocking(t)
      PROVE  ScalarInv'
  BY <1>33, ScriptLen, BoundAssumption
     DEF Control, ScalarInv, TypeOK, Asking, Threads, ReadNonblocking, CallIsalive, Goto,
         Raise, kernel, fields, queue, loop, caller, history
<1>34. ASSUME NEW t \in Threads, Select(t)
      PROVE  ScalarInv'
  BY <1>34, ScriptLen, BoundAssumption
     DEF Control, ScalarInv, TypeOK, Asking, Threads, Select, CallIsalive, Goto, Raise,
         Readable, kernel, fields, queue, loop, caller, history
<1>35. ASSUME NEW t \in Threads, OsRead(t)
      PROVE  ScalarInv'
  BY <1>35, ScriptLen, BoundAssumption
     DEF Control, ScalarInv, TypeOK, Asking, Threads, OsRead, Goto, kernel, fields, queue,
         loop, caller, history
<1>36. CASE UNCHANGED vars
  BY <1>36
     DEF Control, ScalarInv, TypeOK, Asking, Threads, vars, kernel, fields, queue, loop,
         caller, history
<1> QED BY <1>1, <1>2, <1>3, <1>4, <1>5, <1>6, <1>7, <1>8, <1>9, <1>10, <1>11, <1>12, <1>13,
           <1>14, <1>15, <1>16, <1>17, <1>18, <1>19, <1>20, <1>21, <1>22, <1>23, <1>24,
           <1>25, <1>26, <1>27, <1>28, <1>29, <1>30, <1>31, <1>32, <1>33, <1>34, <1>35,
           <1>36
        DEF Next, DrainThread, MainThread, Test, Threads

\* Without the drain thread the caller's thread reaps the child and nobody else:
\* what it has read of the fields is still so when it acts on it.
DirectInv ==
  /\ Direct => /\ ~drainpty /\ pc["drain"] = "none"
               /\ pc["main"] # "get"
               /\ pc["main"] = "signal" => child # "gone"
               /\ pc["main"] \in {"waitpid", "waithang", "wait"} => ~terminated
  /\ ReaperIsAlone

\* Without the drain thread the main thread acts on what is still so.
LEMMA DirectStep ==
  ASSUME Control, ChildInv, DirectInv, [Next]_vars
  PROVE  DirectInv'
<1>1. CASE ChildPrint
  BY <1>1
     DEF Control, DirectInv, ReaperIsAlone, Direct, Asking, Threads, ChildPrint, Running,
         kernel, fields, queue, history
<1>2. CASE ChildExit
  BY <1>2
     DEF Control, DirectInv, ReaperIsAlone, Direct, Asking, Threads, ChildExit, Running,
         kernel, fields, queue, history
<1>3. CASE ChildZombie
  BY <1>3
     DEF Control, DirectInv, ReaperIsAlone, Direct, Asking, Threads, ChildZombie, kernel,
         fields, queue, history
<1>4. CASE DrainStart
  BY <1>4
     DEF Control, DirectInv, ReaperIsAlone, Direct, Asking, Threads, DrainStart, Goto,
         kernel, fields, queue, history
<1>5. CASE DrainLoop
  BY <1>5
     DEF Control, DirectInv, ReaperIsAlone, Direct, Asking, Threads, DrainLoop, Goto, kernel,
         fields, queue, history
<1>6. CASE DrainPut
  BY <1>6
     DEF Control, DirectInv, ReaperIsAlone, Direct, Asking, Threads, DrainPut, Goto, kernel,
         fields, queue, history
<1>7. CASE DrainEof
  BY <1>7
     DEF Control, DirectInv, ReaperIsAlone, Direct, Asking, Threads, DrainEof, Goto, kernel,
         fields, queue, history
<1>8. CASE DrainLeave
  BY <1>8
     DEF Control, DirectInv, ReaperIsAlone, Direct, Asking, Threads, DrainLeave, Goto,
         kernel, fields, queue, history
<1>9. CASE StaleSelect
  BY <1>9
     DEF Control, DirectInv, ReaperIsAlone, Direct, Asking, Threads, StaleSelect, Goto,
         CallIsalive, Raise, kernel, fields, queue, history
<1>10. CASE ExpectSearch
  BY <1>10
     DEF Control, DirectInv, ReaperIsAlone, Direct, Asking, Threads, ExpectSearch, Goto,
         Return, kernel, fields, queue, history
<1>11. CASE ExpectGet
  BY <1>11
     DEF Control, DirectInv, ReaperIsAlone, Direct, Asking, Threads, ExpectGet, Feed, Goto,
         kernel, fields, queue, history
<1>12. CASE ExpectGot
  BY <1>12
     DEF Control, DirectInv, ReaperIsAlone, Direct, Asking, Threads, ExpectGot, Feed, Goto,
         kernel, fields, queue, history
<1>13. CASE ExpectEof
  BY <1>13
     DEF Control, DirectInv, ReaperIsAlone, Direct, Asking, Threads, ExpectEof, Return, Goto,
         kernel, fields, queue, history
<1>14. CASE ExpectTimeout
  BY <1>14
     DEF Control, DirectInv, ReaperIsAlone, Direct, Asking, Threads, ExpectTimeout, Return,
         Goto, kernel, fields, queue, history
<1>15. CASE Error
  BY <1>15
     DEF Control, DirectInv, ReaperIsAlone, Direct, Asking, Threads, Error, Return, Goto,
         kernel, fields, queue, history
<1>16. CASE Terminate
  BY <1>16
     DEF Control, DirectInv, ReaperIsAlone, Direct, Asking, Threads, Terminate, CallIsalive,
         Goto, kernel, fields, queue, history
<1>17. CASE Escalate
  BY <1>17
     DEF Control, DirectInv, ReaperIsAlone, Direct, Asking, Threads, Escalate, CallIsalive,
         Goto, kernel, fields, queue, history
<1>18. CASE Signal
  BY <1>18
     DEF Control, DirectInv, ReaperIsAlone, Direct, Asking, Threads, Signal, CallIsalive,
         Goto, Deliver, Running, kernel, fields, queue, history
<1>19. CASE Killed
  BY <1>19
     DEF Control, DirectInv, ReaperIsAlone, Direct, Asking, Threads, Killed, Return, Goto,
         kernel, fields, queue, history
<1>20. CASE Unkilled
  BY <1>20
     DEF Control, DirectInv, ReaperIsAlone, Direct, Asking, Threads, Unkilled, Return, Goto,
         kernel, fields, queue, history
<1>21. CASE Wait
  BY <1>21
     DEF Control, DirectInv, ReaperIsAlone, Direct, Asking, Threads, Wait, Goto, kernel,
         fields, queue, history
<1>22. CASE MethodReturns
  BY <1>22
     DEF Control, DirectInv, ReaperIsAlone, Direct, Asking, Threads, MethodReturns, Return,
         Goto, kernel, fields, queue, history
<1>23. CASE Spawn
  BY <1>23
     DEF Control, DirectInv, ReaperIsAlone, Direct, Asking, Threads, Spawn, Goto, kernel,
         fields, queue, history
<1>24. CASE ExpectCall
  BY <1>24
     DEF Control, DirectInv, ReaperIsAlone, Direct, Asking, Threads, ExpectCall, Call,
         NoCall, kernel, fields, queue, history
<1>25. CASE CloseCall
  BY <1>25
     DEF Control, DirectInv, ReaperIsAlone, Direct, Asking, Threads, CloseCall, Call, NoCall,
         kernel, fields, queue, history
<1>26. CASE TerminateCall
  BY <1>26
     DEF Control, DirectInv, ReaperIsAlone, Direct, Asking, Threads, TerminateCall, Call,
         NoCall, CallIsalive, Goto, kernel, fields, queue, history
<1>27. CASE WaitCall
  BY <1>27
     DEF Control, DirectInv, ReaperIsAlone, Direct, Asking, Threads, WaitCall, Call, NoCall,
         CallIsalive, Goto, kernel, fields, queue, history
<1>28. CASE IsaliveCall
  BY <1>28
     DEF Control, DirectInv, ReaperIsAlone, Direct, Asking, Threads, IsaliveCall, Call,
         NoCall, CallIsalive, Goto, kernel, fields, queue, history
<1>29. CASE Sendintr
  BY <1>29
     DEF Control, DirectInv, ReaperIsAlone, Direct, Asking, Threads, Sendintr, Call, NoCall,
         Goto, Deliver, Running, kernel, fields, queue, history
<1>30. ASSUME NEW t \in Threads, IsaliveTest(t)
      PROVE  DirectInv'
  <2>1. ret[t] \in Returns
    BY <1>30 DEF IsaliveTest, Control, Asking
  <2>2. Direct => t = "main"
    BY <1>30 DEF IsaliveTest, DirectInv, Threads
  <2>3. CASE ~Direct
    BY <1>30, <2>3 DEF DirectInv, ReaperIsAlone, Direct, IsaliveTest, history
  <2>4. CASE Direct
    BY <1>30, <2>1, <2>2, <2>4, ResumeAt
       DEF Control, ChildInv, DirectInv, ReaperIsAlone, Direct, Threads, IsaliveTest, Answer,
           Goto, Raise, kernel, fields, queue, history
  <2> QED BY <2>3, <2>4
<1>31. ASSUME NEW t \in Threads, Waitpid(t)
      PROVE  DirectInv'
  <2>1. ret[t] \in Returns
    BY <1>31 DEF Waitpid, Control, Asking
  <2>2. Direct => t = "main"
    BY <1>31 DEF Waitpid, DirectInv, Threads
  <2>3. CASE ~Direct
    BY <1>31, <2>3 DEF DirectInv, ReaperIsAlone, Direct, Waitpid, history
  <2>4. CASE Direct
    BY <1>31, <2>1, <2>2, <2>4, ResumeAt
       DEF Control, ChildInv, DirectInv, ReaperIsAlone, Direct, Threads, Waitpid, Answer,
           Goto, Raise, kernel, fields, queue, history
  <2> QED BY <2>3, <2>4
<1>32. ASSUME NEW t \in Threads, Reaped(t)
      PROVE  DirectInv'
  <2>1. ret[t] \in Returns
    BY <1>32 DEF Reaped, Control, Asking
  <2>2. Direct => t = "main"
    BY <1>32 DEF Reaped, DirectInv, Threads
  <2>3. CASE ~Direct
    BY <1>32, <2>3 DEF DirectInv, ReaperIsAlone, Direct, Reaped, history
  <2>4. CASE Direct
    BY <1>32, <2>1, <2>2, <2>4, ResumeAt
       DEF Control, ChildInv, DirectInv, ReaperIsAlone, Direct, Threads, Reaped, Answer,
           Goto, Raise, kernel, fields, queue, history
  <2> QED BY <2>3, <2>4
<1>33. ASSUME NEW t \in Threads, ReadNonblocking(t)
      PROVE  DirectInv'
  BY <1>33
     DEF Control, DirectInv, ReaperIsAlone, Direct, Asking, Threads, ReadNonblocking,
         CallIsalive, Goto, Raise, kernel, fields, queue, history
<1>34. ASSUME NEW t \in Threads, Select(t)
      PROVE  DirectInv'
  BY <1>34
     DEF Control, DirectInv, ReaperIsAlone, Direct, Asking, Threads, Select, CallIsalive,
         Goto, Raise, Readable, kernel, fields, queue, history
<1>35. ASSUME NEW t \in Threads, OsRead(t)
      PROVE  DirectInv'
  BY <1>35
     DEF Control, DirectInv, ReaperIsAlone, Direct, Asking, Threads, OsRead, Goto, kernel,
         fields, queue, history
<1>36. CASE UNCHANGED vars
  BY <1>36
     DEF Control, DirectInv, ReaperIsAlone, Direct, Asking, Threads, vars, kernel, fields,
         queue, history
<1> QED BY <1>1, <1>2, <1>3, <1>4, <1>5, <1>6, <1>7, <1>8, <1>9, <1>10, <1>11, <1>12, <1>13,
           <1>14, <1>15, <1>16, <1>17, <1>18, <1>19, <1>20, <1>21, <1>22, <1>23, <1>24,
           <1>25, <1>26, <1>27, <1>28, <1>29, <1>30, <1>31, <1>32, <1>33, <1>34, <1>35,
           <1>36
        DEF Next, DrainThread, MainThread, Test, Threads

\* The greater of 0 and a number is one of the two.
LEMMA MaxIsOne ==
  ASSUME NEW x \in Int
  PROVE  Max({0, x}) \in {0, x} /\ Max({0, x}) >= 0 /\ Max({0, x}) >= x
<1>1. \E m \in {0, x} : \A y \in {0, x} : m >= y
  <2>1. CASE x >= 0
    BY <2>1
  <2>2. CASE x < 0
    BY <2>2
  <2> QED BY <2>1, <2>2
<1>2. Max({0, x}) \in {0, x} /\ \A y \in {0, x} : Max({0, x}) >= y
  BY <1>1 DEF Max
<1> QED BY <1>2

\* Both searchers begin at a place of the buffer or at its end.
LEMMA StartIsPlace ==
  ASSUME NEW b \in Seq(STRING), NEW s \in Seq(STRING), NEW fresh \in Nat,
         NEW window \in Nat \cup {-1}
  PROVE  StartOfString(b, fresh, s, window) \in Nat /\ StartOfRe(b, window) \in Nat
<1> DEFINE back == IF window = -1 THEN fresh + Len(s) ELSE window
<1>1. Len(b) \in Nat /\ Len(s) \in Nat
  BY LenProperties
<1>2. \A k \in Int : Max({0, Len(b) - k}) \in Nat
  BY <1>1, MaxIsOne
<1>3. back \in Int
  BY <1>1
<1>4. StartOfString(b, fresh, s, window) = IF back = 0 THEN 0 ELSE Max({0, Len(b) - back})
  BY DEF StartOfString
<1>5. StartOfString(b, fresh, s, window) \in Nat
  <2> HIDE DEF back
  <2> QED BY <1>2, <1>3, <1>4
<1> QED BY <1>2, <1>5 DEF StartOfRe

\* A text lies within the buffer.
LEMMA PlaceInBuffer ==
  ASSUME NEW b \in Seq(STRING), NEW s \in Seq(STRING), NEW from \in Nat,
         NEW n \in Places(b, s, from)
  PROVE  /\ n \in Nat /\ n >= from /\ n + Len(s) <= Len(b)
         /\ SubSeq(b, n + 1, n + Len(s)) = s
<1>1. Len(b) \in Nat /\ Len(s) \in Nat
  BY LenProperties
<1>2. n \in from .. (Len(b) - Len(s)) /\ SubSeq(b, n + 1, n + Len(s)) = s
  BY DEF Places
<1> QED BY <1>1, <1>2

\* A text of a pattern is a sequence of characters.
LEMMA TextOf ==
  ASSUME NEW searcher \in Searcher, NEW i \in DOMAIN searcher.pats
  PROVE  /\ searcher.pats[i].s \in Seq(STRING) /\ Len(searcher.pats[i].s) \in Nat
         /\ i \in Nat /\ i > 0
<1>1. searcher.pats \in Seq(Pattern)
  BY DEF Searcher
<1>2. searcher.pats[i] \in Pattern /\ i \in 1 .. Len(searcher.pats) /\ Len(searcher.pats) \in Nat
  BY <1>1, ElementOfSeq, LenProperties
<1>3. searcher.pats[i].s \in Seq(STRING)
  BY <1>2 DEF Pattern
<1> QED BY <1>2, <1>3, LenProperties

\* Of some pairs of numbers one comes first.
LEMMA FirstPair ==
  ASSUME NEW H, H \subseteq Nat \X Nat, H # {}
  PROVE  \E x \in H : \A y \in H : x[1] < y[1] \/ (x[1] = y[1] /\ x[2] <= y[2])
<1> DEFINE N == {h[1] : h \in H}
<1>1. PICK n \in N : \A m \in N : n <= m
  <2>1. N \subseteq Nat /\ N # {}
    OBVIOUS
  <2> HIDE DEF N
  <2> QED BY <2>1, Smallest
<1> DEFINE I == {h[2] : h \in {g \in H : g[1] = n}}
<1>2. PICK i \in I : \A j \in I : i <= j
  <2>1. I \subseteq Nat /\ I # {}
    OBVIOUS
  <2> HIDE DEF I
  <2> QED BY <2>1, Smallest
<1>3. PICK x \in H : x[1] = n /\ x[2] = i
  OBVIOUS
<1>4. ASSUME NEW y \in H PROVE x[1] < y[1] \/ (x[1] = y[1] /\ x[2] <= y[2])
  <2>1. x[1] \in Nat /\ y[1] \in Nat /\ n <= y[1]
    BY <1>1
  <2>2. y[1] = n => i <= y[2]
    BY <1>2
  <2> QED BY <1>3, <2>1, <2>2
<1> QED BY <1>4

\* A match lies in the buffer.
LEMMA MatchInBuffer ==
  ASSUME NEW searcher \in Searcher, NEW b \in Seq(STRING), NEW fresh \in Nat,
         search(searcher, b, fresh).index > 0
  PROVE  search(searcher, b, fresh).end \in 0 .. Len(b)
<1> DEFINE start(s) == IF searcher.exact THEN StartOfString(b, fresh, s, searcher.window)
                       ELSE StartOfRe(b, searcher.window)
           texts == {j \in DOMAIN searcher.pats : searcher.pats[j].type = "text"}
           hits == UNION {{<<n, i>> : n \in Places(b, searcher.pats[i].s,
                                                   start(searcher.pats[i].s))} : i \in texts}
           inside == {h \in hits : h[1] < Len(b)}
           first(x) == \A y \in inside : x[1] < y[1] \/ (x[1] = y[1] /\ x[2] <= y[2])
           found == CHOOSE x \in inside : first(x)
<1>1. Len(b) \in Nat /\ searcher.window \in Int /\ searcher.pats \in Seq(Pattern)
  BY LenProperties DEF Searcher
<1>2. ASSUME NEW s \in Seq(STRING) PROVE start(s) \in Nat
  BY <1>1, StartIsPlace DEF Searcher
<1>3. ASSUME NEW h \in hits
      PROVE  \E i \in texts : /\ h = <<h[1], i>> /\ h[1] \in Nat /\ i \in Nat
                              /\ h[1] + Len(searcher.pats[i].s) \in 0 .. Len(b)
  <2>1. PICK i \in texts : h \in {<<n, i>> : n \in Places(b, searcher.pats[i].s,
                                                         start(searcher.pats[i].s))}
    OBVIOUS
  <2>2. PICK n \in Places(b, searcher.pats[i].s, start(searcher.pats[i].s)) : h = <<n, i>>
    BY <2>1
  <2> DEFINE s == searcher.pats[i].s
  <2>3. s \in Seq(STRING) /\ Len(s) \in Nat /\ i \in Nat
    BY TextOf
  <2>4. start(s) \in Nat
    BY <1>2, <2>3
  <2>5. n \in Nat /\ n + Len(s) <= Len(b)
    <3> HIDE DEF s, start
    <3>1. n \in Places(b, s, start(s))
      BY DEF s
    <3> QED BY <2>3, <2>4, <3>1, PlaceInBuffer
  <2>7. n \in Nat /\ n + Len(s) \in 0 .. Len(b)
    <3> HIDE DEF s
    <3> QED BY <1>1, <2>3, <2>5
  <2>8. h[1] = n
    BY <2>2
  <2> QED BY <2>2, <2>3, <2>7, <2>8
<1>4. search(searcher, b, fresh) =
        IF inside = {} THEN [index |-> 0, start |-> 0, end |-> 0]
        ELSE [index |-> found[2], start |-> found[1],
              end |-> found[1] + Len(searcher.pats[found[2]].s)]
  BY DEF search
<1> HIDE DEF hits
<1>5. inside # {}
  <2> SUFFICES ASSUME inside = {} PROVE FALSE
    OBVIOUS
  <2> QED BY <1>4
<1>6. found \in inside
  <2>1. inside \subseteq Nat \X Nat
    BY <1>3
  <2>2. \E x \in inside : first(x)
    BY <2>1, <1>5, FirstPair
  <2> HIDE DEF inside, first
  <2> QED BY <2>2
<1>7. PICK i \in texts : found = <<found[1], i>> /\ found[1] + Len(searcher.pats[i].s) \in 0 .. Len(b)
  BY <1>3, <1>6
<1> HIDE DEF found, inside, texts
<1> QED BY <1>4, <1>5, <1>7

\* What is written and read are sequences of characters.
SeqInv ==
  /\ tty \in Seq(STRING) /\ buffer \in Seq(STRING) /\ incoming \in Seq(STRING)
  /\ consumed \in Seq(STRING) /\ chunk \in [Threads -> Seq(STRING)]
  /\ readQueue \in Seq(Seq(STRING))
  /\ freshlen \in Nat
  /\ call.searcher \in Searcher

\* A sequence cut in two.
LEMMA Cut ==
  ASSUME NEW s \in Seq(STRING), NEW n \in 0 .. Len(s)
  PROVE  /\ SubSeq(s, 1, n) \in Seq(STRING) /\ Len(SubSeq(s, 1, n)) = n
         /\ SubSeq(s, n + 1, Len(s)) \in Seq(STRING) /\ Len(SubSeq(s, n + 1, Len(s))) = Len(s) - n
<1>1. Len(s) \in Nat /\ \A i \in 1 .. Len(s) : s[i] \in STRING
  BY LenProperties, ElementOfSeq
<1> QED BY <1>1, SubSeqProperties

\* The place-holder is a searcher too.
LEMMA NoSearcherIsOne == NoSearcher \in Searcher
BY DEF NoSearcher, Searcher, Pattern

\* os.read returns at least one character of what there is.
LEMMA ReadSize ==
  ASSUME NEW s \in Seq(STRING)
  PROVE  /\ Min({Len(s), MaxRead}) \in 0 .. Len(s)
         /\ s # <<>> => Min({Len(s), MaxRead}) > 0
<1>1. Len(s) \in Nat /\ MaxRead \in Nat \ {0} /\ (s # <<>> => Len(s) > 0)
  BY LenProperties, EmptySeq, BoundAssumption
<1> DEFINE S == {Len(s), MaxRead}
<1>2. \E m \in S : \A y \in S : m <= y
  <2>1. CASE Len(s) <= MaxRead
    BY <1>1, <2>1
  <2>2. CASE Len(s) > MaxRead
    BY <1>1, <2>2
  <2> QED BY <1>1, <2>1, <2>2
<1>3. Min(S) \in S /\ \A y \in S : Min(S) <= y
  BY <1>2 DEF Min
<1> QED BY <1>1, <1>3

\* What is read, held and queued stays sequences of characters.
LEMMA SeqStep ==
  ASSUME ScalarInv, SeqInv, [Next]_vars
  PROVE  SeqInv'
<1>1. CASE ChildPrint
  <2>1. Script[written + 1] \in STRING
    BY <1>1, ScriptAssumption, ScriptLen, ElementOfSeq DEF ChildPrint, ScalarInv, TypeOK
  <2> QED BY <1>1, <2>1, AppendProperties DEF SeqInv, ChildPrint, queue, loop, caller
<1>2. CASE ChildExit
  BY <1>2
     DEF SeqInv, Threads, ChildExit, Running, kernel, queue, loop, caller
<1>3. CASE ChildZombie
  BY <1>3
     DEF SeqInv, Threads, ChildZombie, kernel, queue, loop, caller
<1>4. CASE DrainStart
  BY <1>4
     DEF SeqInv, Threads, DrainStart, Goto, kernel, queue, loop, caller
<1>5. CASE DrainLoop
  BY <1>5
     DEF SeqInv, Threads, DrainLoop, Goto, kernel, queue, loop, caller
<1>6. CASE DrainPut
  <2>1. chunk["drain"] \in Seq(STRING)
    BY DEF SeqInv, Threads
  <2> QED BY <1>6, <2>1, EmptySeq, AppendProperties
        DEF SeqInv, Threads, DrainPut, kernel, loop, caller
<1>7. CASE DrainEof
  <2>1. None \in Seq(STRING)
    BY DEF None
  <2> QED BY <1>7, <2>1, AppendProperties DEF SeqInv, DrainEof, kernel, loop, caller
<1>8. CASE DrainLeave
  BY <1>8
     DEF SeqInv, Threads, DrainLeave, Goto, kernel, queue, loop, caller
<1>9. CASE StaleSelect
  BY <1>9
     DEF SeqInv, Threads, StaleSelect, Goto, CallIsalive, Raise, kernel, queue, loop, caller
<1>10. CASE ExpectSearch
  <2> DEFINE m == search(call.searcher, incoming, freshlen)
  <2>1. CASE m.index > 0
    <3>1. m.end \in 0 .. Len(incoming)
      BY <2>1, MatchInBuffer DEF SeqInv
    <3> HIDE DEF m
    <3>2. /\ SubSeq(incoming, m.end + 1, Len(incoming)) \in Seq(STRING)
          /\ consumed \o SubSeq(incoming, 1, m.end) \in Seq(STRING)
      BY <3>1, Cut, ConcatProperties DEF SeqInv
    <3>3. /\ buffer' = SubSeq(incoming, m.end + 1, Len(incoming))
          /\ consumed' = consumed \o SubSeq(incoming, 1, m.end)
          /\ incoming' = <<>> /\ freshlen' = 0 /\ call' = NoCall
          /\ UNCHANGED <<tty, chunk, readQueue>>
      BY <1>10, <2>1 DEF ExpectSearch, Return, kernel, queue, m
    <3> QED BY <3>2, <3>3, NoSearcherIsOne DEF SeqInv, NoCall
  <2>2. CASE ~(m.index > 0)
    BY <1>10, <2>2 DEF SeqInv, ExpectSearch, kernel, queue, loop, caller
  <2> QED BY <2>1, <2>2
<1>11. CASE ExpectGet
  <2>1. CASE readQueue # <<>> /\ Feed(Head(readQueue)) /\ readQueue' = Tail(readQueue)
    <3>1. Head(readQueue) \in Seq(STRING) /\ Tail(readQueue) \in Seq(Seq(STRING))
      BY <2>1, HeadTailProperties DEF SeqInv
    <3>2. incoming \o Head(readQueue) \in Seq(STRING) /\ Len(Head(readQueue)) \in Nat
      BY <3>1, ConcatProperties, LenProperties DEF SeqInv
    <3> QED BY <1>11, <2>1, <3>1, <3>2 DEF SeqInv, ExpectGet, Feed, kernel, caller
  <2>2. CASE UNCHANGED <<buffer, consumed, incoming, freshlen, readQueue>>
    BY <1>11, <2>2 DEF SeqInv, ExpectGet, kernel, caller
  <2> QED BY <1>11, <2>1, <2>2 DEF ExpectGet
<1>12. CASE ExpectGot
  <2>1. chunk["main"] \in Seq(STRING)
    BY DEF SeqInv, Threads
  <2>2. incoming \o chunk["main"] \in Seq(STRING) /\ Len(chunk["main"]) \in Nat
    BY <2>1, ConcatProperties, LenProperties DEF SeqInv
  <2> QED BY <1>12, <2>2 DEF SeqInv, Threads, ExpectGot, Feed, kernel, queue, caller
<1>13. CASE ExpectEof
  <2>1. consumed \o incoming \in Seq(STRING)
    BY ConcatProperties DEF SeqInv
  <2> QED BY <1>13, <2>1, NoSearcherIsOne
        DEF SeqInv, Threads, ExpectEof, Return, NoCall, kernel, queue
<1>14. CASE ExpectTimeout
  BY <1>14, NoSearcherIsOne
     DEF SeqInv, Threads, ExpectTimeout, Return, Goto, NoCall, kernel, queue, loop, caller
<1>15. CASE Error
  BY <1>15, NoSearcherIsOne
     DEF SeqInv, Threads, Error, Return, Goto, NoCall, kernel, queue, loop, caller
<1>16. CASE Terminate
  BY <1>16
     DEF SeqInv, Threads, Terminate, CallIsalive, Goto, kernel, queue, loop, caller
<1>17. CASE Escalate
  BY <1>17
     DEF SeqInv, Threads, Escalate, CallIsalive, Goto, kernel, queue, loop, caller
<1>18. CASE Signal
  BY <1>18
     DEF SeqInv, Threads, Signal, CallIsalive, Goto, Deliver, Running, kernel, queue, loop,
         caller
<1>19. CASE Killed
  BY <1>19, NoSearcherIsOne
     DEF SeqInv, Threads, Killed, Return, Goto, NoCall, kernel, queue, loop, caller
<1>20. CASE Unkilled
  BY <1>20, NoSearcherIsOne
     DEF SeqInv, Threads, Unkilled, Return, Goto, NoCall, kernel, queue, loop, caller
<1>21. CASE Wait
  BY <1>21
     DEF SeqInv, Threads, Wait, Goto, kernel, queue, loop, caller
<1>22. CASE MethodReturns
  BY <1>22, NoSearcherIsOne
     DEF SeqInv, Threads, MethodReturns, Return, Goto, NoCall, kernel, queue, loop, caller
<1>23. CASE Spawn
  BY <1>23
     DEF SeqInv, Threads, Spawn, Goto, kernel, queue, loop, caller
<1>24. CASE ExpectCall
  <2>1. freshlen' \in Nat
    BY <1>24, LenProperties DEF SeqInv, ExpectCall
  <2>2. call'.searcher \in Searcher
    BY <1>24, SearcherAssumption DEF ExpectCall, Call, NoCall
  <2> QED BY <1>24, <2>1, <2>2 DEF SeqInv, ExpectCall, kernel, queue
<1>25. CASE CloseCall
  BY <1>25, NoSearcherIsOne
     DEF SeqInv, Threads, CloseCall, Call, NoCall, kernel, queue, loop, caller
<1>26. CASE TerminateCall
  BY <1>26, NoSearcherIsOne
     DEF SeqInv, Threads, TerminateCall, Call, NoCall, CallIsalive, Goto, kernel, queue,
         loop, caller
<1>27. CASE WaitCall
  BY <1>27, NoSearcherIsOne
     DEF SeqInv, Threads, WaitCall, Call, NoCall, CallIsalive, Goto, kernel, queue, loop,
         caller
<1>28. CASE IsaliveCall
  BY <1>28, NoSearcherIsOne
     DEF SeqInv, Threads, IsaliveCall, Call, NoCall, CallIsalive, Goto, kernel, queue, loop,
         caller
<1>29. CASE Sendintr
  BY <1>29, NoSearcherIsOne
     DEF SeqInv, Threads, Sendintr, Call, NoCall, Goto, Deliver, Running, kernel, queue,
         loop, caller
<1>30. ASSUME NEW t \in Threads, IsaliveTest(t)
      PROVE  SeqInv'
  BY <1>30
     DEF SeqInv, Threads, IsaliveTest, Answer, Goto, kernel, queue, loop, caller
<1>31. ASSUME NEW t \in Threads, Waitpid(t)
      PROVE  SeqInv'
  BY <1>31
     DEF SeqInv, Threads, Waitpid, Answer, Goto, Raise, kernel, queue, loop, caller
<1>32. ASSUME NEW t \in Threads, Reaped(t)
      PROVE  SeqInv'
  BY <1>32
     DEF SeqInv, Threads, Reaped, Answer, Goto, kernel, queue, loop, caller
<1>33. ASSUME NEW t \in Threads, ReadNonblocking(t)
      PROVE  SeqInv'
  BY <1>33
     DEF SeqInv, Threads, ReadNonblocking, CallIsalive, Goto, Raise, kernel, queue, loop,
         caller
<1>34. ASSUME NEW t \in Threads, Select(t)
      PROVE  SeqInv'
  BY <1>34
     DEF SeqInv, Threads, Select, CallIsalive, Goto, Raise, Readable, kernel, queue, loop,
         caller
<1>35. ASSUME NEW t \in Threads, OsRead(t)
      PROVE  SeqInv'
  <2> DEFINE n == Min({Len(tty), MaxRead})
  <2>1. n \in 0 .. Len(tty)
    BY ReadSize DEF SeqInv
  <2> HIDE DEF n
  <2>2. SubSeq(tty, 1, n) \in Seq(STRING) /\ SubSeq(tty, n + 1, Len(tty)) \in Seq(STRING)
    BY <2>1, Cut DEF SeqInv
  <2>3. /\ chunk' \in {chunk, [chunk EXCEPT ![t] = SubSeq(tty, 1, n)]}
        /\ tty' \in {tty, SubSeq(tty, n + 1, Len(tty))}
        /\ UNCHANGED <<queue, loop, caller>>
    BY <1>35 DEF OsRead, n
  <2> QED BY <2>2, <2>3 DEF SeqInv, queue, loop, caller
<1>36. CASE UNCHANGED vars
  BY <1>36 DEF SeqInv, Threads, vars, kernel, queue, loop, caller
<1> QED BY <1>1, <1>2, <1>3, <1>4, <1>5, <1>6, <1>7, <1>8, <1>9, <1>10, <1>11, <1>12, <1>13,
           <1>14, <1>15, <1>16, <1>17, <1>18, <1>19, <1>20, <1>21, <1>22, <1>23, <1>24,
           <1>25, <1>26, <1>27, <1>28, <1>29, <1>30, <1>31, <1>32, <1>33, <1>34, <1>35,
           <1>36
        DEF Next, DrainThread, MainThread, Test, Threads

\* The main thread is in expect_loop.
InLoop == \/ pc["main"] \in {"search", "get", "got", "eof", "timeout", "read_nonblocking",
                             "select", "os.read"}
          \/ Asking("main") /\ ret["main"] \in {"read", "late"}

\* What a thread has read is put away before it reads again; on a closed terminal
\* expect finds nothing more before it fails.
LoopInv ==
  /\ InLoop => InExpect
  /\ InExpect => InLoop \/ pc["main"] = "error"
  /\ \A t \in Threads : pc[t] # "got" => chunk[t] = <<>>
  /\ Direct /\ InExpect /\ ~fd_open =>
       /\ incoming = buffer
       /\ pc["main"] \notin {"os.read", "got", "eof"}
       /\ ~(Asking("main") /\ ret["main"] = "late")

\* expect_loop is left and entered as a whole, and what it read is put away.
LEMMA LoopStep ==
  ASSUME Control, DirectInv, SeqInv, LoopInv, [Next]_vars
  PROVE  LoopInv'
<1>1. CASE ChildPrint
  BY <1>1
     DEF Control, SeqInv, DirectInv, LoopInv, InLoop, InExpect, Direct, Asking, Threads,
         ChildPrint, Running, kernel, loop, caller, history
<1>2. CASE ChildExit
  BY <1>2
     DEF Control, SeqInv, DirectInv, LoopInv, InLoop, InExpect, Direct, Asking, Threads,
         ChildExit, Running, kernel, loop, caller, history
<1>3. CASE ChildZombie
  BY <1>3
     DEF Control, SeqInv, DirectInv, LoopInv, InLoop, InExpect, Direct, Asking, Threads,
         ChildZombie, kernel, loop, caller, history
<1>4. CASE DrainStart
  BY <1>4
     DEF Control, SeqInv, DirectInv, LoopInv, InLoop, InExpect, Direct, Asking, Threads,
         DrainStart, Goto, kernel, loop, caller, history
<1>5. CASE DrainLoop
  BY <1>5
     DEF Control, SeqInv, DirectInv, LoopInv, InLoop, InExpect, Direct, Asking, Threads,
         DrainLoop, Goto, kernel, loop, caller, history
<1>6. CASE DrainPut
  BY <1>6
     DEF Control, SeqInv, DirectInv, LoopInv, InLoop, InExpect, Direct, Asking, Threads,
         DrainPut, Goto, kernel, loop, caller, history
<1>7. CASE DrainEof
  BY <1>7
     DEF Control, SeqInv, DirectInv, LoopInv, InLoop, InExpect, Direct, Asking, Threads,
         DrainEof, Goto, kernel, loop, caller, history
<1>8. CASE DrainLeave
  BY <1>8
     DEF Control, SeqInv, DirectInv, LoopInv, InLoop, InExpect, Direct, Asking, Threads,
         DrainLeave, Goto, kernel, loop, caller, history
<1>9. CASE StaleSelect
  BY <1>9
     DEF Control, SeqInv, DirectInv, LoopInv, InLoop, InExpect, Direct, Asking, Threads,
         StaleSelect, Goto, CallIsalive, Raise, kernel, loop, caller, history
<1>10. CASE ExpectSearch
  <2>1. UNCHANGED <<chunk, fd_open, drained, ret>>
    BY <1>10 DEF ExpectSearch, kernel, history
  <2>2. \/ pc' = [pc EXCEPT !["main"] = "idle"] /\ call' = NoCall
        \/ pc' = [pc EXCEPT !["main"] = "timeout"] /\ UNCHANGED <<call, loop>>
        \/ pc' = [pc EXCEPT !["main"] = "get"] /\ UNCHANGED <<call, loop>>
        \/ pc' = [pc EXCEPT !["main"] = "read_nonblocking"] /\ UNCHANGED <<call, loop>>
    BY <1>10 DEF ExpectSearch, Goto, Return, caller
  <2> QED BY <1>10, <2>1, <2>2, SMTT(30)
          DEF Control, LoopInv, InLoop, InExpect, Direct, Asking, Threads, ExpectSearch,
              NoCall, SeqInv, loop
<1>11. CASE ExpectGet
  BY <1>11
     DEF Control, SeqInv, DirectInv, LoopInv, InLoop, InExpect, Direct, Asking, Threads,
         ExpectGet, Feed, Goto, kernel, loop, caller, history
<1>12. CASE ExpectGot
  BY <1>12
     DEF Control, SeqInv, DirectInv, LoopInv, InLoop, InExpect, Direct, Asking, Threads,
         ExpectGot, Feed, Goto, kernel, loop, caller, history
<1>13. CASE ExpectEof
  BY <1>13
     DEF Control, SeqInv, DirectInv, LoopInv, InLoop, InExpect, Direct, Asking, Threads,
         ExpectEof, Return, Goto, NoCall, kernel, loop, caller, history
<1>14. CASE ExpectTimeout
  BY <1>14
     DEF Control, SeqInv, DirectInv, LoopInv, InLoop, InExpect, Direct, Asking, Threads,
         ExpectTimeout, Return, Goto, NoCall, kernel, loop, caller, history
<1>15. CASE Error
  BY <1>15
     DEF Control, SeqInv, DirectInv, LoopInv, InLoop, InExpect, Direct, Asking, Threads,
         Error, Return, Goto, NoCall, kernel, loop, caller, history
<1>16. CASE Terminate
  BY <1>16
     DEF Control, SeqInv, DirectInv, LoopInv, InLoop, InExpect, Direct, Asking, Threads,
         Terminate, CallIsalive, Goto, kernel, loop, caller, history
<1>17. CASE Escalate
  BY <1>17
     DEF Control, SeqInv, DirectInv, LoopInv, InLoop, InExpect, Direct, Asking, Threads,
         Escalate, CallIsalive, Goto, kernel, loop, caller, history
<1>18. CASE Signal
  BY <1>18
     DEF Control, SeqInv, DirectInv, LoopInv, InLoop, InExpect, Direct, Asking, Threads,
         Signal, CallIsalive, Goto, Deliver, Running, kernel, loop, caller, history
<1>19. CASE Killed
  BY <1>19
     DEF Control, SeqInv, DirectInv, LoopInv, InLoop, InExpect, Direct, Asking, Threads,
         Killed, Return, Goto, NoCall, kernel, loop, caller, history
<1>20. CASE Unkilled
  BY <1>20
     DEF Control, SeqInv, DirectInv, LoopInv, InLoop, InExpect, Direct, Asking, Threads,
         Unkilled, Return, Goto, NoCall, kernel, loop, caller, history
<1>21. CASE Wait
  BY <1>21
     DEF Control, SeqInv, DirectInv, LoopInv, InLoop, InExpect, Direct, Asking, Threads,
         Wait, Goto, kernel, loop, caller, history
<1>22. CASE MethodReturns
  BY <1>22
     DEF Control, SeqInv, DirectInv, LoopInv, InLoop, InExpect, Direct, Asking, Threads,
         MethodReturns, Return, Goto, NoCall, kernel, loop, caller, history
<1>23. CASE Spawn
  BY <1>23
     DEF Control, SeqInv, DirectInv, LoopInv, InLoop, InExpect, Direct, Asking, Threads,
         Spawn, Goto, kernel, loop, caller, history
<1>24. CASE ExpectCall
  BY <1>24
     DEF Control, SeqInv, DirectInv, LoopInv, InLoop, InExpect, Direct, Asking, Threads,
         ExpectCall, Call, NoCall, kernel, loop, caller, history
<1>25. CASE CloseCall
  BY <1>25
     DEF Control, SeqInv, DirectInv, LoopInv, InLoop, InExpect, Direct, Asking, Threads,
         CloseCall, Call, NoCall, kernel, loop, caller, history
<1>26. CASE TerminateCall
  BY <1>26
     DEF Control, SeqInv, DirectInv, LoopInv, InLoop, InExpect, Direct, Asking, Threads,
         TerminateCall, Call, NoCall, CallIsalive, Goto, kernel, loop, caller, history
<1>27. CASE WaitCall
  BY <1>27
     DEF Control, SeqInv, DirectInv, LoopInv, InLoop, InExpect, Direct, Asking, Threads,
         WaitCall, Call, NoCall, CallIsalive, Goto, kernel, loop, caller, history
<1>28. CASE IsaliveCall
  BY <1>28
     DEF Control, SeqInv, DirectInv, LoopInv, InLoop, InExpect, Direct, Asking, Threads,
         IsaliveCall, Call, NoCall, CallIsalive, Goto, kernel, loop, caller, history
<1>29. CASE Sendintr
  BY <1>29
     DEF Control, SeqInv, DirectInv, LoopInv, InLoop, InExpect, Direct, Asking, Threads,
         Sendintr, Call, NoCall, Goto, Deliver, Running, kernel, loop, caller, history
<1>30. ASSUME NEW t \in Threads, IsaliveTest(t)
      PROVE  LoopInv'
  <2>1. ret[t] \in Returns
    BY <1>30 DEF IsaliveTest, Control, Asking
  <2>2. CASE t = "main"
    BY <1>30, <2>1, <2>2, ResumeAt, ZenonT(40)
       DEF Control, DirectInv, ReaperIsAlone, LoopInv, InLoop, InExpect, Direct, Asking,
           Threads, IsaliveTest, Answer, Goto, Raise, kernel, loop, caller, history
  <2>3. CASE t = "drain"
    BY <1>30, <2>1, <2>3, ResumeAt, ZenonT(40)
       DEF Control, LoopInv, InLoop, InExpect, Direct, Asking, Threads, IsaliveTest, Answer,
           Goto, Raise, kernel, loop, caller, history
  <2> QED BY <2>2, <2>3 DEF Threads
<1>31. ASSUME NEW t \in Threads, Waitpid(t)
      PROVE  LoopInv'
  <2>1. ret[t] \in Returns
    BY <1>31 DEF Waitpid, Control, Asking
  <2>2. CASE t = "main"
    BY <1>31, <2>1, <2>2, ResumeAt, ZenonT(40)
       DEF Control, DirectInv, ReaperIsAlone, LoopInv, InLoop, InExpect, Direct, Asking,
           Threads, Waitpid, Answer, Goto, Raise, kernel, loop, caller, history
  <2>3. CASE t = "drain"
    BY <1>31, <2>1, <2>3, ResumeAt, ZenonT(40)
       DEF Control, LoopInv, InLoop, InExpect, Direct, Asking, Threads, Waitpid, Answer,
           Goto, Raise, kernel, loop, caller, history
  <2> QED BY <2>2, <2>3 DEF Threads
<1>32. ASSUME NEW t \in Threads, Reaped(t)
      PROVE  LoopInv'
  <2>1. ret[t] \in Returns
    BY <1>32 DEF Reaped, Control, Asking
  <2>2. CASE t = "main"
    BY <1>32, <2>1, <2>2, ResumeAt
       DEF Control, DirectInv, ReaperIsAlone, LoopInv, InLoop, InExpect, Direct, Asking,
           Threads, Reaped, Answer, Goto, Raise, kernel, loop, caller, history
  <2>3. CASE t = "drain"
    BY <1>32, <2>1, <2>3, ResumeAt
       DEF Control, LoopInv, InLoop, InExpect, Direct, Asking, Threads, Reaped, Answer, Goto,
           Raise, kernel, loop, caller, history
  <2> QED BY <2>2, <2>3 DEF Threads
<1>33. ASSUME NEW t \in Threads, ReadNonblocking(t)
      PROVE  LoopInv'
  BY <1>33
     DEF Control, SeqInv, DirectInv, LoopInv, InLoop, InExpect, Direct, Asking, Threads,
         ReadNonblocking, CallIsalive, Goto, Raise, kernel, loop, caller, history
<1>34. ASSUME NEW t \in Threads, Select(t)
      PROVE  LoopInv'
  BY <1>34
     DEF Control, SeqInv, DirectInv, LoopInv, InLoop, InExpect, Direct, Asking, Threads,
         Select, CallIsalive, Goto, Raise, Readable, kernel, loop, caller, history
<1>35. ASSUME NEW t \in Threads, OsRead(t)
      PROVE  LoopInv'
  BY <1>35
     DEF Control, SeqInv, DirectInv, LoopInv, InLoop, InExpect, Direct, Asking, Threads,
         OsRead, Goto, kernel, loop, caller, history
<1>36. CASE UNCHANGED vars
  BY <1>36
     DEF Control, SeqInv, DirectInv, LoopInv, InLoop, InExpect, Direct, Asking, Threads,
         vars, kernel, loop, caller, history
<1> QED BY <1>1, <1>2, <1>3, <1>4, <1>5, <1>6, <1>7, <1>8, <1>9, <1>10, <1>11, <1>12, <1>13,
           <1>14, <1>15, <1>16, <1>17, <1>18, <1>19, <1>20, <1>21, <1>22, <1>23, <1>24,
           <1>25, <1>26, <1>27, <1>28, <1>29, <1>30, <1>31, <1>32, <1>33, <1>34, <1>35,
           <1>36
        DEF Next, DrainThread, MainThread, Test, Threads

\* The child has closed its terminal.
Ended == child \in {"exiting", "zombie", "gone"}

\* The main thread reads the terminal itself.
MainReads == \/ pc["main"] \in {"read_nonblocking", "select", "os.read"}
             \/ Asking("main") /\ ret["main"] = "read"

\* At most one thread reads the terminal, so what select has found is still there
\* for os.read; a read that finds nothing is the end of the output, unless the
\* caller has closed the terminal.
ReadInv ==
  /\ pc["drain"] \notin {"none", "done"} => drainpty
  /\ MainReads => ~drainpty
  /\ pc["drain"] = "stale select" => ~fd_open
  /\ \A t \in Threads : pc[t] = "os.read" /\ fd_open => tty # <<>> \/ Ended
  /\ \A t \in Threads : pc[t] = "eof" /\ fd_open => Ended
  /\ EofMeansExited

\* The two threads never read the terminal at the same time.
LEMMA ReadStep ==
  ASSUME Control, ChildInv, ScalarInv, SeqInv, ReadInv, [Next]_vars
  PROVE  ReadInv'
<1>1. CASE ChildPrint
  <2>1. tty' # <<>>
    BY <1>1, AppendProperties, SMTT(30) DEF ChildPrint, SeqInv
  <2> QED BY <1>1, <2>1
      DEF Control, ReadInv, EofMeansExited, MainReads, Asking, Ended, Threads, ChildPrint,
          Running, fields, queue
<1>2. CASE ChildExit
  BY <1>2
     DEF Control, ChildInv, ReadInv, EofMeansExited, MainReads, Asking, Ended, Threads,
         ChildExit, Running, kernel, fields, queue
<1>3. CASE ChildZombie
  BY <1>3
     DEF Control, ChildInv, ReadInv, EofMeansExited, MainReads, Asking, Ended, Threads,
         ChildZombie, kernel, fields, queue
<1>4. CASE DrainStart
  BY <1>4
     DEF Control, ChildInv, ReadInv, EofMeansExited, MainReads, Asking, Ended, Threads,
         DrainStart, Goto, kernel, fields, queue
<1>5. CASE DrainLoop
  BY <1>5
     DEF Control, ChildInv, ReadInv, EofMeansExited, MainReads, Asking, Ended, Threads,
         DrainLoop, Goto, kernel, fields, queue
<1>6. CASE DrainPut
  BY <1>6
     DEF Control, ChildInv, ReadInv, EofMeansExited, MainReads, Asking, Ended, Threads,
         DrainPut, Goto, kernel, fields, queue
<1>7. CASE DrainEof
  BY <1>7
     DEF Control, ChildInv, ReadInv, EofMeansExited, MainReads, Asking, Ended, Threads,
         DrainEof, Goto, kernel, fields, queue
<1>8. CASE DrainLeave
  BY <1>8
     DEF Control, ChildInv, ReadInv, EofMeansExited, MainReads, Asking, Ended, Threads,
         DrainLeave, Goto, kernel, fields, queue
<1>9. CASE StaleSelect
  BY <1>9
     DEF Control, ChildInv, ReadInv, EofMeansExited, MainReads, Asking, Ended, Threads,
         StaleSelect, Goto, CallIsalive, Raise, kernel, fields, queue
<1>10. CASE ExpectSearch
  BY <1>10
     DEF Control, ChildInv, ReadInv, EofMeansExited, MainReads, Asking, Ended, Threads,
         ExpectSearch, Goto, Return, kernel, fields, queue
<1>11. CASE ExpectGet
  BY <1>11
     DEF Control, ChildInv, ReadInv, EofMeansExited, MainReads, Asking, Ended, Threads,
         ExpectGet, Feed, Goto, kernel, fields, queue
<1>12. CASE ExpectGot
  BY <1>12
     DEF Control, ChildInv, ReadInv, EofMeansExited, MainReads, Asking, Ended, Threads,
         ExpectGot, Feed, Goto, kernel, fields, queue
<1>13. CASE ExpectEof
  BY <1>13
     DEF Control, ChildInv, ReadInv, EofMeansExited, MainReads, Asking, Ended, Threads,
         ExpectEof, Return, Goto, kernel, fields, queue
<1>14. CASE ExpectTimeout
  BY <1>14
     DEF Control, ChildInv, ReadInv, EofMeansExited, MainReads, Asking, Ended, Threads,
         ExpectTimeout, Return, Goto, kernel, fields, queue
<1>15. CASE Error
  BY <1>15
     DEF Control, ChildInv, ReadInv, EofMeansExited, MainReads, Asking, Ended, Threads,
         Error, Return, Goto, kernel, fields, queue
<1>16. CASE Terminate
  BY <1>16
     DEF Control, ChildInv, ReadInv, EofMeansExited, MainReads, Asking, Ended, Threads,
         Terminate, CallIsalive, Goto, kernel, fields, queue
<1>17. CASE Escalate
  BY <1>17
     DEF Control, ChildInv, ReadInv, EofMeansExited, MainReads, Asking, Ended, Threads,
         Escalate, CallIsalive, Goto, kernel, fields, queue
<1>18. CASE Signal
  BY <1>18
     DEF Control, ChildInv, ReadInv, EofMeansExited, MainReads, Asking, Ended, Threads,
         Signal, CallIsalive, Goto, Deliver, Running, kernel, fields, queue
<1>19. CASE Killed
  BY <1>19
     DEF Control, ChildInv, ReadInv, EofMeansExited, MainReads, Asking, Ended, Threads,
         Killed, Return, Goto, kernel, fields, queue
<1>20. CASE Unkilled
  BY <1>20
     DEF Control, ChildInv, ReadInv, EofMeansExited, MainReads, Asking, Ended, Threads,
         Unkilled, Return, Goto, kernel, fields, queue
<1>21. CASE Wait
  BY <1>21
     DEF Control, ChildInv, ReadInv, EofMeansExited, MainReads, Asking, Ended, Threads, Wait,
         Goto, kernel, fields, queue
<1>22. CASE MethodReturns
  BY <1>22
     DEF Control, ChildInv, ReadInv, EofMeansExited, MainReads, Asking, Ended, Threads,
         MethodReturns, Return, Goto, kernel, fields, queue
<1>23. CASE Spawn
  BY <1>23
     DEF Control, ChildInv, ReadInv, EofMeansExited, MainReads, Asking, Ended, Threads,
         Spawn, Goto, kernel, fields, queue
<1>24. CASE ExpectCall
  BY <1>24
     DEF Control, ChildInv, ReadInv, EofMeansExited, MainReads, Asking, Ended, Threads,
         ExpectCall, Call, NoCall, kernel, fields, queue
<1>25. CASE CloseCall
  BY <1>25
     DEF Control, ChildInv, ReadInv, EofMeansExited, MainReads, Asking, Ended, Threads,
         CloseCall, Call, NoCall, kernel, fields, queue
<1>26. CASE TerminateCall
  BY <1>26
     DEF Control, ChildInv, ReadInv, EofMeansExited, MainReads, Asking, Ended, Threads,
         TerminateCall, Call, NoCall, CallIsalive, Goto, kernel, fields, queue
<1>27. CASE WaitCall
  BY <1>27
     DEF Control, ChildInv, ReadInv, EofMeansExited, MainReads, Asking, Ended, Threads,
         WaitCall, Call, NoCall, CallIsalive, Goto, kernel, fields, queue
<1>28. CASE IsaliveCall
  BY <1>28
     DEF Control, ChildInv, ReadInv, EofMeansExited, MainReads, Asking, Ended, Threads,
         IsaliveCall, Call, NoCall, CallIsalive, Goto, kernel, fields, queue
<1>29. CASE Sendintr
  BY <1>29
     DEF Control, ChildInv, ReadInv, EofMeansExited, MainReads, Asking, Ended, Threads,
         Sendintr, Call, NoCall, Goto, Deliver, Running, kernel, fields, queue
<1>30. ASSUME NEW t \in Threads, IsaliveTest(t)
      PROVE  ReadInv'
  <2>1. ret[t] \in Returns
    BY <1>30 DEF IsaliveTest, Control, Asking
  <2> QED BY <1>30, <2>1, ResumeAt, ZenonT(40)
        DEF Control, ChildInv, ReadInv, EofMeansExited, MainReads, Asking, Ended, Threads,
            IsaliveTest, Answer, Goto, Raise, kernel, fields, queue
<1>31. ASSUME NEW t \in Threads, Waitpid(t)
      PROVE  ReadInv'
  <2>1. ret[t] \in Returns
    BY <1>31 DEF Waitpid, Control, Asking
  <2>0. pc[t] \in {"waitpid", "waithang"}
    BY <1>31 DEF Waitpid
  <2>2. CASE child \in {"zombie", "gone"}
    <3>1. \/ pc' = [pc EXCEPT ![t] = "reaped"] /\ child = "zombie" /\ UNCHANGED ret
          \/ pc' = [pc EXCEPT ![t] = Raise(t)] /\ child = "gone" /\ UNCHANGED ret
      BY <1>31, <2>2 DEF Waitpid, Goto
    <3>2. child' = "gone" /\ UNCHANGED <<tty, fd_open, fields, queue>>
      BY <1>31, <2>2 DEF Waitpid
    <3>3. CASE t = "main"
      BY <2>0, <2>2, <3>1, <3>2, <3>3
         DEF Control, ReadInv, EofMeansExited, MainReads, Asking, Ended, Threads, ScalarInv,
             TypeOK, Raise, fields, queue
    <3>4. CASE t = "drain"
      BY <2>0, <2>2, <3>1, <3>2, <3>4
         DEF Control, ReadInv, EofMeansExited, MainReads, Asking, Ended, Threads, ScalarInv,
             TypeOK, Raise, fields, queue
    <3> QED BY <3>3, <3>4 DEF Threads
  <2>3. CASE child \in {"running", "exiting"}
    <3>1. /\ pc' = [pc EXCEPT ![t] = Resume(t, TRUE)] /\ ret' = [ret EXCEPT ![t] = "none"]
          /\ UNCHANGED <<child, tty, fd_open, fields, queue>>
      BY <1>31, <2>3 DEF Waitpid, Answer, Goto
    <3>2. /\ Resume(t, TRUE) \notin {"eof", "os.read", "none", "done", "stale select", "isalive",
                                    "waitpid", "waithang", "reaped", "read_nonblocking"}
          /\ Resume(t, TRUE) = "select" => ret[t] = "read"
      BY <2>1, ResumeAt
    <3>3. CASE t = "main"
      BY <2>0, <2>1, <2>3, <3>1, <3>2, <3>3
         DEF Control, ReadInv, EofMeansExited, MainReads, Asking, Ended, Threads, ScalarInv,
             TypeOK, Raise, fields, queue
    <3>4. CASE t = "drain"
      BY <2>0, <2>1, <2>3, <3>1, <3>2, <3>4
         DEF Control, ReadInv, EofMeansExited, MainReads, Asking, Ended, Threads, ScalarInv,
             TypeOK, Raise, fields, queue
    <3> QED BY <3>3, <3>4 DEF Threads
  <2> QED BY <1>31, <2>2, <2>3 DEF Waitpid
<1>32. ASSUME NEW t \in Threads, Reaped(t)
      PROVE  ReadInv'
  <2>1. ret[t] \in Returns
    BY <1>32 DEF Reaped, Control, Asking
  <2> QED BY <1>32, <2>1, ResumeAt
        DEF Control, ChildInv, ReadInv, EofMeansExited, MainReads, Asking, Ended, Threads,
            Reaped, Answer, Goto, Raise, kernel, fields, queue
<1>33. ASSUME NEW t \in Threads, ReadNonblocking(t)
      PROVE  ReadInv'
  BY <1>33
     DEF Control, ChildInv, ReadInv, EofMeansExited, MainReads, Asking, Ended, Threads,
         ReadNonblocking, CallIsalive, Goto, Raise, kernel, fields, queue
<1>34. ASSUME NEW t \in Threads, Select(t)
      PROVE  ReadInv'
  <2>1. CASE t = "main"
    BY <1>34, <2>1
       DEF Control, ChildInv, ReadInv, EofMeansExited, MainReads, Asking, Ended, Threads,
           ScalarInv, TypeOK, Select, CallIsalive,
           Goto, Raise, Readable, fields, queue, kernel
  <2>2. CASE t = "drain"
    BY <1>34, <2>2
       DEF Control, ChildInv, ReadInv, EofMeansExited, MainReads, Asking, Ended, Threads,
           ScalarInv, TypeOK, Select, CallIsalive,
           Goto, Raise, Readable, fields, queue, kernel
  <2> QED BY <2>1, <2>2 DEF Threads
<1>35. ASSUME NEW t \in Threads, OsRead(t)
      PROVE  ReadInv'
  BY <1>35
     DEF Control, ChildInv, ReadInv, EofMeansExited, MainReads, Asking, Ended, Threads,
         OsRead, Goto, kernel, fields, queue
<1>36. CASE UNCHANGED vars
  BY <1>36
     DEF Control, ChildInv, ReadInv, EofMeansExited, MainReads, Asking, Ended, Threads, vars,
         kernel, fields, queue
<1> QED BY <1>1, <1>2, <1>3, <1>4, <1>5, <1>6, <1>7, <1>8, <1>9, <1>10, <1>11, <1>12, <1>13,
           <1>14, <1>15, <1>16, <1>17, <1>18, <1>19, <1>20, <1>21, <1>22, <1>23, <1>24,
           <1>25, <1>26, <1>27, <1>28, <1>29, <1>30, <1>31, <1>32, <1>33, <1>34, <1>35,
           <1>36
        DEF Next, DrainThread, MainThread, Test, Threads

\* As long as the drain thread reads the terminal the main thread has not read it
\* itself; without that thread the queue is not used.
QueueInv ==
  /\ Direct => readQueue = <<>>
  /\ drainpty => /\ pc["main"] \notin {"got", "eof"}
                 /\ ~(Asking("main") /\ ret["main"] = "late")

\* The main thread does not read the terminal before the drain thread is done.
LEMMA QueueStep ==
  ASSUME Control, ReadInv, DirectInv, QueueInv, [Next]_vars
  PROVE  QueueInv'
<1>1. CASE ChildPrint
  BY <1>1
     DEF Control, ReadInv, MainReads, DirectInv, QueueInv, Direct, Asking, Threads,
         ChildPrint, Running, queue, history
<1>2. CASE ChildExit
  BY <1>2
     DEF Control, ReadInv, MainReads, DirectInv, QueueInv, Direct, Asking, Threads,
         ChildExit, Running, queue, history
<1>3. CASE ChildZombie
  BY <1>3
     DEF Control, ReadInv, MainReads, DirectInv, QueueInv, Direct, Asking, Threads,
         ChildZombie, queue, history
<1>4. CASE DrainStart
  BY <1>4
     DEF Control, ReadInv, MainReads, DirectInv, QueueInv, Direct, Asking, Threads,
         DrainStart, Goto, queue, history
<1>5. CASE DrainLoop
  BY <1>5
     DEF Control, ReadInv, MainReads, DirectInv, QueueInv, Direct, Asking, Threads,
         DrainLoop, Goto, queue, history
<1>6. CASE DrainPut
  BY <1>6
     DEF Control, ReadInv, MainReads, DirectInv, QueueInv, Direct, Asking, Threads, DrainPut,
         Goto, queue, history
<1>7. CASE DrainEof
  BY <1>7
     DEF Control, ReadInv, MainReads, DirectInv, QueueInv, Direct, Asking, Threads, DrainEof,
         Goto, queue, history
<1>8. CASE DrainLeave
  BY <1>8
     DEF Control, ReadInv, MainReads, DirectInv, QueueInv, Direct, Asking, Threads,
         DrainLeave, Goto, queue, history
<1>9. CASE StaleSelect
  BY <1>9
     DEF Control, ReadInv, MainReads, DirectInv, QueueInv, Direct, Asking, Threads,
         StaleSelect, Goto, CallIsalive, Raise, queue, history
<1>10. CASE ExpectSearch
  BY <1>10
     DEF Control, ReadInv, MainReads, DirectInv, QueueInv, Direct, Asking, Threads,
         ExpectSearch, Goto, Return, queue, history
<1>11. CASE ExpectGet
  BY <1>11
     DEF Control, ReadInv, MainReads, DirectInv, QueueInv, Direct, Asking, Threads,
         ExpectGet, Feed, Goto, queue, history
<1>12. CASE ExpectGot
  BY <1>12
     DEF Control, ReadInv, MainReads, DirectInv, QueueInv, Direct, Asking, Threads,
         ExpectGot, Feed, Goto, queue, history
<1>13. CASE ExpectEof
  BY <1>13
     DEF Control, ReadInv, MainReads, DirectInv, QueueInv, Direct, Asking, Threads,
         ExpectEof, Return, Goto, queue, history
<1>14. CASE ExpectTimeout
  BY <1>14
     DEF Control, ReadInv, MainReads, DirectInv, QueueInv, Direct, Asking, Threads,
         ExpectTimeout, Return, Goto, queue, history
<1>15. CASE Error
  BY <1>15
     DEF Control, ReadInv, MainReads, DirectInv, QueueInv, Direct, Asking, Threads, Error,
         Return, Goto, queue, history
<1>16. CASE Terminate
  BY <1>16
     DEF Control, ReadInv, MainReads, DirectInv, QueueInv, Direct, Asking, Threads,
         Terminate, CallIsalive, Goto, queue, history
<1>17. CASE Escalate
  BY <1>17
     DEF Control, ReadInv, MainReads, DirectInv, QueueInv, Direct, Asking, Threads, Escalate,
         CallIsalive, Goto, queue, history
<1>18. CASE Signal
  BY <1>18
     DEF Control, ReadInv, MainReads, DirectInv, QueueInv, Direct, Asking, Threads, Signal,
         CallIsalive, Goto, Deliver, Running, queue, history
<1>19. CASE Killed
  BY <1>19
     DEF Control, ReadInv, MainReads, DirectInv, QueueInv, Direct, Asking, Threads, Killed,
         Return, Goto, queue, history
<1>20. CASE Unkilled
  BY <1>20
     DEF Control, ReadInv, MainReads, DirectInv, QueueInv, Direct, Asking, Threads, Unkilled,
         Return, Goto, queue, history
<1>21. CASE Wait
  BY <1>21
     DEF Control, ReadInv, MainReads, DirectInv, QueueInv, Direct, Asking, Threads, Wait,
         Goto, queue, history
<1>22. CASE MethodReturns
  BY <1>22
     DEF Control, ReadInv, MainReads, DirectInv, QueueInv, Direct, Asking, Threads,
         MethodReturns, Return, Goto, queue, history
<1>23. CASE Spawn
  BY <1>23
     DEF Control, ReadInv, MainReads, DirectInv, QueueInv, Direct, Asking, Threads, Spawn,
         Goto, queue, history
<1>24. CASE ExpectCall
  BY <1>24
     DEF Control, ReadInv, MainReads, DirectInv, QueueInv, Direct, Asking, Threads,
         ExpectCall, Call, NoCall, queue, history
<1>25. CASE CloseCall
  BY <1>25
     DEF Control, ReadInv, MainReads, DirectInv, QueueInv, Direct, Asking, Threads,
         CloseCall, Call, NoCall, queue, history
<1>26. CASE TerminateCall
  BY <1>26
     DEF Control, ReadInv, MainReads, DirectInv, QueueInv, Direct, Asking, Threads,
         TerminateCall, Call, NoCall, CallIsalive, Goto, queue, history
<1>27. CASE WaitCall
  BY <1>27
     DEF Control, ReadInv, MainReads, DirectInv, QueueInv, Direct, Asking, Threads, WaitCall,
         Call, NoCall, CallIsalive, Goto, queue, history
<1>28. CASE IsaliveCall
  BY <1>28
     DEF Control, ReadInv, MainReads, DirectInv, QueueInv, Direct, Asking, Threads,
         IsaliveCall, Call, NoCall, CallIsalive, Goto, queue, history
<1>29. CASE Sendintr
  BY <1>29
     DEF Control, ReadInv, MainReads, DirectInv, QueueInv, Direct, Asking, Threads, Sendintr,
         Call, NoCall, Goto, Deliver, Running, queue, history
<1>30. ASSUME NEW t \in Threads, IsaliveTest(t)
      PROVE  QueueInv'
  <2>1. Asking(t)
    BY <1>30 DEF IsaliveTest, Asking
  <2>2. UNCHANGED <<drainpty, readQueue, drained>>
    BY <1>30 DEF IsaliveTest, queue, history
  <2>3. PICK label \in Labels \ {"got", "os.read"} :
          /\ pc' = [pc EXCEPT ![t] = label]
          /\ label = "eof" => ret[t] = "late"
          /\ \/ UNCHANGED ret
             \/ /\ label \notin {"isalive", "waitpid", "waithang", "reaped"}
                /\ ret' = [ret EXCEPT ![t] = "none"]
    BY <1>30, IsaliveGoes
  <2>4. CASE t = "main"
    BY <2>1, <2>2, <2>3, <2>4 DEF Control, QueueInv, Direct, Asking, Threads
  <2>5. CASE t = "drain"
    BY <2>2, <2>3, <2>5 DEF Control, QueueInv, Direct, Asking, Threads
  <2> QED BY <2>4, <2>5 DEF Threads
<1>31. ASSUME NEW t \in Threads, Waitpid(t)
      PROVE  QueueInv'
  <2>1. Asking(t)
    BY <1>31 DEF Waitpid, Asking
  <2>2. UNCHANGED <<drainpty, readQueue, drained>>
    BY <1>31 DEF Waitpid, queue, history
  <2>3. PICK label \in Labels \ {"got", "os.read"} :
          /\ pc' = [pc EXCEPT ![t] = label]
          /\ label = "eof" => ret[t] = "late"
          /\ \/ UNCHANGED ret
             \/ /\ label \notin {"isalive", "waitpid", "waithang", "reaped"}
                /\ ret' = [ret EXCEPT ![t] = "none"]
    BY <1>31, IsaliveGoes
  <2>4. CASE t = "main"
    BY <2>1, <2>2, <2>3, <2>4 DEF Control, QueueInv, Direct, Asking, Threads
  <2>5. CASE t = "drain"
    BY <2>2, <2>3, <2>5 DEF Control, QueueInv, Direct, Asking, Threads
  <2> QED BY <2>4, <2>5 DEF Threads
<1>32. ASSUME NEW t \in Threads, Reaped(t)
      PROVE  QueueInv'
  <2>1. Asking(t)
    BY <1>32 DEF Reaped, Asking
  <2>2. UNCHANGED <<drainpty, readQueue, drained>>
    BY <1>32 DEF Reaped, queue, history
  <2>3. PICK label \in Labels \ {"got", "os.read"} :
          /\ pc' = [pc EXCEPT ![t] = label]
          /\ label = "eof" => ret[t] = "late"
          /\ \/ UNCHANGED ret
             \/ /\ label \notin {"isalive", "waitpid", "waithang", "reaped"}
                /\ ret' = [ret EXCEPT ![t] = "none"]
    BY <1>32, IsaliveGoes
  <2>4. CASE t = "main"
    BY <2>1, <2>2, <2>3, <2>4 DEF Control, QueueInv, Direct, Asking, Threads
  <2>5. CASE t = "drain"
    BY <2>2, <2>3, <2>5 DEF Control, QueueInv, Direct, Asking, Threads
  <2> QED BY <2>4, <2>5 DEF Threads
<1>33. ASSUME NEW t \in Threads, ReadNonblocking(t)
      PROVE  QueueInv'
  BY <1>33
     DEF Control, ReadInv, MainReads, DirectInv, QueueInv, Direct, Asking, Threads,
         ReadNonblocking, CallIsalive, Goto, Raise, queue, history
<1>34. ASSUME NEW t \in Threads, Select(t)
      PROVE  QueueInv'
  BY <1>34
     DEF Control, ReadInv, MainReads, DirectInv, QueueInv, Direct, Asking, Threads, Select,
         CallIsalive, Goto, Raise, Readable, queue, history
<1>35. ASSUME NEW t \in Threads, OsRead(t)
      PROVE  QueueInv'
  BY <1>35
     DEF Control, ReadInv, MainReads, DirectInv, QueueInv, Direct, Asking, Threads, OsRead,
         Goto, queue, history
<1>36. CASE UNCHANGED vars
  BY <1>36
     DEF Control, ReadInv, MainReads, DirectInv, QueueInv, Direct, Asking, Threads, vars,
         queue, history
<1> QED BY <1>1, <1>2, <1>3, <1>4, <1>5, <1>6, <1>7, <1>8, <1>9, <1>10, <1>11, <1>12, <1>13,
           <1>14, <1>15, <1>16, <1>17, <1>18, <1>19, <1>20, <1>21, <1>22, <1>23, <1>24,
           <1>25, <1>26, <1>27, <1>28, <1>29, <1>30, <1>31, <1>32, <1>33, <1>34, <1>35,
           <1>36
        DEF Next, DrainThread, MainThread, Test, Threads

\* The output is kept: the caller reads directly, or the drain thread still reads.
Kept == Direct \/ drainpty

\* What the drain thread has read, and with it what the caller was given or holds.
Waiting == FlattenSeq(readQueue) \o chunk["drain"]
Taken   == (consumed \o Held) \o Waiting

\* What is unread is the end of what was printed, and what the readers have got is
\* the rest of it.
StreamInv ==
  /\ Len(tty) <= written
  /\ tty = SubSeq(Script, written - Len(tty) + 1, written)
  /\ Kept => Taken = SubSeq(Script, 1, written - Len(tty))

Invs == /\ Control /\ ChildInv /\ CloseInv /\ ReadInv /\ QueueInv
        /\ ScalarInv /\ DirectInv /\ LoopInv /\ SeqInv

\* The empty sequence adds nothing.
LEMMA JoinEmpty == \A s \in Seq(STRING) : s \o <<>> = s
BY ConcatEmptySeq

\* A step that neither prints nor reads moves characters between the fields of the
\* spawn object, the locals of expect_loop and the caller, and loses none.
Moves == /\ UNCHANGED <<written, tty, drained>>
         /\ drainpty' => drainpty
         /\ Kept => consumed' \o Held' = consumed \o Held

\* The two parts make the sequence again.
LEMMA CutJoin ==
  ASSUME NEW s \in Seq(STRING), NEW n \in 0 .. Len(s)
  PROVE  SubSeq(s, 1, n) \o SubSeq(s, n + 1, Len(s)) = s
<1>1. Len(s) \in Nat
  BY LenProperties
<1>2. 1 \in 1 .. Len(s) + 1 /\ n \in 1 - 1 .. Len(s) /\ Len(s) \in n .. Len(s)
  BY <1>1
<1>3. SubSeq(s, 1, n) \o SubSeq(s, n + 1, Len(s)) = SubSeq(s, 1, Len(s))
  BY <1>2, ConcatAdjacentSubSeq
<1> QED BY <1>3, SubSeqFull

\* Only printing, reading and taking from the queue do more than that.
LEMMA MovesOnly ==
  ASSUME Invs, [Next]_vars, ~ChildPrint, ~ExpectGet, \A t \in Threads : ~OsRead(t)
  PROVE  Moves
<1>1. CASE ChildPrint
  BY <1>1
     DEF Moves, Invs, Control, LoopInv, InLoop, InExpect, Held, Asking, Threads, ChildPrint,
         Running, kernel, queue, loop, caller, history
<1>2. CASE ChildExit
  BY <1>2
     DEF Moves, Invs, Control, LoopInv, InLoop, InExpect, Held, Asking, Threads, ChildExit,
         Running, kernel, queue, loop, caller, history
<1>3. CASE ChildZombie
  BY <1>3
     DEF Moves, Invs, Control, LoopInv, InLoop, InExpect, Held, Asking, Threads, ChildZombie,
         kernel, queue, loop, caller, history
<1>4. CASE DrainStart
  BY <1>4
     DEF Moves, Invs, Control, LoopInv, InLoop, InExpect, Held, Asking, Threads, DrainStart,
         Goto, kernel, queue, loop, caller, history
<1>5. CASE DrainLoop
  BY <1>5
     DEF Moves, Invs, Control, LoopInv, InLoop, InExpect, Held, Asking, Threads, DrainLoop,
         Goto, kernel, queue, loop, caller, history
<1>6. CASE DrainPut
  <2>1. UNCHANGED <<written, tty, drained, drainpty, consumed, incoming, buffer, call>>
    BY <1>6 DEF DrainPut, kernel, loop, caller, history
  <2>2. pc'["main"] = pc["main"] /\ chunk'["main"] = chunk["main"]
    BY <1>6 DEF DrainPut, Goto, Invs, Control, SeqInv, Threads
  <2> QED BY <2>1, <2>2 DEF Moves, Held, InExpect
<1>7. CASE DrainEof
  BY <1>7
     DEF Moves, Invs, Control, LoopInv, InLoop, InExpect, Held, Asking, Threads, DrainEof,
         Goto, kernel, queue, loop, caller, history
<1>8. CASE DrainLeave
  BY <1>8
     DEF Moves, Invs, Control, LoopInv, InLoop, InExpect, Held, Asking, Threads, DrainLeave,
         Goto, kernel, queue, loop, caller, history
<1>9. CASE StaleSelect
  BY <1>9
     DEF Moves, Invs, Control, LoopInv, InLoop, InExpect, Held, Asking, Threads, StaleSelect,
         Goto, CallIsalive, Raise, kernel, queue, loop, caller, history
<1>10. CASE ExpectSearch
  <2> DEFINE m == search(call.searcher, incoming, freshlen)
  <2>1. InExpect /\ chunk["main"] = <<>>
    BY <1>10 DEF ExpectSearch, Invs, LoopInv, InLoop, Threads
  <2>2. consumed \o Held = consumed \o incoming
    BY <1>10, <2>1, JoinEmpty DEF ExpectSearch, Invs, SeqInv, Held
  <2>3. UNCHANGED <<written, tty, drained, drainpty>>
    BY <1>10 DEF ExpectSearch, kernel, queue, history
  <2>4. CASE m.index > 0
    <3>1. m.end \in 0 .. Len(incoming)
      BY <2>4, MatchInBuffer DEF Invs, SeqInv
    <3> HIDE DEF m
    <3> DEFINE one == SubSeq(incoming, 1, m.end)
               two == SubSeq(incoming, m.end + 1, Len(incoming))
    <3>2. one \in Seq(STRING) /\ two \in Seq(STRING) /\ one \o two = incoming
      BY <3>1, Cut, CutJoin DEF Invs, SeqInv
    <3>3. consumed' = consumed \o one /\ buffer' = two /\ call' = NoCall
      BY <1>10, <2>4 DEF ExpectSearch, Return, m
    <3> HIDE DEF one, two
    <3>4. consumed' \o Held' = (consumed \o one) \o two
      BY <3>3 DEF NoCall, Held, InExpect
    <3>5. consumed \in Seq(STRING)
      BY DEF Invs, SeqInv
    <3>6. one \in Seq(STRING) /\ two \in Seq(STRING)
      BY <3>2
    <3>7. (consumed \o one) \o two = consumed \o (one \o two)
      BY <3>5, <3>6, ConcatAssociative, SMTT(30)
    <3> QED BY <2>2, <2>3, <3>2, <3>4, <3>7 DEF Moves
  <2>5. CASE ~(m.index > 0)
    <3>1. UNCHANGED <<consumed, incoming, buffer, call, chunk>> /\ pc'["main"] # "error"
      BY <1>10, <2>5 DEF ExpectSearch, Invs, Control, Threads, Goto, loop, caller
    <3> QED BY <1>10, <2>3, <3>1 DEF ExpectSearch, Moves, Held, InExpect
  <2> QED BY <2>4, <2>5
<1>11. CASE ExpectGet
  BY <1>11
     DEF Moves, Invs, Control, LoopInv, InLoop, InExpect, Held, Asking, Threads, ExpectGet,
         Feed, Goto, kernel, queue, loop, caller, history
<1>12. CASE ExpectGot
  <2>1. InExpect /\ incoming \in Seq(STRING) /\ chunk["main"] \in Seq(STRING)
    BY <1>12 DEF ExpectGot, Invs, LoopInv, InLoop, SeqInv, Threads
  <2>2. Held = incoming \o chunk["main"]
    BY <1>12, <2>1 DEF ExpectGot, Held
  <2>3. Held' = (incoming \o chunk["main"]) \o <<>>
    BY <1>12, <2>1
       DEF ExpectGot, Feed, Goto, Held, InExpect, Invs, Control, SeqInv, Threads, caller
  <2>4. Held' = Held
    BY <2>1, <2>2, <2>3, JoinEmpty, ConcatProperties
  <2> QED BY <1>12, <2>4 DEF Moves, ExpectGot, Feed, kernel, queue, history
<1>13. CASE ExpectEof
  <2>1. InExpect /\ chunk["main"] = <<>>
    BY <1>13 DEF ExpectEof, Invs, LoopInv, InLoop, Threads
  <2>2. consumed \o Held = consumed \o incoming
    BY <1>13, <2>1, JoinEmpty DEF ExpectEof, Invs, SeqInv, Held
  <2>3. consumed' \o Held' = (consumed \o incoming) \o <<>>
    BY <1>13 DEF ExpectEof, Return, NoCall, Held, InExpect
  <2>4. consumed' \o Held' = consumed \o incoming
    BY <2>3, JoinEmpty, ConcatProperties DEF Invs, SeqInv
  <2> QED BY <1>13, <2>2, <2>4 DEF Moves, ExpectEof, kernel, queue, history
<1>14. CASE ExpectTimeout
  <2>1. InExpect /\ chunk["main"] = <<>>
    BY <1>14 DEF ExpectTimeout, Invs, LoopInv, InLoop, Threads
  <2>2. Held = incoming
    BY <1>14, <2>1, JoinEmpty DEF ExpectTimeout, Invs, SeqInv, Held
  <2>3. Held' = incoming
    BY <1>14 DEF ExpectTimeout, Return, NoCall, Held, InExpect
  <2> QED BY <1>14, <2>2, <2>3 DEF Moves, ExpectTimeout, kernel, queue, history
<1>15. CASE Error
  BY <1>15
     DEF Moves, Invs, Control, LoopInv, InLoop, InExpect, Held, Asking, Threads, Error,
         Return, Goto, NoCall, kernel, queue, loop, caller, history
<1>16. CASE Terminate
  BY <1>16
     DEF Moves, Invs, Control, LoopInv, InLoop, InExpect, Held, Asking, Threads, Terminate,
         CallIsalive, Goto, kernel, queue, loop, caller, history
<1>17. CASE Escalate
  BY <1>17
     DEF Moves, Invs, Control, LoopInv, InLoop, InExpect, Held, Asking, Threads, Escalate,
         CallIsalive, Goto, kernel, queue, loop, caller, history
<1>18. CASE Signal
  BY <1>18
     DEF Moves, Invs, Control, LoopInv, InLoop, InExpect, Held, Asking, Threads, Signal,
         CallIsalive, Goto, Deliver, Running, kernel, queue, loop, caller, history
<1>19. CASE Killed
  BY <1>19
     DEF Moves, Invs, Control, LoopInv, InLoop, InExpect, Held, Asking, Threads, Killed,
         Return, Goto, NoCall, kernel, queue, loop, caller, history
<1>20. CASE Unkilled
  BY <1>20
     DEF Moves, Invs, Control, LoopInv, InLoop, InExpect, Held, Asking, Threads, Unkilled,
         Return, Goto, NoCall, kernel, queue, loop, caller, history
<1>21. CASE Wait
  BY <1>21
     DEF Moves, Invs, Control, LoopInv, InLoop, InExpect, Held, Asking, Threads, Wait, Goto,
         kernel, queue, loop, caller, history
<1>22. CASE MethodReturns
  BY <1>22
     DEF Moves, Invs, Control, LoopInv, InLoop, InExpect, Held, Asking, Threads,
         MethodReturns, Return, Goto, NoCall, kernel, queue, loop, caller, history
<1>23. CASE Spawn
  BY <1>23
     DEF Moves, Invs, Control, LoopInv, InLoop, InExpect, Held, Asking, Threads, Spawn, Goto,
         kernel, queue, loop, caller, history
<1>24. CASE ExpectCall
  <2>1. ~InExpect /\ chunk["main"] = <<>>
    BY <1>24 DEF ExpectCall, Call, Invs, LoopInv, InLoop, InExpect, Asking, Threads
  <2>2. Held' \in {buffer, buffer \o <<>>}
    BY <1>24, <2>1 DEF ExpectCall, Held
  <2>3. Held' = Held
    BY <2>1, <2>2, JoinEmpty DEF Held, Invs, SeqInv
  <2> QED BY <1>24, <2>3 DEF Moves, ExpectCall, kernel, queue, history
<1>25. CASE CloseCall
  BY <1>25
     DEF Moves, Invs, Control, LoopInv, InLoop, InExpect, Held, Asking, Threads, CloseCall,
         Call, NoCall, kernel, queue, loop, caller, history
<1>26. CASE TerminateCall
  BY <1>26
     DEF Moves, Invs, Control, LoopInv, InLoop, InExpect, Held, Asking, Threads,
         TerminateCall, Call, NoCall, CallIsalive, Goto, kernel, queue, loop, caller,
         history
<1>27. CASE WaitCall
  BY <1>27
     DEF Moves, Invs, Control, LoopInv, InLoop, InExpect, Held, Asking, Threads, WaitCall,
         Call, NoCall, CallIsalive, Goto, kernel, queue, loop, caller, history
<1>28. CASE IsaliveCall
  BY <1>28
     DEF Moves, Invs, Control, LoopInv, InLoop, InExpect, Held, Asking, Threads, IsaliveCall,
         Call, NoCall, CallIsalive, Goto, kernel, queue, loop, caller, history
<1>29. CASE Sendintr
  BY <1>29
     DEF Moves, Invs, Control, LoopInv, InLoop, InExpect, Held, Asking, Threads, Sendintr,
         Call, NoCall, Goto, Deliver, Running, kernel, queue, loop, caller, history
<1>30. ASSUME NEW t \in Threads, IsaliveTest(t)
      PROVE  Moves
  <2>1. ret[t] \in Returns
    BY <1>30 DEF IsaliveTest, Invs, Control, Asking
  <2>2. Kept /\ InExpect /\ t = "main" =>
          Direct /\ ret[t] \in {"read", "late"} /\ pc[t] # "error"
    BY <1>30
       DEF IsaliveTest, Invs, Kept, ReadInv, MainReads, QueueInv, LoopInv, InLoop, InExpect,
           Asking
  <2>3. Kept /\ InExpect => (pc'["main"] = "error" <=> pc["main"] = "error")
    <3>1. CASE t = "main"
      BY <1>30, <2>1, <2>2, <3>1, ResumeAt
         DEF IsaliveTest, Answer, Goto, Raise, Invs, Control, DirectInv, ReaperIsAlone,
             Threads
    <3>2. CASE t = "drain"
      BY <1>30, <3>2, IsaliveGoes DEF Invs, Control, Threads
    <3> QED BY <3>1, <3>2 DEF Threads
  <2>4. UNCHANGED <<written, tty, drained, drainpty, consumed, incoming, buffer, chunk, call>>
    BY <1>30 DEF IsaliveTest, kernel, queue, loop, caller, history
  <2> QED BY <2>3, <2>4 DEF Moves, Held, InExpect
<1>31. ASSUME NEW t \in Threads, Waitpid(t)
      PROVE  Moves
  <2>1. ret[t] \in Returns
    BY <1>31 DEF Waitpid, Invs, Control, Asking
  <2>2. Kept /\ InExpect /\ t = "main" =>
          Direct /\ ret[t] \in {"read", "late"} /\ pc[t] # "error"
    BY <1>31
       DEF Waitpid, Invs, Kept, ReadInv, MainReads, QueueInv, LoopInv, InLoop, InExpect,
           Asking
  <2>3. Kept /\ InExpect => (pc'["main"] = "error" <=> pc["main"] = "error")
    <3>1. CASE t = "main"
      BY <1>31, <2>1, <2>2, <3>1, ResumeAt
         DEF Waitpid, Answer, Goto, Raise, Invs, Control, DirectInv, ReaperIsAlone, Threads
    <3>2. CASE t = "drain"
      BY <1>31, <3>2, IsaliveGoes DEF Invs, Control, Threads
    <3> QED BY <3>1, <3>2 DEF Threads
  <2>4. UNCHANGED <<written, tty, drained, drainpty, consumed, incoming, buffer, chunk, call>>
    BY <1>31 DEF Waitpid, kernel, queue, loop, caller, history
  <2> QED BY <2>3, <2>4 DEF Moves, Held, InExpect
<1>32. ASSUME NEW t \in Threads, Reaped(t)
      PROVE  Moves
  <2>1. ret[t] \in Returns
    BY <1>32 DEF Reaped, Invs, Control, Asking
  <2>2. Kept /\ InExpect /\ t = "main" =>
          Direct /\ ret[t] \in {"read", "late"} /\ pc[t] # "error"
    BY <1>32
       DEF Reaped, Invs, Kept, ReadInv, MainReads, QueueInv, LoopInv, InLoop, InExpect,
           Asking
  <2>3. Kept /\ InExpect => (pc'["main"] = "error" <=> pc["main"] = "error")
    <3>1. CASE t = "main"
      BY <1>32, <2>1, <2>2, <3>1, ResumeAt
         DEF Reaped, Answer, Goto, Raise, Invs, Control, DirectInv, ReaperIsAlone, Threads
    <3>2. CASE t = "drain"
      BY <1>32, <3>2, IsaliveGoes DEF Invs, Control, Threads
    <3> QED BY <3>1, <3>2 DEF Threads
  <2>4. UNCHANGED <<written, tty, drained, drainpty, consumed, incoming, buffer, chunk, call>>
    BY <1>32 DEF Reaped, kernel, queue, loop, caller, history
  <2> QED BY <2>3, <2>4 DEF Moves, Held, InExpect
<1>33. ASSUME NEW t \in Threads, ReadNonblocking(t)
      PROVE  Moves
  <2>1. t = "main" => ~drainpty
    BY <1>33 DEF ReadNonblocking, Invs, ReadInv, MainReads
  <2>2. UNCHANGED <<written, tty, drained, drainpty, consumed, incoming, buffer, chunk, call>>
    BY <1>33 DEF ReadNonblocking, kernel, queue, loop, caller, history
  <2>3. CASE t = "main" /\ pc'["main"] = "error" /\ Kept
    <3>1. Direct /\ InExpect /\ chunk["main"] = <<>> /\ ~fd_open /\ pc["main"] # "error"
      BY <1>33, <2>1, <2>3
         DEF ReadNonblocking, CallIsalive, Goto, Invs, Kept, Control, CloseInv, LoopInv,
             InLoop, Threads
    <3>2. Held = incoming /\ incoming = buffer
      BY <2>3, <3>1, JoinEmpty DEF Held, Invs, LoopInv, SeqInv
    <3> QED BY <2>2, <2>3, <3>2 DEF Moves, Held
  <2>4. CASE ~Kept
    BY <2>2, <2>4 DEF Moves
  <2>5. CASE t = "main" /\ pc'["main"] # "error"
    BY <1>33, <2>2, <2>5 DEF Moves, Held, InExpect, ReadNonblocking
  <2>6. CASE t = "drain"
    <3>1. pc'["main"] = pc["main"]
      BY <1>33, <2>6 DEF ReadNonblocking, CallIsalive, Goto, Invs, Control, Threads
    <3> QED BY <2>2, <3>1 DEF Moves, Held, InExpect
  <2> QED BY <2>3, <2>4, <2>5, <2>6 DEF Threads
<1>34. ASSUME NEW t \in Threads, Select(t)
      PROVE  Moves
  <2>1. t = "main" => ~drainpty
    BY <1>34 DEF Select, Invs, ReadInv, MainReads
  <2>2. UNCHANGED <<written, tty, drained, drainpty, consumed, incoming, buffer, chunk, call>>
    BY <1>34 DEF Select, kernel, queue, loop, caller, history
  <2>3. CASE t = "main" /\ pc'["main"] = "error" /\ Kept
    <3>1. Direct /\ InExpect /\ chunk["main"] = <<>> /\ ~fd_open /\ pc["main"] # "error"
      BY <1>34, <2>1, <2>3
         DEF Select, CallIsalive, Goto, Invs, Kept, Control, CloseInv, LoopInv, InLoop,
             Threads
    <3>2. Held = incoming /\ incoming = buffer
      BY <2>3, <3>1, JoinEmpty DEF Held, Invs, LoopInv, SeqInv
    <3> QED BY <2>2, <2>3, <3>2 DEF Moves, Held
  <2>4. CASE ~Kept
    BY <2>2, <2>4 DEF Moves
  <2>5. CASE t = "main" /\ pc'["main"] # "error"
    BY <1>34, <2>2, <2>5 DEF Moves, Held, InExpect, Select
  <2>6. CASE t = "drain"
    <3>1. pc'["main"] = pc["main"]
      BY <1>34, <2>6 DEF Select, CallIsalive, Goto, Invs, Control, Threads
    <3> QED BY <2>2, <3>1 DEF Moves, Held, InExpect
  <2> QED BY <2>3, <2>4, <2>5, <2>6 DEF Threads
<1>35. ASSUME NEW t \in Threads, OsRead(t)
      PROVE  Moves
  BY <1>35
     DEF Moves, Invs, Control, LoopInv, InLoop, InExpect, Held, Asking, Threads, OsRead,
         Goto, kernel, queue, loop, caller, history
<1>36. CASE UNCHANGED vars
  BY <1>36
     DEF Moves, Invs, Control, LoopInv, InLoop, InExpect, Held, Asking, Threads, vars,
         kernel, queue, loop, caller, history
<1> QED BY <1>1, <1>2, <1>3, <1>4, <1>5, <1>6, <1>7, <1>8, <1>9, <1>10, <1>11, <1>12, <1>13,
           <1>14, <1>15, <1>16, <1>17, <1>18, <1>19, <1>20, <1>21, <1>22, <1>23, <1>24,
           <1>25, <1>26, <1>27, <1>28, <1>29, <1>30, <1>31, <1>32, <1>33, <1>34, <1>35,
           <1>36
        DEF Next, DrainThread, MainThread, Test, Threads

\* What the drain thread has put into the queue stays the same text.
LEMMA WaitingKept ==
  ASSUME Invs, [Next]_vars, ~ExpectGet, \A t \in Threads : ~OsRead(t)
  PROVE  Waiting' = Waiting
<1>1. readQueue \in Seq(Seq(STRING)) /\ chunk["drain"] \in Seq(STRING)
  BY DEF Invs, SeqInv, Threads
<1>2. CASE DrainPut
  <2>1. readQueue' = Append(readQueue, chunk["drain"]) /\ chunk'["drain"] = <<>>
    BY <1>2 DEF DrainPut, Invs, SeqInv, Threads
  <2>2. FlattenSeq(readQueue') = Waiting
    BY <1>1, <2>1, FlattenAppend DEF Waiting
  <2>3. Waiting \in Seq(STRING)
    BY <1>1, FlattenType, ConcatProperties DEF Waiting
  <2> QED BY <2>1, <2>2, <2>3, JoinEmpty DEF Waiting
<1>3. CASE DrainEof
  <2>1. readQueue' = Append(readQueue, <<>>) /\ chunk' = chunk
    BY <1>3 DEF DrainEof, None
  <2>2. FlattenSeq(readQueue') = FlattenSeq(readQueue) \o <<>>
    <3>1. <<>> \in Seq(STRING)
      OBVIOUS
    <3> QED BY <1>1, <2>1, <3>1, FlattenAppend
  <2>3. FlattenSeq(readQueue') = FlattenSeq(readQueue)
    BY <1>1, <2>2, FlattenType, JoinEmpty
  <2> QED BY <2>1, <2>3 DEF Waiting
<1>4. CASE ExpectGot
  <2>1. readQueue' = readQueue /\ chunk'["drain"] = chunk["drain"]
    BY <1>4 DEF ExpectGot, queue, Invs, SeqInv, Threads
  <2> QED BY <2>1 DEF Waiting
<1>5. CASE UNCHANGED <<readQueue, chunk>>
  BY <1>5 DEF Waiting
<1> QED BY <1>2, <1>3, <1>4, <1>5
        DEF Next, DrainThread, MainThread, Test, Threads, ChildPrint, ChildExit,
            ChildZombie,
            DrainStart, DrainLoop, DrainLeave, StaleSelect, ExpectSearch, ExpectEof,
            ExpectTimeout, Error, Terminate, Escalate, Signal, Killed, Unkilled, Wait,
            MethodReturns, Spawn, ExpectCall, CloseCall, TerminateCall, WaitCall, IsaliveCall,
            Sendintr, IsaliveTest, Waitpid, Reaped, ReadNonblocking, Select, queue, vars

\* Taking from the queue moves the text from there to the caller.
LEMMA GetTakes ==
  ASSUME Invs, ExpectGet
  PROVE  Taken' = Taken /\ UNCHANGED <<written, tty, drained, drainpty>>
<1>1. InExpect /\ chunk["main"] = <<>> /\ pc["main"] = "get"
  BY DEF ExpectGet, Invs, LoopInv, InLoop, Threads
<1>2. UNCHANGED <<written, tty, drained, drainpty, consumed, chunk, call>> /\ pc'["main"] = "search"
  BY DEF ExpectGet, Feed, Goto, Invs, Control, Threads, kernel, history, caller
<1>3. /\ readQueue \in Seq(Seq(STRING)) /\ chunk["drain"] \in Seq(STRING)
      /\ consumed \in Seq(STRING) /\ incoming \in Seq(STRING)
  BY DEF Invs, SeqInv, Threads
<1>4. Held = incoming
  BY <1>1, <1>3, JoinEmpty DEF Held
<1>5. CASE readQueue # <<>>
  <2> DEFINE h == Head(readQueue)
             r == FlattenSeq(Tail(readQueue))
             c == chunk["drain"]
  <2>1. h \in Seq(STRING) /\ r \in Seq(STRING) /\ FlattenSeq(readQueue) = h \o r
    BY <1>3, <1>5, HeadTailProperties, FlattenHead, FlattenType
  <2>2. incoming' = incoming \o h /\ readQueue' = Tail(readQueue)
    BY <1>5 DEF ExpectGet, Feed
  <2>3. Held' = incoming \o h
    <3>1. incoming \o h \in Seq(STRING)
      BY <1>3, <2>1, ConcatProperties
    <3> QED BY <1>1, <1>2, <2>2, <3>1, JoinEmpty DEF Held, InExpect
  <2>4. Waiting = (h \o r) \o c /\ Waiting' = r \o c
    BY <1>2, <2>1, <2>2 DEF Waiting
  <2> HIDE DEF h, r, c
  <2>5. c \in Seq(STRING)
    BY <1>3 DEF c
  <2>6. \A x, y \in Seq(STRING) : x \o y \in Seq(STRING)
    BY ConcatProperties
  <2>7. \A x, y, z \in Seq(STRING) : (x \o y) \o z = x \o (y \o z)
    BY ConcatAssociative
  <2>8. (consumed \o (incoming \o h)) \o (r \o c) = ((consumed \o incoming) \o h) \o (r \o c)
    BY <1>3, <2>1, <2>7
  <2>9. ((consumed \o incoming) \o h) \o (r \o c) = (consumed \o incoming) \o (h \o (r \o c))
    <3>1. consumed \o incoming \in Seq(STRING) /\ r \o c \in Seq(STRING)
      BY <1>3, <2>1, <2>5, <2>6
    <3> QED BY <2>1, <2>7, <3>1
  <2>10. h \o (r \o c) = (h \o r) \o c
    BY <2>1, <2>5, <2>7
  <2> QED BY <1>2, <1>4, <2>3, <2>4, <2>8, <2>9, <2>10 DEF Taken
<1>6. CASE readQueue = <<>>
  BY <1>1, <1>2, <1>6 DEF ExpectGet, Taken, Waiting, Held, InExpect
<1> QED BY <1>2, <1>5, <1>6

\* What the caller holds is a sequence of characters.
LEMMA HeldType == SeqInv => Held \in Seq(STRING)
<1> SUFFICES ASSUME SeqInv PROVE Held \in Seq(STRING)
  OBVIOUS
<1>1. /\ incoming \in Seq(STRING) /\ buffer \in Seq(STRING) /\ chunk["main"] \in Seq(STRING)
  BY DEF SeqInv, Threads
<1>2. incoming \o chunk["main"] \in Seq(STRING)
  BY <1>1, ConcatProperties
<1> QED BY <1>1, <1>2 DEF Held

\* A character is printed.
LEMMA StreamPrint ==
  ASSUME Invs, StreamInv, ChildPrint
  PROVE  StreamInv' /\ written' - Len(tty') = written - Len(tty)
<1> DEFINE k == written - Len(tty)
           c == Script[written + 1]
<1>1. /\ Len(tty) \in Nat /\ written \in Nat /\ k \in Nat /\ Len(Script) \in Nat
      /\ written + 1 <= Len(Script)
  BY ScriptLen, LenProperties DEF Invs, ScalarInv, TypeOK, SeqInv, StreamInv, ChildPrint
<1>2. c \in STRING
  BY <1>1, ScriptAssumption, ElementOfSeq
<1>3. /\ tty' = Append(tty, c) /\ written' = written + 1
      /\ UNCHANGED <<drained, drainpty, readQueue, consumed, buffer, incoming, chunk, call, pc>>
  BY DEF ChildPrint, queue, loop, caller, history
<1>4. tty' = tty \o <<c>> /\ Len(tty') = Len(tty) + 1
  BY <1>2, <1>3, AppendProperties, AppendIsConcat DEF Invs, SeqInv
<1> HIDE DEF k
<1>5. SubSeq(Script, k + 1, written + 1) = SubSeq(Script, k + 1, written) \o <<c>>
  <2>1. k + 1 \in 1 .. Len(Script) /\ written + 1 \in k + 1 .. Len(Script)
    BY <1>1 DEF k
  <2>2. SubSeq(Script, k + 1, written + 1)
          = SubSeq(Script, k + 1, (written + 1) - 1) \o <<Script[written + 1]>>
    BY <2>1, ScriptAssumption, SubSeqRecursiveSecond
  <2> QED BY <1>1, <2>2
<1>6. written' - Len(tty') = k
  BY <1>1, <1>3, <1>4 DEF k
<1>7. tty' = SubSeq(Script, k + 1, written')
  BY <1>3, <1>4, <1>5 DEF StreamInv, k
<1>8. Kept => Taken' = SubSeq(Script, 1, k)
  BY <1>3 DEF StreamInv, Taken, Waiting, Held, InExpect, k
<1>9. Len(tty') <= written'
  BY <1>1, <1>3, <1>4 DEF k
<1> QED BY <1>3, <1>6, <1>7, <1>8, <1>9 DEF StreamInv, Kept, Direct, k

\* A thread reads n characters, or finds nothing to read.
Reads(n) ==
  /\ n \in 1 .. Len(tty)
  /\ tty' = SubSeq(tty, n + 1, Len(tty))
  /\ Kept => Taken' = Taken \o SubSeq(tty, 1, n)

\* os.read moves a beginning of what is unread to the thread that reads, or finds the end.
LEMMA OsReadReads ==
  ASSUME Invs, StreamInv, NEW t \in Threads, OsRead(t)
  PROVE  /\ UNCHANGED <<written, drained, drainpty, child, flag_eof>>
         /\ \/ \E n \in Nat : Reads(n)
            \/ UNCHANGED tty /\ (Kept => Taken' = Taken)
<1> DEFINE n == Min({Len(tty), MaxRead})
           c == chunk["drain"]
           q == FlattenSeq(readQueue)
<1>1. UNCHANGED <<written, drained, drainpty, readQueue, child, flag_eof, consumed, incoming,
                  buffer, call>>
  BY DEF OsRead, fields, queue, loop, caller, history
<1>2. /\ pc[t] = "os.read" /\ chunk[t] = <<>>
      /\ t = "main" => InExpect
      /\ t = "main" /\ Kept => readQueue = <<>> /\ c = <<>>
  BY
     DEF OsRead, Invs, Kept, ReadInv, MainReads, QueueInv, DirectInv, LoopInv, InLoop,
         Threads
<1>3. /\ consumed \in Seq(STRING) /\ Held \in Seq(STRING) /\ incoming \in Seq(STRING)
      /\ q \in Seq(STRING)
  BY HeldType, FlattenType DEF Invs, SeqInv
<1>4. CASE fd_open /\ tty # <<>>
  <2>1. n \in 1 .. Len(tty)
    <3>1. tty \in Seq(STRING) /\ Len(tty) \in Nat
      BY LenProperties DEF Invs, SeqInv
    <3>2. n \in 0 .. Len(tty) /\ n > 0
      BY <1>4, <3>1, ReadSize
    <3> HIDE DEF n
    <3> QED BY <3>1, <3>2
  <2> HIDE DEF n
  <2> DEFINE got == SubSeq(tty, 1, n)
  <2>2. got \in Seq(STRING)
    <3>1. n \in 0 .. Len(tty)
      BY <2>1
    <3> QED BY <3>1, Cut DEF Invs, SeqInv
  <2>3. /\ chunk' = [chunk EXCEPT ![t] = got] /\ tty' = SubSeq(tty, n + 1, Len(tty))
        /\ pc' = [pc EXCEPT ![t] = "got"]
    BY <1>4 DEF OsRead, Goto, n
  <2>4. \A x, y, z \in Seq(STRING) : (x \o y) \o z = x \o (y \o z)
    BY ConcatAssociative
  <2>5. ASSUME t = "main", Kept PROVE Taken' = Taken \o got
    <3> HIDE DEF got
    <3>1. Held = incoming /\ Held' = incoming \o got
      BY <1>1, <1>2, <1>3, <2>3, <2>5, JoinEmpty
         DEF Held, InExpect, Invs, Control, SeqInv, Threads
    <3>2. Waiting = <<>> /\ Waiting' = <<>>
      BY <1>1, <1>2, <2>3, <2>5, FlattenEmpty, JoinEmpty DEF Waiting, Invs, SeqInv, Threads
    <3>3. consumed \o incoming \in Seq(STRING) /\ consumed \o (incoming \o got) \in Seq(STRING)
      BY <1>3, <2>2, ConcatProperties
    <3>4. Taken = consumed \o incoming /\ Taken' = consumed \o (incoming \o got)
      BY <1>1, <3>1, <3>2, <3>3, JoinEmpty DEF Taken
    <3>5. consumed \o (incoming \o got) = (consumed \o incoming) \o got
      BY <1>3, <2>2, <2>4, ZenonT(40)
    <3> QED BY <3>4, <3>5
  <2>6. ASSUME t = "drain" PROVE Taken' = Taken \o got
    <3> HIDE DEF got
    <3>1. Held' = Held
      BY <1>1, <2>3, <2>6 DEF Held, InExpect, Invs, Control, SeqInv, Threads
    <3>2. Waiting = q /\ Waiting' = q \o got
      BY <1>1, <1>2, <1>3, <2>3, <2>6, JoinEmpty DEF Waiting, Invs, SeqInv, Threads
    <3> HIDE DEF q
    <3>3. consumed \o Held \in Seq(STRING)
      BY <1>3, ConcatProperties
    <3>4. (consumed \o Held) \o (q \o got) = ((consumed \o Held) \o q) \o got
      BY <1>3, <2>2, <2>4, <3>3
    <3> QED BY <1>1, <3>1, <3>2, <3>4 DEF Taken
  <2>7. Reads(n)
    BY <2>1, <2>3, <2>5, <2>6 DEF Reads, Threads
  <2>8. n \in Nat
    BY <2>1
  <2> QED BY <1>1, <2>7, <2>8
<1>5. CASE ~(fd_open /\ tty # <<>>)
  <2>1. UNCHANGED <<chunk, tty>> /\ pc' = [pc EXCEPT ![t] = "eof"]
    BY <1>5 DEF OsRead, Goto
  <2>2. Held' = Held
    BY <1>1, <1>2, <2>1 DEF Held, InExpect, OsRead, Invs, Control, Threads
  <2> QED BY <1>1, <2>1, <2>2 DEF Taken, Waiting
<1> QED BY <1>4, <1>5

\* A read keeps what was taken and what is unread the two parts of the output.
LEMMA StreamRead ==
  ASSUME Invs, StreamInv, UNCHANGED <<written, drained, drainpty>>, NEW n \in Nat, Reads(n)
  PROVE  StreamInv' /\ written' - Len(tty') = written - Len(tty) + n
<1> DEFINE k == written - Len(tty)
<1>1. /\ Len(tty) \in Nat /\ written \in 0 .. Len(Script) /\ k \in Nat /\ Len(Script) \in Nat
      /\ n \in 1 .. Len(tty)
  BY ScriptLen, LenProperties DEF Invs, ScalarInv, TypeOK, SeqInv, StreamInv, Reads
<1>2. Len(tty') = Len(tty) - n
  <2>1. n \in 0 .. Len(tty) /\ tty \in Seq(STRING)
    BY <1>1 DEF Invs, SeqInv
  <2> QED BY <2>1, Cut DEF Reads
<1>3. /\ SubSeq(tty, 1, n) = SubSeq(Script, k + 1, k + n)
      /\ SubSeq(tty, n + 1, Len(tty)) = SubSeq(Script, k + n + 1, written)
  <2>1. tty = SubSeq(Script, k + 1, written) /\ k + 1 \in 1 .. Len(Script) /\ written \in 1 .. Len(Script)
    BY <1>1 DEF StreamInv
  <2>2. /\ 1 \in 1 .. written - (k + 1) + 1 /\ n \in 1 .. written - (k + 1) + 1
        /\ Len(tty) \in 1 .. written - (k + 1) + 1
    BY <1>1
  <2> DEFINE i == k + 1
  <2>3. \A m1 \in 1 .. written - i + 1, m2 \in 1 .. written - i + 1 :
           SubSeq(SubSeq(Script, i, written), m1, m2) = SubSeq(Script, i + m1 - 1, i + m2 - 1)
    BY <2>1, ScriptAssumption, SubSeqOfSubSeq
  <2>4. SubSeq(tty, 1, n) = SubSeq(Script, (k + 1) + 1 - 1, (k + 1) + n - 1)
    BY <2>1, <2>2, <2>3
  <2>5. (k + 1) + 1 - 1 = k + 1 /\ (k + 1) + n - 1 = k + n
    BY <1>1
  <2>6. CASE n < Len(tty)
    <3>1. n + 1 \in 1 .. written - i + 1
      BY <1>1, <2>6
    <3>2. SubSeq(tty, n + 1, Len(tty)) = SubSeq(Script, (k + 1) + (n + 1) - 1, (k + 1) + Len(tty) - 1)
      BY <2>1, <2>2, <2>3, <3>1
    <3>3. (k + 1) + (n + 1) - 1 = k + n + 1 /\ (k + 1) + Len(tty) - 1 = written
      BY <1>1
    <3> QED BY <2>4, <2>5, <3>2, <3>3
  <2>7. CASE n = Len(tty)
    <3>1. Len(tty) < n + 1 /\ written < k + n + 1
      BY <1>1, <2>7
    <3>2. SubSeq(tty, n + 1, Len(tty)) = <<>> /\ SubSeq(Script, k + n + 1, written) = <<>>
      BY <1>1, <3>1, SubSeqEmpty
    <3> QED BY <2>4, <2>5, <3>2
  <2> QED BY <1>1, <2>6, <2>7, SMTT(30)
<1>4. written' - Len(tty') = k + n /\ Len(tty') <= written'
  BY <1>1, <1>2
<1>5. ASSUME Kept PROVE Taken' = SubSeq(Script, 1, k + n)
  <2>1. Taken' = SubSeq(Script, 1, k) \o SubSeq(Script, k + 1, k + n)
    BY <1>3, <1>5 DEF Reads, StreamInv
  <2>2. 1 \in 1 .. Len(Script) + 1 /\ k \in 1 - 1 .. Len(Script) /\ k + n \in k .. Len(Script)
    BY <1>1
  <2> HIDE DEF k
  <2>3. SubSeq(Script, 1, k) \o SubSeq(Script, k + 1, k + n) = SubSeq(Script, 1, k + n)
    BY <2>2, ScriptAssumption, ConcatAdjacentSubSeq
  <2> QED BY <2>1, <2>3
<1>6. tty' = SubSeq(Script, written' - Len(tty') + 1, written')
  BY <1>1, <1>3, <1>4 DEF Reads
<1>7. Kept' = Kept
  BY DEF Kept, Direct
<1> QED BY <1>4, <1>5, <1>6, <1>7 DEF StreamInv

\* What each step does to the stream.
LEMMA StreamStep ==
  ASSUME Invs, StreamInv, [Next]_vars
  PROVE  StreamInv'
<1>1. CASE ChildPrint
  BY <1>1, StreamPrint
<1>2. CASE \E t \in Threads : OsRead(t)
  <2>1. PICK t \in Threads : OsRead(t)
    BY <1>2
  <2>2. CASE \E n \in Nat : Reads(n)
    BY <2>1, <2>2, OsReadReads, StreamRead
  <2>3. CASE UNCHANGED tty /\ (Kept => Taken' = Taken)
    BY <2>1, <2>3, OsReadReads DEF StreamInv, Kept, Direct
  <2> QED BY <2>1, <2>2, <2>3, OsReadReads
<1>3. CASE ExpectGet
  BY <1>3, GetTakes DEF StreamInv, Kept, Direct
<1>4. CASE ~ChildPrint /\ ~ExpectGet /\ \A t \in Threads : ~OsRead(t)
  <2>1. Moves /\ Waiting' = Waiting
    BY <1>4, MovesOnly, WaitingKept
  <2>2. Kept => Taken' = Taken
    BY <2>1 DEF Moves, Taken
  <2>3. Kept' => Kept
    BY <2>1 DEF Moves, Kept, Direct
  <2> QED BY <2>1, <2>2, <2>3 DEF Moves, StreamInv
<1> QED BY <1>1, <1>2, <1>3, <1>4

\* What a step does to the child and to the end of the output.
Living == child \in {"unborn", "running"}
Outcome ==
  \/ UNCHANGED flag_eof /\ (Living' => Living)
  \/ (Living' <=> Living) /\ flag_eof' = TRUE /\ \E t \in Threads : pc[t] = "eof"

\* Only the end of the program ends it; only a thread at the end of the output says so.
LEMMA StepOutcome ==
  ASSUME Invs, [Next]_vars
  PROVE  Outcome
<1>1. CASE ChildPrint
  BY <1>1
     DEF Outcome, Living, Invs, Control, Threads, ChildPrint, Running, kernel, fields
<1>2. CASE ChildExit
  BY <1>2
     DEF Outcome, Living, Invs, Control, Threads, ChildExit, Running, kernel, fields
<1>3. CASE ChildZombie
  BY <1>3
     DEF Outcome, Living, Invs, Control, Threads, ChildZombie, kernel, fields
<1>4. CASE DrainStart
  BY <1>4
     DEF Outcome, Living, Invs, Control, Threads, DrainStart, Goto, kernel, fields
<1>5. CASE DrainLoop
  BY <1>5
     DEF Outcome, Living, Invs, Control, Threads, DrainLoop, Goto, kernel, fields
<1>6. CASE DrainPut
  BY <1>6
     DEF Outcome, Living, Invs, Control, Threads, DrainPut, Goto, kernel, fields
<1>7. CASE DrainEof
  BY <1>7
     DEF Outcome, Living, Invs, Control, Threads, DrainEof, Goto, kernel, fields
<1>8. CASE DrainLeave
  BY <1>8
     DEF Outcome, Living, Invs, Control, Threads, DrainLeave, Goto, kernel, fields
<1>9. CASE StaleSelect
  BY <1>9
     DEF Outcome, Living, Invs, Control, Threads, StaleSelect, Goto, CallIsalive, Raise,
         kernel, fields
<1>10. CASE ExpectSearch
  BY <1>10
     DEF Outcome, Living, Invs, Control, Threads, ExpectSearch, Goto, Return, kernel, fields
<1>11. CASE ExpectGet
  BY <1>11
     DEF Outcome, Living, Invs, Control, Threads, ExpectGet, Feed, Goto, kernel, fields
<1>12. CASE ExpectGot
  BY <1>12
     DEF Outcome, Living, Invs, Control, Threads, ExpectGot, Feed, Goto, kernel, fields
<1>13. CASE ExpectEof
  BY <1>13
     DEF Outcome, Living, Invs, Control, Threads, ExpectEof, Return, Goto, kernel, fields
<1>14. CASE ExpectTimeout
  BY <1>14
     DEF Outcome, Living, Invs, Control, Threads, ExpectTimeout, Return, Goto, kernel,
         fields
<1>15. CASE Error
  BY <1>15
     DEF Outcome, Living, Invs, Control, Threads, Error, Return, Goto, kernel, fields
<1>16. CASE Terminate
  BY <1>16
     DEF Outcome, Living, Invs, Control, Threads, Terminate, CallIsalive, Goto, kernel,
         fields
<1>17. CASE Escalate
  BY <1>17
     DEF Outcome, Living, Invs, Control, Threads, Escalate, CallIsalive, Goto, kernel,
         fields
<1>18. CASE Signal
  BY <1>18
     DEF Outcome, Living, Invs, Control, Threads, Signal, CallIsalive, Goto, Deliver,
         Running, kernel, fields
<1>19. CASE Killed
  BY <1>19
     DEF Outcome, Living, Invs, Control, Threads, Killed, Return, Goto, kernel, fields
<1>20. CASE Unkilled
  BY <1>20
     DEF Outcome, Living, Invs, Control, Threads, Unkilled, Return, Goto, kernel, fields
<1>21. CASE Wait
  BY <1>21
     DEF Outcome, Living, Invs, Control, Threads, Wait, Goto, kernel, fields
<1>22. CASE MethodReturns
  BY <1>22
     DEF Outcome, Living, Invs, Control, Threads, MethodReturns, Return, Goto, kernel,
         fields
<1>23. CASE Spawn
  <2>1. child = "unborn"
    BY <1>23 DEF Spawn, Invs, ChildInv
  <2>2. UNCHANGED flag_eof
    BY <1>23 DEF Spawn, fields
  <2> QED BY <2>1, <2>2 DEF Outcome, Living
<1>24. CASE ExpectCall
  BY <1>24
     DEF Outcome, Living, Invs, Control, Threads, ExpectCall, Call, NoCall, kernel, fields
<1>25. CASE CloseCall
  BY <1>25
     DEF Outcome, Living, Invs, Control, Threads, CloseCall, Call, NoCall, kernel, fields
<1>26. CASE TerminateCall
  BY <1>26
     DEF Outcome, Living, Invs, Control, Threads, TerminateCall, Call, NoCall, CallIsalive,
         Goto, kernel, fields
<1>27. CASE WaitCall
  BY <1>27
     DEF Outcome, Living, Invs, Control, Threads, WaitCall, Call, NoCall, CallIsalive, Goto,
         kernel, fields
<1>28. CASE IsaliveCall
  BY <1>28
     DEF Outcome, Living, Invs, Control, Threads, IsaliveCall, Call, NoCall, CallIsalive,
         Goto, kernel, fields
<1>29. CASE Sendintr
  BY <1>29
     DEF Outcome, Living, Invs, Control, Threads, Sendintr, Call, NoCall, Goto, Deliver,
         Running, kernel, fields
<1>30. ASSUME NEW t \in Threads, IsaliveTest(t)
      PROVE  Outcome
  <2>1. UNCHANGED <<flag_eof, child>>
    BY <1>30 DEF IsaliveTest, kernel, fields
  <2> QED BY <2>1 DEF Outcome, Living
<1>31. ASSUME NEW t \in Threads, Waitpid(t)
      PROVE  Outcome
  <2>1. UNCHANGED flag_eof /\ (UNCHANGED child \/ (child = "zombie" /\ child' = "gone"))
    BY <1>31 DEF Waitpid, fields
  <2> QED BY <2>1 DEF Outcome, Living
<1>32. ASSUME NEW t \in Threads, Reaped(t)
      PROVE  Outcome
  <2>1. UNCHANGED <<flag_eof, child>>
    BY <1>32 DEF Reaped, kernel, fields
  <2> QED BY <2>1 DEF Outcome, Living
<1>33. ASSUME NEW t \in Threads, ReadNonblocking(t)
      PROVE  Outcome
  BY <1>33
     DEF Outcome, Living, Invs, Control, Threads, ReadNonblocking, CallIsalive, Goto, Raise,
         kernel, fields
<1>34. ASSUME NEW t \in Threads, Select(t)
      PROVE  Outcome
  BY <1>34
     DEF Outcome, Living, Invs, Control, Threads, Select, CallIsalive, Goto, Raise, Readable,
         kernel, fields
<1>35. ASSUME NEW t \in Threads, OsRead(t)
      PROVE  Outcome
  BY <1>35
     DEF Outcome, Living, Invs, Control, Threads, OsRead, Goto, kernel, fields
<1>36. CASE UNCHANGED vars
  BY <1>36 DEF Outcome, Living, Invs, Control, Threads, vars, kernel, fields
<1> QED BY <1>1, <1>2, <1>3, <1>4, <1>5, <1>6, <1>7, <1>8, <1>9, <1>10, <1>11, <1>12, <1>13,
           <1>14, <1>15, <1>16, <1>17, <1>18, <1>19, <1>20, <1>21, <1>22, <1>23, <1>24,
           <1>25, <1>26, <1>27, <1>28, <1>29, <1>30, <1>31, <1>32, <1>33, <1>34, <1>35,
           <1>36
        DEF Next, DrainThread, MainThread, Test, Threads

\* Reading directly, what was taken is with the caller: nothing waits elsewhere.
DirectTakes == Direct => consumed \o Held = SubSeq(Script, 1, written - Len(tty))

\* So the caller has the whole of it.
LEMMA DirectTaken == Invs /\ StreamInv => DirectTakes
<1> SUFFICES ASSUME Invs, StreamInv, Direct
             PROVE  consumed \o Held = SubSeq(Script, 1, written - Len(tty))
  BY DEF DirectTakes
<1>1. readQueue = <<>> /\ chunk["drain"] = <<>>
  BY DEF Invs, QueueInv, DirectInv, LoopInv, Threads
<1>2. Waiting = <<>>
  BY <1>1, FlattenEmpty, JoinEmpty DEF Waiting, Invs, SeqInv
<1>3. consumed \o Held \in Seq(STRING)
  BY HeldType, ConcatProperties DEF Invs, SeqInv
<1>4. Taken = consumed \o Held
  BY <1>2, <1>3, JoinEmpty DEF Taken
<1> QED BY <1>4 DEF StreamInv, Kept
\* The step of OutputStream that a step of the spawn object is.
LEMMA StreamRefined ==
  ASSUME Invs, StreamInv, DirectTakes, DirectTakes', [Next]_vars
  PROVE  [Stream!Next]_Stream!vars
<1> DEFINE k == written - Len(tty)
           running == child \in {"unborn", "running"}
           got == IF Direct THEN consumed \o Held ELSE SubSeq(Script, 1, k)
           ended == Direct /\ flag_eof
<1>0. /\ Len(tty) \in Nat /\ written \in 0 .. Len(Script) /\ k \in Nat /\ Len(Script) \in Nat
      /\ flag_eof \in BOOLEAN
  BY ScriptLen, LenProperties DEF Invs, ScalarInv, TypeOK, SeqInv, StreamInv
<1>1. got = SubSeq(Script, 1, k) /\ got' = SubSeq(Script, 1, k') /\ Len(got) = k
  <2>1. k \in 0 .. Len(Script)
    BY <1>0
  <2> HIDE DEF k
  <2>2. Len(SubSeq(Script, 1, k)) = k
    BY <2>1, ScriptAssumption, Cut
  <2> QED BY <2>2 DEF DirectTakes, k
<1>2. CASE ChildPrint
  <2>1. running /\ running' /\ written' = written + 1 /\ written < Len(Script)
        /\ UNCHANGED <<flag_eof, drained>>
    BY <1>2 DEF ChildPrint, Running, fields, history
  <2>2. got' = got
    BY <1>1, <1>2, StreamPrint
  <2>3. ended' = ended
    BY <2>1 DEF Direct
  <2> QED BY <2>1, <2>2, <2>3 DEF Stream!Next, Stream!Emit
<1>3. CASE \E t \in Threads : OsRead(t)
  <2>1. PICK t \in Threads : OsRead(t)
    BY <1>3
  <2>2. UNCHANGED <<written, drained, drainpty, child, flag_eof>>
    BY <2>1, OsReadReads
  <2>3. running' = running /\ ended' = ended
    BY <2>2 DEF Direct
  <2>4. CASE \E n \in Nat : Reads(n)
    <3>1. PICK n \in Nat : Reads(n)
      BY <2>4
    <3>2. k' = k + n /\ n \in 1 .. Len(tty)
      BY <2>2, <3>1, StreamRead DEF Reads
    <3>3. k + n \in k + 1 .. written
      BY <1>0, <3>2
    <3>4. \E m \in (Len(got) + 1) .. written : got' = SubSeq(Script, 1, m)
      BY <1>1, <3>2, <3>3
    <3> QED BY <2>2, <2>3, <3>4 DEF Stream!Next, Stream!Take
  <2>5. CASE UNCHANGED tty
    <3>1. got' = got
      BY <1>1, <2>2, <2>5
    <3> QED BY <2>2, <2>3, <3>1 DEF Stream!vars
  <2> QED BY <2>1, <2>4, <2>5, OsReadReads
<1>4. CASE ~ChildPrint /\ \A t \in Threads : ~OsRead(t)
  <2>1. Outcome /\ UNCHANGED <<written, tty, drained>>
    BY <1>4, MovesOnly, GetTakes, StepOutcome DEF Moves
  <2>2. got' = got /\ written' = written /\ Direct' = Direct
    BY <1>1, <2>1 DEF Direct
  <2>3. CASE UNCHANGED flag_eof /\ (Living' => Living)
    <3>1. ended' = ended
      BY <2>2, <2>3
    <3>2. CASE running' = running
      BY <2>2, <3>1, <3>2 DEF Stream!vars
    <3>3. CASE running /\ ~running'
      <4>1. running = TRUE /\ running' = FALSE
        BY <3>3
      <4> HIDE DEF running, ended
      <4>2. Stream!Exit
        BY <2>2, <3>1, <4>1 DEF Stream!Exit, running, ended
      <4> QED BY <4>2 DEF Stream!Next
    <3> QED BY <2>3, <3>2, <3>3 DEF Living
  <2>4. CASE (Living' <=> Living) /\ flag_eof' = TRUE /\ \E t \in Threads : pc[t] = "eof"
    <3>1. running' = running
      BY <2>4 DEF Living
    <3>2. CASE ~Direct
      <4>1. ended' = ended
        BY <2>2, <3>2
      <4> QED BY <2>2, <3>1, <4>1 DEF Stream!vars
    <3>3. CASE Direct
      <4>1. ended' = TRUE
        BY <2>2, <2>4, <3>3
      <4>2. pc["main"] = "eof"
        BY <2>4, <3>3 DEF Invs, DirectInv, Threads
      <4>3. InExpect /\ fd_open
        BY <3>3, <4>2 DEF Invs, LoopInv, InLoop
      <4>4. ~running
        BY <4>2, <4>3 DEF Invs, ReadInv, Ended, Threads
      <4> QED BY <2>2, <3>1, <4>1, <4>4 DEF Stream!Next, Stream!End
    <3> QED BY <3>2, <3>3
  <2> QED BY <2>1, <2>3, <2>4 DEF Outcome
<1> QED BY <1>2, <1>3, <1>4

\* What was taken and what is unread are what was printed.
LEMMA KeptIsStream == Invs /\ StreamInv => StreamKept
<1> SUFFICES ASSUME Invs, StreamInv, Kept PROVE StreamKept
  BY DEF StreamKept, Kept
<1> DEFINE k == written - Len(tty)
           q == FlattenSeq(readQueue)
           c == chunk["drain"]
<1>1. /\ Len(tty) \in Nat /\ written \in 0 .. Len(Script) /\ k \in 0 .. Len(Script)
      /\ Len(Script) \in Nat /\ written \in k .. Len(Script)
  BY ScriptLen, LenProperties DEF Invs, ScalarInv, TypeOK, SeqInv, StreamInv
<1>2. Taken \o tty = SubSeq(Script, 1, written)
  <2>1. Taken \o tty = SubSeq(Script, 1, k) \o SubSeq(Script, k + 1, written)
    BY DEF StreamInv
  <2> HIDE DEF k
  <2>2. 1 \in 1 .. Len(Script) + 1 /\ k \in 1 - 1 .. Len(Script)
    BY <1>1
  <2> QED BY <1>1, <2>1, <2>2, ScriptAssumption, ConcatAdjacentSubSeq
<1>3. /\ consumed \o Held \in Seq(STRING) /\ q \in Seq(STRING) /\ c \in Seq(STRING)
  BY HeldType, FlattenType, ConcatProperties DEF Invs, SeqInv, Threads
<1>4. Taken = consumed \o Held \o q \o c
  <2> HIDE DEF q, c
  <2>1. (consumed \o Held) \o (q \o c) = ((consumed \o Held) \o q) \o c
    BY <1>3, ConcatAssociative, SMTT(30)
  <2> QED BY <2>1 DEF Taken, Waiting, q, c
<1> QED BY <1>2, <1>4 DEF StreamKept

\* Everything holds at the beginning, where the stream is at its beginning too.
LEMMA Initially == Init => Invs /\ StreamInv /\ Stream!Init
<1> SUFFICES ASSUME Init PROVE Invs /\ StreamInv /\ Stream!Init
  OBVIOUS
<1>1. pc = [t \in Threads |-> IF t = "main" THEN "new" ELSE "none"]
  BY DEF Init
<1>2. Control
  BY <1>1 DEF Init, Control, Asking, Labels, Threads
<1>3. ChildInv /\ CloseInv
  BY <1>1 DEF Init, ChildInv, CloseInv, NoCall, Threads
<1>4. ReadInv /\ QueueInv /\ DirectInv
  BY <1>1
     DEF Init, ReadInv, QueueInv, EofMeansExited, MainReads, Asking, Threads, DirectInv,
         ReaperIsAlone, Direct
<1>5. ScalarInv
  <2>1. drained \in BOOLEAN /\ drainpty = drained
    BY InputAssumption DEF Init
  <2>2. TypeOK
    <3>1. {flag_eof, terminated, closed, drainpty, keepReading, late, drained, stray} \subseteq BOOLEAN
      BY <2>1 DEF Init
    <3>2. written \in 0 .. Len(Script) /\ calls \in 0 .. MaxCalls /\ nsig \in 0 .. 4
      BY ScriptLen, BoundAssumption DEF Init
    <3> QED BY <1>2, <3>1, <3>2 DEF Init, TypeOK, Control
  <2>3. pc["main"] = "new"
    BY <1>1 DEF Threads
  <2> QED BY <2>2, <2>3 DEF ScalarInv, Asking
<1>6. SeqInv
  BY NoSearcherIsOne DEF Init, SeqInv, NoCall, Threads
<1>7. LoopInv
  BY <1>1 DEF Init, LoopInv, InLoop, InExpect, NoCall, Asking, Threads
<1>8. Held = <<>> /\ consumed \o Held = <<>> /\ Taken = <<>>
  <2>1. Held = <<>> /\ consumed = <<>> /\ readQueue = <<>> /\ chunk["drain"] = <<>>
    BY <1>1 DEF Init, Held, InExpect, NoCall, Threads
  <2> QED BY <2>1, FlattenEmpty, JoinEmpty DEF Taken, Waiting
<1>9. SubSeq(Script, 1, 0) = <<>>
  BY SubSeqEmpty
<1>10. Len(tty) = 0 /\ written = 0 /\ tty = <<>>
  BY DEF Init
<1>11. StreamInv
  BY <1>8, <1>9, <1>10 DEF StreamInv
<1>12. Stream!Init
  <2>1. (IF Direct THEN consumed \o Held ELSE SubSeq(Script, 1, written - Len(tty))) = <<>>
    BY <1>8, <1>9, <1>10
  <2> QED BY <1>8, <1>9, <1>10 DEF Stream!Init, Init
<1> QED BY <1>2, <1>3, <1>4, <1>5, <1>6, <1>7, <1>11, <1>12 DEF Invs

\* Every step keeps the inductive invariant, layer by layer.
LEMMA Preserved == Invs /\ StreamInv /\ [Next]_vars => Invs' /\ StreamInv'
<1> SUFFICES ASSUME Invs, StreamInv, [Next]_vars PROVE Invs' /\ StreamInv'
  OBVIOUS
<1>1. Control'
  BY ControlStep DEF Invs
<1>2. ChildInv' /\ CloseInv'
  BY ChildStep, CloseStep DEF Invs
<1>3. ScalarInv' /\ SeqInv'
  BY <1>1, ScalarStep, SeqStep DEF Invs
<1>4. DirectInv' /\ LoopInv' /\ ReadInv' /\ QueueInv'
  BY DirectStep, LoopStep, ReadStep, QueueStep DEF Invs
<1>5. StreamInv'
  BY StreamStep
<1> QED BY <1>1, <1>2, <1>3, <1>4, <1>5 DEF Invs

\* The inductive invariant holds throughout.
LEMMA Inductive == Spec => [](Invs /\ StreamInv)
BY Initially, Preserved, PTL DEF Spec

\* Every variable keeps its type, whatever the caller does.
THEOREM TypeCorrect == Spec => []TypeOK
<1>1. Invs => TypeOK
  BY DEF Invs, ScalarInv
<1> QED BY <1>1, Inductive, PTL

\* isalive() reports the end of the child only when it has ended and was reaped, and
\* notes how it ended.
THEOREM StatusIsTrue == Spec => []StatusTrue
<1>1. Invs => StatusTrue
  BY DEF Invs, ChildInv, StatusTrue
<1> QED BY <1>1, Inductive, PTL

\* A spawn object that close() has closed leaves neither a descriptor nor a process.
THEOREM CloseIsClean == Spec => []ClosedIsClean
<1>1. Invs => ClosedIsClean
  BY DEF Invs, CloseInv, ClosedIsClean
<1> QED BY <1>1, Inductive, PTL

\* The end of the output is reported only when the program has exited.
THEOREM EofIsTrue == Spec => []EofMeansExited
<1>1. Invs => EofMeansExited
  BY DEF Invs, ReadInv
<1> QED BY <1>1, Inductive, PTL

\* Without the drain thread nobody else reaps the child, and terminate() signals no
\* pid that was reaped.
THEOREM OneReaper == Spec => []ReaperIsAlone
<1>1. Invs => ReaperIsAlone
  BY DEF Invs, DirectInv
<1> QED BY <1>1, Inductive, PTL

\* The spawn object implements the output stream, over all calls, timeouts and
\* partial matches.
THEOREM ImplementsStream == Spec => ReadsStream
<1>1. Init => Stream!Init
  BY Initially
<1>2. Invs /\ StreamInv => DirectTakes
  BY DirectTaken
<1>3. (Invs /\ StreamInv) /\ DirectTakes /\ DirectTakes' /\ [Next]_vars
        => [Stream!Next]_Stream!vars
  BY StreamRefined
<1> QED BY <1>1, <1>2, <1>3, Inductive, PTL DEF Spec, ReadsStream, Stream!Spec

\* Nothing of the output is lost, repeated or put in another order on its way to the
\* caller, as long as the drain thread reads or there is none.
THEOREM OutputIsKept == Spec => []StreamKept
<1>1. Invs /\ StreamInv => StreamKept
  BY KeptIsStream
<1> QED BY <1>1, Inductive, PTL
-----------------------------------------------------------------------------
(* The searches of expect_loop.                                           *)

\* Where expect_loop may look for a text: in all it has, or in the window.
SearchedFrom(searcher, b) ==
  IF searcher.window = -1 THEN 0 ELSE Max({0, Len(b) - searcher.window})

\* No text that is looked for is there, but for an empty one at the very end.
Searched(searcher, b) ==
  \A i \in DOMAIN searcher.pats :
    searcher.pats[i].type = "text" =>
      Places(b, searcher.pats[i].s, SearchedFrom(searcher, b)) \subseteq {Len(b)}

\* searcher_string, which looks only at the fresh data and a little before it, has
\* nothing to find before that.
NothingBehind(searcher, b, fresh) ==
  searcher.exact /\ searcher.window = -1 =>
    \A i \in DOMAIN searcher.pats :
      searcher.pats[i].type = "text" =>
        \A n \in Places(b, searcher.pats[i].s, 0) :
          n + Len(searcher.pats[i].s) >= Len(b) - fresh

\* Before a search nothing is behind what it will look at; after one that found
\* nothing, until more output arrives, nothing is there at all.
SearchInv ==
  InExpect =>
    /\ pc["main"] = "search" => NothingBehind(call.searcher, incoming, freshlen)
    /\ pc["main"] \notin {"search", "error"} => Searched(call.searcher, incoming)

\* A search that finds nothing has seen everything, when nothing is behind it.
LEMMA SearchSeesAll ==
  ASSUME NEW searcher \in Searcher, NEW b \in Seq(STRING), NEW fresh \in Nat,
         NothingBehind(searcher, b, fresh), ~(search(searcher, b, fresh).index > 0)
  PROVE  Searched(searcher, b)
<1> DEFINE start(s) == IF searcher.exact THEN StartOfString(b, fresh, s, searcher.window)
                       ELSE StartOfRe(b, searcher.window)
           texts == {j \in DOMAIN searcher.pats : searcher.pats[j].type = "text"}
           hits == UNION {{<<n, i>> : n \in Places(b, searcher.pats[i].s,
                                                   start(searcher.pats[i].s))} : i \in texts}
           inside == {h \in hits : h[1] < Len(b)}
           first(x) == \A y \in inside : x[1] < y[1] \/ (x[1] = y[1] /\ x[2] <= y[2])
           found == CHOOSE x \in inside : first(x)
<1>1. Len(b) \in Nat /\ searcher.window \in Nat \cup {-1} /\ searcher.exact \in BOOLEAN
  BY LenProperties DEF Searcher
<1>2. search(searcher, b, fresh) =
        IF inside = {} THEN [index |-> 0, start |-> 0, end |-> 0]
        ELSE [index |-> found[2], start |-> found[1],
              end |-> found[1] + Len(searcher.pats[found[2]].s)]
  BY DEF search
<1>3. ASSUME NEW h \in hits PROVE h[1] \in Nat /\ h[2] \in Nat \ {0} /\ h = <<h[1], h[2]>>
  <2>1. PICK i \in texts : h \in {<<n, i>> : n \in Places(b, searcher.pats[i].s,
                                                         start(searcher.pats[i].s))}
    OBVIOUS
  <2>2. PICK n \in Places(b, searcher.pats[i].s, start(searcher.pats[i].s)) : h = <<n, i>>
    BY <2>1
  <2>3. searcher.pats[i].s \in Seq(STRING) /\ i \in Nat /\ i > 0
    BY TextOf
  <2>4. start(searcher.pats[i].s) \in Nat
    BY <2>3, <1>1, StartIsPlace
  <2>5. n \in Nat
    <3> HIDE DEF start
    <3> QED BY <2>3, <2>4, PlaceInBuffer
  <2> QED BY <2>2, <2>3, <2>5
<1>4. inside = {}
  <2> SUFFICES ASSUME inside # {} PROVE FALSE
    OBVIOUS
  <2>1. inside \subseteq Nat \X Nat
    <3> HIDE DEF hits
    <3> QED BY <1>3
  <2>2. \E x \in inside : first(x)
    <3> HIDE DEF hits
    <3> QED BY <2>1, FirstPair
  <2>3. found \in inside
    <3> HIDE DEF inside, first
    <3> QED BY <2>2
  <2>4. found[2] \in Nat \ {0}
    <3> HIDE DEF hits, found
    <3> QED BY <2>3, <1>3
  <2> HIDE DEF inside, found
  <2> QED BY <1>2, <2>4
<1>5. ASSUME NEW i \in DOMAIN searcher.pats, searcher.pats[i].type = "text",
             NEW n \in Places(b, searcher.pats[i].s, SearchedFrom(searcher, b)), n # Len(b)
      PROVE  FALSE
  <2> DEFINE s == searcher.pats[i].s
  <2>1. s \in Seq(STRING) /\ Len(s) \in Nat /\ SearchedFrom(searcher, b) \in Nat
    BY TextOf, <1>1, MaxIsOne DEF SearchedFrom
  <2>2. /\ n \in Nat /\ n >= SearchedFrom(searcher, b) /\ n + Len(s) <= Len(b)
        /\ SubSeq(b, n + 1, n + Len(s)) = s
    <3>1. n \in Places(b, s, SearchedFrom(searcher, b))
      BY <1>5
    <3> HIDE DEF s
    <3> QED BY <2>1, <3>1, PlaceInBuffer
  <2>3. n < Len(b)
    BY <1>1, <1>5, <2>1, <2>2
  <2>4. n >= start(s)
    <3>1. CASE searcher.exact /\ searcher.window = -1
      <4>1. n \in Places(b, s, 0)
        <5> HIDE DEF s
        <5> QED BY <1>1, <2>1, <2>2 DEF Places
      <4>2. n + Len(s) >= Len(b) - fresh
        BY <3>1, <4>1, <1>5 DEF NothingBehind
      <4> DEFINE back == fresh + Len(s)
      <4>3. back \in Nat /\ n >= 0 /\ n >= Len(b) - back
        <5> HIDE DEF s
        <5> QED BY <1>1, <2>1, <2>2, <4>2 DEF back
      <4>4. start(s) = IF back = 0 THEN 0 ELSE Max({0, Len(b) - back})
        BY <3>1 DEF StartOfString
      <4> HIDE DEF start, s, back
      <4>5. Len(b) - back \in Int
        BY <1>1, <4>3
      <4>6. Max({0, Len(b) - back}) \in {0, Len(b) - back}
        BY <4>5, MaxIsOne
      <4> QED BY <4>3, <4>4, <4>6
    <3>2. CASE searcher.exact /\ searcher.window # -1
      BY <3>2, <2>2 DEF StartOfString, SearchedFrom
    <3>3. CASE ~searcher.exact
      BY <3>3, <2>2 DEF StartOfRe, SearchedFrom
    <3> QED BY <1>1, <3>1, <3>2, <3>3
  <2>5. start(s) \in Nat
    BY <2>1, <1>1, StartIsPlace
  <2>6. n \in Places(b, s, start(s))
    <3> HIDE DEF s, start
    <3> QED BY <1>1, <2>1, <2>2, <2>4, <2>5 DEF Places
  <2>7. <<n, i>> \in hits
    <3> HIDE DEF start
    <3> QED BY <2>6, <1>5
  <2>8. <<n, i>> \in inside
    <3> HIDE DEF hits
    <3> QED BY <2>3, <2>7
  <2> QED BY <1>4, <2>8
<1> QED BY <1>5 DEF Searched

\* New output brings no match that ends before it.
LEMMA FeedBehind ==
  ASSUME NEW searcher \in Searcher, NEW b \in Seq(STRING), NEW c \in Seq(STRING),
         NEW fresh \in Nat, Searched(searcher, b)
  PROVE  NothingBehind(searcher, b \o c, IF c = None THEN fresh ELSE Len(c))
<1>1. SUFFICES ASSUME searcher.exact, searcher.window = -1,
                      NEW i \in DOMAIN searcher.pats, searcher.pats[i].type = "text",
                      NEW n \in Places(b \o c, searcher.pats[i].s, 0)
               PROVE  n + Len(searcher.pats[i].s)
                        >= Len(b \o c) - (IF c = None THEN fresh ELSE Len(c))
  BY DEF NothingBehind
<1> DEFINE s == searcher.pats[i].s
<1>2. Len(b) \in Nat /\ Len(c) \in Nat /\ b \o c \in Seq(STRING) /\ Len(b \o c) = Len(b) + Len(c)
  BY LenProperties, ConcatProperties
<1>3. s \in Seq(STRING) /\ Len(s) \in Nat
  BY TextOf
<1>4. /\ n \in Nat /\ n + Len(s) <= Len(b) + Len(c)
      /\ SubSeq(b \o c, n + 1, n + Len(s)) = s
  <2> HIDE DEF s
  <2>1. n \in Places(b \o c, s, 0)
    BY DEF s
  <2>2. 0 \in Nat
    OBVIOUS
  <2>3. n \in Nat /\ n + Len(s) <= Len(b \o c) /\ SubSeq(b \o c, n + 1, n + Len(s)) = s
    BY <1>2, <1>3, <2>1, <2>2, PlaceInBuffer
  <2> QED BY <1>2, <2>3
<1>5. SUFFICES ASSUME n + Len(s) < Len(b) PROVE FALSE
  <2>1. c = None => Len(c) = 0
    BY DEF None
  <2>2. n + Len(s) >= Len(b) => n + Len(s) >= Len(b \o c) - (IF c = None THEN fresh ELSE Len(c))
    <3> DEFINE f == IF c = None THEN fresh ELSE Len(c)
    <3>1. f \in Nat /\ f >= Len(c)
      BY <1>2, <2>1
    <3> HIDE DEF s, f
    <3>2. n + Len(s) >= Len(b) => n + Len(s) >= Len(b \o c) - f
      BY <1>2, <1>3, <1>4, <3>1
    <3> QED BY <3>2 DEF f
  <2>3. n + Len(s) < Len(b) \/ n + Len(s) >= Len(b)
    <3> HIDE DEF s
    <3> QED BY <1>2, <1>3, <1>4
  <2> QED BY <2>2, <2>3
<1>6. SubSeq(b, n + 1, n + Len(s)) = s
  <2>1. SubSeq(b \o c, n + 1, n + Len(s)) = SubSeq(b, n + 1, n + Len(s))
    <3> HIDE DEF s
    <3>1. CASE Len(s) = 0
      BY <3>1, <1>2, <1>3, <1>4, SubSeqEmpty
    <3>2. CASE Len(s) # 0
      <4>1. n + 1 \in 1 .. Len(b) /\ n + Len(s) \in 1 .. Len(b)
        BY <3>2, <1>2, <1>3, <1>4, <1>5
      <4> QED BY <4>1, SubSeqOfConcat1
    <3> QED BY <3>1, <3>2
  <2> QED BY <1>4, <2>1
<1>7. n \in Places(b, s, 0)
  <2> HIDE DEF s
  <2> QED BY <1>2, <1>3, <1>4, <1>5, <1>6 DEF Places
<1>8. n \in Places(b, searcher.pats[i].s, SearchedFrom(searcher, b))
  BY <1>1, <1>7 DEF SearchedFrom
<1>9. n = Len(b)
  BY <1>1, <1>8 DEF Searched
<1> QED
  <2> HIDE DEF s
  <2> QED BY <1>2, <1>3, <1>5, <1>9

\* A step that is not one of expect_loop's own leaves the caller's text and searcher
\* alone and does not make it search, or expect_loop is left.
Steady ==
  InExpect' =>
    /\ InExpect /\ UNCHANGED <<incoming, freshlen, call>>
    /\ \/ pc'["main"] = pc["main"]
       \/ pc["main"] \notin {"search", "error"} /\ pc'["main"] # "search"

\* Only the call itself, a search and the arrival of data do more than that.
LEMMA SteadyOrLoop ==
  ASSUME Invs, [Next]_vars, ~ExpectCall, ~ExpectSearch, ~ExpectGet, ~ExpectGot
  PROVE  Steady
<1>1. CASE ChildPrint
  BY <1>1
     DEF Steady, InExpect, Invs, Control, Threads, ChildPrint, Running, loop, caller
<1>2. CASE ChildExit
  BY <1>2
     DEF Steady, InExpect, Invs, Control, Threads, ChildExit, Running, loop, caller
<1>3. CASE ChildZombie
  BY <1>3
     DEF Steady, InExpect, Invs, Control, Threads, ChildZombie, loop, caller
<1>4. CASE DrainStart
  BY <1>4
     DEF Steady, InExpect, Invs, Control, Threads, DrainStart, Goto, loop, caller
<1>5. CASE DrainLoop
  BY <1>5
     DEF Steady, InExpect, Invs, Control, Threads, DrainLoop, Goto, loop, caller
<1>6. CASE DrainPut
  BY <1>6
     DEF Steady, InExpect, Invs, Control, Threads, DrainPut, Goto, loop, caller
<1>7. CASE DrainEof
  BY <1>7
     DEF Steady, InExpect, Invs, Control, Threads, DrainEof, Goto, loop, caller
<1>8. CASE DrainLeave
  BY <1>8
     DEF Steady, InExpect, Invs, Control, Threads, DrainLeave, Goto, loop, caller
<1>9. CASE StaleSelect
  BY <1>9
     DEF Steady, InExpect, Invs, Control, Threads, StaleSelect, Goto, CallIsalive, Raise,
         loop, caller
<1>10. CASE ExpectEof
  BY <1>10
     DEF Steady, InExpect, Invs, Control, Threads, ExpectEof, Return, Goto, NoCall, loop,
         caller
<1>11. CASE ExpectTimeout
  BY <1>11
     DEF Steady, InExpect, Invs, Control, Threads, ExpectTimeout, Return, Goto, NoCall,
         loop, caller
<1>12. CASE Error
  BY <1>12
     DEF Steady, InExpect, Invs, Control, Threads, Error, Return, Goto, NoCall, loop,
         caller
<1>13. CASE Terminate
  BY <1>13
     DEF Steady, InExpect, Invs, Control, Threads, Terminate, CallIsalive, Goto, loop,
         caller
<1>14. CASE Escalate
  BY <1>14
     DEF Steady, InExpect, Invs, Control, Threads, Escalate, CallIsalive, Goto, loop,
         caller
<1>15. CASE Signal
  BY <1>15
     DEF Steady, InExpect, Invs, Control, Threads, Signal, CallIsalive, Goto, loop, caller
<1>16. CASE Killed
  BY <1>16
     DEF Steady, InExpect, Invs, Control, Threads, Killed, Return, Goto, NoCall, loop,
         caller
<1>17. CASE Unkilled
  BY <1>17
     DEF Steady, InExpect, Invs, Control, Threads, Unkilled, Return, Goto, NoCall, loop,
         caller
<1>18. CASE Wait
  BY <1>18
     DEF Steady, InExpect, Invs, Control, Threads, Wait, Goto, loop, caller
<1>19. CASE MethodReturns
  BY <1>19
     DEF Steady, InExpect, Invs, Control, Threads, MethodReturns, Return, Goto, NoCall,
         loop, caller
<1>20. CASE Spawn
  BY <1>20
     DEF Steady, InExpect, Invs, Control, Threads, Spawn, Goto, loop, caller
<1>21. CASE CloseCall
  BY <1>21
     DEF Steady, InExpect, Invs, Control, Threads, CloseCall, Call, NoCall, loop, caller
<1>22. CASE TerminateCall
  BY <1>22
     DEF Steady, InExpect, Invs, Control, Threads, TerminateCall, Call, NoCall,
         CallIsalive, Goto, loop, caller
<1>23. CASE WaitCall
  BY <1>23
     DEF Steady, InExpect, Invs, Control, Threads, WaitCall, Call, NoCall, CallIsalive,
         Goto, loop, caller
<1>24. CASE IsaliveCall
  BY <1>24
     DEF Steady, InExpect, Invs, Control, Threads, IsaliveCall, Call, NoCall, CallIsalive,
         Goto, loop, caller
<1>25. CASE Sendintr
  BY <1>25
     DEF Steady, InExpect, Invs, Control, Threads, Sendintr, Call, NoCall, Goto, loop,
         caller
<1>26. ASSUME NEW t \in Threads, IsaliveTest(t)
      PROVE  Steady
  <2>1. ret[t] \in Returns
    BY <1>26 DEF IsaliveTest, Invs, Control, Asking
  <2>2. \E label \in Labels : pc' = [pc EXCEPT ![t] = label] /\ label # "search"
    BY <1>26, <2>1, ResumeAt DEF IsaliveTest, Labels, Goto, Answer
  <2> QED BY <1>26, <2>2
          DEF Steady, InExpect, Invs, Control, Threads, IsaliveTest, loop, caller
<1>27. ASSUME NEW t \in Threads, Waitpid(t)
      PROVE  Steady
  <2>1. ret[t] \in Returns
    BY <1>27 DEF Waitpid, Invs, Control, Asking
  <2>2. \E label \in Labels : pc' = [pc EXCEPT ![t] = label] /\ label # "search"
    BY <1>27, <2>1, ResumeAt DEF Waitpid, Labels, Goto, Answer, Raise
  <2> QED BY <1>27, <2>2
          DEF Steady, InExpect, Invs, Control, Threads, Waitpid, loop, caller
<1>28. ASSUME NEW t \in Threads, Reaped(t)
      PROVE  Steady
  <2>1. ret[t] \in Returns
    BY <1>28 DEF Reaped, Invs, Control, Asking
  <2>2. \E label \in Labels : pc' = [pc EXCEPT ![t] = label] /\ label # "search"
    BY <1>28, <2>1, ResumeAt DEF Reaped, Labels, Goto, Answer
  <2> QED BY <1>28, <2>2
          DEF Steady, InExpect, Invs, Control, Threads, Reaped, loop, caller
<1>29. ASSUME NEW t \in Threads, ReadNonblocking(t)
      PROVE  Steady
  BY <1>29
     DEF Steady, InExpect, Invs, Control, Threads, ReadNonblocking, CallIsalive, Raise, Goto, loop, caller
<1>30. ASSUME NEW t \in Threads, Select(t)
      PROVE  Steady
  BY <1>30
     DEF Steady, InExpect, Invs, Control, Threads, Select, CallIsalive, Raise, Goto, loop, caller
<1>31. ASSUME NEW t \in Threads, OsRead(t)
      PROVE  Steady
  BY <1>31
     DEF Steady, InExpect, Invs, Control, Threads, OsRead, Goto, loop, caller
<1>32. CASE UNCHANGED vars
  BY <1>32 DEF Steady, InExpect, vars, loop, caller
<1> QED BY <1>1, <1>2, <1>3, <1>4, <1>5, <1>6, <1>7, <1>8, <1>9, <1>10, <1>11, <1>12,
           <1>13, <1>14, <1>15, <1>16, <1>17, <1>18, <1>19, <1>20, <1>21, <1>22, <1>23,
           <1>24, <1>25, <1>26, <1>27, <1>28, <1>29, <1>30, <1>31, <1>32
        DEF Next, DrainThread, MainThread, Test, Threads

\* What arrives, and the empty end marker, leave nothing behind what is searched next.
LEMMA FeedSearches ==
  ASSUME Invs, InExpect, Searched(call.searcher, incoming), NEW c \in Seq(STRING), Feed(c),
         UNCHANGED call
  PROVE  SearchInv'
<1>1. /\ incoming' = incoming \o c /\ freshlen' = IF c = None THEN freshlen ELSE Len(c)
      /\ pc'["main"] = "search"
  BY DEF Feed, Goto, Invs, Control, Threads
<1>2. NothingBehind(call.searcher, incoming', freshlen')
  BY <1>1, FeedBehind DEF Invs, SeqInv
<1> QED BY <1>1, <1>2 DEF SearchInv

\* expect_loop waits only after a search that saw all there is.
LEMMA SearchStep ==
  ASSUME Invs, SearchInv, [Next]_vars
  PROVE  SearchInv'
<1>1. CASE ExpectCall
  <2>1. buffer \in Seq(STRING) /\ Len(buffer) \in Nat
    BY LenProperties DEF Invs, SeqInv
  <2>2. /\ call'.searcher \in Searcher
        /\ incoming' = buffer /\ freshlen' = Len(buffer)
        /\ pc'["main"] \in {"error", "search"}
    BY <1>1, SearcherAssumption DEF ExpectCall, Call, NoCall, Invs, Control, Threads
  <2>3. ASSUME NEW i \in DOMAIN call'.searcher.pats,
               NEW n \in Places(buffer, call'.searcher.pats[i].s, 0)
        PROVE  n + Len(call'.searcher.pats[i].s) >= Len(buffer) - Len(buffer)
    <3> DEFINE s == call'.searcher.pats[i].s
    <3>1. s \in Seq(STRING) /\ Len(s) \in Nat
      BY <2>2, TextOf
    <3>2. n \in Places(buffer, s, 0)
      OBVIOUS
    <3> HIDE DEF s
    <3>3. n \in Nat
      BY <2>1, <3>1, <3>2, PlaceInBuffer
    <3>4. n + Len(s) >= Len(buffer) - Len(buffer)
      BY <2>1, <3>1, <3>3
    <3> QED BY <3>4 DEF s
  <2>4. NothingBehind(call'.searcher, buffer, Len(buffer))
    BY <2>3 DEF NothingBehind
  <2> QED BY <2>2, <2>4 DEF SearchInv
<1>2. CASE ExpectSearch
  <2> DEFINE m == search(call.searcher, incoming, freshlen)
  <2>1. CASE m.index > 0
    BY <1>2, <2>1 DEF ExpectSearch, Return, NoCall, SearchInv, InExpect
  <2>2. CASE ~(m.index > 0)
    <3>1. /\ UNCHANGED <<incoming, freshlen, call>>
          /\ pc'["main"] \in {"timeout", "get", "read_nonblocking"}
      BY <1>2, <2>2 DEF ExpectSearch, Goto, loop, caller, Invs, Control, Threads
    <3>2. NothingBehind(call.searcher, incoming, freshlen)
      BY <1>2 DEF ExpectSearch, SearchInv, Invs, LoopInv, InLoop
    <3>3. Searched(call.searcher, incoming)
      <4> HIDE DEF m
      <4> QED BY <2>2, <3>2, SearchSeesAll DEF m, Invs, SeqInv
    <3> QED BY <3>1, <3>3 DEF SearchInv
  <2> QED BY <2>1, <2>2
<1>3. CASE ExpectGet
  <2>1. InExpect /\ Searched(call.searcher, incoming) /\ UNCHANGED call
    BY <1>3 DEF ExpectGet, SearchInv, Invs, LoopInv, InLoop, caller
  <2>2. CASE readQueue # <<>> /\ Feed(Head(readQueue))
    <3>1. Head(readQueue) \in Seq(STRING)
      BY <2>2, HeadTailProperties DEF Invs, SeqInv
    <3> QED BY <2>1, <2>2, <3>1, FeedSearches
  <2>3. CASE UNCHANGED <<incoming, freshlen>> /\ Goto("main", "search")
    <3>1. incoming \in Seq(STRING) /\ <<>> \in Seq(STRING) /\ freshlen \in Nat
          /\ call.searcher \in Searcher
      BY EmptySeq DEF Invs, SeqInv
    <3>2. NothingBehind(call.searcher, incoming \o <<>>, freshlen)
      BY <2>1, <3>1, FeedBehind DEF None
    <3>3. pc'["main"] = "search"
      BY <2>3 DEF Goto, Invs, Control, Threads
    <3> QED BY <2>1, <2>3, <3>1, <3>2, <3>3, JoinEmpty DEF SearchInv
  <2> QED BY <1>3, <2>2, <2>3 DEF ExpectGet
<1>4. CASE ExpectGot
  <2>1. InExpect /\ Searched(call.searcher, incoming) /\ UNCHANGED call
    BY <1>4 DEF ExpectGot, SearchInv, Invs, LoopInv, InLoop, caller
  <2>2. chunk["main"] \in Seq(STRING) /\ Feed(chunk["main"])
    BY <1>4 DEF ExpectGot, Invs, SeqInv, Threads
  <2> QED BY <2>1, <2>2, FeedSearches
<1>5. CASE ~ExpectCall /\ ~ExpectSearch /\ ~ExpectGet /\ ~ExpectGot
  <2>1. Steady
    BY <1>5, SteadyOrLoop
  <2> QED BY <2>1 DEF Steady, SearchInv, InExpect
<1> QED BY <1>1, <1>2, <1>3, <1>4, <1>5

\* Nothing is being searched yet at the beginning.
LEMMA SearchInitially == Init => SearchInv
BY DEF Init, SearchInv, InExpect, NoCall

\* expect_loop does not wait for more output while a text that the caller asked for is
\* in what it has: looking only at the fresh data and a little before it misses nothing.
THEOREM NoMatchMissed == Spec => []NoMissedMatch
<1>1. SearchInv => NoMissedMatch
  BY DEF SearchInv, NoMissedMatch, Searched, SearchedFrom
<1>2. Init => SearchInv
  BY SearchInitially
<1>3. Invs /\ SearchInv /\ [Next]_vars => SearchInv'
  BY SearchStep
<1> QED BY <1>1, <1>2, <1>3, Inductive, PTL DEF Spec
=============================================================================
