------------------------------- MODULE Expect -------------------------------
(***************************************************************************)
(* The spawn class of the customised pexpect (src/pexpect-dpty/pexpect.py) *)
(* through which the tests drive cush: a program behind a pseudo terminal, *)
(* the caller's thread ("main") that expects patterns in its output and    *)
(* controls the program, and the thread ("drain") that the customised      *)
(* version starts to read the terminal in parallel.                        *)
(*                                                                         *)
(* An action is a stretch of one thread's code between two points at which *)
(* the other thread or the program can make a difference.  The two share   *)
(* the fields of the spawn object; there is no lock.                       *)
(***************************************************************************)
EXTENDS Integers, FiniteSets, SequencesExt

CONSTANTS
  Script,       \* characters the program prints if it runs to its end
  Searchers,    \* what the caller expects: searcher objects, see Searcher
  Ops,          \* methods the caller calls
  Timeouts,     \* of expect: "finite" or "None"
  Drains,       \* values of the drainpty argument of spawn
  Commands,     \* command lines given to spawn, sequences of characters
  Installed,    \* commands that which() finds
  MaxRead,      \* maxread
  MaxCalls      \* bound on the calls of the caller

Threads == {"main", "drain"}
None == <<>>                     \* the end marker of readQueue; no chunk is empty
SIGNALS == <<"SIGHUP", "SIGCONT", "SIGINT", "SIGKILL">>  \* terminate, in order

ASSUME ScriptAssumption == Script \in Seq(STRING)
ASSUME BoundAssumption  == MaxRead \in Nat \ {0} /\ MaxCalls \in Nat
ASSUME InputAssumption  == /\ Timeouts \subseteq {"finite", "None"}
                           /\ Drains \subseteq BOOLEAN
                           /\ Ops \subseteq {"expect", "close", "terminate",
                                             "wait", "isalive", "sendintr"}

VARIABLES
  \* --- the program and the pseudo terminal ---
  child,        \* "unborn", "running", "exiting", "zombie" or "gone"
  cause,        \* what ended it: "exit" or a signal
  written,      \* how much of Script it has printed
  tty,          \* printed and not yet read from the master side
  fd_open,      \* the master side is open
  \* --- fields of the spawn object ---
  drainpty, flag_eof, terminated, closed, status, buffer,
  \* --- the drain thread ---
  keepReading, readQueue,
  \* --- control of the two threads ---
  pc,           \* where each thread is
  ret,          \* where isalive() returns to
  chunk,        \* what read_nonblocking() returned
  \* --- the caller ---
  call,         \* the method it is in and its arguments
  incoming, freshlen, late,      \* locals of expect_loop
  nsig,         \* signals terminate() has sent
  result,       \* outcome of its last call
  calls,        \* number of calls so far
  \* --- history ---
  drained,      \* the drainpty argument of spawn
  consumed,     \* output the caller has been given for good
  stray         \* a signal was sent to the pid after it was reaped

kernel  == <<child, cause, written, tty, fd_open>>
fields  == <<flag_eof, terminated, closed, status>>
queue   == <<drainpty, keepReading, readQueue>>
loop    == <<buffer, incoming, freshlen, late, consumed>>
caller  == <<call, nsig, result, calls>>
history == <<drained, stray>>

vars == <<kernel, fields, queue, loop, caller, history, pc, ret, chunk>>
-----------------------------------------------------------------------------
(* split_command_line: one character at a time through five states.        *)

Step(s, c) ==
  LET plain == s.state \in {"basic", "whitespace"}
      close == IF s.state = "single" THEN "'" ELSE "\""
  IN  CASE plain /\ c = "\\" -> [s EXCEPT !.state = "esc"]
        [] plain /\ c = "'"  -> [s EXCEPT !.state = "single"]
        [] plain /\ c = "\"" -> [s EXCEPT !.state = "double"]
        [] plain /\ c = " "  ->
             IF s.state = "whitespace" THEN s
             ELSE [state |-> "whitespace", list |-> Append(s.list, s.arg), arg |-> <<>>]
        [] (plain /\ c \notin {"\\", "'", "\"", " "}) \/ s.state = "esc" ->
             [s EXCEPT !.arg = Append(@, c), !.state = "basic"]
        [] s.state \in {"single", "double"} ->
             IF c = close THEN [s EXCEPT !.state = "basic"]
             ELSE [s EXCEPT !.arg = Append(@, c)]

split_command_line(line) ==
  LET end == FoldLeft(Step, [state |-> "basic", list |-> <<>>, arg |-> <<>>], line)
  IN  IF end.arg = <<>> THEN end.list ELSE Append(end.list, end.arg)
-----------------------------------------------------------------------------
(* The searchers.  A pattern is a text, EOF or TIMEOUT; of the regular     *)
(* expressions of searcher_re only texts are modelled.  Positions in the   *)
(* buffer start at 0, those in a pattern list at 1.                        *)

Pattern == [type : {"text", "EOF", "TIMEOUT"}, s : Seq(STRING)]
Searcher == [exact : BOOLEAN, pats : Seq(Pattern), window : Nat \cup {-1}]

ASSUME SearcherAssumption == Searchers \subseteq Searcher

Text(s) == [type |-> "text", s |-> s]
EOF     == [type |-> "EOF", s |-> <<>>]
TIMEOUT == [type |-> "TIMEOUT", s |-> <<>>]

\* The searchers that the methods of spawn make; a window that is not given (-1)
\* is the whole buffer.  expect() is not influenced by the attribute
\* searchwindowsize.  readline's line end is one character here.
expect(pats, window)       == [exact |-> FALSE, pats |-> pats, window |-> window]
expect_exact(pats, window) == [exact |-> TRUE, pats |-> pats, window |-> window]
read     == expect(<<EOF>>, -1)
readline == expect(<<Text(<<"\n">>), EOF>>, -1)

\* __init__: the last index of EOF and of TIMEOUT counts, 0 when there is none.
IndexOf(searcher, type) ==
  Max({0} \cup {i \in DOMAIN searcher.pats : searcher.pats[i].type = type})

eof_index(searcher)     == IndexOf(searcher, "EOF")
timeout_index(searcher) == IndexOf(searcher, "TIMEOUT")

\* str.find and re.search for a text.
Places(b, s, from) ==
  {n \in from .. (Len(b) - Len(s)) : SubSeq(b, n + 1, n + Len(s)) = s}

\* Bug: only the fresh data is searched.
StartAtFresh(b, fresh, s, window) ==
  LET back == IF window = -1 THEN fresh ELSE window
  IN  IF back = 0 THEN 0 ELSE Max({0, Len(b) - back})

\* searcher_string looks at the fresh data and as much before it as a match
\* that ends in it can take; a negative offset of str.find counts from the end
\* of the buffer, -0 is its beginning.
StartOfString(b, fresh, s, window) ==
  LET back == IF window = -1 THEN fresh + Len(s) ELSE window
  IN  IF back = 0 THEN 0 ELSE Max({0, Len(b) - back})

StartOfRe(b, window) == IF window = -1 THEN 0 ELSE Max({0, Len(b) - window})

\* The earliest match, of the first pattern that has one there.  An (empty)
\* match at the end of the buffer is none.
search(searcher, b, fresh) ==
  LET start(s) == IF searcher.exact THEN StartOfString(b, fresh, s, searcher.window)
                  ELSE StartOfRe(b, searcher.window)
      hits == UNION {{<<n, i>> : n \in Places(b, searcher.pats[i].s,
                                              start(searcher.pats[i].s))} :
                       i \in {j \in DOMAIN searcher.pats : searcher.pats[j].type = "text"}}
      inside == {h \in hits : h[1] < Len(b)}
  IN  IF inside = {} THEN [index |-> 0, start |-> 0, end |-> 0]
      ELSE LET h == CHOOSE x \in inside :
                      \A y \in inside : x[1] < y[1] \/ (x[1] = y[1] /\ x[2] <= y[2])
           IN  [index |-> h[2], start |-> h[1], end |-> h[1] + Len(searcher.pats[h[2]].s)]
-----------------------------------------------------------------------------
(* The program under test.  Its side of the terminal is closed when it     *)
(* exits; a little later it is a zombie that waitpid finds.  A signal ends *)
(* it (SIGKILL) or may end it (SIGINT, and SIGHUP if it does not ignore it *)
(* as _spawn makes it do); SIGCONT does not.                               *)

Running == child = "running"

ChildPrint ==
  /\ Running
  /\ written < Len(Script)
  /\ written' = written + 1
  /\ tty' = Append(tty, Script[written + 1])
  /\ UNCHANGED <<child, cause, fd_open, fields, queue, loop, caller, history, pc, ret, chunk>>

ChildExit ==
  /\ Running
  /\ child' = "exiting"
  /\ cause' = "exit"
  /\ UNCHANGED <<written, tty, fd_open, fields, queue, loop, caller, history, pc, ret, chunk>>

ChildZombie ==
  /\ child = "exiting"
  /\ child' = "zombie"
  /\ UNCHANGED <<cause, written, tty, fd_open, fields, queue, loop, caller, history, pc, ret, chunk>>

\* What os.kill(pid, sig) and an interrupt character do to a child there is.
Deliver(sig) ==
  \/ /\ sig # "SIGKILL" \/ ~Running
     /\ UNCHANGED <<child, cause>>
  \/ /\ Running /\ sig # "SIGCONT"
     /\ child' = "exiting"
     /\ cause' = sig
-----------------------------------------------------------------------------
(* isalive() and read_nonblocking(), which both threads run.  isalive()    *)
(* returns to ret[t]; Resume is the place the thread goes to with the      *)
(* answer.   An exception of the drain thread ends it, one of the caller is *)
(* handled at "error".                                                     *)

\* Bug: a select that times out is taken for the end of the output.
ResumeLateIsEof(t, alive) ==
  LET answer(yes, no) == IF alive THEN yes ELSE no
  IN  CASE ret[t] = "read"      -> "select"
        [] ret[t] = "late"      -> "eof"
        [] ret[t] = "close"     -> answer("terminate", "killed")
        [] ret[t] = "terminate" -> answer("escalate", "killed")
        [] ret[t] = "kill"      -> answer("signal", "terminate")
        [] ret[t] = "last"      -> answer("unkilled", "killed")
        [] ret[t] = "wait"      -> answer("wait", "error")
        [] ret[t] \in {"waited", "isalive"} -> "return"

Resume(t, alive) ==
  LET answer(yes, no) == IF alive THEN yes ELSE no
  IN  CASE ret[t] = "read"      -> "select"
        [] ret[t] = "late"      -> answer("timeout", "eof")
        [] ret[t] = "close"     -> answer("terminate", "killed")
        [] ret[t] = "terminate" -> answer("escalate", "killed")
        [] ret[t] = "kill"      -> answer("signal", "terminate")
        [] ret[t] = "last"      -> answer("unkilled", "killed")
        [] ret[t] = "wait"      -> answer("wait", "error")
        [] ret[t] \in {"waited", "isalive"} -> "return"

Raise(t) == IF t = "drain" THEN "dead" ELSE "error"

Goto(t, label) == pc' = [pc EXCEPT ![t] = label]

CallIsalive(t, from) == /\ Goto(t, "isalive")
                        /\ ret' = [ret EXCEPT ![t] = from]

Answer(t, alive) == /\ Goto(t, Resume(t, alive))
                    /\ ret' = [ret EXCEPT ![t] = "none"]

\* Once EOF was seen isalive() uses the blocking form of waitpid.
IsaliveTest(t) ==
  /\ pc[t] = "isalive"
  /\ IF terminated THEN Answer(t, FALSE)
     ELSE Goto(t, IF flag_eof THEN "waithang" ELSE "waitpid") /\ UNCHANGED ret
  /\ UNCHANGED <<kernel, fields, queue, loop, caller, history, chunk>>

\* Bug: the blocking call returns when the child has closed its terminal.
WaitpidEarly(t) ==
  /\ pc[t] \in {"waitpid", "waithang"}
  /\ \/ /\ child = "zombie" \/ (child = "exiting" /\ pc[t] = "waithang")
        /\ child' = IF child = "zombie" THEN "gone" ELSE child
        /\ Goto(t, "reaped") /\ UNCHANGED ret
     \/ /\ child = "gone"
        /\ Goto(t, Raise(t)) /\ UNCHANGED <<child, ret>>
     \/ /\ child \in {"running", "exiting"}
        /\ pc[t] = "waitpid"
        /\ Answer(t, TRUE) /\ UNCHANGED child
  /\ UNCHANGED <<cause, written, tty, fd_open, fields, queue, loop, caller, history, chunk>>

\* waitpid: reaps a zombie, fails with ECHILD when there is no child any more,
\* returns 0 (both calls do) or blocks while the child lives.
Waitpid(t) ==
  /\ pc[t] \in {"waitpid", "waithang"}
  /\ \/ /\ child = "zombie"
        /\ child' = "gone"
        /\ Goto(t, "reaped") /\ UNCHANGED ret
     \/ /\ child = "gone"
        /\ Goto(t, Raise(t)) /\ UNCHANGED <<child, ret>>
     \/ /\ child \in {"running", "exiting"}
        /\ pc[t] = "waitpid"
        /\ Answer(t, TRUE) /\ UNCHANGED child
  /\ UNCHANGED <<cause, written, tty, fd_open, fields, queue, loop, caller, history, chunk>>

\* Bug: wait() does not note that the child has ended.
ReapedNotNoted(t) ==
  /\ pc[t] = "reaped"
  /\ status' = cause
  /\ terminated' = (ret[t] # "waited" \/ terminated)
  /\ Answer(t, FALSE)
  /\ UNCHANGED <<kernel, flag_eof, closed, queue, loop, caller, history, chunk>>

\* The fields are assigned some time after waitpid returned.
Reaped(t) ==
  /\ pc[t] = "reaped"
  /\ status' = cause
  /\ terminated' = TRUE
  /\ Answer(t, FALSE)
  /\ UNCHANGED <<kernel, flag_eof, closed, queue, loop, caller, history, chunk>>

ReadNonblocking(t) ==
  /\ pc[t] = "read_nonblocking"
  /\ IF closed
     THEN Goto(t, Raise(t)) /\ UNCHANGED ret
     ELSE CallIsalive(t, "read")
  /\ UNCHANGED <<kernel, fields, queue, loop, caller, history, chunk>>

Readable == tty # <<>> \/ child # "running"

Select(t) ==
  /\ pc[t] = "select"
  /\ \/ /\ fd_open /\ Readable
        /\ Goto(t, "os.read") /\ UNCHANGED ret
     \/ /\ fd_open /\ ~Readable
        /\ t = "drain" \/ call.timeout = "finite"
        /\ CallIsalive(t, "late")
     \/ /\ ~fd_open
        /\ Goto(t, Raise(t)) /\ UNCHANGED ret
  /\ UNCHANGED <<kernel, fields, queue, loop, caller, history, chunk>>

\* The caller closed the descriptor while the drain thread was at its select:
\* one that had begun reports it or times out, one that had not fails (EBADF).
StaleSelect ==
  /\ pc["drain"] = "stale select"
  /\ \/ Goto("drain", "os.read") /\ UNCHANGED ret
     \/ CallIsalive("drain", "late")
     \/ Goto("drain", Raise("drain")) /\ UNCHANGED ret
  /\ UNCHANGED <<kernel, fields, queue, loop, caller, history, chunk>>

\* os.read: what there is up to maxread, or an error (EIO, EBADF), which is
\* taken for the end of the file.
OsRead(t) ==
  /\ pc[t] = "os.read"
  /\ LET n == Min({Len(tty), MaxRead})
     IN  IF fd_open /\ tty # <<>>
         THEN /\ chunk' = [chunk EXCEPT ![t] = SubSeq(tty, 1, n)]
              /\ tty' = SubSeq(tty, n + 1, Len(tty))
              /\ Goto(t, "got")
         ELSE Goto(t, "eof") /\ UNCHANGED <<chunk, tty>>
  /\ UNCHANGED <<child, cause, written, fd_open, fields, queue, loop, caller, history, ret>>
-----------------------------------------------------------------------------
(* Drainpty_Thread.                                                        *)

DrainStart ==                        \* the first statement of run()
  /\ pc["drain"] = "starting"
  /\ Goto("drain", "loop")
  /\ UNCHANGED <<kernel, fields, queue, loop, caller, history, ret, chunk>>

DrainLoop ==
  /\ pc["drain"] \in {"loop", "timeout"}
  /\ Goto("drain", IF keepReading THEN "read_nonblocking" ELSE "leave")
  /\ UNCHANGED <<kernel, fields, queue, loop, caller, history, ret, chunk>>

DrainPut ==
  /\ pc["drain"] = "got"
  /\ readQueue' = Append(readQueue, chunk["drain"])
  /\ chunk' = [chunk EXCEPT !["drain"] = <<>>]
  /\ Goto("drain", "loop")
  /\ UNCHANGED <<kernel, fields, drainpty, keepReading, loop, caller, history, ret>>

DrainEof ==
  /\ pc["drain"] = "eof"
  /\ flag_eof' = TRUE
  /\ keepReading' = FALSE
  /\ readQueue' = Append(readQueue, None)
  /\ Goto("drain", "loop")
  /\ UNCHANGED <<kernel, terminated, closed, status, drainpty, loop, caller, history, ret, chunk>>

DrainLeave ==
  /\ pc["drain"] = "leave"
  /\ drainpty' = FALSE
  /\ Goto("drain", "done")
  /\ UNCHANGED <<kernel, fields, keepReading, readQueue, loop, caller, history, ret, chunk>>

DrainThread ==
  \/ DrainStart \/ DrainLoop \/ DrainPut \/ DrainEof \/ DrainLeave \/ StaleSelect
  \/ IsaliveTest("drain") \/ Waitpid("drain") \/ Reaped("drain")
  \/ ReadNonblocking("drain") \/ Select("drain") \/ OsRead("drain")
-----------------------------------------------------------------------------
(* The caller: it spawns the program, then calls one method after another. *)

NoSearcher == [exact |-> FALSE, pats |-> <<>>, window |-> -1]
NoCall == [op |-> "none", searcher |-> NoSearcher, timeout |-> "finite", force |-> FALSE]

Call(c) == /\ pc["main"] = "idle"
           /\ c.op \in Ops
           /\ calls < MaxCalls
           /\ calls' = calls + 1
           /\ call' = c
           /\ result' = [outcome |-> "none", index |-> 0]
           /\ UNCHANGED nsig

\* The method returns or raises with outcome o; i is the index of a pattern or 0.
Return(o, i) == /\ Goto("main", "idle")
                /\ result' = [outcome |-> o, index |-> i]
                /\ call' = NoCall
                /\ nsig' = 0
                /\ UNCHANGED calls

\* _spawn splits the command line, looks for the command and forks.
Spawn ==
  /\ pc["main"] = "new"
  /\ \E line \in Commands :
       LET args == split_command_line(line)
       IN  IF args # <<>> /\ args[1] \in Installed
           THEN child' = "running" /\ Goto("main", "idle")
           ELSE Goto("main", "no command") /\ UNCHANGED child
  /\ UNCHANGED <<cause, written, tty, fd_open, fields, queue, loop, caller, history, ret, chunk>>

\* expect, expect_exact, readline and read differ in the searcher.  The first
\* expect starts the drain thread; one that comes before the thread's run()
\* has noted that it runs starts it again, which is an error.
ExpectCall ==
  /\ \E searcher \in Searchers, timeout \in Timeouts :
       Call([NoCall EXCEPT !.op = "expect", !.searcher = searcher, !.timeout = timeout])
  /\ pc' = IF drainpty /\ pc["drain"] = "starting"
           THEN [pc EXCEPT !["main"] = "error"]
           ELSE [pc EXCEPT !["main"] = "search",
                           !["drain"] = IF drainpty /\ @ = "none" THEN "starting" ELSE @]
  /\ incoming' = buffer
  /\ freshlen' = Len(buffer)
  /\ late' = FALSE
  /\ UNCHANGED <<kernel, fields, queue, buffer, consumed, history, ret, chunk>>

\* One turn of the loop: search, give up when the time is over, or read on from
\* the queue or from the terminal, whichever drainpty says now.
ExpectSearch ==
  /\ pc["main"] = "search"
  /\ LET m == search(call.searcher, incoming, freshlen)
     IN  IF m.index > 0
         THEN /\ buffer' = SubSeq(incoming, m.end + 1, Len(incoming))
              /\ consumed' = consumed \o SubSeq(incoming, 1, m.end)
              /\ incoming' = <<>> /\ freshlen' = 0 /\ late' = FALSE
              /\ Return("match", m.index)
         ELSE /\ Goto("main", IF late THEN "timeout"
                              ELSE IF drainpty THEN "get" ELSE "read_nonblocking")
              /\ UNCHANGED <<loop, caller>>
  /\ UNCHANGED <<kernel, fields, queue, history, ret, chunk>>

\* The data c arrived; after it the time may be over.
Feed(c) ==
  /\ incoming' = incoming \o c
  /\ freshlen' = IF c = None THEN freshlen ELSE Len(c)
  /\ late' \in IF call.timeout = "finite" THEN BOOLEAN ELSE {FALSE}
  /\ Goto("main", "search")
  /\ UNCHANGED <<buffer, consumed>>

\* Bug: get is called without the timeout.
ExpectGetForever ==
  /\ pc["main"] = "get"
  /\ readQueue # <<>>
  /\ Feed(Head(readQueue))
  /\ readQueue' = Tail(readQueue)
  /\ UNCHANGED <<kernel, fields, drainpty, keepReading, caller, history, ret, chunk>>

\* readQueue.get: an end marker is skipped; an empty queue uses up the time.
ExpectGet ==
  /\ pc["main"] = "get"
  /\ \/ /\ readQueue # <<>>
        /\ Feed(Head(readQueue))
        /\ readQueue' = Tail(readQueue)
     \/ /\ readQueue = <<>> /\ call.timeout = "finite"
        /\ late' = TRUE
        /\ Goto("main", "search")
        /\ UNCHANGED <<buffer, consumed, incoming, freshlen, readQueue>>
  /\ UNCHANGED <<kernel, fields, drainpty, keepReading, caller, history, ret, chunk>>

ExpectGot ==
  /\ pc["main"] = "got"
  /\ Feed(chunk["main"])
  /\ chunk' = [chunk EXCEPT !["main"] = <<>>]
  /\ UNCHANGED <<kernel, fields, queue, caller, history, ret>>

\* Bug: what was read stays in the buffer.
ExpectEofKeeps ==
  /\ pc["main"] = "eof"
  /\ flag_eof' = TRUE
  /\ buffer' = incoming
  /\ consumed' = consumed \o incoming
  /\ incoming' = <<>> /\ freshlen' = 0 /\ late' = FALSE
  /\ Return("EOF", eof_index(call.searcher))
  /\ UNCHANGED <<kernel, terminated, closed, status, queue, history, ret, chunk>>

\* except EOF: what was read goes to the caller, matched or raised.
ExpectEof ==
  /\ pc["main"] = "eof"
  /\ flag_eof' = TRUE
  /\ buffer' = <<>>
  /\ consumed' = consumed \o incoming
  /\ incoming' = <<>> /\ freshlen' = 0 /\ late' = FALSE
  /\ Return("EOF", eof_index(call.searcher))
  /\ UNCHANGED <<kernel, terminated, closed, status, queue, history, ret, chunk>>

\* Bug: what was read since the call began is forgotten.
ExpectTimeoutForgets ==
  /\ pc["main"] = "timeout"
  /\ UNCHANGED buffer
  /\ incoming' = <<>> /\ freshlen' = 0 /\ late' = FALSE
  /\ Return("TIMEOUT", timeout_index(call.searcher))
  /\ UNCHANGED <<kernel, fields, queue, consumed, history, ret, chunk>>

\* except TIMEOUT: what was read stays in the buffer.
ExpectTimeout ==
  /\ pc["main"] = "timeout"
  /\ buffer' = incoming
  /\ incoming' = <<>> /\ freshlen' = 0 /\ late' = FALSE
  /\ Return("TIMEOUT", timeout_index(call.searcher))
  /\ UNCHANGED <<kernel, fields, queue, consumed, history, ret, chunk>>

\* Any other exception, of any method.
Error ==
  /\ pc["main"] = "error"
  /\ incoming' = <<>> /\ freshlen' = 0 /\ late' = FALSE
  /\ Return("error", 0)
  /\ UNCHANGED <<kernel, fields, queue, buffer, consumed, history, ret, chunk>>
-----------------------------------------------------------------------------
(* The caller: close, terminate, kill, wait, isalive and sendintr.         *)

\* close: the thread is told to stop, the descriptor is closed (an error when
\* an earlier close() got this far and then failed), the child must end.
CloseCall ==
  /\ \E force \in BOOLEAN : Call([NoCall EXCEPT !.op = "close", !.force = force])
  /\ keepReading' = IF ~closed /\ drainpty THEN FALSE ELSE keepReading
  /\ fd_open' = (closed /\ fd_open)
  /\ pc' = IF closed THEN [pc EXCEPT !["main"] = "return"]
           ELSE IF ~fd_open THEN [pc EXCEPT !["main"] = "error"]
           ELSE [pc EXCEPT !["main"] = "isalive",
                           !["drain"] = IF @ = "select" THEN "stale select" ELSE @]
  /\ ret' = IF ~closed /\ fd_open THEN [ret EXCEPT !["main"] = "close"] ELSE ret
  /\ UNCHANGED <<child, cause, written, tty, fields, drainpty, readQueue, loop, history, chunk>>

TerminateCall ==
  /\ \E force \in BOOLEAN : Call([NoCall EXCEPT !.op = "terminate", !.force = force])
  /\ CallIsalive("main", "terminate")
  /\ UNCHANGED <<kernel, fields, queue, loop, history, chunk>>

\* close() found the child alive, or kill() has done its work: look again.
Terminate ==
  /\ pc["main"] = "terminate"
  /\ CallIsalive("main", "terminate")
  /\ UNCHANGED <<kernel, fields, queue, loop, caller, history, chunk>>

\* Bug: one signal too many.
EscalateOnceMore ==
  /\ pc["main"] = "escalate"
  /\ IF nsig <= IF call.force THEN 4 ELSE 3
     THEN /\ nsig' = nsig + 1
          /\ CallIsalive("main", "kill")
     ELSE /\ Goto("main", "unkilled")
          /\ UNCHANGED <<nsig, ret>>
  /\ UNCHANGED <<kernel, fields, queue, loop, call, result, calls, history, chunk>>

\* Still alive: kill() with the next signal, if there is one left.
Escalate ==
  /\ pc["main"] = "escalate"
  /\ IF nsig < IF call.force THEN 4 ELSE 3
     THEN /\ nsig' = nsig + 1
          /\ CallIsalive("main", "kill")
     ELSE /\ Goto("main", "unkilled")
          /\ UNCHANGED <<nsig, ret>>
  /\ UNCHANGED <<kernel, fields, queue, loop, call, result, calls, history, chunk>>

\* os.kill.  A pid that was reaped since kill() looked is nobody's (OSError) or
\* by now somebody else's.
Signal ==
  /\ pc["main"] = "signal"
  /\ Deliver(SIGNALS[nsig])
  /\ stray' = (stray \/ child = "gone")
  /\ CallIsalive("main", IF child = "gone" THEN "last" ELSE "terminate")
  /\ UNCHANGED <<written, tty, fd_open, fields, queue, loop, caller, drained, chunk>>

\* The child has ended: close() is complete.
Killed ==
  /\ pc["main"] = "killed"
  /\ closed' = (closed \/ call.op = "close")
  /\ Return("True", 0)
  /\ UNCHANGED <<kernel, flag_eof, terminated, status, queue, loop, history, ret, chunk>>

\* Bug: close() does not look at the answer of terminate().
UnkilledClosed ==
  /\ pc["main"] = "unkilled"
  /\ closed' = (closed \/ call.op = "close")
  /\ Return(IF call.op = "close" THEN "error" ELSE "False", 0)
  /\ UNCHANGED <<kernel, flag_eof, terminated, status, queue, loop, history, ret, chunk>>

Unkilled ==
  /\ pc["main"] = "unkilled"
  /\ Return(IF call.op = "close" THEN "error" ELSE "False", 0)
  /\ UNCHANGED <<kernel, fields, queue, loop, history, ret, chunk>>

WaitCall ==
  /\ Call([NoCall EXCEPT !.op = "wait"])
  /\ CallIsalive("main", "wait")
  /\ UNCHANGED <<kernel, fields, queue, loop, history, chunk>>

Wait ==
  /\ pc["main"] = "wait"
  /\ Goto("main", "waithang")
  /\ ret' = [ret EXCEPT !["main"] = "waited"]
  /\ UNCHANGED <<kernel, fields, queue, loop, caller, history, chunk>>

IsaliveCall ==
  /\ Call([NoCall EXCEPT !.op = "isalive"])
  /\ CallIsalive("main", "isalive")
  /\ UNCHANGED <<kernel, fields, queue, loop, history, chunk>>

\* send: the interrupt character is written to the terminal.
Sendintr ==
  /\ Call([NoCall EXCEPT !.op = "sendintr"])
  /\ IF fd_open
     THEN Deliver("SIGINT") /\ Goto("main", "return")
     ELSE UNCHANGED <<child, cause>> /\ Goto("main", "error")
  /\ UNCHANGED <<written, tty, fd_open, fields, queue, loop, history, ret, chunk>>

MethodReturns ==
  /\ pc["main"] = "return"
  /\ Return("True", 0)
  /\ UNCHANGED <<kernel, fields, queue, loop, history, ret, chunk>>

MainThread ==
  \/ ExpectSearch \/ ExpectGet \/ ExpectGot \/ ExpectEof \/ ExpectTimeout \/ Error
  \/ Terminate \/ Escalate \/ Signal \/ Killed \/ Unkilled \/ Wait \/ MethodReturns
  \/ IsaliveTest("main") \/ Waitpid("main") \/ Reaped("main")
  \/ ReadNonblocking("main") \/ Select("main") \/ OsRead("main")

Test == \/ Spawn \/ ExpectCall \/ CloseCall \/ TerminateCall \/ WaitCall
        \/ IsaliveCall \/ Sendintr
-----------------------------------------------------------------------------
Init ==
  /\ child = "unborn" /\ cause = "none" /\ written = 0 /\ tty = <<>> /\ fd_open = TRUE
  /\ drained \in Drains
  /\ drainpty = drained
  /\ flag_eof = FALSE /\ terminated = FALSE /\ closed = FALSE /\ status = "none" /\ buffer = <<>>
  /\ keepReading = TRUE /\ readQueue = <<>>
  /\ pc = [t \in Threads |-> IF t = "main" THEN "new" ELSE "none"]
  /\ ret = [t \in Threads |-> "none"]
  /\ chunk = [t \in Threads |-> <<>>]
  /\ call = NoCall /\ nsig = 0 /\ calls = 0
  /\ result = [outcome |-> "none", index |-> 0]
  /\ incoming = <<>> /\ freshlen = 0 /\ late = FALSE
  /\ consumed = <<>> /\ stray = FALSE

Next == ChildPrint \/ ChildExit \/ ChildZombie \/ DrainThread \/ MainThread \/ Test

\* Both threads are scheduled, select and get time out when the time is over,
\* and a process that exits becomes a zombie.  Nothing makes the program print
\* or exit, or the caller call.
Spec == /\ Init /\ [][Next]_vars
        /\ WF_vars(MainThread) /\ WF_vars(DrainThread) /\ WF_vars(ChildZombie)
=============================================================================
