-------------------------- MODULE ExpectProperties --------------------------
(* What the caller of spawn may rely on, see Expect.                       *)
EXTENDS Expect

Direct == ~drained                 \* spawned with drainpty = False

Labels == {"new", "no command", "idle", "none", "starting", "loop", "leave", "done",
           "dead", "search", "get", "got", "eof", "timeout", "error", "return",
           "isalive", "waitpid", "waithang", "reaped", "read_nonblocking", "select",
           "stale select", "os.read", "terminate", "escalate", "signal", "killed",
           "unkilled", "wait"}

\* Every variable has a value of its type.
TypeOK ==
  /\ child \in {"unborn", "running", "exiting", "zombie", "gone"}
  /\ cause \in {"none", "exit"} \cup Range(SIGNALS)
  /\ written \in 0 .. Len(Script)
  /\ fd_open \in BOOLEAN
  /\ {flag_eof, terminated, closed, drainpty, keepReading, late, drained, stray} \subseteq BOOLEAN
  /\ status \in {"none", "exit"} \cup Range(SIGNALS)
  /\ pc \in [Threads -> Labels]
  /\ nsig \in 0 .. 4 /\ calls \in 0 .. MaxCalls

InExpect == call.op = "expect"

\* The main thread has the text it works on in `incoming' (and in what it has
\* just read) during expect_loop, and in `buffer' between the calls.
Held == IF InExpect /\ pc["main"] # "error" THEN incoming \o chunk["main"] ELSE buffer

\* What the program printed is, in order and without a gap or a repetition: what
\* the caller was given, what is held for its next call, what waits in the
\* queue or in the drain thread's hand, and what is unread in the terminal.
\* It ends with the hand-over: once the thread has left, the caller reads the
\* terminal itself and does not look at the queue any more.
StreamKept ==
  (Direct \/ drainpty) =>
    consumed \o Held \o FlattenSeq(readQueue) \o chunk["drain"] \o tty
      = SubSeq(Script, 1, written)

\* expect_loop does not wait for more output while a text it is looking for is
\* in what it has (or in the window it was told to search).
NoMissedMatch ==
  (InExpect /\ pc["main"] \in {"get", "read_nonblocking", "select", "os.read"}) =>
    LET w == call.searcher.window
        from == IF w = -1 THEN 0 ELSE Max({0, Len(incoming) - w})
    IN  \A i \in DOMAIN call.searcher.pats :
          call.searcher.pats[i].type = "text" =>
            Places(incoming, call.searcher.pats[i].s, from) \subseteq {Len(incoming)}

\* When isalive() says that the child has ended, it has ended and was reaped,
\* and the status noted is how it ended.
StatusTrue == terminated => child = "gone" /\ status = cause

\* A closed spawn object leaves neither a descriptor nor a process behind.
ClosedIsClean == closed => ~fd_open /\ terminated

\* The end of the output is reported only when the program has exited, or after
\* the caller itself closed the terminal.
EofMeansExited == (flag_eof /\ fd_open) => child \in {"exiting", "zombie", "gone"}

\* Without the drain thread nobody else reaps the child: isalive() never finds
\* that there is no child process, and no signal goes to a pid that was reaped.
ReaperIsAlone ==
  Direct => /\ ~stray
            /\ child = "gone" =>
                 terminated \/ pc["main"] = "reaped"

\* A method called on an open spawn object comes back: expect with a timeout, by
\* both ways of reading; without the drain thread also close, terminate and
\* isalive.  (wait() waits for the child, whatever it does.)
CallsReturn ==
  (/\ pc["main"] \notin {"new", "no command", "idle"}
   /\ call.op # "wait" /\ call.timeout = "finite"
   /\ Direct \/ (InExpect /\ fd_open)) ~> pc["main"] = "idle"

Stream == INSTANCE OutputStream WITH
            printed <- written,
            taken   <- IF Direct THEN consumed \o Held
                       ELSE SubSeq(Script, 1, written - Len(tty)),
            running <- child \in {"unborn", "running"},
            ended   <- Direct /\ flag_eof

\* Reading the terminal directly, the caller is given the output in order, each
\* character once, also across timeouts, partial matches and several calls; with
\* the drain thread this is what the thread reads.  See OutputStream.
ReadsStream == Stream!Spec

\* When the caller is told of the end of the output it has been given all that
\* the program printed: "You can also just expect the EOF if you are waiting for
\* all output of a child to finish."  The code does not keep this, see the README.
AllOutputRead ==
  (result.outcome = "EOF" /\ fd_open) => consumed = SubSeq(Script, 1, written)
=============================================================================
