------------------------- MODULE PlumbingProperties -------------------------
(* What the programs that cush runs may rely on, see Plumbing.             *)
EXTENDS Plumbing

Descs == [kind : {"none", "tty", "in", "out", "pipe"}, id : 0 .. Len(content),
          mode : {"none", "r", "w", "rw"}]

\* Every variable has a value of its type.
TypeOK ==
  /\ fd \in [Procs \cup {Shell} -> [Fds -> Descs]]
  /\ cloexec \in [Procs \cup {Shell} -> SUBSET Fds]
  /\ streams \in [stdin : Fds \cup {-1}, stdout : Fds \cup {-1}]
  /\ pc \in {"prompt", "redirect", "fork", "reset", "wait"}
  /\ curr_cmd \in 0 .. Commands /\ started \in 0 .. MaxProcs
  /\ \A p \in Procs : proc[p].state \in {"none", "forked", "running", "done"}
  /\ \A i \in DOMAIN content : Len(content[i]) <= Capacity

\* No pipe end, console or file of the shell leaks into a program
\* (assert_correct_fds in tests/testutils.py).
NothingLeaks ==
  \A p \in Procs : proc[p].state = "running" =>
    \A n \in Fds \ {0, 1, 2} : fd[p][n] = Closed

\* What the first of two neighbours writes to is what the second one reads from,
\* and nobody else who runs holds an end of that pipe.
NeighboursShare ==
  \A p, q \in Procs :
    (proc[p].state = "running" /\ proc[q].state = "running" /\ fd[q][0].kind = "pipe") =>
      /\ fd[p][1] = End(fd[q][0].id, "w") => p + 1 = q
      /\ (p + 1 = q) => fd[p][1] = End(fd[q][0].id, "w")
      /\ fd[p][0] = fd[q][0] => p = q

\* A program runs with no other descriptors than 0, 1 and 2, and a pipe on one
\* of them joins it to its neighbour and to nobody else.
StreamsRight == NothingLeaks /\ NeighboursShare

\* At the prompt the shell holds no pipe end and no file but, after `>&', that of
\* its stderr; stdin and stdout are the console, and on descriptors 0 and 1
\* unless some pipeline could open neither of its files.
ConsoleBack ==
  pc = "prompt" =>
    /\ \A n \in Fds \ {0, 1, 2, 3} : fd[Shell][n] = Closed
    /\ streams.stdin # streams.stdout
    /\ fd[Shell][streams.stdin].kind = "tty" /\ fd[Shell][streams.stdout].kind = "tty"
    /\ ~crossed => streams = [stdin |-> 0, stdout |-> 1]

\* A pipeline of programs that copy leaves in its output file what was there (or
\* nothing, without `>>') followed by the whole input; nothing else ever gets
\* into the file, and what does comes in order.
OutputArrives ==
  LET kept == IF pipe_line.output = "out" /\ ~pipe_line.append THEN <<>> ELSE before
  IN  /\ pc # "redirect" => \E n \in 0 .. Len(Items) : out = kept \o SubSeq(Items, 1, n)
      /\ (/\ pc = "prompt" /\ curr_cmd # 0 /\ ~crossed
          /\ pipe_line.output = "out" /\ pipe_line.input # "missing"
          /\ Range(pipe_line.progs) = {"copy"}) => out = kept \o Items

\* A pipeline in the foreground ends: each program sees the end of its input when
\* those before it are gone, and is stopped when those after it are.
PipelineEnds == pc = "wait" ~> pc = "prompt"
=============================================================================
