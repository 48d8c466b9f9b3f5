------------------------------ MODULE Plumbing ------------------------------
(***************************************************************************)
(* The descriptors of cush: how handle_pipeline and handle_child_process   *)
(* (src/src/cush.c) redirect the streams of the shell itself, connect the  *)
(* processes of a pipeline and get the console back.  Process groups,      *)
(* signals and the job table are the subject of JobControl; here a process *)
(* ends and the shell that waits for it goes on.                           *)
(*                                                                         *)
(* The programs are not part of the shell: "copy" copies its input to its  *)
(* output until the end of the file, "head" stops after one item, "none"   *)
(* does not exist and execvp fails.                                        *)
(***************************************************************************)
EXTENDS Integers, FiniteSets, SequencesExt

CONSTANTS
  Pipelines,    \* what the user types, see Pipeline
  Items,        \* the input of a pipeline, from the file or typed
  MaxFd,        \* largest descriptor
  MaxProcs,     \* bound on the processes
  Capacity      \* items a pipe holds

Program  == {"copy", "head", "none"}
Pipeline == [progs  : Seq(Program),
             input  : {"tty", "in", "missing"},      \* iored_input
             output : {"tty", "out", "locked"},      \* iored_output
             append : BOOLEAN,
             dup    : BOOLEAN,                       \* of the first command
             bg     : BOOLEAN]

NoPipeline == [progs |-> <<>>, input |-> "tty", output |-> "tty", append |-> FALSE,
               dup |-> FALSE, bg |-> FALSE]

Shell == 0
Procs == 1 .. MaxProcs
Fds   == 0 .. MaxFd

ASSUME BoundAssumption == MaxFd \in Nat \ 0 .. 2 /\ MaxProcs \in Nat /\ Capacity \in Nat \ {0}
ASSUME ItemAssumption == Items \in Seq(Range(Items))
ASSUME PipelineAssumption == \A p \in Pipelines : p \in Pipeline /\ Len(p.progs) >= 1

\* What a descriptor refers to: an open file, or a pipe (by number) and an end.
Desc(kind, id, mode) == [kind |-> kind, id |-> id, mode |-> mode]
Closed   == Desc("none", 0, "none")
Tty(m)   == Desc("tty", 0, m)
File(f, m) == IF f \in {"in", "out"} THEN Desc(f, 0, m)   \* of a file that can be opened
              ELSE Closed
End(i, m) == Desc("pipe", i, m)

Readable(d) == d.mode \in {"r", "rw"}
Writable(d) == d.mode \in {"w", "rw"}

VARIABLES
  fd,           \* fd[p][n]: what descriptor n of a process refers to
  cloexec,      \* cloexec[p]: those that execvp closes
  streams,      \* stdin and stdout of the shell: a descriptor, -1 when closed
  pc,           \* where the shell is
  pipe_line,    \* the pipeline it runs
  fds,          \* the array of pipe ends
  curr_cmd,     \* commands forked
  started,      \* processes forked by all pipelines
  proc,         \* the processes, see NewProc
  content,      \* what is in each pipe
  out,          \* what is in the output file
  before,       \* history: what was in it before the last pipeline
  crossed       \* history: a pipeline could open neither of its files

shell == <<streams, pc, pipe_line, fds, curr_cmd, started>>
history == <<before, crossed>>
vars  == <<fd, cloexec, shell, proc, content, out, history>>

NewProc == [state |-> "none", cmd |-> 0, last |-> FALSE, prog |-> "none", fds |-> <<>>,
            hand |-> <<>>, pos |-> 0]

Commands == Len(pipe_line.progs)
Free(t)  == {n \in Fds : t[n] = Closed}
LowestFree(t) == Min(Free(t))
-----------------------------------------------------------------------------
(* freopen, dup2 and the pipe ends, as operators on a descriptor table.    *)

\* freopen of the stream on descriptor n keeps it when the file can be opened and
\* closes it when it cannot; a stream without a descriptor gets the lowest one.
freopen(t, n, d) ==
  LET m == IF n = -1 THEN LowestFree(t) ELSE n
  IN  IF d # Closed THEN [table |-> [t EXCEPT ![m] = d], on |-> m]
      ELSE [table |-> IF n = -1 THEN t ELSE [t EXCEPT ![n] = Closed], on |-> -1]

dup2(t, from, to) == IF t[from] = Closed THEN t ELSE [t EXCEPT ![to] = t[from]]

\* n numbers of free descriptors, the lowest ones in order.
LowestFds(n) ==
  {a \in [1 .. n -> Free(fd[Shell])] :
     /\ \A i, j \in 1 .. n : i < j => a[i] < a[j]
     /\ \A d \in Free(fd[Shell]) \ Range(a), i \in 1 .. n : a[i] < d}

\* Bug: as many pipes as commands.
PipeFdsPerCommand(pipes) == LowestFds(2 * (pipes + 1))

\* The array of pipe2's results: it takes the lowest free descriptors, for the read
\* end before the write end.
PipeFds(pipes) == LowestFds(2 * pipes)

OpenEnds(i, m) == \E p \in Procs \cup {Shell}, n \in Fds : fd[p][n] = End(i, m)
-----------------------------------------------------------------------------
(* handle_pipeline.                                                        *)

\* Bug: the pipes are made without O_CLOEXEC.
PipeInherited ==
  /\ pc = "prompt"
  /\ pc' = "redirect"
  /\ curr_cmd' = 0
  /\ \E p \in Pipelines : \E array \in PipeFds(Len(p.progs) - 1) :
       LET pipes == Len(p.progs) - 1
           Index(n) == CHOOSE i \in DOMAIN array : array[i] = n
           PipeEnd(i) == End(Len(content) + (i + 1) \div 2, IF i % 2 = 1 THEN "r" ELSE "w")
       IN  /\ started + Len(p.progs) <= MaxProcs
           /\ pipe_line' = p
           /\ fds' = array
           /\ fd' = [fd EXCEPT ![Shell] = [n \in Fds |->
                       IF n \in Range(array) THEN PipeEnd(Index(n)) ELSE @[n]]]
           /\ content' = content \o [i \in 1 .. pipes |-> <<>>]
  /\ UNCHANGED <<cloexec, streams, started, proc, out, history>>

\* The pipes are made, all before the first fork.
Pipe ==
  /\ pc = "prompt"
  /\ pc' = "redirect"
  /\ curr_cmd' = 0
  /\ \E p \in Pipelines : \E array \in PipeFds(Len(p.progs) - 1) :
       LET pipes == Len(p.progs) - 1
           Index(n) == CHOOSE i \in DOMAIN array : array[i] = n
           PipeEnd(i) == End(Len(content) + (i + 1) \div 2, IF i % 2 = 1 THEN "r" ELSE "w")
       IN  /\ started + Len(p.progs) <= MaxProcs
           /\ pipe_line' = p
           /\ fds' = array
           /\ fd' = [fd EXCEPT ![Shell] = [n \in Fds |->
                       IF n \in Range(array) THEN PipeEnd(Index(n)) ELSE @[n]]]
           /\ cloexec' = [cloexec EXCEPT ![Shell] = @ \cup Range(array)]
           /\ content' = content \o [i \in 1 .. pipes |-> <<>>]
  /\ UNCHANGED <<streams, started, proc, out, history>>

\* Bug: the file is truncated for >> as well.
RedirectTruncates ==
  LET i == IF pipe_line.input = "tty" THEN [table |-> fd[Shell], on |-> streams.stdin]
           ELSE freopen(fd[Shell], streams.stdin, File(pipe_line.input, "r"))
      o == IF pipe_line.output = "tty" THEN [table |-> i.table, on |-> streams.stdout]
           ELSE freopen(i.table, streams.stdout, File(pipe_line.output, "w"))
      e == IF pipe_line.output # "tty" /\ pipe_line.dup THEN dup2(o.table, 1, 2) ELSE o.table
      opened == IF pipe_line.output = "out" THEN <<>> ELSE out
  IN  /\ pc = "redirect"
      /\ fd' = [fd EXCEPT ![Shell] = e]
      /\ streams' = [stdin |-> i.on, stdout |-> o.on]
      /\ out' = opened
      /\ before' = out
      /\ crossed' = (crossed \/ (i.on = -1 /\ o.on = -1))
      /\ pc' = "fork"
      /\ UNCHANGED <<cloexec, pipe_line, fds, curr_cmd, started, proc, content>>

\* The shell redirects its own streams: the processes inherit them.  Whether the
\* files could be opened is not looked at.
Redirect ==
  LET i == IF pipe_line.input = "tty" THEN [table |-> fd[Shell], on |-> streams.stdin]
           ELSE freopen(fd[Shell], streams.stdin, File(pipe_line.input, "r"))
      o == IF pipe_line.output = "tty" THEN [table |-> i.table, on |-> streams.stdout]
           ELSE freopen(i.table, streams.stdout, File(pipe_line.output, "w"))
      e == IF pipe_line.output # "tty" /\ pipe_line.dup THEN dup2(o.table, 1, 2) ELSE o.table
      opened == IF pipe_line.output = "out" /\ ~pipe_line.append THEN <<>> ELSE out
  IN  /\ pc = "redirect"
      /\ fd' = [fd EXCEPT ![Shell] = e]
      /\ streams' = [stdin |-> i.on, stdout |-> o.on]
      /\ out' = opened
      /\ before' = out
      /\ crossed' = (crossed \/ (i.on = -1 /\ o.on = -1))
      /\ pc' = "fork"
      /\ UNCHANGED <<cloexec, pipe_line, fds, curr_cmd, started, proc, content>>

\* The next command of the pipeline: the child has a copy of everything.
Fork ==
  /\ pc = "fork"
  /\ curr_cmd < Commands
  /\ LET p == started + 1
         k == curr_cmd + 1
     IN  /\ fd' = [fd EXCEPT ![p] = fd[Shell]]
         /\ cloexec' = [cloexec EXCEPT ![p] = cloexec[Shell]]
         /\ proc' = [proc EXCEPT ![p] =
                       [state |-> "forked", cmd |-> k, last |-> k = Commands,
                        prog |-> pipe_line.progs[k], fds |-> fds, hand |-> <<>>, pos |-> 0]]
         /\ started' = p
         /\ curr_cmd' = k
  /\ UNCHANGED <<streams, pc, pipe_line, fds, content, out, history>>

\* Bug: the loop ends one pipe end early.
CloseButLast ==
  /\ pc = "fork"
  /\ curr_cmd = Commands /\ fds # <<>>
  /\ fd' = [fd EXCEPT ![Shell] = [n \in Fds |-> IF n \in Range(Front(fds)) THEN Closed ELSE @[n]]]
  /\ cloexec' = [cloexec EXCEPT ![Shell] = @ \ Range(Front(fds))]
  /\ pc' = "reset"
  /\ UNCHANGED <<streams, pipe_line, fds, curr_cmd, started, proc, content, out, history>>

\* After the last fork the shell closes every pipe end.
Close ==
  /\ pc = "fork"
  /\ curr_cmd = Commands
  /\ fd' = [fd EXCEPT ![Shell] = [n \in Fds |-> IF n \in Range(fds) THEN Closed ELSE @[n]]]
  /\ cloexec' = [cloexec EXCEPT ![Shell] = @ \ Range(fds)]
  /\ pc' = "reset"
  /\ UNCHANGED <<streams, pipe_line, fds, curr_cmd, started, proc, content, out, history>>

\* stdout, then stdin, are opened on the console; dup2 of a descriptor onto itself
\* does nothing.  A background job is not waited for.
Reset ==
  LET o == freopen(fd[Shell], streams.stdout, Tty("w"))
      i == freopen(o.table, streams.stdin, Tty("r"))
  IN  /\ pc = "reset"
      /\ fd' = [fd EXCEPT ![Shell] = i.table]
      /\ streams' = [stdin |-> i.on, stdout |-> o.on]
      /\ pc' = IF pipe_line.bg THEN "prompt" ELSE "wait"
      /\ UNCHANGED <<cloexec, pipe_line, fds, curr_cmd, started, proc, content, out, history>>

\* wait_for_job: until all its processes have ended.
Wait ==
  /\ pc = "wait"
  /\ \A p \in (started - Commands + 1) .. started : proc[p].state = "done"
  /\ pc' = "prompt"
  /\ UNCHANGED <<fd, cloexec, streams, pipe_line, fds, curr_cmd, started, proc, content, out,
                 history>>
-----------------------------------------------------------------------------
(* handle_child_process, and the programs.                                 *)

Exit(p) == /\ proc' = [proc EXCEPT ![p] = [NewProc EXCEPT !.state = "done"]]
           /\ fd' = [fd EXCEPT ![p] = [n \in Fds |-> Closed]]
           /\ cloexec' = [cloexec EXCEPT ![p] = {}]

\* Bug: pipe_counter stays 0 for the write end.
ExecFirstPipe(p) ==
  LET c == proc[p]
      i == IF c.cmd # 1 THEN dup2(fd[p], c.fds[2 * c.cmd - 3], 0) ELSE fd[p]
      o == IF ~c.last THEN dup2(i, c.fds[2], 1) ELSE i
  IN  /\ c.state = "forked"
      /\ IF c.prog = "none"
         THEN Exit(p)
         ELSE /\ proc' = [proc EXCEPT ![p].state = "running", ![p].fds = <<>>]
              /\ fd' = [fd EXCEPT ![p] = [n \in Fds |-> IF n \in cloexec[p] THEN Closed ELSE o[n]]]
              /\ cloexec' = [cloexec EXCEPT ![p] = {}]
      /\ UNCHANGED <<shell, content, out, history>>

\* not_last_arg says which processes write to a pipe.  dup2 makes descriptors that
\* outlive execvp.
Exec(p) ==
  LET c == proc[p]
      i == IF c.cmd # 1 THEN dup2(fd[p], c.fds[2 * c.cmd - 3], 0) ELSE fd[p]
      o == IF ~c.last THEN dup2(i, c.fds[2 * c.cmd], 1) ELSE i
  IN  /\ c.state = "forked"
      /\ IF c.prog = "none"
         THEN Exit(p)
         ELSE /\ proc' = [proc EXCEPT ![p].state = "running", ![p].fds = <<>>]
              /\ fd' = [fd EXCEPT ![p] = [n \in Fds |-> IF n \in cloexec[p] THEN Closed ELSE o[n]]]
              /\ cloexec' = [cloexec EXCEPT ![p] = {}]
      /\ UNCHANGED <<shell, content, out, history>>

\* read(0): an item, the end of the file or an error; a pipe that is empty and
\* has a writer makes it wait.
Read(p) ==
  LET d == fd[p][0]
  IN  /\ proc[p].state = "running" /\ proc[p].hand = <<>>
      /\ \/ /\ d.kind = "pipe" /\ content[d.id] # <<>>
            /\ proc' = [proc EXCEPT ![p].hand = <<Head(content[d.id])>>]
            /\ content' = [content EXCEPT ![d.id] = Tail(@)]
            /\ UNCHANGED <<fd, cloexec>>
         \/ /\ d.kind \in {"tty", "in"} /\ Readable(d) /\ proc[p].pos < Len(Items)
            /\ proc' = [proc EXCEPT ![p].hand = <<Items[proc[p].pos + 1]>>, ![p].pos = @ + 1]
            /\ UNCHANGED <<fd, cloexec, content>>
         \/ /\ \/ d.kind = "pipe" /\ content[d.id] = <<>> /\ ~OpenEnds(d.id, "w")
               \/ d.kind \in {"tty", "in"} /\ Readable(d) /\ proc[p].pos = Len(Items)
               \/ ~Readable(d)
            /\ Exit(p) /\ UNCHANGED content
      /\ UNCHANGED <<shell, out, history>>

\* write(1): a full pipe makes it wait; a pipe without a reader (SIGPIPE) and an
\* error end the program.
Write(p) ==
  LET d == fd[p][1]
      written == IF proc[p].prog = "head" THEN Exit(p)
                 ELSE proc' = [proc EXCEPT ![p].hand = <<>>] /\ UNCHANGED <<fd, cloexec>>
  IN  /\ proc[p].state = "running" /\ proc[p].hand # <<>>
      /\ \/ /\ d.kind = "pipe" /\ OpenEnds(d.id, "r") /\ Len(content[d.id]) < Capacity
            /\ content' = [content EXCEPT ![d.id] = @ \o proc[p].hand]
            /\ written /\ UNCHANGED out
         \/ /\ d.kind = "out"
            /\ out' = out \o proc[p].hand
            /\ written /\ UNCHANGED content
         \/ /\ d.kind = "tty" /\ Writable(d)
            /\ written /\ UNCHANGED <<content, out>>
         \/ /\ (d.kind = "pipe" /\ ~OpenEnds(d.id, "r")) \/ ~Writable(d)
            /\ Exit(p) /\ UNCHANGED <<content, out>>
      /\ UNCHANGED <<shell, history>>
-----------------------------------------------------------------------------
\* Descriptor 3 is the terminal of termstate_init; it does not outlive execvp.
Init ==
  /\ fd = [p \in Procs \cup {Shell} |-> [n \in Fds |->
             IF p = Shell /\ n \in 0 .. 3 THEN Tty("rw") ELSE Closed]]
  /\ cloexec = [p \in Procs \cup {Shell} |-> IF p = Shell THEN {3} ELSE {}]
  /\ streams = [stdin |-> 0, stdout |-> 1]
  /\ pc = "prompt"
  /\ pipe_line = NoPipeline /\ fds = <<>> /\ curr_cmd = 0 /\ started = 0
  /\ proc = [p \in Procs |-> NewProc]
  /\ content = <<>>
  /\ out = <<>> /\ before = <<>> /\ crossed = FALSE

Main == Redirect \/ Fork \/ Close \/ Reset \/ Wait
Process(p) == Exec(p) \/ Read(p) \/ Write(p)

Next == Pipe \/ Main \/ \E p \in Procs : Process(p)

\* The shell and every process are scheduled; nothing makes the user type.
Spec == Init /\ [][Next]_vars /\ WF_vars(Main) /\ \A p \in Procs : WF_vars(Process(p))
=============================================================================
