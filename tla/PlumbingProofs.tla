--------------------------- MODULE PlumbingProofs ---------------------------
(* Theorems about Plumbing: types, the shell gets its console back, the    *)
(* programs of a pipeline are joined as the user typed them, and the whole *)
(* input arrives in the output file.                                       *)
EXTENDS PlumbingProperties, TLAPS, SequenceTheorems

\* The streams of the shell, in its descriptor table t, are on 0 and 1 where they are
\* open, each on one of its own, and nothing else is there.
Streams(t, i, o) ==
  /\ i \in {-1, 0, 1} /\ o \in {-1, 0, 1}
  /\ i = o => i = -1
  /\ \A n \in {0, 1} : t[n] = Closed <=> n \notin {i, o}

LEMMA FdsThere == {0, 1, 2, 3} \subseteq Fds /\ Fds \subseteq Nat
BY BoundAssumption DEF Fds

LEMMA LowestOfTwo ==
  ASSUME NEW t, t[0] = Closed \/ t[1] = Closed
  PROVE  LowestFree(t) = IF t[0] = Closed THEN 0 ELSE 1
<1> DEFINE low == IF t[0] = Closed THEN 0 ELSE 1
<1>1. low \in Free(t) /\ \A n \in Free(t) : low <= n
  BY FdsThere DEF Free
<1>2. Free(t) \subseteq Nat
  BY FdsThere DEF Free
<1>3. \A m \in Free(t) : (\A n \in Free(t) : m <= n) => m = low
  BY <1>1, <1>2
<1>4. \E m \in Free(t) : \A n \in Free(t) : m <= n
  BY <1>1
<1> HIDE DEF low
<1>5. LowestFree(t) = low
  BY <1>3, <1>4 DEF LowestFree, Min
<1> QED BY <1>5 DEF low

\* freopen of the stream on descriptor n leaves the other one, on descriptor k, alone
\* and all descriptors but 0 and 1.
LEMMA Reopened ==
  ASSUME NEW S, NEW t \in [Fds -> S], Closed \in S, NEW d \in S, NEW k, NEW n, Streams(t, k, n),
         NEW r, r = freopen(t, n, d)
  PROVE  /\ r.table \in [Fds -> S] /\ Streams(r.table, k, r.on)
         /\ \A x \in Fds \ {0, 1} : r.table[x] = t[x]
         /\ k # -1 => r.table[k] = t[k]
         /\ d = Closed => r.on = -1
         /\ d # Closed => r.on \in {0, 1} /\ r.table[r.on] = d
         /\ (d # Closed /\ n # -1) => r.on = n
<1>1. CASE d = Closed /\ n = -1
  <2>1. r = [table |-> t, on |-> -1]
    BY <1>1 DEF freopen
  <2> QED BY <1>1, <2>1
<1>2. CASE d = Closed /\ n # -1
  <2>1. r = [table |-> [t EXCEPT ![n] = Closed], on |-> -1]
    BY <1>2 DEF freopen
  <2>2. n \in {0, 1} /\ n # k
    BY <1>2 DEF Streams
  <2> QED BY <1>2, <2>1, <2>2, FdsThere DEF Streams
<1>3. CASE d # Closed /\ n # -1
  <2>1. r = [table |-> [t EXCEPT ![n] = d], on |-> n]
    BY <1>3 DEF freopen
  <2>2. n \in {0, 1} /\ n # k
    BY <1>3 DEF Streams
  <2> QED BY <1>3, <2>1, <2>2, FdsThere DEF Streams
<1>4. CASE d # Closed /\ n = -1
  <2> DEFINE m == LowestFree(t)
  <2>1. r = [table |-> [t EXCEPT ![m] = d], on |-> m]
    BY <1>4 DEF freopen
  <2>2. m \in {0, 1} /\ m # k /\ (t[0] = Closed => m = 0)
    BY <1>4, LowestOfTwo DEF Streams
  <2>3. k = -1 => t[1] = Closed
    BY <1>4 DEF Streams
  <2> HIDE DEF m
  <2> QED BY <1>4, <2>1, <2>2, <2>3, FdsThere DEF Streams
<1> QED BY <1>1, <1>2, <1>3, <1>4

-----------------------------------------------------------------------------
(* The invariants.                                                         *)

Item == Range(Items)

Hands == {<<>>} \cup {<<x>> : x \in Item}

ProcRecord == [state : {"none", "forked", "running", "done"}, cmd : Nat, last : BOOLEAN,
               prog : Program, fds : Seq(Fds), hand : Hands, pos : Nat]

Types ==
  /\ TypeOK
  /\ fds \in Seq(Fds)
  /\ pipe_line \in Pipelines \cup {NoPipeline}
  /\ proc \in [Procs -> ProcRecord]
  /\ content \in Seq(Seq(Item))
  /\ \A p \in Procs \cup {Shell}, n \in Fds :
       fd[p][n].kind = "pipe" => fd[p][n].id \in 1 .. Len(content)

\* The loop of handle_pipeline, and what a child finds in the array.
Places ==
  /\ pc = "redirect" => curr_cmd = 0
  /\ pc \in {"redirect", "fork"} =>
       /\ pipe_line \in Pipelines
       /\ started + (Commands - curr_cmd) <= MaxProcs
       /\ Len(fds) = 2 * (Commands - 1)
  /\ \A p \in Procs : proc[p].state = "forked" =>
       /\ proc[p].cmd >= 1
       /\ proc[p].cmd # 1 => 2 * proc[p].cmd - 2 <= Len(proc[p].fds)
       /\ ~proc[p].last => 2 * proc[p].cmd <= Len(proc[p].fds)

\* The descriptors of the shell at each place: the streams, the terminal and, until
\* Close, the pipe ends.
Console ==
  /\ Streams(fd[Shell], streams.stdin, streams.stdout)
  /\ fd[Shell][2] # Closed /\ fd[Shell][3] # Closed
  /\ pc \notin {"fork", "reset"} =>
       /\ streams.stdin # -1 /\ fd[Shell][streams.stdin].kind = "tty"
       /\ streams.stdout # -1 /\ fd[Shell][streams.stdout].kind = "tty"
  /\ ~crossed => /\ streams.stdin \in {0, -1} /\ streams.stdout \in {1, -1}
                 /\ streams.stdin # streams.stdout
  /\ pc \in {"redirect", "fork"} =>
       /\ Range(fds) \cap 0 .. 3 = {}
       /\ \A n \in Fds \ 0 .. 3 : fd[Shell][n] # Closed => n \in Range(fds)
  /\ pc \in {"prompt", "reset", "wait"} => \A n \in Fds \ 0 .. 3 : fd[Shell][n] = Closed

\* What is not a standard stream is closed by execvp.
ClosedByExec(p) == \A n \in Fds \ {0, 1, 2} : fd[p][n] # Closed => n \in cloexec[p]

Marked ==
  /\ ClosedByExec(Shell)
  /\ \A p \in Procs : proc[p].state = "forked" => ClosedByExec(p)
  /\ NothingLeaks

Inv == Types /\ Places /\ Console /\ Marked

LEMMA DescValues ==
  ASSUME NEW d \in Descs
  PROVE  /\ d.kind \in {"none", "tty", "in", "out", "pipe"}
         /\ d.id \in 0 .. Len(content) /\ d.mode \in {"none", "r", "w", "rw"}
BY DEF Descs

LEMMA DescKinds ==
  ASSUME content \in Seq(Seq(Item))
  PROVE  /\ Closed \in Descs /\ Closed.kind = "none"
         /\ \A m \in {"r", "w", "rw"} : Tty(m) \in Descs /\ Tty(m).kind = "tty"
         /\ \A f \in {"in", "out", "missing", "locked"}, m \in {"r", "w"} :
              File(f, m) \in Descs /\ File(f, m).kind # "pipe"
BY DEF Descs, Closed, Tty, File, Desc

LEMMA InvInit == Init => Inv
<1> SUFFICES ASSUME Init PROVE Inv
  OBVIOUS
<1>1. content \in Seq(Seq(Item)) /\ Len(content) = 0
  BY DEF Init
<1>2. \A p \in Procs \cup {Shell}, n \in Fds :
         fd[p][n] = IF p = Shell /\ n \in 0 .. 3 THEN Tty("rw") ELSE Closed
  BY DEF Init
<1>3. fd \in [Procs \cup {Shell} -> [Fds -> Descs]]
  BY <1>1, DescKinds DEF Init
<1>4. Tty("rw") # Closed /\ Shell \notin Procs
  BY DEF Tty, Closed, Desc, Shell, Procs
<1>5. NewProc \in ProcRecord
  BY DEF NewProc, ProcRecord, Program, Hands
<1>6. Types
  <2>1. cloexec \in [Procs \cup {Shell} -> SUBSET Fds]
    BY FdsThere DEF Init
  <2>2. streams \in [stdin : Fds \cup {-1}, stdout : Fds \cup {-1}]
    BY FdsThere DEF Init
  <2>3. pc = "prompt" /\ curr_cmd \in 0 .. Commands /\ started \in 0 .. MaxProcs
    BY BoundAssumption DEF Init, Commands, NoPipeline
  <2>4. proc \in [Procs -> ProcRecord] /\ \A p \in Procs : proc[p].state \in {"none"}
    BY <1>5 DEF Init, NewProc
  <2>5. TypeOK
    BY <1>1, <1>3, <2>1, <2>2, <2>3, <2>4 DEF TypeOK, Init
  <2>6. fds \in Seq(Fds) /\ pipe_line = NoPipeline
    BY DEF Init
  <2> QED BY <1>1, <1>2, <1>4, <2>4, <2>5, <2>6, DescKinds DEF Types
<1>7. Places
  BY DEF Places, Init, NewProc
<1>8. Console
  <2>1. fd[Shell] = [n \in Fds |-> IF n \in 0 .. 3 THEN Tty("rw") ELSE Closed]
    BY DEF Init
  <2>2. \A n \in {0, 1, 2, 3} : fd[Shell][n] = Tty("rw")
    BY <2>1, FdsThere
  <2>3. streams.stdin = 0 /\ streams.stdout = 1 /\ pc = "prompt"
    BY DEF Init
  <2> QED BY <1>1, <1>4, <2>1, <2>2, <2>3, DescKinds DEF Console, Streams
<1>9. Marked
  <2>1. cloexec[Shell] = {3} /\ \A p \in Procs : proc[p].state = "none"
    BY DEF Init, NewProc
  <2> QED BY <1>2, <1>4, <2>1 DEF Marked, ClosedByExec, NothingLeaks
<1> QED BY <1>6, <1>7, <1>8, <1>9 DEF Inv

-----------------------------------------------------------------------------
(* pipe2.                                                                  *)

\* At the prompt all of 0, 1, 2 and 3 are taken.
LEMMA NoneFree ==
  ASSUME Console, pc \notin {"fork", "reset"}
  PROVE  Free(fd[Shell]) \cap 0 .. 3 = {}
<1>1. fd[Shell][0] # Closed /\ fd[Shell][1] # Closed
  BY DEF Console, Streams
<1> QED BY <1>1 DEF Console, Free

\* The array of pipe ends, as the processes and the shell find it.
LEMMA PipeEnds ==
  ASSUME Inv, Pipe
  PROVE  \E p \in Pipelines, array \in Seq(Fds) :
           /\ p.progs \in Seq(Program) /\ Len(p.progs) \in Nat \ {0}
           /\ started + Len(p.progs) <= MaxProcs
           /\ pipe_line' = p /\ fds' = array /\ Len(array) = 2 * (Len(p.progs) - 1)
           /\ Range(array) \subseteq Free(fd[Shell])
           /\ content' \in Seq(Seq(Item)) /\ Len(content') = Len(content) + Len(p.progs) - 1
           /\ \A i \in 1 .. Len(content') : Len(content'[i]) <= Capacity
           /\ \A i \in 1 .. Len(content) : content'[i] = content[i]
           /\ \A i \in 1 .. Len(p.progs) - 1 : content'[Len(content) + i] = <<>>
           /\ fd' = [fd EXCEPT ![Shell] = [n \in Fds |-> fd'[Shell][n]]]
           /\ \A n \in Fds \ Range(array) : fd'[Shell][n] = fd[Shell][n]
           /\ \A n \in Range(array) : \E id \in 1 .. Len(content'), m \in {"r", "w"} :
                fd'[Shell][n] = End(id, m)
           /\ \A k \in 1 .. Len(array) : fd'[Shell][array[k]] =
                End(Len(content) + (k + 1) \div 2, IF k % 2 = 1 THEN "r" ELSE "w")
           /\ cloexec' = [cloexec EXCEPT ![Shell] = @ \cup Range(array)]
<1>1. PICK p \in Pipelines : \E array \in PipeFds(Len(p.progs) - 1) :
        LET pipes == Len(p.progs) - 1
            Index(n) == CHOOSE i \in DOMAIN array : array[i] = n
            PipeEnd(i) == End(Len(content) + (i + 1) \div 2, IF i % 2 = 1 THEN "r" ELSE "w")
        IN  /\ started + Len(p.progs) <= MaxProcs
            /\ pipe_line' = p
            /\ fds' = array
            /\ fd' = [fd EXCEPT ![Shell] = [n \in Fds |->
                        IF n \in Range(array) THEN PipeEnd(Index(n)) ELSE @[n]]]
            /\ cloexec' = [cloexec EXCEPT ![Shell] = @ \cup Range(array)]
            /\ content' = content \o [i \in 1 .. pipes |-> <<>>]
  BY DEF Pipe
<1> DEFINE pipes == Len(p.progs) - 1
           PipeEnd(i) == End(Len(content) + (i + 1) \div 2, IF i % 2 = 1 THEN "r" ELSE "w")
<1>2. p.progs \in Seq(Program) /\ Len(p.progs) \in Nat \ {0} /\ pipes \in Nat
  BY PipelineAssumption DEF Pipeline
<1>3. PICK array \in PipeFds(pipes) :
        /\ started + Len(p.progs) <= MaxProcs /\ pipe_line' = p /\ fds' = array
        /\ fd' = [fd EXCEPT ![Shell] = [n \in Fds |->
                    IF n \in Range(array) THEN PipeEnd(CHOOSE i \in DOMAIN array : array[i] = n)
                                          ELSE @[n]]]
        /\ cloexec' = [cloexec EXCEPT ![Shell] = @ \cup Range(array)]
        /\ content' = content \o [i \in 1 .. pipes |-> <<>>]
  BY <1>1
<1>4. /\ array \in [1 .. 2 * pipes -> Free(fd[Shell])]
      /\ \A i, j \in 1 .. 2 * pipes : i < j => array[i] < array[j]
  BY DEF PipeFds, LowestFds
<1>5. array \in Seq(Fds) /\ Len(array) = 2 * pipes /\ Range(array) \subseteq Free(fd[Shell])
  BY <1>2, <1>4 DEF Free, Range
<1>6. content \in Seq(Seq(Item)) /\ Len(content) \in Nat
      /\ \A i \in DOMAIN content : Len(content[i]) <= Capacity
  BY DEF Inv, Types, TypeOK
<1> DEFINE new == [i \in 1 .. pipes |-> <<>>]
<1>7. new \in Seq(Seq(Item)) /\ Len(new) = pipes /\ \A i \in 1 .. pipes : new[i] = <<>>
  BY <1>2
<1>8. /\ content' \in Seq(Seq(Item)) /\ Len(content') = Len(content) + pipes
      /\ \A i \in 1 .. Len(content') : Len(content'[i]) <= Capacity
      /\ \A i \in 1 .. Len(content) : content'[i] = content[i]
      /\ \A i \in 1 .. pipes : content'[Len(content) + i] = <<>>
  <2> HIDE DEF new, pipes
  <2>1. content' = content \o new
    BY <1>3 DEF new, pipes
  <2>2. content' \in Seq(Seq(Item)) /\ Len(content') = Len(content) + pipes
    BY <1>2, <1>6, <1>7, <2>1, ConcatProperties
  <2>3. ASSUME NEW i \in 1 .. Len(content')
        PROVE  Len(content'[i]) <= Capacity
    <3>1. CASE i <= Len(content)
      BY <1>2, <1>6, <1>7, <2>1, <3>1
    <3>2. CASE i > Len(content)
      <4>1. i - Len(content) \in 1 .. pipes /\ content'[i] = new[i - Len(content)]
        BY <1>2, <1>6, <1>7, <2>1, <2>2, <3>2
      <4> QED BY <1>7, <4>1, BoundAssumption
    <3> QED BY <1>6, <3>1, <3>2
  <2>4. /\ \A i \in 1 .. Len(content) : content'[i] = content[i]
        /\ \A i \in 1 .. pipes : content'[Len(content) + i] = <<>>
    BY <1>2, <1>6, <1>7, <2>1, SMTT(20)
  <2> QED BY <2>2, <2>3, <2>4
<1>9. fd \in [Procs \cup {Shell} -> [Fds -> Descs]] /\ Shell \notin Procs
  BY DEF Inv, Types, TypeOK, Shell, Procs
<1> DEFINE table == [n \in Fds |-> IF n \in Range(array)
                        THEN PipeEnd(CHOOSE i \in DOMAIN array : array[i] = n)
                        ELSE fd[Shell][n]]
<1>10. fd' = [fd EXCEPT ![Shell] = table] /\ fd'[Shell] = table
  <2> HIDE DEF PipeEnd
  <2> QED BY <1>3, <1>9
<1>11. ASSUME NEW n \in Range(array)
       PROVE  \E id \in 1 .. Len(content'), m \in {"r", "w"} : fd'[Shell][n] = End(id, m)
  <2> DEFINE k == CHOOSE i \in DOMAIN array : array[i] = n
  <2>1. \E i \in DOMAIN array : array[i] = n
    BY DEF Range
  <2>2. k \in DOMAIN array
    BY <2>1
  <2>3. k \in 1 .. 2 * pipes
    BY <1>4, <2>2
  <2>4. n \in Fds
    BY <1>5 DEF Free
  <2>5. fd'[Shell][n] = PipeEnd(k)
    <3> HIDE DEF PipeEnd
    <3> QED BY <1>10, <2>4
  <2> HIDE DEF k, pipes
  <2>6. Len(content) + (k + 1) \div 2 \in 1 .. Len(content')
    BY <1>2, <1>6, <1>8, <2>3
  <2> QED BY <2>5, <2>6
<1>12. ASSUME NEW k \in 1 .. Len(array)
       PROVE  fd'[Shell][array[k]] = PipeEnd(k)
  <2>1. k \in DOMAIN array /\ DOMAIN array = 1 .. 2 * pipes /\ array[k] \in Fds
    BY <1>4, <1>5 DEF Free
  <2>2. \A i \in DOMAIN array : array[i] = array[k] => i = k
    <3> SUFFICES ASSUME NEW i \in DOMAIN array, i # k PROVE array[i] # array[k]
      OBVIOUS
    <3>1. i < k \/ k < i
      BY <2>1, <1>2
    <3>2. array[i] < array[k] \/ array[k] < array[i]
      BY <1>4, <2>1, <3>1
    <3>3. array[i] \in Nat /\ array[k] \in Nat
      BY <1>4, <2>1, FdsThere DEF Free
    <3> QED BY <3>2, <3>3
  <2>3. (CHOOSE i \in DOMAIN array : array[i] = array[k]) = k
    BY <2>1, <2>2
  <2>4. array[k] \in Range(array)
    BY <2>1 DEF Range
  <2> HIDE DEF PipeEnd
  <2> QED BY <1>10, <2>1, <2>3, <2>4
<1>13. /\ fd' = [fd EXCEPT ![Shell] = [n \in Fds |-> fd'[Shell][n]]]
       /\ \A n \in Fds \ Range(array) : fd'[Shell][n] = fd[Shell][n]
  <2> HIDE DEF PipeEnd
  <2> QED BY <1>10
<1> HIDE DEF table
<1>14. \A k \in 1 .. Len(array) : fd'[Shell][array[k]] =
         End(Len(content) + (k + 1) \div 2, IF k % 2 = 1 THEN "r" ELSE "w")
  BY <1>12
<1> HIDE DEF PipeEnd
<1> QED BY <1>2, <1>3, <1>5, <1>8, <1>11, <1>13, <1>14

LEMMA InvPipe ==
  ASSUME Inv, Pipe
  PROVE  Inv'
<1>1. PICK p \in Pipelines, array \in Seq(Fds) :
        /\ p.progs \in Seq(Program) /\ Len(p.progs) \in Nat \ {0}
        /\ started + Len(p.progs) <= MaxProcs
        /\ pipe_line' = p /\ fds' = array /\ Len(array) = 2 * (Len(p.progs) - 1)
        /\ Range(array) \subseteq Free(fd[Shell])
        /\ content' \in Seq(Seq(Item)) /\ Len(content') = Len(content) + Len(p.progs) - 1
        /\ \A i \in 1 .. Len(content') : Len(content'[i]) <= Capacity
        /\ fd' = [fd EXCEPT ![Shell] = [n \in Fds |-> fd'[Shell][n]]]
        /\ \A n \in Fds \ Range(array) : fd'[Shell][n] = fd[Shell][n]
        /\ \A n \in Range(array) : \E id \in 1 .. Len(content'), m \in {"r", "w"} :
             fd'[Shell][n] = End(id, m)
        /\ cloexec' = [cloexec EXCEPT ![Shell] = @ \cup Range(array)]
  BY PipeEnds
<1>2. /\ pc = "prompt" /\ pc' = "redirect" /\ curr_cmd' = 0
      /\ UNCHANGED <<streams, started, proc, out, before, crossed>>
  BY DEF Pipe, history
<1>3. Shell \notin Procs /\ Len(content) \in Nat /\ Len(content') \in Nat
      /\ Len(content) <= Len(content')
  BY <1>1 DEF Inv, Types, Shell, Procs
<1>4. Range(array) \subseteq Fds /\ Range(array) \cap 0 .. 3 = {}
  BY <1>1, <1>2, NoneFree DEF Inv, Free
<1>5. \A id \in 1 .. Len(content'), m \in {"r", "w"} :
        /\ End(id, m) \in Descs' /\ End(id, m) # Closed
        /\ End(id, m).kind = "pipe" /\ End(id, m).id = id
  BY <1>3 DEF End, Desc, Descs, Closed
<1>6. Descs \subseteq Descs'
  BY <1>3 DEF Descs
<1>7. fd \in [Procs \cup {Shell} -> [Fds -> Descs]]
      /\ \A q \in Procs \cup {Shell}, n \in Fds :
           fd[q][n].kind = "pipe" => fd[q][n].id \in 1 .. Len(content)
  BY DEF Inv, Types, TypeOK
<1>8. \A n \in Fds : fd'[Shell][n] \in Descs'
                     /\ (fd'[Shell][n].kind = "pipe" => fd'[Shell][n].id \in 1 .. Len(content'))
  <2> SUFFICES ASSUME NEW n \in Fds
               PROVE  /\ fd'[Shell][n] \in Descs'
                      /\ fd'[Shell][n].kind = "pipe" => fd'[Shell][n].id \in 1 .. Len(content')
    OBVIOUS
  <2>1. CASE n \in Range(array)
    <3>1. PICK id \in 1 .. Len(content'), m \in {"r", "w"} : fd'[Shell][n] = End(id, m)
      BY <1>1, <2>1
    <3> QED BY <1>5, <3>1
  <2>2. CASE n \notin Range(array)
    BY <1>1, <1>3, <1>6, <1>7, <2>2
  <2> QED BY <2>1, <2>2
<1> DEFINE table == [n \in Fds |-> fd'[Shell][n]]
<1>9. table \in [Fds -> Descs'] /\ fd' = [fd EXCEPT ![Shell] = table]
  BY <1>1, <1>8
<1>10. /\ fd' \in [Procs \cup {Shell} -> [Fds -> Descs']]
       /\ \A q \in Procs : fd'[q] = fd[q]
  <2> HIDE DEF table
  <2> QED BY <1>3, <1>6, <1>7, <1>9
<1>11. cloexec \in [Procs \cup {Shell} -> SUBSET Fds]
       /\ cloexec' \in [Procs \cup {Shell} -> SUBSET Fds]
       /\ cloexec'[Shell] = cloexec[Shell] \cup Range(array)
       /\ \A q \in Procs : cloexec'[q] = cloexec[q]
  BY <1>1, <1>3, <1>4 DEF Inv, Types, TypeOK
<1>12. Types'
  <2>1. TypeOK'
    <3>1. curr_cmd' \in 0 .. Commands'
      BY <1>1, <1>2 DEF Commands
    <3> QED BY <1>1, <1>2, <1>10, <1>11, <3>1, SMTT(20) DEF Inv, Types, TypeOK
  <2>2. \A q \in Procs \cup {Shell}, n \in Fds :
          fd'[q][n].kind = "pipe" => fd'[q][n].id \in 1 .. Len(content')
    BY <1>3, <1>7, <1>8, <1>10
  <2> QED BY <1>1, <1>2, <2>1, <2>2 DEF Inv, Types
<1>13. Places'
  BY <1>1, <1>2 DEF Inv, Places, Commands
<1>14. Console'
  <2>1. \A n \in {0, 1, 2, 3} : fd'[Shell][n] = fd[Shell][n]
    BY <1>1, <1>4, FdsThere
  <2>2. \A n \in Fds \ 0 .. 3 : fd'[Shell][n] # Closed => n \in Range(array)
    BY <1>1, <1>2 DEF Inv, Console
  <2> QED BY <1>1, <1>2, <1>4, <2>1, <2>2 DEF Inv, Console, Streams
<1>15. Marked'
  <2>1. ClosedByExec(Shell)'
    BY <1>1, <1>11 DEF Inv, Marked, ClosedByExec
  <2> QED BY <1>2, <1>10, <1>11, <2>1 DEF Inv, Marked, ClosedByExec, NothingLeaks
<1> QED BY <1>12, <1>13, <1>14, <1>15 DEF Inv

-----------------------------------------------------------------------------
(* The other steps of the shell.                                           *)

\* A step that writes the shell's table and nothing that has to do with processes.
LEMMA ShellTypes ==
  ASSUME Types, NEW t \in [Fds -> Descs], fd' = [fd EXCEPT ![Shell] = t],
         \A n \in Fds : t[n].kind = "pipe" => t[n].id \in 1 .. Len(content),
         UNCHANGED <<pipe_line, fds, curr_cmd, started, proc, content>>,
         cloexec' \in [Procs \cup {Shell} -> SUBSET Fds],
         streams' \in [stdin : Fds \cup {-1}, stdout : Fds \cup {-1}],
         pc' \in {"prompt", "redirect", "fork", "reset", "wait"}
  PROVE  Types' /\ fd'[Shell] = t /\ \A q \in Procs : fd'[q] = fd[q]
<1>1. fd \in [Procs \cup {Shell} -> [Fds -> Descs]] /\ Shell \notin Procs
  BY DEF Types, TypeOK, Shell, Procs
<1>2. Descs' = Descs
  BY DEF Descs
<1>3. fd' \in [Procs \cup {Shell} -> [Fds -> Descs]]
      /\ fd'[Shell] = t /\ \A q \in Procs : fd'[q] = fd[q]
  BY <1>1
<1>4. TypeOK'
  BY <1>2, <1>3 DEF Types, TypeOK, Commands
<1>5. \A p \in Procs \cup {Shell}, n \in Fds :
        fd'[p][n].kind = "pipe" => fd'[p][n].id \in 1 .. Len(content')
  BY <1>1, <1>3 DEF Types
<1> QED BY <1>3, <1>4, <1>5 DEF Types

LEMMA StreamValues ==
  ASSUME NEW t, NEW i, NEW o, Streams(t, i, o)
  PROVE  Streams(t, o, i)
         /\ [stdin |-> i, stdout |-> o] \in [stdin : Fds \cup {-1}, stdout : Fds \cup {-1}]
BY FdsThere DEF Streams

\* The table after Redirect: descriptors 0 and 1 have changed, and 2 after >&.
LEMMA Redirected ==
  ASSUME Inv, Redirect
  PROVE  \E t \in [Fds -> Descs] :
           /\ fd' = [fd EXCEPT ![Shell] = t]
           /\ \A n \in Fds \ {0, 1, 2} : t[n] = fd[Shell][n]
           /\ t[2] # Closed
           /\ t[0].kind # "pipe" /\ t[1].kind # "pipe"
           /\ \A n \in Fds : t[n].kind = "pipe" => t[n].id \in 1 .. Len(content)
           /\ Streams(t, streams'.stdin, streams'.stdout)
           /\ streams' = [stdin |-> streams'.stdin, stdout |-> streams'.stdout]
           /\ streams'.stdin \in {streams.stdin, -1} /\ streams'.stdout \in {streams.stdout, -1}
           /\ crossed' = (crossed \/ (streams'.stdin = -1 /\ streams'.stdout = -1))
<1> DEFINE own == fd[Shell]
           df == File(pipe_line.input, "r")
           dt == File(pipe_line.output, "w")
           i == IF pipe_line.input = "tty" THEN [table |-> own, on |-> streams.stdin]
                ELSE freopen(own, streams.stdin, df)
           o == IF pipe_line.output = "tty" THEN [table |-> i.table, on |-> streams.stdout]
                ELSE freopen(i.table, streams.stdout, dt)
           e == IF pipe_line.output # "tty" /\ pipe_line.dup THEN dup2(o.table, 1, 2)
                ELSE o.table
<1>1. /\ fd' = [fd EXCEPT ![Shell] = e] /\ streams' = [stdin |-> i.on, stdout |-> o.on]
      /\ crossed' = (crossed \/ (i.on = -1 /\ o.on = -1)) /\ pc = "redirect"
  BY DEF Redirect
<1>2. /\ own \in [Fds -> Descs] /\ Streams(own, streams.stdin, streams.stdout)
      /\ own[2] # Closed
      /\ \A n \in Fds : own[n].kind = "pipe" => own[n].id \in 1 .. Len(content)
      /\ streams.stdin # -1 /\ streams.stdout # -1
      /\ own[0].kind # "pipe" /\ own[1].kind # "pipe"
  <2>1. own[streams.stdin].kind = "tty" /\ own[streams.stdout].kind = "tty"
        /\ {streams.stdin, streams.stdout} = {0, 1}
    BY <1>1 DEF Inv, Console, Streams
  <2>2. own[0].kind = "tty" /\ own[1].kind = "tty"
    BY <2>1
  <2> QED BY <1>1, <2>2 DEF Inv, Types, TypeOK, Console
<1>3. /\ Closed \in Descs /\ Closed.kind = "none"
      /\ pipe_line.input # "tty" => df \in Descs /\ df.kind # "pipe"
      /\ pipe_line.output # "tty" => dt \in Descs /\ dt.kind # "pipe"
  <2>1. pipe_line \in Pipeline
    BY <1>1, PipelineAssumption DEF Inv, Places
  <2>2. /\ pipe_line.input \in {"tty", "in", "missing"}
        /\ pipe_line.output \in {"tty", "out", "locked"}
    BY <2>1 DEF Pipeline
  <2> QED BY <2>2, DescKinds DEF Inv, Types
<1> HIDE DEF df, dt
<1>4. /\ i.table \in [Fds -> Descs] /\ Streams(i.table, streams.stdout, i.on)
      /\ \A n \in Fds \ {0, 1} : i.table[n] = own[n]
      /\ \A n \in Fds : i.table[n].kind = "pipe" => i.table[n].id \in 1 .. Len(content)
      /\ i.on \in {streams.stdin, -1}
      /\ i.table[0].kind # "pipe" /\ i.table[1].kind # "pipe"
  <2>1. CASE pipe_line.input = "tty"
    BY <1>2, <2>1, StreamValues
  <2>2. CASE pipe_line.input # "tty"
    <3>1. i = freopen(own, streams.stdin, df)
      BY <2>2
    <3>2. Streams(own, streams.stdout, streams.stdin)
      BY <1>2, StreamValues
    <3> HIDE DEF i, own
    <3>3. /\ i.table \in [Fds -> Descs] /\ Streams(i.table, streams.stdout, i.on)
          /\ \A n \in Fds \ {0, 1} : i.table[n] = own[n]
          /\ i.on \in {streams.stdin, -1}
          /\ i.table[streams.stdout] = own[streams.stdout]
          /\ df = Closed => i.on = -1
          /\ df # Closed => i.on \in {0, 1} /\ i.table[i.on] = df
      BY <1>2, <1>3, <2>2, <3>1, <3>2, Reopened
    <3>4. \A n \in {0, 1} : n = streams.stdout \/ i.table[n] = Closed \/ i.table[n] = df
      BY <1>2, <3>3 DEF Streams
    <3> QED BY <1>2, <1>3, <2>2, <3>3, <3>4, FdsThere
  <2> QED BY <2>1, <2>2
<1>5. /\ o.table \in [Fds -> Descs] /\ Streams(o.table, i.on, o.on)
      /\ \A n \in Fds \ {0, 1} : o.table[n] = own[n]
      /\ \A n \in Fds : o.table[n].kind = "pipe" => o.table[n].id \in 1 .. Len(content)
      /\ o.on \in {streams.stdout, -1}
      /\ o.table[0].kind # "pipe" /\ o.table[1].kind # "pipe"
  <2> HIDE DEF i, own
  <2>1. CASE pipe_line.output = "tty"
    BY <1>2, <1>4, <2>1, StreamValues
  <2>2. CASE pipe_line.output # "tty"
    <3>1. o = freopen(i.table, streams.stdout, dt)
      BY <2>2
    <3>2. Streams(i.table, i.on, streams.stdout)
      BY <1>4, StreamValues
    <3> HIDE DEF o
    <3>3. /\ o.table \in [Fds -> Descs] /\ Streams(o.table, i.on, o.on)
          /\ \A n \in Fds \ {0, 1} : o.table[n] = i.table[n]
          /\ i.on # -1 => o.table[i.on] = i.table[i.on]
          /\ o.on \in {streams.stdout, -1}
          /\ dt = Closed => o.on = -1
          /\ dt # Closed => o.on \in {0, 1} /\ o.table[o.on] = dt
      BY <1>2, <1>3, <1>4, <2>2, <3>1, <3>2, Reopened
    <3>4. \A n \in {0, 1} : (n = i.on /\ o.table[n] = i.table[n]) \/ o.table[n] \in {Closed, dt}
      BY <3>3 DEF Streams
    <3> QED BY <1>3, <1>4, <2>2, <3>3, <3>4, FdsThere
  <2> QED BY <2>1, <2>2
<1> HIDE DEF i, o, own
<1>6. /\ e \in [Fds -> Descs] /\ \A n \in Fds \ {2} : e[n] = o.table[n]
      /\ e[2] \in {o.table[2], o.table[1]} /\ (e[2] # Closed)
  BY <1>2, <1>5, FdsThere DEF dup2
<1> HIDE DEF e
<1>7. Streams(e, i.on, o.on)
  BY <1>5, <1>6, FdsThere DEF Streams
<1>8. \A n \in Fds : e[n].kind = "pipe" => e[n].id \in 1 .. Len(content)
  BY <1>5, <1>6, FdsThere
<1>9. streams'.stdin = i.on /\ streams'.stdout = o.on
  BY <1>1
<1>10. /\ \A n \in Fds \ {0, 1, 2} : e[n] = fd[Shell][n]
       /\ e[0].kind # "pipe" /\ e[1].kind # "pipe"
  BY <1>5, <1>6, FdsThere DEF own
<1> QED BY <1>1, <1>4, <1>5, <1>6, <1>7, <1>8, <1>9, <1>10

LEMMA InvRedirect ==
  ASSUME Inv, Redirect
  PROVE  Inv'
<1>1. PICK t \in [Fds -> Descs] :
        /\ fd' = [fd EXCEPT ![Shell] = t]
        /\ \A n \in Fds \ {0, 1, 2} : t[n] = fd[Shell][n]
        /\ t[2] # Closed
        /\ \A n \in Fds : t[n].kind = "pipe" => t[n].id \in 1 .. Len(content)
        /\ Streams(t, streams'.stdin, streams'.stdout)
        /\ streams' = [stdin |-> streams'.stdin, stdout |-> streams'.stdout]
        /\ streams'.stdin \in {streams.stdin, -1} /\ streams'.stdout \in {streams.stdout, -1}
        /\ crossed' = (crossed \/ (streams'.stdin = -1 /\ streams'.stdout = -1))
  BY Redirected
<1>2. /\ pc = "redirect" /\ pc' = "fork"
      /\ UNCHANGED <<cloexec, pipe_line, fds, curr_cmd, started, proc, content>>
  BY DEF Redirect
<1>3. cloexec \in [Procs \cup {Shell} -> SUBSET Fds]
  BY DEF Inv, Types, TypeOK
<1>4. Types' /\ fd'[Shell] = t /\ \A q \in Procs : fd'[q] = fd[q]
  BY <1>1, <1>2, <1>3, ShellTypes, StreamValues DEF Inv
<1>5. Places'
  BY <1>2 DEF Inv, Places, Commands
<1>6. Console'
  <2>1. t[3] # Closed /\ \A n \in Fds \ 0 .. 3 : t[n] # Closed => n \in Range(fds)
    BY <1>1, <1>2, FdsThere DEF Inv, Console
  <2>2. Range(fds) \cap 0 .. 3 = {} /\ streams.stdin # -1 /\ streams.stdout # -1
    BY <1>2 DEF Inv, Console
  <2>3. ~crossed' => /\ streams'.stdin \in {0, -1} /\ streams'.stdout \in {1, -1}
                     /\ streams'.stdin # streams'.stdout
    BY <1>1, <2>2 DEF Inv, Console
  <2> QED BY <1>1, <1>2, <1>4, <2>1, <2>2, <2>3 DEF Console
<1>7. Marked'
  BY <1>1, <1>2, <1>4 DEF Inv, Marked, ClosedByExec, NothingLeaks
<1> QED BY <1>4, <1>5, <1>6, <1>7 DEF Inv

LEMMA InvClose ==
  ASSUME Inv, Close
  PROVE  Inv'
<1> DEFINE t == [n \in Fds |-> IF n \in Range(fds) THEN Closed ELSE fd[Shell][n]]
<1>1. /\ pc = "fork" /\ pc' = "reset"
      /\ UNCHANGED <<streams, pipe_line, fds, curr_cmd, started, proc, content, out, history>>
  BY DEF Close
<1>2. fd \in [Procs \cup {Shell} -> [Fds -> Descs]] /\ Shell \notin Procs
      /\ cloexec \in [Procs \cup {Shell} -> SUBSET Fds]
  BY DEF Inv, Types, TypeOK, Shell, Procs
<1>3. fd' = [fd EXCEPT ![Shell] = t]
  BY <1>2 DEF Close
<1>4. /\ cloexec' = [cloexec EXCEPT ![Shell] = cloexec[Shell] \ Range(fds)]
      /\ cloexec' \in [Procs \cup {Shell} -> SUBSET Fds]
      /\ cloexec'[Shell] = cloexec[Shell] \ Range(fds)
      /\ \A q \in Procs : cloexec'[q] = cloexec[q]
  BY <1>2 DEF Close
<1>5. t \in [Fds -> Descs] /\ \A n \in Fds : t[n].kind = "pipe" => t[n].id \in 1 .. Len(content)
  BY <1>2, DescKinds DEF Inv, Types
<1>6. /\ \A n \in Range(fds) \cap Fds : t[n] = Closed
      /\ \A n \in Fds \ Range(fds) : t[n] = fd[Shell][n]
  OBVIOUS
<1> HIDE DEF t
<1>7. /\ \A n \in {0, 1, 2, 3} : t[n] = fd[Shell][n]
      /\ \A n \in Fds \ 0 .. 3 : t[n] = Closed
  <2>1. /\ Range(fds) \cap 0 .. 3 = {}
        /\ \A n \in Fds \ 0 .. 3 : fd[Shell][n] # Closed => n \in Range(fds)
    BY <1>1 DEF Inv, Console
  <2>2. \A n \in {0, 1, 2, 3} : n \in Fds \ Range(fds)
    BY <2>1, FdsThere
  <2> QED BY <1>6, <2>1, <2>2
<1>8. Types' /\ fd'[Shell] = t /\ \A q \in Procs : fd'[q] = fd[q]
  <2>1. streams' \in [stdin : Fds \cup {-1}, stdout : Fds \cup {-1}]
    BY <1>1 DEF Inv, Types, TypeOK
  <2> QED BY <1>1, <1>3, <1>4, <1>5, <2>1, ShellTypes DEF Inv
<1>9. Places'
  BY <1>1 DEF Inv, Places, Commands
<1>10. Console'
  BY <1>1, <1>7, <1>8 DEF Inv, Console, Streams, history
<1>11. Marked'
  <2>1. ClosedByExec(Shell)'
    BY <1>4, <1>6, <1>8 DEF Inv, Marked, ClosedByExec
  <2> QED BY <1>1, <1>4, <1>8, <2>1 DEF Inv, Marked, ClosedByExec, NothingLeaks
<1> QED BY <1>8, <1>9, <1>10, <1>11 DEF Inv

\* Both streams are on the console again, unless crossed each on its own descriptor.
LEMMA InvReset ==
  ASSUME Inv, Reset
  PROVE  Inv'
<1> DEFINE own == fd[Shell]
           o == freopen(own, streams.stdout, Tty("w"))
           i == freopen(o.table, streams.stdin, Tty("r"))
<1>1. /\ pc = "reset" /\ pc' \in {"prompt", "wait"}
      /\ fd' = [fd EXCEPT ![Shell] = i.table]
      /\ streams' = [stdin |-> i.on, stdout |-> o.on]
      /\ UNCHANGED <<cloexec, pipe_line, fds, curr_cmd, started, proc, content, out, history>>
  BY DEF Reset
<1>2. /\ own \in [Fds -> Descs] /\ Streams(own, streams.stdin, streams.stdout)
      /\ \A n \in Fds : own[n].kind = "pipe" => own[n].id \in 1 .. Len(content)
      /\ own[2] # Closed /\ own[3] # Closed
      /\ \A n \in Fds \ 0 .. 3 : own[n] = Closed
  BY <1>1 DEF Inv, Types, TypeOK, Console
<1>3. /\ Closed \in Descs /\ Closed.kind = "none"
      /\ \A m \in {"r", "w"} : Tty(m) \in Descs /\ Tty(m).kind = "tty" /\ Tty(m) # Closed
  BY DescKinds DEF Inv, Types
<1> HIDE DEF own
<1>4. /\ o.table \in [Fds -> Descs] /\ Streams(o.table, streams.stdin, o.on)
      /\ \A n \in Fds \ {0, 1} : o.table[n] = own[n]
      /\ o.on \in {0, 1} /\ o.table[o.on] = Tty("w")
      /\ streams.stdout # -1 => o.on = streams.stdout
  <2> HIDE DEF o
  <2>1. o = freopen(own, streams.stdout, Tty("w"))
    BY DEF o
  <2> QED BY <1>2, <1>3, <2>1, Reopened
<1> HIDE DEF o
<1>5. /\ i.table \in [Fds -> Descs] /\ Streams(i.table, o.on, i.on)
      /\ \A n \in Fds \ {0, 1} : i.table[n] = o.table[n]
      /\ o.on # -1 => i.table[o.on] = o.table[o.on]
      /\ i.on \in {0, 1} /\ i.table[i.on] = Tty("r")
      /\ streams.stdin # -1 => i.on = streams.stdin
  <2> HIDE DEF i
  <2>1. i = freopen(o.table, streams.stdin, Tty("r"))
    BY DEF i
  <2>2. Streams(o.table, o.on, streams.stdin)
    BY <1>4, StreamValues
  <2> QED BY <1>3, <1>4, <2>1, <2>2, Reopened
<1> HIDE DEF i
<1>6. i.on # o.on
  BY <1>4, <1>5 DEF Streams
<1>7. \A n \in {0, 1} : i.table[n].kind = "tty"
  BY <1>3, <1>4, <1>5, <1>6
<1>8. \A n \in Fds : i.table[n].kind = "pipe" => i.table[n].id \in 1 .. Len(content)
  BY <1>2, <1>4, <1>5, <1>7, FdsThere
<1>9. Types' /\ fd'[Shell] = i.table /\ \A q \in Procs : fd'[q] = fd[q]
  <2>1. cloexec' \in [Procs \cup {Shell} -> SUBSET Fds]
        /\ streams' \in [stdin : Fds \cup {-1}, stdout : Fds \cup {-1}]
    BY <1>1, <1>4, <1>5, FdsThere DEF Inv, Types, TypeOK
  <2> QED BY <1>1, <1>5, <1>8, <2>1, ShellTypes DEF Inv
<1>10. Places'
  BY <1>1 DEF Inv, Places, Commands
<1>11. Console'
  <2>1. Streams(i.table, i.on, o.on)
    BY <1>5, StreamValues
  <2>2. ~crossed => i.on = 0 /\ o.on = 1
    BY <1>4, <1>5, <1>6 DEF Inv, Console
  <2>3. /\ i.table[2] # Closed /\ i.table[3] # Closed
        /\ \A n \in Fds \ 0 .. 3 : i.table[n] = Closed
    BY <1>2, <1>4, <1>5, FdsThere
  <2>4. streams'.stdin = i.on /\ streams'.stdout = o.on
    BY <1>1
  <2> QED BY <1>1, <1>4, <1>5, <1>7, <1>9, <2>1, <2>2, <2>3, <2>4 DEF Console, history
<1>12. Marked'
  <2>1. ClosedByExec(Shell)'
    BY <1>1, <1>4, <1>5, <1>9 DEF Inv, Marked, ClosedByExec, own
  <2> QED BY <1>1, <1>9, <2>1 DEF Inv, Marked, ClosedByExec, NothingLeaks
<1> QED BY <1>9, <1>10, <1>11, <1>12 DEF Inv

LEMMA InvWait ==
  ASSUME Inv, Wait
  PROVE  Inv'
<1>1. pc = "wait" /\ pc' = "prompt"
      /\ UNCHANGED <<fd, cloexec, streams, pipe_line, fds, curr_cmd, started, proc, content, out,
                     history>>
  BY DEF Wait
<1>2. Types'
  BY <1>1 DEF Inv, Types, TypeOK, Commands, Descs
<1>3. Places' /\ Console'
  BY <1>1 DEF Inv, Places, Console, Commands, history
<1>4. Marked'
  BY <1>1 DEF Inv, Marked, ClosedByExec, NothingLeaks
<1> QED BY <1>2, <1>3, <1>4 DEF Inv

\* The child has what the shell has.
LEMMA InvFork ==
  ASSUME Inv, Fork
  PROVE  Inv'
<1> DEFINE p == started + 1
           k == curr_cmd + 1
           l == k = Commands
           c == [state |-> "forked", cmd |-> k, last |-> l, prog |-> pipe_line.progs[k],
                 fds |-> fds, hand |-> <<>>, pos |-> 0]
<1>1. /\ pc = "fork" /\ curr_cmd < Commands
      /\ fd' = [fd EXCEPT ![p] = fd[Shell]]
      /\ cloexec' = [cloexec EXCEPT ![p] = cloexec[Shell]]
      /\ proc' = [proc EXCEPT ![p] = c]
      /\ started' = p /\ curr_cmd' = k
      /\ UNCHANGED <<streams, pc, pipe_line, fds, content, out, history>>
  BY DEF Fork
<1>2. /\ pipe_line \in Pipelines /\ started + (Commands - curr_cmd) <= MaxProcs
      /\ Len(fds) = 2 * (Commands - 1) /\ fds \in Seq(Fds)
      /\ curr_cmd \in 0 .. Commands /\ started \in 0 .. MaxProcs
      /\ proc \in [Procs -> ProcRecord]
  BY <1>1 DEF Inv, Places, Types, TypeOK
<1>3. pipe_line.progs \in Seq(Program) /\ Commands \in Nat \ {0}
  BY <1>2, PipelineAssumption DEF Pipeline, Commands
<1>4. p \in Procs /\ k \in 1 .. Commands /\ Shell \notin Procs /\ p # Shell
  BY <1>1, <1>2, <1>3, BoundAssumption, SMTT(20) DEF Procs, Shell
<1>5. /\ c \in ProcRecord /\ c.state = "forked" /\ c.cmd = k /\ c.last = (k = Commands)
      /\ c.fds = fds
  <2>1. pipe_line.progs[k] \in Program
    BY <1>3, <1>4 DEF Commands
  <2>3. l \in BOOLEAN /\ k \in Nat
    BY <1>3, <1>4
  <2> HIDE DEF l, k
  <2>4. c \in ProcRecord
    BY <1>2, <2>1, <2>3 DEF ProcRecord, Hands
  <2> QED BY <2>4 DEF l
<1> HIDE DEF c
<1>6. /\ proc' \in [Procs -> ProcRecord] /\ proc'[p] = c
      /\ \A q \in Procs \ {p} : proc'[q] = proc[q]
  BY <1>1, <1>2, <1>4, <1>5
<1>7. fd \in [Procs \cup {Shell} -> [Fds -> Descs]]
      /\ cloexec \in [Procs \cup {Shell} -> SUBSET Fds]
  BY DEF Inv, Types, TypeOK
<1> HIDE DEF p, k
<1>8. /\ fd' \in [Procs \cup {Shell} -> [Fds -> Descs]]
      /\ cloexec' \in [Procs \cup {Shell} -> SUBSET Fds]
      /\ fd'[p] = fd[Shell] /\ cloexec'[p] = cloexec[Shell]
      /\ \A q \in (Procs \cup {Shell}) \ {p} : fd'[q] = fd[q] /\ cloexec'[q] = cloexec[q]
  BY <1>1, <1>4, <1>7
<1>9. Types'
  <2>1. TypeOK'
    <3>1. Descs' = Descs /\ Commands' = Commands
      BY <1>1 DEF Descs, Commands
    <3>2. started' \in 0 .. MaxProcs /\ curr_cmd' \in 0 .. Commands
      BY <1>1, <1>4, BoundAssumption DEF Procs
    <3>3. \A q \in Procs : proc'[q].state \in {"none", "forked", "running", "done"}
      BY <1>6 DEF ProcRecord
    <3> QED BY <1>1, <1>8, <3>1, <3>2, <3>3 DEF Inv, Types, TypeOK
  <2>2. \A q \in Procs \cup {Shell}, n \in Fds :
          fd'[q][n].kind = "pipe" => fd'[q][n].id \in 1 .. Len(content')
    BY <1>1, <1>8 DEF Inv, Types
  <2> QED BY <1>1, <1>6, <2>1, <2>2 DEF Inv, Types
<1>10. Places'
  <2>1. \A q \in Procs : proc'[q].state = "forked" =>
          /\ proc'[q].cmd >= 1
          /\ proc'[q].cmd # 1 => 2 * proc'[q].cmd - 2 <= Len(proc'[q].fds)
          /\ ~proc'[q].last => 2 * proc'[q].cmd <= Len(proc'[q].fds)
    <3>1. /\ k >= 1 /\ (k # 1 => 2 * k - 2 <= Len(fds))
          /\ k # Commands => 2 * k <= Len(fds)
      BY <1>2, <1>3, <1>4
    <3>2. \A q \in Procs \ {p} : proc[q] = proc'[q]
      BY <1>6
    <3> QED BY <1>5, <1>6, <3>1, <3>2 DEF Inv, Places
  <2>2. started' + (Commands - curr_cmd') <= MaxProcs
    BY <1>1, <1>2, <1>3 DEF p, k
  <2> QED BY <1>1, <1>2, <2>1, <2>2 DEF Places, Commands
<1>11. Console'
  BY <1>1, <1>4, <1>8 DEF Inv, Console, history
<1>12. Marked'
  <2>1. ClosedByExec(Shell)'
    BY <1>4, <1>8 DEF Inv, Marked, ClosedByExec
  <2>2. ASSUME NEW q \in Procs, proc'[q].state = "forked"
        PROVE  ClosedByExec(q)'
    <3>1. CASE q = p
      BY <1>8, <3>1 DEF Inv, Marked, ClosedByExec
    <3>2. CASE q # p
      BY <1>6, <1>8, <2>2, <3>2 DEF Inv, Marked, ClosedByExec
    <3> QED BY <3>1, <3>2
  <2>3. NothingLeaks'
    BY <1>5, <1>6, <1>8 DEF Inv, Marked, NothingLeaks
  <2> QED BY <2>1, <2>2, <2>3 DEF Marked
<1> QED BY <1>9, <1>10, <1>11, <1>12 DEF Inv

-----------------------------------------------------------------------------
(* The processes.                                                          *)

\* A process goes on with descriptors t, closed but for its streams, or ends.
LEMMA ProcessStep ==
  ASSUME Inv, NEW p \in Procs, UNCHANGED <<shell, history>>,
         NEW c \in ProcRecord, c.state \in {"running", "done"},
         NEW t \in [Fds -> Descs], NEW s \in SUBSET Fds,
         proc' = [proc EXCEPT ![p] = c], fd' = [fd EXCEPT ![p] = t],
         cloexec' = [cloexec EXCEPT ![p] = s],
         \A n \in Fds : t[n].kind = "pipe" => t[n].id \in 1 .. Len(content),
         c.state = "running" => \A n \in Fds \ {0, 1, 2} : t[n] = Closed,
         content' \in Seq(Seq(Item)), Len(content') = Len(content),
         \A i \in DOMAIN content' : Len(content'[i]) <= Capacity
  PROVE  Inv'
<1>1. /\ UNCHANGED <<streams, pc, pipe_line, fds, curr_cmd, started, before, crossed>>
      /\ Shell # p /\ Shell \notin Procs
  BY DEF shell, history, Shell, Procs
<1>2. /\ fd \in [Procs \cup {Shell} -> [Fds -> Descs]]
      /\ cloexec \in [Procs \cup {Shell} -> SUBSET Fds]
      /\ proc \in [Procs -> ProcRecord]
  BY DEF Inv, Types, TypeOK
<1>3. /\ proc' \in [Procs -> ProcRecord] /\ proc'[p] = c
      /\ \A q \in Procs \ {p} : proc'[q] = proc[q]
  BY <1>2
<1>4. /\ fd' \in [Procs \cup {Shell} -> [Fds -> Descs]] /\ fd'[p] = t
      /\ \A q \in (Procs \cup {Shell}) \ {p} : fd'[q] = fd[q]
  BY <1>2
<1>5. /\ cloexec' \in [Procs \cup {Shell} -> SUBSET Fds]
      /\ \A q \in (Procs \cup {Shell}) \ {p} : cloexec'[q] = cloexec[q]
  BY <1>2
<1>6. Types'
  <2>1. Descs' = Descs /\ Commands' = Commands
    BY <1>1 DEF Descs, Commands
  <2>2. \A q \in Procs : proc'[q].state \in {"none", "forked", "running", "done"}
    BY <1>3 DEF ProcRecord
  <2>3. TypeOK'
    BY <1>1, <1>4, <1>5, <2>1, <2>2 DEF Inv, Types, TypeOK
  <2>4. \A q \in Procs \cup {Shell}, n \in Fds :
          fd'[q][n].kind = "pipe" => fd'[q][n].id \in 1 .. Len(content')
    BY <1>4 DEF Inv, Types
  <2> QED BY <1>1, <1>3, <2>3, <2>4 DEF Inv, Types
<1>7. Places'
  BY <1>1, <1>3 DEF Inv, Places, Commands
<1>8. Console'
  BY <1>1, <1>4 DEF Inv, Console, Streams
<1>9. Marked'
  BY <1>1, <1>3, <1>4, <1>5 DEF Inv, Marked, ClosedByExec, NothingLeaks
<1> QED BY <1>6, <1>7, <1>8, <1>9 DEF Inv

\* A process that ends.
LEMMA InvExit ==
  ASSUME Inv, NEW p \in Procs, Exit(p), UNCHANGED <<shell, history>>,
         content' \in Seq(Seq(Item)), Len(content') = Len(content),
         \A i \in DOMAIN content' : Len(content'[i]) <= Capacity
  PROVE  Inv'
<1> DEFINE c == [NewProc EXCEPT !.state = "done"]
           t == [n \in Fds |-> Closed]
<1>1. c \in ProcRecord /\ c.state = "done"
  <2>1. NewProc \in ProcRecord
    BY DEF NewProc, ProcRecord, Program, Hands
  <2> QED BY <2>1 DEF ProcRecord
<1>2. t \in [Fds -> Descs] /\ \A n \in Fds : t[n].kind # "pipe"
  BY DescKinds DEF Inv, Types
<1>3. proc' = [proc EXCEPT ![p] = c] /\ fd' = [fd EXCEPT ![p] = t]
      /\ cloexec' = [cloexec EXCEPT ![p] = {}]
  BY DEF Exit
<1>4. {} \in SUBSET Fds
  OBVIOUS
<1> HIDE DEF c, t
<1> QED BY <1>1, <1>2, <1>3, <1>4, ProcessStep

\* dup2 puts on 0 and 1 what the array says, and execvp closes all but the streams.
LEMMA InvExec ==
  ASSUME Inv, NEW p \in Procs, Exec(p)
  PROVE  Inv'
<1> DEFINE own == fd[p]
           i == IF proc[p].cmd # 1 THEN dup2(own, proc[p].fds[2 * proc[p].cmd - 3], 0) ELSE own
           o == IF ~proc[p].last THEN dup2(i, proc[p].fds[2 * proc[p].cmd], 1) ELSE i
           t == [n \in Fds |-> IF n \in cloexec[p] THEN Closed ELSE o[n]]
           c == [proc[p] EXCEPT !.state = "running", !.fds = <<>>]
<1>1. proc[p].state = "forked" /\ UNCHANGED <<shell, content, out, history>>
  BY DEF Exec
<1>2. CASE proc[p].prog = "none"
  <2>1. Exit(p)
    BY <1>2 DEF Exec
  <2>2. /\ UNCHANGED <<shell, history>>
        /\ content' \in Seq(Seq(Item)) /\ Len(content') = Len(content)
        /\ \A x \in DOMAIN content' : Len(content'[x]) <= Capacity
    BY <1>1 DEF Inv, Types, TypeOK
  <2> QED BY <2>1, <2>2, InvExit
<1>3. CASE proc[p].prog # "none"
  <2>1. /\ proc' = [proc EXCEPT ![p].state = "running", ![p].fds = <<>>]
        /\ fd' = [fd EXCEPT ![p] = t] /\ cloexec' = [cloexec EXCEPT ![p] = {}]
    BY <1>3 DEF Exec
  <2>2. /\ proc[p] \in ProcRecord /\ proc \in [Procs -> ProcRecord]
        /\ own \in [Fds -> Descs]
        /\ \A n \in Fds : own[n].kind = "pipe" => own[n].id \in 1 .. Len(content)
        /\ content \in Seq(Seq(Item)) /\ \A x \in DOMAIN content : Len(content[x]) <= Capacity
        /\ \A n \in Fds \ {0, 1, 2} : own[n] # Closed => n \in cloexec[p]
    BY <1>1 DEF Inv, Types, TypeOK, Marked, ClosedByExec
  <2>3. proc' = [proc EXCEPT ![p] = c]
    BY <2>1, <2>2
  <2>4. c \in ProcRecord /\ c.state = "running"
    <3>1. <<>> \in Seq(Fds)
      OBVIOUS
    <3> QED BY <2>2, <3>1 DEF ProcRecord
  <2>5. /\ proc[p].cmd # 1 => proc[p].fds[2 * proc[p].cmd - 3] \in Fds
        /\ ~proc[p].last => proc[p].fds[2 * proc[p].cmd] \in Fds
    <3>1. proc[p].fds \in Seq(Fds) /\ proc[p].cmd \in Nat
      BY <2>2 DEF ProcRecord
    <3>2. /\ proc[p].cmd # 1 => 2 * proc[p].cmd - 3 \in 1 .. Len(proc[p].fds)
          /\ ~proc[p].last => 2 * proc[p].cmd \in 1 .. Len(proc[p].fds)
      BY <1>1, <3>1 DEF Inv, Places
    <3> QED BY <3>1, <3>2, SMTT(20)
  <2> HIDE DEF c, own
  <2>6. /\ i \in [Fds -> Descs] /\ \A n \in Fds : \E m \in Fds : i[n] = own[m]
        /\ \A n \in Fds \ {0, 1, 2} : i[n] = own[n]
    BY <2>2, <2>5, FdsThere DEF dup2
  <2> HIDE DEF i
  <2>7. /\ o \in [Fds -> Descs] /\ \A n \in Fds : \E m \in Fds : o[n] = own[m]
        /\ \A n \in Fds \ {0, 1, 2} : o[n] = own[n]
    BY <2>5, <2>6, FdsThere DEF dup2
  <2> HIDE DEF o
  <2>8. Closed \in Descs /\ Closed.kind = "none"
    BY <2>2, DescKinds
  <2>9. /\ t \in [Fds -> Descs] /\ \A n \in Fds : t[n] = Closed \/ t[n] = o[n]
        /\ \A n \in Fds \ {0, 1, 2} : t[n] = Closed
    BY <2>2, <2>7, <2>8
  <2>10. \A n \in Fds : t[n].kind = "pipe" => t[n].id \in 1 .. Len(content)
    BY <2>2, <2>7, <2>8, <2>9
  <2> HIDE DEF t
  <2>11. /\ UNCHANGED <<shell, history>> /\ {} \in SUBSET Fds
         /\ content' \in Seq(Seq(Item)) /\ Len(content') = Len(content)
         /\ \A x \in DOMAIN content' : Len(content'[x]) <= Capacity
    BY <1>1, <2>2
  <2> QED BY <2>1, <2>3, <2>4, <2>9, <2>10, <2>11, ProcessStep
<1> QED BY <1>2, <1>3

LEMMA InvRead ==
  ASSUME Inv, NEW p \in Procs, Read(p)
  PROVE  Inv'
<1> DEFINE d == fd[p][0]
           rest == [content EXCEPT ![d.id] = Tail(@)]
<1>1. /\ proc[p] \in ProcRecord /\ proc \in [Procs -> ProcRecord]
      /\ fd \in [Procs \cup {Shell} -> [Fds -> Descs]] /\ fd[p] \in [Fds -> Descs]
      /\ cloexec \in [Procs \cup {Shell} -> SUBSET Fds] /\ cloexec[p] \in SUBSET Fds
      /\ content \in Seq(Seq(Item)) /\ \A x \in DOMAIN content : Len(content[x]) <= Capacity
      /\ \A n \in Fds : fd[p][n].kind = "pipe" => fd[p][n].id \in 1 .. Len(content)
  BY DEF Inv, Types, TypeOK
<1>2. /\ proc[p].state = "running" /\ UNCHANGED <<shell, out, history>>
      /\ \/ /\ d.kind = "pipe" /\ content[d.id] # <<>>
            /\ proc' = [proc EXCEPT ![p].hand = <<Head(content[d.id])>>]
            /\ content' = rest
            /\ UNCHANGED <<fd, cloexec>>
         \/ /\ proc[p].pos < Len(Items)
            /\ proc' = [proc EXCEPT ![p].hand = <<Items[proc[p].pos + 1]>>, ![p].pos = @ + 1]
            /\ UNCHANGED <<fd, cloexec, content>>
         \/ Exit(p) /\ UNCHANGED content
  BY DEF Read
<1>3. \A n \in Fds \ {0, 1, 2} : fd[p][n] = Closed
  BY <1>2 DEF Inv, Marked, NothingLeaks
<1>4. ASSUME NEW h \in Item, NEW n \in Nat, fd' = fd, cloexec' = cloexec,
             proc' = [proc EXCEPT ![p].hand = <<h>>, ![p].pos = n],
             content' \in Seq(Seq(Item)), Len(content') = Len(content),
             \A x \in DOMAIN content' : Len(content'[x]) <= Capacity
      PROVE  Inv'
  <2> DEFINE c == [proc[p] EXCEPT !.hand = <<h>>, !.pos = n]
  <2>1. proc' = [proc EXCEPT ![p] = c]
    BY <1>1, <1>4
  <2>2. <<h>> \in Hands
    BY DEF Hands
  <2>3. c \in ProcRecord /\ c.state = "running"
    BY <1>1, <1>2, <2>2 DEF ProcRecord
  <2>4. fd' = [fd EXCEPT ![p] = fd[p]] /\ cloexec' = [cloexec EXCEPT ![p] = cloexec[p]]
    BY <1>1, <1>4
  <2>5. UNCHANGED <<shell, history>>
    BY <1>2
  <2> HIDE DEF c
  <2> QED BY <1>1, <1>3, <1>4, <2>1, <2>3, <2>4, <2>5, ProcessStep
<1>5. CASE /\ d.kind = "pipe" /\ content[d.id] # <<>>
           /\ proc' = [proc EXCEPT ![p].hand = <<Head(content[d.id])>>]
           /\ content' = rest
           /\ UNCHANGED <<fd, cloexec>>
  <2> DEFINE s == content[d.id]
  <2>1. d.id \in 1 .. Len(content) /\ s \in Seq(Item) /\ s # <<>> /\ Len(s) <= Capacity
    BY <1>1, <1>5, FdsThere
  <2>2. Head(s) \in Item /\ Tail(s) \in Seq(Item) /\ Len(Tail(s)) <= Capacity
    BY <2>1, BoundAssumption
  <2> HIDE DEF s, d
  <2>3. content' = [content EXCEPT ![d.id] = Tail(s)]
    BY <1>5 DEF s
  <2>4. /\ content' \in Seq(Seq(Item)) /\ Len(content') = Len(content)
        /\ \A x \in DOMAIN content' : Len(content'[x]) <= Capacity
    BY <1>1, <2>1, <2>2, <2>3
  <2>5. proc' = [proc EXCEPT ![p].hand = <<Head(s)>>, ![p].pos = proc[p].pos]
    BY <1>1, <1>5 DEF s, ProcRecord
  <2>6. proc[p].pos \in Nat
    BY <1>1 DEF ProcRecord
  <2> QED BY <1>4, <1>5, <2>2, <2>4, <2>5, <2>6
<1>6. CASE /\ proc[p].pos < Len(Items)
           /\ proc' = [proc EXCEPT ![p].hand = <<Items[proc[p].pos + 1]>>, ![p].pos = @ + 1]
           /\ UNCHANGED <<fd, cloexec, content>>
  <2> DEFINE h == Items[proc[p].pos + 1]
             n == proc[p].pos + 1
  <2>1. n \in Nat
    BY <1>1 DEF ProcRecord
  <2>2. h \in Item
    <3>1. proc[p].pos + 1 \in DOMAIN Items
      BY <1>1, <1>6, ItemAssumption DEF ProcRecord
    <3> QED BY <3>1 DEF Item, Range
  <2>3. proc' = [proc EXCEPT ![p].hand = <<h>>, ![p].pos = n]
    BY <1>1, <1>6
  <2> HIDE DEF h, n
  <2> QED BY <1>1, <1>4, <1>6, <2>1, <2>2, <2>3
<1>7. CASE Exit(p) /\ UNCHANGED content
  <2>1. /\ UNCHANGED <<shell, history>>
        /\ content' \in Seq(Seq(Item)) /\ Len(content') = Len(content)
        /\ \A x \in DOMAIN content' : Len(content'[x]) <= Capacity
    BY <1>1, <1>2, <1>7
  <2> QED BY <1>7, <2>1, InvExit
<1> QED BY <1>2, <1>5, <1>6, <1>7

LEMMA InvWrite ==
  ASSUME Inv, NEW p \in Procs, Write(p)
  PROVE  Inv'
<1> DEFINE d == fd[p][1]
           more == [content EXCEPT ![d.id] = @ \o proc[p].hand]
<1>1. /\ proc[p] \in ProcRecord /\ proc \in [Procs -> ProcRecord]
      /\ fd \in [Procs \cup {Shell} -> [Fds -> Descs]] /\ fd[p] \in [Fds -> Descs]
      /\ cloexec \in [Procs \cup {Shell} -> SUBSET Fds] /\ cloexec[p] \in SUBSET Fds
      /\ content \in Seq(Seq(Item)) /\ \A x \in DOMAIN content : Len(content[x]) <= Capacity
      /\ \A n \in Fds : fd[p][n].kind = "pipe" => fd[p][n].id \in 1 .. Len(content)
  BY DEF Inv, Types, TypeOK
<1>2. /\ proc[p].state = "running" /\ proc[p].hand # <<>> /\ UNCHANGED <<shell, history>>
      /\ \/ d.kind = "pipe" /\ Len(content[d.id]) < Capacity /\ content' = more
         \/ UNCHANGED content
      /\ \/ Exit(p)
         \/ proc' = [proc EXCEPT ![p].hand = <<>>] /\ UNCHANGED <<fd, cloexec>>
  BY DEF Write
<1>3. /\ content' \in Seq(Seq(Item)) /\ Len(content') = Len(content)
      /\ \A x \in DOMAIN content' : Len(content'[x]) <= Capacity
  <2>1. CASE d.kind = "pipe" /\ Len(content[d.id]) < Capacity /\ content' = more
    <3> DEFINE s == content[d.id]
    <3>1. d.id \in 1 .. Len(content) /\ s \in Seq(Item) /\ Len(s) < Capacity
      BY <1>1, <2>1, FdsThere
    <3>2. PICK x \in Item : proc[p].hand = <<x>>
      BY <1>1, <1>2 DEF ProcRecord, Hands
    <3> HIDE DEF s, d
    <3>3. s \o <<x>> \in Seq(Item) /\ Len(s \o <<x>>) <= Capacity
      BY <3>1, BoundAssumption
    <3>4. content' = [content EXCEPT ![d.id] = s \o <<x>>]
      BY <2>1, <3>2 DEF s
    <3> HIDE <3>2
    <3> QED BY <1>1, <3>1, <3>3, <3>4
  <2>2. CASE UNCHANGED content
    BY <1>1, <2>2
  <2> QED BY <1>2, <2>1, <2>2
<1>4. CASE Exit(p)
  BY <1>2, <1>3, <1>4, InvExit
<1>5. CASE proc' = [proc EXCEPT ![p].hand = <<>>] /\ UNCHANGED <<fd, cloexec>>
  <2> DEFINE c == [proc[p] EXCEPT !.hand = <<>>]
  <2>1. proc' = [proc EXCEPT ![p] = c]
    BY <1>1, <1>5
  <2>2. <<>> \in Hands
    BY DEF Hands
  <2>3. c \in ProcRecord /\ c.state = "running"
    BY <1>1, <1>2, <2>2 DEF ProcRecord
  <2>4. fd' = [fd EXCEPT ![p] = fd[p]] /\ cloexec' = [cloexec EXCEPT ![p] = cloexec[p]]
    BY <1>1, <1>5
  <2>5. \A n \in Fds \ {0, 1, 2} : fd[p][n] = Closed
    BY <1>2 DEF Inv, Marked, NothingLeaks
  <2> HIDE DEF c
  <2> QED BY <1>1, <1>2, <1>3, <2>1, <2>3, <2>4, <2>5, ProcessStep
<1> QED BY <1>2, <1>4, <1>5

-----------------------------------------------------------------------------
(* The theorems.                                                           *)

LEMMA InvNext == Inv /\ [Next]_vars => Inv'
<1> SUFFICES ASSUME Inv, [Next]_vars PROVE Inv'
  OBVIOUS
<1>1. CASE Pipe
  BY <1>1, InvPipe
<1>2. CASE Main
  BY <1>2, InvRedirect, InvFork, InvClose, InvReset, InvWait DEF Main
<1>3. ASSUME NEW p \in Procs, Process(p) PROVE Inv'
  BY <1>3, InvExec, InvRead, InvWrite DEF Process
<1>4. CASE UNCHANGED vars
  <2>1. UNCHANGED <<fd, cloexec, streams, pc, pipe_line, fds, curr_cmd, started, proc, content,
                    out, before, crossed>>
    BY <1>4 DEF vars, shell, history
  <2>2. Types'
    BY <2>1 DEF Inv, Types, TypeOK, Commands, Descs
  <2>3. Places' /\ Console'
    BY <2>1 DEF Inv, Places, Console, Commands
  <2>4. Marked'
    BY <2>1 DEF Inv, Marked, ClosedByExec, NothingLeaks
  <2> QED BY <2>2, <2>3, <2>4 DEF Inv
<1> QED BY <1>1, <1>2, <1>3, <1>4 DEF Next

LEMMA Invariance == Spec => []Inv
BY InvInit, InvNext, PTL DEF Spec

\* Every variable has a value of its type, and no pipe holds more than its capacity,
\* whatever the pipelines, the items and the number of processes.
THEOREM TypeCorrect == Spec => []TypeOK
<1>1. Inv => TypeOK
  BY DEF Inv, Types
<1> QED BY <1>1, Invariance, PTL

\* When handle_pipeline returns, the shell holds no pipe end, and its stdin and stdout
\* are on the console again (its last two calls of freopen), whichever files of the
\* pipelines so far could be opened.
THEOREM ConsoleReturns == Spec => []ConsoleBack
<1>1. Inv => ConsoleBack
  <2> SUFFICES ASSUME Inv, pc = "prompt" PROVE ConsoleBack
    BY DEF ConsoleBack
  <2>1. /\ Streams(fd[Shell], streams.stdin, streams.stdout)
        /\ streams.stdin # -1 /\ fd[Shell][streams.stdin].kind = "tty"
        /\ streams.stdout # -1 /\ fd[Shell][streams.stdout].kind = "tty"
        /\ \A n \in Fds \ 0 .. 3 : fd[Shell][n] = Closed
        /\ ~crossed => streams.stdin = 0 /\ streams.stdout = 1
    BY DEF Inv, Console
  <2>2. streams = [stdin |-> streams.stdin, stdout |-> streams.stdout]
    BY DEF Inv, Types, TypeOK
  <2> QED BY <2>1, <2>2 DEF ConsoleBack, Streams
<1> QED BY <1>1, Invariance, PTL

-----------------------------------------------------------------------------
(* The programs of a pipeline.                                             *)

Live(p) == proc[p].state \in {"forked", "running"}

\* What a process reads from and writes to once execvp was called.
In(p)  == IF proc[p].state = "forked" /\ proc[p].cmd # 1
          THEN fd[p][proc[p].fds[2 * proc[p].cmd - 3]] ELSE fd[p][0]
Out(p) == IF proc[p].state = "forked" /\ ~proc[p].last
          THEN fd[p][proc[p].fds[2 * proc[p].cmd]] ELSE fd[p][1]

\* The processes and the pipes of the pipelines before.
First == started - curr_cmd
Base  == Len(content) - (Commands - 1)

\* Nothing of a pipe is on the standard streams of the shell, and they outlive execvp.
Clear == \A n \in {0, 1} : fd[Shell][n].kind # "pipe" /\ n \notin cloexec[Shell]

\* The array of pipe ends, of the shell and of a child.
Ends ==
  pc \in {"redirect", "fork"} =>
    /\ Base >= 0
    /\ \A j \in 1 .. Commands - 1 : /\ fd[Shell][fds[2 * j - 1]] = End(Base + j, "r")
                                    /\ fd[Shell][fds[2 * j]] = End(Base + j, "w")

Ready ==
  \A p \in Procs : proc[p].state = "forked" =>
    /\ 0 \notin cloexec[p] /\ 1 \notin cloexec[p]
    /\ proc[p].cmd # 1 => In(p).kind = "pipe"
    /\ ~proc[p].last => Out(p).kind = "pipe" /\ proc[p].fds[2 * proc[p].cmd] # 0

\* Who reads from a pipe, and who writes to it.
Joined ==
  \A p, q \in Procs : (Live(p) /\ Live(q) /\ In(q).kind = "pipe") =>
    /\ Out(p) = End(In(q).id, "w") <=> p + 1 = q
    /\ In(p) = In(q) => p = q

\* The pipes of the processes of this pipeline forked so far, and of those before.
Numbered ==
  \A p \in Procs : Live(p) =>
    /\ p <= started
    /\ p <= First => /\ In(p).kind = "pipe" => In(p).id <= Base
                     /\ Out(p).kind = "pipe" => Out(p).id <= Base
    /\ p > First =>
         /\ IF p = First + 1 THEN In(p).kind # "pipe" ELSE In(p) = End(Base + (p - First) - 1, "r")
         /\ IF p = First + Commands THEN Out(p).kind # "pipe"
                                    ELSE Out(p) = End(Base + (p - First), "w")

Wired == Clear /\ Ends /\ Ready /\ Joined /\ Numbered

LEMMA EndValues ==
  /\ \A i, j, m : End(i, m) = End(j, m) <=> i = j
  /\ \A i, m : End(i, m).kind = "pipe" /\ End(i, m).id = i /\ End(i, m) # Closed
BY DEF End, Desc, Closed

\* Both are descriptors of the process.
LEMMA StreamsThere ==
  ASSUME Inv, NEW p \in Procs
  PROVE  /\ \E n \in Fds : In(p) = fd[p][n]
         /\ \E n \in Fds : Out(p) = fd[p][n]
<1>1. proc[p] \in ProcRecord
  BY DEF Inv, Types
<1>2. proc[p].fds \in Seq(Fds) /\ proc[p].cmd \in Nat
  BY <1>1 DEF ProcRecord
<1>3. proc[p].state = "forked" =>
        /\ proc[p].cmd # 1 => proc[p].fds[2 * proc[p].cmd - 3] \in Fds
        /\ ~proc[p].last => proc[p].fds[2 * proc[p].cmd] \in Fds
  BY <1>2 DEF Inv, Places
<1> QED BY <1>3, FdsThere DEF In, Out

LEMMA WiredInit == Init => Wired
<1> SUFFICES ASSUME Init PROVE Wired
  OBVIOUS
<1>1. \A p \in Procs : proc[p].state = "none"
  BY DEF Init, NewProc
<1>2. fd[Shell] = [n \in Fds |-> IF n \in 0 .. 3 THEN Tty("rw") ELSE Closed]
      /\ cloexec[Shell] = {3} /\ pc = "prompt"
  BY DEF Init
<1>3. fd[Shell][0] = Tty("rw") /\ fd[Shell][1] = Tty("rw")
  BY <1>2, FdsThere
<1>4. Clear
  BY <1>2, <1>3 DEF Clear, Tty, Desc
<1> QED BY <1>1, <1>2, <1>4 DEF Wired, Ends, Ready, Joined, Numbered, Live

-----------------------------------------------------------------------------
(* The steps that make no process and no pipe.                             *)

LEMMA JoinedStill ==
  ASSUME Wired, UNCHANGED <<pipe_line, curr_cmd, started>>, Len(content') = Len(content),
         \A p \in Procs : Live(p)' => Live(p) /\ In(p)' = In(p) /\ Out(p)' = Out(p)
  PROVE  Joined' /\ Numbered'
<1>1. First' = First /\ Base' = Base /\ Commands' = Commands
  BY DEF First, Base, Commands
<1>2. Joined'
  BY DEF Wired, Joined
<1>3. Numbered'
  BY <1>1 DEF Wired, Numbered
<1> QED BY <1>2, <1>3

\* Those of the shell.
LEMMA ShellStep ==
  ASSUME Wired, UNCHANGED <<proc, content, pipe_line, curr_cmd, started>>,
         \A p \in Procs : fd'[p] = fd[p] /\ cloexec'[p] = cloexec[p]
  PROVE  Ready' /\ Joined' /\ Numbered'
<1>1. \A p \in Procs : (Live(p)' <=> Live(p)) /\ In(p)' = In(p) /\ Out(p)' = Out(p)
  BY DEF Live, In, Out
<1>2. Ready'
  BY <1>1 DEF Wired, Ready
<1>3. Joined' /\ Numbered'
  BY <1>1, JoinedStill
<1> QED BY <1>2, <1>3

LEMMA WiredRedirect ==
  ASSUME Inv, Wired, Redirect
  PROVE  Wired'
<1>1. PICK t \in [Fds -> Descs] :
        /\ fd' = [fd EXCEPT ![Shell] = t]
        /\ \A n \in Fds \ {0, 1, 2} : t[n] = fd[Shell][n]
        /\ t[0].kind # "pipe" /\ t[1].kind # "pipe"
  BY Redirected
<1>2. /\ pc = "redirect" /\ pc' = "fork"
      /\ UNCHANGED <<cloexec, pipe_line, fds, curr_cmd, started, proc, content>>
  BY DEF Redirect
<1>3. fd'[Shell] = t /\ \A p \in Procs : fd'[p] = fd[p]
  BY <1>1 DEF Inv, Types, TypeOK, Shell, Procs
<1>4. Clear'
  BY <1>1, <1>2, <1>3 DEF Wired, Clear
<1>5. Ends'
  <2>1. Range(fds) \cap 0 .. 3 = {} /\ fds \in Seq(Fds) /\ Len(fds) = 2 * (Commands - 1)
    BY <1>2 DEF Inv, Console, Types, Places
  <2>2. Commands \in Nat
    BY <1>2, PipelineAssumption DEF Inv, Places, Commands, Pipeline
  <2>3. \A x \in 1 .. Len(fds) : fds[x] \in Fds \ {0, 1, 2}
    <3>1. \A x \in 1 .. Len(fds) : fds[x] \in Range(fds)
      BY <2>1 DEF Range
    <3> QED BY <2>1, <3>1
  <2>4. \A j \in 1 .. Commands - 1 : 2 * j - 1 \in 1 .. Len(fds) /\ 2 * j \in 1 .. Len(fds)
    BY <2>1, <2>2
  <2>5. \A j \in 1 .. Commands - 1 : /\ t[fds[2 * j - 1]] = fd[Shell][fds[2 * j - 1]]
                                     /\ t[fds[2 * j]] = fd[Shell][fds[2 * j]]
    BY <1>1, <2>3, <2>4
  <2>6. Base' = Base /\ Commands' = Commands
    BY <1>2 DEF Base, Commands
  <2> QED BY <1>2, <1>3, <2>5, <2>6 DEF Wired, Ends
<1>6. Ready' /\ Joined' /\ Numbered'
  BY <1>2, <1>3, ShellStep
<1> QED BY <1>4, <1>5, <1>6 DEF Wired

LEMMA WiredClose ==
  ASSUME Inv, Wired, Close
  PROVE  Wired'
<1>1. /\ pc = "fork" /\ pc' = "reset"
      /\ UNCHANGED <<streams, pipe_line, fds, curr_cmd, started, proc, content>>
  BY DEF Close
<1>2. fd \in [Procs \cup {Shell} -> [Fds -> Descs]] /\ Shell \notin Procs
      /\ cloexec \in [Procs \cup {Shell} -> SUBSET Fds]
  BY DEF Inv, Types, TypeOK, Shell, Procs
<1>3. /\ fd'[Shell] = [n \in Fds |-> IF n \in Range(fds) THEN Closed ELSE fd[Shell][n]]
      /\ cloexec'[Shell] = cloexec[Shell] \ Range(fds)
      /\ \A p \in Procs : fd'[p] = fd[p] /\ cloexec'[p] = cloexec[p]
  BY <1>2 DEF Close
<1>4. Clear'
  <2>1. Closed.kind = "none"
    BY DEF Closed, Desc
  <2> QED BY <1>3, <2>1, FdsThere DEF Wired, Clear
<1>5. Ends'
  BY <1>1 DEF Ends
<1>6. Ready' /\ Joined' /\ Numbered'
  BY <1>1, <1>3, ShellStep
<1> QED BY <1>4, <1>5, <1>6 DEF Wired

LEMMA WiredReset ==
  ASSUME Inv, Inv', Wired, Reset
  PROVE  Wired'
<1>1. /\ pc = "reset" /\ pc' \in {"prompt", "wait"}
      /\ UNCHANGED <<cloexec, pipe_line, fds, curr_cmd, started, proc, content>>
  BY DEF Reset
<1>2. \A p \in Procs : fd'[p] = fd[p]
  BY DEF Reset, Inv, Types, TypeOK, Shell, Procs
<1>3. Clear'
  <2>1. /\ fd'[Shell][streams'.stdin].kind = "tty" /\ fd'[Shell][streams'.stdout].kind = "tty"
        /\ {streams'.stdin, streams'.stdout} = {0, 1}
    BY <1>1 DEF Inv, Console, Streams
  <2>2. fd'[Shell][0].kind = "tty" /\ fd'[Shell][1].kind = "tty"
    BY <2>1
  <2> QED BY <1>1, <2>2 DEF Wired, Clear
<1>4. Ends'
  BY <1>1 DEF Ends
<1>5. Ready' /\ Joined' /\ Numbered'
  BY <1>1, <1>2, ShellStep
<1> QED BY <1>3, <1>4, <1>5 DEF Wired

LEMMA WiredWait ==
  ASSUME Wired, Wait
  PROVE  Wired'
<1>1. /\ pc = "wait" /\ pc' = "prompt"
      /\ UNCHANGED <<fd, cloexec, pipe_line, fds, curr_cmd, started, proc, content>>
  BY DEF Wait
<1>2. Clear' /\ Ends'
  BY <1>1 DEF Wired, Clear, Ends
<1>3. Ready' /\ Joined' /\ Numbered'
  BY <1>1, ShellStep
<1> QED BY <1>2, <1>3 DEF Wired

-----------------------------------------------------------------------------
(* pipe2: the new pipes have numbers that no process has.                  *)

LEMMA WiredPipe ==
  ASSUME Inv, Wired, Pipe
  PROVE  Wired'
<1>1. PICK p \in Pipelines, array \in Seq(Fds) :
        /\ p.progs \in Seq(Program) /\ Len(p.progs) \in Nat \ {0}
        /\ pipe_line' = p /\ fds' = array /\ Len(array) = 2 * (Len(p.progs) - 1)
        /\ Range(array) \subseteq Free(fd[Shell])
        /\ Len(content') = Len(content) + Len(p.progs) - 1
        /\ fd' = [fd EXCEPT ![Shell] = [n \in Fds |-> fd'[Shell][n]]]
        /\ \A n \in Fds \ Range(array) : fd'[Shell][n] = fd[Shell][n]
        /\ \A k \in 1 .. Len(array) : fd'[Shell][array[k]] =
             End(Len(content) + (k + 1) \div 2, IF k % 2 = 1 THEN "r" ELSE "w")
        /\ cloexec' = [cloexec EXCEPT ![Shell] = @ \cup Range(array)]
  BY PipeEnds
<1>2. /\ pc = "prompt" /\ pc' = "redirect" /\ curr_cmd' = 0
      /\ UNCHANGED <<started, proc>>
  BY DEF Pipe
<1>3. /\ cloexec'[Shell] = cloexec[Shell] \cup Range(array)
      /\ \A q \in Procs : fd'[q] = fd[q] /\ cloexec'[q] = cloexec[q]
  <2> DEFINE t == [n \in Fds |-> fd'[Shell][n]]
  <2>1. fd' = [fd EXCEPT ![Shell] = t]
    BY <1>1
  <2> HIDE DEF t
  <2> QED BY <1>1, <2>1 DEF Inv, Types, TypeOK, Shell, Procs
<1>4. Clear'
  <2>1. Range(array) \cap {0, 1} = {}
    BY <1>1, <1>2, NoneFree DEF Inv
  <2> QED BY <1>1, <1>3, <2>1, FdsThere DEF Wired, Clear
<1>5. Len(content) \in Nat /\ Commands' = Len(p.progs) /\ Base' = Len(content)
  BY <1>1 DEF Inv, Types, Commands, Base
<1>6. Ends'
  <2> SUFFICES ASSUME NEW j \in 1 .. Len(p.progs) - 1
               PROVE  /\ fd'[Shell][array[2 * j - 1]] = End(Len(content) + j, "r")
                      /\ fd'[Shell][array[2 * j]] = End(Len(content) + j, "w")
    BY <1>1, <1>5 DEF Ends
  <2>1. /\ 2 * j - 1 \in 1 .. Len(array) /\ ((2 * j - 1) + 1) \div 2 = j /\ (2 * j - 1) % 2 = 1
        /\ 2 * j \in 1 .. Len(array) /\ (2 * j + 1) \div 2 = j /\ (2 * j) % 2 # 1
    BY <1>1
  <2> QED BY <1>1, <2>1
<1>7. \A q \in Procs : (Live(q)' <=> Live(q)) /\ In(q)' = In(q) /\ Out(q)' = Out(q)
  BY <1>2, <1>3 DEF Live, In, Out
<1>8. Ready' /\ Joined'
  BY <1>2, <1>3, <1>7 DEF Wired, Ready, Joined
<1>9. Numbered'
  <2>1. First' = started /\ started' = started /\ started \in Nat
    BY <1>2 DEF First, Inv, Types, TypeOK
  <2> SUFFICES ASSUME NEW q \in Procs, Live(q)
               PROVE  /\ q <= started
                      /\ In(q).kind = "pipe" => In(q).id <= Len(content)
                      /\ Out(q).kind = "pipe" => Out(q).id <= Len(content)
    BY <1>5, <1>7, <2>1, BoundAssumption DEF Numbered, Procs
  <2>2. \A n \in Fds : fd[q][n].kind = "pipe" => fd[q][n].id <= Len(content)
    BY <1>5 DEF Inv, Types
  <2> QED BY <2>2, StreamsThere DEF Wired, Numbered
<1> QED BY <1>4, <1>6, <1>8, <1>9 DEF Wired

-----------------------------------------------------------------------------
(* fork.                                                                   *)

LEMMA Forked ==
  ASSUME Inv, Wired, Fork, NEW p, p = started + 1, NEW k, k = curr_cmd + 1,
         NEW l, l = (k = Commands)
  PROVE  /\ p \in Procs /\ k \in 1 .. Commands /\ pc = "fork" /\ First' = First
         /\ started' = p /\ Live(p)' /\ started \in Nat /\ curr_cmd \in Nat
         /\ Commands \in Nat /\ Base \in Nat
         /\ IF k = 1 THEN In(p)'.kind # "pipe" ELSE In(p)' = End(Base + k - 1, "r")
         /\ IF l THEN Out(p)'.kind # "pipe" ELSE Out(p)' = End(Base + k, "w")
         /\ 0 \notin cloexec'[p] /\ 1 \notin cloexec'[p]
         /\ proc'[p].cmd = k /\ proc'[p].last = l
         /\ k = 1 => In(p)' = fd[Shell][0]
         /\ l => Out(p)' = fd[Shell][1]
         /\ proc'[p].hand = <<>> /\ proc'[p].pos = 0 /\ proc'[p].prog = pipe_line.progs[k]
         /\ ~l => proc'[p].fds[2 * k] # 0
         /\ \A q \in Procs \ {p} :
              /\ Live(q)' <=> Live(q)
              /\ proc'[q] = proc[q] /\ fd'[q] = fd[q] /\ cloexec'[q] = cloexec[q]
         /\ fd'[Shell] = fd[Shell] /\ cloexec'[Shell] = cloexec[Shell]
         /\ UNCHANGED <<pc, pipe_line, fds, content>>
<1> DEFINE c == [state |-> "forked", cmd |-> k, last |-> l, prog |-> pipe_line.progs[k],
                 fds |-> fds, hand |-> <<>>, pos |-> 0]
<1>1. /\ pc = "fork" /\ curr_cmd < Commands
      /\ fd' = [fd EXCEPT ![p] = fd[Shell]]
      /\ cloexec' = [cloexec EXCEPT ![p] = cloexec[Shell]]
      /\ proc' = [proc EXCEPT ![p] = c]
      /\ started' = p /\ curr_cmd' = k
      /\ UNCHANGED <<streams, pc, pipe_line, fds, content, out, history>>
  BY DEF Fork
<1>2. /\ pipe_line \in Pipelines /\ started + (Commands - curr_cmd) <= MaxProcs
      /\ Len(fds) = 2 * (Commands - 1) /\ fds \in Seq(Fds)
      /\ curr_cmd \in 0 .. Commands /\ started \in 0 .. MaxProcs
      /\ Range(fds) \cap 0 .. 3 = {} /\ Base \in Nat
  BY <1>1 DEF Inv, Places, Types, TypeOK, Console, Wired, Ends, Base, Commands
<1>3. Commands \in Nat \ {0}
  BY <1>2, PipelineAssumption DEF Pipeline, Commands
<1>4. p \in Procs /\ k \in 1 .. Commands /\ Shell \notin Procs /\ p # Shell
  BY <1>1, <1>2, <1>3, BoundAssumption, SMTT(20) DEF Procs, Shell
<1>5. ~l => k # Commands
  BY Zenon
<1>6. /\ c.state = "forked" /\ c.cmd = k /\ c.last = l /\ c.fds = fds
      /\ c.hand = <<>> /\ c.pos = 0 /\ c.prog = pipe_line.progs[k]
  OBVIOUS
<1> HIDE DEF c
<1>7. /\ fd \in [Procs \cup {Shell} -> [Fds -> Descs]]
      /\ cloexec \in [Procs \cup {Shell} -> SUBSET Fds]
      /\ proc \in [Procs -> ProcRecord]
  BY DEF Inv, Types, TypeOK
<1>8. /\ proc'[p] = c /\ fd'[p] = fd[Shell] /\ cloexec'[p] = cloexec[Shell]
      /\ fd'[Shell] = fd[Shell] /\ cloexec'[Shell] = cloexec[Shell]
      /\ \A q \in Procs \ {p} : proc'[q] = proc[q] /\ fd'[q] = fd[q] /\ cloexec'[q] = cloexec[q]
  BY <1>1, <1>4, <1>7
<1>9. \A q \in Procs \ {p} : Live(q)' <=> Live(q)
  BY <1>8 DEF Live
<1>10. /\ Live(p)' /\ proc'[p].cmd = k /\ proc'[p].last = l
       /\ proc'[p].hand = <<>> /\ proc'[p].pos = 0 /\ proc'[p].prog = pipe_line.progs[k]
  BY <1>6, <1>8 DEF Live
<1>11. IF k = 1 THEN In(p)'.kind # "pipe" ELSE In(p)' = End(Base + k - 1, "r")
  <2>1. In(p)' = IF k # 1 THEN fd[Shell][fds[2 * k - 3]] ELSE fd[Shell][0]
    BY <1>6, <1>8 DEF In
  <2>2. k # 1 => k - 1 \in 1 .. Commands - 1 /\ 2 * (k - 1) - 1 = 2 * k - 3
    BY <1>3, <1>4
  <2>3. k # 1 => fd[Shell][fds[2 * k - 3]] = End(Base + (k - 1), "r")
    BY <1>1, <2>2 DEF Wired, Ends
  <2>4. Base + (k - 1) = Base + k - 1
    BY <1>2, <1>4
  <2> QED BY <2>1, <2>3, <2>4 DEF Wired, Clear
<1>12. IF l THEN Out(p)'.kind # "pipe" ELSE Out(p)' = End(Base + k, "w")
  <2>1. Out(p)' = IF ~l THEN fd[Shell][fds[2 * k]] ELSE fd[Shell][1]
    BY <1>6, <1>8 DEF Out
  <2>2. ~l => k \in 1 .. Commands - 1
    BY <1>3, <1>4, <1>5
  <2>3. ~l => fd[Shell][fds[2 * k]] = End(Base + k, "w")
    BY <1>1, <2>2 DEF Wired, Ends
  <2> QED BY <2>1, <2>3 DEF Wired, Clear
<1>13. ~l => proc'[p].fds[2 * k] # 0
  <2> SUFFICES ASSUME ~l PROVE fds[2 * k] # 0
    BY <1>6, <1>8
  <2>1. 2 * k \in 1 .. Len(fds)
    BY <1>2, <1>3, <1>4, <1>5
  <2>2. fds[2 * k] \in Range(fds)
    BY <1>2, <2>1 DEF Range
  <2> QED BY <1>2, <2>2
<1>14. First' = First
  BY <1>1, <1>2 DEF First
<1>15. 0 \notin cloexec'[p] /\ 1 \notin cloexec'[p]
  BY <1>8 DEF Wired, Clear
<1>16. started \in Nat /\ curr_cmd \in Nat /\ Commands \in Nat /\ Base \in Nat
       /\ started' = p /\ pc = "fork" /\ UNCHANGED <<pc, pipe_line, fds, content>>
  BY <1>1, <1>2, <1>3
<1>17. (k = 1 => In(p)' = fd[Shell][0]) /\ (l => Out(p)' = fd[Shell][1])
  BY <1>6, <1>8 DEF In, Out
<1> HIDE <1>1, <1>2, <1>3, <1>6, <1>7
<1> QED BY <1>4, <1>8, <1>9, <1>10, <1>11, <1>12, <1>13, <1>14, <1>15, <1>16, <1>17

\* The one that was forked before writes to what the new one reads from; nobody reads
\* from either of its pipes yet.
LEMMA WiredFork ==
  ASSUME Inv, Wired, Fork
  PROVE  Wired'
<1>1. PICK p, k, l : p = started + 1 /\ k = curr_cmd + 1 /\ l = (k = Commands)
  OBVIOUS
<1>2. /\ p \in Procs /\ k \in 1 .. Commands /\ pc = "fork" /\ First' = First
      /\ started' = p /\ Live(p)' /\ started \in Nat /\ curr_cmd \in Nat
      /\ Commands \in Nat /\ Base \in Nat
  BY <1>1, Forked
<1>3. /\ IF k = 1 THEN In(p)'.kind # "pipe" ELSE In(p)' = End(Base + k - 1, "r")
      /\ IF l THEN Out(p)'.kind # "pipe" ELSE Out(p)' = End(Base + k, "w")
  BY <1>1, Forked
<1>4. /\ 0 \notin cloexec'[p] /\ 1 \notin cloexec'[p]
      /\ proc'[p].cmd = k /\ proc'[p].last = l
      /\ ~l => proc'[p].fds[2 * k] # 0
  BY <1>1, Forked
<1>5. /\ \A q \in Procs \ {p} :
           /\ Live(q)' <=> Live(q)
           /\ proc'[q] = proc[q] /\ fd'[q] = fd[q] /\ cloexec'[q] = cloexec[q]
      /\ fd'[Shell] = fd[Shell] /\ cloexec'[Shell] = cloexec[Shell]
      /\ UNCHANGED <<pc, pipe_line, fds, content>>
  BY <1>1, Forked
<1>6. \A q \in Procs \ {p} : In(q)' = In(q) /\ Out(q)' = Out(q)
  BY <1>5 DEF In, Out
<1>7. Base' = Base /\ Commands' = Commands /\ First = p - k
  BY <1>1, <1>2, <1>5 DEF Base, Commands, First
<1>8. (l <=> k = Commands) /\ (k = 1 <=> p = First + 1) /\ (l <=> p = First + Commands)
  <2>1. l <=> k = Commands
    BY <1>1, Zenon
  <2>2. p \in Nat /\ k \in Nat
    BY <1>2 DEF Procs
  <2> QED BY <1>2, <1>7, <2>1, <2>2
<1>9. Clear' /\ Ends'
  BY <1>5, <1>7 DEF Wired, Clear, Ends
<1>10. Ready'
  <2>1. /\ k # 1 => In(p)'.kind = "pipe"
        /\ ~l => Out(p)'.kind = "pipe"
    BY <1>3, EndValues
  <2> QED BY <1>4, <1>5, <1>6, <2>1 DEF Wired, Ready
<1>11. Numbered'
  <2> SUFFICES ASSUME NEW q \in Procs, Live(q)'
               PROVE  /\ q <= p
                      /\ q <= First =>
                           /\ In(q)'.kind = "pipe" => In(q)'.id <= Base
                           /\ Out(q)'.kind = "pipe" => Out(q)'.id <= Base
                      /\ q > First =>
                           /\ IF q = First + 1 THEN In(q)'.kind # "pipe"
                              ELSE In(q)' = End(Base + (q - First) - 1, "r")
                           /\ IF q = First + Commands THEN Out(q)'.kind # "pipe"
                              ELSE Out(q)' = End(Base + (q - First), "w")
    BY <1>2, <1>5, <1>7 DEF Numbered
  <2>1. CASE q = p
    <3>1. p - First = k /\ p > First /\ p \in Nat
      BY <1>2, <1>7 DEF Procs
    <3>2. p <= p /\ ~(p <= First)
      BY <1>2, <1>7, <3>1
    <3>3. IF p = First + 1 THEN In(p)'.kind # "pipe"
          ELSE In(p)' = End(Base + (p - First) - 1, "r")
      BY <1>3, <1>8, <3>1
    <3>4. IF p = First + Commands THEN Out(p)'.kind # "pipe"
          ELSE Out(p)' = End(Base + (p - First), "w")
      BY <1>3, <1>8, <3>1
    <3> QED BY <2>1, <3>2, <3>3, <3>4
  <2>2. CASE q # p
    <3>1. Live(q) /\ q <= started /\ In(q)' = In(q) /\ Out(q)' = Out(q)
      BY <1>5, <1>6, <2>2 DEF Wired, Numbered
    <3> QED BY <1>1, <1>2, <3>1 DEF Wired, Numbered, Procs
  <2> QED BY <2>1, <2>2
<1>12. ASSUME NEW q \in Procs, q # p, Live(q)
       PROVE  /\ In(q).kind = "pipe" => /\ In(q).id \in Nat /\ In(q).id < Base + k
                                        /\ k # 1 => In(q).id < Base + k - 1
              /\ k # 1 => (Out(q) = End(Base + k - 1, "w") <=> q + 1 = p)
  <2>1. q \in Nat /\ q <= started /\ p \in Nat /\ k \in Nat \ {0} /\ First = p - k /\ p = started + 1
    BY <1>1, <1>2, <1>7, <1>12 DEF Wired, Numbered, Procs
  <2>2. CASE q <= First
    <3>1. /\ In(q).kind = "pipe" => In(q).id <= Base
          /\ Out(q).kind = "pipe" => Out(q).id <= Base
      BY <1>2, <1>12, <2>2 DEF Wired, Numbered
    <3>2. In(q).kind = "pipe" => In(q).id \in Nat
      BY StreamsThere DEF Inv, Types
    <3>3. k # 1 => Out(q) # End(Base + k - 1, "w")
      BY <1>2, <2>1, <3>1, EndValues
    <3>4. k # 1 => q + 1 # p
      BY <2>1, <2>2
    <3> QED BY <1>2, <2>1, <3>1, <3>2, <3>3, <3>4
  <2>3. CASE q > First
    <3>1. /\ IF q = First + 1 THEN In(q).kind # "pipe" ELSE In(q) = End(Base + (q - First) - 1, "r")
          /\ IF q = First + Commands THEN Out(q).kind # "pipe"
                                     ELSE Out(q) = End(Base + (q - First), "w")
      BY <1>2, <1>12, <2>3 DEF Wired, Numbered
    <3>2. q # First + Commands
      BY <1>1, <1>2, <2>1
    <3>3. Out(q) = End(Base + k - 1, "w") <=> Base + (q - First) = Base + k - 1
      BY <3>1, <3>2, EndValues
    <3>4. Base + (q - First) = Base + k - 1 <=> q + 1 = p
      BY <1>1, <1>2, <2>1
    <3>5. In(q).kind = "pipe" => In(q).id = Base + (q - First) - 1 /\ q # First + 1
      BY <3>1, EndValues
    <3> QED BY <1>2, <2>1, <2>3, <3>3, <3>4, <3>5
  <2> QED BY <1>2, <2>1, <2>2, <2>3 DEF Procs
<1>13. Joined'
  <2> SUFFICES ASSUME NEW x \in Procs, NEW y \in Procs, Live(x)', Live(y)', In(y)'.kind = "pipe"
               PROVE  /\ Out(x)' = End(In(y)'.id, "w") <=> x + 1 = y
                      /\ In(x)' = In(y)' => x = y
    BY DEF Joined
  <2>1. p \in Nat /\ k \in Nat /\ x \in Nat /\ y \in Nat
    BY <1>2 DEF Procs
  <2>2. CASE x # p /\ y # p
    <3>1. Live(x) /\ Live(y) /\ In(x)' = In(x) /\ Out(x)' = Out(x) /\ In(y)' = In(y)
      BY <1>5, <1>6, <2>2
    <3> QED BY <3>1 DEF Wired, Joined
  <2>3. CASE x = p /\ y # p
    <3>1. Live(y) /\ In(y)' = In(y) /\ y <= started
      BY <1>5, <1>6, <2>3 DEF Wired, Numbered
    <3>2. In(y).id \in Nat /\ In(y).id < Base + k /\ (k # 1 => In(y).id < Base + k - 1)
      BY <1>12, <2>3, <3>1
    <3>3. Out(p)' # End(In(y).id, "w")
      BY <1>2, <1>3, <2>1, <3>2, EndValues
    <3>4. In(p)' # In(y)
      BY <1>2, <1>3, <2>1, <3>1, <3>2, EndValues
    <3>5. p + 1 # y
      BY <1>1, <1>2, <2>1, <3>1
    <3> QED BY <2>3, <3>1, <3>3, <3>4, <3>5
  <2>4. CASE x # p /\ y = p
    <3>1. Live(x) /\ In(x)' = In(x) /\ Out(x)' = Out(x)
      BY <1>5, <1>6, <2>4
    <3>2. k # 1 /\ In(p)' = End(Base + k - 1, "r")
      BY <1>3, <2>4
    <3>3. In(p)'.id = Base + k - 1 /\ In(p)'.kind = "pipe"
      BY <3>2, EndValues
    <3>4. Out(x) = End(Base + k - 1, "w") <=> x + 1 = p
      BY <1>12, <2>4, <3>1, <3>2
    <3>5. In(x) # In(p)'
      <4>1. In(x).kind = "pipe" => In(x).id < Base + k - 1 /\ In(x).id \in Nat
        BY <1>12, <2>4, <3>1, <3>2
      <4> QED BY <1>2, <2>1, <3>3, <4>1
    <3> QED BY <2>4, <3>1, <3>3, <3>4, <3>5
  <2>5. CASE x = p /\ y = p
    <3>1. k # 1 /\ In(p)'.id = Base + k - 1
      BY <1>3, <2>5, EndValues
    <3>2. Out(p)' # End(Base + k - 1, "w")
      BY <1>2, <1>3, <2>1, EndValues
    <3> QED BY <2>1, <2>5, <3>1, <3>2
  <2> QED BY <2>2, <2>3, <2>4, <2>5
<1> QED BY <1>9, <1>10, <1>11, <1>13 DEF Wired

-----------------------------------------------------------------------------
(* The processes.                                                          *)

\* A process p goes on with the streams it has, or ends.
LEMMA WiredProcess ==
  ASSUME Wired, NEW p \in Procs, UNCHANGED <<shell, fd[Shell], cloexec[Shell]>>,
         Len(content') = Len(content), proc'[p].state # "forked",
         Live(p)' => Live(p) /\ In(p)' = In(p) /\ Out(p)' = Out(p),
         \A q \in Procs \ {p} : proc'[q] = proc[q] /\ fd'[q] = fd[q] /\ cloexec'[q] = cloexec[q]
  PROVE  Wired'
<1>1. UNCHANGED <<pc, pipe_line, fds, curr_cmd, started>>
  BY DEF shell
<1>2. Clear'
  BY DEF Wired, Clear
<1>3. Ends'
  BY <1>1 DEF Wired, Ends, Base, Commands
<1>4. \A q \in Procs \ {p} : (Live(q)' <=> Live(q)) /\ In(q)' = In(q) /\ Out(q)' = Out(q)
  BY DEF Live, In, Out
<1>5. Ready'
  BY <1>4 DEF Wired, Ready
<1>6. Joined' /\ Numbered'
  BY <1>1, <1>4, JoinedStill
<1> QED BY <1>2, <1>3, <1>5, <1>6 DEF Wired

LEMMA WiredExit ==
  ASSUME Inv, Wired, NEW p \in Procs, Exit(p), UNCHANGED shell, Len(content') = Len(content)
  PROVE  Wired'
<1> DEFINE c == [NewProc EXCEPT !.state = "done"]
           t == [n \in Fds |-> Closed]
<1>1. /\ proc' = [proc EXCEPT ![p] = c] /\ fd' = [fd EXCEPT ![p] = t]
      /\ cloexec' = [cloexec EXCEPT ![p] = {}]
  BY DEF Exit
<1>2. c.state = "done"
  BY DEF NewProc
<1> HIDE DEF c, t
<1>3. /\ proc'[p] = c /\ UNCHANGED <<fd[Shell], cloexec[Shell]>>
      /\ \A q \in Procs \ {p} : proc'[q] = proc[q] /\ fd'[q] = fd[q] /\ cloexec'[q] = cloexec[q]
  BY <1>1 DEF Inv, Types, TypeOK, Shell, Procs
<1>4. ~Live(p)' /\ proc'[p].state # "forked"
  BY <1>2, <1>3 DEF Live
<1> QED BY <1>3, <1>4, WiredProcess

\* The two calls of dup2 do not get in each other's way, and execvp leaves their
\* results.
LEMMA Executed ==
  ASSUME Inv, Wired, NEW p \in Procs, Exec(p), proc[p].prog # "none"
  PROVE  /\ UNCHANGED <<fd[Shell], cloexec[Shell]>>
         /\ \A q \in Procs \ {p} :
              proc'[q] = proc[q] /\ fd'[q] = fd[q] /\ cloexec'[q] = cloexec[q]
         /\ proc'[p].state = "running" /\ Live(p) /\ Live(p)' /\ In(p)' = In(p) /\ Out(p)' = Out(p)
         /\ proc'[p].hand = proc[p].hand /\ proc'[p].pos = proc[p].pos
         /\ proc'[p].prog = proc[p].prog
<1> DEFINE own == fd[p]
           r == proc[p].fds[2 * proc[p].cmd - 3]
           w == proc[p].fds[2 * proc[p].cmd]
           i == IF proc[p].cmd # 1 THEN dup2(own, r, 0) ELSE own
           o == IF ~proc[p].last THEN dup2(i, w, 1) ELSE i
           t == [n \in Fds |-> IF n \in cloexec[p] THEN Closed ELSE o[n]]
           c == [proc[p] EXCEPT !.state = "running", !.fds = <<>>]
<1>1. proc[p].state = "forked" /\ UNCHANGED <<shell, content>>
  BY DEF Exec
<1>2. /\ proc' = [proc EXCEPT ![p].state = "running", ![p].fds = <<>>]
      /\ fd' = [fd EXCEPT ![p] = t] /\ cloexec' = [cloexec EXCEPT ![p] = {}]
  BY DEF Exec
<1>3. /\ proc[p] \in ProcRecord /\ proc \in [Procs -> ProcRecord]
      /\ own \in [Fds -> Descs]
      /\ fd \in [Procs \cup {Shell} -> [Fds -> Descs]]
      /\ cloexec \in [Procs \cup {Shell} -> SUBSET Fds]
      /\ Shell \notin Procs
  BY DEF Inv, Types, TypeOK, Shell, Procs
<1>4. proc' = [proc EXCEPT ![p] = c]
  BY <1>2, <1>3
<1>5. c.state = "running"
  BY <1>3 DEF ProcRecord
<1>6. /\ 0 \notin cloexec[p] /\ 1 \notin cloexec[p]
      /\ proc[p].cmd # 1 => In(p) = own[r] /\ own[r].kind = "pipe"
      /\ proc[p].cmd = 1 => In(p) = own[0]
      /\ ~proc[p].last => Out(p) = own[w] /\ own[w].kind = "pipe" /\ w # 0
      /\ proc[p].last => Out(p) = own[1]
  BY <1>1 DEF Wired, Ready, In, Out
<1>7. Closed.kind # "pipe"
  BY DEF Closed, Desc
<1> HIDE DEF c, own, r, w
<1>8. i \in [Fds -> Descs] /\ i[0] = In(p) /\ \A n \in Fds \ {0} : i[n] = own[n]
  <2>1. CASE proc[p].cmd = 1
    BY <1>3, <1>6, <2>1
  <2>2. CASE proc[p].cmd # 1
    <3>1. i = [own EXCEPT ![0] = own[r]] /\ own[r] = In(p)
      BY <1>6, <1>7, <2>2 DEF dup2
    <3>2. own[r] \in Descs
      BY <1>3, <3>1, StreamsThere DEF own
    <3> QED BY <1>3, <3>1, <3>2, FdsThere
  <2> QED BY <2>1, <2>2
<1> HIDE DEF i
<1>9. o[0] = In(p) /\ o[1] = Out(p)
  <2>1. CASE proc[p].last
    BY <1>6, <1>8, <2>1, FdsThere
  <2>2. CASE ~proc[p].last
    <3>1. w \in Fds
      <4>1. proc[p].fds \in Seq(Fds) /\ proc[p].cmd \in Nat
        BY <1>3 DEF ProcRecord
      <4>2. 2 * proc[p].cmd \in 1 .. Len(proc[p].fds)
        BY <1>1, <2>2, <4>1 DEF Inv, Places
      <4> QED BY <4>1, <4>2 DEF w
    <3>2. i[w] = Out(p) /\ i[w] # Closed
      BY <1>6, <1>7, <1>8, <2>2, <3>1
    <3>3. o = [i EXCEPT ![1] = Out(p)]
      BY <2>2, <3>2 DEF dup2
    <3> HIDE DEF o, t
    <3>4. 0 \in Fds /\ 1 \in Fds /\ DOMAIN i = Fds
      BY <1>8, FdsThere
    <3> QED BY <1>8, <3>3, <3>4
  <2> QED BY <2>1, <2>2
<1> HIDE DEF o
<1>10. t[0] = In(p) /\ t[1] = Out(p)
  BY <1>6, <1>9, FdsThere
<1> HIDE DEF t
<1>11. /\ proc'[p] = c /\ fd'[p] = t
       /\ UNCHANGED <<fd[Shell], cloexec[Shell]>>
       /\ \A q \in Procs \ {p} :
            proc'[q] = proc[q] /\ fd'[q] = fd[q] /\ cloexec'[q] = cloexec[q]
  BY <1>2, <1>3, <1>4
<1>12. proc'[p].state # "forked" /\ Live(p) /\ In(p)' = In(p) /\ Out(p)' = Out(p)
  <2>1. proc'[p].state = "running" /\ Live(p)
    BY <1>1, <1>5, <1>11 DEF Live
  <2>2. In(p)' = fd'[p][0] /\ Out(p)' = fd'[p][1]
    BY <2>1 DEF In, Out
  <2> QED BY <1>10, <1>11, <2>1, <2>2
<1>13. proc'[p].hand = proc[p].hand /\ proc'[p].pos = proc[p].pos /\ proc'[p].prog = proc[p].prog
  BY <1>3, <1>11 DEF c, ProcRecord
<1>14. Live(p)'
  BY <1>5, <1>11 DEF Live
<1> QED BY <1>5, <1>11, <1>12, <1>13, <1>14

LEMMA WiredExec ==
  ASSUME Inv, Wired, NEW p \in Procs, Exec(p)
  PROVE  Wired'
<1>1. UNCHANGED <<shell, content>>
  BY DEF Exec
<1>2. CASE proc[p].prog = "none"
  <2>1. Exit(p)
    BY <1>2 DEF Exec
  <2> QED BY <1>1, <2>1, WiredExit
<1>3. CASE proc[p].prog # "none"
  <2>1. /\ UNCHANGED <<fd[Shell], cloexec[Shell]>> /\ proc'[p].state # "forked"
        /\ Live(p)' => Live(p) /\ In(p)' = In(p) /\ Out(p)' = Out(p)
        /\ \A q \in Procs \ {p} :
             proc'[q] = proc[q] /\ fd'[q] = fd[q] /\ cloexec'[q] = cloexec[q]
    BY <1>3, Executed
  <2> QED BY <1>1, <2>1, WiredProcess
<1> QED BY <1>2, <1>3

\* A program that reads or writes keeps its descriptors, unless it ends.
LEMMA WiredProgram ==
  ASSUME Inv, Inv', Wired, NEW p \in Procs, Read(p) \/ Write(p)
  PROVE  Wired'
<1>1. /\ proc[p].state = "running" /\ UNCHANGED shell
      /\ \/ UNCHANGED content
         \/ \E x : content' = [content EXCEPT ![fd[p][0].id] = x]
         \/ \E x : content' = [content EXCEPT ![fd[p][1].id] = x]
      /\ \/ Exit(p)
         \/ /\ UNCHANGED <<fd, cloexec>>
            /\ \/ \E h : proc' = [proc EXCEPT ![p].hand = h]
               \/ \E h, n : proc' = [proc EXCEPT ![p].hand = h, ![p].pos = n]
  <2>1. CASE Read(p)
    BY <2>1 DEF Read
  <2>2. CASE Write(p)
    BY <2>2 DEF Write
  <2> QED BY <2>1, <2>2
<1>2. Len(content') = Len(content)
  <2>1. content \in Seq(Seq(Item)) /\ content' \in Seq(Seq(Item))
    BY DEF Inv, Types
  <2>2. DOMAIN content' = DOMAIN content
    BY <1>1
  <2> QED BY <2>1, <2>2
<1>3. CASE Exit(p)
  BY <1>1, <1>2, <1>3, WiredExit
<1>4. CASE /\ UNCHANGED <<fd, cloexec>>
           /\ \/ \E h : proc' = [proc EXCEPT ![p].hand = h]
              \/ \E h, n : proc' = [proc EXCEPT ![p].hand = h, ![p].pos = n]
  <2>1. proc[p] \in ProcRecord /\ proc \in [Procs -> ProcRecord]
    BY DEF Inv, Types
  <2>2. proc'[p].state = proc[p].state /\ \A q \in Procs \ {p} : proc'[q] = proc[q]
    <3>1. CASE \E h : proc' = [proc EXCEPT ![p].hand = h]
      BY <2>1, <3>1 DEF ProcRecord
    <3>2. CASE \E h, n : proc' = [proc EXCEPT ![p].hand = h, ![p].pos = n]
      BY <2>1, <3>2 DEF ProcRecord
    <3> QED BY <1>4, <3>1, <3>2
  <2>3. In(p)' = In(p) /\ Out(p)' = Out(p) /\ (Live(p)' <=> Live(p))
    BY <1>1, <1>4, <2>2 DEF In, Out, Live
  <2> QED BY <1>1, <1>2, <1>4, <2>2, <2>3, WiredProcess
<1> QED BY <1>1, <1>3, <1>4

-----------------------------------------------------------------------------
(* The theorem.                                                            *)

LEMMA WiredNext == Inv /\ Wired /\ [Next]_vars => Wired'
<1> SUFFICES ASSUME Inv, Wired, [Next]_vars PROVE Wired'
  OBVIOUS
<1>1. Inv'
  BY InvNext
<1>2. CASE Pipe
  BY <1>2, WiredPipe
<1>3. CASE Main
  BY <1>1, <1>3, WiredRedirect, WiredFork, WiredClose, WiredReset, WiredWait DEF Main
<1>4. ASSUME NEW p \in Procs, Process(p) PROVE Wired'
  BY <1>1, <1>4, WiredExec, WiredProgram DEF Process
<1>5. CASE UNCHANGED vars
  <2>1. UNCHANGED <<fd, cloexec, pc, pipe_line, fds, curr_cmd, started, proc, content>>
    BY <1>5 DEF vars, shell
  <2>2. Clear' /\ Ends'
    BY <2>1 DEF Wired, Clear, Ends, Base, Commands
  <2>3. Ready' /\ Joined' /\ Numbered'
    BY <2>1, ShellStep
  <2> QED BY <2>2, <2>3 DEF Wired
<1> QED BY <1>2, <1>3, <1>4, <1>5 DEF Next

\* A program that runs has no other descriptors than 0, 1 and 2.  What it reads from,
\* when that is a pipe, is what the program before it in the pipeline writes to, and
\* no other running program has either end of it: for pipelines of any length, any
\* number of them at a time, and programs that end or do not exist.
THEOREM StreamsAreRight == Spec => []StreamsRight
<1>1. Inv /\ Wired => StreamsRight
  <2> SUFFICES ASSUME Inv, Wired PROVE NeighboursShare
    BY DEF StreamsRight, Inv, Marked
  <2> SUFFICES ASSUME NEW p \in Procs, NEW q \in Procs, proc[p].state = "running",
                      proc[q].state = "running", fd[q][0].kind = "pipe"
               PROVE  /\ fd[p][1] = End(fd[q][0].id, "w") => p + 1 = q
                      /\ (p + 1 = q) => fd[p][1] = End(fd[q][0].id, "w")
                      /\ fd[p][0] = fd[q][0] => p = q
    BY DEF NeighboursShare
  <2>1. Live(p) /\ Live(q) /\ In(p) = fd[p][0] /\ In(q) = fd[q][0] /\ Out(p) = fd[p][1]
    BY DEF Live, In, Out
  <2> QED BY <2>1 DEF Wired, Joined
<1> QED BY <1>1, Invariance, InvNext, WiredInit, WiredNext, PTL DEF Spec

-----------------------------------------------------------------------------
(* What arrives in the output file.                                        *)

\* Two pipelines that write the file at a time mix what they write, as they would in
\* any shell; only one in the background lets another one start.
OneWriter == \A p \in Pipelines : p.bg => p.output # "out"

\* The pipelines whose whole input arrives.
Straight ==
  /\ pipe_line.output = "out" /\ pipe_line.input # "missing" /\ ~crossed
  /\ Range(pipe_line.progs) = {"copy"}

Kept == IF pipe_line.output = "out" /\ ~pipe_line.append THEN <<>> ELSE before

\* The input that process k of the pipeline has read, and that it has written.
Cursors == [1 .. Commands -> 0 .. Len(Items)]

Slice(i, j) == SubSeq(Items, i + 1, j)

\* What was written and not read is in the pipe; what was read and not written is in
\* the hand of the process.
Flows(r, w) ==
  /\ \A k \in 1 .. Commands : w[k] <= r[k]
  /\ \A k \in 1 .. Commands - 1 :
       r[k + 1] <= w[k] /\ content[Base + k] = Slice(r[k + 1], w[k])
  /\ \A k \in curr_cmd + 1 .. Commands : r[k] = 0
  /\ \A k \in 1 .. curr_cmd : Live(First + k) =>
       /\ proc[First + k].hand = Slice(w[k], r[k])
       /\ k = 1 => proc[First + k].pos = r[k]

\* n items have come into the file.
Comes(w, n) ==
  /\ pc # "redirect" => out = Kept \o Slice(0, n)
  /\ curr_cmd < Commands => n = 0
  /\ (/\ 0 < curr_cmd /\ curr_cmd = Commands
      /\ Live(First + Commands) /\ Out(First + Commands).kind = "out") => n = w[Commands]

\* A program that copies ends when it has read and written everything.
Whole(r, w, n) ==
  (pc # "redirect" /\ Straight) =>
    /\ n = w[Commands]
    /\ \A k \in 1 .. curr_cmd : /\ Live(First + k) => proc[First + k].prog = "copy"
                                /\ ~Live(First + k) => r[k] = Len(Items) /\ w[k] = Len(Items)

Flow == \E r, w \in Cursors, n \in 0 .. Len(Items) :
          Flows(r, w) /\ Comes(w, n) /\ Whole(r, w, n)

\* Where the shell is with the processes of its pipeline.
Counted ==
  /\ First >= 0
  /\ pc \notin {"redirect", "fork"} => curr_cmd = Commands
  /\ out \in Seq(Item) /\ before \in Seq(Item)
  /\ pc = "prompt" /\ ~pipe_line.bg => \A k \in 1 .. Commands : ~Live(First + k)

ToFile   == File("out", "w")
Input(d) == d.kind \in {"tty", "in"} /\ Readable(d)

\* Who has the file, and that the first program of a straight pipeline has its input
\* and the last one its output.
Files ==
  /\ pc \notin {"fork", "reset"} /\ ~crossed => Readable(fd[Shell][0])
  /\ pc = "fork" =>
       /\ \A n \in {0, 1} : fd[Shell][n].kind = "out" => pipe_line.output = "out"
       /\ Straight => Input(fd[Shell][0]) /\ fd[Shell][1] = ToFile
  /\ \A p \in Procs : Live(p) /\ Out(p).kind = "out" =>
       pc \in {"fork", "reset", "wait"} /\ p > First /\ pipe_line.output = "out"
  /\ pc # "redirect" /\ Straight =>
       /\ curr_cmd > 0 /\ Live(First + 1) => Input(In(First + 1))
       /\ curr_cmd = Commands /\ Live(First + Commands) => Out(First + Commands) = ToFile

Arriving == Counted /\ Files /\ Flow

LEMMA Slices ==
  /\ \A i \in Nat : Slice(i, i) = <<>>
  /\ \A i, j \in 0 .. Len(Items) : i <= j =>
       /\ Slice(i, j) \in Seq(Item) /\ Len(Slice(i, j)) = j - i
       /\ i < j => /\ Slice(i, j) # <<>> /\ Tail(Slice(i, j)) = Slice(i + 1, j)
                   /\ Slice(i, i + 1) = <<Head(Slice(i, j))>>
                   /\ Slice(i, i + 1) = <<Items[i + 1]>>
       /\ \A l \in j .. Len(Items) : Slice(i, j) \o Slice(j, l) = Slice(i, l)
  /\ Slice(0, Len(Items)) = Items
<1>1. Items \in Seq(Item) /\ Len(Items) \in Nat
  BY ItemAssumption DEF Item
<1>2. \A i \in Nat : Slice(i, i) = <<>>
  BY SubSeqEmpty DEF Slice
<1>3. ASSUME NEW i \in 0 .. Len(Items), NEW j \in i .. Len(Items)
      PROVE  /\ Slice(i, j) \in Seq(Item) /\ Len(Slice(i, j)) = j - i
             /\ \A x \in 1 .. j - i : Slice(i, j)[x] = Items[i + x]
  <2>1. /\ i + 1 \in Int /\ j \in Int
        /\ \A x \in i + 1 .. j : Items[x] \in Item
    BY <1>1
  <2>2. /\ Slice(i, j) \in Seq(Item)
        /\ Len(Slice(i, j)) = IF i + 1 <= j THEN j - (i + 1) + 1 ELSE 0
        /\ \A x \in 1 .. j - (i + 1) + 1 : Slice(i, j)[x] = Items[i + 1 + x - 1]
    BY <2>1, SubSeqProperties DEF Slice
  <2>3. \A x \in 1 .. j - i : x \in 1 .. j - (i + 1) + 1 /\ i + 1 + x - 1 = i + x
    BY <1>1
  <2>4. (IF i + 1 <= j THEN j - (i + 1) + 1 ELSE 0) = j - i
    BY <1>1
  <2>5. \A x \in 1 .. j - i : Slice(i, j)[x] = Items[i + x]
    BY <2>2, <2>3
  <2> QED BY <2>2, <2>4, <2>5
<1>4. ASSUME NEW i \in 0 .. Len(Items), NEW j \in 0 .. Len(Items), i < j
      PROVE  /\ Slice(i, j) # <<>> /\ Tail(Slice(i, j)) = Slice(i + 1, j)
             /\ Slice(i, i + 1) = <<Head(Slice(i, j))>> /\ Slice(i, i + 1) = <<Items[i + 1]>>
  <2>1. i + 1 \in 1 .. Len(Items) /\ j \in i + 1 .. Len(Items) /\ i + 1 \in 0 .. Len(Items)
    BY <1>1, <1>4
  <2>2. Head(Slice(i, j)) = Items[i + 1] /\ Tail(Slice(i, j)) = Slice(i + 1, j)
    BY <1>1, <2>1, HeadTailOfSubSeq DEF Slice
  <2>3. Len(Slice(i, j)) = j - i /\ j - i # 0
    BY <1>1, <1>3, <1>4, <2>1
  <2>4. Slice(i, i + 1) \in Seq(Item) /\ Len(Slice(i, i + 1)) = 1
        /\ Slice(i, i + 1)[1] = Items[i + 1]
    <3>1. i + 1 \in i .. Len(Items) /\ (i + 1) - i = 1 /\ 1 \in 1 .. (i + 1) - i
      BY <2>1
    <3> QED BY <1>3, <3>1
  <2>5. Slice(i, i + 1) = <<Items[i + 1]>>
    <3> DEFINE s == Slice(i, i + 1)
    <3> HIDE DEF s
    <3>1. s \in Seq(Item) /\ Len(s) = 1 /\ s[1] = Items[i + 1]
      BY <2>4 DEF s
    <3>2. s = <<Items[i + 1]>>
      BY <3>1
    <3> QED BY <3>2 DEF s
  <2> QED BY <2>2, <2>3, <2>5
<1>5. ASSUME NEW i \in 0 .. Len(Items), NEW j \in i .. Len(Items), NEW l \in j .. Len(Items)
      PROVE  Slice(i, j) \o Slice(j, l) = Slice(i, l)
  <2> DEFINE a == Slice(i, j)
             b == Slice(j, l)
             c == Slice(i, l)
  <2>1. /\ a \in Seq(Item) /\ Len(a) = j - i /\ \A x \in 1 .. j - i : a[x] = Items[i + x]
        /\ b \in Seq(Item) /\ Len(b) = l - j /\ \A x \in 1 .. l - j : b[x] = Items[j + x]
        /\ c \in Seq(Item) /\ Len(c) = l - i /\ \A x \in 1 .. l - i : c[x] = Items[i + x]
    <3>1. j \in 0 .. Len(Items) /\ l \in i .. Len(Items)
      BY <1>1
    <3> QED BY <1>3, <3>1
  <2> HIDE DEF a, b, c
  <2>2. /\ a \o b \in Seq(Item) /\ Len(a \o b) = Len(a) + Len(b)
        /\ \A x \in 1 .. Len(a) + Len(b) :
             (a \o b)[x] = IF x <= Len(a) THEN a[x] ELSE b[x - Len(a)]
    <3>1. a \in Seq(Item) /\ b \in Seq(Item)
      BY <2>1
    <3> QED BY <3>1, ConcatProperties
  <2>3. i \in Nat /\ j \in Nat /\ l \in Nat /\ i <= j /\ j <= l /\ Len(a) + Len(b) = l - i
    BY <1>1, <2>1
  <2>4. \A x \in 1 .. l - i : (a \o b)[x] = c[x]
    <3> TAKE x \in 1 .. l - i
    <3>1. (a \o b)[x] = IF x <= j - i THEN a[x] ELSE b[x - (j - i)]
      BY <2>1, <2>2, <2>3
    <3>2. CASE x <= j - i
      BY <2>1, <2>3, <3>1, <3>2
    <3>3. CASE x > j - i
      <4>1. x - (j - i) \in 1 .. l - j /\ j + (x - (j - i)) = i + x
        BY <2>3, <3>3
      <4>2. b[x - (j - i)] = Items[i + x]
        BY <2>1, <4>1
      <4> QED BY <2>1, <2>3, <3>1, <3>3, <4>2
    <3> QED BY <2>3, <3>2, <3>3
  <2>5. a \o b = c
    <3> DEFINE d == a \o b
    <3>1. d \in Seq(Item) /\ Len(d) = l - i /\ \A x \in 1 .. l - i : d[x] = c[x]
      BY <2>2, <2>3, <2>4
    <3> HIDE DEF d
    <3>2. Len(c) = l - i
      BY <2>1
    <3>3. d = c
      BY <2>1, <3>1, <3>2, SeqEqual
    <3> QED BY <3>3 DEF d
  <2> QED BY <2>5 DEF a, b, c
<1>6. Slice(0, Len(Items)) = Items
  BY <1>1, SubSeqFull DEF Slice
<1>7. \A i, j \in 0 .. Len(Items) : i <= j => j \in i .. Len(Items)
  BY <1>1
<1> HIDE DEF Slice
<1> QED BY <1>2, <1>3, <1>4, <1>5, <1>6, <1>7

LEMMA SliceJoin ==
  ASSUME NEW i \in 0 .. Len(Items), NEW j \in 0 .. Len(Items), NEW l \in 0 .. Len(Items),
         i <= j, j <= l
  PROVE  Slice(i, j) \o Slice(j, l) = Slice(i, l)
<1>1. l \in j .. Len(Items)
  BY ItemAssumption
<1> QED BY <1>1, Slices

LEMMA SliceNext ==
  ASSUME NEW i \in 0 .. Len(Items), i < Len(Items)
  PROVE  Slice(i, i + 1) = <<Items[i + 1]>>
<1>1. Len(Items) \in 0 .. Len(Items)
  BY ItemAssumption
<1>2. i <= Len(Items)
  OBVIOUS
<1> QED BY <1>1, <1>2, Slices

LEMMA SliceEmpty ==
  ASSUME NEW i \in 0 .. Len(Items), NEW j \in 0 .. Len(Items), i <= j
  PROVE  Slice(i, j) = <<>> <=> i = j
<1>1. i \in Nat /\ j \in Nat
  BY ItemAssumption
<1>2. i = j => Slice(i, j) = <<>>
  BY <1>1, Slices
<1>3. i < j => Slice(i, j) # <<>>
  BY Slices
<1> QED BY <1>1, <1>2, <1>3

LEMMA Numbers ==
  ASSUME Inv, Counted
  PROVE  /\ pipe_line.progs \in Seq(Program) /\ Commands \in Nat /\ Len(content) \in Nat
         /\ curr_cmd \in 0 .. Commands /\ started \in Nat /\ First \in Nat /\ Base \in Int
         /\ First + curr_cmd = started /\ Len(Items) \in Nat
         /\ \A k \in 1 .. curr_cmd : First + k \in Procs
<1>1. pipe_line.progs \in Seq(Program)
  <2>1. CASE pipe_line \in Pipelines
    BY <2>1, PipelineAssumption DEF Pipeline
  <2>2. CASE pipe_line = NoPipeline
    <3>1. pipe_line.progs = <<>>
      BY <2>2 DEF NoPipeline
    <3> QED BY <3>1
  <2> QED BY <2>1, <2>2 DEF Inv, Types
<1>2. /\ curr_cmd \in 0 .. Commands /\ started \in 0 .. MaxProcs /\ Len(content) \in Nat
      /\ Commands \in Nat /\ MaxProcs \in Nat /\ Len(Items) \in Nat
  BY <1>1, BoundAssumption, ItemAssumption DEF Inv, Types, TypeOK, Commands
<1> QED BY <1>1, <1>2 DEF Counted, First, Base, Procs

\* A process is one of this pipeline or of one before.
LEMMA Members ==
  ASSUME Inv, Wired, Counted, NEW p \in Procs, Live(p)
  PROVE  \/ p <= First
         \/ \E k \in 1 .. curr_cmd : p = First + k
<1>1. p \in Nat /\ p <= started
  BY BoundAssumption DEF Wired, Numbered, Procs
<1> SUFFICES ASSUME p > First PROVE p - First \in 1 .. curr_cmd /\ p = First + (p - First)
  BY <1>1, Numbers
<1> QED BY <1>1, Numbers

LEMMA Neighbours ==
  ASSUME Inv, Wired, Counted, NEW k \in 1 .. curr_cmd, Live(First + k)
  PROVE  /\ IF k = 1 THEN In(First + k).kind # "pipe" ELSE In(First + k) = End(Base + k - 1, "r")
         /\ IF k = Commands THEN Out(First + k).kind # "pipe"
                            ELSE Out(First + k) = End(Base + k, "w")
<1>1. First + k \in Procs /\ First + k > First /\ (First + k) - First = k /\ k \in Nat
      /\ (First + k = First + 1 <=> k = 1) /\ (First + k = First + Commands <=> k = Commands)
  BY Numbers
<1> QED BY <1>1 DEF Wired, Numbered

-----------------------------------------------------------------------------
(* The steps that carry nothing.                                           *)

Carried(r, w, n) == Flows(r, w) /\ Comes(w, n) /\ Whole(r, w, n)

\* A process goes on as it is.
Same(q) ==
  /\ Live(q)' => Live(q) /\ In(q)' = In(q) /\ Out(q)' = Out(q)
  /\ Live(q)' => proc'[q].hand = proc[q].hand /\ proc'[q].pos = proc[q].pos
                 /\ proc'[q].prog = proc[q].prog

Still(q) == Same(q) /\ (Live(q) => Live(q)')

\* Before the first process the cursors are at the start.
Starting ==
  /\ Inv /\ Counted /\ curr_cmd = 0
  /\ \A k \in 1 .. Commands - 1 : content[Base + k] = <<>>
  /\ pc # "redirect" => out = Kept

LEMMA Start == Starting => Flow
<1> SUFFICES ASSUME Starting PROVE Flow
  OBVIOUS
<1> DEFINE x == [k \in 1 .. Commands |-> 0]
<1>1. Len(Items) \in Nat /\ Commands \in Nat /\ pipe_line.progs \in Seq(Program)
  BY Numbers DEF Starting
<1>2. x \in Cursors /\ 0 \in 0 .. Len(Items) /\ \A k \in 1 .. Commands : x[k] = 0
  BY <1>1 DEF Cursors
<1> HIDE DEF x
<1>3. Slice(0, 0) = <<>>
  BY Slices
<1>4. Flows(x, x)
  <2>1. \A k \in 1 .. Commands - 1 : k \in 1 .. Commands /\ k + 1 \in 1 .. Commands
    BY <1>1
  <2> QED BY <1>1, <1>2, <1>3, <2>1 DEF Flows, Starting
<1>5. Comes(x, 0)
  <2>1. Kept \in Seq(Item)
    BY DEF Kept, Starting, Counted
  <2>2. Kept \o Slice(0, 0) = Kept
    BY <1>3, <2>1, ConcatEmptySeq
  <2> QED BY <2>2 DEF Comes, Starting
<1>6. Whole(x, x, 0)
  <2>1. Straight => Commands # 0
    BY <1>1 DEF Straight, Commands, Range
  <2> QED BY <1>1, <1>2, <2>1 DEF Whole, Starting
<1> QED BY <1>2, <1>4, <1>5, <1>6 DEF Flow

\* The processes go on, and one that ends has carried everything where that matters.
LEMMA FlowSame ==
  ASSUME Inv, Counted, UNCHANGED <<pipe_line, curr_cmd, started, content, out, before, crossed>>,
         pc' # "redirect" => pc # "redirect",
         NEW r \in Cursors, NEW w \in Cursors, NEW n \in 0 .. Len(Items),
         Carried(r, w, n), \A q \in Procs : Same(q),
         Straight => \A k \in 1 .. curr_cmd :
           Live(First + k) /\ ~Live(First + k)' => r[k] = Len(Items) /\ w[k] = Len(Items)
  PROVE  Flow'
<1>1. /\ First' = First /\ Base' = Base /\ Commands' = Commands /\ Kept' = Kept
      /\ (Straight' <=> Straight) /\ Cursors' = Cursors
  BY DEF First, Base, Commands, Kept, Straight, Cursors
<1>2. \A k \in 1 .. curr_cmd : First + k \in Procs
  BY Numbers
<1>3. Flows(r, w)'
  BY <1>1, <1>2 DEF Flows, Carried, Same
<1>4. Comes(w, n)'
  <2>1. 0 < curr_cmd /\ curr_cmd = Commands => First + Commands \in Procs
    BY <1>2, Numbers
  <2> QED BY <1>1, <2>1 DEF Comes, Carried, Same
<1>5. Whole(r, w, n)'
  BY <1>1, <1>2 DEF Whole, Carried, Same
<1> QED BY <1>1, <1>3, <1>4, <1>5 DEF Flow

\* A process of a pipeline before does nothing to this one.
LEMMA FlowOther ==
  ASSUME Inv, Inv', Counted, Files, UNCHANGED <<shell, history, out>>,
         NEW r \in Cursors, NEW w \in Cursors, NEW n \in 0 .. Len(Items),
         Carried(r, w, n), NEW p \in Procs, p <= First, \A q \in Procs \ {p} : Still(q),
         \A k \in 1 .. Commands - 1 : content'[Base + k] = content[Base + k],
         Len(content') = Len(content)
  PROVE  Flow'
<1>1. UNCHANGED <<pc, pipe_line, curr_cmd, started, before, crossed>>
  BY DEF shell, history
<1>2. /\ First' = First /\ Base' = Base /\ Commands' = Commands /\ Kept' = Kept
      /\ (Straight' <=> Straight) /\ Cursors' = Cursors
  BY <1>1 DEF First, Base, Commands, Kept, Straight, Cursors
<1>3. \A k \in 1 .. curr_cmd : First + k \in Procs \ {p}
  BY Numbers DEF Procs
<1>4. Flows(r, w)'
  BY <1>1, <1>2, <1>3 DEF Flows, Carried, Same, Still
<1>5. Comes(w, n)'
  <2>1. 0 < curr_cmd /\ curr_cmd = Commands => First + Commands \in Procs \ {p}
    BY <1>3, Numbers
  <2> QED BY <1>1, <1>2, <2>1 DEF Comes, Carried, Same, Still
<1>6. Whole(r, w, n)'
  BY <1>1, <1>2, <1>3 DEF Whole, Carried, Same, Still
<1> QED BY <1>2, <1>4, <1>5, <1>6 DEF Flow

-----------------------------------------------------------------------------
(* Reading and writing.                                                    *)

\* Process k reads one more item.
Reads(f, r, w, k) ==
  LET p == f + k
  IN  /\ UNCHANGED <<shell, history, out>>
      /\ Live(p) /\ Live(p)' /\ In(p)' = In(p) /\ Out(p)' = Out(p)
      /\ proc'[p].prog = proc[p].prog /\ \A q \in Procs \ {p} : Still(q)
      /\ w[k] = r[k] /\ r[k] < Len(Items) /\ proc'[p].hand = Slice(r[k], r[k] + 1)
      /\ Len(content') = Len(content)
      /\ k = 1 => proc'[p].pos = r[k] + 1
      /\ k # 1 => r[k] < w[k - 1] /\ content'[Base + (k - 1)] = Slice(r[k] + 1, w[k - 1])
      /\ \A j \in 1 .. Commands - 1 : j # k - 1 => content'[Base + j] = content[Base + j]

LEMMA FlowRead ==
  ASSUME Inv, Counted, NEW r \in Cursors, NEW w \in Cursors, NEW n \in 0 .. Len(Items),
         Carried(r, w, n), NEW k \in 1 .. curr_cmd, NEW f, f = First,
         Reads(f, r, w, k)
  PROVE  Flow'
<1> DEFINE r2 == [r EXCEPT ![k] = r[k] + 1]
<1>1. /\ UNCHANGED <<pc, pipe_line, curr_cmd, started, before, crossed>>
      /\ Len(content') = Len(content)
  BY DEF shell, history, Reads
<1>2. /\ First = f /\ First' = f /\ Base' = Base /\ Commands' = Commands /\ Kept' = Kept
      /\ (Straight' <=> Straight) /\ Cursors' = Cursors
  BY <1>1 DEF First, Base, Commands, Kept, Straight, Cursors
<1>3. /\ Commands \in Nat /\ curr_cmd \in 0 .. Commands /\ Len(Items) \in Nat /\ Base \in Int
      /\ f \in Nat /\ \A j \in 1 .. curr_cmd : f + j \in Procs
  BY Numbers
<1>4. /\ k \in 1 .. Commands
      /\ \A j \in 1 .. Commands : r[j] \in 0 .. Len(Items) /\ w[j] \in 0 .. Len(Items)
  BY <1>3 DEF Cursors
<1>5. r2 \in Cursors /\ r2[k] = r[k] + 1 /\ \A j \in 1 .. Commands : j # k => r2[j] = r[j]
  BY <1>3, <1>4 DEF Cursors, Reads
<1> HIDE DEF r2
<1>6. \A j \in 1 .. curr_cmd : j # k => f + j \in Procs \ {f + k}
  BY <1>3
<1>7. Flows(r2, w)'
  <2>1. \A j \in 1 .. Commands : w[j] <= r2[j]
    BY <1>4, <1>5 DEF Carried, Flows
  <2>2. ASSUME NEW j \in 1 .. Commands - 1
        PROVE  r2[j + 1] <= w[j] /\ content'[Base + j] = Slice(r2[j + 1], w[j])
    <3>1. r[j + 1] <= w[j] /\ content[Base + j] = Slice(r[j + 1], w[j]) /\ j \in 1 .. Commands
          /\ j + 1 \in 1 .. Commands
      BY <1>3 DEF Carried, Flows
    <3>2. CASE j + 1 = k
      <4>1. j = k - 1 /\ k # 1
        BY <1>3, <1>4, <3>2
      <4>2. content'[Base + j] = Slice(r[k] + 1, w[k - 1]) /\ r[k] < w[k - 1]
        BY <4>1 DEF Reads
      <4> QED BY <1>4, <1>5, <3>1, <3>2, <4>1, <4>2
    <3>3. CASE j + 1 # k
      <4>1. content'[Base + j] = content[Base + j]
        <5>1. j # k - 1
          BY <1>3, <1>4, <3>3
        <5> QED BY <5>1 DEF Reads
      <4> QED BY <1>5, <3>1, <3>3, <4>1
    <3> QED BY <3>2, <3>3
  <2>3. \A j \in curr_cmd + 1 .. Commands : r2[j] = 0
    <3>1. \A j \in curr_cmd + 1 .. Commands : r[j] = 0
      BY DEF Carried, Flows
    <3>2. \A j \in curr_cmd + 1 .. Commands : j # k /\ j \in 1 .. Commands
      BY <1>3
    <3> QED BY <1>5, <3>1, <3>2
  <2>4. ASSUME NEW j \in 1 .. curr_cmd, Live(f + j)'
        PROVE  /\ proc'[f + j].hand = Slice(w[j], r2[j])
               /\ j = 1 => proc'[f + j].pos = r2[j]
    <3>1. CASE j = k
      BY <1>4, <1>5, <3>1 DEF Reads
    <3>2. CASE j # k
      BY <1>3, <1>5, <1>6, <2>4, <3>2 DEF Carried, Flows, Still, Same, Reads
    <3> QED BY <3>1, <3>2
  <2> QED BY <1>1, <1>2, <2>1, <2>2, <2>3, <2>4 DEF Flows
<1>8. Comes(w, n)'
  <2>1. 0 < curr_cmd /\ curr_cmd = Commands /\ Commands # k => f + Commands \in Procs \ {f + k}
    BY <1>3, <1>6
  <2>2. (f + Commands = f + k) <=> Commands = k
    BY <1>3, <1>4
  <2> QED BY <1>1, <1>2, <2>1, <2>2 DEF Comes, Carried, Still, Same, Reads
<1>9. Whole(r2, w, n)'
  <2>1. ASSUME pc # "redirect", Straight, NEW j \in 1 .. curr_cmd
        PROVE  /\ Live(f + j)' => proc'[f + j].prog = "copy"
               /\ ~Live(f + j)' => r2[j] = Len(Items) /\ w[j] = Len(Items)
    <3>1. CASE j = k
      BY <2>1, <3>1 DEF Whole, Carried, Reads
    <3>2. CASE j # k
      <4>1. Still(f + j)
        BY <1>6, <3>2 DEF Reads
      <4>2. j \in 1 .. Commands
        BY <1>3
      <4> QED BY <1>5, <2>1, <3>2, <4>1, <4>2 DEF Carried, Whole, Still, Same
    <3> QED BY <3>1, <3>2
  <2> QED BY <1>1, <1>2, <2>1 DEF Whole, Carried
<1> QED BY <1>2, <1>5, <1>7, <1>8, <1>9 DEF Flow

\* Process k writes what it has.
Writes(f, r, k) ==
  LET p == f + k
  IN  /\ UNCHANGED <<shell, history>> /\ pc # "redirect"
      /\ Live(p) /\ \A q \in Procs \ {p} : Still(q)
      /\ Live(p)' => /\ In(p)' = In(p) /\ Out(p)' = Out(p)
                     /\ proc'[p].hand = <<>> /\ proc'[p].pos = proc[p].pos
                     /\ proc'[p].prog = proc[p].prog
      /\ Straight => Live(p)' /\ (k = Commands => Out(p).kind = "out")
      /\ Len(content') = Len(content)
      /\ k # Commands => content'[Base + k] = Slice(r[k + 1], r[k]) /\ Out(p).kind # "out"
      /\ \A j \in 1 .. Commands - 1 : j # k => content'[Base + j] = content[Base + j]
      /\ Out(p).kind = "out" => out' = Kept \o Slice(0, r[k])
      /\ Out(p).kind # "out" => out' = out

LEMMA FlowWrite ==
  ASSUME Inv, Counted, NEW r \in Cursors, NEW w \in Cursors, NEW n \in 0 .. Len(Items),
         Carried(r, w, n), NEW k \in 1 .. curr_cmd, NEW f, f = First,
         Writes(f, r, k)
  PROVE  Flow'
<1> DEFINE w2 == [w EXCEPT ![k] = r[k]]
<1>1. /\ UNCHANGED <<pc, pipe_line, curr_cmd, started, before, crossed>>
      /\ Len(content') = Len(content)
  BY DEF shell, history, Writes
<1>2. /\ First = f /\ First' = f /\ Base' = Base /\ Commands' = Commands /\ Kept' = Kept
      /\ (Straight' <=> Straight) /\ Cursors' = Cursors
  BY <1>1 DEF First, Base, Commands, Kept, Straight, Cursors
<1>3. /\ Commands \in Nat /\ curr_cmd \in 0 .. Commands /\ Len(Items) \in Nat /\ Base \in Int
      /\ f \in Nat /\ \A j \in 1 .. curr_cmd : f + j \in Procs
  BY Numbers
<1>4. /\ k \in 1 .. Commands
      /\ \A j \in 1 .. Commands : r[j] \in 0 .. Len(Items) /\ w[j] \in 0 .. Len(Items)
  BY <1>3 DEF Cursors
<1>5. w2 \in Cursors /\ w2[k] = r[k] /\ \A j \in 1 .. Commands : j # k => w2[j] = w[j]
  BY <1>3, <1>4 DEF Cursors
<1>6. PICK n2 \in 0 .. Len(Items) : /\ Out(f + k).kind = "out" => n2 = r[k] /\ k = Commands
                                    /\ Out(f + k).kind # "out" => n2 = n
  BY <1>4 DEF Writes
<1> HIDE DEF w2
<1>7. \A j \in 1 .. curr_cmd : j # k => f + j \in Procs \ {f + k}
  BY <1>3
<1>8. Flows(r, w2)'
  <2>1. \A j \in 1 .. Commands : w2[j] <= r[j]
    BY <1>4, <1>5 DEF Carried, Flows
  <2>2. ASSUME NEW j \in 1 .. Commands - 1
        PROVE  r[j + 1] <= w2[j] /\ content'[Base + j] = Slice(r[j + 1], w2[j])
    <3>1. r[j + 1] <= w[j] /\ content[Base + j] = Slice(r[j + 1], w[j]) /\ j \in 1 .. Commands
          /\ j + 1 \in 1 .. Commands /\ w[j] <= r[j]
      BY <1>3 DEF Carried, Flows
    <3>2. CASE j = k
      <4>1. k # Commands
        BY <1>3, <3>2
      <4> QED BY <1>4, <1>5, <3>1, <3>2, <4>1 DEF Writes
    <3>3. CASE j # k
      BY <1>5, <3>1, <3>3 DEF Writes
    <3> QED BY <3>2, <3>3
  <2>3. \A j \in curr_cmd + 1 .. Commands : r[j] = 0
    BY DEF Carried, Flows
  <2>4. ASSUME NEW j \in 1 .. curr_cmd, Live(f + j)'
        PROVE  /\ proc'[f + j].hand = Slice(w2[j], r[j])
               /\ j = 1 => proc'[f + j].pos = r[j]
    <3>1. CASE j = k
      <4>1. Slice(r[k], r[k]) = <<>>
        <5>1. r[k] \in Nat
          BY <1>3, <1>4
        <5> QED BY <5>1, Slices
      <4> QED BY <1>5, <2>4, <3>1, <4>1 DEF Carried, Flows, Writes
    <3>2. CASE j # k
      <4>1. Still(f + j)
        BY <1>7, <3>2 DEF Writes
      <4>2. j \in 1 .. Commands
        BY <1>3
      <4> QED BY <1>5, <2>4, <3>2, <4>1, <4>2 DEF Carried, Flows, Still, Same
    <3> QED BY <3>1, <3>2
  <2> QED BY <1>1, <1>2, <2>1, <2>2, <2>3, <2>4 DEF Flows
<1>9. Comes(w2, n2)'
  <2>1. 0 < curr_cmd /\ curr_cmd = Commands /\ Commands # k => f + Commands \in Procs \ {f + k}
    BY <1>3, <1>7
  <2>2. (f + Commands = f + k) <=> Commands = k
    BY <1>3, <1>4
  <2>3. out' = Kept \o Slice(0, n2)
    BY <1>6 DEF Comes, Carried, Writes
  <2>4. curr_cmd < Commands => n2 = 0
    BY <1>3, <1>6 DEF Comes, Carried
  <2>5. (/\ 0 < curr_cmd /\ curr_cmd = Commands
         /\ Live(f + Commands)' /\ Out(f + Commands)'.kind = "out") => n2 = w2[Commands]
    <3>1. CASE Commands = k
      <4>1. Live(f + k)' => Out(f + k)' = Out(f + k)
        BY DEF Writes
      <4> QED BY <1>2, <1>5, <1>6, <3>1, <4>1
    <3>2. CASE Commands # k
      <4>1. 0 < curr_cmd /\ curr_cmd = Commands => Still(f + Commands) /\ Commands \in 1 .. Commands
        BY <1>3, <2>1, <3>2 DEF Writes
      <4>2. n2 = n
        BY <1>6, <3>2 DEF Writes
      <4> QED BY <1>5, <3>2, <4>1, <4>2 DEF Comes, Carried, Still, Same
    <3> QED BY <3>1, <3>2
  <2> QED BY <1>1, <1>2, <2>3, <2>4, <2>5 DEF Comes
<1>10. Whole(r, w2, n2)'
  <2> SUFFICES ASSUME Straight
               PROVE  /\ n2 = w2[Commands]
                      /\ \A j \in 1 .. curr_cmd :
                           /\ Live(f + j)' => proc'[f + j].prog = "copy"
                           /\ ~Live(f + j)' => r[j] = Len(Items) /\ w2[j] = Len(Items)
    BY <1>1, <1>2 DEF Whole
  <2>1. n2 = w2[Commands]
    <3>1. n = w[Commands]
      BY DEF Whole, Carried, Writes
    <3>2. k = Commands => Out(f + k).kind = "out"
      BY DEF Writes
    <3>3. k # Commands => Out(f + k).kind # "out"
      BY DEF Writes
    <3>4. Commands \in 1 .. Commands
      BY <1>3, <1>4
    <3> QED BY <1>5, <1>6, <3>1, <3>2, <3>3, <3>4
  <2>2. ASSUME NEW j \in 1 .. curr_cmd
        PROVE  /\ Live(f + j)' => proc'[f + j].prog = "copy"
               /\ ~Live(f + j)' => r[j] = Len(Items) /\ w2[j] = Len(Items)
    <3>1. CASE j = k
      BY <3>1 DEF Whole, Carried, Writes
    <3>2. CASE j # k
      <4>1. Still(f + j) /\ pc # "redirect"
        BY <1>7, <3>2 DEF Writes
      <4>2. j \in 1 .. Commands
        BY <1>3
      <4> QED BY <1>5, <3>2, <4>1, <4>2 DEF Carried, Whole, Still, Same
    <3> QED BY <3>1, <3>2
  <2> QED BY <2>1, <2>2
<1> QED BY <1>2, <1>5, <1>6, <1>8, <1>9, <1>10 DEF Flow

-----------------------------------------------------------------------------
(* The steps of the processes.                                             *)

LEMMA StillFacts ==
  ASSUME NEW q, proc'[q] = proc[q], fd'[q] = fd[q]
  PROVE  Still(q)
BY DEF Still, Same, Live, In, Out

LEMMA ExitStill ==
  ASSUME Inv, NEW p \in Procs, Exit(p)
  PROVE  ~Live(p)' /\ fd'[Shell] = fd[Shell] /\ \A q \in Procs \ {p} : Still(q)
<1> DEFINE c == [NewProc EXCEPT !.state = "done"]
           t == [n \in Fds |-> Closed]
<1>1. proc' = [proc EXCEPT ![p] = c] /\ fd' = [fd EXCEPT ![p] = t]
  BY DEF Exit
<1>2. c.state = "done"
  BY DEF NewProc
<1> HIDE DEF c, t
<1>3. /\ proc'[p] = c /\ fd'[Shell] = fd[Shell]
      /\ \A q \in Procs \ {p} : proc'[q] = proc[q] /\ fd'[q] = fd[q]
  BY <1>1 DEF Inv, Types, TypeOK, Shell, Procs
<1> QED BY <1>2, <1>3, StillFacts DEF Live

Runs(p, h, i) ==
  /\ proc[p].state = "running" /\ UNCHANGED fd
  /\ proc' = [proc EXCEPT ![p].hand = h, ![p].pos = i]

LEMMA RunStill ==
  ASSUME Inv, NEW p \in Procs, NEW h, NEW i, Runs(p, h, i)
  PROVE  /\ Live(p) /\ Live(p)' /\ In(p)' = In(p) /\ Out(p)' = Out(p)
         /\ proc'[p].hand = h /\ proc'[p].pos = i /\ proc'[p].prog = proc[p].prog
         /\ \A q \in Procs \ {p} : Still(q)
<1> DEFINE c == [proc[p] EXCEPT !.hand = h, !.pos = i]
<1>1. proc[p] \in ProcRecord /\ proc \in [Procs -> ProcRecord]
  BY DEF Inv, Types
<1>2. proc' = [proc EXCEPT ![p] = c] /\ proc[p].state = "running" /\ UNCHANGED fd
  BY <1>1 DEF Runs
<1>3. c.state = "running" /\ c.hand = h /\ c.pos = i /\ c.prog = proc[p].prog
  BY <1>1, <1>2 DEF ProcRecord
<1> HIDE DEF c
<1>4. proc'[p] = c /\ \A q \in Procs \ {p} : proc'[q] = proc[q] /\ fd'[q] = fd[q]
  BY <1>1, <1>2
<1>5. Live(p) /\ Live(p)' /\ In(p)' = In(p) /\ Out(p)' = Out(p)
  BY <1>2, <1>3, <1>4 DEF Live, In, Out
<1> QED BY <1>3, <1>4, <1>5, StillFacts

LEMMA FlowEnds ==
  ASSUME Inv, Inv', Wired, Counted, Files, NEW r \in Cursors, NEW w \in Cursors,
         NEW n \in 0 .. Len(Items), Carried(r, w, n), NEW p \in Procs, Live(p), Exit(p),
         UNCHANGED <<shell, history, content, out>>,
         \A k \in 1 .. curr_cmd : p = First + k /\ Straight /\ pc # "redirect" =>
           r[k] = Len(Items) /\ w[k] = Len(Items)
  PROVE  Flow'
<1>1. ~Live(p)' /\ \A q \in Procs \ {p} : Still(q)
  BY ExitStill
<1>2. CASE p <= First
  BY <1>1, <1>2, FlowOther
<1>3. CASE \E k \in 1 .. curr_cmd : p = First + k
  <2>1. pc # "redirect"
    BY <1>3, Numbers DEF Inv, Places
  <2>2. \A q \in Procs : Same(q)
    BY <1>1 DEF Still, Same
  <2>3. UNCHANGED <<pipe_line, curr_cmd, started, content, out, before, crossed>>
    BY DEF shell, history
  <2>4. ASSUME Straight, NEW k \in 1 .. curr_cmd, Live(First + k), ~Live(First + k)'
        PROVE  r[k] = Len(Items) /\ w[k] = Len(Items)
    <3>1. First' = First
      BY <2>3 DEF First
    <3>2. First + k = p
      <4>1. First + k \in Procs
        BY Numbers
      <4> QED BY <1>1, <2>4, <3>1, <4>1 DEF Still
    <3> QED BY <2>1, <2>4, <3>2
  <2>5. Straight => \A k \in 1 .. curr_cmd :
          Live(First + k) /\ ~Live(First + k)' => r[k] = Len(Items) /\ w[k] = Len(Items)
    BY <2>4
  <2> QED BY <2>1, <2>2, <2>3, <2>5, FlowSame
<1> QED BY <1>2, <1>3, Members

LEMMA FlowExec ==
  ASSUME Inv, Inv', Wired, Counted, Files, Flow, NEW p \in Procs, Exec(p)
  PROVE  Flow'
<1>1. PICK r \in Cursors, w \in Cursors, n \in 0 .. Len(Items) : Carried(r, w, n)
  BY DEF Flow, Carried
<1>2. proc[p].state = "forked" /\ Live(p) /\ UNCHANGED <<shell, history, content, out>>
  BY DEF Exec, Live
<1>3. CASE proc[p].prog = "none"
  <2>1. Exit(p)
    BY <1>3 DEF Exec
  <2>2. \A k \in 1 .. curr_cmd : p = First + k /\ Straight => pc = "redirect"
    BY <1>1, <1>2, <1>3 DEF Carried, Whole
  <2> QED BY <1>1, <1>2, <2>1, <2>2, FlowEnds
<1>4. CASE proc[p].prog # "none"
  <2>1. /\ Still(p) /\ \A q \in Procs \ {p} : Still(q)
    BY <1>4, Executed, StillFacts DEF Still, Same
  <2>2. CASE p <= First
    BY <1>1, <1>2, <2>1, <2>2, FlowOther
  <2>3. CASE \E k \in 1 .. curr_cmd : p = First + k
    <3>1. pc # "redirect"
      BY <2>3, Numbers DEF Inv, Places
    <3>2. \A q \in Procs : Same(q) /\ (Live(q) => Live(q)')
      BY <2>1 DEF Still
    <3>3. UNCHANGED <<pipe_line, curr_cmd, started, content, out, before, crossed>>
      BY <1>2 DEF shell, history
    <3>4. \A k \in 1 .. curr_cmd : Live(First + k) => Live(First + k)'
      <4>1. First' = First
        BY <3>3 DEF First
      <4> QED BY <3>2, <4>1, Numbers
    <3> QED BY <1>1, <3>1, <3>2, <3>3, <3>4, FlowSame
  <2> QED BY <1>2, <2>2, <2>3, Members
<1> QED BY <1>3, <1>4

\* Somebody has an end of a pipe until the process it is for has ended.
LEMMA EndsOpen ==
  ASSUME Inv, Wired, Counted, NEW k \in 1 .. Commands - 1
  PROVE  /\ ~OpenEnds(Base + k, "w") => k <= curr_cmd /\ ~Live(First + k)
         /\ ~OpenEnds(Base + k, "r") => k + 1 <= curr_cmd /\ ~Live(First + (k + 1))
<1>1. Commands \in Nat /\ curr_cmd \in 0 .. Commands /\ \A j \in 1 .. curr_cmd : First + j \in Procs
  BY Numbers
<1>2. ASSUME curr_cmd < Commands
      PROVE  OpenEnds(Base + k, "w") /\ OpenEnds(Base + k, "r")
  <2>1. pc \in {"redirect", "fork"}
    BY <1>1, <1>2 DEF Counted
  <2>2. fds \in Seq(Fds) /\ 2 * k - 1 \in 1 .. Len(fds) /\ 2 * k \in 1 .. Len(fds)
    BY <1>1, <2>1 DEF Inv, Places, Types
  <2>3. fds[2 * k - 1] \in Fds /\ fds[2 * k] \in Fds
    BY <2>2
  <2>4. fd[Shell][fds[2 * k - 1]] = End(Base + k, "r") /\ fd[Shell][fds[2 * k]] = End(Base + k, "w")
    BY <2>1 DEF Wired, Ends
  <2> QED BY <2>3, <2>4 DEF OpenEnds
<1>3. ASSUME k <= curr_cmd, Live(First + k)
      PROVE  OpenEnds(Base + k, "w")
  <2>1. k \in 1 .. curr_cmd /\ k # Commands
    BY <1>1, <1>3
  <2>2. Out(First + k) = End(Base + k, "w")
    BY <1>3, <2>1, Neighbours
  <2>3. \E n \in Fds : Out(First + k) = fd[First + k][n]
    BY <1>1, <2>1, StreamsThere
  <2> QED BY <1>1, <2>1, <2>2, <2>3 DEF OpenEnds
<1>4. ASSUME k + 1 <= curr_cmd, Live(First + (k + 1))
      PROVE  OpenEnds(Base + k, "r")
  <2>1. k + 1 \in 1 .. curr_cmd /\ k + 1 # 1 /\ Base + (k + 1) - 1 = Base + k
    BY <1>1, <1>4, Numbers
  <2>2. In(First + (k + 1)) = End(Base + k, "r")
    BY <1>4, <2>1, Neighbours
  <2>3. \E n \in Fds : In(First + (k + 1)) = fd[First + (k + 1)][n]
    BY <1>1, <2>1, StreamsThere
  <2> QED BY <1>1, <2>1, <2>2, <2>3 DEF OpenEnds
<1> QED BY <1>1, <1>2, <1>3, <1>4

LEMMA HandIs ==
  ASSUME Inv, Counted, NEW r \in Cursors, NEW w \in Cursors, NEW n \in 0 .. Len(Items),
         Carried(r, w, n), NEW k \in 1 .. curr_cmd, Live(First + k)
  PROVE  /\ k \in 1 .. Commands /\ r[k] \in 0 .. Len(Items) /\ w[k] \in 0 .. Len(Items)
         /\ w[k] <= r[k] /\ proc[First + k].hand = Slice(w[k], r[k])
         /\ proc[First + k].hand = <<>> => w[k] = r[k]
         /\ proc[First + k].hand # <<>> => w[k] < r[k]
<1>1. k \in 1 .. Commands
  BY Numbers
<1>2. /\ r[k] \in 0 .. Len(Items) /\ w[k] \in 0 .. Len(Items)
      /\ w[k] <= r[k] /\ proc[First + k].hand = Slice(w[k], r[k])
  BY <1>1 DEF Cursors, Carried, Flows
<1>3. Len(Items) \in Nat
  BY Numbers
<1>4. w[k] < r[k] => Slice(w[k], r[k]) # <<>>
  BY <1>2, Slices
<1>5. w[k] = r[k] => Slice(w[k], r[k]) = <<>>
  <2>1. w[k] \in Nat
    BY <1>2, <1>3
  <2> QED BY <2>1, Slices
<1>6. w[k] < r[k] \/ w[k] = r[k]
  BY <1>2, <1>3
<1>7. r[k] \in Nat /\ w[k] \in Nat
  BY <1>2, <1>3
<1> QED BY <1>1, <1>2, <1>4, <1>5, <1>6

\* A pipe that is not one of this pipeline's may change.
LEMMA PipeElsewhere ==
  ASSUME Inv, Inv', Counted, NEW i, NEW s, content' = [content EXCEPT ![i] = s]
  PROVE  /\ Len(content') = Len(content)
         /\ i \in 1 .. Len(content) => content'[i] = s
         /\ \A j \in 1 .. Commands - 1 : Base + j # i => content'[Base + j] = content[Base + j]
<1>1. content \in Seq(Seq(Item)) /\ content' \in Seq(Seq(Item)) /\ DOMAIN content' = DOMAIN content
  BY DEF Inv, Types
<1>2. Len(content') = Len(content)
  BY <1>1
<1> QED BY <1>1, <1>2

LEMMA FlowReading ==
  ASSUME Inv, Inv', Wired, Counted, Files, Flow, NEW p \in Procs, Read(p)
  PROVE  Flow'
<1> DEFINE d == fd[p][0]
<1>1. PICK r \in Cursors, w \in Cursors, n \in 0 .. Len(Items) : Carried(r, w, n)
  BY DEF Flow, Carried
<1>2. /\ proc[p].state = "running" /\ proc[p].hand = <<>> /\ Live(p) /\ d = In(p)
      /\ UNCHANGED <<shell, history, out>>
  BY DEF Read, Live, In
<1>3. proc[p] \in ProcRecord /\ proc \in [Procs -> ProcRecord] /\ content \in Seq(Seq(Item))
  BY DEF Inv, Types
<1>4. CASE /\ d.kind = "pipe" /\ content[d.id] # <<>>
           /\ proc' = [proc EXCEPT ![p].hand = <<Head(content[d.id])>>]
           /\ content' = [content EXCEPT ![d.id] = Tail(@)]
           /\ UNCHANGED <<fd, cloexec>>
  <2>0. PICK h, i, f : h = <<Head(content[d.id])>> /\ i = proc[p].pos /\ f = First
    OBVIOUS
  <2>1. Runs(p, h, i)
    BY <1>2, <1>3, <1>4, <2>0 DEF ProcRecord, Runs
  <2>2. content' = [content EXCEPT ![d.id] = Tail(content[d.id])]
    BY <1>4
  <2>3. d.id \in 1 .. Len(content)
    BY <1>4, FdsThere DEF Inv, Types
  <2> HIDE DEF d
  <2>4. /\ Live(p)' /\ In(p)' = In(p) /\ Out(p)' = Out(p) /\ proc'[p].hand = h
        /\ proc'[p].prog = proc[p].prog /\ \A q \in Procs \ {p} : Still(q)
    BY <2>1, RunStill
  <2>5. CASE p <= First
    <3>1. d.id <= Base
      BY <1>2, <1>4, <2>5 DEF Wired, Numbered
    <3>2. \A j \in 1 .. Commands - 1 : Base + j # d.id
      BY <2>3, <3>1, Numbers
    <3> QED BY <1>1, <1>2, <2>2, <2>4, <2>5, <3>2, PipeElsewhere, FlowOther
  <2>6. ASSUME NEW k \in 1 .. curr_cmd, p = First + k
        PROVE  Flow'
    <3>1. k # 1 /\ d.id = Base + k - 1
      BY <1>2, <1>4, <2>6, Neighbours, EndValues
    <3>2. k \in 1 .. Commands /\ k - 1 \in 1 .. Commands - 1 /\ d.id = Base + (k - 1)
          /\ (k - 1) + 1 = k /\ k - 1 \in 1 .. Commands
      BY <3>1, Numbers
    <3>3. /\ r[k] \in 0 .. Len(Items) /\ w[k] = r[k] /\ w[k - 1] \in 0 .. Len(Items)
          /\ r[k] <= w[k - 1] /\ content[Base + (k - 1)] = Slice(r[k], w[k - 1])
      <4>1. w[k - 1] \in 0 .. Len(Items)
        BY <3>2 DEF Cursors
      <4>2. r[(k - 1) + 1] <= w[k - 1] /\ content[Base + (k - 1)] = Slice(r[(k - 1) + 1], w[k - 1])
        BY <1>1, <3>2 DEF Carried, Flows
      <4> QED BY <1>1, <1>2, <2>6, <3>2, <4>1, <4>2, HandIs
    <3>4. Len(Items) \in Nat
      BY Numbers
    <3>5. r[k] < w[k - 1]
      <4>1. r[k] # w[k - 1]
        <5>1. r[k] \in Nat
          BY <3>3, <3>4
        <5> QED BY <1>4, <3>2, <3>3, <5>1, Slices
      <4> QED BY <3>3, <3>4, <4>1
    <3>6. h = Slice(r[k], r[k] + 1) /\ Tail(content[d.id]) = Slice(r[k] + 1, w[k - 1])
      <4>1. /\ Slice(r[k], r[k] + 1) = <<Head(Slice(r[k], w[k - 1]))>>
            /\ Tail(Slice(r[k], w[k - 1])) = Slice(r[k] + 1, w[k - 1])
        BY <3>3, <3>5, Slices
      <4> QED BY <2>0, <3>2, <3>3, <4>1
    <3>7. Reads(f, r, w, k)
      <4>1. content'[Base + (k - 1)] = Slice(r[k] + 1, w[k - 1])
        BY <2>2, <2>3, <3>2, <3>6, PipeElsewhere
      <4>2. \A j \in 1 .. Commands - 1 : j # k - 1 => content'[Base + j] = content[Base + j]
        <5>1. \A j \in 1 .. Commands - 1 : j # k - 1 => Base + j # d.id
          BY <3>2, Numbers
        <5> QED BY <2>2, <5>1, PipeElsewhere
      <4>3. r[k] < Len(Items) /\ Len(content') = Len(content)
        BY <2>2, <3>3, <3>4, <3>5, PipeElsewhere
      <4> QED BY <1>2, <2>0, <2>4, <2>6, <3>1, <3>3, <3>5, <3>6, <4>1, <4>2, <4>3 DEF Reads
    <3> QED BY <1>1, <2>0, <3>7, FlowRead
  <2> QED BY <1>2, <2>5, <2>6, Members
<1>5. CASE /\ d.kind \in {"tty", "in"} /\ Readable(d) /\ proc[p].pos < Len(Items)
           /\ proc' = [proc EXCEPT ![p].hand = <<Items[proc[p].pos + 1]>>, ![p].pos = @ + 1]
           /\ UNCHANGED <<fd, cloexec, content>>
  <2>0. PICK h, i, f : h = <<Items[proc[p].pos + 1]>> /\ i = proc[p].pos + 1 /\ f = First
    OBVIOUS
  <2>1. Runs(p, h, i)
    BY <1>2, <1>3, <1>5, <2>0 DEF Runs
  <2> HIDE DEF d
  <2>2. /\ Live(p)' /\ In(p)' = In(p) /\ Out(p)' = Out(p) /\ proc'[p].hand = h
        /\ proc'[p].pos = i
        /\ proc'[p].prog = proc[p].prog /\ \A q \in Procs \ {p} : Still(q)
    BY <2>1, RunStill
  <2>3. CASE p <= First
    BY <1>1, <1>2, <1>5, <2>2, <2>3, FlowOther
  <2>4. ASSUME NEW k \in 1 .. curr_cmd, p = First + k
        PROVE  Flow'
    <3>1. k = 1
      BY <1>2, <1>5, <2>4, Neighbours, EndValues
    <3>2. r[k] \in 0 .. Len(Items) /\ w[k] = r[k] /\ proc[p].pos = r[k] /\ Len(Items) \in Nat
      BY <1>1, <1>2, <2>4, <3>1, HandIs, Numbers DEF Carried, Flows
    <3>3. h = Slice(r[k], r[k] + 1) /\ i = r[k] + 1 /\ r[k] < Len(Items)
      <4>1. Len(Items) \in 0 .. Len(Items) /\ r[k] < Len(Items)
        BY <1>5, <3>2
      <4>2. Slice(r[k], r[k] + 1) = <<Items[r[k] + 1]>>
        BY <3>2, <4>1, SliceNext
      <4> QED BY <2>0, <3>2, <4>1, <4>2
    <3>4. Reads(f, r, w, k)
      BY <1>2, <1>5, <2>0, <2>2, <2>4, <3>1, <3>2, <3>3 DEF Reads
    <3> QED BY <1>1, <2>0, <3>4, FlowRead
  <2> QED BY <1>2, <2>3, <2>4, Members
<1>6. CASE /\ \/ d.kind = "pipe" /\ content[d.id] = <<>> /\ ~OpenEnds(d.id, "w")
              \/ d.kind \in {"tty", "in"} /\ Readable(d) /\ proc[p].pos = Len(Items)
              \/ ~Readable(d)
           /\ Exit(p) /\ UNCHANGED content
  <2> HIDE DEF d
  <2>1. ASSUME NEW k \in 1 .. curr_cmd, p = First + k, Straight, pc # "redirect"
        PROVE  r[k] = Len(Items) /\ w[k] = Len(Items)
    <3>1. /\ k \in 1 .. Commands /\ r[k] \in 0 .. Len(Items) /\ w[k] = r[k]
          /\ Len(Items) \in Nat
      BY <1>1, <1>2, <2>1, HandIs, Numbers
    <3>2. CASE k = 1
      <4>1. Input(d)
        BY <1>2, <2>1, <3>2, Numbers DEF Files
      <4>2. proc[p].pos = Len(Items)
        BY <1>6, <4>1 DEF Input
      <4> QED BY <1>1, <1>2, <2>1, <3>1, <3>2, <4>2 DEF Carried, Flows
    <3>3. CASE k # 1
      <4>1. d = End(Base + k - 1, "r")
        BY <1>2, <2>1, <3>3, Neighbours
      <4>2. k - 1 \in 1 .. Commands - 1 /\ k - 1 \in 1 .. curr_cmd /\ Base + k - 1 = Base + (k - 1)
            /\ (k - 1) + 1 = k /\ k - 1 \in 1 .. Commands
        BY <3>3, Numbers
      <4>3. content[Base + (k - 1)] = <<>> /\ ~OpenEnds(Base + (k - 1), "w")
        BY <1>6, <4>1, <4>2, EndValues DEF Readable, End, Desc
      <4>4. ~Live(First + (k - 1))
        BY <4>2, <4>3, EndsOpen
      <4>5. w[k - 1] = Len(Items)
        BY <1>1, <2>1, <4>2, <4>4 DEF Carried, Whole
      <4>6. r[(k - 1) + 1] <= w[k - 1] /\ content[Base + (k - 1)] = Slice(r[(k - 1) + 1], w[k - 1])
        BY <1>1, <4>2 DEF Carried, Flows
      <4>7. ~(r[k] < w[k - 1])
        <5>1. w[k - 1] \in 0 .. Len(Items)
          BY <3>1, <4>5
        <5>2. Slice(r[k], w[k - 1]) = <<>>
          BY <4>2, <4>3, <4>6
        <5> QED BY <3>1, <5>1, <5>2, SliceEmpty
      <4> QED BY <3>1, <4>5, <4>7
    <3> QED BY <3>2, <3>3
  <2> QED BY <1>1, <1>2, <1>6, <2>1, FlowEnds
<1> QED BY <1>4, <1>5, <1>6 DEF Read

\* Whether it ends or not, a process that has written has nothing left.
LEMMA Wrote ==
  ASSUME Inv, NEW p \in Procs, proc[p].state = "running",
         IF proc[p].prog = "head" THEN Exit(p)
         ELSE proc' = [proc EXCEPT ![p].hand = <<>>] /\ UNCHANGED <<fd, cloexec>>
  PROVE  /\ Live(p) /\ \A q \in Procs \ {p} : Still(q)
         /\ Live(p)' => /\ In(p)' = In(p) /\ Out(p)' = Out(p)
                        /\ proc'[p].hand = <<>> /\ proc'[p].pos = proc[p].pos
                        /\ proc'[p].prog = proc[p].prog
         /\ proc[p].prog # "head" => Live(p)'
<1>1. Live(p)
  BY DEF Live
<1>2. CASE proc[p].prog = "head"
  BY <1>1, <1>2, ExitStill
<1>3. CASE proc[p].prog # "head"
  <2>0. PICK h, i : h = <<>> /\ i = proc[p].pos
    OBVIOUS
  <2>1. Runs(p, h, i)
    <3>1. proc[p] \in ProcRecord /\ proc \in [Procs -> ProcRecord]
      BY DEF Inv, Types
    <3> QED BY <1>3, <2>0, <3>1 DEF Runs, ProcRecord
  <2> QED BY <1>1, <2>0, <2>1, RunStill
<1> QED BY <1>2, <1>3

LEMMA FlowWriting ==
  ASSUME Inv, Inv', Wired, Counted, Files, Flow, NEW p \in Procs, Write(p)
  PROVE  Flow'
<1> DEFINE d == fd[p][1]
           hand == proc[p].hand
           written == IF proc[p].prog = "head" THEN Exit(p)
                      ELSE proc' = [proc EXCEPT ![p].hand = <<>>] /\ UNCHANGED <<fd, cloexec>>
<1>1. PICK r \in Cursors, w \in Cursors, n \in 0 .. Len(Items) : Carried(r, w, n)
  BY DEF Flow, Carried
<1>2. /\ proc[p].state = "running" /\ hand # <<>> /\ Live(p) /\ d = Out(p)
      /\ UNCHANGED <<shell, history>>
  BY DEF Write, Live, Out
<1>3. PICK f : f = First
  OBVIOUS
<1> DEFINE Gone == /\ Live(p) /\ \A q \in Procs \ {p} : Still(q)
                   /\ Live(p)' => /\ In(p)' = In(p) /\ Out(p)' = Out(p)
                                  /\ proc'[p].hand = <<>> /\ proc'[p].pos = proc[p].pos
                                  /\ proc'[p].prog = proc[p].prog
                   /\ proc[p].prog # "head" => Live(p)'
<1>4. written => Gone
  BY <1>2, Wrote
<1>5. ASSUME NEW k \in 1 .. curr_cmd, p = First + k
      PROVE  /\ k \in 1 .. Commands /\ r[k] \in 0 .. Len(Items) /\ w[k] \in 0 .. Len(Items)
             /\ w[k] < r[k] /\ hand = Slice(w[k], r[k]) /\ pc # "redirect"
             /\ Straight => proc[p].prog = "copy"
             /\ IF k = Commands THEN Out(p).kind # "pipe" ELSE Out(p) = End(Base + k, "w")
  <2>1. pc # "redirect"
    BY Numbers DEF Inv, Places
  <2>2. Straight => proc[p].prog = "copy"
    BY <1>1, <1>2, <1>5, <2>1 DEF Carried, Whole
  <2> QED BY <1>1, <1>2, <1>5, <2>1, <2>2, HandIs, Neighbours
<1> HIDE DEF d, written
<1>6. CASE /\ d.kind = "pipe" /\ OpenEnds(d.id, "r") /\ Len(content[d.id]) < Capacity
           /\ content' = [content EXCEPT ![d.id] = @ \o hand]
           /\ written /\ UNCHANGED out
  <2>1. content' = [content EXCEPT ![d.id] = content[d.id] \o hand] /\ Gone
    BY <1>4, <1>6
  <2>2. d.id \in 1 .. Len(content)
    BY <1>6, FdsThere DEF Inv, Types, d
  <2>3. CASE p <= First
    <3>1. d.id <= Base
      BY <1>2, <1>6, <2>3 DEF Wired, Numbered
    <3>2. \A j \in 1 .. Commands - 1 : Base + j # d.id
      BY <2>2, <3>1, Numbers
    <3> QED BY <1>1, <1>2, <1>6, <2>1, <2>3, <3>2, PipeElsewhere, FlowOther
  <2>4. ASSUME NEW k \in 1 .. curr_cmd, p = First + k
        PROVE  Flow'
    <3>1. k # Commands /\ d.id = Base + k /\ k \in 1 .. Commands
      BY <1>2, <1>5, <1>6, <2>4, EndValues
    <3>2. k \in 1 .. Commands - 1 /\ k + 1 \in 1 .. Commands /\ Len(Items) \in Nat
      BY <3>1, Numbers
    <3>3. /\ content[Base + k] = Slice(r[k + 1], w[k])
          /\ r[k + 1] <= w[k] /\ r[k + 1] \in 0 .. Len(Items)
      BY <1>1, <3>2 DEF Carried, Flows, Cursors
    <3>4. content[d.id] \o hand = Slice(r[k + 1], r[k])
      <4>1. /\ hand = Slice(w[k], r[k]) /\ w[k] <= r[k]
            /\ w[k] \in 0 .. Len(Items) /\ r[k] \in 0 .. Len(Items)
        BY <1>5, <2>4, <3>2
      <4>2. Slice(r[k + 1], w[k]) \o Slice(w[k], r[k]) = Slice(r[k + 1], r[k])
        BY <3>3, <4>1, SliceJoin
      <4> QED BY <3>1, <3>3, <4>1, <4>2
    <3>5. content'[Base + k] = Slice(r[k + 1], r[k]) /\ Len(content') = Len(content)
      BY <2>1, <2>2, <3>1, <3>4, PipeElsewhere
    <3>6. \A j \in 1 .. Commands - 1 : j # k => content'[Base + j] = content[Base + j]
      <4>1. \A j \in 1 .. Commands - 1 : j # k => Base + j # d.id
        BY <3>1, <3>2, Numbers
      <4> QED BY <2>1, <4>1, PipeElsewhere
    <3>7. Straight => Live(p)'
      BY <1>5, <2>1, <2>4
    <3>8. Writes(f, r, k)
      BY <1>2, <1>3, <1>5, <1>6, <2>1, <2>4, <3>1, <3>5, <3>6, <3>7 DEF Writes
    <3> QED BY <1>1, <1>3, <3>8, FlowWrite
  <2> QED BY <1>2, <2>3, <2>4, Members
<1>7. CASE /\ d.kind = "out" /\ out' = out \o hand
           /\ written /\ UNCHANGED content
  <2>1. Gone /\ pc # "redirect" /\ p > First
    BY <1>2, <1>4, <1>7 DEF Files
  <2>2. PICK k \in 1 .. curr_cmd : p = First + k
    <3>1. ~(p <= First)
      BY <2>1, Numbers, BoundAssumption DEF Procs
    <3> QED BY <1>2, <3>1, Members
  <2>3. k = Commands /\ 0 < curr_cmd /\ curr_cmd = Commands
    <3>1. k = Commands
      BY <1>2, <1>5, <1>7, <2>2, EndValues
    <3> QED BY <3>1, Numbers
  <2>4. out = Kept \o Slice(0, n) /\ n = w[k]
    BY <1>1, <1>2, <1>7, <2>1, <2>2, <2>3 DEF Carried, Comes
  <2>5. out' = Kept \o Slice(0, r[k])
    <3>1. /\ k \in 1 .. Commands /\ r[k] \in 0 .. Len(Items) /\ w[k] \in 0 .. Len(Items)
          /\ w[k] < r[k] /\ hand = Slice(w[k], r[k])
      BY <1>5, <2>2
    <3>2. 0 \in 0 .. Len(Items) /\ 0 <= w[k] /\ r[k] \in w[k] .. Len(Items) /\ w[k] <= r[k]
      BY <3>1, Numbers
    <3>3. /\ Slice(0, w[k]) \in Seq(Item) /\ Slice(w[k], r[k]) \in Seq(Item)
          /\ Slice(0, w[k]) \o Slice(w[k], r[k]) = Slice(0, r[k])
      BY <3>1, <3>2, Slices
    <3>4. Kept \in Seq(Item)
      BY DEF Kept, Counted
    <3>5. out' = (Kept \o Slice(0, w[k])) \o Slice(w[k], r[k])
      BY <1>7, <2>4, <3>1
    <3>6. (Kept \o Slice(0, w[k])) \o Slice(w[k], r[k])
            = Kept \o (Slice(0, w[k]) \o Slice(w[k], r[k]))
      BY <3>3, <3>4, ConcatAssociative, SMTT(20)
    <3> QED BY <3>3, <3>5, <3>6
  <2>6. Straight => Live(p)'
    BY <1>5, <2>1, <2>2
  <2>7. Writes(f, r, k)
    BY <1>2, <1>3, <1>7, <2>1, <2>2, <2>3, <2>5, <2>6 DEF Writes
  <2> QED BY <1>1, <1>3, <2>7, FlowWrite
<1>8. CASE /\ d.kind = "tty" /\ Writable(d)
           /\ written /\ UNCHANGED <<content, out>>
  <2>1. Gone
    BY <1>4, <1>8
  <2>2. CASE p <= First
    BY <1>1, <1>2, <1>8, <2>1, <2>2, FlowOther
  <2>3. ASSUME NEW k \in 1 .. curr_cmd, p = First + k
        PROVE  Flow'
    <3>1. k = Commands /\ curr_cmd = Commands
      <4>1. k = Commands
        BY <1>2, <1>5, <1>8, <2>3, EndValues
      <4> QED BY <4>1, Numbers
    <3>2. ~Straight
      <4>1. Straight => d = ToFile
        BY <1>2, <1>5, <2>3, <3>1 DEF Files
      <4>2. ToFile.kind = "out"
        BY DEF ToFile, File, Desc
      <4> QED BY <1>8, <4>1, <4>2
    <3>3. Writes(f, r, k)
      BY <1>2, <1>3, <1>5, <1>8, <2>1, <2>3, <3>1, <3>2 DEF Writes
    <3> QED BY <1>1, <1>3, <3>3, FlowWrite
  <2> QED BY <1>2, <2>2, <2>3, Members
<1>9. CASE /\ (d.kind = "pipe" /\ ~OpenEnds(d.id, "r")) \/ ~Writable(d)
           /\ Exit(p) /\ UNCHANGED <<content, out>>
  <2>1. ASSUME NEW k \in 1 .. curr_cmd, p = First + k, Straight, pc # "redirect"
        PROVE  FALSE
    <3>1. /\ k \in 1 .. Commands /\ r[k] \in 0 .. Len(Items) /\ w[k] \in 0 .. Len(Items)
          /\ w[k] < r[k] /\ Len(Items) \in Nat
      BY <1>5, <2>1, Numbers
    <3>2. CASE k = Commands
      <4>1. curr_cmd = Commands
        BY <3>2, Numbers
      <4>2. d = ToFile
        BY <1>2, <2>1, <3>2, <4>1 DEF Files
      <4> QED BY <1>9, <4>2 DEF ToFile, File, Desc, Writable
    <3>3. CASE k # Commands
      <4>1. d = End(Base + k, "w") /\ k \in 1 .. Commands - 1 /\ k + 1 \in 1 .. Commands
        <5>1. d = End(Base + k, "w")
          BY <1>2, <1>5, <2>1, <3>1, <3>3
        <5> QED BY <3>1, <3>3, <5>1, Numbers
      <4>2. ~OpenEnds(Base + k, "r")
        BY <1>9, <4>1, EndValues DEF Writable, End, Desc
      <4>3. k + 1 \in 1 .. curr_cmd /\ ~Live(First + (k + 1))
        BY <4>1, <4>2, EndsOpen
      <4>4. r[k + 1] = Len(Items) /\ r[k + 1] <= w[k]
        BY <1>1, <2>1, <4>1, <4>3 DEF Carried, Whole, Flows
      <4> QED BY <3>1, <4>4
    <3> QED BY <3>2, <3>3
  <2> QED BY <1>1, <1>2, <1>9, <2>1, FlowEnds
<1> QED BY <1>6, <1>7, <1>8, <1>9 DEF Write, d, written

-----------------------------------------------------------------------------
(* Who has the file.                                                       *)

\* A process leaves the shell alone, and nobody's streams change while he lives.
LEMMA ProcessKeeps ==
  ASSUME Inv, Wired, NEW p \in Procs, Process(p)
  PROVE  /\ UNCHANGED <<shell, history>> /\ fd'[Shell] = fd[Shell]
         /\ \A q \in Procs : Live(q)' => Live(q) /\ In(q)' = In(q) /\ Out(q)' = Out(q)
         /\ out \in Seq(Item) => out' \in Seq(Item)
<1> DEFINE Keeps == /\ fd'[Shell] = fd[Shell]
                    /\ \A q \in Procs : Live(q)' => Live(q) /\ In(q)' = In(q) /\ Out(q)' = Out(q)
<1>1. UNCHANGED <<shell, history>>
  BY DEF Process, Exec, Read, Write
<1>2. Exit(p) => Keeps
  <2> SUFFICES ASSUME Exit(p) PROVE Keeps
    OBVIOUS
  <2>1. ~Live(p)' /\ fd'[Shell] = fd[Shell] /\ \A q \in Procs \ {p} : Still(q)
    BY ExitStill
  <2> QED BY <2>1 DEF Still, Same
<1>3. ASSUME NEW h, NEW i, Runs(p, h, i)
      PROVE  Keeps
  <2>1. /\ Live(p) /\ Live(p)' /\ In(p)' = In(p) /\ Out(p)' = Out(p) /\ UNCHANGED fd
        /\ \A q \in Procs \ {p} : Still(q)
    BY <1>3, RunStill DEF Runs
  <2> QED BY <2>1 DEF Still, Same
<1>4. proc[p] \in ProcRecord /\ proc \in [Procs -> ProcRecord]
  BY DEF Inv, Types
<1>5. CASE Exec(p)
  <2>1. UNCHANGED out
    BY <1>5 DEF Exec
  <2>2. proc[p].prog = "none" => Exit(p)
    BY <1>5 DEF Exec
  <2>3. proc[p].prog # "none" => Keeps
    <3> SUFFICES ASSUME proc[p].prog # "none" PROVE Keeps
      OBVIOUS
    <3>1. /\ fd'[Shell] = fd[Shell] /\ Live(p) /\ In(p)' = In(p) /\ Out(p)' = Out(p)
          /\ \A q \in Procs \ {p} : Still(q)
      BY <1>5, Executed, StillFacts
    <3> QED BY <3>1 DEF Still, Same
  <2> QED BY <1>1, <1>2, <2>1, <2>2, <2>3
<1>6. CASE Read(p)
  <2>1. UNCHANGED out /\ proc[p].state = "running"
    BY <1>6 DEF Read
  <2>2. ASSUME NEW h, proc' = [proc EXCEPT ![p].hand = h], UNCHANGED fd
        PROVE  Keeps
    <3>1. PICK i : i = proc[p].pos
      OBVIOUS
    <3>2. Runs(p, h, i)
      BY <1>4, <2>1, <2>2, <3>1 DEF Runs, ProcRecord
    <3> QED BY <1>3, <3>2
  <2>3. ASSUME NEW h, proc' = [proc EXCEPT ![p].hand = h, ![p].pos = @ + 1], UNCHANGED fd
        PROVE  Keeps
    <3>1. PICK i : i = proc[p].pos + 1
      OBVIOUS
    <3>2. Runs(p, h, i)
      BY <1>4, <2>1, <2>3, <3>1 DEF Runs, ProcRecord
    <3> QED BY <1>3, <3>2
  <2>4. Keeps
    <3> HIDE DEF Keeps
    <3> QED BY <1>2, <1>6, <2>2, <2>3 DEF Read
  <2> QED BY <1>1, <2>1, <2>4
<1>7. CASE Write(p)
  <2> DEFINE written == IF proc[p].prog = "head" THEN Exit(p)
                        ELSE proc' = [proc EXCEPT ![p].hand = <<>>] /\ UNCHANGED <<fd, cloexec>>
  <2>1. proc[p].state = "running"
    BY <1>7 DEF Write
  <2>2. written => Keeps
    <3> SUFFICES ASSUME written PROVE Keeps
      OBVIOUS
    <3>1. proc[p].prog = "head" => Keeps
      BY <1>2
    <3>2. proc[p].prog # "head" => Keeps
      <4> SUFFICES ASSUME proc[p].prog # "head" PROVE Keeps
        OBVIOUS
      <4>1. PICK h, i : h = <<>> /\ i = proc[p].pos
        OBVIOUS
      <4>2. Runs(p, h, i)
        BY <1>4, <2>1, <4>1 DEF Runs, ProcRecord
      <4> QED BY <1>3, <4>2
    <3> QED BY <3>1, <3>2
  <2>3. out' = out \/ out' = out \o proc[p].hand
    BY <1>7 DEF Write
  <2>4. proc[p].hand \in Seq(Item)
    <3>1. proc[p].hand \in Hands
      BY <1>4 DEF ProcRecord
    <3>2. \A x \in Item : <<x>> \in Seq(Item)
      OBVIOUS
    <3>3. <<>> \in Seq(Item)
      OBVIOUS
    <3>4. proc[p].hand = <<>> \/ \E x \in Item : proc[p].hand = <<x>>
      BY <3>1 DEF Hands
    <3> QED BY <3>2, <3>3, <3>4, Zenon
  <2>5. out \in Seq(Item) => out \o proc[p].hand \in Seq(Item)
    BY <2>4, ConcatProperties
  <2>6. written \/ Exit(p)
    BY <1>7 DEF Write
  <2> QED BY <1>1, <1>2, <2>2, <2>3, <2>5, <2>6
<1> QED BY <1>5, <1>6, <1>7 DEF Process

LEMMA CountedInit == Init => Counted
<1> SUFFICES ASSUME Init PROVE Counted
  OBVIOUS
<1>1. /\ started = 0 /\ curr_cmd = 0 /\ pc = "prompt" /\ out = <<>> /\ before = <<>>
      /\ Commands = 0
  BY DEF Init, NoPipeline, Commands
<1> QED BY <1>1 DEF Counted, First

LEMMA CountedNext ==
  ASSUME Inv, Wired, Counted, [Next]_vars
  PROVE  Counted'
<1>1. /\ Commands \in Nat /\ curr_cmd \in 0 .. Commands /\ started \in Nat /\ First \in Nat
      /\ First + curr_cmd = started /\ \A k \in 1 .. curr_cmd : First + k \in Procs
  BY Numbers
<1>2. out \in Seq(Item) /\ before \in Seq(Item)
  BY DEF Counted
<1>3. CASE Pipe
  <2>1. /\ curr_cmd' = 0 /\ pc' = "redirect" /\ UNCHANGED <<started, out, before>>
    BY <1>3 DEF Pipe, history
  <2> QED BY <1>1, <1>2, <2>1 DEF Counted, First
<1>4. CASE Redirect
  <2>1. /\ pc' = "fork" /\ UNCHANGED <<started, curr_cmd>> /\ before' = out
        /\ out' \in {<<>>, out}
    BY <1>4 DEF Redirect
  <2>2. <<>> \in Seq(Item)
    OBVIOUS
  <2> QED BY <1>1, <1>2, <2>1, <2>2 DEF Counted, First
<1>5. CASE Fork
  <2>1. /\ pc = "fork" /\ UNCHANGED <<pc, out, before>> /\ started' = started + 1
        /\ curr_cmd' = curr_cmd + 1
    BY <1>5 DEF Fork, history
  <2> QED BY <1>1, <1>2, <2>1 DEF Counted, First
<1>6. CASE Close
  <2>1. /\ pc' = "reset" /\ UNCHANGED <<started, curr_cmd, pipe_line, out, before>>
        /\ curr_cmd = Commands
    BY <1>6 DEF Close, history
  <2> QED BY <1>1, <1>2, <2>1 DEF Counted, First, Commands
<1>7. CASE Reset
  <2>1. /\ pc = "reset" /\ pc' = (IF pipe_line.bg THEN "prompt" ELSE "wait")
        /\ UNCHANGED <<started, curr_cmd, pipe_line, out, before>>
    BY <1>7 DEF Reset, history
  <2> QED BY <1>1, <1>2, <2>1 DEF Counted, First, Commands
<1>8. CASE Wait
  <2>1. /\ pc = "wait" /\ UNCHANGED <<started, curr_cmd, pipe_line, out, before, proc>>
        /\ \A p \in (started - Commands + 1) .. started : proc[p].state = "done"
    BY <1>8 DEF Wait, history
  <2>2. curr_cmd = Commands
    BY <2>1 DEF Counted
  <2>3. \A k \in 1 .. Commands : First + k \in (started - Commands + 1) .. started
    BY <1>1, <2>2 DEF First
  <2>4. \A k \in 1 .. Commands : ~Live(First + k)
    BY <2>1, <2>3 DEF Live
  <2>5. First' = First /\ Commands' = Commands /\ \A p \in Procs : Live(p)' <=> Live(p)
    BY <2>1 DEF First, Commands, Live
  <2>6. \A k \in 1 .. Commands : ~Live(First + k)'
    BY <1>1, <2>2, <2>4, <2>5
  <2> QED BY <1>2, <2>1, <2>2, <2>5, <2>6 DEF Counted
<1>9. CASE \E p \in Procs : Process(p)
  <2>1. /\ UNCHANGED <<shell, history>> /\ out' \in Seq(Item)
        /\ \A q \in Procs : Live(q)' => Live(q)
    BY <1>2, <1>9, ProcessKeeps
  <2>2. UNCHANGED <<pc, pipe_line, curr_cmd, started, before>>
    BY <2>1 DEF shell, history
  <2>3. First' = First /\ Commands' = Commands
    BY <2>2 DEF First, Commands
  <2>4. pc = "prompt" => curr_cmd = Commands
    BY DEF Counted
  <2>5. pc = "prompt" /\ ~pipe_line.bg => \A k \in 1 .. Commands : ~Live(First + k)'
    BY <1>1, <2>1, <2>3, <2>4 DEF Counted
  <2> QED BY <1>2, <2>1, <2>2, <2>3, <2>5 DEF Counted
<1>10. CASE UNCHANGED vars
  <2>1. UNCHANGED <<pc, pipe_line, curr_cmd, started, before, out, proc>>
    BY <1>10 DEF vars, shell, history
  <2> QED BY <2>1 DEF Counted, First, Commands, Live
<1> QED BY <1>3, <1>4, <1>5, <1>6, <1>7, <1>8, <1>9, <1>10 DEF Next, Main

\* Redirect opens the files on descriptors 0 and 1.
LEMMA Opened ==
  ASSUME Inv, Files, Redirect
  PROVE  /\ \A n \in {0, 1} : fd'[Shell][n].kind = "out" => pipe_line.output = "out"
         /\ Straight' => Input(fd'[Shell][0]) /\ fd'[Shell][1] = ToFile
<1> DEFINE own == fd[Shell]
           df == File(pipe_line.input, "r")
           dt == File(pipe_line.output, "w")
           i == IF pipe_line.input = "tty" THEN [table |-> own, on |-> streams.stdin]
                ELSE freopen(own, streams.stdin, df)
           o == IF pipe_line.output = "tty" THEN [table |-> i.table, on |-> streams.stdout]
                ELSE freopen(i.table, streams.stdout, dt)
           e == IF pipe_line.output # "tty" /\ pipe_line.dup THEN dup2(o.table, 1, 2)
                ELSE o.table
<1>1. /\ fd' = [fd EXCEPT ![Shell] = e] /\ pc = "redirect" /\ UNCHANGED pipe_line
      /\ crossed' = (crossed \/ (i.on = -1 /\ o.on = -1))
  BY DEF Redirect
<1>2. fd'[Shell] = e
  BY <1>1 DEF Inv, Types, TypeOK
<1>3. /\ own \in [Fds -> Descs] /\ Streams(own, streams.stdin, streams.stdout)
      /\ streams.stdin # -1 /\ streams.stdout # -1
      /\ own[0].kind = "tty" /\ own[1].kind = "tty"
      /\ ~crossed => streams.stdin = 0 /\ streams.stdout = 1 /\ Readable(own[0])
  <2>1. own[streams.stdin].kind = "tty" /\ own[streams.stdout].kind = "tty"
        /\ {streams.stdin, streams.stdout} = {0, 1}
    BY <1>1 DEF Inv, Console, Streams
  <2>2. own[0].kind = "tty" /\ own[1].kind = "tty"
    BY <2>1
  <2> QED BY <1>1, <2>1, <2>2 DEF Inv, Types, TypeOK, Console, Files
<1>4. /\ Closed \in Descs /\ Closed.kind = "none" /\ pipe_line \in Pipeline
      /\ pipe_line.input # "tty" => df \in Descs /\ df.kind # "out"
      /\ pipe_line.output # "tty" => dt \in Descs /\ (dt.kind = "out" => pipe_line.output = "out")
      /\ pipe_line.input = "in" => df # Closed /\ Input(df)
      /\ pipe_line.output = "out" => dt # Closed /\ dt = ToFile
  <2>1. pipe_line \in Pipeline
    BY <1>1, PipelineAssumption DEF Inv, Places
  <2>2. /\ pipe_line.input \in {"tty", "in", "missing"}
        /\ pipe_line.output \in {"tty", "out", "locked"}
    BY <2>1 DEF Pipeline
  <2>3. Closed \in Descs /\ Closed.kind = "none"
    BY DescKinds DEF Inv, Types
  <2>4. pipe_line.input # "tty" => df \in Descs /\ df.kind # "out"
    BY <2>2, DescKinds DEF Inv, Types, File, Desc, Closed
  <2>5. pipe_line.output # "tty" => dt \in Descs /\ (dt.kind = "out" => pipe_line.output = "out")
    BY <2>2, DescKinds DEF Inv, Types, File, Desc, Closed
  <2>6. pipe_line.input = "in" => df # Closed /\ Input(df)
    BY DEF File, Desc, Closed, Input, Readable
  <2>7. pipe_line.output = "out" => dt # Closed /\ dt = ToFile
    BY DEF File, Desc, Closed, ToFile
  <2> QED BY <2>1, <2>3, <2>4, <2>5, <2>6, <2>7
<1> HIDE DEF df, dt
<1>5. /\ i.table \in [Fds -> Descs] /\ Streams(i.table, streams.stdout, i.on)
      /\ \A n \in {0, 1} : i.table[n].kind # "out"
      /\ (pipe_line.input \in {"tty", "in"} /\ ~crossed) => i.on = 0 /\ Input(i.table[0])
  <2>1. CASE pipe_line.input = "tty"
    BY <1>3, <2>1, StreamValues DEF Input
  <2>2. CASE pipe_line.input # "tty"
    <3>1. i = freopen(own, streams.stdin, df) /\ Streams(own, streams.stdout, streams.stdin)
      BY <1>3, <2>2, StreamValues
    <3> HIDE DEF i, own
    <3>2. /\ i.table \in [Fds -> Descs] /\ Streams(i.table, streams.stdout, i.on)
          /\ i.table[streams.stdout] = own[streams.stdout]
          /\ df = Closed => i.on = -1
          /\ df # Closed => i.on = streams.stdin /\ i.table[i.on] = df
      BY <1>3, <1>4, <2>2, <3>1, Reopened
    <3>3. \A n \in {0, 1} : n = streams.stdout \/ i.table[n] = Closed \/ i.table[n] = df
      BY <1>3, <3>2 DEF Streams
    <3> QED BY <1>3, <1>4, <2>2, <3>2, <3>3
  <2> QED BY <2>1, <2>2
<1>6. /\ \A n \in {0, 1} : o.table[n].kind = "out" => pipe_line.output = "out"
      /\ o.table \in [Fds -> Descs]
      /\ (pipe_line.output = "out" /\ i.on = 0 /\ ~crossed) =>
           o.table[0] = i.table[0] /\ o.table[1] = ToFile
  <2> HIDE DEF i, own
  <2>1. CASE pipe_line.output = "tty"
    BY <1>5, <2>1
  <2>2. CASE pipe_line.output # "tty"
    <3>1. o = freopen(i.table, streams.stdout, dt) /\ Streams(i.table, i.on, streams.stdout)
      BY <1>5, <2>2, StreamValues
    <3> HIDE DEF o
    <3>2. /\ o.table \in [Fds -> Descs] /\ Streams(o.table, i.on, o.on)
          /\ i.on # -1 => o.table[i.on] = i.table[i.on]
          /\ dt = Closed => o.on = -1
          /\ dt # Closed => o.on = streams.stdout /\ o.table[o.on] = dt
      BY <1>3, <1>4, <1>5, <2>2, <3>1, Reopened
    <3>3. \A n \in {0, 1} : (n = i.on /\ o.table[n] = i.table[n]) \/ o.table[n] \in {Closed, dt}
      BY <3>2 DEF Streams
    <3> QED BY <1>3, <1>4, <1>5, <2>2, <3>2, <3>3
  <2> QED BY <2>1, <2>2
<1> HIDE DEF i, o, own
<1>7. e[0] = o.table[0] /\ e[1] = o.table[1]
  BY <1>6, FdsThere DEF dup2
<1> HIDE DEF e
<1>8. Straight' => pipe_line.output = "out" /\ pipe_line.input \in {"tty", "in"} /\ ~crossed
  BY <1>1, <1>4 DEF Straight, Pipeline
<1> QED BY <1>2, <1>5, <1>6, <1>7, <1>8

\* Reset opens stdin for reading.
LEMMA ReadsAgain ==
  ASSUME Inv, Reset
  PROVE  ~crossed' => Readable(fd'[Shell][0])
<1> DEFINE own == fd[Shell]
           o == freopen(own, streams.stdout, Tty("w"))
           i == freopen(o.table, streams.stdin, Tty("r"))
<1>1. /\ pc = "reset" /\ fd' = [fd EXCEPT ![Shell] = i.table] /\ UNCHANGED crossed
  BY DEF Reset, history
<1>2. /\ own \in [Fds -> Descs] /\ Streams(own, streams.stdin, streams.stdout)
      /\ fd'[Shell] = i.table
  BY <1>1 DEF Inv, Types, TypeOK, Console
<1>3. \A m \in {"r", "w"} : Tty(m) \in Descs /\ Tty(m) # Closed
  BY DescKinds DEF Inv, Types
<1> HIDE DEF own
<1>4. /\ o.table \in [Fds -> Descs] /\ Streams(o.table, streams.stdin, o.on)
      /\ o.on \in {0, 1}
      /\ streams.stdout # -1 => o.on = streams.stdout
  <2> HIDE DEF o
  <2>1. o = freopen(own, streams.stdout, Tty("w")) /\ Closed \in Descs
    BY DescKinds DEF o, Inv, Types
  <2> QED BY <1>2, <1>3, <2>1, Reopened
<1> HIDE DEF o
<1>5. /\ Streams(i.table, o.on, i.on) /\ i.on \in {0, 1} /\ i.table[i.on] = Tty("r")
      /\ streams.stdin # -1 => i.on = streams.stdin
  <2> HIDE DEF i
  <2>1. i = freopen(o.table, streams.stdin, Tty("r")) /\ Closed \in Descs
    BY DescKinds DEF i, Inv, Types
  <2>2. Streams(o.table, o.on, streams.stdin)
    BY <1>4, StreamValues
  <2> QED BY <1>3, <1>4, <2>1, <2>2, Reopened
<1> HIDE DEF i
<1>6. i.on # o.on
  BY <1>4, <1>5 DEF Streams
<1>7. ~crossed => i.on = 0
  BY <1>4, <1>5, <1>6 DEF Inv, Console
<1>8. Readable(Tty("r"))
  BY DEF Readable, Tty, Desc
<1> QED BY <1>1, <1>2, <1>5, <1>7, <1>8

\* While nobody is forked, a process has the file no longer than it lives.
LEMMA FilesStill ==
  ASSUME Inv, Counted, Files, UNCHANGED <<pipe_line, curr_cmd, started, crossed>>,
         pc' # "redirect" => pc # "redirect",
         \A q \in Procs : Live(q)' => Live(q) /\ In(q)' = In(q) /\ Out(q)' = Out(q)
  PROVE  /\ \A p \in Procs : Live(p)' /\ Out(p)'.kind = "out" =>
              pc \in {"fork", "reset", "wait"} /\ p > First' /\ pipe_line'.output = "out"
         /\ (pc # "redirect" /\ Straight)' =>
              /\ (curr_cmd > 0 /\ Live(First + 1) => Input(In(First + 1)))'
              /\ (curr_cmd = Commands /\ Live(First + Commands) =>
                    Out(First + Commands) = ToFile)'
<1>1. PICK f : f = First
  OBVIOUS
<1>2. f = First /\ First' = f /\ Commands' = Commands /\ (Straight' <=> Straight)
  BY <1>1 DEF First, Commands, Straight
<1>3. \A p \in Procs : Live(p)' /\ Out(p)'.kind = "out" =>
        pc \in {"fork", "reset", "wait"} /\ p > f /\ pipe_line'.output = "out"
  BY <1>2 DEF Files
<1>4. ASSUME (pc # "redirect")', Straight
      PROVE  /\ curr_cmd > 0 /\ Live(f + 1)' => Input(In(f + 1))'
             /\ curr_cmd = Commands /\ Live(f + Commands)' => Out(f + Commands)' = ToFile
  <2>1. curr_cmd > 0 => f + 1 \in Procs
    BY <1>2, Numbers
  <2>2. curr_cmd = Commands => f + Commands \in Procs
    <3>1. Commands \in Nat \ {0}
      <4>1. Commands # 0
        BY <1>4, Numbers DEF Straight, Commands, Range
      <4> QED BY <4>1, Numbers
    <3> QED BY <1>2, <3>1, Numbers
  <2> QED BY <1>2, <1>4, <2>1, <2>2 DEF Files, Input
<1> QED BY <1>2, <1>3, <1>4

LEMMA FilesInit == Init => Files
<1> SUFFICES ASSUME Init PROVE Files
  OBVIOUS
<1>1. /\ pc = "prompt" /\ pipe_line = NoPipeline /\ fd[Shell][0] = Tty("rw")
      /\ \A p \in Procs : ~Live(p)
  BY FdsThere DEF Init, Live, NewProc, Shell
<1>2. ~Straight
  BY <1>1 DEF Straight, NoPipeline
<1> QED BY <1>1, <1>2 DEF Files, Readable, Tty, Desc

LEMMA FilesFork ==
  ASSUME Inv, Wired, Counted, Files, Fork
  PROVE  Files'
<1>1. PICK p, k, l, f, c : /\ p = started + 1 /\ k = curr_cmd + 1 /\ l = (k = Commands)
                           /\ f = First /\ c = Commands
  OBVIOUS
<1>2. /\ p \in Procs /\ k \in 1 .. Commands /\ pc = "fork" /\ First' = f /\ First = f
      /\ Commands \in Nat /\ Live(p)'
      /\ k = 1 => In(p)' = fd[Shell][0]
      /\ IF l THEN Out(p)'.kind # "pipe" ELSE Out(p)' = End(Base + k, "w")
      /\ l => Out(p)' = fd[Shell][1]
      /\ \A q \in Procs \ {p} : (Live(q)' <=> Live(q)) /\ proc'[q] = proc[q] /\ fd'[q] = fd[q]
      /\ fd'[Shell] = fd[Shell] /\ UNCHANGED <<pc, pipe_line>>
  BY <1>1, Forked
<1>3. curr_cmd' = k /\ UNCHANGED crossed
  BY <1>1 DEF Fork, history
<1>4. p = f + k /\ \A j \in 1 .. curr_cmd : f + j \in Procs \ {p}
  BY <1>1, <1>2, Numbers
<1>5. \A q \in Procs \ {p} : In(q)' = In(q) /\ Out(q)' = Out(q)
  BY <1>2 DEF In, Out
<1>6. Commands' = c /\ (Straight' <=> Straight)
  BY <1>1, <1>2, <1>3 DEF Commands, Straight
<1>7. Out(p)'.kind = "out" => l
  BY <1>2, EndValues
<1>8. ASSUME NEW q \in Procs, Live(q)', Out(q)'.kind = "out"
      PROVE  q > f /\ pipe_line.output = "out"
  <2>1. CASE q = p
    <3>1. fd[Shell][1].kind = "out"
      BY <1>2, <1>7, <1>8, <2>1
    <3> QED BY <1>2, <1>4, <2>1, <3>1, Numbers DEF Files
  <2>2. CASE q # p
    BY <1>2, <1>5, <1>8, <2>2 DEF Files
  <2> QED BY <2>1, <2>2
<1>9. ASSUME Straight
      PROVE  /\ Live(f + 1)' => Input(In(f + 1))'
             /\ k = c => Out(f + c)' = ToFile
  <2>1. Input(fd[Shell][0]) /\ fd[Shell][1] = ToFile
    BY <1>2, <1>9 DEF Files
  <2>2. CASE k = 1
    <3>1. p = f + 1 /\ (k = c => p = f + c /\ l)
      BY <1>1, <1>4, <2>2
    <3> QED BY <1>2, <2>1, <2>2, <3>1 DEF Input
  <2>3. CASE k # 1
    <3>1. 0 < curr_cmd /\ f + 1 \in Procs \ {p}
      <4>1. 1 \in 1 .. curr_cmd
        BY <1>1, <2>3, Numbers
      <4> QED BY <1>4, <4>1, Numbers
    <3>2. Live(f + 1) => Input(In(f + 1))
      BY <1>2, <1>9, <3>1 DEF Files
    <3>3. (Live(f + 1)' <=> Live(f + 1)) /\ In(f + 1)' = In(f + 1)
      BY <1>2, <1>5, <3>1
    <3>4. k = c => p = f + c /\ l
      BY <1>1, <1>4
    <3> QED BY <1>2, <2>1, <3>2, <3>3, <3>4 DEF Input
  <2> QED BY <2>2, <2>3
<1> QED BY <1>2, <1>3, <1>6, <1>8, <1>9 DEF Files

LEMMA FilesNext ==
  ASSUME OneWriter, Inv, Wired, Counted, Files, [Next]_vars
  PROVE  Files'
<1>1. CASE Pipe
  <2>1. /\ pc = "prompt" /\ pc' = "redirect" /\ UNCHANGED <<proc, crossed>>
    BY <1>1 DEF Pipe, history
  <2>2. PICK array \in Seq(Fds) :
          /\ Range(array) \subseteq Free(fd[Shell])
          /\ fd' = [fd EXCEPT ![Shell] = [n \in Fds |-> fd'[Shell][n]]]
          /\ \A n \in Fds \ Range(array) : fd'[Shell][n] = fd[Shell][n]
    BY <1>1, PipeEnds
  <2>3. fd'[Shell][0] = fd[Shell][0]
    <3>1. 0 \notin Range(array)
      BY <2>1, <2>2, NoneFree DEF Inv
    <3> QED BY <2>2, <3>1, FdsThere
  <2>4. \A q \in Procs : fd'[q] = fd[q]
    <3> DEFINE t == [n \in Fds |-> fd'[Shell][n]]
    <3>1. fd' = [fd EXCEPT ![Shell] = t]
      BY <2>2
    <3> HIDE DEF t
    <3> QED BY <3>1 DEF Inv, Types, TypeOK, Shell, Procs
  <2>5. \A q \in Procs : Live(q)' => Live(q) /\ Out(q)' = Out(q)
    BY <2>1, <2>4 DEF Live, Out
  <2> QED BY <2>1, <2>3, <2>5 DEF Files
<1>2. CASE Redirect
  <2>1. /\ pc = "redirect" /\ pc' = "fork" /\ UNCHANGED <<proc, pipe_line, curr_cmd, started>>
    BY <1>2 DEF Redirect
  <2>2. \A q \in Procs : fd'[q] = fd[q]
    <3>1. PICK t : fd' = [fd EXCEPT ![Shell] = t]
      BY <1>2, Redirected
    <3> QED BY <3>1 DEF Inv, Types, TypeOK, Shell, Procs
  <2>3. \A q \in Procs : Live(q)' => Live(q) /\ Out(q)' = Out(q)
    BY <2>1, <2>2 DEF Live, Out
  <2>4. curr_cmd' = 0 /\ Commands' # 0
    <3>1. Len(pipe_line.progs) >= 1 /\ curr_cmd = 0
      BY <2>1, PipelineAssumption DEF Inv, Places
    <3> QED BY <2>1, <3>1 DEF Commands
  <2> QED BY <1>2, <2>1, <2>3, <2>4, Opened DEF Files
<1>3. CASE Fork
  BY <1>3, FilesFork
<1>4. CASE Close
  <2>1. /\ pc = "fork" /\ pc' = "reset"
        /\ UNCHANGED <<proc, pipe_line, curr_cmd, started, crossed>>
    BY <1>4 DEF Close, history
  <2>2. \A q \in Procs : fd'[q] = fd[q]
    BY <1>4 DEF Close, Inv, Types, TypeOK, Shell, Procs
  <2>3. \A q \in Procs : Live(q)' => Live(q) /\ In(q)' = In(q) /\ Out(q)' = Out(q)
    BY <2>1, <2>2 DEF Live, In, Out
  <2> QED BY <2>1, <2>3, FilesStill DEF Files
<1>5. CASE Reset
  <2>1. /\ pc = "reset" /\ pc' = (IF pipe_line.bg THEN "prompt" ELSE "wait")
        /\ UNCHANGED <<proc, pipe_line, curr_cmd, started, crossed>>
    BY <1>5 DEF Reset, history
  <2>2. \A q \in Procs : fd'[q] = fd[q]
    BY <1>5 DEF Reset, Inv, Types, TypeOK, Shell, Procs
  <2>3. \A q \in Procs : Live(q)' => Live(q) /\ In(q)' = In(q) /\ Out(q)' = Out(q)
    BY <2>1, <2>2 DEF Live, In, Out
  <2>4. pipe_line.output = "out" => ~pipe_line.bg
    BY DEF OneWriter, Inv, Types, NoPipeline
  <2> QED BY <1>5, <2>1, <2>3, <2>4, FilesStill, ReadsAgain DEF Files
<1>6. CASE Wait
  <2>1. /\ pc = "wait" /\ pc' = "prompt"
        /\ UNCHANGED <<fd, proc, pipe_line, curr_cmd, started, crossed>>
        /\ \A p \in (started - Commands + 1) .. started : proc[p].state = "done"
    BY <1>6 DEF Wait, history
  <2>2. \A q \in Procs : Live(q)' => Live(q) /\ In(q)' = In(q) /\ Out(q)' = Out(q)
    BY <2>1 DEF Live, In, Out
  <2>3. ASSUME NEW q \in Procs, Live(q), q > First
        PROVE  FALSE
    <3>1. q <= started /\ q \in Nat /\ curr_cmd = Commands
      BY <2>1, <2>3, BoundAssumption DEF Wired, Numbered, Procs, Counted
    <3>2. q \in (started - Commands + 1) .. started
      BY <2>3, <3>1, Numbers DEF First
    <3> QED BY <2>1, <2>3, <3>2 DEF Live
  <2>4. First' = First
    BY <2>1 DEF First
  <2>5. \A q \in Procs : ~(Live(q)' /\ Out(q)'.kind = "out")
    BY <2>1, <2>2, <2>3, <2>4, FilesStill
  <2> QED BY <2>1, <2>2, <2>5, FilesStill DEF Files
<1>7. CASE (\E p \in Procs : Process(p)) \/ UNCHANGED vars
  <2>1. /\ UNCHANGED <<pc, pipe_line, curr_cmd, started, crossed>> /\ fd'[Shell] = fd[Shell]
        /\ \A q \in Procs : Live(q)' => Live(q) /\ In(q)' = In(q) /\ Out(q)' = Out(q)
    <3>1. CASE \E p \in Procs : Process(p)
      BY <3>1, ProcessKeeps DEF shell, history
    <3>2. CASE UNCHANGED vars
      <4>1. UNCHANGED <<pc, pipe_line, curr_cmd, started, crossed, fd, proc>>
        BY <3>2 DEF vars, shell, history
      <4> QED BY <4>1 DEF Live, In, Out
    <3> QED BY <1>7, <3>1, <3>2
  <2>2. Straight' <=> Straight
    BY <2>1 DEF Straight
  <2> QED BY <2>1, <2>2, FilesStill DEF Files
<1> QED BY <1>1, <1>2, <1>3, <1>4, <1>5, <1>6, <1>7 DEF Next, Main

-----------------------------------------------------------------------------
(* The cursors in every step.                                              *)

LEMMA FlowInit == Init => Flow
<1> SUFFICES ASSUME Init PROVE Starting
  BY Start
<1>1. Inv /\ Counted
  BY InvInit, CountedInit
<1>2. /\ curr_cmd = 0 /\ pipe_line = NoPipeline /\ out = <<>> /\ before = <<>> /\ Commands = 0
  BY DEF Init, NoPipeline, Commands
<1>3. out = Kept
  BY <1>2 DEF Kept, NoPipeline
<1> QED BY <1>1, <1>2, <1>3 DEF Starting

LEMMA FlowPipe ==
  ASSUME Inv, Inv', Counted', Pipe
  PROVE  Flow'
<1>1. Starting'
  <2>1. PICK p \in Pipelines :
          /\ Len(p.progs) \in Nat \ {0} /\ pipe_line' = p
          /\ Len(content') = Len(content) + Len(p.progs) - 1
          /\ \A i \in 1 .. Len(p.progs) - 1 : content'[Len(content) + i] = <<>>
    BY PipeEnds
  <2>2. curr_cmd' = 0 /\ pc' = "redirect"
    BY DEF Pipe
  <2>3. Len(content) \in Nat
    BY DEF Inv, Types
  <2>4. Commands' = Len(p.progs) /\ Base' = Len(content)
    BY <2>1, <2>3 DEF Commands, Base
  <2> QED BY <2>1, <2>2, <2>4 DEF Starting
<1> QED BY <1>1, Start, PTL

LEMMA FlowRedirect ==
  ASSUME Inv, Inv', Counted, Counted', Flow, Redirect
  PROVE  Flow'
<1>1. Starting'
  <2>1. /\ pc = "redirect" /\ UNCHANGED <<pipe_line, curr_cmd, content>> /\ before' = out
        /\ out' = IF pipe_line.output = "out" /\ ~pipe_line.append THEN <<>> ELSE out
    BY DEF Redirect
  <2>2. curr_cmd = 0
    BY <2>1 DEF Inv, Places
  <2>3. PICK r \in Cursors, w \in Cursors, n \in 0 .. Len(Items) : Carried(r, w, n)
    BY DEF Flow, Carried
  <2>4. ASSUME NEW k \in 1 .. Commands - 1
        PROVE  content[Base + k] = <<>>
    <3>1. k \in 1 .. Commands /\ k + 1 \in 1 .. Commands
      BY Numbers
    <3>2. /\ r[k] = 0 /\ r[k + 1] = 0 /\ w[k] <= r[k] /\ w[k] \in 0 .. Len(Items)
          /\ content[Base + k] = Slice(r[k + 1], w[k])
      BY <2>2, <2>3, <3>1 DEF Carried, Flows, Cursors
    <3>3. content[Base + k] = Slice(0, 0)
      BY <3>2
    <3> QED BY <3>3, Slices
  <2>5. Commands' = Commands /\ Base' = Base /\ Kept' = out'
    BY <2>1 DEF Commands, Base, Kept
  <2> QED BY <2>1, <2>2, <2>4, <2>5 DEF Starting
<1> QED BY <1>1, Start, PTL

LEMMA FlowFork ==
  ASSUME Inv, Wired, Counted, Flow, Fork
  PROVE  Flow'
<1>1. PICK p, k, l, f, c : /\ p = started + 1 /\ k = curr_cmd + 1 /\ l = (k = Commands)
                           /\ f = First /\ c = Commands
  OBVIOUS
<1>2. /\ p \in Procs /\ k \in 1 .. c /\ pc = "fork" /\ First' = f /\ First = f /\ Live(p)'
      /\ c \in Nat /\ IF l THEN Out(p)'.kind # "pipe" ELSE Out(p)' = End(Base + k, "w")
      /\ proc'[p].hand = <<>> /\ proc'[p].pos = 0 /\ proc'[p].prog = pipe_line.progs[k]
      /\ \A q \in Procs \ {p} : (Live(q)' <=> Live(q)) /\ proc'[q] = proc[q] /\ fd'[q] = fd[q]
      /\ UNCHANGED <<pc, pipe_line, content>>
  BY <1>1, Forked
<1>3. curr_cmd' = k /\ UNCHANGED <<crossed, before, out>>
  BY <1>1 DEF Fork, history
<1>4. /\ Base' = Base /\ Commands' = c /\ Commands = c /\ Kept' = Kept /\ Cursors' = Cursors
      /\ (Straight' <=> Straight)
  BY <1>1, <1>2, <1>3 DEF Base, Commands, Kept, Cursors, Straight
<1>5. p = f + k /\ \A j \in 1 .. curr_cmd : f + j \in Procs \ {p}
  BY <1>1, <1>2, Numbers
<1>6. PICK r \in Cursors, w \in Cursors, n \in 0 .. Len(Items) : Carried(r, w, n)
  BY DEF Flow, Carried
<1>7. /\ r[k] = 0 /\ w[k] = 0 /\ n = 0 /\ Slice(w[k], r[k]) = <<>>
      /\ \A j \in 1 .. k : j = k \/ j \in 1 .. curr_cmd
      /\ \A j \in k + 1 .. c : j \in curr_cmd + 1 .. c
  <2>1. r[k] = 0 /\ w[k] <= r[k] /\ w[k] \in 0 .. Len(Items) /\ n = 0
    <3>1. k \in 1 .. Commands /\ k \in curr_cmd + 1 .. Commands /\ curr_cmd < Commands
      BY <1>1, <1>2, <1>4, Numbers
    <3>2. r[k] = 0 /\ w[k] <= r[k]
      BY <1>6, <3>1 DEF Carried, Flows
    <3> QED BY <1>6, <3>1, <3>2 DEF Carried, Comes, Cursors
  <2>2. Slice(0, 0) = <<>>
    BY Slices
  <2>3. w[k] = 0
    BY <2>1, Numbers
  <2>4. curr_cmd \in Nat /\ k = curr_cmd + 1
    BY <1>1, Numbers
  <2> QED BY <2>1, <2>2, <2>3, <2>4
<1>8. Flows(r, w)'
  <2>1. ASSUME NEW j \in 1 .. k, Live(f + j)'
        PROVE  /\ proc'[f + j].hand = Slice(w[j], r[j])
               /\ j = 1 => proc'[f + j].pos = r[j]
    <3>1. CASE j = k
      BY <1>2, <1>5, <1>7, <3>1
    <3>2. CASE j \in 1 .. curr_cmd
      <4>1. Live(f + j) /\ proc'[f + j] = proc[f + j]
        BY <1>2, <1>5, <2>1, <3>2
      <4> QED BY <1>2, <1>6, <3>2, <4>1 DEF Carried, Flows
    <3> QED BY <1>7, <3>1, <3>2
  <2> QED BY <1>2, <1>3, <1>4, <1>6, <1>7, <2>1 DEF Carried, Flows
<1>9. Comes(w, n)'
  BY <1>1, <1>2, <1>3, <1>4, <1>6, <1>7 DEF Carried, Comes
<1>10. Whole(r, w, n)'
  <2> SUFFICES ASSUME Straight
               PROVE  /\ n = w[c]
                      /\ \A j \in 1 .. k :
                           /\ Live(f + j)' => proc'[f + j].prog = "copy"
                           /\ ~Live(f + j)' => r[j] = Len(Items) /\ w[j] = Len(Items)
    BY <1>2, <1>3, <1>4 DEF Whole
  <2>1. /\ n = w[c]
        /\ \A j \in 1 .. curr_cmd :
             /\ Live(f + j) => proc[f + j].prog = "copy"
             /\ ~Live(f + j) => r[j] = Len(Items) /\ w[j] = Len(Items)
    BY <1>2, <1>4, <1>6 DEF Carried, Whole
  <2>2. pipe_line.progs[k] = "copy"
    <3>1. k \in DOMAIN pipe_line.progs
      BY <1>1, <1>2, Numbers DEF Commands
    <3> QED BY <3>1 DEF Straight, Range
  <2> QED BY <1>2, <1>5, <1>7, <2>1, <2>2
<1> QED BY <1>4, <1>6, <1>8, <1>9, <1>10 DEF Flow

LEMMA FlowNext ==
  ASSUME Inv, Inv', Wired, Counted, Counted', Files, Flow, [Next]_vars
  PROVE  Flow'
<1>1. CASE Pipe
  BY <1>1, FlowPipe
<1>2. CASE Redirect
  BY <1>2, FlowRedirect
<1>3. CASE Fork
  BY <1>3, FlowFork
<1>4. CASE Close \/ Reset \/ Wait \/ UNCHANGED vars
  <2>1. /\ UNCHANGED <<proc, pipe_line, curr_cmd, started, content, out, before, crossed>>
        /\ pc' # "redirect" => pc # "redirect"
    BY <1>4 DEF Close, Reset, Wait, vars, shell, history
  <2>2. \A q \in Procs : fd'[q] = fd[q]
    BY <1>4 DEF Close, Reset, Wait, vars, Inv, Types, TypeOK, Shell, Procs
  <2>3. \A q \in Procs : Still(q)
    BY <2>1, <2>2, StillFacts
  <2>4. \A k \in 1 .. curr_cmd : Live(First + k) => Live(First + k)'
    <3>1. First' = First
      BY <2>1 DEF First
    <3> QED BY <2>3, <3>1, Numbers DEF Still
  <2>5. PICK r \in Cursors, w \in Cursors, n \in 0 .. Len(Items) : Carried(r, w, n)
    BY DEF Flow, Carried
  <2> QED BY <2>1, <2>3, <2>4, <2>5, FlowSame DEF Still
<1>5. ASSUME NEW p \in Procs, Process(p) PROVE Flow'
  BY <1>5, FlowExec, FlowReading, FlowWriting DEF Process
<1> QED BY <1>1, <1>2, <1>3, <1>4, <1>5 DEF Next, Main

\* A pipeline of programs that copy leaves the whole input in its output file, after
\* what was there with `>>', and nothing else gets into the file, in whatever order the
\* programs run: when no pipeline in the background writes to it as well (cush does not
\* keep two from mixing what they write).
THEOREM OutputComes == ASSUME OneWriter PROVE Spec => []OutputArrives
<1>1. Inv /\ Counted /\ Flow => OutputArrives
  <2> SUFFICES ASSUME Inv, Counted, Flow PROVE OutputArrives
    OBVIOUS
  <2>1. PICK r \in Cursors, w \in Cursors, n \in 0 .. Len(Items) : Carried(r, w, n)
    BY DEF Flow, Carried
  <2>2. Slice(0, n) = SubSeq(Items, 1, n)
    BY DEF Slice
  <2>3. pc # "redirect" => out = Kept \o SubSeq(Items, 1, n)
    BY <2>1, <2>2 DEF Carried, Comes
  <2>4. ASSUME pc = "prompt", Straight
        PROVE  out = Kept \o Items
    <3>1. Commands \in Nat \ {0} /\ curr_cmd = Commands /\ First + Commands = started
      <4>1. Commands # 0
        BY <2>4, Numbers DEF Straight, Commands, Range
      <4> QED BY <2>4, <4>1, Numbers DEF Counted
    <3>2. ~pipe_line.bg
      BY <2>4 DEF OneWriter, Straight, Inv, Types, NoPipeline
    <3>3. ~Live(First + Commands)
      BY <2>4, <3>1, <3>2 DEF Counted
    <3>4. n = Len(Items)
      BY <2>1, <2>4, <3>1, <3>3 DEF Carried, Whole
    <3> QED BY <2>3, <2>4, <2>2, <3>4, Slices
  <2> QED BY <2>1, <2>3, <2>4 DEF OutputArrives, Kept, Straight
<1>2. Init => Counted /\ Files /\ Flow
  BY CountedInit, FilesInit, FlowInit
<1>3. Inv /\ Wired /\ Arriving /\ [Next]_vars => Arriving'
  BY InvNext, CountedNext, FilesNext, FlowNext DEF Arriving
<1>4. Init => Arriving
  BY <1>2 DEF Arriving
<1>5. Inv /\ Arriving => OutputArrives
  BY <1>1 DEF Arriving
<1> QED BY <1>3, <1>4, <1>5, Invariance, InvNext, WiredInit, WiredNext, PTL DEF Spec
=============================================================================
