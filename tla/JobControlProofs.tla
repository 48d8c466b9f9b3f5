--------------------------- MODULE JobControlProofs ---------------------------
(* Theorems about JobControl, for every set of processes, every size of    *)
(* the job table and every choice of user input and outside events.        *)
EXTENDS JobControlProperties, TLAPS, FiniteSetTheorems, SequenceTheorems,
        WellFoundedInduction

-----------------------------------------------------------------------------
(* Sequences and job records.                                              *)

(* Removing one element of the job list keeps the others, each at its      *)
(* place or one place further to the front (list_remove in main).          *)
LEMMA RemoveAtProperties ==
  ASSUME NEW S, NEW s \in Seq(S), NEW i \in DOMAIN s
  PROVE  /\ RemoveAt(s, i) \in Seq(S)
         /\ Len(RemoveAt(s, i)) = Len(s) - 1
         /\ \A k \in 1 .. (Len(s) - 1) :
              RemoveAt(s, i)[k] = IF k < i THEN s[k] ELSE s[k + 1]
<1> DEFINE a == SubSeq(s, 1, i - 1)
           b == SubSeq(s, i + 1, Len(s))
<1>1. i \in 1 .. Len(s) /\ Len(s) \in Nat
  BY LenProperties
<1>2. /\ a \in Seq(S) /\ Len(a) = i - 1
      /\ \A k \in 1 .. (i - 1) : a[k] = s[k]
  <2>1. CASE i = 1
    BY <2>1, <1>1, SubSeqProperties
  <2>2. CASE i # 1
    BY <2>2, <1>1, SubSeqProperties
  <2> QED BY <2>1, <2>2
<1>3. /\ b \in Seq(S) /\ Len(b) = Len(s) - i
      /\ \A k \in 1 .. (Len(s) - i) : b[k] = s[i + k]
  <2>1. CASE i = Len(s)
    BY <2>1, <1>1, SubSeqProperties
  <2>2. CASE i # Len(s)
    BY <2>2, <1>1, SubSeqProperties
  <2> QED BY <2>1, <2>2
<1>4. /\ a \o b \in Seq(S) /\ Len(a \o b) = Len(s) - 1
      /\ \A k \in 1 .. (Len(s) - 1) :
           (a \o b)[k] = IF k <= i - 1 THEN a[k] ELSE b[k - (i - 1)]
  <2> HIDE DEF a, b
  <2> QED BY <1>1, <1>2, <1>3, ConcatProperties, SMTT(30)
<1>5. ASSUME NEW k \in 1 .. (Len(s) - 1)
      PROVE  (a \o b)[k] = IF k < i THEN s[k] ELSE s[k + 1]
  <2> HIDE DEF a, b
  <2>1. CASE k < i
    BY <2>1, <1>1, <1>2, <1>4
  <2>2. CASE ~ (k < i)
    <3>1. k - (i - 1) \in 1 .. (Len(s) - i) /\ i + (k - (i - 1)) = k + 1
      BY <2>2, <1>1
    <3> QED BY <2>2, <3>1, <1>1, <1>3, <1>4, SMTT(30)
  <2> QED BY <2>1, <2>2
<1> QED BY <1>4, <1>5 DEF RemoveAt

(* The updates that the shell makes to a job record yield job records.     *)
LEMMA JobUpdates ==
  ASSUME NEW r \in Job
  PROVE  /\ \A state : state \in {"stopped", "exited", "signaled"}
                         => AfterReport(r, state) \in Job
         /\ \A st \in Status : [r EXCEPT !.status = st] \in Job
         /\ \A g \in Pid \cup {NULL}, S \in SUBSET Pid :
              [r EXCEPT !.pgid = g, !.pid = S, !.num_processes_alive = @ + 1] \in Job
<1>1. OnStop(r) \in Job /\ OnExit(r) \in Job /\ OnSignal(r) \in Job
  BY DEF Job, Status, OnStop, OnExit, OnSignal
<1>2. \A state : state \in {"stopped", "exited", "signaled"}
                   => AfterReport(r, state) \in Job
  BY <1>1 DEF AfterReport
<1>3. \A st \in Status : [r EXCEPT !.status = st] \in Job
  BY DEF Job
<1>4. ASSUME NEW g \in Pid \cup {NULL}, NEW S \in SUBSET Pid
      PROVE  [r EXCEPT !.pgid = g, !.pid = S, !.num_processes_alive = @ + 1] \in Job
  <2>1. r.num_processes_alive + 1 \in Int
    BY DEF Job
  <2>2. ASSUME NEW n \in Int
        PROVE  [r EXCEPT !.pgid = g, !.pid = S, !.num_processes_alive = n] \in Job
    BY DEF Job
  <2> QED BY <2>1, <2>2
<1> QED BY <1>2, <1>3, <1>4

-----------------------------------------------------------------------------
(* First layer: types and the job table.                                   *)

Held == {"fork", "record", "launched", "wait", "back", "fgcont", "fggive", "bgset"}

(* The main program holds a job exactly in the labels of Held, and that    *)
(* job is in the table.                                                    *)
CurOK ==
  /\ pc \in Held => cur # 0
  /\ pc \in {"clean", "prompt", "execute"} => cur = 0
  /\ CurrentJobListed

CountOK ==
  /\ pc \in {"fork", "record"} => curr_cmd < total_commands
  /\ pc \notin {"fork", "record", "launched"} \cup Ended => curr_cmd = 0
  /\ child # NULL => pc \in {"record"} \cup Ended

TableInv == TypeOK /\ ListMatchesArray /\ CurOK /\ CountOK

(* get_job_from_pid returns the NULL job or a listed one.                  *)
LEMMA PidLookup ==
  ASSUME TableInv, NEW p \in Pid
  PROVE  LET j == get_job_from_pid(p) IN
         \/ j = 0 /\ \A i \in DOMAIN job_list : ~ Owns(i, p)
         \/ /\ j \in Jid /\ Listed(j) /\ jid2job[j] \in Job
            /\ p \in jid2job[j].pid
<1> DEFINE D == DOMAIN job_list
           First(i) == Owns(i, p) /\ \A k \in 1 .. (i - 1) : ~ Owns(k, p)
<1>1. D = 1 .. Len(job_list) /\ Len(job_list) \in Nat
  BY LenProperties DEF TableInv, TypeOK
<1>2. CASE ~ \E i \in D : Owns(i, p)
  BY <1>2 DEF get_job_from_pid
<1>3. CASE \E i \in D : Owns(i, p)
  <2>1. \E i \in D : First(i)
    <3> DEFINE Hits == {i \in D : Owns(i, p)}
    <3>1. Hits \in SUBSET Nat /\ Hits # {}
      BY <1>1, <1>3
    <3>2. \E i \in Hits : \A k \in Hits : ~ (<<k, i>> \in OpToRel(<, Nat))
      <4> HIDE DEF Hits
      <4> QED BY <3>1, NatLessThanWellFounded, WFMin
    <3>3. PICK i \in Hits : \A k \in Hits : ~ (k < i)
      <4> HIDE DEF Hits
      <4> QED BY <3>1, <3>2 DEF OpToRel
    <3>4. i \in D /\ \A k \in 1 .. (i - 1) : k \in D /\ k < i
      BY <3>3, <1>1
    <3> QED BY <3>3, <3>4
  <2>2. PICK i : i = (CHOOSE k \in D : First(k)) /\ i \in D /\ First(i)
    BY <2>1
  <2>3. get_job_from_pid(p) = job_list[i]
    BY <1>3, <2>2 DEF get_job_from_pid
  <2>4. job_list[i] \in Jid
    BY <2>2, <1>1, ElementOfSeq DEF TableInv, TypeOK
  <2>5. Listed(job_list[i]) /\ p \in jid2job[job_list[i]].pid
    BY <2>2 DEF Listed, Owns
  <2>6. jid2job[job_list[i]] \in Job
    BY <2>4, <2>5 DEF TableInv, TypeOK, ListMatchesArray
  <2> QED BY <2>3, <2>4, <2>5, <2>6
<1> QED BY <1>2, <1>3

(* Writing a job record over a listed job keeps the table consistent.      *)
LEMMA JobReplaced ==
  ASSUME TypeOK, ListMatchesArray,
         NEW j \in Jid, jid2job[j] # NULL, NEW r \in Job,
         jid2job' = [jid2job EXCEPT ![j] = r], job_list' = job_list
  PROVE  /\ jid2job' \in [Jid -> Job \cup {NULL}]
         /\ ListMatchesArray'
         /\ \A k : Listed(k)' <=> Listed(k)
         /\ \A k \in Jid : (jid2job[k] # NULL)' <=> jid2job[k] # NULL
<1>1. jid2job' \in [Jid -> Job \cup {NULL}]
  BY DEF TypeOK
<1>2. \A k : Listed(k)' <=> Listed(k)
  BY DEF Listed
<1>3. \A k \in Jid : jid2job'[k] # NULL <=> jid2job[k] # NULL
  BY JobAssumption DEF TypeOK
<1>4. ListMatchesArray'
  BY <1>2, <1>3 DEF ListMatchesArray
<1> QED BY <1>1, <1>2, <1>3, <1>4

LEMMA TableInvInit == Init => TableInv
<1> SUFFICES ASSUME Init PROVE TableInv
  OBVIOUS
<1>1. job_list \in Seq(Jid) /\ DOMAIN job_list = {}
  BY DEF Init
<1>2. \A j : ~ Listed(j)
  BY <1>1 DEF Listed
<1>3. TypeOK
  <2>1. /\ jid2job \in [Jid -> Job \cup {NULL}]
        /\ proc \in [Pid -> ProcState]
        /\ pgrp \in [Pid -> Pid \cup {Shell, NULL}]
        /\ pend \in [Pid -> {"none", "stop", "kill"}]
    BY DEF Init, ProcState
  <2>2. 0 \in 0 .. MaxPipeline
    BY BoundAssumption DEF MAX_CAP
  <2>3. pc \in Label /\ cur = 0 /\ it \in Nat /\ ret = "execute"
    BY DEF Init, Label
  <2> QED BY <1>1, <2>1, <2>2, <2>3 DEF TypeOK, Init
<1>4. ListMatchesArray
  BY <1>1, <1>2 DEF ListMatchesArray, Init
<1>5. CurOK /\ CountOK
  BY DEF Init, CurOK, CountOK, Held, Ended, CurrentJobListed
<1> QED BY <1>3, <1>4, <1>5 DEF TableInv

(* handle_child_status and waitpid, as one turn of the loop in the handler *)
(* and in wait_for_job.                                                    *)
LEMMA TableInvReap ==
  ASSUME TableInv, NEW p \in Pid, Up, Waitable(p),
         handle_child_status(p), waitpid(p),
         UNCHANGED <<job_list, cur, launch, it, ret, signals, tty>>
  PROVE  TableInv'
<1> DEFINE j == get_job_from_pid(p)
<1> USE DEF TableInv
<1>1. /\ proc' \in [Pid -> ProcState]
      /\ pgrp' \in [Pid -> Pid \cup {Shell, NULL}]
      /\ pend' \in [Pid -> {"none", "stop", "kill"}]
  BY DEF waitpid, TypeOK, ProcState
<1>2. CASE j = 0
  <2>1. pc' = "crashed" /\ UNCHANGED jid2job
    BY <1>2 DEF handle_child_status
  <2>2. TypeOK'
    BY <1>1, <2>1 DEF TypeOK, Ended, launch, signals
  <2>3. ListMatchesArray' /\ CurOK' /\ CountOK'
    BY <2>1 DEF ListMatchesArray, CurOK, CountOK, CurrentJobListed, Listed,
                Held, Ended
  <2> QED BY <2>2, <2>3
<1>3. CASE j # 0
  <2> DEFINE r == AfterReport(jid2job[j], proc[p])
  <2>1. j \in Jid /\ jid2job[j] \in Job
    BY <1>3, PidLookup
  <2>2. jid2job' = [jid2job EXCEPT ![j] = r] /\ UNCHANGED pc
    BY <1>3 DEF handle_child_status
  <2>3. jid2job[j] # NULL /\ r \in Job
    BY <2>1, JobAssumption, JobUpdates DEF Waitable
  <2> HIDE DEF j, r
  <2>4. /\ jid2job' \in [Jid -> Job \cup {NULL}]
        /\ ListMatchesArray'
        /\ \A k : Listed(k)' <=> Listed(k)
        /\ \A k \in Jid : (jid2job[k] # NULL)' <=> jid2job[k] # NULL
    BY <2>1, <2>2, <2>3, JobReplaced
  <2>5. TypeOK'
    BY <1>1, <2>2, <2>4 DEF TypeOK, launch, signals
  <2>6. CurOK' /\ CountOK'
    BY <2>2, <2>4 DEF CurOK, CountOK, CurrentJobListed, TypeOK, launch
  <2> QED BY <2>4, <2>5, <2>6
<1> QED BY <1>2, <1>3

(* An action that leaves the table and cur alone.                          *)
LEMMA TableKept ==
  ASSUME TableInv, UNCHANGED table
  PROVE  /\ jid2job' \in [Jid -> Job \cup {NULL}] /\ job_list' \in Seq(Jid)
         /\ ListMatchesArray'
         /\ cur' \in {cur, 0} => CurrentJobListed'
<1>1. job_list' = job_list /\ jid2job' = jid2job
  BY DEF table
<1>2. ListMatchesArray'
  BY <1>1 DEF TableInv, ListMatchesArray, Listed
<1>3. cur' \in {cur, 0} => CurrentJobListed'
  BY <1>1 DEF TableInv, CurOK, CurrentJobListed, Listed
<1> QED BY <1>1, <1>2, <1>3 DEF TableInv, TypeOK

(* The pieces of the kernel keep their types.                              *)
LEMMA ContTypes ==
  ASSUME TypeOK, NEW g, killpgCONT(g)
  PROVE  /\ proc' \in [Pid -> ProcState]
         /\ pend' \in [Pid -> {"none", "stop", "kill"}]
         /\ sigchld' \in BOOLEAN
<1>1. proc' \in [Pid -> ProcState] /\ pend' \in [Pid -> {"none", "stop", "kill"}]
  BY DEF TypeOK, killpgCONT, ProcState
<1>2. sigchld' \in BOOLEAN
  BY DEF TypeOK, killpgCONT
<1> QED BY <1>1, <1>2

LEMMA ChangeTypes ==
  ASSUME TypeOK, NEW p \in Pid, NEW state \in ProcState, ChangesTo(p, state)
  PROVE  /\ proc' \in [Pid -> ProcState]
         /\ sigchld' \in BOOLEAN
BY DEF TypeOK, ChangesTo

(* The terminal is only ever given to a group whose leader is a process.   *)
LEMMA GiveTypes ==
  ASSUME TypeOK, NEW j \in Jid, jid2job[j] # NULL,
         termstate_give_terminal_to(jid2job[j].pgid)
  PROVE  tty' \in Pid \cup {Shell} /\ pc' \in {"wait", "failed"}
<1>1. jid2job[j].pgid \in Pid \cup {NULL}
  BY DEF TypeOK, Job
<1> QED BY <1>1 DEF TypeOK, termstate_give_terminal_to, GroupExists


(* The steps of the main program and the handler that leave the job table  *)
(* alone.                                                                  *)
LEMMA TableInvKept ==
  ASSUME TableInv,
         \/ HandlerEnter \/ HandlerReturn \/ CleanDone \/ ReadLine \/ EndOfLine
         \/ ForkFails \/ LaunchForeground \/ WaitFails \/ WaitDone \/ Back
         \/ Inform \/ Exit \/ FgCont \/ FgGive
  PROVE  TableInv'
<1>1. CASE HandlerEnter
  BY <1>1, TableKept DEF HandlerEnter, At, TableInv, TypeOK, CurOK, CountOK, Held, Ended, Label, control, launch,
       signals, kernel
<1>2. CASE HandlerReturn
  BY <1>2, TableKept, ZenonT(40) DEF HandlerReturn, At, TableInv, TypeOK, CurOK, CountOK, Held, Ended, Label, control, launch,
       signals, kernel
<1>3. CASE CleanDone
  BY <1>3, TableKept DEF CleanDone, At, TableInv, TypeOK, CurOK, CountOK, Held, Ended, Label, control, launch,
       signals, kernel
<1>4. CASE ReadLine
  BY <1>4, TableKept DEF ReadLine, At, TableInv, TypeOK, CurOK, CountOK, Held, Ended, Label, control, launch,
       signals, kernel
<1>5. CASE EndOfLine
  BY <1>5, TableKept DEF EndOfLine, At, TableInv, TypeOK, CurOK, CountOK, Held, Ended, Label, control, launch,
       signals, kernel
<1>6. CASE ForkFails
  BY <1>6, TableKept DEF ForkFails, signal_block, At, TableInv, TypeOK, CurOK, CountOK, Held, Ended, Label, control, launch,
       signals, kernel
<1>7. CASE LaunchForeground
  <2>1. cur \in Jid /\ jid2job[cur] # NULL /\ UNCHANGED table
    BY <1>7 DEF LaunchForeground, At, TableInv, TypeOK, CurOK, Held, CurrentJobListed
  <2>2. tty' \in Pid \cup {Shell} /\ pc' \in {"wait", "failed"}
    BY <1>7, <2>1, GiveTypes DEF LaunchForeground, TableInv
  <2>3. 0 \in 0 .. MaxPipeline
    BY BoundAssumption DEF MAX_CAP
  <2> QED BY <1>7, <2>1, <2>2, <2>3, TableKept
          DEF LaunchForeground, Launched, At, TableInv, TypeOK, CurOK, CountOK, Held, Ended, Label, control, launch,
              signals, kernel
<1>8. CASE WaitFails
  BY <1>8, TableKept DEF WaitFails, At, TableInv, TypeOK, CurOK, CountOK, Held, Ended, Label, control, launch,
       signals, kernel
<1>9. CASE WaitDone
  BY <1>9, TableKept DEF WaitDone, At, TableInv, TypeOK, CurOK, CountOK, Held, Ended, Label, control, launch,
       signals, kernel
<1>10. CASE Back
  BY <1>10, TableKept DEF Back, terminal_back_to_shell, signal_unblock, At, TableInv, TypeOK, CurOK, CountOK, Held, Ended, Label, control, launch,
       signals, kernel
<1>11. CASE Inform
  BY <1>11, TableKept DEF Inform, At, TableInv, TypeOK, CurOK, CountOK, Held, Ended, Label, control, launch,
       signals, kernel
<1>12. CASE Exit
  BY <1>12, TableKept DEF Exit, At, TableInv, TypeOK, CurOK, CountOK, Held, Ended, Label, control, launch,
       signals, kernel
<1>13. CASE FgCont
  BY <1>13, TableKept, ContTypes DEF FgCont, At, TableInv, TypeOK, CurOK, CountOK, Held, Ended, Label, control, launch,
       signals, kernel
<1>14. CASE FgGive
  <2>1. cur \in Jid /\ jid2job[cur] # NULL /\ Listed(cur) /\ UNCHANGED table
    BY <1>14 DEF FgGive, At, TableInv, TypeOK, CurOK, Held, CurrentJobListed
  <2>2. tty' \in Pid \cup {Shell} /\ pc' \in {"wait", "failed"}
    BY <1>14, <2>1, GiveTypes DEF FgGive, TableInv, get_process_pgid
  <2> QED BY <1>14, <2>1, <2>2, TableKept DEF FgGive, signal_block, At, TableInv, TypeOK, CurOK, CountOK, Held, Ended, Label, control, launch,
              signals, kernel
<1> QED BY <1>1, <1>2, <1>3, <1>4, <1>5, <1>6, <1>7, <1>8, <1>9, <1>10, <1>11, <1>12, <1>13, <1>14

LEMMA TableInvFork ==
  ASSUME TableInv, NEW p \in Pid, Fork(p)
  PROVE  TableInv'
BY TableKept DEF Fork, signal_block, ProcState, At, TableInv, TypeOK, CurOK, CountOK, Held, Ended, Label, control, launch,
       signals, kernel

LEMMA TableInvKill ==
  ASSUME TableInv, NEW j \in Jid \cup {0}, Kill(j)
  PROVE  TableInv'
BY TableKept DEF Kill, killpgKILL, At, TableInv, TypeOK, CurOK, CountOK, Held, Ended, Label, control, launch,
       signals, kernel

LEMMA TableInvStop ==
  ASSUME TableInv, NEW j \in Jid \cup {0}, Stop(j)
  PROVE  TableInv'
BY TableKept DEF Stop, killpgSTOP, At, TableInv, TypeOK, CurOK, CountOK, Held, Ended, Label, control, launch,
       signals, kernel

LEMMA TableInvBg ==
  ASSUME TableInv, NEW j \in Jid \cup {0}, Bg(j)
  PROVE  TableInv'
<1>1. CASE get_job_from_jid(j) = 0
  BY <1>1, TableKept DEF Bg, At, TableInv, TypeOK, CurOK, CountOK, Held, Ended, Label, control, launch,
       signals, kernel
<1>2. CASE get_job_from_jid(j) # 0 /\ GroupExists(get_process_pgid(j))
  <2>1. j \in Jid /\ jid2job[j] # NULL /\ Listed(j)
    BY <1>2 DEF get_job_from_jid, TableInv, ListMatchesArray
  <2>2. /\ proc' \in [Pid -> ProcState] /\ sigchld' \in BOOLEAN
        /\ pend' \in [Pid -> {"none", "stop", "kill"}]
    BY <1>2, ContTypes DEF Bg, TableInv
  <2>3. CurrentJobListed'
    BY <1>2, <2>1 DEF Bg, table, CurrentJobListed, Listed
  <2>4. /\ pc = "execute" /\ pc' = "bgset" /\ cur' = j /\ UNCHANGED table
        /\ UNCHANGED <<total_commands, curr_cmd, child, it, ret, blocked, handling, pgrp, tty>>
    BY <1>2 DEF Bg, At, launch
  <2>5. TypeOK'
    BY <2>1, <2>2, <2>4 DEF table, TableInv, TypeOK, Label
  <2>6. CurOK' /\ CountOK'
    BY <2>1, <2>3, <2>4 DEF TableInv, CurOK, CountOK, Held, Ended, Jid
  <2>7. ListMatchesArray'
    BY <2>4, TableKept
  <2> QED BY <2>5, <2>6, <2>7 DEF TableInv
<1>3. CASE get_job_from_jid(j) # 0 /\ ~ GroupExists(get_process_pgid(j))
  BY <1>3, TableKept DEF Bg, At, TableInv, TypeOK, CurOK, CountOK, Held, Ended, Label, control, launch,
       signals, kernel
<1> QED BY <1>1, <1>2, <1>3

LEMMA TableInvhandle_child_process ==
  ASSUME TableInv, NEW p \in Pid, handle_child_process(p)
  PROVE  TableInv'
<1>1. proc' \in [Pid -> ProcState]
  BY DEF handle_child_process, TableInv, TypeOK, ProcState
<1>2. ASSUME p = child
      PROVE  GroupOfJob \in Pid \cup {NULL}
  <2>1. pc = "record"
    BY <1>2, NULLAssumption DEF handle_child_process, Up, TableInv, CountOK
  <2>2. cur \in Jid /\ jid2job[cur] \in Job
    BY <2>1 DEF TableInv, TypeOK, CurOK, Held, CurrentJobListed
  <2> QED BY <1>2, <2>2 DEF GroupOfJob, Job
<1>3. pgrp' \in [Pid -> Pid \cup {Shell, NULL}]
  BY <1>2 DEF handle_child_process, Joined, TableInv, TypeOK
<1> QED BY <1>1, <1>3, TableKept DEF handle_child_process, At, TableInv, TypeOK, CurOK, CountOK, Held, Ended, Label, control, launch,
       signals, kernel

LEMMA TableInvProcessExits ==
  ASSUME TableInv, NEW p \in Pid, ProcessExits(p)
  PROVE  TableInv'
BY TableKept DEF ProcessExits, ChangesTo, ProcState, At, TableInv, TypeOK, CurOK, CountOK, Held, Ended, Label, control, launch,
       signals, kernel

LEMMA TableInvTakesSignal ==
  ASSUME TableInv, NEW p \in Pid, TakesSignal(p)
  PROVE  TableInv'
<1>1. proc' \in [Pid -> ProcState] /\ sigchld' \in BOOLEAN
  BY ChangeTypes DEF TakesSignal, TableInv, ProcState
<1> QED BY <1>1, TableKept, ZenonT(40) DEF TakesSignal, At, TableInv, TypeOK, CurOK, CountOK, Held, Ended, Label, control, launch,
       signals, kernel

LEMMA TableInvOutsideSignal ==
  ASSUME TableInv, NEW p \in Pid, OutsideSignal(p)
  PROVE  TableInv'
<1>1. proc' \in [Pid -> ProcState] /\ sigchld' \in BOOLEAN
  BY ChangeTypes DEF OutsideSignal, TableInv, ProcState
<1> QED BY <1>1, TableKept DEF OutsideSignal, At, TableInv, TypeOK, CurOK, CountOK, Held, Ended, Label, control, launch,
       signals, kernel

(* Deleting a job removes it, and no other, from list and array.           *)
LEMMA JobRemoved ==
  ASSUME TypeOK, ListMatchesArray, NEW i \in DOMAIN job_list,
         job_list' = RemoveAt(job_list, i), delete_job(job_list[i])
  PROVE  /\ job_list[i] \in Jid
         /\ job_list' \in Seq(Jid)
         /\ jid2job' \in [Jid -> Job \cup {NULL}]
         /\ ListMatchesArray'
         /\ \A k : Listed(k)' <=> Listed(k) /\ k # job_list[i]
<1> DEFINE j == job_list[i]
           n == Len(job_list)
<1>1. n \in Nat /\ DOMAIN job_list = 1 .. n /\ i \in 1 .. n /\ j \in Jid
  BY LenProperties, ElementOfSeq DEF TypeOK
<1>2. /\ job_list' \in Seq(Jid) /\ Len(job_list') = n - 1
      /\ \A k \in 1 .. (n - 1) :
           job_list'[k] = IF k < i THEN job_list[k] ELSE job_list[k + 1]
  BY RemoveAtProperties DEF TypeOK
<1>3. DOMAIN job_list' = 1 .. (n - 1)
  BY <1>2, LenProperties
<1>4. jid2job' \in [Jid -> Job \cup {NULL}]
  BY DEF delete_job, TypeOK
<1>5. \A k, m \in 1 .. n : job_list[k] = job_list[m] => k = m
  BY <1>1 DEF ListMatchesArray
<1>6. ASSUME NEW k \in 1 .. (n - 1), NEW m \in 1 .. (n - 1),
             job_list'[k] = job_list'[m]
      PROVE  k = m
  <2> DEFINE f(x) == IF x < i THEN x ELSE x + 1
  <2>1. f(k) \in 1 .. n /\ f(m) \in 1 .. n
    BY <1>1
  <2>2. job_list'[k] = job_list[f(k)] /\ job_list'[m] = job_list[f(m)]
    BY <1>2
  <2>3. f(k) = f(m)
    BY <1>5, <1>6, <2>1, <2>2
  <2> QED BY <1>1, <2>3
<1>7. ASSUME NEW k
      PROVE  Listed(k)' <=> Listed(k) /\ k # j
  <2>1. ASSUME NEW m \in 1 .. (n - 1), job_list'[m] = k
        PROVE  Listed(k) /\ k # j
    <3>1. CASE m < i
      BY <3>1, <2>1, <1>1, <1>2, <1>5 DEF Listed
    <3>2. CASE ~ (m < i)
      <4>1. m + 1 \in 1 .. n /\ m + 1 # i /\ job_list[m + 1] = k
        BY <3>2, <2>1, <1>1, <1>2
      <4> QED BY <4>1, <1>1, <1>5 DEF Listed
    <3> QED BY <3>1, <3>2
  <2>2. ASSUME NEW m \in 1 .. n, job_list[m] = k, k # j
        PROVE  Listed(k)'
    <3>1. CASE m < i
      BY <3>1, <2>2, <1>1, <1>2, <1>3 DEF Listed
    <3>2. CASE m > i
      <4>1. m - 1 \in 1 .. (n - 1) /\ ~ (m - 1 < i) /\ (m - 1) + 1 = m
        BY <3>2, <1>1
      <4> QED BY <4>1, <2>2, <1>2, <1>3 DEF Listed
    <3> QED BY <3>1, <3>2, <2>2, <1>1
  <2> QED BY <2>1, <2>2, <1>1, <1>3 DEF Listed
<1>8. \A k \in Jid : jid2job'[k] # NULL <=> jid2job[k] # NULL /\ k # j
  BY <1>1 DEF delete_job, TypeOK
<1>9. ListMatchesArray'
  BY <1>3, <1>6, <1>7, <1>8 DEF ListMatchesArray
<1> QED BY <1>1, <1>2, <1>4, <1>7, <1>9

LEMMA TableInvCleanStep ==
  ASSUME TableInv, CleanStep
  PROVE  TableInv'
<1> USE DEF TableInv
<1>1. it \in DOMAIN job_list /\ pc = "clean" /\ cur = 0
  BY DEF CleanStep, At, CurOK
<1>2. CASE Deletable(jid2job[job_list[it]])
  <2>1. job_list' = RemoveAt(job_list, it) /\ delete_job(job_list[it])
    BY <1>2 DEF CleanStep
  <2>2. /\ job_list' \in Seq(Jid) /\ jid2job' \in [Jid -> Job \cup {NULL}]
        /\ ListMatchesArray'
    BY <1>1, <2>1, JobRemoved
  <2> QED BY <1>1, <1>2, <2>2
          DEF CleanStep, CurrentJobListed, At, TableInv, TypeOK, CurOK, CountOK, Held, Ended, Label, control, launch,
         signals, kernel
<1>3. CASE ~ Deletable(jid2job[job_list[it]])
  BY <1>1, <1>3, TableKept DEF CleanStep, At, TableInv, TypeOK, CurOK, CountOK, Held, Ended, Label, control, launch,
         signals, kernel
<1> QED BY <1>2, <1>3

(* add_job appends a job under an id that was free.                        *)
LEMMA JobAdded ==
  ASSUME TypeOK, ListMatchesArray, NEW j \in FreeJid, NEW r \in Job,
         job_list' = Append(job_list, j), jid2job' = [jid2job EXCEPT ![j] = r]
  PROVE  /\ job_list' \in Seq(Jid)
         /\ jid2job' \in [Jid -> Job \cup {NULL}]
         /\ ListMatchesArray'
         /\ \A k : Listed(k)' <=> Listed(k) \/ k = j
<1> DEFINE n == Len(job_list)
<1>1. j \in Jid /\ jid2job[j] = NULL /\ ~ Listed(j)
  BY DEF FreeJid, ListMatchesArray
<1>2. n \in Nat /\ DOMAIN job_list = 1 .. n
  BY LenProperties DEF TypeOK
<1>3. /\ job_list' \in Seq(Jid) /\ Len(job_list') = n + 1
      /\ \A i \in 1 .. n : job_list'[i] = job_list[i]
      /\ job_list'[n + 1] = j
  BY <1>1, AppendProperties DEF TypeOK
<1>4. DOMAIN job_list' = 1 .. (n + 1)
  BY <1>3, LenProperties
<1>5. \A k : Listed(k)' <=> Listed(k) \/ k = j
  BY <1>2, <1>3, <1>4 DEF Listed
<1>6. jid2job' \in [Jid -> Job \cup {NULL}]
  BY DEF TypeOK
<1>7. \A k \in Jid : jid2job'[k] # NULL <=> jid2job[k] # NULL \/ k = j
  BY <1>1, JobAssumption DEF TypeOK
<1>8. \A i, k \in 1 .. (n + 1) : job_list'[i] = job_list'[k] => i = k
  <2>1. \A i \in 1 .. n : job_list[i] # j
    BY <1>1, <1>2 DEF Listed
  <2>2. \A i, k \in 1 .. n : job_list[i] = job_list[k] => i = k
    BY <1>2 DEF ListMatchesArray
  <2> QED BY <1>2, <1>3, <2>1, <2>2
<1>9. ListMatchesArray'
  BY <1>4, <1>5, <1>7, <1>8 DEF ListMatchesArray
<1> QED BY <1>3, <1>5, <1>6, <1>9

(* The id that add_job picks.                                              *)
LEMMA FirstFreeJid ==
  ASSUME FreeJid # {}
  PROVE  (CHOOSE j \in FreeJid : \A k \in FreeJid : j <= k) \in FreeJid
<1>1. FreeJid \in SUBSET Nat
  BY DEF FreeJid, Jid
<1>2. \E j \in FreeJid : \A k \in FreeJid : ~ (<<k, j>> \in OpToRel(<, Nat))
  BY <1>1, NatLessThanWellFounded, WFMin
<1>3. PICK j \in FreeJid : \A k \in FreeJid : ~ (<<k, j>> \in OpToRel(<, Nat))
  BY <1>2
<1>4. \A k \in FreeJid : ~ (k < j)
  BY <1>1, <1>3 DEF OpToRel
<1>5. \A k \in FreeJid : j <= k
  BY <1>1, <1>4
<1> QED BY <1>5

LEMMA TableInvStartPipeline ==
  ASSUME TableInv, NEW n \in 1 .. MaxPipeline, NEW bg \in BOOLEAN,
         StartPipeline(n, bg)
  PROVE  TableInv'
<1> USE DEF TableInv
<1>1. CASE FreeJid = {}
  <2>1. pc' = "crashed" /\ UNCHANGED <<table, cur, total_commands>>
    BY <1>1 DEF StartPipeline
  <2> QED BY <2>1, TableKept DEF StartPipeline, At, TableInv, TypeOK, CurOK, CountOK, Held, Ended, Label, control, launch,
         signals, kernel
<1>2. CASE FreeJid # {}
  <2> DEFINE j == CHOOSE j \in FreeJid : \A k \in FreeJid : j <= k
  <2>1. j \in FreeJid /\ j \in Jid
    BY <1>2, FirstFreeJid DEF FreeJid
  <2>2. /\ job_list' = Append(job_list, j)
        /\ jid2job' = [jid2job EXCEPT ![j] = NewJob(bg)]
        /\ cur' = j /\ total_commands' = n /\ pc' \in {"fork", "failed"}
    BY <1>2 DEF StartPipeline
  <2>3. NewJob(bg) \in Job
    BY DEF NewJob, Job, Status
  <2> HIDE DEF j
  <2>4. /\ job_list' \in Seq(Jid) /\ jid2job' \in [Jid -> Job \cup {NULL}]
        /\ ListMatchesArray' /\ \A k : Listed(k)' <=> Listed(k) \/ k = j
    BY <2>1, <2>2, <2>3, JobAdded
  <2>5. CurrentJobListed' /\ cur' # 0
    BY <2>1, <2>2, <2>4 DEF CurrentJobListed, ListMatchesArray, Jid
  <2>6. 0 < total_commands' /\ total_commands' \in 0 .. MaxPipeline
    BY <2>2, BoundAssumption DEF MAX_CAP
  <2> QED BY <2>1, <2>2, <2>4, <2>5, <2>6 DEF StartPipeline, At, TableInv, TypeOK, CurOK, CountOK, Held, Ended, Label, control, launch,
         signals, kernel
<1> QED BY <1>1, <1>2

LEMMA TableInvRecord ==
  ASSUME TableInv, Record
  PROVE  TableInv'
<1> USE DEF TableInv
<1>1. cur \in Jid /\ jid2job[cur] # NULL /\ jid2job[cur] \in Job
  BY DEF Record, At, CurOK, Held, CurrentJobListed, TypeOK
<1>2. GroupOfJob \in Pid \cup {NULL} /\ child \in Pid \cup {NULL}
  BY <1>1 DEF GroupOfJob, TypeOK, Job
<1>3. Recorded(jid2job[cur]) \in Job
  <2>1. jid2job[cur].pid \in SUBSET Pid
    BY <1>1 DEF Job
  <2>2. WithChild(jid2job[cur].pid) \in SUBSET Pid
    BY <2>1, <1>2 DEF WithChild
  <2> QED BY <1>1, <1>2, <2>2, JobUpdates DEF Recorded
<1>4. jid2job' = [jid2job EXCEPT ![cur] = Recorded(jid2job[cur])]
      /\ job_list' = job_list
  BY DEF Record
<1>5. /\ jid2job' \in [Jid -> Job \cup {NULL}]
      /\ ListMatchesArray'
      /\ \A k : Listed(k)' <=> Listed(k)
      /\ \A k \in Jid : (jid2job[k] # NULL)' <=> jid2job[k] # NULL
  BY <1>1, <1>3, <1>4, JobReplaced
<1>6. pgrp' \in [Pid -> Pid \cup {Shell, NULL}]
  BY <1>2 DEF Record, ParentJoins, Joined, TypeOK
<1>7. curr_cmd' \in 0 .. MaxPipeline /\ curr_cmd' = curr_cmd + 1
  BY BoundAssumption DEF Record, At, CountOK, TypeOK, MAX_CAP
<1>8. pc' = IF curr_cmd' < total_commands THEN "fork" ELSE "launched"
  BY DEF Record
<1>9. TypeOK'
  BY <1>2, <1>5, <1>6, <1>7, <1>8 DEF Record, TypeOK, Label, signals
<1>10. CurOK'
  <2>1. pc' \in {"fork", "launched"} /\ cur' = cur /\ cur # 0 /\ Listed(cur)
    BY <1>1, <1>8 DEF Record, At, CurOK, CurrentJobListed, Held
  <2> QED BY <1>1, <1>5, <2>1 DEF CurOK, CurrentJobListed
<1>11. CountOK'
  BY <1>8 DEF Record, CountOK, Ended
<1> QED BY <1>5, <1>9, <1>10, <1>11

(* The assignments to the status of a job.                                 *)
LEMMA StatusAssigned ==
  ASSUME TableInv, NEW j \in Jid, jid2job[j] # NULL, NEW st \in Status,
         jid2job' = [jid2job EXCEPT ![j].status = st], job_list' = job_list
  PROVE  /\ jid2job' \in [Jid -> Job \cup {NULL}]
         /\ ListMatchesArray'
         /\ \A k : Listed(k)' <=> Listed(k)
         /\ \A k \in Jid : (jid2job[k] # NULL)' <=> jid2job[k] # NULL
<1>1. jid2job[j] \in Job
  BY DEF TableInv, TypeOK
<1>2. [jid2job[j] EXCEPT !.status = st] \in Job
  BY <1>1, JobUpdates
<1> QED BY <1>2, JobReplaced DEF TableInv

LEMMA TableInvStatus ==
  ASSUME TableInv, LaunchBackground \/ BgSet
  PROVE  TableInv'
<1>1. cur \in Jid /\ jid2job[cur] # NULL
  BY DEF LaunchBackground, BgSet, At, TableInv, CurOK, Held, CurrentJobListed, TypeOK
<1>2. jid2job' = [jid2job EXCEPT ![cur].status = "BACKGROUND"] /\ job_list' = job_list
  BY DEF LaunchBackground, BgSet
<1>3. jid2job' \in [Jid -> Job \cup {NULL}] /\ ListMatchesArray'
  BY <1>1, <1>2, StatusAssigned DEF Status
<1>4. 0 \in 0 .. MaxPipeline
  BY BoundAssumption DEF MAX_CAP
<1>5. CASE LaunchBackground
  BY <1>3, <1>4, <1>5
  DEF LaunchBackground, Launched, signal_unblock, CurrentJobListed, At, TableInv, TypeOK, CurOK, CountOK, Held, Ended, Label, control, launch,
         signals, kernel
<1>6. CASE BgSet
  BY <1>3, <1>6 DEF BgSet, CurrentJobListed, At, TableInv, TypeOK, CurOK, CountOK, Held, Ended, Label, control, launch,
         signals, kernel
<1> QED BY <1>5, <1>6

LEMMA TableInvFg ==
  ASSUME TableInv, NEW j \in Jid \cup {0}, Fg(j)
  PROVE  TableInv'
<1>1. CASE get_job_from_jid(j) = 0
  BY <1>1, TableKept DEF Fg, table, At, TableInv, TypeOK, CurOK, CountOK, Held, Ended, Label, control, launch,
         signals, kernel
<1>2. CASE get_job_from_jid(j) # 0
  <2>1. j \in Jid /\ jid2job[j] # NULL /\ Listed(j) /\ j # 0
    BY <1>2 DEF get_job_from_jid, TableInv, ListMatchesArray, Jid
  <2>2. /\ jid2job' = [jid2job EXCEPT ![j].status = "FOREGROUND"]
        /\ job_list' = job_list /\ pc' = "fgcont" /\ cur' = j
    BY <1>2 DEF Fg
  <2>3. /\ jid2job' \in [Jid -> Job \cup {NULL}] /\ ListMatchesArray'
        /\ \A k : Listed(k)' <=> Listed(k)
        /\ \A k \in Jid : (jid2job[k] # NULL)' <=> jid2job[k] # NULL
    BY <2>1, <2>2, StatusAssigned DEF Status
  <2>4. CurrentJobListed'
    BY <2>1, <2>2, <2>3 DEF CurrentJobListed
  <2> QED BY <2>1, <2>2, <2>3, <2>4 DEF Fg, At, TableInv, TypeOK, CurOK, CountOK, Held, Ended, Label, control, launch,
         signals, kernel
<1> QED BY <1>1, <1>2

LEMMA TableInvNext ==
  ASSUME TableInv, [Next]_vars
  PROVE  TableInv'
<1>1. CASE UNCHANGED vars
  <2>1. UNCHANGED <<table, control, signals, kernel>>
    BY <1>1 DEF vars
  <2> QED BY <2>1, TableKept DEF At, TableInv, TypeOK, CurOK, CountOK, Held, Ended, Label, control, launch,
         signals, kernel
<1>2. CASE MainStep
  <2>1. ASSUME NEW p \in Pid, WaitReap(p)
        PROVE  TableInv'
    BY <2>1, TableInvReap DEF WaitReap, At, Up, Ended
  <2> QED BY <1>2, <2>1, TableInvKept, TableInvCleanStep, TableInvRecord,
             TableInvStatus, TableInvFork DEF MainStep
<1>3. CASE UserStep
  BY <1>3, TableInvKept, TableInvStartPipeline, TableInvBg, TableInvKill,
     TableInvStop, TableInvFg DEF UserStep
<1>4. CASE sigchld_handler
  <2>1. ASSUME NEW p \in Pid, HandlerReap(p)
        PROVE  TableInv'
    BY <2>1, TableInvReap DEF HandlerReap
  <2> QED BY <1>4, <2>1, TableInvKept DEF sigchld_handler
<1>5. ASSUME NEW p \in Pid, ProcessStep(p)
      PROVE  TableInv'
  BY <1>5, TableInvhandle_child_process, TableInvProcessExits,
     TableInvTakesSignal, TableInvOutsideSignal DEF ProcessStep
<1>6. CASE Terminated
  BY <1>6, <1>1 DEF Terminated
<1> QED BY <1>1, <1>2, <1>3, <1>4, <1>5, <1>6 DEF Next

LEMMA TableInvariant == Spec => []TableInv
BY TableInvInit, TableInvNext, PTL DEF Spec

(* Every variable keeps its type.                                          *)
THEOREM TypeCorrect == Spec => []TypeOK
BY TableInvariant, PTL DEF TableInv

(* The job that the main program holds a pointer to is never deleted.      *)
THEOREM NoUseAfterFree == Spec => []CurrentJobListed
BY TableInvariant, PTL DEF TableInv, CurOK

-----------------------------------------------------------------------------
(* Second layer: the signal mask and the reports behind SIGCHLD.           *)

MaskInv == TypeOK /\ SigchldMask /\ NoLostWakeup

LEMMA MaskInit == Init => MaskInv
BY TableInvInit DEF TableInv, Init, MaskInv, SigchldMask, NoLostWakeup, Waitable

LEMMA MaskMain ==
  ASSUME TypeOK, SigchldMask, MainStep
  PROVE  SigchldMask'
<1>1. CASE CleanStep
  BY <1>1 DEF CleanStep, At, TypeOK, SigchldMask, signals, control, launch, Ended
<1>2. CASE CleanDone
  BY <1>2 DEF CleanDone, At, TypeOK, SigchldMask, signals, control, launch, Ended
<1>3. CASE Record
  BY <1>3 DEF Record, At, TypeOK, SigchldMask, signals, control, launch, Ended
<1>4. CASE LaunchBackground
  BY <1>4 DEF LaunchBackground, signal_unblock, At, TypeOK, SigchldMask, signals, control, launch, Ended
<1>5. CASE LaunchForeground
  BY <1>5 DEF LaunchForeground, termstate_give_terminal_to, At, TypeOK, SigchldMask, signals, control, launch, Ended
<1>6. ASSUME NEW p \in Pid, Fork(p)
      PROVE  SigchldMask'
  BY <1>6 DEF Fork, signal_block, At, TypeOK, SigchldMask, signals, control, launch, Ended
<1>7. CASE ForkFails
  BY <1>7 DEF ForkFails, signal_block, At, TypeOK, SigchldMask, signals, control, launch, Ended
<1>8. ASSUME NEW p \in Pid, WaitReap(p)
      PROVE  SigchldMask'
  BY <1>8 DEF WaitReap, handle_child_status, At, TypeOK, SigchldMask, signals, control, launch, Ended
<1>9. CASE WaitFails
  BY <1>9 DEF WaitFails, At, TypeOK, SigchldMask, signals, control, launch, Ended
<1>10. CASE WaitDone
  BY <1>10 DEF WaitDone, At, TypeOK, SigchldMask, signals, control, launch, Ended
<1>11. CASE Back
  BY <1>11 DEF Back, signal_unblock, At, TypeOK, SigchldMask, signals, control, launch, Ended
<1>12. CASE BgSet
  BY <1>12 DEF BgSet, At, TypeOK, SigchldMask, signals, control, launch, Ended
<1>13. CASE FgCont
  BY <1>13 DEF FgCont, killpgCONT, At, TypeOK, SigchldMask, signals, control, launch, Ended
<1>14. CASE FgGive
  BY <1>14 DEF FgGive, signal_block, termstate_give_terminal_to, At, TypeOK, SigchldMask, signals, control, launch, Ended
<1> QED BY <1>1, <1>2, <1>3, <1>4, <1>5, <1>6, <1>7, <1>8, <1>9, <1>10, <1>11, <1>12, <1>13, <1>14 DEF MainStep

LEMMA MaskUser ==
  ASSUME TypeOK, SigchldMask, UserStep
  PROVE  SigchldMask'
<1>1. CASE ReadLine
  BY <1>1 DEF ReadLine, At, TypeOK, SigchldMask, signals, control, launch, Ended
<1>2. CASE EndOfLine
  BY <1>2 DEF EndOfLine, At, TypeOK, SigchldMask, signals, control, launch, Ended
<1>3. CASE Inform
  BY <1>3 DEF Inform, At, TypeOK, SigchldMask, signals, control, launch, Ended
<1>4. CASE Exit
  BY <1>4 DEF Exit, At, TypeOK, SigchldMask, signals, control, launch, Ended
<1>5. ASSUME NEW n \in 1 .. MaxPipeline, NEW bg \in BOOLEAN, StartPipeline(n, bg)
      PROVE  SigchldMask'
  BY <1>5 DEF StartPipeline, At, TypeOK, SigchldMask, signals, control, launch, Ended
<1>6. ASSUME NEW j \in Jid \cup {0}, Bg(j)
      PROVE  SigchldMask'
  BY <1>6 DEF Bg, killpgCONT, At, TypeOK, SigchldMask, signals, control, launch, Ended
<1>7. ASSUME NEW j \in Jid \cup {0}, Kill(j)
      PROVE  SigchldMask'
  BY <1>7 DEF Kill, At, TypeOK, SigchldMask, signals, control, launch, Ended
<1>8. ASSUME NEW j \in Jid \cup {0}, Stop(j)
      PROVE  SigchldMask'
  BY <1>8 DEF Stop, At, TypeOK, SigchldMask, signals, control, launch, Ended
<1>9. ASSUME NEW j \in Jid \cup {0}, Fg(j)
      PROVE  SigchldMask'
  BY <1>9 DEF Fg, At, TypeOK, SigchldMask, signals, control, launch, Ended
<1> QED BY <1>1, <1>2, <1>3, <1>4, <1>5, <1>6, <1>7, <1>8, <1>9 DEF UserStep

LEMMA MaskHandler ==
  ASSUME TypeOK, SigchldMask, sigchld_handler
  PROVE  SigchldMask'
<1>1. CASE HandlerEnter
  BY <1>1 DEF HandlerEnter, At, TypeOK, SigchldMask, signals, control, launch, Ended
<1>2. CASE HandlerReturn
  BY <1>2 DEF HandlerReturn, At, TypeOK, SigchldMask, signals, control, launch, Ended
<1>3. ASSUME NEW p \in Pid, HandlerReap(p)
      PROVE  SigchldMask'
  BY <1>3 DEF HandlerReap, handle_child_status, At, TypeOK, SigchldMask, signals, control, launch, Ended
<1> QED BY <1>1, <1>2, <1>3 DEF sigchld_handler

LEMMA MaskProcess ==
  ASSUME TypeOK, SigchldMask, NEW p \in Pid, ProcessStep(p)
  PROVE  SigchldMask'
<1>1. CASE handle_child_process(p)
  BY <1>1 DEF handle_child_process, At, TypeOK, SigchldMask, signals, control, launch, Ended
<1>2. CASE ProcessExits(p)
  BY <1>2 DEF ProcessExits, ChangesTo, At, TypeOK, SigchldMask, signals, control, launch, Ended
<1>3. CASE TakesSignal(p)
  BY <1>3 DEF TakesSignal, ChangesTo, At, TypeOK, SigchldMask, signals, control, launch, Ended
<1>4. CASE OutsideSignal(p)
  BY <1>4 DEF OutsideSignal, ChangesTo, At, TypeOK, SigchldMask, signals, control, launch, Ended
<1> QED BY <1>1, <1>2, <1>3, <1>4 DEF ProcessStep

LEMMA WakeupMain ==
  ASSUME TypeOK, NoLostWakeup, MainStep
  PROVE  NoLostWakeup'
<1>1. CASE CleanStep
  BY <1>1 DEF CleanStep, At, Up, TypeOK, NoLostWakeup, Waitable,
         signals, control, launch, kernel, Ended
<1>2. CASE CleanDone
  BY <1>2 DEF CleanDone, At, Up, TypeOK, NoLostWakeup, Waitable,
         signals, control, launch, kernel, Ended
<1>3. CASE Record
  BY <1>3 DEF Record, At, Up, TypeOK, NoLostWakeup, Waitable,
         signals, control, launch, kernel, Ended
<1>4. CASE LaunchBackground
  BY <1>4 DEF LaunchBackground, signal_unblock, At, Up, TypeOK, NoLostWakeup, Waitable,
         signals, control, launch, kernel, Ended
<1>5. CASE LaunchForeground
  BY <1>5 DEF LaunchForeground, termstate_give_terminal_to, At, Up, TypeOK, NoLostWakeup, Waitable,
         signals, control, launch, kernel, Ended
<1>6. ASSUME NEW p \in Pid, Fork(p)
      PROVE  NoLostWakeup'
  BY <1>6 DEF Fork, signal_block, At, Up, TypeOK, NoLostWakeup, Waitable,
         signals, control, launch, kernel, Ended
<1>7. CASE ForkFails
  BY <1>7 DEF ForkFails, signal_block, At, Up, TypeOK, NoLostWakeup, Waitable,
         signals, control, launch, kernel, Ended
<1>8. ASSUME NEW p \in Pid, WaitReap(p)
      PROVE  NoLostWakeup'
  BY <1>8 DEF WaitReap, handle_child_status, waitpid, At, Up, TypeOK, NoLostWakeup, Waitable,
         signals, control, launch, kernel, Ended
<1>9. CASE WaitFails
  BY <1>9 DEF WaitFails, At, Up, TypeOK, NoLostWakeup, Waitable,
         signals, control, launch, kernel, Ended
<1>10. CASE WaitDone
  BY <1>10 DEF WaitDone, At, Up, TypeOK, NoLostWakeup, Waitable,
         signals, control, launch, kernel, Ended
<1>11. CASE Back
  BY <1>11 DEF Back, signal_unblock, At, Up, TypeOK, NoLostWakeup, Waitable,
         signals, control, launch, kernel, Ended
<1>12. CASE BgSet
  BY <1>12 DEF BgSet, At, Up, TypeOK, NoLostWakeup, Waitable,
         signals, control, launch, kernel, Ended
<1>13. CASE FgCont
  BY <1>13 DEF FgCont, killpgCONT, At, Up, TypeOK, NoLostWakeup, Waitable,
         signals, control, launch, kernel, Ended
<1>14. CASE FgGive
  BY <1>14 DEF FgGive, signal_block, termstate_give_terminal_to, At, Up, TypeOK, NoLostWakeup, Waitable,
         signals, control, launch, kernel, Ended
<1> QED BY <1>1, <1>2, <1>3, <1>4, <1>5, <1>6, <1>7, <1>8, <1>9, <1>10, <1>11, <1>12, <1>13, <1>14 DEF MainStep

LEMMA WakeupUser ==
  ASSUME TypeOK, NoLostWakeup, UserStep
  PROVE  NoLostWakeup'
<1>1. CASE ReadLine
  BY <1>1 DEF ReadLine, At, Up, TypeOK, NoLostWakeup, Waitable,
         signals, control, launch, kernel, Ended
<1>2. CASE EndOfLine
  BY <1>2 DEF EndOfLine, At, Up, TypeOK, NoLostWakeup, Waitable,
         signals, control, launch, kernel, Ended
<1>3. CASE Inform
  BY <1>3 DEF Inform, At, Up, TypeOK, NoLostWakeup, Waitable,
         signals, control, launch, kernel, Ended
<1>4. CASE Exit
  BY <1>4 DEF Exit, At, Up, TypeOK, NoLostWakeup, Waitable,
         signals, control, launch, kernel, Ended
<1>5. ASSUME NEW n \in 1 .. MaxPipeline, NEW bg \in BOOLEAN, StartPipeline(n, bg)
      PROVE  NoLostWakeup'
  BY <1>5 DEF StartPipeline, At, Up, TypeOK, NoLostWakeup, Waitable,
         signals, control, launch, kernel, Ended
<1>6. ASSUME NEW j \in Jid \cup {0}, Bg(j)
      PROVE  NoLostWakeup'
  BY <1>6 DEF Bg, killpgCONT, At, Up, TypeOK, NoLostWakeup, Waitable,
         signals, control, launch, kernel, Ended
<1>7. ASSUME NEW j \in Jid \cup {0}, Kill(j)
      PROVE  NoLostWakeup'
  BY <1>7 DEF Kill, At, Up, TypeOK, NoLostWakeup, Waitable,
         signals, control, launch, kernel, Ended
<1>8. ASSUME NEW j \in Jid \cup {0}, Stop(j)
      PROVE  NoLostWakeup'
  BY <1>8 DEF Stop, At, Up, TypeOK, NoLostWakeup, Waitable,
         signals, control, launch, kernel, Ended
<1>9. ASSUME NEW j \in Jid \cup {0}, Fg(j)
      PROVE  NoLostWakeup'
  BY <1>9 DEF Fg, At, Up, TypeOK, NoLostWakeup, Waitable,
         signals, control, launch, kernel, Ended
<1> QED BY <1>1, <1>2, <1>3, <1>4, <1>5, <1>6, <1>7, <1>8, <1>9 DEF UserStep

LEMMA WakeupHandler ==
  ASSUME TypeOK, NoLostWakeup, sigchld_handler
  PROVE  NoLostWakeup'
<1>1. CASE HandlerEnter
  BY <1>1 DEF HandlerEnter, At, Up, TypeOK, NoLostWakeup, Waitable,
         signals, control, launch, kernel, Ended
<1>2. CASE HandlerReturn
  BY <1>2 DEF HandlerReturn, At, Up, TypeOK, NoLostWakeup, Waitable,
         signals, control, launch, kernel, Ended
<1>3. ASSUME NEW p \in Pid, HandlerReap(p)
      PROVE  NoLostWakeup'
  BY <1>3 DEF HandlerReap, handle_child_status, waitpid, At, Up, TypeOK, NoLostWakeup, Waitable,
         signals, control, launch, kernel, Ended
<1> QED BY <1>1, <1>2, <1>3 DEF sigchld_handler

LEMMA WakeupProcess ==
  ASSUME TypeOK, NoLostWakeup, NEW p \in Pid, ProcessStep(p)
  PROVE  NoLostWakeup'
<1>1. CASE handle_child_process(p)
  BY <1>1 DEF handle_child_process, At, Up, TypeOK, NoLostWakeup, Waitable,
         signals, control, launch, kernel, Ended
<1>2. CASE ProcessExits(p)
  BY <1>2 DEF ProcessExits, ChangesTo, At, Up, TypeOK, NoLostWakeup, Waitable,
         signals, control, launch, kernel, Ended
<1>3. CASE TakesSignal(p)
  BY <1>3 DEF TakesSignal, ChangesTo, At, Up, TypeOK, NoLostWakeup, Waitable,
         signals, control, launch, kernel, Ended
<1>4. CASE OutsideSignal(p)
  BY <1>4 DEF OutsideSignal, ChangesTo, At, Up, TypeOK, NoLostWakeup, Waitable,
         signals, control, launch, kernel, Ended
<1> QED BY <1>1, <1>2, <1>3, <1>4 DEF ProcessStep

LEMMA MaskNext ==
  ASSUME TableInv, MaskInv, [Next]_vars
  PROVE  MaskInv'
<1> USE DEF MaskInv
<1>1. TypeOK'
  BY TableInvNext DEF TableInv
<1>2. CASE UNCHANGED vars
  BY <1>1, <1>2 DEF vars, control, signals, kernel, SigchldMask, NoLostWakeup,
                    Up, Waitable
<1>3. CASE Next
  <2>1. SigchldMask'
    BY <1>2, <1>3, MaskMain, MaskUser, MaskHandler, MaskProcess
    DEF Next, Terminated
  <2>2. NoLostWakeup'
    BY <1>2, <1>3, WakeupMain, WakeupUser, WakeupHandler, WakeupProcess
    DEF Next, Terminated
  <2> QED BY <1>1, <2>1, <2>2
<1> QED BY <1>2, <1>3

LEMMA MaskInvariant == Spec => [](TableInv /\ MaskInv)
BY TableInvInit, MaskInit, TableInvNext, MaskNext, PTL DEF Spec

(* SIGCHLD is blocked where wait_for_job asserts it, and nowhere the shell *)
(* could stay.                                                             *)
THEOREM MaskDiscipline == Spec => []SigchldMask
BY MaskInvariant, PTL DEF MaskInv

(* No status report is lost, whichever of the handler and wait_for_job     *)
(* collects it.                                                            *)
THEOREM ReportsKept == Spec => []NoLostWakeup
BY MaskInvariant, PTL DEF MaskInv

-----------------------------------------------------------------------------
(* Third layer: which job owns a process.                                  *)

OwnedBy(j, p) == Listed(j) /\ p \in jid2job[j].pid

(* The child that is about to be recorded belongs to no listed job yet.    *)
ChildUnowned ==
  pc = "record" /\ child # NULL => \A j \in Jid : ~ OwnedBy(j, child)

OwnInv == PidsDisjoint /\ ChildUnowned

LEMMA OwnInit == Init => OwnInv
BY TableInvInit DEF TableInv, Init, OwnInv, PidsDisjoint, ChildUnowned, Listed

(* A process is unowned exactly when get_job_from_pid finds nothing, and a *)
(* fresh pid is unowned.                                                   *)
LEMMA FreshUnowned ==
  ASSUME NEW p \in Fresh
  PROVE  \A j \in Jid : ~ OwnedBy(j, p)
BY DEF Fresh, Remembered, Owns, OwnedBy, Listed

(* A step that gives no listed job a new process and records no new child. *)
LEMMA OwnKept ==
  ASSUME OwnInv,
         \A j \in Jid : Listed(j)' => \/ Listed(j) /\ jid2job'[j].pid = jid2job[j].pid
                                      \/ jid2job'[j].pid = {},
         pc' = "record" => pc = "record" /\ child' = child
  PROVE  OwnInv'
BY DEF OwnInv, PidsDisjoint, ChildUnowned, OwnedBy

LEMMA OwnTableUnchanged ==
  ASSUME OwnInv, UNCHANGED table,
         pc' = "record" => pc = "record" /\ child' = child
  PROVE  OwnInv'
BY OwnKept DEF table, Listed

(* The updates of a job record other than Recorded keep its processes.     *)
LEMMA PidKept ==
  ASSUME TableInv, OwnInv, NEW j \in Jid, jid2job[j] # NULL, NEW r \in Job,
         r.pid = jid2job[j].pid,
         jid2job' = [jid2job EXCEPT ![j] = r], job_list' = job_list,
         pc' = "record" => pc = "record" /\ child' = child
  PROVE  OwnInv'
<1>1. \A k \in Jid : jid2job'[k].pid = jid2job[k].pid
  BY DEF TableInv, TypeOK
<1>2. \A k \in Jid : Listed(k)' <=> Listed(k)
  BY DEF Listed
<1> QED BY <1>1, <1>2, OwnKept

LEMMA SamePids ==
  ASSUME NEW r \in Job
  PROVE  /\ \A state \in {"stopped", "exited", "signaled"} :
              AfterReport(r, state).pid = r.pid
         /\ \A st : [r EXCEPT !.status = st].pid = r.pid
<1>1. OnStop(r).pid = r.pid /\ OnExit(r).pid = r.pid /\ OnSignal(r).pid = r.pid
  BY DEF Job, OnStop, OnExit, OnSignal
<1>2. \A st : [r EXCEPT !.status = st].pid = r.pid
  BY DEF Job
<1> QED BY <1>1, <1>2 DEF AfterReport

LEMMA OwnReap ==
  ASSUME TableInv, OwnInv, NEW p \in Pid, Waitable(p), handle_child_status(p),
         UNCHANGED <<job_list, launch>>
  PROVE  OwnInv'
<1> DEFINE j == get_job_from_pid(p)
<1>1. CASE j = 0
  BY <1>1, OwnTableUnchanged DEF handle_child_status, table, launch
<1>2. CASE j # 0
  <2> DEFINE r == AfterReport(jid2job[j], proc[p])
  <2>1. j \in Jid /\ jid2job[j] \in Job /\ jid2job[j] # NULL
    BY <1>2, PidLookup, JobAssumption
  <2>2. jid2job' = [jid2job EXCEPT ![j] = r] /\ pc' = pc /\ child' = child
        /\ job_list' = job_list
    BY <1>2 DEF handle_child_status, launch
  <2>3. r \in Job /\ r.pid = jid2job[j].pid
    BY <2>1, JobUpdates, SamePids DEF Waitable
  <2> HIDE DEF j, r
  <2> QED BY <2>1, <2>2, <2>3, PidKept
<1> QED BY <1>1, <1>2

LEMMA OwnStatus ==
  ASSUME TableInv, OwnInv, NEW j \in Jid, jid2job[j] # NULL, NEW st \in Status,
         jid2job' = [jid2job EXCEPT ![j].status = st], job_list' = job_list,
         pc' # "record"
  PROVE  OwnInv'
<1> DEFINE r == [jid2job[j] EXCEPT !.status = st]
<1>1. jid2job[j] \in Job
  BY DEF TableInv, TypeOK
<1>2. r \in Job /\ r.pid = jid2job[j].pid
  BY <1>1, JobUpdates, SamePids
<1>3. jid2job' = [jid2job EXCEPT ![j] = r]
  OBVIOUS
<1> HIDE DEF r
<1> QED BY <1>2, <1>3, PidKept

LEMMA OwnCleanStep ==
  ASSUME TableInv, OwnInv, CleanStep
  PROVE  OwnInv'
<1>1. it \in DOMAIN job_list /\ pc' = "clean"
  BY DEF CleanStep, At
<1>2. CASE Deletable(jid2job[job_list[it]])
  <2> DEFINE d == job_list[it]
  <2>1. job_list' = RemoveAt(job_list, it) /\ delete_job(d)
    BY <1>2 DEF CleanStep
  <2>2. \A k : Listed(k)' <=> Listed(k) /\ k # d
    BY <1>1, <2>1, JobRemoved DEF TableInv
  <2>3. \A k \in Jid : k # d => jid2job'[k] = jid2job[k]
    BY <2>1 DEF delete_job, TableInv, TypeOK
  <2> QED BY <1>1, <2>2, <2>3, OwnKept
<1>3. CASE ~ Deletable(jid2job[job_list[it]])
  BY <1>1, <1>3, OwnTableUnchanged DEF CleanStep
<1> QED BY <1>2, <1>3

LEMMA OwnStartPipeline ==
  ASSUME TableInv, OwnInv, NEW n \in 1 .. MaxPipeline, NEW bg \in BOOLEAN,
         StartPipeline(n, bg)
  PROVE  OwnInv'
<1>1. CASE FreeJid = {}
  BY <1>1, OwnTableUnchanged DEF StartPipeline
<1>2. CASE FreeJid # {}
  <2> DEFINE j == CHOOSE j \in FreeJid : \A k \in FreeJid : j <= k
  <2>1. j \in FreeJid /\ j \in Jid
    BY <1>2, FirstFreeJid DEF FreeJid
  <2>2. /\ job_list' = Append(job_list, j)
        /\ jid2job' = [jid2job EXCEPT ![j] = NewJob(bg)]
        /\ pc' \in {"fork", "failed"}
    BY <1>2 DEF StartPipeline
  <2>3. NewJob(bg) \in Job /\ NewJob(bg).pid = {}
    BY DEF NewJob, Job, Status
  <2> HIDE DEF j
  <2>4. \A k : Listed(k)' <=> Listed(k) \/ k = j
    BY <2>1, <2>2, <2>3, JobAdded DEF TableInv
  <2>5. /\ jid2job'[j].pid = {}
        /\ \A k \in Jid : k # j => jid2job'[k] = jid2job[k]
    BY <2>1, <2>2, <2>3 DEF TableInv, TypeOK
  <2> QED BY <2>2, <2>4, <2>5, OwnKept
<1> QED BY <1>1, <1>2

LEMMA OwnFork ==
  ASSUME OwnInv, NEW p \in Pid, Fork(p)
  PROVE  OwnInv'
<1>1. child' = p /\ \A j \in Jid : ~ OwnedBy(j, p)
  BY FreshUnowned DEF Fork
<1>2. PidsDisjoint' /\ \A j \in Jid : ~ OwnedBy(j, p)'
  BY <1>1 DEF Fork, table, OwnInv, PidsDisjoint, OwnedBy, Listed
<1> QED BY <1>1, <1>2 DEF OwnInv, ChildUnowned, OwnedBy

(* What Record does to the pid arrays.                                     *)
LEMMA RecordPids ==
  ASSUME TableInv, Record
  PROVE  /\ cur \in Jid /\ Listed(cur) /\ jid2job[cur] \in Job
         /\ \A k : Listed(k)' <=> Listed(k)
         /\ \A k \in Jid \ {cur} : jid2job'[k] = jid2job[k]
         /\ jid2job'[cur].pid = jid2job[cur].pid \cup ({child} \ {NULL})
         /\ jid2job'[cur].num_processes_alive = jid2job[cur].num_processes_alive + 1
<1>1. cur \in Jid /\ jid2job[cur] # NULL /\ Listed(cur) /\ jid2job[cur] \in Job
  BY DEF Record, At, TableInv, CurOK, Held, CurrentJobListed, TypeOK
<1>2. jid2job' = [jid2job EXCEPT ![cur] = Recorded(jid2job[cur])]
  BY DEF Record
<1>3. \A k : Listed(k)' <=> Listed(k)
  BY DEF Record, Listed
<1>4. \A k \in Jid \ {cur} : jid2job'[k] = jid2job[k]
  BY <1>2 DEF TableInv, TypeOK
<1>5. jid2job'[cur] = Recorded(jid2job[cur])
  BY <1>1, <1>2 DEF TableInv, TypeOK
<1>6. /\ Recorded(jid2job[cur]).pid = jid2job[cur].pid \cup ({child} \ {NULL})
      /\ Recorded(jid2job[cur]).num_processes_alive
           = jid2job[cur].num_processes_alive + 1
  BY <1>1 DEF Recorded, WithChild, Job
<1> QED BY <1>1, <1>3, <1>4, <1>5, <1>6

LEMMA OwnRecord ==
  ASSUME TableInv, OwnInv, Record
  PROVE  OwnInv'
<1>1. pc' # "record" /\ pc = "record"
  BY DEF Record, At
<1>2. child # NULL => \A j \in Jid : Listed(j) => child \notin jid2job[j].pid
  BY <1>1 DEF OwnInv, ChildUnowned, OwnedBy
<1>3. PidsDisjoint'
  BY <1>2, RecordPids DEF OwnInv, PidsDisjoint
<1> QED BY <1>1, <1>3 DEF OwnInv, ChildUnowned

LEMMA OwnMain ==
  ASSUME TableInv, OwnInv, MainStep
  PROVE  OwnInv'
<1>1. CASE CleanStep
  BY <1>1, OwnCleanStep
<1>2. CASE Record
  BY <1>2, OwnRecord
<1>3. CASE LaunchBackground \/ BgSet
  <2>1. cur \in Jid /\ jid2job[cur] # NULL
    BY <1>3 DEF LaunchBackground, BgSet, At, TableInv, CurOK, Held,
                CurrentJobListed, TypeOK
  <2> QED BY <1>3, <2>1, OwnStatus DEF LaunchBackground, BgSet, Status
<1>4. ASSUME NEW p \in Pid, Fork(p)
      PROVE  OwnInv'
  BY <1>4, OwnFork
<1>5. CASE ForkFails
  <2>1. child' = NULL /\ UNCHANGED table
    BY <1>5 DEF ForkFails
  <2> QED BY <2>1 DEF OwnInv, PidsDisjoint, ChildUnowned, table, Listed
<1>6. ASSUME NEW p \in Pid, WaitReap(p)
      PROVE  OwnInv'
  BY <1>6, OwnReap DEF WaitReap
<1>7. CASE CleanDone \/ LaunchForeground \/ WaitFails \/ WaitDone \/ FgCont \/ FgGive
  BY <1>7, OwnTableUnchanged
  DEF CleanDone, LaunchForeground, WaitFails, WaitDone, FgCont, FgGive,
      termstate_give_terminal_to
<1>8. CASE Back
  BY <1>8, OwnTableUnchanged DEF Back, TableInv, TypeOK
<1> QED BY <1>1, <1>2, <1>3, <1>4, <1>5, <1>6, <1>7, <1>8 DEF MainStep

LEMMA OwnNext ==
  ASSUME TableInv, OwnInv, [Next]_vars
  PROVE  OwnInv'
<1>1. CASE UNCHANGED vars
  BY <1>1, OwnTableUnchanged DEF vars, control, launch
<1>2. CASE MainStep
  BY <1>2, OwnMain
<1>3. CASE UserStep
  <2>1. CASE ReadLine \/ EndOfLine \/ Inform \/ Exit
    BY <2>1, OwnTableUnchanged DEF ReadLine, EndOfLine, Inform, Exit
  <2>2. ASSUME NEW j \in Jid \cup {0}, Bg(j) \/ Kill(j) \/ Stop(j)
        PROVE  OwnInv'
    BY <2>2, OwnTableUnchanged DEF Bg, Kill, Stop
  <2>3. ASSUME NEW j \in Jid \cup {0}, Fg(j)
        PROVE  OwnInv'
    <3>1. CASE get_job_from_jid(j) = 0
      BY <2>3, <3>1, OwnTableUnchanged DEF Fg, table
    <3>2. CASE get_job_from_jid(j) # 0
      <4>1. j \in Jid /\ jid2job[j] # NULL
        BY <3>2 DEF get_job_from_jid
      <4> QED BY <2>3, <3>2, <4>1, OwnStatus DEF Fg, Status
    <3> QED BY <3>1, <3>2
  <2> QED BY <1>3, <2>1, <2>2, <2>3, OwnStartPipeline DEF UserStep
<1>4. CASE sigchld_handler
  <2>1. CASE HandlerEnter \/ HandlerReturn
    BY <2>1, OwnTableUnchanged DEF HandlerEnter, HandlerReturn, control, launch
  <2>2. ASSUME NEW p \in Pid, HandlerReap(p)
        PROVE  OwnInv'
    BY <2>2, OwnReap DEF HandlerReap
  <2> QED BY <1>4, <2>1, <2>2 DEF sigchld_handler
<1>5. ASSUME NEW p \in Pid, ProcessStep(p)
      PROVE  OwnInv'
  BY <1>5, OwnTableUnchanged
  DEF ProcessStep, handle_child_process, ProcessExits, TakesSignal,
      OutsideSignal, control, launch
<1>6. CASE Terminated
  BY <1>1, <1>6 DEF Terminated
<1> QED BY <1>1, <1>2, <1>3, <1>4, <1>5, <1>6 DEF Next

LEMMA OwnInvariant == Spec => [](TableInv /\ OwnInv)
BY TableInvInit, OwnInit, TableInvNext, OwnNext, PTL DEF Spec

(* The list and the array of jobs agree, and a process has one job.        *)
THEOREM JobTable == Spec => []TableConsistent
<1>1. TableInv /\ OwnInv => TableConsistent
  BY DEF TableInv, OwnInv, TableConsistent
<1> QED BY <1>1, OwnInvariant, PTL

-----------------------------------------------------------------------------
(* Fourth layer: the count of live processes, when fork does not fail.     *)

(* A job never counts more live processes than it has unreaped children;   *)
(* it may count fewer, after a death by signal.                            *)
AliveBound ==
  \A j \in Jid : Listed(j) =>
    jid2job[j].num_processes_alive <= Cardinality(Children(j))

ChildUnreaped == pc = "record" => child \in Pid /\ Unreaped(child)

AliveInv == AliveBound /\ ChildUnreaped

LEMMA ChildrenFinite ==
  ASSUME NEW j
  PROVE  IsFiniteSet(Children(j) \cap Pid) /\ Cardinality(Children(j) \cap Pid) \in Nat
BY PidAssumption, FS_Subset, FS_CardinalityType

LEMMA ListedChildren ==
  ASSUME TableInv, NEW j \in Jid, Listed(j)
  PROVE  /\ jid2job[j] \in Job /\ jid2job[j].num_processes_alive \in Int
         /\ Children(j) \in SUBSET Pid
         /\ IsFiniteSet(Children(j)) /\ Cardinality(Children(j)) \in Nat
<1>1. jid2job[j] \in Job
  BY DEF TableInv, TypeOK, ListMatchesArray
<1>2. Children(j) \in SUBSET Pid /\ jid2job[j].num_processes_alive \in Int
  BY <1>1 DEF Children, Job
<1>3. Children(j) \cap Pid = Children(j)
  BY <1>2
<1> QED BY <1>1, <1>2, <1>3, ChildrenFinite

LEMMA AliveInit == Init => AliveInv
BY TableInvInit DEF TableInv, Init, AliveInv, AliveBound, ChildUnreaped, Listed

(* A step that reaps no process and changes no count.                      *)
LEMMA AliveKept ==
  ASSUME AliveInv,
         \A p \in Pid : Unreaped(p)' <=> Unreaped(p),
         \A j \in Jid : Listed(j)' =>
           \/ /\ Listed(j) /\ jid2job[j].pid \in SUBSET Pid
              /\ jid2job'[j].pid = jid2job[j].pid
              /\ jid2job'[j].num_processes_alive = jid2job[j].num_processes_alive
           \/ jid2job'[j].pid = {} /\ jid2job'[j].num_processes_alive = 0,
         pc' = "record" => pc = "record" /\ child' = child
  PROVE  AliveInv'
<1>1. ASSUME NEW j \in Jid, Listed(j)'
      PROVE  jid2job'[j].num_processes_alive <= Cardinality(Children(j)')
  <2>1. CASE /\ Listed(j) /\ jid2job[j].pid \in SUBSET Pid
             /\ jid2job'[j].pid = jid2job[j].pid
             /\ jid2job'[j].num_processes_alive = jid2job[j].num_processes_alive
    <3>1. Children(j)' = Children(j)
      BY <2>1 DEF Children
    <3> QED BY <2>1, <3>1 DEF AliveInv, AliveBound
  <2>2. CASE jid2job'[j].pid = {} /\ jid2job'[j].num_processes_alive = 0
    <3>1. Children(j)' = {}
      BY <2>2 DEF Children
    <3> QED BY <2>2, <3>1, FS_EmptySet
  <2> QED BY <1>1, <2>1, <2>2
<1> QED BY <1>1 DEF AliveInv, AliveBound, ChildUnreaped

LEMMA AliveTableUnchanged ==
  ASSUME TableInv, AliveInv, UNCHANGED table,
         \A p \in Pid : Unreaped(p)' <=> Unreaped(p),
         pc' = "record" => pc = "record" /\ child' = child
  PROVE  AliveInv'
<1>1. \A j \in Jid : Listed(j)' => Listed(j) /\ jid2job'[j] = jid2job[j]
  BY DEF table, Listed
<1>2. \A j \in Jid : Listed(j) => jid2job[j].pid \in SUBSET Pid
  BY ListedChildren DEF Job
<1> QED BY <1>1, <1>2, AliveKept

(* What an update of a job record other than Recorded does.                *)
LEMMA AliveSame ==
  ASSUME TableInv, AliveInv, NEW j \in Jid, jid2job[j] # NULL, NEW r \in Job,
         r.pid = jid2job[j].pid,
         r.num_processes_alive = jid2job[j].num_processes_alive,
         jid2job' = [jid2job EXCEPT ![j] = r], job_list' = job_list,
         \A p \in Pid : Unreaped(p)' <=> Unreaped(p),
         pc' = "record" => pc = "record" /\ child' = child
  PROVE  AliveInv'
<1>1. \A k \in Jid : /\ jid2job'[k].pid = jid2job[k].pid
                     /\ jid2job'[k].num_processes_alive
                          = jid2job[k].num_processes_alive
  BY DEF TableInv, TypeOK
<1>2. \A k \in Jid : Listed(k)' <=> Listed(k)
  BY DEF Listed
<1>3. \A k \in Jid : Listed(k) => jid2job[k].pid \in SUBSET Pid
  BY ListedChildren DEF Job
<1> QED BY <1>1, <1>2, <1>3, AliveKept

(* A report is collected: a stop leaves everything as it was, the end of a *)
(* process takes it from the children of its job.                          *)
LEMMA AliveReap ==
  ASSUME TableInv, OwnInv, AliveInv, NEW p \in Pid, Waitable(p),
         handle_child_status(p), waitpid(p),
         UNCHANGED <<job_list, launch>>, pc # "record"
  PROVE  AliveInv'
<1>0. PICK j \in Jid \cup {0} : j = get_job_from_pid(p)
  BY PidLookup
<1> DEFINE r == AfterReport(jid2job[j], proc[p])
<1>1. pc' # "record"
  BY DEF handle_child_status
<1>2. j # 0 => /\ j \in Jid /\ Listed(j) /\ jid2job[j] \in Job
               /\ p \in jid2job[j].pid /\ jid2job[j] # NULL
               /\ jid2job' = [jid2job EXCEPT ![j] = r]
               /\ r \in Job /\ r.pid = jid2job[j].pid
  <2>1. j # 0 => /\ j \in Jid /\ Listed(j) /\ jid2job[j] \in Job
                 /\ p \in jid2job[j].pid /\ jid2job[j] # NULL
    BY <1>0, PidLookup, JobAssumption
  <2>2. j # 0 => jid2job' = [jid2job EXCEPT ![j] = r]
    BY <1>0 DEF handle_child_status
  <2>3. j # 0 => r \in Job /\ r.pid = jid2job[j].pid
    BY <2>1, JobUpdates, SamePids DEF Waitable
  <2> QED BY <2>1, <2>2, <2>3
<1>3. CASE proc[p] = "stopped"
  <2>1. \A q \in Pid : Unreaped(q)' <=> Unreaped(q)
    BY <1>3 DEF waitpid, Unreaped, TableInv, TypeOK
  <2>2. CASE j = 0
    BY <1>0, <1>1, <2>1, <2>2, AliveTableUnchanged DEF handle_child_status, table
  <2>3. CASE j # 0
    <3>1. r.num_processes_alive = jid2job[j].num_processes_alive
      BY <1>2, <1>3, <2>3 DEF AfterReport, OnStop, Job
    <3> HIDE DEF r
    <3> QED BY <1>1, <1>2, <2>1, <2>3, <3>1, AliveSame
  <2> QED BY <2>2, <2>3
<1>4. CASE proc[p] # "stopped"
  <2>1. \A q \in Pid : Unreaped(q)' <=> Unreaped(q) /\ q # p
    BY <1>4 DEF waitpid, Unreaped, TableInv, TypeOK
  <2>2. Unreaped(p) /\ proc[p] \in {"exited", "signaled"}
    BY <1>4 DEF Waitable, Unreaped
  <2>3. ASSUME NEW k \in Jid, Listed(k)', j = 0 \/ k # j
        PROVE  jid2job'[k].num_processes_alive <= Cardinality(Children(k)')
    <3>1. Listed(k) /\ jid2job'[k] = jid2job[k]
      BY <1>0, <1>2, <2>3 DEF Listed, handle_child_status, TableInv, TypeOK
    <3>2. p \notin jid2job[k].pid
      <4>1. CASE j = 0
        <5>1. 0 \notin Jid
          BY BoundAssumption DEF Jid
        <5>2. \A i \in DOMAIN job_list : ~ Owns(i, p)
          BY <1>0, <4>1, <5>1, PidLookup
        <5> QED BY <3>1, <5>2 DEF Listed, Owns
      <4>2. CASE j # 0
        BY <4>2, <1>2, <2>3, <3>1 DEF OwnInv, PidsDisjoint
      <4> QED BY <4>1, <4>2
    <3>3. Children(k)' = Children(k)
      <4>1. jid2job[k].pid \in SUBSET Pid
        BY <3>1, ListedChildren DEF Job
      <4> QED BY <2>1, <3>1, <3>2, <4>1 DEF Children
    <3> QED BY <3>1, <3>3 DEF AliveInv, AliveBound
  <2>4. ASSUME j # 0
        PROVE  jid2job'[j].num_processes_alive <= Cardinality(Children(j)')
    <3>1. jid2job'[j] = r
      BY <1>2, <2>4 DEF TableInv, TypeOK
    <3>2. Children(j)' = Children(j) \ {p} /\ p \in Children(j)
      <4>1. jid2job[j].pid \in SUBSET Pid /\ p \in jid2job[j].pid
        BY <1>2, <2>4 DEF Job
      <4>2. jid2job'[j].pid = jid2job[j].pid
        BY <1>2, <2>4, <3>1
      <4> HIDE DEF r
      <4> QED BY <2>1, <2>2, <4>1, <4>2 DEF Children
    <3>3. IsFiniteSet(Children(j)) /\ Cardinality(Children(j)) \in Nat
      BY <1>2, <2>4, ListedChildren
    <3>4. /\ Cardinality(Children(j)') = Cardinality(Children(j)) - 1
          /\ Cardinality(Children(j)') \in Nat
      BY <3>2, <3>3, FS_RemoveElement, FS_CardinalityType
    <3>5. \/ r.num_processes_alive = jid2job[j].num_processes_alive - 1
          \/ r.num_processes_alive = 0
      BY <1>2, <2>2, <2>4 DEF AfterReport, OnExit, OnSignal, Job
    <3>6. /\ jid2job[j].num_processes_alive <= Cardinality(Children(j))
          /\ jid2job[j].num_processes_alive \in Int
      BY <1>2, <2>4, ListedChildren DEF AliveInv, AliveBound
    <3> HIDE DEF r
    <3> QED BY <3>1, <3>3, <3>4, <3>5, <3>6
  <2>5. AliveBound'
    <3>1. ASSUME NEW k \in Jid, Listed(k)'
          PROVE  jid2job'[k].num_processes_alive <= Cardinality(Children(k)')
      <4>1. CASE j = 0 \/ k # j
        BY <2>3, <3>1, <4>1
      <4>2. CASE j # 0 /\ k = j
        BY <2>4, <4>2
      <4> QED BY <4>1, <4>2
    <3> QED BY <3>1 DEF AliveBound
  <2> QED BY <1>1, <2>5 DEF AliveInv, ChildUnreaped
<1> QED BY <1>3, <1>4

LEMMA AliveFork ==
  ASSUME TableInv, AliveInv, NEW p \in Pid, Fork(p)
  PROVE  AliveInv'
<1>1. /\ child' = p /\ \A j \in Jid : ~ OwnedBy(j, p)
      /\ UNCHANGED table /\ proc' = [proc EXCEPT ![p] = "forked"]
  BY FreshUnowned DEF Fork
<1>2. /\ \A q \in Pid : q # p => (Unreaped(q)' <=> Unreaped(q))
      /\ Unreaped(p)'
  BY <1>1 DEF Unreaped, TableInv, TypeOK
<1>3. ASSUME NEW j \in Jid, Listed(j)'
      PROVE  jid2job'[j].num_processes_alive <= Cardinality(Children(j)')
  <2>1. Listed(j) /\ jid2job'[j] = jid2job[j] /\ p \notin jid2job[j].pid
    BY <1>1, <1>3 DEF table, Listed, OwnedBy
  <2>2. jid2job[j].pid \in SUBSET Pid
    BY <2>1, ListedChildren DEF Job
  <2>3. Children(j)' = Children(j)
    BY <1>2, <2>1, <2>2 DEF Children
  <2> QED BY <2>1, <2>3 DEF AliveInv, AliveBound
<1> QED BY <1>1, <1>2, <1>3 DEF AliveInv, AliveBound, ChildUnreaped

LEMMA AliveRecord ==
  ASSUME TableInv, OwnInv, AliveInv, Record
  PROVE  AliveInv'
<1>1. /\ pc' # "record" /\ pc = "record" /\ proc' = proc
      /\ child \in Pid /\ Unreaped(child) /\ child # NULL
  BY NULLAssumption DEF Record, At, AliveInv, ChildUnreaped
<1>2. ASSUME NEW j \in Jid, Listed(j)'
      PROVE  jid2job'[j].num_processes_alive <= Cardinality(Children(j)')
  <2>1. Listed(j)
    BY <1>2, RecordPids
  <2>2. /\ jid2job[j].num_processes_alive <= Cardinality(Children(j))
        /\ jid2job[j].num_processes_alive \in Int
        /\ IsFiniteSet(Children(j)) /\ Cardinality(Children(j)) \in Nat
    BY <2>1, ListedChildren DEF AliveInv, AliveBound
  <2>3. CASE j # cur
    <3>1. jid2job'[j] = jid2job[j]
      BY <2>3, RecordPids
    <3>2. Children(j)' = Children(j)
      BY <1>1, <3>1 DEF Children, Unreaped
    <3> QED BY <2>2, <3>1, <3>2
  <2>4. CASE j = cur
    <3>1. child \notin Children(j)
      BY <1>1, <2>1 DEF OwnInv, ChildUnowned, OwnedBy, Children
    <3>2. Children(j)' = Children(j) \cup {child}
      BY <1>1, <2>4, RecordPids DEF Children, Unreaped
    <3>3. Cardinality(Children(j)') = Cardinality(Children(j)) + 1
      BY <2>2, <3>1, <3>2, FS_AddElement
    <3>4. jid2job'[j].num_processes_alive = jid2job[j].num_processes_alive + 1
      BY <2>4, RecordPids
    <3> QED BY <2>2, <3>3, <3>4
  <2> QED BY <2>3, <2>4
<1> QED BY <1>1, <1>2 DEF AliveInv, AliveBound, ChildUnreaped

LEMMA AliveStatus ==
  ASSUME TableInv, AliveInv, NEW j \in Jid, jid2job[j] # NULL, NEW st \in Status,
         jid2job' = [jid2job EXCEPT ![j].status = st], job_list' = job_list,
         proc' = proc, pc' # "record"
  PROVE  AliveInv'
<1> DEFINE r == [jid2job[j] EXCEPT !.status = st]
<1>1. jid2job[j] \in Job
  BY DEF TableInv, TypeOK
<1>2. r \in Job /\ r.pid = jid2job[j].pid
  BY <1>1, JobUpdates, SamePids
<1>3. r.num_processes_alive = jid2job[j].num_processes_alive
  BY <1>1 DEF Job
<1>4. jid2job' = [jid2job EXCEPT ![j] = r]
  OBVIOUS
<1> HIDE DEF r
<1> QED BY <1>2, <1>3, <1>4, AliveSame DEF Unreaped

LEMMA AliveCleanStep ==
  ASSUME TableInv, AliveInv, CleanStep
  PROVE  AliveInv'
<1>1. it \in DOMAIN job_list /\ pc' = "clean" /\ proc' = proc
  BY DEF CleanStep, At, kernel
<1>2. CASE Deletable(jid2job[job_list[it]])
  <2>1. PICK d \in Jid : d = job_list[it]
    BY <1>1, LenProperties, ElementOfSeq DEF TableInv, TypeOK
  <2>2. job_list' = RemoveAt(job_list, it) /\ delete_job(d)
    BY <1>2, <2>1 DEF CleanStep
  <2>3. \A k : Listed(k)' <=> Listed(k) /\ k # d
    BY <1>1, <2>1, <2>2, JobRemoved DEF TableInv
  <2>4. \A k \in Jid : k # d => jid2job'[k] = jid2job[k]
    BY <2>2 DEF delete_job, TableInv, TypeOK
  <2>5. \A k \in Jid : Listed(k) => jid2job[k].pid \in SUBSET Pid
    BY ListedChildren DEF Job
  <2> QED BY <1>1, <2>3, <2>4, <2>5, AliveKept DEF Unreaped
<1>3. CASE ~ Deletable(jid2job[job_list[it]])
  BY <1>1, <1>3, AliveTableUnchanged DEF CleanStep, Unreaped
<1> QED BY <1>2, <1>3

LEMMA AliveStartPipeline ==
  ASSUME TableInv, AliveInv, NEW n \in 1 .. MaxPipeline, NEW bg \in BOOLEAN,
         StartPipeline(n, bg)
  PROVE  AliveInv'
<1>1. proc' = proc
  BY DEF StartPipeline, kernel
<1>2. CASE FreeJid = {}
  BY <1>1, <1>2, AliveTableUnchanged DEF StartPipeline, Unreaped
<1>3. CASE FreeJid # {}
  <2>1. PICK j \in FreeJid : j = CHOOSE i \in FreeJid : \A k \in FreeJid : i <= k
    BY <1>3, FirstFreeJid
  <2>2. /\ job_list' = Append(job_list, j)
        /\ jid2job' = [jid2job EXCEPT ![j] = NewJob(bg)]
        /\ pc' \in {"fork", "failed"} /\ j \in Jid
    BY <1>3, <2>1 DEF StartPipeline, FreeJid
  <2>3. /\ NewJob(bg) \in Job /\ NewJob(bg).pid = {}
        /\ NewJob(bg).num_processes_alive = 0
    BY DEF NewJob, Job, Status
  <2>4. \A k : Listed(k)' <=> Listed(k) \/ k = j
    BY <2>1, <2>2, <2>3, JobAdded DEF TableInv
  <2>5. /\ jid2job'[j] = NewJob(bg)
        /\ \A k \in Jid : k # j => jid2job'[k] = jid2job[k]
    BY <2>2, <2>3 DEF TableInv, TypeOK
  <2>6. \A k \in Jid : Listed(k) => jid2job[k].pid \in SUBSET Pid
    BY ListedChildren DEF Job
  <2> QED BY <1>1, <2>2, <2>3, <2>4, <2>5, <2>6, AliveKept DEF Unreaped
<1> QED BY <1>2, <1>3

(* The changes of state of processes that reap nobody.                     *)
LEMMA ContReapsNone ==
  ASSUME TypeOK, NEW g, killpgCONT(g)
  PROVE  \A p \in Pid : Unreaped(p)' <=> Unreaped(p)
BY DEF TypeOK, killpgCONT, Unreaped, Stopped

LEMMA ChangeReapsNone ==
  ASSUME TypeOK, NEW p \in Pid, NEW state, state # "free", Unreaped(p),
         proc' = [proc EXCEPT ![p] = state]
  PROVE  \A q \in Pid : Unreaped(q)' <=> Unreaped(q)
BY DEF TypeOK, Unreaped

LEMMA AliveMain ==
  ASSUME "exhaust" \notin Outside, TableInv, OwnInv, SigchldMask, AliveInv, MainStep
  PROVE  AliveInv'
<1>1. CASE CleanStep
  BY <1>1, AliveCleanStep
<1>2. CASE Record
  BY <1>2, AliveRecord
<1>3. CASE LaunchBackground \/ BgSet
  <2>1. cur \in Jid /\ jid2job[cur] # NULL
    BY <1>3 DEF LaunchBackground, BgSet, At, TableInv, CurOK, Held,
                CurrentJobListed, TypeOK
  <2> QED BY <1>3, <2>1, AliveStatus DEF LaunchBackground, BgSet, Status, kernel
<1>4. ASSUME NEW p \in Pid, Fork(p)
      PROVE  AliveInv'
  BY <1>4, AliveFork
<1>5. ASSUME NEW p \in Pid, WaitReap(p)
      PROVE  AliveInv'
  BY <1>5, AliveReap DEF WaitReap, At
<1>6. CASE CleanDone \/ LaunchForeground \/ WaitFails \/ WaitDone \/ FgGive
  BY <1>6, AliveTableUnchanged
  DEF CleanDone, LaunchForeground, WaitFails, WaitDone, FgGive,
      termstate_give_terminal_to, kernel, Unreaped
<1>7. CASE FgCont
  <2>1. \A p \in Pid : Unreaped(p)' <=> Unreaped(p)
    BY <1>7, ContReapsNone DEF FgCont, TableInv, Unreaped
  <2> QED BY <1>7, <2>1, AliveTableUnchanged DEF FgCont
<1>8. CASE Back
  BY <1>8, AliveTableUnchanged DEF Back, TableInv, TypeOK, Unreaped
<1>9. ~ ForkFails
  BY DEF ForkFails
<1> QED BY <1>1, <1>2, <1>3, <1>4, <1>5, <1>6, <1>7, <1>8, <1>9 DEF MainStep

LEMMA AliveUser ==
  ASSUME TableInv, AliveInv, UserStep
  PROVE  AliveInv'
<1>1. CASE ReadLine \/ EndOfLine \/ Inform \/ Exit
  BY <1>1, AliveTableUnchanged DEF ReadLine, EndOfLine, Inform, Exit, kernel, Unreaped
<1>2. ASSUME NEW j \in Jid \cup {0}, Kill(j) \/ Stop(j)
      PROVE  AliveInv'
  BY <1>2, AliveTableUnchanged DEF Kill, Stop, Unreaped
<1>3. ASSUME NEW j \in Jid \cup {0}, Bg(j)
      PROVE  AliveInv'
  <2>1. \A p \in Pid : Unreaped(p)' <=> Unreaped(p)
    BY <1>3, ContReapsNone DEF Bg, TableInv, Unreaped
  <2> QED BY <1>3, <2>1, AliveTableUnchanged DEF Bg
<1>4. ASSUME NEW j \in Jid \cup {0}, Fg(j)
      PROVE  AliveInv'
  <2>1. CASE get_job_from_jid(j) = 0
    BY <1>4, <2>1, AliveTableUnchanged DEF Fg, table, kernel, Unreaped
  <2>2. CASE get_job_from_jid(j) # 0
    <3>1. j \in Jid /\ jid2job[j] # NULL
      BY <2>2 DEF get_job_from_jid
    <3> QED BY <1>4, <2>2, <3>1, AliveStatus DEF Fg, Status, kernel
  <2> QED BY <2>1, <2>2
<1> QED BY <1>1, <1>2, <1>3, <1>4, AliveStartPipeline DEF UserStep

LEMMA AliveProcess ==
  ASSUME TableInv, AliveInv, NEW p \in Pid, ProcessStep(p)
  PROVE  AliveInv'
<1>1. UNCHANGED <<table, control>>
  BY DEF ProcessStep, handle_child_process, ProcessExits, TakesSignal, OutsideSignal
<1>2. PICK state \in {"running", "exited", "signaled", "stopped"} :
        Unreaped(p) /\ proc' = [proc EXCEPT ![p] = state]
  BY DEF ProcessStep, handle_child_process, ProcessExits, TakesSignal,
         OutsideSignal, ChangesTo, Unreaped, Live, Stopped
<1>3. \A q \in Pid : Unreaped(q)' <=> Unreaped(q)
  BY <1>2, ChangeReapsNone DEF TableInv
<1> QED BY <1>1, <1>3, AliveTableUnchanged DEF control, launch

LEMMA AliveNext ==
  ASSUME "exhaust" \notin Outside, TableInv, OwnInv, SigchldMask, AliveInv,
         [Next]_vars
  PROVE  AliveInv'
<1>1. CASE UNCHANGED vars
  BY <1>1, AliveTableUnchanged DEF vars, control, launch, kernel, Unreaped
<1>2. CASE sigchld_handler
  <2>1. CASE HandlerEnter \/ HandlerReturn
    BY <2>1, AliveTableUnchanged
    DEF HandlerEnter, HandlerReturn, control, launch, kernel, Unreaped
  <2>2. ASSUME NEW p \in Pid, HandlerReap(p)
        PROVE  AliveInv'
    BY <2>2, AliveReap DEF HandlerReap, SigchldMask
  <2> QED BY <1>2, <2>1, <2>2 DEF sigchld_handler
<1>3. CASE Terminated
  BY <1>1, <1>3 DEF Terminated
<1> QED BY <1>1, <1>2, <1>3, AliveMain, AliveUser, AliveProcess DEF Next

(* While wait_for_job waits, its job has a child to be waited for:         *)
(* waitpid does not fail with ECHILD, unless a fork failed.                *)
THEOREM WaitNeverFails ==
  ASSUME "exhaust" \notin Outside
  PROVE  Spec => []WaitHasChild
<1> DEFINE IInv == TableInv /\ OwnInv /\ MaskInv /\ AliveInv
<1>1. Init => IInv
  BY TableInvInit, OwnInit, MaskInit, AliveInit
<1>2. IInv /\ [Next]_vars => IInv'
  BY TableInvNext, OwnNext, MaskNext, AliveNext DEF MaskInv
<1>3. IInv => WaitHasChild
  <2> SUFFICES ASSUME IInv, pc = "wait", MustWait
               PROVE  Children(cur) # {}
    BY DEF WaitHasChild
  <2>1. cur \in Jid /\ Listed(cur)
    BY DEF TableInv, CurOK, Held, CurrentJobListed, TypeOK
  <2>2. /\ 0 < jid2job[cur].num_processes_alive
        /\ jid2job[cur].num_processes_alive <= Cardinality(Children(cur))
        /\ jid2job[cur].num_processes_alive \in Int
        /\ Cardinality(Children(cur)) \in Nat
    BY <2>1, ListedChildren DEF MustWait, AliveInv, AliveBound
  <2>3. Cardinality(Children(cur)) # 0
    BY <2>2
  <2> QED BY <2>3, FS_EmptySet
<1> QED BY <1>1, <1>2, <1>3, PTL DEF Spec

-----------------------------------------------------------------------------
(* The owner of the terminal.                                              *)

(* An action that leaves the terminal alone and neither begins nor ends a  *)
(* foreground wait keeps its owner, if the current job keeps its group.    *)
LEMMA HolderKept ==
  ASSUME TerminalHolder, Up, UNCHANGED tty,
         pc' \in {"wait", "back"} <=> pc \in {"wait", "back"},
         pc \in {"wait", "back"} =>
           cur' = cur /\ jid2job'[cur].pgid = jid2job[cur].pgid
  PROVE  TerminalHolder'
BY DEF TerminalHolder

(* Once the shell has ended nothing is asked of the terminal.              *)
LEMMA HolderEnded ==
  ASSUME pc' \in Ended
  PROVE  TerminalHolder'
BY DEF TerminalHolder, Up

LEMMA HolderReap ==
  ASSUME TableInv, TerminalHolder, Up, NEW p \in Pid, Waitable(p),
         handle_child_status(p), UNCHANGED <<cur, tty>>
  PROVE  TerminalHolder'
<1> DEFINE j == get_job_from_pid(p)
<1>1. CASE j = 0
  BY <1>1, HolderEnded DEF handle_child_status, Ended
<1>2. CASE j # 0
  <2> DEFINE r == AfterReport(jid2job[j], proc[p])
  <2>1. j \in Jid /\ jid2job[j] \in Job
    BY <1>2, PidLookup
  <2>2. jid2job' = [jid2job EXCEPT ![j] = r] /\ pc' = pc
    BY <1>2 DEF handle_child_status
  <2>3. r.pgid = jid2job[j].pgid
    <3>1. \A job \in Job : /\ OnStop(job).pgid = job.pgid
                           /\ OnExit(job).pgid = job.pgid
                           /\ OnSignal(job).pgid = job.pgid
      BY DEF Job, OnStop, OnExit, OnSignal
    <3> QED BY <2>1, <3>1 DEF AfterReport, Waitable
  <2> HIDE DEF j, r
  <2>4. \A k \in Jid : jid2job'[k].pgid = jid2job[k].pgid
    BY <2>1, <2>2, <2>3 DEF TableInv, TypeOK
  <2>5. pc \in {"wait", "back"} => cur \in Jid
    BY DEF TableInv, CurOK, Held, TypeOK
  <2> QED BY <2>2, <2>4, <2>5, HolderKept
<1> QED BY <1>1, <1>2

(* The terminal is given to the group of the current job.                  *)
LEMMA HolderGiven ==
  ASSUME Up, UNCHANGED <<table, cur>>, cur \in Jid,
         termstate_give_terminal_to(jid2job[cur].pgid)
  PROVE  TerminalHolder'
BY DEF termstate_give_terminal_to, TerminalHolder, table, Up, Ended

LEMMA HolderMain ==
  ASSUME TableInv, TerminalHolder, MainStep
  PROVE  TerminalHolder'
<1>0. pc \in Held => cur \in Jid /\ Listed(cur)
  BY DEF TableInv, CurOK, CurrentJobListed, TypeOK
<1>1. CASE CleanStep \/ CleanDone \/ Record \/ LaunchBackground \/ ForkFails \/ BgSet
  BY <1>1, HolderKept
  DEF CleanStep, CleanDone, Record, LaunchBackground, ForkFails, BgSet, At, Up,
      Ended, kernel
<1>2. ASSUME NEW p \in Pid, Fork(p)
      PROVE  TerminalHolder'
  BY <1>2, HolderKept DEF Fork, At, Up, Ended
<1>3. CASE LaunchForeground
  <2>1. cur \in Jid /\ Up
    BY <1>0, <1>3 DEF LaunchForeground, At, Held, Up, Ended
  <2> QED BY <1>3, <2>1, HolderGiven DEF LaunchForeground
<1>4. CASE FgGive
  <2>1. cur \in Jid /\ Listed(cur) /\ Up
    BY <1>0, <1>4 DEF FgGive, At, Held, Up, Ended
  <2>2. termstate_give_terminal_to(jid2job[cur].pgid)
    BY <1>4, <2>1 DEF FgGive, get_process_pgid
  <2> QED BY <1>4, <2>1, <2>2, HolderGiven DEF FgGive
<1>5. ASSUME NEW p \in Pid, WaitReap(p)
      PROVE  TerminalHolder'
  BY <1>5, HolderReap DEF WaitReap, At, Up, Ended
<1>6. CASE WaitFails
  BY <1>6, HolderEnded DEF WaitFails, Ended
<1>7. CASE WaitDone
  BY <1>7, HolderKept DEF WaitDone, At, Up, Ended, table, kernel
<1>8. CASE Back
  <2>1. tty' = Shell /\ pc' \in {"execute", "clean"}
    BY <1>8 DEF Back, terminal_back_to_shell, TableInv, TypeOK
  <2> QED BY <2>1 DEF TerminalHolder
<1>9. CASE FgCont
  <2>1. UNCHANGED tty /\ pc = "fgcont" /\ pc' \in {"fggive", "failed"}
    BY <1>9 DEF FgCont, At
  <2> QED BY <2>1, HolderKept, HolderEnded DEF Up, Ended
<1> QED BY <1>1, <1>2, <1>3, <1>4, <1>5, <1>6, <1>7, <1>8, <1>9 DEF MainStep

LEMMA HolderUser ==
  ASSUME TerminalHolder, UserStep
  PROVE  TerminalHolder'
<1>1. /\ UNCHANGED tty /\ pc \in {"prompt", "execute"}
      /\ pc' \in {"clean", "prompt", "execute", "fork", "bgset", "fgcont"} \cup Ended
  BY DEF UserStep, ReadLine, EndOfLine, Inform, Exit, StartPipeline, Bg, Kill,
         Stop, Fg, At, Ended, kernel
<1> QED BY <1>1, HolderKept, HolderEnded DEF Up, Ended

LEMMA HolderNext ==
  ASSUME TableInv, TerminalHolder, [Next]_vars
  PROVE  TerminalHolder'
<1>1. CASE UNCHANGED vars
  BY <1>1 DEF vars, table, control, kernel, TerminalHolder, Up
<1>2. CASE MainStep
  BY <1>2, HolderMain
<1>3. CASE UserStep
  BY <1>3, HolderUser
<1>4. CASE sigchld_handler
  <2>1. CASE HandlerEnter \/ HandlerReturn
    BY <2>1, HolderKept DEF HandlerEnter, HandlerReturn, table, control, kernel
  <2>2. ASSUME NEW p \in Pid, HandlerReap(p)
        PROVE  TerminalHolder'
    BY <2>2, HolderReap DEF HandlerReap
  <2> QED BY <1>4, <2>1, <2>2 DEF sigchld_handler
<1>5. ASSUME NEW p \in Pid, ProcessStep(p)
      PROVE  TerminalHolder'
  BY <1>5, HolderKept
  DEF ProcessStep, handle_child_process, ProcessExits, TakesSignal,
      OutsideSignal, table, control
<1>6. CASE Terminated
  BY <1>1, <1>6 DEF Terminated
<1> QED BY <1>1, <1>2, <1>3, <1>4, <1>5, <1>6 DEF Next

(* A job has the terminal only while the shell waits for it, and at every  *)
(* other time the shell has it.                                            *)
THEOREM TerminalOwner == Spec => []TerminalHolder
<1>1. Init => TerminalHolder
  BY DEF Init, TerminalHolder
<1>2. TableInv /\ TerminalHolder /\ [Next]_vars => TerminalHolder'
  BY HolderNext
<1> QED BY <1>1, <1>2, TableInvariant, PTL DEF Spec

-----------------------------------------------------------------------------
(* The job in the foreground.                                              *)

(* The job keeps wait_for_job waiting.                                     *)
Awaited(j) ==
  jid2job[j].status = "FOREGROUND" /\ jid2job[j].num_processes_alive > 0

(* The second conjunct is why the shell may forget the job when it goes on *)
(* after the wait: no report can put the job into the foreground again.    *)
ForeInv ==
  /\ ForegroundIsCurrent
  /\ pc = "back" => ~ Awaited(cur)

(* What a step has to show: a job awaited after it is the new current job  *)
(* or was awaited before it and is not the one the step lets go.           *)
LEMMA ForeKept ==
  ASSUME ForeInv,
         \A k \in Jid : Listed(k)' /\ Awaited(k)' =>
           \/ k = cur'
           \/ Listed(k) /\ Awaited(k) /\ (k = cur => cur' = cur),
         pc' = "back" => ~ Awaited(cur)'
  PROVE  ForeInv'
<1>1. \A k \in Jid : Listed(k) /\ Awaited(k) => k = cur
  BY DEF ForeInv, ForegroundIsCurrent, Awaited
<1>2. \A k \in Jid : Listed(k)' /\ Awaited(k)' => k = cur'
  BY <1>1
<1> QED BY <1>2 DEF ForeInv, ForegroundIsCurrent, Awaited

LEMMA ForeTableUnchanged ==
  ASSUME ForeInv, UNCHANGED table,
         cur' = cur \/ cur = 0 \/ ~ Awaited(cur),
         pc' = "back" => pc = "back" /\ cur' = cur
  PROVE  ForeInv'
<1>1. \A k : (Listed(k)' <=> Listed(k)) /\ (Awaited(k)' <=> Awaited(k))
  BY DEF table, Listed, Awaited
<1>2. \A k \in Jid : k # 0
  BY BoundAssumption DEF Jid
<1>3. pc' = "back" => ~ Awaited(cur)'
  BY DEF ForeInv, table, Awaited
<1> QED BY <1>1, <1>2, <1>3, ForeKept

(* One job is updated and not put into the foreground.                     *)
LEMMA ForeUpdate ==
  ASSUME TableInv, ForeInv, NEW j \in Jid, NEW r \in Job,
         jid2job' = [jid2job EXCEPT ![j] = r], job_list' = job_list,
         r.status = "FOREGROUND" /\ r.num_processes_alive > 0 => Awaited(j),
         cur' = cur, pc' = pc
  PROVE  ForeInv'
<1>1. \A k \in Jid : Listed(k)' <=> Listed(k)
  BY DEF Listed
<1>2. \A k \in Jid : Awaited(k)' => Awaited(k)
  BY DEF TableInv, TypeOK, Awaited
<1>3. pc' = "back" => cur \in Jid
  BY DEF TableInv, CurOK, Held, TypeOK
<1>4. pc' = "back" => ~ Awaited(cur)'
  BY <1>2, <1>3 DEF ForeInv, Awaited
<1> QED BY <1>1, <1>2, <1>4, ForeKept

LEMMA ForeReap ==
  ASSUME TableInv, ForeInv, NEW p \in Pid, Waitable(p), handle_child_status(p),
         UNCHANGED <<job_list, cur>>
  PROVE  ForeInv'
<1> DEFINE j == get_job_from_pid(p)
<1>1. CASE j = 0
  BY <1>1, ForeTableUnchanged DEF handle_child_status, table
<1>2. CASE j # 0
  <2> DEFINE r == AfterReport(jid2job[j], proc[p])
  <2>1. j \in Jid /\ jid2job[j] \in Job
    BY <1>2, PidLookup
  <2>2. jid2job' = [jid2job EXCEPT ![j] = r] /\ pc' = pc
    BY <1>2 DEF handle_child_status
  <2>3. r \in Job
    BY <2>1, JobUpdates DEF Waitable
  <2>4. r.status = "FOREGROUND" /\ r.num_processes_alive > 0 => Awaited(j)
    <3>1. \A job \in Job :
            /\ OnStop(job).status = "STOPPED"
            /\ OnExit(job).status = job.status
            /\ OnExit(job).num_processes_alive = job.num_processes_alive - 1
            /\ OnSignal(job).num_processes_alive = 0
      BY DEF Job, OnStop, OnExit, OnSignal
    <3>2. jid2job[j].num_processes_alive \in Int
      BY <2>1 DEF Job
    <3>3. CASE proc[p] = "stopped"
      BY <2>1, <3>1, <3>3 DEF AfterReport
    <3>4. CASE proc[p] = "exited"
      BY <2>1, <3>1, <3>2, <3>4 DEF AfterReport, Awaited
    <3>5. CASE proc[p] = "signaled"
      BY <2>1, <3>1, <3>5 DEF AfterReport
    <3> QED BY <3>3, <3>4, <3>5 DEF Waitable
  <2> HIDE DEF j, r
  <2> QED BY <2>1, <2>2, <2>3, <2>4, ForeUpdate
<1> QED BY <1>1, <1>2

(* bg and the end of the launch of a background job: the current job is    *)
(* not in the foreground when the shell lets it go.                        *)
LEMMA ForeBackground ==
  ASSUME TableInv, ForeInv, LaunchBackground \/ BgSet
  PROVE  ForeInv'
<1>1. /\ jid2job' = [jid2job EXCEPT ![cur].status = "BACKGROUND"]
      /\ job_list' = job_list /\ cur' = 0 /\ pc' \in {"execute", "clean"}
  BY DEF LaunchBackground, BgSet
<1>2. cur \in Jid /\ jid2job[cur] \in Job
  BY DEF LaunchBackground, BgSet, At, TableInv, CurOK, Held,
         CurrentJobListed, TypeOK
<1>3. \A k \in Jid : k # cur => jid2job'[k] = jid2job[k]
  BY <1>1, <1>2 DEF TableInv, TypeOK
<1>4. jid2job'[cur].status = "BACKGROUND"
  BY <1>1, <1>2 DEF TableInv, TypeOK, Job
<1>5. \A k \in Jid : Listed(k)' /\ Awaited(k)' =>
                       Listed(k) /\ Awaited(k) /\ k # cur
  BY <1>1, <1>3, <1>4 DEF Listed, Awaited
<1> QED BY <1>1, <1>5, ForeKept

(* The current job is updated.                                             *)
LEMMA ForeCurrent ==
  ASSUME TableInv, ForeInv, NEW r, pc' # "back", job_list' = job_list,
         jid2job' = [jid2job EXCEPT ![cur'] = r], cur' = cur \/ cur = 0
  PROVE  ForeInv'
<1>0. \A k \in Jid : k # cur' => jid2job'[k] = jid2job[k]
  BY DEF TableInv, TypeOK
<1>1. \A k \in Jid : Listed(k)' /\ Awaited(k)' =>
                       k = cur' \/ (Listed(k) /\ Awaited(k))
  BY <1>0 DEF Listed, Awaited
<1>2. \A k \in Jid : k # 0
  BY BoundAssumption DEF Jid
<1> QED BY <1>1, <1>2, ForeKept

LEMMA ForeCleanStep ==
  ASSUME TableInv, ForeInv, CleanStep
  PROVE  ForeInv'
<1>1. it \in DOMAIN job_list /\ pc' = "clean" /\ cur' = cur
  BY DEF CleanStep, At
<1>2. CASE Deletable(jid2job[job_list[it]])
  <2> DEFINE d == job_list[it]
  <2>1. job_list' = RemoveAt(job_list, it) /\ delete_job(d)
    BY <1>2 DEF CleanStep
  <2>2. \A k : Listed(k)' <=> Listed(k) /\ k # d
    BY <1>1, <2>1, JobRemoved DEF TableInv
  <2>3. \A k \in Jid : k # d => jid2job'[k] = jid2job[k]
    BY <2>1 DEF delete_job, TableInv, TypeOK
  <2> QED BY <1>1, <2>2, <2>3, ForeKept DEF Awaited
<1>3. CASE ~ Deletable(jid2job[job_list[it]])
  BY <1>1, <1>3, ForeTableUnchanged DEF CleanStep
<1> QED BY <1>2, <1>3

LEMMA ForeStartPipeline ==
  ASSUME TableInv, ForeInv, NEW n \in 1 .. MaxPipeline, NEW bg \in BOOLEAN,
         StartPipeline(n, bg)
  PROVE  ForeInv'
<1>1. CASE FreeJid = {}
  BY <1>1, ForeTableUnchanged DEF StartPipeline
<1>2. CASE FreeJid # {}
  <2> DEFINE j == CHOOSE j \in FreeJid : \A k \in FreeJid : j <= k
  <2>1. j \in FreeJid
    BY <1>2, FirstFreeJid
  <2>2. /\ job_list' = Append(job_list, j)
        /\ jid2job' = [jid2job EXCEPT ![j] = NewJob(bg)]
        /\ cur' = j /\ pc' # "back" /\ cur = 0
    BY <1>2 DEF StartPipeline, At, TableInv, CurOK
  <2>3. NewJob(bg) \in Job
    BY DEF NewJob, Job, Status
  <2> HIDE DEF j
  <2>4. \A k : Listed(k)' <=> Listed(k) \/ k = j
    BY <2>1, <2>2, <2>3, JobAdded DEF TableInv
  <2>5. \A k \in Jid : k # j => jid2job'[k] = jid2job[k]
    BY <2>2 DEF TableInv, TypeOK
  <2>6. \A k \in Jid : k # 0
    BY BoundAssumption DEF Jid
  <2> QED BY <2>2, <2>4, <2>5, <2>6, ForeKept DEF Awaited
<1> QED BY <1>1, <1>2

LEMMA ForeMain ==
  ASSUME TableInv, ForeInv, MainStep
  PROVE  ForeInv'
<1>1. CASE CleanStep
  BY <1>1, ForeCleanStep
<1>2. CASE CleanDone \/ LaunchForeground \/ ForkFails \/ WaitFails \/ FgCont \/ FgGive
  BY <1>2, ForeTableUnchanged
  DEF CleanDone, LaunchForeground, ForkFails, WaitFails, FgCont, FgGive,
      termstate_give_terminal_to
<1>3. ASSUME NEW p \in Pid, Fork(p)
      PROVE  ForeInv'
  BY <1>3, ForeTableUnchanged DEF Fork
<1>4. CASE Record
  BY <1>4, ForeCurrent DEF Record
<1>5. CASE LaunchBackground \/ BgSet
  BY <1>5, ForeBackground
<1>6. ASSUME NEW p \in Pid, WaitReap(p)
      PROVE  ForeInv'
  BY <1>6, ForeReap DEF WaitReap
<1>7. CASE WaitDone
  <2>1. UNCHANGED <<table, cur>> /\ ~ Awaited(cur)
    BY <1>7 DEF WaitDone, MustWait, Awaited
  <2>2. ~ Awaited(cur)'
    BY <2>1 DEF table, Awaited
  <2> QED BY <2>1, <2>2, ForeKept DEF table, Listed, Awaited
<1>8. CASE Back
  <2>1. pc' # "back" /\ ~ Awaited(cur) /\ UNCHANGED table
    BY <1>8 DEF Back, At, ForeInv, TableInv, TypeOK
  <2> QED BY <2>1, ForeTableUnchanged
<1> QED BY <1>1, <1>2, <1>3, <1>4, <1>5, <1>6, <1>7, <1>8 DEF MainStep

LEMMA ForeUser ==
  ASSUME TableInv, ForeInv, UserStep
  PROVE  ForeInv'
<1>1. CASE ReadLine \/ EndOfLine \/ Inform \/ Exit
  BY <1>1, ForeTableUnchanged DEF ReadLine, EndOfLine, Inform, Exit
<1>2. ASSUME NEW n \in 1 .. MaxPipeline, NEW bg \in BOOLEAN, StartPipeline(n, bg)
      PROVE  ForeInv'
  BY <1>2, ForeStartPipeline
<1>3. ASSUME NEW j \in Jid \cup {0}, Bg(j) \/ Kill(j) \/ Stop(j)
      PROVE  ForeInv'
  BY <1>3, ForeTableUnchanged DEF Bg, Kill, Stop, At, TableInv, CurOK
<1>4. ASSUME NEW j \in Jid \cup {0}, Fg(j)
      PROVE  ForeInv'
  <2>1. CASE get_job_from_jid(j) = 0
    BY <1>4, <2>1, ForeTableUnchanged DEF Fg, table
  <2>2. CASE get_job_from_jid(j) # 0
    <3>1. /\ jid2job' = [jid2job EXCEPT ![cur'] =
                           [jid2job[j] EXCEPT !.status = "FOREGROUND"]]
          /\ job_list' = job_list /\ pc' = "fgcont" /\ cur = 0
      BY <1>4, <2>2 DEF Fg, At, TableInv, CurOK
    <3> QED BY <3>1, ForeCurrent
  <2> QED BY <2>1, <2>2
<1> QED BY <1>1, <1>2, <1>3, <1>4 DEF UserStep

LEMMA ForeNext ==
  ASSUME TableInv, ForeInv, [Next]_vars
  PROVE  ForeInv'
<1>1. CASE UNCHANGED vars
  BY <1>1, ForeTableUnchanged DEF vars, control
<1>2. CASE MainStep
  BY <1>2, ForeMain
<1>3. CASE UserStep
  BY <1>3, ForeUser
<1>4. CASE sigchld_handler
  <2>1. CASE HandlerEnter \/ HandlerReturn
    BY <2>1, ForeTableUnchanged DEF HandlerEnter, HandlerReturn, control
  <2>2. ASSUME NEW p \in Pid, HandlerReap(p)
        PROVE  ForeInv'
    BY <2>2, ForeReap DEF HandlerReap
  <2> QED BY <1>4, <2>1, <2>2 DEF sigchld_handler
<1>5. ASSUME NEW p \in Pid, ProcessStep(p)
      PROVE  ForeInv'
  BY <1>5, ForeTableUnchanged
  DEF ProcessStep, handle_child_process, ProcessExits, TakesSignal,
      OutsideSignal, control
<1>6. CASE Terminated
  BY <1>1, <1>6 DEF Terminated
<1> QED BY <1>1, <1>2, <1>3, <1>4, <1>5, <1>6 DEF Next

(* A job with live processes is in the foreground only while it is the     *)
(* job the shell launches, resumes or waits for.                           *)
THEOREM OneForegroundJob == Spec => []ForegroundIsCurrent
<1>1. Init => ForeInv
  BY DEF Init, ForeInv, ForegroundIsCurrent, Listed
<1>2. TableInv /\ ForeInv /\ [Next]_vars => ForeInv'
  BY ForeNext
<1>3. ForeInv => ForegroundIsCurrent
  BY DEF ForeInv
<1> QED BY <1>1, <1>2, <1>3, TableInvariant, PTL DEF Spec
=============================================================================
