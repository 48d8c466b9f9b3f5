---------------------------- MODULE JobControl ----------------------------
(***************************************************************************)
(* Job control in cush (src/src/cush.c): the read/eval loop, the launch of *)
(* a pipeline, the built-in commands, the job table, wait_for_job and the  *)
(* SIGCHLD handler, together with the part of the kernel they rely on      *)
(* (process states, process groups, pending signals, wait statuses, the    *)
(* foreground group of the terminal).                                      *)
(*                                                                         *)
(* The shell is one thread.  An action of the shell is a stretch of its    *)
(* code between two points at which another process, a signal or the       *)
(* SIGCHLD handler can make a difference.  The handler runs on the shell's *)
(* own stack: while `handling' holds, the main program does not move.      *)
(***************************************************************************)
EXTENDS Integers, FiniteSets, SequencesExt

CONSTANTS
  Pid,          \* process ids the kernel hands out
  Shell,        \* process group of the shell
  NULL,         \* no job, no process (NULL or -1 in the code)
  MaxJobs,      \* MAXJOBS: job ids are 1 .. MaxJobs - 1
  MaxPipeline,  \* longest pipeline a user types
  Typed,        \* the built-ins of Builtin that the user types
  Outside       \* what the world outside the shell does, see World

Jid == 1 .. (MaxJobs - 1)
MAX_CAP == 10
Builtin == {"bg", "fg", "kill", "stop"}

(* die: a process is terminated by a signal the shell did not send (^C, a  *)
(* crash).  stop: it is stopped by one (^Z, SIGTTIN, SIGTTOU, SIGSTOP).    *)
(* cont: it is continued by one.  exhaust: pipe2 and fork fail.            *)
World == {"die", "stop", "cont", "exhaust"}

ASSUME PidAssumption   == IsFiniteSet(Pid) /\ Shell \notin Pid
ASSUME NULLAssumption  == NULL \notin Pid /\ (\A S \in SUBSET Pid : NULL # S) /\ NULL # Shell
ASSUME BoundAssumption == /\ MaxJobs \in Nat \ {0}
                          /\ MaxPipeline \in 1 .. MAX_CAP
ASSUME InputAssumption == Typed \subseteq Builtin /\ Outside \subseteq World

Status == {"FOREGROUND", "BACKGROUND", "STOPPED"}

Job == [status : Status, bg_job : BOOLEAN, num_processes_alive : Int,
        pid : SUBSET Pid, pgid : Pid \cup {NULL}]

ASSUME JobAssumption == NULL \notin Job

VARIABLES
  \* --- the job table ---
  job_list,        \* sequence of the ids of the listed jobs
  jid2job,         \* the job with a given id, or NULL
  \* --- control state of the main program ---
  pc,              \* where it is
  cur,             \* the job being launched or brought to the foreground
  total_commands, curr_cmd,  \* of the pipeline being launched
  child,           \* pid returned by the last fork, NULL if it failed
  it,              \* position of the cleaning loop in job_list
  ret,             \* where the main program goes after the foreground wait
  \* --- SIGCHLD ---
  blocked,         \* SIGCHLD is in the shell's signal mask
  handling,        \* sigchld_handler is running
  sigchld,         \* SIGCHLD is pending
  \* --- the kernel ---
  proc,            \* state of each process
  pgrp,            \* process group of each unreaped process
  pend,            \* signal sent to a process and not yet acted on
  tty              \* foreground process group of the terminal

table  == <<job_list, jid2job>>
launch == <<total_commands, curr_cmd, child>>
control == <<pc, cur, launch, it, ret>>
signals == <<blocked, handling, sigchld>>
kernel  == <<proc, pgrp, pend, tty>>
vars == <<table, control, signals, kernel>>

(* `stopped' processes have a stop status nobody has collected, `reported' *)
(* ones are stopped and the shell knows.  `forked' ones have not yet run   *)
(* setpgid and exec.  `exited' and `signaled' ones are zombies.            *)
ProcState == {"free", "forked", "running", "stopped", "reported",
              "exited", "signaled"}
Label == {"clean", "prompt", "execute", "fork", "record", "launched", "wait",
          "back", "fgcont", "fggive", "bgset"}
Ended == {"exited", "failed", "crashed"}

TypeOK ==
  /\ job_list \in Seq(Jid)
  /\ jid2job \in [Jid -> Job \cup {NULL}]
  /\ pc \in Label \cup Ended
  /\ cur \in Jid \cup {0}
  /\ total_commands \in 0 .. MaxPipeline
  /\ curr_cmd \in 0 .. MaxPipeline
  /\ child \in Pid \cup {NULL}
  /\ it \in Nat
  /\ ret \in {"execute", "clean"}
  /\ blocked \in BOOLEAN
  /\ handling \in BOOLEAN
  /\ sigchld \in BOOLEAN
  /\ proc \in [Pid -> ProcState]
  /\ pgrp \in [Pid -> Pid \cup {Shell, NULL}]
  /\ pend \in [Pid -> {"none", "stop", "kill"}]
  /\ tty \in Pid \cup {Shell}

(* main up to the first pass of its loop: no job, no child, the shell owns *)
(* the terminal and SIGCHLD is not blocked.                                *)
Init ==
  /\ job_list = <<>> /\ jid2job = [j \in Jid |-> NULL]
  /\ pc = "clean" /\ cur = 0 /\ it = 1 /\ ret = "execute"
  /\ total_commands = 0 /\ curr_cmd = 0 /\ child = NULL
  /\ blocked = FALSE /\ handling = FALSE /\ sigchld = FALSE
  /\ proc = [p \in Pid |-> "free"] /\ pgrp = [p \in Pid |-> NULL]
  /\ pend = [p \in Pid |-> "none"] /\ tty = Shell

-----------------------------------------------------------------------------
(* Lookups in the job table; 0 stands for the NULL job.                    *)

Listed(j) == \E i \in DOMAIN job_list : job_list[i] = j

get_job_from_jid(j) == IF j \in Jid /\ jid2job[j] # NULL THEN j ELSE 0

(* The first job of the list with p in its pid array.                      *)
Owns(i, p) == p \in jid2job[job_list[i]].pid
get_job_from_pid(p) ==
  IF \E i \in DOMAIN job_list : Owns(i, p)
  THEN job_list[CHOOSE i \in DOMAIN job_list :
                  Owns(i, p) /\ \A k \in 1 .. (i - 1) : ~ Owns(k, p)]
  ELSE 0

get_process_pgid(j) == IF Listed(j) THEN jid2job[j].pgid ELSE NULL

-----------------------------------------------------------------------------
(* The kernel.                                                             *)

Live == {"forked", "running", "stopped", "reported"}
Unreaped(p) == proc[p] # "free"
Group(g) == {p \in Pid : Unreaped(p) /\ pgrp[p] = g}
GroupExists(g) == g # NULL /\ Group(g) # {}
Waitable(p) == proc[p] \in {"stopped", "exited", "signaled"}

(* A pid fork may return: in use neither as a pid nor as a group, and not  *)
(* recorded in a listed job (pids do not wrap around that fast).           *)
Remembered(p) == \E i \in DOMAIN job_list :
                    Owns(i, p) \/ jid2job[job_list[i]].pgid = p
Fresh == {p \in Pid : /\ proc[p] = "free" /\ Group(p) = {}
                      /\ tty # p /\ ~ Remembered(p)}

(* setpgid: effective once, while p is still in the group it was born in.  *)
Joined(p, g) ==
  IF g # NULL /\ pgrp[p] = Shell THEN [pgrp EXCEPT ![p] = g] ELSE pgrp

(* killpg with SIGCONT resumes stopped members at once and discards their  *)
(* pending stops; a resumption raises SIGCHLD (CLD_CONTINUED).             *)
Stopped(p) == proc[p] \in {"stopped", "reported"}
killpgCONT(g) ==
  /\ proc' = [p \in Pid |-> IF p \in Group(g) /\ Stopped(p)
                            THEN "running" ELSE proc[p]]
  /\ pend' = [p \in Pid |-> IF p \in Group(g) /\ pend[p] = "stop"
                            THEN "none" ELSE pend[p]]
  /\ sigchld' = (sigchld \/ \E p \in Group(g) : Stopped(p))

killpgKILL(g) ==
  pend' = [p \in Pid |-> IF p \in Group(g) /\ proc[p] \in Live
                         THEN "kill" ELSE pend[p]]

killpgSTOP(g) ==
  pend' = [p \in Pid |-> IF /\ p \in Group(g)
                            /\ proc[p] \in {"forked", "running"}
                            /\ pend[p] = "none"
                         THEN "stop" ELSE pend[p]]

(* A successful waitpid for p: a stop is marked as reported, a zombie is   *)
(* gone.                                                                   *)
waitpid(p) ==
  IF proc[p] = "stopped"
  THEN proc' = [proc EXCEPT ![p] = "reported"] /\ UNCHANGED <<pgrp, pend>>
  ELSE /\ proc' = [proc EXCEPT ![p] = "free"]
       /\ pgrp' = [pgrp EXCEPT ![p] = NULL]
       /\ pend' = [pend EXCEPT ![p] = "none"]

\* Bug: SIGCHLD is not blocked.
signal_block_Nothing == UNCHANGED blocked
signal_block == blocked' = TRUE

(* signal_unblock: a pending SIGCHLD is delivered before the call returns. *)
signal_unblock ==
  blocked' = FALSE /\ handling' = sigchld /\ sigchld' = FALSE

-----------------------------------------------------------------------------
(* Steps shared by wait_for_job and the handler.                           *)

\* Bugs: a stop is not recorded; it is recorded for a foreground job only; it
\* counts as an exit.
OnStop_Ignored(job) == job
OnStop_Foreground(job) ==
  IF job.status = "FOREGROUND" THEN [job EXCEPT !.status = "STOPPED"] ELSE job
OnStop_IsExit(job) ==
  [job EXCEPT !.status = "STOPPED", !.num_processes_alive = @ - 1]
OnStop(job) == [job EXCEPT !.status = "STOPPED"]

OnExit(job) == [job EXCEPT !.num_processes_alive = @ - 1]

\* Bug: a death by signal is reported and not counted.
OnSignal_NotCounted(job) == job
OnSignal(job) == [job EXCEPT !.num_processes_alive = 0]

AfterReport(job, state) ==
  CASE state = "stopped"  -> OnStop(job)
    [] state = "exited"   -> OnExit(job)
    [] state = "signaled" -> OnSignal(job)

\* Bug: the job is deleted as soon as its last process is gone.
handle_child_status_Deletes(p) ==
  LET j == get_job_from_pid(p)
      job == AfterReport(jid2job[j], proc[p]) IN
  IF j = 0
  THEN pc' = "crashed" /\ UNCHANGED jid2job
  ELSE /\ jid2job' = [jid2job EXCEPT
            ![j] = IF job.num_processes_alive = 0 THEN NULL ELSE job]
       /\ UNCHANGED pc

(* The status of p is entered in the table; a NULL job is dereferenced.    *)
handle_child_status(p) ==
  LET j == get_job_from_pid(p) IN
  IF j = 0
  THEN pc' = "crashed" /\ UNCHANGED jid2job
  ELSE /\ jid2job' = [jid2job EXCEPT ![j] = AfterReport(@, proc[p])]
       /\ UNCHANGED pc

-----------------------------------------------------------------------------
(* The SIGCHLD handler.                                                    *)

Up == pc \notin Ended

HandlerEnter ==
  /\ Up /\ sigchld /\ ~ blocked /\ ~ handling
  /\ handling' = TRUE /\ sigchld' = FALSE
  /\ UNCHANGED <<table, control, blocked, kernel>>

(* One turn of the loop around waitpid(-1, WUNTRACED | WNOHANG).           *)
HandlerReap(p) ==
  /\ Up /\ handling /\ Waitable(p)
  /\ handle_child_status(p)
  /\ waitpid(p)
  /\ UNCHANGED <<job_list, cur, launch, it, ret, signals, tty>>

\* Bug: if instead of while, one waitpid per signal.
HandlerReturn_NoLoop ==
  /\ Up /\ handling
  /\ handling' = FALSE
  /\ UNCHANGED <<table, control, blocked, sigchld, kernel>>

HandlerReturn ==
  /\ Up /\ handling /\ ~ \E p \in Pid : Waitable(p)
  /\ handling' = FALSE
  /\ UNCHANGED <<table, control, blocked, sigchld, kernel>>

sigchld_handler == HandlerEnter \/ HandlerReturn \/ \E p \in Pid : HandlerReap(p)

-----------------------------------------------------------------------------
(* The read/eval loop.                                                     *)

At(label) == pc = label /\ ~ handling

\* Bugs: a job with one live process is deleted; only background jobs are.
Deletable_OneLeft(job) == job.num_processes_alive <= 1
Deletable_Background(job) ==
  job.num_processes_alive = 0 /\ job.status = "BACKGROUND"
Deletable(job) == job.num_processes_alive = 0

\* Bug: the array entry is not cleared.
delete_job_KeepsEntry(j) == UNCHANGED jid2job
delete_job(j) == jid2job' = [jid2job EXCEPT ![j] = NULL]

(* One turn of the loop that deletes the finished jobs.                    *)
CleanStep ==
  /\ At("clean") /\ it \in DOMAIN job_list
  /\ LET j == job_list[it] IN
     IF Deletable(jid2job[j])
     THEN /\ job_list' = RemoveAt(job_list, it)
          /\ delete_job(j)
          /\ UNCHANGED it
     ELSE it' = it + 1 /\ UNCHANGED table
  /\ UNCHANGED <<pc, cur, launch, ret, signals, kernel>>

CleanDone ==
  /\ At("clean") /\ it \notin DOMAIN job_list
  /\ pc' = "prompt" /\ it' = 1
  /\ UNCHANGED <<table, cur, launch, ret, signals, kernel>>

(* readline returns EOF; history_expand fails; the line is empty or has a  *)
(* syntax error; or it is executed.                                        *)
ReadLine ==
  /\ At("prompt")
  /\ pc' \in {"exited", "failed", "clean", "execute"}
  /\ UNCHANGED <<table, cur, launch, it, ret, signals, kernel>>

(* execute has run all pipelines of the line.                              *)
EndOfLine ==
  /\ At("execute")
  /\ pc' = "clean"
  /\ UNCHANGED <<table, cur, launch, it, ret, signals, kernel>>

-----------------------------------------------------------------------------
(* handle_pipeline: launching a job.                                       *)

\* Bug: the test for a free entry is missing.
FreeJid_Any == Jid

FreeJid == {j \in Jid : jid2job[j] = NULL}

NewJob(bg) ==
  [status |-> IF bg THEN "BACKGROUND" ELSE "FOREGROUND", bg_job |-> bg,
   num_processes_alive |-> 0, pid |-> {}, pgid |-> NULL]

(* add_job and the creation of the pipes for a pipeline of n commands.     *)
(* add_job aborts when no id is free; a failing pipe2 ends the shell.      *)
StartPipeline(n, bg) ==
  /\ At("execute")
  /\ "exhaust" \in Outside \/ n <= Cardinality(Fresh)
  /\ IF FreeJid = {}
     THEN pc' = "crashed" /\ UNCHANGED <<table, cur, total_commands>>
     ELSE LET j == CHOOSE j \in FreeJid : \A k \in FreeJid : j <= k IN
          /\ job_list' = Append(job_list, j)
          /\ jid2job' = [jid2job EXCEPT ![j] = NewJob(bg)]
          /\ cur' = j /\ total_commands' = n
          /\ \/ pc' = "fork"
             \/ n > 1 /\ "exhaust" \in Outside /\ pc' = "failed"
  /\ UNCHANGED <<curr_cmd, child, it, ret, signals, kernel>>

(* SIGCHLD is blocked and a child is forked; it starts in the group of the *)
(* shell.                                                                  *)
Fork(p) ==
  /\ At("fork") /\ p \in Fresh
  /\ signal_block
  /\ child' = p /\ pc' = "record"
  /\ proc' = [proc EXCEPT ![p] = "forked"]
  /\ pgrp' = [pgrp EXCEPT ![p] = Shell]
  /\ UNCHANGED <<table, cur, total_commands, curr_cmd, it, ret, handling,
                 sigchld, pend, tty>>

ForkFails ==
  /\ At("fork") /\ "exhaust" \in Outside
  /\ signal_block
  /\ child' = NULL /\ pc' = "record"
  /\ UNCHANGED <<table, cur, total_commands, curr_cmd, it, ret, handling,
                 sigchld, kernel>>

(* The parent's half of the loop body, taken after a failed fork as well:  *)
(* the group of the job, setpgid, the pid array and the counters.          *)
GroupOfJob == IF curr_cmd = 0 THEN child ELSE jid2job[cur].pgid

\* Bug: the pid array is overwritten.
WithChild_Only(pids) == {child} \ {NULL}
WithChild(pids) == pids \cup ({child} \ {NULL})

Recorded(job) ==
  [job EXCEPT !.pgid = GroupOfJob, !.pid = WithChild(@),
              !.num_processes_alive = @ + 1]

\* Bug: the parent leaves setpgid to the child.
ParentJoins_Not == pgrp
ParentJoins == IF child # NULL THEN Joined(child, GroupOfJob) ELSE pgrp

Record ==
  /\ At("record")
  /\ jid2job' = [jid2job EXCEPT ![cur] = Recorded(@)]
  /\ pgrp' = ParentJoins
  /\ child' = NULL
  /\ curr_cmd' = curr_cmd + 1
  /\ pc' = IF curr_cmd' < total_commands THEN "fork" ELSE "launched"
  /\ UNCHANGED <<job_list, cur, total_commands, it, ret, signals, proc, pend,
                 tty>>

\* Bug: the command counter is not local to one pipeline.
Launched_KeepsCounter == total_commands' = 0 /\ UNCHANGED curr_cmd

Launched == total_commands' = 0 /\ curr_cmd' = 0

(* A background job: its status is set and SIGCHLD unblocked.              *)
LaunchBackground ==
  /\ At("launched") /\ jid2job[cur].bg_job
  /\ jid2job' = [jid2job EXCEPT ![cur].status = "BACKGROUND"]
  /\ signal_unblock
  /\ pc' = "execute" /\ cur' = 0 /\ Launched
  /\ UNCHANGED <<job_list, child, it, ret, kernel>>

(* termstate_give_terminal_to: tcsetpgrp to a group that does not exist is *)
(* a fatal error.                                                          *)
termstate_give_terminal_to(g) ==
  IF GroupExists(g)
  THEN tty' = g /\ pc' = "wait"
  ELSE pc' = "failed" /\ UNCHANGED tty

LaunchForeground ==
  /\ At("launched") /\ ~ jid2job[cur].bg_job
  /\ termstate_give_terminal_to(jid2job[cur].pgid)
  /\ ret' = "execute" /\ Launched
  /\ UNCHANGED <<table, cur, child, it, signals, proc, pgrp, pend>>

-----------------------------------------------------------------------------
(* wait_for_job, for a launched job and for fg.                            *)

\* Bug: off by one in the count of live processes.
MustWait_OffByOne == /\ jid2job[cur].status = "FOREGROUND"
                     /\ jid2job[cur].num_processes_alive > 1

MustWait == /\ jid2job[cur].status = "FOREGROUND"
            /\ jid2job[cur].num_processes_alive > 0

WaitReap(p) ==
  /\ At("wait") /\ MustWait /\ Waitable(p)
  /\ handle_child_status(p)
  /\ waitpid(p)
  /\ UNCHANGED <<job_list, cur, launch, it, ret, signals, tty>>

(* waitpid fails with ECHILD when the shell has no child at all.           *)
WaitFails ==
  /\ At("wait") /\ MustWait /\ ~ \E p \in Pid : Unreaped(p)
  /\ pc' = "failed"
  /\ UNCHANGED <<table, cur, launch, it, ret, signals, kernel>>

WaitDone ==
  /\ At("wait") /\ ~ MustWait
  /\ pc' = "back"
  /\ UNCHANGED <<table, cur, launch, it, ret, signals, kernel>>

\* Bug: the terminal stays with the job.
terminal_back_to_shell_Not == UNCHANGED tty
terminal_back_to_shell == tty' = Shell

(* The shell takes the terminal back and unblocks SIGCHLD.                 *)
Back ==
  /\ At("back")
  /\ terminal_back_to_shell
  /\ signal_unblock
  /\ pc' = ret /\ cur' = 0 /\ ret' = "execute"
  /\ UNCHANGED <<table, launch, it, proc, pgrp, pend>>

-----------------------------------------------------------------------------
(* handle_build_in.  execute skips the rest of the line after a built-in.  *)
(* The job id j ranges over Jid and 0, any number that is not a job id.    *)

(* jobs, history, and any built-in without its argument.                   *)
Inform ==
  /\ At("execute") /\ pc' = "clean"
  /\ UNCHANGED <<table, cur, launch, it, ret, signals, kernel>>

Exit ==
  /\ At("execute") /\ pc' = "exited"
  /\ UNCHANGED <<table, cur, launch, it, ret, signals, kernel>>

(* bg: an unknown job is reported; a failing killpg ends the shell.  The   *)
(* status is set after SIGCONT was sent, with SIGCHLD not blocked.         *)
Bg(j) ==
  /\ At("execute") /\ "bg" \in Typed
  /\ IF get_job_from_jid(j) = 0
     THEN pc' = "clean" /\ UNCHANGED <<cur, proc, pend, sigchld>>
     ELSE IF GroupExists(get_process_pgid(j))
     THEN pc' = "bgset" /\ cur' = j /\ killpgCONT(get_process_pgid(j))
     ELSE pc' = "failed" /\ UNCHANGED <<cur, proc, pend, sigchld>>
  /\ UNCHANGED <<table, launch, it, ret, blocked, handling, pgrp, tty>>

\* Bug: the status is left alone.
BgSet_NoStatus ==
  /\ At("bgset")
  /\ pc' = "clean" /\ cur' = 0
  /\ UNCHANGED <<table, launch, it, ret, signals, kernel>>

BgSet ==
  /\ At("bgset")
  /\ jid2job' = [jid2job EXCEPT ![cur].status = "BACKGROUND"]
  /\ pc' = "clean" /\ cur' = 0
  /\ UNCHANGED <<job_list, launch, it, ret, signals, kernel>>

(* kill and stop go on with an unknown job: killpg of group -1 fails.      *)
Kill(j) ==
  /\ At("execute") /\ "kill" \in Typed
  /\ IF GroupExists(get_process_pgid(j))
     THEN pc' = "clean" /\ killpgKILL(get_process_pgid(j))
     ELSE pc' = "failed" /\ UNCHANGED pend
  /\ UNCHANGED <<table, cur, launch, it, ret, signals, proc, pgrp, tty>>

Stop(j) ==
  /\ At("execute") /\ "stop" \in Typed
  /\ IF GroupExists(get_process_pgid(j))
     THEN pc' = "clean" /\ killpgSTOP(get_process_pgid(j))
     ELSE pc' = "failed" /\ UNCHANGED pend
  /\ UNCHANGED <<table, cur, launch, it, ret, signals, proc, pgrp, tty>>

(* fg: an unknown job is dereferenced.                                     *)
Fg(j) ==
  /\ At("execute") /\ "fg" \in Typed
  /\ IF get_job_from_jid(j) = 0
     THEN pc' = "crashed" /\ UNCHANGED <<jid2job, cur>>
     ELSE /\ jid2job' = [jid2job EXCEPT ![j].status = "FOREGROUND"]
          /\ pc' = "fgcont" /\ cur' = j
  /\ UNCHANGED <<job_list, launch, it, ret, signals, kernel>>

FgCont ==
  /\ At("fgcont")
  /\ IF GroupExists(get_process_pgid(cur))
     THEN pc' = "fggive" /\ killpgCONT(get_process_pgid(cur))
     ELSE pc' = "failed" /\ UNCHANGED <<proc, pend, sigchld>>
  /\ UNCHANGED <<table, cur, launch, it, ret, blocked, handling, pgrp, tty>>

FgGive ==
  /\ At("fggive")
  /\ signal_block
  /\ termstate_give_terminal_to(get_process_pgid(cur))
  /\ ret' = "clean"
  /\ UNCHANGED <<table, cur, launch, it, handling, sigchld, proc, pgrp, pend>>

-----------------------------------------------------------------------------
(* The processes.                                                          *)

(* The child leaves the group of the shell, as its parent does for it, and *)
(* runs its program.  Until the parent has recorded it the child uses its  *)
(* own copy of the job, afterwards it is in the group already.             *)
handle_child_process(p) ==
  /\ Up /\ proc[p] = "forked"
  /\ proc' = [proc EXCEPT ![p] = "running"]
  /\ pgrp' = IF p = child THEN Joined(p, GroupOfJob) ELSE pgrp
  /\ UNCHANGED <<table, control, signals, pend, tty>>

ChangesTo(p, state) == proc' = [proc EXCEPT ![p] = state] /\ sigchld' = TRUE

ProcessExits(p) ==
  /\ Up /\ proc[p] = "running"
  /\ ChangesTo(p, "exited")
  /\ UNCHANGED <<table, control, blocked, handling, pgrp, pend, tty>>

(* A process acts on a signal the shell sent to its group.                 *)
TakesSignal(p) ==
  /\ Up
  /\ \/ pend[p] = "kill" /\ proc[p] \in Live /\ ChangesTo(p, "signaled")
     \/ pend[p] = "stop" /\ proc[p] = "running" /\ ChangesTo(p, "stopped")
  /\ pend' = [pend EXCEPT ![p] = "none"]
  /\ UNCHANGED <<table, control, blocked, handling, pgrp, tty>>

OutsideSignal(p) ==
  /\ Up
  /\ \/ "die" \in Outside /\ proc[p] \in Live /\ ChangesTo(p, "signaled")
     \/ "stop" \in Outside /\ proc[p] = "running" /\ ChangesTo(p, "stopped")
     \/ "cont" \in Outside /\ Stopped(p) /\ ChangesTo(p, "running")
  /\ UNCHANGED <<table, control, blocked, handling, pgrp, pend, tty>>

-----------------------------------------------------------------------------
(* The steps the main program takes on its own, and those of its user.     *)
MainStep ==
  \/ CleanStep \/ CleanDone \/ Record \/ LaunchBackground \/ LaunchForeground
  \/ (\E p \in Pid : Fork(p)) \/ ForkFails
  \/ (\E p \in Pid : WaitReap(p)) \/ WaitFails \/ WaitDone \/ Back
  \/ BgSet \/ FgCont \/ FgGive

UserStep ==
  \/ ReadLine \/ EndOfLine \/ Inform \/ Exit
  \/ \E n \in 1 .. MaxPipeline, bg \in BOOLEAN : StartPipeline(n, bg)
  \/ \E j \in Jid \cup {0} : Bg(j) \/ Kill(j) \/ Stop(j) \/ Fg(j)

ProcessStep(p) ==
  handle_child_process(p) \/ ProcessExits(p) \/ TakesSignal(p) \/ OutsideSignal(p)

(* Once the shell is gone nothing is modelled any more.                    *)
Terminated == pc \in Ended /\ UNCHANGED vars

Next ==
  \/ MainStep \/ UserStep \/ sigchld_handler
  \/ (\E p \in Pid : ProcessStep(p))
  \/ Terminated

Spec == Init /\ [][Next]_vars

(* The shell and its handler run when they can (the kernel schedules them  *)
(* and delivers a pending, unblocked SIGCHLD); a child gets to exec and to *)
(* act on the signals sent to it.                                          *)
FairSpec ==
  /\ Spec
  /\ WF_vars(MainStep) /\ WF_vars(sigchld_handler)
  /\ \A p \in Pid : WF_vars(handle_child_process(p)) /\ WF_vars(TakesSignal(p))

(* Programs that are not stopped end by themselves.                        *)
TerminatingSpec == FairSpec /\ \A p \in Pid : WF_vars(ProcessExits(p))

(* The user keeps typing, and every line has finitely many pipelines.      *)
InteractiveSpec == TerminatingSpec /\ WF_vars(UserStep) /\ SF_vars(EndOfLine)
=============================================================================
