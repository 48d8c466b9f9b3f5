-------------------------- MODULE JobControlProperties --------------------------
(* What job control in cush promises: invariants, action properties and    *)
(* liveness of JobControl.                                                 *)
EXTENDS JobControl

(* Safety.                                                                 *)

(* The list and the array hold the same jobs, each once, and no process is *)
(* recorded in two jobs (add_job, delete_job, the cleaning loop of main).  *)
ListMatchesArray ==
  /\ \A i, k \in DOMAIN job_list : job_list[i] = job_list[k] => i = k
  /\ \A j \in Jid : Listed(j) <=> jid2job[j] # NULL
PidsDisjoint ==
  \A j, k \in Jid : Listed(j) /\ Listed(k) /\ j # k
                      => jid2job[j].pid \cap jid2job[k].pid = {}
TableConsistent == ListMatchesArray /\ PidsDisjoint

(* The job that handle_pipeline, fg, bg or wait_for_job holds a pointer to *)
(* has not been deleted under it: the comment at cush.c:248 is respected.  *)
CurrentJobListed == cur # 0 => Listed(cur) /\ jid2job[cur] # NULL

(* A child whose status has changed is never forgotten: SIGCHLD is pending *)
(* or the handler is in its loop, also when one signal stands for several  *)
(* children and when wait_for_job has collected some of them.              *)
NoLostWakeup ==
  Up /\ (\E p \in Pid : Waitable(p)) => sigchld \/ handling

(* wait_for_job is entered with SIGCHLD blocked (its assertion), and the   *)
(* shell neither prompts nor runs a command line or the handler with       *)
(* SIGCHLD blocked.                                                        *)
SigchldMask ==
  /\ pc \in {"record", "launched", "wait", "back"} => blocked
  /\ pc \in {"clean", "prompt", "execute", "fgcont", "fggive", "bgset"} => ~ blocked
  /\ handling => ~ blocked

(* While a job holds the terminal the shell waits for that very job; at    *)
(* the prompt and while it launches, the shell holds it                    *)
(* (termstate_give_terminal_to and _back_to_shell).                        *)
TerminalHolder ==
  Up => IF pc \in {"wait", "back"}
        THEN tty = jid2job[cur].pgid
        ELSE tty = Shell

(* waitpid in wait_for_job never fails with ECHILD: while the job counts   *)
(* live processes it has a child to be waited for (comment at cush.c:267). *)
Children(j) == {p \in jid2job[j].pid : Unreaped(p)}
WaitHasChild == pc = "wait" /\ MustWait => Children(cur) # {}

(* wait_for_job does not block on a job whose stop was already collected:  *)
(* nothing but another user's signal could ever end that wait.             *)
WaitCanEnd ==
  pc = "wait" /\ MustWait =>
    \E p \in Children(cur) : proc[p] # "reported"

(* Every unreaped process a job has recorded is in the process group of    *)
(* the job, so that killpg reaches all of them, whichever of parent and    *)
(* child is the first to call setpgid.                                     *)
GroupWhole ==
  \A j \in Jid : Listed(j) => \A p \in Children(j) : pgrp[p] = jid2job[j].pgid

(* The terminal can be given to a job that was just launched: its group    *)
(* cannot have been reaped, however fast its processes are.                *)
LaunchedGroupExists ==
  pc = "launched" => GroupExists(jid2job[cur].pgid)

(* A job other than the one the shell is launching or waiting for is in    *)
(* FOREGROUND only when it has no live process left (cush.c:49).           *)
ForegroundIsCurrent ==
  \A j \in Jid : /\ Listed(j) /\ jid2job[j].status = "FOREGROUND"
                 /\ jid2job[j].num_processes_alive > 0
                 => j = cur

(* A status report that waitpid returns belongs to a listed job            *)
(* (cush.c:245), so that handle_child_status has a job to update.          *)
ReportHasJob ==
  Up /\ (handling \/ pc = "wait") =>
    \A p \in Pid : Waitable(p) => get_job_from_pid(p) # 0

(* num_processes_alive is the number of recorded processes not yet reaped. *)
AliveIsExact ==
  \A j \in Jid : Listed(j) =>
    jid2job[j].num_processes_alive = Cardinality(Children(j))

(* At the prompt, a job with a process that is known to be stopped is      *)
(* STOPPED: no later assignment overwrites the report.                     *)
StopRecorded ==
  pc = "prompt" => \A j \in Jid : Listed(j) =>
    \A p \in Children(j) : proc[p] = "reported" => jid2job[j].status = "STOPPED"

-----------------------------------------------------------------------------
(* Action properties.                                                      *)

(* A built-in with a job id that does not exist leaves the shell running.  *)
UnknownJobHarmless ==
  [][\A j \in Jid \cup {0} :
       get_job_from_jid(j) = 0 /\ (Bg(j) \/ Kill(j) \/ Stop(j) \/ Fg(j))
         => pc' \notin {"failed", "crashed"}]_vars

-----------------------------------------------------------------------------
(* The promise of job control.                                             *)

UserView == INSTANCE Jobs WITH
  None       <- 0,
  jobs       <- [j \in Jid |-> IF jid2job[j] = NULL THEN NULL ELSE Children(j)],
  stopped    <- {j \in Jid : jid2job[j] # NULL /\ jid2job[j].status = "STOPPED"},
  foreground <- IF pc = "wait" THEN cur ELSE 0

(* Job control implements Jobs: handle_child_status takes a process out of *)
(* the one job it is in, main deletes no job with a process left, and      *)
(* wait_for_job returns only when the job has ended or is stopped.         *)
ImplementsJobs == UserView!Spec

-----------------------------------------------------------------------------
(* Liveness.                                                               *)

Zombie(p) == proc[p] \in {"exited", "signaled"}

(* Every terminated child is reaped, in the background and in the          *)
(* foreground, whatever the user does.                                     *)
ZombiesReaped == \A p \in Pid : Zombie(p) ~> (~ Zombie(p) \/ ~ Up)

(* The shell comes back from every foreground job whose processes end.     *)
ForegroundReturns == pc = "wait" ~> pc # "wait"

(* A job without live processes leaves the list.                           *)
Finished(j) == jid2job[j] # NULL /\ jid2job[j].num_processes_alive = 0
FinishedJobsDeleted == \A j \in Jid : Finished(j) ~> (~ Finished(j) \/ ~ Up)
=============================================================================
