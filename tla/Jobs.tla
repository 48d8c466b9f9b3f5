-------------------------------- MODULE Jobs --------------------------------
(***************************************************************************)
(* What job control promises to the user of a shell, without signals,      *)
(* statuses or a process table: a process belongs to one job from the      *)
(* moment it is recorded until its end is known, a job disappears only     *)
(* when none of its processes is left, and the shell comes back from a job *)
(* in the foreground only when the job has ended or is stopped.            *)
(* JobControl implements it as long as no process is killed.               *)
(***************************************************************************)
CONSTANTS Jid, Pid, NULL, None

VARIABLES
  jobs,         \* jobs[j]: the processes of job j, NULL if there is no such job
  stopped,      \* the jobs that are shown as stopped
  foreground    \* the job the shell waits for, or None

vars == <<jobs, stopped, foreground>>

Exists(j) == jobs[j] # NULL

Init == /\ jobs = [j \in Jid |-> NULL]
        /\ stopped = {}
        /\ foreground = None

Create(j) == /\ ~Exists(j)
             /\ jobs' = [jobs EXCEPT ![j] = {}]
             /\ UNCHANGED <<stopped, foreground>>

\* A process is put into one job; it is in no other.
Add(j, p) == /\ Exists(j)
             /\ \A k \in Jid : Exists(k) => p \notin jobs[k]
             /\ jobs' = [jobs EXCEPT ![j] = @ \cup {p}]
             /\ UNCHANGED <<stopped, foreground>>

End(j, p) == /\ Exists(j) /\ p \in jobs[j]
             /\ jobs' = [jobs EXCEPT ![j] = @ \ {p}]
             /\ UNCHANGED <<stopped, foreground>>

Stop(j) == /\ Exists(j) /\ jobs[j] # {}
           /\ stopped' = stopped \cup {j}
           /\ UNCHANGED <<jobs, foreground>>

Continue(j) == /\ j \in stopped
               /\ stopped' = stopped \ {j}
               /\ UNCHANGED <<jobs, foreground>>

Wait(j) == /\ foreground = None /\ Exists(j)
           /\ foreground' = j
           /\ UNCHANGED <<jobs, stopped>>

Return == /\ foreground # None
          /\ foreground \in stopped \/ jobs[foreground] = {}
          /\ foreground' = None
          /\ UNCHANGED <<jobs, stopped>>

Delete(j) == /\ Exists(j) /\ jobs[j] = {} /\ foreground # j
             /\ jobs' = [jobs EXCEPT ![j] = NULL]
             /\ stopped' = stopped \ {j}
             /\ UNCHANGED foreground

Next == \/ Return
        \/ \E j \in Jid : \/ Create(j) \/ Stop(j) \/ Continue(j) \/ Wait(j) \/ Delete(j)
                          \/ \E p \in Pid : Add(j, p) \/ End(j, p)

Spec == Init /\ [][Next]_vars
=============================================================================
