------------------------- MODULE JobRefinementProofs -------------------------
(* Theorems about JobControl as long as fork does not fail: process groups *)
(* are whole, the group of a new job is there, waits can end and stops are *)
(* not forgotten.  If nobody is killed either, the counts of live          *)
(* processes are exact, every report belongs to a job, and JobControl      *)
(* implements Jobs: every step is one of Jobs or leaves what the user sees *)
(* alone.                                                                  *)
EXTENDS JobControlProofs

-----------------------------------------------------------------------------
(* What the actions that write the job table do to each job.               *)

(* A job is as it was, but for the status and the count.                   *)
SameProcesses(k) ==
  /\ jid2job'[k].pid = jid2job[k].pid
  /\ jid2job'[k].pgid = jid2job[k].pgid
  /\ jid2job'[k].bg_job = jid2job[k].bg_job

(* A status is assigned.                                                   *)
LEMMA StatusEffect ==
  ASSUME TableInv, NEW j \in Jid, jid2job[j] # NULL, NEW st \in Status,
         jid2job' = [jid2job EXCEPT ![j].status = st], job_list' = job_list
  PROVE  /\ \A k : Listed(k)' <=> Listed(k)
         /\ \A k \in Jid \ {j} : jid2job'[k] = jid2job[k]
         /\ SameProcesses(j) /\ jid2job'[j] # NULL /\ jid2job'[j].status = st
         /\ jid2job'[j].num_processes_alive = jid2job[j].num_processes_alive
<1>1. jid2job[j] \in Job
  BY DEF TableInv, TypeOK
<1>2. [jid2job[j] EXCEPT !.status = st] \in Job
  BY <1>1, JobUpdates
<1>3. jid2job'[j] = [jid2job[j] EXCEPT !.status = st]
  BY DEF TableInv, TypeOK
<1>4. \A k \in Jid \ {j} : jid2job'[k] = jid2job[k]
  BY DEF TableInv, TypeOK
<1>5. \A k : Listed(k)' <=> Listed(k)
  BY DEF Listed
<1>6. SameProcesses(j) /\ jid2job'[j].status = st
      /\ jid2job'[j].num_processes_alive = jid2job[j].num_processes_alive
  BY <1>1, <1>3 DEF Job, SameProcesses
<1> QED BY <1>2, <1>3, <1>4, <1>5, <1>6, JobAssumption

StatusAfter(status, state) == IF state = "stopped" THEN "STOPPED" ELSE status

CountAfter(count, state) ==
  IF state = "stopped" THEN count ELSE IF state = "exited" THEN count - 1 ELSE 0

(* What a report does to a job record.                                     *)
LEMMA ReportFields ==
  ASSUME NEW r \in Job, NEW state \in {"stopped", "exited", "signaled"}
  PROVE  LET s == AfterReport(r, state) IN
         /\ s \in Job /\ s.pid = r.pid /\ s.pgid = r.pgid /\ s.bg_job = r.bg_job
         /\ s.status = StatusAfter(r.status, state)
         /\ s.num_processes_alive = CountAfter(r.num_processes_alive, state)
<1> USE DEF StatusAfter, CountAfter
<1>1. CASE state = "stopped"
  BY <1>1, JobUpdates DEF AfterReport, OnStop, Job
<1>2. CASE state = "exited"
  BY <1>2, JobUpdates DEF AfterReport, OnExit, Job
<1>3. CASE state = "signaled"
  BY <1>3, JobUpdates DEF AfterReport, OnSignal, Job
<1> QED BY <1>1, <1>2, <1>3

(* The status of p is collected: only a job that has p is written.         *)
ReportEntered(k, p) ==
  /\ SameProcesses(k)
  /\ p \notin jid2job[k].pid => jid2job'[k] = jid2job[k]
  /\ p \in jid2job[k].pid =>
       /\ jid2job'[k].status = StatusAfter(jid2job[k].status, proc[p])
       /\ jid2job'[k].num_processes_alive =
            CountAfter(jid2job[k].num_processes_alive, proc[p])

LEMMA ReapEffect ==
  ASSUME TableInv, OwnInv, NEW p \in Pid, Waitable(p), handle_child_status(p),
         job_list' = job_list
  PROVE  /\ \A k : Listed(k)' <=> Listed(k)
         /\ \A k \in Jid : Listed(k) => ReportEntered(k, p)
         /\ \A k \in Jid : jid2job'[k] = NULL <=> jid2job[k] = NULL
         /\ \/ pc' = pc
            \/ pc' = "crashed" /\ \A k \in Jid : ~ OwnedBy(k, p)
<1>0. PICK j \in Jid \cup {0} : j = get_job_from_pid(p)
  BY PidLookup
<1>1. \A k : Listed(k)' <=> Listed(k)
  BY DEF Listed
<1>2. CASE j = 0
  <2>1. pc' = "crashed" /\ jid2job' = jid2job
    BY <1>0, <1>2 DEF handle_child_status
  <2>2. \A k \in Jid : ~ OwnedBy(k, p)
    <3>1. 0 \notin Jid
      BY BoundAssumption DEF Jid
    <3>2. \A i \in DOMAIN job_list : ~ Owns(i, p)
      BY <1>0, <1>2, <3>1, PidLookup
    <3> QED BY <3>2 DEF OwnedBy, Listed, Owns
  <2> QED BY <1>1, <2>1, <2>2 DEF SameProcesses, OwnedBy, ReportEntered
<1>3. CASE j # 0
  <2>1. /\ j \in Jid /\ Listed(j) /\ jid2job[j] \in Job /\ p \in jid2job[j].pid
        /\ jid2job[j] # NULL
    BY <1>0, <1>3, PidLookup, JobAssumption
  <2>2. pc' = pc /\ jid2job' = [jid2job EXCEPT ![j] = AfterReport(jid2job[j], proc[p])]
    BY <1>0, <1>3 DEF handle_child_status
  <2>3. /\ jid2job'[j] = AfterReport(jid2job[j], proc[p])
        /\ \A k \in Jid \ {j} : jid2job'[k] = jid2job[k]
    BY <2>1, <2>2 DEF TableInv, TypeOK
  <2>4. \A k \in Jid \ {j} : Listed(k) => p \notin jid2job[k].pid
    BY <2>1 DEF OwnInv, PidsDisjoint
  <2>5. proc[p] \in {"stopped", "exited", "signaled"}
    BY DEF Waitable
  <2>6. /\ SameProcesses(j) /\ jid2job'[j] \in Job
        /\ jid2job'[j].status = StatusAfter(jid2job[j].status, proc[p])
        /\ jid2job'[j].num_processes_alive =
             CountAfter(jid2job[j].num_processes_alive, proc[p])
    BY <2>1, <2>3, <2>5, ReportFields DEF SameProcesses
  <2>7. \A k \in Jid \ {j} : SameProcesses(k)
    BY <2>3 DEF SameProcesses
  <2>8. \A k \in Jid : jid2job'[k] = NULL <=> jid2job[k] = NULL
    BY <2>1, <2>3, <2>6, JobAssumption
  <2>9. ASSUME NEW k \in Jid, Listed(k)
        PROVE  ReportEntered(k, p)
    <3>1. CASE k = j
      BY <2>1, <2>6, <3>1 DEF ReportEntered
    <3>2. CASE k # j
      BY <2>3, <2>4, <2>7, <2>9, <3>2 DEF ReportEntered
    <3> QED BY <3>1, <3>2
  <2> QED BY <1>1, <2>2, <2>8, <2>9
<1> QED BY <1>2, <1>3

(* The kernel's side of it.                                                *)
LEMMA ReapKernel ==
  ASSUME TypeOK, NEW p \in Pid, Waitable(p), waitpid(p)
  PROVE  /\ \A q \in Pid \ {p} : proc'[q] = proc[q] /\ pgrp'[q] = pgrp[q] /\ pend'[q] = pend[q]
         /\ Unreaped(p)
         /\ \/ proc[p] = "stopped" /\ proc'[p] = "reported" /\ pgrp'[p] = pgrp[p]
               /\ pend'[p] = pend[p]
            \/ proc[p] \in {"exited", "signaled"} /\ proc'[p] = "free" /\ pend'[p] = "none"
BY DEF TypeOK, Waitable, waitpid, Unreaped

(* The cleaning loop deletes a job without live processes, or nothing.     *)
LEMMA CleanEffect ==
  ASSUME TableInv, CleanStep
  PROVE  \/ UNCHANGED table
         \/ \E d \in Jid :
              /\ Listed(d) /\ jid2job[d] # NULL /\ jid2job[d].num_processes_alive = 0
              /\ jid2job'[d] = NULL
              /\ \A k : Listed(k)' <=> Listed(k) /\ k # d
              /\ \A k \in Jid \ {d} : jid2job'[k] = jid2job[k]
<1>1. it \in DOMAIN job_list
  BY DEF CleanStep
<1>2. CASE Deletable(jid2job[job_list[it]])
  <2>1. PICK d \in Jid : d = job_list[it]
    BY <1>1, LenProperties, ElementOfSeq DEF TableInv, TypeOK
  <2>2. job_list' = RemoveAt(job_list, it) /\ delete_job(d)
    BY <1>2, <2>1 DEF CleanStep
  <2>3. \A k : Listed(k)' <=> Listed(k) /\ k # d
    BY <1>1, <2>1, <2>2, JobRemoved DEF TableInv
  <2>4. jid2job'[d] = NULL /\ \A k \in Jid \ {d} : jid2job'[k] = jid2job[k]
    BY <2>2 DEF delete_job, TableInv, TypeOK
  <2>5. Listed(d) /\ jid2job[d] # NULL
    BY <1>1, <2>1 DEF Listed, TableInv, ListMatchesArray
  <2> QED BY <1>2, <2>1, <2>3, <2>4, <2>5 DEF Deletable
<1>3. CASE ~ Deletable(jid2job[job_list[it]])
  BY <1>3 DEF CleanStep
<1> QED BY <1>2, <1>3

(* add_job puts one new job into the table, or the shell ends.             *)
LEMMA StartEffect ==
  ASSUME TableInv, NEW n \in 1 .. MaxPipeline, NEW bg \in BOOLEAN,
         StartPipeline(n, bg)
  PROVE  \/ pc' = "crashed" /\ UNCHANGED <<table, cur>>
         \/ /\ cur' \in Jid /\ ~ Listed(cur') /\ jid2job[cur'] = NULL
            /\ jid2job'[cur'] = NewJob(bg) /\ NewJob(bg) \in Job
            /\ \A k : Listed(k)' <=> Listed(k) \/ k = cur'
            /\ \A k \in Jid \ {cur'} : jid2job'[k] = jid2job[k]
            /\ pc' \in {"fork", "failed"}
<1>1. CASE FreeJid = {}
  BY <1>1 DEF StartPipeline
<1>2. CASE FreeJid # {}
  <2>1. PICK j \in FreeJid : j = CHOOSE i \in FreeJid : \A k \in FreeJid : i <= k
    BY <1>2, FirstFreeJid
  <2>2. /\ job_list' = Append(job_list, j)
        /\ jid2job' = [jid2job EXCEPT ![j] = NewJob(bg)]
        /\ cur' = j /\ pc' \in {"fork", "failed"}
    BY <1>2, <2>1 DEF StartPipeline
  <2>3. NewJob(bg) \in Job
    BY DEF NewJob, Job, Status
  <2>4. \A k : Listed(k)' <=> Listed(k) \/ k = j
    BY <2>2, <2>3, JobAdded DEF TableInv
  <2>5. j \in Jid /\ jid2job[j] = NULL /\ ~ Listed(j)
    BY DEF FreeJid, TableInv, ListMatchesArray
  <2>6. jid2job'[j] = NewJob(bg) /\ \A k \in Jid \ {j} : jid2job'[k] = jid2job[k]
    BY <2>2, <2>5 DEF TableInv, TypeOK
  <2> QED BY <2>2, <2>3, <2>4, <2>5, <2>6
<1> QED BY <1>1, <1>2

(* The parent records the child it has forked.                             *)
LEMMA RecordEffect ==
  ASSUME TableInv, Record
  PROVE  /\ cur \in Jid /\ Listed(cur) /\ jid2job[cur] \in Job /\ cur' = cur
         /\ \A k : Listed(k)' <=> Listed(k)
         /\ \A k \in Jid \ {cur} : jid2job'[k] = jid2job[k]
         /\ jid2job'[cur] # NULL /\ jid2job'[cur].pgid = GroupOfJob
         /\ jid2job'[cur].status = jid2job[cur].status
         /\ jid2job'[cur].bg_job = jid2job[cur].bg_job
<1>1. /\ cur \in Jid /\ Listed(cur) /\ jid2job[cur] \in Job
      /\ \A k : Listed(k)' <=> Listed(k)
      /\ \A k \in Jid \ {cur} : jid2job'[k] = jid2job[k]
  BY RecordPids
<1>2. jid2job'[cur] = Recorded(jid2job[cur])
  BY <1>1 DEF Record, TableInv, TypeOK
<1>3. /\ Recorded(jid2job[cur]).pgid = GroupOfJob
      /\ Recorded(jid2job[cur]).status = jid2job[cur].status
      /\ Recorded(jid2job[cur]).bg_job = jid2job[cur].bg_job
  BY <1>1 DEF Recorded, Job
<1>4. jid2job'[cur] # NULL
  BY <1>1, TableInvRecord DEF TableInv, ListMatchesArray
<1> QED BY <1>1, <1>2, <1>3, <1>4 DEF Record

-----------------------------------------------------------------------------
(* The process group of a job.                                             *)

Launching == {"fork", "record", "launched"}

(* The first process of a job that is being launched leads its group, and  *)
(* cannot be reaped before the launch is over.                             *)
LeaderThere ==
  pc \in Launching =>
    /\ curr_cmd = 0 => jid2job[cur].pid = {}
    /\ curr_cmd > 0 => blocked /\ jid2job[cur].pgid \in Children(cur)

(* Whichever setpgid came first, the child is in the group of the shell or *)
(* of its job.                                                             *)
ChildGroup == pc = "record" => pgrp[child] \in {Shell, GroupOfJob}

GroupInv ==
  /\ GroupWhole /\ LeaderThere /\ ChildGroup
  /\ pc = "launched" => curr_cmd > 0

LEMMA GroupInit == Init => GroupInv
BY TableInvInit DEF Init, TableInv, GroupInv, GroupWhole, LeaderThere, ChildGroup,
   Launching, Listed

(* No step but Record gives a job a process.  A process that a step leaves *)
(* unreaped stays in its group.                                            *)
LEMMA WholeKept ==
  ASSUME TableInv, GroupWhole,
         \A j \in Jid : Listed(j)' => \/ Listed(j) /\ SameProcesses(j)
                                      \/ jid2job'[j].pid = {},
         \A p \in Pid : (\E j \in Jid : OwnedBy(j, p)) /\ Unreaped(p)' =>
                         Unreaped(p) /\ pgrp'[p] = pgrp[p]
  PROVE  GroupWhole'
<1> SUFFICES ASSUME NEW j \in Jid, Listed(j)', NEW p \in Children(j)'
             PROVE  pgrp'[p] = jid2job'[j].pgid
  BY DEF GroupWhole
<1>1. p \in jid2job'[j].pid /\ Unreaped(p)'
  BY DEF Children
<1>2. Listed(j) /\ SameProcesses(j) /\ p \in jid2job[j].pid
  BY <1>1 DEF SameProcesses
<1>3. p \in Pid
  BY <1>2, ListedChildren DEF Job
<1>4. Unreaped(p) /\ pgrp'[p] = pgrp[p]
  BY <1>1, <1>2, <1>3 DEF OwnedBy
<1> QED BY <1>2, <1>4 DEF GroupWhole, Children, SameProcesses

(* The launch goes on at the same point: only before the first fork may a  *)
(* process be reaped meanwhile.                                            *)
LaunchKept ==
  /\ pc' = pc /\ cur' = cur /\ curr_cmd' = curr_cmd /\ child' = child
  /\ blocked' = blocked
  /\ \/ pc = "fork" /\ curr_cmd = 0
     \/ \A p \in Pid : Unreaped(p) => Unreaped(p)'

LEMMA LeaderKept ==
  ASSUME TableInv, AliveInv, LeaderThere, ChildGroup, LaunchKept, pc \in Launching,
         SameProcesses(cur),
         \A p \in Pid : Unreaped(p)' => pgrp'[p] = pgrp[p]
  PROVE  LeaderThere' /\ ChildGroup'
<1>1. cur \in Jid /\ Listed(cur)
  BY DEF Launching, TableInv, CurOK, Held, CurrentJobListed, TypeOK
<1>2. jid2job[cur].pid \in SUBSET Pid
  BY <1>1, ListedChildren DEF Job
<1>3. LeaderThere'
  <2>1. CASE curr_cmd > 0
    <3>1. \A p \in Pid : Unreaped(p) => Unreaped(p)'
      BY <2>1 DEF LaunchKept
    <3>2. Children(cur) \subseteq Children(cur)'
      BY <1>2, <3>1 DEF Children, LaunchKept, SameProcesses
    <3> QED BY <2>1, <3>2 DEF LeaderThere, LaunchKept, SameProcesses
  <2>2. CASE ~ (curr_cmd > 0)
    BY <2>2 DEF LeaderThere, LaunchKept, SameProcesses
  <2> QED BY <2>1, <2>2
<1>4. ChildGroup'
  <2> SUFFICES ASSUME pc = "record"
               PROVE  pgrp'[child] \in {Shell, GroupOfJob'}
    BY DEF ChildGroup, LaunchKept
  <2>1. child \in Pid /\ Unreaped(child)
    BY DEF AliveInv, ChildUnreaped
  <2>2. pgrp'[child] = pgrp[child]
    BY <2>1 DEF LaunchKept
  <2>3. GroupOfJob' = GroupOfJob
    BY DEF GroupOfJob, LaunchKept, SameProcesses
  <2> QED BY <2>2, <2>3 DEF ChildGroup
<1> QED BY <1>3, <1>4

LEMMA GroupKept ==
  ASSUME TableInv, AliveInv, GroupInv,
         \A j \in Jid : Listed(j)' => \/ Listed(j) /\ SameProcesses(j)
                                      \/ jid2job'[j].pid = {},
         \A p \in Pid : Unreaped(p)' => Unreaped(p) /\ pgrp'[p] = pgrp[p],
         pc' \in Launching => LaunchKept /\ SameProcesses(cur)
  PROVE  GroupInv'
<1>1. GroupWhole'
  BY WholeKept DEF GroupInv
<1>2. CASE pc' \notin Launching
  BY <1>1, <1>2 DEF GroupInv, LeaderThere, ChildGroup, Launching
<1>3. CASE pc' \in Launching
  <2>1. LaunchKept /\ pc \in Launching
    BY <1>3 DEF LaunchKept
  <2>2. LeaderThere' /\ ChildGroup'
    BY <1>3, <2>1, LeaderKept DEF GroupInv
  <2> QED BY <1>1, <2>1, <2>2 DEF GroupInv, LaunchKept
<1> QED BY <1>2, <1>3

LEMMA GroupTableUnchanged ==
  ASSUME TableInv, AliveInv, GroupInv, UNCHANGED table, UNCHANGED <<proc, pgrp>>,
         pc' \in Launching => UNCHANGED <<pc, cur, curr_cmd, child, blocked>>
  PROVE  GroupInv'
<1>1. \A j : (Listed(j)' <=> Listed(j)) /\ SameProcesses(j)
  BY DEF table, Listed, SameProcesses
<1>2. \A p \in Pid : Unreaped(p)' <=> Unreaped(p)
  BY DEF Unreaped
<1> QED BY <1>1, <1>2, GroupKept DEF LaunchKept

LEMMA GroupStatus ==
  ASSUME TableInv, AliveInv, GroupInv, NEW j \in Jid, jid2job[j] # NULL,
         NEW st \in Status,
         jid2job' = [jid2job EXCEPT ![j].status = st], job_list' = job_list,
         UNCHANGED <<proc, pgrp>>, pc' \notin Launching
  PROVE  GroupInv'
<1>1. \A k \in Jid : Listed(k)' => Listed(k) /\ SameProcesses(k)
  BY StatusEffect DEF SameProcesses
<1>2. \A p \in Pid : Unreaped(p)' => Unreaped(p)
  BY DEF Unreaped
<1> QED BY <1>1, <1>2, GroupKept

(* At the handler's only chance during a launch the job has no process yet.*)
LEMMA GroupReap ==
  ASSUME TableInv, OwnInv, AliveInv, GroupInv, NEW p \in Pid, Waitable(p),
         handle_child_status(p), waitpid(p),
         UNCHANGED <<job_list, cur, launch, signals>>,
         pc \in Launching => pc = "fork" /\ curr_cmd = 0
  PROVE  GroupInv'
<1>1. \A j \in Jid : Listed(j)' => Listed(j) /\ SameProcesses(j)
  BY ReapEffect DEF ReportEntered
<1>2. \A q \in Pid : Unreaped(q)' => Unreaped(q) /\ pgrp'[q] = pgrp[q]
  BY ReapKernel DEF TableInv, Unreaped
<1>3. ASSUME pc' \in Launching
      PROVE  LaunchKept /\ SameProcesses(cur)
  <2>1. pc' = pc /\ pc = "fork" /\ curr_cmd = 0
    BY <1>3, ReapEffect DEF Launching
  <2>2. cur \in Jid /\ Listed(cur)
    BY <2>1 DEF TableInv, CurOK, Held, CurrentJobListed, TypeOK
  <2> QED BY <2>1, <2>2, ReapEffect DEF LaunchKept, launch, signals, ReportEntered
<1> QED BY <1>1, <1>2, <1>3, GroupKept

LEMMA GroupCleanStep ==
  ASSUME TableInv, AliveInv, GroupInv, CleanStep
  PROVE  GroupInv'
<1>1. pc' = "clean" /\ UNCHANGED <<proc, pgrp>>
  BY DEF CleanStep, At, kernel
<1>2. \A j \in Jid : Listed(j)' => Listed(j) /\ SameProcesses(j)
  BY CleanEffect DEF table, Listed, SameProcesses
<1>3. \A p \in Pid : Unreaped(p)' => Unreaped(p)
  BY <1>1 DEF Unreaped
<1> QED BY <1>1, <1>2, <1>3, GroupKept DEF Launching

LEMMA GroupStartPipeline ==
  ASSUME TableInv, AliveInv, GroupInv, NEW n \in 1 .. MaxPipeline,
         NEW bg \in BOOLEAN, StartPipeline(n, bg)
  PROVE  GroupInv'
<1>1. UNCHANGED <<proc, pgrp>> /\ curr_cmd' = 0
  BY DEF StartPipeline, At, kernel, TableInv, CountOK, Ended
<1>2. CASE pc' = "crashed" /\ UNCHANGED <<table, cur>>
  BY <1>1, <1>2, GroupTableUnchanged DEF Launching
<1>3. CASE /\ cur' \in Jid /\ jid2job'[cur'] = NewJob(bg)
           /\ \A k : Listed(k)' <=> Listed(k) \/ k = cur'
           /\ \A k \in Jid \ {cur'} : jid2job'[k] = jid2job[k]
           /\ pc' \in {"fork", "failed"}
  <2>1. jid2job'[cur'].pid = {}
    BY <1>3 DEF NewJob
  <2>2. \A k \in Jid : Listed(k)' => \/ Listed(k) /\ SameProcesses(k)
                                     \/ jid2job'[k].pid = {}
    BY <1>3, <2>1 DEF SameProcesses
  <2>3. \A p \in Pid : Unreaped(p)' => Unreaped(p)
    BY <1>1 DEF Unreaped
  <2>4. GroupWhole'
    BY <1>1, <2>2, <2>3, WholeKept DEF GroupInv
  <2> QED BY <1>1, <1>3, <2>1, <2>4 DEF GroupInv, LeaderThere, ChildGroup
<1> QED BY <1>2, <1>3, StartEffect

LEMMA GroupFork ==
  ASSUME TableInv, AliveInv, GroupInv, NEW p \in Pid, Fork(p)
  PROVE  GroupInv'
<1>1. /\ child' = p /\ pc = "fork" /\ pc' = "record" /\ UNCHANGED <<table, cur, curr_cmd>>
      /\ blocked' = TRUE
      /\ proc' = [proc EXCEPT ![p] = "forked"] /\ pgrp' = [pgrp EXCEPT ![p] = Shell]
  BY DEF Fork, At, signal_block
<1>2. \A j \in Jid : ~ OwnedBy(j, p)
  BY FreshUnowned DEF Fork
<1>3. \A j \in Jid : (Listed(j)' <=> Listed(j)) /\ SameProcesses(j)
  BY <1>1 DEF table, Listed, SameProcesses
<1>4. \A q \in Pid \ {p} : (Unreaped(q)' <=> Unreaped(q)) /\ pgrp'[q] = pgrp[q]
  BY <1>1 DEF Unreaped, TableInv, TypeOK
<1>5. GroupWhole'
  BY <1>2, <1>3, <1>4, WholeKept DEF GroupInv
<1>6. cur \in Jid /\ Listed(cur)
  BY <1>1 DEF TableInv, CurOK, Held, CurrentJobListed, TypeOK
<1>7. LeaderThere'
  <2>1. CASE curr_cmd > 0
    <3>1. jid2job[cur].pgid \in Children(cur)
      BY <1>1, <2>1 DEF GroupInv, LeaderThere, Launching
    <3>2. /\ jid2job[cur].pgid \in jid2job[cur].pid /\ jid2job[cur].pgid \in Pid
          /\ Unreaped(jid2job[cur].pgid)
      BY <1>6, <3>1, ListedChildren DEF Children
    <3>3. jid2job[cur].pgid # p
      BY <1>2, <1>6, <3>2 DEF OwnedBy
    <3> QED BY <1>1, <1>3, <1>4, <1>6, <2>1, <3>2, <3>3 DEF LeaderThere, Children, SameProcesses
  <2>2. CASE ~ (curr_cmd > 0)
    BY <1>1, <1>3, <1>6, <2>2 DEF GroupInv, LeaderThere, Launching, SameProcesses
  <2> QED BY <2>1, <2>2
<1>8. ChildGroup'
  BY <1>1 DEF ChildGroup, TableInv, TypeOK
<1> QED BY <1>1, <1>5, <1>7, <1>8 DEF GroupInv

(* The parent has put the child into the group of the job before it        *)
(* records it.                                                             *)
LEMMA GroupRecord ==
  ASSUME TableInv, OwnInv, SigchldMask, AliveInv, GroupInv, Record
  PROVE  GroupInv'
<1>1. /\ pc = "record" /\ proc' = proc /\ pgrp' = ParentJoins /\ blocked' = blocked
      /\ curr_cmd' = curr_cmd + 1 /\ pc' \in {"fork", "launched"} /\ curr_cmd \in Nat
      /\ blocked
  BY DEF Record, At, signals, TableInv, TypeOK, SigchldMask
<1>2. child \in Pid /\ Unreaped(child) /\ child # NULL
  BY <1>1, NULLAssumption DEF AliveInv, ChildUnreaped
<1>3. \A j \in Jid : ~ OwnedBy(j, child)
  BY <1>1, <1>2 DEF OwnInv, ChildUnowned
<1>4. /\ cur \in Jid /\ Listed(cur) /\ cur' = cur
      /\ \A k : Listed(k)' <=> Listed(k)
      /\ \A k \in Jid \ {cur} : jid2job'[k] = jid2job[k]
      /\ jid2job'[cur].pid = jid2job[cur].pid \cup {child}
      /\ jid2job'[cur].pgid = GroupOfJob
  BY <1>2, RecordEffect, RecordPids
<1>5. /\ \A q \in Pid \ {child} : pgrp'[q] = pgrp[q]
      /\ pgrp'[child] = GroupOfJob
      /\ GroupOfJob = IF curr_cmd = 0 THEN child ELSE jid2job[cur].pgid
  <2>1. curr_cmd = 0 \/ jid2job[cur].pgid \in Children(cur)
    BY <1>1 DEF GroupInv, LeaderThere, Launching
  <2>2. GroupOfJob \in Pid
    BY <1>2, <1>4, <2>1, ListedChildren DEF GroupOfJob
  <2>3. pgrp[child] \in {Shell, GroupOfJob}
    BY <1>1 DEF GroupInv, ChildGroup
  <2> QED BY <1>1, <1>2, <2>2, <2>3, NULLAssumption
          DEF ParentJoins, Joined, GroupOfJob, TableInv, TypeOK
<1>6. GroupWhole'
  <2> SUFFICES ASSUME NEW j \in Jid, Listed(j)', NEW p \in Children(j)'
               PROVE  pgrp'[p] = jid2job'[j].pgid
    BY DEF GroupWhole
  <2>1. Listed(j) /\ p \in jid2job'[j].pid /\ Unreaped(p)
    BY <1>1, <1>4 DEF Children, Unreaped
  <2>2. CASE j # cur
    <3>1. p \in Children(j) /\ p \in Pid /\ p # child
      BY <1>3, <1>4, <2>1, <2>2, ListedChildren DEF Children, OwnedBy
    <3> QED BY <1>4, <1>5, <2>1, <2>2, <3>1 DEF GroupInv, GroupWhole
  <2>3. CASE j = cur /\ p = child
    BY <1>4, <1>5, <2>3
  <2>4. CASE j = cur /\ p # child
    <3>1. p \in jid2job[cur].pid /\ p \in Children(cur) /\ p \in Pid
      BY <1>4, <2>1, <2>4, ListedChildren DEF Children
    <3>2. curr_cmd # 0
      BY <1>1, <3>1 DEF GroupInv, LeaderThere, Launching
    <3> QED BY <1>4, <1>5, <2>1, <2>4, <3>1, <3>2 DEF GroupInv, GroupWhole
  <2> QED BY <2>2, <2>3, <2>4
<1>7. jid2job'[cur].pgid \in Children(cur)'
  <2>1. CASE curr_cmd = 0
    BY <1>1, <1>2, <1>4, <1>5, <2>1 DEF Children, Unreaped
  <2>2. CASE curr_cmd # 0
    <3>1. jid2job[cur].pgid \in Children(cur)
      BY <1>1, <2>2 DEF GroupInv, LeaderThere, Launching
    <3> QED BY <1>1, <1>4, <1>5, <2>2, <3>1 DEF Children, Unreaped
  <2> QED BY <2>1, <2>2
<1>8. curr_cmd' > 0 /\ curr_cmd' # 0 /\ blocked' /\ pc' # "record"
  BY <1>1
<1> QED BY <1>4, <1>6, <1>7, <1>8 DEF GroupInv, LeaderThere, ChildGroup

(* The child's own setpgid, which comes before its parent has recorded it  *)
(* or changes nothing any more.                                            *)
LEMMA GroupChild ==
  ASSUME TableInv, OwnInv, AliveInv, GroupInv, NEW p \in Pid, handle_child_process(p)
  PROVE  GroupInv'
<1>1. UNCHANGED <<table, control, signals>> /\ Up
      /\ pgrp' = IF p = child THEN Joined(p, GroupOfJob) ELSE pgrp
  BY DEF handle_child_process
<1>2. \A q \in Pid : Unreaped(q)' <=> Unreaped(q)
  BY DEF handle_child_process, Unreaped, TableInv, TypeOK
<1>3. \A j : (Listed(j)' <=> Listed(j)) /\ SameProcesses(j)
  BY <1>1 DEF table, Listed, SameProcesses
<1>4. LaunchKept
  BY <1>1, <1>2 DEF LaunchKept, control, launch, signals
<1>5. CASE p # child
  BY <1>1, <1>2, <1>3, <1>4, <1>5, GroupKept
<1>6. CASE p = child
  <2>1. child # NULL /\ pc = "record"
    BY <1>1, <1>6, NULLAssumption DEF TableInv, CountOK, Up
  <2>2. \A j \in Jid : ~ OwnedBy(j, p)
    BY <1>6, <2>1 DEF OwnInv, ChildUnowned
  <2>3. \A q \in Pid \ {p} : pgrp'[q] = pgrp[q]
    BY <1>1 DEF Joined, TableInv, TypeOK
  <2>4. GroupWhole'
    BY <1>2, <1>3, <2>2, <2>3, WholeKept DEF GroupInv
  <2>5. pgrp'[child] \in {Shell, GroupOfJob}
    BY <1>1, <1>6, <2>1 DEF Joined, TableInv, TypeOK, GroupInv, ChildGroup
  <2>6. ChildGroup'
    BY <1>1, <1>3, <2>5 DEF ChildGroup, GroupOfJob, control, launch, SameProcesses
  <2>7. cur \in Jid /\ Listed(cur)
    BY <2>1 DEF TableInv, CurOK, Held, CurrentJobListed, TypeOK
  <2>8. Children(cur)' = Children(cur)
    <3>1. jid2job[cur].pid \in SUBSET Pid
      BY <2>7, ListedChildren DEF Job
    <3> QED BY <1>1, <1>2, <1>3, <3>1 DEF Children, SameProcesses, control
  <2>9. LeaderThere'
    BY <1>1, <1>3, <2>8 DEF GroupInv, LeaderThere, SameProcesses, control, launch, signals
  <2> QED BY <1>1, <2>1, <2>4, <2>6, <2>9 DEF GroupInv, control
<1> QED BY <1>5, <1>6

LEMMA GroupProcess ==
  ASSUME TableInv, OwnInv, AliveInv, GroupInv, NEW p \in Pid, ProcessStep(p)
  PROVE  GroupInv'
<1>1. CASE handle_child_process(p)
  BY <1>1, GroupChild
<1>2. CASE ProcessExits(p) \/ TakesSignal(p) \/ OutsideSignal(p)
  <2>1. UNCHANGED <<table, control, blocked, pgrp>>
    BY <1>2 DEF ProcessExits, TakesSignal, OutsideSignal
  <2>2. PICK state \in {"running", "exited", "signaled", "stopped"} :
          Unreaped(p) /\ proc' = [proc EXCEPT ![p] = state]
    BY <1>2 DEF ProcessExits, TakesSignal, OutsideSignal, ChangesTo, Unreaped,
                Live, Stopped
  <2>3. \A q \in Pid : Unreaped(q)' <=> Unreaped(q)
    BY <2>2, ChangeReapsNone DEF TableInv
  <2>4. \A j : (Listed(j)' <=> Listed(j)) /\ SameProcesses(j)
    BY <2>1 DEF table, Listed, SameProcesses
  <2> QED BY <2>1, <2>3, <2>4, GroupKept DEF LaunchKept, control, launch
<1> QED BY <1>1, <1>2 DEF ProcessStep

LEMMA GroupMain ==
  ASSUME "exhaust" \notin Outside, TableInv, OwnInv, SigchldMask, AliveInv,
         GroupInv, MainStep
  PROVE  GroupInv'
<1>0. pc \in Held => cur \in Jid /\ jid2job[cur] # NULL
  BY DEF TableInv, CurOK, CurrentJobListed, TypeOK
<1>1. CASE CleanStep
  BY <1>1, GroupCleanStep
<1>2. CASE CleanDone \/ LaunchForeground \/ WaitFails \/ WaitDone \/ Back \/ FgGive
  BY <1>2, GroupTableUnchanged
  DEF CleanDone, LaunchForeground, WaitFails, WaitDone, Back, FgGive, At, TableInv,
      TypeOK, termstate_give_terminal_to, kernel, Launching
<1>3. CASE Record
  BY <1>3, GroupRecord
<1>4. CASE LaunchBackground \/ BgSet
  BY <1>0, <1>4, GroupStatus DEF LaunchBackground, BgSet, At, Held, Status, kernel, Launching
<1>5. ASSUME NEW p \in Pid, Fork(p)
      PROVE  GroupInv'
  BY <1>5, GroupFork
<1>6. ASSUME NEW p \in Pid, WaitReap(p)
      PROVE  GroupInv'
  BY <1>6, GroupReap DEF WaitReap, At, Launching
<1>7. CASE FgCont
  <2>1. \A p \in Pid : Unreaped(p)' <=> Unreaped(p)
    BY <1>7, ContReapsNone DEF FgCont, TableInv, Unreaped
  <2>2. \A j : (Listed(j)' <=> Listed(j)) /\ SameProcesses(j)
    BY <1>7 DEF FgCont, table, Listed, SameProcesses
  <2> QED BY <1>7, <2>1, <2>2, GroupKept DEF FgCont, Launching
<1>8. ~ ForkFails
  BY DEF ForkFails
<1> QED BY <1>1, <1>2, <1>3, <1>4, <1>5, <1>6, <1>7, <1>8 DEF MainStep

LEMMA GroupUser ==
  ASSUME TableInv, AliveInv, GroupInv, UserStep
  PROVE  GroupInv'
<1>1. CASE ReadLine \/ EndOfLine \/ Inform \/ Exit
  BY <1>1, GroupTableUnchanged DEF ReadLine, EndOfLine, Inform, Exit, kernel, Launching
<1>2. ASSUME NEW n \in 1 .. MaxPipeline, NEW bg \in BOOLEAN, StartPipeline(n, bg)
      PROVE  GroupInv'
  BY <1>2, GroupStartPipeline
<1>3. ASSUME NEW j \in Jid \cup {0}, Bg(j)
      PROVE  GroupInv'
  <2>1. \A p \in Pid : Unreaped(p)' <=> Unreaped(p)
    BY <1>3, ContReapsNone DEF Bg, TableInv, Unreaped
  <2>2. \A k : (Listed(k)' <=> Listed(k)) /\ SameProcesses(k)
    BY <1>3 DEF Bg, table, Listed, SameProcesses
  <2> QED BY <1>3, <2>1, <2>2, GroupKept DEF Bg, Launching
<1>4. ASSUME NEW j \in Jid \cup {0}, Kill(j) \/ Stop(j)
      PROVE  GroupInv'
  BY <1>4, GroupTableUnchanged DEF Kill, Stop, Launching
<1>5. ASSUME NEW j \in Jid \cup {0}, Fg(j)
      PROVE  GroupInv'
  <2>1. CASE get_job_from_jid(j) = 0
    BY <1>5, <2>1, GroupTableUnchanged DEF Fg, table, kernel, Launching
  <2>2. CASE get_job_from_jid(j) # 0
    <3>1. j \in Jid /\ jid2job[j] # NULL
      BY <2>2 DEF get_job_from_jid
    <3> QED BY <1>5, <2>2, <3>1, GroupStatus DEF Fg, Status, kernel, Launching
  <2> QED BY <2>1, <2>2
<1> QED BY <1>1, <1>2, <1>3, <1>4, <1>5 DEF UserStep

(* With SIGCHLD not blocked the handler runs during a launch only before   *)
(* the first fork.                                                         *)
LEMMA GroupHandler ==
  ASSUME TableInv, OwnInv, SigchldMask, AliveInv, GroupInv, sigchld_handler
  PROVE  GroupInv'
<1>1. CASE HandlerEnter \/ HandlerReturn
  BY <1>1, GroupTableUnchanged
  DEF HandlerEnter, HandlerReturn, control, launch, kernel
<1>2. ASSUME NEW p \in Pid, HandlerReap(p)
      PROVE  GroupInv'
  <2>1. pc \in Launching => pc = "fork" /\ curr_cmd = 0
    <3>1. ~ blocked /\ curr_cmd \in Nat
      BY <1>2 DEF HandlerReap, SigchldMask, TableInv, TypeOK
    <3> QED BY <3>1 DEF SigchldMask, Launching, GroupInv, LeaderThere
  <2> QED BY <1>2, <2>1, GroupReap DEF HandlerReap
<1> QED BY <1>1, <1>2 DEF sigchld_handler

LEMMA GroupNext ==
  ASSUME "exhaust" \notin Outside, TableInv, OwnInv, SigchldMask, AliveInv,
         GroupInv, [Next]_vars
  PROVE  GroupInv'
<1>1. CASE UNCHANGED vars
  BY <1>1, GroupTableUnchanged DEF vars, control, launch, signals, kernel
<1>2. CASE Terminated
  BY <1>1, <1>2 DEF Terminated
<1> QED BY <1>1, <1>2, GroupMain, GroupUser, GroupHandler, GroupProcess DEF Next

(* The layers below, for as long as fork and pipe2 succeed.                *)
BaseInv == TableInv /\ OwnInv /\ MaskInv /\ AliveInv /\ GroupInv

LEMMA BaseInit == Init => BaseInv
BY TableInvInit, OwnInit, MaskInit, AliveInit, GroupInit DEF BaseInv

LEMMA BaseNext ==
  ASSUME "exhaust" \notin Outside, BaseInv, [Next]_vars
  PROVE  BaseInv'
<1>1. TableInv' /\ OwnInv' /\ MaskInv'
  BY TableInvNext, OwnNext, MaskNext DEF BaseInv
<1>2. AliveInv' /\ GroupInv'
  BY AliveNext, GroupNext DEF BaseInv, MaskInv
<1> QED BY <1>1, <1>2 DEF BaseInv

LEMMA BaseInvariant ==
  ASSUME "exhaust" \notin Outside
  PROVE  Spec => []BaseInv
<1>1. BaseInv /\ [Next]_vars => BaseInv'
  BY BaseNext
<1> QED BY <1>1, BaseInit, PTL DEF Spec

(* killpg reaches every process of a job, whichever of parent and child    *)
(* called setpgid first.                                                   *)
THEOREM WholeGroups ==
  ASSUME "exhaust" \notin Outside
  PROVE  Spec => []GroupWhole
<1>1. BaseInv => GroupWhole
  BY DEF BaseInv, GroupInv
<1> QED BY <1>1, BaseInvariant, PTL

(* The terminal is never given to a group that is gone when a foreground   *)
(* job was just launched.                                                  *)
THEOREM GroupForTerminal ==
  ASSUME "exhaust" \notin Outside
  PROVE  Spec => []LaunchedGroupExists
<1>1. BaseInv => LaunchedGroupExists
  <2> SUFFICES ASSUME BaseInv, pc = "launched"
               PROVE  GroupExists(jid2job[cur].pgid)
    BY DEF LaunchedGroupExists
  <2>1. cur \in Jid /\ Listed(cur)
    BY DEF BaseInv, TableInv, CurOK, Held, CurrentJobListed, TypeOK
  <2>2. jid2job[cur].pgid \in Children(cur)
    BY DEF BaseInv, GroupInv, LeaderThere, Launching
  <2>3. jid2job[cur].pgid \in Pid /\ Unreaped(jid2job[cur].pgid)
    BY <2>1, <2>2, ListedChildren DEF BaseInv, Children
  <2>4. pgrp[jid2job[cur].pgid] = jid2job[cur].pgid
    BY <2>1, <2>2 DEF BaseInv, GroupInv, GroupWhole
  <2> QED BY <2>3, <2>4, NULLAssumption DEF GroupExists, Group
<1> QED BY <1>1, BaseInvariant, PTL

-----------------------------------------------------------------------------
(* Stops.                                                                  *)

(* What is left of a report of a stop: bg takes the status away again, and *)
(* otherwise it stays until fg.                                            *)
Marked(job) ==
  IF "bg" \in Typed THEN job.status # "FOREGROUND" ELSE job.status = "STOPPED"

(* Between its assignment of FOREGROUND and SIGCONT fg is on its own.      *)
Excused(j) == pc = "fgcont" /\ j = cur

StopsMarked ==
  Up => \A j \in Jid : Listed(j) /\ ~ Excused(j) =>
    \A p \in Children(j) : proc[p] = "reported" => Marked(jid2job[j])

NoneReported ==
  pc \in Launching =>
    /\ \A p \in Children(cur) : proc[p] # "reported"
    /\ pc = "record" => proc[child] # "reported"

StopInv ==
  /\ StopsMarked /\ NoneReported
  /\ pc = "bgset" => "bg" \in Typed

LEMMA StopInit == Init => StopInv
BY TableInvInit DEF Init, TableInv, StopInv, StopsMarked, NoneReported, Launching, Listed

(* For every process that a step leaves reported.                          *)
LEMMA MarksKept ==
  ASSUME TableInv, StopsMarked,
         \A j \in Jid : Up' /\ Listed(j)' /\ ~ Excused(j)' =>
           \A p \in Children(j)' : proc'[p] = "reported" =>
             \/ Marked(jid2job'[j])
             \/ /\ Up /\ Listed(j) /\ ~ Excused(j) /\ p \in Children(j)
                /\ proc[p] = "reported"
                /\ Marked(jid2job[j]) => Marked(jid2job'[j])
  PROVE  StopsMarked'
BY DEF StopsMarked

(* A step outside a launch that resumes or reaps processes, if it does     *)
(* anything to them, and gives no job a status.                            *)
LEMMA StopKept ==
  ASSUME TableInv, AliveInv, StopInv,
         \A j \in Jid : Listed(j)' =>
           \/ Listed(j) /\ SameProcesses(j) /\ jid2job'[j].status = jid2job[j].status
           \/ jid2job'[j].pid = {},
         \A p \in Pid : proc'[p] = "reported" => proc[p] = "reported",
         Up' => Up /\ (\A j \in Jid : Excused(j) => Excused(j)'),
         pc' \in Launching =>
           UNCHANGED <<pc, cur, child>> /\ SameProcesses(cur)
           /\ \A p \in Pid : Unreaped(p)' => Unreaped(p),
         pc' = "bgset" => pc = "bgset"
  PROVE  StopInv'
<1>1. StopsMarked'
  <2> SUFFICES ASSUME NEW j \in Jid, Up', Listed(j)', ~ Excused(j)',
                      NEW p \in Children(j)', proc'[p] = "reported"
               PROVE  /\ Up /\ Listed(j) /\ ~ Excused(j) /\ p \in Children(j)
                      /\ proc[p] = "reported"
                      /\ Marked(jid2job[j]) => Marked(jid2job'[j])
    BY MarksKept DEF StopInv
  <2>1. p \in jid2job'[j].pid
    BY DEF Children
  <2>2. /\ Listed(j) /\ p \in jid2job[j].pid
        /\ jid2job'[j].status = jid2job[j].status
    BY <2>1 DEF SameProcesses
  <2>3. p \in Pid
    BY <2>2, ListedChildren DEF Job
  <2> QED BY <2>2, <2>3 DEF Children, Unreaped, Marked
<1>2. NoneReported'
  <2> SUFFICES ASSUME pc' \in Launching
               PROVE  /\ \A p \in Children(cur)' : proc'[p] # "reported"
                      /\ pc' = "record" => proc'[child'] # "reported"
    BY DEF NoneReported
  <2>1. cur \in Jid /\ Listed(cur) /\ pc \in Launching
    BY DEF Launching, TableInv, CurOK, Held, CurrentJobListed, TypeOK
  <2>2. jid2job[cur].pid \in SUBSET Pid
    BY <2>1, ListedChildren DEF Job
  <2>3. Children(cur)' \subseteq Children(cur)
    BY <2>2 DEF Children, SameProcesses
  <2>4. pc = "record" => child \in Pid
    BY DEF AliveInv, ChildUnreaped
  <2> QED BY <2>1, <2>2, <2>3, <2>4 DEF StopInv, NoneReported, Children
<1> QED BY <1>1, <1>2 DEF StopInv

LEMMA StopTableUnchanged ==
  ASSUME TableInv, AliveInv, StopInv, UNCHANGED table, proc' = proc, Up, pc # "fgcont",
         pc' \in Launching => UNCHANGED <<pc, cur, child>>,
         pc' = "bgset" => pc = "bgset"
  PROVE  StopInv'
<1>1. \A j : /\ Listed(j)' <=> Listed(j)
             /\ SameProcesses(j) /\ jid2job'[j].status = jid2job[j].status
  BY DEF table, Listed, SameProcesses
<1>2. \A p \in Pid : Unreaped(p)' => Unreaped(p)
  BY DEF Unreaped
<1> QED BY <1>1, <1>2, StopKept DEF Excused

LEMMA StopReap ==
  ASSUME TableInv, OwnInv, AliveInv, LeaderThere, StopInv, Up,
         NEW p \in Pid, Waitable(p), handle_child_status(p), waitpid(p),
         UNCHANGED <<job_list, cur, launch, signals>>,
         pc \in Launching => pc = "fork" /\ curr_cmd = 0
  PROVE  StopInv'
<1>1. /\ \A k : Listed(k)' <=> Listed(k)
      /\ \A k \in Jid : Listed(k) => ReportEntered(k, p)
      /\ pc' = pc \/ pc' = "crashed"
  BY ReapEffect
<1>2. StopsMarked'
  <2> SUFFICES ASSUME NEW j \in Jid, Up', Listed(j)', ~ Excused(j)',
                      NEW q \in Children(j)', proc'[q] = "reported"
               PROVE  \/ Marked(jid2job'[j])
                      \/ /\ Up /\ Listed(j) /\ ~ Excused(j) /\ q \in Children(j)
                         /\ proc[q] = "reported"
                         /\ Marked(jid2job[j]) => Marked(jid2job'[j])
    BY MarksKept DEF StopInv
  <2>1. Listed(j) /\ ReportEntered(j, p) /\ ~ Excused(j)
    BY <1>1 DEF Up, Ended, Excused
  <2>2. q \in jid2job[j].pid /\ q \in Pid
    BY <2>1, ListedChildren DEF Children, Job, ReportEntered, SameProcesses
  <2>3. CASE q = p
    <3>1. proc[p] = "stopped"
      BY <2>3, ReapKernel DEF TableInv
    <3>2. jid2job'[j].status = "STOPPED"
      BY <2>1, <2>2, <2>3, <3>1 DEF ReportEntered, StatusAfter
    <3> QED BY <3>2 DEF Marked
  <2>4. CASE q # p
    <3>1. proc[q] = "reported" /\ q \in Children(j)
      BY <2>2, <2>4, ReapKernel DEF TableInv, Children, Unreaped
    <3>2. \/ jid2job'[j].status = "STOPPED"
          \/ jid2job'[j].status = jid2job[j].status
      BY <2>1 DEF ReportEntered, StatusAfter
    <3> QED BY <2>1, <3>1, <3>2 DEF Marked
  <2> QED BY <2>3, <2>4
<1>3. NoneReported'
  <2> SUFFICES ASSUME pc' \in Launching
               PROVE  (\A q \in Children(cur)' : proc'[q] # "reported") /\ pc' # "record"
    BY DEF NoneReported
  <2>1. pc' = pc /\ pc = "fork" /\ curr_cmd = 0
    BY <1>1 DEF Launching
  <2>2. cur \in Jid /\ Listed(cur) /\ jid2job[cur].pid = {}
    BY <2>1 DEF Launching, LeaderThere, TableInv, CurOK, Held, CurrentJobListed, TypeOK
  <2>3. Children(cur)' = {}
    BY <1>1, <2>2 DEF Children, ReportEntered, SameProcesses
  <2> QED BY <2>1, <2>3
<1> QED BY <1>1, <1>2, <1>3 DEF StopInv

LEMMA StopCleanStep ==
  ASSUME TableInv, AliveInv, StopInv, CleanStep
  PROVE  StopInv'
<1>1. pc = "clean" /\ pc' = "clean" /\ proc' = proc
  BY DEF CleanStep, At, kernel
<1>2. \A j \in Jid : Listed(j)' => /\ Listed(j) /\ SameProcesses(j)
                                   /\ jid2job'[j].status = jid2job[j].status
  BY CleanEffect DEF table, Listed, SameProcesses
<1> QED BY <1>1, <1>2, StopKept DEF Launching, Excused, Up, Ended

LEMMA StopStartPipeline ==
  ASSUME TableInv, AliveInv, StopInv, NEW n \in 1 .. MaxPipeline,
         NEW bg \in BOOLEAN, StartPipeline(n, bg)
  PROVE  StopInv'
<1>1. proc' = proc /\ pc = "execute"
  BY DEF StartPipeline, At, kernel
<1>2. CASE pc' = "crashed" /\ UNCHANGED <<table, cur>>
  BY <1>1, <1>2, StopTableUnchanged DEF Launching, Up, Ended
<1>3. ASSUME NEW j \in Jid, cur' = j, jid2job'[j] = NewJob(bg),
             \A k : Listed(k)' <=> Listed(k) \/ k = j,
             \A k \in Jid \ {j} : jid2job'[k] = jid2job[k],
             pc' \in {"fork", "failed"}
      PROVE  StopInv'
  <2>1. Children(j)' = {}
    BY <1>3 DEF NewJob, Children
  <2>2. \A k \in Jid \ {j} : Children(k)' = Children(k)
    BY <1>1, <1>3 DEF Children, Unreaped
  <2>3. StopsMarked'
    <3>1. ASSUME NEW k \in Jid, Listed(k)', NEW p \in Children(k)'
          PROVE  /\ Up /\ Listed(k) /\ ~ Excused(k) /\ p \in Children(k)
                 /\ jid2job'[k] = jid2job[k]
      BY <1>1, <1>3, <2>1, <2>2, <3>1 DEF Up, Ended, Excused
    <3> QED BY <1>1, <3>1, MarksKept DEF StopInv
  <2>4. NoneReported'
    <3>1. Children(cur)' = {}
      BY <1>3, <2>1 DEF Children
    <3> QED BY <1>3, <3>1 DEF NoneReported
  <2> QED BY <1>3, <2>3, <2>4 DEF StopInv
<1> QED BY <1>2, <1>3, StartEffect

LEMMA StopFork ==
  ASSUME TableInv, AliveInv, StopInv, NEW p \in Pid, Fork(p)
  PROVE  StopInv'
<1>1. /\ child' = p /\ pc = "fork" /\ pc' = "record" /\ UNCHANGED <<table, cur>>
      /\ proc' = [proc EXCEPT ![p] = "forked"]
  BY DEF Fork, At
<1>2. \A j \in Jid : ~ OwnedBy(j, p)
  BY FreshUnowned DEF Fork
<1>3. /\ proc'[p] = "forked"
      /\ \A q \in Pid \ {p} : proc'[q] = proc[q]
  BY <1>1 DEF TableInv, TypeOK
<1>4. ASSUME NEW j \in Jid, Listed(j)
      PROVE  Children(j)' = Children(j) /\ p \notin Children(j) /\ Children(j) \in SUBSET Pid
  <2>1. jid2job[j].pid \in SUBSET Pid /\ p \notin jid2job[j].pid
    BY <1>2, <1>4, ListedChildren DEF Job, OwnedBy
  <2>2. jid2job'[j] = jid2job[j]
    BY <1>1 DEF table
  <2> QED BY <1>3, <2>1, <2>2 DEF Children, Unreaped
<1>5. StopsMarked'
  <2>1. ASSUME NEW j \in Jid, Listed(j)', NEW q \in Children(j)', proc'[q] = "reported"
        PROVE  /\ Up /\ Listed(j) /\ ~ Excused(j) /\ q \in Children(j)
               /\ proc[q] = "reported" /\ jid2job'[j] = jid2job[j]
    <3>1. Listed(j) /\ jid2job'[j] = jid2job[j]
      BY <1>1, <2>1 DEF table, Listed
    <3> QED BY <1>1, <1>3, <1>4, <2>1, <3>1 DEF Up, Ended, Excused
  <2> QED BY <2>1, MarksKept DEF StopInv
<1>6. NoneReported'
  <2>1. cur \in Jid /\ Listed(cur)
    BY <1>1 DEF TableInv, CurOK, Held, CurrentJobListed, TypeOK
  <2> QED BY <1>1, <1>3, <1>4, <2>1 DEF StopInv, NoneReported, Launching
<1> QED BY <1>1, <1>5, <1>6 DEF StopInv

LEMMA StopRecord ==
  ASSUME TableInv, OwnInv, AliveInv, StopInv, Record
  PROVE  StopInv'
<1>1. /\ pc = "record" /\ proc' = proc /\ pc' \in {"fork", "launched"}
      /\ child \in Pid /\ child # NULL
  BY NULLAssumption DEF Record, At, AliveInv, ChildUnreaped
<1>2. /\ cur \in Jid /\ Listed(cur) /\ cur' = cur
      /\ \A k : Listed(k)' <=> Listed(k)
      /\ \A k \in Jid \ {cur} : jid2job'[k] = jid2job[k]
      /\ jid2job'[cur].pid = jid2job[cur].pid \cup {child}
  BY <1>1, RecordEffect, RecordPids
<1>3. \A p \in Children(cur)' : proc'[p] # "reported"
  BY <1>1, <1>2 DEF StopInv, NoneReported, Launching, Children, Unreaped
<1>4. \A k \in Jid \ {cur} : Children(k)' = Children(k)
  BY <1>1, <1>2 DEF Children, Unreaped
<1>5. StopsMarked'
  <2>1. ASSUME NEW j \in Jid, Listed(j)', NEW p \in Children(j)', proc'[p] = "reported"
        PROVE  /\ Up /\ Listed(j) /\ ~ Excused(j) /\ p \in Children(j)
               /\ proc[p] = "reported" /\ jid2job'[j] = jid2job[j]
    BY <1>1, <1>2, <1>3, <1>4, <2>1 DEF Up, Ended, Excused
  <2> QED BY <2>1, MarksKept DEF StopInv
<1> QED BY <1>1, <1>2, <1>3, <1>5 DEF StopInv, NoneReported

(* A status is assigned: to a job without reported processes, or BACKGROUND*)
(* by bg, or FOREGROUND by fg, which is excused until it sends SIGCONT.    *)
LEMMA StopStatus ==
  ASSUME TableInv, AliveInv, StopInv, NEW j \in Jid, jid2job[j] # NULL,
         NEW st \in Status, Up, pc # "fgcont", proc' = proc,
         jid2job' = [jid2job EXCEPT ![j].status = st], job_list' = job_list,
         pc' \notin Launching \cup {"bgset"},
         \/ \A p \in Children(j) : proc[p] # "reported"
         \/ "bg" \in Typed /\ st = "BACKGROUND"
         \/ Excused(j)'
  PROVE  StopInv'
<1>1. /\ \A k : Listed(k)' <=> Listed(k)
      /\ \A k \in Jid \ {j} : jid2job'[k] = jid2job[k]
      /\ SameProcesses(j) /\ jid2job'[j].status = st
  BY StatusEffect
<1>2. \A k \in Jid : Children(k)' = Children(k)
  BY <1>1 DEF Children, Unreaped, SameProcesses
<1>3. ASSUME NEW k \in Jid, Listed(k)', ~ Excused(k)', NEW p \in Children(k)',
             proc'[p] = "reported"
      PROVE  \/ Marked(jid2job'[k])
             \/ /\ Up /\ Listed(k) /\ ~ Excused(k) /\ p \in Children(k)
                /\ proc[p] = "reported" /\ jid2job'[k] = jid2job[k]
  <2>1. CASE k = j
    BY <1>1, <1>2, <1>3, <2>1 DEF Marked
  <2>2. CASE k # j
    BY <1>1, <1>2, <1>3, <2>2 DEF Excused
  <2> QED BY <2>1, <2>2
<1>4. StopsMarked'
  BY <1>3, MarksKept DEF StopInv
<1> QED BY <1>4 DEF StopInv, NoneReported

(* SIGCONT resumes every process of the job that fg excused.               *)
LEMMA StopFgCont ==
  ASSUME TableInv, AliveInv, GroupWhole, StopInv, FgCont
  PROVE  StopInv'
<1>1. pc = "fgcont" /\ UNCHANGED <<table, cur, child>> /\ pc' \in {"fggive", "failed"}
  BY DEF FgCont, At, launch
<1>2. cur \in Jid /\ Listed(cur)
  BY <1>1 DEF TableInv, CurOK, Held, CurrentJobListed, TypeOK
<1>3. \A j : (Listed(j)' <=> Listed(j)) /\ jid2job'[j] = jid2job[j]
  BY <1>1 DEF table, Listed
<1>4. CASE pc' = "failed"
  BY <1>4 DEF StopInv, StopsMarked, NoneReported, Up, Ended, Launching
<1>5. CASE pc' # "failed"
  <2>1. killpgCONT(jid2job[cur].pgid)
    BY <1>2, <1>5 DEF FgCont, get_process_pgid
  <2>2. /\ \A p \in Pid : Unreaped(p)' <=> Unreaped(p)
        /\ \A p \in Pid : proc'[p] = "reported" =>
             proc[p] = "reported" /\ p \notin Group(jid2job[cur].pgid)
    BY <2>1, ContReapsNone DEF killpgCONT, TableInv, TypeOK, Stopped
  <2>3. ASSUME NEW j \in Jid, Listed(j)', NEW p \in Children(j)', proc'[p] = "reported"
        PROVE  /\ Up /\ Listed(j) /\ ~ Excused(j) /\ p \in Children(j)
               /\ proc[p] = "reported" /\ jid2job'[j] = jid2job[j]
    <3>1. Listed(j) /\ jid2job'[j] = jid2job[j] /\ p \in jid2job[j].pid
      BY <1>3, <2>3 DEF Children
    <3>2. p \in Pid
      BY <3>1, ListedChildren DEF Job
    <3>3. /\ p \in Children(j) /\ proc[p] = "reported" /\ Unreaped(p)
          /\ p \notin Group(jid2job[cur].pgid)
      BY <2>2, <2>3, <3>1, <3>2 DEF Children, Unreaped
    <3>4. j # cur
      BY <3>1, <3>2, <3>3 DEF GroupWhole, Group
    <3> QED BY <1>1, <3>1, <3>3, <3>4 DEF Up, Ended, Excused
  <2>4. StopsMarked'
    BY <2>3, MarksKept DEF StopInv
  <2> QED BY <1>1, <2>4 DEF StopInv, NoneReported, Launching
<1> QED BY <1>4, <1>5

LEMMA StopProcess ==
  ASSUME TableInv, AliveInv, StopInv, NEW p \in Pid, ProcessStep(p)
  PROVE  StopInv'
<1>1. UNCHANGED <<table, control>> /\ Up
  BY DEF ProcessStep, handle_child_process, ProcessExits, TakesSignal, OutsideSignal
<1>2. PICK state \in {"running", "exited", "signaled", "stopped"} :
        Unreaped(p) /\ proc' = [proc EXCEPT ![p] = state]
  BY DEF ProcessStep, handle_child_process, ProcessExits, TakesSignal,
         OutsideSignal, ChangesTo, Unreaped, Live, Stopped
<1>3. /\ \A q \in Pid : Unreaped(q)' <=> Unreaped(q)
      /\ \A q \in Pid : proc'[q] = "reported" => proc[q] = "reported"
  BY <1>2, ChangeReapsNone DEF TableInv, TypeOK
<1>4. \A j : /\ Listed(j)' <=> Listed(j)
             /\ SameProcesses(j) /\ jid2job'[j].status = jid2job[j].status
  BY <1>1 DEF table, Listed, SameProcesses
<1> QED BY <1>1, <1>3, <1>4, StopKept DEF control, launch, Excused

LEMMA StopMain ==
  ASSUME "exhaust" \notin Outside, BaseInv, StopInv, MainStep
  PROVE  StopInv'
<1> USE DEF BaseInv
<1>0. pc \in Held => cur \in Jid /\ jid2job[cur] # NULL
  BY DEF TableInv, CurOK, CurrentJobListed, TypeOK
<1>1. CASE CleanStep
  BY <1>1, StopCleanStep
<1>2. CASE CleanDone \/ LaunchForeground \/ WaitFails \/ WaitDone \/ Back \/ FgGive
  BY <1>2, StopTableUnchanged
  DEF CleanDone, LaunchForeground, WaitFails, WaitDone, Back, FgGive, At, TableInv,
      TypeOK, termstate_give_terminal_to, kernel, Launching, Up, Ended
<1>3. CASE Record
  BY <1>3, StopRecord
<1>4. CASE LaunchBackground
  <2>1. \A p \in Children(cur) : proc[p] # "reported"
    BY <1>4 DEF LaunchBackground, At, StopInv, NoneReported, Launching
  <2> QED BY <1>0, <1>4, <2>1, StopStatus
          DEF LaunchBackground, At, Held, Status, kernel, Launching, Up, Ended
<1>5. CASE BgSet
  BY <1>0, <1>5, StopStatus
  DEF BgSet, At, Held, Status, kernel, Launching, Up, Ended, StopInv
<1>6. ASSUME NEW p \in Pid, Fork(p)
      PROVE  StopInv'
  BY <1>6, StopFork
<1>7. ASSUME NEW p \in Pid, WaitReap(p)
      PROVE  StopInv'
  BY <1>7, StopReap DEF WaitReap, At, Launching, Up, Ended, GroupInv
<1>8. CASE FgCont
  BY <1>8, StopFgCont DEF GroupInv
<1>9. ~ ForkFails
  BY DEF ForkFails
<1> QED BY <1>1, <1>2, <1>3, <1>4, <1>5, <1>6, <1>7, <1>8, <1>9 DEF MainStep

LEMMA StopUser ==
  ASSUME BaseInv, StopInv, UserStep
  PROVE  StopInv'
<1> USE DEF BaseInv
<1>1. CASE ReadLine \/ EndOfLine \/ Inform \/ Exit
  BY <1>1, StopTableUnchanged
  DEF ReadLine, EndOfLine, Inform, Exit, At, kernel, Launching, Up, Ended
<1>2. ASSUME NEW n \in 1 .. MaxPipeline, NEW bg \in BOOLEAN, StartPipeline(n, bg)
      PROVE  StopInv'
  BY <1>2, StopStartPipeline
<1>3. ASSUME NEW j \in Jid \cup {0}, Kill(j) \/ Stop(j)
      PROVE  StopInv'
  BY <1>3, StopTableUnchanged DEF Kill, Stop, At, Launching, Up, Ended
<1>4. ASSUME NEW j \in Jid \cup {0}, Bg(j)
      PROVE  StopInv'
  <2>1. UNCHANGED table /\ pc = "execute" /\ pc' \in {"clean", "bgset", "failed"}
        /\ "bg" \in Typed
    BY <1>4 DEF Bg, At
  <2>2. \A p \in Pid : Unreaped(p)' <=> Unreaped(p)
    BY <1>4, ContReapsNone DEF Bg, TableInv, Unreaped
  <2>3. \A p \in Pid : proc'[p] = "reported" => proc[p] = "reported"
    BY <1>4 DEF Bg, killpgCONT, TableInv, TypeOK
  <2>4. ASSUME NEW k \in Jid, Listed(k)', NEW p \in Children(k)', proc'[p] = "reported"
        PROVE  /\ Up /\ Listed(k) /\ ~ Excused(k) /\ p \in Children(k)
               /\ proc[p] = "reported" /\ jid2job'[k] = jid2job[k]
    <3>1. Listed(k) /\ jid2job'[k] = jid2job[k] /\ p \in jid2job[k].pid
      BY <2>1, <2>4 DEF table, Listed, Children
    <3>2. p \in Pid
      BY <3>1, ListedChildren DEF Job
    <3> QED BY <2>1, <2>2, <2>3, <2>4, <3>1, <3>2 DEF Children, Up, Ended, Excused
  <2>5. StopsMarked'
    BY <2>4, MarksKept DEF StopInv
  <2> QED BY <2>1, <2>5 DEF StopInv, NoneReported, Launching
<1>5. ASSUME NEW j \in Jid \cup {0}, Fg(j)
      PROVE  StopInv'
  <2>1. CASE get_job_from_jid(j) = 0
    BY <1>5, <2>1, StopTableUnchanged DEF Fg, At, table, kernel, Launching, Up, Ended
  <2>2. CASE get_job_from_jid(j) # 0
    <3>1. j \in Jid /\ jid2job[j] # NULL
      BY <2>2 DEF get_job_from_jid
    <3> QED BY <1>5, <2>2, <3>1, StopStatus
            DEF Fg, At, Status, kernel, Launching, Up, Ended, Excused
  <2> QED BY <2>1, <2>2
<1> QED BY <1>1, <1>2, <1>3, <1>4, <1>5 DEF UserStep

LEMMA StopHandler ==
  ASSUME BaseInv, StopInv, sigchld_handler
  PROVE  StopInv'
<1> USE DEF BaseInv
<1>1. CASE HandlerEnter \/ HandlerReturn
  <2>1. UNCHANGED <<table, control, proc>> /\ Up
    BY <1>1 DEF HandlerEnter, HandlerReturn, kernel
  <2>2. \A j : /\ Listed(j)' <=> Listed(j)
               /\ SameProcesses(j) /\ jid2job'[j].status = jid2job[j].status
    BY <2>1 DEF table, Listed, SameProcesses
  <2> QED BY <2>1, <2>2, StopKept DEF control, launch, Excused, Unreaped
<1>2. ASSUME NEW p \in Pid, HandlerReap(p)
      PROVE  StopInv'
  <2>1. pc \in Launching => pc = "fork" /\ curr_cmd = 0
    <3>1. ~ blocked /\ curr_cmd \in Nat
      BY <1>2 DEF HandlerReap, MaskInv, SigchldMask, TableInv, TypeOK
    <3> QED BY <3>1 DEF MaskInv, SigchldMask, Launching, GroupInv, LeaderThere
  <2> QED BY <1>2, <2>1, StopReap DEF HandlerReap, GroupInv
<1> QED BY <1>1, <1>2 DEF sigchld_handler

LEMMA StopNext ==
  ASSUME "exhaust" \notin Outside, BaseInv, StopInv, [Next]_vars
  PROVE  StopInv'
<1>1. CASE UNCHANGED vars
  BY <1>1 DEF vars, table, control, launch, kernel, StopInv, StopsMarked, NoneReported,
              Up, Listed, Excused, Children, Unreaped
<1>2. CASE Terminated
  BY <1>1, <1>2 DEF Terminated
<1>3. ASSUME NEW p \in Pid, ProcessStep(p)
      PROVE  StopInv'
  BY <1>3, StopProcess DEF BaseInv
<1> QED BY <1>1, <1>2, <1>3, StopMain, StopUser, StopHandler DEF Next

LEMMA StopInvariant ==
  ASSUME "exhaust" \notin Outside
  PROVE  Spec => [](BaseInv /\ StopInv)
<1>1. BaseInv /\ StopInv /\ [Next]_vars => (BaseInv /\ StopInv)'
  BY BaseNext, StopNext
<1> QED BY <1>1, BaseInit, StopInit, PTL DEF Spec

(* wait_for_job never blocks on a job all of whose processes are stopped   *)
(* and reported.                                                           *)
THEOREM WaitsEnd ==
  ASSUME "exhaust" \notin Outside
  PROVE  Spec => []WaitCanEnd
<1>1. BaseInv /\ StopInv => WaitCanEnd
  <2> SUFFICES ASSUME BaseInv, StopInv, pc = "wait", MustWait
               PROVE  \E p \in Children(cur) : proc[p] # "reported"
    BY DEF WaitCanEnd
  <2>1. cur \in Jid /\ Listed(cur) /\ Up /\ ~ Excused(cur)
    BY DEF BaseInv, TableInv, CurOK, Held, CurrentJobListed, TypeOK, Up, Ended, Excused
  <2>2. /\ 0 < jid2job[cur].num_processes_alive
        /\ jid2job[cur].num_processes_alive <= Cardinality(Children(cur))
        /\ jid2job[cur].num_processes_alive \in Int
        /\ Cardinality(Children(cur)) \in Nat
    BY <2>1, ListedChildren DEF MustWait, BaseInv, AliveInv, AliveBound
  <2>3. Children(cur) # {}
    BY <2>2, FS_EmptySet
  <2>4. ~ Marked(jid2job[cur])
    BY DEF MustWait, Marked
  <2> QED BY <2>1, <2>3, <2>4 DEF StopInv, StopsMarked
<1> QED BY <1>1, StopInvariant, PTL

(* Without bg, no assignment overwrites the report of a stop.              *)
THEOREM StopsAreRecorded ==
  ASSUME "exhaust" \notin Outside, "bg" \notin Typed
  PROVE  Spec => []StopRecorded
<1>1. BaseInv /\ StopInv => StopRecorded
  BY DEF StopInv, StopsMarked, StopRecorded, Marked, Up, Ended, Excused
<1> QED BY <1>1, StopInvariant, PTL

-----------------------------------------------------------------------------
(* Fork succeeds and no process dies by a signal.                          *)
Calm == /\ "exhaust" \notin Outside /\ "die" \notin Outside
        /\ "kill" \notin Typed

-----------------------------------------------------------------------------
(* No process dies by a signal.                                            *)

NobodyKilled == \A p \in Pid : proc[p] # "signaled" /\ pend[p] # "kill"

LEMMA KilledKept ==
  ASSUME NobodyKilled,
         \A p \in Pid : /\ proc'[p] = "signaled" => proc[p] = "signaled"
                        /\ pend'[p] = "kill" => pend[p] = "kill"
  PROVE  NobodyKilled'
BY DEF NobodyKilled

LEMMA KilledUnchanged ==
  ASSUME NobodyKilled, UNCHANGED <<proc, pend>>
  PROVE  NobodyKilled'
BY DEF NobodyKilled

LEMMA KilledReap ==
  ASSUME TypeOK, NobodyKilled, NEW p \in Pid, Waitable(p), waitpid(p)
  PROVE  NobodyKilled'
BY ReapKernel DEF NobodyKilled

LEMMA KilledCont ==
  ASSUME TypeOK, NobodyKilled, NEW g, killpgCONT(g)
  PROVE  NobodyKilled'
BY DEF NobodyKilled, killpgCONT, TypeOK

LEMMA KilledMain ==
  ASSUME TypeOK, NobodyKilled, MainStep
  PROVE  NobodyKilled'
<1>1. CASE \/ CleanStep \/ CleanDone \/ Record \/ LaunchBackground \/ LaunchForeground
           \/ ForkFails \/ WaitFails \/ WaitDone \/ Back \/ BgSet \/ FgGive
  BY <1>1, KilledUnchanged
  DEF CleanStep, CleanDone, Record, LaunchBackground, LaunchForeground, ForkFails,
      WaitFails, WaitDone, Back, BgSet, FgGive, kernel
<1>2. ASSUME NEW p \in Pid, Fork(p)
      PROVE  NobodyKilled'
  BY <1>2 DEF Fork, NobodyKilled, TypeOK
<1>3. ASSUME NEW p \in Pid, WaitReap(p)
      PROVE  NobodyKilled'
  BY <1>3, KilledReap DEF WaitReap
<1>4. CASE FgCont
  BY <1>4, KilledCont, KilledUnchanged DEF FgCont
<1> QED BY <1>1, <1>2, <1>3, <1>4 DEF MainStep

LEMMA KilledUser ==
  ASSUME "kill" \notin Typed, TypeOK, NobodyKilled, UserStep
  PROVE  NobodyKilled'
<1>1. CASE ReadLine \/ EndOfLine \/ Inform \/ Exit
  BY <1>1, KilledUnchanged DEF ReadLine, EndOfLine, Inform, Exit, kernel
<1>2. ASSUME NEW n \in 1 .. MaxPipeline, NEW bg \in BOOLEAN, StartPipeline(n, bg)
      PROVE  NobodyKilled'
  BY <1>2, KilledUnchanged DEF StartPipeline, kernel
<1>3. ASSUME NEW j \in Jid \cup {0}, Bg(j)
      PROVE  NobodyKilled'
  BY <1>3, KilledCont, KilledUnchanged DEF Bg
<1>4. ASSUME NEW j \in Jid \cup {0}, Stop(j)
      PROVE  NobodyKilled'
  BY <1>4 DEF Stop, killpgSTOP, NobodyKilled, TypeOK
<1>5. ASSUME NEW j \in Jid \cup {0}, Fg(j)
      PROVE  NobodyKilled'
  BY <1>5, KilledUnchanged DEF Fg, kernel
<1>6. ASSUME NEW j \in Jid \cup {0}
      PROVE  ~ Kill(j)
  BY DEF Kill
<1> QED BY <1>1, <1>2, <1>3, <1>4, <1>5, <1>6 DEF UserStep

LEMMA KilledProcess ==
  ASSUME "die" \notin Outside, TypeOK, NobodyKilled, NEW p \in Pid, ProcessStep(p)
  PROVE  NobodyKilled'
<1>1. CASE handle_child_process(p)
  BY <1>1 DEF handle_child_process, NobodyKilled, TypeOK
<1>2. CASE ProcessExits(p)
  BY <1>2 DEF ProcessExits, ChangesTo, NobodyKilled, TypeOK
<1>3. CASE TakesSignal(p)
  BY <1>3 DEF TakesSignal, ChangesTo, NobodyKilled, TypeOK
<1>4. CASE OutsideSignal(p)
  BY <1>4 DEF OutsideSignal, ChangesTo, NobodyKilled, TypeOK
<1> QED BY <1>1, <1>2, <1>3, <1>4 DEF ProcessStep

LEMMA KilledNext ==
  ASSUME Calm, TypeOK, NobodyKilled, [Next]_vars
  PROVE  NobodyKilled'
<1>1. CASE UNCHANGED vars
  BY <1>1, KilledUnchanged DEF vars, kernel
<1>2. CASE sigchld_handler
  <2>1. CASE HandlerEnter \/ HandlerReturn
    BY <2>1, KilledUnchanged DEF HandlerEnter, HandlerReturn, kernel
  <2>2. ASSUME NEW p \in Pid, HandlerReap(p)
        PROVE  NobodyKilled'
    BY <2>2, KilledReap DEF HandlerReap
  <2> QED BY <1>2, <2>1, <2>2 DEF sigchld_handler
<1>3. CASE Terminated
  BY <1>1, <1>3 DEF Terminated
<1> QED BY <1>1, <1>2, <1>3, KilledMain, KilledUser, KilledProcess DEF Next, Calm

-----------------------------------------------------------------------------
(* The counts are exact and every process belongs to a job.                *)

ProcessOwned ==
  Up => \A p \in Pid : Unreaped(p) =>
    \/ \E j \in Jid : OwnedBy(j, p)
    \/ pc = "record" /\ p = child

ExactInv == AliveIsExact /\ ProcessOwned

LEMMA ExactInit == Init => ExactInv
BY TableInvInit DEF Init, TableInv, ExactInv, AliveIsExact, ProcessOwned, Listed, Unreaped

(* A step that reaps no process, changes no count, and takes no job with   *)
(* a process from the table.                                               *)
LEMMA ExactKept ==
  ASSUME TableInv, ExactInv,
         \A p \in Pid : Unreaped(p)' <=> Unreaped(p),
         \A j \in Jid : Listed(j)' =>
           \/ /\ Listed(j) /\ SameProcesses(j)
              /\ jid2job'[j].num_processes_alive = jid2job[j].num_processes_alive
           \/ jid2job'[j].pid = {} /\ jid2job'[j].num_processes_alive = 0,
         \A j \in Jid : Listed(j) => \/ Listed(j)' /\ SameProcesses(j)
                                     \/ Children(j) = {},
         Up' => Up /\ (pc = "record" => pc' = "record" /\ child' = child)
  PROVE  ExactInv'
<1>1. ASSUME NEW j \in Jid, Listed(j)'
      PROVE  jid2job'[j].num_processes_alive = Cardinality(Children(j)')
  <2>1. CASE /\ Listed(j) /\ SameProcesses(j)
             /\ jid2job'[j].num_processes_alive = jid2job[j].num_processes_alive
    <3>1. jid2job[j].pid \in SUBSET Pid
      BY <2>1, ListedChildren DEF Job
    <3>2. Children(j)' = Children(j)
      BY <2>1, <3>1 DEF Children, SameProcesses
    <3> QED BY <2>1, <3>2 DEF ExactInv, AliveIsExact
  <2>2. CASE jid2job'[j].pid = {} /\ jid2job'[j].num_processes_alive = 0
    <3>1. Children(j)' = {}
      BY <2>2 DEF Children
    <3> QED BY <2>2, <3>1, FS_EmptySet
  <2> QED BY <1>1, <2>1, <2>2
<1>2. ProcessOwned'
  <2> SUFFICES ASSUME Up', NEW p \in Pid, Unreaped(p)'
               PROVE  \/ \E j \in Jid : OwnedBy(j, p)'
                      \/ pc' = "record" /\ p = child'
    BY DEF ProcessOwned
  <2>1. Up /\ Unreaped(p)
    OBVIOUS
  <2>2. ASSUME NEW j \in Jid, OwnedBy(j, p)
        PROVE  OwnedBy(j, p)'
    <3>1. p \in Children(j)
      BY <2>1, <2>2 DEF OwnedBy, Children
    <3> QED BY <2>2, <3>1 DEF OwnedBy, SameProcesses
  <2> QED BY <2>1, <2>2 DEF ExactInv, ProcessOwned
<1> QED BY <1>1, <1>2 DEF ExactInv, AliveIsExact

LEMMA ExactTableUnchanged ==
  ASSUME TableInv, ExactInv, UNCHANGED table,
         \A p \in Pid : Unreaped(p)' <=> Unreaped(p),
         Up' => Up /\ (pc = "record" => pc' = "record" /\ child' = child)
  PROVE  ExactInv'
<1>1. \A j : /\ Listed(j)' <=> Listed(j)
             /\ SameProcesses(j) /\ jid2job'[j] = jid2job[j]
  BY DEF table, Listed, SameProcesses
<1> QED BY <1>1, ExactKept

LEMMA ExactStatus ==
  ASSUME TableInv, ExactInv, NEW j \in Jid, jid2job[j] # NULL, NEW st \in Status,
         jid2job' = [jid2job EXCEPT ![j].status = st], job_list' = job_list,
         proc' = proc, Up, pc # "record"
  PROVE  ExactInv'
<1>1. \A p \in Pid : Unreaped(p)' <=> Unreaped(p)
  BY DEF Unreaped
<1>2. /\ \A k : Listed(k)' <=> Listed(k)
      /\ \A k \in Jid : /\ SameProcesses(k)
                        /\ jid2job'[k].num_processes_alive = jid2job[k].num_processes_alive
  BY StatusEffect DEF SameProcesses
<1> QED BY <1>1, <1>2, ExactKept

(* The process whose report is collected belongs to exactly one job.       *)
LEMMA OwnerFound ==
  ASSUME TableInv, OwnInv, ExactInv, Up, pc # "record", NEW p \in Pid, Waitable(p),
         handle_child_status(p), job_list' = job_list
  PROVE  /\ pc' = pc
         /\ \E j \in Jid : /\ OwnedBy(j, p)
                           /\ \A k \in Jid \ {j} : Listed(k) => p \notin jid2job[k].pid
<1>1. PICK j \in Jid : OwnedBy(j, p)
  BY DEF ExactInv, ProcessOwned, Waitable, Unreaped
<1>2. \A k \in Jid \ {j} : Listed(k) => p \notin jid2job[k].pid
  BY <1>1 DEF OwnInv, PidsDisjoint, OwnedBy
<1> QED BY <1>1, <1>2, ReapEffect

LEMMA ExactReap ==
  ASSUME TableInv, OwnInv, NobodyKilled, ExactInv, Up, pc # "record",
         NEW p \in Pid, Waitable(p), handle_child_status(p), waitpid(p),
         UNCHANGED <<job_list, launch>>
  PROVE  ExactInv'
<1>1. pc' = pc /\ child' = child
  BY OwnerFound DEF launch
<1>2. PICK j \in Jid : /\ OwnedBy(j, p)
                       /\ \A k \in Jid \ {j} : Listed(k) => p \notin jid2job[k].pid
  BY OwnerFound
<1>3. /\ \A k : Listed(k)' <=> Listed(k)
      /\ \A k \in Jid : Listed(k) => ReportEntered(k, p)
  BY ReapEffect
<1>4. CASE proc[p] = "stopped"
  <2>1. \A q \in Pid : Unreaped(q)' <=> Unreaped(q)
    BY <1>4, ReapKernel DEF TableInv, Unreaped
  <2>2. \A k \in Jid : Listed(k) =>
          /\ SameProcesses(k)
          /\ jid2job'[k].num_processes_alive = jid2job[k].num_processes_alive
    BY <1>3, <1>4 DEF ReportEntered, CountAfter
  <2> QED BY <1>1, <1>3, <2>1, <2>2, ExactKept
<1>5. CASE proc[p] # "stopped"
  <2>1. proc[p] = "exited" /\ proc'[p] = "free" /\ \A q \in Pid \ {p} : proc'[q] = proc[q]
    BY <1>5, ReapKernel DEF TableInv, NobodyKilled
  <2>2. ASSUME NEW k \in Jid, Listed(k), k # j
        PROVE  jid2job'[k] = jid2job[k] /\ Children(k)' = Children(k)
    <3>1. jid2job'[k] = jid2job[k] /\ p \notin jid2job[k].pid
      BY <1>2, <1>3, <2>2 DEF ReportEntered
    <3>2. jid2job[k].pid \in SUBSET Pid
      BY <2>2, ListedChildren DEF Job
    <3> QED BY <2>1, <3>1, <3>2 DEF Children, Unreaped
  <2>3. Listed(j) /\ p \in Children(j) /\ Children(j)' = Children(j) \ {p}
    <3>1. Listed(j) /\ p \in jid2job[j].pid /\ jid2job[j].pid \in SUBSET Pid
      BY <1>2, ListedChildren DEF Job, OwnedBy
    <3>2. jid2job'[j].pid = jid2job[j].pid
      BY <1>3, <3>1 DEF ReportEntered, SameProcesses
    <3> QED BY <2>1, <3>1, <3>2 DEF Children, Unreaped
  <2>4. jid2job'[j].num_processes_alive = Cardinality(Children(j)')
    <3>1. jid2job'[j].num_processes_alive = jid2job[j].num_processes_alive - 1
      BY <1>2, <1>3, <2>1 DEF ReportEntered, CountAfter, OwnedBy
    <3>2. IsFiniteSet(Children(j)) /\ Cardinality(Children(j)) \in Nat
      BY <2>3, ListedChildren
    <3>3. Cardinality(Children(j)') = Cardinality(Children(j)) - 1
      BY <2>3, <3>2, FS_RemoveElement
    <3> QED BY <2>3, <3>1, <3>3 DEF ExactInv, AliveIsExact
  <2>5. AliveIsExact'
    BY <1>3, <2>2, <2>4 DEF ExactInv, AliveIsExact
  <2>6. ProcessOwned'
    <3> SUFFICES ASSUME NEW q \in Pid, Unreaped(q)'
                 PROVE  \E k \in Jid : OwnedBy(k, q)'
      BY DEF ProcessOwned
    <3>1. q # p /\ Unreaped(q)
      BY <2>1 DEF Unreaped
    <3>2. PICK k \in Jid : OwnedBy(k, q)
      BY <3>1 DEF ExactInv, ProcessOwned
    <3>3. OwnedBy(k, q)'
      BY <1>3, <3>2 DEF OwnedBy, ReportEntered, SameProcesses
    <3> QED BY <3>3
  <2> QED BY <2>5, <2>6 DEF ExactInv
<1> QED BY <1>4, <1>5

(* The cleaning loop deletes no job with a process.                        *)
LEMMA ExactCleanStep ==
  ASSUME TableInv, ExactInv, CleanStep
  PROVE  ExactInv'
<1>1. pc = "clean" /\ pc' = "clean" /\ proc' = proc
  BY DEF CleanStep, At, kernel
<1>2. \A p \in Pid : Unreaped(p)' <=> Unreaped(p)
  BY <1>1 DEF Unreaped
<1>3. CASE UNCHANGED table
  BY <1>1, <1>2, <1>3, ExactTableUnchanged DEF Up, Ended
<1>4. ASSUME NEW d \in Jid, Listed(d), jid2job[d].num_processes_alive = 0,
             \A k : Listed(k)' <=> Listed(k) /\ k # d,
             \A k \in Jid \ {d} : jid2job'[k] = jid2job[k]
      PROVE  ExactInv'
  <2>1. Children(d) = {}
    <3>1. IsFiniteSet(Children(d)) /\ Cardinality(Children(d)) = 0
      BY <1>4, ListedChildren DEF ExactInv, AliveIsExact
    <3> QED BY <3>1, FS_EmptySet
  <2>2. \A k \in Jid \ {d} : SameProcesses(k)
    BY <1>4 DEF SameProcesses
  <2> QED BY <1>1, <1>2, <1>4, <2>1, <2>2, ExactKept DEF Up, Ended
<1> QED BY <1>3, <1>4, CleanEffect

LEMMA ExactStartPipeline ==
  ASSUME TableInv, ExactInv, NEW n \in 1 .. MaxPipeline, NEW bg \in BOOLEAN,
         StartPipeline(n, bg)
  PROVE  ExactInv'
<1>1. proc' = proc /\ pc = "execute"
  BY DEF StartPipeline, At, kernel
<1>2. \A p \in Pid : Unreaped(p)' <=> Unreaped(p)
  BY <1>1 DEF Unreaped
<1>3. CASE UNCHANGED table
  BY <1>1, <1>2, <1>3, ExactTableUnchanged DEF Up, Ended
<1>4. ASSUME NEW j \in Jid, ~ Listed(j), jid2job'[j] = NewJob(bg),
             \A k : Listed(k)' <=> Listed(k) \/ k = j,
             \A k \in Jid \ {j} : jid2job'[k] = jid2job[k]
      PROVE  ExactInv'
  <2>1. jid2job'[j].pid = {} /\ jid2job'[j].num_processes_alive = 0
    BY <1>4 DEF NewJob
  <2>2. \A k \in Jid \ {j} : SameProcesses(k)
    BY <1>4 DEF SameProcesses
  <2> QED BY <1>1, <1>2, <1>4, <2>1, <2>2, ExactKept DEF Up, Ended
<1> QED BY <1>3, <1>4, StartEffect DEF table

LEMMA ExactFork ==
  ASSUME TableInv, ExactInv, NEW p \in Pid, Fork(p)
  PROVE  ExactInv'
<1>1. /\ child' = p /\ pc = "fork" /\ pc' = "record" /\ UNCHANGED table
      /\ proc' = [proc EXCEPT ![p] = "forked"]
  BY DEF Fork, At
<1>2. \A j \in Jid : ~ OwnedBy(j, p)
  BY FreshUnowned DEF Fork
<1>3. \A q \in Pid \ {p} : Unreaped(q)' <=> Unreaped(q)
  BY <1>1 DEF Unreaped, TableInv, TypeOK
<1>4. \A j : (Listed(j)' <=> Listed(j)) /\ jid2job'[j] = jid2job[j]
  BY <1>1 DEF table, Listed
<1>5. ASSUME NEW j \in Jid, Listed(j)'
      PROVE  jid2job'[j].num_processes_alive = Cardinality(Children(j)')
  <2>1. Listed(j) /\ jid2job[j].pid \in SUBSET Pid /\ p \notin jid2job[j].pid
    BY <1>2, <1>4, <1>5, ListedChildren DEF Job, OwnedBy
  <2>2. Children(j)' = Children(j)
    BY <1>3, <1>4, <2>1 DEF Children
  <2> QED BY <1>4, <2>1, <2>2 DEF ExactInv, AliveIsExact
<1>6. ProcessOwned'
  BY <1>1, <1>3, <1>4 DEF ExactInv, ProcessOwned, OwnedBy, Up, Ended
<1> QED BY <1>5, <1>6 DEF ExactInv, AliveIsExact

LEMMA ExactRecord ==
  ASSUME TableInv, OwnInv, AliveInv, ExactInv, Record
  PROVE  /\ ExactInv'
         /\ child \in Pid /\ Children(cur)' = Children(cur) \cup {child}
         /\ \A k \in Jid \ {cur} : Children(k)' = Children(k)
<1>1. /\ pc = "record" /\ proc' = proc /\ pc' # "record"
      /\ child \in Pid /\ child # NULL /\ Unreaped(child)
  BY NULLAssumption DEF Record, At, AliveInv, ChildUnreaped
<1>2. /\ cur \in Jid /\ Listed(cur) /\ cur' = cur
      /\ \A k : Listed(k)' <=> Listed(k)
      /\ \A k \in Jid \ {cur} : jid2job'[k] = jid2job[k]
      /\ jid2job'[cur].pid = jid2job[cur].pid \cup {child}
      /\ jid2job'[cur].num_processes_alive = jid2job[cur].num_processes_alive + 1
  BY <1>1, RecordEffect, RecordPids
<1>3. \A k \in Jid \ {cur} : Children(k)' = Children(k)
  BY <1>1, <1>2 DEF Children, Unreaped
<1>4. Children(cur)' = Children(cur) \cup {child}
  BY <1>1, <1>2 DEF Children, Unreaped
<1>5. child \notin Children(cur)
  BY <1>1, <1>2 DEF OwnInv, ChildUnowned, OwnedBy, Children
<1>6. Cardinality(Children(cur)') = Cardinality(Children(cur)) + 1
  BY <1>2, <1>4, <1>5, ListedChildren, FS_AddElement
<1>7. AliveIsExact'
  <2> SUFFICES ASSUME NEW j \in Jid, Listed(j)'
               PROVE  jid2job'[j].num_processes_alive = Cardinality(Children(j)')
    BY DEF AliveIsExact
  <2>1. Listed(j) /\ jid2job[j].num_processes_alive = Cardinality(Children(j))
    BY <1>2 DEF ExactInv, AliveIsExact
  <2>2. CASE j = cur
    BY <1>2, <1>6, <2>1, <2>2
  <2>3. CASE j # cur
    BY <1>2, <1>3, <2>1, <2>3
  <2> QED BY <2>2, <2>3
<1>8. ProcessOwned'
  <2> SUFFICES ASSUME NEW p \in Pid, Unreaped(p)'
               PROVE  \E j \in Jid : OwnedBy(j, p)'
    BY DEF ProcessOwned
  <2>1. p = child \/ \E j \in Jid : OwnedBy(j, p)
    BY <1>1 DEF ExactInv, ProcessOwned, Unreaped, Up, Ended
  <2>2. CASE p = child
    BY <1>2, <2>2 DEF OwnedBy
  <2>3. ASSUME NEW j \in Jid, OwnedBy(j, p)
        PROVE  OwnedBy(j, p)'
    BY <1>2, <2>3 DEF OwnedBy
  <2> QED BY <2>1, <2>2, <2>3
<1> QED BY <1>1, <1>3, <1>4, <1>7, <1>8 DEF ExactInv

LEMMA ExactMain ==
  ASSUME "exhaust" \notin Outside, BaseInv, NobodyKilled, ExactInv, MainStep
  PROVE  ExactInv'
<1> USE DEF BaseInv
<1>0. pc \in Held => cur \in Jid /\ jid2job[cur] # NULL
  BY DEF TableInv, CurOK, CurrentJobListed, TypeOK
<1>1. CASE CleanStep
  BY <1>1, ExactCleanStep
<1>2. CASE CleanDone \/ LaunchForeground \/ WaitFails \/ WaitDone \/ Back \/ FgGive
  BY <1>2, ExactTableUnchanged
  DEF CleanDone, LaunchForeground, WaitFails, WaitDone, Back, FgGive, At,
      termstate_give_terminal_to, kernel, Up, Ended, Unreaped
<1>3. CASE Record
  BY <1>3, ExactRecord
<1>4. CASE LaunchBackground \/ BgSet
  BY <1>0, <1>4, ExactStatus
  DEF LaunchBackground, BgSet, At, Held, Status, kernel, Up, Ended
<1>5. ASSUME NEW p \in Pid, Fork(p)
      PROVE  ExactInv'
  BY <1>5, ExactFork
<1>6. ASSUME NEW p \in Pid, WaitReap(p)
      PROVE  ExactInv'
  BY <1>6, ExactReap DEF WaitReap, At, Up, Ended
<1>7. CASE FgCont
  <2>1. \A p \in Pid : Unreaped(p)' <=> Unreaped(p)
    BY <1>7, ContReapsNone DEF FgCont, TableInv, Unreaped
  <2> QED BY <1>7, <2>1, ExactTableUnchanged DEF FgCont, At, Up, Ended
<1>8. ~ ForkFails
  BY DEF ForkFails
<1> QED BY <1>1, <1>2, <1>3, <1>4, <1>5, <1>6, <1>7, <1>8 DEF MainStep

LEMMA ExactUser ==
  ASSUME BaseInv, ExactInv, UserStep
  PROVE  ExactInv'
<1> USE DEF BaseInv
<1>1. CASE ReadLine \/ EndOfLine \/ Inform \/ Exit
  BY <1>1, ExactTableUnchanged
  DEF ReadLine, EndOfLine, Inform, Exit, At, kernel, Up, Ended, Unreaped
<1>2. ASSUME NEW n \in 1 .. MaxPipeline, NEW bg \in BOOLEAN, StartPipeline(n, bg)
      PROVE  ExactInv'
  BY <1>2, ExactStartPipeline
<1>3. ASSUME NEW j \in Jid \cup {0}, Kill(j) \/ Stop(j)
      PROVE  ExactInv'
  BY <1>3, ExactTableUnchanged DEF Kill, Stop, At, Up, Ended, Unreaped
<1>4. ASSUME NEW j \in Jid \cup {0}, Bg(j)
      PROVE  ExactInv'
  <2>1. \A p \in Pid : Unreaped(p)' <=> Unreaped(p)
    BY <1>4, ContReapsNone DEF Bg, TableInv, Unreaped
  <2> QED BY <1>4, <2>1, ExactTableUnchanged DEF Bg, At, Up, Ended
<1>5. ASSUME NEW j \in Jid \cup {0}, Fg(j)
      PROVE  ExactInv'
  <2>1. CASE get_job_from_jid(j) = 0
    BY <1>5, <2>1, ExactTableUnchanged DEF Fg, At, table, kernel, Up, Ended, Unreaped
  <2>2. CASE get_job_from_jid(j) # 0
    <3>1. j \in Jid /\ jid2job[j] # NULL
      BY <2>2 DEF get_job_from_jid
    <3> QED BY <1>5, <2>2, <3>1, ExactStatus DEF Fg, At, Status, kernel, Up, Ended
  <2> QED BY <2>1, <2>2
<1> QED BY <1>1, <1>2, <1>3, <1>4, <1>5 DEF UserStep

LEMMA ExactProcess ==
  ASSUME TableInv, ExactInv, NEW p \in Pid, ProcessStep(p)
  PROVE  /\ ExactInv' /\ UNCHANGED <<table, control>>
         /\ \A q \in Pid : Unreaped(q)' <=> Unreaped(q)
<1>1. UNCHANGED <<table, control>> /\ Up
  BY DEF ProcessStep, handle_child_process, ProcessExits, TakesSignal, OutsideSignal
<1>2. PICK state \in {"running", "exited", "signaled", "stopped"} :
        Unreaped(p) /\ proc' = [proc EXCEPT ![p] = state]
  BY DEF ProcessStep, handle_child_process, ProcessExits, TakesSignal,
         OutsideSignal, ChangesTo, Unreaped, Live, Stopped
<1>3. \A q \in Pid : Unreaped(q)' <=> Unreaped(q)
  BY <1>2, ChangeReapsNone DEF TableInv
<1>4. ExactInv'
  BY <1>1, <1>3, ExactTableUnchanged DEF control, launch
<1> QED BY <1>1, <1>3, <1>4

LEMMA ExactHandler ==
  ASSUME BaseInv, NobodyKilled, ExactInv, sigchld_handler
  PROVE  ExactInv'
<1> USE DEF BaseInv
<1>1. CASE HandlerEnter \/ HandlerReturn
  BY <1>1, ExactTableUnchanged
  DEF HandlerEnter, HandlerReturn, control, launch, kernel, Unreaped
<1>2. ASSUME NEW p \in Pid, HandlerReap(p)
      PROVE  ExactInv'
  <2>1. pc # "record"
    BY <1>2 DEF HandlerReap, MaskInv, SigchldMask
  <2> QED BY <1>2, <2>1, ExactReap DEF HandlerReap
<1> QED BY <1>1, <1>2 DEF sigchld_handler

LEMMA ExactNext ==
  ASSUME "exhaust" \notin Outside, BaseInv, NobodyKilled, ExactInv, [Next]_vars
  PROVE  ExactInv'
<1>1. CASE UNCHANGED vars
  BY <1>1, ExactTableUnchanged
  DEF vars, control, launch, kernel, Unreaped, Up, BaseInv
<1>2. CASE Terminated
  BY <1>1, <1>2 DEF Terminated
<1>3. ASSUME NEW p \in Pid, ProcessStep(p)
      PROVE  ExactInv'
  BY <1>3, ExactProcess DEF BaseInv
<1> QED BY <1>1, <1>2, <1>3, ExactMain, ExactUser, ExactHandler DEF Next

-----------------------------------------------------------------------------
(* The status of the job that wait_for_job is going to wait for.           *)

Foreseen ==
  \/ pc \in Launching /\ ~ jid2job[cur].bg_job
  \/ pc \in {"fgcont", "fggive", "wait"}

ForegroundStatus == Foreseen => jid2job[cur].status # "BACKGROUND"

LEMMA ForegroundStatusInit == Init => ForegroundStatus
BY DEF Init, ForegroundStatus, Foreseen, Launching

LEMMA SeenKept ==
  ASSUME ForegroundStatus, Foreseen' => Foreseen /\ cur' = cur,
         Foreseen' => jid2job'[cur].status \in {jid2job[cur].status, "STOPPED"}
  PROVE  ForegroundStatus'
BY DEF ForegroundStatus

LEMMA SeenUnchanged ==
  ASSUME ForegroundStatus, jid2job' = jid2job,
         pc' \in Launching \cup {"fgcont", "fggive", "wait"} =>
           /\ cur' = cur
           /\ \/ pc' \in Launching /\ pc \in Launching
              \/ Foreseen
  PROVE  ForegroundStatus'
BY DEF ForegroundStatus, Foreseen, Launching

LEMMA SeenReap ==
  ASSUME TableInv, OwnInv, ForegroundStatus, NEW p \in Pid, Waitable(p),
         handle_child_status(p), UNCHANGED <<job_list, cur>>
  PROVE  ForegroundStatus'
<1>1. pc' = pc \/ pc' = "crashed"
  BY ReapEffect
<1>2. CASE pc \in Held /\ pc' = pc
  <2>1. cur \in Jid /\ Listed(cur)
    BY <1>2 DEF TableInv, CurOK, CurrentJobListed, TypeOK
  <2>2. /\ jid2job'[cur].bg_job = jid2job[cur].bg_job
        /\ jid2job'[cur].status \in {jid2job[cur].status, "STOPPED"}
    BY <2>1, ReapEffect DEF ReportEntered, SameProcesses, StatusAfter
  <2> QED BY <1>2, <2>2, SeenKept DEF Foreseen
<1>3. CASE pc \notin Held \/ pc' = "crashed"
  BY <1>1, <1>3 DEF ForegroundStatus, Foreseen, Held, Launching
<1> QED BY <1>1, <1>2, <1>3

LEMMA SeenMain ==
  ASSUME TableInv, OwnInv, ForegroundStatus, MainStep
  PROVE  ForegroundStatus'
<1>1. CASE CleanStep \/ CleanDone \/ LaunchBackground \/ WaitFails \/ WaitDone \/ Back \/ BgSet
  <2>1. pc' \notin Launching \cup {"fgcont", "fggive", "wait"}
    BY <1>1 DEF CleanStep, CleanDone, LaunchBackground, WaitFails, WaitDone, Back, BgSet,
                At, Launching, TableInv, TypeOK
  <2> QED BY <2>1 DEF ForegroundStatus, Foreseen
<1>2. CASE Record
  <2>1. pc \in Launching
    BY <1>2 DEF Record, At, Launching
  <2>2. pc' \in Launching
    BY <1>2 DEF Record, Launching
  <2> QED BY <1>2, <2>1, <2>2, RecordEffect, SeenKept DEF Foreseen, Launching
<1>3. CASE LaunchForeground \/ ForkFails \/ FgCont \/ FgGive
  BY <1>3, SeenUnchanged
  DEF LaunchForeground, ForkFails, FgCont, FgGive, At, Foreseen, Launching, table,
      termstate_give_terminal_to
<1>4. ASSUME NEW p \in Pid, Fork(p)
      PROVE  ForegroundStatus'
  BY <1>4, SeenUnchanged DEF Fork, At, Launching, table
<1>5. ASSUME NEW p \in Pid, WaitReap(p)
      PROVE  ForegroundStatus'
  BY <1>5, SeenReap DEF WaitReap
<1> QED BY <1>1, <1>2, <1>3, <1>4, <1>5 DEF MainStep

LEMMA SeenUser ==
  ASSUME TableInv, ForegroundStatus, UserStep
  PROVE  ForegroundStatus'
<1>1. CASE ReadLine \/ EndOfLine \/ Inform \/ Exit
  BY <1>1 DEF ReadLine, EndOfLine, Inform, Exit, ForegroundStatus, Foreseen, Launching
<1>2. ASSUME NEW j \in Jid \cup {0}, Bg(j) \/ Kill(j) \/ Stop(j)
      PROVE  ForegroundStatus'
  BY <1>2 DEF Bg, Kill, Stop, ForegroundStatus, Foreseen, Launching
<1>3. ASSUME NEW n \in 1 .. MaxPipeline, NEW bg \in BOOLEAN, StartPipeline(n, bg)
      PROVE  ForegroundStatus'
  <2>1. CASE pc' \in {"crashed", "failed"}
    BY <2>1 DEF ForegroundStatus, Foreseen, Launching
  <2>2. CASE jid2job'[cur'] = NewJob(bg) /\ pc' = "fork"
    BY <2>2 DEF ForegroundStatus, Foreseen, Launching, NewJob
  <2> QED BY <1>3, <2>1, <2>2, StartEffect
<1>4. ASSUME NEW j \in Jid \cup {0}, Fg(j)
      PROVE  ForegroundStatus'
  <2>1. CASE get_job_from_jid(j) = 0
    BY <1>4, <2>1 DEF Fg, ForegroundStatus, Foreseen, Launching
  <2>2. CASE get_job_from_jid(j) # 0
    <3>1. j \in Jid /\ jid2job[j] # NULL
      BY <2>2 DEF get_job_from_jid
    <3>2. jid2job'[j].status = "FOREGROUND" /\ cur' = j
      BY <1>4, <2>2, <3>1, StatusEffect DEF Fg, Status
    <3> QED BY <3>2 DEF ForegroundStatus
  <2> QED BY <2>1, <2>2
<1> QED BY <1>1, <1>2, <1>3, <1>4 DEF UserStep

LEMMA SeenNext ==
  ASSUME TableInv, OwnInv, ForegroundStatus, [Next]_vars
  PROVE  ForegroundStatus'
<1>1. CASE UNCHANGED vars
  BY <1>1 DEF vars, table, control, ForegroundStatus, Foreseen
<1>2. CASE sigchld_handler
  <2>1. CASE HandlerEnter \/ HandlerReturn
    BY <2>1 DEF HandlerEnter, HandlerReturn, table, control, ForegroundStatus, Foreseen
  <2>2. ASSUME NEW p \in Pid, HandlerReap(p)
        PROVE  ForegroundStatus'
    BY <2>2, SeenReap DEF HandlerReap
  <2> QED BY <1>2, <2>1, <2>2 DEF sigchld_handler
<1>3. ASSUME NEW p \in Pid, ProcessStep(p)
      PROVE  ForegroundStatus'
  BY <1>3 DEF ProcessStep, handle_child_process, ProcessExits, TakesSignal, OutsideSignal,
              table, control, ForegroundStatus, Foreseen
<1>4. CASE Terminated
  BY <1>1, <1>4 DEF Terminated
<1> QED BY <1>1, <1>2, <1>3, <1>4, SeenMain, SeenUser DEF Next

-----------------------------------------------------------------------------
(* All invariants, and what they say of the counts and the reports.        *)

CalmInv == BaseInv /\ NobodyKilled /\ ExactInv /\ ForegroundStatus

LEMMA CalmInit == Init => CalmInv
BY BaseInit, ExactInit, ForegroundStatusInit DEF CalmInv, Init, NobodyKilled

LEMMA CalmNext ==
  ASSUME Calm, CalmInv, [Next]_vars
  PROVE  CalmInv'
<1>1. BaseInv'
  BY BaseNext DEF CalmInv, Calm
<1>2. NobodyKilled'
  BY KilledNext DEF CalmInv, BaseInv, TableInv
<1>3. ExactInv'
  BY ExactNext DEF CalmInv, Calm
<1>4. ForegroundStatus'
  BY SeenNext DEF CalmInv, BaseInv
<1> QED BY <1>1, <1>2, <1>3, <1>4 DEF CalmInv

LEMMA CalmInvariant ==
  ASSUME Calm
  PROVE  Spec => []CalmInv
<1>1. CalmInv /\ [Next]_vars => CalmInv'
  BY CalmNext
<1> QED BY <1>1, CalmInit, PTL DEF Spec

(* num_processes_alive is exactly the number of processes not yet reaped.  *)
THEOREM CountsAreExact ==
  ASSUME Calm
  PROVE  Spec => []AliveIsExact
<1>1. CalmInv => AliveIsExact
  BY DEF CalmInv, ExactInv
<1> QED BY <1>1, CalmInvariant, PTL

(* handle_child_status always finds the job of the process it is told of.  *)
THEOREM ReportsHaveJobs ==
  ASSUME Calm
  PROVE  Spec => []ReportHasJob
<1>1. CalmInv => ReportHasJob
  <2> SUFFICES ASSUME CalmInv, Up, handling \/ pc = "wait", NEW p \in Pid, Waitable(p)
               PROVE  get_job_from_pid(p) # 0
    BY DEF ReportHasJob
  <2>1. pc # "record"
    BY DEF CalmInv, BaseInv, MaskInv, SigchldMask
  <2>2. PICK j \in Jid : OwnedBy(j, p)
    BY <2>1 DEF CalmInv, ExactInv, ProcessOwned, Waitable, Unreaped
  <2>3. \E i \in DOMAIN job_list : Owns(i, p)
    BY <2>2 DEF OwnedBy, Listed, Owns
  <2>4. 0 \notin Jid
    BY BoundAssumption DEF Jid
  <2> QED BY <2>3, <2>4, PidLookup DEF CalmInv, BaseInv
<1> QED BY <1>1, CalmInvariant, PTL

-----------------------------------------------------------------------------
(* The refinement mapping.                                                 *)

JobsView == [j \in Jid |-> IF jid2job[j] = NULL THEN NULL ELSE Children(j)]
StoppedView == {j \in Jid : jid2job[j] # NULL /\ jid2job[j].status = "STOPPED"}
ForegroundView == IF pc = "wait" THEN cur ELSE 0

UserStutters ==
  JobsView' = JobsView /\ StoppedView' = StoppedView /\ ForegroundView' = ForegroundView

LEMMA ViewStutters ==
  ASSUME UserStutters
  PROVE  [UserView!Next]_UserView!vars
BY DEF UserStutters, UserView!vars, JobsView, StoppedView, ForegroundView

LEMMA ViewCreates ==
  ASSUME NEW j \in Jid, jid2job[j] = NULL, JobsView' = [JobsView EXCEPT ![j] = {}],
         StoppedView' = StoppedView, ForegroundView' = ForegroundView
  PROVE  [UserView!Next]_UserView!vars
<1>1. UserView!Create(j)
  BY DEF UserView!Create, UserView!Exists, JobsView, StoppedView, ForegroundView
<1> QED BY <1>1 DEF UserView!Next

LEMMA ViewAdds ==
  ASSUME NEW j \in Jid, jid2job[j] # NULL, JobsView[j] # NULL, NEW p \in Pid,
         \A k \in Jid : JobsView[k] # NULL => p \notin JobsView[k],
         JobsView' = [JobsView EXCEPT ![j] = @ \cup {p}],
         StoppedView' = StoppedView, ForegroundView' = ForegroundView
  PROVE  [UserView!Next]_UserView!vars
<1>1. UserView!Add(j, p)
  BY DEF UserView!Add, UserView!Exists, JobsView, StoppedView, ForegroundView
<1> QED BY <1>1 DEF UserView!Next

LEMMA ViewEnds ==
  ASSUME NEW j \in Jid, JobsView[j] # NULL, NEW p \in Pid, p \in JobsView[j],
         JobsView' = [JobsView EXCEPT ![j] = @ \ {p}],
         StoppedView' = StoppedView, ForegroundView' = ForegroundView
  PROVE  [UserView!Next]_UserView!vars
<1>1. UserView!End(j, p)
  BY DEF UserView!End, UserView!Exists, JobsView, StoppedView, ForegroundView
<1> QED BY <1>1 DEF UserView!Next

LEMMA ViewStops ==
  ASSUME NEW j \in Jid, JobsView[j] # NULL, JobsView[j] # {},
         JobsView' = JobsView, StoppedView' = StoppedView \cup {j},
         ForegroundView' = ForegroundView
  PROVE  [UserView!Next]_UserView!vars
<1>1. UserView!Stop(j)
  BY DEF UserView!Stop, UserView!Exists, JobsView, StoppedView, ForegroundView
<1> QED BY <1>1 DEF UserView!Next

LEMMA ViewContinues ==
  ASSUME NEW j \in Jid, JobsView' = JobsView, StoppedView' = StoppedView \ {j},
         ForegroundView' = ForegroundView
  PROVE  [UserView!Next]_UserView!vars
<1>1. CASE j \in StoppedView
  <2>1. UserView!Continue(j)
    BY <1>1 DEF UserView!Continue, JobsView, StoppedView, ForegroundView
  <2> QED BY <2>1 DEF UserView!Next
<1>2. CASE j \notin StoppedView
  <2>1. StoppedView' = StoppedView
    BY <1>2
  <2> QED BY <2>1, ViewStutters DEF UserStutters
<1> QED BY <1>1, <1>2

LEMMA ViewWaits ==
  ASSUME NEW j \in Jid, JobsView[j] # NULL, ForegroundView = 0, ForegroundView' = j,
         JobsView' = JobsView, StoppedView' = StoppedView
  PROVE  [UserView!Next]_UserView!vars
<1>1. UserView!Wait(j)
  BY DEF UserView!Wait, UserView!Exists, JobsView, StoppedView, ForegroundView
<1> QED BY <1>1 DEF UserView!Next

LEMMA ViewReturns ==
  ASSUME ForegroundView # 0, ForegroundView' = 0,
         ForegroundView \in StoppedView \/ JobsView[ForegroundView] = {},
         JobsView' = JobsView, StoppedView' = StoppedView
  PROVE  [UserView!Next]_UserView!vars
<1>1. UserView!Return
  BY DEF UserView!Return, JobsView, StoppedView, ForegroundView
<1> QED BY <1>1 DEF UserView!Next

LEMMA ViewDeletes ==
  ASSUME NEW j \in Jid, JobsView[j] # NULL, JobsView[j] = {}, ForegroundView # j,
         JobsView' = [JobsView EXCEPT ![j] = NULL], StoppedView' = StoppedView \ {j},
         ForegroundView' = ForegroundView
  PROVE  [UserView!Next]_UserView!vars
<1>1. UserView!Delete(j)
  BY DEF UserView!Delete, UserView!Exists, JobsView, StoppedView, ForegroundView
<1> QED BY <1>1 DEF UserView!Next

-----------------------------------------------------------------------------
(* Every step is one of Jobs.                                              *)

LEMMA ViewValues ==
  ASSUME TableInv, NEW j \in Jid
  PROVE  /\ Listed(j) <=> jid2job[j] # NULL
         /\ Listed(j) => JobsView[j] = Children(j) /\ JobsView[j] # NULL
         /\ ~ Listed(j) => JobsView[j] = NULL
<1>1. Listed(j) <=> jid2job[j] # NULL
  BY DEF TableInv, ListMatchesArray
<1>2. Listed(j) => Children(j) # NULL
  BY ListedChildren, NULLAssumption
<1> QED BY <1>1, <1>2 DEF JobsView

LEMMA SameJobs ==
  ASSUME \A k \in Jid : /\ jid2job'[k] = NULL <=> jid2job[k] = NULL
                        /\ jid2job[k] # NULL => Children(k)' = Children(k)
  PROVE  JobsView' = JobsView
BY DEF JobsView

LEMMA SameStopped ==
  ASSUME \A k \in Jid : /\ jid2job'[k] = NULL <=> jid2job[k] = NULL
                        /\ jid2job[k] # NULL => jid2job'[k].status = jid2job[k].status
  PROVE  StoppedView' = StoppedView
BY DEF StoppedView

LEMMA SameTable ==
  ASSUME TableInv, UNCHANGED table, \A p \in Pid : Unreaped(p)' <=> Unreaped(p)
  PROVE  JobsView' = JobsView /\ StoppedView' = StoppedView
<1>1. jid2job' = jid2job
  BY DEF table
<1>2. ASSUME NEW k \in Jid, jid2job[k] # NULL
      PROVE  Children(k)' = Children(k)
  <2>1. jid2job[k].pid \in SUBSET Pid
    BY <1>2 DEF TableInv, TypeOK, Job
  <2> QED BY <1>1, <2>1 DEF Children
<1> QED BY <1>1, <1>2, SameJobs, SameStopped

LEMMA TableStutters ==
  ASSUME TableInv, UNCHANGED table, \A p \in Pid : Unreaped(p)' <=> Unreaped(p),
         \/ UNCHANGED <<pc, cur>>
         \/ pc # "wait" /\ pc' # "wait"
  PROVE  [UserView!Next]_UserView!vars
<1>1. ForegroundView' = ForegroundView
  BY DEF ForegroundView
<1> QED BY <1>1, SameTable, ViewStutters DEF UserStutters

(* bg, fg and the end of the launch of a background job.                   *)
LEMMA RefinesStatus ==
  ASSUME TableInv, NEW j \in Jid, jid2job[j] # NULL,
         NEW st \in {"FOREGROUND", "BACKGROUND"},
         jid2job' = [jid2job EXCEPT ![j].status = st], job_list' = job_list,
         proc' = proc, pc # "wait", pc' # "wait"
  PROVE  [UserView!Next]_UserView!vars
<1>1. /\ \A k \in Jid \ {j} : jid2job'[k] = jid2job[k]
      /\ SameProcesses(j) /\ jid2job'[j] # NULL /\ jid2job'[j].status = st
  BY StatusEffect DEF Status
<1>2. JobsView' = JobsView
  BY <1>1, SameJobs DEF Children, Unreaped, SameProcesses
<1>3. StoppedView' = StoppedView \ {j}
  BY <1>1 DEF StoppedView
<1>4. ForegroundView' = ForegroundView
  BY DEF ForegroundView
<1> QED BY <1>2, <1>3, <1>4, ViewContinues

LEMMA RefinesReap ==
  ASSUME TableInv, OwnInv, NobodyKilled, ExactInv, Up, pc # "record",
         NEW p \in Pid, Waitable(p), handle_child_status(p), waitpid(p),
         UNCHANGED <<job_list, cur>>
  PROVE  [UserView!Next]_UserView!vars
<1>1. PICK j \in Jid : /\ OwnedBy(j, p)
                       /\ \A k \in Jid \ {j} : Listed(k) => p \notin jid2job[k].pid
  BY OwnerFound
<1>2. ForegroundView' = ForegroundView
  BY OwnerFound DEF ForegroundView
<1>3. /\ \A k \in Jid : Listed(k) => ReportEntered(k, p)
      /\ \A k \in Jid : jid2job'[k] = NULL <=> jid2job[k] = NULL
      /\ \A k \in Jid : Listed(k) <=> jid2job[k] # NULL
  BY ReapEffect, ViewValues
<1>4. Listed(j) /\ JobsView[j] = Children(j) /\ JobsView[j] # NULL /\ p \in Children(j)
  BY <1>1, ViewValues DEF OwnedBy, Children, Waitable, Unreaped
<1>5. \A k \in Jid \ {j} : Listed(k) => jid2job'[k] = jid2job[k]
  BY <1>1, <1>3 DEF ReportEntered
<1>6. \A k \in Jid : Listed(k) =>
        jid2job[k].pid \in SUBSET Pid /\ jid2job'[k].pid = jid2job[k].pid
  BY <1>3, ListedChildren DEF Job, ReportEntered, SameProcesses
<1>7. p \in jid2job[j].pid /\ ReportEntered(j, p)
  BY <1>1, <1>3 DEF OwnedBy
<1>8. CASE proc[p] = "stopped"
  <2>1. \A q \in Pid : Unreaped(q)' <=> Unreaped(q)
    BY <1>8, ReapKernel DEF TableInv, Unreaped
  <2>2. JobsView' = JobsView
    <3>1. \A k \in Jid : Listed(k) => Children(k)' = Children(k)
      BY <1>6, <2>1 DEF Children
    <3> QED BY <1>3, <3>1, SameJobs
  <2>3. jid2job'[j].status = "STOPPED"
    BY <1>7, <1>8 DEF ReportEntered, StatusAfter
  <2>4. StoppedView' = StoppedView \cup {j}
    BY <1>3, <1>4, <1>5, <2>3 DEF StoppedView
  <2> QED BY <1>2, <1>4, <2>2, <2>4, ViewStops
<1>9. CASE proc[p] # "stopped"
  <2>1. proc[p] = "exited" /\ proc'[p] = "free" /\ \A q \in Pid \ {p} : proc'[q] = proc[q]
    BY <1>9, ReapKernel DEF TableInv, NobodyKilled
  <2>2. Children(j)' = Children(j) \ {p}
    BY <1>4, <1>6, <2>1 DEF Children, Unreaped
  <2>3. \A k \in Jid \ {j} : Listed(k) => Children(k)' = Children(k)
    BY <1>1, <1>6, <2>1 DEF Children, Unreaped
  <2>4. JobsView' = [JobsView EXCEPT ![j] = @ \ {p}]
    BY <1>3, <1>4, <2>2, <2>3 DEF JobsView
  <2>5. \A k \in Jid : Listed(k) => jid2job'[k].status = jid2job[k].status
    BY <1>3, <2>1 DEF ReportEntered, StatusAfter
  <2>6. StoppedView' = StoppedView
    BY <1>3, <2>5, SameStopped
  <2> QED BY <1>2, <1>4, <2>4, <2>6, ViewEnds
<1> QED BY <1>8, <1>9

LEMMA RefinesCleanStep ==
  ASSUME TableInv, ExactInv, CleanStep
  PROVE  [UserView!Next]_UserView!vars
<1>1. pc = "clean" /\ pc' = "clean" /\ proc' = proc
  BY DEF CleanStep, At, kernel
<1>2. CASE UNCHANGED table
  BY <1>1, <1>2, TableStutters DEF Unreaped
<1>3. ASSUME NEW d \in Jid, Listed(d), jid2job[d].num_processes_alive = 0,
             jid2job'[d] = NULL,
             \A k \in Jid \ {d} : jid2job'[k] = jid2job[k]
      PROVE  [UserView!Next]_UserView!vars
  <2>1. Children(d) = {}
    <3>1. IsFiniteSet(Children(d)) /\ Cardinality(Children(d)) = 0
      BY <1>3, ListedChildren DEF ExactInv, AliveIsExact
    <3> QED BY <3>1, FS_EmptySet
  <2>2. JobsView[d] # NULL /\ JobsView[d] = {}
    BY <1>3, <2>1, ViewValues
  <2>3. \A k \in Jid \ {d} : Children(k)' = Children(k)
    BY <1>1, <1>3 DEF Children, Unreaped
  <2>4. JobsView' = [JobsView EXCEPT ![d] = NULL]
    BY <1>3, <2>3 DEF JobsView
  <2>5. StoppedView' = StoppedView \ {d}
    BY <1>3 DEF StoppedView
  <2>6. ForegroundView' = ForegroundView /\ ForegroundView # d
    BY <1>1, BoundAssumption DEF ForegroundView, Jid
  <2> QED BY <2>2, <2>4, <2>5, <2>6, ViewDeletes
<1> QED BY <1>2, <1>3, CleanEffect

LEMMA RefinesStart ==
  ASSUME TableInv, NEW n \in 1 .. MaxPipeline, NEW bg \in BOOLEAN,
         StartPipeline(n, bg)
  PROVE  [UserView!Next]_UserView!vars
<1>1. pc = "execute" /\ proc' = proc
  BY DEF StartPipeline, At, kernel
<1>2. CASE pc' = "crashed" /\ UNCHANGED table
  BY <1>1, <1>2, TableStutters DEF Unreaped
<1>3. ASSUME NEW j \in Jid, jid2job[j] = NULL, jid2job'[j] = NewJob(bg),
             NewJob(bg) \in Job, \A k \in Jid \ {j} : jid2job'[k] = jid2job[k],
             pc' # "wait"
      PROVE  [UserView!Next]_UserView!vars
  <2>1. Children(j)' = {} /\ jid2job'[j] # NULL /\ jid2job'[j].status # "STOPPED"
    BY <1>3, JobAssumption DEF NewJob, Children
  <2>2. \A k \in Jid \ {j} : Children(k)' = Children(k)
    BY <1>1, <1>3 DEF Children, Unreaped
  <2>3. JobsView' = [JobsView EXCEPT ![j] = {}]
    BY <1>3, <2>1, <2>2 DEF JobsView
  <2>4. StoppedView' = StoppedView
    BY <1>3, <2>1 DEF StoppedView
  <2>5. ForegroundView' = ForegroundView
    BY <1>1, <1>3 DEF ForegroundView
  <2> QED BY <1>3, <2>3, <2>4, <2>5, ViewCreates
<1>4. \/ pc' = "crashed" /\ UNCHANGED <<table, cur>>
      \/ /\ cur' \in Jid /\ jid2job[cur'] = NULL
         /\ jid2job'[cur'] = NewJob(bg) /\ NewJob(bg) \in Job
         /\ \A k \in Jid \ {cur'} : jid2job'[k] = jid2job[k]
         /\ pc' \in {"fork", "failed"}
  BY StartEffect
<1> QED BY <1>2, <1>3, <1>4

LEMMA RefinesFork ==
  ASSUME TableInv, NEW p \in Pid, Fork(p)
  PROVE  [UserView!Next]_UserView!vars
<1>1. /\ pc = "fork" /\ pc' = "record" /\ UNCHANGED table
      /\ proc' = [proc EXCEPT ![p] = "forked"]
  BY DEF Fork, At
<1>2. \A q \in Pid \ {p} : Unreaped(q)' <=> Unreaped(q)
  BY <1>1 DEF Unreaped, TableInv, TypeOK
<1>3. jid2job' = jid2job
  BY <1>1 DEF table
<1>4. ASSUME NEW k \in Jid, jid2job[k] # NULL
      PROVE  Children(k)' = Children(k)
  <2>1. Listed(k)
    BY <1>4, ViewValues
  <2>2. p \notin jid2job[k].pid /\ jid2job[k].pid \in SUBSET Pid
    BY <2>1, FreshUnowned, ListedChildren DEF Fork, OwnedBy, Job
  <2> QED BY <1>2, <1>3, <2>2 DEF Children
<1>5. ForegroundView' = ForegroundView
  BY <1>1 DEF ForegroundView
<1> QED BY <1>3, <1>4, <1>5, SameJobs, SameStopped, ViewStutters DEF UserStutters

LEMMA RefinesRecord ==
  ASSUME TableInv, OwnInv, AliveInv, ExactInv, Record
  PROVE  [UserView!Next]_UserView!vars
<1>1. /\ pc = "record" /\ pc' \in {"fork", "launched"}
      /\ child \in Pid /\ child # NULL
  BY NULLAssumption DEF Record, At, AliveInv, ChildUnreaped
<1>2. /\ cur \in Jid /\ Listed(cur) /\ jid2job'[cur] # NULL /\ cur' = cur
      /\ jid2job'[cur].status = jid2job[cur].status
      /\ \A k \in Jid \ {cur} : jid2job'[k] = jid2job[k]
  BY RecordEffect
<1>3. /\ Children(cur)' = Children(cur) \cup {child}
      /\ \A k \in Jid \ {cur} : Children(k)' = Children(k)
  BY ExactRecord
<1>4. JobsView[cur] = Children(cur) /\ JobsView[cur] # NULL /\ jid2job[cur] # NULL
  BY <1>2, ViewValues
<1>5. JobsView' = [JobsView EXCEPT ![cur] = @ \cup {child}]
  <2>1. PICK j \in Jid : j = cur
    BY <1>2
  <2>2. /\ jid2job'[j] # NULL /\ Children(j)' = JobsView[j] \cup {child}
        /\ \A k \in Jid \ {j} : jid2job'[k] = jid2job[k] /\ Children(k)' = Children(k)
    <3>1. Children(j)' = Children(cur)'
      BY <1>2, <2>1 DEF Children
    <3> QED BY <1>2, <1>3, <1>4, <2>1, <3>1
  <2>3. JobsView' = [JobsView EXCEPT ![j] = @ \cup {child}]
    BY <2>2 DEF JobsView
  <2> QED BY <2>1, <2>3
<1>6. StoppedView' = StoppedView
  BY <1>2, <1>4 DEF StoppedView
<1>7. \A k \in Jid : JobsView[k] # NULL => child \notin JobsView[k]
  <2> SUFFICES ASSUME NEW k \in Jid, JobsView[k] # NULL
               PROVE  child \notin JobsView[k]
    OBVIOUS
  <2>1. Listed(k) /\ JobsView[k] = Children(k)
    BY ViewValues
  <2> QED BY <1>1, <2>1 DEF OwnInv, ChildUnowned, OwnedBy, Children
<1>8. ForegroundView' = ForegroundView
  BY <1>1 DEF ForegroundView
<1> QED BY <1>1, <1>2, <1>4, <1>5, <1>6, <1>7, <1>8, ViewAdds

(* The terminal is given to a job, and the wait for it begins.             *)
LEMMA RefinesGive ==
  ASSUME TableInv, pc \in Held, pc # "wait", pc' \in {"wait", "failed"},
         UNCHANGED <<table, cur, proc>>
  PROVE  [UserView!Next]_UserView!vars
<1>1. cur \in Jid /\ Listed(cur)
  BY DEF TableInv, CurOK, CurrentJobListed, TypeOK
<1>2. CASE pc' = "failed"
  BY <1>2, TableStutters DEF Unreaped
<1>3. CASE pc' = "wait"
  <2>1. JobsView' = JobsView /\ StoppedView' = StoppedView
    BY SameTable DEF Unreaped
  <2>2. ForegroundView = 0 /\ ForegroundView' = cur
    BY <1>3 DEF ForegroundView
  <2>3. JobsView[cur] # NULL
    BY <1>1, ViewValues
  <2> QED BY <1>1, <2>1, <2>2, <2>3, ViewWaits
<1> QED BY <1>2, <1>3

(* wait_for_job returns when the job has ended or is stopped.              *)
LEMMA RefinesWaitDone ==
  ASSUME TableInv, ExactInv, ForegroundStatus, WaitDone
  PROVE  [UserView!Next]_UserView!vars
<1>1. /\ pc = "wait" /\ pc' = "back" /\ UNCHANGED <<table, cur, proc>>
      /\ ~ MustWait
  BY DEF WaitDone, At, kernel
<1>2. cur \in Jid /\ Listed(cur) /\ cur # 0 /\ jid2job[cur] # NULL
  BY <1>1 DEF TableInv, CurOK, Held, CurrentJobListed, TypeOK
<1>3. JobsView' = JobsView /\ StoppedView' = StoppedView
  BY <1>1, SameTable DEF Unreaped
<1>4. ForegroundView = cur /\ ForegroundView' = 0
  BY <1>1 DEF ForegroundView
<1>5. cur \in StoppedView \/ JobsView[cur] = {}
  <2>1. CASE jid2job[cur].status # "FOREGROUND"
    <3>1. jid2job[cur].status # "BACKGROUND"
      BY <1>1 DEF ForegroundStatus, Foreseen
    <3>2. jid2job[cur].status \in Status
      BY <1>2, ListedChildren DEF Job
    <3> QED BY <1>2, <2>1, <3>1, <3>2 DEF Status, StoppedView
  <2>2. CASE ~ (jid2job[cur].num_processes_alive > 0)
    <3>1. IsFiniteSet(Children(cur)) /\ Cardinality(Children(cur)) = 0
      BY <1>2, <2>2, ListedChildren DEF ExactInv, AliveIsExact
    <3>2. Children(cur) = {}
      BY <3>1, FS_EmptySet
    <3> QED BY <1>2, <3>2, ViewValues
  <2> QED BY <1>1, <2>1, <2>2 DEF MustWait
<1> QED BY <1>2, <1>3, <1>4, <1>5, ViewReturns

(* waitpid does not fail: the job counts processes, and it has them.       *)
LEMMA NoWaitFails ==
  ASSUME TableInv, ExactInv
  PROVE  ~ WaitFails
<1> SUFFICES ASSUME WaitFails
             PROVE  FALSE
  OBVIOUS
<1>1. pc = "wait" /\ MustWait /\ ~ \E p \in Pid : Unreaped(p)
  BY DEF WaitFails, At
<1>2. cur \in Jid /\ Listed(cur)
  BY <1>1 DEF TableInv, CurOK, Held, CurrentJobListed, TypeOK
<1>3. Children(cur) = {}
  BY <1>1, <1>2, ListedChildren DEF Children
<1>4. Cardinality(Children(cur)) > 0
  BY <1>1, <1>2 DEF MustWait, ExactInv, AliveIsExact
<1> QED BY <1>3, <1>4, FS_EmptySet

LEMMA RefinesMain ==
  ASSUME "exhaust" \notin Outside, CalmInv, MainStep
  PROVE  [UserView!Next]_UserView!vars
<1> USE DEF CalmInv, BaseInv
<1>0. pc \in Held => cur \in Jid /\ jid2job[cur] # NULL
  BY DEF TableInv, CurOK, CurrentJobListed, TypeOK
<1>1. CASE CleanStep
  BY <1>1, RefinesCleanStep
<1>2. CASE CleanDone \/ Back
  BY <1>2, TableStutters DEF CleanDone, Back, At, kernel, Unreaped, TableInv, TypeOK
<1>3. CASE Record
  BY <1>3, RefinesRecord
<1>4. CASE LaunchBackground \/ BgSet
  BY <1>0, <1>4, RefinesStatus DEF LaunchBackground, BgSet, At, Held, kernel
<1>5. CASE LaunchForeground \/ FgGive
  BY <1>5, RefinesGive
  DEF LaunchForeground, FgGive, At, Held, table, termstate_give_terminal_to
<1>6. ASSUME NEW p \in Pid, Fork(p)
      PROVE  [UserView!Next]_UserView!vars
  BY <1>6, RefinesFork
<1>7. ~ ForkFails /\ ~ WaitFails
  BY NoWaitFails DEF ForkFails
<1>8. ASSUME NEW p \in Pid, WaitReap(p)
      PROVE  [UserView!Next]_UserView!vars
  BY <1>8, RefinesReap DEF WaitReap, At, Up, Ended
<1>9. CASE WaitDone
  BY <1>9, RefinesWaitDone
<1>10. CASE FgCont
  <2>1. \A p \in Pid : Unreaped(p)' <=> Unreaped(p)
    BY <1>10, ContReapsNone DEF FgCont, TableInv, Unreaped
  <2> QED BY <1>10, <2>1, TableStutters DEF FgCont, At
<1> QED BY <1>1, <1>2, <1>3, <1>4, <1>5, <1>6, <1>7, <1>8, <1>9, <1>10 DEF MainStep

LEMMA RefinesUser ==
  ASSUME CalmInv, UserStep
  PROVE  [UserView!Next]_UserView!vars
<1> USE DEF CalmInv, BaseInv
<1>1. CASE ReadLine \/ EndOfLine \/ Inform \/ Exit
  BY <1>1, TableStutters DEF ReadLine, EndOfLine, Inform, Exit, At, kernel, Unreaped
<1>2. ASSUME NEW n \in 1 .. MaxPipeline, NEW bg \in BOOLEAN, StartPipeline(n, bg)
      PROVE  [UserView!Next]_UserView!vars
  BY <1>2, RefinesStart
<1>3. ASSUME NEW j \in Jid \cup {0}, Kill(j) \/ Stop(j)
      PROVE  [UserView!Next]_UserView!vars
  BY <1>3, TableStutters DEF Kill, Stop, At, Unreaped
<1>4. ASSUME NEW j \in Jid \cup {0}, Bg(j)
      PROVE  [UserView!Next]_UserView!vars
  <2>1. \A p \in Pid : Unreaped(p)' <=> Unreaped(p)
    BY <1>4, ContReapsNone DEF Bg, TableInv, Unreaped
  <2> QED BY <1>4, <2>1, TableStutters DEF Bg, At
<1>5. ASSUME NEW j \in Jid \cup {0}, Fg(j)
      PROVE  [UserView!Next]_UserView!vars
  <2>1. CASE get_job_from_jid(j) = 0
    BY <1>5, <2>1, TableStutters DEF Fg, At, table, kernel, Unreaped
  <2>2. CASE get_job_from_jid(j) # 0
    <3>1. j \in Jid /\ jid2job[j] # NULL
      BY <2>2 DEF get_job_from_jid
    <3> QED BY <1>5, <2>2, <3>1, RefinesStatus DEF Fg, At, kernel
  <2> QED BY <2>1, <2>2
<1> QED BY <1>1, <1>2, <1>3, <1>4, <1>5 DEF UserStep

LEMMA RefinesHandler ==
  ASSUME CalmInv, sigchld_handler
  PROVE  [UserView!Next]_UserView!vars
<1> USE DEF CalmInv, BaseInv
<1>1. CASE HandlerEnter \/ HandlerReturn
  BY <1>1, TableStutters DEF HandlerEnter, HandlerReturn, control, kernel, Unreaped
<1>2. ASSUME NEW p \in Pid, HandlerReap(p)
      PROVE  [UserView!Next]_UserView!vars
  <2>1. pc # "record"
    BY <1>2 DEF HandlerReap, MaskInv, SigchldMask
  <2> QED BY <1>2, <2>1, RefinesReap DEF HandlerReap
<1> QED BY <1>1, <1>2 DEF sigchld_handler

LEMMA RefinesNext ==
  ASSUME "exhaust" \notin Outside, CalmInv, [Next]_vars
  PROVE  [UserView!Next]_UserView!vars
<1>1. CASE UNCHANGED vars
  BY <1>1, TableStutters DEF vars, control, kernel, Unreaped, CalmInv, BaseInv
<1>2. CASE Terminated
  BY <1>1, <1>2 DEF Terminated
<1>3. ASSUME NEW p \in Pid, ProcessStep(p)
      PROVE  [UserView!Next]_UserView!vars
  BY <1>3, ExactProcess, TableStutters DEF CalmInv, BaseInv, control
<1> QED BY <1>1, <1>2, <1>3, RefinesMain, RefinesUser, RefinesHandler DEF Next

LEMMA RefinesInit == Init => UserView!Init
BY DEF Init, UserView!Init

(* Job control keeps the promises of Jobs: among others, the shell comes   *)
(* back from a foreground job only when it has ended or is stopped, and    *)
(* deletes no job with a process left.                                     *)
THEOREM JobsImplemented ==
  ASSUME Calm
  PROVE  Spec => ImplementsJobs
<1>1. "exhaust" \notin Outside
  BY DEF Calm
<1>2. CalmInv /\ [Next]_vars => [UserView!Next]_UserView!vars
  BY <1>1, RefinesNext
<1> QED BY <1>2, RefinesInit, CalmInvariant, PTL DEF Spec, ImplementsJobs, UserView!Spec
=============================================================================
