-------------------------- MODULE JobControlProofs --------------------------
(***************************************************************************)
(* Theorems about JobControl, for every set of clients, of lines and of    *)
(* CTL messages and every bound.                                           *)
(***************************************************************************)
EXTENDS JobControl, FiniteSetTheorems, TLAPS

-----------------------------------------------------------------------------
(* The job table.                                                          *)

LEMMA AddTyped ==
    ASSUME NEW list \in Seq(Job), NEW pid \in Nat
    PROVE  add_to_joblist(list, pid) \in Seq(Job)
BY DEF add_to_joblist, Job, JobStatus

\* Marking an entry keeps the entries, their pids and their numbers.
LEMMA MarkKeeps ==
    ASSUME NEW list \in Seq(Job), NEW pid, NEW stat \in JobStatus
    PROVE  /\ update_jobstatus(list, pid, stat) \in Seq(Job)
           /\ Len(update_jobstatus(list, pid, stat)) = Len(list)
           /\ \A i \in DOMAIN list :
                 /\ update_jobstatus(list, pid, stat)[i].pgid = list[i].pgid
                 /\ update_jobstatus(list, pid, stat)[i].index = list[i].index
           /\ ListedPids(update_jobstatus(list, pid, stat)) = ListedPids(list)
<1>1. CASE EntriesOf(list, pid) = {}
  BY <1>1 DEF update_jobstatus
<1>2. CASE EntriesOf(list, pid) # {}
  <2> DEFINE e == FirstOf(EntriesOf(list, pid))
             marked == [list EXCEPT ![e].status = stat]
  <2>1. update_jobstatus(list, pid, stat) = marked
    BY <1>2 DEF update_jobstatus
  <2> HIDE DEF e
  <2>2. DOMAIN marked = DOMAIN list
    OBVIOUS
  <2>3. ASSUME NEW i \in DOMAIN list
        PROVE  /\ marked[i] \in Job
               /\ marked[i].pgid = list[i].pgid
               /\ marked[i].index = list[i].index
    <3>1. list[i] \in Job
      OBVIOUS
    <3>2. marked[i] = IF i = e THEN [list[i] EXCEPT !.status = stat] ELSE list[i]
      OBVIOUS
    <3> HIDE DEF marked
    <3> QED
      BY <3>1, <3>2 DEF Job
  <2> HIDE DEF marked
  <2>4. marked \in Seq(Job) /\ Len(marked) = Len(list)
    <3>1. Len(list) \in Nat /\ DOMAIN marked = 1 .. Len(list)
      BY <2>2
    <3>2. marked = [i \in 1 .. Len(list) |-> marked[i]]
      BY <3>1 DEF marked
    <3> QED
      BY <2>2, <2>3, <3>1, <3>2
  <2>5. ListedPids(marked) = ListedPids(list)
    BY <2>2, <2>3 DEF ListedPids
  <2> QED
    BY <2>1, <2>3, <2>4, <2>5
<1> QED
  BY <1>1, <1>2

\* Dropping an entry moves the later ones down by one.  (Which entry does not
\* matter here, so that nothing is needed about the choice in FirstOf.)
LEMMA DropKeeps ==
    ASSUME NEW list \in Seq(Job), list # <<>>, NEW e
    PROVE  /\ DropEntry(list, e) \in Seq(Job)
           /\ Len(DropEntry(list, e)) = Len(list) - 1
           /\ \A i \in DOMAIN DropEntry(list, e) :
                 \E j \in DOMAIN list : j >= i /\ DropEntry(list, e)[i] = list[j]
<1> DEFINE n == Len(list) - 1
           left == [k \in 1 .. n |-> IF k < e THEN list[k] ELSE list[k + 1]]
<1>1. n \in Nat /\ n + 1 = Len(list) /\ DOMAIN list = 1 .. n + 1
  OBVIOUS
<1>2. \A k \in 1 .. n : k \in DOMAIN list /\ k + 1 \in DOMAIN list
  BY <1>1
<1> HIDE DEF n
<1>3. \A k \in 1 .. n : left[k] \in Job
  BY <1>2
<1>4. left \in Seq(Job) /\ Len(left) = n
  BY <1>1, <1>3
<1>5. ASSUME NEW i \in 1 .. n
      PROVE  \E j \in DOMAIN list : j >= i /\ left[i] = list[j]
  <2>1. CASE i < e
    BY <2>1, <1>2
  <2>2. CASE ~(i < e)
    <3>1. i + 1 \in DOMAIN list /\ left[i] = list[i + 1] /\ i + 1 >= i
      BY <2>2, <1>1, <1>2
    <3> QED
      BY <3>1
  <2> QED
    BY <2>1, <2>2
<1> QED
  BY <1>4, <1>5 DEF DropEntry, n

\* What update_job_list leaves was in the list, at the same place or further up.
LEMMA CompactKeeps ==
    ASSUME NEW list \in Seq(Job)
    PROVE  /\ update_job_list(list) \in Seq(Job)
           /\ \A i \in DOMAIN update_job_list(list) :
                 \E j \in DOMAIN list : j >= i /\ update_job_list(list)[i] = list[j]
           /\ ListedPids(update_job_list(list)) \subseteq ListedPids(list)
<1>1. CASE DoneEntries(list) = {}
  BY <1>1 DEF update_job_list
<1>2. CASE DoneEntries(list) # {}
  <2> DEFINE e == FirstOf(DoneEntries(list))
  <2>1. list # <<>>
    BY <1>2 DEF DoneEntries
  <2>2. update_job_list(list) = DropEntry(list, e)
    BY <1>2 DEF update_job_list
  <2> QED
    BY <2>1, <2>2, DropKeeps DEF ListedPids
<1> QED
  BY <1>1, <1>2

-----------------------------------------------------------------------------
(* The children.                                                           *)

LEMMA ForkTyped ==
    ASSUME KernelTypeOK, NEW p \in Pid, NEW g \in 0 .. MaxPid,
           NEW s \in {"running", "signaled"}, Fork(p, g, s)
    PROVE  /\ KernelTypeOK'
           /\ p \notin Unreaped /\ Unreaped' = Unreaped \cup {p}
           /\ Unborn' = Unborn \ {p}
BY DEF KernelTypeOK, Fork, ProcState, Alive, Halted, Zombie, Unreaped, Unborn

LEMMA ContinueTyped ==
    ASSUME KernelTypeOK, NEW S, Continue(S)
    PROVE  KernelTypeOK' /\ Unreaped' = Unreaped /\ Unborn' = Unborn
<1>1. \A p \in Pid : pstate[p] \in ProcState /\ pevent[p] \in Event
  BY DEF KernelTypeOK
<1>2. pstate' \in [Pid -> ProcState] /\ pevent' \in [Pid -> Event]
  BY <1>1 DEF Continue, ProcState, Alive, Halted, Event
<1>3. \A p \in Pid : /\ pstate[p] = "unborn" <=> pstate'[p] = "unborn"
                     /\ pstate[p] = "reaped" <=> pstate'[p] = "reaped"
  BY <1>1 DEF Continue, Halted
<1> QED
  BY <1>2, <1>3 DEF KernelTypeOK, Continue, Unreaped, Unborn

LEMMA DeliverTyped ==
    ASSUME KernelTypeOK, NEW S, NEW sig, Deliver(S, sig)
    PROVE  KernelTypeOK' /\ Unreaped' = Unreaped /\ Unborn' = Unborn
<1>1. \A p \in Pid : pstate[p] \in ProcState /\ pevent[p] \in Event
  BY DEF KernelTypeOK
<1>2. pstate' \in [Pid -> ProcState] /\ pevent' \in [Pid -> Event]
  BY <1>1 DEF Deliver, Suspend, Interrupt, ProcState, Alive, Halted, Event, Zombie
<1>3. \A p \in Pid : /\ pstate[p] = "unborn" <=> pstate'[p] = "unborn"
                     /\ pstate[p] = "reaped" <=> pstate'[p] = "reaped"
  BY <1>1 DEF Deliver, Suspend, Interrupt
<1> QED
  BY <1>2, <1>3 DEF KernelTypeOK, Deliver, Suspend, Interrupt, Unreaped, Unborn

LEMMA CollectTyped ==
    ASSUME KernelTypeOK, NEW p \in Pid, Collect(p)
    PROVE  /\ KernelTypeOK'
           /\ Unreaped \ {p} \subseteq Unreaped'
           /\ Unborn' = Unborn
<1>1. pstate' \in [Pid -> ProcState] /\ pevent' \in [Pid -> Event]
  BY DEF KernelTypeOK, Collect, ProcState, Alive, Halted, Event, Zombie
<1> QED
  BY <1>1 DEF KernelTypeOK, Collect, Unreaped, Unborn, Zombie

LEMMA ProcStepTyped ==
    ASSUME KernelTypeOK, NEW p \in Pid, ProcStep(p)
    PROVE  KernelTypeOK' /\ Unreaped' = Unreaped /\ Unborn' = Unborn
<1>1. KernelTypeOK'
  BY DEF KernelTypeOK, ProcStep, ProcExit, ProcKilled, ProcStopped, ProcState, Alive, Halted, Event, Zombie
<1>2. Unreaped' = Unreaped /\ Unborn' = Unborn
  BY DEF KernelTypeOK, ProcStep, ProcExit, ProcKilled, ProcStopped, Halted, Unreaped, Unborn
<1> QED
  BY <1>1, <1>2

LEMMA ReportTyped ==
    ASSUME KernelTypeOK, NEW p \in Pid
    PROVE  Report(p) \in Zombie \cup Event
BY DEF KernelTypeOK, Report, Zombie, Event

-----------------------------------------------------------------------------
(* Type correctness.                                                       *)

\* A job is appended to the list of its client, or is lost in front of it.
LEMMA AddJobTyped ==
    ASSUME TypeOK, NEW c \in Clients, NEW pid \in Nat, AddJob(c, pid)
    PROVE  /\ jobs' \in [Clients -> Seq(Job)] /\ below' \in [Clients -> Int]
           /\ daemon' \in {daemon, "faulted"}
           /\ \/ jobs' = jobs
              \/ jobs' = [jobs EXCEPT ![c] = add_to_joblist(jobs[c], pid)]
           /\ ListedPids(jobs'[c]) \subseteq ListedPids(jobs[c]) \cup {pid}
<1>0. /\ jobs \in [Clients -> Seq(Job)] /\ below \in [Clients -> Int]
      /\ daemon \in {"up", "exited", "faulted"}
  BY DEF TypeOK
<1>1. CASE below[c] < 0
  BY <1>0, <1>1 DEF AddJob
<1>2. CASE ~(below[c] < 0)
  <2>1. add_to_joblist(jobs[c], pid) \in Seq(Job)
    BY <1>0, AddTyped
  <2>2. ListedPids(add_to_joblist(jobs[c], pid)) \subseteq ListedPids(jobs[c]) \cup {pid}
    BY <1>0 DEF add_to_joblist, ListedPids
  <2> QED
    BY <1>0, <1>2, <2>1, <2>2 DEF AddJob
<1> QED
  BY <1>1, <1>2

LEMMA InitTyped == Init => TypeOK
<1> SUFFICES ASSUME Init PROVE TypeOK
  OBVIOUS
<1>1. KernelTypeOK
  BY KernelAssumption DEF Init, KernelInit, KernelTypeOK, ProcState, Alive, Halted, Event
<1>2. jobs \in [Clients -> Seq(Job)] /\ below \in [Clients -> Int]
  <2>1. PICK n \in InitialCounts : /\ jobs = [c \in Clients |-> [i \in 1 .. n |-> Unwritten]]
                                  /\ below = [c \in Clients |-> IF n < 0 THEN n ELSE 0]
    BY DEF Init
  <2>2. n \in Int
    BY JobControlAssumption
  <2>3. Unwritten \in Job
    BY DEF Unwritten, Job, JobStatus
  <2>4. [i \in 1 .. n |-> Unwritten] \in Seq(Job)
    <3>1. CASE n \in Nat
      BY <2>3, <3>1
    <3>2. CASE n < 0
      <4>1. 1 .. n = 1 .. 0
        BY <2>2, <3>2
      <4>2. [i \in 1 .. 0 |-> Unwritten] \in Seq(Job)
        BY <2>3
      <4>3. [i \in 1 .. n |-> Unwritten] = [i \in 1 .. 0 |-> Unwritten]
        BY <4>1
      <4> QED
        BY <4>2, <4>3
    <3> QED
      BY <2>2, <3>1, <3>2
  <2> QED
    BY <2>1, <2>2, <2>4
<1>3. cmd \in [Clients -> Command]
  BY DEF Init, NoCmd, Command
<1>4. got \in [Clients -> 0 .. MaxPid] /\ waited \in [Clients -> Nat]
  BY KernelAssumption DEF Init
<1>5. pc \in [Clients -> PC]
  BY DEF Init, PC
<1>6. /\ wait_cnt \in Nat /\ chid1 \in 0 .. MaxPid /\ latest_pgrp \in 0 .. MaxPid
      /\ wpid \in 0 .. MaxPid
  BY KernelAssumption DEF Init
<1>7. daemon \in {"up", "exited", "faulted"} /\ status \in Zombie \cup Event
  BY DEF Init, Zombie, Event
<1>8. handlers \in BOOLEAN
  BY DEF Init
<1> QED
  BY <1>1, <1>2, <1>3, <1>4, <1>5, <1>6, <1>7, <1>8 DEF TypeOK

LEMMA NextTyped == TypeOK /\ [Next]_vars => TypeOK'
<1> SUFFICES ASSUME TypeOK, [Next]_vars PROVE TypeOK'
  OBVIOUS
<1> USE DEF TypeOK, Goto
<1>1. ASSUME NEW c \in Clients, NEW k \in Cmds, Recv(c, k)
      PROVE  TypeOK'
  <2>1. k \in Command
    BY JobControlAssumption
  <2>2. pc' \in [Clients -> PC]
    BY <1>1 DEF Recv, PC
  <2>3. /\ cmd' \in [Clients -> Command] /\ waited' \in [Clients -> Nat]
        /\ wait_cnt' \in Nat /\ daemon' \in {"up", "exited", "faulted"}
    BY <1>1, <2>1 DEF Recv
  <2> QED
    BY <1>1, <2>2, <2>3 DEF Recv, KernelTypeOK, kernelVars
<1>2. ASSUME NEW c \in Clients, bg_cmd_process(c)
      PROVE  TypeOK'
  <2>1. pc' \in [Clients -> PC]
    BY <1>2 DEF bg_cmd_process, PC
  <2>2. KernelTypeOK' /\ jobs' \in [Clients -> Seq(Job)]
    <3>1. CASE Len(jobs[c]) = 0
      BY <1>2, <3>1 DEF bg_cmd_process, KernelTypeOK, kernelVars
    <3>2. CASE Len(jobs[c]) # 0
      <4> DEFINE pid == Current(c).pgid
      <4>1. update_jobstatus(jobs[c], pid, "Running") \in Seq(Job)
        BY MarkKeeps DEF JobStatus
      <4> QED
        BY <1>2, <3>2, <4>1, ContinueTyped DEF bg_cmd_process
    <3> QED
      BY <3>1, <3>2
  <2> QED
    BY <1>2, <2>1, <2>2 DEF bg_cmd_process, globalVars
<1>3. ASSUME NEW c \in Clients, fg_cmd_process(c)
      PROVE  TypeOK'
  <2>1. pc' \in [Clients -> PC]
    BY <1>3 DEF fg_cmd_process, PC
  <2>2. KernelTypeOK'
    BY <1>3, ContinueTyped DEF fg_cmd_process, KernelTypeOK, kernelVars
  <2> QED
    BY <1>3, <2>1, <2>2 DEF fg_cmd_process, globalVars
<1>4. ASSUME NEW c \in Clients, fg_wait(c)
      PROVE  TypeOK'
  <2>1. pc' \in [Clients -> PC]
    BY <1>4 DEF fg_wait, PC
  <2>2. \A s : FgStatus(jobs[c], Current(c).pgid, s) \in Seq(Job)
    BY MarkKeeps DEF FgStatus, JobStatus
  <2>3. jobs' \in [Clients -> Seq(Job)]
    <3>1. PICK s : jobs' = [jobs EXCEPT ![c] = FgStatus(jobs[c], Current(c).pgid, s)]
      BY <1>4 DEF fg_wait
    <3> QED
      BY <3>1, <2>2
  <2>4. KernelTypeOK'
    BY <1>4, CollectTyped DEF fg_wait, Members, Unreaped, KernelTypeOK, kernelVars
  <2> QED
    BY <1>4, <2>1, <2>3, <2>4 DEF fg_wait, globalVars
<1>5. ASSUME NEW c \in Clients, ForkFirst(c)
      PROVE  TypeOK'
  <2>1. pc' \in [Clients -> PC]
    BY <1>5 DEF ForkFirst, PC
  <2>2. PICK p \in Pid : /\ Fork(p, p, IF cmd[c].head = "bg" THEN "signaled" ELSE "running")
                         /\ chid1' = p
    BY <1>5 DEF ForkFirst, Unborn
  <2>3. p \in 0 .. MaxPid
    BY KernelAssumption DEF Pid
  <2>4. KernelTypeOK'
    BY <2>2, <2>3, ForkTyped
  <2> QED
    BY <1>5, <2>1, <2>2, <2>3, <2>4 DEF ForkFirst
<1>6. ASSUME NEW c \in Clients, ForkSecond(c)
      PROVE  TypeOK'
  <2>1. pc' \in [Clients -> PC]
    BY <1>6 DEF ForkSecond, PC
  <2>2. KernelTypeOK' /\ wait_cnt' \in Nat
    <3>1. CASE cmd[c].pipe
      <4>0. PICK p \in Pid : \E g \in JoinedGroups(p) : Fork(p, g, "running")
        BY <1>6, <3>1 DEF ForkSecond, Unborn
      <4>1. PICK g \in JoinedGroups(p) : Fork(p, g, "running")
        BY <4>0
      <4>2. g \in 0 .. MaxPid
        BY KernelAssumption DEF JoinedGroups, Pid
      <4>3. KernelTypeOK'
        BY <4>1, <4>2, ForkTyped
      <4> QED
        BY <1>6, <3>1, <4>3 DEF ForkSecond
    <3>2. CASE ~cmd[c].pipe
      BY <1>6, <3>2 DEF ForkSecond, KernelTypeOK, kernelVars
    <3> QED
      BY <3>1, <3>2
  <2> QED
    BY <1>6, <2>1, <2>2 DEF ForkSecond
<1>7. ASSUME NEW c \in Clients, Started(c)
      PROVE  TypeOK'
  <2>1. pc' \in [Clients -> PC]
    BY <1>7 DEF Started, PC
  <2> QED
    BY <1>7, <2>1 DEF Started, KernelTypeOK, kernelVars
<1>19. ASSUME NEW c \in Clients, Latest(c)
       PROVE  TypeOK'
  <2>1. pc' \in [Clients -> PC]
    BY <1>19 DEF Latest, PC
  <2> QED
    BY <1>19, <2>1 DEF Latest, KernelTypeOK, kernelVars
<1>8. ASSUME NEW c \in Clients, BackgroundAdd(c)
      PROVE  TypeOK'
  <2>1. pc' \in [Clients -> PC]
    BY <1>8 DEF BackgroundAdd, PC
  <2>2. chid1 \in Nat
    BY KernelAssumption
  <2>3. /\ jobs' \in [Clients -> Seq(Job)] /\ below' \in [Clients -> Int]
        /\ daemon' \in {"up", "exited", "faulted"}
    <3> HIDE DEF TypeOK
    <3>1. AddJob(c, chid1)
      BY <1>8 DEF BackgroundAdd
    <3>2. daemon \in {"up", "exited", "faulted"}
      BY DEF TypeOK
    <3> QED
      BY <2>2, <3>1, <3>2, AddJobTyped
  <2> QED
    BY <1>8, <2>1, <2>3 DEF BackgroundAdd, KernelTypeOK, kernelVars, globalVars
<1>9. ASSUME NEW c \in Clients, BackgroundContinue(c)
      PROVE  TypeOK'
  <2>1. pc' \in [Clients -> PC]
    BY <1>9 DEF BackgroundContinue, PC
  <2>2. jobs' \in [Clients -> Seq(Job)]
    BY <1>9, MarkKeeps DEF BackgroundContinue, JobStatus
  <2>3. KernelTypeOK'
    BY <1>9, ContinueTyped DEF BackgroundContinue
  <2> QED
    BY <1>9, <2>1, <2>2, <2>3 DEF BackgroundContinue, globalVars
<1>10. ASSUME NEW c \in Clients, WaitChild(c)
       PROVE  TypeOK'
  <2>1. pc' \in [Clients -> PC]
    BY <1>10 DEF WaitChild, Reported, PC
  <2>2. PICK p \in Pid : /\ Collect(p) /\ status' = Report(p)
                         /\ got' = [got EXCEPT ![c] = p]
    BY <1>10 DEF WaitChild, Reported, Unreaped
  <2>3. got' \in [Clients -> 0 .. MaxPid]
    BY <2>2, KernelAssumption DEF Pid
  <2>4. KernelTypeOK' /\ status' \in Zombie \cup Event
    BY <2>2, CollectTyped, ReportTyped
  <2> QED
    BY <1>10, <2>1, <2>3, <2>4 DEF WaitChild, Reported
<1>11. ASSUME NEW c \in Clients, StoreWpid(c)
       PROVE  TypeOK'
  <2>1. pc' \in [Clients -> PC]
    BY <1>11 DEF StoreWpid, PC
  <2>2. wpid' \in 0 .. MaxPid /\ got' \in [Clients -> 0 .. MaxPid]
    BY <1>11, KernelAssumption DEF StoreWpid
  <2> QED
    BY <1>11, <2>1, <2>2 DEF StoreWpid, KernelTypeOK, kernelVars
<1>12. ASSUME NEW c \in Clients, WaitFails(c)
       PROVE  TypeOK'
  BY <1>12 DEF WaitFails, KernelTypeOK, kernelVars, threadVars, globalVars
<1>13. ASSUME NEW c \in Clients, process_wait_status(c)
       PROVE  TypeOK'
  <2>1. pc' \in [Clients -> PC]
    BY <1>13 DEF process_wait_status, PC
  <2>2. waited' \in [Clients -> Nat]
    BY <1>13 DEF process_wait_status
  <2>3. /\ KernelTypeOK' /\ jobs' \in [Clients -> Seq(Job)] /\ wait_cnt' \in Nat
        /\ below' \in [Clients -> Int] /\ daemon' \in {"up", "exited", "faulted"}
    <3>1. CASE Exited(c)
      <4> DEFINE marked == update_jobstatus(jobs[c], wpid, "Done")
      <4>1. marked \in Seq(Job)
        BY MarkKeeps DEF JobStatus
      <4> HIDE DEF marked
      <4>2. update_job_list(marked) \in Seq(Job)
        BY <4>1, CompactKeeps
      <4> QED
        BY <3>1, <4>2 DEF Exited, KernelTypeOK, kernelVars, marked
    <3>2. CASE Stopped(c)
      <4>1. wpid \in Nat
        BY KernelAssumption
      <4>2. /\ jobs' \in [Clients -> Seq(Job)] /\ below' \in [Clients -> Int]
            /\ daemon' \in {"up", "exited", "faulted"}
        <5> HIDE DEF TypeOK
        <5>1. AddJob(c, wpid)
          BY <3>2 DEF Stopped
        <5>2. daemon \in {"up", "exited", "faulted"}
          BY DEF TypeOK
        <5> QED
          BY <4>1, <5>1, <5>2, AddJobTyped
      <4>3. KernelTypeOK'
        BY <3>2 DEF Stopped, KernelTypeOK, kernelVars
      <4> QED
        BY <3>2, <4>2, <4>3 DEF Stopped
    <3>3. CASE Continued(c)
      <4>1. update_jobstatus(jobs[c], wpid, "Running") \in Seq(Job)
        BY MarkKeeps DEF JobStatus
      <4>2. KernelTypeOK'
        BY <3>3, ContinueTyped DEF Continued
      <4> QED
        BY <3>3, <4>1, <4>2 DEF Continued
    <3>4. CASE UNCHANGED <<kernelVars, daemon, jobs, below, wait_cnt>>
      BY <3>4 DEF KernelTypeOK, kernelVars
    <3> QED
      BY <1>13, <3>1, <3>2, <3>3, <3>4 DEF process_wait_status
  <2> QED
    BY <1>13, <2>1, <2>2, <2>3 DEF process_wait_status
<1>14. ASSUME NEW c \in Clients, Prompt(c)
       PROVE  TypeOK'
  <2>1. pc' \in [Clients -> PC]
    BY <1>14 DEF Prompt, PC
  <2>2. cmd' \in [Clients -> Command] /\ waited' \in [Clients -> Nat]
    BY <1>14 DEF Prompt, NoCmd, Command
  <2> QED
    BY <1>14, <2>1, <2>2 DEF Prompt, KernelTypeOK, kernelVars, globalVars
<1>15. ASSUME NEW c \in Clients, NEW sig \in Ctls, Ctl(c, sig)
       PROVE  TypeOK'
  <2>1. pc' \in [Clients -> PC]
    BY <1>15 DEF Ctl, PC
  <2>2. KernelTypeOK'
    BY <1>15, DeliverTyped DEF Ctl, KernelTypeOK, kernelVars
  <2>3. daemon' \in {"up", "exited", "faulted"}
    BY <1>15 DEF Ctl, SelfSignalled
  <2> QED
    BY <1>15, <2>1, <2>2, <2>3 DEF Ctl, globalVars
<1>16. ASSUME NEW c \in Clients, Disconnect(c)
       PROVE  TypeOK'
  <2>1. pc' \in [Clients -> PC]
    BY <1>16 DEF Disconnect, PC
  <2> QED
    BY <1>16, <2>1 DEF Disconnect, KernelTypeOK, kernelVars, globalVars
<1>17. ASSUME ChildStep
       PROVE  TypeOK'
  BY <1>17, ProcStepTyped DEF ChildStep, threadVars, globalVars
<1>18. CASE UNCHANGED vars
  BY <1>18 DEF vars, KernelTypeOK, kernelVars, threadVars, globalVars
<1> QED
  BY <1>1, <1>2, <1>3, <1>4, <1>5, <1>6, <1>7, <1>8, <1>9, <1>10, <1>11, <1>12,
     <1>13, <1>14, <1>15, <1>16, <1>17, <1>18, <1>19 DEF Next, Shell, Client

\* Every variable keeps its type, whatever the clients send and however the threads
\* interleave (the types of the globals and of the job lists in daemon/server.c).
THEOREM TypeCorrect == Spec => []TypeOK
BY InitTyped, NextTyped, PTL DEF Spec
-----------------------------------------------------------------------------
(* One client.                                                             *)

LEMMA CountHidden ==
    ASSUME NEW A \in SUBSET Pid, NEW B \in SUBSET Pid, NEW p
    PROVE  /\ Cardinality(A) \in Nat
           /\ A \subseteq B => Cardinality(A) <= Cardinality(B)
           /\ Cardinality(A) - 1 <= Cardinality(A \ {p})
           /\ A \ {p} \subseteq B => Cardinality(A) - 1 <= Cardinality(B)
           /\ p \notin A /\ B = A \cup {p} => Cardinality(B) = Cardinality(A) + 1
<1>1. IsFiniteSet(Pid)
  BY KernelAssumption, FS_Interval DEF Pid
<1>2. IsFiniteSet(A) /\ IsFiniteSet(B) /\ IsFiniteSet(A \ {p})
  BY <1>1, FS_Subset, FS_RemoveElement
<1>3. Cardinality(A) \in Nat /\ Cardinality(B) \in Nat /\ Cardinality(A \ {p}) \in Nat
  BY <1>2, FS_CardinalityType
<1>4. A \subseteq B => Cardinality(A) <= Cardinality(B)
  BY <1>2, FS_Subset
<1>5. Cardinality(A) - 1 <= Cardinality(A \ {p})
  BY <1>2, <1>3, FS_RemoveElement
<1>6. A \ {p} \subseteq B => Cardinality(A \ {p}) <= Cardinality(B)
  BY <1>2, FS_Subset
<1>7. p \notin A /\ B = A \cup {p} => Cardinality(B) = Cardinality(A) + 1
  BY <1>2, FS_AddElement
<1> QED
  BY <1>3, <1>4, <1>5, <1>6, <1>7

LEMMA CountIsNat ==
    ASSUME NEW A \in SUBSET Pid, NEW p
    PROVE  Cardinality(A) \in Nat /\ Cardinality(A \ {p}) \in Nat
<1>1. A \ {p} \in SUBSET Pid
  OBVIOUS
<1> QED
  BY <1>1, CountHidden

\* A step that moves no thread and neither forks nor waits keeps the books.
LEMMA QuietStep ==
    ASSUME NEW c \in Clients, Books(c), Ledger(c), Unreaped' = Unreaped, Unborn' = Unborn,
           UNCHANGED <<jobs[c], pc[c], cmd[c], waited[c], got[c], wait_cnt, wpid, status>>
    PROVE  Books(c)' /\ Ledger(c)'
<1>1. /\ Hidden(c)' = Hidden(c) /\ InFlight(c)' = InFlight(c)
      /\ Handling(c)' = Handling(c) /\ Credit(c)' = Credit(c)
  BY DEF Hidden, InFlight, Handling, Credit
<1> QED
  BY <1>1 DEF Books, Ledger

LEMMA SoloInit == Solo /\ Init => SoloInv
<1> SUFFICES ASSUME Solo, Init PROVE SoloInv
  OBVIOUS
<1>1. TypeOK
  BY InitTyped
<1>2. ASSUME NEW c \in Clients
      PROVE  Books(c) /\ Ledger(c)
  <2>1. \A i \in DOMAIN jobs[c] : jobs[c][i].pgid = 0
    BY DEF Init, Unwritten
  <2>2. ListedPids(jobs[c]) \cap Unborn = {}
    BY <2>1 DEF ListedPids, Unborn, Pid
  <2> QED
    BY <2>2 DEF Init, Books, Ledger, Handling, NoCmd
<1> QED
  BY <1>1, <1>2 DEF SoloInv, Init

\* A report is handled: the loop goes on by one, or not, and no child but the reported
\* one may be newly listed.
LEMMA HandledStep ==
    ASSUME TypeOK, NEW c \in Clients, Books(c), Ledger(c),
           pc[c] = "status", pc'[c] = "wait", cmd'[c] = cmd[c], waited'[c] = waited[c] + 1,
           Unreaped' = Unreaped, Unborn' = Unborn,
           ListedPids(jobs'[c]) \subseteq ListedPids(jobs[c]) \cup {wpid},
           wait_cnt' = wait_cnt + 1 - Credit(c)
    PROVE  Books(c)' /\ Ledger(c)'
<1>0. wait_cnt \in Nat /\ waited[c] \in Nat /\ Hidden(c) \in SUBSET Pid /\ Hidden(c)' \in SUBSET Pid
  BY DEF TypeOK, Hidden, Unreaped, Pid
<1>1. InFlight(c) = wpid /\ Handling(c)
  BY DEF InFlight, Handling
<1>2. /\ wpid \in Pid \ Unborn
      /\ wait_cnt - waited[c] - Credit(c) <= Cardinality(Hidden(c) \ {wpid})
  BY <1>1 DEF Books, Ledger
<1>3. Hidden(c) \ {wpid} \subseteq Hidden(c)'
  BY DEF Hidden
<1>4. Cardinality(Hidden(c) \ {wpid}) <= Cardinality(Hidden(c)')
  BY <1>0, <1>3, CountHidden
<1>5. wait_cnt' - waited'[c] <= Cardinality(Hidden(c)')
  <2>1. /\ Cardinality(Hidden(c) \ {wpid}) \in Nat /\ Cardinality(Hidden(c)') \in Nat
        /\ Credit(c) \in {0, 1}
    BY <1>0, CountHidden DEF Credit
  <2> QED
    BY <1>0, <1>2, <1>4, <2>1
<1> QED
  BY <1>2, <1>5 DEF Books, Ledger, Handling

\* A thread's own step keeps the books of its client.
LEMMA ShellStep ==
    ASSUME TypeOK, NEW c \in Clients, Books(c), Ledger(c), daemon # "exited", Shell(c)
    PROVE  daemon' # "exited" /\ Books(c)' /\ Ledger(c)'
<1> DEFINE owed == wait_cnt - waited[c]
<1>0. TypeOK /\ Books(c) /\ Ledger(c) /\ daemon # "exited"
  OBVIOUS
<1>a. KernelTypeOK /\ jobs[c] \in Seq(Job) /\ waited[c] \in Nat /\ wait_cnt \in Nat
  BY <1>0 DEF TypeOK
<1>b. Hidden(c) \in SUBSET Pid /\ Hidden(c)' \in SUBSET Pid
  BY DEF Hidden, Unreaped, Pid
<1> USE DEF TypeOK, Goto
<1>1. CASE bg_cmd_process(c)
  <2>1. pc'[c] = "fork1" /\ pc[c] = "bg" /\ wait_cnt' = wait_cnt /\ waited' = waited
    BY <1>0, <1>1 DEF bg_cmd_process, globalVars
  <2>2. Unborn' = Unborn
    BY <1>1, <1>a, ContinueTyped DEF bg_cmd_process, kernelVars, Unborn
  <2>3. ListedPids(jobs'[c]) = ListedPids(jobs[c])
    BY <1>0, <1>1, <1>a, MarkKeeps DEF bg_cmd_process, JobStatus
  <2> QED
    BY <1>0, <1>1, <2>1, <2>2, <2>3
       DEF Books, Ledger, Handling, bg_cmd_process
<1>2. CASE fg_cmd_process(c)
  <2>1. /\ pc'[c] \in {"fork2", "fgwait"} /\ wait_cnt' = 0 /\ waited'[c] = 0
        /\ jobs' = jobs /\ cmd' = cmd /\ daemon' = daemon
    BY <1>0, <1>2 DEF fg_cmd_process, globalVars, Ledger
  <2>2. Unborn' = Unborn
    BY <1>2, <1>a, ContinueTyped DEF fg_cmd_process, kernelVars, Unborn
  <2>3. Cardinality(Hidden(c)') \in Nat
    BY <1>b, CountHidden
  <2> QED
    BY <1>0, <2>1, <2>2, <2>3 DEF Books, Ledger, Handling
<1>3. CASE fg_wait(c)
  <2>1. /\ pc'[c] = "fork2" /\ wait_cnt' = 0 /\ waited'[c] = 0
        /\ cmd' = cmd /\ daemon' = daemon
    BY <1>0, <1>3 DEF fg_wait, globalVars, Ledger
  <2>2. Unborn' = Unborn
    BY <1>3, <1>a, CollectTyped DEF fg_wait, kernelVars, Unborn, Members, Unreaped
  <2>3. ListedPids(jobs'[c]) = ListedPids(jobs[c])
    <3>1. PICK s : jobs' = [jobs EXCEPT ![c] = FgStatus(jobs[c], Current(c).pgid, s)]
      BY <1>3 DEF fg_wait
    <3> QED
      BY <3>1, <1>0, <1>a, MarkKeeps DEF FgStatus, JobStatus
  <2>4. Cardinality(Hidden(c)') \in Nat
    BY <1>b, CountHidden
  <2> QED
    BY <1>0, <2>1, <2>2, <2>3, <2>4 DEF Books, Ledger, Handling
<1>4. CASE ForkFirst(c)
  <2>1. PICK p \in Pid : Fork(p, p, IF cmd[c].head = "bg" THEN "signaled" ELSE "running")
    BY <1>4 DEF ForkFirst, Unborn
  <2>2. p \in Unborn
    BY <2>1 DEF Fork
  <2>3. p \notin Unreaped /\ Unreaped' = Unreaped \cup {p} /\ Unborn' = Unborn \ {p}
    BY <2>1, <1>a, KernelAssumption, ForkTyped DEF Pid
  <2>4. /\ pc'[c] = "fork2" /\ wait_cnt' = 1 /\ waited'[c] = 0
        /\ jobs' = jobs /\ cmd' = cmd /\ daemon' = daemon
    BY <1>0, <1>4 DEF ForkFirst, Ledger
  <2>5. p \notin Hidden(c) /\ Hidden(c)' = Hidden(c) \cup {p}
    BY <1>0, <2>2, <2>3, <2>4 DEF Hidden, Books
  <2>6. Cardinality(Hidden(c)') = Cardinality(Hidden(c)) + 1 /\ Cardinality(Hidden(c)) \in Nat
    BY <1>b, <2>5, CountHidden
  <2> QED
    BY <1>0, <2>3, <2>4, <2>6 DEF Books, Ledger, Handling
<1>5. CASE ForkSecond(c)
  <2>1. /\ pc[c] = "fork2" /\ pc'[c] = "started" /\ waited' = waited
        /\ jobs' = jobs /\ cmd' = cmd /\ daemon' = daemon
    BY <1>0, <1>5 DEF ForkSecond
  <2>2. CASE cmd[c].pipe
    <3>1. PICK p \in Pid : \E g \in JoinedGroups(p) : Fork(p, g, "running")
      BY <1>5, <2>2 DEF ForkSecond, Unborn
    <3>2. PICK g \in JoinedGroups(p) : Fork(p, g, "running")
      BY <3>1
    <3>3. g \in 0 .. MaxPid
      BY KernelAssumption, <1>0 DEF JoinedGroups, Pid
    <3>4. p \notin Unreaped /\ Unreaped' = Unreaped \cup {p} /\ Unborn' = Unborn \ {p}
      BY <3>2, <3>3, <1>a, ForkTyped
    <3>5. p \in Unborn
      BY <3>2 DEF Fork
    <3>6. p \notin Hidden(c) /\ Hidden(c)' = Hidden(c) \cup {p}
      BY <1>0, <2>1, <3>4, <3>5 DEF Hidden, Books
    <3>7. Cardinality(Hidden(c)') = Cardinality(Hidden(c)) + 1 /\ Cardinality(Hidden(c)) \in Nat
      BY <1>b, <3>6, CountHidden
    <3>8. wait_cnt' = wait_cnt + 1
      BY <1>5, <2>2 DEF ForkSecond
    <3> QED
      BY <1>0, <1>a, <2>1, <3>4, <3>7, <3>8 DEF Books, Ledger, Handling
  <2>3. CASE ~cmd[c].pipe
    <3>1. wait_cnt' = wait_cnt /\ Hidden(c)' = Hidden(c) /\ Unborn' = Unborn
      BY <1>5, <2>1, <2>3 DEF ForkSecond, kernelVars, Hidden, Unreaped, Unborn
    <3> QED
      BY <1>0, <2>1, <3>1 DEF Books, Ledger, Handling
  <2> QED
    BY <2>2, <2>3
<1>6. CASE Latest(c) \/ Started(c)
  <2>1. /\ \/ pc[c] = "started" /\ pc'[c] = "sync"
           \/ pc[c] = "sync" /\ pc'[c] = "wait"
        /\ UNCHANGED <<jobs, waited, wait_cnt, cmd, daemon>>
    BY <1>0, <1>6 DEF Latest, Started, Books
  <2>2. Hidden(c)' = Hidden(c) /\ Unborn' = Unborn
    BY <1>6, <2>1 DEF Latest, Started, kernelVars, Hidden, Unreaped, Unborn
  <2> QED
    BY <1>0, <2>1, <2>2 DEF Books, Ledger, Handling
<1>7. CASE BackgroundAdd(c) \/ BackgroundContinue(c)
  BY <1>0, <1>7 DEF Books, BackgroundAdd, BackgroundContinue
<1>8. CASE WaitChild(c)
  <2>1. PICK p \in Unreaped : /\ Collect(p) /\ status' = Report(p)
                              /\ got' = [got EXCEPT ![c] = p]
    BY <1>8 DEF WaitChild, Reported
  <2>2. /\ pc[c] = "wait" /\ pc'[c] = "store"
        /\ UNCHANGED <<jobs, waited, wait_cnt, cmd, daemon>>
    BY <1>0, <1>8 DEF WaitChild, Reported
  <2>3. p \in Pid /\ p \notin Unborn
    BY <2>1 DEF Unreaped, Unborn
  <2>4. Unreaped \ {p} \subseteq Unreaped' /\ Unborn' = Unborn
    BY <1>a, <2>1, <2>3, CollectTyped
  <2>5. InFlight(c)' = p /\ Handling(c)'
    BY <1>0, <2>1, <2>2 DEF InFlight, Handling
  <2>6. Hidden(c) \ {p} \subseteq Hidden(c)' \ {p}
    BY <2>2, <2>4 DEF Hidden
  <2>7. owed <= Cardinality(Hidden(c))
    BY <1>0, <2>2 DEF Ledger
  <2>8. owed - Credit(c)' <= Cardinality(Hidden(c)' \ {p})
    <3>1. CASE p \in ListedPids(jobs[c])
      <4>1. Hidden(c) \subseteq Hidden(c)' \ {p}
        BY <3>1, <2>6 DEF Hidden
      <4>2. Cardinality(Hidden(c)) <= Cardinality(Hidden(c)' \ {p})
        BY <1>b, <4>1, CountHidden
      <4>3. Credit(c)' \in {0, 1}
        BY DEF Credit
      <4>4. Cardinality(Hidden(c)) \in Nat /\ Cardinality(Hidden(c)' \ {p}) \in Nat
        BY <1>b, CountIsNat
      <4> QED
        BY <1>a, <2>7, <4>2, <4>3, <4>4
    <3>2. CASE p \notin ListedPids(jobs[c])
      <4>1. Credit(c)' = 1
        BY <3>2, <2>2, <2>5 DEF Credit
      <4>2. Cardinality(Hidden(c)) - 1 <= Cardinality(Hidden(c)' \ {p})
        BY <1>b, <2>6, CountHidden
      <4>3. Cardinality(Hidden(c)) \in Nat /\ Cardinality(Hidden(c)' \ {p}) \in Nat
        BY <1>b, CountIsNat
      <4> QED
        BY <1>a, <2>7, <4>1, <4>2, <4>3
    <3> QED
      BY <3>1, <3>2
  <2> QED
    BY <1>0, <2>2, <2>3, <2>4, <2>5, <2>8 DEF Books, Ledger
<1>9. CASE StoreWpid(c)
  <2>1. /\ pc[c] = "store" /\ pc'[c] = "status" /\ wpid' = got[c]
        /\ UNCHANGED <<jobs, waited, wait_cnt, cmd, daemon, status>>
    BY <1>0, <1>9 DEF StoreWpid
  <2>2. Hidden(c)' = Hidden(c) /\ Unborn' = Unborn
    BY <1>9 DEF StoreWpid, kernelVars, Hidden, Unreaped, Unborn
  <2>3. InFlight(c)' = InFlight(c) /\ Handling(c)' /\ Handling(c)
    BY <2>1 DEF InFlight, Handling
  <2>4. Credit(c)' = Credit(c)
    BY <2>1, <2>3 DEF Credit
  <2> QED
    BY <1>0, <2>1, <2>2, <2>3, <2>4 DEF Books, Ledger
<1>10. CASE WaitFails(c)
  <2>1. 0 < owed /\ owed <= Cardinality(Hidden(c)) /\ Hidden(c) = {}
    BY <1>0, <1>a, <1>10 DEF WaitFails, Ledger, Hidden
  <2>2. Cardinality(Hidden(c)) = 0
    BY <2>1, FS_EmptySet
  <2> QED
    BY <2>1, <2>2, <1>a
<1>11. CASE process_wait_status(c)
  <2>1. /\ pc[c] = "status" /\ pc'[c] = "wait" /\ cmd' = cmd
        /\ waited'[c] = waited[c] + 1 /\ wait_cnt' \in {wait_cnt, wait_cnt + 1}
    BY <1>0, <1>11 DEF process_wait_status, Exited, Stopped, Continued, AddJob
  <2>2. InFlight(c) = wpid
    BY <2>1 DEF InFlight
  <2>4. daemon' # "exited"
    BY <1>0, <1>11 DEF process_wait_status, Exited, Stopped, Continued, AddJob
  <2>5. Unreaped' = Unreaped /\ Unborn' = Unborn
    BY <1>a, <1>11, ContinueTyped
       DEF process_wait_status, Exited, Stopped, Continued, kernelVars, Unreaped, Unborn
  <2>6. /\ ListedPids(jobs'[c]) \subseteq ListedPids(jobs[c]) \cup {wpid}
        /\ wait_cnt' = wait_cnt + 1 - Credit(c)
    <3>1. CASE Exited(c)
      <4> DEFINE marked == update_jobstatus(jobs[c], wpid, "Done")
      <4>1. marked \in Seq(Job) /\ ListedPids(marked) = ListedPids(jobs[c])
        BY <1>a, MarkKeeps DEF JobStatus
      <4>2. jobs'[c] = update_job_list(marked)
        BY <1>0, <3>1 DEF Exited
      <4> HIDE DEF marked
      <4>3. ListedPids(jobs'[c]) \subseteq ListedPids(jobs[c])
        BY <4>1, <4>2, CompactKeeps
      <4>4. EntriesOf(jobs[c], wpid) # {} <=> wpid \in ListedPids(jobs[c])
        BY DEF EntriesOf, ListedPids
      <4> QED
        BY <1>a, <2>2, <3>1, <4>3, <4>4 DEF Exited, Credit
    <3>2. CASE Stopped(c)
      <4>1. wpid \in Nat
        BY <1>0, KernelAssumption
      <4>2. ListedPids(jobs'[c]) \subseteq ListedPids(jobs[c]) \cup {wpid}
        <5> HIDE DEF TypeOK
        <5> QED
          BY <1>0, <3>2, <4>1, AddJobTyped DEF Stopped
      <4> QED
        BY <1>a, <3>2, <4>2 DEF Stopped, Credit
    <3>3. CASE Continued(c)
      BY <1>0, <1>a, <3>3, MarkKeeps DEF Continued, Credit, JobStatus
    <3>4. CASE status = "signaled" /\ UNCHANGED <<kernelVars, daemon, jobs, below, wait_cnt>>
      BY <1>a, <3>4 DEF Credit
    <3> QED
      BY <1>11, <3>1, <3>2, <3>3, <3>4 DEF process_wait_status
  <2> QED
    BY <1>0, <2>1, <2>4, <2>5, <2>6, HandledStep
<1>12. CASE Prompt(c)
  <2>1. pc'[c] = "recv" /\ cmd'[c] = NoCmd /\ jobs' = jobs /\ Unborn' = Unborn /\ daemon' = daemon
    BY <1>0, <1>12 DEF Prompt, kernelVars, Unborn
  <2> QED
    BY <1>0, <2>1 DEF Books, Ledger, Handling, NoCmd
<1> QED
  BY <1>1, <1>2, <1>3, <1>4, <1>5, <1>6, <1>7, <1>8, <1>9, <1>10, <1>11, <1>12 DEF Shell

LEMMA SoloStep == Solo /\ SoloInv /\ [Next]_vars => SoloInv'
<1> SUFFICES ASSUME Solo, SoloInv, [Next]_vars PROVE SoloInv'
  OBVIOUS
<1>0. TypeOK /\ KernelTypeOK /\ daemon # "exited" /\ TypeOK'
  BY NextTyped DEF SoloInv, TypeOK
<1>a. \A c \in Clients : Books(c) /\ Ledger(c)
  BY DEF SoloInv
<1> SUFFICES daemon' # "exited" /\ \A c \in Clients : Books(c)' /\ Ledger(c)'
  BY <1>0 DEF SoloInv
<1>1. ASSUME NEW c \in Clients, Shell(c)
      PROVE  daemon' # "exited" /\ \A d \in Clients : Books(d)' /\ Ledger(d)'
  <2>1. \A d \in Clients : d = c
    BY DEF Solo
  <2> QED
    BY <1>0, <1>a, <1>1, <2>1, ShellStep
<1>2. ASSUME NEW c \in Clients, NEW k \in Cmds, Recv(c, k)
      PROVE  daemon' # "exited" /\ \A d \in Clients : Books(d)' /\ Ledger(d)'
  <2>1. /\ pc'[c] \in {"bg", "fg", "recv", "fork1"} /\ cmd'[c] = k /\ waited'[c] = 0
        /\ wait_cnt' = 0 /\ jobs' = jobs /\ Unborn' = Unborn
    BY <1>0, <1>2 DEF Recv, Goto, TypeOK, kernelVars, Unborn
  <2>2. k \in Command /\ ~k.amp /\ k.head # "c"
    BY JobControlAssumption DEF Solo
  <2>3. daemon' # "exited"
    BY <1>2, <2>2 DEF Recv
  <2>4. Books(c)' /\ Ledger(c)'
    BY <1>a, <2>1, <2>2 DEF Books, Ledger, Handling
  <2> QED
    BY <2>3, <2>4 DEF Solo
<1>3. ASSUME NEW c \in Clients, NEW sig \in Ctls, Ctl(c, sig)
      PROVE  daemon' # "exited" /\ \A d \in Clients : Books(d)' /\ Ledger(d)'
  <2>1. pc'[c] = "ended" /\ jobs' = jobs /\ cmd' = cmd
    BY <1>0, <1>3 DEF Ctl, Goto, TypeOK
  <2>2. Unborn' = Unborn
    BY <1>0, <1>3, DeliverTyped DEF Ctl, kernelVars, Unborn
  <2>3. daemon' # "exited"
    BY <1>3 DEF Ctl, SelfSignalled, Solo
  <2>4. Books(c)' /\ Ledger(c)'
    BY <1>a, <2>1, <2>2 DEF Books, Ledger, Handling
  <2> QED
    BY <2>3, <2>4 DEF Solo
<1>4. ASSUME NEW c \in Clients, Disconnect(c)
      PROVE  daemon' # "exited" /\ \A d \in Clients : Books(d)' /\ Ledger(d)'
  <2>1. pc'[c] = "ended" /\ jobs' = jobs /\ cmd' = cmd /\ Unborn' = Unborn /\ daemon' = daemon
    BY <1>0, <1>4 DEF Disconnect, Goto, TypeOK, kernelVars, Unborn
  <2>2. Books(c)' /\ Ledger(c)'
    BY <1>a, <2>1 DEF Books, Ledger, Handling
  <2> QED
    BY <1>0, <2>1, <2>2 DEF Solo
<1>5. CASE ChildStep
  <2>1. Unreaped' = Unreaped /\ Unborn' = Unborn
    BY <1>0, <1>5, ProcStepTyped DEF ChildStep
  <2> QED
    BY <1>0, <1>a, <1>5, <2>1, QuietStep DEF ChildStep, threadVars, globalVars
<1>6. CASE UNCHANGED vars
  <2>1. Unreaped' = Unreaped /\ Unborn' = Unborn
    BY <1>6 DEF vars, kernelVars, Unreaped, Unborn
  <2> QED
    BY <1>0, <1>a, <1>6, <2>1, QuietStep DEF vars, threadVars, globalVars
<1> QED
  BY <1>1, <1>2, <1>3, <1>4, <1>5, <1>6 DEF Next, Client

\* The ledger of the wait loop holds in every state of such a daemon: what wait_cnt
\* still asks for is covered by children no entry of the job list speaks for.
THEOREM SoloInvariant == ASSUME Solo PROVE Spec => []SoloInv
<1>1. Init => SoloInv
  BY SoloInit
<1>2. SoloInv /\ [Next]_vars => SoloInv'
  BY SoloStep
<1> QED
  BY <1>1, <1>2, PTL DEF Spec

\* With one client that never asks for a background start, never sends "c" and never
\* interrupts, serving lines never ends the daemon, whatever stops, kills and
\* continues its programs: the exit(EXIT_FAILURE) of process_cmd's wait loop is
\* unreachable.
THEOREM SoloStaysUp == ASSUME Solo PROVE Spec => []DaemonStaysUp
<1>1. Init => SoloInv
  BY SoloInit
<1>2. SoloInv /\ [Next]_vars => SoloInv'
  BY SoloStep
<1>3. SoloInv => DaemonStaysUp
  BY DEF SoloInv, DaemonStaysUp
<1> QED
  BY <1>1, <1>2, <1>3, PTL DEF Spec

\* Under the same conditions each waitpid of the wait loop has a child to wait for:
\* wait_cnt never promises more reports than there are children.
THEOREM SoloWaitHasChild == ASSUME Solo PROVE Spec => []WaitHasChild
<1>1. Init => SoloInv
  BY SoloInit
<1>2. SoloInv /\ [Next]_vars => SoloInv'
  BY SoloStep
<1>3. SoloInv => WaitHasChild
  <2> SUFFICES ASSUME SoloInv, NEW c \in Clients, pc[c] = "wait", waited[c] < wait_cnt,
                      Unreaped = {}
               PROVE  FALSE
    BY DEF WaitHasChild
  <2>1. waited[c] \in Nat /\ wait_cnt \in Nat /\ wait_cnt - waited[c] <= Cardinality(Hidden(c))
    BY DEF SoloInv, TypeOK, Ledger
  <2>2. Hidden(c) = {}
    BY DEF Hidden
  <2>3. Cardinality(Hidden(c)) = 0
    BY <2>2, FS_EmptySet
  <2> QED
    BY <2>1, <2>3
<1> QED
  BY <1>1, <1>2, <1>3, PTL DEF Spec

-----------------------------------------------------------------------------
(* The numbers of the jobs, for any number of clients.                     *)

\* What the list operations keep: numbers cover positions.
Covers(list) == \A i \in DOMAIN list : list[i].pgid # 0 => list[i].index >= i

LEMMA AddCovers ==
    ASSUME NEW list \in Seq(Job), NEW pid \in Nat, Covers(list)
    PROVE  Covers(add_to_joblist(list, pid))
BY DEF Covers, add_to_joblist

LEMMA MarkCovers ==
    ASSUME NEW list \in Seq(Job), NEW pid, NEW stat \in JobStatus, Covers(list)
    PROVE  Covers(update_jobstatus(list, pid, stat))
<1> DEFINE marked == update_jobstatus(list, pid, stat)
<1>1. marked \in Seq(Job) /\ Len(marked) = Len(list)
  BY MarkKeeps
<1>2. \A i \in DOMAIN list : marked[i].pgid = list[i].pgid /\ marked[i].index = list[i].index
  BY MarkKeeps
<1> HIDE DEF marked
<1>3. DOMAIN marked = DOMAIN list
  BY <1>1
<1>4. Covers(marked)
  BY <1>2, <1>3 DEF Covers
<1> QED
  BY <1>4 DEF marked

LEMMA CompactCovers ==
    ASSUME NEW list \in Seq(Job), Covers(list)
    PROVE  Covers(update_job_list(list))
<1> DEFINE left == update_job_list(list)
<1>1. /\ left \in Seq(Job)
      /\ \A i \in DOMAIN left : \E j \in DOMAIN list : j >= i /\ left[i] = list[j]
  BY CompactKeeps
<1> HIDE DEF left
<1>2. ASSUME NEW i \in DOMAIN left, left[i].pgid # 0
      PROVE  left[i].index >= i
  <2>1. PICK j \in DOMAIN list : j >= i /\ left[i] = list[j]
    BY <1>1
  <2>2. list[j].index >= j
    BY <1>2, <2>1 DEF Covers
  <2>3. list[j] \in Job
    OBVIOUS
  <2>4. list[j].index \in Nat
    BY <2>3 DEF Job
  <2>5. i \in Nat /\ j \in Nat
    BY <1>1
  <2> QED
    BY <2>1, <2>2, <2>4, <2>5
<1> QED
  BY <1>2 DEF Covers, left

IndexInv == TypeOK /\ \A c \in Clients : Covers(jobs[c])

LEMMA IndexStep == IndexInv /\ [Next]_vars => IndexInv'
<1> SUFFICES ASSUME IndexInv, [Next]_vars PROVE IndexInv'
  OBVIOUS
<1>0. TypeOK /\ TypeOK' /\ \A c \in Clients : jobs[c] \in Seq(Job) /\ Covers(jobs[c])
  BY NextTyped DEF IndexInv, TypeOK
<1> SUFFICES \A c \in Clients : Covers(jobs'[c])
  BY <1>0 DEF IndexInv, Covers
<1>1. ASSUME jobs' = jobs
      PROVE  \A c \in Clients : Covers(jobs'[c])
  BY <1>0, <1>1
<1>2. ASSUME NEW c \in Clients, NEW list, Covers(list), jobs' = [jobs EXCEPT ![c] = list]
      PROVE  \A d \in Clients : Covers(jobs'[d])
  BY <1>0, <1>2 DEF TypeOK
<1>3. ASSUME NEW c \in Clients, Shell(c)
      PROVE  \A d \in Clients : Covers(jobs'[d])
  <2>1. CASE bg_cmd_process(c)
    <3>1. Covers(update_jobstatus(jobs[c], Current(c).pgid, "Running"))
      BY <1>0, MarkCovers DEF JobStatus
    <3> QED
      BY <1>0, <1>1, <1>2, <2>1, <3>1 DEF bg_cmd_process
  <2>2. CASE fg_wait(c)
    <3>1. PICK s : jobs' = [jobs EXCEPT ![c] = FgStatus(jobs[c], Current(c).pgid, s)]
      BY <2>2 DEF fg_wait
    <3>2. Covers(FgStatus(jobs[c], Current(c).pgid, s))
      BY <1>0, MarkCovers DEF FgStatus, JobStatus
    <3> QED
      BY <1>2, <3>1, <3>2
  <2>3. CASE BackgroundAdd(c)
    <3>1. chid1 \in Nat
      BY <1>0, KernelAssumption DEF TypeOK
    <3>2. Covers(add_to_joblist(jobs[c], chid1))
      BY <1>0, <3>1, AddCovers
    <3> QED
      BY <1>0, <1>1, <1>2, <2>3, <3>1, <3>2, AddJobTyped DEF BackgroundAdd
  <2>4. CASE BackgroundContinue(c)
    <3>1. Covers(update_jobstatus(jobs[c], chid1, "Running"))
      BY <1>0, MarkCovers DEF JobStatus
    <3> QED
      BY <1>2, <2>4, <3>1 DEF BackgroundContinue
  <2>5. CASE process_wait_status(c)
    <3>1. CASE Exited(c)
      <4> DEFINE marked == update_jobstatus(jobs[c], wpid, "Done")
      <4>1. marked \in Seq(Job) /\ Covers(marked)
        BY <1>0, MarkKeeps, MarkCovers DEF JobStatus
      <4>2. jobs' = [jobs EXCEPT ![c] = update_job_list(marked)]
        BY <3>1 DEF Exited
      <4> HIDE DEF marked
      <4>3. Covers(update_job_list(marked))
        BY <4>1, CompactCovers
      <4> QED
        BY <1>2, <4>2, <4>3
    <3>2. CASE Stopped(c)
      <4>1. wpid \in Nat
        BY <1>0, KernelAssumption DEF TypeOK
      <4>2. Covers(add_to_joblist(jobs[c], wpid))
        BY <1>0, <4>1, AddCovers
      <4> QED
        BY <1>0, <1>1, <1>2, <3>2, <4>1, <4>2, AddJobTyped DEF Stopped
    <3>3. CASE Continued(c)
      <4>1. Covers(update_jobstatus(jobs[c], wpid, "Running"))
        BY <1>0, MarkCovers DEF JobStatus
      <4> QED
        BY <1>2, <3>3, <4>1 DEF Continued
    <3>4. CASE UNCHANGED <<kernelVars, daemon, jobs, below, wait_cnt>>
      BY <1>1, <3>4
    <3> QED
      BY <2>5, <3>1, <3>2, <3>3, <3>4 DEF process_wait_status
  <2>6. CASE fg_cmd_process(c) \/ ForkFirst(c) \/ ForkSecond(c) \/ Latest(c) \/ Started(c)
             \/ WaitChild(c) \/ StoreWpid(c) \/ WaitFails(c) \/ Prompt(c)
    BY <1>1, <2>6 DEF fg_cmd_process, ForkFirst, ForkSecond, Latest, Started, WaitChild, Reported,
                      StoreWpid, WaitFails, Prompt, threadVars
  <2> QED
    BY <1>3, <2>1, <2>2, <2>3, <2>4, <2>5, <2>6 DEF Shell
<1>4. ASSUME NEW c \in Clients, Client(c)
      PROVE  \A d \in Clients : Covers(jobs'[d])
  BY <1>1, <1>4 DEF Client, Recv, Ctl, Disconnect
<1>5. CASE ChildStep \/ UNCHANGED vars
  BY <1>1, <1>5 DEF ChildStep, vars, threadVars
<1> QED
  BY <1>3, <1>4, <1>5 DEF Next

\* The number of a job is never below its place in the list, for any number of
\* clients, however their threads race: add_to_joblist numbers by place, and
\* update_job_list only moves entries towards the front.
THEOREM IndexCovers == Spec => []IndexCoversPosition
<1>1. Init => IndexInv
  <2> SUFFICES ASSUME Init, NEW c \in Clients PROVE Covers(jobs[c])
    BY InitTyped DEF IndexInv
  <2> QED
    BY DEF Init, Covers, Unwritten
<1>2. IndexInv /\ [Next]_vars => IndexInv'
  BY IndexStep
<1>3. IndexInv => IndexCoversPosition
  BY DEF IndexInv, IndexCoversPosition, Covers
<1> QED
  BY <1>1, <1>2, <1>3, PTL DEF Spec
=============================================================================
