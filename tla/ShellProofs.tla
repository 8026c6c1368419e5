----------------------------- MODULE ShellProofs -----------------------------
(***************************************************************************)
(* What the shell keeps to as long as its clients keep to some lines: that *)
(* the job list and the children agree (JobControl, one client), and that  *)
(* clients whose lines do not overlap stay out of each other's way         *)
(* (SignalsShell, any number of clients), and what the count of a list     *)
(* that is thrown away with each line still means (PoojaShell).  Nothing   *)
(* bounds the number of children, of lines or of stops.                    *)
(***************************************************************************)
EXTENDS JobControlProofs, MCJobLists, MCSignalsShell, MCPoojaShell, WellFoundedInduction

\* One client.
Alone == \E c \in Clients : Clients = {c}

\* One client, whose lines have one program each.
Single == Alone /\ \A k \in Cmds : ~k.pipe

-----------------------------------------------------------------------------
(* The first of several entries.                                           *)

Below == {xy \in Nat \X Nat : xy[1] < xy[2]}

LEMMA FirstIsIn ==
    ASSUME NEW S \in SUBSET Nat, S # {}
    PROVE  FirstOf(S) \in S
<1>1. IsWellFoundedOn(Below, Nat)
  BY NatLessThanWellFounded DEF OpToRel, Below
<1>2. PICK x \in S : \A y \in S : ~(<<y, x>> \in Below)
  BY <1>1, WFMin
<1>3. ASSUME NEW y \in S PROVE x <= y
  <2>1. x \in Nat /\ y \in Nat /\ ~(y < x)
    BY <1>2 DEF Below
  <2> QED
    BY <2>1
<1> QED
  BY <1>3 DEF FirstOf

LEMMA DomainOfList == ASSUME NEW list \in Seq(Job) PROVE DOMAIN list \subseteq Nat
OBVIOUS

-----------------------------------------------------------------------------
(* What the entries say of the children.                                   *)

\* The entries speak of children that were forked, and "Done" of those that were
\* waited for.
Truthful(list, life) ==
    \A i \in DOMAIN list : list[i].pgid \in Pid =>
        /\ life[list[i].pgid] # "unborn"
        /\ list[i].status = "Done" => life[list[i].pgid] = "reaped"

\* Who was forked stays so, who was waited for too.
Lasting(before, after) ==
    \A p \in Pid : /\ before[p] # "unborn" => after[p] # "unborn"
                   /\ before[p] = "reaped" => after[p] = "reaped"

LEMMA TruthLasts ==
    ASSUME NEW list, NEW before, NEW after, Truthful(list, before), Lasting(before, after)
    PROVE  Truthful(list, after)
BY DEF Truthful, Lasting

LEMMA AddTruthful ==
    ASSUME NEW list \in Seq(Job), NEW pid \in Nat, NEW life, Truthful(list, life),
           pid \in Pid => life[pid] # "unborn"
    PROVE  Truthful(add_to_joblist(list, pid), life)
<1> DEFINE longer == add_to_joblist(list, pid)
<1>1. \A i \in DOMAIN longer :
         \/ i \in DOMAIN list /\ longer[i] = list[i]
         \/ longer[i].pgid = pid /\ longer[i].status = "Stopped"
  BY DEF add_to_joblist
<1> HIDE DEF longer
<1>2. Truthful(longer, life)
  BY <1>1 DEF Truthful
<1> QED
  BY <1>2 DEF longer

LEMMA AddLists ==
    ASSUME NEW list \in Seq(Job), NEW pid \in Nat
    PROVE  ListedPids(list) \subseteq ListedPids(add_to_joblist(list, pid))
<1> DEFINE longer == add_to_joblist(list, pid)
<1>1. \A i \in DOMAIN list : i \in DOMAIN longer /\ longer[i] = list[i]
  BY DEF add_to_joblist
<1> HIDE DEF longer
<1>2. ListedPids(list) \subseteq ListedPids(longer)
  BY <1>1 DEF ListedPids
<1> QED
  BY <1>2 DEF longer

LEMMA CurrentListed ==
    ASSUME NEW c \in Clients, jobs[c] \in Seq(Job), jobs[c] # <<>>
    PROVE  Current(c).pgid \in ListedPids(jobs[c])
BY DEF Current, ListedPids

LEMMA MarkTruthful ==
    ASSUME NEW list \in Seq(Job), NEW pid, NEW stat \in JobStatus, NEW life,
           Truthful(list, life),
           stat = "Done" /\ pid \in Pid /\ pid \in ListedPids(list) => life[pid] = "reaped"
    PROVE  Truthful(update_jobstatus(list, pid, stat), life)
<1>1. CASE EntriesOf(list, pid) = {}
  BY <1>1 DEF update_jobstatus
<1>2. CASE EntriesOf(list, pid) # {}
  <2> DEFINE e == FirstOf(EntriesOf(list, pid))
             marked == [list EXCEPT ![e].status = stat]
  <2>1. e \in EntriesOf(list, pid)
    BY <1>2, FirstIsIn, DomainOfList DEF EntriesOf
  <2>2. e \in DOMAIN list /\ list[e].pgid = pid /\ pid \in ListedPids(list)
    BY <2>1 DEF EntriesOf, ListedPids
  <2> HIDE DEF e
  <2>3. ASSUME NEW i \in DOMAIN list, i # e PROVE marked[i] = list[i]
    BY <2>3
  <2>4. marked[e].pgid = pid /\ marked[e].status = stat
    <3>1. list[e] \in Job
      BY <2>2
    <3> QED
      BY <2>2, <3>1 DEF Job
  <2>5. DOMAIN marked = DOMAIN list
    OBVIOUS
  <2> HIDE DEF marked
  <2>6. Truthful(marked, life)
    BY <2>2, <2>3, <2>4, <2>5 DEF Truthful
  <2> QED
    BY <1>2, <2>6 DEF update_jobstatus, marked, e
<1> QED
  BY <1>1, <1>2

LEMMA CompactTruthful ==
    ASSUME NEW list \in Seq(Job), NEW life, Truthful(list, life)
    PROVE  Truthful(update_job_list(list), life)
<1> DEFINE left == update_job_list(list)
<1>1. \A i \in DOMAIN left : \E j \in DOMAIN list : left[i] = list[j]
  BY CompactKeeps
<1> HIDE DEF left
<1>2. Truthful(left, life)
  BY <1>1 DEF Truthful
<1> QED
  BY <1>2 DEF left

\* update_job_list forgets a program that was waited for, or none.
LEMMA CompactForgets ==
    ASSUME NEW list \in Seq(Job), NEW life, Truthful(list, life),
           NEW pid \in Pid, pid \in ListedPids(list),
           pid \notin ListedPids(update_job_list(list))
    PROVE  life[pid] = "reaped"
<1>1. DoneEntries(list) # {}
  BY DEF update_job_list
<1> DEFINE e == FirstOf(DoneEntries(list))
           n == Len(list) - 1
           left == [k \in 1 .. n |-> IF k < e THEN list[k] ELSE list[k + 1]]
<1>2. e \in DoneEntries(list)
  BY <1>1, FirstIsIn, DomainOfList DEF DoneEntries
<1>3. e \in DOMAIN list /\ list[e].status = "Done"
  BY <1>2 DEF DoneEntries
<1>4. update_job_list(list) = left
  BY <1>1 DEF update_job_list, DropEntry
<1> HIDE DEF e
<1>5. PICK i \in DOMAIN list : list[i].pgid = pid
  BY DEF ListedPids
<1>6. /\ DOMAIN list = 1 .. n + 1 /\ n \in Nat /\ i \in 1 .. n + 1 /\ e \in 1 .. n + 1
      /\ DOMAIN left = 1 .. n
  BY <1>3
<1> HIDE DEF n
<1>7. \A k \in 1 .. n : left[k].pgid # pid
  BY <1>4, <1>6 DEF ListedPids
<1>8. i = e
  <2>1. ASSUME i < e PROVE FALSE
    <3>1. i \in 1 .. n
      BY <1>6, <2>1
    <3>2. left[i] = list[i]
      BY <2>1, <3>1
    <3> QED
      BY <1>5, <1>7, <3>1, <3>2
  <2>2. ASSUME i > e PROVE FALSE
    <3>1. i - 1 \in 1 .. n /\ ~(i - 1 < e) /\ (i - 1) + 1 = i
      BY <1>6, <2>2
    <3>2. left[i - 1] = list[i]
      BY <3>1
    <3> QED
      BY <1>5, <1>7, <3>1, <3>2
  <2> QED
    BY <1>6, <2>1, <2>2
<1> QED
  BY <1>3, <1>5, <1>8 DEF Truthful

-----------------------------------------------------------------------------
(* The children.                                                           *)

\* Every child leads its own group, so that fg and waitpid mean the same process.
Leaders == \A p \in Pid : pstate[p] # "unborn" => pgrp[p] = p

LEMMA ContinueLasts ==
    ASSUME NEW S, Continue(S)
    PROVE  Lasting(pstate, pstate') /\ pgrp' = pgrp
BY DEF Continue, Lasting, Halted

LEMMA DeliverLasts ==
    ASSUME NEW S, NEW sig, Deliver(S, sig)
    PROVE  Lasting(pstate, pstate') /\ pgrp' = pgrp
BY DEF Deliver, Suspend, Interrupt, Lasting

LEMMA CollectLasts ==
    ASSUME KernelTypeOK, NEW p \in Pid, Collect(p)
    PROVE  /\ Lasting(pstate, pstate') /\ pgrp' = pgrp
           /\ pstate[p] \in Zombie => pstate'[p] = "reaped"
BY DEF KernelTypeOK, Collect, Lasting, Zombie

LEMMA ProcStepLasts ==
    ASSUME KernelTypeOK, NEW p \in Pid, ProcStep(p)
    PROVE  Lasting(pstate, pstate') /\ pgrp' = pgrp
BY DEF KernelTypeOK, ProcStep, ProcExit, ProcKilled, ProcStopped, Lasting, Halted

LEMMA ForkLasts ==
    ASSUME KernelTypeOK, NEW p \in Pid, NEW s, s # "unborn", Fork(p, p, s), Leaders
    PROVE  Lasting(pstate, pstate') /\ Leaders' /\ pstate'[p] # "unborn"
BY DEF KernelTypeOK, Fork, Lasting, Leaders, Unborn

\* waitpid reports the end of a zombie only.
LEMMA ReportsZombie ==
    ASSUME KernelTypeOK, NEW p \in Pid, Report(p) \in Zombie
    PROVE  pstate[p] \in Zombie
BY DEF KernelTypeOK, Report, Zombie, Event

-----------------------------------------------------------------------------
(* The invariant.                                                          *)

\* What the client's list says is true, and so is the report it is to be told of.
Honest(c) ==
    /\ ~cmd[c].pipe
    /\ Truthful(jobs[c], pstate)
    /\ Handling(c) /\ InFlight(c) \in Pid =>
          /\ pstate[InFlight(c)] # "unborn"
          /\ status = "exited" => pstate[InFlight(c)] = "reaped"

ListInv ==
    /\ TypeOK /\ Leaders
    /\ chid1 \in Pid => pstate[chid1] # "unborn"
    /\ \A c \in Clients : Honest(c)

LEMMA ListInit == Init => ListInv
<1> SUFFICES ASSUME Init PROVE ListInv
  OBVIOUS
<1>1. TypeOK
  BY InitTyped
<1>2. Leaders /\ chid1 \notin Pid
  BY KernelAssumption DEF Init, KernelInit, Leaders, Pid
<1>3. ASSUME NEW c \in Clients PROVE Honest(c)
  <2>1. \A i \in DOMAIN jobs[c] : jobs[c][i].pgid = 0
    BY DEF Init, Unwritten
  <2>2. Truthful(jobs[c], pstate)
    BY <2>1, KernelAssumption DEF Truthful, Pid
  <2> QED
    BY <2>2 DEF Init, Honest, Handling, NoCmd
<1> QED
  BY <1>1, <1>2, <1>3 DEF ListInv

\* A step after which no report is in flight, and whose list is true of the children
\* before or after it.
LEMMA HonestAfter ==
    ASSUME NEW c \in Clients, ~cmd'[c].pipe, ~Handling(c)',
           Lasting(pstate, pstate'),
           Truthful(jobs'[c], pstate) \/ Truthful(jobs'[c], pstate')
    PROVE  Honest(c)'
<1>1. Truthful(jobs'[c], pstate')
  BY TruthLasts
<1> QED
  BY <1>1 DEF Honest

\* A step of the world around the thread.
LEMMA HonestStill ==
    ASSUME NEW c \in Clients, Honest(c), Lasting(pstate, pstate'),
           UNCHANGED <<jobs, pc, cmd, got, wpid, status>>
    PROVE  Honest(c)'
<1>1. Truthful(jobs'[c], pstate')
  BY TruthLasts DEF Honest
<1> QED
  BY <1>1 DEF Honest, Handling, InFlight, Lasting

\* An entry that a step drops was that of a program that had been waited for.
Remembered(c) ==
    \A pid \in Pid \cap ListedPids(jobs[c]) :
        pid \notin ListedPids(jobs'[c]) => pstate[pid] = "reaped"

LEMMA RememberedIfKept ==
    ASSUME NEW c \in Clients, ListedPids(jobs[c]) \subseteq ListedPids(jobs'[c])
    PROVE  Remembered(c)
BY DEF Remembered

\* A step that forks nobody leaves every child in its own group.
LEMMA GroupsStill ==
    ASSUME Leaders, chid1 \in Pid => pstate[chid1] # "unborn",
           Lasting(pstate, pstate'), pgrp' = pgrp, Unborn' = Unborn
    PROVE  Leaders' /\ (chid1 \in Pid => pstate'[chid1] # "unborn")
BY DEF Leaders, Lasting, Unborn

LEMMA StillLasts == pstate' = pstate => Lasting(pstate, pstate')
BY DEF Lasting

\* fg waits for the group of an entry, which is the entry's program: what it marks
\* "Done" is reaped, if only because waitpid found nobody.
LEMMA FgWaitHonest ==
    ASSUME ListInv, NEW c \in Clients, fg_wait(c)
    PROVE  /\ Lasting(pstate, pstate') /\ pgrp' = pgrp /\ Unborn' = Unborn
           /\ Truthful(jobs'[c], pstate')
           /\ ListedPids(jobs'[c]) = ListedPids(jobs[c])
<1> DEFINE pid == Current(c).pgid
<1>0. /\ KernelTypeOK /\ jobs[c] \in Seq(Job) /\ Leaders /\ Truthful(jobs[c], pstate)
      /\ DOMAIN jobs = Clients
  BY DEF ListInv, TypeOK, Honest
<1> HIDE DEF pid
<1>1. ASSUME NEW p \in Members(pid), Report(p) \in Zombie \cup {"stopped"}, Collect(p),
             jobs' = [jobs EXCEPT ![c] = FgStatus(@, pid, Report(p))]
      PROVE  /\ Lasting(pstate, pstate') /\ pgrp' = pgrp /\ Unborn' = Unborn
             /\ Truthful(jobs'[c], pstate')
             /\ ListedPids(jobs'[c]) = ListedPids(jobs[c])
  <2>1. p \in Pid /\ pstate[p] # "unborn" /\ pgrp[p] = pid
    BY DEF Members, Unreaped
  <2>2. p = pid
    BY <1>0, <2>1 DEF Leaders
  <2>3. /\ Lasting(pstate, pstate') /\ pgrp' = pgrp /\ Unborn' = Unborn
        /\ Report(p) \in Zombie => pstate'[p] = "reaped"
    BY <1>0, <1>1, <2>1, CollectLasts, CollectTyped, ReportsZombie
  <2>4. jobs'[c] = FgStatus(jobs[c], pid, Report(p))
    BY <1>0, <1>1
  <2>5. Truthful(jobs[c], pstate')
    BY <1>0, <2>3, TruthLasts
  <2>6. CASE Report(p) \in Zombie
    <3>1. jobs'[c] = update_jobstatus(jobs[c], pid, "Done")
      BY <2>4, <2>6 DEF FgStatus, Zombie
    <3> QED
      BY <1>0, <2>2, <2>3, <2>5, <2>6, <3>1, MarkTruthful, MarkKeeps DEF JobStatus
  <2>7. CASE Report(p) = "stopped"
    <3>1. jobs'[c] = update_jobstatus(jobs[c], pid, "Stopped")
      BY <2>4, <2>7 DEF FgStatus, Zombie
    <3> QED
      BY <1>0, <2>3, <2>5, <3>1, MarkTruthful, MarkKeeps DEF JobStatus
  <2> QED
    BY <1>1, <2>6, <2>7
<1>2. ASSUME Members(pid) = {}, UNCHANGED kernelVars, NEW s,
             jobs' = [jobs EXCEPT ![c] = FgStatus(@, pid, s)]
      PROVE  /\ Lasting(pstate, pstate') /\ pgrp' = pgrp /\ Unborn' = Unborn
             /\ Truthful(jobs'[c], pstate')
             /\ ListedPids(jobs'[c]) = ListedPids(jobs[c])
  <2>1. pstate' = pstate /\ pgrp' = pgrp /\ Unborn' = Unborn /\ Lasting(pstate, pstate')
    BY <1>2, StillLasts DEF kernelVars, Unborn
  <2>2. pid \in Pid /\ pid \in ListedPids(jobs[c]) => pstate[pid] = "reaped"
    BY <1>0, <1>2 DEF Truthful, Leaders, Members, Unreaped, ListedPids
  <2>3. \A stat \in JobStatus :
           LET marked == update_jobstatus(jobs[c], pid, stat)
           IN  Truthful(marked, pstate) /\ ListedPids(marked) = ListedPids(jobs[c])
    BY <1>0, <2>2, MarkTruthful, MarkKeeps
  <2>4. jobs'[c] = FgStatus(jobs[c], pid, s)
    BY <1>0, <1>2
  <2>5. jobs'[c] = jobs[c] \/ \E stat \in JobStatus : jobs'[c] = update_jobstatus(jobs[c], pid, stat)
    BY <2>4 DEF FgStatus, JobStatus
  <2> QED
    BY <1>0, <2>1, <2>3, <2>5
<1> QED
  BY <1>1, <1>2 DEF fg_wait, pid

\* process_wait_status marks the program whose end was reported, and update_job_list
\* drops one that was reaped.
LEMMA ExitedHonest ==
    ASSUME ListInv, NEW c \in Clients, pc[c] = "status", Exited(c)
    PROVE  Truthful(jobs'[c], pstate) /\ Remembered(c)
<1> DEFINE marked == update_jobstatus(jobs[c], wpid, "Done")
<1>0. /\ jobs[c] \in Seq(Job) /\ DOMAIN jobs = Clients /\ Truthful(jobs[c], pstate)
      /\ wpid \in Pid => pstate[wpid] = "reaped"
  BY DEF ListInv, TypeOK, Honest, Handling, InFlight, Exited
<1>1. /\ marked \in Seq(Job) /\ ListedPids(marked) = ListedPids(jobs[c])
      /\ Truthful(marked, pstate)
  BY <1>0, MarkKeeps, MarkTruthful DEF JobStatus
<1>2. jobs'[c] = update_job_list(marked)
  BY <1>0 DEF Exited
<1> HIDE DEF marked
<1>3. Truthful(jobs'[c], pstate)
  BY <1>1, <1>2, CompactTruthful
<1>4. ASSUME NEW pid \in Pid \cap ListedPids(jobs[c]), pid \notin ListedPids(jobs'[c])
      PROVE  pstate[pid] = "reaped"
  BY <1>1, <1>2, <1>4, CompactForgets
<1> QED
  BY <1>3, <1>4 DEF Remembered

LEMMA AddJobTruthful ==
    ASSUME TypeOK, NEW c \in Clients, NEW pid \in Nat, AddJob(c, pid),
           Truthful(jobs[c], pstate), pid \in Pid => pstate[pid] # "unborn"
    PROVE  Truthful(jobs'[c], pstate) /\ ListedPids(jobs[c]) \subseteq ListedPids(jobs'[c])
<1>1. jobs[c] \in Seq(Job) /\ DOMAIN jobs = Clients
  BY DEF TypeOK
<1>2. jobs'[c] = jobs[c] \/ jobs'[c] = add_to_joblist(jobs[c], pid)
  BY <1>1, AddJobTyped
<1> QED
  BY <1>1, <1>2, AddTruthful, AddLists

LEMMA WaitStatusHonest ==
    ASSUME ListInv, NEW c \in Clients, process_wait_status(c)
    PROVE  /\ Lasting(pstate, pstate') /\ pgrp' = pgrp /\ Unborn' = Unborn
           /\ Truthful(jobs'[c], pstate) /\ Remembered(c)
<1>a. TypeOK /\ Honest(c) /\ pc[c] = "status"
  BY DEF ListInv, process_wait_status
<1>b. wpid \in Nat
  BY <1>a, KernelAssumption DEF TypeOK
<1>0. /\ KernelTypeOK /\ jobs[c] \in Seq(Job) /\ DOMAIN jobs = Clients
      /\ Truthful(jobs[c], pstate) /\ wpid \in Nat /\ pc[c] = "status"
      /\ wpid \in Pid => pstate[wpid] # "unborn"
  BY <1>a, <1>b DEF TypeOK, Honest, Handling, InFlight
<1>1. CASE Exited(c)
  BY <1>0, <1>1, ExitedHonest, StillLasts DEF Exited, kernelVars, Unborn
<1>2. CASE Stopped(c)
  <2>1. Truthful(jobs'[c], pstate) /\ ListedPids(jobs[c]) \subseteq ListedPids(jobs'[c])
    BY <1>a, <1>0, <1>2, AddJobTruthful DEF Stopped
  <2> QED
    BY <1>0, <1>2, <2>1, RememberedIfKept, StillLasts DEF Stopped, kernelVars, Unborn
<1>3. CASE Continued(c)
  <2>1. jobs'[c] = update_jobstatus(jobs[c], wpid, "Running") /\ Continue(Addressed(wpid))
    BY <1>0, <1>3 DEF Continued
  <2>2. Truthful(jobs'[c], pstate) /\ ListedPids(jobs'[c]) = ListedPids(jobs[c])
    BY <1>0, <2>1, MarkTruthful, MarkKeeps DEF JobStatus
  <2> QED
    BY <1>0, <2>1, <2>2, ContinueLasts, ContinueTyped, RememberedIfKept
<1>4. CASE UNCHANGED <<kernelVars, daemon, jobs, below, wait_cnt>>
  BY <1>0, <1>4, RememberedIfKept, StillLasts DEF kernelVars, Unborn
<1> QED
  BY <1>1, <1>2, <1>3, <1>4 DEF process_wait_status

LEMMA ListShell ==
    ASSUME ListInv, NEW c \in Clients, Shell(c)
    PROVE  /\ Honest(c)' /\ Leaders' /\ (chid1 \in Pid => pstate[chid1] # "unborn")'
           /\ Remembered(c)
<1>0. /\ TypeOK /\ KernelTypeOK /\ jobs[c] \in Seq(Job) /\ DOMAIN jobs = Clients /\ Leaders
      /\ chid1 \in Pid => pstate[chid1] # "unborn"
      /\ Truthful(jobs[c], pstate) /\ ~cmd[c].pipe /\ chid1 \in Nat
  BY KernelAssumption DEF ListInv, TypeOK, Honest
<1> USE DEF TypeOK, Goto
<1>1. CASE bg_cmd_process(c)
  <2>1. cmd' = cmd /\ ~Handling(c)' /\ chid1' = chid1
    BY <1>0, <1>1 DEF bg_cmd_process, globalVars, Handling
  <2>2. /\ Lasting(pstate, pstate') /\ pgrp' = pgrp /\ Unborn' = Unborn
    BY <1>0, <1>1, ContinueLasts, ContinueTyped, StillLasts DEF bg_cmd_process, kernelVars, Unborn
  <2>3. Truthful(jobs'[c], pstate) /\ ListedPids(jobs'[c]) = ListedPids(jobs[c])
    <3> DEFINE marked == update_jobstatus(jobs[c], Current(c).pgid, "Running")
    <3>1. Truthful(marked, pstate) /\ ListedPids(marked) = ListedPids(jobs[c])
      BY <1>0, MarkTruthful, MarkKeeps DEF JobStatus
    <3>2. jobs'[c] \in {jobs[c], marked}
      BY <1>0, <1>1 DEF bg_cmd_process
    <3> QED
      BY <1>0, <3>1, <3>2
  <2> QED
    BY <1>0, <2>1, <2>2, <2>3, HonestAfter, GroupsStill, RememberedIfKept
<1>2. CASE fg_cmd_process(c)
  <2>1. cmd' = cmd /\ ~Handling(c)' /\ chid1' = chid1 /\ jobs' = jobs
    BY <1>0, <1>2 DEF fg_cmd_process, globalVars, Handling
  <2>2. /\ Lasting(pstate, pstate') /\ pgrp' = pgrp /\ Unborn' = Unborn
    BY <1>0, <1>2, ContinueLasts, ContinueTyped, StillLasts DEF fg_cmd_process, kernelVars, Unborn
  <2> QED
    BY <1>0, <2>1, <2>2, HonestAfter, GroupsStill, RememberedIfKept
<1>3. CASE fg_wait(c)
  <2>1. cmd' = cmd /\ ~Handling(c)' /\ chid1' = chid1
    BY <1>0, <1>3 DEF fg_wait, globalVars, Handling
  <2> QED
    BY <1>0, <1>3, <2>1, FgWaitHonest, HonestAfter, GroupsStill, RememberedIfKept
<1>4. CASE ForkFirst(c)
  <2>1. cmd' = cmd /\ ~Handling(c)' /\ jobs' = jobs
    BY <1>0, <1>4 DEF ForkFirst, Handling
  <2>2. PICK p \in Pid : /\ Fork(p, p, IF cmd[c].head = "bg" THEN "signaled" ELSE "running")
                         /\ chid1' = p
    BY <1>4 DEF ForkFirst, Unborn
  <2>3. Lasting(pstate, pstate') /\ Leaders' /\ pstate'[p] # "unborn"
    BY <1>0, <2>2, ForkLasts
  <2> QED
    BY <1>0, <2>1, <2>2, <2>3, HonestAfter, RememberedIfKept
<1>5. CASE ForkSecond(c) \/ Latest(c) \/ Started(c)
  <2>1. cmd' = cmd /\ ~Handling(c)' /\ chid1' = chid1 /\ jobs' = jobs /\ UNCHANGED kernelVars
    BY <1>0, <1>5 DEF ForkSecond, Latest, Started, Handling
  <2> QED
    BY <1>0, <2>1, HonestAfter, GroupsStill, RememberedIfKept, StillLasts
       DEF kernelVars, Unborn
<1>6. CASE BackgroundAdd(c)
  <2>1. /\ cmd' = cmd /\ ~Handling(c)' /\ chid1' = chid1 /\ UNCHANGED kernelVars
        /\ AddJob(c, chid1)
    BY <1>0, <1>6 DEF BackgroundAdd, globalVars, Handling
  <2>2. Truthful(jobs'[c], pstate) /\ ListedPids(jobs[c]) \subseteq ListedPids(jobs'[c])
    <3> HIDE DEF TypeOK
    <3> QED
      BY <1>0, <2>1, AddJobTruthful
  <2> QED
    BY <1>0, <2>1, <2>2, HonestAfter, GroupsStill, RememberedIfKept, StillLasts
       DEF kernelVars, Unborn
<1>7. CASE BackgroundContinue(c)
  <2>1. /\ cmd' = cmd /\ ~Handling(c)' /\ chid1' = chid1 /\ Continue(Members(chid1))
        /\ jobs'[c] = update_jobstatus(jobs[c], chid1, "Running")
    BY <1>0, <1>7 DEF BackgroundContinue, globalVars, Handling
  <2>2. Truthful(jobs'[c], pstate) /\ ListedPids(jobs'[c]) = ListedPids(jobs[c])
    BY <1>0, <2>1, MarkTruthful, MarkKeeps DEF JobStatus
  <2> QED
    BY <1>0, <2>1, <2>2, ContinueLasts, ContinueTyped, HonestAfter, GroupsStill, RememberedIfKept
<1>8. CASE WaitChild(c)
  <2>1. PICK p \in Reported : Collect(p) /\ status' = Report(p) /\ got' = [got EXCEPT ![c] = p]
    BY <1>8 DEF WaitChild
  <2>2. p \in Pid /\ pstate[p] # "unborn"
    BY DEF Reported, Unreaped
  <2>3. /\ cmd' = cmd /\ pc'[c] = "store" /\ got'[c] = p /\ jobs' = jobs /\ chid1' = chid1
    BY <1>0, <1>8, <2>1 DEF WaitChild
  <2>4. /\ Lasting(pstate, pstate') /\ pgrp' = pgrp /\ Unborn' = Unborn
        /\ pstate[p] \in Zombie => pstate'[p] = "reaped"
    BY <1>0, <2>1, <2>2, CollectLasts, CollectTyped
  <2>5. status' = "exited" => pstate'[p] = "reaped"
    BY <1>0, <2>1, <2>2, <2>4, ReportsZombie DEF Zombie
  <2>6. Truthful(jobs'[c], pstate') /\ pstate'[p] # "unborn"
    BY <1>0, <2>2, <2>3, <2>4, TruthLasts DEF Lasting
  <2>7. Honest(c)'
    BY <1>0, <2>3, <2>5, <2>6 DEF Honest, Handling, InFlight
  <2> QED
    BY <1>0, <2>3, <2>4, <2>7, GroupsStill, RememberedIfKept
<1>9. CASE StoreWpid(c)
  <2>1. /\ cmd' = cmd /\ pc[c] = "store" /\ pc'[c] = "status" /\ wpid' = got[c] /\ jobs' = jobs
        /\ chid1' = chid1 /\ status' = status /\ UNCHANGED kernelVars
    BY <1>0, <1>9 DEF StoreWpid
  <2>2. Honest(c)'
    BY <2>1 DEF ListInv, Honest, Handling, InFlight, kernelVars
  <2> QED
    BY <1>0, <2>1, <2>2, GroupsStill, RememberedIfKept, StillLasts DEF kernelVars, Unborn
<1>10. CASE WaitFails(c)
  <2>1. UNCHANGED <<kernelVars, threadVars, globalVars>>
    BY <1>10 DEF WaitFails
  <2>2. Honest(c)'
    BY <2>1, HonestStill, StillLasts DEF ListInv, kernelVars, threadVars, globalVars
  <2> QED
    BY <1>0, <2>1, <2>2, GroupsStill, RememberedIfKept, StillLasts
       DEF kernelVars, Unborn, threadVars, globalVars
<1>11. CASE process_wait_status(c)
  <2>1. cmd' = cmd /\ ~Handling(c)' /\ chid1' = chid1
    BY <1>0, <1>11 DEF process_wait_status, Handling
  <2> QED
    BY <1>0, <1>11, <2>1, WaitStatusHonest, HonestAfter, GroupsStill
<1>12. CASE Prompt(c)
  <2>1. /\ cmd'[c] = NoCmd /\ ~Handling(c)' /\ jobs' = jobs /\ chid1' = chid1
        /\ UNCHANGED kernelVars
    BY <1>0, <1>12 DEF Prompt, globalVars, Handling
  <2> QED
    BY <1>0, <2>1, HonestAfter, GroupsStill, RememberedIfKept, StillLasts
       DEF kernelVars, Unborn, NoCmd
<1> QED
  BY <1>1, <1>2, <1>3, <1>4, <1>5, <1>6, <1>7, <1>8, <1>9, <1>10, <1>11, <1>12 DEF Shell

\* Messages, the end of the connection, and what becomes of the children.
LEMMA ListRest ==
    ASSUME ListInv, NEW c \in Clients, Client(c) \/ ChildStep \/ UNCHANGED vars,
           \A k \in Cmds : Recv(c, k) => ~k.pipe
    PROVE  /\ Honest(c)' /\ Leaders' /\ (chid1 \in Pid => pstate[chid1] # "unborn")'
           /\ Remembered(c)
<1>0. /\ TypeOK /\ KernelTypeOK /\ Leaders /\ Honest(c) /\ Truthful(jobs[c], pstate)
      /\ chid1 \in Pid => pstate[chid1] # "unborn"
      /\ ~cmd[c].pipe
  BY DEF ListInv, TypeOK, Honest
<1>1. ASSUME NEW k \in Cmds, Recv(c, k)
      PROVE  /\ Honest(c)' /\ Leaders' /\ (chid1 \in Pid => pstate[chid1] # "unborn")'
             /\ Remembered(c)
  <2>1. /\ cmd'[c] = k /\ jobs' = jobs /\ chid1' = chid1 /\ UNCHANGED kernelVars
        /\ pc'[c] \in {"bg", "fg", "recv", "fork1"}
    BY <1>0, <1>1 DEF Recv, Goto, TypeOK
  <2>2. ~Handling(c)' /\ ~cmd'[c].pipe
    BY <1>1, <2>1 DEF Handling
  <2> QED
    BY <1>0, <2>1, <2>2, HonestAfter, GroupsStill, RememberedIfKept, StillLasts
       DEF kernelVars, Unborn
<1>2. ASSUME NEW sig \in Ctls, Ctl(c, sig)
      PROVE  /\ Honest(c)' /\ Leaders' /\ (chid1 \in Pid => pstate[chid1] # "unborn")'
             /\ Remembered(c)
  <2>1. cmd' = cmd /\ jobs' = jobs /\ chid1' = chid1 /\ ~Handling(c)'
    BY <1>0, <1>2 DEF Ctl, Goto, TypeOK, globalVars, Handling
  <2>2. Lasting(pstate, pstate') /\ pgrp' = pgrp /\ Unborn' = Unborn
    BY <1>0, <1>2, DeliverLasts, DeliverTyped, StillLasts DEF Ctl, kernelVars, Unborn
  <2> QED
    BY <1>0, <2>1, <2>2, HonestAfter, GroupsStill, RememberedIfKept
<1>3. CASE Disconnect(c)
  <2>1. /\ cmd' = cmd /\ jobs' = jobs /\ chid1' = chid1 /\ ~Handling(c)'
        /\ UNCHANGED kernelVars
    BY <1>0, <1>3 DEF Disconnect, Goto, TypeOK, globalVars, Handling
  <2> QED
    BY <1>0, <2>1, HonestAfter, GroupsStill, RememberedIfKept, StillLasts
       DEF kernelVars, Unborn
<1>4. CASE ChildStep
  <2>1. PICK p \in Pid : ProcStep(p) /\ UNCHANGED <<daemon, threadVars, globalVars>>
    BY <1>4 DEF ChildStep
  <2>2. Lasting(pstate, pstate') /\ pgrp' = pgrp /\ Unborn' = Unborn
    BY <1>0, <2>1, ProcStepLasts, ProcStepTyped
  <2>3. Honest(c)'
    BY <1>0, <2>1, <2>2, HonestStill DEF threadVars, globalVars
  <2> QED
    BY <1>0, <2>1, <2>2, <2>3, GroupsStill, RememberedIfKept DEF threadVars, globalVars
<1>5. CASE UNCHANGED vars
  <2>1. UNCHANGED <<pstate, pgrp, jobs, pc, cmd, got, wpid, status, chid1>>
    BY <1>5 DEF vars, kernelVars, threadVars, globalVars
  <2> QED
    BY <1>0, <2>1, HonestStill, GroupsStill, RememberedIfKept, StillLasts DEF Unborn
<1> QED
  BY <1>1, <1>2, <1>3, <1>4, <1>5 DEF Client

LEMMA ListStep ==
    Single /\ ListInv /\ [Next]_vars => ListInv' /\ \A c \in Clients : Remembered(c)
<1> SUFFICES ASSUME Single, ListInv, [Next]_vars
             PROVE  ListInv' /\ \A c \in Clients : Remembered(c)
  OBVIOUS
<1>1. PICK c \in Clients : Clients = {c}
  BY DEF Single, Alone
<1>2. Shell(c) \/ Client(c) \/ ChildStep \/ UNCHANGED vars
  BY <1>1 DEF Next
<1>3. /\ Honest(c)' /\ Leaders' /\ (chid1 \in Pid => pstate[chid1] # "unborn")'
      /\ Remembered(c)
  BY <1>2, ListShell, ListRest DEF Single
<1>4. TypeOK'
  BY NextTyped DEF ListInv
<1> QED
  BY <1>1, <1>3, <1>4 DEF ListInv

\* update_job_list never drops a program that is still there (daemon/server.c:257-272),
\* in whatever order fg, bg, the wait loop and process_wait_status mark its entry, for
\* one client whose lines have one program each, "&" included.
THEOREM NothingForgotten == ASSUME Single PROVE Spec => NeverForgotten
<1>1. Init => ListInv
  BY ListInit
<1>2. ListInv /\ [Next]_vars => ListInv'
  BY ListStep
<1>3. ListInv /\ [Next]_vars =>
         [\A c \in Clients : \A pid \in Pid \cap ListedPids(jobs[c]) :
             pid \notin ListedPids(jobs'[c]) => pstate[pid] = "reaped"]_vars
  BY ListStep DEF Remembered
<1> QED
  BY <1>1, <1>2, <1>3, PTL DEF Spec, NeverForgotten

-----------------------------------------------------------------------------
(* The children a wait loop is still to be told of, for a client that uses *)
(* neither "&" nor bg and brings back programs one at a time.              *)

\* A program that has stopped and whose stop has been reported.
Quiet(p) == pstate[p] \in Halted /\ pevent[p] = "none"
Active == {p \in Unreaped : ~Quiet(p)}

\* A reported stop lasts until SIGCONT or the end replaces it; before its birth a
\* process has no event.
Events ==
    \A p \in Pid : /\ pevent[p] = "stopped" => pstate[p] \in Halted
                   /\ pstate[p] = "unborn" => pevent[p] = "none"

\* SIGCONT is not what the loop is to be told of.
NoneWoken == \A p \in Active : pevent[p] # "continued"

\* No stopped program is killed outright.
Unharmed == \A p \in Pid : ~(pstate[p] \in Halted /\ pstate'[p] \in Zombie)

LEMMA ActiveDeliver ==
    ASSUME KernelTypeOK, Events, NEW S, NEW sig, Deliver(S, sig)
    PROVE  Active' = Active /\ Events' /\ (NoneWoken => NoneWoken')
<1>1. ASSUME NEW p \in Pid
      PROVE  /\ p \in Active' <=> p \in Active
             /\ pevent'[p] = "stopped" => pstate'[p] \in Halted
             /\ pstate'[p] = "unborn" => pevent'[p] = "none"
             /\ pevent'[p] = "continued" => pevent[p] = "continued"
  BY <1>1 DEF KernelTypeOK, Events, Active, Quiet, Unreaped, Deliver, Suspend, Interrupt, Halted
<1>2. Active' \subseteq Pid /\ Active \subseteq Pid
  BY DEF Active, Unreaped
<1> QED
  BY <1>1, <1>2 DEF Events, NoneWoken

LEMMA ActiveProcStep ==
    ASSUME KernelTypeOK, Events, NEW p \in Pid, ProcStep(p), Unharmed
    PROVE  Active' = Active /\ Events' /\ (NoneWoken => NoneWoken')
<1>1. ASSUME NEW q \in Pid
      PROVE  /\ q \in Active' <=> q \in Active
             /\ pevent'[q] = "stopped" => pstate'[q] \in Halted
             /\ pstate'[q] = "unborn" => pevent'[q] = "none"
             /\ pevent'[q] = "continued" => pevent[q] = "continued"
  BY <1>1 DEF KernelTypeOK, Events, Active, Quiet, Unreaped, ProcStep, ProcExit, ProcKilled,
              ProcStopped, Halted, Zombie, Unharmed
<1>2. Active' \subseteq Pid /\ Active \subseteq Pid
  BY DEF Active, Unreaped
<1> QED
  BY <1>1, <1>2 DEF Events, NoneWoken

LEMMA ActiveFork ==
    ASSUME KernelTypeOK, Events, NEW p \in Pid, NEW g, NEW s \in {"running", "signaled"},
           Fork(p, g, s)
    PROVE  /\ p \notin Active /\ Active' = Active \cup {p} /\ Events'
           /\ NoneWoken => NoneWoken'
<1>1. ASSUME NEW q \in Pid
      PROVE  /\ q \in Active' <=> q \in Active \/ q = p
             /\ pevent'[q] = "stopped" => pstate'[q] \in Halted
             /\ pstate'[q] = "unborn" => pevent'[q] = "none"
             /\ pevent'[q] = pevent[q]
  BY <1>1 DEF KernelTypeOK, Events, Active, Quiet, Unreaped, Unborn, Fork, Halted
<1>2. Active' \subseteq Pid /\ Active \subseteq Pid
  BY DEF Active, Unreaped
<1>3. p \notin Active /\ pevent[p] = "none"
  BY DEF Fork, Unborn, Active, Unreaped, Events
<1> QED
  BY <1>1, <1>2, <1>3 DEF Events, NoneWoken

LEMMA ActiveContinue ==
    ASSUME KernelTypeOK, Events, NEW S, Continue(S)
    PROVE  Active' \subseteq Active \cup S /\ Events'
<1>1. ASSUME NEW p \in Pid
      PROVE  /\ p \in Active' => p \in Active \/ p \in S
             /\ pevent'[p] = "stopped" => pstate'[p] \in Halted
             /\ pstate'[p] = "unborn" => pevent'[p] = "none"
  BY <1>1 DEF KernelTypeOK, Events, Active, Quiet, Unreaped, Continue, Halted
<1>2. Active' \subseteq Pid
  BY DEF Active, Unreaped
<1> QED
  BY <1>1, <1>2 DEF Events

\* waitpid takes one child off the list of those to be told of, unless it reports a
\* SIGCONT.
LEMMA ActiveCollect ==
    ASSUME KernelTypeOK, Events, NEW p \in Unreaped, Collect(p),
           Report(p) \notin {"none", "continued"}
    PROVE  /\ p \in Active /\ Active' = Active \ {p} /\ Events'
           /\ NoneWoken => NoneWoken'
<1>0. p \in Pid
  BY DEF Unreaped
<1>1. ASSUME NEW q \in Pid
      PROVE  /\ q \in Active' <=> q \in Active /\ q # p
             /\ pevent'[q] = "stopped" => pstate'[q] \in Halted
             /\ pstate'[q] = "unborn" => pevent'[q] = "none"
             /\ pevent'[q] = "continued" => pevent[q] = "continued"
  BY <1>0, <1>1 DEF KernelTypeOK, Events, Active, Quiet, Unreaped, Collect, Report, Halted, Zombie,
                    Event
<1>2. Active' \subseteq Pid /\ Active \subseteq Pid
  BY DEF Active, Unreaped
<1>3. p \in Active
  BY <1>0 DEF Active, Quiet, Report, Halted, Zombie
<1> QED
  BY <1>1, <1>2, <1>3 DEF Events, NoneWoken

LEMMA ActiveSame ==
    ASSUME UNCHANGED kernelVars
    PROVE  /\ Active' = Active /\ Events' = Events /\ NoneWoken' = NoneWoken
           /\ Unreaped' = Unreaped /\ Unborn' = Unborn
BY DEF kernelVars, Active, Quiet, Unreaped, Unborn, Events, NoneWoken

OneOnly(S) == \A p, q \in S : p = q

LEMMA AtMostOne ==
    ASSUME NEW S, IsFiniteSet(S), Cardinality(S) <= 1
    PROVE  OneOnly(S)
<1> SUFFICES ASSUME NEW p \in S, NEW q \in S, p # q PROVE FALSE
  BY DEF OneOnly
<1>1. IsFiniteSet(S \ {p}) /\ Cardinality(S \ {p}) = Cardinality(S) - 1
  BY FS_RemoveElement
<1>2. Cardinality(S) \in Nat /\ Cardinality(S \ {p}) \in Nat
  BY <1>1, FS_CardinalityType
<1>3. Cardinality(S \ {p}) = 0
  BY <1>1, <1>2
<1>4. S \ {p} = {}
  BY <1>1, <1>3, FS_EmptySet
<1> QED
  BY <1>4

LEMMA PidFinite == IsFiniteSet(Pid)
BY KernelAssumption, FS_Interval DEF Pid

\* What the thread of c still waits for covers what there is to be told.
Work(c) ==
    /\ pc[c] \notin {"bg", "bgadd", "bgcont"}
    /\ ~cmd[c].amp
    /\ pc[c] \in {"recv", "ended", "fg", "fork1"} => Active = {}
    /\ pc[c] \in {"fg", "fgwait", "fork1"} => wait_cnt = 0 /\ waited[c] = 0
    /\ pc[c] = "fgwait" =>
          /\ OneOnly(Members(Current(c).pgid))
          /\ Active \subseteq Members(Current(c).pgid)
    /\ pc[c] \in {"fork2", "started", "sync", "wait"} =>
          NoneWoken /\ Cardinality(Active) <= wait_cnt - waited[c]
    /\ Handling(c) =>
          /\ NoneWoken /\ Cardinality(Active) <= wait_cnt - waited[c] - 1
          /\ status # "continued"

\* fg continues one program and waits until it stops again or ends.
LEMMA WorkFgWait ==
    ASSUME TypeOK, Events, NEW c \in Clients, Work(c), fg_wait(c)
    PROVE  Active' = {} /\ Events'
<1>0. KernelTypeOK /\ pc[c] = "fgwait"
  BY DEF TypeOK, fg_wait
<1> DEFINE pid == Current(c).pgid
<1>1. OneOnly(Members(pid)) /\ Active \subseteq Members(pid)
  BY <1>0 DEF Work
<1> HIDE DEF pid
<1>2. ASSUME NEW p \in Members(pid), Report(p) \in Zombie \cup {"stopped"}, Collect(p)
      PROVE  Active' = {} /\ Events'
  <2>1. p \in Unreaped /\ Report(p) \notin {"none", "continued"}
    BY <1>2 DEF Members, Zombie
  <2>2. Active' = Active \ {p} /\ Events'
    BY <1>0, <1>2, <2>1, ActiveCollect
  <2> QED
    BY <1>1, <2>2 DEF OneOnly
<1>3. ASSUME Members(pid) = {}, UNCHANGED kernelVars
      PROVE  Active' = {} /\ Events'
  BY <1>1, <1>3, ActiveSame
<1> QED
  BY <1>2, <1>3 DEF fg_wait, pid

LEMMA WorkShell ==
    ASSUME TypeOK, Events, NEW c \in Clients, Work(c), Shell(c),
           pc[c] = "fg" /\ jobs[c] # <<>> => OneOnly(Members(Current(c).pgid))
    PROVE  Work(c)' /\ Events'
<1>0. /\ KernelTypeOK /\ jobs[c] \in Seq(Job) /\ waited[c] \in Nat /\ wait_cnt \in Nat
      /\ pc[c] \notin {"bg", "bgadd", "bgcont"} /\ ~cmd[c].amp
      /\ DOMAIN pc = Clients /\ DOMAIN waited = Clients /\ DOMAIN got = Clients
      /\ DOMAIN cmd = Clients
  BY DEF TypeOK, Work
<1>a. Active \in SUBSET Pid /\ Active' \in SUBSET Pid
  BY DEF Active, Unreaped, Pid
<1>b. Cardinality(Active) \in Nat /\ Cardinality(Active') \in Nat
  BY <1>a, CountHidden
<1>c. \A S : S = {} => Cardinality(S) = 0
  BY FS_EmptySet
<1> USE DEF Goto
<1>1. CASE bg_cmd_process(c) \/ BackgroundAdd(c) \/ BackgroundContinue(c)
  BY <1>0, <1>1 DEF bg_cmd_process, BackgroundAdd, BackgroundContinue
<1>2. CASE fg_cmd_process(c)
  <2>1. /\ pc[c] = "fg" /\ cmd' = cmd /\ jobs' = jobs /\ wait_cnt' = 0 /\ waited'[c] = 0
        /\ Active = {}
    BY <1>2 DEF fg_cmd_process, globalVars, Work
  <2>2. CASE Len(jobs[c]) = 0
    <3>1. pc'[c] = "fork2" /\ UNCHANGED kernelVars
      BY <1>0, <1>2, <2>2 DEF fg_cmd_process
    <3>2. Active' = {} /\ Events' /\ NoneWoken'
      BY <2>1, <3>1, ActiveSame DEF NoneWoken
    <3> QED
      BY <1>0, <1>c, <2>1, <3>1, <3>2 DEF Work, Handling
  <2>3. CASE Len(jobs[c]) # 0
    <3>1. pc'[c] = "fgwait" /\ Continue(Members(Current(c).pgid))
      BY <1>0, <1>2, <2>3 DEF fg_cmd_process
    <3>2. Active' \subseteq Members(Current(c).pgid) /\ Events'
      BY <1>0, <2>1, <3>1, ActiveContinue
    <3>3. Members(Current(c).pgid)' = Members(Current(c).pgid)
      <4>1. Unreaped' = Unreaped /\ pgrp' = pgrp
        BY <1>0, <3>1, ContinueTyped DEF Continue
      <4> QED
        BY <2>1, <4>1 DEF Members, Current
    <3>4. OneOnly(Members(Current(c).pgid))
      BY <2>1, <2>3
    <3> QED
      BY <1>0, <2>1, <3>1, <3>2, <3>3, <3>4 DEF Work, Handling
  <2> QED
    BY <2>2, <2>3
<1>3. CASE fg_wait(c)
  <2>1. /\ pc'[c] = "fork2" /\ cmd' = cmd /\ wait_cnt' = 0 /\ waited'[c] = 0
    BY <1>0, <1>3 DEF fg_wait, globalVars, Work
  <2>2. Active' = {} /\ Events'
    BY <1>3, WorkFgWait
  <2> QED
    BY <1>0, <1>c, <2>1, <2>2 DEF Work, Handling, NoneWoken
<1>4. CASE ForkFirst(c)
  <2>1. /\ pc'[c] = "fork2" /\ cmd' = cmd /\ wait_cnt' = 1 /\ waited'[c] = 0 /\ Active = {}
    BY <1>0, <1>4 DEF ForkFirst, Work
  <2>2. PICK p \in Pid : Fork(p, p, IF cmd[c].head = "bg" THEN "signaled" ELSE "running")
    BY <1>4 DEF ForkFirst, Unborn
  <2>3. p \notin Active /\ Active' = Active \cup {p} /\ Events' /\ (NoneWoken => NoneWoken')
    BY <1>0, <2>2, ActiveFork
  <2>4. Cardinality(Active') = Cardinality(Active) + 1
    BY <1>a, <2>3, CountHidden
  <2>5. Cardinality(Active) = 0 /\ NoneWoken
    BY <1>c, <2>1 DEF NoneWoken
  <2> QED
    BY <1>0, <2>1, <2>3, <2>4, <2>5 DEF Work, Handling
<1>5. CASE ForkSecond(c)
  <2>1. /\ pc'[c] = "started" /\ cmd' = cmd /\ waited' = waited
        /\ NoneWoken /\ Cardinality(Active) <= wait_cnt - waited[c]
    BY <1>0, <1>5 DEF ForkSecond, Work
  <2>2. CASE cmd[c].pipe
    <3>1. PICK p \in Pid : \E g \in JoinedGroups(p) : Fork(p, g, "running")
      BY <1>5, <2>2 DEF ForkSecond, Unborn
    <3>2. p \notin Active /\ Active' = Active \cup {p} /\ Events' /\ (NoneWoken => NoneWoken')
      BY <1>0, <3>1, ActiveFork
    <3>3. Cardinality(Active') = Cardinality(Active) + 1 /\ wait_cnt' = wait_cnt + 1
      BY <1>5, <1>a, <2>2, <3>2, CountHidden DEF ForkSecond
    <3> QED
      BY <1>0, <1>b, <2>1, <3>2, <3>3 DEF Work, Handling
  <2>3. CASE ~cmd[c].pipe
    <3>1. UNCHANGED <<kernelVars, wait_cnt>>
      BY <1>5, <2>3 DEF ForkSecond
    <3> QED
      BY <1>0, <2>1, <3>1, ActiveSame DEF Work, Handling
  <2> QED
    BY <2>2, <2>3
<1>6. CASE Latest(c) \/ Started(c)
  <2>1. /\ \/ pc[c] = "started" /\ pc'[c] = "sync"
           \/ pc[c] = "sync" /\ pc'[c] = "wait"
        /\ UNCHANGED <<cmd, waited, wait_cnt, kernelVars>>
    BY <1>0, <1>6 DEF Latest, Started
  <2> QED
    BY <1>0, <2>1, ActiveSame DEF Work, Handling
<1>7. CASE WaitChild(c)
  <2>1. PICK p \in Reported : Collect(p) /\ status' = Report(p)
    BY <1>7 DEF WaitChild
  <2>2. /\ pc[c] = "wait" /\ pc'[c] = "store" /\ UNCHANGED <<cmd, waited, wait_cnt>>
    BY <1>0, <1>7 DEF WaitChild
  <2>3. NoneWoken /\ Cardinality(Active) <= wait_cnt - waited[c]
    BY <2>2 DEF Work
  <2>4. p \in Unreaped /\ Report(p) # "none"
    BY DEF Reported
  <2>5. Report(p) # "continued"
    BY <2>3, <2>4 DEF NoneWoken, Active, Quiet, Report, Zombie
  <2>6. p \in Active /\ Active' = Active \ {p} /\ Events' /\ NoneWoken'
    BY <1>0, <2>1, <2>3, <2>4, <2>5, ActiveCollect
  <2>7. Cardinality(Active) = Cardinality(Active') + 1
    BY <1>a, <2>6, CountHidden
  <2> QED
    BY <1>0, <1>b, <2>1, <2>2, <2>3, <2>5, <2>6, <2>7 DEF Work, Handling
<1>8. CASE StoreWpid(c)
  <2>1. /\ pc[c] = "store" /\ pc'[c] = "status"
        /\ UNCHANGED <<cmd, waited, wait_cnt, status, kernelVars>>
    BY <1>0, <1>8 DEF StoreWpid
  <2> QED
    BY <1>0, <2>1, ActiveSame DEF Work, Handling
<1>9. CASE WaitFails(c)
  <2>1. UNCHANGED <<kernelVars, threadVars, globalVars>>
    BY <1>9 DEF WaitFails
  <2>2. UNCHANGED <<pc, cmd, jobs, waited, wait_cnt, status>>
    BY <2>1 DEF threadVars, globalVars
  <2>3. pc[c] = "wait"
    BY <1>9 DEF WaitFails
  <2> QED
    BY <2>1, <2>2, <2>3, ActiveSame DEF Work, Handling
<1>10. CASE process_wait_status(c)
  <2>1. /\ pc[c] = "status" /\ pc'[c] = "wait" /\ cmd' = cmd /\ waited'[c] = waited[c] + 1
    BY <1>0, <1>10 DEF process_wait_status
  <2>2. /\ NoneWoken /\ Cardinality(Active) <= wait_cnt - waited[c] - 1 /\ status # "continued"
    BY <2>1 DEF Work, Handling
  <2>3. UNCHANGED kernelVars /\ wait_cnt' \in {wait_cnt, wait_cnt + 1}
    BY <1>10, <2>2 DEF process_wait_status, Exited, Stopped, Continued
  <2> QED
    BY <1>0, <1>b, <2>1, <2>2, <2>3, ActiveSame DEF Work, Handling
<1>11. CASE Prompt(c)
  <2>1. /\ pc[c] = "wait" /\ pc'[c] = "recv" /\ cmd'[c] = NoCmd /\ UNCHANGED kernelVars
        /\ waited[c] >= wait_cnt
    BY <1>0, <1>11 DEF Prompt
  <2>2. Cardinality(Active) <= wait_cnt - waited[c]
    BY <2>1 DEF Work
  <2>3. Cardinality(Active) = 0
    BY <1>0, <1>b, <2>1, <2>2
  <2>4. Active = {}
    <3>1. IsFiniteSet(Active)
      BY <1>a, PidFinite, FS_Subset
    <3> QED
      BY <2>3, <3>1, FS_EmptySet
  <2> QED
    BY <1>0, <2>1, <2>4, ActiveSame DEF Work, Handling, NoCmd
<1> QED
  BY <1>1, <1>2, <1>3, <1>4, <1>5, <1>6, <1>7, <1>8, <1>9, <1>10, <1>11 DEF Shell

LEMMA WorkStill ==
    ASSUME NEW c \in Clients, Work(c), Active' = Active, NoneWoken => NoneWoken',
           Unreaped' = Unreaped, pgrp' = pgrp,
           UNCHANGED <<jobs[c], pc[c], cmd[c], waited[c], wait_cnt, status>>
    PROVE  Work(c)'
<1>1. Members(Current(c).pgid)' = Members(Current(c).pgid) /\ Handling(c)' = Handling(c)
  BY DEF Members, Current, Handling
<1> QED
  BY <1>1 DEF Work

-----------------------------------------------------------------------------
(* One client that keeps to programs and fg, and whose stopped programs    *)
(* nobody kills: the list and the children agree.                          *)

\* No pid of S has two entries.
Spaced(list, S) ==
    \A i, j \in DOMAIN list : list[i].pgid = list[j].pgid /\ list[i].pgid \in S => i = j

LEMMA MarkEntries ==
    ASSUME NEW list \in Seq(Job), NEW pid, NEW stat \in JobStatus, NEW i \in DOMAIN list
    PROVE  LET marked == update_jobstatus(list, pid, stat)
           IN  /\ DOMAIN marked = DOMAIN list
               /\ list[i].pgid # pid => marked[i] = list[i]
               /\ EntriesOf(list, pid) = {i} => marked[i].status = stat
<1>1. CASE EntriesOf(list, pid) = {}
  BY <1>1 DEF update_jobstatus
<1>2. CASE EntriesOf(list, pid) # {}
  <2> DEFINE e == FirstOf(EntriesOf(list, pid))
             marked == [list EXCEPT ![e].status = stat]
  <2>1. e \in EntriesOf(list, pid)
    BY <1>2, FirstIsIn, DomainOfList DEF EntriesOf
  <2>2. e \in DOMAIN list /\ list[e].pgid = pid /\ list[e] \in Job
    BY <2>1 DEF EntriesOf
  <2>3. EntriesOf(list, pid) = {i} => e = i
    BY <2>1
  <2> HIDE DEF e
  <2>4. DOMAIN marked = DOMAIN list /\ (i # e => marked[i] = list[i])
    OBVIOUS
  <2>5. marked[e].status = stat
    BY <2>2 DEF Job
  <2>6. update_jobstatus(list, pid, stat) = marked
    BY <1>2 DEF update_jobstatus, e
  <2> HIDE DEF marked
  <2> QED
    BY <2>2, <2>3, <2>4, <2>5, <2>6
<1> QED
  BY <1>1, <1>2

LEMMA MarkSpaced ==
    ASSUME NEW list \in Seq(Job), NEW pid, NEW stat \in JobStatus, NEW S, Spaced(list, S)
    PROVE  Spaced(update_jobstatus(list, pid, stat), S)
<1> DEFINE marked == update_jobstatus(list, pid, stat)
<1>1. \A i \in DOMAIN list : marked[i].pgid = list[i].pgid
  BY MarkKeeps
<1>2. DOMAIN marked = DOMAIN list
  <2>1. marked \in Seq(Job) /\ Len(marked) = Len(list)
    BY MarkKeeps
  <2> HIDE DEF marked
  <2> QED
    BY <2>1
<1> HIDE DEF marked
<1>3. Spaced(marked, S)
  BY <1>1, <1>2 DEF Spaced
<1> QED
  BY <1>3 DEF marked

LEMMA AddSpaced ==
    ASSUME NEW list \in Seq(Job), NEW pid \in Nat, pid \notin ListedPids(list),
           NEW S, Spaced(list, S)
    PROVE  Spaced(add_to_joblist(list, pid), S)
<1> DEFINE longer == add_to_joblist(list, pid)
           n == Len(list)
<1>1. /\ DOMAIN longer = 1 .. n + 1 /\ DOMAIN list = 1 .. n /\ n \in Nat
      /\ \A i \in 1 .. n : longer[i] = list[i]
      /\ longer[n + 1].pgid = pid
  BY DEF add_to_joblist
<1>2. \A i \in 1 .. n : list[i].pgid # pid
  BY <1>1 DEF ListedPids
<1> HIDE DEF longer, n
<1>3. \A i \in 1 .. n + 1 : i \in 1 .. n \/ i = n + 1
  BY <1>1
<1>4. Spaced(longer, S)
  BY <1>1, <1>2, <1>3 DEF Spaced
<1> QED
  BY <1>4 DEF longer

LEMMA CompactSpaced ==
    ASSUME NEW list \in Seq(Job), NEW S, Spaced(list, S)
    PROVE  Spaced(update_job_list(list), S)
<1>1. CASE DoneEntries(list) = {}
  BY <1>1 DEF update_job_list
<1>2. CASE DoneEntries(list) # {}
  <2> DEFINE e == FirstOf(DoneEntries(list))
             n == Len(list) - 1
             left == [k \in 1 .. n |-> IF k < e THEN list[k] ELSE list[k + 1]]
  <2>1. update_job_list(list) = left
    BY <1>2 DEF update_job_list, DropEntry
  <2>2. e \in DoneEntries(list)
    BY <1>2, FirstIsIn, DomainOfList DEF DoneEntries
  <2>3. e \in DOMAIN list
    BY <2>2 DEF DoneEntries
  <2> HIDE DEF e
  <2>4. DOMAIN list = 1 .. n + 1 /\ n \in Nat /\ e \in Nat
    BY <2>3
  <2> HIDE DEF n
  <2> DEFINE from(k) == IF k < e THEN k ELSE k + 1
  <2>5. \A k \in 1 .. n : from(k) \in DOMAIN list /\ left[k] = list[from(k)]
    BY <2>4
  <2>6. \A i, j \in 1 .. n : from(i) = from(j) => i = j
    BY <2>4
  <2>7. DOMAIN left = 1 .. n
    OBVIOUS
  <2> HIDE DEF left, from
  <2>8. Spaced(left, S)
    BY <2>5, <2>6, <2>7 DEF Spaced
  <2> QED
    BY <2>1, <2>8
<1> QED
  BY <1>1, <1>2

LEMMA SpacedCount ==
    ASSUME NEW list \in Seq(Job), Spaced(list, Nat)
    PROVE  Cardinality(ListedPids(list)) = Len(list)
<1> DEFINE n == Len(list)
           f == [i \in 1 .. n |-> list[i].pgid]
<1>1. n \in Nat /\ DOMAIN list = 1 .. n
  OBVIOUS
<1>a. ASSUME NEW i \in 1 .. n PROVE list[i].pgid \in Nat
  <2>1. list[i] \in Job
    OBVIOUS
  <2> QED
    BY <2>1 DEF Job
<1> HIDE DEF n
<1>2. \A i, j \in 1 .. n : list[i].pgid = list[j].pgid => i = j
  BY <1>1, <1>a DEF Spaced
<1>3. f \in Bijection(1 .. n, ListedPids(list))
  <2>1. ListedPids(list) = {list[i].pgid : i \in 1 .. n}
    BY <1>1 DEF ListedPids
  <2>2. /\ f \in [1 .. n -> ListedPids(list)]
        /\ \A t \in ListedPids(list) : \E i \in 1 .. n : f[i] = t
        /\ \A i, j \in 1 .. n : f[i] = f[j] => i = j
    BY <1>2, <2>1
  <2> QED
    BY <2>2 DEF Bijection, Injection, Surjection, IsInjective
<1>4. IsFiniteSet(1 .. n) /\ Cardinality(1 .. n) = n
  BY <1>1, FS_Interval
<1> HIDE DEF f
<1>5. ExistsBijection(1 .. n, ListedPids(list))
  BY <1>3 DEF ExistsBijection
<1>6. Cardinality(ListedPids(list)) = n
  BY <1>4, <1>5, FS_Bijection
<1> QED
  BY <1>6 DEF n

\* waitpid brings nobody to life, and lets go of the one whose end it reports.
LEMMA CollectLeaves ==
    ASSUME KernelTypeOK, NEW p \in Pid, Collect(p)
    PROVE  /\ Unreaped' \subseteq Unreaped
           /\ Report(p) \in Zombie => p \notin Unreaped'
<1>1. Unreaped' \subseteq Unreaped
  BY DEF KernelTypeOK, Collect, Unreaped, Zombie
<1>2. ASSUME Report(p) \in Zombie PROVE p \notin Unreaped'
  <2>1. pstate'[p] = "reaped"
    BY <1>2, ReportsZombie, CollectLasts
  <2> QED
    BY <2>1 DEF Unreaped
<1> QED
  BY <1>1, <1>2

\* The program whose report process_wait_status is still to handle.
Aside(c) == IF Handling(c) THEN {InFlight(c)} ELSE {}

\* Every other program that the loop has done with is in the list, as "Stopped".
Parked(c) ==
    \A p \in Unreaped \ (Active \cup Aside(c)) :
        /\ p \in ListedPids(jobs[c])
        /\ \A i \in EntriesOf(jobs[c], p) : jobs[c][i].status = "Stopped"

\* What the loop is still to be told of, or to enter, is not in the list.
Launched == {"fork2", "started", "sync", "wait", "store", "status"}
Unlisted(c) ==
    /\ pc[c] \in Launched => (Active \cup Aside(c)) \cap ListedPids(jobs[c]) = {}
    /\ Aside(c) \cap Active = {}
    /\ Handling(c) /\ status # "stopped" => InFlight(c) \notin Unreaped

Kempt(c) ==
    /\ pc[c] = "fgwait" => jobs[c] # <<>>
    /\ Parked(c) /\ Unlisted(c)

\* A step that gives no pid a second entry.
StaySpaced(c) == \A S : Spaced(jobs[c], S) => Spaced(jobs'[c], S)

\* A step that leaves the list and the children the loop is to be told of alone.
LEMMA KemptStill ==
    ASSUME NEW c \in Clients, Kempt(c), Active' = Active, Unreaped' = Unreaped,
           jobs'[c] = jobs[c], pc'[c] = "fgwait" => pc[c] = "fgwait",
           pc'[c] \in Launched => pc[c] \in Launched,
           Handling(c)' = Handling(c),
           Handling(c) => InFlight(c)' = InFlight(c) /\ status' = status
    PROVE  Kempt(c)' /\ StaySpaced(c)
<1>1. Aside(c)' = Aside(c)
  BY DEF Aside
<1>2. Parked(c)'
  BY <1>1 DEF Kempt, Parked
<1>3. Unlisted(c)'
  BY <1>1 DEF Kempt, Unlisted
<1> QED
  BY <1>2, <1>3 DEF Kempt, StaySpaced

\* fg brings back one program, whose only entry takes what becomes of it.
LEMMA KemptFgWait ==
    ASSUME ListInv, NEW c \in Clients, Work(c), Events, Kempt(c), Spaced(jobs[c], Pid), fg_wait(c)
    PROVE  Kempt(c)' /\ StaySpaced(c)
<1> DEFINE pid == Current(c).pgid
<1>0. /\ TypeOK /\ KernelTypeOK /\ jobs[c] \in Seq(Job) /\ Leaders
      /\ DOMAIN jobs = Clients /\ DOMAIN pc = Clients /\ pc[c] = "fgwait" /\ jobs[c] # <<>>
  BY DEF ListInv, TypeOK, fg_wait, Kempt
<1>1. /\ OneOnly(Members(pid)) /\ Active \subseteq Members(pid) /\ pid \in ListedPids(jobs[c])
  BY <1>0, CurrentListed DEF Work
<1>2. /\ pc'[c] = "fork2" /\ Active' = {} /\ Aside(c) = {} /\ Aside(c)' = {} /\ ~Handling(c)'
  BY <1>0, WorkFgWait DEF fg_wait, Goto, Aside, Handling
<1>3. \E s : jobs'[c] = FgStatus(jobs[c], pid, s)
  BY <1>0 DEF fg_wait
<1>4. jobs'[c] = jobs[c] \/ \E stat \in JobStatus : jobs'[c] = update_jobstatus(jobs[c], pid, stat)
  BY <1>3 DEF FgStatus, JobStatus
<1>5. StaySpaced(c)
  BY <1>0, <1>4, MarkSpaced DEF StaySpaced
<1>6. ListedPids(jobs'[c]) = ListedPids(jobs[c])
  BY <1>0, <1>4, MarkKeeps
<1>7. Unreaped' \subseteq Unreaped
  BY <1>0, CollectLeaves DEF fg_wait, Members, kernelVars, Unreaped
<1>8. ASSUME NEW p \in Unreaped', p # pid
      PROVE  /\ p \in ListedPids(jobs'[c])
             /\ \A i \in EntriesOf(jobs'[c], p) : jobs'[c][i].status = "Stopped"
  <2>1. p \in Unreaped /\ p \notin Active
    <3>1. p \in Pid /\ pstate[p] # "unborn"
      BY <1>7 DEF Unreaped
    <3> QED
      BY <1>0, <1>1, <1>7, <1>8, <3>1 DEF Leaders, Members
  <2>2. /\ p \in ListedPids(jobs[c])
        /\ \A i \in EntriesOf(jobs[c], p) : jobs[c][i].status = "Stopped"
    BY <1>2, <2>1 DEF Kempt, Parked
  <2>3. /\ DOMAIN jobs'[c] = DOMAIN jobs[c]
        /\ \A i \in DOMAIN jobs[c] : jobs'[c][i].pgid = jobs[c][i].pgid
        /\ \A i \in DOMAIN jobs[c] : jobs[c][i].pgid # pid => jobs'[c][i] = jobs[c][i]
    <3>1. CASE jobs'[c] = jobs[c]
      BY <3>1
    <3>2. ASSUME NEW stat \in JobStatus, jobs'[c] = update_jobstatus(jobs[c], pid, stat)
          PROVE  /\ DOMAIN jobs'[c] = DOMAIN jobs[c]
                 /\ \A i \in DOMAIN jobs[c] : jobs'[c][i].pgid = jobs[c][i].pgid
                 /\ \A i \in DOMAIN jobs[c] :
                       jobs[c][i].pgid # pid => jobs'[c][i] = jobs[c][i]
      BY <1>0, <3>2, MarkKeeps, MarkEntries
    <3> QED
      BY <1>4, <3>1, <3>2
  <2> QED
    BY <1>6, <1>8, <2>2, <2>3 DEF EntriesOf
<1>9. ASSUME pid \in Unreaped'
      PROVE  /\ pid \in ListedPids(jobs'[c])
             /\ \A i \in EntriesOf(jobs'[c], pid) : jobs'[c][i].status = "Stopped"
  <2>1. pid \in Pid /\ pid \in Members(pid)
    BY <1>0, <1>7, <1>9 DEF Unreaped, Members, Leaders
  <2>2. PICK p \in Members(pid) :
              /\ Report(p) \in Zombie \cup {"stopped"} /\ Collect(p)
              /\ jobs'[c] = FgStatus(jobs[c], pid, Report(p))
    BY <1>0, <2>1 DEF fg_wait
  <2>3. p = pid
    BY <1>1, <2>1 DEF OneOnly
  <2>4. Report(pid) = "stopped"
    BY <1>0, <1>9, <2>1, <2>2, <2>3, CollectLeaves
  <2>5. jobs'[c] = update_jobstatus(jobs[c], pid, "Stopped")
    BY <2>2, <2>3, <2>4 DEF FgStatus, Zombie
  <2>6. ASSUME NEW i \in EntriesOf(jobs'[c], pid) PROVE jobs'[c][i].status = "Stopped"
    <3>1. DOMAIN jobs'[c] = DOMAIN jobs[c]
      BY <1>0, <1>1, <2>5, MarkEntries DEF ListedPids, JobStatus
    <3>2. i \in DOMAIN jobs[c] /\ jobs[c][i].pgid = pid
      BY <1>0, <2>5, <2>6, <3>1, MarkKeeps DEF EntriesOf, JobStatus
    <3>3. EntriesOf(jobs[c], pid) = {i}
      BY <2>1, <3>2 DEF Spaced, EntriesOf
    <3> QED
      BY <1>0, <2>5, <3>2, <3>3, MarkEntries DEF JobStatus
  <2> QED
    BY <1>1, <1>6, <2>6
<1>10. Parked(c)'
  BY <1>2, <1>8, <1>9 DEF Parked
<1>11. Unlisted(c)'
  BY <1>2 DEF Unlisted
<1> QED
  BY <1>2, <1>5, <1>10, <1>11 DEF Kempt

\* process_wait_status enters a program that has stopped, and drops one that was
\* waited for.
LEMMA KemptWaitStatus ==
    ASSUME ListInv, NEW c \in Clients, Work(c), Kempt(c), below[c] = 0, process_wait_status(c)
    PROVE  Kempt(c)' /\ StaySpaced(c)
<1>0. /\ TypeOK /\ KernelTypeOK /\ jobs[c] \in Seq(Job) /\ Truthful(jobs[c], pstate)
      /\ DOMAIN jobs = Clients /\ DOMAIN pc = Clients /\ pc[c] = "status" /\ wpid \in Nat
  BY KernelAssumption DEF ListInv, TypeOK, process_wait_status, Honest
<1>1. /\ pc'[c] = "wait" /\ Aside(c) = {wpid} /\ Aside(c)' = {} /\ Handling(c) /\ ~Handling(c)'
      /\ InFlight(c) = wpid
  BY <1>0 DEF process_wait_status, Goto, Aside, Handling, InFlight
<1>2. UNCHANGED kernelVars
  BY <1>1 DEF process_wait_status, Exited, Stopped, Continued, Work
<1>3. Active' = Active /\ Unreaped' = Unreaped
  BY <1>2, ActiveSame
<1>4. /\ \A p \in Unreaped \ (Active \cup {wpid}) :
            /\ p \in ListedPids(jobs[c])
            /\ \A i \in EntriesOf(jobs[c], p) : jobs[c][i].status = "Stopped"
      /\ Active \cap ListedPids(jobs[c]) = {} /\ wpid \notin ListedPids(jobs[c])
      /\ wpid \notin Active
      /\ status # "stopped" => wpid \notin Unreaped
  BY <1>0, <1>1 DEF Kempt, Parked, Unlisted, Launched
<1>5. ASSUME /\ ListedPids(jobs'[c]) \cap Active = {}
             /\ \A p \in Unreaped \ Active :
                   /\ p \in ListedPids(jobs'[c])
                   /\ \A i \in EntriesOf(jobs'[c], p) : jobs'[c][i].status = "Stopped"
      PROVE  Kempt(c)'
  BY <1>1, <1>3, <1>5 DEF Kempt, Parked, Unlisted
<1>6. CASE Exited(c)
  <2>1. jobs'[c] = update_job_list(jobs[c]) /\ status = "exited"
    <3>1. update_jobstatus(jobs[c], wpid, "Done") = jobs[c]
      BY <1>4 DEF update_jobstatus, EntriesOf, ListedPids
    <3> QED
      BY <1>0, <1>6, <3>1 DEF Exited
  <2>2. ListedPids(jobs'[c]) \subseteq ListedPids(jobs[c])
    BY <1>0, <2>1, CompactKeeps
  <2>3. ASSUME NEW p \in Unreaped \ Active
        PROVE  /\ p \in ListedPids(jobs'[c])
               /\ \A i \in EntriesOf(jobs'[c], p) : jobs'[c][i].status = "Stopped"
    <3>1. /\ p \in ListedPids(jobs[c])
          /\ \A i \in EntriesOf(jobs[c], p) : jobs[c][i].status = "Stopped"
      BY <1>4, <2>1
    <3>2. p \in ListedPids(jobs'[c])
      BY <1>0, <2>1, <3>1, CompactForgets DEF Unreaped
    <3>3. \A i \in DOMAIN jobs'[c] : \E j \in DOMAIN jobs[c] : jobs'[c][i] = jobs[c][j]
      BY <1>0, <2>1, CompactKeeps
    <3> QED
      BY <3>1, <3>2, <3>3 DEF EntriesOf
  <2>4. StaySpaced(c)
    BY <1>0, <2>1, CompactSpaced DEF StaySpaced
  <2> QED
    BY <1>4, <1>5, <2>2, <2>3, <2>4
<1>7. CASE Stopped(c)
  <2>1. jobs'[c] = add_to_joblist(jobs[c], wpid)
    BY <1>0, <1>7 DEF Stopped, AddJob
  <2>2. /\ ListedPids(jobs'[c]) = ListedPids(jobs[c]) \cup {wpid}
        /\ \A i \in DOMAIN jobs'[c] :
              \/ i \in DOMAIN jobs[c] /\ jobs'[c][i] = jobs[c][i]
              \/ jobs'[c][i].pgid = wpid /\ jobs'[c][i].status = "Stopped"
    <3> DEFINE longer == add_to_joblist(jobs[c], wpid)
               n == Len(jobs[c])
    <3>1. /\ DOMAIN longer = 1 .. n + 1 /\ DOMAIN jobs[c] = 1 .. n /\ n \in Nat
          /\ \A i \in 1 .. n : longer[i] = jobs[c][i]
          /\ longer[n + 1].pgid = wpid /\ longer[n + 1].status = "Stopped"
      BY <1>0 DEF add_to_joblist
    <3> HIDE DEF longer, n
    <3>2. 1 .. n + 1 = (1 .. n) \cup {n + 1}
      BY <3>1
    <3>3. ListedPids(longer) = ListedPids(jobs[c]) \cup {wpid}
      BY <3>1, <3>2 DEF ListedPids
    <3> QED
      BY <2>1, <3>1, <3>2, <3>3 DEF longer
  <2>3. ASSUME NEW p \in Unreaped \ Active
        PROVE  /\ p \in ListedPids(jobs'[c])
               /\ \A i \in EntriesOf(jobs'[c], p) : jobs'[c][i].status = "Stopped"
    <3>1. CASE p = wpid
      BY <1>4, <2>2, <3>1 DEF EntriesOf, ListedPids
    <3>2. CASE p # wpid
      <4>1. /\ p \in ListedPids(jobs[c])
            /\ \A i \in EntriesOf(jobs[c], p) : jobs[c][i].status = "Stopped"
        BY <1>4, <2>3, <3>2
      <4> QED
        BY <2>2, <3>2, <4>1 DEF EntriesOf
    <3> QED
      BY <3>1, <3>2
  <2>4. StaySpaced(c)
    BY <1>0, <1>4, <2>1, AddSpaced DEF StaySpaced
  <2> QED
    BY <1>4, <1>5, <2>2, <2>3, <2>4
<1>8. CASE status = "signaled" /\ UNCHANGED <<kernelVars, daemon, jobs, below, wait_cnt>>
  BY <1>4, <1>5, <1>8 DEF StaySpaced
<1> QED
  BY <1>1, <1>6, <1>7, <1>8 DEF process_wait_status, Continued, Work

LEMMA KemptShell ==
    ASSUME ListInv, NEW c \in Clients, Work(c), Events, Kempt(c), Spaced(jobs[c], Pid),
           ~cmd[c].pipe, below[c] = 0, Shell(c), Work(c)'
    PROVE  Kempt(c)' /\ StaySpaced(c)
<1>0. /\ TypeOK /\ KernelTypeOK /\ jobs[c] \in Seq(Job) /\ Truthful(jobs[c], pstate)
      /\ DOMAIN jobs = Clients /\ DOMAIN pc = Clients
      /\ pc[c] \notin {"bg", "bgadd", "bgcont"} /\ ~cmd[c].amp
  BY DEF ListInv, TypeOK, Honest, Work
<1>1. CASE fg_cmd_process(c)
  <2>1. /\ pc[c] = "fg" /\ jobs' = jobs /\ Active = {} /\ pc'[c] \in {"fork2", "fgwait"}
    BY <1>0, <1>1 DEF fg_cmd_process, Work, Goto
  <2>2. CASE Len(jobs[c]) = 0
    <3>1. pc'[c] = "fork2" /\ UNCHANGED kernelVars
      BY <1>0, <1>1, <2>2 DEF fg_cmd_process, Goto
    <3>2. Active' = {} /\ Unreaped' = Unreaped /\ Aside(c) = {} /\ Aside(c)' = {} /\ ~Handling(c)'
      BY <2>1, <3>1, ActiveSame DEF Aside, Handling
    <3> QED
      BY <2>1, <3>1, <3>2 DEF Kempt, Parked, Unlisted, StaySpaced
  <2>3. CASE Len(jobs[c]) # 0
    <3>1. pc'[c] = "fgwait" /\ Continue(Members(Current(c).pgid))
      BY <1>0, <1>1, <2>3 DEF fg_cmd_process, Goto
    <3>2. Unreaped' = Unreaped /\ Aside(c) = {} /\ Aside(c)' = {} /\ ~Handling(c)'
      BY <1>0, <2>1, <3>1, ContinueTyped DEF Aside, Handling
    <3> QED
      BY <2>1, <2>3, <3>1, <3>2 DEF Kempt, Parked, Unlisted, Launched, StaySpaced
  <2> QED
    BY <2>2, <2>3
<1>2. CASE fg_wait(c)
  BY <1>2, KemptFgWait
<1>3. CASE ForkFirst(c)
  <2>1. PICK p \in Pid : Fork(p, p, IF cmd[c].head = "bg" THEN "signaled" ELSE "running")
    BY <1>3 DEF ForkFirst, Unborn
  <2>2. /\ pc[c] = "fork1" /\ pc'[c] = "fork2" /\ jobs' = jobs /\ Active = {}
        /\ Aside(c) = {} /\ Aside(c)' = {} /\ ~Handling(c)'
    BY <1>0, <1>3 DEF ForkFirst, Work, Goto, Aside, Handling
  <2>3. Active' = {p}
    BY <1>0, <2>1, <2>2, ActiveFork
  <2>4. Unreaped' = Unreaped \cup {p}
    BY <1>0, <2>1, ForkTyped, KernelAssumption DEF Pid
  <2>5. p \notin ListedPids(jobs[c])
    BY <1>0, <2>1 DEF Fork, Unborn, Truthful, ListedPids
  <2> QED
    BY <2>2, <2>3, <2>4, <2>5 DEF Kempt, Parked, Unlisted, StaySpaced
<1>4. CASE \/ ForkSecond(c) \/ Latest(c) \/ Started(c)
            \/ StoreWpid(c) \/ WaitFails(c) \/ Prompt(c)
  <2>1. UNCHANGED kernelVars /\ jobs' = jobs /\ pc'[c] # "fgwait"
    BY <1>0, <1>4 DEF ForkSecond, Latest, Started, StoreWpid, WaitFails, Prompt, Goto, threadVars
  <2>2. pc'[c] \in Launched => pc[c] \in Launched
    BY <1>4 DEF ForkSecond, Latest, Started, StoreWpid, WaitFails, Prompt, Goto, Launched
  <2>3. /\ Handling(c)' = Handling(c)
        /\ Handling(c) => InFlight(c)' = InFlight(c) /\ status' = status
    BY <1>0, <1>4
       DEF ForkSecond, Latest, Started, StoreWpid, WaitFails, Prompt, Goto, threadVars,
           globalVars, Handling, InFlight
  <2> QED
    BY <2>1, <2>2, <2>3, ActiveSame, KemptStill
<1>5. CASE WaitChild(c)
  <2>1. PICK p \in Reported : Collect(p) /\ status' = Report(p) /\ got' = [got EXCEPT ![c] = p]
    BY <1>5 DEF WaitChild
  <2>2. p \in Unreaped /\ p \in Pid /\ Report(p) # "none" /\ DOMAIN got = Clients
    BY <1>0 DEF Reported, Unreaped, TypeOK
  <2>3. /\ pc[c] = "wait" /\ pc'[c] = "store" /\ jobs' = jobs /\ Handling(c)'
        /\ InFlight(c)' = p /\ Aside(c) = {} /\ Aside(c)' = {p}
    BY <1>0, <1>5, <2>1, <2>2 DEF WaitChild, Goto, Aside, Handling, InFlight
  <2>4. Report(p) \notin {"none", "continued"}
    BY <2>1, <2>2, <2>3 DEF Work
  <2>5. p \in Active /\ Active' = Active \ {p}
    BY <1>0, <2>1, <2>2, <2>4, ActiveCollect
  <2>6. Unreaped' \subseteq Unreaped /\ (Report(p) \in Zombie => p \notin Unreaped')
    BY <1>0, <2>1, <2>2, CollectLeaves
  <2>7. status' # "stopped" => Report(p) \in Zombie
    BY <1>0, <2>1, <2>2, <2>4, ReportTyped DEF Event
  <2>8. Parked(c)'
    BY <2>3, <2>5, <2>6 DEF Kempt, Parked
  <2>9. Active \cap ListedPids(jobs[c]) = {}
    BY <2>3 DEF Kempt, Unlisted, Launched
  <2>10. Unlisted(c)'
    BY <2>1, <2>3, <2>5, <2>6, <2>7, <2>9 DEF Unlisted
  <2> QED
    BY <2>3, <2>8, <2>10 DEF Kempt, StaySpaced
<1>6. CASE process_wait_status(c)
  BY <1>6, KemptWaitStatus
<1>7. CASE bg_cmd_process(c) \/ BackgroundAdd(c) \/ BackgroundContinue(c)
  BY <1>0, <1>7 DEF bg_cmd_process, BackgroundAdd, BackgroundContinue
<1> QED
  BY <1>1, <1>2, <1>3, <1>4, <1>5, <1>6, <1>7 DEF Shell

-----------------------------------------------------------------------------
(* The theorems.                                                           *)

\* A job_count that does not start below 0 stays there.
NoneBelow == \A c \in Clients : below[c] = 0

LEMMA BelowKept ==
    ASSUME NEW c \in Clients, Shell(c) \/ Client(c) \/ ChildStep, below[c] = 0
    PROVE  below' = below
<1>1. CASE BackgroundAdd(c)
  BY <1>1 DEF BackgroundAdd, AddJob
<1>2. CASE process_wait_status(c)
  BY <1>2 DEF process_wait_status, Exited, Stopped, Continued, AddJob
<1>3. CASE ChildStep
  BY <1>3 DEF ChildStep, threadVars
<1> QED
  BY <1>1, <1>2, <1>3
     DEF Shell, Client, bg_cmd_process, fg_cmd_process, fg_wait, ForkFirst, ForkSecond, Latest,
         Started, BackgroundContinue, WaitChild, StoreWpid, WaitFails, Prompt, Recv, Ctl,
         Disconnect, threadVars

PlainInv ==
    /\ TypeOK /\ NoneBelow
    /\ plain => /\ ListInv /\ Events
                /\ \A c \in Clients : Work(c) /\ Kempt(c) /\ Spaced(jobs[c], Pid)

PlainSlots == plain => \A c \in Clients : Spaced(jobs[c], Nat)

LEMMA PlainInit ==
    InitialCounts \subseteq Nat /\ ListsInit
        => PlainInv /\ (InitialCounts \subseteq {0, 1} => PlainSlots)
<1> SUFFICES ASSUME InitialCounts \subseteq Nat, ListsInit
             PROVE  PlainInv /\ (InitialCounts \subseteq {0, 1} => PlainSlots)
  OBVIOUS
<1>1. TypeOK /\ ListInv /\ Init
  BY InitTyped, ListInit DEF ListsInit
<1>2. Unreaped = {} /\ Active = {} /\ Events
  BY <1>1 DEF Init, KernelInit, Unreaped, Active, Events
<1>3. PICK n \in InitialCounts : jobs = [c \in Clients |-> [i \in 1 .. n |-> Unwritten]]
  BY <1>1 DEF Init
<1>5. NoneBelow
  BY <1>1 DEF Init, NoneBelow
<1>4. ASSUME NEW c \in Clients
      PROVE  /\ Work(c) /\ Kempt(c) /\ Spaced(jobs[c], Pid)
             /\ InitialCounts \subseteq {0, 1} => Spaced(jobs[c], Nat)
  <2>1. pc[c] = "recv" /\ cmd[c] = NoCmd
    BY <1>1 DEF Init
  <2>2. Work(c) /\ Kempt(c)
    BY <1>2, <2>1 DEF Work, Kempt, Parked, Unlisted, Launched, Aside, Handling, NoCmd
  <2>3. \A i \in DOMAIN jobs[c] : jobs[c][i].pgid = 0
    BY <1>3 DEF Unwritten
  <2>4. Spaced(jobs[c], Pid)
    BY <2>3 DEF Spaced, Pid
  <2>5. ASSUME InitialCounts \subseteq {0, 1} PROVE Spaced(jobs[c], Nat)
    <3>1. \A i \in DOMAIN jobs[c] : i = 1
      BY <1>3, <2>5
    <3> QED
      BY <3>1 DEF Spaced
  <2> QED
    BY <2>2, <2>4, <2>5
<1> QED
  BY <1>1, <1>2, <1>4, <1>5 DEF PlainInv, PlainSlots

LEMMA PlainStep ==
    ASSUME Alone, PlainInv, [ListsNext]_<<vars, plain>>
    PROVE  /\ PlainInv'
           /\ plain' => \A c \in Clients : StaySpaced(c)
<1>1. PICK c \in Clients : Clients = {c}
  BY DEF Alone
<1>2. TypeOK /\ TypeOK' /\ KernelTypeOK
  BY NextTyped DEF PlainInv, ListsNext, vars, TypeOK
<1>9. NoneBelow' /\ below[c] = 0
  <2>1. Shell(c) \/ Client(c) \/ ChildStep \/ below' = below
    BY <1>1 DEF ListsNext, Next, vars, threadVars
  <2> QED
    BY <2>1, BelowKept DEF PlainInv, NoneBelow
<1> SUFFICES ASSUME plain'
             PROVE  /\ ListInv' /\ Events' /\ Work(c)' /\ Kempt(c)' /\ Spaced(jobs[c], Pid)'
                    /\ StaySpaced(c)
  BY <1>1, <1>2, <1>9 DEF PlainInv
<1>3. /\ ListInv /\ Events /\ Work(c) /\ Kempt(c) /\ Spaced(jobs[c], Pid)
      /\ (ListsNext /\ Kept) \/ UNCHANGED <<vars, plain>>
  BY <1>1 DEF PlainInv, ListsNext
<1>4. /\ KernelTypeOK /\ Leaders /\ DOMAIN pc = Clients /\ DOMAIN cmd = Clients
      /\ ~cmd[c].pipe /\ DOMAIN waited = Clients
  BY <1>2, <1>3 DEF ListInv, Honest, TypeOK
<1>5. CASE Shell(c)
  <2>1. OneOnly(Members(Current(c).pgid))
    BY <1>4 DEF OneOnly, Leaders, Members, Unreaped
  <2>2. Work(c)' /\ Events'
    BY <1>2, <1>3, <1>5, <2>1, WorkShell
  <2>3. ListInv'
    BY <1>1, <1>2, <1>3, <1>5, ListShell DEF ListInv
  <2> QED
    BY <1>3, <1>4, <1>5, <1>9, <2>2, <2>3, KemptShell DEF StaySpaced
<1>6. ASSUME NEW k \in Cmds, Recv(c, k), Kept
      PROVE  /\ ~k.pipe /\ Work(c)' /\ Events' /\ Kempt(c)'
             /\ StaySpaced(c)
  <2>1. /\ UNCHANGED <<kernelVars, jobs>> /\ pc[c] = "recv" /\ cmd'[c] = k /\ waited'[c] = 0
        /\ wait_cnt' = 0
    BY <1>4, <1>6 DEF Recv
  <2>2. k \in {NoCmd, Prog, Fg}
    BY <1>6, <2>1 DEF Kept
  <2>3. ~k.pipe /\ ~k.amp /\ k.head \in {"prog", "fg"}
    BY <2>2 DEF NoCmd, Prog, Fg, Line
  <2>4. pc'[c] \in {"fg", "fork1"}
    BY <1>4, <1>6, <2>3 DEF Recv, Goto
  <2>5. Active' = Active /\ Events' /\ Active = {} /\ Unreaped' = Unreaped
    BY <1>3, <2>1, ActiveSame DEF Work
  <2>6. Work(c)'
    BY <2>1, <2>3, <2>4, <2>5 DEF Work, Handling
  <2>7. Kempt(c)' /\ StaySpaced(c)
    BY <1>3, <2>1, <2>4, <2>5, KemptStill DEF Handling, Launched
  <2> QED
    BY <2>3, <2>5, <2>6, <2>7
<1>7. ASSUME \/ \E sig \in Ctls : Ctl(c, sig)
             \/ Disconnect(c) \/ ChildStep \/ UNCHANGED <<vars, plain>>,
             Kept \/ UNCHANGED <<vars, plain>>
      PROVE  /\ Work(c)' /\ Events' /\ Kempt(c)'
             /\ StaySpaced(c)
  <2>1. /\ UNCHANGED <<jobs, cmd, waited, got, wait_cnt, wpid, status>>
        /\ pc'[c] = pc[c] \/ (pc[c] = "recv" /\ pc'[c] = "ended")
    BY <1>4, <1>7 DEF Ctl, Disconnect, ChildStep, Goto, vars, threadVars, globalVars
  <2>2. /\ Active' = Active /\ Events' /\ (NoneWoken => NoneWoken') /\ Unreaped' = Unreaped
        /\ pgrp' = pgrp
    <3>1. CASE UNCHANGED kernelVars
      BY <1>3, <3>1, ActiveSame DEF kernelVars
    <3>2. ASSUME NEW S, NEW sig, Deliver(S, sig)
          PROVE  /\ Active' = Active /\ Events' /\ (NoneWoken => NoneWoken')
                 /\ Unreaped' = Unreaped /\ pgrp' = pgrp
      BY <1>3, <1>4, <3>2, ActiveDeliver, DeliverTyped, DeliverLasts
    <3>3. ASSUME NEW p \in Pid, ProcStep(p), Kept
          PROVE  /\ Active' = Active /\ Events' /\ (NoneWoken => NoneWoken')
                 /\ Unreaped' = Unreaped /\ pgrp' = pgrp
      <4>1. Unharmed
        BY <3>3 DEF Kept, Unharmed
      <4> QED
        BY <1>3, <1>4, <3>3, <4>1, ActiveProcStep, ProcStepTyped, ProcStepLasts
    <3> QED
      BY <1>7, <3>1, <3>2, <3>3 DEF Ctl, Disconnect, ChildStep, vars
  <2>3. Handling(c)' = Handling(c) /\ InFlight(c)' = InFlight(c)
    BY <2>1 DEF Handling, InFlight
  <2>4. Work(c)'
    <3>1. CASE pc'[c] = pc[c]
      BY <1>3, <2>1, <2>2, <3>1, WorkStill
    <3>2. CASE pc[c] = "recv" /\ pc'[c] = "ended"
      BY <1>3, <2>1, <2>2, <3>2 DEF Work, Handling
    <3> QED
      BY <2>1, <3>1, <3>2
  <2>5. Kempt(c)' /\ StaySpaced(c)
    BY <1>3, <2>1, <2>2, <2>3, KemptStill DEF Launched
  <2> QED
    BY <2>2, <2>4, <2>5
<1>8. CASE Client(c) \/ ChildStep \/ UNCHANGED <<vars, plain>>
  <2>1. ASSUME NEW k \in Cmds, Recv(c, k) PROVE ~k.pipe
    <3>1. CASE Kept
      BY <1>6, <2>1, <3>1
    <3>2. CASE UNCHANGED <<vars, plain>>
      BY <1>4, <2>1, <3>2 DEF Recv, vars, threadVars
    <3> QED
      BY <1>3, <3>1, <3>2
  <2>2. ListInv'
    BY <1>1, <1>2, <1>3, <1>8, <2>1, ListRest DEF ListInv
  <2>3. Work(c)' /\ Events' /\ Kempt(c)' /\ StaySpaced(c)
    <3>1. CASE UNCHANGED <<vars, plain>>
      BY <1>7, <3>1
    <3>2. CASE Kept
      BY <1>6, <1>7, <1>8, <3>2 DEF Client
    <3> QED
      BY <1>3, <3>1, <3>2
  <2> QED
    BY <1>3, <2>2, <2>3 DEF StaySpaced
<1> QED
  BY <1>1, <1>3, <1>5, <1>8 DEF ListsNext, Next

\* Between two lines of programs and fg no child is lost (update_job_list, add_to_joblist
\* and the status fg writes, daemon/server.c), however many programs there are and
\* however often each stops and is brought back, unless the uninitialized job_count starts
\* below 0: a program that stops then goes to job_list[0], where no loop finds it, or in
\* front of the array.
THEOREM EveryStoppedListed ==
    ASSUME Alone, InitialCounts \subseteq Nat
    PROVE  ListsSpec => []PlainChildrenListed
<1>1. ListsInit => PlainInv
  BY PlainInit
<1>2. PlainInv /\ [ListsNext]_<<vars, plain>> => PlainInv'
  BY PlainStep
<1>3. PlainInv => PlainChildrenListed
  <2> SUFFICES ASSUME PlainInv, plain, NEW c \in Clients, pc[c] = "recv", NEW p \in Unreaped
               PROVE  /\ pstate[p] \in Halted
                      /\ \E i \in DOMAIN jobs[c] :
                            EntriesOf(jobs[c], p) = {i} /\ jobs[c][i].status = "Stopped"
    BY DEF PlainChildrenListed, EveryChildListed
  <2>1. /\ Work(c) /\ Parked(c) /\ Spaced(jobs[c], Pid)
    BY DEF PlainInv, Kempt
  <2>2. Active = {} /\ Aside(c) = {} /\ p \in Pid
    BY <2>1 DEF Work, Aside, Handling, Unreaped
  <2>3. pstate[p] \in Halted
    BY <2>2 DEF Active, Quiet
  <2>4. /\ p \in ListedPids(jobs[c])
        /\ \A i \in EntriesOf(jobs[c], p) : jobs[c][i].status = "Stopped"
    BY <2>1, <2>2 DEF Parked
  <2>5. PICK i \in DOMAIN jobs[c] : jobs[c][i].pgid = p
    BY <2>4 DEF ListedPids
  <2>6. EntriesOf(jobs[c], p) = {i}
    BY <2>1, <2>2, <2>5 DEF EntriesOf, Spaced
  <2> QED
    BY <2>3, <2>4, <2>5, <2>6
<1> QED
  BY <1>1, <1>2, <1>3, PTL DEF ListsSpec

\* No program takes a second slot of the malloc'ed array (add_to_joblist,
\* daemon/server.c:190-199) as long as the uninitialized job_count starts at 0 or 1: the
\* slots that a larger one counts are all alike.
THEOREM OneSlotEach ==
    ASSUME Alone, InitialCounts \subseteq {0, 1}
    PROVE  ListsSpec => []PlainSlotPerProgram
<1> DEFINE Inv == PlainInv /\ PlainSlots
<1>1. ListsInit => Inv
  <2>1. InitialCounts \subseteq Nat
    OBVIOUS
  <2> QED
    BY <2>1, PlainInit
<1>2. Inv /\ [ListsNext]_<<vars, plain>> => Inv'
  <2> SUFFICES ASSUME Inv, [ListsNext]_<<vars, plain>> PROVE Inv'
    OBVIOUS
  <2>1. PlainInv' /\ (plain' => \A c \in Clients : StaySpaced(c))
    BY PlainStep
  <2>2. plain' => plain
    BY DEF ListsNext
  <2>3. ASSUME plain', NEW c \in Clients PROVE Spaced(jobs'[c], Nat)
    BY <2>1, <2>2, <2>3 DEF PlainSlots, StaySpaced
  <2> QED
    BY <2>1, <2>3 DEF PlainSlots
<1>3. Inv => PlainSlotPerProgram
  BY SpacedCount DEF PlainInv, PlainSlots, PlainSlotPerProgram, TypeOK
<1> QED
  BY <1>1, <1>2, <1>3, PTL DEF ListsSpec

\* The prompt of process_cmd's wait loop means that the line is over, its programs ended
\* or in the list, as long as the client keeps to programs and fg and the
\* uninitialized job_count does not start below 0.
THEOREM PromptSettles ==
    ASSUME Alone, InitialCounts \subseteq Nat
    PROVE  ListsSpec => PlainPromptMeansSettled
<1>1. ListsInit => PlainInv
  BY PlainInit
<1>2. PlainInv /\ [ListsNext]_<<vars, plain>> => PlainInv'
  BY PlainStep
<1>3. PlainInv /\ [ListsNext]_<<vars, plain>> =>
         [plain' => \A c \in Clients : Settled(c)]_<<vars, plain>>
  <2> SUFFICES ASSUME PlainInv, ListsNext, plain', NEW c \in Clients,
                      pc[c] = "wait", pc'[c] = "recv", NEW p \in Unreaped
               PROVE  pstate[p] \in Zombie \cup Halted /\ p \in ListedPids(jobs[c])
    BY DEF Settled
  <2>1. TypeOK /\ Work(c) /\ Parked(c)
    BY DEF PlainInv, Kempt, ListsNext
  <2>2. waited[c] >= wait_cnt
    <3>1. DOMAIN pc = Clients
      BY <2>1 DEF TypeOK
    <3>2. Shell(c) \/ Client(c) \/ ChildStep
      BY DEF Alone, ListsNext, Next
    <3>3. CASE Shell(c)
      BY <3>1, <3>3
         DEF Shell, bg_cmd_process, fg_cmd_process, fg_wait, ForkFirst, ForkSecond, Latest,
             Started, BackgroundAdd, BackgroundContinue, WaitChild, StoreWpid, WaitFails,
             process_wait_status, Prompt, Goto, threadVars
    <3>4. CASE Client(c) \/ ChildStep
      BY <3>1, <3>4 DEF Client, Recv, Ctl, Disconnect, ChildStep, threadVars
    <3> QED
      BY <3>2, <3>3, <3>4
  <2>3. Active = {}
    <3>1. Active \in SUBSET Pid /\ Cardinality(Active) <= wait_cnt - waited[c]
      BY <2>1 DEF Active, Unreaped, Work
    <3>2. IsFiniteSet(Active) /\ Cardinality(Active) \in Nat
      BY <3>1, PidFinite, FS_Subset, FS_CardinalityType
    <3>3. Cardinality(Active) = 0
      BY <2>1, <2>2, <3>1, <3>2 DEF TypeOK
    <3> QED
      BY <3>2, <3>3, FS_EmptySet
  <2>4. pstate[p] \in Halted
    BY <2>3 DEF Active, Quiet
  <2>5. p \in ListedPids(jobs[c])
    BY <2>1, <2>3 DEF Parked, Aside, Handling
  <2> QED
    BY <2>4, <2>5
<1> QED
  BY <1>1, <1>2, <1>3, PTL DEF ListsSpec, PlainPromptMeansSettled

-----------------------------------------------------------------------------
(* Several clients of signals/server.c.                                    *)

LEMMA ShellIsWork == ASSUME NEW c \in Clients, process_cmd(c) PROVE Shell(c)
BY DEF process_cmd, BuiltIn, Programs, Background, WaitLoop, Shell

LEMMA SignalsTyped == TypeOK /\ [SignalsNext]_vars => TypeOK'
<1> SUFFICES ASSUME TypeOK, [SignalsNext]_vars PROVE TypeOK'
  OBVIOUS
<1>1. ASSUME NEW c \in Clients, NEW sig \in Ctls, Message(c, sig)
      PROVE  TypeOK'
  <2>1. KernelTypeOK'
    BY <1>1, DeliverTyped DEF Message, TypeOK, KernelTypeOK, kernelVars
  <2>2. daemon' \in {"up", "exited", "faulted"}
    BY <1>1 DEF Message, SelfSignalled
  <2> QED
    BY <1>1, <2>1, <2>2 DEF Message, TypeOK, threadVars, globalVars
<1>2. CASE [Next]_vars
  BY <1>2, NextTyped
<1> QED
  BY <1>1, <1>2, ShellIsWork DEF SignalsNext, EchoServe, Next, Client

\* A thread that works leaves the other threads' variables alone.
LEMMA ShellAlone ==
    ASSUME TypeOK, NEW c \in Clients, Shell(c)
    PROVE  /\ pc[c] \notin {"recv", "ended"}
           /\ \A d \in Clients \ {c} :
                 UNCHANGED <<jobs[d], pc[d], cmd[d], waited[d], got[d]>>
           /\ Unborn' \subseteq Unborn
<1> USE DEF TypeOK, Goto
<1>1. CASE bg_cmd_process(c)
  <2>1. Unborn' = Unborn
    BY <1>1, ContinueTyped DEF bg_cmd_process, kernelVars, Unborn
  <2> QED
    BY <1>1, <2>1 DEF bg_cmd_process
<1>2. CASE fg_cmd_process(c)
  <2>1. Unborn' = Unborn
    BY <1>2, ContinueTyped DEF fg_cmd_process, kernelVars, Unborn
  <2> QED
    BY <1>2, <2>1 DEF fg_cmd_process
<1>3. CASE fg_wait(c)
  <2>1. Unborn' = Unborn
    BY <1>3, CollectTyped DEF fg_wait, kernelVars, Unborn, Members, Unreaped
  <2>2. \A d \in Clients \ {c} : jobs'[d] = jobs[d]
    BY <1>3 DEF fg_wait
  <2> QED
    BY <1>3, <2>1, <2>2 DEF fg_wait
<1>4. CASE ForkFirst(c)
  <2>1. Unborn' \subseteq Unborn
    BY <1>4, ForkTyped DEF ForkFirst, Fork, KernelTypeOK, Unborn
  <2> QED
    BY <1>4, <2>1 DEF ForkFirst
<1>5. CASE ForkSecond(c)
  <2>1. Unborn' \subseteq Unborn
    BY <1>5 DEF ForkSecond, Fork, KernelTypeOK, Unborn, kernelVars
  <2> QED
    BY <1>5, <2>1 DEF ForkSecond
<1>6. CASE BackgroundAdd(c) \/ BackgroundContinue(c)
  <2>1. Unborn' = Unborn
    BY <1>6, ContinueTyped DEF BackgroundAdd, BackgroundContinue, kernelVars, Unborn
  <2> QED
    BY <1>6, <2>1 DEF BackgroundAdd, BackgroundContinue, AddJob
<1>7. CASE WaitChild(c)
  <2>1. Unborn' = Unborn
    BY <1>7, CollectTyped DEF WaitChild, Reported, Unreaped
  <2>2. \A d \in Clients \ {c} : got'[d] = got[d]
    BY <1>7 DEF WaitChild
  <2> QED
    BY <1>7, <2>1, <2>2 DEF WaitChild
<1>8. CASE Latest(c) \/ Started(c) \/ StoreWpid(c) \/ WaitFails(c) \/ Prompt(c)
  BY <1>8 DEF Latest, Started, StoreWpid, WaitFails, Prompt, kernelVars, threadVars, Unborn
<1>9. CASE process_wait_status(c)
  <2>1. Unborn' = Unborn
    BY <1>9, ContinueTyped
       DEF process_wait_status, Exited, Stopped, Continued, kernelVars, Unborn
  <2>2. \A d \in Clients \ {c} : jobs'[d] = jobs[d]
    BY <1>9 DEF process_wait_status, Exited, Stopped, Continued, AddJob
  <2> QED
    BY <1>9, <2>1, <2>2 DEF process_wait_status
<1> QED
  BY <1>1, <1>2, <1>3, <1>4, <1>5, <1>6, <1>7, <1>8, <1>9 DEF Shell

\* What the history variables say of a step after which they still stand.
LEMMA OrderlyStep ==
    ASSUME IsFiniteSet(Clients), Watch, Orderly'
    PROVE  /\ Orderly /\ OneOnly(AtWork')
           /\ \A c \in Clients : /\ ~cmd'[c].amp /\ cmd'[c].head # "bg"
                                 /\ pc[c] = "fg" => OneOnly(Members(Target(c)))
<1>1. Orderly /\ Cardinality(AtWork') <= 1
  BY DEF Orderly, Watch
<1>2. AtWork' \subseteq Clients
  BY DEF AtWork
<1>3. OneOnly(AtWork')
  BY <1>1, <1>2, AtMostOne, FS_Subset
<1>4. ASSUME NEW c \in Clients, pc[c] = "fg"
      PROVE  OneOnly(Members(Target(c)))
  <2>1. Cardinality(Members(Target(c))) <= 1
    BY <1>4 DEF Orderly, Watch, OfOne
  <2>2. IsFiniteSet(Members(Target(c)))
    BY PidFinite, FS_Subset DEF Members, Unreaped
  <2> QED
    BY <2>1, <2>2, AtMostOne
<1> QED
  BY <1>1, <1>3, <1>4 DEF Orderly, Watch

\* While the clients keep to the order, one thread works, and the ledger of SoloInv
\* holds for it; for the others it says nothing.
ApartInv ==
    /\ TypeOK
    /\ Orderly => /\ OneOnly(AtWork)
                  /\ \A c \in Clients : Books(c) /\ Ledger(c)

\* The books of a client between its lines, while another one's thread takes a step.
LEMMA IdleBooks ==
    ASSUME NEW c \in Clients, Books(c), pc[c] \in {"recv", "ended"},
           UNCHANGED <<jobs[c], pc[c], cmd[c]>>, Unborn' \subseteq Unborn
    PROVE  Books(c)' /\ Ledger(c)'
BY DEF Books, Ledger, Handling

LEMMA ApartInit == MCInit => ApartInv
<1> SUFFICES ASSUME MCInit PROVE ApartInv
  OBVIOUS
<1>1. TypeOK
  BY InitTyped DEF MCInit
<1>2. OneOnly(AtWork)
  BY DEF MCInit, Init, AtWork, OneOnly
<1>3. ASSUME NEW c \in Clients
      PROVE  Books(c) /\ Ledger(c)
  <2>1. \A i \in DOMAIN jobs[c] : jobs[c][i].pgid = 0
    BY DEF MCInit, Init, Unwritten
  <2>2. ListedPids(jobs[c]) \cap Unborn = {}
    BY <2>1 DEF ListedPids, Unborn, Pid
  <2> QED
    BY <2>2 DEF MCInit, Init, Books, Ledger, Handling, NoCmd
<1> QED
  BY <1>1, <1>2, <1>3 DEF ApartInv

LEMMA ApartStep ==
    IsFiniteSet(Clients) /\ ApartInv /\ [MCNext]_mcVars => ApartInv'
<1> SUFFICES ASSUME IsFiniteSet(Clients), ApartInv, [MCNext]_mcVars PROVE ApartInv'
  OBVIOUS
<1>0. TypeOK /\ TypeOK' /\ KernelTypeOK
  BY SignalsTyped DEF ApartInv, MCNext, mcVars, TypeOK
<1>1. CASE UNCHANGED mcVars
  <2>1. /\ UNCHANGED <<jobs, pc, cmd, waited, got, wait_cnt, wpid, status, apart, simple>>
        /\ Unreaped' = Unreaped /\ Unborn' = Unborn
    BY <1>1 DEF mcVars, vars, kernelVars, threadVars, globalVars, Unreaped, Unborn
  <2>2. Orderly' = Orderly /\ AtWork' = AtWork
    BY <2>1 DEF Orderly, AtWork
  <2>3. ASSUME Orderly, NEW c \in Clients PROVE Books(c)' /\ Ledger(c)'
    BY <2>1, <2>3, QuietStep DEF ApartInv
  <2> QED
    BY <1>0, <2>2, <2>3 DEF ApartInv
<1>2. CASE MCNext
  <2> SUFFICES ASSUME Orderly'
               PROVE  OneOnly(AtWork') /\ \A c \in Clients : Books(c)' /\ Ledger(c)'
    BY <1>0 DEF ApartInv
  <2>0. /\ OneOnly(AtWork') /\ OneOnly(AtWork) /\ daemon = "up"
        /\ \A c \in Clients : Books(c) /\ Ledger(c) /\ ~cmd'[c].amp
    BY <1>2, OrderlyStep DEF MCNext, SignalsNext, ApartInv
  <2>1. ASSUME NEW c \in Clients, process_cmd(c), NEW d \in Clients
        PROVE  Books(d)' /\ Ledger(d)'
    <3>1. Shell(c)
      BY <2>1, ShellIsWork
    <3>2. /\ pc[c] \notin {"recv", "ended"} /\ Unborn' \subseteq Unborn
          /\ d # c => UNCHANGED <<jobs[d], pc[d], cmd[d]>>
      BY <1>0, <3>1, ShellAlone
    <3>3. CASE d = c
      BY <1>0, <2>0, <3>1, <3>3, ShellStep
    <3>4. CASE d # c
      <4>1. pc[d] \in {"recv", "ended"}
        BY <2>0, <3>2, <3>4 DEF AtWork, OneOnly
      <4> QED
        BY <2>0, <3>2, <3>4, <4>1, IdleBooks
    <3> QED
      BY <3>3, <3>4
  <2>2. ASSUME NEW c \in Clients, NEW k \in Cmds, Recv(c, k), NEW d \in Clients
        PROVE  Books(d)' /\ Ledger(d)'
    <3>1. /\ wait_cnt' = 0 /\ jobs' = jobs /\ got' = got /\ wpid' = wpid /\ status' = status
          /\ Unborn' = Unborn /\ Unreaped' = Unreaped
      BY <2>2 DEF Recv, kernelVars, Unborn, Unreaped
    <3>2. CASE d = c
      <4>1. pc'[c] \in {"bg", "fg", "recv", "fork1"} /\ waited'[c] = 0
        BY <1>0, <2>2 DEF Recv, Goto, TypeOK
      <4> QED
        BY <2>0, <3>1, <3>2, <4>1 DEF Books, Ledger, Handling
    <3>3. CASE d # c
      <4>1. UNCHANGED <<pc[d], cmd[d], waited[d]>>
        BY <1>0, <2>2, <3>3 DEF Recv, Goto, TypeOK
      <4>2. /\ Hidden(d)' = Hidden(d) /\ InFlight(d)' = InFlight(d)
            /\ Handling(d)' = Handling(d) /\ Credit(d)' = Credit(d)
        BY <3>1, <4>1 DEF Hidden, InFlight, Handling, Credit
      <4>3. /\ wait_cnt \in Nat /\ waited[d] \in Nat /\ Credit(d) \in {0, 1}
            /\ Cardinality(Hidden(d)) \in Nat
            /\ Cardinality(Hidden(d) \ {InFlight(d)}) \in Nat
        BY <1>0, CountIsNat DEF TypeOK, Credit, Hidden, Unreaped
      <4> QED
        BY <2>0, <3>1, <4>1, <4>2, <4>3 DEF Books, Ledger
    <3> QED
      BY <3>2, <3>3
  <2>3. ASSUME NEW c \in Clients, NEW sig \in Ctls, Message(c, sig), NEW d \in Clients
        PROVE  Books(d)' /\ Ledger(d)'
    <3>1. Unreaped' = Unreaped /\ Unborn' = Unborn
      BY <1>0, <2>3, DeliverTyped DEF Message, kernelVars, Unreaped, Unborn
    <3>2. UNCHANGED <<jobs, pc, cmd, waited, got, wait_cnt, wpid, status>>
      BY <2>3 DEF Message, threadVars, globalVars
    <3> QED
      BY <2>0, <3>1, <3>2, QuietStep
  <2>4. ASSUME NEW c \in Clients, Disconnect(c), NEW d \in Clients
        PROVE  Books(d)' /\ Ledger(d)'
    <3>1. /\ UNCHANGED <<jobs, cmd, waited, got, wait_cnt, wpid, status>>
          /\ Unreaped' = Unreaped /\ Unborn' = Unborn
      BY <2>4 DEF Disconnect, globalVars, kernelVars, Unreaped, Unborn
    <3>2. CASE d = c
      <4>1. pc'[c] = "ended"
        BY <1>0, <2>4 DEF Disconnect, Goto, TypeOK
      <4> QED
        BY <2>0, <3>1, <3>2, <4>1 DEF Books, Ledger, Handling
    <3>3. CASE d # c
      <4>1. pc'[d] = pc[d]
        BY <1>0, <2>4, <3>3 DEF Disconnect, Goto, TypeOK
      <4> QED
        BY <2>0, <3>1, <4>1, QuietStep
    <3> QED
      BY <3>2, <3>3
  <2>5. ASSUME ChildStep, NEW d \in Clients
        PROVE  Books(d)' /\ Ledger(d)'
    <3>1. Unreaped' = Unreaped /\ Unborn' = Unborn
      BY <1>0, <2>5, ProcStepTyped DEF ChildStep
    <3> QED
      BY <2>0, <2>5, <3>1, QuietStep DEF ChildStep, threadVars, globalVars
  <2> QED
    BY <1>2, <2>0, <2>1, <2>2, <2>3, <2>4, <2>5 DEF MCNext, SignalsNext, EchoServe
<1> QED
  BY <1>1, <1>2 DEF MCNext

\* Any number of clients of signals/server.c: as long as no two of their lines overlap,
\* empty ones included, and nobody uses "&" or bg, or fg for a pipeline, each waitpid of
\* the wait loop has a child to wait for, whatever they interrupt and stop between them.
THEOREM OrderlyWaits == ASSUME IsFiniteSet(Clients) PROVE MCSpec => []ApartWaits
<1>1. MCInit => ApartInv
  BY ApartInit
<1>2. ApartInv /\ [MCNext]_mcVars => ApartInv'
  BY ApartStep
<1>3. ApartInv => ApartWaits
  <2> SUFFICES ASSUME ApartInv, Orderly, NEW c \in Clients, pc[c] = "wait",
                      waited[c] < wait_cnt, Unreaped = {}
               PROVE  FALSE
    BY DEF ApartWaits, WaitHasChild
  <2>1. waited[c] \in Nat /\ wait_cnt \in Nat /\ wait_cnt - waited[c] <= Cardinality(Hidden(c))
    BY DEF ApartInv, TypeOK, Ledger
  <2>2. Hidden(c) = {}
    BY DEF Hidden
  <2>3. Cardinality(Hidden(c)) = 0
    BY <2>2, FS_EmptySet
  <2> QED
    BY <2>1, <2>3
<1> QED
  BY <1>1, <1>2, <1>3, PTL DEF MCSpec

-----------------------------------------------------------------------------
(* Whose programs a client's CTL message reaches.                          *)

Forked == Pid \ Unborn
ListsOwned == \A c \in Clients : \A p \in ListedPids(jobs[c]) : p \in Forked /\ owner[p] = {c}
GroupsOwned ==
    \A p \in Forked : pgrp[p] # 0 => pgrp[p] \in Forked /\ owner[p] = owner[pgrp[p]]

\* Whatever the thread of c is to be told of is of its own line.
OwnWork(c) ==
    /\ \A p \in Active : owner[p] = {c}
    /\ Handling(c) => InFlight(c) \in Forked /\ owner[InFlight(c)] = {c}
    /\ pc[c] \in {"fg", "fgwait"} => ~cmd[c].pipe
    /\ pc[c] = "fork2" /\ cmd[c].pipe => chid1 \in Forked /\ owner[chid1] = {c}

OwnOrder ==
    /\ OneOnly(AtWork) /\ Events /\ ListsOwned /\ GroupsOwned
    /\ \A c \in AtWork : Work(c) /\ OwnWork(c)
    /\ AtWork = {} => Active = {}

OwnInv == TypeOK /\ (Orderly /\ tidy => OwnOrder)

LEMMA OwnInit == MCInit => OwnInv
<1> SUFFICES ASSUME MCInit PROVE OwnInv
  OBVIOUS
<1>1. TypeOK
  BY InitTyped DEF MCInit
<1>2. AtWork = {} /\ OneOnly(AtWork)
  BY DEF MCInit, Init, AtWork, OneOnly
<1>3. Events /\ Active = {} /\ Forked = {}
  BY DEF MCInit, Init, KernelInit, Events, Active, Unreaped, Forked, Unborn, Halted
<1>4. ASSUME tidy, NEW c \in Clients
      PROVE  ListedPids(jobs[c]) = {}
  <2>1. jobs[c] = <<>>
    BY <1>4 DEF MCInit
  <2> QED
    BY <2>1 DEF ListedPids
<1> QED
  BY <1>1, <1>2, <1>3, <1>4 DEF OwnInv, OwnOrder, ListsOwned, GroupsOwned

\* Owners stay, and whoever is forked belongs to the thread that moves.
LEMMA OwnersStay ==
    ASSUME Watch, Unborn' = Unborn
    PROVE  Forked' = Forked /\ \A p \in Pid : owner'[p] = owner[p]
BY DEF Watch, Born, Unborn, Forked

LEMMA OwnerForked ==
    ASSUME Watch, TypeOK, NEW c \in Clients, NEW l, Goto(c, l), l # pc[c],
           NEW p \in Pid, NEW g, NEW s, s # "unborn", Fork(p, g, s)
    PROVE  /\ p \notin Forked /\ Forked' = Forked \cup {p} /\ owner'[p] = {c}
           /\ \A q \in Forked : owner'[q] = owner[q] /\ pgrp'[q] = pgrp[q]
           /\ pgrp'[p] = g
<1>0. /\ pstate \in [Pid -> ProcState] /\ pgrp \in [Pid -> 0 .. MaxPid] /\ DOMAIN pc = Clients
      /\ pstate[p] = "unborn" /\ pstate' = [pstate EXCEPT ![p] = s]
      /\ pgrp' = [pgrp EXCEPT ![p] = g]
  BY DEF TypeOK, KernelTypeOK, Fork, Unborn
<1>1. {d \in Clients : pc'[d] # pc[d]} = {c}
  BY <1>0 DEF Goto
<1>2. \A q \in Pid : Born(q) <=> q = p
  BY <1>0 DEF Born
<1>3. owner'[p] = {c} /\ \A q \in Pid \ {p} : owner'[q] = owner[q]
  BY <1>1, <1>2 DEF Watch
<1>4. p \notin Forked /\ Forked' = Forked \cup {p}
  BY <1>0 DEF Forked, Unborn
<1> QED
  BY <1>0, <1>3, <1>4 DEF Forked

\* A step that forks nobody, and lists at most a program of the thread that moves.
LEMMA OwnKept ==
    ASSUME TypeOK, Watch, ListsOwned, GroupsOwned, NEW c \in Clients,
           Unborn' = Unborn, pgrp' = pgrp,
           \A d \in Clients \ {c} : jobs'[d] = jobs[d],
           \A p \in ListedPids(jobs'[c]) :
              p \in ListedPids(jobs[c]) \/ (p \in Forked /\ owner[p] = {c})
    PROVE  /\ ListsOwned' /\ GroupsOwned' /\ Forked' = Forked
           /\ \A p \in Forked : owner'[p] = owner[p]
<1>1. /\ Forked' = Forked /\ Forked \subseteq Pid
      /\ \A p \in Pid : owner'[p] = owner[p]
  BY OwnersStay DEF Forked
<1>2. ASSUME NEW d \in Clients, NEW p \in ListedPids(jobs'[d])
      PROVE  p \in Forked /\ owner'[p] = {d}
  <2>1. CASE d = c
    BY <1>1, <1>2, <2>1 DEF ListsOwned
  <2>2. CASE d # c
    <3>1. p \in ListedPids(jobs[d])
      BY <1>2, <2>2
    <3> QED
      BY <1>1, <3>1 DEF ListsOwned
  <2> QED
    BY <2>1, <2>2
<1>3. ListsOwned'
  BY <1>1, <1>2 DEF ListsOwned
<1>4. GroupsOwned'
  BY <1>1 DEF GroupsOwned
<1> QED
  BY <1>1, <1>3, <1>4

\* The members of a listed group belong to the client whose list it is.
LEMMA MembersOwned ==
    ASSUME ListsOwned, GroupsOwned, NEW c \in Clients, NEW g \in ListedPids(jobs[c])
    PROVE  \A p \in Members(g) : owner[p] = {c}
<1>1. g \in Forked /\ owner[g] = {c} /\ g # 0
  BY KernelAssumption DEF ListsOwned, Forked, Pid
<1>2. Members(g) \subseteq Forked /\ \A p \in Members(g) : pgrp[p] = g
  BY DEF Members, Unreaped, Forked, Unborn
<1> QED
  BY <1>1, <1>2 DEF GroupsOwned

LEMMA OwnForkFirst ==
    ASSUME TypeOK, Events, Watch, ListsOwned, GroupsOwned, NEW c \in Clients,
           Work(c), OwnWork(c), ForkFirst(c)
    PROVE  ListsOwned' /\ GroupsOwned' /\ OwnWork(c)'
<1>1. PICK p \in Pid : /\ Fork(p, p, IF cmd[c].head = "bg" THEN "signaled" ELSE "running")
                       /\ chid1' = p
  BY DEF ForkFirst, Unborn
<1>2. /\ KernelTypeOK /\ Goto(c, "fork2") /\ pc[c] = "fork1" /\ pc'[c] = "fork2"
      /\ UNCHANGED <<jobs, cmd>> /\ Active = {}
  BY DEF ForkFirst, TypeOK, Goto, Work
<1>3. /\ p \notin Forked /\ Forked' = Forked \cup {p} /\ owner'[p] = {c}
      /\ \A q \in Forked : owner'[q] = owner[q] /\ pgrp'[q] = pgrp[q]
      /\ pgrp'[p] = p
  BY <1>1, <1>2, OwnerForked
<1>4. Active' = {p}
  BY <1>1, <1>2, ActiveFork
<1>5. ListsOwned'
  BY <1>2, <1>3 DEF ListsOwned
<1>6. GroupsOwned'
  BY <1>3 DEF GroupsOwned
<1>7. OwnWork(c)'
  BY <1>1, <1>2, <1>3, <1>4 DEF OwnWork, Handling
<1> QED
  BY <1>5, <1>6, <1>7

LEMMA OwnForkSecond ==
    ASSUME TypeOK, Events, Watch, ListsOwned, GroupsOwned, NEW c \in Clients,
           Work(c), OwnWork(c), ForkSecond(c)
    PROVE  ListsOwned' /\ GroupsOwned' /\ OwnWork(c)'
<1>1. /\ KernelTypeOK /\ Goto(c, "started") /\ pc[c] = "fork2" /\ pc'[c] = "started"
      /\ UNCHANGED <<jobs, cmd, chid1>>
  BY DEF ForkSecond, TypeOK, Goto
<1>2. CASE cmd[c].pipe
  <2>1. PICK p \in Pid : \E g \in JoinedGroups(p) : Fork(p, g, "running")
    BY <1>2 DEF ForkSecond, Unborn
  <2>2. PICK g \in JoinedGroups(p) : Fork(p, g, "running")
    BY <2>1
  <2>3. /\ p \notin Forked /\ Forked' = Forked \cup {p} /\ owner'[p] = {c}
        /\ \A q \in Forked : owner'[q] = owner[q] /\ pgrp'[q] = pgrp[q]
        /\ pgrp'[p] = g
    BY <1>1, <2>2, OwnerForked
  <2>4. Active' = Active \cup {p}
    BY <1>1, <2>2, ActiveFork
  <2>5. chid1 \in Forked /\ owner[chid1] = {c} /\ chid1 # 0
    BY <1>1, <1>2, KernelAssumption DEF OwnWork, Forked, Pid
  <2>6. g \in {0, chid1}
    BY <2>5 DEF JoinedGroups
  <2>7. ListsOwned'
    BY <1>1, <2>3 DEF ListsOwned
  <2>8. GroupsOwned'
    <3>1. ASSUME NEW q \in Forked', pgrp'[q] # 0
          PROVE  pgrp'[q] \in Forked' /\ owner'[q] = owner'[pgrp'[q]]
      <4>1. CASE q = p
        <5>1. pgrp'[q] = chid1
          BY <2>3, <2>6, <3>1, <4>1
        <5> QED
          BY <2>3, <2>5, <4>1, <5>1
      <4>2. CASE q # p
        <5>1. q \in Forked /\ owner'[q] = owner[q] /\ pgrp'[q] = pgrp[q]
          BY <2>3, <3>1, <4>2
        <5>2. pgrp[q] \in Forked /\ owner[q] = owner[pgrp[q]]
          BY <3>1, <5>1 DEF GroupsOwned
        <5> QED
          BY <2>3, <5>1, <5>2
      <4> QED
        BY <4>1, <4>2
    <3> QED
      BY <3>1 DEF GroupsOwned
  <2>9. Active \subseteq Forked
    BY DEF Active, Unreaped, Forked, Unborn
  <2>10. OwnWork(c)'
    BY <1>1, <2>3, <2>4, <2>9 DEF OwnWork, Handling
  <2> QED
    BY <2>7, <2>8, <2>10
<1>3. CASE ~cmd[c].pipe
  <2>1. UNCHANGED kernelVars
    BY <1>3 DEF ForkSecond
  <2>2. Unborn' = Unborn /\ pgrp' = pgrp /\ Active' = Active
    BY <2>1, ActiveSame DEF kernelVars
  <2>3. /\ ListsOwned' /\ GroupsOwned' /\ Forked' = Forked
        /\ \A p \in Forked : owner'[p] = owner[p]
    BY <1>1, <2>2, OwnKept
  <2>4. Active \subseteq Forked
    BY DEF Active, Unreaped, Forked, Unborn
  <2>5. OwnWork(c)'
    BY <1>1, <2>2, <2>3, <2>4 DEF OwnWork, Handling
  <2> QED
    BY <2>3, <2>5
<1> QED
  BY <1>2, <1>3

LEMMA OwnShell ==
    ASSUME TypeOK, Events, Watch, ListsOwned, GroupsOwned, NEW c \in Clients,
           Work(c), OwnWork(c), Shell(c)
    PROVE  ListsOwned' /\ GroupsOwned' /\ (c \in AtWork' => OwnWork(c)')
<1>0. /\ KernelTypeOK /\ jobs[c] \in Seq(Job) /\ pc[c] \notin {"bg", "bgadd", "bgcont"}
      /\ DOMAIN pc = Clients /\ DOMAIN jobs = Clients /\ DOMAIN got = Clients
      /\ \A d \in Clients \ {c} : jobs'[d] = jobs[d]
  BY ShellAlone DEF TypeOK, Work
<1>a. Active \subseteq Forked /\ Unreaped \subseteq Forked
  BY DEF Active, Unreaped, Forked, Unborn
<1> USE DEF Goto
<1>1. CASE bg_cmd_process(c) \/ BackgroundAdd(c) \/ BackgroundContinue(c)
  BY <1>0, <1>1 DEF bg_cmd_process, BackgroundAdd, BackgroundContinue
<1>2. CASE fg_cmd_process(c)
  <2>1. /\ pc[c] = "fg" /\ pc'[c] \in {"fork2", "fgwait"} /\ UNCHANGED <<jobs, cmd, chid1>>
        /\ Active = {} /\ ~cmd[c].pipe
    BY <1>0, <1>2 DEF fg_cmd_process, globalVars, Work, OwnWork
  <2>2. /\ Unborn' = Unborn /\ pgrp' = pgrp
        /\ \A p \in Active' : owner[p] = {c} /\ p \in Forked
    <3>1. CASE Len(jobs[c]) = 0
      <4>1. UNCHANGED kernelVars
        BY <1>2, <3>1 DEF fg_cmd_process
      <4> QED
        BY <2>1, <4>1, ActiveSame DEF kernelVars
    <3>2. CASE Len(jobs[c]) # 0
      <4> DEFINE g == Current(c).pgid
      <4>1. Continue(Members(g))
        BY <1>2, <3>2 DEF fg_cmd_process
      <4>2. g \in ListedPids(jobs[c])
        BY <1>0, <3>2, CurrentListed
      <4> HIDE DEF g
      <4>3. Active' \subseteq Members(g) /\ Unborn' = Unborn /\ pgrp' = pgrp
        BY <1>0, <2>1, <4>1, ActiveContinue, ContinueTyped DEF Continue
      <4>4. Members(g) \subseteq Forked
        BY <1>a DEF Members
      <4> QED
        BY <4>2, <4>3, <4>4, MembersOwned
    <3> QED
      BY <3>1, <3>2
  <2>3. /\ ListsOwned' /\ GroupsOwned' /\ Forked' = Forked
        /\ \A p \in Forked : owner'[p] = owner[p]
    BY <1>0, <2>1, <2>2, OwnKept
  <2>4. OwnWork(c)'
    BY <2>1, <2>2, <2>3 DEF OwnWork, Handling
  <2> QED
    BY <2>3, <2>4
<1>3. CASE fg_wait(c)
  <2>1. /\ pc[c] = "fgwait" /\ pc'[c] = "fork2" /\ UNCHANGED <<cmd, chid1>> /\ ~cmd[c].pipe
    BY <1>0, <1>3 DEF fg_wait, globalVars, OwnWork
  <2>2. Active' = {}
    BY <1>3, WorkFgWait
  <2>3. Unborn' = Unborn /\ pgrp' = pgrp
    BY <1>0, <1>3, CollectTyped DEF fg_wait, Collect, Members, Unreaped, kernelVars, Unborn
  <2>4. ListedPids(jobs'[c]) = ListedPids(jobs[c])
    <3>1. PICK s : jobs' = [jobs EXCEPT ![c] = FgStatus(jobs[c], Current(c).pgid, s)]
      BY <1>3 DEF fg_wait
    <3> QED
      BY <1>0, <3>1, MarkKeeps DEF FgStatus, JobStatus
  <2>5. ListsOwned' /\ GroupsOwned'
    BY <1>0, <2>3, <2>4, OwnKept
  <2>6. OwnWork(c)'
    BY <2>1, <2>2 DEF OwnWork, Handling
  <2> QED
    BY <2>5, <2>6
<1>4. CASE ForkFirst(c)
  BY <1>4, OwnForkFirst
<1>5. CASE ForkSecond(c)
  BY <1>5, OwnForkSecond
<1>6. CASE Latest(c) \/ Started(c) \/ StoreWpid(c) \/ WaitFails(c)
  <2>1. UNCHANGED <<kernelVars, jobs, cmd>>
    BY <1>6 DEF Latest, Started, StoreWpid, WaitFails, threadVars
  <2>2. Unborn' = Unborn /\ pgrp' = pgrp /\ Active' = Active
    BY <2>1, ActiveSame DEF kernelVars
  <2>3. /\ ListsOwned' /\ GroupsOwned' /\ Forked' = Forked
        /\ \A p \in Forked : owner'[p] = owner[p]
    BY <1>0, <2>1, <2>2, OwnKept
  <2>4. /\ pc'[c] \in {"sync", "wait", "bgadd", "status"}
        /\ Handling(c)' => Handling(c) /\ InFlight(c)' = InFlight(c)
    BY <1>0, <1>6 DEF Latest, Started, StoreWpid, WaitFails, threadVars, Handling, InFlight
  <2>5. OwnWork(c)'
    BY <1>a, <2>2, <2>3, <2>4 DEF OwnWork
  <2> QED
    BY <2>3, <2>5
<1>7. CASE WaitChild(c)
  <2>1. PICK p \in Reported : /\ Collect(p) /\ status' = Report(p)
                              /\ got' = [got EXCEPT ![c] = p]
    BY <1>7 DEF WaitChild
  <2>2. /\ pc[c] = "wait" /\ pc'[c] = "store" /\ UNCHANGED <<cmd, jobs>> /\ NoneWoken
    BY <1>0, <1>7 DEF WaitChild, Work
  <2>3. p \in Unreaped /\ Report(p) # "none"
    BY DEF Reported
  <2>4. Report(p) # "continued"
    BY <2>2, <2>3 DEF NoneWoken, Active, Quiet, Report, Zombie
  <2>5. p \in Active /\ Active' = Active \ {p}
    BY <1>0, <2>1, <2>3, <2>4, ActiveCollect
  <2>6. Unborn' = Unborn /\ pgrp' = pgrp
    BY <1>0, <2>1, <2>3, CollectTyped DEF Collect, Unreaped
  <2>7. /\ ListsOwned' /\ GroupsOwned' /\ Forked' = Forked
        /\ \A q \in Forked : owner'[q] = owner[q]
    BY <1>0, <2>2, <2>6, OwnKept
  <2>8. InFlight(c)' = p
    BY <1>0, <2>1, <2>2 DEF InFlight
  <2>9. OwnWork(c)'
    BY <1>a, <2>2, <2>5, <2>7, <2>8 DEF OwnWork
  <2> QED
    BY <2>7, <2>9
<1>8. CASE process_wait_status(c)
  <2>1. /\ pc[c] = "status" /\ pc'[c] = "wait" /\ status # "continued"
        /\ wpid \in Forked /\ owner[wpid] = {c} /\ wpid \in Nat
    BY <1>0, <1>8, KernelAssumption
       DEF process_wait_status, Work, OwnWork, Handling, InFlight, TypeOK
  <2>2. UNCHANGED kernelVars
    BY <1>8, <2>1 DEF process_wait_status, Exited, Stopped, Continued
  <2>3. Unborn' = Unborn /\ pgrp' = pgrp /\ Active' = Active
    BY <2>2, ActiveSame DEF kernelVars
  <2>4. ListedPids(jobs'[c]) \subseteq ListedPids(jobs[c]) \cup {wpid}
    <3>1. CASE Exited(c)
      <4> DEFINE marked == update_jobstatus(jobs[c], wpid, "Done")
      <4>1. marked \in Seq(Job) /\ ListedPids(marked) = ListedPids(jobs[c])
        BY <1>0, MarkKeeps DEF JobStatus
      <4>2. jobs'[c] = update_job_list(marked)
        BY <1>0, <3>1 DEF Exited
      <4> HIDE DEF marked
      <4> QED
        BY <4>1, <4>2, CompactKeeps
    <3>2. CASE Stopped(c)
      BY <2>1, <3>2, AddJobTyped DEF Stopped
    <3>3. CASE jobs' = jobs
      BY <3>3
    <3> QED
      BY <1>8, <2>1, <3>1, <3>2, <3>3 DEF process_wait_status, Continued
  <2>5. /\ ListsOwned' /\ GroupsOwned' /\ Forked' = Forked
        /\ \A q \in Forked : owner'[q] = owner[q]
    BY <1>0, <2>1, <2>3, <2>4, OwnKept
  <2>6. OwnWork(c)'
    BY <1>a, <2>1, <2>3, <2>5 DEF OwnWork, Handling
  <2> QED
    BY <2>5, <2>6
<1>9. CASE Prompt(c)
  <2>1. pc'[c] = "recv" /\ UNCHANGED <<kernelVars, jobs>>
    BY <1>0, <1>9 DEF Prompt
  <2>2. Unborn' = Unborn /\ pgrp' = pgrp
    BY <2>1 DEF kernelVars, Unborn
  <2>3. ListsOwned' /\ GroupsOwned'
    BY <1>0, <2>1, <2>2, OwnKept
  <2>4. c \notin AtWork'
    BY <2>1 DEF AtWork
  <2> QED
    BY <2>3, <2>4
<1> QED
  BY <1>1, <1>2, <1>3, <1>4, <1>5, <1>6, <1>7, <1>8, <1>9 DEF Shell

\* What a thread waits for does not change with a step of the world around it.
LEMMA OwnStill ==
    ASSUME TypeOK, Watch, ListsOwned, GroupsOwned, Active' = Active,
           Unborn' = Unborn, pgrp' = pgrp, UNCHANGED <<jobs, cmd, got, wpid, chid1>>
    PROVE  /\ ListsOwned' /\ GroupsOwned'
           /\ \A c \in Clients : OwnWork(c) /\ pc'[c] = pc[c] => OwnWork(c)'
<1>1. /\ Forked' = Forked /\ Forked \subseteq Pid /\ Active \subseteq Pid
      /\ \A p \in Pid : owner'[p] = owner[p]
  BY OwnersStay DEF Forked, Active, Unreaped
<1>2. ListsOwned' /\ GroupsOwned'
  BY <1>1 DEF ListsOwned, GroupsOwned
<1>3. ASSUME NEW c \in Clients, OwnWork(c), pc'[c] = pc[c]
      PROVE  OwnWork(c)'
  <2>1. Handling(c)' = Handling(c) /\ InFlight(c)' = InFlight(c)
    BY <1>3 DEF Handling, InFlight
  <2> QED
    BY <1>1, <1>3, <2>1 DEF OwnWork
<1> QED
  BY <1>2, <1>3

LEMMA OwnStep == IsFiniteSet(Clients) /\ OwnInv /\ [MCNext]_mcVars => OwnInv'
<1> SUFFICES ASSUME IsFiniteSet(Clients), OwnInv, [MCNext]_mcVars PROVE OwnInv'
  OBVIOUS
<1>0. TypeOK /\ TypeOK' /\ KernelTypeOK /\ DOMAIN pc = Clients
  BY SignalsTyped DEF OwnInv, MCNext, mcVars, TypeOK
<1>1. CASE UNCHANGED mcVars
  <2>1. UNCHANGED <<kernelVars, threadVars, globalVars, owner, apart, simple, tidy>>
    BY <1>1 DEF mcVars, vars
  <2>2. UNCHANGED <<jobs, pc, cmd, waited, got, wait_cnt, chid1, wpid, status, pgrp>>
    BY <2>1 DEF threadVars, globalVars, kernelVars
  <2>3. /\ Active' = Active /\ Events' = Events /\ NoneWoken' = NoneWoken
        /\ Unreaped' = Unreaped /\ Forked' = Forked
    BY <2>1, ActiveSame DEF Forked
  <2>4. AtWork' = AtWork /\ Orderly' = Orderly
    BY <2>1, <2>2 DEF AtWork, Orderly
  <2>5. \A c \in Clients : (Work(c) => Work(c)') /\ (OwnWork(c) => OwnWork(c)')
    BY <2>1, <2>2, <2>3, WorkStill DEF OwnWork, Handling, InFlight
  <2>6. ListsOwned' = ListsOwned /\ GroupsOwned' = GroupsOwned
    BY <2>1, <2>2, <2>3 DEF ListsOwned, GroupsOwned
  <2>7. AtWork \subseteq Clients
    BY DEF AtWork
  <2> QED
    BY <1>0, <2>1, <2>3, <2>4, <2>5, <2>6, <2>7 DEF OwnInv, OwnOrder
<1>2. CASE MCNext
  <2> SUFFICES ASSUME Orderly', tidy' PROVE OwnOrder'
    BY <1>0 DEF OwnInv
  <2>b. tidy /\ ~Untidy
    BY <1>2 DEF MCNext, Watch
  <2>0. /\ Watch /\ OwnOrder /\ OneOnly(AtWork')
        /\ \A c \in Clients : /\ ~cmd'[c].amp /\ cmd'[c].head # "bg"
                              /\ pc[c] = "fg" => OneOnly(Members(Target(c)))
    BY <1>2, <2>b, OrderlyStep DEF MCNext, OwnInv
  <2>a. /\ OneOnly(AtWork) /\ Events /\ ListsOwned /\ GroupsOwned
        /\ \A c \in AtWork : Work(c) /\ OwnWork(c)
        /\ AtWork = {} => Active = {}
    BY <2>0 DEF OwnOrder
  <2>1. ASSUME NEW c \in Clients, process_cmd(c)
        PROVE  OwnOrder'
    <3>1. Shell(c) /\ pc[c] \notin {"recv", "ended"} /\ \A d \in Clients \ {c} : pc'[d] = pc[d]
      BY <1>0, <2>1, ShellIsWork, ShellAlone
    <3>2. Work(c) /\ OwnWork(c) /\ \A d \in AtWork' : d = c
      BY <2>a, <3>1 DEF AtWork, OneOnly
    <3>3. pc[c] = "fg" /\ jobs[c] # <<>> => OneOnly(Members(Current(c).pgid))
      <4> SUFFICES ASSUME pc[c] = "fg", jobs[c] # <<>>
                   PROVE  OneOnly(Members(Current(c).pgid))
        OBVIOUS
      <4>1. Target(c) = Current(c).pgid
        BY DEF Target
      <4> QED
        BY <2>0, <4>1
    <3>4. Work(c)' /\ Events'
      BY <1>0, <2>a, <3>1, <3>2, <3>3, WorkShell
    <3>5. ListsOwned' /\ GroupsOwned' /\ (c \in AtWork' => OwnWork(c)')
      BY <1>0, <2>0, <2>a, <3>1, <3>2, OwnShell
    <3>6. c \notin AtWork' => Active' = {}
      BY <3>4 DEF AtWork, Work
    <3> QED
      BY <2>0, <3>2, <3>4, <3>5, <3>6 DEF OwnOrder
  <2>4. ASSUME NEW c \in Clients, NEW k \in Cmds, Recv(c, k), k.head = "empty"
        PROVE  OwnOrder'
    <3>1. UNCHANGED <<kernelVars, jobs>> /\ pc' = pc
      BY <1>0, <2>4 DEF Recv, Goto, TypeOK
    <3>2. AtWork = {} /\ AtWork' = {}
      BY <2>0, <2>4, <3>1 DEF Watch, Orderly, EmptyAmid, AtWork
    <3>3. Active' = {} /\ Events' /\ Unborn' = Unborn /\ pgrp' = pgrp
      BY <2>a, <3>1, <3>2, ActiveSame DEF kernelVars
    <3>4. ListsOwned' /\ GroupsOwned'
      BY <1>0, <2>0, <2>a, <2>4, <3>1, <3>3, OwnKept
    <3> QED
      BY <2>0, <3>2, <3>3, <3>4 DEF OwnOrder
  <2>2. ASSUME NEW c \in Clients, NEW k \in Cmds, Recv(c, k), k.head # "empty"
        PROVE  OwnOrder'
    <3>1. /\ UNCHANGED <<kernelVars, jobs>> /\ pc[c] = "recv" /\ cmd'[c] = k /\ waited'[c] = 0
          /\ wait_cnt' = 0 /\ pc'[c] \in {"bg", "fg", "fork1"}
          /\ pc'[c] \in {"bg", "fg"} => pc'[c] = k.head
          /\ \A d \in Clients \ {c} : pc'[d] = pc[d]
      BY <1>0, <2>2 DEF Recv, Goto, TypeOK
    <3>2. Active' = Active /\ Events' /\ Unborn' = Unborn /\ pgrp' = pgrp
      BY <2>a, <3>1, ActiveSame DEF kernelVars
    <3>3. ListsOwned' /\ GroupsOwned'
      BY <1>0, <2>0, <2>a, <3>1, <3>2, OwnKept
    <3>4. c \in AtWork' /\ \A d \in AtWork' : d = c
      BY <2>0, <3>1 DEF AtWork, OneOnly
    <3>5. AtWork = {}
      BY <3>1, <3>4 DEF AtWork
    <3>6. pc'[c] \in {"fg", "fork1"} /\ ~cmd'[c].amp /\ (pc'[c] = "fg" => ~cmd'[c].pipe)
      <4>1. ~cmd'[c].amp /\ cmd'[c].head # "bg"
        BY <2>0
      <4>2. k.head = "fg" => ~k.pipe
        BY <2>b, <3>1 DEF Untidy
      <4>3. pc'[c] = "fg" => k.head = "fg"
        BY <3>1
      <4>4. pc'[c] = "fg" => ~cmd'[c].pipe
        BY <3>1, <4>2, <4>3, Zenon
      <4> QED
        BY <3>1, <4>1, <4>4
    <3>7. Work(c)' /\ OwnWork(c)'
      BY <2>a, <3>1, <3>2, <3>5, <3>6 DEF Work, OwnWork, Handling
    <3> QED
      BY <2>0, <3>2, <3>3, <3>4, <3>7 DEF OwnOrder
  <2>3. ASSUME \/ \E c \in Clients : Disconnect(c) \/ \E sig \in Ctls : Message(c, sig)
               \/ ChildStep
        PROVE  OwnOrder'
    <3>1. /\ Active' = Active /\ Events' /\ (NoneWoken => NoneWoken')
          /\ Unreaped' = Unreaped /\ Unborn' = Unborn /\ pgrp' = pgrp
      <4>1. CASE UNCHANGED kernelVars
        BY <2>a, <4>1, ActiveSame DEF kernelVars
      <4>2. ASSUME NEW S, NEW sig, Deliver(S, sig)
            PROVE  /\ Active' = Active /\ Events' /\ (NoneWoken => NoneWoken')
                   /\ Unreaped' = Unreaped /\ Unborn' = Unborn /\ pgrp' = pgrp
        BY <1>0, <2>a, <4>2, ActiveDeliver, DeliverTyped, DeliverLasts
      <4>3. ASSUME NEW p \in Pid, ProcStep(p)
            PROVE  /\ Active' = Active /\ Events' /\ (NoneWoken => NoneWoken')
                   /\ Unreaped' = Unreaped /\ Unborn' = Unborn /\ pgrp' = pgrp
        <5>1. Unharmed
          BY <2>b DEF Unharmed, Untidy
        <5> QED
          BY <1>0, <2>a, <4>3, <5>1, ActiveProcStep, ProcStepTyped, ProcStepLasts
      <4> QED
        BY <2>3, <4>1, <4>2, <4>3 DEF Message, Disconnect, ChildStep
    <3>2. /\ UNCHANGED <<jobs, cmd, waited, got, wait_cnt, chid1, wpid, status>>
          /\ AtWork' = AtWork /\ \A d \in AtWork : pc'[d] = pc[d]
      <4>1. ASSUME NEW c \in Clients, NEW sig \in Ctls, Message(c, sig)
            PROVE  UNCHANGED <<jobs, cmd, waited, got, wait_cnt, chid1, wpid, status, pc>>
        BY <4>1 DEF Message, threadVars, globalVars
      <4>2. ASSUME NEW c \in Clients, Disconnect(c)
            PROVE  /\ UNCHANGED <<jobs, cmd, waited, got, wait_cnt, chid1, wpid, status>>
                   /\ pc[c] = "recv" /\ pc' = [pc EXCEPT ![c] = "ended"]
        BY <4>2 DEF Disconnect, Goto, globalVars
      <4>3. ASSUME ChildStep
            PROVE  UNCHANGED <<jobs, cmd, waited, got, wait_cnt, chid1, wpid, status, pc>>
        BY <4>3 DEF ChildStep, threadVars, globalVars
      <4> QED
        BY <1>0, <2>3, <4>1, <4>2, <4>3 DEF AtWork
    <3>3. /\ ListsOwned' /\ GroupsOwned'
          /\ \A d \in Clients : OwnWork(d) /\ pc'[d] = pc[d] => OwnWork(d)'
      BY <1>0, <2>0, <2>a, <3>1, <3>2, OwnStill
    <3>4. ASSUME NEW d \in AtWork PROVE Work(d)' /\ OwnWork(d)'
      <4>1. d \in Clients /\ Work(d) /\ OwnWork(d) /\ pc'[d] = pc[d]
        BY <2>a, <3>2 DEF AtWork
      <4> QED
        BY <3>1, <3>2, <3>3, <4>1, WorkStill
    <3> QED
      BY <2>a, <3>1, <3>2, <3>3, <3>4 DEF OwnOrder
  <2> QED
    BY <1>2, <2>1, <2>2, <2>3, <2>4 DEF MCNext, SignalsNext, EchoServe
<1> QED
  BY <1>1, <1>2 DEF MCNext

\* A CTL message of a client with jobs reaches only programs of that client's own lines
\* (signals/server.c:835 and :838, kill of its last job), for any number of clients and any
\* lines and messages, as long as none of the things has happened that
\* CtlReachesOwn names: two lines that overlap, one of them empty or not; "&", bg,
\* fg of a pipeline or with a second program left on the stack; the end of a stopped
\* program by a signal from outside; a job_count above 0 at the start.
THEOREM CtlOnlyOwn == ASSUME IsFiniteSet(Clients) PROVE MCSpec => CtlReachesOwn
<1>1. MCInit => OwnInv
  BY OwnInit
<1>2. OwnInv /\ [MCNext]_mcVars => OwnInv'
  BY OwnStep
<1> DEFINE Reach ==
      Orderly /\ tidy =>
          \A c \in Clients, sig \in Ctls : Message(c, sig) /\ jobs[c] # <<>> =>
              \A p \in Pid : pstate'[p] # pstate[p] => owner[p] = {c}
<1>3. OwnInv /\ [MCNext]_mcVars => [Reach]_mcVars
  <2> SUFFICES ASSUME OwnInv, Orderly, tidy, NEW c \in Clients, NEW sig \in Ctls,
                      Message(c, sig), jobs[c] # <<>>, NEW p \in Pid, pstate'[p] # pstate[p]
               PROVE  owner[p] = {c}
    OBVIOUS
  <2>1. ListsOwned /\ GroupsOwned /\ jobs[c] \in Seq(Job)
    BY DEF OwnInv, OwnOrder, TypeOK
  <2> DEFINE g == Current(c).pgid
  <2>2. Target(c) = g /\ g \in ListedPids(jobs[c])
    BY <2>1, CurrentListed DEF Target
  <2> HIDE DEF g
  <2>3. g # 0
    <3>1. g \in Pid
      BY <2>1, <2>2 DEF ListsOwned, Forked
    <3> QED
      BY <3>1 DEF Pid
  <2>4. Deliver(Members(g), sig)
    BY <2>2, <2>3 DEF Message, kernelVars
  <2>5. p \in Members(g)
    BY <2>4 DEF Deliver, Suspend, Interrupt
  <2> QED
    BY <2>1, <2>2, <2>5, MembersOwned
<1> QED
  BY <1>1, <1>2, <1>3, PTL DEF MCSpec, CtlReachesOwn

-----------------------------------------------------------------------------
(* The earlier server, whose clients share one list.                       *)

LEMMA NewListBlank ==
    ASSUME NEW list \in Seq(Job)
    PROVE  /\ NewList(list) \in Seq(Job) /\ Len(NewList(list)) = Len(list)
           /\ ListedPids(NewList(list)) \subseteq {0}
           /\ DoneEntries(NewList(list)) = {}
<1> DEFINE n == Len(list)
           blank == [i \in 1 .. n |-> Unwritten]
<1>1. n \in Nat /\ DOMAIN list = 1 .. n
  OBVIOUS
<1>2. Unwritten \in Job
  BY DEF Unwritten, Job, JobStatus
<1> HIDE DEF n
<1>3. blank \in Seq(Job) /\ Len(blank) = n
  BY <1>1, <1>2
<1>4. ListedPids(blank) \subseteq {0} /\ DoneEntries(blank) = {}
  BY DEF ListedPids, DoneEntries, Unwritten
<1> QED
  BY <1>1, <1>3, <1>4 DEF NewList, n

\* What add_to_joblist makes of the list, write by write.
LEMMA CountEntryKeeps ==
    ASSUME NEW list \in Seq(Job)
    PROVE  LET longer == Append(list, Unwritten)
           IN  /\ longer \in Seq(Job) /\ Len(longer) = Len(list) + 1
               /\ ListedPids(longer) \subseteq ListedPids(list) \cup {0}
               /\ DoneEntries(longer) = DoneEntries(list)
               /\ \A i \in 1 .. Len(list) : longer[i] = list[i]
<1> DEFINE n == Len(list)
           longer == Append(list, Unwritten)
<1>1. Unwritten \in Job /\ Unwritten.pgid = 0 /\ Unwritten.status = "NULL"
  BY DEF Unwritten, Job, JobStatus
<1>2. /\ longer \in Seq(Job) /\ Len(longer) = n + 1 /\ n \in Nat
      /\ DOMAIN longer = 1 .. n + 1 /\ DOMAIN list = 1 .. n
      /\ longer[n + 1] = Unwritten /\ \A i \in 1 .. n : longer[i] = list[i]
  BY <1>1
<1> HIDE DEF longer, n
<1>3. 1 .. n + 1 = (1 .. n) \cup {n + 1}
  BY <1>2
<1>4. ListedPids(longer) \subseteq ListedPids(list) \cup {0}
  BY <1>1, <1>2, <1>3 DEF ListedPids
<1>5. DoneEntries(longer) = DoneEntries(list)
  BY <1>1, <1>2, <1>3 DEF DoneEntries
<1> QED
  BY <1>2, <1>4, <1>5 DEF longer, n

LEMMA PutPgidKeeps ==
    ASSUME NEW list \in Seq(Job), NEW sid \in Nat
    PROVE  LET put == PutPgid(list, sid)
           IN  /\ put \in Seq(Job) /\ Len(put) = Len(list)
               /\ ListedPids(put) \subseteq ListedPids(list) \cup {sid}
               /\ DoneEntries(put) = DoneEntries(list)
               /\ \A i \in 1 .. Len(list) : put[i].status = list[i].status
<1> DEFINE n == Len(list)
           put == PutPgid(list, sid)
<1>1. CASE n = 0
  <2>1. put = list
    BY <1>1 DEF PutPgid
  <2> QED
    BY <2>1
<1>2. CASE n # 0
  <2>1. n \in Nat /\ n \in 1 .. n /\ DOMAIN list = 1 .. n /\ \A i \in 1 .. n : list[i] \in Job
    BY <1>2
  <2> HIDE DEF n
  <2> DEFINE e == [list[n] EXCEPT !.pgid = sid, !.index = n]
  <2>2. e \in Job /\ e.pgid = sid /\ e.status = list[n].status
    BY <2>1 DEF Job
  <2>3. put = [list EXCEPT ![n] = e]
    BY <1>2, <2>1 DEF PutPgid, n
  <2> HIDE DEF e, put
  <2>4. /\ put \in Seq(Job) /\ DOMAIN put = 1 .. n /\ Len(put) = n
        /\ \A i \in 1 .. n : put[i] = IF i = n THEN e ELSE list[i]
    BY <2>1, <2>2, <2>3
  <2>5. ListedPids(put) \subseteq ListedPids(list) \cup {sid}
    BY <2>1, <2>2, <2>4 DEF ListedPids
  <2>6. \A i \in 1 .. n : put[i].status = list[i].status
    BY <2>1, <2>2, <2>4
  <2>7. DoneEntries(put) = DoneEntries(list)
    BY <2>1, <2>4, <2>6 DEF DoneEntries
  <2> QED
    BY <2>4, <2>5, <2>6, <2>7 DEF put, n
<1> QED
  BY <1>1, <1>2

LEMMA PutStatusKeeps ==
    ASSUME NEW list \in Seq(Job)
    PROVE  LET put == PutStatus(list)
           IN  /\ put \in Seq(Job) /\ Len(put) = Len(list)
               /\ ListedPids(put) = ListedPids(list)
               /\ DoneEntries(put) \subseteq DoneEntries(list)
               /\ \A i \in 1 .. Len(list) :
                     put[i].status = IF i = Len(list) THEN "Stopped" ELSE list[i].status
<1> DEFINE n == Len(list)
           put == PutStatus(list)
<1>1. CASE n = 0
  <2>1. put = list /\ 1 .. n = {}
    BY <1>1 DEF PutStatus
  <2> QED
    BY <2>1
<1>2. CASE n # 0
  <2>1. n \in Nat /\ n \in 1 .. n /\ DOMAIN list = 1 .. n /\ \A i \in 1 .. n : list[i] \in Job
    BY <1>2
  <2> HIDE DEF n
  <2> DEFINE e == [list[n] EXCEPT !.status = "Stopped"]
  <2>2. e \in Job /\ e.pgid = list[n].pgid /\ e.status = "Stopped"
    BY <2>1 DEF Job, JobStatus
  <2>3. put = [list EXCEPT ![n] = e]
    BY <1>2, <2>1 DEF PutStatus, n
  <2> HIDE DEF e, put
  <2>4. /\ put \in Seq(Job) /\ DOMAIN put = 1 .. n /\ Len(put) = n
        /\ \A i \in 1 .. n : put[i] = IF i = n THEN e ELSE list[i]
    BY <2>1, <2>2, <2>3
  <2>5. ListedPids(put) = ListedPids(list)
    <3>1. \A i \in 1 .. n : put[i].pgid = list[i].pgid
      BY <2>1, <2>2, <2>4
    <3> QED
      BY <2>1, <2>4, <3>1 DEF ListedPids
  <2>6. \A i \in 1 .. n : put[i].status = IF i = n THEN "Stopped" ELSE list[i].status
    BY <2>1, <2>2, <2>4
  <2>7. DoneEntries(put) \subseteq DoneEntries(list)
    BY <2>1, <2>4, <2>6 DEF DoneEntries
  <2> QED
    BY <2>4, <2>5, <2>6, <2>7 DEF put, n
<1> QED
  BY <1>1, <1>2

LEMMA PoojaTyped == PoojaTypeOK /\ [PoojaNext]_poojaVars => PoojaTypeOK'
<1> SUFFICES ASSUME PoojaTypeOK, [PoojaNext]_poojaVars PROVE PoojaTypeOK'
  OBVIOUS
<1>0. TypeOK /\ KernelTypeOK /\ jobs \in [Clients -> Seq(Job)]
  BY DEF PoojaTypeOK, TypeOK
<1>c. /\ pc \in [Clients -> PC] /\ waited \in [Clients -> Nat]
      /\ {"wait", "bgcont"} \subseteq PC
  BY <1>0 DEF TypeOK, PC
<1>a. ASSUME NEW c \in Clients, jobs[c] # <<>> PROVE Current(c).pgid \in Nat
  <2>1. jobs[c] \in Seq(Job)
    BY <1>0
  <2>2. jobs[c][Len(jobs[c])] \in Job
    BY <1>a, <2>1
  <2> QED
    BY <2>2 DEF Current, Job
<1>1. fg_job' \in [Clients -> Nat]
  BY <1>a DEF PoojaTypeOK, PoojaNext, PoojaStep, process_line, NextLine, bg, fg, fg_waitpid,
              StartPrograms, is_background, WaitPrograms, wait_status, Leave, RecvFails, poojaVars,
              localVars, WritePgid, WriteStatus
<1>b. adding' \in [Clients -> [left : {"nothing", "pgid", "status"}, sid : Nat]]
  <2>1. /\ adding \in [Clients -> [left : {"nothing", "pgid", "status"}, sid : Nat]]
        /\ Idle \in [left : {"nothing", "pgid", "status"}, sid : Nat]
        /\ \A pid \in Nat : [left |-> "pgid", sid |-> pid] \in [left : {"nothing", "pgid", "status"}, sid : Nat]
        /\ wpid \in Nat /\ chid1 \in Nat
    BY <1>0, KernelAssumption DEF PoojaTypeOK, Idle, TypeOK
  <2>2. \/ adding' = adding
        \/ \E c \in Clients :
              \/ \E pid \in {wpid, chid1} : adding' = [adding EXCEPT ![c] = [left |-> "pgid", sid |-> pid]]
              \/ adding' = [adding EXCEPT ![c].left = "status"]
              \/ adding' = [adding EXCEPT ![c] = Idle]
    BY DEF PoojaNext, PoojaStep, process_line, NextLine, bg, fg, fg_waitpid, StartPrograms,
           is_background, WaitPrograms, wait_status, Leave, RecvFails, poojaVars, localVars,
           WritePgid, WriteStatus, WifStopped, CountEntry
  <2> QED
    BY <2>1, <2>2
<1> SUFFICES TypeOK'
  BY <1>1, <1>b DEF PoojaTypeOK
<1>2. ASSUME NEW c \in Clients, NEW k \in Cmds, NextLine(c, k) PROVE TypeOK'
  <2>1. k \in Command
    BY JobControlAssumption
  <2>2. NewList(jobs[c]) \in Seq(Job)
    BY <1>0, NewListBlank
  <2>3. pc' \in [Clients -> PC] /\ jobs' \in [Clients -> Seq(Job)]
    BY <1>0, <1>2, <2>2 DEF NextLine, SetList, Goto, PC, TypeOK
  <2>4. /\ cmd' \in [Clients -> Command] /\ waited' \in [Clients -> Nat]
        /\ wait_cnt' \in Nat /\ daemon' \in {"up", "exited", "faulted"}
    BY <1>0, <1>2, <2>1 DEF NextLine, TypeOK
  <2> QED
    BY <1>0, <1>2, <2>3, <2>4 DEF NextLine, TypeOK, KernelTypeOK, kernelVars
<1>3. ASSUME daemon = "up", NEW c \in Clients, Shell(c) \/ Client(c) PROVE TypeOK'
  BY <1>0, <1>3, NextTyped DEF Next
<1>4. CASE ChildStep
  BY <1>0, <1>4, ProcStepTyped DEF ChildStep, threadVars, globalVars, TypeOK
<1>5. CASE UNCHANGED poojaVars
  BY <1>0, <1>5, NextTyped DEF poojaVars
<1>6. ASSUME NEW c \in Clients, bg(c) PROVE TypeOK'
  <2>1. pc' \in [Clients -> PC]
    BY <1>0, <1>6 DEF bg, Goto, PC, TypeOK
  <2>2. KernelTypeOK'
    BY <1>0, <1>6, ContinueTyped DEF bg, KernelTypeOK, kernelVars
  <2>3. \A pid : update_jobstatus(jobs[c], pid, "Running") \in Seq(Job)
    BY <1>0, MarkKeeps DEF JobStatus
  <2>4. jobs' \in [Clients -> Seq(Job)]
    BY <1>0, <1>6, <2>3 DEF bg, SetList
  <2> QED
    BY <1>0, <1>6, <2>1, <2>2, <2>4 DEF bg, globalVars, TypeOK
<1>7. ASSUME NEW c \in Clients, fg_waitpid(c) PROVE TypeOK'
  <2>1. pc' \in [Clients -> PC]
    BY <1>0, <1>7 DEF fg_waitpid, Goto, PC, TypeOK
  <2>2. \A s : FgStatus(jobs[c], fg_job[c], s) \in Seq(Job)
    BY <1>0, MarkKeeps DEF FgStatus, JobStatus
  <2>3. jobs' \in [Clients -> Seq(Job)]
    BY <1>0, <1>7, <2>2 DEF fg_waitpid, SetList
  <2>4. KernelTypeOK'
    BY <1>0, <1>7, CollectTyped DEF fg_waitpid, Members, Unreaped, KernelTypeOK, kernelVars
  <2> QED
    BY <1>0, <1>7, <2>1, <2>3, <2>4 DEF fg_waitpid, globalVars, TypeOK
<1>8. ASSUME NEW c \in Clients, is_background(c) PROVE TypeOK'
  <2>1. pc' \in [Clients -> PC]
    BY <1>0, <1>8 DEF is_background, Goto, PC, TypeOK
  <2>2. /\ Append(jobs[c], Unwritten) \in Seq(Job)
        /\ update_jobstatus(jobs[c], chid1, "Running") \in Seq(Job)
    <3>1. jobs[c] \in Seq(Job) /\ chid1 \in Nat /\ "Running" \in JobStatus
      BY <1>0, KernelAssumption DEF JobStatus, TypeOK
    <3> QED
      BY <3>1, CountEntryKeeps, MarkKeeps
  <2>3. jobs' \in [Clients -> Seq(Job)] /\ daemon' \in {"up", "exited", "faulted"}
    BY <1>0, <1>8, <2>2 DEF is_background, CountEntry, SetList, TypeOK
  <2>4. KernelTypeOK'
    BY <1>0, <1>8, ContinueTyped DEF is_background, KernelTypeOK, kernelVars
  <2> QED
    BY <1>0, <1>8, <2>1, <2>3, <2>4 DEF is_background, globalVars, TypeOK
<1>9. ASSUME NEW c \in Clients, wait_status(c) PROVE TypeOK'
  <2>1. pc' \in [Clients -> PC] /\ waited' \in [Clients -> Nat]
    <3>1. UNCHANGED <<pc, waited>> \/ Handled(c)
      BY <1>9 DEF wait_status
    <3> QED
      BY <1>c, <3>1 DEF Handled, Goto
  <2>2. \A stat \in JobStatus : update_jobstatus(jobs[c], wpid, stat) \in Seq(Job)
    BY <1>0, MarkKeeps
  <2>3. /\ update_job_list(update_jobstatus(jobs[c], wpid, "Done")) \in Seq(Job)
        /\ Append(jobs[c], Unwritten) \in Seq(Job)
        /\ update_jobstatus(jobs[c], wpid, "Running") \in Seq(Job)
    <3>1. /\ jobs[c] \in Seq(Job) /\ wpid \in Nat
          /\ update_jobstatus(jobs[c], wpid, "Done") \in Seq(Job)
          /\ update_jobstatus(jobs[c], wpid, "Running") \in Seq(Job)
      BY <1>0, <2>2, KernelAssumption DEF JobStatus, TypeOK
    <3> QED
      BY <3>1, CompactKeeps, CountEntryKeeps
  <2>4. KernelTypeOK'
    BY <1>0, <1>9, ContinueTyped
       DEF wait_status, WifExited, WifStopped, WifContinued, KernelTypeOK, kernelVars
  <2>5. /\ \E list \in Seq(Job) : SetList(list) \/ jobs' = jobs
        /\ wait_cnt' \in {wait_cnt, wait_cnt + 1}
        /\ daemon' \in {daemon, "faulted"}
    BY <1>9, <2>3 DEF wait_status, WifExited, WifStopped, WifContinued, CountEntry
  <2>6. /\ jobs' \in [Clients -> Seq(Job)] /\ wait_cnt' \in Nat
        /\ daemon' \in {"up", "exited", "faulted"}
    BY <1>0, <2>5 DEF SetList, TypeOK
  <2> QED
    BY <1>0, <1>9, <2>1, <2>4, <2>6 DEF wait_status, TypeOK
<1>10. ASSUME NEW c \in Clients, RecvFails(c) PROVE TypeOK'
  BY <1>0, <1>10 DEF RecvFails, KernelTypeOK, kernelVars, threadVars, globalVars, TypeOK
<1>11. ASSUME NEW c \in Clients, WritePgid(c) \/ WriteStatus(c) PROVE TypeOK'
  <2>1. pc' \in [Clients -> PC] /\ waited' \in [Clients -> Nat]
    <3>1. \/ UNCHANGED <<pc, waited>> \/ Handled(c)
          \/ Goto(c, "bgcont") /\ UNCHANGED waited
      BY <1>11 DEF WritePgid, WriteStatus
    <3> QED
      BY <1>c, <3>1 DEF Handled, Goto
  <2>2. jobs[c] \in Seq(Job) /\ adding[c].sid \in Nat
    BY <1>0 DEF PoojaTypeOK
  <2>3. PutPgid(jobs[c], adding[c].sid) \in Seq(Job) /\ PutStatus(jobs[c]) \in Seq(Job)
    BY <2>2, PutPgidKeeps, PutStatusKeeps
  <2>4. jobs' \in [Clients -> Seq(Job)]
    BY <1>11, <2>3 DEF WritePgid, WriteStatus, SetList
  <2> QED
    BY <1>0, <1>11, <2>1, <2>4
       DEF WritePgid, WriteStatus, globalVars, kernelVars, KernelTypeOK, TypeOK
<1> QED
  BY <1>2, <1>3, <1>4, <1>5, <1>6, <1>7, <1>8, <1>9, <1>10, <1>11
     DEF PoojaNext, PoojaStep, process_line, fg, StartPrograms, WaitPrograms, Leave, Shell, Client

\* A thread is in add_to_joblist only while it handles a report or an "&".
Midway(c) == adding[c].left # "nothing"
MidInv ==
    /\ PoojaTypeOK
    /\ \A c \in Clients : Midway(c) => pc[c] \in {"status", "bgadd"}

LEMMA MidTyped ==
    ASSUME MidInv
    PROVE  /\ TypeOK /\ KernelTypeOK /\ jobs \in [Clients -> Seq(Job)]
           /\ DOMAIN pc = Clients /\ DOMAIN adding = Clients
           /\ DOMAIN waited = Clients /\ DOMAIN got = Clients
           /\ wait_cnt \in Nat /\ wpid \in Nat /\ chid1 \in Nat
           /\ \A c \in Clients : /\ jobs[c] \in Seq(Job) /\ waited[c] \in Nat
                                 /\ adding[c].sid \in Nat
                                 /\ adding[c].left \in {"nothing", "pgid", "status"}
BY KernelAssumption DEF MidInv, PoojaTypeOK, TypeOK

LEMMA MidInit == UserInit => MidInv
<1> SUFFICES ASSUME UserInit PROVE MidInv
  OBVIOUS
<1>1. TypeOK
  BY InitTyped DEF UserInit, PoojaInit
<1>2. /\ fg_job = [c \in Clients |-> 0] /\ adding = [c \in Clients |-> Idle]
  BY DEF UserInit, PoojaInit
<1> QED
  BY <1>1, <1>2 DEF MidInv, Midway, PoojaTypeOK, Idle

LEMMA MidStep == MidInv /\ [PoojaNext]_poojaVars => MidInv'
<1> SUFFICES ASSUME MidInv, [PoojaNext]_poojaVars, NEW d \in Clients, Midway(d)'
             PROVE  pc'[d] \in {"status", "bgadd"}
  BY PoojaTyped DEF MidInv
<1>0. /\ DOMAIN pc = Clients /\ DOMAIN adding = Clients
      /\ Midway(d) => pc[d] \in {"status", "bgadd"}
  BY MidTyped DEF MidInv
<1>1. ASSUME adding' = adding, NEW c \in Clients, pc[c] \notin {"status", "bgadd"}, NEW l, Goto(c, l)
      PROVE  pc'[d] \in {"status", "bgadd"}
  BY <1>0, <1>1 DEF Goto, Midway
<1>2. CASE UNCHANGED <<pc, adding>>
  BY <1>0, <1>2 DEF Midway
<1>3. ASSUME NEW c \in Clients, NEW k \in Cmds, NextLine(c, k)
      PROVE  pc'[d] \in {"status", "bgadd"}
  BY <1>1, <1>3 DEF NextLine, localVars
<1>4. ASSUME NEW c \in Clients,
             bg(c) \/ fg(c) \/ fg_waitpid(c) \/ StartPrograms(c) \/ WaitPrograms(c) \/ Leave(c)
      PROVE  pc'[d] \in {"status", "bgadd"}
  BY <1>1, <1>2, <1>4
     DEF bg, fg, fg_cmd_process, fg_waitpid, StartPrograms, ForkFirst, ForkSecond, Latest, Started,
         WaitPrograms, WaitChild, StoreWpid, WaitFails, Prompt, Leave, Disconnect, localVars,
         threadVars
<1>5. ASSUME NEW c \in Clients, is_background(c)
      PROVE  pc'[d] \in {"status", "bgadd"}
  <2>1. CASE pc[c] = "bgadd"
    BY <1>0, <1>5, <2>1 DEF is_background, CountEntry, Midway
  <2>2. CASE pc[c] = "bgcont"
    BY <1>1, <1>5, <2>2 DEF is_background
  <2> QED
    BY <1>5, <2>1, <2>2 DEF is_background
<1>6. ASSUME NEW c \in Clients, WritePgid(c) \/ WriteStatus(c)
      PROVE  pc'[d] \in {"status", "bgadd"}
  BY <1>0, <1>6 DEF WritePgid, WriteStatus, Handled, Goto, Midway, Idle
<1>7. ASSUME NEW c \in Clients, wait_status(c)
      PROVE  pc'[d] \in {"status", "bgadd"}
  <2>1. CASE WifStopped(c) /\ UNCHANGED <<pc, waited>>
    BY <1>0, <1>7, <2>1 DEF wait_status, WifStopped, CountEntry, Midway
  <2>2. CASE Handled(c) /\ UNCHANGED adding
    BY <1>0, <1>7, <2>2 DEF wait_status, Handled, Goto, Midway, Idle
  <2> QED
    BY <1>7, <2>1, <2>2 DEF wait_status
<1> QED
  BY <1>2, <1>3, <1>4, <1>5, <1>6, <1>7
     DEF PoojaNext, PoojaStep, process_line, RecvFails, ChildStep, poojaVars, vars, localVars,
         threadVars

\* Only a thread at work takes a step of process_cmd, and it goes on by itself.
LEMMA LineMoves ==
    ASSUME MidInv, NEW c \in Clients, process_line(c)
    PROVE  /\ pc[c] \notin {"recv", "ended"}
           /\ \A d \in Clients : d # c => pc'[d] = pc[d] /\ adding'[d] = adding[d]
           /\ cmd' = cmd \/ pc'[c] = "recv"
<1>1. DOMAIN pc = Clients /\ DOMAIN adding = Clients
  BY MidTyped
<1>2. CASE StartPrograms(c)
  BY <1>1, <1>2 DEF StartPrograms, ForkFirst, ForkSecond, Latest, Started, Goto, localVars
<1>3. CASE WaitPrograms(c)
  BY <1>1, <1>3 DEF WaitPrograms, WaitChild, StoreWpid, WaitFails, Prompt, Goto, threadVars,
                    localVars
<1>4. CASE bg(c) \/ fg(c) \/ fg_waitpid(c)
  BY <1>1, <1>4 DEF bg, fg, fg_cmd_process, fg_waitpid, Goto, localVars
<1>5. CASE is_background(c) \/ wait_status(c)
  BY <1>1, <1>5 DEF is_background, wait_status, WifStopped, CountEntry, Handled, Goto
<1>6. CASE WritePgid(c) \/ WriteStatus(c)
  BY <1>1, <1>6 DEF WritePgid, WriteStatus, Handled, Goto, MidInv, Midway
<1> QED
  BY <1>2, <1>3, <1>4, <1>5, <1>6 DEF process_line

\* What add_to_joblist is about to enter for a line without "&": the program that the
\* loop has been told of.
InHand(c) == Midway(c) => status = "stopped" /\ adding[c].sid = wpid

\* A write of add_to_joblist, before the last, keeps the books.
LEMMA EntryStep ==
    ASSUME TypeOK, NEW c \in Clients, Books(c), Ledger(c), status = "stopped",
           pc[c] = "status", pc'[c] = "status",
           ListedPids(jobs'[c]) \subseteq ListedPids(jobs[c]) \cup {0, wpid},
           UNCHANGED <<kernelVars, cmd[c], waited[c], wait_cnt, wpid, status>>
    PROVE  Books(c)' /\ Ledger(c)'
<1>1. /\ Handling(c) /\ Handling(c)' /\ InFlight(c) = wpid /\ InFlight(c)' = wpid
      /\ Credit(c) = 1 /\ Credit(c)' = 1 /\ Unreaped' = Unreaped /\ Unborn' = Unborn
  BY DEF Handling, InFlight, Credit, kernelVars, Unreaped, Unborn
<1>2. wpid \in Pid \ Unborn
  BY <1>1 DEF Books
<1>3. Books(c)'
  <2>1. ListedPids(jobs'[c]) \cap Unborn = {}
    BY <1>2 DEF Books, Unborn, Pid
  <2> QED
    BY <1>1, <1>2, <2>1 DEF Books
<1>4. Hidden(c) \ {wpid} \subseteq Hidden(c)' \ {wpid}
  BY <1>1 DEF Hidden, Unreaped, Pid
<1>5. Cardinality(Hidden(c) \ {wpid}) <= Cardinality(Hidden(c)' \ {wpid})
  <2>1. Hidden(c) \ {wpid} \in SUBSET Pid /\ Hidden(c)' \ {wpid} \in SUBSET Pid
    BY DEF Hidden, Unreaped, Pid
  <2> QED
    BY <1>4, <2>1, CountHidden
<1>6. wait_cnt - waited[c] - 1 <= Cardinality(Hidden(c) \ {wpid})
  BY <1>1 DEF Ledger
<1>7. /\ Cardinality(Hidden(c) \ {wpid}) \in Nat /\ Cardinality(Hidden(c)' \ {wpid}) \in Nat
      /\ wait_cnt \in Nat /\ waited[c] \in Nat
  <2>1. Hidden(c) \in SUBSET Pid /\ Hidden(c)' \in SUBSET Pid
    BY DEF Hidden, Unreaped, Pid
  <2> QED
    BY <2>1, CountIsNat DEF TypeOK
<1>8. wait_cnt' - waited'[c] - 1 <= Cardinality(Hidden(c)' \ {wpid})
  BY <1>5, <1>6, <1>7
<1> QED
  BY <1>1, <1>3, <1>8 DEF Ledger

\* The ledger of SoloInv, for a line of a client that shares its list with nobody who
\* is at work.
LEMMA LineStep ==
    ASSUME MidInv, NEW c \in Clients, Books(c), Ledger(c), InHand(c), daemon = "up",
           process_line(c)
    PROVE  Books(c)' /\ Ledger(c)' /\ InHand(c)'
<1>0. /\ TypeOK /\ KernelTypeOK /\ jobs[c] \in Seq(Job) /\ waited[c] \in Nat /\ wait_cnt \in Nat
      /\ DOMAIN pc = Clients /\ DOMAIN waited = Clients /\ DOMAIN adding = Clients
      /\ wpid \in Nat /\ adding[c].sid \in Nat
  BY MidTyped
<1>a. /\ pc[c] \notin {"bgadd", "bgcont"}
      /\ Midway(c) => pc[c] = "status" /\ status = "stopped" /\ adding[c].sid = wpid
  BY DEF Books, InHand, MidInv
<1>b. ASSUME adding' = adding, pc[c] # "status" PROVE InHand(c)'
  BY <1>a, <1>b DEF InHand, Midway
<1>1. CASE StartPrograms(c) \/ WaitPrograms(c) \/ fg(c)
  <2>1. Books(c)' /\ Ledger(c)'
    BY <1>0, <1>1, ShellStep DEF StartPrograms, WaitPrograms, fg, Shell
  <2>2. adding' = adding /\ pc[c] # "status"
    BY <1>1 DEF StartPrograms, ForkFirst, ForkSecond, Latest, Started, WaitPrograms, WaitChild,
                StoreWpid, WaitFails, Prompt, fg, fg_cmd_process, localVars
  <2> QED
    BY <1>b, <2>1, <2>2
<1>2. CASE bg(c)
  <2>1. /\ pc[c] = "bg" /\ pc'[c] = "fork1" /\ wait_cnt' = 0 /\ waited'[c] = 0 /\ cmd' = cmd
        /\ adding' = adding
    BY <1>0, <1>2 DEF bg, Goto, globalVars, localVars, Ledger
  <2>2. Unborn' = Unborn
    BY <1>0, <1>2, ContinueTyped DEF bg, kernelVars, Unborn
  <2>3. ListedPids(jobs'[c]) = ListedPids(jobs[c])
    <3>1. jobs'[c] = jobs[c] \/ \E pid : jobs'[c] = update_jobstatus(jobs[c], pid, "Running")
      BY <1>2 DEF bg, SetList
    <3> QED
      BY <1>0, <3>1, MarkKeeps DEF JobStatus
  <2> QED
    BY <1>b, <2>1, <2>2, <2>3 DEF Books, Ledger, Handling
<1>3. CASE fg_waitpid(c)
  <2>1. /\ pc[c] = "fgwait" /\ pc'[c] = "fork2" /\ wait_cnt' = 0 /\ waited'[c] = 0 /\ cmd' = cmd
        /\ adding' = adding
    BY <1>0, <1>3 DEF fg_waitpid, Goto, globalVars, Ledger
  <2>2. Unborn' = Unborn
    BY <1>0, <1>3, CollectTyped DEF fg_waitpid, kernelVars, Unborn, Members, Unreaped
  <2>3. ListedPids(jobs'[c]) = ListedPids(jobs[c])
    <3>1. \E s : jobs'[c] = FgStatus(jobs[c], fg_job[c], s)
      BY <1>3 DEF fg_waitpid, SetList
    <3> QED
      BY <1>0, <3>1, MarkKeeps DEF FgStatus, JobStatus
  <2>4. Hidden(c)' \in SUBSET Pid
    BY DEF Hidden, Unreaped, Pid
  <2>5. Cardinality(Hidden(c)') \in Nat
    BY <2>4, CountHidden
  <2> QED
    BY <1>b, <2>1, <2>2, <2>3, <2>5 DEF Books, Ledger, Handling
<1>4. CASE is_background(c)
  BY <1>a, <1>4 DEF is_background
<1>5. CASE WritePgid(c)
  <2>1. PutPgid(jobs[c], adding[c].sid) = jobs'[c] /\ Midway(c) /\ UNCHANGED <<pc, status, wpid>>
    BY <1>5 DEF WritePgid, SetList, Midway, globalVars
  <2>2. ListedPids(jobs'[c]) \subseteq ListedPids(jobs[c]) \cup {wpid}
    BY <1>0, <1>a, <2>1, PutPgidKeeps
  <2>3. Books(c)' /\ Ledger(c)'
    BY <1>0, <1>5, <1>a, <2>1, <2>2, EntryStep DEF WritePgid, globalVars
  <2>4. adding'[c].sid = adding[c].sid
    BY <1>0, <1>5 DEF WritePgid
  <2> QED
    BY <1>a, <2>1, <2>3, <2>4 DEF InHand
<1>6. CASE WriteStatus(c)
  <2>1. Midway(c) /\ Handled(c) /\ jobs'[c] = PutStatus(jobs[c])
    BY <1>6, <1>a DEF WriteStatus, SetList, Midway
  <2>2. /\ pc[c] = "status" /\ pc'[c] = "wait" /\ cmd'[c] = cmd[c]
        /\ waited'[c] = waited[c] + 1 /\ wait_cnt' = wait_cnt
    BY <1>0, <1>6, <1>a, <2>1 DEF WriteStatus, Handled, Goto, globalVars
  <2>3. Unreaped' = Unreaped /\ Unborn' = Unborn
    BY <1>6, ActiveSame DEF WriteStatus
  <2>4. ListedPids(jobs'[c]) \subseteq ListedPids(jobs[c]) \cup {wpid}
    BY <1>0, <2>1, PutStatusKeeps
  <2>5. Credit(c) = 1
    BY <1>a, <2>1 DEF Credit
  <2>6. Books(c)' /\ Ledger(c)'
    BY <1>0, <2>2, <2>3, <2>4, <2>5, HandledStep
  <2>7. ~Midway(c)'
    BY <1>0, <1>6 DEF WriteStatus, Midway, Idle
  <2> QED
    BY <2>6, <2>7 DEF InHand
<1>7. CASE wait_status(c) /\ WifStopped(c)
  <2>1. /\ status = "stopped" /\ jobs'[c] = Append(jobs[c], Unwritten) /\ pc[c] = "status"
        /\ adding'[c] = [left |-> "pgid", sid |-> wpid]
    BY <1>0, <1>7 DEF wait_status, WifStopped, CountEntry, SetList
  <2>2. UNCHANGED <<kernelVars, pc, cmd, waited, wait_cnt, wpid, status>>
    BY <1>7, <2>1 DEF wait_status, WifStopped, WifExited, WifContinued
  <2>3. ListedPids(jobs'[c]) \subseteq ListedPids(jobs[c]) \cup {0, wpid}
    BY <1>0, <2>1, CountEntryKeeps
  <2>4. Books(c)' /\ Ledger(c)'
    BY <1>0, <2>1, <2>2, <2>3, EntryStep
  <2> QED
    BY <2>1, <2>2, <2>4 DEF InHand
<1>8. CASE wait_status(c) /\ ~WifStopped(c)
  <2>1. /\ pc[c] = "status" /\ pc'[c] = "wait" /\ cmd'[c] = cmd[c]
        /\ waited'[c] = waited[c] + 1 /\ ~Midway(c)'
    BY <1>0, <1>8 DEF wait_status, Handled, Goto, Midway, Idle
  <2>2. InFlight(c) = wpid
    BY <2>1 DEF InFlight
  <2>3. Unreaped' = Unreaped /\ Unborn' = Unborn
    BY <1>0, <1>8, ContinueTyped
       DEF wait_status, WifExited, WifContinued, kernelVars, Unreaped, Unborn
  <2>4. /\ ListedPids(jobs'[c]) \subseteq ListedPids(jobs[c]) \cup {wpid}
        /\ wait_cnt' = wait_cnt + 1 - Credit(c)
    <3>1. CASE WifExited(c)
      <4> DEFINE marked == update_jobstatus(jobs[c], wpid, "Done")
      <4>1. marked \in Seq(Job) /\ ListedPids(marked) = ListedPids(jobs[c])
        BY <1>0, MarkKeeps DEF JobStatus
      <4>2. jobs'[c] = update_job_list(marked)
        BY <3>1 DEF WifExited, SetList
      <4> HIDE DEF marked
      <4>3. ListedPids(jobs'[c]) \subseteq ListedPids(jobs[c])
        BY <4>1, <4>2, CompactKeeps
      <4>4. EntriesOf(jobs[c], wpid) # {} <=> wpid \in ListedPids(jobs[c])
        BY DEF EntriesOf, ListedPids
      <4> QED
        BY <1>0, <2>2, <3>1, <4>3, <4>4 DEF WifExited, Credit
    <3>2. CASE WifContinued(c)
      <4>1. jobs'[c] = update_jobstatus(jobs[c], wpid, "Running") /\ status = "continued"
        BY <3>2 DEF WifContinued, SetList
      <4> QED
        BY <1>0, <3>2, <4>1, MarkKeeps DEF WifContinued, Credit, JobStatus
    <3>3. CASE status = "signaled" /\ UNCHANGED <<kernelVars, daemon, jobs, wait_cnt>>
      BY <1>0, <3>3 DEF Credit
    <3> QED
      BY <1>8, <3>1, <3>2, <3>3 DEF wait_status
  <2>5. Books(c)' /\ Ledger(c)'
    BY <1>0, <2>1, <2>3, <2>4, HandledStep
  <2> QED
    BY <2>1, <2>5 DEF InHand
<1> QED
  BY <1>1, <1>2, <1>3, <1>4, <1>5, <1>6, <1>7, <1>8 DEF process_line

\* A client that has sent nothing is idle; the books of the only one that has sent
\* lines are in order in each line without "&".
Accounted(c) ==
    pc[c] \notin {"recv", "ended"} /\ ~cmd[c].amp => Books(c) /\ Ledger(c) /\ InHand(c)
AloneInv ==
    /\ MidInv
    /\ users \subseteq Clients /\ IsFiniteSet(users)
    /\ \A c \in Clients \ users : pc[c] \in {"recv", "ended"}
    /\ Cardinality(users) <= 1 => \A c \in users : Accounted(c)

LEMMA AloneInit == UserInit => AloneInv
<1> SUFFICES ASSUME UserInit PROVE AloneInv
  OBVIOUS
<1>1. MidInv
  BY MidInit
<1>2. IsFiniteSet(users)
  BY FS_EmptySet DEF UserInit
<1> QED
  BY <1>1, <1>2 DEF UserInit, PoojaInit, Init, AloneInv

\* A line finds the list empty of pids, whoever has sent lines before.
LEMMA NextLineAccounted ==
    ASSUME MidInv, NEW c \in Clients, NEW k \in Cmds, NextLine(c, k)
    PROVE  Accounted(c)'
<1>0. TypeOK /\ pc[c] = "recv" /\ ~Midway(c) /\ ~Midway(c)'
  BY MidTyped DEF NextLine, MidInv, Midway, localVars
<1>1. /\ pc'[c] \in {"bg", "fg", "recv", "fork1"} /\ cmd'[c] = k /\ waited'[c] = 0
      /\ wait_cnt' = 0 /\ jobs'[c] = NewList(jobs[c]) /\ Unborn' = Unborn
  BY <1>0 DEF NextLine, SetList, Goto, TypeOK, kernelVars, Unborn
<1>2. ListedPids(jobs'[c]) \subseteq {0}
  BY <1>0, <1>1, NewListBlank DEF TypeOK
<1>3. ListedPids(jobs'[c]) \cap Unborn = {}
  BY <1>2 DEF Unborn, Pid
<1> QED
  BY <1>0, <1>1, <1>3 DEF Accounted, Books, Ledger, Handling, InHand

\* What another client's thread does between its lines is not in c's books.
LEMMA AccountedStill ==
    ASSUME NEW c \in Clients, Accounted(c), Unreaped' = Unreaped, Unborn' = Unborn,
           pc'[c] # pc[c] => pc'[c] \in {"recv", "ended"},
           UNCHANGED <<jobs[c], adding[c], cmd[c], waited[c], got[c], wait_cnt, wpid, status>>
    PROVE  Accounted(c)'
<1>1. CASE pc'[c] = pc[c]
  BY <1>1, QuietStep DEF Accounted, InHand, Midway
<1>2. CASE pc'[c] # pc[c]
  BY <1>2 DEF Accounted
<1> QED
  BY <1>1, <1>2

LEMMA AloneStep == AloneInv /\ [UserNext]_userVars => AloneInv'
<1> SUFFICES ASSUME AloneInv, [UserNext]_userVars PROVE AloneInv'
  OBVIOUS
<1>0. /\ TypeOK /\ KernelTypeOK /\ DOMAIN pc = Clients
      /\ users \subseteq Clients /\ IsFiniteSet(users)
      /\ \A c \in Clients \ users : pc[c] \in {"recv", "ended"}
      /\ Cardinality(users) <= 1 => \A c \in users : Accounted(c)
  BY MidTyped DEF AloneInv
<1>m. MidInv
  BY DEF AloneInv
<1>1. MidInv'
  BY <1>m, MidStep DEF UserNext, UserStep, UserLine, PoojaNext, userVars
<1>2. ASSUME NEW c \in Clients, NEW k \in Cmds, UserLine(c, k)
      PROVE  AloneInv'
  <2>1. NextLine(c, k) /\ users' = users \cup {c} /\ IsFiniteSet(users')
    BY <1>0, <1>2, FS_AddElement DEF UserLine
  <2>2. \A d \in Clients \ {c} : pc'[d] = pc[d]
    BY <1>0, <2>1 DEF NextLine, Goto
  <2>3. Accounted(c)'
    BY <1>m, <2>1, NextLineAccounted
  <2>4. Cardinality(users') <= 1 => users' = {c}
    BY <2>1, AtMostOne DEF OneOnly
  <2> QED
    BY <1>0, <1>1, <2>1, <2>2, <2>3, <2>4 DEF AloneInv
<1> SUFFICES ASSUME UserStep \/ UNCHANGED userVars PROVE AloneInv'
  BY <1>2 DEF UserNext
<1>3. users' = users
  BY DEF UserStep, userVars, history
<1>4. ASSUME NEW c \in Clients, daemon = "up", process_line(c)
      PROVE  AloneInv'
  <2>1. /\ pc[c] \notin {"recv", "ended"}
        /\ cmd' = cmd \/ pc'[c] = "recv"
        /\ \A d \in Clients : d # c => pc'[d] = pc[d]
    BY <1>m, <1>4, LineMoves
  <2>2. c \in users
    BY <1>0, <2>1
  <2>3. ASSUME Cardinality(users) <= 1 PROVE users = {c} /\ Accounted(c)'
    <3>1. users = {c} /\ Accounted(c)
      BY <1>0, <2>2, <2>3, AtMostOne DEF OneOnly
    <3>2. CASE pc'[c] = "recv" \/ cmd[c].amp
      BY <2>1, <3>1, <3>2 DEF Accounted
    <3>3. CASE pc'[c] # "recv" /\ ~cmd[c].amp
      BY <1>m, <1>4, <2>1, <3>1, <3>3, LineStep DEF Accounted
    <3> QED
      BY <3>1, <3>2, <3>3
  <2> QED
    BY <1>0, <1>1, <1>3, <2>1, <2>2, <2>3 DEF AloneInv
<1>5. CASE \/ \E c \in Clients : Leave(c) \/ RecvFails(c)
           \/ ChildStep /\ UNCHANGED localVars
           \/ UNCHANGED userVars
  <2>1. /\ UNCHANGED <<jobs, adding, cmd, waited, got, wait_cnt, wpid, status>>
        /\ \A d \in Clients : pc'[d] # pc[d] => pc'[d] = "ended"
    <3>1. CASE \E c \in Clients : Leave(c)
      BY <1>0, <3>1 DEF Leave, Disconnect, Goto, globalVars, localVars
    <3>2. CASE (\E c \in Clients : RecvFails(c)) \/ UNCHANGED userVars
      BY <3>2 DEF RecvFails, userVars, poojaVars, vars, threadVars, globalVars, localVars
    <3>3. CASE ChildStep /\ UNCHANGED localVars
      BY <3>3 DEF ChildStep, threadVars, globalVars, localVars
    <3> QED
      BY <1>5, <3>1, <3>2, <3>3
  <2>2. Unreaped' = Unreaped /\ Unborn' = Unborn
    <3>1. CASE ChildStep
      BY <1>0, <3>1, ProcStepTyped DEF ChildStep
    <3>2. CASE UNCHANGED kernelVars
      BY <3>2, ActiveSame
    <3> QED
      BY <1>5, <3>1, <3>2 DEF Leave, Disconnect, RecvFails, userVars, poojaVars, vars
  <2>3. ASSUME Cardinality(users) <= 1, NEW c \in users PROVE Accounted(c)'
    BY <1>0, <2>1, <2>2, <2>3, AccountedStill
  <2> QED
    BY <1>0, <1>1, <1>3, <2>1, <2>3 DEF AloneInv
<1> QED
  BY <1>4, <1>5 DEF UserStep, PoojaStep

\* The exit(EXIT_FAILURE) after waitpid (pooja/yash.c, process_cmd) is not reached in
\* a line without "&" while one client alone has used the server, although each line
\* forgets the jobs of the earlier ones: whatever is stopped or killed meanwhile.
THEOREM AloneAlwaysWaits == UserSpec => []AloneWaits
<1>1. AloneInv => AloneWaits
  <2> SUFFICES ASSUME AloneInv, Cardinality(users) <= 1, NEW c \in Clients, ~cmd[c].amp,
                      pc[c] = "wait", waited[c] < wait_cnt, Unreaped = {}
               PROVE  FALSE
    BY DEF AloneWaits, WaitHasChild
  <2>1. c \in users /\ Accounted(c)
    BY DEF AloneInv
  <2>2. wait_cnt - waited[c] <= Cardinality(Hidden(c)) /\ waited[c] \in Nat /\ wait_cnt \in Nat
    BY <2>1, MidTyped DEF Accounted, Ledger, AloneInv
  <2>3. Hidden(c) = {}
    BY DEF Hidden
  <2>4. Cardinality(Hidden(c)) = 0
    BY <2>3, FS_EmptySet
  <2> QED
    BY <2>2, <2>4
<1> QED
  BY <1>1, AloneInit, AloneStep, PTL DEF UserSpec

-----------------------------------------------------------------------------
(* What the count of the earlier server keeps, although the entries go.    *)

\* The report that process_wait_status has still to handle, until count covers it.
Left(c) == IF Midway(c) THEN {} ELSE Aside(c)

\* The length of the list is the number of stopped programs that add_to_joblist has
\* counted; none of the programs that the loop is to be told of is listed.
Counted(c) ==
    /\ pc[c] \notin {"fg", "fgwait"} /\ DoneEntries(jobs[c]) = {}
    /\ pc[c] \in Launched => (Active \cup Left(c)) \cap ListedPids(jobs[c]) = {}
    /\ Aside(c) \cap Active = {}
    /\ Handling(c) => (InFlight(c) \in Unreaped <=> status = "stopped")
    /\ Len(jobs[c]) = Cardinality(Unreaped \ (Active \cup Left(c)))

LEMMA CountedStill ==
    ASSUME NEW c \in Clients, Counted(c), Active' = Active, Unreaped' = Unreaped,
           jobs'[c] = jobs[c], adding'[c] = adding[c], pc'[c] \notin {"fg", "fgwait"},
           pc'[c] \in Launched => pc[c] \in Launched,
           Handling(c)' = Handling(c),
           Handling(c) => InFlight(c)' = InFlight(c) /\ status' = status
    PROVE  Counted(c)'
<1>1. Aside(c)' = Aside(c) /\ Left(c)' = Left(c)
  BY DEF Aside, Left, Midway
<1> QED
  BY <1>1 DEF Counted

\* A fork adds a program that the loop is to be told of and that is not listed.
LEMMA CountedFork ==
    ASSUME KernelTypeOK, Events, NEW c \in Clients, Counted(c), NEW p \in Pid,
           NEW g \in 0 .. MaxPid, NEW s \in {"running", "signaled"}, Fork(p, g, s),
           ListedPids(jobs[c]) \cap Unborn = {},
           Active \cap ListedPids(jobs[c]) = {},
           jobs' = jobs, ~Handling(c), ~Handling(c)', pc'[c] \notin {"fg", "fgwait"}
    PROVE  Counted(c)'
<1>1. /\ p \notin Unreaped /\ Unreaped' = Unreaped \cup {p} /\ p \in Unborn
  BY ForkTyped DEF Fork
<1>2. p \notin Active /\ Active' = Active \cup {p}
  BY ActiveFork
<1>3. Aside(c) = {} /\ Aside(c)' = {} /\ Left(c) = {} /\ Left(c)' = {}
  BY DEF Aside, Left
<1>4. Unreaped' \ Active' = Unreaped \ Active
  BY <1>1, <1>2
<1> QED
  BY <1>1, <1>2, <1>3, <1>4 DEF Counted

\* The report of an end or a stop takes a program off those to be told of; it is set
\* aside until process_wait_status has handled it.
LEMMA CountedWaitChild ==
    ASSUME TypeOK, Events, NEW c \in Clients, Work(c), Counted(c), WaitChild(c),
           ~Midway(c), ~Midway(c)'
    PROVE  Counted(c)'
<1>0. /\ KernelTypeOK /\ DOMAIN pc = Clients /\ DOMAIN got = Clients /\ pc[c] = "wait"
      /\ pc'[c] = "store" /\ jobs' = jobs
  BY DEF TypeOK, WaitChild, Goto
<1>1. PICK p \in Reported : /\ Collect(p) /\ status' = Report(p)
                            /\ got' = [got EXCEPT ![c] = p]
  BY DEF WaitChild
<1>2. /\ p \in Unreaped /\ p \in Pid /\ Report(p) # "none" /\ NoneWoken
  BY <1>0 DEF Reported, Unreaped, Work
<1>3. Report(p) # "continued"
  BY <1>2 DEF NoneWoken, Active, Quiet, Report, Zombie
<1>4. p \in Active /\ Active' = Active \ {p}
  BY <1>0, <1>1, <1>2, <1>3, ActiveCollect
<1>5. /\ Unreaped' \subseteq Unreaped /\ Unreaped \ {p} \subseteq Unreaped'
      /\ p \in Unreaped' <=> Report(p) = "stopped"
  <2>1. Unreaped' \subseteq Unreaped /\ (Report(p) \in Zombie => p \notin Unreaped')
    BY <1>0, <1>1, <1>2, CollectLeaves
  <2>2. Unreaped \ {p} \subseteq Unreaped'
    BY <1>0, <1>1, <1>2, CollectTyped
  <2>3. Report(p) \notin Zombie => p \in Unreaped'
    BY <1>0, <1>1, <1>2 DEF Collect, Report, Unreaped, KernelTypeOK
  <2>4. Report(p) \in Zombie \cup {"stopped"} /\ "stopped" \notin Zombie
    BY <1>0, <1>2, <1>3 DEF Report, KernelTypeOK, Event, Zombie
  <2> QED
    BY <2>1, <2>2, <2>3, <2>4
<1>6. Aside(c) = {} /\ Aside(c)' = {p} /\ InFlight(c)' = p
  BY <1>0, <1>1 DEF Aside, Handling, InFlight
<1>7. Unreaped' \ (Active' \cup Aside(c)') = Unreaped \ (Active \cup Aside(c))
  BY <1>4, <1>5, <1>6
<1>8. Active \cap ListedPids(jobs[c]) = {}
  BY <1>0, <1>6 DEF Counted, Launched
<1>9. Left(c) = Aside(c) /\ Left(c)' = Aside(c)'
  BY DEF Left
<1> QED
  BY <1>0, <1>1, <1>4, <1>5, <1>6, <1>7, <1>8, <1>9 DEF Counted

\* process_wait_status counts a program that has stopped, and finds no entry for one
\* that has ended.
LEMMA CountedWaitStatus ==
    ASSUME MidInv, NEW c \in Clients, Work(c), Counted(c), wait_status(c)
    PROVE  Counted(c)'
<1>0. /\ jobs[c] \in Seq(Job) /\ DOMAIN pc = Clients /\ DOMAIN adding = Clients
      /\ pc[c] = "status" /\ wpid \in Nat /\ status # "continued" /\ ~Midway(c)
      /\ UNCHANGED <<wpid, status>>
  BY MidTyped DEF wait_status, Work, Handling, Midway, Idle
<1>1. /\ Aside(c) = {wpid} /\ Left(c) = {wpid} /\ Handling(c) /\ InFlight(c) = wpid
  BY <1>0 DEF Aside, Left, Handling, InFlight
<1>2. /\ DoneEntries(jobs[c]) = {} /\ Active \cap ListedPids(jobs[c]) = {}
      /\ wpid \notin ListedPids(jobs[c]) /\ wpid \notin Active
      /\ wpid \in Unreaped <=> status = "stopped"
      /\ Len(jobs[c]) = Cardinality(Unreaped \ (Active \cup {wpid}))
  BY <1>0, <1>1 DEF Counted, Launched
<1>3. UNCHANGED kernelVars
  BY <1>0 DEF wait_status, WifExited, WifStopped, WifContinued
<1>4. Active' = Active /\ Unreaped' = Unreaped
  BY <1>3, ActiveSame
<1>5. ASSUME jobs'[c] = jobs[c], status # "stopped", Handled(c) PROVE Counted(c)'
  <2>1. Unreaped \ (Active \cup {wpid}) = Unreaped \ Active
    BY <1>2, <1>5
  <2>2. pc'[c] = "wait"
    BY <1>0, <1>5 DEF Handled, Goto
  <2>3. ~Handling(c)' /\ Aside(c)' = {} /\ Left(c)' = {}
    BY <2>2 DEF Handling, Aside, Left
  <2> QED
    BY <1>2, <1>4, <1>5, <2>1, <2>2, <2>3 DEF Counted
<1>6. CASE WifExited(c) /\ Handled(c)
  <2>1. update_jobstatus(jobs[c], wpid, "Done") = jobs[c]
    BY <1>2 DEF update_jobstatus, EntriesOf, ListedPids
  <2>2. jobs'[c] = jobs[c]
    BY <1>2, <1>6, <2>1 DEF WifExited, SetList, update_job_list
  <2> QED
    BY <1>5, <1>6, <2>2 DEF WifExited
<1>7. CASE WifStopped(c) /\ UNCHANGED <<pc, waited>>
  <2>1. jobs'[c] = Append(jobs[c], Unwritten) /\ status = "stopped"
    BY <1>7 DEF WifStopped, CountEntry, SetList
  <2>2. /\ Len(jobs'[c]) = Len(jobs[c]) + 1
        /\ ListedPids(jobs'[c]) \subseteq ListedPids(jobs[c]) \cup {0}
        /\ DoneEntries(jobs'[c]) = {}
    BY <1>0, <1>2, <2>1, CountEntryKeeps
  <2>3. Active \cap ListedPids(jobs'[c]) = {}
    BY <1>2, <2>2 DEF Active, Unreaped, Pid
  <2>4. Midway(c)'
    BY <1>0, <1>7 DEF WifStopped, CountEntry, Midway
  <2>5. /\ Aside(c)' = {wpid} /\ Left(c)' = {} /\ Handling(c)' /\ InFlight(c)' = wpid
    BY <1>0, <1>7, <2>4 DEF Aside, Left, Handling, InFlight
  <2>6. Cardinality(Unreaped \ Active) = Cardinality(Unreaped \ (Active \cup {wpid})) + 1
    <3>1. /\ Unreaped \ Active = (Unreaped \ (Active \cup {wpid})) \cup {wpid}
          /\ wpid \notin Unreaped \ (Active \cup {wpid})
          /\ Unreaped \ Active \in SUBSET Pid /\ Unreaped \ (Active \cup {wpid}) \in SUBSET Pid
      BY <1>2, <2>1 DEF Unreaped
    <3> QED
      BY <3>1, CountHidden
  <2>7. pc'[c] \notin {"fg", "fgwait"}
    BY <1>0, <1>7
  <2> QED
    BY <1>0, <1>2, <1>4, <2>1, <2>2, <2>3, <2>5, <2>6, <2>7 DEF Counted
<1>8. CASE status = "signaled" /\ UNCHANGED <<kernelVars, daemon, jobs, wait_cnt>> /\ Handled(c)
  BY <1>5, <1>8
<1> QED
  BY <1>0, <1>6, <1>7, <1>8 DEF wait_status, WifContinued

\* The writes that follow leave the count alone.
LEMMA CountedWrite ==
    ASSUME MidInv, NEW c \in Clients, Counted(c), InHand(c), pc[c] = "status",
           WritePgid(c) \/ WriteStatus(c)
    PROVE  Counted(c)'
<1>0. /\ jobs[c] \in Seq(Job) /\ DOMAIN pc = Clients /\ DOMAIN adding = Clients
      /\ wpid \in Nat /\ Midway(c) /\ adding[c].sid = wpid
  BY MidTyped DEF WritePgid, WriteStatus, InHand, Midway
<1>1. /\ Aside(c) = {wpid} /\ Left(c) = {} /\ Handling(c) /\ InFlight(c) = wpid
  BY <1>0 DEF Aside, Left, Handling, InFlight
<1>2. UNCHANGED kernelVars /\ UNCHANGED <<wpid, status>>
  BY DEF WritePgid, WriteStatus, globalVars
<1>3. Active' = Active /\ Unreaped' = Unreaped
  BY <1>2, ActiveSame
<1>4. /\ DoneEntries(jobs[c]) = {} /\ Active \cap ListedPids(jobs[c]) = {} /\ wpid \notin Active
      /\ Len(jobs[c]) = Cardinality(Unreaped \ Active)
      /\ wpid \in Unreaped <=> status = "stopped"
  BY <1>1 DEF Counted, Launched
<1>5. CASE WritePgid(c)
  <2>1. jobs'[c] = PutPgid(jobs[c], wpid) /\ pc' = pc /\ adding'[c].left = "status"
    BY <1>0, <1>5 DEF WritePgid, SetList
  <2>2. /\ Len(jobs'[c]) = Len(jobs[c]) /\ DoneEntries(jobs'[c]) = DoneEntries(jobs[c])
        /\ ListedPids(jobs'[c]) \subseteq ListedPids(jobs[c]) \cup {wpid}
    BY <1>0, <2>1, PutPgidKeeps
  <2>3. /\ Aside(c)' = {wpid} /\ Left(c)' = {} /\ InFlight(c)' = wpid /\ pc'[c] = "status"
    BY <1>2, <2>1 DEF Aside, Left, Handling, InFlight, Midway
  <2>4. Active \cap ListedPids(jobs'[c]) = {}
    BY <1>4, <2>2
  <2> QED
    BY <1>2, <1>3, <1>4, <2>2, <2>3, <2>4 DEF Counted
<1>6. CASE WriteStatus(c)
  <2>1. jobs'[c] = PutStatus(jobs[c]) /\ pc'[c] = "wait"
    BY <1>0, <1>6 DEF WriteStatus, SetList, Handled, Goto
  <2>2. /\ Len(jobs'[c]) = Len(jobs[c]) /\ ListedPids(jobs'[c]) = ListedPids(jobs[c])
        /\ DoneEntries(jobs'[c]) = {}
    BY <1>0, <1>4, <2>1, PutStatusKeeps
  <2>3. ~Handling(c)' /\ Aside(c)' = {} /\ Left(c)' = {}
    BY <2>1 DEF Aside, Left, Handling
  <2> QED
    BY <1>3, <1>4, <2>1, <2>2, <2>3 DEF Counted
<1> QED
  BY <1>5, <1>6

LEMMA CountedLine ==
    ASSUME MidInv, Events, NEW c \in Clients, Work(c), Counted(c), Accounted(c),
           process_line(c)
    PROVE  Work(c)' /\ Events' /\ Counted(c)'
<1>0. /\ TypeOK /\ KernelTypeOK /\ DOMAIN pc = Clients /\ waited[c] \in Nat /\ wait_cnt \in Nat
      /\ DOMAIN waited = Clients /\ DOMAIN got = Clients
      /\ pc[c] \notin {"bg", "bgadd", "bgcont", "fg", "fgwait"} /\ ~cmd[c].amp
  BY MidTyped DEF Work, Counted
<1>1. /\ pc[c] \notin {"recv", "ended"} /\ Books(c) /\ InHand(c)
      /\ Midway(c) => pc[c] = "status"
  BY <1>0, LineMoves DEF Accounted, MidInv
<1>2. CASE StartPrograms(c) \/ WaitPrograms(c)
  <2>1. Shell(c)
    BY <1>2 DEF StartPrograms, WaitPrograms, Shell
  <2>2. Work(c)' /\ Events'
    BY <1>0, <2>1, WorkShell
  <2> SUFFICES Counted(c)'
    BY <2>2
  <2>a. adding' = adding
    BY <1>2 DEF StartPrograms, WaitPrograms, localVars
  <2>3. CASE ForkFirst(c)
    <3>1. PICK p \in Pid : Fork(p, p, IF cmd[c].head = "bg" THEN "signaled" ELSE "running")
      BY <2>3 DEF ForkFirst, Unborn
    <3>2. p \in 0 .. MaxPid
      BY KernelAssumption DEF Pid
    <3>3. /\ jobs' = jobs /\ pc[c] = "fork1" /\ pc'[c] = "fork2"
      BY <1>0, <2>3 DEF ForkFirst, Goto
    <3>4. Active = {} /\ ListedPids(jobs[c]) \cap Unborn = {}
      BY <1>1, <3>3 DEF Work, Books
    <3> QED
      BY <1>0, <3>1, <3>2, <3>3, <3>4, CountedFork DEF Handling
  <2>4. CASE ForkSecond(c)
    <3>1. /\ jobs' = jobs /\ pc[c] = "fork2" /\ pc'[c] = "started" /\ ~Handling(c) /\ ~Handling(c)'
      BY <1>0, <2>4 DEF ForkSecond, Goto, Handling
    <3>2. CASE cmd[c].pipe
      <4>1. PICK p \in Pid : \E g \in JoinedGroups(p) : Fork(p, g, "running")
        BY <2>4, <3>2 DEF ForkSecond, Unborn
      <4>2. PICK g \in JoinedGroups(p) : Fork(p, g, "running")
        BY <4>1
      <4>3. g \in 0 .. MaxPid
        BY <1>0, KernelAssumption DEF JoinedGroups, Pid, TypeOK
      <4>4. Active \cap ListedPids(jobs[c]) = {} /\ ListedPids(jobs[c]) \cap Unborn = {}
        BY <1>1, <3>1 DEF Counted, Launched, Books
      <4> QED
        BY <1>0, <3>1, <4>2, <4>3, <4>4, CountedFork
    <3>3. CASE ~cmd[c].pipe
      <4>1. UNCHANGED kernelVars
        BY <2>4, <3>3 DEF ForkSecond
      <4>2. /\ pc[c] \in Launched /\ pc'[c] \notin {"fg", "fgwait"}
            /\ Handling(c)' = Handling(c) /\ jobs'[c] = jobs[c]
        BY <3>1 DEF Launched, Handling
      <4> QED
        BY <2>a, <3>1, <4>1, <4>2, ActiveSame, CountedStill
    <3> QED
      BY <3>2, <3>3
  <2>5. CASE WaitChild(c)
    <3>1. ~Midway(c) /\ ~Midway(c)'
      BY <1>1, <2>5, <2>a DEF WaitChild, Midway
    <3> QED
      BY <1>0, <2>5, <3>1, CountedWaitChild
  <2>6. CASE Latest(c) \/ Started(c) \/ StoreWpid(c) \/ WaitFails(c) \/ Prompt(c)
    <3>1. UNCHANGED kernelVars /\ jobs' = jobs
      BY <2>6 DEF Latest, Started, StoreWpid, WaitFails, Prompt, threadVars
    <3>2. /\ pc'[c] \notin {"fg", "fgwait"} /\ (pc'[c] \in Launched => pc[c] \in Launched)
          /\ Handling(c)' = Handling(c)
          /\ Handling(c) => InFlight(c)' = InFlight(c) /\ status' = status
      BY <1>0, <2>6 DEF Latest, Started, StoreWpid, WaitFails, Prompt, threadVars, globalVars,
                        Goto, Launched, Handling, InFlight
    <3> QED
      BY <2>a, <3>1, <3>2, ActiveSame, CountedStill
  <2> QED
    BY <1>2, <2>3, <2>4, <2>5, <2>6 DEF StartPrograms, WaitPrograms
<1>3. CASE wait_status(c) \/ WritePgid(c) \/ WriteStatus(c)
  <2>1. pc[c] = "status" /\ cmd' = cmd /\ status' = status
    BY <1>1, <1>3 DEF wait_status, WritePgid, WriteStatus, Midway, globalVars
  <2>2. /\ NoneWoken /\ Cardinality(Active) <= wait_cnt - waited[c] - 1 /\ status # "continued"
    BY <2>1 DEF Work, Handling
  <2>3. UNCHANGED kernelVars /\ wait_cnt' \in {wait_cnt, wait_cnt + 1}
    BY <1>3, <2>2 DEF wait_status, WifExited, WifStopped, WifContinued, WritePgid, WriteStatus,
                      globalVars
  <2>4. \/ pc'[c] = "wait" /\ waited'[c] = waited[c] + 1
        \/ pc'[c] = "status" /\ waited'[c] = waited[c]
    <3>1. Handled(c) \/ UNCHANGED <<pc, waited>>
      BY <1>3, <2>1 DEF wait_status, WritePgid, WriteStatus
    <3> QED
      BY <1>0, <2>1, <3>1 DEF Handled, Goto
  <2>5. Active \in SUBSET Pid
    BY DEF Active, Unreaped
  <2>6. Cardinality(Active) \in Nat
    BY <2>5, CountHidden
  <2>7. Work(c)' /\ Events'
    BY <1>0, <2>1, <2>2, <2>3, <2>4, <2>6, ActiveSame DEF Work, Handling
  <2> QED
    BY <1>1, <1>3, <2>1, <2>7, CountedWaitStatus, CountedWrite
<1>4. CASE bg(c) \/ fg(c) \/ fg_waitpid(c) \/ is_background(c)
  BY <1>0, <1>4 DEF bg, fg, fg_cmd_process, fg_waitpid, is_background
<1> QED
  BY <1>2, <1>3, <1>4 DEF process_line

\* As long as one client alone has sent lines, all of them of programs, and no stopped
\* program was killed.
OneList == \A c, d \in Clients : jobs[c] = jobs[d]
CountInv ==
    modest /\ Cardinality(users) <= 1 =>
        /\ Events /\ OneList
        /\ \A c \in users : Work(c) /\ Counted(c)
        /\ users = {} => Unreaped = {} /\ \A c \in Clients : jobs[c] = <<>>

LEMMA CountInit == UserInit => CountInv
<1> SUFFICES ASSUME UserInit PROVE CountInv
  OBVIOUS
<1>1. KernelInit /\ users = {} /\ jobs = [c \in Clients |-> <<>>]
  BY DEF UserInit, PoojaInit, Init
<1>2. Events /\ Unreaped = {}
  BY <1>1 DEF KernelInit, Events, Unreaped, Pid
<1> QED
  BY <1>1, <1>2 DEF CountInv, OneList

\* A line of the only client keeps the count, and hides the entries.
LEMMA CountedNextLine ==
    ASSUME MidInv, NEW c \in Clients, NEW k \in Cmds, NextLine(c, k), Events,
           ~k.amp, k.head \notin {"bg", "fg"}, Active = {},
           Len(jobs[c]) = Cardinality(Unreaped)
    PROVE  Work(c)' /\ Events' /\ Counted(c)'
<1>0. TypeOK
  BY MidTyped
<1>1. /\ pc'[c] \in {"recv", "fork1"} /\ cmd'[c] = k /\ waited'[c] = 0 /\ wait_cnt' = 0
      /\ jobs'[c] = NewList(jobs[c]) /\ UNCHANGED kernelVars
  BY <1>0 DEF NextLine, SetList, Goto, TypeOK
<1>2. Events' /\ Active' = {} /\ Unreaped' = Unreaped
  BY <1>1, ActiveSame
<1>3. Work(c)'
  BY <1>1, <1>2 DEF Work, Handling
<1>4. Len(jobs'[c]) = Len(jobs[c]) /\ DoneEntries(jobs'[c]) = {}
  BY <1>0, <1>1, NewListBlank DEF TypeOK
<1>5. Aside(c)' = {} /\ Left(c)' = {}
  BY <1>1 DEF Aside, Left, Handling
<1>6. Unreaped' \ (Active' \cup Left(c)') = Unreaped
  BY <1>2, <1>5
<1> QED
  BY <1>1, <1>2, <1>3, <1>4, <1>5, <1>6 DEF Counted, Launched, Handling

\* A step of a line writes the one list, or leaves it alone.
LEMMA LineLists ==
    ASSUME NEW c \in Clients, process_line(c)
    PROVE  jobs' = jobs \/ \E list : SetList(list)
BY DEF process_line, StartPrograms, ForkFirst, ForkSecond, Latest, Started, WaitPrograms, WaitChild,
       StoreWpid, WaitFails, Prompt, bg, fg, fg_cmd_process, fg_waitpid, is_background, CountEntry,
       WritePgid, WriteStatus, wait_status, WifExited, WifStopped, WifContinued, threadVars

LEMMA CountStep == AloneInv /\ CountInv /\ [UserNext]_userVars => CountInv'
<1> SUFFICES ASSUME AloneInv, CountInv, [UserNext]_userVars, modest', Cardinality(users') <= 1
             PROVE  CountInv'
  BY DEF CountInv
<1>0. /\ TypeOK /\ KernelTypeOK /\ DOMAIN pc = Clients
      /\ users \subseteq Clients /\ IsFiniteSet(users)
      /\ \A c \in Clients \ users : pc[c] \in {"recv", "ended"}
      /\ Cardinality(users) <= 1 => \A c \in users : Accounted(c)
  BY MidTyped DEF AloneInv
<1>m. MidInv
  BY DEF AloneInv
<1>1. modest
  BY DEF UserNext, UserStep, UserLine, userVars, history
<1>2. ASSUME NEW c \in Clients, NEW k \in Cmds, UserLine(c, k)
      PROVE  CountInv'
  <2>1. /\ NextLine(c, k) /\ users' = users \cup {c} /\ IsFiniteSet(users')
        /\ ~k.amp /\ k.head \notin {"bg", "fg"} /\ pc[c] = "recv"
    BY <1>0, <1>2, FS_AddElement DEF UserLine, NextLine
  <2>2. users' = {c}
    BY <2>1, AtMostOne DEF OneOnly
  <2>3. users = {c} \/ users = {}
    BY <2>1, <2>2
  <2>4. Cardinality(users) <= 1
    BY <2>3, FS_Singleton, FS_EmptySet
  <2>5. /\ Events /\ \A d \in users : Work(d) /\ Counted(d)
        /\ users = {} => Unreaped = {} /\ \A d \in Clients : jobs[d] = <<>>
    BY <1>1, <2>4 DEF CountInv
  <2>6. Active = {} /\ Len(jobs[c]) = Cardinality(Unreaped)
    <3>1. CASE users = {}
      <4>1. Unreaped = {} /\ jobs[c] = <<>>
        BY <2>5, <3>1
      <4>2. Cardinality(Unreaped) = 0
        BY <4>1, FS_EmptySet
      <4> QED
        BY <4>1, <4>2 DEF Active
    <3>2. CASE users = {c}
      <4>1. Work(c) /\ Counted(c)
        BY <2>5, <3>2
      <4>2. Active = {} /\ Left(c) = {}
        BY <2>1, <4>1 DEF Work, Aside, Left, Handling
      <4>3. Unreaped \ (Active \cup Left(c)) = Unreaped
        BY <4>2
      <4> QED
        BY <4>1, <4>2, <4>3 DEF Counted
    <3> QED
      BY <2>3, <3>1, <3>2
  <2>7. Work(c)' /\ Events' /\ Counted(c)'
    BY <1>m, <2>1, <2>5, <2>6, CountedNextLine
  <2>8. OneList'
    BY <2>1 DEF NextLine, SetList, OneList
  <2> QED
    BY <2>2, <2>7, <2>8 DEF CountInv
<1> SUFFICES ASSUME UserStep \/ UNCHANGED userVars PROVE CountInv'
  BY <1>2 DEF UserNext
<1>3. users' = users
  BY DEF UserStep, userVars, history
<1>4. /\ Events /\ OneList /\ \A c \in users : Work(c) /\ Counted(c) /\ Accounted(c)
      /\ users = {} => Unreaped = {} /\ \A c \in Clients : jobs[c] = <<>>
  BY <1>0, <1>1, <1>3 DEF CountInv
<1>5. ASSUME NEW c \in Clients, daemon = "up", process_line(c)
      PROVE  CountInv'
  <2>1. pc[c] \notin {"recv", "ended"}
    BY <1>m, <1>5, LineMoves
  <2>2. users = {c}
    BY <1>0, <1>3, <2>1, AtMostOne DEF OneOnly
  <2>3. Work(c)' /\ Events' /\ Counted(c)'
    BY <1>m, <1>4, <1>5, <2>2, CountedLine
  <2>4. OneList'
    BY <1>4, <1>5, LineLists DEF OneList, SetList
  <2> QED
    BY <1>3, <2>2, <2>3, <2>4 DEF CountInv
<1>6. CASE \/ \E c \in Clients : Leave(c) \/ RecvFails(c)
           \/ UserStep /\ ChildStep /\ UNCHANGED localVars
           \/ UNCHANGED userVars
  <2>1. /\ UNCHANGED <<jobs, adding, cmd, waited, got, wait_cnt, wpid, status>>
        /\ \A d \in Clients : pc'[d] # pc[d] => pc[d] = "recv" /\ pc'[d] = "ended"
    <3>1. CASE \E c \in Clients : Leave(c)
      BY <1>0, <3>1 DEF Leave, Disconnect, Goto, globalVars, localVars
    <3>2. CASE (\E c \in Clients : RecvFails(c)) \/ UNCHANGED userVars
      BY <3>2 DEF RecvFails, userVars, poojaVars, vars, threadVars, globalVars, localVars
    <3>3. CASE ChildStep /\ UNCHANGED localVars
      BY <3>3 DEF ChildStep, threadVars, globalVars, localVars
    <3> QED
      BY <1>6, <3>1, <3>2, <3>3
  <2>2. /\ Active' = Active /\ Unreaped' = Unreaped /\ Events' /\ pgrp' = pgrp
        /\ NoneWoken => NoneWoken'
    <3>1. CASE UserStep /\ ChildStep
      <4>1. Unharmed
        BY <3>1 DEF UserStep, Unharmed
      <4>2. PICK p \in Pid : ProcStep(p)
        BY <3>1 DEF ChildStep
      <4> QED
        BY <1>0, <1>4, <4>1, <4>2, ActiveProcStep, ProcStepTyped
           DEF ProcStep, ProcExit, ProcKilled, ProcStopped
    <3>2. CASE UNCHANGED kernelVars
      BY <1>4, <3>2, ActiveSame DEF kernelVars
    <3> QED
      BY <1>6, <3>1, <3>2 DEF Leave, Disconnect, RecvFails, userVars, poojaVars, vars
  <2>3. ASSUME NEW c \in users PROVE Work(c)' /\ Counted(c)'
    <3>1. c \in Clients /\ Work(c) /\ Counted(c)
      BY <1>0, <1>4
    <3>2. Counted(c)'
      <4>1. /\ pc'[c] \notin {"fg", "fgwait"} /\ (pc'[c] \in Launched => pc[c] \in Launched)
            /\ Handling(c)' = Handling(c) /\ InFlight(c)' = InFlight(c)
        <5>1. pc[c] \notin {"fg", "fgwait"}
          BY <3>1 DEF Counted
        <5> QED
          BY <2>1, <3>1, <5>1 DEF Launched, Handling, InFlight
      <4> QED
        BY <2>1, <2>2, <3>1, <4>1, CountedStill
    <3>3. CASE pc'[c] = pc[c]
      BY <2>1, <2>2, <3>1, <3>2, <3>3, WorkStill
    <3>4. CASE pc'[c] # pc[c]
      BY <2>1, <2>2, <3>1, <3>2, <3>4 DEF Work, Handling
    <3> QED
      BY <3>3, <3>4
  <2>4. OneList'
    BY <1>4, <2>1 DEF OneList
  <2> QED
    BY <1>3, <1>4, <2>1, <2>2, <2>3, <2>4 DEF CountInv
<1> QED
  BY <1>5, <1>6 DEF UserStep, PoojaStep

\* Between two lines count is the number of the stopped programs (pooja/yash.c, count
\* in add_to_joblist and update_job_list), as long as one client alone has sent lines,
\* all of them of programs, and no stopped program was killed outright: although each
\* line's malloc leaves nothing of the entries that count stands for.
THEOREM CountAlwaysStopped == UserSpec => []CountIsStopped
<1>1. AloneInv /\ CountInv => CountIsStopped
  <2> SUFFICES ASSUME AloneInv, CountInv, modest, Cardinality(users) <= 1,
                      \A c \in Clients : pc[c] \in {"recv", "ended"}, NEW d \in Clients
               PROVE  Len(jobs[d]) = Cardinality({p \in Unreaped : pstate[p] \in Halted})
    BY DEF CountIsStopped
  <2>1. /\ OneList /\ users \subseteq Clients /\ \A c \in users : Work(c) /\ Counted(c)
        /\ users = {} => Unreaped = {} /\ jobs[d] = <<>>
    BY DEF CountInv, AloneInv
  <2>2. Unreaped \ Active = {p \in Unreaped : pstate[p] \in Halted} \/ Active # {}
    BY DEF Active, Quiet
  <2>3. CASE users = {}
    <3>1. {p \in Unreaped : pstate[p] \in Halted} = {}
      BY <2>1, <2>3
    <3>2. Cardinality({p \in Unreaped : pstate[p] \in Halted}) = 0
      BY <3>1, FS_EmptySet
    <3> QED
      BY <2>1, <2>3, <3>2
  <2>4. CASE users # {}
    <3>1. PICK c \in users : TRUE
      BY <2>4
    <3>2. /\ c \in Clients /\ Work(c) /\ Counted(c) /\ pc[c] \in {"recv", "ended"}
          /\ jobs[d] = jobs[c]
      BY <2>1, <3>1 DEF OneList
    <3>3. Active = {} /\ Left(c) = {}
      BY <3>2 DEF Work, Aside, Left, Handling
    <3>4. Unreaped \ (Active \cup Left(c)) = {p \in Unreaped : pstate[p] \in Halted}
      BY <2>2, <3>3
    <3> QED
      BY <3>2, <3>4 DEF Counted
  <2> QED
    BY <2>3, <2>4
<1> QED
  BY <1>1, AloneInit, AloneStep, CountInit, CountStep, PTL DEF UserSpec

-----------------------------------------------------------------------------
(* When the earlier server reads an entry that nobody wrote.               *)

\* No entry of the list is one that nobody wrote.
Written(list) == \A i \in DOMAIN list : list[i].status # "NULL"

LEMMA MarkWritten ==
    ASSUME NEW list \in Seq(Job), Written(list), NEW pid, NEW stat \in JobStatus \ {"NULL"}
    PROVE  Written(update_jobstatus(list, pid, stat))
<1>1. CASE EntriesOf(list, pid) = {}
  BY <1>1 DEF update_jobstatus
<1>2. CASE EntriesOf(list, pid) # {}
  <2> DEFINE e == FirstOf(EntriesOf(list, pid))
             marked == [list EXCEPT ![e].status = stat]
  <2>1. update_jobstatus(list, pid, stat) = marked
    BY <1>2 DEF update_jobstatus
  <2> HIDE DEF e
  <2>2. ASSUME NEW i \in DOMAIN marked PROVE marked[i].status # "NULL"
    <3>1. i \in DOMAIN list /\ list[i] \in Job /\ list[i].status # "NULL"
      BY <2>2 DEF Written
    <3>2. marked[i] = IF i = e THEN [list[i] EXCEPT !.status = stat] ELSE list[i]
      BY <3>1
    <3> HIDE DEF marked
    <3> QED
      BY <3>1, <3>2 DEF Job
  <2> QED
    BY <2>1, <2>2 DEF Written
<1> QED
  BY <1>1, <1>2

LEMMA CompactWritten ==
    ASSUME NEW list \in Seq(Job), Written(list)
    PROVE  Written(update_job_list(list)) /\ ~ScanFaults(list)
BY CompactKeeps DEF Written, ScanFaults

\* An entry that add_to_joblist has counted becomes one that is written.
AllButLast(list) == \A i \in DOMAIN list : list[i].status = "NULL" => i = Len(list)

LEMMA EntryWritten ==
    ASSUME NEW list \in Seq(Job), NEW sid \in Nat
    PROVE  /\ Written(list) => AllButLast(Append(list, Unwritten))
           /\ Append(list, Unwritten) # <<>>
           /\ AllButLast(list) => AllButLast(PutPgid(list, sid))
           /\ AllButLast(list) => Written(PutStatus(list))
<1>1. Len(list) \in Nat /\ DOMAIN list = 1 .. Len(list)
  OBVIOUS
<1>2. Append(list, Unwritten) # <<>> /\ (Written(list) => AllButLast(Append(list, Unwritten)))
  <2> DEFINE longer == Append(list, Unwritten)
  <2>1. /\ longer \in Seq(Job) /\ Len(longer) = Len(list) + 1
        /\ \A i \in 1 .. Len(list) : longer[i] = list[i]
    BY CountEntryKeeps
  <2>2. DOMAIN longer = 1 .. Len(list) + 1
    BY <2>1
  <2> HIDE DEF longer
  <2>3. \A i \in DOMAIN longer : i \in 1 .. Len(list) \/ i = Len(longer)
    BY <1>1, <2>1, <2>2
  <2>4. longer # <<>>
    BY <1>1, <2>1
  <2> QED
    BY <1>1, <2>1, <2>3, <2>4 DEF Written, AllButLast, longer
<1>3. AllButLast(list) => AllButLast(PutPgid(list, sid))
  <2> DEFINE put == PutPgid(list, sid)
  <2>1. /\ put \in Seq(Job) /\ Len(put) = Len(list)
        /\ \A i \in 1 .. Len(list) : put[i].status = list[i].status
    BY PutPgidKeeps
  <2>2. DOMAIN put = 1 .. Len(list)
    BY <2>1
  <2> HIDE DEF put
  <2> QED
    BY <1>1, <2>1, <2>2 DEF AllButLast, put
<1>4. AllButLast(list) => Written(PutStatus(list))
  <2> DEFINE put == PutStatus(list)
  <2>1. /\ put \in Seq(Job) /\ Len(put) = Len(list)
        /\ \A i \in 1 .. Len(list) :
              put[i].status = IF i = Len(list) THEN "Stopped" ELSE list[i].status
    BY PutStatusKeeps
  <2>2. DOMAIN put = 1 .. Len(list)
    BY <2>1
  <2> HIDE DEF put
  <2> QED
    BY <1>1, <2>1, <2>2 DEF AllButLast, Written, put
<1> QED
  BY <1>2, <1>3, <1>4

\* Without old jobs and torn writes one thread at most is in add_to_joblist, the list
\* holds what was written and perhaps the entry it has counted last, and the server is
\* undefined only by a line without a token or by an entry past the end of the array.
ArrayHolds == \A c \in Clients : Len(jobs[c]) < MAX_CMD_SIZE
Filled ==
    /\ OneList
    /\ \A c, d \in Clients : Midway(c) /\ Midway(d) => c = d
    /\ \A c \in Clients :
          IF \E d \in Clients : Midway(d) THEN jobs[c] # <<>> /\ AllButLast(jobs[c])
                                        ELSE Written(jobs[c])
FaultInv ==
    /\ MidInv
    /\ ~carried /\ ~torn => Filled
    /\ daemon = "faulted" /\ ArrayHolds => FaultNeedsOldJobs

\* The list may become one that is as well written, while no thread is in add_to_joblist.
LEMMA FilledBy ==
    ASSUME Filled, adding' = adding, NEW c \in Clients, ~\E d \in Clients : Midway(d),
           NEW list, SetList(list), Written(list)
    PROVE  Filled'
BY DEF Filled, OneList, SetList, Midway

LEMMA FilledStill ==
    ASSUME Filled, adding' = adding, jobs' = jobs
    PROVE  Filled'
BY DEF Filled, OneList, Midway

\* A step of a line, with nobody in add_to_joblist, leaves the list written or counts
\* an entry.
LEMMA FaultLine ==
    ASSUME MidInv, Filled, NEW c \in Clients, daemon = "up", process_line(c),
           ~\E d \in Clients : Midway(d)
    PROVE  /\ Filled'
           /\ daemon' = "faulted" => ~ArrayHolds'
<1>0. /\ jobs[c] \in Seq(Job) /\ Written(jobs[c]) /\ wpid \in Nat /\ chid1 \in Nat
      /\ ~Midway(c) /\ DOMAIN adding = Clients
  BY MidTyped DEF Filled
<1>1. CASE StartPrograms(c) \/ WaitPrograms(c) \/ fg(c)
  <2>1. jobs' = jobs /\ daemon' # "faulted" /\ adding' = adding
    BY <1>1 DEF StartPrograms, ForkFirst, ForkSecond, Latest, Started, WaitPrograms, WaitChild,
                StoreWpid, WaitFails, Prompt, fg, fg_cmd_process, threadVars, localVars
  <2> QED
    BY <2>1, FilledStill
<1>2. CASE bg(c)
  <2>1. daemon' # "faulted" /\ adding' = adding
    BY <1>2 DEF bg, localVars
  <2>2. jobs' = jobs \/ \E pid : SetList(update_jobstatus(jobs[c], pid, "Running"))
                     \/ SetList(jobs[c])
    BY <1>2 DEF bg
  <2> QED
    BY <1>0, <2>1, <2>2, MarkWritten, FilledStill, FilledBy DEF JobStatus
<1>3. CASE fg_waitpid(c)
  <2>1. /\ daemon' # "faulted" /\ adding' = adding
        /\ \E s : SetList(FgStatus(jobs[c], fg_job[c], s))
    BY <1>3 DEF fg_waitpid
  <2>2. \A s : Written(FgStatus(jobs[c], fg_job[c], s))
    BY <1>0, MarkWritten DEF FgStatus, JobStatus
  <2> QED
    BY <2>1, <2>2, FilledBy
<1>4. ASSUME NEW pid \in Nat, CountEntry(c, pid)
      PROVE  Filled' /\ (daemon' = "faulted" => ~ArrayHolds')
  <2>1. /\ \A d \in Clients : jobs'[d] = Append(jobs[c], Unwritten)
        /\ adding' = [adding EXCEPT ![c] = [left |-> "pgid", sid |-> pid]]
        /\ daemon' = "faulted" => AddFaults(jobs[c])
    BY <1>4 DEF CountEntry, SetList
  <2>2. /\ Append(jobs[c], Unwritten) # <<>> /\ AllButLast(Append(jobs[c], Unwritten))
        /\ Len(Append(jobs[c], Unwritten)) = Len(jobs[c]) + 1
    BY <1>0, <1>4, EntryWritten, CountEntryKeeps
  <2>3. \A d \in Clients : Midway(d)' <=> d = c
    BY <1>0, <2>1 DEF Midway
  <2>4. Filled'
    BY <2>1, <2>2, <2>3 DEF Filled, OneList
  <2> QED
    BY <1>0, <2>1, <2>2, <2>4, JobTableAssumption DEF AddFaults, ArrayHolds
<1>5. CASE is_background(c)
  <2>1. CASE CountEntry(c, chid1)
    BY <1>0, <1>4, <2>1
  <2>2. CASE /\ SetList(update_jobstatus(jobs[c], chid1, "Running"))
             /\ daemon' = daemon /\ adding' = adding
    BY <1>0, <2>2, MarkWritten, FilledBy DEF JobStatus
  <2> QED
    BY <1>5, <2>1, <2>2 DEF is_background
<1>6. CASE wait_status(c)
  <2>1. CASE WifExited(c) /\ adding' = adding
    <3> DEFINE marked == update_jobstatus(jobs[c], wpid, "Done")
    <3>1. marked \in Seq(Job) /\ Written(marked)
      BY <1>0, MarkKeeps, MarkWritten DEF JobStatus
    <3>2. SetList(update_job_list(marked)) /\ (daemon' = "faulted" => ScanFaults(marked))
      BY <2>1 DEF WifExited
    <3> HIDE DEF marked
    <3> QED
      BY <2>1, <3>1, <3>2, CompactWritten, FilledBy
  <2>2. CASE WifStopped(c)
    BY <1>0, <1>4, <2>2 DEF WifStopped
  <2>3. CASE WifContinued(c) /\ adding' = adding
    BY <1>0, <2>3, MarkWritten, FilledBy DEF WifContinued, JobStatus
  <2>4. CASE UNCHANGED <<kernelVars, daemon, jobs, wait_cnt>> /\ adding' = adding
    BY <2>4, FilledStill
  <2> QED
    BY <1>6, <2>1, <2>2, <2>3, <2>4 DEF wait_status
<1>7. CASE WritePgid(c) \/ WriteStatus(c)
  BY <1>0, <1>7 DEF WritePgid, WriteStatus, Midway
<1> QED
  BY <1>1, <1>2, <1>3, <1>5, <1>6, <1>7 DEF process_line

\* The thread that is in add_to_joblist goes on with it.
LEMMA FaultWrite ==
    ASSUME MidInv, Filled, NEW c \in Clients, daemon = "up", process_line(c), Midway(c)
    PROVE  Filled' /\ daemon' # "faulted"
<1>0. /\ jobs[c] \in Seq(Job) /\ AllButLast(jobs[c]) /\ jobs[c] # <<>>
      /\ pc[c] \in {"status", "bgadd"} /\ adding[c].sid \in Nat /\ DOMAIN adding = Clients
      /\ \A d \in Clients : Midway(d) => d = c
  BY MidTyped DEF Filled, MidInv
<1>1. WritePgid(c) \/ WriteStatus(c)
  BY <1>0 DEF process_line, bg, fg, fg_cmd_process, fg_waitpid, StartPrograms, ForkFirst, ForkSecond,
              Latest, Started, is_background, WaitPrograms, WaitChild, StoreWpid, WaitFails, Prompt,
              wait_status, Midway, Idle
<1>2. daemon' # "faulted"
  BY <1>1 DEF WritePgid, WriteStatus
<1>3. CASE WritePgid(c)
  <2>1. /\ SetList(PutPgid(jobs[c], adding[c].sid))
        /\ adding' = [adding EXCEPT ![c].left = "status"]
    BY <1>3 DEF WritePgid
  <2>2. \A d \in Clients : Midway(d)' <=> d = c
    BY <1>0, <2>1 DEF Midway
  <2>3. AllButLast(PutPgid(jobs[c], adding[c].sid)) /\ PutPgid(jobs[c], adding[c].sid) # <<>>
    BY <1>0, EntryWritten, PutPgidKeeps
  <2>4. Filled'
    BY <2>1, <2>2, <2>3 DEF SetList, Filled, OneList
  <2> QED
    BY <1>2, <2>4
<1>4. CASE WriteStatus(c)
  <2>1. SetList(PutStatus(jobs[c])) /\ adding' = [adding EXCEPT ![c] = Idle]
    BY <1>4 DEF WriteStatus
  <2>2. \A d \in Clients : ~Midway(d)'
    BY <1>0, <2>1 DEF Midway, Idle
  <2>3. Written(PutStatus(jobs[c]))
    BY <1>0, EntryWritten
  <2>4. Filled'
    BY <2>1, <2>2, <2>3 DEF SetList, Filled, OneList
  <2> QED
    BY <1>2, <2>4
<1> QED
  BY <1>1, <1>3, <1>4

\* A step of a line amid another thread's add_to_joblist tears it, or ends the server.
LEMMA LineTears ==
    ASSUME MidInv, NEW c \in Clients, process_line(c), NEW d \in Clients, d # c, Midway(d)
    PROVE  Amid(c) \/ (UNCHANGED <<jobs, adding>> /\ daemon' # "faulted")
<1>0. DOMAIN pc = Clients /\ DOMAIN adding = Clients /\ pc[c] # "recv" /\ adding[d] # Idle
  BY MidTyped, LineMoves DEF Midway, Idle
<1> SUFFICES \/ pc'[c] # pc[c] \/ adding'[c] # adding[c]
             \/ UNCHANGED <<jobs, adding>> /\ daemon' # "faulted"
  BY <1>0 DEF Amid
<1>1. CASE WaitFails(c) /\ UNCHANGED localVars
  BY <1>1 DEF WaitFails, threadVars, localVars
<1>2. CASE StartPrograms(c) \/ (WaitPrograms(c) /\ ~WaitFails(c))
  BY <1>0, <1>2 DEF StartPrograms, ForkFirst, ForkSecond, Latest, Started, WaitPrograms, WaitChild,
                    StoreWpid, Prompt, Goto
<1>3. CASE bg(c) \/ fg(c) \/ fg_waitpid(c)
  BY <1>0, <1>3 DEF bg, fg, fg_cmd_process, fg_waitpid, Goto
<1>4. ASSUME NEW pid, CountEntry(c, pid), adding[c] = Idle PROVE adding'[c] # adding[c]
  BY <1>0, <1>4 DEF CountEntry, Idle
<1>5. CASE is_background(c)
  BY <1>0, <1>4, <1>5 DEF is_background, Goto
<1>6. CASE wait_status(c)
  <2>1. CASE WifStopped(c)
    BY <1>4, <1>6, <2>1 DEF wait_status, WifStopped
  <2>2. CASE Handled(c)
    BY <1>0, <1>6, <2>2 DEF wait_status, Handled, Goto
  <2> QED
    BY <1>6, <2>1, <2>2 DEF wait_status
<1>7. CASE WritePgid(c) \/ WriteStatus(c)
  <2>1. CASE WritePgid(c)
    <3>1. adding \in [Clients -> [left : {"nothing", "pgid", "status"}, sid : Nat]]
      BY DEF MidInv, PoojaTypeOK
    <3>2. adding[c].left = "pgid" /\ adding'[c].left = "status"
      BY <2>1, <3>1 DEF WritePgid
    <3> QED
      BY <3>2
  <2>2. CASE WriteStatus(c)
    BY <1>0, <2>2 DEF WriteStatus, Idle
  <2> QED
    BY <1>7, <2>1, <2>2
<1> QED
  BY <1>1, <1>2, <1>3, <1>5, <1>6, <1>7 DEF process_line, WaitPrograms

LEMMA FaultStep == FaultInv /\ [UserNext]_userVars => FaultInv'
<1> SUFFICES ASSUME FaultInv, [UserNext]_userVars PROVE FaultInv'
  OBVIOUS
<1>0. MidInv /\ TypeOK /\ jobs \in [Clients -> Seq(Job)] /\ DOMAIN cmd = Clients
  BY MidTyped DEF FaultInv, TypeOK
<1>1. MidInv'
  BY <1>0, MidStep DEF UserNext, UserStep, UserLine, PoojaNext, userVars
<1>2. ASSUME NEW c \in Clients, NEW k \in Cmds, UserLine(c, k)
      PROVE  FaultInv'
  <2>1. /\ SetList(NewList(jobs[c])) /\ cmd' = [cmd EXCEPT ![c] = k] /\ adding' = adding
        /\ carried' = (carried \/ jobs[c] # <<>>) /\ torn' = torn
        /\ daemon' = "faulted" => k.head = "none"
    BY <1>2 DEF UserLine, NextLine, localVars
  <2>2. ASSUME ~carried', ~torn' PROVE Filled'
    <3>1. Filled /\ jobs[c] = <<>>
      BY <2>1, <2>2 DEF FaultInv
    <3>2. ~\E d \in Clients : Midway(d)
      BY <3>1 DEF Filled
    <3>3. Written(NewList(jobs[c]))
      BY <3>1 DEF NewList, Written
    <3> QED
      BY <2>1, <3>1, <3>2, <3>3, FilledBy
  <2>3. cmd'[c] = k
    BY <1>0, <2>1
  <2> QED
    BY <1>1, <2>1, <2>2, <2>3 DEF FaultInv, FaultNeedsOldJobs
<1> SUFFICES ASSUME UserStep \/ UNCHANGED userVars PROVE FaultInv'
  BY <1>2 DEF UserNext
<1>3. carried' = carried /\ (torn => torn')
  <2>1. CASE UserStep
    BY <2>1, Zenon DEF UserStep
  <2>2. CASE UNCHANGED userVars
    BY <2>2 DEF userVars, history
  <2> QED
    BY <2>1, <2>2
<1>4. CASE carried \/ torn'
  BY <1>1, <1>3, <1>4 DEF FaultInv, FaultNeedsOldJobs
<1>5. ASSUME NEW c \in Clients, daemon = "up", process_line(c), ~carried, ~torn', UserStep
      PROVE  FaultInv'
  <2>1. Filled
    BY <1>3, <1>5 DEF FaultInv
  <2>2. CASE ~\E d \in Clients : Midway(d)
    BY <1>0, <1>1, <1>5, <2>1, <2>2, FaultLine DEF FaultInv
  <2>3. CASE Midway(c)
    BY <1>0, <1>1, <1>5, <2>1, <2>3, FaultWrite DEF FaultInv
  <2>4. ASSUME NEW d \in Clients, d # c, Midway(d) PROVE FaultInv'
    <3>1. ~Amid(c)
      BY <1>5 DEF UserStep
    <3>2. UNCHANGED <<jobs, adding>> /\ daemon' # "faulted"
      BY <1>0, <1>5, <2>4, <3>1, LineTears
    <3> QED
      BY <1>1, <2>1, <3>2, FilledStill DEF FaultInv
  <2> QED
    BY <2>2, <2>3, <2>4
<1>6. CASE /\ daemon = "up" /\ ~carried /\ ~torn'
           /\ \/ \E c \in Clients : Leave(c) \/ RecvFails(c)
              \/ ChildStep /\ UNCHANGED localVars
  <2>1. jobs' = jobs /\ adding' = adding /\ daemon' # "faulted"
    BY <1>6 DEF Leave, Disconnect, RecvFails, ChildStep, threadVars, localVars
  <2> QED
    BY <1>1, <1>3, <1>6, <2>1, FilledStill DEF FaultInv
<1>7. CASE UNCHANGED userVars
  <2>1. UNCHANGED <<jobs, adding, daemon, cmd, carried, torn>>
    BY <1>7 DEF userVars, history, poojaVars, vars, threadVars, localVars
  <2> QED
    BY <1>1, <2>1, FilledStill DEF FaultInv, ArrayHolds, FaultNeedsOldJobs
<1> QED
  BY <1>4, <1>5, <1>6, <1>7 DEF UserStep, PoojaStep

\* Whatever any number of clients do, the scan of update_job_list (pooja/yash.c:233) meets
\* no entry that nobody wrote until a line finds jobs of an earlier one, or a thread moves
\* amid another's add_to_joblist (:163-169): as long as add_to_joblist has not filled the
\* array, the server is defined until then.
THEOREM FaultsByOldJobs == UserSpec => [](ArrayHolds => FaultNeedsOldJobs)
<1>1. UserInit => FaultInv
  <2> SUFFICES ASSUME UserInit PROVE FaultInv
    OBVIOUS
  <2>1. MidInv /\ daemon = "up" /\ jobs = [c \in Clients |-> <<>>]
    BY MidInit DEF UserInit, PoojaInit, Init
  <2>2. \A c \in Clients : ~Midway(c)
    BY DEF UserInit, PoojaInit, Midway, Idle
  <2> QED
    BY <2>1, <2>2 DEF FaultInv, Filled, OneList, Written
<1>2. FaultInv => (ArrayHolds => FaultNeedsOldJobs)
  BY DEF FaultInv, FaultNeedsOldJobs
<1> QED
  BY <1>1, <1>2, FaultStep, PTL DEF UserSpec
=============================================================================
