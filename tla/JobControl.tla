----------------------------- MODULE JobControl -----------------------------
(***************************************************************************)
(* The shell inside yashd: one thread per client runs EchoServe, and for   *)
(* every line it receives process_cmd (daemon/server.c), which forks the   *)
(* programs of the line, keeps the client's job list and waits.            *)
(*                                                                         *)
(* The threads share the children (module Kernel) and the globals chid1,   *)
(* latest_pgrp, wait_cnt, wpid and status; each thread has a job list of   *)
(* its own.  An action ends where another thread can change something the  *)
(* next statement reads.                                                   *)
(*                                                                         *)
(* How a line's two programs are started and connected is module Launch;   *)
(* here a fork yields a running program.                                   *)
(***************************************************************************)
EXTENDS Integers, FiniteSets, Kernel, JobTable

CONSTANTS
    Clients,        \* the connected clients, one thread each
    Cmds,           \* the command lines the clients send
    Ctls,           \* the "CTL" messages the clients send
    InitialCounts   \* the values the uninitialized int job_count may hold

\* A line as process_cmd sees it: what pipe_cmds[0] is ("none": str_handler wrote
\* nothing there), whether pipe_cmds[1] is not null (str_handler never ends its
\* array, so a line without "|" may find something there), and the final "&".
Command == [head : {"prog", "bg", "fg", "c", "empty", "none"},
            pipe : BOOLEAN, amp : BOOLEAN]
NoCmd == [head |-> "prog", pipe |-> FALSE, amp |-> FALSE]

ASSUME JobControlAssumption ==
    /\ Cmds \subseteq Command
    /\ Ctls \subseteq {"SIGINT", "SIGTSTP", "other"}
    /\ InitialCounts \subseteq Int

VARIABLES
    daemon,       \* "up", "exited", or "faulted" after undefined behaviour
    jobs,         \* [Clients -> job list]
    below,        \* [Clients -> job_count while it is negative, else job_list[0].pgid]
    pc,           \* [Clients -> where the thread is]
    cmd,          \* [Clients -> the line it works on]
    waited,       \* [Clients -> the loop variable i of the wait loop]
    got,          \* [Clients -> what waitpid returned, before it is stored]
    wait_cnt, chid1, latest_pgrp, wpid, status,   \* globals of the daemon
    handlers      \* sig_handler is installed for SIGINT and SIGTSTP

threadVars == <<jobs, below, pc, cmd, waited, got>>
globalVars == <<wait_cnt, chid1, latest_pgrp, wpid, status, handlers>>
vars == <<kernelVars, daemon, threadVars, globalVars>>

PC == {"recv", "bg", "fg", "fgwait", "fork1", "fork2", "started", "sync",
       "bgadd", "bgcont", "wait", "store", "status", "ended"}

TypeOK ==
    /\ KernelTypeOK
    /\ daemon \in {"up", "exited", "faulted"}
    /\ jobs \in [Clients -> Seq(Job)]
    /\ below \in [Clients -> Int]
    /\ pc \in [Clients -> PC]
    /\ cmd \in [Clients -> Command]
    /\ waited \in [Clients -> Nat]
    /\ got \in [Clients -> 0 .. MaxPid]
    /\ wait_cnt \in Nat
    /\ chid1 \in 0 .. MaxPid
    /\ latest_pgrp \in 0 .. MaxPid
    /\ wpid \in 0 .. MaxPid
    /\ status \in Zombie \cup Event
    /\ handlers \in BOOLEAN

Init ==
    /\ KernelInit
    /\ daemon = "up"
    /\ \E n \in InitialCounts :
          /\ jobs = [c \in Clients |-> [i \in 1 .. n |-> Unwritten]]
          /\ below = [c \in Clients |-> IF n < 0 THEN n ELSE 0]
    /\ pc = [c \in Clients |-> "recv"]
    /\ cmd = [c \in Clients |-> NoCmd]
    /\ waited = [c \in Clients |-> 0]
    /\ got = [c \in Clients |-> 0]
    /\ wait_cnt = 0 /\ chid1 = 0 /\ latest_pgrp = 0 /\ wpid = 0
    /\ status = "exited"
    /\ handlers = FALSE

Goto(c, l) == pc' = [pc EXCEPT ![c] = l]
Current(c) == jobs[c][Len(jobs[c])]

\* add_to_joblist.  While job_count is negative it counts up: from -1 to 0 the entry is
\* job_list[0], which no loop looks at, and before that it lies in front of the array.
AddJob(c, pid) ==
    IF below[c] < 0
    THEN /\ below' = [below EXCEPT ![c] = pid]
         /\ daemon' = IF below[c] = -1 THEN daemon ELSE "faulted"
         /\ UNCHANGED jobs
    ELSE /\ jobs' = [jobs EXCEPT ![c] = add_to_joblist(@, pid)]
         /\ daemon' = IF AddFaults(jobs[c]) THEN "faulted" ELSE daemon
         /\ UNCHANGED below

\* Bound: a line is only read while there are children left for it and for the
\* lines that other threads are still starting.
ForksOf(k) ==
    (IF k.head \in {"fg", "empty"} THEN 0 ELSE 1) + (IF k.pipe THEN 1 ELSE 0)
PendingForks ==
    Cardinality({c \in Clients : pc[c] \in {"bg", "fork1"}})
    + Cardinality({c \in Clients : /\ pc[c] \in {"bg", "fg", "fgwait", "fork1", "fork2"}
                                   /\ cmd[c].pipe})
Room(k) == Cardinality(Unborn) >= PendingForks + ForksOf(k)

-----------------------------------------------------------------------------
\* process_cmd up to the test for the built-in commands.  "c" ends the whole
\* daemon; an empty line returns at once, but has reset wait_cnt; a line with no
\* token at all leaves pipe_cmds[0] unwritten.
Recv(c, k) ==
    /\ pc[c] = "recv"
    /\ Room(k)
    /\ cmd' = [cmd EXCEPT ![c] = k]
    /\ waited' = [waited EXCEPT ![c] = 0]
    /\ wait_cnt' = 0
    /\ daemon' = CASE k.head = "c" -> "exited"
                   [] k.head = "none" -> "faulted"
                   [] OTHER -> "up"
    /\ Goto(c, CASE k.head \in {"bg", "fg"} -> k.head
                 [] k.head = "empty" -> "recv"
                 [] OTHER -> "fork1")
    /\ UNCHANGED <<kernelVars, jobs, below, got, chid1, latest_pgrp, wpid, status, handlers>>

\* bg: kill(pgid, SIGCONT) addresses the group leader alone.
bg_cmd_process(c) ==
    /\ pc[c] = "bg"
    /\ Goto(c, "fork1")
    /\ IF Len(jobs[c]) = 0
       THEN UNCHANGED <<kernelVars, jobs>>
       ELSE LET pid == Current(c).pgid
                sent == pid = 0 \/ Addressed(pid) # {}
            IN  /\ Continue(Addressed(pid))
                /\ jobs' = [jobs EXCEPT ![c] =
                       IF sent THEN update_jobstatus(@, pid, "Running") ELSE @]
    /\ UNCHANGED <<daemon, below, cmd, waited, got, globalVars>>

\* fg: continue the group of the last job, then wait for it.
fg_cmd_process(c) ==
    /\ pc[c] = "fg"
    /\ IF Len(jobs[c]) = 0
       THEN Goto(c, "fork2") /\ UNCHANGED kernelVars
       ELSE Goto(c, "fgwait") /\ Continue(Members(Current(c).pgid))
    /\ UNCHANGED <<daemon, jobs, below, cmd, waited, got, globalVars>>

\* Mutant: a job that fg sees stop again is marked as one that ended.
FgStatusDone(list, pid, s) ==
    IF s = "none" THEN list ELSE update_jobstatus(list, pid, "Done")

\* Mutant: the stop that fg sees is entered in the list like the first one.
FgStatusListed(list, pid, s) ==
    CASE s \in Zombie -> update_jobstatus(list, pid, "Done")
      [] s = "stopped" -> add_to_joblist(list, pid)
      [] OTHER -> list

FgStatus(list, pid, s) ==
    CASE s \in Zombie -> update_jobstatus(list, pid, "Done")
      [] s = "stopped" -> update_jobstatus(list, pid, "Stopped")
      [] OTHER -> list

\* waitpid(-pgid, &status, WUNTRACED): one report of one member of the group;
\* with no such child it fails and the local status is read uninitialized.
fg_wait(c) ==
    /\ pc[c] = "fgwait"
    /\ Goto(c, "fork2")
    /\ LET pid == Current(c).pgid
       IN  \/ \E p \in Members(pid) :
                /\ Report(p) \in Zombie \cup {"stopped"}
                /\ Collect(p)
                /\ jobs' = [jobs EXCEPT ![c] = FgStatus(@, pid, Report(p))]
           \/ /\ Members(pid) = {}
              /\ \E s \in Zombie \cup {"stopped", "none"} :
                    jobs' = [jobs EXCEPT ![c] = FgStatus(@, pid, s)]
              /\ UNCHANGED kernelVars
    /\ UNCHANGED <<daemon, below, cmd, waited, got, globalVars>>

-----------------------------------------------------------------------------
Fresh(p) == p \in Unborn /\ \A q \in Unborn : p <= q

\* The first program of the line leads a group of its own.  "bg" goes on as a
\* line of one blank, whose child dereferences a null token and dies at once.
ForkFirst(c) ==
    /\ pc[c] = "fork1"
    /\ wait_cnt' = wait_cnt + 1
    /\ \E p \in Unborn :
          /\ Fresh(p)
          /\ Fork(p, p, IF cmd[c].head = "bg" THEN "signaled" ELSE "running")
          /\ chid1' = p
    /\ Goto(c, "fork2")
    /\ UNCHANGED <<daemon, jobs, below, cmd, waited, got, latest_pgrp, wpid, status, handlers>>

\* The second program joins the group chid1 if that group exists by then, and
\* stays in the group of the daemon otherwise: the first program, unless it has
\* already ended, may not have reached its own setpgid.
JoinedGroups(p) ==
    IF chid1 = 0 THEN {p}
    ELSE (IF Members(chid1) # {} THEN {chid1} ELSE {})
         \cup (IF Members(chid1) = {} \/ pstate[chid1] \in Alive
               THEN {0} ELSE {})

\* Mutant: wait_cnt++ stands before the test for a second program.
ForkSecondCounted(c) ==
    /\ pc[c] = "fork2"
    /\ Goto(c, "started")
    /\ wait_cnt' = wait_cnt + 1
    /\ IF cmd[c].pipe
       THEN \E p \in Unborn :
               /\ Fresh(p)
               /\ \E g \in JoinedGroups(p) : Fork(p, g, "running")
       ELSE UNCHANGED kernelVars
    /\ UNCHANGED <<daemon, jobs, below, cmd, waited, got, chid1, latest_pgrp, wpid,
                   status, handlers>>

ForkSecond(c) ==
    /\ pc[c] = "fork2"
    /\ Goto(c, "started")
    /\ IF cmd[c].pipe
       THEN /\ wait_cnt' = wait_cnt + 1
            /\ \E p \in Unborn :
                  /\ Fresh(p)
                  /\ \E g \in JoinedGroups(p) : Fork(p, g, "running")
       ELSE UNCHANGED <<kernelVars, wait_cnt>>
    /\ UNCHANGED <<daemon, jobs, below, cmd, waited, got, chid1, latest_pgrp, wpid,
                   status, handlers>>

\* A line without a first program, or whose first one has died at once, sends no
\* byte: the parent's read ends when its pipe is closed, and the second program, or
\* whatever was forked after it, still holds a copy.
SyncHeld(c) ==
    /\ cmd[c].head # "prog" /\ cmd[c].pipe
    /\ \E p \in Unreaped : /\ \A q \in Pid \ Unborn : q <= p
                          /\ pstate[p] \in Alive

\* The parent's part between the forks and the job handling: the newest group of all
\* clients, then the byte of the first program, then the handlers.
Latest(c) ==
    /\ pc[c] = "started"
    /\ latest_pgrp' = chid1
    /\ Goto(c, "sync")
    /\ UNCHANGED <<kernelVars, daemon, jobs, below, cmd, waited, got, wait_cnt, chid1, wpid,
                   status, handlers>>

Started(c) ==
    /\ pc[c] = "sync"
    /\ ~SyncHeld(c)
    /\ handlers' = TRUE
    /\ Goto(c, IF cmd[c].amp THEN "bgadd" ELSE "wait")
    /\ UNCHANGED <<kernelVars, daemon, jobs, below, cmd, waited, got, wait_cnt, chid1,
                   latest_pgrp, wpid, status>>

\* "&": the program is entered in the job list ...
BackgroundAdd(c) ==
    /\ pc[c] = "bgadd"
    /\ AddJob(c, chid1)
    /\ Goto(c, "bgcont")
    /\ UNCHANGED <<kernelVars, cmd, waited, got, globalVars>>

\* ... and continued; the thread then waits for it like for any other.
BackgroundContinue(c) ==
    /\ pc[c] = "bgcont"
    /\ Continue(Members(chid1))
    /\ jobs' = [jobs EXCEPT ![c] = update_jobstatus(@, chid1, "Running")]
    /\ Goto(c, "wait")
    /\ UNCHANGED <<daemon, below, cmd, waited, got, globalVars>>

-----------------------------------------------------------------------------
\* Mutant: waitpid without WUNTRACED.
ReportedUnlessStopped == {p \in Unreaped : Report(p) \notin {"none", "stopped"}}

\* What waitpid(-1, &status, WUNTRACED | WCONTINUED) may return.
Reported == {p \in Unreaped : Report(p) # "none"}

\* Any child of any thread.
WaitChild(c) ==
    /\ pc[c] = "wait"
    /\ waited[c] < wait_cnt
    /\ \E p \in Reported :
          /\ Collect(p)
          /\ status' = Report(p)
          /\ got' = [got EXCEPT ![c] = p]
    /\ Goto(c, "store")
    /\ UNCHANGED <<daemon, jobs, below, cmd, waited, wait_cnt, chid1, latest_pgrp, wpid,
                   handlers>>

\* Mutant: the result of waitpid is not assigned.
StoreNothing(c) ==
    /\ pc[c] = "store"
    /\ got' = [got EXCEPT ![c] = 0]
    /\ Goto(c, "status")
    /\ UNCHANGED <<kernelVars, daemon, jobs, below, cmd, waited, wait_cnt, chid1,
                   latest_pgrp, wpid, status, handlers>>

StoreWpid(c) ==
    /\ pc[c] = "store"
    /\ wpid' = got[c]
    /\ got' = [got EXCEPT ![c] = 0]
    /\ Goto(c, "status")
    /\ UNCHANGED <<kernelVars, daemon, jobs, below, cmd, waited, wait_cnt, chid1,
                   latest_pgrp, status, handlers>>

\* waitpid fails because no child is left: the daemon exits.
WaitFails(c) ==
    /\ pc[c] = "wait"
    /\ waited[c] < wait_cnt
    /\ Unreaped = {}
    /\ daemon' = "exited"
    /\ UNCHANGED <<kernelVars, threadVars, globalVars>>

\* Mutant: the loop is lengthened whether the program was in the list or not.
ExitedUncounted(c) ==
    LET marked == update_jobstatus(jobs[c], wpid, "Done")
    IN  /\ status = "exited"
        /\ wait_cnt' = wait_cnt + 1
        /\ jobs' = [jobs EXCEPT ![c] = update_job_list(marked)]
        /\ daemon' = IF ScanFaults(marked) THEN "faulted" ELSE daemon
        /\ UNCHANGED <<kernelVars, below>>

Exited(c) ==
    LET marked == update_jobstatus(jobs[c], wpid, "Done")
    IN  /\ status = "exited"
        /\ wait_cnt' = IF EntriesOf(jobs[c], wpid) # {} THEN wait_cnt + 1 ELSE wait_cnt
        /\ jobs' = [jobs EXCEPT ![c] = update_job_list(marked)]
        /\ daemon' = IF ScanFaults(marked) THEN "faulted" ELSE daemon
        /\ UNCHANGED <<kernelVars, below>>

\* Mutant: a program that stops is not entered in the job list.
StoppedUnlisted(c) ==
    status = "stopped" /\ UNCHANGED <<kernelVars, daemon, jobs, below, wait_cnt>>

Stopped(c) ==
    /\ status = "stopped"
    /\ AddJob(c, wpid)
    /\ UNCHANGED <<kernelVars, wait_cnt>>

Continued(c) ==
    /\ status = "continued"
    /\ jobs' = [jobs EXCEPT ![c] = update_jobstatus(@, wpid, "Running")]
    /\ Continue(Addressed(wpid))
    /\ UNCHANGED <<daemon, below, wait_cnt>>

process_wait_status(c) ==
    /\ pc[c] = "status"
    /\ \/ Exited(c)
       \/ Stopped(c)
       \/ Continued(c)
       \/ status = "signaled" /\ UNCHANGED <<kernelVars, daemon, jobs, below, wait_cnt>>
    /\ waited' = [waited EXCEPT ![c] = @ + 1]
    /\ Goto(c, "wait")
    /\ UNCHANGED <<cmd, got, chid1, latest_pgrp, wpid, status, handlers>>

\* The loop is over: run_yash returns and the prompt is sent.
Prompt(c) ==
    /\ pc[c] = "wait"
    /\ waited[c] >= wait_cnt
    /\ Goto(c, "recv")
    /\ cmd' = [cmd EXCEPT ![c] = NoCmd]
    /\ waited' = [waited EXCEPT ![c] = 0]
    /\ UNCHANGED <<kernelVars, daemon, jobs, below, got, globalVars>>

-----------------------------------------------------------------------------
\* kill(0, sig) reaches the daemon itself: the default action of SIGINT ends
\* it, SIGTSTP is ignored in its orphaned group; sig_handler passes the signal
\* on to the group chid1, which is the daemon's own again while chid1 is 0.
SelfSignalled(sig) ==
    IF handlers THEN IF chid1 = 0 THEN "faulted" ELSE "up"
    ELSE IF sig = "SIGINT" THEN "exited" ELSE "up"

\* EchoServe on "CTL c", "CTL z" or another CTL: signal the newest group of
\* any client, leave the receive loop and return.
Ctl(c, sig) ==
    LET self == latest_pgrp = 0 /\ sig # "other"
        hit  == Members(latest_pgrp) \cup (IF self /\ handlers THEN Members(chid1) ELSE {})
    IN  /\ pc[c] = "recv"
        /\ Goto(c, "ended")
        /\ daemon' = IF self THEN SelfSignalled(sig) ELSE "up"
        /\ IF sig = "other" THEN UNCHANGED kernelVars ELSE Deliver(hit, sig)
        /\ UNCHANGED <<jobs, below, cmd, waited, got, globalVars>>

\* EchoServe when recv returns 0 or fails.
Disconnect(c) ==
    /\ pc[c] = "recv"
    /\ Goto(c, "ended")
    /\ UNCHANGED <<kernelVars, daemon, jobs, below, cmd, waited, got, globalVars>>

-----------------------------------------------------------------------------
ChildStep == \E p \in Pid : ProcStep(p) /\ UNCHANGED <<daemon, threadVars, globalVars>>

Shell(c) ==
    \/ bg_cmd_process(c) \/ fg_cmd_process(c) \/ fg_wait(c)
    \/ ForkFirst(c) \/ ForkSecond(c) \/ Latest(c) \/ Started(c)
    \/ BackgroundAdd(c) \/ BackgroundContinue(c)
    \/ WaitChild(c) \/ StoreWpid(c) \/ WaitFails(c)
    \/ process_wait_status(c) \/ Prompt(c)

Client(c) ==
    \/ \E k \in Cmds : Recv(c, k)
    \/ \E sig \in Ctls : Ctl(c, sig)
    \/ Disconnect(c)

Next ==
    /\ daemon = "up"
    /\ \/ \E c \in Clients : Shell(c) \/ Client(c)
       \/ ChildStep

Spec == Init /\ [][Next]_vars

\* A thread that can go on does; a program that is neither stopped nor killed
\* ends.  Clients owe nothing, and nothing stops or kills a program by duty.
Fairness ==
    /\ \A c \in Clients : WF_vars(daemon = "up" /\ Shell(c))
    /\ \A p \in Pid : WF_vars(daemon = "up" /\ ProcEnds(p)
                              /\ UNCHANGED <<daemon, threadVars, globalVars>>)

FairSpec == Spec /\ Fairness

-----------------------------------------------------------------------------
\* The shell as its code means it to be used: one client, which never asks for a
\* background start, never sends "c", and never interrupts.
Solo ==
    /\ \E c \in Clients : Clients = {c}
    /\ \A k \in Cmds : ~k.amp /\ k.head # "c"
    /\ "SIGINT" \notin Ctls

\* The children whose end or stop is still to be counted by a wait loop: those
\* that no entry of the job list speaks for.
Hidden(c) == Unreaped \ ListedPids(jobs[c])

\* The child that waitpid has returned and process_wait_status has not handled.
InFlight(c) == IF pc[c] = "store" THEN got[c] ELSE wpid
Handling(c) == pc[c] \in {"store", "status"}

\* The report in flight is not counted by the loop if it lengthens the loop.
Credit(c) == IF status = "exited" /\ InFlight(c) \in ListedPids(jobs[c]) THEN 0 ELSE 1

\* Whatever the loop has still to wait for is there.
Ledger(c) ==
    /\ pc[c] \in {"bg", "fg", "fgwait", "fork1"} => wait_cnt = 0 /\ waited[c] = 0
    /\ pc[c] \in {"fork2", "started", "sync", "wait"} =>
          wait_cnt - waited[c] <= Cardinality(Hidden(c))
    /\ Handling(c) =>
          wait_cnt - waited[c] - Credit(c) <= Cardinality(Hidden(c) \ {InFlight(c)})

\* What keeps the ledger: no child is listed or reported before it is forked, and no
\* line has an "&".
Books(c) ==
    /\ ListedPids(jobs[c]) \cap Unborn = {}
    /\ Handling(c) => InFlight(c) \in Pid \ Unborn
    /\ ~cmd[c].amp
    /\ pc[c] \notin {"bgadd", "bgcont"}

\* The inductive invariant behind WaitHasChild and DaemonStaysUp.
SoloInv ==
    /\ TypeOK
    /\ daemon # "exited"
    /\ \A c \in Clients : Books(c) /\ Ledger(c)

\* The wait loop never asks for a child that is not there, so the exit(EXIT_FAILURE)
\* after waitpid is not reached: a line waits for exactly the children it forked,
\* plus one for each listed job that ends meanwhile (process_cmd's wait loop and
\* the wait_cnt++ of process_wait_status).
WaitHasChild ==
    \A c \in Clients : daemon = "up" /\ pc[c] = "wait" /\ waited[c] < wait_cnt
                       => Unreaped # {}

\* Serving lines never ends the daemon.
DaemonStaysUp == daemon # "exited"

\* The number print_job shows for an entry is never smaller than its position:
\* the entries only move down, and keep the index they were added with.
IndexCoversPosition ==
    \A c \in Clients : \A i \in DOMAIN jobs[c] :
        jobs[c][i].pgid # 0 => jobs[c][i].index >= i

\* Between two lines no child is lost: each child the daemon has not waited for is
\* a stopped program with one entry in the job list, and the entry says "Stopped".
\* (The converse fails: fg on a "Done" entry may revive it.)
EveryChildListed ==
    \A c \in Clients : daemon = "up" /\ pc[c] = "recv" =>
        \A p \in Unreaped :
            /\ pstate[p] \in Halted
            /\ \E i \in DOMAIN jobs[c] :
                  EntriesOf(jobs[c], p) = {i} /\ jobs[c][i].status = "Stopped"

\* A job leaves the list only when its process has been waited for: update_job_list
\* never drops the entry of a program that is still there, whichever of fg, bg and
\* the wait loop marked an entry "Done", and in whatever order, as long as lines have one
\* program each.  (The entry of a stopped second program leads no group: waitpid in fg
\* fails, and the status it has not written may read as an end.)
NeverForgotten ==
    [][\A c \in Clients :
          \A pid \in Pid \cap ListedPids(jobs[c]) :
              pid \notin ListedPids(jobs'[c]) => pstate[pid] = "reaped"]_vars

\* The prompt after a line that starts programs means that none of them is still
\* at work: each has ended, or is stopped and in the job list.
Settled(c) ==
    pc[c] = "wait" /\ pc'[c] = "recv" /\ cmd[c].head = "prog" =>
        \A p \in Unreaped : p >= chid1 =>
            pstate[p] \in Zombie \cup Halted /\ p \in ListedPids(jobs[c])

PromptMeansSettled == [][\A c \in Clients : Settled(c)]_vars

\* Every line is answered with a prompt, unless its only program is a stopped second
\* one, for whose byte the parent waits (the read of sync_pipe).
PromptReturns ==
    \A c \in Clients : pc[c] \notin {"recv", "ended"} ~> pc[c] = "recv" \/ SyncHeld(c)
=============================================================================
