------------------------------- MODULE Kernel -------------------------------
(***************************************************************************)
(* The part of the operating system that the shell of yashd relies on: the *)
(* children the daemon has forked, their process groups, and what waitpid  *)
(* still has to report about each of them.  Nothing here is code of the    *)
(* repository; it is modelled from how process_cmd and its helpers use     *)
(* fork, setpgid, kill and waitpid.                                        *)
(*                                                                         *)
(* All threads of the daemon share these children: a waitpid(-1) of one    *)
(* thread may report the child that another thread has forked.             *)
(***************************************************************************)
EXTENDS Naturals

CONSTANTS
    MaxPid,   \* bound: how many children a behaviour may fork
    Signals   \* what the outside world may do to a child, beside letting it run

ASSUME KernelAssumption ==
    /\ MaxPid \in Nat
    /\ Signals \subseteq {"kill", "stop", "killStopped"}

VARIABLES
    pstate,   \* [Pid -> where the process is in its life]
    pgrp,     \* [Pid -> its process group; 0 is the daemon's own group]
    pevent    \* [Pid -> the stop or continue that waitpid has not reported yet]

kernelVars == <<pstate, pgrp, pevent>>

Pid == 1 .. MaxPid
Zombie == {"exited", "signaled"}

\* A SIGINT that finds a process stopped waits for its SIGCONT ("interrupted"), and
\* ends it as soon as it runs again ("dying").
Halted == {"stopped", "interrupted"}
Alive == {"running", "dying"} \cup Halted
ProcState == {"unborn", "reaped"} \cup Alive \cup Zombie
Event == {"none", "stopped", "continued"}

KernelTypeOK ==
    /\ pstate \in [Pid -> ProcState]
    /\ pgrp \in [Pid -> 0 .. MaxPid]
    /\ pevent \in [Pid -> Event]

KernelInit ==
    /\ pstate = [p \in Pid |-> "unborn"]
    /\ pgrp = [p \in Pid |-> 0]
    /\ pevent = [p \in Pid |-> "none"]

-----------------------------------------------------------------------------
Unborn == {p \in Pid : pstate[p] = "unborn"}
Unreaped == {p \in Pid : pstate[p] \notin {"unborn", "reaped"}}
Members(g) == {p \in Unreaped : pgrp[p] = g}

\* The processes that kill(pid, ...) addresses when pid is positive or zero.
Addressed(pid) == IF pid = 0 THEN Members(0) ELSE {pid} \cap Unreaped

\* fork, and the setpgid that the child calls before anything else.
Fork(p, g, s) ==
    /\ p \in Unborn
    /\ pstate' = [pstate EXCEPT ![p] = s]
    /\ pgrp' = [pgrp EXCEPT ![p] = g]
    /\ pevent' = pevent

\* SIGCONT: only a stopped process notices it.
Continue(S) ==
    LET woken == {p \in S : pstate[p] \in Halted}
    IN  /\ pstate' = [p \in Pid |->
              IF p \notin woken THEN pstate[p]
              ELSE IF pstate[p] = "stopped" THEN "running" ELSE "dying"]
        /\ pevent' = [p \in Pid |-> IF p \in woken THEN "continued" ELSE pevent[p]]
        /\ UNCHANGED pgrp

\* SIGTSTP or SIGINT with its default action, for the members of S.  The daemon's own
\* group is orphaned: its members are not stopped by SIGTSTP.
Suspend(S) ==
    LET hit == {p \in S : pstate[p] = "running" /\ pgrp[p] # 0}
    IN  /\ pstate' = [p \in Pid |-> IF p \in hit THEN "stopped" ELSE pstate[p]]
        /\ pevent' = [p \in Pid |-> IF p \in hit THEN "stopped" ELSE pevent[p]]
        /\ UNCHANGED pgrp

Interrupt(S) ==
    LET hit == {p \in S : pstate[p] = "running"}
    IN  /\ pstate' = [p \in Pid |->
              IF p \in hit THEN "signaled"
              ELSE IF p \in S /\ pstate[p] = "stopped" THEN "interrupted" ELSE pstate[p]]
        /\ pevent' = [p \in Pid |-> IF p \in hit THEN "none" ELSE pevent[p]]
        /\ UNCHANGED pgrp

Deliver(S, sig) == IF sig = "SIGINT" THEN Interrupt(S) ELSE Suspend(S)

\* What waitpid reports about p: its end, or else its last stop or continue.
Report(p) == IF pstate[p] \in Zombie THEN pstate[p] ELSE pevent[p]

\* p as waitpid leaves it: a zombie is reaped, a stop or continue reported once.
Collect(p) ==
    /\ pstate' = [pstate EXCEPT ![p] = IF @ \in Zombie THEN "reaped" ELSE @]
    /\ pevent' = [pevent EXCEPT ![p] = "none"]
    /\ UNCHANGED pgrp

-----------------------------------------------------------------------------
\* A running child ends, or is killed or stopped from outside.
ProcExit(p) ==
    /\ pstate[p] = "running"
    /\ pstate' = [pstate EXCEPT ![p] = "exited"]
    /\ pevent' = [pevent EXCEPT ![p] = "none"]
    /\ UNCHANGED pgrp

ProcKilled(p) ==
    /\ \/ pstate[p] = "running" /\ "kill" \in Signals
       \/ pstate[p] \in Halted /\ "killStopped" \in Signals
       \/ pstate[p] = "dying"
    /\ pstate' = [pstate EXCEPT ![p] = "signaled"]
    /\ pevent' = [pevent EXCEPT ![p] = "none"]
    /\ UNCHANGED pgrp

ProcStopped(p) ==
    /\ pstate[p] = "running"
    /\ "stop" \in Signals
    /\ pstate' = [pstate EXCEPT ![p] = "stopped"]
    /\ pevent' = [pevent EXCEPT ![p] = "stopped"]
    /\ UNCHANGED pgrp

\* What becomes of a child that runs on undisturbed.
ProcEnds(p) == ProcExit(p) \/ (pstate[p] = "dying" /\ ProcKilled(p))

ProcStep(p) == ProcExit(p) \/ ProcKilled(p) \/ ProcStopped(p)
=============================================================================
