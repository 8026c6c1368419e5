----------------------------- MODULE PoojaShell -----------------------------
(***************************************************************************)
(* The shell of the earlier server: pooja/yash.c, called by the threads of *)
(* pooja/server.c.  Its process_cmd starts and waits for the programs of a *)
(* line as daemon/server.c does, and those steps are the actions of module *)
(* JobControl.  What differs is the job list: there is one for all         *)
(* clients, process_cmd allocates it anew for every line, and count goes   *)
(* on from line to line.                                                   *)
(*                                                                         *)
(* jobs[c] is that one list for every c: jobs[c][i] is job_list[i] and its *)
(* length is count.  A new array is fresh memory, and nothing frees the    *)
(* old ones: its entries are Unwritten.  The server has no latest_pgrp;    *)
(* nothing here reads it.                                                  *)
(*                                                                         *)
(* No lock guards the list.  add_to_joblist counts an entry before it      *)
(* writes it, and what other threads do meanwhile comes between; a call of *)
(* update_jobstatus or update_job_list, with the kill, the waitpid or the  *)
(* other call it belongs to, is one step.                                  *)
(***************************************************************************)
EXTENDS JobControl

VARIABLES
    fg_job,   \* [Clients -> the pgid that fg_cmd_process has copied]
    adding    \* [Clients -> what add_to_joblist has still to write, and its sid]

Idle == [left |-> "nothing", sid |-> 0]
localVars == <<fg_job, adding>>

\* count is a global and starts at 0.
ASSUME PoojaShellAssumption == 0 \in InitialCounts

poojaVars == <<vars, localVars>>

PoojaTypeOK ==
    /\ TypeOK
    /\ fg_job \in [Clients -> Nat]
    /\ adding \in [Clients -> [left : {"nothing", "pgid", "status"}, sid : Nat]]

PoojaInit ==
    /\ Init
    /\ jobs = [c \in Clients |-> <<>>] /\ below = [c \in Clients |-> 0]
    /\ fg_job = [c \in Clients |-> 0]
    /\ adding = [c \in Clients |-> Idle]

\* A write to the list is one for every client.
SetList(list) == jobs' = [c \in Clients |-> list]

-----------------------------------------------------------------------------
\* job_list = malloc(...): what was written is out of reach, count stays.
NewList(list) == [i \in DOMAIN list |-> Unwritten]

\* process_cmd up to the test for the built-in commands.
NextLine(c, k) ==
    /\ pc[c] = "recv"
    /\ Room(k)
    /\ SetList(NewList(jobs[c]))
    /\ cmd' = [cmd EXCEPT ![c] = k]
    /\ waited' = [waited EXCEPT ![c] = 0]
    /\ wait_cnt' = 0
    /\ daemon' = CASE k.head = "c" -> "exited"
                   [] k.head = "none" -> "faulted"
                   [] OTHER -> "up"
    /\ Goto(c, CASE k.head \in {"bg", "fg"} -> k.head
                 [] k.head = "empty" -> "recv"
                 [] OTHER -> "fork1")
    /\ UNCHANGED <<kernelVars, below, localVars, got, chid1, latest_pgrp, wpid, status, handlers>>

bg(c) ==
    /\ pc[c] = "bg"
    /\ Goto(c, "fork1")
    /\ IF jobs[c] = <<>>
       THEN UNCHANGED <<kernelVars, jobs>>
       ELSE LET pid == Current(c).pgid
                sent == pid = 0 \/ Addressed(pid) # {}
            IN  /\ Continue(Addressed(pid))
                /\ SetList(IF sent THEN update_jobstatus(jobs[c], pid, "Running") ELSE jobs[c])
    /\ UNCHANGED <<daemon, below, localVars, cmd, waited, got, globalVars>>

\* fg copies the last entry before it continues the group and waits for it.
fg(c) ==
    /\ fg_cmd_process(c)
    /\ fg_job' = IF jobs[c] = <<>> THEN fg_job ELSE [fg_job EXCEPT ![c] = Current(c).pgid]
    /\ UNCHANGED adding

fg_waitpid(c) ==
    /\ pc[c] = "fgwait"
    /\ Goto(c, "fork2")
    /\ \/ \E p \in Members(fg_job[c]) :
             /\ Report(p) \in Zombie \cup {"stopped"}
             /\ Collect(p)
             /\ SetList(FgStatus(jobs[c], fg_job[c], Report(p)))
       \/ /\ Members(fg_job[c]) = {}
          /\ \E s \in Zombie \cup {"stopped", "none"} :
                SetList(FgStatus(jobs[c], fg_job[c], s))
          /\ UNCHANGED kernelVars
    /\ fg_job' = [fg_job EXCEPT ![c] = 0]
    /\ UNCHANGED <<daemon, below, adding, cmd, waited, got, globalVars>>

-----------------------------------------------------------------------------
\* The steps that leave the job list alone: see JobControl.
StartPrograms(c) ==
    /\ ForkFirst(c) \/ ForkSecond(c) \/ Latest(c) \/ Started(c)
    /\ UNCHANGED localVars
WaitPrograms(c) ==
    /\ WaitChild(c) \/ StoreWpid(c) \/ WaitFails(c) \/ Prompt(c)
    /\ UNCHANGED localVars
Leave(c) == Disconnect(c) /\ UNCHANGED localVars

\* recv fails for one client: exit(-1).
RecvFails(c) ==
    /\ pc[c] = "recv"
    /\ daemon' = "exited"
    /\ UNCHANGED <<kernelVars, threadVars, globalVars, localVars>>

-----------------------------------------------------------------------------
(* The steps that change it.                                               *)

\* Mutants: count is raised twice, so that an entry nobody writes lies between; count is
\* only raised for the first entry.
CountEntryTwice(c, pid) ==
    /\ SetList(Append(Append(jobs[c], Unwritten), Unwritten))
    /\ daemon' = IF AddFaults(jobs[c]) THEN "faulted" ELSE daemon
    /\ adding' = [adding EXCEPT ![c] = [left |-> "pgid", sid |-> pid]]
CountEntryFirst(c, pid) ==
    /\ SetList(IF jobs[c] = <<>> THEN <<Unwritten>> ELSE jobs[c])
    /\ daemon' = IF AddFaults(jobs[c]) THEN "faulted" ELSE daemon
    /\ adding' = [adding EXCEPT ![c] = [left |-> "pgid", sid |-> pid]]

\* add_to_joblist: count goes up first; pgid and index, and after them the status, are
\* written to the entry that count names by then (slot 0 is not in the list).
CountEntry(c, pid) ==
    /\ SetList(Append(jobs[c], Unwritten))
    /\ daemon' = IF AddFaults(jobs[c]) THEN "faulted" ELSE daemon
    /\ adding' = [adding EXCEPT ![c] = [left |-> "pgid", sid |-> pid]]

PutPgid(list, sid) ==
    LET n == Len(list)
    IN  IF n = 0 THEN list ELSE [list EXCEPT ![n].pgid = sid, ![n].index = n]
PutStatus(list) ==
    LET n == Len(list)
    IN  IF n = 0 THEN list ELSE [list EXCEPT ![n].status = "Stopped"]

WritePgid(c) ==
    /\ adding[c].left = "pgid"
    /\ SetList(PutPgid(jobs[c], adding[c].sid))
    /\ adding' = [adding EXCEPT ![c].left = "status"]
    /\ UNCHANGED <<kernelVars, daemon, below, pc, cmd, waited, got, globalVars, fg_job>>

\* process_wait_status returns to the wait loop.
Handled(c) ==
    /\ waited' = [waited EXCEPT ![c] = @ + 1]
    /\ Goto(c, "wait")

WriteStatus(c) ==
    /\ adding[c].left = "status"
    /\ SetList(PutStatus(jobs[c]))
    /\ adding' = [adding EXCEPT ![c] = Idle]
    /\ \/ pc[c] = "bgadd" /\ Goto(c, "bgcont") /\ UNCHANGED waited
       \/ pc[c] = "status" /\ Handled(c)
    /\ UNCHANGED <<kernelVars, daemon, below, cmd, got, globalVars, fg_job>>

is_background(c) ==
    /\ \/ /\ pc[c] = "bgadd" /\ adding[c] = Idle
          /\ CountEntry(c, chid1)
          /\ UNCHANGED <<kernelVars, pc>>
       \/ /\ pc[c] = "bgcont"
          /\ Continue(Members(chid1))
          /\ SetList(update_jobstatus(jobs[c], chid1, "Running"))
          /\ Goto(c, "wait")
          /\ UNCHANGED <<daemon, adding>>
    /\ UNCHANGED <<below, fg_job, cmd, waited, got, globalVars>>

\* Mutant: the loop is lengthened whether the program was in the list or not.
WifExitedUncounted(c) ==
    LET marked == update_jobstatus(jobs[c], wpid, "Done")
    IN  /\ status = "exited"
        /\ wait_cnt' = wait_cnt + 1
        /\ SetList(update_job_list(marked))
        /\ daemon' = IF ScanFaults(marked) THEN "faulted" ELSE daemon
        /\ UNCHANGED kernelVars

WifExited(c) ==
    LET marked == update_jobstatus(jobs[c], wpid, "Done")
    IN  /\ status = "exited"
        /\ wait_cnt' = IF EntriesOf(jobs[c], wpid) # {} THEN wait_cnt + 1 ELSE wait_cnt
        /\ SetList(update_job_list(marked))
        /\ daemon' = IF ScanFaults(marked) THEN "faulted" ELSE daemon
        /\ UNCHANGED kernelVars

WifStopped(c) ==
    /\ status = "stopped"
    /\ CountEntry(c, wpid)
    /\ UNCHANGED <<kernelVars, wait_cnt>>

WifContinued(c) ==
    /\ status = "continued"
    /\ SetList(update_jobstatus(jobs[c], wpid, "Running"))
    /\ Continue(Addressed(wpid))
    /\ UNCHANGED <<daemon, wait_cnt>>

wait_status(c) ==
    /\ pc[c] = "status" /\ adding[c] = Idle
    /\ \/ WifStopped(c) /\ UNCHANGED <<pc, waited>>
       \/ /\ \/ WifExited(c)
             \/ WifContinued(c)
             \/ status = "signaled" /\ UNCHANGED <<kernelVars, daemon, jobs, wait_cnt>>
          /\ Handled(c)
          /\ UNCHANGED adding
    /\ UNCHANGED <<below, fg_job, cmd, got, chid1, latest_pgrp, wpid, status, handlers>>

-----------------------------------------------------------------------------
process_line(c) ==
    \/ bg(c) \/ fg(c) \/ fg_waitpid(c)
    \/ StartPrograms(c) \/ is_background(c) \/ WritePgid(c) \/ WriteStatus(c)
    \/ WaitPrograms(c) \/ wait_status(c)

PoojaStep ==
    /\ daemon = "up"
    /\ \/ \E c \in Clients : process_line(c) \/ Leave(c) \/ RecvFails(c)
       \/ ChildStep /\ UNCHANGED localVars

PoojaNext ==
    \/ \E c \in Clients, k \in Cmds : daemon = "up" /\ NextLine(c, k)
    \/ PoojaStep

PoojaSpec == PoojaInit /\ [][PoojaNext]_poojaVars
=============================================================================
