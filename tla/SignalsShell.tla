---------------------------- MODULE SignalsShell ----------------------------
(***************************************************************************)
(* signals/server.c: process_cmd, its helpers and the job list of each     *)
(* client are those of daemon/server.c, and so are their actions here      *)
(* (module JobControl).  What differs is the CTL message: it signals the   *)
(* last job of its sender, not the newest line of all clients, and is      *)
(* answered with a prompt like any other message.                          *)
(*                                                                         *)
(* The server has no latest_pgrp; nothing here reads it.                   *)
(***************************************************************************)
EXTENDS JobControl

\* Mutant: the group of the line that was started last, as in daemon/server.c.
TargetNewest(c) == chid1

\* job_list[job_count].pgid; without a job this is slot 0.
Target(c) == IF jobs[c] = <<>> THEN below[c] ELSE Current(c).pgid

\* EchoServe on "CTL C" (SIGINT), "CTL Z" (SIGTSTP) or anything else.  A negative
\* job_count makes the first two read in front of the array.
Message(c, sig) ==
    LET outside == below[c] < 0 /\ sig # "other"
        self == Target(c) = 0 /\ sig # "other"
        hit  == Members(Target(c)) \cup (IF self /\ handlers THEN Members(chid1) ELSE {})
    IN  /\ pc[c] = "recv"
        /\ daemon' = CASE outside -> "faulted"
                      [] self -> SelfSignalled(sig)
                      [] OTHER -> "up"
        /\ IF sig = "other" \/ outside THEN UNCHANGED kernelVars ELSE Deliver(hit, sig)
        /\ UNCHANGED <<threadVars, globalVars>>

EchoServe(c) ==
    \/ \E k \in Cmds : Recv(c, k)
    \/ \E sig \in Ctls : Message(c, sig)
    \/ Disconnect(c)

\* process_cmd and its helpers, part by part.
BuiltIn(c) == bg_cmd_process(c) \/ fg_cmd_process(c) \/ fg_wait(c)
Programs(c) == ForkFirst(c) \/ ForkSecond(c) \/ Latest(c) \/ Started(c)
Background(c) == BackgroundAdd(c) \/ BackgroundContinue(c)
WaitLoop(c) == WaitChild(c) \/ StoreWpid(c) \/ WaitFails(c) \/ Prompt(c)

process_cmd(c) ==
    BuiltIn(c) \/ Programs(c) \/ Background(c) \/ WaitLoop(c) \/ process_wait_status(c)

SignalsNext ==
    /\ daemon = "up"
    /\ \/ \E c \in Clients : process_cmd(c) \/ EchoServe(c)
       \/ ChildStep

SignalsSpec == Init /\ [][SignalsNext]_vars
=============================================================================
