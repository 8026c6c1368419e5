---------------------------- MODULE MCPoojaShell ----------------------------
(***************************************************************************)
(* PoojaShell on small instances, with history variables that say what the *)
(* clients have done so far.                                               *)
(***************************************************************************)
EXTENDS PoojaShell, MCJobControl

VARIABLES
    carried,   \* a line has begun with count > 0
    users,     \* the clients that have sent a line
    modest,    \* no line had an "&" or was bg or fg, and no stopped program was killed
    torn       \* a thread has taken a step of its line amid another's add_to_joblist

history == <<carried, users, modest, torn>>
userVars == <<poojaVars, history>>

PoojaLines == {Prog, Pipe, ProgAmp, Fg, Bg, Empty,
               Line("c", FALSE, FALSE), Line("none", FALSE, FALSE)}

UserInit == PoojaInit /\ carried = FALSE /\ users = {} /\ modest = TRUE
            /\ torn = FALSE

UserLine(c, k) ==
    /\ daemon = "up" /\ NextLine(c, k)
    /\ carried' = (carried \/ jobs[c] # <<>>)
    /\ users' = users \cup {c}
    /\ modest' = (modest /\ ~k.amp /\ k.head \notin {"bg", "fg"})
    /\ UNCHANGED torn

\* The thread of d moves while another is between the writes of a job.
Amid(d) ==
    /\ pc[d] # "recv"
    /\ pc'[d] # pc[d] \/ adding'[d] # adding[d]
    /\ \E c \in Clients \ {d} : adding[c] # Idle

UserStep ==
    /\ PoojaStep
    /\ modest' = (modest /\ \A p \in Pid : ~(pstate[p] \in Halted /\ pstate'[p] \in Zombie))
    /\ torn' = (torn \/ \E d \in Clients : Amid(d))
    /\ UNCHANGED <<carried, users>>

UserNext == UserStep \/ \E c \in Clients, k \in Cmds : UserLine(c, k)

UserSpec == UserInit /\ [][UserNext]_userVars

\* Once two clients have used the server and a line has found old jobs, or the writes of
\* a job were torn apart, no property below speaks of what follows.
Undecided == Cardinality(users) <= 1 \/ ~(carried \/ torn)

-----------------------------------------------------------------------------
\* The server reads no entry that nobody wrote (strcmp in update_job_list, pooja/yash.c:233)
\* before a line has found jobs of an earlier one, or a thread has moved while another
\* was in add_to_joblist, between its count++ (:163) and its last write (:169): within a
\* line, whatever its programs do and however many lines run side by side, count covers
\* only entries that were filled.
FaultNeedsOldJobs ==
    daemon = "faulted" => carried \/ torn \/ \E c \in Clients : cmd[c].head = "none"

\* The wait loop of process_cmd has a child to wait for as long as one client alone
\* has used the server, in each line without "&", although the list forgets the jobs:
\* what is forgotten is not counted twice.
AloneWaits ==
    Cardinality(users) <= 1 /\ (\A c \in Clients : ~cmd[c].amp) => WaitHasChild

\* count is all that is left of the jobs of earlier lines, and it is right: between
\* two lines it is the number of stopped programs.
CountIsStopped ==
    /\ daemon = "up" /\ modest
    /\ Cardinality(users) <= 1
    /\ \A c \in Clients : pc[c] \in {"recv", "ended"}
    => \A c \in Clients :
           Len(jobs[c]) = Cardinality({p \in Unreaped : pstate[p] \in Halted})
=============================================================================
