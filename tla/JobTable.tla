------------------------------ MODULE JobTable ------------------------------
(***************************************************************************)
(* The job list of one client (struct job, ClInfo.job_list and job_count   *)
(* of daemon/server.c) as a sequence: entry i is job_list[i], the length   *)
(* is job_count, and job_list[0] is never used.                            *)
(***************************************************************************)
EXTENDS Naturals, Sequences

CONSTANT MAX_CMD_SIZE   \* slots of the malloc'ed array

ASSUME JobTableAssumption == MAX_CMD_SIZE \in Nat \ {0}

JobStatus == {"Stopped", "Running", "Done", "NULL"}
Job == [pgid : Nat, index : Nat, status : JobStatus]

\* An entry of the malloc'ed array that no code has written.
Unwritten == [pgid |-> 0, index |-> 0, status |-> "NULL"]

FirstOf(S) == CHOOSE i \in S : \A j \in S : i <= j
EntriesOf(list, pid) == {i \in DOMAIN list : list[i].pgid = pid}
DoneEntries(list) == {i \in DOMAIN list : list[i].status = "Done"}
ListedPids(list) == {list[i].pgid : i \in DOMAIN list}

\* Mutant: the index is the count before the addition.
add_to_joblist_early(list, pid) ==
    Append(list, [pgid |-> pid, index |-> Len(list), status |-> "Stopped"])
add_to_joblist(list, pid) ==
    Append(list, [pgid |-> pid, index |-> Len(list) + 1, status |-> "Stopped"])

\* Slot MAX_CMD_SIZE is past the end of the array.
AddFaults(list) == Len(list) + 1 >= MAX_CMD_SIZE

\* The first entry of pid gets the status; a later duplicate keeps its own.
update_jobstatus(list, pid, stat) ==
    IF EntriesOf(list, pid) = {}
    THEN list
    ELSE [list EXCEPT ![FirstOf(EntriesOf(list, pid))].status = stat]

DropEntry(list, i) ==
    [k \in 1 .. Len(list) - 1 |-> IF k < i THEN list[k] ELSE list[k + 1]]

\* Mutant: the last entry leaves instead.
update_job_list_last(list) ==
    IF DoneEntries(list) = {} THEN list ELSE SubSeq(list, 1, Len(list) - 1)

\* One "Done" entry leaves, the later ones move down and keep their index.
update_job_list(list) ==
    IF DoneEntries(list) = {} THEN list
    ELSE DropEntry(list, FirstOf(DoneEntries(list)))

\* update_job_list compares the statuses in order up to the first "Done": an
\* entry that was never written makes it dereference a null pointer.
ScanFaults(list) ==
    \E i \in DOMAIN list :
        /\ list[i].status = "NULL"
        /\ \A j \in DoneEntries(list) : i < j
=============================================================================
