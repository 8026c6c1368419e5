----------------------------- MODULE MCJobLists -----------------------------
(***************************************************************************)
(* JobControl with a history variable: whether the clients have kept so    *)
(* far to the lines for which the job list and the children agree.         *)
(***************************************************************************)
EXTENDS MCJobControl

VARIABLE plain     \* only programs and fg, and no stopped program was killed

Kept ==
    /\ \A c \in Clients : cmd'[c] \in {NoCmd, Prog, Fg}
    /\ \A p \in Pid : ~(pstate[p] \in Halted /\ pstate'[p] \in Zombie)

ListsInit == Init /\ plain = TRUE
ListsNext == Next /\ plain' = (plain /\ Kept)
ListsSpec == ListsInit /\ [][ListsNext]_<<vars, plain>>

-----------------------------------------------------------------------------
\* Between two lines no child is lost (update_job_list, add_to_joblist and the status
\* that fg writes): see EveryChildListed.  "&" and bg are left out, each of which
\* lengthens the wait loop by one report too many or too few.
PlainChildrenListed == plain => EveryChildListed

\* The list grows with the programs only, not with what happens to them: no program
\* takes a second slot of the malloc'ed array (add_to_joblist, which does not look
\* whether there is one left), however often it stops and is brought back by fg.
PlainSlotPerProgram ==
    plain => \A c \in Clients : Cardinality(ListedPids(jobs[c])) = Len(jobs[c])

\* The prompt of process_cmd's wait loop means that the line is over, whatever has
\* stopped, was killed or brought back by fg before: see PromptMeansSettled.
PlainPromptMeansSettled ==
    [][plain' => \A c \in Clients : Settled(c)]_<<vars, plain>>
=============================================================================
