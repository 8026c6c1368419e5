--------------------------- MODULE MCSignalsShell ---------------------------
(***************************************************************************)
(* SignalsShell on small instances, with history variables that say whose  *)
(* program a child is and how the clients have used the server so far.     *)
(***************************************************************************)
EXTENDS SignalsShell, MCJobControl

VARIABLES
    owner,    \* [Pid -> the client whose line forked the child, or none]
    apart,    \* no line has come, an empty one included, while another was at work
    simple,   \* no "&", no bg, and fg only for a job of one program
    tidy      \* none of the three things that Untidy names

mcVars == <<vars, owner, apart, simple, tidy>>

Lines == {Prog, Pipe, ProgAmp, Fg, FgStale, Bg, Empty}

AtWork == {c \in Clients : pc[c] \notin {"recv", "ended"}}
Born(p) == pstate[p] = "unborn" /\ pstate'[p] # "unborn"
OfOne(c) == Cardinality(Members(Target(c))) <= 1

\* An empty line is never at work, but resets wait_cnt for whoever is.
EmptyAmid == AtWork # {} /\ \E c \in Clients, k \in Cmds : k.head = "empty" /\ Recv(c, k)

\* fg goes on with a second program that an earlier line has left on the stack; a stopped
\* program is killed from outside.  (The third is a job_count above 0 at the start.)
Untidy ==
    \/ \E c \in Clients : cmd'[c].head = "fg" /\ cmd'[c].pipe
    \/ \E p \in Pid : pstate[p] \in Halted /\ pstate'[p] \in Zombie

Watch ==
    /\ owner' = [p \in Pid |->
          IF Born(p) THEN {c \in Clients : pc'[c] # pc[c]} ELSE owner[p]]
    /\ apart' = (apart /\ Cardinality(AtWork') <= 1 /\ ~EmptyAmid)
    /\ simple' = (simple /\ \A c \in Clients : /\ ~cmd'[c].amp /\ cmd'[c].head # "bg"
                                               /\ pc[c] = "fg" => OfOne(c))
    /\ tidy' = (tidy /\ ~Untidy)

MCInit ==
    /\ Init
    /\ owner = [p \in Pid |-> {}]
    /\ apart = TRUE /\ simple = TRUE
    /\ tidy = (\A c \in Clients : jobs[c] = <<>>)

MCNext == SignalsNext /\ Watch
MCSpec == MCInit /\ [][MCNext]_mcVars

\* Both properties say nothing of what follows once this is false.
Orderly == apart /\ simple

-----------------------------------------------------------------------------
\* A CTL message of a client with jobs reaches only programs of that client's own
\* lines (signals/server.c:835 and :838, kill of its last job), as long as
\*   - no two clients' lines have overlapped, empty lines included,
\*   - nobody has used "&" or bg, fg for a pipeline, or fg that went on with a second
\*     program left on the stack,
\*   - no stopped program was killed from outside, and
\*   - no client's uninitialized job_count was above 0.
\* After each of these a report may be left to another client's waitpid, which enters a
\* program that has stopped in the wrong list, or the last job is one nobody entered.
CtlReachesOwn ==
    [][Orderly /\ tidy =>
          \A c \in Clients, sig \in Ctls : Message(c, sig) /\ jobs[c] # <<>> =>
              \A p \in Pid : pstate'[p] # pstate[p] => owner[p] = {c}]_mcVars

\* The wait loop of process_cmd has a child to wait for as long as no two clients' lines
\* have overlapped, empty lines included, and nobody has used "&" or bg, or fg for a
\* pipeline, whatever the clients interrupt and stop between their lines: a stopped
\* program that an interrupt ends later is waited for exactly once.
ApartWaits == Orderly => WaitHasChild
=============================================================================
