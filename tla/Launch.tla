------------------------------- MODULE Launch -------------------------------
(***************************************************************************)
(* How process_cmd (daemon/server.c) starts the one or two programs of a   *)
(* line: the pipe pfd between them, the pipe sync_pipe on which the first  *)
(* child tells the parent that it is about to execute its program, and the *)
(* process group that both join.  JobControl takes all of this as the      *)
(* steps ForkFirst, ForkSecond and Started.                                *)
(*                                                                         *)
(* "P" is the thread of the daemon, "C1" and "C2" are the children it      *)
(* forks.  A child whose execvp fails goes on in the code of the parent:   *)
(* "G2" is the second child that such a C1 forks.  A fork of the daemon    *)
(* may fail, which nobody looks at: the line goes on without the child and *)
(* waits for it all the same.                                              *)
(***************************************************************************)
EXTENDS Naturals, FiniteSets

CONSTANT Lines   \* the lines: what becomes of their first and second program

\* "program" and "free" end by themselves, "reader" reads its input to the end;
\* "jobs" is the built-in, "badredir" a line that starts with "<" or ">", and
\* "badexec" a program that does not exist.
FirstKind == {"program", "jobs", "badredir", "badexec"}
SecondKind == {"none", "reader", "free", "badredir", "badexec"}

ASSUME LaunchAssumption == Lines \subseteq [first : FirstKind, second : SecondKind]

Proc == {"P", "C1", "C2", "G2"}

\* The ends of pfd and sync_pipe that a process may hold: the four descriptors, and
\* its standard input or output when that is a copy of an end of pfd.
End == {"pfd0", "pfd1", "sync0", "sync1", "stdin", "stdout"}

VARIABLES
    line,     \* the line
    pc,       \* [Proc -> where the process is]
    ends,     \* [Proc -> the ends it holds]
    inJob,    \* the processes in the group chid1; the others are in the daemon's
    bytes,    \* bytes in sync_pipe
    answer,   \* what the parent's read of sync_pipe returned
    waits,    \* reports the parent has still to wait for
    failed    \* history: the children whose fork has failed

vars == <<line, pc, ends, inJob, bytes, answer, waits, failed>>

PC == {"unborn", "fork1", "fork2", "closesync", "read", "close", "wait", "prompt",
       "setpgid", "redirect", "plumb", "sync", "exec", "running", "fallen",
       "fallenRead", "fallenWait", "zombie", "reaped", "exited"}

TypeOK ==
    /\ line \in [first : FirstKind, second : SecondKind]
    /\ pc \in [Proc -> PC]
    /\ ends \in [Proc -> SUBSET End]
    /\ inJob \subseteq Proc
    /\ bytes \in 0 .. 1
    /\ answer \in {"none", "byte", "eof"}
    /\ waits \in 0 .. 2
    /\ failed \subseteq Proc

Init ==
    /\ line \in Lines
    /\ pc = [p \in Proc |-> IF p = "P" THEN "fork1" ELSE "unborn"]
    /\ ends = [p \in Proc |-> IF p = "P" THEN {"pfd0", "pfd1", "sync0", "sync1"} ELSE {}]
    /\ inJob = {}
    /\ bytes = 0
    /\ answer = "none"
    /\ waits = 0
    /\ failed = {}

Piped == line.second # "none"
PfdWriters == {p \in Proc : ends[p] \cap {"pfd1", "stdout"} # {}}
SyncWriters == {p \in Proc : "sync1" \in ends[p]}

Goto(p, l) == pc' = [pc EXCEPT ![p] = l]
Closes(p, S) == ends' = [ends EXCEPT ![p] = @ \ S]

\* fork: the child q starts with the descriptors of p, p goes on at l.
ForkTo(p, l, q) ==
    /\ pc' = [pc EXCEPT ![p] = l, ![q] = "setpgid"]
    /\ ends' = [ends EXCEPT ![q] = ends[p]]

\* fork fails, and the result is taken for a process id.
Fails(q) == failed' = failed \cup {q}

\* The process ends: the kernel closes what it holds.
Exit(p) ==
    /\ Goto(p, "zombie")
    /\ Closes(p, End)

-----------------------------------------------------------------------------
\* The parent.
ForkFirst ==
    /\ pc["P"] = "fork1"
    /\ waits' = waits + 1
    /\ \/ ForkTo("P", "fork2", "C1") /\ UNCHANGED failed
       \/ Goto("P", "fork2") /\ Fails("C1") /\ UNCHANGED ends
    /\ UNCHANGED <<line, inJob, bytes, answer>>

\* Mutant: wait_cnt++ stands before the test for a second program.
CountSecondAlways == waits' = waits + 1

CountSecond == waits' = IF Piped THEN waits + 1 ELSE waits

ForkSecond ==
    /\ pc["P"] = "fork2"
    /\ CountSecond
    /\ \/ Piped /\ ForkTo("P", "closesync", "C2") /\ UNCHANGED failed
       \/ Piped /\ Goto("P", "closesync") /\ Fails("C2") /\ UNCHANGED ends
       \/ ~Piped /\ Goto("P", "closesync") /\ UNCHANGED <<ends, failed>>
    /\ UNCHANGED <<line, inJob, bytes, answer>>

CloseSync ==
    /\ pc["P"] = "closesync"
    /\ Closes("P", {"sync1"})
    /\ Goto("P", "read")
    /\ UNCHANGED <<line, inJob, bytes, answer, waits, failed>>

\* Mutant: the parent goes on without reading.
ReadNothing(p) == bytes' = bytes

\* read(sync_pipe[0]): a byte, or end of file once nobody can write any more.
SyncRead(p) ==
    \/ bytes > 0 /\ bytes' = bytes - 1
    \/ bytes = 0 /\ SyncWriters = {} /\ bytes' = bytes

ReadSync ==
    /\ pc["P"] = "read"
    /\ SyncRead("P")
    /\ answer' = IF bytes > 0 THEN "byte" ELSE "eof"
    /\ Goto("P", "close")
    /\ UNCHANGED <<line, ends, inJob, waits, failed>>

ClosePipes ==
    /\ pc["P"] = "close"
    /\ Closes("P", {"sync0", "pfd0", "pfd1"})
    /\ Goto("P", "wait")
    /\ UNCHANGED <<line, inJob, bytes, answer, waits, failed>>

Reap(q) ==
    /\ pc["P"] = "wait"
    /\ waits > 0
    /\ pc[q] = "zombie"
    /\ Goto(q, "reaped")
    /\ waits' = waits - 1
    /\ UNCHANGED <<line, ends, inJob, bytes, answer, failed>>

Prompt ==
    /\ pc["P"] = "wait"
    /\ waits = 0
    /\ Goto("P", "prompt")
    /\ UNCHANGED <<line, ends, inJob, bytes, answer, waits, failed>>

\* waitpid fails because no child is left: exit(EXIT_FAILURE).
WaitFails ==
    /\ pc["P"] = "wait"
    /\ waits > 0
    /\ \A q \in {"C1", "C2"} : pc[q] \in {"unborn", "reaped"}
    /\ Goto("P", "exited")
    /\ UNCHANGED <<line, ends, inJob, bytes, answer, waits, failed>>

-----------------------------------------------------------------------------
\* The group chid1 exists while a member of it has not been waited for.
GroupExists == \E q \in inJob : pc[q] \notin {"unborn", "reaped"}

\* setpgid(0, 0) of the first child; setpgid(0, chid1) of a second one, whose
\* failure nobody looks at.
SetGroup(p) ==
    /\ pc[p] = "setpgid"
    /\ inJob' = IF p = "C1" \/ GroupExists THEN inJob \cup {p} ELSE inJob
    /\ Goto(p, IF p = "C1" THEN "redirect" ELSE "plumb")
    /\ UNCHANGED <<line, ends, bytes, answer, waits, failed>>

\* The first child redirects before it is connected to the pipe, and ends here if
\* the line is bad or the built-in "jobs": it never writes to sync_pipe then.
RedirectFirst ==
    /\ pc["C1"] = "redirect"
    /\ IF line.first \in {"jobs", "badredir"}
       THEN Exit("C1")
       ELSE Goto("C1", "plumb") /\ UNCHANGED ends
    /\ UNCHANGED <<line, inJob, bytes, answer, waits, failed>>

\* Mutant: the first child closes the pipe it should write to.
FirstEndsNone(S) == S \ {"pfd0", "pfd1"}

FirstEnds(S) == IF Piped THEN (S \ {"pfd0"}) \cup {"stdout"} ELSE S \ {"pfd1"}

PlumbFirst ==
    /\ pc["C1"] = "plumb"
    /\ ends' = [ends EXCEPT !["C1"] = FirstEnds(@)]
    /\ Goto("C1", "sync")
    /\ UNCHANGED <<line, inJob, bytes, answer, waits, failed>>

\* Mutant: no byte is written.
SyncBytesNone == 0

SyncBytes == 1

SyncWrite ==
    /\ pc["C1"] = "sync"
    /\ bytes' = bytes + SyncBytes
    /\ Closes("C1", {"sync0", "sync1"})
    /\ Goto("C1", "exec")
    /\ UNCHANGED <<line, inJob, answer, waits, failed>>

\* Mutant: the second child keeps the end of pfd that is written to.
SecondEndsAll(S) == IF "pfd0" \in S THEN S \cup {"stdin"} ELSE S

\* The second child: its standard input is the pipe if it still holds pfd[0].
SecondEnds(S) == (S \ {"pfd1"}) \cup (IF "pfd0" \in S THEN {"stdin"} ELSE {})

PlumbSecond(p) ==
    /\ p # "C1"
    /\ pc[p] = "plumb"
    /\ ends' = [ends EXCEPT ![p] = SecondEnds(@)]
    /\ Goto(p, "redirect")
    /\ UNCHANGED <<line, inJob, bytes, answer, waits, failed>>

RedirectSecond(p) ==
    /\ p # "C1"
    /\ pc[p] = "redirect"
    /\ IF line.second = "badredir"
       THEN Exit(p)
       ELSE Goto(p, "exec") /\ UNCHANGED ends
    /\ UNCHANGED <<line, inJob, bytes, answer, waits, failed>>

Exec(p) ==
    /\ pc[p] = "exec"
    /\ LET kind == IF p = "C1" THEN line.first ELSE line.second
       IN  Goto(p, IF kind = "badexec" THEN "fallen" ELSE "running")
    /\ UNCHANGED <<line, ends, inJob, bytes, answer, waits, failed>>

\* A reader ends at the end of its input, if that is the pipe.
Finish(p) ==
    /\ pc[p] = "running"
    /\ p # "C1" /\ line.second = "reader" /\ "stdin" \in ends[p] => PfdWriters = {}
    /\ Exit(p)
    /\ UNCHANGED <<line, inJob, bytes, answer, waits, failed>>

-----------------------------------------------------------------------------
\* After a failed execvp the first child forks a second one like the parent did ...
Fall(p) ==
    /\ pc[p] = "fallen"
    /\ \/ p = "C1" /\ Piped /\ ForkTo("C1", "fallenRead", "G2") /\ UNCHANGED failed
       \/ /\ Goto(p, "fallenRead")
          /\ Closes(p, {"sync1"})
          /\ IF p = "C1" /\ Piped THEN Fails("G2") ELSE UNCHANGED failed
    /\ UNCHANGED <<line, inJob, bytes, answer, waits>>

\* ... each reads sync_pipe if its end is still open, closes the pipes ...
FallenRead(p) ==
    /\ pc[p] = "fallenRead"
    /\ IF "sync0" \in ends[p] THEN SyncRead(p) ELSE UNCHANGED bytes
    /\ Closes(p, {"sync0", "pfd0", "pfd1"})
    /\ Goto(p, "fallenWait")
    /\ UNCHANGED <<line, inJob, answer, waits, failed>>

\* ... and waits for its own children, until waitpid fails and it exits.
FallenExit(p) ==
    /\ pc[p] = "fallenWait"
    /\ p = "C1" => pc["G2"] \in {"unborn", "zombie"}
    /\ Exit(p)
    /\ UNCHANGED <<line, inJob, bytes, answer, waits, failed>>

-----------------------------------------------------------------------------
Parent ==
    \/ ForkFirst \/ ForkSecond \/ CloseSync \/ ReadSync \/ ClosePipes
    \/ (\E q \in {"C1", "C2"} : Reap(q)) \/ WaitFails \/ Prompt

Child(p) ==
    \/ SetGroup(p)
    \/ p = "C1" /\ (RedirectFirst \/ PlumbFirst \/ SyncWrite)
    \/ PlumbSecond(p) \/ RedirectSecond(p)
    \/ Exec(p) \/ Finish(p) \/ Fall(p) \/ FallenRead(p) \/ FallenExit(p)

Next == Parent \/ \E p \in Proc \ {"P"} : Child(p)

Spec == Init /\ [][Next]_vars

\* The scheduler runs every process that can run, and programs end.
FairSpec == Spec /\ WF_vars(Parent) /\ \A p \in Proc \ {"P"} : WF_vars(Child(p))

-----------------------------------------------------------------------------
NoFirst == line.first \in {"jobs", "badredir"} \/ "C1" \in failed

Ended(p) == pc[p] \in {"zombie", "reaped"}

\* Once the parent has passed the read of sync_pipe the group chid1 has its leader:
\* a signal to latest_pgrp finds the program (daemon/server.c:475, "Wait for the
\* signal from the child"), if it could be forked.
GroupReady ==
    pc["P"] \in {"close", "wait", "prompt"} => "C1" \in inJob \cup failed

\* A program that reads the pipe to its end sees the end only after the first
\* program is gone: no stray descriptor ends it early and none is closed too early.
NoEarlyEof ==
    line.second = "reader" /\ Ended("C2") =>
        /\ Ended("C1") \/ "C1" \in failed
        /\ pc["G2"] \in {"unborn", "zombie"}

\* The parent is answered by the byte, not by the end of the pipe, except when the
\* first child gave up before or was never forked, or a fallen second child took the byte.
ByteUnlessBad == answer = "eof" => NoFirst \/ line.second = "badexec"

\* Once the programs are started the prompt comes back, or the daemon has gone, except
\* after a line without a first program to write the byte whose second program waits
\* for the end of the pipe, which the parent holds.
LineEnds ==
    pc["P"] = "closesync" /\ ~(NoFirst /\ line.second = "reader")
        ~> pc["P"] \in {"prompt", "exited"}

\* The daemon is ended by a line exactly when one of the line's forks has failed: the
\* wait loop (daemon/server.c:516) asks for as many reports as forks were tried, and
\* exits at the first that cannot come.
ExitsForFailedFork ==
    /\ pc["P"] = "exited" => failed \cap {"C1", "C2"} # {}
    /\ pc["P"] = "prompt" => failed \cap {"C1", "C2"} = {}

\* The parent's read of sync_pipe ends after every line whose programs were forked
\* (daemon/server.c:475, "Wait for the signal from the child").
SignalComes == pc["P"] = "read" /\ failed = {} ~> pc["P"] = "close"
=============================================================================
