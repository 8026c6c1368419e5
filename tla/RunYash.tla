------------------------------ MODULE RunYash -------------------------------
(***************************************************************************)
(* run_yash of daemon/server.c: a thread points descriptor 1 of the whole  *)
(* process at its client's socket, runs the line, flushes the buffer of    *)
(* stdout and points the descriptor back.  All threads share descriptor 1  *)
(* and the buffer.                                                         *)
(***************************************************************************)
EXTENDS Naturals, FiniteSets

CONSTANTS
    Clients,
    MaxLines       \* bound: lines run in a behaviour

ASSUME RunYashAssumption ==
    /\ IsFiniteSet(Clients) /\ "null" \notin Clients
    /\ MaxLines \in Nat

VARIABLES
    pc,       \* [Clients -> the next statement of the thread]
    stdout,   \* where descriptor 1 leads: a client's socket or "null"
    saved,    \* [Clients -> where saved_stdout leads]
    buffer,   \* the clients whose lines have text in the buffer of stdout
    got,      \* [Clients -> the clients whose output has reached it]
    dups,     \* saved descriptors that are open
    lines,    \* lines begun
    mixed     \* history: two lines have run at the same time

vars == <<pc, stdout, saved, buffer, got, dups, lines, mixed>>

TypeOK ==
    /\ pc \in [Clients -> {"recv", "dup2", "process_cmd", "fflush", "restore", "close"}]
    /\ stdout \in Clients \cup {"null"}
    /\ saved \in [Clients -> Clients \cup {"null"}]
    /\ buffer \subseteq Clients
    /\ got \in [Clients -> SUBSET Clients]
    /\ dups \in Nat
    /\ lines \in 0 .. MaxLines
    /\ mixed \in BOOLEAN

Init ==
    /\ pc = [c \in Clients |-> "recv"]
    /\ stdout = "null"
    /\ saved = [c \in Clients |-> "null"]
    /\ buffer = {}
    /\ got = [c \in Clients |-> {}]
    /\ dups = 0
    /\ lines = 0
    /\ mixed = FALSE

Idle == \A c \in Clients : pc[c] = "recv"
At(c, l, next) == pc[c] = l /\ pc' = [pc EXCEPT ![c] = next]

\* Output of S reaches whoever descriptor 1 leads to.
Reaches(S) == got' = [c \in Clients |-> IF c = stdout THEN got[c] \cup S ELSE got[c]]

-----------------------------------------------------------------------------
Save(c) ==
    /\ At(c, "recv", "dup2")
    /\ lines < MaxLines
    /\ saved' = [saved EXCEPT ![c] = stdout]
    /\ dups' = dups + 1
    /\ lines' = lines + 1
    /\ mixed' = (mixed \/ ~Idle)
    /\ UNCHANGED <<stdout, buffer, got>>

Redirect(c) ==
    /\ At(c, "dup2", "process_cmd")
    /\ stdout' = c
    /\ UNCHANGED <<saved, buffer, got, dups, lines, mixed>>

\* process_cmd: a program of the line inherits descriptor 1 and may write to it, the
\* shell's own messages go through the buffer.
ProcessCmd(c) ==
    /\ At(c, "process_cmd", "fflush")
    /\ \E prints \in BOOLEAN : buffer' = IF prints THEN buffer \cup {c} ELSE buffer
    /\ \E S \in SUBSET {c} : Reaches(S)
    /\ UNCHANGED <<stdout, saved, dups, lines, mixed>>

Flush(c) ==
    /\ At(c, "fflush", "restore")
    /\ Reaches(buffer)
    /\ buffer' = {}
    /\ UNCHANGED <<stdout, saved, dups, lines, mixed>>

PointBack(c) == stdout' = saved[c]

Restore(c) ==
    /\ At(c, "restore", "close")
    /\ PointBack(c)
    /\ UNCHANGED <<saved, buffer, got, dups, lines, mixed>>

\* Mutants: a message is printed after the buffer was flushed; the saved descriptor is
\* not closed.
DropPrinting(c) == dups' = dups - 1 /\ buffer' = buffer \cup {c}
DropNot(c) == UNCHANGED <<dups, buffer>>

Drop(c) == dups' = dups - 1 /\ UNCHANGED buffer

CloseSaved(c) ==
    /\ At(c, "close", "recv")
    /\ Drop(c)
    /\ UNCHANGED <<stdout, saved, got, lines, mixed>>

Next ==
    \E c \in Clients :
        Save(c) \/ Redirect(c) \/ ProcessCmd(c) \/ Flush(c) \/ Restore(c) \/ CloseSaved(c)

Spec == Init /\ [][Next]_vars

-----------------------------------------------------------------------------
\* A client sees the output of its own lines and of nobody else's, while no two lines
\* run at the same time (daemon/server.c:712, "Redirect stdout to client socket").
OwnOutput == ~mixed => \A c \in Clients : got[c] \subseteq {c}

\* However the threads interleave, nothing is left between lines: no text in the buffer
\* for the next client to receive, and no saved descriptor.  (pooja/server.c:127 never
\* closes the descriptor.)
NothingLeft == Idle => buffer = {} /\ dups = 0
=============================================================================
