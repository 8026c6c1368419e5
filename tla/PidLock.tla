------------------------------ MODULE PidLock -------------------------------
(***************************************************************************)
(* The start of yashd (daemonize, lock_pid_file and the first part of main *)
(* of daemon/server.c): of several instances one gets the lock of the PID  *)
(* file, writes its process id and binds the port.  Instances end or crash *)
(* at any time; the programs they have started may survive them and hold   *)
(* the listening socket, which is not closed on exec.                      *)
(*                                                                         *)
(* The PID file is a sequence of digits and newlines.  An instance writes  *)
(* from its start and does not truncate it.                                *)
(***************************************************************************)
EXTENDS Naturals, Sequences

CONSTANTS
    Instances,   \* the times yashd is started
    Digits,      \* [Instances -> the decimal digits of its process id]
    Newline

ASSUME PidLockAssumption ==
    \A n \in Instances : /\ Digits[n] \in Seq(Nat)
                         /\ \A k \in 1 .. Len(Digits[n]) : Digits[n][k] # Newline

VARIABLES
    pc,       \* [Instances -> how far its start has come]
    holder,   \* who holds the lock: a set of instances
    file,     \* the contents of the PID file
    ports     \* [Instances -> who holds its socket: "daemon", "job"]

vars == <<pc, holder, file, ports>>

Steps == {"off", "fork1", "setsid", "fork2", "open", "lockf", "write", "bind", "up", "down"}

TypeOK ==
    /\ pc \in [Instances -> Steps]
    /\ holder \subseteq Instances
    /\ file \in Seq(Nat \cup {Newline})
    /\ ports \in [Instances -> SUBSET {"daemon", "job"}]

Init ==
    /\ pc = [n \in Instances |-> "off"]
    /\ holder = {}
    /\ file = <<>>
    /\ ports = [n \in Instances |-> {}]

Goto(n, l) == pc' = [pc EXCEPT ![n] = l]

\* write at offset 0 of a file that is not truncated.
Overwrite(old, text) ==
    [k \in 1 .. (IF Len(old) > Len(text) THEN Len(old) ELSE Len(text)) |->
        IF k <= Len(text) THEN text[k] ELSE old[k]]

\* What a reader of the first line of the file finds.
FirstLine(text) ==
    LET ends == {k \in 1 .. Len(text) : text[k] = Newline}
    IN  IF ends = {} THEN text
        ELSE SubSeq(text, 1, (CHOOSE k \in ends : \A j \in ends : k <= j) - 1)

-----------------------------------------------------------------------------
\* daemonize: fork, setsid, fork; a failure of any of them ends the instance.
Begin(n) ==
    /\ pc[n] = "off"
    /\ Goto(n, "fork1")
    /\ UNCHANGED <<holder, file, ports>>

daemonize(n) ==
    /\ \/ pc[n] = "fork1" /\ Goto(n, "setsid")
       \/ pc[n] = "setsid" /\ Goto(n, "fork2")
       \/ pc[n] = "fork2" /\ Goto(n, "open")
       \/ pc[n] \in {"fork1", "setsid", "fork2"} /\ Goto(n, "down")
    /\ UNCHANGED <<holder, file, ports>>

\* Mutant: the file is truncated when it is opened.
OpenTruncated(n) ==
    /\ pc[n] = "open"
    /\ \/ Goto(n, "lockf") /\ file' = <<>>
       \/ Goto(n, "down") /\ UNCHANGED file
    /\ UNCHANGED <<holder, ports>>

\* lock_pid_file
OpenFile(n) ==
    /\ pc[n] = "open"
    /\ Goto(n, "lockf") \/ Goto(n, "down")
    /\ UNCHANGED <<holder, file, ports>>

\* Mutants: the result of lockf is not looked at; lockf waits for the lock.
LockUnchecked(n) ==
    /\ pc[n] = "lockf"
    /\ Goto(n, "write")
    /\ holder' = holder \cup {n}
    /\ UNCHANGED <<file, ports>>

LockWaits(n) ==
    /\ pc[n] = "lockf" /\ holder = {}
    /\ Goto(n, "write")
    /\ holder' = {n}
    /\ UNCHANGED <<file, ports>>

Lock(n) ==
    /\ pc[n] = "lockf"
    /\ IF holder = {}
       THEN Goto(n, "write") /\ holder' = {n}
       ELSE Goto(n, "down") /\ UNCHANGED holder
    /\ UNCHANGED <<file, ports>>

\* Mutant: the newline is not written.
WritePidOnly(n) ==
    /\ pc[n] = "write"
    /\ file' = Overwrite(file, Digits[n])
    /\ Goto(n, "bind")
    /\ UNCHANGED <<holder, ports>>

WritePid(n) ==
    /\ pc[n] = "write"
    /\ file' = Overwrite(file, Append(Digits[n], Newline))
    /\ Goto(n, "bind")
    /\ UNCHANGED <<holder, ports>>

\* The descriptors of a process go when it does, and with them its lock.
Gone(n) ==
    /\ Goto(n, "down")
    /\ holder' = holder \ {n}
    /\ ports' = [ports EXCEPT ![n] = @ \ {"daemon"}]
    /\ UNCHANGED file

\* bind and listen: refused while any process holds a listening socket.
Bind(n) ==
    /\ pc[n] = "bind"
    /\ IF \A m \in Instances : ports[m] = {}
       THEN /\ ports' = [ports EXCEPT ![n] = {"daemon"}]
            /\ Goto(n, "up")
            /\ UNCHANGED <<holder, file>>
       ELSE Gone(n)

-----------------------------------------------------------------------------
\* A program of a client, which inherits the socket; and its end.
JobStarts(n) ==
    /\ pc[n] = "up"
    /\ ports' = [ports EXCEPT ![n] = @ \cup {"job"}]
    /\ UNCHANGED <<pc, holder, file>>

JobEnds(n) ==
    /\ "job" \in ports[n]
    /\ ports' = [ports EXCEPT ![n] = @ \ {"job"}]
    /\ UNCHANGED <<pc, holder, file>>

\* An instance is killed, crashes, or exits.
Crash(n) == pc[n] \notin {"off", "down"} /\ Gone(n)

Startup(n) == daemonize(n) \/ OpenFile(n) \/ Lock(n) \/ WritePid(n) \/ Bind(n)

Next ==
    \E n \in Instances :
        Begin(n) \/ Startup(n) \/ JobStarts(n) \/ JobEnds(n) \/ Crash(n)

Spec == Init /\ [][Next]_vars
FairSpec == Spec /\ \A n \in Instances : WF_vars(Startup(n))

-----------------------------------------------------------------------------
Locked == {"write", "bind", "up"}

\* Only one instance at a time passes lock_pid_file (daemon/server.c:543, "Lock the PID file
\* to ensure only one instance is running").
OneInstance == \A m, n \in Instances : pc[m] \in Locked /\ pc[n] \in Locked => m = n

\* The first line of the PID file is the process id of the running instance, although
\* the file is never truncated and longer ids may have been there before.
FileNamesHolder ==
    \A n \in Instances : pc[n] \in {"bind", "up"} => FirstLine(file) = Digits[n]

\* The start does what OneServer promises: the lock is passed on from one instance to
\* the next, an instance that is turned away writes neither file nor port, and the port
\* is opened by the holder of the lock while the file names it (daemon/server.c:543 and
\* :549, which come in this order).
Election ==
    INSTANCE OneServer WITH
        Name <- Digits,
        owner <- holder,
        named <- FirstLine(file),
        serving <- {n \in Instances : "daemon" \in ports[n]}

Implements == Election!Spec

\* A start ends in service or in exit.
StartEnds == \A n \in Instances : pc[n] = "fork1" ~> pc[n] \in {"up", "down"}
=============================================================================
