-------------------------------- MODULE Echo --------------------------------
(***************************************************************************)
(* The first version: src/server.c sends back what src/client.c sends, one *)
(* thread per connection.  The client never receives, so the echoes stay   *)
(* in its socket's buffer, which like the server's holds Room messages.    *)
(* The hand-over of the descriptor to the thread, which is the same as in  *)
(* the daemon, is module AcceptLoop.                                       *)
(***************************************************************************)
EXTENDS Naturals, FiniteSets

CONSTANTS
    Clients,
    Room,      \* messages that the buffers of one direction hold
    MaxFd,     \* connections the server's descriptors suffice for
    MaxSent    \* bound: messages a client sends

ASSUME EchoAssumption == Room \in Nat \ {0} /\ MaxFd \in Nat \ {0} /\ MaxSent \in Nat

VARIABLES
    server,    \* "up" or "dead"
    client,    \* [Clients -> "away", "up", "gone"]
    over,      \* [Clients -> the end of the input has been reached]
    thread,    \* [Clients -> "none", "recv", "send", "ended", "leaked"]
    sent,      \* [Clients -> messages sent]
    up,        \* [Clients -> messages that wait for the server]
    taken,     \* [Clients -> messages received and not yet sent back]
    down,      \* [Clients -> echoes in the client's buffer]
    reset      \* [Clients -> the connection has been reset]

clientVars == <<client, over, sent>>
vars == <<server, clientVars, thread, up, taken, down, reset>>

TypeOK ==
    /\ server \in {"up", "dead"}
    /\ client \in [Clients -> {"away", "up", "gone"}]
    /\ over \in [Clients -> BOOLEAN]
    /\ thread \in [Clients -> {"none", "recv", "send", "ended", "leaked"}]
    /\ sent \in [Clients -> Nat]
    /\ up \in [Clients -> 0 .. Room]
    /\ taken \in [Clients -> 0 .. Room]
    /\ down \in [Clients -> 0 .. Room]
    /\ reset \in [Clients -> BOOLEAN]

Init ==
    /\ server = "up"
    /\ client = [c \in Clients |-> "away"]
    /\ over = [c \in Clients |-> FALSE]
    /\ thread = [c \in Clients |-> "none"]
    /\ sent = [c \in Clients |-> 0]
    /\ up = [c \in Clients |-> 0]
    /\ taken = [c \in Clients |-> 0]
    /\ down = [c \in Clients |-> 0]
    /\ reset = [c \in Clients |-> FALSE]

-----------------------------------------------------------------------------
(* The client.                                                             *)

Connect(c) ==
    /\ client[c] = "away"
    /\ client' = [client EXCEPT ![c] = "up"]
    /\ UNCHANGED <<server, over, thread, sent, up, taken, down, reset>>

\* send blocks while the buffers are full.
SendLine(c) ==
    /\ client[c] = "up" /\ sent[c] < MaxSent /\ up[c] < Room
    /\ sent' = [sent EXCEPT ![c] = @ + 1]
    /\ up' = [up EXCEPT ![c] = @ + 1]
    /\ UNCHANGED <<server, client, over, thread, taken, down, reset>>

\* fgets returns null, which is not looked at: the last line stays in buf and is
\* sent again and again.
EndOfInput(c) ==
    /\ client[c] = "up" /\ ~over[c] /\ sent[c] > 0
    /\ over' = [over EXCEPT ![c] = TRUE]
    /\ UNCHANGED <<server, client, thread, sent, up, taken, down, reset>>

\* Leaving with echoes unread resets the connection.
Leave(c) ==
    /\ client' = [client EXCEPT ![c] = "gone"]
    /\ reset' = [reset EXCEPT ![c] = down[c] > 0]
    /\ UNCHANGED <<server, over, thread, sent, up, taken, down>>

\* "CTL d", typed at the prompt.
Disconnect(c) == client[c] = "up" /\ ~over[c] /\ Leave(c)

\* Ctrl-C, at any time.
handle_signal(c) == client[c] = "up" /\ Leave(c)

-----------------------------------------------------------------------------
(* The server.                                                             *)

Held == {c \in Clients : thread[c] \in {"recv", "send", "leaked"}}

\* Without a descriptor accept fails and the loop tries again.
Accept(c) ==
    /\ client[c] # "away" /\ thread[c] = "none"
    /\ Cardinality(Held) < MaxFd
    /\ thread' = [thread EXCEPT ![c] = "recv"]
    /\ UNCHANGED <<server, clientVars, up, taken, down, reset>>

\* Mutant: what has arrived is taken for one message.
RecvOne(c, k) ==
    /\ thread[c] = "recv" /\ k \in 1 .. up[c]
    /\ up' = [up EXCEPT ![c] = @ - k]
    /\ taken' = [taken EXCEPT ![c] = 1]
    /\ thread' = [thread EXCEPT ![c] = "send"]
    /\ UNCHANGED <<server, clientVars, down, reset>>

\* recv: as much as has arrived, or less.
Recv(c, k) ==
    /\ thread[c] = "recv" /\ k \in 1 .. up[c]
    /\ up' = [up EXCEPT ![c] = @ - k]
    /\ taken' = [taken EXCEPT ![c] = k]
    /\ thread' = [thread EXCEPT ![c] = "send"]
    /\ UNCHANGED <<server, clientVars, down, reset>>

\* Mutant: a message is only sent back when the thread has received the next.
SendBackLate(c) ==
    /\ thread[c] = "send" /\ client[c] # "gone" /\ down[c] < Room
    /\ taken[c] > 1 \/ up[c] > 0
    /\ down' = [down EXCEPT ![c] = @ + 1]
    /\ taken' = [taken EXCEPT ![c] = @ - 1]
    /\ thread' = [thread EXCEPT ![c] = IF taken[c] = 1 THEN "recv" ELSE "send"]
    /\ UNCHANGED <<server, clientVars, up, reset>>

\* send copies into the client's buffer as much as there is room for.
SendBack(c) ==
    /\ thread[c] = "send" /\ client[c] # "gone" /\ down[c] < Room
    /\ down' = [down EXCEPT ![c] = @ + 1]
    /\ taken' = [taken EXCEPT ![c] = @ - 1]
    /\ thread' = [thread EXCEPT ![c] = IF taken[c] = 1 THEN "recv" ELSE "send"]
    /\ UNCHANGED <<server, clientVars, up, reset>>

\* The client has left: its side answers with a reset; after a reset send fails,
\* which is only printed, or SIGPIPE ends the server.
SendFails(c) ==
    /\ thread[c] = "send" /\ client[c] = "gone"
    /\ taken' = [taken EXCEPT ![c] = 0]
    /\ thread' = [thread EXCEPT ![c] = "recv"]
    /\ reset' = [reset EXCEPT ![c] = TRUE]
    /\ server' \in IF reset[c] THEN {"up", "dead"} ELSE {"up"}
    /\ UNCHANGED <<clientVars, up, down>>

\* Mutant: the thread ends without close in either case.
RecvEndsOpen(c) ==
    /\ thread[c] = "recv" /\ up[c] = 0 /\ client[c] = "gone"
    /\ thread' = [thread EXCEPT ![c] = "leaked"]
    /\ UNCHANGED <<server, clientVars, up, taken, down, reset>>

\* recv returns 0 and the socket is closed, or fails after a reset (unless a send
\* has been told of it already), and the thread ends with the socket open.
RecvEnds(c) ==
    /\ thread[c] = "recv" /\ up[c] = 0 /\ client[c] = "gone"
    /\ \E end \in IF reset[c] THEN {"ended", "leaked"} ELSE {"ended"} :
          thread' = [thread EXCEPT ![c] = end]
    /\ UNCHANGED <<server, clientVars, up, taken, down, reset>>

-----------------------------------------------------------------------------
EchoServe(c) ==
    \/ \E k \in 1 .. Room : Recv(c, k)
    \/ SendBack(c) \/ SendFails(c) \/ RecvEnds(c)

User(c) ==
    Connect(c) \/ SendLine(c) \/ EndOfInput(c) \/ Disconnect(c) \/ handle_signal(c)

Next == server = "up" /\ \E c \in Clients : User(c) \/ Accept(c) \/ EchoServe(c)

Spec == Init /\ [][Next]_vars

\* The server's threads run.  A user need not type, but a client whose input is
\* over sends by itself.
FairSpec ==
    /\ Spec
    /\ \A c \in Clients : /\ WF_vars(server = "up" /\ Accept(c))
                          /\ WF_vars(server = "up" /\ EchoServe(c))
                          /\ WF_vars(server = "up" /\ over[c] /\ SendLine(c))

-----------------------------------------------------------------------------
\* While both sides live no message is lost or doubled, however recv joins or
\* splits what was sent and however full the buffers are (the loop of EchoServe).
NothingLost ==
    \A c \in Clients : client[c] = "up" => sent[c] = up[c] + taken[c] + down[c]

\* A thread that ends leaves its socket open only for a client that had sent
\* something, whose echoes nobody has read (src/server.c:123 has no close, as
\* src/server.c:148 does).
LeakNeedsEcho ==
    \A c \in Clients : thread[c] = "leaked" => client[c] = "gone" /\ sent[c] > 0

\* What a client has sent comes back, until its buffer is full of echoes: then the
\* thread waits in send for a client that never receives, and in the end the client
\* waits in send for the thread.  Nor is a client served when the sockets left open
\* have used up the descriptors.
EchoComes ==
    \A c \in Clients :
        up[c] + taken[c] > 0 /\ client[c] = "up" ~>
            \/ up[c] + taken[c] = 0 \/ down[c] = Room
            \/ client[c] = "gone" \/ server = "dead"
            \/ thread[c] = "none" /\ Cardinality(Held) = MaxFd
=============================================================================
