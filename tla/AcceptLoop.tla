----------------------------- MODULE AcceptLoop -----------------------------
(***************************************************************************)
(* The accept loop in main of daemon/server.c and the start and end of the *)
(* EchoServe threads it creates.                                           *)
(*                                                                         *)
(* A new thread receives the address of thread_client, a variable of the   *)
(* loop's body that lies in the same place in each iteration, and copies   *)
(* it when it first runs.  Descriptors are numbers that the kernel reuses, *)
(* the lowest free one first; a connection is known by its rank of arrival.*)
(***************************************************************************)
EXTENDS Naturals

CONSTANTS
    NUM_CLIENTS,   \* entries of the array th
    MaxConn,       \* bound: connections in a behaviour
    MaxFd          \* descriptors the process may have for connections

ASSUME AcceptLoopAssumption ==
    /\ NUM_CLIENTS \in Nat \ {0}
    /\ MaxConn \in Nat
    /\ MaxFd \in Nat

Conn == 1 .. MaxConn
Fd == 1 .. MaxFd
Thread == 1 .. MaxConn

VARIABLES
    pc,              \* main: "accept", "create", "fault" (th written past its end)
    i,               \* the index of main
    accepted,        \* how many connections main has accepted
    created,         \* how many threads it has created
    thread_client,   \* the descriptor in that variable
    open,            \* [Fd -> the connection behind it, 0 for none]
    state,           \* [Thread -> "none", "new", "serving", "closing", "ended", "left"]
    sock,            \* [Thread -> client.sock]
    gone,            \* connections whose client has hung up
    raced,           \* history: a client came before a thread had copied its argument
    failed           \* history: a pthread_create has failed

history == <<raced, failed>>
main == <<pc, i, accepted, created, thread_client, history>>
vars == <<main, open, state, sock, gone>>

TypeOK ==
    /\ pc \in {"accept", "create", "fault"}
    /\ i \in Nat
    /\ accepted \in 0 .. MaxConn
    /\ created \in 0 .. MaxConn
    /\ thread_client \in 0 .. MaxFd
    /\ open \in [Fd -> 0 .. MaxConn]
    /\ state \in [Thread -> {"none", "new", "serving", "closing", "ended", "left"}]
    /\ sock \in [Thread -> 0 .. MaxFd]
    /\ gone \subseteq Conn
    /\ raced \in BOOLEAN
    /\ failed \in BOOLEAN

Init ==
    /\ pc = "accept"
    /\ i = 0
    /\ accepted = 0
    /\ created = 0
    /\ thread_client = 0
    /\ open = [f \in Fd |-> 0]
    /\ state = [t \in Thread |-> "none"]
    /\ sock = [t \in Thread |-> 0]
    /\ gone = {}
    /\ raced = FALSE /\ failed = FALSE

Starting == {t \in Thread : state[t] = "new"}
Serving == {t \in Thread : state[t] \in {"serving", "closing"}}
FreeFds == {f \in Fd : open[f] = 0}
Lowest(S) == {f \in S : \A g \in S : f <= g}

-----------------------------------------------------------------------------
\* The descriptor that accept returns, if it succeeds.
NewFd == Lowest(FreeFds)

Accept ==
    /\ pc = "accept"
    /\ accepted < MaxConn
    /\ \E f \in NewFd :
          /\ open' = [open EXCEPT ![f] = accepted + 1]
          /\ thread_client' = f
    /\ accepted' = accepted + 1
    /\ raced' = (raced \/ Starting # {})
    /\ pc' = "create"
    /\ UNCHANGED <<i, created, state, sock, gone, failed>>

\* Mutant: the array is recycled one entry too late.
RecycledLate(n) == IF n > NUM_CLIENTS THEN 0 ELSE n

Recycled(n) == IF n >= NUM_CLIENTS THEN 0 ELSE n

\* pthread_create(&th[i++], ...): th[i] is written, past the end if i is too large.
Create ==
    /\ pc = "create"
    /\ created' = created + 1
    /\ state' = [state EXCEPT ![created + 1] = "new"]
    /\ i' = Recycled(i + 1)
    /\ pc' = IF i < NUM_CLIENTS THEN "accept" ELSE "fault"
    /\ UNCHANGED <<accepted, thread_client, open, sock, gone, history>>

\* Mutant: the connection without a thread is left open.
TurnAwayNot == UNCHANGED open

TurnAway == open' = [open EXCEPT ![thread_client] = 0]

\* The failure closes the connection and skips the test that recycles the array.
CreateFails ==
    /\ pc = "create"
    /\ i' = i + 1
    /\ failed' = TRUE
    /\ TurnAway
    /\ pc' = "accept"
    /\ UNCHANGED <<accepted, created, thread_client, state, sock, gone, raced>>

\* Mutant: the thread serves without having copied its argument.
CopyNot(t) == UNCHANGED sock

\* client = *(struct ClInfo *)input.
Copy(t) == sock' = [sock EXCEPT ![t] = thread_client]

Start(t) ==
    /\ state[t] = "new"
    /\ state' = [state EXCEPT ![t] = "serving"]
    /\ Copy(t)
    /\ UNCHANGED <<main, open, gone>>

HangUp(n) ==
    /\ n <= accepted
    /\ gone' = gone \cup {n}
    /\ UNCHANGED <<main, open, state, sock>>

\* Mutant: the thread takes any message for the end.
NoMessageEver(t) == TRUE

\* recv returns 0, or fails on a descriptor that is no longer open.
NoMessage(t) == open[sock[t]] \in gone \cup {0}

RecvEnds(t) ==
    /\ state[t] = "serving"
    /\ NoMessage(t)
    /\ state' = [state EXCEPT ![t] = "closing"]
    /\ UNCHANGED <<main, open, sock, gone>>

\* The thread closes the descriptor, whatever it stands for by now.
Close(t) ==
    /\ state[t] = "closing"
    /\ state' = [state EXCEPT ![t] = "ended"]
    /\ open' = [open EXCEPT ![sock[t]] = 0]
    /\ UNCHANGED <<main, sock, gone>>

\* Mutant: the thread closes the descriptor and stays in its loop.
ReturnServing(t) == open' = [open EXCEPT ![sock[t]] = 0] /\ UNCHANGED state

\* The thread returns and leaves the descriptor open.
Return(t) == state' = [state EXCEPT ![t] = "left"] /\ UNCHANGED open

\* A "CTL" message.
Leave(t) ==
    /\ state[t] = "serving"
    /\ ~NoMessage(t)
    /\ Return(t)
    /\ UNCHANGED <<main, sock, gone>>

Next ==
    /\ pc # "fault"
    /\ \/ Accept \/ Create \/ CreateFails
       \/ \E t \in Thread : Start(t) \/ RecvEnds(t) \/ Close(t) \/ Leave(t)
       \/ \E n \in Conn : HangUp(n)

Spec == Init /\ [][Next]_vars

-----------------------------------------------------------------------------
ServersOf(f) == {t \in Thread : state[t] \in {"serving", "closing", "left"} /\ sock[t] = f}

\* When main waits for the next client and every thread has started, each open
\* connection has a thread of its own (daemon/server.c:611, "Create thread for each
\* client"), if each thread was quick enough to copy its argument.
EachServed ==
    ~raced /\ pc = "accept" /\ Starting = {} =>
        \A f \in Fd \ FreeFds : \E t \in Thread : ServersOf(f) = {t}

\* No thread answers on another client's connection: two threads never serve the
\* same descriptor, also when the kernel gives a closed one to a later client.
NoCrossTalk == ~raced => \A t, u \in Serving : sock[t] = sock[u] => t = u

\* The server hangs up on no client that is still there: a thread that closes its
\* descriptor closes a dead connection (only a failed pthread_create turns away).
OnlyGoneClosed ==
    [][~raced => \A f \in Fd :
          open[f] \notin gone \cup {0} /\ open'[f] = 0 =>
              pc = "create" /\ f = thread_client]_vars

\* However the threads race, the newest connection does not go unserved: a thread
\* serves it, has served it, or is about to copy it.
NewestServed ==
    pc = "accept" /\ thread_client # 0 =>
        \/ open[thread_client] # accepted
        \/ Starting # {}
        \/ ServersOf(thread_client) # {}

\* th is only written within its bounds while no creation fails: a failure skips the
\* test that recycles the array (daemon/server.c:621, "Recycle thread array").
ThInBounds == ~failed /\ pc = "create" => i < NUM_CLIENTS
=============================================================================
