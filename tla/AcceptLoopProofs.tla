-------------------------- MODULE AcceptLoopProofs --------------------------
(***************************************************************************)
(* Proofs about AcceptLoop, for any number of connections, descriptors and *)
(* entries of th.                                                          *)
(***************************************************************************)
EXTENDS AcceptLoop, TLAPS

\* The threads that have a descriptor of their own.
Holders == {t \in Thread : state[t] \in {"serving", "closing", "left"}}

\* A connection that main has accepted and no thread has copied yet.
Pending == pc = "create" \/ Starting # {}

\* Threads are created in order, for connections that have been accepted.
Ranks ==
    /\ created <= accepted
    /\ pc = "create" => created < accepted
    /\ \A t \in Thread : t > created => state[t] = "none"
    /\ thread_client # 0 => accepted > 0
    /\ Pending => thread_client \in Fd
    /\ \A t \in Holders : sock[t] \in Fd

InBounds == ~failed => i < NUM_CLIENTS

\* While no client has come too early, threads and open descriptors match one to one,
\* but for the connection that is on its way to its thread.
Calm ==
    /\ \A t, u \in Starting : t = u
    /\ pc = "create" => Starting = {}
    /\ \A t \in Holders : open[sock[t]] # 0
    /\ \A t, u \in Holders : sock[t] = sock[u] => t = u
    /\ Pending => open[thread_client] # 0 /\ \A t \in Holders : sock[t] # thread_client
    /\ \A f \in Fd : open[f] # 0 =>
          (\E t \in Holders : sock[t] = f) \/ (Pending /\ f = thread_client)
    /\ \A t \in Thread : state[t] = "closing" => open[sock[t]] \in gone

IInv == TypeOK /\ Ranks /\ InBounds /\ NewestServed /\ (~raced => Calm)

-----------------------------------------------------------------------------
LEMMA InitInv == Init => IInv
<1> SUFFICES ASSUME Init PROVE IInv
    OBVIOUS
<1>0. 0 \in 0 .. MaxConn /\ 0 \in 0 .. MaxFd
    BY AcceptLoopAssumption
<1>1. TypeOK
    BY <1>0 DEF Init, TypeOK
<1>2. Holders = {} /\ Starting = {} /\ ~Pending
    BY DEF Init, Holders, Starting, Pending
<1>3. Ranks /\ Calm
    BY <1>2 DEF Init, Ranks, Calm
<1>4. InBounds /\ NewestServed
    BY AcceptLoopAssumption DEF Init, InBounds, NewestServed
<1> QED
    BY <1>1, <1>3, <1>4 DEF IInv

LEMMA AcceptKeeps == IInv /\ Accept => IInv'
<1> SUFFICES ASSUME IInv, Accept PROVE IInv'
    OBVIOUS
<1> USE AcceptLoopAssumption DEF IInv
<1> PICK f \in NewFd : /\ open' = [open EXCEPT ![f] = accepted + 1]
                       /\ thread_client' = f
    BY DEF Accept
<1>1. f \in Fd /\ open[f] = 0
    BY DEF NewFd, Lowest, FreeFds
<1>2. /\ pc = "accept" /\ pc' = "create" /\ accepted < MaxConn
      /\ accepted' = accepted + 1 /\ raced' = (raced \/ Starting # {})
      /\ UNCHANGED <<i, created, state, sock, gone, failed>>
    BY DEF Accept
<1>3. Starting' = Starting /\ Holders' = Holders /\ Pending'
    BY <1>2 DEF Starting, Holders, Pending
<1>4. TypeOK'
    BY <1>1, <1>2 DEF TypeOK, Fd, Conn
<1>5. Ranks'
    BY <1>1, <1>2, <1>3 DEF Ranks, TypeOK, Thread, Fd
<1>6. InBounds' /\ NewestServed'
    BY <1>2 DEF InBounds, NewestServed
<1>7. ASSUME ~raced' PROVE Calm'
    <2>1. Calm /\ Starting = {} /\ ~Pending
        BY <1>2, <1>7 DEF Pending
    <2>2. \A t \in Holders : sock[t] \in Fd /\ sock[t] # f
        BY <1>1, <2>1 DEF Calm, Ranks
    <2>3. open'[f] # 0 /\ \A g \in Fd \ {f} : open'[g] = open[g]
        BY <1>1, <1>2 DEF TypeOK
    <2>4. \A t \in Holders : open'[sock[t]] # 0
        BY <2>1, <2>2, <2>3 DEF Calm
    <2>5. \A g \in Fd : open'[g] # 0 => (\E t \in Holders : sock[t] = g) \/ g = f
        BY <2>1, <2>3 DEF Calm
    <2>6. \A t \in Thread : state[t] = "closing" => open'[sock[t]] \in gone
        BY <2>1, <2>2, <2>3 DEF Calm, Holders
    <2> QED
        BY <1>1, <1>2, <1>3, <2>1, <2>2, <2>3, <2>4, <2>5, <2>6 DEF Calm
<1> QED
    BY <1>4, <1>5, <1>6, <1>7

LEMMA CreateKeeps == IInv /\ Create => IInv'
<1> SUFFICES ASSUME IInv, Create PROVE IInv'
    OBVIOUS
<1> USE AcceptLoopAssumption DEF IInv
<1> DEFINE n == created + 1
<1>1. /\ pc = "create" /\ created' = n /\ state' = [state EXCEPT ![n] = "new"]
      /\ i' = Recycled(i + 1) /\ pc' = IF i < NUM_CLIENTS THEN "accept" ELSE "fault"
      /\ UNCHANGED <<accepted, thread_client, open, sock, gone, raced, failed>>
    BY DEF Create, history
<1>2. n \in Thread /\ state[n] = "none" /\ created \in Nat /\ accepted \in Nat
    BY <1>1 DEF Ranks, TypeOK, Thread
<1>3. Holders' = Holders /\ n \notin Holders
    BY <1>1, <1>2 DEF Holders, TypeOK
<1>4. Starting' = Starting \cup {n} /\ Pending /\ Pending'
    BY <1>1, <1>2 DEF Starting, Pending, TypeOK
<1>5. TypeOK'
    BY <1>1, <1>2 DEF TypeOK, Recycled, Thread
<1>6. Ranks'
    <2>1. \A t \in Thread : t > n => state'[t] = "none"
        BY <1>1, <1>2 DEF Ranks, TypeOK, Thread
    <2> QED
        BY <1>1, <1>2, <1>3, <1>4, <2>1 DEF Ranks
<1>7. InBounds'
    BY <1>1 DEF InBounds, Recycled, TypeOK
<1>8. NewestServed'
    BY <1>4 DEF NewestServed
<1>9. ASSUME ~raced PROVE Calm'
    <2>1. Calm /\ Starting' = {n}
        BY <1>1, <1>4, <1>9 DEF Calm
    <2>2. pc' # "create"
        BY <1>1
    <2>3. \A t \in Thread : state'[t] = "closing" => state[t] = "closing"
        BY <1>1 DEF TypeOK
    <2> QED
        BY <1>1, <1>3, <1>4, <2>1, <2>2, <2>3 DEF Calm
<1> QED
    BY <1>1, <1>5, <1>6, <1>7, <1>8, <1>9

LEMMA CreateFailsKeeps == IInv /\ CreateFails => IInv'
<1> SUFFICES ASSUME IInv, CreateFails PROVE IInv'
    OBVIOUS
<1> USE AcceptLoopAssumption DEF IInv
<1>1. /\ pc = "create" /\ i' = i + 1 /\ failed' = TRUE /\ pc' = "accept"
      /\ open' = [open EXCEPT ![thread_client] = 0]
      /\ UNCHANGED <<accepted, created, thread_client, state, sock, gone, raced>>
    BY DEF CreateFails, TurnAway
<1>2. thread_client \in Fd /\ accepted > 0 /\ accepted \in Nat
    BY <1>1 DEF Ranks, Pending, Fd, TypeOK
<1>3. Starting' = Starting /\ Holders' = Holders
    BY <1>1 DEF Starting, Holders
<1>4. TypeOK'
    BY <1>1, <1>2 DEF TypeOK
<1>5. Ranks' /\ InBounds'
    BY <1>1, <1>2, <1>3 DEF Ranks, InBounds
<1>6. NewestServed'
    BY <1>1, <1>2 DEF NewestServed, TypeOK
<1>7. ASSUME ~raced PROVE Calm'
    <2>1. Calm /\ Starting = {} /\ Pending /\ ~Pending'
        BY <1>1, <1>3, <1>7 DEF Calm, Pending
    <2>2. open'[thread_client] = 0 /\ \A g \in Fd \ {thread_client} : open'[g] = open[g]
        BY <1>1, <1>2 DEF TypeOK
    <2>3. \A t \in Holders : sock[t] \in Fd \ {thread_client}
        BY <2>1 DEF Calm, Ranks
    <2>4. \A t \in Thread : state[t] = "closing" => open'[sock[t]] \in gone
        BY <2>1, <2>2, <2>3 DEF Calm, Holders
    <2> QED
        BY <1>1, <1>3, <2>1, <2>2, <2>3, <2>4 DEF Calm
<1> QED
    BY <1>1, <1>4, <1>5, <1>6, <1>7

LEMMA StartKeeps == ASSUME IInv, NEW t \in Thread, Start(t) PROVE IInv'
<1> USE AcceptLoopAssumption DEF IInv
<1>1. /\ state[t] = "new" /\ state' = [state EXCEPT ![t] = "serving"]
      /\ sock' = [sock EXCEPT ![t] = thread_client]
      /\ UNCHANGED <<pc, i, accepted, created, thread_client, raced, failed, open, gone>>
    BY DEF Start, Copy, main, history
<1>2. /\ t \in Starting /\ t \notin Holders /\ thread_client \in Fd
      /\ Starting' = Starting \ {t} /\ Holders' = Holders \cup {t}
    BY <1>1 DEF Starting, Holders, Ranks, Pending, TypeOK
<1>3. sock'[t] = thread_client /\ \A u \in Holders : sock'[u] = sock[u]
    BY <1>1, <1>2 DEF TypeOK, Holders
<1>4. TypeOK'
    BY <1>1 DEF TypeOK
<1>5. Ranks'
    BY <1>1, <1>2, <1>3 DEF Ranks, Pending, TypeOK, Starting
<1>6. InBounds'
    BY <1>1 DEF InBounds
<1>7. NewestServed'
    BY <1>1, <1>3 DEF NewestServed, ServersOf, TypeOK
<1>8. ASSUME ~raced PROVE Calm'
    <2>1. Calm /\ Starting' = {} /\ Pending /\ pc # "create" /\ ~Pending'
        BY <1>1, <1>2, <1>8 DEF Calm, Pending
    <2>2. \A u, v \in Holders' : sock'[u] = sock'[v] => u = v
        BY <1>2, <1>3, <2>1 DEF Calm
    <2>3. \A u \in Holders' : open[sock'[u]] # 0
        BY <1>2, <1>3, <2>1 DEF Calm
    <2>4. \A f \in Fd : open[f] # 0 => \E u \in Holders' : sock'[u] = f
        BY <1>2, <1>3, <2>1 DEF Calm
    <2>5. \A u \in Thread : state'[u] = "closing" => open[sock'[u]] \in gone
        BY <1>1, <1>3, <2>1 DEF Calm, Holders, TypeOK
    <2> QED
        BY <1>1, <2>1, <2>2, <2>3, <2>4, <2>5 DEF Calm
<1> QED
    BY <1>1, <1>4, <1>5, <1>6, <1>7, <1>8

LEMMA HangUpKeeps == ASSUME IInv, NEW n \in Conn, HangUp(n) PROVE IInv'
<1> USE AcceptLoopAssumption DEF IInv
<1>1. /\ gone' = gone \cup {n} /\ UNCHANGED <<open, state, sock>>
      /\ UNCHANGED <<pc, i, accepted, created, thread_client, raced, failed>>
    BY DEF HangUp, main, history
<1>2. Holders' = Holders /\ Starting' = Starting /\ Pending' = Pending
    BY <1>1 DEF Holders, Starting, Pending
<1>3. TypeOK'
    BY <1>1 DEF TypeOK
<1>4. Ranks' /\ InBounds' /\ NewestServed'
    BY <1>1, <1>2 DEF Ranks, InBounds, NewestServed, ServersOf
<1>5. ASSUME ~raced PROVE Calm'
    BY <1>1, <1>2, <1>5 DEF Calm
<1> QED
    BY <1>1, <1>3, <1>4, <1>5

\* A thread that leaves its loop, for the close or for good, holds its descriptor still.
LEMMA LoopEnds ==
    ASSUME IInv, NEW t \in Thread, NEW s \in {"closing", "left"},
           state[t] = "serving", state' = [state EXCEPT ![t] = s],
           s = "closing" => NoMessage(t),
           UNCHANGED <<main, open, sock, gone>>
    PROVE  IInv'
<1> USE AcceptLoopAssumption DEF IInv
<1>1. UNCHANGED <<pc, i, accepted, created, thread_client, raced, failed>>
    BY DEF main, history
<1>2. Holders' = Holders /\ Starting' = Starting /\ Pending' = Pending
    BY <1>1 DEF Holders, Starting, Pending, TypeOK
<1>3. TypeOK'
    BY <1>1 DEF TypeOK
<1>4. Ranks' /\ InBounds'
    BY <1>1, <1>2 DEF Ranks, InBounds, TypeOK
<1>5. NewestServed'
    BY <1>1, <1>2 DEF NewestServed, ServersOf, TypeOK
<1>6. ASSUME ~raced PROVE Calm'
    <2>1. Calm /\ t \in Holders
        BY <1>6 DEF Holders
    <2>2. s = "closing" => open[sock[t]] \in gone
        BY <2>1 DEF Calm, NoMessage
    <2>3. \A u \in Thread : state'[u] = "closing" => open[sock[u]] \in gone
        BY <2>1, <2>2 DEF Calm, TypeOK
    <2> QED
        BY <1>1, <1>2, <2>1, <2>3 DEF Calm
<1> QED
    BY <1>1, <1>3, <1>4, <1>5, <1>6

LEMMA CloseKeeps == ASSUME IInv, NEW t \in Thread, Close(t) PROVE IInv'
<1> USE AcceptLoopAssumption DEF IInv
<1>1. /\ state[t] = "closing" /\ state' = [state EXCEPT ![t] = "ended"]
      /\ open' = [open EXCEPT ![sock[t]] = 0] /\ UNCHANGED <<sock, gone>>
      /\ UNCHANGED <<pc, i, accepted, created, thread_client, raced, failed>>
    BY DEF Close, main, history
<1>2. /\ t \in Holders /\ sock[t] \in Fd
      /\ Holders' = Holders \ {t} /\ Starting' = Starting /\ Pending' = Pending
    BY <1>1 DEF Holders, Starting, Pending, Ranks, TypeOK
<1>3. open'[sock[t]] = 0 /\ \A f \in Fd \ {sock[t]} : open'[f] = open[f]
    BY <1>1, <1>2 DEF TypeOK
<1>4. TypeOK'
    BY <1>1, <1>2 DEF TypeOK
<1>5. Ranks' /\ InBounds'
    BY <1>1, <1>2 DEF Ranks, InBounds, TypeOK
<1>6. NewestServed'
    <2> SUFFICES ASSUME pc = "accept", thread_client # 0,
                        open'[thread_client] = accepted, Starting = {}
                 PROVE  ServersOf(thread_client)' # {}
        BY <1>1, <1>2 DEF NewestServed
    <2>1. thread_client \in Fd /\ accepted > 0
        BY DEF TypeOK, Ranks, Fd
    <2>2. thread_client # sock[t]
        BY <1>3, <2>1 DEF TypeOK
    <2>3. ServersOf(thread_client) # {}
        BY <1>3, <2>1, <2>2 DEF NewestServed
    <2> QED
        BY <1>1, <2>2, <2>3 DEF ServersOf, TypeOK
<1>7. ASSUME ~raced PROVE Calm'
    <2>1. Calm
        BY <1>7
    <2>2. \A u \in Holders' : sock[u] # sock[t] /\ sock[u] \in Fd
        BY <1>2, <2>1 DEF Calm, Ranks
    <2>3. \A u \in Holders' : open'[sock[u]] # 0
        BY <1>2, <1>3, <2>1, <2>2 DEF Calm
    <2>4. Pending => thread_client \in Fd \ {sock[t]} /\ open'[thread_client] # 0
        BY <1>2, <1>3, <2>1 DEF Calm, Ranks
    <2>5. \A f \in Fd : open'[f] # 0 =>
              (\E u \in Holders' : sock[u] = f) \/ (Pending /\ f = thread_client)
        BY <1>2, <1>3, <2>1 DEF Calm
    <2>6. \A u \in Thread : state'[u] = "closing" =>
              u \in Holders' /\ open[sock[u]] \in gone
        BY <1>1, <1>2, <2>1 DEF Calm, Holders, TypeOK
    <2>7. \A u \in Thread : state'[u] = "closing" => open'[sock[u]] \in gone
        BY <1>3, <2>2, <2>6
    <2>8. \A u, v \in Holders' : sock[u] = sock[v] => u = v
        BY <1>2, <2>1 DEF Calm
    <2>9. \A u \in Holders' : Pending => sock[u] # thread_client
        BY <1>2, <2>1 DEF Calm
    <2> QED
        BY <1>1, <1>2, <2>1, <2>3, <2>4, <2>5, <2>7, <2>8, <2>9 DEF Calm
<1> QED
    BY <1>1, <1>4, <1>5, <1>6, <1>7

LEMMA NextInv == IInv /\ [Next]_vars => IInv'
<1> SUFFICES ASSUME IInv, [Next]_vars PROVE IInv'
    OBVIOUS
<1>1. CASE UNCHANGED vars
    BY <1>1 DEF vars, main, history, IInv, TypeOK, Ranks, InBounds, NewestServed, Calm,
                Holders, Pending, Starting, ServersOf
<1>2. ASSUME NEW t \in Thread, RecvEnds(t) PROVE IInv'
    BY <1>2, LoopEnds DEF RecvEnds
<1>3. ASSUME NEW t \in Thread, Leave(t) PROVE IInv'
    BY <1>3, LoopEnds DEF Leave, Return
<1> QED
    BY <1>1, <1>2, <1>3, AcceptKeeps, CreateKeeps, CreateFailsKeeps, StartKeeps,
       CloseKeeps, HangUpKeeps DEF Next

-----------------------------------------------------------------------------
\* Whatever the order of connections, threads, closes and failures, the invariant holds.
THEOREM Invariant == Spec => []IInv
<1> QED
    BY InitInv, NextInv, PTL DEF Spec

\* th is written within its bounds until a pthread_create fails (daemon/server.c:612
\* and :621), for any size of the array.
THEOREM ThAlwaysInBounds == Spec => []ThInBounds
<1>1. IInv => ThInBounds
    BY DEF IInv, InBounds, ThInBounds
<1> QED
    BY <1>1, Invariant, PTL

\* The newest connection has its thread, or is closed (daemon/server.c:606 and :741).
THEOREM NewestAlwaysServed == Spec => []NewestServed
<1>1. IInv => NewestServed
    BY DEF IInv
<1> QED
    BY <1>1, Invariant, PTL

\* Each open connection has one thread of its own (daemon/server.c:611), as long as each
\* thread has copied its argument before the next client came.
THEOREM EachAlwaysServed == Spec => []EachServed
<1>1. IInv => EachServed
    <2> SUFFICES ASSUME IInv, ~raced, pc = "accept", Starting = {},
                        NEW f \in Fd \ FreeFds
                 PROVE  \E t \in Thread : ServersOf(f) = {t}
        BY DEF EachServed
    <2>1. open[f] # 0 /\ Calm /\ ~Pending
        BY DEF FreeFds, IInv, Pending
    <2>2. PICK t \in Holders : sock[t] = f
        BY <2>1 DEF Calm
    <2>3. ServersOf(f) = {t}
        BY <2>1, <2>2 DEF Calm, ServersOf, Holders
    <2> QED
        BY <2>2, <2>3 DEF Holders
<1> QED
    BY <1>1, Invariant, PTL

\* No thread serves another thread's connection (daemon/server.c:819), under the same
\* condition.
THEOREM NeverCrossed == Spec => []NoCrossTalk
<1>1. IInv => NoCrossTalk
    BY DEF IInv, NoCrossTalk, Calm, Serving, Holders
<1> QED
    BY <1>1, Invariant, PTL

\* Only dead connections are closed (daemon/server.c:819 and :614), under the same
\* condition.
THEOREM OnlyGoneEverClosed == Spec => OnlyGoneClosed
<1> DEFINE Closing ==
        ~raced => \A f \in Fd :
            open[f] \notin gone \cup {0} /\ open'[f] = 0 => pc = "create" /\ f = thread_client
<1>1. IInv /\ [Next]_vars => Closing
    <2> SUFFICES ASSUME IInv, [Next]_vars, ~raced, NEW f \in Fd,
                        open[f] \notin gone \cup {0}, open'[f] = 0
                 PROVE  pc = "create" /\ f = thread_client
        OBVIOUS
    <2>1. CASE Accept
        BY <2>1 DEF Accept, IInv, TypeOK
    <2>2. CASE CreateFails
        BY <2>2 DEF CreateFails, TurnAway, IInv, TypeOK
    <2>3. ASSUME NEW t \in Thread, Close(t) PROVE FALSE
        BY <2>3 DEF Close, IInv, TypeOK, Calm
    <2>4. CASE UNCHANGED open
        BY <2>4
    <2> QED
        BY <2>1, <2>2, <2>3, <2>4
           DEF Next, vars, Create, Start, RecvEnds, Leave, Return, HangUp
<1> QED
    BY <1>1, Invariant, PTL DEF Spec, OnlyGoneClosed
=============================================================================
