----------------------------- MODULE EchoProofs -----------------------------
(***************************************************************************)
(* Proofs about Echo, for any clients, buffers, descriptors and number of  *)
(* messages: nothing is lost or doubled between the two sides, and which   *)
(* sockets are left open.                                                  *)
(***************************************************************************)
EXTENDS Echo, TLAPS

\* What has been received is what is being sent back; nothing travels before the client
\* connects, nor anything it has not sent; a socket is reset over an unread echo.
Connection(c) ==
    /\ taken[c] > 0 <=> thread[c] = "send"
    /\ client[c] = "away" => sent[c] = 0 /\ up[c] = 0 /\ taken[c] = 0 /\ down[c] = 0
    /\ reset[c] \/ thread[c] \in {"ended", "leaked"} => client[c] = "gone"
    /\ up[c] + taken[c] + down[c] <= sent[c]
    /\ reset[c] => sent[c] > 0
    /\ client[c] = "up" => sent[c] = up[c] + taken[c] + down[c]
    /\ thread[c] = "leaked" => client[c] = "gone" /\ sent[c] > 0

IInv == TypeOK /\ \A c \in Clients : Connection(c)

-----------------------------------------------------------------------------
LEMMA InitInv == Init => IInv
<1> SUFFICES ASSUME Init PROVE IInv
    OBVIOUS
<1>1. /\ sent \in [Clients -> Nat] /\ up \in [Clients -> 0 .. Room]
      /\ taken \in [Clients -> 0 .. Room] /\ down \in [Clients -> 0 .. Room]
    BY EchoAssumption DEF Init
<1>2. TypeOK
    BY <1>1 DEF Init, TypeOK
<1>3. \A c \in Clients : Connection(c)
    BY DEF Init, Connection
<1> QED
    BY <1>2, <1>3 DEF IInv

LEMMA Numbers ==
    ASSUME IInv, NEW c \in Clients
    PROVE  /\ sent[c] \in Nat /\ up[c] \in Nat /\ taken[c] \in Nat /\ down[c] \in Nat
           /\ up[c] <= Room /\ taken[c] <= Room /\ down[c] <= Room /\ Room \in Nat
    BY EchoAssumption DEF IInv, TypeOK

\* A step of one client leaves the others as they are.
LEMMA OthersKeep ==
    ASSUME IInv, NEW c \in Clients, TypeOK', Connection(c)',
           \A d \in Clients \ {c} :
               /\ client'[d] = client[d] /\ thread'[d] = thread[d] /\ sent'[d] = sent[d]
               /\ up'[d] = up[d] /\ taken'[d] = taken[d] /\ down'[d] = down[d]
               /\ reset'[d] = reset[d]
    PROVE  IInv'
<1>1. ASSUME NEW d \in Clients, d # c PROVE Connection(d)'
    BY <1>1 DEF IInv, Connection
<1> QED
    BY <1>1 DEF IInv

LEMMA UserKeeps == ASSUME IInv, NEW c \in Clients, User(c), UNCHANGED server PROVE IInv'
<1>1. CASE Connect(c)
    <2>1. /\ client[c] = "away" /\ client' = [client EXCEPT ![c] = "up"]
          /\ UNCHANGED <<server, over, thread, sent, up, taken, down, reset>>
        BY <1>1 DEF Connect
    <2>2. TypeOK'
        BY <2>1 DEF IInv, TypeOK
    <2>3. client'[c] = "up"
        BY <2>1 DEF IInv, TypeOK
    <2>4. Connection(c)'
        BY <2>1, <2>3 DEF IInv, Connection
    <2> QED
        BY <2>1, <2>2, <2>4, OthersKeep DEF IInv, TypeOK
<1>2. CASE SendLine(c)
    <2>1. /\ client[c] = "up" /\ up[c] < Room
          /\ sent' = [sent EXCEPT ![c] = sent[c] + 1] /\ up' = [up EXCEPT ![c] = up[c] + 1]
          /\ UNCHANGED <<server, client, over, thread, taken, down, reset>>
        BY <1>2 DEF SendLine
    <2>2. sent'[c] = sent[c] + 1 /\ up'[c] = up[c] + 1
        BY <2>1 DEF IInv, TypeOK
    <2>3. TypeOK'
        <3>1. up' \in [Clients -> 0 .. Room]
            BY <2>1, Numbers DEF IInv, TypeOK
        <3>2. sent' \in [Clients -> Nat]
            BY <2>1, Numbers DEF IInv, TypeOK
        <3> QED
            BY <2>1, <3>1, <3>2 DEF IInv, TypeOK
    <2>4. Connection(c)'
        BY <2>1, <2>2, Numbers DEF IInv, Connection
    <2> QED
        BY <2>1, <2>3, <2>4, OthersKeep DEF IInv, TypeOK
<1>3. CASE EndOfInput(c)
    BY <1>3 DEF EndOfInput, IInv, TypeOK, Connection
<1>4. CASE client[c] = "up" /\ Leave(c)
    <2>1. /\ client' = [client EXCEPT ![c] = "gone"]
          /\ reset' = [reset EXCEPT ![c] = down[c] > 0]
          /\ UNCHANGED <<server, over, thread, sent, up, taken, down>>
        BY <1>4 DEF Leave
    <2>2. client'[c] = "gone" /\ (reset'[c] <=> down[c] > 0)
        BY <2>1 DEF IInv, TypeOK
    <2>3. TypeOK'
        <3>1. reset' \in [Clients -> BOOLEAN]
            BY <2>1 DEF IInv, TypeOK
        <3> QED
            BY <2>1, <3>1 DEF IInv, TypeOK
    <2>4. Connection(c)'
        BY <1>4, <2>1, <2>2, Numbers DEF IInv, Connection
    <2> QED
        BY <2>1, <2>3, <2>4, OthersKeep DEF IInv, TypeOK
<1> QED
    BY <1>1, <1>2, <1>3, <1>4 DEF User, Disconnect, handle_signal

LEMMA AcceptKeeps == ASSUME IInv, NEW c \in Clients, Accept(c) PROVE IInv'
<1>1. /\ client[c] # "away" /\ thread[c] = "none"
      /\ thread' = [thread EXCEPT ![c] = "recv"]
      /\ UNCHANGED <<server, client, over, sent, up, taken, down, reset>>
    BY DEF Accept, clientVars
<1>2. thread'[c] = "recv" /\ TypeOK'
    BY <1>1 DEF IInv, TypeOK
<1>3. Connection(c)'
    BY <1>1, <1>2 DEF IInv, Connection
<1> QED
    BY <1>1, <1>2, <1>3, OthersKeep DEF IInv, TypeOK

LEMMA EchoServeKeeps == ASSUME IInv, NEW c \in Clients, EchoServe(c) PROVE IInv'
<1>1. ASSUME NEW k \in 1 .. Room, Recv(c, k) PROVE IInv'
    <2>1. /\ thread[c] = "recv" /\ k <= up[c] /\ k \in Nat /\ k > 0
          /\ up' = [up EXCEPT ![c] = up[c] - k] /\ taken' = [taken EXCEPT ![c] = k]
          /\ thread' = [thread EXCEPT ![c] = "send"]
          /\ UNCHANGED <<server, client, over, sent, down, reset>>
        BY <1>1, Numbers DEF Recv, clientVars
    <2>2. up'[c] = up[c] - k /\ taken'[c] = k /\ thread'[c] = "send"
        BY <2>1 DEF IInv, TypeOK
    <2>3. TypeOK'
        <3>1. up' \in [Clients -> 0 .. Room]
            BY <2>1, Numbers DEF IInv, TypeOK
        <3>2. taken' \in [Clients -> 0 .. Room]
            BY <2>1, Numbers DEF IInv, TypeOK
        <3>3. thread' \in [Clients -> {"none", "recv", "send", "ended", "leaked"}]
            BY <2>1 DEF IInv, TypeOK
        <3> QED
            BY <2>1, <3>1, <3>2, <3>3 DEF IInv, TypeOK
    <2>4. taken[c] = 0
        BY <2>1, Numbers DEF IInv, Connection
    <2>5. Connection(c)'
        BY <2>1, <2>2, <2>4, Numbers DEF IInv, Connection
    <2> QED
        BY <2>1, <2>3, <2>5, OthersKeep DEF IInv, TypeOK
<1>2. CASE SendBack(c)
    <2>1. /\ thread[c] = "send" /\ client[c] # "gone" /\ down[c] < Room
          /\ down' = [down EXCEPT ![c] = down[c] + 1]
          /\ taken' = [taken EXCEPT ![c] = taken[c] - 1]
          /\ thread' = [thread EXCEPT ![c] = IF taken[c] = 1 THEN "recv" ELSE "send"]
          /\ UNCHANGED <<server, client, over, sent, up, reset>>
        BY <1>2 DEF SendBack, clientVars
    <2>2. taken[c] > 0
        BY <2>1 DEF IInv, Connection
    <2>3. /\ down'[c] = down[c] + 1 /\ taken'[c] = taken[c] - 1
          /\ thread'[c] = IF taken[c] = 1 THEN "recv" ELSE "send"
        BY <2>1 DEF IInv, TypeOK
    <2>4. TypeOK'
        <3>1. down' \in [Clients -> 0 .. Room]
            BY <2>1, Numbers DEF IInv, TypeOK
        <3>2. taken' \in [Clients -> 0 .. Room]
            BY <2>1, <2>2, Numbers DEF IInv, TypeOK
        <3>3. thread' \in [Clients -> {"none", "recv", "send", "ended", "leaked"}]
            BY <2>1 DEF IInv, TypeOK
        <3> QED
            BY <2>1, <3>1, <3>2, <3>3 DEF IInv, TypeOK
    <2>5. Connection(c)'
        BY <2>1, <2>2, <2>3, Numbers DEF IInv, Connection
    <2> QED
        BY <2>1, <2>4, <2>5, OthersKeep DEF IInv, TypeOK
<1>3. CASE SendFails(c)
    <2>1. /\ thread[c] = "send" /\ client[c] = "gone"
          /\ taken' = [taken EXCEPT ![c] = 0]
          /\ thread' = [thread EXCEPT ![c] = "recv"]
          /\ reset' = [reset EXCEPT ![c] = TRUE]
          /\ server' \in {"up", "dead"}
          /\ UNCHANGED <<client, over, sent, up, down>>
        BY <1>3 DEF SendFails, clientVars
    <2>2. taken'[c] = 0 /\ thread'[c] = "recv" /\ reset'[c] = TRUE
        BY <2>1 DEF IInv, TypeOK
    <2>3. TypeOK'
        <3>1. taken' \in [Clients -> 0 .. Room]
            BY <2>1, EchoAssumption DEF IInv, TypeOK
        <3>2. thread' \in [Clients -> {"none", "recv", "send", "ended", "leaked"}]
            BY <2>1 DEF IInv, TypeOK
        <3> QED
            BY <2>1, <3>1, <3>2 DEF IInv, TypeOK
    <2>4. taken[c] > 0
        BY <2>1 DEF IInv, Connection
    <2>5. Connection(c)'
        BY <2>1, <2>2, <2>4, Numbers DEF IInv, Connection
    <2> QED
        BY <2>1, <2>3, <2>5, OthersKeep DEF IInv, TypeOK
<1>4. CASE RecvEnds(c)
    <2>1. /\ thread[c] = "recv" /\ client[c] = "gone"
          /\ UNCHANGED <<server, client, over, sent, up, taken, down, reset>>
        BY <1>4 DEF RecvEnds, clientVars
    <2>2. PICK end \in {"ended", "leaked"} :
              /\ thread' = [thread EXCEPT ![c] = end]
              /\ end = "leaked" => reset[c]
        BY <1>4 DEF RecvEnds
    <2>3. thread'[c] = end /\ TypeOK'
        BY <2>1, <2>2 DEF IInv, TypeOK
    <2>4. Connection(c)'
        BY <2>1, <2>2, <2>3 DEF IInv, Connection
    <2> QED
        BY <2>1, <2>2, <2>3, <2>4, OthersKeep DEF IInv, TypeOK
<1> QED
    BY <1>1, <1>2, <1>3, <1>4 DEF EchoServe

LEMMA NextInv == IInv /\ [Next]_vars => IInv'
<1> SUFFICES ASSUME IInv, [Next]_vars PROVE IInv'
    OBVIOUS
<1>1. ASSUME NEW c \in Clients, User(c) PROVE UNCHANGED server
    BY <1>1 DEF User, Connect, SendLine, EndOfInput, Disconnect, handle_signal, Leave
<1>2. CASE Next
    BY <1>1, <1>2, UserKeeps, AcceptKeeps, EchoServeKeeps DEF Next
<1>3. CASE UNCHANGED vars
    BY <1>3 DEF vars, clientVars, IInv, TypeOK, Connection
<1> QED
    BY <1>2, <1>3

-----------------------------------------------------------------------------
\* The invariant holds however recv joins the messages and send splits the answers.
THEOREM Invariant == Spec => []IInv
<1> QED
    BY InitInv, NextInv, PTL DEF Spec

\* No message is lost or doubled while both sides live (src/server.c:121-136).
THEOREM NothingIsLost == Spec => []NothingLost
<1>1. IInv => NothingLost
    BY DEF IInv, Connection, NothingLost
<1> QED
    BY <1>1, Invariant, PTL

\* Only over an echo that nobody read is a socket left open (src/server.c:123).
THEOREM LeakedOverEcho == Spec => []LeakNeedsEcho
<1>1. IInv => LeakNeedsEcho
    BY DEF IInv, Connection, LeakNeedsEcho
<1> QED
    BY <1>1, Invariant, PTL
=============================================================================
