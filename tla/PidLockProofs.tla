--------------------------- MODULE PidLockProofs ----------------------------
(***************************************************************************)
(* Proofs about PidLock, for any instances and process ids: one instance   *)
(* at a time is past the lock, the PID file names it, and the start        *)
(* implements OneServer.                                                   *)
(***************************************************************************)
EXTENDS PidLock, TLAPS

\* The lock is held by those who are past it, and the port by the one that serves.
Holds == holder = {n \in Instances : pc[n] \in Locked}
Serves == \A n \in Instances : "daemon" \in ports[n] <=> pc[n] = "up"

IInv == TypeOK /\ Holds /\ OneInstance /\ Serves /\ FileNamesHolder

-----------------------------------------------------------------------------
\* What a write over an older text leaves (write of lock_pid_file, into a file that
\* open has not truncated).
LEMMA OverwriteType ==
    ASSUME NEW S, NEW old \in Seq(S), NEW text \in Seq(S)
    PROVE  /\ Overwrite(old, text) \in Seq(S)
           /\ Len(Overwrite(old, text)) >= Len(text)
           /\ \A k \in 1 .. Len(text) : Overwrite(old, text)[k] = text[k]
<1> DEFINE len == IF Len(old) > Len(text) THEN Len(old) ELSE Len(text)
<1>1. len \in Nat /\ len >= Len(text)
    OBVIOUS
<1>2. \A k \in 1 .. len : (IF k <= Len(text) THEN text[k] ELSE old[k]) \in S
    OBVIOUS
<1>3. Overwrite(old, text) = [k \in 1 .. len |-> IF k <= Len(text) THEN text[k] ELSE old[k]]
    BY DEF Overwrite
<1>4. Overwrite(old, text) \in [1 .. len -> S]
    BY <1>2, <1>3
<1> HIDE DEF len
<1>5. Overwrite(old, text) \in Seq(S) /\ Len(Overwrite(old, text)) = len
    BY <1>1, <1>4
<1>6. \A k \in 1 .. Len(text) : Overwrite(old, text)[k] = text[k]
    BY <1>1, <1>3
<1> QED
    BY <1>1, <1>5, <1>6

\* The first line of a text that begins with digits and a newline is the digits,
\* whatever stands behind.
LEMMA FirstLineOf ==
    ASSUME NEW S, NEW text \in Seq(S), NEW digits \in Seq(S),
           Len(text) >= Len(digits) + 1,
           \A k \in 1 .. Len(digits) : text[k] = digits[k] /\ digits[k] # Newline,
           text[Len(digits) + 1] = Newline
    PROVE  FirstLine(text) = digits
<1> DEFINE ends == {k \in 1 .. Len(text) : text[k] = Newline}
           first == CHOOSE k \in ends : \A j \in ends : k <= j
<1>1. Len(digits) + 1 \in ends
    OBVIOUS
<1>2. \A j \in ends : Len(digits) + 1 <= j
    OBVIOUS
<1>3. first \in ends /\ \A j \in ends : first <= j
    BY <1>1, <1>2
<1>4. first = Len(digits) + 1
    BY <1>1, <1>2, <1>3
<1>5. FirstLine(text) = SubSeq(text, 1, first - 1)
    BY <1>1 DEF FirstLine
<1> HIDE DEF first, ends
<1>6. SubSeq(text, 1, Len(digits)) = digits
    <2>1. SubSeq(text, 1, Len(digits)) \in Seq(S) /\ Len(SubSeq(text, 1, Len(digits))) = Len(digits)
        OBVIOUS
    <2>2. \A k \in 1 .. Len(digits) : SubSeq(text, 1, Len(digits))[k] = digits[k]
        OBVIOUS
    <2> QED
        BY <2>1, <2>2
<1> QED
    BY <1>4, <1>5, <1>6

\* What an instance has written names it.
LEMMA WrittenName ==
    ASSUME TypeOK, NEW n \in Instances
    PROVE  /\ Overwrite(file, Append(Digits[n], Newline)) \in Seq(Nat \cup {Newline})
           /\ FirstLine(Overwrite(file, Append(Digits[n], Newline))) = Digits[n]
<1> DEFINE S == Nat \cup {Newline}
           d == Digits[n]
           text == Append(d, Newline)
           new == Overwrite(file, text)
<1>1. d \in Seq(Nat) /\ \A k \in 1 .. Len(d) : d[k] # Newline
    BY PidLockAssumption
<1>2. d \in Seq(S)
    BY <1>1
<1>3. file \in Seq(S)
    BY DEF TypeOK
<1>4. text \in Seq(S) /\ Len(text) = Len(d) + 1 /\ text[Len(d) + 1] = Newline
      /\ \A k \in 1 .. Len(d) : text[k] = d[k]
    BY <1>2
<1> HIDE DEF d, text
<1>5. /\ new \in Seq(S) /\ Len(new) >= Len(text)
      /\ \A k \in 1 .. Len(text) : new[k] = text[k]
    BY <1>3, <1>4, OverwriteType
<1> HIDE DEF new, S
<1>6. \A k \in 1 .. Len(d) : new[k] = d[k] /\ d[k] # Newline
    BY <1>1, <1>4, <1>5
<1>7. new[Len(d) + 1] = Newline /\ Len(new) >= Len(d) + 1
    BY <1>1, <1>4, <1>5
<1>8. FirstLine(new) = d
    BY <1>2, <1>5, <1>6, <1>7, FirstLineOf
<1> QED
    BY <1>5, <1>8 DEF new, text, d, S

-----------------------------------------------------------------------------
LEMMA InitInv == Init => IInv
<1> SUFFICES ASSUME Init PROVE IInv
    OBVIOUS
<1>1. TypeOK
    BY DEF Init, TypeOK, Steps
<1> QED
    BY <1>1 DEF Init, IInv, Holds, Serves, OneInstance, FileNamesHolder, Locked

\* A step of daemonize, or the start of an instance, or the open of the file: the
\* instance moves among the steps before the lock.
LEMMA BeforeLock ==
    ASSUME IInv, NEW n \in Instances,
           NEW l \in Steps \ Locked, pc[n] \notin Locked,
           Goto(n, l), UNCHANGED <<holder, file, ports>>
    PROVE  IInv'
<1> USE DEF IInv
<1>1. pc' = [pc EXCEPT ![n] = l] /\ pc' \in [Instances -> Steps]
    BY DEF Goto, TypeOK
<1>2. \A m \in Instances : pc'[m] \in Locked <=> pc[m] \in Locked
    BY <1>1 DEF TypeOK
<1>3. \A m \in Instances : pc'[m] \in Locked => pc'[m] = pc[m]
    BY <1>1 DEF TypeOK
<1>4. TypeOK'
    BY <1>1 DEF TypeOK
<1>5. Holds' /\ OneInstance'
    BY <1>2 DEF Holds, OneInstance
<1>6. Serves' /\ FileNamesHolder'
    BY <1>1, <1>2, <1>3 DEF Serves, FileNamesHolder, Locked, TypeOK
<1> QED
    BY <1>4, <1>5, <1>6

LEMMA LockKeeps == ASSUME IInv, NEW n \in Instances, Lock(n) PROVE IInv'
<1> USE DEF IInv
<1>1. CASE holder = {}
    <2>1. /\ pc[n] = "lockf" /\ pc' = [pc EXCEPT ![n] = "write"]
          /\ holder' = {n} /\ UNCHANGED <<file, ports>>
        BY <1>1 DEF Lock, Goto
    <2>2. \A m \in Instances : pc[m] \notin Locked
        BY <1>1 DEF Holds
    <2>3. TypeOK'
        BY <2>1 DEF TypeOK, Steps
    <2>4. Holds' /\ OneInstance'
        BY <2>1, <2>2 DEF Holds, OneInstance, Locked, TypeOK
    <2>5. Serves' /\ FileNamesHolder'
        BY <2>1, <2>2 DEF Serves, FileNamesHolder, Locked, TypeOK
    <2> QED
        BY <2>3, <2>4, <2>5
<1>2. CASE holder # {}
    <2>1. pc[n] = "lockf" /\ Goto(n, "down") /\ UNCHANGED <<holder, file, ports>>
        BY <1>2 DEF Lock
    <2> QED
        BY <2>1, BeforeLock DEF Steps, Locked
<1> QED
    BY <1>1, <1>2

LEMMA WriteKeeps == ASSUME IInv, NEW n \in Instances, WritePid(n) PROVE IInv'
<1> USE DEF IInv
<1>1. /\ pc[n] = "write" /\ pc' = [pc EXCEPT ![n] = "bind"]
      /\ UNCHANGED <<holder, ports>>
      /\ file' = Overwrite(file, Append(Digits[n], Newline))
    BY DEF WritePid, Goto
<1>2. file' \in Seq(Nat \cup {Newline}) /\ FirstLine(file') = Digits[n]
    BY <1>1, WrittenName
<1>3. TypeOK'
    BY <1>1, <1>2 DEF TypeOK, Steps
<1>4. Holds' /\ OneInstance' /\ Serves'
    BY <1>1 DEF Holds, OneInstance, Serves, Locked, TypeOK
<1>5. \A m \in Instances : pc'[m] \in {"bind", "up"} => m = n
    BY <1>1 DEF OneInstance, Locked, TypeOK
<1>6. FileNamesHolder'
    BY <1>2, <1>5 DEF FileNamesHolder
<1> QED
    BY <1>3, <1>4, <1>6

LEMMA GoneKeeps == ASSUME IInv, NEW n \in Instances, Gone(n) PROVE IInv'
<1> USE DEF IInv
<1>1. /\ pc' = [pc EXCEPT ![n] = "down"] /\ holder' = holder \ {n}
      /\ ports' = [ports EXCEPT ![n] = ports[n] \ {"daemon"}] /\ UNCHANGED file
    BY DEF Gone, Goto
<1>2. TypeOK'
    BY <1>1 DEF TypeOK, Steps
<1>3. Holds' /\ OneInstance'
    BY <1>1 DEF Holds, OneInstance, Locked, TypeOK
<1>4. Serves' /\ FileNamesHolder'
    BY <1>1 DEF Serves, FileNamesHolder, TypeOK
<1> QED
    BY <1>2, <1>3, <1>4

LEMMA BindKeeps == ASSUME IInv, NEW n \in Instances, Bind(n) PROVE IInv'
<1> USE DEF IInv
<1>1. CASE \A m \in Instances : ports[m] = {}
    <2>1. /\ pc[n] = "bind" /\ pc' = [pc EXCEPT ![n] = "up"]
          /\ ports' = [ports EXCEPT ![n] = {"daemon"}] /\ UNCHANGED <<holder, file>>
        BY <1>1 DEF Bind, Goto
    <2>2. TypeOK'
        BY <2>1 DEF TypeOK, Steps
    <2>3. Holds' /\ OneInstance'
        BY <2>1 DEF Holds, OneInstance, Locked, TypeOK
    <2>4. Serves' /\ FileNamesHolder'
        BY <2>1 DEF Serves, FileNamesHolder, TypeOK
    <2> QED
        BY <2>2, <2>3, <2>4
<1>2. CASE ~ \A m \in Instances : ports[m] = {}
    BY <1>2, GoneKeeps DEF Bind
<1> QED
    BY <1>1, <1>2

LEMMA JobKeeps ==
    ASSUME IInv, NEW n \in Instances, JobStarts(n) \/ JobEnds(n)
    PROVE  IInv'
<1> USE DEF IInv
<1>1. \E S \in SUBSET {"daemon", "job"} :
          /\ ports' = [ports EXCEPT ![n] = S]
          /\ "daemon" \in S <=> "daemon" \in ports[n]
    BY DEF JobStarts, JobEnds, TypeOK
<1>2. UNCHANGED <<pc, holder, file>>
    BY DEF JobStarts, JobEnds
<1>3. TypeOK'
    BY <1>1, <1>2 DEF TypeOK
<1>4. Holds' /\ OneInstance' /\ FileNamesHolder'
    BY <1>2 DEF Holds, OneInstance, FileNamesHolder
<1>5. Serves'
    BY <1>1, <1>2 DEF Serves, TypeOK
<1> QED
    BY <1>3, <1>4, <1>5

LEMMA NextInv == IInv /\ [Next]_vars => IInv'
<1> SUFFICES ASSUME IInv, [Next]_vars PROVE IInv'
    OBVIOUS
<1>1. CASE UNCHANGED vars
    BY <1>1 DEF vars, IInv, TypeOK, Holds, OneInstance, Serves, FileNamesHolder
<1>2. ASSUME NEW n \in Instances, Begin(n) PROVE IInv'
    BY <1>2, BeforeLock DEF Begin, Steps, Locked
<1>3. ASSUME NEW n \in Instances, daemonize(n) PROVE IInv'
    BY <1>3, BeforeLock DEF daemonize, Steps, Locked
<1>4. ASSUME NEW n \in Instances, OpenFile(n) PROVE IInv'
    BY <1>4, BeforeLock DEF OpenFile, Steps, Locked
<1>5. ASSUME NEW n \in Instances, Crash(n) PROVE IInv'
    BY <1>5, GoneKeeps DEF Crash
<1> QED
    BY <1>1, <1>2, <1>3, <1>4, <1>5, LockKeeps, WriteKeeps, BindKeeps, JobKeeps
       DEF Next, Startup

\* No interleaving of starts, crashes and ends leads out of the invariant.
THEOREM Invariant == Spec => []IInv
<1> QED
    BY InitInv, NextInv, PTL DEF Spec

\* Of any number of instances, at most one is past lock_pid_file (daemon/server.c:543).
THEOREM SingleInstance == Spec => []OneInstance
<1>1. IInv => OneInstance
    BY DEF IInv
<1> QED
    BY <1>1, Invariant, PTL

\* Whatever the lengths of the process ids, the PID file names the instance that has
\* written it, although the file is never truncated (daemon/server.c:690 and :704).
THEOREM FileNames == Spec => []FileNamesHolder
<1>1. IInv => FileNamesHolder
    BY DEF IInv
<1> QED
    BY <1>1, Invariant, PTL

-----------------------------------------------------------------------------
(* The refinement.                                                         *)

Server == {n \in Instances : "daemon" \in ports[n]}

\* What the invariant says in terms of OneServer.
LEMMA OwnerAlone ==
    ASSUME IInv, NEW n \in Instances, pc[n] \in Locked
    PROVE  /\ holder = {n}
           /\ Server = IF pc[n] = "up" THEN {n} ELSE {}
           /\ pc[n] \in {"bind", "up"} => FirstLine(file) = Digits[n]
BY DEF IInv, Holds, OneInstance, Serves, FileNamesHolder, Server, Locked

LEMMA InitImplements == Init => Election!Init
<1> SUFFICES ASSUME Init PROVE Election!Init
    OBVIOUS
<1>1. holder = {} /\ {n \in Instances : "daemon" \in ports[n]} = {}
    BY DEF Init
<1>2. FirstLine(<<>>) = <<>>
    BY DEF FirstLine
<1> QED
    BY <1>1, <1>2 DEF Init, Election!Init

LEMMA GoneImplements ==
    ASSUME IInv, NEW n \in Instances, Gone(n)
    PROVE  Election!Retire(n) \/ UNCHANGED Election!vars
<1>1. /\ holder' = holder \ {n} /\ file' = file
      /\ ports' = [ports EXCEPT ![n] = ports[n] \ {"daemon"}]
    BY DEF Gone
<1>2. Server' = Server \ {n} /\ FirstLine(file)' = FirstLine(file)
    BY <1>1 DEF Server, IInv, TypeOK
<1>3. CASE pc[n] \in Locked
    <2>1. holder = {n} /\ holder' = {} /\ Server' = {}
        BY <1>1, <1>2, <1>3, OwnerAlone
    <2> QED
        BY <1>2, <2>1 DEF Election!Retire, Server
<1>4. CASE pc[n] \notin Locked
    <2>1. n \notin holder /\ n \notin Server
        BY <1>4 DEF IInv, Holds, Serves, Server, Locked
    <2>2. holder' = holder /\ Server' = Server
        BY <1>1, <1>2, <2>1
    <2> QED
        BY <1>2, <2>2 DEF Election!vars, Server
<1> QED
    BY <1>3, <1>4

LEMMA LockImplements ==
    ASSUME IInv, NEW n \in Instances, Lock(n)
    PROVE  Election!Claim(n) \/ UNCHANGED Election!vars
<1>1. UNCHANGED <<file, ports>>
    BY DEF Lock
<1>2. FirstLine(file)' = FirstLine(file) /\ Server' = Server
    BY <1>1 DEF Server
<1>3. \/ holder = {} /\ holder' = {n}
      \/ UNCHANGED holder
    BY DEF Lock
<1> QED
    BY <1>2, <1>3 DEF Election!Claim, Election!vars, Server

LEMMA WriteImplements ==
    ASSUME IInv, NEW n \in Instances, WritePid(n)
    PROVE  Election!Publish(n)
<1>1. /\ pc[n] = "write" /\ UNCHANGED <<holder, ports>>
      /\ file' = Overwrite(file, Append(Digits[n], Newline))
    BY DEF WritePid
<1>2. FirstLine(file)' = Digits[n]
    BY <1>1, WrittenName DEF IInv
<1>3. holder = {n} /\ Server = {}
    BY <1>1, OwnerAlone DEF Locked
<1>4. Server' = Server
    BY <1>1 DEF Server
<1> QED
    BY <1>1, <1>2, <1>3, <1>4 DEF Election!Publish, Server

LEMMA BindImplements ==
    ASSUME IInv, NEW n \in Instances, Bind(n)
    PROVE  Election!Serve(n) \/ Election!Retire(n) \/ UNCHANGED Election!vars
<1>1. CASE \A m \in Instances : ports[m] = {}
    <2>1. /\ pc[n] = "bind" /\ UNCHANGED <<holder, file>>
          /\ ports' = [ports EXCEPT ![n] = {"daemon"}]
        BY <1>1 DEF Bind
    <2>2. holder = {n} /\ Server = {} /\ FirstLine(file) = Digits[n]
        BY <2>1, OwnerAlone DEF Locked
    <2>3. Server' = {n} /\ FirstLine(file)' = FirstLine(file)
        BY <1>1, <2>1 DEF Server, IInv, TypeOK
    <2> QED
        BY <2>1, <2>2, <2>3 DEF Election!Serve, Server
<1>2. CASE ~ \A m \in Instances : ports[m] = {}
    BY <1>2, GoneImplements DEF Bind
<1> QED
    BY <1>1, <1>2

LEMMA JobImplements ==
    ASSUME IInv, NEW n \in Instances, JobStarts(n) \/ JobEnds(n)
    PROVE  UNCHANGED Election!vars
<1>1. UNCHANGED <<holder, file>>
    BY DEF JobStarts, JobEnds
<1>2. \A m \in Instances : "daemon" \in ports'[m] <=> "daemon" \in ports[m]
    BY DEF JobStarts, JobEnds, IInv, TypeOK
<1>3. Server' = Server /\ FirstLine(file)' = FirstLine(file)
    BY <1>1, <1>2 DEF Server
<1> QED
    BY <1>1, <1>3 DEF Election!vars, Server

LEMMA StepImplements == IInv /\ [Next]_vars => [Election!Next]_(Election!vars)
<1> SUFFICES ASSUME IInv, [Next]_vars
             PROVE  Election!Next \/ UNCHANGED Election!vars
    OBVIOUS
<1>1. ASSUME UNCHANGED <<holder, file, ports>> PROVE UNCHANGED Election!vars
    <2>1. FirstLine(file)' = FirstLine(file) /\ Server' = Server
        BY <1>1 DEF Server
    <2> QED
        BY <1>1, <2>1 DEF Election!vars, Server
<1>2. CASE UNCHANGED vars
    BY <1>1, <1>2 DEF vars
<1>3. ASSUME NEW n \in Instances, Begin(n) \/ daemonize(n) \/ OpenFile(n)
      PROVE  UNCHANGED Election!vars
    BY <1>1, <1>3 DEF Begin, daemonize, OpenFile
<1>4. ASSUME NEW n \in Instances, Lock(n) \/ WritePid(n) \/ Bind(n) \/ Crash(n)
      PROVE  Election!Next \/ UNCHANGED Election!vars
    BY <1>4, LockImplements, WriteImplements, BindImplements, GoneImplements
       DEF Crash, Election!Next
<1>5. ASSUME NEW n \in Instances, JobStarts(n) \/ JobEnds(n)
      PROVE  UNCHANGED Election!vars
    BY <1>5, JobImplements
<1> QED
    BY <1>2, <1>3, <1>4, <1>5 DEF Next, Startup

\* The start of yashd, with crashes at any step and programs that outlive it, passes
\* on ownership, name and port as OneServer does.
THEOREM Refinement == Spec => Implements
<1> QED
    BY InitImplements, StepImplements, Invariant, PTL DEF Spec, Implements, Election!Spec
=============================================================================
