--------------------------- MODULE SessionProofs ----------------------------
(***************************************************************************)
(* Proofs about Session, for any choice of versions and inputs and any     *)
(* number of messages: which messages are answered, and whom the client's  *)
(* reader signals.                                                         *)
(***************************************************************************)
EXTENDS Session, SequenceTheorems, TLAPS

\* Messages whose prompt is still to come: those on their way and the one being run, or
\* the one that has begun a collection.
AtWork == {"busy", "hung", "prompt", "collect"}
Running == IF thread \in AtWork THEN 1 ELSE 0
Owed == shown + down + Len(up) + Running

\* Every prompt has its own message.
NoneTwice == Owed <= sent

\* A user who waits for the prompt has one message under way at most.
OneAtATime ==
    version # "daemon" /\ Waiting /\ ~Closed /\ thread \in {"recv"} \cup AtWork =>
        Owed = sent /\ sent <= shown + 1

\* What the two processes of the client know of each other.
Processes ==
    /\ version # "daemon" => thread \notin {"collect", "left"}
    /\ thread = "ended" => Closed
    /\ thread # "dead" /\ reader # "gone" => shower \in {"up", "crashed"}
    /\ version # "daemon" => shower # "crashed"

IInv == TypeOK /\ NoneTwice /\ OneAtATime /\ Processes /\ NoStray

-----------------------------------------------------------------------------
LEMMA InitInv == Init => IInv
<1> SUFFICES ASSUME Init PROVE IInv
    OBVIOUS
<1>1. TypeOK
    BY EmptySeq DEF Init, TypeOK
<1>2. Owed = 0 /\ sent = 0 /\ shown = 0
    BY EmptySeq DEF Init, Owed, Running, AtWork
<1> QED
    BY <1>1, <1>2 DEF Init, IInv, NoneTwice, OneAtATime, Processes, NoStray, Closed, AtWork

\* The sum changes with its parts.
LEMMA OwedFacts ==
    ASSUME IInv
    PROVE  /\ Len(up) \in Nat /\ Running \in 0 .. 1 /\ Owed \in Nat
           /\ shown \in Nat /\ down \in Nat /\ sent \in Nat
    BY LenProperties DEF IInv, TypeOK, Running, Owed

\* What a message sent adds, in the order it is sent.
LEMMA SendFacts ==
    ASSUME IInv, NEW msgs \in Seq(Message), Send(msgs)
    PROVE  /\ up' \in Seq(Message) /\ sent' = sent + Len(msgs) /\ Len(msgs) \in Nat
           /\ sent' \in Nat /\ Len(up) \in Nat /\ Len(up') \in Nat
           /\ Len(up') <= Len(up) + Len(msgs)
           /\ Hears => Len(up') = Len(up) + Len(msgs)
<1>1. /\ Len(up) \in Nat /\ Len(msgs) \in Nat /\ up \o msgs \in Seq(Message)
      /\ Len(up \o msgs) = Len(up) + Len(msgs)
    BY ConcatProperties, LenProperties DEF IInv, TypeOK
<1> QED
    BY <1>1 DEF Send, IInv, TypeOK

\* A message of a client that sends one at a time.
LEMMA OneMoreKeeps ==
    ASSUME IInv, NEW m \in Message, Send(<<m>>), version # "daemon",
           patient => sent = shown,
           UNCHANGED <<version, patient, down, thread, extra_buf, shown>>,
           \/ UNCHANGED <<shower, reader, stray>>
           \/ reader = "up" /\ CloseAndKill
    PROVE  IInv'
<1>1. /\ up' \in Seq(Message) /\ sent' = sent + 1 /\ sent' \in Nat
      /\ Len(up) \in Nat /\ Len(up') \in Nat
      /\ Len(up') <= Len(up) + 1
      /\ Hears => Len(up') = Len(up) + 1
    <2>1. <<m>> \in Seq(Message) /\ Len(<<m>>) = 1
        OBVIOUS
    <2> QED
        BY <2>1, SendFacts
<1>2. TypeOK'
    BY <1>1 DEF IInv, TypeOK, CloseAndKill
<1>3. Running' = Running
    BY DEF Running
<1>4. Owed' <= Owed + 1 /\ (Hears => Owed' = Owed + 1)
    <2>1. Owed' = shown + down + Len(up') + Running /\ Owed = shown + down + Len(up) + Running
        BY <1>3 DEF Owed
    <2>2. Owed' <= Owed + 1
        BY <1>1, <2>1, OwedFacts
    <2>3. ASSUME Hears PROVE Owed' = Owed + 1
        <3>1. Len(up') = Len(up) + 1
            BY <1>1, <2>3
        <3> QED
            BY <1>1, <2>1, <3>1, OwedFacts
    <2> QED
        BY <2>2, <2>3
<1>5. NoneTwice'
    <2>1. Owed' \in Nat
        BY <1>1, <1>3, OwedFacts DEF Owed
    <2> QED
        BY <1>1, <1>4, <2>1, OwedFacts DEF IInv, NoneTwice
<1>6. OneAtATime'
    <2>1. ASSUME patient, reader # "atEof", ~Closed, thread \in {"recv"} \cup AtWork
          PROVE  Owed' = sent' /\ sent' <= shown' + 1
        <3>1. Hears /\ Owed = sent
            BY <2>1 DEF Hears, IInv, OneAtATime, Waiting, AtWork
        <3> QED
            BY <1>1, <1>4, <2>1, <3>1, OwedFacts
    <2>2. CASE UNCHANGED <<shower, reader, stray>>
        BY <2>1, <2>2 DEF OneAtATime, Waiting, Closed
    <2>3. CASE CloseAndKill
        BY <2>3 DEF CloseAndKill, OneAtATime, Closed
    <2> QED
        BY <2>2, <2>3
<1>7. Processes' /\ NoStray'
    BY DEF IInv, TypeOK, Processes, NoStray, Closed, CloseAndKill
<1> QED
    BY <1>2, <1>5, <1>6, <1>7 DEF IInv

\* daemon/client.c promises less: only that no prompt comes without a message.
LEMMA DaemonKeeps ==
    ASSUME IInv, TypeOK', version' = "daemon", Owed' <= sent', Processes', NoStray'
    PROVE  IInv'
    BY DEF IInv, NoneTwice, OneAtATime

LEMMA TypeLineKeeps ==
    ASSUME IInv, NEW m \in Input, TypeLine(m), UNCHANGED settings PROVE IInv'
<1>1. /\ m \in Message /\ Send(<<m>>) /\ (patient => sent = shown)
      /\ UNCHANGED <<version, patient, down, thread, extra_buf, shower, reader, shown, stray>>
    BY DEF TypeLine, MayAct, Message, serverVars, settings
<1>2. CASE version = "daemon"
    <2>1. <<m>> \in Seq(Message) /\ Len(<<m>>) = 1
        BY <1>1
    <2>2. /\ up' \in Seq(Message) /\ sent' = sent + 1 /\ sent' \in Nat
          /\ Len(up) \in Nat /\ Len(up') \in Nat /\ Len(up') <= Len(up) + 1
        BY <1>1, <2>1, SendFacts
    <2>3. Owed' <= Owed + 1 /\ Owed' \in Nat
        BY <1>1, <2>2, OwedFacts DEF Owed, Running
    <2>4. Owed' <= sent'
        BY <2>2, <2>3, OwedFacts DEF IInv, NoneTwice
    <2>5. TypeOK'
        BY <1>1, <2>2 DEF IInv, TypeOK
    <2>6. Processes' /\ NoStray'
        BY <1>1 DEF IInv, Processes, NoStray, Closed
    <2> QED
        BY <1>1, <1>2, <2>4, <2>5, <2>6, DaemonKeeps
<1>3. CASE version # "daemon"
    BY <1>1, <1>3, OneMoreKeeps
<1> QED
    BY <1>2, <1>3

LEMMA SigHandlerKeeps ==
    ASSUME IInv, NEW key \in Input, sig_handler(key), UNCHANGED settings PROVE IInv'
<1>1. PICK s \in {"up", "gone", "crashed"}, r \in {"up", "gone"} :
          /\ IF shower = "up" THEN s # "gone" ELSE s = shower
          /\ (reader = "gone" => r = "gone")
          /\ shower' = s /\ reader' = r
          /\ Send((IF s = "up" THEN <<CtlOf(key)>> ELSE <<>>)
                  \o (IF r = "up" THEN <<CtlOf(key)>> ELSE <<>>))
    BY DEF sig_handler
<1> DEFINE one == IF s = "up" THEN <<CtlOf(key)>> ELSE <<>>
           two == IF r = "up" THEN <<CtlOf(key)>> ELSE <<>>
<1>2. version' = "daemon" /\ UNCHANGED <<patient, down, thread, extra_buf, shown, stray>>
    BY DEF sig_handler, serverVars, settings
<1>3. CtlOf(key) \in Message
    BY DEF CtlOf, Message
<1>4. one \in Seq(Message) /\ two \in Seq(Message)
    BY <1>3, EmptySeq
<1>5. one \o two \in Seq(Message)
    BY <1>4, ConcatProperties
<1>6. Send(one \o two)
    BY <1>1
<1> HIDE DEF one, two
<1>7. /\ up' \in Seq(Message) /\ sent' = sent + Len(one \o two) /\ Len(one \o two) \in Nat
      /\ sent' \in Nat /\ Len(up) \in Nat /\ Len(up') \in Nat
      /\ Len(up') <= Len(up) + Len(one \o two)
    BY <1>5, <1>6, SendFacts
<1>8. Owed' <= Owed + Len(one \o two) /\ Owed' \in Nat
    BY <1>2, <1>7, OwedFacts DEF Owed, Running
<1>9. Owed' <= sent'
    BY <1>7, <1>8, OwedFacts DEF IInv, NoneTwice
<1>10. TypeOK'
    BY <1>1, <1>2, <1>7 DEF IInv, TypeOK, settings, sig_handler
<1>11. Processes' /\ NoStray'
    BY <1>1, <1>2 DEF IInv, TypeOK, Processes, NoStray, Closed
<1> QED
    BY <1>2, <1>9, <1>10, <1>11, DaemonKeeps

LEMMA FloodKeeps == ASSUME IInv, Flood, UNCHANGED settings PROVE IInv'
<1>1. /\ reader = "atEof"
      /\ UNCHANGED <<version, patient, down, thread, extra_buf, shower, shown, stray>>
    BY DEF Flood, serverVars, settings
<1>2. CASE Hears
    <2>1. Send(<<"line">>) /\ UNCHANGED reader
        BY <1>2 DEF Flood
    <2>2. <<"line">> \in Seq(Message) /\ Len(<<"line">>) = 1
        BY DEF Message
    <2>3. /\ up' \in Seq(Message) /\ sent' = sent + 1 /\ sent' \in Nat
          /\ Len(up) \in Nat /\ Len(up') \in Nat /\ Len(up') <= Len(up) + 1
        BY <2>1, <2>2, SendFacts
    <2>4. Owed' <= Owed + 1 /\ Owed' \in Nat
        BY <1>1, <2>3, OwedFacts DEF Owed, Running
    <2>5. NoneTwice'
        BY <2>3, <2>4, OwedFacts DEF IInv, NoneTwice
    <2>6. TypeOK'
        BY <1>1, <2>1, <2>3 DEF IInv, TypeOK
    <2>7. OneAtATime' /\ Processes' /\ NoStray'
        BY <1>1, <2>1 DEF IInv, OneAtATime, Waiting, Processes, Closed, NoStray
    <2> QED
        BY <2>5, <2>6, <2>7 DEF IInv
<1>3. CASE ~Hears
    <2>1. reader' = "gone" /\ UNCHANGED <<up, sent>>
        BY <1>3 DEF Flood
    <2>2. Owed' = Owed
        BY <1>1, <2>1 DEF Owed, Running
    <2>3. TypeOK' /\ NoneTwice'
        BY <1>1, <2>1, <2>2 DEF IInv, TypeOK, NoneTwice
    <2>4. OneAtATime' /\ Processes' /\ NoStray'
        BY <1>1, <1>3, <2>1 DEF IInv, TypeOK, OneAtATime, Processes, Closed, NoStray, Hears,
                                AtWork
    <2> QED
        BY <2>3, <2>4 DEF IInv
<1> QED
    BY <1>2, <1>3

\* The ends of the client that send nothing.
LEMMA QuietKeeps ==
    ASSUME IInv, UNCHANGED settings, EndDaemon \/ Eof \/ EndPooja \/ InterruptPooja
    PROVE  IInv'
<1>1. UNCHANGED <<version, patient, up, down, thread, extra_buf, sent, shown>>
    BY DEF EndDaemon, Eof, EndPooja, InterruptPooja, serverVars, settings
<1>2. Owed' = Owed
    BY <1>1 DEF Owed, Running
<1>3. \/ reader = "up" /\ CloseAndKill
      \/ version = "pooja" /\ shower' = "gone" /\ reader' = "gone" /\ stray' = stray
      \/ shower' = shower /\ reader' = "atEof" /\ reader = "up" /\ stray' = stray
    BY DEF EndDaemon, Eof, EndPooja, InterruptPooja
<1>4. TypeOK'
    BY <1>1, <1>3 DEF IInv, TypeOK, CloseAndKill
<1>5. NoneTwice'
    BY <1>1, <1>2 DEF IInv, NoneTwice
<1>6. OneAtATime' /\ Processes' /\ NoStray'
    BY <1>1, <1>2, <1>3 DEF IInv, TypeOK, OneAtATime, Waiting, Processes, Closed, NoStray,
                            CloseAndKill
<1> QED
    BY <1>4, <1>5, <1>6 DEF IInv

LEMMA UserKeeps == ASSUME IInv, User, UNCHANGED settings PROVE IInv'
<1>1. ASSUME NEW key \in Input, handle_signal(key) PROVE IInv'
    <2>1. CtlOf(key) \in Message
        BY DEF CtlOf, Message
    <2> QED
        BY <1>1, <2>1, OneMoreKeeps DEF handle_signal, MayAct, serverVars, settings
<1>2. CASE EndSignals
    BY <1>2, OneMoreKeeps DEF EndSignals, MayAct, Message, serverVars, settings
<1> QED
    BY <1>1, <1>2, TypeLineKeeps, SigHandlerKeeps, FloodKeeps, QuietKeeps DEF User
LEMMA ShowKeeps == ASSUME IInv, Show, UNCHANGED settings PROVE IInv'
<1>1. /\ down > 0 /\ shown' = shown + 1 /\ down' = down - 1
      /\ UNCHANGED <<version, patient, up, thread, extra_buf, shower, reader, sent, stray>>
    BY DEF Show, serverVars, settings
<1>2. Owed' = Owed
    BY <1>1, OwedFacts DEF Owed, Running
<1>3. TypeOK'
    BY <1>1 DEF IInv, TypeOK
<1>4. NoneTwice'
    BY <1>1, <1>2 DEF IInv, NoneTwice
<1>5. OneAtATime'
    <2>1. sent <= shown + 1 => sent <= shown' + 1
        BY <1>1, OwedFacts
    <2> QED
        BY <1>1, <1>2, <2>1 DEF IInv, OneAtATime, Waiting, Closed
<1>6. Processes' /\ NoStray'
    BY <1>1 DEF IInv, Processes, NoStray, Closed
<1> QED
    BY <1>3, <1>4, <1>5, <1>6 DEF IInv

LEMMA DisconnectedKeeps == ASSUME IInv, Disconnected, UNCHANGED settings PROVE IInv'
<1>1. /\ ~Hears /\ shower = "up" /\ shower' = "gone"
      /\ UNCHANGED <<version, patient, up, down, thread, extra_buf, reader, sent, shown, stray>>
    BY DEF Disconnected, serverVars, settings
<1>2. Owed' = Owed
    BY <1>1 DEF Owed, Running
<1>3. TypeOK' /\ NoneTwice'
    BY <1>1, <1>2 DEF IInv, TypeOK, NoneTwice
<1>4. OneAtATime' /\ Processes' /\ NoStray'
    BY <1>1 DEF IInv, TypeOK, OneAtATime, Processes, NoStray, Closed, Hears, AtWork
<1> QED
    BY <1>3, <1>4 DEF IInv

\* A recv takes one message or more, and owes one prompt at most.
LEMMA ReceiveKeeps ==
    ASSUME IInv, NEW k \in 1 .. Len(up), Receive(k), thread \in {"recv", "collect"},
           UNCHANGED <<version, patient, clientVars, down>>,
           extra_buf' \in {"quit", "stale", "short"},
           thread' \in {"busy", "prompt", "collect", "left"},
           version # "daemon" => thread' \in {"busy", "prompt"}
    PROVE  IInv'
<1>1. UNCHANGED <<shower, reader, sent, shown, stray>>
    BY DEF clientVars
<1>2. /\ up' \in Seq(Message) /\ Len(up') = Len(up) - k
      /\ Len(up) \in Nat /\ k \in Nat /\ k >= 1
    <2>1. up \in Seq(Message) /\ Len(up) \in Nat
        BY LenProperties DEF IInv, TypeOK
    <2>2. \A i \in k + 1 .. Len(up) : up[i] \in Message
        BY <2>1, ElementOfSeq
    <2> QED
        BY <2>1, <2>2, SubSeqProperties DEF Receive
<1>3. /\ Running \in 0 .. 1 /\ Running' \in 0 .. 1
      /\ thread = "recv" => Running = 0
      /\ thread' \in AtWork => Running' = 1
    BY DEF Running, AtWork
<1>4. /\ Owed' \in Nat /\ Owed' <= Owed
      /\ k = 1 /\ thread = "recv" /\ thread' \in AtWork => Owed' = Owed
    <2>1. /\ Owed' = shown + down + (Len(up) - k) + Running'
          /\ Owed = shown + down + Len(up) + Running
        BY <1>1, <1>2, <1>3, OwedFacts DEF Owed
    <2>2. Len(up) - k \in Nat
        BY <1>2
    <2>3. Running' <= Running + 1 /\ Running \in Nat /\ Running' \in Nat
        BY <1>3
    <2>4. (Len(up) - k) + Running' <= Len(up) + Running
        BY <1>2, <2>2, <2>3
    <2>5. /\ shown \in Nat /\ down \in Nat
          /\ (Len(up) - k) + Running' \in Nat /\ Len(up) + Running \in Nat
        BY <1>2, <2>2, <2>3, OwedFacts
    <2>6. Owed' \in Nat /\ Owed' <= Owed
        BY <2>1, <2>4, <2>5, <2>2, <2>3, <1>2
    <2>7. ASSUME k = 1, thread = "recv", thread' \in AtWork PROVE Owed' = Owed
        BY <1>2, <1>3, <2>1, <2>7, OwedFacts
    <2> QED
        BY <2>6, <2>7
<1>5. TypeOK'
    BY <1>1, <1>2 DEF IInv, TypeOK
<1>6. NoneTwice'
    BY <1>1, <1>4, OwedFacts DEF IInv, NoneTwice
<1>7. OneAtATime'
    <2> SUFFICES ASSUME version # "daemon", Waiting, ~Closed
                 PROVE  Owed' = sent' /\ sent' <= shown' + 1
        BY <1>1 DEF OneAtATime, Waiting, Closed
    <2>1. thread = "recv" /\ thread' \in AtWork
        BY DEF IInv, Processes, AtWork
    <2>2. Owed = sent /\ sent <= shown + 1
        BY <2>1 DEF IInv, OneAtATime
    <2>3. Len(up) <= 1
        BY <1>3, <2>2, OwedFacts DEF Owed
    <2>4. k = 1
        BY <1>2, <2>3
    <2> QED
        BY <1>1, <1>4, <2>1, <2>2, <2>4
<1>8. Processes' /\ NoStray'
    BY <1>1 DEF IInv, Processes, NoStray, Closed, AtWork
<1> QED
    BY <1>5, <1>6, <1>7, <1>8 DEF IInv

LEMMA AnswerKeeps == ASSUME IInv, Answer, UNCHANGED settings PROVE IInv'
<1>1. /\ thread \in AtWork
      /\ \/ thread' = "recv" /\ down' = IF Closed THEN down ELSE down + 1
         \/ thread' = "dead" /\ down' = down
      /\ UNCHANGED <<version, patient, up, extra_buf, shower, reader, sent, shown, stray>>
    BY DEF Answer, clientVars, settings, AtWork
<1>2. Running = 1 /\ Running' = 0
    BY <1>1 DEF Running, AtWork
<1>3. /\ Owed' \in Nat /\ Owed' <= Owed
      /\ thread' = "recv" /\ ~Closed => Owed' = Owed
    BY <1>1, <1>2, OwedFacts DEF Owed
<1>4. TypeOK'
    BY <1>1 DEF IInv, TypeOK
<1>5. NoneTwice'
    BY <1>1, <1>3, OwedFacts DEF IInv, NoneTwice
<1>6. OneAtATime'
    BY <1>1, <1>3 DEF IInv, OneAtATime, Waiting, Closed, AtWork
<1>7. Processes' /\ NoStray'
    BY <1>1 DEF IInv, Processes, NoStray, Closed, AtWork
<1> QED
    BY <1>4, <1>5, <1>6, <1>7 DEF IInv

\* The ends of the thread and of the server.
LEMMA EndsKeep ==
    ASSUME IInv, HungUp \/ RecvFailsPooja \/ ServerDies, thread' # "busy", UNCHANGED settings
    PROVE  IInv'
<1>1. /\ up' \in {up, <<>>}
      /\ thread' = "dead" \/ (Closed /\ thread # "dead" /\ thread' = "ended")
      /\ UNCHANGED <<version, patient, down, extra_buf, shower, reader, sent, shown, stray>>
    BY DEF HungUp, RecvFailsPooja, ServerDies, clientVars, settings
<1>2. Running' = 0
    BY <1>1 DEF Running, AtWork
<1>3. up' \in Seq(Message) /\ Len(up') \in Nat /\ Len(up') <= Len(up)
    <2>1. up \in Seq(Message) /\ Len(up) \in Nat
        BY LenProperties DEF IInv, TypeOK
    <2>2. CASE up' = up
        BY <2>1, <2>2
    <2>3. CASE up' = <<>>
        <3>1. up' \in Seq(Message) /\ Len(up') = 0
            BY <2>3, EmptySeq
        <3> QED
            BY <2>1, <3>1
    <2> QED
        BY <1>1, <2>2, <2>3
<1>4. Owed' \in Nat /\ Owed' <= Owed
    BY <1>1, <1>2, <1>3, OwedFacts DEF Owed
<1>5. TypeOK'
    BY <1>1, <1>3 DEF IInv, TypeOK
<1>6. NoneTwice'
    BY <1>1, <1>4, OwedFacts DEF IInv, NoneTwice
<1>7. OneAtATime'
    BY <1>1 DEF OneAtATime, AtWork
<1>8. Processes' /\ NoStray'
    BY <1>1 DEF IInv, Processes, NoStray, Closed
<1> QED
    BY <1>5, <1>6, <1>7, <1>8 DEF IInv

\* A line that never ends, and one that is run again when its client has hung up.
LEMMA BusyKeeps ==
    ASSUME IInv, UNCHANGED settings,
           NeverEnds \/ (HungUp /\ thread' = "busy")
    PROVE  IInv'
<1>1. /\ UNCHANGED <<version, patient, up, down, extra_buf, shower, reader, sent, shown, stray>>
      /\ \/ thread = "busy" /\ thread' = "hung"
         \/ thread = "collect" /\ thread' = "busy" /\ Closed
    BY DEF NeverEnds, HungUp, clientVars, settings
<1>2. Owed' = Owed
    BY <1>1 DEF Owed, Running, AtWork
<1>3. TypeOK' /\ NoneTwice' /\ Processes' /\ NoStray'
    BY <1>1, <1>2 DEF IInv, TypeOK, NoneTwice, Processes, NoStray, Closed
<1>4. OneAtATime'
    BY <1>1, <1>2 DEF IInv, OneAtATime, Waiting, Closed, AtWork
<1> QED
    BY <1>3, <1>4 DEF IInv

LEMMA ThreadKeeps == ASSUME IInv, Thread, UNCHANGED settings PROVE IInv'
<1>1. ASSUME NEW k \in 1 .. Len(up), HandleDaemon(k) \/ HandleSignals(k) \/ HandlePooja(k)
      PROVE  IInv'
    BY <1>1, ReceiveKeeps DEF HandleDaemon, HandleSignals, HandlePooja, settings, IInv, TypeOK,
                              AtWork
<1>2. ASSUME NEW k \in 1 .. Len(up), Collect(k) PROVE IInv'
    <2>1. /\ version = "daemon" /\ thread' \in {"busy", "collect"}
          /\ extra_buf' \in {"quit", "stale", "short"}
        BY <1>2 DEF Collect, Shorter, IInv, Processes, TypeOK
    <2> QED
        BY <1>2, <2>1, ReceiveKeeps DEF Collect, settings
<1>3. CASE HungUp
    BY <1>3, BusyKeeps, EndsKeep
<1>4. CASE RecvFailsPooja
    BY <1>4, EndsKeep DEF RecvFailsPooja
<1> QED
    BY <1>1, <1>2, <1>3, <1>4, AnswerKeeps DEF Thread

LEMMA NextInv == IInv /\ [Next]_vars => IInv'
<1> SUFFICES ASSUME IInv, [Next]_vars PROVE IInv'
    OBVIOUS
<1>1. CASE Next
    <2>1. ServerDies => thread' # "busy"
        BY DEF ServerDies
    <2> QED
        BY <1>1, <2>1, UserKeeps, ShowKeeps, DisconnectedKeeps, ThreadKeeps, BusyKeeps, EndsKeep
        DEF Next
<1>2. CASE UNCHANGED vars
    BY <1>2 DEF vars, settings, clientVars, serverVars, IInv, TypeOK, NoneTwice, OneAtATime,
                Owed, Running, Waiting, Processes, NoStray, Closed
<1> QED
    BY <1>1, <1>2

-----------------------------------------------------------------------------
\* The invariant holds whatever the user does, however recv joins the messages, and
\* whoever dies.
THEOREM Invariant == Spec => []IInv
<1> QED
    BY InitInv, NextInv, PTL DEF Spec

\* No prompt comes twice or before its message (daemon/server.c:815 and
\* signals/server.c:847).
THEOREM NoPromptEarly == Spec => []NoEarlyPrompt
<1>1. IInv => NoEarlyPrompt
    BY OwedFacts DEF IInv, NoneTwice, Owed, NoEarlyPrompt
<1> QED
    BY <1>1, Invariant, PTL

\* Who waits for the prompt loses no message: each is answered, an interrupt too
\* (signals/server.c:847).
THEOREM EachMessageAnswered == Spec => []EveryMessageAnswered
<1>1. IInv => EveryMessageAnswered
    <2> SUFFICES ASSUME IInv, version # "daemon", Waiting, thread = "recv", up = <<>>, ~Closed
                 PROVE  shown + down = sent
        BY DEF EveryMessageAnswered
    <2>1. Owed = sent
        BY DEF IInv, OneAtATime
    <2>2. Owed = shown + down
        BY OwedFacts, EmptySeq DEF Owed, Running, AtWork
    <2> QED
        BY <2>1, <2>2
<1> QED
    BY <1>1, Invariant, PTL

\* The reader's signal at the end (daemon/client.c:153, signals/client.c:169,
\* pooja/client.c:126) reaches its own parent, in every version, unless that parent has
\* gone before it: because the server had ended, or by the handler that writes through a
\* pointer nobody has set (daemon/client.c:32).
THEOREM NeverStray == Spec => []NoStray
<1>1. IInv => NoStray
    BY DEF IInv
<1> QED
    BY <1>1, Invariant, PTL
=============================================================================
