--------------------------- MODULE CollectProofs ----------------------------
(***************************************************************************)
(* Proofs about RunYash and Collect, for any finite set of clients: each   *)
(* step of Collect is a step of run_yash or leaves its state alone, so     *)
(* that what is proved about run_yash holds with the collection of input   *)
(* as well.                                                                *)
(***************************************************************************)
EXTENDS Collect, FiniteSetTheorems, SequenceTheorems, TLAPS

Running == {c \in Clients : pc[c] # "recv"}

\* Each line that runs has one saved descriptor.
Saved == dups = Cardinality(Running)

\* Text waits in the buffer only between process_cmd and fflush of its own thread.
Buffered == \A c \in buffer : pc[c] = "fflush"

\* A line that runs alone has descriptor 1 for itself from dup2 to the restoration.
Alone ==
    ~mixed =>
        /\ \A c, d \in Running : c = d
        /\ \A c \in Clients : pc[c] \in {"process_cmd", "fflush", "restore"} => stdout = c

IInv == TypeOK /\ Saved /\ Buffered /\ Alone /\ OwnOutput

-----------------------------------------------------------------------------
LEMMA InitInv == Init => IInv
<1> SUFFICES ASSUME Init PROVE IInv
    OBVIOUS
<1>1. TypeOK
    <2>1. got \in [Clients -> SUBSET Clients]
        BY DEF Init
    <2>2. lines \in 0 .. MaxLines /\ dups \in Nat
        BY RunYashAssumption DEF Init
    <2>3. saved \in [Clients -> Clients \cup {"null"}]
        BY DEF Init
    <2>4. /\ pc \in [Clients -> {"recv", "dup2", "process_cmd", "fflush", "restore", "close"}]
          /\ stdout \in Clients \cup {"null"} /\ buffer \subseteq Clients /\ mixed \in BOOLEAN
        BY DEF Init
    <2> QED
        BY <2>1, <2>2, <2>3, <2>4 DEF TypeOK
<1>2. Running = {}
    BY DEF Init, Running
<1>3. Saved
    BY <1>2, FS_EmptySet DEF Init, Saved
<1> QED
    BY <1>1, <1>2, <1>3 DEF Init, IInv, Buffered, Alone, OwnOutput

LEMMA RunningFinite == IsFiniteSet(Running)
    BY RunYashAssumption, FS_Subset DEF Running

LEMMA SaveKeeps == ASSUME IInv, NEW c \in Clients, Save(c) PROVE IInv'
<1>1. /\ pc[c] = "recv" /\ pc' = [pc EXCEPT ![c] = "dup2"]
      /\ saved' = [saved EXCEPT ![c] = stdout] /\ dups' = dups + 1
      /\ lines < MaxLines /\ lines' = lines + 1 /\ mixed' = (mixed \/ ~Idle)
      /\ UNCHANGED <<stdout, buffer, got>>
    BY DEF Save, At
<1>2. TypeOK'
    BY <1>1, RunYashAssumption DEF IInv, TypeOK
<1>3. Running' = Running \cup {c} /\ c \notin Running
    BY <1>1 DEF Running, IInv, TypeOK
<1>4. Saved'
    BY <1>1, <1>3, RunningFinite, FS_AddElement DEF Saved, IInv
<1>5. Buffered'
    BY <1>1 DEF Buffered, IInv, TypeOK
<1>6. Alone'
    BY <1>1, <1>3 DEF Alone, Idle, Running, IInv, TypeOK
<1>7. OwnOutput'
    BY <1>1 DEF OwnOutput, IInv
<1> QED
    BY <1>2, <1>4, <1>5, <1>6, <1>7 DEF IInv

LEMMA RedirectKeeps == ASSUME IInv, NEW c \in Clients, Redirect(c) PROVE IInv'
<1>1. /\ pc[c] = "dup2" /\ pc' = [pc EXCEPT ![c] = "process_cmd"]
      /\ stdout' = c
      /\ UNCHANGED <<saved, buffer, got, dups, lines, mixed>>
    BY DEF Redirect, At
<1>2. TypeOK'
    BY <1>1 DEF IInv, TypeOK
<1>3. Running' = Running /\ c \in Running
    BY <1>1 DEF Running, IInv, TypeOK
<1>4. Saved' /\ Buffered' /\ OwnOutput'
    BY <1>1, <1>3 DEF Saved, Buffered, OwnOutput, IInv, TypeOK
<1>5. Alone'
    BY <1>1, <1>3 DEF Alone, Running, IInv, TypeOK
<1> QED
    BY <1>2, <1>4, <1>5 DEF IInv

LEMMA ProcessCmdKeeps == ASSUME IInv, NEW c \in Clients, ProcessCmd(c) PROVE IInv'
<1>1. /\ pc[c] = "process_cmd" /\ pc' = [pc EXCEPT ![c] = "fflush"]
      /\ buffer' \in {buffer, buffer \cup {c}}
      /\ \E S \in SUBSET {c} : Reaches(S)
      /\ UNCHANGED <<stdout, saved, dups, lines, mixed>>
    BY DEF ProcessCmd, At
<1>2. /\ got' \in [Clients -> SUBSET Clients]
      /\ \A d \in Clients : got'[d] \subseteq got[d] \cup (IF d = stdout THEN {c} ELSE {})
    BY <1>1 DEF Reaches, IInv, TypeOK
<1>3. TypeOK'
    BY <1>1, <1>2 DEF IInv, TypeOK
<1>4. Running' = Running
    BY <1>1 DEF Running, IInv, TypeOK
<1>5. Saved' /\ Buffered'
    BY <1>1, <1>4 DEF Saved, Buffered, IInv, TypeOK
<1>6. Alone'
    BY <1>1, <1>4 DEF Alone, IInv, TypeOK
<1>7. OwnOutput'
    BY <1>1, <1>2 DEF OwnOutput, Alone, IInv
<1> QED
    BY <1>3, <1>5, <1>6, <1>7 DEF IInv

LEMMA FlushKeeps == ASSUME IInv, NEW c \in Clients, Flush(c) PROVE IInv'
<1>1. /\ pc[c] = "fflush" /\ pc' = [pc EXCEPT ![c] = "restore"]
      /\ got' = [d \in Clients |-> IF d = stdout THEN got[d] \cup buffer ELSE got[d]]
      /\ buffer' = {}
      /\ UNCHANGED <<stdout, saved, dups, lines, mixed>>
    BY DEF Flush, At, Reaches
<1>2. TypeOK'
    BY <1>1 DEF IInv, TypeOK
<1>3. Running' = Running /\ c \in Running
    BY <1>1 DEF Running, IInv, TypeOK
<1>4. Saved' /\ Buffered'
    BY <1>1, <1>3 DEF Saved, Buffered, IInv
<1>5. Alone'
    BY <1>1, <1>3 DEF Alone, IInv, TypeOK
<1>6. ~mixed => buffer \subseteq {c} /\ stdout = c
    BY <1>1, <1>3 DEF Alone, Buffered, Running, IInv, TypeOK
<1>7. OwnOutput'
    BY <1>1, <1>6 DEF OwnOutput, IInv
<1> QED
    BY <1>2, <1>4, <1>5, <1>7 DEF IInv

LEMMA RestoreKeeps == ASSUME IInv, NEW c \in Clients, Restore(c) PROVE IInv'
<1>1. /\ pc[c] = "restore" /\ pc' = [pc EXCEPT ![c] = "close"]
      /\ stdout' = saved[c]
      /\ UNCHANGED <<saved, buffer, got, dups, lines, mixed>>
    BY DEF Restore, At, PointBack
<1>2. TypeOK'
    BY <1>1 DEF IInv, TypeOK
<1>3. Running' = Running /\ c \in Running
    BY <1>1 DEF Running, IInv, TypeOK
<1>4. Saved' /\ Buffered' /\ OwnOutput'
    BY <1>1, <1>3 DEF Saved, Buffered, OwnOutput, IInv, TypeOK
<1>5. Alone'
    BY <1>1, <1>3 DEF Alone, Running, IInv, TypeOK
<1> QED
    BY <1>2, <1>4, <1>5 DEF IInv

LEMMA CloseSavedKeeps == ASSUME IInv, NEW c \in Clients, CloseSaved(c) PROVE IInv'
<1>1. /\ pc[c] = "close" /\ pc' = [pc EXCEPT ![c] = "recv"] /\ dups' = dups - 1
      /\ UNCHANGED <<stdout, saved, got, lines, mixed, buffer>>
    BY DEF CloseSaved, At, Drop
<1>2. Running' = Running \ {c} /\ c \in Running
    BY <1>1 DEF Running, IInv, TypeOK
<1>3. /\ Cardinality(Running') = Cardinality(Running) - 1
      /\ Cardinality(Running') \in Nat /\ Cardinality(Running) \in Nat
    <2>1. IsFiniteSet(Running')
        BY <1>2, RunningFinite, FS_RemoveElement
    <2> QED
        BY <1>2, <2>1, RunningFinite, FS_RemoveElement, FS_CardinalityType
<1>4. Saved'
    BY <1>1, <1>3 DEF Saved, IInv
<1>5. dups' \in Nat
    BY <1>3, <1>4 DEF Saved
<1>6. TypeOK'
    BY <1>1, <1>5 DEF IInv, TypeOK
<1>7. Buffered' /\ OwnOutput'
    BY <1>1 DEF Buffered, OwnOutput, IInv, TypeOK
<1>8. Alone'
    BY <1>1, <1>2 DEF Alone, IInv, TypeOK
<1> QED
    BY <1>4, <1>6, <1>7, <1>8 DEF IInv

LEMMA NextInv == IInv /\ [Next]_vars => IInv'
<1> SUFFICES ASSUME IInv, [Next]_vars PROVE IInv'
    OBVIOUS
<1>1. CASE Next
    BY <1>1, SaveKeeps, RedirectKeeps, ProcessCmdKeeps, FlushKeeps, RestoreKeeps,
       CloseSavedKeeps DEF Next
<1>2. CASE UNCHANGED vars
    BY <1>2 DEF vars, IInv, TypeOK, Saved, Running, Buffered, Alone, OwnOutput
<1> QED
    BY <1>1, <1>2

-----------------------------------------------------------------------------
\* The invariant of run_yash (daemon/server.c:708), whatever the order of the threads.
THEOREM Invariant == Spec => []IInv
<1> QED
    BY InitInv, NextInv, PTL DEF Spec

LEMMA StepSimulation == [CollectNext]_allVars => [Next]_vars
<1> SUFFICES ASSUME [CollectNext]_allVars PROVE [Next]_vars
    OBVIOUS
<1>1. CASE UNCHANGED allVars
    BY <1>1 DEF allVars
<1>2. ASSUME NEW c \in Clients, NEW request, Ask(c, request) PROVE UNCHANGED vars
    BY <1>2 DEF Ask
<1>3. ASSUME NEW c \in Clients, NEW text, Type(c, text) PROVE UNCHANGED vars
    BY <1>3 DEF Type
<1>4. ASSUME NEW c \in Clients, TypeQuit(c) PROVE UNCHANGED vars
    BY <1>4 DEF TypeQuit
<1>5. ASSUME NEW c \in Clients, RunLine(c) \/ Execute(c) \/ RunOn(c) \/ Finish(c) PROVE Next
    BY <1>5 DEF RunLine, Execute, RunOn, Finish, Next
<1> QED
    BY <1>1, <1>2, <1>3, <1>4, <1>5 DEF CollectNext

\* EchoServe with the collection of input (daemon/server.c:784) uses run_yash as run_yash
\* alone may be used: no step of the collection touches what run_yash shares.
THEOREM CollectsThroughRunYash == CollectSpec => Spec
<1>1. CollectInit => Init
    BY DEF CollectInit
<1> QED
    BY <1>1, StepSimulation, PTL DEF CollectSpec, Spec

\* A client sees its own output and nobody else's while no two lines run at the same
\* time (daemon/server.c:712).
THEOREM OutputIsOwn == CollectSpec => []OwnOutput
<1>1. IInv => OwnOutput
    BY DEF IInv
<1> QED
    BY <1>1, Invariant, CollectsThroughRunYash, PTL

\* Between lines no text is left in the buffer and no saved descriptor is open, in
\* whatever order the threads have run (daemon/server.c:717 and :719).
THEOREM NothingStays == CollectSpec => []NothingLeft
<1>1. IInv => NothingLeft
    <2> SUFFICES ASSUME IInv, Idle PROVE buffer = {} /\ dups = 0
        BY DEF NothingLeft
    <2>1. Running = {}
        BY DEF Running, Idle
    <2> QED
        BY <2>1, FS_EmptySet DEF IInv, TypeOK, Saved, Buffered, Idle
<1> QED
    BY <1>1, Invariant, CollectsThroughRunYash, PTL
-----------------------------------------------------------------------------
(* What the collection leaves in the file and in the line.                 *)

Letter == Clients \cup {"q"}
Token == Files \cup {"cat", "tmp", ">", "wc"}

CollectType ==
    /\ phase \in [Clients -> {"idle", "collect", "ready"}]
    /\ extra_buf \in [Clients -> Seq(Letter)]
    /\ stream \in [Clients -> Seq(Letter)]
    /\ typed \in [Clients -> Seq(Letter)]
    /\ tmp \in Seq(Letter)
    /\ DOMAIN buf = Clients /\ DOMAIN new_buf = Clients
    /\ named \in [Clients -> Files \cup {NoFile}]
    /\ shared \subseteq Clients /\ shrunk \subseteq Clients

\* Whose collection nobody has met is the only one.
Apart == \A c \in Collecting \ shared : Collecting = {c}

\* What has been typed is what is stored, and no thread runs a line while it collects.
StoredBy(c) ==
    /\ pc[c] # "recv" => phase[c] # "collect"
    /\ phase[c] = "idle" => typed[c] = <<>> /\ named[c] = NoFile
    /\ phase[c] # "collect" => stream[c] = <<>>
    /\ phase[c] = "collect" /\ c \notin shared => tmp = <<>>
    /\ phase[c] = "collect" /\ c \notin shrunk /\ Len(extra_buf[c]) <= 2 =>
          stream[c] = typed[c]
    /\ phase[c] = "ready" /\ c \notin shared \cup shrunk => tmp = typed[c]

Stored == \A c \in Clients : StoredBy(c)

\* The line of a session's first "cat > f".
FirstLine ==
    \A c \in Clients : named[c] # NoFile =>
        /\ phase[c] = "collect" => buf[c] = <<"cat", ">", named[c]>> /\ new_buf[c] = <<>>
        /\ phase[c] = "ready" => buf[c] = <<"cat", "tmp", ">", named[c]>>

CInv == CollectType /\ Apart /\ Stored /\ FirstLine

LEMMA OverlayFacts ==
    ASSUME NEW S, NEW old \in Seq(S), NEW text \in Seq(S)
    PROVE  /\ Overlay(old, text) \in Seq(S)
           /\ Len(Overlay(old, text)) >= Len(old)
           /\ Len(old) <= Len(text) => Overlay(old, text) = text
<1> DEFINE rest == SubSeq(old, Len(text) + 1, Len(old))
<1>1. /\ rest \in Seq(S)
      /\ Len(old) <= Len(text) => rest = <<>>
      /\ Len(old) > Len(text) => Len(rest) = Len(old) - Len(text)
    OBVIOUS
<1>2. /\ text \o rest \in Seq(S) /\ Len(text \o rest) = Len(text) + Len(rest)
      /\ Len(text) \in Nat /\ Len(old) \in Nat /\ Len(rest) \in Nat
    BY <1>1
<1>3. text \o <<>> = text
    OBVIOUS
<1> HIDE DEF rest
<1>4. Overlay(old, text) = text \o rest
    BY DEF Overlay, rest
<1> QED
    BY <1>1, <1>2, <1>3, <1>4

LEMMA TypingFacts == ASSUME NEW c \in Clients, NEW text \in Typing(c) PROVE text \in Seq(Letter)
<1>1. PICK n \in 1 .. 3 : text = [i \in 1 .. n |-> c]
    BY DEF Typing
<1>2. text \in [1 .. n -> Letter] /\ n \in Nat
    BY <1>1 DEF Letter
<1> QED
    BY <1>2, SeqDef

LEMMA QuitFacts == Quit \in Seq(Letter) /\ Len(Quit) = 2
    BY DEF Quit, Letter

LEMMA MadeLine ==
    ASSUME NEW f \in Files
    PROVE  <<>> \o CatLine(Tail(<<"cat", ">", f>>)) = <<"cat", "tmp", ">", f>>
<1>1. Tail(<<"cat", ">", f>>) = <<">", f>>
    OBVIOUS
<1> DEFINE s == <<"cat", "tmp">>
           t == <<">", f>>
           made == <<"cat", "tmp", ">", f>>
<1>2. s \in Seq(Token) /\ t \in Seq(Token) /\ made \in Seq(Token)
    BY DEF Token
<1>3. Len(s) = 2 /\ Len(t) = 2 /\ Len(made) = 4
    OBVIOUS
<1>4. /\ made[1] = s[1] /\ made[2] = s[2]
      /\ made[3] = t[3 - 2] /\ made[4] = t[4 - 2]
    OBVIOUS
<1> HIDE DEF s, t, made
<1>5. /\ s \o t \in Seq(Token) /\ Len(s \o t) = 4
      /\ \A i \in 1 .. 4 : (s \o t)[i] = IF i <= 2 THEN s[i] ELSE t[i - 2]
    <2>1. /\ s \o t \in Seq(Token) /\ Len(s \o t) = Len(s) + Len(t)
          /\ \A i \in 1 .. Len(s) + Len(t) :
                 (s \o t)[i] = IF i <= Len(s) THEN s[i] ELSE t[i - Len(s)]
        BY <1>2, ConcatProperties
    <2> QED
        BY <1>3, <2>1
<1>6. \A i \in 1 .. 4 : (s \o t)[i] = made[i]
    BY <1>4, <1>5
<1>7. s \o t = made
    BY <1>2, <1>3, <1>5, <1>6, SeqEqual
<1>8. <<>> \o made = made
    BY <1>2, ConcatEmptySeq
<1> QED
    BY <1>1, <1>7, <1>8 DEF CatLine, s, t, made

\* What check_output_redirection and check_input_redirection make of that line.
LEMMA RedirectedLine ==
    ASSUME NEW f \in Files
    PROVE  LET r == Redirected(<<"cat", "tmp", ">", f>>)
           IN  r.output = f /\ Positions(r.args, "tmp") # {}
<1> DEFINE line == <<"cat", "tmp", ">", f>>
           first == <<"cat", "tmp">>
<1>1. f # ">" /\ f # "tmp"
    BY CollectAssumption
<1>2. Positions(line, ">") = {3}
    BY <1>1 DEF Positions
<1>3. FirstPosition(line, ">") = 3
    BY <1>2 DEF FirstPosition
<1>4. SubSeq(line, 1, 2) = first /\ Len(line) = 4 /\ line[4] = f
    <2> DEFINE sub == SubSeq(line, 1, 2)
    <2>1. line \in Seq(Token) /\ first \in Seq(Token) /\ Len(first) = 2
        BY DEF Token
    <2>2. Len(line) = 4 /\ line[4] = f /\ line[1] = first[1] /\ line[2] = first[2]
        OBVIOUS
    <2> HIDE DEF line, first
    <2>3. \A i \in 1 .. 2 : line[i] \in Token
        BY <2>1, <2>2, ElementOfSeq
    <2>4. /\ sub \in Seq(Token) /\ Len(sub) = 2
          /\ sub[1] = line[1] /\ sub[2] = line[2]
        BY <2>3, SubSeqProperties
    <2>5. \A i \in 1 .. 2 : sub[i] = first[i]
        BY <2>2, <2>4
    <2>6. sub = first
        BY <2>1, <2>4, <2>5, SeqEqual
    <2> QED
        BY <2>2, <2>6
<1>5. Cut(line, ">") = [args |-> first, file |-> f]
    BY <1>2, <1>3, <1>4 DEF Cut
<1>6. Positions(first, "<") = {}
    BY DEF Positions
<1>7. Cut(first, "<") = [args |-> first, file |-> NoFile]
    BY <1>6 DEF Cut
<1>8. 2 \in Positions(first, "tmp")
    BY DEF Positions
<1> HIDE DEF line, first
<1>9. Redirected(line) = [args |-> first, input |-> NoFile, output |-> f]
    BY <1>5, <1>7 DEF Redirected
<1> QED
    BY <1>8, <1>9 DEF line
-----------------------------------------------------------------------------
LEMMA InitCInv == CollectInit => CInv
<1> SUFFICES ASSUME CollectInit PROVE CInv
    OBVIOUS
<1>1. \A l \in StackLeft : l.extra \in Seq(Letter)
    <2> SUFFICES ASSUME NEW l \in StackLeft PROVE l.extra = <<>> \/ l.extra = Quit
        BY QuitFacts, EmptySeq
    <2>1. \E new : l = [extra |-> <<>>, new |-> new] \/ l = [extra |-> Quit, new |-> new]
        BY DEF StackLeft
    <2> QED
        BY <2>1
<1>2. PICK left \in [Clients -> StackLeft] :
          /\ extra_buf = [c \in Clients |-> left[c].extra]
          /\ new_buf = [c \in Clients |-> left[c].new]
    BY DEF CollectInit
<1>3. extra_buf \in [Clients -> Seq(Letter)] /\ DOMAIN new_buf = Clients
    BY <1>1, <1>2
<1>4. stream \in [Clients -> Seq(Letter)] /\ typed \in [Clients -> Seq(Letter)]
    BY DEF CollectInit
<1>5. DOMAIN buf = Clients /\ tmp \in Seq(Letter)
    BY DEF CollectInit
<1>6. /\ phase \in [Clients -> {"idle", "collect", "ready"}]
      /\ named \in [Clients -> Files \cup {NoFile}]
      /\ shared \subseteq Clients /\ shrunk \subseteq Clients
    BY DEF CollectInit
<1>7. CollectType
    BY <1>3, <1>4, <1>5, <1>6 DEF CollectType
<1>8. Apart /\ Stored /\ FirstLine
    BY DEF CollectInit, Init, Apart, Collecting, Stored, StoredBy, FirstLine
<1> QED
    BY <1>7, <1>8 DEF CInv

LEMMA AskKeeps ==
    ASSUME IInv, CInv, NEW c \in Clients, NEW request \in Requests, Ask(c, request)
    PROVE  CInv'
<1>1. /\ pc[c] = "recv" /\ phase[c] = "idle"
      /\ phase' = [phase EXCEPT ![c] = "collect"]
      /\ buf' = [buf EXCEPT ![c] = request]
      /\ tmp' = <<>>
      /\ named' = [named EXCEPT ![c] =
             IF new_buf[c] = <<>> /\ request # <<"wc">> THEN request[3] ELSE NoFile]
      /\ shared' = IF Collecting = {} THEN shared ELSE shared \cup Collecting \cup {c}
      /\ UNCHANGED <<vars, extra_buf, new_buf, stream, typed, shrunk, files>>
    BY DEF Ask, Opened
<1>2. request # <<"wc">> => request[3] \in Files /\ request = <<"cat", ">", request[3]>>
    BY DEF Requests
<1>3. Collecting' = Collecting \cup {c}
    BY <1>1 DEF Collecting, CInv, CollectType
<1>4. named' \in [Clients -> Files \cup {NoFile}]
    BY <1>1, <1>2 DEF CInv, CollectType
<1>5. CollectType'
    <2>1. phase' \in [Clients -> {"idle", "collect", "ready"}]
        BY <1>1 DEF CInv, CollectType
    <2>2. DOMAIN buf' = Clients
        BY <1>1 DEF CInv, CollectType
    <2>3. shared' \subseteq Clients /\ tmp' \in Seq(Letter)
        BY <1>1 DEF CInv, CollectType, Collecting
    <2> QED
        BY <1>1, <1>4, <2>1, <2>2, <2>3 DEF CInv, CollectType
<1>6. Apart'
    BY <1>1, <1>3 DEF Apart, CInv
<1>7. Stored'
    BY <1>1, <1>5 DEF Stored, StoredBy, CInv, CollectType, vars, Collecting
<1>8. FirstLine'
    BY <1>1, <1>2, <1>4 DEF FirstLine, CInv, CollectType
<1> QED
    BY <1>5, <1>6, <1>7, <1>8 DEF CInv

LEMMA TypeKeeps ==
    ASSUME IInv, CInv, NEW c \in Clients, NEW text \in Typing(c), Type(c, text)
    PROVE  CInv'
<1>1. /\ phase[c] = "collect"
      /\ extra_buf' = [extra_buf EXCEPT ![c] = Overlay(extra_buf[c], text)]
      /\ stream' = [stream EXCEPT ![c] = stream[c] \o extra_buf'[c]]
      /\ typed' = [typed EXCEPT ![c] = typed[c] \o text]
      /\ shrunk' = IF Len(text) < Len(extra_buf[c]) THEN shrunk \cup {c} ELSE shrunk
      /\ UNCHANGED <<pc, phase, buf, new_buf, tmp, files, named, shared>>
    BY DEF Type, vars
<1>2. text \in Seq(Letter) /\ extra_buf[c] \in Seq(Letter)
    BY TypingFacts DEF CInv, CollectType
<1>3. /\ extra_buf'[c] \in Seq(Letter) /\ Len(extra_buf'[c]) >= Len(extra_buf[c])
      /\ Len(extra_buf[c]) <= Len(text) => extra_buf'[c] = text
      /\ Len(extra_buf[c]) \in Nat /\ Len(text) \in Nat /\ Len(extra_buf'[c]) \in Nat
    <2>1. extra_buf'[c] = Overlay(extra_buf[c], text)
        BY <1>1 DEF CInv, CollectType
    <2> QED
        BY <1>2, <2>1, OverlayFacts, LenProperties
<1>4. /\ stream'[c] = stream[c] \o extra_buf'[c] /\ typed'[c] = typed[c] \o text
      /\ stream'[c] \in Seq(Letter) /\ typed'[c] \in Seq(Letter)
    BY <1>1, <1>2, <1>3, ConcatProperties DEF CInv, CollectType
<1>5. CollectType'
    <2>1. extra_buf' \in [Clients -> Seq(Letter)]
        BY <1>1, <1>3 DEF CInv, CollectType
    <2>2. stream' \in [Clients -> Seq(Letter)]
        BY <1>1, <1>4 DEF CInv, CollectType
    <2>3. typed' \in [Clients -> Seq(Letter)]
        BY <1>1, <1>4 DEF CInv, CollectType
    <2> QED
        BY <1>1, <2>1, <2>2, <2>3 DEF CInv, CollectType
<1>6. Apart'
    BY <1>1 DEF Apart, Collecting, CInv
<1>7. StoredBy(c)'
    <2>1. ASSUME c \notin shrunk', Len(extra_buf'[c]) <= 2 PROVE stream'[c] = typed'[c]
        <3>1. c \notin shrunk /\ ~(Len(text) < Len(extra_buf[c]))
            BY <1>1, <2>1
        <3>2. extra_buf'[c] = text /\ Len(extra_buf[c]) <= 2
            BY <1>3, <2>1, <3>1
        <3>3. stream[c] = typed[c]
            BY <1>1, <3>1, <3>2 DEF CInv, Stored, StoredBy
        <3> QED
            BY <1>4, <3>2, <3>3
    <2> QED
        BY <1>1, <2>1 DEF CInv, Stored, StoredBy
<1>8. ASSUME NEW d \in Clients, d # c PROVE StoredBy(d)'
    <2>1. /\ stream'[d] = stream[d] /\ typed'[d] = typed[d]
          /\ extra_buf'[d] = extra_buf[d] /\ (d \in shrunk' <=> d \in shrunk)
        BY <1>1, <1>8 DEF CInv, CollectType
    <2> QED
        BY <1>1, <2>1 DEF CInv, Stored, StoredBy
<1>9. FirstLine'
    BY <1>1 DEF FirstLine, CInv
<1> QED
    BY <1>5, <1>6, <1>7, <1>8, <1>9 DEF CInv, Stored
LEMMA TypeQuitKeeps == ASSUME IInv, CInv, NEW c \in Clients, TypeQuit(c) PROVE CInv'
<1>1. /\ phase[c] = "collect"
      /\ extra_buf' = [extra_buf EXCEPT ![c] = Overlay(extra_buf[c], Quit)]
      /\ UNCHANGED <<pc, files, typed, named, shared, shrunk>>
    BY DEF TypeQuit, vars
<1>2. /\ extra_buf'[c] = Overlay(extra_buf[c], Quit) /\ extra_buf[c] \in Seq(Letter)
      /\ extra_buf'[c] \in Seq(Letter) /\ Len(extra_buf'[c]) >= Len(extra_buf[c])
      /\ Len(extra_buf[c]) <= 2 => extra_buf'[c] = Quit
      /\ Len(extra_buf[c]) \in Nat /\ Len(extra_buf'[c]) \in Nat
    <2>1. extra_buf'[c] = Overlay(extra_buf[c], Quit) /\ extra_buf[c] \in Seq(Letter)
        BY <1>1 DEF CInv, CollectType
    <2> QED
        BY <2>1, OverlayFacts, QuitFacts, LenProperties
<1>3. extra_buf' \in [Clients -> Seq(Letter)]
    BY <1>1, <1>2 DEF CInv, CollectType
<1>4. \A d \in Clients \ {c} : extra_buf'[d] = extra_buf[d]
    BY <1>1 DEF CInv, CollectType
<1>5. CASE extra_buf'[c] = Quit
    <2>1. /\ tmp' = Overlay(tmp, stream[c])
          /\ buf' = [buf EXCEPT ![c] = ComposedLine(c).line]
          /\ new_buf' = [new_buf EXCEPT ![c] = ComposedLine(c).kept]
          /\ phase' = [phase EXCEPT ![c] = "ready"]
          /\ stream' = [stream EXCEPT ![c] = <<>>]
        BY <1>5 DEF TypeQuit
    <2>2. /\ tmp' \in Seq(Letter)
          /\ c \notin shared => tmp' = stream[c]
        <3>1. tmp \in Seq(Letter) /\ stream[c] \in Seq(Letter)
            BY DEF CInv, CollectType
        <3>2. c \notin shared => tmp = <<>>
            BY <1>1 DEF CInv, Stored, StoredBy
        <3>3. Len(<<>>) = 0 /\ Len(stream[c]) \in Nat
            BY <3>1, LenProperties
        <3> QED
            BY <2>1, <3>1, <3>2, <3>3, OverlayFacts
    <2>4. CollectType'
        <3>1. DOMAIN buf' = Clients /\ DOMAIN new_buf' = Clients
            BY <2>1 DEF CInv, CollectType
        <3>2. stream' \in [Clients -> Seq(Letter)]
            BY <2>1 DEF CInv, CollectType
        <3>3. phase' \in [Clients -> {"idle", "collect", "ready"}]
            BY <2>1 DEF CInv, CollectType
        <3> QED
            BY <1>1, <1>3, <2>2, <3>1, <3>2, <3>3 DEF CInv, CollectType
    <2>5. Collecting' = Collecting /\ c \in Collecting
        BY <1>1, <2>1 DEF Collecting, CInv, CollectType
    <2>6. Apart'
        BY <1>1, <2>5 DEF Apart, CInv
    <2>7. StoredBy(c)'
        <3>1. Len(extra_buf[c]) <= 2
            BY <1>2, <1>5, QuitFacts
        <3>2. c \notin shrunk => stream[c] = typed[c]
            BY <1>1, <3>1 DEF CInv, Stored, StoredBy
        <3>3. phase'[c] = "ready" /\ stream'[c] = <<>>
            BY <2>1 DEF CInv, CollectType
        <3> QED
            BY <1>1, <2>2, <3>2, <3>3 DEF StoredBy
    <2>8. ASSUME NEW d \in Clients, d # c PROVE StoredBy(d)'
        <3>1. phase'[d] = phase[d] /\ stream'[d] = stream[d] /\ extra_buf'[d] = extra_buf[d]
            BY <1>4, <2>1, <2>8 DEF CInv, CollectType
        <3>2. phase[d] = "idle" \/ d \in shared
            BY <2>5, <2>8 DEF CInv, Apart, Collecting
        <3> QED
            BY <1>1, <3>1, <3>2 DEF CInv, Stored, StoredBy
    <2>9. FirstLine'
        <3>1. ASSUME named[c] # NoFile
              PROVE  ComposedLine(c).line = <<"cat", "tmp", ">", named[c]>>
            <4>1. named[c] \in Files /\ buf[c] = <<"cat", ">", named[c]>> /\ new_buf[c] = <<>>
                BY <1>1, <3>1 DEF CInv, FirstLine, CollectType
            <4>2. buf[c] # <<"wc">>
                BY <4>1
            <4> QED
                BY <4>1, <4>2, MadeLine DEF ComposedLine
        <3> QED
            BY <1>1, <2>1, <3>1 DEF FirstLine, CInv, CollectType
    <2> QED
        BY <2>4, <2>6, <2>7, <2>8, <2>9 DEF CInv, Stored
<1>6. CASE extra_buf'[c] # Quit
    <2>1. /\ stream' = [stream EXCEPT ![c] = stream[c] \o extra_buf'[c]]
          /\ UNCHANGED <<tmp, buf, new_buf, phase>>
        BY <1>6 DEF TypeQuit
    <2>2. stream[c] \o extra_buf'[c] \in Seq(Letter)
        BY <1>2, ConcatProperties DEF CInv, CollectType
    <2>3. CollectType'
        <3>1. stream' \in [Clients -> Seq(Letter)]
            BY <2>1, <2>2 DEF CInv, CollectType
        <3> QED
            BY <1>1, <1>3, <2>1, <3>1 DEF CInv, CollectType
    <2>4. ~(Len(extra_buf'[c]) <= 2)
        BY <1>2, <1>6
    <2>5. StoredBy(c)'
        BY <1>1, <2>1, <2>4 DEF CInv, Stored, StoredBy
    <2>6. ASSUME NEW d \in Clients, d # c PROVE StoredBy(d)'
        <3>1. stream'[d] = stream[d] /\ extra_buf'[d] = extra_buf[d]
            BY <1>4, <2>1, <2>6 DEF CInv, CollectType
        <3> QED
            BY <1>1, <2>1, <3>1 DEF CInv, Stored, StoredBy
    <2>7. Apart' /\ FirstLine'
        BY <1>1, <2>1 DEF Apart, Collecting, FirstLine, CInv
    <2> QED
        BY <2>3, <2>5, <2>6, <2>7 DEF CInv, Stored
<1> QED
    BY <1>5, <1>6
\* The steps of run_yash leave the collections alone.
LEMMA RunKeeps ==
    ASSUME IInv, CInv, NEW c \in Clients, RunLine(c) \/ Execute(c) \/ RunOn(c)
    PROVE  CInv'
<1>1. /\ phase[c] # "collect"
      /\ \E l : pc' = [pc EXCEPT ![c] = l]
      /\ UNCHANGED <<session, tmp>>
    <2>1. RunOn(c) => phase[c] # "collect"
        <3>1. pc[c] = "recv" \/ phase[c] # "collect"
            BY DEF CInv, Stored, StoredBy
        <3> QED
            BY <3>1 DEF RunOn, ProcessCmd, Redirect, Flush, Restore, At
    <2> QED
        BY <2>1 DEF RunLine, Execute, RunOn, Save, ProcessCmd, Redirect, Flush, Restore, At,
           collectVars
<1>2. CollectType' /\ Apart' /\ FirstLine'
    BY <1>1 DEF session, CInv, CollectType, Apart, Collecting, FirstLine
<1>3. \A d \in Clients : pc'[d] # pc[d] => d = c
    BY <1>1 DEF IInv, TypeOK
<1>4. Stored'
    BY <1>1, <1>3 DEF session, CInv, Stored, StoredBy
<1> QED
    BY <1>2, <1>4 DEF CInv

LEMMA FinishKeeps == ASSUME IInv, CInv, NEW c \in Clients, Finish(c) PROVE CInv'
<1>1. /\ pc[c] = "close" /\ pc' = [pc EXCEPT ![c] = "recv"]
      /\ phase' = [phase EXCEPT ![c] = "idle"]
      /\ buf' = [buf EXCEPT ![c] = <<>>]
      /\ typed' = [typed EXCEPT ![c] = <<>>]
      /\ shared' = shared \ {c} /\ shrunk' = shrunk \ {c}
      /\ named' = [named EXCEPT ![c] = NoFile]
      /\ UNCHANGED <<extra_buf, new_buf, stream, tmp, files>>
    BY DEF Finish, CloseSaved, At
<1>2. phase[c] # "collect"
    BY <1>1 DEF CInv, Stored, StoredBy
<1>3. CollectType'
    <2>1. phase' \in [Clients -> {"idle", "collect", "ready"}]
        BY <1>1 DEF CInv, CollectType
    <2>2. typed' \in [Clients -> Seq(Letter)]
        BY <1>1, EmptySeq DEF CInv, CollectType
    <2>3. named' \in [Clients -> Files \cup {NoFile}]
        BY <1>1 DEF CInv, CollectType
    <2> QED
        BY <1>1, <2>1, <2>2, <2>3 DEF CInv, CollectType
<1>4. Apart'
    BY <1>1 DEF Apart, Collecting, CInv, CollectType
<1>5. StoredBy(c)'
    <2>1. phase'[c] = "idle" /\ typed'[c] = <<>> /\ named'[c] = NoFile /\ stream'[c] = <<>>
        BY <1>1, <1>2 DEF CInv, CollectType, Stored, StoredBy
    <2> QED
        BY <2>1 DEF StoredBy
<1>6. ASSUME NEW d \in Clients, d # c PROVE StoredBy(d)'
    <2>1. /\ pc'[d] = pc[d] /\ phase'[d] = phase[d] /\ typed'[d] = typed[d]
          /\ named'[d] = named[d]
        BY <1>1, <1>6 DEF IInv, TypeOK, CInv, CollectType
    <2>2. (d \in shared' <=> d \in shared) /\ (d \in shrunk' <=> d \in shrunk)
        BY <1>1, <1>6
    <2> QED
        BY <1>1, <2>1, <2>2 DEF CInv, Stored, StoredBy
<1>7. FirstLine'
    BY <1>1 DEF FirstLine, CInv, CollectType
<1> QED
    BY <1>3, <1>4, <1>5, <1>6, <1>7 DEF CInv, Stored

LEMMA CollectStep == IInv /\ CInv /\ [CollectNext]_allVars => CInv'
<1> SUFFICES ASSUME IInv, CInv, [CollectNext]_allVars PROVE CInv'
    OBVIOUS
<1>1. CASE CollectNext
    BY <1>1, AskKeeps, TypeKeeps, TypeQuitKeeps, RunKeeps, FinishKeeps DEF CollectNext
<1>2. CASE UNCHANGED allVars
    BY <1>2 DEF allVars, vars, collectVars, session, CInv, CollectType, Apart, Collecting,
                Stored, StoredBy, FirstLine
<1> QED
    BY <1>1, <1>2

\* The invariant of the collection holds in every order of the threads.
THEOREM CollectInvariant == CollectSpec => [](IInv /\ CInv)
<1>1. CollectInit => Init
    BY DEF CollectInit
<1> QED
    BY <1>1, InitInv, InitCInv, NextInv, StepSimulation, CollectStep, PTL DEF CollectSpec

\* The program reads what its client has typed (daemon/server.c:787-808), unless two
\* collections meet or a piece of text is shorter than what extra_buf holds.
THEOREM TypedAlwaysArrives == CollectSpec => TypedArrives
<1>1. IInv /\ CInv /\ [CollectNext]_allVars =>
          [\A c \in Clients :
              Execute(c) /\ c \notin shared \cup shrunk => tmp = typed[c]]_allVars
    BY DEF Execute, CInv, Stored, StoredBy
<1> QED
    BY <1>1, CollectInvariant, PTL DEF CollectSpec, TypedArrives

\* The first "cat > f" of a session writes to f and to no other file
\* (daemon/server.c:797-805).
THEOREM FirstCatAlwaysWrites == CollectSpec => FirstCatWrites
<1>1. ASSUME CInv, NEW c \in Clients, Execute(c), named[c] # NoFile
      PROVE  files' = [files EXCEPT ![named[c]] = Overlay(files[named[c]], tmp)]
    <2>1. named[c] \in Files /\ buf[c] = <<"cat", "tmp", ">", named[c]>>
        BY <1>1 DEF CInv, CollectType, FirstLine, Execute
    <2>2. named[c] # NoFile
        BY <1>1
    <2> QED
        BY <1>1, <2>1, <2>2, RedirectedLine DEF Execute
<1>2. IInv /\ CInv /\ [CollectNext]_allVars =>
          [\A c \in Clients :
              Execute(c) /\ named[c] # NoFile =>
                  files' = [files EXCEPT ![named[c]] = Overlay(@, tmp)]]_allVars
    BY <1>1
<1> QED
    BY <1>2, CollectInvariant, PTL DEF CollectSpec, FirstCatWrites
=============================================================================
