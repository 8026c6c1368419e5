------------------------------- MODULE Collect -------------------------------
(***************************************************************************)
(* The collection of input by EchoServe of daemon/server.c, and the line   *)
(* it then runs: after "wc" or "cat > f" the thread stores what its client *)
(* sends in /tmp/tmp_file.txt, until a "quit", and runs "wc" or "cat" on   *)
(* that file.  There is one such file for all clients.                     *)
(*                                                                         *)
(* run_yash is module RunYash.  A text is a sequence of letters, each of   *)
(* them the client who typed it; "quit" is as long as two of them.         *)
(***************************************************************************)
EXTENDS RunYash, Redirection

CONSTANTS
    Files,      \* the files that clients name
    MaxTyped    \* bound: letters of one collection that takes several messages

ASSUME CollectAssumption ==
    /\ MaxTyped \in Nat
    /\ Files \cap {"cat", "tmp", ">", "<", NoFile} = {}
    /\ "q" \notin Clients

VARIABLES
    phase,      \* [Clients -> "idle", "collect", "ready"]
    buf,        \* [Clients -> the tokens of the line]
    extra_buf,  \* [Clients -> the text in the buffer that recv fills]
    new_buf,    \* [Clients -> the tokens of the line that strcat makes longer]
    stream,     \* [Clients -> what fprintf has written, until fclose]
    tmp,        \* the contents of /tmp/tmp_file.txt
    files,      \* [Files -> their contents]
    typed,      \* history: [Clients -> the letters of this collection]
    named,      \* history: [Clients -> the file of the session's first "cat > f"]
    shared,     \* history: the clients whose collection another one has met
    shrunk      \* history: the clients that typed less than extra_buf held

session == <<phase, buf, extra_buf, new_buf, stream, typed, named, shared,
             shrunk>>
collectVars == <<session, tmp, files>>
allVars == <<vars, collectVars>>

Quit == <<"q", "q">>
Typing(c) == {[i \in 1 .. n |-> c] : n \in 1 .. 3}
Requests == {<<"wc">>} \cup {<<"cat", ">", f>> : f \in Files}
CatLine(tail) == <<"cat", "tmp">> \o tail

\* The buffers are on the thread's stack: empty, or as an earlier thread left them.
StackLeft == {[extra |-> <<>>, new |-> <<>>], [extra |-> Quit, new |-> <<>>]}
             \cup {[extra |-> Quit, new |-> CatLine(<<">", f>>)] : f \in Files}

CollectInit ==
    /\ Init
    /\ phase = [c \in Clients |-> "idle"]
    /\ buf = [c \in Clients |-> <<>>]
    /\ \E left \in [Clients -> StackLeft] :
          /\ extra_buf = [c \in Clients |-> left[c].extra]
          /\ new_buf = [c \in Clients |-> left[c].new]
    /\ stream = [c \in Clients |-> <<>>]
    /\ tmp = <<>>
    /\ files = [f \in Files |-> <<>>]
    /\ typed = [c \in Clients |-> <<>>]
    /\ named = [c \in Clients |-> NoFile]
    /\ shared = {} /\ shrunk = {}

Collecting == {c \in Clients : phase[c] # "idle"}

-----------------------------------------------------------------------------
\* Mutant: fopen with "r+".
OpenedKept == tmp

\* fopen(tmp_name, "w")
Opened == <<>>

\* "wc" or "cat > f" is received.
Ask(c, request) ==
    /\ pc[c] = "recv" /\ phase[c] = "idle"
    /\ lines < MaxLines
    /\ phase' = [phase EXCEPT ![c] = "collect"]
    /\ buf' = [buf EXCEPT ![c] = request]
    /\ tmp' = Opened
    /\ named' = [named EXCEPT ![c] =
           IF new_buf[c] = <<>> /\ request # <<"wc">> THEN request[3] ELSE NoFile]
    /\ shared' = IF Collecting = {} THEN shared ELSE shared \cup Collecting \cup {c}
    /\ UNCHANGED <<vars, extra_buf, new_buf, stream, typed, shrunk, files>>

\* Text is received over what extra_buf holds, and written to the stream with it.
Type(c, text) ==
    /\ phase[c] = "collect"
    /\ Len(typed[c]) + Len(text) <= MaxTyped \/ typed[c] = <<>>
    /\ extra_buf' = [extra_buf EXCEPT ![c] = Overlay(@, text)]
    /\ stream' = [stream EXCEPT ![c] = @ \o extra_buf'[c]]
    /\ typed' = [typed EXCEPT ![c] = @ \o text]
    /\ shrunk' = IF Len(text) < Len(extra_buf[c]) THEN shrunk \cup {c} ELSE shrunk
    /\ UNCHANGED <<vars, phase, buf, new_buf, tmp, files, named, shared>>

\* Mutant: cat runs on the line it was given.
GivenLine(c) == [line |-> buf[c], kept |-> new_buf[c]]

\* The line that is run: "wc" on the file, or what strcat has made of new_buf.
ComposedLine(c) ==
    LET made == new_buf[c] \o CatLine(Tail(buf[c]))
    IN  IF buf[c] = <<"wc">> THEN [line |-> <<"wc", "tmp">>, kept |-> new_buf[c]]
        ELSE [line |-> made, kept |-> made]

\* "quit" is received.  It ends the collection if extra_buf holds nothing behind it,
\* and is one more piece of text otherwise.
TypeQuit(c) ==
    /\ phase[c] = "collect"
    /\ extra_buf' = [extra_buf EXCEPT ![c] = Overlay(@, Quit)]
    /\ IF extra_buf'[c] = Quit
       THEN /\ tmp' = Overlay(tmp, stream[c])
            /\ buf' = [buf EXCEPT ![c] = ComposedLine(c).line]
            /\ new_buf' = [new_buf EXCEPT ![c] = ComposedLine(c).kept]
            /\ phase' = [phase EXCEPT ![c] = "ready"]
            /\ stream' = [stream EXCEPT ![c] = <<>>]
       ELSE /\ Len(stream[c]) < MaxTyped
            /\ stream' = [stream EXCEPT ![c] = @ \o extra_buf'[c]]
            /\ UNCHANGED <<tmp, buf, new_buf, phase>>
    /\ UNCHANGED <<vars, files, typed, named, shared, shrunk>>

-----------------------------------------------------------------------------
\* run_yash begins, for the collected line or for one that collects nothing.
RunLine(c) ==
    /\ phase[c] # "collect"
    /\ Save(c)
    /\ UNCHANGED collectVars

\* The program reads /tmp/tmp_file.txt, if it is among its arguments, and writes to the
\* file of the redirection or to its client.
Execute(c) ==
    LET r == Redirected(buf[c])
        text == IF Positions(r.args, "tmp") = {} THEN <<>> ELSE tmp
    IN  /\ phase[c] = "ready"
        /\ ProcessCmd(c)
        /\ IF r.output = NoFile THEN Reaches({c}) /\ UNCHANGED files
           ELSE got' = got /\ files' = [files EXCEPT ![r.output] = Overlay(@, text)]
        /\ UNCHANGED <<session, tmp>>

RunOn(c) ==
    /\ \/ phase[c] = "idle" /\ ProcessCmd(c)
       \/ Redirect(c) \/ Flush(c) \/ Restore(c)
    /\ UNCHANGED collectVars

Finish(c) ==
    /\ CloseSaved(c)
    /\ phase' = [phase EXCEPT ![c] = "idle"]
    /\ buf' = [buf EXCEPT ![c] = <<>>]
    /\ typed' = [typed EXCEPT ![c] = <<>>]
    /\ shared' = shared \ {c}
    /\ shrunk' = shrunk \ {c}
    /\ named' = [named EXCEPT ![c] = NoFile]
    /\ UNCHANGED <<extra_buf, new_buf, stream, tmp, files>>

CollectNext ==
    \E c \in Clients :
        \/ \E request \in Requests : Ask(c, request)
        \/ \E text \in Typing(c) : Type(c, text)
        \/ TypeQuit(c)
        \/ RunLine(c) \/ Execute(c) \/ RunOn(c) \/ Finish(c)

CollectSpec == CollectInit /\ [][CollectNext]_allVars

-----------------------------------------------------------------------------
\* The program reads what its client has typed, nothing more and nothing less, however
\* much other clients do meanwhile that is not a collection, unless a piece of text was
\* shorter than the text extra_buf held (daemon/server.c:787-808).
TypedArrives ==
    [][\A c \in Clients : Execute(c) /\ c \notin shared \cup shrunk => tmp = typed[c]]_allVars

\* The first "cat > f" of a session changes no file but f, and puts the collected text
\* over its beginning.  A second one in the same session goes to the file of the first
\* (daemon/server.c:804: new_buf is never emptied).
FirstCatWrites ==
    [][\A c \in Clients :
          Execute(c) /\ named[c] # NoFile =>
              files' = [files EXCEPT ![named[c]] = Overlay(@, tmp)]]_allVars
=============================================================================
