------------------------------- MODULE Session ------------------------------
(***************************************************************************)
(* One client and the thread that serves it: the client's two processes    *)
(* (the one that shows what the server sends, and the child it forks to    *)
(* read the user's input), the TCP connection, and EchoServe.  Three       *)
(* versions of the protocol: daemon/client.c with daemon/server.c,         *)
(* signals/client.c with signals/server.c ("CMD" and "CTL" messages), and  *)
(* pooja/client.c with pooja/server.c (lines alone).                       *)
(*                                                                         *)
(* TCP keeps no message boundaries: a recv takes one or more of the        *)
(* messages that have arrived.  A message is not split (the lines are      *)
(* shorter than the buffers).  What a line does is module JobControl; here *)
(* the thread is busy and then answers, unless the line never ends.        *)
(***************************************************************************)
EXTENDS Naturals, Sequences

CONSTANTS
    Versions,  \* of "daemon", "signals" and "pooja", those to choose from
    Inputs,    \* what the user may do
    MaxSent    \* bound: messages sent in a behaviour

\* A line; "wc" and "quit", which begin and end the collection of input; Ctrl-C,
\* Ctrl-Z; the end of the input ("q" or end of file, "quit" for signals/client.c);
\* end of file for signals/client.c.
Input == {"line", "wc", "quit", "ctrlC", "ctrlZ", "end", "eof"}
Message == {"line", "wc", "quit", "CTL c", "CTL z", "CTL d"}

ASSUME SessionAssumption ==
    /\ Versions \subseteq {"daemon", "signals", "pooja"}
    /\ Inputs \subseteq Input
    /\ MaxSent \in Nat

VARIABLES
    version,   \* the version of both programs
    patient,   \* the user waits for the prompt before doing anything
    shower,    \* the process that shows: "up", "gone", "crashed" in its own handler
    reader,    \* the child that reads the input: "up", "atEof", "gone"
    up,        \* messages on their way to the server
    down,      \* prompts on their way to the client
    sent,      \* messages the client has sent
    shown,     \* prompts it has shown
    thread,    \* where the thread is
    extra_buf, \* "quit" and its end, "stale" text behind any short line, or neither
    stray      \* the client has sent a signal to a process that is not its own

clientVars == <<shower, reader, sent, shown, stray>>
serverVars == <<thread, extra_buf>>
settings == <<version, patient>>
vars == <<settings, clientVars, up, down, serverVars>>

TypeOK ==
    /\ version \in Versions
    /\ patient \in BOOLEAN
    /\ shower \in {"up", "gone", "crashed"}
    /\ reader \in {"up", "atEof", "gone"}
    /\ up \in Seq(Message)
    /\ down \in Nat
    /\ sent \in Nat
    /\ shown \in Nat
    /\ thread \in {"recv", "busy", "hung", "prompt", "collect", "ended", "left", "dead"}
    /\ extra_buf \in {"quit", "stale", "short"}
    /\ stray \in BOOLEAN

\* extra_buf is on the stack, and what it holds at first is anything.
Init ==
    /\ version \in Versions /\ patient \in BOOLEAN
    /\ shower = "up" /\ reader = "up"
    /\ up = <<>> /\ down = 0
    /\ sent = 0 /\ shown = 0
    /\ thread = "recv"
    /\ extra_buf \in {"quit", "stale", "short"}
    /\ stray = FALSE

Closed == shower # "up" /\ reader = "gone"         \* the client's end of the connection
Hears == thread \notin {"ended", "dead"}           \* the server's end
MayAct == /\ sent < MaxSent
          /\ patient => sent = shown

-----------------------------------------------------------------------------
(* The client.                                                             *)

Send(msgs) ==
    /\ up' = IF Hears THEN up \o msgs ELSE up
    /\ sent' = sent + Len(msgs)

\* GetUserInput
TypeLine(m) ==
    /\ reader = "up" /\ MayAct
    /\ m \in Inputs \cap {"line", "wc", "quit"}
    /\ version # "daemon" => m = "line"
    /\ Send(<<m>>)
    /\ UNCHANGED <<down, serverVars, shower, reader, shown, stray>>

\* The input is over: the reader kills its parent and exits.  If the parent is gone
\* already, getppid() names another process.
CloseAndKill ==
    /\ reader' = "gone"
    /\ shower' = IF shower = "up" THEN "gone" ELSE shower
    /\ stray' = (shower # "up")

EndDaemon ==
    /\ version = "daemon" /\ "end" \in Inputs
    /\ reader = "up"
    /\ patient => sent = shown
    /\ CloseAndKill
    /\ UNCHANGED <<up, down, serverVars, sent, shown>>

EndSignals ==
    /\ version = "signals" /\ "end" \in Inputs
    /\ reader = "up" /\ MayAct
    /\ Send(<<"CTL d">>)
    /\ CloseAndKill
    /\ UNCHANGED <<down, serverVars, shown>>

\* fgets fails at the end of the file, which nobody looks at: the reader sends "CMD "
\* for ever, until a send to a server that has closed ends it (SIGPIPE).
Eof ==
    /\ version = "signals" /\ "eof" \in Inputs
    /\ reader = "up"
    /\ reader' = "atEof"
    /\ UNCHANGED <<up, down, serverVars, shower, sent, shown, stray>>

Flood ==
    /\ reader = "atEof"
    /\ IF Hears THEN sent < MaxSent /\ Send(<<"line">>) /\ UNCHANGED reader
       ELSE reader' = "gone" /\ UNCHANGED <<up, sent>>
    /\ UNCHANGED <<down, serverVars, shower, shown, stray>>

\* read returns 0: the same with SIGKILL for the parent.
EndPooja ==
    /\ version = "pooja" /\ "end" \in Inputs
    /\ reader = "up"
    /\ patient => sent = shown
    /\ CloseAndKill
    /\ UNCHANGED <<up, down, serverVars, sent, shown>>

\* pooja/client.c installs no handler: the terminal's SIGINT ends both processes.
InterruptPooja ==
    /\ version = "pooja" /\ "ctrlC" \in Inputs
    /\ shower' = "gone" /\ reader' = "gone"
    /\ UNCHANGED <<up, down, serverVars, sent, shown, stray>>

\* daemon/client.c, sig_handler: installed before the fork, so that both processes
\* run it, and it copies the message through a pointer that was never set.  Each
\* process sends the message or dies of it.
CtlOf(key) == IF key = "ctrlC" THEN "CTL c" ELSE "CTL z"

sig_handler(key) ==
    /\ version = "daemon" /\ MayAct
    /\ key \in Inputs \cap {"ctrlC", "ctrlZ"}
    /\ shower = "up" \/ reader = "up"
    /\ \E s \in {"up", "gone", "crashed"}, r \in {"up", "gone"} :
          /\ IF shower = "up" THEN s # "gone" ELSE s = shower
          /\ (reader = "gone" => r = "gone")
          /\ shower' = s /\ reader' = r
          /\ Send((IF s = "up" THEN <<CtlOf(key)>> ELSE <<>>)
                  \o (IF r = "up" THEN <<CtlOf(key)>> ELSE <<>>))
    /\ UNCHANGED <<down, serverVars, shown, stray>>

\* signals/client.c, handle_sigint and handle_sigtstp: the reader ignores both.
handle_signal(key) ==
    /\ version = "signals" /\ MayAct
    /\ key \in Inputs \cap {"ctrlC", "ctrlZ"}
    /\ shower = "up"
    /\ Send(<<CtlOf(key)>>)
    /\ UNCHANGED <<down, serverVars, shower, reader, shown, stray>>

\* The receiving loop of main.
Show ==
    /\ shower = "up" /\ down > 0
    /\ shown' = shown + 1
    /\ down' = down - 1
    /\ UNCHANGED <<up, serverVars, shower, reader, sent, stray>>

\* Mutant: the loop is left whenever nothing has arrived.
DisconnectedEarly ==
    /\ shower = "up" /\ down = 0
    /\ shower' = "gone"
    /\ UNCHANGED <<up, down, serverVars, reader, sent, shown, stray>>

Disconnected ==
    /\ shower = "up" /\ down = 0 /\ ~Hears
    /\ shower' = "gone"
    /\ UNCHANGED <<up, down, serverVars, reader, sent, shown, stray>>

-----------------------------------------------------------------------------
(* The thread: EchoServe.                                                  *)

\* Mutant: the last message that was looked at stays to be received again.
ReceiveAgain(k) ==
    /\ k \in 1 .. Len(up)
    /\ up' = SubSeq(up, k, Len(up))

\* recv: k messages at once, of which only the first is looked at.
Receive(k) ==
    /\ k \in 1 .. Len(up)
    /\ up' = SubSeq(up, k + 1, Len(up))

\* EchoServe of daemon/server.c.  "wc" collects if nothing has come with it; any
\* "CTL" leaves the loop without a word, and the socket stays open.
HandleDaemon(k) ==
    /\ version = "daemon" /\ thread = "recv"
    /\ Receive(k)
    /\ thread' = CASE up[1] \in {"CTL c", "CTL z"} -> "left"
                   [] up[1] = "wc" /\ k = 1 -> "collect"
                   [] OTHER -> "busy"
    /\ UNCHANGED <<clientVars, down, extra_buf>>

\* The collection ends with a recv of "quit\n" that leaves no older text behind it
\* in extra_buf, which recv does not terminate.  More than five bytes leave some for
\* good: two messages one of which is a word of the protocol, or a longer line.
Word == {"quit", "CTL c", "CTL z"}
Shorter == IF extra_buf = "stale" THEN "stale" ELSE "short"
IsQuit(k) == k = 1 /\ up[1] = "quit" /\ extra_buf # "stale"

Collect(k) ==
    /\ thread = "collect"
    /\ Receive(k)
    /\ thread' = IF IsQuit(k) THEN "busy" ELSE "collect"
    /\ extra_buf' \in CASE IsQuit(k) -> {"quit"}
                        [] k = 1 /\ up[1] # "line" /\ ~IsQuit(k) -> {Shorter}
                        [] k > 1 /\ (\E i \in 1 .. k : up[i] \in Word) -> {"stale"}
                        [] OTHER -> {Shorter, "stale"}
    /\ UNCHANGED <<clientVars, down>>

\* EchoServe of signals/server.c: "CMD", "CTL" or anything else, every message is
\* answered with a prompt, a "CTL" without running anything.  (It would signal a group
\* for "CTL C" and "CTL Z", which its client does not send.)

\* Mutant: the loop is continued after a "CTL" message, without the prompt.
HandleSignalsSilent(k) ==
    /\ version = "signals" /\ thread = "recv"
    /\ Receive(k)
    /\ thread' = IF up[1] \in {"CTL c", "CTL z", "CTL d"} THEN "recv" ELSE "busy"
    /\ UNCHANGED <<clientVars, down, extra_buf>>

HandleSignals(k) ==
    /\ version = "signals" /\ thread = "recv"
    /\ Receive(k)
    /\ thread' = IF up[1] \in {"CTL c", "CTL z", "CTL d"} THEN "prompt" ELSE "busy"
    /\ UNCHANGED <<clientVars, down, extra_buf>>

\* EchoServe of pooja/server.c: every message is a line.
HandlePooja(k) ==
    /\ version = "pooja" /\ thread = "recv"
    /\ Receive(k)
    /\ thread' = "busy"
    /\ UNCHANGED <<clientVars, down, extra_buf>>

\* A line that never ends: its program does not, or its handshake (Launch_stuck).
NeverEnds ==
    /\ thread = "busy"
    /\ thread' = "hung"
    /\ UNCHANGED <<clientVars, up, down, extra_buf>>

\* Mutant: the prompt is not sent.
AnswerNothing ==
    /\ thread \in {"busy", "prompt"}
    /\ thread' = "recv"
    /\ UNCHANGED <<clientVars, up, down, extra_buf>>

\* The line has been run; its prompt is sent.  If the client has hung up meanwhile,
\* writing to its socket may end the whole daemon (SIGPIPE).
Answer ==
    /\ thread \in {"busy", "prompt"}
    /\ \/ thread' = "recv" /\ down' = IF Closed THEN down ELSE down + 1
       \/ Closed /\ thread' = "dead" /\ down' = down
    /\ UNCHANGED <<clientVars, up, extra_buf>>

\* Mutant: a recv of 0 bytes is tried again.
HungUpIgnored ==
    /\ Closed /\ up = <<>>
    /\ thread = "recv"
    /\ UNCHANGED vars

\* recv returns 0, or fails if the client left prompts unread.  The collection loop
\* ends on a failure too, but takes the 0 for another line: it looks at extra_buf as it
\* is, runs the line if that is still an earlier "quit", and spins if not.
HungUp ==
    /\ Closed /\ up = <<>>
    /\ version = "pooja" => down = 0
    /\ \/ thread = "recv" /\ thread' = "ended"
       \/ thread = "collect" /\ down > 0 /\ thread' = "ended"
       \/ thread = "collect" /\ down = 0 /\ extra_buf = "quit" /\ thread' = "busy"
    /\ UNCHANGED <<clientVars, up, down, extra_buf>>

\* A recv that fails ends the whole server.
RecvFailsPooja ==
    /\ version = "pooja"
    /\ Closed /\ up = <<>> /\ down > 0
    /\ thread = "recv"
    /\ thread' = "dead"
    /\ UNCHANGED <<clientVars, up, down, extra_buf>>

\* The server process ends under the client's feet.
ServerDies ==
    /\ thread # "dead"
    /\ thread' = "dead"
    /\ up' = <<>>
    /\ UNCHANGED <<clientVars, down, extra_buf>>

-----------------------------------------------------------------------------
User ==
    \/ \E m \in Input : TypeLine(m) \/ sig_handler(m) \/ handle_signal(m)
    \/ EndDaemon \/ EndSignals \/ Eof \/ Flood \/ EndPooja \/ InterruptPooja

Thread ==
    \/ \E k \in 1 .. Len(up) : HandleDaemon(k) \/ HandleSignals(k) \/ HandlePooja(k)
                                 \/ Collect(k)
    \/ Answer \/ HungUp \/ RecvFailsPooja

Next == UNCHANGED settings /\ (User \/ Show \/ Disconnected \/ Thread \/ NeverEnds \/ ServerDies)

Spec == Init /\ [][Next]_vars

\* The processes run; the user does as she likes, a line ends or not, and nothing
\* needs to die.
FairSpec ==
    /\ Spec
    /\ WF_vars(Show /\ UNCHANGED settings)
    /\ WF_vars(Disconnected /\ UNCHANGED settings)
    /\ WF_vars(Thread /\ UNCHANGED settings)

-----------------------------------------------------------------------------
Waiting == patient /\ reader # "atEof"      \* one message at a time

\* No message of a user who waits for the prompt is swallowed: when the thread is
\* back at recv with nothing left to read, as many prompts have been sent as messages,
\* interrupts included (signals/server.c:847, "Send prompt back to the client after
\* handling").  Who types ahead loses messages: recv joins them.  daemon/server.c
\* collects input and leaves its loop, and owes fewer prompts.
EveryMessageAnswered ==
    version # "daemon" /\ Waiting /\ thread = "recv" /\ up = <<>> /\ ~Closed =>
        shown + down = sent

\* No message is answered twice or before it was sent, whatever recv joins, whatever
\* the collection of input takes for a line, and whoever has died.
NoEarlyPrompt == shown + down <= sent

\* The thread of a client that has hung up ends (daemon/server.c:820, "Exit thread
\* when client disconnects"), unless its line never ends, it has left its loop, or it
\* collects input: that loop takes the end of the connection for another line, for
\* ever unless the buffer still holds the "quit" of an earlier collection.
ThreadEnds ==
    Closed ~> \/ thread \in {"ended", "hung", "left", "dead"}
              \/ thread = "collect" /\ extra_buf # "quit"

\* The reader's signal at the end reaches the client's own process (signals/client.c:169,
\* "Gracefully terminate the parent process") unless the server has ended, which ends
\* that process first, or it has died of its own handler (daemon/client.c:32).
NoStray == stray => thread = "dead" \/ shower = "crashed"

\* A user who waits for the prompt gets it, an interrupt's in any case and a line's
\* unless the line never ends ("hung": EchoServe waits for process_cmd without a limit).
\* Else the server has died, the thread collects input or has left its loop after a
\* "CTL" (daemon/server.c:770 and :775), or the client cannot show it: its process is
\* gone, or its reader floods the server.
AnswerComes ==
    patient /\ sent > shown ~>
        \/ sent = shown
        \/ thread \in {"hung", "dead", "left", "collect"}
        \/ shower # "up" \/ reader = "atEof"
=============================================================================
