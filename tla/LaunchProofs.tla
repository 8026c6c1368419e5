---------------------------- MODULE LaunchProofs ----------------------------
(***************************************************************************)
(* Proofs about Launch, for any set of lines: the process group is there   *)
(* when the parent goes on, the pipe between the programs ends with the    *)
(* first of them, the parent is answered by the byte, and only a fork that *)
(* fails ends the daemon.                                                  *)
(***************************************************************************)
EXTENDS Launch, TLAPS

Early == {"setpgid", "redirect", "plumb", "sync"}        \* before the byte
Late == {"exec", "running", "fallen", "fallenRead", "fallenWait"}
Fallen == {"fallen", "fallenRead", "fallenWait"}
Over == {"zombie", "reaped"}

Places ==
    /\ pc["P"] \in {"fork1", "fork2", "closesync", "read", "close", "wait", "prompt", "exited"}
    /\ \A p \in {"C1", "C2", "G2"} : pc[p] \in {"unborn"} \cup Early \cup Late \cup Over
    /\ pc["C2"] # "sync" /\ pc["G2"] # "sync"
    /\ pc["G2"] # "reaped"

Forks ==
    /\ pc["P"] = "fork1" => pc["C1"] = "unborn" /\ "C1" \notin failed
    /\ pc["P"] \in {"fork1", "fork2"} =>
          /\ pc["C2"] = "unborn" /\ "C2" \notin failed
          /\ ends["P"] = {"pfd0", "pfd1", "sync0", "sync1"}
    /\ pc["P"] # "fork1" => "C1" \in failed \/ pc["C1"] # "unborn"
    /\ \A q \in {"C1", "C2"} : q \in failed => pc[q] = "unborn"
    /\ pc["C1"] = "unborn" => pc["G2"] = "unborn"

\* The byte is written once, by the first program, which then can neither write nor
\* read any more; only a second program that does not exist may take it away.
Handshake ==
    /\ pc["C1"] \in Early => "sync1" \in ends["C1"]
    /\ pc["C1"] \in Early \cup {"unborn"} => bytes = 0
    /\ pc["C1"] \in Late => "sync0" \notin ends["C1"]
    /\ pc["G2"] # "unborn" => "sync0" \notin ends["G2"]
    /\ pc["C1"] \notin {"unborn", "setpgid"} => "C1" \in inJob
    /\ pc["P"] \in {"fork1", "fork2", "closesync", "read"} => answer = "none"
    /\ pc["C1"] \in Late \cup Over /\ line.first \notin {"jobs", "badredir"} =>
          bytes = 1 \/ answer = "byte" \/ line.second = "badexec"
    /\ \A p \in {"C2", "G2"} : pc[p] \in Fallen => line.second = "badexec"

\* Whoever stands before a reader in the pipe holds the end that is written to.
Pipe ==
    Piped =>
        /\ pc["C1"] \in {"setpgid", "redirect", "plumb"} => "pfd1" \in ends["C1"]
        /\ pc["C1"] \in {"sync"} \cup Late => "stdout" \in ends["C1"]
        /\ pc["G2"] \in Early \cup Late => "stdout" \in ends["G2"]
        /\ pc["C2"] \in {"setpgid", "plumb"} => "pfd0" \in ends["C2"]
        /\ pc["C2"] \in {"redirect", "exec", "running"} => "stdin" \in ends["C2"]

\* What the parent has still to wait for, counted as it counts.
Due(q) == IF q \in failed \/ pc[q] \notin {"unborn", "reaped"} THEN 1 ELSE 0
Ledger == waits = Due("C1") + Due("C2")

IInv ==
    /\ TypeOK /\ Places /\ Forks /\ Handshake /\ Pipe /\ Ledger
    /\ GroupReady /\ NoEarlyEof /\ ByteUnlessBad /\ ExitsForFailedFork

-----------------------------------------------------------------------------
LEMMA InitInv == Init => IInv
<1> SUFFICES ASSUME Init PROVE IInv
    OBVIOUS
<1>1. TypeOK
    BY LaunchAssumption DEF Init, TypeOK, Proc, PC, End
<1> QED
    BY <1>1 DEF Init, IInv, Proc, Places, Forks, Handshake, Pipe, Ledger, Due,
       Early, Late, Over, Fallen, GroupReady, NoEarlyEof, Ended, ByteUnlessBad,
       ExitsForFailedFork

LEMMA ForkFirstKeeps == ASSUME IInv, ForkFirst PROVE IInv'
<1> USE DEF IInv
<1>1. /\ pc["P"] = "fork1" /\ waits' = waits + 1
      /\ \/ /\ pc' = [pc EXCEPT !["P"] = "fork2", !["C1"] = "setpgid"]
            /\ ends' = [ends EXCEPT !["C1"] = ends["P"]] /\ UNCHANGED failed
         \/ /\ pc' = [pc EXCEPT !["P"] = "fork2"]
            /\ failed' = failed \cup {"C1"} /\ UNCHANGED ends
      /\ UNCHANGED <<line, inJob, bytes, answer>>
    BY DEF ForkFirst, ForkTo, Goto, Fails
<1>2. TypeOK'
    <2>1. pc' \in [Proc -> PC]
        BY <1>1 DEF TypeOK, Proc, PC
    <2>2. ends' \in [Proc -> SUBSET End]
        BY <1>1 DEF TypeOK, Proc
    <2>3. failed' \subseteq Proc
        BY <1>1 DEF TypeOK, Proc
    <2>4. waits' \in 0 .. 2
        BY <1>1 DEF TypeOK, Ledger, Due, Forks
    <2> QED
        BY <1>1, <2>1, <2>2, <2>3, <2>4 DEF TypeOK
<1>3. Places' /\ Forks'
    BY <1>1 DEF Forks, Places, Early, Late, TypeOK, Proc, Over
<1>4. Handshake'
    BY <1>1 DEF Handshake, Forks, Places, Early, Late, Over, Fallen, TypeOK, Proc
<1>5. Pipe'
    BY <1>1 DEF Pipe, Piped, Forks, Places, Early, Late, Over, TypeOK, Proc
<1>6. Ledger'
    BY <1>1 DEF Ledger, Due, Places, Forks, Early, Late, TypeOK, Proc
<1>7. GroupReady' /\ ByteUnlessBad' /\ ExitsForFailedFork'
    BY <1>1 DEF GroupReady, ByteUnlessBad, NoFirst, ExitsForFailedFork, Handshake, Forks, Places,
                Early, Late, Over, TypeOK, Proc
<1>8. NoEarlyEof'
    BY <1>1 DEF NoEarlyEof, Ended, Pipe, Piped, Forks, Places, Early, Late, Over, TypeOK, Proc
<1> QED
    BY <1>2, <1>3, <1>4, <1>5, <1>6, <1>7, <1>8

LEMMA ForkSecondKeeps == ASSUME IInv, ForkSecond PROVE IInv'
<1> USE DEF IInv
<1>1. /\ pc["P"] = "fork2"
      /\ \/ /\ Piped /\ waits' = waits + 1 /\ UNCHANGED failed
            /\ pc' = [pc EXCEPT !["P"] = "closesync", !["C2"] = "setpgid"]
            /\ ends' = [ends EXCEPT !["C2"] = ends["P"]]
         \/ /\ Piped /\ waits' = waits + 1 /\ failed' = failed \cup {"C2"}
            /\ pc' = [pc EXCEPT !["P"] = "closesync"] /\ UNCHANGED ends
         \/ /\ ~Piped /\ UNCHANGED <<waits, failed, ends>>
            /\ pc' = [pc EXCEPT !["P"] = "closesync"]
      /\ UNCHANGED <<line, inJob, bytes, answer>>
    BY DEF ForkSecond, ForkTo, Goto, Fails, CountSecond
<1>2. TypeOK'
    <2>1. pc' \in [Proc -> PC]
        BY <1>1 DEF TypeOK, Proc, PC
    <2>2. ends' \in [Proc -> SUBSET End]
        BY <1>1 DEF TypeOK, Proc
    <2>3. failed' \subseteq Proc
        BY <1>1 DEF TypeOK, Proc
    <2>4. waits' \in 0 .. 2
        BY <1>1 DEF TypeOK, Ledger, Due, Forks
    <2> QED
        BY <1>1, <2>1, <2>2, <2>3, <2>4 DEF TypeOK
<1>3. Places' /\ Forks'
    BY <1>1 DEF Forks, Places, Early, Late, TypeOK, Proc, Over
<1>4. Handshake'
    BY <1>1 DEF Handshake, Forks, Places, Early, Late, Over, Fallen, TypeOK, Proc
<1>5. Pipe'
    BY <1>1 DEF Pipe, Piped, Forks, Places, Early, Late, Over, TypeOK, Proc
<1>6. Ledger'
    BY <1>1 DEF Ledger, Due, Places, Forks, Early, Late, TypeOK, Proc
<1>7. GroupReady' /\ ByteUnlessBad' /\ ExitsForFailedFork'
    BY <1>1 DEF GroupReady, ByteUnlessBad, NoFirst, ExitsForFailedFork, Handshake, Forks, Places,
                Early, Late, Over, TypeOK, Proc
<1>8. NoEarlyEof'
    BY <1>1 DEF NoEarlyEof, Ended, Pipe, Piped, Forks, Places, Early, Late, Over, TypeOK, Proc
<1> QED
    BY <1>2, <1>3, <1>4, <1>5, <1>6, <1>7, <1>8

LEMMA CloseSyncKeeps == ASSUME IInv, CloseSync PROVE IInv'
<1> USE DEF IInv
<1>1. /\ pc["P"] = "closesync" /\ pc' = [pc EXCEPT !["P"] = "read"]
      /\ ends' = [ends EXCEPT !["P"] = ends["P"] \ {"sync1"}]
      /\ UNCHANGED <<line, inJob, bytes, answer, waits, failed>>
    BY DEF CloseSync, Goto, Closes
<1>2. TypeOK'
    BY <1>1 DEF TypeOK, Proc, PC, End
<1>3. Places' /\ Forks'
    BY <1>1 DEF Forks, Places, Early, Late, TypeOK, Proc, Over
<1>4. Handshake'
    BY <1>1 DEF Handshake, Forks, Places, Early, Late, Over, Fallen, TypeOK, Proc
<1>5. Pipe'
    BY <1>1 DEF Pipe, Piped, Forks, Places, Early, Late, Over, TypeOK, Proc
<1>6. Ledger'
    BY <1>1 DEF Ledger, Due, Places, Forks, Early, Late, TypeOK, Proc
<1>7. GroupReady' /\ ByteUnlessBad' /\ ExitsForFailedFork'
    BY <1>1 DEF GroupReady, ByteUnlessBad, NoFirst, ExitsForFailedFork, Handshake, Forks, Places,
                Early, Late, Over, TypeOK, Proc
<1>8. NoEarlyEof'
    BY <1>1 DEF NoEarlyEof, Ended, Pipe, Piped, Forks, Places, Early, Late, Over, TypeOK, Proc
<1> QED
    BY <1>2, <1>3, <1>4, <1>5, <1>6, <1>7, <1>8

LEMMA ReadSyncKeeps == ASSUME IInv, ReadSync PROVE IInv'
<1> USE DEF IInv
<1>1. /\ pc["P"] = "read" /\ pc' = [pc EXCEPT !["P"] = "close"]
      /\ answer' = IF bytes > 0 THEN "byte" ELSE "eof"
      /\ \/ bytes > 0 /\ bytes' = bytes - 1
         \/ bytes = 0 /\ SyncWriters = {} /\ bytes' = bytes
      /\ UNCHANGED <<line, ends, inJob, waits, failed>>
    BY DEF ReadSync, Goto, SyncRead
<1>2. TypeOK'
    BY <1>1 DEF TypeOK, Proc, PC, End
<1>3. Places' /\ Forks'
    BY <1>1 DEF Forks, Places, Early, Late, TypeOK, Proc, Over
<1>4. Handshake'
    BY <1>1 DEF Handshake, Forks, Places, Early, Late, Over, Fallen, TypeOK, Proc
<1>5. Pipe'
    BY <1>1 DEF Pipe, Piped, Forks, Places, Early, Late, Over, TypeOK, Proc
<1>6. Ledger'
    BY <1>1 DEF Ledger, Due, Places, Forks, Early, Late, TypeOK, Proc
<1>7. GroupReady' /\ ByteUnlessBad' /\ ExitsForFailedFork'
    BY <1>1 DEF GroupReady, ByteUnlessBad, NoFirst, ExitsForFailedFork, Handshake, Forks, Places,
                Early, Late, Over, TypeOK, Proc, SyncWriters
<1>8. NoEarlyEof'
    BY <1>1 DEF NoEarlyEof, Ended, Pipe, Piped, Forks, Places, Early, Late, Over, TypeOK, Proc
<1> QED
    BY <1>2, <1>3, <1>4, <1>5, <1>6, <1>7, <1>8

LEMMA ClosePipesKeeps == ASSUME IInv, ClosePipes PROVE IInv'
<1> USE DEF IInv
<1>1. /\ pc["P"] = "close" /\ pc' = [pc EXCEPT !["P"] = "wait"]
      /\ ends' = [ends EXCEPT !["P"] = ends["P"] \ {"sync0", "pfd0", "pfd1"}]
      /\ UNCHANGED <<line, inJob, bytes, answer, waits, failed>>
    BY DEF ClosePipes, Goto, Closes
<1>2. TypeOK'
    BY <1>1 DEF TypeOK, Proc, PC, End
<1>3. Places' /\ Forks'
    BY <1>1 DEF Forks, Places, Early, Late, TypeOK, Proc, Over
<1>4. Handshake'
    BY <1>1 DEF Handshake, Forks, Places, Early, Late, Over, Fallen, TypeOK, Proc
<1>5. Pipe'
    BY <1>1 DEF Pipe, Piped, Forks, Places, Early, Late, Over, TypeOK, Proc
<1>6. Ledger'
    BY <1>1 DEF Ledger, Due, Places, Forks, Early, Late, TypeOK, Proc
<1>7. GroupReady' /\ ByteUnlessBad' /\ ExitsForFailedFork'
    BY <1>1 DEF GroupReady, ByteUnlessBad, NoFirst, ExitsForFailedFork, Handshake, Forks, Places,
                Early, Late, Over, TypeOK, Proc
<1>8. NoEarlyEof'
    BY <1>1 DEF NoEarlyEof, Ended, Pipe, Piped, Forks, Places, Early, Late, Over, TypeOK, Proc
<1> QED
    BY <1>2, <1>3, <1>4, <1>5, <1>6, <1>7, <1>8

LEMMA ReapKeeps == ASSUME IInv, NEW q \in {"C1", "C2"}, Reap(q) PROVE IInv'
<1> USE DEF IInv
<1>1. /\ pc["P"] = "wait" /\ waits > 0 /\ pc[q] = "zombie"
      /\ pc' = [pc EXCEPT ![q] = "reaped"] /\ waits' = waits - 1
      /\ UNCHANGED <<line, ends, inJob, bytes, answer, failed>>
    BY DEF Reap, Goto
<1>2. TypeOK'
    BY <1>1 DEF TypeOK, Proc, PC, End
<1>3. Places' /\ Forks'
    BY <1>1 DEF Forks, Places, Early, Late, TypeOK, Proc, Over
<1>4. Handshake'
    BY <1>1 DEF Handshake, Forks, Places, Early, Late, Over, Fallen, TypeOK, Proc
<1>5. Pipe'
    BY <1>1 DEF Pipe, Piped, Forks, Places, Early, Late, Over, TypeOK, Proc
<1>6. Ledger'
    BY <1>1 DEF Ledger, Due, Places, Forks, Early, Late, TypeOK, Proc
<1>7. GroupReady' /\ ByteUnlessBad' /\ ExitsForFailedFork'
    BY <1>1 DEF GroupReady, ByteUnlessBad, NoFirst, ExitsForFailedFork, Handshake, Forks, Places,
                Early, Late, Over, TypeOK, Proc
<1>8. NoEarlyEof'
    BY <1>1 DEF NoEarlyEof, Ended, Pipe, Piped, Forks, Places, Early, Late, Over, TypeOK, Proc
<1> QED
    BY <1>2, <1>3, <1>4, <1>5, <1>6, <1>7, <1>8

LEMMA PromptKeeps == ASSUME IInv, Prompt PROVE IInv'
<1> USE DEF IInv
<1>1. /\ pc["P"] = "wait" /\ pc' = [pc EXCEPT !["P"] = "prompt"]
      /\ waits = 0
      /\ UNCHANGED <<line, ends, inJob, bytes, answer, waits, failed>>
    BY DEF Prompt, Goto
<1>2. TypeOK'
    BY <1>1 DEF TypeOK, Proc, PC, End
<1>3. Places' /\ Forks'
    BY <1>1 DEF Forks, Places, Early, Late, TypeOK, Proc, Over
<1>4. Handshake'
    BY <1>1 DEF Handshake, Forks, Places, Early, Late, Over, Fallen, TypeOK, Proc
<1>5. Pipe'
    BY <1>1 DEF Pipe, Piped, Forks, Places, Early, Late, Over, TypeOK, Proc
<1>6. Ledger'
    BY <1>1 DEF Ledger, Due, Places, Forks, Early, Late, TypeOK, Proc
<1>7. GroupReady' /\ ByteUnlessBad' /\ ExitsForFailedFork'
    BY <1>1 DEF GroupReady, ByteUnlessBad, NoFirst, ExitsForFailedFork, Handshake, Forks, Places,
                Early, Late, Over, TypeOK, Proc, Ledger, Due
<1>8. NoEarlyEof'
    BY <1>1 DEF NoEarlyEof, Ended, Pipe, Piped, Forks, Places, Early, Late, Over, TypeOK, Proc
<1> QED
    BY <1>2, <1>3, <1>4, <1>5, <1>6, <1>7, <1>8

LEMMA WaitFailsKeeps == ASSUME IInv, WaitFails PROVE IInv'
<1> USE DEF IInv
<1>1. /\ pc["P"] = "wait" /\ pc' = [pc EXCEPT !["P"] = "exited"]
      /\ waits > 0 /\ \A q \in {"C1", "C2"} : pc[q] \in {"unborn", "reaped"}
      /\ UNCHANGED <<line, ends, inJob, bytes, answer, waits, failed>>
    BY DEF WaitFails, Goto
<1>2. TypeOK'
    BY <1>1 DEF TypeOK, Proc, PC, End
<1>3. Places' /\ Forks'
    BY <1>1 DEF Forks, Places, Early, Late, TypeOK, Proc, Over
<1>4. Handshake'
    BY <1>1 DEF Handshake, Forks, Places, Early, Late, Over, Fallen, TypeOK, Proc
<1>5. Pipe'
    BY <1>1 DEF Pipe, Piped, Forks, Places, Early, Late, Over, TypeOK, Proc
<1>6. Ledger'
    BY <1>1 DEF Ledger, Due, Places, Forks, Early, Late, TypeOK, Proc
<1>7. GroupReady' /\ ByteUnlessBad' /\ ExitsForFailedFork'
    BY <1>1 DEF GroupReady, ByteUnlessBad, NoFirst, ExitsForFailedFork, Handshake, Forks, Places,
                Early, Late, Over, TypeOK, Proc, Ledger, Due
<1>8. NoEarlyEof'
    BY <1>1 DEF NoEarlyEof, Ended, Pipe, Piped, Forks, Places, Early, Late, Over, TypeOK, Proc
<1> QED
    BY <1>2, <1>3, <1>4, <1>5, <1>6, <1>7, <1>8

LEMMA SetGroupKeeps == ASSUME IInv, NEW p \in {"C1", "C2", "G2"}, SetGroup(p) PROVE IInv'
<1> USE DEF IInv
<1>1. /\ pc[p] = "setpgid"
      /\ pc' = [pc EXCEPT ![p] = IF p = "C1" THEN "redirect" ELSE "plumb"]
      /\ inJob' \in {inJob, inJob \cup {p}} /\ (p = "C1" => inJob' = inJob \cup {p})
      /\ UNCHANGED <<line, ends, bytes, answer, waits, failed>>
    BY DEF SetGroup, Goto
<1>2. TypeOK'
    BY <1>1 DEF TypeOK, Proc, PC, End
<1>3. Places' /\ Forks'
    BY <1>1 DEF Forks, Places, Early, Late, TypeOK, Proc, Over
<1>4. Handshake'
    BY <1>1 DEF Handshake, Forks, Places, Early, Late, Over, Fallen, TypeOK, Proc
<1>5. Pipe'
    BY <1>1 DEF Pipe, Piped, Forks, Places, Early, Late, Over, TypeOK, Proc
<1>6. Ledger'
    BY <1>1 DEF Ledger, Due, Places, Forks, Early, Late, TypeOK, Proc
<1>7. GroupReady' /\ ByteUnlessBad' /\ ExitsForFailedFork'
    BY <1>1 DEF GroupReady, ByteUnlessBad, NoFirst, ExitsForFailedFork, Handshake, Forks, Places,
                Early, Late, Over, TypeOK, Proc
<1>8. NoEarlyEof'
    BY <1>1 DEF NoEarlyEof, Ended, Pipe, Piped, Forks, Places, Early, Late, Over, TypeOK, Proc
<1> QED
    BY <1>2, <1>3, <1>4, <1>5, <1>6, <1>7, <1>8

\* The end of a child, wherever its code has one.
LEMMA ExitKeeps == ASSUME IInv, NEW p \in {"C1", "C2", "G2"}, Exit(p),
           pc[p] \in Late \cup {"redirect"},
           p = "C1" /\ pc[p] = "redirect" => line.first \in {"jobs", "badredir"},
           p = "C2" /\ line.second = "reader" => PfdWriters = {},
           UNCHANGED <<line, inJob, bytes, answer, waits, failed>>
    PROVE IInv'
<1> USE DEF IInv
<1>1. /\ pc' = [pc EXCEPT ![p] = "zombie"]
      /\ ends' = [ends EXCEPT ![p] = ends[p] \ End]
    BY DEF Exit, Goto, Closes
<1>2. TypeOK'
    BY <1>1 DEF TypeOK, Proc, PC, End
<1>3. Places' /\ Forks'
    BY <1>1 DEF Forks, Places, Early, Late, TypeOK, Proc, Over
<1>4. Handshake'
    BY <1>1 DEF Handshake, Forks, Places, Early, Late, Over, Fallen, TypeOK, Proc
<1>5. Pipe'
    BY <1>1 DEF Pipe, Piped, Forks, Places, Early, Late, Over, TypeOK, Proc
<1>6. Ledger'
    BY <1>1 DEF Ledger, Due, Places, Forks, Early, Late, TypeOK, Proc
<1>7. GroupReady' /\ ByteUnlessBad' /\ ExitsForFailedFork'
    BY <1>1 DEF GroupReady, ByteUnlessBad, NoFirst, ExitsForFailedFork, Handshake, Forks, Places,
                Early, Late, Over, TypeOK, Proc
<1>8. NoEarlyEof'
    BY <1>1 DEF NoEarlyEof, Ended, Pipe, Piped, Forks, Places, Early, Late, Over, TypeOK, Proc, PfdWriters
<1> QED
    BY <1>2, <1>3, <1>4, <1>5, <1>6, <1>7, <1>8

LEMMA RedirectFirstKeeps == ASSUME IInv, RedirectFirst,
           line.first \notin {"jobs", "badredir"}
    PROVE IInv'
<1> USE DEF IInv
<1>1. /\ pc["C1"] = "redirect" /\ pc' = [pc EXCEPT !["C1"] = "plumb"]
      /\ UNCHANGED <<line, ends, inJob, bytes, answer, waits, failed>>
    BY DEF RedirectFirst, Goto
<1>2. TypeOK'
    BY <1>1 DEF TypeOK, Proc, PC, End
<1>3. Places' /\ Forks'
    BY <1>1 DEF Forks, Places, Early, Late, TypeOK, Proc, Over
<1>4. Handshake'
    BY <1>1 DEF Handshake, Forks, Places, Early, Late, Over, Fallen, TypeOK, Proc
<1>5. Pipe'
    BY <1>1 DEF Pipe, Piped, Forks, Places, Early, Late, Over, TypeOK, Proc
<1>6. Ledger'
    BY <1>1 DEF Ledger, Due, Places, Forks, Early, Late, TypeOK, Proc
<1>7. GroupReady' /\ ByteUnlessBad' /\ ExitsForFailedFork'
    BY <1>1 DEF GroupReady, ByteUnlessBad, NoFirst, ExitsForFailedFork, Handshake, Forks, Places,
                Early, Late, Over, TypeOK, Proc
<1>8. NoEarlyEof'
    BY <1>1 DEF NoEarlyEof, Ended, Pipe, Piped, Forks, Places, Early, Late, Over, TypeOK, Proc
<1> QED
    BY <1>2, <1>3, <1>4, <1>5, <1>6, <1>7, <1>8

LEMMA PlumbFirstKeeps == ASSUME IInv, PlumbFirst PROVE IInv'
<1> USE DEF IInv
<1>1. /\ pc["C1"] = "plumb" /\ pc' = [pc EXCEPT !["C1"] = "sync"]
      /\ ends' = [ends EXCEPT !["C1"] = FirstEnds(ends["C1"])]
      /\ UNCHANGED <<line, inJob, bytes, answer, waits, failed>>
    BY DEF PlumbFirst, Goto
<1>2. TypeOK'
    BY <1>1 DEF TypeOK, Proc, PC, End, FirstEnds
<1>3. Places' /\ Forks'
    BY <1>1 DEF Forks, Places, Early, Late, TypeOK, Proc, FirstEnds, Over
<1>4. Handshake'
    BY <1>1 DEF Handshake, Forks, Places, Early, Late, Over, Fallen, TypeOK, Proc, FirstEnds
<1>5. Pipe'
    BY <1>1 DEF Pipe, Piped, Forks, Places, Early, Late, Over, TypeOK, Proc, FirstEnds
<1>6. Ledger'
    BY <1>1 DEF Ledger, Due, Places, Forks, Early, Late, TypeOK, Proc
<1>7. GroupReady' /\ ByteUnlessBad' /\ ExitsForFailedFork'
    BY <1>1 DEF GroupReady, ByteUnlessBad, NoFirst, ExitsForFailedFork, Handshake, Forks, Places,
                Early, Late, Over, TypeOK, Proc
<1>8. NoEarlyEof'
    BY <1>1 DEF NoEarlyEof, Ended, Pipe, Piped, Forks, Places, Early, Late, Over, TypeOK, Proc, FirstEnds
<1> QED
    BY <1>2, <1>3, <1>4, <1>5, <1>6, <1>7, <1>8

LEMMA SyncWriteKeeps == ASSUME IInv, SyncWrite PROVE IInv'
<1> USE DEF IInv
<1>1. /\ pc["C1"] = "sync" /\ pc' = [pc EXCEPT !["C1"] = "exec"]
      /\ bytes' = bytes + 1
      /\ ends' = [ends EXCEPT !["C1"] = ends["C1"] \ {"sync0", "sync1"}]
      /\ UNCHANGED <<line, inJob, answer, waits, failed>>
    BY DEF SyncWrite, Goto, Closes, SyncBytes
<1>2. TypeOK'
    BY <1>1 DEF TypeOK, Proc, PC, End, Handshake, Early
<1>3. Places' /\ Forks'
    BY <1>1 DEF Forks, Places, Early, Late, TypeOK, Proc, Over
<1>4. Handshake'
    BY <1>1 DEF Handshake, Forks, Places, Early, Late, Over, Fallen, TypeOK, Proc
<1>5. Pipe'
    BY <1>1 DEF Pipe, Piped, Forks, Places, Early, Late, Over, TypeOK, Proc
<1>6. Ledger'
    BY <1>1 DEF Ledger, Due, Places, Forks, Early, Late, TypeOK, Proc
<1>7. GroupReady' /\ ByteUnlessBad' /\ ExitsForFailedFork'
    BY <1>1 DEF GroupReady, ByteUnlessBad, NoFirst, ExitsForFailedFork, Handshake, Forks, Places,
                Early, Late, Over, TypeOK, Proc
<1>8. NoEarlyEof'
    BY <1>1 DEF NoEarlyEof, Ended, Pipe, Piped, Forks, Places, Early, Late, Over, TypeOK, Proc
<1> QED
    BY <1>2, <1>3, <1>4, <1>5, <1>6, <1>7, <1>8

LEMMA PlumbSecondKeeps == ASSUME IInv, NEW p \in {"C2", "G2"}, PlumbSecond(p) PROVE IInv'
<1> USE DEF IInv
<1>1. /\ pc[p] = "plumb" /\ pc' = [pc EXCEPT ![p] = "redirect"]
      /\ ends' = [ends EXCEPT ![p] = SecondEnds(ends[p])]
      /\ UNCHANGED <<line, inJob, bytes, answer, waits, failed>>
    BY DEF PlumbSecond, Goto
<1>2. TypeOK'
    BY <1>1 DEF TypeOK, Proc, PC, End, SecondEnds
<1>3. Places' /\ Forks'
    BY <1>1 DEF Forks, Places, Early, Late, TypeOK, Proc, Over
<1>4. Handshake'
    BY <1>1 DEF Handshake, Forks, Places, Early, Late, Over, Fallen, TypeOK, Proc, SecondEnds
<1>5. Pipe'
    BY <1>1 DEF Pipe, Piped, Forks, Places, Early, Late, Over, TypeOK, Proc, SecondEnds
<1>6. Ledger'
    BY <1>1 DEF Ledger, Due, Places, Forks, Early, Late, TypeOK, Proc
<1>7. GroupReady' /\ ByteUnlessBad' /\ ExitsForFailedFork'
    BY <1>1 DEF GroupReady, ByteUnlessBad, NoFirst, ExitsForFailedFork, Handshake, Forks, Places,
                Early, Late, Over, TypeOK, Proc
<1>8. NoEarlyEof'
    BY <1>1 DEF NoEarlyEof, Ended, Pipe, Piped, Forks, Places, Early, Late, Over, TypeOK, Proc, SecondEnds
<1> QED
    BY <1>2, <1>3, <1>4, <1>5, <1>6, <1>7, <1>8

LEMMA RedirectSecondKeeps == ASSUME IInv, NEW p \in {"C2", "G2"}, RedirectSecond(p),
           line.second # "badredir"
    PROVE IInv'
<1> USE DEF IInv
<1>1. /\ pc[p] = "redirect" /\ pc' = [pc EXCEPT ![p] = "exec"]
      /\ UNCHANGED <<line, ends, inJob, bytes, answer, waits, failed>>
    BY DEF RedirectSecond, Goto
<1>2. TypeOK'
    BY <1>1 DEF TypeOK, Proc, PC, End
<1>3. Places' /\ Forks'
    BY <1>1 DEF Forks, Places, Early, Late, TypeOK, Proc, Over
<1>4. Handshake'
    BY <1>1 DEF Handshake, Forks, Places, Early, Late, Over, Fallen, TypeOK, Proc
<1>5. Pipe'
    BY <1>1 DEF Pipe, Piped, Forks, Places, Early, Late, Over, TypeOK, Proc
<1>6. Ledger'
    BY <1>1 DEF Ledger, Due, Places, Forks, Early, Late, TypeOK, Proc
<1>7. GroupReady' /\ ByteUnlessBad' /\ ExitsForFailedFork'
    BY <1>1 DEF GroupReady, ByteUnlessBad, NoFirst, ExitsForFailedFork, Handshake, Forks, Places,
                Early, Late, Over, TypeOK, Proc
<1>8. NoEarlyEof'
    BY <1>1 DEF NoEarlyEof, Ended, Pipe, Piped, Forks, Places, Early, Late, Over, TypeOK, Proc
<1> QED
    BY <1>2, <1>3, <1>4, <1>5, <1>6, <1>7, <1>8

LEMMA ExecKeeps == ASSUME IInv, NEW p \in {"C1", "C2", "G2"}, Exec(p) PROVE IInv'
<1> USE DEF IInv
<1>1. /\ pc[p] = "exec"
      /\ \E l \in {"fallen", "running"} :
             /\ pc' = [pc EXCEPT ![p] = l]
             /\ l = "fallen" => (IF p = "C1" THEN line.first ELSE line.second) = "badexec"
      /\ UNCHANGED <<line, ends, inJob, bytes, answer, waits, failed>>
    BY DEF Exec, Goto
<1>2. TypeOK'
    BY <1>1 DEF TypeOK, Proc, PC, End
<1>3. Places' /\ Forks'
    BY <1>1 DEF Forks, Places, Early, Late, TypeOK, Proc, Over
<1>4. Handshake'
    BY <1>1 DEF Handshake, Forks, Places, Early, Late, Over, Fallen, TypeOK, Proc
<1>5. Pipe'
    BY <1>1 DEF Pipe, Piped, Forks, Places, Early, Late, Over, TypeOK, Proc
<1>6. Ledger'
    BY <1>1 DEF Ledger, Due, Places, Forks, Early, Late, TypeOK, Proc
<1>7. GroupReady' /\ ByteUnlessBad' /\ ExitsForFailedFork'
    BY <1>1 DEF GroupReady, ByteUnlessBad, NoFirst, ExitsForFailedFork, Handshake, Forks, Places,
                Early, Late, Over, TypeOK, Proc
<1>8. NoEarlyEof'
    BY <1>1 DEF NoEarlyEof, Ended, Pipe, Piped, Forks, Places, Early, Late, Over, TypeOK, Proc
<1> QED
    BY <1>2, <1>3, <1>4, <1>5, <1>6, <1>7, <1>8

LEMMA FallKeeps == ASSUME IInv, NEW p \in {"C1", "C2", "G2"}, Fall(p) PROVE IInv'
<1> USE DEF IInv
<1>1. /\ pc[p] = "fallen"
      /\ \/ /\ p = "C1" /\ Piped /\ UNCHANGED failed
            /\ pc' = [pc EXCEPT !["C1"] = "fallenRead", !["G2"] = "setpgid"]
            /\ ends' = [ends EXCEPT !["G2"] = ends["C1"]]
         \/ /\ failed' \in {failed, failed \cup {"G2"}}
            /\ pc' = [pc EXCEPT ![p] = "fallenRead"]
            /\ ends' = [ends EXCEPT ![p] = ends[p] \ {"sync1"}]
      /\ UNCHANGED <<line, inJob, bytes, answer, waits>>
    BY DEF Fall, ForkTo, Goto, Closes, Fails
<1>2. TypeOK'
    <2>1. pc' \in [Proc -> PC]
        BY <1>1 DEF TypeOK, Proc, PC
    <2>2. ends' \in [Proc -> SUBSET End]
        BY <1>1 DEF TypeOK, Proc
    <2>3. failed' \subseteq Proc
        BY <1>1 DEF TypeOK, Proc
    <2> QED
        BY <1>1, <2>1, <2>2, <2>3 DEF TypeOK
<1>3. Places' /\ Forks'
    BY <1>1 DEF Forks, Places, Early, Late, TypeOK, Proc, Over
<1>4. Handshake'
    BY <1>1 DEF Handshake, Forks, Places, Early, Late, Over, Fallen, TypeOK, Proc
<1>5. Pipe'
    BY <1>1 DEF Pipe, Piped, Forks, Places, Early, Late, Over, TypeOK, Proc
<1>6. Ledger'
    BY <1>1 DEF Ledger, Due, Places, Forks, Early, Late, TypeOK, Proc
<1>7. GroupReady' /\ ByteUnlessBad' /\ ExitsForFailedFork'
    BY <1>1 DEF GroupReady, ByteUnlessBad, NoFirst, ExitsForFailedFork, Handshake, Forks, Places,
                Early, Late, Over, TypeOK, Proc
<1>8. NoEarlyEof'
    BY <1>1 DEF NoEarlyEof, Ended, Pipe, Piped, Forks, Places, Early, Late, Over, TypeOK, Proc
<1> QED
    BY <1>2, <1>3, <1>4, <1>5, <1>6, <1>7, <1>8

LEMMA FallenReadKeeps == ASSUME IInv, NEW p \in {"C1", "C2", "G2"}, FallenRead(p) PROVE IInv'
<1> USE DEF IInv
<1>1. /\ pc[p] = "fallenRead" /\ pc' = [pc EXCEPT ![p] = "fallenWait"]
      /\ ends' = [ends EXCEPT ![p] = ends[p] \ {"sync0", "pfd0", "pfd1"}]
      /\ bytes' = bytes \/ ("sync0" \in ends[p] /\ bytes > 0 /\ bytes' = bytes - 1)
      /\ UNCHANGED <<line, inJob, answer, waits, failed>>
    BY DEF FallenRead, SyncRead, Goto, Closes
<1>2. TypeOK'
    BY <1>1 DEF TypeOK, Proc, PC, End
<1>3. Places' /\ Forks'
    BY <1>1 DEF Forks, Places, Early, Late, TypeOK, Proc, Over
<1>4. Handshake'
    BY <1>1 DEF Handshake, Forks, Places, Early, Late, Over, Fallen, TypeOK, Proc
<1>5. Pipe'
    BY <1>1 DEF Pipe, Piped, Forks, Places, Early, Late, Over, TypeOK, Proc
<1>6. Ledger'
    BY <1>1 DEF Ledger, Due, Places, Forks, Early, Late, TypeOK, Proc
<1>7. GroupReady' /\ ByteUnlessBad' /\ ExitsForFailedFork'
    BY <1>1 DEF GroupReady, ByteUnlessBad, NoFirst, ExitsForFailedFork, Handshake, Forks, Places,
                Early, Late, Over, TypeOK, Proc
<1>8. NoEarlyEof'
    BY <1>1 DEF NoEarlyEof, Ended, Pipe, Piped, Forks, Places, Early, Late, Over, TypeOK, Proc
<1> QED
    BY <1>2, <1>3, <1>4, <1>5, <1>6, <1>7, <1>8

LEMMA NextInv == IInv /\ [Next]_vars => IInv'
<1> SUFFICES ASSUME IInv, [Next]_vars PROVE IInv'
    OBVIOUS
<1>1. CASE UNCHANGED vars
    BY <1>1 DEF vars, IInv, TypeOK, Places, Forks, Handshake, Pipe, Piped, Ledger, Due,
                GroupReady, NoEarlyEof, Ended, ByteUnlessBad, NoFirst, ExitsForFailedFork
<1>2. CASE Parent
    BY <1>2, ForkFirstKeeps, ForkSecondKeeps, CloseSyncKeeps, ReadSyncKeeps,
       ClosePipesKeeps, ReapKeeps, PromptKeeps, WaitFailsKeeps DEF Parent
<1>3. CASE RedirectFirst
    BY <1>3, ExitKeeps, RedirectFirstKeeps DEF RedirectFirst
<1>4. ASSUME NEW p \in {"C2", "G2"}, RedirectSecond(p) PROVE IInv'
    BY <1>4, ExitKeeps, RedirectSecondKeeps DEF RedirectSecond
<1>5. ASSUME NEW p \in {"C1", "C2", "G2"}, Finish(p) PROVE IInv'
    <2>1. /\ pc[p] = "running" /\ Exit(p)
          /\ UNCHANGED <<line, inJob, bytes, answer, waits, failed>>
          /\ p # "C1" /\ line.second = "reader" /\ "stdin" \in ends[p] => PfdWriters = {}
        BY <1>5 DEF Finish
    <2>2. p = "C2" /\ line.second = "reader" => "stdin" \in ends[p]
        BY <2>1 DEF IInv, Pipe, Piped
    <2> QED
        BY <2>1, <2>2, ExitKeeps DEF Late
<1>6. ASSUME NEW p \in {"C1", "C2", "G2"}, FallenExit(p) PROVE IInv'
    <2>1. /\ pc[p] = "fallenWait" /\ Exit(p)
          /\ UNCHANGED <<line, inJob, bytes, answer, waits, failed>>
        BY <1>6 DEF FallenExit
    <2>2. p = "C2" => line.second # "reader"
        BY <2>1 DEF IInv, Handshake, Fallen
    <2> QED
        BY <2>1, <2>2, ExitKeeps DEF Late
<1>7. ASSUME NEW p \in Proc \ {"P"}, Child(p) PROVE IInv'
    <2>1. p \in {"C1", "C2", "G2"}
        BY DEF Proc
    <2>2. PlumbSecond(p) \/ RedirectSecond(p) => p \in {"C2", "G2"}
        BY <2>1 DEF PlumbSecond, RedirectSecond
    <2> QED
        BY <1>3, <1>4, <1>5, <1>6, <1>7, <2>1, <2>2, SetGroupKeeps, PlumbFirstKeeps,
           SyncWriteKeeps, PlumbSecondKeeps, ExecKeeps, FallKeeps, FallenReadKeeps DEF Child
<1> QED
    BY <1>1, <1>2, <1>7 DEF Next

-----------------------------------------------------------------------------
\* The invariant holds for every line, every order of the four processes and every
\* fork that fails.
THEOREM Invariant == Spec => []IInv
<1> QED
    BY InitInv, NextInv, PTL DEF Spec

\* The program's group is there when the parent goes on (daemon/server.c:475).
THEOREM GroupAlwaysReady == Spec => []GroupReady
<1>1. IInv => GroupReady
    BY DEF IInv
<1> QED
    BY <1>1, Invariant, PTL

\* A reader sees the end of the pipe only after the program before it is gone
\* (daemon/server.c:437 and :460).
THEOREM NeverEarlyEof == Spec => []NoEarlyEof
<1>1. IInv => NoEarlyEof
    BY DEF IInv
<1> QED
    BY <1>1, Invariant, PTL

\* The parent is answered by the byte, except after a line without a first program, or
\* with a second one that does not exist (daemon/server.c:446 and :476).
THEOREM AnsweredByByte == Spec => []ByteUnlessBad
<1>1. IInv => ByteUnlessBad
    BY DEF IInv
<1> QED
    BY <1>1, Invariant, PTL

\* The wait loop ends the daemon for a failed fork and for nothing else
\* (daemon/server.c:415 and :521).
THEOREM OnlyFailedForkExits == Spec => []ExitsForFailedFork
<1>1. IInv => ExitsForFailedFork
    BY DEF IInv
<1> QED
    BY <1>1, Invariant, PTL
=============================================================================
