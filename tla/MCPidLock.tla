----------------------------- MODULE MCPidLock ------------------------------
(***************************************************************************)
(* Three starts of yashd: process ids of different lengths, one of them    *)
(* the beginning of another.                                               *)
(***************************************************************************)
EXTENDS PidLock

MCInstances == 1 .. 3
MCDigits == <<<<1, 2, 3>>, <<1, 2>>, <<7>>>>
MCNewline == 10
=============================================================================
