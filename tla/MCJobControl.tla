---------------------------- MODULE MCJobControl ----------------------------
(***************************************************************************)
(* Values for the constants of JobControl: the lines, messages and counts  *)
(* the runs choose from.                                                   *)
(***************************************************************************)
EXTENDS JobControl, TLC

CONSTANTS c1, c2

\* The clients are alike.  Used where only invariants and single steps are checked.
Symmetry == Permutations(Clients)

Line(head, pipe, amp) == [head |-> head, pipe |-> pipe, amp |-> amp]

Prog == Line("prog", FALSE, FALSE)
Pipe == Line("prog", TRUE, FALSE)
ProgAmp == Line("prog", FALSE, TRUE)
Fg == Line("fg", FALSE, FALSE)
FgStale == Line("fg", TRUE, FALSE)
Bg == Line("bg", FALSE, FALSE)
Empty == Line("empty", FALSE, FALSE)

\* What the uninitialized job_count may hold: the number before its first entry too.
Counts == {-1, 0}

ProgLines == {Prog}
NoAmp == {Prog, Pipe, Fg, FgStale, Bg, Empty}
NoPipe == {Prog, Fg, Bg, ProgAmp}
All == {Prog, Pipe, ProgAmp, Fg, FgStale, Bg, Empty,
        Line("c", FALSE, FALSE), Line("none", FALSE, FALSE)}
=============================================================================
