----------------------------- MODULE MCCollect ------------------------------
(***************************************************************************)
(* Collect for TLC: the clients are interchangeable, and so are the files. *)
(***************************************************************************)
EXTENDS Collect, TLC

CONSTANTS c1, c2, f1, f2

Symmetry == Permutations(Clients) \cup Permutations(Files)
=============================================================================
