------------------------------ MODULE MCLaunch ------------------------------
(***************************************************************************)
(* Lines for the runs of Launch.                                           *)
(***************************************************************************)
EXTENDS Launch

AnyLine == [first : FirstKind, second : SecondKind]
JobsLines == [first : {"jobs"}, second : SecondKind]
=============================================================================
