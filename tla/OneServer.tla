----------------------------- MODULE OneServer ------------------------------
(***************************************************************************)
(* What the start of yashd promises: of all instances at most one owns the *)
(* PID file, only the owner writes its name into it, and an instance opens *)
(* the port only as the owner and under its own name.  PidLock implements  *)
(* this.                                                                   *)
(***************************************************************************)
CONSTANTS
    Instances,
    Name        \* [Instances -> the name of the instance]

VARIABLES
    owner,      \* the instance that owns the file: a set of at most one
    named,      \* what a reader of the file finds
    serving     \* the instance that has opened the port: a set of at most one

vars == <<owner, named, serving>>

Init ==
    /\ owner = {}
    /\ named = <<>>
    /\ serving = {}

Claim(n) ==
    /\ owner = {}
    /\ owner' = {n}
    /\ UNCHANGED <<named, serving>>

Publish(n) ==
    /\ owner = {n} /\ serving = {}
    /\ named' = Name[n]
    /\ UNCHANGED <<owner, serving>>

Serve(n) ==
    /\ owner = {n} /\ serving = {}
    /\ named = Name[n]
    /\ serving' = {n}
    /\ UNCHANGED <<owner, named>>

Retire(n) ==
    /\ owner = {n}
    /\ owner' = {}
    /\ serving' = {}
    /\ UNCHANGED named

Next == \E n \in Instances : Claim(n) \/ Publish(n) \/ Serve(n) \/ Retire(n)

Spec == Init /\ [][Next]_vars
=============================================================================
