------------------------------ MODULE DeliveryRun ------------------------------
(***************************************************************************)
(* What the auto implementation runs of a session promise: a run, once     *)
(* created, is never lost; its stages complete one after the other and     *)
(* stay completed; a pull request is opened after the first stage, once;   *)
(* it is merged when all stages but the last are completed, once; and the  *)
(* last stage completes only after the merge.                              *)
(***************************************************************************)
EXTENDS Naturals

CONSTANTS Runs, Last

VARIABLES
    known,      \* runs created
    reached,    \* completed stages of each run
    opened,     \* runs whose pull request was opened
    merged      \* runs whose pull request was merged

vars == <<known, reached, opened, merged>>

Init ==
    /\ known = {} /\ opened = {} /\ merged = {}
    /\ reached = [r \in Runs |-> 0]

Create(r) ==
    /\ r \notin known
    /\ known' = known \cup {r}
    /\ UNCHANGED <<reached, opened, merged>>

Open(r) ==
    /\ r \in known \ opened
    /\ reached[r] >= 1
    /\ opened' = opened \cup {r}
    /\ UNCHANGED <<known, reached, merged>>

Merge(r) ==
    /\ r \in known \ merged
    /\ reached[r] = Last - 1
    /\ merged' = merged \cup {r}
    /\ UNCHANGED <<known, reached, opened>>

Complete(r) ==
    /\ r \in known
    /\ reached[r] < Last
    /\ reached[r] = Last - 1 => r \in merged
    /\ reached' = [reached EXCEPT ![r] = @ + 1]
    /\ UNCHANGED <<known, opened, merged>>

Next == \E r \in Runs : Create(r) \/ Open(r) \/ Merge(r) \/ Complete(r)

Spec == Init /\ [][Next]_vars
=============================================================================
