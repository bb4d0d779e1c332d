---------------------------- MODULE AuthorizedAction ----------------------------
(***************************************************************************)
(* What a record of execution authority promises when requests come one at *)
(* a time and the process does not stop: it is used once, and its result   *)
(* says what was done.  A blocked action was never begun, a completed one  *)
(* was done in full, a failed one in full or not at all, and once there is *)
(* a result nothing is done under the record any more.                     *)
(***************************************************************************)
CONSTANTS Records, Wholes   \* sets of parts that make a whole action

VARIABLES
    result,     \* the result of each record, "absent" before there is a record
    done        \* the parts of the action that were begun under each record

vars == <<result, done>>

Init ==
    /\ result = [r \in Records |-> "absent"]
    /\ done = [r \in Records |-> {}]

Issue(r) ==
    /\ result[r] = "absent"
    /\ \E o \in {"not_run", "blocked"} : result' = [result EXCEPT ![r] = o]
    /\ UNCHANGED done

Act(r) ==
    /\ result[r] = "not_run"
    /\ \E w \in Wholes : \E x \in w \ done[r] :
            /\ done[r] \subseteq w
            /\ done' = [done EXCEPT ![r] = @ \cup {x}]
    /\ UNCHANGED result

Conclude(r, o) ==
    /\ result[r] = "not_run"
    /\ o = "blocked" => done[r] = {}
    /\ o = "completed" => done[r] \in Wholes
    /\ o = "failed" => done[r] \in Wholes \cup {{}}
    /\ result' = [result EXCEPT ![r] = o]
    /\ UNCHANGED done

Next ==
    \E r \in Records :
        \/ Issue(r)
        \/ Act(r)
        \/ \E o \in {"blocked", "completed", "failed", "partial"} : Conclude(r, o)

Spec == Init /\ [][Next]_vars
=============================================================================
