------------------------------ MODULE RunLifecycle ------------------------------
(***************************************************************************)
(* What a research run promises to whoever started it, without allowlists, *)
(* handlers, versions or effect tasks.  A run waits until the provider has *)
(* it; once it is with the provider it is never taken back to waiting, it  *)
(* can only be answered, fail or be asked to stop; an answer is judged     *)
(* only in review, at most once; a run asked to stop is never answered,    *)
(* and what is done stays done.                                            *)
(***************************************************************************)
CONSTANT RunIds

VARIABLES
    life,    \* where each run is
    judged   \* runs whose answer has been judged

Lives == {"absent", "waiting", "active", "review", "stopping", "done"}

Goes(r, from, to) == life[r] = from /\ life' = [life EXCEPT ![r] = to]

Open(r)  == Goes(r, "absent", "waiting") /\ UNCHANGED judged
Begin(r) == Goes(r, "waiting", "active") /\ UNCHANGED judged
Drop(r)  == Goes(r, "waiting", "done") /\ UNCHANGED judged
Stop(r)  == Goes(r, "active", "stopping") /\ UNCHANGED judged
Fail(r)  == Goes(r, "active", "done") /\ UNCHANGED judged
Answer(r) == Goes(r, "active", "review") /\ UNCHANGED judged

\* The answer is judged: the review may end with a verdict or stay open.
Judge(r) ==
    /\ r \notin judged
    /\ life[r] = "review"
    /\ \E to \in {"review", "done"} : life' = [life EXCEPT ![r] = to]
    /\ judged' = judged \cup {r}

\* A user's own result names the run and ends its review.
JudgeByHand(r) == Goes(r, "review", "done") /\ UNCHANGED judged

Init == life = [r \in RunIds |-> "absent"] /\ judged = {}

Next == \E r \in RunIds :
    \/ Open(r) \/ Begin(r) \/ Drop(r) \/ Stop(r) \/ Fail(r)
    \/ Answer(r) \/ Judge(r) \/ JudgeByHand(r)

Spec == Init /\ [][Next]_<<life, judged>>
=============================================================================
