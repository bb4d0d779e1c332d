--------------------------------- MODULE MCAuto ---------------------------------
(* Small instances of AutoImplementation: one workload for each question. *)
EXTENDS AutoImplementation, TLC

CONSTANTS r1, r2, k1, k2, u1

Load(ops, runs, keys, own) ==
    [ops |-> ops, runs |-> runs, keys |-> keys, own |-> own, actions |-> {},
     outcomes |-> {"verified"}, records |-> 0, crashes |-> 0, last |-> MergeMain, serial |-> FALSE]

\* Two requests at once create, advance, open and merge a run, with a crash.
Interleaved ==
    [Load({"complete", "mutate"}, {r1}, {k1}, UserSteps) EXCEPT !.records = 2, !.crashes = 1]
\* Two requests at once plan, import and run worker jobs beside ledger commands, and
\* advance the run, up to the jobs of its second stage; or one at a time, to its end.
Workers ==
    [Load({"job", "worker", "advance"}, {r1}, {k1}, {r1} \X Stages) EXCEPT !.last = FinalVerify]
WorkersInTurn == [Workers EXCEPT !.last = MergeMain, !.serial = TRUE]
\* Two keys: a stage may be given a second job.
TwoJobs == Load({"job", "worker"}, {r1}, {k1, k2}, {})
\* One request after the other: two runs of one folder, with issues; one run from
\* its start to its merge, with every request gh is not asked for.
InTurn ==
    [Load({"issues", "complete", "mutate"}, {r1, r2}, {k1}, {u1}) EXCEPT
        !.records = 1, !.serial = TRUE]
Refusals ==
    [Load({"complete", "mutate", "refusal"}, {r1}, {k1}, UserSteps) EXCEPT
        !.records = 2, !.serial = TRUE]

\* A stage that is stopped by the user.
Stopped == [Load({"job"}, {r1}, {k1}, {}) EXCEPT !.actions = {"block"}]

AllLoads == {Interleaved, Workers, WorkersInTurn, TwoJobs, InTurn, Refusals, Stopped}

\* Every wait there is, on one run.
Waits == {[Load({"worker", "job", "mutate"}, {r1}, {k1}, {}) EXCEPT !.records = 1]}
\* Two creations at once in one folder.
TwoCreations == {Load({"issues"}, {r1, r2}, {k1}, {})}

Interchangeable == Permutations(Handlers) \cup Permutations(UserSteps)
=============================================================================
