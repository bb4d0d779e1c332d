----------------------------- MODULE MCResearchRuns -----------------------------
(* Small instances of ResearchRuns for TLC. *)
EXTENDS ResearchRuns, TLC

\* Runs, handlers and contents are interchangeable.
Symmetry == Permutations(RunIds) \cup Permutations(Handlers) \cup Permutations(Contents)
=============================================================================
