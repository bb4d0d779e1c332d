------------------------------- MODULE MCSession -------------------------------
(* A small instance of ProductSession for TLC. *)
EXTENDS ProductSession, TLC

CONSTANTS q1, q2, q3, once, twice, good, poor, e1, e2

\* Most sessions have a critic of strong intensity.
Load(commands, seeds, results, versions, executors) ==
    [from |-> Drafted("business", 1), commands |-> commands, seeds |-> seeds, answers |-> {once, twice},
     results |-> results, unwritable |-> {}, versions |-> versions, executors |-> executors]

\* With answers of this text only.
Answered(w, a) == [w EXCEPT !.answers = {a}]

\* Without the questions of a critic.
Personal(w) == [w EXCEPT !.from = Drafted("personal", None)]

Histories ==
    { \* A session from its start, with the mode and the intensity changed on the way.
      [Load({"start", "intake", "draft", "mode", "intensity", "analyze", "activate"}, {q1, q2}, {}, {}, {})
          EXCEPT !.from = EmptySession],
      \* The intensity changed between answers.
      Load({"intensity", "analyze", "activate", "answer", "dismiss"}, {q1, q2}, {}, {}, {}),
      Load({"mode", "intensity", "analyze", "activate", "defer"}, {q1, q2}, {}, {}, {}),
      Load({"intensity", "analyze", "activate", "answer", "import"}, {q2}, {good}, {1}, {e1}),
      \* Questions put aside, answered with several branches, and analyzed again.
      Load({"analyze", "reanalyze", "activate", "defer", "dismiss", "answer"}, {q1, q2, q3}, {}, {}, {}),
      \* Answers, with evidence committed beside them.
      Load({"analyze", "activate", "answer", "import"}, {q1, q2}, {good}, {1}, {e1}),
      Answered(Personal(Load({"analyze", "activate", "answer", "import", "dismiss"}, {q1}, {good}, {1}, {e1})), once),
      \* The same beside a question that is researched only.
      Answered(Personal(Load({"analyze", "activate", "answer", "import"}, {q1, q3}, {good}, {1}, {e1, e2})), twice),
      \* Evidence of further versions.
      Answered(Personal(Load({"analyze", "activate", "answer", "import", "request"}, {q1}, {good}, {1, 2}, {e1})), once),
      Load({"plan", "import", "request"}, {}, {good}, {1, 2, 3}, {e1}),
      \* Two executors, on good and on poor results, with a memory that cannot be written.
      Load({"plan", "import", "request"}, {}, {good}, {1, 2}, {e1, e2}),
      [Load({"plan", "import"}, {}, {good, poor}, {1}, {e1, e2}) EXCEPT !.unwritable = {good}],
      \* Cards reviewed, researched again and handed off.
      Load({"plan", "import", "resolve", "handoff"}, {}, {good}, {1}, {e1}),
      Load({"plan", "import", "request", "resolve"}, {}, {good}, {1, 2}, {e1}),
      \* The same with a question that is researched only, dropped and asked anew.
      Load({"intensity", "analyze", "reanalyze", "resolve", "handoff"}, {q3}, {}, {}, {}),
      Load({"intensity", "analyze", "reanalyze", "import"}, {q3}, {good}, {1}, {e1}),
      \* The runtime asked for a turn, by one executor and by two.
      Load({"ask", "convert"}, {}, {}, {}, {e1, e2}),
      Load({"ask", "prompt", "convert"}, {}, {}, {}, {e1}),
      Personal(Load({"ask", "analyze", "activate", "dismiss"}, {q1}, {}, {}, {e1})),
      \* Decisions about the specification.
      Personal(Load({"analyze", "activate", "dismiss", "preview", "decide", "version"}, {q1}, {}, {}, {})) }

Levels == [i \in {q1, q2, q3} |-> IF i = q1 THEN 0 ELSE 1]

\* One answer is a single branch, the other has two.
Branching == [a \in {once, twice} |-> IF a = once THEN 1 ELSE 2]

Limits == [critic \in BOOLEAN |-> IF critic THEN 1 ELSE 2]

Interchangeable == Permutations(Materials) \cup Permutations(Executors)
=============================================================================
