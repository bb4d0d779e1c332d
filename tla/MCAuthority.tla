------------------------------ MODULE MCAuthority ------------------------------
(* Small instances of ExecutionAuthority: one workload for each question. *)
EXTENDS ExecutionAuthority, TLC

CONSTANTS h1, h2, a1, a2

Good(class, h, page) ==
    [class |-> class, hash |-> h, page |-> page,
     reviewed |-> TRUE, approved |-> TRUE, rollback |-> TRUE, sandboxed |-> TRUE]

\* A record that is as it must be, or lacks one thing.
Flawed(p) ==
    {[p EXCEPT !.reviewed = FALSE], [p EXCEPT !.approved = FALSE],
     [p EXCEPT !.rollback = FALSE], [p EXCEPT !.sandboxed = FALSE]}

Ask(class, h, body, page) ==
    [class |-> class, hash |-> h, body |-> body, page |-> page, expired |-> FALSE]

\* A request that is as it must be, and those that differ in one thing.
Variants(class, page) ==
    {Ask(class, h, b, page) : h \in Hashes, b \in Hashes}
        \cup {[Ask(class, h1, h1, page) EXCEPT !.expired = TRUE]}

Session(records, payloads, asks) ==
    [records |-> records, payloads |-> payloads, asks |-> asks, grants |-> {}, serial |-> FALSE, crashes |-> FALSE]

\* Each way to send the requests: one at a time or not, with a crash or not.
Ways(session) == {[session EXCEPT !.serial = s, !.crashes = c] : s, c \in BOOLEAN}

\* Two diffs of the same files.
Diffs ==
    Session({a1, a2}, {Good("file_diff", h, None) : h \in Hashes},
            {Ask("file_diff", h, h, None) : h \in Hashes} \cup {Ask("file_diff", h1, h2, None)})

\* A record of any class, or one that lacks something, asked for as any class.
Mixed ==
    Session({a1}, {Good(c, h1, None) : c \in Classes}
                    \cup Flawed(Good("file_diff", h1, None)) \cup Flawed(Good("shell_command", h1, None))
                    \cup {[Good("external_mutation_preview_only", h1, None) EXCEPT !.rollback = FALSE]},
            UNION {Variants(c, None) : c \in Executable})

\* Permissions that come and go while pages are used.
Grant(allows, perAction) ==
    [allows |-> allows, perAction |-> perAction, finalSubmit |-> FALSE, sound |-> TRUE]
Grants ==
    {Grant({"preview", "fill_draft"}, TRUE), Grant({"preview", "fill_draft"}, FALSE),
     [Grant({"preview"}, TRUE) EXCEPT !.sound = FALSE], [Grant({"preview"}, TRUE) EXCEPT !.finalSubmit = TRUE]}
Used == {None, <<1, "preview">>, <<2, "fill_draft">>}
Pages ==
    [Session({a1}, {Good("browser_action", h1, s) : s \in Used},
             {Ask("browser_action", h1, h1, s) : s \in Used} \cup {Ask("browser_action", h1, h2, <<1, "preview">>)})
     EXCEPT !.grants = Grants]

Sessions == Ways(Diffs) \cup Ways(Mixed) \cup {[Pages EXCEPT !.serial = s] : s \in BOOLEAN}

Interchangeable == Permutations(Handlers)
=============================================================================
