---------------------------- MODULE MCEventStream ----------------------------
(* One run, its publishers and its clients, for TLC. *)
EXTENDS EventStream

CONSTANTS workflow, title, r1

Plain == [remember |-> FALSE, terminal |-> FALSE, separator |-> FALSE]
Terminal == [Plain EXCEPT !.terminal = TRUE]
Separated == [Plain EXCEPT !.separator = TRUE]
Mapping == [Plain EXCEPT !.remember = TRUE]

\* The workflow ends, and the recovery worker appends to its stream later; the title,
\* with a line separator in it, is published at any time.
WorkflowTitleRecovery ==
    [p \in Publishers |->
        IF p = workflow THEN <<Plain, Terminal, Mapping, Plain, Terminal>> ELSE <<Separated>>]

\* The title of the conversation is generated while the workflow runs.
WorkflowAndTitle ==
    [p \in Publishers |-> IF p = workflow THEN <<Plain, Plain, Terminal>> ELSE <<Plain>>]

\* The second event carries a line separator.
WorkflowWithSeparator == [p \in Publishers |-> <<Plain, Separated, Terminal>>]
=============================================================================
