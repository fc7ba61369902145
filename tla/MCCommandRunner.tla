--------------------------- MODULE MCCommandRunner ---------------------------
(* A mutation and a read of one run, and a read of another, for TLC. *)
EXTENDS CommandRunner

CONSTANTS apply, get, stray, r1

\* The stray call comes without a run id.
OneRun == [c \in Calls |-> IF c = stray THEN NoRun ELSE r1]
=============================================================================
