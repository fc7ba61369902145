-------------------------- MODULE MCMutationControl --------------------------
(* Runs, worker, Stop and crashes around the journal, for TLC. *)
EXTENDS MutationControl, TLC

CONSTANTS o1, o2, k1, k2, r1, r2, v1, v2

\* One approved call reaches every run.
OneRequest == {[op |-> o1, key |-> k1]}

\* One operation id with two sets of arguments.
SameOperation == {[op |-> o1, key |-> k1], [op |-> o1, key |-> k2]}

RunSymmetry == Permutations({r1, r2}) \cup Permutations({v1, v2})

KeyIsIntent == [k \in Keys |-> k]
=============================================================================
