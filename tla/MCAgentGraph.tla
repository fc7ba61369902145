---------------------------- MODULE MCAgentGraph ----------------------------
(* One conversation for TLC: runs are numbered in the order they start. *)
EXTENDS AgentGraph

CONSTANTS apply, upgrade, get, load

MCRuns == 1..3

Undisturbed(calls, runs) ==
    [calls |-> calls, batch |-> 2, runs |-> runs, active |-> 1, steps |-> 6,
     stops |-> 0, faults |-> 0, lateSaves |-> 0]

\* Three turns with batches of two mutations.
TwoMutations == Undisturbed({apply, upgrade}, 3)

\* Two turns with batches of a mutation, a read and load_toolset.
MixedBatch == Undisturbed({apply, get, load}, 2)

\* Two runs at a time on one mutation, with two kinds of disturbance.
Races(nSteps, nStops, nFaults, nLate) ==
    [calls |-> {apply}, batch |-> 1, runs |-> 2, active |-> 2, steps |-> nSteps,
     stops |-> nStops, faults |-> nFaults, lateSaves |-> nLate]

MCScenarios ==
    {TwoMutations, MixedBatch, Races(5, 1, 1, 0), Races(4, 1, 0, 1), Races(5, 0, 1, 1)}
=============================================================================
