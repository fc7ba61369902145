-------------------------- MODULE MutationLifecycle --------------------------
(***************************************************************************)
(* What mutation control promises an operator about one approved change,   *)
(* without runs, leases, retries, Stop or crashes.  A change is admitted,  *)
(* then either withdrawn for good or launched once; after its launch it    *)
(* may land in the cluster at most once, its outcome is settled as         *)
(* something to verify, and verification decides it once and for all,      *)
(* positively only if it landed.                                           *)
(***************************************************************************)
CONSTANT Ops

VARIABLES
    phase,      \* phase[o]: how far the change has come
    landed      \* the changes that are in the cluster

Decided == {"passed", "failed", "needs_review"}

LifecycleInit ==
    /\ phase = [o \in Ops |-> "none"]
    /\ landed = {}

Move(o, from, to) ==
    /\ phase[o] = from
    /\ phase' = [phase EXCEPT ![o] = to]
    /\ UNCHANGED landed

Admit(o) == Move(o, "none", "admitted")

Launch(o) == Move(o, "admitted", "launched")

\* Recovery and Stop move several changes in one step.
Settle(S) ==
    /\ \A o \in S : phase[o] = "launched"
    /\ phase' = [o \in Ops |-> IF o \in S THEN "settled" ELSE phase[o]]
    /\ UNCHANGED landed

Withdraw(S) ==
    /\ \A o \in S : phase[o] = "admitted"
    /\ phase' = [o \in Ops |-> IF o \in S THEN "withdrawn" ELSE phase[o]]
    /\ UNCHANGED landed

Decide(o, verdict) ==
    /\ Move(o, "settled", verdict)
    /\ verdict = "passed" => o \in landed

\* A command may outlive the run that launched it, even a first verdict.
Land(o) ==
    /\ phase[o] \in {"launched", "settled"} \cup Decided
    /\ o \notin landed
    /\ landed' = landed \cup {o}
    /\ UNCHANGED phase

LifecycleNext ==
    \/ \E o \in Ops : Admit(o) \/ Launch(o) \/ Land(o)
    \/ \E o \in Ops, d \in Decided : Decide(o, d)
    \/ \E S \in SUBSET Ops : Settle(S) \/ Withdraw(S)

LifecycleSpec == LifecycleInit /\ [][LifecycleNext]_<<phase, landed>>
=============================================================================
