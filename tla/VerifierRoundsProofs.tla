------------------------ MODULE VerifierRoundsProofs ------------------------
(***************************************************************************)
(* Proofs about the rounds of reads of the verifier: a change is only said *)
(* to be verified when the cluster has it, whatever the cluster did while  *)
(* its objects were read one at a time.                                    *)
(*                                                                         *)
(* A round is a promise about the objects it has read so far.  The cluster *)
(* may take back what was seen, but not that it was seen; of a release,    *)
(* the marker that the round started from can only go with a change by     *)
(* somebody else.                                                          *)
(***************************************************************************)
EXTENDS VerifierRounds, TLAPS

RoundType ==
    [at : {"waiting", "status", "manifest", "reading"}, next : Nat \ {0},
     passed : BOOLEAN, terminal : BOOLEAN, committed : BOOLEAN, missing : BOOLEAN,
     manifest : {"ours", "other"}]

\* Nothing is claimed of object t, or it was seen with the whole change.
Seen(t) ==
    \/ t \in rolledOut
    \/ kinds[t] = "pod"
    \/ adapter = "helm_release" /\ (~Workload(t) \/ rivals > 0)

\* The release is the one the operation installed, unless others changed it.
Released ==
    adapter = "helm_release" /\ rivals = 0 => release.status = "deployed" /\ release.marker

PlanTyped ==
    /\ adapter \in {"kubernetes_apply", "helm_release"}
    /\ kinds \in Seq(Kinds)
    /\ rivals \in Nat
    /\ release \in [status : {"deployed", "failed", "pending"}, marker : BOOLEAN,
                    manifest : {"ours", "other"}]
    /\ command \in [at : {"waiting", "running", "done"}, todo : Seq(Nat)]
    /\ round \in RoundType

\* The marker comes last, when the command is done, and on the manifest of the
\* operation, which nobody replaces while the release is pending.
ReleaseHolds ==
    adapter = "helm_release" =>
       /\ command.at = "running" =>
             release.status = "pending" /\ release.manifest = "ours"
       /\ release.marker =>
             command.at = "done" /\ release.status = "deployed" /\ release.manifest = "ours"

\* What a round has found out so far.
RoundHolds ==
    /\ round.at \in {"status", "manifest"} => round.next = 1 /\ adapter = "helm_release"
    /\ round.at = "manifest" => Released
    /\ round.at = "reading" =>
          /\ Released
          /\ adapter = "kubernetes_apply" \/ rivals = 0 => round.manifest = "ours"
          /\ round.passed => \A t \in Targets : t < round.next => Seen(t)

VerifierInv ==
    /\ PlanTyped
    /\ ReleaseHolds
    /\ RoundHolds
    /\ verdict # "none" => round.at = "waiting"
    /\ PassedIsTrue

-----------------------------------------------------------------------------
(* The cluster *)

\* What was seen stays seen while a round goes on; the marker only goes with a
\* change by somebody else.
LEMMA ClusterKeepsRound ==
    ASSUME VerifierInv, ClusterChanges, verdict = "none", UNCHANGED <<round, verdict>>,
           UNCHANGED <<adapter, kinds>>,
           round.at # "waiting" => rolledOut \subseteq rolledOut'
    PROVE  VerifierInv'
<1>1. rivals' \in Nat /\ rivals' >= rivals
  <2>1. CASE UNCHANGED rivals
    BY <2>1 DEF VerifierInv, PlanTyped, RoundType
  <2>2. CASE RivalChanges \/ RivalReleases
    BY <2>2 DEF RivalChanges, RivalReleases, VerifierInv, PlanTyped, RoundType
  <2> QED  BY <2>1, <2>2 DEF ClusterChanges, StatusReported, CommandApplies, HelmBegins,
                             HelmEnds, CommandEnds
<1>2. PlanTyped' /\ ReleaseHolds'
  <2>1. CASE StatusReported
    BY <2>1 DEF StatusReported, VerifierInv, PlanTyped, RoundType, ReleaseHolds
  <2>2. CASE CommandApplies
    <3>1. Tail(command.todo) \in Seq(Nat)
      BY <2>2 DEF CommandApplies, VerifierInv, PlanTyped, RoundType
    <3>2. command' = [command EXCEPT !.todo = Tail(command.todo)] /\ UNCHANGED release
      BY <2>2 DEF CommandApplies
    <3>3. UNCHANGED rivals
      BY <2>2 DEF CommandApplies
    <3>4. command' \in [at : {"waiting", "running", "done"}, todo : Seq(Nat)]
      BY <3>1, <3>2 DEF VerifierInv, PlanTyped, RoundType
    <3>5. command'.at = command.at
      BY <3>2 DEF VerifierInv, PlanTyped, RoundType
    <3> QED  BY <3>2, <3>3, <3>4, <3>5 DEF VerifierInv, PlanTyped, RoundType, ReleaseHolds
  <2>3. CASE HelmBegins
    BY <2>3 DEF HelmBegins, VerifierInv, PlanTyped, RoundType, ReleaseHolds
  <2>4. CASE HelmEnds
    BY <2>4 DEF HelmEnds, VerifierInv, PlanTyped, RoundType, ReleaseHolds
  <2>5. CASE CommandEnds
    BY <2>5 DEF CommandEnds, VerifierInv, PlanTyped, RoundType, ReleaseHolds
  <2>6. CASE RivalChanges
    BY <2>6 DEF RivalChanges, VerifierInv, PlanTyped, RoundType, ReleaseHolds
  <2>7. CASE RivalReleases
    BY <2>7 DEF RivalReleases, VerifierInv, PlanTyped, RoundType, ReleaseHolds
  <2> QED  BY <2>1, <2>2, <2>3, <2>4, <2>5, <2>6, <2>7 DEF ClusterChanges
<1>3. Released => Released'
  <2>1. CASE HelmBegins
    BY <2>1, <1>2 DEF HelmBegins, Released, VerifierInv, ReleaseHolds
  <2>2. CASE HelmEnds
    BY <2>2, <1>2 DEF HelmEnds, Released, VerifierInv, ReleaseHolds
  <2>3. CASE RivalReleases
    BY <2>3 DEF RivalReleases, Released, VerifierInv, PlanTyped, RoundType
  <2>4. CASE RivalChanges
    BY <2>4 DEF RivalChanges, Released, VerifierInv, PlanTyped, RoundType
  <2>5. CASE StatusReported \/ CommandApplies \/ CommandEnds
    BY <2>5 DEF StatusReported, CommandApplies, CommandEnds, Released
  <2> QED  BY <2>1, <2>2, <2>3, <2>4, <2>5 DEF ClusterChanges
<1>4. round.at # "waiting" => \A t \in Targets : Seen(t) => Seen(t)'
  BY <1>1 DEF Seen, Workload, Targets, VerifierInv, PlanTyped, RoundType
<1>5. RoundHolds'
  BY <1>1, <1>3, <1>4 DEF VerifierInv, RoundHolds, Targets, PlanTyped, RoundType
<1>6. (verdict # "none" => round.at = "waiting")' /\ PassedIsTrue'
  BY DEF PassedIsTrue
<1> QED  BY <1>2, <1>5, <1>6 DEF VerifierInv

-----------------------------------------------------------------------------
(* The rounds *)

\* What an answer leaves of a round.
LEMMA EvaluatedTyped ==
    ASSUME NEW r \in RoundType, NEW t, NEW o
    PROVE  /\ Evaluated(r, t, o) \in RoundType
           /\ Evaluated(r, t, o).at = r.at
           /\ Evaluated(r, t, o).next = r.next + 1
           /\ Evaluated(r, t, o).manifest = r.manifest
<1>1. ASSUME NEW passed \in BOOLEAN, NEW committed \in BOOLEAN, NEW terminal \in BOOLEAN,
             NEW e, e = [r EXCEPT !.next = @ + 1, !.passed = passed, !.committed = committed,
                                  !.terminal = terminal]
      PROVE  e \in RoundType /\ e.at = r.at /\ e.next = r.next + 1 /\ e.manifest = r.manifest
  <2>1. e = [at |-> r.at, next |-> r.next + 1, passed |-> passed, terminal |-> terminal,
             committed |-> committed, missing |-> r.missing, manifest |-> r.manifest]
    BY <1>1 DEF RoundType
  <2>2. r.next + 1 \in Nat \ {0}
    BY DEF RoundType
  <2> QED  BY <2>1, <2>2 DEF RoundType
<1> QED  BY <1>1 DEF Evaluated

\* What a read without an answer leaves of a round.
LEMMA UnreadTyped ==
    ASSUME NEW r \in RoundType, NEW error
    PROVE  /\ Unread(r, error) \in RoundType
           /\ Unread(r, error).at = r.at
           /\ Unread(r, error).next = r.next + 1
           /\ Unread(r, error).manifest = r.manifest
           /\ Unread(r, error).passed = FALSE
<1>1. ASSUME NEW missing \in BOOLEAN, NEW terminal \in BOOLEAN,
             NEW e, e = [r EXCEPT !.next = @ + 1, !.passed = FALSE, !.missing = missing,
                                  !.terminal = terminal]
      PROVE  /\ e \in RoundType /\ e.at = r.at /\ e.next = r.next + 1
             /\ e.manifest = r.manifest /\ e.passed = FALSE
  <2>1. e = [at |-> r.at, next |-> r.next + 1, passed |-> FALSE, terminal |-> terminal,
             committed |-> r.committed, missing |-> missing, manifest |-> r.manifest]
    BY <1>1 DEF RoundType
  <2>2. r.next + 1 \in Nat \ {0}
    BY DEF RoundType
  <2> QED  BY <2>1, <2>2 DEF RoundType
<1> QED  BY <1>1 DEF Unread

\* An object that counts for the round has the whole change.
LEMMA EvaluatedHasChange ==
    ASSUME VerifierInv, NEW t \in Targets, round.at = "reading", objects[t].exists,
           Evaluated(round, t, objects[t]).passed
    PROVE  round.passed /\ (HasChange(t) \/ Seen(t))
<1> DEFINE o == objects[t]
<1>1. kinds[t] \in Kinds
  BY DEF VerifierInv, PlanTyped, RoundType, Targets
<1>2. /\ round.passed
      /\ adapter = "helm_release" \/ o.marker = "ours"
      /\ kinds[t] = "data" \/ o.spec = round.manifest
      /\ WorkloadHealthy(kinds[t], o)
  BY DEF Evaluated, VerifierInv, PlanTyped, RoundType
<1>3. Workload(t) /\ kinds[t] # "pod" =>
         o.ready /\ (kinds[t] # "job" => o.observed)
  BY <1>1, <1>2 DEF Workload, WorkloadHealthy, Kinds
<1>4. round.manifest = "ours" \/ (adapter = "helm_release" /\ rivals > 0)
  BY DEF VerifierInv, PlanTyped, RoundType, RoundHolds
<1> QED  BY <1>1, <1>2, <1>3, <1>4 DEF HasChange, Seen, VerifierInv, PlanTyped, RoundType

\* A step of the verifier leaves what it has seen, and the objects it has read hold.
LEMMA RoundsHold ==
    ASSUME VerifierInv, Verifies, UNCHANGED cluster, UNCHANGED <<adapter, kinds>>,
           {t \in Targets : HasChange(t)'} \subseteq rolledOut',
           round.at # "waiting" => rolledOut \subseteq rolledOut'
    PROVE  VerifierInv'
<1>1. UNCHANGED <<objects, release, command, rivals>>
  BY DEF cluster
<1>2. round.at # "waiting" => \A t \in Targets : Seen(t) => Seen(t)'
  BY <1>1 DEF Seen, Workload
<1>3. \A t \in Targets : HasChange(t) => t \in rolledOut'
  BY <1>1 DEF HasChange, Workload, Targets
<1>4. (UNCHANGED <<release, command, rivals, adapter, kinds>> =>
          ReleaseHolds' /\ (Released => Released')) /\ Targets' = Targets
  BY DEF VerifierInv, ReleaseHolds, Released, Targets
<1>5. CASE RoundStarts
  <2>1. round' = [NoRound EXCEPT !.at = IF adapter = "helm_release" THEN "status" ELSE "reading"]
    BY <1>5 DEF RoundStarts
  <2>2. round' \in RoundType
        /\ round'.next = 1 /\ round'.manifest = "ours"
        /\ round'.at = IF adapter = "helm_release" THEN "status" ELSE "reading"
    <3>1. round' = [at |-> IF adapter = "helm_release" THEN "status" ELSE "reading",
                    next |-> 1, passed |-> TRUE, terminal |-> FALSE, committed |-> FALSE,
                    missing |-> FALSE, manifest |-> "ours"]
      BY <2>1 DEF NoRound
    <3> QED  BY <3>1 DEF RoundType
  <2>3. PlanTyped'
    BY <1>1, <2>2 DEF VerifierInv, PlanTyped, RoundType
  <2>4. RoundHolds'
    BY <1>1, <2>2 DEF VerifierInv, PlanTyped, RoundType, RoundHolds, Released, Targets
  <2>5. (verdict # "none" => round.at = "waiting")' /\ PassedIsTrue'
    BY <1>5 DEF RoundStarts, PassedIsTrue
  <2> QED  BY <1>1, <1>4, <2>3, <2>4, <2>5 DEF VerifierInv
<1>6. CASE ObjectRead
  <2>1. PICK t : t = round.next /\ t \in Targets
    BY <1>6 DEF ObjectRead
  <2>2. UNCHANGED verdict /\ verdict = "none" /\ round.at = "reading"
    BY <1>6 DEF ObjectRead, VerifierInv
  <2> DEFINE Went == /\ round' \in RoundType
                     /\ round'.at = "reading"
                     /\ round'.next = t + 1
                     /\ round'.manifest = round.manifest
                     /\ round'.passed => round.passed /\ Seen(t)'
  <2>3. round \in RoundType
    BY DEF VerifierInv, PlanTyped, RoundType
  <2>4. ASSUME adapter = "helm_release", ~Workload(t)
        PROVE  Went
    <3>1. round' = [round EXCEPT !.next = @ + 1]
      BY <1>6, <2>1, <2>4 DEF ObjectRead
    <3>2. Seen(t)'
      BY <2>4 DEF Seen, Workload
    <3>3. round'.passed => round.passed /\ Seen(t)'
      BY <2>3, <3>1, <3>2 DEF RoundType
    <3> QED  BY <2>1, <2>2, <2>3, <3>1, <3>3 DEF RoundType
  <2>5. ASSUME NEW error \in Errors(objects[t].exists), round' = Unread(round, error)
        PROVE  Went
    BY <2>1, <2>2, <2>3, <2>5, UnreadTyped
  <2>6. ASSUME objects[t].exists, round' = Evaluated(round, t, objects[t])
        PROVE  Went
    <3>1. round'.passed => round.passed /\ (HasChange(t) \/ Seen(t))
      BY <2>1, <2>2, <2>6, EvaluatedHasChange
    <3>2. (HasChange(t) \/ Seen(t)) => Seen(t)'
      BY <1>2, <1>3, <2>1, <2>2 DEF Seen
    <3>3. round' \in RoundType /\ round'.at = "reading" /\ round'.next = t + 1
          /\ round'.manifest = round.manifest
      BY <2>1, <2>2, <2>3, <2>6, EvaluatedTyped
    <3> QED  BY <3>1, <3>2, <3>3
  <2>7. Went
    BY <1>6, <2>1, <2>4, <2>5, <2>6 DEF ObjectRead
  <2> HIDE DEF Went
  <2>8. PlanTyped'
    BY <1>1, <2>7 DEF VerifierInv, PlanTyped, RoundType, Went
  <2>9. RoundHolds'
    <3>1. round'.passed => \A s \in Targets : s < t + 1 => Seen(s)'
      BY <1>2, <2>1, <2>2, <2>7 DEF VerifierInv, RoundHolds, Targets, PlanTyped, RoundType, Went
    <3> QED  BY <1>1, <1>4, <2>2, <2>7, <3>1 DEF VerifierInv, RoundHolds, Went
  <2>10. PassedIsTrue'
    BY <2>2 DEF PassedIsTrue
  <2> QED  BY <1>1, <1>4, <2>2, <2>8, <2>9, <2>10 DEF VerifierInv
<1>7. ASSUME NEW r, EndRound(r), r.passed \in BOOLEAN, r.terminal \in BOOLEAN,
             r.passed => Released /\ \A t \in Targets : Seen(t),
             round.at # "waiting"
      PROVE  VerifierInv'
  <2>1. round' = NoRound
    BY <1>7 DEF EndRound
  <2>2. PlanTyped' /\ RoundHolds' /\ round'.at = "waiting"
    BY <1>1, <2>1 DEF VerifierInv, PlanTyped, RoundType, RoundHolds, NoRound
  <2>3. verdict' = "passed" => r.passed
    BY <1>7 DEF EndRound, RoundResult
  <2>4. verdict' = "passed" => Released' /\ \A t \in Targets : Seen(t)'
    BY <1>1, <1>2, <1>4, <1>7, <2>3
  <2>5. PassedIsTrue'
    BY <1>4, <2>4 DEF PassedIsTrue, Released, Seen
  <2> QED  BY <1>1, <1>4, <2>2, <2>5 DEF VerifierInv
<1>8. CASE RoundEnds
  <2>1. EndRound(round) /\ round.at = "reading" /\ round.next \notin Targets
    BY <1>8 DEF RoundEnds
  <2>2. round.passed => \A t \in Targets : Seen(t)
    BY <2>1 DEF VerifierInv, RoundHolds, PlanTyped, RoundType, Targets
  <2> QED  BY <1>7, <2>1, <2>2 DEF VerifierInv, RoundHolds, PlanTyped, RoundType
<1>9. ASSUME NEW error, EndRound(Unread(round, error)), round.at # "waiting"
      PROVE  VerifierInv'
  <2>1. Unread(round, error).passed = FALSE /\ Unread(round, error).terminal \in BOOLEAN
    BY DEF Unread, VerifierInv, PlanTyped, RoundType
  <2> QED  BY <1>7, <1>9, <2>1
<1>10. CASE ReleaseRead
  <2>1. round.at = "status"
    BY <1>10 DEF ReleaseRead
  <2>2. CASE EndRound([round EXCEPT !.passed = FALSE, !.terminal = release.status = "failed"])
    <3> DEFINE r == [round EXCEPT !.passed = FALSE, !.terminal = release.status = "failed"]
    <3>1. r.passed = FALSE /\ r.terminal \in BOOLEAN
      BY DEF VerifierInv, PlanTyped, RoundType
    <3> HIDE DEF r
    <3> QED  BY <1>7, <2>1, <2>2, <3>1 DEF r
  <2>3. CASE release.status = "deployed" /\ release.marker
             /\ round' = [round EXCEPT !.at = "manifest"] /\ UNCHANGED verdict
    <3>1. PlanTyped' /\ round'.at = "manifest" /\ round'.next = round.next
      BY <1>1, <2>3 DEF VerifierInv, PlanTyped, RoundType
    <3>2. RoundHolds'
      BY <1>1, <1>4, <2>1, <2>3, <3>1 DEF VerifierInv, RoundHolds, Released
    <3>3. PassedIsTrue' /\ verdict' = "none"
      BY <2>1, <2>3 DEF VerifierInv, PassedIsTrue
    <3> QED  BY <1>1, <1>4, <3>1, <3>2, <3>3 DEF VerifierInv
  <2> QED  BY <1>9, <1>10, <2>1, <2>2, <2>3 DEF ReleaseRead
<1>11. CASE ManifestRead
  <2>1. round.at = "manifest"
    BY <1>11 DEF ManifestRead
  <2>2. CASE round' = [round EXCEPT !.at = "reading", !.manifest = release.manifest]
             /\ UNCHANGED verdict
    <3>1. PlanTyped' /\ round'.at = "reading" /\ round'.next = round.next
          /\ round'.manifest = release.manifest
      BY <1>1, <2>2 DEF VerifierInv, PlanTyped, RoundType
    <3>2. adapter = "helm_release" /\ Released /\ round.next = 1
      BY <2>1 DEF VerifierInv, RoundHolds
    <3>3. rivals = 0 => release.manifest = "ours"
      BY <3>2 DEF VerifierInv, Released, ReleaseHolds
    <3>4. RoundHolds'
      <4>1. \A t \in Targets : ~(t < 1)
        BY DEF VerifierInv, PlanTyped, RoundType, Targets
      <4> QED  BY <1>1, <1>4, <3>1, <3>2, <3>3, <4>1 DEF RoundHolds
    <3>5. PassedIsTrue' /\ verdict' = "none"
      BY <2>1, <2>2 DEF VerifierInv, PassedIsTrue
    <3> QED  BY <1>1, <1>4, <3>1, <3>4, <3>5 DEF VerifierInv
  <2> QED  BY <1>9, <1>11, <2>1, <2>2 DEF ManifestRead
<1>12. CASE AdapterRaises
  <2> DEFINE r == [NoRound EXCEPT !.passed = FALSE]
  <2>1. r.passed = FALSE /\ r.terminal \in BOOLEAN
    BY DEF NoRound
  <2>2. EndRound(r) /\ round.at # "waiting"
    BY <1>12 DEF AdapterRaises
  <2> HIDE DEF r
  <2> QED  BY <1>7, <2>1, <2>2
<1> QED  BY <1>5, <1>6, <1>8, <1>10, <1>11, <1>12 DEF Verifies

-----------------------------------------------------------------------------
(* The theorems *)

\* No round has begun and no change has been seen.
LEMMA VerifierStarts == VerifierInit => VerifierInv
<1> SUFFICES ASSUME VerifierInit
             PROVE  VerifierInv
  OBVIOUS
<1>1. kinds \in Seq(Kinds)
  BY VerifierConstants DEF VerifierInit
<1>2. [t \in Targets |-> t] \in Seq(Nat)
  BY <1>1 DEF Targets
<1>3. command \in [at : {"waiting", "running", "done"}, todo : Seq(Nat)]
      /\ command.at = IF adapter = "helm_release" THEN "waiting" ELSE "running"
  BY <1>2 DEF VerifierInit
<1>4. round \in RoundType
      /\ round.at = "waiting"
  BY DEF VerifierInit, NoRound, RoundType
<1>5. release \in [status : {"deployed", "failed", "pending"}, marker : BOOLEAN,
                   manifest : {"ours", "other"}]
      /\ release.marker = FALSE
  <2>1. release \in [status : {"deployed", "failed"}, marker : {FALSE}, manifest : {"other"}]
    BY DEF VerifierInit
  <2> QED  BY <2>1
<1>6. PlanTyped
  BY <1>1, <1>3, <1>4, <1>5 DEF VerifierInit, PlanTyped, RoundType
<1>7. ReleaseHolds /\ RoundHolds /\ PassedIsTrue /\ verdict = "none"
  BY <1>3, <1>4, <1>5 DEF VerifierInit, ReleaseHolds, RoundHolds, PassedIsTrue
<1> QED  BY <1>6, <1>7 DEF VerifierInv

\* What a round relies on holds between any two reads (_verify_kubernetes,
\* _verify_helm).
THEOREM VerifierInvariant == VerifierSpec => []VerifierInv
<1>1. VerifierInv /\ [VerifierNext]_verifierVars => VerifierInv'
  <2> SUFFICES ASSUME VerifierInv, [VerifierNext]_verifierVars
               PROVE  VerifierInv'
    OBVIOUS
  <2>1. CASE UNCHANGED verifierVars
    BY <2>1 DEF verifierVars, cluster, VerifierInv, PlanTyped, RoundType, ReleaseHolds, RoundHolds,
                PassedIsTrue, Released, Seen, Targets, Workload
  <2>2. CASE VerifierNext
    <3>1. /\ {t \in Targets : HasChange(t)'} \subseteq rolledOut'
          /\ round.at # "waiting" => rolledOut \subseteq rolledOut'
          /\ UNCHANGED <<adapter, kinds>>
      BY <2>2 DEF VerifierNext
    <3> QED  BY <2>2, <3>1, ClusterKeepsRound, RoundsHold DEF VerifierNext
  <2> QED  BY <2>1, <2>2
<1> QED  BY <1>1, VerifierStarts, PTL DEF VerifierSpec

\* A change is only said to be verified when each object it names was seen with the
\* whole change rolled out in the round that decided it (_verify_kubernetes,
\* _verify_helm, _workload_health), for every list of objects and however often
\* others change them.
THEOREM VerifiedChangesWereSeen == VerifierSpec => []PassedIsTrue
BY VerifierInvariant, PTL DEF VerifierInv
=============================================================================
