---------------------------- MODULE VerifierRounds ----------------------------
(***************************************************************************)
(* How readings of the cluster become a verdict (MutationVerifier.verify,  *)
(* _verify_kubernetes, _verify_helm): rounds of reads, one object at a     *)
(* time, of a cluster that goes on changing.  The command may still be     *)
(* landing, object by object; controllers report a rollout late; others    *)
(* change the same objects.                                                *)
(*                                                                         *)
(* The claim of the row and the record of the verdict are in module        *)
(* MutationControl, where a poll may give any verdict and may pass only    *)
(* when the change is in the cluster.                                      *)
(***************************************************************************)
EXTENDS Naturals, Sequences

CONSTANTS
    KindChoices,    \* the kinds of the objects a mutation names, in order
    MaxRivals       \* bound on the changes others make

Kinds == {"deployment", "set", "pod", "job", "other", "data"}

ASSUME VerifierConstants == KindChoices \subseteq Seq(Kinds) /\ MaxRivals \in Nat

VARIABLES
    adapter,        \* of the verification plan
    kinds,          \* kinds[t]; "set": StatefulSet or DaemonSet, "data": without a spec
    objects,        \* objects[t]: what reading object t would return
    release,        \* the last revision of the Helm release
    command,        \* the command and the objects it has yet to apply
    round,          \* the round of reads in progress
    verdict,        \* the status verify records, or "none"
    rivals,         \* changes others made
    rolledOut       \* objects seen with the whole change, rolled out, in this round

cluster == <<objects, release, command, rivals>>
verifierVars == <<adapter, kinds, cluster, round, verdict, rolledOut>>

Targets == DOMAIN kinds
Workload(t) == kinds[t] \notin {"other", "data"}

-----------------------------------------------------------------------------
(* Objects.  marker: the operation-id annotation; observed: the status is   *)
(* of this generation; ready and broken: what the status says.              *)

Object(marker, spec, observed, ready, broken) ==
    [exists |-> TRUE, marker |-> marker, spec |-> spec,
     observed |-> observed, ready |-> ready, broken |-> broken]

Absent == [Object("none", "other", FALSE, FALSE, FALSE) EXCEPT !.exists = FALSE]

\* A status outlives the change of the spec it was about.
Applied(o, marker, spec) ==
    IF o.exists
      THEN [o EXCEPT !.marker = marker, !.spec = spec, !.observed = @ /\ spec = o.spec]
      ELSE Object(marker, spec, FALSE, FALSE, FALSE)

\* The template of a job cannot be changed.
MayApply(t, spec) == kinds[t] = "job" /\ objects[t].exists => objects[t].spec = spec

Statuses(t) ==
    {<<TRUE, FALSE>>, <<FALSE, FALSE>>}
      \cup (IF kinds[t] = "set" \/ ~Workload(t) THEN {} ELSE {<<FALSE, TRUE>>})

\* The controller sees the new generation, or the rollout goes on.
StatusReported ==
    /\ \E t \in Targets : \E s \in Statuses(t) :
          /\ objects[t].exists
          /\ Workload(t)
          /\ kinds[t] = "job" => ~objects[t].ready /\ ~objects[t].broken
          /\ kinds[t] = "deployment" /\ ~objects[t].observed => s # <<FALSE, TRUE>>
          /\ objects' = [objects EXCEPT ![t].observed = TRUE, ![t].ready = s[1],
                                        ![t].broken = s[2]]
    /\ UNCHANGED <<release, command, rivals>>

\* kubectl apply goes through the objects, each of which may fail on its own; Helm
\* gives up at the first failure (HelmEnds).
CommandApplies ==
    /\ command.at = "running"
    /\ command.todo # <<>>
    /\ LET t == Head(command.todo)
           marker == IF adapter = "kubernetes_apply" THEN "ours" ELSE objects[t].marker
       IN  \/ /\ MayApply(t, "ours")
              /\ objects' = [objects EXCEPT ![t] = Applied(@, marker, "ours")]
           \/ adapter = "kubernetes_apply" /\ UNCHANGED objects
    /\ command' = [command EXCEPT !.todo = Tail(@)]
    /\ UNCHANGED <<release, rivals>>

\* Helm records the revision first and its description, with the marker, last.
HelmBegins ==
    /\ command.at = "waiting"
    /\ release.status # "pending"
    /\ release' = [status |-> "pending", marker |-> FALSE, manifest |-> "ours"]
    /\ command' = [command EXCEPT !.at = "running"]
    /\ UNCHANGED <<objects, rivals>>

HelmEnds ==
    /\ adapter = "helm_release"
    /\ command.at = "running"
    /\ \/ /\ command.todo = <<>>
          /\ release' = [release EXCEPT !.status = "deployed", !.marker = TRUE]
       \/ release' = [release EXCEPT !.status = "failed"]
    /\ command' = [command EXCEPT !.at = "done"]
    /\ UNCHANGED <<objects, rivals>>

\* The command is killed, or its process ends.
CommandEnds ==
    /\ command.at # "done"
    /\ command' = [command EXCEPT !.at = "done"]
    /\ UNCHANGED <<objects, release, rivals>>

\* Another operation, or an edit that keeps the annotations, or a deletion.
RivalChanges ==
    /\ rivals < MaxRivals
    /\ rivals' = rivals + 1
    /\ \E t \in Targets :
          \/ \E marker \in {objects[t].marker, "other"} :
                /\ MayApply(t, "other")
                /\ objects' = [objects EXCEPT ![t] = Applied(@, marker, "other")]
          \/ objects[t].exists /\ objects' = [objects EXCEPT ![t] = Absent]
    /\ UNCHANGED <<release, command>>

RivalReleases ==
    /\ adapter = "helm_release"
    /\ rivals < MaxRivals
    /\ release.status # "pending"
    /\ rivals' = rivals + 1
    /\ release' = [status |-> "deployed", marker |-> FALSE, manifest |-> "other"]
    /\ UNCHANGED <<objects, command>>

ClusterChanges ==
    StatusReported \/ CommandApplies \/ HelmBegins \/ HelmEnds \/ CommandEnds
        \/ RivalChanges \/ RivalReleases

-----------------------------------------------------------------------------
(* _workload_health *)

\* Mutant: the status is believed whatever generation it is of.
ReportedHealthy(kind, o) ==
    CASE kind \in {"deployment", "set", "pod", "job"} -> o.ready
      [] OTHER -> TRUE

WorkloadHealthy(kind, o) ==
    CASE kind \in {"deployment", "set"} -> o.observed /\ o.ready
      [] kind \in {"pod", "job"} -> o.ready
      [] OTHER -> TRUE

\* The progress deadline of a deployment is looked at before its generation.
WorkloadTerminal(kind, o) == kind \in {"deployment", "pod", "job"} /\ o.broken

-----------------------------------------------------------------------------
(* Rounds *)

NoRound ==
    [at |-> "waiting", next |-> 1, passed |-> TRUE, terminal |-> FALSE,
     committed |-> FALSE, missing |-> FALSE, manifest |-> "ours"]

\* What the round has found out, as the verdict or another round.
RoundResult(r) ==
    LET partial == r.committed /\ r.missing
    IN  CASE r.passed -> verdict' = "passed"
          [] ~r.passed /\ r.terminal -> verdict' = "failed"
          [] OTHER -> verdict' \in {"none", IF partial THEN "failed" ELSE "inconclusive"}

EndRound(r) == RoundResult(r) /\ round' = NoRound

\* authorization, invalid_input, executable_not_found
Unread(r, error) ==
    [r EXCEPT !.next = @ + 1,
              !.passed = FALSE,
              !.missing = @ \/ error = "not_found",
              !.terminal = @ \/ error = "terminal"]

\* Any read may fail; a response that is not JSON is a transient error too.
Errors(exists) == {"terminal", "transient"} \cup (IF exists THEN {} ELSE {"not_found"})

RoundStarts ==
    /\ verdict = "none"
    /\ round.at = "waiting"
    /\ round' = [NoRound EXCEPT !.at = IF adapter = "helm_release" THEN "status" ELSE "reading"]
    /\ UNCHANGED verdict

\* The annotations count for kubectl apply; Helm objects do not have them and are
\* compared with the manifest of the release.  Only the spec is compared: an object
\* without one, as a ConfigMap, is known by its annotations.
Evaluated(r, t, o) ==
    LET marked == adapter = "helm_release" \/ o.marker = "ours"
        conflicting == adapter = "kubernetes_apply" /\ o.marker = "other"
        desired == kinds[t] = "data" \/ o.spec = r.manifest
    IN  [r EXCEPT !.next = @ + 1,
                  !.passed = @ /\ marked /\ desired /\ WorkloadHealthy(kinds[t], o),
                  !.committed = @ \/ (marked /\ desired /\ adapter = "kubernetes_apply"),
                  !.terminal = @ \/ conflicting \/ WorkloadTerminal(kinds[t], o)]

ObjectRead ==
    /\ round.at = "reading"
    /\ round.next \in Targets
    /\ LET t == round.next
           o == objects[t]
       IN  IF adapter = "helm_release" /\ ~Workload(t)
             THEN round' = [round EXCEPT !.next = @ + 1]
             ELSE \/ \E error \in Errors(o.exists) : round' = Unread(round, error)
                  \/ o.exists /\ round' = Evaluated(round, t, o)
    /\ UNCHANGED verdict

RoundEnds ==
    /\ round.at = "reading"
    /\ round.next \notin Targets
    /\ EndRound(round)

\* helm_status: only a deployed release with the marker of the operation is
\* looked at further.
ReleaseRead ==
    /\ round.at = "status"
    /\ \/ \E error \in Errors(TRUE) : EndRound(Unread(round, error))
       \/ IF release.status = "deployed" /\ release.marker
            THEN round' = [round EXCEPT !.at = "manifest"] /\ UNCHANGED verdict
            ELSE EndRound([round EXCEPT !.passed = FALSE,
                                        !.terminal = release.status = "failed"])

ManifestRead ==
    /\ round.at = "manifest"
    /\ \/ \E error \in Errors(TRUE) : EndRound(Unread(round, error))
       \/ /\ round' = [round EXCEPT !.at = "reading", !.manifest = release.manifest]
          /\ UNCHANGED verdict

\* Any other exception of the adapter: what the round found is dropped.
AdapterRaises ==
    /\ round.at # "waiting"
    /\ EndRound([NoRound EXCEPT !.passed = FALSE])

Verifies ==
    RoundStarts \/ ObjectRead \/ RoundEnds \/ ReleaseRead \/ ManifestRead \/ AdapterRaises

-----------------------------------------------------------------------------

\* The whole change is in object t and is what runs there.
HasChange(t) ==
    /\ objects[t].exists
    /\ kinds[t] = "data" \/ objects[t].spec = "ours"
    /\ adapter = "kubernetes_apply" => objects[t].marker = "ours"
    /\ Workload(t) => objects[t].ready
    /\ Workload(t) /\ kinds[t] # "job" => objects[t].observed

\* An object before the command: absent, or settled, with the change or without it.
ObjectsBefore ==
    {Absent} \cup
       {Object(marker, spec, TRUE, s[1], s[2]) :
           marker \in {"none", "other"}, spec \in {"ours", "other"},
           s \in {<<TRUE, FALSE>>, <<FALSE, TRUE>>}}

VerifierInit ==
    /\ adapter \in {"kubernetes_apply", "helm_release"}
    /\ kinds \in KindChoices
    /\ objects \in [Targets -> ObjectsBefore]
    /\ \A t \in Targets :
          /\ adapter = "helm_release" => objects[t].marker = "none"
          /\ objects[t].broken => <<FALSE, TRUE>> \in Statuses(t)
    /\ release \in [status : {"deployed", "failed"}, marker : {FALSE}, manifest : {"other"}]
    /\ adapter = "kubernetes_apply" => release.status = "deployed"
    /\ command = [at |-> IF adapter = "helm_release" THEN "waiting" ELSE "running",
                  todo |-> [t \in Targets |-> t]]
    /\ round = NoRound
    /\ verdict = "none"
    /\ rivals = 0
    /\ rolledOut = {}

\* rolledOut starts anew with each round.
VerifierNext ==
    /\ \/ Verifies /\ UNCHANGED cluster
       \/ verdict = "none" /\ ClusterChanges /\ UNCHANGED <<round, verdict>>
    /\ UNCHANGED <<adapter, kinds>>
    /\ rolledOut' = {t \in Targets : HasChange(t)'}
                       \cup (IF round.at = "waiting" THEN {} ELSE rolledOut)

VerifierSpec == VerifierInit /\ [][VerifierNext]_verifierVars

-----------------------------------------------------------------------------
(* Properties *)

\* A change is only said to be verified when, in the round that decided it, each
\* object it names was seen with the whole change rolled out: not with the status of
\* an earlier generation, not with the change of somebody else, not for a command
\* that left an object out.  Not claimed for the content of objects without a spec,
\* for pods, whose status has no generation, for what is no workload of a release,
\* and for a release that others change meanwhile (_verify_kubernetes, _verify_helm,
\* _workload_health).
PassedIsTrue ==
    verdict = "passed" =>
        /\ adapter = "helm_release" /\ rivals = 0 =>
              release.status = "deployed" /\ release.marker
        /\ \A t \in Targets :
              \/ t \in rolledOut
              \/ kinds[t] = "pod"
              \/ adapter = "helm_release" /\ (~Workload(t) \/ rivals > 0)
=============================================================================
