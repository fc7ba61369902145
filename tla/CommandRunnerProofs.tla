------------------------- MODULE CommandRunnerProofs -------------------------
(***************************************************************************)
(* Proofs about the subprocesses of the MCP server, for every number of    *)
(* calls, runs and attempts.  A step of a call touches its own record, its *)
(* own processes and its own entry of the registry: the steps are first    *)
(* sorted by what they do to those, and the invariant is proved per kind.  *)
(***************************************************************************)
EXTENDS CommandRunner, TLAPS

-----------------------------------------------------------------------------
(* The inductive invariant *)

\* The call has spawned a process and still waits for it.
Waiting == {"spawning", "running", "timing_out", "rejecting", "cancelling"}

\* What the attempts of a call say about the processes it has spawned.
CallCounts(c, rec) ==
    /\ rec.pc \in Waiting => rec.spawned >= 1
    /\ ~rec.fallback =>
          rec.spawned <= IF rec.pc = "ready" THEN rec.attempt - 1 ELSE rec.attempt
    /\ rec.fallback =>
          /\ c \in RetrySafe /\ c \in HasFallback
          /\ rec.pc = "ready" => rec.spawned <= MaxAttempts
    /\ c \notin RetrySafe => rec.attempt = 1
    /\ rec.pc = "backoff" => c \in RetrySafe /\ ~rec.fallback /\ rec.attempt < MaxAttempts

\* A process of a cancelled run that goes on is one the cancel request found and
\* has not finished with.
QuietRuns ==
    \A c \in Calls :
        /\ RunOf[c] # NoRun
        /\ Tombstoned(RunOf[c])
        /\ call[c].pc = "running"
        /\ proc[Proc(c)] = "alive"
        => /\ canceller[RunOf[c]].pc = "terminating"
           /\ Proc(c) \in canceller[RunOf[c]].targets

CommandInv ==
    /\ TypeOK
    /\ \A c \in Calls : CallCounts(c, call[c])
    /\ NoOrphan
    /\ RegistryExact
    /\ QuietRuns

-----------------------------------------------------------------------------
(* The kinds of steps *)

\* create_subprocess_exec gives the call one more process.
Starts(c) ==
    /\ call[c].pc = "ready"
    /\ call[c].spawned + 1 \in 1..MaxSpawns
    /\ call' = [call EXCEPT ![c] = [call[c] EXCEPT !.pc = "spawning", !.spawned = @ + 1]]
    /\ proc' = [proc EXCEPT ![<<c, call[c].spawned + 1>>] = "alive"]
    /\ UNCHANGED <<registered, tombstone, canceller>>

\* The call is done with its process, which has ended or never was.
Leaves(c) ==
    /\ \E rec \in CallRecord :
         /\ call' = [call EXCEPT ![c] = rec]
         /\ rec.pc \in {"ready", "backoff", "done"}
         /\ CallCounts(c, rec)
    /\ \/ proc' = proc /\ (call[c].pc \in {"spawning", "running"} => proc[Proc(c)] = "ended")
       \/ call[c].pc = "spawning" /\ proc' = [proc EXCEPT ![Proc(c)] = "ended"]
    /\ registered' = registered \ {Proc(c)}
    /\ UNCHANGED <<tombstone, canceller>>

\* _register_process lets the call wait for its process.
Registers(c) ==
    /\ call[c].pc = "spawning"
    /\ call' = [call EXCEPT ![c] = [call[c] EXCEPT !.pc = "running"]]
    /\ \/ RunOf[c] = NoRun /\ UNCHANGED registered
       \/ ~Tombstoned(RunOf[c]) /\ registered' = registered \cup {Proc(c)}
    /\ UNCHANGED <<proc, tombstone, canceller>>

\* A refusal, a timeout or a cancellation signals the process of the call.
Interrupts(c) ==
    /\ \/ /\ call[c].pc = "spawning"
          /\ call' = [call EXCEPT ![c] = [call[c] EXCEPT !.pc = "rejecting"]]
       \/ /\ call[c].pc = "running"
          /\ call' = [call EXCEPT ![c] = [call[c] EXCEPT !.pc = "timing_out"]]
       \/ /\ call[c].pc \in {"running", "timing_out", "rejecting"}
          /\ call' = [call EXCEPT ![c] = [call[c] EXCEPT !.pc = "cancelling"]]
    /\ Signal(Proc(c))
    /\ UNCHANGED <<registered, tombstone, canceller>>

\* A process goes towards its end.
ProcessMoves(p) ==
    /\ proc[p] # "none"
    /\ \E state \in {"termed", "ended"} : proc' = [proc EXCEPT ![p] = state]
    /\ UNCHANGED <<call, registered, tombstone, canceller>>

\* A cancel request comes or returns, or time passes.
CancelMoves ==
    /\ (\E r \in Runs : CancelRun(r) \/ CancelRunOver(r)) \/ Tick
    /\ UNCHANGED <<call, proc, registered>>

\* An attempt that ends leaves the counts of the call in order.
LEMMA FailedAttemptLeaves ==
    ASSUME CommandInv, NEW c \in Calls, NEW transient \in BOOLEAN,
           AttemptFailed(c, transient), call[c].pc \in Waiting \cup {"ready"}
    PROVE  /\ registered' = registered \ {Proc(c)}
           /\ \E rec \in CallRecord :
                /\ call' = [call EXCEPT ![c] = rec]
                /\ rec.pc \in {"ready", "backoff", "done"}
                /\ CallCounts(c, rec)
<1> DEFINE old == call[c]
<1>1. old \in CallRecord /\ CallCounts(c, old) /\ MaxAttempts \in Nat \ {0}
  BY CommandConstants DEF CommandInv, TypeOK
<1>2. registered' = registered \ {Proc(c)}
  BY DEF AttemptFailed, Unregister
<1>3. CASE CanRetry(c, transient)
  <2> DEFINE rec == [old EXCEPT !.pc = "backoff"]
  <2>1. call' = [call EXCEPT ![c] = rec]
    BY <1>3 DEF AttemptFailed, Goto
  <2>2. rec \in CallRecord /\ rec.pc = "backoff"
    BY <1>1 DEF CallRecord
  <2>3. CallCounts(c, rec)
    BY <1>1, <1>3 DEF CallRecord, CallCounts, CanRetry, Waiting
  <2> QED BY <1>2, <2>1, <2>2, <2>3
<1>4. CASE ~CanRetry(c, transient) /\ CanFallBack(c)
  <2> DEFINE rec == [old EXCEPT !.pc = "ready", !.attempt = 1, !.fallback = TRUE]
  <2>1. call' = [call EXCEPT ![c] = rec]
    BY <1>4 DEF AttemptFailed
  <2>2. rec \in CallRecord /\ rec.pc = "ready"
    <3>1. 1 \in 1..MaxAttempts
      BY <1>1
    <3> QED BY <1>1, <3>1 DEF CallRecord
  <2>3. CallCounts(c, rec)
    BY <1>1, <1>4 DEF CallRecord, CallCounts, CanFallBack, Waiting
  <2> QED BY <1>2, <2>1, <2>2, <2>3
<1>5. CASE ~CanRetry(c, transient) /\ ~CanFallBack(c)
  <2> DEFINE rec == [old EXCEPT !.pc = "done", !.outcome = "error"]
  <2>1. call' = [call EXCEPT ![c] = rec]
    BY <1>5 DEF AttemptFailed, Return
  <2>2. rec \in CallRecord /\ rec.pc = "done"
    BY <1>1 DEF CallRecord
  <2>3. CallCounts(c, rec)
    BY <1>1 DEF CallRecord, CallCounts, Waiting
  <2> QED BY <1>2, <2>1, <2>2, <2>3
<1> QED BY <1>3, <1>4, <1>5

\* So does a call that returns.
LEMMA ReturnLeaves ==
    ASSUME CommandInv, NEW c \in Calls,
           NEW outcome \in {"none", "ok", "error", "cancelled", "raised"}, Return(c, outcome)
    PROVE  \E rec \in CallRecord :
             /\ call' = [call EXCEPT ![c] = rec]
             /\ rec.pc \in {"ready", "backoff", "done"}
             /\ CallCounts(c, rec)
<1> DEFINE rec == [call[c] EXCEPT !.pc = "done", !.outcome = outcome]
<1>1. call[c] \in CallRecord /\ CallCounts(c, call[c])
  BY DEF CommandInv, TypeOK
<1>2. call' = [call EXCEPT ![c] = rec]
  BY DEF Return
<1>3. rec \in CallRecord /\ rec.pc = "done"
  BY <1>1 DEF CallRecord
<1>4. CallCounts(c, rec)
  BY <1>1 DEF CallRecord, CallCounts, Waiting
<1> QED BY <1>2, <1>3, <1>4

\* Every step is of one of these kinds.
LEMMA StepKinds ==
    ASSUME CommandInv, [Next]_vars
    PROVE  \/ \E c \in Calls : Starts(c) \/ Leaves(c) \/ Registers(c) \/ Interrupts(c)
           \/ \E c \in Calls : call[c].pc = "backoff" /\ BackoffOver(c)
           \/ \E p \in Procs : ProcessMoves(p)
           \/ CancelMoves
           \/ UNCHANGED vars
<1> DEFINE Sorted == \/ \E c \in Calls : Starts(c) \/ Leaves(c) \/ Registers(c) \/ Interrupts(c)
                     \/ \E c \in Calls : call[c].pc = "backoff" /\ BackoffOver(c)
                     \/ \E p \in Procs : ProcessMoves(p)
                     \/ CancelMoves
                     \/ UNCHANGED vars
<1>1. /\ call \in [Calls -> CallRecord] /\ proc \in [Procs -> ProcState]
      /\ \A c \in Calls : CallCounts(c, call[c])
      /\ MaxAttempts \in Nat \ {0}
  BY CommandConstants DEF CommandInv, TypeOK
<1>2. \A c \in Calls : call[c].pc \in Waiting => Proc(c) \in Procs
  BY <1>1 DEF CallCounts, CallRecord, Proc, Procs
<1>3. ASSUME NEW c \in Calls, Spawn(c) PROVE Starts(c)
  <2>1. call[c].pc = "ready" /\ call[c] \in CallRecord /\ CallCounts(c, call[c])
    BY <1>1, <1>3 DEF Spawn
  <2>2. call[c].spawned + 1 \in 1..MaxSpawns
    BY <1>1, <2>1 DEF CallRecord, CallCounts, MaxSpawns
  <2> QED BY <1>3, <2>1, <2>2 DEF Spawn, Starts
<1>4. ASSUME NEW c \in Calls, SpawnFails(c) PROVE Leaves(c)
  BY <1>4, FailedAttemptLeaves DEF SpawnFails, Leaves
<1>5. ASSUME NEW c \in Calls, Register(c) PROVE Registers(c) \/ Interrupts(c)
  BY <1>5 DEF Register, Registers, Interrupts, Goto
<1>6. ASSUME NEW c \in Calls, CommunicateReturns(c) PROVE Leaves(c)
  BY <1>6, FailedAttemptLeaves, ReturnLeaves DEF CommunicateReturns, Leaves, Waiting, Unregister
<1>7. ASSUME NEW c \in Calls, Timeout(c) PROVE Interrupts(c)
  BY <1>7 DEF Timeout, Interrupts, Goto
<1>8. ASSUME NEW c \in Calls, TimeoutOver(c) PROVE Leaves(c)
  BY <1>8, FailedAttemptLeaves DEF TimeoutOver, Leaves, Waiting
<1>9. ASSUME NEW c \in Calls, RejectOver(c) PROVE Leaves(c)
  BY <1>9, ReturnLeaves DEF RejectOver, Leaves, Unregister
<1>10. ASSUME NEW c \in Calls, CancelOver(c) PROVE Leaves(c)
  BY <1>10, ReturnLeaves DEF CancelOver, Leaves, Unregister
<1>11. ASSUME NEW c \in Calls, RequestCancelled(c) PROVE Leaves(c) \/ Interrupts(c)
  <2>1. CASE call[c].pc = "spawning"
    BY <1>11, <2>1, ReturnLeaves DEF RequestCancelled, Leaves, Unregister
  <2>2. CASE call[c].pc \in {"running", "timing_out", "rejecting"}
    BY <1>11, <2>2 DEF RequestCancelled, Interrupts, Goto
  <2>3. CASE call[c].pc \in {"cancelling", "backoff"}
    BY <1>11, <2>3, ReturnLeaves DEF RequestCancelled, Leaves, Unregister
  <2> QED BY <1>11, <2>1, <2>2, <2>3 DEF RequestCancelled
<1>12. ASSUME NEW p \in Procs, ProcExits(p) \/ Dies(p) PROVE ProcessMoves(p)
  BY <1>12 DEF ProcExits, Dies, ProcessMoves
<1>13. ASSUME NEW r \in Runs, CancelSignals(r) PROVE \E p \in Procs : ProcessMoves(p)
  <2>1. PICK p \in canceller[r].targets :
          /\ proc[p] = "alive" /\ Signal(p)
          /\ UNCHANGED <<call, registered, tombstone, canceller>>
    BY <1>13 DEF CancelSignals
  <2>2. p \in Procs
    BY DEF CommandInv, TypeOK, CancellerRecord
  <2>3. proc' = [proc EXCEPT ![p] = "termed"]
    BY <2>1 DEF Signal, Signalled
  <2> QED BY <2>1, <2>2, <2>3 DEF ProcessMoves
<1>14. ASSUME NEW r \in Runs, CancelRun(r) \/ CancelRunOver(r) PROVE CancelMoves
  BY <1>14 DEF CancelRun, CancelRunOver, CancelMoves
<1>15. ASSUME Tick PROVE CancelMoves
  BY <1>15 DEF Tick, CancelMoves
<1>16. ASSUME NEW c \in Calls, CallStep(c) \/ RequestCancelled(c) PROVE Sorted
  BY <1>3, <1>4, <1>5, <1>6, <1>7, <1>8, <1>9, <1>10, <1>11, <1>16 DEF CallStep, BackoffOver
<1> QED
  BY <1>12, <1>13, <1>14, <1>15, <1>16 DEF Next, CancelStep

-----------------------------------------------------------------------------
(* Each part of the invariant *)

\* What a step of a call does to the record of any call.
LEMMA OneCallMoves ==
    ASSUME TypeOK, NEW c \in Calls, NEW rec, call' = [call EXCEPT ![c] = rec]
    PROVE  /\ call'[c] = rec
           /\ \A d \in Calls \ {c} : call'[d] = call[d] /\ Proc(d)' = Proc(d)
           /\ rec \in CallRecord => call' \in [Calls -> CallRecord]
  BY DEF TypeOK, Proc

\* Records and counts.
LEMMA CountsNext ==
    ASSUME CommandInv, [Next]_vars
    PROVE  call' \in [Calls -> CallRecord] /\ \A c \in Calls : CallCounts(c, call'[c])
<1>1. /\ TypeOK /\ call \in [Calls -> CallRecord] /\ \A c \in Calls : CallCounts(c, call[c])
      /\ MaxAttempts \in Nat \ {0}
  BY CommandConstants DEF CommandInv, TypeOK
<1>2. ASSUME NEW c \in Calls, NEW rec \in CallRecord, CallCounts(c, rec),
             call' = [call EXCEPT ![c] = rec]
      PROVE  call' \in [Calls -> CallRecord] /\ \A d \in Calls : CallCounts(d, call'[d])
  BY <1>1, <1>2, OneCallMoves
<1>3. ASSUME NEW c \in Calls, Starts(c)
      PROVE  call' \in [Calls -> CallRecord] /\ \A d \in Calls : CallCounts(d, call'[d])
  <2> DEFINE rec == [call[c] EXCEPT !.pc = "spawning", !.spawned = @ + 1]
  <2>1. call[c] \in CallRecord /\ CallCounts(c, call[c])
    BY <1>1
  <2>2. rec \in CallRecord
    <3>1. call[c].spawned + 1 \in 0..MaxSpawns
      BY <1>1, <1>3 DEF Starts, MaxSpawns
    <3> QED BY <2>1, <3>1 DEF CallRecord
  <2>3. CallCounts(c, rec)
    BY <1>1, <1>3, <2>1 DEF Starts, CallRecord, CallCounts
  <2> QED BY <1>2, <1>3, <2>2, <2>3 DEF Starts
<1>4. ASSUME NEW c \in Calls, Leaves(c)
      PROVE  call' \in [Calls -> CallRecord] /\ \A d \in Calls : CallCounts(d, call'[d])
  BY <1>2, <1>4 DEF Leaves
<1>5. ASSUME NEW c \in Calls, NEW pc \in Waiting, call[c].pc \in Waiting,
             call' = [call EXCEPT ![c] = [call[c] EXCEPT !.pc = pc]]
      PROVE  call' \in [Calls -> CallRecord] /\ \A d \in Calls : CallCounts(d, call'[d])
  <2> DEFINE rec == [call[c] EXCEPT !.pc = pc]
  <2>1. call[c] \in CallRecord /\ CallCounts(c, call[c])
    BY <1>1
  <2>2. rec \in CallRecord
    BY <2>1 DEF CallRecord, Waiting
  <2>3. CallCounts(c, rec)
    BY <1>5, <2>1 DEF CallRecord, CallCounts, Waiting
  <2> QED BY <1>2, <1>5, <2>2, <2>3
<1>6. ASSUME NEW c \in Calls, Registers(c) \/ Interrupts(c)
      PROVE  call' \in [Calls -> CallRecord] /\ \A d \in Calls : CallCounts(d, call'[d])
  BY <1>5, <1>6 DEF Registers, Interrupts, Waiting
<1>7. ASSUME NEW c \in Calls, BackoffOver(c)
      PROVE  call' \in [Calls -> CallRecord] /\ \A d \in Calls : CallCounts(d, call'[d])
  <2> DEFINE rec == [call[c] EXCEPT !.pc = "ready", !.attempt = @ + 1]
  <2>1. call[c] \in CallRecord /\ CallCounts(c, call[c]) /\ call[c].pc = "backoff"
    BY <1>1, <1>7 DEF BackoffOver
  <2>2. /\ call[c].attempt + 1 \in 1..MaxAttempts /\ call[c].attempt \in Nat
        /\ c \in RetrySafe /\ ~call[c].fallback
        /\ call[c].spawned <= call[c].attempt
    BY <1>1, <2>1 DEF CallRecord, CallCounts
  <2>5. rec \in CallRecord
    BY <2>1, <2>2 DEF CallRecord
  <2>6. /\ rec.pc = "ready" /\ rec.fallback = call[c].fallback
        /\ rec.attempt = call[c].attempt + 1 /\ rec.spawned = call[c].spawned
    BY <2>1 DEF CallRecord
  <2> HIDE DEF rec
  <2>3. CallCounts(c, rec)
    BY <2>2, <2>6 DEF CallCounts, Waiting
  <2>4. call' = [call EXCEPT ![c] = rec]
    BY <1>7 DEF BackoffOver, rec
  <2> QED BY <1>2, <2>3, <2>4, <2>5
<1>8. CASE UNCHANGED call
  BY <1>1, <1>8
<1> QED
  BY <1>3, <1>4, <1>6, <1>7, <1>8, StepKinds DEF ProcessMoves, CancelMoves, vars

\* A signal moves one process, and never to life.
LEMMA SignalMoves ==
    ASSUME proc \in [Procs -> ProcState], NEW p, Signal(p)
    PROVE  /\ proc' \in [Procs -> ProcState]
           /\ \A q \in Procs : /\ proc'[q] = "alive" => proc[q] = "alive" /\ q # p
                               /\ q # p => proc'[q] = proc[q]
<1>1. proc' = [proc EXCEPT ![p] = Signalled(proc[p])]
  BY DEF Signal
<1>2. CASE p \in Procs
  <2>1. Signalled(proc[p]) \in ProcState /\ Signalled(proc[p]) # "alive"
    BY <1>2 DEF Signalled, ProcState
  <2> QED BY <1>1, <2>1
<1>3. CASE p \notin Procs
  BY <1>1, <1>3
<1> QED BY <1>2, <1>3

\* The process of a call that waits is one of the processes.
LEMMA CurrentProcess ==
    ASSUME CommandInv, NEW c \in Calls, call[c].pc \in Waiting
    PROVE  call[c].spawned \in 1..MaxSpawns /\ Proc(c) \in Procs
<1>1. call[c] \in CallRecord /\ CallCounts(c, call[c]) /\ MaxAttempts \in Nat \ {0}
  BY CommandConstants DEF CommandInv, TypeOK
<1> QED BY <1>1 DEF CallRecord, CallCounts, MaxSpawns, Proc, Procs

\* Processes, registry, tombstones and cancel requests keep their types.
LEMMA TypesNext ==
    ASSUME CommandInv, [Next]_vars
    PROVE  TypeOK'
<1>1. /\ proc \in [Procs -> ProcState] /\ registered \subseteq Procs
      /\ tombstone \in [Runs -> NotCancelled..TombstoneTTL]
      /\ canceller \in [Runs -> CancellerRecord]
      /\ MaxAttempts \in Nat \ {0} /\ TombstoneTTL \in Nat \ {0} /\ MaxCancels \in Nat
  BY CommandConstants DEF CommandInv, TypeOK
<1> DEFINE ProcsOK == proc' \in [Procs -> ProcState] /\ registered' \subseteq Procs
           CancelsOK == /\ tombstone' \in [Runs -> NotCancelled..TombstoneTTL]
                        /\ canceller' \in [Runs -> CancellerRecord]
<1>2. ASSUME UNCHANGED <<tombstone, canceller>> PROVE CancelsOK
  BY <1>1, <1>2
<1>3. ASSUME UNCHANGED <<proc, registered>> PROVE ProcsOK
  BY <1>1, <1>3
<1>4. ASSUME NEW c \in Calls, Starts(c) PROVE ProcsOK /\ CancelsOK
  <2>1. proc' \in [Procs -> ProcState]
    BY <1>1, <1>4 DEF Starts, ProcState
  <2> QED BY <1>1, <1>2, <1>4, <2>1 DEF Starts
<1>5. ASSUME NEW c \in Calls, Leaves(c) PROVE ProcsOK /\ CancelsOK
  <2>1. proc' \in [Procs -> ProcState]
    BY <1>1, <1>5 DEF Leaves, ProcState
  <2> QED BY <1>1, <1>2, <1>5, <2>1 DEF Leaves
<1>6. ASSUME NEW c \in Calls, Registers(c) PROVE ProcsOK /\ CancelsOK
  <2>1. Proc(c) \in Procs
    BY <1>6, CurrentProcess DEF Registers, Waiting
  <2> QED BY <1>1, <1>2, <1>6, <2>1 DEF Registers
<1>7. ASSUME NEW c \in Calls, Interrupts(c) PROVE ProcsOK /\ CancelsOK
  <2>1. proc' \in [Procs -> ProcState]
    BY <1>1, <1>7, SignalMoves DEF Interrupts
  <2> QED BY <1>1, <1>2, <1>7, <2>1 DEF Interrupts
<1>8. ASSUME NEW c \in Calls, BackoffOver(c) PROVE ProcsOK /\ CancelsOK
  BY <1>2, <1>3, <1>8 DEF BackoffOver
<1>9. ASSUME NEW p \in Procs, ProcessMoves(p) PROVE ProcsOK /\ CancelsOK
  <2>1. proc' \in [Procs -> ProcState]
    BY <1>1, <1>9 DEF ProcessMoves, ProcState
  <2> QED BY <1>1, <1>2, <1>9, <2>1 DEF ProcessMoves
<1>10. ASSUME NEW r \in Runs, CancelRun(r) PROVE CancelsOK
  <2>1. canceller[r] \in CancellerRecord
    BY <1>1
  <2>2. [pc |-> "terminating", targets |-> {p \in registered : RunOf[p[1]] = r},
         requests |-> canceller[r].requests + 1] \in CancellerRecord
    <3>1. canceller[r].requests + 1 \in 0..MaxCancels
      BY <1>1, <1>10, <2>1 DEF CancelRun, CancellerRecord
    <3>2. {p \in registered : RunOf[p[1]] = r} \in SUBSET Procs
      BY <1>1
    <3> QED BY <3>1, <3>2 DEF CancellerRecord
  <2>3. canceller' \in [Runs -> CancellerRecord]
    BY <1>1, <1>10, <2>2 DEF CancelRun
  <2>4. 0 \in NotCancelled..TombstoneTTL
    BY <1>1 DEF NotCancelled
  <2>5. tombstone' \in [Runs -> NotCancelled..TombstoneTTL]
    BY <1>1, <1>10, <2>4 DEF CancelRun
  <2> QED BY <2>3, <2>5
<1>11. ASSUME NEW r \in Runs, CancelRunOver(r) PROVE CancelsOK
  <2>1. [canceller[r] EXCEPT !.pc = "idle", !.targets = {}] \in CancellerRecord
    BY <1>1 DEF CancellerRecord
  <2>2. canceller' = [canceller EXCEPT ![r] =
                        [canceller[r] EXCEPT !.pc = "idle", !.targets = {}]]
    BY <1>11 DEF CancelRunOver
  <2> QED BY <1>1, <1>11, <2>1, <2>2 DEF CancelRunOver
<1>12. ASSUME Tick PROVE CancelsOK
  <2>1. \A r \in Runs : Tombstoned(r) => tombstone[r] + 1 \in NotCancelled..TombstoneTTL
    BY <1>1 DEF Tombstoned, NotCancelled
  <2> QED BY <1>1, <1>12, <2>1 DEF Tick
<1>13. ASSUME CancelMoves PROVE ProcsOK /\ CancelsOK
  <2>1. CancelsOK
    BY <1>10, <1>11, <1>12, <1>13 DEF CancelMoves
  <2> QED BY <1>3, <1>13, <2>1 DEF CancelMoves
<1>14. ASSUME UNCHANGED vars PROVE ProcsOK /\ CancelsOK
  BY <1>2, <1>3, <1>14 DEF vars
<1> HIDE DEF ProcsOK, CancelsOK
<1>15. ProcsOK /\ CancelsOK
  BY <1>4, <1>5, <1>6, <1>7, <1>8, <1>9, <1>13, <1>14, StepKinds
<1> QED BY <1>15, CountsNext DEF TypeOK, ProcsOK, CancelsOK

\* No step leaves a live process without a call that waits for it.
LEMMA NoOrphanNext ==
    ASSUME CommandInv, [Next]_vars
    PROVE  NoOrphan'
<1> SUFFICES ASSUME NEW d \in Calls, NEW n \in 1..MaxSpawns, proc'[<<d, n>>] = "alive"
             PROVE  call'[d].spawned = n /\ call'[d].pc \in {"spawning", "running"}
  BY DEF NoOrphan
<1>1. /\ TypeOK /\ proc \in [Procs -> ProcState] /\ <<d, n>> \in Procs
      /\ call[d] \in CallRecord
      /\ proc[<<d, n>>] = "alive" =>
           call[d].spawned = n /\ call[d].pc \in {"spawning", "running"}
  BY DEF CommandInv, TypeOK, NoOrphan, Procs
<1>2. ASSUME NEW c \in Calls, Starts(c)
      PROVE  call'[d].spawned = n /\ call'[d].pc \in {"spawning", "running"}
  <2> DEFINE new == call[c].spawned + 1
             rec == [call[c] EXCEPT !.pc = "spawning", !.spawned = @ + 1]
  <2>1. call[c] \in CallRecord /\ call[c].pc = "ready" /\ new \in 1..MaxSpawns
    BY <1>2 DEF CommandInv, TypeOK, Starts
  <2>2. rec.pc = "spawning" /\ rec.spawned = new
    BY <2>1 DEF CallRecord
  <2>3. call' = [call EXCEPT ![c] = rec] /\ proc' = [proc EXCEPT ![<<c, new>>] = "alive"]
    BY <1>2 DEF Starts
  <2> HIDE DEF new, rec
  <2>4. CASE d = c
    <3>1. n = new
      BY <1>1, <2>1, <2>3, <2>4
    <3> QED BY <1>1, <2>2, <2>3, <2>4, <3>1, OneCallMoves
  <2>5. CASE d # c
    <3>1. proc'[<<d, n>>] = proc[<<d, n>>]
      BY <1>1, <2>3, <2>5
    <3> QED BY <1>1, <2>3, <2>5, <3>1, OneCallMoves
  <2> QED BY <2>4, <2>5
<1>3. ASSUME NEW c \in Calls, Leaves(c)
      PROVE  call'[d].spawned = n /\ call'[d].pc \in {"spawning", "running"}
  <2>1. proc[<<d, n>>] = "alive" /\ (d = c => <<d, n>> # Proc(c))
    BY <1>1, <1>3 DEF Leaves, Proc
  <2>2. d # c
    BY <1>1, <2>1 DEF Proc
  <2> QED BY <1>1, <1>3, <2>1, <2>2, OneCallMoves DEF Leaves
<1>4. ASSUME NEW c \in Calls, Registers(c)
      PROVE  call'[d].spawned = n /\ call'[d].pc \in {"spawning", "running"}
  <2> DEFINE rec == [call[c] EXCEPT !.pc = "running"]
  <2>1. call' = [call EXCEPT ![c] = rec] /\ proc' = proc
    BY <1>4 DEF Registers
  <2>2. rec.pc = "running" /\ rec.spawned = call[c].spawned
    BY DEF CommandInv, TypeOK, CallRecord
  <2> HIDE DEF rec
  <2> QED BY <1>1, <2>1, <2>2, OneCallMoves
<1>5. ASSUME NEW c \in Calls, Interrupts(c)
      PROVE  call'[d].spawned = n /\ call'[d].pc \in {"spawning", "running"}
  <2>1. Signal(Proc(c)) /\ \E rec : call' = [call EXCEPT ![c] = rec]
    BY <1>5 DEF Interrupts
  <2>2. proc[<<d, n>>] = "alive" /\ <<d, n>> # Proc(c)
    BY <1>1, <2>1, SignalMoves
  <2>3. d # c
    BY <1>1, <2>2 DEF Proc
  <2> QED BY <1>1, <2>1, <2>2, <2>3, OneCallMoves
<1>6. ASSUME NEW c \in Calls, call[c].pc = "backoff", BackoffOver(c)
      PROVE  call'[d].spawned = n /\ call'[d].pc \in {"spawning", "running"}
  <2>1. \E rec : call' = [call EXCEPT ![c] = rec]
    BY <1>6 DEF BackoffOver
  <2>2. proc[<<d, n>>] = "alive" /\ d # c
    BY <1>1, <1>6 DEF BackoffOver
  <2> QED BY <1>1, <2>1, <2>2, OneCallMoves
<1>7. ASSUME NEW p \in Procs, ProcessMoves(p)
      PROVE  call'[d].spawned = n /\ call'[d].pc \in {"spawning", "running"}
  BY <1>1, <1>7 DEF ProcessMoves
<1>8. ASSUME CancelMoves \/ UNCHANGED vars
      PROVE  call'[d].spawned = n /\ call'[d].pc \in {"spawning", "running"}
  BY <1>1, <1>8 DEF CancelMoves, vars
<1> QED BY <1>2, <1>3, <1>4, <1>5, <1>6, <1>7, <1>8, StepKinds

\* The registry keeps matching the calls.
LEMMA RegistryNext ==
    ASSUME CommandInv, [Next]_vars
    PROVE  RegistryExact'
<1> DEFINE Entries == \A p \in registered' :
              /\ Proc(p[1])' = p
              /\ call'[p[1]].pc \in {"running", "timing_out", "cancelling"}
           Entered == \A d \in Calls :
              RunOf[d] # NoRun /\ call'[d].pc \in {"running", "timing_out"} =>
                 Proc(d)' \in registered'
<1>1. /\ TypeOK /\ registered \subseteq Procs
      /\ \A p \in registered :
           /\ p[1] \in Calls /\ Proc(p[1]) = p
           /\ call[p[1]].pc \in {"running", "timing_out", "cancelling"}
      /\ \A d \in Calls :
           RunOf[d] # NoRun /\ call[d].pc \in {"running", "timing_out"} => Proc(d) \in registered
  BY DEF CommandInv, TypeOK, RegistryExact, Procs
<1>2. ASSUME NEW c \in Calls, Starts(c) PROVE Entries /\ Entered
  <2> DEFINE rec == [call[c] EXCEPT !.pc = "spawning", !.spawned = @ + 1]
  <2>1. /\ call' = [call EXCEPT ![c] = rec] /\ registered' = registered
        /\ call[c].pc = "ready" /\ rec.pc = "spawning"
    BY <1>2 DEF Starts, CommandInv, TypeOK, CallRecord
  <2> HIDE DEF rec
  <2> QED BY <1>1, <2>1, OneCallMoves DEF Proc
<1>3. ASSUME NEW c \in Calls, Leaves(c) PROVE Entries /\ Entered
  <2>1. PICK rec : call' = [call EXCEPT ![c] = rec] /\ rec.pc \in {"ready", "backoff", "done"}
    BY <1>3 DEF Leaves
  <2>2. registered' = registered \ {Proc(c)}
    BY <1>3 DEF Leaves
  <2>3. \A p \in registered' : p \in registered /\ p[1] # c
    BY <1>1, <2>2
  <2>4. Entries
    BY <1>1, <2>1, <2>3, OneCallMoves DEF Proc
  <2>5. ASSUME NEW d \in Calls, RunOf[d] # NoRun, call'[d].pc \in {"running", "timing_out"}
        PROVE  Proc(d)' \in registered'
    <3>1. d # c
      BY <1>1, <2>1, <2>5, OneCallMoves
    <3>2. call'[d] = call[d] /\ Proc(d)' = Proc(d) /\ Proc(d) # Proc(c)
      BY <1>1, <2>1, <3>1, OneCallMoves DEF Proc
    <3> QED BY <1>1, <2>2, <2>5, <3>2
  <2> QED BY <2>4, <2>5
<1>4. ASSUME NEW c \in Calls, Registers(c) PROVE Entries /\ Entered
  <2> DEFINE rec == [call[c] EXCEPT !.pc = "running"]
  <2>1. /\ call' = [call EXCEPT ![c] = rec] /\ call[c].pc = "spawning"
        /\ rec.pc = "running" /\ rec.spawned = call[c].spawned
        /\ \/ RunOf[c] = NoRun /\ registered' = registered
           \/ registered' = registered \cup {Proc(c)}
    BY <1>4 DEF Registers, CommandInv, TypeOK, CallRecord
  <2> HIDE DEF rec
  <2>2. call'[c] = rec /\ Proc(c)' = Proc(c) /\ Proc(c)[1] = c
    BY <1>1, <2>1, OneCallMoves DEF Proc
  <2>3. \A p \in registered : p[1] # c
    BY <1>1, <2>1
  <2> QED BY <1>1, <2>1, <2>2, <2>3, OneCallMoves DEF Proc
<1>5. ASSUME NEW c \in Calls, Interrupts(c) PROVE Entries /\ Entered
  <2>1. PICK rec : /\ call' = [call EXCEPT ![c] = rec] /\ rec.spawned = call[c].spawned
                   /\ \/ call[c].pc = "spawning" /\ rec.pc = "rejecting"
                      \/ call[c].pc = "running" /\ rec.pc = "timing_out"
                      \/ rec.pc = "cancelling"
    BY <1>5 DEF Interrupts, CommandInv, TypeOK, CallRecord
  <2>2. call'[c] = rec /\ Proc(c)' = Proc(c) /\ registered' = registered
    BY <1>1, <1>5, <2>1, OneCallMoves DEF Interrupts, Proc
  <2> QED BY <1>1, <2>1, <2>2, OneCallMoves DEF Proc
<1>6. ASSUME NEW c \in Calls, call[c].pc = "backoff", BackoffOver(c) PROVE Entries /\ Entered
  <2> DEFINE rec == [call[c] EXCEPT !.pc = "ready", !.attempt = @ + 1]
  <2>1. /\ call' = [call EXCEPT ![c] = rec] /\ registered' = registered
        /\ rec.pc = "ready"
    BY <1>6 DEF BackoffOver, CommandInv, TypeOK, CallRecord
  <2> HIDE DEF rec
  <2> QED BY <1>1, <1>6, <2>1, OneCallMoves DEF Proc
<1>7. ASSUME UNCHANGED <<call, registered>> PROVE Entries /\ Entered
  BY <1>1, <1>7 DEF Proc
<1> HIDE DEF Entries, Entered
<1>8. Entries /\ Entered
  BY <1>2, <1>3, <1>4, <1>5, <1>6, <1>7, StepKinds DEF ProcessMoves, CancelMoves, vars
<1> QED BY <1>8 DEF RegistryExact, Entries, Entered

\* A cancelled run stays quiet.
LEMMA QuietNext ==
    ASSUME CommandInv, [Next]_vars
    PROVE  QuietRuns'
<1> SUFFICES ASSUME NEW d \in Calls, RunOf[d] # NoRun, Tombstoned(RunOf[d])',
                    call'[d].pc = "running", proc'[Proc(d)'] = "alive"
             PROVE  /\ canceller'[RunOf[d]].pc = "terminating"
                    /\ Proc(d)' \in canceller'[RunOf[d]].targets
  BY DEF QuietRuns
<1> DEFINE run == RunOf[d]
           Found == /\ canceller'[run].pc = "terminating"
                    /\ Proc(d)' \in canceller'[run].targets
<1>1. /\ TypeOK /\ run \in Runs /\ proc \in [Procs -> ProcState]
      /\ call[d].pc = "running" => Proc(d) \in Procs
      /\ Tombstoned(run) /\ call[d].pc = "running" /\ proc[Proc(d)] = "alive" =>
           canceller[run].pc = "terminating" /\ Proc(d) \in canceller[run].targets
  BY CommandConstants, CurrentProcess DEF CommandInv, TypeOK, QuietRuns, Waiting
<1>2. ASSUME UNCHANGED <<tombstone, canceller>>, Proc(d)' = Proc(d),
             call[d].pc = "running", proc[Proc(d)] = "alive"
      PROVE  Found
  <2>1. Tombstoned(run)
    BY <1>2 DEF Tombstoned
  <2> QED BY <1>1, <1>2, <2>1
<1>3. ASSUME NEW c \in Calls, Starts(c) PROVE Found
  <2> DEFINE rec == [call[c] EXCEPT !.pc = "spawning", !.spawned = @ + 1]
  <2>1. /\ call' = [call EXCEPT ![c] = rec] /\ rec.pc = "spawning"
        /\ proc' = [proc EXCEPT ![<<c, call[c].spawned + 1>>] = "alive"]
        /\ UNCHANGED <<tombstone, canceller>>
    BY <1>3 DEF Starts, CommandInv, TypeOK, CallRecord
  <2> HIDE DEF rec
  <2>2. d # c
    BY <1>1, <2>1, OneCallMoves
  <2>3. call[d].pc = "running" /\ Proc(d)' = Proc(d)
    BY <1>1, <2>1, <2>2, OneCallMoves
  <2>4. proc[Proc(d)] = "alive"
    BY <1>1, <2>1, <2>2, <2>3 DEF Proc
  <2> QED BY <1>2, <2>1, <2>3, <2>4
<1>4. ASSUME NEW c \in Calls, Leaves(c) PROVE Found
  <2>1. PICK rec : call' = [call EXCEPT ![c] = rec] /\ rec.pc \in {"ready", "backoff", "done"}
    BY <1>4 DEF Leaves
  <2>2. d # c
    BY <1>1, <2>1, OneCallMoves
  <2>3. call[d].pc = "running" /\ Proc(d)' = Proc(d) /\ Proc(d) # Proc(c)
    BY <1>1, <2>1, <2>2, OneCallMoves DEF Proc
  <2>4. proc[Proc(d)] = "alive" /\ UNCHANGED <<tombstone, canceller>>
    BY <1>1, <1>4, <2>3 DEF Leaves
  <2> QED BY <1>2, <2>3, <2>4
<1>5. ASSUME NEW c \in Calls, Registers(c) PROVE Found
  <2>1. /\ \E rec : call' = [call EXCEPT ![c] = rec]
        /\ UNCHANGED <<proc, tombstone, canceller>>
        /\ RunOf[c] = NoRun \/ ~Tombstoned(RunOf[c])
    BY <1>5 DEF Registers
  <2>2. d # c
    BY <2>1 DEF Tombstoned
  <2>3. call[d].pc = "running" /\ Proc(d)' = Proc(d)
    BY <1>1, <2>1, <2>2, OneCallMoves
  <2> QED BY <1>2, <2>1, <2>3
<1>6. ASSUME NEW c \in Calls, Interrupts(c) PROVE Found
  <2>1. PICK rec : call' = [call EXCEPT ![c] = rec] /\ rec.pc # "running"
    BY <1>6 DEF Interrupts, CommandInv, TypeOK, CallRecord
  <2>2. d # c
    BY <1>1, <2>1, OneCallMoves
  <2>3. call[d].pc = "running" /\ Proc(d)' = Proc(d)
    BY <1>1, <2>1, <2>2, OneCallMoves
  <2>4. Signal(Proc(c)) /\ UNCHANGED <<tombstone, canceller>>
    BY <1>6 DEF Interrupts
  <2>5. proc[Proc(d)] = "alive"
    BY <1>1, <2>3, <2>4, SignalMoves
  <2> QED BY <1>2, <2>3, <2>4, <2>5
<1>7. ASSUME NEW c \in Calls, BackoffOver(c) PROVE Found
  <2> DEFINE rec == [call[c] EXCEPT !.pc = "ready", !.attempt = @ + 1]
  <2>1. /\ call' = [call EXCEPT ![c] = rec] /\ rec.pc = "ready"
        /\ UNCHANGED <<proc, tombstone, canceller>>
    BY <1>7 DEF BackoffOver, CommandInv, TypeOK, CallRecord
  <2> HIDE DEF rec
  <2>2. d # c
    BY <1>1, <2>1, OneCallMoves
  <2>3. call[d].pc = "running" /\ Proc(d)' = Proc(d)
    BY <1>1, <2>1, <2>2, OneCallMoves
  <2> QED BY <1>2, <2>1, <2>3
<1>8. ASSUME UNCHANGED call PROVE call[d].pc = "running" /\ Proc(d)' = Proc(d)
  BY <1>8 DEF Proc
<1>9. ASSUME NEW p \in Procs, ProcessMoves(p) PROVE Found
  <2>1. call[d].pc = "running" /\ Proc(d)' = Proc(d) /\ UNCHANGED <<tombstone, canceller>>
    BY <1>8, <1>9 DEF ProcessMoves
  <2>2. proc[Proc(d)] = "alive"
    BY <1>1, <1>9, <2>1 DEF ProcessMoves
  <2> QED BY <1>2, <2>1, <2>2
<1>10. ASSUME UNCHANGED vars PROVE Found
  BY <1>2, <1>8, <1>10 DEF vars
<1>11. ASSUME CancelMoves PROVE Found
  <2>1. /\ call[d].pc = "running" /\ Proc(d)' = Proc(d) /\ proc[Proc(d)] = "alive"
        /\ Proc(d) \in registered /\ Proc(d)[1] = d
    BY <1>8, <1>11 DEF CancelMoves, CommandInv, RegistryExact, Proc
  <2>2. /\ canceller \in [Runs -> CancellerRecord]
        /\ tombstone \in [Runs -> NotCancelled..TombstoneTTL]
    BY DEF CommandInv, TypeOK
  <2>3. ASSUME NEW r \in Runs, CancelRun(r) PROVE Found
    <3>1. CASE r = run
      <4>1. canceller'[run] = [pc |-> "terminating",
                               targets |-> {p \in registered : RunOf[p[1]] = run},
                               requests |-> canceller[run].requests + 1]
        BY <1>1, <2>2, <2>3, <3>1 DEF CancelRun
      <4> QED BY <2>1, <4>1
    <3>2. CASE r # run
      <4>1. canceller'[run] = canceller[run] /\ tombstone'[run] = tombstone[run]
        BY <2>2, <2>3, <3>2 DEF CancelRun
      <4> QED BY <1>1, <2>1, <4>1 DEF Tombstoned
    <3> QED BY <3>1, <3>2
  <2>4. ASSUME NEW r \in Runs, CancelRunOver(r) PROVE Found
    <3>1. Tombstoned(run)
      BY <2>4 DEF CancelRunOver, Tombstoned
    <3>2. Proc(d) \in canceller[run].targets /\ canceller[run].pc = "terminating"
      BY <1>1, <2>1, <3>1
    <3>3. r # run
      BY <2>1, <2>4, <3>2 DEF CancelRunOver
    <3>4. canceller'[run] = canceller[run]
      BY <1>1, <2>2, <2>4, <3>3 DEF CancelRunOver
    <3> QED BY <2>1, <3>2, <3>4
  <2>5. ASSUME Tick PROVE Found
    <3>1. tombstone'[run] = IF Tombstoned(run) THEN tombstone[run] + 1 ELSE tombstone[run]
      BY <1>1, <2>5 DEF Tick
    <3>2. Tombstoned(run)
      BY <3>1 DEF Tombstoned
    <3> QED BY <1>1, <2>1, <2>5, <3>2 DEF Tick
  <2> QED BY <1>11, <2>3, <2>4, <2>5 DEF CancelMoves
<1> HIDE DEF run, Found
<1>12. Found
  BY <1>3, <1>4, <1>5, <1>6, <1>7, <1>9, <1>10, <1>11, StepKinds
<1> QED BY <1>12 DEF Found, run

-----------------------------------------------------------------------------
(* The theorems *)

\* The server starts without calls, processes and cancel requests.
LEMMA CommandInit == Init => CommandInv
<1> SUFFICES ASSUME Init PROVE CommandInv
  OBVIOUS
<1>1. MaxAttempts \in Nat \ {0} /\ TombstoneTTL \in Nat \ {0} /\ MaxCancels \in Nat
  BY CommandConstants
<1>2. TypeOK
  <2>1. call \in [Calls -> CallRecord]
    <3>1. 1 \in 1..MaxAttempts /\ 0 \in 0..MaxSpawns
      BY <1>1 DEF MaxSpawns
    <3> QED BY <3>1 DEF Init, CallRecord
  <2>2. proc \in [Procs -> ProcState] /\ registered \subseteq Procs
    BY DEF Init, ProcState
  <2>3. tombstone \in [Runs -> NotCancelled..TombstoneTTL]
    BY <1>1 DEF Init, NotCancelled
  <2>4. canceller \in [Runs -> CancellerRecord]
    BY <1>1 DEF Init, CancellerRecord
  <2> QED BY <2>1, <2>2, <2>3, <2>4 DEF TypeOK
<1>3. \A c \in Calls : CallCounts(c, call[c])
  BY DEF Init, CallCounts, Waiting
<1>4. NoOrphan
  BY DEF Init, NoOrphan, Procs
<1>5. RegistryExact /\ QuietRuns
  BY DEF Init, RegistryExact, QuietRuns
<1> QED BY <1>2, <1>3, <1>4, <1>5 DEF CommandInv

\* Every step of the server keeps the invariant.
LEMMA CommandNext == CommandInv /\ [Next]_vars => CommandInv'
  BY TypesNext, CountsNext, NoOrphanNext, RegistryNext, QuietNext DEF CommandInv

\* The invariant holds whatever processes, requests and cancellations do.
THEOREM CommandInvariant == Spec => []CommandInv
  BY CommandInit, CommandNext, PTL DEF Spec

\* Type correctness; no call spawns more processes than its attempts and fallback allow.
THEOREM CommandTypeCorrect == Spec => []TypeOK
<1>1. CommandInv => TypeOK
  BY DEF CommandInv
<1> QED BY <1>1, CommandInvariant, PTL

\* Timeouts, retries, refusals and cancellations of run_command leave no process behind
\* that nobody has told to stop.
THEOREM NoProcessOrphaned == Spec => []NoOrphan
<1>1. CommandInv => NoOrphan
  BY DEF CommandInv
<1> QED BY <1>1, CommandInvariant, PTL

\* _active_processes holds exactly the processes that calls wait for.
THEOREM RegistryStaysExact == Spec => []RegistryExact
<1>1. CommandInv => RegistryExact
  BY DEF CommandInv
<1> QED BY <1>1, CommandInvariant, PTL

\* Once cancel_run_processes has returned, and while its tombstone lives, no registered
\* process of the run goes on, whatever was being spawned when it looked.
THEOREM CancelledRunsStayQuiet == Spec => []CancelledRunIsQuiet
<1>1. CommandInv => CancelledRunIsQuiet
  BY DEF CommandInv, QuietRuns, CancelledRunIsQuiet
<1> QED BY <1>1, CommandInvariant, PTL

\* A mutation is started once, a read at most MaxAttempts times and once more as its
\* fallback, whatever fails, times out or is retried (run_command).
THEOREM StartsStayBounded == Spec => []StartsBounded
<1>1. ASSUME CommandInv PROVE StartsBounded
  <2>1. ASSUME NEW c \in Calls
        PROVE  call[c].spawned <= IF c \in RetrySafe
                                  THEN MaxAttempts + (IF c \in HasFallback THEN 1 ELSE 0)
                                  ELSE 1
    <3>1. call[c] \in CallRecord /\ CallCounts(c, call[c]) /\ MaxAttempts \in Nat \ {0}
      BY <1>1, CommandConstants DEF CommandInv, TypeOK
    <3> QED BY <3>1 DEF CallRecord, CallCounts, MaxSpawns
  <2> QED BY <2>1 DEF StartsBounded
<1> QED BY <1>1, CommandInvariant, PTL
=============================================================================
