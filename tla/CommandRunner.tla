---------------------------- MODULE CommandRunner ----------------------------
(***************************************************************************)
(* Subprocesses of the MCP server (mcp/utils/commands.py): run_command     *)
(* with its timeout, retries and fallback, the registry of the processes   *)
(* of each workflow run, and cancel_run_processes behind the route         *)
(* /internal/runs/{run_id}/cancel.                                         *)
(*                                                                         *)
(* The critical sections of _active_processes_lock contain no await, so    *)
(* the lock is always free when the event loop reaches one: entering,      *)
(* running and leaving it is part of the step of the task that does so.    *)
(* A step ends where a task suspends: while the process is being spawned,  *)
(* in communicate, in wait, in sleep.                                      *)
(*                                                                         *)
(* Errors are abstracted to the one thing control depends on: whether      *)
(* _classify_error calls them retryable (transient).                       *)
(***************************************************************************)
EXTENDS Integers, FiniteSets

CONSTANTS
    Calls,          \* invocations of run_command
    Runs,           \* workflow run ids
    NoRun,          \* a request without the X-Skyflo-Run-Id header
    RunOf,          \* the run of each call
    RetrySafe,      \* calls that are read-only (_is_retry_safe, or retry=True)
    HasFallback,    \* calls given a fallback command
    MaxAttempts,    \* COMMAND_MAX_RETRY_ATTEMPTS
    TombstoneTTL,   \* RUN_CANCEL_TOMBSTONE_TTL_SECONDS
    MaxCancels      \* bound on cancel requests per run

ASSUME CommandConstants ==
    /\ NoRun \notin Runs
    /\ RunOf \in [Calls -> Runs \cup {NoRun}]
    /\ RetrySafe \subseteq Calls
    /\ HasFallback \subseteq Calls
    /\ MaxAttempts \in Nat \ {0}
    /\ TombstoneTTL \in Nat \ {0}
    /\ MaxCancels \in Nat

VARIABLES
    call,           \* call[c]: where run_command stands
    proc,           \* proc[p]: the processes, <<call, number>>
    registered,     \* _active_processes
    tombstone,      \* tombstone[r]: age of the entry of _cancelled_runs
    canceller       \* canceller[r]: the cancel request of run r

vars == <<call, proc, registered, tombstone, canceller>>

-----------------------------------------------------------------------------

MaxSpawns == MaxAttempts + 1

Procs == Calls \X (1..MaxSpawns)

\* "termed" has been sent SIGTERM; SIGKILL follows after the grace period.
ProcState == {"none", "alive", "termed", "ended"}

CallRecord ==
    [pc : {"ready", "spawning", "running", "timing_out", "rejecting", "cancelling",
           "backoff", "done"},
     attempt : 1..MaxAttempts,
     fallback : BOOLEAN,
     spawned : 0..MaxSpawns,
     outcome : {"none", "ok", "error", "cancelled", "raised"}]

NotCancelled == -1

CancellerRecord == [pc : {"idle", "terminating"}, targets : SUBSET Procs, requests : 0..MaxCancels]

Proc(c) == <<c, call[c].spawned>>

\* _terminate_process up to its first await: SIGTERM, unless the process is gone.
Signalled(state) == IF state = "alive" THEN "termed" ELSE state

Signal(p) == proc' = [proc EXCEPT ![p] = Signalled(@)]

\* run_id in _cancelled_runs, after _prune_cancelled_runs.  Nothing reads the
\* tombstones without pruning first.
Tombstoned(r) == tombstone[r] # NotCancelled /\ tombstone[r] < TombstoneTTL

-----------------------------------------------------------------------------
(* run_command *)

Goto(c, pc) == call' = [call EXCEPT ![c].pc = pc]

Return(c, outcome) ==
    call' = [call EXCEPT ![c].pc = "done", ![c].outcome = outcome]

\* A retry loop that trusts the error class alone.
CanRetryAnything(c, transient) ==
    /\ ~call[c].fallback
    /\ transient
    /\ call[c].attempt < MaxAttempts

\* Off by one: a further attempt after the last one.
CanRetryOnceMore(c, transient) ==
    /\ c \in RetrySafe
    /\ ~call[c].fallback
    /\ transient
    /\ call[c].attempt <= MaxAttempts

CanRetry(c, transient) ==
    /\ c \in RetrySafe
    /\ ~call[c].fallback
    /\ transient
    /\ call[c].attempt < MaxAttempts

CanFallBack(c) == c \in RetrySafe /\ c \in HasFallback /\ ~call[c].fallback

\* A finally clause that forgets the registry.
UnregisterNothing(c) == registered' = registered

\* The finally clause, _unregister_process.
Unregister(c) == registered' = registered \ {Proc(c)}

\* The end of an attempt that did not succeed.
AttemptFailed(c, transient) ==
    /\ Unregister(c)
    /\ \/ /\ CanRetry(c, transient)
          /\ Goto(c, "backoff")
       \/ /\ ~CanRetry(c, transient)
          /\ CanFallBack(c)
          /\ call' = [call EXCEPT ![c].pc = "ready", ![c].attempt = 1, ![c].fallback = TRUE]
       \/ /\ ~CanRetry(c, transient)
          /\ ~CanFallBack(c)
          /\ Return(c, "error")

\* create_subprocess_exec: the process exists before the task goes on.
Spawn(c) ==
    /\ call[c].pc = "ready"
    /\ call' = [call EXCEPT ![c].pc = "spawning", ![c].spawned = @ + 1]
    /\ proc' = [proc EXCEPT ![<<c, call[c].spawned + 1>>] = "alive"]
    /\ UNCHANGED <<registered, tombstone, canceller>>

SpawnFails(c) ==
    /\ call[c].pc = "ready"
    /\ \E transient \in BOOLEAN : AttemptFailed(c, transient)
    /\ UNCHANGED <<proc, tombstone, canceller>>

\* Registration that does not look at the tombstones.
RegisterAlways(c) ==
    /\ call[c].pc = "spawning"
    /\ Goto(c, "running")
    /\ registered' = IF RunOf[c] = NoRun THEN registered ELSE registered \cup {Proc(c)}
    /\ UNCHANGED <<proc, tombstone, canceller>>

\* _register_process
Register(c) ==
    /\ call[c].pc = "spawning"
    /\ \/ /\ RunOf[c] = NoRun
          /\ Goto(c, "running")
          /\ UNCHANGED <<registered, proc>>
       \/ /\ RunOf[c] # NoRun
          /\ ~Tombstoned(RunOf[c])
          /\ Goto(c, "running")
          /\ registered' = registered \cup {Proc(c)}
          /\ UNCHANGED proc
       \/ /\ RunOf[c] # NoRun
          /\ Tombstoned(RunOf[c])
          /\ Goto(c, "rejecting")
          /\ Signal(Proc(c))
          /\ UNCHANGED registered
    /\ UNCHANGED <<tombstone, canceller>>

\* Exit code 0, or an error that _classify_error sorts by what was printed.
CommunicateReturns(c) ==
    /\ call[c].pc = "running"
    /\ proc[Proc(c)] = "ended"
    /\ \/ Return(c, "ok") /\ Unregister(c)
       \/ \E transient \in BOOLEAN : AttemptFailed(c, transient)
    /\ UNCHANGED <<proc, tombstone, canceller>>

\* communicate is awaited without a timeout.
TimeoutMissing(c) == FALSE /\ UNCHANGED vars

\* wait_for gives up on communicate and the process is terminated.
Timeout(c) ==
    /\ call[c].pc = "running"
    /\ proc[Proc(c)] # "ended"
    /\ Goto(c, "timing_out")
    /\ Signal(Proc(c))
    /\ UNCHANGED <<registered, tombstone, canceller>>

TimeoutOver(c) ==
    /\ call[c].pc = "timing_out"
    /\ proc[Proc(c)] = "ended"
    /\ AttemptFailed(c, TRUE)
    /\ UNCHANGED <<proc, tombstone, canceller>>

\* The result of a refused process; a refused fallback yields the error of the
\* primary command.
RejectOver(c) ==
    /\ call[c].pc = "rejecting"
    /\ proc[Proc(c)] = "ended"
    /\ Return(c, IF call[c].fallback THEN "error" ELSE "cancelled")
    /\ Unregister(c)
    /\ UNCHANGED <<proc, tombstone, canceller>>

BackoffOver(c) ==
    /\ call[c].pc = "backoff"
    /\ call' = [call EXCEPT ![c].pc = "ready", ![c].attempt = @ + 1]
    /\ UNCHANGED <<proc, registered, tombstone, canceller>>

\* A cancellation that forgets the process.
RequestCancelledOnly(c) ==
    /\ call[c].pc \in {"spawning", "running", "timing_out", "rejecting", "cancelling", "backoff"}
    /\ Return(c, "raised")
    /\ Unregister(c)
    /\ UNCHANGED <<proc, tombstone, canceller>>

\* The request is cancelled: a CancelledError at the await the task is in.  A
\* process that is still being spawned is killed by asyncio.  In the shielded
\* _terminate_process a second CancelledError ends the task, not the termination.
RequestCancelled(c) ==
    /\ \/ /\ call[c].pc = "spawning"
          /\ proc' = [proc EXCEPT ![Proc(c)] = "ended"]
          /\ Return(c, "raised")
          /\ Unregister(c)
       \/ /\ call[c].pc \in {"running", "timing_out", "rejecting"}
          /\ Goto(c, "cancelling")
          /\ Signal(Proc(c))
          /\ UNCHANGED registered
       \/ /\ call[c].pc \in {"cancelling", "backoff"}
          /\ Return(c, "raised")
          /\ Unregister(c)
          /\ UNCHANGED proc
    /\ UNCHANGED <<tombstone, canceller>>

CancelOver(c) ==
    /\ call[c].pc = "cancelling"
    /\ proc[Proc(c)] = "ended"
    /\ Return(c, "raised")
    /\ Unregister(c)
    /\ UNCHANGED <<proc, tombstone, canceller>>

-----------------------------------------------------------------------------
(* Processes *)

\* A process ends by itself.
ProcExits(p) ==
    /\ proc[p] = "alive"
    /\ proc' = [proc EXCEPT ![p] = "ended"]
    /\ UNCHANGED <<call, registered, tombstone, canceller>>

\* Nothing follows a SIGTERM that is ignored.
DiesNot(p) == FALSE /\ UNCHANGED vars

\* _terminate_process: the process ends on SIGTERM, or on SIGKILL after
\* COMMAND_TERMINATE_GRACE_SECONDS.
Dies(p) ==
    /\ proc[p] = "termed"
    /\ proc' = [proc EXCEPT ![p] = "ended"]
    /\ UNCHANGED <<call, registered, tombstone, canceller>>

-----------------------------------------------------------------------------
(* cancel_run_processes *)

\* Tombstone and snapshot in one critical section.
CancelRun(r) ==
    /\ canceller[r].pc = "idle"
    /\ canceller[r].requests < MaxCancels
    /\ tombstone' = [tombstone EXCEPT ![r] = 0]
    /\ canceller' = [canceller EXCEPT ![r] =
          [pc |-> "terminating", targets |-> {p \in registered : RunOf[p[1]] = r},
           requests |-> @.requests + 1]]
    /\ UNCHANGED <<call, proc, registered>>

\* gather: one _terminate_process task for each process of the snapshot.
CancelSignals(r) ==
    \E p \in canceller[r].targets :
        /\ proc[p] = "alive"
        /\ Signal(p)
        /\ UNCHANGED <<call, registered, tombstone, canceller>>

CancelRunOver(r) ==
    /\ canceller[r].pc = "terminating"
    /\ \A p \in canceller[r].targets : proc[p] = "ended"
    /\ canceller' = [canceller EXCEPT ![r].pc = "idle", ![r].targets = {}]
    /\ UNCHANGED <<call, proc, registered, tombstone>>

\* A second passes for every tombstone.
Tick ==
    /\ tombstone' = [r \in Runs |->
          IF Tombstoned(r) THEN tombstone[r] + 1 ELSE tombstone[r]]
    /\ UNCHANGED <<call, proc, registered, canceller>>

-----------------------------------------------------------------------------

Init ==
    /\ call = [c \in Calls |-> [pc |-> "ready", attempt |-> 1, fallback |-> FALSE,
                                spawned |-> 0, outcome |-> "none"]]
    /\ proc = [p \in Procs |-> "none"]
    /\ registered = {}
    /\ tombstone = [r \in Runs |-> NotCancelled]
    /\ canceller = [r \in Runs |-> [pc |-> "idle", targets |-> {}, requests |-> 0]]

\* What the task of a call does when the event loop runs it.
CallStep(c) ==
    \/ Spawn(c) \/ SpawnFails(c) \/ Register(c) \/ CommunicateReturns(c)
    \/ Timeout(c) \/ TimeoutOver(c) \/ RejectOver(c) \/ BackoffOver(c) \/ CancelOver(c)

CancelStep(r) == CancelSignals(r) \/ CancelRunOver(r)

Next ==
    \/ \E c \in Calls : CallStep(c) \/ RequestCancelled(c)
    \/ \E p \in Procs : ProcExits(p) \/ Dies(p)
    \/ \E r \in Runs : CancelRun(r) \/ CancelStep(r)
    \/ Tick

Spec == Init /\ [][Next]_vars

\* The event loop runs every task that can go on, the timers of wait_for and sleep
\* fire, and SIGKILL ends a process: a call goes on, or a process of it that is
\* being terminated dies.  Processes need not end by themselves.
FairSpec ==
    /\ Spec
    /\ \A c \in Calls : WF_vars(CallStep(c) \/ \E n \in 1..MaxSpawns : Dies(<<c, n>>))
    /\ \A r \in Runs : WF_vars(CancelStep(r))

-----------------------------------------------------------------------------
(* Properties *)

\* Type invariant.
TypeOK ==
    /\ call \in [Calls -> CallRecord]
    /\ proc \in [Procs -> ProcState]
    /\ registered \subseteq Procs
    /\ tombstone \in [Runs -> NotCancelled..TombstoneTTL]
    /\ canceller \in [Runs -> CancellerRecord]

\* A process nobody has told to stop always has a call that waits for it: no
\* timeout, retry, refusal or cancellation of run_command leaves one behind.
NoOrphan ==
    \A c \in Calls, n \in 1..MaxSpawns :
        proc[<<c, n>>] = "alive" =>
            call[c].spawned = n /\ call[c].pc \in {"spawning", "running"}

\* After cancel_run_processes has returned, and for as long as its tombstone
\* lives, no process of the run goes on: one that was spawned in the meantime has
\* not been registered yet and will be refused (comment in cancel_run_processes).
CancelledRunIsQuiet ==
    \A c \in Calls :
        LET r == RunOf[c]
        IN  /\ r # NoRun
            /\ Tombstoned(r)
            /\ canceller[r].pc = "idle"
            /\ call[c].pc = "running"
            => proc[Proc(c)] # "alive"

\* A command that changes the cluster is started at most once, a read at most
\* MaxAttempts times, and only the fallback of a read comes on top (docstring of
\* run_command: "Mutation commands are never retried or given a fallback").
StartsBounded ==
    \A c \in Calls :
        call[c].spawned <= IF c \in RetrySafe
                           THEN MaxAttempts + (IF c \in HasFallback THEN 1 ELSE 0)
                           ELSE 1

\* The registry holds exactly the current processes of the calls that wait for
\* them: an entry that outlives its call would be signalled by a later cancel
\* request, when its process id may belong to another process.
RegistryExact ==
    /\ \A p \in registered :
         /\ Proc(p[1]) = p
         /\ call[p[1]].pc \in {"running", "timing_out", "cancelling"}
    /\ \A c \in Calls :
         RunOf[c] # NoRun /\ call[c].pc \in {"running", "timing_out"} => Proc(c) \in registered

\* Every call returns: timeouts, retries, the fallback and terminations all come
\* to an end, whatever the processes do.
CallsReturn == <>(\A c \in Calls : call[c].pc = "done")

\* A cancel request is answered, and the processes it found are gone by then.
CancelReturns == \A r \in Runs : canceller[r].pc = "terminating" ~> canceller[r].pc = "idle"
=============================================================================
