-------------------------------- MODULE Jobs --------------------------------
(***************************************************************************)
(* Background jobs: internal/core/jobs.go.                                 *)
(*                                                                         *)
(* Every launched job has a drain goroutine that owns the SDK exec stream, *)
(* and any number of HTTP requests (Caller) that launch, cancel, signal or *)
(* drop jobs at the same time.  They meet in three locks of the code:      *)
(*   r.mu        the job map: one step of this module per critical section *)
(*   j.mu        state, finishedAt: likewise one step                      *)
(*   j.handleMu  held ACROSS the SDK's Kill, Signal and Close, so it is a  *)
(*               variable, and its holders are between two steps           *)
(* Recv is called without handleMu; a drain in "recv" is parked in it.     *)
(***************************************************************************)

CONSTANTS
  Job,        \* job ids that may be minted (random, so never reused)
  Sandbox,    \* sandbox ids
  SandboxOf,  \* the sandbox half of the map key "sandboxID\0jobID"
  Caller,     \* concurrent HTTP requests
  NoJob       \* the target of a request that has none

ASSUME JobsAssumption ==
  /\ SandboxOf \in [Job -> Sandbox]
  /\ NoJob \notin Job
  /\ {"free", "drain"} \cap Caller = {}

VARIABLES
  tracked,    \* keys of JobRegistry.jobs
  state,      \* job.state
  finished,   \* job.finishedAt is not the zero time
  cancelled,  \* jobs whose drain context is cancelled
  closed,     \* job.closed
  ended,      \* history: processes that reported their end, or were sent a Kill
  drain,      \* where the drain goroutine is
  event,      \* what Recv handed to the drain last; a final event stays
  handleMu,   \* who holds job.handleMu
  pc,         \* where each request is
  target,     \* the job it holds a pointer to
  victims     \* dropSandbox: jobs collected and not yet killed

jobVars == <<tracked, state, finished, cancelled, closed, ended>>
drainVars == <<drain, event>>
callVars == <<pc, target, victims>>
vars == <<jobVars, drainVars, handleMu, callVars>>

\* The events by which the guest says that the process is over.
ProcessEnd == {"exited", "failed", "done"}
FinalEvent == ProcessEnd \cup {"error"}
JobState == {"unborn", "running", "done", "dead", "killed", "lost"}
DrainAt == {"none", "recv", "apply", "unwind", "closing", "ended"}
CallAt == {"idle", "streamed", "lookedUp", "cancelling", "locking", "killing",
           "marking", "returned", "sigLocking", "signalling", "dropping"}

TypeOK ==
  /\ tracked \subseteq Job
  /\ state \in [Job -> JobState]
  /\ finished \in [Job -> BOOLEAN]
  /\ cancelled \subseteq Job
  /\ closed \subseteq Job
  /\ ended \subseteq Job
  /\ drain \in [Job -> DrainAt]
  /\ event \in [Job -> FinalEvent \cup {"none", "output"}]
  /\ handleMu \in [Job -> Caller \cup {"free", "drain"}]
  /\ pc \in [Caller -> CallAt]
  /\ target \in [Caller -> Job \cup {NoJob}]
  /\ victims \in [Caller -> SUBSET Job]

Init ==
  /\ tracked = {}
  /\ state = [j \in Job |-> "unborn"]
  /\ finished = [j \in Job |-> FALSE]
  /\ cancelled = {}
  /\ closed = {}
  /\ ended = {}
  /\ drain = [j \in Job |-> "none"]
  /\ event = [j \in Job |-> "none"]
  /\ handleMu = [j \in Job |-> "free"]
  /\ pc = [c \in Caller |-> "idle"]
  /\ target = [c \in Caller |-> NoJob]
  /\ victims = [c \in Caller |-> {}]

\* poll: what GET .../jobs/{id} answers.
Poll(j) ==
  IF j \in tracked THEN state[j]
  ELSE IF state[j] = "unborn" THEN "unborn" ELSE "gone"

\* A request moves on, keeping its job pointer.
Advance(c, next) ==
  /\ pc' = [pc EXCEPT ![c] = next]
  /\ UNCHANGED <<target, victims>>

\* A request enters the registry with a pointer to j.
Enter(c, next, j) ==
  /\ pc[c] = "idle"
  /\ pc' = [pc EXCEPT ![c] = next]
  /\ target' = [target EXCEPT ![c] = j]
  /\ UNCHANGED victims

\* A request answers its client.
Leave(c) ==
  /\ pc' = [pc EXCEPT ![c] = "idle"]
  /\ target' = [target EXCEPT ![c] = NoJob]
  /\ UNCHANGED victims
-----------------------------------------------------------------------------
(* launch *)

\* ShellStream returned a handle: the process runs, the map does not know it yet.
LaunchStream(c, j) ==
  /\ state[j] = "unborn"
  /\ \A d \in Caller : target[d] # j
  /\ Enter(c, "streamed", j)
  /\ UNCHANGED <<jobVars, drainVars, handleMu>>

\* The entry goes into the map and the drain goroutine starts.
LaunchRegister(c) ==
  /\ pc[c] = "streamed"
  /\ tracked' = tracked \cup {target[c]}
  /\ state' = [state EXCEPT ![target[c]] = "running"]
  /\ drain' = [drain EXCEPT ![target[c]] = "recv"]
  /\ Leave(c)
  /\ UNCHANGED <<finished, cancelled, closed, ended, event, handleMu>>
-----------------------------------------------------------------------------
(* drain *)

\* Recv returned e. The event is in hand, j.mu is not taken yet.
Recv(j, e) ==
  /\ drain[j] = "recv"
  /\ drain' = [drain EXCEPT ![j] = "apply"]
  /\ event' = [event EXCEPT ![j] = e]
  /\ ended' = IF e \in ProcessEnd THEN ended \cup {j} ELSE ended
  /\ UNCHANGED <<tracked, state, finished, cancelled, closed, handleMu, callVars>>

\* A piece of output, of which there may be any number.
RecvOutput(j) == Recv(j, "output")

\* The stream ends: exit, spawn failure, end of stream, or an error (a broken
\* stream, or the cancelled context).
RecvFinal(j) == \E e \in FinalEvent : Recv(j, e)

ApplyOutput(j) ==
  /\ drain[j] = "apply"
  /\ event[j] = "output"
  /\ drain' = [drain EXCEPT ![j] = "recv"]
  /\ event' = [event EXCEPT ![j] = "none"]
  /\ UNCHANGED <<jobVars, handleMu, callVars>>

OutcomeOfAny(e, s) == IF e \in {"exited", "done"} THEN "done" ELSE "dead"

\* The state a final event leaves: exited and failed overwrite whatever is there,
\* end of stream and errors (markFinished) only replace "running".
OutcomeOf(e, s) ==
  IF e = "exited" THEN "done"
  ELSE IF e = "failed" THEN "dead"
  ELSE IF s # "running" THEN s
  ELSE IF e = "done" THEN "done"
  ELSE "dead"

ApplyFinal(j) ==
  /\ drain[j] = "apply"
  /\ event[j] \in FinalEvent
  /\ state' = [state EXCEPT ![j] = OutcomeOf(event[j], @)]
  /\ finished' = [finished EXCEPT ![j] = TRUE]
  /\ drain' = [drain EXCEPT ![j] = "unwind"]
  /\ UNCHANGED <<tracked, cancelled, closed, ended, event, handleMu, callVars>>

\* The deferred function: take handleMu, mark closed ...
DrainLock(j) ==
  /\ drain[j] = "unwind"
  /\ handleMu[j] = "free"
  /\ handleMu' = [handleMu EXCEPT ![j] = "drain"]
  /\ closed' = closed \cup {j}
  /\ drain' = [drain EXCEPT ![j] = "closing"]
  /\ UNCHANGED <<tracked, state, finished, cancelled, ended, event, callVars>>

\* ... and Close the handle before letting go of the lock.
DrainClose(j) ==
  /\ drain[j] = "closing"
  /\ handleMu' = [handleMu EXCEPT ![j] = "free"]
  /\ drain' = [drain EXCEPT ![j] = "ended"]
  /\ UNCHANGED <<jobVars, event, callVars>>
-----------------------------------------------------------------------------
(* cancelJob, and the Kill it shares with dropSandbox *)

CancelLookup(c, j) ==
  /\ j \in tracked
  /\ Enter(c, "lookedUp", j)
  /\ UNCHANGED <<jobVars, drainVars, handleMu>>

CancelFinished(c) ==
  /\ pc[c] = "lookedUp"
  /\ state[target[c]] # "running"
  /\ Leave(c)
  /\ UNCHANGED <<jobVars, drainVars, handleMu>>

CancelAnyState(c) ==
  /\ pc[c] = "lookedUp"
  /\ Advance(c, "cancelling")
  /\ UNCHANGED <<jobVars, drainVars, handleMu>>

CancelRunning(c) ==
  /\ pc[c] = "lookedUp"
  /\ state[target[c]] = "running"
  /\ Advance(c, "cancelling")
  /\ UNCHANGED <<jobVars, drainVars, handleMu>>

KillWithoutCancel(c) ==
  /\ pc[c] = "cancelling"
  /\ UNCHANGED cancelled
  /\ Advance(c, "locking")
  /\ UNCHANGED <<tracked, state, finished, closed, ended, drainVars, handleMu>>

\* cancel() first: it unblocks the drain's Recv so that the Kill can be acknowledged.
CancelContext(c) ==
  /\ pc[c] = "cancelling"
  /\ cancelled' = cancelled \cup {target[c]}
  /\ Advance(c, "locking")
  /\ UNCHANGED <<tracked, state, finished, closed, ended, drainVars, handleMu>>

UsableAlways(j) == TRUE

\* The guard of every SDK call under handleMu.
Usable(j) == j \notin closed

\* Where a request goes once it has dealt with the handle: cancelJob on to mark the
\* job, dropSandbox on to its next victim.
AfterKill(c) ==
  /\ pc' = [pc EXCEPT ![c] = IF victims[c] = {} THEN "marking"
                             ELSE IF victims[c] = {target[c]} THEN "idle"
                             ELSE "dropping"]
  /\ victims' = [victims EXCEPT ![c] = @ \ {target[c]}]
  /\ target' = [target EXCEPT ![c] = IF victims[c] = {} THEN @ ELSE NoJob]

\* Lock handleMu and call Kill.
KillLock(c) ==
  /\ pc[c] = "locking"
  /\ handleMu[target[c]] = "free"
  /\ Usable(target[c])
  /\ handleMu' = [handleMu EXCEPT ![target[c]] = c]
  /\ ended' = ended \cup {target[c]}
  /\ Advance(c, "killing")
  /\ UNCHANGED <<tracked, state, finished, cancelled, closed, drainVars>>

\* The drain closed the handle already: lock, look, unlock.
KillSkip(c) ==
  /\ pc[c] = "locking"
  /\ handleMu[target[c]] = "free"
  /\ ~Usable(target[c])
  /\ AfterKill(c)
  /\ UNCHANGED <<jobVars, drainVars, handleMu>>

KillReturnLocked(c) ==
  /\ pc[c] = "killing"
  /\ AfterKill(c)
  /\ UNCHANGED <<jobVars, drainVars, handleMu>>

\* Kill returned, acknowledged or after jobKillTimeout; the result is ignored.
KillReturn(c) ==
  /\ pc[c] = "killing"
  /\ handleMu' = [handleMu EXCEPT ![target[c]] = "free"]
  /\ AfterKill(c)
  /\ UNCHANGED <<jobVars, drainVars>>

MarkKilledNoTime(c) ==
  /\ pc[c] = "marking"
  /\ state' = [state EXCEPT ![target[c]] = "killed"]
  /\ Advance(c, "returned")
  /\ UNCHANGED <<tracked, finished, cancelled, closed, ended, drainVars, handleMu>>

\* Unconditional: whatever the drain wrote meanwhile is overwritten.
MarkKilled(c) ==
  /\ pc[c] = "marking"
  /\ state' = [state EXCEPT ![target[c]] = "killed"]
  /\ finished' = [finished EXCEPT ![target[c]] = TRUE]
  /\ Advance(c, "returned")
  /\ UNCHANGED <<tracked, cancelled, closed, ended, drainVars, handleMu>>

CancelReturn(c) ==
  /\ pc[c] = "returned"
  /\ Leave(c)
  /\ UNCHANGED <<jobVars, drainVars, handleMu>>
-----------------------------------------------------------------------------
(* signal (with a positive number; the others are cancelJob) *)

SignalLookup(c, j) ==
  /\ j \in tracked
  /\ Enter(c, "sigLocking", j)
  /\ UNCHANGED <<jobVars, drainVars, handleMu>>

SignalLock(c) ==
  /\ pc[c] = "sigLocking"
  /\ handleMu[target[c]] = "free"
  /\ Usable(target[c])
  /\ handleMu' = [handleMu EXCEPT ![target[c]] = c]
  /\ Advance(c, "signalling")
  /\ UNCHANGED <<jobVars, drainVars>>

SignalSkipLocked(c) ==
  /\ pc[c] = "sigLocking"
  /\ handleMu[target[c]] = "free"
  /\ ~Usable(target[c])
  /\ handleMu' = [handleMu EXCEPT ![target[c]] = c]
  /\ Leave(c)
  /\ UNCHANGED <<jobVars, drainVars>>

SignalSkip(c) ==
  /\ pc[c] = "sigLocking"
  /\ handleMu[target[c]] = "free"
  /\ ~Usable(target[c])
  /\ Leave(c)
  /\ UNCHANGED <<jobVars, drainVars, handleMu>>

\* Signal returned, acknowledged or after jobSignalTimeout.
SignalReturn(c) ==
  /\ pc[c] = "signalling"
  /\ handleMu' = [handleMu EXCEPT ![target[c]] = "free"]
  /\ Leave(c)
  /\ UNCHANGED <<jobVars, drainVars>>
-----------------------------------------------------------------------------
(* dropSandbox, the janitor, a restart *)

\* Collect the sandbox's jobs and take them out of the map, under r.mu.
Drop(c, s) ==
  LET found == {j \in tracked : SandboxOf[j] = s} IN
  /\ pc[c] = "idle"
  /\ found # {}
  /\ tracked' = tracked \ found
  /\ victims' = [victims EXCEPT ![c] = found]
  /\ pc' = [pc EXCEPT ![c] = "dropping"]
  /\ UNCHANGED <<target, state, finished, cancelled, closed, ended, drainVars, handleMu>>

DropNextNoCancel(c) ==
  /\ pc[c] = "dropping"
  /\ \E j \in victims[c] : target' = [target EXCEPT ![c] = j]
  /\ pc' = [pc EXCEPT ![c] = "locking"]
  /\ UNCHANGED <<tracked, state, finished, cancelled, closed, ended, victims, drainVars, handleMu>>

\* The next victim: cancel its context, then queue for its handleMu.
DropNext(c) ==
  /\ pc[c] = "dropping"
  /\ \E j \in victims[c] :
       /\ cancelled' = cancelled \cup {j}
       /\ target' = [target EXCEPT ![c] = j]
  /\ pc' = [pc EXCEPT ![c] = "locking"]
  /\ UNCHANGED <<tracked, state, finished, closed, ended, victims, drainVars, handleMu>>

\* One janitor tick: the finished jobs older than the TTL leave the map.
Evict(S) ==
  /\ S # {}
  /\ S \subseteq {j \in tracked : finished[j]}
  /\ tracked' = tracked \ S
  /\ UNCHANGED <<state, finished, cancelled, closed, ended, drainVars, handleMu, callVars>>

\* The daemon dies and comes back: the map, the goroutines and the handles are gone.
Restart ==
  LET launched == {j \in Job : state[j] # "unborn"} IN
  /\ launched # {}
  /\ tracked' = {}
  /\ state' = [j \in Job |-> IF j \in launched THEN "lost" ELSE "unborn"]
  /\ finished' = [j \in Job |-> j \in launched]
  /\ cancelled' = {}
  /\ closed' = launched
  /\ ended' = {}
  /\ drain' = [j \in Job |-> IF j \in launched THEN "ended" ELSE "none"]
  /\ event' = [j \in Job |-> "none"]
  /\ handleMu' = [j \in Job |-> "free"]
  /\ pc' = [c \in Caller |-> "idle"]
  /\ target' = [c \in Caller |-> NoJob]
  /\ victims' = [c \in Caller |-> {}]
-----------------------------------------------------------------------------
DrainStep(j) ==
  \/ RecvOutput(j)
  \/ RecvFinal(j)
  \/ ApplyOutput(j)
  \/ ApplyFinal(j)
  \/ DrainLock(j)
  \/ DrainClose(j)

CallStart(c) ==
  \/ \E j \in Job : LaunchStream(c, j) \/ CancelLookup(c, j) \/ SignalLookup(c, j)
  \/ \E s \in Sandbox : Drop(c, s)

CallStep(c) ==
  \/ LaunchRegister(c)
  \/ CancelFinished(c)
  \/ CancelRunning(c)
  \/ CancelContext(c)
  \/ KillLock(c)
  \/ KillSkip(c)
  \/ KillReturn(c)
  \/ MarkKilled(c)
  \/ CancelReturn(c)
  \/ SignalLock(c)
  \/ SignalSkip(c)
  \/ SignalReturn(c)
  \/ DropNext(c)

Next ==
  \/ \E j \in Job : DrainStep(j)
  \/ \E c \in Caller : CallStart(c) \/ CallStep(c)
  \/ \E S \in SUBSET Job : Evict(S)
  \/ Restart

Spec == Init /\ [][Next]_vars

(* Goroutines are scheduled, SDK calls under handleMu are bounded by a 5 s context,  *)
(* and sync.Mutex hands the lock to a waiter it has starved (strong fairness). Recv  *)
(* owes an answer only once its context is cancelled, and does not prefer output to  *)
(* the cancellation for ever; clients owe nothing.                                   *)
RecvCancelled(j) == j \in cancelled /\ Recv(j, "error")

Fairness ==
  /\ \A j \in Job :
       /\ SF_vars(RecvCancelled(j))
       /\ WF_vars(ApplyOutput(j) \/ ApplyFinal(j) \/ DrainClose(j))
       /\ SF_vars(DrainLock(j))
  /\ \A c \in Caller :
       /\ WF_vars(CallStep(c))
       /\ SF_vars(KillLock(c) \/ KillSkip(c) \/ SignalLock(c) \/ SignalSkip(c))

FairSpec == Spec /\ Fairness
-----------------------------------------------------------------------------
(* Properties *)

\* Who is inside an SDK call on j's handle other than Recv.
InHandle(j) ==
  {c \in Caller : target[c] = j /\ pc[c] \in {"killing", "signalling"}}
  \cup (IF drain[j] = "closing" THEN {"drain"} ELSE {})

\* The SDK handle is not goroutine-safe and dies with Close: no two of Kill, Signal
\* and Close ever overlap on one job, and none of Kill and Signal reaches a handle the
\* drain has closed (jobs.go: handleMu plus the closed flag).
ExclusiveHandle ==
  \A j \in Job :
    /\ \A a, b \in InHandle(j) : a = b
    /\ j \in closed => InHandle(j) \subseteq {"drain"}

\* A Kill is only sent once the job's context is cancelled: before that the parked
\* Recv would swallow the acknowledgement and the Kill would burn its whole timeout
\* (the deadlock the comment on cancelJob describes).
KillAfterCancel ==
  \A c \in Caller : pc[c] = "killing" => target[c] \in cancelled

\* A job a poller sees running still has a drain that will finish it, and a job a
\* poller sees finished carries the timestamp the janitor needs to evict it: no
\* poller waits for ever on an abandoned job, no finished job stays in the map.
OutcomeRecorded ==
  \A j \in tracked :
    /\ state[j] = "running" => drain[j] \in {"recv", "apply"}
    /\ state[j] # "running" => finished[j]

\* A stream that no client can reach any more is on its way to being closed: a job
\* out of the map whose drain still runs has been finished or cancelled, or is next on
\* the list of a dropSandbox in progress.
NoOrphanStream ==
  \A j \in Job \ tracked :
    drain[j] \in {"recv", "apply"} =>
      \/ finished[j]
      \/ j \in cancelled
      \/ \E c \in Caller : j \in victims[c]

\* Nobody walks away with handleMu: whoever holds it is inside the one SDK call it was
\* taken for, and not waiting for anything else of this module.  No request and no drain
\* ever queues for a lock that nobody will release.
HandleMuReturned ==
  \A j \in Job :
    /\ handleMu[j] = "drain" => drain[j] = "closing"
    /\ \A c \in Caller :
         handleMu[j] = c => target[c] = j /\ pc[c] \in {"killing", "signalling"}

\* Requests that have seen the job running and have yet to mark it killed.
Cancelling(j) ==
  {c \in Caller : /\ target[c] = j
                  /\ victims[c] = {}
                  /\ pc[c] \in {"cancelling", "locking", "killing", "marking"}}

\* The outcome can still be replaced: by the drain until it has applied its last event,
\* or by a cancel that passed its check.
Open(j) == drain[j] \in {"recv", "apply"} \/ Cancelling(j) # {}

Lifecycle == INSTANCE JobLifecycle
               WITH status <- [j \in Job |-> Poll(j)],
                    open <- [j \in Job |-> Open(j)]

\* What pollers see follows the abstract contract: never back to running, never back
\* from gone, and an outcome that has settled is final although cancel, signal, drop,
\* the janitor and the drain race with each other.
LifecycleSpec == Lifecycle!Spec

\* Every cancelled or dropped job lets go of its SDK handle (no leaked stream).
CancelReleases ==
  \A j \in Job : j \in cancelled ~> drain[j] = "ended"

\* Cancel, signal and delete requests come back whatever the guest does.
CallsReturn ==
  \A c \in Caller : pc[c] # "idle" ~> pc[c] = "idle"

\* What a cancel that found its job running can promise when it returns: the process was
\* sent a Kill, or has reported its end, or the drain has closed the handle; and the job is
\* killed for good or for now, unless the guest itself reported an exit or a failure, which
\* the drain applied over the kill.  The end of the stream and the error of the cancelled
\* context never take the kill back, in whatever order the two goroutines come.
CancelOutcome ==
  \A c \in Caller :
    pc[c] = "returned" =>
      LET j == target[c] IN
      /\ j \in ended \cup closed
      /\ state[j] = "killed" \/ (drain[j] \notin {"recv", "apply"}
                                /\ event[j] \in {"exited", "failed"})

\* CancelJob "marks the job JobKilled so the caller can tell a cancellation apart from
\* a clean exit 0": when a cancel that stopped a running job returns, the job is killed.
CancelMarksKilled ==
  \A c \in Caller : pc[c] = "returned" => state[target[c]] = "killed"

\* cancelJob "terminates a running job deterministically": when it returns, the process
\* has ended or was at least sent a Kill.
CancelTerminates ==
  \A c \in Caller : pc[c] = "returned" => target[c] \in ended
=============================================================================
