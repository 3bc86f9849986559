--------------------------- MODULE SandboxRecord ---------------------------
(***************************************************************************)
(* What the daemon remembers of one sandbox, from its creation past its    *)
(* deletion: the three maps of internal/core/registry.go (live, created,   *)
(* workdirs) and the jobs of jobs.go, under the requests of service.go     *)
(* that fill and clear them: Create, Start, Run and the file operations    *)
(* (withSandbox), Launch, Stop, Delete, and Reconcile after a restart.     *)
(*                                                                         *)
(* Here the components meet, so each is reduced to what it leaves behind:  *)
(* Registry has the boots and the shared flight, Jobs the inside of a job, *)
(* Admission the capacity and the clean-up of a failed create.             *)
(***************************************************************************)
EXTENDS Naturals

CONSTANTS
  Client,  \* concurrent requests
  Job,
  Dir,     \* working directories
  Root,    \* "/", the default of defaultWorkdir
  NoDir, NoJob

VARIABLES
  vm,       \* the sandbox, at the runtime
  live,     \* it has an entry in reg.live
  made,     \* it has an entry in reg.created
  workdir,  \* its entry in reg.workdirs
  pin,      \* the workdir its creator asked for
  answered, \* history: the workdir that Create answered
  serving,  \* Reconcile is over, requests are accepted
  pc,       \* where each request is
  kind,     \* which request it is
  held,     \* the job a launch has a stream for
  tracked,  \* the jobs in the map
  stream,   \* each job's stream
  overlap   \* history: a request that adds to the record ran beside a Delete, or the create
            \* failed after the sandbox was there

maps == <<live, made, workdir>>
request == <<pc, kind, held>>
jobs == <<tracked, stream>>
vars == <<vm, maps, pin, answered, serving, request, jobs, overlap>>

At == {"idle", "creating", "caching", "pinning", "resolving", "attaching", "filling", "running",
       "opening", "registering", "dropping", "forgetting", "removing"}

Kind == {"none", "create", "start", "run", "retry", "launch", "stop", "delete"}

TypeOK ==
  /\ vm \in {"none", "up", "down", "gone"}
  /\ live \in BOOLEAN /\ made \in BOOLEAN
  /\ workdir \in Dir \cup {NoDir}
  /\ pin \in Dir \cup {NoDir} /\ answered \in Dir \cup {NoDir}
  /\ serving \in BOOLEAN
  /\ pc \in [Client -> At]
  /\ kind \in [Client -> Kind]
  /\ held \in [Client -> Job \cup {NoJob}]
  /\ tracked \subseteq {j \in Job : stream[j] # "none"}
  /\ stream \in [Job -> {"none", "open", "ended"}]
  /\ overlap \in BOOLEAN

Exists == vm \in {"up", "down"}

Init ==
  /\ vm = "none"
  /\ live = FALSE /\ made = FALSE /\ workdir = NoDir
  /\ pin = NoDir /\ answered = NoDir
  /\ serving = TRUE
  /\ pc = [r \in Client |-> "idle"]
  /\ kind = [r \in Client |-> "none"]
  /\ held = [r \in Client |-> NoJob]
  /\ tracked = {}
  /\ stream = [j \in Job |-> "none"]
  /\ overlap = FALSE

Goto(r, next) == pc' = [pc EXCEPT ![r] = next]

Over(r) ==
  /\ Goto(r, "idle")
  /\ kind' = [kind EXCEPT ![r] = "none"]
  /\ held' = [held EXCEPT ![r] = NoJob]

Begin(r, k, next) ==
  /\ pc[r] = "idle" /\ serving
  /\ kind' = [kind EXCEPT ![r] = k]
  /\ Goto(r, next)
  /\ UNCHANGED held

\* Requests that may add to the record, and a Delete past its first look.
Adding == {r \in Client : kind[r] \in {"create", "start", "run", "retry", "launch"}}

Deleting == {r \in Client : kind[r] = "delete"}
-----------------------------------------------------------------------------
(* Create *)

Create(r) ==
  /\ Begin(r, "create", "creating")
  /\ vm = "none" /\ \A q \in Client : kind[q] # "create"
  /\ pin' \in Dir \cup {NoDir}
  /\ UNCHANGED <<vm, maps, answered, serving, jobs, overlap>>

\* The sandbox is listed while CreateSandbox is still running.
Materialise(r) ==
  /\ pc[r] = "creating" /\ vm = "none"
  /\ vm' = "up"
  /\ UNCHANGED <<maps, pin, answered, serving, request, jobs, overlap>>

CreateReturns(r) ==
  /\ pc[r] = "creating" /\ vm # "none"
  /\ Goto(r, "caching")
  /\ UNCHANGED <<vm, maps, pin, answered, serving, kind, held, jobs, overlap>>

\* cleanupSandbox, best effort; it forgets nothing, although the sandbox may have been used.
CreateFails(r) ==
  /\ pc[r] = "creating"
  /\ vm' \in {vm, IF Exists THEN "gone" ELSE vm}
  /\ pin' = IF vm = "none" THEN NoDir ELSE pin
  /\ overlap' = (overlap \/ Exists)
  /\ Over(r)
  /\ UNCHANGED <<maps, answered, serving, jobs>>

\* reg.cache
Cache == live' = TRUE /\ made' = TRUE /\ UNCHANGED workdir

CreateCaches(r) ==
  /\ pc[r] = "caching"
  /\ Cache
  /\ Goto(r, "pinning")
  /\ UNCHANGED <<vm, pin, answered, serving, kind, held, jobs, overlap>>

\* mkdir of the pinned directory, or pwd of the guest's own, or the default, as they work;
\* then setWorkdir.
CreatePins(r) ==
  /\ pc[r] = "pinning"
  /\ \E d \in Dir : workdir' = d /\ answered' = d
  /\ Over(r)
  /\ UNCHANGED <<vm, live, made, pin, serving, jobs, overlap>>
-----------------------------------------------------------------------------
(* resolve, and what goes through it *)

Arrive(r) ==
  /\ \E k \in {"start", "run", "launch"} : Begin(r, k, "resolving")
  /\ vm # "none"
  /\ overlap' = (overlap \/ Deleting # {})
  /\ UNCHANGED <<vm, maps, pin, answered, serving, jobs>>

Resolved(r) ==
  \/ kind[r] \in {"start", "retry"} /\ Over(r)
  \/ kind[r] = "run" /\ Goto(r, "running") /\ UNCHANGED <<kind, held>>
  \/ kind[r] = "launch" /\ Goto(r, "opening") /\ UNCHANGED <<kind, held>>

Hit(r) ==
  /\ pc[r] = "resolving" /\ live
  /\ Resolved(r)
  /\ UNCHANGED <<vm, maps, pin, answered, serving, jobs, overlap>>

\* A miss, and GetSandbox finds it.
Look(r) ==
  /\ pc[r] = "resolving" /\ ~live
  /\ Exists
  /\ Goto(r, "attaching")
  /\ UNCHANGED <<vm, maps, pin, answered, serving, kind, held, jobs, overlap>>

\* Connect, or StartDetached of a sandbox that is down.
Attach(r) ==
  /\ pc[r] = "attaching" /\ Exists
  /\ vm' = "up"
  /\ Goto(r, "filling")
  /\ UNCHANGED <<maps, pin, answered, serving, kind, held, jobs, overlap>>

Fill(r) ==
  /\ pc[r] = "filling"
  /\ Cache
  /\ Resolved(r)
  /\ UNCHANGED <<vm, pin, answered, serving, jobs, overlap>>

\* An operation ends, or an SDK call fails: not found, down, cancelled.
GiveUp(r) ==
  /\ pc[r] \in {"resolving", "attaching", "running", "opening"}
  /\ Over(r)
  /\ UNCHANGED <<vm, maps, pin, answered, serving, jobs, overlap>>

\* withSandbox finds the sandbox down after a failure.
RunFails(r) ==
  /\ pc[r] = "running" /\ vm = "down"
  /\ Goto(r, "forgetting")
  /\ UNCHANGED <<vm, maps, pin, answered, serving, kind, held, jobs, overlap>>
-----------------------------------------------------------------------------
(* Jobs *)

\* launch has the stream.
Open(r) ==
  /\ pc[r] = "opening" /\ vm = "up"
  /\ \E j \in Job :
       /\ stream[j] = "none"
       /\ stream' = [stream EXCEPT ![j] = "open"]
       /\ held' = [held EXCEPT ![r] = j]
  /\ Goto(r, "registering")
  /\ UNCHANGED <<vm, maps, pin, answered, serving, kind, tracked, overlap>>

\* The job enters the map.
Register(r) ==
  /\ pc[r] = "registering"
  /\ tracked' = tracked \cup {held[r]}
  /\ Over(r)
  /\ UNCHANGED <<vm, maps, pin, answered, serving, stream, overlap>>

StreamEndsOnExit(j) ==
  /\ j \in tracked /\ stream[j] = "open" /\ vm = "up"
  /\ stream' = [stream EXCEPT ![j] = "ended"]
  /\ UNCHANGED <<vm, maps, pin, answered, serving, request, tracked, overlap>>

\* The process ends or the sandbox does; the drain notices.
StreamEnds(j) ==
  /\ j \in tracked /\ stream[j] = "open"
  /\ stream' = [stream EXCEPT ![j] = "ended"]
  /\ UNCHANGED <<vm, maps, pin, answered, serving, request, tracked, overlap>>

\* The janitor.
Evict(j) ==
  /\ j \in tracked /\ stream[j] = "ended"
  /\ tracked' = tracked \ {j}
  /\ UNCHANGED <<vm, maps, pin, answered, serving, request, stream, overlap>>
-----------------------------------------------------------------------------
(* Stop and Delete *)

\* h.Stop works.
Stop(r) ==
  /\ Begin(r, "stop", "forgetting")
  /\ Exists
  /\ vm' = "down"
  /\ UNCHANGED <<maps, pin, answered, serving, jobs, overlap>>

\* GetSandbox and the Stop whose error is ignored.
Delete(r) ==
  /\ Begin(r, "delete", "dropping")
  /\ vm # "none"
  /\ vm' \in {vm, IF Exists THEN "down" ELSE vm}
  /\ overlap' = (overlap \/ Adding # {})
  /\ UNCHANGED <<maps, pin, answered, serving, jobs>>

\* dropSandbox; the cancelled drains end.
Drop(r) ==
  /\ pc[r] = "dropping"
  /\ tracked' = {}
  /\ stream' = [j \in Job |-> IF j \in tracked THEN "ended" ELSE stream[j]]
  /\ Goto(r, "forgetting")
  /\ UNCHANGED <<vm, maps, pin, answered, serving, kind, held, overlap>>

\* Where a request goes on after reg.forget: withSandbox resolves again.
Forgotten(r) ==
  \/ kind[r] = "stop" /\ Over(r)
  \/ /\ kind[r] = "run"
     /\ kind' = [kind EXCEPT ![r] = "retry"]
     /\ Goto(r, "resolving") /\ UNCHANGED held
  \/ kind[r] = "delete" /\ Goto(r, "removing") /\ UNCHANGED <<kind, held>>

ForgetHandle(r) ==
  /\ pc[r] = "forgetting"
  /\ live' = FALSE
  /\ Forgotten(r)
  /\ UNCHANGED <<vm, made, workdir, pin, answered, serving, jobs, overlap>>

Forget(r) ==
  /\ pc[r] = "forgetting"
  /\ live' = FALSE /\ made' = FALSE /\ workdir' = NoDir
  /\ Forgotten(r)
  /\ UNCHANGED <<vm, pin, answered, serving, jobs, overlap>>

\* RemoveSandbox refuses one that is up.
Remove(r) ==
  /\ pc[r] = "removing"
  /\ vm' \in {vm, IF vm = "down" THEN "gone" ELSE vm}
  /\ Over(r)
  /\ UNCHANGED <<maps, pin, answered, serving, jobs, overlap>>
-----------------------------------------------------------------------------
(* The environment *)

\* Idle auto-stop, a crash.
GoesDown ==
  /\ vm = "up"
  /\ vm' = "down"
  /\ UNCHANGED <<maps, pin, answered, serving, request, jobs, overlap>>

\* The sandbox survives the daemon, nothing else does.
Restart ==
  /\ live' = FALSE /\ made' = FALSE /\ workdir' = NoDir
  /\ serving' = FALSE
  /\ pc' = [r \in Client |-> "idle"]
  /\ kind' = [r \in Client |-> "none"]
  /\ held' = [r \in Client |-> NoJob]
  /\ tracked' = {}
  /\ stream' = [j \in Job |-> IF stream[j] = "open" THEN "ended" ELSE stream[j]]
  /\ UNCHANGED <<vm, pin, answered, overlap>>

\* Reconcile lists the sandboxes; a failure is not fatal.
Reconcile ==
  /\ ~serving
  /\ made' \in {made, made \/ Exists}
  /\ serving' = TRUE
  /\ UNCHANGED <<vm, live, workdir, pin, answered, request, jobs, overlap>>
-----------------------------------------------------------------------------
RequestStep(r) ==
  \/ CreateReturns(r) \/ CreateFails(r) \/ CreateCaches(r) \/ CreatePins(r)
  \/ Hit(r) \/ Look(r) \/ Attach(r) \/ Fill(r) \/ GiveUp(r) \/ RunFails(r)
  \/ Open(r) \/ Register(r)
  \/ Drop(r) \/ Forget(r) \/ Remove(r)

Next ==
  \/ \E r \in Client :
       Create(r) \/ Materialise(r) \/ Arrive(r) \/ Stop(r) \/ Delete(r) \/ RequestStep(r)
  \/ \E j \in Job : StreamEnds(j) \/ Evict(j)
  \/ GoesDown
  \/ Restart \/ Reconcile

Spec == Init /\ [][Next]_vars

(* Goroutines run and SDK calls return; the stream of a sandbox that is gone ends, and   *)
(* the janitor comes by.  Start-up ends.                                                 *)
Fairness ==
  /\ \A r \in Client : WF_vars(RequestStep(r))
  /\ \A j \in Job : WF_vars(vm = "gone" /\ StreamEnds(j)) /\ WF_vars(Evict(j))
  /\ WF_vars(Reconcile)

FairSpec == Spec /\ Fairness
-----------------------------------------------------------------------------
(* Properties *)

\* What the daemon keeps of a deleted sandbox was put there by a request beside the Delete
\* (or before the clean-up of its failed create): drop and forget come before the removal,
\* which refuses a sandbox booted again, and nothing that begins after it can attach.
ResidueFromOverlap ==
  vm = "gone" /\ ~overlap /\ Deleting = {} /\ Adding = {} =>
    ~live /\ ~made /\ workdir = NoDir /\ tracked = {}

\* A job that a launch put into the map after dropSandbox went by does not stay: once the
\* sandbox is gone its jobs end and are evicted, although no Delete comes for them.
JobsOfGoneEnd == vm = "gone" ~> tracked = {}

\* instanceFromHandle: the stored config has no workdir, as WithWorkdir is never passed.
Reported == IF workdir # NoDir THEN workdir ELSE Root

\* "the stored config only carries an explicitly-pinned workdir": a sandbox whose pinned
\* directory Create answered is reported with it as long as it exists.
PinnedWorkdirKept == Exists /\ pin # NoDir /\ answered = pin => Reported = pin

\* "Reconcile re-attaches to every pre-existing VM at startup": once the listing worked, a
\* running sandbox has a live handle (a connection that fails would be an exception, but
\* none is tried).
ReconcileAttaches == [][~serving /\ serving' /\ made' /\ vm = "up" => live']_vars
=============================================================================
