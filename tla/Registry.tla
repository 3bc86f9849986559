------------------------------ MODULE Registry ------------------------------
(***************************************************************************)
(* The live-handle cache of one sandbox: internal/core/registry.go         *)
(* (resolve, resolveSlow, bootAndVerify, cache, forget), and the           *)
(* operations of service.go that use it: Create, which fills the cache     *)
(* outside of the singleflight, Start, Run and the file operations         *)
(* (withSandbox), Exec, Stop and Delete.  Sandboxes do not share any of    *)
(* this state except the map's mutex, so one sandbox is modelled.          *)
(*                                                                         *)
(* An incarnation is one boot of the sandbox; a handle is worth something  *)
(* only while its incarnation runs.  The handles a request holds, and the  *)
(* cached one, are therefore incarnation numbers.                          *)
(***************************************************************************)
EXTENDS Naturals

CONSTANTS
  Caller,    \* concurrent requests
  NoCaller,  \* no singleflight in progress
  MaxBoots   \* bound: incarnations per behaviour

ASSUME RegistryAssumption ==
  /\ NoCaller \notin Caller
  /\ MaxBoots \in Nat \ {0}

NoHandle == 0
Handle == 0..MaxBoots

VARIABLES
  vm,      \* the sandbox: "running" (agent up), "stopped", "halted" or "absent"
  boot,    \* the last incarnation started
  up,      \* history: the incarnations whose guest agent came up
  live,    \* Registry.live[name]
  late,    \* history: Create put it there after a later boot or beside a resolve at work
  leader,  \* the request running the singleflight function
  pc,      \* where each request is
  kind,    \* what its resolve is for: "start", "exec", "run" or the "retry" of a run
  hnd,     \* the handle a request holds
  genuine, \* history: requests whose command ran in the guest and failed there
  awake    \* history: requests during which the sandbox was running at some moment

callVars == <<pc, kind, hnd, genuine>>
sandboxVars == <<vm, boot, up>>
vars == <<sandboxVars, live, late, leader, callVars, awake>>

(* "halted": not cleanly powered off, a stale runtime is left behind, so that the  *)
(* next StartDetached reports success and boots nothing.                           *)
VmState == {"running", "stopped", "halted", "absent"}
Kind == {"none", "start", "exec", "run", "retry"}

\* An operation on the guest that failed: Run and the file operations look again, Exec
\* and a second attempt give up.
AfterFailure(k) == IF k = "run" THEN "failed" ELSE "error"

\* Inside the singleflight function.
Leading == {"recheck", "looking", "connecting", "booting", "verifying", "recovering",
            "rebooting", "reverifying", "caching", "publish"}

\* The leader between its look at the cache and its write to it.
Filling == Leading \ {"recheck", "publish"}

At == Leading \cup {"idle", "resolve", "missed", "waiting", "using", "failed", "forgetting",
                    "ok", "error", "stopGet", "stopping", "stopForget",
                    "delGet", "delStop", "delForget", "delRemove",
                    "creating", "created", "cleanStop", "cleanRemove"}

TypeOK ==
  /\ vm \in VmState
  /\ boot \in Handle
  /\ up \subseteq Handle
  /\ live \in Handle
  /\ late \in BOOLEAN
  /\ leader \in Caller \cup {NoCaller}
  /\ pc \in [Caller -> At]
  /\ kind \in [Caller -> Kind]
  /\ hnd \in [Caller -> Handle]
  /\ genuine \subseteq Caller
  /\ awake \subseteq Caller

\* The daemon has just started (Reconcile connects to nothing); the sandbox exists or
\* will be created.
Init ==
  /\ \/ vm \in {"running", "stopped", "halted"} /\ boot = 1 /\ up = {1}
     \/ vm = "absent" /\ boot = 0 /\ up = {}
  /\ live = NoHandle
  /\ late = FALSE
  /\ leader = NoCaller
  /\ pc = [c \in Caller |-> "idle"]
  /\ kind = [c \in Caller |-> "none"]
  /\ hnd = [c \in Caller |-> NoHandle]
  /\ genuine = {}
  /\ awake = {}

Goto(c, next) ==
  /\ pc' = [pc EXCEPT ![c] = next]
  /\ UNCHANGED <<kind, hnd, genuine>>

Take(c, h, next) ==
  /\ hnd' = [hnd EXCEPT ![c] = h]
  /\ pc' = [pc EXCEPT ![c] = next]
  /\ UNCHANGED <<kind, genuine>>

\* A client knows the sandbox once it has appeared.
Request(c, k, next) ==
  /\ pc[c] = "idle"
  /\ boot > 0
  /\ pc' = [pc EXCEPT ![c] = next]
  /\ kind' = [kind EXCEPT ![c] = k]
  /\ awake' = IF vm = "running" THEN awake \cup {c} ELSE awake
  /\ UNCHANGED <<sandboxVars, live, late, leader, hnd, genuine>>

\* Answer the client.
Return(c) ==
  /\ pc[c] \in {"ok", "error"}
  /\ pc' = [pc EXCEPT ![c] = "idle"]
  /\ kind' = [kind EXCEPT ![c] = "none"]
  /\ hnd' = [hnd EXCEPT ![c] = NoHandle]
  /\ genuine' = genuine \ {c}
  /\ awake' = awake \ {c}
  /\ UNCHANGED <<sandboxVars, live, late, leader>>

\* Where a request goes when its resolve ends with handle h, or with an error.
Resolved(k, h) ==
  IF h = NoHandle THEN "error" ELSE IF k = "start" THEN "ok" ELSE "using"
-----------------------------------------------------------------------------
(* resolve *)

Hit(c) ==
  /\ pc[c] = "resolve"
  /\ live # NoHandle
  /\ Take(c, live, Resolved(kind[c], live))
  /\ UNCHANGED <<sandboxVars, live, late, leader, awake>>

Miss(c) ==
  /\ pc[c] = "resolve"
  /\ live = NoHandle
  /\ Goto(c, "missed")
  /\ UNCHANGED <<sandboxVars, live, late, leader, awake>>

\* group.Do: the first one in leads ...
Lead(c) ==
  /\ pc[c] = "missed"
  /\ leader = NoCaller
  /\ leader' = c
  /\ Goto(c, "recheck")
  /\ UNCHANGED <<sandboxVars, live, late, awake>>

\* ... the others wait for its result.
Join(c) ==
  /\ pc[c] = "missed"
  /\ leader # NoCaller
  /\ Goto(c, "waiting")
  /\ UNCHANGED <<sandboxVars, live, late, leader, awake>>

RecheckSkipped(c) ==
  /\ pc[c] = "recheck"
  /\ Take(c, NoHandle, "looking")
  /\ UNCHANGED <<sandboxVars, live, late, leader, awake>>

\* Another flight may have cached a handle since the miss.
Recheck(c) ==
  /\ pc[c] = "recheck"
  /\ IF live # NoHandle THEN Take(c, live, "publish") ELSE Take(c, NoHandle, "looking")
  /\ UNCHANGED <<sandboxVars, live, late, leader, awake>>

\* GetSandbox: gone (or unreadable), running, or to be booted.
Look(c) ==
  /\ pc[c] = "looking"
  /\ \/ Goto(c, "publish")
     \/ vm = "running" /\ Goto(c, "connecting")
     \/ vm \in {"stopped", "halted"} /\ Goto(c, "booting")
  /\ UNCHANGED <<sandboxVars, live, late, leader, awake>>

\* Connect to the running incarnation; it fails if that has stopped meanwhile.
Connect(c) ==
  /\ pc[c] = "connecting"
  /\ \/ Goto(c, "publish")
     \/ vm = "running" /\ Take(c, boot, "caching")
  /\ UNCHANGED <<sandboxVars, live, late, leader, awake>>

\* StartDetached: an error, a boot, or a reported success that booted nothing.
Start(c, here, next) ==
  /\ pc[c] = here
  /\ \/ /\ Goto(c, "publish")
        /\ UNCHANGED <<sandboxVars, awake>>
     \/ /\ vm = "stopped"
        /\ boot < MaxBoots
        /\ vm' = "running"
        /\ boot' = boot + 1
        /\ up' = up \cup {boot + 1}
        /\ awake' = awake \cup {d \in Caller : pc[d] # "idle"}
        /\ Take(c, boot + 1, next)
     \/ /\ vm = "halted"
        /\ boot < MaxBoots
        /\ boot' = boot + 1
        /\ Take(c, boot + 1, next)
        /\ UNCHANGED <<vm, up, awake>>
  /\ UNCHANGED <<live, late, leader>>

VerifyNothing(c, here, fallback) ==
  /\ pc[c] = here
  /\ Goto(c, "caching")
  /\ UNCHANGED <<sandboxVars, live, late, leader, awake>>

\* verifyAgentUp: the guest agent answers, or the probe gives up (a guest that is
\* down, or one too slow for the deadline).
Verify(c, here, fallback) ==
  /\ pc[c] = here
  /\ \/ vm = "running" /\ Goto(c, "caching")
     \/ Take(c, NoHandle, fallback)
  /\ UNCHANGED <<sandboxVars, live, late, leader, awake>>

\* Detach and Kill, best effort: clears a stale runtime, stops a slow guest.
Recover(c) ==
  /\ pc[c] = "recovering"
  /\ \/ vm \in {"running", "halted"} /\ vm' = "stopped"
     \/ UNCHANGED vm
  /\ Goto(c, "rebooting")
  /\ UNCHANGED <<boot, up, live, late, leader, awake>>

Cache(c) ==
  /\ pc[c] = "caching"
  /\ live' = hnd[c]
  /\ late' = FALSE
  /\ Goto(c, "publish")
  /\ UNCHANGED <<sandboxVars, leader, awake>>

PublishToLeaderOnly(c) ==
  /\ pc[c] = "publish"
  /\ leader' = NoCaller
  /\ Take(c, hnd[c], Resolved(kind[c], hnd[c]))
  /\ UNCHANGED <<sandboxVars, live, late, awake>>

\* The function returns: the leader and everybody who waits share its result.
Publish(c) ==
  LET done == {c} \cup {d \in Caller : pc[d] = "waiting"} IN
  /\ pc[c] = "publish"
  /\ leader' = NoCaller
  /\ hnd' = [d \in Caller |-> IF d \in done THEN hnd[c] ELSE hnd[d]]
  /\ pc' = [d \in Caller |-> IF d \in done THEN Resolved(kind[d], hnd[c]) ELSE pc[d]]
  /\ UNCHANGED <<sandboxVars, live, late, kind, genuine, awake>>
-----------------------------------------------------------------------------
(* withSandbox *)

\* The operation on the guest. Through a handle of the running incarnation it succeeds
\* or fails in the guest; through any other handle it fails without reaching it.
Use(c) ==
  /\ pc[c] = "using"
  /\ \/ /\ vm = "running" /\ hnd[c] = boot
        /\ Goto(c, "ok")
     \/ /\ vm = "running" /\ hnd[c] = boot
        /\ pc' = [pc EXCEPT ![c] = AfterFailure(kind[c])]
        /\ genuine' = genuine \cup {c}
        /\ UNCHANGED <<kind, hnd>>
     \/ /\ ~(vm = "running" /\ hnd[c] = boot)
        /\ Goto(c, AfterFailure(kind[c]))
  /\ UNCHANGED <<sandboxVars, live, late, leader, awake>>

\* GetSandbox after the failure: only a sandbox that exists and is down is retried.
Check(c) ==
  /\ pc[c] = "failed"
  /\ \/ Goto(c, "error")
     \/ vm \in {"stopped", "halted"} /\ Goto(c, "forgetting")
  /\ UNCHANGED <<sandboxVars, live, late, leader, awake>>

Retry(c) ==
  /\ pc[c] = "forgetting"
  /\ live' = NoHandle
  /\ late' = FALSE
  /\ pc' = [pc EXCEPT ![c] = "resolve"]
  /\ kind' = [kind EXCEPT ![c] = "retry"]
  /\ hnd' = [hnd EXCEPT ![c] = NoHandle]
  /\ UNCHANGED <<sandboxVars, leader, genuine, awake>>
-----------------------------------------------------------------------------
(* Create *)

\* The name is new, so a sandbox is created by one request.
Create(c) ==
  /\ pc[c] = "idle"
  /\ boot = 0 /\ \A d \in Caller : pc[d] = "idle"
  /\ Goto(c, "creating")
  /\ UNCHANGED <<sandboxVars, live, late, leader, awake>>

\* CreateSandbox boots the first incarnation before it returns.
Materialise(c) ==
  /\ pc[c] = "creating"
  /\ boot = 0
  /\ vm' = "running" /\ boot' = 1 /\ up' = up \cup {1}
  /\ awake' = awake \cup {d \in Caller : pc[d] # "idle"}
  /\ UNCHANGED <<live, late, leader, callVars>>

CreateReturns(c) ==
  /\ pc[c] = "creating"
  /\ boot > 0
  /\ Take(c, 1, "created")
  /\ UNCHANGED <<sandboxVars, live, late, leader, awake>>

\* s.reg.cache, whatever has become of the sandbox since: nothing holds a resolve off.
\* The calls in the guest that follow are best effort.
CreateCache(c) ==
  /\ pc[c] = "created"
  /\ live' = hnd[c]
  /\ late' = (hnd[c] # boot \/ \E d \in Caller : pc[d] \in Filling)
  /\ Goto(c, "ok")
  /\ UNCHANGED <<sandboxVars, leader, awake>>

\* An error of CreateSandbox, or its time-out: cleanupSandbox looks for what there is.
CreateFails(c) ==
  /\ pc[c] = "creating"
  /\ \/ vm # "absent" /\ Goto(c, "cleanStop")
     \/ Goto(c, "cleanRemove")
  /\ UNCHANGED <<sandboxVars, live, late, leader, awake>>

\* The results of both calls are ignored.
CleanStop(c) ==
  /\ pc[c] = "cleanStop"
  /\ \/ vm = "running" /\ vm' = "stopped"
     \/ UNCHANGED vm
  /\ Goto(c, "cleanRemove")
  /\ UNCHANGED <<boot, up, live, late, leader, awake>>

CleanRemove(c) ==
  /\ pc[c] = "cleanRemove"
  /\ \/ vm \in {"stopped", "halted"} /\ vm' = "absent"
     \/ UNCHANGED vm
  /\ Goto(c, "error")
  /\ UNCHANGED <<boot, up, live, late, leader, awake>>
-----------------------------------------------------------------------------
(* Stop, Delete, and the sandbox itself *)

StopGet(c) ==
  /\ pc[c] = "stopGet"
  /\ \/ Goto(c, "error")
     \/ vm # "absent" /\ Goto(c, "stopping")
  /\ UNCHANGED <<sandboxVars, live, late, leader, awake>>

\* h.Stop fails (the handle is then kept) or leaves the sandbox stopped.
Stop(c) ==
  /\ pc[c] = "stopping"
  /\ \/ Goto(c, "error") /\ UNCHANGED vm
     \/ /\ vm # "absent"
        /\ vm' = IF vm = "running" THEN "stopped" ELSE vm
        /\ Goto(c, "stopForget")
  /\ UNCHANGED <<boot, up, live, late, leader, awake>>

StopForget(c) ==
  /\ pc[c] = "stopForget"
  /\ live' = NoHandle
  /\ late' = FALSE
  /\ Goto(c, "ok")
  /\ UNCHANGED <<sandboxVars, leader, awake>>

DeleteGet(c) ==
  /\ pc[c] = "delGet"
  /\ Goto(c, IF vm = "running" THEN "delStop" ELSE "delForget")
  /\ UNCHANGED <<sandboxVars, live, late, leader, awake>>

\* The result of Stop is ignored.
DeleteStop(c) ==
  /\ pc[c] = "delStop"
  /\ \/ vm = "running" /\ vm' = "stopped"
     \/ UNCHANGED vm
  /\ Goto(c, "delForget")
  /\ UNCHANGED <<boot, up, live, late, leader, awake>>

DeleteForget(c) ==
  /\ pc[c] = "delForget"
  /\ live' = NoHandle
  /\ late' = FALSE
  /\ Goto(c, "delRemove")
  /\ UNCHANGED <<sandboxVars, leader, awake>>

\* RemoveSandbox refuses a running box, and may fail on any other.
DeleteRemove(c) ==
  /\ pc[c] = "delRemove"
  /\ \/ Goto(c, "error") /\ UNCHANGED vm
     \/ vm \in {"stopped", "halted"} /\ vm' = "absent" /\ Goto(c, "ok")
  /\ UNCHANGED <<boot, up, live, late, leader, awake>>

\* Idle auto-stop, or a crash of the guest.
GoDown ==
  /\ vm = "running"
  /\ vm' \in {"stopped", "halted"}
  /\ UNCHANGED <<boot, up, live, late, leader, callVars, awake>>

\* The daemon dies and comes back with an empty registry; the sandbox is detached.
Restart ==
  /\ live' = NoHandle
  /\ late' = FALSE
  /\ leader' = NoCaller
  /\ pc' = [c \in Caller |-> "idle"]
  /\ kind' = [c \in Caller |-> "none"]
  /\ hnd' = [c \in Caller |-> NoHandle]
  /\ genuine' = {}
  /\ awake' = {}
  /\ UNCHANGED sandboxVars
-----------------------------------------------------------------------------
Arrive(c) ==
  \/ Create(c)
  \/ Request(c, "start", "resolve")
  \/ Request(c, "exec", "resolve")
  \/ Request(c, "run", "resolve")
  \/ Request(c, "none", "stopGet")
  \/ Request(c, "none", "delGet")

ResolveStep(c) ==
  \/ Hit(c)
  \/ Miss(c)
  \/ Lead(c)
  \/ Join(c)
  \/ Recheck(c)
  \/ Look(c)
  \/ Connect(c)
  \/ Start(c, "booting", "verifying")
  \/ Verify(c, "verifying", "recovering")
  \/ Recover(c)
  \/ Start(c, "rebooting", "reverifying")
  \/ Verify(c, "reverifying", "publish")
  \/ Cache(c)
  \/ Publish(c)

CreateStep(c) ==
  \/ Materialise(c)
  \/ CreateReturns(c)
  \/ CreateCache(c)
  \/ CreateFails(c)
  \/ CleanStop(c)
  \/ CleanRemove(c)

ServiceStep(c) ==
  \/ Use(c)
  \/ Check(c)
  \/ Retry(c)
  \/ StopGet(c)
  \/ Stop(c)
  \/ StopForget(c)
  \/ DeleteGet(c)
  \/ DeleteStop(c)
  \/ DeleteForget(c)
  \/ DeleteRemove(c)
  \/ Return(c)

Next ==
  \/ \E c \in Caller : Arrive(c) \/ ResolveStep(c) \/ CreateStep(c) \/ ServiceStep(c)
  \/ GoDown
  \/ Restart

Spec == Init /\ [][Next]_vars

(* Every goroutine that can take a step takes one: the SDK calls return, with an error *)
(* at the latest when their context ends.                                              *)
FairSpec == Spec /\ \A c \in Caller : WF_vars(ResolveStep(c) \/ CreateStep(c) \/ ServiceStep(c))
-----------------------------------------------------------------------------
(* Properties *)

\* One boot or connect at a time: whoever is inside the singleflight function leads it,
\* so no request boots, kills or caches while another one does.
OneFlight == \A c \in Caller : pc[c] \in Leading <=> leader = c

\* The cached handle is never the handle of a guest that never came up: what
\* bootAndVerify is for, whatever the guest does between its two attempts.
NoDeadHandle == live # NoHandle => live \in up

\* While the sandbox runs, a cached handle belongs to the running incarnation, unless
\* Create cached it after another incarnation had started or beside a resolve at work.
\* No boot, recovery or retry of a resolve leaves a stale handle behind: each has a
\* sandbox that is down, which is the only case withSandbox heals.
StuckOnlyByCreate == vm = "running" /\ live # NoHandle /\ ~late => live = boot

\* "resolve returns a live, RUNNING *Sandbox handle", and the group "serializes
\* resolve()/create admission per sandbox name": the cached handle of a running sandbox
\* is the handle of the running incarnation.  A stale one fails every request until the
\* sandbox goes down or is stopped.
NoStuckHandle == vm = "running" /\ live # NoHandle => live = boot

\* Every request is answered, the ones that joined another one's flight included.
RequestsReturn == \A c \in Caller : pc[c] # "idle" ~> pc[c] = "idle"

\* resolve answers "ErrNotFound if gone": once nobody is at work any more, a deleted
\* sandbox has no cached handle (which resolve would hand out without asking).
NoHandleForGoneVM ==
  vm = "absent" /\ (\A c \in Caller : pc[c] = "idle") => live = NoHandle

\* "The liveness re-check keeps a genuine in-guest failure from being masked or the
\* command double-run": a command that failed in the guest is not run again.
NotRunTwice == \A c \in Caller : ~(c \in genuine /\ kind[c] = "retry" /\ pc[c] = "using")

\* "Start is an idempotent ensure-running" and resolve "returns a live, RUNNING handle":
\* a start only reports success if the sandbox ran at some moment of the request.
StartEnsuresRunning ==
  \A c \in Caller : kind[c] = "start" /\ pc[c] = "ok" => c \in awake
=============================================================================
