------------------------------ MODULE Admission ------------------------------
(***************************************************************************)
(* Create under a capacity cap: internal/core/service.go (Create, count,   *)
(* listAllSandboxes, cleanupSandbox) beside PullImage of image.go, which   *)
(* boots sandboxes of its own, and Delete.                                 *)
(*                                                                         *)
(* A create counts the sandboxes on the host page by page while it holds   *)
(* the admit mutex; sandboxes keep appearing and disappearing meanwhile.   *)
(* It reserves a slot (inflight), releases the mutex, boots, and gives the *)
(* slot back in a deferred function.  The daemon may die anywhere in       *)
(* between: sandboxes are detached and survive, the bookkeeping does not.  *)
(***************************************************************************)
EXTENDS Naturals, FiniteSets

CONSTANTS
  Req,      \* concurrent Create requests
  Puller,   \* concurrent PullImage requests
  Name,     \* sandbox names (newName draws a fresh one)
  Max,      \* Service.maxSandboxes; 0 means no cap and no admission at all
  MaxPulled, \* bound: sandboxes of PullImages on the host
  NoReq,    \* nobody holds the admit mutex
  NoName

ASSUME AdmissionAssumption ==
  /\ IsFiniteSet(Req)
  /\ IsFiniteSet(Name)
  /\ Max \in Nat \ {0}
  /\ MaxPulled \in Nat
  /\ NoReq \notin Req
  /\ NoName \notin Name

VARIABLES
  vms,       \* sandboxes the runtime lists, whatever their status
  pulled,    \* history: those of vms that a PullImage booted
  inflight,  \* Service.inflight
  admit,     \* holder of Service.admit
  pc,        \* where each Create is
  seen,      \* sandboxes its count() has listed so far
  unlisted,  \* names its next pages will cover
  name,      \* the name a create has drawn
  pullVm     \* the throwaway sandbox of a PullImage

createVars == <<pc, seen, unlisted, name>>
vars == <<vms, pulled, inflight, admit, createVars, pullVm>>

At == {"idle", "waiting", "counting", "refused", "admitted", "booting", "booted",
       "probing", "cleaning", "releasing"}

\* From admission to the deferred decrement.
HoldsSlot == {"admitted", "booting", "booted", "probing", "cleaning", "releasing"}

TypeOK ==
  /\ vms \subseteq Name
  /\ pulled \subseteq vms
  /\ inflight \in Nat
  /\ admit \in Req \cup {NoReq}
  /\ pc \in [Req -> At]
  /\ seen \in [Req -> SUBSET Name]
  /\ unlisted \in [Req -> SUBSET Name]
  /\ name \in [Req -> Name \cup {NoName}]
  /\ pullVm \in [Puller -> Name \cup {NoName}]

\* The daemon starts on a host that has sandboxes, no more than the cap.
Init ==
  /\ vms \in {V \in SUBSET Name : Cardinality(V) <= Max}
  /\ pulled = {}
  /\ inflight = 0
  /\ admit = NoReq
  /\ pc = [r \in Req |-> "idle"]
  /\ seen = [r \in Req |-> {}]
  /\ unlisted = [r \in Req |-> {}]
  /\ name = [r \in Req |-> NoName]
  /\ pullVm = [p \in Puller |-> NoName]

\* newName is random: it meets no sandbox of the host and no name already drawn.
Fresh(n) ==
  /\ n \notin vms
  /\ \A r \in Req : name[r] # n
  /\ \A p \in Puller : pullVm[p] # n

Goto(r, next) == pc' = [pc EXCEPT ![r] = next]
-----------------------------------------------------------------------------
(* Admission: under the admit mutex from AdmitLock to Refuse, CountFails or Admit *)

\* A valid request reaches the mutex.
Arrive(r) ==
  /\ pc[r] = "idle"
  /\ Goto(r, "waiting")
  /\ UNCHANGED <<vms, pulled, inflight, admit, seen, unlisted, name, pullVm>>

AdmitLock(r) ==
  /\ pc[r] = "waiting"
  /\ admit = NoReq
  /\ admit' = r
  /\ seen' = [seen EXCEPT ![r] = {}]
  /\ unlisted' = [unlisted EXCEPT ![r] = Name]
  /\ Goto(r, "counting")
  /\ UNCHANGED <<vms, pulled, inflight, name, pullVm>>

\* One page of the cursor: the sandboxes that exist now among the names it covers.
ListPage(r) ==
  /\ pc[r] = "counting"
  /\ \E page \in SUBSET unlisted[r] \ {{}} :
       /\ seen' = [seen EXCEPT ![r] = @ \cup (page \cap vms)]
       /\ unlisted' = [unlisted EXCEPT ![r] = @ \ page]
  /\ UNCHANGED <<vms, pulled, inflight, admit, pc, name, pullVm>>

\* A page failed: deny rather than skip the cap.
CountFails(r) ==
  /\ pc[r] = "counting"
  /\ admit' = NoReq
  /\ seen' = [seen EXCEPT ![r] = {}]
  /\ unlisted' = [unlisted EXCEPT ![r] = {}]
  /\ Goto(r, "idle")
  /\ UNCHANGED <<vms, pulled, inflight, name, pullVm>>

Full(r) == Cardinality(seen[r]) + inflight >= Max

\* ErrCapacity.
Refuse(r) ==
  /\ pc[r] = "counting"
  /\ unlisted[r] = {}
  /\ Full(r)
  /\ admit' = NoReq
  /\ Goto(r, "refused")
  /\ UNCHANGED <<vms, pulled, inflight, seen, unlisted, name, pullVm>>

RefuseReturn(r) ==
  /\ pc[r] = "refused"
  /\ seen' = [seen EXCEPT ![r] = {}]
  /\ Goto(r, "idle")
  /\ UNCHANGED <<vms, pulled, inflight, admit, unlisted, name, pullVm>>

AdmitNoUnlock(r) ==
  /\ pc[r] = "counting"
  /\ unlisted[r] = {}
  /\ ~Full(r)
  /\ inflight' = inflight + 1
  /\ seen' = [seen EXCEPT ![r] = {}]
  /\ \E n \in Name : Fresh(n) /\ name' = [name EXCEPT ![r] = n]
  /\ Goto(r, "admitted")
  /\ UNCHANGED <<vms, pulled, admit, unlisted, pullVm>>

\* Reserve the slot and release the mutex; then draw a name.
Admit(r) ==
  /\ pc[r] = "counting"
  /\ unlisted[r] = {}
  /\ ~Full(r)
  /\ inflight' = inflight + 1
  /\ admit' = NoReq
  /\ seen' = [seen EXCEPT ![r] = {}]
  /\ \E n \in Name : Fresh(n) /\ name' = [name EXCEPT ![r] = n]
  /\ Goto(r, "admitted")
  /\ UNCHANGED <<vms, pulled, unlisted, pullVm>>
-----------------------------------------------------------------------------
(* The rest of Create, outside the mutex *)

BuildFailsLeaks(r) ==
  /\ pc[r] = "admitted"
  /\ name' = [name EXCEPT ![r] = NoName]
  /\ Goto(r, "idle")
  /\ UNCHANGED <<vms, pulled, inflight, admit, seen, unlisted, pullVm>>

\* buildCreateOptions rejects the disk size: only the deferred release is left.
BuildFails(r) ==
  /\ pc[r] = "admitted"
  /\ Goto(r, "releasing")
  /\ UNCHANGED <<vms, pulled, inflight, admit, seen, unlisted, name, pullVm>>

\* CreateSandbox is called.
Boot(r) ==
  /\ pc[r] = "admitted"
  /\ Goto(r, "booting")
  /\ UNCHANGED <<vms, pulled, inflight, admit, seen, unlisted, name, pullVm>>

\* The sandbox appears on the host while CreateSandbox is still running.
Materialise(r) ==
  /\ pc[r] = "booting"
  /\ vms' = vms \cup {name[r]}
  /\ Goto(r, "booted")
  /\ UNCHANGED <<pulled, inflight, admit, seen, unlisted, name, pullVm>>

\* CreateSandbox succeeds; the workdir is probed with mkdir and pwd.
BootReturns(r) ==
  /\ pc[r] = "booted"
  /\ Goto(r, "probing")
  /\ UNCHANGED <<vms, pulled, inflight, admit, seen, unlisted, name, pullVm>>

\* CreateSandbox fails, with or without a sandbox on the host.
BootFails(r) ==
  /\ pc[r] \in {"booting", "booted"}
  /\ Goto(r, "cleaning")
  /\ UNCHANGED <<vms, pulled, inflight, admit, seen, unlisted, name, pullVm>>

\* cleanupSandbox is best effort: its RemoveSandbox works ...
CleanupRemoves(r) ==
  /\ pc[r] = "cleaning"
  /\ vms' = vms \ {name[r]}
  /\ Goto(r, "releasing")
  /\ UNCHANGED <<pulled, inflight, admit, seen, unlisted, name, pullVm>>

\* ... or fails, and a partly created sandbox stays on the host.
CleanupFails(r) ==
  /\ pc[r] = "cleaning"
  /\ Goto(r, "releasing")
  /\ UNCHANGED <<vms, pulled, inflight, admit, seen, unlisted, name, pullVm>>

\* The workdir is known (or defaulted) and Create has its result.
Probed(r) ==
  /\ pc[r] = "probing"
  /\ Goto(r, "releasing")
  /\ UNCHANGED <<vms, pulled, inflight, admit, seen, unlisted, name, pullVm>>

ReleaseUnlocked(r) ==
  /\ pc[r] = "releasing"
  /\ inflight' = inflight - 1
  /\ name' = [name EXCEPT ![r] = NoName]
  /\ Goto(r, "idle")
  /\ UNCHANGED <<vms, pulled, admit, seen, unlisted, pullVm>>

\* The deferred function: lock, inflight--, unlock.
Release(r) ==
  /\ pc[r] = "releasing"
  /\ admit = NoReq
  /\ inflight' = inflight - 1
  /\ name' = [name EXCEPT ![r] = NoName]
  /\ Goto(r, "idle")
  /\ UNCHANGED <<vms, pulled, admit, seen, unlisted, pullVm>>
-----------------------------------------------------------------------------
(* What else changes the set of sandboxes *)

\* Delete of any sandbox on the host, those still being created included.
Delete(n) ==
  /\ n \in vms
  /\ vms' = vms \ {n}
  /\ pulled' = pulled \ {n}
  /\ UNCHANGED <<inflight, admit, createVars, pullVm>>

\* PullImage boots a throwaway sandbox, past the admission ...
PullBoot(p) ==
  /\ pullVm[p] = NoName
  /\ Cardinality(pulled) < MaxPulled
  /\ \E n \in Name :
       /\ Fresh(n)
       /\ vms' = vms \cup {n}
       /\ pulled' = pulled \cup {n}
       /\ pullVm' = [pullVm EXCEPT ![p] = n]
  /\ UNCHANGED <<inflight, admit, createVars>>

\* ... and returns: torn down, or left behind (the boot failed half way, which is not
\* cleaned up, or the best-effort removal failed).
PullReturn(p) ==
  /\ pullVm[p] # NoName
  /\ \/ vms' = vms \ {pullVm[p]} /\ pulled' = pulled \ {pullVm[p]}
     \/ UNCHANGED <<vms, pulled>>
  /\ pullVm' = [pullVm EXCEPT ![p] = NoName]
  /\ UNCHANGED <<inflight, admit, createVars>>

\* The daemon dies and comes back; detached sandboxes live on.
Restart ==
  /\ inflight' = 0
  /\ admit' = NoReq
  /\ pc' = [r \in Req |-> "idle"]
  /\ seen' = [r \in Req |-> {}]
  /\ unlisted' = [r \in Req |-> {}]
  /\ name' = [r \in Req |-> NoName]
  /\ pullVm' = [p \in Puller |-> NoName]
  /\ UNCHANGED <<vms, pulled>>
-----------------------------------------------------------------------------
CreateStep(r) ==
  \/ AdmitLock(r)
  \/ ListPage(r)
  \/ Refuse(r)
  \/ RefuseReturn(r)
  \/ Admit(r)
  \/ Boot(r)
  \/ Materialise(r)
  \/ BootReturns(r)
  \/ CleanupRemoves(r)
  \/ Probed(r)
  \/ Release(r)

CreateFault(r) ==
  \/ CountFails(r)
  \/ BuildFails(r)
  \/ BootFails(r)
  \/ CleanupFails(r)

Next ==
  \/ \E r \in Req : Arrive(r) \/ CreateStep(r) \/ CreateFault(r)
  \/ \E n \in Name : Delete(n)
  \/ \E p \in Puller : PullBoot(p) \/ PullReturn(p)
  \/ Restart

Spec == Init /\ [][Next]_vars

(* A goroutine that can run does run, the SDK calls return (CreateSandbox within       *)
(* createTO), and sync.Mutex does not starve a waiter.  Nobody owes a fault.            *)
Fairness ==
  \A r \in Req :
    /\ WF_vars(CreateStep(r))
    /\ SF_vars(AdmitLock(r) \/ Release(r))

FairSpec == Spec /\ Fairness
-----------------------------------------------------------------------------
(* Properties *)

\* Creates never fill the host beyond the cap, however their counts, boots, failures
\* and the daemon's restarts interleave ("Admission is serialized (no overshoot)").
CreatesWithinCap == Cardinality(vms \ pulled) <= Max

\* Every reserved slot is held by exactly one create between admission and its deferred
\* release: no path, early return, failure or restart leaks or double-frees a slot.
SlotsExact == inflight = Cardinality({r \in Req : pc[r] \in HoldsSlot})

\* The mutex is held exactly while somebody counts, by that request.
AdmitHeldToCount == \A r \in Req : admit = r <=> pc[r] = "counting"

\* Every create that reaches the mutex gets an answer.
CreateReturns == \A r \in Req : pc[r] = "waiting" ~> pc[r] = "idle"

\* MSBD_MAX_SANDBOXES is a "hard cap on concurrent sandboxes".
HostWithinCap == Cardinality(vms) <= Max

\* Sandboxes a refused create could have known of, each counted once: the ones its
\* count listed and the ones other creates have reserved a slot for.
Booked(r) == seen[r] \cup {name[q] : q \in {x \in Req : pc[x] \in HoldsSlot}}

\* ErrCapacity is returned "when the host is already running the configured maximum
\* number of sandboxes": a create is refused only when that many are booked.
RefusedOnlyWhenFull ==
  [][\A r \in Req :
       pc[r] = "counting" /\ pc'[r] = "refused" => Cardinality(Booked(r)) >= Max]_vars
=============================================================================
