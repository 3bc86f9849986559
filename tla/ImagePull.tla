----------------------------- MODULE ImagePull -----------------------------
(***************************************************************************)
(* Pulls of one image reference: PullImage of internal/core/image.go, run  *)
(* in a goroutine of the dashboard's imagePull handler (handlers_image.go) *)
(* or in the API's handleImagePull, beside removals from the cache and a   *)
(* registry whose tag moves.                                               *)
(*                                                                         *)
(* A pull boots a throwaway sandbox, reads the cached image back and tears *)
(* the box down.  The boot looks the tag up, downloads what it pointed to  *)
(* and writes the cache, which takes minutes: other pulls, removals and    *)
(* pushes go on beside each of the three.  A panel watches its goroutine   *)
(* by a channel of one place until the outcome is there or its client is   *)
(* gone.                                                                   *)
(***************************************************************************)
EXTENDS Naturals

CONSTANTS
  Panel,   \* pulls started from the dashboard
  Api,     \* pulls started by REST requests
  Digest   \* manifests the tag may point to

None == 0  \* no image: not cached, or not read back

Pull == Panel \cup Api

VARIABLES
  registry,  \* what the tag points to
  cached,    \* the local copy
  handler,   \* where each request is
  worker,    \* where each PullImage is
  fetch,     \* the manifest each is downloading
  force,     \* the request wants a newer copy
  prior,     \* the digest a panel found cached before
  result,    \* what PullImage returned
  done,      \* a result is in the panel's channel
  box,       \* the current pulls whose throwaway sandbox exists
  note,      \* what the panel said
  seen,      \* history: what the tag has pointed to since a panel's boot began
  beside,    \* history: what other pulls were downloading when it began
  leaked     \* history: those whose boot or teardown failed

image == <<registry, cached, seen, beside>>
request == <<handler, force, prior, note>>
pull == <<worker, fetch, result, done, box, leaked>>
vars == <<image, request, pull>>

TypeOK ==
  /\ registry \in Digest
  /\ cached \in Digest \cup {None}
  /\ handler \in [Pull -> {"idle", "asked", "inspected", "watching", "blocked", "over"}]
  /\ worker \in [Pull -> {"none", "resolving", "fetching", "booting", "booted", "cleaning",
                       "sending"}]
  /\ fetch \in [Pull -> Digest \cup {None}]
  /\ force \in [Pull -> BOOLEAN]
  /\ prior \in [Pull -> Digest \cup {None}]
  /\ result \in [Pull -> Digest \cup {None}]
  /\ done \in [Panel -> BOOLEAN]
  /\ \A p \in Panel : done[p] => worker[p] = "none"
  /\ box \subseteq Pull
  /\ note \in [Pull -> {"none", "already", "pulled", "updated", "same", "failed"}]
  /\ seen \in [Panel -> SUBSET Digest]
  /\ beside \in [Panel -> SUBSET Digest]
  /\ leaked \subseteq Pull

Init ==
  /\ registry \in Digest
  /\ cached = None
  /\ handler = [p \in Pull |-> "idle"]
  /\ worker = [p \in Pull |-> "none"]
  /\ fetch = [p \in Pull |-> None]
  /\ force = [p \in Pull |-> FALSE]
  /\ prior = [p \in Pull |-> None]
  /\ result = [p \in Pull |-> None]
  /\ done = [p \in Panel |-> FALSE]
  /\ box = {}
  /\ note = [p \in Pull |-> "none"]
  /\ seen = [p \in Panel |-> {}]
  /\ beside = [p \in Panel |-> {}]
  /\ leaked = {}

Goto(p, at) == handler' = [handler EXCEPT ![p] = at]

Run(p, at) == worker' = [worker EXCEPT ![p] = at]
-----------------------------------------------------------------------------
(* The requests *)

\* The Pull dialog or the Re-pull action.
Ask(p) ==
  /\ p \in Panel /\ handler[p] = "idle" /\ worker[p] = "none"
  /\ \E f \in BOOLEAN : force' = [force EXCEPT ![p] = f]
  /\ Goto(p, "asked")
  /\ UNCHANGED <<image, prior, note, pull>>

\* InspectImage; whatever its error, the image counts as not cached.
Inspect(p) ==
  /\ handler[p] = "asked"
  /\ \E found \in {cached, None} :
       /\ prior' = [prior EXCEPT ![p] = found]
       /\ IF found # None /\ ~force[p]
          THEN Goto(p, "over") /\ note' = [note EXCEPT ![p] = "already"]
          ELSE Goto(p, "inspected") /\ UNCHANGED note
  /\ UNCHANGED <<image, force, pull>>

\* PullImage begins in a goroutine, with a context of its own.
Watch(p) ==
  /\ handler[p] = "inspected"
  /\ Goto(p, "watching")
  /\ Run(p, "resolving")
  /\ seen' = [seen EXCEPT ![p] = {registry}]
  /\ beside' = [beside EXCEPT ![p] = {fetch[q] : q \in Pull} \ {None}]
  /\ UNCHANGED <<registry, cached, force, prior, note, fetch, result, done, box, leaked>>

\* handleImagePull waits for PullImage itself.
Block(p) ==
  /\ p \in Api /\ handler[p] = "idle" /\ worker[p] = "none"
  /\ \E f \in BOOLEAN : force' = [force EXCEPT ![p] = f]
  /\ Goto(p, "blocked")
  /\ Run(p, "resolving")
  /\ UNCHANGED <<image, prior, note, fetch, result, done, box, leaked>>

\* notifyPullOutcome, or "Pull failed".
Outcome(p) ==
  CASE result[p] = None -> "failed"
    [] result[p] # None /\ prior[p] = None -> "pulled"
    [] result[p] # None /\ prior[p] \notin {None, result[p]} -> "updated"
    [] OTHER -> "same"

Receive(p) ==
  /\ handler[p] = "watching"
  /\ done[p]
  /\ done' = [done EXCEPT ![p] = FALSE]
  /\ note' = [note EXCEPT ![p] = Outcome(p)]
  /\ Goto(p, "over")
  /\ UNCHANGED <<image, force, prior, worker, fetch, result, box, leaked>>

\* A tick finds the client gone, or the progress cannot be sent.
Leave(p) ==
  /\ handler[p] = "watching"
  /\ Goto(p, "over")
  /\ UNCHANGED <<image, force, prior, note, pull>>

\* A panel's request is over and its goroutine has ended; the next pull has a new box name.
Again(p) ==
  /\ p \in Panel /\ handler[p] = "over" /\ worker[p] = "none"
  /\ Goto(p, "idle")
  /\ force' = [force EXCEPT ![p] = FALSE]
  /\ prior' = [prior EXCEPT ![p] = None]
  /\ note' = [note EXCEPT ![p] = "none"]
  /\ result' = [result EXCEPT ![p] = None]
  /\ seen' = [seen EXCEPT ![p] = {}]
  /\ beside' = [beside EXCEPT ![p] = {}]
  /\ done' = [done EXCEPT ![p] = FALSE]
  /\ box' = box \ {p}
  /\ leaked' = leaked \ {p}
  /\ UNCHANGED <<registry, cached, worker, fetch>>
-----------------------------------------------------------------------------
(* PullImage *)

FetchesMissing(p) == cached = None

\* PullPolicyAlways, or PullPolicyIfMissing.
Fetches(p) == force[p] \/ cached = None

\* CreateSandbox looks at the cache and asks the registry for the manifest of the tag ...
Resolve(p) ==
  /\ worker[p] = "resolving"
  /\ IF Fetches(p)
     THEN fetch' = [fetch EXCEPT ![p] = registry] /\ Run(p, "fetching")
     ELSE Run(p, "booting") /\ UNCHANGED fetch
  /\ UNCHANGED <<image, request, result, done, box, leaked>>

\* ... downloads it, and writes it to the cache, whoever has been there since ...
Store(p) ==
  /\ worker[p] = "fetching"
  /\ cached' = fetch[p]
  /\ fetch' = [fetch EXCEPT ![p] = None]
  /\ Run(p, "booting")
  /\ UNCHANGED <<registry, seen, beside, request, result, done, box, leaked>>

\* ... and returns with the throwaway box up.
Boot(p) ==
  /\ worker[p] = "booting"
  /\ box' = box \cup {p}
  /\ Run(p, "booted")
  /\ UNCHANGED <<image, request, fetch, result, done, leaked>>

\* CreateSandbox has been called.
Creating(p) == worker[p] \in {"resolving", "fetching", "booting"}

BootFailsSilently(p) ==
  /\ Creating(p)
  /\ fetch' = [fetch EXCEPT ![p] = None]
  /\ Run(p, "none")
  /\ UNCHANGED <<image, request, result, done, box, leaked>>

\* A registry error, the pull timeout, an API client that left: what is cached by then
\* stays, and there is no teardown of what has been booted.
BootFails(p) ==
  /\ Creating(p)
  /\ fetch' = [fetch EXCEPT ![p] = None]
  /\ result' = [result EXCEPT ![p] = None]
  /\ \/ UNCHANGED <<box, leaked>>
     \/ worker[p] = "booting" /\ box' = box \cup {p} /\ leaked' = leaked \cup {p}
  /\ Run(p, "sending")
  /\ UNCHANGED <<image, request, done>>

GetKeepsBox(p) ==
  /\ worker[p] = "booted"
  /\ \E r \in {cached, None} : result' = [result EXCEPT ![p] = r]
  /\ Run(p, IF result'[p] = None THEN "sending" ELSE "cleaning")
  /\ UNCHANGED <<image, request, fetch, done, box, leaked>>

\* Image.Get reads the image back; it may have been removed, or the read may fail.
Get(p) ==
  /\ worker[p] = "booted"
  /\ \E r \in {cached, None} : result' = [result EXCEPT ![p] = r]
  /\ Run(p, "cleaning")
  /\ UNCHANGED <<image, request, fetch, done, box, leaked>>

\* The deferred Stop and RemoveSandbox, on a fresh context and best effort.
Cleanup(p) ==
  /\ worker[p] = "cleaning"
  /\ \/ box' = box \ {p} /\ UNCHANGED leaked
     \/ leaked' = leaked \cup {p} /\ UNCHANGED box
  /\ Run(p, "sending")
  /\ UNCHANGED <<image, request, fetch, result, done>>

\* done <- result: the channel has room for it, watched or not.
Send(p) ==
  /\ p \in Panel /\ worker[p] = "sending"
  /\ done' = [done EXCEPT ![p] = TRUE]
  /\ Run(p, "none")
  /\ UNCHANGED <<image, request, fetch, result, box, leaked>>

\* PullImage returns to handleImagePull, and that request is over.
Answer(p) ==
  /\ p \in Api /\ worker[p] = "sending"
  /\ Goto(p, "idle")
  /\ Run(p, "none")
  /\ force' = [force EXCEPT ![p] = FALSE]
  /\ result' = [result EXCEPT ![p] = None]
  /\ box' = box \ {p}
  /\ leaked' = leaked \ {p}
  /\ UNCHANGED <<image, prior, note, fetch, done>>
-----------------------------------------------------------------------------
(* The rest of the world *)

\* The tag is pushed to, or rolled back.
Push ==
  /\ registry' \in Digest \ {registry}
  /\ seen' = [p \in Panel |-> IF seen[p] = {} THEN {} ELSE seen[p] \cup {registry'}]
  /\ UNCHANGED <<cached, beside, request, pull>>

\* RemoveImage or PruneImages.
RemoveImage ==
  /\ cached # None
  /\ cached' = None
  /\ UNCHANGED <<registry, seen, beside, request, pull>>

\* The daemon dies; boxes are detached and stay, but belong to no pull any more.
Restart ==
  /\ handler' = [p \in Pull |-> "idle"]
  /\ worker' = [p \in Pull |-> "none"]
  /\ fetch' = [p \in Pull |-> None]
  /\ force' = [p \in Pull |-> FALSE]
  /\ prior' = [p \in Pull |-> None]
  /\ result' = [p \in Pull |-> None]
  /\ done' = [p \in Panel |-> FALSE]
  /\ note' = [p \in Pull |-> "none"]
  /\ seen' = [p \in Panel |-> {}]
  /\ beside' = [p \in Panel |-> {}]
  /\ box' = {}
  /\ leaked' = {}
  /\ UNCHANGED <<registry, cached>>
-----------------------------------------------------------------------------
PullStep(p) ==
  \/ Resolve(p) \/ Store(p) \/ Boot(p) \/ BootFails(p)
  \/ Get(p) \/ Cleanup(p) \/ Send(p) \/ Answer(p)

HandlerStep(p) == Inspect(p) \/ Watch(p) \/ Receive(p)

Next ==
  \/ \E p \in Pull :
       Ask(p) \/ Block(p) \/ HandlerStep(p) \/ Leave(p) \/ Again(p) \/ PullStep(p)
  \/ Push
  \/ RemoveImage
  \/ Restart

Spec == Init /\ [][Next]_vars

(* The boot ends within the pull timeout and the teardown within 30 s; handlers run; a   *)
(* select with the result ready picks it sooner or later.                               *)
Fairness == \A p \in Pull : WF_vars(PullStep(p)) /\ WF_vars(HandlerStep(p))

FairSpec == Spec /\ Fairness
-----------------------------------------------------------------------------
(* Properties *)

\* What a panel that asked for a newer copy reports as the registry's -- "unchanged" or
\* "fetched a newer copy" -- the registry had while the pull ran, or another pull that was
\* under way when it began was already downloading: nothing older gets between the fetch
\* and the read, whatever pulls, removals and pushes do.
ReportsRegistry ==
  \A p \in Panel : note[p] \in {"same", "updated"} => result[p] \in seen[p] \cup beside[p]

\* "... is unchanged -- the registry copy matches the cached one": what is reported as the
\* registry's the registry had while the pull ran, also beside a slower pull.
ReportsCurrent ==
  \A p \in Panel : note[p] \in {"same", "updated"} => result[p] \in seen[p]

\* A throwaway box outlives its pull only after a failed boot or teardown: no outcome of
\* the read and no departure of the client skips the teardown.
NoBoxLeft ==
  box \subseteq leaked \cup {p \in Pull : worker[p] \in {"booted", "cleaning"}}

\* The goroutine of a pull ends, also when nobody waits for its outcome any more.
PullEnds == \A p \in Pull : worker[p] = "resolving" ~> worker[p] = "none"

\* A panel that watches is told an outcome, whatever becomes of the pull, unless its
\* client leaves.
PanelAnswered == \A p \in Panel : handler[p] = "watching" ~> handler[p] # "watching"

\* "notifyPullOutcome reports what the pull actually accomplished": an image reported as
\* pulled is one the registry had while the pull ran.
PulledIsFetched ==
  \A p \in Panel : note[p] = "pulled" => result[p] \in seen[p]
=============================================================================
