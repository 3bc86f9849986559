----------------------------- MODULE RunPanel -----------------------------
(***************************************************************************)
(* One command of the dashboard's run panel: the stream of sandboxRun that *)
(* launched the job and polls it, the requests of sandboxJobCancel, and    *)
(* the set Handler.cancelled between them (internal/dashboard), while REST *)
(* clients may cancel the same job without touching that set.              *)
(*                                                                         *)
(* The job is that of module Jobs as far as the two handlers can see it:   *)
(* its drain, cancelJob without the handle and its mutex, and the ways out *)
(* of the map.                                                             *)
(***************************************************************************)

CONSTANTS
  Click,  \* cancel requests of the panel's button
  Rest    \* cancel requests of REST clients

Cancel == Click \cup Rest

VARIABLES
  state,    \* of the job: "running", "done", "dead" or "killed"
  tracked,  \* the job is in the registry's map
  stopped,  \* its context is cancelled
  event,    \* what Recv handed to the drain: "none" yet, a final event, or all "applied"
  flag,     \* the job is in Handler.cancelled
  stream,   \* where sandboxRun is
  polled,   \* the state its last Poll answered
  view,     \* the panel: "running", "cancelled", or how the command ended
  request,  \* where each cancel request is
  dropped   \* history: the job was deleted with its sandbox, or forgotten

vars == <<state, tracked, stopped, event, flag, stream, polled, view, request, dropped>>
jobVars == <<state, tracked, stopped, event, dropped>>

Outcome == {"done", "dead", "killed"}
FinalEvent == {"exited", "failed", "done", "error"}
RequestAt == {"idle", "marked", "found", "cancelling", "killing", "unmarking", "killed",
              "answered"}

TypeOK ==
  /\ state \in {"running"} \cup Outcome
  /\ tracked \in BOOLEAN
  /\ stopped \in BOOLEAN
  /\ event \in {"none", "applied"} \cup FinalEvent
  /\ flag \in BOOLEAN
  /\ stream \in {"polling", "polled", "showing", "waiting", "left"}
  /\ polled \in {"running", "gone"} \cup Outcome
  /\ view \in {"running", "cancelled", "gone"} \cup Outcome
  /\ request \in [Cancel -> RequestAt]
  /\ dropped \in BOOLEAN

\* The job is launched and the panel has its block.
Init ==
  /\ state = "running" /\ tracked = TRUE /\ stopped = FALSE /\ event = "none"
  /\ flag = FALSE
  /\ stream = "polling" /\ polled = "running" /\ view = "running"
  /\ request = [c \in Cancel |-> "idle"]
  /\ dropped = FALSE
-----------------------------------------------------------------------------
(* The job *)

\* Recv returns a final event or an error, which the drain has yet to apply.
JobRecv(e) ==
  /\ event = "none"
  /\ event' = e
  /\ UNCHANGED <<state, tracked, stopped, dropped, flag, stream, polled, view, request>>

\* The state a final event leaves: an exit and a failure overwrite whatever is there, the
\* end of the stream and an error (markFinished) only replace "running".
OutcomeOf(e, s) ==
  IF e = "exited" THEN "done"
  ELSE IF e = "failed" THEN "dead"
  ELSE IF s # "running" THEN s
  ELSE IF e = "done" THEN "done"
  ELSE "dead"

JobEnds ==
  /\ event \in FinalEvent
  /\ state' = OutcomeOf(event, state)
  /\ event' = "applied"
  /\ UNCHANGED <<tracked, stopped, dropped, flag, stream, polled, view, request>>

\* dropSandbox, or the janitor once the job has finished.
JobForgotten ==
  /\ tracked
  /\ tracked' = FALSE /\ dropped' = TRUE
  /\ stopped' = TRUE \/ (state # "running" /\ UNCHANGED stopped)
  /\ UNCHANGED <<state, event, flag, stream, polled, view, request>>
-----------------------------------------------------------------------------
(* sandboxRun *)

PollForgotten ==
  /\ stream = "polling"
  /\ polled' = IF tracked THEN state ELSE "running"
  /\ stream' = "polled"
  /\ UNCHANGED <<jobVars, flag, view, request>>

Answer == IF tracked THEN state ELSE "gone"

Poll ==
  /\ stream = "polling"
  /\ polled' = Answer
  /\ stream' = "polled"
  /\ UNCHANGED <<jobVars, flag, view, request>>

\* Only a view that is done takes the flag.
TakeCancelled ==
  /\ stream = "polled"
  /\ IF polled = "running"
     THEN view' = "running" /\ UNCHANGED flag
     ELSE /\ view' = IF flag \/ polled = "killed" THEN "cancelled" ELSE polled
          /\ flag' = FALSE
  /\ stream' = "showing"
  /\ UNCHANGED <<jobVars, polled, request>>

\* The patch is sent, or fails; a view that is done is the last one.
Show ==
  /\ stream = "showing"
  /\ stream' \in {"left"} \cup (IF view = "running" THEN {"waiting"} ELSE {})
  /\ UNCHANGED <<jobVars, flag, polled, view, request>>

\* The ticker, or the client has gone.
Wait ==
  /\ stream = "waiting"
  /\ stream' \in {"polling", "left"}
  /\ UNCHANGED <<jobVars, flag, polled, view, request>>
-----------------------------------------------------------------------------
(* sandboxJobCancel, and CancelJob for the API *)

Goto(c, at) == request' = [request EXCEPT ![c] = at]

MarkLate(c) ==
  /\ request[c] = "idle"
  /\ Goto(c, "marked")
  /\ UNCHANGED <<jobVars, flag, stream, polled, view>>

\* The button marks the job before anything else; the API does not.
MarkCancelled(c) ==
  /\ request[c] = "idle"
  /\ flag' = (flag \/ c \in Click)
  /\ Goto(c, "marked")
  /\ UNCHANGED <<jobVars, stream, polled, view>>

\* cancelJob looks the job up ...
CancelLookup(c) ==
  /\ request[c] = "marked"
  /\ tracked
  /\ Goto(c, "found")
  /\ UNCHANGED <<jobVars, flag, stream, polled, view>>

\* ... which fails for one that has been forgotten; the click is then taken back.
CancelFails(c) ==
  /\ request[c] = "marked"
  /\ ~tracked
  /\ Goto(c, IF c \in Click THEN "unmarking" ELSE "answered")
  /\ UNCHANGED <<jobVars, flag, stream, polled, view>>

\* The look at the state, under j.mu ...
CancelRunning(c) ==
  /\ request[c] = "found"
  /\ state = "running"
  /\ Goto(c, "cancelling")
  /\ UNCHANGED <<jobVars, flag, stream, polled, view>>

\* ... a finished job: nothing to do, and no error.
CancelFinished(c) ==
  /\ request[c] = "found"
  /\ state # "running"
  /\ Goto(c, "answered")
  /\ UNCHANGED <<jobVars, flag, stream, polled, view>>

\* cancel() wakes the drain; it may have ended since the look.
CancelContext(c) ==
  /\ request[c] = "cancelling"
  /\ stopped' = TRUE
  /\ Goto(c, "killing")
  /\ UNCHANGED <<state, tracked, event, dropped, flag, stream, polled, view>>

\* After the Kill, or without it, the outcome is written over any other.
CancelKilled(c) ==
  /\ request[c] = "killing"
  /\ state' = "killed"
  /\ Goto(c, "killed")
  /\ UNCHANGED <<tracked, stopped, event, dropped, flag, stream, polled, view>>

Unmark(c) ==
  /\ request[c] = "unmarking"
  /\ flag' = FALSE
  /\ Goto(c, "answered")
  /\ UNCHANGED <<jobVars, stream, polled, view>>
-----------------------------------------------------------------------------
StreamStep == Poll \/ TakeCancelled \/ Show \/ Wait

RequestStep(c) ==
  \/ CancelLookup(c) \/ CancelFails(c) \/ CancelRunning(c) \/ CancelFinished(c)
  \/ CancelContext(c) \/ CancelKilled(c) \/ Unmark(c)

Stopped == stream = "left" /\ \A c \in Cancel : request[c] \in {"killed", "answered"}

Next ==
  \/ \E e \in FinalEvent : JobRecv(e)
  \/ JobEnds \/ JobForgotten
  \/ StreamStep
  \/ \E c \in Cancel : MarkCancelled(c) \/ RequestStep(c)
  \/ Stopped /\ UNCHANGED vars

Spec == Init /\ [][Next]_vars

(* The stream's goroutine, the drain's and those of the requests run, and a Recv whose  *)
(* context is cancelled returns.                                                        *)
RecvCancelled == stopped /\ JobRecv("error")

Fairness ==
  /\ WF_vars(StreamStep)
  /\ \A c \in Cancel : WF_vars(RequestStep(c))
  /\ WF_vars(RecvCancelled)
  /\ WF_vars(JobEnds)

FairSpec == Spec /\ Fairness
-----------------------------------------------------------------------------
(* Properties *)

Ended == stream = "left" /\ view # "running"

\* What the panel shows last: a command that a click has found running is never shown as
\* done or dead, although the exit, the failure or the error that the drain applies and
\* the kill reach the job in any order, the poll may fall between any two, and an exit or
\* a failure overwrites a kill that was recorded.
KillShown ==
  Ended /\ ~dropped /\ (\E c \in Click : request[c] \in {"cancelling", "killing", "killed"})
    => view = "cancelled"

\* A panel says "cancelled" only if somebody asked for it, by the button or the API, though
\* the set of cancelled jobs is shared and the flag, the kill and the polls come in any order.
CancelledWasAsked == view = "cancelled" => \E c \in Cancel : request[c] # "idle"

\* A cancel that finds the command running stops the panel's spinner.
ClickEndsStream == \A c \in Cancel : request[c] = "cancelling" ~> stream = "left"

\* "Say what actually happened": a panel that says "cancelled" shows a command that was
\* killed, not one that had come to its own end.
CancelledWasKilled ==
  Stopped /\ view = "cancelled" => \E c \in Cancel : request[c] = "killed"

\* "Entries are consumed by the stream that owns the job": none outlives the stream.
FlagConsumed == Stopped => ~flag
=============================================================================
