------------------------------ MODULE Commands ------------------------------
(***************************************************************************)
(* The commands that run in sandboxes: the job registry (Jobs), the panel  *)
(* in which the dashboard shows a command and cancels it (RunPanel), and   *)
(* the buffer a job's output is polled from (RingBuffer).                  *)
(*                                                                         *)
(* RunPanel and RingBuffer have as much of one job as they need in         *)
(* variables of their own, so a behaviour is one of one of the three:      *)
(* `part` says which, out of Parts, and the others stay where they start.  *)
(***************************************************************************)
EXTENDS Jobs, Naturals

CONSTANTS
  Parts,                             \* those of "jobs", "panel" and "buffer" that move
  Click, Rest,                       \* of RunPanel
  Byte, RingCap, MaxWrite, MaxTotal  \* of RingBuffer

VARIABLES
  part,  \* the one that moves
  pJob, inMap, pStopped, pEvent, flag, stream, polled, view, request, dropped,
  buf, total, trunc, written

Panel == INSTANCE RunPanel
  WITH state <- pJob, tracked <- inMap, stopped <- pStopped, event <- pEvent

Ring == INSTANCE RingBuffer WITH Cap <- RingCap, output <- written

\* A buffer with room for something.
Buffer == RingCap \in Nat \ {0} /\ MaxWrite \in Nat /\ MaxTotal \in Nat

panelVars == <<pJob, inMap, pStopped, pEvent, flag, stream, polled, view, request, dropped>>
bufferVars == <<buf, total, trunc, written>>

CommandsInit == part \in Parts /\ Init /\ Panel!Init /\ Ring!Init

CommandsNext ==
  \/ part = "jobs" /\ Next /\ UNCHANGED <<part, panelVars, bufferVars>>
  \/ part = "panel" /\ Panel!Next /\ UNCHANGED <<part, vars, bufferVars>>
  \/ part = "buffer" /\ Ring!Next /\ UNCHANGED <<part, vars, panelVars>>

CommandsSpec == CommandsInit /\ [][CommandsNext]_<<part, vars, panelVars, bufferVars>>

\* Where Jobs starts there is no job and no request, and none of its fair actions is enabled;
\* the panel's are fair while it is its turn.
CommandsFairSpec ==
  /\ CommandsSpec
  /\ Fairness
  /\ WF_panelVars(part = "panel" /\ Panel!StreamStep)
  /\ \A c \in Click \cup Rest : WF_panelVars(part = "panel" /\ Panel!RequestStep(c))
  /\ WF_panelVars(part = "panel" /\ Panel!RecvCancelled)
  /\ WF_panelVars(part = "panel" /\ Panel!JobEnds)
-----------------------------------------------------------------------------
(* Properties of RunPanel and RingBuffer *)

\* A command that a click has found running is never shown as done or dead.
KillShown == Panel!KillShown

\* A cancel that finds the command running stops the panel's spinner.
ClickEndsStream == Panel!ClickEndsStream

\* The poller reads the tail of the output, and a lost byte is never concealed.
RingFaithful == Ring!RingFaithful
=============================================================================
