---------------------------- MODULE JobLifecycle ----------------------------
(***************************************************************************)
(* What a client that only polls may rely on: the abstract contract of one *)
(* asynchronous job, whatever the goroutines of internal/core/jobs.go do.  *)
(*                                                                         *)
(*   status[j]  what Poll answers ("unborn" until the id is handed out)    *)
(*   open[j]    the reported outcome may still be replaced by another one  *)
(*                                                                         *)
(* The contract has teeth in four places: a job that left "running" never  *)
(* shows "running" again; a "gone" job stays gone; an outcome is replaced  *)
(* only while the job is open; and an open job that settles stays settled. *)
(***************************************************************************)

CONSTANT Job

VARIABLES status, open

lifecycleVars == <<status, open>>

Outcome == {"done", "dead", "killed"}

Status == {"unborn", "running", "gone"} \cup Outcome

Init ==
  /\ status = [j \in Job |-> "unborn"]
  /\ open = [j \in Job |-> FALSE]

\* Launch returned an id: the job is in the map and its drain is about to run.
Start(j) ==
  /\ status[j] = "unborn"
  /\ status' = [status EXCEPT ![j] = "running"]
  /\ open' = [open EXCEPT ![j] = TRUE]

\* The first outcome, or another one while the job is open; reporting may be the
\* last thing that could still change it.
Report(j) ==
  /\ open[j]
  /\ status[j] \in {"running"} \cup Outcome
  /\ \E o \in Outcome : status' = [status EXCEPT ![j] = o]
  /\ \E b \in BOOLEAN : open' = [open EXCEPT ![j] = b]

\* From here on nothing can replace the outcome any more.
Settle(j) ==
  /\ open[j]
  /\ status[j] # "running"
  /\ open' = [open EXCEPT ![j] = FALSE]
  /\ UNCHANGED status

\* The janitor, or the deletion of the sandbox, drops jobs from the map.
Forget(S) ==
  /\ \A j \in S : status[j] \in {"running"} \cup Outcome
  /\ status' = [j \in Job |-> IF j \in S THEN "gone" ELSE status[j]]
  /\ UNCHANGED open

\* The daemon restarted: jobs are in memory only.
Lose ==
  /\ status' = [j \in Job |-> IF status[j] = "unborn" THEN "unborn" ELSE "gone"]
  /\ open' = [j \in Job |-> FALSE]

Next ==
  \/ \E j \in Job : Start(j) \/ Report(j) \/ Settle(j)
  \/ \E S \in SUBSET Job : Forget(S)
  \/ Lose

Spec == Init /\ [][Next]_lifecycleVars
-----------------------------------------------------------------------------
(* What a polling client may conclude from one answer about all later ones *)

\* A job that has left "running" is never shown running again, and a job that is "gone"
\* (evicted, deleted or forgotten by a restart) never comes back.
NeverBack ==
  [][\A j \in Job :
       /\ status[j] \notin {"unborn", "running"} => status'[j] # "running"
       /\ status[j] = "gone" => status'[j] = "gone"]_lifecycleVars

\* An outcome nobody can replace any more is final: from then on the job shows it until
\* it is gone, and it does not open again.
SettledIsFinal ==
  [][\A j \in Job :
       ~open[j] /\ status[j] \in Outcome =>
         ~open'[j] /\ status'[j] \in {status[j], "gone"}]_lifecycleVars
=============================================================================
