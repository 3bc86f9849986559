---------------------------- MODULE SandboxState ----------------------------
(***************************************************************************)
(* What the daemon keeps in memory of a sandbox: the cached handle of its  *)
(* guest (Registry), and beside it the maps of launches, working           *)
(* directories and jobs that a Delete has to clear (SandboxRecord).        *)
(*                                                                         *)
(* SandboxRecord has a coarser handle of its own, so a behaviour is one of *)
(* the one or of the other: `part` says which, out of Parts, and the other *)
(* stays where it starts.                                                  *)
(***************************************************************************)
EXTENDS Registry

CONSTANTS
  Parts,                                \* those of "handle" and "record" that move
  Client, Job, Dir, Root, NoDir, NoJob  \* of SandboxRecord

VARIABLES
  part,  \* the one that moves
  rVm, rLive, made, workdir, pin, answered, serving, rPc, rKind, held, tracked, stream, overlap

Record == INSTANCE SandboxRecord
  WITH vm <- rVm, live <- rLive, pc <- rPc, kind <- rKind

recordVars == <<rVm, rLive, made, workdir, pin, answered, serving, rPc, rKind, held, tracked,
                stream, overlap>>

\* A stopped sandbox stands for all those Registry may start with, beside SandboxRecord.
StateInit == part \in Parts /\ Init /\ Record!Init /\ (part # "handle" => vm = "stopped")

StateNext ==
  \/ part = "handle" /\ Next /\ UNCHANGED <<part, recordVars>>
  \/ part = "record" /\ Record!Next /\ UNCHANGED <<part, vars>>

\* Both start without a request, and none of their fair actions is enabled there.
StateFairSpec ==
  /\ StateInit /\ [][StateNext]_<<part, vars, recordVars>>
  /\ \A c \in Caller : WF_vars(ResolveStep(c) \/ CreateStep(c) \/ ServiceStep(c))
  /\ Record!Fairness
-----------------------------------------------------------------------------
(* Properties of SandboxRecord *)

\* What the daemon keeps of a deleted sandbox came from a request beside the Delete.
ResidueFromOverlap == Record!ResidueFromOverlap

\* The jobs of a sandbox that is gone end and are evicted.
JobsOfGoneEnd == Record!JobsOfGoneEnd
=============================================================================
