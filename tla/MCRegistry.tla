----------------------------- MODULE MCRegistry -----------------------------
(* Model-checking instances of SandboxState.  A second boot needs MaxBoots 2   *)
(* and a recovery that boots twice MaxBoots 3.                                 *)
EXTENDS SandboxState

ASSUME SomethingBoots == MaxBoots >= 2

ASSUME RecordAssumption == Root \in Dir /\ NoDir \notin Dir /\ NoJob \notin Job
=============================================================================
