------------------------------- MODULE MCJobs -------------------------------
(***************************************************************************)
(* Model-checking instances of Commands: every job in the one sandbox, so  *)
(* that a dropSandbox has several victims, and writes to the output buffer *)
(* below, at and above its capacity.                                       *)
(***************************************************************************)
EXTENDS Commands, TLC

CONSTANT box

MCSandboxOf == [j \in Job |-> box]

ASSUME BufferAssumption == Buffer /\ RingCap < MaxWrite /\ 2 * RingCap < MaxTotal

Symmetry == Permutations(Caller) \cup Permutations(Job)
=============================================================================
