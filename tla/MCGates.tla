------------------------------ MODULE MCGates -------------------------------
(* Model-checking instance of Gates: the clocks run past the end of the memos. *)
EXTENDS Gates

ASSUME DashboardAssumption == Dashboard /\ APIKey \in BOOLEAN /\ Basic \in BOOLEAN

ASSUME ClockCoversMemo == TTL < MaxNow /\ DashTTL <= DashMaxNow
=============================================================================
