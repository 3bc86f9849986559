----------------------------- MODULE MCKeyCache -----------------------------
(* Model-checking instances of KeyCache.  verifyTTL is shorter than           *)
(* touchInterval, as in the code, and the clock runs past the end of a memo.  *)
EXTENDS KeyCache, TLC

ASSUME ClockCoversMemo == TTL < TouchInterval /\ TTL < MaxNow

Symmetry == Permutations(Caller)
=============================================================================
