----------------------------- MODULE MCAccounts -----------------------------
(* Model-checking instances of AccountStore: among the processes that open the *)
(* file is one of an older binary.                                             *)
EXTENDS AccountStore, TLC

CONSTANT old

Versions == [p \in Process |-> IF p = old THEN 1 ELSE 2]

ASSUME BinariesAssumption == Binaries /\ old \in Process

Symmetry == Permutations(Client) \cup Permutations(Name) \cup Permutations(Cookie)
=============================================================================
