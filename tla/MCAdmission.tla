---------------------------- MODULE MCAdmission ----------------------------
(***************************************************************************)
(* Model-checking instance of Creation.  Name holds one name for each      *)
(* create beside Max and MaxPulled, so that newName never runs dry.  The   *)
(* widths of the numbers are scaled so that most limits fall on one place, *)
(* and the numbers are those next to every limit, from below zero to       *)
(* beyond the field.                                                       *)
(***************************************************************************)
EXTENDS Creation

Numbers == {-1, 0, 3, 4, 6, 7}

ASSUME EnoughNames ==
  Cardinality(Name) >= Max + MaxPulled + Cardinality(Req)

ASSUME WidthsAssumption == Widths /\ {U8, U16, U32, I64, Mib, Nanos} \cap {0, 1} = {}

ASSUME AroundEveryLimit ==
  \A limit \in {2 * (U8 - 1), U16 - 1, Opts!maxDiskGB, I64 \div (2 * Nanos), U32 - 1} :
    {limit, limit + 1} \subseteq Asked

ASSUME PullAssumption == Digest \subseteq Nat \ {Image!None} /\ Apart
=============================================================================
