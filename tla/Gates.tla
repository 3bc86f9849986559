------------------------------- MODULE Gates --------------------------------
(***************************************************************************)
(* The two memoised gates of the daemon: the one of the REST API (KeyGate) *)
(* and the one of the dashboard (DashAuth).                                *)
(*                                                                         *)
(* They share no state, so a behaviour is one of the one or of the other:  *)
(* `part` says which, out of Parts, and the other stays where it starts.   *)
(***************************************************************************)
EXTENDS KeyGate

CONSTANTS
  Parts,  \* those of "api" and "dashboard" that move
  Visitor, DashAdmin, APIKey, Basic, DashTTL, MaxUsers, DashMaxNow, Nobody  \* of DashAuth

VARIABLES
  part,  \* the one that moves
  dNow, accounts, n, known, until, mu, dPc, round, dStamp, read, served, dPhase, filledAt,
  dSettled, dSince, failed

Dash == INSTANCE DashAuth
  WITH Admin <- DashAdmin, TTL <- DashTTL, MaxNow <- DashMaxNow, now <- dNow, pc <- dPc,
       stamp <- dStamp, phase <- dPhase, settled <- dSettled, since <- dSince

\* A memo that lasts.
Dashboard ==
  /\ Nobody \notin Visitor
  /\ DashTTL \in Nat \ {0} /\ DashMaxNow \in Nat /\ MaxUsers \in Nat

dashVars == <<dNow, accounts, n, known, until, mu, dPc, round, dStamp, read, served, dPhase,
              filledAt, dSettled, dSince, failed>>

GatesInit == part \in Parts /\ Init /\ Dash!Init

GatesNext ==
  \/ part = "api" /\ Next /\ UNCHANGED <<part, dashVars>>
  \/ part = "dashboard" /\ Dash!Next /\ UNCHANGED <<part, vars>>

\* Where KeyGate starts none of its fair actions is enabled: it owes nothing while the
\* dashboard's gate moves.
GatesFairSpec == GatesInit /\ [][GatesNext]_<<part, vars, dashVars>> /\ Fairness
-----------------------------------------------------------------------------
(* Properties of DashAuth *)

\* The dashboard's gate is open for a bounded time only, closes at once, and keeps no lock.
DashGuarded == Dash!DashGuarded
=============================================================================
