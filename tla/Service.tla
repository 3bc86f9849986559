------------------------------ MODULE Service -------------------------------
(***************************************************************************)
(* The daemon's connections: a terminal from its guest to its client       *)
(* (Terminal), and the life of the process that serves all of them, from   *)
(* its start to its shutdown (Daemon).                                     *)
(*                                                                         *)
(* A terminal is one hijacked connection of Daemon, which the shutdown     *)
(* does not wait for; they share no state, so a behaviour is one of the    *)
(* one or of the other: `part` says which, out of Parts, and the other     *)
(* stays where it starts.                                                  *)
(***************************************************************************)
EXTENDS Terminal

CONSTANTS
  Parts,  \* those of "terminal" and "process" that move
  Conn    \* of Daemon

VARIABLES
  part,  \* the one that moves
  main, listener, errCh, signalled, conn, elapsed, warned, store, janitor, code

Serving == INSTANCE Daemon

servingVars == <<main, listener, errCh, signalled, conn, elapsed, warned, store, janitor, code>>

ServiceInit == part \in Parts /\ Init /\ Serving!Init

ServiceNext ==
  \/ part = "terminal" /\ Next /\ UNCHANGED <<part, servingVars>>
  \/ part = "process" /\ Serving!Next /\ UNCHANGED <<part, vars>>

\* The fairness of each while it is its turn: a bridge is under way where Terminal starts,
\* and main where Daemon does.
ServiceFairSpec ==
  /\ ServiceInit /\ [][ServiceNext]_<<part, vars, servingVars>>
  /\ WF_vars(part = "terminal" /\ PumpStep)
  /\ WF_vars(part = "terminal" /\ BridgeStep)
  /\ WF_vars(part = "terminal" /\ ReaderStep)
  /\ WF_vars(part = "terminal" /\ (GraceDone \/ GraceFires))
  /\ WF_servingVars(part = "process" /\ Serving!MainStep)
  /\ WF_servingVars(part = "process" /\ Serving!Timeout)
-----------------------------------------------------------------------------
(* Properties of Daemon *)

\* The shutdown closes the store under no request, unless the timeout or the listener is
\* to blame.
ServedToTheEnd == Serving!ServedToTheEnd

\* A signal ends the process.
SignalEnds == Serving!SignalEnds
=============================================================================
