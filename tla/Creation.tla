------------------------------ MODULE Creation ------------------------------
(***************************************************************************)
(* What the creation of a sandbox needs: to be admitted (Admission), its   *)
(* numbers to be turned into those of the SDK (CreateOptions), and an      *)
(* image, which is pulled ahead of it (ImagePull).                         *)
(*                                                                         *)
(* The three share no state, so a behaviour is one of one of them: `part`  *)
(* says which, out of Parts, and the others stay where they start.         *)
(***************************************************************************)
EXTENDS Admission, Integers

CONSTANTS
  Parts,                                 \* those of "creates", "numbers" and "pulls" that move
  U8, U16, U32, I64, Mib, Nanos, Asked,  \* of CreateOptions
  Panel, Api, Digest                     \* of ImagePull

VARIABLES
  part,  \* the one that moves
  params, stage, options,
  registry, cached, handler, worker, fetch, force, prior, result, done, box, note,
  offered, beside, leaked

Opts == INSTANCE CreateOptions

Image == INSTANCE ImagePull WITH seen <- offered

\* Fields of some width, the widest of an even number of values.
Widths ==
  /\ {U8, U16, U32, Mib, Nanos} \subseteq Nat \ {0}
  /\ I64 \in Nat \ {0} /\ I64 % 2 = 0
  /\ Asked \subseteq Int

\* A pull is a panel's or a REST request's.
Apart == Panel \cap Api = {}

numbersVars == <<params, stage, options>>
pullVars == <<registry, cached, handler, worker, fetch, force, prior, result, done, box,
              note, offered, beside, leaked>>

\* A host without a sandbox, a request of zeros and one digest stand for all the starts of
\* what stays put.
CreationInit ==
  /\ part \in Parts
  /\ Init /\ Opts!Init /\ Image!Init
  /\ part # "creates" => vms = {}
  /\ part # "numbers" => \A field \in DOMAIN params : params[field] = 0
  /\ part # "pulls" => \A d \in Digest : registry <= d

CreationNext ==
  \/ part = "creates" /\ Next /\ UNCHANGED <<part, numbersVars, pullVars>>
  \/ part = "numbers" /\ Opts!Next /\ UNCHANGED <<part, vars, pullVars>>
  \/ part = "pulls" /\ Image!Next /\ UNCHANGED <<part, vars, numbersVars>>

CreationSpec == CreationInit /\ [][CreationNext]_<<part, vars, numbersVars, pullVars>>

\* Where Admission and ImagePull start nothing is under way, and none of their fair actions
\* is enabled.
CreationFairSpec == CreationSpec /\ Fairness /\ Image!Fairness
-----------------------------------------------------------------------------
(* Properties of CreateOptions and ImagePull *)

\* Disk and ports arrive as they were asked for, or the request is refused.
DiskAndPortsKept == Opts!DiskAndPortsKept

\* What a panel reports as the registry's the registry had while the pull ran, or another
\* pull was already downloading.
ReportsRegistry == Image!ReportsRegistry

\* A throwaway box outlives its pull only after a failed boot or teardown.
NoBoxLeft == Image!NoBoxLeft

\* The goroutine of a pull ends, also when nobody waits for its outcome any more, and a
\* panel that watches is told an outcome, unless its client leaves.
PullAnswered == Image!PullEnds /\ Image!PanelAnswered
=============================================================================
