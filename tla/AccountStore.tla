---------------------------- MODULE AccountStore ----------------------------
(***************************************************************************)
(* The file the accounts are in: the statements on its tables (Accounts),  *)
(* and the migrations that make these tables when a process opens the file *)
(* (Migrate).                                                              *)
(*                                                                         *)
(* Migrate is about which tables there are and Accounts about their rows,  *)
(* so a behaviour is one of the one or of the other: `part` says which,    *)
(* out of Parts, and the other stays where it starts.                      *)
(***************************************************************************)
EXTENDS Accounts

CONSTANTS
  Parts,                                \* those of "rows" and "schema" that move
  Process, Embedded, Nobody, MaxFaults  \* of Migrate

VARIABLES
  part,  \* the one that moves
  schema, recorded, writer, made, written, mPc, applied, next, faults

File == INSTANCE Migrate WITH pc <- mPc

\* Several processes, each with a binary of its own age.
Binaries ==
  /\ IsFiniteSet(Process) /\ Process # {} /\ Nobody \notin Process
  /\ Embedded \in [Process -> Nat]
  /\ MaxFaults \in Nat

fileVars == <<schema, recorded, writer, made, written, mPc, applied, next, faults>>

\* A new file stands for all the files Migrate may start with, beside Accounts.
StoreInit == part \in Parts /\ Init /\ File!Init /\ (part # "schema" => schema = {})

StoreNext ==
  \/ part = "rows" /\ Next /\ UNCHANGED <<part, fileVars>>
  \/ part = "schema" /\ File!Next /\ UNCHANGED <<part, vars>>

StoreSpec == StoreInit /\ [][StoreNext]_<<part, vars, fileVars>>
-----------------------------------------------------------------------------
(* Properties of Migrate *)

\* Schema and record of migrations agree, and an open store is complete.
SchemaSound == File!SchemaSound
=============================================================================
