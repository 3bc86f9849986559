------------------------------ MODULE Migrate ------------------------------
(***************************************************************************)
(* Opening the state store (internal/store/store.go, Open and migrate) by  *)
(* several processes at once: `msbd serve` and the admin commands open the *)
(* same SQLite file, each with the migrations its binary embeds.  A        *)
(* process may die between any two statements and be started again.        *)
(*                                                                         *)
(* SQLite is external: one write transaction at a time, a statement that   *)
(* waits for it gives up after the busy timeout, an open transaction is    *)
(* undone when its process dies, CREATE TABLE fails on a table that is     *)
(* there, and INSERT on a name that is.                                    *)
(***************************************************************************)
EXTENDS Integers

CONSTANTS
  Process,
  Embedded,  \* the number of migrations in each process's binary
  Nobody,
  MaxFaults  \* bound: busy timeouts and deaths

Last == CHOOSE n \in {Embedded[p] : p \in Process} : \A p \in Process : Embedded[p] <= n

VARIABLES
  schema,    \* the migrations whose tables exist, committed
  recorded,  \* the names in schema_migrations, committed
  writer,    \* the process with the write transaction
  made,      \* what that transaction has done so far: tables made
  written,   \* ... and names written
  pc,        \* where each process is in Open
  applied,   \* the names it read
  next,      \* the migration its loop is at
  faults

vars == <<schema, recorded, writer, made, written, pc, applied, next, faults>>
file == <<schema, recorded, writer, made, written>>

Migration == 1..Last

TypeOK ==
  /\ schema \in SUBSET Migration
  /\ recorded \in SUBSET Migration
  /\ writer \in Process \cup {Nobody}
  /\ made \in SUBSET Migration
  /\ written \in SUBSET Migration
  /\ pc \in [Process -> {"closed", "reading", "loop", "begun", "made", "written", "failed",
                         "open"}]
  /\ applied \in [Process -> SUBSET Migration]
  /\ next \in [Process -> 1..(Last + 1)]
  /\ faults \in 0..MaxFaults

\* No file yet, or one that an older binary has left.
Init ==
  /\ \E n \in 0..Last : schema = 1..n
  /\ recorded = schema
  /\ writer = Nobody
  /\ made = {} /\ written = {}
  /\ pc = [p \in Process |-> "closed"]
  /\ applied = [p \in Process |-> {}]
  /\ next = [p \in Process |-> 1]
  /\ faults = 0

Goto(p, at) == pc' = [pc EXCEPT ![p] = at]
-----------------------------------------------------------------------------
(* Open *)

\* CREATE TABLE IF NOT EXISTS schema_migrations: waits for the writer like every write.
Ensure(p) ==
  /\ pc[p] = "closed"
  /\ writer = Nobody
  /\ Goto(p, "reading")
  /\ UNCHANGED <<file, applied, next, faults>>

\* SELECT: readers do not wait.
Read(p) ==
  /\ pc[p] = "reading"
  /\ applied' = [applied EXCEPT ![p] = recorded]
  /\ next' = [next EXCEPT ![p] = 1]
  /\ Goto(p, "loop")
  /\ UNCHANGED <<file, faults>>

Skip(p) ==
  /\ pc[p] = "loop"
  /\ next[p] <= Embedded[p] /\ next[p] \in applied[p]
  /\ next' = [next EXCEPT ![p] = @ + 1]
  /\ UNCHANGED <<file, pc, applied, faults>>

\* The first statement of the deferred transaction waits for the write lock.
Begin(p) ==
  /\ pc[p] = "loop"
  /\ next[p] <= Embedded[p] /\ next[p] \notin applied[p]
  /\ writer = Nobody
  /\ writer' = p
  /\ Goto(p, "begun")
  /\ UNCHANGED <<schema, recorded, made, written, applied, next, faults>>

\* The schema script in its own transaction, outside the one that records it.
MakeAutocommit(p) ==
  /\ pc[p] = "begun"
  /\ next[p] \notin schema
  /\ schema' = schema \cup {next[p]}
  /\ Goto(p, "made")
  /\ UNCHANGED <<recorded, writer, made, written, applied, next, faults>>

Make(p) ==
  /\ pc[p] = "begun"
  /\ next[p] \notin schema
  /\ made' = {next[p]}
  /\ Goto(p, "made")
  /\ UNCHANGED <<schema, recorded, writer, written, applied, next, faults>>

\* The table exists: another process has been faster.
MakeFails(p) ==
  /\ pc[p] = "begun"
  /\ next[p] \in schema
  /\ writer' = Nobody
  /\ Goto(p, "failed")
  /\ UNCHANGED <<schema, recorded, made, written, applied, next, faults>>

Record(p) ==
  /\ pc[p] = "made"
  /\ next[p] \notin recorded
  /\ written' = {next[p]}
  /\ Goto(p, "written")
  /\ UNCHANGED <<schema, recorded, writer, made, applied, next, faults>>

Commit(p) ==
  /\ pc[p] = "written"
  /\ schema' = schema \cup made /\ recorded' = recorded \cup written
  /\ made' = {} /\ written' = {}
  /\ writer' = Nobody
  /\ next' = [next EXCEPT ![p] = @ + 1]
  /\ Goto(p, "loop")
  /\ UNCHANGED <<applied, faults>>

Finished(p) == next[p] > Embedded[p]

Opened(p) ==
  /\ pc[p] = "loop"
  /\ Finished(p)
  /\ Goto(p, "open")
  /\ UNCHANGED <<file, applied, next, faults>>

\* Open failed; the process ends, and its supervisor or its user runs it again.
Again(p) ==
  /\ pc[p] = "failed"
  /\ Goto(p, "closed")
  /\ UNCHANGED <<file, applied, next, faults>>
-----------------------------------------------------------------------------
(* Faults *)

\* A statement that waited for the writer for five seconds fails with SQLITE_BUSY.
Busy(p) ==
  /\ faults < MaxFaults
  /\ writer \notin {Nobody, p}
  /\ \/ pc[p] = "closed"
     \/ pc[p] = "loop" /\ next[p] <= Embedded[p] /\ next[p] \notin applied[p]
  /\ Goto(p, "failed")
  /\ faults' = faults + 1
  /\ UNCHANGED <<file, applied, next>>

\* A process dies or is stopped, at any moment; its transaction is undone.
Die(p) ==
  /\ faults < MaxFaults
  /\ pc[p] # "closed"
  /\ Goto(p, "closed")
  /\ IF writer = p
     THEN writer' = Nobody /\ made' = {} /\ written' = {}
     ELSE UNCHANGED <<writer, made, written>>
  /\ faults' = faults + 1
  /\ UNCHANGED <<schema, recorded, applied, next>>

Step(p) ==
  \/ Ensure(p) \/ Read(p) \/ Skip(p) \/ Begin(p) \/ Make(p) \/ MakeFails(p) \/ Record(p)
  \/ Commit(p) \/ Opened(p) \/ Again(p)

AllOpen == \A p \in Process : pc[p] = "open"

Next ==
  \/ \E p \in Process : Step(p) \/ Busy(p) \/ Die(p)
  \/ AllOpen /\ UNCHANGED vars

Spec == Init /\ [][Next]_vars
-----------------------------------------------------------------------------
(* Properties *)

\* "Each in its own transaction": tables are there exactly when their migration is recorded,
\* whoever died where, and migrations have no gaps although binaries of different ages open
\* the same file.
SchemaRecorded ==
  /\ schema = recorded
  /\ \A m \in recorded : 1..m \subseteq recorded

\* A store that is open has the whole schema its binary was built for.
OpenComplete == \A p \in Process : pc[p] = "open" => 1..Embedded[p] \subseteq schema

\* Tables are there exactly when their migration is recorded, and without gaps; a store
\* that is open has the whole schema its binary was built for.
SchemaSound == SchemaRecorded /\ OpenComplete

\* "SQLite's file locking handles the concurrent access": two processes that open a file at
\* the same time both come through, unless a lock timed out or a process died.
OpensTogether == faults = 0 => \A p \in Process : pc[p] # "failed"
=============================================================================
