------------------------------ MODULE DashAuth ------------------------------
(***************************************************************************)
(* Who may use the dashboard: the mode of internal/dashboard/auth.go and   *)
(* the guards that resolve it.  A guard asks twice whether there are       *)
(* accounts, once in locked() and once in authenticate(), and a third time *)
(* to word a refusal; the answer is memoised by userCounter, whose mutex   *)
(* is held across the query.  userCreate and userDelete of the dashboard   *)
(* invalidate the memo; `msbd users ...` of another process cannot.        *)
(***************************************************************************)
EXTENDS Naturals

CONSTANTS
  Visitor,  \* concurrent requests to the dashboard
  Admin,    \* concurrent userCreate and userDelete requests
  APIKey,   \* the REST API requires a token (Config.APIKeyConfigured or KeyCache)
  Basic,    \* MSBD_DASHBOARD_PASSWORD is set
  TTL,      \* userCountTTL
  MaxUsers, \* bound: accounts
  MaxNow,   \* bound: the clock
  Nobody    \* the mutex is free

VARIABLES
  now,      \* the clock
  accounts, \* how many rows users has
  n, known, until,  \* userCounter
  mu,       \* holder of its mutex
  pc,       \* where each request is
  round,    \* which of its counts it is at
  stamp,    \* the `now` of the last one
  read,     \* what a query in progress has returned
  served,   \* the mode the handler runs in, or the refusal
  phase,    \* a dashboard account change before its invalidate
  filledAt, \* history: when users last stopped being empty
  settled,  \* history: an account made before the last invalidate is still there
  since,    \* history: settled when the request arrived, and not emptied afterwards
  failed    \* history: a count of this request met a query error

counter == <<n, known, until>>
request == <<pc, round, stamp, read, served, since, failed>>
history == <<filledAt, settled>>
vars == <<now, accounts, counter, mu, request, phase, history>>

Outcome == {"none", "open", "basic", "session", "refused", "locked"}

TypeOK ==
  /\ now \in 0..MaxNow
  /\ accounts \in 0..MaxUsers
  /\ n \in 0..MaxUsers /\ known \in BOOLEAN /\ until \in 0..(now + TTL)
  /\ mu \in Visitor \cup {Nobody}
  /\ pc \in [Visitor -> {"idle", "counting", "querying", "storing", "done"}]
  /\ round \in [Visitor -> 1..3]
  /\ stamp \in [Visitor -> 0..now]
  /\ read \in [Visitor -> 0..MaxUsers]
  /\ served \in [Visitor -> Outcome]
  /\ phase \in [Admin -> {"idle", "changed"}]
  /\ filledAt \in 0..now
  /\ settled \in BOOLEAN
  /\ since \in [Visitor -> BOOLEAN]
  /\ failed \in [Visitor -> BOOLEAN]

Init ==
  /\ now = 0
  /\ accounts = 0
  /\ n = 0 /\ known = FALSE /\ until = 0
  /\ mu = Nobody
  /\ pc = [v \in Visitor |-> "idle"]
  /\ round = [v \in Visitor |-> 1]
  /\ stamp = [v \in Visitor |-> 0]
  /\ read = [v \in Visitor |-> 0]
  /\ served = [v \in Visitor |-> "none"]
  /\ phase = [a \in Admin |-> "idle"]
  /\ filledAt = 0
  /\ settled = FALSE
  /\ since = [v \in Visitor |-> FALSE]
  /\ failed = [v \in Visitor |-> FALSE]

Tick ==
  /\ now < MaxNow
  /\ now' = now + 1
  /\ UNCHANGED <<accounts, counter, mu, request, phase, history>>
-----------------------------------------------------------------------------
(* What a guard does with each count *)

Mode(count) == IF count > 0 THEN "session" ELSE IF Basic THEN "basic" ELSE "open"

Continue(v, next) ==
  /\ round' = [round EXCEPT ![v] = next]
  /\ pc' = [pc EXCEPT ![v] = "counting"]
  /\ UNCHANGED served

Serve(v, outcome) ==
  /\ served' = [served EXCEPT ![v] = outcome]
  /\ pc' = [pc EXCEPT ![v] = "done"]
  /\ UNCHANGED round

\* locked(), then authenticate(): open mode lets everybody in; a password or a session
\* may be good or not (Accounts), and a refusal counts once more to choose its form.
Decide(v, count) ==
  \/ /\ round[v] = 1
     /\ IF Mode(count) = "open" /\ APIKey THEN Serve(v, "locked") ELSE Continue(v, 2)
  \/ round[v] = 2 /\ Serve(v, Mode(count))
  \/ round[v] = 2 /\ Mode(count) # "open" /\ Continue(v, 3)
  \/ round[v] = 3 /\ Serve(v, "refused")

Arrive(v) ==
  /\ pc[v] = "idle"
  /\ pc' = [pc EXCEPT ![v] = "counting"]
  /\ since' = [since EXCEPT ![v] = settled]
  /\ UNCHANGED <<now, accounts, counter, mu, round, stamp, read, served, failed, phase,
                 history>>

Fresh == known /\ now < until

\* The memo is fresh: locked and unlocked in one step.  The clock is read under the lock.
CountHit(v) ==
  /\ pc[v] = "counting"
  /\ mu = Nobody
  /\ Fresh
  /\ stamp' = [stamp EXCEPT ![v] = now]
  /\ Decide(v, n)
  /\ UNCHANGED <<now, accounts, counter, mu, read, since, failed, phase, history>>

CountMissUnlocked(v) ==
  /\ pc[v] = "counting"
  /\ mu = Nobody
  /\ ~Fresh
  /\ stamp' = [stamp EXCEPT ![v] = now]
  /\ pc' = [pc EXCEPT ![v] = "querying"]
  /\ UNCHANGED <<now, accounts, counter, mu, round, read, served, since, failed, phase,
                 history>>

CountMiss(v) ==
  /\ pc[v] = "counting"
  /\ mu = Nobody
  /\ ~Fresh
  /\ mu' = v
  /\ stamp' = [stamp EXCEPT ![v] = now]
  /\ pc' = [pc EXCEPT ![v] = "querying"]
  /\ UNCHANGED <<now, accounts, counter, round, read, served, since, failed, phase, history>>

CountUsers(v) ==
  /\ pc[v] = "querying"
  /\ read' = [read EXCEPT ![v] = accounts]
  /\ pc' = [pc EXCEPT ![v] = "storing"]
  /\ UNCHANGED <<now, accounts, counter, mu, round, stamp, served, since, failed, phase,
                 history>>

Store(v) ==
  /\ pc[v] = "storing"
  /\ n' = read[v]
  /\ known' = TRUE
  /\ read' = [read EXCEPT ![v] = 0]
  /\ Decide(v, read[v])
  /\ UNCHANGED <<now, accounts, stamp, since, failed, phase, history>>

CountStore(v) ==
  /\ Store(v)
  /\ until' = stamp[v] + TTL
  /\ mu' = Nobody

\* The query fails: the known value again, however old, or 0 when none is known.
AnswerOnError == IF known THEN n ELSE 0

CountFails(v) ==
  /\ pc[v] = "querying"
  /\ mu' = Nobody
  /\ failed' = [failed EXCEPT ![v] = TRUE]
  /\ Decide(v, AnswerOnError)
  /\ UNCHANGED <<now, accounts, counter, read, stamp, since, phase, history>>

Return(v) ==
  /\ pc[v] = "done"
  /\ pc' = [pc EXCEPT ![v] = "idle"]
  /\ round' = [round EXCEPT ![v] = 1]
  /\ stamp' = [stamp EXCEPT ![v] = 0]
  /\ read' = [read EXCEPT ![v] = 0]
  /\ served' = [served EXCEPT ![v] = "none"]
  /\ since' = [since EXCEPT ![v] = FALSE]
  /\ failed' = [failed EXCEPT ![v] = FALSE]
  /\ UNCHANGED <<now, accounts, counter, mu, phase, history>>
-----------------------------------------------------------------------------
(* Accounts come and go; the last one too, when it is a viewer *)

Change ==
  \/ /\ accounts < MaxUsers
     /\ accounts' = accounts + 1
     /\ filledAt' = IF accounts = 0 THEN now ELSE filledAt
     /\ UNCHANGED <<settled, since>>
  \/ /\ accounts > 0
     /\ accounts' = accounts - 1
     /\ settled' = (settled /\ accounts > 1)
     /\ since' = [v \in Visitor |-> since[v] /\ accounts > 1]
     /\ UNCHANGED filledAt

DashboardChange(a) ==
  /\ phase[a] = "idle"
  /\ Change
  /\ phase' = [phase EXCEPT ![a] = "changed"]
  /\ UNCHANGED <<now, counter, mu, pc, round, stamp, read, served, failed>>

Invalidate(a) ==
  /\ phase[a] = "changed"
  /\ mu = Nobody
  /\ known' = FALSE
  /\ settled' = (accounts > 0)
  /\ phase' = [phase EXCEPT ![a] = "idle"]
  /\ UNCHANGED <<now, accounts, n, until, mu, request, filledAt>>

CommandChange ==
  /\ Change
  /\ UNCHANGED <<now, counter, mu, pc, round, stamp, read, served, failed, phase>>
-----------------------------------------------------------------------------
VisitorStep(v) == CountHit(v) \/ CountMiss(v) \/ CountUsers(v) \/ CountStore(v) \/ Return(v)

Next ==
  \/ Tick
  \/ \E v \in Visitor : Arrive(v) \/ VisitorStep(v) \/ CountFails(v)
  \/ \E a \in Admin : DashboardChange(a) \/ Invalidate(a)
  \/ CommandChange

Spec == Init /\ [][Next]_vars

-----------------------------------------------------------------------------
(* Properties *)

\* Nobody is let in without an account while there are some, but for TTL after the first
\* one was made, or by a count whose query failed: the staleness of the memo is bounded.
OpenBounded ==
  \A v \in Visitor :
    served[v] = "open" => accounts = 0 \/ stamp[v] < filledAt + TTL \/ failed[v]

\* An account made in the dashboard shuts it at once: a request that arrives after the
\* invalidate, while there are accounts, is not let in without one unless its query fails,
\* although a count of an earlier request may still have been in progress.
ClosedAtOnce ==
  \A v \in Visitor :
    served[v] = "open" /\ since[v] => failed[v]

\* The mutex is held across a query and no longer: no answer, given in whatever round and
\* with whatever error, leaves it locked, or every page and every change of the accounts
\* would wait for ever.
HeldForQuery == mu # Nobody => pc[mu] \in {"querying", "storing"}

\* The dashboard is open only without accounts, within TTL of the first one, or by a count
\* that failed; an account made in the dashboard shuts it to every request that arrives
\* afterwards; and the mutex of the count is given back in whatever way a count ends.
DashGuarded == OpenBounded /\ ClosedAtOnce /\ HeldForQuery

\* locked(): the dashboard "must refuse to serve" when "it has NO auth of its own while
\* the REST API DOES require a bearer token" (queries that fail aside).
LockedWithKey == APIKey => \A v \in Visitor : served[v] = "open" => failed[v]

\* "On a query error it keeps serving the last known value rather than flipping the whole
\* dashboard to a different auth mode".
ErrorKeepsMode ==
  [][\A v \in Visitor :
       pc[v] = "querying" /\ pc'[v] \notin {"querying", "storing"} => Mode(AnswerOnError) = Mode(n)]_vars
=============================================================================
