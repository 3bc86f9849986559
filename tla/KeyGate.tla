------------------------------ MODULE KeyGate -------------------------------
(***************************************************************************)
(* Does the REST API ask for a token at all?  authRequired of              *)
(* internal/api/router.go through KeyCache.AuthConfigured and Invalidate   *)
(* of internal/store/cache.go, beside the dashboard's key handlers and, in *)
(* a second process, `msbd keys create|revoke|rm`.  No static --api-key is *)
(* configured: one would fix the answer.                                   *)
(*                                                                         *)
(* The answer is kept for TTL.  Unlike the decisions of KeyCache, it is    *)
(* queried and stored under one lock, anyMu, which Invalidate needs too;   *)
(* but the clock is read before the lock is waited for.                    *)
(***************************************************************************)
EXTENDS Naturals

CONSTANTS
  Caller,   \* concurrent API requests
  Admin,    \* concurrent requests of the dashboard's key page
  Key,      \* rows that can be made
  TTL,      \* verifyTTL
  MaxNow,   \* bound: the clock
  NoCaller, \* anyMu is free
  NoKey

ASSUME GateAssumption ==
  /\ TTL \in Nat \ {0}
  /\ MaxNow \in Nat
  /\ NoCaller \notin Caller
  /\ NoKey \notin Key

RowState == {"unborn", "live", "dead", "gone"}  \* dead: revoked or expired

VARIABLES
  now,      \* the clock of the daemon's process
  row,      \* the api_keys table
  anyMu,    \* holder of KeyCache.anyMu
  anyVal, anyUntil,
  pc,       \* where each request is
  stamp,    \* the `now` of its AuthConfigured
  count,    \* what its query said
  phase,    \* where each dashboard request is
  changed,  \* the key it has just written
  keyedAt,  \* history: when the table last stopped being empty
  settled,  \* history: keys with a change whose Invalidate has returned
  since     \* history: settled when the request arrived

table == <<row, keyedAt>>
memo == <<anyVal, anyUntil>>
request == <<pc, stamp, count, since>>
dashboard == <<phase, changed>>
vars == <<now, table, anyMu, memo, request, dashboard, settled>>

At == {"idle", "asking", "locked", "counted", "open", "required"}

HasRow(k) == row[k] \in {"live", "dead"}

TypeOK ==
  /\ now \in 0..MaxNow
  /\ row \in [Key -> RowState]
  /\ anyMu \in Caller \cup {NoCaller}
  /\ anyVal \in BOOLEAN
  /\ anyUntil \in 0..(now + TTL)
  /\ pc \in [Caller -> At]
  /\ stamp \in [Caller -> 0..now]
  /\ count \in [Caller -> {"none", "keyed", "keyless"}]
  /\ phase \in [Admin -> {"idle", "clearing"}]
  /\ changed \in [Admin -> Key \cup {NoKey}]
  /\ \A a \in Admin : phase[a] = "clearing" => changed[a] \in Key
  /\ keyedAt \in 0..now
  /\ settled \subseteq Key
  /\ since \in [Caller -> SUBSET Key]

Init ==
  /\ now = 0
  /\ row = [k \in Key |-> "unborn"]
  /\ anyMu = NoCaller
  /\ anyVal = FALSE
  /\ anyUntil = 0
  /\ pc = [c \in Caller |-> "idle"]
  /\ stamp = [c \in Caller |-> 0]
  /\ count = [c \in Caller |-> "none"]
  /\ phase = [a \in Admin |-> "idle"]
  /\ changed = [a \in Admin |-> NoKey]
  /\ keyedAt = 0
  /\ settled = {}
  /\ since = [c \in Caller |-> {}]

Goto(c, next) == pc' = [pc EXCEPT ![c] = next]

Tick ==
  /\ now < MaxNow
  /\ now' = now + 1
  /\ UNCHANGED <<table, anyMu, memo, request, dashboard, settled>>
-----------------------------------------------------------------------------
(* AuthConfigured *)

\* The clock is read before anyMu.
Arrive(c) ==
  /\ pc[c] = "idle"
  /\ stamp' = [stamp EXCEPT ![c] = now]
  /\ since' = [since EXCEPT ![c] = settled]
  /\ Goto(c, "asking")
  /\ UNCHANGED <<now, table, anyMu, memo, count, dashboard, settled>>

\* The memo is fresh enough: locked and unlocked in one step.
AnyHit(c) ==
  /\ pc[c] = "asking"
  /\ anyMu = NoCaller
  /\ stamp[c] < anyUntil
  /\ Goto(c, IF anyVal THEN "required" ELSE "open")
  /\ UNCHANGED <<now, table, anyMu, memo, stamp, count, since, dashboard, settled>>

AnyMissUnlocked(c) ==
  /\ pc[c] = "asking"
  /\ anyMu = NoCaller
  /\ stamp[c] >= anyUntil
  /\ Goto(c, "locked")
  /\ UNCHANGED <<now, table, anyMu, memo, stamp, count, since, dashboard, settled>>

AnyMiss(c) ==
  /\ pc[c] = "asking"
  /\ anyMu = NoCaller
  /\ stamp[c] >= anyUntil
  /\ anyMu' = c
  /\ Goto(c, "locked")
  /\ UNCHANGED <<now, table, memo, stamp, count, since, dashboard, settled>>

Counted(c, answer) ==
  /\ pc[c] = "locked"
  /\ count' = [count EXCEPT ![c] = answer]
  /\ Goto(c, "counted")
  /\ UNCHANGED <<now, table, anyMu, memo, stamp, since, dashboard, settled>>

CountLiveKeys(c) == Counted(c, IF \E k \in Key : row[k] = "live" THEN "keyed" ELSE "keyless")

\* CountAPIKeys counts every row, dead ones too.
CountAPIKeys(c) == Counted(c, IF \E k \in Key : HasRow(k) THEN "keyed" ELSE "keyless")

\* The query fails: assume that there are keys.
CountFails(c) == Counted(c, "keyed")

Memoise(c) ==
  /\ pc[c] = "counted"
  /\ anyVal' = (count[c] = "keyed")
  /\ count' = [count EXCEPT ![c] = "none"]
  /\ Goto(c, IF count[c] = "keyed" THEN "required" ELSE "open")
  /\ UNCHANGED <<now, table, stamp, since, dashboard, settled>>

AnyStoreKeepsLock(c) ==
  /\ Memoise(c)
  /\ anyUntil' = stamp[c] + TTL
  /\ UNCHANGED anyMu

\* The answer is kept from before the wait for the lock; the deferred unlock.
AnyStore(c) ==
  /\ Memoise(c)
  /\ anyUntil' = stamp[c] + TTL
  /\ anyMu' = NoCaller

\* The handler runs without a token, or tokenOK decides (KeyCache).
Return(c) ==
  /\ pc[c] \in {"open", "required"}
  /\ stamp' = [stamp EXCEPT ![c] = 0]
  /\ since' = [since EXCEPT ![c] = {}]
  /\ Goto(c, "idle")
  /\ UNCHANGED <<now, table, anyMu, memo, count, dashboard, settled>>
-----------------------------------------------------------------------------
(* The table: findKey and the statement it leads to are one step *)

CreateAPIKey(k) ==
  /\ row[k] = "unborn"
  /\ row' = [row EXCEPT ![k] = "live"]
  /\ keyedAt' = IF \E j \in Key : HasRow(j) THEN keyedAt ELSE now

\* Revoking twice is a no-op that succeeds.
RevokeAPIKey(k) ==
  /\ HasRow(k)
  /\ row' = [row EXCEPT ![k] = "dead"]
  /\ UNCHANGED keyedAt

DeleteAPIKey(k) ==
  /\ HasRow(k)
  /\ row' = [row EXCEPT ![k] = "gone"]
  /\ UNCHANGED keyedAt

Write(k) == CreateAPIKey(k) \/ RevokeAPIKey(k) \/ DeleteAPIKey(k)

\* keyCreate, keyRevoke, keyDelete of the dashboard; Invalidate follows.
DashboardWrite(a) ==
  /\ phase[a] = "idle"
  /\ \E k \in Key : Write(k) /\ changed' = [changed EXCEPT ![a] = k]
  /\ phase' = [phase EXCEPT ![a] = "clearing"]
  /\ UNCHANGED <<now, anyMu, memo, request, settled>>

\* The half of Invalidate that expires the memo (KeyCache has the other one).
Invalidate(a) ==
  /\ phase[a] = "clearing"
  /\ anyMu = NoCaller
  /\ anyUntil' = 0
  /\ settled' = settled \cup {changed[a]}
  /\ phase' = [phase EXCEPT ![a] = "idle"]
  /\ changed' = [changed EXCEPT ![a] = NoKey]
  /\ UNCHANGED <<now, table, anyMu, anyVal, request>>

\* `msbd keys ...` in another process: the memo of the daemon is out of its reach.
CommandWrite ==
  /\ \E k \in Key : Write(k)
  /\ UNCHANGED <<now, anyMu, memo, request, dashboard, settled>>

\* The daemon dies and comes back with NewKeyCache.
Restart ==
  /\ anyMu' = NoCaller
  /\ anyVal' = FALSE
  /\ anyUntil' = 0
  /\ pc' = [c \in Caller |-> "idle"]
  /\ stamp' = [c \in Caller |-> 0]
  /\ count' = [c \in Caller |-> "none"]
  /\ since' = [c \in Caller |-> {}]
  /\ phase' = [a \in Admin |-> "idle"]
  /\ changed' = [a \in Admin |-> NoKey]
  /\ UNCHANGED <<now, table, settled>>
-----------------------------------------------------------------------------
RequestStep(c) ==
  \/ AnyHit(c)
  \/ AnyMiss(c)
  \/ CountAPIKeys(c)
  \/ AnyStore(c)
  \/ Return(c)

Next ==
  \/ Tick
  \/ \E c \in Caller : Arrive(c) \/ RequestStep(c) \/ CountFails(c)
  \/ \E a \in Admin : DashboardWrite(a) \/ Invalidate(a)
  \/ CommandWrite
  \/ Restart

Spec == Init /\ [][Next]_vars

(* A goroutine that can run does run, a query comes back, and sync.Mutex does not       *)
(* starve a waiter.  Nobody owes a tick, a change or a failure.                          *)
Fairness ==
  /\ \A c \in Caller :
       /\ WF_vars(RequestStep(c))
       /\ SF_vars(AnyHit(c) \/ AnyMiss(c))
  /\ \A a \in Admin : SF_vars(Invalidate(a))

FairSpec == Spec /\ Fairness
-----------------------------------------------------------------------------
(* Properties *)

\* The API is served open only while the table is empty or less than TTL after it stopped
\* being empty, failing queries, waits for the lock and `msbd keys create` included ("it
\* fails CLOSED"; revoking the last key does not reopen it).
OpenBounded ==
  \A c \in Caller :
    pc[c] = "open" => (\A k \in Key : ~HasRow(k)) \/ stamp[c] < keyedAt + TTL

\* A key made in the dashboard closes the API at once: once its Invalidate has returned,
\* no request that arrives later is served open while the key has a row, although an
\* earlier request may still have been waiting for its count.
ClosedAtOnce ==
  \A c \in Caller : pc[c] = "open" => \A k \in since[c] : row[k] = "gone"

\* A count is the only thing anyMu is held for: whoever holds it is between the look at
\* the memo and its store, whether the query works or fails, and waits for nobody else.
AnyMuReturned == \A c \in Caller : anyMu = c => pc[c] \in {"locked", "counted"}

\* Every request gets past the gate and every change of the dashboard returns, however
\* many of them queue behind a count.
GatePasses ==
  /\ \A c \in Caller : pc[c] = "asking" ~> pc[c] = "idle"
  /\ \A a \in Admin : phase[a] = "clearing" ~> phase[a] = "idle"
=============================================================================
