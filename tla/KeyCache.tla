------------------------------ MODULE KeyCache ------------------------------
(***************************************************************************)
(* Is this bearer token a live key?  KeyCache.Valid and Invalidate of      *)
(* internal/store/cache.go over the api_keys table (apikeys.go), asked by  *)
(* tokenOK of internal/api/router.go beside the dashboard's key handlers   *)
(* and, in a second process, `msbd keys create|revoke|rm`.                 *)
(*                                                                         *)
(* Both answers are kept for TTL.  The query and the insertion of its      *)
(* answer are made under no common lock, so anything may happen between    *)
(* them.  The dashboard calls Invalidate after every change; the commands  *)
(* cannot.                                                                 *)
(***************************************************************************)
EXTENDS Naturals, FiniteSets

CONSTANTS
  Caller,        \* concurrent API requests
  Admin,         \* concurrent requests of the dashboard's key page
  Key,           \* tokens that can be minted; each stands for its row as well
  Bogus,         \* tokens nobody ever minted
  TTL,           \* verifyTTL
  TouchInterval, \* touchInterval
  MaxEntries,    \* maxEntries
  MaxNow,        \* bound: the clock
  NoToken, NoEntry, NoChange

Token == Key \cup Bogus

ASSUME KeysAssumption ==
  /\ IsFiniteSet(Token)
  /\ Key \cap Bogus = {}
  /\ NoToken \notin Token
  /\ TTL \in Nat \ {0}
  /\ TouchInterval \in Nat
  /\ MaxEntries \in Nat \ {0}
  /\ MaxNow \in Nat

RowState == {"unborn", "live", "dead", "gone"}  \* dead: revoked or expired

Change == [key : Key, to : {"live", "dead", "gone"}]

Entry == [ok : BOOLEAN, expires : Nat, touched : Nat]

ASSUME NoEntryAssumption == NoEntry \notin Entry /\ NoChange \notin Change

VARIABLES
  now,      \* the clock of the daemon's process
  row,      \* the api_keys table, by key
  used,     \* its last_used_at column
  cache,    \* KeyCache.m
  pc,       \* where each request is
  token,    \* the bearer token it carries
  stamp,    \* the `now` of AuthConfigured, then of Valid
  verdict,  \* what its last query said
  phase,    \* where each dashboard request is
  change,   \* what that request has just written
  diedAt,   \* history: when a key was revoked, expired or deleted
  settled,  \* history: the last change of a key whose Invalidate has returned
  since     \* history: settled when the request arrived

table == <<row, diedAt>>
request == <<pc, token, stamp, verdict, since>>
dashboard == <<phase, change>>
vars == <<now, table, used, cache, request, dashboard, settled>>

At == {"idle", "looking", "verifying", "touching", "inserting", "accepted", "refused"}

Verdict == {"none", "ok", "bad", "error"}

TypeOK ==
  /\ now \in 0..MaxNow
  /\ row \in [Token -> RowState]
  /\ used \in [Token -> Nat]
  /\ cache \in [Token -> Entry \cup {NoEntry}]
  /\ \A t \in Token : cache[t] # NoEntry => cache[t].expires <= now + TTL
  /\ pc \in [Caller -> At]
  /\ token \in [Caller -> Token \cup {NoToken}]
  /\ stamp \in [Caller -> 0..now]
  /\ verdict \in [Caller -> Verdict]
  /\ phase \in [Admin -> {"idle", "clearing"}]
  /\ change \in [Admin -> Change \cup {NoChange}]
  /\ \A a \in Admin : phase[a] = "clearing" => change[a] \in Change
  /\ diedAt \in [Token -> Nat]
  /\ settled \in [Key -> RowState]
  /\ since \in [Caller -> [Key -> RowState]]

HasRow(k) == row[k] \in {"live", "dead"}

Init ==
  /\ now = 0
  /\ row = [t \in Token |-> "unborn"]
  /\ used = [t \in Token |-> 0]
  /\ cache = [t \in Token |-> NoEntry]
  /\ pc = [c \in Caller |-> "idle"]
  /\ token = [c \in Caller |-> NoToken]
  /\ stamp = [c \in Caller |-> 0]
  /\ verdict = [c \in Caller |-> "none"]
  /\ phase = [a \in Admin |-> "idle"]
  /\ change = [a \in Admin |-> NoChange]
  /\ diedAt = [t \in Token |-> 0]
  /\ settled = [k \in Key |-> "unborn"]
  /\ since = [c \in Caller |-> [k \in Key |-> "unborn"]]

Goto(c, next) == pc' = [pc EXCEPT ![c] = next]

Tick ==
  /\ now < MaxNow
  /\ now' = now + 1
  /\ UNCHANGED <<table, used, cache, request, dashboard, settled>>
-----------------------------------------------------------------------------
(* Valid *)

\* tokenOK with a token somebody has or a made-up one; Valid hashes it, reads the clock.
Arrive(c) ==
  /\ pc[c] = "idle"
  /\ \E t \in {k \in Key : row[k] # "unborn"} \cup Bogus :
       token' = [token EXCEPT ![c] = t]
  /\ stamp' = [stamp EXCEPT ![c] = now]
  /\ since' = [since EXCEPT ![c] = settled]
  /\ Goto(c, "looking")
  /\ UNCHANGED <<now, table, used, cache, verdict, dashboard, settled>>

Cached(c) == cache[token[c]] # NoEntry /\ stamp[c] < cache[token[c]].expires

\* needsTouch marks the entry before the touch is made.
Hit(c) ==
  LET t == token[c]
      needsTouch == cache[t].ok /\ stamp[c] >= cache[t].touched + TouchInterval
  IN /\ pc[c] = "looking"
     /\ Cached(c)
     /\ cache' = IF needsTouch THEN [cache EXCEPT ![t].touched = stamp[c]] ELSE cache
     /\ Goto(c, IF needsTouch THEN "touching" ELSE IF cache[t].ok THEN "accepted" ELSE "refused")
     /\ UNCHANGED <<now, table, used, token, stamp, verdict, since,
                    dashboard, settled>>

Miss(c) ==
  /\ pc[c] = "looking"
  /\ ~Cached(c)
  /\ Goto(c, "verifying")
  /\ UNCHANGED <<now, table, used, cache, token, stamp, verdict, since, dashboard, settled>>

VerifyAnyRow(c) ==
  LET ok == HasRow(token[c])
  IN /\ pc[c] = "verifying"
     /\ verdict' = [verdict EXCEPT ![c] = IF ok THEN "ok" ELSE "bad"]
     /\ Goto(c, IF ok THEN "touching" ELSE "inserting")
     /\ UNCHANGED <<now, table, used, cache, token, stamp, since, dashboard, settled>>

\* VerifyAPIKey: the row exists, is not revoked and not expired.
Verify(c) ==
  LET ok == row[token[c]] = "live"
  IN /\ pc[c] = "verifying"
     /\ verdict' = [verdict EXCEPT ![c] = IF ok THEN "ok" ELSE "bad"]
     /\ Goto(c, IF ok THEN "touching" ELSE "inserting")
     /\ UNCHANGED <<now, table, used, cache, token, stamp, since, dashboard, settled>>

\* The query fails, for instance because this request's client has gone.
VerifyFails(c) ==
  /\ pc[c] = "verifying"
  /\ verdict' = [verdict EXCEPT ![c] = "error"]
  /\ Goto(c, "inserting")
  /\ UNCHANGED <<now, table, used, cache, token, stamp, since, dashboard, settled>>

\* TouchAPIKey; its error is ignored.
Touch(c) ==
  /\ pc[c] = "touching"
  /\ \/ used' = [used EXCEPT ![token[c]] = now]
     \/ UNCHANGED used
  /\ Goto(c, IF verdict[c] = "none" THEN "accepted" ELSE "inserting")
  /\ UNCHANGED <<now, table, cache, token, stamp, verdict, since, dashboard, settled>>

Entries == {t \in Token : cache[t] # NoEntry}

FullAbove == Cardinality(Entries) > MaxEntries

\* len(c.m) >= maxEntries: the next insertion drops the map wholesale.
Full == Cardinality(Entries) >= MaxEntries

Empty == [t \in Token |-> NoEntry]

Expiry(c) == stamp[c] + TTL

\* Positive and negative decisions are kept alike, counted from before the query.
Insert(c) ==
  LET ok == verdict[c] = "ok"
      entry == [ok |-> ok, expires |-> Expiry(c), touched |-> IF ok THEN stamp[c] ELSE 0]
  IN /\ pc[c] = "inserting"
     /\ cache' = [IF Full THEN Empty ELSE cache EXCEPT ![token[c]] = entry]
     /\ Goto(c, IF ok THEN "accepted" ELSE "refused")
     /\ UNCHANGED <<now, table, used, token, stamp, verdict, since,
                    dashboard, settled>>

Answered == {"accepted", "refused"}

\* The handler runs, or 401 is sent.
Return(c) ==
  /\ pc[c] \in Answered
  /\ token' = [token EXCEPT ![c] = NoToken]
  /\ stamp' = [stamp EXCEPT ![c] = 0]
  /\ verdict' = [verdict EXCEPT ![c] = "none"]
  /\ since' = [since EXCEPT ![c] = [k \in Key |-> "unborn"]]
  /\ Goto(c, "idle")
  /\ UNCHANGED <<now, table, used, cache, dashboard, settled>>
-----------------------------------------------------------------------------
(* The table: findKey and the statement it leads to are one step *)

\* CreateAPIKey: a row with a token nobody has seen.
CreateAPIKey(k) ==
  /\ row[k] = "unborn"
  /\ row' = [row EXCEPT ![k] = "live"]
  /\ UNCHANGED diedAt

Dies(k) == diedAt' = IF row[k] = "live" THEN [diedAt EXCEPT ![k] = now] ELSE diedAt

\* RevokeAPIKey: revoking twice is a no-op that succeeds.
RevokeAPIKey(k) ==
  /\ HasRow(k)
  /\ row' = [row EXCEPT ![k] = "dead"]
  /\ Dies(k)

DeleteAPIKey(k) ==
  /\ HasRow(k)
  /\ row' = [row EXCEPT ![k] = "gone"]
  /\ Dies(k)

Write(k, to) ==
  \/ to = "live" /\ CreateAPIKey(k)
  \/ to = "dead" /\ RevokeAPIKey(k)
  \/ to = "gone" /\ DeleteAPIKey(k)

\* expires_at passes.
Expire(k) ==
  /\ row[k] = "live"
  /\ row' = [row EXCEPT ![k] = "dead"]
  /\ Dies(k)
  /\ UNCHANGED <<now, used, cache, request, dashboard, settled>>

\* keyCreate, keyRevoke, keyDelete of the dashboard; Invalidate follows.
DashboardWrite(a) ==
  /\ phase[a] = "idle"
  /\ \E k \in Key, to \in {"live", "dead", "gone"} :
       /\ Write(k, to)
       /\ change' = [change EXCEPT ![a] = [key |-> k, to |-> to]]
  /\ phase' = [phase EXCEPT ![a] = "clearing"]
  /\ UNCHANGED <<now, used, cache, request, settled>>

\* The half of Invalidate that drops the decisions (KeyGate has the other one).
Invalidate(a) ==
  /\ phase[a] = "clearing"
  /\ cache' = Empty
  /\ settled' = [settled EXCEPT ![change[a].key] = change[a].to]
  /\ phase' = [phase EXCEPT ![a] = "idle"]
  /\ change' = [change EXCEPT ![a] = NoChange]
  /\ UNCHANGED <<now, table, used, request>>

\* `msbd keys ...` in another process: the cache of the daemon is out of its reach.
CommandWrite ==
  /\ \E k \in Key, to \in {"live", "dead", "gone"} : Write(k, to)
  /\ UNCHANGED <<now, used, cache, request, dashboard, settled>>

\* The daemon dies and comes back with NewKeyCache.
Restart ==
  /\ cache' = Empty
  /\ pc' = [c \in Caller |-> "idle"]
  /\ token' = [c \in Caller |-> NoToken]
  /\ stamp' = [c \in Caller |-> 0]
  /\ verdict' = [c \in Caller |-> "none"]
  /\ since' = [c \in Caller |-> [k \in Key |-> "unborn"]]
  /\ phase' = [a \in Admin |-> "idle"]
  /\ change' = [a \in Admin |-> NoChange]
  /\ UNCHANGED <<now, table, used, settled>>
-----------------------------------------------------------------------------
RequestStep(c) ==
  \/ Hit(c)
  \/ Miss(c)
  \/ Verify(c)
  \/ Touch(c)
  \/ Insert(c)
  \/ Return(c)

Next ==
  \/ Tick
  \/ \E c \in Caller : Arrive(c) \/ RequestStep(c) \/ VerifyFails(c)
  \/ \E a \in Admin : DashboardWrite(a) \/ Invalidate(a)
  \/ \E k \in Key : Expire(k)
  \/ CommandWrite
  \/ Restart

Spec == Init /\ [][Next]_vars
-----------------------------------------------------------------------------
(* Properties *)

\* The revocation latency is bounded by verifyTTL, whoever revoked the key and whichever
\* lookups and insertions were in flight: an accepted token was live less than TTL before
\* the clock reading of its check.
AcceptBounded ==
  \A c \in Caller :
    pc[c] = "accepted" =>
      row[token[c]] = "live" \/ (row[token[c]] # "unborn" /\ stamp[c] < diedAt[token[c]] + TTL)

\* A token flood cannot grow the cache past its cap.
CacheBounded == Cardinality(Entries) <= MaxEntries

\* "A revoke through the dashboard is instant, because that path calls Invalidate
\* directly": a request that arrives after it is not let in with that key.
RevokedAtOnce ==
  \A c \in Caller :
    pc[c] = "accepted" => since[c][token[c]] \notin {"dead", "gone"}

\* "Valid reports whether raw is a live store-backed API key": a live key is refused
\* only to a request whose own query failed.
LiveKeyAccepted ==
  \A c \in Caller :
    pc[c] = "refused" /\ token[c] \in Key =>
      row[token[c]] # "live" \/ verdict[c] = "error"

\* "touchInterval throttles last_used_at writes for a busy key": no two of them are
\* closer together.
TouchThrottled ==
  [][\A k \in Key :
       used'[k] # used[k] => used[k] = 0 \/ used'[k] >= used[k] + TouchInterval]_vars
=============================================================================
