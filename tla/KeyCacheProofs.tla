--------------------------- MODULE KeyCacheProofs ---------------------------
(***************************************************************************)
(* How long a dead key is accepted, and how large the cache grows, for any *)
(* number of requests, key pages and keys and for any lifetime of a        *)
(* decision.                                                               *)
(*                                                                         *)
(* The argument: a positive verdict was true at the clock reading it is    *)
(* kept from (Vouched, first part), so a positive decision in the cache    *)
(* expires no later than TTL after its key died (second part), however     *)
(* much later than the query it was inserted.                              *)
(***************************************************************************)
EXTENDS KeyCache, FiniteSetTheorems, TLAPS

\* A key that died has a time of death; the others are live or were never made.
Live(t) == row[t] = "live"

Died(t) == row[t] \in {"dead", "gone"}

\* What a request may hold where it is.
Control ==
  \A c \in Caller :
    /\ pc[c] # "idle" => token[c] \in Token
    /\ pc[c] \in {"idle", "looking", "verifying"} => verdict[c] = "none"
    /\ pc[c] = "inserting" => verdict[c] # "none"
    /\ pc[c] = "touching" => verdict[c] \in {"none", "ok"}

Vouched ==
  /\ \A c \in Caller :
       verdict[c] = "ok" =>
         Live(token[c]) \/ (Died(token[c]) /\ stamp[c] <= diedAt[token[c]])
  /\ \A t \in Token :
       cache[t] # NoEntry /\ cache[t].ok = TRUE =>
         Live(t) \/ (Died(t) /\ cache[t].expires <= diedAt[t] + TTL)
  /\ \A c \in Caller :
       pc[c] = "accepted" \/ (pc[c] = "touching" /\ verdict[c] = "none") =>
         Live(token[c]) \/ (Died(token[c]) /\ stamp[c] < diedAt[token[c]] + TTL)

Inv == TypeOK /\ CacheBounded /\ Control /\ Vouched

\* No key, no request, no decision.
LEMMA InvInit == Init => Inv
<1> SUFFICES ASSUME Init PROVE Inv
  OBVIOUS
<1> USE KeysAssumption, NoEntryAssumption
<1>1. now \in 0..MaxNow /\ stamp \in [Caller -> 0..now]
  BY DEF Init
<1>2. TypeOK
  BY <1>1 DEF Init, TypeOK, RowState, At, Verdict
<1>3. CacheBounded
  <2>1. Entries = {}
    BY DEF Init, Entries
  <2> QED
    BY <2>1, FS_EmptySet DEF CacheBounded
<1>4. Control /\ Vouched
  BY DEF Init, Control, Vouched
<1> QED
  BY <1>2, <1>3, <1>4 DEF Inv

\* The decisions in the cache can be counted.
LEMMA EntriesFinite ==
  IsFiniteSet(Entries) /\ Cardinality(Entries) \in Nat
<1>1. IsFiniteSet(Entries)
  BY KeysAssumption, FS_Subset DEF Entries
<1> QED
  BY <1>1, FS_CardinalityType

\* What one change of the table does to a key: it is born, or it dies now, or it was dead.
LEMMA WriteRow ==
  ASSUME TypeOK, NEW k \in Key,
         (\E to \in {"live", "dead", "gone"} : Write(k, to)) \/ Expire(k)
  PROVE  /\ row' \in [Token -> RowState] /\ diedAt' \in [Token -> Nat]
         /\ \A t \in Token : Live(t) => Live(t)' \/ (Died(t)' /\ diedAt'[t] = now)
         /\ \A t \in Token : Died(t) => Died(t)' /\ diedAt'[t] = diedAt[t]
<1>1. now \in Nat /\ k \in Token
  BY KeysAssumption DEF TypeOK, Token
<1>2. CASE CreateAPIKey(k)
  BY <1>1, <1>2 DEF CreateAPIKey, TypeOK, RowState, Live, Died
<1>3. CASE RevokeAPIKey(k)
  BY <1>1, <1>3 DEF RevokeAPIKey, Dies, HasRow, TypeOK, RowState, Live, Died
<1>4. CASE DeleteAPIKey(k)
  BY <1>1, <1>4 DEF DeleteAPIKey, Dies, HasRow, TypeOK, RowState, Live, Died
<1>5. CASE Expire(k)
  BY <1>1, <1>5 DEF Expire, Dies, TypeOK, RowState, Live, Died
<1> QED
  BY <1>2, <1>3, <1>4, <1>5 DEF Write

\* A change of the table, by whom it may be, keeps what has been vouched for.
LEMMA WriteInv ==
  ASSUME Inv, NEW k \in Key,
         (\E to \in {"live", "dead", "gone"} : Write(k, to)) \/ Expire(k),
         UNCHANGED <<now, cache, request>>
  PROVE  CacheBounded' /\ Control' /\ Vouched'
<1> USE DEF Inv, request
<1>1. /\ \A t \in Token : Live(t) => Live(t)' \/ (Died(t)' /\ diedAt'[t] = now)
      /\ \A t \in Token : Died(t) => Died(t)' /\ diedAt'[t] = diedAt[t]
  BY WriteRow
<1>2. TTL \in Nat \ {0} /\ now \in Nat /\ \A c \in Caller : stamp[c] \in Nat /\ stamp[c] <= now
  BY KeysAssumption DEF TypeOK
<1>3. CacheBounded' /\ Control'
  BY DEF CacheBounded, Entries, Control
<1>4. ASSUME NEW c \in Caller, verdict[c] = "ok"
      PROVE  Live(token[c])' \/ (Died(token[c])' /\ stamp[c] <= diedAt'[token[c]])
  <2>1. token[c] \in Token /\ token'[c] = token[c]
    BY <1>4 DEF Control, TypeOK
  <2>2. Live(token[c]) \/ (Died(token[c]) /\ stamp[c] <= diedAt[token[c]])
    BY <1>4 DEF Vouched
  <2> QED
    BY <2>1, <2>2, <1>1, <1>2 DEF Live, Died
<1>5. ASSUME NEW t \in Token, cache[t] # NoEntry, cache[t].ok = TRUE
      PROVE  Live(t)' \/ (Died(t)' /\ cache[t].expires <= diedAt'[t] + TTL)
  <2>1. cache[t].expires <= now + TTL
    BY <1>5 DEF TypeOK
  <2> QED
    BY <1>1, <1>5, <2>1 DEF Vouched
<1>6. ASSUME NEW c \in Caller,
             pc[c] = "accepted" \/ (pc[c] = "touching" /\ verdict[c] = "none")
      PROVE  Live(token[c])' \/ (Died(token[c])' /\ stamp[c] < diedAt'[token[c]] + TTL)
  <2>1. token[c] \in Token /\ token'[c] = token[c]
    BY <1>6 DEF Control, TypeOK
  <2>2. Live(token[c]) \/ (Died(token[c]) /\ stamp[c] < diedAt[token[c]] + TTL)
    BY <1>6 DEF Vouched
  <2> QED
    BY <2>1, <2>2, <1>1, <1>2 DEF Live, Died
<1>7. Vouched'
  BY <1>4, <1>5, <1>6 DEF Vouched, Live, Died
<1> QED
  BY <1>3, <1>7

\* A step that leaves the table and the cache alone keeps the bound and the decisions.
LEMMA SameCache ==
  ASSUME Inv, UNCHANGED <<cache, row, diedAt>>
  PROVE  /\ CacheBounded'
         /\ \A t \in Token : cache'[t] # NoEntry /\ cache'[t].ok = TRUE =>
              Live(t)' \/ (Died(t)' /\ cache'[t].expires <= diedAt'[t] + TTL)
  BY DEF Inv, CacheBounded, Entries, Vouched, Live, Died

\* An emptied cache holds no decision.
LEMMA EmptyCache ==
  ASSUME cache' = Empty
  PROVE  /\ CacheBounded'
         /\ \A t \in Token : cache'[t] = NoEntry
<1>1. \A t \in Token : cache'[t] = NoEntry
  BY DEF Empty
<1>2. Entries' = {}
  BY <1>1 DEF Entries
<1> QED
  BY <1>1, <1>2, FS_EmptySet, KeysAssumption DEF CacheBounded

\* The clock advances: no decision or reading is later than it was allowed to be.
LEMMA TickInv == Inv /\ Tick => Inv'
<1> SUFFICES ASSUME Inv, Tick PROVE Inv'
  OBVIOUS
<1> USE DEF Inv, Tick, table, request, dashboard
<1>1. now \in Nat /\ now' = now + 1 /\ now' \in 0..MaxNow /\ TTL \in Nat
  BY KeysAssumption DEF TypeOK
<1>2. stamp' \in [Caller -> 0..now']
  BY <1>1 DEF TypeOK
<1>3. \A t \in Token : cache'[t] # NoEntry => cache'[t].expires <= now' + TTL
  <2> SUFFICES ASSUME NEW t \in Token, cache[t] # NoEntry PROVE cache[t].expires <= now' + TTL
    OBVIOUS
  <2>1. cache[t].expires \in Nat /\ cache[t].expires <= now + TTL
    BY DEF TypeOK, Entry
  <2> QED
    BY <1>1, <2>1
<1>4. TypeOK'
  BY <1>1, <1>2, <1>3 DEF TypeOK
<1>5. Control' /\ Vouched'
  BY DEF Control, Vouched, Live, Died
<1> QED
  BY <1>4, <1>5, SameCache

\* A new request carries a token and has no verdict.
LEMMA ArriveInv == \A c \in Caller : Inv /\ Arrive(c) => Inv'
<1> SUFFICES ASSUME NEW c \in Caller, Inv, Arrive(c) PROVE Inv'
  OBVIOUS
<1> USE DEF Inv, Arrive, Goto, table, dashboard
<1>1. PICK t \in Token : token' = [token EXCEPT ![c] = t]
  BY DEF Token
<1>2. now \in Nat /\ verdict[c] = "none"
  BY DEF TypeOK, Control
<1>3. TypeOK'
  BY <1>1, <1>2 DEF TypeOK, At
<1>4. Control'
  BY <1>1, <1>2 DEF Control, TypeOK
<1>5. Vouched'
  BY <1>1, <1>2, SameCache DEF Vouched, Live, Died, TypeOK
<1> QED
  BY <1>3, <1>4, <1>5, SameCache

\* A decision that has not expired at the request's reading expired, for a key that
\* died, before diedAt + TTL: that is all a hit goes by.
LEMMA HitInv == \A c \in Caller : Inv /\ Hit(c) => Inv'
<1> SUFFICES ASSUME NEW c \in Caller, Inv, Hit(c) PROVE Inv'
  OBVIOUS
<1> USE DEF Inv, Hit, Goto, table, dashboard
<1> DEFINE t == token[c]
<1>1. /\ t \in Token /\ verdict[c] = "none" /\ pc[c] = "looking"
      /\ cache[t] \in Entry /\ cache[t] # NoEntry /\ stamp[c] < cache[t].expires
      /\ stamp[c] \in Nat
  BY DEF TypeOK, Control, Cached
<1>2. /\ cache' \in [Token -> Entry \cup {NoEntry}]
      /\ \A u \in Token : /\ cache'[u] # NoEntry <=> cache[u] # NoEntry
                          /\ cache[u] # NoEntry => /\ cache'[u].ok = cache[u].ok
                                                   /\ cache'[u].expires = cache[u].expires
  <2>1. CASE cache' = cache
    BY <2>1 DEF TypeOK
  <2>2. CASE cache' = [cache EXCEPT ![t].touched = stamp[c]]
    <3>1. [cache[t] EXCEPT !.touched = stamp[c]] \in Entry
      BY <1>1 DEF Entry
    <3>2. cache' = [cache EXCEPT ![t] = [cache[t] EXCEPT !.touched = stamp[c]]]
      BY <2>2
    <3>3. cache' \in [Token -> Entry \cup {NoEntry}]
      BY <3>1, <3>2, <1>1 DEF TypeOK
    <3>4. cache'[t] = [cache[t] EXCEPT !.touched = stamp[c]]
      BY <3>2, <1>1 DEF TypeOK
    <3>5. cache'[t] # NoEntry /\ cache'[t].ok = cache[t].ok /\ cache'[t].expires = cache[t].expires
      BY <3>1, <3>4, <1>1, NoEntryAssumption DEF Entry
    <3>6. \A u \in Token : u # t => cache'[u] = cache[u]
      BY <3>2 DEF TypeOK
    <3> QED
      BY <3>3, <3>5, <3>6, <1>1
  <2> QED
    BY <2>1, <2>2
<1>3. /\ pc' = [pc EXCEPT ![c] = pc'[c]]
      /\ pc'[c] \in {"touching", "accepted", "refused"}
      /\ pc'[c] # "refused" => cache[t].ok = TRUE
  <2>1. cache[t].ok \in BOOLEAN
    BY <1>1 DEF Entry
  <2> QED
    BY <2>1 DEF TypeOK
<1>4. TypeOK'
  <2>1. pc' \in [Caller -> At]
    BY <1>3 DEF TypeOK, At
  <2>2. \A u \in Token : cache'[u] # NoEntry => cache'[u].expires <= now + TTL
    BY <1>2 DEF TypeOK
  <2> QED
    BY <1>2, <2>1, <2>2 DEF TypeOK
<1>5. CacheBounded'
  <2>1. Entries' = Entries
    BY <1>2 DEF Entries
  <2> QED
    BY <2>1 DEF CacheBounded
<1>6. Control'
  BY <1>1, <1>3 DEF Control, TypeOK
<1>7. Vouched'
  <2>1. \A u \in Token : cache'[u] # NoEntry /\ cache'[u].ok = TRUE =>
          Live(u)' \/ (Died(u)' /\ cache'[u].expires <= diedAt'[u] + TTL)
    BY <1>2 DEF Vouched, Live, Died
  <2>2. pc'[c] # "refused" => Live(t) \/ (Died(t) /\ stamp[c] < diedAt[t] + TTL)
    <3>1. diedAt[t] \in Nat /\ TTL \in Nat /\ cache[t].expires \in Nat
      BY <1>1, KeysAssumption DEF TypeOK, Entry
    <3>2. pc'[c] # "refused" => Live(t) \/ (Died(t) /\ cache[t].expires <= diedAt[t] + TTL)
      BY <1>1, <1>3 DEF Vouched
    <3> QED
      BY <1>1, <3>1, <3>2
  <2>3. \A d \in Caller : d # c => pc'[d] = pc[d]
    BY <1>3 DEF TypeOK
  <2>4. ASSUME NEW d \in Caller,
               pc'[d] = "accepted" \/ (pc'[d] = "touching" /\ verdict'[d] = "none")
        PROVE  Live(token[d])' \/ (Died(token[d])' /\ stamp'[d] < diedAt'[token'[d]] + TTL)
    <3>1. CASE d = c
      BY <3>1, <2>2, <2>4 DEF Live, Died
    <3>2. CASE d # c
      BY <3>2, <2>3, <2>4 DEF Vouched, Live, Died
    <3> QED
      BY <3>1, <3>2
  <2> QED
    BY <2>1, <2>4 DEF Vouched, Live, Died
<1> QED
  BY <1>4, <1>5, <1>6, <1>7

\* A miss claims nothing.
LEMMA MissInv == \A c \in Caller : Inv /\ Miss(c) => Inv'
<1> SUFFICES ASSUME NEW c \in Caller, Inv, Miss(c) PROVE Inv'
  OBVIOUS
<1> USE DEF Inv, Miss, Goto, table, dashboard
<1>1. TypeOK'
  BY DEF TypeOK, At
<1>2. Control'
  BY DEF Control, TypeOK
<1>3. Vouched'
  BY SameCache DEF Vouched, Live, Died, TypeOK
<1> QED
  BY <1>1, <1>2, <1>3, SameCache

\* Whatever the query says of a key that is live, it is live now.
LEMMA VerifyInv == \A c \in Caller : Inv /\ (Verify(c) \/ VerifyFails(c)) => Inv'
<1> SUFFICES ASSUME NEW c \in Caller, Inv, Verify(c) \/ VerifyFails(c) PROVE Inv'
  OBVIOUS
<1> USE DEF Inv, Goto, table, dashboard
<1>1. /\ UNCHANGED <<now, table, used, cache, token, stamp, since, dashboard, settled>>
      /\ pc[c] = "verifying" /\ token[c] \in Token
  BY DEF Verify, VerifyFails, Control
<1>2. \E v \in {"ok", "bad", "error"} :
        /\ verdict' = [verdict EXCEPT ![c] = v]
        /\ pc' = [pc EXCEPT ![c] = IF v = "ok" THEN "touching" ELSE "inserting"]
        /\ v = "ok" => Live(token[c])
  BY DEF Verify, VerifyFails, Live
<1>3. TypeOK'
  BY <1>1, <1>2 DEF TypeOK, At, Verdict
<1>4. Control'
  BY <1>1, <1>2 DEF Control, TypeOK
<1>5. Vouched'
  BY <1>1, <1>2, SameCache DEF Vouched, Live, Died, TypeOK
<1> QED
  BY <1>1, <1>3, <1>4, <1>5, SameCache

\* last_used_at matters to no verdict.
LEMMA TouchInv == \A c \in Caller : Inv /\ Touch(c) => Inv'
<1> SUFFICES ASSUME NEW c \in Caller, Inv, Touch(c) PROVE Inv'
  OBVIOUS
<1> USE DEF Inv, Touch, Goto, table, dashboard
<1>1. token[c] \in Token /\ now \in Nat /\ verdict[c] \in {"none", "ok"}
  BY DEF Control, TypeOK
<1>2. TypeOK'
  BY <1>1 DEF TypeOK, At
<1>3. Control'
  BY <1>1 DEF Control, TypeOK
<1>4. Vouched'
  BY <1>1, SameCache DEF Vouched, Live, Died, TypeOK
<1> QED
  BY <1>2, <1>3, <1>4, SameCache

\* A decision expires TTL after the reading made before its query, and the cache is
\* emptied before it would hold one more than it may.
LEMMA InsertInv == \A c \in Caller : Inv /\ Insert(c) => Inv'
<1> SUFFICES ASSUME NEW c \in Caller, Inv, Insert(c) PROVE Inv'
  OBVIOUS
<1> USE DEF Inv, Insert, Goto, table, dashboard
<1> DEFINE t == token[c]
           ok == verdict[c] = "ok"
           entry == [ok |-> ok, expires |-> Expiry(c), touched |-> IF ok THEN stamp[c] ELSE 0]
           base == IF Full THEN Empty ELSE cache
<1>1. /\ t \in Token /\ verdict[c] # "none" /\ stamp[c] \in Nat /\ stamp[c] <= now
      /\ TTL \in Nat \ {0} /\ now \in Nat
  BY KeysAssumption DEF TypeOK, Control
<1>2. /\ entry \in Entry /\ entry # NoEntry
      /\ entry.expires = stamp[c] + TTL /\ entry.ok = ok
  <2>1. Expiry(c) \in Nat /\ Expiry(c) = stamp[c] + TTL
    BY <1>1 DEF Expiry
  <2>2. (IF ok THEN stamp[c] ELSE 0) \in Nat
    BY <1>1
  <2>3. ok \in BOOLEAN
    OBVIOUS
  <2>4. entry \in Entry
    BY <2>1, <2>2, <2>3 DEF Entry
  <2> QED
    BY <2>1, <2>4, NoEntryAssumption
<1>3. /\ cache' = [base EXCEPT ![t] = entry]
      /\ base \in [Token -> Entry \cup {NoEntry}]
      /\ \A u \in Token : base[u] # NoEntry => base[u] = cache[u]
  BY DEF TypeOK, Empty
<1> HIDE DEF entry, base
<1>4. TypeOK'
  <2>1. cache' \in [Token -> Entry \cup {NoEntry}]
    BY <1>1, <1>2, <1>3
  <2>2. ASSUME NEW u \in Token, cache'[u] # NoEntry PROVE cache'[u].expires <= now + TTL
    <3>1. CASE u = t
      BY <1>1, <1>2, <1>3, <3>1
    <3>2. CASE u # t
      BY <1>3, <2>2, <3>2 DEF TypeOK
    <3> QED
      BY <3>1, <3>2
  <2>3. pc' \in [Caller -> At]
    BY DEF TypeOK, At
  <2> QED
    BY <2>1, <2>2, <2>3 DEF TypeOK
<1>5. CacheBounded'
  <2>1. CASE Full
    <3>1. \A u \in Token : u # t => cache'[u] = NoEntry
      BY <1>3, <2>1 DEF base, Empty
    <3>2. cache'[t] = entry
      BY <1>1, <1>3
    <3>3. Entries' = {t}
      BY <3>1, <3>2, <1>1, <1>2 DEF Entries
    <3>4. Cardinality(Entries') = 1
      BY <3>3, FS_Singleton
    <3> QED
      BY <3>4, KeysAssumption DEF CacheBounded
  <2>2. CASE ~Full
    <3>1. Entries' \subseteq Entries \cup {t}
      BY <1>1, <1>3, <2>2 DEF Entries
    <3>2. /\ IsFiniteSet(Entries \cup {t})
          /\ Cardinality(Entries \cup {t}) = Cardinality(Entries)
             \/ Cardinality(Entries \cup {t}) = Cardinality(Entries) + 1
      BY EntriesFinite, FS_AddElement
    <3>3. Cardinality(Entries') <= Cardinality(Entries \cup {t})
      BY <3>1, <3>2, FS_Subset
    <3>4. Cardinality(Entries') \in Nat /\ Cardinality(Entries) \in Nat /\ MaxEntries \in Nat
      BY <3>1, <3>2, FS_Subset, FS_CardinalityType, EntriesFinite, KeysAssumption
    <3>5. Cardinality(Entries) < MaxEntries
      BY <2>2, <3>4 DEF Full
    <3> QED
      BY <3>2, <3>3, <3>4, <3>5 DEF CacheBounded
  <2> QED
    BY <2>1, <2>2
<1>6. Control'
  BY DEF Control, TypeOK
<1>7. Vouched'
  <2>1. ok => Live(t) \/ (Died(t) /\ stamp[c] <= diedAt[t])
    BY DEF Vouched
  <2>2. diedAt[t] \in Nat
    BY <1>1 DEF TypeOK
  <2>3. ASSUME NEW u \in Token, cache'[u] # NoEntry, cache'[u].ok = TRUE
        PROVE  Live(u)' \/ (Died(u)' /\ cache'[u].expires <= diedAt'[u] + TTL)
    <3>1. CASE u = t
      <4>1. cache'[u] = entry
        BY <1>1, <1>3, <3>1
      <4>2. ok
        BY <1>2, <2>3, <4>1
      <4> QED
        BY <1>1, <1>2, <2>1, <2>2, <3>1, <4>1, <4>2 DEF Live, Died
    <3>2. CASE u # t
      BY <1>3, <2>3, <3>2 DEF Vouched, Live, Died
    <3> QED
      BY <3>1, <3>2
  <2>4. pc'[c] = "accepted" => Live(t) \/ (Died(t) /\ stamp[c] < diedAt[t] + TTL)
    <3>1. pc'[c] = "accepted" => ok
      BY DEF TypeOK
    <3> QED
      BY <1>1, <2>1, <2>2, <3>1
  <2>5. \A d \in Caller : d # c => pc'[d] = pc[d]
    BY DEF TypeOK
  <2>6. ASSUME NEW d \in Caller,
               pc'[d] = "accepted" \/ (pc'[d] = "touching" /\ verdict'[d] = "none")
        PROVE  Live(token[d])' \/ (Died(token[d])' /\ stamp'[d] < diedAt'[token'[d]] + TTL)
    <3>1. CASE d = c
      BY <1>1, <3>1, <2>4, <2>6 DEF Live, Died
    <3>2. CASE d # c
      BY <3>2, <2>5, <2>6 DEF Vouched, Live, Died
    <3> QED
      BY <3>1, <3>2
  <2> QED
    BY <2>3, <2>6 DEF Vouched, Live, Died
<1> QED
  BY <1>4, <1>5, <1>6, <1>7

\* An answered request is forgotten.
LEMMA ReturnInv == \A c \in Caller : Inv /\ Return(c) => Inv'
<1> SUFFICES ASSUME NEW c \in Caller, Inv, Return(c) PROVE Inv'
  OBVIOUS
<1> USE DEF Inv, Return, Goto, table, dashboard
<1>1. now \in Nat
  BY DEF TypeOK
<1>2. TypeOK'
  BY <1>1 DEF TypeOK, At, Verdict, RowState
<1>3. Control'
  BY DEF Control, TypeOK
<1>4. Vouched'
  BY SameCache DEF Vouched, Live, Died, TypeOK
<1> QED
  BY <1>2, <1>3, <1>4, SameCache

\* A key dies of its age.
LEMMA ExpireInv == \A k \in Key : Inv /\ Expire(k) => Inv'
<1> SUFFICES ASSUME NEW k \in Key, Inv, Expire(k) PROVE Inv'
  OBVIOUS
<1>1. UNCHANGED <<now, used, cache, request, dashboard, settled>>
  BY DEF Expire
<1>2. row' \in [Token -> RowState] /\ diedAt' \in [Token -> Nat]
  BY WriteRow DEF Inv
<1>3. TypeOK'
  BY <1>1, <1>2 DEF Inv, TypeOK, request, dashboard
<1> QED
  BY <1>1, <1>3, WriteInv DEF Inv, request

\* The key page changes a key and owes an Invalidate.
LEMMA DashboardWriteInv == \A a \in Admin : Inv /\ DashboardWrite(a) => Inv'
<1> SUFFICES ASSUME NEW a \in Admin, Inv, DashboardWrite(a) PROVE Inv'
  OBVIOUS
<1>1. PICK k \in Key, to \in {"live", "dead", "gone"} :
        Write(k, to) /\ change' = [change EXCEPT ![a] = [key |-> k, to |-> to]]
  BY DEF DashboardWrite
<1>2. UNCHANGED <<now, used, cache, request, settled>>
  BY DEF DashboardWrite
<1>3. row' \in [Token -> RowState] /\ diedAt' \in [Token -> Nat]
  BY <1>1, WriteRow DEF Inv
<1>4. /\ change' \in [Admin -> Change \cup {NoChange}] /\ phase' \in [Admin -> {"idle", "clearing"}]
      /\ \A b \in Admin : phase'[b] = "clearing" => change'[b] \in Change
  BY <1>1 DEF Inv, TypeOK, Change, DashboardWrite
<1>5. TypeOK'
  BY <1>2, <1>3, <1>4 DEF Inv, TypeOK, request
<1> QED
  BY <1>1, <1>2, <1>5, WriteInv DEF Inv, request

\* A command changes a key and owes nothing.
LEMMA CommandWriteInv == Inv /\ CommandWrite => Inv'
<1> SUFFICES ASSUME Inv, CommandWrite PROVE Inv'
  OBVIOUS
<1>1. PICK k \in Key, to \in {"live", "dead", "gone"} : Write(k, to)
  BY DEF CommandWrite
<1>2. UNCHANGED <<now, used, cache, request, dashboard, settled>>
  BY DEF CommandWrite
<1>3. row' \in [Token -> RowState] /\ diedAt' \in [Token -> Nat]
  BY <1>1, WriteRow DEF Inv
<1>4. TypeOK'
  BY <1>2, <1>3 DEF Inv, TypeOK, request, dashboard
<1> QED
  BY <1>1, <1>2, <1>4, WriteInv DEF Inv, request

\* The cache is dropped.
LEMMA InvalidateInv == \A a \in Admin : Inv /\ Invalidate(a) => Inv'
<1> SUFFICES ASSUME NEW a \in Admin, Inv, Invalidate(a) PROVE Inv'
  OBVIOUS
<1> USE DEF Inv, Invalidate, table, request
<1>1. CacheBounded' /\ \A t \in Token : cache'[t] = NoEntry
  BY EmptyCache
<1>2. settled' \in [Key -> RowState]
  BY DEF TypeOK, Change, RowState
<1>3. TypeOK'
  BY <1>1, <1>2 DEF TypeOK, Empty
<1>4. Control' /\ Vouched'
  BY <1>1 DEF Control, Vouched, Live, Died
<1> QED
  BY <1>1, <1>3, <1>4

\* A restart empties the cache and forgets the requests.
LEMMA RestartInv == Inv /\ Restart => Inv'
<1> SUFFICES ASSUME Inv, Restart PROVE Inv'
  OBVIOUS
<1> USE DEF Inv, Restart, table
<1>1. CacheBounded' /\ \A t \in Token : cache'[t] = NoEntry
  BY EmptyCache
<1>2. now \in Nat
  BY DEF TypeOK
<1>3. TypeOK'
  BY <1>1, <1>2 DEF TypeOK, Empty, At, Verdict, RowState
<1>4. Control'
  BY DEF Control
<1>5. Vouched'
  BY <1>1 DEF Vouched, Live, Died
<1> QED
  BY <1>1, <1>3, <1>4, <1>5

\* Every step keeps the invariant.
LEMMA InvStep == Inv /\ [Next]_vars => Inv'
<1> SUFFICES ASSUME Inv, [Next]_vars PROVE Inv'
  OBVIOUS
<1>1. CASE Tick
  BY <1>1, TickInv
<1>2. ASSUME NEW c \in Caller, Arrive(c) \/ RequestStep(c) \/ VerifyFails(c) PROVE Inv'
  BY <1>2, ArriveInv, HitInv, MissInv, VerifyInv, TouchInv, InsertInv, ReturnInv DEF RequestStep
<1>3. ASSUME NEW a \in Admin, DashboardWrite(a) \/ Invalidate(a) PROVE Inv'
  BY <1>3, DashboardWriteInv, InvalidateInv
<1>4. ASSUME NEW k \in Key, Expire(k) PROVE Inv'
  BY <1>4, ExpireInv
<1>5. CASE CommandWrite
  BY <1>5, CommandWriteInv
<1>6. CASE Restart
  BY <1>6, RestartInv
<1>7. CASE UNCHANGED vars
  BY <1>7 DEF vars, table, request, dashboard, Inv, TypeOK, CacheBounded, Entries, Control,
              Vouched, Live, Died
<1> QED
  BY <1>1, <1>2, <1>3, <1>4, <1>5, <1>6, <1>7 DEF Next

\* The inductive invariant holds in every reachable state.
THEOREM Invariance == Spec => []Inv
  BY InvInit, InvStep, PTL DEF Spec

\* Every variable has its type, and no decision outlives TTL from now.
THEOREM TypeCorrect == Spec => []TypeOK
<1>1. Inv => TypeOK
  BY DEF Inv
<1> QED
  BY Invariance, <1>1, PTL

\* A key accepted by Valid was live less than verifyTTL before the reading of its check:
\* the revocation latency of the daemon, for every interleaving with other requests, the
\* dashboard, the commands and restarts.
THEOREM RevocationLatency == Spec => []AcceptBounded
<1>1. Inv => AcceptBounded
  BY DEF Inv, Vouched, AcceptBounded, Live, Died
<1> QED
  BY Invariance, <1>1, PTL

\* KeyCache.m never holds more than maxEntries decisions.
THEOREM CacheStaysBounded == Spec => []CacheBounded
<1>1. Inv => CacheBounded
  BY DEF Inv
<1> QED
  BY Invariance, <1>1, PTL
=============================================================================
