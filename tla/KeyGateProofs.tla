--------------------------- MODULE KeyGateProofs ---------------------------
(***************************************************************************)
(* When the API may be open, for any number of requests, key pages and     *)
(* keys, and for any lifetime of the memo.                                 *)
(*                                                                         *)
(* The argument: a count of zero in hand, and a memo that says "open", are *)
(* either still true or older than the moment the table stopped being      *)
(* empty (Answers).  Invalidate cannot run between a count and its store,  *)
(* as both need anyMu (Locked); so what is settled when the memo says      *)
(* "open" has no row, and what has been deleted never has one again.       *)
(*                                                                         *)
(* Below is the other gate, the one of the dashboard (Dash), which has a   *)
(* state and an order of locks of its own.                                 *)
(***************************************************************************)
EXTENDS Gates, TLAPS

Keyless == \A k \in Key : ~HasRow(k)

NoneSettled == \A k \in settled : ~HasRow(k)

\* Whoever has a count to make or to store holds anyMu.
Locked ==
  \A c \in Caller :
    /\ pc[c] \in {"locked", "counted"} => anyMu = c
    /\ pc[c] = "counted" => count[c] # "none"

\* A count of zero in hand, and a memo of it.
Answers ==
  /\ \A c \in Caller : pc[c] = "counted" /\ count[c] = "keyless" =>
       /\ Keyless \/ stamp[c] <= keyedAt
       /\ NoneSettled
  /\ ~anyVal /\ anyUntil > 0 =>
       /\ Keyless \/ anyUntil <= keyedAt + TTL
       /\ NoneSettled

\* A settled change has been made, and a request knows at most those.
Settled ==
  /\ \A k \in settled : row[k] # "unborn"
  /\ \A a \in Admin : phase[a] = "clearing" => row[changed[a]] # "unborn"
  /\ \A c \in Caller : since[c] \subseteq settled

IInv == TypeOK /\ Locked /\ Answers /\ Settled /\ OpenBounded /\ ClosedAtOnce

\* The table is empty and nobody has asked.
LEMMA InvInit == Init => IInv
<1> SUFFICES ASSUME Init PROVE IInv
  OBVIOUS
<1> USE GateAssumption
<1>1. TypeOK
  <2>1. now \in 0..MaxNow /\ anyUntil \in 0..(now + TTL) /\ keyedAt \in 0..now
    BY DEF Init
  <2>2. row \in [Key -> RowState] /\ pc \in [Caller -> At]
    BY DEF Init, RowState, At
  <2>3. stamp \in [Caller -> 0..now] /\ since \in [Caller -> SUBSET Key]
    BY DEF Init
  <2>4. count \in [Caller -> {"none", "keyed", "keyless"}]
    BY DEF Init
  <2>5. /\ phase \in [Admin -> {"idle", "clearing"}]
        /\ changed \in [Admin -> Key \cup {NoKey}]
        /\ \A a \in Admin : phase[a] = "clearing" => changed[a] \in Key
    BY DEF Init
  <2>6. anyMu \in Caller \cup {NoCaller} /\ anyVal \in BOOLEAN /\ settled \subseteq Key
    BY DEF Init
  <2> QED
    BY <2>1, <2>2, <2>3, <2>4, <2>5, <2>6 DEF TypeOK
<1>2. Locked /\ Answers /\ Settled
  BY DEF Init, Locked, Answers, Settled
<1>3. OpenBounded /\ ClosedAtOnce
  BY DEF Init, OpenBounded, ClosedAtOnce
<1> QED
  BY <1>1, <1>2, <1>3 DEF IInv

\* What one change of a key does to the table.
LEMMA WriteRow ==
  ASSUME TypeOK, NEW k \in Key, Write(k)
  PROVE  /\ row' \in [Key -> RowState]
         /\ row'[k] # "unborn"
         /\ \A j \in Key : row[j] # "unborn" => row'[j] # "unborn"
         /\ \A j \in Key : row[j] = "gone" => row'[j] = "gone"
         /\ Keyless => keyedAt' = now
         /\ ~Keyless => keyedAt' = keyedAt
  BY DEF Write, CreateAPIKey, RevokeAPIKey, DeleteAPIKey, TypeOK, RowState, HasRow, Keyless

\* A deleted or unmade key that is not unmade has been deleted.
LEMMA GoneRow ==
  ASSUME TypeOK, NEW k \in Key, row[k] # "unborn", ~HasRow(k)
  PROVE  row[k] = "gone"
  BY DEF TypeOK, RowState, HasRow

\* A change of a key, by whom it may be, keeps what is said of counts, memo and requests.
LEMMA WriteInv ==
  ASSUME IInv, NEW k \in Key, Write(k), UNCHANGED <<now, anyMu, memo, request, settled>>
  PROVE  /\ keyedAt' \in 0..now
         /\ Locked' /\ Answers' /\ OpenBounded' /\ ClosedAtOnce'
         /\ \A j \in settled : row'[j] # "unborn"
         /\ \A c \in Caller : since'[c] \subseteq settled'
<1> USE DEF IInv, memo, request
<1>1. keyedAt' \in 0..now /\ now \in Nat /\ keyedAt \in Nat /\ TTL \in Nat \ {0}
  BY WriteRow, GateAssumption DEF TypeOK
<1>2. \A j \in settled : row'[j] # "unborn"
  BY WriteRow DEF Settled, TypeOK
<1>3. NoneSettled => NoneSettled'
  <2> SUFFICES ASSUME NoneSettled, NEW j \in settled
               PROVE  ~HasRow(j)'
    BY DEF NoneSettled
  <2>1. row[j] = "gone" /\ j \in Key
    BY GoneRow DEF NoneSettled, Settled, TypeOK
  <2> QED
    BY <2>1, WriteRow DEF HasRow
<1>4. \A t \in 0..now : (Keyless \/ t <= keyedAt) => t <= keyedAt'
  BY <1>1, WriteRow
<1>5. Locked'
  BY DEF Locked
<1>6. Answers'
  <2>1. ASSUME NEW c \in Caller, pc[c] = "counted", count[c] = "keyless"
        PROVE  stamp[c] <= keyedAt' /\ NoneSettled'
    BY <2>1, <1>3, <1>4 DEF Answers, TypeOK
  <2>2. ASSUME ~anyVal, anyUntil > 0
        PROVE  anyUntil <= keyedAt' + TTL /\ NoneSettled'
    <3>1. (Keyless \/ anyUntil <= keyedAt + TTL) /\ NoneSettled
      BY <2>2 DEF Answers
    <3>2. anyUntil \in 0..(now + TTL)
      BY DEF TypeOK
    <3>3. keyedAt' = now \/ (~Keyless /\ keyedAt' = keyedAt)
      BY WriteRow
    <3>4. anyUntil <= keyedAt' + TTL
      <4>1. CASE keyedAt' = now
        BY <4>1, <3>2, <1>1
      <4>2. CASE ~Keyless /\ keyedAt' = keyedAt
        BY <4>2, <3>1
      <4> QED
        BY <4>1, <4>2, <3>3
    <3>5. NoneSettled'
      BY <3>1, <1>3
    <3> QED
      BY <3>4, <3>5
  <2> QED
    BY <2>1, <2>2 DEF Answers
<1>7. OpenBounded'
  <2> SUFFICES ASSUME NEW c \in Caller, pc[c] = "open"
               PROVE  stamp[c] < keyedAt' + TTL
    BY DEF OpenBounded
  <2>1. Keyless \/ stamp[c] < keyedAt + TTL
    BY DEF OpenBounded, Keyless
  <2>2. stamp[c] \in 0..now
    BY DEF TypeOK
  <2> QED
    BY <2>1, <2>2, <1>1, WriteRow
<1>8. ClosedAtOnce'
  <2> SUFFICES ASSUME NEW c \in Caller, pc[c] = "open", NEW j \in since[c]
               PROVE  row'[j] = "gone"
    BY DEF ClosedAtOnce
  <2>1. row[j] = "gone" /\ j \in Key
    BY DEF ClosedAtOnce, TypeOK
  <2> QED
    BY <2>1, WriteRow
<1> QED
  BY <1>1, <1>2, <1>5, <1>6, <1>7, <1>8 DEF Settled

\* The first step of every request and the time leave all answers as they are.
LEMMA QuietStep ==
  ASSUME IInv,
         \/ Tick
         \/ \E c \in Caller : Arrive(c) \/ AnyMiss(c) \/ Return(c)
  PROVE  IInv'
<1> USE GateAssumption DEF IInv, table, memo, request, dashboard
<1>1. CASE Tick
  BY <1>1
  DEF Tick, TypeOK, Locked, Answers, Settled, OpenBounded, ClosedAtOnce, Keyless, NoneSettled,
      HasRow
<1>2. ASSUME NEW c \in Caller, Arrive(c)
      PROVE  IInv'
  BY <1>2
  DEF Arrive, Goto, At, TypeOK, Locked, Answers, Settled, OpenBounded, ClosedAtOnce, Keyless,
      NoneSettled, HasRow
<1>3. ASSUME NEW c \in Caller, AnyMiss(c)
      PROVE  IInv'
  BY <1>3
  DEF AnyMiss, Goto, At, TypeOK, Locked, Answers, Settled, OpenBounded, ClosedAtOnce, Keyless,
      NoneSettled, HasRow
<1>4. ASSUME NEW c \in Caller, Return(c)
      PROVE  IInv'
  BY <1>4
  DEF Return, Goto, At, TypeOK, Locked, Answers, Settled, OpenBounded, ClosedAtOnce, Keyless,
      NoneSettled, HasRow
<1> QED
  BY <1>1, <1>2, <1>3, <1>4

\* An answer from the memo is as good as the memo.
LEMMA HitStep ==
  ASSUME IInv, NEW c \in Caller, AnyHit(c)
  PROVE  IInv'
<1> USE GateAssumption DEF IInv, table, memo, request, dashboard
<1>1. /\ pc' = [pc EXCEPT ![c] = IF anyVal THEN "required" ELSE "open"]
      /\ stamp[c] < anyUntil
      /\ UNCHANGED <<now, row, keyedAt, anyMu, anyVal, anyUntil, stamp, count, since, phase,
                     changed, settled>>
  BY DEF AnyHit, Goto
<1>2. TypeOK'
  BY <1>1 DEF TypeOK, At
<1>3. Locked' /\ Answers' /\ Settled'
  BY <1>1 DEF Locked, Answers, Settled, TypeOK, Keyless, NoneSettled, HasRow
<1>4. ~anyVal => /\ Keyless \/ stamp[c] < keyedAt + TTL
                 /\ \A k \in since[c] : row[k] = "gone"
  <2> SUFFICES ASSUME ~anyVal
               PROVE  /\ Keyless \/ stamp[c] < keyedAt + TTL
                      /\ \A k \in since[c] : row[k] = "gone"
    OBVIOUS
  <2>1. anyUntil > 0 /\ stamp[c] \in Nat /\ keyedAt \in Nat /\ anyUntil \in Nat
    BY <1>1 DEF TypeOK
  <2>2. (Keyless \/ anyUntil <= keyedAt + TTL) /\ NoneSettled
    BY <2>1 DEF Answers
  <2>3. \A k \in since[c] : row[k] = "gone"
    BY <2>2, GoneRow DEF NoneSettled, Settled, TypeOK
  <2> QED
    BY <1>1, <2>1, <2>2, <2>3
<1>5. OpenBounded'
  BY <1>1, <1>4 DEF OpenBounded, TypeOK, Keyless, HasRow
<1>6. ClosedAtOnce'
  BY <1>1, <1>4 DEF ClosedAtOnce, TypeOK
<1> QED
  BY <1>2, <1>3, <1>5, <1>6

\* A count says "keyless" only of an empty table.
LEMMA CountStep ==
  ASSUME IInv, NEW c \in Caller, CountAPIKeys(c) \/ CountFails(c)
  PROVE  IInv'
<1> USE GateAssumption DEF IInv, table, memo, request, dashboard
<1>1. PICK answer \in {"keyed", "keyless"} :
        Counted(c, answer) /\ (answer = "keyless" => Keyless)
  BY DEF CountAPIKeys, CountFails, Keyless
<1>2. /\ pc[c] = "locked" /\ pc' = [pc EXCEPT ![c] = "counted"]
      /\ count' = [count EXCEPT ![c] = answer]
      /\ UNCHANGED <<now, row, keyedAt, anyMu, anyVal, anyUntil, stamp, since, phase, changed,
                     settled>>
  BY <1>1 DEF Counted, Goto
<1>3. TypeOK'
  BY <1>2 DEF TypeOK, At
<1>4. Locked' /\ Settled' /\ OpenBounded' /\ ClosedAtOnce'
  BY <1>2 DEF Locked, Settled, OpenBounded, ClosedAtOnce, TypeOK, HasRow
<1>5. Keyless => NoneSettled
  BY DEF Keyless, NoneSettled, TypeOK
<1>6. Keyless' = Keyless /\ NoneSettled' = NoneSettled
  BY <1>2 DEF Keyless, NoneSettled, HasRow
<1>7. Answers'
  BY <1>1, <1>2, <1>5, <1>6 DEF Answers, TypeOK
<1> QED
  BY <1>3, <1>4, <1>7

\* The count is stored before anybody else could have invalidated the memo.
LEMMA StoreStep ==
  ASSUME IInv, NEW c \in Caller, AnyStore(c)
  PROVE  IInv'
<1> USE GateAssumption DEF IInv, table, memo, request, dashboard
<1>1. /\ pc[c] = "counted"
      /\ pc' = [pc EXCEPT ![c] = IF count[c] = "keyed" THEN "required" ELSE "open"]
      /\ anyVal' = (count[c] = "keyed") /\ anyUntil' = stamp[c] + TTL /\ anyMu' = NoCaller
      /\ count' = [count EXCEPT ![c] = "none"]
      /\ UNCHANGED <<now, row, keyedAt, stamp, since, phase, changed, settled>>
  BY DEF AnyStore, Memoise, Goto
<1>2. stamp[c] \in 0..now /\ keyedAt \in 0..now /\ now \in Nat
  BY DEF TypeOK
<1>3. TypeOK'
  BY <1>1, <1>2 DEF TypeOK, At
<1>4. Locked' /\ Settled'
  BY <1>1 DEF Locked, Settled, TypeOK
<1>5. Keyless' = Keyless /\ NoneSettled' = NoneSettled
  BY <1>1 DEF Keyless, NoneSettled, HasRow
<1>6. count[c] # "keyed" => (Keyless \/ stamp[c] <= keyedAt) /\ NoneSettled
  <2>1. ASSUME count[c] = "keyless"
        PROVE  (Keyless \/ stamp[c] <= keyedAt) /\ NoneSettled
    BY <1>1, <2>1 DEF Answers
  <2>2. count[c] # "none"
    BY <1>1 DEF Locked
  <2> QED
    BY <2>1, <2>2 DEF TypeOK
<1>7. Answers'
  <2>1. ASSUME NEW d \in Caller, pc'[d] = "counted"
        PROVE  FALSE
    BY <1>1, <2>1 DEF Locked, TypeOK
  <2>2. ASSUME ~anyVal'
        PROVE  (Keyless' \/ anyUntil' <= keyedAt' + TTL) /\ NoneSettled'
    <3>1. count[c] # "keyed"
      BY <1>1, <2>2
    <3> QED
      BY <3>1, <1>1, <1>2, <1>5, <1>6
  <2> QED
    BY <2>1, <2>2 DEF Answers
<1>8. count[c] # "keyed" => \A k \in since[c] : row[k] = "gone"
  BY <1>6, GoneRow DEF NoneSettled, Settled, TypeOK
<1>9. OpenBounded'
  BY <1>1, <1>2, <1>6 DEF OpenBounded, TypeOK, Keyless, HasRow
<1>10. ClosedAtOnce'
  BY <1>1, <1>8 DEF ClosedAtOnce, TypeOK
<1> QED
  BY <1>3, <1>4, <1>7, <1>9, <1>10

\* A change made in the dashboard is not settled before its Invalidate.
LEMMA DashboardStep ==
  ASSUME IInv, NEW a \in Admin, DashboardWrite(a)
  PROVE  IInv'
<1> USE DEF IInv
<1>1. PICK k \in Key : Write(k) /\ changed' = [changed EXCEPT ![a] = k]
  BY DEF DashboardWrite
<1>2. /\ UNCHANGED <<now, anyMu, memo, request, settled>>
      /\ phase' = [phase EXCEPT ![a] = "clearing"]
  BY DEF DashboardWrite
<1>3. /\ keyedAt' \in 0..now
      /\ Locked' /\ Answers' /\ OpenBounded' /\ ClosedAtOnce'
      /\ \A j \in settled : row'[j] # "unborn"
      /\ \A c \in Caller : since'[c] \subseteq settled'
  BY <1>1, <1>2, WriteInv
<1>4. TypeOK'
  BY <1>1, <1>2, <1>3, WriteRow DEF TypeOK, memo, request
<1>5. \A b \in Admin : phase'[b] = "clearing" => row'[changed'[b]] # "unborn"
  BY <1>1, <1>2, WriteRow DEF Settled, TypeOK
<1> QED
  BY <1>2, <1>3, <1>4, <1>5 DEF Settled

\* A change made by another process touches the table only.
LEMMA CommandStep ==
  ASSUME IInv, CommandWrite
  PROVE  IInv'
<1> USE DEF IInv
<1>1. PICK k \in Key : Write(k)
  BY DEF CommandWrite
<1>2. UNCHANGED <<now, anyMu, memo, request, dashboard, settled>>
  BY DEF CommandWrite
<1>3. /\ keyedAt' \in 0..now
      /\ Locked' /\ Answers' /\ OpenBounded' /\ ClosedAtOnce'
      /\ \A j \in settled : row'[j] # "unborn"
      /\ \A c \in Caller : since'[c] \subseteq settled'
  BY <1>1, <1>2, WriteInv
<1>4. TypeOK'
  BY <1>1, <1>2, <1>3, WriteRow DEF TypeOK, memo, request, dashboard
<1>5. \A b \in Admin : phase'[b] = "clearing" => row'[changed'[b]] # "unborn"
  BY <1>1, <1>2, WriteRow DEF Settled, TypeOK, dashboard
<1> QED
  BY <1>2, <1>3, <1>4, <1>5 DEF Settled

\* The memo that is emptied says nothing, and nobody holds a count at that time.
LEMMA InvalidateStep ==
  ASSUME IInv, NEW a \in Admin, Invalidate(a)
  PROVE  IInv'
<1> USE GateAssumption DEF IInv, table, request
<1>1. /\ phase[a] = "clearing" /\ anyMu = NoCaller /\ anyUntil' = 0
      /\ settled' = settled \cup {changed[a]}
      /\ phase' = [phase EXCEPT ![a] = "idle"]
      /\ changed' = [changed EXCEPT ![a] = NoKey]
      /\ UNCHANGED <<now, row, keyedAt, anyMu, anyVal, pc, stamp, count, since>>
  BY DEF Invalidate
<1>2. changed[a] \in Key /\ row[changed[a]] # "unborn"
  BY <1>1 DEF TypeOK, Settled
<1>3. TypeOK'
  <2>1. anyUntil' \in 0..(now' + TTL)
    BY <1>1 DEF TypeOK
  <2>2. settled' \subseteq Key /\ \A b \in Admin : phase'[b] = "clearing" => changed'[b] \in Key
    BY <1>1, <1>2 DEF TypeOK
  <2> QED
    BY <1>1, <2>1, <2>2 DEF TypeOK
<1>4. Locked' /\ OpenBounded' /\ ClosedAtOnce'
  BY <1>1 DEF Locked, OpenBounded, ClosedAtOnce, HasRow
<1>5. Answers'
  <2>1. \A c \in Caller : pc'[c] # "counted"
    BY <1>1 DEF Locked
  <2> QED
    BY <1>1, <2>1 DEF Answers
<1>6. Settled'
  BY <1>1, <1>2 DEF Settled, TypeOK
<1> QED
  BY <1>3, <1>4, <1>5, <1>6

\* A new process has asked nothing and remembers nothing.
LEMMA RestartStep ==
  ASSUME IInv, Restart
  PROVE  IInv'
<1> USE GateAssumption DEF IInv, table
<1>1. /\ anyUntil' = 0 /\ anyMu' = NoCaller /\ anyVal' = FALSE
      /\ pc' = [c \in Caller |-> "idle"] /\ since' = [c \in Caller |-> {}]
      /\ stamp' = [c \in Caller |-> 0] /\ count' = [c \in Caller |-> "none"]
      /\ phase' = [b \in Admin |-> "idle"] /\ changed' = [b \in Admin |-> NoKey]
      /\ UNCHANGED <<now, row, keyedAt, settled>>
  BY DEF Restart
<1>2. TypeOK'
  <2>1. anyUntil' \in 0..(now' + TTL) /\ stamp' \in [Caller -> 0..now']
    BY <1>1 DEF TypeOK
  <2> QED
    BY <1>1, <2>1 DEF TypeOK, At
<1>3. Locked' /\ Answers' /\ OpenBounded' /\ ClosedAtOnce'
  BY <1>1 DEF Locked, Answers, OpenBounded, ClosedAtOnce
<1>4. Settled'
  BY <1>1 DEF Settled
<1> QED
  BY <1>2, <1>3, <1>4

\* Every step keeps the invariant.
LEMMA InvStep == IInv /\ [Next]_vars => IInv'
<1> SUFFICES ASSUME IInv, [Next]_vars PROVE IInv'
  OBVIOUS
<1>1. CASE Tick
  BY <1>1, QuietStep
<1>2. ASSUME NEW c \in Caller, Arrive(c) \/ RequestStep(c) \/ CountFails(c)
      PROVE  IInv'
  BY <1>2, QuietStep, HitStep, CountStep, StoreStep DEF RequestStep
<1>3. ASSUME NEW a \in Admin, DashboardWrite(a) \/ Invalidate(a)
      PROVE  IInv'
  BY <1>3, DashboardStep, InvalidateStep
<1>4. CASE CommandWrite
  BY <1>4, CommandStep
<1>5. CASE Restart
  BY <1>5, RestartStep
<1>6. CASE UNCHANGED vars
  BY <1>6
  DEF vars, table, memo, request, dashboard, IInv, TypeOK, Locked, Answers, Settled,
      OpenBounded, ClosedAtOnce, Keyless, NoneSettled, HasRow
<1> QED
  BY <1>1, <1>2, <1>3, <1>4, <1>5, <1>6 DEF Next

\* The inductive invariant holds in every reachable state.
THEOREM Invariance == Spec => []IInv
  BY InvInit, InvStep, PTL DEF Spec

\* The type invariant of the gate: every answer is kept for at most TTL, by the clock.
THEOREM TypeCorrect == Spec => []TypeOK
<1>1. IInv => TypeOK
  BY DEF IInv
<1> QED
  BY <1>1, Invariance, PTL

\* The API is open only while the table is empty or less than TTL after it stopped being
\* empty, whatever fails and whoever waits for the lock.
THEOREM OpenIsBounded == Spec => []OpenBounded
<1>1. IInv => OpenBounded
  BY DEF IInv
<1> QED
  BY <1>1, Invariance, PTL

\* Nobody is served open who arrives after the Invalidate of a change of a key that still
\* has a row.
THEOREM GateClosesAtOnce == Spec => []ClosedAtOnce
<1>1. IInv => ClosedAtOnce
  BY DEF IInv
<1> QED
  BY <1>1, Invariance, PTL

\* anyMu is free again when a request leaves the places where it may hold it.
LEMMA ReturnedStep == IInv /\ AnyMuReturned /\ [Next]_vars => AnyMuReturned'
<1> SUFFICES ASSUME IInv, AnyMuReturned, [Next]_vars
             PROVE  AnyMuReturned'
  OBVIOUS
<1> USE GateAssumption DEF IInv, AnyMuReturned, TypeOK, Locked, Goto, request
<1>1. CASE Tick
  BY <1>1 DEF Tick
<1>2. ASSUME NEW c \in Caller, Arrive(c) \/ AnyHit(c) \/ Return(c)
      PROVE  AnyMuReturned'
  BY <1>2 DEF Arrive, AnyHit, Return
<1>3. ASSUME NEW c \in Caller, AnyMiss(c)
      PROVE  AnyMuReturned'
  BY <1>3 DEF AnyMiss
<1>4. ASSUME NEW c \in Caller, CountAPIKeys(c) \/ CountFails(c)
      PROVE  AnyMuReturned'
  BY <1>4 DEF CountAPIKeys, CountFails, Counted
<1>5. ASSUME NEW c \in Caller, AnyStore(c)
      PROVE  AnyMuReturned'
  BY <1>5 DEF AnyStore, Memoise
<1>6. ASSUME NEW a \in Admin, DashboardWrite(a) \/ Invalidate(a)
      PROVE  AnyMuReturned'
  BY <1>6 DEF DashboardWrite, Invalidate
<1>7. CASE CommandWrite
  BY <1>7 DEF CommandWrite
<1>8. CASE Restart
  BY <1>8 DEF Restart
<1>9. CASE UNCHANGED vars
  BY <1>9 DEF vars
<1> QED
  BY <1>1, <1>2, <1>3, <1>4, <1>5, <1>6, <1>7, <1>8, <1>9 DEF Next, RequestStep

\* anyMu is only ever held to count, so nobody queues for a lock that is lost.
THEOREM GateLockIsReturned == Spec => []AnyMuReturned
<1>1. Init => AnyMuReturned
  BY GateAssumption DEF Init, AnyMuReturned
<1> QED
  BY <1>1, ReturnedStep, Invariance, PTL DEF Spec
-----------------------------------------------------------------------------
(* The gate of the dashboard, for any number of requests and any lifetime  *)
(* of its memo                                                             *)
(*                                                                         *)
(* The argument is that of the API's gate: a count of zero is true or old  *)
(* (ZeroIsRecent), and none is stored across an Invalidate, which needs the*)
(* mutex that a query holds (SettledIsCounted).  What differs is that one  *)
(* request counts up to three times, and that a query that fails answers   *)
(* by what the memo last said; the properties leave those answers aside.   *)

\* The mutex is held across a query and its store, and whoever has been served is done.
Querying ==
  \A v \in Visitor :
    /\ dPc[v] \in {"querying", "storing"} <=> mu = v
    /\ served[v] # "none" => dPc[v] = "done"

\* A count of zero, in hand or in the memo, is still true or from no later than the moment
\* the table stopped being empty.
ZeroIsRecent ==
  accounts # 0 =>
    /\ \A v \in Visitor : dPc[v] = "storing" /\ read[v] = 0 => dStamp[v] <= filledAt
    /\ known /\ n = 0 => until <= filledAt + DashTTL

\* While an account from before the last Invalidate is there, nobody has counted zero since.
SettledIsCounted ==
  /\ \A v \in Visitor : dSince[v] => dSettled
  /\ dSettled =>
       /\ accounts # 0
       /\ known => n # 0
       /\ \A v \in Visitor : dPc[v] = "storing" => read[v] # 0

DashInv ==
  /\ Dash!TypeOK
  /\ Querying /\ ZeroIsRecent /\ SettledIsCounted
  /\ Dash!OpenBounded /\ Dash!ClosedAtOnce

\* No account, no count, nobody.
LEMMA DashInit == ASSUME Dashboard PROVE Dash!Init => DashInv
<1> SUFFICES ASSUME Dash!Init PROVE DashInv
  OBVIOUS
<1>1. known \in BOOLEAN /\ dSettled \in BOOLEAN
  BY DEF Dash!Init
<1>2. Dash!TypeOK
  BY <1>1 DEF Dashboard, Dash!Init, Dash!TypeOK, Dash!Outcome
<1>3. Querying /\ ZeroIsRecent /\ SettledIsCounted /\ Dash!OpenBounded /\ Dash!ClosedAtOnce
  BY DEF Dashboard, Dash!Init, Querying, ZeroIsRecent, SettledIsCounted, Dash!OpenBounded,
         Dash!ClosedAtOnce
<1> QED
  BY <1>2, <1>3 DEF DashInv

\* What an answer does to the request that asked: it goes on counting or is served, and is
\* let in only by a count of zero.
LEMMA Decided ==
  ASSUME Dash!TypeOK, NEW v \in Visitor, NEW users \in Nat, Dash!Decide(v, users)
  PROVE  /\ round' \in [Visitor -> 1..3]
         /\ served' \in [Visitor -> Dash!Outcome]
         /\ dPc' \in [Visitor -> {"idle", "counting", "querying", "storing", "done"}]
         /\ dPc'[v] \in {"counting", "done"}
         /\ served'[v] # served[v] => dPc'[v] = "done"
         /\ served'[v] = "open" => served[v] = "open" \/ users = 0
         /\ \A w \in Visitor \ {v} : dPc'[w] = dPc[w] /\ served'[w] = served[w]
BY DEF Dash!Decide, Dash!Serve, Dash!Continue, Dash!Mode, Dash!TypeOK, Dash!Outcome

\* What a change of the accounts, from wherever, does.
LEMMA AccountsChange ==
  ASSUME Dashboard, DashInv, Dash!Change,
         UNCHANGED <<dNow, n, known, until, mu, dPc, round, dStamp, read, served, failed>>,
         dPhase' \in [DashAdmin -> {"idle", "changed"}]
  PROVE  DashInv'
<1> USE DEF Dashboard, DashInv
<1>1. CASE /\ accounts < MaxUsers
           /\ accounts' = accounts + 1
           /\ filledAt' = IF accounts = 0 THEN dNow ELSE filledAt
           /\ UNCHANGED <<dSettled, dSince>>
  <2>1. Dash!TypeOK'
    BY <1>1 DEF Dash!TypeOK
  <2>2. ZeroIsRecent'
    BY <1>1 DEF ZeroIsRecent, Dash!TypeOK
  <2>3. Dash!OpenBounded'
    BY <1>1 DEF Dash!OpenBounded, Dash!TypeOK
  <2>4. Querying' /\ SettledIsCounted' /\ Dash!ClosedAtOnce'
    BY <1>1 DEF Querying, SettledIsCounted, Dash!ClosedAtOnce, Dash!TypeOK
  <2> QED
    BY <2>1, <2>2, <2>3, <2>4
<1>2. CASE /\ accounts > 0
           /\ accounts' = accounts - 1
           /\ dSettled' = (dSettled /\ accounts > 1)
           /\ dSince' = [v \in Visitor |-> dSince[v] /\ accounts > 1]
           /\ UNCHANGED filledAt
  <2>1. Dash!TypeOK'
    <3>1. dSettled' \in BOOLEAN /\ dSince' \in [Visitor -> BOOLEAN]
      <4> HIDE DEF DashInv
      <4> QED
        BY <1>2
    <3> QED
      BY <1>2, <3>1 DEF Dash!TypeOK
  <2>2. ZeroIsRecent' /\ Dash!OpenBounded'
    BY <1>2 DEF ZeroIsRecent, Dash!OpenBounded, Dash!TypeOK
  <2>3. (dSettled' => dSettled) /\ (dSettled' => accounts > 1)
    <3> HIDE DEF DashInv
    <3> QED
      BY <1>2
  <2>4. \A v \in Visitor : (dSince'[v] => dSince[v]) /\ (dSince'[v] => accounts > 1)
    <3> HIDE DEF DashInv
    <3> QED
      BY <1>2
  <2>5. \A v \in Visitor : dSince[v] /\ accounts > 1 => dSince'[v] /\ dSettled'
    <3>1. \A v \in Visitor : dSince[v] => dSettled
      BY DEF SettledIsCounted
    <3> HIDE DEF DashInv
    <3> QED
      BY <1>2, <3>1
  <2>6. accounts > 1 => accounts' # 0
    BY <1>2 DEF Dash!TypeOK
  <2>7. SettledIsCounted'
    BY <1>2, <2>3, <2>4, <2>5, <2>6 DEF SettledIsCounted
  <2>8. Querying' /\ Dash!ClosedAtOnce'
    BY <2>4 DEF Querying, Dash!ClosedAtOnce
  <2> QED
    BY <2>1, <2>2, <2>7, <2>8
<1> QED
  BY <1>1, <1>2 DEF Dash!Change

\* Every step keeps the invariant.
LEMMA DashStep == ASSUME Dashboard PROVE DashInv /\ [Dash!Next]_Dash!vars => DashInv'
<1> SUFFICES ASSUME DashInv, [Dash!Next]_Dash!vars
             PROVE  DashInv'
  OBVIOUS
<1> USE DEF Dashboard, DashInv, Querying, ZeroIsRecent, SettledIsCounted, Dash!OpenBounded,
            Dash!ClosedAtOnce, Dash!counter, Dash!request, Dash!history
<1>1. CASE Dash!Tick
  BY <1>1 DEF Dash!Tick, Dash!TypeOK
<1>2. ASSUME NEW v \in Visitor, Dash!Arrive(v) PROVE DashInv'
  BY <1>2 DEF Dash!Arrive, Dash!TypeOK
<1>3. ASSUME NEW v \in Visitor, Dash!CountHit(v) PROVE DashInv'
  <2>1. n \in Nat
    BY DEF Dash!TypeOK
  <2> QED
    BY <1>3, <2>1, Decided DEF Dash!CountHit, Dash!Fresh, Dash!TypeOK
<1>4. ASSUME NEW v \in Visitor, Dash!CountMiss(v) PROVE DashInv'
  BY <1>4 DEF Dash!CountMiss, Dash!TypeOK
<1>5. ASSUME NEW v \in Visitor, Dash!CountUsers(v) PROVE DashInv'
  BY <1>5 DEF Dash!CountUsers, Dash!TypeOK
<1>6. ASSUME NEW v \in Visitor, Dash!CountStore(v) PROVE DashInv'
  <2>1. read[v] \in Nat
    BY DEF Dash!TypeOK
  <2> QED
    BY <1>6, <2>1, Decided DEF Dash!CountStore, Dash!Store, Dash!TypeOK
<1>7. ASSUME NEW v \in Visitor, Dash!Return(v) PROVE DashInv'
  BY <1>7 DEF Dash!Return, Dash!TypeOK, Dash!Outcome
<1>8. ASSUME NEW v \in Visitor, Dash!CountFails(v) PROVE DashInv'
  <2>1. Dash!AnswerOnError \in Nat
    BY DEF Dash!TypeOK, Dash!AnswerOnError
  <2> QED
    BY <1>8, <2>1, Decided DEF Dash!CountFails, Dash!TypeOK
<1>9. ASSUME NEW a \in DashAdmin, Dash!DashboardChange(a) PROVE DashInv'
  <2>1. /\ Dash!Change /\ dPhase' = [dPhase EXCEPT ![a] = "changed"]
        /\ UNCHANGED <<dNow, n, known, until, mu, dPc, round, dStamp, read, served, failed>>
    BY <1>9 DEF Dash!DashboardChange
  <2>2. dPhase' \in [DashAdmin -> {"idle", "changed"}]
    BY <2>1 DEF Dash!TypeOK
  <2> HIDE DEF DashInv
  <2> QED
    BY <2>1, <2>2, AccountsChange
<1>10. ASSUME NEW a \in DashAdmin, Dash!Invalidate(a) PROVE DashInv'
  <2>1. /\ mu = Nobody /\ known' = FALSE /\ (dSettled' <=> accounts > 0)
        /\ dPhase' = [dPhase EXCEPT ![a] = "idle"]
        /\ UNCHANGED <<dNow, accounts, n, until, mu, dPc, round, dStamp, read, served, dSince,
                       failed, filledAt>>
    BY <1>10 DEF Dash!Invalidate
  <2>2. dSettled' \in BOOLEAN
    <3>1. dSettled' = (accounts > 0)
      BY <1>10 DEF Dash!Invalidate
    <3> HIDE DEF DashInv
    <3> QED
      BY <3>1
  <2>3. Dash!TypeOK'
    BY <2>1, <2>2 DEF Dash!TypeOK
  <2>4. accounts \in Nat /\ \A v \in Visitor : dPc[v] # "storing"
    BY <2>1 DEF Dash!TypeOK
  <2> QED
    BY <2>1, <2>3, <2>4
<1>11. CASE Dash!CommandChange
  <2>1. /\ Dash!Change /\ UNCHANGED dPhase
        /\ UNCHANGED <<dNow, n, known, until, mu, dPc, round, dStamp, read, served, failed>>
    BY <1>11 DEF Dash!CommandChange
  <2>2. dPhase' \in [DashAdmin -> {"idle", "changed"}]
    BY <2>1 DEF Dash!TypeOK
  <2> HIDE DEF DashInv
  <2> QED
    BY <2>1, <2>2, AccountsChange
<1>12. CASE UNCHANGED Dash!vars
  BY <1>12 DEF Dash!vars, Dash!TypeOK
<1> QED
  BY <1>1, <1>2, <1>3, <1>4, <1>5, <1>6, <1>7, <1>8, <1>9, <1>10, <1>11, <1>12
  DEF Dash!Next, Dash!VisitorStep

\* The dashboard is open without an account for a bounded time only, an account made in it
\* shuts it at once, and no count keeps its mutex.
THEOREM DashboardIsGuarded ==
  ASSUME Dashboard
  PROVE  Dash!Spec => []DashGuarded
<1>1. DashInv => DashGuarded
  BY DEF DashInv, Querying, DashGuarded, Dash!DashGuarded, Dash!HeldForQuery, Dash!TypeOK
<1> QED
  BY <1>1, DashInit, DashStep, PTL DEF Dash!Spec

\* Every reachable state of DashAuth is well typed.
THEOREM DashTypeCorrect == ASSUME Dashboard PROVE Dash!Spec => []Dash!TypeOK
<1>1. DashInv => Dash!TypeOK
  BY DEF DashInv
<1> QED
  BY <1>1, DashInit, DashStep, PTL DEF Dash!Spec
=============================================================================
