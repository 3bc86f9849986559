--------------------------- MODULE TicketsProofs ---------------------------
(***************************************************************************)
(* Tickets keep the promise of OneShot for any number of tickets, sandboxes*)
(* and handshakes, any lifetime and any clock.                             *)
(*                                                                         *)
(* The argument: a handshake that has got its terminal by a ticket has     *)
(* taken that ticket out of the registry (Handshakes), and only a ticket   *)
(* that was never registered is ever put there, so it does not come back.  *)
(***************************************************************************)
EXTENDS Tickets, TLAPS

\* What a handshake has behind it at each of its points.
Handshakes ==
  \A h \in Handshake :
    /\ conn[h].at \in {"new", "gated", "keyed"} => conn[h].via = "none"
    /\ conn[h].at # "new" =>
         /\ conn[h].ticket \in Ticket
         /\ conn[h].sandbox \in Sandbox
         /\ issued[conn[h].ticket] # None
    /\ conn[h].via = "ticket" => conn[h].ticket \notin table

\* What is in the registry has been registered.
Registered == \A t \in table : issued[t] # None

IInv == TypeOK /\ Handshakes /\ Registered /\ OneTerminal /\ TicketBounds /\ OnlyRecent

\* No ticket, no handshake.
LEMMA InvInit == Init => IInv
  BY TicketsAssumption
  DEF Init, IInv, TypeOK, Conn, Handshakes, Registered, OneTerminal, TicketBounds, OnlyRecent

\* What a redemption does to the handshakes.
LEMMA RedeemConn ==
  ASSUME TypeOK, NEW h \in Handshake, Redeem(h)
  PROVE  /\ conn[h].at = "gated"
         /\ conn' \in [Handshake -> Conn]
         /\ \A g \in Handshake \ {h} : conn'[g] = conn[g]
         /\ conn'[h].ticket = conn[h].ticket /\ conn'[h].sandbox = conn[h].sandbox
         /\ \/ /\ Redeems(conn[h].ticket, conn[h].sandbox)
               /\ conn'[h].at = "open" /\ conn'[h].via = "ticket" /\ conn'[h].time = now
            \/ /\ conn'[h].at = "keyed" /\ conn'[h].via = conn[h].via
               /\ conn'[h].time = conn[h].time
               /\ ~Redeems(conn[h].ticket, conn[h].sandbox)
<1>1. conn \in [Handshake -> Conn] /\ conn[h] \in Conn /\ now \in 0..MaxTime
  BY DEF TypeOK
<1> DEFINE c == IF Redeems(conn[h].ticket, conn[h].sandbox)
                THEN [conn[h] EXCEPT !.at = "open", !.via = "ticket", !.time = now]
                ELSE [conn[h] EXCEPT !.at = "keyed"]
<1>2. conn' = [conn EXCEPT ![h] = c] /\ conn[h].at = "gated"
  BY DEF Redeem
<1>3. /\ c \in Conn /\ c.ticket = conn[h].ticket /\ c.sandbox = conn[h].sandbox
      /\ \/ /\ Redeems(conn[h].ticket, conn[h].sandbox)
            /\ c.at = "open" /\ c.via = "ticket" /\ c.time = now
         \/ /\ c.at = "keyed" /\ c.via = conn[h].via /\ c.time = conn[h].time
            /\ ~Redeems(conn[h].ticket, conn[h].sandbox)
  BY <1>1 DEF Conn
<1> HIDE DEF c
<1> QED
  BY <1>1, <1>2, <1>3


\* What an arrival does to the handshakes.
LEMMA ArriveConn ==
  ASSUME TypeOK, NEW h \in Handshake, NEW t \in Ticket, NEW s \in Sandbox, Arrive(h, t, s)
  PROVE  /\ conn[h].at = "new"
         /\ conn' \in [Handshake -> Conn]
         /\ \A g \in Handshake \ {h} : conn'[g] = conn[g]
         /\ conn'[h].ticket = t /\ conn'[h].sandbox = s
         /\ \/ conn'[h].at = "gated" /\ conn'[h].via = "none"
            \/ conn'[h].at = "open" /\ conn'[h].via = "open"
<1>1. conn \in [Handshake -> Conn] /\ conn[h] \in Conn
  BY DEF TypeOK
<1> DEFINE c == [conn[h] EXCEPT !.ticket = t, !.sandbox = s,
                                !.at = IF required THEN "gated" ELSE "open",
                                !.via = IF required THEN "none" ELSE "open"]
<1>2. conn' = [conn EXCEPT ![h] = c] /\ conn[h].at = "new"
  BY DEF Arrive
<1>3. /\ c \in Conn /\ c.ticket = t /\ c.sandbox = s
      /\ \/ c.at = "gated" /\ c.via = "none"
         \/ c.at = "open" /\ c.via = "open"
  <2>1. CASE required
    <3>1. c = [conn[h] EXCEPT !.ticket = t, !.sandbox = s, !.at = "gated", !.via = "none"]
      BY <2>1
    <3> QED
      BY <1>1, <3>1 DEF Conn
  <2>2. CASE ~required
    <3>1. c = [conn[h] EXCEPT !.ticket = t, !.sandbox = s, !.at = "open", !.via = "open"]
      BY <2>2
    <3> QED
      BY <1>1, <3>1 DEF Conn
  <2> QED
    BY <2>1, <2>2
<1> HIDE DEF c
<1> QED
  BY <1>1, <1>2, <1>3

\* What the check of a key does to the handshakes.
LEMMA CheckKeyConn ==
  ASSUME TypeOK, NEW h \in Handshake, CheckKey(h)
  PROVE  /\ conn[h].at = "keyed"
         /\ conn' \in [Handshake -> Conn]
         /\ \A g \in Handshake \ {h} : conn'[g] = conn[g]
         /\ conn'[h].ticket = conn[h].ticket /\ conn'[h].sandbox = conn[h].sandbox
         /\ \/ conn'[h].at = "open" /\ conn'[h].via = "key"
            \/ conn'[h].at = "refused" /\ conn'[h].via = conn[h].via
<1>1. conn \in [Handshake -> Conn] /\ conn[h] \in Conn
  BY DEF TypeOK
<1> DEFINE key == [conn[h] EXCEPT !.at = "open", !.via = "key"]
           no == [conn[h] EXCEPT !.at = "refused"]
<1>2. conn' \in {[conn EXCEPT ![h] = key], [conn EXCEPT ![h] = no]} /\ conn[h].at = "keyed"
  BY DEF CheckKey
<1>3. /\ key \in Conn /\ key.ticket = conn[h].ticket /\ key.sandbox = conn[h].sandbox
      /\ key.at = "open" /\ key.via = "key"
  BY <1>1 DEF Conn
<1>4. /\ no \in Conn /\ no.ticket = conn[h].ticket /\ no.sandbox = conn[h].sandbox
      /\ no.at = "refused" /\ no.via = conn[h].via
  BY <1>1 DEF Conn
<1> HIDE DEF key, no
<1> QED
  BY <1>1, <1>2, <1>3, <1>4

\* Every step keeps the invariant.
LEMMA InvStep == IInv /\ [Next]_vars => IInv'
<1> SUFFICES ASSUME IInv, [Next]_vars
             PROVE  IInv'
  OBVIOUS
<1> USE DEF IInv
<1>1. CASE Tick
  BY <1>1, TicketsAssumption
  DEF Tick, TypeOK, Handshakes, Registered, OneTerminal, TicketBounds, OnlyRecent
<1>2. CASE KeysChange
  BY <1>2
  DEF KeysChange, TypeOK, Handshakes, Registered, OneTerminal, TicketBounds, OnlyRecent
<1>3. ASSUME NEW t \in Ticket, Stamp(t)
      PROVE  IInv'
  BY <1>3, TicketsAssumption
  DEF Stamp, TypeOK, Handshakes, Registered, OneTerminal, TicketBounds, OnlyRecent
<1>4. ASSUME NEW t \in Ticket, NEW s \in Sandbox, Mint(t, s)
      PROVE  IInv'
  <2>1. /\ issued[t] = None /\ issued' = [issued EXCEPT ![t] = s]
        /\ expires' = [expires EXCEPT ![t] = stamp[t]] /\ stamp[t] \in Nat
        /\ table' \subseteq table \cup {t}
        /\ \A u \in table' : now <= expires'[u]
        /\ lastMint' = now /\ UNCHANGED <<now, required, stamp, conn>>
    BY <1>4 DEF Mint, Swept, TypeOK
  <2>2. TypeOK'
    BY <2>1 DEF TypeOK
  <2>3. s # None
    BY TicketsAssumption
  <2>4. \A u \in Ticket : issued[u] # None => issued'[u] = issued[u] /\ expires'[u] = expires[u]
    BY <2>1 DEF TypeOK
  <2>5. Handshakes'
    BY <2>1, <2>4 DEF Handshakes
  <2>6. Registered'
    BY <2>1, <2>3, <2>4 DEF Registered, TypeOK
  <2>7. OneTerminal'
    BY <2>1 DEF OneTerminal
  <2>8. \A h \in Handshake : conn[h].via = "ticket" => conn[h].at # "new"
    BY DEF Handshakes
  <2>9. TicketBounds'
    BY <2>1, <2>4, <2>8 DEF TicketBounds, Handshakes
  <2>10. OnlyRecent'
    BY <2>1 DEF OnlyRecent
  <2> QED
    BY <2>2, <2>5, <2>6, <2>7, <2>9, <2>10
<1>5. ASSUME NEW h \in Handshake, NEW t \in Ticket, NEW s \in Sandbox, Arrive(h, t, s)
      PROVE  IInv'
  <2>1. UNCHANGED <<now, required, stamp, issued, expires, table, lastMint>> /\ issued[t] # None
    BY <1>5 DEF Arrive
  <2>2. TypeOK'
    BY <1>5, <2>1, ArriveConn DEF TypeOK
  <2>3. Handshakes'
    BY <1>5, <2>1, ArriveConn DEF Handshakes
  <2>4. Registered' /\ OnlyRecent'
    BY <2>1 DEF Registered, OnlyRecent
  <2>5. OneTerminal'
    BY <1>5, ArriveConn DEF OneTerminal
  <2>6. TicketBounds'
    BY <1>5, <2>1, ArriveConn DEF TicketBounds
  <2> QED
    BY <2>2, <2>3, <2>4, <2>5, <2>6
<1>6. ASSUME NEW h \in Handshake, Redeem(h)
      PROVE  IInv'
  <2>1. /\ UNCHANGED <<now, required, stamp, issued, expires, lastMint>>
        /\ table' = table \ {conn[h].ticket}
    BY <1>6 DEF Redeem, Left
  <2>2. TypeOK'
    BY <1>6, <2>1, RedeemConn DEF TypeOK
  <2>3. Handshakes'
    BY <1>6, <2>1, RedeemConn DEF Handshakes
  <2>4. Registered' /\ OnlyRecent'
    BY <2>1 DEF Registered, OnlyRecent
  <2>5. OneTerminal'
    BY <1>6, RedeemConn DEF OneTerminal, Handshakes, Redeems
  <2>6. TicketBounds'
    BY <1>6, <2>1, RedeemConn DEF TicketBounds, Handshakes, Redeems, Expired, TypeOK
  <2> QED
    BY <2>2, <2>3, <2>4, <2>5, <2>6
<1>7. ASSUME NEW h \in Handshake, CheckKey(h)
      PROVE  IInv'
  <2>1. UNCHANGED <<now, required, stamp, issued, expires, table, lastMint>>
    BY <1>7 DEF CheckKey
  <2>2. TypeOK'
    BY <1>7, <2>1, CheckKeyConn DEF TypeOK
  <2>3. Handshakes'
    BY <1>7, <2>1, CheckKeyConn DEF Handshakes
  <2>4. Registered' /\ OnlyRecent'
    BY <2>1 DEF Registered, OnlyRecent
  <2>5. OneTerminal'
    BY <1>7, CheckKeyConn DEF OneTerminal, Handshakes
  <2>6. TicketBounds'
    BY <1>7, <2>1, CheckKeyConn DEF TicketBounds, Handshakes
  <2> QED
    BY <2>2, <2>3, <2>4, <2>5, <2>6
<1>8. CASE UNCHANGED vars
  BY <1>8 DEF vars, TypeOK, Handshakes, Registered, OneTerminal, TicketBounds, OnlyRecent, Conn
<1> QED
  BY <1>1, <1>2, <1>3, <1>4, <1>5, <1>6, <1>7, <1>8 DEF Next

\* The inductive invariant holds in every reachable state.
THEOREM Invariance == Spec => []IInv
  BY InvInit, InvStep, PTL DEF Spec

\* Every variable stays within its type.
THEOREM TypeCorrect == Spec => []TypeOK
<1>1. IInv => TypeOK
  BY DEF IInv
<1> QED
  BY <1>1, Invariance, PTL

\* RedeemTerminalTicket admits at most one handshake per ticket, whoever races with whom.
THEOREM TicketsOpenOnce == Spec => []OneTerminal
<1>1. IInv => OneTerminal
  BY DEF IInv
<1> QED
  BY <1>1, Invariance, PTL

\* ... for the sandbox of the mint, and not after the ticket's last instant.
THEOREM TicketsBound == Spec => []TicketBounds
<1>1. IInv => TicketBounds
  BY DEF IInv
<1> QED
  BY <1>1, Invariance, PTL

\* sweepLocked keeps the registry to what was alive at the last mint.
THEOREM RegistrySwept == Spec => []OnlyRecent
<1>1. IInv => OnlyRecent
  BY DEF IInv
<1> QED
  BY <1>1, Invariance, PTL
-----------------------------------------------------------------------------
(* The refinement *)

\* A handshake that keeps its way in keeps the terminals as they are.
LEMMA SameTerminals ==
  ASSUME NEW h \in Handshake,
         \A g \in Handshake \ {h} : conn'[g] = conn[g],
         conn[h].via # "ticket", conn'[h].via # "ticket"
  PROVE  Terminals' = Terminals
<1>1. ByTicket' = ByTicket /\ h \notin ByTicket
  BY DEF ByTicket
<1>2. \A g \in ByTicket : conn'[g] = conn[g]
  BY <1>1 DEF ByTicket
<1> QED
  BY <1>1, <1>2 DEF Terminals

\* Live tickets that stop being live, all at once or not at all, are voided.
LEMMA VoidStep ==
  ASSUME TypeOK, UNCHANGED <<issued, expires>>, now <= now', now' \in Nat,
         table' \subseteq table, Terminals' = Terminals
  PROVE  \E T \in SUBSET Ticket : Promise!Void(T)
<1> DEFINE T == {t \in Ticket : Standing[t] = "live" /\ Standing'[t] # "live"}
<1>1. \A t \in Ticket : Standing[t] # "live" => Standing'[t] = Standing[t]
  BY DEF Standing, Expired, TypeOK
<1>2. \A t \in T : Standing[t] = "live" /\ Standing'[t] = "void"
  BY DEF Standing
<1>3. Standing' = [t \in Ticket |-> IF t \in T THEN "void" ELSE Standing[t]]
  <2>1. Standing' = [t \in Ticket |-> Standing'[t]]
    BY DEF Standing
  <2>2. \A t \in Ticket : Standing'[t] = IF t \in T THEN "void" ELSE Standing[t]
    BY <1>1, <1>2
  <2> QED
    BY <2>1, <2>2
<1>4. Promise!Void(T)
  BY <1>2, <1>3 DEF Promise!Void
<1> QED
  BY <1>4

\* No ticket has been issued at first.
LEMMA PromiseInit == Init => Promise!Init
  BY DEF Init, Promise!Init, Standing, Terminals, ByTicket

\* Every step of Tickets is a step of OneShot, or none.
LEMMA PromiseStep == IInv /\ [Next]_vars => [Promise!Next]_Promise!oneShotVars
<1> SUFFICES ASSUME IInv, [Next]_vars
             PROVE  Promise!Next \/ UNCHANGED <<Standing, issued, Terminals>>
  BY DEF Promise!oneShotVars
<1> USE DEF IInv
<1>1. CASE Tick
  <2>1. /\ UNCHANGED <<issued, expires>> /\ now <= now' /\ now' \in Nat
        /\ table' \subseteq table /\ Terminals' = Terminals
    BY <1>1, TicketsAssumption DEF Tick, TypeOK, Terminals, ByTicket
  <2> QED
    BY <2>1, VoidStep DEF Promise!Next
<1>2. CASE KeysChange
  BY <1>2 DEF KeysChange, Standing, Expired, Terminals, ByTicket
<1>3. ASSUME NEW t \in Ticket, Stamp(t)
      PROVE  UNCHANGED <<Standing, issued, Terminals>>
  BY <1>3 DEF Stamp, Standing, Expired, Terminals, ByTicket
<1>4. ASSUME NEW t \in Ticket, NEW s \in Sandbox, Mint(t, s)
      PROVE  Promise!Next
  <2>1. /\ issued[t] = None /\ issued' = [issued EXCEPT ![t] = s] /\ s # None
        /\ expires' = [expires EXCEPT ![t] = stamp[t]] /\ stamp[t] \in Nat
        /\ table' = {u \in table \cup {t} : now <= expires'[u]}
        /\ UNCHANGED <<now, conn>>
    BY <1>4, TicketsAssumption DEF Mint, Swept, TypeOK
  <2>2. \A u \in Ticket \ {t} : Standing'[u] = Standing[u]
    BY <2>1 DEF Standing, Expired, TypeOK
  <2>3. Standing[t] = "none" /\ Standing'[t] \in {"live", "void"}
    BY <2>1 DEF Standing, TypeOK
  <2>4. Standing' = [Standing EXCEPT ![t] = Standing'[t]]
    <3>1. Standing' = [u \in Ticket |-> Standing'[u]]
      BY DEF Standing
    <3>2. Standing = [u \in Ticket |-> Standing[u]]
      BY DEF Standing
    <3> HIDE DEF IInv
    <3> QED
      BY <2>2, <3>1, <3>2
  <2>5. Terminals' = Terminals
    BY <2>1 DEF Terminals, ByTicket
  <2>6. Promise!Issue(t, s)
    BY <2>1, <2>3, <2>4, <2>5 DEF Promise!Issue
  <2> QED
    BY <2>6 DEF Promise!Next
<1>5. ASSUME NEW h \in Handshake, NEW t \in Ticket, NEW s \in Sandbox, Arrive(h, t, s)
      PROVE  UNCHANGED <<Standing, issued, Terminals>>
  <2>1. conn[h].via # "ticket"
    BY <1>5, ArriveConn DEF Handshakes
  <2>2. Terminals' = Terminals
    BY <1>5, <2>1, ArriveConn, SameTerminals
  <2> QED
    BY <1>5, <2>2 DEF Arrive, Standing, Expired
<1>6. ASSUME NEW h \in Handshake, Redeem(h)
      PROVE  Promise!Next
  <2> DEFINE t == conn[h].ticket
  <2>1. /\ UNCHANGED <<now, issued, expires>> /\ table' = table \ {t}
        /\ t \in Ticket /\ issued[t] # None /\ now \in Nat
    BY <1>6, TicketsAssumption DEF Redeem, Left, Handshakes, TypeOK
  <2>2. conn[h].via # "ticket"
    BY <1>6, RedeemConn DEF Handshakes
  <2>3. CASE Redeems(t, conn[h].sandbox)
    <3>1. Standing[t] = "live" /\ Standing'[t] = "void" /\ conn[h].sandbox = issued[t]
      BY <2>1, <2>3 DEF Standing, Redeems
    <3>2. Standing' = [Standing EXCEPT ![t] = "void"]
      <4>1. Standing' = [u \in Ticket |-> Standing'[u]]
        BY DEF Standing
      <4>2. Standing = [u \in Ticket |-> Standing[u]]
        BY DEF Standing
      <4>3. \A u \in Ticket \ {t} : Standing'[u] = Standing[u]
        BY <2>1 DEF Standing, Expired
      <4> HIDE DEF IInv
      <4> QED
        BY <3>1, <4>1, <4>2, <4>3
    <3>3. /\ \A g \in Handshake \ {h} : conn'[g] = conn[g]
          /\ conn'[h].ticket = t /\ conn'[h].sandbox = issued[t] /\ conn'[h].via = "ticket"
      BY <1>6, <2>3, <3>1, RedeemConn
    <3>4. ByTicket' = ByTicket \cup {h} /\ h \notin ByTicket
      BY <2>2, <3>3 DEF ByTicket
    <3>5. Terminals' = Terminals \cup {<<h, t, issued[t]>>}
      <4>1. \A g \in ByTicket : conn'[g] = conn[g]
        BY <3>3, <3>4 DEF ByTicket
      <4> QED
        BY <3>3, <3>4, <4>1 DEF Terminals
    <3>6. Promise!Open(h, t)
      BY <2>1, <3>1, <3>2, <3>5 DEF Promise!Open
    <3> QED
      BY <2>1, <3>6 DEF Promise!Next
  <2>4. CASE ~Redeems(t, conn[h].sandbox)
    <3>1. Terminals' = Terminals
      BY <1>6, <2>2, <2>4, RedeemConn, SameTerminals
    <3> QED
      BY <2>1, <3>1, VoidStep DEF Promise!Next
  <2> QED
    BY <2>3, <2>4
<1>7. ASSUME NEW h \in Handshake, CheckKey(h)
      PROVE  UNCHANGED <<Standing, issued, Terminals>>
  <2>1. conn[h].via # "ticket"
    BY <1>7, CheckKeyConn DEF Handshakes
  <2>2. Terminals' = Terminals
    BY <1>7, <2>1, CheckKeyConn, SameTerminals
  <2> QED
    BY <1>7, <2>2 DEF CheckKey, Standing, Expired
<1>8. CASE UNCHANGED vars
  BY <1>8 DEF vars, Standing, Expired, Terminals, ByTicket
<1> QED
  BY <1>1, <1>2, <1>3, <1>4, <1>5, <1>6, <1>7, <1>8 DEF Next

\* The registry implements the one-shot ticket, for any number of tickets, sandboxes and
\* handshakes, and for any lifetime.
THEOREM TicketsKeepPromise == Spec => KeepsPromise
<1>1. Init => Promise!Init
  BY PromiseInit
<1>2. IInv /\ [Next]_vars => [Promise!Next]_Promise!oneShotVars
  BY PromiseStep
<1> QED
  BY <1>1, <1>2, Invariance, PTL DEF Spec, KeepsPromise, Promise!Spec
=============================================================================
