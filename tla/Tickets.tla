------------------------------ MODULE Tickets ------------------------------
(***************************************************************************)
(* Terminal tickets: MintTerminalTicket and RedeemTerminalTicket of        *)
(* internal/core/tickets.go, and the handshakes that present a ticket to   *)
(* authWS of internal/api/router.go.                                       *)
(*                                                                         *)
(* A mint stamps the expiry before it takes the registry's lock and may    *)
(* wait there; a redemption looks at the clock under it.  A handshake asks *)
(* first whether the API requires a key at all, and that can change.       *)
(***************************************************************************)
EXTENDS Integers

CONSTANTS
  Ticket,     \* the tokens: 24 random bytes, never drawn twice
  Sandbox,
  Handshake,  \* WebSocket handshakes
  None,
  TTL,        \* terminalTicketTTL
  MaxTime     \* bound: the clock

ASSUME TicketsAssumption ==
  /\ TTL \in Nat
  /\ MaxTime \in Nat
  /\ None \notin Ticket \cup Sandbox

VARIABLES
  now,       \* the clock
  required,  \* what authRequired answers: the store holds a key, or there is a static one
  stamp,     \* the expiry of a ticket drawn and not yet registered, or None
  issued,    \* the sandbox a ticket was minted for, None before it is registered
  expires,   \* its expiry, once registered
  table,     \* the tickets in ticketRegistry.m
  lastMint,  \* the clock at the last sweep
  conn       \* the handshakes

vars == <<now, required, stamp, issued, expires, table, lastMint, conn>>

Conn == [at : {"new", "gated", "keyed", "open", "refused"},
         via : {"none", "open", "ticket", "key"},
         ticket : Ticket \cup {None},
         sandbox : Sandbox \cup {None},
         time : 0..MaxTime]

TypeOK ==
  /\ now \in 0..MaxTime
  /\ required \in BOOLEAN
  /\ stamp \in [Ticket -> Nat \cup {None}]
  /\ issued \in [Ticket -> Sandbox \cup {None}]
  /\ expires \in [Ticket -> Nat]
  /\ table \in SUBSET Ticket
  /\ lastMint \in 0..MaxTime
  /\ conn \in [Handshake -> Conn]

Init ==
  /\ now = 0
  /\ required \in BOOLEAN
  /\ stamp = [t \in Ticket |-> None]
  /\ issued = [t \in Ticket |-> None]
  /\ expires = [t \in Ticket |-> 0]
  /\ table = {}
  /\ lastMint = 0
  /\ conn = [h \in Handshake |-> [at |-> "new", via |-> "none", ticket |-> None,
                                  sandbox |-> None, time |-> 0]]

Tick ==
  /\ now < MaxTime
  /\ now' = now + 1
  /\ UNCHANGED <<required, stamp, issued, expires, table, lastMint, conn>>

\* Keys are created and deleted elsewhere.
KeysChange ==
  /\ required' = ~required
  /\ UNCHANGED <<now, stamp, issued, expires, table, lastMint, conn>>
-----------------------------------------------------------------------------
(* MintTerminalTicket *)

\* time.Now().After(expires)
Expired(t) == now > expires[t]

Stamp(t) ==
  /\ issued[t] = None /\ stamp[t] = None
  /\ stamp' = [stamp EXCEPT ![t] = now + TTL]
  /\ UNCHANGED <<now, required, issued, expires, table, lastMint, conn>>

SweptNone(T, e) == T

\* sweepLocked on a map of the tickets T with the expiries e.
Swept(T, e) == {t \in T : now <= e[t]}

Mint(t, s) ==
  /\ stamp[t] # None /\ issued[t] = None
  /\ issued' = [issued EXCEPT ![t] = s]
  /\ expires' = [expires EXCEPT ![t] = stamp[t]]
  /\ table' = Swept(table \cup {t}, expires')
  /\ lastMint' = now
  /\ UNCHANGED <<now, required, stamp, conn>>
-----------------------------------------------------------------------------
(* A handshake: authWS *)

\* A client presents a ticket it has been given, for a sandbox of its choice.
Arrive(h, t, s) ==
  /\ conn[h].at = "new"
  /\ issued[t] # None
  /\ conn' = [conn EXCEPT ![h] =
       [@ EXCEPT !.ticket = t, !.sandbox = s,
                 !.at = IF required THEN "gated" ELSE "open",
                 !.via = IF required THEN "none" ELSE "open"]]
  /\ UNCHANGED <<now, required, stamp, issued, expires, table, lastMint>>

RedeemsExpired(t, s) == t \in table /\ issued[t] = s

\* What RedeemTerminalTicket answers.
Redeems(t, s) == t \in table /\ ~Expired(t) /\ issued[t] = s

\* The ticket leaves the registry whatever the answer.
Left(t) == table \ {t}

Redeem(h) ==
  LET t == conn[h].ticket
  IN  /\ conn[h].at = "gated"
      /\ table' = Left(t)
      /\ conn' = [conn EXCEPT ![h] =
           IF Redeems(t, @.sandbox)
           THEN [@ EXCEPT !.at = "open", !.via = "ticket", !.time = now]
           ELSE [@ EXCEPT !.at = "keyed"]]
      /\ UNCHANGED <<now, required, stamp, issued, expires, lastMint>>

\* Without a valid ticket the handshake may still bring a key.
CheckKey(h) ==
  /\ conn[h].at = "keyed"
  /\ conn' \in {[conn EXCEPT ![h] = [@ EXCEPT !.at = "open", !.via = "key"]],
                [conn EXCEPT ![h] = [@ EXCEPT !.at = "refused"]]}
  /\ UNCHANGED <<now, required, stamp, issued, expires, table, lastMint>>
-----------------------------------------------------------------------------
Next ==
  \/ Tick
  \/ KeysChange
  \/ \E t \in Ticket : Stamp(t)
  \/ \E t \in Ticket, s \in Sandbox : Mint(t, s)
  \/ \E h \in Handshake, t \in Ticket, s \in Sandbox : Arrive(h, t, s)
  \/ \E h \in Handshake : Redeem(h) \/ CheckKey(h)

Spec == Init /\ [][Next]_vars
-----------------------------------------------------------------------------
(* Properties *)

\* A ticket opens one terminal at most, however many handshakes present it at once.
OneTerminal ==
  \A g, h \in Handshake :
    conn[g].via = "ticket" /\ conn[h].via = "ticket" /\ conn[g].ticket = conn[h].ticket
      => g = h

\* ... and only of the sandbox it was minted for, at the latest in its last instant.
TicketBounds ==
  \A h \in Handshake : conn[h].via = "ticket" =>
    /\ conn[h].sandbox = issued[conn[h].ticket]
    /\ conn[h].time <= expires[conn[h].ticket]

\* Nobody redeems the tickets of closed pages, yet they do not pile up: every mint leaves
\* only live ones behind.
OnlyRecent == \A t \in table : lastMint <= expires[t]

\* What has become of each ticket, and the terminals opened by one.
Standing == [t \in Ticket |->
  IF issued[t] = None THEN "none" ELSE IF t \in table /\ ~Expired(t) THEN "live" ELSE "void"]

ByTicket == {h \in Handshake : conn[h].via = "ticket"}

Terminals == {<<h, conn[h].ticket, conn[h].sandbox>> : h \in ByTicket}

Promise == INSTANCE OneShot WITH state <- Standing, bound <- issued, opened <- Terminals

\* The promise of OneShot: what has been void once, for whatever reason, stays void, and
\* every terminal opened by a ticket has spent a live one of its sandbox.
KeepsPromise == Promise!Spec

\* "Single-use": a ticket opens no terminal when a handshake that presented it before has
\* opened one.
SingleUse ==
  [][\A g, h \in Handshake :
       conn[h].via # "ticket" /\ conn'[h].via = "ticket" /\ conn[g].at = "open"
         => conn[g].ticket # conn[h].ticket]_vars
=============================================================================
