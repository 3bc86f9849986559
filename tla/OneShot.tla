------------------------------ MODULE OneShot ------------------------------
(***************************************************************************)
(* What a ticket of internal/core/tickets.go promises: it is issued once,  *)
(* for one sandbox, then it is void for good, and only the step that voids *)
(* a live ticket can open a terminal with it, the one of its own sandbox.  *)
(***************************************************************************)
CONSTANTS Ticket, Sandbox, Handshake, None

VARIABLES
  state,  \* of each ticket: "none", "live" or "void"
  bound,  \* the sandbox each was issued for
  opened  \* the terminals opened: <<handshake, ticket, sandbox>>

oneShotVars == <<state, bound, opened>>

Init ==
  /\ state = [t \in Ticket |-> "none"]
  /\ bound = [t \in Ticket |-> None]
  /\ opened = {}

\* A mint that waited for too long hands out a ticket that is void already.
Issue(t, s) ==
  /\ state[t] = "none"
  /\ \E v \in {"live", "void"} : state' = [state EXCEPT ![t] = v]
  /\ bound' = [bound EXCEPT ![t] = s]
  /\ UNCHANGED opened

Open(h, t) ==
  /\ state[t] = "live"
  /\ state' = [state EXCEPT ![t] = "void"]
  /\ opened' = opened \cup {<<h, t, bound[t]>>}
  /\ UNCHANGED bound

\* Expiry, or a handshake for another sandbox.
Void(T) ==
  /\ \A t \in T : state[t] = "live"
  /\ state' = [t \in Ticket |-> IF t \in T THEN "void" ELSE state[t]]
  /\ UNCHANGED <<bound, opened>>

Next ==
  \/ \E t \in Ticket, s \in Sandbox : Issue(t, s)
  \/ \E h \in Handshake, t \in Ticket : Open(h, t)
  \/ \E T \in SUBSET Ticket : Void(T)

Spec == Init /\ [][Next]_oneShotVars
=============================================================================
