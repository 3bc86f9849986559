----------------------------- MODULE MCTickets -----------------------------
(* Model-checking instances of Tickets: tickets expire while others are live. *)
EXTENDS Tickets, TLC

TicketSymmetry == Permutations(Ticket) \cup Permutations(Sandbox) \cup Permutations(Handshake)
ASSUME TicketsExpire == TTL < MaxTime
=============================================================================
