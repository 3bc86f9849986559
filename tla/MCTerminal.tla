----------------------------- MODULE MCTerminal -----------------------------
(* Model-checking instance of Service: the terminal's channel fills.          *)
EXTENDS Service

ASSUME ChannelFills == Cap < MaxOut
=============================================================================
