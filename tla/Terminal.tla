------------------------------ MODULE Terminal ------------------------------
(***************************************************************************)
(* One interactive terminal: the session of internal/core/terminal_agent.go*)
(* (pump, Close, Wait) and the WebSocket bridge of internal/api/terminal.go*)
(* around it.  Five goroutines meet here: the pump, which reads frames of  *)
(* the guest and feeds a bounded channel; the bridge, which empties it into*)
(* the socket; the reader, which feeds the socket's messages to the guest; *)
(* Close, run by the bridge; and the grace timer that Close leaves behind. *)
(*                                                                         *)
(* The guest, the agent connection and the client are the environment: a   *)
(* guest may write, end or ignore a hangup, the connection may break, the  *)
(* client may leave, all at any moment.                                    *)
(***************************************************************************)
EXTENDS Integers

CONSTANTS
  Code,    \* exit codes of the guest's process
  MaxOut,  \* bound: output frames of the guest
  Cap,     \* capacity of the output channel (64)
  Unknown, \* -1, the exitCode until an exited frame says otherwise
  None     \* no exit code has been sent or written

ASSUME TerminalAssumption ==
  /\ Code # {}
  /\ MaxOut \in Nat
  /\ Cap \in Nat \ {0}
  /\ Unknown \notin Code
  /\ None \notin Code \cup {Unknown}

VARIABLES
  sent,      \* output frames the guest has sent
  final,     \* None, or the outcome its last frame told: a code, or Unknown for failed
  lost,      \* the agent connection has broken
  connected, \* the WebSocket
  pump,      \* where the pump is
  pumped,    \* output frames it has received
  queued,    \* output frames in the channel
  exitCode,
  done,      \* agentSession.done is closed
  outClosed, \* agentSession.out is closed
  client,    \* the agent client is open
  closed,    \* agentSession.closed; quit is closed with it
  hup,       \* the SIGHUP of Close: "none", "sent" or "lost"
  grace,     \* the goroutine Close starts
  cancelled, \* pumpCtx
  bridge,    \* where handleTerminal and bridgeTerminal are
  delivered, \* output frames written to the socket
  event,     \* the exit code it has been told
  reader,    \* where the reader is
  ctxDone    \* the bridge's context

guestVars == <<sent, final, lost>>
pumpVars == <<pump, pumped, queued, exitCode, done, outClosed, client>>
closeVars == <<closed, hup, grace, cancelled>>
bridgeVars == <<bridge, delivered, event>>
vars == <<guestVars, connected, pumpVars, closeVars, bridgeVars, reader, ctxDone>>

TypeOK ==
  /\ sent \in 0..MaxOut
  /\ final \in Code \cup {Unknown, None}
  /\ lost \in BOOLEAN
  /\ connected \in BOOLEAN
  /\ pump \in {"next", "pushing", "returning", "closedClient", "closedDone", "ended"}
  /\ pumped \in 0..sent
  /\ queued \in 0..Cap
  /\ exitCode \in Code \cup {Unknown}
  /\ done \in BOOLEAN /\ outClosed \in BOOLEAN /\ client \in BOOLEAN
  /\ closed \in BOOLEAN
  /\ hup \in {"none", "sent", "lost"}
  /\ grace \in {"off", "armed", "over"}
  /\ cancelled \in BOOLEAN
  /\ bridge \in {"upgrading", "select", "writing", "waiting", "exiting", "leaving", "closing",
                 "armed", "returned"}
  /\ delivered \in 0..pumped
  /\ event \in Code \cup {Unknown, None}
  /\ reader \in {"off", "reading", "writing", "controlling", "ended"}
  /\ ctxDone \in BOOLEAN

\* openAgentSession has returned; the handler is about to upgrade the connection.
Init ==
  /\ sent = 0 /\ final = None /\ lost = FALSE
  /\ connected = TRUE
  /\ pump = "next" /\ pumped = 0 /\ queued = 0 /\ exitCode = Unknown
  /\ done = FALSE /\ outClosed = FALSE /\ client = TRUE
  /\ closed = FALSE /\ hup = "none" /\ grace = "off" /\ cancelled = FALSE
  /\ bridge = "upgrading" /\ delivered = 0 /\ event = None
  /\ reader = "off"
  /\ ctxDone = FALSE
-----------------------------------------------------------------------------
(* The environment *)

GuestOutput ==
  /\ final = None /\ sent < MaxOut
  /\ sent' = sent + 1
  /\ UNCHANGED <<final, lost, connected, pumpVars, closeVars, bridgeVars, reader, ctxDone>>

\* core.exec.exited or core.exec.failed is the last frame.
GuestEnds ==
  /\ final = None
  /\ final' \in Code \cup {Unknown}
  /\ UNCHANGED <<sent, lost, connected, pumpVars, closeVars, bridgeVars, reader, ctxDone>>

ConnectionLost ==
  /\ ~lost
  /\ lost' = TRUE
  /\ UNCHANGED <<sent, final, connected, pumpVars, closeVars, bridgeVars, reader, ctxDone>>

ClientLeaves ==
  /\ connected
  /\ connected' = FALSE
  /\ UNCHANGED <<guestVars, pumpVars, closeVars, bridgeVars, reader, ctxDone>>
-----------------------------------------------------------------------------
(* pump *)

PumpReceive ==
  /\ pump = "next" /\ ~lost
  /\ pumped < sent
  /\ pumped' = pumped + 1
  /\ pump' = "pushing"
  /\ UNCHANGED <<guestVars, connected, queued, exitCode, done, outClosed, client, closeVars,
                 bridgeVars, reader, ctxDone>>

\* The select on a full channel and a closed quit takes either ready branch.
PumpPush ==
  /\ pump = "pushing"
  /\ queued < Cap
  /\ queued' = queued + 1
  /\ pump' = "next"
  /\ UNCHANGED <<guestVars, connected, pumped, exitCode, done, outClosed, client, closeVars,
                 bridgeVars, reader, ctxDone>>

PumpQuit ==
  /\ pump = "pushing"
  /\ closed
  /\ pump' = "returning"
  /\ UNCHANGED <<guestVars, connected, pumped, queued, exitCode, done, outClosed, client,
                 closeVars, bridgeVars, reader, ctxDone>>

\* The exit frame is seen when all the output before it has been.
PumpFinalEarly ==
  /\ pump = "next" /\ ~lost
  /\ final # None
  /\ exitCode' = final
  /\ pump' = "returning"
  /\ UNCHANGED <<guestVars, connected, pumped, queued, done, outClosed, client, closeVars,
                 bridgeVars, reader, ctxDone>>

PumpFinal ==
  /\ pump = "next" /\ ~lost
  /\ final # None /\ pumped = sent
  /\ exitCode' = final
  /\ pump' = "returning"
  /\ UNCHANGED <<guestVars, connected, pumped, queued, done, outClosed, client, closeVars,
                 bridgeVars, reader, ctxDone>>

\* Next returns an error: the connection is gone, or pumpCtx is cancelled.
PumpError ==
  /\ pump = "next"
  /\ lost \/ cancelled
  /\ pump' = "returning"
  /\ UNCHANGED <<guestVars, connected, pumped, queued, exitCode, done, outClosed, client,
                 closeVars, bridgeVars, reader, ctxDone>>

\* The deferred functions, last one first: the handles, then done, then out.
PumpCloseClient ==
  /\ pump = "returning"
  /\ client' = FALSE
  /\ pump' = "closedClient"
  /\ UNCHANGED <<guestVars, connected, pumped, queued, exitCode, done, outClosed, closeVars,
                 bridgeVars, reader, ctxDone>>

PumpCloseDone ==
  /\ pump = "closedClient"
  /\ done' = TRUE
  /\ pump' = "closedDone"
  /\ UNCHANGED <<guestVars, connected, pumped, queued, exitCode, outClosed, client, closeVars,
                 bridgeVars, reader, ctxDone>>

PumpLeavesOut ==
  /\ pump = "closedDone"
  /\ pump' = "ended"
  /\ UNCHANGED <<guestVars, connected, pumped, queued, exitCode, done, outClosed, client,
                 closeVars, bridgeVars, reader, ctxDone>>

PumpCloseOut ==
  /\ pump = "closedDone"
  /\ outClosed' = TRUE
  /\ pump' = "ended"
  /\ UNCHANGED <<guestVars, connected, pumped, queued, exitCode, done, client, closeVars,
                 bridgeVars, reader, ctxDone>>
-----------------------------------------------------------------------------
(* The reader: client to guest *)

\* A binary message becomes Write, a text message Resize or Signal.
ReaderMessage ==
  /\ reader = "reading"
  /\ connected
  /\ reader' \in {"writing", "controlling"}
  /\ UNCHANGED <<guestVars, connected, pumpVars, closeVars, bridgeVars, ctxDone>>

\* ReadMessage fails; the deferred cancel.
ReaderEnds ==
  /\ reader = "reading"
  /\ ~connected
  /\ reader' = "ended"
  /\ ctxDone' = TRUE
  /\ UNCHANGED <<guestVars, connected, pumpVars, closeVars, bridgeVars>>

\* The send works, or is refused by a closed session, a closed client or a lost connection:
\* that ends the reader after a Write and is ignored after a control message.
ReaderSends ==
  /\ reader \in {"writing", "controlling"}
  /\ reader = "controlling" \/ (~closed /\ client /\ ~lost)
  /\ reader' = "reading"
  /\ UNCHANGED <<guestVars, connected, pumpVars, closeVars, bridgeVars, ctxDone>>

ReaderWriteFails ==
  /\ reader = "writing"
  /\ closed \/ ~client \/ lost
  /\ reader' = "ended"
  /\ ctxDone' = TRUE
  /\ UNCHANGED <<guestVars, connected, pumpVars, closeVars, bridgeVars>>
-----------------------------------------------------------------------------
(* The bridge: guest to client *)

BridgeGoto(next) == bridge' = next /\ UNCHANGED <<delivered, event>>

Upgrade ==
  /\ bridge = "upgrading"
  /\ BridgeGoto("select")
  /\ reader' = "reading"
  /\ UNCHANGED <<guestVars, connected, pumpVars, closeVars, ctxDone>>

UpgradeFails ==
  /\ bridge = "upgrading"
  /\ BridgeGoto("leaving")
  /\ connected' = FALSE
  /\ UNCHANGED <<guestVars, pumpVars, closeVars, reader, ctxDone>>

BridgeTake ==
  /\ bridge = "select"
  /\ queued > 0
  /\ queued' = queued - 1
  /\ BridgeGoto("writing")
  /\ UNCHANGED <<guestVars, connected, pump, pumped, exitCode, done, outClosed, client,
                 closeVars, reader, ctxDone>>

BridgeWrite ==
  /\ bridge = "writing"
  /\ connected
  /\ bridge' = "select" /\ delivered' = delivered + 1 /\ UNCHANGED event
  /\ UNCHANGED <<guestVars, connected, pumpVars, closeVars, reader, ctxDone>>

\* A write or a ping fails (at the latest by its deadline): the socket is of no more use.
BridgeWriteFails ==
  /\ bridge \in {"writing", "select"}
  /\ ~connected
  /\ BridgeGoto("leaving")
  /\ UNCHANGED <<guestVars, connected, pumpVars, closeVars, reader, ctxDone>>

BridgeCancelled ==
  /\ bridge = "select"
  /\ ctxDone
  /\ BridgeGoto("leaving")
  /\ UNCHANGED <<guestVars, connected, pumpVars, closeVars, reader, ctxDone>>

BridgeOutClosed ==
  /\ bridge = "select"
  /\ outClosed /\ queued = 0
  /\ BridgeGoto("waiting")
  /\ UNCHANGED <<guestVars, connected, pumpVars, closeVars, reader, ctxDone>>

BridgeWait ==
  /\ bridge = "waiting"
  /\ done
  /\ BridgeGoto("exiting")
  /\ UNCHANGED <<guestVars, connected, pumpVars, closeVars, reader, ctxDone>>

\* writeExit; its errors are ignored.
BridgeExit ==
  /\ bridge = "exiting"
  /\ event' = IF connected THEN exitCode ELSE None
  /\ bridge' = "leaving" /\ UNCHANGED delivered
  /\ UNCHANGED <<guestVars, connected, pumpVars, closeVars, reader, ctxDone>>
-----------------------------------------------------------------------------
(* Close, in the handler's deferred function, after the bridge's deferred cancel *)

Close ==
  /\ bridge = "leaving"
  /\ ctxDone' = TRUE
  /\ closed' = TRUE
  /\ BridgeGoto("closing")
  /\ UNCHANGED <<guestVars, connected, pumpVars, hup, grace, cancelled, reader>>

\* The SIGHUP goes through the client, if the pump has not closed it yet.
CloseSignal ==
  /\ bridge = "closing"
  /\ hup' = IF client /\ ~lost THEN "sent" ELSE "lost"
  /\ grace' = "armed"
  /\ BridgeGoto("armed")
  /\ UNCHANGED <<guestVars, connected, pumpVars, closed, cancelled, reader, ctxDone>>

CloseConn ==
  /\ bridge = "armed"
  /\ connected' = FALSE
  /\ BridgeGoto("returned")
  /\ UNCHANGED <<guestVars, pumpVars, closeVars, reader, ctxDone>>

\* done, or three seconds.
GraceDone ==
  /\ grace = "armed" /\ done
  /\ grace' = "over"
  /\ UNCHANGED <<guestVars, connected, pumpVars, closed, hup, cancelled, bridgeVars, reader,
                 ctxDone>>

GraceGivesUp ==
  /\ grace = "armed"
  /\ grace' = "over"
  /\ UNCHANGED <<guestVars, connected, pumpVars, closed, hup, cancelled, bridgeVars, reader,
                 ctxDone>>

GraceFires ==
  /\ grace = "armed"
  /\ grace' = "over"
  /\ cancelled' = TRUE
  /\ UNCHANGED <<guestVars, connected, pumpVars, closed, hup, bridgeVars, reader, ctxDone>>
-----------------------------------------------------------------------------
PumpStep ==
  \/ PumpReceive \/ PumpPush \/ PumpQuit \/ PumpFinal \/ PumpError
  \/ PumpCloseClient \/ PumpCloseDone \/ PumpCloseOut

BridgeStep ==
  \/ Upgrade \/ BridgeTake \/ BridgeWrite \/ BridgeWriteFails \/ BridgeCancelled
  \/ BridgeOutClosed \/ BridgeWait \/ BridgeExit \/ Close \/ CloseSignal \/ CloseConn

ReaderStep == ReaderEnds \/ ReaderSends \/ ReaderWriteFails

Stopped == bridge = "returned" /\ pump = "ended" /\ reader \in {"off", "ended"} /\ grace = "over"

Next ==
  \/ GuestOutput \/ GuestEnds \/ ConnectionLost \/ ClientLeaves
  \/ PumpStep
  \/ ReaderMessage \/ ReaderStep
  \/ UpgradeFails \/ BridgeStep
  \/ GraceDone \/ GraceFires
  \/ Stopped /\ UNCHANGED vars

Spec == Init /\ [][Next]_vars

(* A goroutine that can run does run, the SDK's Send returns, and time passes.  The     *)
(* guest owes nothing, not even an end after a hangup, and nor does the client.  The    *)
(* clauses of the bridge's select need no more than this: it is left for good when the   *)
(* context is done or the channel closed.                                               *)
Fairness ==
  /\ WF_vars(PumpStep)
  /\ WF_vars(BridgeStep)
  /\ WF_vars(ReaderStep)
  /\ WF_vars(GraceDone \/ GraceFires)

FairSpec == Spec /\ Fairness
-----------------------------------------------------------------------------
(* Properties *)

\* The exit event comes after all the output and tells the truth: a client that reads a
\* code has read every frame the guest sent before it ended with that code.
ExitComesLast ==
  /\ event # None => delivered = pumped
  /\ event \in Code => event = final /\ delivered = sent

\* "Returns the recorded code immediately if the session already ended": when out is
\* closed done is too, so that Wait never holds up the bridge.
WaitAtOnce == bridge = "waiting" => done

\* Close releases the agent handles whatever the guest does: the pump ends although it may
\* be blocked in Next on a guest that ignores the hangup, or on a channel nobody reads.
CloseEndsPump == closed ~> pump = "ended" /\ ~client

\* The terminal does not outlive either side: once the guest has ended or the client has
\* left, the handler returns and the reader stops.
TerminalEnds ==
  (final # None \/ ~connected) ~> (bridge = "returned" /\ reader \in {"off", "ended"})

\* {"type":"exit"} is "sent just before close": the bridge does not leave a connected
\* client without it once the session has ended.
ExitReported ==
  [][bridge = "select" /\ bridge' = "leaving" /\ connected => ~outClosed]_vars

\* Close "tears the session down, killing the guest process": a process that is still
\* reachable has at least been sent the hangup when the terminal is closed.
CloseSignals == bridge = "returned" => hup = "sent" \/ final # None \/ lost
=============================================================================
