--------------------------- MODULE TerminalProofs ---------------------------
(***************************************************************************)
(* The exit event of a terminal is the last one and true, and Wait never   *)
(* holds up the bridge, for every capacity of the output channel and every *)
(* amount of output.                                                       *)
(*                                                                         *)
(* The argument: until the bridge leaves its loop no frame is dropped, so  *)
(* that what the pump received is what was delivered plus what is on its   *)
(* way (Balance).  The pump records the exit code after the last frame and *)
(* closes done before out (Order, Exit), and the bridge stops taking       *)
(* frames for an exit only once out is closed and empty (Drained).         *)
(*                                                                         *)
(* Below is the daemon that is shut down under its terminals and requests  *)
(* (Serving), which has a state of its own.                                *)
(***************************************************************************)
EXTENDS Service, TLAPS

\* The bridge has not stopped taking frames for a reason of its own.
Taking == bridge \in {"upgrading", "select", "writing", "waiting", "exiting"}

\* No frame is lost while the bridge takes them: quit is not closed yet.
Balance ==
  /\ closed => bridge \in {"closing", "armed", "returned"}
  /\ Taking => pumped = delivered + queued + (IF pump = "pushing" THEN 1 ELSE 0)
                                           + (IF bridge = "writing" THEN 1 ELSE 0)

\* The order of the pump's deferred functions.
Order ==
  /\ outClosed => pump = "ended"
  /\ done <=> pump \in {"closedDone", "ended"}

\* The bridge asks for the exit code of an ended session whose frames it has taken.
Drained == bridge \in {"waiting", "exiting"} => outClosed /\ queued = 0

\* The code is recorded once, after all the output.
Exit ==
  exitCode \in Code => exitCode = final /\ pumped = sent /\ pump \notin {"next", "pushing"}

\* What the client was told.
Told ==
  event # None =>
    pump = "ended" /\ delivered = pumped /\ ~Taking /\ event = exitCode

Inv == TypeOK /\ Balance /\ Order /\ Drained /\ Exit /\ Told

\* The session starts with nothing sent and everything open.
LEMMA InvInit == Init => Inv
<1> SUFFICES ASSUME Init PROVE Inv
  OBVIOUS
<1> USE TerminalAssumption
<1>1. /\ lost \in BOOLEAN /\ connected \in BOOLEAN /\ done \in BOOLEAN
      /\ outClosed \in BOOLEAN /\ client \in BOOLEAN /\ closed \in BOOLEAN
      /\ cancelled \in BOOLEAN /\ ctxDone \in BOOLEAN
  BY DEF Init
<1>2. TypeOK
  BY <1>1 DEF Init, TypeOK
<1>3. Balance /\ Order /\ Drained /\ Exit /\ Told
  BY DEF Init, Balance, Order, Drained, Exit, Told, Taking
<1> QED
  BY <1>2, <1>3 DEF Inv

\* Guest, connection and client: a guest that has told its end sends nothing more.
LEMMA EnvironmentInv ==
  ASSUME Inv,
         \/ GuestOutput \/ GuestEnds \/ ConnectionLost \/ ClientLeaves
  PROVE  Inv'
<1> USE TerminalAssumption DEF Inv, Taking, guestVars, pumpVars, closeVars, bridgeVars
<1>1. CASE GuestOutput
  BY <1>1 DEF GuestOutput, TypeOK, Balance, Order, Drained, Exit, Told
<1>2. CASE GuestEnds
  BY <1>2 DEF GuestEnds, TypeOK, Balance, Order, Drained, Exit, Told
<1>3. CASE ConnectionLost
  BY <1>3 DEF ConnectionLost, TypeOK, Balance, Order, Drained, Exit, Told
<1>4. CASE ClientLeaves
  <2>1. connected' \in BOOLEAN
    BY <1>4 DEF ClientLeaves
  <2>2. UNCHANGED <<guestVars, pumpVars, closeVars, bridgeVars, reader, ctxDone>>
    BY <1>4 DEF ClientLeaves
  <2> QED
    BY <2>1, <2>2 DEF TypeOK, Balance, Order, Drained, Exit, Told
<1> QED
  BY <1>1, <1>2, <1>3, <1>4

\* The pump: a frame received is a frame on its way.
LEMMA PumpInv ==
  ASSUME Inv,
         \/ PumpReceive \/ PumpPush \/ PumpQuit \/ PumpFinal \/ PumpError
         \/ PumpCloseClient \/ PumpCloseDone \/ PumpCloseOut
  PROVE  Inv'
<1> USE TerminalAssumption DEF Inv, Taking, guestVars, pumpVars, closeVars, bridgeVars
<1>1. CASE PumpReceive
  BY <1>1 DEF PumpReceive, TypeOK, Balance, Order, Drained, Exit, Told
<1>2. CASE PumpPush
  BY <1>2 DEF PumpPush, TypeOK, Balance, Order, Drained, Exit, Told
<1>3. CASE PumpQuit
  BY <1>3 DEF PumpQuit, TypeOK, Balance, Order, Drained, Exit, Told
<1>4. CASE PumpFinal
  BY <1>4 DEF PumpFinal, TypeOK, Balance, Order, Drained, Exit, Told
<1>5. CASE PumpError
  BY <1>5 DEF PumpError, TypeOK, Balance, Order, Drained, Exit, Told
<1>6. CASE PumpCloseClient
  <2>1. client' \in BOOLEAN
    BY <1>6 DEF PumpCloseClient
  <2>2. /\ pump = "returning" /\ pump' = "closedClient"
        /\ UNCHANGED <<guestVars, connected, pumped, queued, exitCode, done, outClosed, closeVars,
                       bridgeVars, reader, ctxDone>>
    BY <1>6 DEF PumpCloseClient
  <2> QED
    BY <2>1, <2>2 DEF TypeOK, Balance, Order, Drained, Exit, Told
<1>7. CASE PumpCloseDone
  BY <1>7 DEF PumpCloseDone, TypeOK, Balance, Order, Drained, Exit, Told
<1>8. CASE PumpCloseOut
  BY <1>8 DEF PumpCloseOut, TypeOK, Balance, Order, Drained, Exit, Told
<1> QED
  BY <1>1, <1>2, <1>3, <1>4, <1>5, <1>6, <1>7, <1>8

\* The reader has no part in the output.
LEMMA ReaderInv ==
  ASSUME Inv,
         \/ ReaderMessage \/ ReaderEnds \/ ReaderSends \/ ReaderWriteFails
  PROVE  Inv'
<1> USE TerminalAssumption DEF Inv, Taking, guestVars, pumpVars, closeVars, bridgeVars
<1>1. CASE ReaderMessage
  BY <1>1 DEF ReaderMessage, TypeOK, Balance, Order, Drained, Exit, Told
<1>2. CASE ReaderEnds
  BY <1>2 DEF ReaderEnds, TypeOK, Balance, Order, Drained, Exit, Told
<1>3. CASE ReaderSends
  BY <1>3 DEF ReaderSends, TypeOK, Balance, Order, Drained, Exit, Told
<1>4. CASE ReaderWriteFails
  BY <1>4 DEF ReaderWriteFails, TypeOK, Balance, Order, Drained, Exit, Told
<1> QED
  BY <1>1, <1>2, <1>3, <1>4

\* The bridge: a frame taken is delivered, or the bridge leaves.
LEMMA BridgeInv ==
  ASSUME Inv,
         \/ Upgrade \/ UpgradeFails \/ BridgeTake \/ BridgeWrite \/ BridgeWriteFails
         \/ BridgeCancelled \/ BridgeOutClosed \/ BridgeWait \/ BridgeExit
  PROVE  Inv'
<1> USE TerminalAssumption DEF Inv, Taking, guestVars, pumpVars, closeVars, bridgeVars
<1>1. CASE Upgrade
  BY <1>1 DEF Upgrade, BridgeGoto, TypeOK, Balance, Order, Drained, Exit, Told
<1>2. CASE UpgradeFails
  <2>1. connected' \in BOOLEAN
    BY <1>2 DEF UpgradeFails, BridgeGoto
  <2>2. /\ bridge = "upgrading" /\ bridge' = "leaving"
        /\ UNCHANGED <<guestVars, pumpVars, closeVars, reader, ctxDone, delivered, event>>
    BY <1>2 DEF UpgradeFails, BridgeGoto
  <2> QED
    BY <2>1, <2>2 DEF TypeOK, Balance, Order, Drained, Exit, Told
<1>3. CASE BridgeTake
  BY <1>3 DEF BridgeTake, BridgeGoto, TypeOK, Balance, Order, Drained, Exit, Told
<1>4. CASE BridgeWrite
  BY <1>4 DEF BridgeWrite, BridgeGoto, TypeOK, Balance, Order, Drained, Exit, Told
<1>5. CASE BridgeWriteFails
  BY <1>5 DEF BridgeWriteFails, BridgeGoto, TypeOK, Balance, Order, Drained, Exit, Told
<1>6. CASE BridgeCancelled
  BY <1>6 DEF BridgeCancelled, BridgeGoto, TypeOK, Balance, Order, Drained, Exit, Told
<1>7. CASE BridgeOutClosed
  BY <1>7 DEF BridgeOutClosed, BridgeGoto, TypeOK, Balance, Order, Drained, Exit, Told
<1>8. CASE BridgeWait
  BY <1>8 DEF BridgeWait, BridgeGoto, TypeOK, Balance, Order, Drained, Exit, Told
<1>9. CASE BridgeExit
  BY <1>9 DEF BridgeExit, BridgeGoto, TypeOK, Balance, Order, Drained, Exit, Told
<1> QED
  BY <1>1, <1>2, <1>3, <1>4, <1>5, <1>6, <1>7, <1>8, <1>9

\* Close and the grace timer come after the bridge's loop.
LEMMA CloseInv ==
  ASSUME Inv,
         \/ Close \/ CloseSignal \/ CloseConn \/ GraceDone \/ GraceFires
  PROVE  Inv'
<1> USE TerminalAssumption DEF Inv, Taking, guestVars, pumpVars, closeVars, bridgeVars
<1>1. CASE Close
  BY <1>1 DEF Close, BridgeGoto, TypeOK, Balance, Order, Drained, Exit, Told
<1>2. CASE CloseSignal
  BY <1>2 DEF CloseSignal, BridgeGoto, TypeOK, Balance, Order, Drained, Exit, Told
<1>3. CASE CloseConn
  <2>1. connected' \in BOOLEAN
    BY <1>3 DEF CloseConn, BridgeGoto
  <2>2. /\ bridge = "armed" /\ bridge' = "returned"
        /\ UNCHANGED <<guestVars, pumpVars, closeVars, reader, ctxDone, delivered, event>>
    BY <1>3 DEF CloseConn, BridgeGoto
  <2> QED
    BY <2>1, <2>2 DEF TypeOK, Balance, Order, Drained, Exit, Told
<1>4. CASE GraceDone
  BY <1>4 DEF GraceDone, BridgeGoto, TypeOK, Balance, Order, Drained, Exit, Told
<1>5. CASE GraceFires
  BY <1>5 DEF GraceFires, BridgeGoto, TypeOK, Balance, Order, Drained, Exit, Told
<1> QED
  BY <1>1, <1>2, <1>3, <1>4, <1>5

\* Every step keeps the invariant.
LEMMA InvStep == Inv /\ [Next]_vars => Inv'
<1> SUFFICES ASSUME Inv, [Next]_vars PROVE Inv'
  OBVIOUS
<1>1. CASE UNCHANGED vars
  BY <1>1
  DEF vars, guestVars, pumpVars, closeVars, bridgeVars, Inv, Taking, TypeOK, Balance, Order,
      Drained, Exit, Told
<1>2. CASE Next
  BY <1>1, <1>2, EnvironmentInv, PumpInv, ReaderInv, BridgeInv, CloseInv
  DEF Next, PumpStep, ReaderStep, BridgeStep
<1> QED
  BY <1>1, <1>2

\* The inductive invariant holds in every reachable state.
THEOREM Invariance == Spec => []Inv
  BY InvInit, InvStep, PTL DEF Spec

\* The type invariant of the terminal: the output channel never exceeds its capacity, and
\* no frame is delivered that the pump has not received.
THEOREM TypeCorrect == Spec => []TypeOK
<1>1. Inv => TypeOK
  BY DEF Inv
<1> QED
  BY <1>1, Invariance, PTL

\* The exit event comes after all the output and carries the code the guest ended with.
THEOREM ExitIsLast == Spec => []ExitComesLast
<1>1. Inv => ExitComesLast
  BY TerminalAssumption DEF Inv, Told, Exit, ExitComesLast
<1> QED
  BY <1>1, Invariance, PTL

\* When the bridge waits for the exit code, the session has ended already.
THEOREM WaitIsShort == Spec => []WaitAtOnce
<1>1. Inv => WaitAtOnce
  BY DEF Inv, Drained, Order, WaitAtOnce
<1> QED
  BY <1>1, Invariance, PTL
-----------------------------------------------------------------------------
(* The end of the daemon, for any number of connections                    *)
(*                                                                         *)
(* Startup keeps the order in which runServe acquires things, so that main *)
(* is past its select before anything is closed.  Closing says what has    *)
(* been waited for by then: unless the timeout or the listener is to blame,*)
(* nobody is served any more and nobody new comes in.                      *)

\* The order in which runServe acquires things: no connection before the listener, no
\* shutdown before the select, no outcome before the end.
Startup ==
  /\ listener = "none" => errCh = "empty" /\ \A c \in Conn : conn[c] = "none"
  /\ main \in {"start", "stored", "serving"} => listener = "none"
  /\ main = "selecting" => listener \in {"binding", "accepting"} \/ errCh = "error"
  /\ main = "draining" => listener \in {"closed", "ended"}
  /\ main \in {"start", "stored", "serving", "selecting", "draining"} =>
       store # "closed" /\ code = "none"
  /\ listener = "ended" => errCh # "empty"

\* Nothing comes in any more, and nothing is left, unless the timeout or the listener is to
\* blame.
Closing ==
  main \in {"closing", "exited"} /\ ~elapsed /\ errCh # "error" =>
    /\ listener \in {"none", "closed", "ended"}
    /\ \A c \in Conn : conn[c] # "active"

ServeInv == Serving!TypeOK /\ Startup /\ Closing /\ Serving!FailsForCause

\* Nothing is acquired yet.
LEMMA ServeInit == Serving!Init => ServeInv
BY DEF Serving!Init, ServeInv, Startup, Closing, Serving!TypeOK, Serving!FailsForCause

\* Every step of main, of the listener and of the connections keeps the invariant.
LEMMA ServeStep == ServeInv /\ [Serving!Next]_Serving!vars => ServeInv'
<1> SUFFICES ASSUME ServeInv, [Serving!Next]_Serving!vars
             PROVE  ServeInv'
  OBVIOUS
<1> USE DEF ServeInv, Startup, Closing, Serving!TypeOK, Serving!FailsForCause, Serving!resources
<1>1. CASE Serving!Signal
  BY <1>1 DEF Serving!Signal
<1>2. CASE Serving!MainStep
  <2>1. CASE Serving!OpenStore \/ Serving!StartService \/ Serving!Serve
    BY <2>1 DEF Serving!OpenStore, Serving!StartService, Serving!Serve
  <2>2. CASE Serving!ServerError \/ Serving!Shutdown
    BY <2>2 DEF Serving!ServerError, Serving!Shutdown
  <2>3. CASE Serving!Drained \/ Serving!Overrun
    BY <2>3 DEF Serving!Drained, Serving!Overrun
  <2>4. CASE Serving!CloseService \/ Serving!CloseStore
    BY <2>4 DEF Serving!CloseService, Serving!CloseStore
  <2>5. CASE Serving!Exit
    BY <2>5 DEF Serving!Exit
  <2> QED
    BY <1>2, <2>1, <2>2, <2>3, <2>4, <2>5 DEF Serving!MainStep
<1>3. CASE Serving!Timeout
  BY <1>3 DEF Serving!Timeout
<1>4. CASE Serving!Bind \/ Serving!ListenFails \/ Serving!ServerClosed
  BY <1>4 DEF Serving!Bind, Serving!ListenFails, Serving!ServerClosed, Serving!Send, Serving!Alive
<1>5. ASSUME NEW c \in Conn, Serving!Accept(c) \/ Serving!Hijack(c) \/ Serving!Finish(c)
      PROVE  ServeInv'
  BY <1>5 DEF Serving!Accept, Serving!Hijack, Serving!Finish, Serving!Move, Serving!Alive
<1>6. CASE UNCHANGED Serving!vars
  BY <1>6 DEF Serving!vars
<1> QED
  BY <1>1, <1>2, <1>3, <1>4, <1>5, <1>6 DEF Serving!Next

\* runServe closes the store under no request, unless the shutdown timeout has run out or
\* the listener has failed.
THEOREM RequestsKeepStore == Serving!Spec => []ServedToTheEnd
<1>1. ServeInv => ServedToTheEnd
  BY DEF ServeInv, Startup, Closing, ServedToTheEnd, Serving!ServedToTheEnd, Serving!TypeOK
<1> QED
  BY <1>1, ServeInit, ServeStep, PTL DEF Serving!Spec

\* Once the daemon serves, it reports a failure only when its listener failed.
THEOREM FailureHasCause == Serving!Spec => []Serving!FailsForCause
<1>1. ServeInv => Serving!FailsForCause
  BY DEF ServeInv
<1> QED
  BY <1>1, ServeInit, ServeStep, PTL DEF Serving!Spec

\* Every reachable state of Daemon is well typed.
THEOREM ServingTypeCorrect == Serving!Spec => []Serving!TypeOK
<1>1. ServeInv => Serving!TypeOK
  BY DEF ServeInv
<1> QED
  BY <1>1, ServeInit, ServeStep, PTL DEF Serving!Spec
=============================================================================
