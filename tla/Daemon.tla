------------------------------- MODULE Daemon -------------------------------
(***************************************************************************)
(* The life of the msbd process: runServe of cmd/msbd/main.go with its     *)
(* listener goroutine, the connections of net/http, a shutdown signal and  *)
(* the deferred closes.                                                    *)
(*                                                                         *)
(* A WebSocket terminal hijacks its connection, after which the HTTP       *)
(* server knows nothing of it.                                             *)
(***************************************************************************)

CONSTANT Conn  \* connections that may come in

VARIABLES
  main,      \* where runServe is
  listener,  \* the goroutine in ListenAndServe
  errCh,     \* what it has sent
  signalled, \* ctx is done: SIGTERM or SIGINT
  conn,      \* each connection
  elapsed,   \* the shutdown timeout has run out
  warned,    \* "graceful shutdown deadline exceeded"
  store,     \* the state store
  janitor,   \* the job registry's goroutine
  code       \* what runServe returned

resources == <<store, janitor>>
vars == <<main, listener, errCh, signalled, conn, elapsed, warned, resources, code>>

TypeOK ==
  /\ main \in {"start", "stored", "serving", "selecting", "draining", "closing", "exited"}
  /\ listener \in {"none", "binding", "accepting", "closed", "ended"}
  /\ errCh \in {"empty", "error", "nil"}
  /\ errCh # "empty" => listener = "ended"
  /\ signalled \in BOOLEAN
  /\ conn \in [Conn -> {"none", "active", "hijacked", "done", "cut"}]
  /\ elapsed \in BOOLEAN
  /\ warned \in BOOLEAN
  /\ store \in {"unopened", "open", "closed"}
  /\ janitor \in {"none", "running", "stopped"}
  /\ code \in {"none", "ok", "failed"}

Init ==
  /\ main = "start" /\ listener = "none" /\ errCh = "empty"
  /\ signalled = FALSE
  /\ conn = [c \in Conn |-> "none"]
  /\ elapsed = FALSE /\ warned = FALSE
  /\ store = "unopened" /\ janitor = "none"
  /\ code = "none"

Signal ==
  /\ ~signalled
  /\ signalled' = TRUE
  /\ UNCHANGED <<main, listener, errCh, conn, elapsed, warned, resources, code>>
-----------------------------------------------------------------------------
(* runServe *)

\* store.Open: a failure is fatal, before anything expensive.
OpenStore ==
  /\ main = "start"
  /\ \/ main' = "stored" /\ store' = "open" /\ UNCHANGED code
     \/ main' = "closing" /\ code' = "failed" /\ UNCHANGED store
  /\ UNCHANGED <<listener, errCh, signalled, conn, elapsed, warned, janitor>>

\* EnsureRuntime, which the signal cancels too, then NewService; Reconcile is not fatal.
StartService ==
  /\ main = "stored"
  /\ \/ main' = "serving" /\ janitor' = "running" /\ UNCHANGED code
     \/ main' = "closing" /\ code' = "failed" /\ UNCHANGED janitor
  /\ UNCHANGED <<listener, errCh, signalled, conn, elapsed, warned, store>>

Serve ==
  /\ main = "serving"
  /\ main' = "selecting"
  /\ listener' = "binding"
  /\ UNCHANGED <<errCh, signalled, conn, elapsed, warned, resources, code>>

\* The listener is gone before any signal; nothing waits for the requests.
ServerError ==
  /\ main = "selecting" /\ errCh # "empty"
  /\ main' = "closing"
  /\ code' = IF errCh = "error" THEN "failed" ELSE "ok"
  /\ UNCHANGED <<listener, errCh, signalled, conn, elapsed, warned, resources>>

\* Shutdown closes the listener at once.
Shutdown ==
  /\ main = "selecting" /\ signalled
  /\ main' = "draining"
  /\ listener' = IF listener = "ended" THEN "ended" ELSE "closed"
  /\ UNCHANGED <<errCh, signalled, conn, elapsed, warned, resources, code>>

\* The select goes round once more and sees the listener's nil.
DrainedOnErrCh ==
  /\ main = "draining" /\ (errCh # "empty" \/ \A c \in Conn : conn[c] # "active")
  /\ main' = "closing"
  /\ code' = "ok"
  /\ UNCHANGED <<listener, errCh, signalled, conn, elapsed, warned, resources>>

\* Shutdown returns when the server knows of no active connection ...
Drained ==
  /\ main = "draining" /\ \A c \in Conn : conn[c] # "active"
  /\ main' = "closing"
  /\ code' = "ok"
  /\ UNCHANGED <<listener, errCh, signalled, conn, elapsed, warned, resources>>

\* Shutdown under a context that never ends.
OverrunNever == FALSE /\ UNCHANGED vars

\* ... or when its context, which is not that of the signal, has expired; that is no error.
Overrun ==
  /\ main = "draining" /\ elapsed
  /\ main' = "closing"
  /\ warned' = TRUE
  /\ code' = "ok"
  /\ UNCHANGED <<listener, errCh, signalled, conn, elapsed, resources>>

Timeout ==
  /\ main = "draining" /\ ~elapsed
  /\ elapsed' = TRUE
  /\ UNCHANGED <<main, listener, errCh, signalled, conn, warned, resources, code>>

\* The deferred closes run last in, first out: svc.Close, then st.Close.
CloseService ==
  /\ main = "closing" /\ janitor = "running"
  /\ janitor' = "stopped"
  /\ UNCHANGED <<main, listener, errCh, signalled, conn, elapsed, warned, store, code>>

CloseStore ==
  /\ main = "closing" /\ janitor # "running" /\ store = "open"
  /\ store' = "closed"
  /\ UNCHANGED <<main, listener, errCh, signalled, conn, elapsed, warned, janitor, code>>

\* The process ends with all its goroutines, whatever they were doing.
Exit ==
  /\ main = "closing" /\ janitor # "running" /\ store # "open"
  /\ main' = "exited"
  /\ conn' = [c \in Conn |-> IF conn[c] \in {"active", "hijacked"} THEN "cut" ELSE conn[c]]
  /\ UNCHANGED <<listener, errCh, signalled, elapsed, warned, resources, code>>
-----------------------------------------------------------------------------
(* The listener goroutine *)

Send(v) ==
  /\ listener' = "ended"
  /\ errCh' = v
  /\ UNCHANGED <<main, signalled, conn, elapsed, warned, resources, code>>

Alive == main # "exited"

Bind ==
  /\ Alive /\ listener = "binding"
  /\ listener' = "accepting"
  /\ UNCHANGED <<main, errCh, signalled, conn, elapsed, warned, resources, code>>

\* The port is taken, or Accept fails.
ListenFails ==
  /\ Alive /\ listener \in {"binding", "accepting"}
  /\ Send("error")

ServerClosed ==
  /\ Alive /\ listener = "closed"
  /\ Send("nil")
-----------------------------------------------------------------------------
(* Connections, each with one request *)

Move(c, from, to) ==
  /\ Alive /\ conn[c] = from
  /\ conn' = [conn EXCEPT ![c] = to]
  /\ UNCHANGED <<main, listener, errCh, signalled, elapsed, warned, resources, code>>

Accept(c) == listener = "accepting" /\ Move(c, "none", "active")

\* websocket.Accept of the terminal bridge.
Hijack(c) == Move(c, "active", "hijacked")

Finish(c) == Move(c, "active", "done") \/ Move(c, "hijacked", "done")
-----------------------------------------------------------------------------
MainStep ==
  \/ OpenStore \/ StartService \/ Serve \/ ServerError \/ Shutdown \/ Drained
  \/ Overrun \/ CloseService \/ CloseStore \/ Exit

Next ==
  \/ Signal
  \/ MainStep
  \/ Timeout
  \/ Bind \/ ListenFails \/ ServerClosed
  \/ \E c \in Conn : Accept(c) \/ Hijack(c) \/ Finish(c)
  \/ main = "exited" /\ UNCHANGED vars

Spec == Init /\ [][Next]_vars

(* main runs (its SDK and SQLite calls return, EnsureRuntime and Reconcile have budgets),  *)
(* and the shutdown timeout runs out; a handler may take for ever.                        *)
FairSpec == Spec /\ WF_vars(MainStep) /\ WF_vars(Timeout)
-----------------------------------------------------------------------------
(* Properties *)

\* A request the server has accepted is served to the end by an open store: it loses the
\* store or the process only to an expired shutdown timeout or a listener that failed.
ServedToTheEnd ==
  \A c \in Conn :
    conn[c] = "active" /\ store = "closed" => elapsed \/ errCh = "error"

\* "exit 0 so `systemctl restart` / `docker stop` don't report a spurious failure": once
\* it serves, the process fails only because its listener failed, however the signal, the
\* listener and the timeout interleave.
FailsForCause ==
  code = "failed" /\ listener # "none" => errCh = "error"

\* A signal ends the process, whatever its requests do.
SignalEnds == signalled ~> main = "exited"

\* "A drain-deadline overrun (e.g. a long /run or a live terminal still open)": what is
\* open at the end of a shutdown makes it overrun, so without the warning nothing is cut.
CutIsReported ==
  \A c \in Conn : conn[c] = "cut" => warned \/ errCh = "error"
=============================================================================
