------------------------------ MODULE WsClient ------------------------------
(***************************************************************************)
(* AtometWebSocket (web/src/lib/ws.ts): the page's connection for commands *)
(* and state.  The page calls connect once and disconnect when it goes.    *)
(***************************************************************************)
VARIABLES
  ws,              \* this.ws: "none", "connecting", "open"
  old,             \* disconnect closed a socket whose close event is to come
  reconnectTimer,
  disconnected     \* disconnect was called

vars == <<ws, old, reconnectTimer, disconnected>>

-----------------------------------------------------------------------------

Init ==
  /\ ws = "connecting" /\ old = FALSE /\ reconnectTimer = FALSE
  /\ disconnected = FALSE

OnOpen ==
  /\ ws = "connecting" /\ ws' = "open" /\ reconnectTimer' = FALSE
  /\ UNCHANGED <<old, disconnected>>

\* The server or the network closes the socket, or an attempt fails (onerror leads
\* here too).  disconnect leaves the handler on the socket it closes.
OnClose ==
  /\ \/ ws # "none" /\ UNCHANGED old
     \/ old /\ old' = FALSE
  /\ ws' = "none" /\ reconnectTimer' = TRUE
  /\ UNCHANGED disconnected

\* connect does nothing while there is a socket.
Timer ==
  /\ reconnectTimer /\ reconnectTimer' = FALSE
  /\ ws' = IF ws = "none" THEN "connecting" ELSE ws
  /\ UNCHANGED <<old, disconnected>>

Disconnect ==
  /\ ~disconnected /\ disconnected' = TRUE /\ reconnectTimer' = FALSE
  /\ old' = (old \/ ws # "none") /\ ws' = "none"

Next == OnOpen \/ OnClose \/ Timer \/ Disconnect

\* Timers fire, and the daemon answers if it is asked again and again.
Fairness == WF_vars(Timer) /\ SF_vars(OnOpen)

Spec == Init /\ [][Next]_vars /\ Fairness

-----------------------------------------------------------------------------
(* Properties *)

\* A client is one chain of connections: a socket, a closing socket or a timer,
\* never two of them.  So a page that is left, whose close event connects again
\* (ws.ts:57), leaks one connection and not a growing number.
OneConnection ==
  /\ ws = "none" \/ ~reconnectTimer
  /\ old => ws = "none" /\ ~reconnectTimer

\* Until the page goes, the connection is always open again after it was lost: the
\* timer and the guard of connect never leave it closed for good.
Reconnects == []<>(disconnected \/ ws = "open")
=============================================================================
