------------------------------- MODULE Player -------------------------------
(***************************************************************************)
(* Go2rtcPlayer (web/src/lib/player.ts): the browser's video player, from  *)
(* mount on.  It starts MSE over a WebSocket and WebRTC beside it, keeps   *)
(* whichever plays, and connects again when it loses both.  JavaScript     *)
(* runs one callback at a time, so an event is a step; what is out of the  *)
(* player's hands is when the events arrive, above all the close event of  *)
(* a socket it has already replaced.                                       *)
(*                                                                         *)
(* A peer connection that is no longer this.pc changes nothing, so only    *)
(* this.pc has a state here.                                               *)
(***************************************************************************)
EXTENDS Naturals

CONSTANTS
  Sockets,     \* bound: WebSockets that are not closed at one time
  MaxTimers,   \* bound: reconnect timers pending are counted up to here
  NoSocket

VARIABLES
  stopped,     \* unmount was called
  ws,          \* this.ws
  sockets,     \* per WebSocket: "none", "connecting", "open", "closing"
  pc,          \* this.pc: "none", "connecting", "loading", "live", "closed"
  pcActive,
  timers,      \* reconnect timers pending
  reconnectTid,  \* whether one of them can be cleared
  fallback,    \* the _mjpeg_fb handler is installed
  mode, status,
  lateClose    \* history: a socket closed after it had been replaced

view == <<mode, status>>
vars == <<stopped, ws, sockets, pc, pcActive, timers, reconnectTid, fallback, view,
          lateClose>>

Live == {s \in Sockets : sockets[s] \in {"connecting", "open"}}

-----------------------------------------------------------------------------

Busy == stopped \/ ws # NoSocket \/ pcActive

NewSocket(all) ==
  \E s \in Sockets :
    /\ all[s] = "none" /\ ws' = s /\ sockets' = [all EXCEPT ![s] = "connecting"]

\* mount, which the page calls once.
Init ==
  /\ stopped = FALSE /\ pc = "none" /\ pcActive = FALSE /\ timers = 0
  /\ reconnectTid = FALSE /\ fallback = FALSE /\ lateClose = FALSE
  /\ ws \in Sockets /\ mode = "none" /\ status = "connecting"
  /\ sockets = [s \in Sockets |-> IF s = ws THEN "connecting" ELSE "none"]

Cleared == IF reconnectTid THEN timers - 1 ELSE timers

\* setTimeout, counted up to the bound.
Set(n) == IF n < MaxTimers THEN n + 1 ELSE n

\* this.ws.close(): the close event comes later.
Closing == IF ws = NoSocket THEN sockets ELSE [sockets EXCEPT ![ws] = "closing"]

Unmount ==
  /\ ~stopped /\ stopped' = TRUE
  /\ timers' = Cleared /\ reconnectTid' = FALSE
  /\ sockets' = Closing /\ ws' = NoSocket /\ pc' = "none"
  /\ mode' = "none" /\ status' = "idle"
  /\ UNCHANGED <<pcActive, fallback, lateClose>>

\* startMSE and startWebRTC, for whichever socket opened.
OnOpen(s) ==
  /\ sockets[s] = "connecting"
  /\ sockets' = [sockets EXCEPT ![s] = "open"]
  /\ pc' = "connecting" /\ fallback' = TRUE
  /\ UNCHANGED <<stopped, ws, pcActive, timers, reconnectTid, view, lateClose>>

\* Mutated form: no new attempt after a connection that had been playing.
RetryUnlessPlaying == ~(stopped \/ pcActive \/ status = "playing")

Retry == ~(stopped \/ pcActive)

OnClose(s) ==
  /\ sockets[s] # "none"
  /\ sockets' = [sockets EXCEPT ![s] = "none"] /\ ws' = NoSocket
  /\ lateClose' = (lateClose \/ ws \notin {s, NoSocket})
  /\ IF Retry
     THEN /\ mode' = "none" /\ status' = "error"
          /\ timers' = Set(timers) /\ reconnectTid' = TRUE
     ELSE UNCHANGED <<view, timers, reconnectTid>>
  /\ UNCHANGED <<stopped, pc, pcActive, fallback>>

\* go2rtc accepts MSE.
MseAnswer(s) ==
  /\ sockets[s] = "open" /\ mode' = "mse" /\ status' = "playing"
  /\ UNCHANGED <<stopped, ws, sockets, pc, pcActive, timers, reconnectTid, fallback,
                 lateClose>>

\* go2rtc refuses MSE: MJPEG takes over, once.
MseError(s) ==
  /\ sockets[s] = "open" /\ fallback /\ fallback' = FALSE
  /\ mode' = "mjpeg" /\ status' = "playing"
  /\ UNCHANGED <<stopped, ws, sockets, pc, pcActive, timers, reconnectTid, lateClose>>

\* go2rtc refuses the offer: the peer connection is closed and stays in this.pc.
OfferError(s) ==
  /\ sockets[s] = "open" /\ pc = "connecting" /\ pc' = "closed"
  /\ UNCHANGED <<stopped, ws, sockets, pcActive, timers, reconnectTid, fallback, view,
                 lateClose>>

PcConnected ==
  /\ pc = "connecting" /\ pc' = "loading"
  /\ UNCHANGED <<stopped, ws, sockets, pcActive, timers, reconnectTid, fallback, view,
                 lateClose>>

\* loadeddata: WebRTC plays, and the socket is not needed any more.
PcLoaded ==
  /\ pc = "loading" /\ pc' = "live" /\ pcActive' = TRUE
  /\ mode' = "webrtc" /\ status' = "playing"
  /\ sockets' = Closing /\ ws' = NoSocket
  /\ UNCHANGED <<stopped, timers, reconnectTid, fallback, lateClose>>

\* Mutated form: pcActive survives its peer connection.
StillActive == pcActive

ActiveAfterFailure == FALSE

\* connectionState is "failed" or "disconnected".
PcFails ==
  /\ pc \in {"connecting", "loading", "live"} /\ pc' = "none"
  /\ pcActive' = ActiveAfterFailure
  /\ mode' = "none" /\ status' = "error"
  /\ timers' = Set(Cleared) /\ reconnectTid' = TRUE
  /\ UNCHANGED <<stopped, ws, sockets, fallback, lateClose>>

Timer ==
  /\ timers > 0 /\ timers' = timers - 1 /\ reconnectTid' = FALSE
  /\ \/ Busy /\ UNCHANGED <<ws, sockets, status>>
     \/ ~Busy /\ NewSocket(sockets) /\ status' = "connecting"
  /\ UNCHANGED <<stopped, pc, pcActive, fallback, mode, lateClose>>

SocketEvent(s) == OnOpen(s) \/ OnClose(s)

Next ==
  \/ Unmount \/ PcConnected \/ PcLoaded \/ PcFails \/ Timer
  \/ \E s \in Sockets : SocketEvent(s) \/ MseAnswer(s) \/ MseError(s) \/ OfferError(s)

\* Timers fire, a connection attempt or a closing handshake ends, and the camera
\* answers if it is asked again and again.
Resolves(s) == sockets[s] \in {"connecting", "closing"} /\ SocketEvent(s)
Opens       == \E s \in Sockets : OnOpen(s)

Fairness == WF_vars(Timer) /\ (\A s \in Sockets : WF_vars(Resolves(s))) /\ SF_vars(Opens)

Spec == Init /\ [][Next]_vars /\ Fairness

-----------------------------------------------------------------------------
(* Properties *)

TypeOK ==
  /\ stopped \in BOOLEAN /\ ws \in Sockets \cup {NoSocket}
  /\ sockets \in [Sockets -> {"none", "connecting", "open", "closing"}]
  /\ pc \in {"none", "connecting", "loading", "live", "closed"}
  /\ pcActive \in BOOLEAN /\ timers \in 0 .. MaxTimers
  /\ reconnectTid \in BOOLEAN /\ (reconnectTid => timers > 0)
  /\ fallback \in BOOLEAN /\ lateClose \in BOOLEAN
  /\ mode \in {"none", "webrtc", "mse", "mjpeg"}
  /\ status \in {"idle", "connecting", "playing", "error"}

\* The player loses track of a live WebSocket only through the close event of one
\* it had replaced (player.ts:158); otherwise there is never a second stream.
OneStream == ~lateClose => Live \subseteq {ws}

\* A mounted player is never left without a way to play: it has a socket, or a peer
\* connection that plays, or a timer that will connect.
NotStuck ==
  ~stopped /\ ~lateClose =>
    ws # NoSocket \/ (pcActive /\ pc = "live") \/ timers > 0

\* The status bar does not show "playing" over a dead transport.
PlayingIsReal ==
  status = "playing" /\ ~lateClose =>
    IF mode = "webrtc" THEN pcActive /\ pc = "live"
    ELSE ws # NoSocket /\ sockets[ws] = "open"

\* After unmount no callback brings the player back: no socket is kept or opened
\* and the status stays idle (unless a replaced socket is still around).
UnmountedIsQuiet ==
  stopped /\ ~lateClose => Live = {} /\ pc = "none" /\ status = "idle"

\* What the player's fields must say about its transports after every callback.
PlayerInv == TypeOK /\ OneStream /\ NotStuck /\ PlayingIsReal /\ UnmountedIsQuiet

\* Until it is unmounted the player always gets a transport again: the reconnect
\* timers, the guards of connect and pcActive never block each other for good.  Only
\* after a late close they may: an orphaned socket that opens replaces this.pc under
\* pcActive, and the end of the old peer connection is then ignored.
Recovers ==
  []<>(\/ stopped \/ lateClose \/ (pcActive /\ pc = "live")
       \/ \E s \in Sockets : sockets[s] = "open")
=============================================================================
