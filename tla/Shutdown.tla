------------------------------ MODULE Shutdown ------------------------------
(***************************************************************************)
(* How the daemon ends (crates/atometd/src/main.rs:108-334): the task that *)
(* waits for Ctrl+C, the web server's graceful shutdown, and the drop of   *)
(* the tokio runtime, which drops the async tasks and waits for the        *)
(* blocking threads.  Those wait for one another over the channels of the  *)
(* pipeline: a thread ends at the flag or when its channel is closed.      *)
(***************************************************************************)
EXTENDS Naturals

CONSTANTS
  Consumers,   \* tasks that receive the video broadcast: record and stream
  MaxRequests  \* bound: open HTTP requests

VARIABLES
  flag,      \* the shutdown flag
  main,      \* "binding", "serving", "draining", "dropping", "exited", "aborted"
  saver,     \* the Ctrl+C task: "waiting", "saving", "over", "dropped"
  unserved,  \* port 80 could not be bound
  requests,  \* open HTTP requests; a WebSocket is not one, axum hands it over
  tasks,     \* async tasks that run
  at,        \* where each blocking thread stands
  unseen,    \* receivers for which the luma channel holds a new frame
  device,    \* /dev/watchdog: "armed" or "off"
  camera     \* "up" or "reset"

env  == <<device, camera>>
vars == <<flag, main, saver, unserved, requests, tasks, at, unseen, env>>

Tasks     == Consumers \cup {"timelapse", "supervisor"}
Receivers == {"detection", "solve"}
Threads   == {"osd", "video", "timelapse_worker", "luma"} \cup Receivers

Ended(t) == at[t] = "ended"

\* Everything is spawned; what a thread sets up first may fail and end it.
Init ==
  /\ flag = FALSE /\ main = "binding" /\ saver = "waiting" /\ unserved = FALSE
  /\ requests = 0 /\ tasks = Tasks
  /\ at \in [Threads -> {"top", "ended"}] /\ \A t \in Receivers : at[t] = "top"
  /\ unseen = {} /\ device \in {"armed", "off"} /\ camera = "up"

Up == camera = "up" /\ main \notin {"exited", "aborted"}

-----------------------------------------------------------------------------
(* The signal *)

\* The flag, and save_config begins.
CtrlC ==
  /\ Up /\ saver = "waiting" /\ saver' = "saving"
  /\ flag' = TRUE
  /\ UNCHANGED <<main, unserved, requests, tasks, at, unseen, env>>

\* The handler cannot be installed: the task ends and drops shutdown_tx.
SignalFails ==
  /\ Up /\ saver = "waiting" /\ saver' = "over"
  /\ UNCHANGED <<flag, main, unserved, requests, tasks, at, unseen, env>>

\* Saved or not, it goes on.
SaveEnds ==
  /\ Up /\ saver = "saving" /\ saver' = "over"
  /\ UNCHANGED <<flag, main, unserved, requests, tasks, at, unseen, env>>

-----------------------------------------------------------------------------
(* main and the runtime *)

MainGoes(from, to) ==
  /\ Up /\ main = from /\ main' = to
  /\ UNCHANGED <<flag, saver, tasks, at, unseen, env>>

Bind ==
  /\ \/ MainGoes("binding", "serving") /\ UNCHANGED unserved
     \/ MainGoes("binding", "dropping") /\ unserved' = TRUE
  /\ UNCHANGED requests

RequestBegins ==
  /\ MainGoes("serving", "serving") /\ requests < MaxRequests
  /\ requests' = requests + 1 /\ UNCHANGED unserved

RequestEnds ==
  /\ Up /\ requests > 0 /\ requests' = requests - 1
  /\ UNCHANGED <<flag, main, saver, unserved, tasks, at, unseen, env>>

\* Mutated form: shutdown_tx is sent before the configuration is saved.
ToldEarly == saver \in {"saving", "over"}

\* shutdown_rx.await: sent, or its sender dropped.
Told == saver = "over"

Drain  == Told /\ MainGoes("serving", "draining") /\ UNCHANGED <<unserved, requests>>
Return == requests = 0 /\ MainGoes("draining", "dropping") /\ UNCHANGED <<unserved, requests>>

\* A task ends at the flag (its one-second timer wakes it), or is dropped with the
\* runtime.  With the supervisor goes the device, and perhaps its arming.
TaskEnds(t) ==
  /\ Up /\ t \in tasks /\ (flag \/ main = "dropping")
  /\ tasks' = tasks \ {t}
  /\ device' \in IF t = "supervisor" THEN {device, "off"} ELSE {device}
  /\ UNCHANGED <<flag, main, saver, unserved, requests, at, unseen, camera>>

DropSaver ==
  /\ Up /\ main = "dropping" /\ saver \in {"waiting", "saving"} /\ saver' = "dropped"
  /\ UNCHANGED <<flag, main, unserved, requests, tasks, at, unseen, env>>

\* The runtime's workers have stopped, and its timers with them.
Stopped == main = "dropping" /\ tasks = {} /\ saver \in {"over", "dropped"}

\* The drop of the runtime waits for every blocking thread.
Exit ==
  /\ Stopped /\ \A t \in Threads : Ended(t)
  /\ MainGoes("dropping", "exited") /\ UNCHANGED <<unserved, requests>>

\* A timer awaited on a stopped runtime panics, and the release profile aborts.
TimerPanics ==
  /\ Stopped /\ at["solve"] = "wait" /\ "solve" \notin unseen
  /\ MainGoes("dropping", "aborted") /\ UNCHANGED <<unserved, requests>>

-----------------------------------------------------------------------------
(* The blocking threads *)

Goes(t, from, to) ==
  /\ Up /\ at[t] = from /\ at' = [at EXCEPT ![t] = to]
  /\ UNCHANGED <<flag, main, saver, unserved, requests, tasks, env>>

\* Each looks at the flag at the top of its loop.  Where a turn of the loop does
\* nothing else that matters here and always comes round, that is all there is.
Top(t) ==
  /\ flag \/ t \in Receivers
  /\ Goes(t, "top", IF flag THEN "ended" ELSE "wait") /\ UNCHANGED unseen

\* A broadcast sends without waiting, and fails once all receivers are gone.
VideoTurn ==
  /\ tasks \cap Consumers = {}
  /\ Goes("video", "top", "ended") /\ UNCHANGED unseen

\* Mutated form: the end of the receiver is not seen.
StillOpen == TRUE

ReceiverOpen == "timelapse" \in tasks

\* blocking_send waits while the channel is full, and fails without a receiver.
TimelapseTurn ==
  /\ UNCHANGED unseen
  /\ \/ ~flag /\ Goes("timelapse_worker", "top", "sending")
     \/ "timelapse" \in tasks /\ Goes("timelapse_worker", "sending", "top")
     \/ ~ReceiverOpen /\ Goes("timelapse_worker", "sending", "ended")

\* main keeps a receiver of its own until it returns.
LumaReceived == main # "dropping" \/ \E t \in Receivers : ~Ended(t)

\* The newest frame is there for all.
LumaTurn ==
  /\ ~flag /\ Goes("luma", "top", IF LumaReceived THEN "top" ELSE "ended")
  /\ unseen' = IF LumaReceived THEN Receivers ELSE unseen

\* Mutated form: the end of the luma worker is not seen.
NeverClosed(t) == FALSE

Closed(t) == t \notin unseen /\ Ended("luma")

\* changed(): a frame, or the end of the sender.
Changed(t) ==
  \/ t \in unseen /\ unseen' = unseen \ {t} /\ Goes(t, "wait", "top")
  \/ Closed(t) /\ UNCHANGED unseen /\ Goes(t, "wait", "ended")

\* detection_task waits without a timeout; switched off, it stays at the top.
DetectionTurn == Changed("detection")

\* solve_task waits for three seconds at most, while the runtime's timers run.
SolveTurn ==
  Changed("solve") \/ (~Stopped /\ Goes("solve", "wait", "top") /\ UNCHANGED unseen)

ThreadTurn(t) ==
  \/ Top(t)
  \/ t = "video" /\ VideoTurn
  \/ t = "timelapse_worker" /\ TimelapseTurn
  \/ t = "luma" /\ LumaTurn
  \/ t = "detection" /\ DetectionTurn
  \/ t = "solve" /\ SolveTurn

-----------------------------------------------------------------------------

\* The device is no longer fed.
Reset ==
  /\ camera = "up" /\ device = "armed" /\ "supervisor" \notin tasks
  /\ camera' = "reset"
  /\ UNCHANGED <<flag, main, saver, unserved, requests, tasks, at, unseen, device>>

MainNext == Bind \/ Drain \/ Return \/ DropSaver \/ Exit \/ TimerPanics

Next ==
  \/ CtrlC \/ SignalFails \/ SaveEnds
  \/ MainNext \/ RequestBegins \/ RequestEnds
  \/ \E t \in Tasks : TaskEnds(t)
  \/ \E t \in Threads : ThreadTurn(t)
  \/ Reset

Spec ==
  /\ Init /\ [][Next]_vars
  /\ WF_vars(SaveEnds) /\ WF_vars(MainNext) /\ WF_vars(Reset)
  /\ \A t \in Tasks : WF_vars(TaskEnds(t))
  /\ \A t \in Threads : WF_vars(ThreadTurn(t))

-----------------------------------------------------------------------------
(* Properties *)

TypeOK ==
  /\ flag \in BOOLEAN /\ unserved \in BOOLEAN
  /\ main \in {"binding", "serving", "draining", "dropping", "exited", "aborted"}
  /\ saver \in {"waiting", "saving", "over", "dropped"} /\ requests \in 0 .. MaxRequests
  /\ tasks \subseteq Tasks /\ at \in [Threads -> {"top", "wait", "sending", "ended"}]
  /\ unseen \subseteq Receivers
  /\ device \in {"armed", "off"} /\ camera \in {"up", "reset"}

\* "Shutdown signal channel - used by both config save and axum graceful shutdown"
\* (main.rs:263): unless the server never started, the process does not end, nor is
\* a task dropped, before the save that Ctrl+C began is through.
SaveFirst ==
  main \in {"dropping", "exited", "aborted"} /\ flag /\ ~unserved => saver = "over"

Down == main \in {"exited", "aborted"} \/ camera = "reset"

\* After Ctrl+C nothing but an open request holds up the end: no thread, task or
\* channel waits for another that has gone.  If main returns without the flag, for
\* want of port 80 or of a signal handler, some threads never end, and it takes the
\* watchdog to get the camera back.
DaemonEnds ==
  /\ flag ~> Down \/ (main = "draining" /\ requests > 0)
  /\ main = "dropping" ~> Down \/ (~flag /\ device = "off")

\* SaveFirst, with the state in its ranges, after every step of main, the signal's task
\* and the threads (main.rs:108-334).
ShutdownInv == TypeOK /\ SaveFirst
=============================================================================
