------------------------------ MODULE Timelapse ------------------------------
(***************************************************************************)
(* Timelapse recording: timelapse_poll_worker (isp.rs:427-493), a thread   *)
(* that takes frames from encoder channel 1, and record_timelapse_task     *)
(* (record.rs:101-177), which files the key frames by the hour.  Between   *)
(* them is an mpsc channel: unlike the broadcast channel of the regular    *)
(* recording it drops nothing and makes the thread wait.                   *)
(***************************************************************************)
EXTENDS Naturals, Sequences

CONSTANTS
  HoursPerDay,  \* 24
  CAPACITY,     \* mpsc::channel(100)
  MaxHour,      \* bound: wall-clock hours 0 .. MaxHour
  EncoderQueue, \* coded frames that the encoder holds for GetStream, at most (external)
  MaxFrames,    \* bound: frames of the encoder
  NoMuxer

NoHour  == 99   \* current_hour before the first frame: no hour of a day
NoFrame == 0
Hours  == 0 .. MaxHour
Frames == 1 .. MaxFrames

TimelapseConstants ==
  /\ HoursPerDay \in 1 .. 24 /\ CAPACITY \in Nat /\ MaxHour \in Nat /\ MaxFrames \in Nat
  /\ EncoderQueue \in Nat /\ NoMuxer \notin Nat

VARIABLES
  clock, shutdown,
  worker,         \* "loop", "polling", "sending", "ended"
  worker_hour,    \* current_hour of the worker
  idrDue,         \* IMP_Encoder_RequestIDR: the encoder is to code an IDR frame,
  older,          \* behind so many frames that it had coded before
  hand,           \* the frame the worker is sending
  channel, idrs,  \* the frames sent, and which frames are IDR
  task,           \* "running", "ended", "down"
  current_hour, current_muxer,
  files,          \* per hour: its state and the frames in it
  frames,         \* frames delivered: names them
  owed,           \* history: key frames of this boot that no I/O error cost us
  since,          \* history: frames delivered since the hour changed, up to Enough
  upset           \* history: the clock was set back ("back"), or an I/O error
                  \* occurred or an hour was left out ("some"), or "none"

workerVars == <<worker, worker_hour, idrDue, older, hand, frames, idrs>>
taskVars   == <<task, current_hour, current_muxer, files>>
vars == <<clock, shutdown, workerVars, channel, taskVars, owed, since, upset>>

Absent == [state |-> "absent", frames |-> << >>]

hour == clock % HoursPerDay

\* One frame polled for before the worker knew the hour, those that the encoder had
\* coded when it was asked for the IDR, and the IDR itself.
Enough == EncoderQueue + 2

\* main: both start; StartRecvPic may fail, and then there is no worker.
Started ==
  /\ shutdown' = FALSE /\ worker' \in {"loop", "ended"} /\ worker_hour' = NoHour
  /\ channel' = << >> /\ task' = "running" /\ current_hour' = NoHour
  /\ current_muxer' = NoMuxer /\ owed' = {} /\ since' = 0 /\ hand' = NoFrame

Init ==
  /\ clock = 0 /\ shutdown = FALSE /\ worker \in {"loop", "ended"}
  /\ worker_hour = NoHour /\ idrDue = FALSE /\ older = 0 /\ hand = NoFrame /\ channel = << >>
  /\ idrs = {} /\ task = "running" /\ current_hour = NoHour /\ current_muxer = NoMuxer
  /\ files = [h \in Hours |-> Absent]
  /\ frames = 0 /\ owed = {} /\ since = 0 /\ upset = "none"

-----------------------------------------------------------------------------
(* The worker *)

\* Mutated form: no IDR is requested when the hour changes.
NoRequest == FALSE

RequestIDR == hour # worker_hour

\* Top of the loop; then IMP_Encoder_PollingStream blocks.  While blocking_send made
\* the worker wait, the encoder coded on: what it holds comes before the IDR.
Loop ==
  /\ worker = "loop"
  /\ IF shutdown THEN worker' = "ended" /\ UNCHANGED <<worker_hour, idrDue, older>>
     ELSE /\ worker' = "polling" /\ worker_hour' = hour
          /\ idrDue' = (idrDue \/ RequestIDR)
          /\ older' \in IF RequestIDR THEN 0 .. EncoderQueue ELSE {older}
  /\ UNCHANGED <<clock, shutdown, hand, frames, idrs, channel, taskVars, owed, since,
                 upset>>

\* Nothing for ten seconds, or GetStream fails: the frame stays with the encoder.
PollFails ==
  /\ worker = "polling" /\ worker' = "loop"
  /\ UNCHANGED <<clock, shutdown, worker_hour, idrDue, older, hand, frames, idrs, channel,
                 taskVars, owed, since, upset>>

\* GetStream returns the oldest coded frame; key frames come unasked for, too.
Deliver ==
  /\ worker = "polling" /\ frames < MaxFrames
  /\ worker' = "sending" /\ frames' = frames + 1 /\ hand' = frames'
  /\ \/ idrs' = idrs \cup {frames'} /\ owed' = owed \cup {frames'}
     \/ ~(idrDue /\ older = 0) /\ UNCHANGED <<idrs, owed>>
  /\ idrDue' = (idrDue /\ older # 0)
  /\ older' = IF idrDue /\ older # 0 THEN older - 1 ELSE older
  /\ since' = IF since = Enough THEN since ELSE since + 1
  /\ UNCHANGED <<clock, shutdown, worker_hour, channel, taskVars, upset>>

\* Mutated forms: try_send drops the frame; the end of the receiver is not seen.
TrySend   == channel' = SubSeq(Append(channel, hand), 1, CAPACITY)
StillOpen == TRUE

Send         == Len(channel) < CAPACITY /\ channel' = Append(channel, hand)
ReceiverOpen == task = "running"

\* blocking_send: waits for room, and fails once the receiver is dropped.
BlockingSend ==
  /\ worker = "sending"
  /\ \/ ReceiverOpen /\ Send /\ worker' = "loop"
     \/ ~ReceiverOpen /\ worker' = "ended" /\ UNCHANGED channel
  /\ hand' = NoFrame
  /\ UNCHANGED <<clock, shutdown, worker_hour, idrDue, older, frames, idrs, taskVars,
                 owed, since, upset>>

-----------------------------------------------------------------------------
(* The task *)

Left(fs, state) ==
  IF current_muxer = NoMuxer THEN fs ELSE [fs EXCEPT ![current_muxer].state = state]

Switch == current_muxer = NoMuxer \/ hour # current_hour

\* Mutated form: after a failed create the finished muxer is used again.
MuxerKept(created) == IF created = "ok" THEN clock ELSE current_muxer

MuxerAfter(created) == IF created = "ok" THEN clock ELSE NoMuxer

\* finish the old file; create the new one, truncating what the path held.
Switched(finished, created) ==
  LET old == Left(files, IF finished THEN "sealed" ELSE "broken")
  IN  CASE created = "ok"    -> [old EXCEPT ![clock] = [Absent EXCEPT !.state = "open"]]
        [] created = "muxer" -> [old EXCEPT ![clock] = [Absent EXCEPT !.state = "broken"]]
        [] OTHER             -> old

\* A key frame; every step of the I/O may fail.  A frame is filed, or given up
\* with an error in the log.
Record(frame, finished, created, written) ==
  LET muxer == IF Switch THEN MuxerAfter(created) ELSE current_muxer
      fs    == IF Switch THEN Switched(finished, created) ELSE files
      kept  == muxer # NoMuxer /\ written
  IN  /\ current_muxer' = muxer
      /\ current_hour' = IF Switch /\ created = "ok" THEN hour ELSE current_hour
      /\ files' = IF kept THEN [fs EXCEPT ![muxer].frames = Append(@, frame)] ELSE fs
      /\ owed' = owed \ ((IF kept THEN {} ELSE {frame}) \cup
                         (IF Switch /\ created # "file"
                          THEN {f \in owed : \E i \in DOMAIN files[clock].frames :
                                                files[clock].frames[i] = f} ELSE {}))
      /\ upset' = IF upset = "none" /\ (~finished \/ created # "ok" \/ ~written)
                  THEN "some" ELSE upset

HasIdr(frame) == frame \in idrs

Receive ==
  /\ task = "running" /\ channel # << >>
  /\ channel' = Tail(channel)
  /\ \/ /\ HasIdr(Head(channel))
        /\ \E finished, written \in BOOLEAN, created \in {"ok", "file", "muxer"} :
             Record(Head(channel), finished, created, written)
     \/ /\ ~HasIdr(Head(channel))
        /\ UNCHANGED <<current_muxer, current_hour, files, owed, upset>>
  /\ UNCHANGED <<clock, shutdown, workerVars, task, since>>

\* The watchdog timer wakes the task every second, so it sees the flag; the
\* muxer is dropped without finish.
TaskEnds ==
  /\ task = "running" /\ shutdown
  /\ task' = "ended" /\ current_muxer' = NoMuxer
  /\ files' = Left(files, "broken")
  /\ UNCHANGED <<clock, shutdown, workerVars, channel, current_hour, owed, since, upset>>

-----------------------------------------------------------------------------
(* The clock, the signal, the power *)

SetClock ==
  /\ clock' \in Hours \ {clock}
  /\ upset' = IF clock' < clock \/ upset = "back" THEN "back"
              ELSE IF clock' = clock + 1 /\ since = Enough THEN upset ELSE "some"
  /\ since' = 0
  /\ UNCHANGED <<shutdown, workerVars, channel, taskVars, owed>>

RequestShutdown ==
  /\ task # "down" /\ shutdown' = TRUE
  /\ UNCHANGED <<clock, workerVars, channel, taskVars, owed, since, upset>>

PowerLoss ==
  /\ task # "down" /\ task' = "down" /\ worker' = "ended" /\ idrDue' = FALSE
  /\ files' = Left(files, "broken") /\ current_muxer' = NoMuxer /\ channel' = << >>
  /\ hand' = NoFrame
  /\ UNCHANGED <<clock, shutdown, worker_hour, older, frames, idrs, current_hour, owed,
                 since, upset>>

Restart ==
  /\ task \in {"down", "ended"} /\ worker = "ended"
  /\ Started
  /\ UNCHANGED <<clock, idrDue, older, frames, idrs, files, upset>>

WorkerNext == Loop \/ PollFails \/ Deliver \/ BlockingSend
TaskNext   == Receive \/ TaskEnds
Next == WorkerNext \/ TaskNext \/ SetClock \/ RequestShutdown \/ PowerLoss \/ Restart

\* A thread runs on (its poll ends after ten seconds at the latest), and so does
\* the task, whose I/O ends in success or an error.
Fairness == WF_vars(WorkerNext) /\ WF_vars(Receive) /\ WF_vars(TaskEnds)

Spec == Init /\ [][Next]_vars /\ Fairness

-----------------------------------------------------------------------------
(* Properties *)

TypeOK ==
  /\ clock \in Hours /\ shutdown \in BOOLEAN
  /\ worker \in {"loop", "polling", "sending", "ended"}
  /\ worker_hour \in 0 .. HoursPerDay - 1 \cup {NoHour} /\ idrDue \in BOOLEAN
  /\ older \in 0 .. EncoderQueue
  /\ hand \in Frames \cup {NoFrame} /\ (worker = "sending" <=> hand # NoFrame)
  /\ channel \in Seq(Frames) /\ Len(channel) <= CAPACITY /\ idrs \subseteq Frames
  /\ task \in {"running", "ended", "down"} /\ current_hour \in 0 .. HoursPerDay - 1 \cup {NoHour}
  /\ current_muxer \in Hours \cup {NoMuxer}
  /\ files \in [Hours -> [state : {"absent", "open", "sealed", "broken"},
                          frames : Seq(Frames)]]
  /\ frames \in 0 .. MaxFrames /\ owed \subseteq Frames /\ since \in 0 .. Enough
  /\ upset \in {"none", "some", "back"}

InFile(f, h) == \E i \in DOMAIN files[h].frames : files[h].frames[i] = f

\* Back-pressure loses nothing: a key frame the encoder delivered is still in the
\* worker's hand or in the channel, or it is in exactly one file, unless the task
\* logged an error for it or its file was truncated.
EveryKeyFrame ==
  task = "running" =>
    \A f \in owed :
      \/ f = hand \/ \E i \in DOMAIN channel : channel[i] = f
      \/ \E h \in Hours : InFile(f, h) /\ \A g \in Hours : InFile(f, g) => g = h

\* A file plays as a timelapse: key frames only, in the order they were taken,
\* and the file being written is the only open one.
FilesOrdered ==
  \A h \in Hours :
    LET fs == files[h].frames
    IN  /\ files[h].state = "open" <=> current_muxer = h
        /\ \A i \in DOMAIN fs : fs[i] \in idrs
        /\ \A i \in 1 .. Len(fs) - 1 : fs[i] < fs[i + 1]

\* Both together, after every step of the thread and of the task
\* (isp.rs:427-493, record.rs:101-177).
TimelapseInv == TypeOK /\ EveryKeyFrame /\ FilesOrdered

\* "Request IDR frame on hour change to ensure clean keyframe for new record"
\* (isp.rs:448): once so many frames of an hour went through that the IDR must be
\* among them, the hour has its file, whatever the encoder's key frame interval is
\* and however many frames waited in it, if no I/O failed and the clock was not set
\* and no hour passed with fewer frames (a day later the same hour of the day is
\* taken for the old one, record.rs:117).
HourHasFile ==
  since = Enough /\ task = "running" /\ channel = << >> /\ hand = NoFrame /\ upset = "none" =>
    files[clock].state # "absent"

\* Once an hour's file is sealed, only a clock set back lets File::create truncate
\* it (record.rs:135); a restart costs the unsealed file of its hour, no other.
SealedKept ==
  [][\A h \in Hours :
       files[h].state = "sealed" /\ files'[h] # files[h] => upset = "back"]_vars

\* The worker never waits forever in blocking_send (isp.rs:486), not even when
\* the task ends while the channel is full.
SendReturns == worker = "sending" ~> worker # "sending"

\* Both end after the shutdown flag is set.
ShutdownEnds == shutdown ~> (worker = "ended" /\ task # "running")

\* Neither side of the channel is left waiting for the other.
NoneWaitsForever == SendReturns /\ ShutdownEnds
=============================================================================
