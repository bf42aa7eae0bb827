----------------------------- MODULE RecordTask -----------------------------
(***************************************************************************)
(* record_regular_task (crates/atometd/src/record.rs:14-99): it cuts the   *)
(* encoder's frames into one MP4 file per wall-clock minute.  The task     *)
(* owns its muxer, so one received frame is one step; what can change      *)
(* between two steps is the clock, the record_enabled switch, the power    *)
(* and the card.  A file is what FrameArchive promises of it: the frames   *)
(* written so far and whether finish sealed it.                            *)
(*                                                                         *)
(* The path is the minute itself (%Y%m%d_%H%M); the switch compares only   *)
(* the minute of the hour, as the code does.                               *)
(***************************************************************************)
EXTENDS Naturals, Sequences

CONSTANTS
  MinutesPerHour,  \* 60
  MaxMinute,       \* bound: wall-clock minutes 0 .. MaxMinute
  MaxFrames,       \* bound: frames of the encoder's stream
  NoMuxer

NoMinute == 99     \* the initial current_minute: no minute of an hour

ASSUME RecordConstants ==
  /\ MinutesPerHour \in 1 .. 60
  /\ MaxMinute \in Nat /\ MaxFrames \in Nat
  /\ NoMuxer \notin Nat

VARIABLES
  clock,           \* wall-clock minute, as Local::now() shows it
  enabled,         \* AppState.record_enabled
  status,          \* the task: "running", "stopped" (shutdown) or "down"
  current_minute,
  current_muxer,   \* path of the file being written, or NoMuxer
  files,           \* per path: state and frames
  stream,          \* frames the encoder produced, received or lost
  lostIds,         \* history: frames dropped by the channel
  wentBack         \* history: the wall clock was set back

task == <<status, current_minute, current_muxer>>
env  == <<stream, lostIds>>
vars == <<clock, enabled, task, files, env, wentBack>>

Minutes == 0 .. MaxMinute
Frame   == [id : 1 .. MaxFrames, idr : BOOLEAN, minute : Minutes]

\* `hurt` and `end` are history: a write failed; why the file is not open.
Absent == [state |-> "absent", frames |-> << >>, hurt |-> FALSE, end |-> "none"]
Empty  == [Absent EXCEPT !.state = "open"]

\* How the I/O of one handler call turns out.
Outcome == [finish : BOOLEAN, create : {"ok", "file", "muxer"}, write : BOOLEAN]

-----------------------------------------------------------------------------

Init ==
  /\ clock = 0 /\ enabled \in BOOLEAN /\ status = "running"
  /\ current_minute = NoMinute /\ current_muxer = NoMuxer
  /\ files = [p \in Minutes |-> Absent]
  /\ stream = 0 /\ lostIds = {} /\ wentBack = FALSE

\* current_muxer.take() and finish(): sealed, or broken if finish failed.
Finished(fs, ok, why) ==
  IF current_muxer = NoMuxer THEN fs
  ELSE [fs EXCEPT ![current_muxer].state = IF ok THEN "sealed" ELSE "broken",
                  ![current_muxer].end   = why]

\* Recording is off: close the current file and forget the minute.
Disabled(io) ==
  /\ ~enabled
  /\ files' = Finished(files, io.finish, "disabled")
  /\ current_muxer' = NoMuxer
  /\ current_minute' = IF current_muxer = NoMuxer THEN current_minute ELSE NoMinute

minute == clock % MinutesPerHour

\* Mutated form: the file name has no date and hour.
PathOfHour == clock % MinutesPerHour

Path == clock

\* Mutated form: the switch does not look at the minute.
SwitchWhenClosed(idr) == current_muxer = NoMuxer /\ idr

SwitchFile(idr) == (current_muxer = NoMuxer \/ minute # current_minute) /\ idr

\* The files once the old one is finished and File::create / Mp4Muxer::new ran.
\* File::create truncates whatever the path held.
Switched(io) ==
  LET old == Finished(files, io.finish, "rotated")
  IN  CASE io.create = "ok"    -> [old EXCEPT ![Path] = Empty]
        [] io.create = "muxer" -> [old EXCEPT ![Path] =
                                     [Empty EXCEPT !.state = "broken", !.end = "error"]]
        [] io.create = "file"  -> old

Written(fs, path, frame, ok) ==
  CASE path = NoMuxer          -> fs
    [] path # NoMuxer /\ ok    -> [fs EXCEPT ![path].frames = Append(@, frame)]
    [] path # NoMuxer /\ ~ok   -> [fs EXCEPT ![path].hurt = TRUE]

\* Mutated form: a failed switch keeps the muxer it has just finished.
MuxerKept(io) == IF io.create = "ok" THEN Path ELSE current_muxer

MuxerAfter(io) == IF io.create = "ok" THEN Path ELSE NoMuxer

Record(frame, io) ==
  /\ enabled
  /\ IF SwitchFile(frame.idr)
     THEN /\ current_muxer' = MuxerAfter(io)
          /\ current_minute' = IF io.create = "ok" THEN minute ELSE current_minute
          /\ files' = Written(Switched(io), MuxerAfter(io), frame, io.write)
     ELSE /\ UNCHANGED <<current_muxer, current_minute>>
          /\ files' = Written(files, current_muxer, frame, io.write)

\* One received frame.  `lost` frames before it were dropped by the broadcast
\* channel (Lagged); the receiver is not told which.
Receive(idr, lost, io) ==
  LET frame == [id |-> stream + lost + 1, idr |-> idr, minute |-> clock]
  IN  /\ status = "running" /\ frame.id <= MaxFrames
      /\ stream' = frame.id
      /\ lostIds' = lostIds \cup (stream + 1 .. frame.id - 1)
      /\ Disabled(io) \/ Record(frame, io)
      /\ UNCHANGED <<clock, enabled, status, wentBack>>

\* set_record from a web client.
SetRecord ==
  /\ enabled' = ~enabled
  /\ UNCHANGED <<clock, task, files, env, wentBack>>

PassMinute ==
  /\ clock < MaxMinute
  /\ clock' = clock + 1
  /\ UNCHANGED <<enabled, task, files, env, wentBack>>

\* NTP corrects the clock, or daylight saving ends.
SetClock ==
  /\ clock' \in Minutes
  /\ wentBack' = (wentBack \/ clock' < clock)
  /\ UNCHANGED <<enabled, task, files, env>>

\* The muxer is dropped without finish: its file keeps no index.
Dropped(why) == Finished(files, FALSE, why)

\* The loop sees the shutdown flag.
Stop ==
  /\ status = "running"
  /\ status' = "stopped"
  /\ files' = Dropped("shutdown") /\ current_muxer' = NoMuxer
  /\ UNCHANGED <<clock, enabled, current_minute, env, wentBack>>

\* Power is cut or the hardware watchdog resets the camera.
PowerLoss ==
  /\ status # "down"
  /\ status' = "down"
  /\ files' = Dropped("power") /\ current_muxer' = NoMuxer
  /\ UNCHANGED <<clock, enabled, current_minute, env, wentBack>>

\* The daemon starts again: all of the task's memory is new.
Restart ==
  /\ status \in {"down", "stopped"}
  /\ status' = "running"
  /\ current_minute' = NoMinute
  /\ enabled' \in BOOLEAN
  /\ UNCHANGED <<clock, current_muxer, files, env, wentBack>>

Next ==
  \/ \E idr \in BOOLEAN, lost \in 0 .. 1, io \in Outcome : Receive(idr, lost, io)
  \/ SetRecord \/ PassMinute \/ SetClock
  \/ Stop \/ PowerLoss \/ Restart

Spec == Init /\ [][Next]_vars

-----------------------------------------------------------------------------
(* Properties *)

TypeOK ==
  /\ clock \in Minutes /\ enabled \in BOOLEAN
  /\ status \in {"running", "stopped", "down"}
  /\ current_minute \in 0 .. MinutesPerHour - 1 \cup {NoMinute}
  /\ current_muxer \in Minutes \cup {NoMuxer}
  /\ files \in [Minutes -> [state : {"absent", "open", "sealed", "broken"},
                            frames : Seq(Frame), hurt : BOOLEAN,
                            end : {"none", "disabled", "rotated", "error",
                                   "shutdown", "power"}]]
  /\ stream \in 0 .. MaxFrames /\ lostIds \subseteq 1 .. stream
  /\ wentBack \in BOOLEAN

\* Exactly the current muxer's file is open: no step leaks an unfinished file
\* or writes on behind a finished one.
OneOpenFile ==
  \A p \in Minutes : files[p].state = "open" <=> current_muxer = p

\* Unless one of its writes failed, a file can be decoded from start to end:
\* it begins with an IDR frame, and every other frame is an IDR or follows the
\* one before it, save for frames the broadcast channel dropped.
Decodable ==
  \A p \in Minutes :
    LET fs == files[p].frames
    IN  ~files[p].hurt /\ fs # << >> =>
          /\ fs[1].idr
          /\ \A i \in 1 .. Len(fs) - 1 :
               fs[i + 1].idr \/ fs[i].id + 1 .. fs[i + 1].id - 1 \subseteq lostIds

\* An IDR frame is filed under a path of its own minute of the hour: the switch
\* never lets a key frame of a new minute into the old file.
IdrInItsMinute ==
  \A p \in Minutes : \A i \in DOMAIN files[p].frames :
    LET f == files[p].frames[i]
    IN  f.idr => f.minute % MinutesPerHour = p % MinutesPerHour

\* The files of the card are sound after every step, whichever of its I/O calls
\* failed: one open file, and none that a decoder cannot follow (record.rs:14-99).
RecordInv == TypeOK /\ OneOpenFile /\ Decodable

\* A sealed recording is overwritten only if it was closed because recording
\* was switched off (and is switched on again in the same minute), or if the
\* wall clock was set back; restarts and failures alone never do it.
SealedOverwritten ==
  [][\A p \in Minutes :
       files[p].state = "sealed" /\ files'[p] # files[p] =>
         files[p].end = "disabled" \/ wentBack]_vars
=============================================================================
