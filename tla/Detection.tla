----------------------------- MODULE Detection ------------------------------
(***************************************************************************)
(* detection_task (crates/atometd/src/detection.rs:434-717): per luma      *)
(* frame it keeps a ring of the last frames, follows blobs as tracks,      *)
(* announces a track once its path is long and straight, and blends the    *)
(* frames around it into one PNG named after the second of confirmation.   *)
(*                                                                         *)
(* A frame is its number among the frames the task took; a max-blend of    *)
(* frames is their set.  Which blobs a frame shows, which track each       *)
(* belongs to and whether a path is straight are inputs: the statistics    *)
(* are floating point.                                                     *)
(***************************************************************************)
EXTENDS Integers, FiniteSets

CONSTANTS
  LUMA_PREBUF,       \* 5
  STACK_TIMEOUT,     \* 15
  TRACK_MAX_MISSED,  \* 2
  TRACK_MIN_FRAMES,  \* 4
  MaxBlobs,          \* bound: new blobs per frame
  MaxTracks,         \* bound: tracks ever spawned
  MaxFrames,         \* bound: frames taken
  MaxSecond          \* bound: wall-clock seconds 0 .. MaxSecond

ASSUME DetectionConstants ==
  /\ LUMA_PREBUF \in Nat \ {0}
  /\ STACK_TIMEOUT \in Nat /\ TRACK_MAX_MISSED \in Nat /\ TRACK_MIN_FRAMES \in Nat
  /\ STACK_TIMEOUT > TRACK_MAX_MISSED
  /\ MaxBlobs \in Nat /\ MaxTracks \in Nat /\ MaxFrames \in Nat /\ MaxSecond \in Nat

VARIABLES
  task,             \* "running" or "ended"
  enabled,          \* AppState.detection_enabled
  clock,            \* wall-clock second
  frame_index,      \* frames taken so far; also the newest frame
  luma_ring, luma_ring_idx, luma_ring_full,
  tracks,           \* by id: frames of its history, missed, frame of its confirmation or 0
  next_track_id,
  stack_active, stack_data, stack_ts, stack_countdown,
  saved,            \* SAVE_DIR by second
  announced,        \* history: meteor events sent, by track
  lastMeteor,       \* history: last frame that showed a confirmed track
  stamped,          \* history: frames taken in each second
  wentBack          \* history: the wall clock was set back

ring    == <<luma_ring, luma_ring_idx, luma_ring_full>>
stack   == <<stack_active, stack_data, stack_ts, stack_countdown>>
history == <<announced, lastMeteor, stamped>>
vars    == <<task, enabled, clock, frame_index, ring, tracks, next_track_id,
             stack, saved, history, wentBack>>

Seconds == 0 .. MaxSecond
Frames  == 1 .. MaxFrames
Slots   == 0 .. LUMA_PREBUF - 1
Unsaved == [state |-> "absent", frames |-> {}]

-----------------------------------------------------------------------------

Init ==
  /\ task = "running" /\ enabled \in BOOLEAN /\ clock = 0 /\ frame_index = 0
  /\ luma_ring = [i \in Slots |-> 0] /\ luma_ring_idx = 0 /\ luma_ring_full = FALSE
  /\ tracks = [t \in {} |-> t] /\ next_track_id = 0
  /\ stack_active = FALSE /\ stack_data = {} /\ stack_ts = 0 /\ stack_countdown = 0
  /\ saved = [s \in Seconds |-> Unsaved]
  /\ announced = [t \in 0 .. MaxTracks - 1 |-> 0] /\ lastMeteor = 0
  /\ stamped = [s \in Seconds |-> 0]
  /\ wentBack = FALSE

RingWrite(f) ==
  /\ luma_ring' = [luma_ring EXCEPT ![luma_ring_idx] = f]
  /\ luma_ring_idx' = IF luma_ring_idx + 1 = LUMA_PREBUF THEN 0 ELSE luma_ring_idx + 1
  /\ luma_ring_full' = (luma_ring_full \/ luma_ring_idx' = 0)

\* Mutated form: only the slots written since the ring last wrapped.
PrebufferUnwrapped == {luma_ring'[i] : i \in {j \in Slots : j < luma_ring_idx'}}

\* The blend of the ring's slots that were written, the current frame included.
Prebuffer ==
  {luma_ring'[i] : i \in {j \in Slots : luma_ring_full' \/ j < luma_ring_idx'}}

Born(n)  == next_track_id .. next_track_id + n - 1
NewTrack(f) == [history |-> {f}, missed |-> 0, confirmed |-> 0]

IsConfirmed(tr) == tr.confirmed # 0

\* The tracks after association: `hit` were matched with a blob, `n` blobs were
\* left over and begin tracks of their own.
Associated(hit, n, f) ==
  [t \in DOMAIN tracks \cup Born(n) |->
     IF t \in Born(n) THEN NewTrack(f)
     ELSE IF t \in hit
     THEN [tracks[t] EXCEPT !.history = @ \cup {f}, !.missed = 0]
     ELSE [tracks[t] EXCEPT !.missed = @ + 1]]

\* Mutated form: tracks announced before are not skipped.
CandidatesAgain(trs, hit) ==
  {t \in hit : Cardinality(trs[t].history) >= TRACK_MIN_FRAMES}

\* Tracks whose path may now be found straight: the test looks at the history
\* alone, so its result can change only for a track matched by this frame.
Candidates(trs, hit) ==
  {t \in hit : ~IsConfirmed(trs[t]) /\ Cardinality(trs[t].history) >= TRACK_MIN_FRAMES}

Confirmed(trs, new, f) ==
  [t \in DOMAIN trs |->
     IF t \in new THEN [trs[t] EXCEPT !.confirmed = f] ELSE trs[t]]

InSight(trs) == {t \in DOMAIN trs : IsConfirmed(trs[t]) /\ trs[t].missed = 0}

\* Mutated form: a track is given up one missed frame later than the constant says.
RetainedLong(trs) ==
  [t \in {u \in DOMAIN trs : trs[u].missed <= STACK_TIMEOUT} |-> trs[t]]

Retained(trs) ==
  [t \in {u \in DOMAIN trs : trs[u].missed <= TRACK_MAX_MISSED} |-> trs[t]]

\* save_png: the file is truncated, then written; either can fail.
SaveOutcomes == {"ok", "create", "write"}
Written(old, io) ==
  CASE io = "ok"     -> [state |-> "whole", frames |-> stack_data']
    [] io = "write"  -> [state |-> "torn", frames |-> {}]
    [] io = "create" -> old

Countdown(trs, begins) ==
  IF InSight(trs) # {} THEN STACK_TIMEOUT
  ELSE (IF begins THEN STACK_TIMEOUT ELSE stack_countdown) - 1

BlendBase(begins) == IF begins THEN Prebuffer ELSE stack_data

\* Mutated form: the seconds are left out of the name.
NameOfMinute(begins) == IF begins THEN 0 ELSE stack_ts

StackName(begins) == IF begins THEN clock ELSE stack_ts

Stacking(trs, new, f, io) ==
  LET begins == new # {} /\ ~stack_active
  IN  /\ stack_data' = BlendBase(begins) \cup {f}
      /\ stack_ts' = StackName(begins)
      /\ stack_countdown' = Countdown(trs, begins)
      /\ stack_active' = (stack_countdown' # 0)
      /\ saved' = IF stack_countdown' = 0
                  THEN [saved EXCEPT ![stack_ts'] = Written(@, io)] ELSE saved

\* One turn of the loop with a frame.  `hit` are the tracks a blob was matched
\* with, `n` the blobs left over, `straight` the candidates found straight.
Frame(hit, n, straight, io) ==
  LET f   == frame_index + 1
      trs == Associated(hit, n, f)
      now == Confirmed(trs, straight, f)
  IN  /\ task = "running" /\ enabled
      /\ straight \subseteq Candidates(trs, hit)
      /\ frame_index' = f
      /\ RingWrite(f)
      /\ next_track_id' = next_track_id + n
      /\ announced' = [t \in DOMAIN announced |->
                         IF t \in straight THEN announced[t] + 1 ELSE announced[t]]
      /\ IF stack_active \/ straight # {} THEN Stacking(now, straight, f, io)
                                     ELSE UNCHANGED <<stack, saved>>
      /\ tracks' = Retained(now)
      /\ lastMeteor' = IF InSight(now) # {} THEN f ELSE lastMeteor
      /\ stamped' = [stamped EXCEPT ![clock] = @ + 1]
      /\ UNCHANGED <<task, enabled, clock, wentBack>>

\* The shutdown flag is seen, or the luma worker is gone: what was stacked is lost.
End ==
  /\ task = "running"
  /\ task' = "ended"
  /\ UNCHANGED <<enabled, clock, frame_index, ring, tracks, next_track_id, stack,
                 saved, history, wentBack>>

\* set_detection from a web client.  The task keeps everything while it is off.
SetDetection ==
  /\ enabled' = ~enabled
  /\ UNCHANGED <<task, clock, frame_index, ring, tracks, next_track_id, stack,
                 saved, history, wentBack>>

SetClock(s) ==
  /\ clock' = s
  /\ wentBack' = (wentBack \/ s < clock)
  /\ UNCHANGED <<task, enabled, frame_index, ring, tracks, next_track_id, stack,
                 saved, history>>

Next ==
  \/ /\ frame_index < MaxFrames
     /\ \E hit \in SUBSET DOMAIN tracks, n \in 0 .. MaxBlobs, io \in SaveOutcomes :
          /\ next_track_id + n <= MaxTracks
          /\ \E straight \in SUBSET hit : Frame(hit, n, straight, io)
  \/ End \/ SetDetection
  \/ \E s \in Seconds \ {clock} : SetClock(s)

Spec == Init /\ [][Next]_vars

-----------------------------------------------------------------------------
(* Properties *)

Track == [history : SUBSET Frames, missed : 0 .. TRACK_MAX_MISSED,
          confirmed : Frames \cup {0}]

TypeOK ==
  /\ task \in {"running", "ended"} /\ enabled \in BOOLEAN /\ clock \in Seconds
  /\ frame_index \in 0 .. MaxFrames
  /\ luma_ring \in [Slots -> 0 .. MaxFrames] /\ luma_ring_idx \in Slots
  /\ luma_ring_full \in BOOLEAN
  /\ DOMAIN tracks \subseteq 0 .. next_track_id - 1
  /\ \A t \in DOMAIN tracks : tracks[t] \in Track
  /\ next_track_id \in 0 .. MaxTracks
  /\ stack_active \in BOOLEAN /\ stack_data \subseteq Frames
  /\ stack_ts \in Seconds /\ stack_countdown \in 0 .. STACK_TIMEOUT
  /\ saved \in [Seconds -> [state : {"absent", "whole", "torn"}, frames : SUBSET Frames]]
  /\ announced \in [0 .. MaxTracks - 1 -> Nat]
  /\ stamped \in [Seconds -> Nat] /\ lastMeteor \in 0 .. MaxFrames
  /\ wentBack \in BOOLEAN

\* While an announced meteor is still followed, its stack is open: no order of
\* appearance, loss and saving lets a track outlive the stack it began.
MeteorIsStacked ==
  \A t \in DOMAIN tracks : IsConfirmed(tracks[t]) => stack_active

\* A stack that is open is still to be saved, and soon: the countdown of
\* detection.rs:655 is never decremented at zero and ends STACK_TIMEOUT frames
\* after the last sight of a meteor.
StackEndsInTime ==
  /\ stack_active <=> stack_countdown > 0
  /\ stack_active => stack_countdown + (frame_index - lastMeteor) = STACK_TIMEOUT

\* A stack is open as long as a meteor is followed, and no longer than it must be.
StackFollows == MeteorIsStacked /\ StackEndsInTime

\* The open stack blends every frame since it began, without a gap where the
\* ring wraps or where detection was switched off, and so shows each followed
\* meteor wherever it was seen in the LUMA_PREBUF frames up to its confirmation
\* and ever since.
TrailInStack ==
  stack_active =>
    /\ \A f \in stack_data, g \in Frames : f <= g /\ g <= frame_index => g \in stack_data
    /\ \A t \in DOMAIN tracks : IsConfirmed(tracks[t]) =>
         \A f \in tracks[t].history : f + LUMA_PREBUF > tracks[t].confirmed => f \in stack_data

\* A meteor is announced once, however long it is followed and whatever other
\* tracks begin and end meanwhile.
AnnouncedOnce ==
  \A t \in 0 .. MaxTracks - 1 :
    /\ announced[t] <= 1
    /\ t \in DOMAIN tracks => (announced[t] = 1 <=> IsConfirmed(tracks[t]))

\* A saved stack is overwritten only if the wall clock was set back, or if more
\* than STACK_TIMEOUT + 1 frames fit into the second it is named after.
SavedKept ==
  [][\A s \in Seconds :
       saved[s].state = "whole" /\ saved'[s] # saved[s] =>
         wentBack \/ stamped'[s] > STACK_TIMEOUT + 1]_vars
=============================================================================
