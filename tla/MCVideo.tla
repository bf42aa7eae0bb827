------------------------------ MODULE MCVideo ------------------------------
(***************************************************************************)
(* Frames on their way to those who wait for them: the stream server, the  *)
(* timelapse recording, the luma frames with the capture that a client     *)
(* asks for, and the browser's player and control connection.  They share  *)
(* no state that their properties are about, so one behaviour moves one of *)
(* them only; `focus` says which, and the others stay where they started.  *)
(* The algorithms on the bytes of a frame get their input in one step.     *)
(***************************************************************************)
EXTENDS StreamServer

CONSTANTS HoursPerDay, CAPACITY, MaxHour, EncoderQueue, TimelapseFrames, UpsetFrames,
          Sockets, MaxTimers, NoSocket, NoMuxer, EXTRACT_FRAMES

VARIABLES
  focus, input,
  clock, stop, worker, worker_hour, idrDue, older, hand, channel, idrs, task,
  current_hour, current_muxer, files, frames, owed, since, upset,
  stopped, ws, sockets, pc, pcActive, timers, reconnectTid, fallback, mode, view,
  lateClose,
  page_ws, old, reconnectTimer, disconnected,
  luma, unseen, stopping, capture, solver, taken, detector, captures, published

timelapseVars ==
  <<clock, stop, worker, worker_hour, idrDue, older, hand, channel, idrs, task,
    current_hour, current_muxer, files, frames, owed, since, upset>>
playerVars ==
  <<stopped, ws, sockets, pc, pcActive, timers, reconnectTid, fallback, mode, view,
    lateClose>>
pageVars == <<page_ws, old, reconnectTimer, disconnected>>
captureVars ==
  <<luma, unseen, stopping, capture, solver, taken, detector, captures, published>>

T == INSTANCE TimelapseProofs WITH
       shutdown <- stop, MaxFrames <- TimelapseFrames
P == INSTANCE Player WITH status <- view
W == INSTANCE WsClient WITH ws <- page_ws
C == INSTANCE Capture WITH owed <- captures
H == INSTANCE HevcBytes
O == INSTANCE Osd

ASSUME VideoConstants ==
  /\ C!CaptureConstants /\ T!TimelapseConstants
  /\ NoSocket \notin Sockets /\ MaxTimers \in Nat \ {0}

-----------------------------------------------------------------------------
(* The inputs of the algorithms *)

\* Two start codes and what may lie around them; the headers of a VPS and an SPS.
Streams == UNION {[1 .. n -> {0, 1, 2}] : n \in 0 .. 8}
Bodies  == UNION {[1 .. n -> {0, 64, 66}] : n \in 0 .. 3}
Headed  == {<<0, 0, 1>> \o a \o <<0, 0, 1>> \o b : a \in Bodies, b \in Bodies}

OldSets == [t \in 32 .. 34 |-> <<t, t>>]
Packs   == {p \in (1 .. 5) \X (0 .. 4) \X (1 .. 5) : p[2] < p[1] /\ p[3] <= p[1]}
Samples == UNION {[1 .. n -> [duration : 1 .. 2, is_key : BOOLEAN]] : n \in 0 .. 5}

\* What an algorithm may be given.
Inputs(algorithm) ==
  CASE algorithm = "nals"   -> Streams \cup Headed
    [] algorithm = "pack"   -> Packs
    [] algorithm = "tables" -> Samples
    [] algorithm = "osd"    -> (0 .. 4) \X (0 .. 43)

Algorithms == {"nals", "pack", "tables", "osd"}

Choose ==
  /\ focus \in Algorithms /\ input = << >>
  /\ \E i \in Inputs(focus) : input' = <<i>>

Given(name) == focus = name /\ input # << >>

-----------------------------------------------------------------------------

MCInit ==
  /\ Init /\ T!Init /\ P!Init /\ W!Init /\ C!Init
  /\ focus \in {"stream", "timelapse", "player", "page", "capture"} \cup Algorithms
  /\ input = << >>
  /\ focus # "timelapse" => worker = "loop"
  /\ focus # "capture" => luma = "running"
  /\ focus # "player" => ws = CHOOSE s \in Sockets : TRUE

\* Bound: errors, set clocks, ends and power cuts of the timelapse come with its first
\* UpsetFrames frames; what none of them disturbed goes on to TimelapseFrames, which
\* is enough for the IDR of a second hour.
Calm ==
  /\ upset = "none" /\ ~stop /\ task = "running"
  /\ \A h \in 0 .. MaxHour : files[h].state # "broken"

TimelapseBound == frames' <= UpsetFrames \/ Calm'

Moves ==
  /\ UNCHANGED <<focus, input>>
  /\ \/ focus = "stream" /\ Next /\ UNCHANGED <<timelapseVars, playerVars, pageVars, captureVars>>
     \/ /\ focus = "timelapse" /\ T!Next /\ TimelapseBound
        /\ UNCHANGED <<vars, playerVars, pageVars, captureVars>>
     \/ focus = "player" /\ P!Next /\ UNCHANGED <<vars, timelapseVars, pageVars, captureVars>>
     \/ focus = "page" /\ W!Next /\ UNCHANGED <<vars, timelapseVars, playerVars, captureVars>>
     \/ focus = "capture" /\ C!Next /\ UNCHANGED <<vars, timelapseVars, playerVars, pageVars>>

MCNext ==
  \/ Moves
  \/ /\ Choose
     /\ UNCHANGED <<focus, vars, timelapseVars, playerVars, pageVars, captureVars>>

\* Each behaviour is fair to the component it moves: the Fairness of that component.
MCSpec ==
  /\ MCInit /\ [][MCNext]_<<focus, input, vars, timelapseVars, playerVars, pageVars, captureVars>>
  /\ WF_timelapseVars(focus = "timelapse" /\ T!WorkerNext)
  /\ WF_timelapseVars(focus = "timelapse" /\ T!Receive)
  /\ WF_timelapseVars(focus = "timelapse" /\ T!TaskEnds)
  /\ WF_playerVars(focus = "player" /\ P!Timer)
  /\ \A s \in Sockets : WF_playerVars(focus = "player" /\ P!Resolves(s))
  /\ WF_pageVars(focus = "page" /\ W!Timer)
  /\ WF_captureVars(focus = "capture" /\ (C!Publish \/ C!LumaEnds))
  /\ WF_captureVars(focus = "capture" /\ C!SolveStep)
  /\ WF_captureVars(focus = "capture" /\ C!DetectStep)
  /\ SF_<<playerVars, pageVars>>(\/ focus = "player" /\ P!Opens /\ UNCHANGED pageVars
                                 \/ focus = "page" /\ W!OnOpen /\ UNCHANGED playerVars)

-----------------------------------------------------------------------------

\* The timelapse, as in its module.
TimelapseInv     == T!TimelapseInv
HourHasFile      == T!HourHasFile
SealedKept       == T!SealedKept
NoneWaitsForever == T!NoneWaitsForever

\* The capture and its frames, as in its module.
CaptureInv  == C!CaptureInv
CaptureLive == C!CaptureLive

\* The connections of the web page: the player's and the one for commands
\* (player.ts, ws.ts).
BrowserInv == P!PlayerInv /\ W!OneConnection

\* Both come back after whatever was lost, until the page goes.
Recovers ==
  /\ focus = "player" => P!Recovers
  /\ focus = "page" => W!Reconnects

\* From the ring buffer to the sample and its tables, the bytes of a frame stay
\* what they are and the tables say where; and the bitmap drawn over the picture is
\* written in its bounds (isp.rs:495-521, muxer.rs, osd.rs).
BytesExact ==
  /\ Given("nals") => H!NalsExact(input[1]) /\ H!ParamSetsLast(input[1], OldSets)
  /\ Given("pack") => H!PackWhole([i \in 1 .. input[1][1] |-> i], input[1][2], input[1][3])
  /\ Given("tables") => H!TablesExact(input[1])
  /\ Given("osd") => O!RegionFits(input[1][1]) /\ O!TextFits(input[1][2]) /\ O!GlyphsApart
=============================================================================
