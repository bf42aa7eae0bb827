------------------------------ MODULE Capture -------------------------------
(***************************************************************************)
(* The luma worker (crates/atometd/src/luma.rs), the star capture that a   *)
(* web client requests (web.rs:140-153) and solve_task makes (solve.rs),   *)
(* and the waiting of detection_task.  A watch channel keeps the newest    *)
(* frame; `unseen` says for which receiver it is new.                      *)
(***************************************************************************)
EXTENDS Naturals

CONSTANT EXTRACT_FRAMES  \* frames of one capture (100)

CaptureConstants == EXTRACT_FRAMES \in Nat \ {0}

VARIABLES
  luma,       \* the worker and its sender: "running" or "ended"
  unseen,     \* by receiver: the channel holds a frame it has not taken
  stopping,   \* the shutdown flag
  capture,    \* stack_capture
  solver,     \* where solve_task stands
  taken,      \* frames used by the extraction at hand
  detector,   \* where detection_task stands
  owed,       \* history: accepted requests not yet done with, up to 2
  published   \* history: frames published since the last accepted request

captureVars ==
  <<luma, unseen, stopping, capture, solver, taken, detector, owed, published>>

Receivers == {"solve", "detection"}

Init ==
  /\ luma \in {"running", "ended"}     \* SetFrameDepth may fail at once
  /\ unseen = [r \in Receivers |-> FALSE]
  /\ stopping = FALSE /\ capture = FALSE
  /\ solver = "top" /\ taken = 0 /\ detector = "top"
  /\ owed = 0 /\ published = 0

AtMost(n, limit) == IF n < limit THEN n ELSE limit

-----------------------------------------------------------------------------
(* The luma worker *)

Publish ==
  /\ luma = "running" /\ ~stopping
  /\ unseen' = [r \in Receivers |-> TRUE]
  /\ published' = AtMost(published + 1, EXTRACT_FRAMES)
  /\ UNCHANGED <<luma, stopping, capture, solver, taken, detector, owed>>

LumaEnds ==
  /\ luma = "running" /\ stopping
  /\ luma' = "ended"
  /\ UNCHANGED <<unseen, stopping, capture, solver, taken, detector, owed, published>>

\* What changed() finds: a frame, or else the end of the sender, or else it waits.
Ready(r)  == unseen[r]
Closed(r) == ~unseen[r] /\ luma = "ended"

TakeFrame(r) == unseen' = [unseen EXCEPT ![r] = FALSE]

-----------------------------------------------------------------------------
(* The client and the signal *)

\* Mutated form: the flag is stored without looking at it.
CompareAny == TRUE
CompareExchange == ~capture

Request ==
  /\ CompareExchange
  /\ capture' = TRUE
  /\ owed' = AtMost(owed + 1, 2)
  /\ published' = 0
  /\ UNCHANGED <<luma, unseen, stopping, solver, taken, detector>>

Shutdown ==
  /\ ~stopping /\ stopping' = TRUE
  /\ UNCHANGED <<luma, unseen, capture, solver, taken, detector, owed, published>>

-----------------------------------------------------------------------------
(* solve_task *)

SolveGoes(from, to) ==
  /\ solver = from /\ solver' = to
  /\ UNCHANGED <<luma, stopping, detector, published>>

Top ==
  /\ SolveGoes("top", IF stopping THEN "ended" ELSE "wait")
  /\ UNCHANGED <<unseen, capture, taken, owed>>

\* The three results of changed() within its 3 s.
Wait ==
  /\ \/ Ready("solve") /\ TakeFrame("solve") /\ SolveGoes("wait", "check")
     \/ Closed("solve") /\ UNCHANGED unseen /\ SolveGoes("wait", "ended")
     \/ /\ ~Ready("solve") /\ ~Closed("solve") /\ UNCHANGED unseen
        /\ SolveGoes("wait", "top")
  /\ UNCHANGED <<capture, taken, owed>>

Check ==
  /\ SolveGoes("check", IF capture THEN "extract" ELSE "top")
  /\ taken' = 0
  /\ UNCHANGED <<unseen, capture, owed>>

\* extract_stars: both loops look at the flag, then wait for a frame.
Extract ==
  /\ SolveGoes("extract", IF stopping THEN "solve" ELSE "frame")
  /\ UNCHANGED <<unseen, capture, taken, owed>>

\* wait_frame: a timeout or the end of the sender gives the capture up.
Frame ==
  /\ \/ /\ Ready("solve") /\ TakeFrame("solve")
        /\ taken' = taken + 1
        /\ SolveGoes("frame", IF taken' = EXTRACT_FRAMES THEN "solve" ELSE "extract")
     \/ ~Ready("solve") /\ UNCHANGED <<unseen, taken>> /\ SolveGoes("frame", "solve")
  /\ UNCHANGED <<capture, owed>>

\* Mutated form: a capture that was given up leaves the flag set.
FlagAfterSuccess == taken < EXTRACT_FRAMES
FlagAfter == FALSE

\* Filtering, solving and the messages, whatever was found; then the flag.
Solve ==
  /\ SolveGoes("solve", "top")
  /\ capture' = FlagAfter
  /\ owed' = IF FlagAfter THEN owed ELSE owed - 1
  /\ UNCHANGED <<unseen, taken>>

SolveStep == Top \/ Wait \/ Check \/ Extract \/ Frame \/ Solve

-----------------------------------------------------------------------------
(* detection_task, which waits without a timeout *)

DetectGoes(from, to) ==
  /\ detector = from /\ detector' = to
  /\ UNCHANGED <<luma, stopping, capture, solver, taken, owed, published>>

DetectStep ==
  \/ UNCHANGED unseen /\ stopping /\ DetectGoes("top", "ended")
  \/ UNCHANGED unseen /\ ~stopping /\ DetectGoes("top", "wait")
  \/ Ready("detection") /\ TakeFrame("detection") /\ DetectGoes("wait", "top")
  \/ Closed("detection") /\ UNCHANGED unseen /\ DetectGoes("wait", "ended")

Next ==
  \/ Publish \/ LumaEnds \/ Request \/ Shutdown \/ SolveStep \/ DetectStep

\* The camera delivers frames; the three workers are threads of their own.
Fairness ==
  /\ WF_captureVars(Publish) /\ WF_captureVars(LumaEnds)
  /\ WF_captureVars(SolveStep) /\ WF_captureVars(DetectStep)

Spec == Init /\ [][Next]_captureVars /\ Fairness

-----------------------------------------------------------------------------
(* Properties *)

Extracting == solver \in {"extract", "frame", "solve"}

TypeOK ==
  /\ luma \in {"running", "ended"} /\ unseen \in [Receivers -> BOOLEAN]
  /\ stopping \in BOOLEAN /\ capture \in BOOLEAN
  /\ solver \in {"top", "wait", "check", "extract", "frame", "solve", "ended"}
  /\ taken \in 0 .. EXTRACT_FRAMES /\ published \in 0 .. EXTRACT_FRAMES
  /\ detector \in {"top", "wait", "ended"} /\ owed \in 0 .. 2

\* Of the frames one capture votes over, all but one were published after the
\* request, and each counts once: the frame that is new when the request comes
\* (solve.rs:293) is the only one it can wrongly take.
FreshFrames == Extracting => taken <= published + 1

\* Each accepted request has a capture of its own, and every capture was
\* requested: the flag is read and cleared by one task and set by any client.
OneCaptureEach ==
  /\ owed = (IF capture THEN 1 ELSE 0)
  /\ Extracting => capture

\* A request is served by one capture, with frames of its own (web.rs:140-153,
\* solve.rs:97-300).
CaptureInv == TypeOK /\ FreshFrames /\ OneCaptureEach

\* A request does not block later ones for ever: the flag is cleared whatever
\* becomes of the capture (solve.rs:216), unless the task itself has ended.
CaptureEnds == capture ~> (~capture \/ solver = "ended")

\* Every worker ends after the shutdown flag, though detection_task waits for
\* frames without a timeout: the runtime waits for all three before it exits.
WorkersEnd == stopping ~> luma = "ended" /\ solver = "ended" /\ detector = "ended"

\* No request and no worker is left waiting for frames that will not come.
CaptureLive == CaptureEnds /\ WorkersEnd
=============================================================================
