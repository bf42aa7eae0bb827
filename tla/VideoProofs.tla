----------------------------- MODULE VideoProofs -----------------------------
(***************************************************************************)
(* The safety of the ways of a frame to those who wait for it, for every   *)
(* number of frames, clients, hours and sockets: each component's          *)
(* invariant holds in the behaviours of MCVideo; and the algorithms on the *)
(* bytes of a frame are right for every frame.  The proofs about the       *)
(* timelapse are in a module of their own.                                 *)
(***************************************************************************)
EXTENDS MCVideo, TLAPS, WellFoundedInduction, SequenceTheorems, FiniteSetTheorems

-----------------------------------------------------------------------------
(* The star capture *)

\* A frame that waits in the channel counts as if it were taken: of those and the
\* frames taken, at most one is older than the request.
FramesCounted ==
  C!Extracting => taken + (IF unseen["solve"] THEN 1 ELSE 0) <= published + 1

\* A capture that goes on lacks a frame.
NotComplete == solver \in {"extract", "frame"} => taken < EXTRACT_FRAMES

\* The inductive invariant.
CaptureIInv == C!TypeOK /\ C!OneCaptureEach /\ FramesCounted /\ NotComplete

-----------------------------------------------------------------------------

\* Nothing is requested or taken at the start.
LEMMA InitCaptureInv == ASSUME C!CaptureConstants PROVE C!Init => CaptureIInv
<1> SUFFICES ASSUME C!Init PROVE CaptureIInv
  OBVIOUS
<1>1. EXTRACT_FRAMES \in Nat /\ EXTRACT_FRAMES > 0
  BY DEF C!CaptureConstants
<1>2. unseen \in [C!Receivers -> BOOLEAN]
  BY Zenon DEF C!Init
<1>3. /\ luma \in {"running", "ended"} /\ solver = "top" /\ taken = 0 /\ detector = "top"
      /\ captures = 0 /\ published = 0
  BY DEF C!Init
<1>4. capture \in BOOLEAN /\ stopping \in BOOLEAN /\ ~capture
  BY Zenon DEF C!Init
<1>5. ~C!Extracting
  BY <1>3 DEF C!Extracting
<1>6. C!TypeOK
  BY <1>1, <1>2, <1>3, <1>4 DEF C!TypeOK
<1>7. C!OneCaptureEach /\ FramesCounted /\ NotComplete
  BY <1>3, <1>4, <1>5 DEF C!OneCaptureEach, FramesCounted, NotComplete
<1> QED BY <1>6, <1>7 DEF CaptureIInv

\* What C!TakeFrame does to the frames still to be taken.
LEMMA TakeFacts ==
  ASSUME C!TypeOK, NEW r \in C!Receivers, C!TakeFrame(r)
  PROVE  /\ unseen' \in [C!Receivers -> BOOLEAN] /\ ~unseen'[r]
         /\ \A q \in C!Receivers : q # r => unseen'[q] = unseen[q]
BY DEF C!TypeOK, C!TakeFrame

\* Where solve_task goes leaves the rest alone.
LEMMA SolveStepInv ==
  ASSUME C!CaptureConstants, CaptureIInv, C!SolveStep PROVE CaptureIInv'
<1> USE DEF CaptureIInv
<1>0. "solve" \in C!Receivers /\ EXTRACT_FRAMES \in Nat /\ EXTRACT_FRAMES > 0
  BY DEF C!Receivers, C!CaptureConstants
<1>1. CASE C!Top
  BY <1>1, SMT DEF C!Top, C!SolveGoes, C!TypeOK, C!OneCaptureEach, FramesCounted, NotComplete,
      C!Extracting
<1>2. CASE C!Wait
  <2>1. unseen' \in [C!Receivers -> BOOLEAN]
    BY <1>0, <1>2, TakeFacts DEF C!Wait, C!TypeOK
  <2>2. /\ solver = "wait" /\ solver' \in {"check", "top", "ended"}
        /\ UNCHANGED <<luma, stopping, capture, taken, detector, captures, published>>
    BY <1>2 DEF C!Wait, C!SolveGoes
  <2> QED BY <2>1, <2>2 DEF C!TypeOK, C!OneCaptureEach, FramesCounted, NotComplete, C!Extracting
<1>3. CASE C!Check
  <2>1. /\ solver = "check" /\ solver' = (IF capture THEN "extract" ELSE "top") /\ taken' = 0
        /\ UNCHANGED <<luma, unseen, stopping, capture, detector, captures, published>>
    BY <1>3 DEF C!Check, C!SolveGoes
  <2>2. published \in Nat
    BY DEF C!TypeOK
  <2> QED BY <1>0, <2>1, <2>2 DEF C!TypeOK, C!OneCaptureEach, FramesCounted, NotComplete,
      C!Extracting
<1>4. CASE C!Extract
  <2>1. /\ solver = "extract" /\ solver' \in {"solve", "frame"}
        /\ UNCHANGED <<luma, unseen, stopping, capture, taken, detector, captures, published>>
    BY <1>4 DEF C!Extract, C!SolveGoes
  <2> QED BY <2>1 DEF C!TypeOK, C!OneCaptureEach, FramesCounted, NotComplete, C!Extracting
<1>5. CASE C!Frame
  <2>1. /\ solver = "frame" /\ solver' \in {"solve", "extract"}
        /\ UNCHANGED <<luma, stopping, capture, detector, captures, published>>
    BY <1>5 DEF C!Frame, C!SolveGoes
  <2>2. CASE C!Ready("solve") /\ C!TakeFrame("solve") /\ taken' = taken + 1
             /\ solver' = (IF taken' = EXTRACT_FRAMES THEN "solve" ELSE "extract")
    <3>1. unseen' \in [C!Receivers -> BOOLEAN] /\ ~unseen'["solve"] /\ unseen["solve"]
      BY <1>0, <2>2, TakeFacts DEF C!Ready
    <3>2. taken < EXTRACT_FRAMES /\ taken \in Nat /\ taken + 1 <= published + 1
      BY <2>1, <3>1 DEF C!TypeOK, NotComplete, FramesCounted, C!Extracting
    <3>3. C!TypeOK' /\ C!OneCaptureEach'
      BY <1>0, <2>1, <2>2, <3>1, <3>2 DEF C!TypeOK, C!OneCaptureEach, C!Extracting
    <3>4. FramesCounted' /\ NotComplete'
      BY <1>0, <2>1, <2>2, <3>1, <3>2 DEF FramesCounted, NotComplete
    <3> QED BY <3>3, <3>4
  <2>3. CASE solver' = "solve" /\ UNCHANGED <<unseen, taken>>
    BY <2>1, <2>3 DEF C!TypeOK, C!OneCaptureEach, FramesCounted, NotComplete, C!Extracting
  <2> QED BY <1>5, <2>2, <2>3 DEF C!Frame, C!SolveGoes
<1>6. CASE C!Solve
  <2>1. /\ solver = "solve" /\ solver' = "top" /\ capture' = FALSE /\ captures' = captures - 1
        /\ UNCHANGED <<luma, unseen, stopping, taken, detector, published>>
    BY <1>6 DEF C!Solve, C!SolveGoes, C!FlagAfter
  <2>2. captures = 1
    BY <2>1 DEF C!OneCaptureEach, C!Extracting
  <2>3. ~capture' /\ capture' \in BOOLEAN /\ captures' = 0
    <3>1. captures' = 0
      BY <2>1, <2>2
    <3> QED BY <2>1, <3>1, Zenon
  <2>4. ~C!Extracting' /\ solver' \notin {"extract", "frame"}
    BY <2>1 DEF C!Extracting
  <2>5. C!TypeOK'
    BY <2>1, <2>3 DEF C!TypeOK
  <2>6. C!OneCaptureEach' /\ FramesCounted' /\ NotComplete'
    BY <2>3, <2>4 DEF C!OneCaptureEach, FramesCounted, NotComplete
  <2> QED BY <2>5, <2>6
<1> QED BY <1>1, <1>2, <1>3, <1>4, <1>5, <1>6 DEF C!SolveStep

\* Every step keeps the invariant.
LEMMA CaptureStep ==
  ASSUME C!CaptureConstants, CaptureIInv, [C!Next]_captureVars PROVE CaptureIInv'
<1> USE DEF CaptureIInv
<1>0. "solve" \in C!Receivers /\ EXTRACT_FRAMES \in Nat /\ EXTRACT_FRAMES > 0
  BY DEF C!Receivers, C!CaptureConstants
<1>1. CASE C!Publish
  <2>1. /\ unseen' \in [C!Receivers -> BOOLEAN] /\ unseen'["solve"]
        /\ published' = (IF published + 1 < EXTRACT_FRAMES THEN published + 1 ELSE EXTRACT_FRAMES)
        /\ UNCHANGED <<luma, stopping, capture, solver, taken, detector, captures>>
    BY <1>0, <1>1 DEF C!Publish, C!AtMost
  <2>2. /\ published \in 0 .. EXTRACT_FRAMES /\ taken \in 0 .. EXTRACT_FRAMES
    BY DEF C!TypeOK
  <2>3. C!TypeOK' /\ C!OneCaptureEach' /\ NotComplete'
    BY <1>0, <2>1, <2>2 DEF C!TypeOK, C!OneCaptureEach, NotComplete, C!Extracting
  <2>4. C!Extracting => taken <= published + 1
    BY <2>2 DEF FramesCounted
  <2>5. FramesCounted'
    BY <1>0, <2>1, <2>2, <2>4 DEF FramesCounted, C!Extracting
  <2> QED BY <2>3, <2>5
<1>2. CASE C!LumaEnds
  BY <1>2 DEF C!LumaEnds, C!TypeOK, C!OneCaptureEach, FramesCounted, NotComplete, C!Extracting
<1>3. CASE C!Request
  <2>1. /\ ~capture /\ capture' = TRUE
        /\ captures' = (IF captures + 1 < 2 THEN captures + 1 ELSE 2)
        /\ published' = 0 /\ UNCHANGED <<luma, unseen, stopping, solver, taken, detector>>
    BY <1>3 DEF C!Request, C!CompareExchange, C!AtMost
  <2>2. captures = 0 /\ ~C!Extracting
    BY <2>1 DEF C!OneCaptureEach
  <2> QED BY <1>0, <2>1, <2>2 DEF C!TypeOK, C!OneCaptureEach, FramesCounted, NotComplete,
      C!Extracting
<1>4. CASE C!Shutdown
  BY <1>4 DEF C!Shutdown, C!TypeOK, C!OneCaptureEach, FramesCounted, NotComplete, C!Extracting
<1>5. CASE C!SolveStep
  BY <1>5, SolveStepInv
<1>6. CASE C!DetectStep
  <2>1. /\ unseen' \in [C!Receivers -> BOOLEAN] /\ unseen'["solve"] = unseen["solve"]
    BY <1>0, <1>6, TakeFacts DEF C!DetectStep, C!TypeOK, C!Receivers
  <2>2. /\ detector' \in {"top", "wait", "ended"}
        /\ UNCHANGED <<luma, stopping, capture, solver, taken, captures, published>>
    BY <1>6 DEF C!DetectStep, C!DetectGoes
  <2> QED BY <2>1, <2>2 DEF C!TypeOK, C!OneCaptureEach, FramesCounted, NotComplete, C!Extracting
<1>7. CASE UNCHANGED captureVars
  BY <1>7 DEF captureVars, C!TypeOK, C!OneCaptureEach, FramesCounted, NotComplete, C!Extracting
<1> QED BY <1>1, <1>2, <1>3, <1>4, <1>5, <1>6, <1>7 DEF C!Next
-----------------------------------------------------------------------------
(* The player and the page *)

\* While WebRTC plays there is no WebSocket, so that no late answer of go2rtc and no
\* second start can take the peer connection away.
ActiveIsAlone ==
  ~stopped /\ ~lateClose /\ pcActive => pc = "live" /\ ws = NoSocket

PlayerIInv == P!PlayerInv /\ ActiveIsAlone

\* What close() and the lost counter of a cleared timer leave.
LEMMA ClosingFacts ==
  ASSUME P!TypeOK
  PROVE  /\ P!Closing \in [Sockets -> {"none", "connecting", "open", "closing"}]
         /\ \A s \in Sockets : P!Closing[s] = IF s = ws THEN "closing" ELSE sockets[s]
         /\ P!Cleared \in 0 .. MaxTimers
         /\ \A n \in 0 .. MaxTimers : P!Set(n) \in 1 .. MaxTimers
BY VideoConstants DEF P!TypeOK, P!Closing, P!Cleared, P!Set


\* The player after mount.
LEMMA InitPlayerInv == P!Init => PlayerIInv
<1> SUFFICES ASSUME P!Init PROVE PlayerIInv
  OBVIOUS
<1>1. /\ pc = "none" /\ timers = 0 /\ ws \in Sockets /\ mode = "none"
      /\ view = "connecting"
      /\ sockets = [s \in Sockets |-> IF s = ws THEN "connecting" ELSE "none"]
  BY DEF P!Init
<1>2. /\ stopped \in BOOLEAN /\ pcActive \in BOOLEAN /\ reconnectTid \in BOOLEAN
      /\ fallback \in BOOLEAN /\ lateClose \in BOOLEAN
      /\ ~stopped /\ ~pcActive /\ ~reconnectTid
  BY Zenon DEF P!Init
<1> QED BY <1>1, <1>2, VideoConstants DEF PlayerIInv, P!PlayerInv, P!TypeOK, P!OneStream,
    P!NotStuck, P!PlayingIsReal, P!UnmountedIsQuiet, ActiveIsAlone, P!Live

LEMMA PlayerStep == PlayerIInv /\ [P!Next]_playerVars => PlayerIInv'
<1> SUFFICES ASSUME PlayerIInv, [P!Next]_playerVars PROVE PlayerIInv'
  OBVIOUS
<1> USE VideoConstants DEF PlayerIInv, P!PlayerInv
<1>1. CASE P!Unmount
  BY <1>1, ClosingFacts DEF P!Unmount, P!view, P!TypeOK, P!OneStream, P!NotStuck,
      P!PlayingIsReal, P!UnmountedIsQuiet, ActiveIsAlone, P!Live
<1>2. CASE P!PcConnected
  BY <1>2, ClosingFacts DEF P!PcConnected, P!view, P!TypeOK, P!OneStream, P!NotStuck,
      P!PlayingIsReal, P!UnmountedIsQuiet, ActiveIsAlone, P!Live
<1>3. CASE P!PcLoaded
  BY <1>3, ClosingFacts DEF P!PcLoaded, P!view, P!TypeOK, P!OneStream, P!NotStuck,
      P!PlayingIsReal, P!UnmountedIsQuiet, ActiveIsAlone, P!Live
<1>4. CASE P!PcFails
  <2>1. pcActive' = FALSE /\ reconnectTid' = TRUE /\ view' = "error" /\ mode' = "none"
    BY <1>4, Zenon DEF P!PcFails, P!ActiveAfterFailure
  <2>2. ~pcActive' /\ pcActive' \in BOOLEAN /\ reconnectTid' \in BOOLEAN
    BY <2>1, Zenon
  <2>3. pc \in {"connecting", "loading", "live"} /\ pc' = "none"
    BY <1>4 DEF P!PcFails
  <2>4. UNCHANGED <<stopped, ws, sockets, fallback, lateClose>>
    BY <1>4 DEF P!PcFails
  <2>5. timers' \in 1 .. MaxTimers
    BY <1>4, ClosingFacts DEF P!PcFails
  <2>6. P!TypeOK'
    BY <2>1, <2>2, <2>3, <2>4, <2>5 DEF P!TypeOK
  <2>7. P!OneStream' /\ P!UnmountedIsQuiet' /\ P!NotStuck'
    BY <2>3, <2>4, <2>5 DEF P!OneStream, P!Live, P!UnmountedIsQuiet, P!NotStuck
  <2>8. P!PlayingIsReal' /\ ActiveIsAlone'
    BY <2>1, <2>2 DEF P!PlayingIsReal, ActiveIsAlone
  <2> QED BY <2>6, <2>7, <2>8
<1>5. CASE P!Timer
  <2>1. /\ timers > 0 /\ timers' = timers - 1 /\ reconnectTid' = FALSE
        /\ UNCHANGED <<stopped, pc, pcActive, fallback, mode, lateClose>>
    BY <1>5 DEF P!Timer
  <2>2. ~reconnectTid' /\ reconnectTid' \in BOOLEAN /\ timers' \in 0 .. MaxTimers
    <3>1. ~reconnectTid' /\ reconnectTid' \in BOOLEAN
      BY <2>1, Zenon
    <3> QED BY <2>1, <3>1 DEF P!TypeOK
  <2>3. CASE P!Busy /\ UNCHANGED <<ws, sockets, view>>
    BY <2>1, <2>2, <2>3 DEF P!Busy, P!TypeOK, P!OneStream, P!NotStuck, P!PlayingIsReal,
        P!UnmountedIsQuiet, ActiveIsAlone, P!Live
  <2>4. CASE ~P!Busy /\ P!NewSocket(sockets) /\ view' = "connecting"
    <3>1. PICK s \in Sockets :
            sockets[s] = "none" /\ ws' = s /\ sockets' = [sockets EXCEPT ![s] = "connecting"]
      BY <2>4 DEF P!NewSocket
    <3>2. ~stopped /\ ws = NoSocket /\ ~pcActive
      BY <2>4 DEF P!Busy
    <3> QED BY <2>1, <2>2, <2>4, <3>1, <3>2 DEF P!TypeOK, P!OneStream, P!NotStuck,
        P!PlayingIsReal, P!UnmountedIsQuiet, ActiveIsAlone, P!Live
  <2> QED BY <1>5, <2>3, <2>4 DEF P!Timer
<1>6. ASSUME NEW s \in Sockets, P!OnOpen(s) PROVE PlayerIInv'
  BY <1>6, ClosingFacts DEF P!OnOpen, P!view, P!TypeOK, P!OneStream, P!NotStuck,
      P!PlayingIsReal, P!UnmountedIsQuiet, ActiveIsAlone, P!Live
<1>7. ASSUME NEW s \in Sockets, P!OnClose(s) PROVE PlayerIInv'
  <2>1. /\ sockets' = [sockets EXCEPT ![s] = "none"] /\ ws' = NoSocket
        /\ UNCHANGED <<stopped, pc, pcActive, fallback>>
    BY <1>7 DEF P!OnClose
  <2>2. lateClose' \in BOOLEAN /\ (~lateClose' => ~lateClose /\ ws \in {s, NoSocket})
    <3>1. lateClose' = (lateClose \/ ws \notin {s, NoSocket})
      BY <1>7 DEF P!OnClose
    <3> QED BY <3>1, Zenon
  <2>3. CASE P!Retry
    <3>1. mode' = "none" /\ view' = "error" /\ timers' = P!Set(timers) /\ reconnectTid' = TRUE
      BY <1>7, <2>3 DEF P!OnClose
    <3>2. reconnectTid' \in BOOLEAN
      BY <3>1, Zenon
    <3>3. timers' \in 1 .. MaxTimers
      BY <3>1, ClosingFacts DEF P!TypeOK
    <3>4. ~stopped /\ ~pcActive
      BY <2>3 DEF P!Retry
    <3> QED BY <2>1, <2>2, <3>1, <3>2, <3>3, <3>4 DEF P!TypeOK, P!OneStream, P!NotStuck,
        P!PlayingIsReal, P!UnmountedIsQuiet, ActiveIsAlone, P!Live
  <2>4. CASE ~P!Retry
    <3>1. UNCHANGED <<mode, view, timers, reconnectTid>>
      BY <1>7, <2>4 DEF P!OnClose, P!view
    <3>2. stopped \/ pcActive
      BY <2>4 DEF P!Retry
    <3> QED BY <2>1, <2>2, <3>1, <3>2 DEF P!TypeOK, P!OneStream, P!NotStuck, P!PlayingIsReal,
        P!UnmountedIsQuiet, ActiveIsAlone, P!Live
  <2> QED BY <2>3, <2>4
<1>8. ASSUME NEW s \in Sockets, P!MseAnswer(s) PROVE PlayerIInv'
  BY <1>8, ClosingFacts DEF P!MseAnswer, P!view, P!TypeOK, P!OneStream, P!NotStuck,
      P!PlayingIsReal, P!UnmountedIsQuiet, ActiveIsAlone, P!Live
<1>9. ASSUME NEW s \in Sockets, P!MseError(s) PROVE PlayerIInv'
  BY <1>9, ClosingFacts DEF P!MseError, P!view, P!TypeOK, P!OneStream, P!NotStuck,
      P!PlayingIsReal, P!UnmountedIsQuiet, ActiveIsAlone, P!Live
<1>10. ASSUME NEW s \in Sockets, P!OfferError(s) PROVE PlayerIInv'
  BY <1>10, ClosingFacts DEF P!OfferError, P!view, P!TypeOK, P!OneStream, P!NotStuck,
      P!PlayingIsReal, P!UnmountedIsQuiet, ActiveIsAlone, P!Live
<1>11. CASE UNCHANGED playerVars
  BY <1>11 DEF playerVars, P!TypeOK, P!OneStream, P!NotStuck, P!PlayingIsReal,
      P!UnmountedIsQuiet, ActiveIsAlone, P!Live
<1> QED BY <1>1, <1>2, <1>3, <1>4, <1>5, <1>6, <1>7, <1>8, <1>9, <1>10, <1>11 DEF P!Next,
    P!SocketEvent

\* The page's connection.
LEMMA PageStep == W!OneConnection /\ [W!Next]_pageVars => W!OneConnection'
<1> SUFFICES ASSUME W!OneConnection, [W!Next]_pageVars PROVE W!OneConnection'
  OBVIOUS
<1>1. CASE W!OnOpen
  BY <1>1, Zenon DEF W!OnOpen, W!OneConnection
<1>2. CASE W!OnClose
  <2>1. CASE page_ws # "none" /\ UNCHANGED old
    BY <1>2, <2>1 DEF W!OnClose, W!OneConnection
  <2>2. CASE old /\ old' = FALSE
    BY <1>2, <2>2, Zenon DEF W!OnClose, W!OneConnection
  <2> QED BY <1>2, <2>1, <2>2 DEF W!OnClose
<1>3. CASE W!Timer
  BY <1>3, Zenon DEF W!Timer, W!OneConnection
<1>4. CASE W!Disconnect
  BY <1>4, Zenon DEF W!Disconnect, W!OneConnection
<1>5. CASE UNCHANGED pageVars
  BY <1>5, Zenon DEF pageVars, W!OneConnection
<1> QED BY <1>1, <1>2, <1>3, <1>4, <1>5 DEF W!Next

-----------------------------------------------------------------------------
(* The stream *)

Client == [id : Ids, initialized : BOOLEAN]

\* Induction over a set of numbers.
LEMMA Counting ==
  ASSUME NEW S \in SUBSET Nat, 0 \in S, \A n \in S : n + 1 \in S PROVE \A n \in Nat : n \in S
<1> DEFINE M == {n \in Nat : n \notin S}
<1>1. SUFFICES ASSUME M # {} PROVE FALSE
  OBVIOUS
<1>2. PICK x \in M : \A y \in M : <<y, x>> \notin OpToRel(<, Nat)
  BY <1>1, WFMin, NatLessThanWellFounded
<1>3. x \in Nat /\ x \notin S /\ \A y \in M : ~(y < x)
  BY <1>2 DEF OpToRel
<1>4. x # 0 /\ x - 1 \in Nat /\ x - 1 < x /\ (x - 1) + 1 = x
  BY <1>3
<1>5. x - 1 \in S
  BY <1>3, <1>4
<1> QED BY <1>3, <1>4, <1>5

\* What is left after one removal.
LEMMA RemoveFacts ==
  ASSUME NEW E, NEW s \in Seq(E), NEW i \in 1 .. Len(s)
  PROVE  /\ RemoveAt(s, i) \in Seq(E) /\ Len(RemoveAt(s, i)) = Len(s) - 1
         /\ \A k \in 1 .. Len(s) - 1 :
              RemoveAt(s, i)[k] = IF k < i THEN s[k] ELSE s[k + 1]
<1> DEFINE a == SubSeq(s, 1, i - 1)
           b == SubSeq(s, i + 1, Len(s))
<1>1. Len(s) \in Nat /\ i \in Nat /\ i >= 1 /\ i <= Len(s)
  OBVIOUS
<1>2. /\ a \in Seq(E) /\ Len(a) = i - 1
      /\ \A k \in 1 .. i - 1 : a[k] = s[k]
  BY <1>1
<1>3. /\ b \in Seq(E) /\ Len(b) = Len(s) - i
      /\ \A k \in 1 .. Len(s) - i : b[k] = s[i + k]
  BY <1>1
<1> HIDE DEF a, b
<1>4. /\ a \o b \in Seq(E) /\ Len(a \o b) = Len(s) - 1
      /\ \A k \in 1 .. Len(s) - 1 :
           (a \o b)[k] = IF k <= i - 1 THEN a[k] ELSE b[k - (i - 1)]
  <2>1. /\ a \o b \in Seq(E) /\ Len(a \o b) = Len(a) + Len(b)
        /\ \A k \in 1 .. Len(a) + Len(b) : (a \o b)[k] = IF k <= Len(a) THEN a[k] ELSE b[k - Len(a)]
    BY <1>2, <1>3, ConcatProperties, Zenon
  <2> QED BY <1>1, <1>2, <1>3, <2>1
<1>5. RemoveAt(s, i) = a \o b
  BY DEF RemoveAt, a, b
<1>6. ASSUME NEW k \in 1 .. Len(s) - 1
      PROVE  (a \o b)[k] = IF k < i THEN s[k] ELSE s[k + 1]
  <2>1. CASE k < i
    BY <1>1, <1>2, <1>4, <2>1
  <2>2. CASE k >= i
    <3>1. k - (i - 1) \in 1 .. Len(s) - i /\ i + (k - (i - 1)) = k + 1
      BY <1>1, <2>2
    <3>2. (a \o b)[k] = b[k - (i - 1)] /\ b[k - (i - 1)] = s[i + (k - (i - 1))]
      BY <1>1, <1>3, <1>4, <2>2, <3>1
    <3> QED BY <3>1, <3>2, <2>2, <1>1
  <2>3. k \in Int /\ i \in Int
    BY <1>1
  <2>4. k < i \/ k >= i
    BY <2>3
  <2> QED BY <2>1, <2>2, <2>4
<1> QED BY <1>4, <1>5, <1>6

\* The list after the first k removals.
After(vec, order, g, n) ==
  g = [k \in 0 .. n |-> IF k = 0 THEN [ok |-> TRUE, items |-> vec]
                        ELSE VecRemove(g[k - 1], order[k])]

LEMMA AfterStart ==
  ASSUME NEW vec, NEW order, NEW g, NEW n \in Nat, After(vec, order, g, n)
  PROVE  g[0] = [ok |-> TRUE, items |-> vec]
<1>1. \A j \in 0 .. n : g[j] = IF j = 0 THEN [ok |-> TRUE, items |-> vec]
                               ELSE VecRemove(g[j - 1], order[j])
  BY Zenon DEF After
<1>2. 0 \in 0 .. n
  OBVIOUS
<1> QED BY <1>1, <1>2

LEMMA AfterNext ==
  ASSUME NEW vec, NEW order, NEW g, NEW n \in Nat, After(vec, order, g, n)
  PROVE  \A k \in Nat : k < n => g[k + 1] = VecRemove(g[k], order[k + 1])
<1>1. \A j \in 0 .. n : g[j] = IF j = 0 THEN [ok |-> TRUE, items |-> vec]
                               ELSE VecRemove(g[j - 1], order[j])
  BY Zenon DEF After
<1>2. ASSUME NEW k \in Nat, k < n PROVE g[k + 1] = VecRemove(g[k], order[k + 1])
  <2>1. k + 1 \in 0 .. n /\ k + 1 # 0 /\ (k + 1) - 1 = k
    BY <1>2
  <2> QED BY <1>1, <2>1
<1> QED BY <1>2

LEMMA RemovalsRun ==
  ASSUME NEW vec, NEW order, Len(order) \in Nat
  PROVE  \E g : After(vec, order, g, Len(order)) /\ Removals(vec, order) = g[Len(order)]
<1> DEFINE S == {n \in Nat : \E g : After(vec, order, g, n)}
<1>1. 0 \in S
  <2> DEFINE g == [k \in 0 .. 0 |-> [ok |-> TRUE, items |-> vec]]
  <2>1. After(vec, order, g, 0)
    BY DEF After
  <2> QED BY <2>1
<1>2. ASSUME NEW n \in S PROVE n + 1 \in S
  <2>1. PICK g : After(vec, order, g, n)
    OBVIOUS
  <2> DEFINE h == [k \in 0 .. n + 1 |-> IF k = n + 1 THEN VecRemove(g[n], order[n + 1]) ELSE g[k]]
  <2>2. n \in Nat
    OBVIOUS
  <2>3. ASSUME NEW k \in 0 .. n + 1
        PROVE  h[k] = IF k = 0 THEN [ok |-> TRUE, items |-> vec] ELSE VecRemove(h[k - 1], order[k])
    <3>1. CASE k = 0
      <4>1. g[0] = [ok |-> TRUE, items |-> vec]
        BY <2>1, <2>2 DEF After
      <4> QED BY <3>1, <4>1, <2>2
    <3>2. CASE k # 0 /\ k # n + 1
      <4>1. k \in 1 .. n /\ k - 1 \in 0 .. n
        BY <3>2, <2>2
      <4>2. g[k] = VecRemove(g[k - 1], order[k])
        <5>1. \A j \in 0 .. n : g[j] = IF j = 0 THEN [ok |-> TRUE, items |-> vec]
                                       ELSE VecRemove(g[j - 1], order[j])
          BY <2>1, Zenon DEF After
        <5> QED BY <4>1, <5>1
      <4>3. h[k] = g[k] /\ h[k - 1] = g[k - 1]
        BY <4>1, <2>2
      <4> QED BY <4>2, <4>3, <3>2
    <3>3. CASE k = n + 1
      <4>1. h[k - 1] = g[n] /\ k # 0
        BY <3>3, <2>2
      <4> QED BY <4>1, <3>3
    <3> QED BY <3>1, <3>2, <3>3
  <2>4. h = [k \in 0 .. n + 1 |-> h[k]]
    OBVIOUS
  <2> HIDE DEF h
  <2>5. After(vec, order, h, n + 1)
    BY <2>3, <2>4 DEF After
  <2> QED BY <2>2, <2>5
<1>3. Len(order) \in S
  <2> HIDE DEF S
  <2>1. S \in SUBSET Nat
    BY DEF S
  <2> QED BY <1>1, <1>2, <2>1, Counting
<1>4. \E g : After(vec, order, g, Len(order))
  BY <1>3
<1> DEFINE c == CHOOSE g : g = [k \in 0 .. Len(order) |->
                                 IF k = 0 THEN [ok |-> TRUE, items |-> vec]
                                 ELSE VecRemove(g[k - 1], order[k])]
<1>5. After(vec, order, c, Len(order))
  BY <1>4 DEF After
<1>6. Removals(vec, order) = c[Len(order)]
  BY DEF Removals
<1> QED BY <1>5, <1>6

In(x, s) == \E i \in DOMAIN s : s[i] = x

\* No client is listed twice.
Distinct(s) == \A i, j \in DOMAIN s : s[i].id = s[j].id => i = j

\* t lists the clients of s but the one at p, and those before it where they stood.
OneLess(t, s, p) ==
  /\ t \in Seq(Client) /\ Distinct(t) /\ Len(t) = Len(s) - 1
  /\ \A x : In(x, t) <=> In(x, s) /\ x # s[p]
  /\ \A i \in DOMAIN s : i < p => i \in DOMAIN t /\ t[i] = s[i]

\* One removal takes out one client.
LEMMA RemoveOne ==
  ASSUME NEW s \in Seq(Client), Distinct(s), NEW p \in 1 .. Len(s), NEW t, t = RemoveAt(s, p)
  PROVE  OneLess(t, s, p)
<1>1. /\ t \in Seq(Client) /\ Len(t) = Len(s) - 1 /\ Len(s) \in Nat
      /\ DOMAIN t = 1 .. Len(s) - 1 /\ DOMAIN s = 1 .. Len(s)
      /\ \A k \in 1 .. Len(s) - 1 : t[k] = IF k < p THEN s[k] ELSE s[k + 1]
  <2>1. /\ t \in Seq(Client) /\ Len(t) = Len(s) - 1
        /\ \A k \in 1 .. Len(s) - 1 : t[k] = IF k < p THEN s[k] ELSE s[k + 1]
    BY RemoveFacts
  <2> QED BY <2>1
<1>2. Distinct(t)
  <2>1. SUFFICES ASSUME NEW i \in DOMAIN t, NEW j \in DOMAIN t, t[i].id = t[j].id PROVE i = j
    BY DEF Distinct
  <2> DEFINE a == IF i < p THEN i ELSE i + 1
             b == IF j < p THEN j ELSE j + 1
  <2>2. a \in DOMAIN s /\ b \in DOMAIN s /\ t[i] = s[a] /\ t[j] = s[b]
    BY <1>1
  <2>3. a = b
    BY <2>1, <2>2 DEF Distinct
  <2> QED BY <1>1, <2>3
<1>3. ASSUME NEW x PROVE In(x, t) <=> In(x, s) /\ x # s[p]
  <2>1. ASSUME NEW i \in DOMAIN t, t[i] = x PROVE In(x, s) /\ x # s[p]
    <3> DEFINE a == IF i < p THEN i ELSE i + 1
    <3>1. a \in DOMAIN s /\ a # p /\ s[a] = x
      BY <1>1, <2>1
    <3> HIDE DEF a
    <3>2. p \in DOMAIN s
      BY <1>1
    <3> QED BY <3>1, <3>2 DEF In, Distinct
  <2>2. ASSUME NEW i \in DOMAIN s, s[i] = x, x # s[p] PROVE In(x, t)
    <3> DEFINE a == IF i < p THEN i ELSE i - 1
    <3>1. i # p /\ i \in 1 .. Len(s)
      BY <1>1, <2>2
    <3>2. a \in DOMAIN t /\ t[a] = x
      BY <1>1, <2>2, <3>1
    <3> QED BY <3>2 DEF In
  <2> QED BY <2>1, <2>2 DEF In
<1>4. \A i \in DOMAIN s : i < p => i \in DOMAIN t /\ t[i] = s[i]
  BY <1>1
<1> QED BY <1>1, <1>2, <1>3, <1>4 DEF OneLess

Vecs == [ok : BOOLEAN, items : Seq(Client)]

\* Vec::remove in range, and its panic.
LEMMA VecRemoveFacts ==
  ASSUME NEW r \in Vecs, NEW i \in Nat \ {0}
  PROVE  /\ VecRemove(r, i) \in Vecs
         /\ r.ok /\ i <= Len(r.items) =>
              VecRemove(r, i).ok /\ VecRemove(r, i).items = RemoveAt(r.items, i)
         /\ ~(r.ok /\ i <= Len(r.items)) =>
              ~VecRemove(r, i).ok /\ VecRemove(r, i).items = r.items
<1>1. r.items \in Seq(Client) /\ r = [ok |-> r.ok, items |-> r.items] /\ r.ok \in BOOLEAN
  BY DEF Vecs
<1>2. CASE r.ok /\ i <= Len(r.items)
  <2>1. RemoveAt(r.items, i) \in Seq(Client)
    BY <1>1, <1>2, RemoveFacts
  <2>2. VecRemove(r, i) = [r EXCEPT !.items = RemoveAt(r.items, i)]
    BY <1>2 DEF VecRemove
  <2> QED BY <1>1, <1>2, <2>1, <2>2 DEF Vecs
<1>3. CASE ~(r.ok /\ i <= Len(r.items))
  <2>1. VecRemove(r, i) = [r EXCEPT !.ok = FALSE]
    BY <1>3 DEF VecRemove
  <2>2. VecRemove(r, i) = [ok |-> FALSE, items |-> r.items]
    BY <1>1, <2>1
  <2> QED BY <1>1, <1>3, <2>2 DEF Vecs
<1> QED BY <1>2, <1>3

\* The order in which Removed takes the indices out.
LEMMA ReverseFacts ==
  ASSUME NEW closed, Len(closed) \in Nat, \A j \in 1 .. Len(closed) : closed[j] \in Nat \ {0}
  PROVE  /\ Len(Reverse(closed)) = Len(closed)
         /\ \A j \in 1 .. Len(closed) :
              /\ Reverse(closed)[j] = closed[Len(closed) - j + 1]
              /\ Reverse(closed)[j] \in Nat \ {0}
<1>1. Reverse(closed) = [i \in 1 .. Len(closed) |-> closed[(Len(closed) - i) + 1]]
  BY DEF Reverse
<1>2. \A i \in 1 .. Len(closed) : (Len(closed) - i) + 1 \in 1 .. Len(closed)
  OBVIOUS
<1>3. Reverse(closed) \in Seq(Nat \ {0})
  BY <1>1, <1>2
<1> QED BY <1>1, <1>2, <1>3

\* What the removals did so far, in whatever order: some clients are gone.
Reduced(r, vec) ==
  r \in Vecs /\ Distinct(r.items) /\ \A x : In(x, r.items) => In(x, vec)

LEMMA StepReduces ==
  ASSUME NEW vec, NEW r, Reduced(r, vec), NEW i \in Nat \ {0}
  PROVE  Reduced(VecRemove(r, i), vec)
<1>1. r \in Vecs /\ r.items \in Seq(Client)
  BY DEF Reduced, Vecs
<1>2. CASE r.ok /\ i <= Len(r.items)
  <2>1. VecRemove(r, i) \in Vecs /\ VecRemove(r, i).items = RemoveAt(r.items, i)
    BY <1>1, <1>2, VecRemoveFacts
  <2>2. i \in 1 .. Len(r.items)
    BY <1>1, <1>2
  <2>3. PICK t : t = RemoveAt(r.items, i)
    OBVIOUS
  <2>4. Distinct(t) /\ \A x : In(x, t) => In(x, r.items)
    BY <1>1, <2>2, <2>3, RemoveOne DEF Reduced, OneLess
  <2> QED BY <2>1, <2>3, <2>4 DEF Reduced
<1>3. CASE ~(r.ok /\ i <= Len(r.items))
  <2>1. VecRemove(r, i) \in Vecs /\ VecRemove(r, i).items = r.items
    BY <1>1, <1>3, VecRemoveFacts
  <2> QED BY <2>1 DEF Reduced
<1> QED BY <1>2, <1>3

LEMMA RemovedReduces ==
  ASSUME NEW vec \in Seq(Client), Distinct(vec), NEW closed, Len(closed) \in Nat,
         \A j \in 1 .. Len(closed) : closed[j] \in Nat \ {0}
  PROVE  Reduced(Removed(vec, closed), vec)
<1>o. PICK order : order = Reverse(closed)
  OBVIOUS
<1>n. PICK n \in Nat : n = Len(closed)
  OBVIOUS
<1>1. Len(order) = n /\ \A j \in 1 .. n : order[j] \in Nat \ {0}
  BY <1>o, <1>n, ReverseFacts
<1>2. PICK g : After(vec, order, g, n) /\ Removals(vec, order) = g[n]
  BY <1>1, <1>n, RemovalsRun
<1> DEFINE S == {k \in Nat : k <= n => Reduced(g[k], vec)}
<1>3. 0 \in S
  <2>1. g[0] = [ok |-> TRUE, items |-> vec]
    BY <1>2, AfterStart
  <2>2. [ok |-> TRUE, items |-> vec] \in Vecs
    BY DEF Vecs
  <2>3. Reduced([ok |-> TRUE, items |-> vec], vec)
    BY <2>2 DEF Reduced
  <2> QED BY <2>1, <2>3
<1>4. ASSUME NEW k \in S PROVE k + 1 \in S
  <2>1. SUFFICES ASSUME k + 1 <= n PROVE Reduced(g[k + 1], vec)
    OBVIOUS
  <2>2. k < n /\ k \in Nat /\ k + 1 \in 1 .. n /\ k <= n
    BY <2>1
  <2>4. g[k + 1] = VecRemove(g[k], order[k + 1])
    BY <1>2, <2>2, AfterNext
  <2>5. Reduced(g[k], vec) /\ order[k + 1] \in Nat \ {0}
    BY <1>1, <2>2
  <2> QED BY <2>4, <2>5, StepReduces
<1>5. n \in S
  <2>1. S \in SUBSET Nat
    OBVIOUS
  <2> HIDE DEF S
  <2> QED BY <1>3, <1>4, <2>1, Counting
<1> QED BY <1>o, <1>n, <1>2, <1>5 DEF Removed

\* What the removals from the back did so far when the indices ascend: the clients at the
\* indices taken are gone, those before the last of them stand where they stood.
ReducedExactly(r, vec, order, k) ==
  /\ r \in Vecs /\ r.ok /\ Distinct(r.items)
  /\ \A i \in 1 .. Len(vec) : (k = 0 \/ i < order[k]) =>
       i <= Len(r.items) /\ r.items[i] = vec[i]
  /\ \A x : In(x, r.items) <=>
       \E j \in 1 .. Len(vec) : x = vec[j] /\ \A m \in 1 .. k : order[m] # j

LEMMA StepReducesExactly ==
  ASSUME NEW vec \in Seq(Client), Distinct(vec), NEW order, NEW k \in Nat,
         NEW r, ReducedExactly(r, vec, order, k), order[k + 1] \in 1 .. Len(vec),
         k # 0 => order[k] \in 1 .. Len(vec) /\ order[k + 1] < order[k]
  PROVE  ReducedExactly(VecRemove(r, order[k + 1]), vec, order, k + 1)
<1>p. PICK p : p = order[k + 1]
  OBVIOUS
<1>0. p \in 1 .. Len(vec) /\ p \in Nat \ {0} /\ Len(vec) \in Nat /\ DOMAIN vec = 1 .. Len(vec)
  BY <1>p
<1>1. r \in Vecs /\ r.ok /\ r.items \in Seq(Client) /\ Distinct(r.items)
  BY DEF ReducedExactly, Vecs
<1>2. p <= Len(r.items) /\ r.items[p] = vec[p]
  BY <1>0, <1>p DEF ReducedExactly
<1>3. PICK t : t = RemoveAt(r.items, p)
  OBVIOUS
<1>4. VecRemove(r, p) \in Vecs /\ VecRemove(r, p).ok /\ VecRemove(r, p).items = t
  BY <1>0, <1>1, <1>2, <1>3, VecRemoveFacts
<1>5. p \in 1 .. Len(r.items)
  BY <1>0, <1>1, <1>2
<1>6. /\ t \in Seq(Client) /\ Distinct(t) /\ Len(t) = Len(r.items) - 1
      /\ \A x : In(x, t) <=> In(x, r.items) /\ x # vec[p]
      /\ \A i \in DOMAIN r.items : i < p => i \in DOMAIN t /\ t[i] = r.items[i]
  <2>1. PICK s \in Seq(Client) : s = r.items
    BY <1>1
  <2>2. Distinct(s) /\ p \in 1 .. Len(s) /\ t = RemoveAt(s, p) /\ s[p] = vec[p]
    BY <1>1, <1>2, <1>3, <1>5, <2>1
  <2>3. /\ t \in Seq(Client) /\ Distinct(t) /\ Len(t) = Len(s) - 1
        /\ \A x : In(x, t) <=> In(x, s) /\ x # s[p]
        /\ \A i \in DOMAIN s : i < p => i \in DOMAIN t /\ t[i] = s[i]
    <3>1. OneLess(t, s, p)
      BY <2>2, RemoveOne
    <3> QED BY <3>1 DEF OneLess
  <2>4. \A x : In(x, s) <=> In(x, r.items)
    BY <2>1
  <2>5. DOMAIN s = DOMAIN r.items /\ Len(s) = Len(r.items)
    BY <2>1
  <2>6. \A i \in DOMAIN r.items : i < p => i \in DOMAIN t /\ t[i] = r.items[i]
    BY <2>1, <2>3
  <2>7. \A x : In(x, t) <=> In(x, r.items) /\ x # vec[p]
    BY <2>2, <2>3, <2>4
  <2> QED BY <2>3, <2>5, <2>6, <2>7
<1>7. ASSUME NEW i \in 1 .. Len(vec), i < p PROVE i <= Len(t) /\ t[i] = vec[i]
  <2>1. r.items[i] = vec[i]
    BY <1>0, <1>p, <1>7 DEF ReducedExactly
  <2>2. i \in DOMAIN r.items /\ i < p
    BY <1>0, <1>1, <1>5, <1>7
  <2> QED BY <1>6, <2>1, <2>2
<1>8. ASSUME NEW x
      PROVE  In(x, t) <=>
               \E j \in 1 .. Len(vec) : x = vec[j] /\ \A m \in 1 .. k + 1 : order[m] # j
  <2>1. In(x, r.items) <=>
          \E j \in 1 .. Len(vec) : x = vec[j] /\ \A m \in 1 .. k : order[m] # j
    BY DEF ReducedExactly
  <2>2. ASSUME NEW j \in 1 .. Len(vec), x = vec[j], x # vec[p], \A m \in 1 .. k : order[m] # j
        PROVE  \A m \in 1 .. k + 1 : order[m] # j
    BY <1>p, <2>2
  <2>3. ASSUME NEW j \in 1 .. Len(vec), x = vec[j], \A m \in 1 .. k + 1 : order[m] # j
        PROVE  x # vec[p] /\ \A m \in 1 .. k : order[m] # j
    <3>1. p # j
      BY <1>p, <2>3
    <3> QED BY <1>0, <2>3, <3>1 DEF Distinct
  <2> QED BY <1>6, <2>1, <2>2, <2>3
<1>9. k + 1 # 0
  OBVIOUS
<1> QED BY <1>4, <1>6, <1>7, <1>8, <1>9, <1>p DEF ReducedExactly

\* The clients at the indices are gone, the others are there.
TookOut(vec, closed, r) ==
  /\ r.ok
  /\ \A x : In(x, r.items) <=>
       \E j \in 1 .. Len(vec) : x = vec[j] /\ \A m \in 1 .. Len(closed) : closed[m] # j

\* Vec::remove from the back over ascending indices takes out the clients at those
\* indices and does not panic.
LEMMA RemovedAscending ==
  ASSUME NEW vec \in Seq(Client), Distinct(vec), NEW closed, Len(closed) \in Nat,
         \A j \in 1 .. Len(closed) : closed[j] \in 1 .. Len(vec),
         \A j, k \in 1 .. Len(closed) : j < k => closed[j] < closed[k]
  PROVE  TookOut(vec, closed, Removed(vec, closed))
<1>o. PICK order : order = Reverse(closed)
  OBVIOUS
<1>n. PICK n \in Nat : n = Len(closed)
  OBVIOUS
<1>0. Len(vec) \in Nat
  OBVIOUS
<1>1. Len(order) = n /\ \A j \in 1 .. n : order[j] = closed[n - j + 1]
  <2>1. \A j \in 1 .. n : closed[j] \in Nat \ {0}
    BY <1>0, <1>n
  <2> QED BY <1>o, <1>n, <2>1, ReverseFacts
<1>2. PICK g : After(vec, order, g, n) /\ Removals(vec, order) = g[n]
  BY <1>1, <1>n, RemovalsRun
<1>3. ASSUME NEW j \in 1 .. n
      PROVE  order[j] \in 1 .. Len(vec) /\ (j # 1 => order[j] < order[j - 1])
  <2>1. n - j + 1 \in 1 .. n /\ order[j] = closed[n - j + 1]
    BY <1>1, <1>n
  <2>2. j # 1 => /\ j - 1 \in 1 .. n /\ n - (j - 1) + 1 \in 1 .. n
                 /\ n - j + 1 < n - (j - 1) + 1
    OBVIOUS
  <2>3. j # 1 => order[j - 1] = closed[n - (j - 1) + 1]
    BY <1>1, <2>2
  <2> QED BY <1>n, <2>1, <2>2, <2>3
<1> DEFINE S == {k \in Nat : k <= n => ReducedExactly(g[k], vec, order, k)}
<1>4. 0 \in S
  <2>1. g[0] = [ok |-> TRUE, items |-> vec]
    BY <1>2, AfterStart
  <2>2. [ok |-> TRUE, items |-> vec] \in Vecs
    BY DEF Vecs
  <2>3. ReducedExactly([ok |-> TRUE, items |-> vec], vec, order, 0)
    BY <2>2 DEF ReducedExactly, In
  <2> QED BY <2>1, <2>3
<1>5. ASSUME NEW k \in S PROVE k + 1 \in S
  <2>1. SUFFICES ASSUME k + 1 <= n PROVE ReducedExactly(g[k + 1], vec, order, k + 1)
    OBVIOUS
  <2>2. k < n /\ k \in Nat /\ k + 1 \in 1 .. n /\ k <= n
    BY <2>1
  <2>3. g[k + 1] = VecRemove(g[k], order[k + 1])
    BY <1>2, <2>2, AfterNext
  <2>4. ReducedExactly(g[k], vec, order, k)
    BY <2>2
  <2>5. order[k + 1] \in 1 .. Len(vec)
    BY <1>3, <2>2
  <2>6. k # 0 => order[k] \in 1 .. Len(vec) /\ order[k + 1] < order[k]
    <3>1. k # 0 => k \in 1 .. n /\ k + 1 # 1 /\ (k + 1) - 1 = k
      BY <2>2
    <3> QED BY <1>3, <2>2, <3>1
  <2> QED BY <2>2, <2>3, <2>4, <2>5, <2>6, StepReducesExactly
<1>6. n \in S
  <2>1. S \in SUBSET Nat
    OBVIOUS
  <2> HIDE DEF S
  <2> QED BY <1>4, <1>5, <2>1, Counting
<1>7. ReducedExactly(g[n], vec, order, n) /\ Removed(vec, closed) = g[n]
  BY <1>o, <1>n, <1>2, <1>6 DEF Removed
<1>8. ASSUME NEW j PROVE (\A m \in 1 .. n : order[m] # j) <=> (\A m \in 1 .. n : closed[m] # j)
  <2>1. \A m \in 1 .. n : n - m + 1 \in 1 .. n /\ n - (n - m + 1) + 1 = m
    OBVIOUS
  <2>2. \A m \in 1 .. n : order[m] = closed[n - m + 1] /\ order[n - m + 1] = closed[m]
    BY <1>1, <2>1
  <2> QED BY <2>1, <2>2
<1>9. Removed(vec, closed).ok
  BY <1>7 DEF ReducedExactly
<1>10. ASSUME NEW x
       PROVE  In(x, Removed(vec, closed).items) <=>
                \E j \in 1 .. Len(vec) : x = vec[j] /\ \A m \in 1 .. n : closed[m] # j
  <2>1. In(x, g[n].items) <=>
          \E j \in 1 .. Len(vec) : x = vec[j] /\ \A m \in 1 .. n : order[m] # j
    BY <1>7 DEF ReducedExactly
  <2>2. (\E j \in 1 .. Len(vec) : x = vec[j] /\ \A m \in 1 .. n : order[m] # j)
         <=> \E j \in 1 .. Len(vec) : x = vec[j] /\ \A m \in 1 .. n : closed[m] # j
    BY <1>8
  <2> QED BY <1>7, <2>1, <2>2
<1> QED BY <1>n, <1>9, <1>10 DEF TookOut

\* The frames in the channel are newer than those taken, and none is from the future.
QueueInv ==
  /\ \A i \in DOMAIN rx.queue : rx.queue[i].id <= sent
  /\ \A i, j \in DOMAIN rx.queue : i < j => rx.queue[i].id < rx.queue[j].id
  /\ \A f \in handled : f.id <= sent /\ \A i \in DOMAIN rx.queue : f.id < rx.queue[i].id

\* Clients are numbered as they come; nothing was written to one that has not come.
NumbersInv ==
  /\ Distinct(clients)
  /\ \A i \in DOMAIN clients : clients[i].id <= connected
  /\ \A c \in failed : c <= connected
  /\ \A c \in Ids : c > connected => got[c] = << >>

\* What was written was taken from the channel, and a client without a failed write has
\* something exactly when it is initialized.
WrittenInv ==
  /\ \A c \in Ids : \A k \in DOMAIN got[c] : \E f \in handled : f.id = got[c][k][1]
  /\ \A i \in DOMAIN clients :
       clients[i].id \notin failed => (clients[i].initialized <=> got[clients[i].id] # << >>)

\* Every pack of the frames since the first one, in order.
Whole(g, past) ==
  /\ g # << >> => \A f \in past : f.id >= g[1][1] =>
       \A k \in 1 .. f.packs : \E m \in DOMAIN g : g[m] = <<f.id, k>>
  /\ \A k \in 1 .. Len(g) - 1 :
       \/ g[k][1] < g[k + 1][1]
       \/ g[k][1] = g[k + 1][1] /\ g[k][2] < g[k + 1][2]

WholeInv ==
  \A i \in DOMAIN clients : clients[i].id \notin failed => Whole(got[clients[i].id], handled)

StreamIInv ==
  /\ TypeOK /\ QueueInv /\ NumbersInv /\ WrittenInv /\ StartsAtIdr /\ WholeInv
  /\ RemovedExactly

LEMMA InitStream == ASSUME StreamConstants, CapacityAssumption PROVE Init => StreamIInv
<1> SUFFICES ASSUME Init PROVE StreamIInv
  OBVIOUS
<1>1. TypeOK
  <2>1. << >> \in Seq([id : Ids, initialized : BOOLEAN]) /\ << >> \in Seq(Frames)
        /\ << >> \in Seq(FrameIds \X (1 .. MaxPacks)) /\ Len(<< >>) = 0
    OBVIOUS
  <2>2. got \in [Ids -> Seq(FrameIds \X (1 .. MaxPacks))]
    BY <2>1 DEF Init
  <2>3. rx = [queue |-> << >>, lagged |-> FALSE]
    BY DEF Init, EmptyReceiver
  <2>4. rx \in [queue : Seq(Frames), lagged : BOOLEAN] /\ Len(rx.queue) <= Capacity
    BY <2>1, <2>3 DEF CapacityAssumption
  <2>5. sent \in 0 .. MaxFrames /\ connected \in 0 .. MaxClients
    BY DEF Init, StreamConstants
  <2> QED BY <2>1, <2>2, <2>4, <2>5 DEF Init, TypeOK
<1>2. QueueInv /\ NumbersInv /\ WrittenInv /\ StartsAtIdr /\ WholeInv
  BY DEF Init, EmptyReceiver, QueueInv, NumbersInv, WrittenInv, StartsAtIdr, WholeInv, Distinct
<1>3. RemovedExactly
  BY DEF Init, RemovedExactly, ListedIds
<1> QED BY <1>1, <1>2, <1>3 DEF StreamIInv

\* What broadcast::Sender::send does to a receiver's queue: the message joins at the
\* end, and of a full queue the first one is lost.
Joined(r, s, m) ==
  /\ s \in [queue : Seq(Frames), lagged : BOOLEAN]
  /\ Len(s.queue) <= Capacity /\ Len(s.queue) \in Nat \ {0}
  /\ s.queue[Len(s.queue)] = m
  /\ \/ \A i \in 1 .. Len(s.queue) - 1 : i \in DOMAIN r.queue /\ s.queue[i] = r.queue[i]
     \/ \A i \in 1 .. Len(s.queue) - 1 :
          i + 1 \in DOMAIN r.queue /\ s.queue[i] = r.queue[i + 1]

LEMMA SendFacts ==
  ASSUME CapacityAssumption, NEW r \in [queue : Seq(Frames), lagged : BOOLEAN],
         Len(r.queue) <= Capacity, NEW m \in Frames
  PROVE  Joined(r, Send(r, m), m)
<1>s. PICK s : s = Send(r, m)
  OBVIOUS
<1>1. r.queue \in Seq(Frames) /\ r.lagged \in BOOLEAN
        /\ r = [queue |-> r.queue, lagged |-> r.lagged]
      /\ Capacity \in Nat \ {0}
  BY DEF CapacityAssumption
<1>2. CASE Len(r.queue) < Capacity
  <2>1. s.queue = Append(r.queue, m) /\ s = [queue |-> Append(r.queue, m), lagged |-> r.lagged]
    BY <1>s, <1>1, <1>2 DEF Send
  <2> QED BY <1>s, <1>1, <1>2, <2>1 DEF Joined
<1>3. CASE ~(Len(r.queue) < Capacity)
  <2>1. s.queue = Append(Tail(r.queue), m)
        /\ s = [queue |-> Append(Tail(r.queue), m), lagged |-> TRUE]
    BY <1>s, <1>1, <1>3 DEF Send
  <2>2. Len(r.queue) = Capacity /\ r.queue # << >>
    BY <1>1, <1>3
  <2>3. /\ Tail(r.queue) \in Seq(Frames) /\ Len(Tail(r.queue)) = Capacity - 1
        /\ \A i \in 1 .. Capacity - 1 : Tail(r.queue)[i] = r.queue[i + 1]
    BY <1>1, <2>2
  <2> QED BY <1>s, <1>1, <2>1, <2>2, <2>3 DEF Joined
<1> QED BY <1>2, <1>3

LEMMA PublishStep ==
  ASSUME StreamConstants, CapacityAssumption, StreamIInv,
         NEW idr \in BOOLEAN, NEW packs \in 1 .. MaxPacks, Publish(idr, packs)
  PROVE  StreamIInv'
<1> DEFINE m == [id |-> sent + 1, idr |-> idr, packs |-> packs]
<1>0. TypeOK
  BY DEF StreamIInv
<1>1. /\ status' = status /\ shutdown' = shutdown /\ clients' = clients /\ connected' = connected
      /\ handled' = handled /\ failed' = failed /\ got' = got /\ unordered' = unordered
      /\ sent' = sent + 1 /\ sent \in Nat /\ sent < MaxFrames /\ sent \in Int
  BY <1>0 DEF Publish, TypeOK
<1>2. m \in Frames
  BY <1>1 DEF Frames, FrameIds, StreamConstants
<1>3. /\ rx' \in [queue : Seq(Frames), lagged : BOOLEAN]
      /\ Len(rx'.queue) <= Capacity /\ Len(rx'.queue) \in Nat \ {0}
      /\ rx'.queue[Len(rx'.queue)] = m
      /\ \/ \A i \in 1 .. Len(rx'.queue) - 1 : i \in DOMAIN rx.queue /\ rx'.queue[i] = rx.queue[i]
         \/ \A i \in 1 .. Len(rx'.queue) - 1 :
              i + 1 \in DOMAIN rx.queue /\ rx'.queue[i] = rx.queue[i + 1]
  <2>1. rx' = Send(rx, m) /\ rx \in [queue : Seq(Frames), lagged : BOOLEAN]
          /\ Len(rx.queue) <= Capacity
    BY <1>0 DEF Publish, TypeOK
  <2> HIDE DEF m
  <2>2. Joined(rx, rx', m)
    BY <1>2, <2>1, SendFacts
  <2> QED BY <2>2 DEF Joined
<1>4. TypeOK'
  BY <1>0, <1>1, <1>3 DEF TypeOK, StreamConstants
<1>5. QueueInv'
  <2>0. QueueInv /\ DOMAIN rx'.queue = 1 .. Len(rx'.queue) /\ rx.queue \in Seq(Frames)
        /\ m.id = sent + 1 /\ \A i \in DOMAIN rx.queue : rx.queue[i].id \in Int
    <3>1. QueueInv
      BY DEF StreamIInv
    <3>2. rx'.queue \in Seq(Frames) /\ rx.queue \in Seq(Frames)
      BY <1>0, <1>3 DEF TypeOK
    <3>3. \A f \in Frames : f.id \in Int
      BY DEF Frames, FrameIds
    <3> QED BY <3>1, <3>2, <3>3
  <2> HIDE DEF m
  <2>1. \A i \in DOMAIN rx'.queue : i # Len(rx'.queue) => i \in 1 .. Len(rx'.queue) - 1
    BY <1>3, <2>0
  <2>2. ASSUME NEW i \in DOMAIN rx'.queue
        PROVE  /\ rx'.queue[i].id <= sent + 1
               /\ i # Len(rx'.queue) => rx'.queue[i].id <= sent
               /\ \A f \in handled : f.id < rx'.queue[i].id
    <3>0. \A f \in handled : f.id \in Int
      BY <1>0 DEF TypeOK, Frames, FrameIds
    <3>1. CASE i = Len(rx'.queue)
      BY <1>1, <1>3, <2>0, <3>0, <3>1 DEF QueueInv
    <3>2. CASE i # Len(rx'.queue)
      <4>1. \E j \in DOMAIN rx.queue : rx'.queue[i] = rx.queue[j]
        BY <1>3, <2>1, <3>2
      <4> QED BY <1>1, <2>0, <3>2, <4>1 DEF QueueInv
    <3> QED BY <3>1, <3>2
  <2>3. ASSUME NEW i \in DOMAIN rx'.queue, NEW j \in DOMAIN rx'.queue, i < j
        PROVE  rx'.queue[i].id < rx'.queue[j].id
    <3>1. i # Len(rx'.queue) /\ i \in Nat /\ j \in Nat
      BY <1>3, <2>0, <2>3
    <3>2. CASE j = Len(rx'.queue)
      <4>1. \E k \in DOMAIN rx.queue : rx'.queue[i] = rx.queue[k]
        BY <1>3, <2>1, <3>1
      <4>2. rx'.queue[i].id <= sent /\ rx'.queue[i].id \in Int
        BY <2>0, <2>2, <3>1, <4>1
      <4> QED BY <1>1, <1>3, <2>0, <3>2, <4>2
    <3>3. CASE j # Len(rx'.queue)
      <4>1. i \in 1 .. Len(rx'.queue) - 1 /\ j \in 1 .. Len(rx'.queue) - 1
        BY <2>1, <3>1, <3>3
      <4>2. CASE \A k \in 1 .. Len(rx'.queue) - 1 :
                   k \in DOMAIN rx.queue /\ rx'.queue[k] = rx.queue[k]
        BY <2>0, <2>3, <4>1, <4>2 DEF QueueInv
      <4>3. CASE \A k \in 1 .. Len(rx'.queue) - 1 :
                   k + 1 \in DOMAIN rx.queue /\ rx'.queue[k] = rx.queue[k + 1]
        <5>1. i + 1 < j + 1
          BY <2>3, <3>1
        <5> QED BY <2>0, <5>1, <4>1, <4>3 DEF QueueInv
      <4> QED BY <1>3, <4>2, <4>3
    <3> QED BY <3>2, <3>3
  <2>4. \A f \in handled : f.id <= sent + 1
    BY <1>0, <1>1, <2>0 DEF QueueInv, TypeOK, Frames, FrameIds
  <2> QED BY <1>1, <2>2, <2>3, <2>4 DEF QueueInv
<1>6. (NumbersInv /\ WrittenInv /\ StartsAtIdr /\ WholeInv /\ RemovedExactly)'
  <2>1. NumbersInv'
    BY <1>1 DEF StreamIInv, NumbersInv, Distinct
  <2>2. (WrittenInv /\ StartsAtIdr)'
    BY <1>1 DEF StreamIInv, WrittenInv, StartsAtIdr
  <2>3. WholeInv'
    BY <1>1 DEF StreamIInv, WholeInv
  <2>4. RemovedExactly'
    BY <1>1 DEF StreamIInv, RemovedExactly, ListedIds
  <2> QED BY <2>1, <2>2, <2>3, <2>4
<1> QED BY <1>4, <1>5, <1>6 DEF StreamIInv

LEMMA AcceptStep ==
  ASSUME StreamConstants, StreamIInv, Accept PROVE StreamIInv'
<1> DEFINE new == [id |-> connected + 1, initialized |-> FALSE]
           n == Len(clients)
<1>0. TypeOK /\ QueueInv /\ NumbersInv /\ WrittenInv /\ StartsAtIdr /\ WholeInv /\ RemovedExactly
  BY DEF StreamIInv
<1>1. /\ status' = status /\ shutdown' = shutdown /\ rx' = rx /\ sent' = sent
      /\ handled' = handled
      /\ failed' = failed /\ got' = got /\ unordered' = unordered
      /\ connected' = connected + 1 /\ connected \in Nat /\ connected < MaxClients
  BY <1>0 DEF Accept, TypeOK
<1>2. new \in Client /\ new.id = connected + 1 /\ ~new.initialized /\ connected + 1 \in Ids
  BY <1>1 DEF Client, Ids, StreamConstants
<1>3. clients' = Append(clients, new) /\ clients \in Seq(Client)
  BY <1>0 DEF Accept, TypeOK, Client
<1> HIDE DEF new
<1>4. /\ clients' \in Seq(Client) /\ DOMAIN clients' = 1 .. n + 1 /\ DOMAIN clients = 1 .. n
      /\ n \in Nat /\ clients'[n + 1] = new /\ \A i \in 1 .. n : clients'[i] = clients[i]
  BY <1>2, <1>3
<1> HIDE DEF n
<1>5. ASSUME NEW i \in DOMAIN clients'
      PROVE  (i \in DOMAIN clients /\ clients'[i] = clients[i])
        \/ (i = n + 1 /\ clients'[i] = new)
  <2>1. i \in 1 .. n \/ i = n + 1
    BY <1>4
  <2>2. i \in 1 .. n => i \in DOMAIN clients /\ clients'[i] = clients[i]
    BY <1>4
  <2>3. i = n + 1 => clients'[i] = new
    BY <1>4
  <2> QED BY <2>1, <2>2, <2>3
<1>6. connected + 1 \notin failed /\ got[connected + 1] = << >>
  BY <1>0, <1>1, <1>2 DEF NumbersInv, TypeOK
<1>7. TypeOK'
  BY <1>0, <1>1, <1>4, StreamConstants DEF TypeOK, Client, StreamConstants
<1>8. QueueInv' /\ StartsAtIdr'
  BY <1>0, <1>1 DEF QueueInv, StartsAtIdr
<1>9. NumbersInv'
  <2>1. \A i \in DOMAIN clients : clients[i].id <= connected /\ clients[i].id \in Int
    <3>1. \A c \in Client : c.id \in Int
      BY DEF Client, Ids
    <3> QED BY <1>0, <1>3, <3>1 DEF NumbersInv
  <2>2. Distinct(clients)'
    BY <1>0, <1>1, <1>2, <1>5, <2>1, <1>4 DEF NumbersInv, Distinct
  <2>3. \A i \in DOMAIN clients' : clients'[i].id <= connected + 1
    BY <1>1, <1>2, <1>5, <2>1
  <2>4. \A c \in failed : c <= connected + 1
    BY <1>0, <1>1 DEF NumbersInv, TypeOK, Ids
  <2>5. \A c \in Ids : c > connected + 1 => c > connected
    BY <1>1 DEF Ids
  <2> QED BY <1>0, <1>1, <2>2, <2>3, <2>4, <2>5 DEF NumbersInv
<1>10. WrittenInv'
  <2>1. \A i \in DOMAIN clients' : clients'[i].id \notin failed =>
          (clients'[i].initialized <=> got[clients'[i].id] # << >>)
    BY <1>0, <1>2, <1>5, <1>6 DEF WrittenInv
  <2> QED BY <1>0, <1>1, <2>1 DEF WrittenInv
<1>11. WholeInv'
  <2>1. Whole(<< >>, handled)
    BY DEF Whole
  <2>2. \A i \in DOMAIN clients' : clients'[i].id \notin failed
          => Whole(got[clients'[i].id], handled)
    BY <1>0, <1>2, <1>5, <1>6, <2>1 DEF WholeInv
  <2> QED BY <1>1, <2>2 DEF WholeInv
<1>12. RemovedExactly'
  <2>1. ListedIds' = ListedIds \cup {connected + 1}
    BY <1>2, <1>4, <1>5 DEF ListedIds
  <2>2. (1 .. connected + 1) \ failed = ((1 .. connected) \ failed) \cup {connected + 1}
    BY <1>1, <1>6
  <2> QED BY <1>0, <1>1, <2>1, <2>2 DEF RemovedExactly
<1> QED BY <1>7, <1>8, <1>9, <1>10, <1>11, <1>12 DEF StreamIInv

\* The steps that touch neither the frames nor what was written.
LEMMA QuietSteps ==
  ASSUME StreamIInv, ReceiveLagged \/ RequestShutdown \/ Stop \/ UNCHANGED vars
  PROVE  StreamIInv'
<1>0. TypeOK /\ QueueInv /\ NumbersInv /\ WrittenInv /\ StartsAtIdr /\ WholeInv /\ RemovedExactly
  BY DEF StreamIInv
<1>1. /\ sent' = sent /\ connected' = connected /\ handled' = handled /\ failed' = failed
      /\ got' = got /\ unordered' = unordered
  BY DEF ReceiveLagged, RequestShutdown, Stop, vars
<1>2. rx'.queue = rx.queue /\ rx' \in [queue : Seq(Frames), lagged : BOOLEAN]
  BY <1>0 DEF ReceiveLagged, RequestShutdown, Stop, vars, TakeLagged, TypeOK
<1>3. \/ clients' = clients /\ status' = status
      \/ clients' = << >> /\ status' = "stopped"
  BY DEF ReceiveLagged, RequestShutdown, Stop, vars
<1>4. shutdown' \in BOOLEAN
  BY <1>0 DEF ReceiveLagged, RequestShutdown, Stop, vars, TypeOK
<1>5. << >> \in Seq([id : Ids, initialized : BOOLEAN]) /\ DOMAIN << >> = {}
  OBVIOUS
<1>6. TypeOK'
  BY <1>0, <1>1, <1>2, <1>3, <1>4, <1>5 DEF TypeOK
<1>7. QueueInv' /\ StartsAtIdr'
  BY <1>0, <1>1, <1>2 DEF QueueInv, StartsAtIdr
<1>8. (NumbersInv /\ WrittenInv /\ WholeInv)'
  <2>1. NumbersInv'
    BY <1>0, <1>1, <1>3, <1>5 DEF NumbersInv, Distinct
  <2>2. WrittenInv'
    BY <1>0, <1>1, <1>3, <1>5 DEF WrittenInv
  <2>3. WholeInv'
    BY <1>0, <1>1, <1>3, <1>5 DEF WholeInv
  <2> QED BY <2>1, <2>2, <2>3
<1>9. RemovedExactly'
  BY <1>0, <1>1, <1>3 DEF RemovedExactly, ListedIds
<1> QED BY <1>6, <1>7, <1>8, <1>9 DEF StreamIInv

\* A frame's packs join what a client has of the stream, the first n of them.
Grown(g, t, frame, n) ==
  /\ t \in Seq(FrameIds \X (1 .. MaxPacks)) /\ Len(t) = Len(g) + n
  /\ \A k \in 1 .. Len(g) : t[k] = g[k]
  /\ \A k \in 1 .. n : t[Len(g) + k] = <<frame.id, k>>

LEMMA GrownFacts ==
  ASSUME NEW g \in Seq(FrameIds \X (1 .. MaxPacks)), NEW frame \in Frames,
         NEW n \in 0 .. frame.packs, NEW w, w = [k \in 1 .. n |-> <<frame.id, k>>]
  PROVE  Grown(g, g \o w, frame, n)
<1>1. frame.id \in FrameIds /\ frame.packs \in 1 .. MaxPacks /\ n \in Nat
  BY DEF Frames
<1>2. w \in Seq(FrameIds \X (1 .. MaxPacks)) /\ Len(w) = n
        /\ \A k \in 1 .. n : w[k] = <<frame.id, k>>
  <2>1. \A k \in 1 .. n : k \in 1 .. MaxPacks
    BY <1>1, StreamConstants DEF StreamConstants
  <2> QED BY <1>1, <2>1
<1>3. /\ g \o w \in Seq(FrameIds \X (1 .. MaxPacks)) /\ Len(g \o w) = Len(g) + Len(w)
      /\ \A k \in 1 .. Len(g) + Len(w) : (g \o w)[k] = IF k <= Len(g) THEN g[k] ELSE w[k - Len(g)]
  BY <1>2, ConcatProperties, Zenon
<1>4. Len(g) \in Nat
  OBVIOUS
<1>5. ASSUME NEW k \in 1 .. Len(g) PROVE (g \o w)[k] = g[k]
  BY <1>1, <1>2, <1>3, <1>4
<1>6. ASSUME NEW k \in 1 .. n PROVE (g \o w)[Len(g) + k] = <<frame.id, k>>
  <2>1. Len(g) + k \in 1 .. Len(g) + Len(w) /\ ~(Len(g) + k <= Len(g))
          /\ (Len(g) + k) - Len(g) = k
    BY <1>1, <1>2, <1>4
  <2> QED BY <1>2, <1>3, <2>1
<1> QED BY <1>2, <1>3, <1>5, <1>6 DEF Grown

\* A client that has every frame so far still has when it gets all of the next one.
LEMMA GrownWhole ==
  ASSUME NEW g \in Seq(FrameIds \X (1 .. MaxPacks)), NEW frame \in Frames, NEW t,
         NEW past \in SUBSET Frames, Whole(g, past), Grown(g, t, frame, frame.packs),
         \A f \in past : f.id < frame.id,
         \A k \in DOMAIN g : g[k][1] < frame.id
  PROVE  Whole(t, past \cup {frame})
<1> DEFINE n == Len(g)
<1>1. /\ n \in Nat /\ DOMAIN g = 1 .. n /\ frame.packs \in Nat \ {0} /\ frame.id \in Int
      /\ t \in Seq(FrameIds \X (1 .. MaxPacks)) /\ DOMAIN t = 1 .. n + frame.packs
      /\ Len(t) = n + frame.packs
      /\ \A k \in 1 .. n : t[k] = g[k]
      /\ \A k \in 1 .. frame.packs : t[n + k] = <<frame.id, k>>
  <2>1. n \in Nat /\ DOMAIN g = 1 .. n
    OBVIOUS
  <2>2. frame.packs \in Nat \ {0} /\ frame.id \in Int
    BY DEF Frames, FrameIds
  <2>3. /\ t \in Seq(FrameIds \X (1 .. MaxPacks)) /\ Len(t) = n + frame.packs
        /\ \A k \in 1 .. n : t[k] = g[k]
        /\ \A k \in 1 .. frame.packs : t[n + k] = <<frame.id, k>>
    BY DEF Grown
  <2>4. DOMAIN t = 1 .. Len(t)
    BY <2>3
  <2> QED BY <2>1, <2>2, <2>3, <2>4
<1>2. \A k \in 1 .. n : g[k] \in FrameIds \X (1 .. MaxPacks) /\ g[k][1] \in Int
  BY <1>1 DEF FrameIds
<1>n. g = << >> <=> n = 0
  OBVIOUS
<1> HIDE DEF n
<1>3. ASSUME NEW f \in past \cup {frame}, f.id >= t[1][1], NEW k \in 1 .. f.packs
      PROVE  \E m \in DOMAIN t : t[m] = <<f.id, k>>
  <2>1. CASE f = frame
    <3>1. n + k \in 1 .. n + frame.packs
      BY <1>1, <2>1
    <3> QED BY <1>1, <2>1, <3>1
  <2>2. CASE f \in past /\ n = 0
    <3>1. 1 \in 1 .. frame.packs /\ n + 1 = 1
      BY <1>1, <2>2
    <3>2. t[1] = <<frame.id, 1>>
      BY <1>1, <3>1
    <3>3. f.id \in Int /\ f.id < frame.id
      BY <2>2 DEF Frames, FrameIds
    <3> QED BY <1>1, <1>3, <3>2, <3>3
  <2>3. CASE f \in past /\ n # 0
    <3>1. t[1] = g[1] /\ g # << >>
      BY <1>1, <1>n, <2>3
    <3>2. \E m \in DOMAIN g : g[m] = <<f.id, k>>
      BY <1>3, <2>3, <3>1 DEF Whole
    <3>3. \A m \in 1 .. n : m \in 1 .. n + frame.packs
      BY <1>1
    <3> QED BY <1>1, <3>2, <3>3
  <2> QED BY <2>1, <2>2, <2>3
<1>4. ASSUME NEW k \in 1 .. Len(t) - 1
      PROVE  \/ t[k][1] < t[k + 1][1]
             \/ t[k][1] = t[k + 1][1] /\ t[k][2] < t[k + 1][2]
  <2>1. CASE k < n
    <3>0. n = Len(g) /\ n \in Nat /\ k \in Nat \ {0}
      BY <1>1 DEF n
    <3>1. k \in 1 .. n /\ k + 1 \in 1 .. n /\ k \in 1 .. Len(g) - 1
      BY <2>1, <3>0
    <3>2. \/ g[k][1] < g[k + 1][1]
          \/ g[k][1] = g[k + 1][1] /\ g[k][2] < g[k + 1][2]
      BY <3>1 DEF Whole
    <3> QED BY <1>1, <3>1, <3>2
  <2>2. CASE k = n
    <3>1. 1 \in 1 .. frame.packs /\ k \in 1 .. n
      BY <1>1, <2>2
    <3>2. t[k + 1] = <<frame.id, 1>> /\ t[k] = g[k] /\ g[k][1] < frame.id
      BY <1>1, <2>2, <3>1
    <3> QED BY <3>2
  <2>3. CASE k > n
    <3>1. k - n \in 1 .. frame.packs /\ k + 1 - n \in 1 .. frame.packs
          /\ n + (k - n) = k /\ n + (k + 1 - n) = k + 1 /\ k - n < k + 1 - n
      <4>1. k \in 1 .. (n + frame.packs) - 1 /\ n \in Nat /\ frame.packs \in Nat
        BY <1>1
      <4> QED BY <2>3, <4>1
    <3>2. t[k] = <<frame.id, k - n>> /\ t[k + 1] = <<frame.id, k + 1 - n>>
      BY <1>1, <3>1
    <3> QED BY <3>1, <3>2
  <2>4. k \in Int /\ n \in Int
    BY <1>1
  <2> QED BY <2>1, <2>2, <2>3, <2>4
<1> QED BY <1>3, <1>4 DEF Whole

\* The indices whose write failed, each once.
LEMMA ClosedFacts ==
  ASSUME clients \in Seq(Client), NEW frame \in Frames, NEW failAt \in Failures(frame),
         NEW closed \in closed_clients(failAt)
  PROVE  /\ Len(closed) \in Nat /\ DOMAIN closed = 1 .. Len(closed)
         /\ \A j \in 1 .. Len(closed) : closed[j] \in 1 .. Len(clients)
         /\ Range(closed) = {i \in DOMAIN clients : failAt[i] # 0}
         /\ \A i : (\E j \in 1 .. Len(closed) : closed[j] = i) <=>
                     i \in DOMAIN clients /\ failAt[i] # 0
         /\ \A j, k \in 1 .. Len(closed) : j < k => closed[j] # closed[k]
<1> DEFINE failing == {i \in DOMAIN clients : failAt[i] # 0}
<1>1. Cardinality(failing) \in Nat
  <2>1. Len(clients) \in Nat /\ DOMAIN clients = 1 .. Len(clients)
    OBVIOUS
  <2>2. IsFiniteSet(1 .. Len(clients))
    BY <2>1, FS_Interval
  <2>3. IsFiniteSet(failing)
    BY <2>1, <2>2, FS_Subset
  <2> QED BY <2>3, FS_CardinalityType
<1>2. /\ closed \in [1 .. Cardinality(failing) -> failing] /\ Range(closed) = failing
      /\ \A j, k \in DOMAIN closed : j < k => Before(failAt, closed[j], closed[k])
  BY DEF closed_clients
<1>3. Len(closed) = Cardinality(failing) /\ DOMAIN closed = 1 .. Cardinality(failing)
  <2>1. PICK n \in Nat : n = Cardinality(failing)
    BY <1>1
  <2>2. closed \in [1 .. n -> failing]
    BY <1>2, <2>1
  <2>3. closed \in Seq(failing) /\ DOMAIN closed = 1 .. n
    BY <2>2
  <2> QED BY <2>1, <2>3
<1>4. \A j \in 1 .. Len(closed) : closed[j] \in failing
  BY <1>2, <1>3
<1>5. \A j \in 1 .. Len(closed) : closed[j] \in 1 .. Len(clients)
  BY <1>4
<1>6. \A i : (\E j \in 1 .. Len(closed) : closed[j] = i) <=> i \in failing
  BY <1>2, <1>3, <1>4 DEF Range
<1>7. ASSUME NEW j \in 1 .. Len(closed), NEW k \in 1 .. Len(closed), j < k
      PROVE  closed[j] # closed[k]
  <2>1. Before(failAt, closed[j], closed[k])
    BY <1>2, <1>3, <1>7
  <2>2. closed[j] \in Int /\ failAt[closed[j]] \in Int
    <3>1. failAt \in [DOMAIN clients -> 0 .. frame.packs]
      BY DEF Failures
    <3>2. frame.packs \in Nat
      BY DEF Frames
    <3> QED BY <1>4, <1>5, <3>1, <3>2
  <2> QED BY <2>1, <2>2 DEF Before
<1> QED BY <1>1, <1>2, <1>3, <1>5, <1>6, <1>7

\* The task handles the next frame of its channel.
Handling(frame, failAt, closed) ==
  /\ status = "running" /\ HasMessage(rx) /\ frame = NextMessage(rx) /\ rx' = TakeMessage(rx)
  /\ failAt \in Failures(frame) /\ closed \in closed_clients(failAt)
  /\ HandleFrame(frame, failAt, closed)
  /\ UNCHANGED <<shutdown, sent, connected>>

\* The frame is newer than the frames taken before and older than those that remain.
LEMMA FrameFacts ==
  ASSUME TypeOK, QueueInv, NEW frame, HasMessage(rx), frame = NextMessage(rx),
         rx' = TakeMessage(rx)
  PROVE  /\ frame \in Frames /\ frame.id <= sent
         /\ rx' \in [queue : Seq(Frames), lagged : BOOLEAN] /\ Len(rx'.queue) <= Capacity
         /\ \A i \in DOMAIN rx'.queue : i + 1 \in DOMAIN rx.queue
              /\ rx'.queue[i] = rx.queue[i + 1]
         /\ \A i \in DOMAIN rx'.queue : frame.id < rx'.queue[i].id
         /\ \A f \in handled : f.id < frame.id
<1>1. rx.queue \in Seq(Frames) /\ rx.queue # << >> /\ Len(rx.queue) <= Capacity
        /\ rx.lagged \in BOOLEAN
  BY DEF TypeOK, HasMessage
<1>2. frame = rx.queue[1] /\ frame \in Frames /\ 1 \in DOMAIN rx.queue
  BY <1>1 DEF NextMessage
<1>3. rx' = [queue |-> Tail(rx.queue), lagged |-> rx.lagged]
  BY DEF TakeMessage, TypeOK
<1>4. /\ Tail(rx.queue) \in Seq(Frames) /\ Len(Tail(rx.queue)) = Len(rx.queue) - 1
      /\ \A i \in 1 .. Len(rx.queue) - 1 : Tail(rx.queue)[i] = rx.queue[i + 1]
      /\ Len(rx.queue) \in Nat \ {0} /\ DOMAIN rx.queue = 1 .. Len(rx.queue)
  BY <1>1
<1>5. Capacity \in Nat
  BY CapacityAssumption DEF CapacityAssumption
<1>6. rx' \in [queue : Seq(Frames), lagged : BOOLEAN] /\ Len(rx'.queue) <= Capacity
      /\ DOMAIN rx'.queue = 1 .. Len(rx.queue) - 1
  BY <1>1, <1>3, <1>4, <1>5
<1>7. \A i \in DOMAIN rx'.queue : i + 1 \in DOMAIN rx.queue /\ rx'.queue[i] = rx.queue[i + 1]
        /\ 1 < i + 1
  BY <1>3, <1>4, <1>6
<1> QED BY <1>2, <1>6, <1>7 DEF QueueInv

\* What each client has after the frame.
LEMMA WriteFacts ==
  ASSUME TypeOK, NumbersInv, NEW frame \in Frames, NEW failAt \in Failures(frame), NEW closed,
         HandleFrame(frame, failAt, closed)
  PROVE  /\ got' \in [Ids -> Seq(FrameIds \X (1 .. MaxPacks))]
         /\ \A i \in DOMAIN clients : Grown(got[clients[i].id], got'[clients[i].id], frame,
              IF ~Served(i, frame) THEN 0
              ELSE IF failAt[i] = 0 THEN frame.packs ELSE failAt[i] - 1)
         /\ \A c \in Ids : c \notin ListedIds => got'[c] = got[c]
<1> DEFINE Packets == Seq(FrameIds \X (1 .. MaxPacks))
<1>0. got \in [Ids -> Packets] /\ clients \in Seq(Client) /\ Distinct(clients)
  BY DEF TypeOK, NumbersInv, Client
<1>1. got' = [c \in Ids |-> got[c] \o Written(c, frame, failAt)]
  BY DEF HandleFrame
<1>2. \A i \in DOMAIN clients : clients[i].id \in Ids
  <2>1. \A c \in Client : c.id \in Ids
    BY DEF Client
  <2> QED BY <1>0, <2>1
<1>3. frame.packs \in Nat \ {0} /\ failAt \in [DOMAIN clients -> 0 .. frame.packs]
  BY DEF Frames, Failures
<1>4. ASSUME NEW i \in DOMAIN clients
      PROVE  Grown(got[clients[i].id], got'[clients[i].id], frame,
               IF ~Served(i, frame) THEN 0
               ELSE IF failAt[i] = 0 THEN frame.packs ELSE failAt[i] - 1)
  <2>c. PICK c \in Ids : c = clients[i].id
    BY <1>2
  <2>1. (CHOOSE j \in DOMAIN clients : clients[j].id = c) = i
    BY <1>0, <2>c DEF Distinct
  <2>2. Written(c, frame, failAt) = PacksWritten(i, frame, failAt)
    BY <2>c, <2>1 DEF Written
  <2>n. PICK n : n = IF ~Served(i, frame) THEN 0
                     ELSE IF failAt[i] = 0 THEN frame.packs ELSE failAt[i] - 1
    OBVIOUS
  <2>3. n \in 0 .. frame.packs
    <3>1. failAt[i] \in 0 .. frame.packs
      BY <1>3
    <3> QED BY <1>3, <2>n, <3>1
  <2>w. PICK w : w = [k \in 1 .. n |-> <<frame.id, k>>]
    OBVIOUS
  <2>4. PacksWritten(i, frame, failAt) = w
    <3>1. CASE ~Served(i, frame)
      <4>1. w = << >> /\ PacksWritten(i, frame, failAt) = << >>
        BY <2>n, <2>w, <3>1 DEF PacksWritten
      <4> QED BY <4>1
    <3>2. CASE Served(i, frame)
      <4>1. n = IF failAt[i] = 0 THEN frame.packs ELSE failAt[i] - 1
        BY <2>n, <3>2
      <4> QED BY <2>w, <3>2, <4>1 DEF PacksWritten
    <3> QED BY <3>1, <3>2
  <2>5. got[c] \in Seq(FrameIds \X (1 .. MaxPacks)) /\ got'[c] = got[c] \o w
    BY <1>0, <1>1, <2>2, <2>4
  <2>6. Grown(got[c], got'[c], frame, n)
    BY <2>3, <2>w, <2>5, GrownFacts
  <2> QED BY <2>c, <2>n, <2>6
<1>5. ASSUME NEW c \in Ids, c \notin ListedIds PROVE got'[c] = got[c]
  <2>1. Written(c, frame, failAt) = << >>
    BY <1>5 DEF Written, ListedIds
  <2>2. got[c] \in Packets
    BY <1>0
  <2>3. got[c] \o << >> = got[c]
    BY <2>2
  <2> QED BY <1>1, <2>1, <2>3
<1>6. got' \in [Ids -> Packets]
  <2>1. ASSUME NEW c \in Ids PROVE got'[c] \in Packets
    <3>1. CASE c \in ListedIds
      <4>1. PICK i \in DOMAIN clients : c = clients[i].id
        BY <3>1 DEF ListedIds
      <4> QED BY <1>4, <4>1 DEF Grown
    <3>2. CASE c \notin ListedIds
      BY <1>0, <1>5, <3>2
    <3> QED BY <3>1, <3>2
  <2>2. got' = [c \in Ids |-> got'[c]]
    BY <1>1
  <2> HIDE DEF Packets
  <2> QED BY <2>1, <2>2
<1> QED BY <1>4, <1>5, <1>6

\* The list with the clients of the frame marked, before the removal.
LEMMA MarkedFacts ==
  ASSUME clients \in Seq(Client), NEW frame \in Frames,
         NEW vec, vec = [i \in DOMAIN clients |-> Initialized(i, frame)]
  PROVE  /\ vec \in Seq(Client) /\ Len(vec) = Len(clients) /\ Len(clients) \in Nat
         /\ DOMAIN clients = 1 .. Len(clients)
         /\ \A i \in DOMAIN clients : vec[i].id = clients[i].id
         /\ \A i \in DOMAIN clients : vec[i].initialized <=> (clients[i].initialized \/ frame.idr)
<1>1. Len(clients) \in Nat /\ DOMAIN clients = 1 .. Len(clients)
  OBVIOUS
<1>2. ASSUME NEW i \in DOMAIN clients
      PROVE  /\ vec[i] \in Client /\ vec[i].id = clients[i].id
             /\ vec[i].initialized <=> (clients[i].initialized \/ frame.idr)
  <2>1. clients[i] \in Client
    OBVIOUS
  <2>2. PICK c \in Client : c = clients[i]
    BY <2>1
  <2>3. PICK b \in BOOLEAN : b <=> (c.initialized \/ frame.idr)
    OBVIOUS
  <2>4. b = (c.initialized \/ frame.idr)
    BY <2>3, Zenon
  <2>5. vec[i] = [c EXCEPT !.initialized = b]
    BY <2>2, <2>4 DEF Initialized
  <2>6. [c EXCEPT !.initialized = b] \in Client /\ [c EXCEPT !.initialized = b].id = c.id
        /\ [c EXCEPT !.initialized = b].initialized = b
    BY DEF Client
  <2> QED BY <2>2, <2>3, <2>5, <2>6
<1>3. vec \in [1 .. Len(clients) -> Client]
  BY <1>1, <1>2
<1>4. vec \in Seq(Client) /\ Len(vec) = Len(clients)
  BY <1>1, <1>3
<1> QED BY <1>1, <1>2, <1>4

\* Who is listed after the frame: some of those before, no client twice, and with indices
\* in order exactly those without a failed write.
LEMMA ClientsFacts ==
  ASSUME TypeOK, NumbersInv, NEW frame \in Frames, NEW failAt \in Failures(frame),
         NEW closed \in closed_clients(failAt), HandleFrame(frame, failAt, closed)
  PROVE  /\ clients' \in Seq(Client) /\ Distinct(clients')
         /\ \A i \in DOMAIN clients' : \E j \in DOMAIN clients :
              /\ clients'[i].id = clients[j].id
              /\ clients'[i].initialized <=> (clients[j].initialized \/ frame.idr)
         /\ failed' = failed \cup {clients[j].id : j \in {i \in DOMAIN clients : failAt[i] # 0}}
         /\ status' = status \/ (status' = "panicked" /\ unordered')
         /\ unordered => unordered'
         /\ unordered' \in BOOLEAN
         /\ ~unordered' => ListedIds' =
              ListedIds \ {clients[j].id : j \in {i \in DOMAIN clients : failAt[i] # 0}}
<1> DEFINE failing == {i \in DOMAIN clients : failAt[i] # 0}
<1>0. clients \in Seq(Client) /\ Distinct(clients)
  BY DEF TypeOK, NumbersInv, Client
<1>v. PICK vec : vec = [i \in DOMAIN clients |-> Initialized(i, frame)]
  OBVIOUS
<1>a. PICK after : after = Removed(vec, closed)
  OBVIOUS
<1>1. /\ vec \in Seq(Client) /\ Len(vec) = Len(clients) /\ Len(clients) \in Nat
      /\ DOMAIN clients = 1 .. Len(clients) /\ DOMAIN vec = DOMAIN clients
      /\ \A i \in DOMAIN clients : vec[i].id = clients[i].id
      /\ \A i \in DOMAIN clients : vec[i].initialized <=> (clients[i].initialized \/ frame.idr)
  BY <1>0, <1>v, MarkedFacts
<1>2. Distinct(vec)
  BY <1>0, <1>1 DEF Distinct
<1>3. /\ Len(closed) \in Nat /\ DOMAIN closed = 1 .. Len(closed)
      /\ \A j \in 1 .. Len(closed) : closed[j] \in 1 .. Len(clients)
      /\ Range(closed) = failing
      /\ \A i : (\E j \in 1 .. Len(closed) : closed[j] = i) <=> i \in failing
      /\ \A j, k \in 1 .. Len(closed) : j < k => closed[j] # closed[k]
  BY <1>0, ClosedFacts
<1>4. /\ clients' = IF after.ok THEN after.items ELSE << >>
      /\ status' = IF after.ok THEN status ELSE "panicked"
      /\ failed' = failed \cup {clients[i].id : i \in Range(closed)}
      /\ unordered' = (unordered \/ \E j, k \in DOMAIN closed : j < k /\ closed[j] > closed[k])
  BY <1>v, <1>a, Zenon DEF HandleFrame
<1> HIDE DEF failing
<1>5. Reduced(after, vec)
  <2>1. \A j \in 1 .. Len(closed) : closed[j] \in Nat \ {0}
    BY <1>1, <1>3
  <2> QED BY <1>1, <1>2, <1>3, <1>a, <2>1, RemovedReduces
<1>6. after.items \in Seq(Client) /\ Distinct(after.items)
        /\ \A x : In(x, after.items) => In(x, vec)
  BY <1>5 DEF Reduced, Vecs
<1>7. clients' \in Seq(Client) /\ Distinct(clients')
  BY <1>4, <1>6 DEF Distinct
<1>8. ASSUME NEW i \in DOMAIN clients'
      PROVE  \E j \in DOMAIN clients :
               /\ clients'[i].id = clients[j].id
               /\ clients'[i].initialized <=> (clients[j].initialized \/ frame.idr)
  <2>1. In(clients'[i], vec)
    <3>1. after.ok
      BY <1>4
    <3>2. i \in DOMAIN after.items /\ clients'[i] = after.items[i]
      BY <1>4, <3>1
    <3>3. In(after.items[i], after.items)
      BY <3>2 DEF In
    <3> QED BY <1>6, <3>2, <3>3
  <2> QED BY <1>1, <2>1 DEF In
<1>9. unordered' \in BOOLEAN /\ (unordered => unordered')
  BY <1>4, Zenon
<1>10. ASSUME ~unordered'
       PROVE  after.ok /\ ListedIds' = ListedIds \ {clients[j].id : j \in failing}
  <2>1. \A j, k \in 1 .. Len(closed) : j < k => ~(closed[j] > closed[k])
    BY <1>3, <1>4, <1>10, Zenon
  <2>2. \A j, k \in 1 .. Len(closed) : j < k => closed[j] < closed[k]
    <3>1. \A j \in 1 .. Len(closed) : closed[j] \in Int
      BY <1>1, <1>3
    <3> QED BY <1>3, <2>1, <3>1
  <2>3. /\ after.ok
        /\ \A x : In(x, after.items) <=>
             \E j \in 1 .. Len(vec) : x = vec[j] /\ \A m \in 1 .. Len(closed) : closed[m] # j
    <3>1. \A j \in 1 .. Len(closed) : closed[j] \in 1 .. Len(vec)
      BY <1>1, <1>3
    <3>2. vec \in Seq(Client) /\ Distinct(vec) /\ Len(closed) \in Nat
      BY <1>1, <1>2, <1>3
    <3>3. TookOut(vec, closed, Removed(vec, closed))
      BY <2>2, <3>1, <3>2, RemovedAscending
    <3> QED BY <1>a, <3>3 DEF TookOut
  <2>4. clients' = after.items
    BY <1>4, <2>3
  <2>5. \A x : In(x, clients') <=> \E j \in DOMAIN clients : x = vec[j] /\ j \notin failing
    BY <1>1, <1>3, <2>3, <2>4
  <2>6. ASSUME NEW c \in ListedIds'
        PROVE  c \in ListedIds /\ c \notin {clients[j].id : j \in failing}
    <3>1. PICK i \in DOMAIN clients' : c = clients'[i].id
      BY DEF ListedIds
    <3>2. In(clients'[i], clients')
      BY DEF In
    <3>3. PICK j \in DOMAIN clients : clients'[i] = vec[j] /\ j \notin failing
      BY <2>5, <3>2
    <3>4. c = clients[j].id
      BY <1>1, <3>1, <3>3
    <3>5. \A k \in failing : k \in DOMAIN clients
      BY DEF failing
    <3> QED BY <1>0, <3>3, <3>4, <3>5 DEF ListedIds, Distinct
  <2>7. ASSUME NEW c \in ListedIds, c \notin {clients[j].id : j \in failing}
        PROVE  c \in ListedIds'
    <3>1. PICK j \in DOMAIN clients : c = clients[j].id
      BY DEF ListedIds
    <3>2. In(vec[j], clients')
      BY <2>5, <2>7, <3>1
    <3>3. PICK i \in DOMAIN clients' : clients'[i] = vec[j]
      BY <3>2 DEF In
    <3> QED BY <1>1, <3>1, <3>3 DEF ListedIds
  <2> QED BY <2>3, <2>6, <2>7
<1>11. status' = status \/ (status' = "panicked" /\ unordered')
  BY <1>4, <1>10
<1> QED BY <1>3, <1>4, <1>7, <1>8, <1>9, <1>10, <1>11 DEF failing

LEMMA HandlingStep ==
  ASSUME StreamIInv, NEW frame, NEW failAt, NEW closed, Handling(frame, failAt, closed)
  PROVE  StreamIInv'
<1> DEFINE Count(i) == IF ~Served(i, frame) THEN 0
                       ELSE IF failAt[i] = 0 THEN frame.packs ELSE failAt[i] - 1
           Packets == Seq(FrameIds \X (1 .. MaxPacks))
<1>0. TypeOK /\ QueueInv /\ NumbersInv /\ WrittenInv /\ StartsAtIdr /\ WholeInv /\ RemovedExactly
  BY DEF StreamIInv
<1>1. /\ status = "running" /\ HasMessage(rx) /\ frame = NextMessage(rx) /\ rx' = TakeMessage(rx)
      /\ failAt \in Failures(frame) /\ closed \in closed_clients(failAt)
      /\ HandleFrame(frame, failAt, closed)
      /\ shutdown' = shutdown /\ sent' = sent /\ connected' = connected
  BY DEF Handling
<1>2. /\ frame \in Frames /\ frame.id <= sent
      /\ rx' \in [queue : Seq(Frames), lagged : BOOLEAN] /\ Len(rx'.queue) <= Capacity
      /\ \A i \in DOMAIN rx'.queue : i + 1 \in DOMAIN rx.queue /\ rx'.queue[i] = rx.queue[i + 1]
      /\ \A i \in DOMAIN rx'.queue : frame.id < rx'.queue[i].id
      /\ \A f \in handled : f.id < frame.id
  BY <1>0, <1>1, FrameFacts
<1>3. /\ got' \in [Ids -> Packets]
      /\ \A i \in DOMAIN clients : Grown(got[clients[i].id], got'[clients[i].id], frame, Count(i))
      /\ \A c \in Ids : c \notin ListedIds => got'[c] = got[c]
  BY <1>0, <1>1, <1>2, WriteFacts
<1>4. /\ clients' \in Seq(Client) /\ Distinct(clients')
      /\ \A i \in DOMAIN clients' : \E j \in DOMAIN clients :
           /\ clients'[i].id = clients[j].id
           /\ clients'[i].initialized <=> (clients[j].initialized \/ frame.idr)
      /\ failed' = failed \cup {clients[j].id : j \in {i \in DOMAIN clients : failAt[i] # 0}}
      /\ status' = status \/ (status' = "panicked" /\ unordered')
      /\ unordered => unordered'
      /\ unordered' \in BOOLEAN
      /\ ~unordered' => ListedIds' =
           ListedIds \ {clients[j].id : j \in {i \in DOMAIN clients : failAt[i] # 0}}
  BY <1>0, <1>1, <1>2, ClientsFacts
<1>5. handled' = handled \cup {frame}
  BY <1>1 DEF HandleFrame
<1>6. /\ clients \in Seq(Client) /\ DOMAIN clients = 1 .. Len(clients)
      /\ got \in [Ids -> Packets] /\ handled \subseteq Frames
      /\ \A j \in DOMAIN clients : clients[j].id \in Ids
  <2>1. clients \in Seq(Client) /\ \A c \in Client : c.id \in Ids
    BY <1>0 DEF TypeOK, Client
  <2>2. \A j \in DOMAIN clients : clients[j].id \in Ids
    BY <2>1
  <2> QED BY <1>0, <2>1, <2>2 DEF TypeOK
<1>7. frame.packs \in Nat \ {0} /\ frame.id \in Int
        /\ \A i \in DOMAIN clients : failAt[i] \in 0 .. frame.packs
  BY <1>1, <1>2 DEF Frames, FrameIds, Failures
<1>p. \A c \in Ids : got[c] \in Packets /\ got'[c] \in Packets
  BY <1>3, <1>6
<1>8. TypeOK'
  <2>1. failed' \subseteq Ids
    BY <1>0, <1>4, <1>6 DEF TypeOK
  <2>2. handled' \subseteq Frames
    BY <1>2, <1>5, <1>6
  <2>3. status' \in {"running", "stopped", "panicked"}
    BY <1>1, <1>4
  <2> QED BY <1>0, <1>1, <1>2, <1>3, <1>4, <2>1, <2>2, <2>3 DEF TypeOK, Client
<1>9. QueueInv'
  <2>1. \A i \in DOMAIN rx'.queue : rx'.queue[i].id <= sent
    BY <1>0, <1>2 DEF QueueInv
  <2>2. ASSUME NEW i \in DOMAIN rx'.queue, NEW j \in DOMAIN rx'.queue, i < j
        PROVE  rx'.queue[i].id < rx'.queue[j].id
    <3>1. i \in Int /\ j \in Int
      BY <1>2
    <3>2. i + 1 < j + 1
      BY <2>2, <3>1
    <3> QED BY <1>0, <1>2, <3>2 DEF QueueInv
  <2>3. \A f \in handled' : f.id <= sent /\ \A i \in DOMAIN rx'.queue : f.id < rx'.queue[i].id
    BY <1>0, <1>2, <1>5 DEF QueueInv
  <2> QED BY <1>1, <2>1, <2>2, <2>3 DEF QueueInv
<1>10. NumbersInv'
  <2>1. \A j \in DOMAIN clients : clients[j].id <= connected
    BY <1>0 DEF NumbersInv
  <2>2. \A i \in DOMAIN clients' : clients'[i].id <= connected
    BY <1>4, <2>1
  <2>3. \A c \in failed' : c <= connected
    BY <1>0, <1>4, <2>1 DEF NumbersInv
  <2>4. ASSUME NEW c \in Ids, c > connected PROVE got'[c] = << >>
    <3>1. c \notin ListedIds
      BY <1>0, <2>1, <2>4 DEF ListedIds, Ids, TypeOK
    <3> QED BY <1>0, <1>3, <2>4, <3>1 DEF NumbersInv
  <2> QED BY <1>1, <1>4, <2>2, <2>3, <2>4 DEF NumbersInv
\* What the frame did to the stream of one client.
<1>11. ASSUME NEW j \in DOMAIN clients, NEW c \in Ids, c = clients[j].id
       PROVE  /\ Grown(got[c], got'[c], frame, Count(j)) /\ Count(j) \in 0 .. frame.packs
              /\ got[c] = << >> /\ Count(j) = 0 => got'[c] = << >>
              /\ got[c] # << >> \/ Count(j) # 0 => got'[c] # << >>
              /\ got[c] # << >> => got'[c][1] = got[c][1]
              /\ got[c] = << >> /\ Count(j) # 0 => got'[c][1] = <<frame.id, 1>>
  <2>n. PICK n : n = Count(j)
    OBVIOUS
  <2>1. n \in 0 .. frame.packs /\ Grown(got[c], got'[c], frame, n)
    BY <1>3, <1>7, <1>11, <2>n
  <2> HIDE DEF Count
  <2>2. /\ Len(got'[c]) = Len(got[c]) + n /\ Len(got[c]) \in Nat
        /\ \A k \in 1 .. Len(got[c]) : got'[c][k] = got[c][k]
        /\ \A k \in 1 .. n : got'[c][Len(got[c]) + k] = <<frame.id, k>>
    <3>1. PICK g : g = got[c]
      OBVIOUS
    <3>2. PICK t : t = got'[c]
      OBVIOUS
    <3>3. Grown(g, t, frame, n) /\ Len(g) \in Nat
      BY <1>p, <2>1, <3>1, <3>2
    <3>4. /\ Len(t) = Len(g) + n
          /\ \A k \in 1 .. Len(g) : t[k] = g[k]
          /\ \A k \in 1 .. n : t[Len(g) + k] = <<frame.id, k>>
      BY <3>3 DEF Grown
    <3> QED BY <3>1, <3>2, <3>3, <3>4
  <2>3. (got[c] = << >> <=> Len(got[c]) = 0) /\ (got'[c] = << >> <=> Len(got'[c]) = 0)
    BY <1>p
  <2>4. CASE got[c] # << >>
    BY <2>1, <2>2, <2>3, <2>4, <2>n
  <2>5. CASE got[c] = << >> /\ n # 0
    <3>1. 1 \in 1 .. n /\ Len(got[c]) + 1 = 1
      BY <2>1, <2>2, <2>3, <2>5
    <3> QED BY <2>1, <2>2, <2>3, <2>5, <2>n, <3>1
  <2>6. CASE got[c] = << >> /\ n = 0
    BY <2>1, <2>2, <2>3, <2>6, <2>n
  <2> QED BY <2>4, <2>5, <2>6
\* A client whose write did not fail in this frame nor before.
<1>12. ASSUME NEW i \in DOMAIN clients', clients'[i].id \notin failed'
       PROVE  \E j \in DOMAIN clients :
                /\ clients'[i].id = clients[j].id
                /\ clients'[i].initialized <=> (clients[j].initialized \/ frame.idr)
                /\ clients[j].id \notin failed /\ failAt[j] = 0
  BY <1>4, <1>12
<1>13. WrittenInv'
  <2>1. ASSUME NEW c \in Ids, NEW k \in DOMAIN got'[c]
        PROVE  \E f \in handled' : f.id = got'[c][k][1]
    <3>1. CASE c \notin ListedIds
      BY <1>0, <1>3, <1>5, <2>1, <3>1 DEF WrittenInv
    <3>2. CASE c \in ListedIds
      <4>1. PICK j \in DOMAIN clients : c = clients[j].id
        BY <3>2 DEF ListedIds
      <4>n. PICK n : n = Count(j)
        OBVIOUS
      <4>2. n \in 0 .. frame.packs /\ Grown(got[c], got'[c], frame, n)
        BY <1>11, <4>1, <4>n
      <4>3. /\ Len(got'[c]) = Len(got[c]) + n /\ Len(got[c]) \in Nat
            /\ DOMAIN got'[c] = 1 .. Len(got'[c]) /\ DOMAIN got[c] = 1 .. Len(got[c])
            /\ \A m \in 1 .. Len(got[c]) : got'[c][m] = got[c][m]
            /\ \A m \in 1 .. n : got'[c][Len(got[c]) + m] = <<frame.id, m>>
        BY <1>p, <4>2 DEF Grown
      <4>4. CASE k <= Len(got[c])
        <5>1. k \in DOMAIN got[c] /\ got'[c][k] = got[c][k]
          BY <4>3, <4>4
        <5> QED BY <1>0, <1>5, <5>1 DEF WrittenInv
      <4>5. CASE k > Len(got[c])
        <5>1. k - Len(got[c]) \in 1 .. n /\ Len(got[c]) + (k - Len(got[c])) = k
          BY <4>2, <4>3, <4>5
        <5>2. got'[c][k] = <<frame.id, k - Len(got[c])>>
          BY <4>3, <5>1
        <5> QED BY <1>5, <5>2
      <4> QED BY <4>3, <4>4, <4>5
    <3> QED BY <3>1, <3>2
  <2>2. ASSUME NEW i \in DOMAIN clients', clients'[i].id \notin failed'
        PROVE  clients'[i].initialized <=> got'[clients'[i].id] # << >>
    <3>1. PICK j \in DOMAIN clients :
            /\ clients'[i].id = clients[j].id
            /\ clients'[i].initialized <=> (clients[j].initialized \/ frame.idr)
            /\ clients[j].id \notin failed /\ failAt[j] = 0
      BY <1>12, <2>2
    <3>2. clients[j].initialized <=> got[clients[j].id] # << >>
      BY <1>0, <3>1 DEF WrittenInv
    <3>3. PICK c \in Ids : c = clients[j].id
      BY <1>6
    <3>4. Count(j) # 0 <=> (clients[j].initialized \/ frame.idr)
      BY <1>7, <3>1 DEF Served
    <3> HIDE DEF Count
    <3>5. /\ got[c] = << >> /\ Count(j) = 0 => got'[c] = << >>
          /\ got[c] # << >> \/ Count(j) # 0 => got'[c] # << >>
      BY <1>11, <3>3
    <3> QED BY <3>1, <3>2, <3>3, <3>4, <3>5
  <2> QED BY <2>1, <2>2 DEF WrittenInv
<1>14. StartsAtIdr'
  <2>1. SUFFICES ASSUME NEW c \in Ids, got'[c] # << >>, unordered' => c \notin failed'
                 PROVE  \E f \in handled' : f.idr /\ got'[c][1] = <<f.id, 1>>
    BY DEF StartsAtIdr
  <2>2. unordered => c \notin failed
    BY <1>4, <2>1
  <2>3. CASE got[c] # << >>
    <3>1. \E f \in handled : f.idr /\ got[c][1] = <<f.id, 1>>
      BY <1>0, <2>2, <2>3 DEF StartsAtIdr
    <3>2. got'[c][1] = got[c][1]
      <4>1. CASE c \in ListedIds
        BY <1>11, <2>3, <4>1 DEF ListedIds
      <4>2. CASE c \notin ListedIds
        BY <1>3, <4>2
      <4> QED BY <4>1, <4>2
    <3> QED BY <1>5, <3>1, <3>2
  <2>4. CASE got[c] = << >>
    <3>1. c \in ListedIds
      BY <1>3, <2>1, <2>4
    <3>2. PICK j \in DOMAIN clients : c = clients[j].id
      BY <3>1 DEF ListedIds
    <3>3. Count(j) # 0 /\ got'[c][1] = <<frame.id, 1>>
      <4> HIDE DEF Count
      <4> QED BY <1>11, <2>1, <2>4, <3>2
    <3>4. c \notin failed
      <4>1. CASE unordered
        BY <2>2, <4>1
      <4>2. CASE ~unordered
        BY <1>0, <1>1, <3>1, <4>2 DEF RemovedExactly
      <4> QED BY <4>1, <4>2
    <3>5. ~clients[j].initialized
      BY <1>0, <2>4, <3>2, <3>4 DEF WrittenInv
    <3>6. frame.idr
      BY <3>3, <3>5 DEF Served
    <3> QED BY <1>5, <3>3, <3>6
  <2> QED BY <2>3, <2>4
<1>15. WholeInv'
  <2>1. SUFFICES ASSUME NEW i \in DOMAIN clients', clients'[i].id \notin failed'
                 PROVE  Whole(got'[clients'[i].id], handled')
    BY DEF WholeInv
  <2>2. PICK j \in DOMAIN clients :
          /\ clients'[i].id = clients[j].id
          /\ clients'[i].initialized <=> (clients[j].initialized \/ frame.idr)
          /\ clients[j].id \notin failed /\ failAt[j] = 0
    BY <1>12, <2>1
  <2>3. PICK c \in Ids : c = clients[j].id
    BY <1>6
  <2>4. Whole(got[c], handled) /\ (clients[j].initialized <=> got[c] # << >>)
    BY <1>0, <2>2, <2>3 DEF WholeInv, WrittenInv
  <2>5. CASE Served(j, frame)
    <3>1. Count(j) = frame.packs
      BY <2>2, <2>5
    <3>2. Grown(got[c], got'[c], frame, frame.packs)
      BY <1>11, <2>3, <3>1
    <3>3. \A k \in DOMAIN got[c] : got[c][k][1] < frame.id
      BY <1>0, <1>2 DEF WrittenInv
    <3>4. Whole(got'[c], handled \cup {frame})
      BY <1>2, <1>6, <1>p, <2>4, <3>2, <3>3, GrownWhole
    <3> QED BY <1>5, <2>2, <2>3, <3>4
  <2>6. CASE ~Served(j, frame)
    <3>1. Count(j) = 0 /\ got[c] = << >>
      BY <2>4, <2>6 DEF Served
    <3>2. got'[c] = << >>
      <4> HIDE DEF Count
      <4> QED BY <1>11, <2>3, <3>1
    <3> QED BY <2>2, <2>3, <3>2 DEF Whole
  <2> QED BY <2>5, <2>6
<1>16. RemovedExactly'
  <2>1. ASSUME status' = "running", ~unordered' PROVE ListedIds' = (1 .. connected) \ failed'
    <3>1. ListedIds = (1 .. connected) \ failed
      BY <1>0, <1>1, <1>4, <2>1 DEF RemovedExactly
    <3> QED BY <1>4, <2>1, <3>1
  <2>2. status' = "panicked" => unordered'
    BY <1>1, <1>4
  <2> QED BY <1>1, <2>1, <2>2 DEF RemovedExactly
<1> QED BY <1>8, <1>9, <1>10, <1>13, <1>14, <1>15, <1>16 DEF StreamIInv

LEMMA StreamStep ==
  ASSUME StreamConstants, CapacityAssumption, StreamIInv, [Next]_vars PROVE StreamIInv'
<1>1. ASSUME NEW idr \in BOOLEAN, NEW packs \in 1 .. MaxPacks, Publish(idr, packs)
      PROVE  StreamIInv'
  BY <1>1, PublishStep
<1>2. CASE Accept
  BY <1>2, AcceptStep
<1>3. CASE Receive
  <2>1. PICK frame : frame = NextMessage(rx)
    OBVIOUS
  <2>2. PICK failAt \in Failures(frame) :
          \E closed \in closed_clients(failAt) : HandleFrame(frame, failAt, closed)
    BY <1>3, <2>1 DEF Receive
  <2>3. PICK closed \in closed_clients(failAt) : HandleFrame(frame, failAt, closed)
    BY <2>2
  <2>4. Handling(frame, failAt, closed)
    BY <1>3, <2>1, <2>2, <2>3 DEF Handling, Receive
  <2> QED BY <2>4, HandlingStep
<1>4. CASE ReceiveLagged \/ RequestShutdown \/ Stop \/ UNCHANGED vars
  BY <1>4, QuietSteps
<1> QED BY <1>1, <1>2, <1>3, <1>4 DEF Next

LEMMA StreamImplied == StreamIInv => StreamInv /\ RemovedExactly
<1> SUFFICES ASSUME StreamIInv PROVE StreamComplete
  BY DEF StreamIInv, StreamInv
<1>1. SUFFICES ASSUME NEW i \in DOMAIN clients, NEW c, c = clients[i].id, c \notin failed,
                      NEW g, g = got[c]
               PROVE  /\ \A f \in handled : f.id >= (IF g = << >> THEN sent + 1 ELSE g[1][1]) =>
                           \A k \in 1 .. f.packs : <<f.id, k>> \in Range(g)
                      /\ \A k \in 1 .. Len(g) - 1 :
                           \/ g[k][1] < g[k + 1][1]
                           \/ g[k][1] = g[k + 1][1] /\ g[k][2] < g[k + 1][2]
  BY DEF StreamComplete
<1>2. Whole(g, handled)
  BY <1>1 DEF StreamIInv, WholeInv
<1>3. ASSUME NEW f \in handled, f.id >= (IF g = << >> THEN sent + 1 ELSE g[1][1]),
             NEW k \in 1 .. f.packs
      PROVE  <<f.id, k>> \in Range(g)
  <2>1. g # << >>
    <3>1. f.id \in Int /\ f.id <= sent /\ sent \in Int
      BY DEF StreamIInv, QueueInv, TypeOK, Frames, FrameIds
    <3> QED BY <1>3, <3>1
  <2>2. \E m \in DOMAIN g : g[m] = <<f.id, k>>
    BY <1>2, <1>3, <2>1 DEF Whole
  <2> QED BY <2>2 DEF Range
<1> QED BY <1>2, <1>3 DEF Whole

-----------------------------------------------------------------------------
(* Runs of a step function *)

\* A run of a step function from its base, and the facts a proof by induction needs.
Run(g, n, base, step) ==
  /\ g = [k \in 0 .. n |-> g[k]]
  /\ g[0] = base
  /\ \A k \in Nat : k < n => g[k + 1] = step[<<k + 1, g[k]>>]

LEMMA RunExists ==
  ASSUME NEW V, NEW base \in V, NEW step \in [Nat \X V -> V], NEW last \in Nat
  PROVE  \E g \in [0 .. last -> V] : Run(g, last, base, step)
<1> DEFINE M == {n \in Nat : \E g \in [0 .. n -> V] : Run(g, n, base, step)}
<1>1. 0 \in M
  <2> DEFINE g == [k \in 0 .. 0 |-> base]
  <2>1. g \in [0 .. 0 -> V] /\ Run(g, 0, base, step)
    BY DEF Run
  <2> QED BY <2>1
<1>2. ASSUME NEW n \in M PROVE n + 1 \in M
  <2>1. PICK g \in [0 .. n -> V] : Run(g, n, base, step)
    OBVIOUS
  <2>2. n \in Nat
    OBVIOUS
  <2> DEFINE h == [k \in 0 .. n + 1 |-> IF k = n + 1 THEN step[<<n + 1, g[n]>>] ELSE g[k]]
  <2>3. h \in [0 .. n + 1 -> V]
    <3>1. step[<<n + 1, g[n]>>] \in V
      BY <2>2
    <3>2. \A k \in 0 .. n + 1 : k # n + 1 => g[k] \in V
      BY <2>2
    <3> QED BY <3>1, <3>2
  <2>4. h[0] = base
    BY <2>1, <2>2 DEF Run
  <2>5. ASSUME NEW k \in Nat, k < n + 1 PROVE h[k + 1] = step[<<k + 1, h[k]>>]
    <3>1. CASE k = n
      <4>1. h[k + 1] = step[<<n + 1, g[n]>>] /\ h[k] = g[n]
        BY <3>1, <2>2
      <4> QED BY <4>1, <3>1
    <3>2. CASE k < n
      <4>1. h[k + 1] = g[k + 1] /\ h[k] = g[k]
        BY <3>2, <2>2
      <4>2. g[k + 1] = step[<<k + 1, g[k]>>]
        BY <3>2, <2>1 DEF Run
      <4> QED BY <4>1, <4>2
    <3> QED BY <3>1, <3>2, <2>2, <2>5
  <2>6. h = [k \in 0 .. n + 1 |-> h[k]]
    BY <2>3
  <2> HIDE DEF h
  <2>7. Run(h, n + 1, base, step)
    BY <2>4, <2>5, <2>6 DEF Run
  <2> QED BY <2>2, <2>3, <2>7
<1>3. last \in M
  <2> HIDE DEF M
  <2>1. M \in SUBSET Nat
    BY DEF M
  <2> QED BY <1>1, <1>2, <2>1, Counting
<1> QED BY <1>3

\* What a run may be described by, and that it stays in its set of values.
LEMMA RunStays ==
  ASSUME NEW V, NEW n \in Nat, NEW g, g[0] \in V,
         \A k \in Nat : k < n /\ g[k] \in V => g[k + 1] \in V
  PROVE  \A k \in 0 .. n : g[k] \in V
<1> DEFINE M == {k \in Nat : k <= n => g[k] \in V}
<1>1. 0 \in M /\ \A k \in M : k + 1 \in M
  OBVIOUS
<1>2. \A k \in Nat : k \in M
  <2>1. M \in SUBSET Nat
    OBVIOUS
  <2> HIDE DEF M
  <2> QED BY <1>1, <2>1, Counting
<1> QED BY <1>2

-----------------------------------------------------------------------------
(* The units of a frame *)

LEMMA LeastExists ==
  ASSUME NEW Q \in SUBSET Nat, Q # {} PROVE \E i \in Q : \A j \in Q : i <= j
<1>1. PICK x \in Q : \A y \in Q : <<y, x>> \notin OpToRel(<, Nat)
  BY WFMin, NatLessThanWellFounded
<1>2. x \in Nat /\ \A y \in Q : y \in Nat /\ ~(y < x)
  BY <1>1 DEF OpToRel
<1> QED BY <1>2

\* f is the least of Q from `from` on, or `none`.
IsFirst(f, Q, from, none) ==
  \/ f = none /\ \A i \in Q : i < from
  \/ f \in Q /\ f >= from /\ \A i \in Q : i >= from => f <= i

LEMMA FirstFromFacts ==
  ASSUME NEW Q \in SUBSET Nat, NEW from \in Nat, NEW none
  PROVE  IsFirst(H!FirstFrom(Q, from, none), Q, from, none)
<1> DEFINE later == {i \in Q : i >= from}
<1>1. CASE later = {}
  <2>1. H!FirstFrom(Q, from, none) = none
    BY <1>1 DEF H!FirstFrom
  <2> QED BY <1>1, <2>1 DEF IsFirst
<1>2. CASE later # {}
  <2>1. later \in SUBSET Nat
    OBVIOUS
  <2>2. \E i \in later : \A j \in later : i <= j
    <3> HIDE DEF later
    <3> QED BY <1>2, <2>1, LeastExists
  <2>3. H!FirstFrom(Q, from, none) = CHOOSE i \in later : \A j \in later : i <= j
    BY <1>2 DEF H!FirstFrom
  <2> QED BY <2>2, <2>3 DEF IsFirst
<1> QED BY <1>1, <1>2

\* A start code is 00 00 01, perhaps with a zero before it, and codes are three bytes apart.
LEMMA CodeFacts ==
  ASSUME NEW d \in Seq(Nat), NEW i \in Nat \ {0}
  PROVE  /\ i \in DOMAIN d /\ H!StartCode(d, i)
              <=> i \in H!Codes(d) \/ (i + 1 \in H!Codes(d) /\ d[i] = 0)
         /\ i \in H!Codes(d) => i + 1 \notin H!Codes(d) /\ i + 2 \notin H!Codes(d)
         /\ i \in H!Codes(d) <=> i \in 1 .. Len(d) /\ H!ShortStartCode(d, i)
<1>1. DOMAIN d = 1 .. Len(d) /\ Len(d) \in Nat
  OBVIOUS
<1>2. /\ i + 1 + 1 = i + 2 /\ i + 1 + 2 = i + 3 /\ i + 2 + 1 = i + 3 /\ i + 2 + 2 = i + 4
  OBVIOUS
<1>3. \A j \in Nat \ {0} : j \in H!Codes(d) <=>
        j + 2 <= Len(d) /\ d[j] = 0 /\ d[j + 1] = 0 /\ d[j + 2] = 1
  BY <1>1 DEF H!Codes, H!ShortStartCode
<1>4. i + 1 \in H!Codes(d) <=> i + 3 <= Len(d) /\ d[i + 1] = 0 /\ d[i + 2] = 0 /\ d[i + 3] = 1
  BY <1>2, <1>3
<1>5. i + 2 \in H!Codes(d) <=> i + 4 <= Len(d) /\ d[i + 2] = 0 /\ d[i + 3] = 0 /\ d[i + 4] = 1
  BY <1>2, <1>3
<1>6. i \in H!Codes(d) <=> i + 2 <= Len(d) /\ d[i] = 0 /\ d[i + 1] = 0 /\ d[i + 2] = 1
  BY <1>3
<1>7. i \in DOMAIN d /\ H!StartCode(d, i) <=>
        /\ i + 2 <= Len(d) /\ d[i] = 0 /\ d[i + 1] = 0
        /\ d[i + 2] = 1 \/ (i + 3 <= Len(d) /\ d[i + 2] = 0 /\ d[i + 3] = 1)
  BY <1>1 DEF H!StartCode
<1>8. i \in H!Codes(d) <=> i \in 1 .. Len(d) /\ H!ShortStartCode(d, i)
  BY <1>1 DEF H!Codes
<1> QED BY <1>4, <1>5, <1>6, <1>7, <1>8

\* Where the next code of three or four bytes is.
LEMMA StartFacts ==
  ASSUME NEW d \in Seq(Nat), NEW from \in Nat \ {0}, NEW s, s = H!find_next_start(d, from)
  PROVE  \/ /\ s = Len(d) + 1 /\ \A i \in Nat \ {0} : i >= from => i \notin H!Codes(d)
         \/ /\ s \in 1 .. Len(d) /\ s >= from /\ H!StartCode(d, s)
            /\ \A i \in Nat \ {0} : i >= from /\ i < s => i \notin H!Codes(d)
            /\ \A i \in Nat \ {0} : i >= from /\ i + 1 \in H!Codes(d) /\ d[i] = 0 => s <= i
<1> DEFINE Q == {i \in DOMAIN d : H!StartCode(d, i)}
<1>1. Q \in SUBSET Nat /\ \A i \in Q : i \in 1 .. Len(d)
  OBVIOUS
<1>2. s = H!FirstFrom(Q, from, Len(d) + 1)
  BY DEF H!find_next_start, H!None
<1>3. \A i \in Nat \ {0} : i \in Q <=> i \in H!Codes(d) \/ (i + 1 \in H!Codes(d) /\ d[i] = 0)
  BY CodeFacts
<1>4. \A i \in Q : H!StartCode(d, i)
  OBVIOUS
<1> HIDE DEF Q
<1>5. IsFirst(s, Q, from, Len(d) + 1)
  BY <1>1, <1>2, FirstFromFacts
<1>6. CASE s = Len(d) + 1 /\ \A i \in Q : i < from
  BY <1>3, <1>6
<1>7. CASE s \in Q /\ s >= from /\ \A i \in Q : i >= from => s <= i
  <2>1. s \in 1 .. Len(d) /\ H!StartCode(d, s)
    BY <1>1, <1>4, <1>7
  <2> QED BY <1>3, <1>7, <2>1
<1> QED BY <1>5, <1>6, <1>7 DEF IsFirst

\* The bytes of a unit begin behind a code, and no other code is passed over.
LEMMA UnitStart ==
  ASSUME NEW d \in Seq(Nat), NEW from \in Nat \ {0}, NEW s, s = H!find_next_start(d, from),
         s # H!None(d)
  PROVE  \E p \in H!Codes(d) :
           /\ p >= from /\ p + 3 = s + H!sc_len(d, s)
           /\ \A i \in Nat \ {0} : i >= from /\ i < p => i \notin H!Codes(d)
<1>1. /\ s \in 1 .. Len(d) /\ s >= from /\ H!StartCode(d, s)
      /\ \A i \in Nat \ {0} : i >= from /\ i < s => i \notin H!Codes(d)
  BY StartFacts DEF H!None
<1>2. s \in Nat \ {0} /\ s \in DOMAIN d
  BY <1>1
<1>3. H!Codes(d) = {i \in 1 .. Len(d) : H!ShortStartCode(d, i)}
  BY DEF H!Codes
<1>4. CASE d[s + 2] = 1
  <2>1. s \in H!Codes(d)
    BY <1>1, <1>2, <1>3, <1>4 DEF H!StartCode, H!ShortStartCode
  <2>2. H!sc_len(d, s) = 3
    BY <1>4 DEF H!sc_len
  <2> QED BY <1>1, <2>1, <2>2
<1>5. CASE d[s + 2] # 1
  <2>1. s \notin H!Codes(d)
    BY <1>2, <1>5, CodeFacts DEF H!ShortStartCode
  <2>2. s + 1 \in H!Codes(d)
    BY <1>1, <1>2, <2>1, CodeFacts
  <2>3. H!sc_len(d, s) = 4
    BY <1>5 DEF H!sc_len
  <2>4. s + 1 >= from /\ (s + 1) + 3 = s + 4
    BY <1>1
  <2>5. \A i \in Nat \ {0} : i >= from /\ i < s + 1 => i \notin H!Codes(d)
    BY <1>1, <2>1
  <2> QED BY <2>2, <2>3, <2>4, <2>5
<1> QED BY <1>4, <1>5

\* And they end before the next one, with the zero that belongs to it.
LEMMA UnitEnd ==
  ASSUME NEW d \in Seq(Nat), NEW p \in H!Codes(d)
  PROVE  /\ H!End(d, p) \in p + 3 .. Len(d) + 1
         /\ H!find_next_start(d, p + 3) = H!End(d, p)
         /\ \A i \in Nat \ {0} : i > p /\ i < H!End(d, p) => i \notin H!Codes(d)
<1> DEFINE q == H!FirstFrom(H!Codes(d), p + 1, H!None(d))
           e == H!End(d, p)
           s == H!find_next_start(d, p + 3)
<1>1. H!Codes(d) \in SUBSET (Nat \ {0}) /\ H!None(d) = Len(d) + 1 /\ Len(d) \in Nat
  BY DEF H!Codes, H!None
<1>2. \A i \in H!Codes(d) : i + 2 <= Len(d)
  BY DEF H!Codes, H!ShortStartCode
<1>3. p \in Nat \ {0} /\ p + 1 \in Nat \ {0} /\ p + 3 \in Nat \ {0}
  BY <1>1
<1>4. p + 1 \notin H!Codes(d) /\ p + 2 \notin H!Codes(d)
  BY <1>3, CodeFacts
<1>5. IsFirst(q, H!Codes(d), p + 1, Len(d) + 1)
  BY <1>1, <1>3, FirstFromFacts
<1>6. e = IF q # Len(d) + 1 /\ q - 1 >= p + 3 /\ d[q - 1] = 0 THEN q - 1 ELSE q
  BY <1>1 DEF H!End
<1>7. \/ /\ s = Len(d) + 1 /\ \A i \in Nat \ {0} : i >= p + 3 => i \notin H!Codes(d)
      \/ /\ s \in 1 .. Len(d) /\ s >= p + 3 /\ H!StartCode(d, s)
         /\ \A i \in Nat \ {0} : i >= p + 3 /\ i < s => i \notin H!Codes(d)
         /\ \A i \in Nat \ {0} : i >= p + 3 /\ i + 1 \in H!Codes(d) /\ d[i] = 0 => s <= i
  BY <1>3, StartFacts
<1> HIDE DEF q, e, s
<1>8. CASE q = Len(d) + 1 /\ \A i \in H!Codes(d) : i < p + 1
  <2>1. e = Len(d) + 1
    BY <1>6, <1>8
  <2>2. s = Len(d) + 1
    <3>1. SUFFICES ASSUME s \in 1 .. Len(d), s >= p + 3, H!StartCode(d, s) PROVE FALSE
      BY <1>7
    <3>2. s \in Nat \ {0} /\ s \in DOMAIN d
      BY <3>1
    <3>3. s \in H!Codes(d) \/ s + 1 \in H!Codes(d)
      BY <3>1, <3>2, CodeFacts
    <3> QED BY <3>1, <3>3, <1>3, <1>8
  <2>3. p + 3 <= Len(d) + 1
    BY <1>2, <1>3
  <2>4. \A i \in Nat \ {0} : i > p => i \notin H!Codes(d)
    BY <1>3, <1>8
  <2> QED BY <1>1, <1>3, <2>1, <2>2, <2>3, <2>4 DEF e, s
<1>9. CASE q \in H!Codes(d) /\ q >= p + 1 /\ \A i \in H!Codes(d) : i >= p + 1 => q <= i
  <2>1. q \in Nat \ {0} /\ q >= p + 3 /\ q + 2 <= Len(d)
    <3>1. q # p + 1 /\ q # p + 2
      BY <1>4, <1>9
    <3> QED BY <3>1, <1>1, <1>2, <1>3, <1>9
  <2>2. s \in 1 .. Len(d) /\ s >= p + 3 /\ s <= q
    BY <1>7, <1>9, <2>1
  <2>3. s \in H!Codes(d) \/ (s + 1 \in H!Codes(d) /\ d[s] = 0)
    <3>1. s \in Nat \ {0} /\ s \in DOMAIN d /\ H!StartCode(d, s)
      BY <1>7, <2>2
    <3> QED BY <3>1, CodeFacts
  <2>4. s = q \/ (s = q - 1 /\ d[s] = 0)
    <3>1. CASE s \in H!Codes(d)
      BY <3>1, <1>3, <1>9, <2>1, <2>2
    <3>2. CASE s + 1 \in H!Codes(d) /\ d[s] = 0
      <4>1. q <= s + 1
        BY <3>2, <1>3, <1>9, <2>2
      <4> QED BY <4>1, <3>2, <2>1, <2>2
    <3> QED BY <2>3, <3>1, <3>2
  <2>5. q - 1 >= p + 3 /\ d[q - 1] = 0 => s <= q - 1
    <3>1. SUFFICES ASSUME q - 1 >= p + 3, d[q - 1] = 0 PROVE s <= q - 1
      OBVIOUS
    <3>2. q - 1 \in Nat \ {0} /\ (q - 1) + 1 = q
      BY <2>1, <1>3
    <3> QED BY <3>1, <3>2, <1>7, <1>9, <2>2
  <2>6. s = e
    <3>1. CASE q - 1 >= p + 3 /\ d[q - 1] = 0
      BY <3>1, <1>6, <2>1, <2>2, <2>4, <2>5
    <3>2. CASE ~(q - 1 >= p + 3 /\ d[q - 1] = 0)
      <4>1. e = q
        BY <3>2, <1>6
      <4> QED BY <4>1, <3>2, <2>1, <2>2, <2>4
    <3> QED BY <3>1, <3>2
  <2>7. \A i \in Nat \ {0} : i > p /\ i < e => i \notin H!Codes(d)
    BY <1>3, <1>9, <2>1, <2>2, <2>6
  <2> QED BY <1>3, <2>2, <2>6, <2>7, <1>1 DEF e, s
<1> QED BY <1>5, <1>8, <1>9 DEF IsFirst

\* The unit behind a code that begins at i joins the others.
UnitTaken(units, d, i) ==
  IF i \in H!Codes(d) /\ i + 3 < H!End(d, i)
  THEN Append(units, SubSeq(d, i + 3, H!End(d, i) - 1)) ELSE units

\* What a unit of d may be.
Units(d) == {u \in Seq(Nat) : Len(u) \in 1 .. Len(d)}

\* The units that begin up to each position.
UnitsUpTo(units, d) ==
  /\ units \in [0 .. Len(d) -> Seq(Units(d))] /\ units[0] = << >>
  /\ \A i \in Nat : i < Len(d) => units[i + 1] = UnitTaken(units[i], d, i + 1)

LEMMA UnitIsSeq ==
  ASSUME NEW d \in Seq(Nat), NEW p \in H!Codes(d), p + 3 < H!End(d, p)
  PROVE  /\ SubSeq(d, p + 3, H!End(d, p) - 1) \in Seq(Nat)
         /\ Len(SubSeq(d, p + 3, H!End(d, p) - 1)) \in 1 .. Len(d)
<1>1. H!Codes(d) \in SUBSET (Nat \ {0})
  BY DEF H!Codes
<1>2. H!End(d, p) \in p + 3 .. Len(d) + 1
  BY UnitEnd
<1>3. PICK a \in 1 .. Len(d), b \in 1 .. Len(d) : a = p + 3 /\ b = H!End(d, p) - 1 /\ a <= b
  BY <1>1, <1>2
<1>4. SubSeq(d, a, b) \in Seq(Nat) /\ Len(SubSeq(d, a, b)) = b - a + 1
  <2>1. \A i \in a .. b : d[i] \in Nat
    BY <1>3
  <2> QED BY <1>3, <2>1, SubSeqProperties
<1> QED BY <1>3, <1>4

LEMMA UnitsRun ==
  ASSUME NEW d \in Seq(Nat)
  PROVE  \E u : UnitsUpTo(u, d) /\ H!Between(d) = u[Len(d)]
<1>1. PICK n \in Nat : n = Len(d)
  OBVIOUS
<1> DEFINE V == Seq(Units(d))
           term(k, v) == IF k \in H!Codes(d) /\ k + 3 < H!End(d, k)
                        THEN Append(v, SubSeq(d, k + 3, H!End(d, k) - 1)) ELSE v
           step == [x \in Nat \X V |-> IF x[1] \in 1 .. n THEN term(x[1], x[2]) ELSE << >>]
           c == CHOOSE f : f = [k \in 0 .. Len(d) |-> IF k = 0 THEN << >> ELSE term(k, f[k - 1])]
<1>2. H!Between(d) = c[Len(d)]
  BY Zenon DEF H!Between
<1>3. ASSUME NEW k \in 1 .. n, NEW v \in V PROVE term(k, v) \in V
  <2>1. k \in H!Codes(d) /\ k + 3 < H!End(d, k) => SubSeq(d, k + 3, H!End(d, k) - 1) \in Units(d)
    BY UnitIsSeq DEF Units
  <2> HIDE DEF V
  <2>2. V = Seq(Units(d))
    BY DEF V
  <2> QED BY <2>1, <2>2, AppendProperties
<1>4. \A k, v : term(k, v) = UnitTaken(v, d, k)
  BY DEF UnitTaken
<1> HIDE DEF term
<1>5. << >> \in V
  OBVIOUS
<1> HIDE DEF V
<1>6. step \in [Nat \X V -> V]
  BY <1>3, <1>5
<1>7. PICK g \in [0 .. n -> V] : Run(g, n, << >>, step)
  <2> HIDE DEF step
  <2> QED BY <1>5, <1>6, RunExists
<1>8. g = [k \in 0 .. Len(d) |-> IF k = 0 THEN << >> ELSE term(k, g[k - 1])]
  <2>1. ASSUME NEW z \in 1 .. n PROVE g[z] = term(z, g[z - 1])
    <3>1. z - 1 \in Nat /\ z - 1 < n /\ (z - 1) + 1 = z /\ z - 1 \in 0 .. n /\ z \in Nat
      OBVIOUS
    <3>2. g[z] = step[<<z, g[z - 1]>>]
      BY <3>1, <1>7 DEF Run
    <3>3. g[z - 1] \in V
      BY <3>1, <1>7
    <3> QED BY <3>1, <3>2, <3>3
  <2> HIDE DEF step
  <2>2. g[0] = << >> /\ g = [z \in 0 .. n |-> g[z]]
    BY <1>7 DEF Run
  <2>3. ASSUME NEW z \in 0 .. n PROVE g[z] = IF z = 0 THEN << >> ELSE term(z, g[z - 1])
    <3>1. z # 0 => z \in 1 .. n
      OBVIOUS
    <3> QED BY <3>1, <2>1, <2>2
  <2> QED BY <1>1, <2>2, <2>3, Zenon
<1>9. c = [k \in 0 .. Len(d) |-> IF k = 0 THEN << >> ELSE term(k, c[k - 1])]
  BY <1>8
<1> HIDE DEF c, step
<1>10. c[0] = << >> /\ \A z \in Nat : z < n => c[z + 1] = term(z + 1, c[z])
  <2>1. 0 \in 0 .. n /\ \A z \in Nat : z < n => z + 1 \in 0 .. n /\ z + 1 # 0 /\ (z + 1) - 1 = z
    OBVIOUS
  <2>2. c[0] = << >>
    BY <1>1, <1>9, <2>1, Zenon
  <2>3. ASSUME NEW z \in Nat, z < n PROVE c[z + 1] = term(z + 1, c[z])
    <3>1. c[z + 1] = term(z + 1, c[(z + 1) - 1])
      BY <1>1, <1>9, <2>1, <2>3, Zenon
    <3> QED BY <3>1, <2>1, <2>3
  <2> QED BY <2>2, <2>3
<1>11. \A z \in 0 .. n : c[z] \in V
  <2>1. ASSUME NEW z \in Nat, z < n, c[z] \in V PROVE c[z + 1] \in V
    <3>1. z + 1 \in 1 .. n
      BY <2>1
    <3> QED BY <3>1, <2>1, <1>3, <1>10
  <2>2. c[0] \in V
    BY <1>5, <1>10
  <2> QED BY <2>1, <2>2, RunStays
<1>12. c \in [0 .. Len(d) -> V]
  BY <1>1, <1>9, <1>11
<1>13. \A z \in Nat : z < n => c[z] \in V
  BY <1>11
<1>14. UnitsUpTo(c, d)
  BY <1>1, <1>4, <1>10, <1>12 DEF UnitsUpTo, V
<1> QED BY <1>2, <1>14

\* What AnnexBIter holds.
Found == [pos : Nat \ {0}, nals : Seq(Seq(Nat))]

LEMMA NextNalFacts ==
  ASSUME NEW d \in Seq(Nat), NEW v \in Found
  PROVE  \/ /\ H!find_next_start(d, v.pos) = Len(d) + 1 /\ H!NextNal(d, v) = v
            /\ \A i \in Nat \ {0} : i >= v.pos => i \notin H!Codes(d)
         \/ \E p \in H!Codes(d) :
              /\ p >= v.pos /\ \A i \in Nat \ {0} : i >= v.pos /\ i < p => i \notin H!Codes(d)
              /\ H!NextNal(d, v) = [pos  |-> H!End(d, p), nals |-> UnitTaken(v.nals, d, p)]
<1> DEFINE s == H!find_next_start(d, v.pos)
<1>1. v.pos \in Nat \ {0} /\ H!None(d) = Len(d) + 1
  BY DEF Found, H!None
<1>2. CASE s = H!None(d)
  <2>1. H!NextNal(d, v) = v
    BY <1>2 DEF H!NextNal
  <2>2. \A i \in Nat \ {0} : i >= v.pos => i \notin H!Codes(d)
    BY <1>1, <1>2, StartFacts
  <2> QED BY <1>1, <1>2, <2>1, <2>2
<1>3. CASE s # H!None(d)
  <2>1. PICK p \in H!Codes(d) :
          /\ p >= v.pos /\ p + 3 = s + H!sc_len(d, s)
          /\ \A i \in Nat \ {0} : i >= v.pos /\ i < p => i \notin H!Codes(d)
    BY <1>1, <1>3, UnitStart
  <2>2. H!End(d, p) \in p + 3 .. Len(d) + 1 /\ H!find_next_start(d, p + 3) = H!End(d, p)
    BY UnitEnd
  <2>3. H!NextNal(d, v) =
          [pos |-> H!End(d, p), nals |-> IF p + 3 = H!End(d, p) THEN v.nals
                                         ELSE Append(v.nals, SubSeq(d, p + 3, H!End(d, p) - 1))]
    BY <1>3, <2>1, <2>2 DEF H!NextNal
  <2>4. (p + 3 = H!End(d, p)) = ~(p + 3 < H!End(d, p))
    <3>1. p \in Nat
      BY DEF H!Codes
    <3> QED BY <3>1, <2>2
  <2>5. H!NextNal(d, v) = [pos  |-> H!End(d, p), nals |-> UnitTaken(v.nals, d, p)]
    BY <2>3, <2>4 DEF UnitTaken
  <2> QED BY <2>1, <2>5
<1> QED BY <1>2, <1>3

LEMMA NextNalFound ==
  ASSUME NEW d \in Seq(Nat), NEW v \in Found PROVE H!NextNal(d, v) \in Found
<1>1. CASE H!NextNal(d, v) = v
  BY <1>1
<1>2. CASE H!NextNal(d, v) # v
  <2>1. PICK p \in H!Codes(d) :
          H!NextNal(d, v) = [pos  |-> H!End(d, p), nals |-> UnitTaken(v.nals, d, p)]
    BY <1>2, NextNalFacts
  <2>2. H!End(d, p) \in Nat \ {0}
    <3>1. p \in Nat /\ Len(d) \in Nat
      BY DEF H!Codes
    <3>2. H!End(d, p) \in p + 3 .. Len(d) + 1
      BY UnitEnd
    <3> QED BY <3>1, <3>2
  <2>3. UnitTaken(v.nals, d, p) \in Seq(Seq(Nat))
    <3>1. v.nals \in Seq(Seq(Nat))
      BY DEF Found
    <3> QED BY <3>1, UnitIsSeq, AppendProperties DEF UnitTaken
  <2> QED BY <2>1, <2>2, <2>3 DEF Found
<1> QED BY <1>1, <1>2

LEMMA NalsRun ==
  ASSUME NEW d \in Seq(Nat)
  PROVE  \E at : /\ at \in [0 .. Len(d) -> Found] /\ at[0] = [pos |-> 1, nals |-> << >>]
                 /\ \A k \in Nat : k < Len(d) => at[k + 1] = H!NextNal(d, at[k])
                 /\ H!Nals(d) = at[Len(d)].nals
<1>1. PICK n \in Nat : n = Len(d)
  OBVIOUS
<1> DEFINE V == Found
           term(k, v) == H!NextNal(d, v)
           step == [x \in Nat \X V |-> IF x[1] \in 1 .. n THEN term(x[1], x[2])
                                       ELSE [pos |-> 1, nals |-> << >>]]
           c == CHOOSE f :
                  f = [k \in 0 .. Len(d) |->
                       IF k = 0 THEN [pos |-> 1, nals |-> << >>] ELSE term(k, f[k - 1])]
<1>2. H!Nals(d) = c[Len(d)].nals
  BY Zenon DEF H!Nals
<1>3. ASSUME NEW k \in 1 .. n, NEW v \in V PROVE term(k, v) \in V
  BY NextNalFound
<1> HIDE DEF term
<1>5. [pos |-> 1, nals |-> << >>] \in V
  BY DEF Found
<1> HIDE DEF V
<1>6. step \in [Nat \X V -> V]
  BY <1>3, <1>5
<1>7. PICK g \in [0 .. n -> V] : Run(g, n, [pos |-> 1, nals |-> << >>], step)
  <2> HIDE DEF step
  <2> QED BY <1>5, <1>6, RunExists
<1>8. g = [k \in 0 .. Len(d) |-> IF k = 0 THEN [pos |-> 1, nals |-> << >>] ELSE term(k, g[k - 1])]
  <2>1. ASSUME NEW z \in 1 .. n PROVE g[z] = term(z, g[z - 1])
    <3>1. z - 1 \in Nat /\ z - 1 < n /\ (z - 1) + 1 = z /\ z - 1 \in 0 .. n /\ z \in Nat
      OBVIOUS
    <3>2. g[z] = step[<<z, g[z - 1]>>]
      BY <3>1, <1>7 DEF Run
    <3>3. g[z - 1] \in V
      BY <3>1, <1>7
    <3> QED BY <3>1, <3>2, <3>3
  <2> HIDE DEF step
  <2>2. g[0] = [pos |-> 1, nals |-> << >>] /\ g = [z \in 0 .. n |-> g[z]]
    BY <1>7 DEF Run
  <2>3. ASSUME NEW z \in 0 .. n
        PROVE  g[z] = IF z = 0 THEN [pos |-> 1, nals |-> << >>] ELSE term(z, g[z - 1])
    <3>1. z # 0 => z \in 1 .. n
      OBVIOUS
    <3> QED BY <3>1, <2>1, <2>2
  <2> QED BY <1>1, <2>2, <2>3, Zenon
<1>9. c = [k \in 0 .. Len(d) |-> IF k = 0 THEN [pos |-> 1, nals |-> << >>] ELSE term(k, c[k - 1])]
  BY <1>8
<1> HIDE DEF c, step
<1>10. c[0] = [pos |-> 1, nals |-> << >>] /\ \A z \in Nat : z < n => c[z + 1] = term(z + 1, c[z])
  <2>1. 0 \in 0 .. n /\ \A z \in Nat : z < n => z + 1 \in 0 .. n /\ z + 1 # 0 /\ (z + 1) - 1 = z
    OBVIOUS
  <2>2. c[0] = [pos |-> 1, nals |-> << >>]
    BY <1>1, <1>9, <2>1, Zenon
  <2>3. ASSUME NEW z \in Nat, z < n PROVE c[z + 1] = term(z + 1, c[z])
    <3>1. c[z + 1] = term(z + 1, c[(z + 1) - 1])
      BY <1>1, <1>9, <2>1, <2>3, Zenon
    <3> QED BY <3>1, <2>1, <2>3
  <2> QED BY <2>2, <2>3
<1>11. \A z \in 0 .. n : c[z] \in V
  <2>1. ASSUME NEW z \in Nat, z < n, c[z] \in V PROVE c[z + 1] \in V
    <3>1. z + 1 \in 1 .. n
      BY <2>1
    <3> QED BY <3>1, <2>1, <1>3, <1>10
  <2>2. c[0] \in V
    BY <1>5, <1>10
  <2> QED BY <2>1, <2>2, RunStays
<1>12. c \in [0 .. Len(d) -> V]
  BY <1>1, <1>9, <1>11
<1>13. \A z \in Nat : z < n => c[z] \in V
  BY <1>11
<1> QED BY <1>1, <1>2, <1>10, <1>12 DEF V, term

\* Where no code begins, no unit is added.
LEMMA UnitsQuiet ==
  ASSUME NEW d \in Seq(Nat), NEW units, UnitsUpTo(units, d), NEW a \in 0 .. Len(d),
         NEW b \in a .. Len(d), \A i \in Nat \ {0} : i > a /\ i <= b => i \notin H!Codes(d)
  PROVE  units[b] = units[a]
<1> DEFINE M == {k \in Nat : a + k <= b => units[a + k] = units[a]}
<1>1. a \in Nat /\ b \in Nat /\ a <= b /\ b <= Len(d) /\ Len(d) \in Nat
  OBVIOUS
<1>2. 0 \in M
  BY <1>1
<1>3. ASSUME NEW k \in M PROVE k + 1 \in M
  <2>1. SUFFICES ASSUME a + (k + 1) <= b PROVE units[a + (k + 1)] = units[a]
    OBVIOUS
  <2>2. k \in Nat /\ units[a + k] = units[a]
    BY <1>1, <2>1
  <2>3. a + k \in Nat /\ a + k < Len(d) /\ a + (k + 1) = (a + k) + 1
    BY <1>1, <2>1, <2>2
  <2>4. units[(a + k) + 1] = UnitTaken(units[a + k], d, (a + k) + 1)
    BY <2>3 DEF UnitsUpTo
  <2>5. (a + k) + 1 \notin H!Codes(d)
    BY <1>1, <2>1, <2>2
  <2> QED BY <2>2, <2>3, <2>4, <2>5 DEF UnitTaken
<1>4. b - a \in M
  <2>1. M \in SUBSET Nat
    OBVIOUS
  <2> HIDE DEF M
  <2>2. \A k \in Nat : k \in M
    BY <1>2, <1>3, <2>1, Counting
  <2> QED BY <2>2, <1>1
<1>5. a + (b - a) = b
  BY <1>1
<1> QED BY <1>4, <1>5

\* For every sequence of bytes: the units are what stands between the codes.
LEMMA NalsBetween ==
  ASSUME NEW d \in Seq(Nat) PROVE H!Nals(d) = H!Between(d) /\ H!Nals(d) \in Seq(Units(d))
<1>1. PICK units : UnitsUpTo(units, d) /\ H!Between(d) = units[Len(d)]
  BY UnitsRun
<1>2. PICK at : /\ at \in [0 .. Len(d) -> Found] /\ at[0] = [pos |-> 1, nals |-> << >>]
                /\ \A k \in Nat : k < Len(d) => at[k + 1] = H!NextNal(d, at[k])
                /\ H!Nals(d) = at[Len(d)].nals
  BY NalsRun
<1> DEFINE Ended(k) == \A i \in Nat \ {0} : i >= at[k].pos => i \notin H!Codes(d)
           Holds(k) == /\ at[k].pos \in 1 .. Len(d) + 1 /\ at[k].nals = units[at[k].pos - 1]
                       /\ at[k].pos > k \/ Ended(k)
<1>3. Len(d) \in Nat /\ H!Codes(d) \in SUBSET (1 .. Len(d))
  BY DEF H!Codes
<1>4. Holds(0)
  BY <1>1, <1>2, <1>3 DEF UnitsUpTo
<1>5. ASSUME NEW k \in Nat, k < Len(d), Holds(k) PROVE Holds(k + 1)
  <2>1. at[k] \in Found /\ at[k + 1] = H!NextNal(d, at[k])
    BY <1>2, <1>5
  <2>2. CASE at[k + 1] = at[k] /\ Ended(k)
    BY <2>2, <1>5
  <2>3. ASSUME NEW p \in H!Codes(d), p >= at[k].pos,
               \A i \in Nat \ {0} : i >= at[k].pos /\ i < p => i \notin H!Codes(d),
               at[k + 1] = [pos |-> H!End(d, p), nals |-> UnitTaken(at[k].nals, d, p)]
        PROVE  Holds(k + 1)
    <3>1. PICK x \in 1 .. Len(d) + 1 : x = at[k].pos
      BY <1>5
    <3>2. PICK e \in p + 3 .. Len(d) + 1 : e = H!End(d, p)
      BY UnitEnd
    <3>3. \A i \in Nat \ {0} : i > p /\ i < e => i \notin H!Codes(d)
      BY <3>2, UnitEnd
    <3>4. p \in Nat \ {0} /\ p <= Len(d) /\ x <= p /\ x \in Nat \ {0} /\ e \in Nat \ {0}
      BY <1>3, <2>3, <3>1, <3>2
    <3>5. units[p - 1] = units[x - 1]
      <4>1. PICK a \in 0 .. Len(d), b \in 0 .. Len(d) : a = x - 1 /\ b = p - 1
        BY <1>3, <3>4
      <4>2. b \in a .. Len(d)
        BY <3>4, <4>1
      <4>3. \A i \in Nat \ {0} : i > a /\ i <= b => i \notin H!Codes(d)
        <5>1. \A i \in Nat \ {0} : i > a /\ i <= b => i >= x /\ i < p
          BY <3>4, <4>1
        <5> QED BY <5>1, <2>3, <3>1
      <4>4. units[b] = units[a]
        BY <1>1, <4>2, <4>3, UnitsQuiet
      <4> QED BY <4>1, <4>4
    <3>6. units[p] = UnitTaken(units[p - 1], d, p)
      <4>1. p - 1 \in Nat /\ p - 1 < Len(d) /\ (p - 1) + 1 = p
        BY <1>3, <3>4
      <4>2. units[(p - 1) + 1] = UnitTaken(units[p - 1], d, (p - 1) + 1)
        BY <1>1, <4>1 DEF UnitsUpTo
      <4> QED BY <4>1, <4>2
    <3>7. units[e - 1] = units[p]
      <4>1. p \in 0 .. Len(d) /\ e - 1 \in p .. Len(d)
        BY <1>3, <3>2, <3>4
      <4>2. \A i \in Nat \ {0} : i > p /\ i <= e - 1 => i \notin H!Codes(d)
        BY <3>3, <3>4
      <4> QED BY <1>1, <4>1, <4>2, UnitsQuiet
    <3>8. at[k + 1].pos = e /\ at[k + 1].nals = units[e - 1]
      BY <2>3, <1>5, <3>1, <3>2, <3>5, <3>6, <3>7
    <3>9. at[k + 1].pos > k + 1 \/ Ended(k + 1)
      <4>1. CASE x > k
        BY <4>1, <3>2, <3>4, <3>8
      <4>2. CASE Ended(k)
        BY <4>2, <3>1, <3>4
      <4> QED BY <4>1, <4>2, <1>5, <3>1
    <3>10. e \in 1 .. Len(d) + 1
      BY <3>2, <3>4
    <3> QED BY <3>8, <3>9, <3>10
  <2> HIDE DEF Holds
  <2>4. \/ H!NextNal(d, at[k]) = at[k] /\ Ended(k)
        \/ \E p \in H!Codes(d) :
             /\ p >= at[k].pos
             /\ \A i \in Nat \ {0} : i >= at[k].pos /\ i < p => i \notin H!Codes(d)
             /\ H!NextNal(d, at[k]) = [pos |-> H!End(d, p), nals |-> UnitTaken(at[k].nals, d, p)]
    BY <2>1, NextNalFacts
  <2> QED BY <2>1, <2>2, <2>3, <2>4
<1>6. Holds(Len(d))
  <2> DEFINE M == {k \in Nat : k <= Len(d) => Holds(k)}
  <2>1. M \in SUBSET Nat /\ 0 \in M /\ \A k \in M : k + 1 \in M
    <3> HIDE DEF Holds
    <3> QED BY <1>3, <1>4, <1>5
  <2> HIDE DEF M, In
  <2>2. \A k \in Nat : k \in M
    BY <2>1, Counting
  <2> QED BY <2>2, <1>3 DEF M
<1>7. at[Len(d)].nals = units[Len(d)]
  <2>1. PICK x \in 1 .. Len(d) + 1 : x = at[Len(d)].pos
    BY <1>6
  <2>2. \A i \in Nat \ {0} : i > x - 1 /\ i <= Len(d) => i \notin H!Codes(d)
    <3>1. CASE x > Len(d)
      BY <3>1, <1>3, <2>1
    <3>2. CASE Ended(Len(d))
      BY <3>2, <1>3, <2>1
    <3> QED BY <3>1, <3>2, <1>6, <2>1
  <2>3. x - 1 \in 0 .. Len(d) /\ Len(d) \in x - 1 .. Len(d)
    BY <1>3, <2>1
  <2>4. units[Len(d)] = units[x - 1]
    BY <1>1, <2>2, <2>3, UnitsQuiet
  <2> QED BY <1>6, <2>1, <2>4
<1>8. units[Len(d)] \in Seq(Units(d))
  BY <1>1, <1>3 DEF UnitsUpTo
<1> QED BY <1>1, <1>2, <1>7, <1>8

-----------------------------------------------------------------------------
(* Length prefixes *)

LEMMA Byte == ASSUME NEW n \in Nat PROVE \E q \in Nat : \E r \in 0 .. 255 : n = 256 * q + r
<1>1. PICK m \in Nat \ {0} : m = 256
  OBVIOUS
<1>2. n \div m \in Nat /\ n % m \in 0 .. m - 1 /\ n = m * (n \div m) + (n % m)
  OBVIOUS
<1> QED BY <1>1, <1>2

\* A length of 32 bits comes back from its four bytes.
In32Bits(n) == n < 4294967296

LEMMA LengthBytes ==
  ASSUME NEW n \in Nat, In32Bits(n) PROVE H!be_bytes_at(H!to_be_bytes(n), 1) = n
<1>1. PICK q1 \in Nat, b4 \in 0 .. 255 : n = 256 * q1 + b4
  BY Byte
<1>2. PICK q2 \in Nat, b3 \in 0 .. 255 : q1 = 256 * q2 + b3
  BY Byte
<1>3. PICK q3 \in Nat, b2 \in 0 .. 255 : q2 = 256 * q3 + b2
  BY Byte
<1>4. q3 \in 0 .. 255
  BY <1>1, <1>2, <1>3, SMT DEF In32Bits
<1>5. n \div 256 = q1 /\ n % 256 = b4
  BY <1>1
<1>6. n \div 65536 = q2
  BY <1>1, <1>2, SMT
<1>7. n \div 16777216 = q3
  BY <1>1, <1>2, <1>3, SMT
<1>8. q1 % 256 = b3 /\ q2 % 256 = b2 /\ q3 % 256 = q3
  BY <1>2, <1>3, <1>4
<1>9. H!to_be_bytes(n) = <<q3, b2, b3, b4>>
  BY <1>5, <1>6, <1>7, <1>8, SMT DEF H!to_be_bytes
<1>10. q3 * 16777216 + b2 * 65536 + b3 * 256 + b4 = n
  BY <1>1, <1>2, <1>3, SMT
<1> QED BY <1>9, <1>10, SMT DEF H!be_bytes_at

LEMMA FourBytes ==
  ASSUME NEW n \in Nat
  PROVE  H!to_be_bytes(n) \in Seq(Nat) /\ Len(H!to_be_bytes(n)) = 4
<1>1. \A m \in Nat : m % 256 \in Nat
  OBVIOUS
<1>2. n \div 16777216 \in Nat /\ n \div 65536 \in Nat /\ n \div 256 \in Nat
  BY SMT
<1>3. PICK a \in Nat, b \in Nat, c \in Nat, e \in Nat :
        a = (n \div 16777216) % 256 /\ b = (n \div 65536) % 256 /\ c = (n \div 256) % 256
          /\ e = n % 256
  BY <1>1, <1>2, SMT
<1>4. H!to_be_bytes(n) = <<a, b, c, e>>
  BY <1>3, SMT DEF H!to_be_bytes
<1> QED BY <1>4

LEMMA BytesJoined ==
  ASSUME NEW a \in Seq(Nat), NEW b \in Seq(Nat)
  PROVE  /\ a \o b \in Seq(Nat) /\ Len(a) \in Nat /\ Len(b) \in Nat
         /\ Len(a \o b) = Len(a) + Len(b)
         /\ \A i \in 1 .. Len(a) : (a \o b)[i] = a[i]
         /\ \A i \in 1 .. Len(b) : (a \o b)[Len(a) + i] = b[i]
<1>1. /\ a \o b \in Seq(Nat) /\ Len(a \o b) = Len(a) + Len(b)
      /\ \A i \in 1 .. Len(a) + Len(b) :
           (a \o b)[i] = IF i <= Len(a) THEN a[i] ELSE b[i - Len(a)]
  BY ConcatProperties
<1>2. Len(a) \in Nat /\ Len(b) \in Nat
  OBVIOUS
<1>3. \A i \in 1 .. Len(a) : i \in 1 .. Len(a) + Len(b) /\ i <= Len(a)
  BY <1>2
<1>4. \A i \in 1 .. Len(b) : /\ Len(a) + i \in 1 .. Len(a) + Len(b)
                             /\ ~(Len(a) + i <= Len(a)) /\ (Len(a) + i) - Len(a) = i
  BY <1>2
<1> QED BY <1>1, <1>2, <1>3, <1>4

LEMMA BytesAssociate ==
  ASSUME NEW a \in Seq(Nat), NEW b \in Seq(Nat), NEW e \in Seq(Nat)
  PROVE  (a \o b) \o e = a \o (b \o e)
BY ConcatAssociative

\* What one unit adds to the sample.
Sized(nal) == H!to_be_bytes(Len(nal)) \o nal

\* The sample after each unit.
Sampled(out, nals) ==
  /\ out \in [0 .. Len(nals) -> Seq(Nat)] /\ out[0] = << >>
  /\ \A k \in Nat : k < Len(nals) => out[k + 1] = out[k] \o Sized(nals[k + 1])

LEMMA SizedFacts ==
  ASSUME NEW nal \in Seq(Nat)
  PROVE  /\ Sized(nal) \in Seq(Nat) /\ Len(Sized(nal)) = 4 + Len(nal)
         /\ \A i \in 1 .. 4 : Sized(nal)[i] = H!to_be_bytes(Len(nal))[i]
         /\ \A i \in 1 .. Len(nal) : Sized(nal)[4 + i] = nal[i]
<1>1. Len(nal) \in Nat
  OBVIOUS
<1>2. H!to_be_bytes(Len(nal)) \in Seq(Nat) /\ Len(H!to_be_bytes(Len(nal))) = 4
  BY <1>1, FourBytes
<1>3. PICK b \in Seq(Nat) : b = H!to_be_bytes(Len(nal)) /\ Len(b) = 4
  BY <1>2
<1>4. Sized(nal) = b \o nal
  BY <1>3 DEF Sized
<1>5. /\ b \o nal \in Seq(Nat) /\ Len(b \o nal) = 4 + Len(nal)
      /\ \A i \in 1 .. 4 + Len(nal) : (b \o nal)[i] = IF i <= 4 THEN b[i] ELSE nal[i - 4]
  <2>1. /\ b \o nal \in Seq(Nat) /\ Len(b \o nal) = Len(b) + Len(nal)
        /\ \A i \in 1 .. Len(b) + Len(nal) :
             (b \o nal)[i] = IF i <= Len(b) THEN b[i] ELSE nal[i - Len(b)]
    BY ConcatProperties
  <2>2. Len(b) = 4
    BY <1>3
  <2> QED BY <2>1, <2>2
<1>6. \A i \in 1 .. Len(nal) : 4 + i \in 1 .. 4 + Len(nal) /\ ~(4 + i <= 4) /\ (4 + i) - 4 = i
  BY <1>1
<1>7. \A i \in 1 .. 4 : i \in 1 .. 4 + Len(nal) /\ i <= 4
  BY <1>1
<1> QED BY <1>3, <1>4, <1>5, <1>6, <1>7

LEMMA WrittenRun ==
  ASSUME NEW nals \in Seq(Seq(Nat))
  PROVE  \E out : Sampled(out, nals) /\ H!LengthPrefixed(nals) = out[Len(nals)]
<1>1. PICK n \in Nat : n = Len(nals)
  OBVIOUS
<1> DEFINE V == Seq(Nat)
           term(k, v) == v \o H!to_be_bytes(Len(nals[k])) \o nals[k]
           step == [x \in Nat \X V |-> IF x[1] \in 1 .. n THEN term(x[1], x[2]) ELSE << >>]
           c == CHOOSE f : f = [k \in 0 .. Len(nals) |-> IF k = 0 THEN << >> ELSE term(k, f[k - 1])]
<1>2. H!LengthPrefixed(nals) = c[Len(nals)]
  BY Zenon DEF H!LengthPrefixed
<1>3. ASSUME NEW k \in 1 .. n, NEW v \in V PROVE term(k, v) \in V
  <2>1. nals[k] \in Seq(Nat) /\ Len(nals[k]) \in Nat
    BY <1>1
  <2>2. H!to_be_bytes(Len(nals[k])) \in Seq(Nat)
    BY <2>1, FourBytes
  <2> QED BY <2>1, <2>2, ConcatProperties
<1>4. \A k \in 1 .. n : \A v \in V : term(k, v) = v \o Sized(nals[k])
  <2>1. ASSUME NEW k \in 1 .. n, NEW v \in V PROVE term(k, v) = v \o Sized(nals[k])
    <3>1. nals[k] \in Seq(Nat) /\ Len(nals[k]) \in Nat
      BY <1>1
    <3>2. PICK a \in Seq(Nat), b \in Seq(Nat), e \in Seq(Nat) :
            a = v /\ b = H!to_be_bytes(Len(nals[k])) /\ e = nals[k]
      BY <3>1, FourBytes
    <3>3. (a \o b) \o e = a \o (b \o e)
      BY BytesAssociate
    <3> QED BY <3>2, <3>3 DEF Sized
  <2> QED BY <2>1
<1> HIDE DEF term
<1>5. << >> \in V
  OBVIOUS
<1> HIDE DEF V
<1>6. step \in [Nat \X V -> V]
  BY <1>3, <1>5
<1>7. PICK g \in [0 .. n -> V] : Run(g, n, << >>, step)
  <2> HIDE DEF step
  <2> QED BY <1>5, <1>6, RunExists
<1>8. g = [k \in 0 .. Len(nals) |-> IF k = 0 THEN << >> ELSE term(k, g[k - 1])]
  <2>1. ASSUME NEW z \in 1 .. n PROVE g[z] = term(z, g[z - 1])
    <3>1. z - 1 \in Nat /\ z - 1 < n /\ (z - 1) + 1 = z /\ z - 1 \in 0 .. n /\ z \in Nat
      OBVIOUS
    <3>2. g[z] = step[<<z, g[z - 1]>>]
      BY <3>1, <1>7 DEF Run
    <3>3. g[z - 1] \in V
      BY <3>1, <1>7
    <3> QED BY <3>1, <3>2, <3>3
  <2> HIDE DEF step
  <2>2. g[0] = << >> /\ g = [z \in 0 .. n |-> g[z]]
    BY <1>7 DEF Run
  <2>3. ASSUME NEW z \in 0 .. n PROVE g[z] = IF z = 0 THEN << >> ELSE term(z, g[z - 1])
    <3>1. z # 0 => z \in 1 .. n
      OBVIOUS
    <3> QED BY <3>1, <2>1, <2>2
  <2> QED BY <1>1, <2>2, <2>3, Zenon
<1>9. c = [k \in 0 .. Len(nals) |-> IF k = 0 THEN << >> ELSE term(k, c[k - 1])]
  BY <1>8
<1> HIDE DEF c, step
<1>10. c[0] = << >> /\ \A z \in Nat : z < n => c[z + 1] = term(z + 1, c[z])
  <2>1. 0 \in 0 .. n /\ \A z \in Nat : z < n => z + 1 \in 0 .. n /\ z + 1 # 0 /\ (z + 1) - 1 = z
    OBVIOUS
  <2>2. c[0] = << >>
    BY <1>1, <1>9, <2>1, Zenon
  <2>3. ASSUME NEW z \in Nat, z < n PROVE c[z + 1] = term(z + 1, c[z])
    <3>1. c[z + 1] = term(z + 1, c[(z + 1) - 1])
      BY <1>1, <1>9, <2>1, <2>3, Zenon
    <3> QED BY <3>1, <2>1, <2>3
  <2> QED BY <2>2, <2>3
<1>11. \A z \in 0 .. n : c[z] \in V
  <2>1. ASSUME NEW z \in Nat, z < n, c[z] \in V PROVE c[z + 1] \in V
    <3>1. z + 1 \in 1 .. n
      BY <2>1
    <3> QED BY <3>1, <2>1, <1>3, <1>10
  <2>2. c[0] \in V
    BY <1>5, <1>10
  <2> QED BY <2>1, <2>2, RunStays
<1>12. c \in [0 .. Len(nals) -> V]
  BY <1>1, <1>9, <1>11
<1>13. \A z \in Nat : z < n => c[z] \in V
  BY <1>11
<1>14. \A z \in Nat : z < n => c[z + 1] = c[z] \o Sized(nals[z + 1])
  <2>1. \A z \in Nat : z < n => z + 1 \in 1 .. n
    OBVIOUS
  <2> QED BY <2>1, <1>4, <1>10, <1>13
<1>15. Sampled(c, nals)
  BY <1>1, <1>10, <1>12, <1>14 DEF Sampled, V
<1> QED BY <1>2, <1>15

LEMMA SizeRun ==
  ASSUME NEW nals \in Seq(Seq(Nat))
  PROVE  \E size : /\ size \in [0 .. Len(nals) -> Nat] /\ size[0] = 0
                   /\ \A k \in Nat : k < Len(nals) => size[k + 1] = size[k] + 4 + Len(nals[k + 1])
                   /\ H!frame_size(nals) = size[Len(nals)]
<1>1. PICK n \in Nat : n = Len(nals)
  OBVIOUS
<1> DEFINE V == Nat
           term(k, v) == v + 4 + Len(nals[k])
           step == [x \in Nat \X V |-> IF x[1] \in 1 .. n THEN term(x[1], x[2]) ELSE 0]
           c == CHOOSE f : f = [k \in 0 .. Len(nals) |-> IF k = 0 THEN 0 ELSE term(k, f[k - 1])]
<1>2. H!frame_size(nals) = c[Len(nals)]
  BY Zenon DEF H!frame_size
<1>3. ASSUME NEW k \in 1 .. n, NEW v \in V PROVE term(k, v) \in V
  <2>1. nals[k] \in Seq(Nat) /\ Len(nals[k]) \in Nat
    BY <1>1
  <2>2. PICK m \in Nat : m = Len(nals[k])
    BY <2>1
  <2>3. v + 4 + m \in Nat
    OBVIOUS
  <2> QED BY <2>2, <2>3
<1> HIDE DEF term
<1>5. 0 \in V
  OBVIOUS
<1> HIDE DEF V
<1>6. step \in [Nat \X V -> V]
  BY <1>3, <1>5
<1>7. PICK g \in [0 .. n -> V] : Run(g, n, 0, step)
  <2> HIDE DEF step
  <2> QED BY <1>5, <1>6, RunExists
<1>8. g = [k \in 0 .. Len(nals) |-> IF k = 0 THEN 0 ELSE term(k, g[k - 1])]
  <2>1. ASSUME NEW z \in 1 .. n PROVE g[z] = term(z, g[z - 1])
    <3>1. z - 1 \in Nat /\ z - 1 < n /\ (z - 1) + 1 = z /\ z - 1 \in 0 .. n /\ z \in Nat
      OBVIOUS
    <3>2. g[z] = step[<<z, g[z - 1]>>]
      BY <3>1, <1>7 DEF Run
    <3>3. g[z - 1] \in V
      BY <3>1, <1>7
    <3> QED BY <3>1, <3>2, <3>3
  <2> HIDE DEF step
  <2>2. g[0] = 0 /\ g = [z \in 0 .. n |-> g[z]]
    BY <1>7 DEF Run
  <2>3. ASSUME NEW z \in 0 .. n PROVE g[z] = IF z = 0 THEN 0 ELSE term(z, g[z - 1])
    <3>1. z # 0 => z \in 1 .. n
      OBVIOUS
    <3> QED BY <3>1, <2>1, <2>2
  <2> QED BY <1>1, <2>2, <2>3, Zenon
<1>9. c = [k \in 0 .. Len(nals) |-> IF k = 0 THEN 0 ELSE term(k, c[k - 1])]
  BY <1>8
<1> HIDE DEF c, step
<1>10. c[0] = 0 /\ \A z \in Nat : z < n => c[z + 1] = term(z + 1, c[z])
  <2>1. 0 \in 0 .. n /\ \A z \in Nat : z < n => z + 1 \in 0 .. n /\ z + 1 # 0 /\ (z + 1) - 1 = z
    OBVIOUS
  <2>2. c[0] = 0
    BY <1>1, <1>9, <2>1, Zenon
  <2>3. ASSUME NEW z \in Nat, z < n PROVE c[z + 1] = term(z + 1, c[z])
    <3>1. c[z + 1] = term(z + 1, c[(z + 1) - 1])
      BY <1>1, <1>9, <2>1, <2>3, Zenon
    <3> QED BY <3>1, <2>1, <2>3
  <2> QED BY <2>2, <2>3
<1>11. \A z \in 0 .. n : c[z] \in V
  <2>1. ASSUME NEW z \in Nat, z < n, c[z] \in V PROVE c[z + 1] \in V
    <3>1. z + 1 \in 1 .. n
      BY <2>1
    <3> QED BY <3>1, <2>1, <1>3, <1>10
  <2>2. c[0] \in V
    BY <1>5, <1>10
  <2> QED BY <2>1, <2>2, RunStays
<1>12. c \in [0 .. Len(nals) -> V]
  BY <1>1, <1>9, <1>11
<1>13. \A z \in Nat : z < n => c[z] \in V
  BY <1>11
<1> QED BY <1>1, <1>2, <1>10, <1>12 DEF V, term

\* A shorter sample is the beginning of a longer one.
Begins(u, v) == Len(u) <= Len(v) /\ \A i \in 1 .. Len(u) : v[i] = u[i]

LEMMA WrittenGrows ==
  ASSUME NEW nals \in Seq(Seq(Nat)), NEW out, Sampled(out, nals),
         NEW a \in 0 .. Len(nals), NEW b \in a .. Len(nals)
  PROVE  Begins(out[a], out[b])
<1> DEFINE n == Len(nals)
           M == {k \in Nat : a + k <= b => Begins(out[a], out[a + k])}
<1>1. a \in Nat /\ b \in Nat /\ a <= b /\ b <= n /\ n \in Nat
  OBVIOUS
<1>2. \A k \in 0 .. n : out[k] \in Seq(Nat) /\ Len(out[k]) \in Nat
  BY DEF Sampled
<1>3. 0 \in M
  BY <1>1, <1>2 DEF Begins
<1>4. ASSUME NEW k \in M PROVE k + 1 \in M
  <2>1. SUFFICES ASSUME a + (k + 1) <= b PROVE Begins(out[a], out[a + (k + 1)])
    OBVIOUS
  <2>2. k \in Nat /\ Begins(out[a], out[a + k])
    BY <1>1, <2>1
  <2>3. PICK j \in Nat : j = a + k /\ j < n /\ a + (k + 1) = j + 1
    BY <1>1, <2>1, <2>2
  <2>4. out[j + 1] = out[j] \o Sized(nals[j + 1])
    BY <2>3 DEF Sampled
  <2>5. nals[j + 1] \in Seq(Nat)
    BY <1>1, <2>3
  <2>6. Sized(nals[j + 1]) \in Seq(Nat)
    BY <2>5, SizedFacts
  <2>7. out[j] \in Seq(Nat) /\ Len(out[j]) \in Nat /\ Len(out[a]) \in Nat
    BY <1>1, <1>2, <2>3
  <2>8. PICK u \in Seq(Nat), v \in Seq(Nat) : u = out[j] /\ v = Sized(nals[j + 1])
    BY <2>6, <2>7
  <2>9. Len(u) \in Nat /\ Len(v) \in Nat /\ Len(u \o v) = Len(u) + Len(v)
        /\ \A i \in 1 .. Len(u) : (u \o v)[i] = u[i]
    BY BytesJoined
  <2>10. Begins(out[a], u \o v)
    <3>1. Begins(out[a], u)
      BY <2>2, <2>3, <2>8
    <3>2. Len(out[a]) <= Len(u) /\ \A i \in 1 .. Len(out[a]) : i \in 1 .. Len(u)
            /\ u[i] = out[a][i]
      BY <3>1, <2>7, <2>9 DEF Begins
    <3> QED BY <3>2, <2>7, <2>9 DEF Begins
  <2> QED BY <2>3, <2>4, <2>8, <2>10
<1>5. b - a \in M
  <2>1. M \in SUBSET Nat
    OBVIOUS
  <2> HIDE DEF M
  <2>2. \A k \in Nat : k \in M
    BY <1>3, <1>4, <2>1, Counting
  <2> QED BY <2>2, <1>1
<1>6. a + (b - a) = b
  BY <1>1
<1> QED BY <1>5, <1>6

\* Where a player is that has read k units of a sample.
ReadUpTo(out, nals, k) == [pos |-> 1 + Len(out[k]), nals |-> SubSeq(nals, 1, k)]

\* A player that is in step with the writer reads the next unit, and stops at the end.
LEMMA ReadsNext ==
  ASSUME NEW nals \in Seq(Seq(Nat)), NEW out, Sampled(out, nals),
         \A i \in 1 .. Len(nals) : In32Bits(Len(nals[i])),
         NEW k \in Nat, k < Len(nals)
  PROVE  H!Read(out[Len(nals)], ReadUpTo(out, nals, k)) = ReadUpTo(out, nals, k + 1)
<1>1. PICK n \in Nat : n = Len(nals)
  OBVIOUS
<1>2. PICK s \in Seq(Nat) : s = out[n]
  BY <1>1 DEF Sampled
<1>3. PICK nal \in Seq(Nat) : nal = nals[k + 1]
  <2>1. k + 1 \in 1 .. Len(nals)
    BY <1>1
  <2> QED BY <2>1
<1>4. PICK z \in Nat : z = Len(nal) /\ In32Bits(z)
  <2>1. k + 1 \in 1 .. Len(nals)
    BY <1>1
  <2>2. In32Bits(Len(nals[k + 1]))
    BY <2>1
  <2> QED BY <2>2, <1>3
<1>5. PICK b \in Seq(Nat) : b = H!to_be_bytes(z) /\ Len(b) = 4 /\ H!be_bytes_at(b, 1) = z
  BY <1>4, FourBytes, LengthBytes
<1>6. /\ Sized(nal) \in Seq(Nat) /\ Len(Sized(nal)) = 4 + z
      /\ \A i \in 1 .. 4 : Sized(nal)[i] = b[i]
      /\ \A i \in 1 .. z : Sized(nal)[4 + i] = nal[i]
  BY <1>4, <1>5, SizedFacts
<1>7. PICK p \in Nat : p = Len(out[k]) /\ out[k] \in Seq(Nat)
  <2>1. k \in 0 .. Len(nals)
    BY <1>1
  <2>2. out[k] \in Seq(Nat)
    BY <2>1 DEF Sampled
  <2> QED BY <2>2
<1>8. out[k + 1] = out[k] \o Sized(nal) /\ out[k + 1] \in Seq(Nat)
  <2>1. k + 1 \in 0 .. Len(nals)
    BY <1>1
  <2> QED BY <2>1, <1>3 DEF Sampled
<1>9. /\ Len(out[k + 1]) = p + (4 + z)
      /\ \A i \in 1 .. 4 + z : out[k + 1][p + i] = Sized(nal)[i]
  <2>1. PICK u \in Seq(Nat), v \in Seq(Nat) : u = out[k] /\ v = Sized(nal)
    BY <1>6, <1>7
  <2>2. Len(u \o v) = Len(u) + Len(v) /\ \A i \in 1 .. Len(v) : (u \o v)[Len(u) + i] = v[i]
    BY BytesJoined
  <2>3. Len(u) = p /\ Len(v) = 4 + z /\ out[k + 1] = u \o v
    BY <2>1, <1>6, <1>7, <1>8
  <2> QED BY <2>1, <2>2, <2>3
<1>10. p + (4 + z) <= Len(s) /\ \A i \in 1 .. p + (4 + z) : s[i] = out[k + 1][i]
  <2>1. k + 1 \in 0 .. Len(nals) /\ Len(nals) \in k + 1 .. Len(nals)
    BY <1>1
  <2>2. Begins(out[k + 1], out[Len(nals)])
    BY <2>1, WrittenGrows
  <2> QED BY <2>2, <1>1, <1>2, <1>9 DEF Begins
<1>11. \A i \in 1 .. 4 + z : s[p + i] = Sized(nal)[i]
  <2>1. \A i \in 1 .. 4 + z : p + i \in 1 .. p + (4 + z)
    OBVIOUS
  <2> QED BY <2>1, <1>9, <1>10
<1>12. s[1 + p] = b[1] /\ s[1 + p + 1] = b[2] /\ s[1 + p + 2] = b[3] /\ s[1 + p + 3] = b[4]
  <2>1. 1 + p = p + 1 /\ 1 + p + 1 = p + 2 /\ 1 + p + 2 = p + 3 /\ 1 + p + 3 = p + 4
    OBVIOUS
  <2>2. s[p + 1] = b[1] /\ s[p + 2] = b[2] /\ s[p + 3] = b[3] /\ s[p + 4] = b[4]
    <3>1. \A i \in {1, 2, 3, 4} : i \in 1 .. 4 /\ i \in 1 .. 4 + z
      OBVIOUS
    <3>2. \A i \in {1, 2, 3, 4} : s[p + i] = b[i]
      BY <3>1, <1>6, <1>11
    <3> QED BY <3>2
  <2> QED BY <2>1, <2>2
<1>13. SubSeq(s, 1 + p + 4, 1 + p + 3 + z) = nal
  <2>1. PICK m \in Nat, e \in Nat : m = 1 + p + 4 /\ e = 1 + p + 3 + z
    OBVIOUS
  <2>2. e - m + 1 = z /\ m = p + 5 /\ e <= Len(s)
    BY <2>1, <1>9, <1>10
  <2>3. \A i \in m .. e : s[i] \in Nat
    <3>1. \A i \in m .. e : i \in 1 .. Len(s)
      BY <2>2
    <3> QED BY <3>1
  <2>4. /\ SubSeq(s, m, e) \in Seq(Nat) /\ Len(SubSeq(s, m, e)) = IF m <= e THEN e - m + 1 ELSE 0
        /\ \A i \in 1 .. e - m + 1 : SubSeq(s, m, e)[i] = s[m + i - 1]
    BY <2>3, SubSeqProperties
  <2>5. Len(SubSeq(s, m, e)) = Len(nal)
    BY <2>2, <2>4, <1>4
  <2>6. \A i \in 1 .. Len(SubSeq(s, m, e)) : SubSeq(s, m, e)[i] = nal[i]
    <3>1. SUFFICES ASSUME NEW i \in 1 .. z PROVE SubSeq(s, m, e)[i] = nal[i]
      BY <2>5, <1>4
    <3>2. SubSeq(s, m, e)[i] = s[m + i - 1]
      BY <2>2, <2>4
    <3>3. m + i - 1 = p + (4 + i) /\ 4 + i \in 1 .. 4 + z
      BY <2>2
    <3>4. s[p + (4 + i)] = Sized(nal)[4 + i]
      BY <3>3, <1>11
    <3>5. Sized(nal)[4 + i] = nal[i]
      BY <3>1, <1>6
    <3> QED BY <3>2, <3>3, <3>4, <3>5
  <2> QED BY <2>1, <2>4, <2>5, <2>6, SeqEqual
<1>14. SubSeq(nals, 1, k + 1) = Append(SubSeq(nals, 1, k), nal)
  <2>1. 1 \in 1 .. Len(nals) /\ k + 1 \in 1 .. Len(nals) /\ (k + 1) - 1 = k
    BY <1>1
  <2>2. SubSeq(nals, 1, k + 1) = SubSeq(nals, 1, (k + 1) - 1) \o <<nals[k + 1]>>
    BY <2>1, SubSeqRecursiveSecond
  <2>3. SubSeq(nals, 1, k) \in Seq(Seq(Nat))
    <3>1. \A i \in 1 .. k : nals[i] \in Seq(Nat)
      BY <1>1
    <3> QED BY <3>1, SubSeqProperties
  <2>4. Append(SubSeq(nals, 1, k), nal) = SubSeq(nals, 1, k) \o <<nal>>
    BY <2>3, AppendIsConcat
  <2> QED BY <2>1, <2>2, <2>4, <1>3
<1>15. ~(1 + p > Len(s))
  BY <1>9, <1>10
<1> DEFINE at == ReadUpTo(out, nals, k)
<1>16. at.pos = 1 + p /\ at.nals = SubSeq(nals, 1, k)
  BY <1>7 DEF ReadUpTo
<1>17. H!Read(s, at) =
         [pos |-> at.pos + 4 + z, nals |-> Append(at.nals, SubSeq(s, at.pos + 4, at.pos + 3 + z))]
  <2>1. s[1 + p] = b[1] /\ s[1 + p + 1] = b[1 + 1] /\ s[1 + p + 2] = b[1 + 2]
          /\ s[1 + p + 3] = b[1 + 3]
    BY <1>12
  <2>2. H!be_bytes_at(s, 1 + p) = H!be_bytes_at(b, 1)
    BY <2>1, SMT DEF H!be_bytes_at
  <2>3. ~(at.pos > Len(s))
    BY <1>15, <1>16
  <2>4. H!be_bytes_at(s, at.pos) = z
    BY <2>2, <1>5, <1>16
  <2> HIDE DEF at
  <2> QED BY <2>3, <2>4, Zenon DEF H!Read
<1> HIDE DEF at
<1>18. 1 + p + 4 + z = 1 + (p + (4 + z))
  OBVIOUS
<1>19. H!Read(s, at) = [pos |-> 1 + Len(out[k + 1]), nals |-> SubSeq(nals, 1, k + 1)]
  BY <1>9, <1>13, <1>14, <1>16, <1>17, <1>18
<1> QED BY <1>1, <1>2, <1>19 DEF at, ReadUpTo

LEMMA ReadsEnd ==
  ASSUME NEW nals \in Seq(Seq(Nat)), NEW out, Sampled(out, nals)
  PROVE  H!Read(out[Len(nals)], ReadUpTo(out, nals, Len(nals))) = ReadUpTo(out, nals, Len(nals))
<1>1. out[Len(nals)] \in Seq(Nat)
  BY DEF Sampled
<1>2. ReadUpTo(out, nals, Len(nals)).pos = 1 + Len(out[Len(nals)])
  BY DEF ReadUpTo
<1>3. 1 + Len(out[Len(nals)]) > Len(out[Len(nals)])
  BY <1>1
<1> QED BY <1>2, <1>3, Zenon DEF H!Read

\* The size the muxer counts is the length of what it wrote.
LEMMA SizeIsLength ==
  ASSUME NEW nals \in Seq(Seq(Nat)), NEW out, Sampled(out, nals)
  PROVE  /\ H!frame_size(nals) = Len(out[Len(nals)])
         /\ \A k \in 0 .. Len(nals) : Len(out[k]) \in Nat /\ Len(out[k]) >= k
<1>1. PICK n \in Nat : n = Len(nals)
  OBVIOUS
<1>2. PICK size : /\ size \in [0 .. n -> Nat] /\ size[0] = 0
                  /\ \A k \in Nat : k < n => size[k + 1] = size[k] + 4 + Len(nals[k + 1])
                  /\ H!frame_size(nals) = size[n]
  BY <1>1, SizeRun
<1> DEFINE M == {k \in Nat : k <= n => Len(out[k]) = size[k] /\ size[k] >= k}
<1>3. 0 \in M
  <2>1. out[0] = << >> /\ Len(<< >>) = 0
    BY DEF Sampled
  <2> QED BY <2>1, <1>2
<1>4. ASSUME NEW k \in M PROVE k + 1 \in M
  <2>1. SUFFICES ASSUME k + 1 <= n PROVE Len(out[k + 1]) = size[k + 1] /\ size[k + 1] >= k + 1
    OBVIOUS
  <2>2. k \in Nat /\ k < n /\ k \in 0 .. n /\ Len(out[k]) = size[k] /\ size[k] >= k
    BY <2>1
  <2>3. PICK z \in Nat : z = size[k]
    BY <1>2, <2>2
  <2>4. k + 1 \in 1 .. Len(nals)
    BY <1>1, <2>2
  <2>5. nals[k + 1] \in Seq(Nat)
    BY <2>4
  <2>6. PICK u \in Seq(Nat), v \in Seq(Nat) : u = out[k] /\ v = Sized(nals[k + 1])
    BY <1>1, <2>2, <2>5, SizedFacts DEF Sampled
  <2>7. Len(u \o v) = Len(u) + Len(v)
    BY BytesJoined
  <2>8. PICK m \in Nat : m = Len(nals[k + 1]) /\ Len(v) = 4 + m
    <3>1. PICK e \in Seq(Nat) : e = nals[k + 1]
      BY <2>5
    <3>2. Len(Sized(e)) = 4 + Len(e) /\ Len(e) \in Nat
      BY SizedFacts
    <3> QED BY <3>1, <3>2, <2>6
  <2>9. out[k + 1] = u \o v
    BY <1>1, <2>2, <2>6 DEF Sampled
  <2>10. size[k + 1] = z + 4 + m
    BY <1>2, <2>2, <2>3, <2>8
  <2>11. Len(out[k + 1]) = z + (4 + m)
    BY <2>2, <2>3, <2>6, <2>7, <2>8, <2>9
  <2>12. z + 4 + m = z + (4 + m) /\ (z >= k => z + 4 + m >= k + 1)
    BY <2>2
  <2> QED BY <2>2, <2>3, <2>10, <2>11, <2>12
<1>5. \A k \in Nat : k \in M
  <2>1. M \in SUBSET Nat
    OBVIOUS
  <2> HIDE DEF M
  <2> QED BY <1>3, <1>4, <2>1, Counting
<1>6. \A k \in 0 .. n : size[k] \in Nat
  BY <1>2
<1> QED BY <1>1, <1>2, <1>5, <1>6

\* A player gets back the units that were written.
LEMMA UnitsReadBack ==
  ASSUME NEW nals \in Seq(Seq(Nat)), NEW out, Sampled(out, nals),
         \A i \in 1 .. Len(nals) : In32Bits(Len(nals[i]))
  PROVE  H!Unprefixed(out[Len(nals)]) = nals
<1>1. PICK n \in Nat : n = Len(nals)
  OBVIOUS
<1>2. PICK m \in Nat : m = Len(out[n]) /\ m >= n
  BY <1>1, SizeIsLength
<1> DEFINE s == out[n]
           first == [pos |-> 1, nals |-> << >>]
           state(k) == ReadUpTo(out, nals, IF k <= n THEN k ELSE n)
           g == [k \in 0 .. Len(s) |-> state(k)]
           c == CHOOSE f : f = [k \in 0 .. Len(s) |-> IF k = 0 THEN first ELSE H!Read(s, f[k - 1])]
<1>3. H!Unprefixed(s) = c[Len(s)].nals
  BY Zenon DEF H!Unprefixed
<1>4. state(0) = first
  <2>1. out[0] = << >> /\ Len(<< >>) = 0
    BY DEF Sampled
  <2>2. SubSeq(nals, 1, 0) = << >>
    BY SubSeqEmpty
  <2> QED BY <1>2, <2>1, <2>2 DEF ReadUpTo
<1>5. ASSUME NEW k \in Nat PROVE state(k + 1) = H!Read(s, state(k))
  <2>1. CASE k < n
    <3>1. k <= n /\ k + 1 <= n
      BY <2>1
    <3>2. H!Read(out[Len(nals)], ReadUpTo(out, nals, k)) = ReadUpTo(out, nals, k + 1)
      BY <1>1, <2>1, ReadsNext
    <3> QED BY <1>1, <3>1, <3>2
  <2>2. CASE k >= n
    <3>1. (IF k <= n THEN k ELSE n) = n /\ (IF k + 1 <= n THEN k + 1 ELSE n) = n
      BY <2>2
    <3>2. H!Read(out[Len(nals)], ReadUpTo(out, nals, Len(nals))) = ReadUpTo(out, nals, Len(nals))
      BY ReadsEnd
    <3> QED BY <1>1, <3>1, <3>2
  <2> QED BY <2>1, <2>2
<1>6. c[m] = state(m)
  <2> HIDE DEF state, first, s
  <2>1. Len(s) = m
    BY <1>2 DEF s
  <2>2. \A k \in 0 .. m : g[k] = IF k = 0 THEN first ELSE H!Read(s, g[k - 1])
    <3>1. g[0] = first
      BY <1>4, <2>1
    <3>2. ASSUME NEW k \in 1 .. m PROVE g[k] = H!Read(s, g[k - 1])
      <4>1. k - 1 \in Nat /\ k - 1 \in 0 .. m /\ k \in 0 .. m /\ (k - 1) + 1 = k
        OBVIOUS
      <4>2. state((k - 1) + 1) = H!Read(s, state(k - 1))
        BY <1>5, <4>1
      <4>3. g[k] = state(k) /\ g[k - 1] = state(k - 1)
        BY <2>1, <4>1
      <4> QED BY <4>1, <4>2, <4>3
    <3>3. \A k \in 0 .. m : k # 0 => k \in 1 .. m
      OBVIOUS
    <3> HIDE DEF g
    <3> QED BY <3>1, <3>2, <3>3
  <2>3. g = [k \in 0 .. Len(s) |-> g[k]]
    OBVIOUS
  <2>4. g = [k \in 0 .. Len(s) |-> IF k = 0 THEN first ELSE H!Read(s, g[k - 1])]
    <3> HIDE DEF g
    <3> QED BY <2>1, <2>2, <2>3, Zenon
  <2>5. c = [k \in 0 .. Len(s) |-> IF k = 0 THEN first ELSE H!Read(s, c[k - 1])]
    <3> HIDE DEF g
    <3> QED BY <2>4
  <2> HIDE DEF c, g
  <2> DEFINE M == {k \in Nat : k <= m => c[k] = state(k)}
  <2>6. 0 \in M
    <3>1. 0 \in 0 .. m
      OBVIOUS
    <3>2. c[0] = first
      BY <2>1, <2>5, <3>1, Zenon
    <3> QED BY <3>2, <1>4
  <2>7. ASSUME NEW k \in M PROVE k + 1 \in M
    <3>1. SUFFICES ASSUME k + 1 <= m PROVE c[k + 1] = state(k + 1)
      OBVIOUS
    <3>2. k \in Nat /\ c[k] = state(k)
      BY <3>1
    <3>3. k + 1 \in 0 .. m /\ k + 1 # 0 /\ (k + 1) - 1 = k
      BY <3>1, <3>2
    <3>4. c[k + 1] = H!Read(s, c[(k + 1) - 1])
      BY <2>1, <2>5, <3>3, Zenon
    <3> QED BY <3>2, <3>3, <3>4, <1>5
  <2>8. m \in M
    <3>1. M \in SUBSET Nat
      OBVIOUS
    <3> HIDE DEF M
    <3> QED BY <2>6, <2>7, <3>1, Counting
  <2> QED BY <2>8
<1>7. state(m).nals = nals
  <2>1. (IF m <= n THEN m ELSE n) = n
    BY <1>2
  <2>2. SubSeq(nals, 1, n) = nals
    BY <1>1, SubSeqFull
  <2> QED BY <2>1, <2>2 DEF ReadUpTo
<1>8. c[Len(s)].nals = nals
  <2> HIDE DEF c, state
  <2> QED BY <1>2, <1>6, <1>7
<1> HIDE DEF c
<1> QED BY <1>1, <1>3, <1>8

\* For every frame whose length fits into 32 bits: its units are the bytes between the
\* start codes, a player gets them back from the sample, and the size is the sample's.
THEOREM UnitsExact ==
  ASSUME NEW d \in Seq(Nat), In32Bits(Len(d)) PROVE H!NalsExact(d)
<1> DEFINE nals == H!Nals(d)
<1>1. nals = H!Between(d) /\ nals \in Seq(Units(d))
  BY NalsBetween
<1>2. nals \in Seq(Seq(Nat)) /\ \A i \in 1 .. Len(nals) : In32Bits(Len(nals[i]))
  <2>1. PICK t \in Seq(Units(d)) : t = nals
    BY <1>1
  <2>2. ASSUME NEW i \in 1 .. Len(t) PROVE t[i] \in Seq(Nat) /\ In32Bits(Len(t[i]))
    <3>1. t[i] \in Seq(Nat) /\ Len(t[i]) \in 1 .. Len(d)
      BY DEF Units
    <3>2. PICK a \in Nat, b \in Nat : a = Len(t[i]) /\ b = Len(d) /\ a <= b
      BY <3>1
    <3>3. In32Bits(b)
      BY <3>2
    <3> QED BY <3>1, <3>2, <3>3, SMT DEF In32Bits
  <2>3. t \in Seq(Seq(Nat))
    BY <2>2
  <2> QED BY <2>1, <2>2, <2>3
<1> HIDE DEF nals
<1>3. PICK out : Sampled(out, nals) /\ H!LengthPrefixed(nals) = out[Len(nals)]
  BY <1>2, WrittenRun
<1>4. H!Unprefixed(out[Len(nals)]) = nals /\ H!frame_size(nals) = Len(out[Len(nals)])
  BY <1>2, <1>3, UnitsReadBack, SizeIsLength
<1>5. /\ H!Nals(d) = H!Between(d) /\ H!Unprefixed(H!LengthPrefixed(H!Nals(d))) = H!Nals(d)
      /\ H!frame_size(H!Nals(d)) = Len(H!LengthPrefixed(H!Nals(d)))
  BY <1>1, <1>3, <1>4 DEF nals
<1> QED BY <1>5, Zenon DEF H!NalsExact

-----------------------------------------------------------------------------
(* The parameter sets *)

ParamSets == [H!ParamTypes -> Seq(Nat)]

\* The unit is a parameter set of this type.
IsOfType(nal, type) == Len(nal) >= 2 /\ H!nal_type(nal) = type

LEMMA KnownFacts ==
  ASSUME NEW v \in ParamSets, NEW nal \in Seq(Nat)
  PROVE  /\ H!Known(v, nal) \in ParamSets
         /\ \A type \in H!ParamTypes :
              H!Known(v, nal)[type] = IF IsOfType(nal, type) THEN nal ELSE v[type]
<1>1. CASE Len(nal) >= 2 /\ H!nal_type(nal) \in H!ParamTypes
  <2>1. PICK type \in H!ParamTypes : type = H!nal_type(nal)
    BY <1>1
  <2>2. H!Known(v, nal) = [v EXCEPT ![type] = nal]
    BY <1>1, <2>1 DEF H!Known
  <2> QED BY <1>1, <2>1, <2>2 DEF ParamSets, IsOfType
<1>2. CASE ~(Len(nal) >= 2 /\ H!nal_type(nal) \in H!ParamTypes)
  <2>1. H!Known(v, nal) = v
    BY <1>2 DEF H!Known
  <2> QED BY <1>2, <2>1 DEF IsOfType
<1> QED BY <1>1, <1>2

LEMMA SetsRun ==
  ASSUME NEW d \in Seq(Nat), H!Nals(d) \in Seq(Seq(Nat)), NEW before \in ParamSets
  PROVE  \E sets : /\ sets \in [0 .. Len(H!Nals(d)) -> ParamSets] /\ sets[0] = before
                   /\ \A k \in Nat : k < Len(H!Nals(d)) =>
                        sets[k + 1] = H!Known(sets[k], H!Nals(d)[k + 1])
                   /\ H!extract(d, before) = sets[Len(H!Nals(d))]
<1>1. PICK n \in Nat : n = Len(H!Nals(d))
  OBVIOUS
<1> DEFINE V == ParamSets
           term(k, v) == H!Known(v, H!Nals(d)[k])
           step == [x \in Nat \X V |-> IF x[1] \in 1 .. n THEN term(x[1], x[2]) ELSE before]
           c == CHOOSE f :
                  f = [k \in 0 .. Len(H!Nals(d)) |-> IF k = 0 THEN before ELSE term(k, f[k - 1])]
<1>2. H!extract(d, before) = c[Len(H!Nals(d))]
  BY Zenon DEF H!extract
<1>3. ASSUME NEW k \in 1 .. n, NEW v \in V PROVE term(k, v) \in V
  <2>1. H!Nals(d)[k] \in Seq(Nat)
    BY <1>1
  <2> QED BY <2>1, KnownFacts
<1> HIDE DEF term
<1>5. before \in V
  OBVIOUS
<1> HIDE DEF V
<1>6. step \in [Nat \X V -> V]
  BY <1>3, <1>5
<1>7. PICK g \in [0 .. n -> V] : Run(g, n, before, step)
  <2> HIDE DEF step
  <2> QED BY <1>5, <1>6, RunExists
<1>8. g = [k \in 0 .. Len(H!Nals(d)) |-> IF k = 0 THEN before ELSE term(k, g[k - 1])]
  <2>1. ASSUME NEW z \in 1 .. n PROVE g[z] = term(z, g[z - 1])
    <3>1. z - 1 \in Nat /\ z - 1 < n /\ (z - 1) + 1 = z /\ z - 1 \in 0 .. n /\ z \in Nat
      OBVIOUS
    <3>2. g[z] = step[<<z, g[z - 1]>>]
      BY <3>1, <1>7 DEF Run
    <3>3. g[z - 1] \in V
      BY <3>1, <1>7
    <3> QED BY <3>1, <3>2, <3>3
  <2> HIDE DEF step
  <2>2. g[0] = before /\ g = [z \in 0 .. n |-> g[z]]
    BY <1>7 DEF Run
  <2>3. ASSUME NEW z \in 0 .. n PROVE g[z] = IF z = 0 THEN before ELSE term(z, g[z - 1])
    <3>1. z # 0 => z \in 1 .. n
      OBVIOUS
    <3> QED BY <3>1, <2>1, <2>2
  <2> QED BY <1>1, <2>2, <2>3, Zenon
<1>9. c = [k \in 0 .. Len(H!Nals(d)) |-> IF k = 0 THEN before ELSE term(k, c[k - 1])]
  BY <1>8
<1> HIDE DEF c, step
<1>10. c[0] = before /\ \A z \in Nat : z < n => c[z + 1] = term(z + 1, c[z])
  <2>1. 0 \in 0 .. n /\ \A z \in Nat : z < n => z + 1 \in 0 .. n /\ z + 1 # 0 /\ (z + 1) - 1 = z
    OBVIOUS
  <2>2. c[0] = before
    BY <1>1, <1>9, <2>1, Zenon
  <2>3. ASSUME NEW z \in Nat, z < n PROVE c[z + 1] = term(z + 1, c[z])
    <3>1. c[z + 1] = term(z + 1, c[(z + 1) - 1])
      BY <1>1, <1>9, <2>1, <2>3, Zenon
    <3> QED BY <3>1, <2>1, <2>3
  <2> QED BY <2>2, <2>3
<1>11. \A z \in 0 .. n : c[z] \in V
  <2>1. ASSUME NEW z \in Nat, z < n, c[z] \in V PROVE c[z + 1] \in V
    <3>1. z + 1 \in 1 .. n
      BY <2>1
    <3> QED BY <3>1, <2>1, <1>3, <1>10
  <2>2. c[0] \in V
    BY <1>5, <1>10
  <2> QED BY <2>1, <2>2, RunStays
<1>12. c \in [0 .. Len(H!Nals(d)) -> V]
  BY <1>1, <1>9, <1>11
<1>13. \A z \in Nat : z < n => c[z] \in V
  BY <1>11
<1> QED BY <1>1, <1>2, <1>10, <1>12 DEF V, term

\* What is known of one type after k units.
LastKnown(set, nals, k, type, before) ==
  \/ set = before /\ \A j \in 1 .. k : ~IsOfType(nals[j], type)
  \/ \E j \in 1 .. k : /\ IsOfType(nals[j], type) /\ set = nals[j]
                       /\ \A i \in 1 .. k : IsOfType(nals[i], type) => i <= j

\* For every frame and all sets known before: of each type the last one counts.
THEOREM LastSetCounts ==
  ASSUME NEW d \in Seq(Nat), NEW before \in ParamSets PROVE H!ParamSetsLast(d, before)
<1>1. PICK nals \in Seq(Seq(Nat)) : nals = H!Nals(d)
  <2>1. PICK t \in Seq(Units(d)) : t = H!Nals(d)
    BY NalsBetween
  <2>2. \A i \in 1 .. Len(t) : t[i] \in Seq(Nat)
    BY DEF Units
  <2>3. t \in Seq(Seq(Nat))
    BY <2>2
  <2> QED BY <2>1, <2>3
<1>2. PICK n \in Nat : n = Len(nals)
  OBVIOUS
<1>3. PICK sets : /\ sets \in [0 .. n -> ParamSets] /\ sets[0] = before
                  /\ \A k \in Nat : k < n => sets[k + 1] = H!Known(sets[k], nals[k + 1])
                  /\ H!extract(d, before) = sets[n]
  <2>1. H!Nals(d) \in Seq(Seq(Nat)) /\ Len(H!Nals(d)) = n
    BY <1>1, <1>2
  <2>2. PICK sets : /\ sets \in [0 .. Len(H!Nals(d)) -> ParamSets] /\ sets[0] = before
                    /\ \A k \in Nat : k < Len(H!Nals(d)) =>
                         sets[k + 1] = H!Known(sets[k], H!Nals(d)[k + 1])
                    /\ H!extract(d, before) = sets[Len(H!Nals(d))]
    BY <2>1, SetsRun
  <2>3. /\ sets \in [0 .. n -> ParamSets] /\ sets[0] = before
        /\ \A k \in Nat : k < n => sets[k + 1] = H!Known(sets[k], nals[k + 1])
        /\ H!extract(d, before) = sets[n]
    BY <2>1, <2>2, <1>1, Zenon
  <2> QED BY <2>3
<1>4. ASSUME NEW type \in H!ParamTypes
      PROVE  LastKnown(sets[n][type], nals, n, type, before[type])
  <2> DEFINE M == {k \in Nat : k <= n => LastKnown(sets[k][type], nals, k, type, before[type])}
  <2>1. 0 \in M
    BY <1>3 DEF LastKnown
  <2>2. ASSUME NEW k \in M PROVE k + 1 \in M
    <3>1. SUFFICES ASSUME k + 1 <= n
                   PROVE  LastKnown(sets[k + 1][type], nals, k + 1, type, before[type])
      OBVIOUS
    <3>2. k \in Nat /\ k < n /\ k \in 0 .. n
            /\ LastKnown(sets[k][type], nals, k, type, before[type])
      BY <3>1
    <3>3. PICK nal \in Seq(Nat) : nal = nals[k + 1]
      <4>1. k + 1 \in 1 .. Len(nals)
        BY <1>2, <3>2
      <4> QED BY <4>1
    <3>4. sets[k] \in ParamSets /\ sets[k + 1] = H!Known(sets[k], nal)
      BY <1>3, <3>2, <3>3
    <3>5. sets[k + 1][type] = IF IsOfType(nal, type) THEN nal ELSE sets[k][type]
      BY <3>4, KnownFacts
    <3>6. \A j \in 1 .. k + 1 : j = k + 1 \/ j \in 1 .. k
      BY <3>2
    <3>7. \A j \in 1 .. k : j \in 1 .. k + 1 /\ j <= k + 1
      BY <3>2
    <3>8. CASE IsOfType(nal, type)
      <4>1. k + 1 \in 1 .. k + 1 /\ \A i \in 1 .. k + 1 : i <= k + 1
        BY <3>2
      <4> QED BY <4>1, <3>3, <3>5, <3>8 DEF LastKnown
    <3>9. CASE ~IsOfType(nal, type)
      <4>1. sets[k + 1][type] = sets[k][type]
        BY <3>5, <3>9
      <4>2. CASE sets[k][type] = before[type] /\ \A j \in 1 .. k : ~IsOfType(nals[j], type)
        BY <4>1, <4>2, <3>3, <3>6, <3>9 DEF LastKnown
      <4>3. ASSUME NEW j \in 1 .. k, IsOfType(nals[j], type), sets[k][type] = nals[j],
                   \A i \in 1 .. k : IsOfType(nals[i], type) => i <= j
            PROVE  LastKnown(sets[k + 1][type], nals, k + 1, type, before[type])
        <5>1. \A i \in 1 .. k + 1 : IsOfType(nals[i], type) => i <= j
          BY <4>3, <3>3, <3>6, <3>9
        <5>2. j \in 1 .. k + 1
          BY <3>7
        <5> QED BY <4>1, <4>3, <5>1, <5>2, Zenon DEF LastKnown
      <4> QED BY <3>2, <4>2, <4>3, Zenon DEF LastKnown
    <3> QED BY <3>8, <3>9
  <2>3. n \in M
    <3>1. M \in SUBSET Nat
      OBVIOUS
    <3> HIDE DEF M
    <3> QED BY <2>1, <2>2, <3>1, Counting
  <2> QED BY <2>3
<1> DEFINE OfType(type) == {k \in DOMAIN nals : Len(nals[k]) >= 2 /\ H!nal_type(nals[k]) = type}
<1>5. ASSUME NEW type \in H!ParamTypes
      PROVE  \/ OfType(type) = {} /\ sets[n][type] = before[type]
             \/ \E k \in OfType(type) : sets[n][type] = nals[k] /\ \A j \in OfType(type) : j <= k
  <2>1. \A k : k \in OfType(type) <=> k \in 1 .. n /\ IsOfType(nals[k], type)
    BY <1>2 DEF IsOfType
  <2> HIDE DEF OfType
  <2>2. LastKnown(sets[n][type], nals, n, type, before[type])
    BY <1>4
  <2> QED BY <2>1, <2>2, Zenon DEF LastKnown
<1> HIDE DEF OfType
<1>6. \A type \in H!ParamTypes :
        \/ OfType(type) = {} /\ H!extract(d, before)[type] = before[type]
        \/ \E k \in OfType(type) :
             H!extract(d, before)[type] = nals[k] /\ \A j \in OfType(type) : j <= k
  BY <1>3, <1>5, Zenon
<1> QED BY <1>1, <1>6, Zenon DEF H!ParamSetsLast, OfType

-----------------------------------------------------------------------------
(* The sample tables *)

Sample == [duration : Nat, is_key : BOOLEAN]

Entry == [count : Nat, duration : Nat]

\* The durations and the ticks that the first entries stand for.
Expands(c, e) ==
  /\ c \in [0 .. Len(e) -> Seq(Nat)] /\ c[0] = << >>
  /\ \A k \in Nat : k < Len(e) =>
       c[k + 1] = c[k] \o [i \in 1 .. e[k + 1].count |-> e[k + 1].duration]

AddsUp(c, e) ==
  /\ c \in [0 .. Len(e) -> Nat] /\ c[0] = 0
  /\ \A k \in Nat : k < Len(e) => c[k + 1] = c[k] + e[k + 1].count * e[k + 1].duration

LEMMA EntryFacts ==
  ASSUME NEW x \in Entry
  PROVE  /\ [i \in 1 .. x.count |-> x.duration] \in Seq(Nat)
         /\ x.count * x.duration \in Nat /\ x.count \in Nat /\ x.duration \in Nat
<1>1. PICK a \in Nat, b \in Nat : a = x.count /\ b = x.duration
  BY DEF Entry
<1>2. a * b \in Nat /\ [i \in 1 .. a |-> b] \in Seq(Nat)
  OBVIOUS
<1> QED BY <1>1, <1>2

LEMMA ExpandsRun ==
  ASSUME NEW e \in Seq(Entry)
  PROVE  \E c : Expands(c, e) /\ H!Runs(e) = c[Len(e)]
<1>1. PICK n \in Nat : n = Len(e)
  OBVIOUS
<1> DEFINE V == Seq(Nat)
           term(k, v) == v \o [i \in 1 .. e[k].count |-> e[k].duration]
           step == [x \in Nat \X V |-> IF x[1] \in 1 .. n THEN term(x[1], x[2]) ELSE << >>]
           c == CHOOSE f : f = [k \in 0 .. Len(e) |-> IF k = 0 THEN << >> ELSE term(k, f[k - 1])]
<1>2. H!Runs(e) = c[Len(e)]
  BY Zenon DEF H!Runs
<1>3. ASSUME NEW k \in 1 .. n, NEW v \in V PROVE term(k, v) \in V
  <2>1. e[k] \in Entry
    BY <1>1
  <2>2. [i \in 1 .. e[k].count |-> e[k].duration] \in Seq(Nat)
    BY <2>1, EntryFacts
  <2> QED BY <2>2, ConcatProperties
<1> HIDE DEF term
<1>5. << >> \in V
  OBVIOUS
<1> HIDE DEF V
<1>6. step \in [Nat \X V -> V]
  BY <1>3, <1>5
<1>7. PICK g \in [0 .. n -> V] : Run(g, n, << >>, step)
  <2> HIDE DEF step
  <2> QED BY <1>5, <1>6, RunExists
<1>8. g = [k \in 0 .. Len(e) |-> IF k = 0 THEN << >> ELSE term(k, g[k - 1])]
  <2>1. ASSUME NEW z \in 1 .. n PROVE g[z] = term(z, g[z - 1])
    <3>1. z - 1 \in Nat /\ z - 1 < n /\ (z - 1) + 1 = z /\ z - 1 \in 0 .. n /\ z \in Nat
      OBVIOUS
    <3>2. g[z] = step[<<z, g[z - 1]>>]
      BY <3>1, <1>7 DEF Run
    <3>3. g[z - 1] \in V
      BY <3>1, <1>7
    <3> QED BY <3>1, <3>2, <3>3
  <2> HIDE DEF step
  <2>2. g[0] = << >> /\ g = [z \in 0 .. n |-> g[z]]
    BY <1>7 DEF Run
  <2>3. ASSUME NEW z \in 0 .. n PROVE g[z] = IF z = 0 THEN << >> ELSE term(z, g[z - 1])
    <3>1. z # 0 => z \in 1 .. n
      OBVIOUS
    <3> QED BY <3>1, <2>1, <2>2
  <2> QED BY <1>1, <2>2, <2>3, Zenon
<1>9. c = [k \in 0 .. Len(e) |-> IF k = 0 THEN << >> ELSE term(k, c[k - 1])]
  BY <1>8
<1> HIDE DEF c, step
<1>10. c[0] = << >> /\ \A z \in Nat : z < n => c[z + 1] = term(z + 1, c[z])
  <2>1. 0 \in 0 .. n /\ \A z \in Nat : z < n => z + 1 \in 0 .. n /\ z + 1 # 0 /\ (z + 1) - 1 = z
    OBVIOUS
  <2>2. c[0] = << >>
    BY <1>1, <1>9, <2>1, Zenon
  <2>3. ASSUME NEW z \in Nat, z < n PROVE c[z + 1] = term(z + 1, c[z])
    <3>1. c[z + 1] = term(z + 1, c[(z + 1) - 1])
      BY <1>1, <1>9, <2>1, <2>3, Zenon
    <3> QED BY <3>1, <2>1, <2>3
  <2> QED BY <2>2, <2>3
<1>11. \A z \in 0 .. n : c[z] \in V
  <2>1. ASSUME NEW z \in Nat, z < n, c[z] \in V PROVE c[z + 1] \in V
    <3>1. z + 1 \in 1 .. n
      BY <2>1
    <3> QED BY <3>1, <2>1, <1>3, <1>10
  <2>2. c[0] \in V
    BY <1>5, <1>10
  <2> QED BY <2>1, <2>2, RunStays
<1>12. c \in [0 .. Len(e) -> V]
  BY <1>1, <1>9, <1>11
<1>13. \A z \in Nat : z < n => c[z] \in V
  BY <1>11
<1> QED BY <1>1, <1>2, <1>10, <1>12 DEF V, term, Expands

LEMMA AddsUpRun ==
  ASSUME NEW e \in Seq(Entry)
  PROVE  \E c : AddsUp(c, e) /\ H!Ticks(e) = c[Len(e)]
<1>1. PICK n \in Nat : n = Len(e)
  OBVIOUS
<1> DEFINE V == Nat
           term(k, v) == v + e[k].count * e[k].duration
           step == [x \in Nat \X V |-> IF x[1] \in 1 .. n THEN term(x[1], x[2]) ELSE 0]
           c == CHOOSE f : f = [k \in 0 .. Len(e) |-> IF k = 0 THEN 0 ELSE term(k, f[k - 1])]
<1>2. H!Ticks(e) = c[Len(e)]
  BY Zenon DEF H!Ticks
<1>3. ASSUME NEW k \in 1 .. n, NEW v \in V PROVE term(k, v) \in V
  <2>1. e[k] \in Entry
    BY <1>1
  <2>2. PICK m \in Nat : m = e[k].count * e[k].duration
    BY <2>1, EntryFacts
  <2>3. v + m \in Nat
    OBVIOUS
  <2> QED BY <2>2, <2>3
<1> HIDE DEF term
<1>5. 0 \in V
  OBVIOUS
<1> HIDE DEF V
<1>6. step \in [Nat \X V -> V]
  BY <1>3, <1>5
<1>7. PICK g \in [0 .. n -> V] : Run(g, n, 0, step)
  <2> HIDE DEF step
  <2> QED BY <1>5, <1>6, RunExists
<1>8. g = [k \in 0 .. Len(e) |-> IF k = 0 THEN 0 ELSE term(k, g[k - 1])]
  <2>1. ASSUME NEW z \in 1 .. n PROVE g[z] = term(z, g[z - 1])
    <3>1. z - 1 \in Nat /\ z - 1 < n /\ (z - 1) + 1 = z /\ z - 1 \in 0 .. n /\ z \in Nat
      OBVIOUS
    <3>2. g[z] = step[<<z, g[z - 1]>>]
      BY <3>1, <1>7 DEF Run
    <3>3. g[z - 1] \in V
      BY <3>1, <1>7
    <3> QED BY <3>1, <3>2, <3>3
  <2> HIDE DEF step
  <2>2. g[0] = 0 /\ g = [z \in 0 .. n |-> g[z]]
    BY <1>7 DEF Run
  <2>3. ASSUME NEW z \in 0 .. n PROVE g[z] = IF z = 0 THEN 0 ELSE term(z, g[z - 1])
    <3>1. z # 0 => z \in 1 .. n
      OBVIOUS
    <3> QED BY <3>1, <2>1, <2>2
  <2> QED BY <1>1, <2>2, <2>3, Zenon
<1>9. c = [k \in 0 .. Len(e) |-> IF k = 0 THEN 0 ELSE term(k, c[k - 1])]
  BY <1>8
<1> HIDE DEF c, step
<1>10. c[0] = 0 /\ \A z \in Nat : z < n => c[z + 1] = term(z + 1, c[z])
  <2>1. 0 \in 0 .. n /\ \A z \in Nat : z < n => z + 1 \in 0 .. n /\ z + 1 # 0 /\ (z + 1) - 1 = z
    OBVIOUS
  <2>2. c[0] = 0
    BY <1>1, <1>9, <2>1, Zenon
  <2>3. ASSUME NEW z \in Nat, z < n PROVE c[z + 1] = term(z + 1, c[z])
    <3>1. c[z + 1] = term(z + 1, c[(z + 1) - 1])
      BY <1>1, <1>9, <2>1, <2>3, Zenon
    <3> QED BY <3>1, <2>1, <2>3
  <2> QED BY <2>2, <2>3
<1>11. \A z \in 0 .. n : c[z] \in V
  <2>1. ASSUME NEW z \in Nat, z < n, c[z] \in V PROVE c[z + 1] \in V
    <3>1. z + 1 \in 1 .. n
      BY <2>1
    <3> QED BY <3>1, <2>1, <1>3, <1>10
  <2>2. c[0] \in V
    BY <1>5, <1>10
  <2> QED BY <2>1, <2>2, RunStays
<1>12. c \in [0 .. Len(e) -> V]
  BY <1>1, <1>9, <1>11
<1>13. \A z \in Nat : z < n => c[z] \in V
  BY <1>11
<1> QED BY <1>1, <1>2, <1>10, <1>12 DEF V, term, AddsUp

LEMMA CountedIsSeq ==
  ASSUME NEW e \in Seq(Entry), NEW x \in Nat PROVE H!Counted(e, x) \in Seq(Entry)
<1>1. CASE e # << >> /\ e[Len(e)].duration = x
  <2>1. PICK m \in 1 .. Len(e) : m = Len(e)
    BY <1>1
  <2>2. e[m] \in Entry
    OBVIOUS
  <2>3. [e[m] EXCEPT !.count = @ + 1] \in Entry
    BY <2>2 DEF Entry
  <2>4. H!Counted(e, x) = [e EXCEPT ![m] = [e[m] EXCEPT !.count = @ + 1]]
    BY <1>1, <2>1 DEF H!Counted
  <2> QED BY <2>3, <2>4, ExceptSeq
<1>2. CASE ~(e # << >> /\ e[Len(e)].duration = x)
  <2>1. H!Counted(e, x) = Append(e, [count |-> 1, duration |-> x])
    BY <1>2 DEF H!Counted
  <2>2. [count |-> 1, duration |-> x] \in Entry
    BY DEF Entry
  <2> QED BY <2>1, <2>2, AppendProperties
<1> QED BY <1>1, <1>2

LEMMA EntriesRun ==
  ASSUME NEW samples \in Seq(Sample)
  PROVE  \E entries :
           /\ entries \in [0 .. Len(samples) -> Seq(Entry)] /\ entries[0] = << >>
           /\ \A k \in Nat : k < Len(samples) =>
                entries[k + 1] = H!Counted(entries[k], samples[k + 1].duration)
           /\ H!build_stts(samples) = entries[Len(samples)]
<1>1. PICK n \in Nat : n = Len(samples)
  OBVIOUS
<1> DEFINE V == Seq(Entry)
           term(k, v) == H!Counted(v, samples[k].duration)
           step == [x \in Nat \X V |-> IF x[1] \in 1 .. n THEN term(x[1], x[2]) ELSE << >>]
           c == CHOOSE f :
                  f = [k \in 0 .. Len(samples) |-> IF k = 0 THEN << >> ELSE term(k, f[k - 1])]
<1>2. H!build_stts(samples) = c[Len(samples)]
  BY Zenon DEF H!build_stts
<1>3. ASSUME NEW k \in 1 .. n, NEW v \in V PROVE term(k, v) \in V
  <2>1. PICK x \in Nat : x = samples[k].duration
    <3>1. samples[k] \in Sample
      BY <1>1
    <3> QED BY <3>1 DEF Sample
  <2>2. H!Counted(v, x) \in Seq(Entry)
    BY CountedIsSeq
  <2> QED BY <2>1, <2>2
<1> HIDE DEF term
<1>5. << >> \in V
  OBVIOUS
<1> HIDE DEF V
<1>6. step \in [Nat \X V -> V]
  BY <1>3, <1>5
<1>7. PICK g \in [0 .. n -> V] : Run(g, n, << >>, step)
  <2> HIDE DEF step
  <2> QED BY <1>5, <1>6, RunExists
<1>8. g = [k \in 0 .. Len(samples) |-> IF k = 0 THEN << >> ELSE term(k, g[k - 1])]
  <2>1. ASSUME NEW z \in 1 .. n PROVE g[z] = term(z, g[z - 1])
    <3>1. z - 1 \in Nat /\ z - 1 < n /\ (z - 1) + 1 = z /\ z - 1 \in 0 .. n /\ z \in Nat
      OBVIOUS
    <3>2. g[z] = step[<<z, g[z - 1]>>]
      BY <3>1, <1>7 DEF Run
    <3>3. g[z - 1] \in V
      BY <3>1, <1>7
    <3> QED BY <3>1, <3>2, <3>3
  <2> HIDE DEF step
  <2>2. g[0] = << >> /\ g = [z \in 0 .. n |-> g[z]]
    BY <1>7 DEF Run
  <2>3. ASSUME NEW z \in 0 .. n PROVE g[z] = IF z = 0 THEN << >> ELSE term(z, g[z - 1])
    <3>1. z # 0 => z \in 1 .. n
      OBVIOUS
    <3> QED BY <3>1, <2>1, <2>2
  <2> QED BY <1>1, <2>2, <2>3, Zenon
<1>9. c = [k \in 0 .. Len(samples) |-> IF k = 0 THEN << >> ELSE term(k, c[k - 1])]
  BY <1>8
<1> HIDE DEF c, step
<1>10. c[0] = << >> /\ \A z \in Nat : z < n => c[z + 1] = term(z + 1, c[z])
  <2>1. 0 \in 0 .. n /\ \A z \in Nat : z < n => z + 1 \in 0 .. n /\ z + 1 # 0 /\ (z + 1) - 1 = z
    OBVIOUS
  <2>2. c[0] = << >>
    BY <1>1, <1>9, <2>1, Zenon
  <2>3. ASSUME NEW z \in Nat, z < n PROVE c[z + 1] = term(z + 1, c[z])
    <3>1. c[z + 1] = term(z + 1, c[(z + 1) - 1])
      BY <1>1, <1>9, <2>1, <2>3, Zenon
    <3> QED BY <3>1, <2>1, <2>3
  <2> QED BY <2>2, <2>3
<1>11. \A z \in 0 .. n : c[z] \in V
  <2>1. ASSUME NEW z \in Nat, z < n, c[z] \in V PROVE c[z + 1] \in V
    <3>1. z + 1 \in 1 .. n
      BY <2>1
    <3> QED BY <3>1, <2>1, <1>3, <1>10
  <2>2. c[0] \in V
    BY <1>5, <1>10
  <2> QED BY <2>1, <2>2, RunStays
<1>12. c \in [0 .. Len(samples) -> V]
  BY <1>1, <1>9, <1>11
<1>13. \A z \in Nat : z < n => c[z] \in V
  BY <1>11
<1> QED BY <1>1, <1>2, <1>10, <1>12 DEF V, term

LEMMA KeysRun ==
  ASSUME NEW samples \in Seq(Sample)
  PROVE  \E keys : /\ keys \in [0 .. Len(samples) -> Seq(Nat)] /\ keys[0] = << >>
                   /\ \A k \in Nat : k < Len(samples) =>
                        keys[k + 1] = IF samples[k + 1].is_key THEN Append(keys[k], k + 1)
                                      ELSE keys[k]
                   /\ H!build_stss(samples) = keys[Len(samples)]
<1>1. PICK n \in Nat : n = Len(samples)
  OBVIOUS
<1> DEFINE V == Seq(Nat)
           term(k, v) == IF samples[k].is_key THEN Append(v, k) ELSE v
           step == [x \in Nat \X V |-> IF x[1] \in 1 .. n THEN term(x[1], x[2]) ELSE << >>]
           c == CHOOSE f :
                  f = [k \in 0 .. Len(samples) |-> IF k = 0 THEN << >> ELSE term(k, f[k - 1])]
<1>2. H!build_stss(samples) = c[Len(samples)]
  BY Zenon DEF H!build_stss
<1>3. ASSUME NEW k \in 1 .. n, NEW v \in V PROVE term(k, v) \in V
  BY AppendProperties
<1> HIDE DEF term
<1>5. << >> \in V
  OBVIOUS
<1> HIDE DEF V
<1>6. step \in [Nat \X V -> V]
  BY <1>3, <1>5
<1>7. PICK g \in [0 .. n -> V] : Run(g, n, << >>, step)
  <2> HIDE DEF step
  <2> QED BY <1>5, <1>6, RunExists
<1>8. g = [k \in 0 .. Len(samples) |-> IF k = 0 THEN << >> ELSE term(k, g[k - 1])]
  <2>1. ASSUME NEW z \in 1 .. n PROVE g[z] = term(z, g[z - 1])
    <3>1. z - 1 \in Nat /\ z - 1 < n /\ (z - 1) + 1 = z /\ z - 1 \in 0 .. n /\ z \in Nat
      OBVIOUS
    <3>2. g[z] = step[<<z, g[z - 1]>>]
      BY <3>1, <1>7 DEF Run
    <3>3. g[z - 1] \in V
      BY <3>1, <1>7
    <3> QED BY <3>1, <3>2, <3>3
  <2> HIDE DEF step
  <2>2. g[0] = << >> /\ g = [z \in 0 .. n |-> g[z]]
    BY <1>7 DEF Run
  <2>3. ASSUME NEW z \in 0 .. n PROVE g[z] = IF z = 0 THEN << >> ELSE term(z, g[z - 1])
    <3>1. z # 0 => z \in 1 .. n
      OBVIOUS
    <3> QED BY <3>1, <2>1, <2>2
  <2> QED BY <1>1, <2>2, <2>3, Zenon
<1>9. c = [k \in 0 .. Len(samples) |-> IF k = 0 THEN << >> ELSE term(k, c[k - 1])]
  BY <1>8
<1> HIDE DEF c, step
<1>10. c[0] = << >> /\ \A z \in Nat : z < n => c[z + 1] = term(z + 1, c[z])
  <2>1. 0 \in 0 .. n /\ \A z \in Nat : z < n => z + 1 \in 0 .. n /\ z + 1 # 0 /\ (z + 1) - 1 = z
    OBVIOUS
  <2>2. c[0] = << >>
    BY <1>1, <1>9, <2>1, Zenon
  <2>3. ASSUME NEW z \in Nat, z < n PROVE c[z + 1] = term(z + 1, c[z])
    <3>1. c[z + 1] = term(z + 1, c[(z + 1) - 1])
      BY <1>1, <1>9, <2>1, <2>3, Zenon
    <3> QED BY <3>1, <2>1, <2>3
  <2> QED BY <2>2, <2>3
<1>11. \A z \in 0 .. n : c[z] \in V
  <2>1. ASSUME NEW z \in Nat, z < n, c[z] \in V PROVE c[z + 1] \in V
    <3>1. z + 1 \in 1 .. n
      BY <2>1
    <3> QED BY <3>1, <2>1, <1>3, <1>10
  <2>2. c[0] \in V
    BY <1>5, <1>10
  <2> QED BY <2>1, <2>2, RunStays
<1>12. c \in [0 .. Len(samples) -> V]
  BY <1>1, <1>9, <1>11
<1>13. \A z \in Nat : z < n => c[z] \in V
  BY <1>11
<1> QED BY <1>1, <1>2, <1>10, <1>12 DEF V, term

LEMMA DurationRun ==
  ASSUME NEW samples \in Seq(Sample)
  PROVE  \E sum : /\ sum \in [0 .. Len(samples) -> Nat] /\ sum[0] = 0
                  /\ \A k \in Nat : k < Len(samples)
                       => sum[k + 1] = sum[k] + samples[k + 1].duration
                  /\ H!total_duration(samples) = sum[Len(samples)]
<1>1. PICK n \in Nat : n = Len(samples)
  OBVIOUS
<1> DEFINE V == Nat
           term(k, v) == v + samples[k].duration
           step == [x \in Nat \X V |-> IF x[1] \in 1 .. n THEN term(x[1], x[2]) ELSE 0]
           c == CHOOSE f : f = [k \in 0 .. Len(samples) |-> IF k = 0 THEN 0 ELSE term(k, f[k - 1])]
<1>2. H!total_duration(samples) = c[Len(samples)]
  BY Zenon DEF H!total_duration
<1>3. ASSUME NEW k \in 1 .. n, NEW v \in V PROVE term(k, v) \in V
  <2>1. PICK x \in Nat : x = samples[k].duration
    <3>1. samples[k] \in Sample
      BY <1>1
    <3> QED BY <3>1 DEF Sample
  <2>2. v + x \in Nat
    OBVIOUS
  <2> QED BY <2>1, <2>2
<1> HIDE DEF term
<1>5. 0 \in V
  OBVIOUS
<1> HIDE DEF V
<1>6. step \in [Nat \X V -> V]
  BY <1>3, <1>5
<1>7. PICK g \in [0 .. n -> V] : Run(g, n, 0, step)
  <2> HIDE DEF step
  <2> QED BY <1>5, <1>6, RunExists
<1>8. g = [k \in 0 .. Len(samples) |-> IF k = 0 THEN 0 ELSE term(k, g[k - 1])]
  <2>1. ASSUME NEW z \in 1 .. n PROVE g[z] = term(z, g[z - 1])
    <3>1. z - 1 \in Nat /\ z - 1 < n /\ (z - 1) + 1 = z /\ z - 1 \in 0 .. n /\ z \in Nat
      OBVIOUS
    <3>2. g[z] = step[<<z, g[z - 1]>>]
      BY <3>1, <1>7 DEF Run
    <3>3. g[z - 1] \in V
      BY <3>1, <1>7
    <3> QED BY <3>1, <3>2, <3>3
  <2> HIDE DEF step
  <2>2. g[0] = 0 /\ g = [z \in 0 .. n |-> g[z]]
    BY <1>7 DEF Run
  <2>3. ASSUME NEW z \in 0 .. n PROVE g[z] = IF z = 0 THEN 0 ELSE term(z, g[z - 1])
    <3>1. z # 0 => z \in 1 .. n
      OBVIOUS
    <3> QED BY <3>1, <2>1, <2>2
  <2> QED BY <1>1, <2>2, <2>3, Zenon
<1>9. c = [k \in 0 .. Len(samples) |-> IF k = 0 THEN 0 ELSE term(k, c[k - 1])]
  BY <1>8
<1> HIDE DEF c, step
<1>10. c[0] = 0 /\ \A z \in Nat : z < n => c[z + 1] = term(z + 1, c[z])
  <2>1. 0 \in 0 .. n /\ \A z \in Nat : z < n => z + 1 \in 0 .. n /\ z + 1 # 0 /\ (z + 1) - 1 = z
    OBVIOUS
  <2>2. c[0] = 0
    BY <1>1, <1>9, <2>1, Zenon
  <2>3. ASSUME NEW z \in Nat, z < n PROVE c[z + 1] = term(z + 1, c[z])
    <3>1. c[z + 1] = term(z + 1, c[(z + 1) - 1])
      BY <1>1, <1>9, <2>1, <2>3, Zenon
    <3> QED BY <3>1, <2>1, <2>3
  <2> QED BY <2>2, <2>3
<1>11. \A z \in 0 .. n : c[z] \in V
  <2>1. ASSUME NEW z \in Nat, z < n, c[z] \in V PROVE c[z + 1] \in V
    <3>1. z + 1 \in 1 .. n
      BY <2>1
    <3> QED BY <3>1, <2>1, <1>3, <1>10
  <2>2. c[0] \in V
    BY <1>5, <1>10
  <2> QED BY <2>1, <2>2, RunStays
<1>12. c \in [0 .. Len(samples) -> V]
  BY <1>1, <1>9, <1>11
<1>13. \A z \in Nat : z < n => c[z] \in V
  BY <1>11
<1> QED BY <1>1, <1>2, <1>10, <1>12 DEF V, term

\* Entries that begin alike stand for the same at first.
LEMMA ExpandsAlike ==
  ASSUME NEW e \in Seq(Entry), NEW f \in Seq(Entry), NEW c, Expands(c, e), NEW h, Expands(h, f),
         NEW m \in Nat, m <= Len(e), m <= Len(f), \A k \in 1 .. m : e[k] = f[k]
  PROVE  c[m] = h[m]
<1> DEFINE M == {k \in Nat : k <= m => c[k] = h[k]}
<1>1. 0 \in M
  BY DEF Expands
<1>2. ASSUME NEW k \in M PROVE k + 1 \in M
  <2>1. SUFFICES ASSUME k + 1 <= m PROVE c[k + 1] = h[k + 1]
    OBVIOUS
  <2>2. k \in Nat /\ c[k] = h[k] /\ k < Len(e) /\ k < Len(f) /\ k + 1 \in 1 .. m
    BY <2>1
  <2>3. e[k + 1] = f[k + 1]
    BY <2>2
  <2>4. c[k + 1] = c[k] \o [i \in 1 .. e[k + 1].count |-> e[k + 1].duration]
    BY <2>2 DEF Expands
  <2>5. h[k + 1] = h[k] \o [i \in 1 .. f[k + 1].count |-> f[k + 1].duration]
    BY <2>2 DEF Expands
  <2> QED BY <2>2, <2>3, <2>4, <2>5, Zenon
<1>3. m \in M
  <2>1. M \in SUBSET Nat
    OBVIOUS
  <2> HIDE DEF M
  <2> QED BY <1>1, <1>2, <2>1, Counting
<1> QED BY <1>3

LEMMA AddsUpAlike ==
  ASSUME NEW e \in Seq(Entry), NEW f \in Seq(Entry), NEW c, AddsUp(c, e), NEW h, AddsUp(h, f),
         NEW m \in Nat, m <= Len(e), m <= Len(f), \A k \in 1 .. m : e[k] = f[k]
  PROVE  c[m] = h[m]
<1> DEFINE M == {k \in Nat : k <= m => c[k] = h[k]}
<1>1. 0 \in M
  BY DEF AddsUp
<1>2. ASSUME NEW k \in M PROVE k + 1 \in M
  <2>1. SUFFICES ASSUME k + 1 <= m PROVE c[k + 1] = h[k + 1]
    OBVIOUS
  <2>2. k \in Nat /\ c[k] = h[k] /\ k < Len(e) /\ k < Len(f) /\ k + 1 \in 1 .. m
    BY <2>1
  <2>3. e[k + 1] = f[k + 1]
    BY <2>2
  <2>4. c[k + 1] = c[k] + e[k + 1].count * e[k + 1].duration
    BY <2>2 DEF AddsUp
  <2>5. h[k + 1] = h[k] + f[k + 1].count * f[k + 1].duration
    BY <2>2 DEF AddsUp
  <2> QED BY <2>2, <2>3, <2>4, <2>5, Zenon
<1>3. m \in M
  <2>1. M \in SUBSET Nat
    OBVIOUS
  <2> HIDE DEF M
  <2> QED BY <1>1, <1>2, <2>1, Counting
<1> QED BY <1>3

LEMMA MoreOfOne ==
  ASSUME NEW u \in Seq(Nat), NEW y \in Nat, NEW x \in Nat
  PROVE  u \o [i \in 1 .. y + 1 |-> x] = Append(u \o [i \in 1 .. y |-> x], x)
<1>1. PICK a \in Seq(Nat) : a = [i \in 1 .. y |-> x] /\ Len(a) = y
  <2>1. [i \in 1 .. y |-> x] \in Seq(Nat) /\ Len([i \in 1 .. y |-> x]) = y
    OBVIOUS
  <2> QED BY <2>1
<1>2. <<x>> \in Seq(Nat) /\ Len(<<x>>) = 1 /\ <<x>>[1] = x
  OBVIOUS
<1>3. [i \in 1 .. y + 1 |-> x] \in Seq(Nat) /\ Len([i \in 1 .. y + 1 |-> x]) = y + 1
  OBVIOUS
<1>4. PICK b \in Seq(Nat) : b = Append(a, x)
  BY AppendProperties
<1>5. [i \in 1 .. y + 1 |-> x] = b
  <2>1. Len(b) = y + 1 /\ \A i \in 1 .. y : b[i] = a[i] /\ b[y + 1] = x
    BY <1>1, <1>4, AppendProperties
  <2>2. \A i \in 1 .. y + 1 : i \in 1 .. y \/ i = y + 1
    OBVIOUS
  <2>3. \A i \in 1 .. y + 1 : b[i] = x
    BY <1>1, <1>4, <2>1, <2>2, AppendProperties
  <2> QED BY <1>3, <2>1, <2>3, SeqEqual
<1>6. Append(a, x) = a \o <<x>> /\ Append(u \o a, x) = (u \o a) \o <<x>>
  <2>1. u \o a \in Seq(Nat)
    BY BytesJoined
  <2> QED BY <2>1, AppendIsConcat
<1>7. (u \o a) \o <<x>> = u \o (a \o <<x>>)
  BY <1>2, BytesAssociate
<1> QED BY <1>1, <1>4, <1>5, <1>6, <1>7, Zenon

\* What the entries stand for after the last one.
LEMMA LastEntry ==
  ASSUME NEW f \in Seq(Entry), NEW m \in Nat, Len(f) = m + 1, NEW e \in Seq(Entry),
         m <= Len(e), \A k \in 1 .. m : e[k] = f[k],
         NEW c, Expands(c, e), NEW t, AddsUp(t, e)
  PROVE  /\ H!Runs(f) = c[m] \o [i \in 1 .. f[m + 1].count |-> f[m + 1].duration]
         /\ H!Ticks(f) = t[m] + f[m + 1].count * f[m + 1].duration
<1>1. PICK h : Expands(h, f) /\ H!Runs(f) = h[Len(f)]
  BY ExpandsRun
<1>2. PICK g : AddsUp(g, f) /\ H!Ticks(f) = g[Len(f)]
  BY AddsUpRun
<1>3. m < Len(f) /\ m <= Len(f)
  OBVIOUS
<1>4. c[m] = h[m]
  BY <1>1, <1>3, ExpandsAlike
<1>5. t[m] = g[m]
  BY <1>2, <1>3, AddsUpAlike
<1>6. h[m + 1] = h[m] \o [i \in 1 .. f[m + 1].count |-> f[m + 1].duration]
  BY <1>1, <1>3 DEF Expands
<1>7. g[m + 1] = g[m] + f[m + 1].count * f[m + 1].duration
  BY <1>2, <1>3 DEF AddsUp
<1> QED BY <1>1, <1>2, <1>4, <1>5, <1>6, <1>7, Zenon

Differ(e) == \A k \in 1 .. Len(e) - 1 : e[k].duration # e[k + 1].duration

\* One more sample is one more duration at the end.
LEMMA CountedFacts ==
  ASSUME NEW e \in Seq(Entry), NEW x \in Nat, Differ(e)
  PROVE  /\ Differ(H!Counted(e, x)) /\ H!Runs(e) \in Seq(Nat) /\ H!Ticks(e) \in Nat
         /\ H!Runs(H!Counted(e, x)) = Append(H!Runs(e), x)
         /\ H!Ticks(H!Counted(e, x)) = H!Ticks(e) + x
<1> DEFINE f == H!Counted(e, x)
<1>1. f \in Seq(Entry)
  BY CountedIsSeq
<1>2. PICK c : Expands(c, e) /\ H!Runs(e) = c[Len(e)]
  BY ExpandsRun
<1>3. PICK t : AddsUp(t, e) /\ H!Ticks(e) = t[Len(e)]
  BY AddsUpRun
<1>4. H!Runs(e) \in Seq(Nat) /\ H!Ticks(e) \in Nat
  BY <1>2, <1>3 DEF Expands, AddsUp
<1>5. PICK n \in Nat : n = Len(e)
  OBVIOUS
<1>6. CASE e # << >> /\ e[Len(e)].duration = x
  <2>1. PICK m \in Nat : n = m + 1
    <3>1. n # 0
      BY <1>5, <1>6
    <3> QED BY <3>1
  <2>2. n \in 1 .. Len(e) /\ e[n] \in Entry /\ e[n].duration = x
    <3>1. n \in 1 .. Len(e)
      BY <1>5, <2>1
    <3>2. e[n] \in Entry
      BY <3>1
    <3> QED BY <3>1, <3>2, <1>5, <1>6
  <2>3. PICK y \in Nat : y = e[n].count
    BY <2>2 DEF Entry
  <2>4. PICK z \in Entry : z = [e[n] EXCEPT !.count = @ + 1] /\ z.count = y + 1 /\ z.duration = x
    <3>1. PICK v \in Entry : v = e[n]
      BY <2>2
    <3>2. v.count = y /\ v.duration = x
      BY <2>2, <2>3, <3>1
    <3>3. v = [count |-> y, duration |-> x]
      BY <3>2 DEF Entry
    <3>4. [v EXCEPT !.count = @ + 1] = [count |-> y + 1, duration |-> x]
      BY <3>3
    <3>5. [count |-> y + 1, duration |-> x] \in Entry
      BY DEF Entry
    <3> QED BY <3>1, <3>4, <3>5
  <2>5. f = [e EXCEPT ![n] = z]
    BY <1>5, <1>6, <2>4 DEF H!Counted
  <2> HIDE DEF f
  <2>6. /\ Len(f) = n /\ f[n] = z /\ \A k \in 1 .. n : k # n => f[k] = e[k]
    BY <1>5, <2>2, <2>5, ExceptSeq
  <2>7. \A k \in 1 .. m : e[k] = f[k]
    BY <2>1, <2>6
  <2>8. Len(f) = m + 1 /\ m <= Len(e) /\ m < Len(e)
    BY <1>5, <2>1, <2>6
  <2>9. /\ H!Runs(f) = c[m] \o [i \in 1 .. f[m + 1].count |-> f[m + 1].duration]
        /\ H!Ticks(f) = t[m] + f[m + 1].count * f[m + 1].duration
    BY <1>1, <1>2, <1>3, <2>7, <2>8, LastEntry DEF f
  <2>10. f[m + 1].count = y + 1 /\ f[m + 1].duration = x
    BY <2>1, <2>4, <2>6
  <2>11. /\ c[n] = c[m] \o [i \in 1 .. y |-> x] /\ t[n] = t[m] + y * x
    <3>1. e[m + 1].count = y /\ e[m + 1].duration = x
      BY <2>1, <2>2, <2>3
    <3>2. /\ c[m + 1] = c[m] \o [i \in 1 .. e[m + 1].count |-> e[m + 1].duration]
          /\ t[m + 1] = t[m] + e[m + 1].count * e[m + 1].duration
      BY <1>2, <1>3, <2>8 DEF Expands, AddsUp
    <3> QED BY <2>1, <3>1, <3>2, Zenon
  <2>12. PICK u \in Seq(Nat), r \in Nat : u = c[m] /\ r = t[m]
    <3>1. m \in 0 .. Len(e)
      BY <2>8
    <3> QED BY <3>1, <1>2, <1>3 DEF Expands, AddsUp
  <2>13. u \o [i \in 1 .. y + 1 |-> x] = Append(u \o [i \in 1 .. y |-> x], x)
    BY MoreOfOne
  <2>14. r + (y + 1) * x = (r + y * x) + x
    OBVIOUS
  <2>15. Differ(f)
    <3>1. \A k \in 1 .. n : f[k].duration = e[k].duration
      BY <2>2, <2>4, <2>6
    <3>2. \A k \in 1 .. n - 1 : k \in 1 .. n /\ k + 1 \in 1 .. n
      OBVIOUS
    <3>3. \A k \in 1 .. n - 1 : e[k].duration # e[k + 1].duration
      BY <1>5 DEF Differ
    <3>4. \A k \in 1 .. n - 1 : f[k].duration # f[k + 1].duration
      BY <3>1, <3>2, <3>3
    <3> QED BY <3>4, <2>6 DEF Differ
  <2>16. H!Runs(f) = Append(H!Runs(e), x)
    <3>1. H!Runs(f) = u \o [i \in 1 .. y + 1 |-> x]
      BY <2>9, <2>10, <2>12, Zenon
    <3>2. H!Runs(e) = u \o [i \in 1 .. y |-> x]
      BY <1>2, <1>5, <2>11, <2>12, Zenon
    <3> QED BY <3>1, <3>2, <2>13, Zenon
  <2>17. H!Ticks(f) = H!Ticks(e) + x
    <3>1. H!Ticks(f) = r + (y + 1) * x
      BY <2>9, <2>10, <2>12, Zenon
    <3>2. H!Ticks(e) = r + y * x
      BY <1>3, <1>5, <2>11, <2>12, Zenon
    <3> QED BY <3>1, <3>2, <2>14, Zenon
  <2> QED BY <1>4, <2>15, <2>16, <2>17 DEF f
<1>7. CASE ~(e # << >> /\ e[Len(e)].duration = x)
  <2>1. PICK z \in Entry : z = [count |-> 1, duration |-> x] /\ z.count = 1 /\ z.duration = x
    <3>1. [count |-> 1, duration |-> x] \in Entry
      BY DEF Entry
    <3> QED BY <3>1
  <2>2. f = Append(e, z)
    BY <1>7, <2>1 DEF H!Counted
  <2> HIDE DEF f
  <2>3. Len(f) = n + 1 /\ f[n + 1] = z /\ \A k \in 1 .. n : f[k] = e[k]
    BY <1>5, <2>2, AppendProperties
  <2>4. \A k \in 1 .. n : e[k] = f[k]
    BY <2>3
  <2>5. n <= Len(e)
    BY <1>5
  <2>6. /\ H!Runs(f) = c[n] \o [i \in 1 .. f[n + 1].count |-> f[n + 1].duration]
        /\ H!Ticks(f) = t[n] + f[n + 1].count * f[n + 1].duration
    BY <1>1, <1>2, <1>3, <2>3, <2>4, <2>5, LastEntry DEF f
  <2>7. PICK u \in Seq(Nat), r \in Nat : u = c[n] /\ r = t[n]
    BY <1>2, <1>3, <1>4, <1>5
  <2>8. [i \in 1 .. 1 |-> x] = <<x>> /\ u \o <<x>> = Append(u, x)
    <3>1. u \o <<x>> = Append(u, x)
      BY AppendIsConcat
    <3>2. [i \in 1 .. 1 |-> x] = <<x>>
      OBVIOUS
    <3> QED BY <3>1, <3>2
  <2>9. H!Runs(f) = Append(H!Runs(e), x)
    BY <1>2, <1>5, <2>1, <2>3, <2>6, <2>7, <2>8, Zenon
  <2>10. r + 1 * x = r + x
    OBVIOUS
  <2>11. H!Ticks(f) = H!Ticks(e) + x
    BY <1>3, <1>5, <2>1, <2>3, <2>6, <2>7, <2>10, Zenon
  <2>12. Differ(f)
    <3>1. SUFFICES ASSUME NEW k \in 1 .. n PROVE f[k].duration # f[k + 1].duration
      BY <2>3 DEF Differ
    <3>2. CASE k = n
      <4>1. e # << >>
        BY <3>2, <1>5
      <4> QED BY <4>1, <3>2, <1>5, <1>7, <2>1, <2>3
    <3>3. CASE k < n
      <4>1. k \in 1 .. Len(e) - 1 /\ k + 1 \in 1 .. n
        BY <3>3, <1>5
      <4>2. e[k].duration # e[k + 1].duration
        BY <4>1 DEF Differ
      <4> QED BY <4>1, <4>2, <2>3
    <3> QED BY <3>2, <3>3
  <2> QED BY <1>4, <2>9, <2>11, <2>12 DEF f
<1> QED BY <1>6, <1>7

\* The key frames among the first k samples, in order.
Listed(keys, samples, k) ==
  /\ keys \in Seq(Nat)
  /\ \A i \in 1 .. k : samples[i].is_key <=> \E j \in 1 .. Len(keys) : keys[j] = i
  /\ \A j \in 1 .. Len(keys) : keys[j] \in 1 .. k
  /\ \A j \in 1 .. Len(keys) - 1 : keys[j] < keys[j + 1]

LEMMA ListedNext ==
  ASSUME NEW keys, NEW samples, NEW k \in Nat, Listed(keys, samples, k)
  PROVE  /\ samples[k + 1].is_key => Listed(Append(keys, k + 1), samples, k + 1)
         /\ ~samples[k + 1].is_key => Listed(keys, samples, k + 1)
<1>1. keys \in Seq(Nat) /\ k + 1 \in Nat
  BY DEF Listed
<1>2. \A i \in 1 .. k + 1 : i \in 1 .. k \/ i = k + 1
  OBVIOUS
<1>3. \A i \in 1 .. k : i \in 1 .. k + 1 /\ i # k + 1 /\ i < k + 1
  OBVIOUS
<1>4. ASSUME samples[k + 1].is_key PROVE Listed(Append(keys, k + 1), samples, k + 1)
  <2>1. PICK z \in Nat : z = k + 1
    OBVIOUS
  <2>2. PICK n \in Nat : n = Len(keys)
    BY <1>1
  <2>3. PICK all \in Seq(Nat) : /\ all = Append(keys, z) /\ Len(all) = n + 1 /\ all[n + 1] = z
                                /\ \A j \in 1 .. n : all[j] = keys[j]
    <3>1. PICK before \in Seq(Nat) : before = keys
      BY <1>1
    <3>2. PICK all \in Seq(Nat) : all = Append(before, z)
      BY AppendProperties
    <3>3. Len(all) = n + 1 /\ all[n + 1] = z
      BY <2>2, <3>1, <3>2, AppendProperties
    <3>4. \A j \in 1 .. n : all[j] = keys[j]
      BY <2>2, <3>1, <3>2, AppendProperties
    <3> QED BY <3>1, <3>2, <3>3, <3>4
  <2>4. \A j \in 1 .. n + 1 : j \in 1 .. n \/ j = n + 1
    OBVIOUS
  <2>5. \A i \in 1 .. z : samples[i].is_key <=> \E j \in 1 .. n + 1 : all[j] = i
    <3>1. ASSUME NEW i \in 1 .. k
          PROVE  samples[i].is_key <=> \E j \in 1 .. n + 1 : all[j] = i
      <4>1. samples[i].is_key <=> \E j \in 1 .. n : keys[j] = i
        BY <2>2 DEF Listed
      <4>2. i # z /\ \A j \in 1 .. n : j \in 1 .. n + 1
        BY <1>3, <2>1
      <4> QED BY <4>1, <4>2, <2>3, <2>4
    <3>2. \E j \in 1 .. n + 1 : all[j] = z
      <4>1. n + 1 \in 1 .. n + 1
        OBVIOUS
      <4> QED BY <4>1, <2>3
    <3> QED BY <3>1, <3>2, <1>2, <1>4, <2>1
  <2>6. \A j \in 1 .. n + 1 : all[j] \in 1 .. z
    <3>1. \A j \in 1 .. n : keys[j] \in 1 .. k
      BY <2>2 DEF Listed
    <3>2. z \in 1 .. z
      BY <2>1
    <3> QED BY <3>1, <3>2, <1>3, <2>1, <2>3, <2>4
  <2>7. \A j \in 1 .. (n + 1) - 1 : all[j] < all[j + 1]
    <3>1. SUFFICES ASSUME NEW j \in 1 .. n PROVE all[j] < all[j + 1]
      OBVIOUS
    <3>2. keys[j] \in 1 .. k /\ all[j] = keys[j]
      BY <2>2, <2>3 DEF Listed
    <3>3. CASE j = n
      BY <3>2, <3>3, <1>3, <2>1, <2>3
    <3>4. CASE j < n
      <4>1. j \in 1 .. Len(keys) - 1 /\ j + 1 \in 1 .. n
        BY <3>4, <2>2
      <4>2. keys[j] < keys[j + 1]
        BY <4>1 DEF Listed
      <4> QED BY <3>2, <4>1, <4>2, <2>3
    <3> QED BY <3>3, <3>4
  <2>8. Listed(all, samples, z)
    BY <2>3, <2>5, <2>6, <2>7 DEF Listed
  <2> QED BY <2>1, <2>3, <2>8
<1>5. ASSUME ~samples[k + 1].is_key PROVE Listed(keys, samples, k + 1)
  <2>1. /\ \A i \in 1 .. k : samples[i].is_key <=> \E j \in 1 .. Len(keys) : keys[j] = i
        /\ \A j \in 1 .. Len(keys) : keys[j] \in 1 .. k
        /\ \A j \in 1 .. Len(keys) - 1 : keys[j] < keys[j + 1]
    BY DEF Listed
  <2>2. \A j \in 1 .. Len(keys) : keys[j] # k + 1 /\ keys[j] \in 1 .. k + 1
    BY <2>1, <1>3
  <2>3. \A i \in 1 .. k + 1 : samples[i].is_key <=> \E j \in 1 .. Len(keys) : keys[j] = i
    BY <2>1, <2>2, <1>2, <1>5
  <2> QED BY <1>1, <2>1, <2>2, <2>3 DEF Listed
<1> QED BY <1>4, <1>5

\* For every list of samples the tables give the samples back.
THEOREM TablesGiveBack ==
  ASSUME NEW samples \in Seq(Sample) PROVE H!TablesExact(samples)
<1>1. PICK n \in Nat : n = Len(samples)
  OBVIOUS
<1>2. PICK entries :
        /\ entries \in [0 .. n -> Seq(Entry)] /\ entries[0] = << >>
        /\ \A k \in Nat : k < n => entries[k + 1] = H!Counted(entries[k], samples[k + 1].duration)
        /\ H!build_stts(samples) = entries[n]
  BY <1>1, EntriesRun
<1>3. PICK keys :
        /\ keys \in [0 .. n -> Seq(Nat)] /\ keys[0] = << >>
        /\ \A k \in Nat : k < n =>
             keys[k + 1] = IF samples[k + 1].is_key THEN Append(keys[k], k + 1) ELSE keys[k]
        /\ H!build_stss(samples) = keys[n]
  BY <1>1, KeysRun
<1>4. PICK sum :
        /\ sum \in [0 .. n -> Nat] /\ sum[0] = 0
        /\ \A k \in Nat : k < n => sum[k + 1] = sum[k] + samples[k + 1].duration
        /\ H!total_duration(samples) = sum[n]
  BY <1>1, DurationRun
<1> DEFINE Holds(k) == /\ Differ(entries[k]) /\ Listed(keys[k], samples, k)
                       /\ H!Ticks(entries[k]) = sum[k]
                       /\ H!Runs(entries[k]) \in Seq(Nat) /\ Len(H!Runs(entries[k])) = k
                       /\ \A i \in 1 .. k : H!Runs(entries[k])[i] = samples[i].duration
           M == {k \in Nat : k <= n => Holds(k)}
<1>5. 0 \in M
  <2>1. << >> \in Seq(Entry) /\ Len(<< >>) = 0
    OBVIOUS
  <2>2. H!Runs(<< >>) = << >> /\ H!Ticks(<< >>) = 0
    <3>1. PICK c : Expands(c, << >>) /\ H!Runs(<< >>) = c[Len(<< >>)]
      BY <2>1, ExpandsRun
    <3>2. PICK t : AddsUp(t, << >>) /\ H!Ticks(<< >>) = t[Len(<< >>)]
      BY <2>1, AddsUpRun
    <3> QED BY <2>1, <3>1, <3>2 DEF Expands, AddsUp
  <2>3. Differ(<< >>) /\ Listed(<< >>, samples, 0)
    BY DEF Differ, Listed
  <2> QED BY <1>2, <1>3, <1>4, <2>1, <2>2, <2>3
<1>6. ASSUME NEW k \in M PROVE k + 1 \in M
  <2>1. SUFFICES ASSUME k + 1 <= n PROVE Holds(k + 1)
    OBVIOUS
  <2>2. k \in Nat /\ k < n /\ k \in 0 .. n /\ Holds(k) /\ k + 1 \in 1 .. n
    BY <2>1
  <2>3. PICK e \in Seq(Entry), s \in Nat : e = entries[k] /\ s = sum[k]
    BY <1>2, <1>4, <2>2
  <2>4. PICK x \in Nat : x = samples[k + 1].duration
    <3>1. samples[k + 1] \in Sample
      BY <1>1, <2>2
    <3> QED BY <3>1 DEF Sample
  <2>5. PICK f \in Seq(Entry) : f = H!Counted(e, x)
    BY CountedIsSeq
  <2>6. entries[k + 1] = f
    BY <1>2, <2>2, <2>3, <2>4, <2>5
  <2>7. /\ Differ(f) /\ H!Runs(f) = Append(H!Runs(e), x) /\ H!Ticks(f) = H!Ticks(e) + x
    BY <2>2, <2>3, <2>5, CountedFacts
  <2>8. sum[k + 1] = s + x /\ H!Ticks(e) = s
    BY <1>4, <2>2, <2>3, <2>4
  <2>9. PICK r \in Seq(Nat) : r = H!Runs(e) /\ Len(r) = k
    BY <2>2, <2>3
  <2>10. \A i \in 1 .. k : r[i] = samples[i].duration
    BY <2>2, <2>3, <2>9
  <2>11. /\ Append(r, x) \in Seq(Nat) /\ Len(Append(r, x)) = k + 1
         /\ \A i \in 1 .. k : Append(r, x)[i] = r[i] /\ Append(r, x)[k + 1] = x
    BY <2>9, AppendProperties
  <2>12. \A i \in 1 .. k + 1 : Append(r, x)[i] = samples[i].duration
    <3>1. \A i \in 1 .. k + 1 : i \in 1 .. k \/ i = k + 1
      BY <2>2
    <3>2. Append(r, x)[k + 1] = x
      BY <2>9, AppendProperties
    <3> QED BY <3>1, <3>2, <2>4, <2>10, <2>11
  <2>13. H!Runs(entries[k + 1]) = Append(r, x)
    BY <2>6, <2>7, <2>9
  <2>14. H!Ticks(entries[k + 1]) = sum[k + 1]
    BY <2>6, <2>7, <2>8
  <2>15. Listed(keys[k + 1], samples, k + 1)
    <3>1. Listed(keys[k], samples, k)
      BY <2>2
    <3>2. CASE samples[k + 1].is_key
      <4>1. keys[k + 1] = Append(keys[k], k + 1)
        BY <3>2, <1>3, <2>2
      <4> QED BY <3>1, <3>2, <4>1, <2>2, ListedNext
    <3>3. CASE ~samples[k + 1].is_key
      <4>1. keys[k + 1] = keys[k]
        BY <3>3, <1>3, <2>2
      <4> QED BY <3>1, <3>3, <4>1, <2>2, ListedNext
    <3> QED BY <3>2, <3>3
  <2> QED BY <2>6, <2>7, <2>11, <2>12, <2>13, <2>14, <2>15
<1>7. Holds(n)
  <2>1. M \in SUBSET Nat
    OBVIOUS
  <2>2. n \in M
    <3> HIDE DEF M
    <3> QED BY <1>5, <1>6, <2>1, Counting
  <2> QED BY <2>2
<1>8. PICK stts \in Seq(Entry), stss \in Seq(Nat) :
        stts = H!build_stts(samples) /\ stss = H!build_stss(samples)
  BY <1>2, <1>3
<1>9. H!Runs(stts) = [i \in DOMAIN samples |-> samples[i].duration]
  <2>1. PICK r \in Seq(Nat) : r = H!Runs(stts) /\ Len(r) = n
          /\ \A i \in 1 .. n : r[i] = samples[i].duration
    BY <1>2, <1>7, <1>8
  <2>2. DOMAIN samples = 1 .. n /\ r = [i \in 1 .. n |-> r[i]]
    BY <1>1, <2>1
  <2> QED BY <2>1, <2>2, Zenon
<1>10. \A k \in 1 .. Len(stts) - 1 : stts[k].duration # stts[k + 1].duration
  BY <1>2, <1>7, <1>8 DEF Differ
<1>11. H!total_duration(samples) = H!Ticks(stts)
  BY <1>2, <1>4, <1>7, <1>8
<1>12. Listed(stss, samples, n)
  BY <1>3, <1>7, <1>8
<1>13. \A i \in DOMAIN samples : samples[i].is_key <=> \E k \in DOMAIN stss : stss[k] = i
  <2>1. DOMAIN samples = 1 .. n /\ DOMAIN stss = 1 .. Len(stss)
    BY <1>1
  <2> QED BY <2>1, <1>12, Zenon DEF Listed
<1>14. \A k \in 1 .. Len(stss) - 1 : stss[k] < stss[k + 1]
  BY <1>12 DEF Listed
<1> HIDE DEF Holds, M
<1> QED BY <1>8, <1>9, <1>10, <1>11, <1>13, <1>14, Zenon DEF H!TablesExact

-----------------------------------------------------------------------------
(* The ring buffer and the timestamp *)

\* A part of some bytes.
LEMMA PartOf ==
  ASSUME NEW s \in Seq(Nat), NEW a \in Nat, NEW n \in Nat, a + n <= Len(s)
  PROVE  \E p \in Seq(Nat) : /\ p = SubSeq(s, a + 1, a + n) /\ Len(p) = n
                             /\ \A i \in 1 .. n : p[i] = s[a + i]
<1>1. PICK q \in Nat, b \in Nat : q = a + 1 /\ b = a + n
  OBVIOUS
<1>2. \A i \in q .. b : s[i] \in Nat
  BY <1>1
<1>3. /\ SubSeq(s, q, b) \in Seq(Nat)
      /\ Len(SubSeq(s, q, b)) = IF q <= b THEN b - q + 1 ELSE 0
      /\ \A i \in 1 .. b - q + 1 : SubSeq(s, q, b)[i] = s[q + i - 1]
  BY <1>1, <1>2, SubSeqProperties
<1>4. PICK p \in Seq(Nat) : p = SubSeq(s, q, b)
  BY <1>3
<1>5. Len(p) = n
  BY <1>1, <1>3, <1>4
<1>6. \A i \in 1 .. n : i \in 1 .. b - q + 1 /\ q + i - 1 = a + i
  BY <1>1
<1>7. \A i \in 1 .. n : p[i] = s[a + i]
  BY <1>3, <1>4, <1>6
<1> QED BY <1>1, <1>4, <1>5, <1>7

\* A position beyond the end is one from the start.
LEMMA Around ==
  ASSUME NEW n \in Nat \ {0}, NEW x \in 0 .. n + n - 1
  PROVE  x % n = IF x < n THEN x ELSE x - n
OBVIOUS

LEMMA PackComplete ==
  ASSUME NEW ring \in Seq(Nat), NEW offset \in Nat, NEW length \in Nat,
         offset < Len(ring), length <= Len(ring)
  PROVE  H!PackWhole(ring, offset, length)
<1>1. PICK n \in Nat \ {0} : n = Len(ring)
  OBVIOUS
<1>2. ASSUME NEW i \in 1 .. length
      PROVE  /\ offset + i <= n => 1 + ((offset + i - 1) % n) = offset + i
             /\ offset + i > n => 1 + ((offset + i - 1) % n) = offset + i - n
  <2>1. PICK x \in 0 .. n + n - 1 : x = offset + i - 1
    BY <1>1
  <2>2. x % n = IF x < n THEN x ELSE x - n
    BY Around
  <2>3. PICK y \in Int : y = x % n
    BY <2>2
  <2>4. x < n => 1 + y = offset + i
    BY <2>1, <2>2, <2>3
  <2>5. x >= n => 1 + y = offset + i - n
    BY <2>1, <2>2, <2>3
  <2>6. /\ offset + i <= n => 1 + y = offset + i
        /\ offset + i > n => 1 + y = offset + i - n
    BY <2>1, <2>4, <2>5
  <2> QED BY <2>1, <2>3, <2>6
<1> DEFINE pack == H!get_pack_data(ring, offset, length)
<1>3. /\ pack \in Seq(Nat) /\ Len(pack) = length
      /\ \A i \in 1 .. length : pack[i] = ring[1 + ((offset + i - 1) % n)]
  <2>1. CASE n - offset < length
    <3>1. PICK k \in Nat, m \in Nat : k = n - offset /\ m = length - k
      <4>1. n - offset \in Nat /\ length - (n - offset) \in Nat
        BY <1>1, <2>1
      <4> QED BY <4>1
    <3>2. PICK a \in Seq(Nat) : /\ a = SubSeq(ring, offset + 1, offset + k) /\ Len(a) = k
                                /\ \A i \in 1 .. k : a[i] = ring[offset + i]
      <4>1. offset + k <= Len(ring)
        BY <1>1, <3>1
      <4> QED BY <4>1, PartOf
    <3>3. PICK b \in Seq(Nat) : /\ b = SubSeq(ring, 1, m) /\ Len(b) = m
                                /\ \A i \in 1 .. m : b[i] = ring[i]
      <4>1. PICK z \in Nat : z = 0
        OBVIOUS
      <4>2. z + m <= Len(ring)
        BY <1>1, <3>1, <4>1
      <4>3. PICK b \in Seq(Nat) : /\ b = SubSeq(ring, z + 1, z + m) /\ Len(b) = m
                                  /\ \A i \in 1 .. m : b[i] = ring[z + i]
        BY <4>2, PartOf
      <4>4. z + 1 = 1 /\ z + m = m /\ \A i \in 1 .. m : z + i = i
        BY <4>1
      <4> QED BY <4>3, <4>4
    <3>4. pack = a \o b
      <4>1. offset + k = Len(ring) /\ m = length - (Len(ring) - offset)
        BY <1>1, <3>1
      <4>2. Len(ring) - offset < length
        BY <1>1, <2>1
      <4> QED BY <3>2, <3>3, <4>1, <4>2 DEF H!get_pack_data
    <3>5. PICK j \in Seq(Nat) : j = a \o b
      BY BytesJoined
    <3>6. /\ Len(j) = k + m /\ \A i \in 1 .. k : j[i] = a[i]
          /\ \A i \in 1 .. m : j[k + i] = b[i]
      <4>1. /\ Len(j) = Len(a) + Len(b) /\ \A i \in 1 .. Len(a) : j[i] = a[i]
            /\ \A i \in 1 .. Len(b) : j[Len(a) + i] = b[i]
        BY <3>5, BytesJoined
      <4>2. Len(a) = k /\ Len(b) = m
        BY <3>2, <3>3
      <4> QED BY <4>1, <4>2
    <3>7. Len(j) = length
      BY <3>1, <3>6
    <3>8. ASSUME NEW i \in 1 .. length PROVE j[i] = ring[1 + ((offset + i - 1) % n)]
      <4>1. CASE i <= k
        <5>1. j[i] = ring[offset + i]
          <6>1. i \in 1 .. k
            BY <4>1
          <6> QED BY <6>1, <3>2, <3>6
        <5>2. offset + i <= n
          BY <4>1, <3>1, <1>1
        <5> QED BY <5>1, <5>2, <1>2
      <4>2. CASE i > k
        <5>1. PICK l \in 1 .. m : k + l = i
          <6>1. i - k \in 1 .. m /\ k + (i - k) = i
            BY <4>2, <3>1
          <6> QED BY <6>1
        <5>2. j[i] = ring[l]
          BY <5>1, <3>3, <3>6
        <5>3. l = offset + i - n /\ offset + i > n
          BY <5>1, <3>1, <1>1
        <5>4. 1 + ((offset + i - 1) % n) = l
          BY <5>3, <1>2
        <5> QED BY <5>2, <5>4
      <4> QED BY <4>1, <4>2, <3>1
    <3> QED BY <3>4, <3>5, <3>7, <3>8
  <2>2. CASE ~(n - offset < length)
    <3>1. offset + length <= Len(ring) /\ ~(Len(ring) - offset < length)
      BY <1>1, <2>2
    <3>2. PICK a \in Seq(Nat) : /\ a = SubSeq(ring, offset + 1, offset + length)
                                /\ Len(a) = length
                                /\ \A i \in 1 .. length : a[i] = ring[offset + i]
      BY <3>1, PartOf
    <3>3. pack = a
      BY <3>1, <3>2 DEF H!get_pack_data
    <3>4. \A i \in 1 .. length : offset + i <= n
      BY <1>1, <2>2
    <3> QED BY <3>2, <3>3, <3>4, <1>2
  <2> QED BY <2>1, <2>2
<1> HIDE DEF pack
<1>4. pack = [i \in 1 .. length |-> ring[1 + ((offset + i - 1) % n)]]
  <2>1. DOMAIN pack = 1 .. length /\ pack = [i \in DOMAIN pack |-> pack[i]]
    BY <1>3
  <2> QED BY <1>3, <2>1, Zenon
<1> QED BY <1>1, <1>4, Zenon DEF H!PackWhole, pack

LEMMA RegionInPicture == ASSUME NEW value PROVE O!RegionFits(value)
<1>1. O!from_u32(value) \in O!Positions
  BY Zenon DEF O!from_u32, O!Positions
<1>2. ASSUME NEW pos \in O!Positions
      PROVE  /\ 0 <= O!rect(pos).x0 /\ O!rect(pos).x1 < 1920
             /\ 0 <= O!rect(pos).y0 /\ O!rect(pos).y1 < 1080
             /\ O!rect(pos).x1 - O!rect(pos).x0 + 1 = O!Stride
             /\ O!rect(pos).y1 - O!rect(pos).y0 + 1 = O!CHAR_HEIGHT
  BY SMT DEF O!Positions, O!rect, O!Stride, O!TEXT_BUF_SIZE, O!CHAR_WIDTH, O!CHAR_HEIGHT
<1> QED BY <1>1, <1>2, SMT DEF O!RegionFits

LEMMA TextInRows ==
  ASSUME NEW length \in 0 .. O!TEXT_BUF_SIZE PROVE O!TextFits(length)
<1>1. SUFFICES ASSUME NEW i \in 0 .. length - 1, NEW j \in {0, O!CHAR_HEIGHT - 1}
               PROVE  /\ O!Cells(i, j) \subseteq j * O!Stride .. (j + 1) * O!Stride - 1
                      /\ i > 0 => O!Cells(i, j) \cap O!Cells(i - 1, j) = {}
  BY DEF O!TextFits
<1>2. i \in 0 .. 42 /\ j \in {0, 15}
  BY SMT DEF O!TEXT_BUF_SIZE, O!CHAR_HEIGHT
<1>3. PICK q \in Int : q = j * O!Stride /\ (j + 1) * O!Stride = q + 602
  BY <1>2, SMT DEF O!Stride, O!TEXT_BUF_SIZE, O!CHAR_WIDTH
<1>4. O!Cells(i, j) = (q + i * 13 + 1) .. (q + i * 13 + 12)
  BY <1>3, SMT DEF O!Cells, O!CHAR_WIDTH
<1>5. O!Cells(i - 1, j) = (q + (i - 1) * 13 + 1) .. (q + (i - 1) * 13 + 12)
  BY <1>3, SMT DEF O!Cells, O!CHAR_WIDTH
<1> HIDE DEF O!Cells
<1>6. O!Cells(i, j) \subseteq q .. q + 602 - 1
  BY <1>2, <1>4, SMT
<1>7. O!Cells(i, j) \cap O!Cells(i - 1, j) = {}
  BY <1>2, <1>4, <1>5, SMT
<1> QED BY <1>3, <1>6, <1>7

LEMMA GlyphsDiffer == O!GlyphsApart
<1> DEFINE Sign == {<<".", 0>>, <<"-", 0>>, <<"+", 0>>, <<":", 0>>, <<"v", 0>>}
           Place(c) == O!char_index(c)
<1>1. /\ Place(<<".", 0>>) = 0 /\ Place(<<"-", 0>>) = 49 /\ Place(<<"+", 0>>) = 50
      /\ Place(<<":", 0>>) = 12 /\ Place(<<"v", 0>>) = 51
  BY DEF O!char_index
<1>2. \A x \in 0 .. 9 : Place(<<"digit", x>>) = 2 + x
  BY DEF O!char_index
<1>3. \A x \in 0 .. 25 : Place(<<"letter", x>>) = 19 + x
  BY DEF O!char_index
<1>4. ASSUME NEW c \in O!Characters
      PROVE  \/ c \in Sign \/ \E x \in 0 .. 9 : c = <<"digit", x>>
             \/ \E x \in 0 .. 25 : c = <<"letter", x>>
  BY DEF O!Characters
<1> HIDE DEF Place
<1>5. ASSUME NEW c \in Sign
      PROVE  /\ Place(c) \in {0, 12, 49, 50, 51}
             /\ \A h \in Sign : Place(c) = Place(h) => c = h
  <2>1. ASSUME NEW h \in Sign
        PROVE  \/ h = <<".", 0>> /\ Place(h) = 0
               \/ h = <<"-", 0>> /\ Place(h) = 49
               \/ h = <<"+", 0>> /\ Place(h) = 50
               \/ h = <<":", 0>> /\ Place(h) = 12
               \/ h = <<"v", 0>> /\ Place(h) = 51
    BY <1>1
  <2> HIDE DEF Sign
  <2>2. Place(c) \in {0, 12, 49, 50, 51}
    BY <2>1
  <2>3. ASSUME NEW h \in Sign, Place(c) = Place(h) PROVE c = h
    BY <2>1, <2>3
  <2> QED BY <2>2, <2>3
<1>6. ASSUME NEW c \in O!Characters PROVE Place(c) \in 0 .. 51
  BY <1>2, <1>3, <1>4, <1>5
<1>7. ASSUME NEW c \in O!Characters, NEW h \in O!Characters, Place(c) = Place(h) PROVE c = h
  <2>1. CASE c \in Sign
    <3>1. CASE h \in Sign
      BY <2>1, <3>1, <1>5, <1>7
    <3>2. CASE \E x \in 0 .. 9 : h = <<"digit", x>>
      BY <2>1, <3>2, <1>2, <1>5, <1>7
    <3>3. CASE \E x \in 0 .. 25 : h = <<"letter", x>>
      BY <2>1, <3>3, <1>3, <1>5, <1>7
    <3> QED BY <3>1, <3>2, <3>3, <1>4
  <2>2. CASE \E x \in 0 .. 9 : c = <<"digit", x>>
    <3>1. PICK x \in 0 .. 9 : c = <<"digit", x>>
      BY <2>2
    <3>2. Place(c) = 2 + x
      BY <3>1, <1>2
    <3>3. CASE h \in Sign
      BY <3>2, <3>3, <1>5, <1>7
    <3>4. CASE \E y \in 0 .. 9 : h = <<"digit", y>>
      <4>1. PICK y \in 0 .. 9 : h = <<"digit", y>>
        BY <3>4
      <4>2. Place(h) = 2 + y
        BY <4>1, <1>2
      <4>3. x = y
        BY <3>2, <4>2, <1>7
      <4> QED BY <3>1, <4>1, <4>3
    <3>5. CASE \E y \in 0 .. 25 : h = <<"letter", y>>
      BY <3>2, <3>5, <1>3, <1>7
    <3> QED BY <3>3, <3>4, <3>5, <1>4
  <2>3. CASE \E x \in 0 .. 25 : c = <<"letter", x>>
    <3>1. PICK x \in 0 .. 25 : c = <<"letter", x>>
      BY <2>3
    <3>2. Place(c) = 19 + x
      BY <3>1, <1>3
    <3>3. CASE h \in Sign
      BY <3>2, <3>3, <1>5, <1>7
    <3>4. CASE \E y \in 0 .. 9 : h = <<"digit", y>>
      BY <3>2, <3>4, <1>2, <1>7
    <3>5. CASE \E y \in 0 .. 25 : h = <<"letter", y>>
      <4>1. PICK y \in 0 .. 25 : h = <<"letter", y>>
        BY <3>5
      <4>2. Place(h) = 19 + y
        BY <4>1, <1>3
      <4>3. x = y
        BY <3>2, <4>2, <1>7
      <4> QED BY <3>1, <4>1, <4>3
    <3> QED BY <3>3, <3>4, <3>5, <1>4
  <2> QED BY <2>1, <2>2, <2>3, <1>4
<1> QED BY <1>6, <1>7 DEF O!GlyphsApart, O!CHAR_LENGTH, Place

-----------------------------------------------------------------------------
(* The behaviours of MCVideo *)

videoVars == <<focus, input, vars, timelapseVars, playerVars, pageVars, captureVars>>

\* A step of one component leaves the others alone.
LEMMA PartsStep ==
  [MCNext]_<<focus, input, vars, timelapseVars, playerVars, pageVars, captureVars>> =>
    /\ [Next]_vars /\ [T!Next]_(T!vars) /\ [P!Next]_playerVars
    /\ [W!Next]_pageVars /\ [C!Next]_captureVars
BY DEF MCNext, Moves, timelapseVars, T!vars, T!workerVars, T!taskVars

\* An algorithm is given one of its inputs.
InputInv == input = << >> \/ \E i \in Inputs(focus) : input = <<i>>

LEMMA InputStep == InputInv /\ [MCNext]_videoVars => InputInv'
<1> SUFFICES ASSUME InputInv, [MCNext]_videoVars PROVE InputInv'
  OBVIOUS
<1>1. CASE UNCHANGED <<focus, input>>
  <2>1. Inputs(focus)' = Inputs(focus)
    BY <1>1 DEF Inputs
  <2> QED BY <1>1, <2>1 DEF InputInv
<1>2. CASE UNCHANGED focus /\ Choose
  <2>1. PICK i \in Inputs(focus) : input' = <<i>>
    BY <1>2 DEF Choose
  <2>2. Inputs(focus)' = Inputs(focus)
    BY <1>2 DEF Inputs
  <2> QED BY <2>1, <2>2 DEF InputInv
<1> QED BY <1>1, <1>2 DEF MCNext, Moves, videoVars

\* The frames, packs and samples that TLC checks are such.
LEMMA StreamsTyped ==
  ASSUME NEW d \in Streams \cup Headed PROVE d \in Seq(Nat) /\ In32Bits(Len(d))
<1>1. CASE d \in Streams
  <2>1. PICK n \in 0 .. 8 : d \in [1 .. n -> {0, 1, 2}]
    BY <1>1 DEF Streams
  <2>2. d \in Seq(Nat) /\ Len(d) = n
    BY <2>1
  <2> QED BY <2>2, SMT DEF In32Bits
<1>2. CASE d \in Headed
  <2>1. PICK p \in Bodies, q \in Bodies : d = <<0, 0, 1>> \o p \o <<0, 0, 1>> \o q
    BY <1>2 DEF Headed
  <2>2. PICK m \in 0 .. 3 : p \in [1 .. m -> {0, 64, 66}]
    BY <2>1 DEF Bodies
  <2>3. PICK n \in 0 .. 3 : q \in [1 .. n -> {0, 64, 66}]
    BY <2>1 DEF Bodies
  <2>4. p \in Seq(Nat) /\ Len(p) = m /\ q \in Seq(Nat) /\ Len(q) = n
    <3>1. \A k \in 1 .. m : p[k] \in Nat
      BY <2>2
    <3>2. \A k \in 1 .. n : q[k] \in Nat
      BY <2>3
    <3>3. p \in [1 .. m -> Nat] /\ q \in [1 .. n -> Nat]
      BY <2>2, <2>3, <3>1, <3>2
    <3>4. m \in Nat /\ n \in Nat
      BY <2>2, <2>3
    <3> QED BY <3>3, <3>4
  <2>5. PICK e \in Seq(Nat) : e = <<0, 0, 1>> /\ Len(e) = 3
    <3>1. <<0, 0, 1>> \in Seq(Nat) /\ Len(<<0, 0, 1>>) = 3
      OBVIOUS
    <3> QED BY <3>1, Zenon
  <2>6. PICK x \in Seq(Nat) : x = e \o p /\ Len(x) = 3 + m
    BY <2>4, <2>5, BytesJoined
  <2>7. PICK y \in Seq(Nat) : y = x \o e /\ Len(y) = 6 + m
    <3>1. PICK y \in Seq(Nat) : y = x \o e /\ Len(y) = Len(x) + Len(e)
      BY BytesJoined
    <3>2. Len(x) + Len(e) = 6 + m
      BY <2>2, <2>5, <2>6
    <3> QED BY <3>1, <3>2
  <2>8. PICK z \in Seq(Nat) : z = y \o q /\ Len(z) = (6 + m) + n
    <3>1. PICK z \in Seq(Nat) : z = y \o q /\ Len(z) = Len(y) + Len(q)
      BY <2>4, BytesJoined
    <3> QED BY <3>1, <2>4, <2>7
  <2>9. d = z
    BY <2>1, <2>5, <2>6, <2>7, <2>8, Zenon
  <2>10. Len(z) <= 12
    BY <2>2, <2>3, <2>8
  <2>11. Len(z) \in Nat
    OBVIOUS
  <2> QED BY <2>9, <2>10, <2>11, SMT DEF In32Bits
<1> QED BY <1>1, <1>2

LEMMA InputsExact == InputInv => BytesExact
<1> SUFFICES ASSUME InputInv PROVE BytesExact
  OBVIOUS
<1>1. ASSUME Given("nals") PROVE H!NalsExact(input[1]) /\ H!ParamSetsLast(input[1], OldSets)
  <2>1. PICK d \in Streams \cup Headed : input = <<d>>
    BY <1>1 DEF InputInv, Given, Inputs
  <2>2. d \in Seq(Nat) /\ In32Bits(Len(d)) /\ input[1] = d
    BY <2>1, StreamsTyped
  <2>3. OldSets \in ParamSets
    <3>1. \A x \in 32 .. 34 : <<x, x>> \in Seq(Nat)
      OBVIOUS
    <3> QED BY <3>1 DEF OldSets, ParamSets, H!ParamTypes
  <2>4. H!NalsExact(d)
    BY <2>2, UnitsExact
  <2>5. H!ParamSetsLast(d, OldSets)
    BY <2>2, <2>3, LastSetCounts
  <2> QED BY <2>2, <2>4, <2>5
<1>2. ASSUME Given("pack")
      PROVE  H!PackWhole([i \in 1 .. input[1][1] |-> i], input[1][2], input[1][3])
  <2>1. PICK p \in Packs : input = <<p>>
    BY <1>2 DEF InputInv, Given, Inputs
  <2>2. PICK n \in 1 .. 5, offset \in 0 .. 4, length \in 1 .. 5 :
          p = <<n, offset, length>> /\ offset < n /\ length <= n
    BY DEF Packs
  <2>3. PICK ring \in Seq(Nat) : ring = [i \in 1 .. n |-> i] /\ Len(ring) = n
    <3>1. [i \in 1 .. n |-> i] \in Seq(Nat) /\ Len([i \in 1 .. n |-> i]) = n
      BY <2>2
    <3> QED BY <3>1
  <2>4. H!PackWhole(ring, offset, length)
    BY <2>2, <2>3, PackComplete
  <2>5. input[1][1] = n /\ input[1][2] = offset /\ input[1][3] = length
    BY <2>1, <2>2
  <2> QED BY <2>3, <2>4, <2>5, Zenon
<1>3. ASSUME Given("tables") PROVE H!TablesExact(input[1])
  <2>1. PICK samples \in Samples : input = <<samples>>
    BY <1>3 DEF InputInv, Given, Inputs
  <2>2. PICK n \in 0 .. 5 : samples \in [1 .. n -> [duration : 1 .. 2, is_key : BOOLEAN]]
    BY DEF Samples
  <2>3. \A i \in 1 .. n : samples[i] \in Sample
    BY <2>2 DEF Sample
  <2>4. samples \in Seq(Sample) /\ input[1] = samples
    BY <2>1, <2>2, <2>3
  <2>5. H!TablesExact(samples)
    BY <2>4, TablesGiveBack
  <2> QED BY <2>4, <2>5
<1>4. ASSUME Given("osd")
      PROVE  O!RegionFits(input[1][1]) /\ O!TextFits(input[1][2]) /\ O!GlyphsApart
  <2>1. PICK i \in (0 .. 4) \X (0 .. 43) : input = <<i>>
    BY <1>4 DEF InputInv, Given, Inputs
  <2>2. input[1][2] \in 0 .. O!TEXT_BUF_SIZE
    BY <2>1 DEF O!TEXT_BUF_SIZE
  <2> QED BY <2>2, RegionInPicture, TextInRows, GlyphsDiffer
<1> QED BY <1>1, <1>2, <1>3, <1>4, Zenon DEF BytesExact

\* One request is one capture, of which all frames but one are newer than the
\* request (web.rs:140-153, solve.rs:97-300).
THEOREM CaptureSound == MCSpec => []CaptureInv
<1>1. MCInit => CaptureIInv
  BY InitCaptureInv, VideoConstants DEF MCInit
<1>2. CaptureIInv /\ [MCNext]_videoVars => CaptureIInv'
  BY CaptureStep, PartsStep, VideoConstants DEF videoVars
<1>3. CaptureIInv => CaptureInv
  <2>1. CaptureIInv => C!FreshFrames
    BY DEF CaptureIInv, C!TypeOK, FramesCounted, C!FreshFrames
  <2> QED BY <2>1 DEF CaptureIInv, CaptureInv, C!CaptureInv
<1> QED BY <1>1, <1>2, <1>3, PTL DEF MCSpec, videoVars

\* The player keeps one stream, is never stuck and is quiet after unmount, and the page
\* has one chain of connections, for any number of sockets and timers (player.ts, ws.ts).
THEOREM BrowserSound == MCSpec => []BrowserInv
<1>1. MCInit => PlayerIInv /\ W!OneConnection
  <2>1. W!Init => W!OneConnection
    BY Zenon DEF W!Init, W!OneConnection
  <2> QED BY <2>1, InitPlayerInv DEF MCInit
<1>2. PlayerIInv /\ W!OneConnection /\ [MCNext]_videoVars
        => (PlayerIInv /\ W!OneConnection)'
  BY PlayerStep, PageStep, PartsStep DEF videoVars
<1>3. PlayerIInv /\ W!OneConnection => BrowserInv
  BY DEF PlayerIInv, BrowserInv
<1> QED BY <1>1, <1>2, <1>3, PTL DEF MCSpec, videoVars

\* For every capacity of the channel, waiting loses no key frame, and each file holds key
\* frames only and in order (isp.rs:427-493, record.rs:101-177).
THEOREM TimelapseSound == MCSpec => []TimelapseInv
<1>1. MCInit => T!TimelapseIInv
  BY T!InitInv, VideoConstants DEF MCInit
<1>2. T!TimelapseIInv /\ [MCNext]_videoVars => T!TimelapseIInv'
  BY T!NextInv, PartsStep, VideoConstants DEF videoVars
<1>3. T!TimelapseIInv => TimelapseInv
  BY DEF T!TimelapseIInv, TimelapseInv, T!TimelapseInv
<1> QED BY <1>1, <1>2, <1>3, PTL DEF MCSpec, videoVars

\* A sealed file of an hour changes only after the clock was set back (record.rs:135).
THEOREM SealedHourStays == MCSpec => SealedKept
<1> DEFINE I == T!TimelapseIInv /\ T!MuxerOfHour /\ T!PastFiles
           A == \A h \in T!Hours :
                  files[h].state = "sealed" /\ files'[h] # files[h] => upset = "back"
<1>1. MCInit => I
  BY T!InitInv, T!InitSealed, VideoConstants DEF MCInit
<1>2. I /\ [MCNext]_videoVars => I' /\ A
  BY T!NextInv, T!SealedStep, PartsStep, VideoConstants DEF videoVars
<1>3. SealedKept <=> [][A]_(T!vars)
  BY DEF SealedKept, T!SealedKept
<1> HIDE DEF I, A
<1> QED BY <1>1, <1>2, <1>3, PTL DEF MCSpec, videoVars

\* On one day every hour has its file once a frame, all that the encoder can hold and the
\* IDR went through, if no I/O failed and the clock was not set: the IDR frame requested
\* at the change of the hour (isp.rs:448) is never lost and never filed elsewhere, however
\* many frames waited in the encoder.  A day later the task takes the hour for the old
\* one (record.rs:117), which is why the bound is needed.
THEOREM HourServed ==
  ASSUME MaxHour < HoursPerDay PROVE MCSpec => []HourHasFile
<1> DEFINE I == T!TimelapseIInv /\ T!MuxerOfHour /\ T!PastFiles /\ T!HourIInv
<1>1. MCInit => I
  BY T!InitInv, T!InitSealed, T!InitHour, VideoConstants DEF MCInit
<1>2. I /\ [MCNext]_videoVars => I'
  BY T!NextInv, T!SealedStep, T!HourStep, PartsStep, VideoConstants DEF videoVars
<1>3. I => HourHasFile
  BY T!HourImplied, VideoConstants DEF HourHasFile
<1> QED BY <1>1, <1>2, <1>3, PTL DEF MCSpec, videoVars

\* Every client's stream starts at an IDR frame and has no hole, whoever joins, lags or
\* fails beside it, for every capacity of the channel and any number of clients, frames
\* and packs (stream.rs:36-84).
THEOREM StreamSound == MCSpec => []StreamInv
<1>1. MCInit => StreamIInv
  BY InitStream, StreamConstants, CapacityAssumption DEF MCInit
<1>2. StreamIInv /\ [MCNext]_videoVars => StreamIInv'
  BY StreamStep, PartsStep, StreamConstants, CapacityAssumption DEF videoVars
<1>3. StreamIInv => StreamInv
  BY StreamImplied
<1> QED BY <1>1, <1>2, <1>3, PTL DEF MCSpec, videoVars

\* The removal takes out the clients whose write failed, and no other, and panics only
\* where the failures of a frame came out of index order (stream.rs:76-79).
THEOREM FailedRemoved == MCSpec => []RemovedExactly
<1>1. MCInit => StreamIInv
  BY InitStream, StreamConstants, CapacityAssumption DEF MCInit
<1>2. StreamIInv /\ [MCNext]_videoVars => StreamIInv'
  BY StreamStep, PartsStep, StreamConstants, CapacityAssumption DEF videoVars
<1>3. StreamIInv => RemovedExactly
  BY StreamImplied
<1> QED BY <1>1, <1>2, <1>3, PTL DEF MCSpec, videoVars

\* The bytes of a frame: for every frame shorter than 2^32 bytes the units are those
\* between its start codes and come back from the sample, the last parameter set of each
\* kind counts, a pack is whole wherever it lies in the ring, the tables give back every
\* list of samples, and the timestamp stays in its bitmap (isp.rs:495-521,
\* muxer.rs:71-106, 145-148, 283-319, 486-561, osd.rs:28-79, 269-296).
THEOREM BytesSound == MCSpec => []BytesExact
<1>1. MCInit => InputInv
  BY DEF MCInit, InputInv
<1>2. InputInv /\ [MCNext]_videoVars => InputInv'
  BY InputStep
<1>3. InputInv => BytesExact
  BY InputsExact
<1> QED BY <1>1, <1>2, <1>3, PTL DEF MCSpec, videoVars
=============================================================================
