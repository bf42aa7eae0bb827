-------------------------- MODULE TimelapseProofs ---------------------------
(***************************************************************************)
(* Safety of the timelapse recording for every capacity of the channel:    *)
(* waiting instead of dropping loses no key frame, whatever I/O fails.     *)
(***************************************************************************)
EXTENDS Timelapse, Integers, TLAPS

File == [state : {"absent", "open", "sealed", "broken"}, frames : Seq(Frames)]

In(f, s) == \E i \in DOMAIN s : s[i] = f

\* The channel holds frames in order, all before the one in the worker's hand,
\* which is the newest.
ChannelOrder ==
  /\ \A i, j \in DOMAIN channel : i < j => channel[i] < channel[j]
  /\ \A i \in DOMAIN channel : channel[i] <= frames /\ (hand # NoFrame => channel[i] < hand)
  /\ hand # NoFrame => hand = frames

\* What is filed came before all that is still on its way.
FilesBefore ==
  \A h \in Hours : \A i \in DOMAIN files[h].frames :
    /\ files[h].frames[i] <= frames
    /\ \A k \in DOMAIN channel : files[h].frames[i] < channel[k]
    /\ hand # NoFrame => files[h].frames[i] < hand

EndedHasNoMuxer == task # "running" => current_muxer = NoMuxer

\* The inductive invariant.
TimelapseIInv ==
  /\ TypeOK /\ EveryKeyFrame /\ FilesOrdered
  /\ ChannelOrder /\ FilesBefore /\ EndedHasNoMuxer /\ owed \subseteq idrs

-----------------------------------------------------------------------------

\* At least the first frame and the IDR.
LEMMA EnoughFrames == TimelapseConstants => Enough \in Nat /\ Enough >= 2 /\ 0 \in 0 .. Enough
BY DEF TimelapseConstants, Enough

\* What Append and Tail do to a sequence of frames.
LEMMA AppendFacts ==
  ASSUME NEW s \in Seq(Frames), NEW f \in Frames
  PROVE  /\ Append(s, f) \in Seq(Frames) /\ Len(Append(s, f)) = Len(s) + 1 /\ Len(s) \in Nat
         /\ DOMAIN Append(s, f) = 1 .. Len(s) + 1 /\ DOMAIN s = 1 .. Len(s)
         /\ Append(s, f)[Len(s) + 1] = f
         /\ \A i \in 1 .. Len(s) : Append(s, f)[i] = s[i]
OBVIOUS

\* Tail moves every frame one place to the front.
LEMMA TailFacts ==
  ASSUME NEW s \in Seq(Frames), s # << >>
  PROVE  /\ Tail(s) \in Seq(Frames) /\ Head(s) = s[1] /\ Head(s) \in Frames
         /\ Len(s) \in Nat /\ Len(s) >= 1 /\ Len(Tail(s)) = Len(s) - 1
         /\ DOMAIN s = 1 .. Len(s) /\ DOMAIN Tail(s) = 1 .. Len(s) - 1
         /\ \A i \in 1 .. Len(s) - 1 : Tail(s)[i] = s[i + 1]
OBVIOUS

\* Every frame is a number.
LEMMA FramesAreInts ==
  ASSUME TypeOK, TimelapseConstants
  PROVE  /\ frames \in Int /\ hand \in Int /\ Frames \subseteq Nat
         /\ \A i \in DOMAIN channel : channel[i] \in Frames
         /\ files \in [Hours -> File]
         /\ \A h \in Hours : /\ files[h] \in File /\ files[h].frames \in Seq(Frames)
                             /\ \A i \in DOMAIN files[h].frames : files[h].frames[i] \in Frames
<1>1. /\ frames \in 0 .. MaxFrames /\ hand \in Frames \cup {NoFrame} /\ channel \in Seq(Frames)
      /\ files \in [Hours -> File] /\ MaxFrames \in Nat
  BY DEF TypeOK, TimelapseConstants, File
<1>2. frames \in Int /\ hand \in Int /\ Frames \subseteq Nat
  BY <1>1 DEF Frames, NoFrame
<1>3. \A i \in DOMAIN channel : channel[i] \in Frames
  BY <1>1
<1>4. ASSUME NEW h \in Hours
      PROVE  /\ files[h] \in File /\ files[h].frames \in Seq(Frames)
             /\ \A i \in DOMAIN files[h].frames : files[h].frames[i] \in Frames
  <2>1. files[h] \in File
    BY <1>1
  <2>2. files[h].frames \in Seq(Frames)
    BY <2>1 DEF File
  <2> QED BY <2>1, <2>2
<1> QED BY <1>1, <1>2, <1>3, <1>4

\* Closing the current file leaves none open and the frames of all alone.
LEMMA LeftFiles ==
  ASSUME TypeOK, FilesOrdered, TimelapseConstants, NEW new \in {"sealed", "broken"}
  PROVE  /\ Left(files, new) \in [Hours -> File]
         /\ \A h \in Hours : /\ Left(files, new)[h].frames = files[h].frames
                             /\ Left(files, new)[h].state # "open"
<1>1. /\ files \in [Hours -> File] /\ current_muxer \in Hours \cup {NoMuxer}
      /\ NoMuxer \notin Hours
  BY DEF TypeOK, File, TimelapseConstants, Hours
<1>2. \A h \in Hours : files[h].state = "open" <=> current_muxer = h
  BY DEF FilesOrdered
<1>3. CASE current_muxer = NoMuxer
  BY <1>1, <1>2, <1>3 DEF Left
<1>4. CASE current_muxer # NoMuxer
  <2> DEFINE f == [files[current_muxer] EXCEPT !.state = new]
  <2>1. /\ Left(files, new) = [files EXCEPT ![current_muxer] = f]
        /\ f \in File /\ f.frames = files[current_muxer].frames /\ f.state = new
    BY <1>1, <1>4 DEF Left, File
  <2> HIDE DEF f
  <2>2. /\ Left(files, new) \in [Hours -> File]
        /\ \A h \in Hours : Left(files, new)[h] = IF h = current_muxer THEN f ELSE files[h]
    BY <2>1, <1>1
  <2> QED BY <2>1, <2>2, <1>2
<1> QED BY <1>3, <1>4

-----------------------------------------------------------------------------
(* The worker *)

\* The loop, a poll without a frame and the clock move no frame.
LEMMA StillStep ==
  ASSUME TimelapseIInv, TypeOK',
         UNCHANGED <<hand, channel, frames, idrs, files, current_muxer, task, owed>>
  PROVE  TimelapseIInv'
<1>1. EveryKeyFrame' /\ FilesOrdered' /\ EndedHasNoMuxer' /\ owed' \subseteq idrs'
  BY DEF TimelapseIInv, EveryKeyFrame, FilesOrdered, EndedHasNoMuxer, InFile
<1>2. ChannelOrder' /\ FilesBefore'
  BY DEF TimelapseIInv, ChannelOrder, FilesBefore
<1> QED BY <1>1, <1>2 DEF TimelapseIInv

\* The new frame is behind all others.
LEMMA DeliverStep ==
  ASSUME TimelapseConstants, TimelapseIInv, Deliver PROVE TimelapseIInv'
<1>1. /\ worker = "polling" /\ frames < MaxFrames /\ worker' = "sending"
      /\ frames' = frames + 1 /\ hand' = frames + 1
      /\ idrs \subseteq idrs' /\ owed \subseteq owed' /\ owed' \subseteq owed \cup {frames + 1}
      /\ idrs' \subseteq idrs \cup {frames + 1} /\ owed' \subseteq idrs'
      /\ idrDue' \in BOOLEAN /\ older' \in 0 .. EncoderQueue /\ since' \in 0 .. Enough
      /\ UNCHANGED <<clock, shutdown, worker_hour, channel, taskVars, upset>>
  <2>1. /\ worker = "polling" /\ frames < MaxFrames /\ worker' = "sending"
        /\ frames' = frames + 1 /\ hand' = frames + 1
        /\ UNCHANGED <<clock, shutdown, worker_hour, channel, taskVars, upset>>
        /\ since' = IF since = Enough THEN since ELSE since + 1
        /\ older' \in {older, older - 1} /\ (older = 0 => older' = 0)
    BY DEF Deliver
  <2>2. /\ owed \subseteq idrs /\ older \in 0 .. EncoderQueue /\ since \in 0 .. Enough
        /\ EncoderQueue \in Nat /\ Enough \in Nat
    BY EnoughFrames DEF TimelapseIInv, TypeOK, TimelapseConstants
  <2>3. \/ idrs' = idrs \cup {frames + 1} /\ owed' = owed \cup {frames + 1}
        \/ UNCHANGED <<idrs, owed>>
    BY <2>1, Zenon DEF Deliver
  <2>4. idrDue' \in BOOLEAN
    <3>1. idrDue' = (idrDue /\ older # 0)
      BY Zenon DEF Deliver
    <3> QED BY <3>1, Zenon
  <2>5. since' \in 0 .. Enough
    BY <2>1, <2>2
  <2>6. older' \in 0 .. EncoderQueue
    BY <2>1, <2>2
  <2> QED BY <2>1, <2>2, <2>3, <2>4, <2>5, <2>6
<1>2. hand = NoFrame
  BY <1>1 DEF TimelapseIInv, TypeOK
<1>3. /\ frames \in Nat /\ frames + 1 \in Frames /\ NoFrame \notin Frames
      /\ frames' \in 0 .. MaxFrames /\ hand' \in Frames /\ hand' # NoFrame
  BY <1>1 DEF TimelapseIInv, TypeOK, Frames, NoFrame, TimelapseConstants
<1>4. UNCHANGED <<task, current_hour, current_muxer, files>>
  BY <1>1 DEF taskVars
<1>5. TypeOK'
  BY <1>1, <1>3, <1>4 DEF TimelapseIInv, TypeOK
<1>6. EveryKeyFrame'
  <2>1. SUFFICES ASSUME task = "running", NEW f \in owed'
                 PROVE  \/ f = hand' \/ \E i \in DOMAIN channel : channel[i] = f
                        \/ \E h \in Hours : InFile(f, h) /\ \A g \in Hours : InFile(f, g) => g = h
    BY <1>1, <1>4 DEF EveryKeyFrame, InFile
  <2>2. CASE f \in owed
    <3>1. f # hand
      BY <1>2, <1>3, <2>2 DEF TimelapseIInv, TypeOK
    <3> QED BY <2>1, <2>2, <3>1 DEF TimelapseIInv, EveryKeyFrame
  <2>3. CASE f \notin owed
    BY <2>1, <2>3, <1>1
  <2> QED BY <2>2, <2>3
<1>7. FilesOrdered' /\ EndedHasNoMuxer'
  BY <1>1, <1>4 DEF TimelapseIInv, FilesOrdered, EndedHasNoMuxer
<1>8. ChannelOrder' /\ FilesBefore'
  <2>1. /\ \A i \in DOMAIN channel : channel[i] \in Nat
        /\ \A h \in Hours : \A i \in DOMAIN files[h].frames : files[h].frames[i] \in Nat
    BY FramesAreInts DEF TimelapseIInv
  <2>2. ChannelOrder'
    BY <2>1, <1>1, <1>3 DEF TimelapseIInv, ChannelOrder
  <2>3. FilesBefore'
    BY <2>1, <1>1, <1>3, <1>4 DEF TimelapseIInv, FilesBefore
  <2> QED BY <2>2, <2>3
<1> QED BY <1>1, <1>5, <1>6, <1>7, <1>8 DEF TimelapseIInv

\* blocking_send hands the frame over, or the receiver is gone.
LEMMA SendStep ==
  ASSUME TimelapseConstants, TimelapseIInv, BlockingSend PROVE TimelapseIInv'
<1>1. /\ worker = "sending" /\ hand' = NoFrame
      /\ UNCHANGED <<clock, shutdown, worker_hour, idrDue, older, frames, idrs, task,
                     current_hour, current_muxer, files, owed, since, upset>>
  BY DEF BlockingSend, taskVars
<1>2. hand \in Frames /\ hand # NoFrame /\ channel \in Seq(Frames) /\ NoFrame \notin Frames
  BY <1>1 DEF TimelapseIInv, TypeOK, Frames, NoFrame
<1>3. /\ frames \in Int /\ hand \in Int /\ \A i \in DOMAIN channel : channel[i] \in Int
      /\ \A h \in Hours : \A i \in DOMAIN files[h].frames : files[h].frames[i] \in Int
  BY FramesAreInts DEF TimelapseIInv
<1>4. FilesOrdered' /\ EndedHasNoMuxer' /\ owed' \subseteq idrs'
  BY <1>1 DEF TimelapseIInv, FilesOrdered, EndedHasNoMuxer
<1>5. CASE task = "running" /\ Send /\ worker' = "loop"
  <2>1. /\ channel' = Append(channel, hand) /\ Len(channel) < CAPACITY
    BY <1>5 DEF Send
  <2>2. /\ channel' \in Seq(Frames) /\ Len(channel') = Len(channel) + 1 /\ Len(channel) \in Nat
        /\ DOMAIN channel' = 1 .. Len(channel) + 1 /\ DOMAIN channel = 1 .. Len(channel)
        /\ channel'[Len(channel) + 1] = hand
        /\ \A i \in 1 .. Len(channel) : channel'[i] = channel[i]
    BY <2>1, <1>2, AppendFacts
  <2>3. TypeOK'
    BY <1>1, <1>2, <1>5, <2>1, <2>2 DEF TimelapseIInv, TypeOK, TimelapseConstants
  <2>4. ChannelOrder'
    <3>1. /\ \A i, j \in DOMAIN channel : i < j => channel[i] < channel[j]
          /\ \A i \in DOMAIN channel : channel[i] <= frames /\ channel[i] < hand
          /\ hand = frames
      BY <1>2 DEF TimelapseIInv, ChannelOrder
    <3> QED BY <3>1, <1>1, <1>3, <2>2 DEF ChannelOrder
  <2>5. FilesBefore'
    BY <1>1, <1>2, <2>2 DEF TimelapseIInv, FilesBefore
  <2>6. EveryKeyFrame'
    <3>1. SUFFICES ASSUME NEW f \in owed
                   PROVE  \/ \E i \in DOMAIN channel' : channel'[i] = f
                          \/ \E h \in Hours : InFile(f, h) /\ \A g \in Hours : InFile(f, g) => g = h
      BY <1>1 DEF EveryKeyFrame, InFile
    <3>2. \/ f = hand \/ \E i \in DOMAIN channel : channel[i] = f
          \/ \E h \in Hours : InFile(f, h) /\ \A g \in Hours : InFile(f, g) => g = h
      BY <1>5 DEF TimelapseIInv, EveryKeyFrame
    <3> QED BY <3>2, <2>2
  <2> QED BY <2>3, <2>4, <2>5, <2>6, <1>4 DEF TimelapseIInv
<1>6. CASE task # "running" /\ worker' = "ended" /\ UNCHANGED channel
  <2>1. TypeOK'
    BY <1>1, <1>6 DEF TimelapseIInv, TypeOK
  <2>2. ChannelOrder' /\ FilesBefore' /\ EveryKeyFrame'
    BY <1>1, <1>6 DEF TimelapseIInv, ChannelOrder, FilesBefore, EveryKeyFrame
  <2> QED BY <2>1, <2>2, <1>4 DEF TimelapseIInv
<1> QED BY <1>5, <1>6 DEF BlockingSend, ReceiverOpen

-----------------------------------------------------------------------------
(* The task *)

\* The files after a switch, or without one: the file at the clock is emptied if it
\* was created again, and the one that is open is the muxer's.
LEMMA SwitchFiles ==
  ASSUME TimelapseConstants, TypeOK, FilesOrdered,
         NEW finished \in BOOLEAN, NEW created \in {"ok", "file", "muxer"}, NEW muxer, NEW fs,
         muxer = (IF Switch THEN MuxerAfter(created) ELSE current_muxer),
         fs = (IF Switch THEN Switched(finished, created) ELSE files)
  PROVE  /\ fs \in [Hours -> File] /\ muxer \in Hours \cup {NoMuxer} /\ NoMuxer \notin Hours
         /\ \A h \in Hours : /\ fs[h].state = "open" <=> muxer = h
                             /\ fs[h].frames =
                                  IF Switch /\ created # "file" /\ h = clock
                                  THEN << >> ELSE files[h].frames
<1>1. /\ NoMuxer \notin Hours /\ clock \in Hours /\ current_muxer \in Hours \cup {NoMuxer}
      /\ files \in [Hours -> File]
  BY DEF TypeOK, TimelapseConstants, Hours, File
<1>2. CASE ~Switch
  BY <1>1, <1>2 DEF FilesOrdered
<1>3. CASE Switch
  <2> DEFINE old == Left(files, IF finished THEN "sealed" ELSE "broken")
             new == [Absent EXCEPT !.state = "open"]
             bad == [Absent EXCEPT !.state = "broken"]
  <2>1. (IF finished THEN "sealed" ELSE "broken") \in {"sealed", "broken"}
    OBVIOUS
  <2>2. /\ old \in [Hours -> File]
        /\ \A h \in Hours : old[h].frames = files[h].frames /\ old[h].state # "open"
    BY <2>1, LeftFiles
  <2>3. << >> \in Seq(Frames)
    OBVIOUS
  <2>4. /\ new \in File /\ new.frames = << >> /\ new.state = "open"
        /\ bad \in File /\ bad.frames = << >> /\ bad.state = "broken"
    BY <2>3 DEF Absent, File
  <2> HIDE DEF old, new, bad
  <2>5. CASE created = "ok"
    <3>1. fs = [old EXCEPT ![clock] = new] /\ muxer = clock
      BY <1>3, <2>5 DEF Switched, MuxerAfter, old, new
    <3>2. \A h \in Hours : fs[h] = IF h = clock THEN new ELSE old[h]
      BY <3>1, <2>2, <1>1
    <3>3. fs \in [Hours -> File]
      BY <3>1, <2>2, <2>4
    <3> QED BY <1>1, <1>3, <2>2, <2>4, <2>5, <3>1, <3>2, <3>3
  <2>6. CASE created = "muxer"
    <3>1. fs = [old EXCEPT ![clock] = bad] /\ muxer = NoMuxer
      BY <1>3, <2>6 DEF Switched, MuxerAfter, old, bad
    <3>2. \A h \in Hours : fs[h] = IF h = clock THEN bad ELSE old[h]
      BY <3>1, <2>2, <1>1
    <3>3. fs \in [Hours -> File]
      BY <3>1, <2>2, <2>4
    <3> QED BY <1>1, <1>3, <2>2, <2>4, <2>6, <3>1, <3>2, <3>3
  <2>7. CASE created = "file"
    <3>1. fs = old /\ muxer = NoMuxer
      BY <1>3, <2>7 DEF Switched, MuxerAfter, old
    <3> QED BY <1>1, <1>3, <2>2, <2>7, <3>1
  <2> QED BY <2>5, <2>6, <2>7
<1> QED BY <1>2, <1>3

\* Where the frames are once a key frame was received: the files are `base`, the
\* frame is behind those of file `muxer` if it was kept.
LEMMA RecordFiles ==
  ASSUME TimelapseConstants, TypeOK, FilesOrdered, NEW frame \in Frames,
         NEW finished \in BOOLEAN, NEW written \in BOOLEAN, NEW created \in {"ok", "file", "muxer"},
         Record(frame, finished, created, written)
  PROVE  \E kept \in BOOLEAN :
           /\ kept => current_muxer' # NoMuxer
           /\ current_muxer' \in Hours \cup {NoMuxer} /\ NoMuxer \notin Hours
           /\ files' \in [Hours -> File]
           /\ \A h \in Hours :
                LET again == Switch /\ created # "file" /\ h = clock
                    base  == IF again THEN << >> ELSE files[h].frames
                IN  /\ files'[h].state = "open" <=> current_muxer' = h
                    /\ files'[h].frames =
                         IF kept /\ h = current_muxer' THEN Append(base, frame) ELSE base
                    /\ again => \A f \in owed' : ~In(f, files[h].frames)
           /\ owed' \subseteq owed /\ (~kept => frame \notin owed')
<1> DEFINE muxer == IF Switch THEN MuxerAfter(created) ELSE current_muxer
           fs    == IF Switch THEN Switched(finished, created) ELSE files
           kept  == muxer # NoMuxer /\ written
<1>1. /\ fs \in [Hours -> File] /\ muxer \in Hours \cup {NoMuxer} /\ NoMuxer \notin Hours
      /\ \A h \in Hours : /\ fs[h].state = "open" <=> muxer = h
                          /\ fs[h].frames = IF Switch /\ created # "file" /\ h = clock
                                            THEN << >> ELSE files[h].frames
  <2>1. /\ muxer = (IF Switch THEN MuxerAfter(created) ELSE current_muxer)
        /\ fs = (IF Switch THEN Switched(finished, created) ELSE files)
    OBVIOUS
  <2> HIDE DEF muxer, fs
  <2> QED BY <2>1, SwitchFiles, SMT
<1>2. /\ current_muxer' = muxer
      /\ files' = IF kept THEN [fs EXCEPT ![muxer].frames = Append(@, frame)] ELSE fs
      /\ owed' = owed \ ((IF kept THEN {} ELSE {frame}) \cup
                         (IF Switch /\ created # "file"
                          THEN {f \in owed : \E i \in DOMAIN files[clock].frames :
                                                files[clock].frames[i] = f} ELSE {}))
  BY Zenon DEF Record
<1>3. kept \in BOOLEAN /\ (kept => muxer \in Hours)
  BY <1>1
<1> HIDE DEF muxer, fs
<1>4. /\ files' \in [Hours -> File]
      /\ \A h \in Hours : /\ files'[h].state = fs[h].state
                          /\ files'[h].frames = IF kept /\ h = muxer
                                                THEN Append(fs[h].frames, frame) ELSE fs[h].frames
  <2>1. CASE kept
    <3> DEFINE f == [fs[muxer] EXCEPT !.frames = Append(@, frame)]
    <3>1. fs[muxer] \in File /\ files' = [fs EXCEPT ![muxer] = f]
      BY <1>1, <1>2, <1>3, <2>1
    <3>2. Append(fs[muxer].frames, frame) \in Seq(Frames)
      BY <3>1 DEF File
    <3>3. f \in File /\ f.state = fs[muxer].state /\ f.frames = Append(fs[muxer].frames, frame)
      BY <3>1, <3>2 DEF File
    <3> HIDE DEF f
    <3>4. /\ files' \in [Hours -> File]
          /\ \A h \in Hours : files'[h] = IF h = muxer THEN f ELSE fs[h]
      BY <1>1, <3>1, <3>3
    <3> QED BY <2>1, <3>3, <3>4
  <2>2. CASE ~kept
    BY <1>1, <1>2, <2>2
  <2> QED BY <2>1, <2>2
<1>5. owed' \subseteq owed /\ (~kept => frame \notin owed')
  BY <1>2
<1>6. Switch /\ created # "file" => \A f \in owed' : ~In(f, files[clock].frames)
  BY <1>2 DEF In
<1> HIDE DEF kept
<1>7. \A h \in Hours :
        LET again == Switch /\ created # "file" /\ h = clock
            base  == IF again THEN << >> ELSE files[h].frames
        IN  /\ files'[h].state = "open" <=> current_muxer' = h
            /\ files'[h].frames =
                 IF kept /\ h = current_muxer' THEN Append(base, frame) ELSE base
            /\ again => \A f \in owed' : ~In(f, files[h].frames)
  BY <1>1, <1>2, <1>4, <1>6
<1>8. (kept => current_muxer' # NoMuxer) /\ current_muxer' \in Hours \cup {NoMuxer}
  BY <1>1, <1>2 DEF kept
<1> QED BY <1>1, <1>3, <1>4, <1>5, <1>7, <1>8

\* A received key frame is filed, or given up with an error; another is passed over.
LEMMA ReceiveStep ==
  ASSUME TimelapseConstants, TimelapseIInv, Receive PROVE TimelapseIInv'
<1> DEFINE frame == Head(channel)
<1>1. /\ task = "running" /\ channel # << >> /\ channel' = Tail(channel)
      /\ UNCHANGED <<clock, shutdown, worker, worker_hour, idrDue, older, hand, frames, idrs, task,
                     since>>
  BY DEF Receive, workerVars
<1>2. channel \in Seq(Frames)
  BY DEF TimelapseIInv, TypeOK
<1>3. /\ channel' \in Seq(Frames) /\ frame = channel[1] /\ frame \in Frames
      /\ Len(channel) \in Nat /\ Len(channel) >= 1 /\ Len(channel') = Len(channel) - 1
      /\ DOMAIN channel = 1 .. Len(channel) /\ DOMAIN channel' = 1 .. Len(channel) - 1
      /\ \A i \in 1 .. Len(channel) - 1 : channel'[i] = channel[i + 1]
  BY <1>1, <1>2, TailFacts
<1> HIDE DEF frame
<1>4. /\ frames \in Int /\ hand \in Int /\ Frames \subseteq Nat
      /\ \A i \in DOMAIN channel : channel[i] \in Frames
      /\ \A h \in Hours : /\ files[h].frames \in Seq(Frames)
                          /\ \A i \in DOMAIN files[h].frames : files[h].frames[i] \in Frames
  BY FramesAreInts DEF TimelapseIInv
<1>5. ChannelOrder'
  <2>1. \A i \in DOMAIN channel' : i + 1 \in DOMAIN channel /\ channel'[i] = channel[i + 1]
    BY <1>3
  <2>2. \A i, j \in DOMAIN channel' : i < j => i + 1 < j + 1
    BY <1>3
  <2> QED BY <1>1, <2>1, <2>2 DEF TimelapseIInv, ChannelOrder
<1>6. \A i \in DOMAIN channel' : i + 1 \in DOMAIN channel /\ channel'[i] = channel[i + 1]
                                 /\ frame < channel'[i]
  BY <1>3, <1>4 DEF TimelapseIInv, ChannelOrder
<1>7. \A f : (\E i \in DOMAIN channel : channel[i] = f) =>
               f = frame \/ \E i \in DOMAIN channel' : channel'[i] = f
  <2>1. SUFFICES ASSUME NEW i \in DOMAIN channel, i # 1
                 PROVE  \E j \in DOMAIN channel' : channel'[j] = channel[i]
    BY <1>3
  <2>2. i - 1 \in DOMAIN channel' /\ channel'[i - 1] = channel[i]
    BY <2>1, <1>3
  <2> QED BY <2>2
<1>8. Len(channel') <= CAPACITY
  <2>1. Len(channel) <= CAPACITY /\ CAPACITY \in Nat
    BY DEF TimelapseIInv, TypeOK, TimelapseConstants
  <2> QED BY <2>1, <1>3
<1>9. CASE ~HasIdr(frame) /\ UNCHANGED <<current_muxer, current_hour, files, owed, upset>>
  <2>1. TypeOK'
    BY <1>1, <1>3, <1>8, <1>9 DEF TimelapseIInv, TypeOK
  <2>2. EveryKeyFrame'
    <3>1. frame \notin owed
      BY <1>9 DEF HasIdr, TimelapseIInv
    <3> QED BY <3>1, <1>1, <1>7, <1>9 DEF TimelapseIInv, EveryKeyFrame, InFile
  <2>3. FilesOrdered' /\ EndedHasNoMuxer' /\ owed' \subseteq idrs'
    BY <1>1, <1>9 DEF TimelapseIInv, FilesOrdered, EndedHasNoMuxer
  <2>4. FilesBefore'
    BY <1>1, <1>6, <1>9 DEF TimelapseIInv, FilesBefore
  <2> QED BY <2>1, <2>2, <2>3, <2>4, <1>5 DEF TimelapseIInv
<1>10. CASE HasIdr(frame) /\ \E finished, written \in BOOLEAN, created \in {"ok", "file", "muxer"} :
                              Record(frame, finished, created, written)
  <2>1. PICK finished \in BOOLEAN, written \in BOOLEAN, created \in {"ok", "file", "muxer"} :
               Record(frame, finished, created, written)
    BY <1>10
  <2> DEFINE Again(h) == Switch /\ created # "file" /\ h = clock
             Base(h)  == IF Again(h) THEN << >> ELSE files[h].frames
  <2>2. PICK kept \in BOOLEAN :
           /\ kept => current_muxer' # NoMuxer
           /\ current_muxer' \in Hours \cup {NoMuxer} /\ NoMuxer \notin Hours
           /\ files' \in [Hours -> File]
           /\ \A h \in Hours :
                /\ files'[h].state = "open" <=> current_muxer' = h
                /\ files'[h].frames =
                     IF kept /\ h = current_muxer' THEN Append(Base(h), frame) ELSE Base(h)
                /\ Again(h) => \A f \in owed' : ~In(f, files[h].frames)
           /\ owed' \subseteq owed /\ (~kept => frame \notin owed')
    BY <2>1, <1>3, RecordFiles DEF TimelapseIInv
  <2>3. /\ current_hour' \in 0 .. HoursPerDay - 1 \cup {NoHour}
        /\ upset' \in {"none", "some", "back"}
    <3>1. clock \in Nat /\ HoursPerDay \in Nat \ {0}
      BY DEF TimelapseIInv, TypeOK, Hours, TimelapseConstants
    <3>2. hour \in 0 .. HoursPerDay - 1
      BY <3>1 DEF hour
    <3>3. /\ current_hour \in 0 .. HoursPerDay - 1 \cup {NoHour}
          /\ upset \in {"none", "some", "back"}
      BY DEF TimelapseIInv, TypeOK
    <3> QED BY <2>1, <3>2, <3>3 DEF Record
  <2>4. \A h \in Hours :
          /\ Base(h) \in Seq(Frames) /\ Len(Base(h)) \in Nat
          /\ Base(h) = << >> \/ Base(h) = files[h].frames
    BY <1>4
  <2>5. ASSUME NEW h \in Hours, NEW i \in DOMAIN Base(h)
        PROVE  /\ i \in DOMAIN files[h].frames /\ Base(h)[i] = files[h].frames[i]
               /\ Base(h)[i] \in Nat /\ Base(h)[i] < frame /\ Base(h)[i] \in idrs
    <3>1. Base(h) = files[h].frames
      BY <2>4, <2>5
    <3>2. i \in DOMAIN files[h].frames /\ Base(h)[i] = files[h].frames[i]
      BY <3>1, <2>5
    <3>3. files[h].frames[i] < frame /\ files[h].frames[i] \in Nat
      <4>1. 1 \in DOMAIN channel
        BY <1>3
      <4>2. files[h].frames[i] < channel[1]
        BY <4>1, <3>2 DEF TimelapseIInv, FilesBefore
      <4> QED BY <4>2, <3>2, <1>3, <1>4
    <3>4. files[h].frames[i] \in idrs
      BY <3>2 DEF TimelapseIInv, FilesOrdered
    <3> QED BY <3>2, <3>3, <3>4
  <2>6. ASSUME NEW h \in Hours
        PROVE  \/ files'[h].frames = Base(h)
               \/ /\ files'[h].frames = Append(Base(h), frame)
                  /\ DOMAIN files'[h].frames = 1 .. Len(Base(h)) + 1
                  /\ DOMAIN Base(h) = 1 .. Len(Base(h)) /\ Len(Base(h)) \in Nat
                  /\ Len(files'[h].frames) = Len(Base(h)) + 1
                  /\ files'[h].frames[Len(Base(h)) + 1] = frame
                  /\ \A i \in 1 .. Len(Base(h)) : files'[h].frames[i] = Base(h)[i]
    <3>1. /\ Append(Base(h), frame) \in Seq(Frames)
          /\ Len(Append(Base(h), frame)) = Len(Base(h)) + 1 /\ Len(Base(h)) \in Nat
          /\ DOMAIN Append(Base(h), frame) = 1 .. Len(Base(h)) + 1
          /\ DOMAIN Base(h) = 1 .. Len(Base(h))
          /\ Append(Base(h), frame)[Len(Base(h)) + 1] = frame
          /\ \A i \in 1 .. Len(Base(h)) : Append(Base(h), frame)[i] = Base(h)[i]
      BY <1>3, <2>4, AppendFacts
    <3> HIDE DEF Base
    <3> QED BY <3>1, <2>2
  <2> HIDE DEF Base
  <2>7. TypeOK'
    <3>1. owed' \subseteq Frames
      BY <2>2 DEF TimelapseIInv, TypeOK
    <3>2. /\ clock \in Hours /\ shutdown \in BOOLEAN
          /\ worker \in {"loop", "polling", "sending", "ended"}
          /\ worker_hour \in 0 .. HoursPerDay - 1 \cup {NoHour} /\ idrDue \in BOOLEAN
          /\ hand \in Frames \cup {NoFrame} /\ (worker = "sending" <=> hand # NoFrame)
          /\ idrs \subseteq Frames /\ task \in {"running", "ended", "down"}
          /\ frames \in 0 .. MaxFrames /\ since \in 0 .. Enough /\ older \in 0 .. EncoderQueue
      BY DEF TimelapseIInv, TypeOK
    <3>3. files' \in [Hours -> [state : {"absent", "open", "sealed", "broken"},
                                frames : Seq(Frames)]]
      BY <2>2 DEF File
    <3> QED BY <1>1, <1>3, <1>8, <2>2, <2>3, <3>1, <3>2, <3>3 DEF TypeOK
  <2>8. ASSUME NEW h \in Hours, NEW i \in DOMAIN files'[h].frames
        PROVE  files'[h].frames[i] = frame \/ (i \in DOMAIN Base(h) /\ files'[h].frames[i] = Base(h)[i])
    BY <2>6, <2>8
  <2>9. FilesOrdered'
    <3>1. ASSUME NEW h \in Hours, NEW i \in DOMAIN files'[h].frames
          PROVE  files'[h].frames[i] \in idrs'
      BY <3>1, <2>5, <2>8, <1>1, <1>10 DEF HasIdr
    <3>2. ASSUME NEW h \in Hours, NEW i \in 1 .. Len(files'[h].frames) - 1
          PROVE  files'[h].frames[i] < files'[h].frames[i + 1]
      <4>1. \A j \in 1 .. Len(Base(h)) - 1 : Base(h)[j] < Base(h)[j + 1]
        <5>1. \A j \in 1 .. Len(files[h].frames) - 1 : files[h].frames[j] < files[h].frames[j + 1]
          BY DEF TimelapseIInv, FilesOrdered
        <5> QED BY <5>1, <2>4
      <4>2. \A j \in DOMAIN Base(h) : Base(h)[j] < frame
        BY <2>5
      <4>3. CASE files'[h].frames = Base(h)
        BY <4>1, <4>3, <3>2
      <4>4. CASE /\ DOMAIN Base(h) = 1 .. Len(Base(h)) /\ Len(Base(h)) \in Nat
                 /\ Len(files'[h].frames) = Len(Base(h)) + 1
                 /\ files'[h].frames[Len(Base(h)) + 1] = frame
                 /\ \A j \in 1 .. Len(Base(h)) : files'[h].frames[j] = Base(h)[j]
        BY <4>1, <4>2, <4>4, <3>2
      <4> QED BY <4>3, <4>4, <2>6
    <3> QED BY <2>2, <3>1, <3>2 DEF FilesOrdered
  <2>10. FilesBefore'
    <3>1. SUFFICES ASSUME NEW h \in Hours, NEW i \in DOMAIN files'[h].frames
                   PROVE  /\ files'[h].frames[i] <= frames
                          /\ \A k \in DOMAIN channel' : files'[h].frames[i] < channel'[k]
                          /\ hand # NoFrame => files'[h].frames[i] < hand
      BY <1>1 DEF FilesBefore
    <3>2. /\ frame <= frames /\ frame \in Nat /\ \A k \in DOMAIN channel' : frame < channel'[k]
          /\ hand # NoFrame => frame < hand
      BY <1>3, <1>4, <1>6 DEF TimelapseIInv, ChannelOrder
    <3>3. \A k \in DOMAIN channel' : channel'[k] \in Nat
      BY <1>4, <1>6
    <3>4. CASE files'[h].frames[i] = frame
      BY <3>2, <3>4
    <3>5. CASE i \in DOMAIN Base(h) /\ files'[h].frames[i] = Base(h)[i]
      <4>1. Base(h)[i] \in Nat /\ Base(h)[i] < frame
        BY <2>5, <3>5
      <4> QED BY <4>1, <3>2, <3>3, <3>5, <1>4
    <3> QED BY <3>1, <3>4, <3>5, <2>8
  <2>11. EveryKeyFrame'
    <3>1. SUFFICES ASSUME NEW f \in owed'
                   PROVE  \/ f = hand \/ \E i \in DOMAIN channel' : channel'[i] = f
                          \/ \E h \in Hours : /\ In(f, files'[h].frames)
                                              /\ \A g \in Hours : In(f, files'[g].frames) => g = h
      BY <1>1 DEF EveryKeyFrame, InFile, In
    <3>2. f \in owed
      BY <3>1, <2>2
    <3>3. ASSUME NEW g \in Hours, f # frame
          PROVE  In(f, files'[g].frames) <=> In(f, Base(g))
      BY <3>3, <2>6, <2>8 DEF In
    <3>4. \A g \in Hours : In(f, Base(g)) <=> In(f, files[g].frames)
      <4>1. SUFFICES ASSUME NEW g \in Hours PROVE In(f, Base(g)) <=> In(f, files[g].frames)
        OBVIOUS
      <4>2. CASE Again(g)
        <5>1. ~In(f, files[g].frames)
          BY <4>2, <2>2, <3>1
        <5>2. ~In(f, Base(g))
          BY <4>2 DEF In, Base
        <5> QED BY <5>1, <5>2
      <4>3. CASE ~Again(g)
        BY <4>3 DEF Base
      <4> QED BY <4>2, <4>3
    <3>5. CASE f = frame
      <4>1. kept /\ current_muxer' \in Hours
        BY <3>1, <3>5, <2>2
      <4>2. In(f, files'[current_muxer'].frames)
        <5>1. files'[current_muxer'].frames = Append(Base(current_muxer'), frame)
          BY <4>1, <2>2
        <5>2. /\ DOMAIN Append(Base(current_muxer'), frame) = 1 .. Len(Base(current_muxer')) + 1
              /\ Append(Base(current_muxer'), frame)[Len(Base(current_muxer')) + 1] = frame
              /\ Len(Base(current_muxer')) \in Nat
          BY <4>1, <2>4, <1>3, AppendFacts
        <5> QED BY <5>1, <5>2, <3>5 DEF In
      <4>3. ASSUME NEW g \in Hours, g # current_muxer'
            PROVE  ~In(f, files'[g].frames)
        <5>1. files'[g].frames = Base(g)
          BY <4>3, <2>2
        <5>2. \A i \in DOMAIN Base(g) : Base(g)[i] # frame
          BY <2>5, <1>3, <1>4
        <5> QED BY <5>1, <5>2, <3>5 DEF In
      <4> QED BY <4>1, <4>2, <4>3
    <3>6. CASE f # frame /\ (f = hand \/ \E i \in DOMAIN channel : channel[i] = f)
      BY <3>6, <1>7
    <3>7. CASE f # frame /\ \E h \in Hours : InFile(f, h) /\ \A g \in Hours : InFile(f, g) => g = h
      <4>1. PICK h \in Hours : InFile(f, h) /\ \A g \in Hours : InFile(f, g) => g = h
        BY <3>7
      <4>2. In(f, files'[h].frames) /\ \A g \in Hours : In(f, files'[g].frames) => g = h
        BY <4>1, <3>3, <3>4, <3>7 DEF In, InFile
      <4> QED BY <4>2
    <3>8. \/ f = hand \/ \E i \in DOMAIN channel : channel[i] = f
          \/ \E h \in Hours : InFile(f, h) /\ \A g \in Hours : InFile(f, g) => g = h
      BY <3>2, <1>1 DEF TimelapseIInv, EveryKeyFrame
    <3> QED BY <3>5, <3>6, <3>7, <3>8
  <2>12. EndedHasNoMuxer' /\ owed' \subseteq idrs'
    BY <1>1, <2>2 DEF EndedHasNoMuxer, TimelapseIInv
  <2> QED BY <2>7, <2>9, <2>10, <2>11, <2>12, <1>5 DEF TimelapseIInv
<1> QED BY <1>9, <1>10 DEF Receive, frame

\* A muxer dropped without finish leaves its frames where they are, and after a
\* power loss nothing is on its way.
LEMMA DropStep ==
  ASSUME TimelapseConstants, TimelapseIInv, TaskEnds \/ PowerLoss PROVE TimelapseIInv'
<1>1. /\ files' = Left(files, "broken") /\ current_muxer' = NoMuxer
      /\ task' \in {"ended", "down"} /\ task' # "running"
      /\ UNCHANGED <<clock, shutdown, worker_hour, older, frames, idrs, current_hour, owed, since,
                     upset>>
      /\ \/ UNCHANGED <<worker, hand, idrDue, channel>>
         \/ worker' = "ended" /\ hand' = NoFrame /\ idrDue' = FALSE /\ channel' = << >>
  BY DEF TaskEnds, PowerLoss, workerVars
<1>2. /\ files' \in [Hours -> File]
      /\ \A h \in Hours : files'[h].frames = files[h].frames /\ files'[h].state # "open"
  BY <1>1, LeftFiles DEF TimelapseIInv
<1>3. NoMuxer \notin Hours
  BY DEF Hours, TimelapseConstants
<1>4. << >> \in Seq(Frames) /\ Len(<< >>) = 0 /\ DOMAIN << >> = {} /\ CAPACITY \in Nat
  BY DEF TimelapseConstants
<1>5. /\ channel' \in Seq(Frames) /\ Len(channel') <= CAPACITY
      /\ DOMAIN channel' = {} \/ channel' = channel
      /\ hand' = NoFrame \/ (hand' = hand /\ channel' = channel)
  <2>1. channel \in Seq(Frames) /\ Len(channel) <= CAPACITY
    BY DEF TimelapseIInv, TypeOK
  <2>2. CASE channel' = channel /\ hand' = hand
    BY <2>1, <2>2
  <2>3. CASE channel' = << >> /\ hand' = NoFrame
    BY <1>4, <2>3
  <2> QED BY <1>1, <2>2, <2>3
<1>6. TypeOK'
  <2>1. files' \in [Hours -> [state : {"absent", "open", "sealed", "broken"},
                              frames : Seq(Frames)]]
    BY <1>2 DEF File
  <2>2. /\ worker' \in {"loop", "polling", "sending", "ended"} /\ idrDue' \in BOOLEAN
        /\ hand' \in Frames \cup {NoFrame} /\ (worker' = "sending" <=> hand' # NoFrame)
    BY <1>1 DEF TimelapseIInv, TypeOK
  <2> QED BY <1>1, <1>5, <2>1, <2>2 DEF TimelapseIInv, TypeOK
<1>7. FilesOrdered'
  BY <1>1, <1>2, <1>3 DEF TimelapseIInv, FilesOrdered
<1>8. EveryKeyFrame' /\ EndedHasNoMuxer' /\ owed' \subseteq idrs'
  BY <1>1 DEF TimelapseIInv, EveryKeyFrame, EndedHasNoMuxer
<1>9. ChannelOrder' /\ FilesBefore'
  BY <1>1, <1>2, <1>5 DEF TimelapseIInv, ChannelOrder, FilesBefore
<1> QED BY <1>6, <1>7, <1>8, <1>9 DEF TimelapseIInv

\* The start owes nothing: what was on its way is lost with the process.
LEMMA RestartStep ==
  ASSUME TimelapseConstants, TimelapseIInv, Restart PROVE TimelapseIInv'
<1>1. /\ task # "running" /\ task' = "running" /\ worker' \in {"loop", "ended"} /\ hand' = NoFrame
      /\ shutdown' = FALSE /\ worker_hour' = NoHour /\ current_hour' = NoHour
      /\ channel' = << >> /\ current_muxer' = NoMuxer /\ owed' = {} /\ since' = 0
      /\ UNCHANGED <<clock, idrDue, older, frames, idrs, files, upset>>
  BY DEF Restart, Started
<1>2. << >> \in Seq(Frames) /\ Len(<< >>) = 0 /\ DOMAIN << >> = {} /\ CAPACITY \in Nat
  BY DEF TimelapseConstants
<1>3. current_muxer = NoMuxer
  BY <1>1 DEF TimelapseIInv, EndedHasNoMuxer
<1>4. TypeOK'
  <2>1. /\ clock' \in Hours /\ idrDue' \in BOOLEAN /\ frames' \in 0 .. MaxFrames
        /\ older' \in 0 .. EncoderQueue
        /\ idrs' \subseteq Frames /\ upset' \in {"none", "some", "back"}
        /\ files' \in [Hours -> [state : {"absent", "open", "sealed", "broken"},
                                 frames : Seq(Frames)]]
    BY <1>1 DEF TimelapseIInv, TypeOK
  <2>2. channel' \in Seq(Frames) /\ Len(channel') <= CAPACITY
    BY <1>1, <1>2
  <2>3. /\ worker' \in {"loop", "polling", "sending", "ended"} /\ hand' \in Frames \cup {NoFrame}
        /\ worker' = "sending" <=> hand' # NoFrame
    BY <1>1
  <2>4. worker_hour' \in 0 .. HoursPerDay - 1 \cup {NoHour}
    BY <1>1
  <2>5. current_hour' \in 0 .. HoursPerDay - 1 \cup {NoHour}
    BY <1>1
  <2>6. /\ current_muxer' \in Hours \cup {NoMuxer} /\ owed' \subseteq Frames
        /\ task' \in {"running", "ended", "down"} /\ since' \in 0 .. Enough
    BY <1>1, EnoughFrames
  <2>7. shutdown' \in BOOLEAN
    BY <1>1, Zenon
  <2> QED BY <2>1, <2>2, <2>3, <2>4, <2>5, <2>6, <2>7 DEF TypeOK
<1>5. FilesOrdered' /\ EveryKeyFrame' /\ EndedHasNoMuxer' /\ owed' \subseteq idrs'
  BY <1>1, <1>3 DEF TimelapseIInv, FilesOrdered, EveryKeyFrame, EndedHasNoMuxer
<1>6. ChannelOrder' /\ FilesBefore'
  BY <1>1, <1>2 DEF TimelapseIInv, ChannelOrder, FilesBefore
<1> QED BY <1>4, <1>5, <1>6 DEF TimelapseIInv

-----------------------------------------------------------------------------

\* At the start there is no frame.
LEMMA InitInv == TimelapseConstants /\ Init => TimelapseIInv
<1> SUFFICES ASSUME TimelapseConstants, Init PROVE TimelapseIInv
  OBVIOUS
<1>1. << >> \in Seq(Frames) /\ Len(<< >>) = 0 /\ DOMAIN << >> = {} /\ CAPACITY \in Nat
  BY DEF TimelapseConstants
<1>2. NoMuxer \notin Hours /\ 0 \in Hours /\ 0 \in 0 .. MaxFrames
  BY DEF TimelapseConstants, Hours
<1>3. Absent \in File /\ Absent.frames = << >> /\ Absent.state = "absent"
  BY <1>1 DEF Absent, File
<1>4. files \in [Hours -> File] /\ \A h \in Hours : files[h] = Absent
  BY <1>3 DEF Init
<1>5. TypeOK
  <2>1. 0 \in 0 .. Enough /\ 0 \in 0 .. EncoderQueue
    BY EnoughFrames DEF TimelapseConstants
  <2> QED BY <1>1, <1>2, <1>4, <2>1 DEF Init, TypeOK, File
<1>6. FilesOrdered
  BY <1>2, <1>3, <1>4, <1>1 DEF Init, FilesOrdered
<1>7. EveryKeyFrame /\ EndedHasNoMuxer /\ owed \subseteq idrs /\ ChannelOrder
  BY <1>1 DEF Init, EveryKeyFrame, EndedHasNoMuxer, ChannelOrder
<1>8. FilesBefore
  BY <1>1, <1>3, <1>4 DEF FilesBefore
<1> QED BY <1>5, <1>6, <1>7, <1>8 DEF TimelapseIInv

\* Every step keeps the invariant.
LEMMA NextInv == TimelapseConstants /\ TimelapseIInv /\ [Next]_vars => TimelapseIInv'
<1> SUFFICES ASSUME TimelapseConstants, TimelapseIInv, [Next]_vars PROVE TimelapseIInv'
  OBVIOUS
<1>1. CASE Loop
  <2>1. UNCHANGED <<clock, shutdown, hand, frames, idrs, channel, task, current_hour,
                    current_muxer, files, owed, since, upset>>
    BY <1>1 DEF Loop, taskVars
  <2>2. hour \in 0 .. HoursPerDay - 1
    BY DEF hour, TimelapseIInv, TypeOK, Hours, TimelapseConstants
  <2>3. idrDue' \in BOOLEAN
    <3>1. CASE shutdown
      BY <1>1, <3>1 DEF Loop, TimelapseIInv, TypeOK
    <3>2. CASE ~shutdown
      <4>1. idrDue' = (idrDue \/ RequestIDR)
        BY <1>1, <3>2, Zenon DEF Loop
      <4> QED BY <4>1, Zenon
    <3> QED BY <3>1, <3>2
  <2>4. worker_hour' \in {worker_hour, hour} /\ worker = "loop" /\ worker' \in {"polling", "ended"}
    BY <1>1 DEF Loop
  <2>5. older' \in 0 .. EncoderQueue
    BY <1>1 DEF Loop, TimelapseIInv, TypeOK
  <2>6. TypeOK'
    BY <2>1, <2>2, <2>3, <2>4, <2>5 DEF TimelapseIInv, TypeOK
  <2> QED BY <2>1, <2>6, StillStep
<1>2. CASE PollFails
  <2>1. TypeOK'
    BY <1>2 DEF PollFails, taskVars, TimelapseIInv, TypeOK
  <2> QED BY <1>2, <2>1, StillStep DEF PollFails, taskVars
<1>3. CASE Deliver
  BY <1>3, DeliverStep
<1>4. CASE BlockingSend
  BY <1>4, SendStep
<1>5. CASE Receive
  BY <1>5, ReceiveStep
<1>6. CASE TaskEnds \/ PowerLoss
  BY <1>6, DropStep
<1>7. CASE SetClock
  <2>1. /\ clock' \in Hours /\ since' = 0
        /\ UNCHANGED <<shutdown, worker, worker_hour, idrDue, older, hand, frames, idrs, channel,
                       task, current_hour, current_muxer, files, owed>>
    BY <1>7 DEF SetClock, taskVars, workerVars
  <2>2. upset' \in {"none", "some", "back"}
    BY <1>7 DEF SetClock, TimelapseIInv, TypeOK
  <2>3. TypeOK'
    BY <2>1, <2>2, EnoughFrames DEF TimelapseIInv, TypeOK
  <2> QED BY <2>1, <2>3, StillStep
<1>8. CASE RequestShutdown
  <2>1. TypeOK'
    BY <1>8 DEF RequestShutdown, taskVars, workerVars, TimelapseIInv, TypeOK
  <2> QED BY <1>8, <2>1, StillStep DEF RequestShutdown, taskVars, workerVars
<1>9. CASE Restart
  BY <1>9, RestartStep
<1>10. CASE UNCHANGED vars
  <2>1. TypeOK'
    BY <1>10 DEF vars, taskVars, workerVars, TimelapseIInv, TypeOK
  <2> QED BY <1>10, <2>1, StillStep DEF vars, taskVars, workerVars
<1> QED BY <1>1, <1>2, <1>3, <1>4, <1>5, <1>6, <1>7, <1>8, <1>9, <1>10
        DEF Next, WorkerNext, TaskNext

\* Waiting for room in the channel loses no key frame, and each file holds key
\* frames only and in order (isp.rs:427-493, record.rs:101-177).
THEOREM TimelapseSound == ASSUME TimelapseConstants PROVE Spec => []TimelapseInv
<1>1. Init => TimelapseIInv
  BY InitInv
<1>2. TimelapseIInv /\ [Next]_vars => TimelapseIInv'
  BY NextInv
<1>3. TimelapseIInv => TimelapseInv
  BY DEF TimelapseIInv, TimelapseInv
<1> QED BY <1>1, <1>2, <1>3, PTL DEF Spec

-----------------------------------------------------------------------------
(* Sealed files *)

\* The hour the task remembers is that of the file it writes.
MuxerOfHour == current_muxer # NoMuxer => current_hour = current_muxer % HoursPerDay

\* Files are of the past, and sealed ones of an earlier hour.
PastFiles ==
  upset # "back" =>
    \A h \in Hours : /\ files[h].state # "absent" => h <= clock
                     /\ files[h].state = "sealed" => h < clock

\* What a key frame changes: the file of this hour, or the one that was open.
LEMMA RecordChanges ==
  ASSUME TimelapseConstants, TypeOK, FilesOrdered, MuxerOfHour, NEW frame \in Frames,
         NEW finished \in BOOLEAN, NEW written \in BOOLEAN, NEW created \in {"ok", "file", "muxer"},
         Record(frame, finished, created, written)
  PROVE  /\ \A h \in Hours : \/ files'[h] = files[h]
                             \/ h = clock /\ files'[h].state # "sealed"
                             \/ h = current_muxer /\ (h # clock \/ files'[h].state = "open")
         /\ MuxerOfHour' /\ (upset' = "back" <=> upset = "back")
<1> DEFINE muxer == IF Switch THEN MuxerAfter(created) ELSE current_muxer
           fs    == IF Switch THEN Switched(finished, created) ELSE files
           kept  == muxer # NoMuxer /\ written
<1>1. /\ NoMuxer \notin Hours /\ clock \in Hours /\ current_muxer \in Hours \cup {NoMuxer}
      /\ files \in [Hours -> File]
  BY DEF TypeOK, TimelapseConstants, Hours, File
<1>2. /\ current_muxer' = muxer
      /\ current_hour' = IF Switch /\ created = "ok" THEN hour ELSE current_hour
      /\ files' = IF kept THEN [fs EXCEPT ![muxer].frames = Append(@, frame)] ELSE fs
      /\ upset' = IF upset = "none" /\ (~finished \/ created # "ok" \/ ~written)
                  THEN "some" ELSE upset
  BY Zenon DEF Record
<1>3. upset' = "back" <=> upset = "back"
  BY <1>2
<1>4. CASE ~Switch
  <2>1. /\ current_muxer \in Hours /\ muxer = current_muxer /\ fs = files
        /\ files[current_muxer].state = "open"
    BY <1>1, <1>4 DEF Switch, FilesOrdered
  <2>2. CASE kept
    <3> DEFINE f == [files[current_muxer] EXCEPT !.frames = Append(@, frame)]
    <3>1. files' = [files EXCEPT ![current_muxer] = f]
      BY <1>2, <2>1, <2>2
    <3>2. f.state = "open"
      BY <1>1, <2>1 DEF File
    <3> HIDE DEF f
    <3>3. \A h \in Hours : files'[h] = IF h = current_muxer THEN f ELSE files[h]
      BY <3>1, <1>1
    <3> QED BY <3>2, <3>3, <2>1, <1>2, <1>3, <1>4 DEF MuxerOfHour
  <2>3. CASE ~kept
    BY <2>1, <2>3, <1>2, <1>3, <1>4 DEF MuxerOfHour
  <2> QED BY <2>2, <2>3
<1>5. CASE Switch
  <2>1. current_muxer # clock
    BY <1>1, <1>5 DEF Switch, MuxerOfHour, hour
  <2> DEFINE old == Left(files, IF finished THEN "sealed" ELSE "broken")
             new == [Absent EXCEPT !.state = "open"]
             bad == [Absent EXCEPT !.state = "broken"]
  <2>2. (IF finished THEN "sealed" ELSE "broken") \in {"sealed", "broken"}
    OBVIOUS
  <2>3. old \in [Hours -> File] /\ \A h \in Hours : h # current_muxer => old[h] = files[h]
    <3>1. old \in [Hours -> File]
      BY <2>2, LeftFiles
    <3>2. \A h \in Hours : h # current_muxer => old[h] = files[h]
      BY <1>1 DEF Left
    <3> QED BY <3>1, <3>2
  <2>4. new \in File /\ new.state = "open" /\ bad \in File /\ bad.state = "broken"
    <3>1. << >> \in Seq(Frames)
      OBVIOUS
    <3> QED BY <3>1 DEF Absent, File
  <2>5. MuxerOfHour'
    BY <1>2, <1>5, <1>1 DEF MuxerOfHour, MuxerAfter, hour, TypeOK
  <2>6. /\ created = "ok" => fs = [old EXCEPT ![clock] = new] /\ muxer = clock
        /\ created = "muxer" => fs = [old EXCEPT ![clock] = bad] /\ muxer = NoMuxer
        /\ created = "file" => fs = old /\ muxer = NoMuxer
    BY <1>5 DEF Switched, MuxerAfter
  <2> HIDE DEF old, new, bad, fs, muxer
  <2>7. /\ fs \in [Hours -> File] /\ \A h \in Hours : h # clock => fs[h] = old[h]
        /\ created = "file" => fs = old
        /\ created # "file" => fs[clock].state # "sealed"
    BY <1>1, <2>3, <2>4, <2>6
  <2>8. CASE kept
    <3> DEFINE f == [fs[clock] EXCEPT !.frames = Append(@, frame)]
    <3>1. muxer = clock /\ created = "ok"
      BY <2>6, <2>8
    <3>2. files' = [fs EXCEPT ![clock] = f]
      BY <1>2, <2>8, <3>1
    <3>3. f.state = fs[clock].state
      BY <1>1, <2>7 DEF File
    <3> HIDE DEF f
    <3>4. \A h \in Hours : files'[h] = IF h = clock THEN f ELSE fs[h]
      BY <3>2, <2>7, <1>1
    <3> QED BY <3>1, <3>3, <3>4, <2>1, <2>3, <2>5, <2>7, <1>1, <1>3
  <2>9. CASE ~kept
    <3>1. files' = fs
      BY <1>2, <2>9
    <3> QED BY <3>1, <2>1, <2>3, <2>5, <2>7, <1>1, <1>3
  <2> QED BY <2>8, <2>9
<1> QED BY <1>4, <1>5

\* Every step keeps both, and no sealed file changes unless the clock was set back.
LEMMA SealedStep ==
  ASSUME TimelapseConstants, TimelapseIInv, MuxerOfHour, PastFiles, [Next]_vars
  PROVE  /\ MuxerOfHour' /\ PastFiles'
         /\ \A h \in Hours :
              files[h].state = "sealed" /\ files'[h] # files[h] => upset = "back"
<1>1. /\ NoMuxer \notin Hours /\ clock \in Hours /\ current_muxer \in Hours \cup {NoMuxer}
      /\ files \in [Hours -> File] /\ Hours \subseteq Nat
      /\ \A h \in Hours : files[h].state = "open" <=> current_muxer = h
  BY DEF TimelapseIInv, TypeOK, FilesOrdered, TimelapseConstants, Hours, File
<1>2. CASE /\ UNCHANGED <<clock, current_hour, files, upset>>
           /\ current_muxer' \in {current_muxer, NoMuxer}
  BY <1>2 DEF MuxerOfHour, PastFiles
<1>3. CASE TaskEnds \/ PowerLoss
  <2>1. /\ files' = Left(files, "broken") /\ current_muxer' = NoMuxer
        /\ UNCHANGED <<clock, upset>>
    BY <1>3 DEF TaskEnds, PowerLoss
  <2>2. \A h \in Hours : files'[h] = files[h] \/ (h = current_muxer /\ files'[h].state # "sealed")
    <3>1. \A h \in Hours : h # current_muxer => files'[h] = files[h]
      BY <2>1, <1>1 DEF Left
    <3>2. current_muxer # NoMuxer => files'[current_muxer].state = "broken"
      <4>1. SUFFICES ASSUME current_muxer # NoMuxer
                     PROVE  files'[current_muxer].state = "broken"
        OBVIOUS
      <4> DEFINE f == [files[current_muxer] EXCEPT !.state = "broken"]
      <4>2. files' = [files EXCEPT ![current_muxer] = f] /\ f.state = "broken"
        BY <4>1, <2>1, <1>1 DEF Left, File
      <4> HIDE DEF f
      <4> QED BY <4>1, <4>2, <1>1
    <3> QED BY <3>1, <3>2, <1>1
  <2> QED BY <2>1, <2>2, <1>1 DEF MuxerOfHour, PastFiles
<1>4. CASE Receive
  <2>1. UNCHANGED clock /\ channel # << >>
    BY <1>4 DEF Receive
  <2>2. CASE UNCHANGED <<current_muxer, current_hour, files, owed, upset>>
    BY <2>1, <2>2, <1>2
  <2>3. CASE \E finished, written \in BOOLEAN, created \in {"ok", "file", "muxer"} :
               Record(Head(channel), finished, created, written)
    <3>1. PICK finished \in BOOLEAN, written \in BOOLEAN, created \in {"ok", "file", "muxer"} :
                 Record(Head(channel), finished, created, written)
      BY <2>3
    <3>2. Head(channel) \in Frames
      BY <2>1, TailFacts DEF TimelapseIInv, TypeOK
    <3>3. /\ \A h \in Hours : \/ files'[h] = files[h]
                              \/ h = clock /\ files'[h].state # "sealed"
                              \/ h = current_muxer /\ (h # clock \/ files'[h].state = "open")
          /\ MuxerOfHour' /\ (upset' = "back" <=> upset = "back")
      BY <3>1, <3>2, RecordChanges DEF TimelapseIInv
    <3> QED BY <3>3, <2>1, <1>1 DEF PastFiles
  <2> QED BY <1>4, <2>2, <2>3 DEF Receive
<1>5. CASE SetClock
  <2>1. /\ UNCHANGED <<current_muxer, current_hour, files>> /\ clock' \in Hours
        /\ upset' # "back" => upset # "back" /\ ~(clock' < clock)
    <3>1. UNCHANGED <<current_muxer, current_hour, files>> /\ clock' \in Hours
      BY <1>5 DEF SetClock, taskVars
    <3>2. upset' = IF clock' < clock \/ upset = "back" THEN "back"
                   ELSE IF clock' = clock + 1 /\ since = Enough THEN upset ELSE "some"
      BY <1>5, Zenon DEF SetClock
    <3> QED BY <3>1, <3>2
  <2> QED BY <2>1, <1>1 DEF MuxerOfHour, PastFiles
<1>6. CASE Restart
  <2>1. current_muxer = NoMuxer
    BY <1>6 DEF Restart, TimelapseIInv, EndedHasNoMuxer
  <2> QED BY <1>6, <2>1 DEF Restart, Started, MuxerOfHour, PastFiles
<1>7. CASE WorkerNext \/ RequestShutdown \/ UNCHANGED vars
  BY <1>2, <1>7 DEF WorkerNext, Loop, PollFails, Deliver, BlockingSend, RequestShutdown, vars, taskVars
<1> QED BY <1>3, <1>4, <1>5, <1>6, <1>7 DEF Next, TaskNext

\* Nothing is open or filed at the start.
LEMMA InitSealed == Init => MuxerOfHour /\ PastFiles
<1> SUFFICES ASSUME Init PROVE MuxerOfHour /\ PastFiles
  OBVIOUS
<1>1. << >> \in Seq(Frames)
  OBVIOUS
<1>2. Absent.state = "absent"
  BY <1>1 DEF Absent
<1> QED BY <1>2 DEF Init, MuxerOfHour, PastFiles

\* A sealed file of an hour is safe from every restart and failure: only a clock
\* set back lets the task truncate it (record.rs:135).
THEOREM SealedHourStays == ASSUME TimelapseConstants PROVE Spec => SealedKept
<1> DEFINE A == \A h \in Hours :
                  files[h].state = "sealed" /\ files'[h] # files[h] => upset = "back"
           I == TimelapseIInv /\ MuxerOfHour /\ PastFiles
<1>1. Init => I
  BY InitInv, InitSealed
<1>2. I /\ [Next]_vars => I' /\ [A]_vars
  BY NextInv, SealedStep
<1>3. SealedKept <=> [][A]_vars
  BY DEF SealedKept
<1> HIDE DEF A, I
<1> QED BY <1>1, <1>2, <1>3, PTL DEF Spec

-----------------------------------------------------------------------------
(* The file of the hour *)

InTransit == \E f \in idrs : f = hand \/ In(f, channel)

\* The hour has its file, or a key frame that will make it is on its way.
Served == files[clock].state # "absent" \/ InTransit

\* An hour that the worker knows of has its IDR requested or delivered: no frame but the
\* first of an hour can have been polled for before the worker knew, and the frames before
\* the IDR count down to it.
HourIInv ==
  upset = "none" =>
    /\ worker_hour = NoHour \/ worker_hour <= clock
    /\ since # 0 /\ worker = "polling" => worker_hour = clock
    /\ worker_hour # clock => since <= 1
    /\ task = "running" /\ worker_hour = clock /\ ~Served =>
         idrDue /\ since + older <= EncoderQueue + 1

\* Within one day the hour of the day is the hour.
LEMMA HourOfDay ==
  ASSUME TimelapseConstants, MaxHour < HoursPerDay, NEW c \in Hours
  PROVE  c % HoursPerDay = c /\ c # NoHour /\ c \in Nat
BY DEF TimelapseConstants, Hours, NoHour

\* A key frame that the task takes without an error leaves the hour with its file.
LEMMA ReceiveServes ==
  ASSUME TimelapseConstants, MaxHour < HoursPerDay, TimelapseIInv, MuxerOfHour, HourIInv,
         Receive, TimelapseIInv', upset' = "none"
  PROVE  HourIInv'
<1>1. /\ UNCHANGED <<clock, worker, worker_hour, idrDue, older, hand, idrs, task, since>>
      /\ channel # << >> /\ channel' = Tail(channel)
  BY DEF Receive, workerVars
<1>2. CASE UNCHANGED <<current_muxer, current_hour, files, owed, upset>> /\ Head(channel) \notin idrs
  <2>1. ASSUME NEW f \in idrs, In(f, channel) PROVE In(f, channel')
    <3>1. channel \in Seq(Frames)
      BY DEF TimelapseIInv, TypeOK
    <3>2. PICK i \in DOMAIN channel : channel[i] = f
      BY <2>1 DEF In
    <3>3. /\ Len(channel) \in Nat /\ i \in 1 .. Len(channel) /\ channel[1] \notin idrs
          /\ DOMAIN channel' = 1 .. Len(channel) - 1
          /\ \A k \in 1 .. Len(channel) - 1 : channel'[k] = channel[k + 1]
      BY <1>1, <1>2, <3>1, TailFacts
    <3>4. i - 1 \in DOMAIN channel' /\ channel'[i - 1] = channel[(i - 1) + 1]
      BY <3>2, <3>3
    <3> QED BY <3>2, <3>3, <3>4 DEF In
  <2>2. InTransit => InTransit'
    BY <1>1, <2>1 DEF InTransit
  <2> QED BY <1>1, <1>2, <2>2 DEF HourIInv, Served
<1>3. CASE \E finished, written \in BOOLEAN, created \in {"ok", "file", "muxer"} :
             Record(Head(channel), finished, created, written)
  <2>1. PICK finished \in BOOLEAN, written \in BOOLEAN, created \in {"ok", "file", "muxer"} :
          Record(Head(channel), finished, created, written)
    BY <1>3
  <2>2. upset = "none" /\ created = "ok"
    BY <2>1 DEF Record
  <2>3. /\ clock \in Hours /\ clock % HoursPerDay = clock
        /\ current_muxer \in Hours \cup {NoMuxer}
        /\ current_muxer # NoMuxer => current_muxer % HoursPerDay = current_muxer
    BY HourOfDay DEF TimelapseIInv, TypeOK
  <2>4. current_muxer' = IF Switch THEN clock ELSE current_muxer
    BY <2>1, <2>2 DEF Record, MuxerAfter
  <2>5. ~Switch => current_muxer = clock
    BY <2>3 DEF Switch, hour, MuxerOfHour
  <2>6. files'[clock].state = "open"
    BY <1>1, <2>3, <2>4, <2>5 DEF TimelapseIInv, FilesOrdered
  <2> QED BY <1>1, <2>2, <2>6 DEF HourIInv, Served
<1> QED BY <1>2, <1>3 DEF Receive, HasIdr

\* The worker asks for an IDR as soon as it knows the hour, and files what it gets.
LEMMA HourStep ==
  ASSUME TimelapseConstants, MaxHour < HoursPerDay, TimelapseIInv, MuxerOfHour, HourIInv,
         [Next]_vars, TimelapseIInv'
  PROVE  HourIInv'
<1> SUFFICES ASSUME upset' = "none" PROVE HourIInv'
  BY DEF HourIInv
<1>1. /\ clock \in Hours /\ hour = clock /\ clock \in Nat /\ clock # NoHour
      /\ worker_hour \in 0 .. HoursPerDay - 1 \cup {NoHour} /\ since \in 0 .. Enough
      /\ HoursPerDay \in Nat /\ EncoderQueue \in Nat /\ older \in 0 .. EncoderQueue
      /\ Enough = EncoderQueue + 2
  BY HourOfDay DEF TimelapseIInv, TypeOK, hour, TimelapseConstants, Enough
<1>2. CASE /\ UNCHANGED <<clock, worker, worker_hour, idrDue, older, hand, channel, idrs, files>>
           /\ UNCHANGED <<since, upset, task>>
  BY <1>2 DEF HourIInv, Served, InTransit
<1>3. CASE Loop
  <2>1. /\ UNCHANGED <<clock, hand, channel, idrs, task, files, since, upset>>
        /\ \/ worker' = "ended" /\ UNCHANGED <<worker_hour, idrDue, older>>
           \/ /\ worker' = "polling" /\ worker_hour' = clock
              /\ idrDue' = (idrDue \/ clock # worker_hour)
              /\ older' \in IF clock # worker_hour THEN 0 .. EncoderQueue ELSE {older}
    BY <1>1, <1>3 DEF Loop, RequestIDR, taskVars
  <2>2. CASE worker' = "ended" /\ UNCHANGED <<worker_hour, idrDue, older>>
    BY <2>1, <2>2 DEF HourIInv, Served, InTransit
  <2>3. CASE /\ worker' = "polling" /\ worker_hour' = clock
             /\ idrDue' = (idrDue \/ clock # worker_hour)
             /\ older' \in IF clock # worker_hour THEN 0 .. EncoderQueue ELSE {older}
    <3>1. idrDue \/ clock # worker_hour => idrDue'
      BY <2>3, Zenon
    <3>2. worker_hour # clock => since <= 1 /\ older' <= EncoderQueue /\ older' \in Nat
      BY <1>1, <2>1, <2>3 DEF HourIInv
    <3>3. worker_hour = clock => older' = older
      BY <2>3
    <3>4. Served' <=> Served
      BY <2>1 DEF Served, InTransit
    <3>5. ASSUME upset = "none", task = "running", ~Served
          PROVE  idrDue' /\ since + older' <= EncoderQueue + 1
      <4>1. CASE worker_hour # clock
        BY <1>1, <3>1, <3>2, <3>5, <4>1
      <4>2. CASE worker_hour = clock
        BY <3>1, <3>3, <3>5, <4>2 DEF HourIInv
      <4> QED BY <4>1, <4>2
    <3>6. worker_hour' = clock' /\ UNCHANGED <<clock, since, task, upset>>
      BY <2>1, <2>3
    <3>7. upset = "none" /\ task = "running" /\ ~Served' => idrDue'
      BY <3>4, <3>5, Zenon
    <3>8. upset = "none" /\ task = "running" /\ ~Served' => since + older' <= EncoderQueue + 1
      BY <3>4, <3>5, Zenon
    <3> HIDE DEF Served
    <3> QED BY <1>1, <3>6, <3>7, <3>8 DEF HourIInv
  <2> QED BY <2>1, <2>2, <2>3
<1>4. CASE PollFails
  BY <1>4 DEF PollFails, taskVars, HourIInv, Served, InTransit
<1>5. CASE Deliver
  <2>1. /\ worker = "polling" /\ worker' = "sending" /\ hand' = frames'
        /\ UNCHANGED <<clock, worker_hour, channel, task, files, upset>>
        /\ since' = IF since = Enough THEN since ELSE since + 1
    BY <1>5 DEF Deliver, taskVars
  <2>4. worker_hour' # clock' => since' <= 1
    BY <1>1, <2>1 DEF HourIInv
  <2>2. CASE idrs' = idrs \cup {frames'}
    <3>1. InTransit'
      BY <2>1, <2>2 DEF InTransit
    <3> QED BY <2>1, <2>4, <3>1 DEF HourIInv, Served
  <2>3. CASE ~(idrDue /\ older = 0) /\ UNCHANGED idrs
    <3>1. hand = NoFrame /\ NoFrame \notin idrs
      BY <2>1 DEF TimelapseIInv, TypeOK, Frames, NoFrame
    <3>2. InTransit => InTransit'
      BY <2>1, <2>3, <3>1 DEF InTransit
    <3>3. Served => Served'
      BY <2>1, <3>2 DEF Served
    <3>4. CASE Served \/ task # "running" \/ worker_hour # clock
      BY <2>1, <2>4, <3>3, <3>4 DEF HourIInv
    <3>5. CASE ~Served /\ task = "running" /\ worker_hour = clock
      <4>1. idrDue /\ since + older <= EncoderQueue + 1
        BY <2>1, <3>5 DEF HourIInv
      <4>2. older # 0
        BY <2>3, <4>1
      <4>3. older' = older - 1
        BY <1>5, <4>1, <4>2 DEF Deliver
      <4>4. idrDue'
        <5>1. idrDue' = (idrDue /\ older # 0)
          BY <1>5, Zenon DEF Deliver
        <5> QED BY <4>1, <4>2, <5>1, Zenon
      <4>5. since' + older' <= EncoderQueue + 1
        BY <1>1, <2>1, <4>1, <4>2, <4>3
      <4> QED BY <2>1, <2>4, <4>4, <4>5 DEF HourIInv
    <3> QED BY <3>4, <3>5
  <2> QED BY <1>5, <2>2, <2>3 DEF Deliver
<1>6. CASE BlockingSend
  <2>1. UNCHANGED <<clock, worker_hour, idrDue, older, idrs, task, files, since, upset>>
    BY <1>6 DEF BlockingSend, taskVars
  <2>2. worker' # "polling"
    BY <1>6 DEF BlockingSend
  <2>3. task = "running" /\ InTransit => InTransit'
    <3>1. SUFFICES ASSUME task = "running", NEW f \in idrs, f = hand \/ In(f, channel)
                   PROVE  In(f, channel')
      BY <2>1 DEF InTransit
    <3>2. channel' = Append(channel, hand) /\ channel \in Seq(Frames) /\ hand \in Frames
      BY <1>6, <3>1 DEF BlockingSend, ReceiverOpen, Send, TimelapseIInv, TypeOK
    <3> QED BY <3>1, <3>2, AppendFacts DEF In
  <2> QED BY <2>1, <2>2, <2>3 DEF HourIInv, Served
<1>7. CASE TaskEnds \/ PowerLoss
  <2>1. /\ task' # "running" /\ UNCHANGED <<clock, worker_hour, since, upset>>
        /\ worker' \in {worker, "ended"}
    BY <1>7 DEF TaskEnds, PowerLoss, workerVars
  <2> QED BY <2>1 DEF HourIInv
<1>8. CASE SetClock
  <2>1. UNCHANGED <<worker, worker_hour>> /\ clock' \in Hours /\ since' = 0
    BY <1>8 DEF SetClock, workerVars
  <2>2. upset = "none" /\ clock' = clock + 1
    BY <1>8 DEF SetClock
  <2>3. clock' # NoHour
    BY <2>1, HourOfDay
  <2> QED BY <1>1, <2>1, <2>2, <2>3 DEF HourIInv
<1>9. CASE Restart
  <2>1. worker_hour' = NoHour /\ since' = 0 /\ clock' = clock
    BY <1>9 DEF Restart, Started
  <2> QED BY <1>1, <2>1 DEF HourIInv
<1>10. CASE RequestShutdown \/ UNCHANGED vars
  BY <1>2, <1>10 DEF RequestShutdown, vars, workerVars, taskVars
<1>11. CASE Receive
  BY <1>11, ReceiveServes
<1> QED
  BY <1>3, <1>4, <1>5, <1>6, <1>7, <1>8, <1>9, <1>10, <1>11 DEF Next, WorkerNext, TaskNext

\* With nothing on its way, an hour that is served has its file.
LEMMA HourImplied == TimelapseConstants /\ TimelapseIInv /\ HourIInv => HourHasFile
<1> SUFFICES ASSUME TimelapseConstants, TimelapseIInv, HourIInv, since = Enough, task = "running", channel = << >>,
                    hand = NoFrame, upset = "none"
             PROVE  files[clock].state # "absent"
  BY DEF HourHasFile
<1>1. NoFrame \notin idrs
  BY DEF TimelapseIInv, TypeOK, Frames, NoFrame
<1>2. ~InTransit
  BY <1>1 DEF InTransit, In
<1>3. /\ Enough = EncoderQueue + 2 /\ EncoderQueue \in Nat /\ older \in 0 .. EncoderQueue
  BY DEF Enough, TimelapseConstants, TimelapseIInv, TypeOK
<1>4. worker_hour = clock
  BY <1>3 DEF HourIInv
<1>5. Served
  BY <1>3, <1>4 DEF HourIInv
<1> QED BY <1>2, <1>5 DEF Served

\* At the start no hour is known and no frame came.
LEMMA InitHour == Init => HourIInv
BY DEF Init, HourIInv, NoHour

\* On one day every hour has its file once a frame, all that the encoder can hold and the
\* IDR went through, if no I/O failed and the clock was not set: the IDR frame requested
\* at the change of the hour (isp.rs:448) is never lost and never filed elsewhere, however
\* many frames waited in the encoder.
THEOREM HourServed ==
  ASSUME TimelapseConstants, MaxHour < HoursPerDay PROVE Spec => []HourHasFile
<1> DEFINE I == TimelapseIInv /\ MuxerOfHour /\ PastFiles /\ HourIInv
<1>1. Init => I
  BY InitInv, InitSealed, InitHour
<1>2. I /\ [Next]_vars => I'
  BY NextInv, SealedStep, HourStep
<1>3. I => HourHasFile
  BY HourImplied
<1> QED BY <1>1, <1>2, <1>3, PTL DEF Spec
=============================================================================
