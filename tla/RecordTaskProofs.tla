-------------------------- MODULE RecordTaskProofs --------------------------
(***************************************************************************)
(* Safety of record_regular_task for every length of the stream and of the *)
(* hour, and whatever fails: RecordTaskInv is the inductive invariant, one *)
(* conjunct for each thing the task relies on without saying so.           *)
(***************************************************************************)
EXTENDS RecordTask, Integers, TLAPS

File == [state : {"absent", "open", "sealed", "broken"}, frames : Seq(Frame),
         hurt : BOOLEAN, end : {"none", "disabled", "rotated", "error", "shutdown", "power"}]

\* Frames that a decoder can follow, up to those in `lost`.
Plays(fs, lost) ==
  fs # << >> =>
    /\ fs[1].idr
    /\ \A i \in 1 .. Len(fs) - 1 :
         fs[i + 1].idr \/ fs[i].id + 1 .. fs[i + 1].id - 1 \subseteq lost

\* Since its last frame, up to frame n, all frames were lost.
Continues(fs, n, lost) == fs # << >> /\ fs[Len(fs)].id + 1 .. n \subseteq lost

\* Each key frame is one of minute p.
KeysOf(fs, p) ==
  \A i \in DOMAIN fs : fs[i].idr => fs[i].minute % MinutesPerHour = p % MinutesPerHour

AllPlay == \A p \in Minutes : ~files[p].hurt => Plays(files[p].frames, lostIds)
AllKeys == \A p \in Minutes : KeysOf(files[p].frames, p)

\* The minute the task remembers is that of the file it writes.
MuxerOfMinute ==
  current_muxer # NoMuxer => current_minute = current_muxer % MinutesPerHour

DownHasNoMuxer == status # "running" => current_muxer = NoMuxer

\* The open file has every frame up to now that was not lost, or is marked.
OpenContinues ==
  current_muxer # NoMuxer =>
    \/ files[current_muxer].hurt
    \/ Continues(files[current_muxer].frames, stream, lostIds)

\* Files are of the past, and those closed by a switch of an earlier minute.
SealedBefore ==
  ~wentBack =>
    \A p \in Minutes :
      /\ files[p].state # "absent" => p <= clock
      /\ files[p].state = "sealed" /\ files[p].end # "disabled" => p < clock

\* The inductive invariant.
RecordTaskInv ==
  /\ TypeOK /\ OneOpenFile /\ AllPlay /\ AllKeys
  /\ MuxerOfMinute /\ DownHasNoMuxer /\ OpenContinues /\ SealedBefore

-----------------------------------------------------------------------------

\* A frame that continues the file, or begins it as an IDR, keeps it playable.
LEMMA AppendPlays ==
  ASSUME NEW fs \in Seq(Frame), NEW frame \in Frame, NEW n \in Nat,
         NEW lost, NEW lost2, lost \subseteq lost2, n + 1 .. frame.id - 1 \subseteq lost2,
         Plays(fs, lost), fs = << >> => frame.idr, fs # << >> => Continues(fs, n, lost)
  PROVE  /\ Plays(Append(fs, frame), lost2)
         /\ Continues(Append(fs, frame), frame.id, lost2)
<1> DEFINE gs == Append(fs, frame)
<1>1. /\ gs \in Seq(Frame) /\ Len(gs) = Len(fs) + 1 /\ Len(fs) \in Nat
      /\ gs[Len(fs) + 1] = frame /\ \A i \in 1 .. Len(fs) : gs[i] = fs[i]
      /\ gs # << >> /\ (fs # << >> => Len(fs) >= 1)
  OBVIOUS
<1>2. ASSUME NEW i \in 1 .. Len(fs) PROVE fs[i] \in Frame
  BY <1>1
<1>3. frame.id \in Int /\ \A i \in 1 .. Len(fs) : fs[i].id \in Int
  BY <1>2 DEF Frame
<1> HIDE DEF gs
<1>4. gs[1].idr
  <2>1. CASE fs = << >>
    BY <2>1, <1>1
  <2>2. CASE fs # << >>
    BY <2>2, <1>1 DEF Plays
  <2> QED BY <2>1, <2>2
<1>5. ASSUME NEW i \in 1 .. Len(gs) - 1
      PROVE  gs[i + 1].idr \/ gs[i].id + 1 .. gs[i + 1].id - 1 \subseteq lost2
  <2>1. CASE i < Len(fs)
    <3>1. i \in 1 .. Len(fs) - 1 /\ gs[i] = fs[i] /\ gs[i + 1] = fs[i + 1] /\ fs # << >>
      BY <2>1, <1>1
    <3> QED BY <3>1 DEF Plays
  <2>2. CASE i = Len(fs)
    <3>1. fs # << >> /\ gs[i] = fs[Len(fs)] /\ gs[i + 1] = frame /\ fs[Len(fs)].id \in Int
      BY <2>2, <1>1, <1>3
    <3>2. fs[Len(fs)].id + 1 .. n \subseteq lost
      BY <3>1 DEF Continues
    <3>3. ASSUME NEW k \in fs[Len(fs)].id + 1 .. frame.id - 1
          PROVE  k \in lost2
      <4>1. k \in fs[Len(fs)].id + 1 .. n \/ k \in n + 1 .. frame.id - 1
        BY <3>1, <1>3
      <4> QED BY <4>1, <3>2
    <3> QED BY <3>1, <3>3
  <2> QED BY <2>1, <2>2, <1>1
<1>6. gs[Len(gs)].id + 1 .. frame.id = {}
  BY <1>1, <1>3
<1>7. Plays(gs, lost2)
  BY <1>4, <1>5 DEF Plays
<1>8. Continues(gs, frame.id, lost2)
  BY <1>6, <1>1 DEF Continues
<1> QED BY <1>7, <1>8 DEF gs

\* The key frames of a file stay of its minute when one of that minute comes.
LEMMA AppendKeys ==
  ASSUME NEW fs \in Seq(Frame), NEW frame \in Frame, NEW p, KeysOf(fs, p),
         frame.idr => frame.minute % MinutesPerHour = p % MinutesPerHour
  PROVE  KeysOf(Append(fs, frame), p)
<1> DEFINE gs == Append(fs, frame)
<1>1. /\ Len(gs) = Len(fs) + 1 /\ Len(fs) \in Nat /\ DOMAIN gs = 1 .. Len(fs) + 1
      /\ DOMAIN fs = 1 .. Len(fs)
      /\ gs[Len(fs) + 1] = frame /\ \A i \in 1 .. Len(fs) : gs[i] = fs[i]
  OBVIOUS
<1> HIDE DEF gs
<1>2. ASSUME NEW i \in DOMAIN gs, gs[i].idr
      PROVE  gs[i].minute % MinutesPerHour = p % MinutesPerHour
  <2>1. CASE i = Len(fs) + 1
    BY <2>1, <1>1, <1>2
  <2>2. CASE i \in DOMAIN fs
    BY <2>2, <1>1, <1>2 DEF KeysOf
  <2> QED BY <2>1, <2>2, <1>1
<1> QED BY <1>2 DEF KeysOf, gs

\* More lost frames make nothing unplayable.
LEMMA PlaysOn ==
  ASSUME NEW fs, NEW lost, NEW lost2, lost \subseteq lost2, Plays(fs, lost)
  PROVE  Plays(fs, lost2)
BY DEF Plays

-----------------------------------------------------------------------------

\* finish, or a drop, closes the current file and touches no other, and no
\* frame of any.
LEMMA FinishedFiles ==
  ASSUME RecordTaskInv, NEW ok \in BOOLEAN,
         NEW why \in {"disabled", "rotated", "shutdown", "power"}
  PROVE  LET g == Finished(files, ok, why)
         IN  /\ g \in [Minutes -> File]
             /\ \A p \in Minutes :
                  /\ g[p].frames = files[p].frames /\ g[p].hurt = files[p].hurt
                  /\ g[p].state # "open"
                  /\ p # current_muxer => g[p] = files[p]
                  /\ p = current_muxer => /\ g[p].state = (IF ok THEN "sealed" ELSE "broken")
                                          /\ g[p].end = why
<1>1. files \in [Minutes -> File] /\ current_muxer \in Minutes \cup {NoMuxer}
  BY DEF RecordTaskInv, TypeOK, File
<1>2. \A p \in Minutes : files[p].state = "open" <=> current_muxer = p
  BY DEF RecordTaskInv, OneOpenFile
<1>3. NoMuxer \notin Minutes
  BY RecordConstants DEF Minutes
<1>4. CASE current_muxer = NoMuxer
  BY <1>1, <1>2, <1>3, <1>4 DEF Finished
<1>5. CASE current_muxer # NoMuxer
  <2> DEFINE g == Finished(files, ok, why)
             f == [files[current_muxer] EXCEPT !.state = IF ok THEN "sealed" ELSE "broken",
                                               !.end = why]
  <2>1. g = [files EXCEPT ![current_muxer] = f] /\ f \in File
    BY <1>1, <1>5 DEF Finished, File
  <2>2. /\ f.frames = files[current_muxer].frames /\ f.hurt = files[current_muxer].hurt
        /\ f.state = (IF ok THEN "sealed" ELSE "broken") /\ f.end = why
    BY <1>1, <1>5 DEF File
  <2> HIDE DEF f
  <2>3. /\ g \in [Minutes -> File]
        /\ \A p \in Minutes : g[p] = IF p = current_muxer THEN f ELSE files[p]
    BY <2>1, <1>1
  <2> HIDE DEF g
  <2>4. f.state # "open"
    BY <2>2
  <2> QED BY <2>2, <2>3, <2>4, <1>2 DEF g
<1> QED BY <1>4, <1>5

\* Frame `frame` may be written to the file at p; n is the last frame before it
\* that was received or is in `lost`.
Writable(fs, p, frame, n, lost, lost2) ==
  /\ fs \in [Minutes -> File] /\ p \in Minutes /\ frame \in Frame /\ n \in Nat
  /\ lost \subseteq lost2 /\ n + 1 .. frame.id - 1 \subseteq lost2
  /\ fs[p].hurt \/ Plays(fs[p].frames, lost)
  /\ KeysOf(fs[p].frames, p)
  /\ fs[p].frames = << >> => fs[p].hurt \/ frame.idr
  /\ fs[p].frames # << >> => fs[p].hurt \/ Continues(fs[p].frames, n, lost)
  /\ frame.idr => frame.minute % MinutesPerHour = p % MinutesPerHour

\* Of the files fs only that at p changed, and it continues up to frame n.
WrittenTo(w, fs, p, n, lost2) ==
  /\ w \in [Minutes -> File]
  /\ \A q \in Minutes : q # p => w[q] = fs[q]
  /\ w[p].state = fs[p].state /\ w[p].end = fs[p].end
  /\ w[p].hurt \/ (Plays(w[p].frames, lost2) /\ Continues(w[p].frames, n, lost2))
  /\ KeysOf(w[p].frames, p)

\* One write changes the open file at p only: by the frame, or by a mark.
LEMMA WrittenFile ==
  ASSUME NEW fs, NEW p, NEW frame, NEW ok \in BOOLEAN, NEW n, NEW lost, NEW lost2,
         Writable(fs, p, frame, n, lost, lost2)
  PROVE  WrittenTo(Written(fs, p, frame, ok), fs, p, frame.id, lost2)
<1> DEFINE w == Written(fs, p, frame, ok)
<1> USE DEF Writable
<1>0. p # NoMuxer
  BY RecordConstants DEF Minutes
<1>1. CASE ok
  <2> DEFINE f == [fs[p] EXCEPT !.frames = Append(@, frame)]
  <2>1. w = [fs EXCEPT ![p] = f]
    BY <1>0, <1>1 DEF Written
  <2>2. /\ fs[p] \in File /\ fs[p].frames \in Seq(Frame)
        /\ Append(fs[p].frames, frame) \in Seq(Frame)
    BY DEF File
  <2>3. /\ f \in File /\ f.frames = Append(fs[p].frames, frame)
        /\ f.state = fs[p].state /\ f.end = fs[p].end /\ f.hurt = fs[p].hurt
    BY <2>2 DEF File
  <2> HIDE DEF f
  <2>4. w \in [Minutes -> File] /\ \A q \in Minutes : w[q] = IF q = p THEN f ELSE fs[q]
    BY <2>1, <2>3
  <2> HIDE DEF w
  <2>5. f.hurt \/ (Plays(f.frames, lost2) /\ Continues(f.frames, frame.id, lost2))
    <3>1. SUFFICES ASSUME ~f.hurt
                   PROVE Plays(f.frames, lost2) /\ Continues(f.frames, frame.id, lost2)
      OBVIOUS
    <3>2. /\ Plays(fs[p].frames, lost) /\ (fs[p].frames = << >> => frame.idr)
          /\ (fs[p].frames # << >> => Continues(fs[p].frames, n, lost))
      BY <3>1, <2>3
    <3> QED BY <3>2, <2>2, <2>3, AppendPlays
  <2>6. KeysOf(f.frames, p)
    BY <2>2, <2>3, AppendKeys
  <2> QED BY <2>3, <2>4, <2>5, <2>6 DEF w, WrittenTo
<1>2. CASE ~ok
  <2> DEFINE f == [fs[p] EXCEPT !.hurt = TRUE]
  <2>1. w = [fs EXCEPT ![p] = f]
    BY <1>0, <1>2 DEF Written
  <2>2. /\ f \in File /\ f.frames = fs[p].frames /\ f.hurt
        /\ f.state = fs[p].state /\ f.end = fs[p].end
    BY DEF File
  <2> HIDE DEF f
  <2>3. w \in [Minutes -> File] /\ \A q \in Minutes : w[q] = IF q = p THEN f ELSE fs[q]
    BY <2>1, <2>2
  <2> QED BY <2>2, <2>3 DEF WrittenTo
<1> QED BY <1>1, <1>2

\* What one frame is, and what is known of the frames lost before it.
LEMMA FrameFacts ==
  ASSUME TypeOK, NEW idr \in BOOLEAN, NEW lost \in 0 .. 1, stream + lost + 1 <= MaxFrames,
         lostIds' = lostIds \cup (stream + 1 .. stream + lost)
  PROVE  LET frame == [id |-> stream + lost + 1, idr |-> idr, minute |-> clock]
         IN  /\ frame \in Frame /\ stream + lost + 1 \in 0 .. MaxFrames
             /\ lostIds \subseteq lostIds' /\ stream + 1 .. frame.id - 1 \subseteq lostIds'
             /\ lostIds' \subseteq 1 .. stream + lost + 1
BY RecordConstants DEF TypeOK, Frame

\* Recording is off: the file is closed, if there is one.
LEMMA DisabledStep ==
  ASSUME RecordTaskInv, NEW idr \in BOOLEAN, NEW lost \in 0 .. 1, NEW io \in Outcome,
         Receive(idr, lost, io), Disabled(io)
  PROVE  RecordTaskInv'
<1> DEFINE g == Finished(files, io.finish, "disabled")
<1>1. io.finish \in BOOLEAN
  BY DEF Outcome
<1>2. /\ g \in [Minutes -> File]
      /\ \A p \in Minutes :
           /\ g[p].frames = files[p].frames /\ g[p].hurt = files[p].hurt
           /\ g[p].state # "open"
           /\ p # current_muxer => g[p] = files[p]
           /\ p = current_muxer => g[p].end = "disabled"
  BY <1>1, FinishedFiles
<1>3. /\ files' = g /\ current_muxer' = NoMuxer /\ stream' = stream + lost + 1
      /\ current_minute' \in {current_minute, NoMinute}
      /\ lostIds' = lostIds \cup (stream + 1 .. stream + lost)
      /\ stream + lost + 1 <= MaxFrames
      /\ UNCHANGED <<clock, enabled, status, wentBack>> /\ status = "running"
  BY DEF Receive, Disabled, RecordTaskInv, TypeOK
<1> HIDE DEF g
<1>4. /\ stream' \in 0 .. MaxFrames /\ lostIds \subseteq lostIds' /\ lostIds' \subseteq 1 .. stream'
  BY <1>3, FrameFacts DEF RecordTaskInv
<1>5. NoMuxer \notin Minutes
  BY RecordConstants DEF Minutes
<1>6. TypeOK'
  BY <1>2, <1>3, <1>4 DEF RecordTaskInv, TypeOK, File
<1>7. OneOpenFile'
  BY <1>2, <1>3, <1>5 DEF OneOpenFile
<1>8. AllPlay'
  BY <1>2, <1>3, <1>4, PlaysOn DEF RecordTaskInv, AllPlay
<1>9. AllKeys'
  BY <1>2, <1>3 DEF RecordTaskInv, AllKeys, KeysOf
<1>10. MuxerOfMinute' /\ DownHasNoMuxer' /\ OpenContinues'
  BY <1>3 DEF MuxerOfMinute, DownHasNoMuxer, OpenContinues
<1>11. SealedBefore'
  <2>1. \A p \in Minutes : files[p].state = "open" <=> current_muxer = p
    BY DEF RecordTaskInv, OneOpenFile
  <2> QED BY <2>1, <1>2, <1>3 DEF RecordTaskInv, SealedBefore
<1> QED BY <1>6, <1>7, <1>8, <1>9, <1>10, <1>11 DEF RecordTaskInv

\* A new file.
LEMMA EmptyFile ==
  Empty \in File /\ Empty.frames = << >> /\ ~Empty.hurt /\ Empty.state = "open"
<1>1. ASSUME NEW b, NEW c
      PROVE  [[state |-> "absent", frames |-> b, hurt |-> c, end |-> "none"]
                EXCEPT !.state = "open"]
             = [state |-> "open", frames |-> b, hurt |-> c, end |-> "none"]
  BY SMT
<1>2. Empty = [state |-> "open", frames |-> << >>, hurt |-> FALSE, end |-> "none"]
  BY <1>1, Zenon DEF Empty, Absent
<1>3. ASSUME NEW c \in Seq(Frame), NEW d \in BOOLEAN
      PROVE  /\ [state |-> "open", frames |-> c, hurt |-> d, end |-> "none"] \in File
             /\ [state |-> "open", frames |-> c, hurt |-> d, end |-> "none"].frames = c
             /\ [state |-> "open", frames |-> c, hurt |-> d, end |-> "none"].hurt = d
             /\ [state |-> "open", frames |-> c, hurt |-> d, end |-> "none"].state = "open"
  BY SMT DEF File
<1>4. << >> \in Seq(Frame)
  OBVIOUS
<1> QED BY <1>2, <1>3, <1>4, Zenon

\* A key frame begins a file, and the old one is finished.
LEMMA SwitchStep ==
  ASSUME RecordTaskInv, NEW idr \in BOOLEAN, NEW lost \in 0 .. 1, NEW io \in Outcome,
         Receive(idr, lost, io), enabled, SwitchFile(idr), io.create = "ok"
  PROVE  RecordTaskInv'
<1> DEFINE frame == [id |-> stream + lost + 1, idr |-> idr, minute |-> clock]
           g == Finished(files, io.finish, "rotated")
           h == [g EXCEPT ![clock] = Empty]
           w == Written(h, clock, frame, io.write)
<1>1. /\ io.finish \in BOOLEAN /\ io.write \in BOOLEAN /\ clock \in Minutes /\ idr
      /\ NoMuxer \notin Minutes
  BY RecordConstants DEF Outcome, RecordTaskInv, TypeOK, SwitchFile, Minutes
<1>2. /\ g \in [Minutes -> File]
      /\ \A p \in Minutes :
           /\ g[p].frames = files[p].frames /\ g[p].hurt = files[p].hurt
           /\ g[p].state # "open"
           /\ p # current_muxer => g[p] = files[p]
           /\ p = current_muxer => g[p].end = "rotated"
  BY <1>1, FinishedFiles
<1>3. /\ files' = w /\ current_muxer' = clock /\ current_minute' = clock % MinutesPerHour
      /\ stream' = stream + lost + 1 /\ stream + lost + 1 <= MaxFrames
      /\ lostIds' = lostIds \cup (stream + 1 .. stream + lost)
      /\ UNCHANGED <<clock, enabled, status, wentBack>> /\ status = "running"
  BY DEF Receive, Disabled, Record, Switched, MuxerAfter, Path, minute, RecordTaskInv, TypeOK
<1> HIDE DEF g
<1>4. /\ frame \in Frame /\ stream' \in 0 .. MaxFrames
      /\ lostIds \subseteq lostIds' /\ lostIds' \subseteq 1 .. stream'
      /\ stream + 1 .. frame.id - 1 \subseteq lostIds'
      /\ frame.idr /\ frame.minute = clock /\ frame.id = stream'
  BY <1>1, <1>3, FrameFacts DEF RecordTaskInv
<1> HIDE DEF frame
<1>5. /\ Empty \in File /\ Empty.frames = << >> /\ ~Empty.hurt /\ Empty.state = "open"
  BY EmptyFile
<1>6. /\ h \in [Minutes -> File] /\ h[clock] = Empty
      /\ \A q \in Minutes : q # clock => h[q] = g[q]
  BY <1>1, <1>2, <1>5
<1> HIDE DEF h
<1>7. /\ w \in [Minutes -> File]
      /\ \A q \in Minutes : q # clock => w[q] = h[q]
      /\ w[clock].state = "open"
      /\ w[clock].hurt \/ (/\ Plays(w[clock].frames, lostIds')
                           /\ Continues(w[clock].frames, frame.id, lostIds'))
      /\ KeysOf(w[clock].frames, clock)
  <2>1. Plays(h[clock].frames, lostIds) /\ KeysOf(h[clock].frames, clock) /\ stream \in Nat
    BY <1>5, <1>6 DEF Plays, KeysOf, RecordTaskInv, TypeOK
  <2>2. Writable(h, clock, frame, stream, lostIds, lostIds')
    BY <2>1, <1>1, <1>4, <1>5, <1>6 DEF Writable
  <2>3. WrittenTo(w, h, clock, frame.id, lostIds')
    BY <2>2, <1>1, WrittenFile
  <2> QED BY <2>3, <1>5, <1>6 DEF WrittenTo
<1> HIDE DEF w
<1>8. \A q \in Minutes : q # clock => w[q] = g[q]
  BY <1>6, <1>7
<1>9. TypeOK'
  <2>1. clock % MinutesPerHour \in 0 .. MinutesPerHour - 1
    BY <1>1, RecordConstants DEF Minutes
  <2> QED BY <2>1, <1>1, <1>3, <1>4, <1>7 DEF RecordTaskInv, TypeOK, File
<1>10. OneOpenFile'
  BY <1>1, <1>2, <1>3, <1>7, <1>8 DEF OneOpenFile
<1>11. AllPlay'
  BY <1>2, <1>3, <1>4, <1>7, <1>8, PlaysOn DEF RecordTaskInv, AllPlay
<1>12. AllKeys'
  BY <1>2, <1>3, <1>7, <1>8 DEF RecordTaskInv, AllKeys, KeysOf
<1>13. MuxerOfMinute' /\ DownHasNoMuxer'
  BY <1>3 DEF MuxerOfMinute, DownHasNoMuxer
<1>14. OpenContinues'
  BY <1>3, <1>4, <1>7 DEF OpenContinues
<1>15. SealedBefore'
  <2>1. SUFFICES ASSUME ~wentBack, NEW p \in Minutes
                 PROVE  /\ w[p].state # "absent" => p <= clock
                        /\ w[p].state = "sealed" /\ w[p].end # "disabled" => p < clock
    BY <1>3 DEF SealedBefore
  <2>2. CASE p = clock
    BY <2>2, <1>1, <1>7 DEF Minutes
  <2>3. CASE p # clock /\ p # current_muxer
    BY <2>1, <2>3, <1>2, <1>8 DEF RecordTaskInv, SealedBefore
  <2>4. CASE p # clock /\ p = current_muxer
    <3>1. files[p].state # "absent"
      BY <2>4 DEF RecordTaskInv, OneOpenFile
    <3>2. p <= clock
      BY <2>1, <3>1 DEF RecordTaskInv, SealedBefore
    <3> QED BY <2>4, <3>2, <1>1 DEF Minutes
  <2> QED BY <2>2, <2>3, <2>4
<1> QED BY <1>9, <1>10, <1>11, <1>12, <1>13, <1>14, <1>15 DEF RecordTaskInv

\* A file could not be created: no muxer, and perhaps a broken file in its place.
LEMMA FailedSwitchStep ==
  ASSUME RecordTaskInv, NEW idr \in BOOLEAN, NEW lost \in 0 .. 1, NEW io \in Outcome,
         Receive(idr, lost, io), enabled, SwitchFile(idr), io.create # "ok"
  PROVE  RecordTaskInv'
<1> DEFINE g == Finished(files, io.finish, "rotated")
           bad == [Empty EXCEPT !.state = "broken", !.end = "error"]
           w == IF io.create = "muxer" THEN [g EXCEPT ![clock] = bad] ELSE g
<1>1. /\ io.finish \in BOOLEAN /\ io.create \in {"file", "muxer"} /\ clock \in Minutes
      /\ NoMuxer \notin Minutes
  BY RecordConstants DEF Outcome, RecordTaskInv, TypeOK, Minutes
<1>2. /\ g \in [Minutes -> File]
      /\ \A p \in Minutes :
           /\ g[p].frames = files[p].frames /\ g[p].hurt = files[p].hurt
           /\ g[p].state # "open"
           /\ p # current_muxer => g[p] = files[p]
           /\ p = current_muxer => g[p].end = "rotated"
  BY <1>1, FinishedFiles
<1>3. /\ files' = w /\ current_muxer' = NoMuxer /\ current_minute' = current_minute
      /\ stream' = stream + lost + 1 /\ stream + lost + 1 <= MaxFrames
      /\ lostIds' = lostIds \cup (stream + 1 .. stream + lost)
      /\ UNCHANGED <<clock, enabled, status, wentBack>> /\ status = "running"
  <2>1. MuxerAfter(io) = NoMuxer /\ Switched(io) = w
    BY <1>1 DEF MuxerAfter, Switched, Path
  <2>2. Written(w, NoMuxer, [id |-> stream + lost + 1, idr |-> idr, minute |-> clock],
                io.write) = w
    BY DEF Written
  <2> HIDE DEF w
  <2>3. /\ Record([id |-> stream + lost + 1, idr |-> idr, minute |-> clock], io)
        /\ stream' = stream + lost + 1 /\ stream + lost + 1 <= MaxFrames
        /\ lostIds' = lostIds \cup (stream + 1 .. stream + lost)
        /\ UNCHANGED <<clock, enabled, status, wentBack>> /\ status = "running"
    BY DEF Receive, Disabled, RecordTaskInv, TypeOK
  <2>4. current_muxer' = NoMuxer /\ current_minute' = current_minute
    BY <1>1, <2>1, <2>3 DEF Record
  <2>5. files' = Written(w, NoMuxer, [id |-> stream + lost + 1, idr |-> idr, minute |-> clock],
                         io.write)
    BY <2>1, <2>3 DEF Record
  <2> QED BY <2>2, <2>3, <2>4, <2>5
<1> HIDE DEF g
<1>4. stream' \in 0 .. MaxFrames /\ lostIds \subseteq lostIds' /\ lostIds' \subseteq 1 .. stream'
  BY <1>3, FrameFacts DEF RecordTaskInv
<1>5. /\ bad \in File /\ bad.frames = << >> /\ bad.state = "broken"
  BY EmptyFile DEF File
<1> HIDE DEF bad
<1>6. /\ w \in [Minutes -> File]
      /\ \A q \in Minutes : (w[q] = bad /\ q = clock) \/ w[q] = g[q]
  BY <1>1, <1>2, <1>5
<1> HIDE DEF w
<1>7. TypeOK'
  BY <1>3, <1>4, <1>6 DEF RecordTaskInv, TypeOK, File
<1>8. OneOpenFile'
  BY <1>1, <1>2, <1>3, <1>5, <1>6 DEF OneOpenFile
<1>9. AllPlay'
  <2>1. Plays(bad.frames, lostIds')
    BY <1>5 DEF Plays
  <2> QED BY <2>1, <1>2, <1>3, <1>4, <1>6, PlaysOn DEF RecordTaskInv, AllPlay
<1>10. AllKeys'
  <2>1. \A p \in Minutes : KeysOf(bad.frames, p)
    BY <1>5 DEF KeysOf
  <2> QED BY <2>1, <1>2, <1>3, <1>6 DEF RecordTaskInv, AllKeys, KeysOf
<1>11. MuxerOfMinute' /\ DownHasNoMuxer' /\ OpenContinues'
  BY <1>3 DEF MuxerOfMinute, DownHasNoMuxer, OpenContinues
<1>12. SealedBefore'
  <2>1. SUFFICES ASSUME ~wentBack, NEW p \in Minutes
                 PROVE  /\ w[p].state # "absent" => p <= clock
                        /\ w[p].state = "sealed" /\ w[p].end # "disabled" => p < clock
    BY <1>3 DEF SealedBefore
  <2>2. CASE w[p] = bad /\ p = clock
    BY <2>2, <1>1, <1>5 DEF Minutes
  <2>3. CASE w[p] = g[p] /\ p # current_muxer
    BY <2>1, <2>3, <1>2 DEF RecordTaskInv, SealedBefore
  <2>4. CASE p = current_muxer
    <3>1. files[p].state # "absent"
      BY <2>4 DEF RecordTaskInv, OneOpenFile
    <3>2. p <= clock
      BY <2>1, <3>1 DEF RecordTaskInv, SealedBefore
    <3>3. clock % MinutesPerHour # p % MinutesPerHour
      BY <2>4, <1>1 DEF SwitchFile, minute, RecordTaskInv, MuxerOfMinute
    <3>4. p # clock
      BY <3>3
    <3> QED BY <3>2, <3>4, <1>1 DEF Minutes
  <2> QED BY <2>2, <2>3, <2>4, <1>6
<1> QED BY <1>7, <1>8, <1>9, <1>10, <1>11, <1>12 DEF RecordTaskInv

\* A frame goes to the file that is open, or to none.
LEMMA ContinueStep ==
  ASSUME RecordTaskInv, NEW idr \in BOOLEAN, NEW lost \in 0 .. 1, NEW io \in Outcome,
         Receive(idr, lost, io), enabled, ~SwitchFile(idr)
  PROVE  RecordTaskInv'
<1> DEFINE frame == [id |-> stream + lost + 1, idr |-> idr, minute |-> clock]
           w == Written(files, current_muxer, frame, io.write)
<1>1. /\ io.write \in BOOLEAN /\ files \in [Minutes -> File] /\ stream \in Nat
      /\ current_muxer \in Minutes \cup {NoMuxer} /\ NoMuxer \notin Minutes
  BY RecordConstants DEF Outcome, RecordTaskInv, TypeOK, File, Minutes
<1>2. /\ files' = w /\ stream' = stream + lost + 1 /\ stream + lost + 1 <= MaxFrames
      /\ lostIds' = lostIds \cup (stream + 1 .. stream + lost)
      /\ UNCHANGED <<clock, enabled, task, wentBack>> /\ status = "running"
  BY DEF Receive, Disabled, Record, RecordTaskInv, TypeOK, task
<1>3. /\ frame \in Frame /\ stream' \in 0 .. MaxFrames
      /\ lostIds \subseteq lostIds' /\ lostIds' \subseteq 1 .. stream'
      /\ stream + 1 .. frame.id - 1 \subseteq lostIds'
      /\ frame.idr = idr /\ frame.minute = clock /\ frame.id = stream'
  BY <1>2, FrameFacts DEF RecordTaskInv
<1> HIDE DEF frame
<1>4. CASE current_muxer = NoMuxer
  <2>1. files' = files
    BY <1>2, <1>4 DEF Written
  <2>2. TypeOK'
    BY <2>1, <1>2, <1>3 DEF RecordTaskInv, TypeOK, task
  <2>3. OneOpenFile' /\ AllKeys' /\ MuxerOfMinute' /\ DownHasNoMuxer' /\ SealedBefore'
    BY <2>1, <1>2 DEF RecordTaskInv, OneOpenFile, AllKeys, KeysOf, MuxerOfMinute, DownHasNoMuxer,
                      SealedBefore, task
  <2>4. AllPlay'
    BY <2>1, <1>3, PlaysOn DEF RecordTaskInv, AllPlay
  <2>5. OpenContinues'
    BY <1>2, <1>4 DEF OpenContinues, task
  <2> QED BY <2>2, <2>3, <2>4, <2>5 DEF RecordTaskInv
<1>5. CASE current_muxer # NoMuxer
  <2> DEFINE p == current_muxer
  <2>1. p \in Minutes /\ files[p].state = "open"
    BY <1>1, <1>5 DEF RecordTaskInv, OneOpenFile
  <2>2. files[p].hurt \/ Continues(files[p].frames, stream, lostIds)
    BY <1>5 DEF RecordTaskInv, OpenContinues
  <2>3. files[p].frames = << >> => files[p].hurt
    BY <2>2 DEF Continues
  <2>4. frame.idr => frame.minute % MinutesPerHour = p % MinutesPerHour
    BY <1>3, <1>5 DEF SwitchFile, minute, RecordTaskInv, MuxerOfMinute
  <2>5. (files[p].hurt \/ Plays(files[p].frames, lostIds)) /\ KeysOf(files[p].frames, p)
    BY <2>1 DEF RecordTaskInv, AllPlay, AllKeys
  <2>6. /\ w \in [Minutes -> File]
        /\ \A q \in Minutes : q # p => w[q] = files[q]
        /\ w[p].state = "open" /\ w[p].end = files[p].end
        /\ w[p].hurt \/ (/\ Plays(w[p].frames, lostIds')
                         /\ Continues(w[p].frames, frame.id, lostIds'))
        /\ KeysOf(w[p].frames, p)
    <3>1. Writable(files, p, frame, stream, lostIds, lostIds')
      BY <2>1, <2>2, <2>3, <2>4, <2>5, <1>1, <1>3 DEF Writable
    <3>2. WrittenTo(w, files, p, frame.id, lostIds')
      BY <3>1, <1>1, WrittenFile
    <3> QED BY <3>2, <2>1 DEF WrittenTo
  <2>7. current_muxer' = p /\ current_minute' = current_minute /\ status' = status
    BY <1>2 DEF task
  <2> HIDE DEF w, p
  <2>8. TypeOK'
    BY <2>6, <2>7, <1>2, <1>3 DEF RecordTaskInv, TypeOK, File, p
  <2>9. OneOpenFile'
    BY <2>1, <2>6, <2>7, <1>2 DEF RecordTaskInv, OneOpenFile, p
  <2>10. AllPlay'
    BY <2>6, <1>2, <1>3, PlaysOn DEF RecordTaskInv, AllPlay
  <2>11. AllKeys'
    BY <2>6, <1>2 DEF RecordTaskInv, AllKeys, KeysOf
  <2>12. MuxerOfMinute' /\ DownHasNoMuxer'
    BY <2>7, <1>2 DEF RecordTaskInv, MuxerOfMinute, DownHasNoMuxer, p
  <2>13. OpenContinues'
    BY <2>6, <2>7, <1>2, <1>3 DEF OpenContinues
  <2>14. SealedBefore'
    BY <2>1, <2>6, <1>2 DEF RecordTaskInv, SealedBefore
  <2> QED BY <2>8, <2>9, <2>10, <2>11, <2>12, <2>13, <2>14 DEF RecordTaskInv
<1> QED BY <1>4, <1>5

\* The task ends, or the power: the file is dropped without finish.
LEMMA DroppedStep ==
  ASSUME RecordTaskInv, NEW why \in {"shutdown", "power"}, NEW new \in {"stopped", "down"},
         status' = new, files' = Dropped(why), current_muxer' = NoMuxer,
         UNCHANGED <<clock, enabled, current_minute, env, wentBack>>
  PROVE  RecordTaskInv'
<1> DEFINE g == Finished(files, FALSE, why)
<1>1. /\ g \in [Minutes -> File]
      /\ \A p \in Minutes :
           /\ g[p].frames = files[p].frames /\ g[p].hurt = files[p].hurt
           /\ g[p].state # "open"
           /\ p # current_muxer => g[p] = files[p]
           /\ p = current_muxer => g[p].state = "broken"
  <2>1. FALSE \in BOOLEAN /\ why \in {"disabled", "rotated", "shutdown", "power"}
    OBVIOUS
  <2>2. /\ g \in [Minutes -> File]
        /\ \A p \in Minutes :
             /\ g[p].frames = files[p].frames /\ g[p].hurt = files[p].hurt
             /\ g[p].state # "open"
             /\ p # current_muxer => g[p] = files[p]
             /\ p = current_muxer => /\ g[p].state = (IF FALSE THEN "sealed" ELSE "broken")
                                     /\ g[p].end = why
    BY <2>1, FinishedFiles, Zenon
  <2> QED BY <2>2, Zenon
<1>2. files' = g /\ stream' = stream /\ lostIds' = lostIds
  BY DEF Dropped, env
<1> HIDE DEF g
<1>3. NoMuxer \notin Minutes
  BY RecordConstants DEF Minutes
<1>4. TypeOK'
  BY <1>1, <1>2 DEF RecordTaskInv, TypeOK, File
<1>5. OneOpenFile' /\ AllPlay' /\ AllKeys'
  BY <1>1, <1>2, <1>3 DEF RecordTaskInv, OneOpenFile, AllPlay, AllKeys, KeysOf
<1>6. MuxerOfMinute' /\ DownHasNoMuxer' /\ OpenContinues'
  BY DEF MuxerOfMinute, DownHasNoMuxer, OpenContinues
<1>7. SealedBefore'
  <2>1. \A p \in Minutes : files[p].state = "open" <=> current_muxer = p
    BY DEF RecordTaskInv, OneOpenFile
  <2> QED BY <2>1, <1>1, <1>2 DEF RecordTaskInv, SealedBefore
<1> QED BY <1>4, <1>5, <1>6, <1>7 DEF RecordTaskInv

\* The switch, the clock and a restart leave the files alone.
LEMMA FilesLeft ==
  ASSUME RecordTaskInv, UNCHANGED <<files, stream, lostIds, current_muxer>>, TypeOK',
         MuxerOfMinute', DownHasNoMuxer', SealedBefore'
  PROVE  RecordTaskInv'
<1>1. OneOpenFile' /\ AllPlay' /\ AllKeys' /\ OpenContinues'
  BY DEF RecordTaskInv, OneOpenFile, AllPlay, AllKeys, KeysOf, OpenContinues
<1> QED BY <1>1 DEF RecordTaskInv

\* At the start there is no file.
LEMMA InitInv == Init => RecordTaskInv
<1> SUFFICES ASSUME Init PROVE RecordTaskInv
  OBVIOUS
<1>1. NoMuxer \notin Minutes /\ MinutesPerHour \in 1 .. 60 /\ MaxMinute \in Nat /\ MaxFrames \in Nat
  BY RecordConstants DEF Minutes
<1>2. ASSUME NEW c \in Seq(Frame), NEW d \in BOOLEAN
      PROVE  /\ [state |-> "absent", frames |-> c, hurt |-> d, end |-> "none"] \in File
             /\ [state |-> "absent", frames |-> c, hurt |-> d, end |-> "none"].frames = c
             /\ [state |-> "absent", frames |-> c, hurt |-> d, end |-> "none"].state = "absent"
  BY SMT DEF File
<1>3. << >> \in Seq(Frame)
  OBVIOUS
<1>4. Absent \in File /\ Absent.frames = << >> /\ Absent.state = "absent"
  BY <1>2, <1>3, Zenon DEF Absent
<1>5. files \in [Minutes -> File] /\ \A p \in Minutes : files[p] = Absent
  BY <1>4 DEF Init
<1>6. TypeOK
  BY <1>1, <1>5 DEF Init, TypeOK, File, Minutes
<1>7. OneOpenFile
  BY <1>1, <1>4, <1>5 DEF Init, OneOpenFile
<1>8. AllPlay /\ AllKeys
  BY <1>4, <1>5 DEF AllPlay, AllKeys, Plays, KeysOf
<1>9. MuxerOfMinute /\ DownHasNoMuxer /\ OpenContinues
  BY DEF Init, MuxerOfMinute, DownHasNoMuxer, OpenContinues
<1>10. SealedBefore
  BY <1>4, <1>5 DEF SealedBefore
<1> QED BY <1>6, <1>7, <1>8, <1>9, <1>10 DEF RecordTaskInv

\* Every step keeps the invariant.
LEMMA NextInv == RecordTaskInv /\ [Next]_vars => RecordTaskInv'
<1> SUFFICES ASSUME RecordTaskInv, [Next]_vars PROVE RecordTaskInv'
  OBVIOUS
<1>1. ASSUME NEW idr \in BOOLEAN, NEW lost \in 0 .. 1, NEW io \in Outcome,
             Receive(idr, lost, io)
      PROVE  RecordTaskInv'
  <2>1. CASE Disabled(io)
    BY <1>1, <2>1, DisabledStep
  <2>2. CASE ~Disabled(io)
    <3>1. enabled
      BY <1>1, <2>2 DEF Receive, Record
    <3>2. CASE SwitchFile(idr) /\ io.create = "ok"
      BY <1>1, <3>1, <3>2, SwitchStep
    <3>3. CASE SwitchFile(idr) /\ io.create # "ok"
      BY <1>1, <3>1, <3>3, FailedSwitchStep
    <3>4. CASE ~SwitchFile(idr)
      BY <1>1, <3>1, <3>4, ContinueStep
    <3> QED BY <3>2, <3>3, <3>4
  <2> QED BY <2>1, <2>2
<1>2. CASE SetRecord
  <2>1. /\ UNCHANGED <<files, stream, lostIds, current_muxer, clock, status, current_minute, wentBack>>
        /\ enabled' \in BOOLEAN
    BY <1>2 DEF SetRecord, task, env
  <2>2. TypeOK' /\ MuxerOfMinute' /\ DownHasNoMuxer' /\ SealedBefore'
    BY <2>1 DEF RecordTaskInv, TypeOK, MuxerOfMinute, DownHasNoMuxer, SealedBefore
  <2> QED BY <2>1, <2>2, FilesLeft
<1>3. CASE PassMinute \/ SetClock
  <2>1. /\ UNCHANGED <<files, stream, lostIds, current_muxer, enabled, status, current_minute>>
        /\ clock' \in Minutes /\ wentBack' \in BOOLEAN
        /\ ~wentBack' => ~wentBack /\ clock <= clock'
        /\ clock \in Int /\ clock' \in Int /\ Minutes \subseteq Int
    <3>1. /\ clock \in Minutes /\ wentBack \in BOOLEAN /\ MaxMinute \in Nat
      BY RecordConstants DEF RecordTaskInv, TypeOK
    <3>2. CASE PassMinute
      BY <3>1, <3>2 DEF PassMinute, task, env, Minutes
    <3>3. CASE SetClock
      <4>1. /\ UNCHANGED <<files, stream, lostIds, current_muxer, enabled, status, current_minute>>
            /\ clock' \in Minutes /\ wentBack' = (wentBack \/ clock' < clock)
        BY <3>3 DEF SetClock, task, env
      <4>2. wentBack' \in BOOLEAN /\ (~wentBack' => ~wentBack /\ ~(clock' < clock))
        BY <4>1, Zenon
      <4> QED BY <3>1, <4>1, <4>2 DEF Minutes
    <3> QED BY <1>3, <3>2, <3>3
  <2>2. TypeOK' /\ MuxerOfMinute' /\ DownHasNoMuxer'
    BY <2>1 DEF RecordTaskInv, TypeOK, MuxerOfMinute, DownHasNoMuxer
  <2>3. SealedBefore'
    <3>1. SUFFICES ASSUME ~wentBack', NEW p \in Minutes
                   PROVE  /\ files[p].state # "absent" => p <= clock'
                          /\ files[p].state = "sealed" /\ files[p].end # "disabled" => p < clock'
      BY <2>1 DEF SealedBefore
    <3>2. /\ files[p].state # "absent" => p <= clock
          /\ files[p].state = "sealed" /\ files[p].end # "disabled" => p < clock
      BY <3>1, <2>1 DEF RecordTaskInv, SealedBefore
    <3> QED BY <3>2, <3>1, <2>1
  <2> QED BY <2>1, <2>2, <2>3, FilesLeft
<1>4. CASE Stop
  BY <1>4, DroppedStep DEF Stop
<1>5. CASE PowerLoss
  BY <1>5, DroppedStep DEF PowerLoss
<1>6. CASE Restart
  <2>1. /\ UNCHANGED <<files, stream, lostIds, current_muxer, clock, wentBack>>
        /\ enabled' \in BOOLEAN /\ status' = "running" /\ current_minute' = NoMinute
        /\ current_muxer = NoMuxer
    BY <1>6 DEF Restart, env, RecordTaskInv, DownHasNoMuxer
  <2>2. TypeOK' /\ MuxerOfMinute' /\ DownHasNoMuxer' /\ SealedBefore'
    BY <2>1 DEF RecordTaskInv, TypeOK, MuxerOfMinute, DownHasNoMuxer, SealedBefore
  <2> QED BY <2>1, <2>2, FilesLeft
<1>7. CASE UNCHANGED vars
  <2>1. /\ UNCHANGED <<files, stream, lostIds, current_muxer, clock, enabled, status,
                       current_minute, wentBack>>
    BY <1>7 DEF vars, task, env
  <2>2. TypeOK' /\ MuxerOfMinute' /\ DownHasNoMuxer' /\ SealedBefore'
    BY <2>1 DEF RecordTaskInv, TypeOK, MuxerOfMinute, DownHasNoMuxer, SealedBefore
  <2> QED BY <2>1, <2>2, FilesLeft
<1> QED BY <1>1, <1>2, <1>3, <1>4, <1>5, <1>6, <1>7 DEF Next

\* A step changes a sealed file only at the path it creates.
LEMMA SealedStep ==
  ASSUME RecordTaskInv, Next, NEW p \in Minutes,
         files[p].state = "sealed", files'[p] # files[p]
  PROVE  files[p].end = "disabled" \/ wentBack
<1>1. p # current_muxer /\ current_muxer \in Minutes \cup {NoMuxer} /\ NoMuxer \notin Minutes
  BY RecordConstants DEF RecordTaskInv, OneOpenFile, TypeOK, Minutes
<1>2. ASSUME NEW ok \in BOOLEAN, NEW why \in {"disabled", "rotated", "shutdown", "power"}
      PROVE  /\ Finished(files, ok, why) \in [Minutes -> File]
             /\ Finished(files, ok, why)[p] = files[p]
  BY <1>1, FinishedFiles
<1>3. ASSUME NEW fs \in [Minutes -> File], NEW q, q # p, NEW frame, NEW ok \in BOOLEAN
      PROVE  Written(fs, q, frame, ok)[p] = fs[p]
  BY <1>3 DEF Written
<1>4. ASSUME NEW idr \in BOOLEAN, NEW lost \in 0 .. 1, NEW io \in Outcome,
             Receive(idr, lost, io)
      PROVE  p = clock
  <2> DEFINE frame == [id |-> stream + lost + 1, idr |-> idr, minute |-> clock]
  <2>1. SUFFICES ASSUME p # clock PROVE files'[p] = files[p]
    OBVIOUS
  <2>2. /\ io.finish \in BOOLEAN /\ io.write \in BOOLEAN /\ io.create \in {"ok", "file", "muxer"}
        /\ files \in [Minutes -> File]
    BY DEF Outcome, RecordTaskInv, TypeOK, File
  <2>3. Disabled(io) \/ Record(frame, io)
    BY <1>4 DEF Receive
  <2> HIDE DEF frame
  <2>4. CASE Disabled(io)
    BY <2>4, <2>2, <1>2 DEF Disabled
  <2>5. CASE Record(frame, io)
    <3>1. CASE files' = Written(Switched(io), MuxerAfter(io), frame, io.write)
      <4>1. Switched(io) \in [Minutes -> File] /\ Switched(io)[p] = files[p]
        <5> DEFINE g == Finished(files, io.finish, "rotated")
                   bad == [Empty EXCEPT !.state = "broken", !.end = "error"]
        <5>1. g \in [Minutes -> File] /\ g[p] = files[p]
          BY <1>2, <2>2
        <5>2. Empty \in File /\ bad \in File
          BY EmptyFile DEF File
        <5> HIDE DEF g, bad
        <5>3. Switched(io) \in {g, [g EXCEPT ![clock] = Empty], [g EXCEPT ![clock] = bad]}
          BY <2>2 DEF Switched, Path, g, bad
        <5> QED BY <5>1, <5>2, <5>3, <2>1
      <4>2. MuxerAfter(io) # p
        BY <1>1, <2>1 DEF MuxerAfter, Path
      <4> QED BY <3>1, <4>1, <4>2, <2>2, <1>3
    <3>2. CASE files' = Written(files, current_muxer, frame, io.write)
      BY <3>2, <1>1, <2>2, <1>3
    <3> QED BY <2>5, <3>1, <3>2 DEF Record
  <2> QED BY <2>3, <2>4, <2>5
<1>5. Stop \/ PowerLoss => files'[p] = files[p]
  BY <1>2 DEF Stop, PowerLoss, Dropped
<1>6. SetRecord \/ PassMinute \/ SetClock \/ Restart => files' = files
  BY DEF SetRecord, PassMinute, SetClock, Restart
<1>7. p = clock
  BY <1>4, <1>5, <1>6 DEF Next
<1> QED BY <1>7, RecordConstants DEF RecordTaskInv, SealedBefore, TypeOK, Minutes

-----------------------------------------------------------------------------

\* The invariant holds throughout.
THEOREM Inductive == Spec => []RecordTaskInv
<1>1. Init => RecordTaskInv
  BY InitInv
<1>2. RecordTaskInv /\ [Next]_vars => RecordTaskInv'
  BY NextInv
<1> QED BY <1>1, <1>2, PTL DEF Spec

\* Exactly one file is open while the task has a muxer, and every file can be
\* decoded from its first frame on (record.rs:14-99).
THEOREM RecordingsSound == Spec => []RecordInv
<1>1. RecordTaskInv => RecordInv
  BY DEF RecordTaskInv, RecordInv, AllPlay, Plays, Decodable
<1> QED BY <1>1, Inductive, PTL

\* A key frame is never filed under another minute of the hour (record.rs:41).
THEOREM KeyFrameInItsMinute == Spec => []IdrInItsMinute
<1>1. RecordTaskInv => IdrInItsMinute
  BY DEF RecordTaskInv, AllKeys, KeysOf, IdrInItsMinute
<1> QED BY <1>1, Inductive, PTL

\* No restart, failure or order of events overwrites a sealed recording, only
\* switching off and on within its minute, or a clock set back (record.rs:52-75).
THEOREM SealedStays == Spec => SealedOverwritten
<1> DEFINE A == \A p \in Minutes :
                  files[p].state = "sealed" /\ files'[p] # files[p] =>
                    files[p].end = "disabled" \/ wentBack
<1>1. RecordTaskInv /\ [Next]_vars => [A]_vars
  BY SealedStep
<1>2. SealedOverwritten <=> [][A]_vars
  BY DEF SealedOverwritten
<1> HIDE DEF A
<1> QED BY <1>1, <1>2, Inductive, PTL DEF Spec
=============================================================================
