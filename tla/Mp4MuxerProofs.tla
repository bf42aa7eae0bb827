--------------------------- MODULE Mp4MuxerProofs ---------------------------
(***************************************************************************)
(* The safety of the muxer for every frame size, box size and number of    *)
(* frames.  MuxerInv is inductive; it adds to the checked invariants where *)
(* the writer stands relative to the muxer's own count of bytes, which is  *)
(* the fact the code never states.                                         *)
(***************************************************************************)
EXTENDS Mp4Muxer, TLAPS, FiniteSetTheorems, SequenceTheorems,
        WellFoundedInduction

\* Nothing exists before new.
Untouched ==
  phase = "new" =>
    /\ disk = {} /\ pos = 0 /\ synced = 0 /\ safe = 0 /\ durable = 0
    /\ bytes_written = 0 /\ samples = << >> /\ calls = 0 /\ failedAt = 0

\* Samples lie in the counted payload and are named after their call.
SamplesInMdat ==
  \A i \in DOMAIN samples :
    /\ samples[i].size > 0
    /\ samples[i].frame \in 1 .. calls
    /\ samples[i].offset + samples[i].size <= mdat_start + bytes_written
    /\ failedAt = 0 => samples[i].frame = i

CallsCounted ==
  /\ failedAt <= calls
  /\ failedAt = 0 => Len(samples) = calls

\* While the file is open the writer stands at the end of the file, at or behind
\* the confirmed bytes, and exactly at the end of the counted payload until a write
\* fails.  Until finish is through, confirmed bytes are written ones.
WriterPosition ==
  /\ durable <= safe
  /\ phase \in {"open", "patched"} =>
       /\ safe <= synced
       /\ failedAt = 0 => synced <= mdat_start + bytes_written
  /\ phase = "open" =>
       /\ mdat_start <= synced /\ synced <= pos
       /\ failedAt = 0 => pos = mdat_start + bytes_written
       /\ \A e \in disk : e.at + e.len <= pos

\* No frame has two extents, and none belongs to a call to come.
OneExtentPerFrame ==
  \A d, e \in disk :
    /\ e.frame <= calls
    /\ d.frame = e.frame /\ e.frame # 0 => d = e

FinishOrder ==
  /\ phase \in {"patched", "sealed"} => largesize = HeaderSize + bytes_written
  /\ phase = "sealed" =>
       /\ Extent(mdat_start + bytes_written, MoovSize, 0) \in disk
       /\ moov = build_moov

MuxerInv ==
  /\ TypeOK
  /\ Untouched
  /\ SamplesInMdat
  /\ CallsCounted
  /\ WriterPosition
  /\ OneExtentPerFrame
  /\ FinishOrder
  /\ SamplesTile
  /\ ConfirmedKept

-----------------------------------------------------------------------------
(* Lemmas about the operators *)

\* A frame has at least one byte in the file.
LEMMA FrameSizePositive ==
  ASSUME NEW f \in Frames
  PROVE  frame_size(f) \in Nat /\ frame_size(f) > 0
<1>1. f.nals \in Nat \ {0} /\ f.bytes \in Nat \ {0}
  BY MuxerConstants DEF FrameShape
<1>2. PrefixSize * f.nals \in Nat
  BY <1>1, MuxerConstants
<1> QED BY <1>1, <1>2 DEF frame_size

LEMMA MdatStartNat == mdat_start \in Nat
BY MuxerConstants DEF mdat_start

\* What the invariant says of one sample, in numbers.
LEMMA SampleFacts ==
  ASSUME MuxerInv
  PROVE  /\ Len(samples) \in Nat /\ DOMAIN samples = 1 .. Len(samples)
         /\ \A i \in 1 .. Len(samples) :
              /\ samples[i] \in Sample
              /\ samples[i].offset \in Nat /\ samples[i].size \in Nat
              /\ samples[i].frame \in Nat
              /\ samples[i].size > 0
              /\ 1 <= samples[i].frame /\ samples[i].frame <= calls
              /\ samples[i].offset + samples[i].size <= mdat_start + bytes_written
              /\ failedAt = 0 => samples[i].frame = i
<1>1. samples \in Seq(Sample) /\ calls \in Nat
  BY DEF MuxerInv, TypeOK
<1>2. /\ Len(samples) \in Nat /\ DOMAIN samples = 1 .. Len(samples)
      /\ \A i \in 1 .. Len(samples) : samples[i] \in Sample
  BY <1>1
<1>3. \A x \in Sample : x.offset \in Nat /\ x.size \in Nat /\ x.frame \in Nat
  BY DEF Sample
<1> QED BY <1>1, <1>2, <1>3 DEF MuxerInv, SamplesInMdat

\* Losing the bytes from `cut` on keeps every extent that ends at or before it,
\* and what is left of the others lies where it lay.
LEMMA CutKeepsPrefix ==
  ASSUME NEW D, D \subseteq [at : Nat, len : Nat, frame : Nat], NEW cut \in Nat
  PROVE  /\ Cut(D, cut) \subseteq [at : Nat, len : Nat, frame : Nat]
         /\ \A e \in D : e.len > 0 /\ e.at + e.len <= cut => e \in Cut(D, cut)
         /\ \A e \in Cut(D, cut) : \E x \in D :
              /\ e.at = x.at /\ e.frame = x.frame /\ e.len <= x.len
              /\ e.len \in Nat /\ e.at + e.len <= cut
              /\ e.len = x.len => e = x
              /\ e = [x EXCEPT !.len = IF x.at + x.len <= cut THEN x.len
                                       ELSE cut - x.at]
<1> DEFINE Trim(x) == [x EXCEPT !.len = IF x.at + x.len <= cut THEN x.len
                                        ELSE cut - x.at]
<1>1. ASSUME NEW x \in D, x.at < cut
      PROVE  /\ Trim(x) \in [at : Nat, len : Nat, frame : Nat]
             /\ Trim(x).at = x.at /\ Trim(x).frame = x.frame
             /\ Trim(x).len <= x.len
             /\ Trim(x).at + Trim(x).len <= cut
             /\ Trim(x).len = x.len => Trim(x) = x
  BY <1>1
<1>2. ASSUME NEW x \in D, x.len > 0, x.at + x.len <= cut
      PROVE  x.at < cut /\ Trim(x) = x
  BY <1>2
<1>3. \A e : e \in Cut(D, cut) <=> \E x \in D : x.at < cut /\ e = Trim(x)
  BY DEF Cut
<1>4. Cut(D, cut) \subseteq [at : Nat, len : Nat, frame : Nat]
  <2> HIDE DEF Trim
  <2> QED BY <1>1, <1>3
<1>5. \A e \in D : e.len > 0 /\ e.at + e.len <= cut => e \in Cut(D, cut)
  <2> HIDE DEF Trim
  <2> QED BY <1>2, <1>3
<1>6. ASSUME NEW e \in Cut(D, cut)
      PROVE  \E x \in D :
               /\ e.at = x.at /\ e.frame = x.frame /\ e.len <= x.len
               /\ e.len \in Nat /\ e.at + e.len <= cut
               /\ e.len = x.len => e = x
               /\ e = Trim(x)
  <2>1. PICK x \in D : x.at < cut /\ e = Trim(x)
    BY <1>3
  <2>2. e \in [at : Nat, len : Nat, frame : Nat]
    BY <1>4
  <2>3. e.len \in Nat
    BY <2>2
  <2> HIDE DEF Trim
  <2> QED BY <2>1, <2>3, <1>1
<1> QED BY <1>4, <1>5, <1>6

\* A file cut down to one of its ends from a byte on still reaches that byte.
LEMMA EndsAfter ==
  ASSUME MuxerInv, NEW from \in Nat, NEW cut \in Ends(from)
  PROVE  cut \in Nat /\ from <= cut
<1>1. cut >= from /\ \E e \in disk : cut \in e.at .. e.at + e.len
  BY DEF Ends
<1>2. \A e \in disk : e.at \in Nat /\ e.len \in Nat
  BY DEF MuxerInv, TypeOK
<1> QED BY <1>1, <1>2

\* Two extents of one frame stay one when bytes behind `cut` are lost, and an
\* intact frame that ends at or before `cut` stays intact.
LEMMA CutKeepsFrames ==
  ASSUME MuxerInv, NEW cut \in Nat, disk' = CutAt(cut), calls' = calls
  PROVE  /\ disk' \subseteq [at : Nat, len : Nat, frame : Nat]
         /\ OneExtentPerFrame'
         /\ \A i \in DOMAIN samples :
              /\ Intact(samples[i])
              /\ samples[i].offset + samples[i].size <= cut
              /\ samples' = samples
              => Intact(samples[i])'
<1>1. /\ disk \subseteq [at : Nat, len : Nat, frame : Nat]
      /\ disk' = Cut(disk, cut)
  BY DEF MuxerInv, TypeOK, CutAt
<1> DEFINE Trim(x) == [x EXCEPT !.len = IF x.at + x.len <= cut THEN x.len
                                        ELSE cut - x.at]
<1>2. \A e \in disk' : \E x \in disk :
        e.at = x.at /\ e.frame = x.frame /\ e.len <= x.len /\ e.len \in Nat /\ e = Trim(x)
  BY <1>1, CutKeepsPrefix
<1>3. OneExtentPerFrame'
  <2> HIDE DEF Trim
  <2> QED BY <1>2 DEF MuxerInv, OneExtentPerFrame
<1> HIDE DEF Trim
<1>4. ASSUME NEW i \in DOMAIN samples, Intact(samples[i]), samples' = samples,
             samples[i].offset + samples[i].size <= cut
      PROVE  Intact(samples[i])'
  <2> DEFINE s == samples[i]
  <2>1. /\ s.offset \in Nat /\ s.size \in Nat /\ s.size > 0
        /\ s = samples'[i]
        /\ Extent(s.offset, s.size, s.frame).at = s.offset
        /\ Extent(s.offset, s.size, s.frame).len = s.size
    BY <1>4, SampleFacts DEF Extent
  <2>2. Extent(s.offset, s.size, s.frame) \in disk /\ s.offset + s.size <= cut
    BY <1>4 DEF Intact
  <2>3. \A e \in disk : e.frame # s.frame => Apart(s.offset, s.size, e)
    BY <1>4 DEF Intact
  <2> HIDE DEF s
  <2>4. Extent(s.offset, s.size, s.frame) \in disk'
    BY <2>1, <2>2, <1>1, CutKeepsPrefix
  <2>5. ASSUME NEW e \in disk', e.frame # s.frame
        PROVE  Apart(s.offset, s.size, e)
    <3>1. PICK x \in disk :
            e.at = x.at /\ e.frame = x.frame /\ e.len <= x.len /\ e.len \in Nat
      BY <1>2
    <3>2. x.at \in Nat /\ x.len \in Nat
      BY <1>1
    <3>3. Apart(s.offset, s.size, x)
      BY <3>1, <2>3, <2>5
    <3> QED BY <3>1, <3>2, <3>3, <2>1 DEF Apart
  <2>6. Intact(s)'
    BY <2>4, <2>5, <2>1 DEF Intact, s
  <2> QED BY <2>6 DEF s
<1>5. disk' \subseteq [at : Nat, len : Nat, frame : Nat]
  BY <1>1, CutKeepsPrefix
<1> QED BY <1>3, <1>4, <1>5

\* Bytes of a box behind the counted payload touch no frame.
LEMMA BoxKeepsFrames ==
  ASSUME MuxerInv, NEW len \in Nat, samples' = samples, calls' = calls,
         disk' = disk \cup {Extent(mdat_start + bytes_written, len, 0)}
  PROVE  /\ disk' \subseteq [at : Nat, len : Nat, frame : Nat]
         /\ OneExtentPerFrame'
         /\ \A i \in DOMAIN samples : Intact(samples[i]) => Intact(samples[i])'
<1> DEFINE box == Extent(mdat_start + bytes_written, len, 0)
<1>1. TypeOK /\ mdat_start \in Nat
  BY MdatStartNat DEF MuxerInv
<1>2. /\ box \in [at : Nat, len : Nat, frame : Nat]
      /\ box.at = mdat_start + bytes_written /\ box.frame = 0
  BY <1>1 DEF TypeOK, Extent
<1>3. disk' = disk \cup {box}
  OBVIOUS
<1> HIDE DEF box
<1>4. OneExtentPerFrame'
  BY <1>1, <1>2, <1>3 DEF MuxerInv, OneExtentPerFrame, TypeOK
<1>5. ASSUME NEW i \in DOMAIN samples, Intact(samples[i])
      PROVE  Intact(samples[i])'
  <2>1. Apart(samples[i].offset, samples[i].size, box)
    BY <1>2, SampleFacts DEF Apart
  <2> QED BY <2>1, <1>3, <1>5 DEF Intact
<1> QED BY <1>1, <1>2, <1>3, <1>4, <1>5 DEF TypeOK
-----------------------------------------------------------------------------
(* The invariant is inductive *)

LEMMA InitMuxerInv == Init => MuxerInv
<1> SUFFICES ASSUME Init PROVE MuxerInv
  OBVIOUS
<1> QED
  BY MdatStartNat
  DEF Init, MuxerInv, TypeOK, Untouched, SamplesInMdat, CallsCounted,
      WriterPosition, OneExtentPerFrame, FinishOrder, SamplesTile,
      ConfirmedKept, Sample

LEMMA NewKeepsInv == MuxerInv /\ New => MuxerInv'
<1> SUFFICES ASSUME MuxerInv, New PROVE MuxerInv'
  OBVIOUS
<1> USE DEF muxer, hist
<1>1. TypeOK'
  BY MuxerConstants, MdatStartNat DEF MuxerInv, TypeOK, New, Headers, Extent
<1>2. samples = << >> /\ calls = 0 /\ failedAt = 0 /\ bytes_written = 0
  BY DEF MuxerInv, Untouched, New
<1>3. OneExtentPerFrame'
  BY <1>2 DEF New, OneExtentPerFrame, Headers, Extent
<1>4. WriterPosition'
  <2>1. durable' = 0 /\ safe' = mdat_start /\ synced' = mdat_start
        /\ pos' = mdat_start /\ phase' = "open" /\ bytes_written' = 0
        /\ disk' = Headers
    BY <1>2 DEF New, MuxerInv, Untouched
  <2>2. \A e \in Headers : e.at + e.len <= mdat_start
    BY MuxerConstants DEF Headers, Extent, mdat_start
  <2> QED BY <2>1, <2>2, MdatStartNat DEF WriterPosition
<1>5. /\ phase' = "open"
      /\ UNCHANGED <<samples, calls, failedAt, bytes_written>>
  BY DEF New
<1> QED
  BY <1>1, <1>2, <1>3, <1>4, <1>5
  DEF MuxerInv, Untouched, SamplesInMdat, CallsCounted, FinishOrder,
      SamplesTile, ConfirmedKept

LEMMA NewFailsKeepsInv == MuxerInv /\ NewFails => MuxerInv'
<1> SUFFICES ASSUME MuxerInv, NewFails PROVE MuxerInv'
  OBVIOUS
<1>1. PICK cut \in 0 .. mdat_start : disk' = Cut(Headers, cut)
  BY DEF NewFails
<1>2. /\ phase' = "lost" /\ samples = << >> /\ durable = 0 /\ safe = 0
      /\ UNCHANGED <<pos, synced, largesize, moov, bytes_written, samples,
                     param_frame, calls, failedAt, safe, durable>>
  BY DEF NewFails, muxer, hist, MuxerInv, Untouched
<1>3. Headers \subseteq [at : Nat, len : Nat, frame : Nat]
      /\ \A x \in Headers : x.frame = 0
  BY MuxerConstants DEF Headers, Extent
<1>4. cut \in Nat
  BY MdatStartNat
<1>5. /\ disk' \subseteq [at : Nat, len : Nat, frame : Nat]
      /\ \A e \in disk' : e.frame = 0
  BY <1>1, <1>3, <1>4, CutKeepsPrefix
<1>6. TypeOK'
  BY <1>2, <1>5 DEF MuxerInv, TypeOK
<1>7. OneExtentPerFrame'
  BY <1>2, <1>5 DEF OneExtentPerFrame, MuxerInv, TypeOK
<1>8. WriterPosition'
  BY <1>2 DEF WriterPosition
<1> QED
  BY <1>2, <1>6, <1>7, <1>8
  DEF MuxerInv, Untouched, SamplesInMdat, CallsCounted, FinishOrder,
      SamplesTile, ConfirmedKept

LEMMA WriteKeepsInv ==
  ASSUME MuxerInv, NEW f \in Frames, WriteVideo(f)
  PROVE  MuxerInv'
<1> DEFINE n   == frame_size(f)
           new == [offset |-> mdat_start + bytes_written, size |-> n,
                   key |-> f.key, frame |-> calls + 1]
           ext == Extent(pos, n, calls + 1)
           L   == Len(samples)
<1>0. n \in Nat /\ n > 0
  BY FrameSizePositive
<1>1. /\ phase = "open" /\ phase' = "open"
      /\ disk' = disk \cup {ext}
      /\ pos' = pos + n
      /\ samples' = Append(samples, new)
      /\ bytes_written' = bytes_written + n
      /\ calls' = calls + 1
      /\ UNCHANGED <<synced, largesize, moov, failedAt, safe, durable>>
      /\ param_frame' \in {param_frame, calls + 1}
  BY DEF WriteVideo, ExtractParamSets, NewSample, n
<1> HIDE DEF n
<1>2. TypeOK /\ mdat_start \in Nat
  BY MdatStartNat DEF MuxerInv
<1>3. /\ new \in Sample
      /\ new.offset = mdat_start + bytes_written /\ new.size = n
      /\ new.frame = calls + 1
  BY <1>0, <1>2, MuxerConstants DEF TypeOK, Sample, FrameShape
<1>4. ext \in [at : Nat, len : Nat, frame : Nat]
      /\ ext.at = pos /\ ext.len = n /\ ext.frame = calls + 1
  BY <1>0, <1>2 DEF TypeOK, Extent
<1> HIDE DEF new, ext
<1>5. /\ Len(samples') = L + 1 /\ L \in Nat
      /\ DOMAIN samples' = 1 .. L + 1 /\ DOMAIN samples = 1 .. L
      /\ \A i \in 1 .. L : samples'[i] = samples[i]
      /\ samples'[L + 1] = new
  BY <1>1, <1>2, <1>3 DEF TypeOK
<1>6. TypeOK'
  BY <1>0, <1>1, <1>2, <1>3, <1>4 DEF TypeOK
<1> DEFINE Old(i) == samples[i]
<1>7. pos \in Nat /\ bytes_written \in Nat /\ calls \in Nat /\ failedAt \in Nat
      /\ synced \in Nat /\ safe \in Nat /\ durable \in Nat
  BY <1>2 DEF TypeOK
<1>8. /\ mdat_start <= synced /\ safe <= synced /\ synced <= pos
      /\ durable <= safe
      /\ failedAt = 0 => pos = mdat_start + bytes_written
      /\ failedAt = 0 => L = calls
      /\ failedAt <= calls
  BY <1>1 DEF MuxerInv, WriterPosition, CallsCounted
<1>9. Untouched' /\ FinishOrder' /\ CallsCounted'
  <2>1. Untouched' /\ FinishOrder'
    BY <1>1 DEF Untouched, FinishOrder
  <2>2. CallsCounted'
    <3>1. failedAt' = failedAt /\ calls' = calls + 1 /\ Len(samples') = L + 1
      BY <1>1, <1>5
    <3>2. failedAt <= calls + 1 /\ (failedAt = 0 => L + 1 = calls + 1)
      BY <1>7, <1>8
    <3> QED BY <3>1, <3>2 DEF CallsCounted
  <2> QED BY <2>1, <2>2
<1>10. SamplesInMdat'
  <2> SUFFICES ASSUME NEW i \in 1 .. L + 1
               PROVE  /\ samples'[i].size > 0
                      /\ samples'[i].frame \in 1 .. calls + 1
                      /\ samples'[i].offset + samples'[i].size
                            <= mdat_start + (bytes_written + n)
                      /\ failedAt = 0 => samples'[i].frame = i
    BY <1>1, <1>5 DEF SamplesInMdat
  <2>1. CASE i = L + 1
    <3>1. samples'[i] = new
      BY <2>1, <1>5
    <3>2. failedAt = 0 => calls + 1 = i
      BY <2>1, <1>8
    <3>3. calls + 1 \in 1 .. calls + 1
      BY <1>7
    <3>4. (mdat_start + bytes_written) + n <= mdat_start + (bytes_written + n)
      BY <1>0, <1>2, <1>7
    <3> QED BY <3>1, <3>2, <3>3, <3>4, <1>0, <1>3
  <2>2. CASE i \in 1 .. L
    <3>1. samples'[i] = samples[i]
      BY <2>2, <1>5
    <3>2. /\ samples[i].offset \in Nat /\ samples[i].size \in Nat
          /\ samples[i].frame \in Nat /\ samples[i].size > 0
          /\ 1 <= samples[i].frame /\ samples[i].frame <= calls
          /\ samples[i].offset + samples[i].size <= mdat_start + bytes_written
          /\ failedAt = 0 => samples[i].frame = i
      BY <2>2, SampleFacts
    <3> QED
      BY <3>1, <3>2, <1>0, <1>2, <1>7
  <2> QED BY <2>1, <2>2, <1>5
<1>11. WriterPosition'
  <2>1. \A e \in disk' : e.at + e.len <= pos + n
    <3> SUFFICES ASSUME NEW e \in disk' PROVE e.at + e.len <= pos + n
      OBVIOUS
    <3>1. CASE e = ext
      BY <3>1, <1>0, <1>4, <1>7
    <3>2. CASE e \in disk
      <4>1. e.at \in Nat /\ e.len \in Nat /\ e.at + e.len <= pos
        BY <3>2, <1>1, <1>2 DEF TypeOK, MuxerInv, WriterPosition
      <4> QED BY <4>1, <1>0, <1>7
    <3> QED BY <3>1, <3>2, <1>1
  <2> QED BY <2>1, <1>0, <1>1, <1>2, <1>7, <1>8 DEF WriterPosition
<1>12. OneExtentPerFrame'
  <2>1. \A e \in disk : e.frame \in Nat /\ e.frame <= calls
    BY <1>2 DEF MuxerInv, OneExtentPerFrame, TypeOK
  <2>2. \A d, e \in disk : d.frame = e.frame /\ e.frame # 0 => d = e
    BY DEF MuxerInv, OneExtentPerFrame
  <2>3. \A e \in disk : e.frame # ext.frame /\ e.frame <= calls + 1
    BY <2>1, <1>4, <1>7
  <2>4. ext.frame <= calls + 1
    BY <1>4, <1>7
  <2> QED BY <2>2, <2>3, <2>4, <1>1 DEF OneExtentPerFrame
<1>13. SamplesTile'
  <2>1. L = 0 => samples = << >>
    BY <1>2 DEF TypeOK
  <2>2. samples'[1].offset = mdat_start
    BY <2>1, <1>2, <1>3, <1>5, <1>7 DEF MuxerInv, SamplesTile
  <2>3. ASSUME NEW i \in 1 .. L + 1
        PROVE  samples'[i].offset + samples'[i].size =
                 IF i = L + 1 THEN mdat_start + (bytes_written + n)
                              ELSE samples'[i + 1].offset
    <3>1. CASE i = L + 1
      BY <3>1, <1>0, <1>2, <1>3, <1>5, <1>7
    <3>2. CASE i = L
      BY <3>2, <1>0, <1>2, <1>3, <1>5, <1>7 DEF MuxerInv, SamplesTile
    <3>3. CASE i < L
      <4>1. i \in 1 .. L /\ i + 1 \in 1 .. L /\ i # L
        <5>1. \A k \in Nat : k = L => i \in 1 .. k /\ i + 1 \in 1 .. k /\ i # k
          BY <3>3
        <5> QED BY <5>1, <1>5
      <4>2. samples[i].offset + samples[i].size = samples[i + 1].offset
        BY <4>1, <1>5 DEF MuxerInv, SamplesTile
      <4>3. samples'[i] = samples[i] /\ samples'[i + 1] = samples[i + 1]
        BY <4>1, <1>5
      <4>4. i # L + 1
        BY <3>3, <1>5
      <4> QED BY <4>2, <4>3, <4>4
    <3>4. i = L + 1 \/ i = L \/ i < L
      <4>1. L \in Nat
        BY <1>5
      <4> QED BY <4>1
    <3> QED BY <3>1, <3>2, <3>3, <3>4
  <2> QED BY <2>2, <2>3, <1>1, <1>5 DEF SamplesTile
<1>14. ConfirmedKept'
  <2> SUFFICES ASSUME NEW i \in 1 .. L + 1, BeforeFailure(samples[i])',
                      failedAt = 0 \/
                        samples'[i].offset + samples'[i].size <= safe
               PROVE  Intact(samples[i])'
    BY <1>1, <1>5 DEF ConfirmedKept, Held
  <2>1. CASE i = L + 1
    <3>0. samples'[i] = new
      BY <2>1, <1>5
    <3>1. failedAt = 0
      <4>1. failedAt = 0 \/ calls + 1 < failedAt
        BY <3>0, <1>1, <1>3 DEF BeforeFailure
      <4> QED BY <4>1, <1>7, <1>8
    <3>2. Extent(new.offset, new.size, new.frame) = ext
      BY <3>1, <1>3, <1>8 DEF ext
    <3>3. ASSUME NEW e \in disk', e.frame # new.frame
          PROVE  Apart(new.offset, new.size, e)
      <4>1. e \in disk
        BY <3>3, <1>1, <1>3, <1>4
      <4>2. e.at + e.len <= pos
        BY <4>1, <1>1 DEF MuxerInv, WriterPosition
      <4> QED BY <4>2, <3>1, <1>3, <1>8 DEF Apart
    <3> QED BY <3>0, <3>2, <3>3, <1>1 DEF Intact
  <2>2. CASE i \in 1 .. L
    <3> DEFINE x == samples[i]
    <3>1. samples'[i] = x
      BY <2>2, <1>5
    <3>2. /\ x.offset \in Nat /\ x.size \in Nat
          /\ x.offset + x.size <= mdat_start + bytes_written
      BY <2>2, SampleFacts
    <3>3. Intact(x)
      <4>1. BeforeFailure(x) /\ (failedAt = 0 \/ x.offset + x.size <= safe)
        BY <3>1, <1>1 DEF BeforeFailure
      <4> QED BY <4>1, <2>2, <1>1, <1>5 DEF MuxerInv, ConfirmedKept, Held
    <3>4. x.offset + x.size <= pos
      <4>1. CASE failedAt = 0
        BY <4>1, <3>2, <1>8
      <4>2. CASE x.offset + x.size <= safe
        BY <4>2, <3>2, <1>7, <1>8
      <4> QED BY <4>1, <4>2, <3>1
    <3>5. Apart(x.offset, x.size, ext)
      BY <3>4, <1>4 DEF Apart
    <3> HIDE DEF x
    <3> QED BY <3>1, <3>3, <3>5, <1>1 DEF Intact
  <2> QED BY <2>1, <2>2, <1>5
<1> QED
  BY <1>6, <1>9, <1>10, <1>11, <1>12, <1>13, <1>14 DEF MuxerInv
\* A failing write may cut unconfirmed bytes or leave part of a frame behind;
\* every extent that ends at or before `safe` is out of its reach.
LEMMA FailureKeepsInv ==
  ASSUME MuxerInv, NEW f \in Frames, WriteVideoFails(f)
  PROVE  MuxerInv'
<1> DEFINE n == frame_size(f)
<1>0. n \in Nat /\ n > 0
  BY FrameSizePositive
<1>1. /\ phase = "open"
      /\ calls' = calls + 1
      /\ failedAt' = IF failedAt = 0 THEN calls + 1 ELSE failedAt
      /\ UNCHANGED <<phase, synced, largesize, moov, bytes_written, samples, safe,
                     durable>>
      /\ param_frame' \in {param_frame, calls + 1}
  BY DEF WriteVideoFails, ExtractParamSets
<1>2. PICK cut \in synced .. pos + n - 1 :
        /\ disk' = IF cut > pos THEN disk \cup {Extent(pos, cut - pos, calls + 1)}
                                ELSE CutAt(cut)
        /\ pos' = cut
  BY DEF WriteVideoFails, n
<1> HIDE DEF n
<1>3. TypeOK /\ mdat_start \in Nat
  BY MdatStartNat DEF MuxerInv
<1>4. /\ pos \in Nat /\ bytes_written \in Nat /\ calls \in Nat
      /\ failedAt \in Nat /\ synced \in Nat /\ safe \in Nat /\ durable \in Nat
      /\ disk \subseteq [at : Nat, len : Nat, frame : Nat]
  BY <1>3 DEF TypeOK
<1>5. cut \in Nat /\ synced <= cut
  BY <1>0, <1>2, <1>4
<1>6. /\ mdat_start <= synced /\ safe <= synced /\ synced <= pos
      /\ durable <= safe
      /\ failedAt <= calls
  BY <1>1 DEF MuxerInv, WriterPosition, CallsCounted
<1> DEFINE ext == Extent(pos, cut - pos, calls + 1)
\* What the step does to the file, whichever way it fails.
<1>7. /\ disk' \subseteq [at : Nat, len : Nat, frame : Nat]
      /\ \A e \in disk : e.len > 0 /\ e.at + e.len <= safe => e \in disk'
      /\ \A e \in disk' :
           \/ e.at = pos /\ e.frame = calls + 1 /\ e.at + e.len <= cut
           \/ \E x \in disk : /\ e.at = x.at /\ e.frame = x.frame
                              /\ e.len <= x.len /\ e.at + e.len <= cut
  <2>1. CASE cut > pos
    <3>1. /\ ext \in [at : Nat, len : Nat, frame : Nat]
          /\ ext.at = pos /\ ext.len = cut - pos /\ ext.frame = calls + 1
      BY <2>1, <1>4, <1>5 DEF Extent
    <3>2. \A x \in disk : x.at \in Nat /\ x.len \in Nat /\ x.at + x.len <= pos
      BY <1>1, <1>4 DEF MuxerInv, WriterPosition
    <3>3. disk' = disk \cup {ext}
      BY <2>1, <1>2
    <3> HIDE DEF ext
    <3> QED BY <3>1, <3>2, <3>3, <2>1, <1>4, <1>5
  <2>2. CASE ~(cut > pos)
    <3>1. disk' = CutAt(cut)
      BY <2>2, <1>2
    <3>2. \A e \in CutAt(cut) : e.at + e.len <= cut
      BY <1>4, <1>5, CutKeepsPrefix DEF CutAt
    <3>3. \A e \in disk : e.len > 0 /\ e.at + e.len <= safe => e.at + e.len <= cut
      BY <1>4, <1>5, <1>6
    <3> QED BY <3>1, <3>2, <3>3, <1>4, <1>5, CutKeepsPrefix DEF CutAt
  <2> QED BY <2>1, <2>2
<1>8. TypeOK'
  BY <1>1, <1>2, <1>3, <1>4, <1>5, <1>7 DEF TypeOK
<1>9. Untouched' /\ FinishOrder'
  BY <1>1 DEF Untouched, FinishOrder
<1>10. CallsCounted'
  BY <1>1, <1>4, <1>6 DEF CallsCounted
<1>11. failedAt' # 0 /\ SamplesInMdat'
  <2>1. failedAt' # 0
    BY <1>1, <1>4
  <2>2. \A k \in Nat : 1 <= k /\ k <= calls => k \in 1 .. calls + 1
    BY <1>4
  <2> QED BY <2>1, <2>2, <1>1, SampleFacts DEF SamplesInMdat
<1>12. WriterPosition'
  <2>1. \A e \in disk' : e.at + e.len <= cut
    BY <1>7
  <2> QED BY <2>1, <1>1, <1>2, <1>5, <1>6, <1>11 DEF WriterPosition
<1>13. OneExtentPerFrame'
  <2>1. CASE cut > pos
    <3>1. ext.frame = calls + 1 /\ disk' = disk \cup {ext}
      BY <2>1, <1>2 DEF Extent
    <3> HIDE DEF ext
    <3> QED BY <3>1, <1>1, <1>4 DEF MuxerInv, OneExtentPerFrame
  <2>2. CASE ~(cut > pos)
    <3> DEFINE Trim(x) == [x EXCEPT !.len = IF x.at + x.len <= cut THEN x.len
                                            ELSE cut - x.at]
    <3>1. ASSUME NEW e \in disk'
          PROVE  \E x \in disk : e = Trim(x) /\ e.frame = x.frame
      BY <3>1, <2>2, <1>2, <1>4, <1>5, CutKeepsPrefix DEF CutAt
    <3> HIDE DEF Trim
    <3> QED BY <3>1, <1>1, <1>4 DEF MuxerInv, OneExtentPerFrame
  <2> QED BY <2>1, <2>2
<1>14. SamplesTile'
  BY <1>1 DEF MuxerInv, SamplesTile
<1>15. ConfirmedKept'
  <2> SUFFICES ASSUME NEW i \in DOMAIN samples, BeforeFailure(samples[i])',
                      samples[i].offset + samples[i].size <= safe
               PROVE  Intact(samples[i])'
    BY <1>1, <1>11 DEF ConfirmedKept, Held
  <2> DEFINE s == samples[i]
  <2>1. /\ s.offset \in Nat /\ s.size \in Nat /\ s.size > 0
        /\ s.frame \in Nat /\ s.frame <= calls
    BY SampleFacts
  <2>2. Intact(s)
    <3>1. BeforeFailure(s)
      BY <1>1, <1>11, <2>1 DEF BeforeFailure
    <3> QED BY <3>1, <1>1 DEF MuxerInv, ConfirmedKept, Held
  <2>3. samples'[i] = s
    BY <1>1
  <2> HIDE DEF s
  <2>4. Extent(s.offset, s.size, s.frame) \in disk'
    <3>1. /\ Extent(s.offset, s.size, s.frame) \in disk
          /\ Extent(s.offset, s.size, s.frame).len = s.size
          /\ Extent(s.offset, s.size, s.frame).at = s.offset
      BY <2>2 DEF Intact, Extent
    <3>2. s.offset + s.size <= safe
      BY DEF s
    <3> QED BY <3>1, <3>2, <2>1, <1>7
  <2>5. ASSUME NEW e \in disk', e.frame # s.frame
        PROVE  Apart(s.offset, s.size, e)
    <3>1. CASE e.at = pos
      <4>1. s.offset + s.size <= pos
        <5>1. s.offset + s.size <= safe
          BY DEF s
        <5> QED BY <5>1, <2>1, <1>4, <1>6
      <4> QED BY <4>1, <3>1 DEF Apart
    <3>2. CASE \E x \in disk : e.at = x.at /\ e.frame = x.frame /\ e.len <= x.len
      <4>1. PICK x \in disk : e.at = x.at /\ e.frame = x.frame /\ e.len <= x.len
        BY <3>2
      <4>2. x.at \in Nat /\ x.len \in Nat /\ e.len \in Nat
        BY <1>4, <1>7
      <4>3. Apart(s.offset, s.size, x)
        BY <2>2, <2>5, <4>1 DEF Intact
      <4> QED BY <4>1, <4>2, <4>3, <2>1 DEF Apart
    <3> QED BY <3>1, <3>2, <1>7
  <2> QED BY <2>3, <2>4, <2>5 DEF Intact
<1> QED
  BY <1>8, <1>9, <1>10, <1>11, <1>12, <1>13, <1>14, <1>15 DEF MuxerInv
\* Confirming bytes changes neither the file nor the table; without a failure
\* ConfirmedKept already speaks of every sample.
LEMMA SyncKeepsInv ==
  ASSUME MuxerInv, Sync
  PROVE  MuxerInv'
<1>1. /\ phase = "open" /\ synced < pos /\ synced' = pos
      /\ safe' = IF failedAt = 0 THEN pos ELSE safe
      /\ UNCHANGED <<phase, disk, pos, largesize, moov, bytes_written, samples,
                     param_frame, calls, failedAt, durable>>
  BY DEF Sync, Confirm, muxer
<1>2. TypeOK /\ mdat_start \in Nat
  BY MdatStartNat DEF MuxerInv
<1>3. TypeOK'
  BY <1>1, <1>2 DEF TypeOK
<1>4. WriterPosition'
  BY <1>1, <1>2 DEF MuxerInv, WriterPosition, TypeOK
<1>5. ConfirmedKept'
  BY <1>1 DEF MuxerInv, ConfirmedKept, Held, BeforeFailure, Intact
<1> QED
  BY <1>1, <1>3, <1>4, <1>5
  DEF MuxerInv, Untouched, SamplesInMdat, CallsCounted, OneExtentPerFrame,
      FinishOrder, SamplesTile

LEMMA WriteBackKeepsInv ==
  ASSUME MuxerInv, WriteBack
  PROVE  MuxerInv'
<1>1. /\ phase # "off" /\ durable < safe /\ durable' = safe
      /\ UNCHANGED <<phase, disk, pos, synced, largesize, moov, bytes_written,
                     samples, param_frame, calls, failedAt, safe>>
  BY DEF WriteBack, muxer, file
<1>2. TypeOK' /\ phase # "new"
  BY <1>1 DEF MuxerInv, TypeOK, Untouched
<1>3. WriterPosition'
  BY <1>1 DEF MuxerInv, WriterPosition, TypeOK
<1>4. ConfirmedKept'
  BY <1>1 DEF MuxerInv, ConfirmedKept, Held, BeforeFailure, Intact
<1> QED
  BY <1>1, <1>2, <1>3, <1>4
  DEF MuxerInv, Untouched, SamplesInMdat, CallsCounted, OneExtentPerFrame,
      FinishOrder, SamplesTile, build_moov, ChunkOffset

LEMMA FinishHeaderKeepsInv ==
  ASSUME MuxerInv, FinishHeader
  PROVE  MuxerInv'
<1>1. /\ phase = "open" /\ phase' = "patched"
      /\ largesize' = HeaderSize + bytes_written /\ pos' = mdat_start
      /\ UNCHANGED <<disk, synced, moov, bytes_written, samples, param_frame,
                     calls, failedAt, safe, durable>>
  BY DEF FinishHeader, mdat_total, muxer, hist
<1>2. TypeOK /\ mdat_start \in Nat
  BY MdatStartNat DEF MuxerInv
<1>3. TypeOK'
  BY <1>1, <1>2, MuxerConstants DEF TypeOK
<1>4. ConfirmedKept'
  BY <1>1 DEF MuxerInv, ConfirmedKept, Held, BeforeFailure, Intact
<1> QED
  BY <1>1, <1>3, <1>4
  DEF MuxerInv, Untouched, SamplesInMdat, CallsCounted, OneExtentPerFrame,
      WriterPosition, FinishOrder, SamplesTile

\* moov is written behind the counted payload, hence behind every sample.
LEMMA FinishMoovKeepsInv ==
  ASSUME MuxerInv, FinishMoov
  PROVE  MuxerInv' /\ safe <= safe'
<1> DEFINE box == Extent(mdat_start + bytes_written, MoovSize, 0)
<1>1. /\ phase = "patched" /\ phase' = "sealed"
      /\ disk' = disk \cup {box}
      /\ pos' = mdat_start + bytes_written + MoovSize
      /\ synced' = mdat_start + bytes_written + MoovSize
      /\ moov' = build_moov
      /\ safe' = IF failedAt = 0 THEN mdat_start + bytes_written + MoovSize ELSE safe
      /\ UNCHANGED <<largesize, bytes_written, samples, param_frame,
                     calls, failedAt, durable>>
  BY DEF FinishMoov, Confirm, moov_pos, muxer
<1>2. TypeOK /\ mdat_start \in Nat
  BY MdatStartNat DEF MuxerInv
<1>3. /\ disk' \subseteq [at : Nat, len : Nat, frame : Nat]
      /\ OneExtentPerFrame'
      /\ \A i \in DOMAIN samples : Intact(samples[i]) => Intact(samples[i])'
  BY <1>1, MuxerConstants, BoxKeepsFrames
<1>4. build_moov \in Seq([offset : Nat, size : Nat, sync : BOOLEAN])
  <2>1. \A i \in 1 .. Len(samples) :
          /\ ChunkOffset(samples[i]) \in Nat
          /\ samples[i].size \in Nat /\ samples[i].key \in BOOLEAN
    BY SampleFacts, MuxerConstants DEF ChunkOffset, Sample
  <2> QED BY <2>1, SampleFacts DEF build_moov
<1>5. TypeOK'
  BY <1>1, <1>2, <1>3, <1>4, MuxerConstants DEF TypeOK
<1>6. FinishOrder'
  BY <1>1 DEF MuxerInv, FinishOrder, build_moov, ChunkOffset
<1> HIDE DEF box
<1>7. safe <= safe' /\ WriterPosition'
  <2>1. /\ safe \in Nat /\ durable \in Nat /\ synced \in Nat /\ bytes_written \in Nat
        /\ durable <= safe /\ safe <= synced
        /\ failedAt = 0 => synced <= mdat_start + bytes_written
    BY <1>1, <1>2 DEF TypeOK, MuxerInv, WriterPosition
  <2>2. safe <= safe'
    BY <2>1, <1>1, <1>2, MuxerConstants
  <2>3. safe' \in Nat /\ durable <= safe'
    BY <2>1, <2>2, <1>5 DEF TypeOK
  <2> QED BY <2>2, <2>3, <1>1 DEF WriterPosition
<1>8. ConfirmedKept'
  <2> SUFFICES ASSUME NEW i \in DOMAIN samples, BeforeFailure(samples[i]),
                      failedAt = 0 \/
                        samples[i].offset + samples[i].size <= safe
               PROVE  Intact(samples[i])'
    BY <1>1 DEF ConfirmedKept, Held, BeforeFailure
  <2>1. Intact(samples[i])
    BY <1>1 DEF MuxerInv, ConfirmedKept, Held
  <2> QED BY <2>1, <1>3
<1> QED
  BY <1>1, <1>3, <1>5, <1>6, <1>7, <1>8
  DEF MuxerInv, Untouched, SamplesInMdat, CallsCounted, SamplesTile

\* What leaves the table alone keeps the invariant when the extents stay in order,
\* the file has left "open" and the frames it holds to are intact.
LEMMA EndKeepsInv ==
  ASSUME MuxerInv, phase # "new", phase' \in {"lost", "off"}, largesize' \in Nat,
         UNCHANGED <<pos, synced, moov, muxer, hist>>,
         disk' \subseteq [at : Nat, len : Nat, frame : Nat], OneExtentPerFrame',
         \A i \in DOMAIN samples :
           /\ BeforeFailure(samples[i])
           /\ samples[i].offset + samples[i].size <= Held'
           => Intact(samples[i])'
  PROVE  MuxerInv'
<1>1. /\ UNCHANGED <<bytes_written, samples, param_frame>>
      /\ UNCHANGED <<calls, failedAt, safe, durable>>
  BY DEF muxer, hist
<1>2. TypeOK'
  BY <1>1 DEF MuxerInv, TypeOK
<1>3. WriterPosition'
  BY <1>1 DEF MuxerInv, WriterPosition
<1>4. ConfirmedKept'
  BY <1>1 DEF ConfirmedKept, BeforeFailure
<1> QED
  BY <1>1, <1>2, <1>3, <1>4
  DEF MuxerInv, Untouched, SamplesInMdat, CallsCounted, FinishOrder, SamplesTile

LEMMA AbandonKeepsInv ==
  ASSUME MuxerInv, Abandon
  PROVE  MuxerInv'
<1>1. PICK cut \in Ends(synced) : disk' = CutAt(cut)
  BY DEF Abandon
<1>2. /\ phase = "open" /\ phase' = "lost" /\ largesize' = largesize
      /\ UNCHANGED <<pos, synced, moov, muxer, hist>>
  BY DEF Abandon
<1>3. /\ synced \in Nat /\ safe \in Nat /\ safe <= synced
      /\ largesize \in Nat
  BY <1>2 DEF MuxerInv, TypeOK, WriterPosition
<1>4. cut \in Nat /\ synced <= cut
  BY <1>3, EndsAfter
<1>5. ASSUME NEW i \in DOMAIN samples, BeforeFailure(samples[i]),
             samples[i].offset + samples[i].size <= Held'
      PROVE  Intact(samples[i])'
  <2>1. samples[i].offset + samples[i].size <= safe
    BY <1>2, <1>5 DEF Held, hist
  <2>2. samples[i].offset + samples[i].size <= cut
    BY <2>1, <1>3, <1>4, SampleFacts
  <2>3. Intact(samples[i])
    BY <2>1, <1>2, <1>5 DEF MuxerInv, ConfirmedKept, Held
  <2> QED BY <2>2, <2>3, <1>1, <1>2, <1>4, CutKeepsFrames DEF muxer, hist
<1> QED
  BY <1>1, <1>2, <1>3, <1>4, <1>5, CutKeepsFrames, EndKeepsInv DEF hist

LEMMA FinishFailsKeepsInv ==
  ASSUME MuxerInv, FinishFails
  PROVE  MuxerInv'
<1>1. /\ phase = "patched" /\ phase' = "lost"
      /\ UNCHANGED <<pos, synced, moov, muxer, hist>>
  BY DEF FinishFails
<1>2. /\ synced \in Nat /\ safe \in Nat /\ safe <= synced
      /\ largesize \in Nat
  BY <1>1 DEF MuxerInv, TypeOK, WriterPosition
<1>3. CASE largesize' \in {0, largesize} /\ \E cut \in Ends(synced) : disk' = CutAt(cut)
  <2>1. PICK cut \in Ends(synced) : disk' = CutAt(cut)
    BY <1>3
  <2>2. cut \in Nat /\ synced <= cut
    BY <1>2, EndsAfter
  <2>3. ASSUME NEW i \in DOMAIN samples, BeforeFailure(samples[i]),
               samples[i].offset + samples[i].size <= Held'
        PROVE  Intact(samples[i])'
    <3>1. samples[i].offset + samples[i].size <= safe
      BY <1>1, <2>3 DEF Held, hist
    <3>2. samples[i].offset + samples[i].size <= cut
      BY <3>1, <1>2, <2>2, SampleFacts
    <3>3. Intact(samples[i])
      BY <3>1, <1>1, <2>3 DEF MuxerInv, ConfirmedKept, Held
    <3> QED BY <3>2, <3>3, <1>1, <2>1, <2>2, CutKeepsFrames DEF muxer, hist
  <2>4. largesize' \in Nat
    BY <1>2, <1>3
  <2> QED
    BY <1>1, <2>1, <2>2, <2>3, <2>4, CutKeepsFrames, EndKeepsInv DEF hist
<1>4. CASE /\ \E len \in 1 .. MoovSize : disk' = disk \cup {Extent(moov_pos, len, 0)}
           /\ UNCHANGED largesize
  <2>1. PICK len \in 1 .. MoovSize :
          disk' = disk \cup {Extent(mdat_start + bytes_written, len, 0)}
    BY <1>4 DEF moov_pos
  <2>2. len \in Nat
    BY MuxerConstants
  <2>3. /\ disk' \subseteq [at : Nat, len : Nat, frame : Nat]
        /\ OneExtentPerFrame'
        /\ \A i \in DOMAIN samples : Intact(samples[i]) => Intact(samples[i])'
    BY <2>1, <2>2, <1>1, BoxKeepsFrames DEF muxer, hist
  <2>4. ASSUME NEW i \in DOMAIN samples, BeforeFailure(samples[i]),
               samples[i].offset + samples[i].size <= Held'
        PROVE  Intact(samples[i])'
    <3>1. samples[i].offset + samples[i].size <= safe
      BY <1>1, <2>4 DEF Held, hist
    <3>2. Intact(samples[i])
      BY <3>1, <1>1, <2>4 DEF MuxerInv, ConfirmedKept, Held
    <3> QED BY <3>2, <2>3
  <2> QED BY <1>1, <1>2, <1>4, <2>3, <2>4, EndKeepsInv
<1> QED BY <1>3, <1>4 DEF FinishFails

LEMMA PowerLossKeepsInv ==
  ASSUME MuxerInv, PowerLoss
  PROVE  MuxerInv'
<1>1. PICK cut \in Ends(durable) : disk' = CutAt(cut)
  BY DEF PowerLoss
<1>2. /\ phase \notin {"new", "off"} /\ phase' = "off" /\ largesize' \in {0, largesize}
      /\ UNCHANGED <<pos, synced, moov, muxer, hist>>
  BY DEF PowerLoss
<1>3. /\ durable \in Nat /\ safe \in Nat /\ durable <= safe /\ largesize \in Nat
  BY DEF MuxerInv, TypeOK, WriterPosition
<1>4. cut \in Nat /\ durable <= cut
  BY <1>3, EndsAfter
<1>5. ASSUME NEW i \in DOMAIN samples, BeforeFailure(samples[i]),
             samples[i].offset + samples[i].size <= Held'
      PROVE  Intact(samples[i])'
  <2>1. samples[i].offset + samples[i].size <= durable
    BY <1>2, <1>5 DEF Held, hist
  <2>2. /\ samples[i].offset + samples[i].size <= cut
        /\ samples[i].offset + samples[i].size <= safe
    BY <2>1, <1>3, <1>4, SampleFacts
  <2>3. Intact(samples[i])
    BY <2>2, <1>2, <1>5 DEF MuxerInv, ConfirmedKept, Held
  <2> QED BY <2>2, <2>3, <1>1, <1>2, <1>4, CutKeepsFrames DEF muxer, hist
<1>6. largesize' \in Nat
  BY <1>2, <1>3
<1> QED
  BY <1>1, <1>2, <1>4, <1>5, <1>6, CutKeepsFrames, EndKeepsInv DEF hist

LEMMA StepKeepsInv == MuxerInv /\ [Next]_vars => MuxerInv'
<1> SUFFICES ASSUME MuxerInv, [Next]_vars PROVE MuxerInv'
  OBVIOUS
<1>1. CASE New
  BY <1>1, NewKeepsInv
<1>2. ASSUME NEW f \in Frames, WriteVideo(f) PROVE MuxerInv'
  BY <1>2, WriteKeepsInv
<1>3. ASSUME NEW f \in Frames, WriteVideoFails(f) PROVE MuxerInv'
  BY <1>3, FailureKeepsInv
<1>4. CASE Sync
  BY <1>4, SyncKeepsInv
<1>5. CASE FinishHeader
  BY <1>5, FinishHeaderKeepsInv
<1>6. CASE FinishMoov
  BY <1>6, FinishMoovKeepsInv
<1>7. CASE Abandon
  BY <1>7, AbandonKeepsInv
<1>8. CASE NewFails
  BY <1>8, NewFailsKeepsInv
<1>9. CASE WriteBack
  BY <1>9, WriteBackKeepsInv
<1>10. CASE FinishFails
  BY <1>10, FinishFailsKeepsInv
<1>11. CASE PowerLoss
  BY <1>11, PowerLossKeepsInv
<1>12. CASE UNCHANGED vars
  BY <1>12
  DEF vars, muxer, file, hist, MuxerInv, TypeOK, Untouched, SamplesInMdat,
      CallsCounted, WriterPosition, OneExtentPerFrame, FinishOrder, SamplesTile,
      ConfirmedKept, Held, BeforeFailure, Intact, build_moov, ChunkOffset
<1> QED
  BY <1>1, <1>2, <1>3, <1>4, <1>5, <1>6, <1>7, <1>8, <1>9, <1>10, <1>11, <1>12
  DEF Next

\* The strengthened invariant, for every frame and box size (muxer.rs:38-128).
THEOREM MuxerInvariant == Spec => []MuxerInv
<1>1. Init => MuxerInv
  BY InitMuxerInv
<1>2. MuxerInv /\ [Next]_vars => MuxerInv'
  BY StepKeepsInv
<1> QED BY <1>1, <1>2, PTL DEF Spec

-----------------------------------------------------------------------------
(* What it implies *)

\* Every variable keeps its type.
THEOREM TypeCorrect == Spec => []TypeOK
<1>1. MuxerInv => TypeOK
  BY DEF MuxerInv
<1> QED BY <1>1, MuxerInvariant, PTL

\* The sample table tiles the payload whatever writes fail.
THEOREM TableTilesPayload == Spec => []SamplesTile
<1>1. MuxerInv => SamplesTile
  BY DEF MuxerInv
<1> QED BY <1>1, MuxerInvariant, PTL

\* No later failure, patch or moov reaches a frame written before the first failing
\* write, nor does a finish that fails or breaks off; a power loss takes it only if
\* it was not written back.
THEOREM ConfirmedFramesKept == Spec => []ConfirmedKept
<1>1. MuxerInv => ConfirmedKept
  BY DEF MuxerInv
<1> QED BY <1>1, MuxerInvariant, PTL

\* A sealed file's boxes follow each other: mdat announces exactly the bytes up
\* to moov, and moov overlaps no sample.
THEOREM SealedFileLayout == Spec => []SealedLayout
<1>1. MuxerInv => SealedLayout
  <2> SUFFICES ASSUME MuxerInv, phase = "sealed"
               PROVE  /\ Extent(FtypSize + largesize, MoovSize, 0) \in disk
                      /\ \A i \in DOMAIN samples :
                           samples[i].offset + samples[i].size
                             <= FtypSize + largesize
    BY DEF SealedLayout
  <2>1. bytes_written \in Nat
    BY DEF MuxerInv, TypeOK
  <2>2. FtypSize + largesize = mdat_start + bytes_written
    BY <2>1, MuxerConstants DEF MuxerInv, FinishOrder, mdat_start
  <2> QED BY <2>2 DEF MuxerInv, FinishOrder, SamplesInMdat
<1> QED BY <1>1, MuxerInvariant, PTL
\* Whether finish chose stco or co64, a chunk's encoded offset is its sample's.
LEMMA ChunkOffsetExact ==
  ASSUME MuxerInv, NEW i \in 1 .. Len(samples)
  PROVE  ChunkOffset(samples[i]) = samples[i].offset
<1>1. i \in DOMAIN samples /\ samples[i].offset \in Nat
  BY SampleFacts
<1>2. CASE samples[i].offset >= OffsetLimit
  BY <1>1, <1>2 DEF ChunkOffset
<1>3. CASE samples[i].offset < OffsetLimit
  <2>1. samples[i].offset % OffsetLimit = samples[i].offset
    BY <1>1, <1>3, MuxerConstants
  <2> QED BY <2>1 DEF ChunkOffset
<1> QED BY <1>1, <1>2, <1>3, MuxerConstants

\* A recording sealed without a write error plays back all its frames in order.
THEOREM SealedFilePlaysBack == Spec => []SealedPlaysBack
<1>1. MuxerInv => SealedPlaysBack
  <2> SUFFICES ASSUME MuxerInv, phase = "sealed", failedAt = 0
               PROVE  /\ Len(moov) = calls
                      /\ \A i \in DOMAIN moov : FrameAt(moov[i]) = i
    BY DEF SealedPlaysBack
  <2>1. /\ moov = build_moov
        /\ DOMAIN moov = 1 .. Len(samples) /\ Len(samples) \in Nat
        /\ moov \in Seq([offset : Nat, size : Nat, sync : BOOLEAN])
    BY SampleFacts DEF MuxerInv, FinishOrder, build_moov, TypeOK
  <2>2. Len(moov) = calls
    BY <2>1 DEF MuxerInv, CallsCounted
  <2>3. ASSUME NEW i \in 1 .. Len(samples)
        PROVE  FrameAt(moov[i]) = i
    <3> DEFINE s    == samples[i]
               x    == Extent(s.offset, s.size, i)
               hits == {e \in disk : ~Apart(s.offset, s.size, e)}
    <3>1. /\ s.offset \in Nat /\ s.size \in Nat /\ s.size > 0
          /\ s.frame = i /\ i # 0
      BY SampleFacts
    <3>2. moov[i].offset = s.offset /\ moov[i].size = s.size
      <4>1. moov[i] = [offset |-> ChunkOffset(s), size |-> s.size, sync |-> s.key]
        BY <2>1, SampleFacts DEF build_moov
      <4> QED BY <4>1, ChunkOffsetExact
    <3>3. Intact(s)
      BY SampleFacts DEF MuxerInv, ConfirmedKept, BeforeFailure
    <3>4. x \in disk /\ x.at = s.offset /\ x.len = s.size /\ x.frame = i
      BY <3>1, <3>3 DEF Intact, Extent
    <3> HIDE DEF s, x
    <3>5. ~Apart(s.offset, s.size, x)
      BY <3>1, <3>4 DEF Apart
    <3>6. \A e \in hits : e = x
      BY <3>1, <3>3, <3>4 DEF MuxerInv, OneExtentPerFrame, Intact
    <3>7. hits = {x}
      BY <3>4, <3>5, <3>6
    <3>8. FrameAt(moov[i]) =
            IF \E e \in hits : hits = {e} /\ e.at = s.offset /\ e.len = s.size
            THEN (CHOOSE e \in hits : TRUE).frame ELSE 0
      BY <3>2 DEF FrameAt
    <3> HIDE DEF hits
    <3>9. (CHOOSE e \in hits : TRUE) = x
      BY <3>7
    <3> QED BY <3>4, <3>7, <3>8, <3>9
  <2> QED BY <2>1, <2>2, <2>3
<1> QED BY <1>1, MuxerInvariant, PTL

-----------------------------------------------------------------------------
(* The decoder configuration *)

ParamFrameSeen == param_frame <= calls

\* A key frame in the table has its parameter sets, taken from the first key
\* frame the muxer saw and never from a later one (write_video).
THEOREM DecoderConfigured == Spec => []ParamSetsKnown
<1> DEFINE Inv == ParamFrameSeen /\ ParamSetsKnown
<1>1. Init => Inv
  BY DEF Init, ParamFrameSeen, ParamSetsKnown
<1>2. MuxerInv /\ Inv /\ [Next]_vars => Inv'
  <2> SUFFICES ASSUME MuxerInv, Inv, [Next]_vars PROVE Inv'
    OBVIOUS
  <2> USE DEF muxer, file, hist
  <2>0. /\ param_frame \in Nat /\ calls \in Nat /\ samples \in Seq(Sample)
        /\ \A i \in DOMAIN samples : samples[i].frame \in 1 .. calls
    BY DEF MuxerInv, TypeOK, SamplesInMdat
  <2>1. CASE UNCHANGED <<samples, param_frame, calls>>
    BY <2>1 DEF ParamFrameSeen, ParamSetsKnown
  <2>2. ASSUME NEW f \in Frames, WriteVideo(f) PROVE Inv'
    <3>1. /\ samples' = Append(samples, NewSample(f)) /\ calls' = calls + 1
          /\ param_frame' = IF param_frame = 0 /\ f.key THEN calls + 1
                                                        ELSE param_frame
          /\ NewSample(f).key = f.key /\ NewSample(f).frame = calls + 1
      BY <2>2 DEF WriteVideo, ExtractParamSets, NewSample
    <3>2. \A i \in DOMAIN samples' :
            \/ i \in DOMAIN samples /\ samples'[i] = samples[i]
            \/ samples'[i] = NewSample(f)
      BY <2>0, <3>1, AppendProperties
    <3>3. ParamFrameSeen'
      BY <2>0, <3>1 DEF ParamFrameSeen
    <3>4. \A i \in DOMAIN samples' :
            samples'[i].key => param_frame' \in 1 .. samples'[i].frame
      <4> SUFFICES ASSUME NEW i \in DOMAIN samples', samples'[i].key
                   PROVE  param_frame' \in 1 .. samples'[i].frame
        OBVIOUS
      <4>1. CASE i \in DOMAIN samples /\ samples'[i] = samples[i]
        BY <2>0, <3>1, <4>1 DEF ParamSetsKnown
      <4>2. CASE samples'[i] = NewSample(f)
        BY <2>0, <3>1, <4>2 DEF ParamFrameSeen
      <4> QED BY <3>2, <4>1, <4>2
    <3> QED BY <3>3, <3>4 DEF ParamSetsKnown
  <2>3. ASSUME NEW f \in Frames, WriteVideoFails(f) PROVE Inv'
    <3>1. /\ samples' = samples /\ calls' = calls + 1
          /\ param_frame' = IF param_frame = 0 /\ f.key THEN calls + 1
                                                        ELSE param_frame
      BY <2>3 DEF WriteVideoFails, ExtractParamSets
    <3> QED BY <2>0, <3>1 DEF ParamFrameSeen, ParamSetsKnown
  <2> QED
    BY <2>1, <2>2, <2>3
    DEF Next, vars, New, NewFails, Sync, WriteBack, FinishHeader, FinishMoov,
        FinishFails, Abandon, PowerLoss
<1> QED BY <1>1, <1>2, MuxerInvariant, PTL DEF Spec
-----------------------------------------------------------------------------
(* Least elements and prefixes *)

\* A nonempty set of naturals has a least element.
LEMMA SmallestNat ==
  ASSUME NEW T \in SUBSET Nat, T # {}
  PROVE  \E x \in T : \A y \in T : x <= y
<1>1. PICK x \in T : \A y \in T : <<y, x>> \notin OpToRel(<, Nat)
  BY WFMin, NatLessThanWellFounded
<1>2. \A y \in T : ~(y < x)
  BY <1>1 DEF OpToRel
<1> QED BY <1>2

\* A set of indices closed towards 1 is an interval from 1.
LEMMA PrefixIsInterval ==
  ASSUME NEW L \in Nat, NEW D, \A i \in D : i \in 1 .. L,
         \A i, j \in 1 .. L : i < j /\ j \in D => i \in D
  PROVE  \E n \in 0 .. L : D = 1 .. n /\ Cardinality(D) = n
<1> DEFINE T == {i \in 1 .. L : i \notin D}
<1>0. SUFFICES \E n \in 0 .. L : D = 1 .. n
  <2>1. ASSUME NEW n \in 0 .. L, D = 1 .. n PROVE Cardinality(D) = n
    <3>1. 0 \in Int /\ 1 \in Int /\ n \in Int /\ n >= 0
      OBVIOUS
    <3>2. Cardinality(1 .. n) = IF 1 > n THEN 0 ELSE n - 1 + 1
      BY <3>1, FS_Interval
    <3> QED BY <2>1, <3>1, <3>2
  <2> QED BY <2>1
<1>1. CASE T = {}
  <2>1. \A i : i \in D <=> i \in 1 .. L
    BY <1>1
  <2>2. D = 1 .. L
    <3> HIDE DEF T
    <3> QED BY <2>1
  <2> QED BY <2>2
<1>2. CASE T # {}
  <2>1. T \in SUBSET Nat
    OBVIOUS
  <2>2. PICK x \in T : \A y \in T : x <= y
    <3> HIDE DEF T
    <3> QED BY <1>2, <2>1, SmallestNat
  <2>3. x \in 1 .. L /\ x \notin D
    OBVIOUS
  <2>4. \A i \in 1 .. L : i < x => i \in D
    BY <2>2, <2>3
  <2>5. \A i \in D : i < x
    BY <2>3
  <2>6. \A i : i \in D <=> i \in 1 .. x - 1
    BY <2>3, <2>4, <2>5
  <2>7. D = 1 .. x - 1
    BY <2>6
  <2> QED BY <2>3, <2>7
<1> QED BY <1>1, <1>2

-----------------------------------------------------------------------------
(* The muxer implements the archive.  The mapping reads the kept frames off  *)
(* the file, so the proof needs what the file can still hold of a sample.    *)

Whole(s) == Extent(s.offset, s.size, s.frame) \in disk

\* The table is in the order of the calls and of the positions.
SamplesAscend ==
  \A i, j \in DOMAIN samples : i < j =>
    /\ samples[i].offset + samples[i].size <= samples[j].offset
    /\ samples[i].frame < samples[j].frame

\* Whatever is left of a frame accepted before the first failure lies where its
\* sample says, and is no longer than it.
OwnExtent ==
  \A i \in DOMAIN samples, e \in disk :
    BeforeFailure(samples[i]) /\ e.frame = samples[i].frame =>
      e.at = samples[i].offset /\ e.len <= samples[i].size

\* A frame that is there to its last byte is overlapped by nothing.
WholeIsIntact ==
  \A i \in DOMAIN samples :
    BeforeFailure(samples[i]) /\ Whole(samples[i]) => Intact(samples[i])

\* Nothing behind a damaged frame is intact: a lost tail is all a failure costs.
GoodPrefix ==
  \A i, j \in DOMAIN samples :
    i < j /\ Good(samples[j]) => Good(samples[i])

FileInv == SamplesAscend /\ OwnExtent /\ WholeIsIntact /\ GoodPrefix

\* MuxerInv and FileInv in numbers.
LEMMA FileFacts ==
  ASSUME MuxerInv, FileInv
  PROVE  /\ Len(samples) \in Nat /\ DOMAIN samples = 1 .. Len(samples)
         /\ \A i \in 1 .. Len(samples) :
              /\ samples[i].offset \in Nat /\ samples[i].size \in Nat
              /\ samples[i].frame \in Nat /\ samples[i].size > 0
              /\ samples[i].frame <= calls /\ samples[i].frame # 0
              /\ samples[i].offset + samples[i].size <= mdat_start + bytes_written
              /\ failedAt = 0 => samples[i].frame = i
              /\ Good(samples[i]) <=>
                   BeforeFailure(samples[i]) /\ Whole(samples[i])
              /\ failedAt = 0 /\ phase \notin {"lost", "off"} => Good(samples[i])
              /\ /\ BeforeFailure(samples[i])
                 /\ samples[i].offset + samples[i].size <= Held
                 => Good(samples[i])
         /\ mdat_start \in Nat /\ bytes_written \in Nat /\ pos \in Nat
         /\ calls \in Nat /\ failedAt \in Nat /\ synced \in Nat /\ safe \in Nat
         /\ durable \in Nat /\ durable <= safe
         /\ disk \subseteq [at : Nat, len : Nat, frame : Nat]
         /\ failedAt <= calls
         /\ failedAt = 0 => Len(samples) = calls
<1>1. \A i \in 1 .. Len(samples) :
        Good(samples[i]) <=> BeforeFailure(samples[i]) /\ Whole(samples[i])
  BY SampleFacts DEF FileInv, WholeIsIntact, Good, Whole, Intact
<1>2. \A i \in 1 .. Len(samples) :
        /\ failedAt = 0 /\ phase \notin {"lost", "off"} => Good(samples[i])
        /\ /\ BeforeFailure(samples[i])
           /\ samples[i].offset + samples[i].size <= Held
           => Good(samples[i])
  BY SampleFacts DEF MuxerInv, ConfirmedKept, BeforeFailure, Good
<1>3. \A i \in 1 .. Len(samples) : samples[i].frame # 0
  BY SampleFacts
<1> QED
  BY <1>1, <1>2, <1>3, SampleFacts, MdatStartNat
  DEF MuxerInv, TypeOK, CallsCounted, WriterPosition

\* What the mapping shows of a state: n frames are kept, m of them written and k
\* of them written back.
View(n, m, k) ==
  /\ n \in 0 .. Len(samples) /\ m \in 0 .. n /\ k \in 0 .. m
  /\ \A i \in 1 .. Len(samples) : Good(samples[i]) <=> i <= n
  /\ \A i \in 1 .. n :
       /\ samples[i].offset + samples[i].size <= safe <=> i <= m
       /\ samples[i].offset + samples[i].size <= durable <=> i <= k
  /\ Kept = [i \in 1 .. n |-> samples[i].frame]
  /\ Kept \in Seq(Nat) /\ Len(Kept) = n
  /\ Cardinality(Written) = m /\ Cardinality(WrittenBack) = k

Viewed == \E n, m, k \in Nat : View(n, m, k)

\* A sample before one that ends at or before a byte ends at or before it.
LEMMA EndsAscend ==
  ASSUME MuxerInv, FileInv, NEW i \in DOMAIN samples, NEW j \in DOMAIN samples, i < j,
         NEW c \in Nat, samples[j].offset + samples[j].size <= c
  PROVE  samples[i].offset + samples[i].size <= c
<1>1. samples[i].offset + samples[i].size <= samples[j].offset
  BY DEF FileInv, SamplesAscend
<1>2. /\ samples[i].offset \in Nat /\ samples[i].size \in Nat
      /\ samples[j].offset \in Nat /\ samples[j].size \in Nat
  BY FileFacts
<1> QED BY <1>1, <1>2

\* The kept frames are the first ones, and those of them that end at or before a
\* byte are the first of these.
LEMMA KeptFirst ==
  ASSUME MuxerInv, FileInv
  PROVE  \E n \in 0 .. Len(samples) :
           /\ Recovered = 1 .. n
           /\ \A i \in 1 .. Len(samples) : Good(samples[i]) <=> i <= n
           /\ \A c \in Nat : \E m \in 0 .. n :
                /\ \A i \in 1 .. n : samples[i].offset + samples[i].size <= c <=> i <= m
                /\ Cardinality(Before(c)) = m
<1> DEFINE L == Len(samples)
           D == {i \in 1 .. L : Good(samples[i])}
<1>1. L \in Nat /\ DOMAIN samples = 1 .. L
  BY FileFacts
<1>2. \A i, j \in 1 .. L : i < j /\ j \in D => i \in D
  BY <1>1 DEF FileInv, GoodPrefix
<1>3. PICK n \in 0 .. L : D = 1 .. n
  <2>1. \A i \in D : i \in 1 .. L
    OBVIOUS
  <2> HIDE DEF D, L
  <2> QED BY <1>1, <1>2, <2>1, PrefixIsInterval
<1>4. Recovered = 1 .. n
  <2>1. \A i : i \in Recovered <=> i \in 1 .. n
    <3>1. ASSUME NEW i \in Recovered PROVE i \in 1 .. n
      <4>1. i \in 1 .. L /\ \A j \in 1 .. i : Good(samples[j])
        BY <1>1 DEF Recovered
      <4>2. i \in D
        BY <1>1, <4>1
      <4> QED BY <1>3, <4>2
    <3>2. ASSUME NEW i \in 1 .. n PROVE i \in Recovered
      <4>1. i \in 1 .. L /\ \A j \in 1 .. i : j \in D
        BY <1>1, <1>3
      <4> QED BY <1>1, <4>1 DEF Recovered
    <3> QED BY <3>1, <3>2
  <2> QED BY <2>1
<1>5. \A i \in 1 .. L : Good(samples[i]) <=> i <= n
  BY <1>1, <1>3
<1>6. ASSUME NEW c \in Nat
      PROVE  \E m \in 0 .. n :
               /\ \A i \in 1 .. n : samples[i].offset + samples[i].size <= c <=> i <= m
               /\ Cardinality(Before(c)) = m
  <2> DEFINE C == {i \in 1 .. n : samples[i].offset + samples[i].size <= c}
  <2>1. \A i, j \in 1 .. n : i < j /\ j \in C => i \in C
    <3> SUFFICES ASSUME NEW i \in 1 .. n, NEW j \in 1 .. n, i < j, j \in C
                 PROVE  i \in C
      OBVIOUS
    <3>1. i \in DOMAIN samples /\ j \in DOMAIN samples
      BY <1>1
    <3> QED BY <3>1, EndsAscend
  <2>2. PICK m \in 0 .. n : C = 1 .. m /\ Cardinality(C) = m
    <3>1. \A i \in C : i \in 1 .. n
      OBVIOUS
    <3>2. n \in Nat
      BY <1>1
    <3> HIDE DEF C
    <3> QED BY <2>1, <3>1, <3>2, PrefixIsInterval
  <2>3. Before(c) = C
    BY <1>4 DEF Before
  <2>4. \A i \in 1 .. n : samples[i].offset + samples[i].size <= c <=> i <= m
    <3> SUFFICES ASSUME NEW i \in 1 .. n
                 PROVE  samples[i].offset + samples[i].size <= c <=> i <= m
      OBVIOUS
    <3>1. i \in C <=> i <= m
      BY <1>1, <2>2
    <3> QED BY <3>1
  <2> HIDE DEF C
  <2> QED BY <2>2, <2>3, <2>4
<1> HIDE DEF D
<1> QED BY <1>4, <1>5, <1>6

LEMMA MappingDefined == MuxerInv /\ FileInv => Viewed
<1> SUFFICES ASSUME MuxerInv, FileInv PROVE Viewed
  OBVIOUS
<1> DEFINE L == Len(samples)
           E(i) == samples[i].offset + samples[i].size
<1>1. /\ L \in Nat /\ DOMAIN samples = 1 .. L
      /\ safe \in Nat /\ durable \in Nat /\ durable <= safe
      /\ \A i \in 1 .. L : E(i) \in Nat /\ samples[i].frame \in Nat
  BY FileFacts
<1> HIDE DEF E
<1>2. PICK n \in 0 .. L :
        /\ Recovered = 1 .. n
        /\ \A i \in 1 .. L : Good(samples[i]) <=> i <= n
        /\ \A c \in Nat : \E m \in 0 .. n :
             /\ \A i \in 1 .. n : E(i) <= c <=> i <= m
             /\ Cardinality(Before(c)) = m
  BY KeptFirst DEF E
<1>3. PICK m \in 0 .. n :
        /\ \A i \in 1 .. n : E(i) <= safe <=> i <= m
        /\ Cardinality(Written) = m
  BY <1>1, <1>2 DEF Written
<1>4. PICK k \in 0 .. n :
        /\ \A i \in 1 .. n : E(i) <= durable <=> i <= k
        /\ Cardinality(WrittenBack) = k
  BY <1>1, <1>2 DEF WrittenBack
<1>5. k <= m
  <2>1. CASE k = 0
    BY <2>1, <1>1
  <2>2. CASE k # 0
    <3>1. k \in 1 .. n /\ k \in 1 .. L
      BY <2>2, <1>1
    <3>2. E(k) <= durable
      BY <3>1, <1>4
    <3>3. E(k) <= safe
      BY <3>1, <3>2, <1>1
    <3> QED BY <3>1, <3>3, <1>3
  <2> QED BY <2>1, <2>2
<1>6. /\ Kept = [i \in 1 .. n |-> samples[i].frame]
      /\ Kept \in Seq(Nat) /\ Len(Kept) = n
  <2>1. Kept = [i \in 1 .. n |-> samples[i].frame]
    BY <1>2 DEF Kept
  <2>2. \A i \in 1 .. n : samples[i].frame \in Nat
    BY <1>1
  <2> QED BY <2>1, <2>2, <1>1
<1>7. n \in Nat /\ m \in Nat /\ k \in Nat /\ k \in 0 .. m
  BY <1>1, <1>5
<1>8. View(n, m, k)
  BY <1>2, <1>3, <1>4, <1>6, <1>7 DEF View, E
<1> QED BY <1>7, <1>8 DEF Viewed

-----------------------------------------------------------------------------
(* FileInv is inductive *)

LEMMA InitFileInv == Init => FileInv
BY DEF Init, FileInv, SamplesAscend, OwnExtent, WholeIsIntact, GoodPrefix

\* An accepted frame is appended behind everything the file holds.
LEMMA WriteKeepsFileInv ==
  ASSUME MuxerInv, MuxerInv', FileInv, NEW f \in Frames, WriteVideo(f)
  PROVE  /\ FileInv'
         /\ samples' \in Seq(Sample) /\ Len(samples') = Len(samples) + 1
         /\ \A i \in 1 .. Len(samples) :
              samples'[i] = samples[i] /\ (Good(samples[i])' <=> Good(samples[i]))
         /\ samples'[Len(samples) + 1].frame = calls + 1
         /\ samples'[Len(samples) + 1].size > 0
         /\ samples'[Len(samples) + 1].offset = mdat_start + bytes_written
         /\ \A k \in Nat : k = Len(samples) + 1 =>
              (Good(samples[k])' <=> failedAt = 0)
<1> DEFINE n   == frame_size(f)
           new == NewSample(f)
           ext == Extent(pos, n, calls + 1)
           L   == Len(samples)
<1>0. n \in Nat /\ n > 0
  BY FrameSizePositive
<1>1. /\ phase = "open" /\ phase' = phase /\ disk' = disk \cup {ext}
      /\ samples' = Append(samples, new) /\ calls' = calls + 1
      /\ failedAt' = failedAt /\ safe' = safe
      /\ new.offset = mdat_start + bytes_written /\ new.size = n
      /\ new.frame = calls + 1
      /\ ext.at = pos /\ ext.len = n /\ ext.frame = calls + 1
  BY DEF WriteVideo, NewSample, Extent
<1> HIDE DEF n, new, ext
<1>2. /\ L \in Nat /\ DOMAIN samples = 1 .. L /\ L + 1 \in 1 .. L + 1
      /\ \A i \in 1 .. L + 1 : i \in 1 .. L \/ i = L + 1
  BY FileFacts
<1>3. /\ Len(samples') = L + 1 /\ DOMAIN samples' = 1 .. L + 1
      /\ samples'[L + 1] = new /\ samples' \in Seq(Sample)
      /\ \A i \in 1 .. L : samples'[i] = samples[i]
  BY <1>1, <1>2, AppendProperties DEF MuxerInv, TypeOK
<1>4. \A e \in disk : /\ e.at \in Nat /\ e.len \in Nat /\ e.frame \in Nat
                      /\ e.at + e.len <= pos /\ e.frame <= calls
  BY <1>1, FileFacts DEF MuxerInv, WriterPosition, OneExtentPerFrame
<1>5. failedAt = 0 => pos = mdat_start + bytes_written
  BY <1>1 DEF MuxerInv, WriterPosition
<1>6. SamplesAscend'
  <2> SUFFICES ASSUME NEW i \in 1 .. L + 1, NEW j \in 1 .. L + 1, i < j
               PROVE  /\ samples'[i].offset + samples'[i].size <= samples'[j].offset
                      /\ samples'[i].frame < samples'[j].frame
    BY <1>3 DEF SamplesAscend
  <2>1. i \in 1 .. L
    BY <1>2
  <2>2. CASE j = L + 1
    BY <2>1, <2>2, <1>1, <1>3, FileFacts
  <2>3. CASE j \in 1 .. L
    BY <2>1, <2>3, <1>2, <1>3 DEF FileInv, SamplesAscend
  <2> QED BY <2>2, <2>3, <1>2
<1>7. OwnExtent'
  <2> SUFFICES ASSUME NEW i \in 1 .. L + 1, NEW e \in disk',
                      BeforeFailure(samples[i])', e.frame = samples'[i].frame
               PROVE  e.at = samples'[i].offset /\ e.len <= samples'[i].size
    BY <1>3 DEF OwnExtent
  <2>1. CASE i = L + 1
    <3>1. e = ext
      BY <2>1, <1>1, <1>3, <1>4, FileFacts
    <3>2. failedAt = 0
      BY <2>1, <1>1, <1>3, FileFacts DEF BeforeFailure
    <3> QED BY <2>1, <3>1, <3>2, <1>0, <1>1, <1>3, <1>5
  <2>2. CASE i \in 1 .. L
    <3>1. e \in disk
      BY <2>2, <1>1, <1>3, FileFacts
    <3>2. BeforeFailure(samples[i])
      BY <2>2, <1>1, <1>3 DEF BeforeFailure
    <3> QED BY <2>2, <3>1, <3>2, <1>2, <1>3 DEF FileInv, OwnExtent
  <2> QED BY <2>1, <2>2, <1>2
\* The frames already there stay as they are.
<1>8. ASSUME NEW i \in 1 .. L
      PROVE  /\ Whole(samples[i])' <=> Whole(samples[i])
             /\ Good(samples[i])' <=> Good(samples[i])
  <2> DEFINE s == samples[i]
  <2>1. /\ s.offset \in Nat /\ s.size \in Nat /\ s.frame \in Nat
        /\ s.frame <= calls /\ s.frame # 0
        /\ s = samples'[i]
    BY <1>3, FileFacts
  <2> HIDE DEF s
  <2>2. Extent(s.offset, s.size, s.frame).frame = s.frame
        /\ Extent(s.offset, s.size, s.frame).at = s.offset
        /\ Extent(s.offset, s.size, s.frame).len = s.size
    BY DEF Extent
  <2>3. Extent(s.offset, s.size, s.frame) \in disk' <=>
          Extent(s.offset, s.size, s.frame) \in disk
    BY <2>1, <2>2, <1>1, FileFacts
  <2>4. Extent(s.offset, s.size, s.frame) \in disk =>
          Apart(s.offset, s.size, ext)
    BY <2>1, <2>2, <1>1, <1>4 DEF Apart
  <2>5. Intact(s)' <=> Intact(s)
    BY <2>3, <2>4, <1>1, <2>1 DEF Intact, s
  <2>6. BeforeFailure(s)' <=> BeforeFailure(s)
    BY <1>1, <2>1 DEF BeforeFailure, s
  <2> QED BY <2>1, <2>3, <2>5, <2>6 DEF Good, Whole, s
<1>9. ASSUME NEW k \in Nat, k = L + 1
      PROVE  Good(samples[k])' <=> failedAt = 0
  <2>0. samples'[k] = new /\ k \in DOMAIN samples'
    BY <1>2, <1>3, <1>9
  <2>1. CASE failedAt = 0
    <3>1. Intact(samples[k])'
      BY <2>0, <2>1, <1>1 DEF MuxerInv, ConfirmedKept, BeforeFailure
    <3> QED BY <2>1, <3>1, <1>1 DEF Good, BeforeFailure
  <2>2. CASE failedAt # 0
    BY <2>0, <2>2, <1>1, FileFacts DEF Good, BeforeFailure
  <2> QED BY <2>1, <2>2
<1>10. WholeIsIntact'
  <2> SUFFICES ASSUME NEW i \in 1 .. L + 1, BeforeFailure(samples[i])',
                      Whole(samples[i])'
               PROVE  Intact(samples[i])'
    BY <1>3 DEF WholeIsIntact
  <2>1. CASE i = L + 1
    <3>1. failedAt = 0
      BY <2>1, <1>1, <1>3, FileFacts DEF BeforeFailure
    <3> QED BY <2>1, <3>1, <1>9 DEF Good
  <2>2. CASE i \in 1 .. L
    <3>1. BeforeFailure(samples[i])
      BY <2>2, <1>1, <1>3 DEF BeforeFailure
    <3>2. Good(samples[i])
      BY <2>2, <3>1, <1>8, FileFacts
    <3> QED BY <2>2, <3>2, <1>8 DEF Good
  <2> QED BY <2>1, <2>2, <1>2
<1>11. GoodPrefix'
  <2> SUFFICES ASSUME NEW i \in 1 .. L + 1, NEW j \in 1 .. L + 1, i < j,
                      Good(samples[j])'
               PROVE  Good(samples[i])'
    BY <1>3 DEF GoodPrefix
  <2>1. i \in 1 .. L
    BY <1>2
  <2>2. CASE j = L + 1
    <3>1. failedAt = 0
      BY <2>2, <1>9
    <3> QED BY <2>1, <3>1, <1>1, <1>8, FileFacts
  <2>3. CASE j \in 1 .. L
    BY <2>1, <2>3, <1>2, <1>8 DEF FileInv, GoodPrefix
  <2> QED BY <2>2, <2>3, <1>2
<1> QED
  BY <1>0, <1>1, <1>3, <1>6, <1>7, <1>8, <1>9, <1>10, <1>11 DEF FileInv

\* What is left of an extent when bytes behind `cut` are lost.
PartOf(e, x, cut) ==
  /\ e.at = x.at /\ e.frame = x.frame /\ e.len <= x.len
  /\ e.len \in Nat /\ e.at + e.len <= cut
  /\ e.len = x.len => e = x

\* Losing a tail leaves the frames that end at or before the cut and no other.
LEMMA TailCut ==
  ASSUME MuxerInv, FileInv, NEW cut \in Nat, samples' = samples,
         \A i \in DOMAIN samples :
           BeforeFailure(samples[i])' <=> BeforeFailure(samples[i]),
         \A e \in disk : e.len > 0 /\ e.at + e.len <= cut => e \in disk',
         \A e \in disk' :
           \/ e.frame = calls + 1 /\ \A x \in disk : x.at + x.len <= e.at
           \/ \E x \in disk : PartOf(e, x, cut)
  PROVE  /\ \A i \in DOMAIN samples :
              Good(samples[i])' <=>
                /\ Good(samples[i])
                /\ samples[i].offset + samples[i].size <= cut
         /\ FileInv'
<1>4. \A e \in disk : e.at \in Nat /\ e.len \in Nat /\ e.frame \in Nat
  BY FileFacts
<1>7. ASSUME NEW i \in DOMAIN samples, NEW e \in disk',
             e.frame = samples[i].frame
      PROVE  \E x \in disk : PartOf(e, x, cut)
  BY <1>7, FileFacts
<1>8. OwnExtent'
  <2> SUFFICES ASSUME NEW i \in DOMAIN samples, NEW e \in disk',
                      BeforeFailure(samples[i]), e.frame = samples[i].frame
               PROVE  e.at = samples[i].offset /\ e.len <= samples[i].size
    BY DEF OwnExtent
  <2>1. PICK x \in disk : PartOf(e, x, cut)
    BY <1>7
  <2>2. x.at = samples[i].offset /\ x.len <= samples[i].size
    BY <2>1 DEF PartOf, FileInv, OwnExtent
  <2> QED BY <2>1, <2>2, <1>4, FileFacts DEF PartOf
\* A sample that is whole afterwards was whole before and ends at the cut at most.
<1>9. ASSUME NEW i \in DOMAIN samples, BeforeFailure(samples[i])
      PROVE  Whole(samples[i])' <=>
               /\ Whole(samples[i])
               /\ samples[i].offset + samples[i].size <= cut
  <2> DEFINE s == samples[i]
             x == Extent(s.offset, s.size, s.frame)
  <2>1. /\ s.offset \in Nat /\ s.size \in Nat /\ s.size > 0
        /\ x.at = s.offset /\ x.len = s.size /\ x.frame = s.frame
    BY FileFacts DEF Extent
  <2>2. s = samples'[i]
    OBVIOUS
  <2>3. ASSUME x \in disk' PROVE x \in disk /\ s.offset + s.size <= cut
    <3>1. x.frame = samples[i].frame
      BY <2>1
    <3>2. PICK y \in disk : PartOf(x, y, cut)
      <4> HIDE DEF x
      <4> QED BY <2>3, <3>1, <1>7
    <3>3. y.len <= s.size
      BY <3>1, <3>2, <1>9 DEF PartOf, FileInv, OwnExtent
    <3>4. y.len \in Nat
      BY <1>4
    <3>5. x.len = y.len
      <4> HIDE DEF x, s
      <4> QED BY <2>1, <3>2, <3>3, <3>4 DEF PartOf
    <3> QED BY <2>1, <3>2, <3>5 DEF PartOf
  <2>4. ASSUME x \in disk, s.offset + s.size <= cut PROVE x \in disk'
    BY <2>1, <2>4
  <2> QED BY <2>2, <2>3, <2>4 DEF Whole
<1>10. WholeIsIntact'
  <2> SUFFICES ASSUME NEW i \in DOMAIN samples, BeforeFailure(samples[i]),
                      Whole(samples[i])',
                      NEW e \in disk', e.frame # samples[i].frame
               PROVE  Apart(samples[i].offset, samples[i].size, e)
    BY DEF WholeIsIntact, Whole, Intact
  <2> DEFINE s == samples[i]
  <2>1. /\ s.offset \in Nat /\ s.size \in Nat
        /\ Whole(s) /\ Intact(s)
    BY <1>9, FileFacts DEF Good
  <2> HIDE DEF s
  <2>3. CASE \A x \in disk : x.at + x.len <= e.at
    <3>1. Extent(s.offset, s.size, s.frame) \in disk
          /\ Extent(s.offset, s.size, s.frame).at = s.offset
          /\ Extent(s.offset, s.size, s.frame).len = s.size
      BY <2>1 DEF Whole, Extent
    <3> QED BY <2>3, <3>1 DEF Apart, s
  <2>4. CASE \E x \in disk : PartOf(e, x, cut)
    <3>1. PICK x \in disk : /\ e.at = x.at /\ e.frame = x.frame
                            /\ e.len <= x.len /\ e.len \in Nat
      BY <2>4 DEF PartOf
    <3>2. Apart(s.offset, s.size, x)
      BY <2>1, <3>1 DEF Intact, s
    <3>3. Apart(s.offset, s.size, e)
      BY <2>1, <3>1, <3>2, <1>4 DEF Apart
    <3> QED BY <3>3 DEF s
  <2> QED BY <2>3, <2>4
<1>11. ASSUME NEW i \in DOMAIN samples
       PROVE  Good(samples[i])' <=>
                /\ Good(samples[i])
                /\ samples[i].offset + samples[i].size <= cut
  <2>1. Good(samples[i]) <=> BeforeFailure(samples[i]) /\ Whole(samples[i])
    BY FileFacts
  <2>2. Good(samples[i])' <=> (BeforeFailure(samples[i]) /\ Whole(samples[i]))'
    <3>1. samples'[i] = samples[i] /\ DOMAIN samples' = DOMAIN samples
      OBVIOUS
    <3> QED BY <3>1, <1>10 DEF Good, WholeIsIntact, Whole, Intact
  <2> QED BY <2>1, <2>2, <1>9
<1>12. SamplesAscend'
  BY DEF FileInv, SamplesAscend
<1>13. GoodPrefix'
  <2> SUFFICES ASSUME NEW i \in DOMAIN samples, NEW j \in DOMAIN samples,
                      i < j, Good(samples[j])'
               PROVE  Good(samples[i])'
    BY DEF GoodPrefix
  <2>1. Good(samples[j]) /\ samples[j].offset + samples[j].size <= cut
    BY <1>11
  <2>2. samples[i].offset + samples[i].size <= cut
    BY <2>1, EndsAscend
  <2>3. Good(samples[i])
    BY <2>1 DEF FileInv, GoodPrefix
  <2> QED BY <2>2, <2>3, <1>11
<1> QED BY <1>8, <1>10, <1>11, <1>12, <1>13 DEF FileInv

LEMMA CutIsPart ==
  ASSUME MuxerInv, NEW cut \in Nat, disk' = CutAt(cut)
  PROVE  /\ \A e \in disk : e.len > 0 /\ e.at + e.len <= cut => e \in disk'
         /\ \A e \in disk' : \E x \in disk : PartOf(e, x, cut)
<1>1. /\ disk \subseteq [at : Nat, len : Nat, frame : Nat]
      /\ disk' = Cut(disk, cut)
  BY DEF MuxerInv, TypeOK, CutAt
<1> QED BY <1>1, CutKeepsPrefix DEF PartOf

\* The muxer given up or cut off: bytes behind `cut` are lost, nothing else happens.
LEMMA EndCutsTail ==
  ASSUME MuxerInv, FileInv, NEW cut \in Nat, disk' = CutAt(cut),
         samples' = samples, failedAt' = failedAt
  PROVE  /\ \A i \in DOMAIN samples :
              Good(samples[i])' <=>
                /\ Good(samples[i])
                /\ samples[i].offset + samples[i].size <= cut
         /\ FileInv'
<1>1. \A i \in DOMAIN samples : BeforeFailure(samples[i])' <=>
        BeforeFailure(samples[i])
  BY DEF BeforeFailure
<1> QED BY <1>1, CutIsPart, TailCut

\* A failing write is such a loss, or leaves part of its own frame behind.
LEMMA FailureCutsTail ==
  ASSUME MuxerInv, FileInv, NEW f \in Frames, WriteVideoFails(f)
  PROVE  \E cut \in Nat :
           /\ safe <= cut
           /\ \A i \in DOMAIN samples :
                Good(samples[i])' <=>
                  /\ Good(samples[i])
                  /\ samples[i].offset + samples[i].size <= cut
           /\ FileInv'
<1> DEFINE n == frame_size(f)
<1>0. n \in Nat /\ n > 0
  BY FrameSizePositive
<1>1. /\ phase = "open" /\ samples' = samples /\ safe' = safe
      /\ failedAt' = IF failedAt = 0 THEN calls + 1 ELSE failedAt
  BY DEF WriteVideoFails
<1>2. PICK cut \in synced .. pos + n - 1 :
        disk' = IF cut > pos THEN disk \cup {Extent(pos, cut - pos, calls + 1)}
                             ELSE CutAt(cut)
  BY DEF WriteVideoFails, n
<1> HIDE DEF n
<1>3. cut \in Nat /\ safe <= synced /\ synced <= cut /\ safe <= cut
  BY <1>0, <1>1, <1>2, FileFacts DEF MuxerInv, WriterPosition
<1>4. \A e \in disk : /\ e.at \in Nat /\ e.len \in Nat /\ e.frame \in Nat
                      /\ e.at + e.len <= pos
  BY <1>1, FileFacts DEF MuxerInv, WriterPosition
\* What is left of the file and what is new in it.
<1>5. /\ \A e \in disk : e.len > 0 /\ e.at + e.len <= cut => e \in disk'
      /\ \A e \in disk' :
           \/ e.frame = calls + 1 /\ \A x \in disk : x.at + x.len <= e.at
           \/ \E x \in disk : PartOf(e, x, cut)
  <2>1. CASE cut > pos
    <3>1. Extent(pos, cut - pos, calls + 1).at = pos
          /\ Extent(pos, cut - pos, calls + 1).frame = calls + 1
      BY DEF Extent
    <3>2. disk' = disk \cup {Extent(pos, cut - pos, calls + 1)}
      BY <2>1, <1>2
    <3>3. \A x \in disk : x.len \in Nat /\ x.at + x.len <= cut
      BY <2>1, <1>3, <1>4, FileFacts
    <3> QED BY <3>1, <3>2, <3>3, <1>4 DEF PartOf
  <2>2. CASE ~(cut > pos)
    BY <2>2, <1>2, <1>3, FileFacts, CutIsPart
  <2> QED BY <2>1, <2>2
<1>6. \A i \in DOMAIN samples : BeforeFailure(samples[i])' <=>
        BeforeFailure(samples[i])
  BY <1>1, FileFacts DEF BeforeFailure
<1> QED BY <1>1, <1>3, <1>5, <1>6, TailCut

\* Every other step leaves the samples' bytes alone; moov lies behind them.
LEMMA QuietKeepsFileInv ==
  ASSUME MuxerInv, FileInv, NEW len \in Nat,
         samples' = samples, failedAt' = failedAt,
         \/ disk' = disk
         \/ disk' = disk \cup {Extent(mdat_start + bytes_written, len, 0)}
  PROVE  /\ FileInv'
         /\ \A i \in DOMAIN samples : Good(samples[i])' <=> Good(samples[i])
<1> DEFINE box == Extent(mdat_start + bytes_written, len, 0)
<1>1. ASSUME NEW i \in DOMAIN samples
      PROVE  /\ BeforeFailure(samples[i])' <=> BeforeFailure(samples[i])
             /\ Whole(samples[i])' <=> Whole(samples[i])
             /\ Intact(samples[i])' <=> Intact(samples[i])
  <2>1. /\ box.frame = 0 /\ box.at = mdat_start + bytes_written
        /\ samples[i].frame # 0 /\ Apart(samples[i].offset, samples[i].size, box)
    BY FileFacts DEF Extent, Apart
  <2>2. Extent(samples[i].offset, samples[i].size, samples[i].frame).frame =
          samples[i].frame
    BY DEF Extent
  <2>3. Extent(samples[i].offset, samples[i].size, samples[i].frame) # box
    BY <2>1, <2>2
  <2> HIDE DEF box
  <2>4. disk' = disk \/ disk' = disk \cup {box}
    BY DEF box
  <2> QED BY <2>1, <2>3, <2>4 DEF BeforeFailure, Whole, Intact
<1>2. \A i \in DOMAIN samples : Good(samples[i])' <=> Good(samples[i])
  BY <1>1 DEF Good
<1>3. OwnExtent'
  <2>1. \A i \in DOMAIN samples : box.frame # samples[i].frame
    BY FileFacts DEF Extent
  <2> HIDE DEF box
  <2>2. disk' = disk \/ disk' = disk \cup {box}
    BY DEF box
  <2> QED BY <2>1, <2>2, <1>1 DEF FileInv, OwnExtent
<1>4. SamplesAscend' /\ WholeIsIntact' /\ GoodPrefix'
  BY <1>1, <1>2 DEF FileInv, SamplesAscend, WholeIsIntact, GoodPrefix
<1> QED BY <1>2, <1>3, <1>4 DEF FileInv

LEMMA StepKeepsFileInv ==
  MuxerInv /\ MuxerInv' /\ FileInv /\ [Next]_vars => FileInv'
<1> SUFFICES ASSUME MuxerInv, MuxerInv', FileInv, [Next]_vars PROVE FileInv'
  OBVIOUS
<1> USE DEF muxer, file, hist
<1>1. CASE New
  <2>1. samples' = << >>
    BY <1>1 DEF New, MuxerInv, Untouched
  <2> QED BY <2>1
    DEF FileInv, SamplesAscend, OwnExtent, WholeIsIntact, GoodPrefix
<1>2. ASSUME NEW f \in Frames, WriteVideo(f) PROVE FileInv'
  BY <1>2, WriteKeepsFileInv
<1>3. ASSUME NEW f \in Frames, WriteVideoFails(f) PROVE FileInv'
  BY <1>3, FailureCutsTail
<1>4. CASE Sync \/ WriteBack \/ FinishHeader \/ UNCHANGED vars
  <2>1. samples' = samples /\ failedAt' = failedAt /\ disk' = disk
    BY <1>4 DEF Sync, WriteBack, FinishHeader, vars
  <2> QED BY <2>1, QuietKeepsFileInv
<1>5. CASE FinishMoov
  <2>1. /\ samples' = samples /\ failedAt' = failedAt
        /\ disk' = disk \cup {Extent(mdat_start + bytes_written, MoovSize, 0)}
    BY <1>5 DEF FinishMoov, moov_pos
  <2> QED BY <2>1, MuxerConstants, QuietKeepsFileInv
<1>6. CASE NewFails
  <2>1. samples' = << >>
    BY <1>6 DEF NewFails, MuxerInv, Untouched
  <2> QED BY <2>1
    DEF FileInv, SamplesAscend, OwnExtent, WholeIsIntact, GoodPrefix
<1>7. CASE Abandon \/ FinishFails \/ PowerLoss
  <2>1. samples' = samples /\ failedAt' = failedAt
    BY <1>7 DEF Abandon, FinishFails, PowerLoss
  <2>2. \/ \E cut \in Ends(synced) \cup Ends(durable) : disk' = CutAt(cut)
        \/ \E len \in 1 .. MoovSize :
             disk' = disk \cup {Extent(mdat_start + bytes_written, len, 0)}
    BY <1>7 DEF Abandon, FinishFails, PowerLoss, moov_pos
  <2>3. CASE \E cut \in Ends(synced) \cup Ends(durable) : disk' = CutAt(cut)
    <3>1. PICK cut \in Ends(synced) \cup Ends(durable) : disk' = CutAt(cut)
      BY <2>3
    <3>2. cut \in Nat
      BY FileFacts, EndsAfter
    <3> QED BY <2>1, <3>1, <3>2, EndCutsTail
  <2>4. CASE \E len \in 1 .. MoovSize :
               disk' = disk \cup {Extent(mdat_start + bytes_written, len, 0)}
    <3>1. PICK len \in 1 .. MoovSize :
            disk' = disk \cup {Extent(mdat_start + bytes_written, len, 0)}
      BY <2>4
    <3>2. len \in Nat
      BY MuxerConstants
    <3> QED BY <2>1, <3>1, <3>2, QuietKeepsFileInv
  <2> QED BY <2>2, <2>3, <2>4
<1> QED BY <1>1, <1>2, <1>3, <1>4, <1>5, <1>6, <1>7 DEF Next

\* What a failed write, a failed or interrupted finish and a power loss leave of the
\* file: of the frames accepted before the first failure a prefix, each of them
\* whole and overlapped by nothing (muxer.rs:70-128).
THEOREM DamageIsATail == Spec => []FileInv
BY InitFileInv, StepKeepsFileInv, MuxerInvariant, PTL DEF Spec

-----------------------------------------------------------------------------
(* One lemma per step of the archive *)

LEMMA SameBound ==
  ASSUME NEW n \in Nat, NEW a \in 0 .. n, NEW b \in 0 .. n,
         \A i \in 1 .. n : i <= a <=> i <= b
  PROVE  a = b
<1>1. ASSUME a < b PROVE FALSE
  <2>1. b \in 1 .. n
    BY <1>1
  <2> QED BY <2>1, <1>1
<1>2. ASSUME b < a PROVE FALSE
  <2>1. a \in 1 .. n
    BY <1>2
  <2> QED BY <2>1, <1>2
<1> QED BY <1>1, <1>2

LEMMA SameItems ==
  ASSUME NEW s \in Seq(Nat), NEW t \in Seq(Nat), Len(s) = Len(t),
         \A i \in 1 .. Len(s) : s[i] = t[i]
  PROVE  s = t
OBVIOUS

LEMMA ViewOfNext == MuxerInv' /\ FileInv' => Viewed'
BY MappingDefined, PTL

\* An accepted frame extends the kept ones unless a write has failed before.
LEMMA WriteAccepts ==
  ASSUME MuxerInv, MuxerInv', FileInv, NEW f \in Frames, WriteVideo(f)
  PROVE  Archive!Accept
<1> DEFINE L == Len(samples)
<1>1. /\ phase = "open" /\ phase' = phase /\ calls' = calls + 1
      /\ failedAt' = failedAt /\ safe' = safe /\ durable' = durable
  BY DEF WriteVideo
<1>2. /\ FileInv'
      /\ samples' \in Seq(Sample) /\ Len(samples') = L + 1
      /\ \A i \in 1 .. L : samples'[i] = samples[i]
                           /\ (Good(samples[i])' <=> Good(samples[i]))
      /\ samples'[L + 1].frame = calls + 1 /\ samples'[L + 1].size > 0
      /\ samples'[L + 1].offset = mdat_start + bytes_written
      /\ \A k \in Nat : k = L + 1 => (Good(samples[k])' <=> failedAt = 0)
  BY WriteKeepsFileInv
<1>3. PICK n \in Nat, m \in Nat, k \in Nat : View(n, m, k)
  BY MappingDefined DEF Viewed
<1>4. PICK n2 \in Nat, m2 \in Nat, k2 \in Nat : View(n2, m2, k2)'
  BY <1>2, ViewOfNext DEF Viewed
<1>5. /\ L \in Nat /\ L + 1 \in Nat /\ calls \in Nat
      /\ samples'[L + 1].size \in Nat
      /\ mdat_start + bytes_written \in Nat /\ safe \in Nat
      /\ L + 1 \in 1 .. L + 1
  <2>1. L \in Nat /\ L + 1 \in Nat /\ L + 1 \in 1 .. L + 1
    BY FileFacts
  <2>2. samples'[L + 1] \in Sample
    BY <2>1, <1>2
  <2> QED BY <2>1, <2>2, FileFacts DEF Sample
<1>6. /\ n \in 0 .. L /\ m \in 0 .. n /\ k \in 0 .. m
      /\ \A i \in 1 .. L : Good(samples[i]) <=> i <= n
      /\ \A i \in 1 .. n :
           /\ samples[i].offset + samples[i].size <= safe <=> i <= m
           /\ samples[i].offset + samples[i].size <= durable <=> i <= k
      /\ Kept = [i \in 1 .. n |-> samples[i].frame]
      /\ Kept \in Seq(Nat) /\ Len(Kept) = n
      /\ Cardinality(Written) = m /\ Cardinality(WrittenBack) = k
  BY <1>3 DEF View
<1>7. /\ n2 \in 0 .. L + 1 /\ m2 \in 0 .. n2 /\ k2 \in 0 .. m2
      /\ \A i \in 1 .. L + 1 : Good(samples[i])' <=> i <= n2
      /\ \A i \in 1 .. n2 :
           /\ samples'[i].offset + samples'[i].size <= safe <=> i <= m2
           /\ samples'[i].offset + samples'[i].size <= durable <=> i <= k2
      /\ Kept' = [i \in 1 .. n2 |-> samples'[i].frame]
      /\ Kept' \in Seq(Nat) /\ Len(Kept') = n2
      /\ Cardinality(Written)' = m2 /\ Cardinality(WrittenBack)' = k2
  BY <1>1, <1>2, <1>4 DEF View
\* Nothing the writer has not confirmed ends at or before `safe`.
<1>8. samples'[L + 1].offset + samples'[L + 1].size > safe \/ failedAt # 0
  BY <1>1, <1>2, <1>5, FileFacts DEF MuxerInv, WriterPosition
<1>9. n2 = IF failedAt = 0 THEN n + 1 ELSE n
  <2>1. \A i \in 1 .. L : i <= n <=> i <= n2
    BY <1>2, <1>6, <1>7, <1>5
  <2>2. L + 1 <= n2 <=> failedAt = 0
    BY <1>2, <1>5, <1>7
  <2>3. failedAt = 0 => n = L
    <3>1. failedAt = 0 => \A i \in 1 .. L : i <= n
      BY <1>1, <1>6, FileFacts
    <3> QED BY <3>1, <1>5, <1>6
  <2>4. n <= n2 /\ n2 <= n + 1 /\ (n2 = n + 1 => L + 1 <= n2)
    <3>1. n <= n2
      BY <2>1, <1>5, <1>6, <1>7
    <3>2. n2 <= n \/ n2 = L + 1
      BY <2>1, <1>5, <1>6, <1>7
    <3> QED BY <3>1, <3>2, <2>2, <2>3, <1>5, <1>6, <1>7
  <2>5. CASE failedAt = 0
    BY <2>2, <2>3, <2>5, <1>5, <1>6, <1>7
  <2>6. CASE failedAt # 0
    BY <2>2, <2>4, <2>6, <1>5, <1>6, <1>7
  <2> QED BY <2>5, <2>6
<1>10. m2 = m
  <2>1. \A i \in 1 .. n : i <= m <=> i <= m2
    <3>1. ASSUME NEW i \in 1 .. n
          PROVE  i \in 1 .. L /\ i \in 1 .. n2 /\ samples'[i] = samples[i]
      BY <1>2, <1>5, <1>6, <1>9
    <3> QED BY <3>1, <1>6, <1>7
  <2>2. m2 <= n
    <3>1. CASE failedAt = 0
      <4>1. n2 = L + 1 /\ n = L
        <5>1. \A i \in 1 .. L : i <= n
          BY <3>1, <1>1, <1>6, FileFacts
        <5> QED BY <5>1, <3>1, <1>5, <1>6, <1>9
      <4>2. ~(L + 1 <= m2)
        <5>1. L + 1 \in 1 .. n2
          BY <4>1, <1>5
        <5>2. samples'[L + 1].offset + samples'[L + 1].size <= safe
                <=> L + 1 <= m2
          BY <5>1, <1>7
        <5> QED BY <5>2, <3>1, <1>2, <1>5, <1>8
      <4> QED BY <4>1, <4>2, <1>5, <1>7
    <3>2. CASE failedAt # 0
      BY <3>2, <1>7, <1>9
    <3> QED BY <3>1, <3>2
  <2>3. m \in 0 .. n
    BY <1>6
  <2>4. m2 \in 0 .. n
    BY <2>2
  <2> QED BY <2>1, <2>3, <2>4, SameBound
<1>11. Kept' = IF failedAt # 0 THEN Kept ELSE Append(Kept, calls + 1)
  <2>1. \A i \in 1 .. n : Kept'[i] = Kept[i]
    <3>1. ASSUME NEW i \in 1 .. n
          PROVE  i \in 1 .. L /\ i \in 1 .. n2 /\ samples'[i] = samples[i]
      BY <1>2, <1>5, <1>6, <1>9
    <3> QED BY <3>1, <1>6, <1>7
  <2>2. failedAt = 0 => Kept'[n + 1] = calls + 1
    <3>1. failedAt = 0 => n = L
      <4>1. failedAt = 0 => \A i \in 1 .. L : i <= n
        BY <1>1, <1>6, FileFacts
      <4> QED BY <4>1, <1>5, <1>6
    <3> QED BY <3>1, <1>2, <1>5, <1>7, <1>9
  <2>3. CASE failedAt = 0
    <3>1. Kept' \in Seq(Nat) /\ Append(Kept, calls + 1) \in Seq(Nat)
          /\ Len(Kept') = n + 1 /\ Len(Append(Kept, calls + 1)) = n + 1
      BY <2>3, <1>5, <1>6, <1>7, <1>9, FileFacts, AppendProperties
    <3>2. \A i \in 1 .. n + 1 : Kept'[i] = Append(Kept, calls + 1)[i]
      <4>1. Kept \in Seq(Nat) /\ Len(Kept) = n /\ n \in Nat /\ calls + 1 \in Nat
        <5>1. calls + 1 \in Nat
          BY <1>5
        <5> QED BY <5>1, <1>6
      <4>2. /\ \A i \in 1 .. n : Append(Kept, calls + 1)[i] = Kept[i]
            /\ Append(Kept, calls + 1)[n + 1] = calls + 1
        BY <4>1, AppendProperties
      <4>3. \A i \in 1 .. n + 1 : i \in 1 .. n \/ i = n + 1
        BY <4>1
      <4> QED BY <2>1, <2>2, <2>3, <4>2, <4>3
    <3>3. Kept' = Append(Kept, calls + 1)
      BY <3>1, <3>2, SameItems
    <3> QED BY <3>3, <2>3
  <2>4. CASE failedAt # 0
    <3>1. Len(Kept') = n
      BY <2>4, <1>7, <1>9
    <3> QED BY <2>1, <2>4, <3>1, <1>6, <1>7, SameItems
  <2> QED BY <2>3, <2>4
<1>12. k2 = k
  <2>1. \A i \in 1 .. n : i <= k <=> i <= k2
    <3>1. ASSUME NEW i \in 1 .. n
          PROVE  i \in 1 .. L /\ i \in 1 .. n2 /\ samples'[i] = samples[i]
      BY <1>2, <1>5, <1>6, <1>9
    <3> QED BY <3>1, <1>6, <1>7
  <2>2. k \in 0 .. n /\ k2 \in 0 .. n
    BY <1>6, <1>7, <1>10
  <2> QED BY <2>1, <2>2, SameBound
<1> QED
  BY <1>1, <1>6, <1>7, <1>10, <1>11, <1>12 DEF Archive!Accept

\* Losing the tail behind `cut` takes back the kept frames behind it; how many of
\* them end at or before an earlier byte stays the same.
LEMMA TailView ==
  ASSUME MuxerInv, MuxerInv', FileInv, FileInv', NEW cut \in Nat,
         samples' = samples, safe' = safe, durable' = durable,
         \A i \in DOMAIN samples :
           Good(samples[i])' <=>
             /\ Good(samples[i])
             /\ samples[i].offset + samples[i].size <= cut
  PROVE  \E q \in 0 .. Len(Kept) :
           /\ Len(Kept) \in Nat /\ Kept' = SubSeq(Kept, 1, q) /\ Len(Kept') = q
           /\ safe <= cut =>
                /\ Cardinality(Written)' = Cardinality(Written)
                /\ Cardinality(Written) \in 0 .. q
           /\ durable <= cut =>
                /\ Cardinality(WrittenBack)' = Cardinality(WrittenBack)
                /\ Cardinality(WrittenBack) \in 0 .. q
<1> DEFINE L == Len(samples)
           E(i) == samples[i].offset + samples[i].size
<1>3. PICK n \in Nat, m \in Nat, k \in Nat : View(n, m, k)
  BY MappingDefined DEF Viewed
<1>4. PICK n2 \in Nat, m2 \in Nat, k2 \in Nat : View(n2, m2, k2)'
  BY ViewOfNext DEF Viewed
<1>5. /\ L \in Nat /\ safe \in Nat /\ durable \in Nat /\ DOMAIN samples = 1 .. L
      /\ \A i \in 1 .. L : E(i) \in Nat
  BY FileFacts
<1>6. /\ n \in 0 .. L /\ m \in 0 .. n /\ k \in 0 .. m
      /\ \A i \in 1 .. L : Good(samples[i]) <=> i <= n
      /\ \A i \in 1 .. n : (E(i) <= safe <=> i <= m) /\ (E(i) <= durable <=> i <= k)
      /\ Kept = [i \in 1 .. n |-> samples[i].frame]
      /\ Kept \in Seq(Nat) /\ Len(Kept) = n
      /\ Cardinality(Written) = m /\ Cardinality(WrittenBack) = k
  BY <1>3 DEF View
<1>7. /\ n2 \in 0 .. L /\ m2 \in 0 .. n2 /\ k2 \in 0 .. m2
      /\ \A i \in 1 .. L : Good(samples[i])' <=> i <= n2
      /\ \A i \in 1 .. n2 : (E(i) <= safe <=> i <= m2) /\ (E(i) <= durable <=> i <= k2)
      /\ Kept' = [i \in 1 .. n2 |-> samples[i].frame]
      /\ Kept' \in Seq(Nat) /\ Len(Kept') = n2
      /\ Cardinality(Written)' = m2 /\ Cardinality(WrittenBack)' = k2
  BY <1>4 DEF View
<1>cut. \A i \in 1 .. L : Good(samples[i])' <=> Good(samples[i]) /\ E(i) <= cut
  BY <1>5
<1> HIDE DEF E
<1>8. n2 <= n
  <2>1. CASE n2 = 0
    BY <2>1
  <2>2. CASE n2 # 0
    <3>1. n2 \in 1 .. L
      BY <2>2, <1>7
    <3> QED BY <3>1, <1>cut, <1>6, <1>7
  <2> QED BY <2>1, <2>2
\* A bound within the first `a` samples, all of which end at or before the cut.
<1>9. ASSUME NEW a \in 0 .. n, NEW a2 \in 0 .. n2, NEW c \in Nat, c <= cut,
             \A i \in 1 .. n : E(i) <= c <=> i <= a,
             \A i \in 1 .. n2 : E(i) <= c <=> i <= a2
      PROVE  a2 = a
  <2>1. a <= n2
    <3>1. CASE a = 0
      BY <3>1
    <3>2. CASE a # 0
      <4>1. a \in 1 .. n /\ a \in 1 .. L
        BY <3>2, <1>6
      <4>2. E(a) <= cut
        BY <4>1, <1>5, <1>9
      <4>3. Good(samples[a])
        BY <4>1, <1>6
      <4>4. Good(samples[a])'
        BY <4>1, <4>2, <4>3, <1>cut
      <4> QED BY <4>1, <4>4, <1>7
    <3> QED BY <3>1, <3>2
  <2>2. a \in 0 .. n2
    BY <2>1
  <2>3. \A i \in 1 .. n2 : i <= a <=> i <= a2
    <3>1. \A i \in 1 .. n2 : i \in 1 .. n
      BY <1>8
    <3> QED BY <3>1, <1>9
  <2> QED BY <2>2, <2>3, SameBound
<1>10. safe <= cut => m2 = m
  BY <1>5, <1>6, <1>7, <1>9
<1>11. durable <= cut => k2 = k
  <2>1. k \in 0 .. n /\ k2 \in 0 .. n2
    BY <1>6, <1>7
  <2> QED BY <2>1, <1>5, <1>6, <1>7, <1>9
<1>12. Kept' = SubSeq(Kept, 1, n2)
  BY <1>5, <1>6, <1>7, <1>8
<1>13. n2 \in 0 .. Len(Kept) /\ k2 \in 0 .. n2
  BY <1>6, <1>7, <1>8
<1> QED BY <1>6, <1>7, <1>10, <1>11, <1>12, <1>13

\* A failing write takes back the kept frames behind the cut.
LEMMA FailureFails ==
  ASSUME MuxerInv, MuxerInv', FileInv, NEW f \in Frames, WriteVideoFails(f)
  PROVE  Archive!Fail
<1>1. /\ phase = "open" /\ phase' = phase /\ calls' = calls + 1
      /\ failedAt' = IF failedAt = 0 THEN calls + 1 ELSE failedAt
      /\ safe' = safe /\ durable' = durable /\ samples' = samples
  BY DEF WriteVideoFails
<1>2. PICK cut \in Nat :
        /\ safe <= cut
        /\ \A i \in DOMAIN samples :
             Good(samples[i])' <=>
               /\ Good(samples[i])
               /\ samples[i].offset + samples[i].size <= cut
        /\ FileInv'
  BY FailureCutsTail
<1>3. safe \in Nat /\ durable \in Nat /\ durable <= safe /\ calls \in Nat
  BY FileFacts
<1>4. durable <= cut
  BY <1>2, <1>3
<1>5. PICK q \in 0 .. Len(Kept) :
        /\ Len(Kept) \in Nat /\ Kept' = SubSeq(Kept, 1, q)
        /\ Cardinality(Written)' = Cardinality(Written)
        /\ Cardinality(Written) \in 0 .. q
        /\ Cardinality(WrittenBack)' = Cardinality(WrittenBack)
  BY <1>1, <1>2, <1>4, TailView
<1>6. failedAt' # 0
  BY <1>1, <1>3
<1>7. Archive!KeepFrom(Cardinality(Written))
  <2>1. q \in Cardinality(Written) .. Len(Kept)
    BY <1>5
  <2> QED BY <2>1, <1>5 DEF Archive!KeepFrom
<1> QED
  BY <1>1, <1>5, <1>6, <1>7 DEF Archive!Fail

\* A step that leaves the samples' bytes alone and confirms and secures no fewer.
LEMMA QuietView ==
  ASSUME MuxerInv, MuxerInv', FileInv, FileInv',
         samples' = samples, safe' >= safe, durable' >= durable,
         \A i \in DOMAIN samples : Good(samples[i])' <=> Good(samples[i])
  PROVE  /\ Kept' = Kept /\ Kept \in Seq(Nat) /\ Len(Kept) \in Nat
         /\ Cardinality(Written) \in 0 .. Len(Kept)
         /\ Cardinality(Written)' \in Cardinality(Written) .. Len(Kept)
         /\ safe' = safe => Cardinality(Written)' = Cardinality(Written)
         /\ Cardinality(WrittenBack)' \in
              Cardinality(WrittenBack) .. Cardinality(Written)'
         /\ durable' = durable =>
              Cardinality(WrittenBack)' = Cardinality(WrittenBack)
<1> DEFINE L == Len(samples)
           E(i) == samples[i].offset + samples[i].size
<1>3. PICK n \in Nat, m \in Nat, k \in Nat : View(n, m, k)
  BY MappingDefined DEF Viewed
<1>4. PICK n2 \in Nat, m2 \in Nat, k2 \in Nat : View(n2, m2, k2)'
  BY ViewOfNext DEF Viewed
<1>5. /\ L \in Nat /\ safe \in Nat /\ safe' \in Nat /\ DOMAIN samples = 1 .. L
      /\ durable \in Nat /\ durable' \in Nat
      /\ \A i \in 1 .. L : E(i) \in Nat
  <2>1. safe' \in Nat /\ durable' \in Nat
    BY DEF MuxerInv, TypeOK
  <2> QED BY <2>1, FileFacts
<1>6. /\ n \in 0 .. L /\ m \in 0 .. n /\ k \in 0 .. m
      /\ \A i \in 1 .. L : Good(samples[i]) <=> i <= n
      /\ \A i \in 1 .. n : (E(i) <= safe <=> i <= m) /\ (E(i) <= durable <=> i <= k)
      /\ Kept = [i \in 1 .. n |-> samples[i].frame]
      /\ Kept \in Seq(Nat) /\ Len(Kept) = n
      /\ Cardinality(Written) = m /\ Cardinality(WrittenBack) = k
  BY <1>3 DEF View
<1>7. /\ n2 \in 0 .. L /\ m2 \in 0 .. n2 /\ k2 \in 0 .. m2
      /\ \A i \in 1 .. L : Good(samples[i])' <=> i <= n2
      /\ \A i \in 1 .. n2 :
           (E(i) <= safe' <=> i <= m2) /\ (E(i) <= durable' <=> i <= k2)
      /\ Kept' = [i \in 1 .. n2 |-> samples[i].frame]
      /\ Cardinality(Written)' = m2 /\ Cardinality(WrittenBack)' = k2
  BY <1>4 DEF View
<1> HIDE DEF E
<1>8. n2 = n
  BY <1>5, <1>6, <1>7, SameBound
<1>9. ASSUME NEW a \in 0 .. n, NEW a2 \in 0 .. n, NEW c \in Nat, NEW c2 \in Nat,
             c <= c2,
             \A i \in 1 .. n : E(i) <= c <=> i <= a,
             \A i \in 1 .. n : E(i) <= c2 <=> i <= a2
      PROVE  a <= a2 /\ (c = c2 => a = a2)
  <2>1. a <= a2
    <3>1. CASE a = 0
      BY <3>1
    <3>2. CASE a # 0
      <4>1. a \in 1 .. n /\ a \in 1 .. L
        BY <3>2, <1>6
      <4> QED BY <4>1, <1>5, <1>9
    <3> QED BY <3>1, <3>2
  <2>2. c = c2 => a = a2
    BY <1>9, SameBound
  <2> QED BY <2>1, <2>2
<1>10. m <= m2 /\ (safe' = safe => m2 = m)
  BY <1>5, <1>6, <1>7, <1>8, <1>9
<1>11. k <= k2 /\ (durable' = durable => k2 = k)
  <2>1. k \in 0 .. n /\ k2 \in 0 .. n
    BY <1>6, <1>7, <1>8
  <2> QED BY <2>1, <1>5, <1>6, <1>7, <1>8, <1>9
<1> QED BY <1>6, <1>7, <1>8, <1>10, <1>11

\* The muxer goes and leaves the file without its index: what was written before
\* the first failure is kept.
LEMMA EndLoses ==
  ASSUME MuxerInv, MuxerInv', FileInv, FileInv', NewFails \/ Abandon \/ FinishFails
  PROVE  Archive!Lose
<1> USE DEF muxer, hist
<1>1. /\ phase \in {"new", "open", "patched"} /\ phase' = "lost"
      /\ samples' = samples /\ calls' = calls /\ failedAt' = failedAt
      /\ safe' = safe /\ durable' = durable
  BY DEF NewFails, Abandon, FinishFails
<1>2. /\ safe \in Nat /\ durable \in Nat /\ durable <= safe /\ synced \in Nat
      /\ phase # "new" => safe <= synced
  BY <1>1, FileFacts DEF MuxerInv, WriterPosition
<1>3. SUFFICES /\ Archive!KeepFrom(Cardinality(Written))
               /\ Cardinality(Written)' = Cardinality(Written)
               /\ Cardinality(WrittenBack)' = Cardinality(WrittenBack)
  BY <1>1 DEF Archive!Lose
<1>4. CASE \A i \in DOMAIN samples : Good(samples[i])' <=> Good(samples[i])
  <2>1. /\ Kept' = Kept /\ Kept \in Seq(Nat) /\ Len(Kept) \in Nat
        /\ Cardinality(Written) \in 0 .. Len(Kept)
        /\ Cardinality(Written)' = Cardinality(Written)
        /\ Cardinality(WrittenBack)' = Cardinality(WrittenBack)
    BY <1>1, <1>2, <1>4, QuietView
  <2>2. Kept' = SubSeq(Kept, 1, Len(Kept))
    BY <2>1
  <2>3. Len(Kept) \in Cardinality(Written) .. Len(Kept)
    BY <2>1
  <2> QED BY <2>1, <2>2, <2>3 DEF Archive!KeepFrom
<1>5. CASE phase # "new" /\ \E cut \in Ends(synced) : disk' = CutAt(cut)
  <2>1. PICK cut \in Ends(synced) : disk' = CutAt(cut)
    BY <1>5
  <2>2. cut \in Nat /\ synced <= cut
    BY <1>2, EndsAfter
  <2>3. safe <= cut /\ durable <= cut
    BY <2>2, <1>2, <1>5
  <2>4. \A i \in DOMAIN samples :
          Good(samples[i])' <=>
            /\ Good(samples[i])
            /\ samples[i].offset + samples[i].size <= cut
    BY <2>1, <2>2, <1>1, EndCutsTail
  <2>5. PICK q \in 0 .. Len(Kept) :
          /\ Len(Kept) \in Nat /\ Kept' = SubSeq(Kept, 1, q)
          /\ Cardinality(Written)' = Cardinality(Written)
          /\ Cardinality(Written) \in 0 .. q
          /\ Cardinality(WrittenBack)' = Cardinality(WrittenBack)
    BY <2>2, <2>3, <2>4, <1>1, TailView
  <2>6. q \in Cardinality(Written) .. Len(Kept)
    BY <2>5
  <2> QED BY <2>5, <2>6 DEF Archive!KeepFrom
<1>6. CASE NewFails
  <2>1. samples = << >>
    BY <1>6 DEF NewFails, MuxerInv, Untouched
  <2> QED BY <2>1, <1>4
<1>7. CASE Abandon
  BY <1>5, <1>7 DEF Abandon
<1>8. CASE FinishFails
  <2>1. CASE \E cut \in Ends(synced) : disk' = CutAt(cut)
    BY <2>1, <1>5, <1>8 DEF FinishFails
  <2>2. CASE \E len \in 1 .. MoovSize : disk' = disk \cup {Extent(moov_pos, len, 0)}
    <3>1. PICK len \in 1 .. MoovSize :
            disk' = disk \cup {Extent(mdat_start + bytes_written, len, 0)}
      BY <2>2 DEF moov_pos
    <3>2. len \in Nat
      BY MuxerConstants
    <3> QED BY <3>1, <3>2, <1>1, <1>4, QuietKeepsFileInv
  <2> QED BY <2>1, <2>2, <1>8 DEF FinishFails
<1> QED BY <1>6, <1>7, <1>8

LEMMA PowerLossLoses ==
  ASSUME MuxerInv, MuxerInv', FileInv, FileInv', PowerLoss
  PROVE  Archive!PowerLoss
<1> USE DEF muxer, hist
<1>1. PICK cut \in Ends(durable) : disk' = CutAt(cut)
  BY DEF PowerLoss
<1>2. /\ phase \notin {"new", "off"} /\ phase' = "off"
      /\ samples' = samples /\ calls' = calls /\ failedAt' = failedAt
      /\ safe' = safe /\ durable' = durable
  BY DEF PowerLoss
<1>3. cut \in Nat /\ durable <= cut
  BY FileFacts, EndsAfter
<1>4. \A i \in DOMAIN samples :
        Good(samples[i])' <=>
          /\ Good(samples[i])
          /\ samples[i].offset + samples[i].size <= cut
  BY <1>1, <1>2, <1>3, EndCutsTail
<1>5. PICK q \in 0 .. Len(Kept) :
        /\ Len(Kept) \in Nat /\ Kept' = SubSeq(Kept, 1, q)
        /\ Cardinality(WrittenBack) \in 0 .. q
  BY <1>2, <1>3, <1>4, TailView
<1>6. Archive!KeepFrom(Cardinality(WrittenBack))
  <2>1. q \in Cardinality(WrittenBack) .. Len(Kept)
    BY <1>5
  <2> QED BY <2>1, <1>5 DEF Archive!KeepFrom
<1> QED BY <1>2, <1>6 DEF Archive!PowerLoss

LEMMA StepsOfArchive ==
  MuxerInv /\ MuxerInv' /\ FileInv /\ FileInv' /\ [Next]_vars
    => [Archive!Next]_Archive!archive
<1> SUFFICES ASSUME MuxerInv, MuxerInv', FileInv, FileInv', [Next]_vars
             PROVE  Archive!Next \/ UNCHANGED Archive!archive
  OBVIOUS
<1> USE DEF muxer, file, hist
<1>0. /\ safe \in Nat /\ pos \in Nat /\ synced \in Nat /\ durable \in Nat
      /\ phase = "open" => safe <= synced /\ synced <= pos
      /\ durable <= safe /\ safe' \in Nat
  BY DEF MuxerInv, TypeOK, WriterPosition
<1>1. CASE New
  <2>1. /\ samples' = samples /\ samples = << >> /\ calls' = calls
        /\ failedAt' = failedAt /\ durable' = durable
        /\ phase = "new" /\ phase' = "open" /\ safe = 0 /\ safe' \in Nat
    BY <1>1, MdatStartNat DEF New, MuxerInv, Untouched
  <2>2. \A i \in DOMAIN samples : Good(samples[i])' <=> Good(samples[i])
    BY <2>1
  <2>3. safe' >= safe /\ durable' >= durable
    BY <2>1, <1>0
  <2>4. /\ Kept' = Kept
        /\ Cardinality(Written)' \in Cardinality(Written) .. Len(Kept)
        /\ Cardinality(WrittenBack)' = Cardinality(WrittenBack)
    BY <2>1, <2>2, <2>3, QuietView
  <2>5. Archive!Confirm
    BY <2>1, <2>4 DEF Archive!Confirm
  <2> QED BY <2>5 DEF Archive!Next
<1>2. ASSUME NEW f \in Frames, WriteVideo(f) PROVE Archive!Next
  BY <1>2, WriteAccepts DEF Archive!Next
<1>3. ASSUME NEW f \in Frames, WriteVideoFails(f) PROVE Archive!Next
  BY <1>3, FailureFails DEF Archive!Next
<1>4. CASE Sync
  <2>1. /\ samples' = samples /\ calls' = calls /\ failedAt' = failedAt
        /\ disk' = disk /\ phase = "open" /\ phase' = phase
        /\ safe' = IF failedAt = 0 THEN pos ELSE safe
        /\ durable' = durable
    BY <1>4 DEF Sync, Confirm
  <2>2. \A i \in DOMAIN samples : Good(samples[i])' <=> Good(samples[i])
    BY <2>1, QuietKeepsFileInv
  <2>3. safe' >= safe /\ durable' >= durable
    BY <2>1, <1>0
  <2>4. /\ Kept' = Kept
        /\ Cardinality(Written)' \in Cardinality(Written) .. Len(Kept)
        /\ Cardinality(WrittenBack)' = Cardinality(WrittenBack)
    BY <2>1, <2>2, <2>3, QuietView
  <2>5. Archive!Confirm
    BY <2>1, <2>4 DEF Archive!Confirm
  <2> QED BY <2>5 DEF Archive!Next
<1>5. CASE FinishMoov
  <2>1. /\ samples' = samples /\ calls' = calls /\ failedAt' = failedAt
        /\ disk' = disk \cup {Extent(mdat_start + bytes_written, MoovSize, 0)}
        /\ phase = "patched" /\ phase' = "sealed" /\ durable' = durable
    BY <1>5 DEF FinishMoov, moov_pos
  <2>2. \A i \in DOMAIN samples : Good(samples[i])' <=> Good(samples[i])
    BY <2>1, MuxerConstants, QuietKeepsFileInv
  <2>3. safe' >= safe /\ durable' >= durable
    BY <2>1, <1>0, <1>5, FinishMoovKeepsInv
  <2>4. Kept' = Kept /\ Cardinality(WrittenBack)' = Cardinality(WrittenBack)
    BY <2>1, <2>2, <2>3, QuietView
  <2>5. Archive!Seal
    BY <2>1, <2>4 DEF Archive!Seal
  <2> QED BY <2>5 DEF Archive!Next
<1>6. CASE WriteBack
  <2>1. /\ samples' = samples /\ calls' = calls /\ failedAt' = failedAt
        /\ disk' = disk /\ phase' = phase /\ phase # "off"
        /\ safe' = safe /\ durable' = safe
    BY <1>6 DEF WriteBack
  <2>2. \A i \in DOMAIN samples : Good(samples[i])' <=> Good(samples[i])
    BY <2>1, QuietKeepsFileInv
  <2>3. safe' >= safe /\ durable' >= durable
    BY <2>1, <1>0
  <2>4. /\ Kept' = Kept /\ Len(Kept) \in Nat
        /\ Cardinality(Written)' = Cardinality(Written)
        /\ Cardinality(Written) \in 0 .. Len(Kept)
        /\ Cardinality(WrittenBack)' \in
             Cardinality(WrittenBack) .. Cardinality(Written)
    BY <2>1, <2>2, <2>3, QuietView
  <2>5. Cardinality(WrittenBack)' \in Cardinality(WrittenBack) .. Len(Kept)
    BY <2>4
  <2>6. Archive!Secure
    BY <2>1, <2>4, <2>5 DEF Archive!Secure
  <2> QED BY <2>6 DEF Archive!Next
<1>7. CASE FinishHeader \/ UNCHANGED vars
  <2>1. /\ samples' = samples /\ calls' = calls /\ failedAt' = failedAt
        /\ disk' = disk /\ safe' = safe /\ durable' = durable
        /\ phase' = phase \/ (phase = "open" /\ phase' = "patched")
    <3>1. CASE FinishHeader
      BY <3>1 DEF FinishHeader
    <3>2. CASE UNCHANGED vars
      <4>1. UNCHANGED <<phase, samples, calls, failedAt, disk, safe, durable>>
        BY <3>2 DEF vars
      <4> QED BY <4>1
    <3> QED BY <1>7, <3>1, <3>2
  <2>2. \A i \in DOMAIN samples : Good(samples[i])' <=> Good(samples[i])
    BY <2>1, QuietKeepsFileInv
  <2>3. safe' >= safe /\ durable' >= durable
    BY <2>1, <1>0
  <2>4. /\ Kept' = Kept /\ Cardinality(Written)' = Cardinality(Written)
        /\ Cardinality(WrittenBack)' = Cardinality(WrittenBack)
    BY <2>1, <2>2, <2>3, QuietView
  <2>5. UNCHANGED Archive!archive
    BY <2>1, <2>4 DEF Archive!archive
  <2> QED BY <2>5
<1>8. CASE NewFails \/ Abandon \/ FinishFails
  BY <1>8, EndLoses DEF Archive!Next
<1>9. CASE PowerLoss
  BY <1>9, PowerLossLoses DEF Archive!Next
<1> QED BY <1>1, <1>2, <1>3, <1>4, <1>5, <1>6, <1>7, <1>8, <1>9 DEF Next

\* The muxer of muxer.rs keeps the promise of FrameArchive whatever frames it is
\* given and whichever writes fail: a frame is appended; a failing write, and a
\* finish that fails or breaks off, takes back unconfirmed frames only; sealing
\* confirms what is left; a power loss takes no frame that was written back.
THEOREM MuxerImplementsArchive == Spec => ImplementsArchive
<1>1. Init => Archive!Init
  <2> SUFFICES ASSUME Init PROVE Archive!Init
    OBVIOUS
  <2>1. samples = << >> /\ calls = 0 /\ failedAt = 0 /\ phase = "new"
    BY DEF Init
  <2>2. Recovered = {} /\ Written = {} /\ WrittenBack = {}
    BY <2>1 DEF Recovered, Written, WrittenBack, Before
  <2>3. Kept = << >>
    BY <2>2 DEF Kept
  <2>4. Cardinality(Written) = 0 /\ Cardinality(WrittenBack) = 0
    BY <2>2, FS_EmptySet
  <2> QED BY <2>1, <2>3, <2>4 DEF Archive!Init
<1>2. MuxerInv /\ MuxerInv' /\ FileInv /\ FileInv' /\ [Next]_vars
        => [Archive!Next]_Archive!archive
  BY StepsOfArchive
<1> QED
  BY <1>1, <1>2, MuxerInvariant, DamageIsATail, PTL
  DEF Spec, ImplementsArchive, Archive!Spec
=============================================================================
