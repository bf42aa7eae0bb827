------------------------------ MODULE Mp4Muxer ------------------------------
(***************************************************************************)
(* The HEVC-only MP4 muxer of crates/atometd/src/muxer.rs, from new to the *)
(* end of finish, over one file.  The file is a set of extents (position,  *)
(* length and the frame the bytes belong to); byte values are abstracted,  *)
(* positions and sizes are the real ones.  Frame 0 stands for box bytes.   *)
(*                                                                         *)
(* The writer is a BufWriter over tokio::fs::File: a write is accepted     *)
(* before it is written, and the error of a background write is reported   *)
(* by a LATER call, when accepted bytes are already gone.  Nothing is ever *)
(* fsynced: what is written survives the daemon, and survives a power cut  *)
(* only from when the kernel has written it back.                          *)
(***************************************************************************)
EXTENDS Integers, Sequences, FiniteSets

CONSTANTS
  FtypSize,     \* bytes of the ftyp box (28 in the code)
  HeaderSize,   \* bytes of the largesize mdat header (16)
  PrefixSize,   \* length prefix that replaces a start code (4)
  MoovSize,     \* bytes of the moov box; only its being positive matters
  OffsetLimit,  \* first offset that does not fit u32 (2^32)
  Frames,       \* the frames the encoder can deliver
  MaxFrames     \* bound: write_video calls per file

FrameShape == [nals : Nat \ {0}, bytes : Nat \ {0}, key : BOOLEAN]

ASSUME MuxerConstants ==
  /\ FtypSize \in Nat /\ HeaderSize \in Nat \ {0} /\ PrefixSize \in Nat
  /\ MoovSize \in Nat \ {0} /\ OffsetLimit \in Nat \ {0}
  /\ Frames \subseteq FrameShape
  /\ MaxFrames \in Nat

VARIABLES
  phase,         \* "new", "open", "patched", then "sealed" or "lost"; "off"
  disk,          \* extents of the file, written or still in a buffer
  pos,           \* where the writer's next byte lands
  synced,        \* bytes before this position are written: the kernel has them
  bytes_written, \* the muxer's own count of mdat payload bytes
  samples,       \* the sample table under construction
  param_frame,   \* frame VPS/SPS/PPS were taken from, 0 before extraction
  largesize,     \* mdat size in the header, 0 until finish patches it
  moov,          \* the chunk table as finish encoded it, << >> before
  calls,         \* history: write_video calls so far; also names the frames
  failedAt,      \* history: the first call that failed, 0 if none
  safe,          \* history: synced as it was before the first failure
  durable        \* history: safe when the kernel last wrote back all it had

muxer == <<bytes_written, samples, param_frame>>
file  == <<disk, pos, synced, largesize, moov>>
hist  == <<calls, failedAt, safe, durable>>
vars  == <<phase, muxer, file, hist>>

mdat_start == FtypSize + HeaderSize

\* 4-byte prefix per NAL unit instead of its start code.
frame_size(f) == f.bytes + PrefixSize * f.nals

Extent(at, len, frame) == [at |-> at, len |-> len, frame |-> frame]

Apart(at, len, e) == e.at + e.len <= at \/ at + len <= e.at

\* A file after every byte from position `cut` on was lost.
Cut(extents, cut) ==
  {[e EXCEPT !.len = IF e.at + e.len <= cut THEN e.len ELSE cut - e.at] :
     e \in {x \in extents : x.at < cut}}

CutAt(cut) == Cut(disk, cut)

\* Where the file may end after bytes from position `from` on were lost.
Ends(from) == {c \in UNION {e.at .. e.at + e.len : e \in disk} : c >= from}

-----------------------------------------------------------------------------

Init ==
  /\ phase = "new"
  /\ disk = {} /\ pos = 0 /\ synced = 0
  /\ bytes_written = 0 /\ samples = << >> /\ param_frame = 0
  /\ largesize = 0 /\ moov = << >>
  /\ calls = 0 /\ failedAt = 0 /\ safe = 0 /\ durable = 0

Headers == {Extent(0, FtypSize, 0), Extent(FtypSize, HeaderSize, 0)}

\* Mp4Muxer::new: ftyp, then an mdat header whose size is patched at the end.
\* stream_position flushes, so a muxer that exists has its header written.
New ==
  /\ phase = "new"
  /\ phase' = "open"
  /\ disk' = Headers
  /\ pos' = mdat_start /\ synced' = mdat_start /\ safe' = mdat_start
  /\ UNCHANGED <<largesize, moov, muxer, calls, failedAt, durable>>

\* new returning Err: the file is left with a part of its headers.
NewFails ==
  /\ phase = "new"
  /\ phase' = "lost"
  /\ \E cut \in 0 .. mdat_start : disk' = Cut(Headers, cut)
  /\ UNCHANGED <<pos, synced, largesize, moov, muxer, hist>>

\* Mutated form: every key frame replaces the parameter sets.
ExtractAlways(f) == param_frame' = IF f.key THEN calls + 1 ELSE param_frame

\* Parameter sets are looked for in the first key frame only.
ExtractParamSets(f) ==
  param_frame' = IF param_frame = 0 /\ f.key THEN calls + 1 ELSE param_frame

\* Mutated form: the offset is taken after the count was advanced.
SampleAfterCount(f) ==
  [offset |-> mdat_start + bytes_written + frame_size(f),
   size |-> frame_size(f), key |-> f.key, frame |-> calls + 1]

NewSample(f) ==
  [offset |-> mdat_start + bytes_written,
   size |-> frame_size(f), key |-> f.key, frame |-> calls + 1]

\* write_video returning Ok: the bytes were accepted by the writer.
WriteVideo(f) ==
  /\ phase = "open" /\ calls < MaxFrames
  /\ ExtractParamSets(f)
  /\ disk' = disk \cup {Extent(pos, frame_size(f), calls + 1)}
  /\ pos' = pos + frame_size(f)
  /\ samples' = Append(samples, NewSample(f))
  /\ bytes_written' = bytes_written + frame_size(f)
  /\ calls' = calls + 1
  /\ UNCHANGED <<phase, synced, largesize, moov, failedAt, safe, durable>>

\* write_video returning Err through a `?`: unconfirmed bytes are lost from
\* `cut` on, or part of this frame stays in the file; nothing is counted.
WriteVideoFails(f) ==
  /\ phase = "open" /\ calls < MaxFrames
  /\ ExtractParamSets(f)
  /\ \E cut \in synced .. pos + frame_size(f) - 1 :
       /\ disk' = IF cut > pos
                  THEN disk \cup {Extent(pos, cut - pos, calls + 1)}
                  ELSE CutAt(cut)
       /\ pos' = cut
  /\ calls' = calls + 1
  /\ failedAt' = IF failedAt = 0 THEN calls + 1 ELSE failedAt
  /\ UNCHANGED <<phase, synced, largesize, moov, bytes_written, samples, safe, durable>>

Confirm == safe' = IF failedAt = 0 THEN synced' ELSE safe

\* A background write completes.
Sync ==
  /\ phase = "open" /\ synced < pos
  /\ synced' = pos
  /\ Confirm
  /\ UNCHANGED <<phase, disk, pos, largesize, moov, muxer, calls, failedAt, durable>>

\* The kernel has written back all it had of the file.
WriteBack ==
  /\ phase # "off" /\ durable < safe
  /\ durable' = safe
  /\ UNCHANGED <<phase, muxer, file, calls, failedAt, safe>>

mdat_total == HeaderSize + bytes_written

\* finish, first half: seek back and patch the mdat size.  The seek hands the
\* buffer to a background write, whose error the second half reports.
FinishHeader ==
  /\ phase = "open"
  /\ phase' = "patched"
  /\ largesize' = mdat_total
  /\ pos' = mdat_start
  /\ UNCHANGED <<disk, synced, moov, muxer, hist>>

\* Mutated form: offsets are always cut down to 32 bits.
ChunkOffsetNarrow(s) == s.offset % OffsetLimit

\* stco when every offset fits u32, otherwise co64.
ChunkOffset(s) ==
  IF \E i \in DOMAIN samples : samples[i].offset >= OffsetLimit
  THEN s.offset
  ELSE s.offset % OffsetLimit

build_moov ==
  [i \in DOMAIN samples |->
     [offset |-> ChunkOffset(samples[i]), size |-> samples[i].size,
      sync |-> samples[i].key]]

\* Mutated form: the ftyp box is forgotten.
MoovAfterHeader == HeaderSize + bytes_written

moov_pos == mdat_start + bytes_written

\* finish, second half: seek to the end of mdat, append moov, flush.
FinishMoov ==
  /\ phase = "patched"
  /\ phase' = "sealed"
  /\ disk' = disk \cup {Extent(moov_pos, MoovSize, 0)}
  /\ pos' = moov_pos + MoovSize /\ synced' = pos'
  /\ moov' = build_moov
  /\ Confirm
  /\ UNCHANGED <<largesize, muxer, calls, failedAt, durable>>

\* The muxer goes before finish has patched anything: its first seek fails, or
\* the task or the daemon ends.  Accepted bytes that were not written are lost.
Abandon ==
  /\ phase = "open"
  /\ phase' = "lost"
  /\ \E cut \in Ends(synced) : disk' = CutAt(cut)
  /\ UNCHANGED <<pos, synced, largesize, moov, muxer, hist>>

\* finish returns Err after the patch, or the daemon ends meanwhile.  Either the
\* frames' last bytes were not written, and the patch perhaps not either, or
\* moov is missing or in part there.
FinishFails ==
  /\ phase = "patched"
  /\ phase' = "lost"
  /\ \/ /\ \E cut \in Ends(synced) : disk' = CutAt(cut)
        /\ largesize' \in {0, largesize}
     \/ /\ \E len \in 1 .. MoovSize : disk' = disk \cup {Extent(moov_pos, len, 0)}
        /\ UNCHANGED largesize
  /\ UNCHANGED <<pos, synced, moov, muxer, hist>>

\* The power goes: of what the kernel had not written back any tail is lost, of a
\* sealed file too.  What it may have kept behind the first lost byte counts as
\* lost: nothing leads a reader there.
PowerLoss ==
  /\ phase \notin {"new", "off"}
  /\ phase' = "off"
  /\ \E cut \in Ends(durable) : disk' = CutAt(cut)
  /\ largesize' \in {0, largesize}
  /\ UNCHANGED <<pos, synced, moov, muxer, hist>>

Next ==
  \/ New \/ NewFails
  \/ \E f \in Frames : WriteVideo(f) \/ WriteVideoFails(f)
  \/ Sync \/ WriteBack
  \/ FinishHeader \/ FinishMoov \/ FinishFails
  \/ Abandon \/ PowerLoss

Spec == Init /\ [][Next]_vars

-----------------------------------------------------------------------------
(* Properties *)

Sample == [offset : Nat, size : Nat, key : BOOLEAN, frame : Nat]

TypeOK ==
  /\ phase \in {"new", "open", "patched", "sealed", "lost", "off"}
  /\ disk \subseteq [at : Nat, len : Nat, frame : Nat]
  /\ pos \in Nat /\ synced \in Nat
  /\ bytes_written \in Nat /\ samples \in Seq(Sample)
  /\ param_frame \in Nat /\ largesize \in Nat
  /\ moov \in Seq([offset : Nat, size : Nat, sync : BOOLEAN])
  /\ calls \in Nat /\ failedAt \in Nat /\ safe \in Nat /\ durable \in Nat

\* The bytes at the sample's offset are exactly the frame it describes, and
\* nothing else in the file overlaps them.
Intact(s) ==
  /\ Extent(s.offset, s.size, s.frame) \in disk
  /\ \A e \in disk : e.frame # s.frame => Apart(s.offset, s.size, e)

\* Accepted before anything went wrong.
BeforeFailure(s) == failedAt = 0 \/ s.frame < failedAt

\* The samples cover the payload the mdat header announces, in order and
\* without gap or overlap, whatever writes failed in between.
SamplesTile ==
  /\ \A i \in DOMAIN samples :
       samples[i].offset + samples[i].size =
         IF i = Len(samples) THEN mdat_start + bytes_written
                             ELSE samples[i + 1].offset
  /\ IF samples = << >> THEN bytes_written = 0
                        ELSE samples[1].offset = mdat_start

\* What no failure takes: bytes written before the first one, and of those the
\* ones written back once the power was lost.
Held == IF phase = "off" THEN durable ELSE safe

\* A sample written before the first failing write stays intact (muxer.rs:71-128):
\* no later failure, patch or moov touches it, nor does a finish that fails or is
\* cut off; a power loss takes it only if it was not written back.  Until then,
\* and without a failure, every sample is intact, written or not.
ConfirmedKept ==
  \A i \in DOMAIN samples :
    /\ BeforeFailure(samples[i])
    /\ \/ samples[i].offset + samples[i].size <= Held
       \/ failedAt = 0 /\ phase \notin {"lost", "off"}
    => Intact(samples[i])

\* In a sealed file the mdat box ends exactly where moov begins, and moov lies
\* behind every sample: a box parser finds both (finish, muxer.rs:109-128).
SealedLayout ==
  phase = "sealed" =>
    /\ Extent(FtypSize + largesize, MoovSize, 0) \in disk
    /\ \A i \in DOMAIN samples :
         samples[i].offset + samples[i].size <= FtypSize + largesize

\* What a player finds at a chunk of the encoded table, 0 for anything but
\* one whole frame.
FrameAt(chunk) ==
  LET hits == {e \in disk : ~Apart(chunk.offset, chunk.size, e)}
  IN  IF \E e \in hits : hits = {e} /\ e.at = chunk.offset /\ e.len = chunk.size
      THEN (CHOOSE e \in hits : TRUE).frame
      ELSE 0

\* A recording sealed without a write error plays back every frame given to
\* write_video, in order: the encoded table (stco or co64) leads to them.
SealedPlaysBack ==
  phase = "sealed" /\ failedAt = 0 =>
    /\ Len(moov) = calls
    /\ \A i \in DOMAIN moov : FrameAt(moov[i]) = i

\* Once a key frame is in the table the decoder configuration is known, and it
\* is that of a frame no later than the first key sample.
ParamSetsKnown ==
  \A i \in DOMAIN samples :
    samples[i].key => param_frame \in 1 .. samples[i].frame

\* The comment on Sample.offset (muxer.rs:29), "the offset within the file":
\* the sample just accepted is where its offset says.
OffsetIsFilePosition ==
  LET last == samples[Len(samples)]
  IN  phase = "open" /\ samples # << >> /\ last.frame = calls =>
        Extent(last.offset, last.size, last.frame) \in disk

-----------------------------------------------------------------------------
(* The muxer implements the archive it promises to be. *)

Good(s) == BeforeFailure(s) /\ Intact(s)

\* The samples up to the first one that is damaged.
Recovered == {i \in DOMAIN samples : \A j \in 1 .. i : Good(samples[j])}

Kept == [i \in Recovered |-> samples[i].frame]

Before(end) == {i \in Recovered : samples[i].offset + samples[i].size <= end}

Written == Before(safe)

WrittenBack == Before(durable)

Archive == INSTANCE FrameArchive WITH
  offered   <- calls,
  kept      <- Kept,
  confirmed <- IF phase \in {"sealed", "off"} THEN Len(Kept) ELSE Cardinality(Written),
  secured   <- IF phase = "off" THEN Len(Kept) ELSE Cardinality(WrittenBack),
  damaged   <- failedAt # 0,
  status    <- IF phase \in {"sealed", "lost", "off"} THEN phase ELSE "recording"

\* Every step of the muxer is a step of the archive or leaves it alone, a finish
\* that fails half way and a power cut included (muxer.rs:71-128).
ImplementsArchive == Archive!Spec
=============================================================================
