----------------------------- MODULE HevcBytes ------------------------------
(***************************************************************************)
(* The bytes of a frame on their way into a file: copied out of the        *)
(* encoder's ring buffer (crates/atometd/src/isp.rs:495-521), split into   *)
(* NAL units at Annex B start codes, written with length prefixes, and     *)
(* counted in the sample tables (muxer.rs).  Bytes are numbers, positions  *)
(* count from 1.                                                           *)
(***************************************************************************)
EXTENDS Integers, Sequences

\* The least element of S that is at least `from`, or `none`.
FirstFrom(S, from, none) ==
  LET later == {i \in S : i >= from}
  IN  IF later = {} THEN none ELSE CHOOSE i \in later : \A j \in later : i <= j

-----------------------------------------------------------------------------
(* Out of the ring buffer *)

\* The pack at `offset`, in one part or two.
get_pack_data(ring, offset, length) ==
  LET rem_size == Len(ring) - offset
  IN  IF rem_size < length
      THEN SubSeq(ring, offset + 1, Len(ring)) \o SubSeq(ring, 1, length - rem_size)
      ELSE SubSeq(ring, offset + 1, offset + length)

-----------------------------------------------------------------------------
(* NAL units *)

\* Mutated form: only the short start code is known.
ShortStartCode(d, i) == i + 2 <= Len(d) /\ d[i] = 0 /\ d[i + 1] = 0 /\ d[i + 2] = 1

\* A start code of three or four bytes begins at i.
StartCode(d, i) ==
  /\ i + 2 <= Len(d) /\ d[i] = 0 /\ d[i + 1] = 0
  /\ \/ d[i + 2] = 1
     \/ i + 3 <= Len(d) /\ d[i + 2] = 0 /\ d[i + 3] = 1

None(d) == Len(d) + 1

find_next_start(d, from) == FirstFrom({i \in DOMAIN d : StartCode(d, i)}, from, None(d))

sc_len(d, start) == IF d[start + 2] = 1 THEN 3 ELSE 4

\* What AnnexBIter has found, and the position it is at: the next unit joins the others
\* unless it is empty.
NextNal(d, at) ==
  LET start     == find_next_start(d, at.pos)
      nal_start == start + sc_len(d, start)
      nal_end   == find_next_start(d, nal_start)
  IN  IF start = None(d) THEN at
      ELSE [pos  |-> nal_end,
            nals |-> IF nal_start = nal_end THEN at.nals
                     ELSE Append(at.nals, SubSeq(d, nal_start, nal_end - 1))]

\* Run to its end, which it reaches in fewer turns than there are bytes.
Nals(d) ==
  LET at[k \in 0 .. Len(d)] ==
        IF k = 0 THEN [pos |-> 1, nals |-> << >>] ELSE NextNal(d, at[k - 1])
  IN  at[Len(d)].nals

nal_type(nal) == (nal[1] \div 2) % 64

ParamTypes == 32 .. 34   \* VPS, SPS, PPS

\* extract_hevc_param_sets: what a unit makes of the three sets, and all of them do.
Known(sets, nal) ==
  IF Len(nal) >= 2 /\ nal_type(nal) \in ParamTypes
  THEN [sets EXCEPT ![nal_type(nal)] = nal] ELSE sets

extract(d, old) ==
  LET nals == Nals(d)
      sets[k \in 0 .. Len(nals)] == IF k = 0 THEN old ELSE Known(sets[k - 1], nals[k])
  IN  sets[Len(nals)]

to_be_bytes(n) == <<(n \div 16777216) % 256, (n \div 65536) % 256, (n \div 256) % 256, n % 256>>

\* What write_video hands to the writer for its units, and the size it counts.
LengthPrefixed(nals) ==
  LET out[k \in 0 .. Len(nals)] ==
        IF k = 0 THEN << >> ELSE out[k - 1] \o to_be_bytes(Len(nals[k])) \o nals[k]
  IN  out[Len(nals)]

frame_size(nals) ==
  LET size[k \in 0 .. Len(nals)] == IF k = 0 THEN 0 ELSE size[k - 1] + 4 + Len(nals[k])
  IN  size[Len(nals)]

-----------------------------------------------------------------------------
(* Sample tables; a sample has a duration and is_key *)

\* build_stts: runs of equal durations.
Counted(entries, duration) ==
  IF entries # << >> /\ entries[Len(entries)].duration = duration
  THEN [entries EXCEPT ![Len(entries)].count = @ + 1]
  ELSE Append(entries, [count |-> 1, duration |-> duration])

build_stts(samples) ==
  LET entries[k \in 0 .. Len(samples)] ==
        IF k = 0 THEN << >> ELSE Counted(entries[k - 1], samples[k].duration)
  IN  entries[Len(samples)]

\* build_stss: the numbers of the key frames.
build_stss(samples) ==
  LET keyframes[k \in 0 .. Len(samples)] ==
        IF k = 0 THEN << >>
        ELSE IF samples[k].is_key THEN Append(keyframes[k - 1], k) ELSE keyframes[k - 1]
  IN  keyframes[Len(samples)]

total_duration(samples) ==
  LET sum[k \in 0 .. Len(samples)] == IF k = 0 THEN 0 ELSE sum[k - 1] + samples[k].duration
  IN  sum[Len(samples)]

-----------------------------------------------------------------------------
(* Properties *)

\* A pack is the bytes of the ring from its offset on, around the end if need be
\* (isp.rs:495-521).
PackWhole(ring, offset, length) ==
  get_pack_data(ring, offset, length) =
    [i \in 1 .. length |-> ring[1 + ((offset + i - 1) % Len(ring))]]

\* The bytes between one start code and the next, by where 00 00 01 stands: a zero
\* before it belongs to the code, unless the code before has it.
Codes(d) == {i \in DOMAIN d : ShortStartCode(d, i)}

End(d, p) ==
  LET q == FirstFrom(Codes(d), p + 1, None(d))
  IN  IF q # None(d) /\ q - 1 >= p + 3 /\ d[q - 1] = 0 THEN q - 1 ELSE q

Between(d) ==
  LET units[i \in 0 .. Len(d)] ==
        IF i = 0 THEN << >>
        ELSE IF i \in Codes(d) /\ i + 3 < End(d, i)
             THEN Append(units[i - 1], SubSeq(d, i + 3, End(d, i) - 1)) ELSE units[i - 1]
  IN  units[Len(d)]

\* The number in four bytes from i on.
be_bytes_at(s, i) == s[i] * 16777216 + s[i + 1] * 65536 + s[i + 2] * 256 + s[i + 3]

\* Reads on in a sample as a player does, by the length at its position.
Read(s, at) ==
  LET length == be_bytes_at(s, at.pos)
  IN  IF at.pos > Len(s) THEN at
      ELSE [pos  |-> at.pos + 4 + length,
            nals |-> Append(at.nals, SubSeq(s, at.pos + 4, at.pos + 3 + length))]

Unprefixed(s) ==
  LET at[k \in 0 .. Len(s)] ==
        IF k = 0 THEN [pos |-> 1, nals |-> << >>] ELSE Read(s, at[k - 1])
  IN  at[Len(s)].nals

\* Whatever zeros and ones lie in the payload, next to a code or at the end, the
\* units are the bytes between the codes, and a player gets the same units back from
\* the sample; its size in the table is the number of bytes written
\* (muxer.rs:71-106, 505-561).
NalsExact(d) ==
  LET nals == Nals(d)
  IN  /\ nals = Between(d)
      /\ Unprefixed(LengthPrefixed(nals)) = nals
      /\ frame_size(nals) = Len(LengthPrefixed(nals))

\* Of each kind the last parameter set of the frame counts, and one that the frame
\* lacks stays as it was (muxer.rs:486-506).
ParamSetsLast(d, old) ==
  LET nals == Nals(d)
      new  == extract(d, old)
      OfType(t) == {k \in DOMAIN nals : Len(nals[k]) >= 2 /\ nal_type(nals[k]) = t}
  IN  \A t \in ParamTypes :
        \/ OfType(t) = {} /\ new[t] = old[t]
        \/ \E k \in OfType(t) : new[t] = nals[k] /\ \A j \in OfType(t) : j <= k

\* The durations that stts stands for, and their sum.
Runs(stts) ==
  LET out[k \in 0 .. Len(stts)] ==
        IF k = 0 THEN << >> ELSE out[k - 1] \o [i \in 1 .. stts[k].count |-> stts[k].duration]
  IN  out[Len(stts)]

Ticks(stts) ==
  LET sum[k \in 0 .. Len(stts)] ==
        IF k = 0 THEN 0 ELSE sum[k - 1] + stts[k].count * stts[k].duration
  IN  sum[Len(stts)]

\* The tables give back every sample: the runs of stts expand to the durations and
\* are as few as can be, they add up to the duration in the header, and stss names
\* the key frames in order (muxer.rs:145-148, 283-319).
TablesExact(samples) ==
  LET stts == build_stts(samples)
      stss == build_stss(samples)
  IN  /\ Runs(stts) = [i \in DOMAIN samples |-> samples[i].duration]
      /\ \A k \in 1 .. Len(stts) - 1 : stts[k].duration # stts[k + 1].duration
      /\ total_duration(samples) = Ticks(stts)
      /\ \A i \in DOMAIN samples :
           samples[i].is_key <=> \E k \in DOMAIN stss : stss[k] = i
      /\ \A k \in 1 .. Len(stss) - 1 : stss[k] < stss[k + 1]
=============================================================================
