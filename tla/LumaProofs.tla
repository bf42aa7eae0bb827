----------------------------- MODULE LumaProofs ------------------------------
(***************************************************************************)
(* The safety of what is made of luma frames in the behaviours of MCLuma:  *)
(* detection_task, for every length of the ring, the stack countdown and   *)
(* the tracks, as long as a stack outlives a lost track (STACK_TIMEOUT >   *)
(* TRACK_MAX_MISSED, 15 and 2 in the code), the day/night decision, for    *)
(* every window and every pair of thresholds, and the solver's vote, for   *)
(* every number of votes that ends it.  And of the algorithms, for every   *)
(* input: the pattern database with its lookup table, the way from pixels  *)
(* to tracks, and the star candidates.                                     *)
(***************************************************************************)
EXTENDS MCLuma, TLAPS, WellFoundedInduction, SequenceTheorems, FiniteSetTheorems

-----------------------------------------------------------------------------
(* detection_task *)

\* Slot i holds the newest frame of its residue, so that the blend of the
\* written slots is the last LUMA_PREBUF frames.  (r: ring, k: the slot written
\* next, full: every slot was written, n: the newest frame.)
RingOrder(r, k, full, n) ==
  /\ full => n >= LUMA_PREBUF
  /\ ~full => n = k
  /\ \A i \in Slots : i < k => r[i] = n - k + 1 + i
  /\ \A i \in Slots : i >= k /\ full => r[i] = n - k - LUMA_PREBUF + 1 + i

RingHolds == RingOrder(luma_ring, luma_ring_idx, luma_ring_full, frame_index)

\* An open stack always covers the last LUMA_PREBUF frames: a track confirmed
\* while it is open needs no pre-buffer of its own.
StackCoversRing ==
  stack_active =>
    /\ stack_data \subseteq 1 .. frame_index
    /\ \A g \in 1 .. frame_index : g + LUMA_PREBUF > frame_index => g \in stack_data

\* The countdown outlasts every announced track that is still followed.
CountdownOutlasts ==
  \A t \in DOMAIN tracks :
    /\ tracks[t].history \subseteq 1 .. frame_index
    /\ IsConfirmed(tracks[t]) =>
         /\ tracks[t].confirmed <= frame_index
         /\ stack_countdown >= STACK_TIMEOUT - tracks[t].missed

\* Ids that were never given out were never announced.
IdsUnused ==
  \A t \in 0 .. MaxTracks - 1 : t >= next_track_id => announced[t] = 0

\* The inductive invariant behind the properties above.
DetectionInv ==
  /\ TypeOK /\ RingHolds /\ StackCoversRing /\ CountdownOutlasts /\ IdsUnused
  /\ MeteorIsStacked /\ StackEndsInTime /\ TrailInStack /\ AnnouncedOnce
  /\ lastMeteor <= frame_index

-----------------------------------------------------------------------------

\* Writing the next frame keeps the ring in order.
LEMMA RingWriteOrder ==
  ASSUME NEW r \in [Slots -> Nat], NEW k \in Slots, NEW full \in BOOLEAN, NEW n \in Nat,
         RingOrder(r, k, full, n),
         NEW r2, r2 = [r EXCEPT ![k] = n + 1],
         NEW k2, k2 = IF k + 1 = LUMA_PREBUF THEN 0 ELSE k + 1,
         NEW full2 \in BOOLEAN, full2 <=> (full \/ k2 = 0)
  PROVE  RingOrder(r2, k2, full2, n + 1)
<1>1. /\ LUMA_PREBUF \in Nat \ {0} /\ k \in Int /\ 0 <= k /\ k < LUMA_PREBUF
  BY DetectionConstants DEF Slots
<1>2. \A i \in Slots : /\ i \in Int /\ 0 <= i /\ i < LUMA_PREBUF
                       /\ r2[i] = IF i = k THEN n + 1 ELSE r[i]
  BY <1>1 DEF Slots
<1>3. /\ full => n >= LUMA_PREBUF
      /\ ~full => n = k
      /\ \A i \in Slots : i < k => r[i] = n - k + 1 + i
      /\ \A i \in Slots : i >= k /\ full => r[i] = n - k - LUMA_PREBUF + 1 + i
  BY DEF RingOrder
<1>4. CASE k + 1 = LUMA_PREBUF
  <2>1. k2 = 0 /\ full2
    BY <1>4
  <2>2. n + 1 >= LUMA_PREBUF
    BY <1>1, <1>3, <1>4
  <2>3. \A i \in Slots : r2[i] = (n + 1) - 0 - LUMA_PREBUF + 1 + i
    <3> TAKE i \in Slots
    <3>1. i = k \/ i < k
      BY <1>1, <1>2, <1>4
    <3>2. CASE i = k
      BY <3>2, <1>1, <1>2, <1>4
    <3>3. CASE i < k
      <4>1. r2[i] = r[i]
        BY <3>3, <1>1, <1>2
      <4>2. r[i] = n - k + 1 + i
        BY <3>3, <1>3
      <4> QED
        BY <4>1, <4>2, <1>1, <1>2, <1>4
    <3> QED
      BY <3>1, <3>2, <3>3
  <2> QED
    BY <1>2, <2>1, <2>2, <2>3 DEF RingOrder
<1>5. CASE k + 1 # LUMA_PREBUF
  <2>1. k2 = k + 1 /\ (full2 <=> full)
    BY <1>1, <1>5
  <2>2. (full2 => n + 1 >= LUMA_PREBUF) /\ (~full2 => n + 1 = k2)
    BY <1>1, <1>3, <2>1
  <2>3. ASSUME NEW i \in Slots, i < k2
        PROVE  r2[i] = (n + 1) - k2 + 1 + i
    <3>1. CASE i = k
      BY <3>1, <2>1, <1>1, <1>2
    <3>2. CASE i < k
      <4>1. r2[i] = n - k + 1 + i
        BY <3>2, <1>1, <1>2, <1>3
      <4> QED
        BY <4>1, <2>1, <1>1, <1>2
    <3> QED
      BY <2>1, <2>3, <3>1, <3>2, <1>1, <1>2
  <2>4. ASSUME NEW i \in Slots, i >= k2, full2
        PROVE  r2[i] = (n + 1) - k2 - LUMA_PREBUF + 1 + i
    <3>1. i > k /\ full
      BY <2>1, <2>4, <1>1, <1>2
    <3>2. r2[i] = n - k - LUMA_PREBUF + 1 + i
      BY <3>1, <1>1, <1>2, <1>3
    <3> QED
      BY <3>2, <2>1, <1>1, <1>2
  <2> QED
    BY <2>2, <2>3, <2>4 DEF RingOrder
<1> QED
  BY <1>4, <1>5

\* The written slots of an ordered ring hold the last LUMA_PREBUF frames.
LEMMA RingBlend ==
  ASSUME NEW r, NEW k \in Slots, NEW full \in BOOLEAN, NEW n \in Nat \ {0},
         RingOrder(r, k, full, n)
  PROVE  /\ \A i \in Slots : full \/ i < k => r[i] \in 1 .. n /\ r[i] + LUMA_PREBUF > n
         /\ \A g \in 1 .. n : g + LUMA_PREBUF > n =>
              \E i \in Slots : (full \/ i < k) /\ r[i] = g
<1>1. /\ LUMA_PREBUF \in Nat \ {0} /\ k \in Int /\ 0 <= k /\ k < LUMA_PREBUF
      /\ \A i \in Slots : i \in Int /\ 0 <= i /\ i < LUMA_PREBUF
      /\ \A i \in Int : 0 <= i /\ i < LUMA_PREBUF => i \in Slots
  BY DetectionConstants DEF Slots
<1>2. /\ full => n >= LUMA_PREBUF
      /\ ~full => n = k
      /\ \A i \in Slots : i < k => r[i] = n - k + 1 + i
      /\ \A i \in Slots : i >= k /\ full => r[i] = n - k - LUMA_PREBUF + 1 + i
  BY DEF RingOrder
<1>3. ASSUME NEW i \in Slots, full \/ i < k
      PROVE  r[i] \in 1 .. n /\ r[i] + LUMA_PREBUF > n
  <2>1. CASE i < k
    <3>1. r[i] = n - k + 1 + i /\ n >= k
      BY <2>1, <1>1, <1>2
    <3> QED
      BY <3>1, <2>1, <1>1
  <2>2. CASE i >= k
    <3>1. r[i] = n - k - LUMA_PREBUF + 1 + i /\ n >= LUMA_PREBUF
      BY <2>2, <1>1, <1>2, <1>3
    <3> QED
      BY <3>1, <2>2, <1>1
  <2> QED
    BY <2>1, <2>2, <1>1
<1>4. ASSUME NEW g \in 1 .. n, g + LUMA_PREBUF > n
      PROVE  \E i \in Slots : (full \/ i < k) /\ r[i] = g
  <2> DEFINE d == g - n + k - 1
  <2>1. d \in Int /\ d < k /\ d + LUMA_PREBUF >= k
    BY <1>1, <1>4
  <2>2. CASE d >= 0
    <3>1. d \in Slots
      BY <2>1, <2>2, <1>1
    <3>2. r[d] = n - k + 1 + d
      BY <3>1, <2>1, <1>2
    <3>3. r[d] = g
      BY <3>2, <1>1
    <3> QED
      BY <3>1, <3>3, <2>1
  <2>3. CASE d < 0
    <3>1. full
      BY <2>3, <1>1, <1>2
    <3>2. d + LUMA_PREBUF \in Slots
      BY <2>1, <2>3, <1>1
    <3>3. r[d + LUMA_PREBUF] = n - k - LUMA_PREBUF + 1 + (d + LUMA_PREBUF)
      <4> HIDE DEF d
      <4> QED BY <3>1, <3>2, <2>1, <1>2
    <3>4. r[d + LUMA_PREBUF] = g
      BY <3>3, <1>1
    <3> QED
      BY <3>1, <3>2, <3>4
  <2> QED
    BY <2>1, <2>2, <2>3
<1> QED
  BY <1>3, <1>4

\* What one frame does to the ring and to the pre-buffer it would blend.
LEMMA RingStep ==
  ASSUME TypeOK, RingHolds, frame_index < MaxFrames,
         frame_index' = frame_index + 1, RingWrite(frame_index + 1)
  PROVE  /\ RingHolds'
         /\ luma_ring' \in [Slots -> 0 .. MaxFrames] /\ luma_ring_idx' \in Slots
         /\ luma_ring_full' \in BOOLEAN
         /\ \A g \in Prebuffer : g \in 1 .. frame_index + 1 /\ g + LUMA_PREBUF > frame_index + 1
         /\ \A g \in 1 .. frame_index + 1 :
              g + LUMA_PREBUF > frame_index + 1 => g \in Prebuffer
<1>1. /\ LUMA_PREBUF \in Nat \ {0} /\ MaxFrames \in Nat
      /\ frame_index \in Nat /\ frame_index + 1 \in 1 .. MaxFrames
      /\ luma_ring \in [Slots -> 0 .. MaxFrames] /\ luma_ring \in [Slots -> Nat]
      /\ luma_ring_idx \in Slots /\ luma_ring_full \in BOOLEAN
  BY DetectionConstants DEF TypeOK
<1>2. /\ luma_ring' = [luma_ring EXCEPT ![luma_ring_idx] = frame_index + 1]
      /\ luma_ring_idx' = IF luma_ring_idx + 1 = LUMA_PREBUF THEN 0 ELSE luma_ring_idx + 1
      /\ luma_ring_full' \in BOOLEAN
      /\ luma_ring_full' <=> (luma_ring_full \/ luma_ring_idx' = 0)
  BY DEF RingWrite
<1>3. luma_ring' \in [Slots -> 0 .. MaxFrames] /\ luma_ring_idx' \in Slots
  BY <1>1, <1>2 DEF Slots
<1>4. RingOrder(luma_ring', luma_ring_idx', luma_ring_full', frame_index + 1)
  BY <1>1, <1>2, RingWriteOrder DEF RingHolds
<1>5. RingHolds'
  BY <1>4 DEF RingHolds
<1>6. /\ \A g \in Prebuffer : g \in 1 .. frame_index + 1 /\ g + LUMA_PREBUF > frame_index + 1
      /\ \A g \in 1 .. frame_index + 1 :
           g + LUMA_PREBUF > frame_index + 1 => g \in Prebuffer
  <2>1. /\ \A i \in Slots : luma_ring_full' \/ i < luma_ring_idx' =>
                            luma_ring'[i] \in 1 .. frame_index + 1
                             /\ luma_ring'[i] + LUMA_PREBUF > frame_index + 1
                              /\ luma_ring'[i] + LUMA_PREBUF > frame_index + 1
        /\ \A g \in 1 .. frame_index + 1 : g + LUMA_PREBUF > frame_index + 1 =>
             \E i \in Slots : (luma_ring_full' \/ i < luma_ring_idx') /\ luma_ring'[i] = g
    <3> frame_index + 1 \in Nat \ {0}
      BY <1>1
    <3>1. luma_ring_full' \in BOOLEAN
      BY <1>2
    <3>2. \A i \in Slots : luma_ring_full' \/ i < luma_ring_idx' =>
                           luma_ring'[i] \in 1 .. frame_index + 1
                             /\ luma_ring'[i] + LUMA_PREBUF > frame_index + 1
      BY <1>3, <1>4, <3>1, RingBlend
    <3>3. \A g \in 1 .. frame_index + 1 : g + LUMA_PREBUF > frame_index + 1 =>
             \E i \in Slots : (luma_ring_full' \/ i < luma_ring_idx') /\ luma_ring'[i] = g
      BY <1>3, <1>4, <3>1, RingBlend
    <3> QED
      BY <3>2, <3>3
  <2> QED
    BY <2>1 DEF Prebuffer
<1> QED
  BY <1>2, <1>3, <1>5, <1>6

-----------------------------------------------------------------------------

\* What association and confirmation do to the tracks of one frame.
TracksMoved(hit, n, straight, now) ==
  /\ DOMAIN now = DOMAIN tracks \cup Born(n)
  /\ DOMAIN now \subseteq 0 .. next_track_id + n - 1
  /\ \A t \in DOMAIN now :
       /\ now[t] \in [history : SUBSET Frames, missed : Nat, confirmed : Frames \cup {0}]
       /\ now[t].history \subseteq 1 .. frame_index + 1
  /\ \A t \in Born(n) : t \notin DOMAIN tracks /\ t >= next_track_id
                       /\ now[t].missed = 0 /\ now[t].confirmed = 0
  /\ \A t \in DOMAIN tracks :
       /\ now[t].history \subseteq tracks[t].history \cup {frame_index + 1}
       /\ now[t].missed = IF t \in hit THEN 0 ELSE tracks[t].missed + 1
       /\ now[t].confirmed = IF t \in straight THEN frame_index + 1
                             ELSE tracks[t].confirmed

LEMMA TracksStep ==
  ASSUME DetectionInv, frame_index < MaxFrames,
         NEW hit \in SUBSET DOMAIN tracks, NEW n \in 0 .. MaxBlobs,
         NEW straight \in SUBSET hit, next_track_id + n <= MaxTracks
  PROVE  TracksMoved(hit, n, straight,
           Confirmed(Associated(hit, n, frame_index + 1), straight, frame_index + 1))
<1> DEFINE f == frame_index + 1
           trs == Associated(hit, n, f)
           now == Confirmed(trs, straight, f)
<1>1. /\ frame_index \in Nat /\ f \in Frames /\ f \in Nat
      /\ next_track_id \in Nat /\ n \in Nat
      /\ DOMAIN tracks \subseteq 0 .. next_track_id - 1
      /\ \A t \in DOMAIN tracks :
           /\ tracks[t] \in [history : SUBSET Frames, missed : Nat, confirmed : Frames \cup {0}]
           /\ tracks[t].history \subseteq 1 .. frame_index
  <2>1. /\ frame_index \in Nat /\ f \in Frames /\ f \in Nat
        /\ next_track_id \in Nat /\ n \in Nat
    BY DetectionConstants DEF DetectionInv, TypeOK, Frames
  <2>2. /\ DOMAIN tracks \subseteq 0 .. next_track_id - 1
        /\ \A t \in DOMAIN tracks :
             tracks[t] \in [history : SUBSET Frames, missed : Nat, confirmed : Frames \cup {0}]
    BY DEF DetectionInv, TypeOK, Track
  <2>3. \A t \in DOMAIN tracks : tracks[t].history \subseteq 1 .. frame_index
    BY DEF DetectionInv, CountdownOutlasts
  <2> QED BY <2>1, <2>2, <2>3
<1>2. \A t \in Born(n) : t \notin DOMAIN tracks /\ t >= next_track_id
                         /\ t \in 0 .. next_track_id + n - 1
  BY <1>1 DEF Born
<1>3. DOMAIN trs = DOMAIN tracks \cup Born(n) /\ DOMAIN now = DOMAIN trs
  BY DEF Associated, Confirmed
<1>4. \A t \in Born(n) : trs[t] = [history |-> {f}, missed |-> 0, confirmed |-> 0]
  BY DEF Associated, NewTrack
<1>5. ASSUME NEW t \in DOMAIN tracks
      PROVE  /\ trs[t].history = IF t \in hit THEN tracks[t].history \cup {f} ELSE tracks[t].history
             /\ trs[t].missed = IF t \in hit THEN 0 ELSE tracks[t].missed + 1
             /\ trs[t].confirmed = tracks[t].confirmed
             /\ trs[t] \in [history : SUBSET Frames, missed : Nat, confirmed : Frames \cup {0}]
  <2>1. trs[t] = IF t \in hit
                 THEN [tracks[t] EXCEPT !.history = @ \cup {f}, !.missed = 0]
                 ELSE [tracks[t] EXCEPT !.missed = @ + 1]
    BY <1>2, <1>3 DEF Associated
  <2>2. tracks[t] \in [history : SUBSET Frames, missed : Nat, confirmed : Frames \cup {0}]
    BY <1>1
  <2> HIDE DEF trs
  <2>3. CASE t \in hit
    <3>1. trs[t] = [tracks[t] EXCEPT !.history = tracks[t].history \cup {f}, !.missed = 0]
      BY <2>1, <2>3
    <3>2. tracks[t].history \cup {f} \in SUBSET Frames
      BY <2>2, <1>1
    <3>3. /\ trs[t].history = tracks[t].history \cup {f} /\ trs[t].missed = 0
          /\ trs[t].confirmed = tracks[t].confirmed
      BY <2>2, <3>1
    <3>4. trs[t] = [history |-> trs[t].history, missed |-> 0, confirmed |-> trs[t].confirmed]
      BY <2>2, <3>1
    <3> QED
      BY <2>2, <2>3, <3>2, <3>3, <3>4
  <2>4. CASE t \notin hit
    BY <2>1, <2>2, <2>4
  <2> QED
    BY <2>3, <2>4
<1>6. \A t \in DOMAIN trs : now[t] = IF t \in straight THEN [trs[t] EXCEPT !.confirmed = f]
                                                     ELSE trs[t]
  BY DEF Confirmed
<1> HIDE DEF trs, now
<1>7. \A t \in Born(n) : now[t] = [history |-> {f}, missed |-> 0, confirmed |-> 0]
  BY <1>2, <1>3, <1>4, <1>6
<1>8. ASSUME NEW t \in DOMAIN tracks
      PROVE  /\ now[t].history = trs[t].history /\ now[t].missed = trs[t].missed
             /\ now[t].confirmed = IF t \in straight THEN f ELSE tracks[t].confirmed
             /\ now[t] \in [history : SUBSET Frames, missed : Nat, confirmed : Frames \cup {0}]
  <2>1. trs[t] \in [history : SUBSET Frames, missed : Nat, confirmed : Frames \cup {0}]
        /\ trs[t].confirmed = tracks[t].confirmed
    BY <1>5
  <2>2. now[t] = IF t \in straight THEN [trs[t] EXCEPT !.confirmed = f] ELSE trs[t]
    BY <1>3, <1>6
  <2> HIDE DEF trs, now
  <2>3. f \in Frames
    BY <1>1
  <2>4. CASE t \in straight
    <3>1. now[t] = [trs[t] EXCEPT !.confirmed = f]
      BY <2>2, <2>4
    <3> HIDE DEF f
    <3> QED
      BY <2>1, <2>3, <2>4, <3>1
  <2>5. CASE t \notin straight
    BY <2>1, <2>2, <2>5
  <2> QED
    BY <2>4, <2>5
<1>9. ASSUME NEW t \in DOMAIN now
      PROVE  /\ now[t] \in [history : SUBSET Frames, missed : Nat, confirmed : Frames \cup {0}]
             /\ now[t].history \subseteq 1 .. f
  <2>1. CASE t \in Born(n)
    BY <2>1, <1>1, <1>7
  <2>2. CASE t \in DOMAIN tracks
    <3>1. tracks[t].history \subseteq 1 .. f
      BY <2>2, <1>1
    <3>2. now[t].history = tracks[t].history \/ now[t].history = tracks[t].history \cup {f}
      BY <2>2, <1>5, <1>8
    <3> QED
      BY <2>2, <3>1, <3>2, <1>1, <1>8
  <2> QED
    BY <2>1, <2>2, <1>3
<1>10. DOMAIN now \subseteq 0 .. next_track_id + n - 1
  BY <1>1, <1>2, <1>3
<1>11. \A t \in Born(n) : now[t].missed = 0 /\ now[t].confirmed = 0
  BY <1>7
<1>12. \A t \in DOMAIN tracks :
         /\ now[t].history \subseteq tracks[t].history \cup {f}
         /\ now[t].missed = IF t \in hit THEN 0 ELSE tracks[t].missed + 1
         /\ now[t].confirmed = IF t \in straight THEN f ELSE tracks[t].confirmed
  BY <1>5, <1>8
<1> QED
  <2>1. TracksMoved(hit, n, straight, now)
    BY <1>2, <1>3, <1>9, <1>10, <1>11, <1>12 DEF TracksMoved
  <2> QED
    BY <2>1 DEF now, trs

\* A track found straight was not announced before, and the frame shows it.
LEMMA StraightInSight ==
  ASSUME DetectionInv, NEW hit \in SUBSET DOMAIN tracks, NEW n, NEW straight \in SUBSET hit,
         NEW now, TracksMoved(hit, n, straight, now),
         straight \subseteq Candidates(Associated(hit, n, frame_index + 1), hit)
  PROVE  /\ \A t \in straight : tracks[t].confirmed = 0 /\ t \in DOMAIN tracks
         /\ straight \subseteq InSight(now)
<1> DEFINE f == frame_index + 1
<1>1. \A t \in Born(n) : t \notin DOMAIN tracks
  BY DEF TracksMoved
<1>2. \A t \in straight : tracks[t].confirmed = 0 /\ t \in DOMAIN tracks
  <2>1. \A t \in DOMAIN tracks : Associated(hit, n, f)[t].confirmed = tracks[t].confirmed
    <3> TAKE t \in DOMAIN tracks
    <3>1. t \notin Born(n) /\ tracks[t] \in Track
      BY <1>1 DEF DetectionInv, TypeOK
    <3>2. Associated(hit, n, f)[t] = IF t \in hit
                 THEN [tracks[t] EXCEPT !.history = @ \cup {f}, !.missed = 0]
                 ELSE [tracks[t] EXCEPT !.missed = @ + 1]
      BY <3>1 DEF Associated
    <3> QED
      BY <3>1, <3>2 DEF Track
  <2> QED
    BY <2>1 DEF Candidates, IsConfirmed
<1>3. \A t \in straight : t \in DOMAIN now /\ now[t].missed = 0 /\ now[t].confirmed = f
  BY DEF TracksMoved
<1>4. f # 0
  BY DetectionConstants DEF DetectionInv, TypeOK
<1> QED
  BY <1>2, <1>3, <1>4 DEF InSight, IsConfirmed

LEMMA FrameStep ==
  ASSUME DetectionInv, frame_index < MaxFrames,
         NEW hit \in SUBSET DOMAIN tracks, NEW n \in 0 .. MaxBlobs, NEW io \in SaveOutcomes,
         NEW straight \in SUBSET hit, next_track_id + n <= MaxTracks,
         Frame(hit, n, straight, io)
  PROVE  DetectionInv'
<1> DEFINE f == frame_index + 1
           now == Confirmed(Associated(hit, n, f), straight, f)
<1>1. /\ frame_index' = f /\ RingWrite(f) /\ next_track_id' = next_track_id + n
      /\ tracks' = Retained(now)
      /\ lastMeteor' = IF InSight(now) # {} THEN f ELSE lastMeteor
      /\ announced' = [t \in DOMAIN announced |->
                         IF t \in straight THEN announced[t] + 1 ELSE announced[t]]
      /\ stamped' = [stamped EXCEPT ![clock] = @ + 1]
      /\ UNCHANGED <<task, enabled, clock, wentBack>>
  BY DEF Frame
<1>2. IF stack_active \/ straight # {} THEN Stacking(now, straight, f, io)
                                      ELSE UNCHANGED <<stack, saved>>
  BY DEF Frame
<1>3. straight \subseteq Candidates(Associated(hit, n, f), hit)
  BY DEF Frame
<1>4. /\ frame_index \in Nat /\ f \in Frames /\ f \in Nat /\ MaxFrames \in Nat
      /\ next_track_id \in Nat /\ n \in Nat /\ MaxTracks \in Nat
      /\ LUMA_PREBUF \in Nat \ {0} /\ STACK_TIMEOUT \in Nat /\ TRACK_MAX_MISSED \in Nat
      /\ STACK_TIMEOUT > TRACK_MAX_MISSED
      /\ DOMAIN tracks \subseteq 0 .. next_track_id - 1
      /\ next_track_id + n <= MaxTracks
      /\ \A t \in DOMAIN tracks : /\ tracks[t].missed \in 0 .. TRACK_MAX_MISSED
                                 /\ tracks[t].confirmed \in Nat
                                 /\ tracks[t].history \subseteq 1 .. frame_index
  <2>1. /\ frame_index \in 0 .. MaxFrames /\ next_track_id \in 0 .. MaxTracks
        /\ DOMAIN tracks \subseteq 0 .. next_track_id - 1
        /\ \A t \in DOMAIN tracks : tracks[t] \in Track
        /\ \A t \in DOMAIN tracks : tracks[t].history \subseteq 1 .. frame_index
    BY DEF DetectionInv, TypeOK, CountdownOutlasts
  <2>2. \A t \in DOMAIN tracks : /\ tracks[t].missed \in 0 .. TRACK_MAX_MISSED
                               /\ tracks[t].confirmed \in Nat
    BY <2>1, DetectionConstants DEF Track, Frames
  <2>3. f \in Frames
    BY <2>1, DetectionConstants DEF Frames
  <2> QED
    BY <2>1, <2>2, <2>3, DetectionConstants
<1>0. TracksMoved(hit, n, straight, now)
  BY TracksStep
<1> HIDE DEF now
<1>5. /\ DOMAIN now = DOMAIN tracks \cup Born(n)
      /\ DOMAIN now \subseteq 0 .. next_track_id + n - 1
      /\ \A t \in DOMAIN now :
           /\ now[t] \in [history : SUBSET Frames, missed : Nat, confirmed : Frames \cup {0}]
           /\ now[t].history \subseteq 1 .. f
      /\ \A t \in Born(n) : t \notin DOMAIN tracks /\ t >= next_track_id
                           /\ now[t].missed = 0 /\ now[t].confirmed = 0
      /\ \A t \in DOMAIN tracks :
           /\ now[t].history \subseteq tracks[t].history \cup {f}
           /\ now[t].missed = IF t \in hit THEN 0 ELSE tracks[t].missed + 1
           /\ now[t].confirmed = IF t \in straight THEN f ELSE tracks[t].confirmed
  BY <1>0 DEF TracksMoved
<1>6. /\ RingHolds'
      /\ luma_ring' \in [Slots -> 0 .. MaxFrames] /\ luma_ring_idx' \in Slots
      /\ luma_ring_full' \in BOOLEAN
      /\ \A g \in Prebuffer : g \in 1 .. f /\ g + LUMA_PREBUF > f
      /\ \A g \in 1 .. f : g + LUMA_PREBUF > f => g \in Prebuffer
  BY <1>1, RingStep DEF DetectionInv
<1>7. /\ \A t \in straight : tracks[t].confirmed = 0 /\ t \in DOMAIN tracks
      /\ straight \subseteq InSight(now)
  BY <1>0, <1>3, StraightInSight
<1>8. /\ DOMAIN tracks' \subseteq DOMAIN now
      /\ \A t \in DOMAIN tracks' : tracks'[t] = now[t] /\ now[t].missed <= TRACK_MAX_MISSED
  BY <1>1 DEF Retained
<1>9. /\ InSight(now) = {t \in DOMAIN now : now[t].confirmed # 0 /\ now[t].missed = 0}
      /\ straight \subseteq InSight(now)
  BY <1>7 DEF InSight, IsConfirmed
<1>10. /\ stack_active \in BOOLEAN /\ stack_countdown \in 0 .. STACK_TIMEOUT
       /\ stack_active <=> stack_countdown > 0
       /\ stack_active => stack_countdown + (frame_index - lastMeteor) = STACK_TIMEOUT
       /\ lastMeteor \in 0 .. frame_index
       /\ \A t \in DOMAIN tracks : tracks[t].confirmed # 0 =>
            /\ stack_active /\ tracks[t].confirmed <= frame_index
            /\ stack_countdown >= STACK_TIMEOUT - tracks[t].missed
  BY <1>4 DEF DetectionInv, TypeOK, StackEndsInTime, MeteorIsStacked, CountdownOutlasts,
              IsConfirmed
\* What holds of the stack after the frame, whether it was used or not.
<1> DEFINE Counted == /\ stack_active' \in BOOLEAN /\ stack_countdown' \in 0 .. STACK_TIMEOUT
                      /\ stack_active' <=> stack_countdown' > 0
                      /\ stack_active' => stack_countdown' + (f - lastMeteor') = STACK_TIMEOUT
                      /\ lastMeteor' \in 0 .. f
           Outlasts == \A t \in DOMAIN tracks' : tracks'[t].confirmed # 0 =>
                         /\ tracks'[t].confirmed <= f
                         /\ stack_countdown' >= STACK_TIMEOUT - tracks'[t].missed
           Covers == /\ stack_active' =>
                          /\ stack_data' \subseteq 1 .. f
                          /\ \A g \in 1 .. f : g + LUMA_PREBUF > f => g \in stack_data'
                          /\ \A h \in stack_data', g \in Frames : h <= g /\ g <= f
                               => g \in stack_data'
                     /\ \A t \in DOMAIN tracks' : tracks'[t].confirmed # 0 =>
                          \A h \in tracks'[t].history :
                             h + LUMA_PREBUF > tracks'[t].confirmed => h \in stack_data'
           Typed == /\ stack_data' \in SUBSET Frames /\ stack_ts' \in Seconds
                    /\ saved' \in [Seconds -> [state : {"absent", "whole", "torn"},
                                              frames : SUBSET Frames]]
<1>11. ASSUME stack_active \/ straight # {}
       PROVE  Counted /\ Outlasts /\ Covers /\ Typed
  <2>1. PICK begins \in BOOLEAN :
          /\ begins <=> (straight # {} /\ ~stack_active)
          /\ stack_data' = (IF begins THEN Prebuffer ELSE stack_data) \cup {f}
          /\ stack_ts' = IF begins THEN clock ELSE stack_ts
          /\ stack_countdown' = IF InSight(now) # {} THEN STACK_TIMEOUT
                                ELSE (IF begins THEN STACK_TIMEOUT ELSE stack_countdown) - 1
          /\ stack_active' = (stack_countdown' # 0)
          /\ saved' = IF stack_countdown' = 0
                      THEN [saved EXCEPT ![stack_ts'] = Written(@, io)] ELSE saved
    <3> HIDE DEF f
    <3>1. Stacking(now, straight, f, io)
      BY <1>2, <1>11
    <3> QED
      BY <3>1 DEF Stacking, BlendBase, StackName, Countdown
  <2>2. begins => InSight(now) # {}
    BY <2>1, <1>9
  <2>3. /\ stack_countdown' = IF InSight(now) # {} THEN STACK_TIMEOUT ELSE stack_countdown - 1
        /\ ~begins => stack_active
    BY <2>1, <2>2, <1>11
  <2>4. Counted
    <3>1. CASE InSight(now) # {}
      BY <3>1, <2>1, <2>3, <1>1, <1>4, <1>10
    <3>2. CASE InSight(now) = {}
      <4>1. stack_active /\ stack_countdown' = stack_countdown - 1 /\ lastMeteor' = lastMeteor
        BY <3>2, <2>2, <2>3, <1>1
      <4>2. stack_countdown' \in 0 .. STACK_TIMEOUT /\ lastMeteor' \in 0 .. f
        BY <4>1, <1>4, <1>10
      <4>3. stack_countdown' + (f - lastMeteor') = STACK_TIMEOUT
        BY <4>1, <1>4, <1>10
      <4>4. stack_active' \in BOOLEAN /\ (stack_active' <=> stack_countdown' > 0)
        <5>1. stack_countdown' # 0 <=> stack_countdown' > 0
          BY <4>2, <1>4
        <5> QED
          BY <5>1, <2>1, Zenon
      <4> QED
        BY <4>2, <4>3, <4>4
    <3> QED
      BY <3>1, <3>2
  <2>5. ASSUME NEW t \in DOMAIN tracks', tracks'[t].confirmed # 0
        PROVE  /\ tracks'[t].confirmed <= f
               /\ stack_countdown' >= STACK_TIMEOUT - tracks'[t].missed
    <3>1. tracks'[t] = now[t] /\ t \in DOMAIN tracks
      BY <2>5, <1>5, <1>8
    <3>2. now[t].confirmed <= f
      BY <2>5, <3>1, <1>4, <1>5, <1>10
    <3>3. CASE now[t].missed = 0
      <4>1. stack_countdown' = STACK_TIMEOUT
        BY <3>3, <3>1, <2>5, <2>3, <1>5, <1>9
      <4> QED
        BY <4>1, <3>1, <3>2, <3>3, <1>4
    <3>4. CASE now[t].missed # 0
      <4>1. t \notin hit /\ now[t].missed = tracks[t].missed + 1
        BY <3>1, <3>4, <1>5
      <4>2. tracks[t].confirmed # 0
        BY <4>1, <2>5, <3>1, <1>5
      <4>3. stack_countdown >= STACK_TIMEOUT - tracks[t].missed
        BY <4>2, <3>1, <1>10
      <4> QED
        BY <4>1, <4>3, <3>1, <3>2, <2>3, <1>4, <1>10
    <3> QED
      BY <3>3, <3>4
  <2>6. /\ stack_data' \subseteq 1 .. f
        /\ \A g \in 1 .. f : g + LUMA_PREBUF > f => g \in stack_data'
        /\ \A h \in stack_data', g \in Frames : h <= g /\ g <= f => g \in stack_data'
        /\ ~begins => stack_data \subseteq stack_data'
    <3>1. CASE begins
      <4>1. stack_data' = Prebuffer \cup {f}
        BY <2>1, <3>1
      <4>2. /\ stack_data' \subseteq 1 .. f
            /\ \A g \in 1 .. f : g + LUMA_PREBUF > f => g \in stack_data'
        BY <4>1, <1>4, <1>6
      <4>3. ASSUME NEW h \in stack_data', NEW g \in Frames, h <= g, g <= f
            PROVE  g \in stack_data'
        <5>1. h \in 1 .. f /\ h + LUMA_PREBUF > f
          BY <4>1, <1>4, <1>6
        <5> QED
          BY <5>1, <4>2, <4>3, <1>4 DEF Frames
      <4> QED
        BY <3>1, <4>2, <4>3
    <3>2. CASE ~begins
      <4>1. stack_data' = stack_data \cup {f} /\ stack_active
        BY <2>1, <2>3, <3>2
      <4>2. /\ stack_data \subseteq 1 .. frame_index
            /\ \A g \in 1 .. frame_index : g + LUMA_PREBUF > frame_index => g \in stack_data
            /\ \A h \in stack_data, g \in Frames : h <= g /\ g <= frame_index => g \in stack_data
        BY <4>1 DEF DetectionInv, StackCoversRing, TrailInStack
      <4>3. \A g \in 1 .. f : g = f \/ g \in 1 .. frame_index
        BY <1>4
      <4>0. 1 .. frame_index \subseteq 1 .. f /\ f \in 1 .. f
        BY <1>4
      <4>4. stack_data' \subseteq 1 .. f
        BY <4>0, <4>1, <4>2
      <4>5. \A g \in 1 .. f : g + LUMA_PREBUF > f => g \in stack_data'
        BY <4>1, <4>2, <4>3, <1>4
      <4>6. ASSUME NEW h \in stack_data', NEW g \in Frames, h <= g, g <= f
            PROVE  g \in stack_data'
        BY <4>1, <4>2, <4>6, <1>4 DEF Frames
      <4> QED
        BY <3>2, <4>1, <4>4, <4>5, <4>6
    <3> QED
      BY <3>1, <3>2
  <2>7. ASSUME NEW t \in DOMAIN tracks', tracks'[t].confirmed # 0,
               NEW h \in tracks'[t].history, h + LUMA_PREBUF > tracks'[t].confirmed
        PROVE  h \in stack_data'
    <3>1. /\ tracks'[t] = now[t] /\ t \in DOMAIN tracks /\ h \in 1 .. f
          /\ h \in tracks[t].history \cup {f}
      BY <2>7, <1>5, <1>8
    <3>2. CASE h = f \/ t \in straight
      BY <3>1, <3>2, <2>6, <2>7, <1>4, <1>5
    <3>3. CASE h # f /\ t \notin straight
      <4>1. /\ tracks[t].confirmed # 0 /\ h \in tracks[t].history
            /\ h + LUMA_PREBUF > tracks[t].confirmed
        BY <3>1, <3>3, <2>7, <1>5
      <4>2. stack_active /\ ~begins
        BY <4>1, <3>1, <2>1, <1>10
      <4>3. h \in stack_data
        BY <4>1, <4>2, <3>1 DEF DetectionInv, TrailInStack, IsConfirmed
      <4> QED
        BY <4>2, <4>3, <2>6
    <3> QED
      BY <3>2, <3>3
  <2>8. /\ stack_ts' \in Seconds
        /\ saved' \in [Seconds -> [state : {"absent", "whole", "torn"}, frames : SUBSET Frames]]
    <3>1. /\ stack_ts \in Seconds /\ clock \in Seconds
          /\ saved \in [Seconds -> [state : {"absent", "whole", "torn"}, frames : SUBSET Frames]]
      BY DEF DetectionInv, TypeOK
    <3>2. stack_ts' \in Seconds
      BY <3>1, <2>1
    <3>3. stack_data' \in SUBSET Frames
      BY <2>6, <1>4 DEF Frames
    <3>4. \A o \in [state : {"absent", "whole", "torn"}, frames : SUBSET Frames] :
            Written(o, io) \in [state : {"absent", "whole", "torn"}, frames : SUBSET Frames]
      BY <3>3 DEF Written, SaveOutcomes
    <3> QED
      BY <3>1, <3>2, <3>4, <2>1
  <2>9. stack_data' \in SUBSET Frames
    BY <2>6, <1>4 DEF Frames
  <2> QED
    BY <2>4, <2>5, <2>6, <2>7, <2>8, <2>9
<1>12. ASSUME ~(stack_active \/ straight # {})
       PROVE  Counted /\ Outlasts /\ Covers /\ Typed
  <2>1. /\ UNCHANGED <<stack_active, stack_data, stack_ts, stack_countdown, saved>>
        /\ ~stack_active /\ straight = {}
    BY <1>2, <1>12 DEF stack
  <2>2. \A t \in DOMAIN now : now[t].confirmed = 0
    BY <2>1, <1>5, <1>10
  <2>3. lastMeteor' = lastMeteor
    BY <2>2, <1>1, <1>9
  <2>4. Counted
    BY <2>1, <2>3, <1>4, <1>10
  <2>5. Outlasts /\ Covers
    BY <2>1, <2>2, <1>8
  <2>6. Typed
    BY <2>1 DEF DetectionInv, TypeOK
  <2> QED
    BY <2>4, <2>5, <2>6
<1>13. Counted /\ Outlasts /\ Covers /\ Typed
  BY <1>11, <1>12
<1>14. \A t \in DOMAIN tracks' : tracks'[t].confirmed # 0 => stack_active'
  <2> TAKE t \in DOMAIN tracks'
  <2>1. tracks'[t].missed \in 0 .. TRACK_MAX_MISSED
    BY <1>5, <1>8, <1>4
  <2> QED
    BY <2>1, <1>13, <1>4
<1>15. \A t \in DOMAIN tracks' : /\ tracks'[t] \in Track /\ tracks'[t].history \subseteq 1 .. f
                                /\ t \in 0 .. next_track_id' - 1
  <2> TAKE t \in DOMAIN tracks'
  <2>1. /\ t \in DOMAIN now /\ tracks'[t] = now[t] /\ now[t].missed <= TRACK_MAX_MISSED
    BY <1>8
  <2>2. now[t].missed \in 0 .. TRACK_MAX_MISSED
    BY <2>1, <1>4, <1>5
  <2>3. t \in 0 .. next_track_id' - 1
    <3>1. t \in 0 .. next_track_id + n - 1
      BY <2>1, <1>5
    <3>2. next_track_id' = next_track_id + n
      BY <1>1
    <3> QED
      BY <3>1, <3>2, <1>4
  <2> QED
    BY <2>1, <2>2, <2>3, <1>5 DEF Track
<1> HIDE DEF Counted, Outlasts, Covers, Typed
<1>16. TypeOK'
  <2>1. /\ task' \in {"running", "ended"} /\ enabled' \in BOOLEAN /\ clock' \in Seconds
        /\ wentBack' \in BOOLEAN
    BY <1>1 DEF DetectionInv, TypeOK
  <2>2. frame_index' \in 0 .. MaxFrames /\ next_track_id' \in 0 .. MaxTracks
    BY <1>1, <1>4 DEF Frames
  <2>3. announced' \in [0 .. MaxTracks - 1 -> Nat]
    BY <1>1 DEF DetectionInv, TypeOK
  <2>4. stamped' \in [Seconds -> Nat]
    BY <1>1 DEF DetectionInv, TypeOK
  <2>5. lastMeteor' \in 0 .. MaxFrames
    BY <1>13, <1>4 DEF Counted, Frames
  <2>6. /\ stack_active' \in BOOLEAN /\ stack_data' \subseteq Frames
        /\ stack_ts' \in Seconds /\ stack_countdown' \in 0 .. STACK_TIMEOUT
        /\ saved' \in [Seconds -> [state : {"absent", "whole", "torn"}, frames : SUBSET Frames]]
    BY <1>13 DEF Counted, Typed
  <2> QED
    BY <2>1, <2>2, <2>3, <2>4, <2>5, <2>6, <1>6, <1>15 DEF TypeOK
<1>17. StackCoversRing' /\ TrailInStack'
  BY <1>13, <1>1 DEF Covers, StackCoversRing, TrailInStack, IsConfirmed
<1>18. CountdownOutlasts' /\ MeteorIsStacked'
  BY <1>13, <1>14, <1>15, <1>1 DEF Outlasts, CountdownOutlasts, MeteorIsStacked, IsConfirmed
<1>19. StackEndsInTime' /\ (lastMeteor <= frame_index)'
  <2>1. lastMeteor' \in 0 .. f
    BY <1>13, Zenon DEF Counted
  <2>2. frame_index' = f /\ f \in Nat
    BY <1>1, <1>4, Zenon
  <2>3. lastMeteor' <= frame_index'
    <3> HIDE DEF f
    <3> QED
      BY <2>1, <2>2
  <2>4. StackEndsInTime'
    BY <1>13, <2>2 DEF Counted, StackEndsInTime
  <2> QED
    BY <2>4, <2>3
<1>20. /\ DOMAIN announced = 0 .. MaxTracks - 1
       /\ \A t \in 0 .. MaxTracks - 1 : announced[t] \in {0, 1}
       /\ \A t \in 0 .. MaxTracks - 1 : t >= next_track_id => announced[t] = 0
       /\ \A t \in DOMAIN tracks : announced[t] = 1 <=> tracks[t].confirmed # 0
       /\ \A t \in straight : t \in 0 .. MaxTracks - 1 /\ t < next_track_id /\ announced[t] = 0
  <2>1. /\ DOMAIN announced = 0 .. MaxTracks - 1
        /\ \A t \in 0 .. MaxTracks - 1 : announced[t] \in {0, 1}
        /\ \A t \in 0 .. MaxTracks - 1 : t >= next_track_id => announced[t] = 0
    <3>1. announced \in [0 .. MaxTracks - 1 -> Nat]
      BY DEF DetectionInv, TypeOK
    <3>2. \A t \in 0 .. MaxTracks - 1 : announced[t] <= 1
      BY DEF DetectionInv, AnnouncedOnce
    <3>3. \A t \in 0 .. MaxTracks - 1 : t >= next_track_id => announced[t] = 0
      BY DEF DetectionInv, IdsUnused
    <3>4. \A t \in 0 .. MaxTracks - 1 : announced[t] \in {0, 1}
      BY <3>1, <3>2
    <3> QED
      BY <3>1, <3>3, <3>4
  <2>2. \A t \in DOMAIN tracks : t \in 0 .. MaxTracks - 1 /\ t < next_track_id
    BY <1>4
  <2>3. \A t \in DOMAIN tracks : announced[t] = 1 <=> tracks[t].confirmed # 0
    BY <2>2 DEF DetectionInv, AnnouncedOnce, IsConfirmed
  <2>4. ASSUME NEW t \in straight
        PROVE  t \in 0 .. MaxTracks - 1 /\ t < next_track_id /\ announced[t] = 0
    <3>1. t \in DOMAIN tracks /\ announced[t] # 1
      BY <1>7, <2>3
    <3>2. t \in 0 .. MaxTracks - 1 /\ t < next_track_id
      BY <3>1, <2>2
    <3>3. announced[t] \in {0, 1}
      BY <3>2, <2>1, Zenon
    <3> QED
      BY <3>1, <3>2, <3>3
  <2> QED
    BY <2>1, <2>2, <2>3, <2>4
<1>21. \A t \in 0 .. MaxTracks - 1 :
         announced'[t] = IF t \in straight THEN announced[t] + 1 ELSE announced[t]
  BY <1>1, <1>20
<1>22. IdsUnused'
  <2> SUFFICES ASSUME NEW t \in 0 .. MaxTracks - 1, t >= next_track_id + n
               PROVE  announced'[t] = 0
    BY <1>1 DEF IdsUnused
  <2>1. t \notin straight /\ t >= next_track_id
    BY <1>4, <1>20
  <2>2. announced'[t] = announced[t]
    BY <2>1, <1>21
  <2> QED
    BY <2>1, <2>2, <1>20, Zenon
<1>23. AnnouncedOnce'
  <2> SUFFICES ASSUME NEW t \in 0 .. MaxTracks - 1
               PROVE  /\ announced'[t] <= 1
                      /\ t \in DOMAIN tracks' =>
                           (announced'[t] = 1 <=> tracks'[t].confirmed # 0)
    BY DEF AnnouncedOnce, IsConfirmed
  <2>1. announced'[t] = IF t \in straight THEN announced[t] + 1 ELSE announced[t]
    BY <1>21
  <2>2. CASE t \in straight
    <3>1. t \in DOMAIN tracks /\ now[t].confirmed = f /\ f # 0
      BY <2>2, <1>4, <1>5, <1>7
    <3> QED
      BY <2>1, <2>2, <3>1, <1>8, <1>20
  <2>3. CASE t \notin straight
    <3>0. announced'[t] = announced[t] /\ announced[t] <= 1
      <4>1. announced'[t] = announced[t]
        BY <2>1, <2>3
      <4>2. announced[t] \in {0, 1}
        BY <1>20, Zenon
      <4> QED
        BY <4>1, <4>2
    <3>1. ASSUME t \in DOMAIN tracks'
          PROVE  announced[t] = 1 <=> tracks'[t].confirmed # 0
      <4>1. tracks'[t] = now[t] /\ (t \in DOMAIN tracks \/ t \in Born(n))
        BY <3>1, <1>5, <1>8
      <4>2. CASE t \in DOMAIN tracks
        <5>1. now[t].confirmed = tracks[t].confirmed
          BY <4>2, <2>3, <1>5
        <5> QED
          BY <4>1, <4>2, <5>1, <1>20
      <4>3. CASE t \in Born(n)
        <5>1. now[t].confirmed = 0 /\ t >= next_track_id
          BY <4>3, <1>5
        <5> QED
          BY <4>1, <5>1, <1>20
      <4> QED
        BY <4>1, <4>2, <4>3
    <3> QED
      BY <3>0, <3>1
  <2> QED
    BY <2>2, <2>3
<1> QED
  BY <1>6, <1>16, <1>17, <1>18, <1>19, <1>22, <1>23 DEF DetectionInv

LEMMA InitDetection ==
  ASSUME Init
  PROVE  DetectionInv
<1>1. /\ LUMA_PREBUF \in Nat \ {0} /\ MaxFrames \in Nat /\ MaxTracks \in Nat
      /\ MaxSecond \in Nat /\ STACK_TIMEOUT \in Nat
  BY DetectionConstants
<1>2. DOMAIN tracks = {}
  BY DEF Init
<1>3. TypeOK
  <2>1. /\ luma_ring \in [Slots -> 0 .. MaxFrames] /\ luma_ring_idx \in Slots
        /\ luma_ring_full \in BOOLEAN
    <3>1. 0 \in 0 .. MaxFrames /\ 0 \in Slots
      BY <1>1 DEF Slots
    <3> QED
      BY <3>1 DEF Init
  <2>2. saved \in [Seconds -> [state : {"absent", "whole", "torn"}, frames : SUBSET Frames]]
    BY DEF Init, Unsaved
  <2>3. announced \in [0 .. MaxTracks - 1 -> Nat] /\ stamped \in [Seconds -> Nat]
    BY DEF Init
  <2>4. /\ task \in {"running", "ended"} /\ enabled \in BOOLEAN /\ clock \in Seconds
        /\ frame_index \in 0 .. MaxFrames /\ next_track_id \in 0 .. MaxTracks
        /\ stack_active \in BOOLEAN /\ stack_data \subseteq Frames
        /\ stack_ts \in Seconds /\ stack_countdown \in 0 .. STACK_TIMEOUT
        /\ lastMeteor \in 0 .. MaxFrames /\ wentBack \in BOOLEAN
    <3>1. /\ 0 \in 0 .. MaxFrames /\ 0 \in 0 .. MaxTracks /\ 0 \in 0 .. STACK_TIMEOUT
          /\ 0 \in Seconds
      BY <1>1 DEF Seconds
    <3> QED
      BY <3>1 DEF Init
  <2> QED
    BY <1>2, <2>1, <2>2, <2>3, <2>4 DEF TypeOK
<1>4. RingHolds
  BY <1>1 DEF Init, RingHolds, RingOrder, Slots
<1>5. /\ StackCoversRing /\ CountdownOutlasts /\ IdsUnused /\ MeteorIsStacked
      /\ StackEndsInTime /\ TrailInStack /\ lastMeteor <= frame_index
  BY <1>1, <1>2 DEF Init, StackCoversRing, CountdownOutlasts, IdsUnused, MeteorIsStacked,
                    StackEndsInTime, TrailInStack
<1>6. AnnouncedOnce
  BY <1>1, <1>2 DEF Init, AnnouncedOnce
<1> QED
  BY <1>3, <1>4, <1>5, <1>6 DEF DetectionInv

\* The other actions touch nothing the invariant relates.
LEMMA OtherStep ==
  ASSUME DetectionInv, End \/ SetDetection \/ (\E s \in Seconds : SetClock(s)) \/ UNCHANGED vars
  PROVE  DetectionInv'
<1>1. /\ UNCHANGED <<frame_index, luma_ring, luma_ring_idx, luma_ring_full, tracks,
                     next_track_id, stack_active, stack_data, stack_ts, stack_countdown,
                     saved, announced, lastMeteor, stamped>>
      /\ task' \in {task, "ended"} /\ enabled' \in BOOLEAN /\ clock' \in Seconds
      /\ wentBack' \in BOOLEAN
  BY DEF DetectionInv, TypeOK, End, SetDetection, SetClock, vars, ring, stack, history
<1>2. TypeOK'
  BY <1>1 DEF DetectionInv, TypeOK
<1>3. RingHolds' /\ StackCoversRing' /\ CountdownOutlasts' /\ IdsUnused'
  BY <1>1 DEF DetectionInv, RingHolds, StackCoversRing, CountdownOutlasts, IdsUnused
<1>4. MeteorIsStacked' /\ StackEndsInTime' /\ TrailInStack' /\ AnnouncedOnce'
  BY <1>1 DEF DetectionInv, MeteorIsStacked, StackEndsInTime, TrailInStack, AnnouncedOnce
<1> QED
  BY <1>1, <1>2, <1>3, <1>4 DEF DetectionInv

LEMMA DetectionStep ==
  ASSUME DetectionInv, [Next]_vars
  PROVE  DetectionInv'
<1>1. ASSUME frame_index < MaxFrames,
             NEW hit \in SUBSET DOMAIN tracks, NEW n \in 0 .. MaxBlobs,
             NEW io \in SaveOutcomes, next_track_id + n <= MaxTracks,
             NEW straight \in SUBSET hit, Frame(hit, n, straight, io)
      PROVE  DetectionInv'
  BY <1>1, FrameStep
<1> QED
  BY <1>1, OtherStep DEF Next

-----------------------------------------------------------------------------
(* The saved stacks *)

\* While the clock is not set back: a whole file at the present second, an open stack
\* named after it and one to be written over a whole file have each seen that many
\* frames in their second.
SavedInv ==
  ~wentBack =>
    /\ \A s \in Seconds : s > clock => saved[s].state # "whole"
    /\ stack_active => stack_ts <= clock
    /\ saved[clock].state = "whole" => stamped[clock] > STACK_TIMEOUT
    /\ stack_active /\ stack_ts = clock => stamped[clock] + stack_countdown > STACK_TIMEOUT
    /\ stack_active /\ saved[stack_ts].state = "whole" =>
         stamped[stack_ts] > STACK_TIMEOUT + 1

\* What a frame does to the stack: begun, kept open, or saved.
StackMoved(begins) ==
  /\ begins => ~stack_active
  /\ ~begins => stack_active
  /\ stack_ts' = IF begins THEN clock ELSE stack_ts
  /\ begins => stack_countdown' = STACK_TIMEOUT
  /\ stack_countdown' = STACK_TIMEOUT \/ stack_countdown' = stack_countdown - 1
  /\ stack_countdown' # 0 => saved' = saved
  /\ \A s \in Seconds : s # stack_ts' => saved'[s] = saved[s]

LEMMA StackStep ==
  ASSUME DetectionInv, frame_index < MaxFrames,
         NEW hit \in SUBSET DOMAIN tracks, NEW n \in 0 .. MaxBlobs, NEW io \in SaveOutcomes,
         NEW straight \in SUBSET hit, next_track_id + n <= MaxTracks,
         Frame(hit, n, straight, io)
  PROVE  \/ ~stack_active /\ UNCHANGED <<stack_active, stack_ts, stack_countdown, saved>>
         \/ \E begins \in BOOLEAN : StackMoved(begins)
<1>1. PICK now :
        /\ now = Confirmed(Associated(hit, n, frame_index + 1), straight, frame_index + 1)
                 /\ TracksMoved(hit, n, straight, now)
  BY TracksStep
<1>2. /\ IF stack_active \/ straight # {} THEN Stacking(now, straight, frame_index + 1, io)
                                          ELSE UNCHANGED <<stack, saved>>
      /\ straight \subseteq Candidates(Associated(hit, n, frame_index + 1), hit)
  BY <1>1 DEF Frame
<1>3. straight # {} => InSight(now) # {}
  BY <1>1, <1>2, StraightInSight
<1>4. CASE ~(stack_active \/ straight # {})
  BY <1>2, <1>4 DEF stack
<1>5. CASE stack_active \/ straight # {}
  <2>1. PICK begins \in BOOLEAN : begins <=> (straight # {} /\ ~stack_active)
    OBVIOUS
  <2>2. /\ stack_ts' = IF begins THEN clock ELSE stack_ts
        /\ stack_countdown' = IF InSight(now) # {} THEN STACK_TIMEOUT
                              ELSE (IF begins THEN STACK_TIMEOUT ELSE stack_countdown) - 1
        /\ saved' = IF stack_countdown' = 0
                    THEN [saved EXCEPT ![stack_ts'] = Written(saved[stack_ts'], io)] ELSE saved
    BY <1>2, <1>5, <2>1 DEF Stacking, StackName, Countdown
  <2>3. begins => InSight(now) # {}
    BY <1>3, <2>1
  <2>4. \A s \in Seconds : s # stack_ts' => saved'[s] = saved[s]
    BY <2>2
  <2> QED
    BY <1>5, <2>1, <2>2, <2>3, <2>4 DEF StackMoved
<1> QED
  BY <1>4, <1>5

\* A frame keeps the invariant, and what it overwrites has seen enough frames.
LEMMA SavedFrame ==
  ASSUME DetectionInv, SavedInv, frame_index < MaxFrames,
         NEW hit \in SUBSET DOMAIN tracks, NEW n \in 0 .. MaxBlobs, NEW io \in SaveOutcomes,
         NEW straight \in SUBSET hit, next_track_id + n <= MaxTracks,
         Frame(hit, n, straight, io)
  PROVE  /\ SavedInv'
         /\ \A s \in Seconds : saved[s].state = "whole" /\ saved'[s] # saved[s] =>
              wentBack \/ stamped'[s] > STACK_TIMEOUT + 1
<1>1. /\ clock \in Seconds /\ clock' = clock /\ wentBack' = wentBack
      /\ \A s \in Seconds : stamped[s] \in Nat
                           /\ stamped'[s] = IF s = clock THEN stamped[s] + 1 ELSE stamped[s]
      /\ stack_ts \in Seconds /\ stack_countdown \in Nat /\ STACK_TIMEOUT \in Nat
      /\ Seconds \subseteq Nat
      /\ stack_active <=> stack_countdown > 0
  <2>1. stamped' = [stamped EXCEPT ![clock] = @ + 1] /\ clock' = clock /\ wentBack' = wentBack
    BY DEF Frame
  <2>2. stamped \in [Seconds -> Nat] /\ clock \in Seconds /\ stack_ts \in Seconds
        /\ stack_countdown \in 0 .. STACK_TIMEOUT
        /\ (stack_active <=> stack_countdown > 0)
    BY DEF DetectionInv, TypeOK, StackEndsInTime
  <2> QED
    BY <2>1, <2>2, DetectionConstants DEF Seconds
<1>2. /\ stack_active' <=> stack_countdown' > 0
      /\ stack_ts' \in Seconds /\ stack_countdown' \in Nat
  <2>1. DetectionInv'
    BY FrameStep
  <2> QED
    BY <2>1, DetectionConstants DEF DetectionInv, TypeOK, StackEndsInTime
<1>3. CASE wentBack
  BY <1>1, <1>3 DEF SavedInv
<1>4. CASE ~wentBack
  <2>1. /\ \A s \in Seconds : s > clock => saved[s].state # "whole"
        /\ stack_active => stack_ts <= clock
        /\ saved[clock].state = "whole" => stamped[clock] > STACK_TIMEOUT
        /\ stack_active /\ stack_ts = clock => stamped[clock] + stack_countdown > STACK_TIMEOUT
        /\ stack_active /\ saved[stack_ts].state = "whole" =>
             stamped[stack_ts] > STACK_TIMEOUT + 1
    BY <1>4 DEF SavedInv
  <2>2. CASE ~stack_active /\ UNCHANGED <<stack_active, stack_ts, stack_countdown, saved>>
    <3>1. SavedInv'
      BY <1>1, <2>1, <2>2 DEF SavedInv
    <3> QED
      BY <2>2, <3>1
  <2>3. CASE \E begins \in BOOLEAN : StackMoved(begins)
    <3>1. PICK begins \in BOOLEAN : StackMoved(begins)
      BY <2>3
    <3>2. stack_ts' <= clock
      BY <1>1, <2>1, <3>1 DEF StackMoved
    <3>3. stack_ts' = clock => stamped'[clock] + stack_countdown' > STACK_TIMEOUT
      BY <1>1, <1>2, <2>1, <3>1 DEF StackMoved
    <3>4. saved[stack_ts'].state = "whole" => stamped'[stack_ts'] > STACK_TIMEOUT + 1
      BY <1>1, <2>1, <3>1 DEF StackMoved
    <3>5. \A s \in Seconds : saved'[s] # saved[s] => s = stack_ts' /\ stack_countdown' = 0
      BY <3>1 DEF StackMoved
    <3>6. ASSUME NEW s \in Seconds, s > clock PROVE saved'[s].state # "whole"
      BY <1>1, <2>1, <3>2, <3>5, <3>6
    <3>7. saved'[clock].state = "whole" => stamped'[clock] > STACK_TIMEOUT
      <4>1. CASE saved'[clock] = saved[clock]
        BY <1>1, <2>1, <4>1
      <4>2. CASE saved'[clock] # saved[clock]
        BY <1>1, <3>3, <3>5, <4>2
      <4> QED
        BY <4>1, <4>2
    <3>8. stack_active' => stack_countdown' # 0 /\ saved' = saved
      BY <1>2, <3>1 DEF StackMoved
    <3>9. SavedInv'
      BY <1>1, <3>2, <3>3, <3>4, <3>6, <3>7, <3>8 DEF SavedInv
    <3> QED
      BY <3>4, <3>5, <3>9
  <2> QED
    BY <2>2, <2>3, StackStep
<1> QED
  BY <1>3, <1>4

LEMMA SavedStep ==
  ASSUME DetectionInv, SavedInv, [Next]_vars
  PROVE  /\ SavedInv'
         /\ \A s \in Seconds : saved[s].state = "whole" /\ saved'[s] # saved[s] =>
              wentBack \/ stamped'[s] > STACK_TIMEOUT + 1
<1>1. ASSUME frame_index < MaxFrames,
             NEW hit \in SUBSET DOMAIN tracks, NEW n \in 0 .. MaxBlobs,
             NEW io \in SaveOutcomes, next_track_id + n <= MaxTracks,
             NEW straight \in SUBSET hit, Frame(hit, n, straight, io)
      PROVE  /\ SavedInv'
             /\ \A s \in Seconds : saved[s].state = "whole" /\ saved'[s] # saved[s] =>
                  wentBack \/ stamped'[s] > STACK_TIMEOUT + 1
  BY <1>1, SavedFrame
<1>2. ASSUME End \/ SetDetection \/ UNCHANGED vars
      PROVE  SavedInv' /\ saved' = saved
  <2>1. UNCHANGED <<clock, wentBack, saved, stack_active, stack_ts, stack_countdown, stamped>>
    BY <1>2 DEF End, SetDetection, vars, stack, history
  <2> QED
    BY <2>1 DEF SavedInv
<1>3. ASSUME NEW s \in Seconds, SetClock(s)
      PROVE  SavedInv' /\ saved' = saved
  <2>1. /\ UNCHANGED <<saved, stack_active, stack_ts, stack_countdown, stamped>>
        /\ clock' = s /\ wentBack' = (wentBack \/ s < clock)
    BY <1>3 DEF SetClock, stack, history
  <2>0. /\ clock \in Nat /\ s \in Nat /\ clock \in Seconds /\ stack_ts \in Nat
        /\ Seconds \subseteq Nat
    BY DetectionConstants DEF DetectionInv, TypeOK, Seconds
  <2>2. CASE s = clock
    BY <2>0, <2>1, <2>2 DEF SavedInv
  <2>3. CASE s < clock
    BY <2>1, <2>3 DEF SavedInv
  <2>4. CASE s > clock
    <3>1. SUFFICES ASSUME ~wentBack' PROVE SavedInv'
      BY <2>1 DEF SavedInv
    <3>2. ~wentBack
      BY <2>1, <3>1, Zenon
    <3>3. /\ \A u \in Seconds : u > clock => saved[u].state # "whole"
          /\ stack_active => stack_ts <= clock
          /\ stack_active /\ saved[stack_ts].state = "whole" =>
               stamped[stack_ts] > STACK_TIMEOUT + 1
      BY <3>2, Zenon DEF SavedInv
    <3>4. (\A u \in Seconds : u > s => u > clock) /\ (stack_ts <= clock => stack_ts # s)
      BY <2>0, <2>4
    <3> QED
      BY <2>0, <2>1, <2>4, <3>3, <3>4 DEF SavedInv
  <2> QED
    BY <2>0, <2>1, <2>2, <2>3, <2>4
<1> QED
  BY <1>1, <1>2, <1>3 DEF Next

LEMMA InitSaved ==
  ASSUME Init
  PROVE  SavedInv
BY DetectionConstants DEF Init, SavedInv, Unsaved, Seconds

-----------------------------------------------------------------------------
(* The day/night decision *)

\* Samples written since the one in slot i.
Age(i) == IF i < history_idx THEN history_idx - 1 - i ELSE history_idx - 1 - i + SampleCount

\* What history.fill, or the start, put into every slot.
Fill == CASE mode = "Night" -> 0 [] mode = "Day" -> 100 [] OTHER -> D!Neutral

\* The slots written since the last transition hold the new scene, the others the fill.
SlotsInv ==
  \A i \in D!Slots :
    /\ Age(i) >= fresh => brightness_ring[i] = Fill
    /\ Age(i) < fresh /\ Age(i) < dark => brightness_ring[i] < THRESHOLD_LOW
    /\ Age(i) < fresh /\ Age(i) < bright => brightness_ring[i] > THRESHOLD_HIGH

\* Each sample moves the sum by 100 at most.
SumInv ==
  /\ mode = "Night" => D!Sum(brightness_ring) <= 100 * fresh
  /\ mode = "Day" => D!Sum(brightness_ring) + 100 * fresh >= 100 * SampleCount

\* After n samples and the sleep after each, e seconds of the dwell time are over.
Waited(e, n) == e >= MinTransition \/ e >= (n + 1) * INTERVAL

DwellInv == mode # "Unknown" => Waited(elapsed, fresh)

\* A transition against the scene comes within one window of the scene's begin.
SceneInv ==
  /\ mode = "Day" => dark <= fresh + SampleCount
  /\ mode = "Night" => bright <= fresh + SampleCount
  /\ mode = "Unknown" => fresh = SampleCount \/ (dark <= fresh /\ bright <= fresh)

DayNightIInv == D!TypeOK /\ D!ModeFitsAverage /\ SlotsInv /\ SumInv /\ DwellInv /\ SceneInv
\* Induction over a set of numbers.
LEMMA Counting ==
  ASSUME NEW K \in SUBSET Nat, 0 \in K, \A n \in K : n + 1 \in K PROVE \A n \in Nat : n \in K
<1> DEFINE T == {n \in Nat : n \notin K}
<1>1. SUFFICES ASSUME T # {} PROVE FALSE
  OBVIOUS
<1>2. PICK x \in T : \A y \in T : <<y, x>> \notin OpToRel(<, Nat)
  BY <1>1, WFMin, NatLessThanWellFounded
<1>3. x \in Nat /\ x \notin K /\ \A y \in T : ~(y < x)
  BY <1>2 DEF OpToRel
<1>4. x # 0 /\ x - 1 \in Nat /\ x - 1 < x /\ (x - 1) + 1 = x
  BY <1>3
<1>5. x - 1 \in K
  BY <1>3, <1>4
<1> QED BY <1>3, <1>4, <1>5

\* The sums of the first slots.
Total(s, n, g) == g = [k \in 0 .. n |-> IF k = 0 THEN 0 ELSE g[k - 1] + s[k - 1]]

LEMMA TotalFacts ==
  ASSUME NEW s, NEW n \in Nat, NEW g, Total(s, n, g)
  PROVE  g[0] = 0 /\ \A k \in Nat : k < n => g[k + 1] = g[k] + s[k]
<1>1. \A j \in 0 .. n : g[j] = IF j = 0 THEN 0 ELSE g[j - 1] + s[j - 1]
  BY Zenon DEF Total
<1>2. ASSUME NEW k \in Nat, k < n PROVE g[k + 1] = g[k] + s[k]
  <2>1. k + 1 \in 0 .. n /\ k + 1 # 0 /\ (k + 1) - 1 = k
    BY <1>2
  <2> QED BY <1>1, <2>1
<1>3. 0 \in 0 .. n
  OBVIOUS
<1> QED BY <1>1, <1>2, <1>3

\* The sums exist, so that the definitions that CHOOSE them return them.
LEMMA TotalExists ==
  ASSUME NEW s, NEW last \in Nat
  PROVE  \E g : Total(s, last, g)
<1> DEFINE M == {n \in Nat : \E g : Total(s, n, g)}
<1>1. 0 \in M
  <2> DEFINE g == [k \in 0 .. 0 |-> 0]
  <2>1. Total(s, 0, g)
    BY DEF Total
  <2> QED BY <2>1
<1>2. ASSUME NEW n \in M PROVE n + 1 \in M
  <2>1. PICK g : Total(s, n, g)
    OBVIOUS
  <2> DEFINE h == [k \in 0 .. n + 1 |-> IF k = n + 1 THEN g[n] + s[n] ELSE g[k]]
  <2>2. n \in Nat
    OBVIOUS
  <2>3. ASSUME NEW k \in 0 .. n + 1
        PROVE  h[k] = IF k = 0 THEN 0 ELSE h[k - 1] + s[k - 1]
    <3>1. CASE k = 0
      <4>1. g[0] = 0
        BY <2>1, <2>2, TotalFacts
      <4> QED BY <3>1, <4>1, <2>2
    <3>2. CASE k # 0 /\ k # n + 1
      <4>1. k \in 1 .. n /\ k - 1 \in Nat /\ k - 1 < n /\ (k - 1) + 1 = k
        BY <3>2, <2>2
      <4>2. g[k] = g[k - 1] + s[k - 1]
        BY <2>1, <2>2, <4>1, TotalFacts
      <4>3. h[k] = g[k] /\ h[k - 1] = g[k - 1]
        BY <4>1, <2>2
      <4> QED BY <4>2, <4>3, <3>2
    <3>3. CASE k = n + 1
      <4>1. h[k - 1] = g[n] /\ k # 0 /\ k - 1 = n
        BY <3>3, <2>2
      <4> QED BY <4>1, <3>3
    <3> QED BY <3>1, <3>2, <3>3
  <2>4. h = [k \in 0 .. n + 1 |-> h[k]]
    OBVIOUS
  <2> HIDE DEF h
  <2>5. Total(s, n + 1, h)
    BY <2>3, <2>4 DEF Total
  <2> QED BY <2>2, <2>5
<1>3. last \in M
  <2> HIDE DEF M
  <2>1. M \in SUBSET Nat
    BY DEF M
  <2> QED BY <1>1, <1>2, <2>1, Counting
<1> QED BY <1>3

LEMMA SumRun ==
  ASSUME NEW s, SampleCount \in Nat
  PROVE  \E g : Total(s, SampleCount, g) /\ D!Sum(s) = g[SampleCount]
<1>1. \E g : Total(s, SampleCount, g)
  BY TotalExists
<1> DEFINE c == CHOOSE g : g = [n \in 0 .. SampleCount |->
                                 IF n = 0 THEN 0 ELSE g[n - 1] + s[n - 1]]
<1>2. Total(s, SampleCount, c)
  BY <1>1 DEF Total
<1>3. D!Sum(s) = c[SampleCount]
  BY DEF D!Sum
<1> QED BY <1>2, <1>3

\* The average lies between the lowest and the highest sample.
LEMMA SumBounds ==
  ASSUME SampleCount \in Nat, NEW s \in [D!Slots -> Int], NEW lo \in Int, NEW hi \in Int,
         \A i \in D!Slots : lo <= s[i] /\ s[i] <= hi
  PROVE  D!Sum(s) \in Int /\ lo * SampleCount <= D!Sum(s) /\ D!Sum(s) <= hi * SampleCount
<1>1. PICK g : Total(s, SampleCount, g) /\ D!Sum(s) = g[SampleCount]
  BY SumRun
<1> DEFINE M == {k \in Nat : k <= SampleCount => g[k] \in Int /\ lo * k <= g[k] /\ g[k] <= hi * k}
<1>2. 0 \in M
  BY <1>1, TotalFacts
<1>3. ASSUME NEW k \in M PROVE k + 1 \in M
  <2>1. SUFFICES ASSUME k + 1 <= SampleCount
                 PROVE  g[k + 1] \in Int /\ lo * (k + 1) <= g[k + 1] /\ g[k + 1] <= hi * (k + 1)
    OBVIOUS
  <2>2. k \in Nat /\ k < SampleCount /\ k <= SampleCount /\ k \in D!Slots
    BY <2>1 DEF D!Slots
  <2>3. g[k + 1] = g[k] + s[k]
    BY <1>1, <2>2, TotalFacts
  <2>4. g[k] \in Int /\ lo * k <= g[k] /\ g[k] <= hi * k
    BY <2>2
  <2>5. s[k] \in Int /\ lo <= s[k] /\ s[k] <= hi
    BY <2>2
  <2>6. lo * (k + 1) = lo * k + lo /\ hi * (k + 1) = hi * k + hi /\ lo * k \in Int
          /\ hi * k \in Int
    BY <2>2
  <2> QED BY <2>3, <2>4, <2>5, <2>6
<1>4. SampleCount \in M
  <2>1. M \in SUBSET Nat
    OBVIOUS
  <2> HIDE DEF M
  <2> QED BY <1>2, <1>3, <2>1, Counting
<1> QED BY <1>1, <1>4

\* One sample for another.
LEMMA SumUpdate ==
  ASSUME SampleCount \in Nat, NEW s \in [D!Slots -> Int], NEW i \in D!Slots, NEW b \in Int,
         NEW t, t = [s EXCEPT ![i] = b]
  PROVE  D!Sum(t) = D!Sum(s) - s[i] + b
<1>1. PICK g : Total(s, SampleCount, g) /\ D!Sum(s) = g[SampleCount]
  BY SumRun
<1>2. PICK h : Total(t, SampleCount, h) /\ D!Sum(t) = h[SampleCount]
  BY SumRun
<1>i. i \in Nat /\ i < SampleCount /\ s[i] \in Int
  BY DEF D!Slots
<1> DEFINE M == {k \in Nat : k <= SampleCount =>
                   g[k] \in Int /\ h[k] = g[k] + (IF i < k THEN b - s[i] ELSE 0)}
<1>3. 0 \in M
  <2>1. g[0] = 0 /\ h[0] = 0
    BY <1>1, <1>2, TotalFacts
  <2> QED BY <2>1, <1>i
<1>4. ASSUME NEW k \in M PROVE k + 1 \in M
  <2>1. SUFFICES ASSUME k + 1 <= SampleCount
                 PROVE  g[k + 1] \in Int
                   /\ h[k + 1] = g[k + 1] + (IF i < k + 1 THEN b - s[i] ELSE 0)
    OBVIOUS
  <2>2. k \in Nat /\ k < SampleCount /\ k <= SampleCount /\ k \in D!Slots
    BY <2>1 DEF D!Slots
  <2>3. g[k + 1] = g[k] + s[k] /\ h[k + 1] = h[k] + t[k]
    BY <1>1, <1>2, <2>2, TotalFacts
  <2>4. g[k] \in Int /\ h[k] = g[k] + (IF i < k THEN b - s[i] ELSE 0)
    BY <2>2
  <2>5. s[k] \in Int /\ t[k] = IF k = i THEN b ELSE s[k]
    BY <2>2
  <2> QED BY <1>i, <2>2, <2>3, <2>4, <2>5
<1>5. SampleCount \in M
  <2>1. M \in SUBSET Nat
    OBVIOUS
  <2> HIDE DEF M
  <2> QED BY <1>3, <1>4, <2>1, Counting
<1> QED BY <1>1, <1>2, <1>5, <1>i

LEMMA Times ==
  ASSUME NEW a \in Int, NEW b \in Int, a <= b, NEW n \in Nat PROVE a * n <= b * n
<1>1. (b - a) * n >= 0
  OBVIOUS
<1>2. (b - a) * n = b * n - a * n
  OBVIOUS
<1> QED BY <1>1, <1>2

LEMMA ConstantFacts ==
  ASSUME D!DayNightConstants
  PROVE  /\ SampleCount \in Nat \ {0} /\ INTERVAL \in Nat \ {0} /\ MinTransition \in Nat
         /\ THRESHOLD_LOW \in 0 .. 50 /\ THRESHOLD_HIGH \in 50 .. 100
         /\ THRESHOLD_LOW < THRESHOLD_HIGH
BY DEF D!DayNightConstants, D!Neutral

LEMMA FilledFacts ==
  ASSUME D!DayNightConstants, NEW level \in 0 .. 100
  PROVE  /\ D!Filled(level) \in [D!Slots -> 0 .. 100]
    /\ D!Sum(D!Filled(level)) = level * SampleCount
         /\ \A i \in D!Slots : D!Filled(level)[i] = level
<1>1. PICK f : f = D!Filled(level)
  OBVIOUS
<1>2. f \in [D!Slots -> 0 .. 100] /\ \A i \in D!Slots : f[i] = level
  BY <1>1 DEF D!Filled
<1>3. f \in [D!Slots -> Int] /\ level \in Int /\ SampleCount \in Nat
  BY <1>2, ConstantFacts
<1>4. D!Sum(f) \in Int /\ level * SampleCount <= D!Sum(f) /\ D!Sum(f) <= level * SampleCount
  <2>1. \A i \in D!Slots : level <= f[i] /\ f[i] <= level
    BY <1>2, <1>3
  <2> QED BY <1>3, <2>1, SumBounds
<1>5. level * SampleCount \in Int
  BY <1>3
<1>6. D!Sum(f) = level * SampleCount
  BY <1>4, <1>5
<1> QED BY <1>1, <1>2, <1>6

\* One side of the band, told by the highest and the lowest sample.
LEMMA LowIsBelow ==
  ASSUME D!DayNightConstants, NEW s \in [D!Slots -> 0 .. 100],
         \A i \in D!Slots : s[i] < THRESHOLD_LOW
  PROVE  D!Below(s)
<1>1. \A i \in D!Slots : 0 <= s[i] /\ s[i] <= THRESHOLD_LOW - 1
  BY ConstantFacts
<1>2. D!Sum(s) <= (THRESHOLD_LOW - 1) * SampleCount /\ D!Sum(s) \in Int
  BY <1>1, ConstantFacts, SumBounds
<1>3. (THRESHOLD_LOW - 1) * SampleCount = THRESHOLD_LOW * SampleCount - SampleCount
      /\ THRESHOLD_LOW * SampleCount \in Int
  BY ConstantFacts
<1> QED BY <1>2, <1>3, ConstantFacts DEF D!Below

LEMMA HighIsAbove ==
  ASSUME D!DayNightConstants, NEW s \in [D!Slots -> 0 .. 100],
         \A i \in D!Slots : s[i] > THRESHOLD_HIGH
  PROVE  D!Above(s)
<1>1. \A i \in D!Slots : THRESHOLD_HIGH + 1 <= s[i] /\ s[i] <= 100
  BY ConstantFacts
<1>2. (THRESHOLD_HIGH + 1) * SampleCount <= D!Sum(s) /\ D!Sum(s) \in Int
  BY <1>1, ConstantFacts, SumBounds
<1>3. (THRESHOLD_HIGH + 1) * SampleCount = THRESHOLD_HIGH * SampleCount + SampleCount
      /\ THRESHOLD_HIGH * SampleCount \in Int
  BY ConstantFacts
<1> QED BY <1>2, <1>3, ConstantFacts DEF D!Above

LEMMA NoneHigh ==
  ASSUME D!DayNightConstants, NEW s \in [D!Slots -> 0 .. 100],
         \A i \in D!Slots : s[i] <= THRESHOLD_HIGH
  PROVE  ~D!Above(s)
<1>1. D!Sum(s) <= THRESHOLD_HIGH * SampleCount /\ D!Sum(s) \in Int
  <2>1. \A i \in D!Slots : 0 <= s[i] /\ s[i] <= THRESHOLD_HIGH
    OBVIOUS
  <2>2. s \in [D!Slots -> Int] /\ THRESHOLD_HIGH \in Int /\ SampleCount \in Nat
    BY ConstantFacts
  <2> QED BY <2>1, <2>2, SumBounds
<1>2. THRESHOLD_HIGH * SampleCount \in Int
  BY ConstantFacts
<1> QED BY <1>1, <1>2 DEF D!Above

LEMMA NoneLow ==
  ASSUME D!DayNightConstants, NEW s \in [D!Slots -> 0 .. 100],
         \A i \in D!Slots : THRESHOLD_LOW <= s[i]
  PROVE  ~D!Below(s)
<1>1. THRESHOLD_LOW * SampleCount <= D!Sum(s) /\ D!Sum(s) \in Int
  <2>1. \A i \in D!Slots : THRESHOLD_LOW <= s[i] /\ s[i] <= 100
    OBVIOUS
  <2>2. s \in [D!Slots -> Int] /\ THRESHOLD_LOW \in Int /\ SampleCount \in Nat
    BY ConstantFacts
  <2> QED BY <2>1, <2>2, SumBounds
<1>2. THRESHOLD_LOW * SampleCount \in Int
  BY ConstantFacts
<1> QED BY <1>1, <1>2 DEF D!Below

LEMMA InitDayNight == ASSUME D!DayNightConstants PROVE D!Init => DayNightIInv
<1> SUFFICES ASSUME D!Init PROVE DayNightIInv
  OBVIOUS
<1>1. brightness_ring = D!Filled(50) /\ 50 \in 0 .. 100
  BY DEF D!Init, D!Neutral
<1>2. brightness_ring \in [D!Slots -> 0 .. 100] /\ \A i \in D!Slots : brightness_ring[i] = 50
  BY <1>1, FilledFacts
<1>3. D!TypeOK
  BY <1>2, ConstantFacts DEF D!Init, D!TypeOK, D!Slots
<1>4. D!ModeFitsAverage
  <2>1. ~D!Below(brightness_ring)
    BY <1>2, ConstantFacts, NoneLow
  <2>2. ~D!Above(brightness_ring)
    BY <1>2, ConstantFacts, NoneHigh
  <2> QED BY <2>1, <2>2 DEF D!ModeFitsAverage
<1>5. SlotsInv
  <2>1. \A i \in D!Slots : brightness_ring[i] = Fill
    BY <1>2 DEF D!Init, Fill, D!Neutral
  <2>2. \A i \in D!Slots : Age(i) >= 0 /\ Age(i) \in Int
    BY ConstantFacts DEF D!Init, Age, D!Slots
  <2> QED BY <2>1, <2>2 DEF D!Init, SlotsInv
<1>6. SumInv /\ DwellInv /\ SceneInv
  BY DEF D!Init, SumInv, DwellInv, SceneInv
<1> QED BY <1>3, <1>4, <1>5, <1>6 DEF DayNightIInv

\* A whole window of the scene: the mode has followed.
LEMMA WindowFollows ==
  ASSUME D!DayNightConstants, DayNightIInv, fresh = SampleCount
  PROVE  /\ dark >= SampleCount => mode = "Night"
         /\ bright >= SampleCount => mode = "Day"
<1>0. D!TypeOK /\ D!ModeFitsAverage /\ SlotsInv
  BY DEF DayNightIInv
<1>1. brightness_ring \in [D!Slots -> 0 .. 100] /\ mode \in {"Unknown", "Day", "Night"}
      /\ dark \in Int /\ bright \in Int /\ history_idx \in D!Slots
  BY <1>0, ConstantFacts DEF D!TypeOK
<1>2. \A i \in D!Slots : Age(i) < SampleCount
  BY <1>1, ConstantFacts DEF Age, D!Slots
<1>3. ASSUME dark >= SampleCount PROVE mode = "Night"
  <2>1. \A i \in D!Slots : Age(i) \in Int
    BY <1>1, ConstantFacts DEF Age, D!Slots
  <2>2. \A i \in D!Slots : brightness_ring[i] < THRESHOLD_LOW
    BY <1>0, <1>1, <1>2, <1>3, <2>1, ConstantFacts DEF SlotsInv
  <2> QED BY <1>0, <1>1, <2>2, LowIsBelow DEF D!ModeFitsAverage
<1>4. ASSUME bright >= SampleCount PROVE mode = "Day"
  <2>1. \A i \in D!Slots : Age(i) \in Int
    BY <1>1, ConstantFacts DEF Age, D!Slots
  <2>2. \A i \in D!Slots : brightness_ring[i] > THRESHOLD_HIGH
    BY <1>0, <1>1, <1>2, <1>4, <2>1, ConstantFacts DEF SlotsInv
  <2> QED BY <1>0, <1>1, <2>2, HighIsAbove DEF D!ModeFitsAverage
<1> QED BY <1>3, <1>4

LEMMA DayNightImplied == ASSUME D!DayNightConstants, DayNightIInv PROVE D!DayNightInv
<1>1. D!TypeOK /\ SceneInv /\ D!ModeFitsAverage
  BY DEF DayNightIInv
<1>2. /\ mode \in {"Unknown", "Day", "Night"} /\ fresh \in 0 .. SampleCount
      /\ SampleCount \in Nat \ {0} /\ dark \in Int /\ bright \in Int
  BY <1>1, ConstantFacts DEF D!TypeOK
<1>3. dark = 2 * SampleCount => mode = "Night"
  <2> SUFFICES ASSUME dark = 2 * SampleCount, mode # "Night" PROVE FALSE
    OBVIOUS
  <2>1. fresh = SampleCount
    BY <1>1, <1>2 DEF SceneInv
  <2>2. dark >= SampleCount
    BY <1>2
  <2> QED BY <2>1, <2>2, WindowFollows
<1>4. bright = 2 * SampleCount => mode = "Day"
  <2> SUFFICES ASSUME bright = 2 * SampleCount, mode # "Day" PROVE FALSE
    OBVIOUS
  <2>1. fresh = SampleCount
    BY <1>1, <1>2 DEF SceneInv
  <2>2. bright >= SampleCount
    BY <1>2
  <2> QED BY <2>1, <2>2, WindowFollows
<1> QED BY <1>1, <1>3, <1>4 DEF D!DayNightInv, D!FollowsScene

LEMMA NextIdx ==
  ASSUME D!DayNightConstants, history_idx \in D!Slots
  PROVE  D!next_idx = IF history_idx + 1 = SampleCount THEN 0 ELSE history_idx + 1
<1>1. PICK n \in Nat \ {0} : n = SampleCount
  BY ConstantFacts
<1>2. PICK k \in 0 .. n - 1 : k = history_idx
  BY <1>1 DEF D!Slots
<1>3. (k + 1) % n = IF k + 1 = n THEN 0 ELSE k + 1
  OBVIOUS
<1> QED BY <1>1, <1>2, <1>3 DEF D!next_idx

\* The ring with the new sample, and where the sum can go.
Entered(brightness, samples) ==
  /\ samples \in [D!Slots -> 0 .. 100] /\ D!Sum(samples) \in Int
  /\ \A i \in D!Slots : samples[i] = IF i = history_idx THEN brightness ELSE brightness_ring[i]
  /\ mode = "Night" => D!Sum(samples) <= 100 * (fresh + 1)
  /\ mode = "Day" => D!Sum(samples) + 100 * (fresh + 1) >= 100 * SampleCount
  /\ D!Sum(samples) <= 100 * SampleCount /\ 0 <= D!Sum(samples)

LEMMA EnteredFacts ==
  ASSUME D!DayNightConstants, DayNightIInv, NEW brightness \in 0 .. 100
  PROVE  Entered(brightness, [brightness_ring EXCEPT ![history_idx] = brightness])
<1>0. D!TypeOK /\ SumInv
  BY DEF DayNightIInv
<1>1. /\ brightness_ring \in [D!Slots -> 0 .. 100] /\ brightness_ring \in [D!Slots -> Int]
      /\ history_idx \in D!Slots
      /\ fresh \in Int /\ brightness \in Int /\ SampleCount \in Nat
  BY <1>0, ConstantFacts DEF D!TypeOK
<1>s. PICK samples : samples = [brightness_ring EXCEPT ![history_idx] = brightness]
  OBVIOUS
<1>2. /\ samples \in [D!Slots -> 0 .. 100] /\ samples \in [D!Slots -> Int]
      /\ \A i \in D!Slots : samples[i] = IF i = history_idx THEN brightness ELSE brightness_ring[i]
  BY <1>1, <1>s
<1>3. D!Sum(samples) = D!Sum(brightness_ring) - brightness_ring[history_idx] + brightness
  BY <1>1, <1>s, SumUpdate
<1>4. D!Sum(brightness_ring) \in Int
  <2>1. \A i \in D!Slots : 0 <= brightness_ring[i] /\ brightness_ring[i] <= 100
    BY <1>1
  <2> QED BY <1>1, <2>1, SumBounds
<1>5. D!Sum(samples) \in Int /\ 0 * SampleCount <= D!Sum(samples)
        /\ D!Sum(samples) <= 100 * SampleCount
  <2>1. \A i \in D!Slots : 0 <= samples[i] /\ samples[i] <= 100
    BY <1>2
  <2>2. PICK lo \in Int : lo = 0
    OBVIOUS
  <2>3. PICK hi \in Int : hi = 100
    OBVIOUS
  <2>4. \A i \in D!Slots : lo <= samples[i] /\ samples[i] <= hi
    BY <2>1, <2>2, <2>3
  <2>5. D!Sum(samples) \in Int /\ lo * SampleCount <= D!Sum(samples)
          /\ D!Sum(samples) <= hi * SampleCount
    BY <1>1, <1>2, <2>4, SumBounds
  <2> QED BY <2>2, <2>3, <2>5
<1>6. brightness_ring[history_idx] \in 0 .. 100
  BY <1>1
<1>7. mode = "Night" => D!Sum(samples) <= 100 * (fresh + 1)
  BY <1>0, <1>1, <1>3, <1>4, <1>6 DEF SumInv
<1>8. mode = "Day" => D!Sum(samples) + 100 * (fresh + 1) >= 100 * SampleCount
  BY <1>0, <1>1, <1>3, <1>4, <1>6 DEF SumInv
<1>9. 0 <= D!Sum(samples)
  BY <1>1, <1>5
<1> QED BY <1>s, <1>2, <1>5, <1>7, <1>8, <1>9 DEF Entered

\* As many samples as it takes to switch back outweigh the threshold.
LEMMA SwitchTakes ==
  ASSUME D!DayNightConstants, DayNightIInv, NEW brightness \in 0 .. 100,
         NEW samples, Entered(brightness, samples), mode # "Unknown", D!target(samples) # mode
  PROVE  (fresh + 1) * 100 > SampleCount *
           (IF mode = "Night" THEN THRESHOLD_HIGH ELSE 100 - THRESHOLD_LOW)
<1>0. /\ mode \in {"Day", "Night"} /\ fresh \in Int /\ SampleCount \in Int
      /\ THRESHOLD_LOW \in Int /\ THRESHOLD_HIGH \in Int
  BY ConstantFacts DEF DayNightIInv, D!TypeOK
<1>1. CASE mode = "Night"
  <2>1. D!Above(samples)
    BY <1>1 DEF D!target
  <2>2. D!Sum(samples) > THRESHOLD_HIGH * SampleCount /\ D!Sum(samples) <= 100 * (fresh + 1)
        /\ D!Sum(samples) \in Int
    BY <1>1, <2>1 DEF D!Above, Entered
  <2>3. THRESHOLD_HIGH * SampleCount \in Int
          /\ THRESHOLD_HIGH * SampleCount = SampleCount * THRESHOLD_HIGH
    BY <1>0
  <2> QED BY <1>0, <1>1, <2>2, <2>3
<1>2. CASE mode = "Day"
  <2>1. D!Below(samples)
    BY <1>2 DEF D!target
  <2>2. D!Sum(samples) < THRESHOLD_LOW * SampleCount
        /\ D!Sum(samples) + 100 * (fresh + 1) >= 100 * SampleCount /\ D!Sum(samples) \in Int
    BY <1>2, <2>1 DEF D!Below, Entered
  <2>3. SampleCount * (100 - THRESHOLD_LOW) = 100 * SampleCount - THRESHOLD_LOW * SampleCount
        /\ THRESHOLD_LOW * SampleCount \in Int
    BY <1>0
  <2>4. (fresh + 1) * 100 > 100 * SampleCount - THRESHOLD_LOW * SampleCount
    BY <1>0, <2>2, <2>3
  <2> QED BY <1>2, <2>3, <2>4
<1> QED BY <1>0, <1>1, <1>2

\* Then the dwell time is over.
LEMMA DwellOver ==
  ASSUME D!DayNightConstants, DayNightIInv, NEW brightness \in 0 .. 100,
         NEW samples, Entered(brightness, samples), D!target(samples) # mode
  PROVE  D!dwelt
<1> SUFFICES ASSUME mode # "Unknown" PROVE elapsed >= MinTransition
  BY DEF D!dwelt
<1>0. fresh \in 0 .. SampleCount /\ elapsed \in Int /\ mode \in {"Day", "Night"}
        /\ SampleCount \in Nat
  BY ConstantFacts DEF DayNightIInv, D!TypeOK
<1>n. PICK n \in 0 .. SampleCount + 1 : n = fresh + 1
  BY <1>0
<1>1. n * 100 > SampleCount * (IF mode = "Night" THEN THRESHOLD_HIGH ELSE 100 - THRESHOLD_LOW)
  BY <1>n, SwitchTakes
<1>2. \/ 100 * n > SampleCount * THRESHOLD_HIGH
      \/ 100 * n > SampleCount * (100 - THRESHOLD_LOW)
  <2>1. n * 100 = 100 * n
    BY <1>0
  <2> QED BY <1>1, <2>1
<1>3. n * INTERVAL >= MinTransition
  BY <1>2 DEF D!DayNightConstants
<1>4. elapsed >= MinTransition \/ elapsed >= n * INTERVAL
  BY <1>n DEF DayNightIInv, DwellInv, Waited
<1>5. n * INTERVAL \in Int /\ MinTransition \in Int
  BY <1>0, ConstantFacts
<1> QED BY <1>0, <1>3, <1>4, <1>5

\* A window of the scene leaves no other decision than the scene's.
LEMMA NoSwitchAgainst ==
  ASSUME D!DayNightConstants, DayNightIInv, NEW brightness \in 0 .. 100,
         NEW samples, Entered(brightness, samples)
  PROVE  /\ brightness < THRESHOLD_LOW /\ dark >= SampleCount /\ mode # "Day" => ~D!Above(samples)
         /\ brightness > THRESHOLD_HIGH /\ bright >= SampleCount /\ mode # "Night"
              => ~D!Below(samples)
<1>0. /\ D!TypeOK /\ SlotsInv /\ brightness_ring \in [D!Slots -> 0 .. 100]
      /\ history_idx \in D!Slots
      /\ mode \in {"Unknown", "Day", "Night"} /\ fresh \in Int /\ dark \in Int /\ bright \in Int
      /\ samples \in [D!Slots -> 0 .. 100]
      /\ \A i \in D!Slots : samples[i] = IF i = history_idx THEN brightness ELSE brightness_ring[i]
  BY ConstantFacts DEF DayNightIInv, D!TypeOK, Entered
<1>1. \A i \in D!Slots : Age(i) \in Int /\ Age(i) < SampleCount
  BY <1>0, ConstantFacts DEF Age, D!Slots
<1>2. ASSUME brightness < THRESHOLD_LOW, dark >= SampleCount, mode # "Day" PROVE ~D!Above(samples)
  <2>1. Fill \in {0, 50}
    BY <1>0, <1>2 DEF Fill, D!Neutral
  <2>2. ASSUME NEW i \in D!Slots PROVE brightness_ring[i] <= THRESHOLD_HIGH
    <3>1. CASE Age(i) >= fresh
      BY <1>0, <2>1, <3>1, ConstantFacts DEF SlotsInv
    <3>2. CASE Age(i) < fresh
      <4>1. Age(i) < dark
        BY <1>0, <1>1, <1>2, ConstantFacts
      <4>2. brightness_ring[i] < THRESHOLD_LOW
        BY <1>0, <3>2, <4>1 DEF SlotsInv
      <4> QED BY <1>0, <4>2, ConstantFacts
    <3> QED BY <1>0, <1>1, <3>1, <3>2
  <2>3. \A i \in D!Slots : samples[i] <= THRESHOLD_HIGH
    BY <1>0, <1>2, <2>2, ConstantFacts
  <2> QED BY <1>0, <2>3, NoneHigh
<1>3. ASSUME brightness > THRESHOLD_HIGH, bright >= SampleCount, mode # "Night"
      PROVE  ~D!Below(samples)
  <2>1. Fill \in {100, 50}
    BY <1>0, <1>3 DEF Fill, D!Neutral
  <2>2. ASSUME NEW i \in D!Slots PROVE THRESHOLD_LOW <= brightness_ring[i]
    <3>1. CASE Age(i) >= fresh
      BY <1>0, <2>1, <3>1, ConstantFacts DEF SlotsInv
    <3>2. CASE Age(i) < fresh
      <4>1. Age(i) < bright
        BY <1>0, <1>1, <1>3, ConstantFacts
      <4>2. brightness_ring[i] > THRESHOLD_HIGH
        BY <1>0, <3>2, <4>1 DEF SlotsInv
      <4> QED BY <1>0, <4>2, ConstantFacts
    <3> QED BY <1>0, <1>1, <3>1, <3>2
  <2>3. \A i \in D!Slots : THRESHOLD_LOW <= samples[i]
    BY <1>0, <1>3, <2>2, ConstantFacts
  <2> QED BY <1>0, <2>3, NoneLow
<1> QED BY <1>2, <1>3

\* One sample more, one interval more.
LEMMA OneMore ==
  ASSUME D!DayNightConstants, NEW f \in Int, NEW g \in Int, g <= f + 1,
         NEW e \in Int, NEW d \in Int, d >= MinTransition \/ d >= e + INTERVAL, Waited(e, f)
  PROVE  Waited(d, g)
<1>0. INTERVAL \in Nat /\ MinTransition \in Nat
  BY ConstantFacts
<1>1. (g + 1) * INTERVAL <= ((f + 1) + 1) * INTERVAL
  BY <1>0, Times
<1>2. PICK a \in Int : a = (f + 1) * INTERVAL
  BY <1>0
<1>3. ((f + 1) + 1) * INTERVAL = a + INTERVAL
  BY <1>0, <1>2
<1>4. PICK b \in Int : b = (g + 1) * INTERVAL
  BY <1>0
<1>5. b <= a + INTERVAL /\ (e >= MinTransition \/ e >= a)
  BY <1>1, <1>2, <1>3, <1>4 DEF Waited
<1>6. d >= MinTransition \/ d >= b
  BY <1>0, <1>5
<1> QED BY <1>4, <1>6 DEF Waited

LEMMA SampleStep ==
  ASSUME D!DayNightConstants, DayNightIInv, NEW brightness \in 0 .. 100, D!Sample(brightness)
  PROVE  DayNightIInv'
<1>s. PICK samples : samples = [brightness_ring EXCEPT ![history_idx] = brightness]
  OBVIOUS
<1>n. PICK new : new = D!target(samples)
  OBVIOUS
<1>0. D!TypeOK /\ D!ModeFitsAverage /\ SlotsInv /\ SumInv /\ DwellInv /\ SceneInv
  BY DEF DayNightIInv
<1>1. Entered(brightness, samples)
  BY <1>s, EnteredFacts
<1>2. new # mode => D!dwelt
  BY <1>1, <1>n, DwellOver
<1>3. /\ history_idx' = D!next_idx
      /\ mode' = new
      /\ brightness_ring' = IF new # mode THEN D!HistoryAfter(samples, new) ELSE samples
      /\ elapsed' = IF new # mode THEN D!AtMost(INTERVAL, MinTransition + 1) ELSE D!Slept
      /\ fresh' = IF new # mode THEN 0 ELSE D!AtMost(fresh + 1, SampleCount)
      /\ dark' = IF brightness < THRESHOLD_LOW THEN D!AtMost(dark + 1, 2 * SampleCount) ELSE 0
      /\ bright' = IF brightness > THRESHOLD_HIGH THEN D!AtMost(bright + 1, 2 * SampleCount) ELSE 0
      /\ auto_daynight' = auto_daynight
  BY <1>s, <1>n, <1>2 DEF D!Sample
<1>4. /\ mode \in {"Unknown", "Day", "Night"} /\ new \in {mode, "Day", "Night"}
      /\ new = "Unknown" => mode = "Unknown"
  BY <1>0, <1>n DEF D!TypeOK, D!target
<1>5. /\ brightness_ring \in [D!Slots -> 0 .. 100] /\ history_idx \in D!Slots
      /\ history_idx \in Int
      /\ fresh \in 0 .. SampleCount /\ elapsed \in 0 .. MinTransition + 1
      /\ dark \in 0 .. 2 * SampleCount /\ bright \in 0 .. 2 * SampleCount
      /\ SampleCount \in Nat \ {0} /\ INTERVAL \in Nat \ {0} /\ MinTransition \in Nat
      /\ brightness \in Int /\ THRESHOLD_LOW \in Int /\ THRESHOLD_HIGH \in Int
  <2>1. SampleCount \in Nat \ {0} /\ INTERVAL \in Nat \ {0} /\ MinTransition \in Nat
        /\ brightness \in Int /\ THRESHOLD_LOW \in Int /\ THRESHOLD_HIGH \in Int
    BY ConstantFacts
  <2>2. history_idx \in D!Slots /\ history_idx \in Int
    BY <1>0, <2>1 DEF D!TypeOK, D!Slots
  <2> QED BY <1>0, <2>1, <2>2 DEF D!TypeOK
<1>6. history_idx' = IF history_idx + 1 = SampleCount THEN 0 ELSE history_idx + 1
  BY <1>3, <1>5, NextIdx
<1>7. new # mode => /\ brightness_ring' = D!Filled(IF new = "Night" THEN 0 ELSE 100)
                    /\ \A i \in D!Slots : brightness_ring'[i] = IF new = "Night" THEN 0 ELSE 100
                    /\ D!Sum(brightness_ring') = (IF new = "Night" THEN 0 ELSE 100) * SampleCount
                    /\ brightness_ring' \in [D!Slots -> 0 .. 100]
  BY <1>3, FilledFacts DEF D!HistoryAfter
<1>8. D!TypeOK'
  <2>1. brightness_ring' \in [D!Slots -> 0 .. 100]
    BY <1>1, <1>3, <1>7 DEF Entered
  <2>2. history_idx' \in D!Slots
    BY <1>5, <1>6 DEF D!Slots
  <2>3. elapsed' \in 0 .. MinTransition + 1
    BY <1>3, <1>5 DEF D!AtMost, D!Slept
  <2>4. fresh' \in 0 .. SampleCount
    BY <1>3, <1>5 DEF D!AtMost
  <2>5. dark' \in 0 .. 2 * SampleCount /\ bright' \in 0 .. 2 * SampleCount
    BY <1>3, <1>5 DEF D!AtMost
  <2> QED BY <1>0, <1>3, <1>4, <2>1, <2>2, <2>3, <2>4, <2>5 DEF D!TypeOK
<1>9. D!ModeFitsAverage'
  <2>1. CASE new = mode
    <3>1. brightness_ring' = samples /\ mode' = mode
      BY <1>3, <2>1
    <3>2. /\ mode # "Night" => ~D!Below(samples)
          /\ mode # "Day" => ~D!Above(samples)
      BY <1>4, <1>n, <2>1 DEF D!target
    <3>3. D!Below(brightness_ring)' = D!Below(samples)
            /\ D!Above(brightness_ring)' = D!Above(samples)
      BY <3>1 DEF D!Below, D!Above
    <3> QED BY <3>1, <3>2, <3>3 DEF D!ModeFitsAverage
  <2>2. CASE new # mode
    <3>1. mode' \in {"Day", "Night"}
      BY <1>3, <1>4, <2>2
    <3>2. mode' = "Night" => ~D!Above(brightness_ring')
      <4>1. mode' = "Night" => \A i \in D!Slots : brightness_ring'[i] <= THRESHOLD_HIGH
        BY <1>3, <1>7, <2>2, ConstantFacts
      <4> QED BY <1>7, <2>2, <4>1, NoneHigh
    <3>3. mode' = "Day" => ~D!Below(brightness_ring')
      <4>1. mode' = "Day" => \A i \in D!Slots : THRESHOLD_LOW <= brightness_ring'[i]
        BY <1>3, <1>7, <2>2, ConstantFacts
      <4> QED BY <1>7, <2>2, <4>1, NoneLow
    <3>4. D!Below(brightness_ring)' = D!Below(brightness_ring')
            /\ D!Above(brightness_ring)' = D!Above(brightness_ring')
      BY DEF D!Below, D!Above, D!Sum
    <3> QED BY <3>1, <3>2, <3>3, <3>4 DEF D!ModeFitsAverage
  <2> QED BY <2>1, <2>2
<1>10. SlotsInv'
  <2>1. ASSUME NEW i \in D!Slots
        PROVE  /\ Age(i) \in Int /\ Age(i)' \in Int /\ Age(i) >= 0 /\ Age(i)' >= 0
               /\ Age(i) < SampleCount /\ Age(i)' < SampleCount
               /\ i # history_idx => Age(i)' = Age(i) + 1
               /\ i = history_idx => Age(i)' = 0
    BY <1>5, <1>6 DEF Age, D!Slots
  <2>2. CASE new # mode
    <3>1. fresh' = 0 /\ mode' = new /\ new \in {"Day", "Night"}
      BY <1>3, <1>4, <2>2
    <3>2. Fill' = IF new = "Night" THEN 0 ELSE 100
      BY <3>1 DEF Fill
    <3>3. \A i \in D!Slots : brightness_ring'[i] = Fill'
      BY <1>7, <2>2, <3>2
    <3>4. \A i \in D!Slots : ~(Age(i)' < fresh')
      BY <2>1, <3>1
    <3> QED BY <3>3, <3>4 DEF SlotsInv
  <2>3. CASE new = mode
    <3>1. /\ brightness_ring' = samples /\ mode' = mode /\ Fill' = Fill
          /\ fresh' = IF fresh + 1 < SampleCount THEN fresh + 1 ELSE SampleCount
      BY <1>3, <2>3 DEF D!AtMost, Fill
    <3>2. ASSUME NEW i \in D!Slots, i # history_idx
          PROVE  /\ Age(i)' >= fresh' => brightness_ring'[i] = Fill
                 /\ Age(i)' < fresh' /\ Age(i)' < dark' => brightness_ring'[i] < THRESHOLD_LOW
                 /\ Age(i)' < fresh' /\ Age(i)' < bright' => brightness_ring'[i] > THRESHOLD_HIGH
      <4>1. brightness_ring'[i] = brightness_ring[i] /\ Age(i)' = Age(i) + 1
        BY <1>1, <2>1, <3>1, <3>2 DEF Entered
      <4>2. Age(i)' >= fresh' => Age(i) >= fresh
        BY <1>5, <2>1, <3>1, <4>1
      <4>3. Age(i)' < fresh' => Age(i) < fresh
        BY <1>5, <2>1, <3>1, <4>1
      <4>4. Age(i)' < dark' => Age(i) < dark
        BY <1>3, <1>5, <2>1, <4>1 DEF D!AtMost
      <4>5. Age(i)' < bright' => Age(i) < bright
        BY <1>3, <1>5, <2>1, <4>1 DEF D!AtMost
      <4> QED BY <1>0, <4>1, <4>2, <4>3, <4>4, <4>5 DEF SlotsInv
    <3>3. ASSUME NEW i \in D!Slots, i = history_idx
          PROVE  /\ Age(i)' >= fresh' => brightness_ring'[i] = Fill
                 /\ Age(i)' < fresh' /\ Age(i)' < dark' => brightness_ring'[i] < THRESHOLD_LOW
                 /\ Age(i)' < fresh' /\ Age(i)' < bright' => brightness_ring'[i] > THRESHOLD_HIGH
      <4>1. brightness_ring'[i] = brightness /\ Age(i)' = 0
        BY <1>1, <2>1, <3>1, <3>3 DEF Entered
      <4>2. fresh' > 0
        BY <1>5, <3>1
      <4>3. (dark' > 0 => brightness < THRESHOLD_LOW)
              /\ (bright' > 0 => brightness > THRESHOLD_HIGH)
        BY <1>3
      <4>4. fresh' \in Int /\ ~(Age(i)' >= fresh')
        BY <1>5, <3>1, <4>1, <4>2
      <4> QED BY <4>1, <4>3, <4>4
    <3> QED BY <3>1, <3>2, <3>3 DEF SlotsInv
  <2> QED BY <2>2, <2>3
<1>11. SumInv'
  <2>0. D!Sum(brightness_ring)' = D!Sum(brightness_ring')
    BY DEF D!Sum
  <2>1. CASE new # mode
    <3>1. mode' = "Night" => D!Sum(brightness_ring') = 0
      BY <1>3, <1>5, <1>7, <2>1
    <3>2. mode' = "Day" => D!Sum(brightness_ring') = 100 * SampleCount
      BY <1>3, <1>7, <2>1
    <3> QED BY <1>3, <1>5, <2>0, <2>1, <3>1, <3>2 DEF SumInv
  <2>2. CASE new = mode
    <3>1. brightness_ring' = samples /\ mode' = mode
          /\ fresh' = IF fresh + 1 < SampleCount THEN fresh + 1 ELSE SampleCount
      BY <1>3, <2>2 DEF D!AtMost
    <3> QED BY <1>1, <1>5, <2>0, <3>1 DEF SumInv, Entered
  <2> QED BY <2>1, <2>2
<1>12. DwellInv'
  <2>1. CASE new # mode
    <3>1. elapsed' = D!AtMost(INTERVAL, MinTransition + 1) /\ fresh' = 0
      BY <1>3, <2>1
    <3> QED BY <1>5, <3>1 DEF DwellInv, Waited, D!AtMost
  <2>2. CASE new = mode
    <3>1. mode' = mode /\ elapsed' = D!AtMost(elapsed + INTERVAL, MinTransition + 1)
          /\ fresh' <= fresh + 1 /\ fresh' \in Int
      BY <1>3, <1>5, <2>2 DEF D!AtMost, D!Slept
    <3>2. fresh \in Int /\ fresh' \in Int /\ fresh' <= fresh + 1 /\ elapsed \in Int
      BY <1>5, <3>1
    <3>3. elapsed' \in Int /\ (elapsed' >= MinTransition \/ elapsed' >= elapsed + INTERVAL)
      BY <1>5, <3>1 DEF D!AtMost
    <3>4. mode' # "Unknown" => Waited(elapsed, fresh)
      BY <1>0, <3>1 DEF DwellInv
    <3>5. mode' # "Unknown" => Waited(elapsed', fresh')
      BY <3>2, <3>3, <3>4, OneMore
    <3> QED BY <3>5 DEF DwellInv, Waited
  <2> QED BY <2>1, <2>2
<1>13. SceneInv'
  <2>1. CASE new # mode
    <3>1. fresh' = 0 /\ mode' = new /\ new \in {"Day", "Night"}
      BY <1>3, <1>4, <2>1
    <3>2. new = "Day" => D!Above(samples) /\ mode # "Day"
      BY <1>n, <2>1 DEF D!target
    <3>3. new = "Night" => D!Below(samples) /\ mode # "Night"
      BY <1>n, <2>1 DEF D!target
    <3>4. new = "Day" => ~(brightness < THRESHOLD_LOW /\ dark >= SampleCount)
      BY <1>1, <3>2, NoSwitchAgainst
    <3>5. new = "Night" => ~(brightness > THRESHOLD_HIGH /\ bright >= SampleCount)
      BY <1>1, <3>3, NoSwitchAgainst
    <3>6. new = "Day" => dark' <= SampleCount
      BY <1>3, <1>5, <3>4 DEF D!AtMost
    <3>7. new = "Night" => bright' <= SampleCount
      BY <1>3, <1>5, <3>5 DEF D!AtMost
    <3> QED BY <1>5, <3>1, <3>6, <3>7 DEF SceneInv
  <2>2. CASE new = mode
    <3>1. /\ mode' = mode
          /\ fresh' = IF fresh + 1 < SampleCount THEN fresh + 1 ELSE SampleCount
          /\ dark' <= dark + 1 /\ bright' <= bright + 1 /\ dark' \in Int /\ bright' \in Int
      BY <1>3, <1>5, <2>2 DEF D!AtMost
    <3>2. fresh = SampleCount => (mode = "Day" => dark < SampleCount)
            /\ (mode = "Night" => bright < SampleCount)
      BY <1>5, WindowFollows
    <3> QED BY <1>0, <1>5, <3>1, <3>2 DEF SceneInv
  <2> QED BY <2>1, <2>2
<1> QED BY <1>8, <1>9, <1>10, <1>11, <1>12, <1>13 DEF DayNightIInv

LEMMA DayNightStep ==
  ASSUME D!DayNightConstants, DayNightIInv, [D!Next]_dayNightVars PROVE DayNightIInv'
<1>1. ASSUME NEW brightness \in Levels, D!Sample(brightness) PROVE DayNightIInv'
  BY <1>1, SampleStep DEF D!DayNightConstants
<1>2. ASSUME D!Skip \/ (\E on \in BOOLEAN : D!SetAutoDaynight(on)) \/ UNCHANGED dayNightVars
      PROVE  DayNightIInv'
  <2>0. D!TypeOK /\ D!ModeFitsAverage /\ SlotsInv /\ SumInv /\ DwellInv /\ SceneInv
    BY DEF DayNightIInv
  <2>1. /\ mode' = mode /\ brightness_ring' = brightness_ring /\ history_idx' = history_idx
        /\ fresh' = fresh /\ dark' = dark /\ bright' = bright
    BY <1>2 DEF D!Skip, D!SetAutoDaynight, dayNightVars
  <2>2. auto_daynight' \in BOOLEAN /\ (elapsed' = elapsed \/ elapsed' = D!Slept)
    BY <1>2, <2>0 DEF D!Skip, D!SetAutoDaynight, dayNightVars, D!TypeOK
  <2>3. elapsed' \in 0 .. MinTransition + 1 /\ (elapsed' >= elapsed \/ elapsed' >= MinTransition)
        /\ elapsed \in Int
    BY <2>0, <2>2, ConstantFacts DEF D!TypeOK, D!Slept, D!AtMost
  <2>4. D!TypeOK'
    BY <2>0, <2>1, <2>2, <2>3 DEF D!TypeOK
  <2>5. (D!ModeFitsAverage /\ SlotsInv /\ SumInv /\ SceneInv)'
    BY <2>0, <2>1 DEF D!ModeFitsAverage, SlotsInv, SumInv, SceneInv, D!Below, D!Above, D!Sum,
                       Age, Fill
  <2>6. DwellInv'
    <3>1. fresh \in Int /\ INTERVAL \in Int /\ MinTransition \in Int
      BY <2>0, ConstantFacts DEF D!TypeOK
    <3>2. (fresh + 1) * INTERVAL \in Int
      BY <3>1
    <3> QED BY <2>0, <2>1, <2>3, <3>1, <3>2 DEF DwellInv, Waited
  <2> QED BY <2>4, <2>5, <2>6 DEF DayNightIInv
<1> QED BY <1>1, <1>2 DEF D!Next

LEMMA NoFlappingStep ==
  ASSUME D!DayNightConstants, DayNightIInv, [D!Next]_dayNightVars, mode # "Unknown", mode' # mode
  PROVE  (fresh + 1) * 100 > SampleCount *
           (IF mode = "Night" THEN THRESHOLD_HIGH ELSE 100 - THRESHOLD_LOW)
<1>1. PICK brightness \in Levels : D!Sample(brightness)
  BY DEF D!Next, D!Skip, D!SetAutoDaynight, dayNightVars
<1>2. brightness \in 0 .. 100
  BY DEF D!DayNightConstants
<1>3. PICK samples : samples = [brightness_ring EXCEPT ![history_idx] = brightness]
  OBVIOUS
<1>4. Entered(brightness, samples)
  BY <1>2, <1>3, EnteredFacts
<1>5. D!target(samples) # mode
  BY <1>1, <1>3 DEF D!Sample
<1> QED BY <1>2, <1>4, <1>5, SwitchTakes

-----------------------------------------------------------------------------
(* The vote of the plate solver *)

\* The votes as a sequence that starts at slot 0.
Shifted(s) == [k \in Nat |-> s[k + 1]]

LEMMA VotesRun ==
  ASSUME NEW s, NEW n \in Nat, n = Len(s)
  PROVE  \E g : Total(Shifted(s), n, g) /\ DB!Votes(s) = g[n]
<1> DEFINE c == CHOOSE g : g = [k \in 0 .. n |-> IF k = 0 THEN 0 ELSE g[k - 1] + s[k]]
<1>1. ASSUME NEW g
      PROVE  Total(Shifted(s), n, g) <=>
               g = [k \in 0 .. n |-> IF k = 0 THEN 0 ELSE g[k - 1] + s[k]]
  <2>1. ASSUME NEW k \in 0 .. n, k # 0 PROVE Shifted(s)[k - 1] = s[k]
    <3>1. k - 1 \in Nat /\ (k - 1) + 1 = k
      BY <2>1
    <3> QED BY <3>1 DEF Shifted
  <2>2. [k \in 0 .. n |-> IF k = 0 THEN 0 ELSE g[k - 1] + Shifted(s)[k - 1]]
          = [k \in 0 .. n |-> IF k = 0 THEN 0 ELSE g[k - 1] + s[k]]
    BY <2>1
  <2> QED BY <2>2, Zenon DEF Total
<1>2. \E g : g = [k \in 0 .. n |-> IF k = 0 THEN 0 ELSE g[k - 1] + s[k]]
  BY <1>1, TotalExists
<1>3. c = [k \in 0 .. n |-> IF k = 0 THEN 0 ELSE c[k - 1] + s[k]]
  BY <1>2
<1>4. DB!Votes(s) = c[n]
  BY DEF DB!Votes
<1> HIDE DEF c
<1> QED BY <1>1, <1>3, <1>4

\* The sums of votes are numbers.
LEMMA TotalNat ==
  ASSUME NEW n \in Nat, NEW s, \A k \in 0 .. n - 1 : s[k] \in Nat, NEW g, Total(s, n, g)
  PROVE  \A k \in 0 .. n : g[k] \in Nat
<1> DEFINE M == {k \in Nat : k <= n => g[k] \in Nat}
<1>1. g[0] = 0 /\ \A k \in Nat : k < n => g[k + 1] = g[k] + s[k]
  BY TotalFacts
<1>2. 0 \in M
  BY <1>1
<1>3. ASSUME NEW k \in M PROVE k + 1 \in M
  <2>1. k \in Nat /\ (k <= n => g[k] \in Nat)
    OBVIOUS
  <2>2. ASSUME k + 1 <= n PROVE g[k + 1] \in Nat
    <3>1. k < n /\ k <= n /\ k \in 0 .. n - 1
      BY <2>1, <2>2
    <3> QED BY <3>1, <2>1, <1>1
  <2> QED BY <2>1, <2>2
<1>4. \A k \in Nat : k \in M
  <2> HIDE DEF M
  <2>1. M \in SUBSET Nat
    BY DEF M
  <2> QED BY <1>2, <1>3, <2>1, Counting
<1> QED BY <1>4

\* Swapping two candidates after one of them got a vote adds one to the sum: between
\* the two places the sums differ by what was exchanged.
LEMMA TotalSwap ==
  ASSUME NEW n \in Nat, NEW i \in 0 .. n - 1, NEW s, NEW t,
         \A k \in 0 .. n - 1 : s[k] \in Nat,
         t[0] = s[i] + 1, i # 0 => t[i] = s[0],
         \A k \in 1 .. n - 1 : k # i => t[k] = s[k],
         NEW g, Total(s, n, g), NEW h, Total(t, n, h)
  PROVE  h[n] = g[n] + 1
<1> DEFINE gap(k) == IF k = 0 THEN 0 ELSE IF k <= i THEN s[i] + 1 - s[0] ELSE 1
           M == {k \in Nat : k <= n => h[k] = g[k] + gap(k)}
<1>1. /\ g[0] = 0 /\ \A k \in Nat : k < n => g[k + 1] = g[k] + s[k]
      /\ h[0] = 0 /\ \A k \in Nat : k < n => h[k + 1] = h[k] + t[k]
  BY TotalFacts
<1>2. \A k \in 0 .. n : g[k] \in Nat
  BY TotalNat
<1>3. 0 \in M
  BY <1>1
<1>4. ASSUME NEW k \in M PROVE k + 1 \in M
  <2>1. k \in Nat /\ (k <= n => h[k] = g[k] + gap(k))
    OBVIOUS
  <2>2. ASSUME k + 1 <= n PROVE h[k + 1] = g[k + 1] + gap(k + 1)
    <3>1. k < n /\ k \in 0 .. n - 1 /\ k \in 0 .. n
      BY <2>1, <2>2
    <3>2. /\ g[k + 1] = g[k] + s[k] /\ h[k + 1] = h[k] + t[k] /\ h[k] = g[k] + gap(k)
          /\ g[k] \in Nat /\ s[k] \in Nat /\ s[0] \in Nat /\ s[i] \in Nat
      BY <3>1, <1>1, <1>2, <2>1
    <3>3. CASE k = 0
      <4>1. gap(k) = 0 /\ t[k] = s[i] + 1 /\ s[k] = s[0]
        BY <3>3
      <4>2. gap(k + 1) = IF 1 <= i THEN s[i] + 1 - s[0] ELSE 1
        BY <3>3
      <4>3. i = 0 => s[i] = s[0]
        OBVIOUS
      <4> HIDE DEF gap
      <4> QED BY <4>1, <4>2, <4>3, <3>2
    <3>4. CASE k # 0 /\ k = i
      <4>1. gap(k) = s[i] + 1 - s[0] /\ gap(k + 1) = 1 /\ t[k] = s[0] /\ s[k] = s[i]
        BY <3>4, <2>1
      <4> HIDE DEF gap
      <4> QED BY <4>1, <3>2
    <3>5. CASE k # 0 /\ k # i
      <4>1. k \in 1 .. n - 1
        BY <3>1, <3>5
      <4>2. t[k] = s[k]
        BY <4>1, <3>5
      <4>3. gap(k + 1) = gap(k) /\ gap(k) \in Int
        BY <3>2, <3>5, <2>1
      <4> HIDE DEF gap
      <4> QED BY <4>2, <4>3, <3>2
    <3> QED BY <3>3, <3>4, <3>5
  <2> QED BY <2>1, <2>2
<1>5. \A k \in Nat : k \in M
  <2> HIDE DEF M
  <2>1. M \in SUBSET Nat
    BY DEF M
  <2> QED BY <1>3, <1>4, <2>1, Counting
<1>6. h[n] = g[n] + gap(n) /\ gap(n) = 1
  BY <1>5
<1> QED BY <1>6, <1>2

\* Two lists with the same first places have the same sums there.
SameStart(s, t, n) == \A k \in 0 .. n - 1 : s[k] = t[k]

LEMMA TotalAgrees ==
  ASSUME NEW n \in Nat, NEW m \in Nat, n <= m, NEW s, NEW t, SameStart(s, t, n),
         NEW g, Total(s, n, g), NEW h, Total(t, m, h)
  PROVE  h[n] = g[n]
<1> DEFINE M == {k \in Nat : k <= n => h[k] = g[k]}
<1>1. /\ g[0] = 0 /\ \A k \in Nat : k < n => g[k + 1] = g[k] + s[k]
      /\ h[0] = 0 /\ \A k \in Nat : k < m => h[k + 1] = h[k] + t[k]
  BY TotalFacts
<1>2. 0 \in M
  BY <1>1
<1>3. ASSUME NEW k \in M PROVE k + 1 \in M
  <2>1. k \in Nat /\ (k <= n => h[k] = g[k])
    OBVIOUS
  <2>2. ASSUME k + 1 <= n PROVE h[k + 1] = g[k + 1]
    <3>1. k < n /\ k < m /\ k <= n /\ k \in 0 .. n - 1
      BY <2>1, <2>2
    <3> QED BY <3>1, <2>1, <1>1 DEF SameStart
  <2> QED BY <2>1, <2>2
<1>4. \A k \in Nat : k \in M
  <2> HIDE DEF M
  <2>1. M \in SUBSET Nat
    BY DEF M
  <2> QED BY <1>2, <1>3, <2>1, Counting
<1> QED BY <1>4

LEMMA VotesAppend ==
  ASSUME NEW s \in Seq(Nat)
  PROVE  DB!Votes(s) \in Nat /\ DB!Votes(Append(s, 1)) = DB!Votes(s) + 1
<1>1. PICK n \in Nat : n = Len(s)
  OBVIOUS
<1>2. PICK t \in Seq(Nat) : t = Append(s, 1)
  BY AppendProperties
<1>3. Len(t) = n + 1 /\ t[n + 1] = 1 /\ \A k \in 1 .. n : t[k] = s[k] /\ s[k] \in Nat
  BY <1>1, <1>2
<1>4. PICK g : Total(Shifted(s), n, g) /\ DB!Votes(s) = g[n]
  BY <1>1, VotesRun
<1>5. n + 1 \in Nat /\ n < n + 1 /\ n <= n + 1
  OBVIOUS
<1>6. PICK h : Total(Shifted(t), n + 1, h) /\ DB!Votes(t) = h[n + 1]
  BY <1>3, <1>5, VotesRun
<1>7. ASSUME NEW k \in 0 .. n - 1
      PROVE  Shifted(s)[k] \in Nat /\ Shifted(s)[k] = Shifted(t)[k]
  <2>1. k \in Nat /\ k + 1 \in 1 .. n
    OBVIOUS
  <2> QED BY <2>1, <1>3 DEF Shifted
<1>8. h[n + 1] = h[n] + Shifted(t)[n]
  BY <1>5, <1>6, TotalFacts
<1>9. Shifted(t)[n] = 1
  BY <1>3 DEF Shifted
<1>10. h[n] = g[n]
  <2>1. PICK a, b, m : a = Shifted(s) /\ b = Shifted(t) /\ m = n + 1
    OBVIOUS
  <2>2. m \in Nat /\ n <= m /\ Total(a, n, g) /\ Total(b, m, h)
    BY <2>1, <1>4, <1>5, <1>6
  <2>3. SameStart(a, b, n)
    BY <2>1, <1>7 DEF SameStart
  <2> QED BY <2>2, <2>3, TotalAgrees
<1>11. g[n] \in Nat
  <2>1. \A k \in 0 .. n : g[k] \in Nat
    BY <1>4, <1>7, TotalNat
  <2> QED BY <2>1
<1> QED BY <1>2, <1>4, <1>6, <1>8, <1>9, <1>10, <1>11

\* What Match does to the list: the candidate that got the vote is first, and the one
\* that was first takes its place.
Exchanged(s, i, t) ==
  /\ t \in Seq(Nat) /\ Len(t) = Len(s) /\ t[1] = s[i] + 1
  /\ i # 1 => t[i] = s[1]
  /\ \A k \in 2 .. Len(s) : k # i => t[k] = s[k]

LEMMA Replaced ==
  ASSUME NEW q \in Seq(Nat), NEW n \in Nat, n = Len(q), NEW i \in 1 .. n, NEW e \in Nat,
         NEW r, r = [q EXCEPT ![i] = e]
  PROVE  /\ r \in Seq(Nat) /\ Len(r) = n
         /\ \A k \in 1 .. n : r[k] = IF k = i THEN e ELSE q[k]
<1>1. r \in Seq(Nat) /\ Len(r) = n
  BY ExceptSeq
<1>2. \A k \in 1 .. n : r[k] = IF k = i THEN e ELSE q[k]
  BY LenProperties
<1> QED BY <1>1, <1>2

LEMMA SwappedExchanges ==
  ASSUME NEW s \in Seq(Nat), NEW i \in 1 .. Len(s)
  PROVE  Exchanged(s, i, DB!Swapped([s EXCEPT ![i] = s[i] + 1], i))
<1>1. PICK n \in Nat : n = Len(s)
  BY LenProperties
<1>2. i \in 1 .. n /\ 1 \in 1 .. n /\ \A k \in 1 .. n : s[k] \in Nat
  BY <1>1, ElementOfSeq
<1>3. PICK u, e : u = [s EXCEPT ![i] = e] /\ e = s[i] + 1 /\ e \in Nat
  <2>1. s[i] + 1 \in Nat
    BY <1>2
  <2> QED BY <2>1
<1>4. /\ u \in Seq(Nat) /\ Len(u) = n
      /\ \A k \in 1 .. n : u[k] = IF k = i THEN e ELSE s[k]
  BY <1>1, <1>2, <1>3, Replaced
<1>5. PICK a, b : a = u[i] /\ b = u[1] /\ a \in Nat /\ b \in Nat
  BY <1>2, <1>3, <1>4
<1>6. PICK v : v = [u EXCEPT ![1] = a]
  OBVIOUS
<1>7. /\ v \in Seq(Nat) /\ Len(v) = n
      /\ \A k \in 1 .. n : v[k] = IF k = 1 THEN a ELSE u[k]
  BY <1>2, <1>4, <1>5, <1>6, Replaced
<1>8. PICK t : t = [v EXCEPT ![i] = b]
  OBVIOUS
<1>9. /\ t \in Seq(Nat) /\ Len(t) = n
      /\ \A k \in 1 .. n : t[k] = IF k = i THEN b ELSE v[k]
  BY <1>2, <1>5, <1>7, <1>8, Replaced
<1>10. DB!Swapped([s EXCEPT ![i] = s[i] + 1], i) = t
  BY <1>3, <1>5, <1>6, <1>8 DEF DB!Swapped
<1>11. t[1] = s[i] + 1 /\ (i # 1 => t[i] = s[1])
  <2>1. t[1] = IF 1 = i THEN b ELSE a
    BY <1>2, <1>7, <1>9
  <2>2. t[i] = b /\ a = e /\ (i = 1 => b = e) /\ (i # 1 => b = s[1])
    BY <1>2, <1>4, <1>5, <1>9
  <2> QED BY <2>1, <2>2, <1>3
<1>12. ASSUME NEW k \in 2 .. n, k # i PROVE t[k] = s[k]
  <2>1. k \in 1 .. n /\ k # 1
    OBVIOUS
  <2> QED BY <2>1, <1>4, <1>7, <1>9, <1>12
<1> QED BY <1>1, <1>10, <1>11, <1>12, <1>9 DEF Exchanged

LEMMA VotesExchanged ==
  ASSUME NEW s \in Seq(Nat), NEW i \in 1 .. Len(s), NEW t, Exchanged(s, i, t)
  PROVE  DB!Votes(t) = DB!Votes(s) + 1
<1>1. PICK n \in Nat : n = Len(s)
  BY LenProperties
<1>2. i \in 1 .. n /\ \A k \in 1 .. n : s[k] \in Nat
  BY <1>1, ElementOfSeq
<1>3. /\ Len(t) = n /\ t[1] = s[i] + 1 /\ (i # 1 => t[i] = s[1])
      /\ \A k \in 2 .. n : k # i => t[k] = s[k]
  BY <1>1 DEF Exchanged
<1>4. PICK a, b : /\ a = Shifted(s) /\ b = Shifted(t)
                  /\ \A k \in Nat : a[k] = s[k + 1] /\ b[k] = t[k + 1]
  <2>1. \A k \in Nat : Shifted(s)[k] = s[k + 1] /\ Shifted(t)[k] = t[k + 1]
    BY DEF Shifted
  <2> QED BY <2>1
<1>5. PICK g : Total(a, n, g) /\ DB!Votes(s) = g[n]
  BY <1>1, <1>4, VotesRun
<1>6. PICK h : Total(b, n, h) /\ DB!Votes(t) = h[n]
  BY <1>3, <1>4, VotesRun
<1>7. PICK m \in Nat : m + 1 = i /\ m \in 0 .. n - 1 /\ 0 \in 0 .. n - 1
  <2>1. i - 1 \in Nat /\ (i - 1) + 1 = i /\ i - 1 \in 0 .. n - 1 /\ 0 \in 0 .. n - 1
    BY <1>2
  <2> QED BY <2>1
<1>8. a[m] = s[i] /\ b[m] = t[i] /\ a[0] = s[1] /\ b[0] = t[1]
  <2>1. \A k \in Nat : k = 0 => k + 1 = 1
    OBVIOUS
  <2>2. a[0] = s[1] /\ b[0] = t[1]
    BY <2>1, <1>4
  <2>3. a[m] = s[i] /\ b[m] = t[i]
    BY <1>4, <1>7
  <2> QED BY <2>2, <2>3
<1>9. ASSUME NEW k \in 0 .. n - 1 PROVE a[k] \in Nat
  <2>1. k + 1 \in 1 .. n /\ k \in Nat
    OBVIOUS
  <2> QED BY <2>1, <1>2, <1>4
<1>10. ASSUME NEW k \in 1 .. n - 1, k # m PROVE b[k] = a[k]
  <2>1. k + 1 \in 2 .. n /\ k + 1 # i /\ k \in Nat
    BY <1>7, <1>10
  <2> QED BY <2>1, <1>3, <1>4
<1>11. b[0] = a[m] + 1 /\ (m # 0 => b[m] = a[0])
  BY <1>3, <1>7, <1>8
<1>12. h[n] = g[n] + 1
  <2> HIDE <1>4
  <2> QED BY <1>5, <1>6, <1>7, <1>9, <1>10, <1>11, TotalSwap
<1> QED BY <1>5, <1>6, <1>12

LEMMA VotesMatch ==
  ASSUME NEW s \in Seq(Nat), NEW i \in 1 .. Len(s), NEW t, Exchanged(s, i, t)
  PROVE  /\ t \in Seq(Nat) /\ DB!Votes(t) = DB!Votes(s) + 1
         /\ DOMAIN t = DOMAIN s /\ 1 \in DOMAIN t /\ t[1] = s[i] + 1
         /\ \A k \in DOMAIN t : k # 1 => \E j \in DOMAIN s : t[k] = s[j]
<1>1. DOMAIN s = 1 .. Len(s) /\ Len(s) \in Nat
  BY LenProperties
<1>2. Exchanged(s, i, t)
  OBVIOUS
<1>3. DB!Votes(t) = DB!Votes(s) + 1
  BY <1>1, <1>2, VotesExchanged
<1>4. t \in Seq(Nat) /\ DOMAIN t = 1 .. Len(s) /\ 1 \in 1 .. Len(s) /\ t[1] = s[i] + 1
  BY <1>1, <1>2 DEF Exchanged
<1>5. ASSUME NEW k \in 1 .. Len(s), k # 1 PROVE \E j \in 1 .. Len(s) : t[k] = s[j]
  <2>1. k \in 2 .. Len(s)
    BY <1>5, <1>1
  <2>2. k = i => t[k] = s[1]
    BY <1>2, <1>5 DEF Exchanged
  <2>3. k # i => t[k] = s[k]
    BY <1>2, <2>1 DEF Exchanged
  <2> QED BY <2>2, <2>3, <1>4
<1> QED BY <1>1, <1>3, <1>4, <1>5

\* While the vote goes on no candidate is close to the end and every counted pattern is
\* the vote of one candidate; the vote that ends it early is not counted.
VoteIInv ==
  /\ candidates \in Seq(Nat) /\ count \in Nat
  /\ outcome \in {"voting", "early", "exhausted", "all"}
  /\ outcome = "voting" => \A i \in DOMAIN candidates : candidates[i] < early_stop_n
  /\ DB!EarlyWinner
  /\ count <= IF outcome = "exhausted" THEN max_count + 1 ELSE max_count
  /\ DB!Votes(candidates) = IF outcome = "early" THEN count + 1 ELSE count

LEMMA InitVote == DB!VoteConstants /\ DB!VoteInit => VoteIInv
<1> SUFFICES ASSUME DB!VoteConstants, DB!VoteInit PROVE VoteIInv
  OBVIOUS
<1>1. candidates = << >> /\ count = 0 /\ outcome = "voting" /\ Len(candidates) = 0
  BY DEF DB!VoteInit
<1>2. DB!Votes(candidates) = 0
  <2>1. PICK g : Total(Shifted(candidates), 0, g) /\ DB!Votes(candidates) = g[0]
    BY <1>1, VotesRun
  <2> QED BY <2>1, TotalFacts
<1> QED BY <1>1, <1>2 DEF VoteIInv, DB!VoteConstants, DB!EarlyWinner

LEMMA VoteStep ==
  ASSUME DB!VoteConstants, VoteIInv, [DB!VoteNext]_voteVars
  PROVE  VoteIInv'
<1>0. max_count \in Nat /\ early_stop_n \in Nat /\ early_stop_n > 1
  BY DEF DB!VoteConstants
<1>1. candidates \in Seq(Nat) /\ count \in Nat /\ (outcome = "voting" => count <= max_count)
      /\ (outcome = "voting" => DB!Votes(candidates) = count)
      /\ (outcome = "voting" => \A i \in DOMAIN candidates : candidates[i] < early_stop_n)
  BY DEF VoteIInv
<1>2. CASE UNCHANGED voteVars
  BY <1>2 DEF VoteIInv, voteVars, DB!EarlyWinner
<1>3. CASE DB!OutOfQuads
  BY <1>3, <1>1, <1>0 DEF VoteIInv, DB!OutOfQuads, DB!EarlyWinner
<1>4. CASE DB!NewCandidate
  <2>1. /\ outcome = "voting" /\ candidates' = Append(candidates, 1) /\ count' = count + 1
        /\ outcome' = IF count' > max_count THEN "exhausted" ELSE "voting"
    BY <1>4 DEF DB!NewCandidate
  <2>2. DB!Votes(candidates)' = count + 1
    BY <2>1, <1>1, VotesAppend
  <2>3. candidates' \in Seq(Nat) /\ \A i \in DOMAIN candidates' : candidates'[i] < early_stop_n
    <3>1. ASSUME NEW i \in DOMAIN candidates' PROVE candidates'[i] < early_stop_n
      <4>1. i \in DOMAIN candidates \/ candidates'[i] = 1
        BY <2>1, <1>1
      <4>2. i \in DOMAIN candidates => candidates'[i] = candidates[i]
        BY <2>1, <1>1
      <4> QED BY <4>1, <4>2, <1>0, <1>1, <2>1
    <3> QED BY <3>1, <2>1, <1>1
  <2> QED BY <2>1, <2>2, <2>3, <1>0, <1>1 DEF VoteIInv, DB!EarlyWinner
<1>5. ASSUME NEW i \in DOMAIN candidates, DB!Match(i) PROVE VoteIInv'
  <2>1. /\ outcome = "voting"
        /\ candidates' = DB!Swapped([candidates EXCEPT ![i] = @ + 1], i)
        /\ IF candidates[i] + 1 >= early_stop_n
           THEN outcome' = "early" /\ count' = count
           ELSE /\ count' = count + 1
                /\ outcome' = IF count' > max_count THEN "exhausted" ELSE "voting"
    BY <1>5 DEF DB!Match, DB!NewVotes
  <2>2. /\ candidates' \in Seq(Nat) /\ DB!Votes(candidates)' = count + 1
        /\ 1 \in DOMAIN candidates' /\ candidates'[1] = candidates[i] + 1
        /\ DOMAIN candidates' = DOMAIN candidates
        /\ \A k \in DOMAIN candidates' :
             k # 1 => \E j \in DOMAIN candidates : candidates'[k] = candidates[j]
    <3>1. i \in 1 .. Len(candidates) /\ candidates \in Seq(Nat)
      BY <1>1, LenProperties
    <3>2. Exchanged(candidates, i, candidates')
      BY <3>1, <2>1, SwappedExchanges
    <3>3. PICK t : t = candidates'
      OBVIOUS
    <3>4. Exchanged(candidates, i, t)
      BY <3>2, <3>3
    <3>5. DB!Votes(t) = DB!Votes(candidates) + 1
      BY <3>1, <3>4, VotesMatch
    <3>6. /\ t \in Seq(Nat) /\ 1 \in DOMAIN t /\ t[1] = candidates[i] + 1
          /\ DOMAIN t = DOMAIN candidates
          /\ \A k \in DOMAIN t : k # 1 => \E j \in DOMAIN candidates : t[k] = candidates[j]
      BY <3>1, <3>4, VotesMatch
    <3>7. DB!Votes(candidates)' = count + 1
      BY <3>3, <3>5, <2>1, <1>1
    <3> QED BY <3>3, <3>6, <3>7
  <2>3. candidates[i] \in Nat /\ candidates[i] < early_stop_n
    BY <2>1, <1>1
  <2>4. \A k \in DOMAIN candidates' : k # 1 => candidates'[k] < early_stop_n
    BY <2>1, <2>2, <1>1
  <2>5. CASE candidates[i] + 1 >= early_stop_n
    <3>1. outcome' = "early" /\ count' = count /\ candidates'[1] = early_stop_n
      BY <2>1, <2>2, <2>3, <2>5, <1>0
    <3>2. \A k \in 2 .. Len(candidates') : candidates'[k] < early_stop_n
      BY <2>2, <2>4
    <3>3. DB!EarlyWinner'
      BY <3>1, <3>2 DEF DB!EarlyWinner
    <3> QED BY <3>1, <3>3, <2>1, <2>2, <1>0, <1>1 DEF VoteIInv
  <2>6. CASE ~(candidates[i] + 1 >= early_stop_n)
    <3>1. /\ count' = count + 1
          /\ outcome' = IF count' > max_count THEN "exhausted" ELSE "voting"
      BY <2>1, <2>6
    <3>2. \A k \in DOMAIN candidates' : candidates'[k] < early_stop_n
      BY <2>2, <2>3, <2>4, <2>6, <1>0
    <3>3. DB!EarlyWinner'
      BY <3>1 DEF DB!EarlyWinner
    <3>4. outcome' \in {"voting", "exhausted"} /\ count' \in Nat
      BY <3>1, <1>1
    <3>5. count' <= IF outcome' = "exhausted" THEN max_count + 1 ELSE max_count
      BY <3>1, <2>1, <1>0, <1>1
    <3>6. DB!Votes(candidates)' = IF outcome' = "early" THEN count' + 1 ELSE count'
      BY <3>1, <3>4, <2>2
    <3>7. candidates' \in Seq(Nat)
      BY <2>2
    <3> QED BY <3>2, <3>3, <3>4, <3>5, <3>6, <3>7 DEF VoteIInv
  <2> QED BY <2>5, <2>6
<1> QED BY <1>2, <1>3, <1>4, <1>5 DEF DB!VoteNext

LEMMA VoteImplied == DB!VoteConstants /\ VoteIInv => DB!VoteInv
<1> SUFFICES ASSUME DB!VoteConstants, VoteIInv PROVE DB!VoteInv
  OBVIOUS
<1>1. DB!EarlyWinner /\ count \in Nat /\ max_count \in Nat
  BY DEF VoteIInv, DB!VoteConstants
<1>2. DB!VotesBounded
  BY <1>1 DEF VoteIInv, DB!VotesBounded
<1> QED BY <1>1, <1>2 DEF DB!VoteInv

-----------------------------------------------------------------------------
(* The table of the plate solver *)

\* A run of a step function from its base, and the facts a proof by induction needs.
Run(g, n, base, step) ==
  /\ g = [k \in 0 .. n |-> g[k]]
  /\ g[0] = base
  /\ \A k \in Nat : k < n => g[k + 1] = step[<<k + 1, g[k]>>]

LEMMA RunExists ==
  ASSUME NEW V, NEW base \in V, NEW step \in [Nat \X V -> V], NEW last \in Nat
  PROVE  \E g \in [0 .. last -> V] : Run(g, last, base, step)
<1> DEFINE M == {n \in Nat : \E g \in [0 .. n -> V] : Run(g, n, base, step)}
<1>1. 0 \in M
  <2> DEFINE g == [k \in 0 .. 0 |-> base]
  <2>1. g \in [0 .. 0 -> V] /\ Run(g, 0, base, step)
    BY DEF Run
  <2> QED BY <2>1
<1>2. ASSUME NEW n \in M PROVE n + 1 \in M
  <2>1. PICK g \in [0 .. n -> V] : Run(g, n, base, step)
    OBVIOUS
  <2>2. n \in Nat
    OBVIOUS
  <2> DEFINE h == [k \in 0 .. n + 1 |-> IF k = n + 1 THEN step[<<n + 1, g[n]>>] ELSE g[k]]
  <2>3. h \in [0 .. n + 1 -> V]
    <3>1. step[<<n + 1, g[n]>>] \in V
      BY <2>2
    <3>2. \A k \in 0 .. n + 1 : k # n + 1 => g[k] \in V
      BY <2>2
    <3> QED BY <3>1, <3>2
  <2>4. h[0] = base
    BY <2>1, <2>2 DEF Run
  <2>5. ASSUME NEW k \in Nat, k < n + 1 PROVE h[k + 1] = step[<<k + 1, h[k]>>]
    <3>1. CASE k = n
      <4>1. h[k + 1] = step[<<n + 1, g[n]>>] /\ h[k] = g[n]
        BY <3>1, <2>2
      <4> QED BY <4>1, <3>1
    <3>2. CASE k < n
      <4>1. h[k + 1] = g[k + 1] /\ h[k] = g[k]
        BY <3>2, <2>2
      <4>2. g[k + 1] = step[<<k + 1, g[k]>>]
        BY <3>2, <2>1 DEF Run
      <4> QED BY <4>1, <4>2
    <3> QED BY <3>1, <3>2, <2>2, <2>5
  <2>6. h = [k \in 0 .. n + 1 |-> h[k]]
    BY <2>3
  <2> HIDE DEF h
  <2>7. Run(h, n + 1, base, step)
    BY <2>4, <2>5, <2>6 DEF Run
  <2> QED BY <2>2, <2>3, <2>7
<1>3. last \in M
  <2> HIDE DEF M
  <2>1. M \in SUBSET Nat
    BY DEF M
  <2> QED BY <1>1, <1>2, <2>1, Counting
<1> QED BY <1>3

\* What a run may be described by, and that it stays in its set of values.
LEMMA RunStays ==
  ASSUME NEW V, NEW n \in Nat, NEW g, g[0] \in V,
         \A k \in Nat : k < n /\ g[k] \in V => g[k + 1] \in V
  PROVE  \A k \in 0 .. n : g[k] \in V
<1> DEFINE M == {k \in Nat : k <= n => g[k] \in V}
<1>1. 0 \in M /\ \A k \in M : k + 1 \in M
  OBVIOUS
<1>2. \A k \in Nat : k \in M
  <2>1. M \in SUBSET Nat
    OBVIOUS
  <2> HIDE DEF M
  <2> QED BY <1>1, <2>1, Counting
<1> QED BY <1>2

-----------------------------------------------------------------------------
(* The packed numbers of an entry *)

\* A division by the base takes a digit off.
LEMMA Digit ==
  ASSUME NEW a \in Nat, NEW m \in Nat \ {0}, NEW r \in 0 .. m - 1
  PROVE  (a * m + r) \div m = a /\ (a * m + r) % m = r
OBVIOUS

\* The low ten bits of a number give it back, a negative one too.
LEMMA FixedRange ==
  ASSUME FIXED \in Nat \ {0}, NEW f \in - FIXED .. FIXED - 1
  PROVE  /\ DB!ToFixed(f) \in 0 .. 2 * FIXED - 1
         /\ DB!ToFixed(f) = IF f < 0 THEN f + 2 * FIXED ELSE f
<1>1. PICK m \in Nat : m = 2 * FIXED
  OBVIOUS
<1>2. f >= 0 => f % m = f
  BY <1>1
<1>3. f < 0 => f % m = f + m
  BY <1>1
<1> QED BY <1>1, <1>2, <1>3 DEF DB!ToFixed

LEMMA FixedBack ==
  ASSUME FIXED \in Nat \ {0}, NEW f \in - FIXED .. FIXED - 1, NEW a \in Nat
  PROVE  DB!OfFixed(a * (2 * FIXED) + DB!ToFixed(f)) = f
<1>1. PICK m \in Nat \ {0} : m = 2 * FIXED
  OBVIOUS
<1>2. PICK r \in 0 .. m - 1 : r = DB!ToFixed(f)
  BY <1>1, FixedRange
<1>3. (a * m + r) % m = r
  BY Digit
<1>4. r = IF f < 0 THEN f + m ELSE f
  BY <1>1, <1>2, FixedRange
<1>5. DB!OfFixed(a * m + r) = IF r >= FIXED THEN r - m ELSE r
  BY <1>1, <1>3 DEF DB!OfFixed
<1> QED BY <1>1, <1>2, <1>4, <1>5

\* above: the number of the last k fields.
LEMMA CompressedRun ==
  ASSUME FIXED \in Nat \ {0}, NEW n \in Nat, NEW fields \in [1 .. n -> - FIXED .. FIXED - 1]
  PROVE  \E above \in [0 .. n -> Nat] :
           /\ above[0] = 0 /\ DB!Compressed(fields) = above[n]
           /\ \A k \in Nat : k < n =>
                above[k + 1] = above[k] * (2 * FIXED) + DB!ToFixed(fields[n - k])
<1>1. Len(fields) = n
  BY LenProperties
<1> DEFINE term(k, v) == v * (2 * FIXED) + DB!ToFixed(fields[n + 1 - k])
           step == [p \in Nat \X Nat |-> IF p[1] \in 1 .. n THEN term(p[1], p[2]) ELSE 0]
           c == CHOOSE above : above = [k \in 0 .. n |-> IF k = 0 THEN 0 ELSE term(k, above[k - 1])]
<1>2. ASSUME NEW k \in 1 .. n, NEW v \in Nat PROVE term(k, v) \in Nat
  <2>1. n + 1 - k \in 1 .. n
    BY <1>2
  <2>2. DB!ToFixed(fields[n + 1 - k]) \in Nat
    BY <2>1, FixedRange
  <2> QED BY <2>2
<1>3. step \in [Nat \X Nat -> Nat]
  BY <1>2
<1>4. PICK g \in [0 .. n -> Nat] : Run(g, n, 0, step)
  BY <1>3, RunExists
<1>5. g = [k \in 0 .. n |-> IF k = 0 THEN 0 ELSE term(k, g[k - 1])]
  <2>1. ASSUME NEW k \in 1 .. n PROVE g[k] = term(k, g[k - 1])
    <3>1. k - 1 \in Nat /\ k - 1 < n /\ (k - 1) + 1 = k /\ k - 1 \in 0 .. n /\ k \in Nat
      BY <2>1
    <3>2. g[k] = step[<<k, g[k - 1]>>]
      BY <3>1, <1>4 DEF Run
    <3> QED BY <3>1, <3>2
  <2>2. g[0] = 0 /\ g = [k \in 0 .. n |-> g[k]]
    BY <1>4 DEF Run
  <2> HIDE DEF term, step
  <2>3. ASSUME NEW k \in 0 .. n PROVE g[k] = IF k = 0 THEN 0 ELSE term(k, g[k - 1])
    <3>1. k # 0 => k \in 1 .. n
      OBVIOUS
    <3> QED BY <3>1, <2>1, <2>2
  <2> QED BY <2>2, <2>3, Zenon
<1>6. c = [k \in 0 .. n |-> IF k = 0 THEN 0 ELSE term(k, c[k - 1])]
  <2> HIDE DEF term
  <2> QED BY <1>5
<1>7. DB!Compressed(fields) = c[n]
  BY <1>1 DEF DB!Compressed
<1> HIDE DEF c, step
<1>8. c[0] = 0 /\ \A k \in Nat : k < n => c[k + 1] = term(k + 1, c[k])
  <2> HIDE DEF term
  <2> QED BY <1>6
<1>9. \A k \in 0 .. n : c[k] \in Nat
  <2>1. \A k \in Nat : k < n /\ c[k] \in Nat => c[k + 1] \in Nat
    <3>1. ASSUME NEW k \in Nat, k < n, c[k] \in Nat PROVE c[k + 1] \in Nat
      <4>1. k + 1 \in 1 .. n
        BY <3>1
      <4> HIDE DEF term
      <4> QED BY <4>1, <3>1, <1>2, <1>8
    <3> QED BY <3>1
  <2>2. c[0] \in Nat
    BY <1>8
  <2> QED BY <2>1, <2>2, RunStays
<1>10. c \in [0 .. n -> Nat]
  <2> HIDE DEF term
  <2> QED BY <1>6, <1>9
<1>11. \A k \in Nat : k < n => c[k + 1] = c[k] * (2 * FIXED) + DB!ToFixed(fields[n - k])
  <2>1. \A k \in Nat : n + 1 - (k + 1) = n - k
    OBVIOUS
  <2> QED BY <2>1, <1>8
<1> QED BY <1>7, <1>8, <1>10, <1>11

\* shifted: what is left after k fields are taken off.
LEMMA ShiftedRun ==
  ASSUME FIXED \in Nat \ {0}, NEW n \in Nat, NEW compressed \in Nat
  PROVE  \E shifted :
           /\ shifted[0] = compressed
           /\ DB!from_compressed(compressed, n) = [k \in 1 .. n |-> DB!OfFixed(shifted[k - 1])]
           /\ \A k \in Nat : k < n => shifted[k + 1] = shifted[k] \div (2 * FIXED)
<1> DEFINE term(v) == v \div (2 * FIXED)
           step == [p \in Nat \X Nat |-> term(p[2])]
           c == CHOOSE shifted : shifted = [k \in 0 .. n |-> IF k = 0 THEN compressed
                                                           ELSE term(shifted[k - 1])]
<1>1. ASSUME NEW v \in Nat PROVE term(v) \in Nat
  OBVIOUS
<1>2. step \in [Nat \X Nat -> Nat]
  BY <1>1
<1>3. PICK g \in [0 .. n -> Nat] : Run(g, n, compressed, step)
  BY <1>2, RunExists
<1>4. g = [k \in 0 .. n |-> IF k = 0 THEN compressed ELSE term(g[k - 1])]
  <2>1. ASSUME NEW k \in 1 .. n PROVE g[k] = term(g[k - 1])
    <3>1. k - 1 \in Nat /\ k - 1 < n /\ (k - 1) + 1 = k /\ k - 1 \in 0 .. n /\ k \in Nat
      BY <2>1
    <3>2. g[k] = step[<<k, g[k - 1]>>]
      BY <3>1, <1>3 DEF Run
    <3> QED BY <3>1, <3>2
  <2>2. g[0] = compressed /\ g = [k \in 0 .. n |-> g[k]]
    BY <1>3 DEF Run
  <2> HIDE DEF term, step
  <2> QED BY <2>1, <2>2
<1>5. c = [k \in 0 .. n |-> IF k = 0 THEN compressed ELSE term(c[k - 1])]
  <2> HIDE DEF term
  <2> QED BY <1>4
<1>6. DB!from_compressed(compressed, n) = [k \in 1 .. n |-> DB!OfFixed(c[k - 1])]
  BY DEF DB!from_compressed
<1> HIDE DEF c, step
<1>7. c[0] = compressed /\ \A k \in Nat : k < n => c[k + 1] = term(c[k])
  <2> HIDE DEF term
  <2> QED BY <1>5
<1> QED BY <1>6, <1>7

\* Packing n numbers and taking them out again gives them back.
THEOREM FieldsRoundTrip ==
  ASSUME FIXED \in Nat \ {0}, NEW n \in Nat, NEW fields \in [1 .. n -> - FIXED .. FIXED - 1]
  PROVE  DB!FieldsSurvive(fields)
<1>1. Len(fields) = n
  BY LenProperties
<1>2. PICK above \in [0 .. n -> Nat] :
        /\ above[0] = 0 /\ DB!Compressed(fields) = above[n]
        /\ \A k \in Nat : k < n =>
             above[k + 1] = above[k] * (2 * FIXED) + DB!ToFixed(fields[n - k])
  BY CompressedRun
<1>3. above[n] \in Nat
  OBVIOUS
<1>4. PICK shifted :
        /\ shifted[0] = above[n]
        /\ DB!from_compressed(above[n], n) = [k \in 1 .. n |-> DB!OfFixed(shifted[k - 1])]
        /\ \A k \in Nat : k < n => shifted[k + 1] = shifted[k] \div (2 * FIXED)
  BY <1>3, ShiftedRun
<1>5. PICK m \in Nat \ {0} : m = 2 * FIXED
  OBVIOUS
<1>6. ASSUME NEW k \in Nat, k < n
      PROVE  /\ above[n - k] = above[n - (k + 1)] * m + DB!ToFixed(fields[k + 1])
             /\ above[n - (k + 1)] \in Nat /\ DB!ToFixed(fields[k + 1]) \in 0 .. m - 1
             /\ fields[k + 1] \in - FIXED .. FIXED - 1
  <2>1. PICK j \in Nat : j = n - (k + 1) /\ j < n /\ j + 1 = n - k /\ n - j = k + 1
    BY <1>6
  <2>2. above[j + 1] = above[j] * m + DB!ToFixed(fields[n - j])
    BY <2>1, <1>2, <1>5
  <2>3. k + 1 \in 1 .. n
    BY <1>6
  <2>4. fields[k + 1] \in - FIXED .. FIXED - 1
    BY <2>3
  <2>5. above[j] \in Nat
    BY <2>1
  <2>6. DB!ToFixed(fields[k + 1]) \in 0 .. m - 1
    BY <2>4, <1>5, FixedRange
  <2> QED BY <2>1, <2>2, <2>4, <2>5, <2>6
<1> DEFINE M == {k \in Nat : k <= n => shifted[k] = above[n - k]}
<1>7. \A k \in Nat : k \in M
  <2>1. 0 \in M
    BY <1>4
  <2>2. ASSUME NEW k \in M PROVE k + 1 \in M
    <3>1. SUFFICES ASSUME k + 1 <= n PROVE shifted[k + 1] = above[n - (k + 1)]
      OBVIOUS
    <3>2. k \in Nat /\ k < n /\ shifted[k] = above[n - k]
      BY <3>1
    <3>3. shifted[k + 1] = above[n - k] \div m
      BY <3>2, <1>4, <1>5
    <3>4. PICK a \in Nat, r \in 0 .. m - 1 :
            a = above[n - (k + 1)] /\ above[n - k] = a * m + r
      BY <3>2, <1>6
    <3>5. (a * m + r) \div m = a
      BY Digit
    <3> QED BY <3>3, <3>4, <3>5
  <2>3. M \in SUBSET Nat
    OBVIOUS
  <2> HIDE DEF M
  <2> QED BY <2>1, <2>2, <2>3, Counting
<1>8. ASSUME NEW k \in 1 .. n PROVE DB!OfFixed(shifted[k - 1]) = fields[k]
  <2>1. PICK j \in Nat : j = k - 1 /\ j < n /\ j <= n /\ j + 1 = k
    OBVIOUS
  <2>2. shifted[j] = above[n - (j + 1)] * (2 * FIXED) + DB!ToFixed(fields[j + 1])
    BY <1>5, <1>6, <1>7, <2>1
  <2>3. above[n - (j + 1)] \in Nat /\ fields[j + 1] \in - FIXED .. FIXED - 1
    BY <1>6, <2>1
  <2>4. DB!OfFixed(shifted[j]) = fields[j + 1]
    BY <2>2, <2>3, FixedBack
  <2> QED BY <2>1, <2>4
<1>9. DB!from_compressed(DB!Compressed(fields), n) = [k \in 1 .. n |-> fields[k]]
  BY <1>2, <1>4, <1>8
<1> QED BY <1>1, <1>9 DEF DB!FieldsSurvive

-----------------------------------------------------------------------------
(* The network of sort6 *)

\* The table's module counts like every other.
LEMMA SameCount == \A Q : DB!Cardinality(Q) = Cardinality(Q)
BY DEF DB!Cardinality, Cardinality

\* What a comparator makes of s: the two places in order, the others as they were.
InOrder(s, t, i, j) ==
  /\ t \in [0 .. 5 -> Int] /\ t[i] <= t[j]
  /\ (t[i] = s[i] /\ t[j] = s[j]) \/ (t[i] = s[j] /\ t[j] = s[i])
  /\ \A k \in 0 .. 5 : k # i /\ k # j => t[k] = s[k]

LEMMA ComparedOrders ==
  ASSUME NEW s \in [0 .. 5 -> Int], NEW i \in 0 .. 5, NEW j \in 0 .. 5, i # j
  PROVE  InOrder(s, DB!Compared(s, i, j), i, j)
<1>1. PICK t : t = [s EXCEPT ![i] = s[j], ![j] = s[i]]
  OBVIOUS
<1>2. /\ t \in [0 .. 5 -> Int] /\ t[i] = s[j] /\ t[j] = s[i]
      /\ \A k \in 0 .. 5 : k # i /\ k # j => t[k] = s[k]
  BY <1>1
<1>3. s[i] \in Int /\ s[j] \in Int
  OBVIOUS
<1>4. CASE s[i] > s[j]
  <2>1. DB!Compared(s, i, j) = t
    BY <1>1, <1>4 DEF DB!Compared
  <2> QED BY <2>1, <1>2, <1>3, <1>4 DEF InOrder
<1>5. CASE ~(s[i] > s[j])
  <2>1. DB!Compared(s, i, j) = s
    BY <1>5 DEF DB!Compared
  <2> QED BY <2>1, <1>3, <1>5 DEF InOrder
<1> QED BY <1>4, <1>5

\* How many places hold v.
Places(s, v) == {i \in 0 .. 5 : s[i] = v}

LEMMA PlacesKept ==
  ASSUME NEW s \in [0 .. 5 -> Int], NEW t, NEW i \in 0 .. 5, NEW j \in 0 .. 5, i # j,
         InOrder(s, t, i, j), NEW v
  PROVE  Cardinality(Places(t, v)) = Cardinality(Places(s, v))
<1>1. /\ (t[i] = s[i] /\ t[j] = s[j]) \/ (t[i] = s[j] /\ t[j] = s[i])
      /\ \A k \in 0 .. 5 : k # i /\ k # j => t[k] = s[k]
  BY DEF InOrder
<1>2. CASE t[i] = s[i] /\ t[j] = s[j]
  <2>1. \A k \in 0 .. 5 : t[k] = s[k]
    BY <1>1, <1>2
  <2>2. Places(t, v) = Places(s, v)
    BY <2>1 DEF Places
  <2> QED BY <2>2
<1>3. CASE t[i] = s[j] /\ t[j] = s[i]
  <2> DEFINE other(k) == IF k = i THEN j ELSE IF k = j THEN i ELSE k
             A == Places(s, v)
             C == Places(t, v)
             f == [k \in A |-> other(k)]
  <2>1. ASSUME NEW k \in 0 .. 5
        PROVE  other(k) \in 0 .. 5 /\ t[other(k)] = s[k] /\ other(other(k)) = k
               /\ s[other(k)] = t[k]
    BY <1>1, <1>3
  <2>2. f \in [A -> C]
    <3> HIDE DEF other
    <3> QED BY <2>1 DEF Places
  <2>3. ASSUME NEW k \in A, NEW l \in A, f[k] = f[l] PROVE k = l
    <3>1. k \in 0 .. 5 /\ l \in 0 .. 5 /\ other(k) = other(l)
      BY <2>3 DEF Places
    <3> HIDE DEF other
    <3> QED BY <2>1, <3>1
  <2>4. ASSUME NEW k \in C PROVE \E l \in A : f[l] = k
    <3>1. k \in 0 .. 5 /\ t[k] = v
      BY DEF Places
    <3> HIDE DEF other
    <3>2. other(k) \in A
      BY <3>1, <2>1 DEF Places
    <3> QED BY <3>1, <3>2, <2>1
  <2> HIDE DEF f, A, C, other
  <2>5. f \in Bijection(A, C)
    <3>1. f \in Injection(A, C)
      BY <2>2, <2>3 DEF Injection, IsInjective
    <3>2. f \in Surjection(A, C)
      BY <2>2, <2>4 DEF Surjection
    <3> QED BY <3>1, <3>2 DEF Bijection
  <2>6. IsFiniteSet(A)
    <3>1. IsFiniteSet(0 .. 5)
      <4>1. 0 \in Int /\ 5 \in Int
        OBVIOUS
      <4> QED BY <4>1, FS_Interval
    <3>2. A \in SUBSET (0 .. 5)
      BY DEF Places, A
    <3> QED BY <3>1, <3>2, FS_Subset
  <2>7. ExistsBijection(A, C)
    BY <2>5 DEF ExistsBijection
  <2> QED BY <2>6, <2>7, FS_Bijection DEF A, C
<1> QED BY <1>1, <1>2, <1>3

\* The two triples are in order after six comparators.
LEMMA Triples ==
  ASSUME NEW a \in [0 .. 5 -> Int], NEW b, NEW c, NEW d, NEW e, NEW f, NEW g,
         InOrder(a, b, 1, 2), InOrder(b, c, 4, 5), InOrder(c, d, 0, 2),
         InOrder(d, e, 3, 5), InOrder(e, f, 0, 1), InOrder(f, g, 3, 4)
  PROVE  g[0] <= g[1] /\ g[1] <= g[2] /\ g[3] <= g[4] /\ g[4] <= g[5]
BY DEF InOrder

\* The other six merge the triples.
LEMMA Merged ==
  ASSUME NEW a \in [0 .. 5 -> Int], NEW b, NEW c, NEW d, NEW e, NEW f, NEW g,
         a[0] <= a[1], a[1] <= a[2], a[3] <= a[4], a[4] <= a[5],
         InOrder(a, b, 2, 5), InOrder(b, c, 0, 3), InOrder(c, d, 1, 4),
         InOrder(d, e, 2, 4), InOrder(e, f, 1, 3), InOrder(f, g, 2, 3)
  PROVE  \A i \in 0 .. 4 : g[i] <= g[i + 1]
<1>1. g[0] <= g[1] /\ g[1] <= g[2] /\ g[2] <= g[3] /\ g[3] <= g[4] /\ g[4] <= g[5]
  BY DEF InOrder
<1> QED BY <1>1

LEMMA SortRun ==
  ASSUME NEW edges \in [0 .. 5 -> Int]
  PROVE  \E after \in [0 .. 12 -> [0 .. 5 -> Int]] :
           /\ after[0] = edges /\ DB!sort6(edges) = after[12]
           /\ \A k \in Nat : k < 12 =>
                after[k + 1] = DB!Compared(after[k], DB!Network[k + 1][1], DB!Network[k + 1][2])
<1> DEFINE V == [0 .. 5 -> Int]
           term(k, v) == DB!Compared(v, DB!Network[k][1], DB!Network[k][2])
           step == [p \in Nat \X V |-> IF p[1] \in 1 .. 12 THEN term(p[1], p[2]) ELSE edges]
           c == CHOOSE after : after = [k \in 0 .. 12 |-> IF k = 0 THEN edges
                                                          ELSE term(k, after[k - 1])]
<1>1. ASSUME NEW k \in 1 .. 12, NEW v \in V PROVE term(k, v) \in V
  <2>1. PICK i \in 0 .. 5, j \in 0 .. 5 :
          i # j /\ DB!Network[k][1] = i /\ DB!Network[k][2] = j
    BY DEF DB!Network
  <2>2. InOrder(v, DB!Compared(v, i, j), i, j)
    BY <2>1, ComparedOrders
  <2> QED BY <2>1, <2>2 DEF InOrder
<1>2. step \in [Nat \X V -> V]
  <2> HIDE DEF term, V
  <2>1. edges \in V
    BY DEF V
  <2> QED BY <1>1, <2>1
<1>3. PICK g \in [0 .. 12 -> V] : Run(g, 12, edges, step)
  <2> HIDE DEF step, V
  <2>1. edges \in V
    BY DEF V
  <2> QED BY <1>2, <2>1, RunExists
<1>4. g = [k \in 0 .. 12 |-> IF k = 0 THEN edges ELSE term(k, g[k - 1])]
  <2> HIDE DEF term, V
  <2>1. ASSUME NEW k \in 1 .. 12 PROVE g[k] = term(k, g[k - 1])
    <3>1. k - 1 \in Nat /\ k - 1 < 12 /\ (k - 1) + 1 = k /\ k - 1 \in 0 .. 12 /\ k \in Nat
      BY <2>1
    <3>2. g[k] = step[<<k, g[k - 1]>>]
      BY <3>1, <1>3 DEF Run
    <3> QED BY <3>1, <3>2
  <2> HIDE DEF step
  <2>2. g[0] = edges /\ g = [k \in 0 .. 12 |-> g[k]]
    BY <1>3 DEF Run
  <2>3. ASSUME NEW k \in 0 .. 12 PROVE g[k] = IF k = 0 THEN edges ELSE term(k, g[k - 1])
    <3>1. k # 0 => k \in 1 .. 12
      OBVIOUS
    <3> QED BY <3>1, <2>1, <2>2
  <2> QED BY <2>2, <2>3, Zenon
<1>5. c = [k \in 0 .. 12 |-> IF k = 0 THEN edges ELSE term(k, c[k - 1])]
  <2> HIDE DEF term, V
  <2> QED BY <1>4
<1>6. DB!sort6(edges) = c[12]
  BY DEF DB!sort6
<1> HIDE DEF c, step, term, V
<1>7. c[0] = edges /\ \A k \in Nat : k < 12 => c[k + 1] = term(k + 1, c[k])
  BY <1>5
<1>8. \A k \in 0 .. 12 : c[k] \in V
  <2>1. ASSUME NEW k \in Nat, k < 12, c[k] \in V PROVE c[k + 1] \in V
    <3>1. k + 1 \in 1 .. 12
      BY <2>1
    <3> QED BY <3>1, <2>1, <1>1, <1>7
  <2>2. c[0] \in V
    BY <1>7 DEF V
  <2> QED BY <2>1, <2>2, RunStays
<1>9. c \in [0 .. 12 -> V]
  BY <1>5, <1>8
<1> QED BY <1>6, <1>7, <1>9 DEF V, term

\* The network sorts every six numbers, and neither loses one nor makes one up.
THEOREM NetworkIsSort ==
  ASSUME NEW edges \in [0 .. 5 -> Int]
  PROVE  DB!NetworkSorts(edges)
<1>1. PICK a \in [0 .. 12 -> [0 .. 5 -> Int]] :
        /\ a[0] = edges /\ DB!sort6(edges) = a[12]
        /\ \A k \in Nat : k < 12 =>
             a[k + 1] = DB!Compared(a[k], DB!Network[k + 1][1], DB!Network[k + 1][2])
  BY SortRun
<1>2. ASSUME NEW k \in Nat, k < 12
      PROVE  \E i, j \in 0 .. 5 : /\ i # j /\ i = DB!Network[k + 1][1] /\ j = DB!Network[k + 1][2]
                                  /\ InOrder(a[k], a[k + 1], i, j)
  <2>1. PICK i \in 0 .. 5, j \in 0 .. 5 :
          i # j /\ DB!Network[k + 1][1] = i /\ DB!Network[k + 1][2] = j
    BY <1>2 DEF DB!Network
  <2>2. a[k] \in [0 .. 5 -> Int] /\ a[k + 1] = DB!Compared(a[k], i, j)
    BY <1>1, <1>2, <2>1
  <2>3. InOrder(a[k], a[k + 1], i, j)
    BY <2>2, <2>1, ComparedOrders
  <2> QED BY <2>1, <2>3
<1>3. \A i \in 0 .. 4 : a[12][i] <= a[12][i + 1]
  <2> DEFINE pair == DB!Network
  <2>1. /\ pair[1][1] = 1 /\ pair[1][2] = 2 /\ pair[2][1] = 4 /\ pair[2][2] = 5
        /\ pair[3][1] = 0 /\ pair[3][2] = 2 /\ pair[4][1] = 3 /\ pair[4][2] = 5
        /\ pair[5][1] = 0 /\ pair[5][2] = 1 /\ pair[6][1] = 3 /\ pair[6][2] = 4
    BY DEF DB!Network
  <2>2. /\ pair[7][1] = 2 /\ pair[7][2] = 5 /\ pair[8][1] = 0 /\ pair[8][2] = 3
        /\ pair[9][1] = 1 /\ pair[9][2] = 4 /\ pair[10][1] = 2 /\ pair[10][2] = 4
        /\ pair[11][1] = 1 /\ pair[11][2] = 3 /\ pair[12][1] = 2 /\ pair[12][2] = 3
    BY DEF DB!Network
  <2>3. ASSUME NEW k \in Nat, k < 12 PROVE InOrder(a[k], a[k + 1], pair[k + 1][1], pair[k + 1][2])
    BY <1>2, <2>3
  <2> HIDE DEF pair
  <2>4. /\ InOrder(a[0], a[1], 1, 2) /\ InOrder(a[1], a[2], 4, 5)
        /\ InOrder(a[2], a[3], 0, 2) /\ InOrder(a[3], a[4], 3, 5)
        /\ InOrder(a[4], a[5], 0, 1) /\ InOrder(a[5], a[6], 3, 4)
    <3>1. InOrder(a[0], a[1], 1, 2)
      <4>1. 0 \in Nat /\ 0 < 12 /\ 0 + 1 = 1
        OBVIOUS
      <4> QED BY <4>1, <2>3, <2>1
    <3>2. InOrder(a[1], a[2], 4, 5)
      <4>1. 1 \in Nat /\ 1 < 12 /\ 1 + 1 = 2
        OBVIOUS
      <4> QED BY <4>1, <2>3, <2>1
    <3>3. InOrder(a[2], a[3], 0, 2)
      <4>1. 2 \in Nat /\ 2 < 12 /\ 2 + 1 = 3
        OBVIOUS
      <4> QED BY <4>1, <2>3, <2>1
    <3>4. InOrder(a[3], a[4], 3, 5)
      <4>1. 3 \in Nat /\ 3 < 12 /\ 3 + 1 = 4
        OBVIOUS
      <4> QED BY <4>1, <2>3, <2>1
    <3>5. InOrder(a[4], a[5], 0, 1)
      <4>1. 4 \in Nat /\ 4 < 12 /\ 4 + 1 = 5
        OBVIOUS
      <4> QED BY <4>1, <2>3, <2>1
    <3>6. InOrder(a[5], a[6], 3, 4)
      <4>1. 5 \in Nat /\ 5 < 12 /\ 5 + 1 = 6
        OBVIOUS
      <4> QED BY <4>1, <2>3, <2>1
    <3> QED BY <3>1, <3>2, <3>3, <3>4, <3>5, <3>6
  <2>5. /\ InOrder(a[6], a[7], 2, 5) /\ InOrder(a[7], a[8], 0, 3)
        /\ InOrder(a[8], a[9], 1, 4) /\ InOrder(a[9], a[10], 2, 4)
        /\ InOrder(a[10], a[11], 1, 3) /\ InOrder(a[11], a[12], 2, 3)
    <3>1. InOrder(a[6], a[7], 2, 5)
      <4>1. 6 \in Nat /\ 6 < 12 /\ 6 + 1 = 7
        OBVIOUS
      <4> QED BY <4>1, <2>3, <2>2
    <3>2. InOrder(a[7], a[8], 0, 3)
      <4>1. 7 \in Nat /\ 7 < 12 /\ 7 + 1 = 8
        OBVIOUS
      <4> QED BY <4>1, <2>3, <2>2
    <3>3. InOrder(a[8], a[9], 1, 4)
      <4>1. 8 \in Nat /\ 8 < 12 /\ 8 + 1 = 9
        OBVIOUS
      <4> QED BY <4>1, <2>3, <2>2
    <3>4. InOrder(a[9], a[10], 2, 4)
      <4>1. 9 \in Nat /\ 9 < 12 /\ 9 + 1 = 10
        OBVIOUS
      <4> QED BY <4>1, <2>3, <2>2
    <3>5. InOrder(a[10], a[11], 1, 3)
      <4>1. 10 \in Nat /\ 10 < 12 /\ 10 + 1 = 11
        OBVIOUS
      <4> QED BY <4>1, <2>3, <2>2
    <3>6. InOrder(a[11], a[12], 2, 3)
      <4>1. 11 \in Nat /\ 11 < 12 /\ 11 + 1 = 12
        OBVIOUS
      <4> QED BY <4>1, <2>3, <2>2
    <3> QED BY <3>1, <3>2, <3>3, <3>4, <3>5, <3>6
  <2>6. a[6][0] <= a[6][1] /\ a[6][1] <= a[6][2] /\ a[6][3] <= a[6][4] /\ a[6][4] <= a[6][5]
    <3>1. a[0] \in [0 .. 5 -> Int]
      OBVIOUS
    <3> QED BY <2>4, <3>1, Triples
  <2>7. a[6] \in [0 .. 5 -> Int]
    OBVIOUS
  <2> QED BY <2>5, <2>6, <2>7, Merged
<1>4. ASSUME NEW v PROVE Cardinality(Places(a[12], v)) = Cardinality(Places(a[0], v))
  <2> DEFINE M == {k \in Nat : k <= 12 =>
                     Cardinality(Places(a[k], v)) = Cardinality(Places(a[0], v))}
  <2>1. ASSUME NEW k \in M PROVE k + 1 \in M
    <3>1. SUFFICES ASSUME k + 1 <= 12
                   PROVE  Cardinality(Places(a[k + 1], v)) = Cardinality(Places(a[0], v))
      OBVIOUS
    <3>2. k \in Nat /\ k < 12 /\ Cardinality(Places(a[k], v)) = Cardinality(Places(a[0], v))
      BY <3>1
    <3>3. PICK i \in 0 .. 5, j \in 0 .. 5 : i # j /\ InOrder(a[k], a[k + 1], i, j)
      BY <3>2, <1>2
    <3>4. PICK s \in [0 .. 5 -> Int] : s = a[k]
      BY <3>2
    <3>5. Cardinality(Places(a[k + 1], v)) = Cardinality(Places(s, v))
      BY <3>3, <3>4, PlacesKept
    <3> QED BY <3>2, <3>4, <3>5
  <2>2. 12 \in M
    <3>1. 0 \in M /\ M \in SUBSET Nat
      OBVIOUS
    <3> HIDE DEF M
    <3> QED BY <2>1, <3>1, Counting
  <2> QED BY <2>2
<1>5. \A v : DB!Cardinality(Places(DB!sort6(edges), v)) = DB!Cardinality(Places(edges, v))
  BY <1>1, <1>4, SameCount
<1>6. \A v : DB!Cardinality({i \in 0 .. 5 : DB!sort6(edges)[i] = v})
               = DB!Cardinality({i \in 0 .. 5 : edges[i] = v})
  BY <1>5, Zenon DEF Places
<1>7. \A i \in 0 .. 4 : DB!sort6(edges)[i] <= DB!sort6(edges)[i + 1]
  BY <1>1, <1>3
<1>8. DB!NetworkSorts(edges) <=>
        /\ \A i \in 0 .. 4 : DB!sort6(edges)[i] <= DB!sort6(edges)[i + 1]
        /\ \A v \in {edges[i] : i \in 0 .. 5} :
             DB!Cardinality({i \in 0 .. 5 : DB!sort6(edges)[i] = v})
               = DB!Cardinality({i \in 0 .. 5 : edges[i] = v})
  BY Zenon DEF DB!NetworkSorts
<1> QED BY <1>6, <1>7, <1>8, Zenon

-----------------------------------------------------------------------------
(* Keys, buckets and the flat array *)

LEMMA BucketRange ==
  ASSUME KEYS \in Nat \ {0}, PER_BUCKET \in Nat \ {0}, NEW key \in 0 .. KEYS - 1
  PROVE  /\ DB!Buckets \in Nat /\ DB!Bucket(key) \in 0 .. DB!Buckets
         /\ DB!Bucket(key) + 1 \in 0 .. DB!Buckets
<1>1. PICK q \in Int, r \in Int :
        /\ q = key \div PER_BUCKET /\ r = key % PER_BUCKET
        /\ key = PER_BUCKET * q + r /\ 0 <= r /\ r < PER_BUCKET
  OBVIOUS
<1>2. PICK b \in Int, s \in Int :
        /\ b = (KEYS + PER_BUCKET - 1) \div PER_BUCKET
        /\ KEYS + PER_BUCKET - 1 = PER_BUCKET * b + s /\ 0 <= s /\ s < PER_BUCKET
  OBVIOUS
<1>3. q >= 0
  <2>1. SUFFICES ASSUME q <= -1 PROVE FALSE
    OBVIOUS
  <2>2. PER_BUCKET * q <= - PER_BUCKET
    BY <2>1
  <2> QED BY <2>2, <1>1
<1>4. q < b
  <2>1. SUFFICES ASSUME q >= b PROVE FALSE
    OBVIOUS
  <2>2. PER_BUCKET * q >= PER_BUCKET * b
    BY <2>1
  <2> QED BY <2>2, <1>1, <1>2
<1> QED BY <1>1, <1>2, <1>3, <1>4 DEF DB!Bucket, DB!Buckets

\* The two halves of an offset come back.
LEMMA OffsetBack ==
  ASSUME START_SPAN \in Nat \ {0}, LENGTH_SPAN \in Nat \ {0},
         NEW start \in Nat, NEW length \in Nat, start < START_SPAN, length < LENGTH_SPAN
  PROVE  /\ DB!Packed(start, length) \div LENGTH_SPAN = start
         /\ DB!Packed(start, length) % LENGTH_SPAN = length
<1>1. start % START_SPAN = start /\ length % LENGTH_SPAN = length
  OBVIOUS
<1>2. length \in 0 .. LENGTH_SPAN - 1
  OBVIOUS
<1>3. DB!Packed(start, length) = start * LENGTH_SPAN + length
  BY <1>1 DEF DB!Packed
<1>4. /\ (start * LENGTH_SPAN + length) \div LENGTH_SPAN = start
      /\ (start * LENGTH_SPAN + length) % LENGTH_SPAN = length
  BY <1>2, Digit
<1> QED BY <1>3, <1>4

\* A table gives each of its keys a list of patterns of P.
IsTable(keys, patterns, n, P) ==
  /\ n \in Nat /\ keys \in [1 .. n -> 0 .. KEYS - 1]
  /\ \A i, j \in 1 .. n : keys[i] = keys[j] => i = j
  /\ \A i \in 1 .. n : patterns[keys[i]] \in Seq(P)

LEMMA FlatRun ==
  ASSUME NEW keys, NEW patterns, NEW n, NEW P, IsTable(keys, patterns, n, P),
         NEW flat, flat = DB!flat_array(keys, patterns)
  PROVE  /\ flat \in [0 .. n -> Seq(P)] /\ flat[0] = << >>
         /\ \A k \in Nat : k < n => flat[k + 1] = flat[k] \o patterns[keys[k + 1]]
<1>1. n \in Nat /\ Len(keys) = n
  BY LenProperties DEF IsTable
<1> DEFINE V == Seq(P)
           term(k, v) == v \o patterns[keys[k]]
           step == [p \in Nat \X V |-> IF p[1] \in 1 .. n THEN term(p[1], p[2]) ELSE << >>]
           c == CHOOSE f : f = [k \in 0 .. n |-> IF k = 0 THEN << >> ELSE term(k, f[k - 1])]
<1>2. ASSUME NEW k \in 1 .. n, NEW v \in V PROVE term(k, v) \in V
  <2>1. patterns[keys[k]] \in Seq(P)
    BY <1>1 DEF IsTable
  <2> QED BY <2>1, ConcatProperties
<1>3. << >> \in V
  OBVIOUS
<1>4. step \in [Nat \X V -> V]
  <2> HIDE DEF term, V
  <2> QED BY <1>2, <1>3
<1>5. PICK g \in [0 .. n -> V] : Run(g, n, << >>, step)
  <2> HIDE DEF step, V
  <2> QED BY <1>1, <1>3, <1>4, RunExists
<1> HIDE DEF term, V
<1>6. g = [k \in 0 .. n |-> IF k = 0 THEN << >> ELSE term(k, g[k - 1])]
  <2>1. ASSUME NEW k \in 1 .. n PROVE g[k] = term(k, g[k - 1])
    <3>1. k - 1 \in Nat /\ k - 1 < n /\ (k - 1) + 1 = k /\ k - 1 \in 0 .. n /\ k \in Nat
      BY <2>1, <1>1
    <3>2. g[k] = step[<<k, g[k - 1]>>]
      BY <3>1, <1>5 DEF Run
    <3> QED BY <3>1, <3>2
  <2> HIDE DEF step
  <2>2. g[0] = << >> /\ g = [k \in 0 .. n |-> g[k]]
    BY <1>5 DEF Run
  <2>3. ASSUME NEW k \in 0 .. n PROVE g[k] = IF k = 0 THEN << >> ELSE term(k, g[k - 1])
    <3>1. k # 0 => k \in 1 .. n
      BY <1>1
    <3> QED BY <3>1, <2>1, <2>2
  <2> QED BY <2>2, <2>3, Zenon
<1>7. c = [k \in 0 .. n |-> IF k = 0 THEN << >> ELSE term(k, c[k - 1])]
  BY <1>6
<1>8. flat = c
  BY <1>1 DEF DB!flat_array, term
<1> HIDE DEF c, step
<1>9. c[0] = << >> /\ \A k \in Nat : k < n => c[k + 1] = term(k + 1, c[k])
  BY <1>1, <1>7
<1>10. \A k \in 0 .. n : c[k] \in V
  <2>1. ASSUME NEW k \in Nat, k < n, c[k] \in V PROVE c[k + 1] \in V
    <3>1. k + 1 \in 1 .. n
      BY <2>1, <1>1
    <3> QED BY <3>1, <2>1, <1>2, <1>9
  <2>2. c[0] \in V
    BY <1>3, <1>9
  <2> QED BY <2>1, <2>2, <1>1, RunStays
<1>11. c \in [0 .. n -> V]
  BY <1>7, <1>10
<1> QED BY <1>8, <1>9, <1>11 DEF V, term

\* s is the start of t.
StartOf(s, t) == Len(s) <= Len(t) /\ \A x \in 1 .. Len(s) : t[x] = s[x]

LEMMA FlatGrows ==
  ASSUME NEW keys, NEW patterns, NEW n, NEW P, IsTable(keys, patterns, n, P),
         NEW flat, flat = DB!flat_array(keys, patterns), NEW k \in 0 .. n
  PROVE  StartOf(flat[k], flat[n])
<1>0. n \in Nat
  BY DEF IsTable
<1>1. n \in Nat /\ flat \in [0 .. n -> Seq(P)]
      /\ \A j \in Nat : j < n => flat[j + 1] = flat[j] \o patterns[keys[j + 1]]
  BY <1>0, FlatRun
<1>2. ASSUME NEW j \in Nat, j < n PROVE StartOf(flat[j], flat[j + 1])
  <2>1. flat[j] \in Seq(P) /\ patterns[keys[j + 1]] \in Seq(P)
    BY <1>1, <1>2 DEF IsTable
  <2>2. PICK s \in Seq(P), p \in Seq(P) : s = flat[j] /\ p = patterns[keys[j + 1]]
    BY <2>1
  <2>3. StartOf(s, s \o p)
    BY ConcatProperties, LenProperties DEF StartOf
  <2> QED BY <2>2, <2>3, <1>1, <1>2
<1> DEFINE M == {j \in Nat : k + j <= n => StartOf(flat[k], flat[k + j])}
<1>3. 0 \in M
  <2>1. flat[k] \in Seq(P)
    BY <1>1
  <2>2. StartOf(flat[k], flat[k])
    BY <2>1, LenProperties DEF StartOf
  <2> QED BY <2>2
<1>4. ASSUME NEW j \in M PROVE j + 1 \in M
  <2>1. SUFFICES ASSUME k + (j + 1) <= n PROVE StartOf(flat[k], flat[k + (j + 1)])
    OBVIOUS
  <2>2. j \in Nat /\ k + j \in Nat /\ k + j < n /\ k + (j + 1) = (k + j) + 1
    BY <2>1, <1>1
  <2>3. StartOf(flat[k], flat[k + j]) /\ StartOf(flat[k + j], flat[k + (j + 1)])
    <3>1. StartOf(flat[k], flat[k + j])
      BY <2>2, <1>0
    <3>2. StartOf(flat[k + j], flat[(k + j) + 1])
      BY <2>2, <1>2
    <3> QED BY <3>1, <3>2, <2>2
  <2>4. flat[k] \in Seq(P) /\ flat[k + j] \in Seq(P) /\ flat[k + (j + 1)] \in Seq(P)
    BY <2>1, <2>2, <1>1
  <2>5. Len(flat[k]) \in Nat /\ Len(flat[k + j]) \in Nat /\ Len(flat[k + (j + 1)]) \in Nat
    BY <2>4, LenProperties
  <2> QED BY <2>3, <2>5 DEF StartOf
<1>5. n - k \in M
  <2>1. M \in SUBSET Nat /\ n - k \in Nat
    BY <1>1
  <2> HIDE DEF M
  <2> QED BY <1>3, <1>4, <2>1, Counting
<1>6. k + (n - k) = n
  BY <1>1
<1> QED BY <1>5, <1>6, <1>1

\* The places of a key in the whole array hold its patterns.
Holds(whole, before, p) ==
  /\ Len(before) + Len(p) <= Len(whole)
  /\ SubSeq(whole, Len(before) + 1, Len(before) + Len(p)) = p

LEMMA FlatHolds ==
  ASSUME NEW keys, NEW patterns, NEW n, NEW P, IsTable(keys, patterns, n, P),
         NEW flat, flat = DB!flat_array(keys, patterns), NEW k \in 1 .. n,
         NEW p, p = patterns[keys[k]]
  PROVE  Holds(flat[n], flat[k - 1], p)
<1>0. n \in Nat /\ p \in Seq(P)
  BY DEF IsTable
<1>1. n \in Nat /\ flat \in [0 .. n -> Seq(P)] /\ p \in Seq(P)
      /\ \A j \in Nat : j < n => flat[j + 1] = flat[j] \o patterns[keys[j + 1]]
  BY <1>0, FlatRun
<1>2. k - 1 \in Nat /\ k - 1 < n /\ (k - 1) + 1 = k /\ k - 1 \in 0 .. n /\ k \in 0 .. n
      /\ n \in 0 .. n
  BY <1>1
<1>3. PICK s \in Seq(P), t \in Seq(P) : s = flat[k - 1] /\ t = flat[n]
  BY <1>1, <1>2
<1>4. StartOf(s \o p, t)
  <2>1. flat[k] = s \o p
    BY <1>1, <1>2, <1>3
  <2>2. StartOf(flat[k], flat[n])
    BY <1>2, FlatGrows
  <2> QED BY <2>1, <2>2, <1>3
<1>5. /\ s \o p \in Seq(P) /\ Len(s \o p) = Len(s) + Len(p)
      /\ \A x \in 1 .. Len(p) : (s \o p)[Len(s) + x] = p[x]
  BY <1>1, ConcatProperties, LenProperties
<1>6. Len(s) \in Nat /\ Len(p) \in Nat /\ Len(t) \in Nat
  BY <1>1, LenProperties
<1>7. Len(s) + Len(p) <= Len(t) /\ \A x \in 1 .. Len(p) : t[Len(s) + x] = p[x]
  <2>1. ASSUME NEW x \in 1 .. Len(p) PROVE t[Len(s) + x] = p[x]
    <3>1. Len(s) + x \in 1 .. Len(s) + Len(p)
      BY <1>6
    <3> QED BY <3>1, <1>4, <1>5 DEF StartOf
  <2> QED BY <2>1, <1>4, <1>5 DEF StartOf
<1>8. PICK u : u = SubSeq(t, Len(s) + 1, Len(s) + Len(p))
  OBVIOUS
<1>9. u \in Seq(P) /\ Len(u) = Len(p) /\ \A x \in 1 .. Len(p) : u[x] = t[Len(s) + x]
  BY <1>6, <1>7, <1>8
<1>10. u = p
  BY <1>1, <1>7, <1>9, SeqEqual
<1> QED BY <1>3, <1>7, <1>8, <1>10 DEF Holds

-----------------------------------------------------------------------------
(* The sorted pairs *)

\* What a pair is made of.
LEMMA PairFacts ==
  ASSUME NEW keys, NEW patterns, NEW n, NEW P, IsTable(keys, patterns, n, P),
         NEW pairs, pairs = DB!Pairs(keys, patterns),
         NEW flat, flat = DB!flat_array(keys, patterns)
  PROVE  /\ n \in Nat /\ DOMAIN pairs = 1 .. n
         /\ \A k \in 1 .. n :
              /\ pairs[k].key = keys[k] /\ keys[k] \in 0 .. KEYS - 1
              /\ pairs[k].offset = DB!Packed(Len(flat[k - 1]), Len(patterns[keys[k]]))
         /\ \A k, l \in 1 .. n : keys[k] = keys[l] => k = l
BY DEF IsTable, DB!Pairs

\* rank: how many pairs have a key up to the k-th's; it numbers them from 1 to n.
Ranks(rank, n, keys, pairs) ==
  rank = [k \in 1 .. n |->
            Cardinality({q \in {pairs[l] : l \in 1 .. n} : q.key <= keys[k]})]

\* The pairs have different keys.
Distinct(n, keys, pairs) ==
  /\ DOMAIN pairs = 1 .. n
  /\ \A k \in 1 .. n : pairs[k].key = keys[k]
  /\ \A k, l \in 1 .. n : keys[k] = keys[l] => k = l

\* The places 1 to n are given out in the order of the keys.
Numbers(rank, keys, n) ==
  /\ rank \in [1 .. n -> 1 .. n]
  /\ \A k, l \in 1 .. n : rank[k] < rank[l] => keys[k] < keys[l]
  /\ \A k, l \in 1 .. n : rank[k] = rank[l] => k = l
  /\ \A i \in 1 .. n : \E k \in 1 .. n : rank[k] = i

LEMMA RanksNumber ==
  ASSUME NEW n \in Nat, NEW keys \in [1 .. n -> Int], NEW pairs, Distinct(n, keys, pairs),
         NEW rank, Ranks(rank, n, keys, pairs)
  PROVE  Numbers(rank, keys, n)
<1>0. /\ DOMAIN pairs = 1 .. n /\ \A k \in 1 .. n : pairs[k].key = keys[k]
      /\ \A k, l \in 1 .. n : keys[k] = keys[l] => k = l
  BY DEF Distinct
<1> DEFINE all == {pairs[k] : k \in 1 .. n}
           upto(k) == {q \in all : q.key <= keys[k]}
<1>1. IsFiniteSet(1 .. n) /\ Cardinality(1 .. n) = n
  <2>1. 1 \in Int /\ n \in Int
    OBVIOUS
  <2>2. IsFiniteSet(1 .. n) /\ Cardinality(1 .. n) = IF 1 > n THEN 0 ELSE n - 1 + 1
    BY <2>1, FS_Interval
  <2> QED BY <2>2
<1>2. IsFiniteSet(all) /\ Cardinality(all) <= n /\ Cardinality(all) \in Nat
  <2> DEFINE f == [k \in 1 .. n |-> pairs[k]]
  <2>1. f \in Surjection(1 .. n, all)
    BY <1>0 DEF Surjection
  <2> HIDE DEF f
  <2>2. IsFiniteSet(all) /\ Cardinality(all) <= Cardinality(1 .. n)
    BY <1>1, <2>1, FS_Surjection
  <2> QED BY <1>1, <2>2, FS_CardinalityType
<1>3. ASSUME NEW k \in 1 .. n
      PROVE  /\ IsFiniteSet(upto(k)) /\ Cardinality(upto(k)) \in 1 .. n /\ pairs[k] \in upto(k)
             /\ rank[k] = Cardinality(upto(k))
  <2>1. upto(k) \in SUBSET all /\ pairs[k] \in upto(k)
    BY <1>0
  <2>2. rank[k] = Cardinality(upto(k))
    BY DEF Ranks
  <2> HIDE DEF upto
  <2>3. IsFiniteSet(upto(k)) /\ Cardinality(upto(k)) <= Cardinality(all)
    BY <2>1, <1>2, FS_Subset
  <2>4. Cardinality(upto(k)) \in Nat
    BY <2>3, FS_CardinalityType
  <2>5. Cardinality(upto(k)) # 0
    BY <2>1, <2>3, FS_EmptySet
  <2> QED BY <2>1, <2>2, <2>3, <2>4, <2>5, <1>2
<1>4. ASSUME NEW k \in 1 .. n, NEW l \in 1 .. n, keys[k] < keys[l] PROVE rank[k] < rank[l]
  <2>1. upto(k) \in SUBSET upto(l) /\ pairs[l] \notin upto(k)
    BY <1>4, <1>0
  <2> HIDE DEF upto
  <2>2. Cardinality(upto(k)) <= Cardinality(upto(l))
        /\ (Cardinality(upto(l)) = Cardinality(upto(k)) => upto(l) = upto(k))
    BY <2>1, <1>3, FS_Subset
  <2>3. upto(l) # upto(k)
    BY <2>1, <1>3
  <2>4. Cardinality(upto(k)) \in Nat /\ Cardinality(upto(l)) \in Nat
    BY <1>3
  <2>5. rank[k] = Cardinality(upto(k)) /\ rank[l] = Cardinality(upto(l))
    BY <1>3
  <2> QED BY <2>2, <2>3, <2>4, <2>5
<1> HIDE DEF upto
<1>5. ASSUME NEW k \in 1 .. n, NEW l \in 1 .. n
      PROVE  /\ rank[k] \in Nat /\ rank[l] \in Nat /\ keys[k] \in Int /\ keys[l] \in Int
             /\ keys[k] < keys[l] => rank[k] < rank[l]
             /\ keys[l] < keys[k] => rank[l] < rank[k]
             /\ keys[k] = keys[l] => k = l
  <2> HIDE DEF all
  <2>1. rank[k] \in 1 .. n /\ rank[l] \in 1 .. n
    BY <1>3
  <2>2. keys[k] = keys[l] => k = l
    BY <1>0
  <2> QED BY <2>1, <2>2, <1>4
<1>6. rank \in [1 .. n -> 1 .. n]
  <2>1. rank = [k \in 1 .. n |-> rank[k]]
    BY Zenon DEF Ranks
  <2> QED BY <2>1, <1>3
<1>7. \A k, l \in 1 .. n : rank[k] = rank[l] => k = l
  <2>1. ASSUME NEW k \in 1 .. n, NEW l \in 1 .. n, rank[k] = rank[l] PROVE k = l
    <3>1. keys[k] < keys[l] \/ keys[l] < keys[k] \/ keys[k] = keys[l]
      BY <1>5
    <3> QED BY <2>1, <3>1, <1>5
  <2> QED BY <2>1
<1>8. \A k, l \in 1 .. n : rank[k] < rank[l] => keys[k] < keys[l]
  <2>1. ASSUME NEW k \in 1 .. n, NEW l \in 1 .. n, rank[k] < rank[l] PROVE keys[k] < keys[l]
    <3>1. keys[k] < keys[l] \/ keys[l] < keys[k] \/ keys[k] = keys[l]
      BY <1>5
    <3> QED BY <2>1, <3>1, <1>5
  <2> QED BY <2>1
<1>9. rank \in Surjection(1 .. n, 1 .. n)
  <2>1. rank \in Injection(1 .. n, 1 .. n)
    BY <1>6, <1>7 DEF Injection, IsInjective
  <2> QED BY <2>1, <1>1, FS_Injection
<1> QED BY <1>6, <1>7, <1>8, <1>9 DEF Surjection, Numbers

\* a1 holds the pairs, and their keys rise.
IsSorted(a, pairs, n) ==
  /\ a = [i \in 1 .. n |-> a[i]]
  /\ \A i \in 1 .. n : \E k \in 1 .. n : a[i] = pairs[k]
  /\ \A k \in 1 .. n : \E i \in 1 .. n : a[i] = pairs[k]
  /\ \A i, j \in 1 .. n : i < j => a[i].key < a[j].key

LEMMA SortedPairs ==
  ASSUME NEW keys, NEW patterns, NEW n, NEW P, IsTable(keys, patterns, n, P),
         NEW pairs, pairs = DB!Pairs(keys, patterns),
         NEW a, a = DB!a1(keys, patterns)
  PROVE  IsSorted(a, pairs, n)
<1>1. /\ n \in Nat /\ DOMAIN pairs = 1 .. n
      /\ \A k \in 1 .. n : pairs[k].key = keys[k]
      /\ \A k, l \in 1 .. n : keys[k] = keys[l] => k = l
  BY PairFacts
<1>2. keys \in [1 .. n -> Int]
  BY DEF IsTable
<1> DEFINE all == {pairs[k] : k \in 1 .. n}
<1>3. Distinct(n, keys, pairs)
  BY <1>1 DEF Distinct
<1>4. PICK rank : Ranks(rank, n, keys, pairs)
  BY DEF Ranks
<1>5. /\ rank \in [1 .. n -> 1 .. n]
      /\ \A k, l \in 1 .. n : rank[k] < rank[l] => keys[k] < keys[l]
      /\ \A k, l \in 1 .. n : rank[k] = rank[l] => k = l
      /\ \A i \in 1 .. n : \E k \in 1 .. n : rank[k] = i
  <2>1. Numbers(rank, keys, n)
    <3>1. n \in Nat
      BY <1>1
    <3> QED BY <3>1, <1>2, <1>3, <1>4, RanksNumber
  <2> QED BY <2>1 DEF Numbers
<1> DEFINE place(p) == DB!Cardinality({q \in all : q.key <= p.key})
<1>6. \A k \in 1 .. n : place(pairs[k]) = rank[k] /\ pairs[k] \in all
  <2>1. ASSUME NEW k \in 1 .. n PROVE place(pairs[k]) = rank[k]
    <3>1. rank[k] = Cardinality({q \in all : q.key <= keys[k]})
      BY <1>4 DEF Ranks
    <3>2. pairs[k].key = keys[k]
      BY <1>1
    <3> QED BY <3>1, <3>2, SameCount
  <2> QED BY <2>1
<1>7. a = [i \in 1 .. n |-> CHOOSE p \in all : place(p) = i]
  BY <1>1 DEF DB!a1
<1> HIDE DEF place
<1>8. ASSUME NEW i \in 1 .. n
      PROVE  \E k \in 1 .. n : a[i] = pairs[k] /\ rank[k] = i
  <2>1. \E p \in all : place(p) = i
    BY <1>5, <1>6
  <2>2. a[i] \in all /\ place(a[i]) = i
    BY <2>1, <1>7
  <2> QED BY <2>2, <1>6
<1>9. ASSUME NEW k \in 1 .. n PROVE \E i \in 1 .. n : a[i] = pairs[k]
  <2>1. rank[k] \in 1 .. n
    BY <1>5
  <2>2. PICK l \in 1 .. n : a[rank[k]] = pairs[l] /\ rank[l] = rank[k]
    BY <2>1, <1>8
  <2> QED BY <2>1, <2>2, <1>5
<1>10. ASSUME NEW i \in 1 .. n, NEW j \in 1 .. n, i < j PROVE a[i].key < a[j].key
  <2>1. PICK k \in 1 .. n : a[i] = pairs[k] /\ rank[k] = i
    BY <1>8
  <2>2. PICK l \in 1 .. n : a[j] = pairs[l] /\ rank[l] = j
    BY <1>8
  <2>3. keys[k] < keys[l]
    BY <2>1, <2>2, <1>5, <1>10
  <2> QED BY <2>1, <2>2, <2>3, <1>1
<1> QED BY <1>7, <1>8, <1>9, <1>10 DEF IsSorted

-----------------------------------------------------------------------------
(* The lookup table of the buckets *)

LEMMA BucketRises ==
  ASSUME PER_BUCKET \in Nat \ {0}, NEW k \in Nat, NEW l \in Nat, k < l
  PROVE  DB!Bucket(k) <= DB!Bucket(l)
<1>1. PICK q \in Int, r \in Int :
        /\ q = k \div PER_BUCKET /\ k = PER_BUCKET * q + r /\ 0 <= r /\ r < PER_BUCKET
  OBVIOUS
<1>2. PICK p \in Int, s \in Int :
        /\ p = l \div PER_BUCKET /\ l = PER_BUCKET * p + s /\ 0 <= s /\ s < PER_BUCKET
  OBVIOUS
<1>3. SUFFICES ASSUME q >= p + 1 PROVE FALSE
  BY <1>1, <1>2 DEF DB!Bucket
<1>4. PER_BUCKET * q >= PER_BUCKET * (p + 1)
  BY <1>3
<1>5. PER_BUCKET * (p + 1) = PER_BUCKET * p + PER_BUCKET
  OBVIOUS
<1> QED BY <1>1, <1>2, <1>4, <1>5

\* bucket[j] is the bucket of the j-th pair; lut[b] says how many pairs lie below b.
Rising(bucket, n) ==
  /\ n \in Nat /\ DB!Buckets \in Nat
  /\ bucket \in [1 .. n -> 0 .. DB!Buckets]
  /\ \A i, j \in 1 .. n : i < j => bucket[i] <= bucket[j]

Below(c, b, bucket, n) == c \in 0 .. n /\ \A j \in 1 .. n : j <= c <=> bucket[j] < b

\* After i pairs the table is right up to the bucket of the last.
LutUpTo(acc, i, bucket, n) ==
  /\ acc.at = (IF i = 0 THEN 0 ELSE bucket[i])
  /\ \A b \in 0 .. DB!Buckets : b <= acc.at => Below(acc.lut[b], b, bucket, n)

Accs == [lut : [0 .. DB!Buckets -> Nat], at : 0 .. DB!Buckets]

LEMMA FillType ==
  ASSUME NEW acc \in Accs, NEW to \in 0 .. DB!Buckets, NEW i \in Nat
  PROVE  /\ DB!Fill(acc, to, i) \in Accs
         /\ DB!Fill(acc, to, i).at = (IF acc.at < to THEN to ELSE acc.at)
         /\ \A b \in 0 .. DB!Buckets :
              DB!Fill(acc, to, i).lut[b] = IF acc.at < b /\ b <= to THEN i ELSE acc.lut[b]
BY DEF DB!Fill, Accs

LEMMA FillRight ==
  ASSUME NEW n, NEW bucket, Rising(bucket, n), NEW acc \in Accs, NEW i \in 0 .. n,
         LutUpTo(acc, i, bucket, n), NEW to \in 0 .. DB!Buckets,
         i < n => to = bucket[i + 1],
         NEW b \in 0 .. DB!Buckets, b <= to
  PROVE  Below(DB!Fill(acc, to, i).lut[b], b, bucket, n)
<1>1. /\ n \in Nat /\ DB!Buckets \in Nat /\ bucket \in [1 .. n -> 0 .. DB!Buckets]
      /\ \A k, j \in 1 .. n : k < j => bucket[k] <= bucket[j]
  BY DEF Rising
<1>2. acc.at \in 0 .. DB!Buckets /\ acc.at = IF i = 0 THEN 0 ELSE bucket[i]
  BY DEF Accs, LutUpTo
<1>3. DB!Fill(acc, to, i).lut[b] = IF acc.at < b /\ b <= to THEN i ELSE acc.lut[b]
  <2>1. i \in Nat
    BY <1>1
  <2> QED BY <2>1, FillType
<1>4. CASE ~(acc.at < b)
  <2>1. b <= acc.at
    BY <1>1, <1>2, <1>4
  <2> QED BY <2>1, <1>3, <1>4 DEF LutUpTo
<1>5. CASE acc.at < b
  <2>1. ASSUME NEW j \in 1 .. n PROVE j <= i <=> bucket[j] < b
    <3>1. ASSUME j <= i PROVE bucket[j] < b
      <4>1. i \in 1 .. n /\ bucket[j] <= bucket[i] /\ acc.at = bucket[i]
        BY <3>1, <1>1, <1>2
      <4> QED BY <4>1, <1>1, <1>2, <1>5
    <3>2. ASSUME j > i PROVE bucket[j] >= b
      <4>1. i < n /\ i + 1 \in 1 .. n /\ to = bucket[i + 1]
        BY <3>2, <1>1
      <4>2. bucket[i + 1] <= bucket[j]
        BY <3>2, <4>1, <1>1
      <4> QED BY <4>1, <4>2, <1>1
    <3>3. j \in Int /\ i \in Int /\ bucket[j] \in Int /\ b \in Int
      BY <1>1
    <3> QED BY <3>1, <3>2, <3>3
  <2> QED BY <2>1, <1>3, <1>5 DEF Below
<1> QED BY <1>4, <1>5

LEMMA LutRun ==
  ASSUME NEW pairs, NEW n \in Nat, DOMAIN pairs = 1 .. n, Len(pairs) = n,
         DB!Buckets \in Nat, \A i \in 1 .. n : DB!Bucket(pairs[i].key) \in 0 .. DB!Buckets
  PROVE  \E filled \in [0 .. n -> Accs] :
           /\ filled[0] = [lut |-> [b \in 0 .. DB!Buckets |-> 0], at |-> 0]
           /\ \A i \in Nat : i < n =>
                filled[i + 1] = DB!Fill(filled[i], DB!Bucket(pairs[i + 1].key), i)
           /\ DB!create_lut(pairs) = DB!Fill(filled[n], DB!Buckets, n).lut
<1> DEFINE base == [lut |-> [b \in 0 .. DB!Buckets |-> 0], at |-> 0]
           term(i, v) == DB!Fill(v, DB!Bucket(pairs[i].key), i - 1)
           step == [p \in Nat \X Accs |-> IF p[1] \in 1 .. n THEN term(p[1], p[2]) ELSE base]
           c == CHOOSE f : f = [i \in 0 .. n |-> IF i = 0 THEN base ELSE term(i, f[i - 1])]
<1>1. ASSUME NEW i \in 1 .. n, NEW v \in Accs PROVE term(i, v) \in Accs
  <2>1. i - 1 \in Nat /\ DB!Bucket(pairs[i].key) \in 0 .. DB!Buckets
    OBVIOUS
  <2> QED BY <2>1, FillType
<1>2. base \in Accs
  BY DEF Accs
<1> HIDE DEF base, term
<1>3. step \in [Nat \X Accs -> Accs]
  BY <1>1, <1>2
<1>4. PICK g \in [0 .. n -> Accs] : Run(g, n, base, step)
  <2> HIDE DEF step
  <2> QED BY <1>2, <1>3, RunExists
<1>5. g = [i \in 0 .. n |-> IF i = 0 THEN base ELSE term(i, g[i - 1])]
  <2>1. ASSUME NEW i \in 1 .. n PROVE g[i] = term(i, g[i - 1])
    <3>1. i - 1 \in Nat /\ i - 1 < n /\ (i - 1) + 1 = i /\ i - 1 \in 0 .. n /\ i \in Nat
      BY <2>1
    <3>2. g[i] = step[<<i, g[i - 1]>>]
      BY <3>1, <1>4 DEF Run
    <3> QED BY <3>1, <3>2
  <2> HIDE DEF step
  <2>2. g[0] = base /\ g = [i \in 0 .. n |-> g[i]]
    BY <1>4 DEF Run
  <2>3. ASSUME NEW i \in 0 .. n PROVE g[i] = IF i = 0 THEN base ELSE term(i, g[i - 1])
    <3>1. i # 0 => i \in 1 .. n
      OBVIOUS
    <3> QED BY <3>1, <2>1, <2>2
  <2> QED BY <2>2, <2>3, Zenon
<1>6. c = [i \in 0 .. n |-> IF i = 0 THEN base ELSE term(i, c[i - 1])]
  BY <1>5
<1>7. DB!create_lut(pairs) = DB!Fill(c[n], DB!Buckets, n).lut
  BY DEF DB!create_lut, base, term
<1> HIDE DEF c, step
<1>8. c[0] = base /\ \A i \in Nat : i < n => c[i + 1] = term(i + 1, c[i])
  BY <1>6
<1>9. \A i \in 0 .. n : c[i] \in Accs
  <2>1. ASSUME NEW i \in Nat, i < n, c[i] \in Accs PROVE c[i + 1] \in Accs
    <3>1. i + 1 \in 1 .. n
      BY <2>1
    <3> QED BY <3>1, <2>1, <1>1, <1>8
  <2>2. c[0] \in Accs
    BY <1>2, <1>8
  <2> QED BY <2>1, <2>2, RunStays
<1>10. c \in [0 .. n -> Accs]
  BY <1>6, <1>9
<1>11. \A i \in Nat : i < n => c[i + 1] = DB!Fill(c[i], DB!Bucket(pairs[i + 1].key), i)
  <2>1. \A i \in Nat : (i + 1) - 1 = i
    OBVIOUS
  <2> QED BY <2>1, <1>8 DEF term
<1> QED BY <1>7, <1>8, <1>10, <1>11 DEF base

\* The finished table counts the pairs below each bucket.
LEMMA LutCounts ==
  ASSUME NEW pairs, NEW n \in Nat, DOMAIN pairs = 1 .. n, Len(pairs) = n,
         NEW bucket, bucket = [i \in 1 .. n |-> DB!Bucket(pairs[i].key)], Rising(bucket, n)
  PROVE  \A b \in 0 .. DB!Buckets : Below(DB!create_lut(pairs)[b], b, bucket, n)
<1>1. /\ DB!Buckets \in Nat /\ bucket \in [1 .. n -> 0 .. DB!Buckets]
      /\ \A i \in 1 .. n : DB!Bucket(pairs[i].key) = bucket[i]
      /\ \A i, j \in 1 .. n : i < j => bucket[i] <= bucket[j]
  BY DEF Rising
<1>2. \A i \in 1 .. n : DB!Bucket(pairs[i].key) \in 0 .. DB!Buckets
  BY <1>1
<1>3. PICK filled \in [0 .. n -> Accs] :
        /\ filled[0] = [lut |-> [b \in 0 .. DB!Buckets |-> 0], at |-> 0]
        /\ \A i \in Nat : i < n =>
             filled[i + 1] = DB!Fill(filled[i], DB!Bucket(pairs[i + 1].key), i)
        /\ DB!create_lut(pairs) = DB!Fill(filled[n], DB!Buckets, n).lut
  BY <1>1, <1>2, LutRun
<1> DEFINE M == {i \in Nat : i <= n => LutUpTo(filled[i], i, bucket, n)}
<1>4. 0 \in M
  <2>1. filled[0].at = 0 /\ \A b \in 0 .. DB!Buckets : filled[0].lut[b] = 0
    BY <1>3
  <2>2. Below(0, 0, bucket, n)
    BY <1>1 DEF Below
  <2>3. \A b \in 0 .. DB!Buckets : b <= 0 => b = 0
    OBVIOUS
  <2> QED BY <2>1, <2>2, <2>3 DEF LutUpTo
<1>5. ASSUME NEW i \in M PROVE i + 1 \in M
  <2>1. SUFFICES ASSUME i + 1 <= n PROVE LutUpTo(filled[i + 1], i + 1, bucket, n)
    OBVIOUS
  <2>2. i \in Nat /\ i < n /\ i \in 0 .. n /\ i + 1 \in 1 .. n /\ LutUpTo(filled[i], i, bucket, n)
    BY <2>1
  <2>3. PICK acc \in Accs, to \in 0 .. DB!Buckets :
          acc = filled[i] /\ to = bucket[i + 1] /\ filled[i + 1] = DB!Fill(acc, to, i)
    BY <2>2, <1>1, <1>3
  <2>4. acc.at = (IF i = 0 THEN 0 ELSE bucket[i]) /\ acc.at \in 0 .. DB!Buckets
    BY <2>2, <2>3 DEF LutUpTo, Accs
  <2>5. filled[i + 1].at = to
    <3>1. filled[i + 1].at = IF acc.at < to THEN to ELSE acc.at
      BY <2>2, <2>3, FillType
    <3>2. acc.at <= to
      <4>1. i # 0 => i \in 1 .. n /\ bucket[i] <= bucket[i + 1]
        BY <2>2, <1>1
      <4> QED BY <4>1, <2>3, <2>4, <1>1
    <3> QED BY <3>1, <3>2, <2>4, <1>1
  <2>6. ASSUME NEW b \in 0 .. DB!Buckets, b <= to
        PROVE  Below(filled[i + 1].lut[b], b, bucket, n)
    BY <2>2, <2>3, <2>6, FillRight
  <2> QED BY <2>2, <2>3, <2>5, <2>6 DEF LutUpTo
<1>6. n \in M
  <2>1. M \in SUBSET Nat
    OBVIOUS
  <2> HIDE DEF M
  <2> QED BY <1>4, <1>5, <2>1, Counting
<1>7. ASSUME NEW b \in 0 .. DB!Buckets
      PROVE  Below(DB!create_lut(pairs)[b], b, bucket, n)
  <2>1. PICK acc \in Accs : acc = filled[n]
    OBVIOUS
  <2>2. LutUpTo(acc, n, bucket, n) /\ n \in 0 .. n /\ DB!Buckets \in 0 .. DB!Buckets
    BY <1>1, <1>6, <2>1
  <2>3. b <= DB!Buckets
    BY <1>1
  <2>4. Below(DB!Fill(acc, DB!Buckets, n).lut[b], b, bucket, n)
    BY <2>2, <2>3, FillRight
  <2> QED BY <2>1, <2>4, <1>3
<1> QED BY <1>7

\* Between the entries of its bucket and the next lie all pairs of a key, so the search
\* finds one if there is one.
LEMMA FoundThere ==
  ASSUME NEW keys, NEW patterns, NEW n, NEW P, IsTable(keys, patterns, n, P),
         KEYS \in Nat \ {0}, PER_BUCKET \in Nat \ {0},
         NEW pairs, pairs = DB!Pairs(keys, patterns),
         NEW a, a = DB!a1(keys, patterns),
         NEW lut, lut = DB!create_lut(a), NEW key \in 0 .. KEYS - 1
  PROVE  {i \in lut[DB!Bucket(key)] + 1 .. lut[DB!Bucket(key) + 1] : a[i].key = key}
           = {i \in 1 .. n : a[i].key = key}
<1>1. n \in Nat /\ \A k \in 1 .. n : pairs[k].key = keys[k] /\ keys[k] \in 0 .. KEYS - 1
  BY PairFacts
<1>2. IsSorted(a, pairs, n)
  BY SortedPairs
<1>3. ASSUME NEW i \in 1 .. n PROVE a[i].key \in 0 .. KEYS - 1
  <2>1. PICK k \in 1 .. n : a[i] = pairs[k]
    BY <1>2 DEF IsSorted
  <2> QED BY <2>1, <1>1
<1>4. DB!Buckets \in Nat /\ DB!Bucket(key) \in 0 .. DB!Buckets
      /\ DB!Bucket(key) + 1 \in 0 .. DB!Buckets
  BY BucketRange
<1>5. PICK bucket : bucket = [i \in 1 .. n |-> DB!Bucket(a[i].key)]
  OBVIOUS
<1>6. Rising(bucket, n)
  <2>1. ASSUME NEW i \in 1 .. n PROVE bucket[i] \in 0 .. DB!Buckets
    <3>1. DB!Bucket(a[i].key) \in 0 .. DB!Buckets
      BY <1>3, BucketRange
    <3> QED BY <3>1, <1>5
  <2>2. ASSUME NEW i \in 1 .. n, NEW j \in 1 .. n, i < j PROVE bucket[i] <= bucket[j]
    <3>1. a[i].key \in Nat /\ a[j].key \in Nat /\ a[i].key < a[j].key
      <4>1. a[i].key < a[j].key
        BY <2>2, <1>2, Zenon DEF IsSorted
      <4> QED BY <4>1, <1>3
    <3>2. DB!Bucket(a[i].key) <= DB!Bucket(a[j].key)
      BY <3>1, BucketRises
    <3> QED BY <3>2, <1>5
  <2> QED BY <2>1, <2>2, <1>1, <1>4, <1>5 DEF Rising
<1>7. DOMAIN a = 1 .. n /\ Len(a) = n
  <2>1. a = [i \in 1 .. n |-> a[i]]
    BY <1>2, Zenon DEF IsSorted
  <2> QED BY <2>1, <1>1
<1>8. \A b \in 0 .. DB!Buckets : Below(lut[b], b, bucket, n)
  BY <1>1, <1>5, <1>6, <1>7, LutCounts
<1>9. PICK k \in Nat : k = DB!Bucket(key) /\ k \in 0 .. DB!Buckets /\ k + 1 \in 0 .. DB!Buckets
  BY <1>4
<1>10. Below(lut[k], k, bucket, n) /\ Below(lut[k + 1], k + 1, bucket, n)
  BY <1>8, <1>9
<1>11. PICK lo \in 0 .. n, hi \in 0 .. n : lo = lut[k] /\ hi = lut[k + 1]
  BY <1>10 DEF Below
<1>12. \A j \in 1 .. n : (j <= lo <=> bucket[j] < k) /\ (j <= hi <=> bucket[j] < k + 1)
  BY <1>10, <1>11 DEF Below
<1>13. ASSUME NEW i \in 1 .. n, a[i].key = key PROVE i \in lo + 1 .. hi
  <2>1. bucket[i] = k
    BY <1>5, <1>9, <1>13
  <2> QED BY <2>1, <1>1, <1>9, <1>12
<1>14. ASSUME NEW i \in lo + 1 .. hi PROVE i \in 1 .. n
  BY <1>1
<1>15. {i \in lo + 1 .. hi : a[i].key = key} = {i \in 1 .. n : a[i].key = key}
  BY <1>13, <1>14
<1> QED BY <1>9, <1>11, <1>15

\* Each key of the table is found with its patterns, and every other with none.
THEOREM LookupFinds ==
  ASSUME NEW keys, NEW patterns, NEW n, NEW P, IsTable(keys, patterns, n, P),
         DB!TableConstants
  PROVE  DB!LookupExact(keys, patterns)
<1>1. /\ KEYS \in Nat \ {0} /\ PER_BUCKET \in Nat \ {0}
      /\ START_SPAN \in Nat \ {0} /\ LENGTH_SPAN \in Nat \ {0}
  BY DEF DB!TableConstants
<1>2. PICK pairs, flat, a :
        /\ pairs = DB!Pairs(keys, patterns) /\ flat = DB!flat_array(keys, patterns)
        /\ a = DB!a1(keys, patterns)
  OBVIOUS
<1>3. /\ n \in Nat /\ DOMAIN pairs = 1 .. n
      /\ \A k \in 1 .. n :
           /\ pairs[k].key = keys[k] /\ keys[k] \in 0 .. KEYS - 1
           /\ pairs[k].offset = DB!Packed(Len(flat[k - 1]), Len(patterns[keys[k]]))
  BY <1>2, PairFacts
<1>4. IsSorted(a, pairs, n)
  BY <1>2, SortedPairs
<1>5. flat \in [0 .. n -> Seq(P)] /\ Len(keys) = n /\ DOMAIN keys = 1 .. n
  <2>1. flat \in [0 .. n -> Seq(P)]
    BY <1>2, FlatRun
  <2>2. Len(keys) = n /\ DOMAIN keys = 1 .. n
    BY LenProperties DEF IsTable
  <2> QED BY <2>1, <2>2
<1> DEFINE known == {keys[k] : k \in 1 .. n}
           fits == \A k \in 1 .. n :
                     Len(flat[k - 1]) < START_SPAN /\ Len(patterns[keys[k]]) < LENGTH_SPAN
<1>6. ASSUME fits, NEW key \in 0 .. KEYS - 1
      PROVE  DB!Lookup(a, flat[n], key) = IF key \in known THEN patterns[key] ELSE << >>
  <2> DEFINE lut == DB!create_lut(a)
             found == {i \in lut[DB!Bucket(key)] + 1 .. lut[DB!Bucket(key) + 1] :
                         a[i].key = key}
             info == a[CHOOSE i \in found : TRUE].offset
             start == info \div LENGTH_SPAN
             length == info % LENGTH_SPAN
  <2>1. DB!Lookup(a, flat[n], key)
          = IF found = {} THEN << >>
            ELSE SubSeq(flat[n], start + 1,
                        IF start + length <= Len(flat[n]) THEN start + length
                        ELSE Len(flat[n]))
    BY DEF DB!Lookup
  <2>2. found = {i \in 1 .. n : a[i].key = key}
    BY <1>1, <1>2, FoundThere
  <2> HIDE DEF found
  <2>3. CASE key \notin known
    <3>1. ASSUME NEW i \in 1 .. n PROVE a[i].key # key
      <4>1. PICK k \in 1 .. n : a[i] = pairs[k]
        BY <1>4 DEF IsSorted
      <4> QED BY <4>1, <1>3, <2>3
    <3>2. found = {}
      BY <3>1, <2>2
    <3> QED BY <3>2, <2>1, <2>3
  <2>4. CASE key \in known
    <3>1. PICK k \in 1 .. n : keys[k] = key
      BY <2>4
    <3>2. found # {}
      <4>1. PICK i \in 1 .. n : a[i] = pairs[k]
        BY <1>4 DEF IsSorted
      <4> QED BY <4>1, <3>1, <1>3, <2>2
    <3>3. PICK i \in 1 .. n : a[i].key = key /\ info = a[i].offset
      <4>1. (CHOOSE i \in found : TRUE) \in found
        BY <3>2
      <4>2. PICK f \in found : f = CHOOSE i \in found : TRUE
        BY <4>1
      <4>3. f \in 1 .. n /\ a[f].key = key
        BY <2>2
      <4> QED BY <4>2, <4>3
    <3>4. a[i] = pairs[k]
      <4>1. PICK l \in 1 .. n : a[i] = pairs[l]
        BY <1>4 DEF IsSorted
      <4>2. keys[l] = keys[k]
        BY <4>1, <3>1, <3>3, <1>3
      <4>3. l = k
        BY <4>2 DEF IsTable
      <4> QED BY <4>1, <4>3
    <3>5. PICK s \in Nat, m \in Nat, p \in Seq(P) :
            /\ s = Len(flat[k - 1]) /\ p = patterns[key] /\ m = Len(p)
            /\ s < START_SPAN /\ m < LENGTH_SPAN
      <4>1. k - 1 \in 0 .. n
        BY <1>3
      <4>2. flat[k - 1] \in Seq(P) /\ patterns[keys[k]] \in Seq(P)
        BY <4>1, <1>5 DEF IsTable
      <4>3. Len(flat[k - 1]) < START_SPAN /\ Len(patterns[keys[k]]) < LENGTH_SPAN
        BY <1>6
      <4>4. Len(flat[k - 1]) \in Nat /\ Len(patterns[keys[k]]) \in Nat
        BY <4>2, LenProperties
      <4> QED BY <4>2, <4>3, <4>4, <3>1
    <3>6. info = DB!Packed(s, m)
      BY <3>1, <3>3, <3>4, <3>5, <1>3
    <3>7. start = s /\ length = m
      BY <3>5, <3>6, <1>1, OffsetBack
    <3>8. s + m <= Len(flat[n]) /\ SubSeq(flat[n], s + 1, s + m) = p
      <4>1. p = patterns[keys[k]]
        BY <3>1, <3>5
      <4>2. Holds(flat[n], flat[k - 1], p)
        BY <4>1, <1>2, FlatHolds
      <4> QED BY <4>2, <3>5 DEF Holds
    <3> HIDE DEF start, length
    <3>9. DB!Lookup(a, flat[n], key) = p
      BY <3>2, <3>7, <3>8, <2>1
    <3> QED BY <3>5, <3>9, <2>4
  <2> QED BY <2>3, <2>4
<1>7. fits => \A key \in 0 .. KEYS - 1 :
        DB!Lookup(a, flat[n], key) = IF key \in known THEN patterns[key] ELSE << >>
  BY <1>6
<1>8. DB!LookupExact(keys, patterns)
        <=> (fits => \A key \in 0 .. KEYS - 1 :
               DB!Lookup(a, flat[n], key) = IF key \in known THEN patterns[key] ELSE << >>)
  BY <1>2, <1>5, Zenon DEF DB!LookupExact
<1> QED BY <1>7, <1>8

\* An algorithm is given one of its inputs.
InputInv == input = << >> \/ \E i \in Inputs(focus) : input = <<i>>

\* The tables that TLC checks are tables.
LEMMA TablesTyped ==
  ASSUME NEW i \in Tables
  PROVE  \E keys, patterns, n, P : i = <<keys, patterns>> /\ IsTable(keys, patterns, n, P)
<1>1. PICK keys \in KeyOrders, n \in [0 .. KEYS - 1 -> 1 .. 2] :
        i = <<keys, Patterns(keys, n)>>
  BY DEF Tables
<1>2. PICK size \in 0 .. 5 : keys \in [1 .. size -> 0 .. KEYS - 1] /\ Injective(keys)
  BY DEF KeyOrders
<1>3. PICK patterns : patterns = Patterns(keys, n)
  OBVIOUS
<1>4. ASSUME NEW j \in 1 .. size PROVE patterns[keys[j]] \in Seq(Int \X Int)
  <2>1. PICK k \in 0 .. KEYS - 1 : k = keys[j]
    BY <1>2
  <2>2. PICK t : t = <<<<k, 1>>, <<k, 2>>>>
    OBVIOUS
  <2>3. t \in Seq(Int \X Int) /\ Len(t) = 2
    BY <2>2
  <2>4. n[k] \in 1 .. 2
    OBVIOUS
  <2>5. SubSeq(t, 1, n[k]) \in Seq(Int \X Int)
    <3>1. PICK m \in 1 .. 2 : m = n[k]
      BY <2>4
    <3>2. 1 \in Int /\ m \in Int /\ \A x \in 1 .. m : t[x] \in Int \X Int
      BY <2>2
    <3>3. SubSeq(t, 1, m) \in Seq(Int \X Int)
      BY <3>2, SubSeqProperties
    <3> QED BY <3>1, <3>3
  <2>6. patterns[k] = SubSeq(t, 1, n[k])
    BY <1>2, <1>3, <2>1, <2>2 DEF Patterns
  <2> QED BY <2>1, <2>5, <2>6
<1>5. IsTable(keys, patterns, size, Int \X Int)
  BY <1>2, <1>4 DEF IsTable, Injective
<1> QED BY <1>1, <1>3, <1>5

LEMMA InputsExact ==
  ASSUME DB!TableConstants, InputInv
  PROVE  /\ Given("table") => DB!LookupExact(input[1][1], input[1][2])
         /\ Given("fields") => DB!FieldsSurvive(input[1])
         /\ Given("sort") => DB!NetworkSorts(input[1])
<1>1. ASSUME Given("table") PROVE DB!LookupExact(input[1][1], input[1][2])
  <2>1. PICK i \in Tables : input = <<i>>
    BY <1>1 DEF InputInv, Given, Inputs
  <2>2. PICK keys, patterns, n, P : i = <<keys, patterns>> /\ IsTable(keys, patterns, n, P)
    BY TablesTyped
  <2>3. DB!LookupExact(keys, patterns)
    BY <2>2, LookupFinds
  <2>4. input[1][1] = keys /\ input[1][2] = patterns
    BY <2>1, <2>2
  <2> QED BY <2>3, <2>4
<1>2. ASSUME Given("fields") PROVE DB!FieldsSurvive(input[1])
  <2>1. PICK i \in [1 .. 6 -> 1 - FIXED .. FIXED - 1] : input = <<i>>
    BY <1>2 DEF InputInv, Given, Inputs
  <2>2. FIXED \in Nat \ {0}
    BY DEF DB!TableConstants
  <2>3. i \in [1 .. 6 -> - FIXED .. FIXED - 1]
    BY <2>2
  <2>4. DB!FieldsSurvive(i)
    BY <2>2, <2>3, FieldsRoundTrip
  <2>5. input[1] = i
    BY <2>1
  <2> QED BY <2>4, <2>5
<1>3. ASSUME Given("sort") PROVE DB!NetworkSorts(input[1])
  <2>1. PICK i \in [0 .. 5 -> 1 .. 3] : input = <<i>>
    BY <1>3 DEF InputInv, Given, Inputs
  <2>2. i \in [0 .. 5 -> Int]
    OBVIOUS
  <2>3. DB!NetworkSorts(i)
    BY <2>2, NetworkIsSort
  <2>4. input[1] = i
    BY <2>1
  <2> QED BY <2>3, <2>4
<1> QED BY <1>1, <1>2, <1>3

LEMMA InputStep ==
  ASSUME InputInv, [MCNext]_<<focus, input, vars, dayNightVars, blobVars, voteVars>>
  PROVE  InputInv'
<1>1. CASE UNCHANGED <<focus, input>>
  <2>1. Inputs(focus)' = Inputs(focus)
    BY <1>1 DEF Inputs
  <2> QED BY <1>1, <2>1 DEF InputInv
<1>2. CASE UNCHANGED focus /\ Choose
  <2>1. PICK i \in Inputs(focus) : input' = <<i>>
    BY <1>2 DEF Choose
  <2>2. Inputs(focus)' = Inputs(focus)
    BY <1>2 DEF Inputs
  <2> QED BY <2>1, <2>2 DEF InputInv
<1> QED BY <1>1, <1>2 DEF MCNext

-----------------------------------------------------------------------------
(* Numbering a finite set in an order *)

\* before orders Q.
Orders(before, Q) ==
  /\ \A p, q \in Q : <<p, q>> \in before => <<q, p>> \notin before
  /\ \A p, q, r \in Q : <<p, q>> \in before /\ <<q, r>> \in before => <<p, r>> \in before
  /\ \A p, q \in Q : p = q \/ <<p, q>> \in before \/ <<q, p>> \in before

UpTo(before, Q, p) == {q \in Q : q = p \/ <<q, p>> \in before}

Ranked(rank, before, Q) == rank = [p \in Q |-> Cardinality(UpTo(before, Q, p))]

\* The places 1 to n are given out in that order.
Places1(rank, before, Q, n) ==
  /\ rank \in [Q -> 1 .. n]
  /\ \A p, q \in Q : rank[p] < rank[q] => <<p, q>> \in before
  /\ \A p, q \in Q : rank[p] = rank[q] => p = q
  /\ \A i \in 1 .. n : \E p \in Q : rank[p] = i

LEMMA RanksPlace ==
  ASSUME NEW Q, IsFiniteSet(Q), NEW before, Orders(before, Q), NEW n, n = Cardinality(Q),
         NEW rank, Ranked(rank, before, Q)
  PROVE  Places1(rank, before, Q, n)
<1>1. n \in Nat
  BY FS_CardinalityType
<1>2. IsFiniteSet(1 .. n) /\ Cardinality(1 .. n) = n
  <2>1. 1 \in Int /\ n \in Int
    BY <1>1
  <2>2. IsFiniteSet(1 .. n) /\ Cardinality(1 .. n) = IF 1 > n THEN 0 ELSE n - 1 + 1
    BY <2>1, FS_Interval
  <2> QED BY <2>2, <1>1
<1>3. ASSUME NEW p \in Q
      PROVE  /\ IsFiniteSet(UpTo(before, Q, p)) /\ Cardinality(UpTo(before, Q, p)) \in 1 .. n
             /\ p \in UpTo(before, Q, p) /\ rank[p] = Cardinality(UpTo(before, Q, p))
  <2>1. UpTo(before, Q, p) \in SUBSET Q /\ p \in UpTo(before, Q, p)
    BY DEF UpTo
  <2>2. rank[p] = Cardinality(UpTo(before, Q, p))
    BY DEF Ranked
  <2>3. IsFiniteSet(UpTo(before, Q, p)) /\ Cardinality(UpTo(before, Q, p)) <= n
    BY <2>1, FS_Subset
  <2>4. Cardinality(UpTo(before, Q, p)) \in Nat
    BY <2>3, FS_CardinalityType
  <2>5. Cardinality(UpTo(before, Q, p)) # 0
    BY <2>1, <2>3, FS_EmptySet
  <2> QED BY <2>1, <2>2, <2>3, <2>4, <2>5, <1>1
<1>4. ASSUME NEW p \in Q, NEW q \in Q, <<p, q>> \in before PROVE rank[p] < rank[q]
  <2>1. UpTo(before, Q, p) \in SUBSET UpTo(before, Q, q) /\ q \notin UpTo(before, Q, p)
    <3>1. p # q /\ <<q, p>> \notin before
      BY <1>4 DEF Orders
    <3>2. ASSUME NEW r \in UpTo(before, Q, p) PROVE r \in UpTo(before, Q, q)
      <4>1. r \in Q /\ (r = p \/ <<r, p>> \in before)
        BY <3>2 DEF UpTo
      <4>2. <<r, q>> \in before
        BY <4>1, <1>4 DEF Orders
      <4> QED BY <4>1, <4>2 DEF UpTo
    <3> QED BY <3>1, <3>2 DEF UpTo
  <2>2. Cardinality(UpTo(before, Q, p)) <= Cardinality(UpTo(before, Q, q))
        /\ (Cardinality(UpTo(before, Q, q)) = Cardinality(UpTo(before, Q, p))
              => UpTo(before, Q, q) = UpTo(before, Q, p))
    BY <2>1, <1>3, FS_Subset
  <2>3. UpTo(before, Q, q) # UpTo(before, Q, p)
    BY <2>1, <1>3
  <2>4. Cardinality(UpTo(before, Q, p)) \in 1 .. n /\ Cardinality(UpTo(before, Q, q)) \in 1 .. n
    BY <1>3
  <2>5. rank[p] = Cardinality(UpTo(before, Q, p)) /\ rank[q] = Cardinality(UpTo(before, Q, q))
    BY <1>3
  <2> QED BY <2>2, <2>3, <2>4, <2>5, <1>1
<1>5. rank \in [Q -> 1 .. n]
  <2>1. rank = [p \in Q |-> rank[p]]
    BY Zenon DEF Ranked
  <2> QED BY <2>1, <1>3
<1>6. ASSUME NEW p \in Q, NEW q \in Q
      PROVE  (rank[p] < rank[q] => <<p, q>> \in before) /\ (rank[p] = rank[q] => p = q)
  <2>1. p = q \/ <<p, q>> \in before \/ <<q, p>> \in before
    BY DEF Orders
  <2>2. rank[p] \in Nat /\ rank[q] \in Nat
    BY <1>1, <1>5
  <2>3. /\ <<p, q>> \in before => rank[p] < rank[q]
        /\ <<q, p>> \in before => rank[q] < rank[p]
    BY <1>4
  <2> QED BY <2>1, <2>2, <2>3
<1>7. rank \in Surjection(Q, 1 .. n)
  <2>1. rank \in Injection(Q, 1 .. n)
    BY <1>5, <1>6 DEF Injection, IsInjective
  <2> QED BY <2>1, <1>2, FS_Injection
<1> QED BY <1>5, <1>6, <1>7 DEF Surjection, Places1

-----------------------------------------------------------------------------
(* Blobs and tracks *)

LEMMA SameCountB == \A Q : B!Cardinality(Q) = Cardinality(Q)
BY DEF B!Cardinality, Cardinality

\* dist gives the distances of finitely many pairs.
IsDist(dist, Q) ==
  /\ IsFiniteSet(Q) /\ Q \in SUBSET (Int \X Int) /\ dist \in [Q -> Int]

LEMMA CloserOrders ==
  ASSUME NEW dist, NEW Q, IsDist(dist, Q),
         NEW before, before = {e \in Q \X Q : B!Closer(dist, e[1], e[2])}
  PROVE  Orders(before, Q)
<1>1. Q \in SUBSET (Int \X Int) /\ dist \in [Q -> Int]
  BY DEF IsDist
<1>2. ASSUME NEW p \in Q
      PROVE  p = <<p[1], p[2]>> /\ p[1] \in Int /\ p[2] \in Int /\ dist[p] \in Int
  BY <1>1
<1>3. ASSUME NEW p \in Q, NEW q \in Q
      PROVE  <<p, q>> \in before <=>
               \/ dist[p] < dist[q]
               \/ dist[p] = dist[q] /\ (p[1] < q[1] \/ (p[1] = q[1] /\ p[2] < q[2]))
  BY DEF B!Closer, B!ByTrack
<1>4. \A p, q \in Q : <<p, q>> \in before => <<q, p>> \notin before
  BY <1>2, <1>3
<1>5. ASSUME NEW p \in Q, NEW q \in Q, NEW r \in Q, <<p, q>> \in before, <<q, r>> \in before
      PROVE  <<p, r>> \in before
  BY <1>2, <1>3, <1>5
<1>6. ASSUME NEW p \in Q, NEW q \in Q, p # q PROVE <<p, q>> \in before \/ <<q, p>> \in before
  <2>1. p[1] # q[1] \/ p[2] # q[2]
    BY <1>2, <1>6
  <2> QED BY <2>1, <1>2, <1>3
<1> QED BY <1>4, <1>5, <1>6 DEF Orders

\* The candidates one after the other, in the order of rank.
Ordered(cand, rank, Q, n) ==
  /\ cand \in [1 .. n -> Q]
  /\ \A p \in Q : rank[p] \in 1 .. n /\ cand[rank[p]] = p
  /\ \A i \in 1 .. n : rank[cand[i]] = i

\* The candidates that are taken after each of them was looked at.
Takes(matched, cand, Q, n) ==
  /\ matched \in [0 .. n -> SUBSET Q] /\ matched[0] = {}
  /\ \A i \in Nat : i < n => matched[i + 1] = B!Taken(matched[i], cand[i + 1])

LEMMA CandidatesExist ==
  ASSUME NEW dist, NEW Q, IsDist(dist, Q)
  PROVE  \E n \in Nat : \E rank, cand :
           /\ n = B!Cardinality(Q) /\ Ordered(cand, rank, Q, n)
           /\ \A i \in 1 .. n :
                cand[i] = CHOOSE p \in Q :
                            B!Cardinality({q \in Q : q = p \/ B!Closer(dist, q, p)}) = i
           /\ \A p, q \in Q : rank[q] < rank[p] => dist[q] <= dist[p]
<1> DEFINE before == {e \in Q \X Q : B!Closer(dist, e[1], e[2])}
           n == Cardinality(Q)
           rank == [p \in Q |-> Cardinality(UpTo(before, Q, p))]
           cand == [i \in 1 .. n |-> CHOOSE p \in Q : rank[p] = i]
<1>1. Orders(before, Q)
  BY CloserOrders
<1>2. IsFiniteSet(Q) /\ n \in Nat
  BY FS_CardinalityType DEF IsDist
<1>3. Places1(rank, before, Q, n)
  <2>1. Ranked(rank, before, Q)
    BY DEF Ranked
  <2> HIDE DEF before, rank
  <2> QED BY <1>1, <1>2, <2>1, RanksPlace
<1>4. ASSUME NEW p \in Q
      PROVE  B!Cardinality({q \in Q : q = p \/ B!Closer(dist, q, p)}) = rank[p]
  <2>1. {q \in Q : q = p \/ B!Closer(dist, q, p)} = UpTo(before, Q, p)
    BY DEF UpTo
  <2> QED BY <2>1, SameCountB
<1>5. \A p, q \in Q : <<q, p>> \in before => dist[q] <= dist[p]
  <2>1. \A p \in Q : dist[p] \in Int
    BY DEF IsDist
  <2> QED BY <2>1 DEF B!Closer
<1>6. ASSUME NEW i \in 1 .. n
      PROVE  cand[i] = CHOOSE p \in Q :
                         B!Cardinality({q \in Q : q = p \/ B!Closer(dist, q, p)}) = i
  <2> DEFINE r == rank
  <2>1. cand[i] = CHOOSE p \in Q : r[p] = i
    OBVIOUS
  <2>2. \A p \in Q : B!Cardinality({q \in Q : q = p \/ B!Closer(dist, q, p)}) = r[p]
    BY <1>4
  <2> HIDE DEF r, cand
  <2> QED BY <2>1, <2>2, Zenon
<1> HIDE DEF before, rank
<1>7. Ordered(cand, rank, Q, n)
  <2>1. ASSUME NEW i \in 1 .. n PROVE cand[i] \in Q /\ rank[cand[i]] = i
    BY <1>3 DEF Places1
  <2>2. cand \in [1 .. n -> Q]
    BY <2>1
  <2>3. ASSUME NEW p \in Q PROVE rank[p] \in 1 .. n
    BY <1>3 DEF Places1
  <2>4. ASSUME NEW p \in Q PROVE cand[rank[p]] = p
    <3>1. cand[rank[p]] \in Q /\ rank[cand[rank[p]]] = rank[p]
      BY <2>1, <2>3
    <3> HIDE DEF cand
    <3> QED BY <3>1, <1>3 DEF Places1
  <2> QED BY <2>1, <2>2, <2>3, <2>4 DEF Ordered
<1>8. \A p, q \in Q : rank[q] < rank[p] => dist[q] <= dist[p]
  BY <1>3, <1>5 DEF Places1
<1> HIDE DEF cand, n
<1>9. n = B!Cardinality(Q)
  BY SameCountB DEF n
<1> QED BY <1>2, <1>6, <1>7, <1>8, <1>9

LEMMA AssociateTakes ==
  ASSUME NEW dist, NEW Q, IsDist(dist, Q)
  PROVE  \E n \in Nat : \E rank, cand, matched :
           /\ Ordered(cand, rank, Q, n) /\ Takes(matched, cand, Q, n)
           /\ \A p, q \in Q : rank[q] < rank[p] => dist[q] <= dist[p]
           /\ B!associate(dist) = matched[n]
<1>1. DOMAIN dist = Q
  BY DEF IsDist
<1>2. PICK n, rank, cand :
        /\ n \in Nat
        /\ n = B!Cardinality(Q) /\ Ordered(cand, rank, Q, n)
        /\ \A i \in 1 .. n :
             cand[i] = CHOOSE p \in Q :
                         B!Cardinality({q \in Q : q = p \/ B!Closer(dist, q, p)}) = i
        /\ \A p, q \in Q : rank[q] < rank[p] => dist[q] <= dist[p]
  BY CandidatesExist
<1> n \in Nat
  BY <1>2
<1> DEFINE term(i, v) ==
             B!Taken(v, CHOOSE p \in Q :
                          B!Cardinality({q \in Q : q = p \/ B!Closer(dist, q, p)}) = i)
           V == SUBSET Q
           step == [p \in Nat \X V |-> IF p[1] \in 1 .. n THEN term(p[1], p[2]) ELSE {}]
           c == CHOOSE f : f = [i \in 0 .. n |-> IF i = 0 THEN {} ELSE term(i, f[i - 1])]
<1>3. ASSUME NEW i \in 1 .. n, NEW v PROVE term(i, v) = B!Taken(v, cand[i])
  BY <1>2
<1>4. ASSUME NEW i \in 1 .. n, NEW v \in V PROVE term(i, v) \in V
  <2>1. cand[i] \in Q
    BY <1>2 DEF Ordered
  <2> HIDE DEF term
  <2> QED BY <2>1, <1>3 DEF B!Taken
<1>5. B!associate(dist) = c[n]
  BY <1>1, <1>2 DEF B!associate
<1> HIDE DEF term
<1>6. step \in [Nat \X V -> V]
  <2>1. {} \in V
    OBVIOUS
  <2> HIDE DEF V
  <2> QED BY <1>4, <2>1
<1>7. PICK g \in [0 .. n -> V] : Run(g, n, {}, step)
  <2>1. {} \in V
    OBVIOUS
  <2> HIDE DEF step, V
  <2> QED BY <1>6, <2>1, RunExists
<1>8. g = [i \in 0 .. n |-> IF i = 0 THEN {} ELSE term(i, g[i - 1])]
  <2>1. ASSUME NEW i \in 1 .. n PROVE g[i] = term(i, g[i - 1])
    <3>1. i - 1 \in Nat /\ i - 1 < n /\ (i - 1) + 1 = i /\ i - 1 \in 0 .. n /\ i \in Nat
      BY <2>1
    <3>2. g[i] = step[<<i, g[i - 1]>>]
      BY <3>1, <1>7 DEF Run
    <3> HIDE DEF V
    <3>3. g[i - 1] \in V
      BY <3>1, <1>7
    <3> QED BY <3>1, <3>2, <3>3
  <2> HIDE DEF step
  <2>2. g[0] = {} /\ g = [i \in 0 .. n |-> g[i]]
    BY <1>7 DEF Run
  <2>3. ASSUME NEW i \in 0 .. n PROVE g[i] = IF i = 0 THEN {} ELSE term(i, g[i - 1])
    <3>1. i # 0 => i \in 1 .. n
      OBVIOUS
    <3> QED BY <3>1, <2>1, <2>2
  <2> QED BY <2>2, <2>3, Zenon
<1>9. c = [i \in 0 .. n |-> IF i = 0 THEN {} ELSE term(i, c[i - 1])]
  BY <1>8
<1> HIDE DEF c, step
<1>10. c[0] = {} /\ \A i \in Nat : i < n => c[i + 1] = term(i + 1, c[i])
  <2>1. n \in Nat
    OBVIOUS
  <2>2. 0 \in 0 .. n /\ \A i \in Nat : i < n => i + 1 \in 0 .. n /\ i + 1 # 0 /\ (i + 1) - 1 = i
    BY <2>1
  <2>3. c[0] = {}
    BY <1>9, <2>2, Zenon
  <2>4. ASSUME NEW i \in Nat, i < n PROVE c[i + 1] = term(i + 1, c[i])
    <3>1. c[i + 1] = term(i + 1, c[(i + 1) - 1])
      BY <1>9, <2>2, <2>4, Zenon
    <3>2. (i + 1) - 1 = i
      OBVIOUS
    <3> QED BY <3>1, <3>2
  <2> QED BY <2>3, <2>4
<1>11. \A i \in 0 .. n : c[i] \in V
  <2>1. ASSUME NEW i \in Nat, i < n, c[i] \in V PROVE c[i + 1] \in V
    <3>1. i + 1 \in 1 .. n
      BY <2>1
    <3> HIDE DEF V
    <3> QED BY <3>1, <2>1, <1>4, <1>10
  <2>2. c[0] \in V
    BY <1>10
  <2> HIDE DEF V
  <2> QED BY <2>1, <2>2, RunStays
<1>12. c \in [0 .. n -> V]
  <2> HIDE DEF V
  <2> QED BY <1>9, <1>11
<1>13. \A i \in Nat : i < n => c[i + 1] = B!Taken(c[i], cand[i + 1])
  <2>1. ASSUME NEW i \in Nat, i < n PROVE c[i + 1] = B!Taken(c[i], cand[i + 1])
    <3>1. i + 1 \in 1 .. n
      BY <2>1
    <3> QED BY <3>1, <2>1, <1>3, <1>10
  <2> QED BY <2>1
<1>14. Takes(c, cand, Q, n)
  BY <1>10, <1>12, <1>13 DEF Takes
<1> QED BY <1>2, <1>5, <1>14

\* Every finite table of distances: the greedy association is one to one and stable.
THEOREM AssociationStable ==
  ASSUME NEW dist, NEW Q, IsDist(dist, Q)
  PROVE  B!StableMatching(dist)
<1>1. DOMAIN dist = Q
  BY DEF IsDist
<1>2. PICK n, rank, cand, matched :
        /\ n \in Nat
        /\ Ordered(cand, rank, Q, n) /\ Takes(matched, cand, Q, n)
        /\ \A p, q \in Q : rank[q] < rank[p] => dist[q] <= dist[p]
        /\ B!associate(dist) = matched[n]
  BY AssociateTakes
<1> n \in Nat
  BY <1>2
<1>3. ASSUME NEW i \in Nat, i < n
      PROVE  /\ matched[i + 1] = B!Taken(matched[i], cand[i + 1])
             /\ matched[i] \in SUBSET Q /\ matched[i + 1] \in SUBSET Q
             /\ cand[i + 1] \in Q /\ rank[cand[i + 1]] = i + 1
  <2>1. i + 1 \in 1 .. n /\ i \in 0 .. n /\ i + 1 \in 0 .. n
    BY <1>3
  <2> QED BY <2>1, <1>2, <1>3 DEF Ordered, Takes
<1> DEFINE One(m) == \A p, q \in m : p[1] = q[1] \/ p[2] = q[2] => p = q
           Met(m, p) == \E q \in m : (q[1] = p[1] \/ q[2] = p[2]) /\ rank[q] <= rank[p]
           Good(i) == /\ One(matched[i])
                      /\ \A p \in Q : rank[p] <= i => Met(matched[i], p)
                      /\ \A p \in matched[i] : rank[p] <= i
           M == {i \in Nat : i <= n => Good(i)}
<1>4. \A p \in Q : rank[p] \in 1 .. n
  BY <1>2 DEF Ordered
<1>5. 0 \in M
  <2>1. matched[0] = {}
    BY <1>2 DEF Takes
  <2> QED BY <2>1, <1>4
<1>6. ASSUME NEW i \in M PROVE i + 1 \in M
  <2>1. i \in Nat
    OBVIOUS
  <2>2. SUFFICES ASSUME i < n PROVE Good(i + 1)
    BY <2>1
  <2>3. Good(i)
    BY <2>1, <2>2
  <2> HIDE DEF M
  <2> DEFINE p == cand[i + 1]
             m == matched[i]
  <2>4. /\ matched[i + 1] = B!Taken(m, p) /\ m \in SUBSET Q
        /\ p \in Q /\ rank[p] = i + 1
    BY <2>1, <2>2, <1>3
  <2>5. ASSUME NEW q \in Q, rank[q] = i + 1 PROVE q = p
    BY <1>2, <2>4, <2>5 DEF Ordered
  <2>6. \A q \in Q : rank[q] <= i + 1 => rank[q] <= i \/ q = p
    BY <2>1, <2>5, <1>4
  <2>7. One(m) /\ (\A q \in Q : rank[q] <= i => Met(m, q)) /\ \A q \in m : rank[q] <= i
    BY <2>3
  <2> HIDE DEF p, m
  <2>8. m \in SUBSET matched[i + 1]
    BY <2>4 DEF B!Taken
  <2>9. One(matched[i + 1])
    BY <2>4, <2>7 DEF B!Taken
  <2>10. \A q \in matched[i + 1] : rank[q] <= i + 1
    <3>1. \A q \in matched[i + 1] : q \in m \/ q = p
      BY <2>4 DEF B!Taken
    <3>2. \A q \in m : rank[q] <= i + 1
      <4>1. \A q \in m : rank[q] \in Nat /\ rank[q] <= i
        BY <2>4, <2>7, <1>4
      <4> QED BY <4>1, <2>1
    <3> QED BY <3>1, <3>2, <2>1, <2>4
  <2>11. Met(matched[i + 1], p)
    <3>1. CASE p \in matched[i + 1]
      BY <3>1, <2>4, <2>1
    <3>2. CASE p \notin matched[i + 1]
      <4>1. PICK q \in m : q[1] = p[1] \/ q[2] = p[2]
        BY <3>2, <2>4 DEF B!Taken
      <4> QED BY <4>1, <2>4, <2>8, <2>10
    <3> QED BY <3>1, <3>2
  <2>12. ASSUME NEW q \in Q, rank[q] <= i PROVE Met(matched[i + 1], q)
    <3>1. Met(m, q)
      BY <2>7, <2>12
    <3> QED BY <3>1, <2>8
  <2> QED BY <2>6, <2>9, <2>10, <2>11, <2>12
<1>7. Good(n)
  <2>1. \A i \in Nat : i \in M
    <3>1. M \in SUBSET Nat
      OBVIOUS
    <3> HIDE DEF M
    <3> QED BY <1>5, <1>6, <3>1, Counting
  <2>2. n \in M
    BY <2>1
  <2> QED BY <2>2
<1>8. matched[n] \in SUBSET Q
  BY <1>2 DEF Takes
<1>9. \A p \in Q : \E q \in matched[n] : (q[1] = p[1] \/ q[2] = p[2]) /\ dist[q] <= dist[p]
  <2>1. ASSUME NEW p \in Q
        PROVE  \E q \in matched[n] : (q[1] = p[1] \/ q[2] = p[2]) /\ dist[q] <= dist[p]
    <3>1. rank[p] \in 1 .. n /\ dist[p] \in Int
      BY <1>4 DEF IsDist
    <3>2. PICK q \in matched[n] : (q[1] = p[1] \/ q[2] = p[2]) /\ rank[q] <= rank[p]
      BY <3>1, <1>7
    <3>3. q \in Q /\ rank[q] \in 1 .. n
      BY <1>4, <1>8
    <3>4. rank[q] = rank[p] => q = p
      BY <3>3, <1>2 DEF Ordered
    <3>5. dist[q] <= dist[p]
      BY <3>1, <3>2, <3>3, <3>4, <1>2
    <3> QED BY <3>2, <3>5
  <2> QED BY <2>1
<1>10. One(matched[n])
  BY <1>7
<1> QED BY <1>1, <1>2, <1>9, <1>10 DEF B!StableMatching

-----------------------------------------------------------------------------
(* What is reached in a finite graph *)

Closed(C, edges) == \A e \in edges : e[2] \in C => e[1] \in C

\* C is what is reached from p: the smallest closed set around it.
Reached(C, p, nodes, edges) ==
  /\ p \in C /\ C \in SUBSET nodes /\ Closed(C, edges)
  /\ \A R : p \in R /\ Closed(R, edges) => C \in SUBSET R

IsGraph(nodes, edges) ==
  /\ IsFiniteSet(nodes) /\ edges \in SUBSET (nodes \X nodes)
  /\ \A e \in edges : <<e[2], e[1]>> \in edges

LEMMA ReachedRun ==
  ASSUME NEW nodes, NEW edges, IsGraph(nodes, edges), NEW p \in nodes
  PROVE  \E n, g :
           /\ n \in Nat /\ g \in [0 .. n -> SUBSET nodes] /\ n = Cardinality(nodes)
           /\ B!Component(p, nodes, edges) = g[n]
           /\ g[0] = {p} /\ \A k \in Nat : k < n => g[k + 1] = B!Grown(g[k], edges)
<1>1. PICK n \in Nat : n = Cardinality(nodes)
  BY FS_CardinalityType DEF IsGraph
<1> DEFINE V == SUBSET nodes
           step == [x \in Nat \X V |-> B!Grown(x[2], edges)]
           c == CHOOSE f : f = [k \in 0 .. n |-> IF k = 0 THEN {p} ELSE B!Grown(f[k - 1], edges)]
<1>2. ASSUME NEW v \in V PROVE B!Grown(v, edges) \in V
  BY DEF B!Grown, IsGraph
<1>3. B!Component(p, nodes, edges) = c[n]
  BY <1>1, SameCountB DEF B!Component
<1>4. {p} \in V
  OBVIOUS
<1>5. step \in [Nat \X V -> V]
  <2> HIDE DEF V
  <2> QED BY <1>2
<1>6. PICK g \in [0 .. n -> V] : Run(g, n, {p}, step)
  <2> HIDE DEF step, V
  <2> QED BY <1>4, <1>5, RunExists
<1> HIDE DEF V
<1>7. g = [k \in 0 .. n |-> IF k = 0 THEN {p} ELSE B!Grown(g[k - 1], edges)]
  <2>1. ASSUME NEW k \in 1 .. n PROVE g[k] = B!Grown(g[k - 1], edges)
    <3>1. k - 1 \in Nat /\ k - 1 < n /\ (k - 1) + 1 = k /\ k - 1 \in 0 .. n /\ k \in Nat
      BY <2>1
    <3>2. g[k] = step[<<k, g[k - 1]>>]
      BY <3>1, <1>6 DEF Run
    <3>3. g[k - 1] \in V
      BY <3>1, <1>6
    <3> QED BY <3>1, <3>2, <3>3
  <2> HIDE DEF step
  <2>2. g[0] = {p} /\ g = [k \in 0 .. n |-> g[k]]
    BY <1>6 DEF Run
  <2>3. ASSUME NEW k \in 0 .. n PROVE g[k] = IF k = 0 THEN {p} ELSE B!Grown(g[k - 1], edges)
    <3>1. k # 0 => k \in 1 .. n
      OBVIOUS
    <3> QED BY <3>1, <2>1, <2>2
  <2> QED BY <2>2, <2>3, Zenon
<1>8. c = [k \in 0 .. n |-> IF k = 0 THEN {p} ELSE B!Grown(c[k - 1], edges)]
  BY <1>7
<1> HIDE DEF c, step
<1>9. c[0] = {p} /\ \A k \in Nat : k < n => c[k + 1] = B!Grown(c[k], edges)
  <2>1. 0 \in 0 .. n /\ \A k \in Nat : k < n => k + 1 \in 0 .. n /\ k + 1 # 0 /\ (k + 1) - 1 = k
    OBVIOUS
  <2>2. c[0] = {p}
    BY <1>8, <2>1, Zenon
  <2>3. ASSUME NEW k \in Nat, k < n PROVE c[k + 1] = B!Grown(c[k], edges)
    <3>1. c[k + 1] = B!Grown(c[(k + 1) - 1], edges)
      BY <1>8, <2>1, <2>3, Zenon
    <3> QED BY <3>1, <2>1, <2>3
  <2> QED BY <2>2, <2>3
<1>10. \A k \in 0 .. n : c[k] \in V
  <2>1. ASSUME NEW k \in Nat, k < n, c[k] \in V PROVE c[k + 1] \in V
    BY <2>1, <1>2, <1>9
  <2>2. c[0] \in V
    BY <1>4, <1>9
  <2> QED BY <2>1, <2>2, RunStays
<1>11. c \in [0 .. n -> V]
  BY <1>8, <1>10
<1> QED BY <1>1, <1>3, <1>9, <1>11 DEF V

LEMMA ComponentIsReached ==
  ASSUME NEW nodes, NEW edges, IsGraph(nodes, edges), NEW p \in nodes
  PROVE  Reached(B!Component(p, nodes, edges), p, nodes, edges)
<1>1. PICK m, g :
        /\ m \in Nat /\ g \in [0 .. m -> SUBSET nodes] /\ m = Cardinality(nodes)
        /\ B!Component(p, nodes, edges) = g[m]
        /\ g[0] = {p} /\ \A k \in Nat : k < m => g[k + 1] = B!Grown(g[k], edges)
  BY ReachedRun
<1> PICK n \in Nat : n = m
  BY <1>1
<1>2. g \in [0 .. n -> SUBSET nodes] /\ n = Cardinality(nodes)
      /\ B!Component(p, nodes, edges) = g[n]
      /\ g[0] = {p} /\ \A k \in Nat : k < n => g[k + 1] = B!Grown(g[k], edges)
  BY <1>1
<1>3. ASSUME NEW k \in 0 .. n
      PROVE  /\ g[k] \in SUBSET nodes /\ IsFiniteSet(g[k])
             /\ Cardinality(g[k]) \in Nat /\ Cardinality(g[k]) <= n
  <2>1. g[k] \in SUBSET nodes /\ IsFiniteSet(nodes)
    BY <1>2 DEF IsGraph
  <2>2. IsFiniteSet(g[k]) /\ Cardinality(g[k]) <= n
    BY <2>1, <1>2, FS_Subset
  <2> QED BY <2>1, <2>2, FS_CardinalityType
<1>4. ASSUME NEW k \in Nat, k < n
      PROVE  /\ g[k] \in SUBSET g[k + 1]
             /\ Closed(g[k], edges) => g[k + 1] = g[k]
             /\ ~Closed(g[k], edges) => g[k + 1] # g[k]
             /\ \A R : g[k] \in SUBSET R /\ Closed(R, edges) => g[k + 1] \in SUBSET R
  <2>1. g[k + 1] = B!Grown(g[k], edges)
    BY <1>2, <1>4
  <2>2. B!Grown(g[k], edges) = g[k] \cup {e[1] : e \in {f \in edges : f[2] \in g[k]}}
    BY DEF B!Grown
  <2>3. g[k] \in SUBSET g[k + 1]
    BY <2>1, <2>2
  <2>4. \A x \in g[k + 1] : x \in g[k] \/ \E e \in edges : e[2] \in g[k] /\ x = e[1]
    BY <2>1, <2>2
  <2>5. \A e \in edges : e[2] \in g[k] => e[1] \in g[k + 1]
    BY <2>1, <2>2
  <2>6. Closed(g[k], edges) => g[k + 1] = g[k]
    BY <2>3, <2>4 DEF Closed
  <2>7. ~Closed(g[k], edges) => g[k + 1] # g[k]
    BY <2>5 DEF Closed
  <2>8. \A R : g[k] \in SUBSET R /\ Closed(R, edges) => g[k + 1] \in SUBSET R
    BY <2>4 DEF Closed
  <2> QED BY <2>3, <2>6, <2>7, <2>8
<1> DEFINE Good(k) ==
             /\ p \in g[k] /\ (Closed(g[k], edges) \/ Cardinality(g[k]) >= k + 1)
             /\ \A R : p \in R /\ Closed(R, edges) => g[k] \in SUBSET R
           M == {k \in Nat : k <= n => Good(k)}
<1>5. 0 \in M
  <2>1. g[0] = {p} /\ Cardinality({p}) = 1
    BY <1>2, FS_Singleton
  <2> QED BY <2>1
<1>6. ASSUME NEW k \in M PROVE k + 1 \in M
  <2>1. k \in Nat
    OBVIOUS
  <2>2. SUFFICES ASSUME k < n PROVE Good(k + 1)
    BY <2>1
  <2>3. Good(k)
    BY <2>1, <2>2
  <2> HIDE DEF M
  <2>4. /\ g[k] \in SUBSET g[k + 1]
        /\ Closed(g[k], edges) => g[k + 1] = g[k]
        /\ ~Closed(g[k], edges) => g[k + 1] # g[k]
        /\ \A R : g[k] \in SUBSET R /\ Closed(R, edges) => g[k + 1] \in SUBSET R
    BY <2>1, <2>2, <1>4
  <2>5. p \in g[k + 1]
    BY <2>3, <2>4
  <2>6. Closed(g[k + 1], edges) \/ Cardinality(g[k + 1]) >= k + 2
    <3>1. SUFFICES ASSUME ~Closed(g[k + 1], edges) PROVE Cardinality(g[k + 1]) >= k + 2
      OBVIOUS
    <3>2. ~Closed(g[k], edges)
      BY <3>1, <2>4
    <3>3. Cardinality(g[k]) >= k + 1 /\ g[k + 1] # g[k]
      BY <3>2, <2>3, <2>4
    <3>4. k \in 0 .. n /\ k + 1 \in 0 .. n
      BY <2>1, <2>2
    <3>5. /\ IsFiniteSet(g[k + 1]) /\ Cardinality(g[k + 1]) \in Nat /\ Cardinality(g[k]) \in Nat
      BY <3>4, <1>3
    <3>6. /\ Cardinality(g[k]) <= Cardinality(g[k + 1])
          /\ Cardinality(g[k + 1]) = Cardinality(g[k]) => g[k + 1] = g[k]
      BY <2>4, <3>5, FS_Subset
    <3> QED BY <3>3, <3>5, <3>6, <2>1
  <2>7. \A R : p \in R /\ Closed(R, edges) => g[k + 1] \in SUBSET R
    BY <2>3, <2>4
  <2>8. (k + 1) + 1 = k + 2
    BY <2>1
  <2> QED BY <2>5, <2>6, <2>7, <2>8
<1>7. Good(n)
  <2>1. \A i \in Nat : i \in M
    <3>1. M \in SUBSET Nat
      OBVIOUS
    <3> HIDE DEF M
    <3> QED BY <1>5, <1>6, <3>1, Counting
  <2>2. n \in M
    BY <2>1
  <2> QED BY <2>2
<1>8. n \in 0 .. n
  OBVIOUS
<1>9. Closed(g[n], edges) /\ g[n] \in SUBSET nodes
  <2>1. Cardinality(g[n]) \in Nat /\ Cardinality(g[n]) <= n /\ g[n] \in SUBSET nodes
    BY <1>3, <1>8
  <2>2. Closed(g[n], edges) \/ Cardinality(g[n]) >= n + 1
    BY <1>7
  <2> QED BY <2>1, <2>2
<1> QED BY <1>2, <1>7, <1>9 DEF Reached

\* What is reached from a point of it is the same.
LEMMA SameReached ==
  ASSUME NEW nodes, NEW edges, IsGraph(nodes, edges), NEW p \in nodes,
         NEW q \in B!Component(p, nodes, edges)
  PROVE  /\ q \in nodes /\ p \in B!Component(q, nodes, edges)
         /\ B!Component(q, nodes, edges) = B!Component(p, nodes, edges)
<1> PICK comp : comp = [r \in nodes |-> B!Component(r, nodes, edges)]
  OBVIOUS
<1>9. q \in comp[p]
  OBVIOUS
<1>1. \A r \in nodes : Reached(comp[r], r, nodes, edges)
  BY ComponentIsReached
<1>2. q \in nodes /\ \A r \in nodes : comp[r] \in SUBSET nodes
  BY <1>1, <1>9 DEF Reached
<1> DEFINE R == {r \in nodes : p \in comp[r]}
<1>3. p \in R
  BY <1>1 DEF Reached
<1>4. Closed(R, edges)
  <2>1. ASSUME NEW e \in edges, e[2] \in R PROVE e[1] \in R
    <3>1. e[1] \in nodes /\ e[2] \in nodes /\ <<e[2], e[1]>> \in edges
      BY DEF IsGraph
    <3>2. Reached(comp[e[1]], e[1], nodes, edges) /\ Reached(comp[e[2]], e[2], nodes, edges)
      BY <3>1, <1>1
    <3>3. \A f \in edges : f[2] \in comp[e[1]] => f[1] \in comp[e[1]]
      BY <3>2 DEF Reached, Closed
    <3>4. PICK f \in edges : f[1] = e[2] /\ f[2] = e[1]
      BY <3>1
    <3>5. e[1] \in comp[e[1]]
      BY <3>2 DEF Reached
    <3>6. e[2] \in comp[e[1]]
      BY <3>3, <3>4, <3>5
    <3>7. comp[e[2]] \in SUBSET comp[e[1]]
      BY <3>2, <3>6 DEF Reached
    <3> QED BY <3>1, <3>7, <2>1
  <2> QED BY <2>1 DEF Closed
<1>5. comp[p] \in SUBSET R
  <2> HIDE DEF R
  <2>1. Reached(comp[p], p, nodes, edges)
    BY <1>1
  <2> QED BY <2>1, <1>3, <1>4 DEF Reached
<1>6. p \in comp[q]
  BY <1>5, <1>9
<1>7. comp[p] \in SUBSET comp[q] /\ comp[q] \in SUBSET comp[p]
  <2>1. Reached(comp[p], p, nodes, edges) /\ Reached(comp[q], q, nodes, edges)
    BY <1>1, <1>2
  <2> QED BY <2>1, <1>6, <1>9 DEF Reached
<1>8. comp[q] = B!Component(q, nodes, edges) /\ comp[p] = B!Component(p, nodes, edges)
  BY <1>2
<1> QED BY <1>2, <1>6, <1>7, <1>8

-----------------------------------------------------------------------------
(* The numbers of a set in their order *)

Lists(list, Q, n) ==
  /\ list \in [0 .. n -> Seq(Nat)] /\ list[0] = << >>
  /\ \A k \in Nat : k < n =>
       list[k + 1] = IF k + 1 \in Q THEN Append(list[k], k + 1) ELSE list[k]

LEMMA ListedRun ==
  ASSUME NEW Q, NEW n \in Nat
  PROVE  \E list : Lists(list, Q, n) /\ B!Listed(Q, n) = list[n]
<1> DEFINE V == Seq(Nat)
           term(k, v) == IF k \in Q THEN Append(v, k) ELSE v
           step == [x \in Nat \X V |-> term(x[1], x[2])]
           c == CHOOSE f : f = [k \in 0 .. n |-> IF k = 0 THEN << >> ELSE term(k, f[k - 1])]
<1>1. ASSUME NEW k \in Nat, NEW v \in V PROVE term(k, v) \in V
  BY AppendProperties
<1>2. << >> \in V
  OBVIOUS
<1>3. B!Listed(Q, n) = c[n]
  <2>1. c = CHOOSE f : f = [k \in 0 .. n |->
              IF k = 0 THEN << >> ELSE IF k \in Q THEN Append(f[k - 1], k) ELSE f[k - 1]]
    OBVIOUS
  <2> HIDE DEF c
  <2> QED BY <2>1, Zenon DEF B!Listed
<1> HIDE DEF term, V
<1>4. step \in [Nat \X V -> V]
  BY <1>1
<1>5. PICK g \in [0 .. n -> V] : Run(g, n, << >>, step)
  <2> HIDE DEF step
  <2> QED BY <1>2, <1>4, RunExists
<1>6. g = [k \in 0 .. n |-> IF k = 0 THEN << >> ELSE term(k, g[k - 1])]
  <2>1. ASSUME NEW k \in 1 .. n PROVE g[k] = term(k, g[k - 1])
    <3>1. k - 1 \in Nat /\ k - 1 < n /\ (k - 1) + 1 = k /\ k - 1 \in 0 .. n /\ k \in Nat
      BY <2>1
    <3>2. g[k] = step[<<k, g[k - 1]>>]
      BY <3>1, <1>5 DEF Run
    <3>3. g[k - 1] \in V
      BY <3>1, <1>5
    <3> QED BY <3>1, <3>2, <3>3
  <2> HIDE DEF step
  <2>2. g[0] = << >> /\ g = [k \in 0 .. n |-> g[k]]
    BY <1>5 DEF Run
  <2>3. ASSUME NEW k \in 0 .. n PROVE g[k] = IF k = 0 THEN << >> ELSE term(k, g[k - 1])
    <3>1. k # 0 => k \in 1 .. n
      OBVIOUS
    <3> QED BY <3>1, <2>1, <2>2
  <2> QED BY <2>2, <2>3, Zenon
<1>7. c = [k \in 0 .. n |-> IF k = 0 THEN << >> ELSE term(k, c[k - 1])]
  BY <1>6
<1> HIDE DEF c, step
<1>8. c[0] = << >> /\ \A k \in Nat : k < n => c[k + 1] = term(k + 1, c[k])
  <2>1. 0 \in 0 .. n /\ \A k \in Nat : k < n => k + 1 \in 0 .. n /\ k + 1 # 0 /\ (k + 1) - 1 = k
    OBVIOUS
  <2>2. c[0] = << >>
    BY <1>7, <2>1, Zenon
  <2>3. ASSUME NEW k \in Nat, k < n PROVE c[k + 1] = term(k + 1, c[k])
    <3>1. c[k + 1] = term(k + 1, c[(k + 1) - 1])
      BY <1>7, <2>1, <2>3, Zenon
    <3> QED BY <3>1, <2>1, <2>3
  <2> QED BY <2>2, <2>3
<1>9. \A k \in 0 .. n : c[k] \in V
  <2>1. ASSUME NEW k \in Nat, k < n, c[k] \in V PROVE c[k + 1] \in V
    BY <2>1, <1>1, <1>8
  <2>2. c[0] \in V
    BY <1>2, <1>8
  <2> QED BY <2>1, <2>2, RunStays
<1>10. c \in [0 .. n -> V]
  BY <1>7, <1>9
<1>11. Lists(c, Q, n)
  BY <1>8, <1>10 DEF Lists, V, term
<1> QED BY <1>3, <1>11

LEMMA ListedNext ==
  ASSUME NEW Q, NEW n \in Nat
  PROVE  /\ B!Listed(Q, 0) = << >> /\ B!Listed(Q, n) \in Seq(Nat)
         /\ B!Listed(Q, n + 1) =
              IF n + 1 \in Q THEN Append(B!Listed(Q, n), n + 1) ELSE B!Listed(Q, n)
<1>1. PICK a : Lists(a, Q, n) /\ B!Listed(Q, n) = a[n]
  BY ListedRun
<1>2. PICK b : Lists(b, Q, n + 1) /\ B!Listed(Q, n + 1) = b[n + 1]
  BY ListedRun
<1> DEFINE M == {k \in Nat : k <= n => b[k] = a[k]}
<1>3. 0 \in M
  BY <1>1, <1>2 DEF Lists
<1>4. ASSUME NEW k \in M PROVE k + 1 \in M
  <2>1. k < n => a[k + 1] = IF k + 1 \in Q THEN Append(a[k], k + 1) ELSE a[k]
    BY <1>1 DEF Lists
  <2>2. k < n + 1 => b[k + 1] = IF k + 1 \in Q THEN Append(b[k], k + 1) ELSE b[k]
    BY <1>2 DEF Lists
  <2> QED BY <2>1, <2>2
<1>5. b[n] = a[n]
  <2>1. M \in SUBSET Nat
    OBVIOUS
  <2>2. n \in M
    <3> HIDE DEF M
    <3> QED BY <1>3, <1>4, <2>1, Counting
  <2> QED BY <2>2
<1>6. B!Listed(Q, 0) = << >>
  <2>1. PICK z : Lists(z, Q, 0) /\ B!Listed(Q, 0) = z[0]
    BY ListedRun
  <2> QED BY <2>1 DEF Lists
<1>7. b[n + 1] = IF n + 1 \in Q THEN Append(b[n], n + 1) ELSE b[n]
  BY <1>2 DEF Lists
<1>8. a[n] \in Seq(Nat)
  BY <1>1 DEF Lists
<1> QED BY <1>1, <1>2, <1>5, <1>6, <1>7, <1>8

-----------------------------------------------------------------------------
(* The flood fill *)

Area == BLOB_WIDTH * BLOB_HEIGHT

\* The number of a pixel in the order of the scan.
Index(p) == p[2] * BLOB_WIDTH + p[1]

LEMMA PixelIndex ==
  ASSUME B!BlobConstants
  PROVE  /\ Area \in Nat
         /\ \A i \in Nat : i < Area => B!Pixel(i) \in B!Pixels /\ Index(B!Pixel(i)) = i
         /\ \A p \in B!Pixels :
              Index(p) \in Nat /\ Index(p) < Area /\ B!Pixel(Index(p)) = p
<1>1. PICK w \in Nat \ {0} : w = BLOB_WIDTH
  BY DEF B!BlobConstants
<1>2. PICK h \in Nat \ {0} : h = BLOB_HEIGHT
  BY DEF B!BlobConstants
<1>3. Area = w * h /\ w * h \in Nat
  BY <1>1, <1>2 DEF Area
<1>4. ASSUME NEW i \in Nat, i < w * h
      PROVE  B!Pixel(i) \in B!Pixels /\ Index(B!Pixel(i)) = i
  <2>1. PICK q \in Int, r \in Int :
          q = i \div w /\ r = i % w /\ i = w * q + r /\ 0 <= r /\ r < w
    OBVIOUS
  <2>2. q >= 0
    <3>1. q <= -1 => w * q <= - w
      OBVIOUS
    <3> QED BY <2>1, <3>1
  <2>3. q < h
    <3>1. q >= h => w * q >= w * h
      OBVIOUS
    <3> QED BY <2>1, <3>1, <1>4
  <2>4. B!Pixel(i) = <<r, q>>
    BY <2>1, <1>1 DEF B!Pixel
  <2>5. B!Pixel(i) \in B!Pixels
    BY <2>1, <2>2, <2>3, <2>4, <1>1, <1>2 DEF B!Pixels
  <2>6. Index(B!Pixel(i)) = q * w + r
    BY <2>4, <1>1 DEF Index
  <2> QED BY <2>1, <2>5, <2>6
<1>5. ASSUME NEW p \in B!Pixels
      PROVE  Index(p) \in Nat /\ Index(p) < w * h /\ B!Pixel(Index(p)) = p
  <2>1. p = <<p[1], p[2]>> /\ p[1] \in 0 .. w - 1 /\ p[2] \in 0 .. h - 1
    BY <1>1, <1>2 DEF B!Pixels
  <2>2. PICK x \in 0 .. w - 1, y \in 0 .. h - 1 : p = <<x, y>>
    BY <2>1
  <2>3. Index(p) = y * w + x
    BY <2>2, <1>1 DEF Index
  <2>4. (y * w + x) \div w = y /\ (y * w + x) % w = x
    BY Digit
  <2>5. B!Pixel(Index(p)) = <<x, y>>
    BY <2>3, <2>4, <1>1 DEF B!Pixel
  <2>6. y * w + x \in Nat /\ y * w + x < w * h
    <3>1. y + 1 <= h /\ y \in Nat /\ x \in Nat /\ x < w
      OBVIOUS
    <3>2. y * w \in Nat /\ w * h >= w * (y + 1)
      BY <3>1
    <3>3. w * (y + 1) = y * w + w
      BY <3>1
    <3> QED BY <3>1, <3>2, <3>3
  <2> QED BY <2>2, <2>3, <2>5, <2>6
<1> QED BY <1>3, <1>4, <1>5

EdgesOf(img) == {e \in img \X img : B!Touching(e[1], e[2])}
CompOf(img) == [p \in img |-> B!Component(p, img, EdgesOf(img))]

LEMMA ImageGraph ==
  ASSUME B!BlobConstants, NEW img \in SUBSET B!Pixels
  PROVE  IsGraph(img, EdgesOf(img))
<1>1. IsFiniteSet(B!Pixels)
  <2>1. 0 \in Int /\ BLOB_WIDTH - 1 \in Int /\ BLOB_HEIGHT - 1 \in Int
    BY DEF B!BlobConstants
  <2>2. IsFiniteSet(0 .. BLOB_WIDTH - 1) /\ IsFiniteSet(0 .. BLOB_HEIGHT - 1)
    BY <2>1, FS_Interval
  <2> QED BY <2>2, FS_Product DEF B!Pixels
<1>2. IsFiniteSet(img)
  BY <1>1, FS_Subset
<1>3. \A p \in img : p[1] \in Int /\ p[2] \in Int
  BY DEF B!Pixels, B!BlobConstants
<1>4. ASSUME NEW e \in EdgesOf(img) PROVE <<e[2], e[1]>> \in EdgesOf(img)
  <2>1. e[1] \in img /\ e[2] \in img /\ B!Touching(e[1], e[2])
    BY DEF EdgesOf
  <2>2. B!Touching(e[2], e[1])
    BY <2>1, <1>3 DEF B!Touching
  <2> QED BY <2>1, <2>2 DEF EdgesOf
<1>5. EdgesOf(img) \in SUBSET (img \X img)
  BY DEF EdgesOf
<1> QED BY <1>2, <1>4, <1>5 DEF IsGraph

\* comp divides the image into its connected parts.
Parts(comp, img) ==
  \A p \in img :
    /\ p \in comp[p] /\ comp[p] \in SUBSET img
    /\ \A q \in comp[p] : comp[q] = comp[p]
    /\ \A q \in comp[p], r \in img : B!Touching(r, q) => r \in comp[p]
    /\ \A R \in SUBSET img :
         p \in R /\ (\A q \in R, r \in img : B!Touching(r, q) => r \in R)
           => comp[p] \in SUBSET R

LEMMA ImageParts ==
  ASSUME B!BlobConstants, NEW img \in SUBSET B!Pixels
  PROVE  Parts(CompOf(img), img)
<1> DEFINE E == EdgesOf(img)
           comp == CompOf(img)
<1>1. IsGraph(img, E) /\ comp = [r \in img |-> B!Component(r, img, E)]
  BY ImageGraph DEF CompOf
<1>2. ASSUME NEW R \in SUBSET img
      PROVE  Closed(R, E) <=> \A q \in R, r \in img : B!Touching(r, q) => r \in R
  <2>1. \A e \in E : e[1] \in img /\ e[2] \in img /\ B!Touching(e[1], e[2])
    BY DEF EdgesOf
  <2>2. ASSUME NEW q \in R, NEW r \in img, B!Touching(r, q), Closed(R, E) PROVE r \in R
    <3>1. <<r, q>> \in E
      BY <2>2 DEF EdgesOf
    <3>2. PICK e : e = <<r, q>>
      OBVIOUS
    <3> HIDE DEF E
    <3>3. e \in E /\ e[1] = r /\ e[2] = q
      BY <3>1, <3>2
    <3> QED BY <3>3, <2>2 DEF Closed
  <2> HIDE DEF E
  <2> QED BY <2>1, <2>2 DEF Closed
<1> HIDE DEF E, comp
<1>3. SUFFICES ASSUME NEW p \in img
               PROVE  /\ p \in comp[p] /\ comp[p] \in SUBSET img
                      /\ \A q \in comp[p] : comp[q] = comp[p]
                      /\ \A q \in comp[p], r \in img : B!Touching(r, q) => r \in comp[p]
                      /\ \A R \in SUBSET img :
                           p \in R /\ (\A q \in R, r \in img : B!Touching(r, q) => r \in R)
                             => comp[p] \in SUBSET R
  BY DEF Parts, comp
<1>4. Reached(comp[p], p, img, E)
  BY <1>1, ComponentIsReached
<1>5. p \in comp[p] /\ comp[p] \in SUBSET img /\ Closed(comp[p], E)
      /\ \A R : p \in R /\ Closed(R, E) => comp[p] \in SUBSET R
  BY <1>4 DEF Reached
<1>6. ASSUME NEW q \in comp[p] PROVE comp[q] = comp[p]
  <2>1. comp[p] = B!Component(p, img, E) /\ q \in B!Component(p, img, E)
    BY <1>1
  <2>2. q \in img /\ B!Component(q, img, E) = B!Component(p, img, E)
    BY <2>1, <1>1, SameReached
  <2> QED BY <2>1, <2>2, <1>1
<1>7. \A q \in comp[p], r \in img : B!Touching(r, q) => r \in comp[p]
  BY <1>2, <1>5
<1>8. ASSUME NEW R \in SUBSET img, p \in R,
             \A q \in R, r \in img : B!Touching(r, q) => r \in R
      PROVE  comp[p] \in SUBSET R
  BY <1>2, <1>5, <1>8
<1> QED BY <1>5, <1>6, <1>7, <1>8

\* The pixels of the parts that the scan has met before pixel n.
Old(img, n) == {p \in img : \E q \in CompOf(img)[p] : Index(q) < n}

\* The numbers, from 1, of the pixels where the scan meets a part.
Seeds(img) ==
  {i \in 1 .. Area :
     /\ B!Pixel(i - 1) \in img
     /\ \A q \in CompOf(img)[B!Pixel(i - 1)] : i - 1 <= Index(q)}

\* The blobs of the parts that were met before pixel n.
Expected(img, n) ==
  LET firsts == B!Listed(Seeds(img), n)
  IN  [k \in DOMAIN firsts |-> B!BoxOf(CompOf(img)[B!Pixel(firsts[k] - 1)])]

\* Once the scan has passed a pixel its part is old; the pixel is a seed if it was not.
LEMMA OldNext ==
  ASSUME B!BlobConstants, NEW img \in SUBSET B!Pixels, NEW n \in Nat, n < Area,
         NEW s, s = B!Pixel(n)
  PROVE  /\ Index(s) = n
         /\ n + 1 \in Seeds(img) <=> s \in img \ Old(img, n)
         /\ s \in img => Old(img, n + 1) = Old(img, n) \cup CompOf(img)[s]
         /\ s \notin img => Old(img, n + 1) = Old(img, n)
         /\ s \in Old(img, n) => CompOf(img)[s] \in SUBSET Old(img, n)
<1> DEFINE comp == CompOf(img)
<1>1. Parts(comp, img)
  BY ImageParts
<1> HIDE DEF comp
<1>2. /\ Area \in Nat /\ Index(s) = n
      /\ \A p \in img : Index(p) \in Nat /\ B!Pixel(Index(p)) = p
  BY PixelIndex
<1>3. \A p \in img : p \in Old(img, n) <=> \E q \in comp[p] : Index(q) < n
  BY DEF Old, comp
<1>4. \A p \in img : p \in Old(img, n + 1) <=> \E q \in comp[p] : Index(q) < n + 1
  BY DEF Old, comp
<1>5. Old(img, n) \in SUBSET img /\ Old(img, n + 1) \in SUBSET img
  BY DEF Old
<1>6. n + 1 \in Seeds(img) <=> s \in img \ Old(img, n)
  <2>1. n + 1 \in 1 .. Area /\ (n + 1) - 1 = n
    BY <1>2
  <2>2. n + 1 \in Seeds(img) <=> s \in img /\ \A q \in comp[s] : n <= Index(q)
    BY <2>1 DEF Seeds, comp
  <2>3. s \in img => \A q \in comp[s] : Index(q) \in Nat
    BY <1>1, <1>2 DEF Parts
  <2> QED BY <2>2, <2>3, <1>3
<1>7. ASSUME NEW p \in img
      PROVE  p \in Old(img, n + 1) <=> p \in Old(img, n) \/ s \in comp[p]
  <2>1. comp[p] \in SUBSET img
    BY <1>1 DEF Parts
  <2>2. \A q \in comp[p] : Index(q) < n + 1 <=> Index(q) < n \/ Index(q) = n
    BY <2>1, <1>2
  <2>3. \A q \in comp[p] : Index(q) = n <=> q = s
    BY <2>1, <1>2
  <2> QED BY <2>2, <2>3, <1>3, <1>4
<1>8. \A p \in img : s \in comp[p] <=> s \in img /\ p \in comp[s]
  BY <1>1 DEF Parts
<1>9. s \in img => Old(img, n + 1) = Old(img, n) \cup comp[s]
  <2>1. s \in img => comp[s] \in SUBSET img
    BY <1>1 DEF Parts
  <2> QED BY <2>1, <1>5, <1>7, <1>8
<1>10. s \notin img => Old(img, n + 1) = Old(img, n)
  BY <1>5, <1>7, <1>8
<1>11. s \in Old(img, n) => comp[s] \in SUBSET Old(img, n)
  <2>1. ASSUME s \in Old(img, n), NEW p \in comp[s] PROVE p \in Old(img, n)
    <3>1. s \in img
      BY <1>5, <2>1
    <3>2. p \in img /\ comp[p] = comp[s]
      BY <3>1, <1>1 DEF Parts
    <3> QED BY <3>1, <3>2, <2>1, <1>3
  <2> QED BY <2>1
<1> QED BY <1>2, <1>6, <1>9, <1>10, <1>11 DEF comp

LEMMA ExpectedNext ==
  ASSUME B!BlobConstants, NEW img, NEW n \in Nat
  PROVE  /\ Expected(img, 0) = << >>
         /\ n + 1 \notin Seeds(img) => Expected(img, n + 1) = Expected(img, n)
         /\ n + 1 \in Seeds(img) =>
              Expected(img, n + 1)
                = Append(Expected(img, n), B!BoxOf(CompOf(img)[B!Pixel(n)]))
<1> DEFINE Q == Seeds(img)
           box(i) == B!BoxOf(CompOf(img)[B!Pixel(i - 1)])
           boxes(f) == [k \in DOMAIN f |-> box(f[k])]
<1>1. \A i \in Nat : Expected(img, i) = boxes(B!Listed(Q, i))
  BY DEF Expected
<1>2. /\ B!Listed(Q, 0) = << >> /\ B!Listed(Q, n) \in Seq(Nat)
      /\ B!Listed(Q, n + 1) =
           IF n + 1 \in Q THEN Append(B!Listed(Q, n), n + 1) ELSE B!Listed(Q, n)
  BY ListedNext
<1>3. (n + 1) - 1 = n
  OBVIOUS
<1>4. ASSUME NEW f \in Seq(Nat) PROVE boxes(Append(f, n + 1)) = Append(boxes(f), box(n + 1))
  <2> HIDE DEF box
  <2> QED OBVIOUS
<1>5. boxes(<< >>) = << >>
  <2> HIDE DEF box
  <2> QED OBVIOUS
<1>6. box(n + 1) = B!BoxOf(CompOf(img)[B!Pixel(n)])
  BY <1>3
<1> HIDE DEF boxes, box, Q
<1> QED BY <1>1, <1>2, <1>4, <1>5, <1>6 DEF Q

\* b is the bounding box of ps with its number of pixels.
BoxIs(b, ps) ==
  /\ b = [x |-> b.x, y |-> b.y, x1 |-> b.x1, y1 |-> b.y1, pix_cnt |-> b.pix_cnt]
  /\ (\E p \in ps : p[1] = b.x) /\ \A p \in ps : b.x <= p[1]
  /\ (\E p \in ps : p[2] = b.y) /\ \A p \in ps : b.y <= p[2]
  /\ (\E p \in ps : p[1] + 1 = b.x1) /\ \A p \in ps : p[1] + 1 <= b.x1
  /\ (\E p \in ps : p[2] + 1 = b.y1) /\ \A p \in ps : p[2] + 1 <= b.y1
  /\ b.pix_cnt = Cardinality(ps)

LEMMA MinMaxIs ==
  ASSUME NEW Q \in SUBSET Int, NEW m \in Q
  PROVE  /\ (\A y \in Q : m <= y) => B!Min(Q) = m
         /\ (\A y \in Q : y <= m) => B!Max(Q) = m
<1>1. ASSUME \A y \in Q : m <= y PROVE B!Min(Q) = m
  <2>1. \A z \in Q : (\A y \in Q : z <= y) => z = m
    BY <1>1
  <2> QED BY <1>1, <2>1 DEF B!Min
<1>2. ASSUME \A y \in Q : y <= m PROVE B!Max(Q) = m
  <2>1. \A z \in Q : (\A y \in Q : z >= y) => z = m
    BY <1>2
  <2>2. \A y \in Q : m >= y
    BY <1>2
  <2> QED BY <2>1, <2>2 DEF B!Max
<1> QED BY <1>1, <1>2

LEMMA BoxIsBoxOf ==
  ASSUME NEW ps \in SUBSET (Int \X Int), NEW b, BoxIs(b, ps)
  PROVE  b = B!BoxOf(ps)
<1>1. \A p \in ps : p[1] \in Int /\ p[2] \in Int
  OBVIOUS
<1>2. {p[1] : p \in ps} \in SUBSET Int /\ {p[2] : p \in ps} \in SUBSET Int
  BY <1>1
<1>3. B!Min({p[1] : p \in ps}) = b.x
  <2>1. b.x \in {p[1] : p \in ps} /\ \A y \in {p[1] : p \in ps} : b.x <= y
    BY DEF BoxIs
  <2> QED BY <2>1, <1>2, MinMaxIs
<1>4. B!Min({p[2] : p \in ps}) = b.y
  <2>1. b.y \in {p[2] : p \in ps} /\ \A y \in {p[2] : p \in ps} : b.y <= y
    BY DEF BoxIs
  <2> QED BY <2>1, <1>2, MinMaxIs
<1>5. B!Max({p[1] : p \in ps}) + 1 = b.x1
  <2>1. PICK q \in ps : q[1] + 1 = b.x1
    BY DEF BoxIs
  <2>2. q[1] \in {p[1] : p \in ps} /\ \A y \in {p[1] : p \in ps} : y <= q[1]
    BY <2>1, <1>1 DEF BoxIs
  <2> QED BY <2>1, <2>2, <1>2, MinMaxIs
<1>6. B!Max({p[2] : p \in ps}) + 1 = b.y1
  <2>1. PICK q \in ps : q[2] + 1 = b.y1
    BY DEF BoxIs
  <2>2. q[2] \in {p[2] : p \in ps} /\ \A y \in {p[2] : p \in ps} : y <= q[2]
    BY <2>1, <1>1 DEF BoxIs
  <2> QED BY <2>1, <2>2, <1>2, MinMaxIs
<1>7. b.pix_cnt = B!Cardinality(ps)
  BY SameCountB DEF BoxIs
<1>8. b = [x |-> b.x, y |-> b.y, x1 |-> b.x1, y1 |-> b.y1, pix_cnt |-> b.pix_cnt]
  BY Zenon DEF BoxIs
<1> QED BY <1>3, <1>4, <1>5, <1>6, <1>7, <1>8, Zenon DEF B!BoxOf

\* Covering one more pixel keeps the box.
LEMMA BoxGrows ==
  ASSUME NEW p \in Int \X Int, NEW ps \in SUBSET (Int \X Int), IsFiniteSet(ps), p \notin ps
  PROVE  /\ BoxIs(B!Dot(p), {p})
         /\ \A b : BoxIs(b, ps) => BoxIs(B!Cover(b, B!Dot(p)), ps \cup {p})
<1>1. p[1] \in Int /\ p[2] \in Int /\ \A q \in ps : q[1] \in Int /\ q[2] \in Int
  OBVIOUS
<1>2. Cardinality({p}) = 1 /\ Cardinality(ps \cup {p}) = Cardinality(ps) + 1
  BY FS_Singleton, FS_AddElement
<1>3. BoxIs(B!Dot(p), {p})
  BY <1>1, <1>2 DEF BoxIs, B!Dot
<1>4. ASSUME NEW b, BoxIs(b, ps) PROVE BoxIs(B!Cover(b, B!Dot(p)), ps \cup {p})
  <2> DEFINE c == B!Cover(b, B!Dot(p))
  <2>1. b.x \in Int /\ b.y \in Int /\ b.x1 \in Int /\ b.y1 \in Int
    BY <1>1, <1>4 DEF BoxIs
  <2>2. /\ c = [x |-> c.x, y |-> c.y, x1 |-> c.x1, y1 |-> c.y1, pix_cnt |-> c.pix_cnt]
        /\ c.x = B!Min({b.x, p[1]}) /\ c.y = B!Min({b.y, p[2]})
        /\ c.x1 = B!Max({b.x1, p[1] + 1}) /\ c.y1 = B!Max({b.y1, p[2] + 1})
        /\ c.pix_cnt = b.pix_cnt + 1
    BY DEF B!Cover, B!Dot
  <2>3. ASSUME NEW i \in Int, NEW j \in Int
        PROVE  /\ B!Min({i, j}) = (IF i <= j THEN i ELSE j)
               /\ B!Max({i, j}) = (IF i <= j THEN j ELSE i)
    <3>1. PICK Q \in SUBSET Int : Q = {i, j}
      OBVIOUS
    <3>2. /\ (\A y \in Q : i <= y) => B!Min(Q) = i
          /\ (\A y \in Q : y <= i) => B!Max(Q) = i
          /\ (\A y \in Q : j <= y) => B!Min(Q) = j
          /\ (\A y \in Q : y <= j) => B!Max(Q) = j
      BY <3>1, MinMaxIs
    <3>3. i <= j => (\A y \in Q : i <= y) /\ (\A y \in Q : y <= j)
      BY <3>1
    <3>4. ~(i <= j) => (\A y \in Q : j <= y) /\ (\A y \in Q : y <= i)
      BY <3>1
    <3> QED BY <3>1, <3>2, <3>3, <3>4
  <2>4. /\ c.x = (IF b.x <= p[1] THEN b.x ELSE p[1])
        /\ c.y = (IF b.y <= p[2] THEN b.y ELSE p[2])
        /\ c.x1 = (IF b.x1 <= p[1] + 1 THEN p[1] + 1 ELSE b.x1)
        /\ c.y1 = (IF b.y1 <= p[2] + 1 THEN p[2] + 1 ELSE b.y1)
    <3>1. p[1] + 1 \in Int /\ p[2] + 1 \in Int
      BY <1>1
    <3> HIDE DEF c
    <3> QED BY <2>1, <2>2, <2>3, <1>1, <3>1
  <2>5. c.pix_cnt = Cardinality(ps \cup {p})
    BY <2>2, <1>2, <1>4 DEF BoxIs
  <2>6. c = [x |-> c.x, y |-> c.y, x1 |-> c.x1, y1 |-> c.y1, pix_cnt |-> c.pix_cnt]
    BY <2>2
  <2> HIDE DEF c
  <2>7. (\E q \in ps \cup {p} : q[1] = c.x) /\ \A q \in ps \cup {p} : c.x <= q[1]
    BY <2>4, <2>1, <1>1, <1>4 DEF BoxIs
  <2>8. (\E q \in ps \cup {p} : q[2] = c.y) /\ \A q \in ps \cup {p} : c.y <= q[2]
    BY <2>4, <2>1, <1>1, <1>4 DEF BoxIs
  <2>9. (\E q \in ps \cup {p} : q[1] + 1 = c.x1) /\ \A q \in ps \cup {p} : q[1] + 1 <= c.x1
    BY <2>4, <2>1, <1>1, <1>4 DEF BoxIs
  <2>10. (\E q \in ps \cup {p} : q[2] + 1 = c.y1) /\ \A q \in ps \cup {p} : q[2] + 1 <= c.y1
    BY <2>4, <2>1, <1>1, <1>4 DEF BoxIs
  <2>11. BoxIs(c, ps \cup {p})
    BY <2>5, <2>6, <2>7, <2>8, <2>9, <2>10, Zenon DEF BoxIs
  <2> QED BY <2>11 DEF c
<1> QED BY <1>3, <1>4

\* What is on a stack, and that nothing is on it twice.
OnStack(s) == {s[i] : i \in 1 .. Len(s)}
Once(s)    == \A i, j \in 1 .. Len(s) : s[i] = s[j] => i = j

LEMMA PushOnce ==
  ASSUME NEW I, NEW s \in Seq(I), NEW q \in I, q \notin OnStack(s), Once(s)
  PROVE  /\ Append(s, q) \in Seq(I) /\ Once(Append(s, q))
         /\ OnStack(Append(s, q)) = OnStack(s) \cup {q}
<1> DEFINE t == Append(s, q)
<1>1. /\ t \in Seq(I) /\ Len(s) \in Nat /\ Len(t) = Len(s) + 1 /\ t[Len(s) + 1] = q
      /\ \A i \in 1 .. Len(s) : t[i] = s[i]
  BY AppendProperties, LenProperties
<1> HIDE DEF t
<1>2. \A i \in 1 .. Len(t) : i \in 1 .. Len(s) \/ i = Len(s) + 1
  BY <1>1
<1>3. \A i \in 1 .. Len(s) : t[i] # q
  BY <1>1 DEF OnStack
<1>4. Once(t)
  BY <1>1, <1>2, <1>3 DEF Once
<1>5. ASSUME NEW x \in OnStack(t) PROVE x \in OnStack(s) \cup {q}
  <2>1. PICK i \in 1 .. Len(t) : x = t[i]
    BY DEF OnStack
  <2> QED BY <2>1, <1>1, <1>2 DEF OnStack
<1>6. ASSUME NEW x \in OnStack(s) PROVE x \in OnStack(t)
  <2>1. PICK i \in 1 .. Len(s) : x = s[i]
    BY DEF OnStack
  <2>2. i \in 1 .. Len(t) /\ t[i] = x
    BY <2>1, <1>1
  <2> QED BY <2>2 DEF OnStack
<1>7. q \in OnStack(t)
  <2>1. Len(s) + 1 \in 1 .. Len(t)
    BY <1>1
  <2> QED BY <2>1, <1>1 DEF OnStack
<1> QED BY <1>1, <1>4, <1>5, <1>6, <1>7 DEF t

LEMMA PopOnce ==
  ASSUME NEW I, NEW s \in Seq(I), s # << >>, Once(s)
  PROVE  /\ SubSeq(s, 1, Len(s) - 1) \in Seq(I) /\ Once(SubSeq(s, 1, Len(s) - 1))
         /\ s[Len(s)] \in I /\ s[Len(s)] \in OnStack(s)
         /\ OnStack(SubSeq(s, 1, Len(s) - 1)) = OnStack(s) \ {s[Len(s)]}
<1> PICK t : t = SubSeq(s, 1, Len(s) - 1)
  OBVIOUS
<1> PICK p : p = s[Len(s)]
  OBVIOUS
<1>1. Len(s) \in Nat /\ Len(s) # 0
  BY LenProperties, EmptySeq
<1>2. Len(s) - 1 \in 0 .. Len(s) /\ Len(s) \in 1 .. Len(s)
  BY <1>1
<1>3. t \in Seq(I) /\ Len(t) = Len(s) - 1 /\ \A i \in 1 .. Len(s) - 1 : t[i] = s[i]
  <2>1. PICK m \in Int : m = Len(s) - 1
    BY <1>1
  <2>2. \A i \in 1 .. m : i \in 1 .. Len(s)
    BY <2>1, <1>1
  <2>3. \A i \in 1 .. m : s[i] \in I
    BY <2>2, ElementOfSeq
  <2>4. /\ t \in Seq(I) /\ Len(t) = (IF 1 <= m THEN m - 1 + 1 ELSE 0)
        /\ \A i \in 1 .. m - 1 + 1 : t[i] = s[1 + i - 1]
    <3>1. 1 \in Int
      OBVIOUS
    <3> QED BY <3>1, <2>1, <2>3, SubSeqProperties
  <2>5. \A i \in 1 .. m : i \in 1 .. m - 1 + 1 /\ 1 + i - 1 = i
    BY <2>1
  <2>6. m >= 0 /\ Len(t) = m
    BY <2>1, <2>4, <1>1
  <2> QED BY <2>1, <2>4, <2>5, <2>6
<1>4. p \in I /\ p \in OnStack(s)
  <2>1. p \in I
    BY ElementOfSeq, <1>2
  <2> QED BY <2>1, <1>2 DEF OnStack
<1>5. Once(t)
  BY <1>1, <1>3 DEF Once
<1>6. ASSUME NEW x \in OnStack(t) PROVE x \in OnStack(s) \ {p}
  <2>1. PICK i \in 1 .. Len(t) : x = t[i]
    BY DEF OnStack
  <2>2. i \in 1 .. Len(s) /\ i # Len(s) /\ x = s[i]
    BY <2>1, <1>1, <1>3
  <2>3. x # p
    BY <2>2, <1>2 DEF Once
  <2> QED BY <2>2, <2>3 DEF OnStack
<1>7. ASSUME NEW x \in OnStack(s) \ {p} PROVE x \in OnStack(t)
  <2>1. PICK i \in 1 .. Len(s) : x = s[i]
    BY DEF OnStack
  <2>2. i # Len(s)
    BY <2>1, <1>7
  <2>3. i \in 1 .. Len(t) /\ t[i] = x
    BY <2>1, <2>2, <1>1, <1>3
  <2> QED BY <2>3 DEF OnStack
<1> QED BY <1>3, <1>4, <1>5, <1>6, <1>7

\* The marks and the stack while the neighbours of a pixel are looked at.
Marks == [visited : SUBSET image, stack : Seq(image)]

LEMMA SpreadsRun ==
  ASSUME NEW p, NEW base \in Marks
  PROVE  \E after :
           /\ after \in [0 .. 8 -> Marks] /\ after[0] = base /\ B!Spreads(p, base) = after[8]
           /\ \A k \in Nat : k < 8 => after[k + 1] = B!Spread(after[k], B!Neighbour(p, k + 1))
<1> DEFINE term(k, v) == B!Spread(v, B!Neighbour(p, k))
           step == [x \in Nat \X Marks |-> term(x[1], x[2])]
           c == CHOOSE f : f = [k \in 0 .. 8 |-> IF k = 0 THEN base ELSE term(k, f[k - 1])]
<1>1. ASSUME NEW k \in Nat, NEW v \in Marks PROVE term(k, v) \in Marks
  <2> DEFINE q == B!Neighbour(p, k)
  <2> HIDE DEF q
  <2>1. v.visited \in SUBSET image /\ v.stack \in Seq(image)
    BY DEF Marks
  <2>2. q \in image => Append(v.stack, q) \in Seq(image)
    BY <2>1, AppendProperties
  <2>3. B!Spread(v, q) \in Marks
    BY <2>1, <2>2 DEF B!Spread, Marks
  <2> QED BY <2>3 DEF q
<1>2. B!Spreads(p, base) = c[8]
  BY DEF B!Spreads
<1> HIDE DEF term
<1>3. step \in [Nat \X Marks -> Marks]
  BY <1>1
<1>4. PICK g \in [0 .. 8 -> Marks] : Run(g, 8, base, step)
  <2> HIDE DEF step
  <2>1. 8 \in Nat
    OBVIOUS
  <2> QED BY <2>1, <1>3, RunExists
<1>5. g = [k \in 0 .. 8 |-> IF k = 0 THEN base ELSE term(k, g[k - 1])]
  <2>1. ASSUME NEW k \in 1 .. 8 PROVE g[k] = term(k, g[k - 1])
    <3>1. k - 1 \in Nat /\ k - 1 < 8 /\ (k - 1) + 1 = k /\ k - 1 \in 0 .. 8 /\ k \in Nat
      OBVIOUS
    <3>2. g[k] = step[<<k, g[k - 1]>>]
      BY <3>1, <1>4 DEF Run
    <3>3. g[k - 1] \in Marks
      BY <3>1, <1>4
    <3> QED BY <3>1, <3>2, <3>3
  <2> HIDE DEF step
  <2>2. g[0] = base /\ g = [k \in 0 .. 8 |-> g[k]]
    BY <1>4 DEF Run
  <2>3. ASSUME NEW k \in 0 .. 8 PROVE g[k] = IF k = 0 THEN base ELSE term(k, g[k - 1])
    <3>1. k # 0 => k \in 1 .. 8
      OBVIOUS
    <3> QED BY <3>1, <2>1, <2>2
  <2> QED BY <2>2, <2>3, Zenon
<1>6. c = [k \in 0 .. 8 |-> IF k = 0 THEN base ELSE term(k, c[k - 1])]
  BY <1>5
<1> HIDE DEF c, step
<1>7. c[0] = base /\ \A k \in Nat : k < 8 => c[k + 1] = term(k + 1, c[k])
  <2>1. 0 \in 0 .. 8 /\ \A k \in Nat : k < 8 => k + 1 \in 0 .. 8 /\ k + 1 # 0 /\ (k + 1) - 1 = k
    OBVIOUS
  <2>2. c[0] = base
    BY <1>6, <2>1, Zenon
  <2>3. ASSUME NEW k \in Nat, k < 8 PROVE c[k + 1] = term(k + 1, c[k])
    <3>1. c[k + 1] = term(k + 1, c[(k + 1) - 1])
      BY <1>6, <2>1, <2>3, Zenon
    <3> QED BY <3>1, <2>1, <2>3
  <2> QED BY <2>2, <2>3
<1>8. \A k \in 0 .. 8 : c[k] \in Marks
  <2>1. ASSUME NEW k \in Nat, k < 8, c[k] \in Marks PROVE c[k + 1] \in Marks
    BY <2>1, <1>1, <1>7
  <2>2. c[0] \in Marks /\ 8 \in Nat
    BY <1>7
  <2> QED BY <2>1, <2>2, RunStays
<1>9. c \in [0 .. 8 -> Marks]
  BY <1>6, <1>8
<1> QED BY <1>2, <1>7, <1>9 DEF term

\* The lit ones among the neighbours of p that were looked at.
Lit(p, k) == {q \in image : \E j \in 1 .. k : q = B!Neighbour(p, j)}

\* What is marked is new, and just that is pushed.
Pushed(at, base, p, k) ==
  /\ at.visited = base.visited \cup Lit(p, k) /\ Once(at.stack)
  /\ OnStack(at.stack) = OnStack(base.stack) \cup (Lit(p, k) \ base.visited)

LEMMA SpreadsPush ==
  ASSUME NEW p, NEW base \in Marks, Once(base.stack), OnStack(base.stack) \in SUBSET base.visited
  PROVE  B!Spreads(p, base) \in Marks /\ Pushed(B!Spreads(p, base), base, p, 8)
<1>1. PICK after :
        /\ after \in [0 .. 8 -> Marks] /\ after[0] = base /\ B!Spreads(p, base) = after[8]
        /\ \A k \in Nat : k < 8 => after[k + 1] = B!Spread(after[k], B!Neighbour(p, k + 1))
  BY SpreadsRun
<1> DEFINE M == {k \in Nat : k <= 8 => Pushed(after[k], base, p, k)}
<1>2. 0 \in M
  <2>1. Lit(p, 0) = {}
    BY DEF Lit
  <2>2. Pushed(base, base, p, 0)
    BY <2>1 DEF Pushed
  <2> QED BY <2>2, <1>1
<1>3. ASSUME NEW k \in M PROVE k + 1 \in M
  <2>1. k \in Nat
    OBVIOUS
  <2>2. SUFFICES ASSUME k < 8 PROVE Pushed(after[k + 1], base, p, k + 1)
    BY <2>1
  <2>3. Pushed(after[k], base, p, k)
    BY <2>1, <2>2
  <2> HIDE DEF M
  <2> DEFINE q == B!Neighbour(p, k + 1)
  <2>4. PICK at \in Marks : at = after[k]
    BY <1>1, <2>1, <2>2
  <2>5. after[k + 1] = B!Spread(at, q)
    BY <1>1, <2>1, <2>2, <2>4
  <2>6. /\ at.visited = base.visited \cup Lit(p, k) /\ Once(at.stack)
        /\ OnStack(at.stack) = OnStack(base.stack) \cup (Lit(p, k) \ base.visited)
    BY <2>3, <2>4 DEF Pushed
  <2>7. Lit(p, k + 1) = IF q \in image THEN Lit(p, k) \cup {q} ELSE Lit(p, k)
    <3>1. \A j \in 1 .. k + 1 : j \in 1 .. k \/ j = k + 1
      BY <2>1
    <3>2. k + 1 \in 1 .. k + 1 /\ \A j \in 1 .. k : j \in 1 .. k + 1
      BY <2>1
    <3>3. \A x \in image : x \in Lit(p, k + 1) <=> x \in Lit(p, k) \/ x = q
      BY <3>1, <3>2 DEF Lit
    <3> HIDE DEF q
    <3>4. Lit(p, k) \in SUBSET image /\ Lit(p, k + 1) \in SUBSET image
      BY DEF Lit
    <3> QED BY <3>3, <3>4
  <2> HIDE DEF q
  <2>8. at.visited \in SUBSET image /\ at.stack \in Seq(image)
    BY DEF Marks
  <2>9. CASE q \in image \ at.visited
    <3>1. B!Spread(at, q) = [visited |-> at.visited \cup {q}, stack |-> Append(at.stack, q)]
      BY <2>9 DEF B!Spread
    <3>2. q \notin OnStack(at.stack)
      BY <2>6, <2>9
    <3>3. /\ Once(Append(at.stack, q))
          /\ OnStack(Append(at.stack, q)) = OnStack(at.stack) \cup {q}
      BY <2>6, <2>8, <2>9, <3>2, PushOnce
    <3>4. Lit(p, k + 1) = Lit(p, k) \cup {q} /\ q \notin base.visited
      BY <2>6, <2>7, <2>9
    <3> QED BY <3>1, <3>3, <3>4, <2>5, <2>6 DEF Pushed
  <2>10. CASE q \notin image \ at.visited
    <3>1. B!Spread(at, q) = at
      BY <2>10 DEF B!Spread
    <3>2. at.visited = base.visited \cup Lit(p, k + 1)
      BY <2>6, <2>7, <2>10
    <3>3. Lit(p, k + 1) \ base.visited = Lit(p, k) \ base.visited
      BY <2>6, <2>7, <2>10
    <3> QED BY <3>1, <3>2, <3>3, <2>5, <2>6 DEF Pushed
  <2> QED BY <2>9, <2>10
<1>4. Pushed(after[8], base, p, 8)
  <2>1. M \in SUBSET Nat
    OBVIOUS
  <2>2. 8 \in M
    <3> HIDE DEF M
    <3>1. 8 \in Nat
      OBVIOUS
    <3> QED BY <3>1, <1>2, <1>3, <2>1, Counting
  <2> QED BY <2>2
<1>5. after[8] \in Marks
  BY <1>1
<1> QED BY <1>1, <1>4, <1>5

\* The eight offsets reach all that touches a pixel.
LEMMA TouchingReached ==
  ASSUME NEW p \in Int \X Int, NEW q \in Int \X Int
  PROVE  B!Touching(q, p) <=> q = p \/ \E k \in 1 .. 8 : q = B!Neighbour(p, k)
<1>1. /\ p = <<p[1], p[2]>> /\ p[1] \in Int /\ p[2] \in Int
      /\ q = <<q[1], q[2]>> /\ q[1] \in Int /\ q[2] \in Int
  OBVIOUS
<1>2. PICK a \in Int, b \in Int, c \in Int, d \in Int : p = <<a, b>> /\ q = <<c, d>>
  BY <1>1
<1>3. /\ B!Neighbour(p, 1) = <<a - 1, b - 1>> /\ B!Neighbour(p, 2) = <<a, b - 1>>
      /\ B!Neighbour(p, 3) = <<a + 1, b - 1>> /\ B!Neighbour(p, 4) = <<a - 1, b>>
      /\ B!Neighbour(p, 5) = <<a + 1, b>> /\ B!Neighbour(p, 6) = <<a - 1, b + 1>>
      /\ B!Neighbour(p, 7) = <<a, b + 1>> /\ B!Neighbour(p, 8) = <<a + 1, b + 1>>
  BY <1>2 DEF B!Neighbour, B!Offsets
<1>4. B!Touching(q, p) <=> c - a \in -1 .. 1 /\ d - b \in -1 .. 1
  BY <1>2 DEF B!Touching
<1>5. ASSUME B!Touching(q, p), q # p PROVE \E k \in 1 .. 8 : q = B!Neighbour(p, k)
  <2>1. c \in {a - 1, a, a + 1} /\ d \in {b - 1, b, b + 1} /\ ~(c = a /\ d = b)
    BY <1>2, <1>4, <1>5
  <2>2. q \in {B!Neighbour(p, 1), B!Neighbour(p, 2), B!Neighbour(p, 3), B!Neighbour(p, 4),
               B!Neighbour(p, 5), B!Neighbour(p, 6), B!Neighbour(p, 7), B!Neighbour(p, 8)}
    BY <2>1, <1>2, <1>3
  <2>3. /\ 1 \in 1 .. 8 /\ 2 \in 1 .. 8 /\ 3 \in 1 .. 8 /\ 4 \in 1 .. 8
        /\ 5 \in 1 .. 8 /\ 6 \in 1 .. 8 /\ 7 \in 1 .. 8 /\ 8 \in 1 .. 8
    OBVIOUS
  <2> QED BY <2>2, <2>3
<1>6. ASSUME NEW k \in 1 .. 8, q = B!Neighbour(p, k) PROVE B!Touching(q, p)
  <2>1. k \in {1, 2, 3, 4, 5, 6, 7, 8}
    OBVIOUS
  <2>2. c \in {a - 1, a, a + 1} /\ d \in {b - 1, b, b + 1}
    BY <2>1, <1>2, <1>3, <1>6
  <2> QED BY <2>2, <1>4
<1>7. q = p => B!Touching(q, p)
  BY <1>2, <1>4
<1> QED BY <1>5, <1>6, <1>7

\* What is filled: marked during this fill and no longer on the stack.
Filled(img, vis, stk, n) == vis \ (Old(img, n) \cup OnStack(stk))

\* While the part of pixel n is filled, the old parts stay as they are, the marks keep
\* to the part, all around a filled pixel is marked, and the blob is the box of what is
\* filled.
Busy(img, vis, stk, n, cur) ==
  /\ n < Area /\ B!Pixel(n) \in vis \ Old(img, n)
  /\ Old(img, n) \in SUBSET vis /\ vis \in SUBSET (Old(img, n) \cup CompOf(img)[B!Pixel(n)])
  /\ OnStack(stk) \in SUBSET (vis \ Old(img, n))
  /\ \A q \in Filled(img, vis, stk, n), r \in img : B!Touching(r, q) => r \in vis
  /\ cur = B!NoBlob => Filled(img, vis, stk, n) = {}
  /\ cur # B!NoBlob => Filled(img, vis, stk, n) # {} /\ BoxIs(cur, Filled(img, vis, stk, n))

\* The inductive invariant of the flood fill.
FillInv(img, vis, stk, n, cur, bls) ==
  /\ img \in SUBSET B!Pixels /\ vis \in SUBSET img /\ stk \in Seq(img) /\ Once(stk)
  /\ n \in Nat /\ n <= Area /\ bls = Expected(img, n)
  /\ stk = << >> /\ cur = B!NoBlob => vis = Old(img, n)
  /\ stk # << >> \/ cur # B!NoBlob => Busy(img, vis, stk, n, cur)

LEMMA InitFills ==
  ASSUME B!BlobConstants, NEW img \in SUBSET B!Pixels
  PROVE  FillInv(img, {}, << >>, 0, B!NoBlob, << >>)
<1>1. Area \in Nat /\ \A p \in img : Index(p) \in Nat
  BY PixelIndex
<1>2. Old(img, 0) = {}
  <2>1. \A p \in img : CompOf(img)[p] \in SUBSET img
    BY ImageParts DEF Parts
  <2> QED BY <2>1, <1>1 DEF Old
<1>3. Expected(img, 0) = << >>
  <2>1. 0 \in Nat
    OBVIOUS
  <2> QED BY <2>1, ExpectedNext
<1>4. << >> \in Seq(img) /\ Once(<< >>)
  BY DEF Once
<1>5. 0 \in Nat /\ 0 <= Area
  BY <1>1
<1>6. {} \in SUBSET img
  OBVIOUS
<1> QED BY <1>2, <1>3, <1>4, <1>5, <1>6, Zenon DEF FillInv

LEMMA SeedFills ==
  ASSUME B!BlobConstants, NEW img, NEW vis, NEW n, NEW bls,
         FillInv(img, vis, << >>, n, B!NoBlob, bls), n < Area,
         NEW p, p = B!Pixel(n), p \in img \ vis
  PROVE  FillInv(img, vis \cup {p}, <<p>>, n, B!NoBlob, bls)
<1>1. /\ img \in SUBSET B!Pixels /\ vis \in SUBSET img /\ n \in Nat /\ n <= Area
      /\ bls = Expected(img, n) /\ vis = Old(img, n)
  BY DEF FillInv
<1>2. Parts(CompOf(img), img)
  BY <1>1, ImageParts
<1>3. p \in CompOf(img)[p]
  BY <1>2 DEF Parts
<1>4. <<p>> \in Seq(img) /\ Once(<<p>>) /\ OnStack(<<p>>) = {p} /\ <<p>> # << >>
  BY DEF Once, OnStack
<1>5. Filled(img, vis \cup {p}, <<p>>, n) = {}
  BY <1>1, <1>4 DEF Filled
<1>6. Busy(img, vis \cup {p}, <<p>>, n, B!NoBlob)
  BY <1>1, <1>3, <1>4, <1>5 DEF Busy
<1>7. vis \cup {p} \in SUBSET img
  BY <1>1
<1> QED BY <1>1, <1>4, <1>6, <1>7 DEF FillInv

LEMMA PassFills ==
  ASSUME B!BlobConstants, NEW img, NEW vis, NEW n, NEW bls,
         FillInv(img, vis, << >>, n, B!NoBlob, bls), n < Area,
         NEW p, p = B!Pixel(n), p \notin img \ vis
  PROVE  FillInv(img, vis, << >>, n + 1, B!NoBlob, bls)
<1>1. /\ img \in SUBSET B!Pixels /\ vis \in SUBSET img /\ n \in Nat /\ n <= Area
      /\ << >> \in Seq(img) /\ Once(<< >>)
      /\ bls = Expected(img, n) /\ vis = Old(img, n)
  BY DEF FillInv
<1>2. Area \in Nat
  BY PixelIndex
<1>3. /\ n + 1 \in Seeds(img) <=> p \in img \ Old(img, n)
      /\ p \in img => Old(img, n + 1) = Old(img, n) \cup CompOf(img)[p]
      /\ p \notin img => Old(img, n + 1) = Old(img, n)
      /\ p \in Old(img, n) => CompOf(img)[p] \in SUBSET Old(img, n)
  BY <1>1, OldNext
<1>4. Old(img, n + 1) = vis
  BY <1>1, <1>3
<1>5. Expected(img, n + 1) = bls
  BY <1>1, <1>3, ExpectedNext
<1>6. n + 1 \in Nat /\ n + 1 <= Area
  BY <1>1, <1>2
<1> QED BY <1>1, <1>4, <1>5, <1>6, Zenon DEF FillInv

LEMMA FinishFills ==
  ASSUME B!BlobConstants, NEW img, NEW vis, NEW n, NEW cur, NEW bls,
         FillInv(img, vis, << >>, n, cur, bls), cur # B!NoBlob
  PROVE  FillInv(img, vis, << >>, n + 1, B!NoBlob, Append(bls, cur))
<1> DEFINE s == B!Pixel(n)
           comp == CompOf(img)
           F == Filled(img, vis, << >>, n)
<1>1. /\ img \in SUBSET B!Pixels /\ vis \in SUBSET img /\ n \in Nat /\ n <= Area
      /\ << >> \in Seq(img) /\ Once(<< >>) /\ bls = Expected(img, n)
      /\ Busy(img, vis, << >>, n, cur)
  BY DEF FillInv
<1>2. /\ n < Area /\ s \in vis \ Old(img, n)
      /\ Old(img, n) \in SUBSET vis /\ vis \in SUBSET (Old(img, n) \cup comp[s])
      /\ \A q \in F, r \in img : B!Touching(r, q) => r \in vis
      /\ BoxIs(cur, F)
  BY <1>1 DEF Busy
<1>3. OnStack(<< >>) = {}
  BY DEF OnStack
<1>4. F = vis \ Old(img, n)
  BY <1>3 DEF Filled
<1>5. Parts(comp, img)
  BY <1>1, ImageParts
<1>6. Area \in Nat
  BY PixelIndex
<1>7. /\ n + 1 \in Seeds(img) <=> s \in img \ Old(img, n)
      /\ s \in img => Old(img, n + 1) = Old(img, n) \cup comp[s]
  BY <1>1, <1>2, OldNext
<1>8. \A p \in img : p \in Old(img, n) <=> \E q \in comp[p] : Index(q) < n
  BY DEF Old
<1> HIDE DEF s, comp, F
<1>9. F = comp[s]
  <2>1. F \in SUBSET comp[s] /\ s \in F /\ F \in SUBSET img
    BY <1>1, <1>2, <1>4
  <2>2. ASSUME NEW q \in F, NEW r \in img, B!Touching(r, q) PROVE r \in F
    <3>1. r \in vis /\ q \in img /\ r \in img
      BY <2>1, <2>2, <1>2
    <3>2. r \in comp[q]
      BY <3>1, <2>2, <1>5 DEF Parts
    <3>3. comp[r] = comp[q]
      BY <3>1, <3>2, <1>5 DEF Parts
    <3>4. r \notin Old(img, n)
      BY <3>1, <3>3, <1>4, <1>8
    <3> QED BY <3>1, <3>4, <1>4
  <2>3. comp[s] \in SUBSET F
    BY <2>1, <2>2, <1>1, <1>5 DEF Parts
  <2> QED BY <2>1, <2>3
<1>10. Old(img, n + 1) = vis
  BY <1>1, <1>2, <1>4, <1>7, <1>9
<1>11. cur = B!BoxOf(comp[s])
  <2>1. B!Pixels \in SUBSET (Int \X Int)
    BY DEF B!Pixels, B!BlobConstants
  <2>2. F \in SUBSET (Int \X Int)
    BY <2>1, <1>1, <1>4
  <2> QED BY <2>2, <1>2, <1>9, BoxIsBoxOf
<1>12. Expected(img, n + 1) = Append(bls, cur)
  <2>1. n + 1 \in Seeds(img)
    BY <1>1, <1>2, <1>7
  <2>2. Expected(img, n + 1) = Append(Expected(img, n), B!BoxOf(comp[s]))
    BY <2>1, <1>1, ExpectedNext DEF comp, s
  <2> QED BY <2>2, <1>1, <1>11
<1>13. n + 1 \in Nat /\ n + 1 <= Area
  BY <1>1, <1>2, <1>6
<1> QED BY <1>1, <1>10, <1>12, <1>13, Zenon DEF FillInv

LEMMA PopFills ==
  ASSUME B!BlobConstants, NEW n, NEW cur, NEW bls,
         FillInv(image, visited, fill_stack, n, cur, bls), fill_stack # << >>,
         NEW p, p = fill_stack[Len(fill_stack)],
         NEW end,
         end = B!Spreads(p, [visited |-> visited,
                             stack |-> SubSeq(fill_stack, 1, Len(fill_stack) - 1)]),
         NEW cur2, cur2 = IF cur = B!NoBlob THEN B!Dot(p) ELSE B!Cover(cur, B!Dot(p))
  PROVE  FillInv(image, end.visited, end.stack, n, cur2, bls)
<1> DEFINE old == Old(image, n)
           comp == CompOf(image)
           s == B!Pixel(n)
           left == SubSeq(fill_stack, 1, Len(fill_stack) - 1)
           base == [visited |-> visited, stack |-> left]
           new == Lit(p, 8) \ visited
           F == Filled(image, visited, fill_stack, n)
           F2 == Filled(image, end.visited, end.stack, n)
<1>1. /\ image \in SUBSET B!Pixels /\ visited \in SUBSET image /\ fill_stack \in Seq(image)
      /\ Once(fill_stack) /\ n \in Nat /\ n <= Area
      /\ bls = Expected(image, n) /\ Busy(image, visited, fill_stack, n, cur)
  BY DEF FillInv
<1>2. /\ n < Area /\ s \in visited \ old
      /\ old \in SUBSET visited /\ visited \in SUBSET (old \cup comp[s])
      /\ OnStack(fill_stack) \in SUBSET (visited \ old)
      /\ \A q \in F, r \in image : B!Touching(r, q) => r \in visited
      /\ cur = B!NoBlob => F = {}
      /\ cur # B!NoBlob => F # {} /\ BoxIs(cur, F)
  BY <1>1 DEF Busy
<1>3. /\ left \in Seq(image) /\ Once(left) /\ p \in image /\ p \in OnStack(fill_stack)
      /\ OnStack(left) = OnStack(fill_stack) \ {p}
  BY <1>1, PopOnce
<1>4. end \in Marks /\ Pushed(end, base, p, 8)
  <2>1. base \in Marks
    BY <1>1, <1>3 DEF Marks
  <2>2. base.stack = left /\ base.visited = visited
    OBVIOUS
  <2>3. Once(base.stack) /\ OnStack(base.stack) \in SUBSET base.visited
    BY <2>2, <1>2, <1>3
  <2> HIDE DEF base
  <2>4. B!Spreads(p, base) \in Marks /\ Pushed(B!Spreads(p, base), base, p, 8)
    BY <2>1, <2>3, SpreadsPush
  <2>5. end = B!Spreads(p, base)
    BY DEF base
  <2> QED BY <2>4, <2>5
<1>5. /\ end.visited \in SUBSET image /\ end.stack \in Seq(image) /\ Once(end.stack)
      /\ end.visited = visited \cup new
      /\ OnStack(end.stack) = (OnStack(fill_stack) \ {p}) \cup new
  BY <1>3, <1>4 DEF Marks, Pushed
<1>6. F = visited \ (old \cup OnStack(fill_stack))
      /\ F2 = end.visited \ (old \cup OnStack(end.stack))
  BY DEF Filled
<1>7. \A q \in new : q \in image /\ q \notin visited /\ \E k \in 1 .. 8 : q = B!Neighbour(p, k)
  BY DEF Lit
<1>8. \A q \in image : q \in visited \cup new \/ ~\E k \in 1 .. 8 : q = B!Neighbour(p, k)
  BY DEF Lit
<1>9. Parts(comp, image) /\ IsFiniteSet(image)
  BY <1>1, ImageParts, ImageGraph DEF IsGraph
<1>10. image \in SUBSET (Int \X Int)
  <2>1. B!Pixels \in SUBSET (Int \X Int)
    BY DEF B!Pixels, B!BlobConstants
  <2> QED BY <2>1, <1>1
<1> HIDE DEF old, comp, s, left, base, new, F, F2
<1>11. \A q \in image : B!Touching(q, p) <=> q = p \/ \E k \in 1 .. 8 : q = B!Neighbour(p, k)
  BY <1>3, <1>10, TouchingReached
<1>12. p \in comp[s] /\ s \in image /\ p \notin F /\ p \in visited /\ p \notin old
  BY <1>1, <1>2, <1>3, <1>6
<1>13. F2 = F \cup {p}
  BY <1>2, <1>5, <1>6, <1>7, <1>12
<1>14. end.visited \in SUBSET (old \cup comp[s])
  <2>1. ASSUME NEW q \in new PROVE q \in comp[s]
    <3>1. q \in image /\ B!Touching(q, p)
      BY <1>7, <1>11
    <3> QED BY <3>1, <1>9, <1>12 DEF Parts
  <2> QED BY <2>1, <1>2, <1>5
<1>15. ASSUME NEW q \in F2, NEW r \in image, B!Touching(r, q) PROVE r \in end.visited
  <2>1. CASE q \in F
    BY <2>1, <1>2, <1>5, <1>15
  <2>2. CASE q = p
    BY <2>2, <1>5, <1>8, <1>11, <1>12, <1>15
  <2> QED BY <2>1, <2>2, <1>13
<1>16. cur2 # B!NoBlob /\ BoxIs(cur2, F2)
  <2>1. p \in Int \X Int /\ F \in SUBSET (Int \X Int)
    BY <1>1, <1>3, <1>6, <1>10
  <2>2. IsFiniteSet(F)
    <3>1. F \in SUBSET image
      BY <1>1, <1>6
    <3> QED BY <3>1, <1>9, FS_Subset
  <2>3. BoxIs(B!Dot(p), {p}) /\ (BoxIs(cur, F) => BoxIs(B!Cover(cur, B!Dot(p)), F \cup {p}))
    BY <2>1, <2>2, <1>12, BoxGrows
  <2>4. BoxIs(cur2, F2)
    BY <2>3, <1>2, <1>13
  <2>5. Cardinality(F2) # 0
    <3>1. IsFiniteSet(F2)
      BY <2>2, <1>13, FS_AddElement
    <3> QED BY <3>1, <1>13, FS_EmptySet
  <2>6. cur2.pix_cnt # 0
    BY <2>4, <2>5 DEF BoxIs
  <2>7. B!NoBlob.pix_cnt = 0
    BY DEF B!NoBlob
  <2> QED BY <2>4, <2>6, <2>7
<1>17. Busy(image, end.visited, end.stack, n, cur2)
  <2>1. /\ s \in end.visited \ old /\ old \in SUBSET end.visited
        /\ OnStack(end.stack) \in SUBSET (end.visited \ old)
    BY <1>2, <1>5, <1>7
  <2>2. F2 # {}
    BY <1>13
  <2> QED BY <2>1, <2>2, <1>2, <1>14, <1>15, <1>16 DEF Busy, old, comp, s, F2
<1> QED BY <1>1, <1>5, <1>16, <1>17 DEF FillInv

\* Every step of the flood fill, for every image.
LEMMA FillStep ==
  ASSUME B!BlobConstants, B!BlobNext,
         FillInv(image, visited, fill_stack, next, current, blobs)
  PROVE  FillInv(image, visited, fill_stack, next, current, blobs)'
<1>1. SUFFICES FillInv(image', visited', fill_stack', next', current', blobs')
  BY DEF FillInv, Busy, Filled, Old, Expected, Seeds, CompOf, EdgesOf, OnStack, Once, BoxIs
<1>2. CASE B!Start
  <2>1. /\ fill_stack = << >> /\ current = B!NoBlob /\ next < Area
        /\ image' = image /\ current' = current /\ blobs' = blobs
        /\ IF B!Pixel(next) \in image \ visited
           THEN /\ visited' = visited \cup {B!Pixel(next)}
                /\ fill_stack' = <<B!Pixel(next)>> /\ next' = next
           ELSE next' = next + 1 /\ visited' = visited /\ fill_stack' = fill_stack
    BY <1>2 DEF B!Start, Area
  <2>2. CASE B!Pixel(next) \in image \ visited
    BY <2>1, <2>2, SeedFills
  <2>3. CASE B!Pixel(next) \notin image \ visited
    BY <2>1, <2>3, PassFills
  <2> QED BY <2>2, <2>3
<1>3. CASE B!Pop
  <2> DEFINE p == fill_stack[Len(fill_stack)]
             end == B!Spreads(p, [visited |-> visited,
                                  stack |-> SubSeq(fill_stack, 1, Len(fill_stack) - 1)])
  <2>1. /\ fill_stack # << >> /\ image' = image /\ next' = next /\ blobs' = blobs
        /\ current' = IF current = B!NoBlob THEN B!Dot(p) ELSE B!Cover(current, B!Dot(p))
        /\ visited' = end.visited /\ fill_stack' = end.stack
    BY <1>3 DEF B!Pop
  <2>2. FillInv(image, end.visited, end.stack, next, current', blobs)
    BY <2>1, PopFills
  <2> HIDE DEF end
  <2> QED BY <2>1, <2>2
<1>4. CASE B!Finish
  <2>1. /\ fill_stack = << >> /\ current # B!NoBlob /\ image' = image
        /\ visited' = visited /\ fill_stack' = fill_stack
        /\ blobs' = Append(blobs, current) /\ current' = B!NoBlob /\ next' = next + 1
    BY <1>4 DEF B!Finish
  <2> QED BY <2>1, FinishFills
<1> QED BY <1>2, <1>3, <1>4 DEF B!BlobNext

LEMMA FillImplied ==
  ASSUME B!BlobConstants, FillInv(image, visited, fill_stack, next, current, blobs)
  PROVE  B!FloodFill
<1>1. /\ image \in SUBSET B!Pixels /\ visited \in SUBSET image /\ fill_stack \in Seq(image)
      /\ Once(fill_stack) /\ blobs = Expected(image, next)
  BY DEF FillInv
<1>2. B!StackedOnce
  <2>1. DOMAIN fill_stack = 1 .. Len(fill_stack)
    BY <1>1, LenProperties
  <2>2. OnStack(fill_stack) \in SUBSET visited
    <3>1. fill_stack = << >> => OnStack(fill_stack) = {}
      BY DEF OnStack
    <3>2. fill_stack # << >> => OnStack(fill_stack) \in SUBSET visited
      BY DEF FillInv, Busy
    <3> QED BY <3>1, <3>2
  <2>3. \A i \in 1 .. Len(fill_stack) : fill_stack[i] \in visited
    BY <2>2 DEF OnStack
  <2> QED BY <2>1, <2>3, <1>1 DEF B!StackedOnce, Once
<1>3. B!BlobsAreComponents
  <2> DEFINE comp == [p \in image |-> B!Component(p, image, B!Touches)]
             seeds == {i \in 1 .. next :
                         /\ B!Pixel(i - 1) \in image
                         /\ \A q \in comp[B!Pixel(i - 1)] :
                              i - 1 <= q[2] * BLOB_WIDTH + q[1]}
             firsts == B!Listed(seeds, next)
  <2>1. SUFFICES ASSUME next = BLOB_WIDTH * BLOB_HEIGHT
                 PROVE  blobs = [k \in DOMAIN firsts |-> B!BoxOf(comp[B!Pixel(firsts[k] - 1)])]
    BY DEF B!BlobsAreComponents
  <2>2. B!Touches = EdgesOf(image)
    BY DEF B!Touches, EdgesOf
  <2>3. comp = CompOf(image)
    BY <2>2, Zenon DEF CompOf
  <2>4. next = Area
    BY <2>1 DEF Area
  <2> HIDE DEF comp
  <2>5. seeds = Seeds(image)
    BY <2>3, <2>4 DEF Seeds, Index
  <2> HIDE DEF seeds
  <2>6. blobs = [k \in DOMAIN B!Listed(Seeds(image), next) |->
                   B!BoxOf(CompOf(image)[B!Pixel(B!Listed(Seeds(image), next)[k] - 1)])]
    BY <1>1 DEF Expected
  <2> QED BY <2>3, <2>5, <2>6, Zenon
<1> QED BY <1>2, <1>3 DEF B!FloodFill

-----------------------------------------------------------------------------
(* merge_blobs: the union-find *)

Boxed == [x : Int, y : Int, x1 : Int, y1 : Int, pix_cnt : Int]

IsBoxes(bs, n) == n \in Nat /\ bs \in [1 .. n -> Boxed]

\* root gives the root of every node of a forest; depth falls on the way to it.
Rooted(parent, n, root, depth) ==
  /\ parent \in [1 .. n -> 1 .. n] /\ root \in [1 .. n -> 1 .. n] /\ depth \in [1 .. n -> Nat]
  /\ \A k \in 1 .. n : parent[root[k]] = root[k]
  /\ \A k \in 1 .. n : parent[k] = k => root[k] = k
  /\ \A k \in 1 .. n :
       parent[k] # k => root[k] = root[parent[k]] /\ depth[parent[k]] < depth[k]

LEMMA FindRoot ==
  ASSUME NEW n \in Nat, NEW parent, NEW root, NEW depth, Rooted(parent, n, root, depth),
         NEW i \in 1 .. n
  PROVE  B!Find(parent, i) = root[i]
<1> DEFINE c == CHOOSE f : f = [k \in 1 .. n |-> IF parent[k] = k THEN k ELSE f[parent[k]]]
<1>1. /\ parent \in [1 .. n -> 1 .. n] /\ root \in [1 .. n -> 1 .. n]
      /\ depth \in [1 .. n -> Nat] /\ \A k \in 1 .. n : parent[k] = k => root[k] = k
      /\ \A k \in 1 .. n :
           parent[k] # k => root[k] = root[parent[k]] /\ depth[parent[k]] < depth[k]
  BY DEF Rooted
<1>2. root = [k \in 1 .. n |-> IF parent[k] = k THEN k ELSE root[parent[k]]]
  <2>1. root = [k \in 1 .. n |-> root[k]]
    BY <1>1, Zenon
  <2>2. \A k \in 1 .. n : root[k] = IF parent[k] = k THEN k ELSE root[parent[k]]
    BY <1>1
  <2> QED BY <2>1, <2>2, Zenon
<1>3. DOMAIN parent = 1 .. n
  BY <1>1
<1>4. B!Find(parent, i) = c[i]
  BY <1>3 DEF B!Find
<1>5. c = [k \in 1 .. n |-> IF parent[k] = k THEN k ELSE c[parent[k]]]
  BY <1>2
<1> HIDE DEF c
<1>6. \A k \in 1 .. n : c[k] = IF parent[k] = k THEN k ELSE c[parent[k]]
  BY <1>5
<1> DEFINE M == {m \in Nat : \A k \in 1 .. n : depth[k] < m => c[k] = root[k]}
<1>7. 0 \in M
  BY <1>1
<1>8. ASSUME NEW m \in M PROVE m + 1 \in M
  <2>1. m \in Nat /\ \A k \in 1 .. n : depth[k] < m => c[k] = root[k]
    OBVIOUS
  <2>2. ASSUME NEW k \in 1 .. n, depth[k] < m + 1 PROVE c[k] = root[k]
    <3>1. CASE parent[k] = k
      BY <3>1, <1>1, <1>6
    <3>2. CASE parent[k] # k
      <4>1. parent[k] \in 1 .. n /\ depth[parent[k]] \in Nat /\ depth[k] \in Nat
        BY <1>1
      <4>2. depth[parent[k]] < m
        BY <3>2, <4>1, <2>1, <2>2, <1>1
      <4>3. c[k] = c[parent[k]] /\ root[k] = root[parent[k]]
        BY <3>2, <1>1, <1>6
      <4> QED BY <4>1, <4>2, <4>3, <2>1
    <3> QED BY <3>1, <3>2
  <2> QED BY <2>1, <2>2
<1>9. depth[i] + 1 \in M
  <2>1. M \in SUBSET Nat /\ depth[i] + 1 \in Nat
    BY <1>1
  <2> HIDE DEF M
  <2> QED BY <2>1, <1>7, <1>8, Counting
<1>10. c[i] = root[i]
  <2>1. depth[i] < depth[i] + 1
    BY <1>1
  <2> QED BY <2>1, <1>9
<1> QED BY <1>4, <1>10

\* The nodes of b's tree get the root of a's.
Moved(root, n, a, b) == [k \in 1 .. n |-> IF root[k] = root[b] THEN root[a] ELSE root[k]]

LEMMA UnionRooted ==
  ASSUME NEW n \in Nat, NEW parent, NEW root, NEW depth, Rooted(parent, n, root, depth),
         NEW a \in 1 .. n, NEW b \in 1 .. n
  PROVE  \E depth2 : Rooted(B!Union(parent, a, b), n, Moved(root, n, a, b), depth2)
<1> DEFINE parent2 == B!Union(parent, a, b)
           root2 == Moved(root, n, a, b)
           depth2 == [k \in 1 .. n |->
                        IF root[k] = root[b] THEN depth[k] + depth[root[a]] + 1 ELSE depth[k]]
<1>1. /\ parent \in [1 .. n -> 1 .. n] /\ root \in [1 .. n -> 1 .. n]
      /\ depth \in [1 .. n -> Nat] /\ \A k \in 1 .. n : parent[root[k]] = root[k]
      /\ \A k \in 1 .. n : parent[k] = k => root[k] = k
      /\ \A k \in 1 .. n :
           parent[k] # k => root[k] = root[parent[k]] /\ depth[parent[k]] < depth[k]
  BY DEF Rooted
<1>2. PICK ra \in 1 .. n, rb \in 1 .. n :
        ra = root[a] /\ rb = root[b] /\ root[ra] = ra /\ root[rb] = rb
  BY <1>1
<1>3. parent2 = [parent EXCEPT ![rb] = ra]
  <2>1. B!Find(parent, a) = ra /\ B!Find(parent, b) = rb
    <3>1. B!Find(parent, a) = root[a]
      BY FindRoot
    <3>2. B!Find(parent, b) = root[b]
      BY FindRoot
    <3> QED BY <3>1, <3>2, <1>2
  <2> QED BY <2>1 DEF B!Union
<1>4. /\ parent2 \in [1 .. n -> 1 .. n]
      /\ \A k \in 1 .. n : parent2[k] = IF k = rb THEN ra ELSE parent[k]
  BY <1>1, <1>3
<1>5. root2 \in [1 .. n -> 1 .. n]
      /\ \A k \in 1 .. n : root2[k] = IF root[k] = rb THEN ra ELSE root[k]
  BY <1>1, <1>2 DEF Moved
<1>6. CASE ra = rb
  <2>1. \A k \in 1 .. n : parent2[k] = parent[k] /\ root2[k] = root[k]
    BY <1>1, <1>2, <1>4, <1>5, <1>6
  <2> HIDE DEF parent2, root2
  <2>2. parent2 = parent /\ root2 = root
    BY <2>1, <1>1, <1>4, <1>5
  <2>3. Rooted(parent2, n, root2, depth)
    BY <2>2
  <2> QED BY <2>3 DEF parent2, root2
<1>7. CASE ra # rb
  <2>1. depth2 \in [1 .. n -> Nat]
        /\ \A k \in 1 .. n : depth2[k] = IF root[k] = rb THEN depth[k] + depth[ra] + 1
                                                         ELSE depth[k]
    <3>1. ASSUME NEW k \in 1 .. n
          PROVE  /\ depth2[k] = IF root[k] = rb THEN depth[k] + depth[ra] + 1 ELSE depth[k]
                 /\ depth[k] \in Nat /\ depth[ra] \in Nat
      BY <1>1, <1>2
    <3>2. depth2 = [k \in 1 .. n |-> depth2[k]]
      OBVIOUS
    <3> HIDE DEF depth2
    <3>3. \A k \in 1 .. n : depth2[k] \in Nat
      BY <3>1
    <3>4. depth2 \in [1 .. n -> Nat]
      BY <3>2, <3>3, Zenon
    <3> QED BY <3>1, <3>4
  <2> HIDE DEF parent2, root2, depth2
  <2>2. ASSUME NEW k \in 1 .. n PROVE parent2[root2[k]] = root2[k]
    <3>1. CASE root[k] = rb
      BY <3>1, <1>1, <1>2, <1>4, <1>5, <1>7
    <3>2. CASE root[k] # rb
      BY <3>2, <1>1, <1>4, <1>5
    <3> QED BY <3>1, <3>2
  <2>3. ASSUME NEW k \in 1 .. n, parent2[k] = k PROVE root2[k] = k
    <3>1. k # rb
      BY <2>3, <1>4, <1>7
    <3>2. parent[k] = k /\ root[k] = k
      BY <3>1, <2>3, <1>1, <1>4
    <3> QED BY <3>1, <3>2, <1>5
  <2>4. ASSUME NEW k \in 1 .. n, parent2[k] # k
        PROVE  root2[k] = root2[parent2[k]] /\ depth2[parent2[k]] < depth2[k]
    <3>1. CASE k = rb
      <4>1. parent2[k] = ra /\ root2[k] = ra /\ root2[ra] = ra
        BY <3>1, <1>2, <1>4, <1>5, <1>7
      <4>2. depth2[ra] = depth[ra] /\ depth2[k] = depth[k] + depth[ra] + 1
        BY <3>1, <2>1, <1>2, <1>7
      <4>3. depth[ra] \in Nat /\ depth[k] \in Nat
        BY <1>1
      <4> QED BY <4>1, <4>2, <4>3
    <3>2. CASE k # rb
      <4>1. parent2[k] = parent[k] /\ parent[k] # k /\ parent[k] \in 1 .. n
        BY <3>2, <2>4, <1>1, <1>4
      <4>2. root[k] = root[parent[k]] /\ depth[parent[k]] < depth[k]
        BY <4>1, <1>1
      <4>3. depth[ra] \in Nat /\ depth[k] \in Nat /\ depth[parent[k]] \in Nat
        BY <4>1, <1>1
      <4>4. root2[k] = root2[parent[k]]
        BY <4>1, <4>2, <1>5
      <4>5. depth2[parent[k]] < depth2[k]
        <5>1. /\ depth2[k] = IF root[k] = rb THEN depth[k] + depth[ra] + 1 ELSE depth[k]
              /\ depth2[parent[k]] = IF root[k] = rb THEN depth[parent[k]] + depth[ra] + 1
                                                     ELSE depth[parent[k]]
          BY <4>1, <4>2, <2>1
        <5> QED BY <5>1, <4>2, <4>3
      <4> QED BY <4>1, <4>4, <4>5
    <3> QED BY <3>1, <3>2
  <2>5. Rooted(parent2, n, root2, depth2)
    BY <2>1, <2>2, <2>3, <2>4, <1>4, <1>5 DEF Rooted
  <2> QED BY <2>5 DEF parent2, root2
<1> QED BY <1>6, <1>7

IsForest(parent, n) == \E root, depth : Rooted(parent, n, root, depth)

Forests(n) == {parent \in [1 .. n -> 1 .. n] : IsForest(parent, n)}

\* A round of the loops joins its pair or changes nothing.
LEMMA JoinedRooted ==
  ASSUME NEW n \in Nat, NEW bs, NEW parent \in Forests(n), NEW p \in (1 .. n) \X (1 .. n)
  PROVE  B!Joined(parent, bs, p) \in Forests(n)
<1>1. PICK root, depth : Rooted(parent, n, root, depth)
  BY DEF Forests, IsForest
<1>2. p[1] \in 1 .. n /\ p[2] \in 1 .. n
  OBVIOUS
<1>3. PICK depth2 : Rooted(B!Union(parent, p[1], p[2]), n, Moved(root, n, p[1], p[2]), depth2)
  BY <1>1, <1>2, UnionRooted
<1>4. B!Union(parent, p[1], p[2]) \in Forests(n)
  <2>1. B!Union(parent, p[1], p[2]) \in [1 .. n -> 1 .. n]
    BY <1>3 DEF Rooted
  <2> QED BY <2>1, <1>3 DEF Forests, IsForest
<1> QED BY <1>4 DEF B!Joined

LEMMA RoundRange ==
  ASSUME NEW n \in Nat
  PROVE  /\ n * n \in Nat
         /\ \A k \in Nat : k < n * n => B!Round(k + 1, n) \in (1 .. n) \X (1 .. n)
         /\ \A i, j \in 1 .. n : \E k \in Nat : k < n * n /\ B!Round(k + 1, n) = <<i, j>>
<1>1. n * n \in Nat
  OBVIOUS
<1>2. ASSUME NEW k \in Nat, k < n * n PROVE B!Round(k + 1, n) \in (1 .. n) \X (1 .. n)
  <2>1. n \in Nat \ {0}
    BY <1>2
  <2>2. PICK q \in Int, r \in Int :
          q = k \div n /\ r = k % n /\ k = n * q + r /\ 0 <= r /\ r < n
    BY <2>1
  <2>3. q >= 0
    <3>1. q <= -1 => n * q <= - n
      OBVIOUS
    <3> QED BY <2>2, <3>1
  <2>4. q < n
    <3>1. q >= n => n * q >= n * n
      OBVIOUS
    <3> QED BY <2>2, <3>1, <1>2, <1>1
  <2>5. (k + 1) - 1 = k
    OBVIOUS
  <2>6. B!Round(k + 1, n) = <<q + 1, r + 1>>
    BY <2>2, <2>5 DEF B!Round
  <2> QED BY <2>2, <2>3, <2>4, <2>6
<1>3. ASSUME NEW i \in 1 .. n, NEW j \in 1 .. n
      PROVE  \E k \in Nat : k < n * n /\ B!Round(k + 1, n) = <<i, j>>
  <2>1. PICK a \in Nat, r \in 0 .. n - 1 : a = i - 1 /\ r = j - 1 /\ n \in Nat \ {0}
    OBVIOUS
  <2>2. (a * n + r) \div n = a /\ (a * n + r) % n = r
    BY <2>1, Digit
  <2>3. a * n + r \in Nat /\ a * n + r < n * n
    <3>1. a * n \in Nat /\ n * n >= n * (a + 1)
      BY <2>1
    <3>2. n * (a + 1) = a * n + n
      OBVIOUS
    <3> QED BY <3>1, <3>2
  <2>4. PICK k \in Nat : k = a * n + r
    BY <2>3
  <2>5. (k + 1) - 1 = k
    OBVIOUS
  <2>6. B!Round(k + 1, n) = <<a + 1, r + 1>>
    BY <2>2, <2>4, <2>5 DEF B!Round
  <2>7. a + 1 = i /\ r + 1 = j
    BY <2>1
  <2> QED BY <2>3, <2>4, <2>6, <2>7
<1> QED BY <1>1, <1>2, <1>3

\* parent[k] is the forest after k rounds of the loops.
ParentSteps(parent, m, bs, n) ==
  /\ m = n * n /\ parent \in [0 .. m -> Forests(n)] /\ B!Parents(bs) = parent[m]
  /\ parent[0] = [i \in 1 .. n |-> i]
  /\ \A k \in Nat : k < m => parent[k + 1] = B!Joined(parent[k], bs, B!Round(k + 1, n))

LEMMA ParentsRun ==
  ASSUME NEW bs, NEW n, IsBoxes(bs, n)
  PROVE  \E m \in Nat : \E parent : ParentSteps(parent, m, bs, n)
<1>1. n \in Nat /\ Len(bs) = n
  <2>1. n \in Nat
    BY DEF IsBoxes
  <2> QED BY <2>1, LenProperties DEF IsBoxes
<1>2. PICK m \in Nat : m = n * n
  BY <1>1, RoundRange
<1>3. \A k \in Nat : k < m => B!Round(k + 1, n) \in (1 .. n) \X (1 .. n)
  BY <1>1, <1>2, RoundRange
<1> DEFINE V == Forests(n)
           base == [i \in 1 .. n |-> i]
           term(k, v) == B!Joined(v, bs, B!Round(k, n))
           step == [x \in Nat \X V |-> IF x[1] \in 1 .. m THEN term(x[1], x[2]) ELSE base]
           c == CHOOSE f : f = [k \in 0 .. m |-> IF k = 0 THEN base ELSE term(k, f[k - 1])]
<1>4. ASSUME NEW k \in 1 .. m, NEW v \in V PROVE term(k, v) \in V
  <2>1. k - 1 \in Nat /\ k - 1 < m /\ (k - 1) + 1 = k
    OBVIOUS
  <2>2. B!Round(k, n) \in (1 .. n) \X (1 .. n)
    BY <2>1, <1>3
  <2> HIDE DEF V
  <2> QED BY <2>2, <1>1, JoinedRooted DEF V
<1>5. base \in V
  <2>1. Rooted(base, n, base, [i \in 1 .. n |-> 0])
    BY DEF Rooted
  <2>2. base \in [1 .. n -> 1 .. n]
    OBVIOUS
  <2> HIDE DEF base
  <2> QED BY <2>1, <2>2 DEF Forests, IsForest
<1>6. B!Parents(bs) = c[m]
  BY <1>1, <1>2 DEF B!Parents
<1> HIDE DEF term, V, base
<1>7. step \in [Nat \X V -> V]
  BY <1>4, <1>5
<1>8. PICK g \in [0 .. m -> V] : Run(g, m, base, step)
  <2> HIDE DEF step
  <2> QED BY <1>5, <1>7, RunExists
<1>9. g = [k \in 0 .. m |-> IF k = 0 THEN base ELSE term(k, g[k - 1])]
  <2>1. ASSUME NEW k \in 1 .. m PROVE g[k] = term(k, g[k - 1])
    <3>1. k - 1 \in Nat /\ k - 1 < m /\ (k - 1) + 1 = k /\ k - 1 \in 0 .. m /\ k \in Nat
      BY <2>1
    <3>2. g[k] = step[<<k, g[k - 1]>>]
      BY <3>1, <1>8 DEF Run
    <3>3. g[k - 1] \in V
      BY <3>1, <1>8
    <3> QED BY <3>1, <3>2, <3>3
  <2> HIDE DEF step
  <2>2. g[0] = base /\ g = [k \in 0 .. m |-> g[k]]
    BY <1>8 DEF Run
  <2>3. ASSUME NEW k \in 0 .. m PROVE g[k] = IF k = 0 THEN base ELSE term(k, g[k - 1])
    <3>1. k # 0 => k \in 1 .. m
      OBVIOUS
    <3> QED BY <3>1, <2>1, <2>2
  <2> QED BY <2>2, <2>3, Zenon
<1>10. c = [k \in 0 .. m |-> IF k = 0 THEN base ELSE term(k, c[k - 1])]
  BY <1>9
<1> HIDE DEF c, step
<1>11. c[0] = base /\ \A k \in Nat : k < m => c[k + 1] = term(k + 1, c[k])
  <2>1. 0 \in 0 .. m /\ \A k \in Nat : k < m => k + 1 \in 0 .. m /\ k + 1 # 0 /\ (k + 1) - 1 = k
    OBVIOUS
  <2>2. c[0] = base
    BY <1>10, <2>1, Zenon
  <2>3. ASSUME NEW k \in Nat, k < m PROVE c[k + 1] = term(k + 1, c[k])
    <3>1. c[k + 1] = term(k + 1, c[(k + 1) - 1])
      BY <1>10, <2>1, <2>3, Zenon
    <3> QED BY <3>1, <2>1, <2>3
  <2> QED BY <2>2, <2>3
<1>12. \A k \in 0 .. m : c[k] \in V
  <2>1. ASSUME NEW k \in Nat, k < m, c[k] \in V PROVE c[k + 1] \in V
    <3>1. k + 1 \in 1 .. m
      BY <2>1
    <3> QED BY <3>1, <2>1, <1>4, <1>11
  <2>2. c[0] \in V
    BY <1>5, <1>11
  <2> QED BY <2>1, <2>2, RunStays
<1>13. c \in [0 .. m -> V]
  BY <1>10, <1>12
<1> QED BY <1>2, <1>6, <1>11, <1>13 DEF V, term, base, ParentSteps

\* The graph of near blobs.
NearEdges(bs, n) == {e \in (1 .. n) \X (1 .. n) : B!Near(bs[e[1]], bs[e[2]])}

NearComp(bs, n) == [i \in 1 .. n |-> B!Component(i, 1 .. n, NearEdges(bs, n))]

LEMMA NearGraph ==
  ASSUME B!BlobConstants, NEW bs, NEW n, IsBoxes(bs, n)
  PROVE  IsGraph(1 .. n, NearEdges(bs, n))
<1>1. n \in Nat /\ bs \in [1 .. n -> Boxed]
  BY DEF IsBoxes
<1>2. IsFiniteSet(1 .. n)
  <2>1. 1 \in Int /\ n \in Int
    BY <1>1
  <2> QED BY <2>1, FS_Interval
<1>3. ASSUME NEW e \in NearEdges(bs, n) PROVE <<e[2], e[1]>> \in NearEdges(bs, n)
  <2>1. e[1] \in 1 .. n /\ e[2] \in 1 .. n /\ B!Near(bs[e[1]], bs[e[2]])
    BY DEF NearEdges
  <2>2. B!Near(bs[e[2]], bs[e[1]])
    BY <2>1 DEF B!Near
  <2> QED BY <2>1, <2>2 DEF NearEdges
<1> QED BY <1>2, <1>3 DEF IsGraph, NearEdges

\* The roots are those of the connected parts.
PartRoots(root, comp, n) ==
  /\ root \in [1 .. n -> 1 .. n]
  /\ \A i \in 1 .. n : comp[i] = {j \in 1 .. n : root[j] = root[i]}

LEMMA RootsOfParts ==
  ASSUME B!BlobConstants, NEW bs, NEW n, IsBoxes(bs, n)
  PROVE  \E root :
           /\ PartRoots(root, NearComp(bs, n), n)
           /\ \A i \in 1 .. n : B!Find(B!Parents(bs), i) = root[i]
<1> DEFINE comp == NearComp(bs, n)
           E == NearEdges(bs, n)
<1>0. n \in Nat
  BY DEF IsBoxes
<1> PICK m, parent : m \in Nat /\ ParentSteps(parent, m, bs, n)
  BY ParentsRun
<1>1. /\ m = n * n /\ parent \in [0 .. m -> Forests(n)] /\ B!Parents(bs) = parent[m]
      /\ parent[0] = [i \in 1 .. n |-> i]
      /\ \A k \in Nat : k < m =>
           parent[k + 1] = B!Joined(parent[k], bs, B!Round(k + 1, n))
  BY DEF ParentSteps
<1>2. IsGraph(1 .. n, E) /\ comp = [r \in 1 .. n |-> B!Component(r, 1 .. n, E)]
  BY NearGraph DEF NearComp
<1>3. \A i, j \in 1 .. n : B!Near(bs[i], bs[j]) <=> <<i, j>> \in E
  BY DEF NearEdges
<1>4. \A e \in E : /\ e[1] \in 1 .. n /\ e[2] \in 1 .. n
                   /\ B!Near(bs[e[1]], bs[e[2]]) /\ B!Near(bs[e[2]], bs[e[1]])
  <2>1. ASSUME NEW e \in E
        PROVE  e[1] \in 1 .. n /\ e[2] \in 1 .. n /\ B!Near(bs[e[1]], bs[e[2]])
    BY DEF NearEdges
  <2>2. \A i, j \in 1 .. n : B!Near(bs[i], bs[j]) => B!Near(bs[j], bs[i])
    BY DEF B!Near
  <2> QED BY <2>1, <2>2
<1> HIDE DEF comp, E
<1>20. \A i \in 1 .. n : \A j \in comp[i] : comp[j] = comp[i]
  <2>1. ASSUME NEW i \in 1 .. n, NEW j \in comp[i] PROVE comp[j] = comp[i]
    <3>1. comp[i] = B!Component(i, 1 .. n, E) /\ j \in B!Component(i, 1 .. n, E)
      BY <1>2
    <3>2. j \in 1 .. n /\ B!Component(j, 1 .. n, E) = B!Component(i, 1 .. n, E)
      <4> DEFINE N == 1 .. n
      <4>1. IsGraph(N, E) /\ i \in N /\ j \in B!Component(i, N, E)
        BY <3>1, <1>2
      <4> HIDE DEF N
      <4>2. j \in N /\ B!Component(j, N, E) = B!Component(i, N, E)
        BY <4>1, SameReached
      <4> QED BY <4>2 DEF N
    <3> QED BY <3>1, <3>2, <1>2
  <2> QED BY <2>1
<1>5. ASSUME NEW i \in 1 .. n
      PROVE  /\ i \in comp[i] /\ comp[i] \in SUBSET (1 .. n) /\ Closed(comp[i], E)
             /\ \A R : i \in R /\ Closed(R, E) => comp[i] \in SUBSET R
             /\ \A j \in comp[i] : comp[j] = comp[i]
  <2>1. Reached(comp[i], i, 1 .. n, E)
    BY <1>2, ComponentIsReached
  <2> QED BY <2>1, <1>20 DEF Reached
<1>6. ASSUME NEW i \in 1 .. n, NEW j \in 1 .. n, B!Near(bs[i], bs[j]) PROVE comp[i] = comp[j]
  <2>1. PICK e : e = <<i, j>>
    OBVIOUS
  <2>2. e \in E /\ e[1] = i /\ e[2] = j
    BY <2>1, <1>3, <1>6
  <2>3. i \in comp[j]
    BY <2>2, <1>5 DEF Closed
  <2> QED BY <2>3, <1>5
<1> DEFINE Pair(k) == B!Round(k, n)
           Sound(root) == \A i \in 1 .. n : comp[root[i]] = comp[i]
           Joins(root, k) == \A l \in Nat : l < k /\ Pair(l + 1)[1] < Pair(l + 1)[2]
                               /\ B!Near(bs[Pair(l + 1)[1]], bs[Pair(l + 1)[2]])
                                 => root[Pair(l + 1)[1]] = root[Pair(l + 1)[2]]
           Good(k) == \E root, depth :
                        Rooted(parent[k], n, root, depth) /\ Sound(root) /\ Joins(root, k)
           M == {k \in Nat : k <= m => Good(k)}
<1>7. /\ \A k \in Nat : k < m => Pair(k + 1) \in (1 .. n) \X (1 .. n)
      /\ \A i, j \in 1 .. n : \E k \in Nat : k < m /\ Pair(k + 1) = <<i, j>>
  <2>1. m = n * n
    BY <1>1
  <2>2. /\ \A k \in Nat : k < n * n => Pair(k + 1) \in (1 .. n) \X (1 .. n)
        /\ \A i, j \in 1 .. n : \E k \in Nat : k < n * n /\ Pair(k + 1) = <<i, j>>
    BY <1>0, RoundRange
  <2> HIDE DEF Pair
  <2> QED BY <2>1, <2>2
<1> HIDE DEF Pair
<1>8. 0 \in M
  <2> DEFINE id == [i \in 1 .. n |-> i]
             zero == [i \in 1 .. n |-> 0]
  <2>1. Rooted(id, n, id, zero)
    BY DEF Rooted
  <2>2. Sound(id)
    OBVIOUS
  <2>3. Joins(id, 0)
    OBVIOUS
  <2>4. parent[0] = id
    BY <1>1
  <2> HIDE DEF Sound, Joins, id, zero
  <2>5. Good(0)
    BY <2>1, <2>2, <2>3, <2>4
  <2> QED BY <2>5
<1>9. ASSUME NEW k \in M PROVE k + 1 \in M
  <2>1. k \in Nat
    OBVIOUS
  <2>2. SUFFICES ASSUME k < m PROVE Good(k + 1)
    BY <2>1
  <2>3. Good(k)
    BY <2>1, <2>2
  <2> HIDE DEF M
  <2>4. PICK root, depth : Rooted(parent[k], n, root, depth) /\ Sound(root) /\ Joins(root, k)
    BY <2>3
  <2>5. PICK a \in 1 .. n, b \in 1 .. n : Pair(k + 1) = <<a, b>>
    BY <2>1, <2>2, <1>7
  <2>6. parent[k + 1] = IF a < b /\ B!Near(bs[a], bs[b])
                        THEN B!Union(parent[k], a, b) ELSE parent[k]
    BY <2>1, <2>2, <2>5, <1>1 DEF B!Joined, Pair
  <2>7. CASE a < b /\ B!Near(bs[a], bs[b])
    <3> DEFINE root2 == Moved(root, n, a, b)
    <3>1. PICK depth2 : Rooted(parent[k + 1], n, root2, depth2)
      BY <2>4, <2>6, <2>7, <1>0, UnionRooted
    <3>2. root \in [1 .. n -> 1 .. n]
      BY <2>4 DEF Rooted
    <3>3. \A i \in 1 .. n : root2[i] = IF root[i] = root[b] THEN root[a] ELSE root[i]
      BY DEF Moved
    <3>4. comp[root[a]] = comp[root[b]]
      BY <2>4, <2>7, <1>6
    <3> HIDE DEF root2
    <3>5. Sound(root2)
      BY <3>2, <3>3, <3>4, <2>4
    <3>6. Joins(root2, k + 1)
      <4>1. SUFFICES ASSUME NEW l \in Nat, l < k + 1, Pair(l + 1)[1] < Pair(l + 1)[2],
                            B!Near(bs[Pair(l + 1)[1]], bs[Pair(l + 1)[2]])
                     PROVE  root2[Pair(l + 1)[1]] = root2[Pair(l + 1)[2]]
        OBVIOUS
      <4>2. CASE l = k
        <5>1. Pair(l + 1)[1] = a /\ Pair(l + 1)[2] = b
          BY <4>2, <2>5
        <5>2. root2[a] = root[a] /\ root2[b] = root[a]
          BY <3>3
        <5> QED BY <5>1, <5>2
      <4>3. CASE l # k
        <5>1. l < k /\ l < m
          BY <4>1, <4>3, <2>1, <2>2
        <5>2. root[Pair(l + 1)[1]] = root[Pair(l + 1)[2]]
          BY <4>1, <5>1, <2>4
        <5>3. Pair(l + 1)[1] \in 1 .. n /\ Pair(l + 1)[2] \in 1 .. n
          BY <5>1, <1>7
        <5> QED BY <5>2, <5>3, <3>3
      <4> QED BY <4>2, <4>3
    <3> HIDE DEF Sound, Joins
    <3> QED BY <3>1, <3>5, <3>6
  <2>8. CASE ~(a < b /\ B!Near(bs[a], bs[b]))
    <3>1. parent[k + 1] = parent[k]
      BY <2>6, <2>8
    <3>2. Joins(root, k + 1)
      <4>1. SUFFICES ASSUME NEW l \in Nat, l < k + 1, Pair(l + 1)[1] < Pair(l + 1)[2],
                            B!Near(bs[Pair(l + 1)[1]], bs[Pair(l + 1)[2]])
                     PROVE  root[Pair(l + 1)[1]] = root[Pair(l + 1)[2]]
        OBVIOUS
      <4>2. l # k
        BY <4>1, <2>5, <2>8
      <4>3. l < k
        BY <4>1, <4>2, <2>1
      <4> QED BY <4>1, <4>3, <2>4
    <3> HIDE DEF Sound, Joins
    <3> QED BY <3>1, <3>2, <2>4
  <2> QED BY <2>7, <2>8
<1>10. Good(m)
  <2>1. M \in SUBSET Nat
    OBVIOUS
  <2>2. m \in M
    <3> HIDE DEF M
    <3> QED BY <1>8, <1>9, <2>1, Counting
  <2> QED BY <2>2
<1> HIDE DEF M
<1>11. PICK root, depth : Rooted(parent[m], n, root, depth) /\ Sound(root) /\ Joins(root, m)
  BY <1>10
<1>12. root \in [1 .. n -> 1 .. n]
  BY <1>11 DEF Rooted
<1>13. ASSUME NEW i \in 1 .. n, NEW j \in 1 .. n, i < j, B!Near(bs[i], bs[j])
       PROVE  root[i] = root[j]
  <2>1. PICK k \in Nat : k < m /\ Pair(k + 1) = <<i, j>>
    BY <1>7
  <2>2. Pair(k + 1)[1] = i /\ Pair(k + 1)[2] = j
    BY <2>1
  <2> QED BY <2>1, <2>2, <1>11, <1>13
<1>14. \A e \in E : root[e[1]] = root[e[2]]
  <2>1. ASSUME NEW e \in E PROVE root[e[1]] = root[e[2]]
    <3>1. e[1] \in 1 .. n /\ e[2] \in 1 .. n /\ B!Near(bs[e[1]], bs[e[2]])
          /\ B!Near(bs[e[2]], bs[e[1]])
      BY <1>4
    <3>2. e[1] < e[2] \/ e[1] = e[2] \/ e[2] < e[1]
      BY <3>1
    <3> QED BY <3>1, <3>2, <1>13
  <2> QED BY <2>1
<1>15. ASSUME NEW i \in 1 .. n PROVE comp[i] = {j \in 1 .. n : root[j] = root[i]}
  <2> DEFINE R == {j \in 1 .. n : root[j] = root[i]}
  <2>1. Closed(R, E) /\ i \in R
    BY <1>4, <1>14 DEF Closed
  <2>2. comp[i] \in SUBSET R
    <3> HIDE DEF R
    <3> QED BY <2>1, <1>5
  <2>3. ASSUME NEW j \in R PROVE j \in comp[i]
    <3>1. j \in 1 .. n /\ root[j] = root[i]
      OBVIOUS
    <3>2. comp[j] = comp[root[i]] /\ comp[i] = comp[root[i]]
      BY <3>1, <1>11
    <3> QED BY <3>1, <3>2, <1>5
  <2> QED BY <2>2, <2>3
<1>16. PartRoots(root, comp, n)
  BY <1>12, <1>15 DEF PartRoots
<1>17. \A i \in 1 .. n : B!Find(B!Parents(bs), i) = root[i]
  BY <1>0, <1>1, <1>11, FindRoot
<1> QED BY <1>16, <1>17 DEF comp

-----------------------------------------------------------------------------
(* merge_blobs: the boxes *)

\* The pixels of the blobs of c up to a number.
PixSum(bs, c) ==
  LET sum[k \in 0 .. Len(bs)] ==
        IF k = 0 THEN 0 ELSE sum[k - 1] + (IF k \in c THEN bs[k].pix_cnt ELSE 0)
  IN  sum

LEMMA PixSumRun ==
  ASSUME NEW bs, NEW n, IsBoxes(bs, n), NEW c
  PROVE  /\ PixSum(bs, c)[0] = 0 /\ \A k \in 0 .. n : PixSum(bs, c)[k] \in Int
         /\ \A k \in Nat : k < n =>
              PixSum(bs, c)[k + 1]
                = PixSum(bs, c)[k] + (IF k + 1 \in c THEN bs[k + 1].pix_cnt ELSE 0)
<1>1. n \in Nat /\ Len(bs) = n /\ \A k \in 1 .. n : bs[k].pix_cnt \in Int
  <2>1. n \in Nat /\ bs \in [1 .. n -> Boxed]
    BY DEF IsBoxes
  <2> QED BY <2>1, LenProperties DEF Boxed
<1> DEFINE term(k, v) == v + (IF k \in c THEN bs[k].pix_cnt ELSE 0)
           step == [x \in Nat \X Int |-> IF x[1] \in 1 .. n THEN term(x[1], x[2]) ELSE 0]
           s == CHOOSE f : f = [k \in 0 .. n |-> IF k = 0 THEN 0 ELSE term(k, f[k - 1])]
<1>2. ASSUME NEW k \in 1 .. n, NEW v \in Int PROVE term(k, v) \in Int
  BY <1>1
<1>3. PixSum(bs, c) = s
  BY <1>1 DEF PixSum
<1> HIDE DEF term
<1>4. step \in [Nat \X Int -> Int]
  BY <1>2
<1>5. PICK g \in [0 .. n -> Int] : Run(g, n, 0, step)
  <2> HIDE DEF step
  <2>1. 0 \in Int /\ n \in Nat
    BY <1>1
  <2> QED BY <2>1, <1>4, RunExists
<1>6. g = [k \in 0 .. n |-> IF k = 0 THEN 0 ELSE term(k, g[k - 1])]
  <2>1. ASSUME NEW k \in 1 .. n PROVE g[k] = term(k, g[k - 1])
    <3>1. k - 1 \in Nat /\ k - 1 < n /\ (k - 1) + 1 = k /\ k - 1 \in 0 .. n /\ k \in Nat
      BY <2>1, <1>1
    <3>2. g[k] = step[<<k, g[k - 1]>>]
      BY <3>1, <1>5 DEF Run
    <3>3. g[k - 1] \in Int
      BY <3>1, <1>5
    <3> QED BY <3>1, <3>2, <3>3
  <2> HIDE DEF step
  <2>2. g[0] = 0 /\ g = [k \in 0 .. n |-> g[k]]
    BY <1>5 DEF Run
  <2>3. ASSUME NEW k \in 0 .. n PROVE g[k] = IF k = 0 THEN 0 ELSE term(k, g[k - 1])
    <3>1. k # 0 => k \in 1 .. n
      BY <1>1
    <3> QED BY <3>1, <2>1, <2>2
  <2> QED BY <2>2, <2>3, Zenon
<1>7. s = [k \in 0 .. n |-> IF k = 0 THEN 0 ELSE term(k, s[k - 1])]
  BY <1>6
<1> HIDE DEF s, step
<1>8. s[0] = 0 /\ \A k \in Nat : k < n => s[k + 1] = term(k + 1, s[k])
  <2>1. 0 \in 0 .. n /\ \A k \in Nat : k < n => k + 1 \in 0 .. n /\ k + 1 # 0 /\ (k + 1) - 1 = k
    BY <1>1
  <2>2. s[0] = 0
    BY <1>7, <2>1, Zenon
  <2>3. ASSUME NEW k \in Nat, k < n PROVE s[k + 1] = term(k + 1, s[k])
    <3>1. s[k + 1] = term(k + 1, s[(k + 1) - 1])
      BY <1>7, <2>1, <2>3, Zenon
    <3> QED BY <3>1, <2>1, <2>3
  <2> QED BY <2>2, <2>3
<1>9. \A k \in 0 .. n : s[k] \in Int
  <2>1. ASSUME NEW k \in Nat, k < n, s[k] \in Int PROVE s[k + 1] \in Int
    <3>1. k + 1 \in 1 .. n
      BY <2>1, <1>1
    <3> QED BY <3>1, <2>1, <1>2, <1>8
  <2>2. s[0] \in Int
    BY <1>8
  <2> QED BY <2>1, <2>2, <1>1, RunStays
<1> QED BY <1>3, <1>8, <1>9 DEF term

\* No blob, no pixels.
LEMMA PixSumNone ==
  ASSUME NEW bs, NEW n, IsBoxes(bs, n), NEW c, NEW i \in 0 .. n, \A k \in 1 .. i : k \notin c
  PROVE  PixSum(bs, c)[i] = 0
<1>1. n \in Nat
  BY DEF IsBoxes
<1>2. /\ PixSum(bs, c)[0] = 0
      /\ \A k \in Nat : k < n =>
           PixSum(bs, c)[k + 1]
             = PixSum(bs, c)[k] + (IF k + 1 \in c THEN bs[k + 1].pix_cnt ELSE 0)
  BY PixSumRun
<1>3. ASSUME NEW k \in Nat, k < i, PixSum(bs, c)[k] \in {0} PROVE PixSum(bs, c)[k + 1] \in {0}
  <2>1. k < n /\ k + 1 \in 1 .. i
    BY <1>1, <1>3
  <2> QED BY <2>1, <1>2, <1>3
<1>4. i \in Nat /\ PixSum(bs, c)[0] \in {0}
  BY <1>1, <1>2
<1>5. \A k \in 0 .. i : PixSum(bs, c)[k] \in {0}
  <2>1. PICK g : g = PixSum(bs, c)
    OBVIOUS
  <2> DEFINE V == {0}
  <2>2. g[0] \in V /\ \A k \in Nat : k < i /\ g[k] \in V => g[k + 1] \in V
    BY <2>1, <1>3, <1>4
  <2> HIDE DEF V
  <2>3. \A k \in 0 .. i : g[k] \in V
    BY <2>2, <1>4, RunStays
  <2> QED BY <2>1, <2>3 DEF V
<1> QED BY <1>4, <1>5

\* b is the box around the blobs of c up to i, with their pixels.
Bounds(b, bs, c, i) ==
  /\ b \in Boxed
  /\ (\E k \in c : k <= i /\ bs[k].x = b.x) /\ \A k \in c : k <= i => b.x <= bs[k].x
  /\ (\E k \in c : k <= i /\ bs[k].y = b.y) /\ \A k \in c : k <= i => b.y <= bs[k].y
  /\ (\E k \in c : k <= i /\ bs[k].x1 = b.x1) /\ \A k \in c : k <= i => bs[k].x1 <= b.x1
  /\ (\E k \in c : k <= i /\ bs[k].y1 = b.y1) /\ \A k \in c : k <= i => bs[k].y1 <= b.y1
  /\ b.pix_cnt = PixSum(bs, c)[i]

LEMMA CoverIs ==
  ASSUME NEW a \in Boxed, NEW b \in Boxed
  PROVE  /\ B!Cover(a, b) \in Boxed
         /\ B!Cover(a, b).x = (IF a.x <= b.x THEN a.x ELSE b.x)
         /\ B!Cover(a, b).y = (IF a.y <= b.y THEN a.y ELSE b.y)
         /\ B!Cover(a, b).x1 = (IF a.x1 <= b.x1 THEN b.x1 ELSE a.x1)
         /\ B!Cover(a, b).y1 = (IF a.y1 <= b.y1 THEN b.y1 ELSE a.y1)
         /\ B!Cover(a, b).pix_cnt = a.pix_cnt + b.pix_cnt
<1>1. ASSUME NEW i \in Int, NEW j \in Int
      PROVE  /\ B!Min({i, j}) = (IF i <= j THEN i ELSE j)
             /\ B!Max({i, j}) = (IF i <= j THEN j ELSE i)
  <2>1. PICK Q \in SUBSET Int : Q = {i, j}
    OBVIOUS
  <2>2. /\ (\A y \in Q : i <= y) => B!Min(Q) = i
        /\ (\A y \in Q : y <= i) => B!Max(Q) = i
        /\ (\A y \in Q : j <= y) => B!Min(Q) = j
        /\ (\A y \in Q : y <= j) => B!Max(Q) = j
    BY <2>1, MinMaxIs
  <2>3. i <= j => (\A y \in Q : i <= y) /\ (\A y \in Q : y <= j)
    BY <2>1
  <2>4. ~(i <= j) => (\A y \in Q : j <= y) /\ (\A y \in Q : y <= i)
    BY <2>1
  <2> QED BY <2>1, <2>2, <2>3, <2>4
<1>2. /\ a.x \in Int /\ a.y \in Int /\ a.x1 \in Int /\ a.y1 \in Int /\ a.pix_cnt \in Int
      /\ b.x \in Int /\ b.y \in Int /\ b.x1 \in Int /\ b.y1 \in Int /\ b.pix_cnt \in Int
  BY DEF Boxed
<1>3. B!Cover(a, b) =
        [x  |-> IF a.x <= b.x THEN a.x ELSE b.x,     y  |-> IF a.y <= b.y THEN a.y ELSE b.y,
         x1 |-> IF a.x1 <= b.x1 THEN b.x1 ELSE a.x1, y1 |-> IF a.y1 <= b.y1 THEN b.y1 ELSE a.y1,
         pix_cnt |-> a.pix_cnt + b.pix_cnt]
  BY <1>1, <1>2 DEF B!Cover
<1> HIDE DEF B!Cover
<1> QED BY <1>2, <1>3 DEF Boxed

\* The next blob is the first of c, one more of c, or none of c.
LEMMA BoundsNext ==
  ASSUME NEW bs, NEW n, IsBoxes(bs, n), NEW c \in SUBSET (1 .. n), NEW i \in Nat, i < n
  PROVE  /\ i + 1 \in c /\ (\A k \in c : i + 1 <= k) => Bounds(bs[i + 1], bs, c, i + 1)
         /\ \A b : i + 1 \in c /\ Bounds(b, bs, c, i) =>
                     Bounds(B!Cover(b, bs[i + 1]), bs, c, i + 1)
         /\ \A b : i + 1 \notin c /\ Bounds(b, bs, c, i) => Bounds(b, bs, c, i + 1)
<1>1. n \in Nat /\ \A k \in 1 .. n : bs[k] \in Boxed
  BY DEF IsBoxes
<1>2. i + 1 \in 1 .. n /\ i \in 0 .. n
  BY <1>1
<1>3. PixSum(bs, c)[i + 1] = PixSum(bs, c)[i] + (IF i + 1 \in c THEN bs[i + 1].pix_cnt ELSE 0)
      /\ PixSum(bs, c)[i] \in Int
  BY <1>2, PixSumRun
<1>4. \A k \in c : k \in Nat /\ (k <= i + 1 <=> k <= i \/ k = i + 1)
  OBVIOUS
<1>5. ASSUME NEW k \in 1 .. n
      PROVE  bs[k].x \in Int /\ bs[k].y \in Int /\ bs[k].x1 \in Int /\ bs[k].y1 \in Int
             /\ bs[k].pix_cnt \in Int
  BY <1>1 DEF Boxed
<1>6. ASSUME i + 1 \in c, \A k \in c : i + 1 <= k PROVE Bounds(bs[i + 1], bs, c, i + 1)
  <2>1. \A k \in c : k <= i + 1 => k = i + 1
    BY <1>4, <1>6
  <2>2. PixSum(bs, c)[i] = 0
    <3>1. \A k \in 1 .. i : k \notin c
      BY <1>6
    <3> QED BY <3>1, <1>2, PixSumNone
  <2>3. PixSum(bs, c)[i + 1] = bs[i + 1].pix_cnt
    BY <2>2, <1>2, <1>3, <1>5, <1>6
  <2>4. i + 1 <= i + 1 /\ bs[i + 1] \in Boxed
    BY <1>1, <1>2
  <2> QED BY <2>1, <2>3, <2>4, <1>2, <1>5, <1>6 DEF Bounds
<1>7. ASSUME NEW b, i + 1 \in c, Bounds(b, bs, c, i)
      PROVE  Bounds(B!Cover(b, bs[i + 1]), bs, c, i + 1)
  <2> DEFINE e == bs[i + 1]
             d == B!Cover(b, e)
  <2>1. /\ d \in Boxed /\ d.x = (IF b.x <= e.x THEN b.x ELSE e.x)
        /\ d.y = (IF b.y <= e.y THEN b.y ELSE e.y)
        /\ d.x1 = (IF b.x1 <= e.x1 THEN e.x1 ELSE b.x1)
        /\ d.y1 = (IF b.y1 <= e.y1 THEN e.y1 ELSE b.y1)
        /\ d.pix_cnt = b.pix_cnt + e.pix_cnt
    <3>1. b \in Boxed /\ e \in Boxed
      BY <1>1, <1>2, <1>7 DEF Bounds
    <3> HIDE DEF e
    <3> QED BY <3>1, CoverIs
  <2>2. /\ b.x \in Int /\ b.y \in Int /\ b.x1 \in Int /\ b.y1 \in Int
        /\ e.x \in Int /\ e.y \in Int /\ e.x1 \in Int /\ e.y1 \in Int
    BY <1>2, <1>5, <1>7 DEF Bounds, Boxed
  <2>3. d.pix_cnt = PixSum(bs, c)[i + 1]
    BY <2>1, <1>3, <1>7 DEF Bounds
  <2> HIDE DEF d
  <2>4. /\ \A k \in c : k <= i + 1 <=> k <= i \/ k = i + 1
        /\ \A k \in c : bs[k].x \in Int /\ bs[k].y \in Int /\ bs[k].x1 \in Int /\ bs[k].y1 \in Int
    BY <1>4, <1>5
  <2>5. (\E k \in c : k <= i + 1 /\ bs[k].x = d.x) /\ \A k \in c : k <= i + 1 => d.x <= bs[k].x
    <3>1. (\E k \in c : k <= i /\ bs[k].x = b.x) /\ \A k \in c : k <= i => b.x <= bs[k].x
      BY <1>7 DEF Bounds
    <3>2. CASE b.x <= e.x
      BY <3>1, <3>2, <2>1, <2>2, <2>4, <1>7
    <3>3. CASE ~(b.x <= e.x)
      BY <3>1, <3>3, <2>1, <2>2, <2>4, <1>7
    <3> QED BY <3>2, <3>3
  <2>6. (\E k \in c : k <= i + 1 /\ bs[k].y = d.y) /\ \A k \in c : k <= i + 1 => d.y <= bs[k].y
    <3>1. (\E k \in c : k <= i /\ bs[k].y = b.y) /\ \A k \in c : k <= i => b.y <= bs[k].y
      BY <1>7 DEF Bounds
    <3>2. CASE b.y <= e.y
      BY <3>1, <3>2, <2>1, <2>2, <2>4, <1>7
    <3>3. CASE ~(b.y <= e.y)
      BY <3>1, <3>3, <2>1, <2>2, <2>4, <1>7
    <3> QED BY <3>2, <3>3
  <2>7. (\E k \in c : k <= i + 1 /\ bs[k].x1 = d.x1) /\ \A k \in c : k <= i + 1 => bs[k].x1 <= d.x1
    <3>1. (\E k \in c : k <= i /\ bs[k].x1 = b.x1) /\ \A k \in c : k <= i => bs[k].x1 <= b.x1
      BY <1>7 DEF Bounds
    <3>2. CASE b.x1 <= e.x1
      BY <3>1, <3>2, <2>1, <2>2, <2>4, <1>7
    <3>3. CASE ~(b.x1 <= e.x1)
      BY <3>1, <3>3, <2>1, <2>2, <2>4, <1>7
    <3> QED BY <3>2, <3>3
  <2>8. (\E k \in c : k <= i + 1 /\ bs[k].y1 = d.y1) /\ \A k \in c : k <= i + 1 => bs[k].y1 <= d.y1
    <3>1. (\E k \in c : k <= i /\ bs[k].y1 = b.y1) /\ \A k \in c : k <= i => bs[k].y1 <= b.y1
      BY <1>7 DEF Bounds
    <3>2. CASE b.y1 <= e.y1
      BY <3>1, <3>2, <2>1, <2>2, <2>4, <1>7
    <3>3. CASE ~(b.y1 <= e.y1)
      BY <3>1, <3>3, <2>1, <2>2, <2>4, <1>7
    <3> QED BY <3>2, <3>3
  <2>9. d \in Boxed
    BY <2>1
  <2>10. Bounds(d, bs, c, i + 1)
    BY <2>3, <2>5, <2>6, <2>7, <2>8, <2>9, Zenon DEF Bounds
  <2> QED BY <2>10 DEF d
<1>8. ASSUME NEW b, i + 1 \notin c, Bounds(b, bs, c, i) PROVE Bounds(b, bs, c, i + 1)
  <2>1. \A k \in c : k <= i + 1 <=> k <= i
    BY <1>4, <1>8
  <2>2. PixSum(bs, c)[i + 1] = PixSum(bs, c)[i]
    BY <1>3, <1>8
  <2> QED BY <2>1, <2>2, <1>8 DEF Bounds
<1> QED BY <1>6, <1>7, <1>8

\* In the end that is the box around all of c.
LEMMA BoundsAround ==
  ASSUME NEW bs, NEW n, IsBoxes(bs, n), NEW c \in SUBSET (1 .. n), NEW b, Bounds(b, bs, c, n)
  PROVE  b = B!Around(bs, c)
<1>1. n \in Nat /\ Len(bs) = n /\ \A k \in 1 .. n : bs[k] \in Boxed
  <2>1. n \in Nat /\ bs \in [1 .. n -> Boxed]
    BY DEF IsBoxes
  <2> QED BY <2>1, LenProperties
<1>2. ASSUME NEW k \in c
      PROVE  bs[k].x \in Int /\ bs[k].y \in Int /\ bs[k].x1 \in Int /\ bs[k].y1 \in Int /\ k <= n
  <2>1. k \in 1 .. n /\ k <= n
    BY <1>1
  <2>2. bs[k] \in Boxed
    BY <2>1, <1>1
  <2> QED BY <2>1, <2>2 DEF Boxed
<1>3. b = [x |-> b.x, y |-> b.y, x1 |-> b.x1, y1 |-> b.y1, pix_cnt |-> b.pix_cnt]
  BY DEF Bounds, Boxed
<1>4. B!Min({bs[k].x : k \in c}) = b.x
  <2>1. (\E k \in c : bs[k].x = b.x) /\ \A k \in c : b.x <= bs[k].x
    BY <1>2 DEF Bounds
  <2>2. {bs[k].x : k \in c} \in SUBSET Int
    BY <1>2
  <2>3. b.x \in {bs[k].x : k \in c} /\ \A y \in {bs[k].x : k \in c} : b.x <= y
    BY <2>1
  <2> QED BY <2>2, <2>3, MinMaxIs
<1>5. B!Min({bs[k].y : k \in c}) = b.y
  <2>1. (\E k \in c : bs[k].y = b.y) /\ \A k \in c : b.y <= bs[k].y
    BY <1>2 DEF Bounds
  <2>2. {bs[k].y : k \in c} \in SUBSET Int
    BY <1>2
  <2>3. b.y \in {bs[k].y : k \in c} /\ \A y \in {bs[k].y : k \in c} : b.y <= y
    BY <2>1
  <2> QED BY <2>2, <2>3, MinMaxIs
<1>6. B!Max({bs[k].x1 : k \in c}) = b.x1
  <2>1. (\E k \in c : bs[k].x1 = b.x1) /\ \A k \in c : bs[k].x1 <= b.x1
    BY <1>2 DEF Bounds
  <2>2. {bs[k].x1 : k \in c} \in SUBSET Int
    BY <1>2
  <2>3. b.x1 \in {bs[k].x1 : k \in c} /\ \A y \in {bs[k].x1 : k \in c} : y <= b.x1
    BY <2>1
  <2> QED BY <2>2, <2>3, MinMaxIs
<1>7. B!Max({bs[k].y1 : k \in c}) = b.y1
  <2>1. (\E k \in c : bs[k].y1 = b.y1) /\ \A k \in c : bs[k].y1 <= b.y1
    BY <1>2 DEF Bounds
  <2>2. {bs[k].y1 : k \in c} \in SUBSET Int
    BY <1>2
  <2>3. b.y1 \in {bs[k].y1 : k \in c} /\ \A y \in {bs[k].y1 : k \in c} : y <= b.y1
    BY <2>1
  <2> QED BY <2>2, <2>3, MinMaxIs
<1>8. B!Around(bs, c) =
        [x  |-> B!Min({bs[k].x : k \in c}),  y  |-> B!Min({bs[k].y : k \in c}),
         x1 |-> B!Max({bs[k].x1 : k \in c}), y1 |-> B!Max({bs[k].y1 : k \in c}),
         pix_cnt |-> PixSum(bs, c)[Len(bs)]]
  BY Zenon DEF B!Around, PixSum
<1>9. b.pix_cnt = PixSum(bs, c)[Len(bs)]
  BY <1>1 DEF Bounds
<1> QED BY <1>3, <1>4, <1>5, <1>6, <1>7, <1>8, <1>9, Zenon

\* The blobs of a root so far.
Groups(n) == [root : 1 .. n, blob : Boxed]

\* acc2 has the blob in its group, or in one of its own.
Gathers(acc2, acc, r, blob, n) ==
  /\ acc2 \in Seq(Groups(n))
  /\ (\E k \in 1 .. Len(acc) : acc[k].root = r) =>
       /\ Len(acc2) = Len(acc)
       /\ \A k \in 1 .. Len(acc) :
            /\ acc2[k].root = acc[k].root
            /\ acc[k].root = r => acc2[k].blob = B!Cover(acc[k].blob, blob)
            /\ acc[k].root # r => acc2[k].blob = acc[k].blob
  /\ ~(\E k \in 1 .. Len(acc) : acc[k].root = r) =>
       acc2 = Append(acc, [root |-> r, blob |-> blob])

LEMMA GatheredFacts ==
  ASSUME NEW n \in Nat, NEW acc \in Seq(Groups(n)), NEW r \in 1 .. n, NEW blob \in Boxed
  PROVE  Gathers(B!Gathered(acc, r, blob), acc, r, blob, n)
<1> PICK acc2 : acc2 = B!Gathered(acc, r, blob)
  OBVIOUS
<1>1. /\ Len(acc) \in Nat /\ DOMAIN acc = 1 .. Len(acc)
      /\ \A k \in 1 .. Len(acc) : acc[k] \in Groups(n)
  BY LenProperties, ElementOfSeq
<1>2. [root |-> r, blob |-> blob] \in Groups(n)
  BY DEF Groups
<1>3. CASE \E k \in 1 .. Len(acc) : acc[k].root = r
  <2>1. acc2 = [k \in 1 .. Len(acc) |->
                  IF acc[k].root = r
                  THEN [root |-> r, blob |-> B!Cover(acc[k].blob, blob)] ELSE acc[k]]
    BY <1>1, <1>3 DEF B!Gathered
  <2>2. ASSUME NEW k \in 1 .. Len(acc)
        PROVE  /\ acc2[k] \in Groups(n) /\ acc2[k].root = acc[k].root
               /\ acc[k].root = r => acc2[k].blob = B!Cover(acc[k].blob, blob)
               /\ acc[k].root # r => acc2[k].blob = acc[k].blob
    <3>1. acc[k].blob \in Boxed /\ acc[k] \in Groups(n)
      BY <1>1 DEF Groups
    <3>2. B!Cover(acc[k].blob, blob) \in Boxed
      BY <3>1, CoverIs
    <3>3. acc2[k] = IF acc[k].root = r
                    THEN [root |-> r, blob |-> B!Cover(acc[k].blob, blob)] ELSE acc[k]
      BY <2>1
    <3> QED BY <3>1, <3>2, <3>3 DEF Groups
  <2>3. acc2 \in [1 .. Len(acc) -> Groups(n)]
    <3>1. acc2 = [k \in 1 .. Len(acc) |-> acc2[k]]
      BY <2>1
    <3> QED BY <3>1, <2>2, Zenon
  <2>4. acc2 \in Seq(Groups(n)) /\ Len(acc2) = Len(acc)
    BY <2>3, <1>1, LenProperties
  <2> QED BY <2>2, <2>4, <1>3 DEF Gathers
<1>4. CASE ~\E k \in 1 .. Len(acc) : acc[k].root = r
  <2>1. acc2 = Append(acc, [root |-> r, blob |-> blob])
    BY <1>1, <1>4 DEF B!Gathered
  <2>2. acc2 \in Seq(Groups(n))
    BY <2>1, <1>2, AppendProperties
  <2> QED BY <2>1, <2>2, <1>4 DEF Gathers
<1> QED BY <1>3, <1>4

\* merged[k] has the groups of the first k blobs.
MergeSteps(merged, root, bs, n) ==
  /\ merged \in [0 .. n -> Seq(Groups(n))] /\ merged[0] = << >>
  /\ \A k \in Nat : k < n => merged[k + 1] = B!Gathered(merged[k], root[k + 1], bs[k + 1])
  /\ B!merge_blobs(bs) = [k \in DOMAIN merged[n] |-> merged[n][k].blob]

LEMMA MergeRun ==
  ASSUME NEW bs, NEW n, IsBoxes(bs, n), NEW root \in [1 .. n -> 1 .. n],
         \A i \in 1 .. n : B!Find(B!Parents(bs), i) = root[i]
  PROVE  \E merged : MergeSteps(merged, root, bs, n)
<1>1. n \in Nat /\ Len(bs) = n /\ \A k \in 1 .. n : bs[k] \in Boxed
  <2>1. n \in Nat /\ bs \in [1 .. n -> Boxed]
    BY DEF IsBoxes
  <2> QED BY <2>1, LenProperties
<1> DEFINE V == Seq(Groups(n))
           term(k, v) == B!Gathered(v, B!Find(B!Parents(bs), k), bs[k])
           step == [x \in Nat \X V |-> IF x[1] \in 1 .. n THEN term(x[1], x[2]) ELSE << >>]
           c == CHOOSE f : f = [k \in 0 .. n |-> IF k = 0 THEN << >> ELSE term(k, f[k - 1])]
<1>2. ASSUME NEW k \in 1 .. n, NEW v PROVE term(k, v) = B!Gathered(v, root[k], bs[k])
  OBVIOUS
<1>3. B!merge_blobs(bs) = [k \in DOMAIN c[n] |-> c[n][k].blob]
  BY <1>1 DEF B!merge_blobs
<1> HIDE DEF term
<1>4. ASSUME NEW k \in 1 .. n, NEW v \in V PROVE term(k, v) \in V
  <2>1. root[k] \in 1 .. n /\ bs[k] \in Boxed
    BY <1>1
  <2>2. B!Gathered(v, root[k], bs[k]) \in V
    BY <2>1, <1>1, GatheredFacts DEF Gathers
  <2> QED BY <2>2, <1>2
<1>5. << >> \in V
  OBVIOUS
<1> HIDE DEF V
<1>6. step \in [Nat \X V -> V]
  BY <1>4, <1>5
<1>7. PICK g \in [0 .. n -> V] : Run(g, n, << >>, step)
  <2> HIDE DEF step
  <2> QED BY <1>1, <1>5, <1>6, RunExists
<1>8. g = [k \in 0 .. n |-> IF k = 0 THEN << >> ELSE term(k, g[k - 1])]
  <2>1. ASSUME NEW k \in 1 .. n PROVE g[k] = term(k, g[k - 1])
    <3>1. k - 1 \in Nat /\ k - 1 < n /\ (k - 1) + 1 = k /\ k - 1 \in 0 .. n /\ k \in Nat
      BY <2>1, <1>1
    <3>2. g[k] = step[<<k, g[k - 1]>>]
      BY <3>1, <1>7 DEF Run
    <3>3. g[k - 1] \in V
      BY <3>1, <1>7
    <3> QED BY <3>1, <3>2, <3>3
  <2> HIDE DEF step
  <2>2. g[0] = << >> /\ g = [k \in 0 .. n |-> g[k]]
    BY <1>7 DEF Run
  <2>3. ASSUME NEW k \in 0 .. n PROVE g[k] = IF k = 0 THEN << >> ELSE term(k, g[k - 1])
    <3>1. k # 0 => k \in 1 .. n
      BY <1>1
    <3> QED BY <3>1, <2>1, <2>2
  <2> QED BY <2>2, <2>3, Zenon
<1>9. c = [k \in 0 .. n |-> IF k = 0 THEN << >> ELSE term(k, c[k - 1])]
  BY <1>8
<1> HIDE DEF c, step
<1>10. c[0] = << >> /\ \A k \in Nat : k < n => c[k + 1] = term(k + 1, c[k])
  <2>1. 0 \in 0 .. n /\ \A k \in Nat : k < n => k + 1 \in 0 .. n /\ k + 1 # 0 /\ (k + 1) - 1 = k
    BY <1>1
  <2>2. c[0] = << >>
    BY <1>9, <2>1, Zenon
  <2>3. ASSUME NEW k \in Nat, k < n PROVE c[k + 1] = term(k + 1, c[k])
    <3>1. c[k + 1] = term(k + 1, c[(k + 1) - 1])
      BY <1>9, <2>1, <2>3, Zenon
    <3> QED BY <3>1, <2>1, <2>3
  <2> QED BY <2>2, <2>3
<1>11. \A k \in 0 .. n : c[k] \in V
  <2>1. ASSUME NEW k \in Nat, k < n, c[k] \in V PROVE c[k + 1] \in V
    <3>1. k + 1 \in 1 .. n
      BY <2>1, <1>1
    <3> QED BY <3>1, <2>1, <1>4, <1>10
  <2>2. c[0] \in V
    BY <1>5, <1>10
  <2> QED BY <2>1, <2>2, <1>1, RunStays
<1>12. c \in [0 .. n -> V]
  BY <1>9, <1>11
<1>13. \A k \in Nat : k < n => c[k + 1] = B!Gathered(c[k], root[k + 1], bs[k + 1])
  <2>1. ASSUME NEW k \in Nat, k < n
        PROVE  c[k + 1] = B!Gathered(c[k], root[k + 1], bs[k + 1])
    <3>1. k + 1 \in 1 .. n
      BY <2>1, <1>1
    <3> QED BY <3>1, <2>1, <1>2, <1>10
  <2> QED BY <2>1
<1>14. MergeSteps(c, root, bs, n)
  BY <1>3, <1>10, <1>12, <1>13 DEF MergeSteps, V
<1> QED BY <1>14

\* The least blobs of the parts.
Firsts(comp, n) == {i \in 1 .. n : \A j \in comp[i] : i <= j}

\* After i blobs there is a group for each part that has begun, in their order, with
\* the box of what it has of it.
Grouped(acc, fs, root, comp, bs, n, i) ==
  /\ acc \in Seq(Groups(n)) /\ fs \in Seq(Nat) /\ Len(acc) = Len(fs)
  /\ \A k \in 1 .. Len(fs) :
       /\ fs[k] \in 1 .. n /\ fs[k] <= i /\ acc[k].root = root[fs[k]]
       /\ Bounds(acc[k].blob, bs, comp[fs[k]], i)
  /\ \A j \in 1 .. i : \E k \in 1 .. Len(fs) : acc[k].root = root[j]

LEMMA GroupedNext ==
  ASSUME NEW bs, NEW n, IsBoxes(bs, n), NEW root, NEW comp, PartRoots(root, comp, n),
         NEW i \in Nat, i < n, NEW acc, NEW fs, Grouped(acc, fs, root, comp, bs, n, i),
         NEW acc2, acc2 = B!Gathered(acc, root[i + 1], bs[i + 1]),
         NEW fs2, fs2 = IF i + 1 \in Firsts(comp, n) THEN Append(fs, i + 1) ELSE fs
  PROVE  Grouped(acc2, fs2, root, comp, bs, n, i + 1)
<1> DEFINE m == i + 1
<1>1. n \in Nat /\ \A k \in 1 .. n : bs[k] \in Boxed
  BY DEF IsBoxes
<1>2. m \in 1 .. n /\ m \in Nat
  BY <1>1
<1>3. root \in [1 .. n -> 1 .. n] /\ \A j \in 1 .. n : comp[j] = {k \in 1 .. n : root[k] = root[j]}
  BY DEF PartRoots
<1>4. /\ acc \in Seq(Groups(n)) /\ fs \in Seq(Nat) /\ Len(acc) = Len(fs)
      /\ \A k \in 1 .. Len(fs) :
           /\ fs[k] \in 1 .. n /\ fs[k] <= i /\ acc[k].root = root[fs[k]]
           /\ Bounds(acc[k].blob, bs, comp[fs[k]], i)
      /\ \A j \in 1 .. i : \E k \in 1 .. Len(fs) : acc[k].root = root[j]
  BY DEF Grouped
<1>5. Len(fs) \in Nat
  BY <1>4, LenProperties
<1>6. root[m] \in 1 .. n /\ bs[m] \in Boxed
  BY <1>1, <1>2, <1>3
<1>7. /\ acc2 \in Seq(Groups(n))
      /\ (\E k \in 1 .. Len(acc) : acc[k].root = root[m]) =>
           /\ Len(acc2) = Len(acc)
           /\ \A k \in 1 .. Len(acc) :
                /\ acc2[k].root = acc[k].root
                /\ acc[k].root = root[m] => acc2[k].blob = B!Cover(acc[k].blob, bs[m])
                /\ acc[k].root # root[m] => acc2[k].blob = acc[k].blob
      /\ ~(\E k \in 1 .. Len(acc) : acc[k].root = root[m]) =>
           acc2 = Append(acc, [root |-> root[m], blob |-> bs[m]])
  <2>1. Gathers(B!Gathered(acc, root[m], bs[m]), acc, root[m], bs[m], n)
    <3>1. PICK r \in 1 .. n, e \in Boxed : r = root[m] /\ e = bs[m]
      BY <1>6
    <3>2. Gathers(B!Gathered(acc, r, e), acc, r, e, n)
      BY <1>1, <1>4, GatheredFacts
    <3> QED BY <3>1, <3>2
  <2>2. acc2 = B!Gathered(acc, root[m], bs[m])
    BY DEF m
  <2>3. Gathers(acc2, acc, root[m], bs[m], n)
    BY <2>1, <2>2
  <2> HIDE DEF m
  <2> QED BY <2>3 DEF Gathers
<1>8. ASSUME NEW j \in 1 .. n
      PROVE  /\ m \in comp[j] /\ (\A k \in comp[j] : m <= k) => Bounds(bs[m], bs, comp[j], m)
             /\ \A b : m \in comp[j] /\ Bounds(b, bs, comp[j], i) =>
                         Bounds(B!Cover(b, bs[m]), bs, comp[j], m)
             /\ \A b : m \notin comp[j] /\ Bounds(b, bs, comp[j], i) => Bounds(b, bs, comp[j], m)
  <2>1. comp[j] \in SUBSET (1 .. n)
    BY <1>3
  <2> QED BY <2>1, BoundsNext
<1>9. \A j \in 1 .. n : m \in comp[j] <=> root[m] = root[j]
  BY <1>2, <1>3
<1>10. \A j \in 1 .. m : j \in 1 .. i \/ j = m
  BY <1>2
<1>11. CASE \E k \in 1 .. Len(acc) : acc[k].root = root[m]
  <2>1. m \notin Firsts(comp, n)
    <3>1. PICK k \in 1 .. Len(fs) : acc[k].root = root[m]
      BY <1>4, <1>11
    <3>2. fs[k] \in 1 .. n /\ fs[k] <= i /\ root[fs[k]] = root[m]
      BY <3>1, <1>4
    <3>3. fs[k] \in comp[m]
      BY <3>2, <1>2, <1>3
    <3>4. ~(m <= fs[k])
      BY <3>2
    <3> QED BY <3>3, <3>4 DEF Firsts
  <2>2. fs2 = fs
    BY <2>1
  <2>3. ASSUME NEW k \in 1 .. Len(fs)
        PROVE  /\ fs[k] \in 1 .. n /\ fs[k] <= m /\ acc2[k].root = root[fs[k]]
               /\ Bounds(acc2[k].blob, bs, comp[fs[k]], m)
    <3>1. /\ fs[k] \in 1 .. n /\ fs[k] <= i /\ acc[k].root = root[fs[k]]
          /\ Bounds(acc[k].blob, bs, comp[fs[k]], i)
      BY <1>4
    <3>2. /\ acc2[k].root = acc[k].root
          /\ acc[k].root = root[m] => acc2[k].blob = B!Cover(acc[k].blob, bs[m])
          /\ acc[k].root # root[m] => acc2[k].blob = acc[k].blob
      BY <1>4, <1>7, <1>11
    <3>3. fs[k] <= m
      BY <3>1
    <3>4. CASE acc[k].root = root[m]
      <4>1. m \in comp[fs[k]]
        BY <3>1, <3>4, <1>9
      <4> HIDE DEF m
      <4>2. Bounds(acc2[k].blob, bs, comp[fs[k]], m)
        BY <4>1, <3>1, <3>2, <3>4, <1>8
      <4> QED BY <4>2, <3>1, <3>2, <3>3
    <3>5. CASE acc[k].root # root[m]
      <4>1. m \notin comp[fs[k]]
        BY <3>1, <3>5, <1>9
      <4> HIDE DEF m
      <4>2. Bounds(acc2[k].blob, bs, comp[fs[k]], m)
        BY <4>1, <3>1, <3>2, <3>5, <1>8
      <4> QED BY <4>2, <3>1, <3>2, <3>3
    <3> QED BY <3>4, <3>5
  <2>4. \A j \in 1 .. m : \E k \in 1 .. Len(fs) : acc2[k].root = root[j]
    BY <1>4, <1>7, <1>10, <1>11
  <2>5. Len(acc2) = Len(fs)
    BY <1>4, <1>7, <1>11
  <2> HIDE DEF m
  <2>6. Grouped(acc2, fs2, root, comp, bs, n, m)
    BY <2>2, <2>3, <2>4, <2>5, <1>4, <1>7 DEF Grouped
  <2> QED BY <2>6 DEF m
<1>12. CASE ~\E k \in 1 .. Len(acc) : acc[k].root = root[m]
  <2>1. \A j \in comp[m] : m <= j
    <3>1. ASSUME NEW j \in comp[m], j < m PROVE FALSE
      <4>1. j \in 1 .. i /\ root[j] = root[m]
        BY <3>1, <1>2, <1>3
      <4> QED BY <4>1, <1>4, <1>12
    <3>2. \A j \in comp[m] : j \in 1 .. n
      BY <1>2, <1>3
    <3> QED BY <3>1, <3>2, <1>2
  <2>2. fs2 = Append(fs, m)
    BY <2>1, <1>2 DEF Firsts
  <2> DEFINE e == [root |-> root[m], blob |-> bs[m]]
             L == Len(fs)
  <2>3. e \in Groups(n) /\ e.root = root[m] /\ e.blob = bs[m]
    BY <1>6 DEF Groups
  <2>4. acc2 = Append(acc, e)
    BY <1>7, <1>12
  <2> HIDE DEF e, m
  <2>5. /\ fs2 \in Seq(Nat) /\ Len(fs2) = L + 1 /\ fs2[L + 1] = m
        /\ \A k \in 1 .. L : fs2[k] = fs[k]
    BY <2>2, <1>2, <1>4, AppendProperties
  <2>6. /\ Len(acc2) = L + 1 /\ acc2[L + 1] = e
        /\ \A k \in 1 .. L : acc2[k] = acc[k]
    BY <2>3, <2>4, <1>4, AppendProperties
  <2>7. L \in Nat /\ \A k \in 1 .. L + 1 : k \in 1 .. L \/ k = L + 1
    BY <1>5
  <2>8. L + 1 \in 1 .. L + 1 /\ \A k \in 1 .. L : k \in 1 .. L + 1
    BY <2>7
  <2>9. ASSUME NEW k \in 1 .. L + 1
        PROVE  /\ fs2[k] \in 1 .. n /\ fs2[k] <= m /\ acc2[k].root = root[fs2[k]]
               /\ Bounds(acc2[k].blob, bs, comp[fs2[k]], m)
    <3>1. CASE k \in 1 .. L
      <4>1. /\ fs[k] \in 1 .. n /\ fs[k] <= i /\ acc[k].root = root[fs[k]]
            /\ Bounds(acc[k].blob, bs, comp[fs[k]], i)
        BY <3>1, <1>4
      <4>2. acc[k].root # root[m]
        BY <3>1, <1>4, <1>12
      <4>3. m \notin comp[fs[k]]
        BY <4>1, <4>2, <1>9
      <4>4. Bounds(acc[k].blob, bs, comp[fs[k]], m)
        BY <4>1, <4>3, <1>8
      <4>5. fs[k] <= m
        BY <4>1 DEF m
      <4> QED BY <3>1, <4>1, <4>4, <4>5, <2>5, <2>6
    <3>2. CASE k = L + 1
      <4>1. fs2[k] = m /\ acc2[k].root = root[m] /\ acc2[k].blob = bs[m]
        BY <3>2, <2>3, <2>5, <2>6
      <4>2. m \in comp[m]
        BY <1>2, <1>9
      <4>3. Bounds(bs[m], bs, comp[m], m)
        BY <4>2, <2>1, <1>2, <1>8
      <4>4. m <= m
        BY <1>2
      <4> QED BY <4>1, <4>3, <4>4, <1>2
    <3> QED BY <3>1, <3>2, <2>7
  <2>10. \A j \in 1 .. m : \E k \in 1 .. L + 1 : acc2[k].root = root[j]
    <3>1. ASSUME NEW j \in 1 .. i PROVE \E k \in 1 .. L + 1 : acc2[k].root = root[j]
      <4>1. PICK k \in 1 .. L : acc[k].root = root[j]
        BY <1>4
      <4>2. k \in 1 .. L + 1 /\ acc2[k] = acc[k]
        BY <2>6, <2>8
      <4> QED BY <4>1, <4>2
    <3>2. acc2[L + 1].root = root[m]
      BY <2>3, <2>6
    <3> QED BY <3>1, <3>2, <2>8, <1>10
  <2> HIDE DEF L
  <2>11. Grouped(acc2, fs2, root, comp, bs, n, m)
    BY <2>5, <2>6, <2>9, <2>10, <1>7 DEF Grouped
  <2> QED BY <2>11 DEF m
<1> QED BY <1>11, <1>12

\* Every list of blobs, for every gap: merging gives one box for each connected part,
\* around all of it.
THEOREM MergeSound ==
  ASSUME B!BlobConstants, NEW bs, NEW n, IsBoxes(bs, n)
  PROVE  B!MergesComponents(bs)
<1> DEFINE comp == NearComp(bs, n)
           fs(i) == B!Listed(Firsts(comp, n), i)
<1>1. n \in Nat /\ Len(bs) = n
  <2>1. n \in Nat /\ bs \in [1 .. n -> Boxed]
    BY DEF IsBoxes
  <2> QED BY <2>1, LenProperties
<1>2. PICK root :
        /\ PartRoots(root, comp, n) /\ \A i \in 1 .. n : B!Find(B!Parents(bs), i) = root[i]
  BY RootsOfParts
<1>3. PICK merged : MergeSteps(merged, root, bs, n)
  BY <1>2, MergeRun DEF PartRoots
<1>4. /\ merged[0] = << >> /\ merged[n] \in Seq(Groups(n))
      /\ \A k \in Nat : k < n => merged[k + 1] = B!Gathered(merged[k], root[k + 1], bs[k + 1])
      /\ B!merge_blobs(bs) = [k \in DOMAIN merged[n] |-> merged[n][k].blob]
  BY <1>1, <1>3 DEF MergeSteps
<1> HIDE DEF comp
<1>5. \A k \in Nat :
        /\ fs(0) = << >> /\ fs(k) \in Seq(Nat)
        /\ fs(k + 1) = IF k + 1 \in Firsts(comp, n) THEN Append(fs(k), k + 1) ELSE fs(k)
  BY ListedNext
<1> HIDE DEF fs
<1> DEFINE Good(k) == Grouped(merged[k], fs(k), root, comp, bs, n, k)
           M == {k \in Nat : k <= n => Good(k)}
<1>6. 0 \in M
  <2>1. merged[0] = << >> /\ fs(0) = << >>
    BY <1>4, <1>5
  <2>2. << >> \in Seq(Groups(n)) /\ << >> \in Seq(Nat) /\ Len(<< >>) = 0
    BY EmptySeq
  <2>3. Grouped(<< >>, << >>, root, comp, bs, n, 0)
    BY <2>2 DEF Grouped
  <2>4. Good(0)
    BY <2>1, <2>3
  <2> QED BY <2>4
<1>7. ASSUME NEW k \in M PROVE k + 1 \in M
  <2>1. k \in Nat
    OBVIOUS
  <2>2. SUFFICES ASSUME k < n PROVE Good(k + 1)
    BY <2>1, <1>1
  <2>3. Good(k)
    BY <2>1, <2>2, <1>1
  <2> HIDE DEF M
  <2>4. merged[k + 1] = B!Gathered(merged[k], root[k + 1], bs[k + 1])
    BY <2>1, <2>2, <1>4
  <2>5. fs(k + 1) = IF k + 1 \in Firsts(comp, n) THEN Append(fs(k), k + 1) ELSE fs(k)
    BY <2>1, <1>5
  <2> QED BY <2>1, <2>2, <2>3, <2>4, <2>5, <1>2, GroupedNext
<1>8. Good(n)
  <2>1. M \in SUBSET Nat
    OBVIOUS
  <2>2. n \in M
    <3> HIDE DEF M
    <3> QED BY <1>1, <1>6, <1>7, <2>1, Counting
  <2> QED BY <2>2, <1>1
<1> HIDE DEF M
<1>9. /\ fs(n) \in Seq(Nat) /\ Len(merged[n]) = Len(fs(n))
      /\ \A k \in 1 .. Len(fs(n)) :
           fs(n)[k] \in 1 .. n /\ Bounds(merged[n][k].blob, bs, comp[fs(n)[k]], n)
  BY <1>8 DEF Grouped
<1>10. DOMAIN merged[n] = 1 .. Len(fs(n)) /\ DOMAIN fs(n) = 1 .. Len(fs(n))
  BY <1>4, <1>9, LenProperties
<1>11. ASSUME NEW k \in 1 .. Len(fs(n))
       PROVE  merged[n][k].blob = B!Around(bs, comp[fs(n)[k]])
  <2>1. comp[fs(n)[k]] \in SUBSET (1 .. n)
    BY <1>2, <1>9 DEF PartRoots
  <2> QED BY <2>1, <1>9, BoundsAround
<1>12. B!merge_blobs(bs) = [k \in DOMAIN fs(n) |-> B!Around(bs, comp[fs(n)[k]])]
  BY <1>4, <1>10, <1>11, Zenon
<1>13. B!MergesComponents(bs) <=>
         B!merge_blobs(bs) = [k \in DOMAIN fs(n) |-> B!Around(bs, comp[fs(n)[k]])]
  BY <1>1, Zenon DEF B!MergesComponents, fs, Firsts, comp, NearComp, NearEdges
<1> QED BY <1>12, <1>13

-----------------------------------------------------------------------------
(* What TLC is given of boxes and of distances *)

LEMMA BoxesTyped ==
  ASSUME NEW i \in UNION {[1 .. n -> Boxes] : n \in 0 .. 4}
  PROVE  \E n : IsBoxes(i, n)
<1>1. PICK n \in 0 .. 4 : i \in [1 .. n -> Boxes]
  OBVIOUS
<1>2. ASSUME NEW b \in Boxes PROVE b \in Boxed
  <2>1. (\E x \in {0, 2, 4, 7} : b = Box(x, 0, 1)) \/ b = Box(2, 4, 1) \/ b = Box(2, 1, 3)
    BY DEF Boxes
  <2> QED BY <2>1 DEF Box, Boxed
<1>3. i \in [1 .. n -> Boxed]
  BY <1>1, <1>2
<1> QED BY <1>3 DEF IsBoxes

LEMMA DistancesTyped ==
  ASSUME NEW i \in Distances
  PROVE  \E Q : IsDist(i, Q)
<1>1. PICK near \in SUBSET ((1 .. 3) \X (1 .. 2)) : i \in [near -> 0 .. 1]
  BY DEF Distances
<1>2. IsFiniteSet((1 .. 3) \X (1 .. 2))
  <2>1. IsFiniteSet(1 .. 3) /\ IsFiniteSet(1 .. 2)
    <3>1. 1 \in Int /\ 2 \in Int /\ 3 \in Int
      OBVIOUS
    <3> QED BY <3>1, FS_Interval
  <2> QED BY <2>1, FS_Product
<1>3. IsFiniteSet(near)
  BY <1>2, FS_Subset
<1>4. near \in SUBSET (Int \X Int) /\ i \in [near -> Int]
  BY <1>1
<1> QED BY <1>3, <1>4 DEF IsDist

LEMMA InputsTracked ==
  ASSUME B!BlobConstants, InputInv
  PROVE  /\ Given("merge") => B!MergesComponents(input[1])
         /\ Given("associate") => B!StableMatching(input[1])
<1>1. ASSUME Given("merge") PROVE B!MergesComponents(input[1])
  <2>1. PICK i \in UNION {[1 .. n -> Boxes] : n \in 0 .. 4} : input = <<i>>
    BY <1>1 DEF InputInv, Given, Inputs
  <2>2. PICK n : IsBoxes(i, n)
    BY BoxesTyped
  <2>3. B!MergesComponents(i)
    BY <2>2, MergeSound
  <2>4. input[1] = i
    BY <2>1
  <2> QED BY <2>3, <2>4
<1>2. ASSUME Given("associate") PROVE B!StableMatching(input[1])
  <2>1. PICK i \in Distances : input = <<i>>
    BY <1>2 DEF InputInv, Given, Inputs
  <2>2. PICK Q : IsDist(i, Q)
    BY DistancesTyped
  <2>3. B!StableMatching(i)
    BY <2>2, AssociationStable
  <2>4. input[1] = i
    BY <2>1
  <2> QED BY <2>3, <2>4
<1> QED BY <1>1, <1>2

\* The flood fill of the behaviours, whether or not it is the one that moves.
FloodInv == FillInv(image, visited, fill_stack, next, current, blobs)

LEMMA InitFlood ==
  ASSUME B!BlobConstants, MCInit
  PROVE  FloodInv
<1>1. /\ image \in SUBSET B!Pixels /\ visited = {} /\ fill_stack = << >> /\ next = 0
      /\ current = B!NoBlob /\ blobs = << >>
  BY DEF MCInit, B!BlobInit
<1> QED BY <1>1, InitFills DEF FloodInv

LEMMA FloodStep ==
  ASSUME B!BlobConstants, FloodInv, [B!BlobNext]_blobVars
  PROVE  FloodInv'
<1>1. CASE B!BlobNext
  BY <1>1, FillStep DEF FloodInv
<1>2. CASE UNCHANGED blobVars
  <2>1. /\ image' = image /\ visited' = visited /\ fill_stack' = fill_stack /\ next' = next
        /\ current' = current /\ blobs' = blobs
    BY <1>2 DEF blobVars
  <2>2. FillInv(image', visited', fill_stack', next', current', blobs')
    BY <2>1 DEF FloodInv
  <2> QED BY <2>2 DEF FloodInv, FillInv, Busy, Filled, Old, Expected, Seeds, CompOf, EdgesOf,
               OnStack, Once, BoxIs
<1> QED BY <1>1, <1>2

-----------------------------------------------------------------------------
(* Rows and the threshold *)

\* Whatever was in the ring, the three rows of each step are where the kernel looks.
LEMMA RowsFollow ==
  ASSUME NEW y \in Nat, y >= 1
  PROVE  /\ S!RowsAt(y)[(y - 1) % 3] = y - 1 /\ S!RowsAt(y)[y % 3] = y
         /\ S!RowsAt(y)[(y + 1) % 3] = y + 1
<1> DEFINE V == [0 .. 2 -> Int]
           base == [s \in 0 .. 2 |-> IF s < 2 THEN s ELSE -1]
           term(z, v) == [v EXCEPT ![S!RowSlot(z)] = z + 1]
           step == [x \in Nat \X V |-> term(x[1], x[2])]
           c == CHOOSE f : f = [z \in 0 .. y |-> IF z = 0 THEN base ELSE term(z, f[z - 1])]
           In(z) == /\ c[z] \in V /\ c[z][z % 3] = z /\ c[z][(z + 1) % 3] = z + 1
                    /\ z >= 1 => c[z][(z - 1) % 3] = z - 1
<1>1. S!RowsAt(y) = c[y]
  BY DEF S!RowsAt
<1>2. ASSUME NEW k \in Nat, NEW v \in V
      PROVE  /\ term(k, v) \in V /\ term(k, v)[(k + 1) % 3] = k + 1
             /\ term(k, v)[(k - 1) % 3] = v[(k - 1) % 3] /\ term(k, v)[k % 3] = v[k % 3]
  <2>1. /\ k % 3 \in 0 .. 2 /\ (k + 1) % 3 \in 0 .. 2 /\ (k - 1) % 3 \in 0 .. 2
        /\ k % 3 # (k + 1) % 3 /\ (k - 1) % 3 # (k + 1) % 3
    OBVIOUS
  <2>2. S!RowSlot(k) = (k + 1) % 3
    BY DEF S!RowSlot
  <2> QED BY <2>1, <2>2
<1>3. base \in V /\ base[0] = 0 /\ base[1] = 1
  OBVIOUS
<1> HIDE DEF term, V, base
<1>4. step \in [Nat \X V -> V]
  BY <1>2
<1>5. PICK g \in [0 .. y -> V] : Run(g, y, base, step)
  <2> HIDE DEF step
  <2> QED BY <1>3, <1>4, RunExists
<1>6. g = [z \in 0 .. y |-> IF z = 0 THEN base ELSE term(z, g[z - 1])]
  <2>1. ASSUME NEW z \in 1 .. y PROVE g[z] = term(z, g[z - 1])
    <3>1. z - 1 \in Nat /\ z - 1 < y /\ (z - 1) + 1 = z /\ z - 1 \in 0 .. y /\ z \in Nat
      OBVIOUS
    <3>2. g[z] = step[<<z, g[z - 1]>>]
      BY <3>1, <1>5 DEF Run
    <3>3. g[z - 1] \in V
      BY <3>1, <1>5
    <3> QED BY <3>1, <3>2, <3>3
  <2> HIDE DEF step
  <2>2. g[0] = base /\ g = [z \in 0 .. y |-> g[z]]
    BY <1>5 DEF Run
  <2>3. ASSUME NEW z \in 0 .. y PROVE g[z] = IF z = 0 THEN base ELSE term(z, g[z - 1])
    <3>1. z # 0 => z \in 1 .. y
      OBVIOUS
    <3> QED BY <3>1, <2>1, <2>2
  <2> QED BY <2>2, <2>3, Zenon
<1>7. c = [z \in 0 .. y |-> IF z = 0 THEN base ELSE term(z, c[z - 1])]
  BY <1>6
<1> HIDE DEF c, step
<1>8. c[0] = base /\ \A z \in Nat : z < y => c[z + 1] = term(z + 1, c[z])
  <2>1. 0 \in 0 .. y /\ \A z \in Nat : z < y => z + 1 \in 0 .. y /\ z + 1 # 0 /\ (z + 1) - 1 = z
    OBVIOUS
  <2>2. c[0] = base
    BY <1>7, <2>1, Zenon
  <2>3. ASSUME NEW z \in Nat, z < y PROVE c[z + 1] = term(z + 1, c[z])
    <3>1. c[z + 1] = term(z + 1, c[(z + 1) - 1])
      BY <1>7, <2>1, <2>3, Zenon
    <3> QED BY <3>1, <2>1, <2>3
  <2> QED BY <2>2, <2>3
<1>9. In(0)
  <2>1. 0 % 3 = 0 /\ (0 + 1) % 3 = 1 /\ ~(0 >= 1)
    OBVIOUS
  <2> QED BY <2>1, <1>3, <1>8
<1>10. ASSUME NEW z \in Nat, z < y, In(z) PROVE In(z + 1)
  <2>1. z + 1 \in Nat /\ (z + 1) - 1 = z
    OBVIOUS
  <2>2. c[z + 1] = term(z + 1, c[z])
    BY <1>8, <1>10
  <2>3. /\ term(z + 1, c[z]) \in V /\ term(z + 1, c[z])[((z + 1) + 1) % 3] = (z + 1) + 1
        /\ term(z + 1, c[z])[((z + 1) - 1) % 3] = c[z][((z + 1) - 1) % 3]
        /\ term(z + 1, c[z])[(z + 1) % 3] = c[z][(z + 1) % 3]
    BY <2>1, <1>2, <1>10
  <2> QED BY <2>1, <2>2, <2>3, <1>10
<1> HIDE DEF In
<1>11. In(y)
  <2> DEFINE M == {z \in Nat : z <= y => In(z)}
  <2>1. M \in SUBSET Nat /\ 0 \in M /\ \A z \in M : z + 1 \in M
    BY <1>9, <1>10
  <2>2. y \in M
    <3> HIDE DEF M
    <3> QED BY <2>1, Counting
  <2> QED BY <2>2
<1> QED BY <1>1, <1>11 DEF In

\* Sums(cs, hist): the counts below each contrast.
Sums(cs, hist) ==
  /\ cs \in [0 .. CONTRASTS -> Nat] /\ cs[0] = 0
  /\ \A v \in Nat : v < CONTRASTS => cs[v + 1] = cs[v] + hist[v]

LEMMA ThresholdRun ==
  ASSUME S!StarConstants, NEW hist \in [0 .. CONTRASTS - 1 -> Nat]
  PROVE  \E cs : /\ Sums(cs, hist)
                 /\ S!compute_threshold(hist) =
                      S!Clamp(THRESHOLD_K * CHOOSE v \in 0 .. CONTRASTS - 1 :
                                /\ cs[v + 1] >= S!Half(cs[CONTRASTS])
                                /\ \A u \in 1 .. v : cs[u] < S!Half(cs[CONTRASTS]))
<1>1. PICK n \in Nat \ {0} : n = CONTRASTS
  BY DEF S!StarConstants
<1> DEFINE term(k, v) == v + hist[k - 1]
           step == [x \in Nat \X Nat |-> IF x[1] \in 1 .. n THEN term(x[1], x[2]) ELSE 0]
           c == CHOOSE f : f = [v \in 0 .. CONTRASTS |-> IF v = 0 THEN 0 ELSE term(v, f[v - 1])]
<1>2. S!compute_threshold(hist) =
        S!Clamp(THRESHOLD_K * CHOOSE v \in 0 .. CONTRASTS - 1 :
                  /\ c[v + 1] >= S!Half(c[CONTRASTS])
                  /\ \A u \in 1 .. v : c[u] < S!Half(c[CONTRASTS]))
  BY Zenon DEF S!compute_threshold
<1>3. ASSUME NEW k \in 1 .. n, NEW v \in Nat PROVE term(k, v) \in Nat
  <2>1. k - 1 \in 0 .. CONTRASTS - 1
    BY <1>1
  <2>2. hist[k - 1] \in Nat
    BY <2>1
  <2> QED BY <2>2
<1>4. \A v \in Nat : \A k \in Nat : term(k + 1, v) = v + hist[k]
  <2>1. \A k \in Nat : (k + 1) - 1 = k
    OBVIOUS
  <2> QED BY <2>1
<1> HIDE DEF term
<1>5. step \in [Nat \X Nat -> Nat]
  BY <1>3
<1>6. PICK g \in [0 .. n -> Nat] : Run(g, n, 0, step)
  <2> HIDE DEF step
  <2> QED BY <1>5, RunExists
<1>7. g = [v \in 0 .. CONTRASTS |-> IF v = 0 THEN 0 ELSE term(v, g[v - 1])]
  <2>1. ASSUME NEW z \in 1 .. n PROVE g[z] = term(z, g[z - 1])
    <3>1. z - 1 \in Nat /\ z - 1 < n /\ (z - 1) + 1 = z /\ z - 1 \in 0 .. n /\ z \in Nat
      OBVIOUS
    <3>2. g[z] = step[<<z, g[z - 1]>>]
      BY <3>1, <1>6 DEF Run
    <3>3. g[z - 1] \in Nat
      BY <3>1, <1>6
    <3> QED BY <3>1, <3>2, <3>3
  <2> HIDE DEF step
  <2>2. g[0] = 0 /\ g = [z \in 0 .. n |-> g[z]]
    BY <1>6 DEF Run
  <2>3. ASSUME NEW z \in 0 .. n PROVE g[z] = IF z = 0 THEN 0 ELSE term(z, g[z - 1])
    <3>1. z # 0 => z \in 1 .. n
      OBVIOUS
    <3> QED BY <3>1, <2>1, <2>2
  <2> QED BY <1>1, <2>2, <2>3, Zenon
<1>8. c = [v \in 0 .. CONTRASTS |-> IF v = 0 THEN 0 ELSE term(v, c[v - 1])]
  BY <1>7
<1> HIDE DEF c, step
<1>9. c[0] = 0 /\ \A z \in Nat : z < n => c[z + 1] = term(z + 1, c[z])
  <2>1. 0 \in 0 .. n /\ \A z \in Nat : z < n => z + 1 \in 0 .. n /\ z + 1 # 0 /\ (z + 1) - 1 = z
    OBVIOUS
  <2>2. c[0] = 0
    BY <1>1, <1>8, <2>1, Zenon
  <2>3. ASSUME NEW z \in Nat, z < n PROVE c[z + 1] = term(z + 1, c[z])
    <3>1. c[z + 1] = term(z + 1, c[(z + 1) - 1])
      BY <1>1, <1>8, <2>1, <2>3, Zenon
    <3> QED BY <3>1, <2>1, <2>3
  <2> QED BY <2>2, <2>3
<1>10. \A k \in 0 .. n : c[k] \in Nat
  <2>1. ASSUME NEW k \in Nat, k < n, c[k] \in Nat PROVE c[k + 1] \in Nat
    <3>1. k + 1 \in 1 .. n
      BY <2>1
    <3> QED BY <3>1, <2>1, <1>3, <1>9
  <2>2. c[0] \in Nat
    BY <1>9
  <2> QED BY <2>1, <2>2, RunStays
<1>11. c \in [0 .. CONTRASTS -> Nat]
  BY <1>1, <1>8, <1>10
<1>12. Sums(c, hist)
  <2>1. \A z \in Nat : z < n => c[z] \in Nat
    BY <1>10
  <2> QED BY <2>1, <1>1, <1>4, <1>9, <1>11 DEF Sums
<1> QED BY <1>2, <1>12

\* The samples of the contrasts, one after the other.
Expanded(sm, hist) ==
  /\ sm \in [0 .. CONTRASTS -> Seq(Nat)] /\ sm[0] = << >>
  /\ \A v \in Nat : v < CONTRASTS => sm[v + 1] = sm[v] \o [k \in 1 .. hist[v] |-> v]

LEMMA SamplesRun ==
  ASSUME S!StarConstants, NEW hist \in [0 .. CONTRASTS - 1 -> Nat]
  PROVE  \E sm : /\ Expanded(sm, hist)
                 /\ S!ThresholdIsMedian(hist) <=>
                      S!compute_threshold(hist) =
                        S!Clamp(THRESHOLD_K * (IF Len(sm[CONTRASTS]) \div 2 = 0 THEN 0
                                  ELSE sm[CONTRASTS][Len(sm[CONTRASTS]) \div 2]))
<1>1. PICK n \in Nat \ {0} : n = CONTRASTS
  BY DEF S!StarConstants
<1> DEFINE V == Seq(Nat)
           term(k, v) == v \o [i \in 1 .. hist[k - 1] |-> k - 1]
           step == [x \in Nat \X V |-> IF x[1] \in 1 .. n THEN term(x[1], x[2]) ELSE << >>]
           c == CHOOSE f : f = [v \in 0 .. CONTRASTS |-> IF v = 0 THEN << >> ELSE term(v, f[v - 1])]
<1>2. S!ThresholdIsMedian(hist) <=>
        S!compute_threshold(hist) =
          S!Clamp(THRESHOLD_K * (IF Len(c[CONTRASTS]) \div 2 = 0 THEN 0
                                  ELSE c[CONTRASTS][Len(c[CONTRASTS]) \div 2]))
  BY Zenon DEF S!ThresholdIsMedian
<1>3. ASSUME NEW k \in 1 .. n, NEW v \in V PROVE term(k, v) \in V
  <2>1. k - 1 \in 0 .. CONTRASTS - 1
    BY <1>1
  <2>2. hist[k - 1] \in Nat /\ k - 1 \in Nat
    BY <2>1
  <2>3. PICK m \in Nat, e \in Nat : m = hist[k - 1] /\ e = k - 1
    BY <2>2
  <2>4. [i \in 1 .. m |-> e] \in Seq(Nat)
    OBVIOUS
  <2> QED BY <2>3, <2>4, ConcatProperties
<1>4. \A v \in V : \A k \in Nat : term(k + 1, v) = v \o [i \in 1 .. hist[k] |-> k]
  <2>1. \A k \in Nat : (k + 1) - 1 = k
    OBVIOUS
  <2> QED BY <2>1
<1> HIDE DEF term
<1>5. << >> \in V
  OBVIOUS
<1> HIDE DEF V
<1>6. step \in [Nat \X V -> V]
  BY <1>3, <1>5
<1>7. PICK g \in [0 .. n -> V] : Run(g, n, << >>, step)
  <2> HIDE DEF step
  <2> QED BY <1>5, <1>6, RunExists
<1>8. g = [v \in 0 .. CONTRASTS |-> IF v = 0 THEN << >> ELSE term(v, g[v - 1])]
  <2>1. ASSUME NEW z \in 1 .. n PROVE g[z] = term(z, g[z - 1])
    <3>1. z - 1 \in Nat /\ z - 1 < n /\ (z - 1) + 1 = z /\ z - 1 \in 0 .. n /\ z \in Nat
      OBVIOUS
    <3>2. g[z] = step[<<z, g[z - 1]>>]
      BY <3>1, <1>7 DEF Run
    <3>3. g[z - 1] \in V
      BY <3>1, <1>7
    <3> QED BY <3>1, <3>2, <3>3
  <2> HIDE DEF step
  <2>2. g[0] = << >> /\ g = [z \in 0 .. n |-> g[z]]
    BY <1>7 DEF Run
  <2>3. ASSUME NEW z \in 0 .. n PROVE g[z] = IF z = 0 THEN << >> ELSE term(z, g[z - 1])
    <3>1. z # 0 => z \in 1 .. n
      OBVIOUS
    <3> QED BY <3>1, <2>1, <2>2
  <2> QED BY <1>1, <2>2, <2>3, Zenon
<1>9. c = [v \in 0 .. CONTRASTS |-> IF v = 0 THEN << >> ELSE term(v, c[v - 1])]
  BY <1>8
<1> HIDE DEF c, step
<1>10. c[0] = << >> /\ \A z \in Nat : z < n => c[z + 1] = term(z + 1, c[z])
  <2>1. 0 \in 0 .. n /\ \A z \in Nat : z < n => z + 1 \in 0 .. n /\ z + 1 # 0 /\ (z + 1) - 1 = z
    OBVIOUS
  <2>2. c[0] = << >>
    BY <1>1, <1>9, <2>1, Zenon
  <2>3. ASSUME NEW z \in Nat, z < n PROVE c[z + 1] = term(z + 1, c[z])
    <3>1. c[z + 1] = term(z + 1, c[(z + 1) - 1])
      BY <1>1, <1>9, <2>1, <2>3, Zenon
    <3> QED BY <3>1, <2>1, <2>3
  <2> QED BY <2>2, <2>3
<1>11. \A k \in 0 .. n : c[k] \in V
  <2>1. ASSUME NEW k \in Nat, k < n, c[k] \in V PROVE c[k + 1] \in V
    <3>1. k + 1 \in 1 .. n
      BY <2>1
    <3> QED BY <3>1, <2>1, <1>3, <1>10
  <2>2. c[0] \in V
    BY <1>5, <1>10
  <2> QED BY <2>1, <2>2, RunStays
<1>12. c \in [0 .. CONTRASTS -> V]
  BY <1>1, <1>9, <1>11
<1>13. Expanded(c, hist)
  <2>1. \A z \in Nat : z < n => c[z] \in V
    BY <1>11
  <2> QED BY <2>1, <1>1, <1>4, <1>10, <1>12 DEF Expanded, V
<1> QED BY <1>2, <1>13

\* The least contrast that has half of the samples up to it is the one of the sample in
\* the middle, for every histogram.
THEOREM MedianThreshold ==
  ASSUME S!StarConstants, NEW hist \in [0 .. CONTRASTS - 1 -> Nat]
  PROVE  S!ThresholdIsMedian(hist)
<1>1. PICK n \in Nat \ {0} : n = CONTRASTS
  BY DEF S!StarConstants
<1>2. PICK cs : /\ Sums(cs, hist)
                /\ S!compute_threshold(hist) =
                     S!Clamp(THRESHOLD_K * CHOOSE v \in 0 .. CONTRASTS - 1 :
                               /\ cs[v + 1] >= S!Half(cs[CONTRASTS])
                               /\ \A u \in 1 .. v : cs[u] < S!Half(cs[CONTRASTS]))
  BY ThresholdRun
<1>3. PICK sm : /\ Expanded(sm, hist)
                /\ S!ThresholdIsMedian(hist) <=>
                     S!compute_threshold(hist) =
                       S!Clamp(THRESHOLD_K * (IF Len(sm[CONTRASTS]) \div 2 = 0 THEN 0
                                 ELSE sm[CONTRASTS][Len(sm[CONTRASTS]) \div 2]))
  BY SamplesRun
<1>4. /\ cs \in [0 .. n -> Nat] /\ cs[0] = 0
      /\ \A v \in Nat : v < n => cs[v + 1] = cs[v] + hist[v]
  BY <1>1, <1>2 DEF Sums
<1>5. /\ sm \in [0 .. n -> Seq(Nat)] /\ sm[0] = << >>
      /\ \A v \in Nat : v < n => sm[v + 1] = sm[v] \o [k \in 1 .. hist[v] |-> v]
  BY <1>1, <1>3 DEF Expanded
<1>6. \A v \in Nat : v < n => hist[v] \in Nat
  BY <1>1
<1> DEFINE Known(v) ==
             /\ Len(sm[v]) = cs[v]
             /\ \A k \in 1 .. cs[v] :
                  sm[v][k] \in 0 .. v - 1 /\ cs[sm[v][k]] < k /\ k <= cs[sm[v][k] + 1]
<1>7. Known(0)
  BY <1>4, <1>5
<1>8. ASSUME NEW v \in Nat, v < n, Known(v) PROVE Known(v + 1)
  <2>1. PICK m \in Nat, a \in Nat, s \in Seq(Nat) : m = hist[v] /\ a = cs[v] /\ s = sm[v]
    <3>1. v \in 0 .. n
      BY <1>8
    <3> QED BY <3>1, <1>4, <1>5, <1>6, <1>8
  <2>2. Len(s) = a /\ cs[v + 1] = a + m
    BY <2>1, <1>4, <1>8
  <2>3. PICK t : t = [k \in 1 .. m |-> v]
    OBVIOUS
  <2>4. t \in Seq(Nat) /\ Len(t) = m
    BY <2>3
  <2>5. sm[v + 1] = s \o t
    BY <2>1, <2>3, <1>5, <1>8
  <2>6. /\ Len(s \o t) = a + m
        /\ \A k \in 1 .. a + m : (s \o t)[k] = IF k <= a THEN s[k] ELSE t[k - a]
    BY <2>2, <2>4, ConcatProperties
  <2>7. ASSUME NEW k \in 1 .. a + m
        PROVE  LET u == (s \o t)[k] IN u \in 0 .. v /\ cs[u] < k /\ k <= cs[u + 1]
    <3>1. CASE k <= a
      <4>1. s[k] \in 0 .. v - 1 /\ cs[s[k]] < k /\ k <= cs[s[k] + 1]
        BY <3>1, <2>1, <1>8
      <4>2. s[k] \in 0 .. v
        BY <4>1
      <4> QED BY <3>1, <4>1, <4>2, <2>6
    <3>2. CASE ~(k <= a)
      <4>1. k - a \in 1 .. m
        BY <3>2
      <4>2. t[k - a] = v
        BY <4>1, <2>3
      <4>3. (s \o t)[k] = v
        BY <3>2, <4>2, <2>6
      <4> QED BY <3>2, <4>3, <2>1, <2>2
    <3> QED BY <3>1, <3>2
  <2>8. (v + 1) - 1 = v
    OBVIOUS
  <2> QED BY <2>2, <2>5, <2>6, <2>7, <2>8
<1>9. Known(n)
  <2> DEFINE M == {v \in Nat : v <= n => Known(v)}
  <2> HIDE DEF Known
  <2>1. M \in SUBSET Nat /\ 0 \in M /\ \A v \in M : v + 1 \in M
    BY <1>7, <1>8
  <2>2. n \in M
    <3> HIDE DEF M
    <3> QED BY <2>1, Counting
  <2> QED BY <2>2
<1>10. \A u, v \in 0 .. n : u <= v => cs[u] <= cs[v]
  <2> DEFINE M == {v \in Nat : v <= n => \A u \in 0 .. v : cs[u] <= cs[v]}
  <2>1. 0 \in M
    BY <1>4
  <2>2. ASSUME NEW v \in M PROVE v + 1 \in M
    <3>1. SUFFICES ASSUME v + 1 <= n, NEW u \in 0 .. v + 1 PROVE cs[u] <= cs[v + 1]
      OBVIOUS
    <3>2. v \in Nat /\ v < n
      BY <3>1
    <3>3. v \in 0 .. n /\ v + 1 \in 0 .. n /\ u \in 0 .. n
      BY <3>1, <3>2
    <3>4. cs[v] \in Nat /\ cs[v + 1] \in Nat /\ cs[u] \in Nat /\ cs[v + 1] >= cs[v]
      BY <3>2, <3>3, <1>4, <1>6
    <3>5. u \in 0 .. v => cs[u] <= cs[v]
      BY <3>2
    <3> QED BY <3>4, <3>5
  <2>3. M \in SUBSET Nat
    OBVIOUS
  <2>4. \A v \in 0 .. n : v \in M
    <3> HIDE DEF M
    <3> QED BY <2>1, <2>2, <2>3, Counting
  <2> QED BY <2>4
<1>11. PICK half \in Nat : half = cs[n] \div 2 /\ half <= cs[n]
  <2>1. cs[n] \in Nat
    BY <1>4
  <2> QED BY <2>1
<1>12. S!Half(cs[CONTRASTS]) = half /\ Len(sm[CONTRASTS]) \div 2 = half
  BY <1>1, <1>9, <1>11 DEF S!Half
<1> DEFINE Mid(v) == cs[v + 1] >= half /\ \A u \in 1 .. v : cs[u] < half
           median == CHOOSE v \in 0 .. CONTRASTS - 1 : Mid(v)
           expected == IF half = 0 THEN 0 ELSE sm[n][half]
<1>13. expected \in 0 .. n - 1 /\ Mid(expected)
  <2>1. CASE half = 0
    <3>1. 1 \in 0 .. n
      OBVIOUS
    <3>2. cs[1] \in Nat
      BY <3>1, <1>4
    <3> QED BY <2>1, <3>2
  <2>2. CASE half # 0
    <3>1. half \in 1 .. cs[n]
      BY <2>2, <1>11
    <3>2. PICK e \in 0 .. n - 1 : e = sm[n][half] /\ cs[e] < half /\ half <= cs[e + 1]
      BY <3>1, <1>9
    <3>3. \A u \in 1 .. e : cs[u] < half
      <4>1. ASSUME NEW u \in 1 .. e PROVE cs[u] < half
        <5>1. u \in 0 .. n /\ e \in 0 .. n /\ u <= e
          OBVIOUS
        <5>2. cs[u] <= cs[e] /\ cs[u] \in Nat /\ cs[e] \in Nat
          BY <5>1, <1>4, <1>10
        <5> QED BY <3>2, <5>2
      <4> QED BY <4>1
    <3>4. cs[e + 1] \in Nat
      <4>1. e + 1 \in 0 .. n
        OBVIOUS
      <4> QED BY <4>1, <1>4
    <3>5. expected = e
      BY <2>2, <3>2
    <3> QED BY <3>2, <3>3, <3>4, <3>5
  <2> QED BY <2>1, <2>2
<1>14. \A v \in 0 .. n - 1, w \in 0 .. n - 1 : Mid(v) /\ Mid(w) => v = w
  <2>1. ASSUME NEW v \in 0 .. n - 1, NEW w \in 0 .. n - 1, Mid(v), Mid(w), v < w PROVE FALSE
    <3>1. v + 1 \in 1 .. w /\ v + 1 \in 0 .. n
      BY <2>1
    <3>2. cs[v + 1] \in Nat /\ cs[v + 1] < half /\ cs[v + 1] >= half
      BY <3>1, <2>1, <1>4
    <3> QED BY <3>2
  <2> HIDE DEF Mid
  <2>2. \A v \in 0 .. n - 1, w \in 0 .. n - 1 : v = w \/ v < w \/ w < v
    OBVIOUS
  <2> QED BY <2>1, <2>2
<1>15. median = expected
  <2> HIDE DEF Mid, expected
  <2> QED BY <1>1, <1>13, <1>14
<1>16. S!compute_threshold(hist) = S!Clamp(THRESHOLD_K * median)
  BY <1>2, <1>12
<1> HIDE DEF median
<1> QED BY <1>1, <1>3, <1>12, <1>15, <1>16

-----------------------------------------------------------------------------
(* The stars of a vote map *)

LEMMA SameCountS == \A T : S!Cardinality(T) = Cardinality(T)
BY DEF S!Cardinality, Cardinality

\* The loops visit every pixel inside the border, once.
LEMMA InnerVisited ==
  ASSUME S!StarConstants
  PROVE  /\ S!Area \in Nat
         /\ \A i \in Nat : i < S!Area => S!Inner(i + 1) \in Inner
         /\ \A i, j \in Nat : i < S!Area /\ j < S!Area /\ S!Inner(i + 1) = S!Inner(j + 1) => i = j
         /\ \A p \in Inner : \E i \in Nat : i < S!Area /\ S!Inner(i + 1) = p
<1>1. PICK w \in Nat \ {0} : w = STAR_WIDTH - 2
  BY DEF S!StarConstants
<1>2. PICK h \in Nat \ {0} : h = STAR_HEIGHT - 2
  BY DEF S!StarConstants
<1>3. S!Area = w * h /\ w * h \in Nat
  BY <1>1, <1>2 DEF S!Area
<1>4. ASSUME NEW i \in Nat, i < w * h
      PROVE  \E q \in 0 .. h - 1, r \in 0 .. w - 1 :
               i = w * q + r /\ S!Inner(i + 1) = <<r + 1, q + 1>>
  <2>1. PICK q \in Int, r \in Int :
          q = i \div w /\ r = i % w /\ i = w * q + r /\ 0 <= r /\ r < w
    OBVIOUS
  <2>2. q >= 0
    <3>1. q <= -1 => w * q <= - w
      OBVIOUS
    <3> QED BY <2>1, <3>1
  <2>3. q < h
    <3>1. q >= h => w * q >= w * h
      OBVIOUS
    <3> QED BY <2>1, <3>1, <1>4
  <2>4. (i + 1) - 1 = i
    OBVIOUS
  <2>5. S!Inner(i + 1) = <<r + 1, q + 1>>
    BY <2>1, <2>4, <1>1 DEF S!Inner
  <2>6. q \in 0 .. h - 1 /\ r \in 0 .. w - 1
    BY <2>1, <2>2, <2>3
  <2> QED BY <2>1, <2>5, <2>6
<1>5. \A i \in Nat : i < w * h => S!Inner(i + 1) \in Inner
  <2>1. \A q \in 0 .. h - 1, r \in 0 .. w - 1 : <<r + 1, q + 1>> \in Inner
    BY <1>1, <1>2 DEF Inner
  <2> QED BY <2>1, <1>4
<1>6. ASSUME NEW i \in Nat, NEW j \in Nat, i < w * h, j < w * h, S!Inner(i + 1) = S!Inner(j + 1)
      PROVE  i = j
  <2>1. PICK q \in 0 .. h - 1, r \in 0 .. w - 1 : i = w * q + r /\ S!Inner(i + 1) = <<r + 1, q + 1>>
    BY <1>4, <1>6
  <2>2. PICK u \in 0 .. h - 1, v \in 0 .. w - 1 : j = w * u + v /\ S!Inner(j + 1) = <<v + 1, u + 1>>
    BY <1>4, <1>6
  <2>3. r + 1 = v + 1 /\ q + 1 = u + 1
    BY <2>1, <2>2, <1>6
  <2>4. r = v /\ q = u
    BY <2>3
  <2> QED BY <2>1, <2>2, <2>4
<1>7. ASSUME NEW p \in Inner PROVE \E i \in Nat : i < w * h /\ S!Inner(i + 1) = p
  <2>1. PICK x \in 0 .. w - 1, y \in 0 .. h - 1 : p = <<x + 1, y + 1>>
    <3>1. p = <<p[1], p[2]>> /\ p[1] \in 1 .. w /\ p[2] \in 1 .. h
      BY <1>1, <1>2 DEF Inner
    <3>2. p[1] - 1 \in 0 .. w - 1 /\ p[2] - 1 \in 0 .. h - 1
          /\ p = <<(p[1] - 1) + 1, (p[2] - 1) + 1>>
      BY <3>1
    <3> QED BY <3>2
  <2>2. PICK i \in Nat : i = y * w + x
    OBVIOUS
  <2>3. i \div w = y /\ i % w = x
    BY <2>2, Digit
  <2>4. (i + 1) - 1 = i
    OBVIOUS
  <2>5. S!Inner(i + 1) = <<x + 1, y + 1>>
    BY <2>3, <2>4, <1>1 DEF S!Inner
  <2>6. i < w * h
    <3>1. y + 1 <= h /\ y \in Nat /\ x \in Nat /\ x < w
      OBVIOUS
    <3>2. w * h >= w * (y + 1)
      BY <3>1
    <3>3. w * (y + 1) = y * w + w
      BY <3>1
    <3> QED BY <3>1, <3>2, <3>3, <2>2
  <2> QED BY <2>1, <2>5, <2>6
<1> QED BY <1>3, <1>5, <1>6, <1>7

\* What the loops look for.
IsStar(votes, p, mv) == votes[p] >= mv /\ S!IsMax(votes, p)

LoopSteps(st, votes, mv) ==
  /\ st \in [0 .. S!Area -> Seq(Inner)] /\ st[0] = << >>
  /\ \A i \in Nat : i < S!Area => st[i + 1] = S!Pushed(st[i], votes, S!Inner(i + 1), mv)
  /\ S!Maxima(votes, mv) = st[S!Area]

LEMMA LoopRun ==
  ASSUME S!StarConstants, NEW votes, NEW mv
  PROVE  \E st : LoopSteps(st, votes, mv)
<1>1. PICK n \in Nat : n = S!Area
  BY InnerVisited
<1> DEFINE V == Seq(Inner)
           term(k, v) == S!Pushed(v, votes, S!Inner(k), mv)
           step == [x \in Nat \X V |-> IF x[1] \in 1 .. n THEN term(x[1], x[2]) ELSE << >>]
           c == CHOOSE f : f = [i \in 0 .. S!Area |-> IF i = 0 THEN << >> ELSE term(i, f[i - 1])]
<1>2. S!Maxima(votes, mv) = c[S!Area]
  BY Zenon DEF S!Maxima
<1>3. ASSUME NEW k \in 1 .. n, NEW v \in V PROVE term(k, v) \in V
  <2>1. k - 1 \in Nat /\ k - 1 < n /\ (k - 1) + 1 = k
    OBVIOUS
  <2>2. S!Inner(k) \in Inner
    BY <2>1, <1>1, InnerVisited
  <2>3. Append(v, S!Inner(k)) \in V
    BY <2>2, AppendProperties
  <2> QED BY <2>3 DEF S!Pushed
<1>4. \A v, k : term(k, v) = S!Pushed(v, votes, S!Inner(k), mv)
  OBVIOUS
<1> HIDE DEF term
<1>5. << >> \in V
  OBVIOUS
<1> HIDE DEF V
<1>6. step \in [Nat \X V -> V]
  BY <1>3, <1>5
<1>7. PICK g \in [0 .. n -> V] : Run(g, n, << >>, step)
  <2> HIDE DEF step
  <2> QED BY <1>5, <1>6, RunExists
<1>8. g = [i \in 0 .. S!Area |-> IF i = 0 THEN << >> ELSE term(i, g[i - 1])]
  <2>1. ASSUME NEW z \in 1 .. n PROVE g[z] = term(z, g[z - 1])
    <3>1. z - 1 \in Nat /\ z - 1 < n /\ (z - 1) + 1 = z /\ z - 1 \in 0 .. n /\ z \in Nat
      OBVIOUS
    <3>2. g[z] = step[<<z, g[z - 1]>>]
      BY <3>1, <1>7 DEF Run
    <3>3. g[z - 1] \in V
      BY <3>1, <1>7
    <3> QED BY <3>1, <3>2, <3>3
  <2> HIDE DEF step
  <2>2. g[0] = << >> /\ g = [z \in 0 .. n |-> g[z]]
    BY <1>7 DEF Run
  <2>3. ASSUME NEW z \in 0 .. n PROVE g[z] = IF z = 0 THEN << >> ELSE term(z, g[z - 1])
    <3>1. z # 0 => z \in 1 .. n
      OBVIOUS
    <3> QED BY <3>1, <2>1, <2>2
  <2> QED BY <1>1, <2>2, <2>3, Zenon
<1>9. c = [i \in 0 .. S!Area |-> IF i = 0 THEN << >> ELSE term(i, c[i - 1])]
  BY <1>8
<1> HIDE DEF c, step
<1>10. c[0] = << >> /\ \A z \in Nat : z < n => c[z + 1] = term(z + 1, c[z])
  <2>1. 0 \in 0 .. n /\ \A z \in Nat : z < n => z + 1 \in 0 .. n /\ z + 1 # 0 /\ (z + 1) - 1 = z
    OBVIOUS
  <2>2. c[0] = << >>
    BY <1>1, <1>9, <2>1, Zenon
  <2>3. ASSUME NEW z \in Nat, z < n PROVE c[z + 1] = term(z + 1, c[z])
    <3>1. c[z + 1] = term(z + 1, c[(z + 1) - 1])
      BY <1>1, <1>9, <2>1, <2>3, Zenon
    <3> QED BY <3>1, <2>1, <2>3
  <2> QED BY <2>2, <2>3
<1>11. \A k \in 0 .. n : c[k] \in V
  <2>1. ASSUME NEW k \in Nat, k < n, c[k] \in V PROVE c[k + 1] \in V
    <3>1. k + 1 \in 1 .. n
      BY <2>1
    <3> QED BY <3>1, <2>1, <1>3, <1>10
  <2>2. c[0] \in V
    BY <1>5, <1>10
  <2> QED BY <2>1, <2>2, RunStays
<1>12. c \in [0 .. S!Area -> V]
  BY <1>1, <1>9, <1>11
<1> QED BY <1>1, <1>2, <1>4, <1>10, <1>12 DEF LoopSteps, V

\* A list of different stars that is full or has all of them.
StarList(stars, votes, mv) ==
  /\ stars \in Seq(Inner) /\ Len(stars) <= MAX_STARS
  /\ \A k \in 1 .. Len(stars) : IsStar(votes, stars[k], mv)
  /\ \A j, k \in 1 .. Len(stars) : stars[j] = stars[k] => j = k
  /\ Len(stars) < MAX_STARS =>
       \A p \in Inner : IsStar(votes, p, mv) => \E k \in 1 .. Len(stars) : stars[k] = p

LEMMA MaximaAreStars ==
  ASSUME S!StarConstants, NEW votes, NEW mv
  PROVE  StarList(S!Maxima(votes, mv), votes, mv)
<1>1. PICK st : LoopSteps(st, votes, mv)
  BY LoopRun
<1>2. PICK n \in Nat : n = S!Area
  BY InnerVisited
<1>3. MAX_STARS \in Nat
  BY DEF S!StarConstants
<1>4. /\ st \in [0 .. n -> Seq(Inner)] /\ st[0] = << >>
      /\ \A i \in Nat : i < n => st[i + 1] = S!Pushed(st[i], votes, S!Inner(i + 1), mv)
      /\ S!Maxima(votes, mv) = st[n]
  BY <1>1, <1>2 DEF LoopSteps
<1>5. /\ \A i \in Nat : i < n => S!Inner(i + 1) \in Inner
      /\ \A i, j \in Nat : i < n /\ j < n /\ S!Inner(i + 1) = S!Inner(j + 1) => i = j
      /\ \A p \in Inner : \E i \in Nat : i < n /\ S!Inner(i + 1) = p
  BY <1>2, InnerVisited
<1> DEFINE Done(s, i) ==
             /\ s \in Seq(Inner) /\ Len(s) <= MAX_STARS
             /\ \A k \in 1 .. Len(s) :
                  IsStar(votes, s[k], mv) /\ \E j \in Nat : j < i /\ s[k] = S!Inner(j + 1)
             /\ \A j, k \in 1 .. Len(s) : s[j] = s[k] => j = k
             /\ Len(s) < MAX_STARS =>
                  \A j \in Nat : j < i /\ IsStar(votes, S!Inner(j + 1), mv) =>
                    \E k \in 1 .. Len(s) : s[k] = S!Inner(j + 1)
<1>6. Done(<< >>, 0)
  BY <1>3
<1>7. ASSUME NEW s, NEW i \in Nat, i < n, Done(s, i)
      PROVE  Done(S!Pushed(s, votes, S!Inner(i + 1), mv), i + 1)
  <2>1. PICK p \in Inner : p = S!Inner(i + 1)
    BY <1>5, <1>7
  <2>2. s \in Seq(Inner) /\ Len(s) \in Nat
    BY <1>7, LenProperties
  <2>3. \A j \in Nat : j < i + 1 <=> j < i \/ j = i
    OBVIOUS
  <2>4. CASE Len(s) < MAX_STARS /\ votes[p] >= mv /\ S!IsMax(votes, p)
    <3>1. S!Pushed(s, votes, p, mv) = Append(s, p)
      BY <2>4 DEF S!Pushed
    <3>2. PICK t \in Seq(Inner) : t = Append(s, p)
      BY <2>2, AppendProperties
    <3>3. Len(t) = Len(s) + 1 /\ t[Len(s) + 1] = p /\ \A k \in 1 .. Len(s) : t[k] = s[k]
      BY <2>2, <3>2, AppendProperties
    <3>4. \A k \in 1 .. Len(s) + 1 : k \in 1 .. Len(s) \/ k = Len(s) + 1
      BY <2>2
    <3>5. IsStar(votes, p, mv)
      BY <2>4 DEF IsStar
    <3>6. \A k \in 1 .. Len(s) : s[k] # p
      BY <2>1, <1>5, <1>7
    <3>7. ASSUME NEW k \in 1 .. Len(t)
          PROVE  IsStar(votes, t[k], mv) /\ \E j \in Nat : j < i + 1 /\ t[k] = S!Inner(j + 1)
      BY <2>1, <2>3, <3>3, <3>4, <3>5, <1>7
    <3>8. \A j, k \in 1 .. Len(t) : t[j] = t[k] => j = k
      BY <3>3, <3>4, <3>6, <1>7
    <3>9. ASSUME Len(t) < MAX_STARS, NEW j \in Nat, j < i + 1, IsStar(votes, S!Inner(j + 1), mv)
          PROVE  \E k \in 1 .. Len(t) : t[k] = S!Inner(j + 1)
      <4>1. 1 .. Len(s) \in SUBSET (1 .. Len(t)) /\ Len(s) + 1 \in 1 .. Len(t)
        BY <2>2, <3>3
      <4>2. CASE j < i
        <5>1. PICK k \in 1 .. Len(s) : s[k] = S!Inner(j + 1)
          BY <4>2, <3>9, <2>4, <1>7
        <5> QED BY <5>1, <4>1, <3>3
      <4>3. CASE j = i
        BY <4>3, <4>1, <3>3, <2>1
      <4> QED BY <4>2, <4>3, <2>3, <3>9
    <3>10. Len(t) <= MAX_STARS
      BY <3>3, <2>2, <2>4, <1>3
    <3>11. Done(t, i + 1)
      BY <3>7, <3>8, <3>9, <3>10
    <3> HIDE DEF Done
    <3> QED BY <2>1, <3>1, <3>2, <3>11
  <2>5. CASE ~(Len(s) < MAX_STARS /\ votes[p] >= mv /\ S!IsMax(votes, p))
    <3>1. S!Pushed(s, votes, p, mv) = s
      BY <2>5 DEF S!Pushed
    <3>2. Len(s) < MAX_STARS => ~IsStar(votes, p, mv)
      BY <2>5 DEF IsStar
    <3>3. Done(s, i + 1)
      BY <2>1, <2>3, <3>2, <1>7
    <3> QED BY <3>1, <3>3, <2>1
  <2> QED BY <2>4, <2>5
<1> HIDE DEF Done
<1>8. Done(st[n], n)
  <2> DEFINE M == {i \in Nat : i <= n => Done(st[i], i)}
  <2>1. 0 \in M
    BY <1>4, <1>6
  <2>2. ASSUME NEW i \in M PROVE i + 1 \in M
    <3>1. SUFFICES ASSUME i + 1 <= n PROVE Done(st[i + 1], i + 1)
      OBVIOUS
    <3>2. i \in Nat /\ i < n /\ i <= n
      BY <3>1
    <3> QED BY <3>2, <1>4, <1>7
  <2>3. n \in M
    <3>1. M \in SUBSET Nat
      OBVIOUS
    <3> HIDE DEF M
    <3> QED BY <3>1, <2>1, <2>2, Counting
  <2> QED BY <2>3
<1>9. StarList(st[n], votes, mv)
  BY <1>5, <1>8 DEF Done, StarList
<1> QED BY <1>4, <1>9

\* The list that is returned: the same stars, each brighter than those behind it.
Sorted(out, stars, votes) ==
  /\ out \in Seq(Inner) /\ Len(out) = Len(stars)
  /\ \A i \in 1 .. Len(out) : \E k \in 1 .. Len(stars) : out[i] = stars[k]
  /\ \A k \in 1 .. Len(stars) : \E i \in 1 .. Len(out) : out[i] = stars[k]
  /\ \A i, j \in 1 .. Len(out) : i < j => out[i] # out[j] /\ S!Brighter(votes, out[i], out[j])

VoteMap(votes) == votes \in [Sensor -> Int]

LEMMA InnerInSensor ==
  ASSUME S!StarConstants
  PROVE  /\ Inner \in SUBSET Sensor /\ Sensor \in SUBSET (Int \X Int)
         /\ \A p \in Inner : S!Around(p) \in SUBSET Sensor
<1>1. PICK w \in Nat \ {0} : w = STAR_WIDTH - 2 /\ STAR_WIDTH = w + 2
  BY DEF S!StarConstants
<1>2. PICK h \in Nat \ {0} : h = STAR_HEIGHT - 2 /\ STAR_HEIGHT = h + 2
  BY DEF S!StarConstants
<1>3. Inner = (1 .. w) \X (1 .. h) /\ Sensor = (0 .. w + 1) \X (0 .. h + 1)
  BY <1>1, <1>2 DEF Inner, Sensor
<1>4. Inner \in SUBSET Sensor /\ Sensor \in SUBSET (Int \X Int)
  BY <1>3
<1>5. ASSUME NEW p \in Inner PROVE S!Around(p) \in SUBSET Sensor
  <2>1. PICK x \in 1 .. w, y \in 1 .. h : p = <<x, y>>
    BY <1>3
  <2>2. S!Around(p) \in SUBSET ((x - 1 .. x + 1) \X (y - 1 .. y + 1))
    BY <2>1 DEF S!Around
  <2>3. (x - 1 .. x + 1) \in SUBSET (0 .. w + 1) /\ (y - 1 .. y + 1) \in SUBSET (0 .. h + 1)
    OBVIOUS
  <2> QED BY <2>2, <2>3, <1>3
<1> QED BY <1>4, <1>5

LEMMA BrighterOrders ==
  ASSUME NEW votes, VoteMap(votes), NEW T \in SUBSET Sensor, Sensor \in SUBSET (Int \X Int),
         NEW before, before = {e \in T \X T : S!Brighter(votes, e[1], e[2])}
  PROVE  Orders(before, T)
<1>1. \A p \in T : votes[p] \in Int /\ p \in Sensor
  BY DEF VoteMap
<1>2. ASSUME NEW p \in T, NEW q \in T
      PROVE  <<p, q>> \in before <=>
               votes[p] > votes[q] \/ (votes[p] = votes[q] /\
                 (p[2] < q[2] \/ (p[2] = q[2] /\ p[1] < q[1])))
  BY DEF S!Brighter, S!Earlier
<1>3. ASSUME NEW p \in T PROVE p[1] \in Int /\ p[2] \in Int /\ p = <<p[1], p[2]>>
  OBVIOUS
<1>4. ASSUME NEW p \in T, NEW q \in T
      PROVE  /\ <<p, q>> \in before => <<q, p>> \notin before
             /\ p = q \/ <<p, q>> \in before \/ <<q, p>> \in before
  BY <1>1, <1>2, <1>3
<1>5. ASSUME NEW p \in T, NEW q \in T, NEW r \in T, <<p, q>> \in before, <<q, r>> \in before
      PROVE  <<p, r>> \in before
  BY <1>1, <1>2, <1>3, <1>5
<1> QED BY <1>4, <1>5 DEF Orders

LEMMA StarsSorted ==
  ASSUME S!StarConstants, NEW votes, VoteMap(votes), NEW mv
  PROVE  Sorted(S!extract_candidates(votes, mv), S!Maxima(votes, mv), votes)
<1> DEFINE stars == S!Maxima(votes, mv)
           all == {stars[k] : k \in DOMAIN stars}
           n == Len(stars)
           before == {e \in all \X all : S!Brighter(votes, e[1], e[2])}
           rank == [p \in all |-> Cardinality(UpTo(before, all, p))]
           star(i) == CHOOSE p \in all : rank[p] = i
           out == [i \in 1 .. n |-> star(i)]
<1>1. StarList(stars, votes, mv)
  BY MaximaAreStars
<1>2. Inner \in SUBSET Sensor /\ Sensor \in SUBSET (Int \X Int)
  BY InnerInSensor
<1>3. S!extract_candidates(votes, mv) =
        [i \in DOMAIN stars |->
           CHOOSE p \in all : S!Cardinality({q \in all : q = p \/ S!Brighter(votes, q, p)}) = i]
  BY Zenon DEF S!extract_candidates
<1> HIDE DEF stars
<1>4. /\ stars \in Seq(Inner) /\ n \in Nat /\ DOMAIN stars = 1 .. n
      /\ \A j, k \in 1 .. n : stars[j] = stars[k] => j = k
  <2>1. stars \in Seq(Inner)
    BY <1>1 DEF StarList
  <2> QED BY <2>1, <1>1, LenProperties DEF StarList
<1>5. all \in SUBSET Inner /\ (\A k \in 1 .. n : stars[k] \in all)
      /\ \A p \in all : \E k \in 1 .. n : stars[k] = p
  <2>1. \A k \in 1 .. n : stars[k] \in Inner
    BY <1>4, ElementOfSeq
  <2> QED BY <2>1, <1>4
<1>6. IsFiniteSet(all) /\ Cardinality(all) = n
  <2>1. stars \in [1 .. n -> all]
    <3>1. stars \in [1 .. n -> Inner]
      BY <1>4, LenProperties
    <3> QED BY <3>1, <1>5
  <2> HIDE DEF all, n
  <2>2. stars \in Bijection(1 .. n, all)
    BY <2>1, <1>4, <1>5 DEF Bijection, Injection, Surjection, IsInjective
  <2>3. IsFiniteSet(1 .. n) /\ Cardinality(1 .. n) = n
    <3>1. 1 \in Int /\ n \in Int
      BY <1>4
    <3>2. IsFiniteSet(1 .. n) /\ Cardinality(1 .. n) = IF 1 > n THEN 0 ELSE n - 1 + 1
      BY <3>1, FS_Interval
    <3> QED BY <3>2, <1>4
  <2> DEFINE N == 1 .. n
  <2>4. stars \in Bijection(N, all) /\ IsFiniteSet(N) /\ Cardinality(N) = n
    BY <2>2, <2>3
  <2> HIDE DEF N
  <2>5. ExistsBijection(N, all)
    BY <2>4 DEF ExistsBijection
  <2> QED BY <2>4, <2>5, FS_Bijection
<1>7. Orders(before, all)
  <2>1. all \in SUBSET Sensor
    BY <1>2, <1>5
  <2> HIDE DEF all
  <2>2. \A b : b = {e \in all \X all : S!Brighter(votes, e[1], e[2])} => Orders(b, all)
    BY <1>2, <2>1, BrighterOrders
  <2> QED BY <2>2
<1> HIDE DEF all, n
<1>8. Places1(rank, before, all, n)
  <2>1. Ranked(rank, before, all)
    BY DEF Ranked
  <2> HIDE DEF before, rank
  <2> QED BY <1>6, <1>7, <2>1, RanksPlace
<1>9. ASSUME NEW p \in all
      PROVE  S!Cardinality({q \in all : q = p \/ S!Brighter(votes, q, p)}) = rank[p]
  <2>1. {q \in all : q = p \/ S!Brighter(votes, q, p)} = UpTo(before, all, p)
    BY DEF UpTo
  <2> QED BY <2>1, SameCountS
<1>10. ASSUME NEW i \in 1 .. n
       PROVE  out[i] = CHOOSE p \in all :
                         S!Cardinality({q \in all : q = p \/ S!Brighter(votes, q, p)}) = i
  <2> DEFINE r == rank
  <2>1. out[i] = CHOOSE p \in all : r[p] = i
    OBVIOUS
  <2>2. \A p \in all : S!Cardinality({q \in all : q = p \/ S!Brighter(votes, q, p)}) = r[p]
    BY <1>9
  <2> HIDE DEF r, out
  <2> QED BY <2>1, <2>2, Zenon
<1>11. S!extract_candidates(votes, mv) = out
  <2>1. out = [i \in 1 .. n |-> out[i]]
    <3> HIDE DEF star
    <3> QED OBVIOUS
  <2> HIDE DEF out
  <2> QED BY <2>1, <1>3, <1>4, <1>10, Zenon
<1>12. \A p, q \in all : <<p, q>> \in before => S!Brighter(votes, p, q)
  OBVIOUS
<1> HIDE DEF before, rank
<1>13. ASSUME NEW i \in 1 .. n PROVE out[i] \in all /\ rank[out[i]] = i
  BY <1>8 DEF Places1
<1>14. out \in Seq(Inner) /\ Len(out) = n
  <2>1. out \in [1 .. n -> Inner]
    BY <1>5, <1>13
  <2>2. \A s \in [1 .. n -> Inner] : s \in Seq(Inner) /\ Len(s) = n
    BY <1>4
  <2> HIDE DEF out
  <2> QED BY <2>1, <2>2
<1> HIDE DEF out
<1>15. \A i \in 1 .. n : \E k \in 1 .. n : out[i] = stars[k]
  <2>1. ASSUME NEW i \in 1 .. n PROVE \E k \in 1 .. n : out[i] = stars[k]
    <3>1. out[i] \in all
      BY <1>13
    <3>2. PICK k \in 1 .. n : stars[k] = out[i]
      BY <3>1, <1>5
    <3> QED BY <3>2
  <2> QED BY <2>1
<1>16. ASSUME NEW k \in 1 .. n PROVE \E i \in 1 .. n : out[i] = stars[k]
  <2>1. PICK p \in all : p = stars[k]
    BY <1>5
  <2>2. rank[p] \in 1 .. n
    BY <1>8 DEF Places1
  <2>3. out[rank[p]] \in all /\ rank[out[rank[p]]] = rank[p]
    BY <2>2, <1>13
  <2>4. out[rank[p]] = p
    BY <2>3, <1>8 DEF Places1
  <2> QED BY <2>1, <2>2, <2>4
<1>17. ASSUME NEW i \in 1 .. n, NEW j \in 1 .. n, i < j
       PROVE  out[i] # out[j] /\ S!Brighter(votes, out[i], out[j])
  <2>1. /\ out[i] \in all /\ rank[out[i]] = i
        /\ out[j] \in all /\ rank[out[j]] = j
    BY <1>13
  <2>2. <<out[i], out[j]>> \in before
    BY <2>1, <1>8, <1>17 DEF Places1
  <2>3. out[i] # out[j]
    BY <2>1, <1>17
  <2> QED BY <2>1, <2>2, <2>3, <1>12
<1>18. Sorted(out, stars, votes)
  BY <1>14, <1>15, <1>16, <1>17 DEF Sorted, n
<1> QED BY <1>11, <1>18 DEF stars

\* For every map: no two stars touch, there are at most MAX_STARS, the brightest first.
THEOREM StarsStayApart ==
  ASSUME S!StarConstants, NEW votes, VoteMap(votes), NEW mv
  PROVE  S!StarsApart(votes, mv)
<1> DEFINE out == S!extract_candidates(votes, mv)
           stars == S!Maxima(votes, mv)
<1>1. StarList(stars, votes, mv) /\ Sorted(out, stars, votes)
  BY MaximaAreStars, StarsSorted
<1>2. Inner \in SUBSET Sensor /\ Sensor \in SUBSET (Int \X Int)
      /\ \A p \in Inner : S!Around(p) \in SUBSET Sensor
  BY InnerInSensor
<1>3. \A p \in Sensor : votes[p] \in Int
  BY DEF VoteMap
<1> HIDE DEF out, stars
<1>4. out \in Seq(Inner) /\ DOMAIN out = 1 .. Len(out) /\ Len(out) <= MAX_STARS
  <2>1. out \in Seq(Inner) /\ Len(out) = Len(stars) /\ Len(stars) <= MAX_STARS
    BY <1>1 DEF StarList, Sorted
  <2> QED BY <2>1, LenProperties
<1>5. ASSUME NEW i \in 1 .. Len(out) PROVE out[i] \in Inner /\ IsStar(votes, out[i], mv)
  <2>1. PICK k \in 1 .. Len(stars) : out[i] = stars[k]
    BY <1>1 DEF Sorted
  <2>2. IsStar(votes, stars[k], mv)
    BY <1>1 DEF StarList
  <2> QED BY <2>1, <2>2, <1>4, ElementOfSeq
<1>6. ASSUME NEW p \in Inner, NEW q \in Inner, S!IsMax(votes, p), S!IsMax(votes, q)
      PROVE  q \notin S!Around(p)
  <2>1. SUFFICES ASSUME q \in S!Around(p) PROVE FALSE
    OBVIOUS
  <2>2. /\ p \in Int \X Int /\ q \in Int \X Int /\ votes[p] \in Int /\ votes[q] \in Int
    BY <1>2, <1>3
  <2>3. PICK x \in Int, y \in Int, u \in Int, v \in Int : p = <<x, y>> /\ q = <<u, v>>
    BY <2>2
  <2>4. u \in x - 1 .. x + 1 /\ v \in y - 1 .. y + 1 /\ (u # x \/ v # y)
    BY <2>1, <2>3 DEF S!Around
  <2>5. p \in S!Around(q)
    BY <2>3, <2>4 DEF S!Around
  <2>6. S!Beats(votes, p, q) \/ S!Beats(votes, q, p)
    BY <2>2, <2>3, <2>4 DEF S!Beats, S!Earlier
  <2> QED BY <2>1, <2>5, <2>6, <1>6 DEF S!IsMax
<1>7. ASSUME NEW i \in 1 .. Len(out), NEW j \in 1 .. Len(out), i < j
      PROVE  /\ out[j] \notin S!Around(out[i]) \cup {out[i]}
             /\ votes[out[i]] >= votes[out[j]]
  <2>1. out[i] # out[j] /\ S!Brighter(votes, out[i], out[j])
    BY <1>1, <1>7 DEF Sorted
  <2>2. out[j] \notin S!Around(out[i])
    BY <1>5, <1>6 DEF IsStar
  <2>3. votes[out[i]] \in Int /\ votes[out[j]] \in Int
    BY <1>2, <1>3, <1>5
  <2> QED BY <2>1, <2>2, <2>3 DEF S!Brighter
<1> QED BY <1>4, <1>7 DEF S!StarsApart, out

\* The pixels of a plateau are as bright as the one it is around.
LEMMA PlateauLevel ==
  ASSUME S!StarConstants, NEW votes, NEW p
  PROVE  p \in S!Plateau(votes, p, Inner) /\ \A q \in S!Plateau(votes, p, Inner) : votes[q] = votes[p]
<1>1. PICK n \in Nat : n = S!Area
  BY InnerVisited
<1> DEFINE P == {p} \cup {q \in UNION {S!Around(r) : r \in Inner} : votes[q] = votes[p]}
           V == {G \in SUBSET P : p \in G}
           term(v) == v \cup {q \in UNION {S!Around(r) : r \in v \cap Inner} : votes[q] = votes[p]}
           step == [x \in Nat \X V |-> term(x[2])]
           c == CHOOSE f : f = [i \in 0 .. S!Area |-> IF i = 0 THEN {p} ELSE term(f[i - 1])]
<1>2. S!Plateau(votes, p, Inner) = c[S!Area]
  BY Zenon DEF S!Plateau
<1>3. ASSUME NEW v \in V PROVE term(v) \in V
  OBVIOUS
<1>4. {p} \in V
  OBVIOUS
<1>5. \A G \in V : p \in G /\ \A q \in G : votes[q] = votes[p]
  OBVIOUS
<1> HIDE DEF term, V
<1>6. step \in [Nat \X V -> V]
  BY <1>3
<1>7. PICK g \in [0 .. n -> V] : Run(g, n, {p}, step)
  <2> HIDE DEF step
  <2> QED BY <1>4, <1>6, RunExists
<1>8. g = [i \in 0 .. S!Area |-> IF i = 0 THEN {p} ELSE term(g[i - 1])]
  <2>1. ASSUME NEW z \in 1 .. n PROVE g[z] = term(g[z - 1])
    <3>1. z - 1 \in Nat /\ z - 1 < n /\ (z - 1) + 1 = z /\ z - 1 \in 0 .. n /\ z \in Nat
      OBVIOUS
    <3>2. g[z] = step[<<z, g[z - 1]>>]
      BY <3>1, <1>7 DEF Run
    <3>3. g[z - 1] \in V
      BY <3>1, <1>7
    <3> QED BY <3>1, <3>2, <3>3
  <2> HIDE DEF step
  <2>2. g[0] = {p} /\ g = [z \in 0 .. n |-> g[z]]
    BY <1>7 DEF Run
  <2>3. ASSUME NEW z \in 0 .. n PROVE g[z] = IF z = 0 THEN {p} ELSE term(g[z - 1])
    <3>1. z # 0 => z \in 1 .. n
      OBVIOUS
    <3> QED BY <3>1, <2>1, <2>2
  <2> QED BY <1>1, <2>2, <2>3, Zenon
<1>9. c = [i \in 0 .. S!Area |-> IF i = 0 THEN {p} ELSE term(c[i - 1])]
  BY <1>8
<1> HIDE DEF c, step
<1>10. c[0] = {p} /\ \A z \in Nat : z < n => c[z + 1] = term(c[z])
  <2>1. 0 \in 0 .. n /\ \A z \in Nat : z < n => z + 1 \in 0 .. n /\ z + 1 # 0 /\ (z + 1) - 1 = z
    OBVIOUS
  <2>2. c[0] = {p}
    BY <1>1, <1>9, <2>1, Zenon
  <2>3. ASSUME NEW z \in Nat, z < n PROVE c[z + 1] = term(c[z])
    <3>1. c[z + 1] = term(c[(z + 1) - 1])
      BY <1>1, <1>9, <2>1, <2>3, Zenon
    <3> QED BY <3>1, <2>1, <2>3
  <2> QED BY <2>2, <2>3
<1>11. \A k \in 0 .. n : c[k] \in V
  <2>1. ASSUME NEW k \in Nat, k < n, c[k] \in V PROVE c[k + 1] \in V
    BY <2>1, <1>3, <1>10
  <2>2. c[0] \in V
    BY <1>4, <1>10
  <2> QED BY <2>1, <2>2, RunStays
<1>12. c[n] \in V
  BY <1>11
<1> QED BY <1>1, <1>2, <1>5, <1>12

\* The first pixel of a set in the order of the rows.
LEMMA FirstPixel ==
  ASSUME S!StarConstants, NEW T \in SUBSET Inner, NEW p \in T
  PROVE  \E r \in T : \A q \in T : ~S!Earlier(q, r)
<1>1. PICK w \in Nat \ {0} : w = STAR_WIDTH
  BY DEF S!StarConstants
<1>2. \A q \in Inner : q[1] \in 1 .. w - 2 /\ q[2] \in Nat
  BY <1>1 DEF S!StarConstants, Inner
<1> DEFINE at(q) == q[2] * w + q[1]
           N == {at(q) : q \in T}
<1>3. \A q \in T : at(q) \in Nat
  <2>1. ASSUME NEW q \in T PROVE at(q) \in Nat
    <3>1. PICK x \in Nat, y \in Nat : x = q[1] /\ y = q[2]
      BY <1>2
    <3>2. y * w \in Nat
      OBVIOUS
    <3> QED BY <3>1, <3>2
  <2> QED BY <2>1
<1>4. \A q \in T, r \in T : S!Earlier(q, r) => at(q) < at(r)
  <2>1. ASSUME NEW q \in T, NEW r \in T, S!Earlier(q, r) PROVE at(q) < at(r)
    <3>1. PICK x \in 1 .. w - 2, y \in Nat, u \in 1 .. w - 2, v \in Nat :
            x = q[1] /\ y = q[2] /\ u = r[1] /\ v = r[2]
      BY <1>2
    <3>2. y < v \/ (y = v /\ x < u)
      BY <3>1, <2>1 DEF S!Earlier
    <3>3. y < v => y * w + w <= v * w
      <4>1. y < v => (y + 1) * w <= v * w
        OBVIOUS
      <4>2. (y + 1) * w = y * w + w
        OBVIOUS
      <4> QED BY <4>1, <4>2
    <3>4. y * w \in Nat /\ v * w \in Nat
      OBVIOUS
    <3>5. y * w + x < v * w + u
      BY <3>2, <3>3, <3>4
    <3> QED BY <3>1, <3>5
  <2> QED BY <2>1
<1> HIDE DEF at
<1>5. N \in SUBSET Nat /\ at(p) \in N
  BY <1>3
<1>6. PICK m \in N : \A k \in N : ~(k < m)
  <2> HIDE DEF N
  <2>1. PICK m \in N : \A k \in N : <<k, m>> \notin OpToRel(<, Nat)
    BY <1>5, WFMin, NatLessThanWellFounded
  <2>2. \A k \in N : ~(k < m)
    BY <2>1, <1>5 DEF OpToRel
  <2> QED BY <2>2
<1>7. PICK r \in T : m = at(r)
  OBVIOUS
<1> QED BY <1>4, <1>6, <1>7

\* For every map: unless the list is full, every summit has a star.
THEOREM SummitsHaveStars ==
  ASSUME S!StarConstants, NEW votes, VoteMap(votes), NEW mv \in Int
  PROVE  S!SummitsFound(votes, mv)
<1> DEFINE out == S!extract_candidates(votes, mv)
           stars == S!Maxima(votes, mv)
<1>1. StarList(stars, votes, mv) /\ Sorted(out, stars, votes)
  BY MaximaAreStars, StarsSorted
<1>2. Inner \in SUBSET Sensor /\ \A p \in Inner : S!Around(p) \in SUBSET Sensor
  BY InnerInSensor
<1>3. \A p \in Sensor : votes[p] \in Int
  BY DEF VoteMap
<1>4. Inner = (1 .. STAR_WIDTH - 2) \X (1 .. STAR_HEIGHT - 2)
  BY DEF Inner
<1> HIDE DEF out, stars
<1>5. ASSUME Len(out) < MAX_STARS, NEW p \in Inner, votes[p] >= mv,
             S!Plateau(votes, p, Inner) \in SUBSET Inner,
             \A r \in S!Plateau(votes, p, Inner) :
               \A q \in S!Around(r) \ S!Plateau(votes, p, Inner) : votes[q] < votes[r]
      PROVE  \E k \in DOMAIN out : out[k] \in S!Plateau(votes, p, Inner)
  <2>1. PICK T : T = S!Plateau(votes, p, Inner)
    OBVIOUS
  <2>2. p \in T /\ T \in SUBSET Inner /\ \A q \in T : votes[q] = votes[p]
    BY <2>1, <1>5, PlateauLevel
  <2>3. PICK r \in T : \A q \in T : ~S!Earlier(q, r)
    BY <2>2, FirstPixel
  <2>4. ASSUME NEW q \in S!Around(r) PROVE ~S!Beats(votes, r, q)
    <3>1. votes[q] \in Int /\ votes[r] \in Int
      BY <1>2, <1>3, <2>2
    <3>2. CASE q \in T
      <4>1. votes[q] = votes[r] /\ ~S!Earlier(q, r)
        BY <3>2, <2>2, <2>3
      <4> QED BY <4>1, <3>1 DEF S!Beats
    <3>3. CASE q \notin T
      <4>1. votes[q] < votes[r]
        BY <3>3, <2>1, <1>5
      <4> QED BY <4>1, <3>1 DEF S!Beats
    <3> QED BY <3>2, <3>3
  <2>5. IsStar(votes, r, mv)
    BY <2>2, <2>4, <1>5 DEF IsStar, S!IsMax
  <2>6. Len(stars) < MAX_STARS
    BY <1>1, <1>5 DEF Sorted
  <2>7. PICK k \in 1 .. Len(stars) : stars[k] = r
    BY <2>2, <2>5, <2>6, <1>1 DEF StarList
  <2>8. PICK i \in 1 .. Len(out) : out[i] = stars[k]
    BY <1>1 DEF Sorted
  <2>9. DOMAIN out = 1 .. Len(out)
    BY <1>1, LenProperties DEF Sorted
  <2> QED BY <2>1, <2>7, <2>8, <2>9
<1> QED BY <1>4, <1>5 DEF S!SummitsFound, out

LEMMA RowsInPlaceHolds ==
  ASSUME S!StarConstants
  PROVE  S!RowsInPlace
<1>1. ASSUME NEW y \in 1 .. STAR_HEIGHT - 2
      PROVE  /\ S!RowsAt(y)[(y - 1) % 3] = y - 1 /\ S!RowsAt(y)[y % 3] = y
             /\ S!RowsAt(y)[(y + 1) % 3] = y + 1
  <2>1. y \in Nat /\ y >= 1
    BY DEF S!StarConstants
  <2> QED BY <2>1, RowsFollow
<1> QED BY <1>1 DEF S!RowsInPlace

LEMMA VoteMapsTyped ==
  ASSUME S!StarConstants, NEW i \in VoteMaps
  PROVE  VoteMap(i)
<1>1. PICK f \in [Inner -> 0 .. 1], border \in 0 .. 1, top \in {<<1, 1>>, <<2, 2>>, <<3, 2>>} :
        i = [p \in Sensor |->
               IF p \notin Inner THEN border ELSE IF p = top THEN f[p] + 1 ELSE f[p]]
  BY DEF VoteMaps
<1>2. ASSUME NEW p \in Sensor PROVE i[p] \in Int
  <2>1. p \in Inner => f[p] \in Int
    OBVIOUS
  <2> QED BY <2>1, <1>1
<1> QED BY <1>1, <1>2 DEF VoteMap

LEMMA InputsFound ==
  ASSUME S!StarConstants, InputInv
  PROVE  /\ Given("threshold") => S!ThresholdIsMedian(input[1])
         /\ Given("stars") => S!StarsApart(input[1], 1) /\ S!SummitsFound(input[1], 1)
<1>1. ASSUME Given("threshold") PROVE S!ThresholdIsMedian(input[1])
  <2>1. PICK i \in [0 .. CONTRASTS - 1 -> 0 .. 2] : input = <<i>>
    BY <1>1 DEF InputInv, Given, Inputs
  <2>2. i \in [0 .. CONTRASTS - 1 -> Nat]
    OBVIOUS
  <2>3. S!ThresholdIsMedian(i)
    BY <2>2, MedianThreshold
  <2>4. input[1] = i
    BY <2>1
  <2> QED BY <2>3, <2>4
<1>2. ASSUME Given("stars") PROVE S!StarsApart(input[1], 1) /\ S!SummitsFound(input[1], 1)
  <2>1. PICK i \in VoteMaps : input = <<i>>
    BY <1>2 DEF InputInv, Given, Inputs
  <2>2. VoteMap(i) /\ 1 \in Int
    BY VoteMapsTyped
  <2>3. S!StarsApart(i, 1) /\ S!SummitsFound(i, 1)
    BY <2>2, StarsStayApart, SummitsHaveStars
  <2>4. input[1] = i
    BY <2>1
  <2> QED BY <2>3, <2>4
<1> QED BY <1>1, <1>2

-----------------------------------------------------------------------------
(* The behaviours of MCLuma *)

lumaVars == <<focus, input, vars, dayNightVars, blobVars, voteVars>>

\* A step of the composition is a step of each part, or leaves it alone.
LEMMA PartsStep ==
  ASSUME [MCNext]_lumaVars
  PROVE  /\ [Next]_vars /\ [D!Next]_dayNightVars /\ [DB!VoteNext]_voteVars
         /\ [B!BlobNext]_blobVars
BY DEF MCNext, Choose, lumaVars

\* The inductive invariants hold of every behaviour: no index of a ring leaves it, no
\* counter its range.
THEOREM DetectionSound == MCSpec => []DetectionInv
<1>1. MCInit => DetectionInv
  BY InitDetection DEF MCInit
<1>2. DetectionInv /\ [MCNext]_lumaVars => DetectionInv'
  BY DetectionStep, PartsStep
<1> QED
  BY <1>1, <1>2, PTL DEF MCSpec, lumaVars

\* A stack is open as long as an announced meteor is followed, and ends in time after it,
\* for every STACK_TIMEOUT above TRACK_MAX_MISSED (detection.rs:655).
THEOREM StackFollowsMeteor == MCSpec => []StackFollows
<1>1. DetectionInv => StackFollows
  BY DEF DetectionInv, StackFollows
<1> QED
  BY <1>1, DetectionSound, PTL

\* The open stack shows every followed meteor since the pre-buffer, for every length of
\* the ring (detection.rs:611-640).
THEOREM TrailStacked == MCSpec => []TrailInStack
<1>1. DetectionInv => TrailInStack
  BY DEF DetectionInv
<1> QED
  BY <1>1, DetectionSound, PTL

\* A meteor is announced once, for any number of tracks and frames.
THEOREM OneAnnouncement == MCSpec => []AnnouncedOnce
<1>1. DetectionInv => AnnouncedOnce
  BY DEF DetectionInv
<1> QED
  BY <1>1, DetectionSound, PTL

\* A saved stack is overwritten only where the clock was set back or more than
\* STACK_TIMEOUT + 1 frames fit into its second, for any number of seconds.
THEOREM SavedStackKept == MCSpec => SavedKept
<1> DEFINE I == DetectionInv /\ SavedInv
           A == \A s \in Seconds :
                  saved[s].state = "whole" /\ saved'[s] # saved[s] =>
                    wentBack \/ stamped'[s] > STACK_TIMEOUT + 1
<1>1. MCInit => I
  BY InitDetection, InitSaved DEF MCInit
<1>2. I /\ [MCNext]_lumaVars => I' /\ A
  BY DetectionStep, SavedStep, PartsStep
<1>3. SavedKept <=> [][A]_vars
  BY DEF SavedKept
<1>4. A => [A]_vars
  OBVIOUS
<1> HIDE DEF I, A
<1> QED
  BY <1>1, <1>2, <1>3, <1>4, PTL DEF MCSpec, lumaVars

\* The mode fits what was measured, whatever the light does and the switch: the dwell
\* time never holds a switch back, and two windows of samples on one side make the mode
\* follow, for every window, band and interval that DayNightConstants allows
\* (daynight.rs:57-119).
THEOREM DayNightSound == MCSpec => []DayNightInv
<1>1. MCInit => DayNightIInv
  BY InitDayNight, LumaConstants DEF MCInit
<1>2. DayNightIInv /\ [MCNext]_lumaVars => DayNightIInv'
  BY DayNightStep, PartsStep, LumaConstants
<1>3. DayNightIInv => DayNightInv
  BY DayNightImplied, LumaConstants DEF DayNightInv
<1> QED
  BY <1>1, <1>2, <1>3, PTL DEF MCSpec, lumaVars

\* A camera that has switched waits for enough samples of the other side before it
\* switches back.
THEOREM SwitchHolds == MCSpec => NoFlapping
<1> DEFINE A == mode # "Unknown" /\ mode' # mode =>
                  (fresh + 1) * 100 > SampleCount *
                    (IF mode = "Night" THEN THRESHOLD_HIGH ELSE 100 - THRESHOLD_LOW)
<1>1. MCInit => DayNightIInv
  BY InitDayNight, LumaConstants DEF MCInit
<1>2. DayNightIInv /\ [MCNext]_lumaVars => DayNightIInv' /\ A
  BY DayNightStep, NoFlappingStep, PartsStep, LumaConstants
<1>3. NoFlapping <=> [][A]_(D!vars)
  BY DEF NoFlapping, D!NoFlapping
<1> HIDE DEF A
<1> QED
  BY <1>1, <1>2, <1>3, PTL DEF MCSpec, lumaVars

\* The vote ends with the candidate that was asked for: an early end leaves it in front
\* with early_stop_n votes and every other with fewer, for every list of candidates and
\* every order of patterns; and no vote is lost or counted twice (lib.rs:640-680).
THEOREM VoteSound == MCSpec => []DB!VoteInv
<1>1. MCInit => VoteIInv
  BY InitVote, SolverConstants DEF MCInit
<1>2. VoteIInv /\ [MCNext]_lumaVars => VoteIInv'
  BY VoteStep, PartsStep, SolverConstants
<1>3. VoteIInv => DB!VoteInv
  BY VoteImplied, SolverConstants
<1> QED
  BY <1>1, <1>2, <1>3, PTL DEF MCSpec, lumaVars

\* From the catalogue to the plate: for every list of keys with their patterns each key
\* is found with its patterns and every other with none, the packed numbers come back,
\* the network sorts, and the vote is sound (gen.rs:282-372, lib.rs:142-184, 418-440,
\* 561-680).
THEOREM TableSound == MCSpec => []TableExact
<1> DEFINE SolvedInv == VoteIInv /\ InputInv
<1>1. MCInit => SolvedInv
  BY InitVote, SolverConstants DEF MCInit, InputInv
<1>2. SolvedInv /\ [MCNext]_lumaVars => SolvedInv'
  <2>1. VoteIInv /\ [MCNext]_lumaVars => VoteIInv'
    BY VoteStep, PartsStep, SolverConstants
  <2>2. InputInv /\ [MCNext]_lumaVars => InputInv'
    BY InputStep DEF lumaVars
  <2> QED BY <2>1, <2>2
<1>3. SolvedInv => TableExact
  <2>1. VoteIInv => DB!VoteInv
    BY VoteImplied, SolverConstants
  <2>2. InputInv =>
          /\ Given("table") => DB!LookupExact(input[1][1], input[1][2])
          /\ Given("fields") => DB!FieldsSurvive(input[1])
          /\ Given("sort") => DB!NetworkSorts(input[1])
    BY InputsExact, SolverConstants
  <2> QED BY <2>1, <2>2 DEF TableExact
<1> HIDE DEF SolvedInv
<1> QED
  BY <1>1, <1>2, <1>3, PTL DEF MCSpec, lumaVars

\* The flood fill, for every image and every size: after any of its steps nothing is
\* counted twice, and in the end its blobs are the connected parts with their boxes
\* and pixels (detection.rs:78-137).
THEOREM FloodFillSound == MCSpec => []B!FloodFill
<1>1. MCInit => FloodInv
  BY InitFlood, BlobsConstants
<1>2. FloodInv /\ [MCNext]_lumaVars => FloodInv'
  BY FloodStep, PartsStep, BlobsConstants
<1>3. FloodInv => B!FloodFill
  BY FillImplied, BlobsConstants DEF FloodInv
<1> QED
  BY <1>1, <1>2, <1>3, PTL DEF MCSpec, lumaVars

\* From pixels to tracks: with the flood fill, merging gives the components of near
\* boxes, and the greedy association is one to one and stable (detection.rs:71-199,
\* 398-428).
THEOREM BlobsSound == MCSpec => []BlobsToTracks
<1> DEFINE A == /\ Given("merge") => B!MergesComponents(input[1])
                /\ Given("associate") => B!StableMatching(input[1])
<1>1. MCInit => InputInv
  BY DEF MCInit, InputInv
<1>2. InputInv /\ [MCNext]_lumaVars => InputInv'
  BY InputStep DEF lumaVars
<1>3. InputInv => A
  BY InputsTracked, BlobsConstants
<1>4. B!FloodFill /\ A => BlobsToTracks
  BY DEF BlobsToTracks
<1> HIDE DEF A
<1> QED
  BY <1>1, <1>2, <1>3, <1>4, FloodFillSound, PTL DEF MCSpec, lumaVars

\* From luma rows to stars: the kernel sees successive rows, the threshold is the
\* median's, stars stay apart and every summit has one (solve.rs:302-356, extractor.rs).
THEOREM StarsSound == MCSpec => []StarsFound
<1>1. MCInit => InputInv
  BY DEF MCInit, InputInv
<1>2. InputInv /\ [MCNext]_lumaVars => InputInv'
  BY InputStep DEF lumaVars
<1>3. InputInv => StarsFound
  BY InputsFound, RowsInPlaceHolds, StarsConstants DEF StarsFound
<1> QED
  BY <1>1, <1>2, <1>3, PTL DEF MCSpec, lumaVars
=============================================================================
