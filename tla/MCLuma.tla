------------------------------- MODULE MCLuma -------------------------------
(***************************************************************************)
(* What is made of luma frames: detection_task with its flood fill, the    *)
(* day/night decision, and the algorithms from pixels to the plate         *)
(* solver's vote.  They share no state that their properties are about, so *)
(* one behaviour moves one of them only; `focus` says which, and the       *)
(* others stay in one of their initial states.  The algorithms that are    *)
(* functions of their input get it in the first step of a behaviour.       *)
(***************************************************************************)
EXTENDS Detection, Sequences

CONSTANTS SampleCount, THRESHOLD_LOW, THRESHOLD_HIGH, INTERVAL, MinTransition, Levels,
          BLOB_WIDTH, BLOB_HEIGHT, BLOB_MERGE_GAP,
          STAR_WIDTH, STAR_HEIGHT, MAX_STARS, CONTRASTS, THRESHOLD_K, THRESHOLD_MIN, THRESHOLD_MAX,
          KEYS, PER_BUCKET, START_SPAN, LENGTH_SPAN, FIXED, max_count, early_stop_n

VARIABLES
  focus, input,
  auto_daynight, mode, brightness_ring, history_idx, elapsed, fresh, dark, bright,
  image, visited, fill_stack, next, current, blobs,
  candidates, count, outcome

dayNightVars ==
  <<auto_daynight, mode, brightness_ring, history_idx, elapsed, fresh, dark, bright>>
blobVars == <<image, visited, fill_stack, next, current, blobs>>
voteVars == <<candidates, count, outcome>>

D == INSTANCE DayNight WITH history <- brightness_ring

ASSUME LumaConstants == D!DayNightConstants

B == INSTANCE Blobs WITH stack <- fill_stack, WIDTH <- BLOB_WIDTH, HEIGHT <- BLOB_HEIGHT

ASSUME BlobsConstants == B!BlobConstants

S == INSTANCE Stars WITH WIDTH <- STAR_WIDTH, HEIGHT <- STAR_HEIGHT

ASSUME StarsConstants == S!StarConstants

DB == INSTANCE PatternDatabase

ASSUME SolverConstants == DB!VoteConstants /\ DB!TableConstants

-----------------------------------------------------------------------------
(* The inputs of the algorithms *)

Injective(s) == \A i, j \in DOMAIN s : s[i] = s[j] => i = j

Box(x, y, h) == [x |-> x, y |-> y, x1 |-> x + 1, y1 |-> y + h, pix_cnt |-> 1]

\* Near and far ones along a line, one above the gap and one across it.
Boxes == {Box(x, 0, 1) : x \in {0, 2, 4, 7}} \cup {Box(2, 4, 1), Box(2, 1, 3)}

Sensor == (0 .. STAR_WIDTH - 1) \X (0 .. STAR_HEIGHT - 1)
Inner  == (1 .. STAR_WIDTH - 2) \X (1 .. STAR_HEIGHT - 2)

\* Two levels, one pixel in three places may stick out, over a dark or a lit border.
VoteMaps ==
  {[p \in Sensor |->
      IF p \notin Inner THEN border ELSE IF p = top THEN f[p] + 1 ELSE f[p]] :
     f \in [Inner -> 0 .. 1], border \in 0 .. 1, top \in {<<1, 1>>, <<2, 2>>, <<3, 2>>}}

\* Distances 0 and 1, or out of reach, of three tracks and two blobs.
Distances == UNION {[near -> 0 .. 1] : near \in SUBSET ((1 .. 3) \X (1 .. 2))}

KeyOrders == {s \in UNION {[1 .. n -> 0 .. KEYS - 1] : n \in 0 .. 5} : Injective(s)}

\* One or two patterns for a key of the table.
Patterns(keys, n) ==
  [k \in {keys[i] : i \in DOMAIN keys} |-> SubSeq(<<<<k, 1>>, <<k, 2>>>>, 1, n[k])]

Tables ==
  {<<keys, Patterns(keys, n)>> : keys \in KeyOrders, n \in [0 .. KEYS - 1 -> 1 .. 2]}

\* What an algorithm may be given.
Inputs(algorithm) ==
  CASE algorithm = "merge"     -> UNION {[1 .. n -> Boxes] : n \in 0 .. 4}
    [] algorithm = "associate" -> Distances
    [] algorithm = "stars"     -> VoteMaps
    [] algorithm = "threshold" -> [0 .. CONTRASTS - 1 -> 0 .. 2]
    [] algorithm = "table"     -> Tables
    [] algorithm = "fields"    -> [1 .. 6 -> 1 - FIXED .. FIXED - 1]
    [] algorithm = "sort"      -> [0 .. 5 -> 1 .. 3]

Algorithms == {"merge", "associate", "stars", "threshold", "table", "fields", "sort"}

Choose ==
  /\ focus \in Algorithms /\ input = << >>
  /\ \E i \in Inputs(focus) : input' = <<i>>

-----------------------------------------------------------------------------

MCInit ==
  /\ Init /\ D!Init /\ B!BlobInit /\ DB!VoteInit /\ input = << >>
  /\ \/ focus = "detection" /\ auto_daynight /\ elapsed = 0 /\ image = {}
     \/ focus = "day_night" /\ enabled /\ image = {}
     \/ focus = "blobs" /\ enabled /\ auto_daynight /\ elapsed = 0
     \/ /\ focus \in {"vote"} \cup Algorithms
        /\ enabled /\ auto_daynight /\ elapsed = 0 /\ image = {}

MCNext ==
  /\ UNCHANGED focus
  /\ \/ /\ focus = "detection" /\ Next
        /\ UNCHANGED <<dayNightVars, blobVars, voteVars, input>>
     \/ /\ focus = "day_night" /\ D!Next
        /\ UNCHANGED <<vars, blobVars, voteVars, input>>
     \/ /\ focus = "blobs" /\ B!BlobNext
        /\ UNCHANGED <<vars, dayNightVars, voteVars, input>>
     \/ /\ focus = "vote" /\ DB!VoteNext
        /\ UNCHANGED <<vars, dayNightVars, blobVars, input>>
     \/ Choose /\ UNCHANGED <<vars, dayNightVars, blobVars, voteVars>>

MCSpec ==
  MCInit /\ [][MCNext]_<<focus, input, vars, dayNightVars, blobVars, voteVars>>

-----------------------------------------------------------------------------

Given(name) == focus = name /\ input # << >>

\* The day/night decision, as in its module.
DayNightInv == D!DayNightInv
NoFlapping  == D!NoFlapping

\* From pixels to tracks: after every step of the flood fill nothing is counted twice,
\* its blobs are the connected parts of the image, and merging and association do
\* what their definitions say, in whatever order the blobs come
\* (detection.rs:71-199, 398-428).
BlobsToTracks ==
  /\ B!FloodFill
  /\ Given("merge") => B!MergesComponents(input[1])
  /\ Given("associate") => B!StableMatching(input[1])

\* From luma rows to stars: the row ring, the threshold and the candidates
\* (solve.rs:302-356, extractor.rs).
StarsFound ==
  /\ focus = "stars" => S!RowsInPlace
  /\ Given("threshold") => S!ThresholdIsMedian(input[1])
  /\ Given("stars") => S!StarsApart(input[1], 1) /\ S!SummitsFound(input[1], 1)

\* From the catalogue to the plate: keys, patterns and packed numbers come back from
\* the table, the edges of a quad are sorted, and the vote ends with the candidate
\* that has the most votes (gen.rs, lib.rs).
TableExact ==
  /\ DB!VoteInv
  /\ Given("table") => DB!LookupExact(input[1][1], input[1][2])
  /\ Given("fields") => DB!FieldsSurvive(input[1])
  /\ Given("sort") => DB!NetworkSorts(input[1])
=============================================================================
