-------------------------------- MODULE Stars --------------------------------
(***************************************************************************)
(* From luma frames to star candidates, as functions of their input: the   *)
(* ring of three rows a frame passes through (solve.rs), the threshold     *)
(* from the contrast histogram, and the candidates of the vote map         *)
(* (extractor.rs).  The SIMD kernel that votes is not modelled.            *)
(***************************************************************************)
EXTENDS Integers, SequencesExt

CONSTANTS
  WIDTH, HEIGHT, MAX_STARS,
  CONTRASTS,                 \* 256 in the code
  THRESHOLD_K, THRESHOLD_MIN, THRESHOLD_MAX

StarConstants ==
  /\ {WIDTH, HEIGHT} \subseteq Nat \ (0 .. 2) /\ {MAX_STARS, CONTRASTS} \subseteq Nat \ {0}
  /\ {THRESHOLD_K, THRESHOLD_MIN, THRESHOLD_MAX} \subseteq Nat /\ THRESHOLD_MIN <= THRESHOLD_MAX

Area == (WIDTH - 2) * (HEIGHT - 2)

\* The pixel the two loops of extract_candidates visit in place i, counted from 1;
\* the border is left out.
Inner(i) == <<((i - 1) % (WIDTH - 2)) + 1, ((i - 1) \div (WIDTH - 2)) + 1>>

Around(p) == {q \in (p[1] - 1 .. p[1] + 1) \X (p[2] - 1 .. p[2] + 1) : q # p}

Earlier(p, q) == p[2] < q[2] \/ (p[2] = q[2] /\ p[1] < q[1])

\* Mutated form: of equal neighbours neither is.
NotLower(votes, p, q) == votes[q] >= votes[p]

\* The neighbour q takes the maximum from p: it is higher, or equal and before it.
Beats(votes, p, q) == votes[q] > votes[p] \/ (votes[q] = votes[p] /\ Earlier(q, p))

IsMax(votes, p) == \A q \in Around(p) : ~Beats(votes, p, q)

\* A maximum joins the stars; the loops end when they are full.
Pushed(stars, votes, p, min_votes) ==
  IF Len(stars) < MAX_STARS /\ votes[p] >= min_votes /\ IsMax(votes, p)
  THEN Append(stars, p) ELSE stars

Maxima(votes, min_votes) ==
  LET stars[i \in 0 .. Area] ==
        IF i = 0 THEN << >> ELSE Pushed(stars[i - 1], votes, Inner(i), min_votes)
  IN  stars[Area]

\* The sort is not stable: any order of equals will do.
Brighter(votes, p, q) == votes[p] > votes[q] \/ (votes[p] = votes[q] /\ Earlier(p, q))

\* The i-th star has i up to itself.
extract_candidates(votes, min_votes) ==
  LET stars    == Maxima(votes, min_votes)
      all      == {stars[k] : k \in DOMAIN stars}
      place(p) == Cardinality({q \in all : q = p \/ Brighter(votes, q, p)})
  IN  [i \in DOMAIN stars |-> CHOOSE p \in all : place(p) = i]

Half(n) == n \div 2

Clamp(n) == Max({THRESHOLD_MIN, Min({n, THRESHOLD_MAX})})

\* hist gives the number of samples of each contrast, cumsum[v] those below v.
compute_threshold(hist) ==
  LET cumsum[v \in 0 .. CONTRASTS] == IF v = 0 THEN 0 ELSE cumsum[v - 1] + hist[v - 1]
      half == Half(cumsum[CONTRASTS])
  IN  Clamp(THRESHOLD_K * CHOOSE v \in 0 .. CONTRASTS - 1 :
                            cumsum[v + 1] >= half /\ \A u \in 1 .. v : cumsum[u] < half)

RowSlot(y) == (y + 1) % 3

\* What the ring holds when the kernel processes row y; the slots are numbered, a
\* row of the frame stands for its pixels.
RowsAt(y) ==
  LET rows[z \in 0 .. y] ==
        IF z = 0 THEN [s \in 0 .. 2 |-> IF s < 2 THEN s ELSE -1]
        ELSE [rows[z - 1] EXCEPT ![RowSlot(z)] = z + 1]
  IN  rows[y]

-----------------------------------------------------------------------------

\* No two candidates touch, there are at most MAX_STARS, and the brightest come first.
StarsApart(votes, min_votes) ==
  LET stars == extract_candidates(votes, min_votes)
  IN  /\ Len(stars) <= MAX_STARS
      /\ \A i, j \in DOMAIN stars : i < j =>
           /\ stars[j] \notin Around(stars[i]) \cup {stars[i]}
           /\ votes[stars[i]] >= votes[stars[j]]

\* The equal pixels connected with p inside the border, and next to it.
Plateau(votes, p, inner) ==
  LET grown[n \in 0 .. Area] ==
        IF n = 0 THEN {p}
        ELSE LET S == grown[n - 1]
             IN  S \cup {q \in UNION {Around(r) : r \in S \cap inner} : votes[q] = votes[p]}
  IN  grown[Area]

\* Unless the list is full, every summit has a candidate: every set of connected
\* equal pixels inside the border whose other neighbours are all lower.
SummitsFound(votes, min_votes) ==
  LET stars == extract_candidates(votes, min_votes)
      inner == (1 .. WIDTH - 2) \X (1 .. HEIGHT - 2)
  IN  Len(stars) < MAX_STARS =>
        \A p \in {r \in inner : votes[r] >= min_votes /\ \A q \in Around(r) : votes[q] <= votes[r]} :
          LET S == Plateau(votes, p, inner)
          IN  S \subseteq inner /\ (\A r \in S : \A q \in Around(r) \ S : votes[q] < votes[r])
                => \E k \in DOMAIN stars : stars[k] \in S

\* The threshold is taken from the sample in the middle of the sorted contrasts,
\* the one before the middle when their number is odd, and zero of a single sample.
ThresholdIsMedian(hist) ==
  LET samples[v \in 0 .. CONTRASTS] ==
        IF v = 0 THEN << >> ELSE samples[v - 1] \o [k \in 1 .. hist[v - 1] |-> v - 1]
      half == Len(samples[CONTRASTS]) \div 2
  IN  compute_threshold(hist)
        = Clamp(THRESHOLD_K * (IF half = 0 THEN 0 ELSE samples[CONTRASTS][half]))

\* The kernel always sees three successive rows of the frame.
RowsInPlace ==
  \A y \in 1 .. HEIGHT - 2 :
    /\ RowsAt(y)[(y - 1) % 3] = y - 1
    /\ RowsAt(y)[y % 3] = y
    /\ RowsAt(y)[(y + 1) % 3] = y + 1
=============================================================================
