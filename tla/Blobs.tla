-------------------------------- MODULE Blobs --------------------------------
(***************************************************************************)
(* From a thresholded image to tracks (detection.rs): the flood fill of    *)
(* find_bounding_rectangles, a step of its two loops at a time; then, as   *)
(* functions of their input, merge_blobs and the greedy association of     *)
(* blobs with tracks.                                                      *)
(***************************************************************************)
EXTENDS Integers, SequencesExt

CONSTANTS WIDTH, HEIGHT, BLOB_MERGE_GAP

BlobConstants == {WIDTH, HEIGHT} \subseteq Nat \ {0} /\ BLOB_MERGE_GAP \in Nat

VARIABLES
  image,    \* the lit pixels (0xff)
  visited, stack,
  next,     \* index of the pixel the scan is at
  current,  \* the blob being filled
  blobs

blobVars == <<image, visited, stack, next, current, blobs>>

Pixels   == (0 .. WIDTH - 1) \X (0 .. HEIGHT - 1)
Pixel(i) == <<i % WIDTH, i \div WIDTH>>
NoBlob   == [x |-> 0, y |-> 0, x1 |-> 0, y1 |-> 0, pix_cnt |-> 0]

\* x1 and y1 are the first column and row behind the box.
Cover(a, b) ==
  [x  |-> Min({a.x, b.x}),   y  |-> Min({a.y, b.y}),
   x1 |-> Max({a.x1, b.x1}), y1 |-> Max({a.y1, b.y1}), pix_cnt |-> a.pix_cnt + b.pix_cnt]

Dot(p) == [x |-> p[1], y |-> p[2], x1 |-> p[1] + 1, y1 |-> p[2] + 1, pix_cnt |-> 1]

-----------------------------------------------------------------------------

BlobInit ==
  /\ image \in SUBSET Pixels
  /\ visited = {} /\ stack = << >> /\ next = 0 /\ current = NoBlob /\ blobs = << >>

Start ==
  LET p == Pixel(next)
  IN  /\ stack = << >> /\ current = NoBlob /\ next < WIDTH * HEIGHT
      /\ IF p \in image \ visited
         THEN visited' = visited \cup {p} /\ stack' = <<p>> /\ UNCHANGED next
         ELSE next' = next + 1 /\ UNCHANGED <<visited, stack>>
      /\ UNCHANGED <<image, current, blobs>>

Offsets ==
  <<<<-1, -1>>, <<0, -1>>, <<1, -1>>, <<-1, 0>>, <<1, 0>>, <<-1, 1>>, <<0, 1>>, <<1, 1>>>>

Neighbour(p, k) == <<p[1] + Offsets[k][1], p[2] + Offsets[k][2]>>

\* A lit neighbour that has no mark gets one and goes on the stack.
Spread(at, q) ==
  IF q \in image \ at.visited
  THEN [visited |-> at.visited \cup {q}, stack |-> Append(at.stack, q)] ELSE at

\* What the loops over the neighbours of p make of the marks and the stack.
Spreads(p, base) ==
  LET after[k \in 0 .. 8] == IF k = 0 THEN base ELSE Spread(after[k - 1], Neighbour(p, k))
  IN  after[8]

Pop ==
  LET p   == stack[Len(stack)]
      end == Spreads(p, [visited |-> visited, stack |-> SubSeq(stack, 1, Len(stack) - 1)])
  IN  /\ stack # << >>
      /\ current' = IF current = NoBlob THEN Dot(p) ELSE Cover(current, Dot(p))
      /\ visited' = end.visited /\ stack' = end.stack
      /\ UNCHANGED <<image, next, blobs>>

Finish ==
  /\ stack = << >> /\ current # NoBlob
  /\ blobs' = Append(blobs, current) /\ current' = NoBlob /\ next' = next + 1
  /\ UNCHANGED <<image, visited, stack>>

BlobNext == Start \/ Pop \/ Finish

-----------------------------------------------------------------------------
(* merge_blobs and associate *)

Near(a, b) ==
  /\ a.x - BLOB_MERGE_GAP < b.x1 + BLOB_MERGE_GAP
  /\ b.x - BLOB_MERGE_GAP < a.x1 + BLOB_MERGE_GAP
  /\ a.y - BLOB_MERGE_GAP < b.y1 + BLOB_MERGE_GAP
  /\ b.y - BLOB_MERGE_GAP < a.y1 + BLOB_MERGE_GAP

\* find; halving the path changes no root.
Find(parent, i) ==
  LET root[k \in DOMAIN parent] == IF parent[k] = k THEN k ELSE root[parent[k]]
  IN  root[i]

\* Mutated form: the blob itself is moved and not its root.
UnionLeaf(parent, a, b) == [parent EXCEPT ![b] = Find(parent, a)]

Union(parent, a, b) == [parent EXCEPT ![Find(parent, b)] = Find(parent, a)]

\* Round k of the two nested loops over n blobs.
Round(k, n) == <<(k - 1) \div n + 1, ((k - 1) % n) + 1>>

Joined(parent, bs, p) ==
  IF p[1] < p[2] /\ Near(bs[p[1]], bs[p[2]]) THEN Union(parent, p[1], p[2]) ELSE parent

Parents(bs) ==
  LET n == Len(bs)
      parent[k \in 0 .. n * n] ==
        IF k = 0 THEN [i \in 1 .. n |-> i] ELSE Joined(parent[k - 1], bs, Round(k, n))
  IN  parent[n * n]

\* The blob joins the one of its root, or is the first of its root.
Gathered(acc, root, blob) ==
  IF \E k \in DOMAIN acc : acc[k].root = root
  THEN [k \in DOMAIN acc |->
          IF acc[k].root = root
          THEN [root |-> root, blob |-> Cover(acc[k].blob, blob)] ELSE acc[k]]
  ELSE Append(acc, [root |-> root, blob |-> blob])

merge_blobs(bs) ==
  LET parent == Parents(bs)
      merged[i \in 0 .. Len(bs)] ==
        IF i = 0 THEN << >> ELSE Gathered(merged[i - 1], Find(parent, i), bs[i])
  IN  [k \in DOMAIN merged[Len(bs)] |-> merged[Len(bs)][k].blob]

\* Mutated form: the candidates are taken in the order of the tracks.
ByTrack(dist, p, q) == p[1] < q[1] \/ (p[1] = q[1] /\ p[2] < q[2])

\* The sort is stable and the candidates were pushed track by track.
Closer(dist, p, q) ==
  dist[p] < dist[q] \/ (dist[p] = dist[q] /\ ByTrack(dist, p, q))

\* The pair takes its track and its blob if neither is taken.
Taken(matched, p) ==
  IF \A q \in matched : q[1] # p[1] /\ q[2] # p[2] THEN matched \cup {p} ELSE matched

\* dist gives the distance of a track and a blob, for the pairs within reach; the
\* i-th candidate has i up to itself.
associate(dist) ==
  LET n       == Cardinality(DOMAIN dist)
      rank(p) == Cardinality({q \in DOMAIN dist : q = p \/ Closer(dist, q, p)})
      matched[i \in 0 .. n] ==
        IF i = 0 THEN {} ELSE Taken(matched[i - 1], CHOOSE p \in DOMAIN dist : rank(p) = i)
  IN  matched[n]

-----------------------------------------------------------------------------
(* Properties *)

\* S with its neighbours in a graph.
Grown(S, edges) == S \cup {e[1] : e \in {f \in edges : f[2] \in S}}

\* What is reached from p in the graph over `nodes`.
Component(p, nodes, edges) ==
  LET reached[n \in 0 .. Cardinality(nodes)] ==
        IF n = 0 THEN {p} ELSE Grown(reached[n - 1], edges)
  IN  reached[Cardinality(nodes)]

\* The numbers of S up to n, in their order.
Listed(S, n) ==
  LET list[k \in 0 .. n] ==
        IF k = 0 THEN << >> ELSE IF k \in S THEN Append(list[k - 1], k) ELSE list[k - 1]
  IN  list[n]

Touching(p, q) == p[1] - q[1] \in -1 .. 1 /\ p[2] - q[2] \in -1 .. 1

Touches == {e \in image \X image : Touching(e[1], e[2])}

BoxOf(ps) ==
  [x  |-> Min({p[1] : p \in ps}),     y  |-> Min({p[2] : p \in ps}),
   x1 |-> Max({p[1] : p \in ps}) + 1, y1 |-> Max({p[2] : p \in ps}) + 1,
   pix_cnt |-> Cardinality(ps)]

\* While the fill runs, no pixel is on the stack twice and each one on it is lit
\* and marked: so every lit pixel is counted once.
StackedOnce ==
  /\ \A i, j \in DOMAIN stack : stack[i] = stack[j] => i = j
  /\ \A i \in DOMAIN stack : stack[i] \in image \cap visited

\* In the end there is one blob for every 8-connected component, with its bounding
\* box and its number of pixels, in the order in which the scan meets them.
BlobsAreComponents ==
  next = WIDTH * HEIGHT =>
    LET edges == Touches
        comp  == [p \in image |-> Component(p, image, edges)]
        firsts == Listed({i \in 1 .. next :
                            /\ Pixel(i - 1) \in image
                            /\ \A q \in comp[Pixel(i - 1)] : i - 1 <= q[2] * WIDTH + q[1]}, next)
    IN  blobs = [k \in DOMAIN firsts |-> BoxOf(comp[Pixel(firsts[k] - 1)])]

\* The flood fill at work and its result (detection.rs:78-137).
FloodFill == StackedOnce /\ BlobsAreComponents

\* The box around the blobs of c, with all their pixels.
Around(bs, c) ==
  LET sum[k \in 0 .. Len(bs)] ==
        IF k = 0 THEN 0 ELSE sum[k - 1] + (IF k \in c THEN bs[k].pix_cnt ELSE 0)
  IN  [x  |-> Min({bs[i].x : i \in c}),  y  |-> Min({bs[i].y : i \in c}),
       x1 |-> Max({bs[i].x1 : i \in c}), y1 |-> Max({bs[i].y1 : i \in c}),
       pix_cnt |-> sum[Len(bs)]]

\* merge_blobs gives one box for every component of the graph of near blobs, around
\* all of the component, however the unions are ordered.
MergesComponents(bs) ==
  LET nodes  == 1 .. Len(bs)
      edges  == {e \in nodes \X nodes : Near(bs[e[1]], bs[e[2]])}
      comp   == [i \in nodes |-> Component(i, nodes, edges)]
      firsts == Listed({i \in nodes : \A j \in comp[i] : i <= j}, Len(bs))
  IN  merge_blobs(bs) = [k \in DOMAIN firsts |-> Around(bs, comp[firsts[k]])]

\* The greedy association is one to one, and stable: no track and blob within reach
\* of each other are left when both have no partner that is at least as close.
StableMatching(dist) ==
  LET matched == associate(dist)
  IN  /\ \A p, q \in matched : p[1] = q[1] \/ p[2] = q[2] => p = q
      /\ \A p \in DOMAIN dist : \E q \in matched :
           (q[1] = p[1] \/ q[2] = p[2]) /\ dist[q] <= dist[p]
=============================================================================
