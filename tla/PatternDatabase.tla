--------------------------- MODULE PatternDatabase ---------------------------
(***************************************************************************)
(* The plate solver's table (gen.rs writes it, solver/lib.rs reads it) and *)
(* its vote.  A key and a pattern are numbers; which quads give which key, *)
(* and which attitude follows from a pattern, is floating point and left   *)
(* out.  The table and the sorting network are functions of their input,   *)
(* the vote is a state machine, one pattern of the table at a time.        *)
(***************************************************************************)
EXTENDS Integers, SequencesExt

CONSTANTS
  KEYS,                      \* 2^30 in the code: a key is one of 0 .. KEYS - 1
  PER_BUCKET,                \* keys with the same top 12 bits
  START_SPAN, LENGTH_SPAN,   \* 2^20 and 2^12: the two halves of an offset
  FIXED,                     \* 2^9: half the range of a 10-bit number
  max_count, early_stop_n    \* at least 2: a candidate's first vote ends nothing

VoteConstants == max_count \in Nat /\ early_stop_n \in Nat \ {0, 1}

TableConstants == {KEYS, PER_BUCKET, START_SPAN, LENGTH_SPAN, FIXED} \subseteq Nat \ {0}

VARIABLES
  candidates,                \* the votes of each candidate, in their order
  count, outcome

voteVars == <<candidates, count, outcome>>

Buckets == (KEYS + PER_BUCKET - 1) \div PER_BUCKET

-----------------------------------------------------------------------------
(* generate_database and create_lut *)

Packed(start, length) == (start % START_SPAN) * LENGTH_SPAN + (length % LENGTH_SPAN)

\* keys is the hash map's order of the keys, patterns gives the patterns of each key:
\* the array after each key, the (key, offset) pairs, and the pairs sorted by key.
flat_array(keys, patterns) ==
  LET flat[k \in 0 .. Len(keys)] == IF k = 0 THEN << >> ELSE flat[k - 1] \o patterns[keys[k]]
  IN  flat

Pairs(keys, patterns) ==
  LET flat == flat_array(keys, patterns)
  IN  [k \in DOMAIN keys |->
         [key |-> keys[k], offset |-> Packed(Len(flat[k - 1]), Len(patterns[keys[k]]))]]

\* The pair whose key is the i-th stands at place i; no two keys are equal.
a1(keys, patterns) ==
  LET pairs == Pairs(keys, patterns)
      all   == {pairs[k] : k \in DOMAIN pairs}
      place(p) == Cardinality({q \in all : q.key <= p.key})
  IN  [i \in DOMAIN pairs |-> CHOOSE p \in all : place(p) = i]

Bucket(key) == key \div PER_BUCKET

\* Mutated form: one place short.
FillBelow(acc, to, i) ==
  [lut |-> [b \in 0 .. Buckets |-> IF acc.at < b /\ b < to THEN i ELSE acc.lut[b]],
   at  |-> IF acc.at < to THEN to ELSE acc.at]

\* The places behind acc.at up to `to` get i.
Fill(acc, to, i) ==
  [lut |-> [b \in 0 .. Buckets |-> IF acc.at < b /\ b <= to THEN i ELSE acc.lut[b]],
   at  |-> IF acc.at < to THEN to ELSE acc.at]

create_lut(pairs) ==
  LET filled[i \in 0 .. Len(pairs)] ==
        IF i = 0 THEN [lut |-> [b \in 0 .. Buckets |-> 0], at |-> 0]
        ELSE Fill(filled[i - 1], Bucket(pairs[i].key), i - 1)
  IN  Fill(filled[Len(pairs)], Buckets, Len(pairs)).lut

\* solve_inner: binary search in the key's bucket, then `length` patterns from `start`.
Lookup(pairs, flat, key) ==
  LET lut    == create_lut(pairs)
      found  == {i \in lut[Bucket(key)] + 1 .. lut[Bucket(key) + 1] : pairs[i].key = key}
      info   == pairs[CHOOSE i \in found : TRUE].offset
      start  == info \div LENGTH_SPAN
      length == info % LENGTH_SPAN
  IN  IF found = {} THEN << >>
      ELSE SubSeq(flat, start + 1,
                  IF start + length <= Len(flat) THEN start + length ELSE Len(flat))

-----------------------------------------------------------------------------
(* CompressedEntry::new and Pattern::from_compressed *)

\* float_to_fixed10 of n / 511; fixed10_to_float extends the sign again.
ToFixed(n) == n % (2 * FIXED)
OfFixed(f) ==
  LET masked == f % (2 * FIXED)
  IN  IF masked >= FIXED THEN masked - 2 * FIXED ELSE masked

\* The fields lie side by side, the first one lowest.
Compressed(fields) ==
  LET above[k \in 0 .. Len(fields)] ==
        IF k = 0 THEN 0
        ELSE above[k - 1] * (2 * FIXED) + ToFixed(fields[Len(fields) + 1 - k])
  IN  above[Len(fields)]

from_compressed(compressed, n) ==
  LET shifted[k \in 0 .. n] ==
        IF k = 0 THEN compressed ELSE shifted[k - 1] \div (2 * FIXED)
  IN  [k \in 1 .. n |-> OfFixed(shifted[k - 1])]

-----------------------------------------------------------------------------
(* sort6 *)

Network == <<<<1, 2>>, <<4, 5>>, <<0, 2>>, <<3, 5>>, <<0, 1>>, <<3, 4>>, <<2, 5>>, <<0, 3>>,
             <<1, 4>>, <<2, 4>>, <<1, 3>>, <<2, 3>>>>

\* The macro cs!(i, j).
Compared(a, i, j) == IF a[i] > a[j] THEN [a EXCEPT ![i] = a[j], ![j] = a[i]] ELSE a

sort6(edges) ==
  LET after[k \in 0 .. 12] ==
        IF k = 0 THEN edges ELSE Compared(after[k - 1], Network[k][1], Network[k][2])
  IN  after[12]

-----------------------------------------------------------------------------
(* The vote *)

VoteInit == candidates = << >> /\ count = 0 /\ outcome = "voting"

Swapped(s, i) == [s EXCEPT ![1] = s[i], ![i] = s[1]]

NewVotes(i) == candidates[i] + 1

\* The attitude is near candidate i, the first in the list that is near.
Match(i) ==
  /\ outcome = "voting"
  /\ candidates' = Swapped([candidates EXCEPT ![i] = @ + 1], i)
  /\ IF NewVotes(i) >= early_stop_n
     THEN outcome' = "early" /\ UNCHANGED count
     ELSE /\ count' = count + 1
          /\ outcome' = IF count' > max_count THEN "exhausted" ELSE "voting"

\* It is near none.
NewCandidate ==
  /\ outcome = "voting"
  /\ candidates' = Append(candidates, 1)
  /\ count' = count + 1
  /\ outcome' = IF count' > max_count THEN "exhausted" ELSE "voting"

\* No quads are left.
OutOfQuads == outcome = "voting" /\ outcome' = "all" /\ UNCHANGED <<candidates, count>>

VoteNext == OutOfQuads \/ NewCandidate \/ \E i \in DOMAIN candidates : Match(i)

-----------------------------------------------------------------------------

\* Whatever the order of the hash map, a key is found with its patterns and no
\* others, if the flat array and the longest list fit the fields of an offset: a
\* list starts below 2^20 and is shorter than 2^12 (neither is checked by gen.rs).
LookupExact(keys, patterns) ==
  LET flat  == flat_array(keys, patterns)
      known == {keys[k] : k \in DOMAIN keys}
  IN  (\A k \in DOMAIN keys : Len(flat[k - 1]) < START_SPAN /\ Len(patterns[keys[k]]) < LENGTH_SPAN)
      => \A key \in 0 .. KEYS - 1 :
           Lookup(a1(keys, patterns), flat[Len(keys)], key)
             = IF key \in known THEN patterns[key] ELSE << >>

\* The numbers of an entry come back from the table, the negative ones too.
FieldsSurvive(fields) == from_compressed(Compressed(fields), Len(fields)) = fields

\* The network sorts, and only rearranges.
NetworkSorts(edges) ==
  LET out == sort6(edges)
  IN  /\ \A i \in 0 .. 4 : out[i] <= out[i + 1]
      /\ \A v \in {edges[i] : i \in 0 .. 5} :
           Cardinality({i \in 0 .. 5 : out[i] = v}) = Cardinality({i \in 0 .. 5 : edges[i] = v})

\* An early end has a single winner: it has early_stop_n votes and stands first, and
\* every other candidate has fewer, so the sort that follows keeps it first.
EarlyWinner ==
  outcome = "early" =>
    /\ candidates[1] = early_stop_n
    /\ \A i \in 2 .. Len(candidates) : candidates[i] < early_stop_n

\* The votes of all candidates in s.
Votes(s) ==
  LET total[k \in 0 .. Len(s)] == IF k = 0 THEN 0 ELSE total[k - 1] + s[k]
  IN  total[Len(s)]

\* At most max_count + 1 patterns are voted on, each gives one vote.
VotesBounded ==
  /\ Votes(candidates) <= max_count + 1
  /\ outcome # "early" => Votes(candidates) = count

\* What the caller of solve_inner may rely on, however the vote ends.
VoteInv == EarlyWinner /\ VotesBounded
=============================================================================
