--------------------------------- MODULE P2C ---------------------------------
(***************************************************************************)
(* Power-of-two-choices selection (irontraffic-balancer/src/algo/p2c.rs)   *)
(* over the keys of irontraffic-upstream/src/stats.rs, driven by requests  *)
(* that retry elsewhere while loads and membership change.  A draw has     *)
(* 2 * Width bits instead of 64.                                           *)
(***************************************************************************)
EXTENDS Integers, Sequences, FiniteSets, FiniteSetsExt

CONSTANTS
  Locals,       \* local indices a snapshot may name
  Broken,       \* those whose weight, id or statistics are out of range
  Slices,       \* slices a snapshot may publish
  Weight, Rtt,  \* effective weight and decayed round trip of each local
  Width,        \* bits of half a draw
  MaxExclude,   \* MAX_EXCLUDE
  MaxRequests,  \* CostCtx.max_requests
  MaxLoad       \* bound: requests in flight on an endpoint

None == 0 - 1
Draws == 0 .. 2 ^ (2 * Width) - 1
Kinds == {"PeakEwma", "LeastRequest"}
WorstKey == 1000000

VARIABLES
  slice,        \* the snapshot's eligible locals
  inflight,     \* of each local
  tried,        \* locals this request was sent to, in order
  picked,       \* the last pick: index into slice, or None
  given         \* slice, loads, exclusions and kind of the last pick (history)

pvars == <<slice, inflight, tried, picked, given>>

-----------------------------------------------------------------------------
\* The algorithm.

low_u32(draw) == draw % 2 ^ Width
high_u32(draw) == draw \div 2 ^ Width
reduce(x, n) == (x * n) \div 2 ^ Width

rotate_left(draw, k) ==
  LET r == k % (2 * Width)
  IN  ((draw * 2 ^ r) % 2 ^ (2 * Width)) + draw \div 2 ^ (2 * Width - r)

sample_two(draw, n) ==
  LET a == reduce(low_u32(draw), n)
      b == reduce(high_u32(draw), n - 1)
  IN  <<a, IF b >= a THEN b + 1 ELSE b>>

\* load_key and cost_key, kept whole by the common multiple of the weights.
Scale == LET ws == {Weight[l] : l \in Locals} IN ProductSet(ws)
order_key(kind, l, load) ==
  IF load[l] >= MaxRequests THEN WorstKey
  ELSE ((IF kind = "PeakEwma" THEN Rtt[l] ELSE 1) * (load[l] + 1) * Scale)
         \div Weight[l]

At(sl, i) == sl[i + 1]
Keyed(sl, i) == At(sl, i) \notin Broken
key(kind, sl, load, i) == order_key(kind, At(sl, i), load)

\* The better of two candidates; ties go to the first, a broken one loses.
better_of(kind, sl, load, a, b) ==
  CASE Keyed(sl, a) /\ Keyed(sl, b) ->
         IF key(kind, sl, load, b) < key(kind, sl, load, a) THEN b ELSE a
    [] Keyed(sl, a) /\ ~Keyed(sl, b) -> a
    [] ~Keyed(sl, a) /\ Keyed(sl, b) -> b
    [] OTHER -> None

pick_with(kind, sl, load, draw) ==
  LET n == Len(sl)
      s == IF n = 2 THEN <<0, 1>> ELSE sample_two(draw, n)
  IN  IF n = 0 THEN None
      ELSE IF n = 1 THEN 0
      ELSE better_of(kind, sl, load, s[1], s[2])

\* The candidate of resample k, from the same draw rotated.
Resample(kind, sl, load, draw, k) ==
  LET s == sample_two(rotate_left(draw, k * ((21 * Width) \div 32)), Len(sl))
  IN  better_of(kind, sl, load, s[1], s[2])

\* The resample that settles the pick: the first without a candidate, which
\* breaks off, or with one that is not excluded.
Settling(kind, sl, load, draw, exclude) ==
  {k \in 0 .. 2 : LET c == Resample(kind, sl, load, draw, k)
                  IN  c = None \/ At(sl, c) \notin exclude}

NoScan(kind, sl, load, start, exclude) == None

\* The scan: the least key among what is neither excluded nor broken, the
\* first from the start on a tie.
ScanFrom(kind, sl, load, start, exclude) ==
  LET n == Len(sl)
      open == {i \in 0 .. n - 1 : At(sl, i) \notin exclude /\ Keyed(sl, i)}
      least == {i \in open : \A j \in open :
                  key(kind, sl, load, i) <= key(kind, sl, load, j)}
  IN  IF open = {} THEN None
      ELSE (start + Min({(i - start) % n : i \in least})) % n

pick_excluding(kind, sl, load, draw, exclude) ==
  LET n == Len(sl)
      settling == Settling(kind, sl, load, draw, exclude)
      settled == IF settling = {} THEN None
                 ELSE Resample(kind, sl, load, draw, Min(settling))
  IN  IF n = 0 \/ Cardinality(exclude) > MaxExclude THEN None
      ELSE IF exclude = {} THEN pick_with(kind, sl, load, draw)
      ELSE IF n = 1 THEN IF At(sl, 0) \in exclude THEN None ELSE 0
      ELSE IF settled # None THEN settled
      ELSE ScanFrom(kind, sl, load, reduce(low_u32(draw), n), exclude)

-----------------------------------------------------------------------------
\* Requests.

Init ==
  /\ slice \in Slices
  /\ inflight = [l \in Locals |-> 0]
  /\ tried = {} /\ picked = None
  /\ given = [slice |-> <<>>, load |-> [l \in Locals |-> 0],
              tried |-> {}, kind |-> "PeakEwma"]

\* An attempt: the pick excludes what was tried, and is tried and charged.
Attempt(kind, draw) ==
  /\ given' = [slice |-> slice, load |-> inflight, tried |-> tried, kind |-> kind]
  /\ picked' = pick_excluding(kind, slice, inflight, draw, tried)
  /\ IF picked' = None THEN UNCHANGED <<tried, inflight>>
     ELSE LET l == At(slice, picked')
          IN  /\ inflight[l] < MaxLoad
              /\ tried' = tried \cup {l}
              /\ inflight' = [inflight EXCEPT ![l] = @ + 1]
  /\ UNCHANGED slice

Finish(l) ==
  /\ inflight[l] > 0
  /\ inflight' = [inflight EXCEPT ![l] = @ - 1]
  /\ picked' = None /\ given' = [given EXCEPT !.slice = <<>>]
  /\ UNCHANGED <<slice, tried>>

NewRequest ==
  /\ tried' = {}
  /\ picked' = None /\ given' = [given EXCEPT !.slice = <<>>]
  /\ UNCHANGED <<slice, inflight>>

Publish(sl) ==
  /\ slice' = sl
  /\ picked' = None /\ given' = [given EXCEPT !.slice = <<>>]
  /\ UNCHANGED <<inflight, tried>>

Next ==
  \/ \E k \in Kinds, d \in Draws : Attempt(k, d)
  \/ \E l \in Locals : Finish(l)
  \/ \E sl \in Slices : Publish(sl)
  \/ NewRequest

-----------------------------------------------------------------------------
TypeOK ==
  /\ slice \in Slices
  /\ inflight \in [Locals -> 0 .. MaxLoad]
  /\ tried \subseteq Locals
  /\ picked \in {None} \cup 0 .. Len(slice) - 1

\* Over all draws, sample_two yields every ordered pair of distinct indices in
\* range, and nothing else: no endpoint is unreachable, none meets itself.
SampleTwoSound ==
  Len(slice) >= 2 =>
    {sample_two(d, Len(slice)) : d \in Draws} =
      {p \in (0 .. Len(slice) - 1) \X (0 .. Len(slice) - 1) : p[1] # p[2]}

Key(i) == key(given.kind, given.slice, given.load, i)
Sound == \A i \in 0 .. Len(given.slice) - 1 : Keyed(given.slice, i)

\* A retry never returns to an endpoint it has tried, through resamples and
\* through the scan, and never picks an endpoint whose entries are missing.
RetryMovesOn ==
  picked # None /\ given.slice # <<>> =>
    /\ At(given.slice, picked) \notin given.tried
    /\ Len(given.slice) > 1 => Keyed(given.slice, picked)

\* With two candidates the pick is the better one, and among more a first
\* pick is never the one endpoint that is worse than all the others.
NeverTheWorst ==
  picked # None /\ Len(given.slice) >= 2 /\ given.tried = {} /\ Sound =>
    \E i \in 0 .. Len(given.slice) - 1 : i # picked /\ Key(picked) <= Key(i)

\* A retry within the limit fails only when no endpoint is left to try.
RetryFailsOnlyWhenExhausted ==
  (/\ given'.slice # <<>> /\ picked' = None
   /\ Cardinality(tried) \in 1 .. MaxExclude)
  => \A i \in 0 .. Len(slice) - 1 : At(slice, i) \in tried \cup Broken
==============================================================================
