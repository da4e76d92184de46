------------------------------ MODULE PathNorm ------------------------------
(***************************************************************************)
(* Request-target paths: NormalizedPath::parse_into, in place in one       *)
(* buffer, and RewriteLedger, through which filters change the path of a   *)
(* request that was already routed.                                        *)
(*                                                                         *)
(* A target is a sequence of units: a byte, or a "%" with the two bytes    *)
(* behind it.  "%61" decodes to "a", "%2e" and "%2E" are two spellings of  *)
(* an encoded dot, "%zz" has no hex digits and "%" is cut short.           *)
(***************************************************************************)
EXTENDS Integers, Sequences, SequencesExt, FiniteSets

CONSTANTS
  Alphabet,          \* units a target is made of
  MaxUnits,          \* bound: units of a target
  MaxPathBytes,      \* max_path_bytes
  RejectDot, RejectSlash, MergeSlashes,    \* PathPolicy
  Rewrites,          \* [new_path, new_query] a filter may ask for, new_query = None or a query
  MaxRewrites        \* clamp_rewrites

VARIABLES
  raw,       \* the target as it arrives
  req,       \* the request's path and query, [path, query, err]
  applied,   \* RewriteLedger::applied
  routed     \* the path and query the request was last routed and authorised by

pvars == <<raw, req, applied, routed>>

None == <<"none">>
Encoded == {"%61", "%2e", "%2E", "%2F", "%5C", "%00"}
PathByte == {"/", ".", "a"}
QueryByte == PathByte \cup Encoded \cup {"%", "%zz", "?"}
Width(u) == IF u \in Encoded \cup {"%zz"} THEN 3 ELSE 1
Bytes(s) == FoldLeft(LAMBDA n, u : n + Width(u), 0, s)

------------------------------------------------------------------------------
validate_path_syntax(path) ==
  LET bad == {i \in DOMAIN path : path[i] \notin Encoded \cup PathByte}
      first == path[CHOOSE i \in bad : \A j \in bad : i <= j]
  IN IF bad = {} THEN ""
     ELSE IF first = "%zz" THEN "PathPercentInvalidHex"
     ELSE IF first = "%" THEN "PathPercentTruncated" ELSE "PathInvalidByte"

decode_unit(u) == IF u = "%61" THEN "a" ELSE IF u = "%2e" THEN "%2E" ELSE u

decode_path_into(path) == [i \in DOMAIN path |-> decode_unit(path[i])]

\* The read and write cursors, and where each kept segment began; the buffer
\* is overwritten behind the read cursor.
Cursor(buf, r, w, stack) == [buf |-> buf, r |-> r, w |-> w, stack |-> stack, err |-> ""]

put_slash(c, exact) ==
  IF exact THEN [c EXCEPT !.buf[c.w + 1] = "/", !.w = @ + 1] ELSE c

copy_within(buf, from, to, w) ==
  [i \in DOMAIN buf |-> IF i \in w + 1 .. w + (to - from) THEN buf[from + i - w] ELSE buf[i]]

next_slash(buf, from, len) ==
  LET at == {i \in from + 1 .. len : buf[i] = "/"}
  IN IF at = {} THEN len ELSE (CHOOSE i \in at : \A j \in at : i <= j) - 1

dot_step(c, len, rest) ==
  CASE rest = <<"/", ".">> \/ IsPrefix(<<"/", ".", "/">>, rest) ->
         put_slash([c EXCEPT !.r = @ + 2], Len(rest) = 2)
    [] rest = <<"/", ".", ".">> \/ IsPrefix(<<"/", ".", ".", "/">>, rest) ->
         IF c.stack = <<>> THEN [c EXCEPT !.err = "PathTraversalAboveRoot"]
         ELSE put_slash([c EXCEPT !.r = @ + 3, !.w = Last(c.stack), !.stack = Front(@)],
                        Len(rest) = 3)
    [] OTHER ->
         LET next == next_slash(c.buf, c.r + 1, len)
         IN Cursor(copy_within(c.buf, c.r, next, c.w), next, c.w + (next - c.r),
                   Append(c.stack, c.w))

\* Every round moves the read cursor, so there are no more rounds than units.
remove_dot_segments(path) ==
  LET len == Len(path)
      round(c, i) == IF c.err # "" \/ c.r >= len THEN c
                     ELSE dot_step(c, len, SubSeq(c.buf, c.r + 1, len))
  IN FoldLeft(round, Cursor(path, 0, 0, <<>>), [i \in 1 .. len |-> i])

\* The segments of a path, each without its slash.
Segments(path) ==
  LET at == {i \in DOMAIN path : path[i] = "/"}
      end(i) == IF \E j \in at : j > i THEN (CHOOSE j \in at : j > i /\ \A k \in at : k > i => j <= k) - 1
                ELSE Len(path)
  IN [n \in 1 .. Cardinality(at) |->
        LET i == CHOOSE i \in at : Cardinality({j \in at : j <= i}) = n
        IN SubSeq(path, i + 1, end(i))]

is_encoded_dot_segment(seg) ==
  Len(seg) \in {1, 2} /\ \A i \in DOMAIN seg : seg[i] \in {".", "%2E"}

has_encoded_dot_segment(path) == \E s \in ToSet(Segments(path)) : is_encoded_dot_segment(s)

has_encoded_slash(path) == {"%2F", "%5C"} \cap ToSet(path) # {}

merge_slashes(path) ==
  LET keep == {i \in DOMAIN path : ~(i > 1 /\ path[i] = "/" /\ path[i - 1] = "/")}
  IN [n \in 1 .. Cardinality(keep) |-> path[CHOOSE i \in keep : Cardinality({j \in keep : j <= i}) = n]]

Refuse(e) == [path |-> <<>>, query |-> None, err |-> e]

\* The steps behind the removal of dot segments.
by_policy(path, query) ==
  IF RejectDot /\ has_encoded_dot_segment(path) THEN Refuse("PathEncodedDot")
  ELSE IF RejectSlash /\ has_encoded_slash(path) THEN Refuse("PathEncodedSlash")
  ELSE [path |-> IF MergeSlashes THEN merge_slashes(path) ELSE path, query |-> query, err |-> ""]

resolved(c, query) ==
  IF c.err # "" THEN Refuse(c.err) ELSE by_policy(SubSeq(c.buf, 1, c.w), query)

normalize(path, query) ==
  IF query # None /\ ~(ToSet(query) \subseteq QueryByte) THEN Refuse("QueryInvalidByte")
  ELSE IF path = <<>> THEN Refuse("PathEmpty")
  ELSE IF path[1] # "/" THEN Refuse("TargetFormInvalid")
  ELSE IF validate_path_syntax(path) # "" THEN Refuse(validate_path_syntax(path))
  ELSE IF "%00" \in ToSet(path) THEN Refuse("PathEncodedNul")
  ELSE resolved(remove_dot_segments(decode_path_into(path)), query)

QuestionMark(s) ==
  LET at == {i \in DOMAIN s : s[i] = "?"}
  IN IF at = {} THEN 0 ELSE CHOOSE i \in at : \A j \in at : i <= j

parse_into(s) ==
  LET q == QuestionMark(s)
  IN IF s = <<>> THEN Refuse("PathEmpty")
     ELSE IF Bytes(s) > MaxPathBytes THEN Refuse("PathTooLong")
     ELSE IF "#" \in ToSet(s) THEN Refuse("TargetFragment")
     ELSE IF q = 0 THEN normalize(s, None)
     ELSE normalize(SubSeq(s, 1, q - 1), SubSeq(s, q + 1, Len(s)))

------------------------------------------------------------------------------
\* What routing sees of a request.
Target(r) == <<r.path, r.query>>

Init == raw = <<>> /\ req = Refuse("PathEmpty") /\ applied = 0 /\ routed = None

\* A target arrives, is normalised, and the request is routed by the result.
Receive(u) ==
  /\ applied = 0 /\ Len(raw) < MaxUnits
  /\ raw # <<>> /\ Last(raw) = "%" => u = "?"
  /\ raw' = Append(raw, u)
  /\ req' = parse_into(raw')
  /\ routed' = IF req'.err = "" THEN Target(req') ELSE None
  /\ UNCHANGED applied

rewrite_input(rw) ==
  IF QuestionMark(rw.new_path) # 0 \/ rw.new_query = None THEN rw.new_path
  ELSE rw.new_path \o <<"?">> \o rw.new_query

\* The request takes the new target, and the caller re-routes when
\* the outcome says so.
Replaced(now, kept) ==
  LET new == [now EXCEPT !.query = IF kept THEN req.query ELSE @]
  IN IF now.err # "" THEN UNCHANGED <<req, routed>>
     ELSE /\ req' = new
          /\ routed' = IF Target(new) = Target(req) THEN routed ELSE Target(new)

\* RewriteLedger::apply; a rewrite that fails has spent its slot.
apply(rw) ==
  LET has == QuestionMark(rw.new_path) # 0
  IN /\ req.err = "" /\ applied < MaxRewrites
     /\ applied' = applied + 1
     /\ IF has /\ rw.new_query # None THEN UNCHANGED <<req, routed>>
        ELSE Replaced(parse_into(rewrite_input(rw)), ~has /\ rw.new_query = None)
     /\ UNCHANGED raw

Next == (\E u \in Alphabet : Receive(u)) \/ (\E rw \in Rewrites : apply(rw))

------------------------------------------------------------------------------
Dot(seg) == seg = <<".">>
DotDot(seg) == seg = <<".", ".">>
Names(segs, i, j) == Cardinality({k \in i .. j : ~Dot(segs[k]) /\ ~DotDot(segs[k])})
Climbs(segs, i, j) == Cardinality({k \in i .. j : DotDot(segs[k])})

\* The segments that remain: a name stays unless the climbs behind it come to
\* outnumber the names behind it; a last segment of dots leaves an empty one.
Remaining(segs) ==
  LET n == Len(segs)
      stays == {i \in 1 .. n : /\ ~Dot(segs[i]) /\ ~DotDot(segs[i])
                               /\ \A j \in i + 1 .. n : Climbs(segs, i + 1, j) <= Names(segs, i + 1, j)}
      kept == [m \in 1 .. Cardinality(stays) |->
                 segs[CHOOSE i \in stays : Cardinality({j \in stays : j <= i}) = m]]
  IN IF Dot(segs[n]) \/ DotDot(segs[n]) THEN Append(kept, <<>>) ELSE kept

AboveRoot(segs) == \E j \in DOMAIN segs : Climbs(segs, 1, j) > Names(segs, 1, j)

Join(segs) == FlattenSeq([i \in DOMAIN segs |-> <<"/">> \o segs[i]])

PathOf(s) == IF QuestionMark(s) = 0 THEN s ELSE SubSeq(s, 1, QuestionMark(s) - 1)

\* remove_dot_segments: the in-place walk with its two cursors leaves exactly
\* the segments that no later ".." cancels, and refuses exactly the paths that
\* climb above the root.
WalksAsSegments ==
  LET segs == Segments(decode_path_into(PathOf(raw)))
  IN /\ applied = 0 /\ req.err = "" /\ ~MergeSlashes => req.path = Join(Remaining(segs))
     /\ applied = 0 /\ req.err = "PathTraversalAboveRoot" => AboveRoot(segs)
     /\ req.err = "" => ~AboveRoot(segs)

\* parse_into: a normalised path is absolute, has no dot segment left in any
\* spelling the policy refuses, is no longer than what arrived, and normalises
\* to itself, so the next hop that normalises sees the path this one routed.
Normal ==
  req.err = "" =>
    /\ req.path # <<>> /\ req.path[1] = "/"
    /\ \A s \in ToSet(Segments(req.path)) :
         ~Dot(s) /\ ~DotDot(s) /\ (RejectDot => ~is_encoded_dot_segment(s))
    /\ applied = 0 => Bytes(req.path) <= Bytes(PathOf(raw))
    /\ normalize(req.path, req.query) = req

\* RewriteLedger: whatever filters rewrite, the request stands for the target
\* it was last routed and authorised by, and the number of rewrites is bounded.
RoutedAsForwarded ==
  /\ req.err = "" => routed = Target(req)
  /\ applied <= MaxRewrites
=============================================================================
