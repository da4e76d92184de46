------------------------------- MODULE BodyBuf -------------------------------
(***************************************************************************)
(* Body buffering (irontraffic-conn/src/bodybuf.rs): a route combines the  *)
(* declarations of its body-inspecting features, a request reserves the    *)
(* route's whole ceiling from one process-wide byte budget, and the        *)
(* running octet count of the body is observed against the ceiling.        *)
(* Each action on the budget is one atomic operation of the source.        *)
(***************************************************************************)
EXTENDS Naturals, FiniteSets, FiniteSetsExt

CONSTANTS
  Features,     \* the declarations features make: records of Declaration
  Requests,     \* concurrent requests, each on a route of its own
  Total,        \* BufferPool.total
  Word,         \* the largest value of the counter's machine word
  RetryLimit    \* swaps try_acquire attempts (64 in the source)

Declaration ==
  [kind : {"none", "window", "whole"}, n : 0 .. Word,
   on_exceed : {"reject_413", "stream_through"}]

VARIABLES
  outstanding,  \* BufferPool.outstanding
  decls,        \* the features combined into the request's route (history)
  route,        \* the route's combined declaration
  pc,           \* where each request is
  seen,         \* the count its try_acquire last loaded
  tries,        \* swaps its try_acquire has lost
  lease         \* BufferLease.bytes, 0 when it has none

-----------------------------------------------------------------------------
NONE == [kind |-> "none", n |-> 0, on_exceed |-> "reject_413"]

Inspects(d) == d.kind # "none"

lease_size(d) == IF Inspects(d) THEN d.n ELSE 0

LargerCeiling(a, b) ==
  IF a.n > b.n \/ (a.n = b.n /\ a.kind = "whole") THEN a ELSE b

Strictest(a, b) ==
  IF "reject_413" \in {a.on_exceed, b.on_exceed} THEN "reject_413" ELSE "stream_through"

combine(a, b) ==
  IF ~Inspects(a) THEN b
  ELSE IF ~Inspects(b) THEN a
  ELSE [LargerCeiling(a, b) EXCEPT !.on_exceed = Strictest(a, b)]

observe(d, received) ==
  IF ~Inspects(d) \/ received <= d.n THEN "within" ELSE d.on_exceed

-----------------------------------------------------------------------------
Init ==
  /\ outstanding = 0
  /\ decls = [r \in Requests |-> {}]
  /\ route = [r \in Requests |-> NONE]
  /\ pc = [r \in Requests |-> "compile"]
  /\ seen = [r \in Requests |-> 0]
  /\ tries = [r \in Requests |-> 0]
  /\ lease = [r \in Requests |-> 0]

\* Route compilation folds the declarations in whatever order they come.
Declare(r, f) ==
  /\ pc[r] = "compile"
  /\ f \notin decls[r]
  /\ decls' = [decls EXCEPT ![r] = @ \cup {f}]
  /\ route' = [route EXCEPT ![r] = combine(@, f)]
  /\ UNCHANGED <<outstanding, pc, seen, tries, lease>>

Give(r, bytes) ==
  /\ lease' = [lease EXCEPT ![r] = bytes]
  /\ pc' = [pc EXCEPT ![r] = "leased"]

\* A zero-byte request never touches the counter.
try_acquire(r) ==
  /\ pc[r] \in {"compile", "idle"}
  /\ tries' = [tries EXCEPT ![r] = 0]
  /\ IF lease_size(route[r]) = 0
       THEN Give(r, 0)
       ELSE pc' = [pc EXCEPT ![r] = "load"] /\ UNCHANGED lease
  /\ UNCHANGED <<outstanding, decls, route, seen>>

FitsSaturating(count, bytes) == Min({count + bytes, Word}) <= Total

\* checked_add: a sum past the word is refused like one past the budget.
Fits(count, bytes) == count + bytes <= Word /\ count + bytes <= Total

Load(r) ==
  /\ pc[r] = "load"
  /\ seen' = [seen EXCEPT ![r] = outstanding]
  /\ pc' = [pc EXCEPT ![r] =
       IF tries[r] < RetryLimit /\ Fits(outstanding, lease_size(route[r]))
         THEN "cas" ELSE "idle"]
  /\ UNCHANGED <<outstanding, decls, route, tries, lease>>

CasWin(r) ==
  /\ pc[r] = "cas"
  /\ outstanding = seen[r]
  /\ outstanding' = (seen[r] + lease_size(route[r])) % (Word + 1)
  /\ Give(r, lease_size(route[r]))
  /\ UNCHANGED <<decls, route, seen, tries>>

\* Lost to another request, or spuriously: re-read and retry.
CasLose(r) ==
  /\ pc[r] = "cas"
  /\ tries' = [tries EXCEPT ![r] = @ + 1]
  /\ pc' = [pc EXCEPT ![r] = "load"]
  /\ UNCHANGED <<outstanding, decls, route, seen, lease>>

\* Drop for BufferLease; fetch_sub wraps at the word.
Drop(r) ==
  /\ pc[r] = "leased"
  /\ outstanding' = (outstanding + Word + 1 - lease[r]) % (Word + 1)
  /\ lease' = [lease EXCEPT ![r] = 0]
  /\ pc' = [pc EXCEPT ![r] = "idle"]
  /\ UNCHANGED <<decls, route, seen, tries>>

Next == \E r \in Requests :
  \/ \E f \in Features : Declare(r, f)
  \/ try_acquire(r) \/ Load(r) \/ CasWin(r) \/ CasLose(r) \/ Drop(r)

-----------------------------------------------------------------------------
TypeOK ==
  /\ outstanding \in 0 .. Word
  /\ decls \in [Requests -> SUBSET Features]
  /\ route \in [Requests -> Declaration]
  /\ pc \in [Requests -> {"compile", "idle", "load", "cas", "leased"}]
  /\ seen \in [Requests -> 0 .. Word]
  /\ tries \in [Requests -> 0 .. RetryLimit]
  /\ lease \in [Requests -> 0 .. Word]

Leased == MapThenSumSet(LAMBDA r : lease[r], Requests)

\* The leases alive never add up to more than the budget, even at a budget of
\* the whole machine word, where a saturating sum would let every request in.
NeverOverCommits == Leased <= Total

\* The counter is exactly the bytes leased, so it returns to zero.
PoolBalanced == outstanding = Leased

\* A request that holds a lease holds its route's whole ceiling, so an admitted
\* body can be buffered to the ceiling without asking again.
LeaseCoversCeiling ==
  \A r \in Requests : pc[r] = "leased" =>
    \A count \in 0 .. Word :
      Inspects(route[r]) /\ observe(route[r], count) = "within" => count <= lease[r]

\* Combining declarations one at a time, in any order, gives what all of them
\* together ask for: the largest ceiling, whole at a tie, the strictest action.
RouteIsJoin ==
  \A r \in Requests :
    LET S == {d \in decls[r] : Inspects(d)}
        top == CHOOSE n \in {d.n : d \in S} : \A d \in S : d.n <= n
    IN  IF S = {} THEN ~Inspects(route[r])
        ELSE route[r] =
          [kind |-> IF [kind |-> "whole", n |-> top] \in {[kind |-> d.kind, n |-> d.n] : d \in S}
                    THEN "whole" ELSE "window",
           n |-> top,
           on_exceed |-> IF \E d \in S : d.on_exceed = "reject_413"
                         THEN "reject_413" ELSE "stream_through"]

\* A route lets a body through uninspected only when every feature on it that
\* inspects bodies would have done the same on its own.
FailsClosed ==
  \A r \in Requests, count \in 0 .. Word :
    observe(route[r], count) = "stream_through" =>
      \A d \in decls[r] : Inspects(d) => observe(d, count) = "stream_through"

\* A request is refused only when the budget could not cover it at that instant
\* or its swap was lost RetryLimit times.
RefusalJustified ==
  \A r \in Requests : pc[r] = "load" /\ pc'[r] = "idle" =>
       Leased + lease_size(route[r]) > Total \/ tries[r] = RetryLimit
==============================================================================
