----------------------------- MODULE ConnBudget ------------------------------
(***************************************************************************)
(* The per-connection frame budget (irontraffic-conn/src/budget.rs): a     *)
(* token bucket refilled lazily when a frame is debited, from a coarse     *)
(* millisecond counter that wraps.  The connection's task owns it, so its  *)
(* calls are sequential; time passes between them.                         *)
(***************************************************************************)
EXTENDS Integers, FiniteSetsExt, TLAPS

CONSTANTS
  Capacity,     \* ConnBudget.capacity
  Refill,       \* ConnBudget.refill_per_sec
  Second,       \* clock ticks in a second (1000 in the source)
  MaxElapsed,   \* MAX_ELAPSED_MS
  Wrap,         \* the modulus of the coarse clock (2^32 in the source)
  MaxProto,     \* ConnBudget.max_concurrent_proto
  Base,         \* FrameCosts.base
  Extra,        \* FrameEvent -> its extra cost in FrameCosts
  MaxTime,      \* bound: how far real time runs
  MaxDebt       \* bound: how far below zero frames are still sent

VARIABLES
  tokens,           \* ConnBudget.tokens
  last_refill_ms,   \* ConnBudget.last_refill_ms
  concurrent_proto, \* ConnBudget.concurrent_proto
  time,             \* real time since the connection opened (environment)
  spent,            \* the cost of every frame so far (history)
  spilled,          \* tokens the capacity cut off (history)
  streams           \* streams opened and not closed (history)

bvars ==
  <<tokens, last_refill_ms, concurrent_proto, time, spent, spilled, streams>>

now_ms == time % Wrap

Init ==
  /\ time = 0
  /\ tokens = Capacity
  /\ last_refill_ms = now_ms
  /\ concurrent_proto = 0
  /\ spent = 0 /\ spilled = 0 /\ streams = 0

cost_of(ev) == Base + Extra[ev]

\* wrapping_sub, clamped.
elapsed == Min({(now_ms - last_refill_ms) % Wrap, MaxElapsed})

GainRoundsUp == (elapsed * Refill + Second - 1) \div Second

gain == (elapsed * Refill) \div Second

\* The timestamp moves only when a whole token was gained.
on_frame(ev) ==
  /\ tokens > -MaxDebt
  /\ LET topped == Min({Capacity, tokens + gain})
     IN  /\ tokens' = topped - cost_of(ev)
         /\ spilled' = spilled + (tokens + gain - topped)
  /\ last_refill_ms' = IF gain > 0 THEN now_ms ELSE last_refill_ms
  /\ spent' = spent + cost_of(ev)
  /\ UNCHANGED <<concurrent_proto, time, streams>>

open_stream ==
  /\ concurrent_proto < MaxProto
  /\ concurrent_proto' = concurrent_proto + 1
  /\ streams' = streams + 1
  /\ UNCHANGED <<tokens, last_refill_ms, time, spent, spilled>>

\* The caller closes only a stream it opened.
close_stream ==
  /\ streams > 0
  /\ concurrent_proto' = Max({concurrent_proto - 1, 0})
  /\ streams' = streams - 1
  /\ UNCHANGED <<tokens, last_refill_ms, time, spent, spilled>>

Tick ==
  /\ time < MaxTime
  /\ time' = time + 1
  /\ UNCHANGED <<tokens, last_refill_ms, concurrent_proto, spent, spilled, streams>>

Next ==
  \/ \E ev \in DOMAIN Extra : on_frame(ev)
  \/ open_stream \/ close_stream \/ Tick

Spec == Init /\ [][Next]_bvars

-----------------------------------------------------------------------------
TypeOK ==
  /\ tokens \in Int /\ last_refill_ms \in 0 .. Wrap - 1
  /\ concurrent_proto \in 0 .. MaxProto
  /\ time \in Nat /\ spent \in Nat /\ spilled \in Nat /\ streams \in Nat

\* A peer's frames never cost more than a full bucket plus what real time has
\* refilled, whatever the pattern of frames, pauses and clock wraps: rounding
\* never credits a fraction twice and a wrapped clock never mints tokens.
SpendBounded ==
  (tokens + spent + spilled - Capacity) * Second <= Refill * time

\* The bucket never holds more than its capacity, however long the silence.
NeverAboveCapacity == tokens <= Capacity

\* The protocol count is exactly the streams open, so the saturating close
\* never hides a release and the limit never refuses a stream it could take.
ProtoCountsStreams == concurrent_proto = streams

\* What ConnBudget promises of its tokens and of its stream count.
BudgetSound == TypeOK /\ NeverAboveCapacity /\ SpendBounded /\ ProtoCountsStreams

-----------------------------------------------------------------------------
(* BudgetSound for every configuration, clock modulus and clamp, and with  *)
(* no bound on time.                                                       *)

\* What ConnBudget::new and the cost table are given.
Configured ==
  /\ Capacity \in Nat /\ Refill \in Nat /\ MaxElapsed \in Nat /\ Base \in Nat
  /\ MaxProto \in Nat
  /\ Second \in Nat \ {0} /\ Wrap \in Nat \ {0}
  /\ \A ev \in DOMAIN Extra : Extra[ev] \in Nat

\* What wrapping_sub gives: the time not yet turned into tokens.
due == (now_ms - last_refill_ms) % Wrap

\* The inductive invariant: what was granted and what is still due never add up
\* to more than real time has earned.
Earned ==
  /\ tokens \in Int /\ last_refill_ms \in 0 .. Wrap - 1
  /\ time \in Nat /\ spent \in Nat /\ spilled \in Nat
  /\ tokens <= Capacity
  /\ (tokens + spent + spilled - Capacity) * Second + Refill * due <= Refill * time

\* The least of two numbers.
LEMMA MinOfTwo ==
  ASSUME NEW a \in Int, NEW b \in Int
  PROVE  Min({a, b}) = IF a <= b THEN a ELSE b
  BY DEF Min

\* Multiplication keeps an order.
LEMMA Scaled ==
  ASSUME NEW a \in Nat, NEW b \in Nat, NEW c \in Nat, a <= b
  PROVE  c * a <= c * b
  OBVIOUS

\* A remainder is unique.
LEMMA Remainder ==
  ASSUME NEW W \in Nat \ {0}, NEW q \in Int, NEW r \in 0 .. W - 1
  PROVE  (q * W + r) % W = r
<1> DEFINE x == q * W + r
           p == x \div W
<1>1. p \in Int /\ x = p * W + (x % W) /\ x % W \in 0 .. W - 1
  OBVIOUS
<1>2. (p - q) * W = r - (x % W)
  BY <1>1
<1>3. CASE p > q
  <2>1. (p - q) * W >= W
    BY <1>1, <1>3
  <2>q. QED
    BY <1>1, <1>2, <2>1
<1>4. CASE p < q
  <2>1. (q - p) * W >= W
    BY <1>1, <1>4
  <2>2. (p - q) * W = -((q - p) * W)
    BY <1>1
  <2>q. QED
    BY <1>1, <1>2, <2>1, <2>2
<1>q. QED
  BY <1>1, <1>3, <1>4

\* A wrapped counter goes up by one or starts again.
LEMMA NextRemainder ==
  ASSUME NEW W \in Nat \ {0}, NEW x \in Nat
  PROVE  (x + 1) % W = IF x % W = W - 1 THEN 0 ELSE (x % W) + 1
<1>1. PICK q \in Int : x = q * W + (x % W) /\ x % W \in 0 .. W - 1
  <2>1. x \div W \in Int /\ x = (x \div W) * W + (x % W) /\ x % W \in 0 .. W - 1
    OBVIOUS
  <2>q. QED
    BY <2>1
<1> DEFINE r == x % W
<1>2. r \in 0 .. W - 1 /\ x = q * W + r
  BY <1>1
<1> HIDE DEF r
<1>3. CASE r = W - 1
  <2>1. ((q + 1) * W + 0) % W = 0
    BY Remainder
  <2>2. x + 1 = (q + 1) * W + 0
    BY <1>2, <1>3
  <2>q. QED
    BY <1>3, <2>1, <2>2 DEF r
<1>4. CASE r # W - 1
  <2>1. (q * W + (r + 1)) % W = r + 1
    BY <1>2, <1>4, Remainder
  <2>2. x + 1 = q * W + (r + 1)
    BY <1>2
  <2>q. QED
    BY <1>4, <2>1, <2>2 DEF r
<1>q. QED
  BY <1>3, <1>4

\* A difference of two times below the modulus wraps at most once.
LEMMA Wrapped ==
  ASSUME NEW W \in Nat \ {0}, NEW a \in 0 .. W - 1, NEW b \in 0 .. W - 1
  PROVE  (a - b) % W = IF a >= b THEN a - b ELSE a - b + W
  OBVIOUS

\* A tick makes at most one more tick due.
LEMMA TickDue ==
  ASSUME Configured, Earned, Tick
  PROVE  due \in Nat /\ due' \in Nat /\ due' <= due + 1
<1> DEFINE a == time % Wrap
           b == (time + 1) % Wrap
<1>1. time \in Nat /\ Wrap \in Nat \ {0} /\ last_refill_ms \in 0 .. Wrap - 1
  BY DEF Configured, Earned
<1>2. b = IF a = Wrap - 1 THEN 0 ELSE a + 1
  BY <1>1, NextRemainder
<1>3. a \in 0 .. Wrap - 1
  BY <1>1
<1>4. due = (a - last_refill_ms) % Wrap /\ due' = (b - last_refill_ms) % Wrap
  BY DEF due, now_ms, Tick
<1> HIDE DEF a, b
<1>5. b \in 0 .. Wrap - 1
  BY <1>1, <1>2, <1>3
<1>6. due = IF a >= last_refill_ms THEN a - last_refill_ms ELSE a - last_refill_ms + Wrap
  BY <1>1, <1>3, <1>4, Wrapped
<1>7. due' = IF b >= last_refill_ms THEN b - last_refill_ms ELSE b - last_refill_ms + Wrap
  BY <1>1, <1>4, <1>5, Wrapped
<1>q. QED
  BY <1>1, <1>2, <1>3, <1>6, <1>7

\* A refill grants no more than is due, and leaves nothing due when it grants.
LEMMA FrameDue ==
  ASSUME Configured, Earned, NEW ev \in DOMAIN Extra, on_frame(ev)
  PROVE  /\ due \in Nat /\ gain \in Nat
         /\ gain * Second <= Refill * due
         /\ due' = IF gain > 0 THEN 0 ELSE due
<1> USE DEF Configured, Earned
<1>1. now_ms \in 0 .. Wrap - 1 /\ now_ms' = now_ms
  BY DEF now_ms, on_frame
<1>2. due \in Nat
  BY <1>1, Wrapped DEF due
<1>3. elapsed \in Nat /\ elapsed <= due
  <2>1. elapsed = Min({due, MaxElapsed})
    BY DEF elapsed, due
  <2>q. QED
    BY <1>2, <2>1, MinOfTwo
<1>4. gain \in Nat /\ gain * Second <= elapsed * Refill
  BY <1>3 DEF gain
<1>5. elapsed * Refill <= Refill * due
  BY <1>2, <1>3
<1>6. due' = IF gain > 0 THEN 0 ELSE due
  BY <1>1, <1>4, Wrapped DEF due, on_frame
<1>q. QED
  BY <1>2, <1>3, <1>4, <1>5, <1>6

\* No frame, stream or tick breaks Earned.
LEMMA NextEarned ==
  ASSUME Configured, Earned, [Next]_bvars
  PROVE  Earned'
<1> USE DEF Configured, Earned
<1>1. ASSUME NEW ev \in DOMAIN Extra, on_frame(ev)
      PROVE  Earned'
  <2>1. /\ due \in Nat /\ gain \in Nat /\ gain * Second <= Refill * due
        /\ due' = IF gain > 0 THEN 0 ELSE due
    BY <1>1, FrameDue
  <2>2. PICK topped \in Int :
          /\ topped <= Capacity /\ topped <= tokens + gain
          /\ tokens' = topped - cost_of(ev)
          /\ spilled' = spilled + (tokens + gain - topped)
    BY <1>1, <2>1, MinOfTwo DEF on_frame
  <2>3. cost_of(ev) \in Nat /\ spent' = spent + cost_of(ev) /\ time' = time
    BY <1>1 DEF on_frame, cost_of
  <2>4. tokens' + spent' + spilled' - Capacity = (tokens + spent + spilled - Capacity) + gain
    BY <2>1, <2>2, <2>3
  <2>5. last_refill_ms' \in 0 .. Wrap - 1
    BY <1>1 DEF on_frame, now_ms
  <2>6. tokens' \in Int /\ tokens' <= Capacity /\ spilled' \in Nat /\ spent' \in Nat
    BY <2>1, <2>2, <2>3
  <2>7. (tokens' + spent' + spilled' - Capacity) * Second + Refill * due' <= Refill * time'
    <3> DEFINE k == tokens + spent + spilled - Capacity
    <3>1. k \in Int /\ k * Second + Refill * due <= Refill * time
      OBVIOUS
    <3>2. (k + gain) * Second = k * Second + gain * Second
      BY <2>1, <3>1
    <3>3. Refill * due' \in Int /\ Refill * due' <= (IF gain > 0 THEN 0 ELSE Refill * due)
      BY <2>1
    <3> HIDE DEF k
    <3>4. gain * Second + Refill * due' <= Refill * due
      BY <2>1, <3>3
    <3>5. (k + gain) * Second + Refill * due' <= Refill * time
      BY <2>1, <3>1, <3>2, <3>3, <3>4
    <3>q. QED
      BY <2>3, <2>4, <3>5 DEF k
  <2>q. QED
    BY <2>3, <2>5, <2>6, <2>7
<1>2. ASSUME Tick
      PROVE  Earned'
  <2>1. due \in Nat /\ due' \in Nat /\ due' <= due + 1
    BY <1>2, TickDue
  <2>2. Refill * due' <= Refill * (due + 1)
    <3>1. due + 1 \in Nat /\ Refill \in Nat
      BY <2>1
    <3>q. QED
      BY <2>1, <3>1, Scaled, Zenon
  <2>3. Refill * (due + 1) = Refill * due + Refill
    BY <2>1
  <2>4. time' = time + 1 /\ Refill * time' = Refill * time + Refill
    BY <1>2 DEF Tick
  <2>5. UNCHANGED <<tokens, last_refill_ms, spent, spilled>>
    BY <1>2 DEF Tick
  <2>6. (tokens' + spent' + spilled' - Capacity) * Second
          = (tokens + spent + spilled - Capacity) * Second
    BY <2>5
  <2>7. Refill * due \in Int /\ Refill * due' \in Int /\ Refill * time \in Int
    BY <2>1
  <2>8. (tokens' + spent' + spilled' - Capacity) * Second + Refill * due' <= Refill * time'
    BY <2>2, <2>3, <2>4, <2>6, <2>7
  <2>q. QED
    BY <2>4, <2>5, <2>8
<1>3. ASSUME open_stream \/ close_stream \/ UNCHANGED bvars
      PROVE  Earned'
  BY <1>3 DEF open_stream, close_stream, bvars, due, now_ms
<1>q. QED
  BY <1>1, <1>2, <1>3 DEF Next

\* The streams counted are the streams open, at most MaxProto.
Counted == concurrent_proto \in 0 .. MaxProto /\ ProtoCountsStreams

\* A close is of a stream that was counted.
LEMMA NextCounted ==
  ASSUME Configured, Counted, [Next]_bvars
  PROVE  Counted'
<1>1. CASE open_stream
  BY <1>1 DEF Counted, ProtoCountsStreams, open_stream, Configured
<1>2. CASE close_stream
  <2> DEFINE rest == concurrent_proto - 1
  <2>1. rest \in 0 .. MaxProto /\ streams' = rest
    BY <1>2 DEF Counted, ProtoCountsStreams, close_stream, Configured
  <2>2. concurrent_proto' = Max({rest, 0})
    BY <1>2 DEF close_stream
  <2> HIDE DEF rest
  <2>3. Max({rest, 0}) = rest
    BY <2>1 DEF Max, Configured
  <2>q. QED
    BY <2>1, <2>2, <2>3 DEF Counted, ProtoCountsStreams
<1>3. ASSUME Tick \/ UNCHANGED bvars \/ \E ev \in DOMAIN Extra : on_frame(ev)
      PROVE  Counted'
  BY <1>3, Zenon DEF Counted, ProtoCountsStreams, Tick, bvars, on_frame
<1>q. QED
  BY <1>1, <1>2, <1>3, Zenon DEF Next

\* BudgetSound, with no bound on time: frames never cost more than a full bucket
\* plus what real time has refilled, since neither rounding, the clamp nor a
\* wrapped clock ever mints a token, and the protocol count is the streams open.
THEOREM BudgetIsSound ==
  ASSUME Configured
  PROVE  Spec => []BudgetSound
<1>1. Init => Earned /\ Counted
  BY Wrapped DEF Init, Earned, Counted, ProtoCountsStreams, Configured, due, now_ms
<1>2. Earned /\ Counted => BudgetSound
  <2> SUFFICES ASSUME Earned, Counted PROVE SpendBounded
    BY DEF Earned, Counted, BudgetSound, NeverAboveCapacity, TypeOK,
       ProtoCountsStreams, Configured
  <2>1. now_ms \in 0 .. Wrap - 1
    BY DEF Earned, Configured, now_ms
  <2>2. due \in Nat
    BY <2>1, Wrapped DEF due, Earned, Configured
  <2>3. Refill * due >= 0
    BY <2>2 DEF Configured
  <2>q. QED
    BY <2>2, <2>3 DEF Earned, SpendBounded, Configured
<1>3. Earned /\ Counted /\ [Next]_bvars => (Earned /\ Counted)'
  BY NextEarned, NextCounted
<1>q. QED
  BY <1>1, <1>2, <1>3, PTL DEF Spec
==============================================================================
