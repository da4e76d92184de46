------------------------------ MODULE Gradient ------------------------------
(***************************************************************************)
(* The adaptive concurrency controller                                     *)
(* (irontraffic-resilience/src/concurrency).  Latency samples, losses and  *)
(* the in-flight peak accumulate in a window; closing it moves the limit   *)
(* and publishes its integer part into the request semaphore.  The         *)
(* controller belongs to one worker, so its operations do not interleave.  *)
(* The limit is a fixed-point number of Unit parts, rounded down.          *)
(***************************************************************************)
EXTENDS Integers, Sequences, SequencesExt

CONSTANTS
  Rtts,              \* sampled latencies
  Inflights,         \* in-flight counts noted
  MaxSamples,        \* bound on the samples of a window
  Unit,              \* fixed-point parts of one permit
  MinLimit, MaxLimit,
  AlphaNum, AlphaDen, TolNum, TolDen, DownNum, DownDen,
  WindowMin, WindowMinSamples,
  LateFactor,        \* 10 in the code
  BaseWindows,
  IdleCap,           \* bound on idle_windows
  Enabled

VARIABLES
  limit, hist,       \* how often each latency was sampled in this window
  base,              \* the deque: latency and age in pushes, oldest first
  elapsed,           \* since window_started, at most LateFactor * WindowMin
  loss_this_window, slow_start, inflight_peak, idle_windows,
  published,         \* the limit of the semaphore
  recent             \* history: the representative medians still in the window

gvars == <<limit, hist, base, elapsed, loss_this_window, slow_start,
           inflight_peak, idle_windows, published, recent>>

FullWindow == LateFactor * WindowMin
Bounded(x, lo, hi) == IF x < lo THEN lo ELSE IF x > hi THEN hi ELSE x
Larger(x, y) == IF x > y THEN x ELSE y

RECURSIVE Samples(_, _)
Samples(h, rtts) ==
  IF rtts = {} THEN 0
  ELSE LET r == CHOOSE r \in rtts : TRUE IN h[r] + Samples(h, rtts \ {r})

samples_this_window == Samples(hist, Rtts)

\* The median: the least latency at or below which half the samples are.
rtt_short ==
  CHOOSE r \in Rtts :
    /\ 2 * Samples(hist, {q \in Rtts : q <= r}) >= samples_this_window
    /\ \A s \in Rtts :
         s < r => 2 * Samples(hist, {q \in Rtts : q <= s}) < samples_this_window

-----------------------------------------------------------------------------
\* MonotonicMinDeque.

PushGreater(buf, value) ==
  LET aged == [i \in DOMAIN buf |-> [buf[i] EXCEPT !.age = @ + 1]]
      kept == SelectSeq(aged, LAMBDA e : e.rtt > value)
  IN  SelectSeq(Append(kept, [rtt |-> value, age |-> 0]),
                LAMBDA e : e.age < BaseWindows)

\* What is not below the new value leaves at the back, what aged out at the
\* front.
push(buf, value) ==
  LET aged == [i \in DOMAIN buf |-> [buf[i] EXCEPT !.age = @ + 1]]
      kept == SelectSeq(aged, LAMBDA e : e.rtt < value)
  IN  SelectSeq(Append(kept, [rtt |-> value, age |-> 0]),
                LAMBDA e : e.age < BaseWindows)

BaseMin(buf) == Head(buf).rtt

-----------------------------------------------------------------------------
\* The control law.

\* gradient_of: tolerance * base / short between a half and one, a fraction.
gradient_of(rtt_base, short) ==
  LET num == TolNum * rtt_base
      den == TolDen * short
  IN  IF num >= den THEN <<1, 1>> ELSE IF 2 * num <= den THEN <<1, 2>> ELSE <<num, den>>

Sqrt(n) == CHOOSE s \in 0 .. n : s * s <= n /\ (s + 1) * (s + 1) > n

\* The smoothed step, clamped.
apply_smoothed_update(lim, gradient) ==
  LET q == Larger(Sqrt(lim * Unit), 4 * Unit)
      raw == (lim * gradient[1]) \div gradient[2] + q
  IN  Bounded(((AlphaDen - AlphaNum) * lim + AlphaNum * raw) \div AlphaDen,
              MinLimit * Unit, MaxLimit * Unit)

FastDown(lim) ==
  IF loss_this_window
  THEN Larger((lim * DownNum) \div DownDen, MinLimit * Unit)
  ELSE lim

\* Less than half the limit in flight: latency says nothing about it.
AppLimited(lim) == 2 * inflight_peak * Unit < lim

LeavesSlowStart(lim, gradient) == ~AppLimited(lim) /\ gradient /= <<1, 1>>

Moved(lim, gradient) ==
  IF AppLimited(lim) THEN lim
  ELSE IF slow_start /\ gradient = <<1, 1>>
       THEN Bounded(2 * lim, 0, MaxLimit * Unit)
       ELSE apply_smoothed_update(lim, gradient)

-----------------------------------------------------------------------------
Init ==
  /\ limit = MinLimit * Unit
  /\ hist = [r \in Rtts |-> 0] /\ base = <<>> /\ elapsed = 0
  /\ loss_this_window = FALSE /\ slow_start = TRUE
  /\ inflight_peak = 0 /\ idle_windows = 0
  /\ published = MaxLimit \* the static limit of the semaphore
  /\ recent = <<>>

record_sample(r) ==
  /\ samples_this_window < MaxSamples
  /\ hist' = [hist EXCEPT ![r] = @ + 1]
  /\ UNCHANGED <<limit, base, elapsed, loss_this_window, slow_start,
                 inflight_peak, idle_windows, published, recent>>

note_loss ==
  /\ loss_this_window' = TRUE
  /\ UNCHANGED <<limit, hist, base, elapsed, slow_start, inflight_peak,
                 idle_windows, published, recent>>

note_inflight(n) ==
  /\ inflight_peak' = Larger(inflight_peak, n)
  /\ UNCHANGED <<limit, hist, base, elapsed, loss_this_window, slow_start,
                 idle_windows, published, recent>>

Tick ==
  /\ elapsed < FullWindow
  /\ elapsed' = elapsed + 1
  /\ UNCHANGED <<limit, hist, base, loss_this_window, slow_start,
                 inflight_peak, idle_windows, published, recent>>

reset_window ==
  /\ hist' = [r \in Rtts |-> 0] /\ elapsed' = 0
  /\ loss_this_window' = FALSE /\ inflight_peak' = 0

Representative == samples_this_window >= WindowMinSamples
DueOnlyRepresentative == elapsed >= WindowMin /\ Representative

Due == (elapsed >= WindowMin /\ Representative) \/ elapsed >= FullWindow

\* A window without a sample teaches nothing and counts towards idleness.
CloseEmpty ==
  /\ Due /\ samples_this_window = 0
  /\ idle_windows' = IF idle_windows < IdleCap THEN idle_windows + 1 ELSE IdleCap
  /\ reset_window
  /\ UNCHANGED <<limit, base, slow_start, published, recent>>

\* No representative window yet: a neutral answer.
CloseNoBaseline ==
  /\ Due /\ samples_this_window > 0 /\ ~Representative /\ base = <<>>
  /\ idle_windows' = 0
  /\ reset_window
  /\ UNCHANGED <<limit, base, slow_start, published, recent>>

Close ==
  /\ Due /\ samples_this_window > 0 /\ (Representative \/ base /= <<>>)
  /\ base' = IF Representative THEN push(base, rtt_short) ELSE base
  /\ recent' = IF ~Representative THEN recent
               ELSE LET all == Append(recent, rtt_short)
                    IN  IF Len(all) > BaseWindows THEN Tail(all) ELSE all
  /\ LET down == FastDown(limit)
         gradient == gradient_of(BaseMin(base'), rtt_short)
     IN  /\ limit' = Moved(down, gradient)
         /\ slow_start' = (slow_start /\ ~LeavesSlowStart(down, gradient))
  /\ published' = IF Enabled THEN limit' \div Unit ELSE published
  /\ idle_windows' = 0
  /\ reset_window

maybe_close_window == CloseEmpty \/ CloseNoBaseline \/ Close

Next ==
  \/ \E r \in Rtts : record_sample(r)
  \/ \E n \in Inflights : note_inflight(n)
  \/ note_loss \/ Tick \/ maybe_close_window

-----------------------------------------------------------------------------
TypeOK ==
  /\ limit \in MinLimit * Unit .. MaxLimit * Unit
  /\ hist \in [Rtts -> 0 .. MaxSamples]
  /\ Len(base) <= BaseWindows
  /\ \A i \in DOMAIN base : base[i] \in [rtt : Rtts, age : 0 .. BaseWindows - 1]
  /\ elapsed \in 0 .. FullWindow
  /\ {loss_this_window, slow_start} \subseteq BOOLEAN
  /\ inflight_peak \in Inflights \cup {0}
  /\ idle_windows \in 0 .. IdleCap
  /\ published \in MinLimit .. MaxLimit

\* MonotonicMinDeque keeps "the exact sliding-window minimum" although it
\* forgets most of what it is given: its head is the least of the last
\* base_windows medians pushed, and it is empty only before the first.
BaselineExact ==
  /\ base = <<>> <=> recent = <<>>
  /\ base /= <<>> => /\ BaseMin(base) \in Range(recent)
                     /\ \A r \in Range(recent) : BaseMin(base) <= r

\* What the semaphore is given follows the controller: once a window acted,
\* it is the integer part of the limit; a controller that is not enabled never
\* touches the semaphore.
PublishedFollows ==
  published \in {MaxLimit} \cup (IF Enabled THEN {limit \div Unit} ELSE {})

\* Latency that a lightly loaded upstream shows never raises the limit: it
\* only rises in a window whose in-flight peak reached half of the limit the
\* rise starts from.
OnlyLoadRaises == limit' > limit => 2 * inflight_peak * Unit >= FastDown(limit)

\* Slow start happens once: its doubling never resumes after the latency
\* first rose above the tolerated baseline.
SlowStartOnce == slow_start' => slow_start
=============================================================================
