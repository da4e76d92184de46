------------------------------ MODULE PeakEwma ------------------------------
(***************************************************************************)
(* The cost word of an endpoint (irontraffic-upstream/src/ewma.rs and the  *)
(* cost operations of stats.rs): a peak-sensitive moving average and the   *)
(* coarse time it was recorded at, packed into one atomic that workers     *)
(* update with at most two compare-exchanges and a builder seeds once.     *)
(* Each worker stamps samples with its own cached, lagging clock.  Costs   *)
(* are integers and the decay halves them once per time unit: the shape of *)
(* exp_neg, decreasing from one at zero and zero past its cutoff, is kept. *)
(***************************************************************************)
EXTENDS Integers, FiniteSets, FiniteSetsExt

CONSTANTS
  Workers,      \* threads recording samples
  Samples,      \* round-trip times offered, and NaN
  Default,      \* EwmaCfg.default_rtt_ms
  MinRtt, MaxRtt,
  Cutoff,       \* elapsed units at which exp_neg is zero
  Wrap,         \* the coarse clock counts modulo this
  MaxTime,      \* bound: the clock
  MaxRecords    \* bound: samples recorded

NaN == 0 - 1
Unset == [est |-> 0, at |-> 0]

VARIABLES
  cost,         \* the packed word
  pc, cur, rtt, \* each worker's record_rtt: label, word loaded, its sample
  clock,        \* each worker's cached clock, unwrapped
  now,          \* the clock, unwrapped
  seed,         \* whether the builder is between its check and its exchange
  at,           \* the unwrapped time the word was recorded (history)
  worst,        \* the largest cost offered so far (history)
  records       \* calls of record_rtt (history)

word == <<cost, at>>

Clamp(x) == Max({MinRtt, Min({x, MaxRtt})})

Finite(x, otherwise) == Clamp(IF x = NaN THEN otherwise ELSE x)

Init ==
  /\ cost = Unset /\ at = 0
  /\ pc = [w \in Workers |-> "idle"]
  /\ cur = [w \in Workers |-> Unset]
  /\ rtt = [w \in Workers |-> MinRtt]
  /\ clock = [w \in Workers |-> 0]
  /\ now = 0 /\ seed = FALSE /\ worst = 0 /\ records = 0

exp_neg(e) == IF e >= Cutoff THEN 0 ELSE 1

AgedAlways(v, recorded_at, now_ms) ==
  LET e == (now_ms - recorded_at) % Wrap IN (v * exp_neg(e)) \div 2 ^ e

\* The estimate aged by the decay factor of the time since it was recorded; a
\* time that looks to be in the future is no time at all.
Aged(v, recorded_at, now_ms) ==
  LET elapsed == (now_ms - recorded_at) % Wrap
      e == IF 2 * elapsed > Wrap THEN 0 ELSE elapsed
  IN  (v * exp_neg(e)) \div 2 ^ e

\* value * decay + sample * (1 - decay), with decay a power of one half.
Blend(v, s, recorded_at, now_ms) ==
  LET whole == 2 ^ Cutoff
      decay == Aged(whole, recorded_at, now_ms)
  IN  (v * decay + s * (whole - decay)) \div whole

peak_ewma_step(wd, s, now_ms) ==
  [est |-> IF wd = Unset \/ Aged(wd.est, wd.at, now_ms) < s THEN s
           ELSE Clamp(Blend(wd.est, s, wd.at, now_ms)),
   at |-> now_ms]

\* A worker refreshes its cached clock once per turn, never backwards.
Refresh(w) ==
  /\ clock[w] < now
  /\ pc[w] = "idle"
  /\ clock' = [clock EXCEPT ![w] = now]
  /\ UNCHANGED <<word, pc, cur, rtt, now, seed, worst, records>>

RecordLoad(w, x) ==
  /\ pc[w] = "idle" /\ records < MaxRecords
  /\ cur' = [cur EXCEPT ![w] = cost]
  /\ rtt' = [rtt EXCEPT ![w] = Finite(x, Default)]
  /\ pc' = [pc EXCEPT ![w] = "first"]
  /\ worst' = Max({worst, rtt'[w]})
  /\ records' = records + 1
  /\ UNCHANGED <<word, clock, now, seed>>

\* A second failure drops the sample; a weak exchange may fail for no reason.
RecordCas(w) ==
  /\ pc[w] \in {"first", "second"}
  /\ \/ /\ cost = cur[w]
        /\ cost' = peak_ewma_step(cur[w], rtt[w], clock[w] % Wrap)
        /\ at' = clock[w]
        /\ pc' = [pc EXCEPT ![w] = "idle"]
        /\ UNCHANGED cur
     \/ /\ cur' = [cur EXCEPT ![w] = cost]
        /\ pc' = [pc EXCEPT ![w] = IF pc[w] = "first" THEN "second" ELSE "idle"]
        /\ UNCHANGED word
  /\ UNCHANGED <<rtt, clock, now, seed, worst, records>>

SeedCheck ==
  /\ ~seed /\ cost = Unset
  /\ seed' = TRUE
  /\ UNCHANGED <<word, pc, cur, rtt, clock, now, worst, records>>

\* One strong exchange from zero; losing it means someone else has estimated.
SeedCas(x) ==
  /\ seed /\ seed' = FALSE
  /\ IF cost = Unset
     THEN /\ cost' = [est |-> Finite(x, 1), at |-> now % Wrap]
          /\ at' = now /\ worst' = Max({worst, cost'.est})
     ELSE UNCHANGED <<word, worst>>
  /\ UNCHANGED <<pc, cur, rtt, clock, now, records>>

Tick ==
  /\ now < MaxTime
  /\ now' = now + 1
  /\ UNCHANGED <<word, pc, cur, rtt, clock, seed, worst, records>>

Next ==
  \/ Tick \/ SeedCheck
  \/ \E x \in Samples : SeedCas(x)
  \/ \E w \in Workers : \/ Refresh(w) \/ RecordCas(w)
                        \/ \E x \in Samples : RecordLoad(w, x)

-----------------------------------------------------------------------------
TypeOK ==
  /\ cost = Unset \/ cost \in [est : MinRtt .. MaxRtt, at : 0 .. Wrap - 1]
  /\ pc \in [Workers -> {"idle", "first", "second"}]
  /\ rtt \in [Workers -> MinRtt .. MaxRtt]
  /\ clock \in [Workers -> 0 .. now] /\ now \in 0 .. MaxTime

\* The estimate never exceeds the worst cost ever offered, so no blend, clamp
\* or lagging clock makes an endpoint look slower than it has been.
NeverAboveWorst == cost.est <= worst

Committed(w) == pc[w] # "idle" /\ pc'[w] = "idle" /\ cost' # cost

\* A sample that lands is never hidden: the estimate right after it is at
\* least the sample, whatever was recorded in between.
SpikeRegisters == \A w \in Workers : Committed(w) => cost'.est >= rtt[w]

\* A sample stamped by a clock that lags behind the word never erodes the
\* estimate: an apparent step back in time is not a long time forward.
LagNeverErodes ==
  \A w \in Workers :
    Committed(w) /\ cost # Unset /\ clock[w] <= at /\ at - clock[w] < Wrap \div 2
      => cost'.est >= cost.est

\* Seeding never replaces an estimate, even one recorded after its check.
SeedNeverOverwrites == seed /\ ~seed' /\ cost # Unset => cost' = cost
==============================================================================
