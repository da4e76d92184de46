-------------------- MODULE MCUpstream ---------------------------------------
(* The upstream side: the endpoint registry, an endpoint's in-flight      *)
(* counter under relaxed and under sequentially consistent loads, its     *)
(* latency estimate, and the two-choice pick over them.  In a behaviour   *)
(* one part moves and the others stay as they started.                    *)
EXTENDS Integers, Sequences

VARIABLES
  part,
  states, generation, index, keys, retired, next_free, interned,
  retired_total, result, now, published, held, retiredAt,
  inflight, relaxed_generation, pending, tenant, pc, gen_at_acquire, current,
  epoch, charged_in, checked, charges, strays,
  cost, ewma_pc, cur, rtt, clock, ewma_now, seed, at, worst, records,
  slice, pick_inflight, tried, picked, given

Identities == {"a", "b", "long"}
Requests == {"q1", "q2"}
NaN == 0 - 1
Locals == 1 .. 4
Slices == {<<>>, <<2>>, <<3, 1, 2>>, <<4, 2, 1>>}
Weight == [l \in Locals |-> IF l = 2 THEN 2 ELSE 1]
Rtt == [l \in Locals |-> IF l = 3 THEN 4 ELSE 2]

registry ==
  <<states, generation, index, keys, retired, next_free, interned,
    retired_total, result, now, published, held, retiredAt>>
Registry == INSTANCE EndpointRegistry WITH
  Oversized <- {"long"}, Capacity <- 2, GraceMs <- 1, GraceGens <- 1,
  Batch <- 2, Wrap <- 3, MaxTime <- 4, MaxGen <- 2, MaxInterns <- 3,
  MaxHeld <- 1

relaxed ==
  <<inflight, relaxed_generation, pending, tenant, pc, gen_at_acquire,
    current, epoch, charged_in, checked, charges, strays>>
Stats == INSTANCE EndpointStats WITH
  Relaxed <- TRUE, MaxResets <- 2, MaxCharges <- 3,
  generation <- relaxed_generation

Ordered == INSTANCE EndpointStats WITH
  Relaxed <- FALSE, MaxResets <- 2, MaxCharges <- 3,
  generation <- relaxed_generation

ewma ==
  <<cost, ewma_pc, cur, rtt, clock, ewma_now, seed, at, worst, records>>
Ewma == INSTANCE PeakEwma WITH
  Workers <- {"w1", "w2"}, Samples <- {0, 3, 9, NaN}, Default <- 5,
  MinRtt <- 1, MaxRtt <- 8, Cutoff <- 3, Wrap <- 6, MaxTime <- 3,
  MaxRecords <- 2, pc <- ewma_pc, now <- ewma_now

pick ==
  <<slice, pick_inflight, tried, picked, given>>
Pick == INSTANCE P2C WITH
  Broken <- {4}, Width <- 2, MaxExclude <- 2, MaxRequests <- 2, MaxLoad <- 2,
  inflight <- pick_inflight

vars == <<part, registry, relaxed, ewma, pick>>

Init ==
  /\ part \in {"registry", "relaxed", "ordered", "ewma", "pick"}
  /\ Registry!Init
  /\ IF part = "ordered" THEN Ordered!Init ELSE Stats!Init
  /\ Ewma!Init /\ Pick!Init
  /\ part # "pick" => slice = <<>>

Next ==
  \/ part = "registry" /\ Registry!Next
     /\ UNCHANGED <<part, relaxed, ewma, pick>>
  \/ part = "relaxed" /\ Stats!Next
     /\ UNCHANGED <<part, registry, ewma, pick>>
  \/ part = "ordered" /\ Ordered!Next
     /\ UNCHANGED <<part, registry, ewma, pick>>
  \/ part = "ewma" /\ Ewma!Next
     /\ UNCHANGED <<part, registry, relaxed, pick>>
  \/ part = "pick" /\ Pick!Next
     /\ UNCHANGED <<part, registry, relaxed, ewma>>

Spec == Init /\ [][Next]_vars

-----------------------------------------------------------------------------
\* EndpointRegistry: index and keys are inverse over exactly the live slots
\* and the queue names every retired slot once; a slot number a reader
\* resolved means the same endpoint until both graces have run out, and a
\* token that still matches never names someone else; intern refuses for want
\* of room only when no slot is free, and a recycle that frees fewer than a
\* batch leaves nothing eligible behind.
RegistrySound ==
  [][part = "registry" =>
       Registry!TypeOK /\ Registry!SlabConsistent /\
       Registry!GraceKeepsMeaning /\ Registry!TokenNamesOneEndpoint /\
       Registry!FullMeansFull /\ Registry!StopsAtNothingEligible]_vars

\* EndpointStats and InFlightGuard: the counter never wraps below zero and
\* drifts only by operations that crossed a reset; a release lowers a tenant
\* that never charged it only when a reset came inside the acquire or inside
\* the release itself.
ReleaseSound ==
  [][/\ part = "relaxed" => Stats!TypeOK /\ Stats!NeverUnderflows /\ Stats!DriftOnlyFromStrays
     /\ part = "ordered" => Ordered!OnlyRacesStray]_vars

\* EndpointStats latency word: the estimate never exceeds the worst sample, a
\* sample that lands is never hidden, a lagging clock never erodes the
\* estimate, and seeding never replaces one recorded after its check.
EstimateSound ==
  [][part = "ewma" =>
       Ewma!TypeOK /\ Ewma!NeverAboveWorst /\ Ewma!SpikeRegisters /\
       Ewma!LagNeverErodes /\ Ewma!SeedNeverOverwrites]_vars

\* P2C: sample_two yields every ordered pair of distinct indices and nothing
\* else; a retry never returns to an endpoint it has tried and fails only
\* when none is left; a first pick is never the one endpoint worse than all
\* others.
PickSound ==
  [][part = "pick" =>
       Pick!TypeOK /\ Pick!SampleTwoSound /\ Pick!RetryMovesOn /\
       Pick!NeverTheWorst /\ Pick!RetryFailsOnlyWhenExhausted]_vars
=============================================================================
