-------------------- MODULE MCConn -------------------------------------------
(* The per-connection resources: the in-flight gauge, the body-buffer     *)
(* budget, the frame budget, the chunk pool and the per-core slots, each  *)
(* with its small instance.  They share no state: in a behaviour one part *)
(* moves and the others stay as they started.                             *)
EXTENDS Integers

VARIABLES
  part,
  inflight, unsettled, pc, cur, tries, cancel, told, orphans,
  outstanding, decls, body_route, body_pc, seen, body_tries, lease,
  tokens, last_refill_ms, concurrent_proto, time, spent, spilled, streams,
  now, free, hwm_free, last_decay, alive, pool_pc, hand, live,
  pool_outstanding, allocations, over_cap_releases, shrunk, age,
  slots, install_ok, next_index, core, counter, rng_state, mono_ms, cores_pc,
  reg, cores_now, bumps, drawn

Tasks == {"t1", "t2"}
Three == Tasks \cup {"t3"}
Chunks == {"c1", "c2"}

Feature(k, n, e) == [kind |-> k, n |-> n, on_exceed |-> e]
FewFeatures ==
  {Feature("window", 2, "stream_through"), Feature("whole", 3, "reject_413")}
Features ==
  {Feature("window", 2, "stream_through"), Feature("whole", 2, "stream_through"),
   Feature("window", 3, "stream_through"), Feature("whole", 1, "reject_413"),
   Feature("none", 0, "reject_413"), Feature("none", 0, "stream_through")}

gauge ==
  <<inflight, unsettled, pc, cur, tries, cancel, told, orphans>>
Gauge == INSTANCE InflightGauge WITH
  Max <- 1, RetryLimit <- 2, MaxUnsettled <- 1

body ==
  <<outstanding, decls, body_route, body_pc, seen, body_tries, lease>>
Body == INSTANCE BodyBuf WITH
  Features <- FewFeatures, Requests <- Three, Total <- 4, Word <- 4,
  RetryLimit <- 2, route <- body_route, pc <- body_pc, tries <- body_tries

Route == INSTANCE BodyBuf WITH
  Features <- Features, Requests <- {"t1"}, Total <- 3, Word <- 4,
  RetryLimit <- 2, route <- body_route, pc <- body_pc, tries <- body_tries

budget ==
  <<tokens, last_refill_ms, concurrent_proto, time, spent, spilled, streams>>
Budget == INSTANCE ConnBudget WITH
  Capacity <- 4, Refill <- 3, Second <- 4, MaxElapsed <- 6, Wrap <- 8,
  MaxProto <- 2, Base <- 1, Extra <- [Ordinary |-> 0, HeadersOpen |-> 2],
  MaxTime <- 18, MaxDebt <- 2

pool ==
  <<now, free, hwm_free, last_decay, alive, pool_pc, hand, live,
    pool_outstanding, allocations, over_cap_releases, shrunk, age>>
Pool == INSTANCE BufPool WITH
  Threads <- Tasks, Chunks <- Chunks \cup {"c3"}, Cap <- 2,
  DecayInterval <- 1, Wrap <- 4, MaxAllocations <- 3, pc <- pool_pc,
  outstanding <- pool_outstanding

cores ==
  <<slots, install_ok, next_index, core, counter, rng_state, mono_ms,
    cores_pc, reg, cores_now, bumps, drawn>>
Slots == INSTANCE CoreSlots WITH
  Threads <- Three, Cores <- 2, MaxBumps <- 1, MaxDraws <- 2, MaxTime <- 1,
  pc <- cores_pc, now <- cores_now

vars == <<part, gauge, body, budget, pool, cores>>

Init ==
  /\ part \in {"gauge", "body", "route", "budget", "pool", "cores"}
  /\ Gauge!Init
  /\ IF part = "route" THEN Route!Init ELSE Body!Init
  /\ Budget!Init /\ Pool!Init /\ Slots!Init

Next ==
  \/ part = "gauge" /\ Gauge!Next
     /\ UNCHANGED <<part, body, budget, pool, cores>>
  \/ part = "body" /\ Body!Next
     /\ UNCHANGED <<part, gauge, budget, pool, cores>>
  \/ part = "route" /\ Route!Next
     /\ UNCHANGED <<part, gauge, budget, pool, cores>>
  \/ part = "budget" /\ Budget!Next
     /\ UNCHANGED <<part, gauge, body, pool, cores>>
  \/ part = "pool" /\ Pool!Next
     /\ UNCHANGED <<part, gauge, body, budget, cores>>
  \/ part = "cores" /\ Slots!Next
     /\ UNCHANGED <<part, gauge, body, budget, pool>>

Spec == Init /\ [][Next]_vars

-----------------------------------------------------------------------------
\* InflightGauge: whatever order resets, settlements and drops come in, the
\* counter is exactly the slots alive, the exchanges running upstream exceed
\* max by no more than the drops the diagnostic counter reports (rule R2), a
\* cancellation is propagated at most once per slot, and admit takes effect
\* at one instant that justifies it (AdmissionPromise) or gives up after its
\* last retry.
GaugeSound ==
  [][part = "gauge" =>
       Gauge!GaugeSound]_vars

\* BodyBufPool and RouteBodyPolicy: leases never add up to more than the
\* budget, even at a budget of the whole machine word, the counter is exactly
\* the bytes leased, a lease covers the ceiling of its route, a refusal is
\* justified when it is made; combining declarations in any order gives what
\* all of them ask for, and a body passes uninspected only when every
\* inspecting feature would have let it pass.
BodySound ==
  [][/\ part = "body" => Body!TypeOK /\ Body!NeverOverCommits /\ Body!PoolBalanced
                         /\ Body!LeaseCoversCeiling /\ Body!RefusalJustified
     /\ part = "route" => Route!FailsClosed /\ Route!RouteIsJoin]_vars


\* BufPool: a chunk is in one guard, in one free list or on its way, so two
\* connections never read into the same memory; no list passes its cap, the
\* counters account for every chunk, and a decay is due across the wrap of
\* the clock.
PoolSound ==
  part = "pool" =>
       Pool!PoolSound

=============================================================================
