------------------------------ MODULE CoreSlots ------------------------------
(***************************************************************************)
(* Per-core state (irontraffic-runtime/src/core.rs) and the shared coarse  *)
(* clock cache in it (irontraffic-time/src/cache.rs).  Threads get a slot  *)
(* on first touch, round robin; inside a scope they update counters, the   *)
(* random stream and the cached clock with separate relaxed loads and      *)
(* stores, so two threads on one slot interleave between them.             *)
(***************************************************************************)
EXTENDS Integers, FiniteSets, FiniteSetsExt

CONSTANTS
  Threads,      \* threads that enter a scope
  Cores,        \* the count the binary installs
  MaxBumps,     \* bound: increments
  MaxDraws,     \* bound: random draws
  MaxTime       \* bound: readings of the clock

Unassigned == 0 - 1
NotInstalled == 0

VARIABLES
  slots,        \* slots in CORES, 0 before it is set
  install_ok,   \* what install returned, or "uncalled"
  next_index,   \* Cores.next_index
  core,         \* MY_CORE of each thread
  counter,      \* the counter of each slot
  rng_state,    \* the position of each slot's random stream
  mono_ms,      \* the cached clock of each slot
  pc, reg,      \* where each thread is in its scope, and what it has loaded
  now,          \* the clock
  bumps,        \* increments stored so far (history)
  drawn         \* stream positions each slot has handed out twice (history)

lvars == <<slots, install_ok, next_index, core, counter, rng_state, mono_ms,
           pc, reg, now, bumps, drawn>>
fields == <<counter, rng_state, mono_ms>>

Indices == 0 .. Max({Cores, 1}) - 1

Init ==
  /\ slots = NotInstalled /\ install_ok = "uncalled" /\ next_index = 0
  /\ core = [t \in Threads |-> Unassigned]
  /\ counter = [i \in Indices |-> 0]
  /\ rng_state = [i \in Indices |-> 0]
  /\ mono_ms = [i \in Indices |-> 0]
  /\ pc = [t \in Threads |-> "out"]
  /\ reg = [t \in Threads |-> 0]
  /\ now = 0 /\ bumps = 0
  /\ drawn = [i \in Indices |-> {}]

\* install: refuses zero cores and a second installation, lazy ones included.
install ==
  /\ install_ok = "uncalled"
  /\ IF Cores = 0 THEN install_ok' = "zero_cores" /\ UNCHANGED slots
     ELSE IF slots # NotInstalled THEN install_ok' = "already" /\ UNCHANGED slots
     ELSE install_ok' = "ok" /\ slots' = Cores
  /\ UNCHANGED <<next_index, core, fields, pc, reg, now, bumps, drawn>>

\* The first scope of a thread: a lazy one-slot array if none is installed.
assign_core_index(t) ==
  /\ core[t] = Unassigned
  /\ slots' = IF slots = NotInstalled THEN 1 ELSE slots
  /\ core' = [core EXCEPT ![t] = next_index % slots']
  /\ next_index' = next_index + 1
  /\ UNCHANGED <<install_ok, fields, pc, reg, now, bumps, drawn>>

Scope(t, at, next, value) ==
  /\ core[t] # Unassigned
  /\ pc[t] = at
  /\ pc' = [pc EXCEPT ![t] = next]
  /\ reg' = [reg EXCEPT ![t] = value]
  /\ UNCHANGED <<slots, install_ok, next_index, core>>

BumpLoad(t) ==
  /\ Scope(t, "out", "bump", counter[core[t]])
  /\ bumps + Cardinality({u \in Threads : pc[u] = "bump"}) < MaxBumps
  /\ UNCHANGED <<fields, now, bumps, drawn>>

BumpStore(t) ==
  /\ Scope(t, "bump", "out", 0)
  /\ counter' = [counter EXCEPT ![core[t]] = reg[t] + 1]
  /\ bumps' = bumps + 1
  /\ UNCHANGED <<rng_state, mono_ms, now, drawn>>

RandLoad(t) ==
  /\ Scope(t, "out", "rand", rng_state[core[t]])
  /\ rng_state[core[t]] < MaxDraws
  /\ UNCHANGED <<fields, now, bumps, drawn>>


\* The draw is a function of the state loaded; the store advances the stream.
RandStore(t) ==
  /\ Scope(t, "rand", "out", 0)
  /\ rng_state' = [rng_state EXCEPT ![core[t]] = reg[t] + 1]
  /\ drawn' = [drawn EXCEPT ![core[t]] =
       @ \cup {IF reg[t] \in @ THEN Unassigned ELSE reg[t]}]
  /\ UNCHANGED <<counter, mono_ms, now, bumps>>

\* AtomicCoarseCache::refresh reads the clock, then stores what it read.
RefreshRead(t) ==
  /\ Scope(t, "out", "refresh", now)
  /\ UNCHANGED <<fields, now, bumps, drawn>>

RefreshStore(t) ==
  /\ Scope(t, "refresh", "out", 0)
  /\ mono_ms' = [mono_ms EXCEPT ![core[t]] = reg[t]]
  /\ UNCHANGED <<counter, rng_state, now, bumps, drawn>>

Tick ==
  /\ now < MaxTime
  /\ now' = now + 1
  /\ UNCHANGED <<slots, install_ok, next_index, core, fields, pc, reg, bumps, drawn>>

Next ==
  \/ install \/ Tick
  \/ \E t \in Threads : \/ assign_core_index(t)
                        \/ BumpLoad(t) \/ BumpStore(t)
                        \/ RandLoad(t) \/ RandStore(t)
                        \/ RefreshRead(t) \/ RefreshStore(t)

-----------------------------------------------------------------------------
TypeOK ==
  /\ slots \in 0 .. Max({Cores, 1})
  /\ install_ok \in {"uncalled", "ok", "already", "zero_cores"}
  /\ next_index \in Nat
  /\ core \in [Threads -> Indices \cup {Unassigned}]
  /\ counter \in [Indices -> Nat] /\ rng_state \in [Indices -> Nat]
  /\ mono_ms \in [Indices -> 0 .. MaxTime]
  /\ pc \in [Threads -> {"out", "bump", "rand", "refresh"}]
  /\ reg \in [Threads -> Nat]
  /\ now \in 0 .. MaxTime /\ bumps \in Nat

Assigned == {t \in Threads : core[t] # Unassigned}

\* snapshot sums the slots.
snapshot == MapThenSumSet(LAMBDA i : counter[i], Indices)

Private(i) == Cardinality({t \in Threads : core[t] = i}) <= 1

\* As many threads as were installed slots never share one: if install came
\* first and succeeded, the first Cores threads each have a slot of their own.
DistinctSlots ==
  install_ok = "ok" /\ Cardinality(Assigned) <= Cores => \A i \in Indices : Private(i)

\* A counter total never overstates: lost updates only lose.
NeverOverstates == snapshot <= bumps

\* While no slot is shared nothing is lost and no random value is handed out
\* twice; sharing is the only way to lose an increment or repeat a draw.
PrivateIsExact ==
  (\A i \in Indices : Private(i)) =>
     /\ snapshot = bumps
     /\ \A i \in Indices : Unassigned \notin drawn[i]

\* The clock a private slot caches never runs backwards.
PrivateClockForward ==
  \A i \in Indices : mono_ms'[i] < mono_ms[i] => ~Private(i)
==============================================================================
