------------------------------- MODULE BufPool -------------------------------
(***************************************************************************)
(* The per-worker pools of read buffers (irontraffic-io/src/buffer.rs) and *)
(* the event-loop turn that shrinks them (turn_tick of                     *)
(* irontraffic-runtime/src/core.rs).  A buffer may be dropped on another   *)
(* thread than the one that acquired it; its chunk joins the pool of the   *)
(* dropping thread.  The coarse clock wraps.                               *)
(***************************************************************************)
EXTENDS Integers, FiniteSets, FiniteSetsExt, FiniteSetTheorems, TLAPS

CONSTANTS
  Threads,          \* threads with a pool of their own
  Chunks,           \* chunk identities the allocator can give out
  Cap,              \* DEFAULT_POOL_CHUNKS
  DecayInterval,    \* DECAY_INTERVAL_MS
  Wrap,             \* the modulus of CoarseMono (2^32 in the source)
  MaxAllocations    \* bound: chunks taken from the allocator

VARIABLES
  now,              \* the coarse monotonic clock
  free,             \* BufPool.free of each thread
  hwm_free,         \* BufPool.hwm_free
  last_decay,       \* BufPool.last_decay
  alive,            \* threads whose thread-local pool still exists
  pc, hand,         \* inside acquire or drop, and the chunk being moved ({} when none)
  live,             \* chunks inside a PooledBuf
  outstanding, allocations, over_cap_releases,  \* the process-wide counters
  shrunk,           \* chunks freed with the pool or by decay (history)
  age               \* real ticks since the pool last decayed (history, up to Wrap)

counters == <<outstanding, allocations, over_cap_releases>>
history == <<shrunk, age>>
pools == <<free, hwm_free, last_decay>>
pvars == <<now, pools, alive, pc, hand, live, counters, history>>

PoolCap == Max({Cap, 1})
Threshold == PoolCap \div 2

Hands == UNION {hand[t] : t \in Threads}
InUse == live \cup Hands \cup UNION {free[t] : t \in Threads}

\* CoarseMono::reached and saturating_add_ms, which wraps.
reached(n, deadline) == (n - deadline) % Wrap < Wrap \div 2
saturating_add_ms(n, ms) == (n + ms) % Wrap

-----------------------------------------------------------------------------
Init ==
  /\ now = 0
  /\ free = [t \in Threads |-> {}]
  /\ hwm_free = [t \in Threads |-> 0]
  /\ last_decay = [t \in Threads |-> 0]
  /\ alive = Threads
  /\ pc = [t \in Threads |-> "idle"]
  /\ hand = [t \in Threads |-> {}]
  /\ live = {}
  /\ outstanding = 0 /\ allocations = 0 /\ over_cap_releases = 0
  /\ shrunk = 0
  /\ age = [t \in Threads |-> 0]

Holds(t, where, cs) ==
  /\ pc' = [pc EXCEPT ![t] = where]
  /\ hand' = [hand EXCEPT ![t] = cs]

\* The allocator's answer; which memory it picks does not matter.
Fresh == IF Chunks \subseteq InUse THEN {} ELSE {CHOOSE c \in Chunks : c \notin InUse}

TakeShares(t) ==
  /\ pc[t] = "idle" /\ t \in alive
  /\ \E c \in IF free[t] # {} THEN free[t] ELSE Fresh :
       /\ Holds(t, "acquire", {c})
  /\ allocations' = IF free[t] = {} THEN allocations + 1 ELSE allocations
  /\ allocations' <= MaxAllocations
  /\ UNCHANGED <<now, pools, alive, live, outstanding, over_cap_releases, history>>

\* BufPool::take: a pooled chunk if there is one, else a fresh one.
Take(t) ==
  /\ pc[t] = "idle" /\ t \in alive
  /\ \E c \in IF free[t] # {} THEN free[t] ELSE Fresh :
       /\ free' = [free EXCEPT ![t] = @ \ {c}]
       /\ Holds(t, "acquire", {c})
  /\ allocations' = IF free[t] = {} THEN allocations + 1 ELSE allocations
  /\ allocations' <= MaxAllocations
  /\ UNCHANGED <<now, hwm_free, last_decay, alive, live, outstanding, over_cap_releases, shrunk, age>>

\* The rest of acquire: the balance, then the guard.
Acquired(t) ==
  /\ pc[t] = "acquire"
  /\ outstanding' = outstanding + 1
  /\ live' = live \cup hand[t]
  /\ Holds(t, "idle", {})
  /\ UNCHANGED <<now, pools, alive, allocations, over_cap_releases, history>>

Drop(t, c) ==
  /\ pc[t] = "idle" /\ c \in live
  /\ outstanding' = outstanding - 1
  /\ live' = live \ {c}
  /\ Holds(t, "drop", {c})
  /\ UNCHANGED <<now, pools, alive, allocations, over_cap_releases, history>>

\* BufPool::give keeps the chunk unless the pool is full; a thread whose pool
\* is already destroyed frees it and counts it the same way.
Give(t) ==
  /\ pc[t] = "drop"
  /\ IF t \in alive /\ Cardinality(free[t]) < PoolCap
       THEN /\ free' = [free EXCEPT ![t] = @ \cup hand[t]]
            /\ hwm_free' = [hwm_free EXCEPT ![t] = Max({@, Cardinality(free[t]) + 1})]
            /\ UNCHANGED over_cap_releases
       ELSE /\ over_cap_releases' = over_cap_releases + 1
            /\ UNCHANGED <<free, hwm_free>>
  /\ Holds(t, "idle", {})
  /\ UNCHANGED <<now, last_decay, alive, live, outstanding, allocations, shrunk, age>>

Due(t) == reached(now, saturating_add_ms(last_decay[t], DecayInterval))

\* truncate(len / 2), when the list was above half of the cap since last time.
Kept(t) ==
  IF hwm_free[t] > Threshold THEN Cardinality(free[t]) \div 2 ELSE Cardinality(free[t])

\* turn_tick and maybe_decay on the calling thread's pool.
turn_tick(t) ==
  /\ pc[t] = "idle" /\ t \in alive
  /\ Due(t)
  /\ last_decay' = [last_decay EXCEPT ![t] = now]
  /\ \E kept \in kSubset(Kept(t), free[t]) :
       /\ free' = [free EXCEPT ![t] = kept]
       /\ hwm_free' = [hwm_free EXCEPT ![t] = Cardinality(kept)]
       /\ shrunk' = shrunk + Cardinality(free[t]) - Cardinality(kept)
  /\ age' = [age EXCEPT ![t] = 0]
  /\ UNCHANGED <<now, alive, pc, hand, live, counters>>

\* The thread ends and its thread-local pool is destroyed.
Exit(t) ==
  /\ pc[t] = "idle" /\ t \in alive
  /\ alive' = alive \ {t}
  /\ free' = [free EXCEPT ![t] = {}]
  /\ hwm_free' = [hwm_free EXCEPT ![t] = 0]
  /\ last_decay' = [last_decay EXCEPT ![t] = 0]
  /\ shrunk' = shrunk + Cardinality(free[t])
  /\ age' = [age EXCEPT ![t] = 0]
  /\ UNCHANGED <<now, pc, hand, live, counters>>

Tick ==
  /\ now' = (now + 1) % Wrap
  /\ age' = [t \in Threads |-> IF t \in alive /\ age[t] < Wrap THEN age[t] + 1 ELSE age[t]]
  /\ UNCHANGED <<pools, alive, pc, hand, live, counters, shrunk>>

Next ==
  \/ Tick
  \/ \E t \in Threads : \/ Take(t) \/ Acquired(t) \/ Give(t)
                        \/ turn_tick(t) \/ Exit(t)
                        \/ \E c \in Chunks : Drop(t, c)

Spec == Init /\ [][Next]_pvars

-----------------------------------------------------------------------------
TypeOK ==
  /\ now \in 0 .. Wrap - 1 /\ alive \subseteq Threads /\ live \subseteq Chunks
  /\ free \in [Threads -> SUBSET Chunks]
  /\ hwm_free \in [Threads -> 0 .. PoolCap]
  /\ last_decay \in [Threads -> 0 .. Wrap - 1]
  /\ pc \in [Threads -> {"idle", "acquire", "drop"}]
  /\ hand \in [Threads -> SUBSET Chunks]
  /\ outstanding \in Nat /\ allocations \in Nat /\ over_cap_releases \in Nat
  /\ shrunk \in Nat /\ age \in [Threads -> 0 .. Wrap]

\* A chunk is in one place only: in one guard, in one free list, or on its way.
\* Two connections never read into the same memory, whichever threads their
\* buffers were acquired and dropped on.
OneOwner ==
  \A t \in Threads :
    /\ free[t] \cap (live \cup Hands) = {}
    /\ hand[t] \cap live = {}
    /\ \A u \in Threads \ {t} : /\ free[t] \cap free[u] = {}
                                /\ hand[t] \cap hand[u] = {}

\* The balance is exactly the guards alive and never wraps below zero, and the
\* counters account for every chunk: what was allocated is in a guard, in
\* flight, in a pool, or was freed and counted.
ChunksAccounted ==
  /\ outstanding = Cardinality(live)
  /\ allocations = Cardinality(InUse) + over_cap_releases + shrunk

\* A free list never grows past the cap, however buffers migrate between threads.
FreeBounded == \A t \in Threads : Cardinality(free[t]) <= PoolCap

\* A turn taken within half the clock's modulus of its due time shrinks a pool
\* that was above the threshold; the wrapping clock never skips it.
DecayWhenDue ==
  \A t \in alive : age[t] >= DecayInterval /\ age[t] < DecayInterval + Wrap \div 2 => Due(t)

\* What BufPool promises of its chunks, its counters and its decay.
PoolSound == FreeBounded /\ TypeOK /\ OneOwner /\ ChunksAccounted /\ DecayWhenDue

-----------------------------------------------------------------------------
(***************************************************************************)
(* PoolSound for any number of threads, any memory, every cap and every    *)
(* clock modulus of at least twice the interval.                           *)
(***************************************************************************)

\* Memory is finite; DECAY_INTERVAL_MS is less than half the clock's modulus.
Configured ==
  /\ IsFiniteSet(Chunks)
  /\ Cap \in Nat /\ Wrap \in Nat \ {0}
  /\ DecayInterval \in Nat /\ 2 * DecayInterval <= Wrap /\ DecayInterval < Wrap

\* What the ownership rests on: a thread between two atomic steps has exactly
\* one chunk in hand.
InHand ==
  \A t \in Threads : IF pc[t] = "idle" THEN hand[t] = {} ELSE \E c \in Chunks : hand[t] = {c}

\* The wrapping clock is as far from the last decay as real time is, until a
\* whole turn of it has passed.
ClockTells ==
  \A t \in alive : age[t] < Wrap =>
    now = last_decay[t] + age[t] \/ now = last_decay[t] + age[t] - Wrap

\* Ownership, chunk by chunk.
Apart ==
  \A c :
    /\ \A t, u \in Threads : c \in free[t] => c \notin live /\ c \notin hand[u]
    /\ \A t \in Threads : c \in hand[t] => c \notin live
    /\ \A t, u \in Threads : c \in free[t] /\ c \in free[u] => t = u
    /\ \A t, u \in Threads : c \in hand[t] /\ c \in hand[u] => t = u

PoolInv ==
  FreeBounded /\ TypeOK /\ Apart /\ ChunksAccounted /\ InHand /\ ClockTells

\* The larger of two numbers.
LEMMA MaxOfTwo ==
  ASSUME NEW a \in Int, NEW b \in Int
  PROVE  Max({a, b}) = IF a >= b THEN a ELSE b
  BY DEF Max

\* A pool keeps at least one chunk.
LEMMA CapPositive ==
  ASSUME Configured
  PROVE  PoolCap \in Nat \ {0}
  BY MaxOfTwo DEF PoolCap, Configured

\* What a chunk in use means.
LEMMA Used ==
  \A c : c \in InUse <=> \/ c \in live
                         \/ \E t \in Threads : c \in hand[t]
                         \/ \E t \in Threads : c \in free[t]
  BY Zenon DEF InUse, Hands

\* It says the same as OneOwner.
LEMMA OwnerIsApart == OneOwner <=> Apart
<1>1. OneOwner => Apart
  BY Zenon DEF OneOwner, Apart, Hands
<1>2. Apart => OneOwner
  <2> SUFFICES ASSUME Apart, NEW t \in Threads
               PROVE  /\ free[t] \cap (live \cup Hands) = {}
                      /\ hand[t] \cap live = {}
                      /\ \A u \in Threads \ {t} : /\ free[t] \cap free[u] = {}
                                                  /\ hand[t] \cap hand[u] = {}
    BY Zenon DEF OneOwner
  <2>1. free[t] \cap (live \cup Hands) = {}
    BY Zenon DEF Apart, Hands
  <2>2. hand[t] \cap live = {}
    BY Zenon DEF Apart
  <2>3. \A u \in Threads \ {t} : free[t] \cap free[u] = {}
    BY Zenon DEF Apart
  <2>4. \A u \in Threads \ {t} : hand[t] \cap hand[u] = {}
    BY Zenon DEF Apart
  <2> QED
    BY <2>1, <2>2, <2>3, <2>4, Zenon
<1> QED
  BY <1>1, <1>2, Zenon

\* The parts are finite and the counts are numbers.
LEMMA PartsFinite ==
  ASSUME Configured, TypeOK
  PROVE  /\ InUse \subseteq Chunks
         /\ IsFiniteSet(InUse) /\ Cardinality(InUse) \in Nat
         /\ IsFiniteSet(live) /\ Cardinality(live) \in Nat
         /\ \A t \in Threads : IsFiniteSet(free[t]) /\ Cardinality(free[t]) \in Nat
<1>1. IsFiniteSet(Chunks)
  BY Zenon DEF Configured
<1>2. live \in SUBSET Chunks /\ \A t \in Threads : free[t] \in SUBSET Chunks
                                                   /\ hand[t] \in SUBSET Chunks
  BY DEF TypeOK
<1>3. InUse \in SUBSET Chunks
  BY <1>2, Used, Zenon
<1>4. \A S \in SUBSET Chunks : IsFiniteSet(S) /\ Cardinality(S) \in Nat
  BY <1>1, FS_Subset, FS_CardinalityType
<1> QED
  BY <1>2, <1>3, <1>4, Zenon

\* Every pool starts empty.
LEMMA Opening ==
  ASSUME Configured, Init
  PROVE  PoolInv
<1>1. TypeOK
  BY CapPositive DEF Init, TypeOK, Configured
<1>2. InUse = {} /\ live = {}
  BY Used, Zenon DEF Init
<1>3. ChunksAccounted
  BY <1>2, FS_EmptySet DEF ChunksAccounted, Init
<1>4. FreeBounded
  BY FS_EmptySet, CapPositive DEF FreeBounded, Init
<1>5. Apart /\ InHand
  BY DEF Apart, InHand, Init
<1>6. ClockTells
  BY DEF ClockTells, Init, Configured
<1> QED
  BY <1>1, <1>3, <1>4, <1>5, <1>6, Zenon DEF PoolInv

\* What a decay keeps is a part of the list, and no more of it than there was.
LEMMA KeptFits ==
  ASSUME Configured, TypeOK, NEW t \in Threads, NEW kept \in kSubset(Kept(t), free[t])
  PROVE  /\ kept \subseteq free[t] /\ Cardinality(kept) \in Nat
         /\ Cardinality(kept) <= Cardinality(free[t])
<1>1. kept \in SUBSET free[t]
  BY Zenon DEF kSubset
<1>2. IsFiniteSet(free[t])
  BY PartsFinite, Zenon
<1> QED
  BY <1>1, <1>2, FS_Subset, FS_CardinalityType

\* The allocator gives out memory that is nowhere in use.
LEMMA FreshIsUnused ==
  ASSUME NEW c \in Fresh
  PROVE  c \in Chunks /\ c \notin InUse
<1>1. \E d \in Chunks : d \notin InUse
  BY Zenon DEF Fresh
<1>2. c = CHOOSE d \in Chunks : d \notin InUse
  BY Zenon DEF Fresh
<1> QED
  BY <1>1, <1>2, Zenon

\* The variables keep their types.
LEMMA TypeStep ==
  ASSUME Configured, PoolInv, [Next]_pvars
  PROVE  TypeOK'
<1> USE DEF Holds, pools, counters, history
<1>0. TypeOK /\ FreeBounded /\ ChunksAccounted
  BY Zenon DEF PoolInv
<1>a. PoolCap \in Nat \ {0} /\ Wrap \in Nat \ {0}
  BY CapPositive, Zenon DEF Configured
<1>b. /\ IsFiniteSet(live)
      /\ \A t \in Threads : Cardinality(free[t]) \in 0 .. PoolCap
  BY <1>0, <1>a, PartsFinite DEF FreeBounded
<1>1. ASSUME NEW t \in Threads, Take(t)
      PROVE  TypeOK'
  <2>1. PICK c \in IF free[t] # {} THEN free[t] ELSE Fresh :
           free' = [free EXCEPT ![t] = @ \ {c}] /\ Holds(t, "acquire", {c})
    BY <1>1, Zenon DEF Take
  <2>2. c \in Chunks
    BY <1>0, <2>1, FreshIsUnused DEF TypeOK
  <2> QED
    BY <1>0, <1>1, <2>1, <2>2 DEF TypeOK, Take
<1>2. ASSUME NEW t \in Threads, Acquired(t)
      PROVE  TypeOK'
  BY <1>0, <1>2 DEF TypeOK, Acquired
<1>3. ASSUME NEW t \in Threads, NEW c \in Chunks, Drop(t, c)
      PROVE  TypeOK'
  <2>1. Cardinality(live) # 0
    BY <1>b, <1>3, FS_EmptySet DEF Drop
  <2>2. outstanding' \in Nat
    BY <1>0, <1>3, <2>1 DEF TypeOK, ChunksAccounted, Drop
  <2> QED
    BY <1>0, <1>3, <2>2 DEF TypeOK, Drop
<1>4. ASSUME NEW t \in Threads, Give(t)
      PROVE  TypeOK'
  <2>1. hwm_free' \in [Threads -> 0 .. PoolCap]
    <3> DEFINE grown == Cardinality(free[t]) + 1
    <3>1. CASE t \in alive /\ Cardinality(free[t]) < PoolCap
      <4>1. grown \in 0 .. PoolCap
        BY <1>a, <1>b, <3>1
      <4>2. hwm_free' = [hwm_free EXCEPT ![t] = Max({hwm_free[t], grown})]
        BY <1>4, <3>1, Zenon DEF Give
      <4>3. hwm_free[t] \in 0 .. PoolCap
        BY <1>0, Zenon DEF TypeOK
      <4> HIDE DEF grown
      <4>4. Max({hwm_free[t], grown}) \in 0 .. PoolCap
        BY <1>a, <4>1, <4>3, MaxOfTwo
      <4> QED
        BY <1>0, <4>2, <4>4, Zenon DEF TypeOK
    <3>2. CASE ~(t \in alive /\ Cardinality(free[t]) < PoolCap)
      BY <1>0, <1>4, <3>2, Zenon DEF TypeOK, Give
    <3> QED
      BY <3>1, <3>2, Zenon
  <2>2. free' \in [Threads -> SUBSET Chunks] /\ over_cap_releases' \in Nat
    BY <1>0, <1>4 DEF TypeOK, Give
  <2> QED
    BY <1>0, <1>4, <2>1, <2>2, Zenon DEF TypeOK, Give
<1>5. ASSUME NEW t \in Threads, turn_tick(t)
      PROVE  TypeOK'
  <2>1. PICK kept \in kSubset(Kept(t), free[t]) :
          /\ free' = [free EXCEPT ![t] = kept]
          /\ hwm_free' = [hwm_free EXCEPT ![t] = Cardinality(kept)]
          /\ shrunk' = shrunk + Cardinality(free[t]) - Cardinality(kept)
    BY <1>5, Zenon DEF turn_tick
  <2>2. /\ kept \subseteq free[t] /\ Cardinality(kept) \in Nat
        /\ Cardinality(kept) <= Cardinality(free[t])
    BY <1>0, KeptFits, Zenon
  <2>3. shrunk' \in Nat /\ Cardinality(kept) \in 0 .. PoolCap
    BY <1>0, <1>a, <1>b, <2>1, <2>2 DEF TypeOK
  <2>4. free' \in [Threads -> SUBSET Chunks]
    BY <1>0, <2>1, <2>2 DEF TypeOK
  <2> QED
    BY <1>0, <1>a, <1>5, <2>1, <2>3, <2>4 DEF TypeOK, turn_tick
<1>6. ASSUME NEW t \in Threads, Exit(t)
      PROVE  TypeOK'
  BY <1>0, <1>a, <1>b, <1>6 DEF TypeOK, Exit
<1>7. CASE Tick
  BY <1>0, <1>a, <1>7 DEF TypeOK, Tick
<1>8. CASE UNCHANGED pvars
  BY <1>0, <1>8 DEF TypeOK, pvars
<1> QED
  BY <1>1, <1>2, <1>3, <1>4, <1>5, <1>6, <1>7, <1>8, Zenon DEF Next

\* A thread has one chunk in hand between its two steps, and none otherwise.
LEMMA HandStep ==
  ASSUME Configured, PoolInv, [Next]_pvars
  PROVE  InHand'
<1> USE DEF Holds, pools, counters, history
<1>0. TypeOK /\ InHand
  BY Zenon DEF PoolInv
<1>1. ASSUME NEW t \in Threads, Take(t)
      PROVE  InHand'
  <2>1. PICK c \in IF free[t] # {} THEN free[t] ELSE Fresh : Holds(t, "acquire", {c})
    BY <1>1, Zenon DEF Take
  <2>2. c \in Chunks
    BY <1>0, <2>1, FreshIsUnused DEF TypeOK
  <2> QED
    BY <1>0, <2>1, <2>2 DEF TypeOK, InHand
<1>2. ASSUME NEW t \in Threads, Acquired(t) \/ Give(t)
      PROVE  InHand'
  <2>1. Holds(t, "idle", {})
    BY <1>2, Zenon DEF Acquired, Give
  <2> QED
    BY <1>0, <2>1 DEF TypeOK, InHand
<1>3. ASSUME NEW t \in Threads, NEW c \in Chunks, Drop(t, c)
      PROVE  InHand'
  <2>1. Holds(t, "drop", {c})
    BY <1>3, Zenon DEF Drop
  <2> QED
    BY <1>0, <2>1 DEF TypeOK, InHand
<1>4. ASSUME UNCHANGED <<pc, hand>>
      PROVE  InHand'
  BY <1>0, <1>4, Zenon DEF InHand
<1>5. ASSUME NEW t \in Threads, turn_tick(t) \/ Exit(t)
      PROVE  UNCHANGED <<pc, hand>>
  BY <1>5, Zenon DEF turn_tick, Exit
<1>6. Tick \/ UNCHANGED pvars => UNCHANGED <<pc, hand>>
  BY Zenon DEF Tick, pvars
<1> QED
  BY <1>1, <1>2, <1>3, <1>4, <1>5, <1>6, Zenon DEF Next

\* A chunk stays in one place: each step moves it from where it was.
LEMMA ApartStep ==
  ASSUME Configured, PoolInv, [Next]_pvars
  PROVE  Apart'
<1> USE DEF Holds, pools, counters, history
<1>0. TypeOK /\ Apart /\ InHand
  BY Zenon DEF PoolInv
<1>a. DOMAIN free = Threads /\ DOMAIN hand = Threads
  BY <1>0, Zenon DEF TypeOK
<1>1. ASSUME NEW t \in Threads, Take(t)
      PROVE  Apart'
  <2>1. PICK c \in IF free[t] # {} THEN free[t] ELSE Fresh :
           free' = [free EXCEPT ![t] = @ \ {c}] /\ Holds(t, "acquire", {c})
    BY <1>1, Zenon DEF Take
  <2>2. c \notin live /\ \A u \in Threads : c \notin hand[u] /\ c \notin free'[u]
    <3>1. CASE c \in free[t]
      BY <1>0, <1>a, <2>1, <3>1 DEF Apart
    <3>2. CASE c \in Fresh /\ free[t] = {}
      BY <1>a, <2>1, <3>2, FreshIsUnused, Used
    <3> QED
      BY <2>1, <3>1, <3>2, Zenon
  <2>3. \A u \in Threads : free'[u] \subseteq free[u] /\ hand'[u] \subseteq hand[u] \cup {c}
    BY <1>a, <2>1
  <2>4. \A u \in Threads : u /= t => hand'[u] = hand[u]
    BY <1>a, <2>1
  <2>5. live' = live /\ hand'[t] = {c}
    BY <1>a, <1>1, <2>1 DEF Take
  <2> QED
    BY <1>0, <2>2, <2>3, <2>4, <2>5 DEF Apart
<1>2. ASSUME NEW t \in Threads, Acquired(t)
      PROVE  Apart'
  <2>1. /\ \A u \in Threads : u /= t => hand'[u] = hand[u]
        /\ hand'[t] = {} /\ free' = free /\ live' = live \cup hand[t]
    BY <1>a, <1>2 DEF Acquired
  <2> QED
    BY <1>0, <2>1 DEF Apart
<1>3. ASSUME NEW t \in Threads, NEW c \in Chunks, Drop(t, c)
      PROVE  Apart'
  <2>1. /\ \A u \in Threads : u /= t => hand'[u] = hand[u]
        /\ hand'[t] = {c} /\ free' = free /\ live' = live \ {c} /\ c \in live
    BY <1>a, <1>3 DEF Drop
  <2> QED
    BY <1>0, <2>1 DEF Apart
<1>4. ASSUME NEW t \in Threads, Give(t)
      PROVE  Apart'
  <2>1. /\ \A u \in Threads : u /= t => hand'[u] = hand[u] /\ free'[u] = free[u]
        /\ hand'[t] = {} /\ free'[t] \subseteq free[t] \cup hand[t] /\ live' = live
    BY <1>a, <1>4 DEF Give
  <2> QED
    BY <1>0, <2>1 DEF Apart
<1>5. ASSUME UNCHANGED <<live, hand>>, \A u \in Threads : free'[u] \subseteq free[u]
      PROVE  Apart'
  BY <1>0, <1>5 DEF Apart
<1>6. ASSUME NEW t \in Threads, turn_tick(t) \/ Exit(t)
      PROVE  UNCHANGED <<live, hand>> /\ \A u \in Threads : free'[u] \subseteq free[u]
  <2>1. CASE turn_tick(t)
    <3>1. PICK kept \in kSubset(Kept(t), free[t]) : free' = [free EXCEPT ![t] = kept]
      BY <2>1, Zenon DEF turn_tick
    <3>2. kept \subseteq free[t]
      BY <1>0, KeptFits, Zenon
    <3> QED
      BY <1>a, <2>1, <3>1, <3>2 DEF turn_tick
  <2>2. CASE Exit(t)
    BY <1>a, <2>2 DEF Exit
  <2> QED
    BY <1>6, <2>1, <2>2, Zenon
<1>7. Tick \/ UNCHANGED pvars
      => UNCHANGED <<live, hand>> /\ \A u \in Threads : free'[u] \subseteq free[u]
  BY Zenon DEF Tick, pvars
<1> QED
  BY <1>1, <1>2, <1>3, <1>4, <1>5, <1>6, <1>7, Zenon DEF Next

\* No list passes its cap.
LEMMA BoundStep ==
  ASSUME Configured, PoolInv, [Next]_pvars
  PROVE  FreeBounded'
<1> USE DEF Holds, pools, counters, history
<1>0. TypeOK /\ FreeBounded /\ InHand
  BY Zenon DEF PoolInv
<1>a. /\ DOMAIN free = Threads /\ PoolCap \in Nat
      /\ \A u \in Threads : IsFiniteSet(free[u]) /\ Cardinality(free[u]) \in Nat
  BY <1>0, PartsFinite, CapPositive DEF TypeOK
<1>1. ASSUME \A u \in Threads : free'[u] \subseteq free[u]
      PROVE  FreeBounded'
  <2> SUFFICES ASSUME NEW u \in Threads
               PROVE  Cardinality(free'[u]) <= PoolCap
    BY Zenon DEF FreeBounded, PoolCap
  <2>1. free'[u] \in SUBSET free[u]
    BY <1>1, Zenon
  <2>2. Cardinality(free'[u]) <= Cardinality(free[u]) /\ IsFiniteSet(free'[u])
    BY <1>a, <2>1, FS_Subset, Zenon
  <2>3. Cardinality(free'[u]) \in Nat
    BY <2>2, FS_CardinalityType, Zenon
  <2> QED
    BY <1>0, <1>a, <2>2, <2>3 DEF FreeBounded
<1>2. ASSUME NEW t \in Threads, Give(t)
      PROVE  FreeBounded'
  <2>1. CASE t \in alive /\ Cardinality(free[t]) < PoolCap
    <3>1. PICK c \in Chunks : hand[t] = {c}
      BY <1>0, <1>2 DEF InHand, Give
    <3>2. free'[t] = free[t] \cup {c} /\ \A u \in Threads : u /= t => free'[u] = free[u]
      BY <1>a, <1>2, <2>1, <3>1 DEF Give
    <3>3. Cardinality(free[t] \cup {c}) <= Cardinality(free[t]) + 1
      BY <1>a, FS_AddElement
    <3>4. Cardinality(free'[t]) <= PoolCap
      <4>1. Cardinality(free[t] \cup {c}) \in Nat
        BY <1>a, FS_AddElement, FS_CardinalityType
      <4> QED
        BY <1>a, <2>1, <3>2, <3>3, <4>1
    <3> QED
      BY <1>0, <3>2, <3>4, Zenon DEF FreeBounded, PoolCap
  <2>2. CASE ~(t \in alive /\ Cardinality(free[t]) < PoolCap)
    BY <1>1, <1>2, <2>2, Zenon DEF Give
  <2> QED
    BY <2>1, <2>2, Zenon
<1>3. ASSUME NEW t \in Threads,
             Take(t) \/ Acquired(t) \/ turn_tick(t) \/ Exit(t) \/ \E c \in Chunks : Drop(t, c)
      PROVE  \A u \in Threads : free'[u] \subseteq free[u]
  <2>1. CASE turn_tick(t)
    <3>1. PICK kept \in kSubset(Kept(t), free[t]) : free' = [free EXCEPT ![t] = kept]
      BY <2>1, Zenon DEF turn_tick
    <3>2. kept \subseteq free[t]
      BY <1>0, KeptFits, Zenon
    <3> QED
      BY <1>a, <3>1, <3>2
  <2>2. CASE Take(t)
    BY <1>a, <2>2 DEF Take
  <2>3. CASE Acquired(t) \/ \E c \in Chunks : Drop(t, c)
    BY <2>3, Zenon DEF Acquired, Drop
  <2>4. CASE Exit(t)
    BY <1>a, <2>4 DEF Exit
  <2> QED
    BY <1>3, <2>1, <2>2, <2>3, <2>4, Zenon
<1>4. Tick \/ UNCHANGED pvars => \A u \in Threads : free'[u] \subseteq free[u]
  BY Zenon DEF Tick, pvars
<1> QED
  BY <1>1, <1>2, <1>3, <1>4, Zenon DEF Next

\* A set without a part of it.
LEMMA Without ==
  ASSUME NEW S, IsFiniteSet(S), NEW T, T \in SUBSET S
  PROVE  Cardinality(S \ T) = Cardinality(S) - Cardinality(T)
<1>1. S \cap T = T
  BY Zenon
<1>2. Cardinality(S \ T) = Cardinality(S) - Cardinality(S \cap T)
  BY FS_Difference, Zenon
<1> QED
  BY <1>1, <1>2, Zenon

\* The counters follow the chunks: one step moves, makes or frees exactly what
\* it counts.
LEMMA CountStep ==
  ASSUME Configured, PoolInv, [Next]_pvars
  PROVE  ChunksAccounted'
<1> USE DEF Holds, pools, counters, history
<1>0. TypeOK /\ ChunksAccounted /\ Apart /\ InHand
  BY Zenon DEF PoolInv
<1>a. /\ DOMAIN free = Threads /\ DOMAIN hand = Threads
      /\ outstanding \in Nat /\ allocations \in Nat /\ over_cap_releases \in Nat /\ shrunk \in Nat
  BY <1>0, Zenon DEF TypeOK
<1>b. /\ IsFiniteSet(InUse) /\ Cardinality(InUse) \in Nat
      /\ IsFiniteSet(live) /\ Cardinality(live) \in Nat
      /\ \A t \in Threads : IsFiniteSet(free[t]) /\ Cardinality(free[t]) \in Nat
  BY <1>0, PartsFinite, Zenon
<1>c. \A c : c \in InUse' <=> \/ c \in live'
                              \/ \E t \in Threads : c \in hand'[t]
                              \/ \E t \in Threads : c \in free'[t]
  BY Zenon DEF InUse, Hands
<1>d. ASSUME InUse' = InUse, live' = live, UNCHANGED <<counters, shrunk>>
      PROVE  ChunksAccounted'
  BY <1>0, <1>d, Zenon DEF ChunksAccounted
<1>e. ASSUME NEW gone, gone \in SUBSET InUse, InUse' = InUse \ gone, live' = live,
             UNCHANGED <<outstanding, allocations>>,
             over_cap_releases' + shrunk' = over_cap_releases + shrunk + Cardinality(gone),
             over_cap_releases' \in Nat, shrunk' \in Nat
      PROVE  ChunksAccounted'
  <2>1. IsFiniteSet(gone) /\ Cardinality(gone) \in Nat
    BY <1>b, <1>e, FS_Subset, FS_CardinalityType, Zenon
  <2>2. IsFiniteSet(InUse)
    BY <1>b, Zenon
  <2>3. Cardinality(InUse \ gone) = Cardinality(InUse) - Cardinality(gone)
    BY <1>e, <2>2, Without, Zenon
  <2>4. Cardinality(InUse') = Cardinality(InUse) - Cardinality(gone)
    BY <1>e, <2>3, Zenon
  <2> QED
    BY <1>0, <1>a, <1>b, <1>e, <2>1, <2>4 DEF ChunksAccounted
<1>1. ASSUME NEW t \in Threads, Take(t)
      PROVE  ChunksAccounted'
  <2>1. PICK c \in IF free[t] # {} THEN free[t] ELSE Fresh :
           free' = [free EXCEPT ![t] = @ \ {c}] /\ Holds(t, "acquire", {c})
    BY <1>1, Zenon DEF Take
  <2>2. hand[t] = {}
    BY <1>0, <1>1 DEF InHand, Take
  <2>3. \A d : d \in InUse' <=> d \in InUse \/ d = c
    <3>1. live' = live
      BY <1>1, Zenon DEF Take
    <3>2. \A d : (\E u \in Threads : d \in hand'[u]) <=> d = c \/ \E u \in Threads : d \in hand[u]
      BY <1>a, <2>1, <2>2
    <3>3. \A d : d /= c => ((\E u \in Threads : d \in free'[u]) <=> \E u \in Threads : d \in free[u])
      BY <1>a, <2>1
    <3> QED
      BY <1>c, <3>1, <3>2, <3>3, Used, Zenon
  <2>4. CASE free[t] # {}
    <3>1. c \in InUse
      BY <2>1, <2>4, Used, Zenon
    <3>2. InUse' = InUse
      BY <2>3, <3>1, Zenon
    <3> QED
      BY <1>d, <1>1, <2>4, <3>2, Zenon DEF Take
  <2>5. CASE free[t] = {}
    <3>1. c \notin InUse
      BY <2>1, <2>5, FreshIsUnused, Zenon
    <3>2. InUse' = InUse \cup {c}
      BY <2>3, Zenon
    <3>3. Cardinality(InUse \cup {c}) = Cardinality(InUse) + 1
      BY <1>b, <3>1, FS_AddElement, Zenon
    <3>4. allocations' = allocations + 1 /\ UNCHANGED <<live, outstanding, over_cap_releases, shrunk>>
      BY <1>1, <2>5, Zenon DEF Take
    <3>5. Cardinality(InUse') = Cardinality(InUse) + 1
      BY <3>2, <3>3, Zenon
    <3> QED
      BY <1>0, <1>a, <1>b, <3>4, <3>5 DEF ChunksAccounted
  <2> QED
    BY <2>4, <2>5, Zenon
<1>2. ASSUME NEW t \in Threads, Acquired(t)
      PROVE  ChunksAccounted'
  <2>1. PICK c \in Chunks : hand[t] = {c}
    BY <1>0, <1>2 DEF InHand, Acquired
  <2>2. c \notin live /\ live' = live \cup {c}
    BY <1>0, <1>2, <2>1, Zenon DEF Apart, Acquired
  <2>3. \A d : d \in InUse' <=> d \in InUse
    <3>1. free' = free
      BY <1>2, Zenon DEF Acquired
    <3>2. \A d : d /= c => ((\E u \in Threads : d \in hand'[u]) <=> \E u \in Threads : d \in hand[u])
      BY <1>a, <1>2, <2>1 DEF Acquired
    <3> QED
      BY <1>c, <2>1, <2>2, <3>1, <3>2, Used, Zenon
  <2>4. InUse' = InUse
    BY <2>3, Zenon
  <2>5. Cardinality(live \cup {c}) = Cardinality(live) + 1
    BY <1>b, <2>2, FS_AddElement, Zenon
  <2>6. /\ outstanding' = outstanding + 1 /\ UNCHANGED <<allocations, over_cap_releases, shrunk>>
        /\ Cardinality(live') = Cardinality(live) + 1
        /\ Cardinality(InUse') = Cardinality(InUse)
    BY <1>2, <2>2, <2>4, <2>5, Zenon DEF Acquired
  <2> QED
    BY <1>0, <2>6 DEF ChunksAccounted
<1>3. ASSUME NEW t \in Threads, NEW c \in Chunks, Drop(t, c)
      PROVE  ChunksAccounted'
  <2>1. c \in live /\ live' = live \ {c} /\ hand[t] = {}
    BY <1>0, <1>3 DEF InHand, Drop
  <2>2. \A d : d \in InUse' <=> d \in InUse
    <3>1. free' = free
      BY <1>3, Zenon DEF Drop
    <3>2. \A d : (\E u \in Threads : d \in hand'[u]) <=> d = c \/ \E u \in Threads : d \in hand[u]
      BY <1>a, <1>3, <2>1 DEF Drop
    <3> QED
      BY <1>c, <2>1, <3>1, <3>2, Used, Zenon
  <2>3. InUse' = InUse
    BY <2>2, Zenon
  <2>4. Cardinality(live \ {c}) = Cardinality(live) - 1
    BY <1>b, <2>1, FS_RemoveElement, Zenon
  <2>5. /\ outstanding' = outstanding - 1 /\ UNCHANGED <<allocations, over_cap_releases, shrunk>>
        /\ Cardinality(live') = Cardinality(live) - 1
        /\ Cardinality(InUse') = Cardinality(InUse)
    BY <1>3, <2>1, <2>3, <2>4, Zenon DEF Drop
  <2> QED
    BY <1>0, <2>5 DEF ChunksAccounted
<1>4. ASSUME NEW t \in Threads, Give(t)
      PROVE  ChunksAccounted'
  <2>1. PICK c \in Chunks : hand[t] = {c}
    BY <1>0, <1>4 DEF InHand, Give
  <2>2. \A d : (\E u \in Threads : d \in hand'[u]) <=> d /= c /\ \E u \in Threads : d \in hand[u]
    BY <1>0, <1>a, <1>4, <2>1 DEF Give, Apart
  <2>3. live' = live /\ c \notin live /\ \A u \in Threads : c \notin free[u]
    BY <1>0, <1>4, <2>1, Zenon DEF Give, Apart
  <2>4. CASE t \in alive /\ Cardinality(free[t]) < PoolCap
    <3>1. \A d : (\E u \in Threads : d \in free'[u]) <=> d = c \/ \E u \in Threads : d \in free[u]
      BY <1>a, <1>4, <2>1, <2>4 DEF Give
    <3>2. \A d : d \in InUse' <=> d \in InUse
      BY <1>c, <2>1, <2>2, <2>3, <3>1, Used, Zenon
    <3>3. InUse' = InUse
      BY <3>2, Zenon
    <3> QED
      BY <1>d, <1>4, <2>3, <2>4, <3>3, Zenon DEF Give
  <2>5. CASE ~(t \in alive /\ Cardinality(free[t]) < PoolCap)
    <3>1. free' = free /\ over_cap_releases' = over_cap_releases + 1
          /\ UNCHANGED <<outstanding, allocations, shrunk>>
      BY <1>4, <2>5, Zenon DEF Give
    <3>2. \A d : d \in InUse' <=> d \in InUse /\ d /= c
      BY <1>c, <2>1, <2>2, <2>3, <3>1, Used, Zenon
    <3>3. InUse' = InUse \ {c} /\ {c} \in SUBSET InUse
      BY <2>1, <3>2, Used, Zenon
    <3>4. Cardinality({c}) = 1
      BY FS_Singleton, Zenon
    <3>5. /\ over_cap_releases' + shrunk' = over_cap_releases + shrunk + Cardinality({c})
          /\ over_cap_releases' \in Nat /\ shrunk' \in Nat
      BY <1>a, <3>1, <3>4
    <3> QED
      BY <1>e, <2>3, <3>1, <3>3, <3>5, Zenon
  <2> QED
    BY <2>4, <2>5, Zenon
<1>5. ASSUME NEW t \in Threads, NEW kept, kept \in SUBSET free[t],
             free' = [free EXCEPT ![t] = kept],
             shrunk' = shrunk + Cardinality(free[t]) - Cardinality(kept),
             UNCHANGED <<hand, live, counters>>
      PROVE  ChunksAccounted'
  <2> DEFINE gone == free[t] \ kept
  <2>1. \A d : (\E u \in Threads : d \in free'[u])
               <=> d \notin gone /\ \E u \in Threads : d \in free[u]
    BY <1>0, <1>a, <1>5 DEF Apart
  <2>2. \A d \in gone : d \notin live /\ \A u \in Threads : d \notin hand[u]
    BY <1>0, Zenon DEF Apart
  <2>3. gone \in SUBSET InUse
    BY Used, Zenon
  <2>4. Cardinality(gone) = Cardinality(free[t]) - Cardinality(kept)
    <3>1. IsFiniteSet(free[t])
      BY <1>b, Zenon
    <3> QED
      BY <1>5, <3>1, Without, Zenon
  <2>5. Cardinality(gone) \in Nat /\ Cardinality(kept) \in Nat
    <3>1. gone \in SUBSET free[t]
      BY Zenon
    <3>2. IsFiniteSet(gone) /\ IsFiniteSet(kept)
      BY <1>b, <1>5, <3>1, FS_Subset, Zenon
    <3> QED
      BY <3>2, FS_CardinalityType, Zenon
  <2> HIDE DEF gone
  <2>6. \A d : d \in InUse' <=> d \in InUse /\ d \notin gone
    BY <1>c, <1>5, <2>1, <2>2, Used, Zenon
  <2>7. InUse' = InUse \ gone
    BY <2>6, Zenon
  <2>8. /\ over_cap_releases' + shrunk' = over_cap_releases + shrunk + Cardinality(gone)
        /\ over_cap_releases' \in Nat /\ shrunk' \in Nat
    BY <1>a, <1>b, <1>5, <2>4, <2>5
  <2> QED
    BY <1>e, <1>5, <2>3, <2>7, <2>8, Zenon
<1>6. ASSUME NEW t \in Threads, turn_tick(t)
      PROVE  ChunksAccounted'
  <2>1. PICK kept \in kSubset(Kept(t), free[t]) :
          /\ free' = [free EXCEPT ![t] = kept]
          /\ shrunk' = shrunk + Cardinality(free[t]) - Cardinality(kept)
    BY <1>6, Zenon DEF turn_tick
  <2>2. kept \in SUBSET free[t]
    BY <2>1, Zenon DEF kSubset
  <2> QED
    BY <1>5, <1>6, <2>1, <2>2, Zenon DEF turn_tick
<1>7. ASSUME NEW t \in Threads, Exit(t)
      PROVE  ChunksAccounted'
  <2>1. shrunk' = shrunk + Cardinality(free[t]) - Cardinality({})
    BY <1>a, <1>b, <1>7, FS_EmptySet DEF Exit
  <2>2. {} \in SUBSET free[t]
    OBVIOUS
  <2> QED
    BY <1>5, <1>7, <2>1, <2>2, Zenon DEF Exit
<1>8. ASSUME Tick \/ UNCHANGED pvars
      PROVE  ChunksAccounted'
  <2>1. UNCHANGED <<free, hand, live, counters, shrunk>>
    BY <1>8, Zenon DEF Tick, pvars
  <2>2. InUse' = InUse
    BY <2>1, Zenon DEF InUse, Hands
  <2> QED
    BY <1>d, <2>1, <2>2, Zenon
<1> QED
  BY <1>1, <1>2, <1>3, <1>4, <1>6, <1>7, <1>8, Zenon DEF Next

\* The wrapped sum of two numbers below the modulus.
LEMMA WrappedSum ==
  ASSUME NEW W \in Nat \ {0}, NEW a \in 0 .. W - 1, NEW b \in 0 .. W
  PROVE  (a + b) % W = IF a + b < W THEN a + b ELSE a + b - W
  OBVIOUS

\* The wrapped difference of two numbers below the modulus.
LEMMA WrappedDifference ==
  ASSUME NEW W \in Nat \ {0}, NEW a \in 0 .. W - 1, NEW b \in 0 .. W - 1
  PROVE  (a - b) % W = IF a >= b THEN a - b ELSE a - b + W
  OBVIOUS

\* The clock and the age of a pool advance together, and a decay sets both.
LEMMA ClockStep ==
  ASSUME Configured, PoolInv, [Next]_pvars
  PROVE  ClockTells'
<1> USE DEF Holds, pools, counters, history
<1>0. TypeOK /\ ClockTells /\ Wrap \in Nat \ {0}
  BY Zenon DEF PoolInv, Configured
<1>1. CASE Tick
  <2>1. now' = IF now + 1 < Wrap THEN now + 1 ELSE now + 1 - Wrap
    <3>1. now \in 0 .. Wrap - 1 /\ 1 \in 0 .. Wrap
      BY <1>0 DEF TypeOK
    <3>2. (now + 1) % Wrap = IF now + 1 < Wrap THEN now + 1 ELSE now + 1 - Wrap
      BY <1>0, <3>1, WrappedSum, Zenon
    <3> QED
      BY <1>1, <3>2, Zenon DEF Tick
  <2> SUFFICES ASSUME NEW t \in alive', age'[t] < Wrap
               PROVE  \/ now' = last_decay'[t] + age'[t]
                      \/ now' = last_decay'[t] + age'[t] - Wrap
    BY Zenon DEF ClockTells
  <2>2. /\ t \in alive /\ t \in Threads /\ last_decay'[t] = last_decay[t]
        /\ now \in 0 .. Wrap - 1 /\ age[t] \in 0 .. Wrap /\ last_decay[t] \in 0 .. Wrap - 1
    BY <1>0, <1>1 DEF Tick, TypeOK
  <2>3. age'[t] = IF age[t] < Wrap THEN age[t] + 1 ELSE age[t]
    BY <1>1, <2>2 DEF Tick
  <2>4. age[t] < Wrap
    BY <1>0, <2>2, <2>3
  <2>5. now = last_decay[t] + age[t] \/ now = last_decay[t] + age[t] - Wrap
    BY <1>0, <2>2, <2>4, Zenon DEF ClockTells
  <2> QED
    BY <1>0, <2>1, <2>2, <2>3, <2>4, <2>5
<1>2. ASSUME NEW t \in Threads, turn_tick(t) \/ Exit(t)
      PROVE  ClockTells'
  <2>1. CASE turn_tick(t)
    BY <1>0, <2>1 DEF turn_tick, ClockTells, TypeOK
  <2>2. CASE Exit(t)
    BY <1>0, <2>2 DEF Exit, ClockTells, TypeOK
  <2> QED
    BY <1>2, <2>1, <2>2, Zenon
<1>3. ASSUME UNCHANGED <<now, last_decay, alive, age>>
      PROVE  ClockTells'
  BY <1>0, <1>3, Zenon DEF ClockTells
<1>4. ASSUME NEW t \in Threads, Take(t) \/ Acquired(t) \/ Give(t) \/ \E c \in Chunks : Drop(t, c)
      PROVE  UNCHANGED <<now, last_decay, alive, age>>
  BY <1>4, Zenon DEF Take, Acquired, Give, Drop
<1>5. UNCHANGED pvars => UNCHANGED <<now, last_decay, alive, age>>
  BY Zenon DEF pvars
<1> QED
  BY <1>1, <1>2, <1>3, <1>4, <1>5, Zenon DEF Next

\* A clock that tells the age makes the decay due when the age does.
LEMMA DueInTime ==
  ASSUME Configured, TypeOK, ClockTells
  PROVE  DecayWhenDue
<1> SUFFICES ASSUME NEW t \in alive,
                    age[t] >= DecayInterval, age[t] < DecayInterval + Wrap \div 2
             PROVE  Due(t)
  BY Zenon DEF DecayWhenDue
<1> DEFINE deadline == (last_decay[t] + DecayInterval) % Wrap
           half == Wrap \div 2
<1>1. /\ Wrap \in Nat \ {0} /\ DecayInterval \in 0 .. Wrap - 1
      /\ half \in Nat /\ 2 * half <= Wrap /\ DecayInterval <= half
  BY DEF Configured
<1>2. /\ last_decay[t] \in 0 .. Wrap - 1 /\ now \in 0 .. Wrap - 1
      /\ age[t] \in Nat /\ t \in Threads
  BY <1>1 DEF TypeOK
<1>3. age[t] < DecayInterval + half
  OBVIOUS
<1>4. deadline = IF last_decay[t] + DecayInterval < Wrap
                 THEN last_decay[t] + DecayInterval ELSE last_decay[t] + DecayInterval - Wrap
  <2>1. DecayInterval \in 0 .. Wrap
    BY <1>1
  <2> QED
    BY <1>1, <1>2, <2>1, WrappedSum, Zenon
<1>5. Due(t) <=> (now - deadline) % Wrap < half
  BY Zenon DEF Due, reached, saturating_add_ms
<1> HIDE DEF deadline, half
<1>6. deadline \in 0 .. Wrap - 1
  BY <1>1, <1>2, <1>4
<1>7. (now - deadline) % Wrap = IF now >= deadline THEN now - deadline ELSE now - deadline + Wrap
  BY <1>1, <1>2, <1>6, WrappedDifference, Zenon
<1>8. age[t] < Wrap
  BY <1>1, <1>2, <1>3
<1>9. now = last_decay[t] + age[t] \/ now = last_decay[t] + age[t] - Wrap
  BY <1>8, Zenon DEF ClockTells
<1>10. (now - deadline) % Wrap = age[t] - DecayInterval
  BY <1>1, <1>2, <1>4, <1>6, <1>7, <1>8, <1>9
<1> QED
  BY <1>1, <1>2, <1>3, <1>5, <1>10

\* PoolSound for every configuration: whichever threads acquire, drop and end in
\* whatever order, a chunk has one owner, the counters account for every chunk,
\* no list passes its cap, and the wrapping clock never skips a decay.
THEOREM PoolIsSound ==
  ASSUME Configured
  PROVE  Spec => []PoolSound
<1>1. Init => PoolInv
  BY Opening, Zenon
<1>2. PoolInv /\ [Next]_pvars => PoolInv'
  BY TypeStep, HandStep, ApartStep, BoundStep, CountStep, ClockStep, Zenon DEF PoolInv
<1>3. PoolInv => PoolSound
  BY OwnerIsApart, DueInTime, Zenon DEF PoolInv, PoolSound
<1> QED
  BY <1>1, <1>2, <1>3, PTL DEF Spec
==============================================================================
