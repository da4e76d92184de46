--------------------------- MODULE EndpointRegistry ---------------------------
(***************************************************************************)
(* The endpoint registry (irontraffic-upstream/src/registry.rs): a slab of *)
(* slots, each free, live or retired, in which the one writer interns,     *)
(* retires and recycles endpoint identities.  Readers resolve an identity  *)
(* to a slot number and keep the number; the grace a retired slot serves   *)
(* before reuse is what keeps such a number meaning the same endpoint.     *)
(* EndpointStats models what happens to the counters of one slot.          *)
(***************************************************************************)
EXTENDS Integers, Sequences, FiniteSets, FiniteSetsExt

CONSTANTS
  Identities,   \* rendered identities
  Oversized,    \* those longer than MAX_IDENTITY_BYTES
  Capacity,     \* slots of the slab
  GraceMs,      \* RECYCLE_GRACE_MS
  GraceGens,    \* RECYCLE_GRACE_GENERATIONS
  Batch,        \* RECYCLE_BATCH
  Wrap,         \* the coarse clock counts modulo this
  MaxTime,      \* bound: the clock
  MaxGen,       \* bound: the published snapshot generation
  MaxInterns,   \* bound: allocations
  MaxHeld       \* bound: resolutions kept by readers

Slots == 0 .. Capacity - 1
NoKey == "none"
Free == 0
Live == 1
Gone == 2

VARIABLES
  states,        \* of each slot
  generation,    \* of each slot's statistics
  index,         \* identity -> slot, for the interned ones
  keys,          \* slot -> identity, or NoKey
  retired,       \* FIFO of [id, at_generation, at_ms]
  next_free,     \* scan cursor
  interned, retired_total,
  result,        \* of the last call
  now,           \* the clock, unwrapped
  published,     \* the highest published snapshot generation
  held,          \* resolutions readers keep: who, slot, token, when (history)
  retiredAt      \* the unwrapped time each slot was last retired (history)

slab == <<states, generation, index, keys, retired, next_free, interned,
          retired_total>>
rvars == <<slab, result, now, published, held, retiredAt>>

now_ms == now % Wrap

Init ==
  /\ states = [s \in Slots |-> Free]
  /\ generation = [s \in Slots |-> 0]
  /\ index = [i \in {} |-> 0]
  /\ keys = [s \in Slots |-> NoKey]
  /\ retired = <<>> /\ next_free = 0
  /\ interned = 0 /\ retired_total = 0
  /\ result = "none" /\ now = 0 /\ published = 0 /\ held = {}
  /\ retiredAt = [s \in Slots |-> 0]

\* The slots the search visits are tried from next_free, wrapping once.
Found ==
  LET offsets == {o \in 0 .. Capacity - 1 :
                    states[(next_free + o) % Capacity] = Free}
  IN  IF offsets = {} THEN {} ELSE {(next_free + Min(offsets)) % Capacity}

FullSlab == Cardinality(DOMAIN index) + Len(retired) = Capacity

Without(f, x) == [y \in DOMAIN f \ {x} |-> f[y]]
With(f, x, v) == [y \in DOMAIN f \cup {x} |-> IF y = x THEN v ELSE f[y]]

\* The statistics of a reused slot are reset and its generation is bumped.
Reset(s) == generation' = [generation EXCEPT ![s] = @ + 1]

Allocate(i, s) ==
  /\ states' = [states EXCEPT ![s] = Live]
  /\ Reset(s)
  /\ keys' = [keys EXCEPT ![s] = i]
  /\ index' = With(index, i, s)
  /\ interned' = interned + 1
  /\ next_free' = (s + 1) % Capacity
  /\ UNCHANGED <<retired, retired_total>>

intern(i) ==
  /\ \/ i \in Oversized /\ result' = "too_long" /\ UNCHANGED slab
     \/ /\ i \notin Oversized /\ i \in DOMAIN index
        /\ result' = "ok" /\ UNCHANGED slab
     \/ /\ i \notin Oversized /\ i \notin DOMAIN index
        /\ FullSlab \/ Found = {}
        /\ result' = "full" /\ UNCHANGED slab
     \/ /\ i \notin Oversized /\ i \notin DOMAIN index
        /\ ~FullSlab /\ interned < MaxInterns
        /\ \E s \in Found : Allocate(i, s)
        /\ result' = "ok"
  /\ UNCHANGED <<now, published, held, retiredAt>>

Retires(s, queue) ==
  /\ states' = [states EXCEPT ![s] = Gone]
  /\ keys' = [keys EXCEPT ![s] = NoKey]
  /\ retired' = queue
  /\ retired_total' = retired_total + 1
  /\ retiredAt' = [retiredAt EXCEPT ![s] = now]
  /\ result' = "none"
  /\ UNCHANGED <<generation, next_free, interned, now, published, held>>

Entry(s) == [id |-> s, at_generation |-> published, at_ms |-> now_ms]

\* retire is given any slot number: one that is not live is left alone.
retire(s) ==
  \/ /\ states[s] = Live
     /\ Retires(s, Append(retired, Entry(s)))
     /\ index' = Without(index, keys[s])
  \/ /\ states[s] # Live
     /\ result' = "none"
     /\ UNCHANGED <<slab, now, published, held, retiredAt>>

EligibleEither(e) ==
  \/ published >= e.at_generation + GraceGens
  \/ (now_ms - e.at_ms) % Wrap >= GraceMs

Eligible(e) ==
  /\ published >= e.at_generation + GraceGens
  /\ (now_ms - e.at_ms) % Wrap >= GraceMs

\* How many entries one call frees: up to the first that must still wait.
Freed ==
  Max({n \in 0 .. Min({Batch, Len(retired)}) :
         \A k \in 1 .. n : Eligible(retired[k])})

recycle ==
  /\ states' = [s \in Slots |->
       IF \E k \in 1 .. Freed : retired[k].id = s THEN Free ELSE states[s]]
  /\ retired' = SubSeq(retired, Freed + 1, Len(retired))
  /\ result' = "recycled"
  /\ UNCHANGED <<generation, index, keys, next_free, interned, retired_total,
                 now, published, held, retiredAt>>

\* A reader resolves a live identity and keeps the number and its token.
Resolve(i) ==
  /\ i \in DOMAIN index
  /\ Cardinality(held) < MaxHeld
  /\ held' = held \cup {[who |-> i, slot |-> index[i], at |-> now,
                         gen |-> published, token |-> generation[index[i]]]}
  /\ result' = "none"
  /\ UNCHANGED <<slab, now, published, retiredAt>>

Publish ==
  /\ published < MaxGen
  /\ published' = published + 1
  /\ result' = "none"
  /\ UNCHANGED <<slab, now, held, retiredAt>>

Tick ==
  /\ now < MaxTime
  /\ now' = now + 1
  /\ result' = "none"
  /\ UNCHANGED <<slab, published, held, retiredAt>>

Next ==
  \/ \E i \in Identities : intern(i) \/ Resolve(i)
  \/ \E s \in Slots : retire(s)
  \/ recycle \/ Publish \/ Tick

-----------------------------------------------------------------------------
TypeOK ==
  /\ states \in [Slots -> {Free, Live, Gone}]
  /\ generation \in [Slots -> Nat]
  /\ DOMAIN index \subseteq Identities \ Oversized
  /\ \A i \in DOMAIN index : index[i] \in Slots
  /\ keys \in [Slots -> Identities \cup {NoKey}]
  /\ retired \in Seq([id : Slots, at_generation : Nat, at_ms : 0 .. Wrap - 1])
  /\ next_free \in Slots
  /\ result \in {"none", "ok", "too_long", "full", "recycled"}
  /\ now \in 0 .. MaxTime /\ published \in 0 .. MaxGen

InState(st) == {s \in Slots : states[s] = st}
Queued == {retired[k].id : k \in 1 .. Len(retired)}

\* The three records of a slot agree: index and keys are inverse over exactly
\* the live slots, and the queue names every retired slot once.
SlabConsistent ==
  /\ \A i \in DOMAIN index : keys[index[i]] = i
  /\ {s \in Slots : keys[s] # NoKey} = InState(Live)
  /\ {index[i] : i \in DOMAIN index} = InState(Live)
  /\ Queued = InState(Gone) /\ Cardinality(Queued) = Len(retired)
  /\ interned - retired_total = Cardinality(InState(Live))

\* A slot number a reader resolved still means the same endpoint, retired or
\* not, until both graces have run out since the reader resolved it.
GraceKeepsMeaning ==
  \A h \in held :
    now - h.at < GraceMs \/ published < h.gen + GraceGens =>
      generation[h.slot] = h.token /\ keys[h.slot] \in {h.who, NoKey}

\* A token (slot, generation) that still matches never names someone else.
TokenNamesOneEndpoint ==
  \A h \in held : generation[h.slot] = h.token => keys[h.slot] \in {h.who, NoKey}

\* intern refuses for want of room only when no slot is free.
FullMeansFull == result' = "full" => InState(Free) = {}

\* One recycle call that frees fewer than a batch leaves nothing eligible
\* behind, so stopping at the first waiting entry skips none, as long as no
\* entry has waited a whole turn of the clock.
StopsAtNothingEligible ==
  (/\ result' = "recycled"
   /\ Len(retired) - Len(retired') < Batch
   /\ \A k \in 1 .. Len(retired) : now - retiredAt[retired[k].id] < Wrap)
  => \A k \in 1 .. Len(retired') : ~Eligible(retired'[k])
==============================================================================
