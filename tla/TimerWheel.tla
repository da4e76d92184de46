----------------------------- MODULE TimerWheel ------------------------------
(* irontraffic-resilience/src/health/wheel.rs: the hierarchical timing     *)
(* wheel that holds the next health check of every endpoint.  Time is      *)
(* modulo Wrap = Slots^Levels (2^32 in the code: 256 slots, 4 levels).  A  *)
(* slot's intrusive list is the sequence of its ids, head first, so that   *)
(* linking prepends and unlink removes; an id is scheduled when it is in   *)
(* some list.                                                              *)
EXTENDS Integers, Sequences, SequencesExt, FiniteSets

CONSTANTS
  Ids,              \* caller-assigned ids, 0 .. n
  Slots, Levels,
  Catchup,          \* max_catchup_ms
  Delays,           \* how far ahead of now callers schedule, modulo Wrap
  Gaps,             \* how far advance moves, modulo Wrap
  Ceilings          \* the values callers give set_max_ids

VARIABLES
  now,              \* wheel time
  deadline,         \* nodes[id].deadline, 0 where it is meaningless
  lists,            \* lists[level][slot]
  max_ids,
  out,              \* what the last advance appended
  left,             \* ms until each scheduled id is due (history), or None
  dropped           \* ids the wheel let go of without firing (history)

wvars == <<now, deadline, lists, max_ids, out, left, dropped>>

None == -1
Wrap == Slots ^ Levels
Horizon == (Wrap - 1) \div 2

Raw(a, b) == (a - b) % Wrap
Since(a, b) == IF Raw(a, b) > Horizon THEN 0 ELSE Raw(a, b)
AtOrBefore(a, b) == Since(a, b) = 0

Level == 0 .. Levels - 1
Slot == 0 .. Slots - 1

Digit(t, l) == (t \div Slots ^ l) % Slots

\* The level is the first whose span holds the distance.
level_and_slot(w, at) ==
  LET delta == Since(at, w.now)
      l == CHOOSE k \in Level :
             /\ delta < Slots ^ (k + 1) \/ k = Levels - 1
             /\ \A j \in 0 .. k - 1 : delta >= Slots ^ (j + 1)
  IN <<l, Digit(at, l)>>

Scheduled(w) ==
  {id \in Ids : \E l \in Level, s \in Slot : id \in ToSet(w.lists[l][s])}

unlink(w, id) ==
  [w EXCEPT !.lists = [l \in Level |-> [s \in Slot |->
     SelectSeq(w.lists[l][s], LAMBDA x : x # id)]]]

Link(w, id, at) ==
  LET ls == level_and_slot(w, at)
  IN [w EXCEPT !.deadline[id] = at, !.lists[ls[1]][ls[2]] = <<id>> \o @]

\* schedule, when the id is below max_ids: a deadline at or before now, or
\* too far ahead to be told from the past, becomes now + 1.
Place(w, id, at) ==
  LET raw == Raw(at, w.now)
  IN Link(unlink(w, id), id,
          IF raw = 0 \/ raw > Horizon THEN (w.now + 1) % Wrap ELSE at)

\* Every node of the slot moves to where its own deadline now belongs.
cascade(w, l) ==
  LET s == Digit(w.now, l)
  IN FoldLeft(LAMBDA v, id : Link(unlink(v, id), id, v.deadline[id]), w, w.lists[l][s])

CascadesLate(w) == {l \in 1 .. Levels - 1 : w.now % Slots ^ (l + 1) = 0}
Cascades(w) == {l \in 1 .. Levels - 1 : w.now % Slots ^ l = 0}

\* One millisecond of advance: time moves, higher levels cascade in ascending
\* order, and the level-0 slot of the new time is drained.
tick(w) ==
  LET v == [w EXCEPT !.now = (@ + 1) % Wrap]
      c == FoldLeft(LAMBDA u, l : IF l \in Cascades(v) THEN cascade(u, l) ELSE u,
                    v, [l \in 1 .. Levels - 1 |-> l])
      due == c.lists[0][Digit(c.now, 0)]
  IN [c EXCEPT !.lists[0][Digit(c.now, 0)] = <<>>, !.out = @ \o due]

\* The ids of all slots in flat order, which sweep collects before it moves
\* the time.
Scratch(w) ==
  FoldLeft(LAMBDA acc, l : FoldLeft(LAMBDA a, s : a \o w.lists[l][s - 1], acc,
                                    [s \in 1 .. Slots |-> s]),
           <<>>, [l \in 1 .. Levels |-> l - 1])

\* The rest is scheduled anew; max_ids may have been lowered meanwhile, and
\* the refusal is ignored.
sweep(w, target) ==
  LET v == [w EXCEPT !.now = target, !.lists = [l \in Level |-> [s \in Slot |-> <<>>]]]
  IN FoldLeft(LAMBDA u, id :
                IF AtOrBefore(u.deadline[id], target) THEN [u EXCEPT !.out = Append(@, id)]
                ELSE IF id >= max_ids THEN u
                ELSE Place(u, id, u.deadline[id]),
              v, Scratch(w))

------------------------------------------------------------------------------
Wheel == [now |-> now, deadline |-> deadline, lists |-> lists, out |-> <<>>]

Becomes(w) ==
  /\ now' = w.now /\ lists' = w.lists /\ out' = w.out
  /\ deadline' = [id \in Ids |-> IF id \in Scheduled(w) THEN w.deadline[id] ELSE 0]

Init ==
  /\ now = 0 /\ deadline = [id \in Ids |-> 0]
  /\ lists = [l \in Level |-> [s \in Slot |-> <<>>]]
  /\ max_ids = Cardinality(Ids)
  /\ out = <<>>
  /\ left = [id \in Ids |-> None]
  /\ dropped = {}

\* The distance callers mean: what lies beyond the horizon is the past.
Ahead(d) == IF d = 0 \/ d > Horizon THEN 1 ELSE d

schedule(id, d) ==
  /\ id < max_ids
  /\ Becomes(Place(Wheel, id, (now + d) % Wrap))
  /\ left' = [left EXCEPT ![id] = Ahead(d)]
  /\ dropped' = dropped \ {id}
  /\ UNCHANGED max_ids

cancel(id) ==
  /\ id \in Scheduled(Wheel)
  /\ Becomes(unlink(Wheel, id))
  /\ left' = [left EXCEPT ![id] = None]
  /\ UNCHANGED <<max_ids, dropped>>

advance(g) ==
  LET gap == Since((now + g) % Wrap, now)
      ticked[n \in 0 .. gap] == IF n = 0 THEN Wheel ELSE tick(ticked[n - 1])
      w == IF gap > Catchup THEN sweep(Wheel, (now + g) % Wrap) ELSE ticked[gap]
  IN /\ gap > 0
     /\ Becomes(w)
     /\ left' = [id \in Ids |-> IF left[id] <= gap THEN None ELSE left[id] - gap]
     /\ dropped' = dropped \cup {id \in Ids : left[id] > gap /\ id \notin Scheduled(w)}
     /\ UNCHANGED max_ids

set_max_ids(n) ==
  /\ max_ids' = n /\ max_ids # n
  /\ UNCHANGED <<now, deadline, lists, out, left, dropped>>

Next ==
  \/ \E id \in Ids : cancel(id) \/ \E d \in Delays : schedule(id, d)
  \/ \E g \in Gaps : advance(g)
  \/ \E n \in Ceilings : set_max_ids(n)

------------------------------------------------------------------------------
TypeOK ==
  /\ now \in 0 .. Wrap - 1
  /\ deadline \in [Ids -> 0 .. Wrap - 1]
  /\ left \in [Ids -> None .. Horizon]

\* debug_assert_structure: an id is linked once, in the slot its own deadline
\* decodes to, within the span of its level, and above level 0 never in the
\* block the wheel time has already entered.
Structure ==
  /\ Len(Scratch(Wheel)) = Cardinality(Scheduled(Wheel))
  /\ \A l \in Level, s \in Slot : \A id \in ToSet(lists[l][s]) :
       /\ Digit(deadline[id], l) = s
       /\ Since(deadline[id], now) < Slots ^ (l + 1)
       /\ l > 0 => now \div Slots ^ l # deadline[id] \div Slots ^ l

\* The wheel is a table of deadlines: what is scheduled is exactly what is
\* still due, at exactly the distance asked for, however it was cascaded or
\* swept on the way.
Faithful ==
  \A id \in Ids : id \notin dropped =>
    /\ (id \in Scheduled(Wheel)) = (left[id] # None)
    /\ left[id] # None => left[id] = Since(deadline[id], now)

\* Nothing fires early, late or twice: an advance reports exactly the ids
\* that came due in the gap it covers, and an id is only lost when the
\* ceiling was lowered below it (wheel.rs 597-601).
FiresExactly ==
  /\ now' # now /\ dropped = {} =>
       /\ ToSet(out') = {id \in Ids : left[id] # None /\ left'[id] = None}
       /\ Len(out') = Cardinality(ToSet(out'))
  /\ \A id \in dropped' \ dropped : id >= max_ids
==============================================================================
