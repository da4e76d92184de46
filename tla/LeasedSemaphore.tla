--------------------------- MODULE LeasedSemaphore ---------------------------
(***************************************************************************)
(* The resource-limit semaphore (irontraffic-resilience/src/limits).       *)
(* Workers spend permits from their own credit cell and charge the shared  *)
(* counter a batch at a time; a dropped permit goes back to the cell it    *)
(* came from; the control task takes back the credits of workers that      *)
(* have not charged for a while and may publish another limit.  Every      *)
(* atomic access is a step of its own, except that a load and the exchange *)
(* that succeeds on the value it gave are one: the exchange succeeds only  *)
(* if the cell still holds that value.  An exchange that fails, because    *)
(* the cell changed or because weak exchanges may, changes nothing.        *)
(***************************************************************************)
EXTENDS Integers, FiniteSets, FiniteSetsExt, FiniteSetTheorems, TLAPS

CONSTANTS
  NWorkers,     \* credit cells
  Tasks,        \* requests acquiring and dropping permits
  Limit,        \* the ceiling at construction
  Active,       \* in_use readings a retry ceiling is computed from; none for
                \* a pool whose ceiling stays
  RetryPercent, MinRetry,
  ExactFactor,  \* 4 in the code
  LeaseBatch,   \* the batch asked for
  SpendTries,   \* compare-exchanges on the cell before charging (4)
  ChargeTries,  \* compare-exchanges on the shared counter (8)
  FlushTries    \* compare-exchanges of a reclamation (8)

Workers == 0 .. NWorkers - 1

\* new: a small limit selects exact mode, a batch of one.
Batch ==
  LET asked == Max({LeaseBatch, 1})
  IN  IF Limit <= ExactFactor * NWorkers * asked THEN 1 ELSE asked

\* The share of the active requests that may be retries, never below a floor.
retry_ceiling(active) == Max({MinRetry, (active * RetryPercent) \div 100})

VARIABLES
  limit, charged, credits,
  stale,        \* cells whose last charge is lease_max_age_ms old
  pc,           \* of each task
  worker,       \* the worker each task acquires for
  ceiling,      \* the limit its try_charge loaded
  tries,        \* exchanges it has left
  grant,        \* permits charged and not yet banked
  flush,        \* the control task: the cell it is at, NWorkers past the last
  took,         \* credits taken from the cell and not yet uncharged
  fpc, ftries

cells == <<limit, charged, credits, stale>>
tasks == <<pc, worker, ceiling, tries, grant>>
control == <<flush, took, fpc, ftries>>
lvars == <<cells, tasks, control>>

Init ==
  /\ limit = Limit /\ charged = 0
  /\ credits = [w \in Workers |-> 0]
  /\ stale = {}
  /\ pc = [t \in Tasks |-> "idle"]
  /\ worker = [t \in Tasks |-> 0]
  /\ ceiling = [t \in Tasks |-> 0]
  /\ tries = [t \in Tasks |-> 0] /\ grant = [t \in Tasks |-> 0]
  /\ flush = NWorkers /\ took = 0 /\ fpc = "out" /\ ftries = 0

Goes(t, label) == pc' = [pc EXCEPT ![t] = label]

-----------------------------------------------------------------------------
\* try_acquire.

Acquire(t, w) ==
  /\ pc[t] = "idle"
  /\ worker' = [worker EXCEPT ![t] = w]
  /\ tries' = [tries EXCEPT ![t] = SpendTries]
  /\ Goes(t, "spend")
  /\ UNCHANGED <<cells, ceiling, grant, control>>

SpendTake(t) ==
  /\ pc[t] = "spend" /\ tries[t] > 0 /\ credits[worker[t]] > 0
  /\ credits' = [credits EXCEPT ![worker[t]] = @ - 1]
  /\ tries' = [tries EXCEPT ![t] = 0]
  /\ Goes(t, "held")
  /\ UNCHANGED <<limit, charged, stale, worker, ceiling, grant, control>>

SpendMiss(t) ==
  /\ pc[t] = "spend" /\ tries[t] > 0 /\ credits[worker[t]] > 0
  /\ tries' = [tries EXCEPT ![t] = @ - 1]
  /\ UNCHANGED <<cells, pc, worker, ceiling, grant, control>>

\* Nothing in the cell, or no tries left: charge a batch.
SpendEnd(t) ==
  /\ pc[t] = "spend" /\ (tries[t] = 0 \/ credits[worker[t]] = 0)
  /\ tries' = [tries EXCEPT ![t] = 0]
  /\ Goes(t, "ceiling")
  /\ UNCHANGED <<cells, worker, ceiling, grant, control>>

\* try_charge loads the limit once, then the counter on every try.
ChargeLimit(t) ==
  /\ pc[t] = "ceiling"
  /\ ceiling' = [ceiling EXCEPT ![t] = limit]
  /\ tries' = [tries EXCEPT ![t] = ChargeTries]
  /\ Goes(t, "charge")
  /\ UNCHANGED <<cells, worker, grant, control>>

GrantedWhole(t) == Batch

Granted(t) == Min({Batch, ceiling[t] - charged})

ChargeTake(t) ==
  /\ pc[t] = "charge" /\ tries[t] > 0 /\ charged < ceiling[t]
  /\ charged' = charged + Granted(t)
  /\ grant' = [grant EXCEPT ![t] = Granted(t)]
  /\ tries' = [tries EXCEPT ![t] = 0]
  /\ ceiling' = [ceiling EXCEPT ![t] = 0]
  /\ Goes(t, "bank")
  /\ UNCHANGED <<limit, credits, stale, worker, control>>

ChargeMiss(t) ==
  /\ pc[t] = "charge" /\ tries[t] > 0 /\ charged < ceiling[t]
  /\ tries' = [tries EXCEPT ![t] = @ - 1]
  /\ UNCHANGED <<cells, pc, worker, ceiling, grant, control>>

\* Refused: the limit is reached or the tries are spent.
Refuse(t) ==
  /\ pc[t] = "charge" /\ (tries[t] = 0 \/ charged >= ceiling[t])
  /\ tries' = [tries EXCEPT ![t] = 0]
  /\ ceiling' = [ceiling EXCEPT ![t] = 0]
  /\ worker' = [worker EXCEPT ![t] = 0]
  /\ Goes(t, "idle")
  /\ UNCHANGED <<cells, grant, control>>

\* One permit is taken; the rest is banked, and only then is the cell touched.
Bank(t) ==
  /\ pc[t] = "bank"
  /\ credits' = [credits EXCEPT ![worker[t]] = @ + (grant[t] - 1)]
  /\ Goes(t, IF grant[t] = 1 THEN "held" ELSE "touch")
  /\ grant' = [grant EXCEPT ![t] = 0]
  /\ UNCHANGED <<limit, charged, stale, worker, ceiling, tries, control>>

Touch(t) ==
  /\ pc[t] = "touch"
  /\ stale' = stale \ {worker[t]}
  /\ Goes(t, "held")
  /\ UNCHANGED <<limit, charged, credits, worker, ceiling, tries, grant,
                 control>>

\* Permit::drop returns the permit to the cell it came from.
Drop(t) ==
  /\ pc[t] = "held"
  /\ credits' = [credits EXCEPT ![worker[t]] = @ + 1]
  /\ worker' = [worker EXCEPT ![t] = 0]
  /\ Goes(t, "idle")
  /\ UNCHANGED <<limit, charged, stale, ceiling, tries, grant, control>>

-----------------------------------------------------------------------------
\* The control task.

\* refresh_retry_ceiling computes the ceiling from what in_use gave and
\* publishes it with set_limit; permits already out are untouched.
refresh_retry_ceiling(active) ==
  /\ limit' = retry_ceiling(active)
  /\ UNCHANGED <<charged, credits, stale, tasks, control>>

flush_stale ==
  /\ fpc = "out"
  /\ flush' = 0 /\ fpc' = "visit"
  /\ UNCHANGED <<cells, tasks, took, ftries>>

FlushVisitFresh ==
  /\ fpc = "visit" /\ flush < NWorkers
  /\ IF flush \notin stale
     THEN fpc' = "take" /\ ftries' = FlushTries /\ flush' = flush
     ELSE flush' = flush + 1 /\ UNCHANGED <<fpc, ftries>>
  /\ UNCHANGED <<cells, tasks, took>>

\* The cells are visited in order; one charged recently is skipped.
FlushVisit ==
  /\ fpc = "visit" /\ flush < NWorkers
  /\ IF flush \in stale
     THEN fpc' = "take" /\ ftries' = FlushTries /\ flush' = flush
     ELSE flush' = flush + 1 /\ UNCHANGED <<fpc, ftries>>
  /\ UNCHANGED <<cells, tasks, took>>

FlushTake ==
  /\ fpc = "take" /\ ftries > 0 /\ credits[flush] > 0
  /\ credits' = [credits EXCEPT ![flush] = 0]
  /\ took' = credits[flush] /\ fpc' = "uncharge"
  /\ UNCHANGED <<limit, charged, stale, tasks, flush, ftries>>

FlushMiss ==
  /\ fpc = "take" /\ ftries > 0 /\ credits[flush] > 0
  /\ ftries' = ftries - 1
  /\ UNCHANGED <<cells, tasks, flush, took, fpc>>

FlushLeave ==
  /\ fpc = "take" /\ (ftries = 0 \/ credits[flush] = 0)
  /\ fpc' = "mark"
  /\ UNCHANGED <<cells, tasks, flush, took, ftries>>

FlushUncharge ==
  /\ fpc = "uncharge"
  /\ charged' = charged - took
  /\ took' = 0 /\ fpc' = "mark"
  /\ UNCHANGED <<limit, credits, stale, tasks, flush, ftries>>

FlushMark ==
  /\ fpc = "mark"
  /\ stale' = stale \ {flush}
  /\ flush' = flush + 1 /\ fpc' = "visit" /\ ftries' = 0
  /\ UNCHANGED <<limit, charged, credits, tasks, took>>

FlushEnd ==
  /\ fpc = "visit" /\ flush = NWorkers
  /\ fpc' = "out"
  /\ UNCHANGED <<cells, tasks, flush, took, ftries>>

\* lease_max_age_ms pass for a cell.
Age(w) ==
  /\ w \notin stale
  /\ stale' = stale \cup {w}
  /\ UNCHANGED <<limit, charged, credits, tasks, control>>

TaskStep(t) ==
  \/ SpendTake(t) \/ SpendMiss(t) \/ SpendEnd(t) \/ ChargeLimit(t)
  \/ ChargeTake(t) \/ ChargeMiss(t) \/ Refuse(t) \/ Bank(t) \/ Touch(t)

FlushStep ==
  \/ flush_stale \/ FlushVisit \/ FlushTake \/ FlushMiss \/ FlushLeave
  \/ FlushUncharge \/ FlushMark \/ FlushEnd

Next ==
  \/ \E t \in Tasks : \/ TaskStep(t) \/ Drop(t)
                      \/ \E w \in Workers : Acquire(t, w)
  \/ FlushStep
  \/ \E w \in Workers : Age(w)
  \/ \E active \in Active : refresh_retry_ceiling(active)

Spec == Init /\ [][Next]_lvars

-----------------------------------------------------------------------------
\* A count of permits as a set of permits: f[x] of them for every x.
Units(f) == UNION {{x} \X (1 .. f[x]) : x \in DOMAIN f}
Total(f) == Cardinality(Units(f))

Ceilings == {Limit} \cup {retry_ceiling(a) : a \in Active}
Idle == Total(credits)
Held == {t \in Tasks : pc[t] \in {"touch", "held"}}

TypeOK ==
  /\ limit \in Ceilings
  /\ charged \in Nat /\ credits \in [Workers -> Nat]
  /\ stale \subseteq Workers /\ flush \in 0 .. NWorkers
  /\ pc \in [Tasks -> {"idle", "spend", "ceiling", "charge", "bank",
                       "touch", "held"}]
  /\ worker \in [Tasks -> Workers]
  /\ ceiling \in [Tasks -> Nat]
  /\ tries \in [Tasks -> Nat] /\ grant \in [Tasks -> 0 .. Batch]
  /\ took \in Nat  /\ ftries \in 0 .. FlushTries
  /\ fpc \in {"out", "visit", "take", "uncharge", "mark"}

\* A permit is neither lost nor made: what the shared counter shows is exactly
\* the idle credits, the permits held, the charges not yet banked and what a
\* reclamation has taken and not yet given back, whatever races.
PermitsConserved ==
  charged = Idle + Cardinality(Held) + Total(grant) + took

\* "the configured limit is a hard ceiling": no more permits are charged, and
\* so none more are held, than the largest limit ever in force, although each
\* charge works with a limit and a counter loaded earlier.
HardCeiling == \A c \in Ceilings : (\A d \in Ceilings : d <= c) => charged <= c

\* What LeasedSemaphore promises of its permits.
PermitsSound == TypeOK /\ PermitsConserved /\ HardCeiling

-----------------------------------------------------------------------------
(***************************************************************************)
(* Conservation and the ceiling for every number of workers and tasks,     *)
(* every limit and batch, and every number of tries.                       *)
(***************************************************************************)

\* What the types and the configuration's validation give: at least one
\* worker, finitely many requests, unsigned numbers.
Configured ==
  /\ NWorkers \in Nat \ {0} /\ IsFiniteSet(Tasks)
  /\ Limit \in Nat /\ Active \subseteq Nat
  /\ RetryPercent \in Nat /\ MinRetry \in Nat
  /\ ExactFactor \in Nat /\ LeaseBatch \in Nat
  /\ SpendTries \in Nat /\ ChargeTries \in Nat /\ FlushTries \in Nat

\* What keeps the sum right: only a task about to bank has an ungiven grant,
\* and it is never empty; a limit in a task's hands was in force once; only a
\* reclamation about to lower the counter has taken credits, and it is at a cell.
Phases ==
  /\ \A t \in Tasks : pc[t] = "bank" <=> grant[t] > 0
  /\ \A t \in Tasks : ceiling[t] \in Ceilings \cup {0}
  /\ fpc /= "uncharge" => took = 0
  /\ fpc \in {"take", "uncharge", "mark"} => flush < NWorkers

Accounted == PermitsSound /\ Phases

\* The larger and the smaller of two numbers.
LEMMA OfTwo ==
  ASSUME NEW a \in Int, NEW b \in Int
  PROVE  /\ Max({a, b}) = IF a >= b THEN a ELSE b
         /\ Min({a, b}) = IF a <= b THEN a ELSE b
  BY DEF Max, Min

\* A charge is never empty, and no charge is negative.
LEMMA Sizes ==
  ASSUME Configured
  PROVE  /\ Batch \in Nat \ {0}
         /\ Ceilings \subseteq Nat
         /\ IsFiniteSet(Workers) /\ 0 \in Workers
<1>1. Max({LeaseBatch, 1}) \in Nat \ {0}
  BY OfTwo DEF Configured
<1>2. Batch \in Nat \ {0}
  BY <1>1 DEF Batch
<1>3. ASSUME NEW a \in Active
      PROVE  retry_ceiling(a) \in Nat
  <2>1. (a * RetryPercent) \div 100 \in Nat
    BY <1>3 DEF Configured
  <2> QED
    BY <2>1, OfTwo DEF Configured, retry_ceiling
<1>4. Ceilings \subseteq Nat
  BY <1>3 DEF Ceilings, Configured
<1>5. IsFiniteSet(Workers) /\ 0 \in Workers
  BY FS_Interval DEF Workers, Configured
<1> QED
  BY <1>2, <1>4, <1>5

\* The permits of one owner.
LEMMA UnitsOfOne ==
  ASSUME NEW x, NEW n \in Nat
  PROVE  /\ IsFiniteSet({x} \X (1 .. n))
         /\ Cardinality({x} \X (1 .. n)) = n
<1>1. IsFiniteSet(1 .. n) /\ Cardinality(1 .. n) = n
  BY FS_Interval
<1>2. IsFiniteSet({x}) /\ Cardinality({x}) = 1
  BY FS_Singleton
<1>3. /\ IsFiniteSet({x} \X (1 .. n))
      /\ Cardinality({x} \X (1 .. n)) = Cardinality({x}) * Cardinality(1 .. n)
  BY <1>1, <1>2, FS_Product
<1> QED
  BY <1>1, <1>2, <1>3

\* Finitely many owners have finitely many permits.
LEMMA UnitsFinite ==
  ASSUME NEW S, IsFiniteSet(S), NEW f \in [S -> Nat]
  PROVE  IsFiniteSet(Units(f)) /\ Total(f) \in Nat
<1> DEFINE each == [x \in S |-> {x} \X (1 .. f[x])]
           all == {{x} \X (1 .. f[x]) : x \in S}
<1>1. each \in Surjection(S, all)
  <2>1. each \in [S -> all]
    BY Zenon
  <2>2. \A T \in all : \E x \in S : each[x] = T
    BY Zenon
  <2> QED
    BY <2>1, <2>2, Zenon DEF Surjection
<1>2. IsFiniteSet(all)
  BY <1>1, FS_Surjection
<1>3. \A T \in all : IsFiniteSet(T)
  <2>1. ASSUME NEW x \in S
        PROVE  IsFiniteSet({x} \X (1 .. f[x]))
    <3>1. f[x] \in Nat
      OBVIOUS
    <3> QED
      BY <3>1, UnitsOfOne, Zenon
  <2> QED
    BY <2>1, Zenon
<1>4. IsFiniteSet(UNION all)
  BY <1>2, <1>3, FS_UNION, Zenon
<1>5. Units(f) = UNION all
  BY DEF Units
<1> QED
  BY <1>4, <1>5, FS_CardinalityType DEF Total

\* Sets with nothing in common have their members between them.
LEMMA Apart ==
  ASSUME NEW A, IsFiniteSet(A), NEW B, IsFiniteSet(B), A \cap B = {}
  PROVE  Cardinality(A \cup B) = Cardinality(A) + Cardinality(B)
<1>1. Cardinality(A) \in Nat /\ Cardinality(B) \in Nat
  BY FS_CardinalityType
<1>2. Cardinality(A \cup B)
      = Cardinality(A) + Cardinality(B) - Cardinality(A \cap B)
  BY FS_Union, Zenon
<1>3. Cardinality(A \cap B) = 0
  BY FS_EmptySet
<1> QED
  BY <1>1, <1>2, <1>3

\* Changing what one owner has changes the total by as much.
LEMMA OneChanged ==
  ASSUME NEW S, IsFiniteSet(S), NEW f \in [S -> Nat], NEW x \in S, NEW n \in Nat
  PROVE  Total([f EXCEPT ![x] = n]) = Total(f) - f[x] + n
<1> DEFINE g == [f EXCEPT ![x] = n]
           rest == UNION {{y} \X (1 .. f[y]) : y \in S \ {x}}
           old == {x} \X (1 .. f[x])
           new == {x} \X (1 .. n)
<1>0. /\ DOMAIN f = S /\ DOMAIN g = S /\ g[x] = n
      /\ \A y \in S \ {x} : g[y] = f[y]
  OBVIOUS
<1>a. ASSUME NEW h, DOMAIN h = S, \A y \in S \ {x} : h[y] = f[y]
      PROVE  /\ Units(h) = rest \cup ({x} \X (1 .. h[x]))
             /\ rest \cap ({x} \X (1 .. h[x])) = {}
  <2>1. \A u : u \in rest <=> \E y \in S \ {x} : u \in {y} \X (1 .. h[y])
    BY <1>a, Zenon
  <2>2. \A u : u \in Units(h) <=> \E y \in S : u \in {y} \X (1 .. h[y])
    BY <1>a, Zenon DEF Units
  <2> HIDE DEF rest
  <2>3. \A u : u \in Units(h) <=> u \in rest \/ u \in {x} \X (1 .. h[x])
    BY <2>1, <2>2, Zenon
  <2>4. \A u : ~(u \in rest /\ u \in {x} \X (1 .. h[x]))
    BY <2>1
  <2> QED
    BY <2>3, <2>4, Zenon
<1>1. Units(f) = rest \cup old /\ rest \cap old = {}
  BY <1>0, <1>a, Zenon
<1>2. Units(g) = rest \cup new /\ rest \cap new = {}
  BY <1>0, <1>a, Zenon
<1>3. IsFiniteSet(rest)
  BY <1>1, UnitsFinite, FS_Subset
<1>4. IsFiniteSet(old) /\ Cardinality(old) = f[x]
  BY UnitsOfOne, Zenon
<1>5. IsFiniteSet(new) /\ Cardinality(new) = n
  BY UnitsOfOne, Zenon
<1>6. Cardinality(rest) \in Nat
  BY <1>3, FS_CardinalityType
<1> HIDE DEF rest, old, new
<1>7. Total(f) = Cardinality(rest) + f[x]
  BY <1>1, <1>3, <1>4, Apart, Zenon DEF Total
<1>8. Total(g) = Cardinality(rest) + n
  BY <1>2, <1>3, <1>5, Apart, Zenon DEF Total
<1> QED
  BY <1>6, <1>7, <1>8

\* Owners with nothing have no permits between them.
LEMMA NoneOwned ==
  ASSUME NEW S
  PROVE  Total([x \in S |-> 0]) = 0
<1>1. Units([x \in S |-> 0]) = {}
  BY DEF Units
<1> QED
  BY <1>1, FS_EmptySet DEF Total

\* The permits in use are finitely many.
LEMMA HeldFinite ==
  ASSUME Configured
  PROVE  IsFiniteSet(Held) /\ Cardinality(Held) \in Nat
<1>1. Held \in SUBSET Tasks
  BY Zenon DEF Held
<1>2. IsFiniteSet(Held)
  BY <1>1, FS_Subset, Zenon DEF Configured
<1> QED
  BY <1>2, FS_CardinalityType, Zenon

\* A task that moves between two labels without a permit, or with one.
LEMMA HeldSame ==
  ASSUME TypeOK, NEW t \in Tasks, NEW l, Goes(t, l),
         pc[t] \in {"touch", "held"} <=> l \in {"touch", "held"}
  PROVE  Held' = Held
<1>1. pc' = [pc EXCEPT ![t] = l] /\ DOMAIN pc = Tasks
  BY Zenon DEF Goes, TypeOK
<1>2. \A u \in Tasks : pc'[u] \in {"touch", "held"} <=> pc[u] \in {"touch", "held"}
  BY <1>1
<1> QED
  BY <1>2, Zenon DEF Held

\* A task that gets its permit.
LEMMA HeldGains ==
  ASSUME Configured, TypeOK, NEW t \in Tasks, NEW l, Goes(t, l),
         pc[t] \notin {"touch", "held"}, l \in {"touch", "held"}
  PROVE  Cardinality(Held') = Cardinality(Held) + 1
<1>1. pc' = [pc EXCEPT ![t] = l] /\ DOMAIN pc = Tasks
  BY Zenon DEF Goes, TypeOK
<1>2. \A u \in Tasks : pc'[u] \in {"touch", "held"}
                       <=> u = t \/ pc[u] \in {"touch", "held"}
  BY <1>1
<1>3. Held' = Held \cup {t} /\ t \notin Held
  BY <1>2 DEF Held
<1> QED
  BY <1>3, HeldFinite, FS_AddElement

\* A task that gives its permit back.
LEMMA HeldLoses ==
  ASSUME Configured, TypeOK, NEW t \in Tasks, NEW l, Goes(t, l),
         pc[t] \in {"touch", "held"}, l \notin {"touch", "held"}
  PROVE  Cardinality(Held') = Cardinality(Held) - 1
<1>1. pc' = [pc EXCEPT ![t] = l] /\ DOMAIN pc = Tasks
  BY Zenon DEF Goes, TypeOK
<1>2. \A u \in Tasks : pc'[u] \in {"touch", "held"}
                       <=> u /= t /\ pc[u] \in {"touch", "held"}
  BY <1>1
<1>3. Held' = Held \ {t} /\ t \in Held
  BY <1>2 DEF Held
<1> QED
  BY <1>3, HeldFinite, FS_RemoveElement

\* The sums are numbers, so none of their parts exceeds the counter.
LEMMA Parts ==
  ASSUME Configured, TypeOK
  PROVE  /\ Idle \in Nat /\ Total(grant) \in Nat /\ Cardinality(Held) \in Nat
         /\ PermitsConserved => took <= charged
<1>1. credits \in [Workers -> Nat] /\ grant \in [Tasks -> Nat] /\ took \in Nat
  BY Sizes DEF TypeOK
<1>2. Idle \in Nat
  BY <1>1, Sizes, UnitsFinite, Zenon DEF Idle
<1>3. Total(grant) \in Nat
  BY <1>1, UnitsFinite, Zenon DEF Configured
<1>4. Cardinality(Held) \in Nat
  BY HeldFinite, Zenon
<1> QED
  BY <1>1, <1>2, <1>3, <1>4 DEF PermitsConserved

\* One credit cell changed.
LEMMA CellChanged ==
  ASSUME Configured, TypeOK, NEW w \in Workers, NEW n \in Nat,
         credits' = [credits EXCEPT ![w] = n]
  PROVE  Idle' = Idle - credits[w] + n
<1>1. credits \in [Workers -> Nat]
  BY Zenon DEF TypeOK
<1>2. Total([credits EXCEPT ![w] = n]) = Total(credits) - credits[w] + n
  BY <1>1, Sizes, OneChanged, Zenon
<1>3. Idle' = Total(credits')
  BY Zenon DEF Idle, Total, Units
<1> QED
  BY <1>2, <1>3, Zenon DEF Idle

\* One grant changed.
LEMMA GrantChanged ==
  ASSUME Configured, TypeOK, NEW t \in Tasks, NEW n \in Nat,
         grant' = [grant EXCEPT ![t] = n]
  PROVE  Total(grant)' = Total(grant) - grant[t] + n
<1>1. grant \in [Tasks -> Nat]
  BY Sizes DEF TypeOK
<1>2. Total([grant EXCEPT ![t] = n]) = Total(grant) - grant[t] + n
  <2>1. IsFiniteSet(Tasks)
    BY Zenon DEF Configured
  <2> QED
    BY <1>1, <2>1, OneChanged, Zenon
<1> QED
  BY <1>2, Zenon

\* A charge takes at least one permit and stays below the limit it loaded.
LEMMA GrantFits ==
  ASSUME Configured, TypeOK, NEW t \in Tasks, charged < ceiling[t]
  PROVE  Granted(t) \in 1 .. Batch /\ charged + Granted(t) <= ceiling[t]
<1> DEFINE room == ceiling[t] - charged
<1>1. Batch \in Nat \ {0}
  BY Sizes, Zenon
<1>2. charged \in Nat /\ ceiling[t] \in Nat
  BY DEF TypeOK
<1>3. room \in Nat \ {0} /\ charged + room = ceiling[t]
  BY <1>2
<1>4. Granted(t) = Min({Batch, room})
  BY Zenon DEF Granted
<1> HIDE DEF room
<1>5. Granted(t) = IF Batch <= room THEN Batch ELSE room
  BY <1>1, <1>3, <1>4, OfTwo
<1> QED
  BY <1>1, <1>2, <1>3, <1>5

\* At the start no permit is out.
LEMMA Opening ==
  ASSUME Configured, Init
  PROVE  Accounted
<1>1. Batch \in Nat \ {0} /\ Ceilings \subseteq Nat /\ 0 \in Workers
  BY Sizes, Zenon
<1>2. TypeOK
  <2>1. limit \in Ceilings
    BY Zenon DEF Init, Ceilings
  <2>2. /\ charged \in Nat /\ took \in Nat /\ ftries \in 0 .. FlushTries
        /\ flush \in 0 .. NWorkers
    BY DEF Init, Configured
  <2>3. /\ credits \in [Workers -> Nat] /\ ceiling \in [Tasks -> Nat]
        /\ tries \in [Tasks -> Nat] /\ grant \in [Tasks -> 0 .. Batch]
    BY <1>1 DEF Init
  <2>4. /\ stale \subseteq Workers /\ worker \in [Tasks -> Workers]
        /\ pc \in [Tasks -> {"idle", "spend", "ceiling", "charge", "bank",
                             "touch", "held"}]
        /\ fpc \in {"out", "visit", "take", "uncharge", "mark"}
    BY <1>1, Zenon DEF Init
  <2> QED
    BY <2>1, <2>2, <2>3, <2>4, Zenon DEF TypeOK
<1>3. PermitsConserved
  <2>1. Idle = 0 /\ Total(grant) = 0
    BY NoneOwned, Zenon DEF Init, Idle
  <2>2. Held = {}
    BY DEF Init, Held
  <2>3. Cardinality(Held) = 0
    BY <2>2, FS_EmptySet, Zenon
  <2> QED
    BY <2>1, <2>3 DEF Init, PermitsConserved
<1>4. HardCeiling
  BY <1>1 DEF Init, HardCeiling
<1>5. Phases
  BY DEF Init, Phases
<1> QED
  BY <1>2, <1>3, <1>4, <1>5, Zenon DEF Accounted, PermitsSound

\* The variables keep their types.  The counter stays a number because what a
\* reclamation gives back is part of it.
LEMMA TypeStep ==
  ASSUME Configured, Accounted, [Next]_lvars
  PROVE  TypeOK'
<1> USE DEF Goes, cells, tasks, control
<1>0. TypeOK /\ took <= charged /\ Phases
  BY Parts, Zenon DEF Accounted, PermitsSound
<1>a. Batch \in Nat \ {0} /\ Ceilings \subseteq Nat /\ 0 \in Workers
  BY Sizes, Zenon
<1>b. /\ SpendTries \in Nat /\ ChargeTries \in Nat /\ FlushTries \in Nat
      /\ NWorkers \in Nat
  BY DEF Configured
<1>1. ASSUME NEW t \in Tasks, NEW w \in Workers, Acquire(t, w)
      PROVE  TypeOK'
  BY <1>0, <1>b, <1>1 DEF TypeOK, Acquire
<1>2. ASSUME NEW t \in Tasks, SpendTake(t)
      PROVE  TypeOK'
  BY <1>0, <1>2 DEF TypeOK, SpendTake
<1>3. ASSUME NEW t \in Tasks, SpendMiss(t)
      PROVE  TypeOK'
  BY <1>0, <1>3 DEF TypeOK, SpendMiss
<1>4. ASSUME NEW t \in Tasks, SpendEnd(t)
      PROVE  TypeOK'
  BY <1>0, <1>4 DEF TypeOK, SpendEnd
<1>5. ASSUME NEW t \in Tasks, ChargeLimit(t)
      PROVE  TypeOK'
  BY <1>0, <1>a, <1>b, <1>5 DEF TypeOK, ChargeLimit
<1>6. ASSUME NEW t \in Tasks, ChargeTake(t)
      PROVE  TypeOK'
  <2>1. Granted(t) \in 1 .. Batch
    BY <1>0, <1>6, GrantFits, Zenon DEF ChargeTake
  <2> QED
    BY <1>0, <2>1, <1>6 DEF TypeOK, ChargeTake
<1>7. ASSUME NEW t \in Tasks, ChargeMiss(t)
      PROVE  TypeOK'
  BY <1>0, <1>7 DEF TypeOK, ChargeMiss
<1>8. ASSUME NEW t \in Tasks, Refuse(t)
      PROVE  TypeOK'
  BY <1>0, <1>a, <1>8 DEF TypeOK, Refuse
<1>9. ASSUME NEW t \in Tasks, Bank(t)
      PROVE  TypeOK'
  <2>1. grant[t] \in 1 .. Batch
    BY <1>0, <1>a, <1>9 DEF TypeOK, Phases, Bank
  <2> QED
    BY <1>0, <1>a, <2>1, <1>9 DEF TypeOK, Bank
<1>10. ASSUME NEW t \in Tasks, Touch(t)
       PROVE  TypeOK'
  BY <1>0, <1>10 DEF TypeOK, Touch
<1>11. ASSUME NEW t \in Tasks, Drop(t)
       PROVE  TypeOK'
  BY <1>0, <1>a, <1>11 DEF TypeOK, Drop
<1>12. ASSUME NEW a \in Active, refresh_retry_ceiling(a)
       PROVE  TypeOK'
  BY <1>0, <1>12 DEF TypeOK, refresh_retry_ceiling, Ceilings
<1>13. CASE flush_stale
  BY <1>0, <1>b, <1>13 DEF TypeOK, flush_stale
<1>14. CASE FlushVisit
  BY <1>0, <1>b, <1>14 DEF TypeOK, FlushVisit
<1>15. CASE FlushTake
  <2>1. flush \in Workers
    BY <1>0, <1>b, <1>15 DEF TypeOK, Phases, FlushTake, Workers
  <2> QED
    BY <1>0, <2>1, <1>15 DEF TypeOK, FlushTake
<1>16. CASE FlushMiss
  BY <1>0, <1>b, <1>16 DEF TypeOK, FlushMiss
<1>17. CASE FlushLeave
  BY <1>0, <1>17 DEF TypeOK, FlushLeave
<1>18. CASE FlushUncharge
  BY <1>0, <1>18 DEF TypeOK, FlushUncharge
<1>19. CASE FlushMark
  BY <1>0, <1>b, <1>19 DEF TypeOK, Phases, FlushMark
<1>20. CASE FlushEnd
  BY <1>0, <1>20 DEF TypeOK, FlushEnd
<1>21. ASSUME NEW w \in Workers, Age(w)
       PROVE  TypeOK'
  BY <1>0, <1>21 DEF TypeOK, Age
<1>22. CASE UNCHANGED lvars
  BY <1>0, <1>22 DEF TypeOK, lvars
<1> QED
  BY <1>1, <1>2, <1>3, <1>4, <1>5, <1>6, <1>7, <1>8, <1>9, <1>10, <1>11, <1>12,
     <1>13, <1>14, <1>15, <1>16, <1>17, <1>18, <1>19, <1>20, <1>21, <1>22, Zenon
     DEF Next, TaskStep, FlushStep

\* The phases: a grant and a reclaimed credit exist only while they are on
\* their way, and a limit is one that was published.
LEMMA PhaseStep ==
  ASSUME Configured, Accounted, [Next]_lvars
  PROVE  Phases'
<1> USE DEF Goes, cells, tasks, control
<1>0. TypeOK /\ Phases
  BY Zenon DEF Accounted, PermitsSound
<1>a. Batch \in Nat \ {0} /\ NWorkers \in Nat \ {0}
  BY Sizes, Zenon DEF Configured
<1>t. ASSUME NEW t \in Tasks, TaskStep(t) \/ Drop(t) \/ \E w \in Workers : Acquire(t, w)
      PROVE  Phases'
  <2>1. CASE ChargeTake(t)
    <3>1. Granted(t) > 0
      BY <1>0, <1>a, <2>1, GrantFits DEF ChargeTake
    <3> QED
      BY <1>0, <2>1, <3>1 DEF TypeOK, Phases, ChargeTake
  <2>2. CASE \E w \in Workers : Acquire(t, w)
    BY <1>0, <2>2 DEF TypeOK, Phases, Acquire
  <2>3. CASE SpendTake(t)
    BY <1>0, <2>3 DEF TypeOK, Phases, SpendTake
  <2>4. CASE SpendMiss(t)
    BY <1>0, <2>4 DEF TypeOK, Phases, SpendMiss
  <2>5. CASE SpendEnd(t)
    BY <1>0, <2>5 DEF TypeOK, Phases, SpendEnd
  <2>6. CASE ChargeLimit(t)
    BY <1>0, <2>6 DEF TypeOK, Phases, ChargeLimit
  <2>7. CASE ChargeMiss(t)
    BY <1>0, <2>7 DEF TypeOK, Phases, ChargeMiss
  <2>8. CASE Refuse(t)
    BY <1>0, <2>8 DEF TypeOK, Phases, Refuse
  <2>9. CASE Bank(t)
    BY <1>0, <2>9 DEF TypeOK, Phases, Bank
  <2>10. CASE Touch(t)
    BY <1>0, <2>10 DEF TypeOK, Phases, Touch
  <2>11. CASE Drop(t)
    BY <1>0, <2>11 DEF TypeOK, Phases, Drop
  <2> QED
    BY <1>t, <2>1, <2>2, <2>3, <2>4, <2>5, <2>6, <2>7, <2>8, <2>9, <2>10, <2>11,
       Zenon DEF TaskStep
<1>f. CASE FlushStep
  <2>1. CASE flush_stale
    BY <1>0, <2>1 DEF Phases, flush_stale
  <2>2. CASE FlushVisit
    BY <1>0, <2>2 DEF Phases, FlushVisit
  <2>3. CASE FlushTake
    BY <1>0, <2>3 DEF Phases, FlushTake
  <2>4. CASE FlushMiss
    BY <1>0, <2>4 DEF Phases, FlushMiss
  <2>5. CASE FlushLeave
    BY <1>0, <2>5 DEF Phases, FlushLeave
  <2>6. CASE FlushUncharge
    BY <1>0, <2>6 DEF Phases, FlushUncharge
  <2>7. CASE FlushMark
    BY <1>0, <2>7 DEF Phases, FlushMark
  <2>8. CASE FlushEnd
    BY <1>0, <2>8 DEF Phases, FlushEnd
  <2> QED
    BY <1>f, <2>1, <2>2, <2>3, <2>4, <2>5, <2>6, <2>7, <2>8, Zenon DEF FlushStep
<1>r. ASSUME NEW a \in Active, refresh_retry_ceiling(a)
      PROVE  Phases'
  BY <1>0, <1>r DEF Phases, refresh_retry_ceiling
<1>g. ASSUME NEW w \in Workers, Age(w)
      PROVE  Phases'
  BY <1>0, <1>g DEF Phases, Age
<1>u. CASE UNCHANGED lvars
  BY <1>0, <1>u DEF Phases, lvars
<1> QED
  BY <1>t, <1>f, <1>r, <1>g, <1>u, Zenon DEF Next

\* The counter passes no limit: a charge stays below the limit its task loaded,
\* which was in force once, and nothing else raises the counter.
LEMMA CeilingStep ==
  ASSUME Configured, Accounted, [Next]_lvars
  PROVE  HardCeiling'
<1> USE DEF cells, tasks, control
<1>0. TypeOK /\ HardCeiling /\ Phases /\ charged \in Nat /\ took \in Nat
  BY Zenon DEF Accounted, PermitsSound, TypeOK
<1>a. Ceilings \subseteq Nat
  BY Sizes, Zenon
<1>1. ASSUME NEW t \in Tasks, ChargeTake(t)
      PROVE  HardCeiling'
  <2>1. charged' <= ceiling[t] /\ charged' \in Nat
    BY <1>0, <1>1, GrantFits DEF ChargeTake
  <2>2. ceiling[t] \in Ceilings
    BY <1>0, <1>1 DEF ChargeTake, Phases
  <2> QED
    BY <1>a, <2>1, <2>2 DEF HardCeiling, Ceilings
<1>2. CASE charged' = charged
  BY <1>0, <1>2, Zenon DEF HardCeiling, Ceilings
<1>3. CASE FlushUncharge
  <2>1. charged' <= charged /\ charged' \in Int
    BY <1>0, <1>3 DEF FlushUncharge
  <2> QED
    BY <1>0, <1>a, <2>1 DEF HardCeiling, Ceilings
<1>4. \/ charged' = charged \/ FlushUncharge
      \/ \E t \in Tasks : ChargeTake(t)
  <2>1. ASSUME NEW t \in Tasks, TaskStep(t), ~ChargeTake(t)
        PROVE  charged' = charged
    BY <2>1, Zenon DEF TaskStep, SpendTake, SpendMiss, SpendEnd, ChargeLimit,
       ChargeMiss, Refuse, Bank, Touch
  <2>2. ASSUME NEW t \in Tasks, NEW w \in Workers, Acquire(t, w) \/ Drop(t)
        PROVE  charged' = charged
    BY <2>2, Zenon DEF Acquire, Drop
  <2>3. ASSUME FlushStep, ~FlushUncharge
        PROVE  charged' = charged
    BY <2>3, Zenon DEF FlushStep, flush_stale, FlushVisit, FlushTake, FlushMiss,
       FlushLeave, FlushMark, FlushEnd
  <2>4. ASSUME NEW a \in Active, refresh_retry_ceiling(a)
        PROVE  charged' = charged
    BY <2>4, Zenon DEF refresh_retry_ceiling
  <2>5. ASSUME NEW w \in Workers, Age(w)
        PROVE  charged' = charged
    BY <2>5, Zenon DEF Age
  <2>6. 0 \in Workers
    BY Sizes, Zenon
  <2> QED
    BY <2>1, <2>2, <2>3, <2>4, <2>5, <2>6, Zenon DEF Next, lvars
<1> QED
  BY <1>1, <1>2, <1>3, <1>4, Zenon

\* What the counter is compared with moves by exactly what the counter does.
LEMMA SumStep ==
  ASSUME Configured, Accounted, [Next]_lvars
  PROVE  PermitsConserved'
<1> USE DEF cells, tasks, control
<1>0. /\ TypeOK /\ PermitsConserved /\ Phases
      /\ Idle \in Nat /\ Total(grant) \in Nat /\ Cardinality(Held) \in Nat
      /\ took \in Nat /\ charged \in Nat
  BY Parts, Zenon DEF Accounted, PermitsSound, TypeOK
<1>a. \A t \in Tasks : worker[t] \in Workers /\ credits[worker[t]] \in Nat
  BY <1>0 DEF TypeOK
<1>b. ASSUME Held' = Held,
             UNCHANGED <<charged, credits, grant, took>>
      PROVE  PermitsConserved'
  <2>1. Idle' = Idle /\ Total(grant)' = Total(grant)
    BY <1>b, Zenon DEF Idle, Total, Units
  <2> QED
    BY <1>0, <1>b, <2>1, Zenon DEF PermitsConserved
<1>c. ASSUME NEW t \in Tasks, NEW l, Goes(t, l),
             pc[t] \in {"touch", "held"} <=> l \in {"touch", "held"},
             UNCHANGED <<charged, credits, grant, took>>
      PROVE  PermitsConserved'
  BY <1>0, <1>b, <1>c, HeldSame, Zenon
<1>1. ASSUME NEW t \in Tasks, SpendTake(t)
      PROVE  PermitsConserved'
  <2>1. Cardinality(Held') = Cardinality(Held) + 1
    BY <1>0, <1>1, HeldGains DEF SpendTake
  <2>2. Idle' = Idle - 1
    <3> DEFINE left == credits[worker[t]] - 1
    <3>1. left \in Nat /\ credits[worker[t]] - left = 1
      BY <1>a, <1>1 DEF SpendTake
    <3>2. credits' = [credits EXCEPT ![worker[t]] = left]
      BY <1>1, Zenon DEF SpendTake
    <3> HIDE DEF left
    <3>3. Idle' = Idle - credits[worker[t]] + left
      BY <1>0, <1>a, <3>1, <3>2, CellChanged, Zenon
    <3> QED
      BY <1>0, <1>a, <3>1, <3>3
  <2>3. UNCHANGED <<charged, grant, took>>
    BY <1>1, Zenon DEF SpendTake
  <2>4. Total(grant)' = Total(grant)
    BY <2>3, Zenon
  <2> QED
    BY <1>0, <2>1, <2>2, <2>3, <2>4 DEF PermitsConserved
<1>2. ASSUME NEW t \in Tasks, ChargeTake(t)
      PROVE  PermitsConserved'
  <2>1. Granted(t) \in Nat
    BY <1>0, <1>2, GrantFits, Sizes DEF ChargeTake
  <2>2. grant[t] = 0
    BY <1>0, <1>2, Sizes DEF ChargeTake, Phases, TypeOK
  <2>3. Total(grant)' = Total(grant) - grant[t] + Granted(t)
    BY <1>0, <1>2, <2>1, GrantChanged, Zenon DEF ChargeTake
  <2>4. Held' = Held
    BY <1>0, <1>2, HeldSame DEF ChargeTake
  <2>5. Idle' = Idle /\ took' = took /\ charged' = charged + Granted(t)
    BY <1>2, Zenon DEF ChargeTake, Idle
  <2>6. Cardinality(Held)' = Cardinality(Held)
    BY <2>4, Zenon
  <2> QED
    BY <1>0, <2>1, <2>2, <2>3, <2>5, <2>6 DEF PermitsConserved
<1>3. ASSUME NEW t \in Tasks, Bank(t)
      PROVE  PermitsConserved'
  <2>1. grant[t] \in Nat \ {0}
    BY <1>0, <1>3, Sizes DEF Bank, Phases, TypeOK
  <2>2. Cardinality(Held') = Cardinality(Held) + 1
    BY <1>0, <1>3, HeldGains DEF Bank
  <2>3. Idle' = Idle + (grant[t] - 1)
    <3> DEFINE banked == credits[worker[t]] + (grant[t] - 1)
    <3>1. banked \in Nat /\ banked - credits[worker[t]] = grant[t] - 1
      BY <1>a, <2>1
    <3>2. credits' = [credits EXCEPT ![worker[t]] = banked]
      BY <1>3, Zenon DEF Bank
    <3> HIDE DEF banked
    <3>3. Idle' = Idle - credits[worker[t]] + banked
      BY <1>0, <1>a, <3>1, <3>2, CellChanged, Zenon
    <3> QED
      BY <1>0, <1>a, <2>1, <3>1, <3>3
  <2>4. Total(grant)' = Total(grant) - grant[t] + 0
    <3>1. grant' = [grant EXCEPT ![t] = 0] /\ 0 \in Nat
      BY <1>3 DEF Bank
    <3> QED
      BY <1>0, <3>1, GrantChanged, Zenon
  <2>5. UNCHANGED <<charged, took>>
    BY <1>3, Zenon DEF Bank
  <2> QED
    BY <1>0, <2>1, <2>2, <2>3, <2>4, <2>5 DEF PermitsConserved
<1>4. ASSUME NEW t \in Tasks, Drop(t)
      PROVE  PermitsConserved'
  <2>1. Cardinality(Held') = Cardinality(Held) - 1
    BY <1>0, <1>4, HeldLoses DEF Drop
  <2>2. Idle' = Idle + 1
    <3> DEFINE back == credits[worker[t]] + 1
    <3>1. back \in Nat /\ back - credits[worker[t]] = 1
      BY <1>a
    <3>2. credits' = [credits EXCEPT ![worker[t]] = back]
      BY <1>4, Zenon DEF Drop
    <3> HIDE DEF back
    <3>3. Idle' = Idle - credits[worker[t]] + back
      BY <1>0, <1>a, <3>1, <3>2, CellChanged, Zenon
    <3> QED
      BY <1>0, <1>a, <3>1, <3>3
  <2>3. UNCHANGED <<charged, grant, took>>
    BY <1>4, Zenon DEF Drop
  <2>4. Total(grant)' = Total(grant)
    BY <2>3, Zenon
  <2> QED
    BY <1>0, <2>1, <2>2, <2>3, <2>4 DEF PermitsConserved
<1>5. CASE FlushTake
  <2>1. flush \in Workers /\ credits[flush] \in Nat
    BY <1>0, <1>5 DEF FlushTake, Phases, TypeOK, Workers, Configured
  <2>2. Idle' = Idle - credits[flush] + 0
    <3>1. credits' = [credits EXCEPT ![flush] = 0] /\ 0 \in Nat
      BY <1>5 DEF FlushTake
    <3> QED
      BY <1>0, <2>1, <3>1, CellChanged, Zenon
  <2>3. took = 0 /\ took' = credits[flush]
    BY <1>0, <1>5 DEF FlushTake, Phases
  <2>4. /\ UNCHANGED charged /\ Cardinality(Held)' = Cardinality(Held)
        /\ Total(grant)' = Total(grant)
    BY <1>5, Zenon DEF FlushTake, Held
  <2> QED
    BY <1>0, <2>1, <2>2, <2>3, <2>4 DEF PermitsConserved
<1>6. CASE FlushUncharge
  <2>1. charged' = charged - took /\ took' = 0
    BY <1>6, Zenon DEF FlushUncharge
  <2>2. /\ Idle' = Idle /\ Cardinality(Held)' = Cardinality(Held)
        /\ Total(grant)' = Total(grant)
    BY <1>6, Zenon DEF FlushUncharge, Held, Idle
  <2> QED
    BY <1>0, <2>1, <2>2 DEF PermitsConserved
<1>7. ASSUME NEW t \in Tasks, TaskStep(t)
      PROVE  PermitsConserved'
  <2>1. CASE SpendMiss(t)
    BY <1>b, <2>1, Zenon DEF SpendMiss, Held
  <2>2. CASE SpendEnd(t)
    BY <1>c, <2>2 DEF SpendEnd
  <2>3. CASE ChargeLimit(t)
    BY <1>c, <2>3 DEF ChargeLimit
  <2>4. CASE ChargeMiss(t)
    BY <1>b, <2>4, Zenon DEF ChargeMiss, Held
  <2>5. CASE Refuse(t)
    BY <1>c, <2>5 DEF Refuse
  <2>6. CASE Touch(t)
    BY <1>c, <2>6 DEF Touch
  <2> QED
    BY <1>1, <1>2, <1>3, <1>7, <2>1, <2>2, <2>3, <2>4, <2>5, <2>6, Zenon DEF TaskStep
<1>8. ASSUME NEW t \in Tasks, NEW w \in Workers, Acquire(t, w)
      PROVE  PermitsConserved'
  BY <1>c, <1>8 DEF Acquire
<1>9. CASE FlushStep
  <2>1. ASSUME ~FlushTake, ~FlushUncharge
        PROVE  UNCHANGED <<cells, tasks, took>> \/ FlushMark
    BY <1>9, <2>1, Zenon DEF FlushStep, flush_stale, FlushVisit, FlushMiss,
       FlushLeave, FlushEnd
  <2>2. CASE UNCHANGED <<cells, tasks, took>>
    BY <1>b, <2>2, Zenon DEF Held
  <2>3. CASE FlushMark
    BY <1>b, <2>3, Zenon DEF Held, FlushMark
  <2> QED
    BY <1>5, <1>6, <2>1, <2>2, <2>3, Zenon
<1>10. ASSUME NEW a \in Active, refresh_retry_ceiling(a)
       PROVE  PermitsConserved'
  BY <1>b, <1>10, Zenon DEF refresh_retry_ceiling, Held
<1>11. ASSUME NEW w \in Workers, Age(w)
       PROVE  PermitsConserved'
  BY <1>b, <1>11, Zenon DEF Age, Held
<1>12. CASE UNCHANGED lvars
  BY <1>b, <1>12, Zenon DEF lvars, Held
<1> QED
  BY <1>4, <1>7, <1>8, <1>9, <1>10, <1>11, <1>12, Zenon DEF Next

\* PermitsSound for every configuration: however acquires, drops, charges,
\* reclamations and changes of the retry ceiling interleave, the shared counter
\* is the permits that exist and never passes the largest limit ever in force.
THEOREM PermitsAreSound ==
  ASSUME Configured
  PROVE  Spec => []PermitsSound
<1>1. Init => Accounted
  BY Opening, Zenon
<1>2. Accounted /\ [Next]_lvars => Accounted'
  BY TypeStep, PhaseStep, CeilingStep, SumStep, Zenon DEF Accounted, PermitsSound
<1>3. Accounted => PermitsSound
  BY Zenon DEF Accounted
<1> QED
  BY <1>1, <1>2, <1>3, PTL DEF Spec
==============================================================================
