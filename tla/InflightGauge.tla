---------------------------- MODULE InflightGauge ----------------------------
(***************************************************************************)
(* The count of upstream exchanges in flight on one connection and the     *)
(* slot that holds one unit of it (irontraffic-conn/src/inflight.rs).      *)
(* Tasks admit, reset, settle and drop their slots in any order the        *)
(* borrow checker allows; each action is one atomic operation with the     *)
(* local code around it.  An exchange runs upstream from its admission     *)
(* until the owner records it as settled.                                  *)
(***************************************************************************)
EXTENDS Naturals, FiniteSetTheorems, TLAPS

CONSTANTS
  Tasks,          \* the tasks that own a slot or ask for one
  Max,            \* InflightGauge.max
  RetryLimit,     \* ADMIT_RETRY_LIMIT
  MaxUnsettled    \* bound: drops before settlement, over a whole behaviour

VARIABLES
  inflight,       \* InflightGauge.inflight
  unsettled,      \* InflightGauge.unsettled_drops
  pc,             \* idle, in admit's loop, holding a slot, or inside drop
  cur,            \* the count the task's admit last observed
  tries,          \* iterations of the task's admit loop
  cancel,         \* StreamSlot.cancel
  told,           \* resets of this slot that returned true (history, up to 2)
  orphans         \* exchanges still running whose slot is gone (history)

gvars == <<inflight, unsettled, pc, cur, tries, cancel, told, orphans>>

Holders == {t \in Tasks : pc[t] = "held"}

Asking == {t \in Tasks : pc[t] \in {"load", "cas"}}

\* A drop between its two atomic operations that will count itself.
Uncounted == {t \in Tasks : pc[t] = "drop" /\ cancel[t] # "settled"}

\* Exchanges running upstream.
Running == Cardinality({t \in Holders : cancel[t] # "settled"}) + orphans

Init ==
  /\ inflight = 0 /\ unsettled = 0 /\ orphans = 0
  /\ pc = [t \in Tasks |-> "idle"]
  /\ cur = [t \in Tasks |-> 0]
  /\ tries = [t \in Tasks |-> 0]
  /\ cancel = [t \in Tasks |-> "settled"]
  /\ told = [t \in Tasks |-> 0]

\* The observed count is compared with max before the next swap.
Observe(t, n) ==
  /\ cur' = [cur EXCEPT ![t] = inflight]
  /\ tries' = [tries EXCEPT ![t] = n]
  /\ pc' = [pc EXCEPT ![t] = IF inflight >= Max \/ n = RetryLimit THEN "idle" ELSE "cas"]

admit(t) ==
  /\ pc[t] = "idle"
  /\ pc' = [pc EXCEPT ![t] = "load"]
  /\ UNCHANGED <<inflight, unsettled, cur, tries, cancel, told, orphans>>

Load(t) ==
  /\ pc[t] = "load"
  /\ Observe(t, 0)
  /\ UNCHANGED <<inflight, unsettled, cancel, told, orphans>>

CasWin(t) ==
  /\ pc[t] = "cas"
  /\ inflight = cur[t]
  /\ inflight' = cur[t] + 1
  /\ pc' = [pc EXCEPT ![t] = "held"]
  /\ cancel' = [cancel EXCEPT ![t] = "running"]
  /\ told' = [told EXCEPT ![t] = 0]
  /\ UNCHANGED <<unsettled, cur, tries, orphans>>

\* The weak swap fails, spuriously or not, and hands back what it saw.
CasLose(t) ==
  /\ pc[t] = "cas"
  /\ Observe(t, tries[t] + 1)
  /\ UNCHANGED <<inflight, unsettled, cancel, told, orphans>>

ResetReleases(t) ==
  /\ pc[t] = "held"
  /\ cancel[t] = "running" /\ orphans < MaxUnsettled
  /\ inflight' = inflight - 1
  /\ pc' = [pc EXCEPT ![t] = "idle"]
  /\ cancel' = [cancel EXCEPT ![t] = "settled"]
  /\ orphans' = orphans + 1
  /\ UNCHANGED <<unsettled, cur, tries, told>>

on_downstream_reset(t) ==
  /\ pc[t] = "held"
  /\ cancel[t] = "running"
  /\ cancel' = [cancel EXCEPT ![t] = "cancel_requested"]
  /\ told' = [told EXCEPT ![t] = IF @ < 2 THEN @ + 1 ELSE @]
  /\ UNCHANGED <<inflight, unsettled, pc, cur, tries, orphans>>

on_upstream_settled(t) ==
  /\ pc[t] = "held"
  /\ cancel' = [cancel EXCEPT ![t] = "settled"]
  /\ UNCHANGED <<inflight, unsettled, pc, cur, tries, told, orphans>>

\* Drop for StreamSlot, first the balance, then the diagnostic.
DropBalance(t) ==
  /\ pc[t] = "held"
  /\ cancel[t] = "settled" \/ orphans < MaxUnsettled
  /\ inflight' = inflight - 1
  /\ pc' = [pc EXCEPT ![t] = "drop"]
  /\ orphans' = IF cancel[t] = "settled" THEN orphans ELSE orphans + 1
  /\ UNCHANGED <<unsettled, cur, tries, cancel, told>>

DropCount(t) ==
  /\ pc[t] = "drop"
  /\ unsettled' = IF cancel[t] = "settled" THEN unsettled ELSE unsettled + 1
  /\ pc' = [pc EXCEPT ![t] = "idle"]
  /\ cancel' = [cancel EXCEPT ![t] = "settled"]
  /\ UNCHANGED <<inflight, cur, tries, told, orphans>>

Next == \E t \in Tasks :
  \/ admit(t) \/ Load(t) \/ CasWin(t) \/ CasLose(t)
  \/ on_downstream_reset(t) \/ on_upstream_settled(t)
  \/ DropBalance(t) \/ DropCount(t)

Spec == Init /\ [][Next]_gvars

-----------------------------------------------------------------------------
TypeOK ==
  /\ inflight \in Nat /\ unsettled \in Nat /\ orphans \in Nat
  /\ pc \in [Tasks -> {"idle", "load", "cas", "held", "drop"}]
  /\ cur \in [Tasks -> Nat]
  /\ tries \in [Tasks -> 0 .. RetryLimit]
  /\ cancel \in [Tasks -> {"running", "cancel_requested", "settled"}]
  /\ told \in [Tasks -> 0 .. 2]

\* The gauge is exactly the number of slots alive, whatever order resets,
\* settlements and drops come in: no path loses capacity or admits twice.
GaugeBalanced == inflight = Cardinality(Holders)

\* Rule R2: the exchanges running upstream never exceed max by more than the
\* drops the diagnostic counter reports (or is about to), so a connection whose
\* unsettled_drops is zero never has more than max exchanges running, however
\* many of its streams the peer has reset.
WorkBounded ==
  /\ Running <= Max + unsettled + Cardinality(Uncounted)
  /\ orphans = unsettled + Cardinality(Uncounted)

\* The owner is told at most once per slot to propagate a cancellation
\* upstream, and always when the slot says that one is outstanding.
CancelOnce ==
  \A t \in Tasks : /\ told[t] <= 1
                   /\ cancel[t] = "cancel_requested" => told[t] = 1

Promise == INSTANCE AdmissionPromise WITH
  Ceiling <- Max,
  asking <- Asking,
  holding <- Holders

\* A refusal after the last retry, the one outcome of admit that the atomic
\* promise does not have.
GivesUp == \E t \in Tasks :
  /\ pc[t] = "cas" /\ pc'[t] = "idle"
  /\ tries[t] + 1 = RetryLimit
  /\ UNCHANGED <<inflight, unsettled, cancel, orphans>>

\* admit takes effect at one instant at which the number of slots justifies it;
\* the only other outcome is giving up after RetryLimit lost swaps.
AdmitsAtomically ==
  [Promise!AdmissionNext \/ GivesUp]_<<Asking, Holders>>

\* All of it, of the state a step leaves and of the step.
GaugeSound ==
  TypeOK /\ GaugeBalanced /\ WorkBounded /\ CancelOnce /\ AdmitsAtomically

-----------------------------------------------------------------------------
(* The same for every finite set of tasks, every max and retry limit, and  *)
(* any number of drops before settlement.                                  *)

Sized == IsFiniteSet(Tasks) /\ Max \in Nat /\ RetryLimit \in Nat \ {0}

\* The inductive invariant: no swap loaded at max, so the balance stays at or
\* below it; every exchange without a slot is counted or about to be; a slot
\* that is still running has not told its owner anything.
GaugeInv ==
  /\ TypeOK
  /\ GaugeBalanced /\ inflight <= Max
  /\ orphans = unsettled + Cardinality(Uncounted)
  /\ \A t \in Tasks :
       /\ pc[t] = "cas" => cur[t] < Max /\ tries[t] < RetryLimit
       /\ cancel[t] = "running" => told[t] = 0
       /\ cancel[t] = "cancel_requested" => told[t] = 1
       /\ told[t] <= 1
       /\ pc[t] \notin {"held", "drop"} => cancel[t] = "settled"

\* Slots and drops under way are finitely many.
LEMMA FiniteParts ==
  ASSUME Sized
  PROVE  /\ IsFiniteSet(Holders) /\ Cardinality(Holders) \in Nat
         /\ IsFiniteSet(Uncounted) /\ Cardinality(Uncounted) \in Nat
  BY FS_Subset, FS_CardinalityType DEF Sized, Holders, Uncounted

\* A gauge starts empty.
LEMMA InitGauge == ASSUME Sized, Init PROVE GaugeInv
<1>1. Holders = {} /\ Uncounted = {}
  BY DEF Init, Holders, Uncounted
<1>q. QED
  BY <1>1, FS_EmptySet DEF Sized, Init, GaugeInv, TypeOK, GaugeBalanced

\* No admission, reset, settlement or drop breaks GaugeInv.
LEMMA NextGauge == ASSUME Sized, GaugeInv, [Next]_gvars PROVE GaugeInv'
<1> USE DEF Sized, GaugeInv, TypeOK, GaugeBalanced
<1>0. /\ IsFiniteSet(Holders) /\ Cardinality(Holders) \in Nat
      /\ IsFiniteSet(Uncounted) /\ Cardinality(Uncounted) \in Nat
  BY FiniteParts
<1>1. ASSUME NEW t \in Tasks,
             admit(t) \/ Load(t) \/ CasLose(t) \/ on_downstream_reset(t) \/ on_upstream_settled(t)
      PROVE  GaugeInv'
  <2>1. Holders' = Holders /\ Uncounted' = Uncounted
    BY <1>1 DEF admit, Load, CasLose, Observe, on_downstream_reset, on_upstream_settled,
       Holders, Uncounted
  <2>2. CASE admit(t)
    BY <2>1, <2>2 DEF admit
  <2>3. CASE Load(t)
    BY <2>1, <2>3 DEF Load, Observe
  <2>4. CASE CasLose(t)
    BY <2>1, <2>4 DEF CasLose, Observe
  <2>5. CASE on_downstream_reset(t)
    BY <2>1, <2>5 DEF on_downstream_reset
  <2>6. CASE on_upstream_settled(t)
    BY <2>1, <2>6 DEF on_upstream_settled
  <2>q. QED
    BY <1>1, <2>2, <2>3, <2>4, <2>5, <2>6
<1>2. ASSUME NEW t \in Tasks, CasWin(t)
      PROVE  GaugeInv'
  <2>1. Holders' = Holders \cup {t} /\ t \notin Holders /\ Uncounted' = Uncounted
    BY <1>2 DEF CasWin, Holders, Uncounted
  <2>2. Cardinality(Holders') = Cardinality(Holders) + 1
    BY <1>0, <2>1, FS_AddElement
  <2>q. QED
    BY <1>2, <2>1, <2>2 DEF CasWin
<1>3. ASSUME NEW t \in Tasks, DropBalance(t)
      PROVE  GaugeInv'
  <2>1. Holders' = Holders \ {t} /\ t \in Holders
    BY <1>3 DEF DropBalance, Holders
  <2>2. Cardinality(Holders') = Cardinality(Holders) - 1 /\ Cardinality(Holders') \in Nat
    BY <1>0, <2>1, FS_RemoveElement, FS_CardinalityType
  <2>3. CASE cancel[t] = "settled"
    <3>1. Uncounted' = Uncounted
      BY <1>3, <2>3 DEF DropBalance, Uncounted
    <3>q. QED
      BY <1>0, <1>3, <2>2, <2>3, <3>1 DEF DropBalance
  <2>4. CASE cancel[t] # "settled"
    <3>1. Uncounted' = Uncounted \cup {t} /\ t \notin Uncounted
      BY <1>3, <2>4 DEF DropBalance, Uncounted
    <3>2. Cardinality(Uncounted') = Cardinality(Uncounted) + 1
      BY <1>0, <3>1, FS_AddElement
    <3>q. QED
      BY <1>0, <1>3, <2>2, <2>4, <3>2 DEF DropBalance
  <2>q. QED
    BY <2>3, <2>4
<1>4. ASSUME NEW t \in Tasks, DropCount(t)
      PROVE  GaugeInv'
  <2>1. Holders' = Holders
    BY <1>4 DEF DropCount, Holders
  <2>2. CASE cancel[t] = "settled"
    <3>1. Uncounted' = Uncounted
      BY <1>4, <2>2 DEF DropCount, Uncounted
    <3>q. QED
      BY <1>4, <2>1, <2>2, <3>1 DEF DropCount
  <2>3. CASE cancel[t] # "settled"
    <3>1. Uncounted' = Uncounted \ {t} /\ t \in Uncounted
      BY <1>4, <2>3 DEF DropCount, Uncounted
    <3>2. Cardinality(Uncounted') = Cardinality(Uncounted) - 1 /\ Cardinality(Uncounted') \in Nat
      BY <1>0, <3>1, FS_RemoveElement, FS_CardinalityType
    <3>q. QED
      BY <1>0, <1>4, <2>1, <2>3, <3>2 DEF DropCount
  <2>q. QED
    BY <2>2, <2>3
<1>5. CASE UNCHANGED gvars
  BY <1>5 DEF gvars, Holders, Uncounted
<1>q. QED
  BY <1>1, <1>2, <1>3, <1>4, <1>5 DEF Next

\* What the invariant says of the work upstream.
LEMMA GaugeMeans ==
  ASSUME Sized, GaugeInv
  PROVE  TypeOK /\ GaugeBalanced /\ WorkBounded /\ CancelOnce
<1> DEFINE busy == {t \in Holders : cancel[t] # "settled"}
<1>1. IsFiniteSet(Holders) /\ Cardinality(Holders) \in Nat /\ Cardinality(Uncounted) \in Nat
  BY FiniteParts
<1>2. Cardinality(busy) \in Nat /\ Cardinality(busy) <= Cardinality(Holders)
  BY <1>1, FS_Subset, FS_CardinalityType
<1>3. WorkBounded
  BY <1>1, <1>2 DEF WorkBounded, Running, GaugeInv, GaugeBalanced, TypeOK, Sized
<1>q. QED
  BY <1>3 DEF GaugeInv, CancelOnce

\* The promise counts with the same Cardinality.
LEMMA SameCount == \A S : Promise!Cardinality(S) = Cardinality(S)
  BY Zenon DEF Promise!Cardinality, Cardinality

\* The swap is the instant of admission; a refusal is justified where the count
\* was observed, or comes after the last retry.
LEMMA AdmitSteps ==
  ASSUME Sized, GaugeInv, [Next]_gvars
  PROVE  [Promise!AdmissionNext \/ GivesUp]_<<Asking, Holders>>
<1> USE DEF Sized, GaugeInv, TypeOK, GaugeBalanced
<1>1. ASSUME NEW t \in Tasks, admit(t)
      PROVE  Promise!AdmissionNext
  <2>1. Holders' = Holders /\ t \notin Holders /\ t \notin Asking /\ Asking' = Asking \cup {t}
    BY <1>1 DEF admit, Holders, Asking
  <2>q. QED
    BY <2>1 DEF Promise!AdmissionNext, Promise!Ask
<1>2. ASSUME NEW t \in Tasks, Load(t) \/ CasLose(t), inflight >= Max
      PROVE  Promise!AdmissionNext
  <2>1. Holders' = Holders /\ t \in Asking /\ Asking' = Asking \ {t}
    BY <1>2 DEF Load, CasLose, Observe, Holders, Asking
  <2>q. QED
    BY <1>2, <2>1, SameCount DEF Promise!AdmissionNext, Promise!TurnAway
<1>3. ASSUME NEW t \in Tasks, Load(t) \/ CasLose(t), inflight < Max
      PROVE  GivesUp \/ UNCHANGED <<Asking, Holders>>
  <2>1. CASE Load(t) \/ tries[t] + 1 # RetryLimit
    BY <1>3, <2>1 DEF Load, CasLose, Observe, Holders, Asking
  <2>2. CASE CasLose(t) /\ tries[t] + 1 = RetryLimit
    BY <2>2 DEF CasLose, Observe, GivesUp
  <2>q. QED
    BY <1>3, <2>1, <2>2
<1>4. ASSUME NEW t \in Tasks, CasWin(t)
      PROVE  Promise!AdmissionNext
  <2>1. Holders' = Holders \cup {t} /\ t \in Asking /\ Asking' = Asking \ {t}
    BY <1>4 DEF CasWin, Holders, Asking
  <2>2. Cardinality(Holders) < Max
    BY <1>4 DEF CasWin
  <2>q. QED
    BY <2>1, <2>2, SameCount DEF Promise!AdmissionNext, Promise!Take
<1>5. ASSUME NEW t \in Tasks, DropBalance(t)
      PROVE  Promise!AdmissionNext
  <2>1. Holders' = Holders \ {t} /\ t \in Holders /\ Asking' = Asking
    BY <1>5 DEF DropBalance, Holders, Asking
  <2>q. QED
    BY <2>1 DEF Promise!AdmissionNext, Promise!GiveBack
<1>6. ASSUME NEW t \in Tasks, on_downstream_reset(t) \/ on_upstream_settled(t) \/ DropCount(t)
      PROVE  UNCHANGED <<Asking, Holders>>
  BY <1>6 DEF on_downstream_reset, on_upstream_settled, DropCount, Holders, Asking
<1>7. CASE UNCHANGED gvars
  BY <1>7 DEF gvars, Holders, Asking
<1>8. inflight >= Max \/ inflight < Max
  OBVIOUS
<1>q. QED
  BY <1>1, <1>2, <1>3, <1>4, <1>5, <1>6, <1>7, <1>8 DEF Next

\* Rule R2 with an exact balance: whatever order resets, settlements and drops
\* come in, the gauge counts its slots, the work it bounds exceeds max by no
\* more than the drops reported, and a cancellation is propagated once.
THEOREM GaugeHolds ==
  ASSUME Sized
  PROVE  Spec => [](TypeOK /\ GaugeBalanced /\ WorkBounded /\ CancelOnce)
<1>1. Init => GaugeInv
  BY InitGauge
<1>2. GaugeInv /\ [Next]_gvars => GaugeInv'
  BY NextGauge
<1>3. GaugeInv => TypeOK /\ GaugeBalanced /\ WorkBounded /\ CancelOnce
  BY GaugeMeans
<1>q. QED
  BY <1>1, <1>2, <1>3, PTL DEF Spec

\* GaugeSound for any number of tasks: at every step the balance, the bound and
\* the cancellations are right, and admit takes effect at one instant that
\* justifies it.
THEOREM GaugeIsSound ==
  ASSUME Sized
  PROVE  Spec => [][GaugeSound]_gvars
<1>1. Init => GaugeInv
  BY InitGauge
<1>2. GaugeInv /\ [Next]_gvars => GaugeInv'
  BY NextGauge
<1>3. GaugeInv /\ [Next]_gvars => GaugeSound
  BY GaugeMeans, AdmitSteps, Zenon DEF GaugeSound, AdmitsAtomically
<1>q. QED
  BY <1>1, <1>2, <1>3, PTL DEF Spec
==============================================================================
