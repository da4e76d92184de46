---------------------------- MODULE ConnRegistry -----------------------------
(***************************************************************************)
(* The process-wide connection balance of irontraffic-conn (registry.rs):  *)
(* one atomic count, admitted through a compare_exchange_weak loop and     *)
(* released only by dropping a ConnGuard.  Tasks are the accept loops and  *)
(* the connection tasks that hold the guards; each action is one atomic    *)
(* operation of the source.                                                *)
(***************************************************************************)
EXTENDS Naturals, FiniteSetTheorems, TLAPS

CONSTANTS
  Tasks,        \* concurrent callers of try_admit
  Max           \* the configured ceiling, before ConnRegistry::new raises 0

ASSUME RegistryAssumption == IsFiniteSet(Tasks) /\ Max \in Nat

VARIABLES
  current,      \* ConnRegistry.current
  pc,           \* where each task is in try_admit, or that it holds a guard
  cur           \* the count each task last loaded

rvars == <<current, pc, cur>>

\* ConnRegistry::new raises a ceiling of 0 to 1.
Ceiling == IF Max = 0 THEN 1 ELSE Max

Holders == {t \in Tasks : pc[t] = "held"}

Init ==
  /\ current = 0
  /\ pc = [t \in Tasks |-> "idle"]
  /\ cur = [t \in Tasks |-> 0]

Call(t) ==
  /\ pc[t] = "idle"
  /\ pc' = [pc EXCEPT ![t] = "load"]
  /\ UNCHANGED <<current, cur>>

LoadOverByOne(t) ==
  /\ pc[t] = "load"
  /\ cur' = [cur EXCEPT ![t] = current]
  /\ pc' = [pc EXCEPT ![t] = IF current > Ceiling THEN "idle" ELSE "cas"]
  /\ UNCHANGED current

LoadUnderByOne(t) ==
  /\ pc[t] = "load"
  /\ cur' = [cur EXCEPT ![t] = current]
  /\ pc' = [pc EXCEPT ![t] = IF current + 1 >= Ceiling THEN "idle" ELSE "cas"]
  /\ UNCHANGED current

\* The Relaxed load and the comparison with the ceiling: None at the ceiling.
Load(t) ==
  /\ pc[t] = "load"
  /\ cur' = [cur EXCEPT ![t] = current]
  /\ pc' = [pc EXCEPT ![t] = IF current >= Ceiling THEN "idle" ELSE "cas"]
  /\ UNCHANGED current

CasWin(t) ==
  /\ pc[t] = "cas"
  /\ current = cur[t]
  /\ current' = cur[t] + 1
  /\ pc' = [pc EXCEPT ![t] = "held"]
  /\ UNCHANGED cur

\* compare_exchange_weak may fail although the count is still the loaded one.
CasLose(t) ==
  /\ pc[t] = "cas"
  /\ pc' = [pc EXCEPT ![t] = "load"]
  /\ UNCHANGED <<current, cur>>

Drop(t) ==
  /\ pc[t] = "held"
  /\ current' = current - 1
  /\ pc' = [pc EXCEPT ![t] = "idle"]
  /\ UNCHANGED cur

Step(t) == Call(t) \/ Load(t) \/ CasWin(t) \/ CasLose(t) \/ Drop(t)

Next == \E t \in Tasks : Step(t)

Spec == Init /\ [][Next]_rvars

-----------------------------------------------------------------------------
TypeOK ==
  /\ current \in Nat
  /\ pc \in [Tasks -> {"idle", "load", "cas", "held"}]
  /\ cur \in [Tasks -> Nat]

\* The balance is exactly the number of guards alive, so no interleaving of
\* admissions and drops loses or invents a connection slot.
Balanced == current = Cardinality(Holders)

\* There are never more guards than the ceiling, not even for an instant
\* between two compare-and-swaps (the over-admission fetch_add would allow).
NeverOverAdmits == Cardinality(Holders) <= Ceiling

\* try_admit is atomic: every admission and every refusal takes effect at one
\* point where the number of guards justifies it.
Atomic == INSTANCE AdmissionPromise WITH
  asking <- {t \in Tasks : pc[t] \in {"load", "cas"}},
  holding <- Holders

AdmitsAtomically == Atomic!AdmissionSpec

-----------------------------------------------------------------------------
(* The balance is exact and bounded for every finite set of tasks and every *)
(* ceiling: a task about to compare-and-swap loaded a value below the       *)
(* ceiling, and the swap succeeds only while the count is still that value. *)

LoadedBelow == \A t \in Tasks : pc[t] = "cas" => cur[t] < Ceiling

\* The inductive invariant: exact balance, bounded, and no swap loaded high.
RegistryInv == TypeOK /\ Balanced /\ current <= Ceiling /\ LoadedBelow

\* Guards are a subset of the tasks, so they are finitely many.
LEMMA HoldersFinite == TypeOK => IsFiniteSet(Holders) /\ Cardinality(Holders) \in Nat
  BY RegistryAssumption, FS_Subset, FS_CardinalityType DEF Holders, TypeOK

\* The registry starts with no guard.
LEMMA InitRegistry == Init => RegistryInv
<1> SUFFICES ASSUME Init PROVE RegistryInv
  OBVIOUS
<1>1. Holders = {}
  BY DEF Init, Holders
<1>q. QED
  BY <1>1, FS_EmptySet, RegistryAssumption
     DEF Init, RegistryInv, TypeOK, Balanced, LoadedBelow, Ceiling

\* Every step of try_admit and every drop keeps the balance exact and bounded.
LEMMA NextRegistry == RegistryInv /\ [Next]_rvars => RegistryInv'
<1> SUFFICES ASSUME RegistryInv, [Next]_rvars PROVE RegistryInv'
  OBVIOUS
<1> USE RegistryAssumption DEF RegistryInv, TypeOK, Balanced, LoadedBelow, Ceiling
<1>0. IsFiniteSet(Holders) /\ Cardinality(Holders) \in Nat
  BY HoldersFinite
<1>1. ASSUME NEW t \in Tasks, Call(t) \/ Load(t) \/ CasLose(t)
      PROVE  RegistryInv'
  <2>1. Holders' = Holders
    BY <1>1 DEF Call, Load, CasLose, Holders
  <2>q. QED
    BY <1>1, <2>1 DEF Call, Load, CasLose
<1>2. ASSUME NEW t \in Tasks, CasWin(t)
      PROVE  RegistryInv'
  <2>1. Holders' = Holders \cup {t} /\ t \notin Holders
    BY <1>2 DEF CasWin, Holders
  <2>2. Cardinality(Holders') = Cardinality(Holders) + 1
    BY <1>0, <2>1, FS_AddElement
  <2>3. current' = current + 1 /\ current' <= Ceiling /\ TypeOK'
    BY <1>2 DEF CasWin
  <2>4. LoadedBelow'
    BY <1>2 DEF CasWin
  <2>q. QED
    BY <2>2, <2>3, <2>4
<1>3. ASSUME NEW t \in Tasks, Drop(t)
      PROVE  RegistryInv'
  <2>1. Holders' = Holders \ {t} /\ t \in Holders
    BY <1>3 DEF Drop, Holders
  <2>2. Cardinality(Holders') = Cardinality(Holders) - 1 /\ Cardinality(Holders') \in Nat
    BY <1>0, <2>1, FS_RemoveElement, FS_CardinalityType
  <2>q. QED
    BY <1>0, <1>3, <2>2 DEF Drop
<1>4. CASE UNCHANGED rvars
  BY <1>4 DEF rvars, Holders
<1>q. QED
  BY <1>1, <1>2, <1>3, <1>4 DEF Next, Step

\* No reachable state has more guards alive than the ceiling.
THEOREM RegistryNeverOverAdmits == Spec => []NeverOverAdmits
<1>1. RegistryInv => NeverOverAdmits
  BY DEF RegistryInv, Balanced, NeverOverAdmits
<1>q. QED
  BY <1>1, InitRegistry, NextRegistry, PTL DEF Spec

\* In every reachable state the count is exactly the number of guards alive.
THEOREM RegistryBalanced == Spec => []Balanced
<1>1. RegistryInv => Balanced
  BY DEF RegistryInv
<1>q. QED
  BY <1>1, InitRegistry, NextRegistry, PTL DEF Spec

-----------------------------------------------------------------------------
\* The promise counts with the same Cardinality.
LEMMA SameCount == \A S : Atomic!Cardinality(S) = Cardinality(S)
  BY Zenon DEF Atomic!Cardinality, Cardinality

\* The swap is the instant of admission and the load that finds the ceiling
\* reached is the instant of refusal; every other step of try_admit is silent.
LEMMA AdmissionSteps ==
  RegistryInv /\ [Next]_rvars => [Atomic!AdmissionNext]_(Atomic!avars)
<1> SUFFICES ASSUME RegistryInv, [Next]_rvars
             PROVE  [Atomic!AdmissionNext]_(Atomic!avars)
  OBVIOUS
<1> DEFINE Asking == {u \in Tasks : pc[u] \in {"load", "cas"}}
<1> USE RegistryAssumption DEF RegistryInv, TypeOK, Balanced, LoadedBelow, Ceiling
<1>1. ASSUME NEW t \in Tasks, Call(t)
      PROVE  Atomic!AdmissionNext
  <2>1. Holders' = Holders /\ t \notin Holders /\ t \notin Asking
    BY <1>1 DEF Call, Holders
  <2>2. Asking' = Asking \cup {t}
    BY <1>1 DEF Call
  <2>3. Atomic!Ask(t)
    BY <2>1, <2>2 DEF Atomic!Ask
  <2>q. QED
    BY <2>3 DEF Atomic!AdmissionNext
<1>2. ASSUME NEW t \in Tasks, Load(t), current >= Ceiling
      PROVE  Atomic!AdmissionNext
  <2>1. Holders' = Holders
    BY <1>2 DEF Load, Holders
  <2>2. Asking' = Asking \ {t} /\ t \in Asking
    BY <1>2 DEF Load
  <2>3. Atomic!TurnAway(t)
    BY <1>2, <2>1, <2>2, SameCount DEF Atomic!TurnAway
  <2>q. QED
    BY <2>3 DEF Atomic!AdmissionNext
<1>3. ASSUME NEW t \in Tasks, CasWin(t)
      PROVE  Atomic!AdmissionNext
  <2>1. Holders' = Holders \cup {t}
    BY <1>3 DEF CasWin, Holders
  <2>2. Asking' = Asking \ {t} /\ t \in Asking
    BY <1>3 DEF CasWin
  <2>3. Cardinality(Holders) < Ceiling
    BY <1>3 DEF CasWin
  <2>4. Atomic!Take(t)
    BY <2>1, <2>2, <2>3, SameCount DEF Atomic!Take
  <2>q. QED
    BY <2>4 DEF Atomic!AdmissionNext
<1>4. ASSUME NEW t \in Tasks, Drop(t)
      PROVE  Atomic!AdmissionNext
  <2>1. Holders' = Holders \ {t} /\ t \in Holders
    BY <1>4 DEF Drop, Holders
  <2>2. Asking' = Asking
    BY <1>4 DEF Drop
  <2>3. Atomic!GiveBack(t)
    BY <2>1, <2>2 DEF Atomic!GiveBack
  <2>q. QED
    BY <2>3 DEF Atomic!AdmissionNext
<1>5. ASSUME NEW t \in Tasks, CasLose(t) \/ (Load(t) /\ ~(current >= Ceiling))
      PROVE  UNCHANGED Atomic!avars
  BY <1>5 DEF CasLose, Load, Holders, Atomic!avars
<1>6. CASE UNCHANGED rvars
  BY <1>6 DEF rvars, Holders, Atomic!avars
<1>q. QED
  BY <1>1, <1>2, <1>3, <1>4, <1>5, <1>6 DEF Next, Step

\* try_admit is atomic for every finite set of tasks and every ceiling: the
\* compare-and-swap loop implements AdmissionPromise.
THEOREM RegistryAdmitsAtomically == Spec => AdmitsAtomically
<1>1. Init => Atomic!AdmissionInit
  BY DEF Init, Holders, Atomic!AdmissionInit
<1>q. QED
  BY <1>1, InitRegistry, NextRegistry, AdmissionSteps, PTL
     DEF Spec, AdmitsAtomically, Atomic!AdmissionSpec
==============================================================================
