-------------------------- MODULE AdmissionPromise ---------------------------
(***************************************************************************)
(* What a bounded balance with guards promises: a holder takes a place in  *)
(* one step, only below the ceiling; a holder that asks at the ceiling is  *)
(* turned away; dropping the guard gives the place back exactly once.      *)
(* ConnRegistry and InflightGauge implement it with compare-and-swap.      *)
(***************************************************************************)
EXTENDS Naturals, FiniteSets

CONSTANTS
  Tasks,        \* the tasks that ask for a place
  Ceiling       \* the most places there are

VARIABLES
  asking,       \* tasks inside an admission call
  holding       \* tasks that own a guard

avars == <<asking, holding>>

AdmissionInit ==
  /\ asking = {}
  /\ holding = {}

Ask(t) ==
  /\ t \notin asking \cup holding
  /\ asking' = asking \cup {t}
  /\ UNCHANGED holding

Take(t) ==
  /\ t \in asking
  /\ Cardinality(holding) < Ceiling
  /\ asking' = asking \ {t}
  /\ holding' = holding \cup {t}

TurnAway(t) ==
  /\ t \in asking
  /\ Cardinality(holding) >= Ceiling
  /\ asking' = asking \ {t}
  /\ UNCHANGED holding

GiveBack(t) ==
  /\ t \in holding
  /\ holding' = holding \ {t}
  /\ UNCHANGED asking

AdmissionNext ==
  \E t \in Tasks : Ask(t) \/ Take(t) \/ TurnAway(t) \/ GiveBack(t)

AdmissionSpec == AdmissionInit /\ [][AdmissionNext]_avars
==============================================================================
