---------------------------- MODULE EndpointStats ----------------------------
(***************************************************************************)
(* The statistics of one slot (irontraffic-upstream/src/stats.rs) shared   *)
(* by the registry writer, which resets them field by field when it gives  *)
(* the slot to another endpoint, and by the guards of requests, some of    *)
(* which outlive the endpoint they were sent to.  Every access is relaxed: *)
(* the stores of a reset may become visible in either order and, with      *)
(* Relaxed, a load of the generation may return any value since the one    *)
(* the thread last synchronised with.  active_conns and its ConnGuard      *)
(* follow the same text as inflight; the cost word is in PeakEwma.         *)
(***************************************************************************)
EXTENDS Integers, FiniteSets

CONSTANTS
  Requests,     \* requests, each taking guards one after the other
  Relaxed,      \* whether loads of the generation may lag behind its stores
  MaxResets,    \* bound: times the slot changes hands
  MaxCharges    \* bound: guards taken

VARIABLES
  inflight, generation,
  pending,      \* stores of the reset under way that are not yet visible
  tenant,       \* how many endpoints have been published in the slot
  pc,           \* of each request
  gen_at_acquire,
  current,      \* what its release loop loaded
  epoch,        \* resets of inflight so far (history)
  charged_in,   \* the epoch each request's charge landed in (history)
  checked,      \* the generation each release loop last started in (history)
  charges,      \* guards taken (history)
  strays        \* charges and releases that crossed a reset (history)

guards == <<pc, gen_at_acquire, current>>
history == <<epoch, charged_in, checked, charges, strays>>
svars == <<inflight, generation, pending, tenant, guards, history>>

Init ==
  /\ inflight = 0 /\ generation = 1
  /\ pending = {} /\ tenant = 1
  /\ pc = [r \in Requests |-> "idle"]
  /\ gen_at_acquire = [r \in Requests |-> 0]
  /\ current = [r \in Requests |-> 0]
  /\ epoch = 1 /\ charges = 0 /\ strays = 0
  /\ charged_in = [r \in Requests |-> 0]
  /\ checked = [r \in Requests |-> 0]

To(r, label) == pc' = [pc EXCEPT ![r] = label]

-----------------------------------------------------------------------------
\* The writer.

\* intern takes a slot that has served its grace; guards may still be out.
intern ==
  /\ pending = {} /\ tenant = generation /\ epoch <= MaxResets
  /\ pending' = {"inflight", "generation"}
  /\ UNCHANGED <<inflight, generation, tenant, guards, history>>

ResetField(f) ==
  /\ f \in pending
  /\ pending' = pending \ {f}
  /\ inflight' = IF f = "inflight" THEN 0 ELSE inflight
  /\ epoch' = IF f = "inflight" THEN epoch + 1 ELSE epoch
  /\ generation' = IF f = "generation" THEN generation + 1 ELSE generation
  /\ UNCHANGED <<tenant, guards, charged_in, checked, charges, strays>>

\* The new endpoint reaches the request path with the next snapshot.
Publish ==
  /\ pending = {} /\ tenant < generation
  /\ tenant' = generation
  /\ UNCHANGED <<inflight, generation, pending, guards, history>>

-----------------------------------------------------------------------------
\* InflightGuard.

Visible(since) == IF Relaxed THEN since .. generation ELSE {generation}

\* A snapshot synchronises the request with its tenant's generation.
AcquireLoad(r) ==
  /\ pc[r] = "idle" /\ charges < MaxCharges
  /\ charges' = charges + 1
  /\ \E g \in Visible(tenant) :
       gen_at_acquire' = [gen_at_acquire EXCEPT ![r] = g]
  /\ To(r, "charge")
  /\ UNCHANGED <<inflight, generation, pending, tenant, current,
                 epoch, charged_in, checked, strays>>

AcquireAdd(r) ==
  /\ pc[r] = "charge"
  /\ inflight' = inflight + 1
  /\ charged_in' = [charged_in EXCEPT ![r] = epoch]
  /\ strays' = IF gen_at_acquire[r] = epoch THEN strays ELSE strays + 1
  /\ To(r, "holding")
  /\ UNCHANGED <<generation, pending, tenant, gen_at_acquire, current,
                 epoch, checked, charges>>

DropNoCheck(r) ==
  /\ pc[r] \in {"holding", "drop"}
  /\ To(r, "load")
  /\ checked' = [checked EXCEPT ![r] = generation]
  /\ UNCHANGED <<inflight, generation, pending, tenant, gen_at_acquire,
                 current, epoch, charged_in, charges, strays>>

\* The loop's first load: a generation other than the guard's ends it.
DropCheck(r) ==
  /\ pc[r] \in {"holding", "drop"}
  /\ \E g \in Visible(gen_at_acquire[r]) :
       To(r, IF g # gen_at_acquire[r] THEN "idle" ELSE "load")
  /\ checked' = [checked EXCEPT ![r] = generation]
  /\ UNCHANGED <<inflight, generation, pending, tenant, gen_at_acquire,
                 current, epoch, charged_in, charges, strays>>

DropLoads(r, value) ==
  /\ pc[r] = "load"
  /\ current' = [current EXCEPT ![r] = value]
  /\ UNCHANGED <<inflight, generation, pending, tenant, gen_at_acquire, history>>

\* A counter at zero was reset: there is nothing to release.
DropLoad(r) ==
  DropLoads(r, inflight) /\ To(r, IF inflight = 0 THEN "idle" ELSE "cas")

\* compare_exchange_weak may fail for no reason; the loop starts again.
DropCas(r) ==
  /\ pc[r] = "cas"
  /\ current' = [current EXCEPT ![r] = 0]
  /\ \/ /\ inflight = current[r]
        /\ inflight' = inflight - 1
        /\ strays' = IF charged_in[r] = epoch THEN strays ELSE strays + 1
        /\ To(r, "idle")
     \/ /\ To(r, "drop")
        /\ UNCHANGED <<inflight, strays>>
  /\ UNCHANGED <<generation, pending, tenant, gen_at_acquire,
                 epoch, charged_in, checked, charges>>

Next ==
  \/ intern \/ Publish
  \/ \E f \in pending : ResetField(f)
  \/ \E r \in Requests : \/ AcquireLoad(r) \/ AcquireAdd(r)
                         \/ DropCheck(r) \/ DropLoad(r) \/ DropCas(r)

-----------------------------------------------------------------------------
TypeOK ==
  /\ inflight \in Int /\ generation \in Nat /\ tenant \in Nat
  /\ pending \subseteq {"inflight", "generation"}
  /\ pc \in [Requests -> {"idle", "charge", "holding", "drop", "load", "cas"}]
  /\ current \in [Requests -> Nat]

\* The counter never wraps below zero, however a release races a reset.
NeverUnderflows == inflight >= 0

Charged ==
  {r \in Requests : pc[r] \notin {"idle", "charge"} /\ charged_in[r] = epoch}

\* Outside a reset the counter is exactly the guards charged since the last
\* one, apart from the operations that crossed a reset: without one, no charge
\* leaks and none is released twice.
DriftOnlyFromStrays ==
  generation = epoch =>
    /\ inflight <= Cardinality(Charged) + strays
    /\ Cardinality(Charged) <= inflight + strays

Settled == pending = {} /\ tenant = generation

ReleasesElsewhere(r) ==
  /\ pc[r] = "cas" /\ pc'[r] = "idle" /\ inflight' < inflight
  /\ charged_in[r] # epoch

\* A release lowers a published tenant's count that its charge is not part of
\* only when a reset came between the two halves of the acquire, or between
\* the generation check and the compare-exchange of the release itself; a
\* guard that merely outlived its endpoint never does.
OnlyRacesStray ==
  \A r \in Requests : Settled /\ ReleasesElsewhere(r) =>
       gen_at_acquire[r] # charged_in[r] \/ checked[r] # generation
==============================================================================
