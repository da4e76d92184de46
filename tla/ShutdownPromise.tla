--------------------------- MODULE ShutdownPromise ---------------------------
(***************************************************************************)
(* What the process shutdown signal promises to the tasks that hold a      *)
(* token: a phase that only ever moves forward, Serving, Draining,         *)
(* Closing, and a wait that ends once the phase it waits for is reached,   *)
(* and never earlier.  Shutdown is the protocol that implements it.        *)
(***************************************************************************)
EXTENDS Naturals

CONSTANTS
  Waiters,      \* tasks that await ShutdownToken::drained or ::closing
  Target        \* the phase each of them awaits

Serving == 0
Draining == 1
Closing == 2

VARIABLES
  phase,        \* the phase the controller has published
  resolved      \* the waiters whose wait has returned

pvars == <<phase, resolved>>

PromiseInit ==
  /\ phase = Serving
  /\ resolved = {}

PromiseAdvance(to) ==
  /\ phase < to
  /\ phase' = to
  /\ UNCHANGED resolved

PromiseResolve(w) ==
  /\ w \notin resolved
  /\ phase >= Target[w]
  /\ resolved' = resolved \cup {w}
  /\ UNCHANGED phase

PromiseNext ==
  \/ \E to \in {Draining, Closing} : PromiseAdvance(to)
  \/ \E w \in Waiters : PromiseResolve(w)

PromiseSpec ==
  /\ PromiseInit
  /\ [][PromiseNext]_pvars
  /\ \A w \in Waiters : WF_pvars(PromiseResolve(w))
==============================================================================
