------------------------------ MODULE Shutdown -------------------------------
(***************************************************************************)
(* The process shutdown signal of irontraffic-io (shutdown.rs): one atomic *)
(* phase, and one tokio Notify that wakes the tasks waiting for the phase  *)
(* to move.  Any number of threads call begin_drain and begin_closing; any *)
(* number of tasks await drained() or closing().  Each action is one       *)
(* atomic operation of the source.                                         *)
(*                                                                         *)
(* The token's reads of the phase are Relaxed, so a waiter may read a      *)
(* phase older than the current one, down to the newest it has already     *)
(* read or been synchronised with (view).  The Notify is the only          *)
(* synchronisation: notify_waiters publishes the phase its caller wrote,   *)
(* and a Notified future acquires what was published before the count it   *)
(* recorded, or before the wake-up it received.                            *)
(***************************************************************************)
EXTENDS Naturals, TLAPS

CONSTANTS
  Callers,      \* threads holding the ShutdownController
  Waiters,      \* tasks awaiting drained() or closing()
  Target        \* Draining for a task in drained(), Closing for closing()

Serving == 0
Draining == 1
Closing == 2
Phases == 0 .. 2

ASSUME TargetAssumption == Target \in [Waiters -> {Draining, Closing}]

VARIABLES
  phase,        \* Inner.phase
  epoch,        \* the Notify's count of notify_waiters calls
  published,    \* the newest phase a reader of that count is synchronised with
  cpc, want, cur,     \* each caller: where it is, the phase it asks for, and
                      \* the phase it loaded
  wpc, view, seen     \* each waiter: where it is, the oldest phase it can
                      \* still read, and the count its Notified recorded

svars == <<phase, epoch, published, cpc, want, cur, wpc, view, seen>>

Larger(a, b) == IF a >= b THEN a ELSE b

Init ==
  /\ phase = Serving
  /\ epoch = 0
  /\ published = Serving
  /\ cpc = [c \in Callers |-> "idle"]
  /\ want = [c \in Callers |-> Draining]
  /\ cur = [c \in Callers |-> Serving]
  /\ wpc = [w \in Waiters |-> "check"]
  /\ view = [w \in Waiters |-> Serving]
  /\ seen = [w \in Waiters |-> 0]

-----------------------------------------------------------------------------
(* ShutdownController::advance: one call of begin_drain or begin_closing.  *)

Begin(c, to) ==
  /\ cpc[c] = "idle"
  /\ cpc' = [cpc EXCEPT ![c] = "load"]
  /\ want' = [want EXCEPT ![c] = to]
  /\ UNCHANGED <<phase, epoch, published, cur, wpc, view, seen>>

Load(c) ==
  /\ cpc[c] = "load"
  /\ cur' = [cur EXCEPT ![c] = phase]
  /\ cpc' = [cpc EXCEPT ![c] = IF phase >= want[c] THEN "idle" ELSE "cas"]
  /\ UNCHANGED <<phase, epoch, published, want, wpc, view, seen>>

CasForgetsNotify(c) ==
  /\ cpc[c] = "cas"
  /\ phase' = IF phase = cur[c] THEN want[c] ELSE phase
  /\ cpc' = [cpc EXCEPT ![c] = "load"]
  /\ UNCHANGED <<epoch, published, want, cur, wpc, view, seen>>

\* compare_exchange: only the caller whose load is still current moves the
\* phase; the others load again.
Cas(c) ==
  /\ cpc[c] = "cas"
  /\ IF phase = cur[c]
       THEN /\ phase' = want[c]
            /\ cpc' = [cpc EXCEPT ![c] = "notify"]
       ELSE /\ cpc' = [cpc EXCEPT ![c] = "load"]
            /\ UNCHANGED phase
  /\ UNCHANGED <<epoch, published, want, cur, wpc, view, seen>>

NotifyWaiters(c) ==
  /\ cpc[c] = "notify"
  /\ epoch' = epoch + 1
  /\ published' = Larger(published, want[c])
  /\ cpc' = [cpc EXCEPT ![c] = "idle"]
  /\ UNCHANGED <<phase, want, cur, wpc, view, seen>>

Advance(c) == Load(c) \/ Cas(c) \/ NotifyWaiters(c)

-----------------------------------------------------------------------------
(* ShutdownToken::drained and ::closing.                                   *)

\* A Relaxed load of the phase, and where the waiter goes on its result.
ReadPhase(w, otherwise) ==
  \E v \in view[w] .. phase :
    /\ view' = [view EXCEPT ![w] = v]
    /\ wpc' = [wpc EXCEPT ![w] = IF v >= Target[w] THEN "done" ELSE otherwise]

Check(w) ==
  /\ wpc[w] = "check"
  /\ ReadPhase(w, "register")
  /\ UNCHANGED <<phase, epoch, published, cpc, want, cur, seen>>

RegisterThenAwait(w) ==
  /\ wpc[w] = "register"
  /\ seen' = [seen EXCEPT ![w] = epoch]
  /\ view' = [view EXCEPT ![w] = Larger(@, published)]
  /\ wpc' = [wpc EXCEPT ![w] = "await"]
  /\ UNCHANGED <<phase, epoch, published, cpc, want, cur>>

\* Notify::notified() records the count when the future is created.
Register(w) ==
  /\ wpc[w] = "register"
  /\ seen' = [seen EXCEPT ![w] = epoch]
  /\ view' = [view EXCEPT ![w] = Larger(@, published)]
  /\ wpc' = [wpc EXCEPT ![w] = "recheck"]
  /\ UNCHANGED <<phase, epoch, published, cpc, want, cur>>

Recheck(w) ==
  /\ wpc[w] = "recheck"
  /\ ReadPhase(w, "await")
  /\ UNCHANGED <<phase, epoch, published, cpc, want, cur, seen>>

\* notified.await completes once the count has moved past the recorded one.
Wake(w) ==
  /\ wpc[w] = "await"
  /\ seen[w] # epoch
  /\ view' = [view EXCEPT ![w] = Larger(@, published)]
  /\ wpc' = [wpc EXCEPT ![w] = "check"]
  /\ UNCHANGED <<phase, epoch, published, cpc, want, cur, seen>>

\* The select in accept_or_drain drops a pending drained() when a connection
\* arrives first, and the accept loop calls accept_or_drain again.
Cancel(w) ==
  /\ wpc[w] = "await"
  /\ wpc' = [wpc EXCEPT ![w] = "check"]
  /\ UNCHANGED <<phase, epoch, published, cpc, want, cur, view, seen>>

Await(w) == Check(w) \/ Register(w) \/ Recheck(w) \/ Wake(w)

Next ==
  \/ \E c \in Callers : (\E to \in {Draining, Closing} : Begin(c, to)) \/ Advance(c)
  \/ \E w \in Waiters : Await(w) \/ Cancel(w)

Spec == Init /\ [][Next]_svars

-----------------------------------------------------------------------------
TypeOK ==
  /\ phase \in Phases
  /\ epoch \in Nat
  /\ published \in Phases
  /\ cpc \in [Callers -> {"idle", "load", "cas", "notify"}]
  /\ want \in [Callers -> {Draining, Closing}]
  /\ cur \in [Callers -> Phases]
  /\ wpc \in [Waiters -> {"check", "register", "recheck", "await", "done"}]
  /\ view \in [Waiters -> Phases]
  /\ seen \in [Waiters -> Nat]

\* The lost wake-up drained() is written against (shutdown.rs 192-204): a
\* waiter that is parked, was not woken, and whose phase has been reached is
\* about to be woken, because the thread that moved the phase has not yet
\* called notify_waiters.
NoLostWakeup ==
  \A w \in Waiters :
    wpc[w] = "await" /\ seen[w] = epoch /\ phase >= Target[w]
      => \E c \in Callers : cpc[c] = "notify"

\* The wait returns only once the phase it waits for has really been reached:
\* a wake-up for Draining does not end a wait for Closing.
NoEarlyReturn ==
  \A w \in Waiters : wpc[w] = "done" => phase >= Target[w]

\* The phase never moves backwards, and advance announces every move and
\* nothing else: a move leaves its caller about to call notify_waiters, and
\* the count moves only for a caller that has moved the phase.
OneNotifyPerMove ==
  [][ /\ phase' >= phase
      /\ (epoch' # epoch => \E c \in Callers : cpc[c] = "notify" /\ want[c] <= phase)
      /\ (phase' # phase => \E c \in Callers : cpc'[c] = "notify" /\ want[c] = phase') ]_svars

\* The protocol keeps the promise ShutdownPromise states: no wait returns
\* early, and every wait ends once its phase is reached, whoever advances it
\* and whatever the interleaving.
Promise == INSTANCE ShutdownPromise WITH
  resolved <- {w \in Waiters : wpc[w] = "done"}

KeepsPromise == Promise!PromiseSpec

------------------------------------------------------------------------------
(* The signal loses no wake-up, for any number of threads that advance it   *)
(* and of tasks that wait on it, with Relaxed reads of the phase.  The      *)
(* invariant: a future whose recorded count is still current has a view at  *)
(* least as new as what that count publishes, and whatever is not published *)
(* yet is about to be, by the caller that wrote it.                         *)

Ordered ==
  /\ published <= phase
  /\ \A w \in Waiters : view[w] <= phase /\ seen[w] <= epoch
  /\ \A c \in Callers : cpc[c] = "cas" => cur[c] < want[c]
  /\ \A c \in Callers : cpc[c] = "notify" => want[c] <= phase

Unannounced ==
  published < phase => \E c \in Callers : cpc[c] = "notify" /\ want[c] = phase

Synchronised ==
  \A w \in Waiters :
    /\ wpc[w] \in {"recheck", "await"} /\ seen[w] = epoch => published <= view[w]
    /\ wpc[w] = "await" => view[w] < Target[w]

\* The inductive invariant behind the three properties of the signal.
SignalInv ==
  /\ TypeOK
  /\ Ordered
  /\ Unannounced
  /\ Synchronised
  /\ NoEarlyReturn

\* The signal starts in Serving with nobody parked.
LEMMA InitSignal == Init => SignalInv
  BY TargetAssumption DEF Init, SignalInv, TypeOK, Ordered, Unannounced, Synchronised,
     NoEarlyReturn, Serving, Draining, Closing, Phases

\* No step of advance, drained, closing or a dropped wait breaks SignalInv.
LEMMA NextSignal == SignalInv /\ [Next]_svars => SignalInv'
<1> SUFFICES ASSUME SignalInv, [Next]_svars
             PROVE  SignalInv'
  OBVIOUS
<1> USE TargetAssumption DEF SignalInv, TypeOK, Ordered, Unannounced, Synchronised,
     NoEarlyReturn, Serving, Draining, Closing, Phases, Larger
<1>1. ASSUME NEW c \in Callers, NEW to \in {Draining, Closing}, Begin(c, to)
      PROVE  SignalInv'
  BY <1>1 DEF Begin
<1>2. ASSUME NEW c \in Callers, Load(c)
      PROVE  SignalInv'
  BY <1>2 DEF Load
<1>3. ASSUME NEW c \in Callers, Cas(c)
      PROVE  SignalInv'
  BY <1>3 DEF Cas
<1>4. ASSUME NEW c \in Callers, NotifyWaiters(c)
      PROVE  SignalInv'
  BY <1>4 DEF NotifyWaiters
<1>5. ASSUME NEW w \in Waiters, Check(w)
      PROVE  SignalInv'
  BY <1>5 DEF Check, ReadPhase
<1>6. ASSUME NEW w \in Waiters, Register(w)
      PROVE  SignalInv'
  BY <1>6 DEF Register
<1>7. ASSUME NEW w \in Waiters, Recheck(w)
      PROVE  SignalInv'
  BY <1>7 DEF Recheck, ReadPhase
<1>8. ASSUME NEW w \in Waiters, Wake(w)
      PROVE  SignalInv'
  BY <1>8 DEF Wake
<1>9. ASSUME NEW w \in Waiters, Cancel(w)
      PROVE  SignalInv'
  BY <1>9 DEF Cancel
<1>10. CASE UNCHANGED svars
  BY <1>10 DEF svars
<1>q. QED
  BY <1>1, <1>2, <1>3, <1>4, <1>5, <1>6, <1>7, <1>8, <1>9, <1>10
     DEF Next, Advance, Await

\* A parked waiter whose phase is reached has its notifier still to come.
LEMMA SignalAwake == SignalInv => NoLostWakeup
  BY TargetAssumption DEF SignalInv, TypeOK, Ordered, Unannounced, Synchronised,
     NoLostWakeup, Serving, Draining, Closing, Phases

\* drained() and closing() lose no wake-up: NoLostWakeup holds in every
\* reachable state, for every number of callers and waiters.
THEOREM SignalNoLostWakeup == Spec => []NoLostWakeup
  BY InitSignal, NextSignal, SignalAwake, PTL DEF Spec

\* drained() and closing() never return before their phase is reached.
THEOREM SignalNoEarlyReturn == Spec => []NoEarlyReturn
<1>1. SignalInv => NoEarlyReturn
  BY DEF SignalInv
<1>q. QED
  BY <1>1, InitSignal, NextSignal, PTL DEF Spec

\* The signal's variables keep their types.
THEOREM SignalTypeOK == Spec => []TypeOK
<1>1. SignalInv => TypeOK
  BY DEF SignalInv
<1>q. QED
  BY <1>1, InitSignal, NextSignal, PTL DEF Spec

\* No step of the protocol moves the phase back, moves it in silence, or
\* announces a move that was not made.
LEMMA StepAnnounced ==
  SignalInv /\ Next =>
    /\ phase' >= phase
    /\ epoch' # epoch => \E c \in Callers : cpc[c] = "notify" /\ want[c] <= phase
    /\ phase' # phase => \E c \in Callers : cpc'[c] = "notify" /\ want[c] = phase'
  BY DEF SignalInv, TypeOK, Ordered, Phases, Draining, Closing, Next, Advance, Await,
     Begin, Load, Cas, NotifyWaiters, Check, ReadPhase, Register, Recheck, Wake, Cancel

\* The phase never moves backwards and advance announces each move exactly:
\* OneNotifyPerMove holds of every behaviour.
THEOREM SignalOneNotifyPerMove == Spec => OneNotifyPerMove
  BY InitSignal, NextSignal, StepAnnounced, PTL DEF Spec, OneNotifyPerMove

-----------------------------------------------------------------------------
\* Each step of the protocol is a step of the promise or leaves it alone: the
\* successful compare_exchange is the advance, a read that sees the awaited
\* phase is the return of the wait.
LEMMA StepRefines == SignalInv /\ [Next]_svars => [Promise!PromiseNext]_(Promise!pvars)
<1> SUFFICES ASSUME SignalInv, [Next]_svars
             PROVE  [Promise!PromiseNext]_(Promise!pvars)
  OBVIOUS
<1> USE TargetAssumption DEF SignalInv, TypeOK, Ordered, Serving, Draining, Closing, Phases,
     Promise!PromiseNext, Promise!pvars, Promise!Draining, Promise!Closing
<1>1. ASSUME NEW c \in Callers, Cas(c)
      PROVE  [Promise!PromiseNext]_(Promise!pvars)
  BY <1>1 DEF Cas, Promise!PromiseAdvance
<1>2. ASSUME NEW w \in Waiters, NEW other \in {"register", "await"},
             wpc[w] # "done", ReadPhase(w, other), UNCHANGED phase
      PROVE  [Promise!PromiseNext]_(Promise!pvars)
  <2>1. PICK v \in view[w] .. phase :
           wpc' = [wpc EXCEPT ![w] = IF v >= Target[w] THEN "done" ELSE other]
    BY <1>2 DEF ReadPhase
  <2>2. CASE v >= Target[w]
    <3>1. {u \in Waiters : wpc'[u] = "done"} = {u \in Waiters : wpc[u] = "done"} \cup {w}
      BY <2>1, <2>2
    <3>2. Promise!PromiseResolve(w)
      BY <1>2, <2>2, <3>1 DEF Promise!PromiseResolve
    <3>q. QED
      BY <3>2
  <2>3. CASE ~(v >= Target[w])
    <3>1. {u \in Waiters : wpc'[u] = "done"} = {u \in Waiters : wpc[u] = "done"}
      BY <1>2, <2>1, <2>3
    <3>q. QED
      BY <1>2, <3>1
  <2>q. QED
    BY <2>2, <2>3
<1>3. ASSUME NEW w \in Waiters, Check(w) \/ Recheck(w)
      PROVE  [Promise!PromiseNext]_(Promise!pvars)
  BY <1>2, <1>3 DEF Check, Recheck
<1>4. ASSUME NEW w \in Waiters, Register(w) \/ Wake(w) \/ Cancel(w)
      PROVE  UNCHANGED Promise!pvars
  BY <1>4 DEF Register, Wake, Cancel
<1>5. ASSUME NEW c \in Callers,
             Load(c) \/ NotifyWaiters(c) \/ (\E to \in {Draining, Closing} : Begin(c, to))
      PROVE  UNCHANGED Promise!pvars
  BY <1>5 DEF Load, NotifyWaiters, Begin
<1>6. CASE UNCHANGED svars
  BY <1>6 DEF svars
<1>q. QED
  BY <1>1, <1>3, <1>4, <1>5, <1>6 DEF Next, Advance, Await

\* The protocol implements ShutdownPromise, its fairness aside: what a holder
\* of a token may rely on is exactly what the promise states.
THEOREM SignalKeepsPromise ==
  Spec => Promise!PromiseInit /\ [][Promise!PromiseNext]_(Promise!pvars)
<1>1. Init => Promise!PromiseInit
  BY DEF Init, Promise!PromiseInit, Serving, Promise!Serving
<1>q. QED
  BY <1>1, InitSignal, NextSignal, StepRefines, PTL DEF Spec
==============================================================================
