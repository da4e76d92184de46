-------------------- MODULE MCResilience -------------------------------------
(* Limits and health: the leased semaphore with a fixed and with a retry   *)
(* ceiling, the gradient controller that drives it, the timing wheel and   *)
(* the health checker.  In a behaviour one part moves and the others stay  *)
(* as they started.                                                        *)
EXTENDS Integers

VARIABLES
  part,
  limit, charged, credits, stale, pc, worker, ceiling, tries, grant, flush,
  took, fpc, ftries,
  gradient_limit, hist, base, elapsed, loss_this_window, slow_start,
  inflight_peak, idle_windows, published, recent,
  now, deadline, lists, max_ids, out, left, dropped,
  health_now, wheel_now, ids, sched, due, inflight, stuck, ejected, ramping,
  draining, at, inflight_count, stuck_inflight, defer_cursor, has_traffic,
  bitmap, orders, backlog, embargo, changes

Tasks == {"t1", "t2"}
SpendTries == 1
ChargeTries == 1
FlushTries == 1
Memberships == {<<"a", "b", "c">>, <<"c">>}
Phase == [e \in {"a", "b", "c"} |-> IF e = "a" THEN 0 ELSE 1]

lease ==
  <<limit, charged, credits, stale, pc, worker, ceiling, tries, grant, flush,
    took, fpc, ftries>>
Lease == INSTANCE LeasedSemaphore WITH
  NWorkers <- 2, Limit <- 5, LeaseBatch <- 2, ExactFactor <- 1, Active <- {},
  RetryPercent <- 0, MinRetry <- 1

Retry == INSTANCE LeasedSemaphore WITH
  NWorkers <- 2, Limit <- 1, LeaseBatch <- 2, ExactFactor <- 4, Active <- {0,
  15}, RetryPercent <- 20, MinRetry <- 1

gradient ==
  <<gradient_limit, hist, base, elapsed, loss_this_window, slow_start,
    inflight_peak, idle_windows, published, recent>>
Grad == INSTANCE Gradient WITH
  Rtts <- {2, 3, 8}, Inflights <- {9}, MaxSamples <- 2, Unit <- 2,
  MinLimit <- 2, MaxLimit <- 18, AlphaNum <- 1, AlphaDen <- 2, TolNum <- 3,
  TolDen <- 2, DownNum <- 3, DownDen <- 4, WindowMin <- 1,
  WindowMinSamples <- 2, LateFactor <- 2, BaseWindows <- 2, IdleCap <- 1,
  Enabled <- TRUE, limit <- gradient_limit

wheel ==
  <<now, deadline, lists, max_ids, out, left, dropped>>
Wheel == INSTANCE TimerWheel WITH
  Ids <- {0, 1}, Slots <- 2, Levels <- 4, Catchup <- 3, Delays <- {0, 2, 5, 7,
  11}, Gaps <- {1, 2, 5, 7, 9}, Ceilings <- {1, 2}

health ==
  <<health_now, wheel_now, ids, sched, due, inflight, stuck, ejected, ramping,
    draining, at, inflight_count, stuck_inflight, defer_cursor, has_traffic,
    bitmap, orders, backlog, embargo, changes>>
Health == INSTANCE HealthCheck WITH
  Interval <- 3, EdgeInterval <- 1, DownInterval <- 2, IdleInterval <- 4,
  Timeout <- 1, Jitter <- 0, Second <- 2, MaxPerSecond <- 1, Rise <- 1,
  Fall <- 2, ReconnectEvery <- 0, MaxConcurrent <- 1, DeferMs <- 1,
  StuckFactor <- 1, MaxTime <- 3, MaxChanges <- 2, now <- health_now

vars == <<part, lease, gradient, wheel, health>>

Init ==
  /\ part \in {"lease", "retry", "gradient", "wheel", "health"}
  /\ IF part = "retry" THEN Retry!Init ELSE Lease!Init
  /\ Grad!Init /\ Wheel!Init /\ Health!Init
  /\ ids = <<"a", "b", "c">> /\ has_traffic

Next ==
  \/ part = "lease" /\ Lease!Next
     /\ UNCHANGED <<part, gradient, wheel, health>>
  \/ part = "retry" /\ Retry!Next
     /\ UNCHANGED <<part, gradient, wheel, health>>
  \/ part = "gradient" /\ Grad!Next
     /\ UNCHANGED <<part, lease, wheel, health>>
  \/ part = "wheel" /\ Wheel!Next
     /\ UNCHANGED <<part, lease, gradient, health>>
  \/ part = "health" /\ Health!Next
     /\ UNCHANGED <<part, lease, gradient, wheel>>

Spec == Init /\ [][Next]_vars

-----------------------------------------------------------------------------
\* LeasedSemaphore: a permit is neither lost nor made while acquires, drops,
\* charges and reclamation race, and no more are charged than the largest
\* limit ever in force, although each charge works with values loaded
\* earlier.
PermitsSound ==
  /\ part = "lease" => Lease!PermitsSound
  /\ part = "retry" => Retry!PermitsSound

\* GradientController: the limit stays within its range, the baseline is the
\* least of the last base_windows medians although the deque forgets most of
\* them, the semaphore is given the integer part of the limit once a window
\* acted, the limit only rises in a window whose in-flight peak reached half
\* of it, and doubling never resumes after the latency first rose above the
\* tolerated baseline.
GradientSound ==
  /\ [](part = "gradient" => Grad!TypeOK /\ Grad!BaselineExact /\ Grad!PublishedFollows)
  /\ [][part = "gradient" => Grad!OnlyLoadRaises /\ Grad!SlowStartOnce]_vars

\* TimerWheel: an id sits once, in the slot its deadline decodes to; what is
\* scheduled is what is still due; and an advance reports exactly the ids
\* that came due in its gap, through cascades, sweeps and the wrap of the
\* clock.
WheelSound ==
  [][part = "wheel" =>
       Wheel!TypeOK /\ Wheel!Structure /\ Wheel!Faithful /\
       Wheel!FiresExactly]_vars

=============================================================================
