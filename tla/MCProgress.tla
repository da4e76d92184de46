-------------------- MODULE MCProgress ---------------------------------------
(* What must eventually happen, each under the fairness its scheduler      *)
(* gives it: the shutdown signal with two controllers' threads, one task   *)
(* awaiting Draining and one Closing; the serving process; a forwarded     *)
(* connection; a leased semaphore; the gradient's windows.  In a behaviour *)
(* one part moves and the others stay as they started.                     *)
EXTENDS Shutdown, Integers, TLC

CONSTANTS c1, c2, w1, w2

VARIABLES
  part,
  serve_phase, mpc, deadline, nap, escalated, killed, exit, total, stopped,
  warned, lpc, drew, hand, serve_cpc, timer, signals, early, late,
  sent, fin, window, slow, broken, closing, taken, hold, filled, written, out,
  eof, shut, capped, pc, rounds, progress, res, moved, sched, rwake, wwake,
  idle, half, life, heard, reason, silent, lone, age,
  limit, charged, credits, stale, lease_pc, worker, ceiling, tries, grant,
  flush, took, fpc, ftries,
  gradient_limit, hist, base, elapsed, loss_this_window, slow_start,
  inflight_peak, idle_windows, gradient_published, recent

MCCallers == {c1, c2}
MCWaiters == {w1, w2}
MCTarget == (w1 :> 1) @@ (w2 :> 2)

Tasks == {"t1", "t2"}
SpendTries == 1
ChargeTries == 1
FlushTries == 1

serve ==
  <<serve_phase, mpc, deadline, nap, escalated, killed, exit, total, stopped,
    warned, lpc, drew, hand, serve_cpc, timer, signals, early, late>>
Srv == INSTANCE Serve WITH
  Shards <- {1}, Heads <- {1}, Conns <- {"k1"}, Max <- 1, Graceful <- 1,
  Grace <- 1, Poll <- 1, Jitter <- 1, Dial <- 1, Idle <- 1, MaxSignals <- 2,
  Prompt <- FALSE, phase <- serve_phase, cpc <- serve_cpc

forward ==
  <<sent, fin, window, slow, broken, closing, taken, hold, filled, written,
    out, eof, shut, capped, pc, rounds, progress, res, moved, sched, rwake,
    wwake, idle, half, life, heard, reason, silent, lone, age>>
Fwd == INSTANCE Forward WITH
  Bytes <- [up |-> 1, down |-> 0], Chunk <- 2, Room <- 1, Idle <- 1,
  HalfClose <- 1, Life <- 0, Cap <- 0, MaxRounds <- 2

lease ==
  <<limit, charged, credits, stale, lease_pc, worker, ceiling, tries, grant,
    flush, took, fpc, ftries>>
Lease == INSTANCE LeasedSemaphore WITH
  NWorkers <- 2, Limit <- 2, LeaseBatch <- 2, ExactFactor <- 1, Active <- {},
  RetryPercent <- 0, MinRetry <- 1, pc <- lease_pc

gradient ==
  <<gradient_limit, hist, base, elapsed, loss_this_window, slow_start,
    inflight_peak, idle_windows, gradient_published, recent>>
Grad == INSTANCE Gradient WITH
  Rtts <- {2, 3}, Inflights <- {4}, MaxSamples <- 2, Unit <- 2, MinLimit <- 2,
  MaxLimit <- 4, AlphaNum <- 1, AlphaDen <- 2, TolNum <- 3, TolDen <- 2,
  DownNum <- 3, DownDen <- 4, WindowMin <- 1, WindowMinSamples <- 2,
  LateFactor <- 2, BaseWindows <- 1, IdleCap <- 2, Enabled <- FALSE,
  limit <- gradient_limit, published <- gradient_published

vars == <<part, svars, serve, forward, lease, gradient>>

ProgressInit ==
  /\ part \in {"shutdown", "serve", "forward", "lease", "gradient"}
  /\ Init /\ Srv!Init /\ Fwd!Init /\ Lease!Init /\ Grad!Init
  /\ part # "forward" => slow = [up |-> FALSE, down |-> FALSE]

ProgressNext ==
  \/ part = "shutdown" /\ Next
     /\ UNCHANGED <<part, serve, forward, lease, gradient>>
  \/ part = "serve" /\ Srv!Next
     /\ UNCHANGED <<part, svars, forward, lease, gradient>>
  \/ part = "forward" /\ Fwd!Next
     /\ UNCHANGED <<part, svars, serve, lease, gradient>>
  \/ part = "lease" /\ Lease!Next
     /\ UNCHANGED <<part, svars, serve, forward, gradient>>
  \/ part = "gradient" /\ Grad!Next
     /\ UNCHANGED <<part, svars, serve, forward, lease>>

\* The runtime polls every task that is ready and a running thread takes its
\* next instruction; time passes; the control task flushes and an exchange that
\* could succeed does not fail for ever; the worker keeps asking whether its
\* window is due.  Nothing makes a peer speak, a client connect or a signal come.
ProgressFairness ==
  /\ \A c \in Callers : WF_svars(part = "shutdown" /\ Advance(c))
  /\ \A w \in Waiters : WF_svars(part = "shutdown" /\ Await(w))
  /\ WF_serve(part = "serve" /\ Srv!SupervisorStep)
  /\ WF_serve(part = "serve" /\ Srv!Running /\ Srv!LoopStep(1))
  /\ WF_serve(part = "serve" /\ Srv!Running /\ Srv!ConnRuns("k1"))
  /\ WF_serve(part = "serve" /\ Srv!Tick)
  /\ WF_forward(part = "forward" /\ Fwd!Run) /\ WF_forward(part = "forward" /\ Fwd!Tick)
  /\ \A t \in Tasks : WF_lease(part = "lease" /\ Lease!TaskStep(t))
  /\ WF_lease(part = "lease" /\ Lease!FlushStep) /\ SF_lease(part = "lease" /\ Lease!FlushTake)
  /\ \A w \in Lease!Workers : WF_lease(part = "lease" /\ Lease!Age(w))
  /\ WF_gradient(part = "gradient" /\ Grad!Tick)
  /\ WF_gradient(part = "gradient" /\ Grad!maybe_close_window)

ProgressSpec == ProgressInit /\ [][ProgressNext]_vars /\ ProgressFairness

-----------------------------------------------------------------------------
\* Supervisor and main: a delivered signal ends the process, whatever peers
\* and loops do.
SignalEndsProcess == (mpc = "begin") ~> (mpc = "exited")

\* forward_bidirectional: no combination of stalls keeps a connection for
\* ever.
ConnectionEnds == part = "forward" => <>(pc = "ended")

\* LeasedSemaphore: once the traffic stops, no idle credit is stranded in the
\* cell of a worker.
QuietDrains ==
  (<>[](\A t \in Tasks : lease_pc[t] = "idle")) => <>[](charged = 0)

\* GradientController: a window that never gets enough samples closes all the
\* same.
WindowsClose == (elapsed > 0) ~> (elapsed = 0)
=============================================================================
