-------------------------------- MODULE Serve --------------------------------
(***************************************************************************)
(* The serving process: serve_inner of irontraffic/src/serve.rs spawns one *)
(* accept loop per shard and then runs the drain supervisor (conn/drain.rs)*)
(* in the same task; every accept loop (conn/accept.rs) admits connections *)
(* and spawns a ProxyHandler task for each.  They meet in the shutdown     *)
(* phase, the connection registry and the two loop counters.               *)
(*                                                                         *)
(* The phase and the registry are used as the promises ShutdownPromise and *)
(* AdmissionPromise state: Shutdown and ConnRegistry implement those.      *)
(* Atomic counters are sequentially consistent here.  An action is what a  *)
(* task does between two points where another thread can be seen to act.   *)
(*                                                                         *)
(* Time is a Tick that runs every timer down.  With Prompt, every task     *)
(* that can run does so before time moves on; without it the machine may   *)
(* be arbitrarily slow.                                                    *)
(***************************************************************************)
EXTENDS Naturals, FiniteSets, TLC

CONSTANTS
  Shards,       \* 1 .. n, in the order serve_inner spawns their loops
  Heads,        \* the shards that are the first of their listener
  Conns,        \* connections clients may open
  Max,          \* the registry's ceiling
  Graceful, Grace, Poll,    \* DrainConfig, in ticks
  Jitter, Dial, Idle,       \* jitter window, connect and idle timeouts
  MaxSignals,   \* how many signals the operator may send
  Prompt        \* whether tasks keep up with the clock

ASSUME ServeAssumption ==
  /\ IsFiniteSet(Shards) /\ Shards # {} /\ Shards = 1 .. Cardinality(Shards)
  /\ Heads \subseteq Shards /\ IsFiniteSet(Conns)
  /\ {Max, Graceful, Grace, Poll, Jitter, Dial, Idle, MaxSignals} \subseteq Nat
  /\ Prompt \in BOOLEAN

Serving == 0
Draining == 1
Closing == 2

VARIABLES
  phase,        \* the shutdown phase
  mpc,          \* where serve_inner, supervise and the end of run are
  deadline,     \* ticks left of the graceful window, then of the grace window
  nap,          \* ticks left of the supervisor's current sleep
  escalated, killed,    \* the DrainReport
  exit,         \* the exit code, or "none" while the process lives
  total, stopped,       \* total_loops and stopped_loops
  warned,       \* the "listening on nothing" line has been logged
  lpc,          \* where each accept loop is
  drew,         \* the value of stopped each ended loop drew
  hand,         \* the connection each loop has accepted and not yet admitted
  cpc,          \* where each connection's task is
  timer,        \* ticks left of the sleep each connection is in
  signals,      \* signals sent so far
  early, late   \* history: connections open when the drain began; how many
                \* connections each loop has accepted since

vars == <<phase, mpc, deadline, nap, escalated, killed, exit, total, stopped,
          warned, lpc, drew, hand, cpc, timer, signals, early, late>>
main == <<mpc, deadline, nap, escalated, killed, exit, total, signals, early>>
loops == <<stopped, warned, lpc, drew, hand, late>>
conns == <<cpc, timer>>

NoConn == "none"

\* The connections whose task holds a ConnGuard.
LiveStates == {"dial", "forward", "after", "jitter", "sleep", "close"}
Live == {c \in Conns : cpc[c] \in LiveStates}

Init ==
  /\ phase = Serving
  /\ mpc = "spawn"
  /\ deadline = 0 /\ nap = 0 /\ escalated = FALSE /\ killed = 0
  /\ exit = "none"
  /\ total = 0 /\ stopped = 0 /\ warned = FALSE
  /\ lpc = [s \in Shards |-> "unborn"]
  /\ drew = [s \in Shards |-> 0]
  /\ hand = [s \in Shards |-> NoConn]
  /\ cpc = [c \in Conns |-> "new"]
  /\ timer = [c \in Conns |-> 0]
  /\ signals = 0
  /\ early = {}
  /\ late = [s \in Shards |-> 0]

\* The process is gone and with it every task: guards are dropped, sockets are
\* closed, whatever the connection was doing.
Die(code) ==
  /\ mpc' = "exited"
  /\ exit' = code
  /\ cpc' = [c \in Conns |-> IF c \in Live THEN "cut"
                          ELSE IF cpc[c] = "hand" THEN "refused" ELSE cpc[c]]
  /\ lpc' = [s \in Shards |-> "gone"]

-----------------------------------------------------------------------------
(* serve_inner: spawn every accept loop, listener by listener.             *)

SpawnLoop ==
  /\ mpc = "spawn" /\ total < Cardinality(Shards)
  /\ total' = total + 1
  /\ lpc' = [lpc EXCEPT ![total + 1] = "poll"]
  /\ UNCHANGED <<phase, mpc, deadline, nap, escalated, killed, exit, stopped,
                 warned, drew, hand, conns, signals, early, late>>

\* into_acceptors fails for a listener: serve_inner returns, run exits 5.
ListenFails ==
  /\ mpc = "spawn" /\ total + 1 \in Heads
  /\ Die("5")
  /\ UNCHANGED <<phase, deadline, nap, escalated, killed, total, stopped, warned,
                 drew, hand, timer, signals, early, late>>

Supervise ==
  /\ mpc = "spawn" /\ total = Cardinality(Shards)
  /\ mpc' = "signal"
  /\ UNCHANGED <<phase, deadline, nap, escalated, killed, exit, total, loops, conns,
                 signals, early>>

-----------------------------------------------------------------------------
(* drain::supervise and the signal streams it listens with.                *)

StartDrain ==
  /\ mpc' = "begin"
  /\ deadline' = Graceful

\* A handler cannot be installed: supervise drains at once.
SignalInstallFails ==
  /\ mpc = "signal"
  /\ StartDrain
  /\ UNCHANGED <<phase, nap, escalated, killed, exit, total, loops, conns, signals, early>>

\* A signal ends the wait that is listening for it.  Before the first wait the
\* default disposition kills the process; between two waits nobody listens.
Signal ==
  /\ signals < MaxSignals /\ mpc # "exited"
  /\ signals' = signals + 1
  /\ \/ /\ mpc = "spawn"
        /\ Die("signal")
        /\ UNCHANGED <<deadline, escalated, timer>>
     \/ /\ mpc = "signal"
        /\ StartDrain
        /\ UNCHANGED <<escalated, exit, lpc, conns>>
     \/ /\ mpc = "sleep"
        /\ mpc' = "closing" /\ escalated' = TRUE
        /\ UNCHANGED <<deadline, exit, lpc, conns>>
     \/ /\ mpc \notin {"spawn", "signal", "sleep"}
        /\ UNCHANGED <<mpc, deadline, escalated, exit, lpc, conns>>
  /\ UNCHANGED <<phase, nap, killed, total, stopped, warned, drew, hand, early, late>>

BeginDrain ==
  /\ mpc = "begin"
  /\ phase' = IF phase >= Draining THEN phase ELSE Draining
  /\ mpc' = "poll"
  /\ early' = Live
  /\ UNCHANGED <<deadline, nap, escalated, killed, exit, total, loops, conns, signals>>

PollGivesUpEarly ==
  /\ mpc = "poll"
  /\ mpc' = "closing"
  /\ UNCHANGED <<phase, deadline, nap, escalated, killed, exit, total, loops, conns,
                 signals, early>>

PollWaitsForever ==
  /\ mpc = "poll"
  /\ IF Live = {} THEN mpc' = "closing" /\ UNCHANGED nap
                  ELSE mpc' = "sleep" /\ nap' = Poll
  /\ UNCHANGED <<phase, deadline, escalated, killed, exit, total, loops, conns, signals, early>>

\* One turn of the loop: no connection left, deadline reached, or someone else
\* already moved the phase; otherwise sleep one poll interval.
PollBalance ==
  /\ mpc = "poll"
  /\ IF Live = {} \/ deadline = 0 \/ phase = Closing
       THEN /\ mpc' = "closing"
            /\ escalated' = (Live # {} /\ deadline # 0)
            /\ UNCHANGED nap
       ELSE /\ mpc' = "sleep" /\ nap' = Poll
            /\ UNCHANGED escalated
  /\ UNCHANGED <<phase, deadline, killed, exit, total, loops, conns, signals, early>>

\* The sleep ends, or no signal stream can be installed for it and it ends early.
SleepEnds ==
  /\ mpc = "sleep"
  /\ mpc' = "poll"
  /\ UNCHANGED <<phase, deadline, nap, escalated, killed, exit, total, loops, conns,
                 signals, early>>

BeginClosing ==
  /\ mpc = "closing"
  /\ phase' = Closing
  /\ mpc' = "grace"
  /\ deadline' = Grace
  /\ UNCHANGED <<nap, escalated, killed, exit, total, loops, conns, signals, early>>

GraceCheck ==
  /\ mpc = "grace"
  /\ IF Live # {} /\ deadline # 0
       THEN mpc' = "nap" /\ nap' = Poll
       ELSE mpc' = "report" /\ UNCHANGED nap
  /\ UNCHANGED <<phase, deadline, escalated, killed, exit, total, loops, conns, signals,
                 early>>

NapEnds ==
  /\ mpc = "nap" /\ nap = 0
  /\ mpc' = "grace"
  /\ UNCHANGED <<phase, deadline, nap, escalated, killed, exit, total, loops, conns,
                 signals, early>>

ReportDrain ==
  /\ mpc = "report"
  /\ killed' = Cardinality(Live)
  /\ mpc' = "abort"
  /\ UNCHANGED <<phase, deadline, nap, escalated, exit, total, loops, conns, signals, early>>

\* serve_inner aborts the accept tasks: one that is parked ends here, one that
\* is running ends at its next await.
AbortLoops ==
  /\ mpc = "abort"
  /\ mpc' = "shutdown"
  /\ UNCHANGED <<phase, deadline, nap, escalated, killed, exit, total, loops, conns,
                 signals, early>>

\* run shuts the runtime down, which drops every remaining task, and exits.
ExitProcess ==
  /\ mpc = "shutdown"
  /\ Die(IF killed = 0 THEN "0" ELSE "6")
  /\ UNCHANGED <<phase, deadline, nap, escalated, killed, total, stopped, warned, drew,
                 hand, timer, signals, early, late>>

SupervisorStep ==
  \/ SpawnLoop \/ Supervise
  \/ BeginDrain \/ PollBalance \/ (SleepEnds /\ nap = 0)
  \/ BeginClosing \/ GraceCheck \/ NapEnds \/ ReportDrain \/ AbortLoops \/ ExitProcess

MainStep == SupervisorStep \/ ListenFails \/ SignalInstallFails \/ SleepEnds

-----------------------------------------------------------------------------
(* accept_loop, and the wrapper serve_inner spawns it in.                  *)

Aborted == mpc \in {"shutdown", "exited"}

PollAcceptorOnly(s) ==
  /\ lpc[s] = "poll"
  /\ lpc' = [lpc EXCEPT ![s] = IF Aborted THEN "gone" ELSE "accept"]
  /\ UNCHANGED <<phase, main, stopped, warned, drew, hand, late, conns>>

\* accept_or_drain polls drained() first, and only then the acceptor.
PollDrained(s) ==
  /\ lpc[s] = "poll"
  /\ lpc' = [lpc EXCEPT ![s] = IF Aborted THEN "gone"
                               ELSE IF phase >= Draining THEN "ended" ELSE "accept"]
  /\ UNCHANGED <<phase, main, stopped, warned, drew, hand, late, conns>>

PollAccept(s) ==
  /\ lpc[s] = "accept"
  /\ \E c \in Conns :
       /\ cpc[c] = "new"
       /\ cpc' = [cpc EXCEPT ![c] = "hand"]
       /\ hand' = [hand EXCEPT ![s] = c]
  /\ lpc' = [lpc EXCEPT ![s] = "admit"]
  /\ late' = [late EXCEPT ![s] = IF phase >= Draining THEN @ + 1 ELSE @]
  /\ UNCHANGED <<phase, main, stopped, warned, drew, timer>>

\* Nothing to accept, an error to retry at once, a resource limit to back off
\* from, or an error that ends the shard.
AcceptNothing(s) ==
  /\ lpc[s] = "accept"
  /\ \E next \in {"parked", "poll", "pause", "fatal"} : lpc' = [lpc EXCEPT ![s] = next]
  /\ UNCHANGED <<phase, main, stopped, warned, drew, hand, late, conns>>

\* The select is woken by a connection or by the drain, or a sleep ends.
AwaitEnds(s) ==
  /\ lpc[s] \in {"parked", "pause"}
  /\ lpc' = [lpc EXCEPT ![s] = IF Aborted THEN "gone" ELSE "poll"]
  /\ UNCHANGED <<phase, main, stopped, warned, drew, hand, late, conns>>

\* try_admit; a refused connection is closed and the loop pauses, an admitted
\* one becomes a task that dials the upstream.
Admit(s) ==
  /\ lpc[s] = "admit"
  /\ LET c == hand[s] room == Cardinality(Live) < Max
     IN  /\ cpc' = [cpc EXCEPT ![c] = IF room THEN "dial" ELSE "refused"]
         /\ timer' = [timer EXCEPT ![c] = IF room THEN Dial ELSE 0]
         /\ lpc' = [lpc EXCEPT ![s] = IF room THEN "poll" ELSE "pause"]
  /\ hand' = [hand EXCEPT ![s] = NoConn]
  /\ UNCHANGED <<phase, main, stopped, warned, drew, late>>

CountStopped(s) ==
  /\ lpc[s] \in {"ended", "fatal"}
  /\ stopped' = stopped + 1
  /\ drew' = [drew EXCEPT ![s] = stopped + 1]
  /\ lpc' = [lpc EXCEPT ![s] = "counted"]
  /\ UNCHANGED <<phase, main, warned, hand, late, conns>>

WarnIfLast(s) ==
  /\ lpc[s] = "counted"
  /\ warned' = (warned \/ (phase < Draining /\ drew[s] = total))
  /\ lpc' = [lpc EXCEPT ![s] = "stopped"]
  /\ UNCHANGED <<phase, main, stopped, drew, hand, late, conns>>

LoopStep(s) ==
  \/ PollDrained(s) \/ PollAccept(s) \/ AcceptNothing(s) \/ AwaitEnds(s)
  \/ Admit(s) \/ CountStopped(s) \/ WarnIfLast(s)

-----------------------------------------------------------------------------
(* ProxyHandler::handle: one connection's task.                            *)

ConnGoes(c, to, ticks) ==
  /\ cpc' = [cpc EXCEPT ![c] = to]
  /\ timer' = [timer EXCEPT ![c] = ticks]
  /\ UNCHANGED <<phase, main, loops>>

\* The forwarding future is polled: it sees Closing, or waits for bytes again.
PollForward(c) ==
  IF phase = Closing THEN ConnGoes(c, "after", 0) ELSE ConnGoes(c, "forward", Idle)

\* upstream.connect() succeeds, fails, or runs into the connect timeout.
Connected(c) == cpc[c] = "dial" /\ PollForward(c)
ConnectFails(c) == cpc[c] = "dial" /\ ConnGoes(c, "after", 0)

\* Both ends finish, or an error ends the forwarding.
ForwardEnds(c) == cpc[c] = "forward" /\ ConnGoes(c, "after", 0)

\* Bytes arrive and wake the task; the phase moving to Closing does not.
ForwardWoken(c) == cpc[c] = "forward" /\ PollForward(c)

ForwardIdle(c) == cpc[c] = "forward" /\ timer[c] = 0 /\ ConnGoes(c, "after", 0)

AfterForward(c) ==
  /\ cpc[c] = "after"
  /\ ConnGoes(c, IF phase >= Draining THEN "jitter" ELSE "close", 0)

JitterBeforeClose(c) ==
  /\ cpc[c] = "jitter"
  /\ IF phase = Closing \/ Jitter = 0
       THEN ConnGoes(c, "close", 0)
       ELSE \E d \in 0 .. Jitter - 1 : ConnGoes(c, "sleep", d)

JitterEnds(c) == cpc[c] = "sleep" /\ timer[c] = 0 /\ ConnGoes(c, "close", 0)

DropGuard(c) == cpc[c] = "close" /\ ConnGoes(c, "done", 0)

\* What the task does by itself; Connected, ForwardEnds and ForwardWoken wait
\* for a peer.
ConnRuns(c) ==
  \/ (ConnectFails(c) /\ timer[c] = 0)
  \/ ForwardIdle(c) \/ AfterForward(c) \/ JitterBeforeClose(c)
  \/ JitterEnds(c) \/ DropGuard(c)

ConnStep(c) ==
  \/ Connected(c) \/ ConnectFails(c) \/ ForwardEnds(c) \/ ForwardWoken(c) \/ ConnRuns(c)

-----------------------------------------------------------------------------
Less(n) == IF n = 0 THEN 0 ELSE n - 1

\* With Prompt, time waits for the tasks that have something to do.
Quiet ==
  /\ mpc \in {"signal", "exited"} \/ (mpc \in {"sleep", "nap"} /\ nap > 0)
  /\ \A s \in Shards : lpc[s] \in {"unborn", "parked", "pause", "stopped", "gone"}
  /\ \A s \in Shards : lpc[s] = "parked" => phase < Draining
  /\ \A c \in Live : cpc[c] \in {"dial", "forward", "sleep"} /\ timer[c] > 0

Tick ==
  /\ mpc # "exited"
  /\ Prompt => Quiet
  /\ deadline' = Less(deadline)
  /\ nap' = Less(nap)
  /\ timer' = [c \in Conns |-> Less(timer[c])]
  /\ UNCHANGED <<phase, mpc, escalated, killed, exit, total, loops, cpc, signals, early>>

Running == mpc # "exited"

Next ==
  \/ MainStep
  \/ Signal
  \/ Running /\ \E s \in Shards : LoopStep(s)
  \/ Running /\ \E c \in Conns : ConnStep(c)
  \/ Tick
  \/ ~Running /\ UNCHANGED vars

Spec == Init /\ [][Next]_vars
-----------------------------------------------------------------------------
TypeOK ==
  /\ phase \in Serving .. Closing
  /\ mpc \in {"spawn", "signal", "begin", "poll", "sleep", "closing", "grace", "nap",
             "report", "abort", "shutdown", "exited"}
  /\ exit \in {"none", "0", "5", "6", "signal"}
  /\ deadline \in 0 .. (Graceful + Grace) /\ nap \in 0 .. Poll
  /\ escalated \in BOOLEAN /\ warned \in BOOLEAN
  /\ {killed, Cardinality(Live)} \subseteq 0 .. Max
  /\ total \in 0 .. Cardinality(Shards) /\ stopped \in 0 .. total
  /\ lpc \in [Shards -> {"unborn", "poll", "accept", "parked", "pause", "admit",
                         "ended", "fatal", "counted", "stopped", "gone"}]
  /\ drew \in [Shards -> 0 .. Cardinality(Shards)]
  /\ hand \in [Shards -> Conns \cup {NoConn}]
  /\ cpc \in [Conns -> LiveStates \cup {"new", "hand", "refused", "done", "cut"}]
  /\ timer \in [Conns -> Nat]
  /\ signals \in 0 .. MaxSignals
  /\ early \subseteq Conns /\ late \in [Shards -> Nat]

\* accept_or_drain polls the drain first, so a full accept queue cannot keep a
\* loop accepting: after Draining a loop takes at most the one connection it
\* was already about to poll for.
OneLateAccept == \A s \in Shards : late[s] <= 1

\* A connection open when the drain begins is told to close only after the
\* whole graceful window, or because the operator asked twice (QUICKSTART.md
\* 92-95).
GracefulWindow ==
  [][phase' = Closing /\ phase # Closing /\ early \cap Live # {}
       => deadline = 0 \/ escalated]_vars

\* Exit code 0 means that no connection open when the drain began was cut.
CleanExitIsClean ==
  exit = "0" => \A c \in early : cpc[c] # "cut"

\* A process whose accept loops have all ended by themselves says so.
NoSilentOutage ==
  (phase = Serving /\ \A s \in Shards : lpc[s] = "stopped") => warned

\* supervise has moved the phase to Closing when it returns, and the process
\* exits 0 or 6 only from there.
ClosesBeforeExit ==
  (mpc \in {"report", "abort", "shutdown"} \/ exit \in {"0", "6"}) => phase = Closing

\* The drain keeps its order: one late accept at most, a clean exit cut nobody
\* who was open when it began, no exit precedes Closing, and no accept loop
\* ends unnoticed.
DrainSound ==
  TypeOK /\ OneLateAccept /\ CleanExitIsClean /\ ClosesBeforeExit /\ NoSilentOutage

\* serve.rs 374-375 and drain.rs 61: exit code 0 is a clean shutdown, which
\* left no live connection.
ExitZeroCutsNothing == exit = "0" => \A c \in Conns : cpc[c] # "cut"

\* Connections are interchangeable: what TLC may identify.
ConnSymmetry == Permutations(Conns)
==============================================================================
