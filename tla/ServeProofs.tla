----------------------------- MODULE ServeProofs -----------------------------
(***************************************************************************)
(* The drain keeps its order for any number of shards and connections and  *)
(* for any timeouts, prompt or slow.  ServeInv splits by who relies on it: *)
(* the balance (who holds a guard), the supervisor (what the phase and the *)
(* report say about the connections open when the drain began), the accept *)
(* loops (what each holds and has taken since), and the count of ended     *)
(* loops.                                                                  *)
(***************************************************************************)
EXTENDS Serve, FiniteSetTheorems, TLAPS

Alive == mpc # "exited"

Types ==
  /\ phase \in Serving .. Closing
  /\ mpc \in {"spawn", "signal", "begin", "poll", "sleep", "closing", "grace", "nap",
             "report", "abort", "shutdown", "exited"}
  /\ exit \in {"none", "0", "5", "6", "signal"}
  /\ deadline \in 0 .. (Graceful + Grace) /\ nap \in 0 .. Poll
  /\ escalated \in BOOLEAN /\ warned \in BOOLEAN
  /\ total \in 0 .. Cardinality(Shards) /\ stopped \in Nat
  /\ lpc \in [Shards -> {"unborn", "poll", "accept", "parked", "pause", "admit",
                         "ended", "fatal", "counted", "stopped", "gone"}]
  /\ drew \in [Shards -> 0 .. Cardinality(Shards)]
  /\ hand \in [Shards -> Conns \cup {NoConn}]
  /\ cpc \in [Conns -> LiveStates \cup {"new", "hand", "refused", "done", "cut"}]
  /\ timer \in [Conns -> Nat]
  /\ signals \in 0 .. MaxSignals
  /\ early \subseteq Conns /\ late \in [Shards -> Nat]

\* The registry is never above its ceiling, so neither is the report.
Balance == Cardinality(Live) <= Max /\ killed \in 0 .. Max

\* A loop that is about to admit holds a connection nobody else holds.
Hands ==
  /\ \A s \in Shards : lpc[s] = "admit" => hand[s] \in Conns /\ cpc[hand[s]] = "hand"
  /\ \A s, t \in Shards :
       lpc[s] = "admit" /\ lpc[t] = "admit" /\ hand[s] = hand[t] => s = t

\* A loop polls its acceptor only if it saw no drain, and has then taken nothing
\* since the drain began.
Accepts ==
  \A s \in Shards :
    /\ late[s] <= 1
    /\ phase < Draining \/ lpc[s] = "accept" => late[s] = 0

\* The connections open when the drain began only ever end; the report of none
\* left is final for them, and nothing is cut while the process lives.
Cohort ==
  /\ \A c \in early : cpc[c] \in LiveStates \cup {"done", "cut"}
  /\ Alive => \A c \in Conns : cpc[c] # "cut"
  /\ mpc \in {"abort", "shutdown"} /\ killed = 0 => early \cap Live = {}
  /\ CleanExitIsClean

\* What each stage of the supervisor knows of the phase and of its window.
Stages ==
  /\ mpc \in {"grace", "nap", "report", "abort", "shutdown"} => phase = Closing
  /\ exit \in {"0", "6"} => phase = Closing
  /\ Alive => exit = "none"
  /\ mpc = "closing" /\ phase # Closing /\ early \cap Live # {} => deadline = 0 \/ escalated

Ended == {s \in Shards : lpc[s] \in {"counted", "stopped"}}

\* Loops are counted as they end, and the last one counted has drawn the count.
Counted ==
  /\ \A s \in Shards : IF Alive THEN lpc[s] = "unborn" <=> s > total ELSE lpc[s] = "gone"
  /\ \A s \in Shards : drew[s] <= stopped
  /\ stopped <= total
  /\ Alive => stopped = Cardinality(Ended)
  /\ Alive /\ stopped > 0 => \E s \in Ended : drew[s] = stopped
  /\ \A s \in Shards :
       lpc[s] = "stopped" /\ drew[s] = Cardinality(Shards) /\ phase = Serving => warned

\* The inductive invariant.
ServeInv == Types /\ Balance /\ Hands /\ Accepts /\ Cohort /\ Stages /\ Counted

-----------------------------------------------------------------------------
\* There are finitely many shards and connections, and at least one shard.
LEMMA Finite ==
  /\ IsFiniteSet(Live) /\ Cardinality(Live) \in Nat
  /\ IsFiniteSet(Ended) /\ Cardinality(Ended) \in Nat
  /\ Cardinality(Shards) \in Nat \ {0} /\ Shards = 1 .. Cardinality(Shards)
<1>1. Live \subseteq Conns /\ Ended \subseteq Shards
  BY DEF Live, Ended
<1>2. Cardinality(Shards) \in Nat /\ Cardinality(Shards) # 0
  BY ServeAssumption, FS_CardinalityType, FS_EmptySet
<1>q. QED
  BY <1>1, <1>2, ServeAssumption, FS_Subset, FS_CardinalityType

\* The ceiling and every interval are natural numbers.
LEMMA Sizes ==
  /\ Max \in Nat /\ Graceful \in Nat /\ Grace \in Nat /\ Poll \in Nat
  /\ Jitter \in Nat /\ Dial \in Nat /\ Idle \in Nat /\ MaxSignals \in Nat
  BY ServeAssumption

\* The process starts with no loop, no connection and the phase at Serving.
LEMMA InitServe == Init => ServeInv
<1> SUFFICES ASSUME Init PROVE ServeInv
  OBVIOUS
<1>1. Live = {} /\ Ended = {}
  BY DEF Init, Live, Ended, LiveStates
<1>2. Cardinality(Live) = 0 /\ Cardinality(Ended) = 0
  BY <1>1, FS_EmptySet
<1>3. Cardinality(Shards) \in Nat /\ Shards = 1 .. Cardinality(Shards)
  BY Finite
<1>4. Types
  <2>1. phase \in Serving .. Closing /\ deadline \in 0 .. (Graceful + Grace) /\ nap \in 0 .. Poll
    BY Sizes DEF Init, Serving, Closing
  <2>2. /\ total \in 0 .. Cardinality(Shards) /\ stopped \in Nat
        /\ signals \in 0 .. MaxSignals /\ late \in [Shards -> Nat]
        /\ drew \in [Shards -> 0 .. Cardinality(Shards)] /\ timer \in [Conns -> Nat]
    BY <1>3, Sizes DEF Init
  <2>3. /\ escalated \in BOOLEAN /\ warned \in BOOLEAN /\ early \subseteq Conns
        /\ hand \in [Shards -> Conns \cup {NoConn}]
    BY Zenon DEF Init
  <2>4. cpc \in [Conns -> LiveStates \cup {"new", "hand", "refused", "done", "cut"}]
    BY DEF Init
  <2>q. QED
    BY <2>1, <2>2, <2>3, <2>4 DEF Init, Types
<1>5. Counted
  BY <1>2, <1>3 DEF Init, Counted, Alive
<1>q. QED
  BY <1>1, <1>2, <1>4, <1>5, Sizes
     DEF Init, ServeInv, Balance, Hands, Accepts, Cohort, Stages, Alive, CleanExitIsClean

\* A connection's task only moves between the states that hold a guard or drops
\* its guard: the balance and the cohort shrink.
LEMMA ConnMoves ==
  ASSUME ServeInv, Alive, NEW c \in Conns, cpc[c] \in LiveStates,
         NEW to \in LiveStates \cup {"done"}, NEW ticks \in Nat, ConnGoes(c, to, ticks)
  PROVE  ServeInv'
<1> USE DEF ServeInv, ConnGoes, main, loops, Alive
<1>1. cpc' = [cpc EXCEPT ![c] = to] /\ cpc \in [Conns -> LiveStates \cup {"new", "hand", "refused", "done", "cut"}]
  BY DEF Types
<1>2. Live' \subseteq Live
  BY <1>1 DEF Live, LiveStates
<1>3. Cardinality(Live') <= Cardinality(Live) /\ Cardinality(Live') \in Nat
  BY <1>2, Finite, FS_Subset, FS_CardinalityType
<1>4. Types'
  BY <1>1 DEF Types
<1>5. Balance'
  BY <1>3, Finite, Sizes DEF Balance
<1>6. Hands'
  BY <1>1 DEF Hands, Types, LiveStates
<1>7. Cohort'
  BY <1>1, <1>2 DEF Cohort, LiveStates, CleanExitIsClean, Stages
<1>8. Stages'
  BY <1>2 DEF Stages
<1>9. Accepts' /\ Counted'
  BY DEF Accepts, Counted, Ended
<1>q. QED
  BY <1>4, <1>5, <1>6, <1>7, <1>8, <1>9

\* A loop moves between states that hold no connection and are not counted, and
\* starts to poll its acceptor only if it saw no drain.
LEMMA LoopMoves ==
  ASSUME ServeInv, Alive, NEW s \in Shards,
         lpc[s] \in {"poll", "accept", "parked", "pause"},
         NEW to \in {"poll", "accept", "parked", "pause", "ended", "fatal", "gone"},
         to = "accept" => phase < Draining,
         lpc' = [lpc EXCEPT ![s] = to],
         UNCHANGED <<phase, main, stopped, warned, drew, hand, late, conns>>
  PROVE  ServeInv'
<1> USE DEF ServeInv, main, conns, Alive
<1>1. Live' = Live
  BY DEF Live
<1>2. Ended' = Ended
  BY DEF Ended, Types
<1>3. Types' /\ Balance' /\ Cohort' /\ Stages'
  BY <1>1 DEF Types, Balance, Cohort, Stages, CleanExitIsClean
<1>4. Hands' /\ Accepts'
  BY DEF Hands, Accepts, Types
<1>5. Counted'
  <2>1. \A t \in Shards : lpc'[t] = "unborn" <=> t > total
    BY DEF Counted, Types
  <2>2. \A t \in Shards : lpc'[t] = "stopped" => lpc[t] = "stopped"
    BY DEF Types
  <2>q. QED
    BY <1>2, <2>1, <2>2 DEF Counted
<1>q. QED
  BY <1>3, <1>4, <1>5

\* The loop takes a connection from its acceptor: the one late accept.
LEMMA LoopTakes ==
  ASSUME ServeInv, Alive, NEW s \in Shards, PollAccept(s)
  PROVE  ServeInv'
<1> USE DEF ServeInv, main, Alive
<1>0. PICK c \in Conns : /\ cpc[c] = "new"
                         /\ cpc' = [cpc EXCEPT ![c] = "hand"]
                         /\ hand' = [hand EXCEPT ![s] = c]
  BY Zenon DEF PollAccept
<1>a. /\ lpc[s] = "accept" /\ lpc' = [lpc EXCEPT ![s] = "admit"]
      /\ late' = [late EXCEPT ![s] = IF phase >= Draining THEN @ + 1 ELSE @]
      /\ UNCHANGED <<phase, main, stopped, warned, drew, timer>>
  BY DEF PollAccept
<1>1. Live' = Live
  BY <1>0 DEF Live, LiveStates, Types
<1>2. Ended' = Ended
  BY <1>a DEF Ended, Types
<1>3. Types'
  <2>1. late' \in [Shards -> Nat]
    BY <1>a DEF Types
  <2>q. QED
    BY <1>0, <1>a, <2>1 DEF Types
<1>4. Balance' /\ Stages'
  BY <1>1, <1>a DEF Balance, Stages
<1>5. Cohort'
  BY <1>0, <1>1, <1>a DEF Cohort, CleanExitIsClean, Types, LiveStates
<1>6. Hands'
  BY <1>0, <1>a DEF Hands, Types
<1>7. Accepts'
  BY <1>a DEF Accepts, Types, Draining, Serving, Closing
<1>8. Counted'
  <2>1. \A t \in Shards : lpc'[t] = "unborn" <=> t > total
    BY <1>a DEF Counted, Types
  <2>2. \A t \in Shards : lpc'[t] = "stopped" => lpc[t] = "stopped"
    BY <1>a DEF Types
  <2>q. QED
    BY <1>a, <1>2, <2>1, <2>2 DEF Counted
<1>q. QED
  BY <1>3, <1>4, <1>5, <1>6, <1>7, <1>8

\* try_admit takes a guard only below the ceiling.
LEMMA LoopAdmits ==
  ASSUME ServeInv, Alive, NEW s \in Shards, Admit(s)
  PROVE  ServeInv'
<1> USE DEF ServeInv, main, Alive
<1> DEFINE c == hand[s]
           room == Cardinality(Live) < Max
<1>a. /\ lpc[s] = "admit"
      /\ cpc' = [cpc EXCEPT ![c] = IF room THEN "dial" ELSE "refused"]
      /\ timer' = [timer EXCEPT ![c] = IF room THEN Dial ELSE 0]
      /\ lpc' = [lpc EXCEPT ![s] = IF room THEN "poll" ELSE "pause"]
      /\ hand' = [hand EXCEPT ![s] = NoConn]
      /\ UNCHANGED <<phase, main, stopped, warned, drew, late>>
  BY DEF Admit
<1>b. c \in Conns /\ cpc[c] = "hand" /\ c \notin Live /\ c \notin early
  BY <1>a DEF Hands, Live, LiveStates, Cohort
<1>1. Live' = IF room THEN Live \cup {c} ELSE Live
  BY <1>a, <1>b DEF Live, LiveStates, Types
<1>2. Cardinality(Live') <= Max
  <2>1. CASE room
    <3>1. Cardinality(Live') = Cardinality(Live) + 1
      BY Zenon, <1>1, <1>b, <2>1, Finite, FS_AddElement
    <3>q. QED
      BY <2>1, <3>1, Finite, Sizes
  <2>2. CASE ~room
    BY <1>1, <2>2 DEF Balance
  <2>q. QED
    BY <2>1, <2>2
<1>3. early \cap Live' = early \cap Live
  BY <1>1, <1>b
<1>4. Ended' = Ended
  BY <1>a DEF Ended, Types
<1>5. Types'
  <2>1. /\ timer' \in [Conns -> Nat]
        /\ hand' \in [Shards -> Conns \cup {NoConn}]
    BY <1>a, <1>b, Sizes DEF Types
  <2>2. cpc' \in [Conns -> LiveStates \cup {"new", "hand", "refused", "done", "cut"}]
    BY <1>a, <1>b DEF Types, LiveStates
  <2>q. QED
    BY <1>a, <2>1, <2>2 DEF Types
<1>6. Balance' /\ Stages'
  BY <1>2, <1>3, <1>a DEF Balance, Stages
<1>7. Cohort'
  BY <1>a, <1>b, <1>3 DEF Cohort, CleanExitIsClean, Types
<1>8. Hands' /\ Accepts'
  BY <1>a, <1>b DEF Hands, Accepts, Types
<1>9. Counted'
  <2>1. \A t \in Shards : lpc'[t] = "unborn" <=> t > total
    BY <1>a DEF Counted, Types
  <2>2. \A t \in Shards : lpc'[t] = "stopped" => lpc[t] = "stopped"
    BY <1>a DEF Types
  <2>q. QED
    BY <1>a, <1>4, <2>1, <2>2 DEF Counted
<1>q. QED
  BY <1>5, <1>6, <1>7, <1>8, <1>9

\* A loop that has ended is counted, and draws the count.
LEMMA LoopCounts ==
  ASSUME ServeInv, Alive, NEW s \in Shards, CountStopped(s)
  PROVE  ServeInv'
<1> USE DEF ServeInv, main, conns, Alive
<1>a. /\ lpc[s] \in {"ended", "fatal"} /\ stopped' = stopped + 1
      /\ drew' = [drew EXCEPT ![s] = stopped + 1]
      /\ lpc' = [lpc EXCEPT ![s] = "counted"]
      /\ UNCHANGED <<phase, main, warned, hand, late, conns>>
  BY DEF CountStopped
<1>1. Live' = Live
  BY <1>a DEF Live
<1>2. Ended' = Ended \cup {s} /\ s \notin Ended
  BY <1>a DEF Ended, Types
<1>3. Cardinality(Ended') = stopped'
  BY Zenon, <1>2, <1>a, Finite, FS_AddElement DEF Counted
<1>4. stopped' <= total
  <2>1. Ended' \subseteq 1 .. total
    <3>1. \A t \in Ended' : t \in Shards /\ lpc[t] # "unborn"
      BY <1>2, <1>a DEF Ended
    <3>2. \A t \in Shards : t \in Nat /\ t >= 1
      BY Finite
    <3>3. \A t \in Shards : ~(t > total) => t <= total
      BY <3>2, Finite DEF Types
    <3>4. \A t \in Shards : lpc[t] # "unborn" => ~(t > total)
      BY DEF Counted
    <3>5. total \in Nat
      BY Finite DEF Types
    <3>q. QED
      BY <3>1, <3>2, <3>3, <3>4, <3>5
  <2>2. IsFiniteSet(1 .. total) /\ Cardinality(1 .. total) = total
    <3>1. total \in Nat
      BY Finite DEF Types
    <3>q. QED
      BY <3>1, FS_Interval
  <2>q. QED
    BY Zenon, <1>3, <2>1, <2>2, FS_Subset
<1>5. Types'
  <2>1. stopped + 1 \in 0 .. Cardinality(Shards)
    BY <1>a, <1>4, Finite DEF Types
  <2>2. drew' \in [Shards -> 0 .. Cardinality(Shards)]
    BY <1>a, <2>1 DEF Types
  <2>q. QED
    BY <1>a, <2>1, <2>2 DEF Types
<1>6. Balance' /\ Stages' /\ Cohort' /\ Hands' /\ Accepts'
  BY <1>1, <1>a DEF Balance, Stages, Cohort, CleanExitIsClean, Hands, Accepts, Types
<1>7. Counted'
  <2>1. \A t \in Shards : lpc'[t] = "unborn" <=> t > total
    BY <1>a DEF Counted, Types
  <2>2. \A t \in Shards : drew'[t] <= stopped'
    <3>1. \A t \in Shards : drew[t] \in Nat /\ drew[t] <= stopped
      BY Finite DEF Counted, Types
    <3>2. stopped \in Nat /\ drew \in [Shards -> 0 .. Cardinality(Shards)]
      BY DEF Types
    <3>q. QED
      BY <1>a, <3>1, <3>2
  <2>3. s \in Ended' /\ drew'[s] = stopped'
    BY <1>a, <1>2 DEF Types
  <2>4. \A t \in Shards : lpc'[t] = "stopped" => lpc[t] = "stopped" /\ drew'[t] = drew[t]
    BY <1>a DEF Types
  <2>q. QED
    BY <1>a, <1>3, <1>4, <2>1, <2>2, <2>3, <2>4 DEF Counted
<1>q. QED
  BY <1>5, <1>6, <1>7

\* The loop that drew the last count says that nothing listens any more.
LEMMA LoopWarns ==
  ASSUME ServeInv, Alive, NEW s \in Shards, WarnIfLast(s)
  PROVE  ServeInv'
<1> USE DEF ServeInv, main, conns, Alive
<1>a. /\ lpc[s] = "counted"
      /\ warned' = (warned \/ (phase < Draining /\ drew[s] = total))
      /\ lpc' = [lpc EXCEPT ![s] = "stopped"]
      /\ UNCHANGED <<phase, main, stopped, drew, hand, late, conns>>
  BY DEF WarnIfLast
<1>1. Live' = Live
  BY <1>a DEF Live
<1>2. Ended' = Ended
  BY <1>a DEF Ended, Types
<1>3. warned' \in BOOLEAN
  BY <1>a
<1>4. Types'
  BY <1>a, <1>3 DEF Types
<1>5. Balance' /\ Stages' /\ Cohort' /\ Hands' /\ Accepts'
  BY <1>1, <1>a DEF Balance, Stages, Cohort, CleanExitIsClean, Hands, Accepts, Types
<1>6. Counted'
  <2>1. \A t \in Shards : lpc'[t] = "unborn" <=> t > total
    BY <1>a DEF Counted, Types
  <2>2. phase = Serving /\ drew[s] = Cardinality(Shards) => warned'
    <3>1. drew[s] = Cardinality(Shards) => drew[s] = total
      BY Finite DEF Counted, Types
    <3>2. phase = Serving => phase < Draining
      BY DEF Serving, Draining
    <3>q. QED
      BY Zenon, <1>a, <3>1, <3>2
  <2>3. \A t \in Shards : t # s => lpc'[t] = lpc[t]
    BY <1>a DEF Types
  <2>4. warned => warned'
    BY Zenon, <1>a
  <2>5. \A t \in Shards :
          lpc'[t] = "stopped" /\ drew'[t] = Cardinality(Shards) /\ phase' = Serving => warned'
    BY <1>a, <2>2, <2>3, <2>4 DEF Counted
  <2>q. QED
    BY <1>a, <1>2, <2>1, <2>5 DEF Counted
<1>q. QED
  BY <1>4, <1>5, <1>6

\* The process dies: every guard is dropped and every loop is gone.  It may say
\* "0" only when the report was of nobody left.
LEMMA ProcessDies ==
  ASSUME ServeInv, Alive, NEW code \in {"0", "5", "6", "signal"}, Die(code),
         code \in {"0", "6"} => phase = Closing,
         code = "0" => early \cap Live = {},
         signals' \in 0 .. MaxSignals,
         UNCHANGED <<phase, deadline, nap, escalated, killed, total, stopped, warned,
                     drew, hand, timer, early, late>>
  PROVE  ServeInv'
<1> USE DEF ServeInv, Alive
<1>a. /\ mpc' = "exited" /\ exit' = code
      /\ cpc' = [c \in Conns |-> IF c \in Live THEN "cut"
                              ELSE IF cpc[c] = "hand" THEN "refused" ELSE cpc[c]]
      /\ lpc' = [s \in Shards |-> "gone"]
  BY DEF Die
<1>1. Live' = {}
  BY <1>a DEF Live, LiveStates, Types
<1>2. Types'
  BY <1>a DEF Types
<1>3. Balance'
  BY <1>1, FS_EmptySet, Sizes DEF Balance
<1>4. Hands' /\ Accepts'
  BY <1>a DEF Hands, Accepts
<1>5. Cohort'
  <2>1. \A c \in early : cpc'[c] \in LiveStates \cup {"done", "cut"}
    BY <1>a DEF Cohort, Types, LiveStates
  <2>2. exit' = "0" => \A c \in early : cpc'[c] # "cut"
    BY <1>a DEF Cohort, Types
  <2>q. QED
    BY <1>a, <2>1, <2>2 DEF Cohort, CleanExitIsClean
<1>6. Stages'
  BY <1>a DEF Stages
<1>7. Counted'
  BY <1>a DEF Counted
<1>q. QED
  BY <1>2, <1>3, <1>4, <1>5, <1>6, <1>7

\* What a step of the supervisor that touches neither a loop nor a connection
\* leaves of the invariant.
LEMMA LoopsKept ==
  ASSUME ServeInv, Alive, Alive', UNCHANGED <<loops, conns, total>>,
         phase' \in Serving .. Closing, phase <= phase'
  PROVE  Live' = Live /\ Hands' /\ Accepts' /\ Counted'
<1> USE DEF ServeInv, loops, conns
<1>1. Live' = Live /\ Ended' = Ended
  BY DEF Live, Ended
<1>2. Accepts' /\ Hands'
  BY DEF Accepts, Hands, Types, Serving, Closing, Draining
<1>3. phase' = Serving => phase = Serving
  BY DEF Types, Serving, Closing
<1>q. QED
  BY <1>1, <1>2, <1>3 DEF Counted

\* serve_inner starts the next loop.
LEMMA LoopSpawned ==
  ASSUME ServeInv, SpawnLoop
  PROVE  ServeInv'
<1> USE DEF ServeInv, conns
<1>a. /\ mpc = "spawn" /\ total < Cardinality(Shards) /\ total' = total + 1
      /\ lpc' = [lpc EXCEPT ![total + 1] = "poll"]
      /\ UNCHANGED <<phase, mpc, deadline, nap, escalated, killed, exit, stopped,
                     warned, drew, hand, cpc, timer, signals, early, late>>
  BY DEF SpawnLoop
<1>b. total + 1 \in Shards /\ lpc[total + 1] = "unborn"
  BY <1>a, Finite DEF Counted, Types, Alive
<1>1. Live' = Live
  BY <1>a DEF Live
<1>2. Ended' = Ended
  BY <1>a, <1>b DEF Ended, Types
<1>3. Types'
  BY <1>a, <1>b, Finite DEF Types
<1>4. Balance' /\ Cohort' /\ Stages'
  BY <1>a, <1>1 DEF Balance, Cohort, Stages, CleanExitIsClean, Alive
<1>5. Hands' /\ Accepts'
  BY <1>a, <1>b DEF Hands, Accepts, Types
<1>6. Counted'
  <2>1. \A t \in Shards : lpc'[t] = "unborn" <=> t > total'
    BY <1>a, <1>b, Finite DEF Counted, Types, Alive
  <2>2. \A t \in Shards : lpc'[t] = "stopped" => lpc[t] = "stopped"
    BY <1>a, <1>b DEF Types
  <2>3. stopped' <= total'
    BY <1>a, Finite DEF Counted, Types
  <2>q. QED
    BY <1>a, <1>2, <2>1, <2>2, <2>3 DEF Counted, Alive
<1>q. QED
  BY <1>3, <1>4, <1>5, <1>6

\* The supervisor goes from one wait to the next, or time passes.
LEMMA SupervisorWaits ==
  ASSUME ServeInv, Alive,
         \/ Supervise \/ SignalInstallFails \/ PollBalance \/ SleepEnds \/ GraceCheck
         \/ NapEnds \/ AbortLoops \/ Tick
  PROVE  ServeInv'
<1> DEFINE Moves ==
      /\ mpc' \in {"signal", "begin", "poll", "sleep", "closing", "grace", "nap",
                   "report", "abort", "shutdown"} \cup {mpc}
      /\ mpc' \in {"abort", "shutdown"} => mpc \in {"abort", "shutdown"}
      /\ mpc' \in {"grace", "nap", "report"} => mpc \in {"grace", "nap"} \/ mpc = mpc'
      /\ mpc' = "closing" => \/ mpc = "closing" /\ deadline' \in {deadline, Less(deadline)}
                                                /\ escalated' = escalated
                             \/ Live = {} \/ deadline' = 0 \/ phase = Closing
      /\ deadline' \in {deadline, Less(deadline), Graceful}
      /\ nap' \in {nap, Less(nap), Poll}
      /\ escalated' \in {escalated, TRUE, FALSE}
      /\ timer' = timer \/ timer' = [c \in Conns |-> Less(timer[c])]
      /\ UNCHANGED <<loops, cpc, total, phase, killed, exit, early, signals>>
<1>1. Moves
  <2>1. CASE Supervise
    BY <2>1 DEF Supervise, conns
  <2>2. CASE SignalInstallFails
    BY <2>2 DEF SignalInstallFails, StartDrain, conns
  <2>3. CASE PollBalance
    <3>1. escalated' \in {escalated, TRUE, FALSE}
      BY <2>3, Zenon DEF PollBalance
    <3>q. QED
      BY <2>3, <3>1, Zenon DEF PollBalance, conns
  <2>4. CASE SleepEnds
    BY <2>4 DEF SleepEnds, conns
  <2>5. CASE GraceCheck
    BY <2>5 DEF GraceCheck, conns
  <2>6. CASE NapEnds
    BY <2>6 DEF NapEnds, conns
  <2>7. CASE AbortLoops
    BY <2>7 DEF AbortLoops, conns
  <2>8. CASE Tick
    BY <2>8 DEF Tick
  <2>q. QED
    BY <2>1, <2>2, <2>3, <2>4, <2>5, <2>6, <2>7, <2>8, Zenon
<1> USE DEF ServeInv, Alive
<1>2. timer' \in [Conns -> Nat]
  BY <1>1 DEF Types, Less
<1>3. deadline' \in 0 .. (Graceful + Grace) /\ nap' \in 0 .. Poll
  BY <1>1, Sizes DEF Types, Less
<1>4. escalated' \in BOOLEAN
  BY <1>1, Zenon DEF Types
<1>5. Alive' /\ Live' = Live /\ Ended' = Ended
  BY <1>1 DEF Live, Ended, loops
<1>6. Types'
  <2>1. mpc' \in {"spawn", "signal", "begin", "poll", "sleep", "closing", "grace", "nap",
                  "report", "abort", "shutdown", "exited"}
    BY <1>1 DEF Types
  <2>q. QED
    BY <1>1, <1>2, <1>3, <1>4, <2>1 DEF Types, loops
<1>7. Hands' /\ Accepts' /\ Balance'
  BY <1>1, <1>5 DEF Hands, Accepts, Balance, loops
<1>8. Counted'
  BY <1>1, <1>5 DEF Counted, loops
<1>9. Cohort'
  BY <1>1, <1>5 DEF Cohort, CleanExitIsClean
<1>10. Stages'
  <2>1. Less(0) = 0
    BY DEF Less
  <2>2. mpc' = "closing" /\ phase # Closing /\ early \cap Live # {}
          => deadline' = 0 \/ escalated'
    BY <1>1, <2>1 DEF Stages
  <2>q. QED
    BY <1>1, <1>5, <2>2 DEF Stages
<1>q. QED
  BY <1>6, <1>7, <1>8, <1>9, <1>10

\* The supervisor moves the phase, or reports who is left.
LEMMA SupervisorActs ==
  ASSUME ServeInv, Alive, BeginDrain \/ BeginClosing \/ ReportDrain
  PROVE  ServeInv'
<1> USE DEF ServeInv, Alive
<1>1. CASE BeginDrain
  <2>a. /\ mpc' = "poll" /\ early' = Live
        /\ phase' = IF phase >= Draining THEN phase ELSE Draining
        /\ UNCHANGED <<deadline, nap, escalated, killed, exit, total, loops, conns, signals>>
    BY <1>1 DEF BeginDrain
  <2>1. phase' \in Serving .. Closing /\ phase <= phase'
    BY <2>a DEF Types, Serving, Draining, Closing
  <2>2. Live' = Live /\ Hands' /\ Accepts' /\ Counted'
    BY <2>a, <2>1, LoopsKept
  <2>3. Balance'
    BY <2>a, <2>2 DEF Balance
  <2>4. Types'
    BY <2>a, <2>1 DEF Types, loops, conns, Live
  <2>5. Cohort' /\ Stages'
    BY <2>a, <2>2 DEF Cohort, Stages, CleanExitIsClean, conns, Live
  <2>q. QED
    BY <2>2, <2>3, <2>4, <2>5
<1>2. CASE BeginClosing
  <2>a. /\ mpc' = "grace" /\ phase' = Closing /\ deadline' = Grace
        /\ UNCHANGED <<nap, escalated, killed, exit, total, loops, conns, signals, early>>
    BY <1>2 DEF BeginClosing
  <2>1. phase' \in Serving .. Closing /\ phase <= phase'
    BY <2>a DEF Types, Serving, Closing
  <2>2. Live' = Live /\ Hands' /\ Accepts' /\ Counted'
    BY <2>a, <2>1, LoopsKept
  <2>3. Balance' /\ deadline' \in 0 .. (Graceful + Grace)
    BY <2>a, <2>2, Sizes DEF Balance
  <2>4. Types'
    BY <2>a, <2>1, <2>3 DEF Types, loops, conns
  <2>5. Cohort' /\ Stages'
    BY <2>a, <2>2 DEF Cohort, Stages, CleanExitIsClean, conns
  <2>q. QED
    BY <2>2, <2>3, <2>4, <2>5
<1>3. CASE ReportDrain
  <2>a. /\ mpc = "report" /\ mpc' = "abort" /\ killed' = Cardinality(Live)
        /\ UNCHANGED <<phase, deadline, nap, escalated, exit, total, loops, conns, signals,
                       early>>
    BY <1>3 DEF ReportDrain
  <2>1. phase' \in Serving .. Closing /\ phase <= phase'
    BY <2>a DEF Types, Serving, Closing
  <2>2. Live' = Live /\ Hands' /\ Accepts' /\ Counted'
    BY <2>a, <2>1, LoopsKept
  <2>3. Types'
    BY <2>a, <2>1 DEF Types, loops, conns
  <2>6. Balance'
    BY <2>a, <2>2, Finite, Sizes DEF Balance
  <2>4. killed' = 0 => Live = {}
    BY Zenon, <2>a, Finite, FS_EmptySet
  <2>5. Cohort' /\ Stages'
    BY <2>a, <2>2, <2>4 DEF Cohort, Stages, CleanExitIsClean, conns
  <2>q. QED
    BY <2>2, <2>3, <2>5, <2>6
<1>q. QED
  BY <1>1, <1>2, <1>3

\* A signal kills the process, starts the drain, cuts its window short, or is
\* not heard.
LEMMA SignalArrives ==
  ASSUME ServeInv, Signal
  PROVE  ServeInv'
<1> USE DEF ServeInv, Alive
<1>a. /\ mpc # "exited" /\ signals' \in 0 .. MaxSignals
      /\ UNCHANGED <<phase, nap, killed, total, stopped, warned, drew, hand, early, late>>
  BY Sizes DEF Signal, Types
<1>1. CASE mpc = "spawn"
  <2>1. Die("signal") /\ UNCHANGED <<deadline, escalated, timer>>
    BY <1>1 DEF Signal
  <2>q. QED
    BY <1>a, <2>1, ProcessDies
<1>2. CASE mpc # "spawn"
  <2>a. /\ UNCHANGED <<exit, lpc, conns>>
        /\ \/ mpc = "signal" /\ mpc' = "begin" /\ deadline' = Graceful /\ UNCHANGED escalated
           \/ mpc = "sleep" /\ mpc' = "closing" /\ escalated' = TRUE /\ UNCHANGED deadline
           \/ UNCHANGED <<mpc, deadline, escalated>>
    BY <1>2 DEF Signal, StartDrain
  <2>1. phase' \in Serving .. Closing /\ phase <= phase' /\ Alive'
    BY <1>a, <2>a DEF Types, Serving, Closing
  <2>2. Live' = Live /\ Hands' /\ Accepts' /\ Counted'
    BY <1>a, <2>a, <2>1, LoopsKept DEF loops
  <2>3. escalated' \in BOOLEAN
    BY Zenon, <2>a DEF Types
  <2>4. Balance'
    BY <1>a, <2>2 DEF Balance
  <2>6. /\ deadline' \in 0 .. (Graceful + Grace)
        /\ mpc' \in {"spawn", "signal", "begin", "poll", "sleep", "closing", "grace", "nap",
                     "report", "abort", "shutdown", "exited"}
    BY <2>a, Sizes DEF Types
  <2>7. Types'
    BY <1>a, <2>a, <2>3, <2>6 DEF Types, conns
  <2>5. Cohort' /\ Stages'
    BY <1>a, <2>a, <2>2 DEF Cohort, Stages, CleanExitIsClean, conns
  <2>q. QED
    BY <2>2, <2>4, <2>5, <2>7
<1>q. QED
  BY <1>1, <1>2

\* One step of an accept loop.
LEMMA LoopRuns ==
  ASSUME ServeInv, Alive, NEW s \in Shards, LoopStep(s)
  PROVE  ServeInv'
<1>1. CASE PollDrained(s)
  <2> DEFINE to == IF Aborted THEN "gone" ELSE IF phase >= Draining THEN "ended" ELSE "accept"
  <2>1. /\ to \in {"poll", "accept", "parked", "pause", "ended", "fatal", "gone"}
        /\ to = "accept" => phase < Draining
    BY DEF ServeInv, Types, Serving, Draining, Closing
  <2>2. /\ lpc[s] = "poll" /\ lpc' = [lpc EXCEPT ![s] = to]
        /\ UNCHANGED <<phase, main, stopped, warned, drew, hand, late, conns>>
    BY <1>1 DEF PollDrained
  <2> HIDE DEF to
  <2>q. QED
    BY Zenon, <2>1, <2>2, LoopMoves
<1>2. CASE AcceptNothing(s)
  <2>1. PICK to \in {"parked", "poll", "pause", "fatal"} : lpc' = [lpc EXCEPT ![s] = to]
    BY Zenon, <1>2 DEF AcceptNothing
  <2>2. /\ lpc[s] = "accept"
        /\ UNCHANGED <<phase, main, stopped, warned, drew, hand, late, conns>>
    BY <1>2 DEF AcceptNothing
  <2>q. QED
    BY Zenon, <2>1, <2>2, LoopMoves
<1>3. CASE AwaitEnds(s)
  <2> DEFINE to == IF Aborted THEN "gone" ELSE "poll"
  <2>1. to \in {"poll", "accept", "parked", "pause", "ended", "fatal", "gone"} /\ to # "accept"
    OBVIOUS
  <2>2. /\ lpc[s] \in {"parked", "pause"} /\ lpc' = [lpc EXCEPT ![s] = to]
        /\ UNCHANGED <<phase, main, stopped, warned, drew, hand, late, conns>>
    BY <1>3 DEF AwaitEnds
  <2> HIDE DEF to
  <2>q. QED
    BY Zenon, <2>1, <2>2, LoopMoves
<1>q. QED
  BY <1>1, <1>2, <1>3, LoopTakes, LoopAdmits, LoopCounts, LoopWarns DEF LoopStep

\* One step of a connection's task.
LEMMA ConnRun ==
  ASSUME ServeInv, Alive, NEW c \in Conns, ConnStep(c)
  PROVE  ServeInv'
<1>1. cpc[c] \in LiveStates
  <2>1. cpc[c] \in {"dial", "forward", "after", "jitter", "sleep", "close"}
    BY Zenon DEF ConnStep, ConnRuns, Connected, ConnectFails, ForwardEnds, ForwardWoken,
       ForwardIdle, AfterForward, JitterBeforeClose, JitterEnds, DropGuard
  <2>q. QED
    BY <2>1 DEF LiveStates
<1>2. \E to \in LiveStates \cup {"done"}, ticks \in Nat : ConnGoes(c, to, ticks)
  <2>0. /\ {"after", "forward", "jitter", "close", "sleep", "done"} \subseteq LiveStates \cup {"done"}
        /\ 0 \in Nat /\ Idle \in Nat
    BY Sizes DEF LiveStates
  <2>1. CASE Connected(c) \/ ForwardWoken(c)
    BY <2>0, <2>1 DEF Connected, ForwardWoken, PollForward
  <2>2. CASE ConnectFails(c) \/ ForwardEnds(c) \/ ForwardIdle(c)
    BY <2>0, <2>2 DEF ConnectFails, ForwardEnds, ForwardIdle
  <2>3. CASE AfterForward(c)
    <3>1. ConnGoes(c, "jitter", 0) \/ ConnGoes(c, "close", 0)
      BY <2>3 DEF AfterForward
    <3>q. QED
      BY <2>0, <3>1
  <2>4. CASE JitterBeforeClose(c)
    <3>1. CASE phase = Closing \/ Jitter = 0
      BY <2>0, <2>4, <3>1 DEF JitterBeforeClose
    <3>2. CASE ~(phase = Closing \/ Jitter = 0)
      <4>1. PICK d \in 0 .. Jitter - 1 : ConnGoes(c, "sleep", d)
        BY <2>4, <3>2 DEF JitterBeforeClose
      <4>2. d \in Nat
        BY Sizes
      <4>q. QED
        BY <2>0, <4>1, <4>2
    <3>q. QED
      BY <3>1, <3>2
  <2>5. CASE JitterEnds(c) \/ DropGuard(c)
    BY <2>0, <2>5 DEF JitterEnds, DropGuard
  <2>q. QED
    BY <2>1, <2>2, <2>3, <2>4, <2>5 DEF ConnStep, ConnRuns
<1>q. QED
  BY <1>1, <1>2, ConnMoves

\* Every step of the process keeps the invariant.
LEMMA NextServe == ServeInv /\ [Next]_vars => ServeInv'
<1> SUFFICES ASSUME ServeInv, [Next]_vars PROVE ServeInv'
  OBVIOUS
<1>1. CASE MainStep
  <2>0. Alive
    <3>1. mpc \in {"spawn", "signal", "begin", "poll", "sleep", "closing", "grace", "nap",
                   "report", "abort", "shutdown"}
      BY <1>1, Zenon DEF MainStep, SupervisorStep, ListenFails, SignalInstallFails,
         SleepEnds, SpawnLoop, Supervise, BeginDrain, PollBalance, BeginClosing,
         GraceCheck, NapEnds, ReportDrain, AbortLoops, ExitProcess
    <3>q. QED
      BY <3>1 DEF Alive
  <2>1. CASE ListenFails
    <3>1. Die("5") /\ UNCHANGED <<phase, deadline, nap, escalated, killed, total, stopped,
                     warned, drew, hand, timer, signals, early, late>>
      BY <2>1 DEF ListenFails
    <3>2. signals' \in 0 .. MaxSignals
      BY <3>1 DEF ServeInv, Types
    <3>q. QED
      BY <2>0, <3>1, <3>2, ProcessDies
  <2>2. CASE ExitProcess
    <3> DEFINE code == IF killed = 0 THEN "0" ELSE "6"
    <3>1. /\ Die(code)
          /\ UNCHANGED <<phase, deadline, nap, escalated, killed, total, stopped, warned,
                         drew, hand, timer, signals, early, late>>
      BY <2>2 DEF ExitProcess
    <3>2. signals' \in 0 .. MaxSignals
      BY <3>1 DEF ServeInv, Types
    <3>3. code \in {"0", "5", "6", "signal"} /\ phase = Closing
      BY <2>2 DEF ExitProcess, ServeInv, Stages
    <3>4. code = "0" => early \cap Live = {}
      BY <2>2 DEF ExitProcess, ServeInv, Cohort
    <3> HIDE DEF code
    <3>q. QED
      BY <2>0, <3>1, <3>2, <3>3, <3>4, ProcessDies
  <2>q. QED
    BY <1>1, <2>0, <2>1, <2>2, LoopSpawned, SupervisorWaits, SupervisorActs
       DEF MainStep, SupervisorStep
<1>2. CASE Running /\ \E s \in Shards : LoopStep(s)
  BY <1>2, LoopRuns DEF Running, Alive
<1>3. CASE Running /\ \E c \in Conns : ConnStep(c)
  BY <1>3, ConnRun DEF Running, Alive
<1>4. CASE Tick
  <2>1. Alive
    BY <1>4 DEF Tick, Alive
  <2>q. QED
    BY <1>4, <2>1, SupervisorWaits
<1>5. CASE UNCHANGED vars
  <2>1. Live' = Live /\ Ended' = Ended
    BY <1>5 DEF vars, Live, Ended
  <2>q. QED
    <3>1. Types' /\ Balance'
      BY <1>5, <2>1 DEF vars, ServeInv, Types, Balance
    <3>2. Cohort' /\ Stages'
      BY <1>5, <2>1 DEF vars, ServeInv, Cohort, Stages, Alive, CleanExitIsClean
    <3>3. Hands' /\ Accepts' /\ Counted'
      BY <1>5, <2>1 DEF vars, ServeInv, Hands, Accepts, Counted, Alive
    <3>q. QED
      BY <3>1, <3>2, <3>3 DEF ServeInv
<1>q. QED
  BY <1>1, <1>2, <1>3, <1>4, <1>5, SignalArrives DEF Next

-----------------------------------------------------------------------------
\* The drain keeps its order, whatever the number of shards and connections and
\* the length of every timeout: accept_or_drain takes one late connection at
\* most, exit 0 cut nobody who was open when the drain began, no exit precedes
\* Closing, and the end of the last accept loop is logged.
THEOREM ServeDrainSound == Spec => []DrainSound
<1>1. ServeInv => DrainSound
  <2> SUFFICES ASSUME ServeInv PROVE DrainSound
    OBVIOUS
  <2> USE DEF ServeInv
  <2>1. TypeOK
    <3>1. stopped \in 0 .. total /\ {killed, Cardinality(Live)} \subseteq 0 .. Max
      <4>1. stopped \in Nat /\ total \in Nat /\ stopped <= total
        BY Finite DEF Types, Counted
      <4>2. killed \in 0 .. Max /\ Cardinality(Live) \in 0 .. Max
        BY Finite, Sizes DEF Balance
      <4>q. QED
        BY <4>1, <4>2
    <3>q. QED
      BY <3>1 DEF Types, TypeOK
  <2>2. OneLateAccept /\ CleanExitIsClean /\ ClosesBeforeExit
    BY DEF OneLateAccept, Accepts, Cohort, ClosesBeforeExit, Stages
  <2>3. NoSilentOutage
    <3> SUFFICES ASSUME phase = Serving, \A s \in Shards : lpc[s] = "stopped" PROVE warned
      BY DEF NoSilentOutage
    <3>1. Alive /\ Ended = Shards
      BY Finite DEF Counted, Ended
    <3>2. stopped = Cardinality(Shards) /\ stopped > 0
      BY <3>1, Finite DEF Counted
    <3>3. PICK s \in Ended : drew[s] = stopped
      BY <3>1, <3>2 DEF Counted
    <3>q. QED
      BY <3>1, <3>2, <3>3 DEF Counted
  <2>q. QED
    BY <2>1, <2>2, <2>3 DEF DrainSound
<1>q. QED
  BY <1>1, InitServe, NextServe, PTL DEF Spec

\* supervise moves the phase to Closing under a connection of the cohort only
\* when the graceful window is over or the operator has asked twice.
THEOREM ServeGracefulWindow == Spec => GracefulWindow
<1>1. ASSUME ServeInv, [Next]_vars
      PROVE  [phase' = Closing /\ phase # Closing /\ early \cap Live # {}
                => deadline = 0 \/ escalated]_vars
  <2> SUFFICES ASSUME phase' = Closing, phase # Closing, early \cap Live # {}
               PROVE  deadline = 0 \/ escalated
    OBVIOUS
  <2>1. mpc = "closing"
    <3>0. Closing # Draining
      BY DEF Closing, Draining
    <3>1. CASE MainStep
      BY Zenon, <1>1, <3>0, <3>1 DEF MainStep, SupervisorStep, ListenFails, SignalInstallFails,
         SleepEnds, SpawnLoop, Supervise, BeginDrain, PollBalance, BeginClosing,
         GraceCheck, NapEnds, ReportDrain, AbortLoops, ExitProcess
    <3>2. ASSUME NEW s \in Shards, LoopStep(s) PROVE FALSE
      BY Zenon, <3>2 DEF LoopStep, PollDrained, PollAccept, AcceptNothing, AwaitEnds, Admit,
         CountStopped, WarnIfLast
    <3>3. ASSUME NEW c \in Conns, ConnStep(c) PROVE FALSE
      <4>1. \A to, ticks : ConnGoes(c, to, ticks) => phase' = phase
        BY DEF ConnGoes
      <4>q. QED
        BY Zenon, <3>3, <4>1 DEF ConnStep, ConnRuns, Connected, ConnectFails, ForwardEnds,
           ForwardWoken, ForwardIdle, AfterForward, JitterBeforeClose, JitterEnds,
           DropGuard, PollForward
    <3>4. CASE Signal \/ Tick \/ UNCHANGED vars
      BY <3>4 DEF Signal, Tick, vars
    <3>q. QED
      BY <1>1, <3>1, <3>2, <3>3, <3>4 DEF Next
  <2>q. QED
    BY <1>1, <2>1 DEF ServeInv, Stages
<1>q. QED
  BY <1>1, InitServe, NextServe, PTL DEF Spec, GracefulWindow
==============================================================================
