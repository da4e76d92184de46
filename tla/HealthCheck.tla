----------------------------- MODULE HealthCheck -----------------------------
(* irontraffic-resilience/src/health/{scheduler,schedule,bitmap}.rs: the   *)
(* active health checker of one cluster, the runner that performs its      *)
(* checks and reports them late, out of order or never, and the membership *)
(* changes that renumber its endpoints.  The timing wheel is the table of  *)
(* deadlines that TimerWheel shows it to be; it fires what is due in any   *)
(* order.  Time does not wrap here (TimerWheel covers the wrap).           *)
EXTENDS Integers, Sequences, SequencesExt, FiniteSets

CONSTANTS
  Memberships,      \* the endpoint lists discovery delivers
  Phase,            \* phase_ms before it is reduced to the interval, by endpoint
  Interval, EdgeInterval, DownInterval, IdleInterval, Timeout, Jitter,
  Second, MaxPerSecond,                       \* the per-endpoint rate cap
  Rise, Fall, ReconnectEvery,
  MaxConcurrent, DeferMs, StuckFactor,        \* 10 in the code
  MaxTime,
  MaxChanges        \* bound on flag, traffic and membership changes

VARIABLES
  now,
  wheel_now,        \* time of the last poll_due
  ids,              \* endpoint_ids
  sched,            \* EndpointSchedule by index
  due,              \* the wheel: deadline by index
  inflight, stuck, ejected, ramping, draining,    \* sets of indices
  at,               \* dispatched_at
  inflight_count, stuck_inflight, defer_cursor, has_traffic,
  bitmap,           \* the published health by index
  orders,           \* orders the runner holds
  backlog,          \* indices deferred by the cap and not re-armed (history)
  embargo,          \* when an abandoned endpoint may be probed again (history)
  changes

hvars == <<now, wheel_now, ids, sched, due, inflight, stuck, ejected, ramping, draining,
           at, inflight_count, stuck_inflight, defer_cursor, has_traffic, bitmap,
           orders, backlog, embargo, changes>>

Endpoints == UNION {ToSet(m) : m \in Memberships}
Max2(a, b) == IF a > b THEN a ELSE b
CeilDiv(a, b) == (a + b - 1) \div b

\* What HealthCheckConfig::validate and HealthScheduler::new accept.
validate ==
  /\ \A x \in {Interval, EdgeInterval, DownInterval, IdleInterval, Timeout,
               Rise, Fall, MaxPerSecond, MaxConcurrent} : x >= 1
  /\ Timeout <= Interval

interval_for(state) ==
  LET sustained == CeilDiv(Second, MaxPerSecond)
      edge == CeilDiv(Second \div 2, MaxPerSecond)
  IN CASE state = "Steady" -> Max2(Interval, sustained)
       [] state = "Down" -> Max2(DownInterval, sustained)
       [] state = "NoTraffic" -> Max2(IdleInterval, sustained)
       [] state = "Edge" -> Max2(EdgeInterval, edge)

phase_ms(id, interval) == Phase[id] % interval

init_schedule(t, id, traffic) ==
  [nominal |-> t + phase_ms(id, interval_for("Steady")),
   state |-> IF traffic THEN "Steady" ELSE "NoTraffic",
   active |-> "Healthy", ok |-> 0, fail |-> 0, conn |-> 0]

\* The dispatch times nominal may be jittered to.
fire_at(s, t) == {IF s.nominal + d <= t THEN t + 1 ELSE s.nominal + d : d \in -Jitter .. Jitter}

advance_nominal(s, t) ==
  LET iv == interval_for(s.state)
  IN [s EXCEPT !.nominal = IF @ + iv <= t THEN t + iv ELSE @ + iv]

LeaveEdge(s) ==
  [s EXCEPT !.state = IF @ # "Edge" THEN @
                      ELSE IF s.active = "Healthy" THEN "Steady" ELSE "Down"]

Pass(s) ==
  LET p == [s EXCEPT !.fail = 0, !.ok = @ + 1]
  IN IF p.active # "Healthy" /\ p.ok >= Rise
     THEN [p EXCEPT !.active = "Healthy", !.ok = 0, !.state = "Edge"]
     ELSE LeaveEdge(p)

Fail(s, retriable) ==
  LET f == [s EXCEPT !.ok = 0, !.fail = @ + 1]
  IN IF f.active = "Healthy" /\ f.fail >= Fall
     THEN [f EXCEPT !.active = "Unhealthy", !.fail = 0, !.state = "Edge"]
     ELSE IF retriable THEN [f EXCEPT !.state = "Edge"] ELSE LeaveEdge(f)

\* Counters that no threshold reads any further stay at their threshold.
Capped(s) ==
  [s EXCEPT !.ok = IF @ > Rise THEN Rise ELSE @, !.fail = IF @ > Fall THEN Fall ELSE @,
            !.conn = IF @ > ReconnectEvery THEN ReconnectEvery ELSE @]

apply_outcome(s, outcome) ==
  LET c == [s EXCEPT !.conn = @ + 1]
  IN Capped(IF outcome = "Pass" THEN Pass(c) ELSE Fail(c, outcome = "Retriable"))

should_reconnect(s) == ReconnectEvery # 0 /\ s.conn >= ReconnectEvery

\* TimerWheel::schedule: what is not ahead of wheel time fires at the next
\* millisecond.
Armed(t, wheel) == IF t <= wheel THEN wheel + 1 ELSE t

------------------------------------------------------------------------------
resolve(active, ix, ej, ra, dr) ==
  IF ix \in dr THEN "Draining"
  ELSE IF ix \in ej \/ active = "Unhealthy" THEN "Unhealthy"
  ELSE IF ix \in ra THEN "Degraded"
  ELSE "Healthy"

publish(ix) ==
  bitmap' = [bitmap EXCEPT ![ix] =
               resolve(sched'[ix].active, ix, ejected', ramping', draining')]

Init ==
  /\ validate
  /\ now = 0 /\ wheel_now = 0
  /\ ids \in Memberships
  /\ has_traffic \in BOOLEAN
  /\ sched = [i \in DOMAIN ids |-> init_schedule(0, ids[i], has_traffic)]
  /\ due = [i \in DOMAIN ids |-> Armed(sched[i].nominal, 0)]
  /\ inflight = {} /\ stuck = {} /\ ejected = {} /\ ramping = {} /\ draining = {}
  /\ at = [i \in DOMAIN ids |-> 0]
  /\ inflight_count = 0 /\ stuck_inflight = 0 /\ defer_cursor = 0
  /\ bitmap = [i \in DOMAIN ids |-> "Healthy"]
  /\ orders = {} /\ backlog = {}
  /\ embargo = [e \in Endpoints |-> 0]
  /\ changes = 0

\* A due endpoint whose check is still out: the watchdog only counts it as
\* stuck, once, and looks again shortly.
StillOut(s, i) ==
  LET late == now - s.at[i] > StuckFactor * Timeout /\ i \notin s.stuck
  IN [s EXCEPT !.stuck = IF late THEN @ \cup {i} ELSE @,
               !.gauge = IF late THEN @ + 1 ELSE @,
               !.due[i] = Armed(now + DeferMs, now)]

NextPlace(cursor) == cursor + 1

Deferred(s, i) ==
  LET c == IF s.cursor <= now THEN now + DeferMs ELSE s.cursor
  IN [s EXCEPT !.due[i] = Armed(c, now), !.cursor = NextPlace(c), !.backlog = @ \cup {i}]

\* moves counts the membership changes since that moved the endpoint (history).
Dispatched(s, i) ==
  [s EXCEPT !.inflight = @ \cup {i}, !.at[i] = now, !.stuck = @ \ {i}, !.count = @ + 1,
            !.due[i] = Armed(now + Timeout + DeferMs, now),
            !.orders = @ \cup {[ix |-> i, id |-> ids[i], moves |-> 0,
                                force |-> should_reconnect(sched[i])]}]

DueStep(s, i) ==
  LET t == [s EXCEPT !.backlog = @ \ {i}]
  IN IF i \in t.inflight THEN StillOut(t, i)
     ELSE IF t.count >= MaxConcurrent THEN Deferred(t, i)
     ELSE Dispatched(t, i)

poll_due ==
  /\ \E order \in SetToSeqs({i \in DOMAIN ids : due[i] <= now}) :
       LET s == FoldLeft(DueStep,
                  [due |-> due, inflight |-> inflight, stuck |-> stuck, at |-> at,
                   count |-> inflight_count, gauge |-> stuck_inflight,
                   cursor |-> defer_cursor, orders |-> orders, backlog |-> backlog], order)
       IN /\ due' = s.due /\ inflight' = s.inflight /\ stuck' = s.stuck /\ at' = s.at
          /\ inflight_count' = s.count /\ stuck_inflight' = s.gauge
          /\ defer_cursor' = s.cursor /\ orders' = s.orders /\ backlog' = s.backlog
  /\ wheel_now' = now
  /\ UNCHANGED <<now, ids, sched, ejected, ramping, draining, has_traffic, bitmap,
                 embargo, changes>>

\* The guards of record: the report still names this endpoint at its index,
\* and a check is out for it.
Accepts(o) == o.ix \in DOMAIN ids /\ ids[o.ix] = o.id /\ o.ix \in inflight

record(o, outcome) ==
  /\ o \in orders
  /\ orders' = orders \ {o}
  /\ IF Accepts(o)
     THEN LET i == o.ix
              c == [sched[i] EXCEPT !.conn = IF o.force THEN 0 ELSE @]
              n == advance_nominal(apply_outcome(c, outcome), now)
          IN /\ inflight' = inflight \ {i} /\ inflight_count' = inflight_count - 1
             /\ stuck' = stuck \ {i}
             /\ stuck_inflight' = stuck_inflight - (IF i \in stuck THEN 1 ELSE 0)
             /\ sched' = [sched EXCEPT ![i] = n]
             /\ \E t \in fire_at(n, now) : due' = [due EXCEPT ![i] = Armed(t, wheel_now)]
             /\ backlog' = backlog \ {i}
             /\ UNCHANGED <<ejected, ramping, draining>> /\ publish(i)
     ELSE UNCHANGED <<inflight, inflight_count, stuck, stuck_inflight, sched, due,
                      ejected, ramping, draining, bitmap, backlog>>
  /\ UNCHANGED <<now, wheel_now, ids, at, defer_cursor, has_traffic, embargo, changes>>

\* The runner's task dies with its order.
Lose(o) ==
  /\ o \in orders /\ orders' = orders \ {o}
  /\ UNCHANGED <<now, wheel_now, ids, sched, due, inflight, stuck, ejected, ramping, draining,
                 at, inflight_count, stuck_inflight, defer_cursor, has_traffic, bitmap,
                 backlog, embargo, changes>>

Toggle(S, i) == IF i \in S THEN S \ {i} ELSE S \cup {i}

\* set_ejected, set_ramping and set_draining write one flag and publish.
SetFlag(i) ==
  /\ changes < MaxChanges /\ changes' = changes + 1
  /\ \/ ejected' = Toggle(ejected, i) /\ UNCHANGED <<ramping, draining>>
     \/ ramping' = Toggle(ramping, i) /\ UNCHANGED <<ejected, draining>>
     \/ draining' = Toggle(draining, i) /\ UNCHANGED <<ejected, ramping>>
  /\ UNCHANGED sched /\ publish(i)
  /\ UNCHANGED <<now, wheel_now, ids, due, inflight, stuck, at, inflight_count, stuck_inflight,
                 defer_cursor, has_traffic, orders, backlog, embargo>>

\* Endpoints with a check out keep their watchdog; the others start over from
\* now plus their phase in the new interval.
set_has_traffic ==
  LET traffic == ~has_traffic
      iv == interval_for(IF traffic THEN "Edge" ELSE "NoTraffic")
      Switched(s) == IF ~traffic THEN "NoTraffic"
                     ELSE IF s.state = "NoTraffic" THEN "Edge" ELSE s.state
      moved == DOMAIN ids \ inflight
  IN /\ changes < MaxChanges /\ changes' = changes + 1
     /\ has_traffic' = traffic
     /\ sched' = [i \in DOMAIN ids |->
          [sched[i] EXCEPT !.state = Switched(sched[i]),
                           !.nominal = IF i \in moved THEN now + phase_ms(ids[i], iv) ELSE @]]
     /\ \E t \in [moved -> now + 1 .. now + iv + Jitter] :
          /\ \A i \in moved : t[i] \in fire_at(sched'[i], now)
          /\ due' = [i \in DOMAIN ids |-> IF i \in moved THEN Armed(t[i], wheel_now) ELSE due[i]]
     /\ backlog' = backlog \ moved
     /\ embargo' = [e \in Endpoints |-> 0]
     /\ UNCHANGED <<now, wheel_now, ids, inflight, stuck, ejected, ramping, draining, at,
                    inflight_count, stuck_inflight, defer_cursor, bitmap, orders>>

------------------------------------------------------------------------------
\* carry_endpoint_state: a check whose endpoint changes index is abandoned, and
\* the endpoint is due one interval of its own from now.
RearmAt(j, moved) ==
  IF moved /\ j \in inflight THEN now + interval_for(sched[j].state) ELSE sched[j].nominal

CarriedNominal(s, t) == [s EXCEPT !.nominal = t]

Places(m, id) == {i \in DOMAIN m : m[i] = id}

\* rebuild, and the publish_all into a fresh ClusterHealth that its caller owes.
rebuild(new) ==
  LET Old(i) == CHOOSE j \in DOMAIN ids : ids[j] = new[i]
      known == {i \in DOMAIN new : new[i] \in ToSet(ids)}
      Carry(S) == {i \in known : Old(i) \in S}
      stays == {i \in known : Old(i) = i}
      Arm(i) == IF i \in known THEN RearmAt(Old(i), i \notin stays)
                ELSE init_schedule(now, new[i], has_traffic).nominal
  IN /\ changes < MaxChanges /\ changes' = changes + 1
     /\ new # ids /\ ids' = new
     /\ sched' = [i \in DOMAIN new |->
          IF i \in known THEN CarriedNominal(sched[Old(i)], Arm(i))
          ELSE init_schedule(now, new[i], has_traffic)]
     /\ due' = [i \in DOMAIN new |-> Armed(Arm(i), wheel_now)]
     /\ inflight' = stays \cap inflight /\ inflight_count' = Cardinality(stays \cap inflight)
     /\ stuck' = stays \cap stuck
     /\ stuck_inflight' = stuck_inflight - Cardinality(stuck \ stays)
     /\ at' = [i \in DOMAIN new |-> IF i \in stays THEN at[i] ELSE 0]
     /\ ejected' = Carry(ejected) /\ ramping' = Carry(ramping) /\ draining' = Carry(draining)
     /\ defer_cursor' = now
     /\ bitmap' = [i \in DOMAIN new |->
          resolve(sched'[i].active, i, ejected', ramping', draining')]
     /\ orders' = {[o EXCEPT !.moves = IF Places(ids, o.id) # Places(new, o.id)
                                      THEN @ + 1 ELSE @] : o \in orders}
     /\ backlog' = {}
     /\ embargo' = [e \in Endpoints |->
          IF \E i \in known \ stays : new[i] = e /\ Old(i) \in inflight
          THEN now + interval_for(sched[CHOOSE j \in DOMAIN ids : ids[j] = e].state)
          ELSE IF e \in ToSet(new) THEN embargo[e] ELSE 0]
     /\ UNCHANGED <<now, wheel_now, has_traffic>>

Tick ==
  /\ now < MaxTime /\ now' = now + 1
  /\ UNCHANGED <<wheel_now, ids, sched, due, inflight, stuck, ejected, ramping, draining,
                 at, inflight_count, stuck_inflight, defer_cursor, has_traffic, bitmap,
                 orders, backlog, embargo, changes>>

Next ==
  \/ poll_due \/ Tick \/ set_has_traffic
  \/ \E o \in orders : Lose(o) \/ \E r \in {"Pass", "Fail", "Retriable"} : record(o, r)
  \/ \E i \in DOMAIN ids : SetFlag(i)
  \/ \E m \in Memberships : rebuild(m)

------------------------------------------------------------------------------
TypeOK ==
  /\ DOMAIN sched = DOMAIN ids /\ DOMAIN due = DOMAIN ids
  /\ inflight \cup stuck \cup ejected \cup ramping \cup draining \subseteq DOMAIN ids
  /\ \A i \in DOMAIN ids : sched[i].state \in {"Steady", "Edge", "Down", "NoTraffic"}

\* The in-flight count is exactly the checks believed out, never above the cap,
\* and the stuck gauge counts exactly the endpoints marked stuck, although a
\* rebuild abandons or removes them without a report.
CountsExact ==
  /\ inflight_count = Cardinality(inflight) /\ inflight_count <= MaxConcurrent
  /\ stuck \subseteq inflight /\ stuck_inflight = Cardinality(stuck)

\* Every endpoint is always in the wheel, no further ahead than its longest
\* interval with jitter on both sides.
NeverStranded ==
  \A i \in DOMAIN ids : due[i] <= now + Max2(interval_for("NoTraffic"), interval_for("Steady"))
                                    + 2 * Jitter

\* The backlog behind the cap never collapses onto one instant again.
BacklogSpread == \A i, j \in backlog : i # j => due[i] # due[j]

\* What is published is what the four signals say now.
PublishedCurrent ==
  \A i \in DOMAIN ids : bitmap[i] = resolve(sched[i].active, i, ejected, ramping, draining)

\* Membership churn launders nothing: an endpoint that stays a member keeps its
\* published health through a rebuild.
ChurnKeepsHealth ==
  ids' # ids => \A i \in DOMAIN ids, j \in DOMAIN ids' :
    ids[i] = ids'[j] => bitmap'[j] = bitmap[i]

\* A report is only applied to the check it answers, except after its endpoint
\* left its index and came back (scheduler.rs 290-301).
AppliesOwnReport ==
  \A o \in orders \ orders' : (ids' = ids /\ inflight_count' < inflight_count /\ o.moves # 0)
                               => o.moves >= 2

\* An endpoint whose check was abandoned by a rebuild is not probed again
\* before one interval has passed, further rebuilds included.
AbandonedWaits ==
  \A o \in orders' \ orders : ids' = ids => embargo[o.id] <= now
==============================================================================
