------------------------------- MODULE Retry ---------------------------------
(* irontraffic-resilience/src/{deadline,retry}: one request under its       *)
(* deadline.  establish picks the budget at ingress; every attempt passes   *)
(* admit_attempt; a failure goes through resolve_backoff and retryable; the *)
(* caller that sequences these calls, the upstream and the clock are the    *)
(* environment.  Time is modulo Wrap (2^32 ms in the code).                 *)
EXTENDS Integers, FiniteSets, FiniteSetsExt

CONSTANTS
  Wrap, StartTimes,
  Hour, Minute, Second,     \* in ms
  MaxDigits,                \* 99_999_999: the largest value of a grpc-timeout
  Budgets,                  \* inbound grpc-timeout values, as parsed
  Inbounds,                 \* inbound x-envoy timeouts, None where absent or malformed
  RouteTimeout, MinTimeout, MaxTimeout, FloorMs, HopOffset, RespectExpected,
  RetryOns, MaxAttempts, Base, Cap, Estimate,
  Pushbacks,                \* what the failed response says of retrying
  Statuses                  \* HTTP and gRPC statuses: "4xx", "5xx", "gateway", "grpc14"

VARIABLES
  now, deadline, source,
  trusted, idempotent, treat_as_idempotent, retry_on,
  phase,                    \* ingress, ready, attempt, sleep, done
  attempts, committed,
  backoff,                  \* FullJitterBackoff.attempt
  wake,                     \* end of the backoff sleep
  processed,                \* the origin acted on the attempt in flight
  applied,                  \* how many attempts the origin acted on (history)
  budget,                   \* what establish granted, and what it was asked (history)
  age                       \* ms since ingress (history)

rvars == <<now, deadline, source, trusted, idempotent, treat_as_idempotent, retry_on, phase,
           attempts, committed, backoff, wake, processed, applied, budget, age>>

None == -1
Absent == -1             \* no pushback header, or an unparseable Retry-After
Forbid == -2             \* a negative or unparseable grpc-retry-pushback-ms
Horizon == (Wrap - 1) \div 2
MinOf(a, b) == IF a < b THEN a ELSE b
MaxOf(a, b) == IF a > b THEN a ELSE b
Monus(a, b) == MaxOf(a - b, 0)

\* Millis::since
Since(a, b) == LET d == (a - b) % Wrap IN IF d > Horizon THEN 0 ELSE d

from_now(t, ms) == (t + MinOf(ms, Horizon)) % Wrap
remaining_ms(d, t) == Since(d, t)
permits(d, t, need) == remaining_ms(d, t) >= need

------------------------------------------------------------------------------
\* deadline/headers.rs.  A grpc-timeout is a value and a unit; the emitter
\* takes the largest unit that is exact and never emits zero.
emit_grpc_timeout(ms) ==
  LET m == MaxOf(ms, 1)
      Fits(u) == m % u = 0 /\ m \div u <= MaxDigits
  IN IF Fits(Hour) THEN [value |-> m \div Hour, unit |-> Hour]
     ELSE IF Fits(Minute) THEN [value |-> m \div Minute, unit |-> Minute]
     ELSE IF Fits(Second) THEN [value |-> m \div Second, unit |-> Second]
     ELSE [value |-> MinOf(m, MaxDigits), unit |-> 1]

parse_grpc_timeout(v) == v.value * v.unit

emit_expected_rq_timeout_ms(per_try, propagate) == MaxOf(MinOf(per_try, propagate), 1)

propagated_budget_ms(d, t) == Monus(remaining_ms(d, t), HopOffset)

\* An untrusted peer may shorten its budget and never lengthen it.
CapInbound(src, ms, tr) ==
  IF src # "RouteDefault" /\ ~tr THEN MinOf(ms, RouteTimeout) ELSE ms

\* The first signal that is present and honoured.
Chosen(grpc, expected, upstream, tr) ==
  IF grpc # None THEN <<"GrpcTimeout", grpc>>
  ELSE IF RespectExpected /\ expected # None THEN <<"ExpectedRqTimeout", expected>>
  ELSE IF tr /\ upstream # None THEN <<"UpstreamRqTimeout", upstream>>
  ELSE <<"RouteDefault", RouteTimeout>>

Clamp(ms) == MinOf(MaxOf(ms, MinTimeout), MaxTimeout)

------------------------------------------------------------------------------
Kinds == {"ConnectFailure", "TlsHandshakeFailure", "RefusedStream", "GoAwayUnprocessed",
          "H3RequestRejected", "ResetBeforeRequest", "ResetAfterRequest", "PerTryTimeout",
          "LocalOverload"} \cup Statuses

TrustsTimeouts(kind) ==
  kind \in {"ConnectFailure", "TlsHandshakeFailure", "RefusedStream", "GoAwayUnprocessed",
            "H3RequestRejected", "ResetBeforeRequest", "PerTryTimeout"}
proves_not_processed(kind) ==
  kind \in {"ConnectFailure", "TlsHandshakeFailure", "RefusedStream", "GoAwayUnprocessed",
            "H3RequestRejected", "ResetBeforeRequest"}

\* The retry-on class a failure belongs to; every status below 500 and most
\* gRPC codes belong to none.
Class(kind) ==
  CASE kind \in {"ConnectFailure", "TlsHandshakeFailure"} -> "connect-failure"
    [] kind \in {"RefusedStream", "GoAwayUnprocessed"} -> "refused-stream"
    [] kind = "H3RequestRejected" -> "http3-post-connect-failure"
    [] kind = "ResetBeforeRequest" -> "reset-before-request"
    [] kind = "ResetAfterRequest" -> "reset"
    [] kind = "PerTryTimeout" -> "per-try-timeout"
    [] kind = "LocalOverload" -> "local-overload"
    [] kind = "gateway" -> "gateway-error"
    [] kind = "5xx" -> "5xx"
    [] kind = "grpc14" -> "grpc-unavailable"
    [] kind = "grpc4" -> "grpc-deadline-exceeded"
    [] kind = "grpc8" -> "grpc-resource-exhausted"
    [] OTHER -> "none"

matches(kind, on) == Class(kind) \in on

\* The conjunction, as the veto it reports: the first clause that fails.
retryable(kind, ms) ==
  IF ~matches(kind, retry_on) THEN "NotInRetryOn"
  ELSE IF ~idempotent /\ ~treat_as_idempotent /\ ~proves_not_processed(kind) THEN "NonIdempotent"
  ELSE IF committed # "no" THEN "Committed"
  ELSE IF attempts >= MaxAttempts THEN "AttemptsExhausted"
  ELSE IF ~permits(deadline, now, ms + Estimate) THEN "DeadlineExhausted"
  ELSE "Retry"

window_for(n) == MinOf(Base * 2 ^ (n - 1), Cap)

\* resolve_backoff: the delays it may ask for, or why there is none.  A
\* pushback of zero is spread over the base interval; an unusable Retry-After
\* is ignored, an unusable grpc-retry-pushback-ms forbids.
Delays(push) ==
  IF push = Forbid THEN {}
  ELSE IF push = Absent THEN 0 .. window_for(backoff + 1)
  ELSE IF push = 0 THEN 0 .. Base
  ELSE {push}

Usable(push) == {ms \in Delays(push) : permits(deadline, now, ms + Estimate)}

------------------------------------------------------------------------------
\* DeadlineConfig::validate and the ranges of BackoffConfig::validate.
validate ==
  /\ 1 <= MinTimeout /\ MinTimeout <= MaxTimeout /\ MaxTimeout <= Horizon
  /\ FloorMs <= MaxTimeout /\ HopOffset <= MaxTimeout
  /\ 1 <= Base /\ Base <= Cap /\ MaxAttempts \in 1 .. 10

Init ==
  /\ validate
  /\ now \in StartTimes /\ deadline = 0 /\ source = "none"
  /\ trusted \in BOOLEAN /\ idempotent \in BOOLEAN /\ treat_as_idempotent = FALSE
  /\ retry_on \in RetryOns
  /\ phase = "ingress" /\ attempts = 0 /\ committed = "no" /\ backoff = 0 /\ wake = 0
  /\ processed = FALSE /\ applied = 0 /\ budget = [asked |-> 0, given |-> 0] /\ age = 0

establish ==
  \E g \in Budgets, e \in Inbounds, u \in Inbounds :
    LET c == Chosen(g, e, u, trusted)
        ms == Clamp(CapInbound(c[1], c[2], trusted))
    IN /\ phase = "ingress" /\ phase' = "ready"
       /\ deadline' = from_now(now, ms) /\ source' = c[1]
       /\ budget' = [asked |-> c[2], given |-> ms]
       /\ UNCHANGED <<now, trusted, idempotent, treat_as_idempotent, retry_on, attempts,
                      committed, backoff, wake, processed, applied, age>>

admit_attempt ==
  /\ phase = "ready"
  /\ IF remaining_ms(deadline, now) < FloorMs
     THEN phase' = "done" /\ UNCHANGED <<attempts, processed>>
     ELSE phase' = "attempt" /\ attempts' = attempts + 1 /\ processed' = FALSE
  /\ UNCHANGED <<now, deadline, source, trusted, idempotent, treat_as_idempotent, retry_on,
                 committed, backoff, wake, applied, budget, age>>

\* The origin acts on the request.
Process ==
  /\ phase = "attempt" /\ ~processed /\ processed' = TRUE /\ applied' = applied + 1
  /\ UNCHANGED <<now, deadline, source, trusted, idempotent, treat_as_idempotent, retry_on,
                 phase, attempts, committed, backoff, wake, budget, age>>

\* A response byte reaches the client, the replay buffer is released, an interim
\* response was seen or the stream was upgraded.
Commit ==
  /\ phase = "attempt" /\ committed = "no"
  /\ committed' = "yes"
  /\ UNCHANGED <<now, deadline, source, trusted, idempotent, treat_as_idempotent, retry_on,
                 phase, attempts, backoff, wake, processed, applied, budget, age>>

Respond ==
  /\ phase = "attempt" /\ processed /\ phase' = "done"
  /\ UNCHANGED <<now, deadline, source, trusted, idempotent, treat_as_idempotent, retry_on,
                 attempts, committed, backoff, wake, processed, applied, budget, age>>

\* The protocol's guarantees: what proves non-processing happens only before it,
\* and a status only after.
CanFail(kind) ==
  /\ kind \in {"ConnectFailure", "TlsHandshakeFailure", "RefusedStream", "GoAwayUnprocessed",
               "H3RequestRejected", "ResetBeforeRequest", "LocalOverload"}
     => ~processed /\ committed = "no"
  /\ kind \in Statuses => processed

fail(kind, push) ==
  /\ phase = "attempt" /\ CanFail(kind)
  /\ push # Absent => kind \in Statuses
  /\ backoff' = IF push = Absent THEN backoff + 1 ELSE backoff
  /\ \/ /\ Delays(push) # Usable(push) \/ push = Forbid
        /\ phase' = "done" /\ wake' = wake
     \/ \E ms \in Usable(push) :
          IF retryable(kind, ms) = "Retry"
          THEN phase' = "sleep" /\ wake' = (now + ms) % Wrap
          ELSE phase' = "done" /\ wake' = wake
  /\ UNCHANGED <<now, deadline, source, trusted, idempotent, treat_as_idempotent, retry_on,
                 attempts, committed, processed, applied, budget, age>>

\* The sleep ends, on time or a little late.
Wake ==
  /\ phase = "sleep" /\ Since(wake, now) = 0 /\ phase' = "ready"
  /\ UNCHANGED <<now, deadline, source, trusted, idempotent, treat_as_idempotent, retry_on,
                 attempts, committed, backoff, wake, processed, applied, budget, age>>

Tick ==
  /\ phase \notin {"ingress", "done"} /\ age <= budget.given
  /\ now' = (now + 1) % Wrap /\ age' = age + 1
  /\ UNCHANGED <<deadline, source, trusted, idempotent, treat_as_idempotent, retry_on, phase,
                 attempts, committed, backoff, wake, processed, applied, budget>>

Next ==
  \/ establish \/ admit_attempt \/ Process \/ Commit \/ Respond \/ Wake \/ Tick
  \/ \E kind \in Kinds, push \in Pushbacks : fail(kind, push)

------------------------------------------------------------------------------
\* Retrying never repeats what cannot be repeated: the origin acts at most once
\* on a request whose method is not idempotent, however its attempts fail.
AppliedOnce == ~idempotent => applied <= 1

\* No attempt follows the commit point, and there are never more than the
\* configured ceiling.
CommitIsFinal ==
  /\ attempts <= MaxAttempts
  /\ phase \in {"sleep", "ready"} => committed = "no"

\* Every attempt shares the deadline set at ingress, across the wrap of the
\* clock, and a retry is only slept for when it and one attempt still fit.
WithinFirstBudget ==
  /\ phase # "ingress" => remaining_ms(deadline, now) = Monus(budget.given, age)
  /\ phase = "sleep" => Since(wake, now) + Estimate <= Monus(budget.given, age)
                        \/ Since(wake, now) = 0

\* A peer that is not one of our hops never gets more than the route allows, and
\* a hop is told no more than is left, never zero, and reads back what was sent.
BudgetShrinks ==
  /\ phase # "ingress" /\ ~trusted => budget.given <= Clamp(RouteTimeout)
  /\ phase # "ingress" =>
       LET left == propagated_budget_ms(deadline, now)
           sent == emit_grpc_timeout(left)
       IN /\ sent.value \in 1 .. MaxDigits
          /\ parse_grpc_timeout(sent) <= MaxOf(left, 1)
          /\ left \in 1 .. MaxDigits => parse_grpc_timeout(sent) = left
          /\ emit_expected_rq_timeout_ms(left, left) >= 1
==============================================================================
