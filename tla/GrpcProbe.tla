------------------------------ MODULE GrpcProbe ------------------------------
(* irontraffic-resilience/src/health/{grpc,grpc_mode}.rs: the Watch-versus-  *)
(* Check policy of one endpoint, the decoder of HealthCheckResponse frames,  *)
(* the runner that owns the stream, and a server that is silent, answers     *)
(* UNIMPLEMENTED, or sends frames with fields of its own.  A varint digit is *)
(* Radix values and a continuation bit (7 bits in the code); time is modulo  *)
(* Wrap (2^32 ms).                                                           *)
EXTENDS Integers, Sequences, SequencesExt

CONSTANTS
  PreferWatch, Interval, LivenessMultiplier, RetryAfter,
  Radix,                \* 128: values of one varint digit; a tag is 8 * field + wire
  MaxVarint,            \* 10 digits
  MaxMessage,           \* MAX_MESSAGE_LEN
  StatusWidth,          \* 2^32: a status keeps these low bits
  Messages,             \* what servers send: a compression flag, fields, and how many
                        \* bytes the buffer holds beyond (or short of) the message
  Wrap, Start, MaxAge

VARIABLES
  now, mode, last_message_at, next_ping_at, unary_checks_since_fallback, last_serving,
  action,               \* what the last on_check_due asked for
  asked,                \* the runner has been asked to open a stream and has not answered
  stream,               \* the stream the runner holds: 0 none, else its number
  opened,               \* streams opened so far
  late,                 \* frames of closed streams still in the socket buffer
  evidence,             \* the stream of the last message the machine believed (history)
  quiet,                \* ms since the open stream last showed life (history)
  age

gvars == <<now, mode, last_message_at, next_ping_at, unary_checks_since_fallback,
           last_serving, action, asked, stream, opened, late, evidence, quiet, age>>

None == -1
Horizon == (Wrap - 1) \div 2
Since(a, b) == LET d == (a - b) % Wrap IN IF d > Horizon THEN 0 ELSE d

------------------------------------------------------------------------------
\* A varint of n digits, least significant first, every digit but the last with
\* the continuation bit; n may be more than the value needs.
Varint(v, n) ==
  [i \in 1 .. n |-> ((v \div Radix ^ (i - 1)) % Radix) + (IF i < n THEN Radix ELSE 0)]

\* A field as servers encode it: its number, wire type, value, and the digits
\* spent on the value.
Encode(f) ==
  Varint(8 * f.field + f.wire, 2) \o
    (CASE f.wire = 0 -> Varint(f.value, f.digits)
       [] f.wire = 1 -> [i \in 1 .. 8 |-> 0]
       [] f.wire = 2 -> Varint(f.value, f.digits) \o [i \in 1 .. f.value |-> 0]
       [] f.wire = 5 -> [i \in 1 .. 4 |-> 0]
       [] OTHER -> <<>>)

Body(m) == FlattenSeq([i \in DOMAIN m.fields |-> Encode(m.fields[i])])

\* The five-byte prefix declares a length; the buffer may hold more, or less.
Frame(m) ==
  LET b == Body(m)
  IN [flag |-> m.flag, len |-> Len(b),
      buf |-> IF m.slack < 0 THEN SubSeq(b, 1, Len(b) + m.slack)
              ELSE b \o [i \in 1 .. m.slack |-> 0]]

\* read_varint: <<value, next>>, or <<None, i>> for BadVarint.
read_varint(msg, i) ==
  LET ends == {k \in i .. i + MaxVarint - 1 : k <= Len(msg) /\ msg[k] < Radix}
      e == CHOOSE k \in ends : \A j \in ends : k <= j
      digits == [k \in 0 .. e - i |-> (msg[i + k] % Radix) * Radix ^ k]
  IN IF ends = {} THEN <<None, i>>
     ELSE <<FoldLeft(LAMBDA a, k : a + digits[k], 0, [k \in 1 .. e - i + 1 |-> k - 1]), e + 1>>

truncate_varint_status(v) == v % StatusWidth

\* One turn of decode_health_response's loop: skip or keep a field by its wire
\* type.  i = None is an error.
Turn(msg, s) ==
  LET tag == read_varint(msg, s.i)
      wire == tag[1] % 8
      v == read_varint(msg, tag[2])
      Skip(i) == IF i <= Len(msg) + 1 THEN [s EXCEPT !.i = i] ELSE [s EXCEPT !.i = None]
      bad == [s EXCEPT !.i = None]
  IN IF tag[1] = None THEN bad
     ELSE CASE wire = 0 -> IF v[1] = None THEN bad
                           ELSE [i |-> v[2],
                                 status |-> IF tag[1] \div 8 = 1 THEN truncate_varint_status(v[1])
                                            ELSE s.status]
            [] wire = 1 -> Skip(tag[2] + 8)
            [] wire = 2 -> IF v[1] = None THEN bad ELSE Skip(v[2] + v[1])
            [] wire = 5 -> Skip(tag[2] + 4)
            [] OTHER -> bad

\* The status, Unset when no field carried one, None for any error.
Unset == 0
decode_health_response(f) ==
  LET msg == SubSeq(f.buf, 1, f.len)
      Step(s, n) == IF s.i = None \/ s.i > Len(msg) THEN s ELSE Turn(msg, s)
      end == FoldLeft(Step, [i |-> 1, status |-> Unset], msg)
  IN IF f.flag # 0 \/ f.len > MaxMessage \/ f.len > Len(f.buf) THEN None
     ELSE IF end.i = None THEN None ELSE end.status

SERVING == 1
UNIMPLEMENTED == 12

\* grpc-status 12 wins whatever the body; any other nonzero one fails; then the
\* body decides, and a body that did not decode is a protocol error.
serving_status_verdict(raw, grpc_status) ==
  [unimplemented |-> grpc_status = UNIMPLEMENTED,
   outcome |-> CASE grpc_status = UNIMPLEMENTED \/ raw = None -> "Protocol"
                 [] grpc_status # UNIMPLEMENTED /\ raw # None ->
                      IF grpc_status = 0 /\ raw = SERVING THEN "Pass" ELSE "Status"]

------------------------------------------------------------------------------
Init ==
  /\ now = Start /\ mode = "WatchDesired" /\ last_message_at = Start /\ next_ping_at = Start
  /\ unary_checks_since_fallback = 0 /\ last_serving = Unset
  /\ action = "none" /\ asked = FALSE /\ stream = 0 /\ opened = 0 /\ late = {}
  /\ evidence = 0 /\ quiet = 0 /\ age = 0

liveness_deadline_ms ==
  LET d == Interval * LivenessMultiplier IN IF d < Horizon - 1 THEN d ELSE Horizon - 1

\* Every exit from WatchOpen drops what the stream said last.
KeepsServing(s) == s
Forgets(s) == Unset

WatchDesiredDue ==
  /\ mode = "WatchDesired"
  /\ IF PreferWatch
     THEN action' = "OpenWatch" /\ asked' = TRUE
          /\ UNCHANGED <<mode, unary_checks_since_fallback>>
     ELSE /\ mode' = "UnaryFallback" /\ unary_checks_since_fallback' = 1
          /\ action' = "SendUnaryCheck" /\ UNCHANGED asked
  /\ UNCHANGED <<next_ping_at, last_serving, stream, late>>

\* A stream silent past the deadline: the runner closes it, and what it still
\* had to say stays in the socket buffer for a while.
WatchOpenDue ==
  /\ mode = "WatchOpen"
  /\ IF Since(now, last_message_at) > liveness_deadline_ms
     THEN /\ mode' = "WatchDesired" /\ last_serving' = Forgets(last_serving)
          /\ action' = "CloseStreamAndFallback"
          /\ stream' = 0 /\ late' \in SUBSET {stream}
          /\ UNCHANGED next_ping_at
     ELSE /\ IF Since(now, next_ping_at) # 0
             THEN next_ping_at' = (now + Interval) % Wrap /\ action' = "SendPing"
             ELSE action' = "Idle" /\ UNCHANGED next_ping_at
          /\ UNCHANGED <<mode, last_serving, stream, late>>
  /\ UNCHANGED <<unary_checks_since_fallback, asked>>

UnaryFallbackDue ==
  /\ mode = "UnaryFallback"
  /\ IF PreferWatch /\ unary_checks_since_fallback >= RetryAfter
     THEN /\ mode' = "WatchDesired" /\ unary_checks_since_fallback' = 0
          /\ action' = "OpenWatch" /\ asked' = TRUE
     ELSE /\ unary_checks_since_fallback' =
               IF unary_checks_since_fallback > RetryAfter THEN unary_checks_since_fallback
               ELSE unary_checks_since_fallback + 1
          /\ action' = "SendUnaryCheck" /\ UNCHANGED <<mode, asked>>
  /\ UNCHANGED <<next_ping_at, last_serving, stream, late>>

\* The scheduler calls once per interval.
on_check_due ==
  /\ age % Interval = 0 /\ action = "none"
  /\ WatchDesiredDue \/ WatchOpenDue \/ UnaryFallbackDue
  /\ UNCHANGED <<now, last_message_at, opened, evidence, quiet, age>>

\* External: a runner accepts no frame of a closed stream once the next one is open.
on_watch_open ==
  /\ asked /\ stream = 0 /\ asked' = FALSE
  /\ opened' = opened + 1 /\ stream' = opened + 1 /\ late' = {}
  /\ mode' = "WatchOpen" /\ last_message_at' = now /\ next_ping_at' = (now + Interval) % Wrap
  /\ quiet' = 0
  /\ UNCHANGED <<now, unary_checks_since_fallback, last_serving, action, evidence, age>>

\* A frame of stream s that the decoder accepted.
on_watch_message(s, raw) ==
  /\ IF mode = "WatchOpen"
     THEN /\ last_message_at' = now /\ last_serving' = raw /\ evidence' = s /\ quiet' = 0
     ELSE UNCHANGED <<last_message_at, last_serving, evidence, quiet>>
  /\ UNCHANGED <<now, mode, next_ping_at, unary_checks_since_fallback, action, asked, stream,
                 opened, age>>

Deliver(m) ==
  LET raw == decode_health_response(Frame(m))
  IN \/ /\ stream # 0 /\ raw # None /\ on_watch_message(stream, raw) /\ UNCHANGED late
     \/ \E s \in late : raw # None /\ on_watch_message(s, raw) /\ late' = late \ {s}

\* A stream can also be refused before it opened.
on_watch_closed(verdict) ==
  /\ stream # 0 \/ asked
  /\ asked' = FALSE /\ stream' = 0
  /\ late' \in SUBSET (IF stream = 0 THEN {} ELSE {stream})
  /\ IF verdict.unimplemented THEN mode' = "UnaryFallback" /\ unary_checks_since_fallback' = 0
     ELSE mode' = "WatchDesired" /\ UNCHANGED unary_checks_since_fallback
  /\ last_serving' = Forgets(last_serving)
  /\ UNCHANGED <<now, last_message_at, next_ping_at, action, opened, evidence, quiet, age>>

on_ping_ack ==
  /\ stream # 0 /\ last_message_at' = now /\ quiet' = 0
  /\ UNCHANGED <<now, mode, next_ping_at, unary_checks_since_fallback, last_serving, action,
                 asked, stream, opened, late, evidence, age>>

Tick ==
  /\ age < MaxAge /\ (age % Interval = 0 => action # "none")
  /\ now' = (now + 1) % Wrap /\ age' = age + 1 /\ action' = "none"
  /\ quiet' = IF stream # 0 THEN quiet + 1 ELSE 0
  /\ UNCHANGED <<mode, last_message_at, next_ping_at, unary_checks_since_fallback,
                 last_serving, asked, stream, opened, late, evidence>>

Next ==
  \/ on_check_due \/ on_watch_open \/ on_ping_ack \/ Tick
  \/ \E gs \in {0, 14, UNIMPLEMENTED} : on_watch_closed(serving_status_verdict(Unset, gs))
  \/ \E m \in Messages : Deliver(m)

------------------------------------------------------------------------------
current_outcome == IF mode # "WatchOpen" THEN "none"
                   ELSE IF last_serving = SERVING THEN "Pass" ELSE "Status"

\* A stream passes on its own word only: no message of an earlier stream, late
\* or not, makes a stream that has said nothing look healthy.
PassHasEvidence == current_outcome = "Pass" => evidence = stream /\ stream # 0

\* prefer_watch = false means that no stream is ever opened, by any route.
NeverUnwanted == ~PreferWatch => opened = 0 /\ ~asked

\* A stream that shows no life is given up at the next check after its liveness
\* deadline.
SilenceBounded ==
  stream # 0 => quiet <= Interval * LivenessMultiplier + Interval

\* The decoder reads what was written: the last status field wins, whatever
\* fields surround it and however wastefully it was encoded.
DecodesFields ==
  \A m \in Messages :
    LET fs == m.fields
        st == SelectSeq(fs, LAMBDA f : f.field = 1 /\ f.wire = 0)
        ok == \A i \in DOMAIN fs : fs[i].wire \in {0, 1, 2, 5} /\ fs[i].digits <= MaxVarint
    IN decode_health_response(Frame(m)) =
         IF ~ok \/ m.flag # 0 \/ m.slack < 0 \/ Len(Body(m)) > MaxMessage THEN None
         ELSE IF st = <<>> THEN Unset ELSE st[Len(st)].value % StatusWidth
==============================================================================
