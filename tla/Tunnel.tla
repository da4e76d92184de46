------------------------------- MODULE Tunnel -------------------------------
(***************************************************************************)
(* A WebSocket tunnel: the upgrade a client asks for and an upstream       *)
(* answers (UpgradeRequest::parse, UpgradeResponse::verify), then one      *)
(* direction of frames through FrameDecoder, TunnelBudget and              *)
(* mask_in_place.  The wire cuts the frames anywhere.                      *)
(*                                                                         *)
(* Lengths are scaled: up to MaxShort they sit in the second byte, two     *)
(* digits of Base are the 16-bit form and four are the 64-bit form.  The   *)
(* bytes of a frame are <<rsv, opcode, fin, "b0">>, <<masked, len7, "b1">> *)
(* and <<n, "d">>; a payload byte and a byte of the key are 0 or 1.        *)
(***************************************************************************)
EXTENDS Integers, Sequences, SequencesExt, FiniteSets, TLC

CONSTANTS
  Requests, Responses,    \* upgrade requests and answers, as they arrive
  MAX_SUBPROTOCOLS, MAX_SUBPROTOCOL_BYTES,
  MaxOffset,              \* u16::MAX of a range into a header section
  MaskedDirection,        \* Direction::ClientToServer
  ReservedAllowed,        \* the reserved bits an extension would define
  MaxShort, Base,         \* 125, and the radix of the longer forms
  MaxFrame,               \* max_frame_bytes
  KeyLen,                 \* 4
  InvalidCodes,           \* close codes that may not be sent
  Frames, MaxFrames, MaxAhead,
  FrameCapacity, FrameRate, ByteCapacity, ByteRate, PingCost,
  Second, Wrap,           \* 1000 ms, and 2^32
  Gaps

VARIABLES
  shake,    \* the handshake: [at, req, res, got], "open" once frames flow
  dec,      \* FrameDecoder: [fragment_open, fragment_opcode]
  budget,   \* TunnelBudget: [frames, bytes, last]
  now,      \* the clock, never wrapped
  wire, buf,
  header,   \* the frame being relayed, None between frames
  got,      \* its payload so far, unmasked
  out,      \* the frames relayed
  err,      \* the WsError that closed the tunnel
  sent,     \* the frames the peer wrote
  spent,    \* what the frames cost so far, [frames, bytes]
  paced     \* every frame so far was earned since the one before it

tvars == <<shake, dec, budget, now, wire, buf, header, got, out, err, sent, spent, paced>>

None == "none"

------------------------------------------------------------------------------
(* handshake.rs.  A field is the sequence of its values, a value of          *)
(* sec-websocket-protocol a sequence of letters, "," and " ".                *)

trim_ows(v) ==
  LET solid == {i \in DOMAIN v : v[i] # " "}
  IN IF solid = {} THEN <<>>
     ELSE SubSeq(v, CHOOSE i \in solid : \A j \in solid : i <= j,
                    CHOOSE i \in solid : \A j \in solid : j <= i)

Tokens(value) ==
  LET cut == {0, Len(value) + 1} \cup {i \in DOMAIN value : value[i] = ","}
      nth(n) == CHOOSE i \in cut : Cardinality({j \in cut : j < i}) = n
  IN [n \in 1 .. Cardinality(cut) - 1 |-> trim_ows(SubSeq(value, nth(n - 1) + 1, nth(n) - 1))]

\* The names offered so far, packed: all letters in bytes, one range each.
NoNames == [bytes |-> <<>>, ranges |-> <<>>, err |-> None]

push_name(p, name) ==
  IF p.err # None \/ name = <<>> THEN p
  ELSE IF Len(p.ranges) >= MAX_SUBPROTOCOLS THEN [p EXCEPT !.err = "TooManySubprotocols"]
  ELSE IF Len(p.bytes) + Len(name) > MAX_SUBPROTOCOL_BYTES
    THEN [p EXCEPT !.err = "SubprotocolListTooLong"]
  ELSE [p EXCEPT !.bytes = @ \o name,
                 !.ranges = Append(@, <<Len(p.bytes), Len(p.bytes) + Len(name)>>)]

pack_names(values) == FoldLeft(push_name, NoNames, FlattenSeq([i \in DOMAIN values |-> Tokens(values[i])]))

subprotocols(p) == {SubSeq(p.bytes, r[1] + 1, r[2]) : r \in ToSet(p.ranges)}

\* Upgrade and Connection, as the caller saw them before they were stripped.
upgrade_tokens(m) ==
  IF m.duplicate_upgrade THEN "DuplicateUpgrade"
  ELSE IF m.upgrade # "websocket" THEN "UpgradeTokenNotWebsocket"
  ELSE IF ~m.connection_has_upgrade THEN "ConnectionTokenMissing" ELSE None

\* The value of a field that may appear once: the error for none, or two.
unique(values, missing) ==
  IF values = <<>> THEN missing ELSE IF Len(values) > 1 THEN "Duplicate" ELSE None

version_error(v) == IF v = "13" THEN None ELSE IF v = "x" THEN "Field" ELSE "UnsupportedVersion"
key_error(v) == IF v = "short" THEN "KeyWrongLength" ELSE IF v = "bad" THEN "KeyNotBase64" ELSE None

\* The first of these that is not None.
Try(errs) ==
  IF \A i \in DOMAIN errs : errs[i] = None THEN None
  ELSE errs[CHOOSE i \in DOMAIN errs : errs[i] # None /\ \A j \in 1 .. i - 1 : errs[j] = None]

parse(m, names) ==
  IF ~m.duplicate_upgrade /\ m.upgrade = None THEN "NotAnUpgrade"
  ELSE Try(<<upgrade_tokens(m),
             IF m.method # "GET" THEN "MethodNotGet" ELSE None,
             IF m.framing # "Empty" THEN "UpgradeWithBody" ELSE None,
             unique(m.version, "VersionMissing"),
             IF m.version = <<>> THEN None ELSE version_error(m.version[1]),
             unique(m.key, "KeyMissing"),
             IF m.key = <<>> THEN None ELSE key_error(m.key[1]),
             names.err>>)

accept_key(key) == <<"accept", key>>

subprotocol_value_range(m) == IF m.value_off + Len(m.protocol[1]) > MaxOffset
                              THEN "SubprotocolRangeUnrepresentable" ELSE None

selected(m, names) ==
  IF m.protocol = <<>> THEN None
  ELSE IF Len(m.protocol) > 1 THEN "Duplicate"
  ELSE IF m.protocol[1] \notin subprotocols(names) THEN "UnofferedSubprotocol"
  ELSE subprotocol_value_range(m)

verify(key, names, m) ==
  Try(<<IF m.status # 101 THEN "NotSwitchingProtocols" ELSE None,
        upgrade_tokens(m),
        unique(m.accept, "AcceptMissing"),
        IF m.accept = <<>> \/ m.accept[1] = accept_key(key) THEN None ELSE "AcceptMismatch",
        IF m.extensions THEN "UnrequestedExtension" ELSE None,
        selected(m, names)>>)

status(e, side) == IF side = "Response" THEN 502 ELSE IF e = "UnsupportedVersion" THEN 426 ELSE 400

------------------------------------------------------------------------------
(* frame.rs                                                                 *)

is_control(op) == op \in {"Close", "Ping", "Pong"}
is_data(op) == op \in {"Text", "Binary"}

Number(s) == FoldLeft(LAMBDA n, d : n * Base + d[1], 0, s)

\* payload_len and the length of the head without the key, -1 for more bytes.
Sized(len, bytes, e) == [len |-> len, bytes |-> bytes, err |-> e]
length16(s) ==
  IF Len(s) < 4 THEN Sized(-1, 0, None)
  ELSE LET v == Number(SubSeq(s, 3, 4))
       IN IF v <= MaxShort THEN Sized(v, 4, "NonMinimalLength") ELSE Sized(v, 4, None)
length64(s) ==
  IF Len(s) < 6 THEN Sized(-1, 0, None)
  ELSE LET v == Number(SubSeq(s, 3, 6))
       IN IF v < Base * Base THEN Sized(v, 6, "NonMinimalLength")
          ELSE IF v >= Base * Base * Base THEN Sized(v, 6, "LengthHighBitSet") ELSE Sized(v, 6, None)
length(s, len7) ==
  IF len7 = MaxShort + 1 THEN length16(s) ELSE IF len7 = MaxShort + 2 THEN length64(s)
  ELSE Sized(len7, 2, None)

first_byte(b0, masked) ==
  IF b0[1] # 0 /\ ~ReservedAllowed THEN "ReservedBitSet"
  ELSE IF b0[2] = "Reserved" THEN "ReservedOpcode"
  ELSE IF MaskedDirection /\ ~masked THEN "UnmaskedClientFrame"
  ELSE IF ~MaskedDirection /\ masked THEN "MaskedServerFrame" ELSE None

shape(op, fin, len, open) ==
  IF is_control(op) /\ len > MaxShort THEN "ControlFrameTooLong"
  ELSE IF is_control(op) /\ ~fin THEN "FragmentedControlFrame"
  ELSE IF op = "Continuation" /\ ~open THEN "UnexpectedContinuation"
  ELSE IF is_data(op) /\ open THEN "InterleavedDataFrame"
  ELSE IF len > MaxFrame THEN "FrameTooLong" ELSE None

Failed(e) == [at |-> "err", err |-> e]
NeedMore == [at |-> "more", err |-> None]

with_mask(s, op, fin, masked, size) ==
  IF masked /\ Len(s) < size.bytes + KeyLen THEN NeedMore
  ELSE [at |-> "header", err |-> None, opcode |-> op, fin |-> fin, payload_len |-> size.len,
        mask |-> IF masked THEN SubSeq(s, size.bytes + 1, size.bytes + KeyLen) ELSE <<>>,
        consumed |-> size.bytes + IF masked THEN KeyLen ELSE 0]

shaped(s, op, fin, masked, size, open) ==
  IF size.len = -1 THEN NeedMore
  ELSE IF size.err # None THEN Failed(size.err)
  ELSE IF shape(op, fin, size.len, open) # None THEN Failed(shape(op, fin, size.len, open))
  ELSE with_mask(s, op, fin, masked, size)

decode_header(s, open) ==
  IF Len(s) < 2 THEN NeedMore
  ELSE IF first_byte(s[1], s[2][1]) # None THEN Failed(first_byte(s[1], s[2][1]))
  ELSE shaped(s, s[1][2], s[1][3], s[2][1], length(s, s[2][2]), open)


commit(d, h) ==
  IF is_control(h.opcode) THEN d
  ELSE IF h.fin THEN [fragment_open |-> FALSE, fragment_opcode |-> None]
  ELSE IF is_data(h.opcode) THEN [fragment_open |-> TRUE, fragment_opcode |-> h.opcode] ELSE d

mask_in_place(payload, key, offset) ==
  [i \in DOMAIN payload |-> (payload[i][1] + key[((offset + i - 1) % KeyLen) + 1][1]) % 2]

\* One piece of a payload as the bridge forwards it.
Unmasked(payload, h, offset) ==
  IF h.mask = <<>> THEN [i \in DOMAIN payload |-> payload[i][1]]
  ELSE mask_in_place(payload, h.mask, offset)

validate_close_payload(h, payload) ==
  LET clear == Unmasked(payload, h, 0)
  IN IF payload = <<>> THEN None
     ELSE IF Len(payload) < 2 THEN "CloseFramePayloadTooShort"
     ELSE IF clear[1] * 2 + clear[2] \in InvalidCodes THEN "InvalidCloseCode" ELSE None

Least(a, b) == IF a < b THEN a ELSE b
Earned(elapsed, rate) == (elapsed * rate) \div Second
Elapsed == (now - budget.last) % Wrap

refill ==
  [frames |-> Least(budget.frames + Earned(Elapsed, FrameRate), FrameCapacity),
   bytes |-> Least(budget.bytes + Earned(Elapsed, ByteRate), ByteCapacity),
   last |-> now]

frame_cost(h) == IF h.opcode \in {"Ping", "Pong"} THEN PingCost ELSE 1

debit(h) == [refill EXCEPT !.frames = @ - frame_cost(h), !.bytes = @ - h.payload_len]
Exhausted(b) == b.frames < 0 \/ b.bytes < 0

------------------------------------------------------------------------------
Closed == [fragment_open |-> FALSE, fragment_opcode |-> None]
NoFrame == [at |-> "none"]

Init ==
  /\ shake = [at |-> "idle"]
  /\ dec = Closed
  /\ budget = [frames |-> FrameCapacity, bytes |-> ByteCapacity, last |-> 0]
  /\ now = 0 /\ wire = <<>> /\ buf = <<>> /\ header = NoFrame /\ got = <<>> /\ out = <<>>
  /\ err = None /\ sent = <<>> /\ spent = [frames |-> 0, bytes |-> 0] /\ paced = TRUE

Still == UNCHANGED <<dec, budget, now, wire, buf, header, got, out, err, sent, spent, paced>>

\* A client asks; what is refused is answered and the connection stays HTTP.
Ask(m) ==
  LET names == pack_names(m.protocol)
      e == parse(m, names)
  IN /\ shake.at = "idle"
     /\ shake' = [at |-> IF e = None THEN "asked" ELSE "refused", req |-> m, names |-> names,
                  offered_extensions |-> m.extensions,
                  err |-> e, status |-> IF e = None THEN 0 ELSE status(e, "Request")]
     /\ Still

Answer(m) ==
  LET e == verify(shake.req.key[1], shake.names, m)
  IN /\ shake.at = "asked"
     /\ shake' = [at |-> IF e = None THEN "answered" ELSE "poisoned", req |-> shake.req,
                  names |-> shake.names, res |-> m, err |-> e,
                  status |-> IF e = None THEN 101 ELSE status(e, "Response")]
     /\ Still

Switch == shake.at = "answered" /\ shake' = [at |-> "open"] /\ Still

Digit(n) == <<n, "d">>
ExtraDigits(f) ==
  CASE f.form = 7 -> <<>>
    [] f.form = 16 -> <<Digit(f.len \div Base), Digit(f.len % Base)>>
    [] f.form = 64 -> [i \in 1 .. 4 |-> Digit((f.len \div (Base ^ (4 - i))) % Base)]
Masked(f) == [i \in DOMAIN f.payload |->
                Digit(IF f.masked THEN (f.payload[i] + f.key[((i - 1) % KeyLen) + 1]) % 2 ELSE f.payload[i])]
Wire(f) ==
  <<<<f.rsv, f.opcode, f.fin, "b0">>,
    <<f.masked, IF f.form = 7 THEN f.len ELSE IF f.form = 16 THEN MaxShort + 1 ELSE MaxShort + 2, "b1">>>>
  \o ExtraDigits(f) \o (IF f.masked THEN [i \in DOMAIN f.key |-> Digit(f.key[i])] ELSE <<>>)
  \o Masked(f)

\* The peer writes a frame.
Write(f) ==
  /\ shake.at = "open" /\ Len(sent) < MaxFrames /\ Len(wire) <= MaxAhead
  /\ sent' = Append(sent, f) /\ wire' = wire \o Wire(f)
  /\ UNCHANGED <<shake, dec, budget, now, buf, header, got, out, err, spent, paced>>

\* A pause before the next frame.
Wait(gap) ==
  /\ shake.at = "open" /\ err = None /\ wire = <<>> /\ Len(sent) < MaxFrames /\ now = budget.last
  /\ now' = now + gap
  /\ UNCHANGED <<shake, dec, budget, wire, buf, header, got, out, err, sent, spent, paced>>

Due == /\ err = None /\ buf # <<>>
       /\ IF header.at = "header" THEN header.opcode = "Close" => Len(buf) >= header.payload_len
          ELSE decode_header(buf, dec.fragment_open).at # "more"

\* A read returns some of what is under way; it is made when nothing can be
\* done with what is there.
Arrive(n) ==
  /\ err = None /\ ~Due /\ n \in 1 .. Len(wire)
  /\ buf' = buf \o SubSeq(wire, 1, n) /\ wire' = SubSeq(wire, n + 1, Len(wire))
  /\ UNCHANGED <<shake, dec, budget, now, header, got, out, err, sent, spent, paced>>

Relayed(h, payload) == [opcode |-> h.opcode, fin |-> h.fin, payload |-> payload]

\* A header is taken: its cost is debited, and the decoder is told.
TakeHeader(h) ==
  /\ IF h.at = "err" THEN err' = h.err /\ UNCHANGED <<dec, budget, buf, header, got, out, spent, paced>>
     ELSE /\ budget' = debit(h)
          /\ spent' = [frames |-> spent.frames + frame_cost(h), bytes |-> spent.bytes + h.payload_len]
          /\ paced' = (paced /\ now - budget.last < Wrap
                             /\ (now - budget.last) * FrameRate >= frame_cost(h) * Second
                             /\ (now - budget.last) * ByteRate >= h.payload_len * Second)
          /\ buf' = SubSeq(buf, h.consumed + 1, Len(buf))
          /\ IF Exhausted(debit(h))
             THEN err' = "BudgetExhausted" /\ UNCHANGED <<dec, header, got, out>>
             ELSE /\ dec' = commit(dec, h) /\ err' = None /\ got' = <<>>
                  /\ IF h.payload_len = 0
                     THEN header' = NoFrame /\ out' = Append(out, Relayed(h, <<>>))
                     ELSE header' = h /\ out' = out

Piece(h, n) == Unmasked(SubSeq(buf, 1, n), h, Len(got))

\* Some more of a payload is forwarded; a close frame waits for all of it.
TakePayload(h, n) ==
  LET whole == Len(got) + n = h.payload_len
      bad == IF h.opcode = "Close" THEN validate_close_payload(h, SubSeq(buf, 1, n)) ELSE None
  IN IF h.opcode = "Close" /\ bad # None
     THEN err' = bad /\ UNCHANGED <<dec, budget, buf, header, got, out, spent, paced>>
     ELSE /\ buf' = SubSeq(buf, n + 1, Len(buf))
          /\ got' = IF whole THEN <<>> ELSE got \o Piece(h, n)
          /\ out' = IF whole THEN Append(out, Relayed(h, got \o Piece(h, n))) ELSE out
          /\ header' = IF whole THEN NoFrame ELSE h
          /\ UNCHANGED <<dec, budget, err, spent, paced>>

Relay ==
  /\ Due
  /\ IF header.at = "header"
     THEN TakePayload(header, Least(Len(buf), header.payload_len - Len(got)))
     ELSE TakeHeader(decode_header(buf, dec.fragment_open))
  /\ UNCHANGED <<shake, now, wire, sent>>

Next ==
  \/ \E m \in Requests : Ask(m)
  \/ \E m \in Responses : Answer(m)
  \/ Switch
  \/ \E f \in Frames : Write(f)
  \/ \E gap \in Gaps : Wait(gap)
  \/ \E n \in 1 .. Len(wire) : Arrive(n)
  \/ Relay
------------------------------------------------------------------------------
\* n is an element of a comma-separated value: only blanks between it and a
\* comma, or an end, on either side.
Element(v, n) ==
  \E i \in 1 .. Len(v) : \E j \in i .. Len(v) :
    /\ SubSeq(v, i, j) = n /\ \A k \in i .. j : v[k] # ","
    /\ v[i] # " " /\ v[j] # " "
    /\ \E a \in 0 .. i - 1 : (a = 0 \/ v[a] = ",") /\ \A k \in a + 1 .. i - 1 : v[k] = " "
    /\ \E b \in j + 1 .. Len(v) + 1 :
         (b = Len(v) + 1 \/ v[b] = ",") /\ \A k \in j + 1 .. b - 1 : v[k] = " "
Offered(m, n) == \E v \in ToSet(m.protocol) : Element(v, n)

Speaks(m) == ~m.duplicate_upgrade /\ m.upgrade = "websocket" /\ m.connection_has_upgrade

\* A tunnel opens only where both ends agreed on the same one: the upstream
\* answered this client's key, selected at most one name and one the client
\* wrote, and no extension; an upstream that did all that is never refused,
\* and whose fault a refusal is shows in its status.
UpgradeAgreed ==
  /\ shake.at \in {"asked", "answered"} =>
       Speaks(shake.req) /\ shake.req.method = "GET" /\ shake.req.framing = "Empty"
  /\ shake.at \in {"answered", "poisoned"} =>
       (shake.at = "answered") =
         (/\ shake.res.status = 101 /\ Speaks(shake.res) /\ ~shake.res.extensions
          /\ shake.res.accept = <<accept_key(shake.req.key[1])>>
          /\ Len(shake.res.protocol) <= 1
          /\ \A n \in ToSet(shake.res.protocol) :
               Offered(shake.req, n) /\ shake.res.value_off + Len(n) <= MaxOffset)
  /\ shake.at = "refused" => shake.status \in {400, 426}
  /\ shake.at = "poisoned" => shake.status = 502

\* A message of these frames is still unfinished.
Unfinished(frames) ==
  \E i \in DOMAIN frames :
    /\ is_data(frames[i].opcode) /\ ~frames[i].fin
    /\ \A j \in i + 1 .. Len(frames) : frames[j].fin => is_control(frames[j].opcode)

Shortest(f) == CASE f.form = 7 -> TRUE
                 [] f.form = 16 -> f.len > MaxShort
                 [] f.form = 64 -> f.len >= Base * Base /\ f.len < Base * Base * Base

\* The frame an RFC 6455 endpoint may send after those.
WellFormed(f, before) ==
  /\ f.rsv = 0 \/ ReservedAllowed
  /\ f.opcode # "Reserved" /\ f.masked = MaskedDirection
  /\ Shortest(f) /\ f.len <= MaxFrame
  /\ is_control(f.opcode) => f.fin /\ f.len <= MaxShort
  /\ is_data(f.opcode) => ~Unfinished(before)
  /\ f.opcode = "Continuation" => Unfinished(before)
  /\ f.opcode = "Close" =>
       \/ f.len = 0
       \/ f.len >= 2 /\ f.payload[1] * 2 + f.payload[2] \notin InvalidCodes

\* However the wire cuts them, the frames relayed are the frames sent, bytes
\* and all, up to the first one no endpoint may send; that one closes the
\* tunnel, and nothing else but the budget does.  Nothing is left lying when
\* every byte has arrived.
FramesFaithful ==
  /\ Len(out) <= Len(sent)
  /\ \A i \in DOMAIN out :
       /\ out[i] = [opcode |-> sent[i].opcode, fin |-> sent[i].fin, payload |-> sent[i].payload]
       /\ WellFormed(sent[i], SubSeq(sent, 1, i - 1))
  /\ err \notin {None, "BudgetExhausted"} =>
       /\ Len(out) < Len(sent)
       /\ ~WellFormed(sent[Len(out) + 1], SubSeq(sent, 1, Len(out)))
  /\ err = None /\ wire = <<>> /\ ~Due => buf = <<>> /\ header = NoFrame /\ Len(out) = Len(sent)

\* Over any stretch a tunnel relays at most the burst and what the rate earns,
\* and a sender that spaces its frames by what they cost is never cut off.
BudgetFair ==
  /\ budget.frames <= FrameCapacity /\ budget.bytes <= ByteCapacity
  /\ err # "BudgetExhausted" =>
       /\ spent.frames <= FrameCapacity + Earned(now, FrameRate)
       /\ spent.bytes <= ByteCapacity + Earned(now, ByteRate)
  /\ paced => err # "BudgetExhausted"

=============================================================================
