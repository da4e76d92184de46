------------------------------ MODULE Exchange ------------------------------
(***************************************************************************)
(* A multiplexed (HTTP/2 or HTTP/3) stream answered over one upstream      *)
(* HTTP/1 connection: MplexHeadBuilder, MplexTrailerBuilder and            *)
(* MplexResponseBuilder, which are handed decoded fields one by one,       *)
(* BodyAccounting, which reconciles DATA with the declared length, and     *)
(* ExchangeLedger, which decides whether the connection may be used again. *)
(*                                                                         *)
(* Field sections, framing, Expect and stripping are the functions the     *)
(* HTTP/1 path uses, and are taken from HttpHead with its units: a name is *)
(* one unit, a value a sequence of units.  The codec that feeds a stream   *)
(* and the loop that drives the ledger are not in the repository; they     *)
(* follow the call order its documentation sets.                           *)
(***************************************************************************)
EXTENDS Integers, Sequences, SequencesExt, FiniteSets, TLC

CONSTANTS
  Kind,                     \* the block of a stream: "request", "response" or "trailer"
  Starts, Fields,           \* how a block may begin, and what may follow
  MaxPush,                  \* bound: fields that follow
  MaxCrumbs,                \* MAX_COOKIE_CRUMBS
  MaxLine, MaxCount, MaxList, Overhead,   \* ClampedLimits
  Method,                   \* of the request a response block answers
  Frames,                   \* lengths of DATA frames
  MaxOctets,                \* bound: octets of a request body
  TrailerBlocks,            \* trailer sections a client may end with
  Replies,                  \* what the upstream may send: <<framing, octets, ends>>
  MaxReplies, MaxRequests   \* bounds: replies to a request, streams

VARIABLES
  stream,    \* the client's stream
  conn,      \* the upstream connection
  opened     \* streams opened so far

xvars == <<stream, conn, opened>>

H1 == INSTANCE HttpHead WITH
  FirstLines <- {}, FieldLines <- {}, LineEnds <- {}, Drip <- FALSE, MaxFields <- 0,
  MaxFirst <- 9, MaxCount <- 99, MaxList <- 99, MapToHyphen <- TRUE, AcceptCodings <- FALSE,
  ForwardProxy <- TRUE, WillBuffer <- FALSE, KeepAlive <- TRUE, Methods <- {}, MaxInterim <- 0,
  MaxInterimBytes <- 0, MaxCodings <- 8, MaxTokens <- 2, DefaultHost <- "none",
  method <- Method, lines <- 0, wire <- <<>>, buf <- <<>>, msg <- <<>>, out <- <<>>, interim <- 0

Refuse(e) == [err |-> e]
Bad(r) == r.err # ""
Has(f, name) == name \in DOMAIN f

------------------------------------------------------------------------------
(* mplex/head.rs.                                                           *)

Slots == [request |-> {":method", ":scheme", ":authority", ":path", ":protocol"},
          response |-> {":status"}]
Pseudo == Slots.request \cup Slots.response \cup {":x"}
is_connection_specific == {"connection", "transfer-encoding", "upgrade"}
trailer_denied == {"transfer-encoding", "content-length", "host", "expect", "te", "cookie", "trailer"}

NewBlock(kind) ==
  [err |-> "", kind |-> kind, used |-> 0, seen_regular |-> FALSE, pseudo |-> <<>>, crumbs |-> <<>>,
   fields |-> <<>>, listed |-> 0]

validate_value(v) ==
  IF "!" \in ToSet(v) THEN "FieldValueInvalidByte"
  ELSE IF v # <<>> /\ v[1] \in H1!Ows THEN "FieldValueLeadingWhitespace"
  ELSE IF v # <<>> /\ Last(v) \in H1!Ows THEN "FieldValueTrailingWhitespace"
  ELSE ""

validate_name(n) ==
  CASE n \in {"X-A", "Host"} -> "FieldNameUppercase" [] n = "x_a" -> "FieldNameUnderscore"
    [] n = "@" -> "FieldNameInvalidByte" [] OTHER -> ""

Size(f) == 1 + Len(f.value) + Overhead

\* FieldSectionBuilder::admit and push.
admitted(b, f) ==
  IF Len(b.fields) >= MaxCount THEN "FieldCountExceeded"
  ELSE IF 1 + Len(f.value) > MaxLine THEN "FieldLineTooLong"
  ELSE IF b.listed + Size(f) > MaxList THEN "HeaderListTooLarge"
  ELSE validate_value(f.value)

section_push(b, f, err) ==
  IF err # "" THEN [b EXCEPT !.err = err]
  ELSE [b EXCEPT !.fields = Append(@, [name |-> f.name, value |-> f.value, mapped |-> FALSE]),
                 !.listed = @ + Size(f)]

push_pseudo(b, f) ==
  LET err == IF b.kind = "trailer" THEN "PseudoHeaderInTrailer"
             ELSE IF b.seen_regular THEN "PseudoHeaderAfterField"
             ELSE IF f.name \notin Slots[b.kind] THEN "PseudoHeaderUnknown"
             ELSE IF Has(b.pseudo, f.name) THEN "PseudoHeaderDuplicate"
             ELSE validate_value(f.value)
  IN IF err # "" THEN [b EXCEPT !.err = err] ELSE [b EXCEPT !.pseudo = (f.name :> f.value) @@ @]

regular(f, kind) ==
  IF validate_name(f.name) # "" THEN validate_name(f.name)
  ELSE IF validate_value(f.value) # "" THEN validate_value(f.value)
  ELSE IF f.name \in is_connection_specific THEN "ConnectionSpecificField"
  ELSE IF kind = "trailer" /\ f.name \in trailer_denied THEN "TrailerFieldForbidden"
  ELSE IF f.name = "te" /\ f.value # <<"trailers">> THEN "TeValueNotTrailers"
  ELSE ""

push_regular(b, f, err) ==
  IF err # "" THEN [b EXCEPT !.err = err]
  ELSE IF b.kind = "request" /\ f.name = "cookie"
    THEN IF Len(b.crumbs) >= MaxCrumbs THEN [b EXCEPT !.err = "FieldCountExceeded"]
         ELSE [b EXCEPT !.crumbs = Append(@, f.value)]
  ELSE section_push(b, f, admitted(b, f))

push_charged(b, f) ==
  IF b.used > MaxList THEN [b EXCEPT !.err = "HeaderListTooLarge"]
  ELSE IF f.name = "" THEN [b EXCEPT !.err = "FieldNameEmpty"]
  ELSE IF f.name \in Pseudo THEN push_pseudo(b, f)
  ELSE push_regular([b EXCEPT !.seen_regular = TRUE], f, regular(f, b.kind))

\* count is the number of fields charged with this one.
push(b, f, count) ==
  IF count > MaxCount THEN [b EXCEPT !.err = "FieldCountExceeded"]
  ELSE push_charged([b EXCEPT !.used = @ + Size(f)], f)

\* CookieAccumulator::join_into.
join_into(crumbs) ==
  FlattenSeq([i \in DOMAIN crumbs |-> IF i > 1 THEN <<";", " ">> \o crumbs[i] ELSE crumbs[i]])

with_cookies(b) ==
  LET f == [name |-> "cookie", value |-> join_into(b.crumbs)]
  IN IF b.crumbs = <<>> THEN b ELSE section_push(b, f, admitted(b, f))

resolve_scheme_and_path(meth, scheme, path) ==
  IF scheme \notin {<<"http">>, <<"https">>} THEN Refuse("PseudoHeaderUnknown")
  ELSE IF path = <<>> THEN Refuse("PathEmpty")
  ELSE IF path # <<"*">> THEN [err |-> "", form |-> "Origin"]
  ELSE IF meth = "OPTIONS" THEN [err |-> "", form |-> "Asterisk"]
  ELSE Refuse("TargetFormInvalid")

shape(meth, p) ==
  LET both == Has(p, ":scheme") /\ Has(p, ":path")
  IN IF meth = "CONNECT" /\ ~Has(p, ":protocol")
       THEN IF Has(p, ":scheme") \/ Has(p, ":path") THEN Refuse("PseudoHeaderUnknown")
            ELSE IF ~Has(p, ":authority") THEN Refuse("PseudoHeaderMissing")
            ELSE [err |-> "", form |-> "Authority"]
     ELSE IF meth # "CONNECT" /\ Has(p, ":protocol") THEN Refuse("PseudoHeaderUnknown")
     ELSE IF ~both \/ (meth = "CONNECT" /\ ~Has(p, ":authority")) THEN Refuse("PseudoHeaderMissing")
     ELSE IF meth = "CONNECT" /\ p[":protocol"] # <<"websocket">>
       THEN Refuse("PseudoProtocolUnsupported")
     ELSE resolve_scheme_and_path(meth, p[":scheme"], p[":path"])

\* authority.rs: both names must parse and agree.
reconcile_authority(fields, p) ==
  LET host == H1!All(fields, "host")
      names == {H1!authority(host[i].value) : i \in DOMAIN host}
               \cup (IF Has(p, ":authority") THEN {H1!authority(p[":authority"])} ELSE {})
  IN IF Len(host) > 1 THEN Refuse("HostDuplicate")
     ELSE IF names = {} THEN Refuse("PseudoHeaderMissing")
     ELSE IF "bad" \in names THEN Refuse("AuthorityInvalid")
     ELSE IF Cardinality(names) > 1 THEN Refuse("AuthorityMismatch")
     ELSE [err |-> "", authority |-> CHOOSE n \in names : TRUE]

built(meth, form, auth, fields, framing) ==
  IF Bad(form) THEN form ELSE IF Bad(auth) THEN auth ELSE IF Bad(framing) THEN framing
  ELSE IF H1!check_expect(fields) = "ExpectUnsupported" THEN Refuse("ExpectUnsupported")
  ELSE [err |-> "", method |-> meth, form |-> form.form, authority |-> auth.authority,
        framing |-> IF meth = "CONNECT" /\ framing = H1!Streamed THEN H1!Empty ELSE framing,
        headers |-> H1!strip_ingress(fields)]

\* A method that does not parse is refused before the shape is looked at.
finish_request(b) ==
  IF Bad(b) THEN b
  ELSE IF ~Has(b.pseudo, ":method") THEN Refuse("PseudoHeaderMissing")
  ELSE IF b.pseudo[":method"] = <<"@">> THEN Refuse("MethodInvalid")
  ELSE built(b.pseudo[":method"][1], shape(b.pseudo[":method"][1], b.pseudo),
             reconcile_authority(b.fields, b.pseudo), b.fields,
             H1!resolve_request_framing(b.pseudo[":method"][1], "H2", b.fields))

built_response(code, fields, framing) ==
  IF Bad(framing) THEN framing
  ELSE [err |-> "", status |-> code, framing |-> framing, headers |-> H1!strip_response(fields)]

parse_status(v) == Len(v) = 1 /\ v[1] \in DOMAIN H1!Status
finish_response(b) ==
  IF Bad(b) THEN b
  ELSE IF ~Has(b.pseudo, ":status") THEN Refuse("PseudoHeaderMissing")
  ELSE IF ~parse_status(b.pseudo[":status"]) THEN Refuse("PseudoHeaderUnknown")
  ELSE built_response(H1!Status[b.pseudo[":status"][1]], b.fields,
         H1!resolve_response_framing(H1!Status[b.pseudo[":status"][1]], Method, "H2", b.fields))

finish(b) == IF Kind = "request" THEN finish_request(with_cookies(b)) ELSE finish_response(b)

\* A trailer section is a block of its own with a budget of its own.
trailers(fields) ==
  FoldLeftDomain(LAMBDA b, i : IF Bad(b) THEN b ELSE push(b, fields[i], i), NewBlock("trailer"), fields)

------------------------------------------------------------------------------
(* mplex/body.rs.  A length nobody declared is -1.                          *)

Accounting(framing) ==
  [declared |-> IF framing.how \in {"Streamed", "UntilClose"} THEN -1 ELSE framing.len,
   received |-> 0, ended |-> FALSE]

Over(a) == a.declared # -1 /\ a.received > a.declared
check_final(a) == IF a.declared \in {-1, a.received} THEN "" ELSE "ContentLengthMismatch"
ended(a) == [a EXCEPT !.ended = TRUE]

finish_body(a) == <<ended(a), check_final(a)>>

counted(a, eos) ==
  IF Over(a) THEN <<a, "ContentLengthMismatch">> ELSE IF eos THEN <<ended(a), check_final(a)>>
  ELSE <<a, "">>

observe_data(a, n, eos) ==
  IF a.ended THEN <<a, "ContentLengthMismatch">> ELSE counted([a EXCEPT !.received = @ + n], eos)

------------------------------------------------------------------------------
(* purity.rs.                                                               *)

NewLedger == [sent |-> 0, received |-> 0, in_flight |-> FALSE, body_complete |-> FALSE,
              declared |-> -1, octets |-> 0, purity |-> "Clean"]

poison(l, why) == IF l.purity = "Clean" THEN [l EXCEPT !.purity = why] ELSE l
Clean(l) == l.purity = "Clean"

begin_request(l) ==
  IF ~Clean(l) THEN l
  ELSE IF l.in_flight THEN poison(l, "ProtocolAnomaly")
  ELSE [l EXCEPT !.sent = @ + 1, !.in_flight = TRUE, !.body_complete = FALSE, !.declared = -1,
                 !.octets = 0]

request_body_written(l) == [l EXCEPT !.body_complete = TRUE]

known_len(framing) == IF framing.how \in {"Empty", "Exact"} THEN framing.len ELSE -1

response_head(l, framing) ==
  IF ~Clean(l) THEN l
  ELSE IF ~l.body_complete THEN poison(l, "EarlyFinalResponse")
  ELSE [IF framing.how = "UntilClose" THEN poison(l, "CloseDelimitedResponse") ELSE l
         EXCEPT !.declared = known_len(framing)]

response_body_bytes(l, n) ==
  IF ~Clean(l) \/ n = 0 THEN l
  ELSE IF ~l.in_flight THEN poison(l, "BodyLengthMismatch")
  ELSE LET now == [l EXCEPT !.octets = @ + n]
       IN IF l.declared # -1 /\ now.octets > l.declared THEN poison(now, "BodyLengthMismatch") ELSE now

response_complete(l) ==
  IF ~Clean(l) THEN l
  ELSE IF l.declared \notin {-1, l.octets} THEN poison(l, "BodyLengthMismatch")
  ELSE IF l.received + 1 # l.sent THEN poison([l EXCEPT !.in_flight = FALSE], "ExchangeCountMismatch")
  ELSE [l EXCEPT !.in_flight = FALSE, !.received = @ + 1]

socket_had_trailing_bytes(l) == poison(l, "TrailingBytes")
may_pool(l) == Clean(l) /\ ~l.in_flight

------------------------------------------------------------------------------
(* The codec of a stream.  What is read of the upstream's bytes is tagged   *)
(* with the stream they were sent for.                                      *)

Idle == [phase |-> "none", pushed |-> <<>>, block |-> NewBlock(Kind), msg |-> Refuse("Partial"),
         acct |-> Accounting(H1!Streamed), total |-> 0, left |-> MaxPush,
         relayed |-> {}]
Closed == [phase |-> "closed", ledger |-> NewLedger, wire |-> <<>>, reading |-> "none",
           replies |-> 0, of |-> 0]

Init == stream = Idle /\ conn = Closed /\ opened = 0

pushed_all(fields) ==
  FoldLeftDomain(LAMBDA b, i : IF Bad(b) THEN b ELSE push(b, fields[i], i), NewBlock(Kind), fields)

reset(s) == [s EXCEPT !.phase = "reset"]

\* A stream that fails drops the exchange it began.
abandoned(c) == IF c.phase = "busy" THEN Closed ELSE c

Open(fields) ==
  /\ stream.phase \notin {"head", "body"} /\ conn.phase # "busy" /\ opened < MaxRequests
  /\ opened' = opened + 1
  /\ stream' = [Idle EXCEPT !.phase = "head", !.pushed = fields, !.block = pushed_all(fields)]
  /\ UNCHANGED conn

pushing(s, b) == IF Bad(b) THEN reset([s EXCEPT !.block = b]) ELSE [s EXCEPT !.block = b]

Push(f) ==
  /\ stream.phase = "head" /\ stream.left > 0
  /\ stream' = pushing([stream EXCEPT !.pushed = Append(@, f), !.left = @ - 1],
                       push(stream.block, f, Len(stream.pushed) + 1))
  /\ UNCHANGED <<conn, opened>>

\* A pooled connection with something to read is not used again.
checkout(c) ==
  LET l == IF c.phase = "idle" /\ c.wire # <<>> THEN socket_had_trailing_bytes(c.ledger) ELSE c.ledger
      fresh == IF c.phase = "idle" /\ may_pool(l) THEN c ELSE Closed
  IN [fresh EXCEPT !.phase = "busy", !.ledger = begin_request(fresh.ledger), !.reading = "head",
                   !.replies = 0, !.of = opened]

written(c) == [c EXCEPT !.ledger = request_body_written(@)]

\* answer is <<accounting, refusal>>; the end of a stream goes upstream only
\* when its accounting agrees.
accounted(s, answer, eos) ==
  [s EXCEPT !.acct = answer[1],
            !.phase = IF answer[2] = "ContentLengthMismatch" THEN "mismatch"
                      ELSE IF answer[2] # "" THEN "reset" ELSE IF eos THEN "ended" ELSE "body"]
forwarded(c, answer, eos) ==
  IF answer[2] # "" THEN abandoned(c) ELSE IF eos /\ c.phase = "busy" THEN written(c) ELSE c

begun(s, answer, eos) ==
  /\ stream' = accounted(s, answer, eos)
  /\ conn' = IF answer[2] # "" \/ Kind = "response" THEN conn ELSE forwarded(checkout(conn), answer, eos)

headed(msg, eos) ==
  IF Bad(msg) THEN stream' = reset([stream EXCEPT !.msg = msg]) /\ UNCHANGED conn
  ELSE begun([stream EXCEPT !.msg = msg],
             IF eos THEN finish_body(Accounting(msg.framing)) ELSE <<Accounting(msg.framing), "">>, eos)

EndHead(eos) ==
  /\ stream.phase = "head"
  /\ headed(finish(stream.block), eos)
  /\ UNCHANGED opened

taken(answer, eos, n) ==
  /\ stream' = [accounted(stream, answer, eos) EXCEPT !.total = @ + n]
  /\ conn' = forwarded(conn, answer, eos)
  /\ UNCHANGED opened

Tunnel == Kind = "request" /\ stream.msg.method = "CONNECT"

Data(n, eos) ==
  /\ stream.phase = "body" /\ ~Tunnel /\ stream.total + n <= MaxOctets
  /\ taken(observe_data(stream.acct, n, eos), eos, n)

TrailerBlock(fields) ==
  /\ stream.phase = "body" /\ ~Tunnel
  /\ taken(IF Bad(trailers(fields)) THEN <<stream.acct, trailers(fields).err>>
           ELSE finish_body(stream.acct), TRUE, 0)

\* A codec that asks about the end of a refused stream again.
EndAgain ==
  /\ stream.phase = "mismatch"
  /\ stream' = accounted(stream, finish_body(stream.acct), TRUE)
  /\ UNCHANGED <<conn, opened>>

------------------------------------------------------------------------------
(* The loop that drives the ledger, and the upstream, which may answer      *)
(* early, twice, not in full, or close.  What it sent is seen by whoever    *)
(* next looks at the socket.  A unit is [u, framing].                       *)

Reply(units) ==
  /\ conn.phase # "closed" /\ conn.replies < MaxReplies
  /\ \A i \in DOMAIN conn.wire : conn.wire[i].unit.u # "close"
  /\ conn' = [conn EXCEPT !.replies = @ + 1,
                          !.wire = @ \o [i \in DOMAIN units |-> [unit |-> units[i], of |-> conn.of]]]
  /\ UNCHANGED <<stream, opened>>

\* A connection that failed or closed is gone, whatever its ledger says.
Drop == conn' = Closed /\ stream' = IF stream.phase = "body" THEN reset(stream) ELSE stream

relaying(c, n) ==
  /\ conn' = c
  /\ stream' = [stream EXCEPT !.relayed = @ \cup {conn.wire[i].of : i \in 1 .. n}]

pooled(c, l) == IF may_pool(l) THEN [c EXCEPT !.phase = "idle", !.ledger = l] ELSE Closed

completed(c, l) == pooled(c, IF c.wire # <<>> THEN socket_had_trailing_bytes(l) ELSE l)

rest(c, l, n) == [c EXCEPT !.ledger = l, !.wire = SubSeq(@, n + 1, Len(@))]

\* n units read, the ledger now l, the response at its end or not.
progressed(l, n, done) ==
  relaying(IF done THEN completed(rest(conn, l, n), response_complete(l)) ELSE rest(conn, l, n), n)

Usable(l) == l.purity \in {"Clean", "CloseDelimitedResponse"}

got_head(framing, l) ==
  IF ~Usable(l) THEN Drop
  ELSE relaying(IF framing.how = "Empty" THEN completed(rest(conn, l, 1), response_complete(l))
                ELSE [rest(conn, l, 1) EXCEPT !.reading = framing.how], 1)

\* Bytes that are no head are refused as response_framing_refused refuses.
ReadHead ==
  /\ conn.phase = "busy" /\ conn.reading = "head" /\ conn.wire # <<>>
  /\ LET first == conn.wire[1].unit
     IN IF first.u = "head" /\ ~Bad(first.framing)
          THEN got_head(first.framing, response_head(conn.ledger, first.framing))
        ELSE Drop
  /\ UNCHANGED opened

Units(n) == {conn.wire[i].unit.u : i \in 1 .. n}

counted_body(l, n) == IF ~Clean(l) THEN Drop ELSE progressed(l, n, l.octets = l.declared)

chunks_end(l, n) == IF ~Clean(l) THEN Drop ELSE progressed(l, n, conn.wire[n].unit.u = "end")

\* By length any bytes are body; by chunks only those that decode, up to the
\* last; to the end of the connection all of them.
ReadBody(n) ==
  /\ conn.phase = "busy" /\ conn.reading \notin {"head", "none"} /\ n <= Len(conn.wire)
  /\ IF "close" \in Units(n) THEN Drop
     ELSE CASE conn.reading = "Exact" -> counted_body(response_body_bytes(conn.ledger, n), n)
            [] conn.reading = "UntilClose" -> progressed(conn.ledger, n, FALSE)
            [] conn.reading = "Streamed" ->
                 IF "head" \in Units(n) THEN Drop
                 ELSE "end" \notin Units(n - 1) /\ chunks_end(response_body_bytes(conn.ledger, n), n)
  /\ UNCHANGED opened

Next ==
  \/ \E fields \in Starts : Open(fields)
  \/ \E f \in Fields : Push(f)
  \/ \E eos \in BOOLEAN : EndHead(eos)
  \/ \E n \in Frames, eos \in BOOLEAN : Data(n, eos)
  \/ \E fields \in TrailerBlocks : TrailerBlock(fields)
  \/ EndAgain
  \/ \E units \in Replies : Reply(units)
  \/ ReadHead
  \/ \E n \in 1 .. Len(conn.wire) : ReadBody(n)

------------------------------------------------------------------------------
First(name) ==
  LET at == {i \in DOMAIN stream.pushed : stream.pushed[i].name = name}
  IN IF at = {} THEN <<>> ELSE stream.pushed[CHOOSE i \in at : \A j \in at : i <= j].value

\* The message as HTTP/1 spells it: an authority in the target, a length or
\* chunks, one cookie field.
Spelled == [h |-> <<"http://h/", "h:1">>, H |-> <<"http://h/", "h:1">>, g |-> <<"http://g/", "g:1">>]

TwinTarget(meth, name) ==
  IF name = <<>> \/ (meth = "OPTIONS" /\ First(":path") = <<"*">>) THEN First(":path")[1]
  ELSE IF name[1] \notin DOMAIN Spelled THEN "bad"
  ELSE Spelled[name[1]][IF meth = "CONNECT" THEN 2 ELSE 1]

Line(name, value) == <<name, ":", " ">> \o value \o H1!CRLF

TwinFields ==
  LET crumb(f) == Kind = "request" /\ f.name = "cookie"
      plain == SelectSeq(stream.pushed, LAMBDA f : f.name \notin Pseudo /\ ~crumb(f))
      crumbs == SelectSeq(stream.pushed, crumb)
      named == \E f \in ToSet(plain) : f.name = "host"
      bare == \A f \in ToSet(plain) : f.name # "content-length"
  IN (IF First(":authority") # <<>> /\ ~named THEN Line("host", First(":authority")) ELSE <<>>)
     \o FlattenSeq([i \in DOMAIN plain |-> Line(plain[i].name, plain[i].value)])
     \o (IF crumbs = <<>> THEN <<>>
         ELSE Line("cookie", FoldLeft(LAMBDA v, c : v \o <<";", " ">> \o c.value,
                                      crumbs[1].value, Tail(crumbs))))
     \o (IF bare /\ First(":method") # <<"CONNECT">>
         THEN Line("transfer-encoding", <<"chunked">>) ELSE <<>>)

TwinRequest(meth) ==
  <<meth, " ", TwinTarget(meth, First(":authority")), " ", "HTTP/1.1">> \o H1!CRLF

SameRequest(twin) ==
  /\ twin.err = "" /\ twin.method = stream.msg.method /\ twin.authority = stream.msg.authority
  /\ twin.framing = stream.msg.framing
  /\ H1!Relayed(twin.headers) = H1!Relayed(stream.msg.headers)

\* HTTP/1 refuses a bad length even where the status leaves no body.
SameResponse(twin) ==
  \/ twin.err = "ContentLengthInvalid" /\ stream.msg.framing = H1!Empty
  \/ /\ twin.err = "" /\ twin.status = stream.msg.status /\ twin.framing = stream.msg.framing
     /\ H1!Relayed(twin.headers) = H1!Relayed(stream.msg.headers)

\* MplexHeadBuilder, MplexResponseBuilder: a message that HTTP/2 or HTTP/3
\* accepts is accepted when spelled in HTTP/1, and is the same message: method
\* or status, authority, framing and relayed fields.  Extended CONNECT has no
\* such spelling.
HeadsAgree ==
  ~Bad(stream.msg) =>
    IF Kind = "response"
      THEN SameResponse(H1!canonicalize_response(
             H1!parse_head(<<"HTTP/1.1", " ">> \o First(":status") \o H1!CRLF \o TwinFields
                           \o H1!CRLF, Kind), Method))
    ELSE \/ stream.msg.method = "CONNECT" /\ First(":protocol") # <<>>
         \/ SameRequest(H1!canonicalize_request(
              H1!parse_head(TwinRequest(First(":method")[1]) \o TwinFields \o H1!CRLF, Kind)))

Declared == IF stream.msg.framing = H1!Empty THEN 0
            ELSE IF First("content-length") = <<>> THEN stream.total
            ELSE H1!parse_content_length(First("content-length"))

\* BodyAccounting: the end of a stream goes on only when as many octets came
\* as the message declared, however they were framed, with or without
\* trailers, and however often the codec asks; and no more octets go on than
\* that before it.
EndsReconciled ==
  ~Bad(stream.msg) /\ ~Tunnel =>
    /\ stream.phase = "body" => stream.total <= Declared
    /\ stream.phase = "ended" => stream.total = Declared

\* ExchangeLedger: a client is given no byte that was sent for another stream.
OwnResponse == stream.relayed \subseteq {opened}

\* may_pool: a connection goes back to the pool after a whole request and its
\* whole response, one for one.
PooledWhole ==
  conn.phase = "idle" =>
    /\ conn.ledger.sent = conn.ledger.received
    /\ conn.of = opened => stream.phase = "ended" /\ check_final(stream.acct) = ""
=============================================================================
