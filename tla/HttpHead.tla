------------------------------ MODULE HttpHead ------------------------------
(***************************************************************************)
(* One HTTP/1 message head through the gateway: H1Parser on a buffer that  *)
(* grows as bytes arrive, canonicalize_request and canonicalize_response   *)
(* (framing, Expect, removal of hop-by-hop and identity fields), and       *)
(* serialize_request_head and serialize_response_head for the next hop.    *)
(*                                                                         *)
(* A byte that the parser tells apart is a unit of its own ("CR", "LF",    *)
(* " ", ":", ","); a method, a target, a version, a field name or a word   *)
(* of a value is one unit.  Paths are the subject of PathNorm, the         *)
(* identity fields of Hops, bodies of ChunkedBody.                         *)
(***************************************************************************)
EXTENDS Integers, Sequences, SequencesExt, FiniteSets, TLC

CONSTANTS
  Kind,                       \* "request" or "response"
  FirstLines, FieldLines,     \* lines a peer may write, without their ends
  LineEnds,                   \* what it writes behind a line
  Drip,                       \* a line arrives unit by unit
  MaxFields,                  \* bound: field lines of a head
  MaxFirst, MaxLine, MaxCount, MaxList, Overhead,   \* Limits
  MapToHyphen, AcceptCodings, ForwardProxy, WillBuffer, KeepAlive,
  Methods,                    \* of the request a response answers
  MaxInterim, MaxInterimBytes,
  MaxCodings, MaxTokens,      \* codings and Connection tokens of a head
  DefaultHost                 \* default_authority for HTTP/1.0, None when not configured

VARIABLES
  method,    \* the method of the request a response answers
  lines,     \* lines written so far
  wire,      \* units under way
  buf,       \* units read and not consumed
  msg,       \* the message of the last complete head, or its refusal
  out,       \* the head written to the next hop
  interim    \* InterimBudget of the exchange

hvars == <<method, lines, wire, buf, msg, out, interim>>

CRLF == <<"CR", "LF">>
Ows == {" ", "HT"}
None == "none"
Digits == ("0" :> 0) @@ ("5" :> 5) @@ ("7" :> 7)
Status == ("100" :> 100) @@ ("103" :> 103) @@ ("200" :> 200) @@ ("204" :> 204) @@ ("304" :> 304)
          @@ ("500" :> 500)

Refuse(e) == [err |-> e]
Bad(r) == r.err # ""

------------------------------------------------------------------------------
(* H1Parser.                                                                *)

Find(s, pat) ==
  LET at == {i \in 1 .. Len(s) - Len(pat) + 1 : SubSeq(s, i, i + Len(pat) - 1) = pat}
  IN IF at = {} THEN 0 ELSE CHOOSE i \in at : \A j \in at : i <= j

trim_ows(v) ==
  LET solid == {i \in DOMAIN v : v[i] \notin Ows}
  IN IF solid = {} THEN <<>>
     ELSE SubSeq(v, CHOOSE i \in solid : \A j \in solid : i <= j,
                    CHOOSE i \in solid : \A j \in solid : j <= i)

\* The pieces of s between the occurrences of a unit.
Split(s, unit) ==
  LET cut == {0, Len(s) + 1} \cup {i \in DOMAIN s : s[i] = unit}
      nth(n) == CHOOSE i \in cut : Cardinality({j \in cut : j < i}) = n
  IN [n \in 1 .. Cardinality(cut) - 1 |-> SubSeq(s, nth(n - 1) + 1, nth(n) - 1)]

\* A CR that ends the buffer may still be followed by its LF.
bare_check_region(s, t) ==
  IF t # 0 THEN SubSeq(s, 1, t + 3)
  ELSE IF s # <<>> /\ Last(s) = "CR" THEN Front(s) ELSE s

check_bare_cr_lf(s) ==
  LET bad == {i \in DOMAIN s : \/ s[i] = "CR" /\ (i = Len(s) \/ s[i + 1] # "LF")
                               \/ s[i] = "LF" /\ (i = 1 \/ s[i - 1] # "CR")}
  IN IF bad = {} THEN ""
     ELSE IF s[CHOOSE i \in bad : \A j \in bad : i <= j] = "CR" THEN "BareCr" ELSE "BareLf"

\* Names are compared in lower case, with "_" for "-" when the policy maps it.
Canonical == ("Host" :> "host") @@ ("x_a" :> "x-a")
normalize_name(n) == IF n \in DOMAIN Canonical THEN Canonical[n] ELSE n
mapped(n) == n = "x_a"

named_value(name, value) ==
  IF Last(name) \in Ows THEN Refuse("WhitespaceBeforeColon")
  ELSE IF mapped(name[1]) /\ ~MapToHyphen THEN Refuse("FieldNameUnderscore")
  ELSE IF Len(name) > 1 THEN Refuse("FieldNameInvalidByte")
  ELSE IF "!" \in ToSet(value) THEN Refuse("FieldValueInvalidByte")
  ELSE IF Len(name) + Len(value) > MaxLine THEN Refuse("FieldLineTooLong")
  ELSE [err |-> "", name |-> name[1], value |-> value]

field_line(line, colon) ==
  IF line # <<>> /\ line[1] \in Ows THEN Refuse("ObsFold")
  ELSE IF colon = 0 THEN Refuse("RequestLineMalformed")
  ELSE IF colon = 1 THEN Refuse("FieldNameEmpty")
  ELSE named_value(SubSeq(line, 1, colon - 1), trim_ows(SubSeq(line, colon + 1, Len(line))))

\* HeaderListBudget: count first, then bytes.
charged(fields) ==
  IF Len(fields) > MaxCount THEN "FieldCountExceeded"
  ELSE IF FoldLeft(LAMBDA n, f : n + 1 + Len(f.value) + Overhead, 0, fields) > MaxList
       THEN "HeaderListTooLarge" ELSE ""

add_field(r, f) ==
  IF Bad(f) THEN f ELSE [err |-> charged(Append(r.fields, f)), fields |-> Append(r.fields, f)]

add_line(r, line) ==
  IF Bad(r) THEN r ELSE add_field(r, field_line(line, Find(line, <<":">>)))

\* s holds the field lines, each with its end.
parse_field_lines(s) ==
  LET text == SelectSeq(s, LAMBDA u : u # "LF")
      each == IF text = <<>> THEN <<>> ELSE Front(Split(text, "CR"))
  IN FoldLeft(add_line, [err |-> "", fields |-> <<>>], each)

request_line(line) ==
  LET words == Split(line, " ")
  IN IF "HT" \in ToSet(line) \/ Len(words) # 3 \/ words[1] = <<>> \/ words[3] = <<>>
       THEN Refuse("RequestLineMalformed")
     ELSE IF words[1] = <<"@">> THEN Refuse("MethodInvalid")
     ELSE IF words[3] \notin {<<"HTTP/1.1">>, <<"HTTP/1.0">>} THEN Refuse("VersionUnsupported")
     ELSE IF words[2] = <<"#">> THEN Refuse("TargetFragment")
     ELSE IF words[2] = <<>> THEN Refuse("RequestLineMalformed")
     ELSE [err |-> "", method |-> words[1][1], target |-> words[2][1], version |-> words[3][1]]

status_line(line) ==
  LET words == Split(line, " ")
  IN IF "HT" \in ToSet(line) \/ Len(words) < 2 THEN Refuse("RequestLineMalformed")
     ELSE IF words[1] \notin {<<"HTTP/1.1">>, <<"HTTP/1.0">>} THEN Refuse("VersionUnsupported")
     ELSE IF words[2] = <<>> \/ words[2][1] \notin DOMAIN Status \/ Len(words[2]) > 1
       THEN Refuse("RequestLineMalformed")
     ELSE IF "!" \in ToSet(line) THEN Refuse("FieldValueInvalidByte")
     ELSE [err |-> "", status |-> Status[words[2][1]], version |-> words[1][1]]

with_fields(first, fields, end) ==
  IF Bad(first) THEN first ELSE IF Bad(fields) THEN fields
  ELSE [first |-> first, fields |-> fields.fields, consumed |-> end, err |-> ""]

head_of(s, t, crlf, kind) ==
  IF crlf + 1 > MaxFirst THEN Refuse("RequestLineTooLong")
  ELSE with_fields(IF kind = "request" THEN request_line(SubSeq(s, 1, crlf - 1))
                   ELSE status_line(SubSeq(s, 1, crlf - 1)),
                   parse_field_lines(SubSeq(s, crlf + 2, t + 1)), t + 3)

located(s, t, bare, kind) ==
  IF bare # "" THEN Refuse(bare)
  ELSE IF t = 0 THEN Refuse(IF Len(s) > MaxFirst + MaxList + 2 THEN "HeaderListTooLarge" ELSE "Partial")
  ELSE head_of(s, t, Find(s, CRLF), kind)

terminated(s, t, kind) == located(s, t, check_bare_cr_lf(bare_check_region(s, t)), kind)

parse_head(s, kind) == terminated(s, Find(s, CRLF \o CRLF), kind)

------------------------------------------------------------------------------
(* Framing.  A section is a sequence of [name, value, mapped].              *)

All(fields, name) == SelectSeq(fields, LAMBDA f : f.name = name)
Count(fields, name) == Len(All(fields, name))
Without(fields, names) == SelectSeq(fields, LAMBDA f : f.name \notin names)

push_normalized(r, f) ==
  IF Bad(r) THEN r
  ELSE LET n == normalize_name(f.name) IN
       IF \E i \in DOMAIN r.fields : r.fields[i].name = n /\ r.fields[i].mapped # mapped(f.name)
         THEN Refuse("FieldNameUnderscore")
       ELSE [r EXCEPT !.fields = Append(@, [name |-> n, value |-> f.value, mapped |-> mapped(f.name)])]

section(fields) == FoldLeft(push_normalized, [err |-> "", fields |-> <<>>], fields)

\* -1 for what parse_content_length refuses.
parse_content_length(v) == IF Len(v) = 1 /\ v[1] \in DOMAIN Digits THEN Digits[v[1]] ELSE -1

\* The list items of a value, and of all values of a field in order.
Items(value) == LET part == Split(value, ",") IN [j \in DOMAIN part |-> trim_ows(part[j])]
ListOf(values) == FlattenSeq([i \in DOMAIN values |-> Items(values[i].value)])

te_codings(tokens) ==
  LET bad == {i \in DOMAIN tokens : tokens[i] = <<>> \/ i > MaxCodings}
  IN IF bad # {}
       THEN IF tokens[CHOOSE i \in bad : \A j \in bad : i <= j] = <<>>
              THEN "TransferEncodingEmptyToken" ELSE "TransferEncodingUnsupportedCoding"
     ELSE IF Cardinality({i \in DOMAIN tokens : tokens[i] = <<"chunked">>}) > 1
       THEN "TransferEncodingChunkedRepeated"
     ELSE IF Last(tokens) # <<"chunked">> THEN "TransferEncodingFinalNotChunked"
     ELSE IF Len(tokens) > 1 /\ ~AcceptCodings THEN "TransferEncodingUnsupportedCoding" ELSE ""

tokenize_transfer_encoding(fields) == te_codings(ListOf(All(fields, "transfer-encoding")))

Framing(how, len) == [err |-> "", how |-> how, len |-> len]
Streamed == Framing("Streamed", 0)
Empty == Framing("Empty", 0)

exact(len) == IF len = -1 THEN Refuse("ContentLengthInvalid")
              ELSE IF len = 0 THEN Empty ELSE Framing("Exact", len)

content_length(fields) == parse_content_length(All(fields, "content-length")[1].value)

resolve_request_framing(meth, version, fields) ==
  LET cl == Count(fields, "content-length")
      te == Count(fields, "transfer-encoding") > 0
      coding == tokenize_transfer_encoding(fields)
  IN IF cl > 1 THEN Refuse("ContentLengthDuplicate")
     ELSE IF te /\ cl = 1 THEN Refuse("TransferEncodingWithContentLength")
     ELSE IF te /\ version = "H2" THEN Refuse("ConnectionSpecificField")
     ELSE IF te /\ version = "HTTP/1.0" THEN Refuse("TransferEncodingOnHttp10")
     ELSE IF te /\ coding # "" THEN Refuse(coding)
     ELSE IF te /\ meth = "CONNECT" THEN Refuse("BodyNotAllowedForMethod")
     ELSE IF te THEN Streamed
     ELSE IF cl = 0 THEN IF version = "H2" THEN Streamed ELSE Empty
     ELSE IF meth = "CONNECT" /\ content_length(fields) > 0 THEN Refuse("BodyNotAllowedForMethod")
     ELSE exact(content_length(fields))

Interim(code) == code \in 100 .. 199
bodyless(code, meth) ==
  Interim(code) \/ code \in {204, 304} \/ (code \in 200 .. 299 /\ meth = "CONNECT")

resolve_response_framing(code, meth, version, fields) ==
  LET cl == Count(fields, "content-length")
      te == Count(fields, "transfer-encoding") > 0
      coding == tokenize_transfer_encoding(fields)
  IN IF cl > 1 THEN Refuse("ContentLengthDuplicate")
     ELSE IF te /\ cl = 1 THEN Refuse("TransferEncodingWithContentLength")
     ELSE IF bodyless(code, meth) \/ meth = "HEAD" THEN Empty
     ELSE IF te /\ version = "H2" THEN Refuse("ConnectionSpecificField")
     ELSE IF te /\ version = "HTTP/1.0" THEN Refuse("TransferEncodingOnHttp10")
     ELSE IF te /\ coding # "" THEN Refuse(coding)
     ELSE IF te THEN Streamed
     ELSE IF cl = 1 THEN exact(content_length(fields))
     ELSE IF version = "H2" THEN Streamed ELSE Framing("UntilClose", 0)

------------------------------------------------------------------------------
(* strip.rs.                                                                *)

STATIC_STRIP == {"connection", "transfer-encoding", "content-length", "upgrade", "trailer"}
IDENTITY_STRIP == {"forwarded", "x-forwarded-for"}
RESERVED == {"x-forwarded-for", "x-irontraffic-"}

collect_connection_tokens(fields) ==
  FlattenSeq(SelectSeq(ListOf(All(fields, "connection")), LAMBDA t : t # <<>>))

TooManyTokens(fields) == Len(collect_connection_tokens(fields)) > MaxTokens

strip_static_and_te(fields) ==
  LET te == All(fields, "te")
      kept == Len(te) = 1 /\ trim_ows(te[1].value) = <<"trailers">>
  IN Without(fields, STATIC_STRIP \cup IF kept THEN {} ELSE {"te"})

strip_ingress(fields) ==
  Without(strip_static_and_te(fields),
          IDENTITY_STRIP \cup RESERVED \cup ToSet(collect_connection_tokens(fields)))

strip_response(fields) ==
  Without(strip_static_and_te(fields), {"x-irontraffic-"} \cup ToSet(collect_connection_tokens(fields)))

check_expect(fields) ==
  LET e == All(fields, "expect")
  IN IF e = <<>> THEN "None"
     ELSE IF Len(e) > 1 \/ e[1].value # <<"100-continue">> THEN "ExpectUnsupported"
     ELSE IF WillBuffer THEN "AnswerLocally" ELSE "ForwardToUpstream"

------------------------------------------------------------------------------
(* canonicalize.rs.  Hosts "h" and "H" are one authority.                   *)

authority(v) == IF v = <<"h">> \/ v = <<"H">> THEN "h" ELSE IF v = <<"g">> THEN "g" ELSE "bad"
TargetHost == ("http://h/" :> <<"H">>) @@ ("h:1" :> <<"h">>) @@ ("http://g/" :> <<"g">>)
              @@ ("g:1" :> <<"g">>)

classify_target(target, meth) ==
  CASE meth = "CONNECT" -> "Authority"
    [] target = "*" -> IF meth = "OPTIONS" THEN "Asterisk" ELSE "Invalid"
    [] target = "/" -> "Origin"
    [] target \in {"http://h/", "http://g/"} -> "Absolute"
    [] OTHER -> "Invalid"

host_field(fields, version, default) ==
  LET host == All(fields, "host")
  IN IF host # <<>> THEN authority(host[1].value)
     ELSE IF version = "HTTP/1.0" THEN default ELSE None

resolve_target_authority(target, named) ==
  IF target \notin DOMAIN TargetHost THEN "bad"
  ELSE IF named \in {None, authority(TargetHost[target])} THEN authority(TargetHost[target])
  ELSE "bad"

\* The authority of a request, None when it names none, "bad" when it names
\* one that does not parse or two that differ.
request_authority(form, first, fields) ==
  IF form \in {"Origin", "Asterisk"} THEN host_field(fields, first.version, DefaultHost)
  ELSE resolve_target_authority(first.target, host_field(fields, first.version, None))

built(first, form, auth, fields, framing, expect) ==
  IF Bad(framing) THEN framing
  ELSE IF expect = "ExpectUnsupported" THEN Refuse(expect)
  ELSE IF TooManyTokens(fields) THEN Refuse("FieldCountExceeded")
  ELSE [err |-> "", method |-> first.method, form |-> form, target |-> first.target,
        authority |-> auth, framing |-> framing, expect |-> expect, version |-> first.version,
        seen |-> fields,
        headers |-> strip_ingress(Without(fields, IF expect = "AnswerLocally" THEN {"expect"} ELSE {}))]

identified(first, form, auth, fields) ==
  IF Count(fields, "host") > 1 THEN Refuse("HostDuplicate")
  ELSE IF form = "Invalid" \/ (form = "Absolute" /\ ~ForwardProxy) THEN Refuse("TargetFormInvalid")
  ELSE IF auth = None THEN Refuse("HostMissing")
  ELSE IF auth = "bad" THEN Refuse("AuthorityMismatch")
  ELSE built(first, form, auth, fields,
             resolve_request_framing(first.method, first.version, fields), check_expect(fields))

canonical_request(first, form, fields) ==
  IF Bad(fields) THEN fields
  ELSE identified(first, form, request_authority(form, first, fields.fields), fields.fields)

canonicalize_request(head) ==
  IF Bad(head) THEN head
  ELSE canonical_request(head.first, classify_target(head.first.target, head.first.method),
                         section(head.fields))

\* declared is -1 when there is no Content-Length; a bad one is refused even
\* where the status leaves no body.
built_response(first, fields, framing, cl) ==
  IF Bad(framing) THEN framing
  ELSE IF cl = 1 /\ content_length(fields) = -1 THEN Refuse("ContentLengthInvalid")
  ELSE IF TooManyTokens(fields) THEN Refuse("FieldCountExceeded")
  ELSE [err |-> "", status |-> first.status, version |-> first.version, framing |-> framing,
        seen |-> fields, declared |-> IF cl = 1 THEN content_length(fields) ELSE -1,
        headers |-> strip_response(fields)]

canonical_response(first, meth, fields) ==
  IF Bad(fields) THEN fields
  ELSE built_response(first, fields.fields,
         resolve_response_framing(first.status, meth, first.version, fields.fields),
         Count(fields.fields, "content-length"))

canonicalize_response(head, meth) ==
  IF Bad(head) THEN head ELSE canonical_response(head.first, meth, section(head.fields))

------------------------------------------------------------------------------
(* serialize.rs.                                                            *)

Line(units) == units \o CRLF
Numeral(n) == CHOOSE d \in DOMAIN Digits : Digits[d] = n
Code(n) == CHOOSE c \in DOMAIN Status : Status[c] = n

write_framing(body) ==
  CASE body.how = "None" -> <<>>
    [] body.how = "Exact" -> Line(<<"content-length", ":", " ", Numeral(body.len)>>)
    [] body.how = "Streaming" -> Line(<<"transfer-encoding", ":", " ", "chunked">>)

write_connection(keep) == IF keep THEN <<>> ELSE Line(<<"connection", ":", " ", "close">>)

write_end_to_end_fields(fields, reserved) ==
  LET written == Without(fields, {"te", "host"} \cup reserved)
  IN FlattenSeq([i \in DOMAIN written |->
                   Line(<<written[i].name, ":", " ">> \o written[i].value)])

write_target_form(req) ==
  CASE req.form = "Origin" -> <<"/">> [] req.form = "Asterisk" -> <<"*">>
    [] req.form = "Authority" -> <<"h:1">>

\* A request in absolute form is written in origin form.
write_request_head(req, body) ==
  Line(<<req.method, " ">> \o write_target_form(req) \o <<" ", "HTTP/1.1">>)
  \o Line(<<"Host", ":", " ", req.authority>>) \o write_framing(body) \o write_connection(KeepAlive)
  \o Line(<<"forwarded", ":", " ", "us">>) \o Line(<<"x-forwarded-for", ":", " ", "us">>)
  \o write_end_to_end_fields(req.headers, RESERVED) \o CRLF

write_response_framing(code, meth, body) ==
  IF bodyless(code, meth) THEN <<>>
  ELSE IF meth = "HEAD" THEN IF body.how = "Exact" THEN write_framing(body) ELSE <<>>
  ELSE write_framing(body)

write_response_head(res, meth, body) ==
  Line(<<"HTTP/1.1", " ", Code(res.status), " ">>) \o write_response_framing(res.status, meth, body)
  \o (IF ~KeepAlive THEN Line(<<"connection", ":", " ", "close">>)
      ELSE IF res.version = "HTTP/1.0" THEN Line(<<"connection", ":", " ", "keep-alive">>) ELSE <<>>)
  \o write_end_to_end_fields(res.headers, {"x-irontraffic-"}) \o CRLF

\* What the caller passes for a body: the resolved framing, and the declared
\* length where the response keeps one.
BodySource(framing, declared) ==
  IF declared # -1 THEN [how |-> "Exact", len |-> declared]
  ELSE IF framing.how = "Empty" THEN [how |-> "None", len |-> 0]
  ELSE IF framing.how = "Exact" THEN [how |-> "Exact", len |-> framing.len]
  ELSE [how |-> "Streaming", len |-> 0]

response_body(res) ==
  BodySource(res.framing, IF bodyless(res.status, method) THEN -1 ELSE res.declared)

------------------------------------------------------------------------------
NoMsg == Refuse("Partial")

Init == /\ method \in (IF Kind = "request" THEN {"GET"} ELSE Methods)
        /\ lines = 0 /\ wire = <<>> /\ buf = <<>> /\ msg = NoMsg /\ out = <<>>
        /\ interim = [count |-> 0, bytes |-> 0]

\* The peer writes a line: the first one, a field, or the empty one.
Write(line, end) ==
  /\ wire = <<>> /\ msg = NoMsg
  /\ IF lines = 0 THEN line \in FirstLines
     ELSE (line \in FieldLines /\ lines <= MaxFields) \/ (line = <<>> /\ end = CRLF)
  /\ lines' = lines + 1
  /\ wire' = line \o end
  /\ UNCHANGED <<method, buf, msg, out, interim>>

\* InterimBudget::charge of a head that announces more to come.
charge(b, bytes) == [count |-> b.count + 1, bytes |-> b.bytes + bytes]
spent(b) == b.count > MaxInterim \/ b.bytes > MaxInterimBytes

request_done(req) ==
  /\ msg' = req
  /\ out' = IF Bad(req) THEN <<>>
            ELSE write_request_head([req EXCEPT !.form = IF @ = "Absolute" THEN "Origin" ELSE @],
                                    BodySource(req.framing, -1))
  /\ UNCHANGED <<lines, interim>>

\* An interim response is relayed and the next head awaited.
response_done(res, used) ==
  LET now == charge(interim, used)
      more == ~Bad(res) /\ Interim(res.status)
  IN /\ interim' = IF more THEN now ELSE interim
     /\ msg' = IF ~more THEN res ELSE IF spent(now) THEN Refuse("InterimResponseCountExceeded") ELSE NoMsg
     /\ out' = IF Bad(res) THEN <<>> ELSE write_response_head(res, method, response_body(res))
     /\ lines' = IF msg' = NoMsg THEN 0 ELSE lines

parsed(head, n, rest) ==
  /\ wire' = rest
  /\ buf' = IF head.err = "" THEN <<>> ELSE n
  /\ IF head.err = "Partial" THEN UNCHANGED <<lines, msg, out, interim>>
     ELSE IF Kind = "request" THEN request_done(canonicalize_request(head))
     ELSE response_done(canonicalize_response(head, method), Len(n))
  /\ UNCHANGED method

\* n units arrive and the parser is called on the buffer from its start.
Arrive(n) ==
  /\ msg = NoMsg /\ wire # <<>>
  /\ parsed(parse_head(buf \o SubSeq(wire, 1, n), Kind), buf \o SubSeq(wire, 1, n),
            SubSeq(wire, n + 1, Len(wire)))

Next ==
  \/ \E line \in FirstLines \cup FieldLines \cup {<<>>}, end \in LineEnds : Write(line, end)
  \/ Arrive(IF Drip THEN 1 ELSE Len(wire))

------------------------------------------------------------------------------
Pairs(fields) == [i \in DOMAIN fields |-> <<fields[i].name, fields[i].value>>]
Relayed(headers) == Pairs(Without(headers, {"te", "host"}))

\* The next hop has the same limits, and the fields this one adds count too.
Limit == {"HeaderListTooLarge", "FieldCountExceeded", "RequestLineTooLong"}

SameRequest(next) ==
  \/ next.err \in Limit
  \/ next.err = "" /\ next.method = msg.method /\ next.authority = msg.authority
     /\ next.framing = msg.framing /\ Relayed(next.headers) = Relayed(msg.headers)

SameResponse(next) ==
  \/ next.err \in Limit
  \/ /\ next.err = ""
     /\ ~Bad(msg) => /\ next.framing = IF msg.framing.how = "UntilClose" THEN Streamed ELSE msg.framing
                     /\ Relayed(next.headers) = Relayed(msg.headers)

WholeHead(head) == head.err = "" => head.consumed = Len(out)

\* parse_request_head, canonicalize_request, serialize_request_head: the head
\* written upstream ends exactly where it stops, and the same code at the next
\* hop reads the method, authority, body framing and end-to-end fields this
\* hop decided on.
RequestAgrees ==
  Kind = "request" /\ ~Bad(msg) =>
    WholeHead(parse_head(out, Kind)) /\ SameRequest(canonicalize_request(parse_head(out, Kind)))

\* canonicalize_response, serialize_response_head: a client that knows its
\* method reads as many body octets as the gateway is going to relay, and
\* never a body that ends with a connection that stays.
ResponseAgrees ==
  Kind = "response" /\ out # <<>> =>
    WholeHead(parse_head(out, Kind)) /\ SameResponse(canonicalize_response(parse_head(out, Kind), method))

LastLength(fields) == parse_content_length(Last(All(fields, "content-length")).value)
ByLength(fields) == IF Count(fields, "content-length") > 0 THEN exact(content_length(fields))
                    ELSE IF Count(fields, "transfer-encoding") > 0 THEN Streamed ELSE Empty
ByCoding(fields) == IF Count(fields, "transfer-encoding") > 0 THEN Streamed
                    ELSE IF Count(fields, "content-length") > 0 THEN exact(LastLength(fields)) ELSE Empty

\* resolve_request_framing: an accepted request has one reading; a hop that
\* goes by its length and a hop that goes by its coding find the same body.
OneReading ==
  Kind = "request" /\ ~Bad(msg) =>
    ByLength(msg.seen) = msg.framing /\ ByCoding(msg.seen) = msg.framing

\* strip_ingress, strip_response and write_end_to_end_fields: no field that
\* the sender's Connection names, and no identity claim of a request, is read
\* by the next hop; what it reads of those this hop wrote itself.
NothingHopByHop ==
  ~Bad(msg) => \A f \in ToSet(msg.headers) :
                 /\ f.name \notin STATIC_STRIP \cup ToSet(collect_connection_tokens(msg.seen))
                 /\ Kind = "request" => f.name \notin IDENTITY_STRIP \cup RESERVED

\* locate_terminator: a head is refused or complete for good; reading on
\* after a verdict, in whatever pieces, would not have changed it.
VerdictFinal ==
  msg # NoMsg /\ Bad(msg) /\ buf # <<>> /\ msg.err # "HeaderListTooLarge" =>
     parse_head(buf \o wire, Kind).err = msg.err

\* InterimBudget: the interim responses of one exchange are bounded.
InterimBounded == interim.count <= MaxInterim + 1 /\ (spent(interim) => Bad(msg) /\ msg # NoMsg)
=============================================================================
