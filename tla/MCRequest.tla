-------------------- MODULE MCRequest ----------------------------------------
(* What a request and a probe go through: the heads, the bodies and the    *)
(* targets that are read and written again, the multiplexed stream and the *)
(* pooled connection it is answered over, the identity carried along a row *)
(* of proxies and in a PROXY header, the deadline and the retries of one   *)
(* request, the parsers of HTTP and TCP probe responses, and the gRPC      *)
(* health stream, wanted and not wanted.  In a behaviour one part moves    *)
(* and the others stay as they started.                                    *)
EXTENDS Integers, Sequences

VARIABLES
  part,
  now, deadline, source, trusted, idempotent, treat_as_idempotent, retry_on,
  phase, attempts, committed, backoff, wake, processed, applied, budget, age,
  http_phase, status, crlf, head_scanned, body, matched_at_len,
  verdict_pending, sent, closed, checks,
  grpc_now, mode, last_message_at, next_ping_at, unary_checks_since_fallback,
  last_serving, action, asked, stream, opened, late, evidence, quiet, grpc_age,
  dec, err, buf, fresh, chunk_body, wire, sender, expect,
  method, lines, head_wire, head_buf, msg, out, interim,
  mplex_stream, conn, mplex_opened,
  raw, req, path_applied, routed,
  row, at, fields, peer, declared, ids, refused,
  encoded_out, enc, ends, kept, skipped, encoded_sent, got, verdict

Safe == {"connect-failure", "refused-stream", "reset-before-request",
         "http3-post-connect-failure"}
Eager == Safe \cup {"5xx", "gateway-error", "reset", "per-try-timeout",
                    "grpc-unavailable", "local-overload"}
Field(f, w, v, d) == [field |-> f, wire |-> w, value |-> v, digits |-> d]
Reply(fs, n) == [flag |-> 0, fields |-> fs, slack |-> n]
Messages ==
  {Reply(<<Field(1, 0, 1, 1)>>, 0),
   Reply(<<Field(1, 0, 1, 3), Field(2, 2, 3, 1), Field(1, 0, 2, 1)>>, 2),
   Reply(<<Field(3, 1, 0, 1), Field(1, 0, 17, 2), Field(4, 5, 0, 1)>>, 0),
   Reply(<<Field(1, 3, 0, 1)>>, 0), Reply(<<Field(1, 0, 1, 4)>>, 0), Reply(<<>>, 0),
   Reply(<<Field(1, 0, 1, 1)>>, -1), Reply(<<Field(2, 2, 14, 1), Field(2, 2, 3, 1)>>, 0),
   [flag |-> 1, fields |-> <<Field(1, 0, 1, 1)>>, slack |-> 0]}

SizeLine(b, n) == [bytes |-> b, size |-> n]
SizeLines ==
  {SizeLine(<<"0">>, 0), SizeLine(<<"1">>, 1), SizeLine(<<"0", "1">>, 1),
   SizeLine(<<"1", "0">>, 2), SizeLine(<<"1", ";", "DQ", "BS", "DQ", "DQ">>, 1),
   SizeLine(<<"0", ";", "x", ";", "x">>, 0), SizeLine(<<>>, -1), SizeLine(<<"x">>, -1),
   SizeLine(<<"1", ";">>, -1), SizeLine(<<"0", "0", "1">>, -1),
   SizeLine(<<"1", ";", "DQ">>, -1),
   SizeLine(<<"1", ";", "x", "x", "x", "x", "x">>, -1)}
Trailer(b, n, v, m) ==
  [bytes |-> b, field |-> <<[name |-> n, value |-> v, mapped |-> m]>>]
TrailerLines ==
  {Trailer(<<"x", ":">>, <<"x">>, <<>>, FALSE),
   Trailer(<<"_", ":", "sp", "x", "sp">>, <<"-">>, <<"x">>, TRUE),
   Trailer(<<"-", ":", "x">>, <<"-">>, <<"x">>, FALSE),
   Trailer(<<"x", ":", "x", "x">>, <<"x">>, <<"x", "x">>, FALSE),
   Trailer(<<"x", ":", "x", "x", "x">>, <<"x">>, <<"x", "x", "x">>, FALSE)}
  \cup {[bytes |-> b, field |-> <<>>] :
         b \in {<<"D", ":", "x">>, <<"sp", "x">>, <<"x", "sp", ":">>, <<"x">>,
                <<":", "x">>, <<"x", ":", "LF">>, <<"x", ":", "!">>}}

Line(n, v) == <<n, ":", " ">> \o v
Framing ==
  {Line("content-length", <<"5">>), Line("content-length", <<"0">>),
   Line("transfer-encoding", <<"chunked">>),
   Line("transfer-encoding", <<"gzip", ",", "chunked">>),
   Line("connection", <<"x-a", ",", "te">>), Line("x-a", <<"v">>)}
Asked ==
  Framing \cup
  {Line("Host", <<"H">>), Line("connection", <<"content-length", ",", "host">>),
   Line("x_a", <<"v">>), Line("expect", <<"100-continue">>),
   Line("x-forwarded-for", <<"v">>)}
Odd ==
  Asked \cup
  {Line("content-length", <<"x">>), Line("host", <<"g">>), Line("x-a", <<"!">>),
   Line("te", <<"trailers">>), <<" ", "x-a", ":">>, <<"x-a", " ", ":">>, <<"x-a">>,
   <<":", "v">>}
RequestLines ==
  {<<"GET", " ", "/", " ", "HTTP/1.1">>, <<"CONNECT", " ", "h:1", " ", "HTTP/1.1">>,
   <<"GET", " ", "http://h/", " ", "HTTP/1.0">>, <<"GET", " ", " ", "HTTP/1.1">>,
   <<"@", " ", "/", " ", "HTTP/1.1">>, <<"OPTIONS", " ", "*", " ", "HTTP/1.0">>}
StatusLineSet ==
  {<<"HTTP/1.1", " ", "200", " ", "ok">>, <<"HTTP/1.0", " ", "200">>,
   <<"HTTP/1.1", " ", "204">>, <<"HTTP/1.1", " ", "103">>, <<"HTTP/1.1", " ", "x">>}

Rewrite(p, q) == [new_path |-> p, new_query |-> q]
Same == <<"none">>
Rewrites ==
  {Rewrite(<<"/", "a">>, Same), Rewrite(<<"/", "a", "/", "%2e">>, Same),
   Rewrite(<<"/", "a", "/", ".", ".", "/", "a">>, <<"a">>),
   Rewrite(<<"/", "a", "?">>, Same), Rewrite(<<"/", "a", "?", "a">>, <<>>),
   Rewrite(<<"/", "a">>, <<>>)}

Hop(a, p, us, n, f, x) ==
  [addr |-> a, policy |-> p, cidrs |-> us, hops |-> n, forwarded |-> f,
   x_forwarded |-> x]
Us == {"p", "q", "v6"}
Settings(a) ==
  {Hop(a, p[1], p[2], p[3], f, x) :
     p \in {<<"None", {}, 0>>, <<"TrustedCidrs", Us, 0>>, <<"HopCount", {}, 1>>},
     f \in BOOLEAN, x \in BOOLEAN}
Rows ==
  {<<h, i, Hop("q", "TrustedCidrs", Us, 0, TRUE, TRUE)>> :
     h \in Settings("p"), i \in Settings("v6")}
Elements ==
  {<<"for", "=", "x">>, <<"for", "=", "p">>, <<"for">>, <<"for", "=", "_h">>,
   <<"for", "=", "DQ", "x", ":", "1", "DQ", ",", "for", "=", "p">>,
   <<"for", "=", "DQ", "x", ",", "p", "DQ", ";", "proto", "=", "http">>,
   <<"for", "=", "x", ";", "for", "=", "p">>, <<"proto", "=", "DQ", "BS", "http", "DQ">>,
   <<"for", "=", "DQ", "[", "w6", "]", ":", "0", "DQ", ",", " ">>}
Addresses ==
  {<<"x">>, <<"x", ",", " ", "p">>, <<"[", "w6", "]">>, <<"unknown">>,
   <<"x", ":", "9">>}
Claims ==
  {<<>>} \cup {<< <<"forwarded", v>> >> : v \in Elements}
  \cup {<< <<"x-forwarded-for", v>>, <<"x-forwarded-proto", <<"http">>>> >> :
         v \in Addresses}
  \cup {<< <<"forwarded", v>>, <<"x-forwarded-for", w>> >> :
         v \in {<<"for", "=", "x">>, <<"for", "=", "p">>},
         w \in {<<"x">>, <<"x", ",", " ", "p", ",", "p">>}}
  \cup {<< <<"x-forwarded-for", [i \in 1 .. 37 |-> "x"]>> >>}

Slot(n, v) == [name |-> n, value |-> v]
Get == <<Slot(":method", <<"GET">>), Slot(":scheme", <<"http">>), Slot(":path", <<"/">>)>>
Blocks ==
  {Get, <<Slot(":method", <<"OPTIONS">>), Slot(":scheme", <<"https">>), Slot(":path", <<"*">>)>>,
   <<Slot(":method", <<"CONNECT">>)>>,
   <<Slot(":method", <<"CONNECT">>), Slot(":protocol", <<"websocket">>),
     Slot(":scheme", <<"http">>), Slot(":path", <<"/">>)>>}
Named ==
  {Slot(":authority", <<"h">>), Slot(":authority", <<"g">>), Slot(":protocol", <<"x">>),
   Slot(":x", <<>>), Slot("host", <<"H">>), Slot("host", <<"g">>), Slot("Host", <<"h">>),
   Slot("cookie", <<"a">>), Slot("cookie", <<>>), Slot("content-length", <<"5">>),
   Slot("content-length", <<"x">>), Slot("connection", <<"x-a">>),
   Slot("transfer-encoding", <<"chunked">>), Slot("te", <<"trailers">>), Slot("te", <<"x">>),
   Slot("x-a", <<"v">>), Slot("x_a", <<"v">>), Slot("x-a", <<"v", " ">>), Slot("x-a", <<"!">>),
   Slot("x-forwarded-for", <<"v">>), Slot("expect", <<"100-continue">>), Slot("expect", <<"x">>),
   Slot("", <<>>)}
StatusFields ==
  {Slot(":status", <<"200">>), Slot(":path", <<"/">>), Slot("content-length", <<"5">>),
   Slot("content-length", <<"0">>), Slot("content-length", <<"x">>), Slot("te", <<"trailers">>),
   Slot("x-a", <<"v">>), Slot("cookie", <<"a">>), Slot("trailer", <<"x-a">>)}
Unit(u, f) == [u |-> u, framing |-> f]
By(how, n) == Unit("head", [err |-> "", how |-> how, len |-> n])
NoHead == [err |-> "RequestLineMalformed"]
Octet == Unit("octet", NoHead)
Sent ==
  {<<By("Exact", 2), Octet, Octet>>, <<By("Exact", 2), Octet>>, <<By("Empty", 0)>>,
   <<By("Streamed", 0), Octet, Unit("end", NoHead)>>,
   <<By("UntilClose", 0), Octet, Unit("close", NoHead)>>,
   <<Unit("head", [err |-> "ContentLengthDuplicate"])>>}

\* PROXY headers: lines of text with fields missing, doubled, misplaced or out
\* of range, and binary headers with every family, a length off by one and TLVs
\* that fit and do not fit.
Texts ==
  {<<80, 32>> \o k \o <<32>> \o a \o <<32>> \o b \o <<32>> \o p \o <<32>> \o q \o e \o <<7>> :
     k \in {<<52>>, <<54>>, <<85>>, <<90>>}, a \in {<<104>>, <<106>>, <<>>},
     b \in {<<105>>, <<106>>}, p \in {<<48, 49, 49>>, <<55>>, <<>>, <<49, 50>>},
     q \in {<<49, 49>>, <<48, 48, 48, 49>>, <<80>>},
     e \in {<<13, 10>>, <<10>>, <<32, 13, 10>>, <<10, 7, 13, 10>>, <<32, 55, 13, 10>>}}
  \cup {<<80, 32>> \o k \o e : k \in {<<>>, <<85>>, <<85, 85>>}, e \in {<<13, 10>>, <<10>>}}
  \cup {<<80, 80>>, <<13, 10, 13>>, <<7>>,
        <<80, 32, 85, 32>> \o [i \in 1 .. 12 |-> 7] \o <<13, 10>>,
        <<80, 32, 85, 32>> \o [i \in 1 .. 13 |-> 7] \o <<13, 10>>}
Blobs ==
  {<<13, 10, 0, 81, v, f, Len(b) + d>> \o b \o <<2, 1>> :
     v \in {32, 33, 34, 17}, f \in {0, 17, 18, 33, 34, 49, 50, 51}, d \in {-1, 0, 1},
     b \in {<<1, 2, 3, 4>>, <<1, 2, 3, 4, 5, 6>>, <<1, 2, 3, 4, 2, 0, 2, 1, 1>>,
            <<1, 2, 3, 4, 2, 1>>, <<1, 2, 3, 4, 2>>, <<1, 2, 3, 4, 5, 6, 7, 8, 2, 1, 1>>,
            <<2, 1, 1, 2, 0>>}}
Ends == {[ip |-> <<1>>, port |-> 7], [ip |-> <<2>>, port |-> 0], [ip |-> <<3, 4>>, port |-> 2]}

retry ==
  <<now, deadline, source, trusted, idempotent, treat_as_idempotent, retry_on,
    phase, attempts, committed, backoff, wake, processed, applied, budget, age>>
Try == INSTANCE Retry WITH
  Wrap <- 16, StartTimes <- {0, 13}, Hour <- 4, Minute <- 2, Second <- 2,
  MaxDigits <- 4, Budgets <- {-1, 1, 4, 9}, Inbounds <- {-1, 3},
  RouteTimeout <- 5, MinTimeout <- 2, MaxTimeout <- 7, FloorMs <- 2,
  HopOffset <- 1, RespectExpected <- TRUE, RetryOns <- {Safe, Eager},
  MaxAttempts <- 3, Base <- 1, Cap <- 3, Estimate <- 1, Pushbacks <- {-1, -2,
  0, 2, 6}, Statuses <- {"4xx", "5xx", "gateway", "grpc14"}

http ==
  <<http_phase, status, crlf, head_scanned, body, matched_at_len,
    verdict_pending, sent, closed, checks>>
Web == INSTANCE ProbeCodec WITH
  Http <- TRUE, Receive <- <<<<"a", "r">>, <<"n">>>>, MaxHead <- 6,
  BufferSize <- 4, MaxSent <- 8, StatusLines <- {"200", "204", "404", "503",
  "bad"}, Expected <- {"200", "204"}, Retriable <- {"503"}, NoBody <- {"204"},
  Bytes <- {"r", "n", "a"}, HeadMethod <- FALSE, MatchBatch <- 2,
  MaxChecks <- 2, phase <- http_phase

Tcp == INSTANCE ProbeCodec WITH
  Http <- FALSE, Receive <- <<<<"a", "a">>, <<"n">>>>, MaxHead <- 6,
  BufferSize <- 5, MaxSent <- 6, StatusLines <- {"200", "204", "404", "503",
  "bad"}, Expected <- {"200", "204"}, Retriable <- {"503"}, NoBody <- {"204"},
  Bytes <- {"r", "n", "a"}, HeadMethod <- FALSE, MatchBatch <- 2,
  MaxChecks <- 2, phase <- http_phase

grpc ==
  <<grpc_now, mode, last_message_at, next_ping_at,
    unary_checks_since_fallback, last_serving, action, asked, stream, opened,
    late, evidence, quiet, grpc_age>>
Grpc == INSTANCE GrpcProbe WITH
  PreferWatch <- TRUE, Interval <- 2, LivenessMultiplier <- 2,
  RetryAfter <- 2, Radix <- 16, MaxVarint <- 3, MaxMessage <- 18,
  StatusWidth <- 16, Wrap <- 16, Start <- 12, MaxAge <- 9, now <- grpc_now,
  age <- grpc_age

Unwatched == INSTANCE GrpcProbe WITH
  PreferWatch <- FALSE, Interval <- 2, LivenessMultiplier <- 2,
  RetryAfter <- 2, Radix <- 16, MaxVarint <- 3, MaxMessage <- 18,
  StatusWidth <- 16, Wrap <- 16, Start <- 12, MaxAge <- 9, now <- grpc_now,
  age <- grpc_age

chunk ==
  <<dec, err, buf, fresh, chunk_body, wire, sender, expect>>
Chunk == INSTANCE ChunkedBody WITH
  Base <- 2, MAX_SIZE_DIGITS <- 2, MaxExt <- 6, MaxLine <- 3, MaxCount <- 2,
  MaxList <- 8, Overhead <- 2, Slack <- 5, MaxScan <- 60,
  MAX_DENIABLE_NAME_LEN <- 1, MapToHyphen <- TRUE, Terminators <- {<<"CR",
  "LF">>, <<"LF">>, <<"CR", "x">>}, Data <- {<<>>, <<"LF">>, <<"CR", "LF">>},
  MaxChunks <- 2, MaxTrailers <- 2, MaxAhead <- 1, body <- chunk_body

head ==
  <<method, lines, head_wire, head_buf, msg, out, interim>>
Ask == INSTANCE HttpHead WITH
  Kind <- "request", FirstLines <- RequestLines, FieldLines <- Asked,
  LineEnds <- {<<"CR", "LF">>}, Drip <- FALSE, MaxFields <- 3,
  WillBuffer <- FALSE, MaxFirst <- 8, MaxLine <- 4, MaxCount <- 9,
  MaxList <- 19, Overhead <- 2, MapToHyphen <- TRUE, AcceptCodings <- TRUE,
  ForwardProxy <- TRUE, KeepAlive <- TRUE, Methods <- {"GET", "HEAD",
  "CONNECT"}, MaxInterim <- 1, MaxInterimBytes <- 40, MaxCodings <- 8,
  MaxTokens <- 2, DefaultHost <- "g", wire <- head_wire, buf <- head_buf

Dripped == INSTANCE HttpHead WITH
  Kind <- "request", FirstLines <- RequestLines, FieldLines <- Odd,
  LineEnds <- {<<"CR", "LF">>, <<"LF">>, <<"CR">>}, Drip <- TRUE,
  MaxFields <- 1, WillBuffer <- FALSE, MaxFirst <- 8, MaxLine <- 4,
  MaxCount <- 9, MaxList <- 19, Overhead <- 2, MapToHyphen <- TRUE,
  AcceptCodings <- TRUE, ForwardProxy <- TRUE, KeepAlive <- TRUE,
  Methods <- {"GET", "HEAD", "CONNECT"}, MaxInterim <- 1,
  MaxInterimBytes <- 40, MaxCodings <- 8, MaxTokens <- 2, DefaultHost <- "g",
  wire <- head_wire, buf <- head_buf

Answer == INSTANCE HttpHead WITH
  Kind <- "response", FirstLines <- StatusLineSet, FieldLines <- Framing,
  LineEnds <- {<<"CR", "LF">>}, Drip <- FALSE, MaxFields <- 2,
  WillBuffer <- TRUE, MaxFirst <- 8, MaxLine <- 4, MaxCount <- 9,
  MaxList <- 19, Overhead <- 2, MapToHyphen <- TRUE, AcceptCodings <- TRUE,
  ForwardProxy <- TRUE, KeepAlive <- TRUE, Methods <- {"GET", "HEAD",
  "CONNECT"}, MaxInterim <- 1, MaxInterimBytes <- 40, MaxCodings <- 8,
  MaxTokens <- 2, DefaultHost <- "g", wire <- head_wire, buf <- head_buf

mplex ==
  <<mplex_stream, conn, mplex_opened>>
Mplex == INSTANCE Exchange WITH
  Kind <- "request", Starts <- Blocks, Fields <- Named, MaxPush <- 3,
  Frames <- {}, MaxOctets <- 0, TrailerBlocks <- {}, Replies <- {},
  MaxReplies <- 0, MaxRequests <- 1, MaxCrumbs <- 2, MaxLine <- 6,
  MaxCount <- 7, MaxList <- 19, Overhead <- 1, Method <- "GET",
  stream <- mplex_stream, opened <- mplex_opened

Coded == INSTANCE Exchange WITH
  Kind <- "response", Starts <- {<<Slot(":status", <<c>>)>> : c \in {"200",
  "204", "x"}}, Fields <- StatusFields, MaxPush <- 2, Frames <- {0, 2, 3, 4},
  MaxOctets <- 6, TrailerBlocks <- {}, Replies <- {}, MaxReplies <- 0,
  MaxRequests <- 1, MaxCrumbs <- 2, MaxLine <- 6, MaxCount <- 7,
  MaxList <- 19, Overhead <- 1, Method <- "GET", stream <- mplex_stream,
  opened <- mplex_opened

Exchange == INSTANCE Exchange WITH
  Kind <- "request", Starts <- {Get \o <<Slot(":authority", <<"h">>)>>},
  Fields <- {Slot("content-length", <<"5">>), Slot("content-length",
  <<"0">>)}, MaxPush <- 1, Frames <- {0, 2, 3}, MaxOctets <- 6,
  TrailerBlocks <- {<<Slot("x-a", <<"v">>)>>, <<Slot("host", <<"g">>)>>,
  <<Slot(":path", <<"/">>)>>}, Replies <- Sent, MaxReplies <- 2,
  MaxRequests <- 3, MaxCrumbs <- 2, MaxLine <- 6, MaxCount <- 7,
  MaxList <- 19, Overhead <- 1, Method <- "GET", stream <- mplex_stream,
  opened <- mplex_opened

path ==
  <<raw, req, path_applied, routed>>
Path == INSTANCE PathNorm WITH
  Alphabet <- {"/", ".", "a", "%2E", "?"}, MaxUnits <- 5,
  MergeSlashes <- FALSE, MaxPathBytes <- 12, RejectDot <- TRUE,
  RejectSlash <- TRUE, MaxRewrites <- 2, applied <- path_applied

Merged == INSTANCE PathNorm WITH
  Alphabet <- {"/", ".", "a", "%61", "%2e", "%2E", "%2F", "%00", "%zz", "%",
  "?", "#", " "}, MaxUnits <- 4, MergeSlashes <- TRUE, MaxPathBytes <- 12,
  RejectDot <- TRUE, RejectSlash <- TRUE, MaxRewrites <- 2,
  applied <- path_applied

chain ==
  <<row, at, fields, peer, declared, ids, refused>>
Chain == INSTANCE Hops WITH
  V4 <- {"c", "x", "p", "q", "b"}, V6 <- {"v6", "w6"}, Client <- "c",
  Balancer <- "b", MaxBytes <- 36, MaxElements <- 3

encoded ==
  <<encoded_out, enc, ends, kept, skipped, encoded_sent, got, verdict>>
Encoded == INSTANCE ProxyHeader WITH
  Streams <- {}, Sockets <- Ends, ValueLens <- {0, 1, 3, 4, 6, 13},
  Prior <- <<13, 10, 0, 81, 33, 17, 0>>, App <- <<2, 0, 2>>, MaxTlvs <- 3,
  MAX_V1_LINE <- 18, MaxDigits <- 3, MaxPort <- 11, MAX_PAYLOAD_LEN <- 12,
  out <- encoded_out, sent <- encoded_sent

Proxied == INSTANCE ProxyHeader WITH
  Streams <- Texts \cup Blobs, Sockets <- {}, ValueLens <- {}, Prior <- <<>>,
  App <- <<>>, MaxTlvs <- 0, MAX_V1_LINE <- 18, MaxDigits <- 3, MaxPort <- 11,
  MAX_PAYLOAD_LEN <- 12, out <- encoded_out, sent <- encoded_sent

vars == <<part, retry, http, grpc, chunk, head, mplex, path, chain, encoded>>

Init ==
  /\ part \in {"retry", "http", "tcp", "grpc", "unwatched", "chunk", "head",
      "dripped", "answer", "mplex", "coded", "exchange", "path", "merged",
      "chain", "encoded", "proxied"}
  /\ Try!Init
  /\ IF part = "tcp" THEN Tcp!Init ELSE Web!Init
  /\ IF part = "unwatched" THEN Unwatched!Init ELSE Grpc!Init
  /\ Chunk!Init
  /\ IF part = "dripped" THEN Dripped!Init ELSE IF part = "answer" THEN Answer!Init ELSE Ask!Init
  /\ IF part = "coded" THEN Coded!Init ELSE IF part = "exchange" THEN Exchange!Init ELSE Mplex!Init
  /\ IF part = "merged" THEN Merged!Init ELSE Path!Init
  /\ Chain!Init
  /\ IF part = "proxied" THEN Proxied!Init ELSE Encoded!Init
  /\ part # "retry" =>
       now = 0 /\ trusted /\ idempotent /\ retry_on = Safe
  /\ part # "chunk" => sender.by = "peer"
  /\ part # "answer" => method = "GET"

Next ==
  \/ part = "retry" /\ Try!Next
     /\ UNCHANGED <<part, http, grpc, chunk, head, mplex, path, chain, encoded>>
  \/ part = "http" /\ Web!Next
     /\ UNCHANGED <<part, retry, grpc, chunk, head, mplex, path, chain, encoded>>
  \/ part = "tcp" /\ Tcp!Next
     /\ UNCHANGED <<part, retry, grpc, chunk, head, mplex, path, chain, encoded>>
  \/ part = "grpc" /\ Grpc!Next
     /\ UNCHANGED <<part, retry, http, chunk, head, mplex, path, chain, encoded>>
  \/ part = "unwatched" /\ Unwatched!Next
     /\ UNCHANGED <<part, retry, http, chunk, head, mplex, path, chain, encoded>>
  \/ part = "chunk" /\ Chunk!Next
     /\ UNCHANGED <<part, retry, http, grpc, head, mplex, path, chain, encoded>>
  \/ part = "head" /\ Ask!Next
     /\ UNCHANGED <<part, retry, http, grpc, chunk, mplex, path, chain, encoded>>
  \/ part = "dripped" /\ Dripped!Next
     /\ UNCHANGED <<part, retry, http, grpc, chunk, mplex, path, chain, encoded>>
  \/ part = "answer" /\ Answer!Next
     /\ UNCHANGED <<part, retry, http, grpc, chunk, mplex, path, chain, encoded>>
  \/ part = "mplex" /\ Mplex!Next
     /\ UNCHANGED <<part, retry, http, grpc, chunk, head, path, chain, encoded>>
  \/ part = "coded" /\ Coded!Next
     /\ UNCHANGED <<part, retry, http, grpc, chunk, head, path, chain, encoded>>
  \/ part = "exchange" /\ Exchange!Next
     /\ UNCHANGED <<part, retry, http, grpc, chunk, head, path, chain, encoded>>
  \/ part = "path" /\ Path!Next
     /\ UNCHANGED <<part, retry, http, grpc, chunk, head, mplex, chain, encoded>>
  \/ part = "merged" /\ Merged!Next
     /\ UNCHANGED <<part, retry, http, grpc, chunk, head, mplex, chain, encoded>>
  \/ part = "chain" /\ Chain!Next
     /\ UNCHANGED <<part, retry, http, grpc, chunk, head, mplex, path, encoded>>
  \/ part = "encoded" /\ Encoded!Next
     /\ UNCHANGED <<part, retry, http, grpc, chunk, head, mplex, path, chain>>
  \/ part = "proxied" /\ Proxied!Next
     /\ UNCHANGED <<part, retry, http, grpc, chunk, head, mplex, path, chain>>

Spec == Init /\ [][Next]_vars

-----------------------------------------------------------------------------
\* Deadline, retryable and resolve_backoff: the origin acts at most once on a
\* request that cannot be repeated, no attempt follows the commit point, all
\* attempts share the deadline of ingress, and no hop is told more than is
\* left of it.
RetrySound ==
  part = "retry" =>
       Try!AppliedOnce /\ Try!CommitIsFinal /\ Try!WithinFirstBudget /\
       Try!BudgetShrinks


\* The PROXY protocol: a header that the encoder finishes arrives as the same
\* addresses with the stream behind it intact, whatever was left out for
\* space; and what a receiver reads from any stream is the header at its
\* front, however the bytes were cut, but for a bare LF within an UNKNOWN
\* line.
ProxySound ==
  /\ part = "proxied" => Proxied!ReadsHeaders /\ Proxied!WaitsNoLonger
  /\ part = "encoded" => Encoded!ReadsHeaders /\ Encoded!HeaderArrives


\* The path a request is routed by is the path that is forwarded, in normal
\* form, after every rewrite; and along a chain of proxies each hop resolves
\* the true client and its scheme from what its trust policy lets it believe,
\* or refuses.
TargetSound ==
  /\ part = "path" => Path!WalksAsSegments /\ Path!Normal /\ Path!RoutedAsForwarded
  /\ part = "merged" => Merged!Normal /\ Merged!RoutedAsForwarded
  /\ part = "chain" => Chain!TrueClient /\ Chain!SchemeFromHop /\ Chain!RefusedAtTheEdge
=============================================================================
